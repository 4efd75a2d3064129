------------------------------ MODULE MCPipeline ------------------------------
(* Series of up to four small values, so that the default window of three, *)
(* the third lag and the volatility of three returns all occur; tokens of  *)
(* which one is the separator; batches with items that a tree hashes for   *)
(* a node; two assets over three days.                                     *)
EXTENDS Pipeline

MCSeries == BoundedSeq(0..2, 4)
MCLagList == {<<0, 2>>, <<3>>}
MCPredictions == BoundedSeq([xgboost : 0..2, lstm : 0..2], 2)
MCActual == BoundedSeq(0..2, 2)
At(v) == [i \in DOMAIN v |-> <<i, v[i]>>]
MCChart == {[prices |-> At(v), volumes |-> At([i \in 1..n |-> i % 3])] :
              v \in BoundedSeq(0..2, 5), n \in {2, 5}}
MCNumber == {<<"1">>, <<"1", "2">>}
MCSalt == {<<"2", "2">>}
MCField == {<<>>, <<"2">>, <<"|">>, <<"2", "|">>}
AB == Leaves(<<<<"a">>, <<"b">>>>)
MCItem == {<<"a">>, <<"b">>, <<"empty">>, JoinText(<<<<AB[1]>>, <<AB[2]>>>>)}
MCBatch == BoundedSeq({<<"a">>, <<"b">>}, 5) \cup BoundedSeq(MCItem, 3)
MCFrame == BoundedSeq([asset_id : {1, 2}, timestamp : 1..3, target : {0, 1}], 3)
             \cup SeqOf([asset_id : {1}, timestamp : 1..2, target : {0, 1}], 4)
=============================================================================
