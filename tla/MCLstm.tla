-------------------------------- MODULE MCLstm --------------------------------
(* No rows, no sequence, too few to split, and enough.                      *)
EXTENDS LstmTraining

MCFrames == [lengths : {<<>>, <<1>>, <<2, 1>>, <<2, 2>>},
             columns : {{"target", "volume"}, {"target"}, {"volume"}},
             clean : BOOLEAN]
=============================================================================
