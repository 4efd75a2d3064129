------------------------------- MODULE Pipeline -------------------------------
(***************************************************************************)
(* The pipeline as its callers see it: the HTTP endpoints, each called by  *)
(* a method of the Python adapter, and the library functions beside them.  *)
(* A caller sends a request, a handler works on it, the caller gets the    *)
(* reply or, if the handler panicked, an error.  All that outlives a       *)
(* request is the commitment its caller remembers until it sends another.  *)
(***************************************************************************)
EXTENDS Features, Ensemble, Provenance, FeatureTable

CONSTANTS Series,          \* lists of values
          Window, LagList, Period,
          Predictions,     \* lists of predictions [xgboost, lstm]
          Actual,          \* lists of actual values
          Chart,           \* responses of the price API, lists of <<time, value>>
          Number,          \* texts of predictions, which hold no separator
          Salt,            \* texts generate_salt returns
          Field,           \* texts of the other fields of a request
          Item,            \* texts, be they what a Merkle tree hashes or not
          Batch,           \* lists of items
          Frame            \* data frames

ASSUME TextAssumption == /\ Number \cup Salt \cup Field \subseteq Seq(STRING)
                         /\ \A t \in Number : \A i \in DOMAIN t : t[i] # Separator

(* Numbers are integers, and what a request or a response lists is a list.  *)
ASSUME InputAssumption ==
    /\ Series \cup Actual \subseteq Seq(Int) /\ Window \subseteq Nat
    /\ Predictions \subseteq Seq([xgboost : Int, lstm : Int])
    /\ Chart \subseteq [prices : Seq(Nat \X Int), volumes : Seq(Nat \X Int)]
    /\ Batch \subseteq Seq(Item)
    /\ Frame \subseteq Seq([asset_id : Int, timestamp : Int, target : Int])

VARIABLES request, reply, committed

vars == <<request, reply, committed>>

Nothing == [kind |-> "none"]
Panicked == [kind |-> "panic"]

-----------------------------------------------------------------------------
(* The requests.  An optional argument is a set of at most one value.       *)
RollingRequest == [kind : {"rolling"}, values : Series,
                   window_size : {None} \cup {Some(w) : w \in Window}]
LagRequest == [kind : {"lag"}, values : Series, lags : LagList]
GrowthRequest == [kind : {"growth"}, values : Series, periods : Period]
PredictRequest == [kind : {"predict"}, prediction : UNION {ToSet(p) : p \in Predictions},
                   weights : {None} \cup {Some(OnGrid(i)) : i \in GridPoints}]
OptimizeRequest == [kind : {"optimize"}, predictions : Predictions, actual : Actual,
                    method : {"grid", "gradient"}]
EvaluateRequest == [kind : {"evaluate"}, predictions : Series, actual : Series]
CommitRequest == [kind : {"commit"}, prediction : Number, model_hash : Field, input_hash : Field]
VerifyRequest == [kind : {"verify"}, prediction : Number, salt : Field \cup Salt,
                  model_hash : Field, input_hash : Field]
IngestRequest == [kind : {"ingest"}]
BatchRequest == [kind : {"batch"}, items : Batch]
TableRequest == [kind : {"table"}, frame : Frame]

Requests == UNION {RollingRequest, LagRequest, GrowthRequest, PredictRequest, OptimizeRequest,
                   EvaluateRequest, CommitRequest, VerifyRequest, IngestRequest,
                   BatchRequest, TableRequest}

Init == request = Nothing /\ reply = Nothing /\ committed = Nothing

(* A request; a caller verifies what was committed to last.                 *)
Ask == /\ request = Nothing
       /\ request' \in Requests
       /\ request'.kind = "verify" => committed # Nothing
       /\ committed' = IF request'.kind = "verify" THEN committed ELSE Nothing
       /\ UNCHANGED reply

(* raise_for_status and json(): the caller has its reply, or an error.      *)
TakeReply == /\ reply # Nothing
             /\ request' = Nothing /\ reply' = Nothing
             /\ UNCHANGED committed

Serving(kind) == request.kind = kind /\ reply = Nothing /\ UNCHANGED request
Reply(r) == reply' = r /\ UNCHANGED committed

-----------------------------------------------------------------------------
(* The window of the request, or that of the engine of AppState.            *)
WindowOf(r) == IF r.window_size = None THEN DefaultWindow
               ELSE CHOOSE w \in r.window_size : TRUE

(* compute_rolling_features.  A window of zero panics in a build that       *)
(* checks for overflow and leaves every entry empty in one that does not.   *)
ServeRolling ==
    /\ Serving("rolling")
    /\ LET v == request.values
           w == WindowOf(request)
       IN \/ Overflows(v, w) /\ Reply(Panicked)
          \/ Reply([kind |-> "rolling", mean |-> RollingMean(v, w), std |-> RollingStd(v, w),
                    min |-> RollingMin(v, w), max |-> RollingMax(v, w)])

ServeLag == Serving("lag")
    /\ Reply([kind |-> "lag", lags |-> LagFeatures(request.values, request.lags)])

ServeGrowth == Serving("growth")
    /\ Reply([kind |-> "growth", rates |-> GrowthRate(request.values, request.periods)])

ServePredict ==
    /\ Serving("predict")
    /\ LET w == IF request.weights = None THEN Uniform ELSE CHOOSE w \in request.weights : TRUE
       IN Reply([kind |-> "predict", final |-> Predict(w, request.prediction), weights |-> w])

(* What gradient descent may end with: weights that add up to one, or none  *)
(* at all, to which no predictions always lead.                             *)
GradientDescent(predictions) ==
    {[xgboost |-> 0, lstm |-> 0]} \cup
    (IF predictions = <<>> THEN {} ELSE {OnGrid(i) : i \in 0..GridResolution})

(* optimize_ensemble.  The grid's losses are NaN without predictions, and   *)
(* evaluate asserts that the lists are equally long.                        *)
ServeOptimize ==
    /\ Serving("optimize")
    /\ LET p == request.predictions a == request.actual grid == request.method = "grid"
       IN IF Len(p) # Len(a) \/ (grid /\ p = <<>>) THEN Reply(Panicked)
          ELSE \E w \in IF grid THEN GridSearch(p, a) ELSE GradientDescent(p) :
                 Reply([kind |-> "optimize", weights |-> w, metrics |-> Evaluate(p, a, w)])

ServeEvaluate ==
    /\ Serving("evaluate")
    /\ IF Len(request.predictions) # Len(request.actual) THEN Reply(Panicked)
       ELSE Reply([kind |-> "evaluate", metrics |-> Metrics(request.predictions, request.actual)])

(* create_commitment; its caller keeps the opening.                         *)
ServeCommit ==
    /\ Serving("commit")
    /\ \E salt \in Salt :
         LET hash == ComputeHash(request.prediction, salt, request.model_hash, request.input_hash)
         IN /\ reply' = [kind |-> "commit", hash |-> hash, salt |-> salt]
            /\ committed' = [kind |-> "commit", hash |-> hash, prediction |-> request.prediction,
                             salt |-> salt, model_hash |-> request.model_hash,
                             input_hash |-> request.input_hash]

ServeVerify == Serving("verify")
    /\ Reply([kind |-> "verify", valid |-> Verify(committed.hash, request)])

(* fetch_price_history: prices and volumes are paired by position.          *)
PriceHistory(chart) ==
    [i \in DOMAIN Zip2(chart.prices, chart.volumes) |->
       [timestamp |-> chart.prices[i][1], price |-> chart.prices[i][2],
        volume |-> chart.volumes[i][2]]]

(* ingest_prices; a fetch that fails counts as one without data.            *)
ServeIngest ==
    /\ Serving("ingest")
    /\ \/ Reply([kind |-> "ingest", rows |-> <<>>])
       \/ \E chart \in Chart :
            Reply([kind |-> "ingest", rows |-> GenerateFeatures(PriceHistory(chart))])

(* The library functions: MerkleTree::from_data, prepare_features.          *)
ServeBatch == Serving("batch") /\ Reply([kind |-> "batch", root |-> Root(request.items)])

ServeTable == Serving("table")
    /\ Reply([kind |-> "table", rows |-> PrepareFeatures(request.frame)])

Next == \/ Ask \/ TakeReply
        \/ ServeRolling \/ ServeLag \/ ServeGrowth
        \/ ServePredict \/ ServeOptimize \/ ServeEvaluate
        \/ ServeCommit \/ ServeVerify
        \/ ServeIngest \/ ServeBatch \/ ServeTable

Spec == Init /\ [][Next]_vars

-----------------------------------------------------------------------------
Replied(kind) == reply.kind = kind

Truncated(s, k) == SubSeq(s, 1, k)

WithoutTarget(row) == [row EXCEPT !.target = None]

(* No feature looks ahead: on the first k points of a series the engine     *)
(* returns the first k entries of what it returns on the whole (only the    *)
(* target of an ingested row is the next price).                            *)
FeaturesAreCausal ==
    /\ Replied("rolling") =>
         \A k \in 0..Len(request.values) :
           LET v == Truncated(request.values, k)
               w == WindowOf(request)
           IN /\ Truncated(reply.mean, k) = RollingMean(v, w)
              /\ Truncated(reply.std, k) = RollingStd(v, w)
              /\ Truncated(reply.min, k) = RollingMin(v, w)
              /\ Truncated(reply.max, k) = RollingMax(v, w)
    /\ Replied("ingest") =>
         LET history == [i \in DOMAIN reply.rows |->
                           [timestamp |-> reply.rows[i].timestamp,
                            price |-> reply.rows[i].price, volume |-> reply.rows[i].volume]]
         IN \A k \in DOMAIN history : \A i \in 1..k :
              WithoutTarget(reply.rows[i]) =
                WithoutTarget(GenerateFeatures(Truncated(history, k))[i])

(* The columns of one row tell the same story: the statistics of a window   *)
(* are there together and in order, and lags, momentum, growth rates and    *)
(* targets of a row name the same prices.                                   *)
FeaturesAgree ==
    /\ Replied("rolling") =>
         \A w \in {WindowOf(request)} \ {0}, i \in DOMAIN reply.mean :
           /\ \A column \in {reply.mean, reply.std, reply.min, reply.max} :
                column[i] # None <=> i >= w
           /\ \A mean \in reply.mean[i], lo \in reply.min[i], hi \in reply.max[i] :
                /\ w * lo <= mean /\ mean <= w * hi
                /\ reply.std[i] = Some(0) <=> lo = hi
    /\ Replied("ingest") =>
         \A i \in DOMAIN reply.rows :
           LET row == reply.rows[i]
           IN /\ \A n \in {1, 3} :
                   LET change == IF n = 1 THEN row.momentum_1 ELSE row.momentum_3
                       rate == IF n = 1 THEN row.rate_of_change_1 ELSE row.rate_of_change_3
                   IN /\ change = {row.price - x : x \in row.lag[n]}
                      /\ rate = {<<row.price - x, x>> : x \in row.lag[n] \ {0}}
              /\ i > 1 => row.lag[1] = Some(reply.rows[i - 1].price)
              /\ i > 1 => reply.rows[i - 1].target = Some(row.price)
              /\ row.volatility # None => row.std # None
              /\ row.volatility_ratio = None <=> row.volatility = None

(* Optimising pays: on the data it was given, the grid's weights are as     *)
(* good as either model alone and as uniform weights, as /evaluate would    *)
(* measure them on what /predict returns, and they add up to one.           *)
OptimumIsBest ==
    Replied("optimize") /\ request.method = "grid" =>
      /\ reply.weights.xgboost + reply.weights.lstm = GridResolution
      /\ \A w \in {OnGrid(0), OnGrid(GridResolution), Uniform} :
           reply.metrics.squares <= Evaluate(request.predictions, request.actual, w).squares

(* The metrics of a reply do not contradict each other.  The mean error is  *)
(* at most the root of the mean square and zero just if that is; then every *)
(* move has the right direction.  mape is zero just if all errors are at    *)
(* actual values of zero; r_squared is at most one, and one just for a      *)
(* prediction without error of values that are not all the same.            *)
MetricsAgree ==
    Replied("evaluate") =>
      LET m == reply.metrics p == request.predictions a == request.actual
          mape_zero == \A i \in DOMAIN m.mape : \A z \in m.mape[i] : z[1] = 0
      IN /\ m.abs * m.abs <= m.sample_count * m.squares
         /\ m.abs = 0 <=> m.squares = 0
         /\ m.abs = 0 /\ m.sample_count > 0 => m.correct = m.sample_count - 1
         /\ mape_zero <=> \A i \in DOMAIN a : a[i] = 0 \/ p[i] = a[i]
         /\ m.r_squared[1] <= m.r_squared[2]
         /\ m.r_squared[1] = m.r_squared[2]
              <=> m.abs = 0 /\ \E i, j \in DOMAIN a : a[i] # a[j]

(* "A commitment: Hash(prediction || salt || model_hash || input_hash)":    *)
(* whatever is passed off as salt and hashes, only the prediction that was  *)
(* committed to verifies, and its own opening does.                         *)
CommitmentBindsPrediction ==
    Replied("verify") =>
      /\ reply.valid => request.prediction = committed.prediction
      /\ (\A f \in {"prediction", "salt", "model_hash", "input_hash"} :
            request[f] = committed[f]) => reply.valid

(* Every item of one batch is a text that the tree of the other hashes.     *)
Mimics(items, other) == items # <<>> /\ Range(items) \subseteq NodeTexts(other)

(* A root identifies its batch, up to the repetition of its end that fills  *)
(* the levels, and up to items that are the texts of another tree's nodes,  *)
(* as leaves and nodes are hashed alike; batches of one length never share  *)
(* a root.                                                                  *)
RootIdentifiesBatch ==
    Replied("batch") =>
      \A other \in Batch :
        /\ Filled(other) = Filled(request.items) => Root(other) = reply.root
        /\ Root(other) = reply.root => \/ Filled(other) = Filled(request.items)
                                       \/ Mimics(other, request.items)
                                       \/ Mimics(request.items, other)
        /\ Root(other) = reply.root /\ Len(other) = Len(request.items) => other = request.items

(* Lags and rolling columns depend on earlier rows of the same asset only:  *)
(* no change to another row's target reaches them.                          *)
TableLooksBack ==
    Replied("table") =>
      \A i, j \in DOMAIN request.frame :
        ~Precedes(request.frame, j, i) =>
          LET other == [request.frame EXCEPT ![j].target = 1 - @]
          IN reply.rows[i].past = PrepareFeatures(other)[i].past
=============================================================================
