---------------------------- MODULE PipelineProofs ----------------------------
(* What the pipeline's answers promise, for any input.                      *)
EXTENDS Pipeline, SumProofs, SequenceTheorems

Known == request \in Requests \cup {Nothing} /\ (request = Nothing => reply = Nothing)

(* A request is of the kind it says, and is worked on once it is there.     *)
LEMMA KindsApart ==
    ASSUME NEW r \in Requests
    PROVE  /\ r.kind = "rolling" => r \in RollingRequest
           /\ r.kind = "evaluate" => r \in EvaluateRequest
           /\ r.kind = "optimize" => r \in OptimizeRequest
           /\ r.kind = "verify" => r \in VerifyRequest
           /\ r.kind = "commit" => r \in CommitRequest
           /\ r.kind = "batch" => r \in BatchRequest
           /\ r.kind = "table" => r \in TableRequest
BY DEF Requests, RollingRequest, LagRequest, GrowthRequest, PredictRequest, OptimizeRequest,
       EvaluateRequest, CommitRequest, VerifyRequest, IngestRequest, BatchRequest, TableRequest

LEMMA KnownInit == Init => Known /\ reply = Nothing
BY DEF Init, Known

LEMMA KnownStep == ASSUME Known, [Next]_vars PROVE Known'
<1>1. CASE Ask
  BY <1>1 DEF Ask, Known
<1>2. CASE TakeReply
  BY <1>2 DEF TakeReply, Known
<1>3. CASE UNCHANGED vars
  BY <1>3 DEF vars, Known
<1>4. ASSUME NEW kind, kind # "none", Serving(kind) PROVE Known'
  BY <1>4 DEF Serving, Known, Nothing
<1> QED
  BY <1>1, <1>2, <1>3, <1>4
     DEF Next, ServeRolling, ServeLag, ServeGrowth, ServePredict, ServeOptimize, ServeEvaluate,
         ServeCommit, ServeVerify, ServeIngest, ServeBatch, ServeTable

(* What a step that does not serve a request of a kind leaves of its reply. *)
LEMMA OtherReplies ==
    ASSUME Known, [Next]_vars
    PROVE  /\ UNCHANGED vars \/ reply' = Nothing \/ (request # Nothing /\ request' = request)
           /\ reply'.kind = "rolling" => UNCHANGED vars \/ ServeRolling
           /\ reply'.kind = "evaluate" => UNCHANGED vars \/ ServeEvaluate
           /\ reply'.kind = "optimize" => UNCHANGED vars \/ ServeOptimize
           /\ reply'.kind = "verify" => UNCHANGED vars \/ ServeVerify
           /\ reply'.kind = "ingest" => UNCHANGED vars \/ ServeIngest
           /\ reply'.kind = "batch" => UNCHANGED vars \/ ServeBatch
           /\ reply'.kind = "table" => UNCHANGED vars \/ ServeTable
<1>1. CASE reply' = Nothing
  BY <1>1 DEF Nothing
<1>2. ASSUME NEW kind, kind # "none", Serving(kind) PROVE request # Nothing /\ request' = request
  BY <1>2 DEF Serving, Nothing
<1>3. CASE \/ ServeRolling \/ ServeEvaluate \/ ServeOptimize
           \/ ServeVerify \/ ServeIngest \/ ServeTable
  <2> USE <1>2 DEF Reply, Panicked
  <2>1. CASE ServeRolling
    BY <2>1 DEF ServeRolling
  <2>2. CASE ServeEvaluate
    BY <2>2 DEF ServeEvaluate
  <2>3. CASE ServeOptimize
    BY <2>3 DEF ServeOptimize
  <2>4. CASE ServeVerify
    BY <2>4 DEF ServeVerify
  <2>5. CASE ServeIngest
    BY <2>5 DEF ServeIngest
  <2>6. CASE ServeTable
    BY <2>6 DEF ServeTable
  <2> QED
    BY <1>3, <2>1, <2>2, <2>3, <2>4, <2>5, <2>6
<1>4. CASE ServeLag \/ ServeGrowth \/ ServePredict \/ ServeCommit \/ ServeBatch
  BY <1>2, <1>4 DEF ServeLag, ServeGrowth, ServePredict, ServeCommit, ServeBatch, Reply
<1>5. CASE Ask
  BY <1>1, <1>5 DEF Ask, Known
<1>6. CASE TakeReply
  BY <1>1, <1>6 DEF TakeReply
<1> QED
  BY <1>3, <1>4, <1>5, <1>6 DEF Next

-----------------------------------------------------------------------------
(* What is hashed starts with the prediction and the first separator.       *)
Token == STRING \cup {Separator}

StartsWith(text, part) ==
    /\ text \in Seq(Token) /\ Len(text) > Len(part)
    /\ \A i \in 1..Len(part) : text[i] = part[i]
    /\ text[Len(part) + 1] = Separator

LEMMA StartsWithMore ==
    ASSUME NEW part \in Seq(Token), NEW text, StartsWith(text, part), NEW more \in Seq(Token)
    PROVE  StartsWith(text \o more, part)
<1> DEFINE longer == text \o more
<1>1. /\ longer \in Seq(Token) /\ Len(longer) = Len(text) + Len(more)
      /\ \A i \in 1..Len(text) : longer[i] = text[i]
      /\ Len(part) \in Nat /\ Len(text) \in Nat /\ Len(more) \in Nat
  BY DEF StartsWith
<1> HIDE DEF longer
<1>2. Len(part) + 1 \in 1..Len(text) /\ \A i \in 1..Len(part) : i \in 1..Len(text)
  BY <1>1 DEF StartsWith
<1>3. StartsWith(longer, part)
  BY <1>1, <1>2 DEF StartsWith
<1> QED
  BY <1>3 DEF longer

LEMMA StartsWithFirst ==
    ASSUME NEW part \in Seq(Token)
    PROVE  StartsWith(part \o <<Separator>>, part)
<1>1. ASSUME NEW bar \in Seq(Token), Len(bar) = 1, bar[1] = Separator
      PROVE  StartsWith(part \o bar, part)
  <2> DEFINE text == part \o bar
  <2>1. Len(part) \in Nat /\ text \in Seq(Token) /\ Len(text) = Len(part) + Len(bar)
    OBVIOUS
  <2>2. \A i \in 1..Len(part) : text[i] = part[i]
    OBVIOUS
  <2>3. \A i \in (Len(part) + 1)..(Len(part) + Len(bar)) : text[i] = bar[i - Len(part)]
    OBVIOUS
  <2> HIDE DEF text
  <2>4. Len(part) + 1 \in (Len(part) + 1)..(Len(part) + Len(bar))
        /\ (Len(part) + 1) - Len(part) = 1
    BY <1>1, <2>1
  <2>5. StartsWith(text, part)
    BY <1>1, <2>1, <2>2, <2>3, <2>4 DEF StartsWith
  <2> QED
    BY <2>5 DEF text
<1>2. <<Separator>> \in Seq(Token) /\ Len(<<Separator>>) = 1 /\ <<Separator>>[1] = Separator
  BY DEF Token
<1> QED
  BY <1>1, <1>2

(* One more part joined on.                                                 *)
Joined(t, p) == t \o <<Separator>> \o p

LEMMA JoinedStarts ==
    ASSUME NEW part \in Seq(Token), NEW more \in Seq(Token), NEW t,
           t = part \/ StartsWith(t, part)
    PROVE  StartsWith(Joined(t, more), part)
<1>1. <<Separator>> \in Seq(Token)
  BY DEF Token
<1>2. StartsWith(t \o <<Separator>>, part)
  <2>1. CASE t = part
    BY <2>1, StartsWithFirst
  <2>2. CASE StartsWith(t, part)
    BY <1>1, <2>2, StartsWithMore
  <2> QED
    BY <2>1, <2>2
<1> QED
  BY <1>2, StartsWithMore DEF Joined

(* The text JoinText chooses, for its parts.                                *)
IsJoin(text, parts) ==
    text = [k \in DOMAIN parts |-> IF k = 1 THEN parts[1] ELSE Joined(text[k - 1], parts[k])]

LEMMA JoinedText ==
    ASSUME NEW parts
    PROVE  JoinText(parts) = (CHOOSE text : IsJoin(text, parts))[Len(parts)]
BY DEF JoinText, IsJoin, Joined

LEMMA JoinExists ==
    ASSUME NEW parts, DOMAIN parts = 1..4
    PROVE  \E text : IsJoin(text, parts)
<1> DEFINE ab == Joined(parts[1], parts[2])
           abc == Joined(ab, parts[3])
           abcd == Joined(abc, parts[4])
           text == [k \in 1..4 |-> IF k = 1 THEN parts[1] ELSE IF k = 2 THEN ab
                                   ELSE IF k = 3 THEN abc ELSE abcd]
<1>1. text[1] = parts[1] /\ text[2] = ab /\ text[3] = abc /\ text[4] = abcd
  OBVIOUS
<1>2. ASSUME NEW k \in 1..4
      PROVE  text[k] = IF k = 1 THEN parts[1] ELSE Joined(text[k - 1], parts[k])
  <2> HIDE DEF text
  <2>1. k = 1 \/ k = 2 \/ k = 3 \/ k = 4
    OBVIOUS
  <2>2. CASE k = 1
    BY <1>1, <2>2
  <2>3. CASE k = 2
    BY <1>1, <2>3
  <2>4. CASE k = 3
    BY <1>1, <2>4
  <2>5. CASE k = 4
    BY <1>1, <2>5
  <2> QED
    BY <2>1, <2>2, <2>3, <2>4, <2>5
<1>3. text = [k \in 1..4 |-> text[k]]
  OBVIOUS
<1> HIDE DEF text
<1>4. [k \in 1..4 |-> text[k]]
        = [k \in 1..4 |-> IF k = 1 THEN parts[1] ELSE Joined(text[k - 1], parts[k])]
  BY <1>2
<1> QED
  BY <1>3, <1>4 DEF IsJoin

LEMMA JoinStarts ==
    ASSUME NEW a \in Seq(Token), NEW b \in Seq(Token), NEW c \in Seq(Token),
           NEW d \in Seq(Token)
    PROVE  StartsWith(JoinText(<<a, b, c, d>>), a)
<1> DEFINE parts == <<a, b, c, d>>
           text == CHOOSE text : IsJoin(text, parts)
<1>1. /\ DOMAIN parts = 1..4 /\ Len(parts) = 4
      /\ parts[1] = a /\ parts[2] = b /\ parts[3] = c /\ parts[4] = d
  OBVIOUS
<1>2. JoinText(parts) = text[4]
  BY <1>1, JoinedText
<1> HIDE DEF parts
<1>3. IsJoin(text, parts)
  BY <1>1, JoinExists
<1> HIDE DEF text
<1>4. \A k \in 1..4 : text[k] = IF k = 1 THEN parts[1] ELSE Joined(text[k - 1], parts[k])
  BY <1>1, <1>3 DEF IsJoin
<1>5. text[1] = a /\ text[2] = Joined(text[1], b) /\ text[3] = Joined(text[2], c)
      /\ text[4] = Joined(text[3], d)
  BY <1>1, <1>4
<1>6. StartsWith(text[2], a)
  BY <1>5, JoinedStarts
<1>7. StartsWith(text[3], a)
  BY <1>5, <1>6, JoinedStarts
<1>8. StartsWith(text[4], a)
  BY <1>5, <1>7, JoinedStarts
<1> QED
  BY <1>2, <1>8 DEF parts

(* A text tells which prediction it starts with, as none has a separator.   *)
LEMMA PredictionIsRead ==
    ASSUME NEW text, NEW p \in Number, NEW o \in Number, StartsWith(text, p), StartsWith(text, o)
    PROVE  p = o
<1>1. /\ p \in Seq(STRING) /\ o \in Seq(STRING)
      /\ \A i \in 1..Len(p) : p[i] # Separator
      /\ \A i \in 1..Len(o) : o[i] # Separator
  BY TextAssumption
<1>2. Len(p) \in Nat /\ Len(o) \in Nat
  BY <1>1
<1>3. ~(Len(p) < Len(o)) /\ ~(Len(o) < Len(p))
  <2>1. ASSUME Len(p) < Len(o) PROVE FALSE
    <3>1. Len(p) + 1 \in 1..Len(o)
      BY <1>2, <2>1
    <3> QED
      BY <1>1, <3>1 DEF StartsWith
  <2>2. ASSUME Len(o) < Len(p) PROVE FALSE
    <3>1. Len(o) + 1 \in 1..Len(p)
      BY <1>2, <2>2
    <3> QED
      BY <1>1, <3>1 DEF StartsWith
  <2> QED
    BY <2>1, <2>2
<1>4. Len(p) = Len(o) /\ \A i \in 1..Len(p) : p[i] = o[i]
  BY <1>2, <1>3 DEF StartsWith
<1>5. p = [i \in 1..Len(p) |-> p[i]] /\ o = [i \in 1..Len(o) |-> o[i]]
  BY <1>1
<1> QED
  BY <1>4, <1>5

Opens(hash, p, s, m, i) ==
    /\ p \in Number /\ s \in Field \cup Salt /\ m \in Field /\ i \in Field
    /\ ComputeHash(p, s, m, i) = hash

LEMMA HashStarts ==
    ASSUME NEW hash, NEW p, NEW s, NEW m, NEW i, Opens(hash, p, s, m, i)
    PROVE  hash = <<JoinText(<<p, s, m, i>>)>> /\ StartsWith(JoinText(<<p, s, m, i>>), p)
<1>1. \A t \in Number \cup Salt \cup Field : t \in Seq(Token)
  <2>1. ASSUME NEW t \in Seq(STRING) PROVE t \in Seq(Token)
    BY DEF Token
  <2> QED
    BY <2>1, TextAssumption
<1>2. StartsWith(JoinText(<<p, s, m, i>>), p)
  BY <1>1, JoinStarts DEF Opens
<1> QED
  BY <1>2 DEF Opens, ComputeHash, HashString

LEMMA HashBinds ==
    ASSUME NEW hash, NEW p, NEW s, NEW m, NEW i, NEW o, NEW t, NEW n, NEW j,
           Opens(hash, p, s, m, i), Opens(hash, o, t, n, j)
    PROVE  p = o
<1>1. <<JoinText(<<p, s, m, i>>)>> = <<JoinText(<<o, t, n, j>>)>>
  <2>1. hash = <<JoinText(<<p, s, m, i>>)>>
    BY HashStarts
  <2>2. hash = <<JoinText(<<o, t, n, j>>)>>
    BY HashStarts
  <2> QED
    BY <2>1, <2>2
<1>2. JoinText(<<p, s, m, i>>) = JoinText(<<o, t, n, j>>)
  <2>1. ASSUME NEW x, NEW y, <<x>> = <<y>> PROVE x = y
    BY <2>1
  <2> QED
    BY <1>1, <2>1
<1>3. StartsWith(JoinText(<<p, s, m, i>>), p) /\ StartsWith(JoinText(<<o, t, n, j>>), o)
  BY HashStarts
<1>4. p \in Number /\ o \in Number
  BY DEF Opens
<1> QED
  BY <1>2, <1>3, <1>4, PredictionIsRead

(* What the caller keeps opens the hash it keeps; it verifies that one.     *)
Kept == committed # Nothing =>
          /\ committed.prediction \in Number /\ committed.salt \in Salt
          /\ committed.model_hash \in Field /\ committed.input_hash \in Field
          /\ Verify(committed.hash, committed)

Verifying == request.kind = "verify" => request \in VerifyRequest /\ committed # Nothing

BindInv == Known /\ Kept /\ Verifying /\ CommitmentBindsPrediction

LEMMA VerifyBinds ==
    ASSUME Kept, committed # Nothing, NEW o \in VerifyRequest
    PROVE  /\ Verify(committed.hash, o) => o.prediction = committed.prediction
           /\ (\A f \in {"prediction", "salt", "model_hash", "input_hash"} :
                 o[f] = committed[f]) => Verify(committed.hash, o)
<1>1. /\ o.prediction \in Number /\ o.salt \in Field \cup Salt
      /\ o.model_hash \in Field /\ o.input_hash \in Field
  BY DEF VerifyRequest
<1>2. Opens(committed.hash, committed.prediction, committed.salt, committed.model_hash,
            committed.input_hash)
  BY DEF Kept, Verify, Opens
<1>3. ASSUME Verify(committed.hash, o)
      PROVE  o.prediction = committed.prediction
  <2>1. Opens(committed.hash, o.prediction, o.salt, o.model_hash, o.input_hash)
    BY <1>1, <1>3 DEF Verify, Opens
  <2> QED
    BY <1>2, <2>1, HashBinds
<1>4. ASSUME \A f \in {"prediction", "salt", "model_hash", "input_hash"} : o[f] = committed[f]
      PROVE  Verify(committed.hash, o)
  <2>1. /\ o.prediction = committed.prediction /\ o.salt = committed.salt
        /\ o.model_hash = committed.model_hash /\ o.input_hash = committed.input_hash
    BY <1>4
  <2> QED
    BY <1>2, <2>1 DEF Verify, Opens
<1> QED
  BY <1>3, <1>4

LEMMA BindStep == ASSUME BindInv, [Next]_vars PROVE BindInv'
<1> USE DEF BindInv
<1>1. Known'
  BY KnownStep
<1>2. CASE Ask
  <2>1. reply' = Nothing /\ request' \in Requests
    BY <1>2 DEF Ask, Known
  <2>2. CommitmentBindsPrediction'
    BY <2>1 DEF CommitmentBindsPrediction, Replied, Nothing
  <2>3. request' \in Requests => (request'.kind = "verify" => request' \in VerifyRequest)
    BY KindsApart
  <2>4. Verifying'
    BY <1>2, <2>1, <2>3 DEF Ask, Verifying, Nothing
  <2>5. Kept'
    BY <1>2 DEF Ask, Kept, Nothing
  <2> QED
    BY <1>1, <2>2, <2>4, <2>5
<1>3. CASE TakeReply
  BY <1>1, <1>3 DEF TakeReply, Kept, Verifying, CommitmentBindsPrediction, Replied, Nothing
<1>4. CASE UNCHANGED vars
  BY <1>1, <1>4 DEF vars, Kept, Verifying, CommitmentBindsPrediction, Replied
<1>5. CASE ServeCommit
  <2>1. PICK salt \in Salt :
          /\ reply'.kind = "commit"
          /\ committed' = [kind |-> "commit",
                           hash |-> ComputeHash(request.prediction, salt, request.model_hash,
                                                request.input_hash),
                           prediction |-> request.prediction, salt |-> salt,
                           model_hash |-> request.model_hash,
                           input_hash |-> request.input_hash]
    BY <1>5 DEF ServeCommit
  <2>2. request \in CommitRequest /\ request' = request /\ request.kind = "commit"
    <3>1. request.kind = "commit" /\ request' = request
      BY <1>5 DEF ServeCommit, Serving
    <3> QED
      BY <3>1, KindsApart DEF Known, Nothing
  <2>3. /\ request.prediction \in Number
        /\ request.model_hash \in Field /\ request.input_hash \in Field
    BY <2>2 DEF CommitRequest
  <2>4. Kept'
    BY <2>1, <2>3 DEF Kept, Verify
  <2>5. Verifying' /\ CommitmentBindsPrediction'
    BY <2>1, <2>2 DEF Verifying, CommitmentBindsPrediction, Replied
  <2> QED
    BY <1>1, <2>4, <2>5
<1>6. CASE ServeVerify
  <2>1. /\ reply' = [kind |-> "verify", valid |-> Verify(committed.hash, request)]
        /\ UNCHANGED <<request, committed>> /\ request.kind = "verify"
    BY <1>6 DEF ServeVerify, Serving, Reply
  <2>2. request \in VerifyRequest /\ committed # Nothing
    BY <2>1 DEF Verifying
  <2>3. Kept' /\ Verifying'
    BY <2>1 DEF Kept, Verifying
  <2>4. reply'.valid = Verify(committed.hash, request)
    BY <2>1
  <2>5. CommitmentBindsPrediction'
    BY <2>1, <2>2, <2>4, VerifyBinds DEF CommitmentBindsPrediction
  <2> QED
    BY <1>1, <2>3, <2>5
<1>7. CASE UNCHANGED <<request, committed>> /\ reply'.kind # "verify"
  BY <1>1, <1>7 DEF Kept, Verifying, CommitmentBindsPrediction, Replied
<1>8. ServeRolling \/ ServeLag \/ ServeGrowth \/ ServePredict \/ ServeOptimize \/ ServeEvaluate
        \/ ServeIngest \/ ServeBatch \/ ServeTable => UNCHANGED <<request, committed>>
  BY DEF ServeRolling, ServeLag, ServeGrowth, ServePredict, ServeOptimize, ServeEvaluate,
         ServeIngest, ServeBatch, ServeTable, Serving, Reply
<1>9. CASE reply'.kind = "verify"
  BY <1>4, <1>6, <1>9, OtherReplies
<1> QED
  BY <1>2, <1>3, <1>4, <1>5, <1>6, <1>7, <1>8, <1>9 DEF Next

(* Whatever is passed off as salt and hashes, separators included, only the *)
(* committed prediction verifies, and its own opening does.                 *)
THEOREM CommitmentsBind == Spec => []CommitmentBindsPrediction
<1>1. Init => BindInv
  BY KnownInit DEF Init, BindInv, Kept, Verifying, CommitmentBindsPrediction, Replied, Nothing
<1>2. BindInv /\ [Next]_vars => BindInv'
  BY BindStep
<1>3. BindInv => CommitmentBindsPrediction
  BY DEF BindInv
<1> QED
  BY <1>1, <1>2, <1>3, PTL DEF Spec

-----------------------------------------------------------------------------
(* What the metrics of an evaluation add up is what the search minimises.   *)
LEMMA EvaluationIsMse ==
    ASSUME NEW p \in Seq([xgboost : Int, lstm : Int]), NEW a \in Seq(Int), NEW w
    PROVE  Evaluate(p, a, w).squares = ComputeMse(p, a, w)
<1> DEFINE predicted == [i \in DOMAIN p |-> Predict(w, p[i])]
           scaled == [i \in DOMAIN a |-> GridResolution * a[i]]
           pairs == Zip2(predicted, scaled)
           raw == Zip2(p, a)
           left == [i \in DOMAIN pairs |-> Square(pairs[i][1] - pairs[i][2])]
           right == [i \in DOMAIN raw |->
                       Square(Predict(w, raw[i][1]) - GridResolution * raw[i][2])]
           n == IF Len(p) < Len(a) THEN Len(p) ELSE Len(a)
<1>1. Evaluate(p, a, w).squares = SumFunction(left)
  BY DEF Evaluate, Metrics, SumOver
<1>2. ComputeMse(p, a, w) = SumFunction(right)
  BY DEF ComputeMse, SumOver
<1>3. Len(predicted) = Len(p) /\ Len(scaled) = Len(a) /\ n \in Nat
      /\ DOMAIN p = 1..Len(p) /\ DOMAIN a = 1..Len(a)
      /\ \A i \in 1..n : i \in 1..Len(p) /\ i \in 1..Len(a)
  OBVIOUS
<1>4. /\ \A i \in 1..n : predicted[i] = Predict(w, p[i]) /\ scaled[i] = GridResolution * a[i]
      /\ predicted = [i \in DOMAIN p |-> predicted[i]]
  BY <1>3
<1> HIDE DEF predicted, scaled, n
<1>5. /\ pairs = [i \in 1..n |-> <<predicted[i], scaled[i]>>]
      /\ raw = [i \in 1..n |-> <<p[i], a[i]>>]
  BY <1>3 DEF Zip2, n
<1>6. /\ DOMAIN pairs = 1..n /\ DOMAIN raw = 1..n
      /\ \A i \in 1..n : /\ pairs[i][1] = predicted[i] /\ pairs[i][2] = scaled[i]
                         /\ raw[i][1] = p[i] /\ raw[i][2] = a[i]
  BY <1>5
<1> HIDE DEF pairs, raw
<1>7. \A i \in 1..n : Square(pairs[i][1] - pairs[i][2])
                        = Square(Predict(w, raw[i][1]) - GridResolution * raw[i][2])
  <2>1. ASSUME NEW i \in 1..n
        PROVE  /\ pairs[i][1] = Predict(w, raw[i][1])
               /\ pairs[i][2] = GridResolution * raw[i][2]
    <3>1. /\ pairs[i][1] = predicted[i] /\ pairs[i][2] = scaled[i]
          /\ raw[i][1] = p[i] /\ raw[i][2] = a[i]
      BY <1>6
    <3>2. predicted[i] = Predict(w, p[i]) /\ scaled[i] = GridResolution * a[i]
      BY <1>4
    <3> QED
      BY <3>1, <3>2, Zenon
  <2> QED
    BY <2>1, Zenon
<1>8. left = right
  BY <1>6, <1>7
<1> QED
  BY <1>1, <1>2, <1>8

LEMMA GridBeats ==
    ASSUME NEW p, NEW a, NEW w \in GridSearch(p, a), NEW j \in GridPoints
    PROVE  ComputeMse(p, a, w) <= ComputeMse(p, a, OnGrid(j))
BY DEF GridSearch

LEMMA GridWeights ==
    ASSUME NEW p, NEW a, NEW w \in GridSearch(p, a)
    PROVE  w.xgboost + w.lstm = GridResolution
<1>1. PICK i \in GridPoints : w = OnGrid(i)
  BY DEF GridSearch
<1>2. w.xgboost = i /\ w.lstm = GridResolution - i
  BY <1>1 DEF OnGrid
<1> QED
  BY <1>1, <1>2, GridAssumption DEF GridPoints

LEMMA AlternativesOnGrid ==
    \A w \in {OnGrid(0), OnGrid(GridResolution), Uniform} : \E j \in GridPoints : w = OnGrid(j)
<1>1. PICK half \in Nat : GridResolution = 2 * half
  <2>1. GridResolution = 2 * (GridResolution \div 2) /\ GridResolution \div 2 \in Nat
    BY GridAssumption
  <2> QED
    BY <2>1
<1>2. GridResolution \div 2 = half /\ GridResolution - half = half /\ half \in GridPoints
  BY <1>1 DEF GridPoints
<1>3. Uniform = OnGrid(half)
  BY <1>2 DEF Uniform, OnGrid
<1>4. 0 \in GridPoints /\ GridResolution \in GridPoints
  BY GridAssumption DEF GridPoints
<1> QED
  BY <1>2, <1>3, <1>4

OptimumInv == Known /\ OptimumIsBest

LEMMA OptimumStep == ASSUME OptimumInv, [Next]_vars PROVE OptimumInv'
<1> USE DEF OptimumInv
<1>1. Known'
  BY KnownStep
<1>2. CASE UNCHANGED vars
  BY <1>1, <1>2 DEF vars, OptimumIsBest, Replied
<1>3. CASE reply'.kind # "optimize"
  BY <1>1, <1>3 DEF OptimumIsBest, Replied
<1>4. CASE ServeOptimize /\ reply'.kind = "optimize"
  <2> DEFINE p == request.predictions
             a == request.actual
  <2>1. request' = request /\ request.kind = "optimize"
    BY <1>4 DEF ServeOptimize, Serving
  <2>2. p \in Seq([xgboost : Int, lstm : Int]) /\ a \in Seq(Int)
    <3>1. request \in OptimizeRequest
      BY <2>1, KindsApart DEF Known, Nothing
    <3> QED
      BY <3>1, InputAssumption DEF OptimizeRequest
  <2>3. ASSUME request.method = "grid"
        PROVE  \E w \in GridSearch(p, a) :
                 reply' = [kind |-> "optimize", weights |-> w, metrics |-> Evaluate(p, a, w)]
    BY <1>4, <2>3 DEF ServeOptimize, Reply, Panicked
  <2> HIDE DEF p, a
  <2>4. ASSUME request.method = "grid"
        PROVE  /\ reply'.weights.xgboost + reply'.weights.lstm = GridResolution
               /\ \A v \in {OnGrid(0), OnGrid(GridResolution), Uniform} :
                    reply'.metrics.squares <= Evaluate(p, a, v).squares
    <3>1. PICK w \in GridSearch(p, a) :
            reply' = [kind |-> "optimize", weights |-> w, metrics |-> Evaluate(p, a, w)]
      BY <2>3, <2>4
    <3>2. reply'.weights = w /\ reply'.metrics = Evaluate(p, a, w)
      BY <3>1
    <3>3. w.xgboost + w.lstm = GridResolution
      BY GridWeights
    <3>4. ASSUME NEW v \in {OnGrid(0), OnGrid(GridResolution), Uniform}
          PROVE  Evaluate(p, a, w).squares <= Evaluate(p, a, v).squares
      <4>1. PICK j \in GridPoints : v = OnGrid(j)
        BY AlternativesOnGrid
      <4>2. ComputeMse(p, a, w) <= ComputeMse(p, a, OnGrid(j))
        BY GridBeats
      <4> QED
        BY <2>2, <4>1, <4>2, EvaluationIsMse
    <3> QED
      BY <3>2, <3>3, <3>4
  <2>5. OptimumIsBest'
    BY <2>1, <2>4 DEF OptimumIsBest, p, a
  <2> QED
    BY <1>1, <2>5
<1> QED
  BY <1>2, <1>3, <1>4, OtherReplies

(* On the data it was given, the grid's weights are as good, as /evaluate   *)
(* measures them, as either model alone and as uniform weights, and they    *)
(* add up to one: for every even grid resolution.                           *)
THEOREM OptimumBeatsTheModels == Spec => []OptimumIsBest
<1>1. Init => OptimumInv
  BY KnownInit DEF Init, OptimumInv, OptimumIsBest, Replied, Nothing
<1>2. OptimumInv /\ [Next]_vars => OptimumInv'
  BY OptimumStep
<1>3. OptimumInv => OptimumIsBest
  BY DEF OptimumInv
<1> QED
  BY <1>1, <1>2, <1>3, PTL DEF Spec

-----------------------------------------------------------------------------
(* Two frames that differ in the target of one row only.                    *)
SameButTarget(df, other, j) ==
    /\ DOMAIN other = DOMAIN df
    /\ \A k \in DOMAIN df : /\ other[k].asset_id = df[k].asset_id
                            /\ other[k].timestamp = df[k].timestamp
                            /\ k # j => other[k].target = df[k].target

LEMMA TargetChanged ==
    ASSUME NEW df \in Seq([asset_id : Int, timestamp : Int, target : Int]), NEW j \in DOMAIN df
    PROVE  SameButTarget(df, [df EXCEPT ![j].target = 1 - @], j)
<1> DEFINE row == [df[j] EXCEPT !.target = 1 - @]
           other == [df EXCEPT ![j] = row]
<1>1. df[j] \in [asset_id : Int, timestamp : Int, target : Int]
  <2>1. ASSUME NEW S, df \in Seq(S) PROVE df[j] \in S
    BY <2>1
  <2> QED
    BY <2>1
<1>2. row.asset_id = df[j].asset_id /\ row.timestamp = df[j].timestamp
  BY <1>1
<1> HIDE DEF row
<1>3. DOMAIN other = DOMAIN df /\ other[j] = row
      /\ \A k \in DOMAIN df : k # j => other[k] = df[k]
  OBVIOUS
<1> HIDE DEF other
<1>4. SameButTarget(df, other, j)
  BY <1>2, <1>3 DEF SameButTarget
<1> QED
  BY <1>4 DEF other, row

LEMMA TargetsDoNotSort ==
    ASSUME NEW df, NEW other, NEW j, SameButTarget(df, other, j)
    PROVE  \A i \in DOMAIN df : /\ Earlier(other, i) = Earlier(df, i)
                                /\ \A k \in DOMAIN df : Back(other, k, i) = Back(df, k, i)
<1>1. \A k, i \in DOMAIN df : Precedes(other, k, i) <=> Precedes(df, k, i)
  BY DEF SameButTarget, Precedes
<1>2. ASSUME NEW i \in DOMAIN df PROVE Earlier(other, i) = Earlier(df, i)
  BY <1>1 DEF SameButTarget, Earlier
<1>3. ASSUME NEW i \in DOMAIN df, NEW k \in DOMAIN df
      PROVE  Back(other, k, i) = Back(df, k, i)
  <2>1. Earlier(df, i) \subseteq DOMAIN df
    BY DEF Earlier
  <2>2. {x \in Earlier(other, i) : x = k \/ Precedes(other, k, x)}
          = {x \in Earlier(df, i) : x = k \/ Precedes(df, k, x)}
    BY <1>1, <1>2, <2>1
  <2> QED
    BY <2>2, Zenon DEF Back
<1> QED
  BY <1>2, <1>3

LEMMA PastIgnoresTarget ==
    ASSUME NEW df, NEW other, NEW j, SameButTarget(df, other, j),
           NEW i \in DOMAIN df, ~Precedes(df, j, i)
    PROVE  PastColumns(other, i) = PastColumns(df, i)
<1>1. Earlier(other, i) = Earlier(df, i)
      /\ \A k \in DOMAIN df : Back(other, k, i) = Back(df, k, i)
  BY TargetsDoNotSort
<1>2. \A k \in Earlier(df, i) : k \in DOMAIN df /\ other[k].target = df[k].target
  BY DEF Earlier, SameButTarget
<1>3. History(other, i) = History(df, i)
  BY <1>1, <1>2 DEF History
<1>4. \A n : Shifted(other, i, n) = Shifted(df, i, n)
  BY <1>3 DEF Shifted
<1>5. \A n : Rolled(other, i, n) = Rolled(df, i, n)
  BY <1>1, <1>3 DEF Rolled
<1>6. [n \in LagPeriods |-> Shifted(other, i, n)] = [n \in LagPeriods |-> Shifted(df, i, n)]
  BY <1>4
<1> QED
  BY <1>5, <1>6 DEF PastColumns

(* The reply of prepare_features is the table of the frame it was given.    *)
TableInv == Known /\ (Replied("table") => /\ request.frame \in Frame
                                          /\ reply.rows = PrepareFeatures(request.frame))

LEMMA TableStep == ASSUME TableInv, [Next]_vars PROVE TableInv'
<1> USE DEF TableInv
<1>1. Known'
  BY KnownStep
<1>2. CASE UNCHANGED vars
  BY <1>1, <1>2 DEF vars, Replied
<1>3. CASE reply'.kind # "table"
  BY <1>1, <1>3 DEF Replied
<1>4. CASE ServeTable
  <2>1. /\ request' = request /\ request.kind = "table"
        /\ reply' = [kind |-> "table", rows |-> PrepareFeatures(request.frame)]
    BY <1>4 DEF ServeTable, Serving, Reply
  <2>2. request.frame \in Frame
    BY <2>1, KindsApart DEF Known, Nothing, TableRequest
  <2> QED
    BY <1>1, <2>1, <2>2
<1> QED
  BY <1>2, <1>3, <1>4, OtherReplies

LEMMA TableIsBack == TableInv => TableLooksBack
<1>1. SUFFICES ASSUME TableInv, Replied("table"),
                      NEW i \in DOMAIN request.frame, NEW j \in DOMAIN request.frame,
                      ~Precedes(request.frame, j, i)
               PROVE  reply.rows[i].past
                        = PrepareFeatures([request.frame EXCEPT ![j].target = 1 - @])[i].past
  BY DEF TableLooksBack
<1> DEFINE df == request.frame
           other == [df EXCEPT ![j].target = 1 - @]
<1>2. df \in Seq([asset_id : Int, timestamp : Int, target : Int]) /\ i \in DOMAIN df
      /\ j \in DOMAIN df /\ ~Precedes(df, j, i) /\ reply.rows = PrepareFeatures(df)
  BY <1>1, InputAssumption DEF TableInv
<1> HIDE DEF df
<1>3. SameButTarget(df, other, j)
  BY <1>2, TargetChanged
<1> HIDE DEF other
<1>4. PastColumns(other, i) = PastColumns(df, i)
  BY <1>2, <1>3, PastIgnoresTarget
<1>5. i \in DOMAIN other
  BY <1>2, <1>3 DEF SameButTarget
<1>6. PrepareFeatures(other)[i].past = PastColumns(other, i)
  BY <1>5 DEF PrepareFeatures
<1>7. PrepareFeatures(df)[i].past = PastColumns(df, i)
  BY <1>2 DEF PrepareFeatures
<1>8. reply.rows[i].past = PrepareFeatures(other)[i].past
  BY <1>2, <1>4, <1>6, <1>7
<1> QED
  BY <1>8 DEF other, df

(* Lags and rolling columns of a row do not change with the target of any   *)
(* row that is not an earlier one of its asset.                             *)
THEOREM TablesLookBack == Spec => []TableLooksBack
<1>1. Init => TableInv
  BY KnownInit DEF Init, TableInv, Replied, Nothing
<1>2. TableInv /\ [Next]_vars => TableInv'
  BY TableStep
<1> QED
  BY <1>1, <1>2, TableIsBack, PTL DEF Spec

-----------------------------------------------------------------------------
(* The pairs of two lists of one length, and their differences.             *)
LEMMA PairsOfEqualLists ==
    ASSUME NEW p \in Seq(Int), NEW a \in Seq(Int), Len(p) = Len(a)
    PROVE  /\ DOMAIN Zip2(p, a) = 1..Len(p) /\ Len(p) \in Nat
           /\ \A i \in 1..Len(p) : /\ Zip2(p, a)[i][1] = p[i] /\ p[i] \in Int
                                   /\ Zip2(p, a)[i][2] = a[i] /\ a[i] \in Int
<1>1. Len(p) \in Nat /\ \A i \in 1..Len(p) : p[i] \in Int /\ a[i] \in Int
  OBVIOUS
<1>2. Zip2(p, a) = [i \in 1..Len(p) |-> <<p[i], a[i]>>]
  BY <1>1 DEF Zip2
<1> QED
  BY <1>1, <1>2

LEMMA AbsDiffFacts ==
    ASSUME NEW z, z[1] \in Int, z[2] \in Int
    PROVE  /\ AbsDiff(z) \in Nat /\ Square(z[1] - z[2]) = AbsDiff(z) * AbsDiff(z)
           /\ AbsDiff(z) = 0 <=> z[1] = z[2]
<1> DEFINE x == z[1]
           y == z[2]
           d == IF x < y THEN y - x ELSE x - y
<1>1. x \in Int /\ y \in Int /\ AbsDiff(z) = d /\ Square(z[1] - z[2]) = (x - y) * (x - y)
  BY DEF AbsDiff, Square
<1> HIDE DEF x, y
<1>2. d \in Nat /\ (d = 0 <=> x = y)
  BY <1>1
<1>3. (x - y) * (x - y) = (y - x) * (y - x)
  BY <1>1
<1>4. (x - y) * (x - y) = d * d
  BY <1>1, <1>3
<1> QED
  BY <1>1, <1>2, <1>4 DEF x, y

(* The squared distances of values from their mean add up to zero just if   *)
(* the values are all the same.                                             *)
LEMMA VariationTells ==
    ASSUME NEW a \in Seq(Int)
    PROVE  Variation(a) \in Nat /\ (Variation(a) > 0 <=> \E i, j \in DOMAIN a : a[i] # a[j])
<1> DEFINE n == Len(a)
           f == [i \in DOMAIN a |-> a[i]]
           g == [i \in DOMAIN a |-> Square(a[i])]
           s == SumFunctionOnSet(f, 1..n)
           q == SumFunctionOnSet(g, 1..n)
<1>1. n \in Nat /\ DOMAIN a = 1..n /\ DOMAIN f = 1..n /\ DOMAIN g = 1..n
  OBVIOUS
<1>2. Variation(a) = n * q - s * s
  BY <1>1 DEF Variation, SumOver, SumFunction, Square
<1>3. \A i \in 1..n : /\ f[i] = a[i] /\ a[i] \in Int
                      /\ g[i] = a[i] * a[i] /\ g[i] \in Int
  BY <1>1 DEF Square
<1> HIDE DEF n, f, g
<1>4. IsFiniteSet(1..n) /\ Cardinality(1..n) = n
  BY <1>1, FS_Interval
<1>5. s \in Int /\ q \in Int
  BY <1>3, <1>4, SumInt
<1>6. s * s <= n * q /\ (n * q = s * s => \A i \in 1..n : n * f[i] = s)
  BY <1>3, <1>4, SumOfSquares
<1>7. n * q \in Int /\ s * s \in Int
  BY <1>1, <1>5
<1>8. ASSUME n * q = s * s, NEW i \in 1..n, NEW j \in 1..n PROVE a[i] = a[j]
  <2>1. n * a[i] = s /\ n * a[j] = s
    BY <1>3, <1>6, <1>8
  <2>2. \A v, w \in Int : n * v = n * w => v = w
    <3>1. \A v, w \in Int : n * (v - w) = n * v - n * w
      BY <1>1
    <3>2. \A v \in Int : n * v = 0 => v = 0
      BY <1>1
    <3>3. ASSUME NEW v \in Int, NEW w \in Int, n * v = n * w PROVE v = w
      <4>1. n * v \in Int /\ v - w \in Int
        BY <1>1
      <4> DEFINE x == n * v
      <4>2. x - n * w = 0
        BY <3>3, <4>1
      <4>3. n * (v - w) = 0
        BY <3>1, <4>2
      <4> QED
        BY <3>2, <4>1, <4>3
    <3> QED
      BY <3>3
  <2> QED
    BY <1>3, <2>1, <2>2
<1>9. ASSUME \A i, j \in 1..n : a[i] = a[j] PROVE n * q = s * s
  <2>1. CASE n = 0
    <3>1. 1..n = {}
      BY <2>1
    <3>2. s = 0 /\ q = 0
      BY <3>1, SumEmpty
    <3> QED
      BY <2>1, <3>2
  <2>2. CASE n > 0
    <3> DEFINE x == a[1]
               square == x * x
    <3>1. 1 \in 1..n /\ x \in Int /\ square \in Int
      BY <1>1, <1>3, <2>2
    <3>2. \A i \in 1..n : f[i] = x /\ g[i] = square
      <4>1. \A i \in 1..n : a[i] = a[1]
        BY <1>9, <3>1
      <4> QED
        BY <1>3, <4>1
    <3> HIDE DEF square, x
    <3>3. s = x * n /\ q = square * n
      <4>1. SumFunctionOnSet(f, 1..n) = x * Cardinality(1..n)
        BY <1>4, <3>1, <3>2, SumOfSame
      <4>2. SumFunctionOnSet(g, 1..n) = square * Cardinality(1..n)
        BY <1>4, <3>1, <3>2, SumOfSame
      <4> QED
        BY <1>4, <4>1, <4>2
    <3>4. \A v, w \in Int : w * ((v * v) * w) = (v * w) * (v * w)
      OBVIOUS
    <3> QED
      BY <1>1, <3>1, <3>3, <3>4 DEF square
  <2> QED
    BY <1>1, <2>1, <2>2
<1> HIDE DEF s, q
<1>10. Variation(a) \in Nat /\ (Variation(a) > 0 <=> n * q # s * s)
  BY <1>2, <1>6, <1>7
<1> QED
  BY <1>1, <1>8, <1>9, <1>10

LEMMA MetricsConsistent ==
    ASSUME NEW p \in Seq(Int), NEW a \in Seq(Int), Len(p) = Len(a)
    PROVE  LET m == Metrics(p, a)
               mape_zero == \A i \in DOMAIN m.mape : \A z \in m.mape[i] : z[1] = 0
           IN /\ m.abs * m.abs <= m.sample_count * m.squares
              /\ m.abs = 0 <=> m.squares = 0
              /\ m.abs = 0 /\ m.sample_count > 0 => m.correct = m.sample_count - 1
              /\ mape_zero <=> \A i \in DOMAIN a : a[i] = 0 \/ p[i] = a[i]
              /\ m.r_squared[1] <= m.r_squared[2]
              /\ m.r_squared[1] = m.r_squared[2]
                   <=> m.abs = 0 /\ \E i, j \in DOMAIN a : a[i] # a[j]
<1> DEFINE n == Len(p)
           pairs == Zip2(p, a)
           f == [i \in DOMAIN pairs |-> AbsDiff(pairs[i])]
           g == [i \in DOMAIN pairs |-> Square(pairs[i][1] - pairs[i][2])]
           m == Metrics(p, a)
           abs == SumFunctionOnSet(f, 1..n)
           squares == SumFunctionOnSet(g, 1..n)
           agree == {i \in 1..(n - 1) : SameDirection(p, a, i)}
           mape == [i \in DOMAIN pairs |->
                      IF pairs[i][2] = 0 THEN {} ELSE {<<AbsDiff(pairs[i]), pairs[i][2]>>}]
<1>1. /\ DOMAIN pairs = 1..n /\ n \in Nat
      /\ \A i \in 1..n : /\ pairs[i][1] = p[i] /\ p[i] \in Int
                         /\ pairs[i][2] = a[i] /\ a[i] \in Int
  BY PairsOfEqualLists
<1>2. /\ m.abs = SumFunction(f) /\ m.squares = SumFunction(g) /\ m.sample_count = n
      /\ m.correct = Cardinality(agree) /\ m.mape = mape
  BY DEF Metrics, SumOver
<1> HIDE DEF pairs, m, n
<1>3. m.abs = abs /\ m.squares = squares
  BY <1>1, <1>2 DEF SumFunction
<1>4. \A i \in 1..n : /\ f[i] \in Nat /\ f[i] \in Int /\ g[i] = f[i] * f[i]
                      /\ f[i] = AbsDiff(pairs[i]) /\ (f[i] = 0 <=> p[i] = a[i])
  <2> SUFFICES ASSUME NEW i \in 1..n
               PROVE  /\ f[i] \in Nat /\ f[i] \in Int /\ g[i] = f[i] * f[i]
                      /\ f[i] = AbsDiff(pairs[i]) /\ (f[i] = 0 <=> p[i] = a[i])
    OBVIOUS
  <2>1. /\ AbsDiff(pairs[i]) \in Nat
        /\ Square(pairs[i][1] - pairs[i][2]) = AbsDiff(pairs[i]) * AbsDiff(pairs[i])
        /\ AbsDiff(pairs[i]) = 0 <=> pairs[i][1] = pairs[i][2]
    BY <1>1, AbsDiffFacts
  <2>2. f[i] = AbsDiff(pairs[i]) /\ g[i] = Square(pairs[i][1] - pairs[i][2])
    BY <1>1
  <2> HIDE DEF f, g
  <2> QED
    BY <1>1, <2>1, <2>2
<1> HIDE DEF f, g
<1>5. IsFiniteSet(1..n) /\ Cardinality(1..n) = n
  BY <1>1, FS_Interval
<1>6. abs * abs <= n * squares
  BY <1>4, <1>5, SumOfSquares
<1>7. \A i \in 1..n : g[i] \in Nat /\ (f[i] = 0 <=> g[i] = 0)
  <2>1. \A x \in Nat : x * x \in Nat /\ (x * x = 0 <=> x = 0)
    OBVIOUS
  <2> QED
    BY <1>4, <2>1
<1>8. (abs = 0 <=> \A i \in 1..n : f[i] = 0) /\ (squares = 0 <=> \A i \in 1..n : g[i] = 0)
  <2>1. \A i \in 1..n : f[i] \in Nat
    BY <1>4
  <2>2. SumFunctionOnSet(f, 1..n) = 0 <=> \A i \in 1..n : f[i] = 0
    BY <1>5, <2>1, SumZero
  <2>3. \A i \in 1..n : g[i] \in Nat
    BY <1>7
  <2>4. SumFunctionOnSet(g, 1..n) = 0 <=> \A i \in 1..n : g[i] = 0
    BY <1>5, <2>3, SumZero
  <2> QED
    BY <2>2, <2>4
<1>9. abs = 0 <=> squares = 0
  BY <1>7, <1>8
<1>10. ASSUME abs = 0 PROVE n > 0 => Cardinality(agree) = n - 1
  <2>1. \A i \in 1..n : p[i] = a[i]
    BY <1>4, <1>8, <1>10
  <2>2. \A i \in 1..(n - 1) : i \in 1..n /\ i + 1 \in 1..n
    BY <1>1
  <2>3. agree = 1..(n - 1)
    BY <2>1, <2>2 DEF SameDirection
  <2>4. n > 0 => Cardinality(1..(n - 1)) = n - 1
    BY <1>1, FS_Interval
  <2> QED
    BY <2>3, <2>4
<1>11. (\A i \in DOMAIN mape : \A z \in mape[i] : z[1] = 0)
         <=> \A i \in 1..n : a[i] = 0 \/ p[i] = a[i]
  <2>1. DOMAIN mape = 1..n
    BY <1>1
  <2>2. \A i \in 1..n : mape[i] = IF a[i] = 0 THEN {} ELSE {<<f[i], a[i]>>}
    BY <1>1, <1>4
  <2>3. \A x, y : <<x, y>>[1] = x
    OBVIOUS
  <2> HIDE DEF mape
  <2>4. ASSUME NEW i \in 1..n
        PROVE  (\A z \in mape[i] : z[1] = 0) <=> (a[i] = 0 \/ p[i] = a[i])
    <3>1. CASE a[i] = 0
      BY <2>2, <3>1
    <3>2. CASE a[i] # 0
      <4>1. mape[i] = {<<f[i], a[i]>>}
        BY <2>2, <3>2
      <4>2. (\A z \in mape[i] : z[1] = 0) <=> <<f[i], a[i]>>[1] = 0
        BY <4>1, Zenon
      <4>3. (\A z \in mape[i] : z[1] = 0) <=> f[i] = 0
        BY <2>3, <4>2, Zenon
      <4> QED
        BY <1>4, <3>2, <4>3
    <3> QED
      BY <3>1, <3>2
  <2> QED
    BY <2>1, <2>4
<1> DEFINE spread == Variation(a)
<1>12. spread \in Nat /\ (spread > 0 <=> \E i, j \in DOMAIN a : a[i] # a[j])
  BY VariationTells
<1>13. n * squares \in Nat /\ squares \in Nat /\ (n > 0 => (n * squares = 0 <=> squares = 0))
  <2>1. squares \in Nat
    <3>1. \A i \in 1..n : g[i] \in Nat
      BY <1>7
    <3> QED
      BY <1>5, <3>1, SumNat
  <2> HIDE DEF squares
  <2>2. \A x, y \in Nat : x * y \in Nat /\ (x > 0 => (x * y = 0 <=> y = 0))
    OBVIOUS
  <2> QED
    BY <1>1, <2>1, <2>2
<1>14. m.r_squared = IF spread > 0 THEN <<spread - n * squares, spread>> ELSE <<0, 1>>
  <2>1. m.r_squared = IF spread > 0 THEN <<spread - Len(a) * SumFunction(g), spread>>
                      ELSE <<0, 1>>
    BY DEF m, Metrics, SumOver, g, pairs
  <2> QED
    BY <1>2, <1>3, <2>1 DEF n
<1>15. spread > 0 => n > 0
  <2>1. DOMAIN a = 1..n
    BY DEF n
  <2> QED
    BY <1>1, <1>12, <2>1
<1> HIDE DEF abs, squares, agree, mape, spread
<1>16. /\ m.r_squared[1] <= m.r_squared[2]
       /\ m.r_squared[1] = m.r_squared[2] <=> squares = 0 /\ spread > 0
  <2>1. CASE spread > 0
    <3>1. m.r_squared[1] = spread - n * squares /\ m.r_squared[2] = spread
      BY <1>14, <2>1
    <3> DEFINE loss == n * squares
    <3>2. loss \in Nat /\ (loss = 0 <=> squares = 0)
      BY <1>13, <1>15, <2>1
    <3> HIDE DEF loss
    <3>3. m.r_squared[1] = spread - loss
      BY <3>1 DEF loss
    <3>4. \A x, y : x = spread - loss /\ y = spread => x <= y /\ (x = y <=> loss = 0)
      BY <1>12, <3>2
    <3> QED
      BY <2>1, <3>1, <3>2, <3>3, <3>4
  <2>2. CASE ~(spread > 0)
    <3>1. m.r_squared[1] = 0 /\ m.r_squared[2] = 1
      BY <1>14, <2>2
    <3> QED
      BY <2>2, <3>1
  <2> QED
    BY <2>1, <2>2
<1>17. DOMAIN a = 1..n
  BY DEF n
<1>18. m.abs = 0 /\ m.sample_count > 0 => m.correct = m.sample_count - 1
  BY <1>2, <1>3, <1>10
<1> QED
  BY <1>2, <1>3, <1>6, <1>9, <1>11, <1>12, <1>16, <1>17, <1>18 DEF m

(* The reply of an evaluation is the metrics of the lists it was given.     *)
EvaluateInv == Known /\ (Replied("evaluate") =>
                           /\ request.predictions \in Series /\ request.actual \in Series
                           /\ Len(request.predictions) = Len(request.actual)
                           /\ reply.metrics = Metrics(request.predictions, request.actual))

LEMMA EvaluateStep == ASSUME EvaluateInv, [Next]_vars PROVE EvaluateInv'
<1> USE DEF EvaluateInv
<1>1. Known'
  BY KnownStep
<1>2. CASE UNCHANGED vars
  BY <1>1, <1>2 DEF vars, Replied
<1>3. CASE reply'.kind # "evaluate"
  BY <1>1, <1>3 DEF Replied
<1>4. CASE ServeEvaluate /\ reply'.kind = "evaluate"
  <2>1. request' = request /\ request.kind = "evaluate"
    BY <1>4 DEF ServeEvaluate, Serving
  <2>2. /\ Len(request.predictions) = Len(request.actual)
        /\ reply' = [kind |-> "evaluate",
                     metrics |-> Metrics(request.predictions, request.actual)]
    BY <1>4 DEF ServeEvaluate, Reply, Panicked
  <2>3. request.predictions \in Series /\ request.actual \in Series
    BY <2>1, KindsApart DEF Known, Nothing, EvaluateRequest
  <2> QED
    BY <1>1, <2>1, <2>2, <2>3
<1> QED
  BY <1>2, <1>3, <1>4, OtherReplies

(* The metrics of one evaluation do not contradict each other: the mean     *)
(* error is at most the root of the mean square, both see every error, mape *)
(* sees those at values other than zero, and r_squared is one just for a    *)
(* perfect prediction of values that vary.                                  *)
THEOREM MetricsAlwaysAgree == Spec => []MetricsAgree
<1>1. Init => EvaluateInv
  BY KnownInit DEF Init, EvaluateInv, Replied, Nothing
<1>2. EvaluateInv /\ [Next]_vars => EvaluateInv'
  BY EvaluateStep
<1>3. EvaluateInv => MetricsAgree
  <2>1. SUFFICES ASSUME EvaluateInv, Replied("evaluate") PROVE MetricsAgree
    BY DEF MetricsAgree
  <2>2. /\ request.predictions \in Seq(Int) /\ request.actual \in Seq(Int)
        /\ Len(request.predictions) = Len(request.actual)
        /\ reply.metrics = Metrics(request.predictions, request.actual)
    BY <2>1, InputAssumption DEF EvaluateInv
  <2> DEFINE p == request.predictions
             a == request.actual
  <2>3. /\ p \in Seq(Int) /\ a \in Seq(Int) /\ Len(p) = Len(a)
        /\ reply.metrics = Metrics(p, a)
    BY <2>2
  <2> HIDE DEF p, a
  <2>4. LET m == Metrics(p, a)
            mape_zero == \A i \in DOMAIN m.mape : \A z \in m.mape[i] : z[1] = 0
        IN /\ m.abs * m.abs <= m.sample_count * m.squares
           /\ m.abs = 0 <=> m.squares = 0
           /\ m.abs = 0 /\ m.sample_count > 0 => m.correct = m.sample_count - 1
           /\ mape_zero <=> \A i \in DOMAIN a : a[i] = 0 \/ p[i] = a[i]
           /\ m.r_squared[1] <= m.r_squared[2]
           /\ m.r_squared[1] = m.r_squared[2]
                <=> m.abs = 0 /\ \E i, j \in DOMAIN a : a[i] # a[j]
    BY <2>3, MetricsConsistent, Zenon
  <2> QED
    BY <2>3, <2>4, Zenon DEF MetricsAgree, p, a
<1> QED
  BY <1>1, <1>2, <1>3, PTL DEF Spec

-----------------------------------------------------------------------------
(* Two series of which the first is the beginning of the second.            *)
Begins(t, v) == /\ Len(t) \in Nat /\ Len(v) \in Nat /\ Len(t) <= Len(v)
                /\ DOMAIN t = 1..Len(t) /\ DOMAIN v = 1..Len(v)
                /\ \A i \in 1..Len(t) : t[i] = v[i]

(* An entry far enough from the start has its window in the series.         *)
LEMMA WindowInside ==
    ASSUME NEW n \in Nat, NEW i \in 1..n, NEW w \in Nat, ~(i - 1 < Predecessor(w))
    PROVE  \A k \in (i - w + 1)..i : k \in 1..n /\ k \in 1..i
BY DEF Predecessor

LEMMA SameWindow ==
    ASSUME NEW t, NEW v, Begins(t, v), NEW i \in 1..Len(t), NEW w \in Nat,
           ~(i - 1 < Predecessor(w))
    PROVE  SubSeq(t, i - w + 1, i) = SubSeq(v, i - w + 1, i)
<1> DEFINE S == {v[k] : k \in 1..Len(v)}
           first == i - w + 1
           x == SubSeq(t, first, i)
           y == SubSeq(v, first, i)
<1>1. first \in Int /\ i \in Int /\ Len(t) \in Nat /\ Len(t) <= Len(v) /\ i <= Len(t)
  BY DEF Begins
<1>2. \A k \in first..i : k \in 1..Len(t) /\ k \in 1..Len(v)
  <2>1. \A k \in first..i : k \in 1..Len(t)
    BY <1>1, WindowInside
  <2> QED
    BY <1>1, <2>1
<1> HIDE DEF first
<1>3. \A k \in first..i : t[k] \in S /\ v[k] \in S /\ t[k] = v[k]
  BY <1>2 DEF Begins
<1> HIDE DEF S
<1>4. /\ x \in Seq(S) /\ Len(x) = IF first <= i THEN i - first + 1 ELSE 0
      /\ \A k \in 1..(i - first + 1) : x[k] = t[first + k - 1]
  BY <1>1, <1>3, SubSeqProperties
<1>5. /\ y \in Seq(S) /\ Len(y) = IF first <= i THEN i - first + 1 ELSE 0
      /\ \A k \in 1..(i - first + 1) : y[k] = v[first + k - 1]
  BY <1>1, <1>3, SubSeqProperties
<1> HIDE DEF x, y
<1>6. Len(x) = Len(y)
  BY <1>4, <1>5
<1>7. ASSUME NEW k \in 1..Len(x) PROVE x[k] = y[k]
  <2>1. k \in 1..(i - first + 1) /\ first + k - 1 \in first..i
    BY <1>1, <1>4, <1>7
  <2> QED
    BY <1>3, <1>4, <1>5, <2>1
<1>8. x = [k \in 1..Len(x) |-> x[k]] /\ y = [k \in 1..Len(y) |-> y[k]]
  BY <1>4, <1>5
<1>9. x = y
  BY <1>6, <1>7, <1>8
<1> QED
  BY <1>9 DEF x, y, first

(* The entries of a rolling column are those of a longer series.            *)
LEMMA RollingIsCausal ==
    ASSUME NEW t, NEW v, Begins(t, v), NEW i \in 1..Len(t), NEW w \in Nat
    PROVE  /\ RollingMean(t, w)[i] = RollingMean(v, w)[i]
           /\ RollingStd(t, w)[i] = RollingStd(v, w)[i]
           /\ RollingMin(t, w)[i] = RollingMin(v, w)[i]
           /\ RollingMax(t, w)[i] = RollingMax(v, w)[i]
<1>1. i \in DOMAIN t /\ i \in DOMAIN v
  BY DEF Begins
<1>2. CASE i - 1 < Predecessor(w)
  BY <1>1, <1>2 DEF RollingMean, RollingStd, RollingMin, RollingMax, Rolling
<1>3. CASE ~(i - 1 < Predecessor(w))
  <2> DEFINE x == SubSeq(t, i - w + 1, i)
             y == SubSeq(v, i - w + 1, i)
  <2>1. x = y
    BY <1>3, SameWindow
  <2>2. /\ RollingMean(t, w)[i] = Some(Total(x)) /\ RollingMean(v, w)[i] = Some(Total(y))
        /\ RollingStd(t, w)[i] = Some(Spread(x)) /\ RollingStd(v, w)[i] = Some(Spread(y))
        /\ RollingMin(t, w)[i] = Some(Min(ToSet(x))) /\ RollingMin(v, w)[i] = Some(Min(ToSet(y)))
        /\ RollingMax(t, w)[i] = Some(Max(ToSet(x))) /\ RollingMax(v, w)[i] = Some(Max(ToSet(y)))
    BY <1>1, <1>3 DEF RollingMean, RollingStd, RollingMin, RollingMax, Rolling
  <2> HIDE DEF x, y
  <2> QED
    BY <2>1, <2>2
<1> QED
  BY <1>2, <1>3

(* The first entries of a column.                                           *)
LEMMA TruncatedColumn ==
    ASSUME NEW c, NEW n \in Nat, NEW k \in 0..n, DOMAIN c = 1..n
    PROVE  Truncated(c, k) = [i \in 1..k |-> c[i]]
<1> DEFINE S == {c[i] : i \in 1..n}
           x == SubSeq(c, 1, k)
<1>1. \A i \in 1..k : c[i] \in S
  OBVIOUS
<1> HIDE DEF S
<1>2. x \in Seq(S) /\ Len(x) = k /\ \A i \in 1..k : x[i] = c[1 + i - 1]
  BY <1>1, SubSeqProperties
<1> HIDE DEF x
<1>3. \A i \in 1..k : x[i] = c[i]
  BY <1>2
<1>4. x = [i \in 1..k |-> x[i]]
  BY <1>2
<1> QED
  BY <1>3, <1>4 DEF Truncated, x

LEMMA TruncatedBegins ==
    ASSUME NEW S, NEW v \in Seq(S), NEW k \in 0..Len(v)
    PROVE  Begins(Truncated(v, k), v) /\ Len(Truncated(v, k)) = k
<1>1. DOMAIN v = 1..Len(v) /\ Len(v) \in Nat
  OBVIOUS
<1>2. Truncated(v, k) = [i \in 1..k |-> v[i]]
  BY <1>1, TruncatedColumn
<1>3. Len(Truncated(v, k)) = k /\ DOMAIN Truncated(v, k) = 1..k
  BY <1>2
<1> QED
  BY <1>1, <1>2, <1>3 DEF Begins

LEMMA RollingDomains ==
    ASSUME NEW v, NEW w
    PROVE  /\ DOMAIN RollingMean(v, w) = DOMAIN v /\ DOMAIN RollingStd(v, w) = DOMAIN v
           /\ DOMAIN RollingMin(v, w) = DOMAIN v /\ DOMAIN RollingMax(v, w) = DOMAIN v
           /\ RollingMean(v, w) = [i \in DOMAIN v |-> RollingMean(v, w)[i]]
           /\ RollingStd(v, w) = [i \in DOMAIN v |-> RollingStd(v, w)[i]]
           /\ RollingMin(v, w) = [i \in DOMAIN v |-> RollingMin(v, w)[i]]
           /\ RollingMax(v, w) = [i \in DOMAIN v |-> RollingMax(v, w)[i]]
BY DEF RollingMean, RollingStd, RollingMin, RollingMax, Rolling

LEMMA TruncatedRolling ==
    ASSUME NEW S, NEW u \in Seq(S), NEW k \in 0..Len(u), NEW w \in Nat
    PROVE  LET v == Truncated(u, k)
           IN /\ Truncated(RollingMean(u, w), k) = RollingMean(v, w)
              /\ Truncated(RollingStd(u, w), k) = RollingStd(v, w)
              /\ Truncated(RollingMin(u, w), k) = RollingMin(v, w)
              /\ Truncated(RollingMax(u, w), k) = RollingMax(v, w)
<1> DEFINE v == Truncated(u, k)
<1>1. Begins(v, u) /\ Len(v) = k
  BY TruncatedBegins
<1>2. DOMAIN u = 1..Len(u) /\ Len(u) \in Nat /\ DOMAIN v = 1..k
  BY <1>1 DEF Begins
<1> HIDE DEF v
<1>3. /\ Truncated(RollingMean(u, w), k) = [i \in 1..k |-> RollingMean(u, w)[i]]
      /\ Truncated(RollingStd(u, w), k) = [i \in 1..k |-> RollingStd(u, w)[i]]
      /\ Truncated(RollingMin(u, w), k) = [i \in 1..k |-> RollingMin(u, w)[i]]
      /\ Truncated(RollingMax(u, w), k) = [i \in 1..k |-> RollingMax(u, w)[i]]
  <2>1. ASSUME NEW c, DOMAIN c = DOMAIN u PROVE Truncated(c, k) = [i \in 1..k |-> c[i]]
    BY <1>2, <2>1, TruncatedColumn
  <2> QED
    BY <2>1, RollingDomains
<1>4. \A i \in 1..k : /\ RollingMean(v, w)[i] = RollingMean(u, w)[i]
                      /\ RollingStd(v, w)[i] = RollingStd(u, w)[i]
                      /\ RollingMin(v, w)[i] = RollingMin(u, w)[i]
                      /\ RollingMax(v, w)[i] = RollingMax(u, w)[i]
  BY <1>1, RollingIsCausal
<1>5. /\ RollingMean(v, w) = [i \in 1..k |-> RollingMean(v, w)[i]]
      /\ RollingStd(v, w) = [i \in 1..k |-> RollingStd(v, w)[i]]
      /\ RollingMin(v, w) = [i \in 1..k |-> RollingMin(v, w)[i]]
      /\ RollingMax(v, w) = [i \in 1..k |-> RollingMax(v, w)[i]]
  BY <1>2, RollingDomains
<1>6. /\ Truncated(RollingMean(u, w), k) = RollingMean(v, w)
      /\ Truncated(RollingStd(u, w), k) = RollingStd(v, w)
      /\ Truncated(RollingMin(u, w), k) = RollingMin(v, w)
      /\ Truncated(RollingMax(u, w), k) = RollingMax(v, w)
  BY <1>3, <1>4, <1>5
<1> QED
  BY <1>6 DEF v

(* The reply to a rolling request has the columns of its series.            *)
RollingInv ==
    Known /\ (Replied("rolling") =>
                /\ request.values \in Series /\ WindowOf(request) \in Nat
                /\ reply.mean = RollingMean(request.values, WindowOf(request))
                /\ reply.std = RollingStd(request.values, WindowOf(request))
                /\ reply.min = RollingMin(request.values, WindowOf(request))
                /\ reply.max = RollingMax(request.values, WindowOf(request)))

LEMMA WindowIsNat == ASSUME NEW r \in RollingRequest PROVE WindowOf(r) \in Nat
<1>1. r.window_size \in {None} \cup {Some(w) : w \in Window}
  BY DEF RollingRequest
<1>2. CASE r.window_size = None
  BY <1>2 DEF WindowOf, DefaultWindow
<1>3. CASE r.window_size # None
  <2>1. PICK w \in Window : r.window_size = {w}
    BY <1>1, <1>3 DEF Some
  <2> QED
    BY <1>3, <2>1, InputAssumption DEF WindowOf
<1> QED
  BY <1>2, <1>3

LEMMA RollingStep == ASSUME RollingInv, [Next]_vars PROVE RollingInv'
<1> USE DEF RollingInv
<1>1. Known'
  BY KnownStep
<1>2. CASE UNCHANGED vars
  BY <1>1, <1>2 DEF vars, Replied
<1>3. CASE reply'.kind # "rolling"
  BY <1>1, <1>3 DEF Replied
<1>4. CASE ServeRolling /\ reply'.kind = "rolling"
  <2>1. request' = request /\ request.kind = "rolling"
    BY <1>4 DEF ServeRolling, Serving
  <2> DEFINE v == request.values
             w == WindowOf(request)
  <2>2. reply' = [kind |-> "rolling", mean |-> RollingMean(v, w), std |-> RollingStd(v, w),
                  min |-> RollingMin(v, w), max |-> RollingMax(v, w)]
    BY <1>4 DEF ServeRolling, Reply, Panicked
  <2>3. request \in RollingRequest
    BY <2>1, KindsApart DEF Known, Nothing
  <2>4. v \in Series /\ w \in Nat
    BY <2>3, WindowIsNat DEF RollingRequest
  <2>5. v' = v /\ w' = w
    BY <2>1
  <2> HIDE DEF v, w
  <2>6. /\ reply'.mean = RollingMean(v, w) /\ reply'.std = RollingStd(v, w)
        /\ reply'.min = RollingMin(v, w) /\ reply'.max = RollingMax(v, w)
    BY <2>2
  <2> QED
    BY <1>1, <2>1, <2>4, <2>6 DEF v, w, Replied
<1> QED
  BY <1>2, <1>3, <1>4, OtherReplies

LEMMA RollingInit == Init => RollingInv
BY KnownInit DEF Init, RollingInv, Replied, Nothing

-----------------------------------------------------------------------------
(* The four statistics of one window.                                       *)
LEMMA WindowExtremes ==
    ASSUME NEW s \in Seq(Int), Len(s) > 0
    PROVE  /\ Min(ToSet(s)) \in Int /\ Max(ToSet(s)) \in Int
           /\ \A k \in 1..Len(s) : Min(ToSet(s)) <= s[k] /\ s[k] <= Max(ToSet(s))
           /\ \E k \in 1..Len(s) : s[k] = Min(ToSet(s))
           /\ \E k \in 1..Len(s) : s[k] = Max(ToSet(s))
<1> DEFINE T == ToSet(s)
<1>1. /\ T = {s[k] : k \in 1..Len(s)} /\ Len(s) \in Nat
      /\ \A k \in 1..Len(s) : s[k] \in Int
  BY DEF ToSet
<1> HIDE DEF T
<1>2. IsFiniteSet(T)
  <2>1. s \in Surjection(1..Len(s), T)
    BY <1>1 DEF Surjection
  <2> QED
    BY <1>1, <2>1, FS_Interval, FS_Surjection
<1>3. T # {} /\ \A x \in T : x \in Int
  BY <1>1
<1>4. /\ \E x \in T : \A y \in T : x <= y
      /\ \E x \in T : \A y \in T : x >= y
  BY <1>2, <1>3, ExtremesExist
<1>5. /\ Min(T) \in T /\ \A y \in T : Min(T) <= y
      /\ Max(T) \in T /\ \A y \in T : Max(T) >= y
  BY <1>4 DEF Min, Max
<1>6. /\ Min(T) \in Int /\ Max(T) \in Int
      /\ \A k \in 1..Len(s) : Min(T) <= s[k] /\ s[k] <= Max(T)
      /\ \E k \in 1..Len(s) : s[k] = Min(T)
      /\ \E k \in 1..Len(s) : s[k] = Max(T)
  BY <1>1, <1>3, <1>5
<1> QED
  BY <1>6 DEF T

LEMMA WindowStatistics ==
    ASSUME NEW s \in Seq(Int), Len(s) > 0
    PROVE  LET lo == Min(ToSet(s)) hi == Max(ToSet(s))
           IN /\ Len(s) * lo <= Total(s) /\ Total(s) <= Len(s) * hi
              /\ Spread(s) = 0 <=> lo = hi
<1> DEFINE lo == Min(ToSet(s))
           hi == Max(ToSet(s))
           n == Len(s)
           g == [k \in DOMAIN s |-> s[k] * s[k]]
           a == SumFunctionOnSet(s, 1..n)
           q == SumFunctionOnSet(g, 1..n)
<1>1. /\ lo \in Int /\ hi \in Int
      /\ \A k \in 1..n : s[k] \in Int /\ lo <= s[k] /\ s[k] <= hi
      /\ \E k \in 1..n : s[k] = lo
      /\ \E k \in 1..n : s[k] = hi
  BY WindowExtremes
<1>2. n \in Nat /\ n > 0 /\ DOMAIN s = 1..n
  OBVIOUS
<1>3. DOMAIN g = 1..n /\ \A k \in 1..n : g[k] = s[k] * s[k] /\ g[k] \in Int
  BY <1>1
<1>4. Total(s) = a
  BY <1>2 DEF Total, SumFunction
<1>5. Spread(s) = n * q - a * a
  BY <1>2, <1>3, <1>4 DEF Spread, Total, SumFunction
<1> HIDE DEF lo, hi, n, g
<1>6. IsFiniteSet(1..n) /\ Cardinality(1..n) = n
  BY <1>2, FS_Interval
<1>7. a \in Int /\ q \in Int
  BY <1>1, <1>3, <1>6, SumInt
<1>8. n * lo <= a /\ a <= n * hi
  BY <1>1, <1>6, SumBetween
<1>9. ASSUME lo = hi PROVE n * q = a * a
  <2>1. \A k \in 1..n : s[k] = lo /\ g[k] = lo * lo
    <3>1. \A k \in 1..n : s[k] = lo
      BY <1>1, <1>9
    <3> QED
      BY <1>3, <3>1
  <2>2. a = lo * n /\ q = (lo * lo) * n
    <3>1. lo \in Int /\ IsFiniteSet(1..n)
      BY <1>1, <1>6
    <3>2. SumFunctionOnSet(s, 1..n) = lo * Cardinality(1..n)
      BY <2>1, <3>1, SumOfSame
    <3> DEFINE square == lo * lo
    <3>3. square \in Int /\ \A k \in 1..n : g[k] = square
      BY <2>1, <3>1
    <3> HIDE DEF square
    <3>4. SumFunctionOnSet(g, 1..n) = square * Cardinality(1..n)
      BY <3>1, <3>3, SumOfSame
    <3> QED
      BY <1>6, <3>2, <3>4 DEF square
  <2>3. \A x, y \in Int : y * ((x * x) * y) = (x * y) * (x * y)
    OBVIOUS
  <2> QED
    BY <1>1, <1>2, <2>2, <2>3
<1>10. ASSUME n * q = a * a PROVE lo = hi
  <2>1. \A k \in 1..n : n * s[k] = a
    BY <1>1, <1>3, <1>6, <1>10, SumOfSquares
  <2>2. n * lo = a /\ n * hi = a
    BY <1>1, <2>1
  <2>3. \A v, w \in Int : n * (v - w) = n * v - n * w
    BY <1>2
  <2>4. \A v \in Int : n * v = 0 => v = 0
    BY <1>2
  <2>5. n * (lo - hi) = 0 /\ lo - hi \in Int
    <3>1. n * (lo - hi) = n * lo - n * hi
      BY <1>1, <2>3
    <3> QED
      BY <1>1, <1>7, <2>2, <3>1
  <2> QED
    BY <1>1, <2>4, <2>5
<1> HIDE DEF a, q
<1>11. n * q \in Int /\ a * a \in Int
  BY <1>2, <1>7
<1>12. Spread(s) = 0 <=> lo = hi
  BY <1>5, <1>9, <1>10, <1>11
<1> QED
  BY <1>4, <1>8, <1>12 DEF lo, hi, n

(* The entries of the rolling columns at one point.                         *)
LEMMA RollingEntries ==
    ASSUME NEW v \in Seq(Int), NEW w \in Nat, w > 0, NEW i \in 1..Len(v)
    PROVE  LET s == SubSeq(v, i - w + 1, i)
           IN IF i < w
              THEN /\ RollingMean(v, w)[i] = None /\ RollingStd(v, w)[i] = None
                   /\ RollingMin(v, w)[i] = None /\ RollingMax(v, w)[i] = None
              ELSE /\ s \in Seq(Int) /\ Len(s) = w
                   /\ RollingMean(v, w)[i] = {Total(s)} /\ RollingStd(v, w)[i] = {Spread(s)}
                   /\ RollingMin(v, w)[i] = {Min(ToSet(s))}
                   /\ RollingMax(v, w)[i] = {Max(ToSet(s))}
<1> DEFINE s == SubSeq(v, i - w + 1, i)
<1>1. i \in DOMAIN v /\ i \in Nat /\ Len(v) \in Nat /\ i <= Len(v)
  OBVIOUS
<1>2. i - 1 < Predecessor(w) <=> i < w
  BY <1>1 DEF Predecessor
<1>3. CASE i < w
  BY <1>1, <1>2, <1>3 DEF RollingMean, RollingStd, RollingMin, RollingMax, Rolling
<1>4. CASE ~(i < w)
  <2>1. /\ RollingMean(v, w)[i] = {Total(s)} /\ RollingStd(v, w)[i] = {Spread(s)}
        /\ RollingMin(v, w)[i] = {Min(ToSet(s))} /\ RollingMax(v, w)[i] = {Max(ToSet(s))}
    BY <1>1, <1>2, <1>4 DEF RollingMean, RollingStd, RollingMin, RollingMax, Rolling, Some
  <2>2. s \in Seq(Int) /\ Len(s) = w
    <3> DEFINE first == i - w + 1
    <3>1. first \in Int /\ first >= 1 /\ first <= i /\ i - first + 1 = w
      BY <1>1, <1>4
    <3> HIDE DEF first
    <3>2. \A k \in first..i : v[k] \in Int
      BY <1>1, <3>1
    <3>3. /\ SubSeq(v, first, i) \in Seq(Int)
          /\ Len(SubSeq(v, first, i)) = IF first <= i THEN i - first + 1 ELSE 0
      BY <1>1, <3>1, <3>2, SubSeqProperties
    <3> QED
      BY <3>1, <3>3 DEF first
  <2> HIDE DEF s
  <2> QED
    BY <1>4, <2>1, <2>2 DEF s
<1> QED
  BY <1>3, <1>4

LEMMA RollingAgrees ==
    ASSUME NEW v \in Seq(Int), NEW w \in Nat, w > 0, NEW i \in 1..Len(v)
    PROVE  /\ \A column \in {RollingMean(v, w), RollingStd(v, w), RollingMin(v, w),
                             RollingMax(v, w)} :
                column[i] # None <=> i >= w
           /\ \A mean \in RollingMean(v, w)[i], lo \in RollingMin(v, w)[i],
                 hi \in RollingMax(v, w)[i] :
                /\ w * lo <= mean /\ mean <= w * hi
                /\ RollingStd(v, w)[i] = Some(0) <=> lo = hi
<1> DEFINE s == SubSeq(v, i - w + 1, i)
<1>1. CASE i < w
  <2>1. /\ RollingMean(v, w)[i] = {} /\ RollingStd(v, w)[i] = {}
        /\ RollingMin(v, w)[i] = {} /\ RollingMax(v, w)[i] = {}
    BY <1>1, RollingEntries DEF None
  <2> QED
    BY <1>1, <2>1 DEF None
<1>2. CASE ~(i < w)
  <2>1. /\ s \in Seq(Int) /\ Len(s) = w
        /\ RollingMean(v, w)[i] = {Total(s)} /\ RollingStd(v, w)[i] = {Spread(s)}
        /\ RollingMin(v, w)[i] = {Min(ToSet(s))} /\ RollingMax(v, w)[i] = {Max(ToSet(s))}
    BY <1>2, RollingEntries
  <2> HIDE DEF s
  <2>2. /\ Len(s) * Min(ToSet(s)) <= Total(s) /\ Total(s) <= Len(s) * Max(ToSet(s))
        /\ Spread(s) = 0 <=> Min(ToSet(s)) = Max(ToSet(s))
    BY <2>1, WindowStatistics
  <2>3. \A x : {x} # {} /\ ({x} = {0} <=> x = 0)
    OBVIOUS
  <2>4. \A column \in {RollingMean(v, w), RollingStd(v, w), RollingMin(v, w),
                       RollingMax(v, w)} : column[i] # None
    BY <2>1, <2>3 DEF None
  <2>5. ASSUME NEW mean \in RollingMean(v, w)[i], NEW lo \in RollingMin(v, w)[i],
               NEW hi \in RollingMax(v, w)[i]
        PROVE  /\ w * lo <= mean /\ mean <= w * hi
               /\ RollingStd(v, w)[i] = Some(0) <=> lo = hi
    <3>1. mean = Total(s) /\ lo = Min(ToSet(s)) /\ hi = Max(ToSet(s))
      BY <2>1
    <3>2. RollingStd(v, w)[i] = Some(0) <=> Spread(s) = 0
      BY <2>1, <2>3 DEF Some
    <3> QED
      BY <2>1, <2>2, <3>1, <3>2
  <2>6. i >= w
    BY <1>2
  <2> QED
    BY <2>4, <2>5, <2>6
<1> QED
  BY <1>1, <1>2

-----------------------------------------------------------------------------
(* The columns that look back a fixed number of points.                     *)
LEMMA LookBackIsCausal ==
    ASSUME NEW t, NEW v, Begins(t, v), NEW i \in 1..Len(t), NEW n \in Nat
    PROVE  /\ Lag(t, n)[i] = Lag(v, n)[i]
           /\ GrowthRate(t, n)[i] = GrowthRate(v, n)[i]
           /\ Momentum(t, n)[i] = Momentum(v, n)[i]
<1>1. i \in DOMAIN t /\ i \in DOMAIN v /\ t[i] = v[i]
  BY DEF Begins
<1>2. CASE i - 1 < n
  BY <1>1, <1>2 DEF Lag, GrowthRate, Momentum
<1>3. CASE ~(i - 1 < n)
  <2>1. i - n \in 1..Len(t)
    BY <1>3 DEF Begins
  <2>2. t[i - n] = v[i - n]
    BY <2>1 DEF Begins
  <2> QED
    BY <1>1, <1>3, <2>2 DEF Lag, GrowthRate, Momentum
<1> QED
  BY <1>2, <1>3

(* The windows of log returns.                                              *)
Windows(r, w) == Rolling(LAMBDA s : s, r, w)

LEMMA WindowsAreCausal ==
    ASSUME NEW t, NEW v, Begins(t, v), NEW i \in 1..Len(t), NEW w \in Nat
    PROVE  Windows(t, w)[i] = Windows(v, w)[i]
<1>1. i \in DOMAIN t /\ i \in DOMAIN v
  BY DEF Begins
<1>2. CASE i - 1 < Predecessor(w)
  BY <1>1, <1>2 DEF Windows, Rolling
<1>3. CASE ~(i - 1 < Predecessor(w))
  <2> DEFINE x == SubSeq(t, i - w + 1, i)
             y == SubSeq(v, i - w + 1, i)
  <2>1. x = y
    BY <1>3, SameWindow
  <2>2. Windows(t, w)[i] = Some(x) /\ Windows(v, w)[i] = Some(y)
    BY <1>1, <1>3 DEF Windows, Rolling
  <2> HIDE DEF x, y
  <2> QED
    BY <2>1, <2>2
<1> QED
  BY <1>2, <1>3

LEMMA VolatilityAt ==
    ASSUME NEW v, DOMAIN v = 1..Len(v), Len(v) \in Nat, NEW w, NEW i \in 1..Len(v)
    PROVE  RealisedVolatility(v, w)[i] = IF i = 1 THEN None ELSE Windows(LogReturns(v), w)[i - 1]
<1> DEFINE r == Windows(LogReturns(v), w)
           n == Len(v) - 1
           S == {r[k] : k \in 1..n}
<1>1. CASE Len(v) < 2
  <2>1. i = 1
    BY <1>1
  <2> QED
    BY <1>1, <2>1 DEF RealisedVolatility
<1>2. CASE ~(Len(v) < 2)
  <2>1. DOMAIN LogReturns(v) = 1..n /\ n \in Nat
    BY <1>2 DEF LogReturns
  <2>2. r = [k \in 1..n |-> r[k]]
    BY <2>1 DEF Windows, Rolling
  <2>3. RealisedVolatility(v, w) = <<None>> \o r
    BY <1>2 DEF RealisedVolatility, Windows
  <2> HIDE DEF r
  <2>4. r \in Seq(S \cup {None}) /\ Len(r) = n
    <3> DEFINE X == S \cup {None}
    <3>1. \A k \in 1..n : r[k] \in X
      OBVIOUS
    <3> HIDE DEF X, n
    <3>2. r \in [1..n -> X]
      BY <2>2, <3>1
    <3>3. r \in Seq(X) /\ Len(r) = n
      BY <2>1, <3>2
    <3> QED
      BY <3>3 DEF X
  <2>5. <<None>> \in Seq(S \cup {None}) /\ Len(<<None>>) = 1 /\ <<None>>[1] = None
    OBVIOUS
  <2> HIDE DEF S
  <2>6. (<<None>> \o r)[i] = IF i <= 1 THEN <<None>>[i] ELSE r[i - 1]
    <3>1. i \in 1..(1 + n)
      BY <2>1
    <3> QED
      BY <2>4, <2>5, <3>1, ConcatProperties
  <2>7. (<<None>> \o r)[i] = IF i = 1 THEN None ELSE r[i - 1]
    <3>1. i <= 1 <=> i = 1
      OBVIOUS
    <3> QED
      BY <2>5, <2>6, <3>1
  <2> QED
    BY <2>3, <2>7, Zenon DEF r
<1> QED
  BY <1>1, <1>2

LEMMA VolatilityIsCausal ==
    ASSUME NEW t, NEW v, Begins(t, v), NEW i \in 1..Len(t), NEW w \in Nat
    PROVE  RealisedVolatility(t, w)[i] = RealisedVolatility(v, w)[i]
<1>1. /\ DOMAIN t = 1..Len(t) /\ Len(t) \in Nat /\ DOMAIN v = 1..Len(v) /\ Len(v) \in Nat
      /\ i \in 1..Len(v) /\ Len(t) <= Len(v)
  BY DEF Begins
<1>2. /\ RealisedVolatility(t, w)[i] = IF i = 1 THEN None ELSE Windows(LogReturns(t), w)[i - 1]
      /\ RealisedVolatility(v, w)[i] = IF i = 1 THEN None ELSE Windows(LogReturns(v), w)[i - 1]
  BY <1>1, VolatilityAt
<1>3. CASE i = 1
  BY <1>2, <1>3
<1>4. CASE i # 1
  <2> DEFINE x == LogReturns(t)
             y == LogReturns(v)
  <2>1. Len(t) - 1 \in Nat /\ Len(v) - 1 \in Nat /\ i - 1 \in 1..(Len(t) - 1)
    BY <1>1, <1>4
  <2>2. /\ DOMAIN x = 1..(Len(t) - 1) /\ Len(x) = Len(t) - 1
        /\ DOMAIN y = 1..(Len(v) - 1) /\ Len(y) = Len(v) - 1
    BY <2>1 DEF LogReturns
  <2>3. ASSUME NEW k \in 1..(Len(t) - 1) PROVE x[k] = y[k]
    <3>1. k \in 1..Len(t) /\ k + 1 \in 1..Len(t) /\ k \in 1..(Len(v) - 1)
      BY <1>1
    <3>2. t[k] = v[k] /\ t[k + 1] = v[k + 1]
      BY <3>1 DEF Begins
    <3> QED
      BY <3>1, <3>2 DEF LogReturns
  <2> HIDE DEF x, y
  <2>4. Begins(x, y)
    BY <1>1, <2>1, <2>2, <2>3 DEF Begins
  <2>5. i - 1 \in 1..Len(x)
    BY <2>1, <2>2
  <2>6. Windows(x, w)[i - 1] = Windows(y, w)[i - 1]
    BY <2>4, <2>5, WindowsAreCausal
  <2> QED
    BY <1>2, <1>4, <2>6 DEF x, y
<1> QED
  BY <1>3, <1>4

(* A row of the engine's features, with a given target.                     *)
Prices(h) == [i \in DOMAIN h |-> h[i].price]
Volumes(h) == [i \in DOMAIN h |-> h[i].volume]
Zeros(h) == [i \in DOMAIN h |-> 0]

LagsAt(h, i) == [k \in DOMAIN LagFeatures(Prices(h), DefaultLags) |->
                   LagFeatures(Prices(h), DefaultLags)[k][i]]

RowOf(h, i, target) ==
    LET p == Prices(h)
        vol == RealisedVolatility(p, DefaultWindow)[i]
        std == RollingStd(p, DefaultWindow)[i]
    IN [timestamp |-> h[i].timestamp,
        target |-> target,
        price |-> p[i],
        lag |-> LagsAt(h, i),
        mean |-> RollingMean(p, DefaultWindow)[i], std |-> std,
        momentum_1 |-> Momentum(p, 1)[i], momentum_3 |-> Momentum(p, 3)[i],
        rate_of_change_1 |-> GrowthRate(p, 1)[i],
        rate_of_change_3 |-> GrowthRate(p, 3)[i],
        volatility |-> vol, volatility_ratio |-> Both(vol, std),
        volume |-> Volumes(h)[i], volume_mean |-> RollingMean(Volumes(h), DefaultWindow)[i],
        liquidity_change |-> GrowthRate(Zeros(h), 1)[i],
        regime |-> <<vol, Momentum(p, 3)[i], std>>]

TargetOf(h, i) == IF i < Len(h) THEN Some(Prices(h)[i + 1]) ELSE None

LEMMA RowsOfFeatures ==
    ASSUME NEW h
    PROVE  GenerateFeatures(h) = [i \in DOMAIN h |-> RowOf(h, i, TargetOf(h, i))]
BY Zenon DEF GenerateFeatures, RowOf, TargetOf, Prices, Volumes, Zeros, LagsAt

LEMMA LagsAreLags ==
    ASSUME NEW h, NEW i
    PROVE  LagsAt(h, i) = [k \in 1..3 |-> Lag(Prices(h), k)[i]]
<1>1. DOMAIN DefaultLags = 1..3 /\ \A k \in 1..3 : DefaultLags[k] = k
  BY DEF DefaultLags
<1>2. LagFeatures(Prices(h), DefaultLags) = [k \in 1..3 |-> Lag(Prices(h), k)]
  BY <1>1 DEF LagFeatures
<1> QED
  BY <1>2 DEF LagsAt

LEMMA TargetLeftOut ==
    ASSUME NEW h, NEW i, NEW target
    PROVE  WithoutTarget(RowOf(h, i, target)) = RowOf(h, i, None)
BY DEF WithoutTarget, RowOf

(* The row of a point depends on the points up to it only.                  *)
Point == [timestamp : Nat, price : Int, volume : Int]

LEMMA RowIsCausal ==
    ASSUME NEW h, DOMAIN h = 1..Len(h), Len(h) \in Nat, NEW k \in 1..Len(h), NEW i \in 1..k
    PROVE  /\ i \in DOMAIN Truncated(h, k)
           /\ RowOf(Truncated(h, k), i, None) = RowOf(h, i, None)
<1> DEFINE g == Truncated(h, k)
           p == Prices(g)
           q == Prices(h)
           u == Volumes(g)
           v == Volumes(h)
<1>1. g = [j \in 1..k |-> h[j]]
  <2>1. k \in 0..Len(h)
    OBVIOUS
  <2> QED
    BY <2>1, TruncatedColumn
<1>2. /\ DOMAIN g = 1..k /\ k \in Nat /\ k <= Len(h) /\ \A j \in 1..k : g[j] = h[j]
      /\ \A j \in 1..k : j \in 1..Len(h)
  BY <1>1
<1> HIDE DEF g
<1>3. Begins(p, q) /\ Len(p) = k
  BY <1>2 DEF Begins, Prices
<1>4. Begins(u, v) /\ Len(u) = k
  BY <1>2 DEF Begins, Volumes
<1>5. Begins(Zeros(g), Zeros(h)) /\ Len(Zeros(g)) = k
  BY <1>2 DEF Begins, Zeros
<1>6. g[i] = h[i] /\ p[i] = q[i] /\ u[i] = v[i]
  BY <1>2, <1>3, <1>4 DEF Begins
<1> HIDE DEF p, q, u, v
<1>7. DefaultWindow \in Nat /\ 1 \in Nat /\ 3 \in Nat /\ i \in 1..Len(p) /\ i \in 1..Len(u)
      /\ i \in 1..Len(Zeros(g))
  BY <1>3, <1>4, <1>5 DEF DefaultWindow
<1>8. /\ RollingMean(p, DefaultWindow)[i] = RollingMean(q, DefaultWindow)[i]
      /\ RollingStd(p, DefaultWindow)[i] = RollingStd(q, DefaultWindow)[i]
      /\ RollingMean(u, DefaultWindow)[i] = RollingMean(v, DefaultWindow)[i]
  BY <1>3, <1>4, <1>7, RollingIsCausal
<1>9. \A n \in Nat : /\ Lag(p, n)[i] = Lag(q, n)[i] /\ Momentum(p, n)[i] = Momentum(q, n)[i]
                     /\ GrowthRate(p, n)[i] = GrowthRate(q, n)[i]
                     /\ GrowthRate(Zeros(g), n)[i] = GrowthRate(Zeros(h), n)[i]
  BY <1>3, <1>5, <1>7, LookBackIsCausal
<1>10. RealisedVolatility(p, DefaultWindow)[i] = RealisedVolatility(q, DefaultWindow)[i]
  BY <1>3, <1>7, VolatilityIsCausal
<1>11. LagsAt(g, i) = LagsAt(h, i)
  <2>1. \A n \in 1..3 : Lag(p, n)[i] = Lag(q, n)[i]
    BY <1>9
  <2>2. [n \in 1..3 |-> Lag(p, n)[i]] = [n \in 1..3 |-> Lag(q, n)[i]]
    BY <2>1
  <2> QED
    BY <2>2, LagsAreLags DEF p, q
<1>12. /\ Momentum(p, 1)[i] = Momentum(q, 1)[i] /\ Momentum(p, 3)[i] = Momentum(q, 3)[i]
       /\ GrowthRate(p, 1)[i] = GrowthRate(q, 1)[i] /\ GrowthRate(p, 3)[i] = GrowthRate(q, 3)[i]
       /\ GrowthRate(Zeros(g), 1)[i] = GrowthRate(Zeros(h), 1)[i]
  BY <1>9
<1>13. RowOf(g, i, None) = RowOf(h, i, None)
  BY <1>6, <1>8, <1>10, <1>11, <1>12, Zenon DEF RowOf, p, q, u, v
<1> QED
  BY <1>2, <1>13 DEF g

(* The history is read off its rows.                                        *)
LEMMA HistoryOfRows ==
    ASSUME NEW h \in Seq(Point), NEW rows, rows = GenerateFeatures(h)
    PROVE  /\ DOMAIN rows = DOMAIN h
           /\ [i \in DOMAIN rows |-> [timestamp |-> rows[i].timestamp, price |-> rows[i].price,
                                      volume |-> rows[i].volume]] = h
<1>1. rows = [i \in DOMAIN h |-> RowOf(h, i, TargetOf(h, i))]
  BY RowsOfFeatures
<1>2. \A i \in DOMAIN h : /\ rows[i].timestamp = h[i].timestamp
                          /\ rows[i].price = h[i].price
                          /\ rows[i].volume = h[i].volume
  BY <1>1 DEF RowOf, Prices, Volumes
<1>3. DOMAIN rows = DOMAIN h
  BY <1>1
<1>4. ASSUME NEW i \in DOMAIN h
      PROVE  [timestamp |-> h[i].timestamp, price |-> h[i].price, volume |-> h[i].volume] = h[i]
  <2>1. ASSUME NEW S, h \in Seq(S) PROVE h[i] \in S
    BY <2>1
  <2>2. h[i] \in Point
    BY <2>1
  <2> QED
    BY <2>2 DEF Point
<1>5. h = [i \in DOMAIN h |-> h[i]]
  OBVIOUS
<1> QED
  BY <1>2, <1>3, <1>4, <1>5

LEMMA RowsAreCausal ==
    ASSUME NEW h \in Seq(Point), NEW rows, rows = GenerateFeatures(h),
           NEW k \in DOMAIN h, NEW i \in 1..k
    PROVE  WithoutTarget(rows[i]) = WithoutTarget(GenerateFeatures(Truncated(h, k))[i])
<1>1. DOMAIN h = 1..Len(h) /\ Len(h) \in Nat
  OBVIOUS
<1>2. i \in DOMAIN h /\ k \in 1..Len(h)
  BY <1>1
<1>3. /\ i \in DOMAIN Truncated(h, k)
      /\ RowOf(Truncated(h, k), i, None) = RowOf(h, i, None)
  BY <1>1, <1>2, RowIsCausal
<1>4. /\ rows[i] = RowOf(h, i, TargetOf(h, i))
      /\ GenerateFeatures(Truncated(h, k))[i]
           = RowOf(Truncated(h, k), i, TargetOf(Truncated(h, k), i))
  BY <1>2, <1>3, RowsOfFeatures
<1> QED
  BY <1>3, <1>4, TargetLeftOut

-----------------------------------------------------------------------------
(* The reply of an ingestion is the rows of the history it fetched, if any. *)
IngestInv ==
    Known /\ (Replied("ingest") => \/ reply.rows = <<>>
                                   \/ \E h \in Seq(Point) : reply.rows = GenerateFeatures(h))

LEMMA HistoryIsPoints ==
    ASSUME NEW chart \in Chart
    PROVE  PriceHistory(chart) \in Seq(Point)
<1> DEFINE prices == chart.prices
           volumes == chart.volumes
           pairs == Zip2(prices, volumes)
           n == IF Len(prices) < Len(volumes) THEN Len(prices) ELSE Len(volumes)
<1>1. prices \in Seq(Nat \X Int) /\ volumes \in Seq(Nat \X Int)
  BY InputAssumption
<1>2. PriceHistory(chart) = [i \in DOMAIN pairs |-> [timestamp |-> prices[i][1],
                                price |-> prices[i][2], volume |-> volumes[i][2]]]
  BY DEF PriceHistory
<1> HIDE DEF prices, volumes
<1>3. n \in Nat /\ DOMAIN pairs = 1..n
  BY <1>1 DEF Zip2
<1>4. \A i \in 1..n : i \in 1..Len(prices) /\ i \in 1..Len(volumes)
  BY <1>1
<1>5. \A i \in 1..n : prices[i] \in Nat \X Int /\ volumes[i] \in Nat \X Int
  <2> HIDE DEF n, pairs
  <2>1. \A s \in Seq(Nat \X Int) : \A i \in 1..Len(s) : s[i] \in Nat \X Int
    OBVIOUS
  <2> QED
    BY <1>1, <1>4, <2>1
<1> HIDE DEF n, pairs
<1>6. PriceHistory(chart) \in [1..n -> Point]
  BY <1>2, <1>3, <1>5 DEF Point
<1> QED
  BY <1>3, <1>6

LEMMA IngestStep == ASSUME IngestInv, [Next]_vars PROVE IngestInv'
<1> USE DEF IngestInv
<1>1. Known'
  BY KnownStep
<1>2. CASE UNCHANGED vars
  BY <1>1, <1>2 DEF vars, Replied
<1>3. CASE reply'.kind # "ingest"
  BY <1>1, <1>3 DEF Replied
<1>4. CASE ServeIngest
  <2>1. \/ reply' = [kind |-> "ingest", rows |-> <<>>]
        \/ \E chart \in Chart :
             reply' = [kind |-> "ingest", rows |-> GenerateFeatures(PriceHistory(chart))]
    BY <1>4 DEF ServeIngest, Reply
  <2>2. \/ reply'.rows = <<>>
        \/ \E chart \in Chart : reply'.rows = GenerateFeatures(PriceHistory(chart))
    BY <2>1
  <2>3. \/ reply'.rows = <<>>
        \/ \E h \in Seq(Point) : reply'.rows = GenerateFeatures(h)
    BY <2>2, HistoryIsPoints
  <2> QED
    BY <1>1, <2>3
<1> QED
  BY <1>2, <1>3, <1>4, OtherReplies

LEMMA IngestInit == Init => IngestInv
BY KnownInit DEF Init, IngestInv, Replied, Nothing

LEMMA CausalFromInv == RollingInv /\ IngestInv => FeaturesAreCausal
<1>1. SUFFICES ASSUME RollingInv, IngestInv PROVE FeaturesAreCausal
  OBVIOUS
<1>2. ASSUME Replied("rolling"), NEW k \in 0..Len(request.values)
      PROVE  LET v == Truncated(request.values, k)
                 w == WindowOf(request)
             IN /\ Truncated(reply.mean, k) = RollingMean(v, w)
                /\ Truncated(reply.std, k) = RollingStd(v, w)
                /\ Truncated(reply.min, k) = RollingMin(v, w)
                /\ Truncated(reply.max, k) = RollingMax(v, w)
  <2>1. request.values \in Seq(Int) /\ WindowOf(request) \in Nat
    BY <1>1, <1>2, InputAssumption DEF RollingInv
  <2> QED
    BY <1>1, <1>2, <2>1, TruncatedRolling DEF RollingInv
<1>3. ASSUME Replied("ingest")
      PROVE  LET history == [i \in DOMAIN reply.rows |->
                              [timestamp |-> reply.rows[i].timestamp,
                               price |-> reply.rows[i].price, volume |-> reply.rows[i].volume]]
             IN \A k \in DOMAIN history : \A i \in 1..k :
                  WithoutTarget(reply.rows[i]) =
                    WithoutTarget(GenerateFeatures(Truncated(history, k))[i])
  <2> DEFINE history == [i \in DOMAIN reply.rows |->
                           [timestamp |-> reply.rows[i].timestamp,
                            price |-> reply.rows[i].price, volume |-> reply.rows[i].volume]]
  <2>1. CASE reply.rows = <<>>
    <3>1. DOMAIN history = {}
      BY <2>1
    <3> QED
      BY <3>1
  <2>2. CASE \E h \in Seq(Point) : reply.rows = GenerateFeatures(h)
    <3>1. PICK h \in Seq(Point) : reply.rows = GenerateFeatures(h)
      BY <2>2
    <3>2. history = h
      BY <3>1, HistoryOfRows
    <3> HIDE DEF history
    <3>3. \A k \in DOMAIN history : \A i \in 1..k :
            WithoutTarget(reply.rows[i]) =
              WithoutTarget(GenerateFeatures(Truncated(history, k))[i])
      BY <3>1, <3>2, RowsAreCausal
    <3> QED
      BY <3>3 DEF history
  <2> QED
    BY <1>1, <1>3, <2>1, <2>2 DEF IngestInv
<1> QED
  BY <1>2, <1>3 DEF FeaturesAreCausal

(* The engine's answer about the first points of a series, and every row    *)
(* but its target, is the same whatever comes after them.                   *)
THEOREM FeaturesNeverLookAhead == Spec => []FeaturesAreCausal
<1>1. Init => RollingInv /\ IngestInv
  BY RollingInit, IngestInit
<1>2. RollingInv /\ IngestInv /\ [Next]_vars => (RollingInv /\ IngestInv)'
  BY RollingStep, IngestStep
<1> QED
  BY <1>1, <1>2, CausalFromInv, PTL DEF Spec

-----------------------------------------------------------------------------
(* The columns of one row that look back n points.                          *)
LooksBack(v, i, n) ==
    /\ Momentum(v, n)[i] = {v[i] - x : x \in Lag(v, n)[i]}
    /\ GrowthRate(v, n)[i] = {<<v[i] - x, x>> : x \in Lag(v, n)[i] \ {0}}

LEMMA LookBackAgrees ==
    ASSUME NEW v, DOMAIN v = 1..Len(v), Len(v) \in Nat, NEW i \in 1..Len(v), NEW n \in Nat
    PROVE  LooksBack(v, i, n)
<1> USE DEF LooksBack
<1>1. CASE i - 1 < n
  <2>1. Lag(v, n)[i] = {} /\ Momentum(v, n)[i] = {} /\ GrowthRate(v, n)[i] = {}
    BY <1>1 DEF Lag, Momentum, GrowthRate, None
  <2> QED
    BY <1>1, <2>1
<1>2. CASE ~(i - 1 < n)
  <2>1. /\ Lag(v, n)[i] = {v[i - n]} /\ Momentum(v, n)[i] = {v[i] - v[i - n]}
        /\ GrowthRate(v, n)[i] = IF v[i - n] = 0 THEN {} ELSE {<<v[i] - v[i - n], v[i - n]>>}
    BY <1>2 DEF Lag, Momentum, GrowthRate, None, Some
  <2> DEFINE y == v[i - n]
  <2> HIDE DEF y
  <2>2. {v[i] - x : x \in {y}} = {v[i] - y}
    OBVIOUS
  <2>3. {<<v[i] - x, x>> : x \in {y} \ {0}} = IF y = 0 THEN {} ELSE {<<v[i] - y, y>>}
    OBVIOUS
  <2> QED
    BY <2>1, <2>2, <2>3 DEF y, Some
<1> QED
  BY <1>1, <1>2

(* A window of returns spans one price more than its length.                *)
LEMMA VolatilityHasDeviation ==
    ASSUME NEW v, DOMAIN v = 1..Len(v), Len(v) \in Nat, NEW i \in 1..Len(v),
           RealisedVolatility(v, DefaultWindow)[i] # None
    PROVE  RollingStd(v, DefaultWindow)[i] # None
<1>1. i # 1 /\ Windows(LogReturns(v), DefaultWindow)[i - 1] # None
  BY VolatilityAt
<1>2. i - 1 \in 1..(Len(v) - 1)
  BY <1>1
<1>3. DOMAIN LogReturns(v) = 1..(Len(v) - 1)
  BY DEF LogReturns
<1>4. ~((i - 1) - 1 < Predecessor(DefaultWindow))
  BY <1>1, <1>2, <1>3 DEF Windows, Rolling
<1>5. ~(i - 1 < Predecessor(DefaultWindow))
  BY <1>4 DEF Predecessor, DefaultWindow
<1>6. RollingStd(v, DefaultWindow)[i] = {Spread(SubSeq(v, i - DefaultWindow + 1, i))}
  BY <1>5 DEF RollingStd, Rolling, Some
<1> QED
  BY <1>6 DEF None

LEMMA RowAgrees ==
    ASSUME NEW h \in Seq(Point), NEW rows, rows = GenerateFeatures(h), NEW i \in DOMAIN rows
    PROVE  LET row == rows[i]
           IN /\ \A n \in {1, 3} :
                   LET change == IF n = 1 THEN row.momentum_1 ELSE row.momentum_3
                       rate == IF n = 1 THEN row.rate_of_change_1 ELSE row.rate_of_change_3
                   IN /\ change = {row.price - x : x \in row.lag[n]}
                      /\ rate = {<<row.price - x, x>> : x \in row.lag[n] \ {0}}
              /\ i > 1 => row.lag[1] = Some(rows[i - 1].price)
              /\ i > 1 => rows[i - 1].target = Some(row.price)
              /\ row.volatility # None => row.std # None
              /\ row.volatility_ratio = None <=> row.volatility = None
<1> DEFINE p == Prices(h)
           row == rows[i]
           vol == RealisedVolatility(p, DefaultWindow)[i]
           std == RollingStd(p, DefaultWindow)[i]
<1>1. /\ DOMAIN rows = 1..Len(h) /\ Len(h) \in Nat /\ DOMAIN h = 1..Len(h)
      /\ \A j \in 1..Len(h) : rows[j] = RowOf(h, j, TargetOf(h, j))
  BY RowsOfFeatures
<1>2. DOMAIN p = 1..Len(h) /\ Len(p) = Len(h) /\ i \in 1..Len(h)
  BY <1>1 DEF Prices
<1>3. \A j \in 1..Len(h) : rows[j].price = p[j] /\ rows[j].target = TargetOf(h, j)
  BY <1>1 DEF RowOf
<1>4. /\ row.momentum_1 = Momentum(p, 1)[i] /\ row.momentum_3 = Momentum(p, 3)[i]
      /\ row.rate_of_change_1 = GrowthRate(p, 1)[i]
      /\ row.rate_of_change_3 = GrowthRate(p, 3)[i]
      /\ row.lag = LagsAt(h, i)
      /\ row.volatility = vol /\ row.std = std /\ row.volatility_ratio = Both(vol, std)
  BY <1>1, <1>2 DEF RowOf
<1>5. \A n \in {1, 3} : row.lag[n] = Lag(p, n)[i]
  BY <1>4, LagsAreLags
<1>6. row.price = p[i]
  BY <1>2, <1>3
<1>7. vol # None => std # None
  BY <1>1, <1>2, VolatilityHasDeviation
<1> HIDE DEF row, vol, std, p
<1>8. ASSUME NEW n \in {1, 3}
      PROVE  /\ Momentum(p, n)[i] = {p[i] - x : x \in Lag(p, n)[i]}
             /\ GrowthRate(p, n)[i] = {<<p[i] - x, x>> : x \in Lag(p, n)[i] \ {0}}
  <2>1. DOMAIN p = 1..Len(p) /\ Len(p) \in Nat /\ i \in 1..Len(p) /\ n \in Nat
    BY <1>1, <1>2
  <2>2. LooksBack(p, i, n)
    BY <2>1, LookBackAgrees
  <2> QED
    BY <2>2 DEF LooksBack
<1>9. ASSUME NEW n \in {1, 3}
      PROVE  LET change == IF n = 1 THEN row.momentum_1 ELSE row.momentum_3
                 rate == IF n = 1 THEN row.rate_of_change_1 ELSE row.rate_of_change_3
             IN /\ change = {row.price - x : x \in row.lag[n]}
                /\ rate = {<<row.price - x, x>> : x \in row.lag[n] \ {0}}
  <2>1. CASE n = 1
    BY <1>4, <1>5, <1>6, <1>8, <2>1
  <2>2. CASE n = 3
    BY <1>4, <1>5, <1>6, <1>8, <2>2
  <2> QED
    BY <2>1, <2>2
<1>10. ASSUME i > 1
       PROVE  row.lag[1] = Some(rows[i - 1].price) /\ rows[i - 1].target = Some(row.price)
  <2>1. i - 1 \in 1..Len(h) /\ i - 1 < Len(h) /\ i - 1 >= 1 /\ (i - 1) + 1 = i
    BY <1>1, <1>2, <1>10
  <2>2. Lag(p, 1)[i] = Some(p[i - 1])
    BY <1>2, <2>1 DEF Lag
  <2>3. rows[i - 1].target = Some(p[i])
    BY <1>3, <2>1 DEF TargetOf, p
  <2> QED
    BY <1>3, <1>5, <1>6, <2>1, <2>2, <2>3
<1>11. row.volatility_ratio = None <=> row.volatility = None
  <2>1. Both(vol, std) = {} <=> vol = {} \/ std = {}
    <3>1. ASSUME NEW a \in vol, NEW b \in std PROVE <<a, b>> \in Both(vol, std)
      BY DEF Both
    <3>2. ASSUME NEW z \in Both(vol, std) PROVE vol # {} /\ std # {}
      <4>1. z[1] \in vol /\ z[2] \in std
        BY DEF Both
      <4> QED
        BY <4>1
    <3> QED
      BY <3>1, <3>2
  <2> QED
    BY <1>4, <1>7, <2>1 DEF None
<1> QED
  BY <1>4, <1>7, <1>9, <1>10, <1>11 DEF row

LEMMA AgreeFromInv == RollingInv /\ IngestInv => FeaturesAgree
<1>1. SUFFICES ASSUME RollingInv, IngestInv PROVE FeaturesAgree
  OBVIOUS
<1>2. ASSUME Replied("rolling"), NEW w \in {WindowOf(request)} \ {0}, NEW i \in DOMAIN reply.mean
      PROVE  /\ \A column \in {reply.mean, reply.std, reply.min, reply.max} :
                  column[i] # None <=> i >= w
             /\ \A mean \in reply.mean[i], lo \in reply.min[i], hi \in reply.max[i] :
                  /\ w * lo <= mean /\ mean <= w * hi
                  /\ reply.std[i] = Some(0) <=> lo = hi
  <2> DEFINE v == request.values
  <2>1. /\ v \in Seq(Int) /\ w \in Nat /\ w > 0
        /\ reply.mean = RollingMean(v, w) /\ reply.std = RollingStd(v, w)
        /\ reply.min = RollingMin(v, w) /\ reply.max = RollingMax(v, w)
    BY <1>1, <1>2, InputAssumption DEF RollingInv
  <2> HIDE DEF v
  <2>2. i \in 1..Len(v)
    BY <2>1, RollingDomains
  <2> QED
    BY <2>1, <2>2, RollingAgrees
<1>3. ASSUME Replied("ingest"), NEW i \in DOMAIN reply.rows
      PROVE  LET row == reply.rows[i]
             IN /\ \A n \in {1, 3} :
                     LET change == IF n = 1 THEN row.momentum_1 ELSE row.momentum_3
                         rate == IF n = 1 THEN row.rate_of_change_1 ELSE row.rate_of_change_3
                     IN /\ change = {row.price - x : x \in row.lag[n]}
                        /\ rate = {<<row.price - x, x>> : x \in row.lag[n] \ {0}}
                /\ i > 1 => row.lag[1] = Some(reply.rows[i - 1].price)
                /\ i > 1 => reply.rows[i - 1].target = Some(row.price)
                /\ row.volatility # None => row.std # None
                /\ row.volatility_ratio = None <=> row.volatility = None
  <2>1. PICK h \in Seq(Point) : reply.rows = GenerateFeatures(h)
    <3>1. reply.rows # <<>>
      BY <1>3
    <3> QED
      BY <1>1, <1>3, <3>1 DEF IngestInv
  <2> QED
    BY <1>3, <2>1, RowAgrees
<1> QED
  BY <1>2, <1>3 DEF FeaturesAgree

(* The columns of a row agree: a window's statistics are there together and *)
(* in order, a deviation is zero only for equal values, and lags, momentum, *)
(* rates of change and targets name the same prices.                        *)
THEOREM FeaturesAlwaysAgree == Spec => []FeaturesAgree
<1>1. Init => RollingInv /\ IngestInv
  BY RollingInit, IngestInit
<1>2. RollingInv /\ IngestInv /\ [Next]_vars => (RollingInv /\ IngestInv)'
  BY RollingStep, IngestStep
<1> QED
  BY <1>1, <1>2, AgreeFromInv, PTL DEF Spec

-----------------------------------------------------------------------------
(* Merkle trees.                                                            *)

(* A node is the digest of its two children's digests.                      *)
LEMMA CombinedText ==
    ASSUME NEW l, NEW r
    PROVE  /\ JoinText(<<<<l>>, <<r>>>>) = <<l, Separator, r>>
           /\ HashCombined(l, r) = <<<<l, Separator, r>>>>
<1> DEFINE parts == <<<<l>>, <<r>>>>
           both == Joined(parts[1], parts[2])
           text == [k \in 1..2 |-> IF k = 1 THEN parts[1] ELSE both]
           chosen == CHOOSE t : IsJoin(t, parts)
<1>1. /\ DOMAIN parts = 1..2 /\ Len(parts) = 2 /\ parts[1] = <<l>> /\ parts[2] = <<r>>
  OBVIOUS
<1>2. both = <<l, Separator, r>>
  <2>1. ASSUME NEW a, NEW b, NEW c PROVE <<a>> \o <<b>> \o <<c>> = <<a, b, c>>
    <3> DEFINE T == {a, b, c}
    <3>1. <<a>> \in Seq(T) /\ <<b>> \in Seq(T) /\ <<c>> \in Seq(T)
      OBVIOUS
    <3>2. ASSUME NEW x \in Seq(T), NEW y \in Seq(T), NEW z \in Seq(T),
                 Len(x) = 1, Len(y) = 1, Len(z) = 1
          PROVE  x \o y \o z = <<x[1], y[1], z[1]>>
      <4> HIDE DEF T
      <4>1. /\ x \o y \in Seq(T) /\ Len(x \o y) = 2
            /\ (x \o y)[1] = x[1] /\ (x \o y)[2] = y[1]
        <5>1. /\ x \o y \in Seq(T) /\ Len(x \o y) = Len(x) + Len(y)
              /\ \A i \in 1..(Len(x) + Len(y)) :
                   (x \o y)[i] = IF i <= Len(x) THEN x[i] ELSE y[i - Len(x)]
          BY ConcatProperties
        <5> QED
          BY <3>2, <5>1
      <4> DEFINE xy == x \o y
                 xyz == xy \o z
      <4> HIDE DEF xy
      <4>2. xy \in Seq(T) /\ Len(xy) = 2 /\ xy[1] = x[1] /\ xy[2] = y[1]
        BY <4>1 DEF xy
      <4>3. /\ xyz \in Seq(T) /\ Len(xyz) = 3
            /\ xyz[1] = xy[1] /\ xyz[2] = xy[2] /\ xyz[3] = z[1]
        <5>1. /\ xyz \in Seq(T) /\ Len(xyz) = Len(xy) + Len(z)
              /\ \A i \in 1..(Len(xy) + Len(z)) :
                   xyz[i] = IF i <= Len(xy) THEN xy[i] ELSE z[i - Len(xy)]
          BY <4>2, ConcatProperties
        <5> HIDE DEF xyz
        <5> QED
          BY <3>2, <4>2, <5>1
      <4> HIDE DEF xyz
      <4>4. <<x[1], y[1], z[1]>> \in Seq(T)
        BY <3>2
      <4>5. xyz = <<x[1], y[1], z[1]>>
        BY <4>2, <4>3, <4>4, SeqEqual
      <4> QED
        BY <4>5 DEF xyz, xy
    <3> HIDE DEF T
    <3>3. <<a>> \o <<b>> \o <<c>> = <<<<a>>[1], <<b>>[1], <<c>>[1]>>
      BY <3>1, <3>2
    <3> QED
      BY <3>3
  <2> QED
    BY <1>1, <2>1 DEF Joined
<1> HIDE DEF parts
<1>3. IsJoin(text, parts)
  <2>1. text[1] = parts[1] /\ text[2] = both
    OBVIOUS
  <2>2. ASSUME NEW k \in 1..2
        PROVE  text[k] = IF k = 1 THEN parts[1] ELSE Joined(text[k - 1], parts[k])
    <3> HIDE DEF text
    <3>1. CASE k = 1
      BY <2>1, <3>1
    <3>2. CASE k = 2
      BY <2>1, <3>2
    <3> QED
      BY <3>1, <3>2
  <2>3. text = [k \in 1..2 |-> text[k]]
    OBVIOUS
  <2> HIDE DEF text
  <2>4. [k \in 1..2 |-> text[k]]
          = [k \in 1..2 |-> IF k = 1 THEN parts[1] ELSE Joined(text[k - 1], parts[k])]
    BY <2>2
  <2> QED
    BY <1>1, <2>3, <2>4 DEF IsJoin
<1> HIDE DEF text
<1>4. IsJoin(chosen, parts)
  BY <1>3
<1>5. JoinText(parts) = chosen[2]
  BY <1>1, JoinedText
<1> HIDE DEF chosen
<1>6. \A k \in 1..2 : chosen[k] = IF k = 1 THEN parts[1] ELSE Joined(chosen[k - 1], parts[k])
  BY <1>1, <1>4 DEF IsJoin
<1>7. chosen[1] = parts[1] /\ chosen[2] = Joined(chosen[1], parts[2])
  BY <1>6
<1>8. JoinText(parts) = <<l, Separator, r>>
  BY <1>2, <1>5, <1>7
<1> HIDE DEF both
<1>9. JoinText(<<<<l>>, <<r>>>>) = <<l, Separator, r>>
  BY <1>8 DEF parts
<1> QED
  BY <1>9 DEF HashCombined, HashString

(* The levels that Levels chooses, and those of the filling.                *)
Above(level) == IF Len(level) > 1 THEN NextLevel(level) ELSE level

IsLevels(levels, items, n) ==
    levels = [k \in 0..n |-> IF k = 0 THEN Leaves(items) ELSE Above(levels[k - 1])]

Wider(f) == IF Len(f.texts) > f.block
            THEN [texts |-> Even(f.texts, f.block), block |-> 2 * f.block] ELSE f

IsFill(fill, items, n) ==
    fill = [k \in 0..n |-> IF k = 0 THEN [texts |-> items, block |-> 1]
                           ELSE Wider(fill[k - 1])]

LEMMA LevelsExist ==
    ASSUME NEW items, NEW N \in Nat
    PROVE  \E levels : IsLevels(levels, items, N)
<1> DEFINE Good == {n \in 0..N : \E levels : IsLevels(levels, items, n)}
<1>1. 0 \in Good
  <2> DEFINE levels == [k \in 0..0 |-> Leaves(items)]
  <2>1. IsLevels(levels, items, 0)
    BY DEF IsLevels
  <2> QED
    BY <2>1
<1>2. ASSUME NEW n \in 0..(N - 1), n \in Good PROVE n + 1 \in Good
  <2>1. PICK g : IsLevels(g, items, n)
    BY <1>2
  <2> DEFINE top == Above(g[n])
             levels == [k \in 0..(n + 1) |-> IF k = n + 1 THEN top ELSE g[k]]
  <2>2. \A k \in 0..n : g[k] = IF k = 0 THEN Leaves(items) ELSE Above(g[k - 1])
    BY <2>1 DEF IsLevels
  <2>3. levels[n + 1] = top /\ \A k \in 0..n : levels[k] = g[k]
    OBVIOUS
  <2>4. ASSUME NEW k \in 0..(n + 1)
        PROVE  levels[k] = IF k = 0 THEN Leaves(items) ELSE Above(levels[k - 1])
    <3> HIDE DEF levels
    <3>1. CASE k = n + 1
      BY <2>3, <3>1
    <3>2. CASE k \in 0..n
      <4>1. levels[k] = g[k] /\ (k # 0 => levels[k - 1] = g[k - 1])
        BY <2>3, <3>2
      <4> HIDE DEF top
      <4> QED
        BY <2>2, <3>2, <4>1
    <3> QED
      BY <3>1, <3>2
  <2>5. levels = [k \in 0..(n + 1) |-> levels[k]]
    OBVIOUS
  <2> HIDE DEF levels
  <2>6. IsLevels(levels, items, n + 1)
    BY <2>4, <2>5 DEF IsLevels
  <2> QED
    BY <2>6
<1> HIDE DEF Good
<1>3. \A n \in 0..N : n \in Good
  BY <1>1, <1>2, UpToInduction
<1> QED
  BY <1>3 DEF Good

LEMMA FillExists ==
    ASSUME NEW items, NEW N \in Nat
    PROVE  \E fill : IsFill(fill, items, N)
<1> DEFINE Good == {n \in 0..N : \E fill : IsFill(fill, items, n)}
           first == [texts |-> items, block |-> 1]
<1>1. 0 \in Good
  <2> DEFINE fill == [k \in 0..0 |-> first]
  <2>1. IsFill(fill, items, 0)
    BY DEF IsFill
  <2> QED
    BY <2>1
<1>2. ASSUME NEW n \in 0..(N - 1), n \in Good PROVE n + 1 \in Good
  <2>1. PICK g : IsFill(g, items, n)
    BY <1>2
  <2> DEFINE top == Wider(g[n])
             fill == [k \in 0..(n + 1) |-> IF k = n + 1 THEN top ELSE g[k]]
  <2>2. \A k \in 0..n : g[k] = IF k = 0 THEN first ELSE Wider(g[k - 1])
    BY <2>1 DEF IsFill
  <2>3. fill[n + 1] = top /\ \A k \in 0..n : fill[k] = g[k]
    OBVIOUS
  <2>4. ASSUME NEW k \in 0..(n + 1)
        PROVE  fill[k] = IF k = 0 THEN first ELSE Wider(fill[k - 1])
    <3> HIDE DEF fill
    <3>1. CASE k = n + 1
      BY <2>3, <3>1
    <3>2. CASE k \in 0..n
      <4>1. fill[k] = g[k] /\ (k # 0 => fill[k - 1] = g[k - 1])
        BY <2>3, <3>2
      <4> HIDE DEF top, first
      <4> QED
        BY <2>2, <3>2, <4>1
    <3> QED
      BY <3>1, <3>2
  <2>5. fill = [k \in 0..(n + 1) |-> fill[k]]
    OBVIOUS
  <2> HIDE DEF fill
  <2>6. IsFill(fill, items, n + 1)
    BY <2>4, <2>5 DEF IsFill
  <2> QED
    BY <2>6
<1> HIDE DEF Good
<1>3. \A n \in 0..N : n \in Good
  BY <1>1, <1>2, UpToInduction
<1> QED
  BY <1>3 DEF Good

LEMMA LevelsAre ==
    ASSUME NEW items, Len(items) \in Nat
    PROVE  /\ Levels(items)[0] = Leaves(items)
           /\ \A k \in 1..Len(items) : Levels(items)[k] = Above(Levels(items)[k - 1])
<1> DEFINE levels == CHOOSE levels : IsLevels(levels, items, Len(items))
<1>1. IsLevels(levels, items, Len(items))
  BY LevelsExist
<1>2. Levels(items) = levels
  BY DEF Levels, IsLevels, Above
<1> HIDE DEF levels
<1>3. \A k \in 0..Len(items) :
        levels[k] = IF k = 0 THEN Leaves(items) ELSE Above(levels[k - 1])
  BY <1>1 DEF IsLevels
<1> QED
  BY <1>2, <1>3

LEMMA FillIs ==
    ASSUME NEW items, Len(items) \in Nat
    PROVE  \E fill : /\ fill[0] = [texts |-> items, block |-> 1]
                     /\ \A k \in 1..Len(items) : fill[k] = Wider(fill[k - 1])
                     /\ Filled(items) = fill[Len(items)].texts
<1> DEFINE fill == CHOOSE fill : IsFill(fill, items, Len(items))
           first == [texts |-> items, block |-> 1]
<1>1. IsFill(fill, items, Len(items))
  BY FillExists
<1>2. Filled(items) = fill[Len(items)].texts
  BY DEF Filled, IsFill, Wider
<1> HIDE DEF fill
<1>3. \A k \in 0..Len(items) : fill[k] = IF k = 0 THEN first ELSE Wider(fill[k - 1])
  BY <1>1 DEF IsFill
<1>4. fill[0] = first /\ \A k \in 1..Len(items) : fill[k] = Wider(fill[k - 1])
  BY <1>3
<1> QED
  BY <1>2, <1>4

(* The right child of a node, over a level of n; the left one is 2 * k - 1.  *)
Right(k, n) == IF 2 * k <= n THEN 2 * k ELSE 2 * k - 1

LEMMA ProductIsNat == \A m, n \in Nat : m * n \in Nat
OBVIOUS

LEMMA Halves ==
    ASSUME NEW n \in Nat
    PROVE  /\ (n + 1) \div 2 \in Nat
           /\ \A k \in 1..((n + 1) \div 2) : 2 * k - 1 \in 1..n /\ Right(k, n) \in 1..n
           /\ n > 1 => (n + 1) \div 2 < n /\ (n + 1) \div 2 > 0
BY DEF Right

(* How many nodes a level has.                                              *)
Width(nodes) == Len(nodes)

LEMMA NextLevelFacts ==
    ASSUME NEW nodes, Width(nodes) \in Nat
    PROVE  /\ DOMAIN NextLevel(nodes) = 1..((Width(nodes) + 1) \div 2)
           /\ Width(NextLevel(nodes)) = (Width(nodes) + 1) \div 2
           /\ \A k \in 1..((Width(nodes) + 1) \div 2) :
                NextLevel(nodes)[k]
                  = HashCombined(nodes[2 * k - 1], nodes[Right(k, Width(nodes))])
<1>1. (Len(nodes) + 1) \div 2 \in Nat
  BY Halves DEF Width
<1> QED
  BY <1>1 DEF NextLevel, Right, Width

LEMMA AboveFacts ==
    ASSUME NEW nodes, Width(nodes) \in Nat
    PROVE  /\ Width(nodes) = 1 => Above(nodes) = nodes
           /\ Width(nodes) > 1 => Above(nodes) = NextLevel(nodes)
<1>1. Len(nodes) = 1 => ~(Len(nodes) > 1)
  OBVIOUS
<1> QED
  BY <1>1 DEF Above, Width

(* The i-th of the blocks of b that a sequence is divided into.             *)
Block(s, b, i) == SubSeq(s, (i - 1) * b + 1, i * b)

Divided(S, s, b, m) ==
    s \in Seq(S) /\ b \in Nat \ {0} /\ m \in Nat /\ Len(s) = m * b

LEMMA BlockFacts ==
    ASSUME NEW S, NEW s, NEW b, NEW m, Divided(S, s, b, m), NEW i \in 1..m
    PROVE  Block(s, b, i) \in Seq(S) /\ Len(Block(s, b, i)) = b
<1>0. s \in Seq(S) /\ b \in Nat \ {0} /\ m \in Nat /\ Len(s) = m * b
  BY DEF Divided
<1> DEFINE lo == (i - 1) * b + 1
           hi == i * b
<1>1. /\ lo \in Int /\ hi \in Int /\ lo >= 1 /\ hi <= Len(s)
      /\ hi - lo + 1 = b /\ lo <= hi
  <2>1. (i - 1) * b \in Nat /\ (m - i) * b \in Nat
    BY <1>0, ProductIsNat
  <2>2. i * b = (i - 1) * b + b /\ m * b = i * b + (m - i) * b
    BY <1>0
  <2> QED
    BY <1>0, <2>1, <2>2
<1>2. Block(s, b, i) = SubSeq(s, lo, hi)
  BY DEF Block
<1> HIDE DEF lo, hi
<1>3. \A j \in lo..hi : j \in 1..Len(s)
  BY <1>0, <1>1
<1>4. \A j \in lo..hi : s[j] \in S
  BY <1>0, <1>3, ElementOfSeq
<1>5. SubSeq(s, lo, hi) \in Seq(S) /\ Len(SubSeq(s, lo, hi)) = b
  BY <1>1, <1>4, SubSeqProperties
<1> QED
  BY <1>2, <1>5

LEMMA BlockOfOne ==
    ASSUME NEW S, NEW s \in Seq(S), NEW i \in 1..Len(s)
    PROVE  Block(s, 1, i) = <<s[i]>>
<1>1. (i - 1) * 1 + 1 = i /\ i * 1 = i /\ i \in Int
  OBVIOUS
<1>2. Block(s, 1, i) = SubSeq(s, i, i)
  BY <1>1 DEF Block
<1>3. /\ SubSeq(s, i, i) \in Seq(S) /\ Len(SubSeq(s, i, i)) = 1
      /\ SubSeq(s, i, i)[1] = s[i]
  OBVIOUS
<1>4. <<s[i]>> \in Seq(S) /\ Len(<<s[i]>>) = 1 /\ <<s[i]>>[1] = s[i]
  OBVIOUS
<1>5. \A t \in Seq(S), u \in Seq(S) :
        Len(t) = 1 /\ Len(u) = 1 /\ t[1] = u[1] => t = u
  BY SeqEqual
<1> QED
  BY <1>2, <1>3, <1>4, <1>5

LEMMA BlockPairs ==
    ASSUME NEW S, NEW s \in Seq(S), NEW b \in Nat \ {0}, NEW q \in Nat, Len(s) = (2 * q) * b,
           NEW i \in 1..q
    PROVE  Block(s, 2 * b, i) = Block(s, b, 2 * i - 1) \o Block(s, b, 2 * i)
<1> DEFINE first == ((2 * i - 1) - 1) * b
           middle == (2 * i - 1) * b
           last == (2 * i) * b
<1>1. /\ (i - 1) * (2 * b) = first /\ i * (2 * b) = last /\ (2 * i - 1) * b = middle
      /\ middle = first + b /\ last = middle + b
  OBVIOUS
<1>2. first \in Nat /\ last <= Len(s)
  <2>1. ((2 * i - 1) - 1) * b \in Nat /\ (2 * q - 2 * i) * b \in Nat
    BY ProductIsNat
  <2>2. (2 * q) * b = last + (2 * q - 2 * i) * b
    OBVIOUS
  <2> QED
    BY <2>1, <2>2
<1>3. /\ Block(s, 2 * b, i) = SubSeq(s, first + 1, last)
      /\ Block(s, b, 2 * i - 1) = SubSeq(s, first + 1, middle)
      /\ Block(s, b, 2 * i) = SubSeq(s, middle + 1, last)
  BY <1>1 DEF Block
<1> HIDE DEF first, middle, last
<1>4. Len(s) \in Nat
  OBVIOUS
<1>5. /\ first + 1 \in 1..(Len(s) + 1) /\ middle \in ((first + 1) - 1)..Len(s)
      /\ last \in middle..Len(s)
  BY <1>1, <1>2, <1>4
<1>6. SubSeq(s, first + 1, middle) \o SubSeq(s, middle + 1, last) = SubSeq(s, first + 1, last)
  BY <1>5, ConcatAdjacentSubSeq
<1> QED
  BY <1>3, <1>6

(* Evened out, a level's blocks pair up into blocks of twice the size.      *)
LEMMA BlocksDouble ==
    ASSUME NEW S, NEW s \in Seq(S), NEW b \in Nat \ {0}, NEW m \in Nat, m > 1, Len(s) = m * b
    PROVE  /\ Even(s, b) \in Seq(S)
           /\ Len(Even(s, b)) = ((m + 1) \div 2) * (2 * b)
           /\ \A i \in 1..((m + 1) \div 2) :
                Block(Even(s, b), 2 * b, i) = Block(s, b, 2 * i - 1) \o Block(s, b, Right(i, m))
<1> DEFINE q == (m + 1) \div 2
<1>1. Len(s) \div b = m
  OBVIOUS
<1>2. q \in Nat /\ (m % 2 = 0 => m = 2 * q) /\ (m % 2 # 0 => m + 1 = 2 * q)
  OBVIOUS
<1> HIDE DEF q
<1>3. CASE m % 2 = 0
  <2>1. Even(s, b) = s
    BY <1>1, <1>3 DEF Even
  <2>2. Len(s) = (2 * q) * b /\ q * (2 * b) = (2 * q) * b
    BY <1>2, <1>3
  <2>3. \A i \in 1..q : Right(i, m) = 2 * i
    BY <1>2, <1>3 DEF Right
  <2>4. ASSUME NEW i \in 1..q
        PROVE  Block(s, 2 * b, i) = Block(s, b, 2 * i - 1) \o Block(s, b, Right(i, m))
    <3>1. Block(s, 2 * b, i) = Block(s, b, 2 * i - 1) \o Block(s, b, 2 * i)
      BY <1>2, <2>2, BlockPairs
    <3> QED
      BY <2>3, <3>1
  <2> QED
    BY <2>1, <2>2, <2>4 DEF q
<1>4. CASE m % 2 # 0
  <2> DEFINE last == SubSeq(s, Len(s) - b + 1, Len(s))
             t == Even(s, b)
  <2>1. t = s \o last
    BY <1>1, <1>4 DEF Even
  <2>2. /\ (m - 1) * b \in Nat /\ Len(s) = (m - 1) * b + b /\ Len(s) - b = (m - 1) * b
        /\ Len(s) + b = (m + 1) * b
    BY ProductIsNat
  <2>3. last = Block(s, b, m) /\ last \in Seq(S) /\ Len(last) = b
    <3>1. last = Block(s, b, m)
      BY <2>2 DEF Block
    <3> HIDE DEF last
    <3>2. m \in 1..m
      OBVIOUS
    <3>3. Block(s, b, m) \in Seq(S) /\ Len(Block(s, b, m)) = b
      <4>1. Divided(S, s, b, m)
        BY DEF Divided
      <4> QED
        BY <3>2, <4>1, BlockFacts
    <3> QED
      BY <3>1, <3>2, <3>3
  <2> HIDE DEF last, t
  <2>4. t \in Seq(S) /\ Len(t) = Len(s) + b
    BY <2>1, <2>3, ConcatProperties
  <2>5. Len(t) = (2 * q) * b /\ q * (2 * b) = (2 * q) * b
    BY <1>2, <1>4, <2>2, <2>4
  <2>6. ASSUME NEW x \in 1..m PROVE Block(t, b, x) = Block(s, b, x)
    <3> DEFINE lo == (x - 1) * b + 1
               hi == x * b
    <3>1. lo \in 1..Len(s) /\ hi \in 1..Len(s)
      <4>1. (x - 1) * b \in Nat /\ (m - x) * b \in Nat /\ x * b = (x - 1) * b + b
            /\ m * b = x * b + (m - x) * b
        BY ProductIsNat
      <4> QED
        BY <4>1
    <3>2. Block(t, b, x) = SubSeq(t, lo, hi) /\ Block(s, b, x) = SubSeq(s, lo, hi)
      BY DEF Block
    <3> HIDE DEF lo, hi
    <3> QED
      BY <2>1, <2>3, <3>1, <3>2, SubSeqOfConcat1
  <2>7. Block(t, b, m + 1) = last
    <3> DEFINE lo == ((m + 1) - 1) * b + 1
               hi == (m + 1) * b
    <3>1. lo = Len(s) + 1 /\ hi = Len(s) + b /\ Len(s) \in Nat
      BY <2>2
    <3>2. Block(t, b, m + 1) = SubSeq(t, lo, hi)
      BY DEF Block
    <3> HIDE DEF lo, hi
    <3>3. /\ lo \in (Len(s) + 1)..(Len(s) + Len(last))
          /\ hi \in (Len(s) + 1)..(Len(s) + Len(last))
          /\ lo - Len(s) = 1 /\ hi - Len(s) = Len(last)
      BY <2>3, <3>1
    <3>4. SubSeq(s \o last, lo, hi) = SubSeq(last, lo - Len(s), hi - Len(s))
      BY <2>3, <3>3, SubSeqOfConcat2
    <3>5. SubSeq(last, 1, Len(last)) = last
      BY <2>3, SubSeqFull
    <3> QED
      BY <2>1, <3>2, <3>3, <3>4, <3>5
  <2>8. ASSUME NEW i \in 1..q
        PROVE  Block(t, 2 * b, i) = Block(s, b, 2 * i - 1) \o Block(s, b, Right(i, m))
    <3>1. Block(t, 2 * b, i) = Block(t, b, 2 * i - 1) \o Block(t, b, 2 * i)
      BY <1>2, <2>4, <2>5, BlockPairs
    <3>2. 2 * i - 1 \in 1..m /\ (2 * i <= m => 2 * i \in 1..m)
          /\ (~(2 * i <= m) => 2 * i = m + 1 /\ 2 * i - 1 = m)
      BY <1>2, <1>4
    <3>3. Block(t, b, 2 * i - 1) = Block(s, b, 2 * i - 1)
      BY <2>6, <3>2
    <3>4. Block(t, b, 2 * i) = Block(s, b, Right(i, m))
      <4>1. CASE 2 * i <= m
        BY <2>6, <3>2, <4>1 DEF Right
      <4>2. CASE ~(2 * i <= m)
        BY <2>3, <2>7, <3>2, <4>2 DEF Right
      <4> QED
        BY <4>1, <4>2
    <3> QED
      BY <3>1, <3>3, <3>4
  <2>9. t \in Seq(S) /\ Len(t) = q * (2 * b)
    BY <2>4, <2>5
  <2> QED
    BY <2>8, <2>9 DEF t, q
<1> QED
  BY <1>3, <1>4

LEMMA LevelsShrink ==
    ASSUME NEW items \in Seq(Item), Len(items) > 0, NEW level, level = Levels(items)
    PROVE  \A k \in 0..Len(items) :
             /\ Width(level[k]) \in Nat \ {0} /\ DOMAIN level[k] = 1..Width(level[k])
             /\ Width(level[k]) = 1 \/ Width(level[k]) <= Len(items) - k
<1> DEFINE n == Len(items)
           Small(k) == /\ Width(level[k]) \in Nat \ {0} /\ DOMAIN level[k] = 1..Width(level[k])
                       /\ Width(level[k]) = 1 \/ Width(level[k]) <= n - k
           Good == {k \in 0..n : Small(k)}
<1>1. n \in Nat \ {0} /\ DOMAIN items = 1..n /\ Len(items) = n
  OBVIOUS
<1> HIDE DEF n
<1>2. level[0] = Leaves(items) /\ \A k \in 1..n : level[k] = Above(level[k - 1])
  BY <1>1, LevelsAre
<1>3. 0 \in Good
  <2>1. DOMAIN Leaves(items) = 1..n /\ Width(Leaves(items)) = n
    BY <1>1 DEF Leaves, Width
  <2>2. Small(0)
    BY <1>1, <1>2, <2>1
  <2> QED
    BY <1>1, <2>2
<1>4. ASSUME NEW k \in 0..(n - 1), k \in Good PROVE k + 1 \in Good
  <2>1. Small(k)
    BY <1>4
  <2>2. k + 1 \in 1..n /\ (k + 1) - 1 = k /\ k + 1 \in 0..n
    BY <1>1
  <2>3. level[k + 1] = Above(level[k])
    BY <1>2, <2>2
  <2>4. CASE Width(level[k]) > 1
    <3>1. level[k + 1] = NextLevel(level[k])
      BY <2>1, <2>3, <2>4, AboveFacts
    <3>2. /\ Width(level[k + 1]) = (Width(level[k]) + 1) \div 2
          /\ DOMAIN level[k + 1] = 1..((Width(level[k]) + 1) \div 2)
      BY <2>1, <3>1, NextLevelFacts
    <3>3. (Width(level[k]) + 1) \div 2 < Width(level[k]) /\ (Width(level[k]) + 1) \div 2 > 0
          /\ (Width(level[k]) + 1) \div 2 \in Nat
      BY <2>1, <2>4, Halves
    <3>5. /\ Width(level[k + 1]) \in Nat \ {0}
          /\ DOMAIN level[k + 1] = 1..Width(level[k + 1])
          /\ Width(level[k + 1]) < Width(level[k])
      BY <3>2, <3>3
    <3>6. Width(level[k]) <= n - k /\ Width(level[k]) \in Nat
      BY <2>1, <2>4
    <3>7. Width(level[k + 1]) <= n - (k + 1)
      BY <1>1, <3>5, <3>6
    <3>4. Small(k + 1)
      BY <3>5, <3>7
    <3> QED
      BY <2>2, <3>4
  <2>5. CASE ~(Width(level[k]) > 1)
    <3>1. Width(level[k]) = 1
      <4>1. Width(level[k]) \in Nat \ {0}
        BY <2>1
      <4> QED
        BY <2>5, <4>1
    <3>3. level[k + 1] = level[k]
      BY <2>1, <2>3, <3>1, AboveFacts
    <3>2. Small(k + 1)
      BY <2>1, <3>1, <3>3
    <3> QED
      BY <2>2, <3>2
  <2> QED
    BY <2>4, <2>5
<1> HIDE DEF Good
<1>5. \A k \in 0..n : k \in Good
  BY <1>1, <1>3, <1>4, UpToInduction
<1> QED
  BY <1>1, <1>5 DEF Good

(* Each level has as many blocks of the filled texts as it has nodes.       *)
Sized(nodes, f) == /\ f.texts \in Seq(Item) /\ f.block \in Nat \ {0}
                   /\ Len(f.texts) = nodes * f.block

LEMMA WiderFacts ==
    ASSUME NEW m \in Nat \ {0}, NEW f, Sized(m, f)
    PROVE  /\ m = 1 => Wider(f) = f
           /\ m > 1 => /\ Wider(f) = [texts |-> Even(f.texts, f.block), block |-> 2 * f.block]
                       /\ Sized((m + 1) \div 2, Wider(f))
<1>1. f.block \in Nat \ {0} /\ Len(f.texts) = m * f.block /\ f.texts \in Seq(Item)
  BY DEF Sized
<1>2. CASE m = 1
  <2>1. ~(Len(f.texts) > f.block)
    BY <1>1, <1>2
  <2> QED
    BY <1>2, <2>1 DEF Wider
<1>3. CASE m > 1
  <2>1. Len(f.texts) > f.block
    <3>1. (m - 1) * f.block \in Nat /\ (m - 2) * f.block \in Nat
          /\ m * f.block = f.block + (m - 1) * f.block
          /\ (m - 1) * f.block = f.block + (m - 2) * f.block
      BY <1>1, <1>3, ProductIsNat
    <3> QED
      BY <1>1, <3>1
  <2>2. Wider(f) = [texts |-> Even(f.texts, f.block), block |-> 2 * f.block]
    BY <2>1 DEF Wider
  <2>3. /\ Even(f.texts, f.block) \in Seq(Item)
        /\ Len(Even(f.texts, f.block)) = ((m + 1) \div 2) * (2 * f.block)
    BY <1>1, <1>3, BlocksDouble
  <2>4. 2 * f.block \in Nat \ {0}
    BY <1>1
  <2>5. Sized((m + 1) \div 2, Wider(f))
    BY <2>2, <2>3, <2>4 DEF Sized
  <2> QED
    BY <1>3, <2>2, <2>5
<1> QED
  BY <1>2, <1>3

LEMMA FillMatches ==
    ASSUME NEW items \in Seq(Item), Len(items) > 0, NEW level, level = Levels(items),
           NEW fill, fill[0] = [texts |-> items, block |-> 1],
           \A k \in 1..Len(items) : fill[k] = Wider(fill[k - 1])
    PROVE  \A k \in 0..Len(items) : Sized(Width(level[k]), fill[k])
<1> DEFINE n == Len(items)
           Good == {k \in 0..n : Sized(Width(level[k]), fill[k])}
<1>1. n \in Nat \ {0} /\ DOMAIN items = 1..n /\ Len(items) = n
  OBVIOUS
<1> HIDE DEF n
<1>2. level[0] = Leaves(items) /\ \A k \in 1..n : level[k] = Above(level[k - 1])
  BY <1>1, LevelsAre
<1>3. 0 \in Good
  <2>1. Width(Leaves(items)) = n
    BY <1>1 DEF Leaves, Width
  <2>2. Sized(Width(level[0]), fill[0])
    BY <1>1, <1>2, <2>1 DEF Sized
  <2> QED
    BY <1>1, <2>2
<1>4. ASSUME NEW k \in 0..(n - 1), k \in Good PROVE k + 1 \in Good
  <2>1. Sized(Width(level[k]), fill[k]) /\ k \in 0..n
    BY <1>4
  <2>2. k + 1 \in 1..n /\ (k + 1) - 1 = k /\ k + 1 \in 0..n
    BY <1>1
  <2>3. level[k + 1] = Above(level[k]) /\ fill[k + 1] = Wider(fill[k])
    BY <1>1, <1>2, <2>2
  <2>4. Width(level[k]) \in Nat \ {0}
    BY <1>1, <2>1, LevelsShrink
  <2>5. CASE Width(level[k]) > 1
    <3>1. Width(level[k + 1]) = (Width(level[k]) + 1) \div 2
      BY <2>3, <2>4, <2>5, NextLevelFacts, AboveFacts
    <3>2. Sized((Width(level[k]) + 1) \div 2, Wider(fill[k]))
      BY <2>1, <2>4, <2>5, WiderFacts
    <3> QED
      BY <2>2, <2>3, <3>1, <3>2
  <2>6. CASE Width(level[k]) = 1
    <3>1. level[k + 1] = level[k]
      BY <2>3, <2>4, <2>6, AboveFacts
    <3>2. Wider(fill[k]) = fill[k]
      <4>1. \A f : Sized(1, f) => Wider(f) = f
        BY WiderFacts
      <4> QED
        BY <2>1, <2>6, <4>1
    <3> QED
      BY <2>1, <2>2, <2>3, <3>1, <3>2
  <2>7. Width(level[k]) = 1 \/ Width(level[k]) > 1
    BY <2>4
  <2> QED
    BY <2>5, <2>6, <2>7
<1> HIDE DEF Good
<1>5. \A k \in 0..n : k \in Good
  BY <1>1, <1>3, <1>4, UpToInduction
<1> QED
  BY <1>1, <1>5 DEF Good

(* Up to some height the levels grow shorter, and from there on they stay.  *)
LEMMA LevelsSettle ==
    ASSUME NEW items \in Seq(Item), Len(items) > 0, NEW level, level = Levels(items),
           NEW fill, fill[0] = [texts |-> items, block |-> 1],
           \A k \in 1..Len(items) : fill[k] = Wider(fill[k - 1])
    PROVE  \E h \in 0..Len(items) :
             /\ Width(level[h]) = 1 /\ \A k \in 0..(h - 1) : Width(level[k]) > 1
             /\ level[Len(items)] = level[h] /\ fill[Len(items)] = fill[h]
<1> DEFINE n == Len(items)
           Growing(k) == \A j \in 0..k : Width(level[j]) > 1
           Stopped(h, k) == /\ Width(level[h]) = 1 /\ \A j \in 0..(h - 1) : Width(level[j]) > 1
                            /\ level[k] = level[h] /\ fill[k] = fill[h]
           Good == {k \in 0..n : Growing(k) \/ \E h \in 0..k : Stopped(h, k)}
<1>1. n \in Nat \ {0} /\ DOMAIN items = 1..n /\ Len(items) = n
  OBVIOUS
<1> HIDE DEF n
<1>2. \A k \in 1..n : level[k] = Above(level[k - 1])
  BY <1>1, LevelsAre
<1>3. \A k \in 0..n : /\ Width(level[k]) \in Nat \ {0}
                      /\ Width(level[k]) = 1 \/ Width(level[k]) <= n - k
  BY <1>1, LevelsShrink
<1>4. \A k \in 0..n : Sized(Width(level[k]), fill[k])
  BY <1>1, FillMatches
<1>5. 0 \in Good
  <2>1. CASE Width(level[0]) = 1
    <3>1. Stopped(0, 0)
      BY <2>1
    <3> QED
      BY <1>1, <3>1
  <2>2. CASE Width(level[0]) > 1
    BY <1>1, <2>2
  <2>3. Width(level[0]) \in Nat \ {0}
    BY <1>1, <1>3
  <2> QED
    BY <2>1, <2>2, <2>3
<1>6. ASSUME NEW k \in 0..(n - 1), k \in Good PROVE k + 1 \in Good
  <2>1. k \in 0..n /\ k + 1 \in 1..n /\ k + 1 \in 0..n /\ (k + 1) - 1 = k
    BY <1>1
  <2>2. Width(level[k + 1]) = 1 \/ Width(level[k + 1]) > 1
    <3>1. Width(level[k + 1]) \in Nat \ {0}
      BY <1>3, <2>1
    <3> QED
      BY <3>1
  <2>3. CASE Growing(k) /\ Width(level[k + 1]) > 1
    <3>1. Growing(k + 1)
      BY <2>1, <2>3
    <3> QED
      BY <2>1, <3>1
  <2>4. CASE Growing(k) /\ Width(level[k + 1]) = 1
    <3>1. Stopped(k + 1, k + 1)
      BY <2>1, <2>4
    <3> QED
      BY <2>1, <3>1
  <2>5. ASSUME NEW h \in 0..k, Stopped(h, k) PROVE k + 1 \in Good
    <3>1. Width(level[k]) = 1
      BY <2>5
    <3>2. level[k + 1] = level[k]
      <4>1. level[k + 1] = Above(level[k])
        BY <1>2, <2>1
      <4> QED
        BY <3>1, <4>1, AboveFacts
    <3>3. fill[k + 1] = fill[k]
      <4>1. Sized(1, fill[k]) /\ fill[k + 1] = Wider(fill[k])
        BY <1>1, <1>4, <2>1, <3>1
      <4> QED
        BY <4>1, WiderFacts
    <3>4. Stopped(h, k + 1) /\ h \in 0..(k + 1)
      BY <2>5, <3>2, <3>3
    <3> QED
      BY <2>1, <3>4
  <2> QED
    BY <1>6, <2>2, <2>3, <2>4, <2>5
<1> HIDE DEF Good
<1>7. \A k \in 0..n : k \in Good
  BY <1>1, <1>5, <1>6, UpToInduction
<1>8. n \in 0..n /\ ~Growing(n)
  <2>1. n \in 0..n
    BY <1>1
  <2>2. Width(level[n]) = 1
    <3>1. Width(level[n]) \in Nat \ {0} /\ (Width(level[n]) = 1 \/ Width(level[n]) <= n - n)
      BY <1>3, <2>1
    <3> QED
      BY <1>1, <3>1
  <2>3. ~Growing(n)
    <3>1. n \in 0..n
      BY <2>1
    <3>2. ~(Width(level[n]) > 1)
      BY <2>2
    <3> QED
      BY <3>1, <3>2
  <2> QED
    BY <2>1, <2>3
<1>9. \E h \in 0..n : Stopped(h, n)
  BY <1>7, <1>8 DEF Good
<1> QED
  BY <1>1, <1>9

(* A tree and, under each of its nodes, the block of texts it stands for.    *)
Tree(items, level, block, h) ==
    /\ h \in Nat
    /\ \A k \in 0..h :
         /\ Width(level[k]) \in Nat \ {0}
         /\ \A i \in 1..Width(level[k]) : block[k][i] \in Seq(Item)
    /\ Width(level[0]) = Len(items) /\ Width(level[h]) = 1
    /\ \A i \in 1..Len(items) :
         level[0][i] = HashString(items[i]) /\ block[0][i] = <<items[i]>>
    /\ \A k \in 0..(h - 1) :
         /\ Width(level[k]) > 1 /\ Width(level[k + 1]) = (Width(level[k]) + 1) \div 2
         /\ \A i \in 1..Width(level[k + 1]) :
              /\ level[k + 1][i][1] \in NodeTexts(items)
              /\ level[k + 1][i]
                   = HashCombined(level[k][2 * i - 1], level[k][Right(i, Width(level[k]))])
              /\ block[k + 1][i] = block[k][2 * i - 1] \o block[k][Right(i, Width(level[k]))]

(* What Levels and Filled compute is such a tree, up to where it settles.   *)
LEMMA TreeExists ==
    ASSUME NEW items \in Seq(Item), Len(items) > 0
    PROVE  \E level, block, h : /\ Tree(items, level, block, h)
                                /\ Root(items) = level[h][1] /\ Filled(items) = block[h][1]
<1> DEFINE n == Len(items)
           level == Levels(items)
<1>1. n \in Nat \ {0} /\ DOMAIN items = 1..n /\ Len(items) = n /\ items # <<>>
  OBVIOUS
<1>2. PICK fill : /\ fill[0] = [texts |-> items, block |-> 1]
                  /\ \A k \in 1..Len(items) : fill[k] = Wider(fill[k - 1])
                  /\ Filled(items) = fill[Len(items)].texts
  BY <1>1, FillIs
<1> DEFINE blocks(k) == [i \in 1..Width(level[k]) |-> Block(fill[k].texts, fill[k].block, i)]
           block == [k \in 0..n |-> blocks(k)]
<1> HIDE DEF n
<1>3. level[0] = Leaves(items) /\ \A k \in 1..n : level[k] = Above(level[k - 1])
  BY <1>1, LevelsAre
<1>4. Root(items) = level[n][1]
  BY <1>1 DEF Root
<1>5. \A k \in 0..n : /\ Width(level[k]) \in Nat \ {0}
                      /\ DOMAIN level[k] = 1..Width(level[k])
  BY <1>1, LevelsShrink
<1>6. ASSUME NEW k \in 1..n, Width(level[k - 1]) > 1, NEW i \in 1..Width(level[k])
      PROVE  level[k][i][1] \in NodeTexts(items)
  <2>1. k \in Heights(items)
    BY <1>1, <1>6 DEF Heights, Width
  <2>2. k \in 0..n
    BY <1>1
  <2>3. level[k][i] \in Range(level[k])
    BY <1>5, <1>6, <2>2 DEF Range
  <2> QED
    BY <1>1, <2>1, <2>3 DEF NodeTexts
<1> HIDE DEF level
<1>7. level = Levels(items)
  BY DEF level
<1>8. \A k \in 0..n : Sized(Width(level[k]), fill[k])
  BY <1>1, <1>2, <1>7, FillMatches
<1>9. PICK h \in 0..n : /\ Width(level[h]) = 1 /\ \A k \in 0..(h - 1) : Width(level[k]) > 1
                        /\ level[n] = level[h] /\ fill[n] = fill[h]
  <2>1. \A k \in 1..Len(items) : fill[k] = Wider(fill[k - 1])
    BY <1>2
  <2>2. \E h \in 0..Len(items) :
          /\ Width(level[h]) = 1 /\ \A k \in 0..(h - 1) : Width(level[k]) > 1
          /\ level[Len(items)] = level[h] /\ fill[Len(items)] = fill[h]
    BY <1>2, <1>7, <2>1, LevelsSettle
  <2> QED
    BY <1>1, <2>2
<1>10. \A k \in 0..n : \A i \in 1..Width(level[k]) :
         block[k][i] = Block(fill[k].texts, fill[k].block, i)
  OBVIOUS
<1> HIDE DEF block
<1>11. ASSUME NEW k \in 0..n, NEW i \in 1..Width(level[k]) PROVE block[k][i] \in Seq(Item)
  <2>1. /\ fill[k].texts \in Seq(Item) /\ fill[k].block \in Nat \ {0}
        /\ Len(fill[k].texts) = Width(level[k]) * fill[k].block
    BY <1>8 DEF Sized
  <2>2. Width(level[k]) \in Nat
    BY <1>5
  <2>3. Divided(Item, fill[k].texts, fill[k].block, Width(level[k]))
    BY <2>1, <2>2 DEF Divided
  <2>4. Block(fill[k].texts, fill[k].block, i) \in Seq(Item)
    BY <2>3, BlockFacts
  <2> QED
    BY <1>10, <2>4
<1>12. ASSUME NEW i \in 1..n
       PROVE  level[0][i] = HashString(items[i]) /\ block[0][i] = <<items[i]>>
  <2>1. Width(level[0]) = n /\ level[0][i] = HashString(items[i])
    BY <1>1, <1>3 DEF Leaves, Width
  <2>2. block[0][i] = Block(items, 1, i)
    <3>1. fill[0].texts = items /\ fill[0].block = 1
      BY <1>2
    <3> QED
      BY <1>1, <1>10, <2>1, <3>1
  <2>3. Block(items, 1, i) = <<items[i]>>
    BY <1>1, BlockOfOne
  <2> QED
    BY <2>1, <2>2, <2>3
<1>13. ASSUME NEW k \in 0..(h - 1)
       PROVE  /\ Width(level[k]) > 1 /\ Width(level[k + 1]) = (Width(level[k]) + 1) \div 2
              /\ \A i \in 1..Width(level[k + 1]) :
                   /\ level[k + 1][i][1] \in NodeTexts(items)
                   /\ level[k + 1][i]
                        = HashCombined(level[k][2 * i - 1], level[k][Right(i, Width(level[k]))])
                   /\ block[k + 1][i]
                        = block[k][2 * i - 1] \o block[k][Right(i, Width(level[k]))]
  <2>1. /\ k \in 0..n /\ k + 1 \in 1..n /\ k + 1 \in 0..n /\ (k + 1) - 1 = k
        /\ Width(level[k]) > 1 /\ Width(level[k]) \in Nat
    BY <1>1, <1>5, <1>9
  <2>2. level[k + 1] = NextLevel(level[k])
    BY <1>3, <2>1, AboveFacts
  <2>3. Width(level[k + 1]) = (Width(level[k]) + 1) \div 2
    BY <2>1, <2>2, NextLevelFacts
  <2>4. Sized(Width(level[k]), fill[k]) /\ fill[k + 1] = Wider(fill[k])
    BY <1>1, <1>2, <1>8, <2>1
  <2>5. fill[k + 1] = [texts |-> Even(fill[k].texts, fill[k].block), block |-> 2 * fill[k].block]
    <3>1. \A m \in Nat \ {0} : \A f : Sized(m, f) /\ m > 1 =>
            Wider(f) = [texts |-> Even(f.texts, f.block), block |-> 2 * f.block]
      BY WiderFacts
    <3>2. Width(level[k]) \in Nat \ {0}
      BY <1>5, <2>1
    <3> QED
      BY <2>1, <2>4, <3>1, <3>2
  <2>6. /\ fill[k].texts \in Seq(Item) /\ fill[k].block \in Nat \ {0}
        /\ Len(fill[k].texts) = Width(level[k]) * fill[k].block
    BY <2>4 DEF Sized
  <2>7. ASSUME NEW i \in 1..Width(level[k + 1])
        PROVE  /\ level[k + 1][i][1] \in NodeTexts(items)
               /\ level[k + 1][i]
                    = HashCombined(level[k][2 * i - 1], level[k][Right(i, Width(level[k]))])
               /\ block[k + 1][i]
                    = block[k][2 * i - 1] \o block[k][Right(i, Width(level[k]))]
    <3>1. level[k + 1][i]
            = HashCombined(level[k][2 * i - 1], level[k][Right(i, Width(level[k]))])
      BY <2>1, <2>2, <2>3, NextLevelFacts
    <3>2. 2 * i - 1 \in 1..Width(level[k]) /\ Right(i, Width(level[k])) \in 1..Width(level[k])
      BY <2>1, <2>3, Halves
    <3>3. Block(Even(fill[k].texts, fill[k].block), 2 * fill[k].block, i)
            = Block(fill[k].texts, fill[k].block, 2 * i - 1)
                \o Block(fill[k].texts, fill[k].block, Right(i, Width(level[k])))
      BY <2>1, <2>3, <2>6, BlocksDouble
    <3>4. block[k + 1][i] = Block(fill[k + 1].texts, fill[k + 1].block, i)
      BY <1>10, <2>1
    <3>5. /\ block[k][2 * i - 1] = Block(fill[k].texts, fill[k].block, 2 * i - 1)
          /\ block[k][Right(i, Width(level[k]))]
               = Block(fill[k].texts, fill[k].block, Right(i, Width(level[k])))
      BY <1>10, <2>1, <3>2
    <3>6. /\ fill[k + 1].texts = Even(fill[k].texts, fill[k].block)
          /\ fill[k + 1].block = 2 * fill[k].block
      BY <2>5
    <3>7. level[k + 1][i][1] \in NodeTexts(items)
      BY <1>6, <2>1
    <3> QED
      BY <3>1, <3>3, <3>4, <3>5, <3>6, <3>7
  <2> QED
    BY <2>1, <2>3, <2>7
<1>14. Filled(items) = block[h][1]
  <2>1. /\ fill[h].texts \in Seq(Item) /\ fill[h].block \in Nat \ {0}
        /\ Len(fill[h].texts) = 1 * fill[h].block
    BY <1>8, <1>9 DEF Sized
  <2>2. block[h][1] = Block(fill[h].texts, fill[h].block, 1)
    BY <1>9, <1>10
  <2>3. (1 - 1) * fill[h].block + 1 = 1 /\ 1 * fill[h].block = Len(fill[h].texts)
    BY <2>1
  <2>4. Block(fill[h].texts, fill[h].block, 1) = SubSeq(fill[h].texts, 1, Len(fill[h].texts))
    BY <2>3 DEF Block
  <2>5. SubSeq(fill[h].texts, 1, Len(fill[h].texts)) = fill[h].texts
    BY <2>1, SubSeqFull
  <2> QED
    BY <1>1, <1>2, <1>9, <2>2, <2>4, <2>5
<1>15. h \in Nat /\ \A k \in 0..h : k \in 0..n
  BY <1>1
<1>16. Width(level[0]) = n
  BY <1>1, <1>3 DEF Leaves, Width
<1>17. Tree(items, level, block, h)
  BY <1>1, <1>5, <1>7, <1>9, <1>11, <1>12, <1>13, <1>15, <1>16 DEF Tree
<1>18. Root(items) = level[h][1]
  BY <1>4, <1>7, <1>9
<1> QED
  BY <1>14, <1>17, <1>18

LEMMA CombinedTellsBoth ==
    ASSUME NEW a, NEW b, NEW c, NEW d
    PROVE  HashCombined(a, b) = HashCombined(c, d) <=> a = c /\ b = d
<1>1. /\ HashCombined(a, b) = <<<<a, Separator, b>>>>
      /\ HashCombined(c, d) = <<<<c, Separator, d>>>>
  BY CombinedText
<1>2. ASSUME <<<<a, Separator, b>>>> = <<<<c, Separator, d>>>> PROVE a = c /\ b = d
  <2>1. <<a, Separator, b>> = <<c, Separator, d>>
    BY <1>2
  <2> QED
    BY <2>1
<1> QED
  BY <1>1, <1>2

LEMMA ConcatTellsBoth ==
    ASSUME NEW S, NEW a \in Seq(S), NEW b \in Seq(S), NEW c \in Seq(S), NEW d \in Seq(S),
           Len(a) = Len(c), a \o b = c \o d
    PROVE  a = c /\ b = d
<1> DEFINE ab == a \o b
           cd == c \o d
<1>1. Len(a) \in Nat /\ Len(b) \in Nat /\ Len(c) \in Nat /\ Len(d) \in Nat
  OBVIOUS
<1>2. /\ Len(ab) = Len(a) + Len(b) /\ Len(cd) = Len(c) + Len(d)
      /\ \A i \in 1..(Len(a) + Len(b)) : ab[i] = IF i <= Len(a) THEN a[i] ELSE b[i - Len(a)]
      /\ \A i \in 1..(Len(c) + Len(d)) : cd[i] = IF i <= Len(c) THEN c[i] ELSE d[i - Len(c)]
  BY ConcatProperties
<1>3. ab = cd
  OBVIOUS
<1> HIDE DEF ab, cd
<1>4. Len(b) = Len(d)
  BY <1>1, <1>2, <1>3
<1>5. \A i \in 1..Len(a) : a[i] = c[i]
  <2> TAKE i \in 1..Len(a)
  <2>1. i \in 1..(Len(a) + Len(b)) /\ i \in 1..(Len(c) + Len(d)) /\ i <= Len(a) /\ i <= Len(c)
    BY <1>1
  <2> QED
    BY <1>2, <1>3, <2>1
<1>6. \A i \in 1..Len(b) : b[i] = d[i]
  <2> TAKE i \in 1..Len(b)
  <2> DEFINE j == i + Len(a)
  <2>1. /\ j \in 1..(Len(a) + Len(b)) /\ j \in 1..(Len(c) + Len(d))
        /\ ~(j <= Len(a)) /\ ~(j <= Len(c)) /\ j - Len(a) = i /\ j - Len(c) = i
    BY <1>1, <1>4
  <2> HIDE DEF j
  <2> QED
    BY <1>2, <1>3, <2>1
<1>7. a = c
  BY <1>5, SeqEqual
<1>8. b = d
  BY <1>4, <1>6, SeqEqual
<1> QED
  BY <1>7, <1>8

(* A node of a level over two of the level below, at places that the width  *)
(* of the lower level gives.                                                *)
Over(level, block, k, i, l, r) ==
    /\ l \in 1..Width(level[k]) /\ r \in 1..Width(level[k])
    /\ l = 2 * i - 1 /\ r = Right(i, Width(level[k]))
    /\ level[k + 1][i] = HashCombined(level[k][l], level[k][r])
    /\ block[k + 1][i] = block[k][l] \o block[k][r]
    /\ block[k][l] \in Seq(Item) /\ block[k][r] \in Seq(Item)

LEMMA TreeNode ==
    ASSUME NEW items, NEW level, NEW block, NEW h, Tree(items, level, block, h),
           NEW k \in Nat, k + 1 <= h, NEW i \in 1..Width(level[k + 1])
    PROVE  \E l, r : Over(level, block, k, i, l, r)
<1>1. h \in Nat
  BY DEF Tree
<1>2. k \in 0..(h - 1) /\ k \in 0..h
  BY <1>1
<1>3. /\ Width(level[k]) \in Nat /\ Width(level[k + 1]) = (Width(level[k]) + 1) \div 2
  BY <1>2 DEF Tree
<1>4. 2 * i - 1 \in 1..Width(level[k]) /\ Right(i, Width(level[k])) \in 1..Width(level[k])
  BY <1>3, Halves
<1>5. Over(level, block, k, i, 2 * i - 1, Right(i, Width(level[k])))
  BY <1>2, <1>4 DEF Tree, Over
<1> QED
  BY <1>5

(* On one level, of one or two trees, equal digests stand for equal blocks, *)
(* and all blocks are of one length.                                        *)
Matched(a, x, b, y) == /\ a = b <=> x = y
                       /\ Len(x) \in Nat /\ Len(x) > 0 /\ Len(x) = Len(y)

LEMMA MatchedNodes ==
    ASSUME NEW a, NEW b, NEW c, NEW d,
           NEW x \in Seq(Item), NEW y \in Seq(Item), NEW u \in Seq(Item), NEW v \in Seq(Item),
           Matched(a, x, c, u), Matched(b, y, d, v)
    PROVE  Matched(HashCombined(a, b), x \o y, HashCombined(c, d), u \o v)
<1>1. Len(x \o y) = Len(x) + Len(y) /\ Len(u \o v) = Len(u) + Len(v)
  BY ConcatProperties
<1>2. x \o y = u \o v => x = u /\ y = v
  BY ConcatTellsBoth DEF Matched
<1>3. HashCombined(a, b) = HashCombined(c, d) <=> a = c /\ b = d
  BY CombinedTellsBoth
<1>4. HashCombined(a, b) = HashCombined(c, d) <=> x \o y = u \o v
  BY <1>2, <1>3 DEF Matched
<1>5. /\ Len(x \o y) \in Nat /\ Len(x \o y) > 0
      /\ Len(x \o y) = Len(u \o v)
  BY <1>1 DEF Matched
<1> QED
  BY <1>4, <1>5 DEF Matched

LEMMA SameHeight ==
    ASSUME NEW items \in Seq(Item), NEW la, NEW ba, NEW ha, Tree(items, la, ba, ha),
           NEW other \in Seq(Item), NEW lb, NEW bb, NEW hb, Tree(other, lb, bb, hb)
    PROVE  \A k \in 0..ha : k <= hb =>
             \A i \in 1..Width(la[k]), j \in 1..Width(lb[k]) :
               Matched(la[k][i], ba[k][i], lb[k][j], bb[k][j])
<1> DEFINE Fine(k) == k <= hb =>
                        \A i \in 1..Width(la[k]), j \in 1..Width(lb[k]) :
                          Matched(la[k][i], ba[k][i], lb[k][j], bb[k][j])
           Good == {k \in 0..ha : Fine(k)}
<1>1. ha \in Nat /\ hb \in Nat
  BY DEF Tree
<1>2. 0 \in Good
  <2>1. ASSUME NEW i \in 1..Width(la[0]), NEW j \in 1..Width(lb[0])
        PROVE  Matched(la[0][i], ba[0][i], lb[0][j], bb[0][j])
    <3>1. /\ la[0][i] = <<items[i]>> /\ ba[0][i] = <<items[i]>>
          /\ lb[0][j] = <<other[j]>> /\ bb[0][j] = <<other[j]>>
      BY DEF Tree, HashString
    <3>2. Len(<<items[i]>>) = 1 /\ Len(<<other[j]>>) = 1
      OBVIOUS
    <3> QED
      BY <3>1, <3>2 DEF Matched
  <2> QED
    BY <1>1, <2>1
<1>3. ASSUME NEW k \in 0..(ha - 1), k \in Good PROVE k + 1 \in Good
  <2>1. k \in Nat /\ k + 1 <= ha /\ k + 1 \in 0..ha /\ Fine(k)
    BY <1>1, <1>3
  <2>2. ASSUME k + 1 <= hb, NEW i \in 1..Width(la[k + 1]), NEW j \in 1..Width(lb[k + 1])
        PROVE  Matched(la[k + 1][i], ba[k + 1][i], lb[k + 1][j], bb[k + 1][j])
    <3>1. PICK l, r : Over(la, ba, k, i, l, r)
      BY <2>1, TreeNode
    <3>2. PICK m, s : Over(lb, bb, k, j, m, s)
      BY <2>1, <2>2, TreeNode
    <3>3. k <= hb
      BY <1>1, <2>1, <2>2
    <3>4. /\ Matched(la[k][l], ba[k][l], lb[k][m], bb[k][m])
          /\ Matched(la[k][r], ba[k][r], lb[k][s], bb[k][s])
      BY <2>1, <3>1, <3>2, <3>3 DEF Over
    <3>5. Matched(HashCombined(la[k][l], la[k][r]), ba[k][l] \o ba[k][r],
                  HashCombined(lb[k][m], lb[k][s]), bb[k][m] \o bb[k][s])
      BY <3>1, <3>2, <3>4, MatchedNodes DEF Over
    <3> QED
      BY <3>1, <3>2, <3>5 DEF Over
  <2>3. Fine(k + 1)
    BY <2>2
  <2> QED
    BY <2>1, <2>3
<1> HIDE DEF Good
<1>4. \A k \in 0..ha : k \in Good
  BY <1>1, <1>2, <1>3, UpToInduction
<1> QED
  BY <1>4 DEF Good

(* A node's block is longer than any block of a lower level.                *)
Shorter(x, y) == Len(x) \in Nat /\ Len(y) \in Nat /\ Len(x) < Len(y)

LEMMA LongerAbove ==
    ASSUME NEW items \in Seq(Item), NEW la, NEW ba, NEW ha, Tree(items, la, ba, ha),
           NEW other \in Seq(Item), NEW lb, NEW bb, NEW hb, Tree(other, lb, bb, hb),
           NEW c \in Nat \ {0}
    PROVE  \A k \in 0..ha : k + c <= hb =>
             \A i \in 1..Width(la[k]), j \in 1..Width(lb[k + c]) :
               Shorter(ba[k][i], bb[k + c][j])
<1> DEFINE Fine(k) == k + c <= hb =>
                        \A i \in 1..Width(la[k]), j \in 1..Width(lb[k + c]) :
                          Shorter(ba[k][i], bb[k + c][j])
           Good == {k \in 0..ha : Fine(k)}
<1>1. ha \in Nat /\ hb \in Nat
  BY DEF Tree
<1>2. \A x, y \in Seq(Item) : x \o y \in Seq(Item) /\ Len(x \o y) = Len(x) + Len(y)
  BY ConcatProperties
<1>3. \A k \in 0..hb : k <= hb =>
        \A i \in 1..Width(lb[k]), j \in 1..Width(lb[k]) :
          Matched(lb[k][i], bb[k][i], lb[k][j], bb[k][j])
  BY SameHeight
<1>4. 0 \in Good
  <2>1. ASSUME c <= hb, NEW i \in 1..Width(la[0]), NEW j \in 1..Width(lb[c])
        PROVE  Shorter(ba[0][i], bb[c][j])
    <3> DEFINE d == c - 1
    <3>1. d \in Nat /\ d + 1 = c /\ d + 1 <= hb /\ d \in 0..hb /\ d <= hb
      BY <1>1, <2>1
    <3> HIDE DEF d
    <3>2. PICK m, s : Over(lb, bb, d, j, m, s)
      BY <2>1, <3>1, TreeNode
    <3>3. ba[0][i] = <<items[i]>> /\ Len(<<items[i]>>) = 1
      BY DEF Tree
    <3>4. /\ Matched(lb[d][m], bb[d][m], lb[d][m], bb[d][m])
          /\ Matched(lb[d][s], bb[d][s], lb[d][s], bb[d][s])
      BY <1>3, <3>1, <3>2 DEF Over
    <3> DEFINE x == bb[d][m]
               y == bb[d][s]
    <3>5. x \in Seq(Item) /\ y \in Seq(Item) /\ bb[c][j] = x \o y
      BY <3>1, <3>2 DEF Over
    <3>6. Len(x) \in Nat /\ Len(x) > 0 /\ Len(y) \in Nat /\ Len(y) > 0
      BY <3>4 DEF Matched
    <3> HIDE DEF x, y
    <3>7. Len(x \o y) = Len(x) + Len(y)
      BY <1>2, <3>5
    <3> QED
      BY <3>3, <3>5, <3>6, <3>7 DEF Shorter
  <2>2. 0 + c = c
    OBVIOUS
  <2>3. Fine(0)
    BY <2>1, <2>2
  <2> QED
    BY <1>1, <2>3
<1>5. ASSUME NEW k \in 0..(ha - 1), k \in Good PROVE k + 1 \in Good
  <2> DEFINE d == k + c
  <2>1. /\ k \in Nat /\ k + 1 <= ha /\ k + 1 \in 0..ha /\ Fine(k)
        /\ d \in Nat /\ (k + 1) + c = d + 1
    BY <1>1, <1>5
  <2>2. ASSUME d + 1 <= hb, NEW i \in 1..Width(la[k + 1]), NEW j \in 1..Width(lb[d + 1])
        PROVE  Shorter(ba[k + 1][i], bb[d + 1][j])
    <3>1. PICK l, r : Over(la, ba, k, i, l, r)
      BY <2>1, TreeNode
    <3>2. d <= hb
      BY <1>1, <2>1, <2>2
    <3>3. \A x \in 1..Width(la[k]), y \in 1..Width(lb[d]) : Shorter(ba[k][x], bb[d][y])
      BY <2>1, <3>2
    <3> HIDE DEF d
    <3>4. PICK m, s : Over(lb, bb, d, j, m, s)
      BY <2>1, <2>2, TreeNode
    <3>5. Shorter(ba[k][l], bb[d][m]) /\ Shorter(ba[k][r], bb[d][s])
      BY <3>1, <3>3, <3>4 DEF Over
    <3>6. /\ Len(ba[k][l] \o ba[k][r]) = Len(ba[k][l]) + Len(ba[k][r])
          /\ Len(bb[d][m] \o bb[d][s]) = Len(bb[d][m]) + Len(bb[d][s])
      BY <1>2, <3>1, <3>4 DEF Over
    <3>7. Shorter(ba[k][l] \o ba[k][r], bb[d][m] \o bb[d][s])
      <4>1. \A x, y, u, v \in Nat : x < u /\ y < v =>
              x + y \in Nat /\ u + v \in Nat /\ x + y < u + v
        OBVIOUS
      <4> DEFINE x == Len(ba[k][l])
                 y == Len(ba[k][r])
                 u == Len(bb[d][m])
                 v == Len(bb[d][s])
      <4>2. x \in Nat /\ y \in Nat /\ u \in Nat /\ v \in Nat /\ x < u /\ y < v
        BY <3>5 DEF Shorter
      <4> HIDE DEF x, y, u, v
      <4>3. x + y \in Nat /\ u + v \in Nat /\ x + y < u + v
        BY <4>1, <4>2
      <4>4. Len(ba[k][l] \o ba[k][r]) = x + y /\ Len(bb[d][m] \o bb[d][s]) = u + v
        BY <3>6 DEF x, y, u, v
      <4> QED
        BY <4>3, <4>4, Zenon DEF Shorter
    <3> QED
      BY <3>1, <3>4, <3>7 DEF Over
  <2>3. Fine(k + 1)
    BY <2>1, <2>2
  <2> QED
    BY <2>1, <2>3
<1> HIDE DEF Good
<1>6. \A k \in 0..ha : k \in Good
  BY <1>1, <1>4, <1>5, UpToInduction
<1> QED
  BY <1>6 DEF Good

(* Of two trees the one with the longer block at the top is the higher.     *)
LEMMA HigherIsLonger ==
    ASSUME NEW items \in Seq(Item), NEW la, NEW ba, NEW ha, Tree(items, la, ba, ha),
           NEW other \in Seq(Item), NEW lb, NEW bb, NEW hb, Tree(other, lb, bb, hb),
           ha < hb
    PROVE  ba[ha][1] # bb[hb][1]
<1> DEFINE c == hb - ha
<1>1. /\ ha \in Nat /\ hb \in Nat
      /\ 1 \in 1..Width(la[ha]) /\ 1 \in 1..Width(lb[hb])
  BY DEF Tree
<1>2. c \in Nat \ {0} /\ ha + c = hb /\ ha + c <= hb /\ ha \in 0..ha
  BY <1>1
<1> HIDE DEF c
<1>3. \A k \in 0..ha : k + c <= hb =>
        \A i \in 1..Width(la[k]), j \in 1..Width(lb[k + c]) :
          Shorter(ba[k][i], bb[k + c][j])
  BY <1>2, LongerAbove
<1>4. Shorter(ba[ha][1], bb[hb][1])
  BY <1>1, <1>2, <1>3
<1> QED
  BY <1>4 DEF Shorter

(* A tree's shape is that of its number of leaves.                          *)
LEMMA WidthsAgree ==
    ASSUME NEW items \in Seq(Item), NEW la, NEW ba, NEW ha, Tree(items, la, ba, ha),
           NEW other \in Seq(Item), NEW lb, NEW bb, NEW hb, Tree(other, lb, bb, hb),
           Len(items) = Len(other)
    PROVE  ha >= hb
<1> DEFINE Good == {k \in 0..ha : k <= hb => Width(la[k]) = Width(lb[k])}
<1>1. ha \in Nat /\ hb \in Nat
  BY DEF Tree
<1>2. 0 \in Good
  BY <1>1 DEF Tree
<1>3. ASSUME NEW k \in 0..(ha - 1), k \in Good PROVE k + 1 \in Good
  <2>1. k + 1 \in 0..ha /\ (k + 1 <= hb => k <= hb /\ k \in 0..(hb - 1))
    BY <1>1
  <2>2. Width(la[k + 1]) = (Width(la[k]) + 1) \div 2
    BY DEF Tree
  <2>3. k + 1 <= hb => Width(lb[k + 1]) = (Width(lb[k]) + 1) \div 2
    BY <2>1 DEF Tree
  <2> QED
    BY <1>3, <2>1, <2>2, <2>3
<1> HIDE DEF Good
<1>4. \A k \in 0..ha : k \in Good
  BY <1>1, <1>2, <1>3, UpToInduction
<1>5. ASSUME ha < hb PROVE FALSE
  <2>1. ha \in 0..ha /\ ha <= hb /\ ha \in 0..(hb - 1)
    BY <1>1, <1>5
  <2>2. Width(la[ha]) = Width(lb[ha])
    BY <1>4, <2>1 DEF Good
  <2>3. Width(la[ha]) = 1 /\ Width(lb[ha]) > 1
    BY <2>1 DEF Tree
  <2> QED
    BY <2>2, <2>3
<1> QED
  BY <1>1, <1>5

(* From the top down: if a lower tree has the root of a higher, its leaves  *)
(* are nodes of that one.                                                   *)
LEMMA LowerMimics ==
    ASSUME NEW items \in Seq(Item), NEW la, NEW ba, NEW ha, Tree(items, la, ba, ha),
           NEW other, NEW lb, NEW bb, NEW hb, Tree(other, lb, bb, hb),
           ha < hb, la[ha][1] = lb[hb][1]
    PROVE  Range(items) \subseteq NodeTexts(other)
<1> DEFINE Fine(k, d) == \A i \in 1..Width(la[k]) :
                           \E j \in 1..Width(lb[d]) : la[k][i] = lb[d][j]
           Good == {n \in 0..ha : Fine(ha - n, hb - n)}
<1>1. ha \in Nat /\ hb \in Nat
  BY DEF Tree
<1>2. 0 \in Good
  <2>1. Width(la[ha]) = 1 /\ Width(lb[hb]) = 1 /\ ha - 0 = ha /\ hb - 0 = hb
    BY <1>1 DEF Tree
  <2>2. Fine(ha, hb)
    BY <2>1
  <2> QED
    BY <1>1, <2>1, <2>2
<1>3. ASSUME NEW n \in 0..(ha - 1), n \in Good PROVE n + 1 \in Good
  <2> DEFINE k == ha - (n + 1)
             d == hb - (n + 1)
  <2>1. /\ k \in Nat /\ k + 1 <= ha /\ k + 1 = ha - n /\ n + 1 \in 0..ha
        /\ k \in 0..(ha - 1) /\ k \in 0..ha
        /\ d \in Nat /\ d + 1 <= hb /\ d + 1 = hb - n
    BY <1>1
  <2>2. Fine(k + 1, d + 1)
    BY <1>3, <2>1
  <2> HIDE DEF k, d
  <2>3. Width(la[k]) \in Nat /\ Width(la[k + 1]) = (Width(la[k]) + 1) \div 2
    BY <2>1 DEF Tree
  <2>4. ASSUME NEW p \in 1..Width(la[k])
        PROVE  \E q \in 1..Width(lb[d]) : la[k][p] = lb[d][q]
    <3> DEFINE i == (p + 1) \div 2
    <3>1. i \in 1..Width(la[k + 1]) /\ (p = 2 * i - 1 \/ p = Right(i, Width(la[k])))
      <4>1. i \in 1..((Width(la[k]) + 1) \div 2) /\ (p = 2 * i - 1 \/ p = 2 * i)
        BY <2>3
      <4> QED
        BY <2>3, <4>1 DEF Right
    <3> HIDE DEF i
    <3>2. PICK j \in 1..Width(lb[d + 1]) : la[k + 1][i] = lb[d + 1][j]
      BY <2>2, <3>1
    <3>3. PICK l, r : Over(la, ba, k, i, l, r)
      BY <2>1, <3>1, TreeNode
    <3>4. PICK m, s : Over(lb, bb, d, j, m, s)
      BY <2>1, TreeNode
    <3>5. p = l \/ p = r
      BY <3>1, <3>3 DEF Over
    <3>6. la[k][l] = lb[d][m] /\ la[k][r] = lb[d][s]
      <4>1. HashCombined(la[k][l], la[k][r]) = HashCombined(lb[d][m], lb[d][s])
        BY <3>2, <3>3, <3>4 DEF Over
      <4> QED
        BY <4>1, CombinedTellsBoth
    <3>7. m \in 1..Width(lb[d]) /\ s \in 1..Width(lb[d])
      BY <3>4 DEF Over
    <3> QED
      BY <3>5, <3>6, <3>7
  <2>5. Fine(k, d)
    BY <2>4
  <2> QED
    BY <2>1, <2>5 DEF k, d
<1> HIDE DEF Good
<1>4. \A n \in 0..ha : n \in Good
  BY <1>1, <1>2, <1>3, UpToInduction
<1> DEFINE c == hb - ha
           b == c - 1
<1>5. c \in Nat /\ b \in 0..(hb - 1) /\ b + 1 = c /\ ha \in 0..ha /\ ha - ha = 0
  BY <1>1
<1>6. Fine(0, c)
  BY <1>4, <1>5 DEF Good
<1> HIDE DEF c, b
<1>7. \A j \in 1..Width(lb[c]) : lb[c][j][1] \in NodeTexts(other)
  <2>1. \A j \in 1..Width(lb[b + 1]) : lb[b + 1][j][1] \in NodeTexts(other)
    BY <1>5 DEF Tree
  <2> QED
    BY <1>5, <2>1
<1>8. ASSUME NEW i \in 1..Len(items) PROVE items[i] \in NodeTexts(other)
  <2>1. i \in 1..Width(la[0]) /\ la[0][i] = <<items[i]>>
    BY DEF Tree, HashString
  <2>2. PICK j \in 1..Width(lb[c]) : la[0][i] = lb[c][j]
    BY <1>6, <2>1
  <2>3. la[0][i][1] = items[i]
    BY <2>1
  <2> QED
    BY <1>7, <2>2, <2>3
<1>9. DOMAIN items = 1..Len(items)
  OBVIOUS
<1> QED
  BY <1>8, <1>9 DEF Range

(* From the top down: one root over as many leaves has the same leaves.     *)
LEMMA TreesAgree ==
    ASSUME NEW items \in Seq(Item), NEW la, NEW ba, NEW h, Tree(items, la, ba, h),
           NEW other \in Seq(Item), NEW lb, NEW bb, Tree(other, lb, bb, h),
           Len(items) = Len(other), la[h][1] = lb[h][1]
    PROVE  items = other
<1>1. h \in Nat
  BY DEF Tree
<1>2. \A k \in 0..h : k \in 0..h => Width(la[k]) = Width(lb[k])
  <2> DEFINE Good == {k \in 0..h : Width(la[k]) = Width(lb[k])}
  <2>1. 0 \in Good
    BY <1>1 DEF Tree
  <2>2. ASSUME NEW k \in 0..(h - 1), k \in Good PROVE k + 1 \in Good
    <3>1. k + 1 \in 0..h
      BY <1>1
    <3>2. /\ Width(la[k + 1]) = (Width(la[k]) + 1) \div 2
          /\ Width(lb[k + 1]) = (Width(lb[k]) + 1) \div 2
      BY DEF Tree
    <3> QED
      BY <2>2, <3>1, <3>2
  <2> HIDE DEF Good
  <2>3. \A k \in 0..h : k \in Good
    BY <1>1, <2>1, <2>2, UpToInduction
  <2> QED
    BY <2>3 DEF Good
<1> DEFINE Fine(k) == \A i \in 1..Width(la[k]) : la[k][i] = lb[k][i]
           Good == {n \in 0..h : Fine(h - n)}
<1>3. 0 \in Good
  <2>1. Width(la[h]) = 1 /\ h - 0 = h
    BY <1>1 DEF Tree
  <2>2. Fine(h)
    BY <2>1
  <2> QED
    BY <1>1, <2>1, <2>2
<1>4. ASSUME NEW n \in 0..(h - 1), n \in Good PROVE n + 1 \in Good
  <2> DEFINE k == h - (n + 1)
  <2>1. k \in Nat /\ k + 1 <= h /\ k + 1 = h - n /\ n + 1 \in 0..h /\ k \in 0..h
        /\ k \in 0..(h - 1) /\ k + 1 \in 0..h
    BY <1>1
  <2>2. Fine(k + 1)
    BY <1>4, <2>1
  <2> HIDE DEF k
  <2>3. /\ Width(la[k]) = Width(lb[k]) /\ Width(la[k]) \in Nat
        /\ Width(la[k + 1]) = (Width(la[k]) + 1) \div 2
        /\ Width(la[k + 1]) = Width(lb[k + 1])
    BY <1>2, <2>1 DEF Tree
  <2>4. ASSUME NEW p \in 1..Width(la[k]) PROVE la[k][p] = lb[k][p]
    <3> DEFINE i == (p + 1) \div 2
    <3>1. i \in 1..Width(la[k + 1]) /\ (p = 2 * i - 1 \/ p = Right(i, Width(la[k])))
      <4>1. i \in 1..((Width(la[k]) + 1) \div 2) /\ (p = 2 * i - 1 \/ p = 2 * i)
        BY <2>3
      <4> QED
        BY <2>3, <4>1 DEF Right
    <3> HIDE DEF i
    <3>2. PICK l, r : Over(la, ba, k, i, l, r)
      BY <2>1, <3>1, TreeNode
    <3>3. PICK m, s : Over(lb, bb, k, i, m, s)
      BY <2>1, <2>3, <3>1, TreeNode
    <3>4. l = m /\ r = s /\ (p = l \/ p = r)
      BY <2>3, <3>1, <3>2, <3>3 DEF Over
    <3>5. la[k + 1][i] = lb[k + 1][i]
      BY <2>2, <3>1
    <3>6. la[k][l] = lb[k][m] /\ la[k][r] = lb[k][s]
      <4>1. HashCombined(la[k][l], la[k][r]) = HashCombined(lb[k][m], lb[k][s])
        BY <3>2, <3>3, <3>5 DEF Over
      <4> QED
        BY <4>1, CombinedTellsBoth
    <3> QED
      BY <3>4, <3>6
  <2>5. Fine(k)
    BY <2>4
  <2> QED
    BY <2>1, <2>5 DEF k
<1> HIDE DEF Good
<1>5. \A n \in 0..h : n \in Good
  BY <1>1, <1>3, <1>4, UpToInduction
<1>6. Fine(0)
  <2>1. h \in 0..h /\ h - h = 0
    BY <1>1
  <2> QED
    BY <1>5, <2>1 DEF Good
<1>7. \A i \in 1..Len(items) : items[i] = other[i]
  <2> TAKE i \in 1..Len(items)
  <2>1. /\ i \in 1..Width(la[0]) /\ i \in 1..Len(other)
        /\ la[0][i] = HashString(items[i]) /\ lb[0][i] = HashString(other[i])
    BY DEF Tree
  <2>2. HashString(items[i]) = HashString(other[i])
    BY <1>6, <2>1
  <2>3. \A x, y : <<x>> = <<y>> => x = y
    OBVIOUS
  <2> QED
    BY <2>2, <2>3 DEF HashString
<1> QED
  BY <1>7, SeqEqual

(* The root of some items against the root of none.                         *)
LEMMA RootOfNone ==
    ASSUME NEW items \in Seq(Item), Len(items) > 0
    PROVE  /\ Root(items) = Root(<<>>) => Mimics(items, <<>>)
           /\ Filled(items) # Filled(<<>>)
<1>1. PICK level, block, h : /\ Tree(items, level, block, h)
                             /\ Root(items) = level[h][1] /\ Filled(items) = block[h][1]
  BY TreeExists
<1>2. Root(<<>>) = HashString(<<"empty">>)
  BY DEF Root
<1>3. Filled(<<>>) = <<>>
  <2>1. Len(<<>>) \in Nat /\ Len(<<>>) = 0
    OBVIOUS
  <2>2. PICK fill : fill[0] = [texts |-> <<>>, block |-> 1] /\ Filled(<<>>) = fill[0].texts
    BY <2>1, FillIs
  <2> QED
    BY <2>2
<1>4. h \in Nat /\ 1 \in 1..Width(level[h]) /\ h \in 0..h
  BY <1>1 DEF Tree
<1>5. \A x, y : <<x>> = <<y>> => x = y
  OBVIOUS
<1>6. ASSUME Root(items) = HashString(<<"empty">>) PROVE Mimics(items, <<>>)
  <2>1. CASE h = 0
    <3>1. Len(items) = 1 /\ level[0][1] = HashString(items[1])
      BY <1>1, <1>4, <2>1 DEF Tree
    <3>2. items[1] = <<"empty">>
      BY <1>1, <1>5, <1>6, <2>1, <3>1 DEF HashString
    <3>3. Range(items) = {items[1]} /\ items # <<>>
      BY <3>1 DEF Range
    <3> QED
      BY <3>2, <3>3 DEF Mimics, NodeTexts
  <2>2. CASE h # 0
    <3> DEFINE k == h - 1
    <3>1. k \in Nat /\ k + 1 = h /\ k + 1 <= h
      BY <1>4, <2>2
    <3> HIDE DEF k
    <3>2. PICK l, r : Over(level, block, k, 1, l, r)
      BY <1>1, <1>4, <3>1, TreeNode
    <3>3. level[h][1] = <<<<level[k][l], Separator, level[k][r]>>>>
      BY <3>1, <3>2, CombinedText DEF Over
    <3>4. <<level[k][l], Separator, level[k][r]>> = <<"empty">>
      BY <1>1, <1>5, <1>6, <3>3 DEF HashString
    <3>5. <<level[k][l], Separator, level[k][r]>> # <<"empty">>
      OBVIOUS
    <3> QED
      BY <3>4, <3>5
  <2> QED
    BY <2>1, <2>2
<1>7. Filled(items) # <<>>
  <2>1. Matched(level[h][1], block[h][1], level[h][1], block[h][1])
    BY <1>1, <1>4, SameHeight
  <2> QED
    BY <1>1, <2>1 DEF Matched
<1> QED
  BY <1>2, <1>3, <1>6, <1>7

(* What a root tells of its batch, and with its length the batch itself.    *)
Told(items, other) ==
    /\ Filled(other) = Filled(items) => Root(other) = Root(items)
    /\ Root(other) = Root(items) => \/ Filled(other) = Filled(items)
                                    \/ Mimics(other, items) \/ Mimics(items, other)
    /\ Root(other) = Root(items) /\ Len(other) = Len(items) => other = items

LEMMA RootTells == ASSUME NEW items \in Batch, NEW other \in Batch PROVE Told(items, other)
<1>1. items \in Seq(Item) /\ other \in Seq(Item)
  BY InputAssumption
<1>2. \A s \in Seq(Item) : s = <<>> \/ Len(s) > 0
  OBVIOUS
<1>3. Len(<<>>) = 0
  OBVIOUS
<1>4. CASE items = <<>> \/ other = <<>>
  <2>1. CASE items = <<>> /\ other = <<>>
    BY <2>1 DEF Told
  <2>2. CASE items = <<>> /\ Len(other) > 0
    BY <1>1, <1>3, <2>2, RootOfNone DEF Told
  <2>3. CASE other = <<>> /\ Len(items) > 0
    BY <1>1, <1>3, <2>3, RootOfNone DEF Told
  <2> QED
    BY <1>1, <1>2, <1>4, <2>1, <2>2, <2>3
<1>5. CASE Len(items) > 0 /\ Len(other) > 0
  <2>1. PICK la, ba, ha : /\ Tree(items, la, ba, ha)
                          /\ Root(items) = la[ha][1] /\ Filled(items) = ba[ha][1]
    BY <1>1, <1>5, TreeExists
  <2>2. PICK lb, bb, hb : /\ Tree(other, lb, bb, hb)
                          /\ Root(other) = lb[hb][1] /\ Filled(other) = bb[hb][1]
    BY <1>1, <1>5, TreeExists
  <2>3. ha \in Nat /\ hb \in Nat /\ (ha = hb \/ ha < hb \/ hb < ha)
    BY <2>1, <2>2 DEF Tree
  <2>4. ASSUME ha = hb
        PROVE  Root(other) = Root(items) <=> Filled(other) = Filled(items)
    <3>1. /\ ha \in Nat /\ ha \in 0..ha /\ ha <= hb
          /\ 1 \in 1..Width(la[ha]) /\ 1 \in 1..Width(lb[ha])
      BY <2>1, <2>2, <2>4 DEF Tree
    <3>2. \A k \in 0..ha : k <= hb =>
             \A i \in 1..Width(la[k]), j \in 1..Width(lb[k]) :
               Matched(la[k][i], ba[k][i], lb[k][j], bb[k][j])
      BY <1>1, <2>1, <2>2, SameHeight
    <3>3. Matched(la[ha][1], ba[ha][1], lb[ha][1], bb[ha][1])
      BY <3>1, <3>2
    <3> QED
      BY <2>1, <2>2, <2>4, <3>3 DEF Matched
  <2>5. Filled(other) = Filled(items) => ha = hb
    <3>1. ASSUME ha < hb PROVE ba[ha][1] # bb[hb][1]
      BY <1>1, <2>1, <2>2, <3>1, HigherIsLonger
    <3>2. ASSUME hb < ha PROVE bb[hb][1] # ba[ha][1]
      BY <1>1, <2>1, <2>2, <3>2, HigherIsLonger
    <3> QED
      BY <2>1, <2>2, <2>3, <3>1, <3>2
  <2>6. ASSUME Root(other) = Root(items), ha # hb
        PROVE  Mimics(other, items) \/ Mimics(items, other)
    <3>1. CASE ha < hb
      <4>1. Range(items) \subseteq NodeTexts(other)
        BY <1>1, <2>1, <2>2, <2>6, <3>1, LowerMimics
      <4> QED
        BY <1>3, <1>5, <4>1 DEF Mimics
    <3>2. CASE hb < ha
      <4>1. Range(other) \subseteq NodeTexts(items)
        BY <1>1, <2>1, <2>2, <2>6, <3>2, LowerMimics
      <4> QED
        BY <1>3, <1>5, <4>1 DEF Mimics
    <3> QED
      BY <2>3, <2>6, <3>1, <3>2
  <2>7. ASSUME Root(other) = Root(items), Len(other) = Len(items) PROVE other = items
    <3>1. ha >= hb /\ hb >= ha
      BY <1>1, <2>1, <2>2, <2>7, WidthsAgree
    <3>2. ha = hb
      BY <2>3, <3>1
    <3>3. Tree(other, lb, bb, ha)
      BY <2>2, <3>2
    <3>4. la[ha][1] = lb[ha][1]
      BY <2>1, <2>2, <2>7, <3>2
    <3>5. items = other
      BY <1>1, <2>1, <2>7, <3>3, <3>4, TreesAgree
    <3> QED
      BY <3>5
  <2> QED
    BY <2>4, <2>5, <2>6, <2>7 DEF Told
<1> QED
  BY <1>1, <1>2, <1>4, <1>5

(* The reply of from_data is the root of the items it was given.            *)
BatchInv == Known /\ (Replied("batch") => /\ request.items \in Batch
                                          /\ reply.root = Root(request.items))

LEMMA BatchStep == ASSUME BatchInv, [Next]_vars PROVE BatchInv'
<1> USE DEF BatchInv
<1>1. Known'
  BY KnownStep
<1>2. CASE UNCHANGED vars
  BY <1>1, <1>2 DEF vars, Replied
<1>3. CASE reply'.kind # "batch"
  BY <1>1, <1>3 DEF Replied
<1>4. CASE ServeBatch
  <2>1. /\ request' = request /\ request.kind = "batch"
        /\ reply' = [kind |-> "batch", root |-> Root(request.items)]
    BY <1>4 DEF ServeBatch, Serving, Reply
  <2>2. request.items \in Batch
    BY <2>1, KindsApart DEF Known, Nothing, BatchRequest
  <2> QED
    BY <1>1, <2>1, <2>2
<1> QED
  BY <1>2, <1>3, <1>4, OtherReplies

LEMMA BatchIsTold == BatchInv => RootIdentifiesBatch
<1>1. SUFFICES ASSUME BatchInv, Replied("batch"), NEW other \in Batch
               PROVE  /\ Filled(other) = Filled(request.items) => Root(other) = reply.root
                      /\ Root(other) = reply.root => \/ Filled(other) = Filled(request.items)
                                                     \/ Mimics(other, request.items)
                                                     \/ Mimics(request.items, other)
                      /\ Root(other) = reply.root /\ Len(other) = Len(request.items)
                           => other = request.items
  BY DEF RootIdentifiesBatch
<1>2. request.items \in Batch /\ reply.root = Root(request.items)
  BY <1>1 DEF BatchInv
<1>3. Told(request.items, other)
  BY <1>2, RootTells
<1> QED
  BY <1>2, <1>3 DEF Told

(* A Merkle root is that of one batch, up to the repetition of its end that *)
(* fills the levels, and up to a batch whose every item is the text of a    *)
(* node; of batches of one length no two share a root, whatever the items.  *)
THEOREM RootsIdentify == Spec => []RootIdentifiesBatch
<1>1. Init => BatchInv
  BY KnownInit DEF Init, BatchInv, Replied, Nothing
<1>2. BatchInv /\ [Next]_vars => BatchInv'
  BY BatchStep
<1> QED
  BY <1>1, <1>2, BatchIsTold, PTL DEF Spec
=============================================================================
