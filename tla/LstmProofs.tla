------------------------------ MODULE LstmProofs ------------------------------
(* What a fit keeps, and what it predicts with, for any series and losses.  *)
EXTENDS LstmTraining, TLAPS

Network == [fit : Nat \ {0}, epoch : 0..Epochs, inputs : SUBSET SequenceFeatures,
            nan : BOOLEAN]

(* Columns have their scalers, unless a fit raised between the two.         *)
Prepared(columns, kept, without) ==
    /\ columns \subseteq SequenceFeatures /\ DOMAIN kept \subseteq SequenceFeatures
    /\ ~without => columns \subseteq DOMAIN kept

(* The network, its file and the counters are what their names say.         *)
Typed ==
    /\ fits \in 0..MaxFits /\ fitting \in BOOLEAN
    /\ losses \in Seq(Losses \cup {NaN}) /\ Len(losses) <= Epochs
    /\ patience_counter \in 0..Patience
    /\ model # NoModel => model \in Network /\ model.fit <= fits
    /\ fitting => ~torn /\ model \in Network /\ model.fit = fits /\ model.epoch = Len(losses)
    /\ Prepared(feature_columns, scalers, torn)
    /\ file.saved => /\ file.model \in Network /\ file.model.fit <= fits
                     /\ Prepared(file.feature_columns, file.scalers, file.torn)

(* k is the earliest of the best epochs of a fit.                           *)
Earliest(loss, k) == \A j \in DOMAIN loss : /\ ~Less(loss[j], loss[k])
                                            /\ j < k => Less(loss[k], loss[j])

(* best is that epoch of those run so far, if any of them had a loss.       *)
Tracked ==
    /\ best = <<>> => \A j \in DOMAIN losses : losses[j] = NaN
    /\ best # <<>> => /\ best \in Losses \X (1..Len(losses))
                      /\ losses[best[2]] = best[1] /\ Earliest(losses, best[2])

(* The history is that of an earlier fit than the one that runs.            *)
Dated == training_history # <<>> =>
           /\ training_history.fit \in 0..fits
           /\ fitting => training_history.fit < fits

Coherent(network, columns, kept) ==
    /\ columns = network.inputs
    /\ \A c \in columns : c \in DOMAIN kept /\ kept[c] = network.fit

FileCoherent == file.saved /\ ~file.torn =>
                  Coherent(file.model, file.feature_columns, file.scalers)

LossInv == Typed /\ Tracked /\ Dated /\ BestIsRestored
ScaleInv == Typed /\ Tracked /\ ScalersMatchModel /\ FileCoherent

-----------------------------------------------------------------------------
(* Every call that does not train leaves what a fit works with alone.       *)
LEMMA Untouched ==
    ASSUME \/ \E df \in Frames : Predict(df) \/ Assess(df)
           \/ UNCHANGED vars
    PROVE  UNCHANGED <<fits, model, feature_columns, scalers, training,
                       training_history, fitting, torn, file>>
BY DEF Predict, Assess, Keep, vars

(* The order of losses, NaN being worse than any.                           *)
LEMMA LessIsOrder ==
    ASSUME NEW x \in Losses, NEW y \in Losses, NEW z \in Losses \cup {NaN}
    PROVE  /\ x < y /\ ~Less(z, y) => Less(x, z)
           /\ Less(x, z) => ~Less(z, x)
<1>1. CASE z = NaN
  BY <1>1, LstmAssumption DEF Less, LstmAssumption
<1>2. CASE z # NaN
  <2>1. x \in Nat /\ y \in Nat /\ z \in Nat /\ x # NaN /\ y # NaN
    BY <1>2, LstmAssumption DEF LstmAssumption
  <2> QED BY <2>1, <1>2 DEF Less
<1> QED BY <1>1, <1>2

(* One more epoch is the best, or the best stays the best.                  *)
LEMMA EpochTracked == ASSUME Typed, Tracked, Epoch PROVE Tracked'
<1> USE LstmAssumption DEF Less, LstmAssumption
<1>1. PICK loss \in Losses \cup {NaN} :
        /\ losses' = Append(losses, loss)
        /\ best' = IF Improves(loss) THEN <<loss, Len(losses) + 1>> ELSE best
  BY DEF Epoch
<1>2. /\ DOMAIN losses = 1..Len(losses) /\ Len(losses) \in Nat
      /\ \A j \in DOMAIN losses : losses[j] \in Losses \cup {NaN}
  BY DEF Typed
<1>3. /\ DOMAIN losses' = 1..(Len(losses) + 1) /\ Len(losses') = Len(losses) + 1
      /\ losses'[Len(losses) + 1] = loss
      /\ \A j \in DOMAIN losses : losses'[j] = losses[j]
  BY <1>1 DEF Typed
<1>4. CASE Improves(loss)
  <2>1. best' = <<loss, Len(losses) + 1>> /\ loss \in Losses
    BY <1>1, <1>4 DEF Improves
  <2>2. \A j \in DOMAIN losses : Less(loss, losses[j])
    <3>1. CASE best = <<>>
      BY <3>1, <2>1, <1>4 DEF Tracked, Improves
    <3>2. CASE best # <<>>
      <4>1. loss < best[1] /\ best[1] \in Losses /\ losses[best[2]] = best[1]
        BY <3>2, <1>4 DEF Tracked, Improves
      <4>2. \A j \in DOMAIN losses : ~Less(losses[j], best[1])
        BY <3>2, <4>1 DEF Tracked, Earliest
      <4> HIDE DEF Less
      <4> QED BY <4>1, <4>2, <2>1, <1>2, LessIsOrder
    <3> QED BY <3>1, <3>2
  <2>3. \A j \in DOMAIN losses : ~Less(losses[j], loss)
    <3> HIDE DEF Less
    <3> QED BY <2>1, <2>2, <1>2, LessIsOrder
  <2>4. Earliest(losses', Len(losses) + 1)
    BY <2>1, <2>2, <2>3, <1>2, <1>3 DEF Earliest
  <2> QED BY <2>1, <2>4, <1>2, <1>3 DEF Tracked
<1>5. CASE ~Improves(loss) /\ best = <<>>
  BY <1>1, <1>2, <1>3, <1>5 DEF Tracked, Improves
<1>6. CASE ~Improves(loss) /\ best # <<>>
  <2>1. /\ best' = best /\ best \in Losses \X (1..Len(losses))
        /\ losses[best[2]] = best[1] /\ Earliest(losses, best[2])
    BY <1>1, <1>6 DEF Tracked
  <2>2. ~Less(loss, best[1])
    BY <1>6, <2>1 DEF Improves
  <2>3. Earliest(losses', best[2])
    BY <2>1, <2>2, <1>2, <1>3 DEF Earliest
  <2> QED BY <2>1, <2>3, <1>2, <1>3 DEF Tracked
<1> QED BY <1>4, <1>5, <1>6

-----------------------------------------------------------------------------
LEMMA InitTyped == Init => Typed /\ Tracked /\ Dated
<1> USE LstmAssumption DEF LstmAssumption, Init
<1>1. Init => losses \in Seq(Losses \cup {NaN}) /\ Len(losses) <= Epochs
  OBVIOUS
<1>2. Init => Prepared(feature_columns, scalers, torn)
  BY DEF Prepared
<1>3. Init => file.saved = FALSE
  BY DEF NoFile
<1>4. Init => fits \in 0..MaxFits /\ patience_counter \in 0..Patience
  OBVIOUS
<1>5. Init => model = NoModel /\ fitting = FALSE
  OBVIOUS
<1>6. Init => Typed
  BY <1>1, <1>2, <1>3, <1>4, <1>5, Zenon DEF Typed
<1>7. Init => Tracked /\ Dated
  BY DEF Tracked, Dated
<1> QED BY <1>6, <1>7

LEMMA TrackedStep == ASSUME Typed, Tracked, [Next]_vars PROVE Tracked'
<1>1. CASE \E df \in Frames : Predict(df) \/ Assess(df)
  BY <1>1, Untouched DEF Tracked, Earliest, training
<1>2. ASSUME NEW df \in Frames, Fit(df) PROVE Tracked'
  BY <1>2 DEF Fit, Tracked, training, Earliest
<1>3. CASE Finish BY <1>3 DEF Finish, Tracked
<1>4. CASE Save BY <1>4 DEF Save, Keep, Tracked, Earliest, training
<1>5. CASE Load BY <1>5 DEF Load, Tracked, Earliest, training
<1>6. CASE UNCHANGED vars BY <1>6, Untouched DEF Tracked, Earliest, training
<1> QED BY <1>1, <1>2, <1>3, <1>4, <1>5, <1>6, EpochTracked DEF Next

LEMMA TypedStep == ASSUME Typed, Tracked, [Next]_vars PROVE Typed'
<1> USE LstmAssumption DEF LstmAssumption
<1>1. CASE \E df \in Frames : Predict(df) \/ Assess(df)
  BY <1>1, Untouched DEF Typed, training
<1>2. ASSUME NEW df \in Frames, Fit(df) PROVE Typed'
  <2> DEFINE columns == SequenceFeatures \cap df.columns
  <2>1. /\ fits' = fits + 1 /\ fits' \in 0..MaxFits /\ fits' # 0 /\ file' = file
        /\ fitting = FALSE
    BY <1>2 DEF Fit, Idle, Typed
  <2>2. Prepared(feature_columns', scalers', torn')
    <3>1. feature_columns' = columns /\ columns \subseteq SequenceFeatures
      BY <1>2 DEF Fit
    <3>2. CASE Unscaled(df, columns)
      <4>1. scalers' = scalers /\ torn' = TRUE
        BY <1>2, <3>2, Zenon DEF Fit
      <4> QED BY <3>1, <4>1 DEF Typed, Prepared
    <3>3. CASE ~Unscaled(df, columns)
      <4>1. DOMAIN scalers' = columns \cup DOMAIN scalers
        BY <1>2, <3>3 DEF Fit
      <4> QED BY <3>1, <4>1 DEF Typed, Prepared
    <3> QED BY <3>2, <3>3
  <2>3. CASE UNCHANGED <<model, training, fitting>>
    BY <2>1, <2>2, <2>3 DEF Typed, training, Network, Prepared
  <2>4. CASE /\ model' = [fit |-> fits', epoch |-> 0, inputs |-> columns, nan |-> ~df.clean]
             /\ losses' = <<>> /\ best' = <<>> /\ patience_counter' = 0
             /\ fitting' = TRUE /\ torn' = FALSE
    <3>1. model' \in Network /\ model'.fit = fits' /\ model'.epoch = 0
      BY <2>1, <2>4 DEF Network, Typed
    <3> QED BY <2>1, <2>2, <2>4, <3>1 DEF Typed, Network, Prepared
  <2> QED
    <3> DEFINE raises == \/ Unscaled(df, columns) \/ NoTarget(df, columns)
                         \/ Validation(df) = 0
    <3>1. CASE raises
      BY <1>2, <2>3, <3>1, Zenon DEF Fit
    <3>2. CASE ~raises
      <4>1. torn' = FALSE BY <1>2, <3>2 DEF Fit
      <4> QED BY <1>2, <2>4, <3>2, <4>1, Zenon DEF Fit
    <3> QED BY <3>1, <3>2
<1>3. CASE Epoch
  <2>1. PICK loss \in Losses \cup {NaN} :
          /\ model' = [model EXCEPT !.epoch = @ + 1, !.nan = loss = NaN]
          /\ losses' = Append(losses, loss)
          /\ patience_counter' = Counted(Improves(loss))
    BY <1>3 DEF Epoch
  <2>2. /\ fitting /\ Len(losses) < Epochs /\ patience_counter < Patience
        /\ UNCHANGED <<fits, feature_columns, scalers, torn, fitting, file>>
    BY <1>3 DEF Epoch, Running
  <2>3. /\ losses' \in Seq(Losses \cup {NaN}) /\ Len(losses') = Len(losses) + 1
        /\ Len(losses') <= Epochs
    BY <2>1, <2>2 DEF Typed
  <2>4. patience_counter' \in 0..Patience
    BY <2>1, <2>2 DEF Typed, Counted
  <2>5. model \in Network /\ model.fit = fits /\ model.epoch = Len(losses)
    BY <2>2 DEF Typed
  <2>6. model' \in Network /\ model'.fit = fits /\ model'.epoch = Len(losses')
    <3>1. Len(losses) + 1 \in 0..Epochs BY <2>2 DEF Typed
    <3>2. (loss = NaN) \in BOOLEAN OBVIOUS
    <3> DEFINE dead == loss = NaN
    <3>3. model' = [model EXCEPT !.epoch = Len(losses) + 1, !.nan = dead]
      BY <2>1, <2>5
    <3>4. dead \in BOOLEAN BY <3>2
    <3> HIDE DEF dead
    <3>5. /\ model' \in Network /\ model'.fit = model.fit
          /\ model'.epoch = Len(losses) + 1
      BY <2>5, <3>1, <3>3, <3>4 DEF Network
    <3> QED BY <2>3, <2>5, <3>5
  <2> QED BY <2>2, <2>3, <2>4, <2>6 DEF Typed
<1>4. CASE Finish
  <2>1. /\ losses' = <<>> /\ patience_counter' = 0 /\ fitting' = FALSE
        /\ UNCHANGED <<fits, feature_columns, scalers, torn, file>>
    BY <1>4 DEF Finish
  <2>2. model \in Network /\ model.fit = fits
    BY <1>4 DEF Finish, Typed
  <2>3. model' \in Network /\ model'.fit = fits
    <3>1. CASE best = <<>> BY <3>1, <2>2, <1>4 DEF Finish
    <3>2. CASE best # <<>>
      <4>1. model' = BestState BY <1>4, <3>2 DEF Finish
      <4>2. best[2] \in 0..Epochs BY <3>2 DEF Tracked, Typed
      <4> QED BY <4>1, <4>2, <2>2 DEF BestState, Network
    <3> QED BY <3>1, <3>2
  <2>4. losses' \in Seq(Losses \cup {NaN}) /\ Len(losses') <= Epochs
    BY <2>1
  <2>5. model'.fit <= fits'
    BY <2>1, <2>3 DEF Typed
  <2>6. Prepared(feature_columns, scalers, torn)'
    BY <2>1 DEF Typed, Prepared
  <2>7. file'.saved => /\ file'.model \in Network /\ file'.model.fit <= fits'
                       /\ Prepared(file.feature_columns, file.scalers, file.torn)'
    BY <2>1 DEF Typed, Prepared
  <2>8. fits' \in 0..MaxFits /\ patience_counter' \in 0..Patience
    BY <2>1 DEF Typed
  <2>9. fitting' = FALSE BY <2>1
  <2> QED BY <2>3, <2>4, <2>5, <2>6, <2>7, <2>8, <2>9, Zenon DEF Typed
<1>5. CASE Save BY <1>5 DEF Save, Keep, Typed, training
<1>6. CASE Load BY <1>6 DEF Load, Typed, training, Idle
<1>7. CASE UNCHANGED vars BY <1>7, Untouched DEF Typed, training
<1> QED BY <1>1, <1>2, <1>3, <1>4, <1>5, <1>6, <1>7 DEF Next

(* A returned fit's weights are those of the earliest of its best epochs.   *)
LEMMA LossStep == ASSUME LossInv, [Next]_vars PROVE Dated' /\ BestIsRestored'
<1> USE DEF LossInv
<1>1. CASE \E df \in Frames : Predict(df) \/ Assess(df)
  BY <1>1, Untouched DEF Dated, BestIsRestored
<1>2. ASSUME NEW df \in Frames, Fit(df) PROVE Dated' /\ BestIsRestored'
  <2>1. /\ fits' = fits + 1 /\ UNCHANGED training_history /\ fitting = FALSE
        /\ UNCHANGED <<model, fitting>> \/ fitting' = TRUE
    BY <1>2 DEF Fit, Idle, Typed
  <2> QED BY <2>1 DEF Dated, BestIsRestored, Typed
<1>3. CASE Epoch
  BY <1>3 DEF Epoch, Running, Dated, BestIsRestored
<1>4. CASE Finish
  <2>1. fitting /\ fitting' = FALSE /\ fits' = fits /\ model.fit = fits /\ model \in Network
    BY <1>4 DEF Finish, Typed
  <2>2. CASE best = <<>>
    <3>1. UNCHANGED <<model, training_history>> BY <1>4, <2>2 DEF Finish
    <3> QED BY <2>1, <3>1 DEF Dated, BestIsRestored
  <2>3. CASE best # <<>>
    <3>1. /\ model' = BestState
          /\ training_history' = [val_loss |-> losses, best_val_loss |-> best[1],
                                  fit |-> model.fit]
      BY <1>4, <2>3 DEF Finish
    <3>2. model'.epoch = best[2] /\ model'.nan = FALSE
      BY <2>1, <3>1 DEF BestState, Network
    <3>3. losses[best[2]] = best[1] /\ Earliest(losses, best[2])
      BY <2>3 DEF Tracked
    <3>4. Dated' BY <2>1, <3>1 DEF Dated, Typed
    <3>5. BestIsRestored'
      BY <3>1, <3>2, <3>3 DEF BestIsRestored, Earliest, Less
    <3> QED BY <3>4, <3>5
  <2> QED BY <2>2, <2>3
<1>5. CASE Save BY <1>5 DEF Save, Keep, Dated, BestIsRestored
<1>6. CASE Load BY <1>6 DEF Load, Dated, BestIsRestored
<1>7. CASE UNCHANGED vars BY <1>7, Untouched DEF Dated, BestIsRestored
<1> QED BY <1>1, <1>2, <1>3, <1>4, <1>5, <1>6, <1>7 DEF Next

(* Columns and scalers follow the network, in memory and in the file.       *)
LEMMA ScaleStep == ASSUME ScaleInv, [Next]_vars PROVE ScalersMatchModel' /\ FileCoherent'
<1> USE DEF ScaleInv
<1>1. CASE \E df \in Frames : Predict(df) \/ Assess(df)
  BY <1>1, Untouched DEF ScalersMatchModel, FileCoherent, Coherent
<1>2. ASSUME NEW df \in Frames, Fit(df) PROVE ScalersMatchModel' /\ FileCoherent'
  <2> DEFINE columns == SequenceFeatures \cap df.columns
  <2>1. CASE torn' = TRUE
    BY <1>2, <2>1 DEF Fit, ScalersMatchModel, FileCoherent, Coherent
  <2>2. CASE ~(Unscaled(df, columns) \/ NoTarget(df, columns) \/ Validation(df) = 0)
    <3>1. model' = [fit |-> fits', epoch |-> 0, inputs |-> columns, nan |-> ~df.clean]
      BY <1>2, <2>2, Zenon DEF Fit
    <3>2. /\ feature_columns' = columns /\ UNCHANGED file
          /\ scalers' = [c \in columns \cup DOMAIN scalers |->
                           IF c \in columns THEN fits' ELSE scalers[c]]
      BY <1>2, <2>2 DEF Fit
    <3> QED BY <3>1, <3>2 DEF ScaleInv, ScalersMatchModel, FileCoherent, Coherent
  <2>3. CASE Unscaled(df, columns) \/ NoTarget(df, columns) \/ Validation(df) = 0
    BY <1>2, <2>1, <2>3, Zenon DEF Fit
  <2> QED BY <2>2, <2>3
<1>3. CASE Epoch
  <2>1. model \in Network /\ fitting BY <1>3 DEF Epoch, Running, Typed
  <2>2. model'.inputs = model.inputs /\ model'.fit = model.fit
    BY <1>3, <2>1 DEF Epoch, Network
  <2>3. model # NoModel
    BY <2>1 DEF Network, NoModel
  <2> QED BY <1>3, <2>2, <2>3 DEF Epoch, ScalersMatchModel, FileCoherent, Coherent
<1>4. CASE Finish
  <2>1. model \in Network BY <1>4 DEF Finish, Typed
  <2>2. model # NoModel BY <2>1 DEF Network, NoModel
  <2>3. CASE best = <<>>
    BY <1>4, <2>3 DEF Finish, ScalersMatchModel, FileCoherent, Coherent
  <2>4. CASE best # <<>>
    <3>1. model'.inputs = model.inputs /\ model'.fit = model.fit
      BY <1>4, <2>1, <2>4 DEF Finish, BestState, Network
    <3> QED BY <1>4, <2>2, <2>4, <3>1
            DEF Finish, ScalersMatchModel, FileCoherent, Coherent
  <2> QED BY <2>3, <2>4
<1>5. CASE Save
  BY <1>5 DEF Save, Keep, ScalersMatchModel, FileCoherent, Coherent
<1>6. CASE Load
  BY <1>6 DEF Load, ScalersMatchModel, FileCoherent, Coherent
<1>7. CASE UNCHANGED vars
  BY <1>7, Untouched DEF ScalersMatchModel, FileCoherent, Coherent
<1> QED BY <1>1, <1>2, <1>3, <1>4, <1>5, <1>6, <1>7 DEF Next

-----------------------------------------------------------------------------
(* The state of a predictor and of its file is what its type says.          *)
THEOREM TrainingTypeCorrect == Spec => []TrainingTypeOK
<1>1. Typed /\ Tracked => TrainingTypeOK
  <2> SUFFICES ASSUME Typed, Tracked PROVE TrainingTypeOK OBVIOUS
  <2>1. ToSet(losses) \subseteq Losses \cup {NaN}
    BY DEF Typed, ToSet
  <2>2. model # NoModel => /\ model.fit \in 1..fits /\ model.epoch \in 0..Epochs
                           /\ model.inputs \subseteq SequenceFeatures
                           /\ model.nan \in BOOLEAN
    BY DEF Typed, Network
  <2> QED BY <2>1, <2>2 DEF TrainingTypeOK, Typed, Tracked, Prepared
<1>2. Init => Typed /\ Tracked BY InitTyped
<1>3. Typed /\ Tracked /\ [Next]_vars => (Typed /\ Tracked)'
  BY TypedStep, TrackedStep
<1> QED BY <1>1, <1>2, <1>3, PTL DEF Spec

(* fit ends with the weights of its best epoch and says so, for any losses. *)
THEOREM BestAlwaysRestored == Spec => []BestIsRestored
<1>1. Init => LossInv
  BY InitTyped DEF LossInv, Init, BestIsRestored
<1>2. LossInv /\ [Next]_vars => LossInv'
  BY TypedStep, TrackedStep, LossStep DEF LossInv
<1>3. LossInv => BestIsRestored BY DEF LossInv
<1> QED BY <1>1, <1>2, <1>3, PTL DEF Spec

(* predict, save and load never mix the network of one fit with the columns *)
(* or scalers of another, unless the last fit raised before its network.    *)
THEOREM ScalersAlwaysMatch == Spec => []ScalersMatchModel
<1>1. Init => ScaleInv
  BY InitTyped DEF ScaleInv, Init, ScalersMatchModel, FileCoherent, NoFile
<1>2. ScaleInv /\ [Next]_vars => ScaleInv'
  BY TypedStep, TrackedStep, ScaleStep DEF ScaleInv
<1>3. ScaleInv => ScalersMatchModel BY DEF ScaleInv
<1> QED BY <1>1, <1>2, <1>3, PTL DEF Spec

-----------------------------------------------------------------------------
(* patience_counter is the number of epochs since the best one.             *)
Counting == patience_counter = Len(losses) - (IF best = <<>> THEN 0 ELSE best[2])

StopInv == Typed /\ Tracked /\ Counting /\ StopsInTime

(* The best epoch so far is a record, and none after it is.                 *)
LEMMA BestIsRecord ==
    ASSUME Typed, Tracked, best # <<>>
    PROVE  /\ best[2] \in 1..Len(losses) /\ losses[best[2]] # NaN /\ Record(losses, best[2])
           /\ \A j \in (best[2] + 1)..Len(losses) : ~Record(losses, j)
<1>1. /\ best[2] \in 1..Len(losses) /\ losses[best[2]] \in Losses
      /\ DOMAIN losses = 1..Len(losses) /\ Len(losses) \in Nat
      /\ Earliest(losses, best[2])
  BY DEF Tracked, Typed
<1>2. losses[best[2]] # NaN
  BY <1>1, LstmAssumption DEF LstmAssumption
<1>3. Record(losses, best[2])
  BY <1>1 DEF Earliest, Record
<1>4. ASSUME NEW j \in (best[2] + 1)..Len(losses)
      PROVE  ~Record(losses, j)
  <2>1. j \in DOMAIN losses /\ best[2] \in 1..(j - 1)
    BY <1>1
  <2> QED
    BY <1>1, <2>1 DEF Earliest, Record
<1> QED
  BY <1>1, <1>2, <1>3, <1>4

(* An epoch that may still run is preceded by a record close enough.        *)
LEMMA StopEpoch == ASSUME StopInv, Epoch PROVE Counting' /\ StopsInTime'
<1> USE LstmAssumption DEF LstmAssumption, StopInv
<1>1. PICK loss \in Losses \cup {NaN} :
        /\ losses' = Append(losses, loss)
        /\ best' = IF Improves(loss) THEN <<loss, Len(losses) + 1>> ELSE best
        /\ patience_counter' = Counted(Improves(loss))
  BY DEF Epoch
<1>2. /\ Len(losses) \in Nat /\ patience_counter \in Nat /\ patience_counter < Patience
      /\ UNCHANGED training_history /\ Patience \in Nat
  BY DEF Epoch, Running, Typed
<1>3. /\ Len(losses') = Len(losses) + 1
      /\ \A j \in 1..Len(losses) : losses'[j] = losses[j]
  BY <1>1 DEF Typed
<1>4. Counting'
  <2>1. CASE Improves(loss)
    BY <1>1, <1>2, <1>3, <2>1 DEF Counted, Counting
  <2>2. CASE ~Improves(loss)
    <3>1. best # <<>> => best[2] \in Nat
      BY DEF Tracked
    <3>2. best' = best /\ patience_counter' = patience_counter + 1
      BY <1>1, <2>2 DEF Counted
    <3> QED
      BY <1>2, <1>3, <3>1, <3>2 DEF Counting
  <2> QED
    BY <2>1, <2>2
<1>5. \A j \in 1..Len(losses) : Record(losses', j) <=> Record(losses, j)
  <2> SUFFICES ASSUME NEW j \in 1..Len(losses) PROVE Record(losses', j) <=> Record(losses, j)
    OBVIOUS
  <2>1. \A i \in 1..(j - 1) : losses'[i] = losses[i]
    BY <1>2, <1>3
  <2> QED
    BY <1>3, <2>1 DEF Record
<1>6. ASSUME NEW k \in Patience..Len(losses)
      PROVE  \E j \in (k - Patience + 1)..k : Record(losses, j) /\ losses[j] # NaN
  <2>1. CASE k < Len(losses)
    <3>1. k \in Patience..(Len(losses) - 1)
      BY <1>2, <2>1
    <3> QED
      BY <3>1 DEF StopsInTime
  <2>2. CASE k = Len(losses)
    <3>1. best # <<>>
      BY <1>2, <2>2 DEF Counting
    <3>2. best[2] \in 1..Len(losses) /\ losses[best[2]] # NaN /\ Record(losses, best[2])
      BY <3>1, BestIsRecord
    <3>3. best[2] \in (k - Patience + 1)..k
      BY <1>2, <2>2, <3>1, <3>2 DEF Counting
    <3> QED
      BY <3>2, <3>3
  <2> QED
    BY <1>2, <2>1, <2>2
<1>7. ASSUME NEW k \in Patience..(Len(losses') - 1)
      PROVE  \E j \in (k - Patience + 1)..k : Record(losses', j) /\ losses'[j] # NaN
  <2>1. k \in Patience..Len(losses)
    BY <1>2, <1>3
  <2>2. PICK j \in (k - Patience + 1)..k : Record(losses, j) /\ losses[j] # NaN
    BY <1>6, <2>1
  <2>3. j \in 1..Len(losses)
    BY <1>2, <2>1
  <2> QED
    BY <1>3, <1>5, <2>2, <2>3
<1> QED
  BY <1>2, <1>4, <1>7 DEF StopsInTime

(* A fit that ends early does so "patience" epochs after its best one.      *)
LEMMA StopFinish == ASSUME StopInv, Finish PROVE Counting' /\ StopsInTime'
<1> USE LstmAssumption DEF LstmAssumption, StopInv
<1>1. losses' = <<>> /\ best' = <<>> /\ patience_counter' = 0 /\ Len(losses') = 0
  BY DEF Finish
<1>2. Counting'
  BY <1>1 DEF Counting
<1>3. \A k \in Patience..(Len(losses') - 1) : FALSE
  BY <1>1
<1>4. CASE best = <<>>
  BY <1>2, <1>3, <1>4 DEF Finish, StopsInTime
<1>5. CASE best # <<>>
  <2>1. training_history'.val_loss = losses
    BY <1>5 DEF Finish
  <2>2. ASSUME Len(losses) < Epochs
        PROVE  /\ Len(losses) >= Patience
               /\ \A j \in (Len(losses) - Patience + 1)..Len(losses) : ~Record(losses, j)
    <3>1. patience_counter = Patience /\ Len(losses) \in Nat /\ Patience \in Nat
      BY <2>2 DEF Finish, Running, Typed
    <3>2. /\ best[2] \in 1..Len(losses)
          /\ \A j \in (best[2] + 1)..Len(losses) : ~Record(losses, j)
      BY <1>5, BestIsRecord
    <3>3. best[2] = Len(losses) - Patience
      BY <1>5, <3>1, <3>2 DEF Counting
    <3> QED
      BY <3>1, <3>2, <3>3
  <2> QED
    BY <1>2, <1>3, <2>1, <2>2 DEF StopsInTime
<1> QED
  BY <1>4, <1>5

LEMMA StopStep == ASSUME StopInv, [Next]_vars PROVE StopInv'
<1>1. Typed' /\ Tracked'
  BY TypedStep, TrackedStep DEF StopInv
<1>2. CASE UNCHANGED <<losses, best, patience_counter, training_history>>
  BY <1>1, <1>2 DEF StopInv, Counting, StopsInTime, Record
<1>3. ASSUME UNCHANGED <<losses, best, patience_counter>>, training_history' = <<>>
      PROVE  StopInv'
  BY <1>1, <1>3 DEF StopInv, Counting, StopsInTime, Record
<1>4. ASSUME NEW df \in Frames, Fit(df) PROVE StopInv'
  <2>1. CASE losses' = <<>> /\ best' = <<>> /\ patience_counter' = 0
    <3>1. Len(losses') = 0 /\ UNCHANGED training_history
      BY <1>4, <2>1 DEF Fit
    <3>2. \A k \in Patience..(Len(losses') - 1) : FALSE
      BY <3>1, LstmAssumption DEF LstmAssumption
    <3> QED
      BY <1>1, <2>1, <3>1, <3>2 DEF StopInv, Counting, StopsInTime
  <2> QED
    BY <1>2, <1>4, <2>1 DEF Fit, training
<1>5. CASE \E df \in Frames : Predict(df) \/ Assess(df)
  BY <1>2, <1>5, Untouched DEF training
<1>6. CASE Save
  BY <1>2, <1>6 DEF Save, Keep, training
<1>7. CASE Load
  BY <1>2, <1>3, <1>7 DEF Load, training
<1>8. CASE UNCHANGED vars
  BY <1>2, <1>8 DEF vars, training
<1>9. CASE Epoch \/ Finish
  BY <1>1, <1>9, StopEpoch, StopFinish DEF StopInv
<1> QED
  BY <1>4, <1>5, <1>6, <1>7, <1>8, <1>9 DEF Next

(* No fit trains on when it has gone "patience" epochs without a new best   *)
(* loss, and none stops sooner, for any losses, NaN among them.             *)
THEOREM AlwaysStopsInTime == Spec => []StopsInTime
<1>1. Init => StopInv
  <2> SUFFICES ASSUME Init PROVE StopInv
    OBVIOUS
  <2>1. Typed /\ Tracked
    BY InitTyped
  <2>2. losses = <<>> /\ best = <<>> /\ patience_counter = 0 /\ training_history = <<>>
    BY DEF Init
  <2>3. \A k \in Patience..(Len(losses) - 1) : FALSE
    BY <2>2, LstmAssumption DEF LstmAssumption
  <2> QED
    BY <2>1, <2>2, <2>3 DEF StopInv, Counting, StopsInTime
<1>2. StopInv /\ [Next]_vars => StopInv'
  BY StopStep
<1>3. StopInv => StopsInTime
  BY DEF StopInv
<1> QED
  BY <1>1, <1>2, <1>3, PTL DEF Spec
=============================================================================
