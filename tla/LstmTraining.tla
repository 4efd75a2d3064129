----------------------------- MODULE LstmTraining -----------------------------
(***************************************************************************)
(* The LSTM predictor as a script uses it: fit with its epochs, early      *)
(* stopping and restoring of the best weights, predict, evaluate, save and *)
(* load.  A call that raises leaves behind what it did until then, and the *)
(* script goes on.                                                         *)
(*                                                                         *)
(* Weights are named by the fit and the epoch they come from, a scaler by  *)
(* the fit that computed it.  Of a data frame it matters how long its      *)
(* assets' series are, which columns it has and whether some value is NaN. *)
(***************************************************************************)
EXTENDS Naturals, SequencesExt

CONSTANTS SequenceLength, SplitOf,  \* validation_split is 1 / SplitOf
          Epochs, Patience,
          Losses, NaN,         \* values of val_loss: less is better
          Frames,    \* records [lengths, columns, clean]
          MaxFits    \* bounds the calls of fit

ASSUME FrameAssumption == \A df \in Frames : df.lengths \in Seq(Nat \ {0})

ASSUME LstmAssumption == /\ Patience \in Nat \ {0} /\ Epochs \in Nat \ {0}
                         /\ Losses \subseteq Nat /\ NaN \notin Losses
                         /\ SplitOf \in Nat \ {0, 1} /\ MaxFits \in Nat

VARIABLES fits,      \* counts the calls of fit
          model,     \* NoModel or [fit, epoch, inputs]
          feature_columns, scalers,
          losses, best,        \* of the fit that runs: val_losses and <<>> or
          patience_counter,    \* <<best_val_loss, epoch of best_state>>
          training_history,    \* empty or [val_loss, best_val_loss, fit]
          fitting,   \* a fit runs
          torn,      \* the last fit raised before it had made its network
          file,      \* NoFile or what save wrote
          answer     \* of the last call

training == <<losses, best, patience_counter>>
vars == <<fits, model, feature_columns, scalers, training, training_history,
          fitting, torn, file, answer>>

NoModel == [fit |-> 0]
NoFile == [saved |-> FALSE]
SequenceFeatures == {"target", "volume"}

Init == /\ fits = 0 /\ model = NoModel /\ feature_columns = {} /\ scalers = <<>>
        /\ losses = <<>> /\ best = <<>> /\ patience_counter = 0
        /\ training_history = <<>> /\ fitting = FALSE /\ torn = FALSE
        /\ file = NoFile /\ answer = "none"

-----------------------------------------------------------------------------
(* len(X) of _prepare_sequences, which looks up target_norm for each.       *)
Sequences(df) ==
    FoldLeft(LAMBDA sum, n : sum + (IF n > SequenceLength THEN n - SequenceLength ELSE 0),
             0, df.lengths)

NoTarget(df, columns) == Sequences(df) > 0 /\ "target" \notin columns

(* n_val, 0 of which makes X[:-n_val] empty and its loader raise.           *)
Validation(df) == Sequences(df) \div SplitOf

Idle == ~fitting
Fails == answer' = "raised"

(* values.min() of the first column raises on a frame without rows.         *)
Unscaled(df, columns) == df.lengths = <<>> /\ columns # {}

(* fit until the first epoch: the columns are replaced first, then their    *)
(* scalers, and the network last, unless the fit raises in between.         *)
Fit(df) ==
    LET columns == SequenceFeatures \cap df.columns
        raises == Unscaled(df, columns) \/ NoTarget(df, columns) \/ Validation(df) = 0
    IN /\ Idle /\ fits < MaxFits /\ fits' = fits + 1
       /\ feature_columns' = columns
       /\ scalers' = IF Unscaled(df, columns) THEN scalers
                     ELSE [c \in columns \cup DOMAIN scalers |->
                             IF c \in columns THEN fits' ELSE scalers[c]]
       /\ torn' = raises
       /\ \/ raises /\ Fails /\ UNCHANGED <<model, training, fitting>>
          \/ /\ ~raises
             /\ model' = [fit |-> fits', epoch |-> 0, inputs |-> columns, nan |-> ~df.clean]
             /\ losses' = <<>> /\ best' = <<>> /\ patience_counter' = 0
             /\ fitting' = TRUE
             /\ UNCHANGED answer
       /\ UNCHANGED <<training_history, file>>

-----------------------------------------------------------------------------
(* Wrong versions of definitions below, used only to confirm that each      *)
(* property can tell the predictor from one with a plausible bug.           *)

(* The last of equally good epochs is kept.                                 *)
NoWorse(loss) == loss # NaN /\ (best = <<>> \/ loss <= best[1])

(* patience_counter counts every bad epoch, not those in a row.             *)
CountAll(improves) == IF improves THEN patience_counter ELSE patience_counter + 1

(* Early stopping that counts but does not stop.                            *)
RunOn == fitting /\ Len(losses) < Epochs

(* The network is kept as the last epoch left it.                           *)
LastState == model

(* Only the weights are loaded, into a predictor that was fitted elsewhere. *)
LoadWeights == /\ Idle /\ file.saved
               /\ model' = file.model /\ torn' = file.torn /\ answer' = "loaded"
               /\ UNCHANGED <<fits, feature_columns, scalers, training_history, training,
                              fitting, file>>

-----------------------------------------------------------------------------
(* val_loss < best_val_loss, which is inf at first; NaN is less than none.  *)
Improves(loss) == loss # NaN /\ (best = <<>> \/ loss < best[1])

Counted(improves) == IF improves THEN 0 ELSE patience_counter + 1

Running == fitting /\ Len(losses) < Epochs /\ patience_counter < Patience

(* One epoch; the weights, once NaN, stay so, and with them the losses.     *)
Epoch ==
    /\ Running
    /\ \E loss \in IF model.nan THEN {NaN} ELSE Losses \cup {NaN} :
         /\ model' = [model EXCEPT !.epoch = @ + 1, !.nan = loss = NaN]
         /\ losses' = Append(losses, loss)
         /\ best' = IF Improves(loss) THEN <<loss, Len(losses) + 1>> ELSE best
         /\ patience_counter' = Counted(Improves(loss))
    /\ UNCHANGED <<fits, feature_columns, scalers, training_history, fitting, torn,
                   file, answer>>

BestState == [model EXCEPT !.epoch = best[2], !.nan = FALSE]

(* load_state_dict(best_state), a variable no epoch may have assigned; the  *)
(* network of the failed fit stays in place.                                *)
Finish ==
    /\ fitting /\ ~Running /\ fitting' = FALSE
    /\ \/ /\ best = <<>> /\ Fails /\ UNCHANGED <<model, training_history>>
       \/ /\ best # <<>> /\ model' = BestState /\ answer' = "fitted"
          /\ training_history' = [val_loss |-> losses, best_val_loss |-> best[1],
                                  fit |-> model.fit]
    /\ losses' = <<>> /\ best' = <<>> /\ patience_counter' = 0
    /\ UNCHANGED <<fits, feature_columns, scalers, torn, file>>

-----------------------------------------------------------------------------
(* predict: a frame without long series has no predictions, and columns     *)
(* that a later fit set may have no scaler or not fit the network.          *)
Unprepared(df) == \/ ~(feature_columns \subseteq df.columns \cap DOMAIN scalers)
                  \/ NoTarget(df, feature_columns)

Mismatched == Cardinality(feature_columns) # Cardinality(model.inputs)

Keep == UNCHANGED <<fits, model, feature_columns, scalers, training, training_history,
                    fitting, torn>>

Predict(df) ==
    /\ Idle /\ Keep /\ UNCHANGED file
    /\ \/ (model = NoModel \/ Unprepared(df)) /\ Fails
       \/ /\ model # NoModel /\ ~Unprepared(df)
          /\ \/ Sequences(df) = 0 /\ answer' = "nothing"
             \/ Sequences(df) > 0 /\ Mismatched /\ Fails
             \/ Sequences(df) > 0 /\ ~Mismatched /\ answer' = "predictions"

(* evaluate does not ask first whether there is a model.                    *)
Assess(df) ==
    /\ Idle /\ Keep /\ UNCHANGED file
    /\ \/ Unprepared(df) /\ Fails
       \/ ~Unprepared(df) /\ Sequences(df) = 0 /\ answer' = "infinite"
       \/ /\ ~Unprepared(df) /\ Sequences(df) > 0
          /\ \/ model = NoModel /\ Fails
             \/ model # NoModel /\ Mismatched /\ Fails
             \/ model # NoModel /\ ~Mismatched /\ answer' = "metrics"

Save ==
    /\ Idle /\ Keep
    /\ \/ model = NoModel /\ Fails /\ UNCHANGED file
       \/ /\ model # NoModel /\ answer' = "saved"
          /\ file' = [saved |-> TRUE, model |-> model, feature_columns |-> feature_columns,
                      scalers |-> scalers, torn |-> torn]

(* A new predictor, sized by the columns of the file.                       *)
Load ==
    /\ Idle /\ file.saved
    /\ \/ /\ Cardinality(file.feature_columns) # Cardinality(file.model.inputs)
          /\ Fails /\ UNCHANGED <<model, feature_columns, scalers, training_history, torn>>
       \/ /\ Cardinality(file.feature_columns) = Cardinality(file.model.inputs)
          /\ model' = file.model /\ feature_columns' = file.feature_columns
          /\ scalers' = file.scalers /\ training_history' = <<>>
          /\ torn' = file.torn /\ answer' = "loaded"
    /\ UNCHANGED <<fits, training, fitting, file>>

Next == \/ \E df \in Frames : Fit(df) \/ Predict(df) \/ Assess(df)
        \/ Epoch \/ Finish \/ Save \/ Load

Spec == Init /\ [][Next]_vars

-----------------------------------------------------------------------------
(* What a fit works on, keeps and reports is what its epochs produced.      *)
TrainingTypeOK ==
    /\ fits \in 0..MaxFits
    /\ model # NoModel =>
         /\ model.fit \in 1..fits /\ model.epoch \in 0..Epochs
         /\ model.inputs \subseteq SequenceFeatures /\ model.nan \in BOOLEAN
    /\ feature_columns \cup DOMAIN scalers \subseteq SequenceFeatures
    /\ ~torn => feature_columns \subseteq DOMAIN scalers
    /\ ToSet(losses) \subseteq Losses \cup {NaN} /\ Len(losses) <= Epochs
    /\ best # <<>> => best[1] = losses[best[2]]
    /\ patience_counter \in 0..Patience
    /\ fitting => ~torn /\ model.fit = fits /\ model.epoch = Len(losses)

Less(x, y) == x # NaN /\ (y = NaN \/ x < y)

(* load_state_dict(best_state): a fit that returns leaves the weights of    *)
(* the earliest of its best epochs and reports that epoch's loss, however   *)
(* the losses went and whether or not they became NaN.                      *)
BestIsRestored ==
    training_history # <<>> /\ ~fitting /\ model.fit = training_history.fit =>
      LET loss == training_history.val_loss
      IN /\ loss[model.epoch] = training_history.best_val_loss
         /\ ~model.nan
         /\ \A k \in DOMAIN loss : /\ ~Less(loss[k], loss[model.epoch])
                                   /\ k < model.epoch => Less(loss[model.epoch], loss[k])

Record(loss, k) == \A j \in 1..(k - 1) : Less(loss[k], loss[j])

(* Early stopping: no epoch follows "patience" epochs without a new best    *)
(* loss, and a fit does not stop before that or its last epoch.             *)
StopsInTime ==
    /\ \A k \in Patience..(Len(losses) - 1) :
         \E j \in (k - Patience + 1)..k : Record(losses, j) /\ losses[j] # NaN
    /\ training_history # <<>> =>
         LET loss == training_history.val_loss
             n == Len(loss)
         IN n < Epochs => /\ n >= Patience
                          /\ \A j \in (n - Patience + 1)..n : ~Record(loss, j)

(* Predictions are scaled as the network was trained: columns and scalers   *)
(* are those of the model's fit, in memory and after save and load, unless  *)
(* the last fit raised before it had a network of its own; a fit that gets  *)
(* further sets right what such a one left behind.                          *)
ScalersMatchModel ==
  model # NoModel /\ ~torn =>
      /\ feature_columns = model.inputs
      /\ \A c \in feature_columns : c \in DOMAIN scalers /\ scalers[c] = model.fit

(* raise ValueError("Model not fitted.") (models/lstm_model.py:265):        *)
(* predict answers only for a predictor some fit has returned from.         *)
PredictOnlyIfFitted ==
    answer = "predictions" => training_history # <<>> \/ file.saved
=============================================================================
