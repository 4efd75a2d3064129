----------------------------- MODULE FeatureTable -----------------------------
(***************************************************************************)
(* The feature table of the XGBoost predictor: columns of a data frame     *)
(* computed per asset in the order of time.  A column is kept as the       *)
(* targets it is computed from; a missing one (NaN) is empty.              *)
(***************************************************************************)
EXTENDS Integers, SequencesExt

CONSTANTS LagPeriods,    \* of the configuration
          RollingWindow

(* sort_values by asset and time, which keeps the order of equal rows: the  *)
(* rows before row i in its asset.                                          *)
Precedes(df, j, i) ==
    /\ df[j].asset_id = df[i].asset_id
    /\ \/ df[j].timestamp < df[i].timestamp
       \/ df[j].timestamp = df[i].timestamp /\ j < i

Earlier(df, i) == {j \in DOMAIN df : Precedes(df, j, i)}

(* The targets of those rows, by how many rows back they are.               *)
Back(df, j, i) == Cardinality({k \in Earlier(df, i) : k = j \/ Precedes(df, j, k)})

History(df, i) == {[back |-> Back(df, j, i), target |-> df[j].target] : j \in Earlier(df, i)}

(* shift(n) within the asset.                                               *)
Shifted(df, i, n) == {x.target : x \in {x \in History(df, i) : x.back = n}}

(* Wrong version of Rolled: rolling without shift(1).                       *)
RolledUnshifted(df, i, min_periods) ==
    LET rows == [j \in Earlier(df, i) \cup {i} |-> IF j = i THEN 1 ELSE Back(df, j, i) + 1]
    IN IF Cardinality(DOMAIN rows) < min_periods THEN {}
       ELSE {[back |-> rows[j], target |-> df[j].target] :
               j \in {j \in DOMAIN rows : rows[j] <= RollingWindow}}

(* rolling(w, min_periods), then shift(1): the window ends a row earlier.   *)
Rolled(df, i, min_periods) ==
    IF Cardinality(Earlier(df, i)) < min_periods THEN {}
    ELSE {x \in History(df, i) : x.back <= RollingWindow}

(* The columns from earlier rows: lags; rolling mean, min and max, which    *)
(* need one value, and deviation, which needs two.                          *)
PastColumns(df, i) == [lag |-> [n \in LagPeriods |-> Shifted(df, i, n)],
                       mean_min_max |-> Rolled(df, i, 1),
                       std |-> Rolled(df, i, 2)]

(* diff and pct_change, which take in the row's own target.                 *)
GrowthColumns(df, i) ==
    [n \in {1, 3} |-> {<<df[i].target, x>> : x \in Shifted(df, i, n)}]

(* Every numeric column but the asset, the time and the target is a feature.*)
PrepareFeatures(df) == [i \in DOMAIN df |-> [past |-> PastColumns(df, i),
                                             growth |-> GrowthColumns(df, i)]]
=============================================================================
