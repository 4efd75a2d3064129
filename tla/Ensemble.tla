------------------------------- MODULE Ensemble -------------------------------
(***************************************************************************)
(* The ensemble of the two models: weighted predictions, grid search for   *)
(* the weights, and the metrics.  Weights are in units of the grid's step, *)
(* so everything is an integer: predictions and errors are GridResolution  *)
(* times, squares its square times, what the code computes.                *)
(***************************************************************************)
EXTENDS Integers, SequencesExt

CONSTANT GridResolution

ASSUME GridAssumption == GridResolution \in Nat \ {0} /\ GridResolution % 2 = 0

(* Predictions of the models are records [xgboost, lstm], as are weights.   *)
Uniform == [xgboost |-> GridResolution \div 2, lstm |-> GridResolution \div 2]
OnGrid(i) == [xgboost |-> i, lstm |-> GridResolution - i]

Predict(weights, p) == weights.xgboost * p.xgboost + weights.lstm * p.lstm

Square(x) == x * x

SumOver(s, f(_)) == SumFunction([i \in DOMAIN s |-> f(s[i])])

(* iter().zip(): up to the shorter.                                         *)
Zip2(s, t) == [i \in 1..(IF Len(s) < Len(t) THEN Len(s) ELSE Len(t)) |-> <<s[i], t[i]>>]

ComputeMse(predictions, actual, weights) ==
    SumOver(Zip2(predictions, actual),
            LAMBDA z : Square(Predict(weights, z[1]) - GridResolution * z[2]))

(* Wrong version of GridPoints, to confirm that OptimumIsBest can fail.     *)
HalfOpenGrid == 0..(GridResolution - 1)

GridPoints == 0..GridResolution

(* min_by over a parallel iterator: any of the points of least loss.        *)
GridSearch(predictions, actual) ==
    LET loss(i) == ComputeMse(predictions, actual, OnGrid(i))
    IN {OnGrid(i) : i \in {i \in GridPoints : \A j \in GridPoints : loss(i) <= loss(j)}}

-----------------------------------------------------------------------------
AbsDiff(z) == IF z[1] < z[2] THEN z[2] - z[1] ELSE z[1] - z[2]

(* f64::signum takes 0.0 for positive.                                      *)
Signum(x) == IF x >= 0 THEN 1 ELSE -1

(* Wrong version of SameDirection, to confirm that MetricsAgree can fail.   *)
BothMove(p, a, i) == (p[i + 1] - p[i]) * (a[i + 1] - a[i]) > 0

SameDirection(p, a, i) == Signum(p[i + 1] - p[i]) = Signum(a[i + 1] - a[i])

(* n times the sum of the squared distances from the mean.                  *)
Variation(a) == Len(a) * SumOver(a, Square) - Square(SumOver(a, LAMBDA x : x))

(* EvaluationMetrics of n pairs: sums (n times mae and mse), r_squared as a *)
(* fraction, the terms of mape, which leaves out the actual values that are *)
(* zero, and how many of the n - 1 moves agree.                             *)
Metrics(p, a) ==
    LET pairs == Zip2(p, a)
        squares == SumOver(pairs, LAMBDA z : Square(z[1] - z[2]))
    IN [abs |-> SumOver(pairs, AbsDiff), squares |-> squares,
        r_squared |-> IF Variation(a) > 0
                      THEN <<Variation(a) - Len(a) * squares, Variation(a)>> ELSE <<0, 1>>,
        mape |-> [i \in DOMAIN pairs |->
                    IF pairs[i][2] = 0 THEN {} ELSE {<<AbsDiff(pairs[i]), pairs[i][2]>>}],
        correct |-> Cardinality({i \in 1..(Len(p) - 1) : SameDirection(p, a, i)}),
        sample_count |-> Len(p)]

(* EnsembleOptimiser::evaluate.                                             *)
Evaluate(predictions, actual, weights) ==
    Metrics([i \in DOMAIN predictions |-> Predict(weights, predictions[i])],
            [i \in DOMAIN actual |-> GridResolution * actual[i]])
=============================================================================
