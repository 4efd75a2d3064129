------------------------------- MODULE Features -------------------------------
(***************************************************************************)
(* The feature engine: columns computed from a series, one entry per point *)
(* and none where the past is too short.  An Option is a set of at most    *)
(* one value.  Numbers are integers; a division, a root or a logarithm is  *)
(* kept as what it is taken of, so equal entries mean equal results and    *)
(* rounding is left out.                                                   *)
(***************************************************************************)
EXTENDS Integers, SequencesExt

CONSTANT MaxUsize   \* what 0 - 1 wraps to in a build without overflow checks

None == {}
Some(x) == {x}

Total(s) == SumFunction(s)

(* self.window_size - 1.                                                    *)
Predecessor(w) == IF w = 0 THEN MaxUsize ELSE w - 1

(* A build with overflow checks panics on it, at the first point.           *)
Overflows(v, w) == w = 0 /\ v # <<>>

-----------------------------------------------------------------------------
(* Wrong versions of the columns below, used only to confirm that the       *)
(* properties of Pipeline can tell the engine from one with a plausible bug.*)

(* rolling_min that starts one point late.                                  *)
RollingMinLate(v, w) == [i \in DOMAIN v |->
    IF i - 1 <= Predecessor(w) THEN None ELSE Some(Min(ToSet(SubSeq(v, i - w + 1, i))))]

-----------------------------------------------------------------------------
(* The windows ending at each point, through a statistic.                   *)
Rolling(Statistic(_), v, w) == [i \in DOMAIN v |->
    IF i - 1 < Predecessor(w) THEN None ELSE Some(Statistic(SubSeq(v, i - w + 1, i)))]

(* w times the mean, and w^2 times the variance.                            *)
Spread(s) == Len(s) * Total([i \in DOMAIN s |-> s[i] * s[i]]) - Total(s) * Total(s)

RollingMean(v, w) == Rolling(Total, v, w)
RollingStd(v, w) == Rolling(Spread, v, w)
RollingMin(v, w) == Rolling(LAMBDA s : Min(ToSet(s)), v, w)
RollingMax(v, w) == Rolling(LAMBDA s : Max(ToSet(s)), v, w)

Lag(v, n) == [i \in DOMAIN v |-> IF i - 1 < n THEN None ELSE Some(v[i - n])]
LagFeatures(v, lags) == [k \in DOMAIN lags |-> Lag(v, lags[k])]

(* (current - previous) / previous, if previous is not zero.                *)
GrowthRate(v, n) == [i \in DOMAIN v |->
    IF i - 1 < n \/ v[i - n] = 0 THEN None ELSE Some(<<v[i] - v[i - n], v[i - n]>>)]

Momentum(v, n) == [i \in DOMAIN v |-> IF i - 1 < n THEN None ELSE Some(v[i] - v[i - n])]

(* The log of each price over the one before, 0 after a price of zero.      *)
LogReturns(v) == [i \in 1..(Len(v) - 1) |->
                    IF v[i] # 0 THEN <<v[i + 1], v[i]>> ELSE <<1, 1>>]

(* Wrong version of RealisedVolatility: returns filed under the earlier of  *)
(* their two prices.                                                        *)
VolatilityEarly(v, w) ==
    IF Len(v) < 2 THEN [i \in DOMAIN v |-> None]
    ELSE Rolling(LAMBDA s : s, LogReturns(v), w) \o <<None>>

(* The windows of log returns whose deviation it is; a return belongs to    *)
(* the later of its two prices.                                             *)
RealisedVolatility(v, w) ==
    IF Len(v) < 2 THEN [i \in DOMAIN v |-> None]
    ELSE <<None>> \o Rolling(LAMBDA s : s, LogReturns(v), w)

-----------------------------------------------------------------------------
(* The engine of AppState.                                                  *)
DefaultWindow == 3
DefaultLags == <<1, 2, 3>>

(* A value computed from two options, empty unless both are there.           *)
Both(x, y) == x \X y

(* One row per point of a history [timestamp, price, volume]; liquidity is  *)
(* zero and the DeFi columns are empty in what fetch_price_history returns. *)
GenerateFeatures(history) ==
    LET prices == [i \in DOMAIN history |-> history[i].price]
        volumes == [i \in DOMAIN history |-> history[i].volume]
        means == RollingMean(prices, DefaultWindow)
        stds == RollingStd(prices, DefaultWindow)
        lags == LagFeatures(prices, DefaultLags)
        vol == RealisedVolatility(prices, DefaultWindow)
        momentum3 == Momentum(prices, 3)
        liquidity == GrowthRate([i \in DOMAIN history |-> 0], 1)
    IN [i \in DOMAIN history |->
         [timestamp |-> history[i].timestamp,
          target |-> IF i < Len(history) THEN Some(prices[i + 1]) ELSE None,
          price |-> prices[i],
          lag |-> [k \in DOMAIN lags |-> lags[k][i]],
          mean |-> means[i], std |-> stds[i],
          momentum_1 |-> Momentum(prices, 1)[i], momentum_3 |-> momentum3[i],
          rate_of_change_1 |-> GrowthRate(prices, 1)[i],
          rate_of_change_3 |-> GrowthRate(prices, 3)[i],
          volatility |-> vol[i], volatility_ratio |-> Both(vol[i], stds[i]),
          volume |-> volumes[i], volume_mean |-> RollingMean(volumes, DefaultWindow)[i],
          liquidity_change |-> liquidity[i],
          regime |-> <<vol[i], momentum3[i], stds[i]>>]]
=============================================================================
