-------------------------- MODULE SettlementProofs --------------------------
(***************************************************************************)
(* Theorems about what settle_market pays: the rewards of a market add up  *)
(* to its pool but for the rounding of each, every owner receives its own  *)
(* in full, the closer of two predictions earns no less, and the runtime's *)
(* money is escrowed as Escrow.tla says.                                   *)
(***************************************************************************)
EXTENDS MoneyProofs

(* Arithmetic of shares.                                                   *)
LEMMA QuotientBounds ==
    ASSUME NEW n \in Nat, NEW d \in Nat \ {0}
    PROVE  /\ n \div d \in Nat
           /\ d * (n \div d) <= n
           /\ n < d * ((n \div d) + 1)
OBVIOUS

LEMMA CancelFactor ==
    ASSUME NEW d \in Nat \ {0}, NEW m \in Int, NEW n \in Int
    PROVE  /\ d * m <= d * n => m <= n
           /\ d * m < d * n => m < n
OBVIOUS

LEMMA FactorMonotone ==
    ASSUME NEW d \in Nat, NEW m \in Nat, NEW n \in Nat, m <= n
    PROVE  d * m <= d * n /\ m * d <= n * d
OBVIOUS

(* What a settlement mints: the rewards of all of its entrants.            *)
Minted(k) == SumFunctionOnSet(Rewards(k), Entrants(k))

(* Every entrant staked at least one unit, so there are no more of them    *)
(* than units in the pool.                                                 *)
LEMMA EntrantsWithinPool ==
    ASSUME MoneyInv, NEW k \in DOMAIN Markets
    PROVE  /\ Cardinality(Entrants(k)) \in Nat
           /\ Cardinality(Entrants(k)) <= Markets[k].total_stake
           /\ Markets[k].total_stake \in Nat
<1> DEFINE S == Entrants(k)
           V == StakesOn(k)
           h == [m \in S |-> <<k, m>>]
           ones == [s \in V |-> 1]
           f == [s \in V |-> Stakes[s].stake_amount]
<1>1. MarketTypeOK /\ BooksBalance
  BY DEF MoneyInv, Inv
<1>2. V \in SUBSET DOMAIN Stakes /\ IsFiniteSet(V) /\ IsFiniteSet(S)
  BY <1>1, StakesAreFinite, EntrantsAreFinite DEF StakesOn
<1>3. h \in Injection(S, V)
  <2>1. h \in [S -> V]
    BY DEF Entrants, StakesOn
  <2>2. \A m, n \in S : h[m] = h[n] => m = n
    OBVIOUS
  <2> QED
    BY <2>1, <2>2 DEF Injection, IsInjective
<1>4. Cardinality(S) <= Cardinality(V) /\ Cardinality(S) \in Nat /\ Cardinality(V) \in Nat
  <2> HIDE DEF S, V, h
  <2> QED
    BY <1>2, <1>3, FS_Injection, FS_CardinalityType
<1>5. \A s \in V : /\ ones[s] = 1 /\ f[s] = Stakes[s].stake_amount
                   /\ ones[s] \in Int /\ f[s] \in Int /\ ones[s] <= f[s]
  BY <1>1, <1>2, StakeAmountsAreNat
<1> HIDE DEF ones, f, V, S, h
<1>6. SumFunctionOnSet(ones, V) <= SumFunctionOnSet(f, V)
  BY <1>2, <1>5, SumMonotone
<1>7. SumFunctionOnSet(ones, V) = Cardinality(V)
  BY <1>2, <1>5, SumOfOnes
<1>8. Amounts(Stakes, V) = SumFunctionOnSet(f, V)
  BY <1>2, <1>5, AmountsAreSums
<1>9. Markets[k].total_stake = Amounts(Stakes, V)
  BY <1>1, SumStakesIsAmounts DEF BooksBalance, V
<1>10. Markets[k].total_stake \in Nat
  BY <1>1, MarketRecords DEF MarketRound
<1> QED
  BY <1>4, <1>6, <1>7, <1>8, <1>9, <1>10 DEF S

(* What a settleable market's scores and rewards are.                      *)
LEMMA ShareFacts ==
    ASSUME MoneyInv, NEW k \in DOMAIN Markets,
           Markets[k].prediction_id \in DOMAIN GroundTruths
    PROVE  /\ IsFiniteSet(Entrants(k))
           /\ Minted(k) \in Nat /\ ScoreSum(k) \in Nat
           /\ \A m \in Entrants(k) :
                /\ Scores(k)[m] = Score(k, m) /\ Rewards(k)[m] = Reward(k, m)
                /\ Score(k, m) \in Nat /\ Score(k, m) <= MaxBrier
                /\ Reward(k, m) \in Nat /\ Score(k, m) <= ScoreSum(k)
<1>1. MarketTypeOK /\ VerificationTypeOK
  BY DEF MoneyInv, Inv
<1>2. IsFiniteSet(Entrants(k))
  BY EntrantsAreFinite
<1>3. ScoreSum(k) \in Nat
  BY <1>1, TotalScoreType
<1>4. \A m \in Entrants(k) :
        /\ Scores(k)[m] = Score(k, m) /\ Rewards(k)[m] = Reward(k, m)
        /\ Score(k, m) \in Nat /\ Score(k, m) <= MaxBrier
        /\ Reward(k, m) \in Nat /\ Score(k, m) <= ScoreSum(k)
  BY <1>1, ScoreType, RewardType, TotalScoreType, MarketAssumption
     DEF MarketAssumption, Scores, Rewards
<1>5. Minted(k) \in Nat
  BY <1>2, <1>4, SumNat DEF Minted
<1> QED
  BY <1>2, <1>3, <1>4, <1>5

(* The floors of the shares add up to no more than what is shared, and when *)
(* the saturating sum or product cut a share, to one unit per entrant.     *)
LEMMA RewardsWithinPool ==
    ASSUME MoneyInv, NEW k \in DOMAIN Markets,
           Markets[k].prediction_id \in DOMAIN GroundTruths
    PROVE  Minted(k) <= Markets[k].total_stake
<1> DEFINE S == Entrants(k)
           p == Markets[k].total_stake
           W == ScoreSum(k)
<1>0. MarketTypeOK /\ VerificationTypeOK /\ MaxU128 \in Nat \ {0}
  BY MarketAssumption DEF MarketAssumption, MoneyInv, Inv
<1>1. /\ IsFiniteSet(S) /\ W \in Nat /\ p \in Nat
      /\ \A m \in S : /\ Scores(k)[m] = Score(k, m) /\ Rewards(k)[m] = Reward(k, m)
                      /\ Score(k, m) \in Nat /\ Reward(k, m) \in Nat /\ Score(k, m) <= W
  BY ShareFacts, EntrantsWithinPool
<1>2. Minted(k) \in Nat /\ Minted(k) = SumFunctionOnSet(Rewards(k), S)
  BY ShareFacts DEF Minted
<1>3. TotalScore(k) = SaturateU128(W)
  BY <1>0, TotalScoreType
<1>4. \A m \in S : Reward(k, m) = IF Score(k, m) > 0
                                  THEN SaturateU128(p * Score(k, m)) \div SaturateU128(W)
                                  ELSE 0
  BY <1>3 DEF Reward
<1>w. W = SumFunctionOnSet(Scores(k), S)
  BY DEF ScoreSum
<1>c. Cardinality(S) \in Nat /\ Cardinality(S) <= p
  BY EntrantsWithinPool
<1> HIDE DEF S, p, W
<1>5. CASE W = 0
  <2>1. \A m \in S : Scores(k)[m] \in Int /\ Rewards(k)[m] = 0 * Scores(k)[m]
    BY <1>1, <1>4, <1>5
  <2>2. Minted(k) = 0 * SumFunctionOnSet(Scores(k), S)
    BY <1>1, <1>2, <2>1, SumTimes
  <2> QED
    BY <1>1, <1>5, <1>w, <2>2 DEF p
<1>6. CASE W > 0 /\ W <= MaxU128
  <2> DEFINE lhs == [m \in S |-> W * Reward(k, m)]
             rhs == [m \in S |-> p * Score(k, m)]
  <2>1. SaturateU128(W) = W
    BY <1>0, <1>1, <1>6 DEF SaturateU128, Lesser
  <2>2. ASSUME NEW m \in S
        PROVE  W * Reward(k, m) <= p * Score(k, m)
    <3>1. p * Score(k, m) \in Nat
      BY <1>1, ProductNat
    <3>2. /\ SaturateU128(p * Score(k, m)) \in Nat
          /\ SaturateU128(p * Score(k, m)) <= p * Score(k, m)
      BY <3>1, SaturateNat
    <3>3. CASE Score(k, m) > 0
      <4>1. Reward(k, m) = SaturateU128(p * Score(k, m)) \div W
        BY <1>4, <2>1, <3>3
      <4>2. W * Reward(k, m) <= SaturateU128(p * Score(k, m))
        BY <1>1, <1>6, <3>2, <4>1, QuotientBounds
      <4> QED
        BY <1>1, <3>1, <3>2, <4>2, ProductNat
    <3>4. CASE ~(Score(k, m) > 0)
      <4>1. Reward(k, m) = 0 /\ W * 0 = 0
        BY <1>1, <1>4, <3>4
      <4> QED
        BY <3>1, <4>1
    <3> QED
      BY <3>3, <3>4
  <2>3. \A m \in S : /\ lhs[m] = W * Rewards(k)[m] /\ rhs[m] = p * Scores(k)[m]
                     /\ lhs[m] \in Int /\ rhs[m] \in Int /\ lhs[m] <= rhs[m]
    BY <1>1, <2>2
  <2> HIDE DEF lhs, rhs
  <2>4. /\ \A m \in S : Rewards(k)[m] \in Int /\ Scores(k)[m] \in Int
        /\ W \in Int /\ p \in Int
    BY <1>1
  <2>5. SumFunctionOnSet(lhs, S) = W * Minted(k)
    BY <1>1, <1>2, <2>3, <2>4, SumTimes
  <2>6. SumFunctionOnSet(rhs, S) = p * W
    BY <1>1, <1>w, <2>3, <2>4, SumTimes
  <2>7. SumFunctionOnSet(lhs, S) <= SumFunctionOnSet(rhs, S)
    BY <1>1, <2>3, SumMonotone
  <2>8. W * Minted(k) <= W * p
    BY <1>1, <2>5, <2>6, <2>7
  <2>9. Minted(k) <= p
    BY <1>1, <1>2, <1>6, <2>8, CancelFactor
  <2> QED
    BY <2>9 DEF p
<1>7. CASE W > MaxU128
  <2> DEFINE ones == [m \in S |-> 1]
  <2>1. SaturateU128(W) = MaxU128
    BY <1>0, <1>1, <1>7 DEF SaturateU128, Lesser
  <2>2. ASSUME NEW m \in S
        PROVE  Reward(k, m) <= 1
    <3> DEFINE n == SaturateU128(p * Score(k, m))
    <3>1. n \in Nat /\ n <= MaxU128
      <4>1. p * Score(k, m) \in Nat
        BY <1>1, ProductNat
      <4> QED
        BY <1>0, <4>1 DEF SaturateU128, Lesser
    <3>2. Reward(k, m) = 0 \/ Reward(k, m) = n \div MaxU128
      BY <1>4, <2>1
    <3> HIDE DEF n
    <3>3. /\ n \div MaxU128 \in Nat /\ MaxU128 * (n \div MaxU128) <= n
      BY <1>0, <3>1, QuotientBounds
    <3>4. MaxU128 * (n \div MaxU128) <= MaxU128 * 1
      <4> DEFINE prod == MaxU128 * (n \div MaxU128)
      <4>1. prod \in Nat /\ prod <= n
        BY <1>0, <3>3, ProductNat
      <4> HIDE DEF prod
      <4>2. prod <= MaxU128
        BY <1>0, <3>1, <4>1
      <4> QED
        BY <1>0, <4>2 DEF prod
    <3>5. n \div MaxU128 <= 1
      BY <1>0, <3>3, <3>4, CancelFactor
    <3> QED
      BY <3>2, <3>5
  <2>3. \A m \in S : /\ ones[m] = 1 /\ ones[m] \in Int
                     /\ Rewards(k)[m] \in Int /\ Rewards(k)[m] <= ones[m]
    BY <1>1, <2>2
  <2> HIDE DEF ones
  <2>4. SumFunctionOnSet(ones, S) = Cardinality(S)
    BY <1>1, <2>3, SumOfOnes
  <2>5. Minted(k) <= SumFunctionOnSet(ones, S)
    BY <1>1, <1>2, <2>3, SumMonotone
  <2>6. Minted(k) <= p
    BY <1>1, <1>2, <1>c, <2>4, <2>5
  <2> QED
    BY <2>6 DEF p
<1> QED
  BY <1>0, <1>1, <1>5, <1>6, <1>7

(* With nothing saturated each floor loses less than one unit, so what is  *)
(* shared exceeds what is paid by less than one unit per entrant.          *)
LEMMA RewardsShareOut ==
    ASSUME MoneyInv, NEW k \in DOMAIN Markets,
           Markets[k].prediction_id \in DOMAIN GroundTruths,
           TotalScore(k) > 0, Markets[k].total_stake * MaxBrier <= MaxU128
    PROVE  Minted(k) > Markets[k].total_stake - Cardinality(Entrants(k))
<1> DEFINE S == Entrants(k)
           p == Markets[k].total_stake
           W == ScoreSum(k)
           n == Cardinality(Entrants(k))
           ones == [m \in S |-> 1]
           shares == [m \in S |-> p * Score(k, m)]
           lhs == [m \in S |-> p * Score(k, m) + 1]
           bumped == [m \in S |-> Reward(k, m) + 1]
           rhs == [m \in S |-> W * (Reward(k, m) + 1)]
<1>0. MarketTypeOK /\ VerificationTypeOK /\ MaxU128 \in Nat \ {0} /\ MaxBrier \in Nat
  BY MarketAssumption DEF MarketAssumption, MoneyInv, Inv
<1>1. /\ IsFiniteSet(S) /\ W \in Nat /\ p \in Nat /\ Minted(k) \in Nat
      /\ n \in Nat /\ n <= p
      /\ \A m \in S : /\ Scores(k)[m] = Score(k, m) /\ Rewards(k)[m] = Reward(k, m)
                      /\ Score(k, m) \in Nat /\ Reward(k, m) \in Nat
                      /\ Score(k, m) <= MaxBrier
  BY ShareFacts, EntrantsWithinPool
<1>2. /\ TotalScore(k) = SaturateU128(W) /\ W > 0
  BY <1>0, <1>1, TotalScoreType DEF SaturateU128, Lesser
<1>3. /\ Minted(k) = SumFunctionOnSet(Rewards(k), S) /\ W = SumFunctionOnSet(Scores(k), S)
      /\ p * MaxBrier <= MaxU128 /\ n = Cardinality(S)
  BY DEF Minted, ScoreSum
<1>4. \A m \in S : Reward(k, m) = IF Score(k, m) > 0
                                  THEN SaturateU128(p * Score(k, m)) \div SaturateU128(W)
                                  ELSE 0
  BY <1>2 DEF Reward
<1>5. \A m \in S : /\ ones[m] = 1
                   /\ shares[m] = p * Score(k, m) /\ lhs[m] = p * Score(k, m) + 1
                   /\ bumped[m] = Reward(k, m) + 1 /\ rhs[m] = W * (Reward(k, m) + 1)
  OBVIOUS
<1> HIDE DEF S, p, W, n, ones, shares, lhs, bumped, rhs
<1>6. SaturateU128(W) = W
  <2> DEFINE most == [m \in S |-> MaxBrier * ones[m]]
  <2>1. \A m \in S : /\ most[m] = MaxBrier * ones[m] /\ most[m] \in Int /\ ones[m] \in Int
                     /\ Scores(k)[m] \in Int /\ Scores(k)[m] <= most[m]
    BY <1>0, <1>1, <1>5
  <2> HIDE DEF most
  <2>2. W <= SumFunctionOnSet(most, S)
    BY <1>1, <1>3, <2>1, SumMonotone
  <2>3. SumFunctionOnSet(most, S) = MaxBrier * n
    <3>1. SumFunctionOnSet(ones, S) = n
      BY <1>1, <1>3, <1>5, SumOfOnes
    <3>2. SumFunctionOnSet(most, S) = MaxBrier * SumFunctionOnSet(ones, S)
      BY <1>0, <1>1, <2>1, SumTimes
    <3> QED
      BY <3>1, <3>2
  <2>4. MaxBrier * n <= p * MaxBrier /\ MaxBrier * n \in Nat /\ p * MaxBrier \in Nat
    BY <1>0, <1>1, FactorMonotone, ProductNat
  <2>5. W <= MaxU128
    <3> DEFINE x == MaxBrier * n
               y == p * MaxBrier
    <3>1. W <= x /\ x <= y /\ y <= MaxU128 /\ x \in Nat /\ y \in Nat
      BY <1>3, <2>2, <2>3, <2>4
    <3> HIDE DEF x, y
    <3> QED
      BY <1>0, <1>1, <3>1
  <2> QED
    BY <1>0, <1>1, <2>5 DEF SaturateU128, Lesser
<1>7. ASSUME NEW m \in S
      PROVE  /\ lhs[m] <= rhs[m] /\ lhs[m] \in Int /\ rhs[m] \in Int /\ shares[m] \in Int
  <2> DEFINE share == p * Score(k, m)
  <2>1. share \in Nat /\ share <= MaxU128
    <3> DEFINE y == p * MaxBrier
    <3>1. share \in Nat /\ share <= y /\ y \in Nat /\ y <= MaxU128
      BY <1>0, <1>1, <1>3, FactorMonotone, ProductNat
    <3> HIDE DEF share, y
    <3> QED
      BY <1>0, <3>1
  <2>2. lhs[m] = share + 1 /\ rhs[m] = W * (Reward(k, m) + 1) /\ shares[m] = share
    BY <1>5
  <2>3. SaturateU128(share) = share
    BY <1>0, <2>1 DEF SaturateU128, Lesser
  <2>4. CASE Score(k, m) > 0
    <3>1. Reward(k, m) = share \div W
      BY <1>4, <1>6, <2>3, <2>4
    <3> HIDE DEF share
    <3>2. share < W * ((share \div W) + 1) /\ share \div W \in Nat
      BY <1>1, <1>2, <2>1, QuotientBounds
    <3>3. W * ((share \div W) + 1) \in Nat
      BY <1>1, <3>2, ProductNat
    <3>4. rhs[m] = W * ((share \div W) + 1)
      BY <2>2, <3>1
    <3> QED
      BY <2>1, <2>2, <3>2, <3>3, <3>4
  <2>5. CASE ~(Score(k, m) > 0)
    <3>1. Score(k, m) = 0 /\ Reward(k, m) = 0
      BY <1>1, <1>4, <2>5
    <3>2. share = 0 /\ rhs[m] = W
      BY <1>1, <2>2, <3>1
    <3> QED
      BY <1>1, <1>2, <2>2, <3>2
  <2> QED
    BY <2>4, <2>5
<1>8. SumFunctionOnSet(lhs, S) <= SumFunctionOnSet(rhs, S)
  BY <1>1, <1>7, SumMonotone
<1>9. SumFunctionOnSet(ones, S) = n
  BY <1>1, <1>3, <1>5, SumOfOnes
<1>10. SumFunctionOnSet(lhs, S) = p * W + n
  <2>1. \A m \in S : /\ shares[m] \in Int /\ ones[m] \in Int /\ lhs[m] = shares[m] + ones[m]
                     /\ Scores(k)[m] \in Int /\ shares[m] = p * Scores(k)[m]
    BY <1>1, <1>5, <1>7
  <2>2. SumFunctionOnSet(shares, S) = p * W
    BY <1>1, <1>3, <2>1, SumTimes
  <2>3. SumFunctionOnSet(lhs, S) = SumFunctionOnSet(shares, S) + SumFunctionOnSet(ones, S)
    BY <1>1, <2>1, SumTogether
  <2> QED
    BY <1>9, <2>2, <2>3
<1>11. SumFunctionOnSet(rhs, S) = W * (Minted(k) + n)
  <2>1. \A m \in S : /\ Rewards(k)[m] \in Int /\ ones[m] \in Int
                     /\ bumped[m] = Rewards(k)[m] + ones[m]
                     /\ bumped[m] \in Int /\ rhs[m] = W * bumped[m]
    BY <1>1, <1>5
  <2>2. SumFunctionOnSet(bumped, S) = Minted(k) + n
    <3>1. SumFunctionOnSet(bumped, S)
            = SumFunctionOnSet(Rewards(k), S) + SumFunctionOnSet(ones, S)
      BY <1>1, <2>1, SumTogether
    <3> QED
      BY <1>3, <1>9, <3>1
  <2>3. SumFunctionOnSet(rhs, S) = W * SumFunctionOnSet(bumped, S)
    BY <1>1, <2>1, SumTimes
  <2> QED
    BY <2>2, <2>3
<1>12. n > 0
  <2>1. CASE S = {}
    <3>1. W = SumFunctionOnSet(Scores(k), {})
      BY <1>3, <2>1, Zenon
    <3>2. W = 0
      BY <3>1, SumEmpty
    <3> QED
      BY <1>2, <3>2
  <2>2. CASE S # {}
    BY <1>1, <1>3, <2>2, FS_EmptySet
  <2> QED
    BY <2>1, <2>2
<1>13. W * p < W * (Minted(k) + n)
  <2> DEFINE x == W * p
             y == W * (Minted(k) + n)
  <2>1. x + n <= y /\ x \in Nat /\ y \in Nat
    <3>1. x = p * W /\ Minted(k) + n \in Nat
      BY <1>1
    <3>2. x \in Nat /\ y \in Nat
      BY <1>1, <3>1, ProductNat
    <3> QED
      BY <1>8, <1>10, <1>11, <3>1, <3>2
  <2> HIDE DEF x, y
  <2>2. x < y
    BY <1>1, <1>12, <2>1
  <2> QED
    BY <2>2 DEF x, y
<1>14. p < Minted(k) + n
  <2>1. W \in Nat \ {0} /\ p \in Int /\ Minted(k) + n \in Int
    BY <1>1, <1>2
  <2> QED
    BY <1>13, <2>1, CancelFactor
<1> QED
  <2>1. Minted(k) > p - n
    BY <1>1, <1>14
  <2> QED
    BY <2>1 DEF p, n

-----------------------------------------------------------------------------
(* No call but settle_market settles a market.                             *)
LEMMA OnlySettleMarketSettles ==
    ASSUME Inv, [Next]_vars, NEW k, Settles(k)
    PROVE  k \in MarketId /\ k \in DOMAIN Markets /\ SettleMarket(k)
<1>0. /\ k \in DOMAIN Markets /\ k \in MarketId
      /\ Markets[k].status # "Settled" /\ Markets'[k].status = "Settled"
  BY MarketRecords DEF Settles, IsSettled, Inv
<1>1. ~UNCHANGED marketVars
  BY <1>0 DEF marketVars
<1>2. ASSUME NEW who \in Account, NEW model \in ModelId, RegisterModel(who, model)
      PROVE  FALSE
  BY <1>0, <1>2 DEF RegisterModel
<1>3. ASSUME NEW market \in MarketId, NEW prediction \in PredictionId,
             CreateMarket(market, prediction)
      PROVE  FALSE
  BY <1>0, <1>3 DEF CreateMarket, Put
<1>4. ASSUME NEW who \in Account, NEW market \in MarketId, NEW model \in ModelId,
             NEW prediction \in PredictionId, NEW amount \in StakeAmount,
             StakePrediction(who, market, model, prediction, amount)
      PROVE  FALSE
  <2>1. /\ market \in DOMAIN Markets /\ amount > 0 /\ amount \in Nat
        /\ RecordStake(who, market, model, prediction, amount)
    BY <1>4, MarketAssumption DEF MarketAssumption, StakePrediction
  <2>2. /\ \A j \in DOMAIN Markets : j # market => Markets'[j] = Markets[j]
        /\ Markets'[market].status = Markets[market].status
    BY <2>1, RecordStakeEffect DEF Inv
  <2> QED
    BY <1>0, <2>2
<1>5. ASSUME NEW market \in MarketId, SettleMarket(market)
      PROVE  market = k
  <2>1. market \in DOMAIN Markets /\ PayOut(market)
    BY <1>5 DEF SettleMarket
  <2>2. \A j \in DOMAIN Markets : j # market => Markets'[j] = Markets[j]
    BY <2>1, PayOutEffect DEF Inv
  <2> QED
    BY <1>0, <2>2
<1> QED
  BY <1>0, <1>1, <1>2, <1>3, <1>4, <1>5
     DEF Next, MarketCall, vars, marketVars

(* deposit_into_existing finds every account it has something to pay: an   *)
(* owner with a stake on the market has it reserved.                       *)
LEMMA DepositsSucceed ==
    ASSUME MoneyInv, NEW k \in DOMAIN Markets, ~IsSettled(k), NEW a \in Account
    PROVE  Deposited(a, RewardOf(a, k)) = RewardOf(a, k)
<1>0. /\ MarketTypeOK /\ ReserveBacksStakes /\ SettledTogether
      /\ free \in [Account -> Nat] /\ reserved \in [Account -> Nat]
  BY DEF MoneyInv, Inv, BalancesTypeOK
<1>1. CASE OwnedBy(a, k) = {}
  <2>1. RewardOf(a, k) = SumFunctionOnSet(Rewards(k), OwnedBy(a, k))
    BY RewardOfIsSum
  <2>2. RewardOf(a, k) = SumFunctionOnSet(Rewards(k), {})
    BY <1>1, <2>1, Zenon
  <2>3. RewardOf(a, k) = 0
    BY <2>2, SumEmpty
  <2> QED
    BY <2>3 DEF Deposited
<1>2. ASSUME NEW m \in OwnedBy(a, k)
      PROVE  Deposited(a, RewardOf(a, k)) = RewardOf(a, k)
  <2> DEFINE s == <<k, m>>
  <2>1. s \in DOMAIN Stakes /\ Stakes[s].owner = a
    BY DEF OwnedBy, Entrants
  <2>2. ~Stakes[s].settled
    BY <1>0, <2>1 DEF SettledTogether
  <2> HIDE DEF s
  <2>3. /\ reserved[Stakes[s].owner] >= Stakes[s].stake_amount
        /\ Stakes[s].stake_amount > 0
    BY <1>0, <2>1, <2>2, StakersHaveReserves
  <2>4. Stakes[s].stake_amount \in Nat
    BY <1>0, <2>1, StakeAmountsAreNat
  <2>5. reserved[a] > 0
    BY <1>0, <2>1, <2>3, <2>4
  <2>6. Exists(a)
    BY <1>0, <2>5 DEF Exists
  <2> QED
    BY <2>6 DEF Deposited
<1> QED
  BY <1>1, <1>2

(* The rewards of a market, added up by owner.                             *)
LEMMA RewardsByOwner ==
    ASSUME MoneyInv, NEW k \in DOMAIN Markets,
           Markets[k].prediction_id \in DOMAIN GroundTruths,
           NEW paid, \A a \in Account : paid[a] = RewardOf(a, k)
    PROVE  SumFunctionOnSet(paid, Account) = Minted(k)
<1> DEFINE S == Entrants(k)
           owner == [m \in S |-> Stakes[<<k, m>>].owner]
<1>1. /\ IsFiniteSet(S) /\ IsFiniteSet(Account)
      /\ \A m \in S : Rewards(k)[m] \in Int
  BY ShareFacts, AccountAssumption DEF AccountAssumption
<1>2. \A m \in S : owner[m] \in Account
  BY StakeAmountsAreNat DEF Entrants, MoneyInv, Inv
<1>3. ASSUME NEW a \in Account
      PROVE  paid[a] = SumFunctionOnSet(Rewards(k), Belonging(S, owner, a))
  <2>1. OwnedBy(a, k) = Belonging(S, owner, a)
    BY DEF OwnedBy, Belonging
  <2>2. paid[a] = SumFunctionOnSet(Rewards(k), OwnedBy(a, k))
    BY RewardOfIsSum
  <2> HIDE DEF S, owner
  <2> QED
    BY <2>1, <2>2, Zenon
<1> HIDE DEF S, owner
<1>4. SumFunctionOnSet(paid, Account) = SumFunctionOnSet(Rewards(k), S)
  BY <1>1, <1>2, <1>3, SumByOwner
<1> QED
  BY <1>4 DEF Minted, S

(* A settlement adds its rewards to the issuance and nothing else.         *)
LEMMA IssuanceSettleMarket ==
    ASSUME MoneyInv, NEW market \in MarketId, SettleMarket(market)
    PROVE  /\ TotalIssuance \in Nat /\ Minted(market) \in Nat
           /\ TotalIssuance' = TotalIssuance + Minted(market)
<1> DEFINE old == [a \in Account |-> free[a] + reserved[a]]
           new == [a \in Account |-> free'[a] + reserved'[a]]
           paid == [a \in Account |-> RewardOf(a, market)]
<1>0. /\ PaidOut(market) /\ free \in [Account -> Nat] /\ reserved \in [Account -> Nat]
  BY SettleEffect DEF MoneyInv, BalancesTypeOK
<1>1. /\ market \in DOMAIN Markets /\ ~IsSettled(market)
      /\ Markets[market].prediction_id \in DOMAIN GroundTruths
  BY <1>0 DEF PaidOut
<1>2. ASSUME NEW a \in Account
      PROVE  /\ old[a] \in Nat /\ paid[a] \in Nat /\ new[a] = old[a] + paid[a]
             /\ paid[a] = RewardOf(a, market)
  <2>1. /\ reserved'[a] = reserved[a] - StakedBy(a, market)
        /\ free'[a] = free[a] + StakedBy(a, market) + Deposited(a, RewardOf(a, market))
        /\ StakedBy(a, market) \in Nat /\ RewardOf(a, market) \in Nat
    BY <1>0 DEF PaidOut
  <2>2. Deposited(a, RewardOf(a, market)) = RewardOf(a, market)
    BY <1>1, DepositsSucceed
  <2>3. /\ old[a] = free[a] + reserved[a] /\ paid[a] = RewardOf(a, market)
        /\ new[a] = free'[a] + reserved'[a]
        /\ free[a] \in Nat /\ reserved[a] \in Nat
    BY <1>0
  <2> HIDE DEF old, new, paid
  <2> QED
    BY <2>1, <2>2, <2>3
<1>3. /\ TotalIssuance = SumFunctionOnSet(old, DOMAIN old)
      /\ TotalIssuance' = SumFunctionOnSet(new, DOMAIN new)
      /\ DOMAIN old = Account /\ DOMAIN new = Account
  BY DEF TotalIssuance, SumFunction
<1>4. IsFiniteSet(Account)
  BY AccountAssumption DEF AccountAssumption
<1> HIDE DEF old, new, paid
<1>5. /\ TotalIssuance = SumFunctionOnSet(old, Account)
      /\ TotalIssuance' = SumFunctionOnSet(new, Account)
  BY <1>3
<1>6. SumFunctionOnSet(new, Account)
        = SumFunctionOnSet(old, Account) + SumFunctionOnSet(paid, Account)
  BY <1>2, <1>4, SumTogether
<1>7. SumFunctionOnSet(old, Account) \in Nat
  BY <1>2, <1>4, SumNat
<1>8. SumFunctionOnSet(paid, Account) = Minted(market)
  BY <1>1, <1>2, RewardsByOwner
<1>9. Minted(market) \in Nat
  BY <1>1, ShareFacts
<1> QED
  BY <1>5, <1>6, <1>7, <1>8, <1>9

LEMMA PaysInFullStep ==
    ASSUME MoneyInv, [Next]_vars
    PROVE  PaysInFull
<1> SUFFICES ASSUME NEW market \in MarketId, Settles(market)
             PROVE  LET minted == TotalIssuance' - TotalIssuance
                        pool == Markets[market].total_stake
                    IN  /\ \A a \in Account :
                             /\ reserved'[a] = reserved[a] - StakedBy(a, market)
                             /\ free'[a] = free[a] + StakedBy(a, market) + RewardOf(a, market)
                        /\ minted <= pool
                        /\ (TotalScore(market) > 0 /\ pool * MaxBrier <= MaxU128)
                             => minted > pool - Cardinality(Entrants(market))
  BY DEF PaysInFull
<1>1. SettleMarket(market)
  BY OnlySettleMarketSettles DEF MoneyInv
<1>2. PaidOut(market)
  BY <1>1, SettleEffect
<1>3. /\ market \in DOMAIN Markets /\ ~IsSettled(market)
      /\ Markets[market].prediction_id \in DOMAIN GroundTruths
  BY <1>2 DEF PaidOut
<1>4. ASSUME NEW a \in Account
      PROVE  /\ reserved'[a] = reserved[a] - StakedBy(a, market)
             /\ free'[a] = free[a] + StakedBy(a, market) + RewardOf(a, market)
  <2>1. /\ reserved'[a] = reserved[a] - StakedBy(a, market)
        /\ free'[a] = free[a] + StakedBy(a, market) + Deposited(a, RewardOf(a, market))
    BY <1>2 DEF PaidOut
  <2>2. Deposited(a, RewardOf(a, market)) = RewardOf(a, market)
    BY <1>3, DepositsSucceed
  <2> QED
    BY <2>1, <2>2
<1>5. TotalIssuance' - TotalIssuance = Minted(market)
  <2>1. /\ TotalIssuance \in Nat /\ Minted(market) \in Nat
        /\ TotalIssuance' = TotalIssuance + Minted(market)
    BY <1>1, IssuanceSettleMarket
  <2> QED
    BY <2>1
<1>6. Minted(market) <= Markets[market].total_stake
  BY <1>3, RewardsWithinPool
<1>7. (TotalScore(market) > 0 /\ Markets[market].total_stake * MaxBrier <= MaxU128)
        => Minted(market) > Markets[market].total_stake - Cardinality(Entrants(market))
  BY <1>3, RewardsShareOut
<1> QED
  BY <1>4, <1>5, <1>6, <1>7

(* settle_market returns every stake and pays every reward it announces,   *)
(* mints no more than the pool it releases, and when some model scored and *)
(* nothing saturates, all of the pool but less than one unit per entrant.  *)
THEOREM SettlementIsFull == Spec => SettlementPaysInFull
<1>1. MoneyInv /\ [Next]_vars => [PaysInFull]_vars
  BY PaysInFullStep
<1> QED
  BY MoneyAlways, <1>1, PTL DEF Spec, SettlementPaysInFull

-----------------------------------------------------------------------------
(* Who is closer to the outcome earns no less: each step of the score and  *)
(* of the share is monotone, where it saturates too.                       *)
LEMMA SquareMonotone ==
    ASSUME NEW x \in Int, NEW y \in Int, NEW n \in Nat, -n <= x, x <= n, y = n \/ y = -n
    PROVE  x * x <= y * y
<1>1. y * y = n * n
  OBVIOUS
<1>2. \E r \in Nat : r <= n /\ x * x = r * r
  <2>1. CASE x >= 0
    BY <2>1
  <2>2. CASE x < 0
    <3>1. -x \in Nat /\ -x <= n /\ x * x = (-x) * (-x)
      BY <2>2
    <3> QED
      BY <3>1
  <2> QED
    BY <2>1, <2>2
<1>3. PICK r \in Nat : r <= n /\ x * x = r * r
  BY <1>2
<1>4. r * r <= n * r /\ n * r <= n * n
  BY <1>3, FactorMonotone
<1>5. r * r <= n * n
  BY <1>4
<1> QED
  BY <1>1, <1>3, <1>5

LEMMA QuotientMonotone ==
    ASSUME NEW d \in Nat \ {0}, NEW m \in Nat, NEW n \in Nat, m <= n
    PROVE  m \div d <= n \div d
<1> DEFINE q == m \div d
           r == n \div d
<1>1. q \in Nat /\ r \in Nat /\ d * q <= m /\ n < d * (r + 1)
  BY QuotientBounds
<1> HIDE DEF q, r
<1>2. d * q \in Nat /\ d * (r + 1) \in Nat
  BY <1>1, ProductNat
<1>3. d * q < d * (r + 1)
  BY <1>1, <1>2
<1>4. q < r + 1
  BY <1>1, <1>3, CancelFactor
<1> QED
  BY <1>1, <1>4 DEF q, r

Magnitude(x) == IF x < 0 THEN -x ELSE x

LEMMA SaturatedSquareMonotone ==
    ASSUME NEW x \in Int, NEW y \in Int, Magnitude(x) <= Magnitude(y)
    PROVE  SaturateI128(SaturateI128(x) * SaturateI128(x))
             <= SaturateI128(SaturateI128(y) * SaturateI128(y))
<1> DEFINE sx == SaturateI128(x)
           sy == SaturateI128(y)
<1>0. MaxI128 \in Nat
  BY MarketAssumption DEF MarketAssumption
<1>1. /\ sx \in Int /\ sy \in Int
  BY <1>0 DEF SaturateI128, Lesser
<1>2. CASE -MaxI128 - 1 <= y /\ y <= MaxI128
  <2>1. sy = y
    BY <1>0, <1>2 DEF SaturateI128, Lesser
  <2>2. /\ Magnitude(y) \in Nat /\ (y = Magnitude(y) \/ y = -Magnitude(y))
        /\ -Magnitude(y) <= sx /\ sx <= Magnitude(y)
    BY <1>0, <1>2 DEF SaturateI128, Lesser, Magnitude
  <2> HIDE DEF sx, sy
  <2>3. sx * sx <= sy * sy
    BY <1>1, <2>1, <2>2, SquareMonotone
  <2>4. sx * sx \in Nat /\ sy * sy \in Nat
    BY <1>1, SquareNat
  <2>5. SaturateI128(sx * sx) <= SaturateI128(sy * sy)
    BY <1>0, <2>3, <2>4 DEF SaturateI128, Lesser
  <2> QED
    BY <2>5 DEF sx, sy
<1>3. CASE ~(-MaxI128 - 1 <= y /\ y <= MaxI128)
  <2>1. sy = MaxI128 \/ sy = -(MaxI128 + 1)
    BY <1>0, <1>3 DEF SaturateI128, Lesser
  <2> HIDE DEF sx, sy
  <2>2. MaxI128 <= sy * sy /\ sy * sy \in Nat
    <3>1. sy * sy = MaxI128 * MaxI128 \/ sy * sy = (MaxI128 + 1) * (MaxI128 + 1)
      BY <1>0, <2>1
    <3>2. \A n \in Nat : n <= n * n
      <4> SUFFICES ASSUME NEW n \in Nat PROVE n <= n * n
        OBVIOUS
      <4>1. CASE n = 0
        BY <4>1
      <4>2. CASE n > 0
        <5>1. 1 * n <= n * n
          BY <4>2, FactorMonotone
        <5> QED
          BY <5>1
      <4> QED
        BY <4>1, <4>2
    <3>3. MaxI128 <= MaxI128 * MaxI128 /\ MaxI128 + 1 <= (MaxI128 + 1) * (MaxI128 + 1)
      BY <1>0, <3>2
    <3>4. sy * sy \in Nat
      BY <1>1, SquareNat
    <3> QED
      BY <1>0, <3>1, <3>3, <3>4
  <2>3. sx * sx \in Nat
    BY <1>1, SquareNat
  <2>4. SaturateI128(sx * sx) <= SaturateI128(sy * sy)
    BY <1>0, <2>2, <2>3 DEF SaturateI128, Lesser
  <2> QED
    BY <2>4 DEF sx, sy
<1> QED
  BY <1>2, <1>3

LEMMA CloserScoresNoLess ==
    ASSUME NEW p \in Int, NEW q \in Int, NEW outcome \in Int,
           Magnitude(p - outcome) <= Magnitude(q - outcome)
    PROVE  InverseScore(q, outcome) <= InverseScore(p, outcome)
<1> DEFINE sp == SaturateI128(p - outcome)
           sq == SaturateI128(q - outcome)
           np == SaturateI128(sp * sp)
           nq == SaturateI128(sq * sq)
<1>0. MaxI128 \in Nat /\ MaxBrier \in Nat /\ BrierDivisor \in Nat \ {0}
  BY MarketAssumption DEF MarketAssumption
<1>1. sp \in Int /\ sq \in Int
  BY <1>0 DEF SaturateI128, Lesser
<1>2. np <= nq
  BY SaturatedSquareMonotone
<1>3. Brier(p, outcome) = np \div BrierDivisor /\ Brier(q, outcome) = nq \div BrierDivisor
  BY DEF Brier
<1>4. np \in Nat /\ nq \in Nat
  <2> HIDE DEF sp, sq
  <2> QED
    BY <1>1, SquareNat, SaturateNat
<1> HIDE DEF np, nq
<1>5. Brier(p, outcome) <= Brier(q, outcome)
  BY <1>0, <1>2, <1>3, <1>4, QuotientMonotone
<1>6. Brier(p, outcome) \in Nat /\ Brier(q, outcome) \in Nat
  BY <1>0, <1>3, <1>4, QuotientNat
<1> QED
  BY <1>0, <1>5, <1>6 DEF InverseScore, Lesser

(* The higher score gets no smaller share.                                 *)
LEMMA HigherScorePaysNoLess ==
    ASSUME MoneyInv, NEW k \in DOMAIN Markets,
           Markets[k].prediction_id \in DOMAIN GroundTruths,
           NEW m \in Entrants(k), NEW n \in Entrants(k), Score(k, n) <= Score(k, m)
    PROVE  Reward(k, n) <= Reward(k, m)
<1> DEFINE p == Markets[k].total_stake
           nn == SaturateU128(p * Score(k, n))
           mm == SaturateU128(p * Score(k, m))
<1>1. /\ MarketTypeOK /\ VerificationTypeOK /\ p \in Nat /\ MaxU128 \in Nat
      /\ Score(k, n) \in Nat /\ Score(k, m) \in Nat
      /\ Reward(k, n) \in Nat /\ Reward(k, m) \in Nat
  BY ShareFacts, EntrantsWithinPool, MarketAssumption
     DEF MarketAssumption, MoneyInv, Inv
<1>2. CASE ~(Score(k, n) > 0)
  BY <1>1, <1>2 DEF Reward
<1>3. CASE Score(k, n) > 0
  <2>1. Score(k, m) > 0 /\ TotalScore(k) \in Nat \ {0}
    BY <1>1, <1>3, TotalScoreType
  <2>2. Reward(k, n) = nn \div TotalScore(k) /\ Reward(k, m) = mm \div TotalScore(k)
    BY <1>3, <2>1 DEF Reward
  <2>3. nn <= mm /\ nn \in Nat /\ mm \in Nat
    <3> DEFINE x == p * Score(k, n)
               y == p * Score(k, m)
    <3>1. x <= y /\ x \in Nat /\ y \in Nat
      BY <1>1, FactorMonotone, ProductNat
    <3> HIDE DEF x, y
    <3>2. SaturateU128(x) <= SaturateU128(y) /\ SaturateU128(x) \in Nat /\ SaturateU128(y) \in Nat
      BY <1>1, <3>1 DEF SaturateU128, Lesser
    <3> QED
      BY <3>2 DEF x, y
  <2> HIDE DEF nn, mm
  <2> QED
    BY <2>1, <2>2, <2>3, QuotientMonotone
<1> QED
  BY <1>2, <1>3

LEMMA CloserStep ==
    ASSUME MoneyInv, [Next]_vars
    PROVE  CloserGainsNoLess
<1> SUFFICES ASSUME NEW k \in MarketId, Settles(k),
                    NEW a \in Account, NEW b \in Account,
                    NEW m \in Entrants(k), NEW n \in Entrants(k),
                    OwnedBy(a, k) = {m}, OwnedBy(b, k) = {n},
                    Stakes[<<k, m>>].prediction_id \in DOMAIN Reveals,
                    Stakes[<<k, n>>].prediction_id \in DOMAIN Reveals,
                    Error(k, m) <= Error(k, n)
             PROVE  Gain(a) >= Gain(b)
  BY DEF CloserGainsNoLess
<1>1. SettleMarket(k) /\ MarketTypeOK /\ VerificationTypeOK
      /\ free \in [Account -> Nat] /\ reserved \in [Account -> Nat]
  BY OnlySettleMarketSettles DEF MoneyInv, Inv, BalancesTypeOK
<1>2. PaidOut(k)
  BY <1>1, SettleEffect
<1>3. /\ k \in DOMAIN Markets /\ ~IsSettled(k)
      /\ Markets[k].prediction_id \in DOMAIN GroundTruths
  BY <1>2 DEF PaidOut
<1>4. ASSUME NEW who \in Account, NEW e \in Entrants(k), OwnedBy(who, k) = {e}
      PROVE  Gain(who) = Reward(k, e) /\ Reward(k, e) \in Nat
  <2>1. Reward(k, e) \in Nat /\ Rewards(k)[e] = Reward(k, e)
    BY <1>3, ShareFacts
  <2>2. RewardOf(who, k) = Reward(k, e)
    <3> DEFINE f == Rewards(k)
    <3>1. f[e] \in Int /\ f[e] = Reward(k, e)
      BY <2>1
    <3>2. RewardOf(who, k) = SumFunctionOnSet(f, OwnedBy(who, k))
      BY RewardOfIsSum
    <3> HIDE DEF f
    <3>3. RewardOf(who, k) = SumFunctionOnSet(f, {e})
      BY <1>4, <3>2, Zenon
    <3>4. SumFunctionOnSet(f, {e}) = f[e]
      BY <3>1, SumSingleton
    <3> QED
      BY <3>1, <3>3, <3>4
  <2>3. /\ reserved'[who] = reserved[who] - StakedBy(who, k)
        /\ free'[who] = free[who] + StakedBy(who, k) + Deposited(who, RewardOf(who, k))
        /\ StakedBy(who, k) \in Nat
    BY <1>2 DEF PaidOut
  <2>4. Deposited(who, RewardOf(who, k)) = Reward(k, e)
    BY <1>3, <2>2, DepositsSucceed
  <2>5. free[who] \in Nat /\ reserved[who] \in Nat
    BY <1>1
  <2>6. (free'[who] + reserved'[who]) - (free[who] + reserved[who]) = Reward(k, e)
    BY <2>1, <2>3, <2>4, <2>5
  <2> QED
    BY <2>1, <2>6 DEF Gain
<1>5. Score(k, n) <= Score(k, m)
  <2> DEFINE outcome == GroundTruths[Markets[k].prediction_id].outcome
             p == Reveals[Stakes[<<k, m>>].prediction_id].prediction
             q == Reveals[Stakes[<<k, n>>].prediction_id].prediction
  <2>1. p \in Int /\ q \in Int /\ outcome \in Int
    <3>1. I128 \subseteq Int
      BY MarketAssumption DEF MarketAssumption
    <3> QED
      BY <1>1, <1>3, <3>1, RecordTypes DEF RevealedPrediction, GroundTruth
  <2>2. Score(k, m) = InverseScore(p, outcome) /\ Score(k, n) = InverseScore(q, outcome)
    BY DEF Score
  <2>3. Magnitude(p - outcome) <= Magnitude(q - outcome)
    BY DEF Error, Magnitude
  <2> HIDE DEF p, q, outcome
  <2> QED
    BY <2>1, <2>2, <2>3, CloserScoresNoLess
<1>6. Reward(k, n) <= Reward(k, m)
  BY <1>3, <1>5, HigherScorePaysNoLess
<1> QED
  BY <1>4, <1>6

(* tests.rs: "closer prediction should earn more".  Of two owners with one *)
(* revealed stake each, never does the closer one gain less, whatever the  *)
(* amounts, wherever the arithmetic saturates and however it rounds.       *)
THEOREM CloserPredictionWins == Spec => CloserEarnsNoLess
<1>1. MoneyInv /\ [Next]_vars => [CloserGainsNoLess]_vars
  BY CloserStep
<1> QED
  BY MoneyAlways, <1>1, PTL DEF Spec, CloserEarnsNoLess

-----------------------------------------------------------------------------
(* The issuance is what all accounts hold together.                        *)
LEMMA IssuanceIsSum ==
    ASSUME NEW f, \A a \in Account : f[a] = free[a] + reserved[a]
    PROVE  TotalIssuance = SumFunctionOnSet(f, Account)
<1> DEFINE g == [a \in Account |-> free[a] + reserved[a]]
<1>1. TotalIssuance = SumFunctionOnSet(g, DOMAIN g) /\ DOMAIN g = Account
  BY DEF TotalIssuance, SumFunction
<1>2. \A a \in Account : g[a] = f[a]
  OBVIOUS
<1> HIDE DEF g
<1>3. SumFunctionOnSet(g, Account) = SumFunctionOnSet(f, Account)
  BY <1>2, AccountAssumption, SumSame DEF AccountAssumption
<1> QED
  BY <1>1, <1>3

LEMMA IssuanceIsSumNext ==
    ASSUME NEW f, \A a \in Account : f[a] = free'[a] + reserved'[a]
    PROVE  TotalIssuance' = SumFunctionOnSet(f, Account)
<1> DEFINE g == [a \in Account |-> free'[a] + reserved'[a]]
<1>1. TotalIssuance' = SumFunctionOnSet(g, DOMAIN g) /\ DOMAIN g = Account
  BY DEF TotalIssuance, SumFunction
<1>2. \A a \in Account : g[a] = f[a]
  OBVIOUS
<1> HIDE DEF g
<1>3. SumFunctionOnSet(g, Account) = SumFunctionOnSet(f, Account)
  BY <1>2, AccountAssumption, SumSame DEF AccountAssumption
<1> QED
  BY <1>1, <1>3

LEMMA IssuanceNat ==
    ASSUME BalancesTypeOK
    PROVE  /\ TotalIssuance \in Nat
           /\ \A a \in Account : free[a] <= TotalIssuance
<1> DEFINE f == [a \in Account |-> free[a] + reserved[a]]
<1>1. \A a \in Account : f[a] = free[a] + reserved[a] /\ f[a] \in Nat /\ free[a] <= f[a]
                         /\ free[a] \in Nat
  BY DEF BalancesTypeOK
<1>2. IsFiniteSet(Account)
  BY AccountAssumption DEF AccountAssumption
<1> HIDE DEF f
<1>3. TotalIssuance = SumFunctionOnSet(f, Account)
  BY <1>1, IssuanceIsSum
<1>4. SumFunctionOnSet(f, Account) \in Nat
  BY <1>1, <1>2, SumNat
<1>5. \A a \in Account : f[a] <= SumFunctionOnSet(f, Account)
  BY <1>1, <1>2, SumMember
<1> QED
  BY <1>1, <1>3, <1>4, <1>5

LEMMA IssuanceNatNext ==
    ASSUME BalancesTypeOK'
    PROVE  TotalIssuance' \in Nat
<1> DEFINE f == [a \in Account |-> free'[a] + reserved'[a]]
<1>1. \A a \in Account : f[a] = free'[a] + reserved'[a] /\ f[a] \in Nat
  BY DEF BalancesTypeOK
<1>2. IsFiniteSet(Account)
  BY AccountAssumption DEF AccountAssumption
<1> HIDE DEF f
<1>3. TotalIssuance' = SumFunctionOnSet(f, Account)
  BY <1>1, IssuanceIsSumNext
<1> QED
  BY <1>1, <1>2, <1>3, SumNat

(* Reserving moves money within an account.                                *)
LEMMA IssuanceStakePrediction ==
    ASSUME BalancesTypeOK, NEW who \in Account, NEW amount \in Nat,
           free'[who] = free[who] - amount, reserved'[who] = reserved[who] + amount,
           \A a \in Account : a # who => free'[a] = free[a] /\ reserved'[a] = reserved[a]
    PROVE  TotalIssuance' = TotalIssuance
<1> DEFINE f == [a \in Account |-> free[a] + reserved[a]]
<1>1. \A a \in Account : f[a] = free[a] + reserved[a] /\ f[a] = free'[a] + reserved'[a]
  BY DEF BalancesTypeOK
<1> HIDE DEF f
<1> QED
  BY <1>1, IssuanceIsSum, IssuanceIsSumNext

(* A fee is burned, and a transfer burns the dust it leaves, if any.       *)
LEMMA IssuancePayFee ==
    ASSUME BalancesTypeOK, NEW who \in Account, NEW amount \in Amount, PayFee(who, amount)
    PROVE  TotalIssuance' < TotalIssuance
<1> DEFINE f == [a \in Account |-> free[a] + reserved[a]]
           g == [a \in Account |-> free'[a] + reserved'[a]]
<1>1. /\ \A a \in Account : free[a] \in Nat /\ reserved[a] \in Nat
      /\ amount \in Nat \ {0} /\ ExistentialDeposit \in Nat
      /\ free[who] - amount >= ExistentialDeposit
      /\ free' = [free EXCEPT ![who] = @ - amount] /\ reserved' = reserved
      /\ free \in [Account -> Nat]
  BY BalancesAssumption DEF BalancesAssumption, BalancesTypeOK, PayFee
<1>2. free'[who] = free[who] - amount /\ \A a \in Account : a # who => free'[a] = free[a]
  BY <1>1
<1>3. /\ \A a \in Account : /\ f[a] = free[a] + reserved[a] /\ g[a] = free'[a] + reserved'[a]
                            /\ f[a] \in Int /\ g[a] \in Int /\ (a # who => g[a] = f[a])
      /\ g[who] = f[who] - amount /\ f[who] \in Int
  BY <1>1, <1>2
<1>4. IsFiniteSet(Account)
  BY AccountAssumption DEF AccountAssumption
<1> HIDE DEF f, g
<1>5. SumFunctionOnSet(g, Account) = SumFunctionOnSet(f, Account) - f[who] + g[who]
  <2>1. /\ \A a \in Account : f[a] \in Int /\ g[a] \in Int
        /\ \A a \in Account : a # who => g[a] = f[a]
    BY <1>3
  <2> QED
    BY <1>4, <2>1, SumChange
<1>6. SumFunctionOnSet(f, Account) \in Int
  BY <1>3, <1>4, SumInt
<1>7. TotalIssuance = SumFunctionOnSet(f, Account) /\ TotalIssuance' = SumFunctionOnSet(g, Account)
  BY <1>3, IssuanceIsSum, IssuanceIsSumNext
<1> QED
  BY <1>1, <1>3, <1>5, <1>6, <1>7

LEMMA IssuanceTransfer ==
    ASSUME BalancesTypeOK, NEW from \in Account, NEW to \in Account, NEW amount \in Amount,
           Transfer(from, to, amount)
    PROVE  TotalIssuance' <= TotalIssuance
<1> DEFINE left == Left(from, amount)
           f == [a \in Account |-> free[a] + reserved[a]]
           g == [a \in Account |-> free'[a] + reserved'[a]]
           h == [a \in Account |-> IF a = from THEN g[a] ELSE f[a]]
<1>1. /\ \A a \in Account : free[a] \in Nat /\ reserved[a] \in Nat
      /\ amount \in Nat \ {0} /\ ExistentialDeposit \in Nat
      /\ from # to /\ amount <= free[from] /\ reserved' = reserved
      /\ free' = [free EXCEPT ![from] = left, ![to] = @ + amount]
      /\ free \in [Account -> Nat]
  BY BalancesAssumption DEF BalancesAssumption, BalancesTypeOK, Transfer
<1>2. left \in Nat /\ left <= free[from] - amount
  BY <1>1 DEF Left
<1> HIDE DEF left
<1>3. /\ free'[from] = left /\ free'[to] = free[to] + amount
      /\ \A a \in Account : a # from /\ a # to => free'[a] = free[a]
  BY <1>1
<1>4. /\ \A a \in Account : /\ f[a] = free[a] + reserved[a] /\ g[a] = free'[a] + reserved'[a]
                            /\ f[a] \in Int /\ g[a] \in Int /\ h[a] \in Int
                            /\ (a # from => h[a] = f[a]) /\ (a # to => g[a] = h[a])
      /\ h[from] <= f[from] - amount /\ h[to] = f[to] /\ g[to] = f[to] + amount
  <2>1. ASSUME NEW a \in Account
        PROVE  /\ f[a] = free[a] + reserved[a] /\ g[a] = free'[a] + reserved'[a]
               /\ f[a] \in Int /\ g[a] \in Int /\ h[a] \in Int
               /\ (a # from => h[a] = f[a]) /\ (a # to => g[a] = h[a])
    <3>1. f[a] = free[a] + reserved[a] /\ g[a] = free'[a] + reserved'[a]
      OBVIOUS
    <3>2. h[a] = IF a = from THEN g[a] ELSE f[a]
      OBVIOUS
    <3> HIDE DEF f, g, h
    <3> QED
      BY <1>1, <1>2, <1>3, <3>1, <3>2
  <2>2. h[from] = g[from] /\ h[to] = f[to]
    BY <1>1
  <2> HIDE DEF f, g, h
  <2> QED
    BY <1>1, <1>2, <1>3, <2>1, <2>2
<1>5. IsFiniteSet(Account)
  BY AccountAssumption DEF AccountAssumption
<1> HIDE DEF f, g, h
<1>6. SumFunctionOnSet(h, Account) = SumFunctionOnSet(f, Account) - f[from] + h[from]
  <2>1. /\ \A a \in Account : f[a] \in Int /\ h[a] \in Int
        /\ \A a \in Account : a # from => h[a] = f[a]
    BY <1>4
  <2> QED
    BY <1>5, <2>1, SumChange
<1>7. SumFunctionOnSet(g, Account) = SumFunctionOnSet(h, Account) - h[to] + g[to]
  BY <1>4, <1>5, SumChange
<1>8. SumFunctionOnSet(f, Account) \in Int
  BY <1>4, <1>5, SumInt
<1>9. TotalIssuance = SumFunctionOnSet(f, Account) /\ TotalIssuance' = SumFunctionOnSet(g, Account)
  BY <1>4, IssuanceIsSum, IssuanceIsSumNext
<1> QED
  BY <1>1, <1>4, <1>6, <1>7, <1>8, <1>9

-----------------------------------------------------------------------------
(* What the escrow is given for the stakes and the settled markets.        *)
Deposits == [s \in DOMAIN Stakes |->
               [owner |-> Stakes[s].owner, amount |-> Stakes[s].stake_amount]]
Over == {market \in DOMAIN Markets : IsSettled(market)}

LEMMA BankSum ==
    ASSUME NEW V \in SUBSET DOMAIN Stakes
    PROVE  Bank!Sum(V) = Amounts(Stakes, V)
<1> DEFINE f == [d \in V |-> Deposits[d].amount]
           g == [s \in V |-> Stakes[s].stake_amount]
<1>1. f = g
  BY DEF Deposits
<1>2. Bank!Sum(V) = Bank!SumFunction(f)
  BY DEF Bank!Sum, Deposits
<1>3. Amounts(Stakes, V) = SumFunction(g)
  BY DEF Amounts
<1> HIDE DEF f, g
<1>4. Bank!SumFunction(f) = SumFunction(f)
  BY DEF Bank!SumFunction, SumFunction, Bank!SumFunctionOnSet, SumFunctionOnSet,
         Bank!FoldFunctionOnSet, FoldFunctionOnSet, Bank!MapThenFoldSet, MapThenFoldSet
<1> QED
  BY <1>1, <1>2, <1>3, <1>4, Zenon

LEMMA BankInit == Init => Bank!Init
<1> SUFFICES ASSUME Init PROVE Bank!Init
  OBVIOUS
<1>1. /\ reserved = [a \in Account |-> 0] /\ Stakes = EmptyMap /\ Markets = EmptyMap
  BY DEF Init, BalancesInit, MarketInit
<1>2. Deposits = EmptyMap /\ Over = {}
  BY <1>1 DEF Deposits, Over, EmptyMap
<1>3. TotalIssuance \in Nat
  BY MoneyInit, IssuanceNat DEF MoneyInv
<1> QED
  BY <1>1, <1>2, <1>3 DEF Bank!Init, Bank!EmptyMap, EmptyMap, Deposits, Over

(* stake_prediction is a deposit.                                          *)
LEMMA BankStakePrediction ==
    ASSUME MoneyInv, NEW who \in Account, NEW market \in MarketId,
           NEW model \in ModelId, NEW prediction \in PredictionId,
           NEW amount \in StakeAmount,
           StakePrediction(who, market, model, prediction, amount)
    PROVE  Bank!Next
<1> DEFINE key == <<market, model>>
<1>0. /\ Staked(who, market, model, amount) /\ BalancesTypeOK /\ MarketTypeOK
      /\ free \in [Account -> Nat] /\ reserved \in [Account -> Nat]
  BY StakeEffect DEF MoneyInv, Inv, BalancesTypeOK
<1>1. /\ amount \in Nat \ {0} /\ market \in DOMAIN Markets
      /\ key \notin DOMAIN Stakes
      /\ DOMAIN Stakes' = DOMAIN Stakes \cup {key}
      /\ Stakes'[key].owner = who /\ Stakes'[key].stake_amount = amount
      /\ \A s \in DOMAIN Stakes : Stakes'[s] = Stakes[s]
      /\ DOMAIN Markets' = DOMAIN Markets
      /\ \A k \in DOMAIN Markets : k # market => Markets'[k] = Markets[k]
      /\ reserved' \in [Account -> Nat]
      /\ free'[who] = free[who] - amount /\ free'[who] >= ExistentialDeposit
      /\ reserved'[who] = reserved[who] + amount
      /\ \A a \in Account : a # who => free'[a] = free[a] /\ reserved'[a] = reserved[a]
  BY <1>0 DEF Staked
<1>2. /\ Markets[market].status = "Open" /\ Markets'[market].status = "Open"
  <2>1. /\ RecordStake(who, market, model, prediction, amount)
        /\ Markets[market].status = "Open" /\ amount \in Nat /\ amount > 0
    BY <1>1 DEF StakePrediction
  <2>2. Markets'[market].status = Markets[market].status
    BY <1>0, <1>1, <2>1, RecordStakeEffect
  <2> QED
    BY <2>1, <2>2
<1>3. market \notin Over /\ Over' = Over
  BY <1>1, <1>2 DEF Over, IsSettled
<1>4. reserved' = [reserved EXCEPT ![who] = @ + amount]
  BY <1>0, <1>1
<1>5. /\ key \notin DOMAIN Deposits
      /\ Deposits' = Put(Deposits, key, [owner |-> who, amount |-> amount])
  <2> HIDE DEF key
  <2> QED
    BY <1>1 DEF Deposits, Put
<1>6. TotalIssuance' = TotalIssuance
  BY <1>0, <1>1, IssuanceStakePrediction
<1>7. amount \in 1..TotalIssuance
  <2>1. free[who] <= TotalIssuance /\ TotalIssuance \in Nat
    BY <1>0, IssuanceNat
  <2> QED
    BY <1>0, <1>1, <2>1, BalancesAssumption DEF BalancesAssumption
<1>8. Bank!Deposit(market, model, who, amount)
  BY <1>3, <1>4, <1>5, <1>6 DEF Bank!Deposit, Bank!Put, Put, Deposits, Over
<1> QED
  BY <1>7, <1>8 DEF Bank!Next

(* settle_market closes the market: it releases all of its deposits and    *)
(* mints at most what it releases.                                         *)
LEMMA BankSettleMarket ==
    ASSUME MoneyInv, NEW market \in MarketId, SettleMarket(market)
    PROVE  Bank!Next
<1>0. /\ PaidOut(market) /\ MarketTypeOK /\ BooksBalance
      /\ reserved \in [Account -> Nat] /\ reserved' \in [Account -> Nat]
  BY SettleEffect DEF MoneyInv, Inv, BalancesTypeOK, PaidOut
<1>1. /\ market \in DOMAIN Markets /\ ~IsSettled(market)
      /\ Markets[market].prediction_id \in DOMAIN GroundTruths
      /\ DOMAIN Stakes' = DOMAIN Stakes
      /\ \A s \in DOMAIN Stakes : /\ Stakes'[s].owner = Stakes[s].owner
                                  /\ Stakes'[s].stake_amount = Stakes[s].stake_amount
      /\ \A a \in Account : reserved'[a] = reserved[a] - StakedBy(a, market)
  BY <1>0 DEF PaidOut
<1>2. Deposits' = Deposits
  BY <1>1 DEF Deposits
<1>3. market \notin Over /\ Over' = Over \cup {market}
  <2>1. /\ DOMAIN Markets' = DOMAIN Markets
        /\ \A k \in DOMAIN Markets : k # market => Markets'[k] = Markets[k]
        /\ Markets'[market].status = "Settled"
    <3>1. PayOut(market)
      BY DEF SettleMarket
    <3> QED
      BY <1>0, <1>1, <3>1, PayOutEffect
  <2> QED
    BY <1>1, <2>1 DEF Over, IsSettled
<1>4. Bank!Of(market) = StakesOn(market) /\ StakesOn(market) \in SUBSET DOMAIN Stakes
  BY DEF Bank!Of, StakesOn, Deposits
<1>5. Bank!Of(market) # {}
  <2>1. Markets[market].participant_count > 0
    BY DEF SettleMarket
  <2>2. Markets[market].participant_count = Cardinality(StakesOn(market))
    BY <1>0, <1>1 DEF BooksBalance
  <2>3. CASE StakesOn(market) = {}
    <3>1. Cardinality(StakesOn(market)) = Cardinality({})
      BY <2>3, Zenon
    <3> QED
      BY <2>1, <2>2, <3>1, FS_EmptySet
  <2> QED
    BY <1>4, <2>3
<1>6. ASSUME NEW a \in Account
      PROVE  Bank!Sum({d \in Bank!Of(market) : Deposits[d].owner = a}) = StakedBy(a, market)
  <2> DEFINE V == StakesOn(market) \cap StakesOf(a)
             W == {d \in Bank!Of(market) : Deposits[d].owner = a}
  <2>1. W = V /\ V \in SUBSET DOMAIN Stakes
    BY <1>4 DEF Deposits, StakesOf
  <2>2. StakedBy(a, market) = Amounts(Stakes, V)
    BY <1>0, StakedByIsAmounts
  <2> HIDE DEF V, W
  <2>3. Bank!Sum(V) = Amounts(Stakes, V)
    BY <2>1, BankSum
  <2>4. Bank!Sum(W) = Bank!Sum(V)
    BY <2>1, Zenon
  <2>5. Bank!Sum(W) = StakedBy(a, market)
    BY <2>2, <2>3, <2>4
  <2> QED
    BY <2>5 DEF W
<1>7. reserved' = [a \in Account |->
        reserved[a] - Bank!Sum({d \in Bank!Of(market) : Deposits[d].owner = a})]
  <2>1. reserved' = [a \in Account |-> reserved'[a]]
    BY <1>0
  <2>2. reserved' = [a \in Account |-> reserved[a] - StakedBy(a, market)]
    BY <1>1, <2>1
  <2> QED
    BY <1>6, <2>2
<1>8. TotalIssuance' - TotalIssuance \in 0..Bank!Pool(market)
  <2>1. Bank!Pool(market) = Markets[market].total_stake
    <3>1. Bank!Pool(market) = Bank!Sum(StakesOn(market))
      BY <1>4, Zenon DEF Bank!Pool
    <3>2. Bank!Sum(StakesOn(market)) = Amounts(Stakes, StakesOn(market))
      BY <1>4, BankSum
    <3> QED
      BY <1>0, <1>1, <3>1, <3>2, SumStakesIsAmounts DEF BooksBalance
  <2>2. /\ TotalIssuance \in Nat /\ Minted(market) \in Nat
        /\ TotalIssuance' = TotalIssuance + Minted(market)
    BY IssuanceSettleMarket
  <2>3. Minted(market) <= Markets[market].total_stake /\ Markets[market].total_stake \in Nat
    BY <1>1, RewardsWithinPool, EntrantsWithinPool
  <2> QED
    BY <2>1, <2>2, <2>3
<1>9. Bank!Close(market)
  BY <1>2, <1>3, <1>5, <1>7, <1>8 DEF Bank!Close, Deposits, Over
<1> QED
  BY <1>9 DEF Bank!Next

LEMMA BankStep ==
    ASSUME MoneyInv, [Next]_vars
    PROVE  [Bank!Next]_(Bank!vars)
<1>1. ASSUME UNCHANGED <<Stakes, free, reserved>>, Over' = Over
      PROVE  UNCHANGED Bank!vars
  <2>1. TotalIssuance' = TotalIssuance /\ Deposits' = Deposits
    BY <1>1 DEF TotalIssuance, Deposits
  <2> QED
    BY <1>1, <2>1 DEF Bank!vars, Deposits, Over
<1>2. ASSUME UNCHANGED Markets
      PROVE  Over' = Over
  BY <1>2 DEF Over, IsSettled
<1>3. ASSUME NEW who \in Account, NEW model \in ModelId, RegisterModel(who, model)
      PROVE  UNCHANGED Bank!vars
  BY <1>1, <1>2, <1>3 DEF RegisterModel, balanceVars
<1>4. ASSUME NEW market \in MarketId, NEW prediction \in PredictionId,
             CreateMarket(market, prediction)
      PROVE  UNCHANGED Bank!vars
  <2>1. Over' = Over
    BY <1>4 DEF Over, IsSettled, CreateMarket, Put
  <2> QED
    BY <1>1, <1>4, <2>1 DEF CreateMarket, balanceVars
<1>5. ASSUME BalancesNext, UNCHANGED <<verificationVars, marketVars>>
      PROVE  [Bank!Next]_(Bank!vars)
  <2>1. /\ UNCHANGED <<Stakes, Markets>> /\ BalancesTypeOK /\ UNCHANGED reserved
    BY <1>5 DEF MoneyInv, marketVars, BalancesNext, PayFee, Transfer
  <2>2. Over' = Over /\ Deposits' = Deposits
    BY <1>2, <2>1 DEF Deposits
  <2>3. TotalIssuance' < TotalIssuance \/ TotalIssuance' = TotalIssuance
    <3>1. ASSUME NEW who \in Account, NEW amount \in Amount, PayFee(who, amount)
          PROVE  TotalIssuance' < TotalIssuance
      BY <2>1, <3>1, IssuancePayFee
    <3>2. ASSUME NEW who \in Account, NEW amount \in Amount, NEW to \in Account,
                 Transfer(who, to, amount)
          PROVE  TotalIssuance' < TotalIssuance \/ TotalIssuance' = TotalIssuance
      <4>1. TotalIssuance' <= TotalIssuance /\ TotalIssuance \in Nat
        BY <2>1, <3>2, IssuanceTransfer, IssuanceNat
      <4>2. TotalIssuance' \in Nat
        BY <1>5, <2>1, BalancesStep, IssuanceNatNext
      <4> QED
        BY <4>1, <4>2
    <3> QED
      BY <1>5, <3>1, <3>2 DEF BalancesNext
  <2>4. CASE TotalIssuance' < TotalIssuance
    <3>1. Bank!Burn
      BY <2>1, <2>2, <2>4 DEF Bank!Burn, Deposits, Over
    <3> QED
      BY <3>1 DEF Bank!Next
  <2>5. CASE TotalIssuance' = TotalIssuance
    BY <2>1, <2>2, <2>5 DEF Bank!vars, Deposits, Over
  <2> QED
    BY <2>3, <2>4, <2>5
<1>6. CASE VerificationNext /\ UNCHANGED <<marketVars, balanceVars>>
  BY <1>1, <1>2, <1>6 DEF marketVars, balanceVars
<1>7. CASE UNCHANGED vars
  BY <1>1, <1>2, <1>7 DEF vars, marketVars, balanceVars
<1>8. CASE MarketCall /\ UNCHANGED verificationVars
  BY <1>3, <1>4, <1>8, BankStakePrediction, BankSettleMarket DEF MarketCall
<1> QED
  BY <1>5, <1>6, <1>7, <1>8 DEF Next

(* Staking is escrow: what stake_prediction reserves stays reserved until  *)
(* settle_market closes its market, which releases all of it at once and   *)
(* mints no more than it releases; nothing else mints.                     *)
THEOREM RuntimeImplementsEscrow == Spec => ImplementsEscrow
<1>1. MoneyInv /\ [Next]_vars => [Bank!Next]_(Bank!vars)
  BY BankStep
<1> QED
  BY MoneyAlways, BankInit, <1>1, PTL DEF Spec, ImplementsEscrow, Bank!Spec
=============================================================================
