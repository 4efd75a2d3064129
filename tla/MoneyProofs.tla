----------------------------- MODULE MoneyProofs -----------------------------
(***************************************************************************)
(* Theorems about the runtime's money and its records of models: what an   *)
(* account has reserved is what it has staked, a market's totals are those *)
(* of its stakes, a model's counters are its settled stakes, and a market  *)
(* pays out no more than its pool.  They hold for every set of accounts,   *)
(* models and markets, every amount and every scale of the scores.         *)
(***************************************************************************)
EXTENDS RuntimeProofs, SumProofs

(* The amounts a set of stakes adds up to, for any stakes map.             *)
Amounts(stakes, V) == SumFunction([s \in V |-> stakes[s].stake_amount])

LEMMA AmountsAreSums ==
    ASSUME NEW stakes, NEW V, IsFiniteSet(V), NEW f, \A s \in V : f[s] = stakes[s].stake_amount
    PROVE  Amounts(stakes, V) = SumFunctionOnSet(f, V)
<1> DEFINE g == [s \in V |-> stakes[s].stake_amount]
<1>1. \A s \in V : g[s] = f[s]
  OBVIOUS
<1>2. SumFunctionOnSet(g, V) = SumFunctionOnSet(f, V)
  <2> HIDE DEF g
  <2> QED
    BY <1>1, SumSame
<1>3. DOMAIN g = V
  OBVIOUS
<1>4. Amounts(stakes, V) = SumFunctionOnSet(g, DOMAIN g)
  BY DEF Amounts, SumFunction
<1> HIDE DEF g
<1> QED
  BY <1>2, <1>3, <1>4

(* Only the amounts of the stakes in the set matter, not who flags them.   *)
LEMMA AmountsSame ==
    ASSUME NEW stakes, NEW other, NEW V, IsFiniteSet(V),
           \A s \in V : other[s].stake_amount = stakes[s].stake_amount
    PROVE  Amounts(other, V) = Amounts(stakes, V)
<1> DEFINE f == [s \in V |-> stakes[s].stake_amount]
<1>1. \A s \in V : f[s] = stakes[s].stake_amount /\ f[s] = other[s].stake_amount
  OBVIOUS
<1> HIDE DEF f
<1>2. Amounts(other, V) = SumFunctionOnSet(f, V)
  BY <1>1, AmountsAreSums
<1>3. Amounts(stakes, V) = SumFunctionOnSet(f, V)
  BY <1>1, AmountsAreSums
<1> QED
  BY <1>2, <1>3

LEMMA AmountsEmpty ==
    ASSUME NEW stakes
    PROVE  Amounts(stakes, {}) = 0
<1> DEFINE f == [s \in {} |-> stakes[s].stake_amount]
<1>1. Amounts(stakes, {}) = SumFunctionOnSet(f, {})
  <2>1. \A s \in {} : f[s] = stakes[s].stake_amount
    OBVIOUS
  <2> HIDE DEF f
  <2> QED
    BY <2>1, FS_EmptySet, AmountsAreSums
<1> QED
  BY <1>1, SumEmpty

LEMMA AmountsNat ==
    ASSUME NEW stakes, NEW V, IsFiniteSet(V), \A s \in V : stakes[s].stake_amount \in Nat
    PROVE  Amounts(stakes, V) \in Nat
<1> DEFINE f == [s \in V |-> stakes[s].stake_amount]
<1>1. \A s \in V : f[s] = stakes[s].stake_amount /\ f[s] \in Nat
  OBVIOUS
<1> HIDE DEF f
<1>2. Amounts(stakes, V) = SumFunctionOnSet(f, V)
  BY <1>1, AmountsAreSums
<1> QED
  BY <1>1, <1>2, SumNat

(* A new stake adds its amount.                                            *)
LEMMA AmountsAdd ==
    ASSUME NEW stakes, NEW V, IsFiniteSet(V), \A s \in V : stakes[s].stake_amount \in Nat,
           NEW key, key \notin V, stakes[key].stake_amount \in Nat
    PROVE  Amounts(stakes, V \cup {key}) = Amounts(stakes, V) + stakes[key].stake_amount
<1> DEFINE f == [s \in V \cup {key} |-> stakes[s].stake_amount]
<1>1. /\ \A s \in V : f[s] = stakes[s].stake_amount
      /\ \A s \in V \cup {key} : f[s] = stakes[s].stake_amount
      /\ \A s \in V : f[s] \in Int
      /\ f[key] = stakes[key].stake_amount /\ f[key] \in Int
  OBVIOUS
<1>2. IsFiniteSet(V \cup {key})
  BY FS_AddElement
<1> HIDE DEF f
<1>3. Amounts(stakes, V) = SumFunctionOnSet(f, V)
  BY <1>1, AmountsAreSums
<1>4. Amounts(stakes, V \cup {key}) = SumFunctionOnSet(f, V \cup {key})
  <2> DEFINE W == V \cup {key}
  <2>1. IsFiniteSet(W) /\ \A s \in W : f[s] = stakes[s].stake_amount
    BY <1>1, <1>2
  <2> HIDE DEF W
  <2>2. Amounts(stakes, W) = SumFunctionOnSet(f, W)
    BY <2>1, AmountsAreSums
  <2> QED
    BY <2>2 DEF W
<1>5. SumFunctionOnSet(f, V \cup {key}) = SumFunctionOnSet(f, V) + f[key]
  BY <1>1, SumAdd
<1> QED
  BY <1>1, <1>3, <1>4, <1>5

(* Part of the stakes and the rest of them.                                *)
LEMMA AmountsSplit ==
    ASSUME NEW stakes, NEW V, IsFiniteSet(V), \A s \in V : stakes[s].stake_amount \in Nat,
           NEW W \in SUBSET V
    PROVE  Amounts(stakes, V) = Amounts(stakes, W) + Amounts(stakes, V \ W)
<1> DEFINE f == [s \in V |-> stakes[s].stake_amount]
           U == V \ W
<1>1. \A s \in V : f[s] = stakes[s].stake_amount /\ f[s] \in Int
  OBVIOUS
<1>2. IsFiniteSet(W) /\ IsFiniteSet(U) /\ U \in SUBSET V
  BY FS_Subset
<1> HIDE DEF f
<1>3. SumFunctionOnSet(f, V) = SumFunctionOnSet(f, W) + SumFunctionOnSet(f, U)
  BY <1>1, SumSplit
<1> HIDE DEF U
<1>4. Amounts(stakes, V) = SumFunctionOnSet(f, V)
  BY <1>1, AmountsAreSums
<1>5. Amounts(stakes, W) = SumFunctionOnSet(f, W)
  BY <1>1, <1>2, AmountsAreSums
<1>6. Amounts(stakes, U) = SumFunctionOnSet(f, U)
  BY <1>1, <1>2, AmountsAreSums
<1>7. Amounts(stakes, V) = Amounts(stakes, W) + Amounts(stakes, U)
  BY <1>3, <1>4, <1>5, <1>6
<1> QED
  BY <1>7 DEF U

LEMMA AmountsMember ==
    ASSUME NEW stakes, NEW V, IsFiniteSet(V), \A s \in V : stakes[s].stake_amount \in Nat,
           NEW key \in V
    PROVE  stakes[key].stake_amount <= Amounts(stakes, V)
<1> DEFINE f == [s \in V |-> stakes[s].stake_amount]
<1>1. \A s \in V : f[s] = stakes[s].stake_amount /\ f[s] \in Nat
  OBVIOUS
<1> HIDE DEF f
<1>2. Amounts(stakes, V) = SumFunctionOnSet(f, V)
  BY <1>1, AmountsAreSums
<1>3. f[key] <= SumFunctionOnSet(f, V)
  BY <1>1, SumMember
<1> QED
  BY <1>1, <1>2, <1>3

-----------------------------------------------------------------------------
(* The stakes map has finitely many keys, whatever is in it.               *)
LEMMA StakesAreFinite ==
    ASSUME MarketTypeOK
    PROVE  \A V \in SUBSET DOMAIN Stakes : IsFiniteSet(V)
<1>1. IsFiniteSet(MarketId \X ModelId)
  BY KeyAssumption, FS_Product DEF KeyAssumption
<1>2. DOMAIN Stakes \in SUBSET (MarketId \X ModelId)
  BY MarketRecords
<1> QED
  BY <1>1, <1>2, FS_Subset

LEMMA StakeAmountsAreNat ==
    ASSUME MarketTypeOK
    PROVE  \A s \in DOMAIN Stakes : /\ Stakes[s].stake_amount \in Nat \ {0}
                                    /\ Stakes[s].owner \in Account
BY MarketRecords DEF StakedPrediction

LEMMA SumStakesIsAmounts == \A V : SumStakes(V) = Amounts(Stakes, V)
BY DEF SumStakes, Amounts

(* What stake_prediction does to the stakes and the reserve behind them.   *)
Staked(who, market, model, amount) ==
    /\ amount \in Nat \ {0} /\ market \in DOMAIN Markets /\ model \in DOMAIN Models
    /\ Markets[market].participant_count < MAX_PARTICIPANTS
    /\ <<market, model>> \notin DOMAIN Stakes
    /\ DOMAIN Stakes' = DOMAIN Stakes \cup {<<market, model>>}
    /\ Stakes'[<<market, model>>].owner = who
    /\ Stakes'[<<market, model>>].stake_amount = amount
    /\ ~Stakes'[<<market, model>>].settled
    /\ \A s \in DOMAIN Stakes : Stakes'[s] = Stakes[s]
    /\ DOMAIN Markets' = DOMAIN Markets
    /\ \A k \in DOMAIN Markets : k # market => Markets'[k] = Markets[k]
    /\ Markets'[market].participant_count = Markets[market].participant_count + 1
    /\ Markets'[market].total_stake = Markets[market].total_stake + amount
    /\ UNCHANGED Models
    /\ free' \in [Account -> Nat] /\ reserved' \in [Account -> Nat]
    /\ free'[who] = free[who] - amount /\ free'[who] >= ExistentialDeposit
    /\ reserved'[who] = reserved[who] + amount
    /\ \A a \in Account : a # who => free'[a] = free[a] /\ reserved'[a] = reserved[a]

LEMMA StakeEffect ==
    ASSUME MarketTypeOK, BalancesTypeOK, NEW who \in Account, NEW market \in MarketId,
           NEW model \in ModelId, NEW prediction \in PredictionId, NEW amount \in StakeAmount,
           StakePrediction(who, market, model, prediction, amount)
    PROVE  Staked(who, market, model, amount)
<1>1. /\ amount \in Nat \ {0} /\ market \in DOMAIN Markets /\ model \in DOMAIN Models
      /\ Markets[market].participant_count < MAX_PARTICIPANTS
      /\ <<market, model>> \notin DOMAIN Stakes
      /\ RecordStake(who, market, model, prediction, amount)
      /\ UNCHANGED Models
  BY MarketAssumption DEF StakePrediction, RecordStake
<1>2. /\ free[who] - amount >= ExistentialDeposit
      /\ free' = [free EXCEPT ![who] = @ - amount]
      /\ reserved' = [reserved EXCEPT ![who] = @ + amount]
  BY DEF StakePrediction, Reserve, CanReserve
<1>3. /\ free' \in [Account -> Nat] /\ reserved' \in [Account -> Nat]
      /\ free'[who] = free[who] - amount /\ free'[who] >= ExistentialDeposit
      /\ reserved'[who] = reserved[who] + amount
      /\ \A a \in Account : a # who => free'[a] = free[a] /\ reserved'[a] = reserved[a]
  BY <1>1, <1>2, BalancesAssumption DEF BalancesTypeOK, BalancesAssumption
<1>4. /\ DOMAIN Stakes' = DOMAIN Stakes \cup {<<market, model>>}
      /\ Stakes'[<<market, model>>] =
           [owner |-> who, prediction_id |-> prediction, stake_amount |-> amount,
            settled |-> FALSE]
      /\ ~Stakes'[<<market, model>>].settled
      /\ \A s \in DOMAIN Stakes : Stakes'[s] = Stakes[s]
      /\ DOMAIN Markets' = DOMAIN Markets
      /\ \A k \in DOMAIN Markets : k # market => Markets'[k] = Markets[k]
      /\ Markets'[market].participant_count = Markets[market].participant_count + 1
      /\ Markets'[market].total_stake = Markets[market].total_stake + amount
  BY <1>1, RecordStakeEffect
<1>5. /\ Stakes'[<<market, model>>].owner = who
      /\ Stakes'[<<market, model>>].stake_amount = amount
  BY <1>4
<1> QED
  BY <1>1, <1>3, <1>4, <1>5 DEF Staked

(* Adding one stake to a set of stakes whose other members are kept.       *)
LEMMA StakedSum ==
    ASSUME MarketTypeOK, NEW V \in SUBSET DOMAIN Stakes, NEW key, key \notin DOMAIN Stakes,
           \A s \in V : Stakes'[s] = Stakes[s], Stakes'[key].stake_amount \in Nat
    PROVE  /\ Amounts(Stakes', V) = Amounts(Stakes, V)
           /\ Amounts(Stakes', V \cup {key}) = Amounts(Stakes, V) + Stakes'[key].stake_amount
<1>1. IsFiniteSet(V) /\ \A s \in V : Stakes[s].stake_amount \in Nat
  BY StakesAreFinite, StakeAmountsAreNat
<1> DEFINE new == Stakes'
<1>2. /\ \A s \in V : new[s].stake_amount = Stakes[s].stake_amount
      /\ \A s \in V : new[s].stake_amount \in Nat
      /\ key \notin V /\ new[key].stake_amount \in Nat
  BY <1>1
<1> HIDE DEF new
<1>3. Amounts(new, V) = Amounts(Stakes, V)
  BY <1>1, <1>2, AmountsSame
<1>4. Amounts(new, V \cup {key}) = Amounts(new, V) + new[key].stake_amount
  BY <1>1, <1>2, AmountsAdd
<1> QED
  BY <1>3, <1>4 DEF new

-----------------------------------------------------------------------------
(* What the accounts are owed: the inductive invariant of the money.       *)
MoneyInv == /\ Inv
            /\ VerificationTypeOK
            /\ BalancesTypeOK
            /\ ReserveBacksStakes
            /\ BooksBalance
            /\ StakersStayAlive

(* An account's outstanding stakes are backed one by one, so one with a    *)
(* stake outstanding has something reserved.                               *)
LEMMA StakersHaveReserves ==
    ASSUME MarketTypeOK, ReserveBacksStakes,
           NEW s \in DOMAIN Stakes, ~Stakes[s].settled
    PROVE  /\ Stakes[s].owner \in Account
           /\ reserved[Stakes[s].owner] >= Stakes[s].stake_amount
           /\ Stakes[s].stake_amount > 0
<1> DEFINE V == Unsettled(StakesOf(Stakes[s].owner))
<1>1. s \in V /\ V \in SUBSET DOMAIN Stakes
  BY DEF Unsettled, StakesOf
<1>2. Stakes[s].owner \in Account /\ Stakes[s].stake_amount \in Nat \ {0}
  BY StakeAmountsAreNat
<1>3. reserved[Stakes[s].owner] = Amounts(Stakes, V)
  BY <1>2, SumStakesIsAmounts DEF ReserveBacksStakes
<1>4. IsFiniteSet(V) /\ \A x \in V : Stakes[x].stake_amount \in Nat
  BY <1>1, StakesAreFinite, StakeAmountsAreNat
<1> HIDE DEF V
<1>5. Stakes[s].stake_amount <= Amounts(Stakes, V) /\ Amounts(Stakes, V) \in Nat
  BY <1>1, <1>4, AmountsMember, AmountsNat
<1> QED
  BY <1>2, <1>3, <1>5

(* stake_prediction reserves what it records.                              *)
LEMMA ReserveStakePrediction ==
    ASSUME MoneyInv, NEW who \in Account, NEW market \in MarketId,
           NEW model \in ModelId, NEW prediction \in PredictionId, NEW amount \in StakeAmount,
           StakePrediction(who, market, model, prediction, amount)
    PROVE  ReserveBacksStakes'
<1> DEFINE key == <<market, model>>
           Open(a) == Unsettled(StakesOf(a))
<1>0. Staked(who, market, model, amount)
  BY StakeEffect DEF MoneyInv, Inv
<1>1. /\ key \notin DOMAIN Stakes /\ DOMAIN Stakes' = DOMAIN Stakes \cup {key}
      /\ Stakes'[key].owner = who /\ Stakes'[key].stake_amount = amount
      /\ ~Stakes'[key].settled
      /\ \A s \in DOMAIN Stakes : Stakes'[s] = Stakes[s]
      /\ amount \in Nat
      /\ reserved'[who] = reserved[who] + amount
      /\ \A a \in Account : a # who => reserved'[a] = reserved[a]
  BY <1>0 DEF Staked
<1> HIDE DEF key
<1>2. SUFFICES ASSUME NEW a \in Account
               PROVE  reserved'[a] = Amounts(Stakes', Open(a)')
  BY DEF ReserveBacksStakes, SumStakes, Amounts
<1>3. Open(a) \in SUBSET DOMAIN Stakes
  BY DEF Unsettled, StakesOf
<1>4. reserved[a] = Amounts(Stakes, Open(a))
  BY SumStakesIsAmounts DEF MoneyInv, ReserveBacksStakes
<1>5. /\ Amounts(Stakes', Open(a)) = Amounts(Stakes, Open(a))
      /\ Amounts(Stakes', Open(a) \cup {key}) = Amounts(Stakes, Open(a)) + amount
  <2>1. \A s \in Open(a) : Stakes'[s] = Stakes[s]
    BY <1>1, <1>3
  <2> DEFINE V == Open(a)
  <2> HIDE DEF V
  <2>2. MarketTypeOK
    BY DEF MoneyInv, Inv
  <2>3. /\ Amounts(Stakes', V) = Amounts(Stakes, V)
        /\ Amounts(Stakes', V \cup {key}) = Amounts(Stakes, V) + Stakes'[key].stake_amount
    BY <1>1, <1>3, <2>1, <2>2, StakedSum DEF V
  <2> QED
    BY <1>1, <2>3 DEF V
<1>6. CASE a = who
  <2>1. Open(a)' = Open(a) \cup {key}
    BY <1>1, <1>6 DEF Unsettled, StakesOf
  <2>2. Amounts(Stakes', Open(a)') = Amounts(Stakes', Open(a) \cup {key})
    BY <2>1, Zenon
  <2> QED
    BY <1>1, <1>4, <1>5, <1>6, <2>2
<1>7. CASE a # who
  <2>1. Open(a)' = Open(a)
    BY <1>1, <1>7 DEF Unsettled, StakesOf
  <2>2. Amounts(Stakes', Open(a)') = Amounts(Stakes', Open(a))
    BY <2>1, Zenon
  <2> QED
    BY <1>1, <1>4, <1>5, <1>7, <2>2
<1> QED
  BY <1>6, <1>7

LEMMA AliveStakePrediction ==
    ASSUME MoneyInv, NEW who \in Account, NEW market \in MarketId,
           NEW model \in ModelId, NEW prediction \in PredictionId, NEW amount \in StakeAmount,
           StakePrediction(who, market, model, prediction, amount)
    PROVE  StakersStayAlive'
<1> DEFINE key == <<market, model>>
<1>0. Staked(who, market, model, amount)
  BY StakeEffect DEF MoneyInv, Inv
<1>1. /\ DOMAIN Stakes' = DOMAIN Stakes \cup {key} /\ Stakes'[key].owner = who
      /\ \A s \in DOMAIN Stakes : Stakes'[s] = Stakes[s]
      /\ free'[who] >= ExistentialDeposit
      /\ \A a \in Account : a # who => free'[a] = free[a]
  BY <1>0 DEF Staked
<1> HIDE DEF key
<1>2. \A s \in DOMAIN Stakes : Stakes[s].owner \in Account
  BY StakeAmountsAreNat DEF MoneyInv, Inv
<1> QED
  BY <1>1, <1>2 DEF MoneyInv, StakersStayAlive

(* and adds it to the totals of its market.                                *)
LEMMA BooksStakePrediction ==
    ASSUME MoneyInv, NEW who \in Account, NEW market \in MarketId,
           NEW model \in ModelId, NEW prediction \in PredictionId, NEW amount \in StakeAmount,
           StakePrediction(who, market, model, prediction, amount)
    PROVE  BooksBalance'
<1> DEFINE key == <<market, model>>
<1>0. Staked(who, market, model, amount) /\ MarketTypeOK
  BY StakeEffect DEF MoneyInv, Inv
<1>1. /\ key \notin DOMAIN Stakes /\ DOMAIN Stakes' = DOMAIN Stakes \cup {key}
      /\ Stakes'[key].stake_amount = amount
      /\ \A s \in DOMAIN Stakes : Stakes'[s] = Stakes[s]
      /\ amount \in Nat /\ market \in DOMAIN Markets
  BY <1>0 DEF Staked
<1>2. /\ model \in DOMAIN Models /\ UNCHANGED Models
      /\ Markets[market].participant_count < MAX_PARTICIPANTS
      /\ DOMAIN Markets' = DOMAIN Markets
      /\ \A k \in DOMAIN Markets : k # market => Markets'[k] = Markets[k]
      /\ Markets'[market].participant_count = Markets[market].participant_count + 1
      /\ Markets'[market].total_stake = Markets[market].total_stake + amount
  BY <1>0 DEF Staked
<1>3. \A s \in DOMAIN Stakes' : s[1] \in DOMAIN Markets' /\ s[2] \in DOMAIN Models'
  BY <1>1, <1>2 DEF MoneyInv, BooksBalance
<1>4. ASSUME NEW k \in DOMAIN Markets
      PROVE  /\ Markets'[k].total_stake = Amounts(Stakes', StakesOn(k)')
             /\ Markets'[k].participant_count = Cardinality(StakesOn(k)')
             /\ Markets'[k].participant_count <= MAX_PARTICIPANTS
  <2> DEFINE V == StakesOn(k)
  <2>1. V \in SUBSET DOMAIN Stakes /\ IsFiniteSet(V)
    BY <1>0, StakesAreFinite DEF StakesOn
  <2>2. /\ Markets[k].total_stake = Amounts(Stakes, V)
        /\ Markets[k].participant_count = Cardinality(V)
        /\ Markets[k].participant_count <= MAX_PARTICIPANTS
    BY SumStakesIsAmounts DEF MoneyInv, BooksBalance
  <2>3. StakesOn(k)' = IF k = market THEN V \cup {key} ELSE V
    BY <1>1 DEF StakesOn
  <2> HIDE DEF V, key
  <2>4. /\ Amounts(Stakes', V) = Amounts(Stakes, V)
        /\ Amounts(Stakes', V \cup {key}) = Amounts(Stakes, V) + amount
    <3>1. \A s \in V : Stakes'[s] = Stakes[s]
      BY <1>1, <2>1
    <3>2. /\ Amounts(Stakes', V) = Amounts(Stakes, V)
          /\ Amounts(Stakes', V \cup {key}) = Amounts(Stakes, V) + Stakes'[key].stake_amount
      BY <1>0, <1>1, <2>1, <3>1, StakedSum
    <3> QED
      BY <1>1, <3>2
  <2>5. CASE k = market
    <3>1. StakesOn(k)' = V \cup {key}
      BY <2>3, <2>5
    <3>2. /\ Amounts(Stakes', StakesOn(k)') = Amounts(Stakes', V \cup {key})
          /\ Cardinality(StakesOn(k)') = Cardinality(V \cup {key})
      BY <3>1, Zenon
    <3>3. Cardinality(V \cup {key}) = Cardinality(V) + 1
      BY <1>1, <2>1, FS_AddElement
    <3>4. Markets[k].participant_count \in Nat
      BY <1>0, MarketRecords DEF MarketRound
    <3> QED
      BY <1>1, <1>2, <2>2, <2>4, <2>5, <3>2, <3>3, <3>4, MarketAssumption DEF MarketAssumption
  <2>6. CASE k # market
    <3>1. StakesOn(k)' = V
      BY <2>3, <2>6
    <3>2. /\ Amounts(Stakes', StakesOn(k)') = Amounts(Stakes', V)
          /\ Cardinality(StakesOn(k)') = Cardinality(V)
      BY <3>1, Zenon
    <3> QED
      BY <1>1, <1>2, <2>2, <2>4, <2>6, <3>2
  <2> QED
    BY <2>5, <2>6
<1> QED
  BY <1>1, <1>2, <1>3, <1>4 DEF BooksBalance, SumStakes, Amounts

-----------------------------------------------------------------------------
(* What settle_market unreserves for an owner, as a sum over its stakes.   *)
LEMMA StakedByIsAmounts ==
    ASSUME MarketTypeOK, NEW a, NEW k \in MarketId
    PROVE  /\ StakedBy(a, k) = Amounts(Stakes, StakesOn(k) \cap StakesOf(a))
           /\ StakedBy(a, k) \in Nat
<1> DEFINE S == OwnedBy(a, k)
           V == StakesOn(k) \cap StakesOf(a)
           f == [m \in S |-> Stakes[<<k, m>>].stake_amount]
           g == [s \in V |-> Stakes[s].stake_amount]
           h == [m \in S |-> <<k, m>>]
<1>1. IsFiniteSet(S)
  <2>1. S \in SUBSET ModelId
    BY DEF OwnedBy, Entrants
  <2> QED
    BY <2>1, KeyAssumption, FS_Subset DEF KeyAssumption
<1>2. V \in SUBSET DOMAIN Stakes
  BY DEF StakesOn
<1>3. IsFiniteSet(V) /\ \A s \in V : Stakes[s].stake_amount \in Nat
  BY <1>2, StakesAreFinite, StakeAmountsAreNat
<1>4. V = {h[m] : m \in S}
  <2>1. \A s \in DOMAIN Stakes : s = <<s[1], s[2]>> /\ s[2] \in ModelId
    BY MarketRecords
  <2>2. ASSUME NEW s \in V PROVE s \in {h[m] : m \in S}
    <3>1. s = <<k, s[2]>> /\ s[2] \in ModelId /\ s \in DOMAIN Stakes /\ Stakes[s].owner = a
      BY <2>1 DEF StakesOn, StakesOf
    <3>2. s[2] \in S
      BY <3>1 DEF OwnedBy, Entrants
    <3> QED
      BY <3>1, <3>2
  <2>3. ASSUME NEW m \in S PROVE h[m] \in V
    BY DEF OwnedBy, Entrants, StakesOn, StakesOf
  <2> QED
    BY <2>2, <2>3
<1>5. /\ \A m \in S : h[m] \in V
      /\ \A m, n \in S : h[m] = h[n] => m = n
  BY <1>4
<1>6. \A m \in S : f[m] \in Int /\ g[h[m]] = f[m]
  <2> SUFFICES ASSUME NEW m \in S PROVE f[m] \in Int /\ g[h[m]] = f[m]
    OBVIOUS
  <2>1. h[m] \in V /\ h[m] = <<k, m>>
    BY <1>5
  <2>2. g[h[m]] = Stakes[h[m]].stake_amount /\ f[m] = Stakes[<<k, m>>].stake_amount
    BY <2>1
  <2> QED
    BY <1>3, <2>1, <2>2
<1>7. SumFunctionOnSet(g, {h[m] : m \in S}) = SumFunctionOnSet(f, S)
  <2> HIDE DEF S, f, g, h
  <2> QED
    BY <1>1, <1>5, <1>6, SumRenamed
<1>8. SumFunctionOnSet(g, V) = SumFunctionOnSet(f, S)
  <2> HIDE DEF S, V, f, g, h
  <2> QED
    BY <1>4, <1>7, Zenon
<1>9. Amounts(Stakes, V) = SumFunctionOnSet(g, V)
  <2>1. \A s \in V : g[s] = Stakes[s].stake_amount
    OBVIOUS
  <2> HIDE DEF V, g
  <2> QED
    BY <1>3, <2>1, AmountsAreSums
<1>10. StakedBy(a, k) = SumFunctionOnSet(f, S)
  <2>1. DOMAIN f = S
    OBVIOUS
  <2>2. StakedBy(a, k) = SumFunctionOnSet(f, DOMAIN f)
    BY DEF StakedBy, SumFunction
  <2> HIDE DEF f, S
  <2> QED
    BY <2>1, <2>2, Zenon
<1>11. Amounts(Stakes, V) \in Nat
  <2> HIDE DEF V
  <2> QED
    BY <1>3, AmountsNat
<1> QED
  BY <1>8, <1>9, <1>10, <1>11

(* An owner's outstanding stakes are those on one open market and the rest. *)
LEMMA OpenStakesSplit ==
    ASSUME Inv, ReserveBacksStakes, NEW a \in Account,
           NEW k \in DOMAIN Markets, ~IsSettled(k)
    PROVE  LET Open == Unsettled(StakesOf(a))
               rest == {s \in Open : s[1] # k}
           IN  /\ reserved[a] = StakedBy(a, k) + Amounts(Stakes, rest)
               /\ StakedBy(a, k) \in Nat /\ Amounts(Stakes, rest) \in Nat
<1> DEFINE Open == Unsettled(StakesOf(a))
           rest == {s \in Open : s[1] # k}
           V == StakesOn(k) \cap StakesOf(a)
<1>1. MarketTypeOK /\ k \in MarketId
  BY MarketRecords DEF Inv
<1>2. Open \in SUBSET DOMAIN Stakes /\ V \in SUBSET Open /\ Open \ V = rest
  BY DEF Inv, SettledTogether, Unsettled, StakesOf, StakesOn
<1>3. IsFiniteSet(Open) /\ \A s \in Open : Stakes[s].stake_amount \in Nat
  BY <1>1, <1>2, StakesAreFinite, StakeAmountsAreNat
<1>4. reserved[a] = Amounts(Stakes, Open)
  BY SumStakesIsAmounts DEF ReserveBacksStakes
<1>5. StakedBy(a, k) = Amounts(Stakes, V) /\ StakedBy(a, k) \in Nat
  BY <1>1, StakedByIsAmounts
<1> HIDE DEF Open, V, rest
<1>6. Amounts(Stakes, Open) = Amounts(Stakes, V) + Amounts(Stakes, Open \ V)
  BY <1>2, <1>3, AmountsSplit
<1>7. Amounts(Stakes, Open \ V) = Amounts(Stakes, rest)
  BY <1>2, Zenon
<1>8. Amounts(Stakes, rest) \in Nat
  <2>1. rest \in SUBSET Open
    BY <1>2
  <2>2. IsFiniteSet(rest) /\ \A s \in rest : Stakes[s].stake_amount \in Nat
    BY <1>3, <2>1, FS_Subset
  <2> QED
    BY <2>2, AmountsNat
<1>9. reserved[a] = StakedBy(a, k) + Amounts(Stakes, rest)
  BY <1>4, <1>5, <1>6, <1>7
<1> QED
  BY <1>5, <1>8, <1>9 DEF rest, Open

-----------------------------------------------------------------------------
(* Scores are in range: squares and quotients of naturals are naturals.    *)
LEMMA SquareNat == \A n \in Int : n * n \in Nat
<1> SUFFICES ASSUME NEW n \in Int PROVE n * n \in Nat
  OBVIOUS
<1>1. CASE n >= 0
  BY <1>1
<1>2. CASE n < 0
  <2>1. n * n = (-n) * (-n) /\ -n \in Nat
    BY <1>2
  <2> QED
    BY <2>1
<1> QED
  BY <1>1, <1>2

LEMMA QuotientNat == \A n \in Nat, d \in Nat \ {0} : n \div d \in Nat
OBVIOUS

LEMMA SaturateNat ==
    ASSUME NEW n \in Nat
    PROVE  /\ SaturateI128(n) \in Nat /\ SaturateU128(n) \in Nat
           /\ SaturateU128(n) <= n /\ (n > 0 => SaturateU128(n) > 0)
BY MarketAssumption DEF MarketAssumption, SaturateI128, SaturateU128, Lesser

LEMMA InverseScoreType ==
    ASSUME NEW prediction \in Int, NEW outcome \in Int
    PROVE  InverseScore(prediction, outcome) \in 0..MaxBrier
<1> DEFINE d == SaturateI128(prediction - outcome)
<1>1. d \in Int
  BY MarketAssumption DEF MarketAssumption, SaturateI128, Lesser
<1>2. d * d \in Nat
  <2> HIDE DEF d
  <2> QED
    BY <1>1, SquareNat
<1>3. SaturateI128(d * d) \in Nat
  <2> HIDE DEF d
  <2> QED
    BY <1>2, SaturateNat
<1>4. SaturateI128(d * d) \div BrierDivisor \in Nat
  <2> HIDE DEF d
  <2> QED
    BY <1>3, QuotientNat, MarketAssumption DEF MarketAssumption
<1>5. Brier(prediction, outcome) \in Nat
  BY <1>4 DEF Brier
<1> QED
  BY <1>5, MarketAssumption DEF MarketAssumption, InverseScore, Lesser

LEMMA EntrantsAreFinite ==
    ASSUME NEW k
    PROVE  \A V \in SUBSET Entrants(k) : IsFiniteSet(V)
BY KeyAssumption, FS_Subset DEF KeyAssumption, Entrants

LEMMA ScoreType ==
    ASSUME MarketTypeOK, VerificationTypeOK, NEW k \in DOMAIN Markets,
           Markets[k].prediction_id \in DOMAIN GroundTruths, NEW m \in Entrants(k)
    PROVE  Score(k, m) \in 0..MaxBrier
<1> DEFINE id == Stakes[<<k, m>>].prediction_id
           outcome == GroundTruths[Markets[k].prediction_id].outcome
<1>1. I128 \subseteq Int
  BY MarketAssumption DEF MarketAssumption
<1>2. outcome \in Int
  BY <1>1, RecordTypes DEF GroundTruth
<1>3. CASE id \in DOMAIN Reveals
  <2>1. Reveals[id].prediction \in Int
    BY <1>1, <1>3, RecordTypes DEF RevealedPrediction
  <2>2. Score(k, m) = InverseScore(Reveals[id].prediction, outcome)
    BY <1>3 DEF Score
  <2> HIDE DEF id, outcome
  <2> QED
    BY <1>2, <2>1, <2>2, InverseScoreType
<1>4. CASE id \notin DOMAIN Reveals
  BY <1>4, MarketAssumption DEF MarketAssumption, Score
<1> QED
  BY <1>3, <1>4

(* The scores of a market, and what they add up to.                        *)
Scores(k) == [m \in Entrants(k) |-> Score(k, m)]
ScoreSum(k) == SumFunctionOnSet(Scores(k), Entrants(k))

LEMMA TotalScoreType ==
    ASSUME MarketTypeOK, VerificationTypeOK, NEW k \in DOMAIN Markets,
           Markets[k].prediction_id \in DOMAIN GroundTruths
    PROVE  /\ ScoreSum(k) \in Nat /\ TotalScore(k) = SaturateU128(ScoreSum(k))
           /\ TotalScore(k) \in Nat
           /\ \A m \in Entrants(k) : /\ Score(k, m) <= ScoreSum(k)
                                     /\ Score(k, m) > 0 => TotalScore(k) > 0
<1>1. IsFiniteSet(Entrants(k))
  BY EntrantsAreFinite
<1>2. \A m \in Entrants(k) : Scores(k)[m] = Score(k, m) /\ Scores(k)[m] \in Nat
  BY ScoreType, MarketAssumption DEF MarketAssumption, Scores
<1>3. ScoreSum(k) \in Nat
  BY <1>1, <1>2, SumNat DEF ScoreSum
<1>4. TotalScore(k) = SaturateU128(ScoreSum(k))
  BY DEF TotalScore, ScoreSum, Scores, SumFunction
<1>5. \A m \in Entrants(k) : Score(k, m) <= ScoreSum(k)
  BY <1>1, <1>2, SumMember DEF ScoreSum
<1>6. TotalScore(k) \in Nat /\ (ScoreSum(k) > 0 => TotalScore(k) > 0)
  BY <1>3, <1>4, SaturateNat
<1> QED
  BY <1>2, <1>3, <1>4, <1>5, <1>6

LEMMA ProductNat == \A m, n \in Nat : m * n \in Nat
OBVIOUS

LEMMA RewardType ==
    ASSUME MarketTypeOK, VerificationTypeOK, NEW k \in DOMAIN Markets,
           Markets[k].prediction_id \in DOMAIN GroundTruths, NEW m \in Entrants(k)
    PROVE  Reward(k, m) \in Nat
<1>1. Score(k, m) \in Nat /\ Markets[k].total_stake \in Nat
  BY ScoreType, MarketRecords, MarketAssumption DEF MarketAssumption, MarketRound
<1>2. CASE Score(k, m) > 0
  <2>1. TotalScore(k) \in Nat \ {0}
    BY <1>2, TotalScoreType
  <2>2. SaturateU128(Markets[k].total_stake * Score(k, m)) \in Nat
    BY <1>1, ProductNat, SaturateNat
  <2> QED
    BY <1>2, <2>1, <2>2, QuotientNat DEF Reward
<1>3. CASE ~(Score(k, m) > 0)
  BY <1>3 DEF Reward
<1> QED
  BY <1>2, <1>3

(* The rewards of a market, and what an owner is paid out of them.         *)
Rewards(k) == [m \in Entrants(k) |-> Reward(k, m)]

LEMMA RewardOfIsSum ==
    ASSUME NEW a, NEW k
    PROVE  RewardOf(a, k) = SumFunctionOnSet(Rewards(k), OwnedBy(a, k))
<1> DEFINE S == OwnedBy(a, k)
           f == [m \in S |-> Reward(k, m)]
<1>1. \A m \in S : f[m] = Rewards(k)[m]
  BY DEF OwnedBy, Rewards
<1>2. IsFiniteSet(S)
  BY EntrantsAreFinite DEF OwnedBy
<1>3. RewardOf(a, k) = SumFunctionOnSet(f, DOMAIN f) /\ DOMAIN f = S
  BY DEF RewardOf, SumFunction
<1>4. SumFunctionOnSet(f, S) = SumFunctionOnSet(Rewards(k), S)
  <2> HIDE DEF f, S
  <2> QED
    BY <1>1, <1>2, SumSame
<1> HIDE DEF f
<1> QED
  BY <1>3, <1>4

LEMMA RewardOfType ==
    ASSUME MarketTypeOK, VerificationTypeOK, NEW k \in DOMAIN Markets,
           Markets[k].prediction_id \in DOMAIN GroundTruths, NEW a
    PROVE  RewardOf(a, k) \in Nat
<1>1. OwnedBy(a, k) \in SUBSET Entrants(k)
  BY DEF OwnedBy
<1>2. IsFiniteSet(OwnedBy(a, k))
  BY <1>1, EntrantsAreFinite
<1>3. \A m \in OwnedBy(a, k) : Rewards(k)[m] \in Nat
  BY <1>1, RewardType DEF Rewards
<1> QED
  BY <1>2, <1>3, SumNat, RewardOfIsSum

-----------------------------------------------------------------------------
(* What settle_market does to stakes, totals and balances: every owner's   *)
(* stakes on the market are released in full and its rewards are added.    *)
PaidOut(market) ==
    /\ market \in DOMAIN Markets /\ ~IsSettled(market)
    /\ Markets[market].prediction_id \in DOMAIN GroundTruths
    /\ DOMAIN Stakes' = DOMAIN Stakes
    /\ \A s \in DOMAIN Stakes : /\ s[1] # market => Stakes'[s] = Stakes[s]
                                /\ s[1] = market => Stakes'[s].settled
                                /\ Stakes'[s].owner = Stakes[s].owner
                                /\ Stakes'[s].stake_amount = Stakes[s].stake_amount
    /\ DOMAIN Models' = DOMAIN Models
    /\ DOMAIN Markets' = DOMAIN Markets
    /\ \A k \in DOMAIN Markets :
         /\ Markets'[k].total_stake = Markets[k].total_stake
         /\ Markets'[k].participant_count = Markets[k].participant_count
    /\ \A a \in Account :
         /\ reserved'[a] = reserved[a] - StakedBy(a, market)
         /\ free'[a] = free[a] + StakedBy(a, market) + Deposited(a, RewardOf(a, market))
         /\ StakedBy(a, market) \in Nat /\ RewardOf(a, market) \in Nat
         /\ StakedBy(a, market) <= reserved[a]
    /\ free' \in [Account -> Nat] /\ reserved' \in [Account -> Nat]

LEMMA SettleEffect ==
    ASSUME MoneyInv, NEW market \in MarketId, SettleMarket(market)
    PROVE  PaidOut(market)
<1>1. /\ market \in DOMAIN Markets /\ ~IsSettled(market)
      /\ Markets[market].prediction_id \in DOMAIN GroundTruths
      /\ PayOut(market)
  BY DEF SettleMarket, IsSettled
<1>2. /\ MarketTypeOK /\ VerificationTypeOK /\ Inv /\ ReserveBacksStakes
      /\ free \in [Account -> Nat] /\ reserved \in [Account -> Nat]
  BY DEF MoneyInv, Inv, BalancesTypeOK
<1>3. ASSUME NEW a \in Account
      PROVE  /\ StakedBy(a, market) \in Nat /\ RewardOf(a, market) \in Nat
             /\ StakedBy(a, market) <= reserved[a]
             /\ Unreserved(a, StakedBy(a, market)) = StakedBy(a, market)
             /\ Deposited(a, RewardOf(a, market)) \in Nat
  <2>1. \E n \in Nat : reserved[a] = StakedBy(a, market) + n /\ StakedBy(a, market) \in Nat
    BY <1>1, <1>2, OpenStakesSplit
  <2>2. RewardOf(a, market) \in Nat
    BY <1>1, <1>2, RewardOfType
  <2> QED
    BY <2>1, <2>2 DEF Unreserved, Deposited, Lesser
<1>4. /\ free' = [a \in Account |-> free[a] + Unreserved(a, StakedBy(a, market))
                                            + Deposited(a, RewardOf(a, market))]
      /\ reserved' = [a \in Account |-> reserved[a] - Unreserved(a, StakedBy(a, market))]
  BY <1>1 DEF PayOut
<1>5. \A a \in Account :
         /\ reserved'[a] = reserved[a] - StakedBy(a, market)
         /\ free'[a] = free[a] + StakedBy(a, market) + Deposited(a, RewardOf(a, market))
  BY <1>3, <1>4
<1>6. \A a \in Account : free'[a] \in Nat /\ reserved'[a] \in Nat
  BY <1>2, <1>3, <1>5
<1>7. free' \in [Account -> Nat] /\ reserved' \in [Account -> Nat]
  BY <1>4, <1>6
<1>8. /\ DOMAIN Models' = DOMAIN Models
      /\ DOMAIN Stakes' = DOMAIN Stakes
      /\ \A s \in DOMAIN Stakes : /\ s[1] # market => Stakes'[s] = Stakes[s]
                                  /\ s[1] = market => Stakes'[s].settled
                                  /\ Stakes'[s].owner = Stakes[s].owner
                                  /\ Stakes'[s].stake_amount = Stakes[s].stake_amount
      /\ DOMAIN Markets' = DOMAIN Markets
      /\ \A k \in DOMAIN Markets : k # market => Markets'[k] = Markets[k]
      /\ Markets'[market].participant_count = Markets[market].participant_count
      /\ Markets'[market].total_stake = Markets[market].total_stake
  BY <1>1, <1>2, PayOutEffect
<1>9. \A k \in DOMAIN Markets :
         /\ Markets'[k].total_stake = Markets[k].total_stake
         /\ Markets'[k].participant_count = Markets[k].participant_count
  BY <1>8
<1> QED
  BY <1>1, <1>3, <1>5, <1>7, <1>8, <1>9 DEF PaidOut

LEMMA ReserveSettleMarket ==
    ASSUME MoneyInv, NEW market \in MarketId, SettleMarket(market)
    PROVE  ReserveBacksStakes'
<1>0. PaidOut(market) /\ Inv /\ ReserveBacksStakes /\ MarketTypeOK
  BY SettleEffect DEF MoneyInv, Inv
<1>1. /\ market \in DOMAIN Markets /\ ~IsSettled(market)
      /\ DOMAIN Stakes' = DOMAIN Stakes
      /\ \A s \in DOMAIN Stakes : /\ s[1] # market => Stakes'[s] = Stakes[s]
                                  /\ s[1] = market => Stakes'[s].settled
                                  /\ Stakes'[s].owner = Stakes[s].owner
                                  /\ Stakes'[s].stake_amount = Stakes[s].stake_amount
  BY <1>0 DEF PaidOut
<1>2. SUFFICES ASSUME NEW a \in Account
               PROVE  reserved'[a] = Amounts(Stakes', Unsettled(StakesOf(a))')
  BY DEF ReserveBacksStakes, SumStakes, Amounts
<1> DEFINE rest == {s \in Unsettled(StakesOf(a)) : s[1] # market}
<1>3. /\ reserved[a] = StakedBy(a, market) + Amounts(Stakes, rest)
      /\ StakedBy(a, market) \in Nat /\ Amounts(Stakes, rest) \in Nat
  BY <1>0, <1>1, OpenStakesSplit
<1>4. reserved'[a] = reserved[a] - StakedBy(a, market)
  BY <1>0 DEF PaidOut
<1>5. Unsettled(StakesOf(a))' = rest
  BY <1>1 DEF Unsettled, StakesOf
<1>6. rest \in SUBSET DOMAIN Stakes
  BY DEF Unsettled, StakesOf
<1>7. Amounts(Stakes', rest) = Amounts(Stakes, rest)
  <2>1. \A s \in rest : Stakes'[s].stake_amount = Stakes[s].stake_amount
    BY <1>1, <1>6
  <2>2. IsFiniteSet(rest)
    BY <1>0, <1>6, StakesAreFinite
  <2> HIDE DEF rest
  <2> QED
    BY <2>1, <2>2, AmountsSame
<1>8. Amounts(Stakes', Unsettled(StakesOf(a))') = Amounts(Stakes', rest)
  BY <1>5, Zenon
<1> QED
  <2> HIDE DEF rest
  <2>1. reserved'[a] = Amounts(Stakes, rest)
    BY <1>3, <1>4
  <2> QED
    BY <2>1, <1>7, <1>8

LEMMA AliveSettleMarket ==
    ASSUME MoneyInv, NEW market \in MarketId, SettleMarket(market)
    PROVE  StakersStayAlive'
<1>0. PaidOut(market) /\ MarketTypeOK /\ free \in [Account -> Nat] /\ StakersStayAlive
  BY SettleEffect DEF MoneyInv, Inv, BalancesTypeOK
<1>1. \A a \in Account : free'[a] >= free[a] /\ free'[a] \in Nat /\ free[a] \in Nat
  BY <1>0 DEF PaidOut, Deposited
<1>2. /\ DOMAIN Stakes' = DOMAIN Stakes
      /\ \A s \in DOMAIN Stakes : /\ s[1] # market => Stakes'[s] = Stakes[s]
                                  /\ s[1] = market => Stakes'[s].settled
  BY <1>0 DEF PaidOut
<1>3. ASSUME NEW s \in DOMAIN Stakes', ~Stakes'[s].settled
      PROVE  free'[Stakes'[s].owner] >= ExistentialDeposit
  <2>1. s \in DOMAIN Stakes /\ Stakes'[s] = Stakes[s]
    BY <1>2, <1>3
  <2>2. free[Stakes[s].owner] >= ExistentialDeposit /\ Stakes[s].owner \in Account
    BY <1>0, <1>3, <2>1, StakeAmountsAreNat DEF StakersStayAlive
  <2> QED
    BY <1>1, <2>1, <2>2, BalancesAssumption DEF BalancesAssumption
<1> QED
  BY <1>3 DEF StakersStayAlive

LEMMA BooksSettleMarket ==
    ASSUME MoneyInv, NEW market \in MarketId, SettleMarket(market)
    PROVE  BooksBalance'
<1>0. PaidOut(market) /\ MarketTypeOK /\ BooksBalance
  BY SettleEffect DEF MoneyInv, Inv
<1>1. /\ DOMAIN Stakes' = DOMAIN Stakes /\ DOMAIN Markets' = DOMAIN Markets
      /\ DOMAIN Models' = DOMAIN Models
      /\ \A s \in DOMAIN Stakes : Stakes'[s].stake_amount = Stakes[s].stake_amount
      /\ \A k \in DOMAIN Markets :
           /\ Markets'[k].total_stake = Markets[k].total_stake
           /\ Markets'[k].participant_count = Markets[k].participant_count
  BY <1>0 DEF PaidOut
<1>2. ASSUME NEW k \in DOMAIN Markets
      PROVE  /\ Markets'[k].total_stake = SumStakes(StakesOn(k))'
             /\ Markets'[k].participant_count = Cardinality(StakesOn(k))'
             /\ Markets'[k].participant_count <= MAX_PARTICIPANTS
  <2> DEFINE V == StakesOn(k)
  <2>1. V \in SUBSET DOMAIN Stakes
    BY DEF StakesOn
  <2>2. V' = V
    BY <1>1 DEF StakesOn
  <2>3. Amounts(Stakes', V) = Amounts(Stakes, V)
    <3>1. IsFiniteSet(V) /\ \A s \in V : Stakes'[s].stake_amount = Stakes[s].stake_amount
      BY <1>0, <1>1, <2>1, StakesAreFinite
    <3> HIDE DEF V
    <3> QED
      BY <3>1, AmountsSame
  <2>4. /\ Markets[k].total_stake = Amounts(Stakes, V)
        /\ Markets[k].participant_count = Cardinality(V)
        /\ Markets[k].participant_count <= MAX_PARTICIPANTS
    BY <1>0, SumStakesIsAmounts DEF BooksBalance
  <2>5. SumStakes(V)' = Amounts(Stakes', V') /\ Cardinality(V)' = Cardinality(V')
    BY DEF SumStakes, Amounts
  <2>6. Amounts(Stakes', V') = Amounts(Stakes', V) /\ Cardinality(V') = Cardinality(V)
    BY <2>2, Zenon
  <2> HIDE DEF V
  <2>7. SumStakes(V)' = Amounts(Stakes, V) /\ Cardinality(V)' = Cardinality(V)
    BY <2>3, <2>5, <2>6
  <2> QED
    BY <1>1, <2>4, <2>7 DEF V
<1> QED
  BY <1>0, <1>1, <1>2 DEF BooksBalance

-----------------------------------------------------------------------------
(* A step that leaves stakes, markets and reserves alone, and the funds of  *)
(* every account that has a reserve, leaves the money invariant alone.      *)
LEMMA MoneyUndisturbed ==
    ASSUME MoneyInv, Inv', VerificationTypeOK', BalancesTypeOK',
           UNCHANGED <<Stakes, Markets, reserved>>, DOMAIN Models \subseteq DOMAIN Models',
           \A a \in Account : free'[a] >= free[a] \/ free'[a] >= ExistentialDeposit
                                \/ reserved[a] = 0
    PROVE  MoneyInv'
<1>1. ReserveBacksStakes'
  BY DEF MoneyInv, ReserveBacksStakes, SumStakes, Unsettled, StakesOf
<1>2. BooksBalance'
  <2>1. \A k : StakesOn(k)' = StakesOn(k)
    BY DEF StakesOn
  <2>2. \A k : /\ SumStakes(StakesOn(k))' = SumStakes(StakesOn(k))
               /\ Cardinality(StakesOn(k))' = Cardinality(StakesOn(k))
    BY <2>1 DEF SumStakes
  <2> QED
    BY <2>2 DEF MoneyInv, BooksBalance
<1>3. StakersStayAlive'
  <2> SUFFICES ASSUME NEW s \in DOMAIN Stakes, ~Stakes[s].settled
               PROVE  free'[Stakes[s].owner] >= ExistentialDeposit
    BY DEF StakersStayAlive
  <2> DEFINE a == Stakes[s].owner
  <2>1. a \in Account /\ reserved[a] > 0
    <3>1. /\ a \in Account /\ reserved[a] >= Stakes[s].stake_amount
          /\ Stakes[s].stake_amount > 0
      BY StakersHaveReserves DEF MoneyInv, Inv
    <3>2. reserved[a] \in Nat /\ Stakes[s].stake_amount \in Nat
      BY <3>1, StakeAmountsAreNat DEF MoneyInv, Inv, BalancesTypeOK
    <3> HIDE DEF a
    <3> QED
      BY <3>1, <3>2
  <2>2. free[a] >= ExistentialDeposit
    BY DEF MoneyInv, StakersStayAlive
  <2>3. free[a] \in Nat /\ free'[a] \in Nat /\ reserved[a] \in Nat
    BY <2>1 DEF MoneyInv, BalancesTypeOK
  <2> HIDE DEF a
  <2>4. free'[a] >= ExistentialDeposit
    BY <2>1, <2>2, <2>3, BalancesAssumption DEF BalancesAssumption
  <2> QED
    BY <2>4 DEF a
<1> QED
  BY <1>1, <1>2, <1>3 DEF MoneyInv

(* A new market has no stakes yet.                                          *)
LEMMA MoneyCreateMarket ==
    ASSUME MoneyInv, NEW market \in MarketId, NEW prediction \in PredictionId,
           CreateMarket(market, prediction)
    PROVE  (ReserveBacksStakes /\ BooksBalance /\ StakersStayAlive)'
<1> DEFINE new == [status |-> "Open", total_stake |-> 0, participant_count |-> 0,
                   prediction_id |-> prediction]
<1>1. /\ Markets' = Put(Markets, market, new) /\ UNCHANGED <<Models, Stakes, free, reserved>>
      /\ market \notin DOMAIN Markets
  BY DEF CreateMarket, balanceVars
<1>2. new.total_stake = 0 /\ new.participant_count = 0
  OBVIOUS
<1> HIDE DEF new
<1>3. /\ DOMAIN Markets' = DOMAIN Markets \cup {market} /\ Markets'[market] = new
      /\ \A k \in DOMAIN Markets : Markets'[k] = Markets[k]
  BY <1>1 DEF Put
<1>4. ReserveBacksStakes' /\ StakersStayAlive'
  BY <1>1 DEF MoneyInv, ReserveBacksStakes, StakersStayAlive, SumStakes, Unsettled, StakesOf
<1>5. \A k : /\ SumStakes(StakesOn(k))' = SumStakes(StakesOn(k))
             /\ Cardinality(StakesOn(k))' = Cardinality(StakesOn(k))
  <2>1. \A k : StakesOn(k)' = StakesOn(k)
    BY <1>1 DEF StakesOn
  <2> QED
    BY <1>1, <2>1 DEF SumStakes
<1>6. SumStakes(StakesOn(market)) = 0 /\ Cardinality(StakesOn(market)) = 0
  <2>1. StakesOn(market) = {}
    BY <1>1 DEF MoneyInv, BooksBalance, StakesOn
  <2>2. SumStakes(StakesOn(market)) = SumStakes({})
    BY <2>1, Zenon
  <2> QED
    BY <2>1, <2>2, SumStakesIsAmounts, AmountsEmpty, FS_EmptySet
<1>7. BooksBalance'
  <2>1. \A s \in DOMAIN Stakes' : s[1] \in DOMAIN Markets' /\ s[2] \in DOMAIN Models'
    BY <1>1, <1>3 DEF MoneyInv, BooksBalance
  <2>2. ASSUME NEW k \in DOMAIN Markets'
        PROVE  /\ Markets'[k].total_stake = SumStakes(StakesOn(k))'
               /\ Markets'[k].participant_count = Cardinality(StakesOn(k))'
               /\ Markets'[k].participant_count <= MAX_PARTICIPANTS
    <3>1. CASE k = market
      BY <1>2, <1>3, <1>5, <1>6, <3>1, MarketAssumption DEF MarketAssumption
    <3>2. CASE k # market
      <4>1. k \in DOMAIN Markets /\ Markets'[k] = Markets[k]
        BY <1>3, <3>2
      <4>2. /\ Markets[k].total_stake = SumStakes(StakesOn(k))
            /\ Markets[k].participant_count = Cardinality(StakesOn(k))
            /\ Markets[k].participant_count <= MAX_PARTICIPANTS
        BY <4>1 DEF MoneyInv, BooksBalance
      <4> QED
        BY <1>5, <4>1, <4>2
    <3> QED
      BY <3>1, <3>2
  <2> QED
    BY <2>1, <2>2 DEF BooksBalance
<1> QED
  BY <1>4, <1>7

(* Fees and transfers keep an account with a reserve alive.                 *)
LEMMA BalancesStep ==
    ASSUME BalancesTypeOK, BalancesNext
    PROVE  /\ BalancesTypeOK' /\ UNCHANGED reserved
           /\ \A a \in Account : free'[a] >= free[a] \/ free'[a] >= ExistentialDeposit
                                   \/ reserved[a] = 0
<1>0. /\ free \in [Account -> Nat] /\ reserved \in [Account -> Nat]
      /\ Amount \subseteq Nat \ {0} /\ ExistentialDeposit \in Nat \ {0}
  BY BalancesAssumption DEF BalancesAssumption, BalancesTypeOK
<1>1. ASSUME NEW who \in Account, NEW amount \in Amount, PayFee(who, amount)
      PROVE  /\ free' \in [Account -> Nat] /\ UNCHANGED reserved
             /\ \A a \in Account : free'[a] >= free[a] \/ free'[a] >= ExistentialDeposit
  BY <1>0, <1>1 DEF PayFee
<1>2. ASSUME NEW who \in Account, NEW to \in Account, NEW amount \in Amount,
             Transfer(who, to, amount)
      PROVE  /\ free' \in [Account -> Nat] /\ UNCHANGED reserved
             /\ \A a \in Account : free'[a] >= free[a] \/ free'[a] >= ExistentialDeposit
                                     \/ reserved[a] = 0
  <2>1. /\ who # to /\ amount <= free[who] /\ UNCHANGED reserved
        /\ reserved[who] > 0 => free[who] - amount >= ExistentialDeposit
        /\ free' = [free EXCEPT ![who] = Left(who, amount), ![to] = @ + amount]
    BY <1>2 DEF Transfer
  <2>2. Left(who, amount) \in Nat
        /\ (free[who] - amount >= ExistentialDeposit => Left(who, amount) >= ExistentialDeposit)
    BY <1>0, <2>1 DEF Left
  <2>3. /\ free' \in [Account -> Nat]
        /\ free'[who] = Left(who, amount) /\ free'[to] = free[to] + amount
        /\ \A a \in Account : a # who /\ a # to => free'[a] = free[a]
    <3> DEFINE left == Left(who, amount)
    <3> HIDE DEF left
    <3>1. free' = [free EXCEPT ![who] = left, ![to] = @ + amount] /\ left \in Nat
      BY <2>1, <2>2 DEF left
    <3>2. /\ free' \in [Account -> Nat]
          /\ free'[who] = left /\ free'[to] = free[to] + amount
          /\ \A a \in Account : a # who /\ a # to => free'[a] = free[a]
      BY <1>0, <2>1, <3>1
    <3> QED
      BY <3>2 DEF left
  <2> QED
    BY <1>0, <2>1, <2>2, <2>3
<1> QED
  BY <1>0, <1>1, <1>2 DEF BalancesNext, BalancesTypeOK

-----------------------------------------------------------------------------
LEMMA MoneyMarketCall ==
    ASSUME MoneyInv, MarketCall, UNCHANGED verificationVars
    PROVE  MoneyInv'
<1>1. Inv'
  <2>1. MarketCall /\ UNCHANGED verificationVars => Next
    BY DEF Next
  <2> QED
    BY <2>1, InvStep DEF MoneyInv
<1>2. VerificationTypeOK'
  BY TypeStep DEF MoneyInv
<1>3. ASSUME NEW who \in Account, NEW model \in ModelId, RegisterModel(who, model)
      PROVE  MoneyInv'
  <2>1. /\ UNCHANGED <<Stakes, Markets, free, reserved>>
        /\ DOMAIN Models \subseteq DOMAIN Models'
    BY <1>3 DEF RegisterModel, Put, balanceVars
  <2>2. BalancesTypeOK'
    BY <2>1 DEF MoneyInv, BalancesTypeOK
  <2>3. \A a \in Account : free'[a] >= free[a]
    BY <2>1 DEF MoneyInv, BalancesTypeOK
  <2> QED
    BY <1>1, <1>2, <2>1, <2>2, <2>3, MoneyUndisturbed
<1>4. ASSUME NEW market \in MarketId, NEW prediction \in PredictionId,
             CreateMarket(market, prediction)
      PROVE  MoneyInv'
  <2>1. BalancesTypeOK'
    BY <1>4 DEF MoneyInv, BalancesTypeOK, CreateMarket, balanceVars
  <2> QED
    BY <1>1, <1>2, <1>4, <2>1, MoneyCreateMarket DEF MoneyInv
<1>5. ASSUME NEW who \in Account, NEW market \in MarketId, NEW model \in ModelId,
             NEW prediction \in PredictionId, NEW amount \in StakeAmount,
             StakePrediction(who, market, model, prediction, amount)
      PROVE  MoneyInv'
  <2>1. BalancesTypeOK'
    BY <1>5, StakeEffect DEF Staked, MoneyInv, Inv, BalancesTypeOK
  <2>2. ReserveBacksStakes' /\ StakersStayAlive' /\ BooksBalance'
    BY <1>5, ReserveStakePrediction, AliveStakePrediction, BooksStakePrediction
  <2> QED
    BY <1>1, <1>2, <2>1, <2>2 DEF MoneyInv
<1>6. ASSUME NEW market \in MarketId, SettleMarket(market)
      PROVE  MoneyInv'
  <2>1. BalancesTypeOK'
    BY <1>6, SettleEffect DEF PaidOut, BalancesTypeOK
  <2>2. ReserveBacksStakes' /\ StakersStayAlive' /\ BooksBalance'
    BY <1>6, ReserveSettleMarket, AliveSettleMarket, BooksSettleMarket
  <2> QED
    BY <1>1, <1>2, <2>1, <2>2 DEF MoneyInv
<1> QED
  BY <1>3, <1>4, <1>5, <1>6 DEF MarketCall

LEMMA MoneyStep ==
    ASSUME MoneyInv, [Next]_vars
    PROVE  MoneyInv'
<1>1. Inv'
  BY InvStep DEF MoneyInv
<1>2. CASE MarketCall /\ UNCHANGED verificationVars
  BY <1>2, MoneyMarketCall
<1>3. CASE VerificationNext /\ UNCHANGED <<marketVars, balanceVars>>
  <2>1. UNCHANGED <<Models, Stakes, Markets, free, reserved>>
    BY <1>3 DEF marketVars, balanceVars
  <2>2. VerificationTypeOK'
    BY <1>3, TypeStep DEF MoneyInv
  <2>3. BalancesTypeOK' /\ \A a \in Account : free'[a] >= free[a]
    BY <2>1 DEF MoneyInv, BalancesTypeOK
  <2> QED
    BY <1>1, <2>1, <2>2, <2>3, MoneyUndisturbed
<1>4. CASE BalancesNext /\ UNCHANGED <<verificationVars, marketVars>>
  <2>1. UNCHANGED <<Models, Stakes, Markets>>
    BY <1>4 DEF marketVars
  <2>2. VerificationTypeOK'
    BY <1>4, TypeStep DEF MoneyInv
  <2>3. /\ BalancesTypeOK' /\ UNCHANGED reserved
        /\ \A a \in Account : free'[a] >= free[a] \/ free'[a] >= ExistentialDeposit
                                \/ reserved[a] = 0
    BY <1>4, BalancesStep DEF MoneyInv
  <2> QED
    BY <1>1, <2>1, <2>2, <2>3, MoneyUndisturbed
<1>5. CASE UNCHANGED vars
  <2>1. UNCHANGED <<Models, Stakes, Markets, free, reserved>> /\ UNCHANGED verificationVars
    BY <1>5 DEF vars, marketVars, balanceVars
  <2>2. VerificationTypeOK'
    BY <2>1, TypeStep DEF MoneyInv
  <2>3. BalancesTypeOK' /\ \A a \in Account : free'[a] >= free[a]
    BY <2>1 DEF MoneyInv, BalancesTypeOK
  <2> QED
    BY <1>1, <2>1, <2>2, <2>3, MoneyUndisturbed
<1> QED
  BY <1>2, <1>3, <1>4, <1>5 DEF Next

LEMMA MoneyInit == Init => MoneyInv
<1> SUFFICES ASSUME Init PROVE MoneyInv
  OBVIOUS
<1>1. Inv /\ VerificationTypeOK
  BY InvInit, TypeInit DEF Init
<1>2. BalancesTypeOK /\ \A a \in Account : reserved[a] = 0
  BY BalancesAssumption DEF BalancesAssumption, Init, BalancesInit, BalancesTypeOK
<1>3. DOMAIN Stakes = {} /\ DOMAIN Markets = {}
  BY EmptyMapType DEF Init, MarketInit
<1>4. ReserveBacksStakes
  <2>1. \A a \in Account : Unsettled(StakesOf(a)) = {}
    BY <1>3 DEF Unsettled, StakesOf
  <2>2. \A a \in Account : SumStakes(Unsettled(StakesOf(a))) = SumStakes({})
    BY <2>1, Zenon
  <2> QED
    BY <1>2, <2>2, SumStakesIsAmounts, AmountsEmpty DEF ReserveBacksStakes
<1>5. BooksBalance /\ StakersStayAlive
  BY <1>3 DEF BooksBalance, StakersStayAlive
<1> QED
  BY <1>1, <1>2, <1>4, <1>5 DEF MoneyInv

LEMMA MoneyAlways == Spec => []MoneyInv
<1>1. MoneyInv /\ [Next]_vars => MoneyInv'
  BY MoneyStep
<1> QED
  BY MoneyInit, <1>1, PTL DEF Spec

(* Every storage item of the runtime keeps its type: no balance goes below *)
(* zero, whatever is reserved, released, minted, moved or burned.          *)
THEOREM RuntimeTypeCorrect == Spec => []TypeOK
<1>1. MoneyInv => TypeOK
  BY DEF MoneyInv, Inv, TypeOK
<1> QED
  BY MoneyAlways, <1>1, PTL

(* The sum of an account's outstanding stakes is its reserve: reserve in   *)
(* stake_prediction and unreserve in settle_market never drift apart.      *)
THEOREM ReserveIsStakes == Spec => []ReserveBacksStakes
<1>1. MoneyInv => ReserveBacksStakes
  BY DEF MoneyInv
<1> QED
  BY MoneyAlways, <1>1, PTL

(* total_stake and participant_count are the sum and the number of the     *)
(* stakes filed under the market, and TooManyParticipants bounds them.     *)
THEOREM MarketBooksBalance == Spec => []BooksBalance
<1>1. MoneyInv => BooksBalance
  BY DEF MoneyInv
<1> QED
  BY MoneyAlways, <1>1, PTL

(* No fee, transfer or further stake ends an account that has a stake      *)
(* outstanding, so deposit_into_existing finds it when its market settles. *)
THEOREM StakersAlwaysAlive == Spec => []StakersStayAlive
<1>1. MoneyInv => StakersStayAlive
  BY DEF MoneyInv
<1> QED
  BY MoneyAlways, <1>1, PTL

-----------------------------------------------------------------------------
(* The reputation that total_predictions and total_correct explain.        *)
Explained(info) ==
    LET wrong == info.total_predictions - info.total_correct
    IN  /\ wrong >= 0
        /\ info.reputation_score
             <= Lesser(InitialReputation + ReputationGain * info.total_correct, MaxReputation)
        /\ info.reputation_score >= InitialReputation - ReputationLoss * wrong

SettledBy(model) == StakesBy(model) \ Unsettled(StakesBy(model))

LEMMA RecordsUnfolded ==
    RecordsMatchStakes <=>
      \A model \in DOMAIN Models :
         /\ Models[model].total_predictions = Cardinality(SettledBy(model))
         /\ Explained(Models[model])
BY DEF RecordsMatchStakes, Explained, SettledBy

(* One more rating: the gain and the saturating loss stay within bounds.   *)
LEMMA RatedExplained ==
    ASSUME NEW info \in ModelInfo, Explained(info), NEW score
    PROVE  /\ Explained(Rated(info, score))
           /\ Rated(info, score).total_predictions = info.total_predictions + 1
<1> DEFINE tp == info.total_predictions
           tc == info.total_correct
           rep == info.reputation_score
           new == Rated(info, score)
<1>1. /\ tp \in Nat /\ tc \in Nat /\ rep \in 0..MaxReputation
      /\ MaxReputation \in Nat /\ InitialReputation \in Nat
      /\ ReputationGain \in Nat /\ ReputationLoss \in Nat
  BY MarketAssumption DEF MarketAssumption, ModelInfo
<1>2. /\ tp - tc >= 0
      /\ rep <= InitialReputation + ReputationGain * tc
      /\ rep >= InitialReputation - ReputationLoss * (tp - tc)
  <2>1. ReputationGain * tc \in Nat
    BY <1>1, ProductNat
  <2>2. rep <= Lesser(InitialReputation + ReputationGain * tc, MaxReputation)
    BY DEF Explained
  <2>3. tp - tc >= 0 /\ rep >= InitialReputation - ReputationLoss * (tp - tc)
    BY DEF Explained
  <2> HIDE DEF tp, tc, rep
  <2>4. rep <= InitialReputation + ReputationGain * tc
    BY <1>1, <2>1, <2>2 DEF Lesser
  <2> QED
    BY <2>3, <2>4
<1>3. \A c, n \in Nat : c * (n + 1) = c * n + c /\ c * n \in Nat
  OBVIOUS
<1>4. CASE score > CorrectAbove
  <2>1. /\ new.total_predictions = tp + 1 /\ new.total_correct = tc + 1
        /\ new.reputation_score = Lesser(rep + ReputationGain, MaxReputation)
    BY <1>4 DEF Rated, ModelInfo
  <2> HIDE DEF tp, tc, rep, new
  <2>2. ReputationGain * (tc + 1) = ReputationGain * tc + ReputationGain
        /\ ReputationGain * tc \in Nat
    BY <1>1, <1>3
  <2>3. (tp + 1) - (tc + 1) = tp - tc
    BY <1>1
  <2>4. Lesser(rep + ReputationGain, MaxReputation)
          <= Lesser(InitialReputation + ReputationGain * (tc + 1), MaxReputation)
    BY <1>1, <1>2, <2>2 DEF Lesser
  <2>5. ReputationLoss * (tp - tc) \in Nat
    BY <1>1, <1>2, <1>3
  <2>6. Lesser(rep + ReputationGain, MaxReputation)
          >= InitialReputation - ReputationLoss * (tp - tc)
    BY <1>1, <1>2, <2>5 DEF Lesser
  <2> QED
    BY <1>2, <2>1, <2>3, <2>4, <2>6 DEF Explained, new, tp
<1>5. CASE ~(score > CorrectAbove)
  <2>1. /\ new.total_predictions = tp + 1 /\ new.total_correct = tc
        /\ new.reputation_score = rep - Lesser(rep, ReputationLoss)
    BY <1>5 DEF Rated, ModelInfo
  <2> HIDE DEF tp, tc, rep, new
  <2> DEFINE wrong == tp - tc
  <2>2. wrong \in Nat /\ (tp + 1) - tc = wrong + 1
    BY <1>1, <1>2
  <2>3. rep >= InitialReputation - ReputationLoss * wrong
    BY <1>2
  <2> HIDE DEF wrong
  <2>4. ReputationLoss * (wrong + 1) = ReputationLoss * wrong + ReputationLoss
        /\ ReputationLoss * wrong \in Nat
    BY <1>1, <1>3, <2>2
  <2>5. rep - Lesser(rep, ReputationLoss) >= InitialReputation - ReputationLoss * (wrong + 1)
    BY <1>1, <2>3, <2>4 DEF Lesser
  <2>6. ReputationGain * tc \in Nat
    BY <1>1, <1>3
  <2>7. rep - Lesser(rep, ReputationLoss)
          <= Lesser(InitialReputation + ReputationGain * tc, MaxReputation)
    BY <1>1, <1>2, <2>6 DEF Lesser
  <2>8. (tp + 1) - tc >= 0
    BY <2>2
  <2> QED
    BY <2>1, <2>2, <2>5, <2>7, <2>8 DEF Explained, new, tp
<1> QED
  BY <1>4, <1>5

LEMMA RecordsKept ==
    ASSUME RecordsMatchStakes, UNCHANGED <<Models, Stakes>>
    PROVE  RecordsMatchStakes'
<1>1. \A m \in DOMAIN Models :
         /\ Models[m].total_predictions = Cardinality(SettledBy(m))
         /\ Explained(Models[m])
  BY RecordsUnfolded
<1>2. \A m : SettledBy(m)' = SettledBy(m)
  BY DEF SettledBy, StakesBy, Unsettled
<1>3. \A m : Cardinality(SettledBy(m))' = Cardinality(SettledBy(m))
  BY <1>2
<1>4. \A m \in DOMAIN Models' :
         /\ Models'[m].total_predictions = Cardinality(SettledBy(m))'
         /\ Explained(Models'[m])
  BY <1>1, <1>3
<1> QED
  BY <1>4 DEF RecordsMatchStakes, Explained, SettledBy

(* A new model has no stakes, and the reputation that explains.            *)
LEMMA RecordsRegisterModel ==
    ASSUME MoneyInv, RecordsMatchStakes, NEW who \in Account, NEW model \in ModelId,
           RegisterModel(who, model)
    PROVE  RecordsMatchStakes'
<1> DEFINE new == [owner |-> who, total_predictions |-> 0, total_correct |-> 0,
                   reputation_score |-> InitialReputation]
<1>1. /\ Models' = Put(Models, model, new) /\ UNCHANGED Stakes /\ model \notin DOMAIN Models
  BY DEF RegisterModel
<1>2. Explained(new) /\ new.total_predictions = 0
  <2>1. /\ InitialReputation \in 0..MaxReputation /\ MaxReputation \in Nat
        /\ ReputationGain * 0 = 0 /\ ReputationLoss * (0 - 0) = 0
    BY MarketAssumption DEF MarketAssumption
  <2>2. /\ new.total_predictions = 0 /\ new.total_correct = 0
        /\ new.reputation_score = InitialReputation
    OBVIOUS
  <2> HIDE DEF new
  <2> QED
    BY <2>1, <2>2 DEF Explained, Lesser
<1> HIDE DEF new
<1>3. /\ DOMAIN Models' = DOMAIN Models \cup {model} /\ Models'[model] = new
      /\ \A m \in DOMAIN Models : Models'[m] = Models[m]
  BY <1>1 DEF Put
<1>4. \A m : Cardinality(SettledBy(m))' = Cardinality(SettledBy(m))
  <2>1. \A m : SettledBy(m)' = SettledBy(m)
    BY <1>1 DEF SettledBy, StakesBy, Unsettled
  <2> QED
    BY <2>1
<1>5. Cardinality(SettledBy(model)) = 0
  <2>1. SettledBy(model) = {}
    BY <1>1 DEF MoneyInv, BooksBalance, SettledBy, StakesBy
  <2> QED
    BY <2>1, FS_EmptySet, Zenon
<1>6. \A m \in DOMAIN Models' :
         /\ Models'[m].total_predictions = Cardinality(SettledBy(m))'
         /\ Explained(Models'[m])
  BY <1>2, <1>3, <1>4, <1>5, RecordsUnfolded
<1> QED
  BY <1>6 DEF RecordsMatchStakes, Explained, SettledBy

(* A new stake counts for nothing until its market is settled.             *)
LEMMA RecordsStakePrediction ==
    ASSUME MoneyInv, RecordsMatchStakes, NEW who \in Account, NEW market \in MarketId,
           NEW model \in ModelId, NEW prediction \in PredictionId, NEW amount \in StakeAmount,
           StakePrediction(who, market, model, prediction, amount)
    PROVE  RecordsMatchStakes'
<1> DEFINE key == <<market, model>>
<1>0. Staked(who, market, model, amount)
  BY StakeEffect DEF MoneyInv, Inv
<1>1. /\ DOMAIN Stakes' = DOMAIN Stakes \cup {key} /\ ~Stakes'[key].settled
      /\ key \notin DOMAIN Stakes
      /\ \A s \in DOMAIN Stakes : Stakes'[s] = Stakes[s]
      /\ UNCHANGED Models
  BY <1>0 DEF Staked
<1> HIDE DEF key
<1>2. \A m : SettledBy(m)' = SettledBy(m)
  BY <1>1 DEF SettledBy, StakesBy, Unsettled
<1>3. \A m : Cardinality(SettledBy(m))' = Cardinality(SettledBy(m))
  BY <1>2
<1>4. \A m \in DOMAIN Models' :
         /\ Models'[m].total_predictions = Cardinality(SettledBy(m))'
         /\ Explained(Models'[m])
  BY <1>1, <1>3, RecordsUnfolded
<1> QED
  BY <1>4 DEF RecordsMatchStakes, Explained, SettledBy

(* settle_market rates each entrant once, and settles one stake of each.   *)
LEMMA RecordsSettleMarket ==
    ASSUME MoneyInv, RecordsMatchStakes, NEW market \in MarketId, SettleMarket(market)
    PROVE  RecordsMatchStakes'
<1>0. PaidOut(market) /\ PayOut(market) /\ MarketTypeOK /\ SettledTogether
  BY SettleEffect DEF SettleMarket, MoneyInv, Inv
<1>1. /\ market \in DOMAIN Markets /\ ~IsSettled(market)
      /\ DOMAIN Stakes' = DOMAIN Stakes
      /\ \A s \in DOMAIN Stakes : /\ s[1] # market => Stakes'[s] = Stakes[s]
                                  /\ s[1] = market => Stakes'[s].settled
  BY <1>0 DEF PaidOut
<1>2. /\ DOMAIN Models' = DOMAIN Models
      /\ \A m \in DOMAIN Models : m \notin Entrants(market) => Models'[m] = Models[m]
      /\ \A m \in DOMAIN Models : m \in Entrants(market)
                                    => Models'[m] = Rated(Models[m], Score(market, m))
  BY <1>0 DEF PayOut
<1>3. ASSUME NEW m \in DOMAIN Models
      PROVE  /\ Models'[m].total_predictions = Cardinality(SettledBy(m)')
             /\ Explained(Models'[m])
  <2> DEFINE key == <<market, m>>
             V == SettledBy(m)
  <2>0. /\ Models[m].total_predictions = Cardinality(V) /\ Explained(Models[m])
        /\ Models[m] \in ModelInfo /\ m \in ModelId
    BY <1>0, RecordsUnfolded, MarketRecords
  <2>1. V \in SUBSET DOMAIN Stakes /\ IsFiniteSet(V)
    BY <1>0, StakesAreFinite DEF SettledBy, StakesBy
  <2>2. \A s \in DOMAIN Stakes : s = <<s[1], s[2]>>
    BY <1>0, MarketRecords
  <2>3. \A s \in DOMAIN Stakes : s[1] = market /\ s[2] = m => s = key
    BY <2>2
  <2>4. CASE m \in Entrants(market)
    <3>1. key \in DOMAIN Stakes
      BY <2>4 DEF Entrants
    <3>2. key[1] = market /\ key[2] = m
      OBVIOUS
    <3> HIDE DEF key
    <3>3. key \notin V /\ V' = V \cup {key}
      BY <1>0, <1>1, <2>3, <3>1, <3>2 DEF SettledBy, StakesBy, Unsettled, SettledTogether
    <3> HIDE DEF V
    <3>4. Cardinality(V') = Cardinality(V) + 1
      <4>1. Cardinality(V \cup {key}) = Cardinality(V) + 1
        BY <2>1, <3>3, FS_AddElement
      <4>2. Cardinality(V') = Cardinality(V \cup {key})
        BY <3>3, Zenon
      <4> QED
        BY <4>1, <4>2
    <3>5. Models'[m] = Rated(Models[m], Score(market, m))
      BY <1>2, <2>4
    <3>6. /\ Explained(Models'[m])
          /\ Models'[m].total_predictions = Models[m].total_predictions + 1
      BY <2>0, <3>5, RatedExplained
    <3>7. Models'[m].total_predictions = Cardinality(V')
      BY <2>0, <3>4, <3>6
    <3> QED
      BY <3>6, <3>7 DEF V
  <2>5. CASE m \notin Entrants(market)
    <3>1. \A s \in DOMAIN Stakes : s[2] = m => s[1] # market
      <4>1. key \notin DOMAIN Stakes
        BY <2>0, <2>5 DEF Entrants
      <4> QED
        BY <2>3, <4>1
    <3>2. V' = V
      BY <1>1, <3>1 DEF SettledBy, StakesBy, Unsettled
    <3>3. Cardinality(V') = Cardinality(V)
      BY <3>2, Zenon
    <3>4. Models'[m] = Models[m]
      BY <1>2, <2>5
    <3> QED
      BY <2>0, <3>3, <3>4
  <2> QED
    BY <2>4, <2>5
<1> QED
  BY <1>2, <1>3 DEF RecordsMatchStakes, Explained, SettledBy

LEMMA RecordsStep ==
    ASSUME MoneyInv, RecordsMatchStakes, [Next]_vars
    PROVE  RecordsMatchStakes'
<1>1. CASE UNCHANGED <<Models, Stakes>>
  BY <1>1, RecordsKept
<1>2. CASE MarketCall
  <2>1. ASSUME NEW market \in MarketId, NEW prediction \in PredictionId,
               CreateMarket(market, prediction)
        PROVE  UNCHANGED <<Models, Stakes>>
    BY <2>1 DEF CreateMarket
  <2> QED
    BY <1>1, <1>2, <2>1, RecordsRegisterModel, RecordsStakePrediction, RecordsSettleMarket
       DEF MarketCall
<1> QED
  BY <1>1, <1>2 DEF Next, vars, marketVars

LEMMA RecordsInit == Init => RecordsMatchStakes
BY EmptyMapType DEF Init, MarketInit, RecordsMatchStakes

(* A model's counters count each of its settled stakes once, and its       *)
(* reputation is within what that many right and wrong predictions explain, *)
(* the cap and the floor of settle_market's update included.               *)
THEOREM ModelRecordsMatch == Spec => []RecordsMatchStakes
<1>1. MoneyInv /\ RecordsMatchStakes /\ [Next]_vars => RecordsMatchStakes'
  BY RecordsStep
<1> QED
  BY MoneyAlways, RecordsInit, <1>1, PTL DEF Spec
=============================================================================
