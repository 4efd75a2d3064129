--------------------------- MODULE RuntimeProofs ---------------------------
(* Theorems about the runtime, for every number of accounts, models,       *)
(* markets and stakes and every scale of the scores.                       *)
EXTENDS Runtime, VerificationProofs

(* What the type invariant says of a record found under a key.             *)
LEMMA MarketRecords ==
    ASSUME MarketTypeOK
    PROVE  /\ DOMAIN Models \subseteq ModelId
           /\ DOMAIN Markets \subseteq MarketId
           /\ DOMAIN Stakes \subseteq MarketId \X ModelId
           /\ \A m \in DOMAIN Models : Models[m] \in ModelInfo
           /\ \A k \in DOMAIN Markets : Markets[k] \in MarketRound
           /\ \A s \in DOMAIN Stakes : Stakes[s] \in StakedPrediction
BY MapElim DEF MarketTypeOK

(* What stake_prediction does to the books: one stake, one market record.  *)
LEMMA RecordStakeEffect ==
    ASSUME MarketTypeOK, NEW who \in Account, NEW market \in DOMAIN Markets,
           NEW model \in ModelId, NEW prediction \in PredictionId, NEW amount \in Nat,
           amount > 0, RecordStake(who, market, model, prediction, amount)
    PROVE  /\ IsMap(Stakes', MarketId \X ModelId, StakedPrediction)
           /\ IsMap(Markets', MarketId, MarketRound)
           /\ DOMAIN Stakes' = DOMAIN Stakes \cup {<<market, model>>}
           /\ Stakes'[<<market, model>>] =
                [owner |-> who, prediction_id |-> prediction, stake_amount |-> amount,
                 settled |-> FALSE]
           /\ ~Stakes'[<<market, model>>].settled
           /\ \A s \in DOMAIN Stakes : s # <<market, model>> => Stakes'[s] = Stakes[s]
           /\ DOMAIN Markets' = DOMAIN Markets
           /\ \A k \in DOMAIN Markets : k # market => Markets'[k] = Markets[k]
           /\ Markets'[market].status = Markets[market].status
           /\ Markets'[market].prediction_id = Markets[market].prediction_id
           /\ Markets'[market].participant_count = Markets[market].participant_count + 1
           /\ Markets'[market].total_stake = Markets[market].total_stake + amount
<1> DEFINE new == [owner |-> who, prediction_id |-> prediction, stake_amount |-> amount,
                   settled |-> FALSE]
           key == <<market, model>>
<1>1. market \in MarketId /\ Markets[market] \in MarketRound
  BY MarketRecords
<1>2. new \in StakedPrediction /\ ~new.settled
  BY DEF StakedPrediction
<1>3. key \in MarketId \X ModelId
  BY <1>1
<1>4. Stakes' = Put(Stakes, key, new)
  BY DEF RecordStake
<1>5. /\ IsMap(Stakes', MarketId \X ModelId, StakedPrediction)
      /\ DOMAIN Stakes' = DOMAIN Stakes \cup {key}
      /\ Stakes'[key] = new
      /\ \A s \in DOMAIN Stakes : s # key => Stakes'[s] = Stakes[s]
  <2> HIDE DEF new, key
  <2>1. IsMap(Stakes', MarketId \X ModelId, StakedPrediction)
    BY <1>2, <1>3, <1>4, PutType DEF MarketTypeOK
  <2> QED
    BY <1>4, <2>1 DEF Put
<1>6. /\ Markets \in [DOMAIN Markets -> MarketRound]
      /\ DOMAIN Markets \in SUBSET MarketId
  BY MapElim DEF MarketTypeOK
<1>7. Markets' = [Markets EXCEPT ![market].total_stake = @ + amount,
                                 ![market].participant_count = @ + 1]
  BY DEF RecordStake
<1>8. /\ DOMAIN Markets' = DOMAIN Markets
      /\ \A k \in DOMAIN Markets : k # market => Markets'[k] = Markets[k]
      /\ Markets'[market] = [Markets[market] EXCEPT
                               !.total_stake = @ + amount, !.participant_count = @ + 1]
  <2> DEFINE staked == [Markets EXCEPT ![market].total_stake = @ + amount]
  <2>1. /\ DOMAIN staked = DOMAIN Markets
        /\ staked[market] = [Markets[market] EXCEPT !.total_stake = @ + amount]
        /\ \A k \in DOMAIN Markets : k # market => staked[k] = Markets[k]
    BY <1>6
  <2>2. Markets' = [staked EXCEPT ![market].participant_count = @ + 1]
    BY <1>7
  <2> QED
    BY <2>1, <2>2
<1>9. /\ Markets'[market] \in MarketRound
      /\ Markets'[market].status = Markets[market].status
      /\ Markets'[market].prediction_id = Markets[market].prediction_id
      /\ Markets'[market].participant_count = Markets[market].participant_count + 1
      /\ Markets'[market].total_stake = Markets[market].total_stake + amount
  <2>1. ASSUME NEW r \in MarketRound
        PROVE  LET q == [r EXCEPT !.total_stake = @ + amount, !.participant_count = @ + 1]
               IN  /\ q \in MarketRound /\ q.status = r.status
                   /\ q.prediction_id = r.prediction_id
                   /\ q.participant_count = r.participant_count + 1
                   /\ q.total_stake = r.total_stake + amount
    <3> DEFINE p == [r EXCEPT !.total_stake = @ + amount]
               q == [p EXCEPT !.participant_count = @ + 1]
    <3>1. /\ p \in MarketRound /\ p.status = r.status /\ p.prediction_id = r.prediction_id
          /\ p.participant_count = r.participant_count
          /\ p.total_stake = r.total_stake + amount
      BY DEF MarketRound
    <3>2. /\ q \in MarketRound /\ q.status = p.status /\ q.prediction_id = p.prediction_id
          /\ q.participant_count = p.participant_count + 1 /\ q.total_stake = p.total_stake
      <4> HIDE DEF p
      <4> QED
        BY <3>1 DEF MarketRound
    <3>3. q = [r EXCEPT !.total_stake = @ + amount, !.participant_count = @ + 1]
      BY DEF MarketRound
    <3> QED
      BY <3>1, <3>2, <3>3
  <2> QED
    BY <1>1, <1>8, <2>1
<1>10. Markets' \in [DOMAIN Markets -> MarketRound]
  BY <1>6, <1>7, <1>8, <1>9
<1>11. IsMap(Markets', MarketId, MarketRound)
  BY <1>6, <1>10, MapIntro
<1> QED
  BY <1>2, <1>5, <1>8, <1>9, <1>11

(* A scored model keeps its owner and a reputation in range.               *)
LEMMA RatedType ==
    ASSUME NEW info \in ModelInfo, NEW score
    PROVE  Rated(info, score) \in ModelInfo
<1>1. /\ info.total_predictions + 1 \in Nat /\ info.total_correct + 1 \in Nat
      /\ Lesser(info.reputation_score + ReputationGain, MaxReputation) \in 0..MaxReputation
      /\ info.reputation_score - Lesser(info.reputation_score, ReputationLoss)
           \in 0..MaxReputation
  BY MarketAssumption DEF ModelInfo, Lesser
<1> QED
  BY <1>1 DEF Rated, ModelInfo

(* What settle_market does to the pallet's records.                        *)
LEMMA PayOutEffect ==
    ASSUME MarketTypeOK, NEW market \in DOMAIN Markets, PayOut(market)
    PROVE  /\ IsMap(Models', ModelId, ModelInfo)
           /\ IsMap(Stakes', MarketId \X ModelId, StakedPrediction)
           /\ IsMap(Markets', MarketId, MarketRound)
           /\ DOMAIN Models' = DOMAIN Models
           /\ \A m \in DOMAIN Models : m \notin Entrants(market) => Models'[m] = Models[m]
           /\ DOMAIN Stakes' = DOMAIN Stakes
           /\ \A s \in DOMAIN Stakes : /\ s[1] # market => Stakes'[s] = Stakes[s]
                                       /\ s[1] = market => Stakes'[s].settled
                                       /\ Stakes'[s].owner = Stakes[s].owner
                                       /\ Stakes'[s].stake_amount = Stakes[s].stake_amount
           /\ DOMAIN Markets' = DOMAIN Markets
           /\ \A k \in DOMAIN Markets : k # market => Markets'[k] = Markets[k]
           /\ Markets'[market].status = "Settled"
           /\ Markets'[market].prediction_id = Markets[market].prediction_id
           /\ Markets'[market].participant_count = Markets[market].participant_count
           /\ Markets'[market].total_stake = Markets[market].total_stake
<1>1. /\ DOMAIN Models' = DOMAIN Models
      /\ \A m \in DOMAIN Models : m \notin Entrants(market) => Models'[m] = Models[m]
      /\ \A m \in DOMAIN Models : m \in Entrants(market)
                                    => Models'[m] = Rated(Models[m], Score(market, m))
      /\ Models' = [m \in DOMAIN Models |-> Models'[m]]
  BY DEF PayOut
<1>2. IsMap(Models', ModelId, ModelInfo)
  BY <1>1, RatedType, MarketRecords DEF IsMap
<1>3. /\ DOMAIN Stakes' = DOMAIN Stakes
      /\ \A s \in DOMAIN Stakes : s[1] # market => Stakes'[s] = Stakes[s]
      /\ \A s \in DOMAIN Stakes : s[1] = market
                                    => Stakes'[s] = [Stakes[s] EXCEPT !.settled = TRUE]
      /\ Stakes' = [s \in DOMAIN Stakes |-> Stakes'[s]]
  BY DEF PayOut
<1>4. \A s \in DOMAIN Stakes : [Stakes[s] EXCEPT !.settled = TRUE] \in StakedPrediction
                               /\ [Stakes[s] EXCEPT !.settled = TRUE].settled
                               /\ [Stakes[s] EXCEPT !.settled = TRUE].owner = Stakes[s].owner
                               /\ [Stakes[s] EXCEPT !.settled = TRUE].stake_amount
                                    = Stakes[s].stake_amount
  BY MarketRecords DEF StakedPrediction
<1>5. IsMap(Stakes', MarketId \X ModelId, StakedPrediction)
  BY <1>3, <1>4, MarketRecords DEF IsMap
<1>6. /\ Markets \in [DOMAIN Markets -> MarketRound]
      /\ DOMAIN Markets \in SUBSET MarketId
      /\ Markets[market] \in MarketRound
  BY MapElim DEF MarketTypeOK
<1>7. Markets' = [Markets EXCEPT ![market].status = "Settled"]
  BY DEF PayOut
<1>8. /\ DOMAIN Markets' = DOMAIN Markets
      /\ \A k \in DOMAIN Markets : k # market => Markets'[k] = Markets[k]
      /\ Markets'[market] = [Markets[market] EXCEPT !.status = "Settled"]
  BY <1>6, <1>7
<1>9. /\ Markets'[market] \in MarketRound
      /\ Markets'[market].status = "Settled"
      /\ Markets'[market].prediction_id = Markets[market].prediction_id
      /\ Markets'[market].participant_count = Markets[market].participant_count
      /\ Markets'[market].total_stake = Markets[market].total_stake
  BY <1>6, <1>8 DEF MarketRound, MarketStatus
<1>10. Markets' \in [DOMAIN Markets -> MarketRound]
  BY <1>6, <1>7, <1>8, <1>9
<1>11. IsMap(Markets', MarketId, MarketRound)
  BY <1>6, <1>10, MapIntro
<1> QED
  BY <1>1, <1>2, <1>3, <1>4, <1>5, <1>8, <1>9, <1>11

-----------------------------------------------------------------------------
(* What settlement relies on: a market has an entrant as soon as it counts  *)
(* one, and every stake is filed under a market that exists.                *)
Filed ==
    /\ \A s \in DOMAIN Stakes : s[1] \in DOMAIN Markets
    /\ \A k \in DOMAIN Markets : Markets[k].participant_count > 0 => StakesOn(k) # {}

Inv == MarketTypeOK /\ Filed /\ SettledTogether

(* register_model touches neither stakes nor markets.                       *)
LEMMA InvRegisterModel ==
    ASSUME Inv, NEW who \in Account, NEW model \in ModelId, RegisterModel(who, model),
           UNCHANGED GroundTruths
    PROVE  Inv'
<1> DEFINE new == [owner |-> who, total_predictions |-> 0, total_correct |-> 0,
                   reputation_score |-> InitialReputation]
<1>1. new \in ModelInfo
  BY MarketAssumption DEF ModelInfo
<1>2. Models' = Put(Models, model, new) /\ UNCHANGED <<Stakes, Markets>>
  BY DEF RegisterModel
<1>3. IsMap(Models', ModelId, ModelInfo)
  <2> HIDE DEF new
  <2> QED
    BY <1>1, <1>2, PutType DEF Inv, MarketTypeOK
<1>4. MarketTypeOK'
  BY <1>2, <1>3 DEF Inv, MarketTypeOK
<1> QED
  BY <1>2, <1>4 DEF Inv, Filed, SettledTogether, StakesOn, IsSettled

(* create_market: the new market is open and no stake is filed under it.    *)
LEMMA InvCreateMarket ==
    ASSUME Inv, NEW market \in MarketId, NEW prediction \in PredictionId,
           CreateMarket(market, prediction), UNCHANGED GroundTruths
    PROVE  Inv'
<1> DEFINE new == [status |-> "Open", total_stake |-> 0, participant_count |-> 0,
                   prediction_id |-> prediction]
<1>1. new \in MarketRound /\ new.status # "Settled" /\ ~(new.participant_count > 0)
  BY DEF MarketRound, MarketStatus
<1>2. /\ Markets' = Put(Markets, market, new) /\ UNCHANGED <<Models, Stakes>>
      /\ market \notin DOMAIN Markets
  BY DEF CreateMarket
<1> HIDE DEF new
<1>3. IsMap(Markets', MarketId, MarketRound)
  BY <1>1, <1>2, PutType DEF Inv, MarketTypeOK
<1>4. MarketTypeOK'
  BY <1>2, <1>3 DEF Inv, MarketTypeOK
<1>5. /\ DOMAIN Markets' = DOMAIN Markets \cup {market} /\ Markets'[market] = new
      /\ \A k \in DOMAIN Markets : Markets'[k] = Markets[k]
  BY <1>2 DEF Put
<1>6. Filed'
  BY <1>1, <1>2, <1>5 DEF Inv, Filed, StakesOn
<1>7. SettledTogether'
  BY <1>1, <1>2, <1>5 DEF Inv, Filed, SettledTogether, StakesOn, IsSettled
<1> QED
  BY <1>4, <1>6, <1>7 DEF Inv

(* stake_prediction files an unsettled stake under an open market.          *)
LEMMA InvStakePrediction ==
    ASSUME Inv, NEW who \in Account, NEW market \in MarketId, NEW model \in ModelId,
           NEW prediction \in PredictionId, NEW amount \in StakeAmount,
           StakePrediction(who, market, model, prediction, amount), UNCHANGED GroundTruths
    PROVE  Inv'
<1> DEFINE key == <<market, model>>
<1>1. /\ market \in DOMAIN Markets /\ amount > 0 /\ amount \in Nat
      /\ Markets[market].status = "Open" /\ key \notin DOMAIN Stakes
      /\ UNCHANGED Models
      /\ RecordStake(who, market, model, prediction, amount)
  BY MarketAssumption DEF StakePrediction, RecordStake
<1>2. /\ IsMap(Stakes', MarketId \X ModelId, StakedPrediction)
      /\ IsMap(Markets', MarketId, MarketRound)
      /\ DOMAIN Stakes' = DOMAIN Stakes \cup {key}
      /\ ~Stakes'[key].settled
      /\ \A s \in DOMAIN Stakes : Stakes'[s] = Stakes[s]
      /\ DOMAIN Markets' = DOMAIN Markets
      /\ \A k \in DOMAIN Markets : k # market => Markets'[k] = Markets[k]
      /\ Markets'[market].status = "Open"
  BY <1>1, RecordStakeEffect DEF Inv
<1>3. MarketTypeOK'
  BY <1>1, <1>2 DEF Inv, MarketTypeOK
<1>4. key[1] = market
  OBVIOUS
<1>5. \A k : StakesOn(k) \subseteq StakesOn(k)'
  BY <1>2 DEF StakesOn
<1> HIDE DEF key
<1>6. key \in StakesOn(market)'
  BY <1>2, <1>4 DEF StakesOn
<1>7. Filed'
  <2>1. \A s \in DOMAIN Stakes' : s[1] \in DOMAIN Markets'
    BY <1>1, <1>2, <1>4 DEF Inv, Filed
  <2>2. ASSUME NEW k \in DOMAIN Markets', Markets'[k].participant_count > 0
        PROVE  StakesOn(k)' # {}
    BY <1>2, <1>5, <1>6, <2>2 DEF Inv, Filed
  <2> QED
    BY <2>1, <2>2 DEF Filed
<1>8. SettledTogether'
  <2>1. ASSUME NEW s \in DOMAIN Stakes'
        PROVE  (Stakes[s].settled <=> IsSettled(s[1]))'
    <3>1. CASE s = key
      BY <3>1, <1>2, <1>4 DEF IsSettled
    <3>2. CASE s # key /\ s[1] = market
      BY <3>2, <1>1, <1>2 DEF Inv, SettledTogether, IsSettled
    <3>3. CASE s # key /\ s[1] # market
      BY <3>3, <1>2 DEF Inv, Filed, SettledTogether, IsSettled
    <3> QED
      BY <3>1, <3>2, <3>3
  <2>2. ASSUME NEW k \in DOMAIN Markets', IsSettled(k)'
        PROVE  StakesOn(k)' # {} /\ Markets'[k].prediction_id \in DOMAIN GroundTruths'
    <3>1. k # market /\ Markets'[k] = Markets[k] /\ k \in DOMAIN Markets
      BY <1>2, <2>2 DEF IsSettled
    <3> QED
      BY <1>5, <2>2, <3>1 DEF Inv, SettledTogether, IsSettled
  <2> QED
    BY <2>1, <2>2 DEF SettledTogether
<1> QED
  BY <1>3, <1>7, <1>8 DEF Inv

(* settle_market settles the market and all of its stakes, and no other.    *)
LEMMA InvSettleMarket ==
    ASSUME Inv, NEW market \in MarketId, SettleMarket(market), UNCHANGED GroundTruths
    PROVE  Inv'
<1>1. /\ market \in DOMAIN Markets /\ Markets[market].participant_count > 0
      /\ Markets[market].prediction_id \in DOMAIN GroundTruths
      /\ PayOut(market)
  BY DEF SettleMarket
<1>2. /\ IsMap(Models', ModelId, ModelInfo)
      /\ IsMap(Stakes', MarketId \X ModelId, StakedPrediction)
      /\ IsMap(Markets', MarketId, MarketRound)
      /\ DOMAIN Stakes' = DOMAIN Stakes
      /\ \A s \in DOMAIN Stakes : /\ s[1] # market => Stakes'[s] = Stakes[s]
                                  /\ s[1] = market => Stakes'[s].settled
      /\ DOMAIN Markets' = DOMAIN Markets
      /\ \A k \in DOMAIN Markets : k # market => Markets'[k] = Markets[k]
      /\ Markets'[market].status = "Settled"
      /\ Markets'[market].prediction_id = Markets[market].prediction_id
      /\ Markets'[market].participant_count = Markets[market].participant_count
  BY <1>1, PayOutEffect DEF Inv
<1>3. MarketTypeOK'
  BY <1>2 DEF MarketTypeOK
<1>4. \A k : StakesOn(k)' = StakesOn(k)
  BY <1>2 DEF StakesOn
<1>5. Filed'
  BY <1>2, <1>4 DEF Inv, Filed
<1>6. \A s \in DOMAIN Stakes' : (Stakes[s].settled <=> IsSettled(s[1]))'
  BY <1>2 DEF Inv, Filed, SettledTogether, IsSettled
<1>7. \A k \in DOMAIN Markets' : IsSettled(k)' => StakesOn(k)' # {}
  BY <1>1, <1>2, <1>4 DEF Inv, Filed, SettledTogether, IsSettled
<1>8. \A k \in DOMAIN Markets' : IsSettled(k)'
                                => Markets'[k].prediction_id \in DOMAIN GroundTruths'
  BY <1>1, <1>2 DEF Inv, SettledTogether, IsSettled
<1> QED
  BY <1>3, <1>5, <1>6, <1>7, <1>8 DEF Inv, SettledTogether

(* Nothing the verification pallet does can take an outcome back.           *)
LEMMA InvVerification ==
    ASSUME Inv, UNCHANGED marketVars, DOMAIN GroundTruths \subseteq DOMAIN GroundTruths'
    PROVE  Inv'
<1>1. MarketTypeOK' /\ Filed'
  BY DEF marketVars, Inv, MarketTypeOK, Filed, StakesOn
<1>2. SettledTogether'
  BY DEF marketVars, Inv, SettledTogether, StakesOn, IsSettled
<1> QED
  BY <1>1, <1>2 DEF Inv

LEMMA TruthsAreKept ==
    ASSUME VerificationNext
    PROVE  DOMAIN GroundTruths \subseteq DOMAIN GroundTruths'
<1>1. ASSUME NEW who \in Account, NEW id \in PredictionId, NEW outcome \in I128,
             SubmitGroundTruth(who, id, outcome)
      PROVE  DOMAIN GroundTruths \subseteq DOMAIN GroundTruths'
  BY <1>1 DEF SubmitGroundTruth, Put
<1> QED
  BY <1>1 DEF VerificationNext, VerificationCall, SubmitCommitment, RevealPrediction, Publish,
              storage

LEMMA InvStep ==
    ASSUME Inv, [Next]_vars
    PROVE  Inv'
<1>1. CASE VerificationNext /\ UNCHANGED <<marketVars, balanceVars>>
  BY <1>1, TruthsAreKept, InvVerification
<1>2. CASE MarketCall /\ UNCHANGED verificationVars
  <2>1. UNCHANGED GroundTruths
    BY <1>2 DEF verificationVars
  <2>2. ASSUME NEW who \in Account, NEW model \in ModelId, RegisterModel(who, model)
        PROVE  Inv'
    BY <2>1, <2>2, InvRegisterModel
  <2>3. ASSUME NEW market \in MarketId, NEW prediction \in PredictionId,
               CreateMarket(market, prediction)
        PROVE  Inv'
    BY <2>1, <2>3, InvCreateMarket
  <2>4. ASSUME NEW who \in Account, NEW market \in MarketId, NEW model \in ModelId,
               NEW prediction \in PredictionId, NEW amount \in StakeAmount,
               StakePrediction(who, market, model, prediction, amount)
        PROVE  Inv'
    BY <2>1, <2>4, InvStakePrediction
  <2>5. ASSUME NEW market \in MarketId, SettleMarket(market)
        PROVE  Inv'
    BY <2>1, <2>5, InvSettleMarket
  <2> QED
    BY <1>2, <2>2, <2>3, <2>4, <2>5 DEF MarketCall
<1>3. CASE BalancesNext /\ UNCHANGED <<verificationVars, marketVars>>
  BY <1>3, InvVerification DEF verificationVars
<1>4. CASE UNCHANGED vars
  BY <1>4, InvVerification DEF vars, verificationVars
<1> QED
  BY <1>1, <1>2, <1>3, <1>4 DEF Next

LEMMA InvInit == Init => Inv
<1> SUFFICES ASSUME Init PROVE Inv
  OBVIOUS
<1>1. Models = EmptyMap /\ Stakes = EmptyMap /\ Markets = EmptyMap
  BY DEF Init, MarketInit
<1>2. MarketTypeOK
  BY <1>1, EmptyMapType DEF MarketTypeOK
<1>3. DOMAIN Stakes = {} /\ DOMAIN Markets = {}
  BY <1>1, EmptyMapType
<1> QED
  BY <1>2, <1>3 DEF Inv, Filed, SettledTogether

LEMMA InvAlways == Spec => []Inv
<1>1. Inv /\ [Next]_vars => Inv'
  BY InvStep
<1> QED
  BY InvInit, <1>1, PTL DEF Spec

-----------------------------------------------------------------------------
(* The pallet's storage items hold only well-formed records: a reputation   *)
(* never leaves 0..MaxReputation however many markets rate a model.         *)
THEOREM MarketTypeCorrect == Spec => []MarketTypeOK
<1>1. Inv => MarketTypeOK
  BY DEF Inv
<1> QED
  BY InvAlways, <1>1, PTL

(* settle_market is all or nothing: a stake is settled exactly when its     *)
(* market is, and only a market with participants and an outcome is.        *)
THEOREM StakesSettleTogether == Spec => []SettledTogether
<1>1. Inv => SettledTogether
  BY DEF Inv
<1> QED
  BY InvAlways, <1>1, PTL

(* A step that settles a market settles no other.                           *)
LEMMA FinalStep ==
    ASSUME Inv, [Next]_vars
    PROVE  Final
<1>1. CASE UNCHANGED marketVars
  BY <1>1 DEF marketVars, Final
<1>2. ASSUME NEW who \in Account, NEW model \in ModelId, RegisterModel(who, model)
      PROVE  Final
  <2>1. /\ \A m \in DOMAIN Models : Models'[m] = Models[m]
        /\ UNCHANGED <<Stakes, Markets>>
    BY <1>2 DEF RegisterModel, Put
  <2> QED
    BY <2>1 DEF Final
<1>3. ASSUME NEW market \in MarketId, NEW prediction \in PredictionId,
             CreateMarket(market, prediction)
      PROVE  Final
  <2>1. /\ \A k \in DOMAIN Markets : Markets'[k] = Markets[k]
        /\ UNCHANGED <<Models, Stakes>>
    BY <1>3 DEF CreateMarket, Put
  <2> QED
    BY <2>1 DEF Final
<1>4. ASSUME NEW who \in Account, NEW market \in MarketId, NEW model \in ModelId,
             NEW prediction \in PredictionId, NEW amount \in StakeAmount,
             StakePrediction(who, market, model, prediction, amount)
      PROVE  Final
  <2>1. /\ market \in DOMAIN Markets /\ amount > 0 /\ amount \in Nat
        /\ Markets[market].status = "Open" /\ <<market, model>> \notin DOMAIN Stakes
        /\ UNCHANGED Models
        /\ RecordStake(who, market, model, prediction, amount)
    BY <1>4, MarketAssumption DEF StakePrediction, RecordStake
  <2>2. /\ \A s \in DOMAIN Stakes : s # <<market, model>> => Stakes'[s] = Stakes[s]
        /\ \A k \in DOMAIN Markets : k # market => Markets'[k] = Markets[k]
    BY <2>1, RecordStakeEffect DEF Inv
  <2> QED
    BY <2>1, <2>2 DEF Final, IsSettled
<1>5. ASSUME NEW market \in MarketId, SettleMarket(market)
      PROVE  Final
  <2>1. /\ market \in DOMAIN Markets /\ ~IsSettled(market) /\ PayOut(market)
    BY <1>5 DEF SettleMarket, IsSettled
  <2>2. /\ \A m \in DOMAIN Models : m \notin Entrants(market) => Models'[m] = Models[m]
        /\ \A s \in DOMAIN Stakes : s[1] # market => Stakes'[s] = Stakes[s]
        /\ \A k \in DOMAIN Markets : k # market => Markets'[k] = Markets[k]
        /\ IsSettled(market)'
    BY <2>1, PayOutEffect DEF Inv, IsSettled
  <2>3. \A s \in DOMAIN Stakes : Stakes[s].settled => s[1] # market
    BY <2>1 DEF Inv, SettledTogether
  <2>4. ASSUME NEW m \in DOMAIN Models, Models'[m] # Models[m]
        PROVE  \E s \in StakesBy(m) : Settles(s[1])
    <3>1. <<market, m>> \in DOMAIN Stakes
      BY <2>2, <2>4 DEF Entrants
    <3>2. <<market, m>> \in StakesBy(m) /\ Settles(<<market, m>>[1])
      BY <2>1, <2>2, <3>1 DEF StakesBy, Settles
    <3> QED
      BY <3>2
  <2> QED
    BY <2>1, <2>2, <2>3, <2>4 DEF Final, IsSettled
<1> QED
  BY <1>1, <1>2, <1>3, <1>4, <1>5 DEF Next, MarketCall, BalancesNext, vars, marketVars

(* A settled market is over (settle_market's MarketAlreadySettled check and *)
(* stake_prediction's MarketNotOpen check), and reputations move only when  *)
(* a market the model staked on is settled.                                 *)
THEOREM SettledIsFinal == Spec => SettlementIsFinal
<1>1. Inv /\ [Next]_vars => [Final]_vars
  BY FinalStep
<1> QED
  BY InvAlways, <1>1, PTL DEF Spec, SettlementIsFinal

-----------------------------------------------------------------------------
(* The runtime runs the verification pallet: no market call, fee or        *)
(* transfer touches its storage, so the pallet does in the runtime what it *)
(* does alone, and its theorems hold there.                                *)
THEOREM RuntimeRunsThePallet == Spec => VerificationSpec
<1>1. Init => VerificationInit
  BY DEF Init
<1>2. [Next]_vars => [VerificationNext]_verificationVars
  BY DEF Next, vars
<1> QED
  BY <1>1, <1>2, PTL DEF Spec, VerificationSpec

(* So within the runtime, too, what an id shows was settled when it was    *)
(* committed, and nothing published is ever taken back.                    *)
THEOREM RuntimeKeepsCommitments ==
    Spec => ImplementsCommitReveal /\ NeverRewritten /\ []RevealsAreCommitted
BY RuntimeRunsThePallet, PalletImplementsScheme, HistoryNeverRewritten,
   PublishedWasCommitted, PTL
=============================================================================
