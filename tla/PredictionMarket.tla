-------------------------- MODULE PredictionMarket --------------------------
(***************************************************************************)
(* The prediction-market pallet.  Models are registered, stake on a market *)
(* and are scored when the market is settled; the pallet reads the reveals *)
(* and ground truths of the verification pallet and moves money through    *)
(* pallet_balances.  As there, a call is one atomic step and a failing     *)
(* call is no step.                                                        *)
(*                                                                         *)
(* Left out because nothing reads them back: model_hash, registered_block, *)
(* created_block, and the events.                                          *)
(***************************************************************************)
EXTENDS Verification, Balances

CONSTANTS ModelId, MarketId,  \* the H256 keys of models and markets
          StakeAmount,        \* bound: the amounts calls try to stake
          MAX_PARTICIPANTS,   \* 10
          BrierDivisor,       \* 1_000_000
          MaxBrier,           \* 1_000_000_000_000
          CorrectAbove,       \* 500_000_000_000
          InitialReputation,  \* 5000
          MaxReputation,      \* 10000
          ReputationGain,     \* 100
          ReputationLoss,     \* 200
          MaxI128, MaxU128    \* where arithmetic saturates

ASSUME MarketAssumption ==
    /\ StakeAmount \subseteq Nat
    /\ MAX_PARTICIPANTS \in Nat /\ MaxBrier \in Nat /\ CorrectAbove \in Nat
    /\ BrierDivisor \in Nat \ {0}
    /\ MaxReputation \in Nat /\ InitialReputation \in 0..MaxReputation
    /\ ReputationGain \in Nat /\ ReputationLoss \in Nat
    /\ MaxI128 \in Nat /\ MaxU128 \in Nat \ {0}
    /\ I128 \subseteq (-MaxI128 - 1)..MaxI128

(* Keys are 256-bit hashes.                                                 *)
ASSUME KeyAssumption == IsFiniteSet(ModelId) /\ IsFiniteSet(MarketId)

VARIABLES Models,   \* model id -> ModelInfo
          Stakes,   \* <<market id, model id>> -> StakedPrediction
          Markets   \* market id -> MarketRound

marketVars == <<Models, Stakes, Markets>>

-----------------------------------------------------------------------------
ModelInfo == [owner : Account, total_predictions : Nat, total_correct : Nat,
              reputation_score : 0..MaxReputation]

StakedPrediction == [owner : Account, prediction_id : PredictionId,
                     stake_amount : Nat \ {0}, settled : BOOLEAN]

(* AwaitingReveal and AwaitingTruth are declared but never assigned.        *)
MarketStatus == {"Open", "AwaitingReveal", "AwaitingTruth", "Settled"}

MarketRound == [status : MarketStatus, total_stake : Nat, participant_count : Nat,
                prediction_id : PredictionId]

(* The values every storage item may take.                                  *)
MarketTypeOK ==
    /\ IsMap(Models, ModelId, ModelInfo)
    /\ IsMap(Stakes, MarketId \X ModelId, StakedPrediction)
    /\ IsMap(Markets, MarketId, MarketRound)

MarketInit ==
    /\ Models = EmptyMap
    /\ Stakes = EmptyMap
    /\ Markets = EmptyMap

(* Stakes::iter_prefix(market): the models staked on it, in no useful order. *)
Entrants(market) == {m \in ModelId : <<market, m>> \in DOMAIN Stakes}

-----------------------------------------------------------------------------
(* register_model: first come, first served.                                *)
RegisterModel(who, model) ==
    /\ model \notin DOMAIN Models
    /\ Models' = Put(Models, model,
           [owner |-> who, total_predictions |-> 0, total_correct |-> 0,
            reputation_score |-> InitialReputation])
    /\ UNCHANGED <<Stakes, Markets, balanceVars>>

(* create_market: by anyone, about any prediction id, known or not.         *)
CreateMarket(market, prediction) ==
    /\ market \notin DOMAIN Markets
    /\ Markets' = Put(Markets, market,
           [status |-> "Open", total_stake |-> 0, participant_count |-> 0,
            prediction_id |-> prediction])
    /\ UNCHANGED <<Models, Stakes, balanceVars>>

(* What stake_prediction writes once its checks have passed.                *)
RecordStake(who, market, model, prediction, amount) ==
    /\ Stakes' = Put(Stakes, <<market, model>>,
           [owner |-> who, prediction_id |-> prediction, stake_amount |-> amount,
            settled |-> FALSE])
    /\ Markets' = [Markets EXCEPT ![market].total_stake = @ + amount,
                                  ![market].participant_count = @ + 1]
    /\ UNCHANGED Models

(* Wrong versions of stake_prediction, to confirm that the properties see    *)
(* the difference: without the AlreadyStaked check,                          *)
StakeTwice(who, market, model, prediction, amount) ==
    /\ model \in DOMAIN Models /\ Models[model].owner = who /\ amount > 0
    /\ market \in DOMAIN Markets /\ Markets[market].status = "Open"
    /\ Markets[market].participant_count < MAX_PARTICIPANTS
    /\ Reserve(who, amount)
    /\ RecordStake(who, market, model, prediction, amount)

(* with <= for < in the TooManyParticipants check,                           *)
StakeOneTooMany(who, market, model, prediction, amount) ==
    /\ model \in DOMAIN Models /\ Models[model].owner = who /\ amount > 0
    /\ market \in DOMAIN Markets /\ Markets[market].status = "Open"
    /\ Markets[market].participant_count <= MAX_PARTICIPANTS
    /\ <<market, model>> \notin DOMAIN Stakes
    /\ Reserve(who, amount)
    /\ RecordStake(who, market, model, prediction, amount)

(* without the MarketNotOpen check,                                          *)
StakeLate(who, market, model, prediction, amount) ==
    /\ model \in DOMAIN Models /\ Models[model].owner = who /\ amount > 0
    /\ market \in DOMAIN Markets
    /\ Markets[market].participant_count < MAX_PARTICIPANTS
    /\ <<market, model>> \notin DOMAIN Stakes
    /\ Reserve(who, amount)
    /\ RecordStake(who, market, model, prediction, amount)

(* and recording the stake without reserving it.                             *)
StakeUnreserved(who, market, model, prediction, amount) ==
    /\ model \in DOMAIN Models /\ Models[model].owner = who /\ amount > 0
    /\ market \in DOMAIN Markets /\ Markets[market].status = "Open"
    /\ Markets[market].participant_count < MAX_PARTICIPANTS
    /\ <<market, model>> \notin DOMAIN Stakes
    /\ CanReserve(who, amount)
    /\ RecordStake(who, market, model, prediction, amount)
    /\ UNCHANGED balanceVars

(* stake_prediction: the model's owner reserves amount behind a prediction  *)
(* id, which need not be the market's, nor committed to, nor undecided.     *)
StakePrediction(who, market, model, prediction, amount) ==
    /\ model \in DOMAIN Models
    /\ Models[model].owner = who
    /\ amount > 0
    /\ market \in DOMAIN Markets
    /\ Markets[market].status = "Open"
    /\ Markets[market].participant_count < MAX_PARTICIPANTS
    /\ <<market, model>> \notin DOMAIN Stakes
    /\ Reserve(who, amount)
    /\ RecordStake(who, market, model, prediction, amount)

-----------------------------------------------------------------------------
SaturateI128(n) ==
    IF n < -MaxI128 - 1 THEN -MaxI128 - 1 ELSE Lesser(n, MaxI128)
SaturateU128(n) == Lesser(n, MaxU128)

(* The squared error as the code scales it, saturating at every step.       *)
Brier(prediction, outcome) ==
    LET diff == SaturateI128(prediction - outcome)
    IN  SaturateI128(diff * diff) \div BrierDivisor

(* Wrong version: the error itself taken for the score.                     *)
DirectScore(prediction, outcome) == Lesser(Brier(prediction, outcome), MaxBrier)

InverseScore(prediction, outcome) == MaxBrier - Lesser(Brier(prediction, outcome), MaxBrier)

(* The inverse Brier score a stake settles with: 0 if its prediction is not *)
(* revealed by then.                                                        *)
Score(market, model) ==
    LET id == Stakes[<<market, model>>].prediction_id
    IN  IF id \in DOMAIN Reveals
        THEN InverseScore(Reveals[id].prediction,
                          GroundTruths[Markets[market].prediction_id].outcome)
        ELSE 0

TotalScore(market) ==
    SaturateU128(SumFunction([m \in Entrants(market) |-> Score(market, m)]))

(* Wrong version: shares that do not add up to one.                         *)
UnnormalisedReward(market, model) ==
    SaturateU128(Markets[market].total_stake * Score(market, model)) \div MaxBrier

(* A model's share of the market's pool.                                    *)
Reward(market, model) ==
    IF Score(market, model) > 0
    THEN SaturateU128(Markets[market].total_stake * Score(market, model))
           \div TotalScore(market)
    ELSE 0

OwnedBy(who, market) == {m \in Entrants(market) : Stakes[<<market, m>>].owner = who}

(* Wrong version: returning only the stakes whose prediction was revealed.  *)
RevealedStakedBy(who, market) ==
    SumFunction([m \in {m \in OwnedBy(who, market) : Score(market, m) > 0} |->
                   Stakes[<<market, m>>].stake_amount])

(* What owner who has staked on the market, and what it is to be paid.       *)
StakedBy(who, market) ==
    SumFunction([m \in OwnedBy(who, market) |-> Stakes[<<market, m>>].stake_amount])
RewardOf(who, market) == SumFunction([m \in OwnedBy(who, market) |-> Reward(market, m)])

(* Wrong version: reputation_score - 200 where the code saturates.          *)
RatedWithoutFloor(info, score) ==
    IF score > CorrectAbove
    THEN [info EXCEPT !.total_predictions = @ + 1,
                      !.total_correct = @ + 1,
                      !.reputation_score = Lesser(@ + ReputationGain, MaxReputation)]
    ELSE [info EXCEPT !.total_predictions = @ + 1,
                      !.reputation_score = @ - ReputationLoss]

(* A model's record after a market that scored it.                           *)
Rated(info, score) ==
    IF score > CorrectAbove
    THEN [info EXCEPT !.total_predictions = @ + 1,
                      !.total_correct = @ + 1,
                      !.reputation_score = Lesser(@ + ReputationGain, MaxReputation)]
    ELSE [info EXCEPT !.total_predictions = @ + 1,
                      !.reputation_score = @ - Lesser(@, ReputationLoss)]

(* settle_market's loop and its last write.  The loop treats the stakes one  *)
(* by one; an owner's unreserves and deposits add up, whatever their order,  *)
(* because none of them ends the account.                                    *)
PayOut(market) ==
    /\ free' = [a \in Account |-> free[a] + Unreserved(a, StakedBy(a, market))
                                          + Deposited(a, RewardOf(a, market))]
    /\ reserved' = [a \in Account |-> reserved[a] - Unreserved(a, StakedBy(a, market))]
    /\ Models' = [m \in DOMAIN Models |->
                    IF m \in Entrants(market) THEN Rated(Models[m], Score(market, m))
                                              ELSE Models[m]]
    /\ Stakes' = [s \in DOMAIN Stakes |->
                    IF s[1] = market THEN [Stakes[s] EXCEPT !.settled = TRUE] ELSE Stakes[s]]
    /\ Markets' = [Markets EXCEPT ![market].status = "Settled"]

(* Wrong versions of settle_market: without the MarketAlreadySettled check,  *)
SettleAgain(market) ==
    /\ market \in DOMAIN Markets
    /\ Markets[market].participant_count > 0
    /\ Markets[market].prediction_id \in DOMAIN GroundTruths
    /\ PayOut(market)

(* without the NoParticipants check,                                         *)
SettleEmpty(market) ==
    /\ market \in DOMAIN Markets
    /\ Markets[market].status # "Settled"
    /\ Markets[market].prediction_id \in DOMAIN GroundTruths
    /\ PayOut(market)

(* and waiting for every entrant's reveal.                                   *)
SettleRevealed(market) ==
    /\ market \in DOMAIN Markets
    /\ Markets[market].status # "Settled"
    /\ Markets[market].participant_count > 0
    /\ Markets[market].prediction_id \in DOMAIN GroundTruths
    /\ \A m \in Entrants(market) : Stakes[<<market, m>>].prediction_id \in DOMAIN Reveals
    /\ PayOut(market)

(* settle_market: anyone, once the market's outcome is known.                *)
SettleMarket(market) ==
    /\ market \in DOMAIN Markets
    /\ Markets[market].status # "Settled"
    /\ Markets[market].participant_count > 0
    /\ Markets[market].prediction_id \in DOMAIN GroundTruths
    /\ PayOut(market)

MarketCall ==
    \/ \E who \in Account, model \in ModelId : RegisterModel(who, model)
    \/ \E market \in MarketId, prediction \in PredictionId : CreateMarket(market, prediction)
    \/ \E who \in Account, market \in MarketId, model \in ModelId,
          prediction \in PredictionId, amount \in StakeAmount :
            StakePrediction(who, market, model, prediction, amount)
    \/ \E market \in MarketId : SettleMarket(market)
=============================================================================
