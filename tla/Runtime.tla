------------------------------- MODULE Runtime -------------------------------
(***************************************************************************)
(* The runtime: construct_runtime! wires the verification and prediction-  *)
(* market pallets and pallet_balances into one state machine.  Extrinsics  *)
(* of any account, to any pallet, are applied one at a time in the order   *)
(* blocks hold them.  The fee of a call is a PayFee step before it.        *)
(***************************************************************************)
EXTENDS PredictionMarket

vars == <<verificationVars, marketVars, balanceVars>>

Init == VerificationInit /\ BalancesInit /\ MarketInit

Next == \/ VerificationNext /\ UNCHANGED <<marketVars, balanceVars>>
        \/ MarketCall /\ UNCHANGED verificationVars
        \/ BalancesNext /\ UNCHANGED <<verificationVars, marketVars>>

Spec == Init /\ [][Next]_vars

(* Anyone may settle, so a market that can be settled is, sooner or later.  *)
Settle(market) == SettleMarket(market) /\ UNCHANGED verificationVars
FairSpec == Spec /\ \A market \in MarketId : WF_vars(Settle(market))

-----------------------------------------------------------------------------
TypeOK == VerificationTypeOK /\ BalancesTypeOK /\ MarketTypeOK

StakesOf(who) == {s \in DOMAIN Stakes : Stakes[s].owner = who}
Unsettled(stakes) == {s \in stakes : ~Stakes[s].settled}
SumStakes(stakes) == SumFunction([s \in stakes |-> Stakes[s].stake_amount])
StakesOn(market) == {s \in DOMAIN Stakes : s[1] = market}
StakesBy(model) == {s \in DOMAIN Stakes : s[2] = model}
IsSettled(market) == Markets[market].status = "Settled"

(* What an account has reserved is exactly what it has staked on markets    *)
(* that are not settled (reserve in stake_prediction against unreserve in   *)
(* settle_market), so no unreserve falls short.                             *)
ReserveBacksStakes ==
    \A a \in Account : reserved[a] = SumStakes(Unsettled(StakesOf(a)))

(* A market's running totals are those of the stakes filed under it, of     *)
(* which there are never more than MAX_PARTICIPANTS.                        *)
BooksBalance ==
    /\ \A s \in DOMAIN Stakes : s[1] \in DOMAIN Markets /\ s[2] \in DOMAIN Models
    /\ \A market \in DOMAIN Markets :
         /\ Markets[market].total_stake = SumStakes(StakesOn(market))
         /\ Markets[market].participant_count = Cardinality(StakesOn(market))
         /\ Markets[market].participant_count <= MAX_PARTICIPANTS

(* All stakes of a market are settled with it, none before, and only with   *)
(* participants and a known outcome.                                        *)
SettledTogether ==
    /\ \A s \in DOMAIN Stakes : Stakes[s].settled <=> IsSettled(s[1])
    /\ \A market \in DOMAIN Markets :
         IsSettled(market) => /\ StakesOn(market) # {}
                              /\ Markets[market].prediction_id \in DOMAIN GroundTruths

(* A model's counters are its settled stakes, each counted once, and its    *)
(* reputation is within what that many right and wrong predictions explain. *)
RecordsMatchStakes ==
    \A model \in DOMAIN Models :
        LET info == Models[model]
            wrong == info.total_predictions - info.total_correct
        IN  /\ info.total_predictions =
                 Cardinality(StakesBy(model) \ Unsettled(StakesBy(model)))
            /\ wrong >= 0
            /\ info.reputation_score
                 <= Lesser(InitialReputation + ReputationGain * info.total_correct,
                           MaxReputation)
            /\ info.reputation_score >= InitialReputation - ReputationLoss * wrong

(* Whoever has a stake outstanding keeps a live account, whatever fees and  *)
(* transfers it pays: the deposit of its reward, whose error settle_market  *)
(* ignores, cannot fail.                                                    *)
StakersStayAlive ==
    \A s \in DOMAIN Stakes :
        ~Stakes[s].settled => free[Stakes[s].owner] >= ExistentialDeposit

-----------------------------------------------------------------------------
Settles(market) == market \in DOMAIN Markets /\ ~IsSettled(market) /\ IsSettled(market)'

(* Settling pays every owner its stakes and every reward it announces, and  *)
(* the rewards share out the pool: none is lost but the rounding of each    *)
(* (nothing is paid when nobody scored, or less when the product saturates).*)
PaysInFull ==
    \A market \in MarketId : Settles(market) =>
        LET minted == TotalIssuance' - TotalIssuance
            pool == Markets[market].total_stake
        IN  /\ \A a \in Account :
                 /\ reserved'[a] = reserved[a] - StakedBy(a, market)
                 /\ free'[a] = free[a] + StakedBy(a, market) + RewardOf(a, market)
            /\ minted <= pool
            /\ (TotalScore(market) > 0 /\ pool * MaxBrier <= MaxU128)
                 => minted > pool - Cardinality(Entrants(market))

SettlementPaysInFull == [][PaysInFull]_vars

(* "closer prediction should earn more" (tests.rs): of two owners with one  *)
(* revealed stake each, the one closer to the outcome gains no less.        *)
Error(market, model) ==
    LET miss == Reveals[Stakes[<<market, model>>].prediction_id].prediction
                  - GroundTruths[Markets[market].prediction_id].outcome
    IN  IF miss < 0 THEN -miss ELSE miss

Gain(who) == (free[who] + reserved[who])' - (free[who] + reserved[who])

CloserGainsNoLess ==
    \A market \in MarketId : Settles(market) =>
        \A a, b \in Account : \A m, n \in Entrants(market) :
            ( /\ OwnedBy(a, market) = {m} /\ OwnedBy(b, market) = {n}
              /\ Stakes[<<market, m>>].prediction_id \in DOMAIN Reveals
              /\ Stakes[<<market, n>>].prediction_id \in DOMAIN Reveals
              /\ Error(market, m) <= Error(market, n) )
            => Gain(a) >= Gain(b)

CloserEarnsNoLess == [][CloserGainsNoLess]_vars

(* A settled market is over: its record and stakes never change again, no   *)
(* late reveal reopens it; and a model's record changes only in a step that *)
(* settles a market it has staked on.                                       *)
Final ==
    /\ \A market \in DOMAIN Markets : IsSettled(market) => Markets'[market] = Markets[market]
    /\ \A s \in DOMAIN Stakes : Stakes[s].settled => Stakes'[s] = Stakes[s]
    /\ \A model \in DOMAIN Models :
         Models'[model] # Models[model]
           => \E s \in StakesBy(model) : Settles(s[1])

SettlementIsFinal == [][Final]_vars

(* Money is escrowed as Escrow.tla says.                                    *)
Bank == INSTANCE Escrow WITH
    Owner <- Account, Market <- MarketId, Entry <- ModelId,
    held <- reserved,
    deposits <- [s \in DOMAIN Stakes |->
                   [owner |-> Stakes[s].owner, amount |-> Stakes[s].stake_amount]],
    closed <- {market \in DOMAIN Markets : IsSettled(market)},
    supply <- TotalIssuance

ImplementsEscrow == Bank!Spec

(* Once a market's outcome is known nothing can keep its stakes locked, as  *)
(* long as somebody goes on calling settle_market.                          *)
StakesAreReleased ==
    \A market \in MarketId :
        ( /\ market \in DOMAIN Markets
          /\ Markets[market].participant_count > 0
          /\ Markets[market].prediction_id \in DOMAIN GroundTruths )
        ~> (\A s \in StakesOn(market) : Stakes[s].settled)

-----------------------------------------------------------------------------
(* "After ground truth and reveals, anyone calls settle_market"             *)
(* (prediction-market/src/lib.rs:9): no market settles with a prediction    *)
(* still hidden.                                                            *)
SettlesAfterReveals ==
    [][\A market \in MarketId : Settles(market) =>
         \A m \in Entrants(market) : Stakes[<<market, m>>].prediction_id \in DOMAIN Reveals]_vars

(* "inaccurate models lose stake" (prediction-market/src/lib.rs:10): an     *)
(* owner all of whose stakes on a market scored nothing is poorer for it.   *)
InaccurateLoseStake ==
    [][\A market \in MarketId : Settles(market) =>
         \A a \in Account :
            (OwnedBy(a, market) # {} /\ \A m \in OwnedBy(a, market) : Score(market, m) = 0)
              => Gain(a) < 0]_vars
=============================================================================
