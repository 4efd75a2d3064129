---------------------------- MODULE Verification ----------------------------
(***************************************************************************)
(* The verification pallet: commit to a hash of a prediction, later reveal *)
(* the prediction it hides, and record the outcome the oracle reports.     *)
(*                                                                         *)
(* A dispatchable call is one atomic step.  A call that returns an error   *)
(* has no step: FRAME runs every call in a storage layer that is dropped   *)
(* on Err, so neither storage nor events change (the VerificationFailed    *)
(* event, deposited just before the mismatch error, included).             *)
(***************************************************************************)
EXTENDS System, Storage

CONSTANTS PredictionId,  \* the H256 keys predictions are filed under
          I128,          \* the fixed-point values of predictions and outcomes
          Salt, ModelHash, InputHash,
          H256,          \* the hashes a commitment may carry
          Blake2(_)      \* blake2_256 of an opening's 112-byte preimage

(* The arguments of reveal_prediction that are hashed.  The preimage lays  *)
(* them side by side at fixed widths, so distinct openings have distinct   *)
(* preimages.                                                              *)
Opening == [prediction : I128, salt : Salt, model_hash : ModelHash, input_hash : InputHash]

(* Blake2 is taken to be collision free, which is what the scheme relies on. *)
ASSUME HashAssumption ==
    /\ \A o \in Opening : Blake2(o) \in H256
    /\ \A o1, o2 \in Opening : Blake2(o1) = Blake2(o2) => o1 = o2

VARIABLES Commitments,   \* prediction id -> Commitment
          Reveals,       \* prediction id -> RevealedPrediction
          GroundTruths   \* prediction id -> GroundTruth

storage == <<Commitments, Reveals, GroundTruths>>
verificationVars == <<Commitments, Reveals, GroundTruths, block_number>>

-----------------------------------------------------------------------------
Commitment == [submitter : Account, commitment_hash : H256,
               block_number : 0..MaxBlock, revealed : BOOLEAN]

RevealedPrediction == [submitter : Account, prediction : I128, model_hash : ModelHash,
                       input_hash : InputHash, block_number : 0..MaxBlock]

GroundTruth == [outcome : I128, submitter : Account, block_number : 0..MaxBlock]

(* The values every storage item may take. *)
VerificationTypeOK ==
    /\ IsMap(Commitments, PredictionId, Commitment)
    /\ IsMap(Reveals, PredictionId, RevealedPrediction)
    /\ IsMap(GroundTruths, PredictionId, GroundTruth)
    /\ block_number \in 0..MaxBlock

VerificationInit ==
    /\ Commitments = EmptyMap
    /\ Reveals = EmptyMap
    /\ GroundTruths = EmptyMap
    /\ block_number = 0

-----------------------------------------------------------------------------
(* reveal_prediction once its checks have passed: flag the commitment, then *)
(* store what the opening makes public.                                     *)
Publish(who, id, o) ==
    /\ Commitments' = [Commitments EXCEPT ![id].revealed = TRUE]
    /\ Reveals' = Put(Reveals, id,
           [submitter |-> who, prediction |-> o.prediction, model_hash |-> o.model_hash,
            input_hash |-> o.input_hash, block_number |-> block_number])
    /\ UNCHANGED <<GroundTruths, block_number>>

-----------------------------------------------------------------------------
(* Wrong versions of the calls, used only to confirm that each property     *)
(* below can tell the pallet from one with a plausible bug.                 *)

(* submit_commitment without its contains_key check. *)
SubmitCommitmentOverwriting(who, id, hash) ==
    /\ Commitments' = Put(Commitments, id,
           [submitter |-> who, commitment_hash |-> hash,
            block_number |-> block_number, revealed |-> FALSE])
    /\ UNCHANGED <<Reveals, GroundTruths, block_number>>

(* reveal_prediction without the hash comparison. *)
RevealPredictionUnchecked(who, id, o) ==
    /\ id \in DOMAIN Commitments
    /\ Commitments[id].submitter = who
    /\ ~Commitments[id].revealed
    /\ Publish(who, id, o)

(* reveal_prediction that waits for the ground truth. *)
RevealPredictionAfterTruth(who, id, o) ==
    /\ id \in DOMAIN Commitments \cap DOMAIN GroundTruths
    /\ Commitments[id].submitter = who
    /\ ~Commitments[id].revealed
    /\ Blake2(o) = Commitments[id].commitment_hash
    /\ Publish(who, id, o)

(* submit_ground_truth without its contains_key check. *)
SubmitGroundTruthOverwriting(who, id, outcome) ==
    /\ GroundTruths' = Put(GroundTruths, id,
           [outcome |-> outcome, submitter |-> who, block_number |-> block_number])
    /\ UNCHANGED <<Commitments, Reveals, block_number>>

(* submit_ground_truth that dates the report with the next block. *)
SubmitGroundTruthNextBlock(who, id, outcome) ==
    /\ id \notin DOMAIN GroundTruths
    /\ GroundTruths' = Put(GroundTruths, id,
           [outcome |-> outcome, submitter |-> who, block_number |-> block_number + 1])
    /\ UNCHANGED <<Commitments, Reveals, block_number>>

-----------------------------------------------------------------------------
(* submit_commitment: first come, first served, whoever signs it. *)
SubmitCommitment(who, id, hash) ==
    /\ id \notin DOMAIN Commitments
    /\ Commitments' = Put(Commitments, id,
           [submitter |-> who, commitment_hash |-> hash,
            block_number |-> block_number, revealed |-> FALSE])
    /\ UNCHANGED <<Reveals, GroundTruths, block_number>>

(* reveal_prediction: the committer, once, with the opening that hashes to *)
(* the commitment.                                                         *)
RevealPrediction(who, id, o) ==
    /\ id \in DOMAIN Commitments
    /\ Commitments[id].submitter = who
    /\ ~Commitments[id].revealed
    /\ Blake2(o) = Commitments[id].commitment_hash
    /\ Publish(who, id, o)

(* submit_ground_truth: any account is the oracle, the first report stays. *)
SubmitGroundTruth(who, id, outcome) ==
    /\ id \notin DOMAIN GroundTruths
    /\ GroundTruths' = Put(GroundTruths, id,
           [outcome |-> outcome, submitter |-> who, block_number |-> block_number])
    /\ UNCHANGED <<Commitments, Reveals, block_number>>

VerificationCall ==
    \E who \in Account, id \in PredictionId :
        \/ \E hash \in H256 : SubmitCommitment(who, id, hash)
        \/ \E o \in Opening : RevealPrediction(who, id, o)
        \/ \E outcome \in I128 : SubmitGroundTruth(who, id, outcome)

VerificationNext == VerificationCall \/ (NextBlock /\ UNCHANGED storage)

VerificationSpec == VerificationInit /\ [][VerificationNext]_verificationVars

(* An operator who holds the opening of its commitment keeps sending the   *)
(* reveal until a block includes it.                                       *)
RevealAny(id) == \E who \in Account, o \in Opening : RevealPrediction(who, id, o)

FairVerificationSpec ==
    VerificationSpec /\ \A id \in PredictionId : WF_verificationVars(RevealAny(id))

-----------------------------------------------------------------------------
(* Everything the pallet publishes as verified was committed before, under *)
(* the same id, by the same account, and opens that commitment; and a      *)
(* commitment counts as revealed exactly when its prediction is published. *)
RevealsAreCommitted ==
    /\ \A id \in DOMAIN Reveals :
         /\ id \in DOMAIN Commitments
         /\ Reveals[id].submitter = Commitments[id].submitter
         /\ Commitments[id].block_number <= Reveals[id].block_number
         /\ \E salt \in Salt :
              Commitments[id].commitment_hash =
                Blake2([prediction |-> Reveals[id].prediction, salt |-> salt,
                        model_hash |-> Reveals[id].model_hash,
                        input_hash |-> Reveals[id].input_hash])
    /\ \A id \in DOMAIN Commitments : Commitments[id].revealed => id \in DOMAIN Reveals
    /\ \A id \in DOMAIN Reveals : Commitments[id].revealed

(* No record on the chain is dated in the future. *)
DatedInThePast ==
    /\ \A id \in DOMAIN Commitments : Commitments[id].block_number <= block_number
    /\ \A id \in DOMAIN Reveals : Reveals[id].block_number <= block_number
    /\ \A id \in DOMAIN GroundTruths : GroundTruths[id].block_number <= block_number

(* No call rewrites history: a commitment keeps its owner, hash and block  *)
(* and is never un-revealed; a reveal and a ground truth never change.     *)
HistoryIsKept ==
    /\ \A id \in DOMAIN Commitments :
         /\ id \in DOMAIN Commitments'
         /\ \/ Commitments'[id] = Commitments[id]
            \/ Commitments'[id] = [Commitments[id] EXCEPT !.revealed = TRUE]
    /\ \A id \in DOMAIN Reveals : id \in DOMAIN Reveals' /\ Reveals'[id] = Reveals[id]
    /\ \A id \in DOMAIN GroundTruths :
         id \in DOMAIN GroundTruths' /\ GroundTruths'[id] = GroundTruths[id]

NeverRewritten == [][HistoryIsKept]_verificationVars

-----------------------------------------------------------------------------
(* What an opening makes public; the salt is an argument of the call only. *)
Public(o) == [prediction |-> o.prediction, model_hash |-> o.model_hash,
              input_hash |-> o.input_hash]

(* The values a hash can ever show: one, or none if it opens to nothing. *)
Hidden(hash) == {Public(o) : o \in {o \in Opening : Blake2(o) = hash}}

Scheme == INSTANCE CommitReveal WITH
    Id <- PredictionId,
    Owner <- Account,
    Value <- [prediction : I128, model_hash : ModelHash, input_hash : InputHash],
    bound <- [id \in DOMAIN Commitments |->
                [owner |-> Commitments[id].submitter,
                 values |-> Hidden(Commitments[id].commitment_hash)]],
    shown <- [id \in DOMAIN Reveals |->
                [owner |-> Reveals[id].submitter, value |-> Public(Reveals[id])]]

(* The pallet is a commit-reveal scheme: what an id will show is settled   *)
(* when it is committed, and only that, and only by its owner, is shown.   *)
ImplementsCommitReveal == Scheme!Spec

(* Nobody can keep an operator from revealing: an id committed to a hash   *)
(* that opens is eventually revealed if its owner keeps trying.            *)
HonestRevealSucceeds ==
    \A id \in PredictionId :
        (id \in DOMAIN Commitments /\ Hidden(Commitments[id].commitment_hash) # {})
            ~> id \in DOMAIN Reveals

(* "proves an ML prediction was made before the outcome was known"         *)
(* (ARCHITECTURE.md, Substrate On-Chain Verification): a verified          *)
(* prediction was committed no later than the outcome was reported.        *)
CommittedBeforeOutcome ==
    \A id \in DOMAIN Reveals \cap DOMAIN GroundTruths :
        Commitments[id].block_number <= GroundTruths[id].block_number
=============================================================================
