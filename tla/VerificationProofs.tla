------------------------- MODULE VerificationProofs -------------------------
(* Theorems about the verification pallet, for every set of accounts, ids, *)
(* values and openings and every collision-free hash.                      *)
EXTENDS Verification, TLAPS

(* Storage maps: what the empty map, insert and a well-typed map are.      *)
(* The empty map is a map of every type. *)
LEMMA EmptyMapType ==
    ASSUME NEW K, NEW V
    PROVE  IsMap(EmptyMap, K, V) /\ DOMAIN EmptyMap = {}
BY DEF EmptyMap, IsMap

(* Every key of a map is of the key type and every value of the value type. *)
LEMMA MapElim ==
    ASSUME NEW K, NEW V, NEW f, IsMap(f, K, V)
    PROVE  /\ DOMAIN f \subseteq K
           /\ f \in [DOMAIN f -> V]
           /\ \A k \in DOMAIN f : f[k] \in V
BY DEF IsMap

(* A function on some keys of K, into V, is a map. *)
LEMMA MapIntro ==
    ASSUME NEW K, NEW V, NEW D \in SUBSET K, NEW f \in [D -> V]
    PROVE  IsMap(f, K, V)
BY DEF IsMap

(* insert keeps a map's type. *)
LEMMA PutType ==
    ASSUME NEW K, NEW V, NEW f, IsMap(f, K, V), NEW k \in K, NEW v \in V
    PROVE  IsMap(Put(f, k, v), K, V)
BY DEF IsMap, Put

-----------------------------------------------------------------------------
(* What the type invariant says of a record found under a key.             *)
LEMMA RecordTypes ==
    ASSUME VerificationTypeOK
    PROVE  /\ DOMAIN Commitments \subseteq PredictionId
           /\ DOMAIN Reveals \subseteq PredictionId
           /\ DOMAIN GroundTruths \subseteq PredictionId
           /\ \A id \in DOMAIN Commitments : Commitments[id] \in Commitment
           /\ \A id \in DOMAIN Reveals : Reveals[id] \in RevealedPrediction
           /\ \A id \in DOMAIN GroundTruths : GroundTruths[id] \in GroundTruth
BY MapElim DEF VerificationTypeOK

(* reveal_prediction leaves a well-typed commitment map with the same keys *)
(* and touches one record's revealed flag.                                 *)
LEMMA RevealEffect ==
    ASSUME VerificationTypeOK, NEW who \in Account, NEW id \in PredictionId,
           NEW o \in Opening, RevealPrediction(who, id, o)
    PROVE  /\ IsMap(Commitments', PredictionId, Commitment)
           /\ DOMAIN Commitments' = DOMAIN Commitments
           /\ Commitments'[id] = [Commitments[id] EXCEPT !.revealed = TRUE]
           /\ \A x \in DOMAIN Commitments : x # id => Commitments'[x] = Commitments[x]
<1>1. /\ Commitments \in [DOMAIN Commitments -> Commitment]
      /\ DOMAIN Commitments \in SUBSET PredictionId
  BY MapElim DEF VerificationTypeOK
<1>2. /\ id \in DOMAIN Commitments
      /\ Commitments' = [Commitments EXCEPT ![id].revealed = TRUE]
  BY DEF RevealPrediction, Publish
<1>3. [Commitments[id] EXCEPT !.revealed = TRUE] \in Commitment
  BY <1>1, <1>2 DEF Commitment
<1>4. Commitments' \in [DOMAIN Commitments -> Commitment]
  BY <1>1, <1>2, <1>3
<1>5. IsMap(Commitments', PredictionId, Commitment)
  BY <1>1, <1>4, MapIntro
<1> QED
  BY <1>1, <1>2, <1>5

-----------------------------------------------------------------------------
(* Every storage item keeps its type (submit_commitment, reveal_prediction, *)
(* submit_ground_truth and the clock).                                      *)
LEMMA TypeStep ==
    ASSUME VerificationTypeOK, [VerificationNext]_verificationVars
    PROVE  VerificationTypeOK'
<1>1. ASSUME NEW who \in Account, NEW id \in PredictionId, NEW hash \in H256,
             SubmitCommitment(who, id, hash)
      PROVE  VerificationTypeOK'
  <2>1. [submitter |-> who, commitment_hash |-> hash, block_number |-> block_number,
         revealed |-> FALSE] \in Commitment
    BY DEF Commitment, VerificationTypeOK
  <2> QED
    BY <1>1, <2>1, PutType DEF SubmitCommitment, VerificationTypeOK
<1>2. ASSUME NEW who \in Account, NEW id \in PredictionId, NEW o \in Opening,
             RevealPrediction(who, id, o)
      PROVE  VerificationTypeOK'
  <2>1. [submitter |-> who, prediction |-> o.prediction, model_hash |-> o.model_hash,
         input_hash |-> o.input_hash, block_number |-> block_number] \in RevealedPrediction
    BY DEF RevealedPrediction, Opening, VerificationTypeOK
  <2>2. IsMap(Reveals', PredictionId, RevealedPrediction)
    BY <1>2, <2>1, PutType DEF RevealPrediction, Publish, VerificationTypeOK
  <2>3. IsMap(Commitments', PredictionId, Commitment)
    BY <1>2, RevealEffect
  <2> QED
    BY <1>2, <2>2, <2>3 DEF RevealPrediction, Publish, VerificationTypeOK
<1>3. ASSUME NEW who \in Account, NEW id \in PredictionId, NEW outcome \in I128,
             SubmitGroundTruth(who, id, outcome)
      PROVE  VerificationTypeOK'
  <2>1. [outcome |-> outcome, submitter |-> who, block_number |-> block_number]
          \in GroundTruth
    BY DEF GroundTruth, VerificationTypeOK
  <2> QED
    BY <1>3, <2>1, PutType DEF SubmitGroundTruth, VerificationTypeOK
<1>4. CASE NextBlock /\ UNCHANGED storage
  BY <1>4, BlockAssumption DEF NextBlock, storage, VerificationTypeOK
<1>5. CASE UNCHANGED verificationVars
  BY <1>5 DEF verificationVars, VerificationTypeOK
<1> QED
  BY <1>1, <1>2, <1>3, <1>4, <1>5 DEF VerificationNext, VerificationCall

LEMMA TypeInit == VerificationInit => VerificationTypeOK
BY EmptyMapType, BlockAssumption DEF VerificationInit, VerificationTypeOK

(* The pallet's storage items hold only well-formed records. *)
THEOREM TypeCorrect == VerificationSpec => []VerificationTypeOK
<1>1. VerificationTypeOK /\ [VerificationNext]_verificationVars => VerificationTypeOK'
  BY TypeStep
<1> QED
  BY TypeInit, <1>1, PTL DEF VerificationSpec

-----------------------------------------------------------------------------
(* The inductive invariant: a reveal is compared with the block of its     *)
(* commitment, so every record must also be known to be dated in the past. *)
VerificationInv == VerificationTypeOK /\ DatedInThePast /\ RevealsAreCommitted

(* submit_commitment preserves it: the id is new, so no reveal is under it.  *)
LEMMA VerificationInvSubmitCommitment ==
    ASSUME VerificationInv, NEW who \in Account, NEW id \in PredictionId, NEW hash \in H256,
           SubmitCommitment(who, id, hash)
    PROVE  (DatedInThePast /\ RevealsAreCommitted)'
<1> DEFINE new == [submitter |-> who, commitment_hash |-> hash,
                   block_number |-> block_number, revealed |-> FALSE]
<1>0. Commitments' = Put(Commitments, id, new)
  BY DEF SubmitCommitment
<1>1. /\ DOMAIN Commitments' = DOMAIN Commitments \cup {id}
      /\ Commitments'[id] = new
      /\ \A x \in DOMAIN Commitments : x # id => Commitments'[x] = Commitments[x]
  <2> HIDE DEF new
  <2> QED
    BY <1>0 DEF Put
<1>2. id \notin DOMAIN Commitments /\ UNCHANGED <<Reveals, GroundTruths, block_number>>
  BY DEF SubmitCommitment
<1>3. DatedInThePast'
  BY <1>1, <1>2 DEF DatedInThePast, VerificationInv, VerificationTypeOK
<1>4. id \notin DOMAIN Reveals
  BY <1>2 DEF VerificationInv, RevealsAreCommitted
<1>5. RevealsAreCommitted'
  BY <1>1, <1>2, <1>4 DEF RevealsAreCommitted, VerificationInv
<1> QED
  BY <1>3, <1>5

(* reveal_prediction preserves it: the guards are what the new reveal needs. *)
LEMMA VerificationInvReveal ==
    ASSUME VerificationInv, NEW who \in Account, NEW id \in PredictionId, NEW o \in Opening,
           RevealPrediction(who, id, o)
    PROVE  (DatedInThePast /\ RevealsAreCommitted)'
<1> DEFINE new == [submitter |-> who, prediction |-> o.prediction,
                   model_hash |-> o.model_hash, input_hash |-> o.input_hash,
                   block_number |-> block_number]
<1> USE DEF VerificationInv
<1>0. Reveals' = Put(Reveals, id, new)
  BY DEF RevealPrediction, Publish
<1>1. /\ DOMAIN Reveals' = DOMAIN Reveals \cup {id}
      /\ Reveals'[id] = new
      /\ \A x \in DOMAIN Reveals : x # id => Reveals'[x] = Reveals[x]
  <2> HIDE DEF new
  <2> QED
    BY <1>0 DEF Put
<1>2. /\ DOMAIN Commitments' = DOMAIN Commitments
      /\ Commitments'[id] = [Commitments[id] EXCEPT !.revealed = TRUE]
      /\ \A x \in DOMAIN Commitments : x # id => Commitments'[x] = Commitments[x]
  BY RevealEffect
<1>3. /\ id \in DOMAIN Commitments /\ UNCHANGED <<GroundTruths, block_number>>
      /\ Commitments[id].submitter = who /\ ~Commitments[id].revealed
      /\ Blake2(o) = Commitments[id].commitment_hash
      /\ Commitments[id] \in Commitment
  BY RecordTypes DEF RevealPrediction, Publish
<1>4. /\ Commitments'[id].submitter = who /\ Commitments'[id].revealed
      /\ Commitments'[id].commitment_hash = Blake2(o)
      /\ Commitments'[id].block_number = Commitments[id].block_number
  BY <1>2, <1>3 DEF Commitment
<1>5. DatedInThePast'
  <2>1. block_number <= block_number /\ new.block_number = block_number
    BY DEF VerificationTypeOK
  <2>2. \A x \in DOMAIN Commitments : Commitments'[x].block_number = Commitments[x].block_number
    BY <1>2, <1>4
  <2> HIDE DEF new
  <2> QED
    BY <1>1, <1>2, <1>3, <2>1, <2>2 DEF DatedInThePast
<1>6. \E salt \in Salt : Blake2(o) = Blake2([prediction |-> new.prediction, salt |-> salt,
                          model_hash |-> new.model_hash, input_hash |-> new.input_hash])
  <2>1. o.salt \in Salt /\ o = [prediction |-> o.prediction, salt |-> o.salt,
                               model_hash |-> o.model_hash, input_hash |-> o.input_hash]
    BY DEF Opening
  <2> QED
    BY <2>1
<1>7. Commitments[id].block_number <= block_number
  BY <1>3 DEF DatedInThePast
<1>8. id \notin DOMAIN Reveals
  BY <1>3 DEF RevealsAreCommitted
<1>9. \A x \in DOMAIN Reveals' :
         /\ x \in DOMAIN Commitments' /\ Commitments'[x].revealed
         /\ Reveals'[x].submitter = Commitments'[x].submitter
         /\ Commitments'[x].block_number <= Reveals'[x].block_number
         /\ \E salt \in Salt :
              Commitments'[x].commitment_hash =
                Blake2([prediction |-> Reveals'[x].prediction, salt |-> salt,
                        model_hash |-> Reveals'[x].model_hash,
                        input_hash |-> Reveals'[x].input_hash])
  <2> TAKE x \in DOMAIN Reveals'
  <2>1. CASE x = id
    BY <2>1, <1>1, <1>2, <1>3, <1>4, <1>6, <1>7
  <2>2. CASE x # id
    BY <2>2, <1>1, <1>2 DEF RevealsAreCommitted
  <2> QED
    BY <2>1, <2>2
<1>10. \A x \in DOMAIN Commitments' : Commitments'[x].revealed => x \in DOMAIN Reveals'
  BY <1>1, <1>2 DEF RevealsAreCommitted
<1> QED
  BY <1>5, <1>9, <1>10 DEF RevealsAreCommitted

LEMMA VerificationInvStep ==
    ASSUME VerificationInv, [VerificationNext]_verificationVars
    PROVE  VerificationInv'
<1>1. VerificationTypeOK'
  BY TypeStep DEF VerificationInv
<1>2. ASSUME NEW who \in Account, NEW id \in PredictionId, NEW hash \in H256,
             SubmitCommitment(who, id, hash)
      PROVE  VerificationInv'
  BY <1>1, <1>2, VerificationInvSubmitCommitment DEF VerificationInv
<1>3. ASSUME NEW who \in Account, NEW id \in PredictionId, NEW o \in Opening,
             RevealPrediction(who, id, o)
      PROVE  VerificationInv'
  BY <1>1, <1>3, VerificationInvReveal DEF VerificationInv
<1>4. ASSUME NEW who \in Account, NEW id \in PredictionId, NEW outcome \in I128,
             SubmitGroundTruth(who, id, outcome)
      PROVE  VerificationInv'
  <2> DEFINE new == [outcome |-> outcome, submitter |-> who,
                     block_number |-> block_number]
  <2>0. GroundTruths' = Put(GroundTruths, id, new)
        /\ UNCHANGED <<Commitments, Reveals, block_number>>
    BY <1>4 DEF SubmitGroundTruth
  <2>1. /\ DOMAIN GroundTruths' = DOMAIN GroundTruths \cup {id}
        /\ GroundTruths'[id] = new
        /\ \A x \in DOMAIN GroundTruths : x # id => GroundTruths'[x] = GroundTruths[x]
    <3> HIDE DEF new
    <3> QED
      BY <2>0 DEF Put
  <2>2. block_number <= block_number /\ new.block_number = block_number
    BY DEF VerificationInv, VerificationTypeOK
  <2> HIDE DEF new
  <2> QED
    BY <1>1, <2>0, <2>1, <2>2
       DEF VerificationInv, DatedInThePast, RevealsAreCommitted, VerificationTypeOK
<1>5. CASE NextBlock /\ UNCHANGED storage
  <2>1. /\ block_number' = block_number + 1 /\ block_number \in Nat
        /\ UNCHANGED <<Commitments, Reveals, GroundTruths>>
    BY <1>5, BlockAssumption DEF NextBlock, storage, VerificationInv, VerificationTypeOK
  <2>2. \A n \in 0..MaxBlock : n <= block_number => n <= block_number'
    BY <2>1, BlockAssumption
  <2>3. DatedInThePast'
    BY <2>1, <2>2, RecordTypes DEF VerificationInv, DatedInThePast, Commitment, RevealedPrediction,
                                   GroundTruth
  <2>4. RevealsAreCommitted'
    BY <2>1 DEF VerificationInv, RevealsAreCommitted
  <2> QED
    BY <1>1, <2>3, <2>4 DEF VerificationInv
<1>6. CASE UNCHANGED verificationVars
  BY <1>1, <1>6 DEF verificationVars, VerificationInv, DatedInThePast, RevealsAreCommitted
<1> QED
  BY <1>2, <1>3, <1>4, <1>5, <1>6 DEF VerificationNext, VerificationCall

LEMMA VerificationInvInit == VerificationInit => VerificationInv
<1>1. VerificationInit => VerificationTypeOK
  BY TypeInit
<1>2. VerificationInit => DOMAIN Commitments = {} /\ DOMAIN Reveals = {}
                          /\ DOMAIN GroundTruths = {}
  BY EmptyMapType DEF VerificationInit
<1> QED
  BY <1>1, <1>2 DEF VerificationInv, DatedInThePast, RevealsAreCommitted

LEMMA VerificationInvAlways == VerificationSpec => []VerificationInv
<1>1. VerificationInv /\ [VerificationNext]_verificationVars => VerificationInv'
  BY VerificationInvStep
<1> QED
  BY VerificationInvInit, <1>1, PTL DEF VerificationSpec

(* A published prediction was committed under the same id by the same      *)
(* account, no later, and opens that commitment (reveal_prediction's       *)
(* checks against what submit_commitment stored).                          *)
THEOREM PublishedWasCommitted == VerificationSpec => []RevealsAreCommitted
<1>1. VerificationInv => RevealsAreCommitted
  BY DEF VerificationInv
<1> QED
  BY VerificationInvAlways, <1>1, PTL

(* No call rewrites a commitment's owner, hash or block, a reveal or a     *)
(* ground truth (the contains_key and revealed guards of the three calls). *)
THEOREM HistoryNeverRewritten == VerificationSpec => NeverRewritten
<1>1. ASSUME VerificationInv, [VerificationNext]_verificationVars
      PROVE  HistoryIsKept
  <2>1. ASSUME NEW who \in Account, NEW id \in PredictionId, NEW hash \in H256,
               SubmitCommitment(who, id, hash)
        PROVE  HistoryIsKept
    BY <2>1 DEF SubmitCommitment, HistoryIsKept, Put
  <2>2. ASSUME NEW who \in Account, NEW id \in PredictionId, NEW o \in Opening,
               RevealPrediction(who, id, o)
        PROVE  HistoryIsKept
    <3>0. ~Commitments[id].revealed /\ UNCHANGED <<GroundTruths, block_number>>
      BY <2>2 DEF RevealPrediction, Publish
    <3>1. id \notin DOMAIN Reveals /\ UNCHANGED GroundTruths
      BY <1>1, <3>0 DEF VerificationInv, RevealsAreCommitted
    <3>2. \A x \in DOMAIN Reveals : x \in DOMAIN Reveals' /\ Reveals'[x] = Reveals[x]
      BY <2>2, <3>1 DEF RevealPrediction, Publish, Put
    <3> QED
      <4>1. \A x \in DOMAIN Commitments :
               /\ x \in DOMAIN Commitments'
               /\ \/ Commitments'[x] = Commitments[x]
                  \/ Commitments'[x] = [Commitments[x] EXCEPT !.revealed = TRUE]
        BY <1>1, <2>2, RevealEffect DEF VerificationInv
      <4> QED
        BY <3>1, <3>2, <4>1 DEF HistoryIsKept
  <2>3. ASSUME NEW who \in Account, NEW id \in PredictionId, NEW outcome \in I128,
               SubmitGroundTruth(who, id, outcome)
        PROVE  HistoryIsKept
    BY <2>3 DEF SubmitGroundTruth, HistoryIsKept, Put
  <2>4. CASE UNCHANGED storage
    BY <2>4 DEF storage, HistoryIsKept
  <2> QED
    BY <1>1, <2>1, <2>2, <2>3, <2>4 DEF VerificationNext, VerificationCall, NextBlock,
                                       storage, verificationVars
<1>2. VerificationInv /\ [VerificationNext]_verificationVars => [HistoryIsKept]_verificationVars
  BY <1>1
<1> QED
  BY VerificationInvAlways, <1>2, PTL DEF VerificationSpec, NeverRewritten

-----------------------------------------------------------------------------
(* The values a commitment hash can show are at most one: two openings with *)
(* that hash are the same opening.                                          *)
LEMMA HiddenIsAtMostOne ==
    ASSUME NEW hash
    PROVE  Hidden(hash) \in Scheme!AtMostOne
<1>1. \A o \in Opening : Public(o) \in [prediction : I128, model_hash : ModelHash,
                                        input_hash : InputHash]
  BY DEF Opening, Public
<1> QED
  BY <1>1, HashAssumption DEF Hidden, Scheme!AtMostOne

LEMMA SchemeInit == VerificationInit => Scheme!Init
<1> DEFINE boundMap == [id \in DOMAIN Commitments |->
                          [owner |-> Commitments[id].submitter,
                           values |-> Hidden(Commitments[id].commitment_hash)]]
           shownMap == [id \in DOMAIN Reveals |->
                          [owner |-> Reveals[id].submitter, value |-> Public(Reveals[id])]]
<1> SUFFICES ASSUME VerificationInit PROVE boundMap = EmptyMap /\ shownMap = EmptyMap
  BY DEF Scheme!Init, Scheme!EmptyMap, EmptyMap
<1> QED
  BY EmptyMapType DEF VerificationInit, EmptyMap

(* Each call is a step of the scheme, or none of its business: committing   *)
(* binds, revealing shows, a ground truth and the clock stutter.            *)
LEMMA SchemeStep ==
    ASSUME VerificationInv, [VerificationNext]_verificationVars
    PROVE  [Scheme!Next]_(Scheme!vars)
<1> DEFINE boundMap == [id \in DOMAIN Commitments |->
                          [owner |-> Commitments[id].submitter,
                           values |-> Hidden(Commitments[id].commitment_hash)]]
           shownMap == [id \in DOMAIN Reveals |->
                          [owner |-> Reveals[id].submitter, value |-> Public(Reveals[id])]]
<1>1. ASSUME NEW who \in Account, NEW id \in PredictionId, NEW hash \in H256,
             SubmitCommitment(who, id, hash)
      PROVE  Scheme!Next
  <2>1. /\ id \notin DOMAIN boundMap
        /\ boundMap' = Put(boundMap, id, [owner |-> who, values |-> Hidden(hash)])
    BY <1>1 DEF SubmitCommitment, Put
  <2>2. UNCHANGED shownMap
    BY <1>1 DEF SubmitCommitment
  <2>3. Scheme!Bind(id, who, Hidden(hash))
    BY <2>1, <2>2 DEF Scheme!Bind, Scheme!Put, Put
  <2> QED
    BY <2>3, HiddenIsAtMostOne DEF Scheme!Next
<1>2. ASSUME NEW who \in Account, NEW id \in PredictionId, NEW o \in Opening,
             RevealPrediction(who, id, o)
      PROVE  Scheme!Next
  <2>1. /\ id \in DOMAIN Commitments /\ id \notin DOMAIN Reveals
        /\ Commitments[id].submitter = who
        /\ Commitments[id].commitment_hash = Blake2(o)
    BY <1>2 DEF RevealPrediction, Publish, VerificationInv, RevealsAreCommitted
  <2>2. id \in DOMAIN boundMap \ DOMAIN shownMap
    BY <2>1
  <2>3. Public(o) \in boundMap[id].values
    BY <2>1 DEF Hidden
  <2>4. shownMap' = Put(shownMap, id, [owner |-> boundMap[id].owner, value |-> Public(o)])
    BY <1>2, <2>1 DEF RevealPrediction, Publish, Put, Public
  <2>5. UNCHANGED boundMap
    <3>1. \A x \in DOMAIN Commitments :
             /\ Commitments'[x].submitter = Commitments[x].submitter
             /\ Commitments'[x].commitment_hash = Commitments[x].commitment_hash
      <4> TAKE x \in DOMAIN Commitments
      <4>1. Commitments[id] \in Commitment
        BY <2>1, RecordTypes DEF VerificationInv
      <4>2. CASE x = id
        <5>1. Commitments'[id] = [Commitments[id] EXCEPT !.revealed = TRUE]
          BY <1>2, RevealEffect DEF VerificationInv
        <5> QED
          BY <4>1, <4>2, <5>1 DEF Commitment
      <4>3. CASE x # id
        BY <1>2, <4>3, RevealEffect DEF VerificationInv
      <4> QED
        BY <4>2, <4>3
    <3>2. DOMAIN Commitments' = DOMAIN Commitments
      BY <1>2, RevealEffect DEF VerificationInv
    <3> QED
      BY <3>1, <3>2
  <2>6. Scheme!Show(id, Public(o))
    BY <2>2, <2>3, <2>4, <2>5 DEF Scheme!Show, Scheme!Put, Put
  <2>7. Public(o) \in [prediction : I128, model_hash : ModelHash, input_hash : InputHash]
    BY DEF Opening, Public
  <2> QED
    BY <2>6, <2>7 DEF Scheme!Next
<1>3. ASSUME UNCHANGED <<Commitments, Reveals>>
      PROVE  UNCHANGED Scheme!vars
  BY <1>3 DEF Scheme!vars
<1> QED
  BY <1>1, <1>2, <1>3 DEF VerificationNext, VerificationCall, SubmitGroundTruth, NextBlock,
                          storage, verificationVars

(* The pallet implements the commit-reveal scheme.                         *)
THEOREM PalletImplementsScheme == VerificationSpec => ImplementsCommitReveal
<1>1. VerificationInv /\ [VerificationNext]_verificationVars => [Scheme!Next]_(Scheme!vars)
  BY SchemeStep
<1> QED
  BY VerificationInvAlways, SchemeInit, <1>1, PTL
     DEF VerificationSpec, ImplementsCommitReveal, Scheme!Spec
=============================================================================
