----------------------------- MODULE MCRuntime -----------------------------
(* Hashes are openings themselves; every commitment opens to something, as *)
(* hashes that do not are the concern of MCVerification.                   *)
EXTENDS Runtime, TLC

MCBlake2(o) == <<o.prediction, o.salt, o.model_hash, o.input_hash>>
MCH256 == {MCBlake2(o) : o \in Opening}

(* Accounts, ids and models are interchangeable (used for safety runs only). *)
Symmetry == Permutations(Account) \cup Permutations(PredictionId) \cup Permutations(ModelId)
=============================================================================
