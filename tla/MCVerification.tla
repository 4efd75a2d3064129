--------------------------- MODULE MCVerification ---------------------------
(* Two operators, two prediction ids, two values and one salt; the hashes  *)
(* are those of the openings and one that opens to nothing, as any 32      *)
(* bytes may be submitted.                                                 *)
EXTENDS Verification

MCBlake2(o) == <<o.prediction, o.salt, o.model_hash, o.input_hash>>
MCH256 == {MCBlake2(o) : o \in Opening} \cup {<<"junk">>}
=============================================================================
