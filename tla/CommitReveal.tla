---------------------------- MODULE CommitReveal ----------------------------
(***************************************************************************)
(* What a commit-reveal scheme promises, without hashes, salts or errors:  *)
(* an identifier is bound once, by one owner, to at most one value; what   *)
(* is shown under it is that value, shown once, as that owner's.           *)
(* Verification.tla implements it.                                         *)
(***************************************************************************)
EXTENDS Storage

CONSTANTS Id, Owner, Value

VARIABLES bound,   \* identifier -> its owner and the values it can ever show
          shown    \* identifier -> its owner and the value made public

vars == <<bound, shown>>

(* Nothing, for a commitment nobody can open, or a single value. *)
AtMostOne == {values \in SUBSET Value : \A v, w \in values : v = w}

Init == /\ bound = EmptyMap
        /\ shown = EmptyMap

Bind(id, owner, values) ==
    /\ id \notin DOMAIN bound
    /\ bound' = Put(bound, id, [owner |-> owner, values |-> values])
    /\ UNCHANGED shown

Show(id, value) ==
    /\ id \in DOMAIN bound \ DOMAIN shown
    /\ value \in bound[id].values
    /\ shown' = Put(shown, id, [owner |-> bound[id].owner, value |-> value])
    /\ UNCHANGED bound

Next == \E id \in Id :
          \/ \E owner \in Owner, values \in AtMostOne : Bind(id, owner, values)
          \/ \E value \in Value : Show(id, value)

Spec == Init /\ [][Next]_vars
=============================================================================
