------------------------------- MODULE Storage -------------------------------
(***************************************************************************)
(* FRAME storage maps.  A StorageMap is a partial function: the keys that  *)
(* contain_key answers true for are its domain, get is application and     *)
(* insert is Put.  No pallet of this runtime removes a key.                *)
(***************************************************************************)

(* f is a value a StorageMap from K to V can have. *)
IsMap(f, K, V) == DOMAIN f \subseteq K /\ f \in [DOMAIN f -> V]

(* A StorageMap at genesis. *)
EmptyMap == [k \in {} |-> k]

(* Map::insert(k, v): add the key or overwrite its value. *)
Put(f, k, v) == [x \in DOMAIN f \cup {k} |-> IF x = k THEN v ELSE f[x]]
=============================================================================
