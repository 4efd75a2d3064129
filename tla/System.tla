------------------------------- MODULE System -------------------------------
(* External: what the pallets use of frame_system, its accounts and clock.  *)
EXTENDS Integers, FiniteSets

CONSTANTS Account,   \* AccountId
          MaxBlock   \* bound: the last block of a behaviour

ASSUME BlockAssumption == MaxBlock \in Nat

(* An AccountId is 256 bits.                                                *)
ASSUME AccountAssumption == IsFiniteSet(Account)

VARIABLE block_number

(* The chain moves on to its next block (in the node: Aura's slots).        *)
NextBlock ==
    /\ block_number < MaxBlock
    /\ block_number' = block_number + 1
=============================================================================
