------------------------------- MODULE Escrow -------------------------------
(***************************************************************************)
(* What staking on markets promises about money, without models, scores or *)
(* account records: a deposit is held from the step that makes it to the   *)
(* step that closes its market, all deposits of a market are released in   *)
(* that one step, and only that step mints, at most what it releases.      *)
(* Runtime.tla implements it.                                              *)
(***************************************************************************)
EXTENDS Storage, Integers, Functions

CONSTANTS Owner, Market, Entry

VARIABLES held,      \* owner -> the amount it cannot spend
          deposits,  \* <<market, entry>> -> owner and amount
          closed,    \* the markets that are over
          supply     \* all the money there is

vars == <<held, deposits, closed, supply>>

Of(market) == {d \in DOMAIN deposits : d[1] = market}
Sum(ds) == SumFunction([d \in ds |-> deposits[d].amount])
Pool(market) == Sum(Of(market))

Init == /\ held = [o \in Owner |-> 0]
        /\ deposits = EmptyMap
        /\ closed = {}
        /\ supply \in Nat

Deposit(market, entry, owner, amount) ==
    /\ market \notin closed
    /\ <<market, entry>> \notin DOMAIN deposits
    /\ held' = [held EXCEPT ![owner] = @ + amount]
    /\ deposits' = Put(deposits, <<market, entry>>, [owner |-> owner, amount |-> amount])
    /\ UNCHANGED <<closed, supply>>

Close(market) ==
    /\ market \notin closed
    /\ Of(market) # {}
    /\ held' = [o \in Owner |-> held[o] - Sum({d \in Of(market) : deposits[d].owner = o})]
    /\ closed' = closed \cup {market}
    /\ supply' - supply \in 0..Pool(market)
    /\ UNCHANGED deposits

(* Fees and dust are burned; nothing else changes the supply.              *)
Burn == /\ supply' < supply
        /\ UNCHANGED <<held, deposits, closed>>

Next == \/ \E market \in Market, entry \in Entry, owner \in Owner :
             \E amount \in 1..supply : Deposit(market, entry, owner, amount)
        \/ \E market \in Market : Close(market)
        \/ Burn

Spec == Init /\ [][Next]_vars
=============================================================================
