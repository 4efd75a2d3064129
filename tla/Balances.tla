------------------------------ MODULE Balances ------------------------------
(***************************************************************************)
(* External: the part of pallet_balances the market pallet relies on       *)
(* (runtime/src/lib.rs configures it; its code is not in this repository). *)
(* Every account has a free and a reserved balance.  An account with       *)
(* neither does not exist: it was never endowed, or it was reaped.         *)
(*                                                                         *)
(* Amounts are u128 and never overflow here: their sum is the issuance.    *)
(***************************************************************************)
EXTENDS System, Functions

CONSTANTS ExistentialDeposit,  \* runtime/src/lib.rs: 500
          Endowment,           \* balance of every account at genesis (chain_spec.rs)
          Amount               \* bound: the amounts moved by transfers and fees

ASSUME BalancesAssumption ==
    /\ ExistentialDeposit \in Nat \ {0}
    /\ Endowment \in Nat /\ Endowment >= ExistentialDeposit
    /\ Amount \subseteq Nat \ {0}

VARIABLES free,     \* account -> free balance
          reserved  \* account -> reserved balance

balanceVars == <<free, reserved>>

BalancesTypeOK == free \in [Account -> Nat] /\ reserved \in [Account -> Nat]

BalancesInit ==
    /\ free = [a \in Account |-> Endowment]
    /\ reserved = [a \in Account |-> 0]

Exists(a) == free[a] + reserved[a] > 0

TotalIssuance == SumFunction([a \in Account |-> free[a] + reserved[a]])

Lesser(m, n) == IF m <= n THEN m ELSE n

-----------------------------------------------------------------------------
(* Currency::reserve: an account with a reserve must itself stay alive.     *)
CanReserve(who, amount) == free[who] - amount >= ExistentialDeposit

Reserve(who, amount) ==
    /\ CanReserve(who, amount)
    /\ free' = [free EXCEPT ![who] = @ - amount]
    /\ reserved' = [reserved EXCEPT ![who] = @ + amount]

(* Currency::unreserve moves what it can: its return value is the rest.     *)
Unreserved(who, amount) == Lesser(reserved[who], amount)

(* Currency::deposit_into_existing mints, and fails for an account that     *)
(* does not exist.                                                          *)
Deposited(who, amount) == IF Exists(who) THEN amount ELSE 0

(* The free balance left after a withdrawal of amount: below the deposit    *)
(* the account is reaped and the rest is dust.                              *)
Left(who, amount) ==
    IF free[who] - amount >= ExistentialDeposit THEN free[who] - amount ELSE 0

(* transfer_allow_death: it may empty the sender unless a reserve holds it. *)
Transfer(from, to, amount) ==
    /\ from # to
    /\ amount <= free[from]
    /\ reserved[from] > 0 => free[from] - amount >= ExistentialDeposit
    /\ Exists(to) \/ amount >= ExistentialDeposit
    /\ free' = [free EXCEPT ![from] = Left(from, amount), ![to] = @ + amount]
    /\ UNCHANGED reserved

(* The fee of a signed call, burned before it is dispatched, whether or not *)
(* the call then succeeds; paying it keeps the account alive.               *)
PayFee(who, amount) ==
    /\ free[who] - amount >= ExistentialDeposit
    /\ free' = [free EXCEPT ![who] = @ - amount]
    /\ UNCHANGED reserved

BalancesNext ==
    \E who \in Account, amount \in Amount :
        \/ PayFee(who, amount)
        \/ \E to \in Account : Transfer(who, to, amount)
=============================================================================
