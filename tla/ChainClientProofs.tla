--------------------------- MODULE ChainClientProofs ---------------------------
(* No request runs twice, for any number of submissions, forks and rivals.  *)
EXTENDS ChainClient, SumProofs

Transactions == [by : Submission \cup {"other"}, call : Call,
                 who : Submission \cup {"alice", "other"}]

Unsent == {"idle", "signing", "signed"}

ChainTyped == /\ chain \in Seq(Transactions) /\ final \in 0..Len(chain)
              /\ call \in [Submission -> Call]
              /\ DOMAIN phase = Submission \cup Query
              /\ DOMAIN nonce = Submission /\ DOMAIN pool = Submission

(* A transaction is on the chain only after it was sent.                    *)
Sent == /\ \A r \in Submission : pool[r] # "none" => phase[r] \notin Unsent
        /\ \A i \in DOMAIN chain : chain[i].by \in Submission => pool[chain[i].by] # "none"

(* The blocks below i that use up a nonce of the account.                   *)
Before(blocks, i) == {j \in DOMAIN blocks : j < i /\ blocks[j].by \in Submission}

(* A transaction's nonce is the number of those before it.                  *)
InOrder == \A i \in DOMAIN chain : chain[i].by \in Submission =>
             nonce[chain[i].by] = Cardinality(Before(chain, i))

ReplayInv == ChainTyped /\ Sent /\ InOrder

-----------------------------------------------------------------------------
LEMMA BeforeFinite ==
    ASSUME NEW S, NEW blocks \in Seq(S), NEW i
    PROVE  IsFiniteSet(Before(blocks, i))
<1>1. IsFiniteSet(1..Len(blocks)) BY FS_Interval
<1>2. Before(blocks, i) \subseteq 1..Len(blocks) BY DEF Before
<1> QED BY <1>1, <1>2, FS_Subset

(* Nonces grow along the chain.                                             *)
LEMMA BeforeGrows ==
    ASSUME NEW S, NEW blocks \in Seq(S), NEW i \in DOMAIN blocks, NEW j \in DOMAIN blocks,
           i < j, blocks[i].by \in Submission
    PROVE  Cardinality(Before(blocks, i)) # Cardinality(Before(blocks, j))
<1>1. Before(blocks, i) \subseteq Before(blocks, j) BY DEF Before
<1>2. i \in Before(blocks, j) /\ i \notin Before(blocks, i) BY DEF Before
<1>3. Before(blocks, i) # Before(blocks, j) BY <1>2
<1>4. /\ Cardinality(Before(blocks, i)) \in Nat
      /\ Cardinality(Before(blocks, j)) \in Nat
      /\ Cardinality(Before(blocks, i)) < Cardinality(Before(blocks, j))
  BY <1>1, <1>3, BeforeFinite, FS_Subset, FS_CardinalityType
<1> QED BY <1>4

LEMMA OrderedIsOnce == ReplayInv => NoReplay
<1> SUFFICES ASSUME ReplayInv, NEW i \in DOMAIN chain, NEW j \in DOMAIN chain,
                    chain[i].by = chain[j].by, chain[i].by \in Submission, i # j
             PROVE  FALSE
  BY DEF NoReplay
<1>1. Cardinality(Before(chain, i)) = Cardinality(Before(chain, j))
  BY DEF ReplayInv, InOrder
<1>2. i < j \/ j < i BY DEF ReplayInv, ChainTyped
<1> QED BY <1>1, <1>2, BeforeGrows DEF ReplayInv, ChainTyped

(* What neither signs, nor sends, nor changes the chain.                    *)
LEMMA Elsewhere ==
    ASSUME ReplayInv, UNCHANGED <<chain, final, call, nonce, pool>>,
           DOMAIN phase' = DOMAIN phase,
           \A r \in Submission : phase[r] \notin Unsent => phase'[r] \notin Unsent
    PROVE  ReplayInv'
BY DEF ReplayInv, ChainTyped, Sent, InOrder, Before

(* A block with another transaction on top leaves the others where they are.*)
LEMMA Appended ==
    ASSUME ReplayInv, NEW t \in Transactions, chain' = Append(chain, t),
           UNCHANGED <<final, call, nonce, phase>>,
           DOMAIN pool' = Submission,
           \A r \in Submission : pool[r] = "none" <=> pool'[r] = "none",
           t.by \in Submission => pool[t.by] # "none" /\ CheckNonce(t.by)
    PROVE  ReplayInv'
<1> USE DEF ReplayInv
<1>1. /\ DOMAIN chain = 1..Len(chain) /\ Len(chain) \in Nat
      /\ DOMAIN chain' = 1..(Len(chain) + 1) /\ chain' \in Seq(Transactions)
      /\ \A i \in DOMAIN chain : chain'[i] = chain[i]
      /\ chain'[Len(chain) + 1] = t /\ Len(chain') = Len(chain) + 1
  BY DEF ChainTyped
<1>2. \A i \in 1..(Len(chain) + 1) : Before(chain', i) = Before(chain, i)
  BY <1>1 DEF Before
<1>3. Before(chain, Len(chain) + 1) = {j \in DOMAIN chain : chain[j].by \in Submission}
  BY <1>1 DEF Before
<1>4. ChainTyped' BY <1>1 DEF ChainTyped
<1>5. Sent' BY <1>1 DEF Sent
<1>6. InOrder'
  <2> SUFFICES ASSUME NEW i \in DOMAIN chain', chain'[i].by \in Submission
               PROVE  nonce[chain'[i].by] = Cardinality(Before(chain', i))
    BY DEF InOrder
  <2>1. CASE i \in DOMAIN chain
    BY <2>1, <1>1, <1>2 DEF InOrder
  <2>2. CASE i = Len(chain) + 1
    BY <2>2, <1>1, <1>2, <1>3 DEF CheckNonce, AccountNonce
  <2> QED BY <2>1, <2>2, <1>1
<1> QED BY <1>4, <1>5, <1>6

(* A fork keeps a prefix.                                                   *)
LEMMA ForkStep == ASSUME ReplayInv, Fork PROVE ReplayInv'
<1> USE DEF ReplayInv
<1>1. PICK height \in final..(Len(chain) - 1) : chain' = SubSeq(chain, 1, height)
  BY DEF Fork
<1>2. UNCHANGED <<phase, call, nonce, pool, final>>
  BY DEF Fork, client
<1>3. height \in Nat /\ height < Len(chain) /\ final <= height /\ final \in Nat
  BY <1>1 DEF ChainTyped
<1>4. /\ DOMAIN chain = 1..Len(chain)
      /\ chain' \in Seq(Transactions) /\ Len(chain') = height /\ DOMAIN chain' = 1..height
      /\ \A i \in 1..height : i \in DOMAIN chain /\ chain'[i] = chain[i]
  BY <1>1, <1>3 DEF ChainTyped
<1>5. \A i \in 1..height : Before(chain', i) = Before(chain, i)
  BY <1>3, <1>4 DEF Before
<1> QED BY <1>2, <1>3, <1>4, <1>5 DEF ChainTyped, Sent, InOrder

(* Post and Get begin a handler.                                            *)
LEMMA AdmitStep ==
    ASSUME ReplayInv, NEW r \in Submission \cup Query, NEW next \in {"signing", "reading"},
           Admit(r, next), UNCHANGED <<chain, final, call, nonce, pool>>,
           r \in Submission => pool[r] = "none"
    PROVE  ReplayInv'
<1> USE DEF ReplayInv
<1>1. DOMAIN phase' = DOMAIN phase /\ \A p \in Submission \ {r} : phase'[p] = phase[p]
  BY DEF Admit, Move, ChainTyped
<1>2. Sent' BY <1>1 DEF Sent
<1> QED BY <1>1, <1>2 DEF ChainTyped, InOrder, Before

(* A handler gets the nonce to sign with: its transaction is on no chain.   *)
LEMMA SignStep == ASSUME ReplayInv, NEW r \in Submission, Sign(r) PROVE ReplayInv'
<1> USE DEF ReplayInv
<1>1. /\ DOMAIN nonce' = Submission
      /\ \A p \in Submission \ {r} : nonce'[p] = nonce[p] /\ phase'[p] = phase[p]
      /\ DOMAIN phase' = DOMAIN phase
      /\ UNCHANGED <<chain, final, call, pool>> /\ phase[r] = "signing"
  BY DEF Sign, Move, ChainTyped, node
<1>2. pool[r] = "none" BY <1>1 DEF Sent, Unsent
<1>3. \A i \in DOMAIN chain : chain[i].by # r BY <1>2 DEF Sent
<1>4. ChainTyped' BY <1>1 DEF ChainTyped
<1>5. Sent' BY <1>1, <1>2 DEF Sent
<1>6. \A i : Before(chain, i)' = Before(chain, i) BY <1>1 DEF Before
<1>7. InOrder' BY <1>1, <1>3, <1>6 DEF InOrder
<1> QED BY <1>4, <1>5, <1>7

LEMMA AcceptStep == ASSUME ReplayInv, NEW r \in Submission, Accept(r) PROVE ReplayInv'
<1> USE DEF ReplayInv
<1>1. /\ DOMAIN pool' = Submission /\ DOMAIN phase' = DOMAIN phase
      /\ pool'[r] = "tracked" /\ phase'[r] = "watching"
      /\ \A p \in Submission \ {r} : /\ phase'[p] = phase[p]
                                     /\ pool[p] = "none" <=> pool'[p] = "none"
      /\ UNCHANGED <<chain, final, call, nonce>>
  BY DEF Accept, Move, Dropped, ChainTyped, node
<1>2. ChainTyped' BY <1>1 DEF ChainTyped
<1>3. Sent' BY <1>1 DEF Sent, Unsent
<1>4. \A i : Before(chain, i)' = Before(chain, i) BY <1>1 DEF Before
<1>5. InOrder' BY <1>1, <1>4 DEF InOrder
<1> QED BY <1>2, <1>3, <1>5

LEMMA IncludeStep == ASSUME ReplayInv, NEW r \in Submission, Include(r) PROVE ReplayInv'
<1>1. /\ UNCHANGED <<final, call, nonce, phase>>
      /\ chain' = Append(chain, Transaction(r, call[r]))
      /\ DOMAIN pool' = Submission
      /\ \A p \in Submission : pool[p] = "none" <=> pool'[p] = "none"
      /\ pool[r] # "none" /\ CheckNonce(r)
  BY DEF Include, Dropped, client
<1>2. Transaction(r, call[r]) \in Transactions /\ Transaction(r, call[r]).by = r
  BY DEF Transaction, Transactions, Signer, ReplayInv, ChainTyped
<1> QED BY <1>1, <1>2, Appended

LEMMA IncludeOtherStep == ASSUME ReplayInv, IncludeOther PROVE ReplayInv'
<1>1. PICK c \in Call : chain' = Append(chain, Transaction("other", c))
  BY DEF IncludeOther
<1>2. UNCHANGED <<final, call, nonce, phase, pool>>
  BY DEF IncludeOther, client
<1>3. Transaction("other", c) \in Transactions /\ Transaction("other", c).by = "other"
  BY ClientAssumption DEF Transaction, Transactions, Signer, ClientAssumption
<1>4. DOMAIN pool = Submission BY DEF ReplayInv, ChainTyped
<1> QED BY <1>1, <1>2, <1>3, <1>4, Appended, ClientAssumption DEF ClientAssumption

LEMMA ReplayStep == ASSUME ReplayInv, [Next]_vars PROVE ReplayInv'
<1>1. CASE Connect \/ Disconnect
  BY <1>1, Elsewhere DEF Connect, Disconnect, node
<1>2. CASE Finalise
  BY <1>2 DEF Finalise, client, ReplayInv, ChainTyped, Sent, InOrder, Before
<1>3. CASE Fork BY <1>3, ForkStep
<1>4. CASE IncludeOther BY <1>4, IncludeOtherStep
<1>5. ASSUME NEW r \in Submission, Post(r) \/ Answer(r) \/ Include(r) PROVE ReplayInv'
  <2>1. CASE Post(r)
    <3>1. pool[r] = "none"
      BY <2>1 DEF Post, Admit, ReplayInv, Sent, Unsent
    <3> QED BY <2>1, <3>1, AdmitStep DEF Post, node
  <2>2. CASE Refuse(r) \/ AnswerFinalised(r) \/ AnswerDropped(r)
    BY <2>2, Elsewhere
       DEF Refuse, AnswerFinalised, AnswerDropped, Move, node, Unsent, ReplayInv, ChainTyped
  <2> QED BY <1>5, <2>1, <2>2, SignStep, AcceptStep, IncludeStep DEF Answer
<1>6. ASSUME NEW q \in Query, Get(q) \/ FetchAtLatest(q) PROVE ReplayInv'
  <2>1. CASE Get(q)
    <3>1. q \in Submission => pool[q] = "none"
      BY <2>1 DEF Get, Admit, ReplayInv, Sent, Unsent
    <3> QED BY <2>1, <3>1, AdmitStep DEF Get, node
  <2>2. CASE FetchAtLatest(q)
    BY <2>2, Elsewhere DEF FetchAtLatest, Move, node, Unsent, ReplayInv, ChainTyped
  <2> QED BY <1>6, <2>1, <2>2
<1>7. ASSUME NEW r \in Submission \cup Query, ChainErr(r) PROVE ReplayInv'
  BY <1>7, Elsewhere DEF ChainErr, Move, node, Unsent, ReplayInv, ChainTyped
<1>8. CASE UNCHANGED vars
  BY <1>8, Elsewhere DEF vars, client, node
<1> QED BY <1>1, <1>2, <1>3, <1>4, <1>5, <1>6, <1>7, <1>8 DEF Next

-----------------------------------------------------------------------------
(* However often blocks are forked away, transactions usurped or dropped,   *)
(* the chain holds each submission at most once.                            *)
THEOREM NothingRunsTwice == Spec => []NoReplay
<1>1. Init => ReplayInv
  BY DEF Init, ReplayInv, ChainTyped, Sent, InOrder
<1>2. ReplayInv /\ [Next]_vars => ReplayInv' BY ReplayStep
<1> QED BY <1>1, <1>2, OrderedIsOnce, PTL DEF Spec

-----------------------------------------------------------------------------
(* In the pool, and not in a block.                                         *)
Waiting(r) == pool[r] = "tracked" /\ ~Included(r, chain)

Used(i) == Cardinality(Before(chain, i))

(* A submission is signed at a finalised nonce, ...                         *)
NotAhead == \A r \in Submission : nonce[r] \in Nat /\ nonce[r] <= Used(final + 1)

(* ... one with a used nonce is no longer waiting, ...                      *)
NotBehind == \A r \in Submission : Waiting(r) => Used(Len(chain) + 1) <= nonce[r]

(* ... and no two wait with the same one.                                   *)
NoRivals == \A r, p \in Submission : Waiting(r) /\ Waiting(p) /\ nonce[r] = nonce[p] => r = p

FinalityInv == ReplayInv /\ NotAhead /\ NotBehind /\ NoRivals

LEMMA UsedIsMonotone ==
    ASSUME ReplayInv, NEW i \in Nat, NEW j \in Nat, i <= j
    PROVE  Used(i) \in Nat /\ Used(j) \in Nat /\ Used(i) <= Used(j)
<1>1. Before(chain, i) \subseteq Before(chain, j)
  BY DEF Before, ReplayInv, ChainTyped
<1>2. IsFiniteSet(Before(chain, i)) /\ IsFiniteSet(Before(chain, j))
  BY BeforeFinite DEF ReplayInv, ChainTyped
<1> QED BY <1>1, <1>2, FS_Subset, FS_CardinalityType DEF Used

(* The nonces at the best and at the finalised block.                       *)
LEMMA NonceIsUsed ==
    ASSUME ReplayInv
    PROVE  /\ AccountNonce(chain) = Used(Len(chain) + 1)
           /\ AccountNonce(Finalised) = Used(final + 1)
           /\ Used(Len(chain) + 1) \in Nat /\ Used(final + 1) \in Nat
<1>1. /\ chain \in Seq(Transactions) /\ Len(chain) \in Nat /\ DOMAIN chain = 1..Len(chain)
      /\ final \in Nat /\ final <= Len(chain)
  BY DEF ReplayInv, ChainTyped
<1>2. Before(chain, Len(chain) + 1) = {i \in DOMAIN chain : chain[i].by \in Submission}
  BY <1>1 DEF Before
<1>3. /\ DOMAIN Finalised = 1..final
      /\ \A i \in 1..final : i \in DOMAIN chain /\ Finalised[i] = chain[i]
  BY <1>1 DEF Finalised
<1>4. Before(chain, final + 1) = {i \in DOMAIN Finalised : Finalised[i].by \in Submission}
  BY <1>1, <1>3 DEF Before
<1>5. Len(chain) + 1 \in Nat /\ final + 1 \in Nat BY <1>1
<1>6. \A i \in Nat : i <= i OBVIOUS
<1> QED BY <1>2, <1>4, <1>5, <1>6, UsedIsMonotone DEF AccountNonce, Used

LEMMA StillInFinality ==
    ASSUME FinalityInv, ReplayInv', UNCHANGED <<chain, final, nonce, pool>>
    PROVE  FinalityInv'
BY DEF FinalityInv, NotAhead, NotBehind, NoRivals, Used, Before, Waiting, Included

LEMMA SignInFinality ==
    ASSUME FinalityInv, ReplayInv', NEW r \in Submission, Sign(r) PROVE FinalityInv'
<1>1. /\ nonce' = [nonce EXCEPT ![r] = Used(final + 1)]
      /\ UNCHANGED <<chain, final, pool>> /\ phase[r] = "signing"
  BY NonceIsUsed DEF Sign, node, FinalityInv
<1>2. ~Waiting(r)
  BY <1>1 DEF Waiting, FinalityInv, ReplayInv, Sent, Unsent
<1>3. /\ nonce'[r] = Used(final + 1)
      /\ \A p \in Submission \ {r} : nonce'[p] = nonce[p]
  BY <1>1 DEF FinalityInv, ReplayInv, ChainTyped
<1>4. /\ \A i : Used(i)' = Used(i)
      /\ \A p \in Submission : Waiting(p)' <=> Waiting(p)
  BY <1>1 DEF Used, Before, Waiting, Included
<1>5. Used(final + 1) \in Nat
  BY NonceIsUsed DEF FinalityInv
<1>6. NotAhead' BY <1>1, <1>3, <1>4, <1>5 DEF NotAhead, FinalityInv
<1>7. NotBehind' BY <1>1, <1>2, <1>3, <1>4 DEF NotBehind, FinalityInv
<1>8. NoRivals' BY <1>2, <1>3, <1>4 DEF NoRivals, FinalityInv
<1> QED BY <1>6, <1>7, <1>8 DEF FinalityInv

LEMMA AcceptInFinality ==
    ASSUME FinalityInv, ReplayInv', NEW r \in Submission, Accept(r) PROVE FinalityInv'
<1>1. /\ UNCHANGED <<chain, final, nonce>> /\ nonce[r] = Used(Len(chain) + 1)
      /\ pool' = [Dropped(Rivals(r)) EXCEPT ![r] = "tracked"]
  BY NonceIsUsed DEF Accept, node, CheckNonce, FinalityInv
<1>2. /\ \A i : Used(i)' = Used(i)
      /\ \A p \in Submission : Included(p, chain)' <=> Included(p, chain)
  BY <1>1 DEF Used, Before, Included
<1>3. \A p \in Submission \ {r} : Waiting(p)' => Waiting(p) /\ nonce[p] # nonce[r]
  BY <1>1, <1>2 DEF Waiting, Dropped, Rivals
<1>4. Used(Len(chain) + 1) \in Nat
  BY NonceIsUsed DEF FinalityInv
<1>5. NotAhead' BY <1>1, <1>2 DEF NotAhead, FinalityInv
<1>6. NotBehind' BY <1>1, <1>2, <1>3, <1>4 DEF NotBehind, FinalityInv
<1>7. NoRivals' BY <1>1, <1>3 DEF NoRivals, FinalityInv
<1> QED BY <1>5, <1>6, <1>7 DEF FinalityInv

(* A new block uses up a nonce that nobody who goes on waiting has.         *)
LEMMA IncludeInFinality ==
    ASSUME FinalityInv, ReplayInv', NEW r \in Submission, Include(r) PROVE FinalityInv'
<1> DEFINE n == Len(chain) + 1
<1>1. /\ UNCHANGED <<final, nonce>> /\ nonce[r] = Used(n)
      /\ chain' = Append(chain, Transaction(r, call[r]))
      /\ pool' = Dropped(Rivals(r))
  BY NonceIsUsed DEF Include, client, CheckNonce, FinalityInv
<1>2. /\ chain \in Seq(Transactions) /\ Len(chain) \in Nat /\ DOMAIN chain = 1..Len(chain)
      /\ final \in Nat /\ final <= Len(chain)
  BY DEF FinalityInv, ReplayInv, ChainTyped
<1>3. /\ Len(chain') = n /\ DOMAIN chain' = 1..n /\ chain'[n].by = r
      /\ \A i \in DOMAIN chain : chain'[i] = chain[i]
  <2>1. Transaction(r, call[r]) \in Transactions /\ Transaction(r, call[r]).by = r
    BY DEF Transaction, Transactions, Signer, FinalityInv, ReplayInv, ChainTyped
  <2> QED BY <1>1, <1>2, <2>1
<1>4. Used(final + 1)' = Used(final + 1)
  <2>1. Before(chain', final + 1) = Before(chain, final + 1)
    BY <1>2, <1>3 DEF Before
  <2> QED BY <2>1, <1>1 DEF Used
<1>5. Used(Len(chain) + 1)' = Used(n) + 1
  <2>1. Before(chain', n + 1) = Before(chain, n) \cup {n}
    BY <1>2, <1>3 DEF Before
  <2>2. n \notin Before(chain, n) BY <1>2 DEF Before
  <2>3. IsFiniteSet(Before(chain, n)) BY <1>2, BeforeFinite
  <2> QED BY <2>1, <2>2, <2>3, <1>3, FS_AddElement DEF Used
<1>6. \A p \in Submission : Waiting(p)' => Waiting(p) /\ nonce[p] # nonce[r]
  <2> SUFFICES ASSUME NEW p \in Submission, Waiting(p)'
               PROVE  Waiting(p) /\ nonce[p] # nonce[r]
    OBVIOUS
  <2>1. p # r /\ ~Included(p, chain)
    BY <1>2, <1>3 DEF Waiting, Included
  <2>2. pool[p] = "tracked" /\ p \notin Rivals(r)
    BY <1>1 DEF Waiting, Dropped
  <2> QED BY <2>1, <2>2 DEF Waiting, Rivals
<1>7. Used(n) \in Nat BY NonceIsUsed DEF FinalityInv
<1>8. NotAhead' BY <1>1, <1>4 DEF NotAhead, FinalityInv
<1>9. NotBehind'
  <2> SUFFICES ASSUME NEW p \in Submission, Waiting(p)'
               PROVE  Used(Len(chain) + 1)' <= nonce'[p]
    BY DEF NotBehind
  <2>1. nonce[p] \in Nat /\ Used(n) <= nonce[p] /\ nonce[p] # Used(n)
    BY <1>1, <1>6 DEF NotBehind, NotAhead, FinalityInv
  <2>2. Used(n) + 1 <= nonce[p]
    <3> HIDE DEF n
    <3> QED BY <2>1, <1>7
  <2> QED BY <2>2, <1>1, <1>5
<1>10. NoRivals' BY <1>1, <1>6 DEF NoRivals, FinalityInv
<1> QED BY <1>8, <1>9, <1>10 DEF FinalityInv

(* A transaction of another account uses up none.                           *)
LEMMA IncludeOtherInFinality ==
    ASSUME FinalityInv, ReplayInv', IncludeOther PROVE FinalityInv'
<1> DEFINE n == Len(chain) + 1
<1>1. PICK c \in Call : chain' = Append(chain, Transaction("other", c))
  BY DEF IncludeOther
<1>2. UNCHANGED <<final, nonce, pool>> BY DEF IncludeOther, client
<1>3. /\ chain \in Seq(Transactions) /\ Len(chain) \in Nat /\ DOMAIN chain = 1..Len(chain)
      /\ final \in Nat /\ final <= Len(chain)
  BY DEF FinalityInv, ReplayInv, ChainTyped
<1>4. /\ Len(chain') = n /\ DOMAIN chain' = 1..n /\ chain'[n].by \notin Submission
      /\ \A i \in DOMAIN chain : chain'[i] = chain[i]
  <2>1. /\ Transaction("other", c) \in Transactions
        /\ Transaction("other", c).by = "other"
    BY ClientAssumption DEF Transaction, Transactions, Signer, ClientAssumption
  <2> QED BY <1>1, <1>3, <2>1, ClientAssumption DEF ClientAssumption
<1>5. /\ Before(chain', final + 1) = Before(chain, final + 1)
      /\ Before(chain', n + 1) = Before(chain, n)
  BY <1>3, <1>4 DEF Before
<1>6. /\ Used(final + 1)' = Used(final + 1)
      /\ Used(Len(chain) + 1)' = Used(n)
  BY <1>2, <1>4, <1>5 DEF Used
<1>7. \A p \in Submission : Waiting(p)' => Waiting(p)
  BY <1>2, <1>3, <1>4 DEF Waiting, Included
<1>8. NotAhead' BY <1>2, <1>6 DEF NotAhead, FinalityInv
<1>9. NotBehind' BY <1>2, <1>6, <1>7 DEF NotBehind, FinalityInv
<1>10. NoRivals' BY <1>2, <1>7 DEF NoRivals, FinalityInv
<1> QED BY <1>8, <1>9, <1>10 DEF FinalityInv

LEMMA FinaliseInFinality ==
    ASSUME FinalityInv, ReplayInv', Finalise PROVE FinalityInv'
<1>1. UNCHANGED <<chain, nonce, pool>>
  BY DEF Finalise, client
<1>2. /\ Used(final + 1) \in Nat /\ Used(final' + 1) \in Nat
      /\ Used(final + 1) <= Used(final' + 1)
  <2>1. final \in Nat /\ Len(chain) \in Nat
    BY DEF FinalityInv, ReplayInv, ChainTyped
  <2> DEFINE height == final'
  <2>2. height \in (final + 1)..Len(chain) BY DEF Finalise
  <2> HIDE DEF height
  <2>3. /\ final + 1 \in Nat /\ height + 1 \in Nat
        /\ final + 1 <= height + 1
    BY <2>1, <2>2
  <2>4. /\ Used(final + 1) \in Nat /\ Used(height + 1) \in Nat
        /\ Used(final + 1) <= Used(height + 1)
    BY <2>3, UsedIsMonotone DEF FinalityInv
  <2> QED BY <2>4 DEF height
<1>3. /\ Used(final + 1)' = Used(final' + 1)
      /\ Used(Len(chain) + 1)' = Used(Len(chain) + 1)
      /\ \A p \in Submission : Waiting(p)' <=> Waiting(p)
  BY <1>1 DEF Used, Waiting, Included
<1>4. NotAhead'
  BY <1>1, <1>2, <1>3 DEF NotAhead, FinalityInv
<1>5. NotBehind' /\ NoRivals'
  BY <1>1, <1>3 DEF NotBehind, NoRivals, FinalityInv
<1> QED BY <1>4, <1>5 DEF FinalityInv

(* What a fork returns to the pool has a lower nonce than what waits there, *)
(* and a higher one than what it leaves on the chain.                       *)
LEMMA ForkInFinality == ASSUME FinalityInv, ReplayInv', Fork PROVE FinalityInv'
<1>1. PICK h \in final..(Len(chain) - 1) : chain' = SubSeq(chain, 1, h)
  BY DEF Fork
<1>2. UNCHANGED <<final, nonce, pool>> BY DEF Fork, client
<1>3. /\ chain \in Seq(Transactions) /\ Len(chain) \in Nat /\ DOMAIN chain = 1..Len(chain)
      /\ final \in Nat /\ h \in Nat /\ final <= h /\ h < Len(chain)
  BY <1>1 DEF FinalityInv, ReplayInv, ChainTyped
<1>4. /\ Len(chain') = h /\ DOMAIN chain' = 1..h
      /\ \A i \in 1..h : i \in DOMAIN chain /\ chain'[i] = chain[i]
  BY <1>1, <1>3
<1>5. /\ Before(chain', final + 1) = Before(chain, final + 1)
      /\ Before(chain', h + 1) = Before(chain, h + 1)
  BY <1>3, <1>4 DEF Before
<1>6. /\ Used(final + 1)' = Used(final + 1)
      /\ Used(Len(chain) + 1)' = Used(h + 1)
  BY <1>2, <1>4, <1>5 DEF Used
<1>7. \A p \in Submission : Waiting(p)' =>
        \/ Waiting(p)
        \/ \E i \in (h + 1)..Len(chain) : chain[i].by = p
  <2> SUFFICES ASSUME NEW p \in Submission, Waiting(p)', ~Waiting(p)
               PROVE  \E i \in (h + 1)..Len(chain) : chain[i].by = p
    OBVIOUS
  <2>1. PICK i \in DOMAIN chain : chain[i].by = p
    BY <1>2 DEF Waiting, Included
  <2>2. i \notin 1..h BY <2>1, <1>4 DEF Waiting, Included
  <2> QED BY <2>1, <2>2, <1>3
<1>8. \A i \in (h + 1)..Len(chain) : chain[i].by \in Submission =>
        /\ nonce[chain[i].by] = Used(i)
        /\ Used(h + 1) \in Nat /\ Used(h + 1) <= Used(i)
        /\ Used(i) \in Nat /\ Used(i) < Used(Len(chain) + 1)
  <2> SUFFICES ASSUME NEW i \in (h + 1)..Len(chain), chain[i].by \in Submission
               PROVE  /\ nonce[chain[i].by] = Used(i)
                      /\ Used(h + 1) \in Nat /\ Used(h + 1) <= Used(i)
                      /\ Used(i) \in Nat /\ Used(i) < Used(Len(chain) + 1)
    OBVIOUS
  <2>1. i \in DOMAIN chain /\ i \in Nat /\ h + 1 \in Nat /\ h + 1 <= i BY <1>3
  <2>2. nonce[chain[i].by] = Used(i) BY <2>1 DEF FinalityInv, ReplayInv, InOrder, Used
  <2>3. Used(h + 1) \in Nat /\ Used(h + 1) <= Used(i) /\ Used(i) \in Nat
    BY <2>1, UsedIsMonotone DEF FinalityInv
  <2>4. /\ Before(chain, i) \subseteq Before(chain, Len(chain) + 1)
        /\ i \in Before(chain, Len(chain) + 1) /\ i \notin Before(chain, i)
    BY <2>1, <1>3 DEF Before
  <2>5. Used(i) < Used(Len(chain) + 1)
    BY <2>4, <1>3, BeforeFinite, FS_Subset, FS_CardinalityType DEF Used
  <2> QED BY <2>2, <2>3, <2>5
<1>9. NotAhead' BY <1>2, <1>6 DEF NotAhead, FinalityInv
<1>10. NotBehind'
  <2> SUFFICES ASSUME NEW p \in Submission, Waiting(p)' PROVE Used(h + 1) <= nonce[p]
    BY <1>2, <1>6 DEF NotBehind
  <2>1. CASE Waiting(p)
    <3>1. h + 1 \in Nat /\ Len(chain) + 1 \in Nat /\ h + 1 <= Len(chain) + 1 BY <1>3
    <3>2. /\ Used(h + 1) \in Nat /\ Used(Len(chain) + 1) \in Nat
          /\ Used(h + 1) <= Used(Len(chain) + 1)
      BY <3>1, UsedIsMonotone DEF FinalityInv
    <3>3. Used(Len(chain) + 1) <= nonce[p] /\ nonce[p] \in Nat
      BY <2>1 DEF FinalityInv, NotBehind, NotAhead
    <3> QED BY <3>2, <3>3
  <2>2. CASE \E i \in (h + 1)..Len(chain) : chain[i].by = p
    BY <2>2, <1>8
  <2> QED BY <2>1, <2>2, <1>7
<1>11. NoRivals'
  <2> SUFFICES ASSUME NEW p \in Submission, NEW q \in Submission, Waiting(p)', Waiting(q)',
                      nonce[p] = nonce[q], p # q
               PROVE  FALSE
    BY <1>2 DEF NoRivals
  <2>1. Used(Len(chain) + 1) \in Nat /\ nonce[p] \in Nat
    BY NonceIsUsed DEF FinalityInv, NotAhead
  <2>2. CASE Waiting(p) /\ Waiting(q)
    BY <2>2 DEF FinalityInv, NoRivals
  <2>3. CASE Waiting(p) /\ \E i \in (h + 1)..Len(chain) : chain[i].by = q
    <3>1. Used(Len(chain) + 1) <= nonce[p] BY <2>3 DEF FinalityInv, NotBehind
    <3>2. nonce[q] < Used(Len(chain) + 1) BY <2>3, <1>8
    <3> QED BY <3>1, <3>2, <2>1
  <2>4. CASE Waiting(q) /\ \E i \in (h + 1)..Len(chain) : chain[i].by = p
    <3>1. Used(Len(chain) + 1) <= nonce[q] BY <2>4 DEF FinalityInv, NotBehind
    <3>2. nonce[p] < Used(Len(chain) + 1) BY <2>4, <1>8
    <3> QED BY <3>1, <3>2, <2>1
  <2>5. ASSUME NEW i \in (h + 1)..Len(chain), NEW j \in (h + 1)..Len(chain),
               chain[i].by = p, chain[j].by = q
        PROVE  FALSE
    <3>1. /\ i \in DOMAIN chain /\ j \in DOMAIN chain /\ i # j
          /\ i < j \/ j < i
      BY <2>5, <1>3
    <3>2. Cardinality(Before(chain, i)) = Cardinality(Before(chain, j))
      BY <2>5, <1>8 DEF Used
    <3> QED BY <3>1, <3>2, <2>5, <1>3, BeforeGrows
  <2> QED BY <2>2, <2>3, <2>4, <2>5, <1>7
<1> QED BY <1>9, <1>10, <1>11 DEF FinalityInv

LEMMA FinalityStep == ASSUME FinalityInv, [Next]_vars PROVE FinalityInv'
<1> DEFINE Same == UNCHANGED <<chain, final, nonce, pool>>
<1>1. ReplayInv' BY ReplayStep DEF FinalityInv
<1>2. CASE Connect \/ Disconnect \/ UNCHANGED vars
  <2>1. Same BY <1>2 DEF Connect, Disconnect, vars, client, node
  <2> QED BY <2>1, <1>1, StillInFinality
<1>3. CASE Finalise BY <1>3, <1>1, FinaliseInFinality
<1>4. CASE Fork BY <1>4, <1>1, ForkInFinality
<1>5. CASE IncludeOther BY <1>5, <1>1, IncludeOtherInFinality
<1>6. ASSUME NEW r \in Submission, Post(r) \/ Answer(r) \/ Include(r) PROVE FinalityInv'
  <2>1. CASE Post(r) \/ Refuse(r) \/ AnswerFinalised(r) \/ AnswerDropped(r)
    <3>1. Same BY <2>1 DEF Post, Refuse, AnswerFinalised, AnswerDropped, node
    <3> QED BY <3>1, <1>1, StillInFinality
  <2> QED BY <1>1, <1>6, <2>1, SignInFinality, AcceptInFinality, IncludeInFinality
          DEF Answer
<1>7. ASSUME NEW q \in Query, Get(q) \/ FetchAtLatest(q) PROVE FinalityInv'
  <2>1. Same BY <1>7 DEF Get, FetchAtLatest, node
  <2> QED BY <2>1, <1>1, StillInFinality
<1>8. ASSUME NEW r \in Submission \cup Query, ChainErr(r) PROVE FinalityInv'
  <2>1. Same BY <1>8 DEF ChainErr, node
  <2> QED BY <2>1, <1>1, StillInFinality
<1> QED BY <1>2, <1>3, <1>4, <1>5, <1>6, <1>7, <1>8 DEF Next

(* All submissions ahead of finality have the first unused finalised nonce. *)
LEMMA FinalityIsOne == FinalityInv => OneAheadOfFinality
<1> SUFFICES ASSUME FinalityInv PROVE OneAheadOfFinality OBVIOUS
<1> DEFINE Ahead(r) == /\ ~Included(r, Finalised)
                       /\ Included(r, chain) \/ pool[r] = "tracked"
           best == Used(Len(chain) + 1)
           first == Used(final + 1)
<1>1. /\ chain \in Seq(Transactions) /\ Len(chain) \in Nat /\ DOMAIN chain = 1..Len(chain)
      /\ final \in Nat /\ final <= Len(chain)
  BY DEF FinalityInv, ReplayInv, ChainTyped
<1>2. best \in Nat /\ first \in Nat /\ first <= best
  <2>1. /\ final + 1 \in Nat /\ Len(chain) + 1 \in Nat
        /\ final + 1 <= Len(chain) + 1
    BY <1>1
  <2> QED BY <2>1, UsedIsMonotone DEF FinalityInv
<1>3. \A r \in Submission : nonce[r] \in Nat /\ nonce[r] <= first
  BY DEF FinalityInv, NotAhead
<1>4. ASSUME NEW i \in DOMAIN chain, chain[i].by \in Submission,
             ~Included(chain[i].by, Finalised)
      PROVE  nonce[chain[i].by] = first /\ first < best
  <2>1. i \in Nat /\ final + 1 \in Nat /\ final + 1 <= i
    <3>1. i \notin 1..final
      <4> SUFFICES ASSUME i \in 1..final PROVE FALSE OBVIOUS
      <4>1. i \in DOMAIN Finalised /\ Finalised[i] = chain[i] BY <1>1 DEF Finalised
      <4> QED BY <4>1, <1>4 DEF Included
    <3> QED BY <3>1, <1>1
  <2>2. nonce[chain[i].by] = Used(i)
    BY <1>4 DEF FinalityInv, ReplayInv, InOrder, Used
  <2>3. first <= Used(i) /\ Used(i) \in Nat
    BY <2>1, UsedIsMonotone DEF FinalityInv
  <2>4. Used(i) < best
    <3>1. /\ Before(chain, i) \subseteq Before(chain, Len(chain) + 1)
          /\ i \in Before(chain, Len(chain) + 1) /\ i \notin Before(chain, i)
      BY <1>1, <1>4 DEF Before
    <3> QED BY <3>1, <1>1, BeforeFinite, FS_Subset, FS_CardinalityType DEF Used
  <2> HIDE DEF first, best
  <2> QED BY <2>2, <2>3, <2>4, <1>2, <1>3, <1>4
<1>5. ASSUME NEW r \in Submission, Waiting(r)
      PROVE  nonce[r] = first /\ first = best
  <2>1. best <= nonce[r] BY <1>5 DEF FinalityInv, NotBehind
  <2> HIDE DEF first, best
  <2> QED BY <2>1, <1>2, <1>3
<1>6. ASSUME NEW r \in Submission, NEW p \in Submission, Ahead(r), Ahead(p), r # p
      PROVE  FALSE
  <2>1. CASE Waiting(r) /\ Waiting(p)
    BY <2>1, <1>5, <1>6 DEF FinalityInv, NoRivals
  <2>2. CASE Waiting(r) /\ Included(p, chain)
    <3>1. PICK i \in DOMAIN chain : chain[i].by = p BY <2>2 DEF Included
    <3>2. first < best /\ first = best BY <3>1, <2>2, <1>4, <1>5, <1>6
    <3> HIDE DEF first, best
    <3> QED BY <3>2, <1>2
  <2>3. CASE Waiting(p) /\ Included(r, chain)
    <3>1. PICK i \in DOMAIN chain : chain[i].by = r BY <2>3 DEF Included
    <3>2. first < best /\ first = best BY <3>1, <2>3, <1>4, <1>5, <1>6
    <3> HIDE DEF first, best
    <3> QED BY <3>2, <1>2
  <2>4. CASE Included(r, chain) /\ Included(p, chain)
    <3>1. PICK i \in DOMAIN chain : chain[i].by = r BY <2>4 DEF Included
    <3>2. PICK j \in DOMAIN chain : chain[j].by = p BY <2>4 DEF Included
    <3>3. Cardinality(Before(chain, i)) = Cardinality(Before(chain, j))
      BY <3>1, <3>2, <1>4, <1>6 DEF FinalityInv, ReplayInv, InOrder
    <3>4. i < j \/ j < i BY <3>1, <3>2, <1>1, <1>6
    <3> QED BY <3>1, <3>2, <3>3, <3>4, <1>1, BeforeGrows
  <2> QED BY <1>6, <2>1, <2>2, <2>3, <2>4 DEF Waiting
<1> DEFINE S == {r \in Submission : Ahead(r)}
<1>7. CASE S = {}
  BY <1>7, FS_EmptySet DEF OneAheadOfFinality
<1>8. CASE S # {}
  <2>1. PICK r \in S : TRUE BY <1>8
  <2>2. S = {r} BY <2>1, <1>6
  <2>3. Cardinality(S) = 1
    <3> HIDE DEF S
    <3> QED BY <2>2, FS_Singleton
  <2> QED BY <2>3 DEF OneAheadOfFinality
<1> QED BY <1>7, <1>8

(* However many handlers sign at once, one submission at most is ahead of   *)
(* finality: the API runs them one by one.                                  *)
THEOREM OneAtATime == Spec => []OneAheadOfFinality
<1>1. Init => ReplayInv
  BY DEF Init, ReplayInv, ChainTyped, Sent, InOrder
<1>2. Init => FinalityInv
  <2> SUFFICES ASSUME Init PROVE FinalityInv OBVIOUS
  <2>1. ReplayInv BY <1>1
  <2>2. \A r \in Submission : nonce[r] = 0 /\ ~Waiting(r) BY DEF Init, Waiting
  <2>3. Used(final + 1) \in Nat BY <2>1, NonceIsUsed
  <2>4. NotAhead
    <3>1. \A n \in Nat : 0 <= n OBVIOUS
    <3> QED BY <2>2, <2>3, <3>1 DEF NotAhead
  <2>5. NotBehind /\ NoRivals BY <2>2 DEF NotBehind, NoRivals
  <2> QED BY <2>1, <2>4, <2>5 DEF FinalityInv
<1>3. FinalityInv /\ [Next]_vars => FinalityInv' BY FinalityStep
<1> QED BY <1>2, <1>3, FinalityIsOne, PTL DEF Spec

-----------------------------------------------------------------------------
(* The state after a block is that before it with the block's transaction  *)
(* applied: what FoldLeft of the community modules computes.               *)
IsRun(g, blocks, S) ==
    g = [T \in SUBSET S |-> IF T = {} THEN {}
                            ELSE ApplyExtrinsic(g[T \ {Max(T)}], blocks[Max(T)])]

Run(blocks, S) == CHOOSE g : IsRun(g, blocks, S)

LEMMA StateIsRun ==
    ASSUME NEW blocks
    PROVE  State(blocks) = Run(blocks, DOMAIN blocks)[DOMAIN blocks]
BY DEF State, FoldLeft, MapThenFoldSet, Run, IsRun

LEMMA MaxIsLargest ==
    ASSUME NEW S, IsFiniteSet(S), S \subseteq Nat, S # {}
    PROVE  Max(S) \in S /\ \A y \in S : Max(S) >= y
<1> DEFINE Good == {T \in SUBSET S : T = {} \/ \E x \in T : \A y \in T : x >= y}
<1>1. {} \in Good
  OBVIOUS
<1>2. ASSUME NEW T \in SUBSET S, NEW x \in S \ T, T \in Good
      PROVE  T \cup {x} \in Good
  <2>1. CASE T = {}
    BY <2>1
  <2>2. CASE T # {}
    <3>1. PICK m \in T : \A y \in T : m >= y
      BY <1>2, <2>2
    <3>2. CASE m >= x
      BY <3>1, <3>2
    <3>3. CASE ~(m >= x)
      <4>1. \A y \in T \cup {x} : x >= y
        BY <3>1, <3>3
      <4> QED
        BY <4>1
    <3> QED
      BY <3>2, <3>3
  <2> QED
    BY <2>1, <2>2
<1>3. S \in Good
  <2> HIDE DEF Good
  <2> QED
    BY <1>1, <1>2, AddingInduction
<1>4. \E x \in S : \A y \in S : x >= y
  BY <1>3
<1> QED
  BY <1>4 DEF Max

(* Two runs, the second of some of the blocks of the first.                 *)
BothRun(g, blocks, S, h, others, V) ==
    /\ IsFiniteSet(S) /\ S \subseteq Nat /\ V \subseteq S
    /\ \A i \in V : blocks[i] = others[i]
    /\ IsRun(g, blocks, S) /\ IsRun(h, others, V)

(* Runs of the same blocks agree, whatever blocks follow.                  *)
LEMMA RunsAgree ==
    ASSUME NEW g, NEW blocks, NEW S, NEW h, NEW others, NEW V,
           BothRun(g, blocks, S, h, others, V)
    PROVE  g[V] = h[V]
<1> USE DEF BothRun
<1> DEFINE Good == {T \in SUBSET V : g[T] = h[T]}
<1>1. IsFiniteSet(V)
  BY FS_Subset
<1>2. ASSUME NEW T \in SUBSET V, \A U \in SUBSET T : U # T => U \in Good
      PROVE  T \in Good
  <2>1. CASE T = {}
    BY <2>1 DEF IsRun
  <2>2. CASE T # {}
    <3>1. Max(T) \in T
      <4>1. IsFiniteSet(T) /\ T \subseteq Nat
        BY <1>1, FS_Subset
      <4> QED
        BY <2>2, <4>1, MaxIsLargest
    <3>2. T \ {Max(T)} \in Good
      BY <1>2, <3>1
    <3>3. /\ g[T] = ApplyExtrinsic(g[T \ {Max(T)}], blocks[Max(T)])
          /\ h[T] = ApplyExtrinsic(h[T \ {Max(T)}], others[Max(T)])
      BY <2>2 DEF IsRun
    <3>4. g[T \ {Max(T)}] = h[T \ {Max(T)}] /\ blocks[Max(T)] = others[Max(T)]
      BY <3>1, <3>2
    <3> QED
      BY <3>3, <3>4, Zenon
  <2> QED
    BY <2>1, <2>2
<1>3. \A T \in SUBSET V : T \in Good
  <2> HIDE DEF Good
  <2> QED
    BY <1>1, <1>2, SubsetInduction
<1> QED
  BY <1>3

LEMMA RunExists ==
    ASSUME NEW S, IsFiniteSet(S), S \subseteq Nat, NEW blocks
    PROVE  IsRun(Run(blocks, S), blocks, S)
<1> DEFINE Good == {T \in SUBSET S : \E g : IsRun(g, blocks, T)}
           state(T) == Run(blocks, T)[T]
<1>1. ASSUME NEW T \in SUBSET S, \A U \in SUBSET T : U # T => U \in Good
      PROVE  T \in Good
  <2> DEFINE g == [U \in SUBSET T |-> IF U = {} THEN {}
                       ELSE ApplyExtrinsic(state(U \ {Max(U)}), blocks[Max(U)])]
  <2>0. ASSUME NEW U \in SUBSET T, U # {}
        PROVE  Max(U) \in U /\ U \ {Max(U)} \in SUBSET T /\ U \ {Max(U)} # T
    <3>1. IsFiniteSet(U) /\ U \subseteq Nat
      BY FS_Subset
    <3>2. Max(U) \in U
      BY <2>0, <3>1, MaxIsLargest
    <3> QED
      BY <3>2
  <2>1. ASSUME NEW U \in SUBSET T, U # T
        PROVE  IsRun(Run(blocks, U), blocks, U) /\ IsFiniteSet(U) /\ U \subseteq Nat
    <3>1. \E h : IsRun(h, blocks, U)
      BY <1>1, <2>1
    <3>2. IsRun(Run(blocks, U), blocks, U)
      BY <3>1 DEF Run
    <3> QED
      BY <3>2, FS_Subset
  <2>2. ASSUME NEW U \in SUBSET T, U # T
        PROVE  g[U] = state(U)
    <3>1. CASE U = {}
      <4>1. state(U) = {}
        BY <2>1, <2>2, <3>1 DEF IsRun
      <4> QED
        BY <3>1, <4>1
    <3>2. CASE U # {}
      <4> DEFINE W == U \ {Max(U)}
      <4>1. Max(U) \in U /\ W \in SUBSET U /\ W \in SUBSET T /\ W # T
        BY <2>0, <3>2
      <4>2. state(U) = ApplyExtrinsic(Run(blocks, U)[W], blocks[Max(U)])
        BY <2>1, <2>2, <3>2 DEF IsRun
      <4>3. Run(blocks, U)[W] = state(W)
        <5>1. IsRun(Run(blocks, U), blocks, U) /\ IsFiniteSet(U) /\ U \subseteq Nat
          BY <2>1, <2>2
        <5>2. IsRun(Run(blocks, W), blocks, W)
          BY <2>1, <4>1
        <5> HIDE DEF W
        <5>3. BothRun(Run(blocks, U), blocks, U, Run(blocks, W), blocks, W)
          BY <4>1, <5>1, <5>2 DEF BothRun
        <5>4. Run(blocks, U)[W] = Run(blocks, W)[W]
          BY <5>3, RunsAgree
        <5> QED
          BY <5>4 DEF W
      <4>4. g[U] = ApplyExtrinsic(state(W), blocks[Max(U)])
        BY <3>2
      <4> HIDE DEF W, g, state
      <4> QED
        BY <4>2, <4>3, <4>4, Zenon
    <3> QED
      BY <3>1, <3>2
  <2>3. ASSUME NEW U \in SUBSET T, U # {}
        PROVE  g[U] = ApplyExtrinsic(g[U \ {Max(U)}], blocks[Max(U)])
    <3>1. g[U \ {Max(U)}] = state(U \ {Max(U)})
      BY <2>0, <2>2, <2>3
    <3>2. g[U] = ApplyExtrinsic(state(U \ {Max(U)}), blocks[Max(U)])
      BY <2>3
    <3> HIDE DEF g, state
    <3> QED
      BY <3>1, <3>2, Zenon
  <2>4. IsRun(g, blocks, T)
    <3>1. \A U \in SUBSET T : g[U] = IF U = {} THEN {}
                                ELSE ApplyExtrinsic(g[U \ {Max(U)}], blocks[Max(U)])
      BY <2>3
    <3>2. g = [U \in SUBSET T |-> g[U]]
      OBVIOUS
    <3> HIDE DEF g
    <3> QED
      BY <3>1, <3>2 DEF IsRun
  <2> HIDE DEF g
  <2> QED
    BY <2>4
<1>2. \A T \in SUBSET S : T \in Good
  <2> HIDE DEF Good
  <2> QED
    BY <1>1, SubsetInduction
<1>3. \E g : IsRun(g, blocks, S)
  BY <1>2
<1> QED
  BY <1>3 DEF Run

LEMMA StateStep ==
    ASSUME NEW X, NEW blocks \in Seq(X), NEW t \in X
    PROVE  /\ State(<<>>) = {}
           /\ State(Append(blocks, t)) = ApplyExtrinsic(State(blocks), t)
<1> DEFINE n == Len(blocks)
           new == Append(blocks, t)
           S == 1..(n + 1)
           V == 1..n
<1>1. /\ n \in Nat /\ DOMAIN blocks = V /\ DOMAIN new = S
      /\ new[n + 1] = t /\ \A i \in V : new[i] = blocks[i]
  OBVIOUS
<1>2. /\ IsFiniteSet(S) /\ IsFiniteSet(V) /\ S \subseteq Nat /\ V \subseteq Nat
      /\ V \in SUBSET S /\ S \ {n + 1} = V /\ S # {} /\ n + 1 \in S
  <2> HIDE DEF n
  <2>1. n \in Int /\ n + 1 \in Int /\ 1 \in Int
    BY <1>1
  <2>2. IsFiniteSet(S) /\ IsFiniteSet(V)
    BY <2>1, FS_Interval
  <2>3. /\ S \subseteq Nat /\ V \subseteq Nat
        /\ V \in SUBSET S /\ n + 1 \in S
    BY <1>1
  <2>4. S \ {n + 1} = V
    BY <1>1
  <2> QED
    BY <2>2, <2>3, <2>4
<1>3. Max(S) = n + 1
  <2>1. Max(S) \in S /\ Max(S) >= n + 1
    BY <1>2, MaxIsLargest
  <2> QED
    BY <1>1, <2>1
<1> HIDE DEF new, S, V, n
<1>4. IsRun(Run(new, S), new, S) /\ IsRun(Run(blocks, V), blocks, V)
  BY <1>2, RunExists
<1>5. Run(new, S)[S] = ApplyExtrinsic(Run(new, S)[S \ {Max(S)}], new[Max(S)])
  BY <1>2, <1>4 DEF IsRun
<1>6. Run(new, S)[V] = Run(blocks, V)[V]
  <2>1. BothRun(Run(new, S), new, S, Run(blocks, V), blocks, V)
    BY <1>1, <1>2, <1>4 DEF BothRun
  <2> QED
    BY <2>1, RunsAgree
<1>7. Run(new, S)[S] = ApplyExtrinsic(Run(blocks, V)[V], t)
  <2>1. S \ {Max(S)} = V /\ new[Max(S)] = t
    BY <1>1, <1>2, <1>3
  <2> QED
    BY <1>5, <1>6, <2>1, Zenon
<1>8. State(new) = Run(new, S)[S] /\ State(blocks) = Run(blocks, V)[V]
  <2>1. State(new) = Run(new, DOMAIN new)[DOMAIN new]
    BY StateIsRun
  <2>2. State(blocks) = Run(blocks, DOMAIN blocks)[DOMAIN blocks]
    BY StateIsRun
  <2> QED
    BY <1>1, <2>1, <2>2, Zenon
<1>9. State(new) = ApplyExtrinsic(State(blocks), t)
  BY <1>7, <1>8, Zenon
<1>10. State(<<>>) = {}
  <2>1. State(<<>>) = Run(<<>>, DOMAIN <<>>)[DOMAIN <<>>]
    BY StateIsRun
  <2>2. DOMAIN <<>> = {}
    OBVIOUS
  <2>3. State(<<>>) = Run(<<>>, {})[{}]
    BY <2>1, <2>2, Zenon
  <2>4. IsRun(Run(<<>>, {}), <<>>, {})
    BY FS_EmptySet, RunExists
  <2>5. Run(<<>>, {})[{}] = {}
    BY <2>4 DEF IsRun
  <2> QED
    BY <2>3, <2>5
<1> QED
  BY <1>9, <1>10 DEF new

StateAt(blocks, n) == State(SubSeq(blocks, 1, n))

LEMMA StateAtStep ==
    ASSUME NEW X, NEW blocks \in Seq(X)
    PROVE  /\ StateAt(blocks, 0) = {} /\ StateAt(blocks, Len(blocks)) = State(blocks)
           /\ \A n \in 0..(Len(blocks) - 1) :
                StateAt(blocks, n + 1) = ApplyExtrinsic(StateAt(blocks, n), blocks[n + 1])
<1>1. SubSeq(blocks, 1, 0) = <<>> /\ SubSeq(blocks, 1, Len(blocks)) = blocks
  OBVIOUS
<1>2. State(<<>>) = {}
  <2>1. <<>> \in Seq({0}) /\ 0 \in {0}
    OBVIOUS
  <2> QED
    BY <2>1, StateStep
<1>3. ASSUME NEW n \in 0..(Len(blocks) - 1)
      PROVE  StateAt(blocks, n + 1) = ApplyExtrinsic(StateAt(blocks, n), blocks[n + 1])
  <2> DEFINE low == SubSeq(blocks, 1, n)
  <2>1. low \in Seq(X) /\ blocks[n + 1] \in X
    OBVIOUS
  <2>2. SubSeq(blocks, 1, n + 1) = Append(low, blocks[n + 1])
    OBVIOUS
  <2> HIDE DEF low
  <2>3. State(Append(low, blocks[n + 1])) = ApplyExtrinsic(State(low), blocks[n + 1])
    BY <2>1, StateStep
  <2>4. StateAt(blocks, n + 1) = State(Append(low, blocks[n + 1]))
    BY <2>2, Zenon DEF StateAt
  <2>5. StateAt(blocks, n) = State(low)
    BY Zenon DEF StateAt, low
  <2> QED
    BY <2>3, <2>4, <2>5, Zenon
<1>4. StateAt(blocks, 0) = {} /\ StateAt(blocks, Len(blocks)) = State(blocks)
  BY <1>1, <1>2, Zenon DEF StateAt
<1> QED
  BY <1>3, <1>4

(* Blocks only add to the state; ...                                        *)
LEMMA StateGrows ==
    ASSUME NEW X, NEW blocks \in Seq(X), NEW n \in 0..Len(blocks), NEW m \in 0..n
    PROVE  StateAt(blocks, m) \subseteq StateAt(blocks, n)
<1> DEFINE N == Len(blocks)
           Good == {k \in 0..N : \A i \in 0..k : StateAt(blocks, i) \subseteq StateAt(blocks, k)}
<1>1. 0 \in Good /\ N \in Nat
  OBVIOUS
<1>2. ASSUME NEW k \in 0..(N - 1), k \in Good
      PROVE  k + 1 \in Good
  <2>1. StateAt(blocks, k) \subseteq StateAt(blocks, k + 1)
    BY StateAtStep DEF ApplyExtrinsic
  <2>2. k + 1 \in 0..N /\ \A i \in 0..(k + 1) : i \in 0..k \/ i = k + 1
    BY <1>1
  <2> QED
    BY <1>2, <2>1, <2>2
<1>3. \A k \in 0..N : k \in Good
  <2> HIDE DEF Good, N
  <2> QED
    BY <1>1, <1>2, UpToInduction
<1> QED
  BY <1>3

(* ... each its own transaction at most, ...                                *)
LEMMA StateIsTraced ==
    ASSUME NEW X, NEW blocks \in Seq(X), NEW n \in 0..Len(blocks), NEW t \in StateAt(blocks, n)
    PROVE  \E j \in 1..n : blocks[j] = t /\ t \in StateAt(blocks, j)
<1> DEFINE N == Len(blocks)
           Good == {k \in 0..N : t \in StateAt(blocks, k) =>
                      \E j \in 1..k : blocks[j] = t /\ t \in StateAt(blocks, j)}
<1>1. 0 \in Good /\ N \in Nat
  BY StateAtStep
<1>2. ASSUME NEW k \in 0..(N - 1), k \in Good
      PROVE  k + 1 \in Good
  <2>1. k + 1 \in 0..N /\ k + 1 \in 1..(k + 1) /\ \A j \in 1..k : j \in 1..(k + 1)
    BY <1>1
  <2>2. t \in StateAt(blocks, k + 1) => t \in StateAt(blocks, k) \/ t = blocks[k + 1]
    BY StateAtStep DEF ApplyExtrinsic
  <2> QED
    BY <1>2, <2>1, <2>2
<1>3. \A k \in 0..N : k \in Good
  <2> HIDE DEF Good, N
  <2> QED
    BY <1>1, <1>2, UpToInduction
<1> QED
  BY <1>3

(* ... and a call that presupposes no other has run once its block is there.*)
LEMMA CallTakesEffect ==
    ASSUME NEW X, NEW blocks \in Seq(X), NEW i \in 1..Len(blocks), Needs(blocks[i].call) = {}
    PROVE  \E d \in StateAt(blocks, i) : d.call = blocks[i].call
<1> DEFINE t == blocks[i]
           done == StateAt(blocks, i - 1)
<1>1. i - 1 \in 0..(Len(blocks) - 1) /\ (i - 1) + 1 = i
  OBVIOUS
<1>2. StateAt(blocks, i) = ApplyExtrinsic(done, t)
  BY <1>1, StateAtStep
<1>3. t.call \notin {"stake", "reveal"}
  BY DEF Needs
<1> HIDE DEF t, done
<1>4. Own(t.call) = {} /\ RuledOutBy(t.call) = {t.call} /\ Needs(t.call) = {}
  BY <1>3 DEF Own, RuledOutBy, t
<1>5. \E d \in ApplyExtrinsic(done, t) : d.call = t.call
  BY <1>4 DEF ApplyExtrinsic
<1> QED
  BY <1>2, <1>5 DEF t

(* Only the blocks below count.                                             *)
LEMMA SameBlocksSameState ==
    ASSUME NEW X, NEW blocks \in Seq(X), NEW others \in Seq(X),
           NEW n \in Nat, n <= Len(blocks), n <= Len(others),
           \A i \in 1..n : others[i] = blocks[i]
    PROVE  StateAt(others, n) = StateAt(blocks, n)
<1> DEFINE a == SubSeq(others, 1, n)
           b == SubSeq(blocks, 1, n)
<1>1. /\ a \in Seq(X) /\ b \in Seq(X) /\ Len(a) = n /\ Len(b) = n
      /\ \A i \in 1..n : a[i] = others[i] /\ b[i] = blocks[i]
  OBVIOUS
<1> HIDE DEF a, b
<1>2. a = b
  <2>1. \A i \in 1..Len(a) : a[i] = b[i]
    BY <1>1
  <2>2. a = [i \in 1..Len(a) |-> a[i]] /\ b = [i \in 1..Len(b) |-> b[i]]
    BY <1>1
  <2> QED
    BY <1>1, <2>1, <2>2
<1> QED
  BY <1>2, Zenon DEF StateAt, a, b

-----------------------------------------------------------------------------
(* A submission's block holds its call, ...                                 *)
Ours == \A i \in DOMAIN chain : chain[i].by \in Submission =>
          chain[i] = Transaction(chain[i].by, call[chain[i].by])

InFinalised(r) == \E i \in 1..final : chain[i].by = r

(* ... a finalised one once the submission was answered Ok; a query knows   *)
(* the answers given before it began, ...                                   *)
OkIsFinal == \A r \in Submission : phase[r] = "ok" => InFinalised(r)

AnswersKnown == \A q \in Query : \A r \in answered[q] : r \in Submission /\ phase[r] = "ok"

(* ... and shows a state finality has reached.                              *)
ViewsAreFinal == \A q \in Query : view[q] \subseteq StateAt(chain, final)

ReadInv == /\ ReplayInv /\ DOMAIN view = Query /\ DOMAIN answered = Query
           /\ Ours /\ OkIsFinal /\ AnswersKnown /\ ViewsAreFinal /\ ReadsOwnWrites

(* What happens to the finalised blocks: nothing.                           *)
FinalisedKept == /\ final \in Nat /\ final <= final' /\ final' \in Nat
                 /\ final <= Len(chain) /\ final' <= Len(chain')
                 /\ chain \in Seq(Transactions) /\ chain' \in Seq(Transactions)
                 /\ \A i \in 1..final : chain'[i] = chain[i]

LEMMA FinalisedAreKept ==
    ASSUME ReplayInv, [Next]_vars
    PROVE  FinalisedKept /\ call' = call
<1>1. ReplayInv'
  BY ReplayStep
<1>2. /\ chain \in Seq(Transactions) /\ final \in 0..Len(chain) /\ Len(chain) \in Nat
      /\ chain' \in Seq(Transactions) /\ final' \in 0..Len(chain') /\ Len(chain') \in Nat
  BY <1>1 DEF ReplayInv, ChainTyped
<1>3. CASE UNCHANGED <<chain, final, call>>
  BY <1>2, <1>3 DEF FinalisedKept
<1>4. CASE Finalise
  <2>1. chain' = chain /\ call' = call /\ final' \in (final + 1)..Len(chain)
    BY <1>4 DEF Finalise, client
  <2> QED
    BY <1>2, <2>1 DEF FinalisedKept
<1>5. CASE Fork
  <2>1. PICK height \in final..(Len(chain) - 1) : chain' = SubSeq(chain, 1, height)
    BY <1>5 DEF Fork
  <2>2. UNCHANGED <<final, call>>
    BY <1>5 DEF Fork, client
  <2>3. \A i \in 1..final : chain'[i] = chain[i]
    BY <1>2, <2>1
  <2> QED
    BY <1>2, <2>2, <2>3 DEF FinalisedKept
<1>6. ASSUME NEW t, chain' = Append(chain, t), UNCHANGED <<final, call>>
      PROVE  FinalisedKept /\ call' = call
  <2>1. \A i \in 1..final : chain'[i] = chain[i]
    BY <1>2, <1>6
  <2> QED
    BY <1>2, <1>6, <2>1 DEF FinalisedKept
<1>7. CASE IncludeOther
  BY <1>6, <1>7 DEF IncludeOther, client
<1>8. ASSUME NEW r \in Submission, Post(r) \/ Answer(r) \/ Include(r)
      PROVE  FinalisedKept /\ call' = call
  <2>1. CASE Include(r)
    BY <1>6, <2>1 DEF Include, client
  <2> QED
    BY <1>3, <1>8, <2>1
       DEF Post, Answer, Sign, Accept, Refuse, AnswerFinalised, AnswerDropped, node
<1> QED
  BY <1>3, <1>4, <1>5, <1>7, <1>8
     DEF Next, Connect, Disconnect, Get, FetchAtLatest, ChainErr, vars, client, node

LEMMA OursStep ==
    ASSUME ReplayInv, Ours, [Next]_vars
    PROVE  Ours'
<1>1. ReplayInv' /\ call' = call
  BY ReplayStep, FinalisedAreKept
<1>2. /\ chain \in Seq(Transactions) /\ DOMAIN chain = 1..Len(chain) /\ Len(chain) \in Nat
      /\ chain' \in Seq(Transactions) /\ DOMAIN chain' = 1..Len(chain') /\ final \in Nat
  BY <1>1 DEF ReplayInv, ChainTyped
<1>3. CASE chain' = chain
  BY <1>1, <1>3 DEF Ours
<1>4. CASE Fork
  <2>1. PICK height \in final..(Len(chain) - 1) : chain' = SubSeq(chain, 1, height)
    BY <1>4 DEF Fork
  <2>2. \A i \in DOMAIN chain' : i \in DOMAIN chain /\ chain'[i] = chain[i]
    BY <1>2, <2>1
  <2> QED
    BY <1>1, <2>2 DEF Ours
<1>5. ASSUME NEW t \in Transactions, chain' = Append(chain, t),
             t.by \in Submission => t = Transaction(t.by, call[t.by])
      PROVE  Ours'
  <2>1. \A i \in DOMAIN chain' : (i \in DOMAIN chain /\ chain'[i] = chain[i]) \/ chain'[i] = t
    BY <1>2, <1>5
  <2> QED
    BY <1>1, <1>5, <2>1 DEF Ours
<1>6. CASE IncludeOther
  <2>1. PICK c \in Call : chain' = Append(chain, Transaction("other", c))
    BY <1>6 DEF IncludeOther
  <2>2. Transaction("other", c) \in Transactions /\ Transaction("other", c).by = "other"
    BY ClientAssumption DEF Transaction, Transactions, Signer, ClientAssumption
  <2> QED
    BY <1>5, <2>1, <2>2, ClientAssumption DEF ClientAssumption
<1>7. ASSUME NEW r \in Submission, Include(r)
      PROVE  Ours'
  <2>1. chain' = Append(chain, Transaction(r, call[r]))
    BY <1>7 DEF Include
  <2>2. Transaction(r, call[r]) \in Transactions /\ Transaction(r, call[r]).by = r
    BY DEF Transaction, Transactions, Signer, ReplayInv, ChainTyped
  <2> QED
    BY <1>5, <2>1, <2>2
<1> QED
  BY <1>3, <1>4, <1>6, <1>7
     DEF Next, Connect, Disconnect, Finalise, Post, Answer, Sign, Accept, Refuse, AnswerFinalised,
         AnswerDropped, Get, FetchAtLatest, ChainErr, vars, client, node

(* What a step does to a query: nothing a reader can tell, it begins, or it *)
(* reads the finalised state.                                               *)
Undisturbed(q) == /\ answered'[q] = answered[q] /\ view'[q] = view[q]
                  /\ phase'[q] = "ok" => phase[q] = "ok"

Begins(q) == /\ answered'[q] = {r \in Submission : phase[r] = "ok"} /\ view'[q] = view[q]
             /\ phase'[q] # "ok"

Reads(q) == /\ answered'[q] = answered[q] /\ view'[q] = State(Finalised)
            /\ UNCHANGED <<chain, final, call>>

QueriesStep == /\ DOMAIN view' = Query /\ DOMAIN answered' = Query
               /\ \A q \in Query : Undisturbed(q) \/ Begins(q) \/ Reads(q)

(* And to a submission: it is answered Ok for a finalised block, and that   *)
(* stays its answer.                                                        *)
SubmissionsStep == \A r \in Submission :
    /\ phase'[r] = "ok" => phase[r] = "ok" \/ Included(r, Finalised)
    /\ phase[r] = "ok" => phase'[r] = "ok"

LEMMA HandlersStep ==
    ASSUME DOMAIN phase = Submission \cup Query, DOMAIN view = Query, DOMAIN answered = Query,
           [Next]_vars
    PROVE  QueriesStep /\ SubmissionsStep
<1>1. CASE UNCHANGED <<phase, answered, view>>
  BY <1>1 DEF QueriesStep, SubmissionsStep, Undisturbed
<1>2. ASSUME NEW r \in Submission \cup Query, NEW to, UNCHANGED <<answered, view>>, Move(r, to),
             phase[r] # "ok", to = "ok" => r \notin Query /\ Included(r, Finalised)
      PROVE  QueriesStep /\ SubmissionsStep
  <2>1. /\ phase'[r] = to
        /\ \A p \in (Submission \cup Query) \ {r} : phase'[p] = phase[p]
    BY <1>2 DEF Move
  <2> QED
    BY <1>2, <2>1 DEF QueriesStep, SubmissionsStep, Undisturbed
<1>3. ASSUME NEW r \in Submission, Post(r) \/ Answer(r) \/ Include(r)
      PROVE  QueriesStep /\ SubmissionsStep
  <2>1. r \notin Query
    BY ClientAssumption DEF ClientAssumption
  <2>2. CASE Post(r)
    <3>1. \/ Move(r, "unavailable")
          \/ \E s \in Text : Move(r, IF ParseH256(s) THEN "signing" ELSE "error")
      BY <2>2 DEF Post, Admit
    <3>2. PICK to \in {"unavailable", "signing", "error"} : Move(r, to)
      BY <3>1
    <3>3. UNCHANGED <<answered, view>> /\ phase[r] = "idle"
      BY <2>2 DEF Post, Admit
    <3> QED
      BY <1>2, <3>2, <3>3
  <2>3. CASE Sign(r)
    BY <1>2, <2>3 DEF Sign
  <2>4. CASE Accept(r)
    BY <1>2, <2>4 DEF Accept
  <2>5. CASE Refuse(r)
    BY <1>2, <2>5 DEF Refuse
  <2>6. CASE AnswerFinalised(r)
    BY <1>2, <2>1, <2>6 DEF AnswerFinalised
  <2>7. CASE AnswerDropped(r)
    BY <1>2, <2>7 DEF AnswerDropped
  <2>8. CASE Include(r)
    BY <1>1, <2>8 DEF Include, client
  <2> QED
    BY <1>3, <2>2, <2>3, <2>4, <2>5, <2>6, <2>7, <2>8 DEF Answer
<1>4. ASSUME NEW q \in Query, Get(q) \/ FetchAtLatest(q)
      PROVE  QueriesStep /\ SubmissionsStep
  <2>1. q \notin Submission
    BY ClientAssumption DEF ClientAssumption
  <2>2. CASE Get(q)
    <3>1. \/ Move(q, "unavailable")
          \/ \E s \in Text : Move(q, IF ParseH256(s) THEN "reading" ELSE "error")
      BY <2>2 DEF Get, Admit
    <3>2. PICK to \in {"unavailable", "reading", "error"} : Move(q, to)
      BY <3>1
    <3>3. /\ phase'[q] = to /\ phase'[q] # "ok"
          /\ \A p \in (Submission \cup Query) \ {q} : phase'[p] = phase[p]
      BY <3>2 DEF Move
    <3>4. /\ answered' = [answered EXCEPT ![q] = {r \in Submission : phase[r] = "ok"}]
          /\ view' = view
      BY <2>2 DEF Get
    <3>5. QueriesStep
      BY <3>3, <3>4 DEF QueriesStep, Undisturbed, Begins
    <3>6. SubmissionsStep
      BY <2>1, <3>3 DEF SubmissionsStep
    <3> QED
      BY <3>5, <3>6
  <2>3. CASE FetchAtLatest(q)
    <3>1. /\ \A p \in (Submission \cup Query) \ {q} : phase'[p] = phase[p]
          /\ view' = [view EXCEPT ![q] = State(Finalised)]
          /\ UNCHANGED <<answered, chain, final, call>>
      BY <2>3 DEF FetchAtLatest, Move, node
    <3>2. \A p \in Query \ {q} : Undisturbed(p)
      BY <3>1 DEF Undisturbed
    <3>3. Reads(q)
      BY <3>1 DEF Reads
    <3>4. QueriesStep
      BY <3>1, <3>2, <3>3 DEF QueriesStep
    <3>5. SubmissionsStep
      BY <2>1, <3>1 DEF SubmissionsStep
    <3> QED
      BY <3>4, <3>5
  <2> QED
    BY <1>4, <2>2, <2>3
<1>5. ASSUME NEW r \in Submission \cup Query, ChainErr(r)
      PROVE  QueriesStep /\ SubmissionsStep
  BY <1>2, <1>5 DEF ChainErr
<1> QED
  BY <1>1, <1>3, <1>4, <1>5
     DEF Next, Connect, Disconnect, Finalise, Fork, IncludeOther, vars, client

(* Finality only adds to the finalised state.                               *)
LEMMA StatesKept ==
    ASSUME FinalisedKept
    PROVE  /\ StateAt(chain', final) = StateAt(chain, final)
           /\ StateAt(chain, final) \subseteq StateAt(chain', final')
<1> DEFINE new == chain'
           n == final'
<1>1. new \in Seq(Transactions) /\ n \in 0..Len(new) /\ final \in 0..n
  BY DEF FinalisedKept
<1>2. StateAt(new, final) = StateAt(chain, final)
  BY SameBlocksSameState DEF FinalisedKept
<1> HIDE DEF new, n
<1>3. StateAt(new, final) \subseteq StateAt(new, n)
  BY <1>1, StateGrows
<1> QED
  BY <1>2, <1>3 DEF new, n

(* A submission that is finalised stays so, and its effect is in every later*)
(* state if it is in any.                                                   *)
LEMMA EffectStays ==
    ASSUME ReplayInv, ReplayInv', FinalisedKept, NEW r \in Submission, InFinalised(r)
    PROVE  /\ InFinalised(r)'
           /\ \A c : Transaction(r, c) \in State(chain') =>
                Transaction(r, c) \in StateAt(chain, final)
<1>1. /\ DOMAIN chain' = 1..Len(chain') /\ Len(chain') \in Nat
      /\ final \in 0..Len(chain') /\ final' \in 0..Len(chain') /\ final \in 0..final'
      /\ final \in 0..Len(chain) /\ Len(chain) \in Nat
  BY DEF FinalisedKept
<1>2. PICK i \in 1..final : chain[i].by = r
  BY DEF InFinalised
<1>3. chain'[i].by = r /\ i \in 1..final' /\ i \in DOMAIN chain'
  BY <1>1, <1>2 DEF FinalisedKept
<1>4. StateAt(chain', final) = StateAt(chain, final)
  BY StatesKept
<1>5. ASSUME NEW c, Transaction(r, c) \in State(chain')
      PROVE  Transaction(r, c) \in StateAt(chain, final)
  <2> DEFINE new == chain'
             t == Transaction(r, c)
  <2>1. new \in Seq(Transactions) /\ Len(new) \in 0..Len(new)
    BY <1>1 DEF FinalisedKept
  <2>2. t.by = r
    BY DEF Transaction
  <2>3. t \in State(new)
    BY <1>5
  <2>4. \A j \in DOMAIN new : new[j].by = r => j = i
    <3>1. NoReplay'
      BY OrderedIsOnce, PTL
    <3> QED
      BY <1>3, <3>1 DEF NoReplay
  <2> HIDE DEF new, t
  <2>5. t \in StateAt(new, Len(new))
    BY <2>1, <2>3, StateAtStep
  <2>6. PICK j \in 1..Len(new) : new[j] = t /\ t \in StateAt(new, j)
    BY <2>1, <2>5, StateIsTraced
  <2>7. j = i
    BY <2>1, <2>2, <2>4, <2>6
  <2>8. StateAt(new, i) \subseteq StateAt(new, final)
    <3>1. i \in 0..final /\ final \in 0..Len(new)
      BY <1>1, <1>2 DEF new
    <3> QED
      BY <2>1, <3>1, StateGrows
  <2>9. t \in StateAt(new, final)
    BY <2>6, <2>7, <2>8
  <2> QED
    BY <1>4, <2>9 DEF new, t
<1>6. InFinalised(r)'
  BY <1>3 DEF InFinalised
<1> QED
  BY <1>5, <1>6

LEMMA ReadInit == Init => ReadInv
<1> SUFFICES ASSUME Init PROVE ReadInv
  OBVIOUS
<1>1. ReplayInv
  BY DEF Init, ReplayInv, ChainTyped, Sent, InOrder
<1>2. Ours /\ OkIsFinal /\ AnswersKnown /\ DOMAIN view = Query /\ DOMAIN answered = Query
  BY DEF Init, Ours, OkIsFinal, AnswersKnown
<1>3. ViewsAreFinal /\ ReadsOwnWrites
  BY DEF Init, ViewsAreFinal, ReadsOwnWrites
<1> QED
  BY <1>1, <1>2, <1>3 DEF ReadInv

(* A query that reads now sees the effect of a finalised submission.         *)
LEMMA ReadSees ==
    ASSUME ReplayInv, Ours, NEW r \in Submission, InFinalised(r), Needs(call[r]) = {}
    PROVE  \E d \in State(Finalised) : d.call = call[r]
<1>1. /\ chain \in Seq(Transactions) /\ DOMAIN chain = 1..Len(chain) /\ Len(chain) \in Nat
      /\ final \in 0..Len(chain) /\ State(Finalised) = StateAt(chain, final)
  BY DEF ReplayInv, ChainTyped, Finalised, StateAt
<1>2. PICK i \in 1..final : chain[i].by = r
  BY DEF InFinalised
<1>3. i \in 1..Len(chain) /\ i \in 0..final /\ chain[i].call = call[r]
  BY <1>1, <1>2 DEF Ours, Transaction
<1>4. StateAt(chain, i) \subseteq StateAt(chain, final)
  BY <1>1, <1>3, StateGrows
<1>5. \E d \in StateAt(chain, i) : d.call = call[r]
  BY <1>1, <1>3, CallTakesEffect
<1> QED
  BY <1>1, <1>4, <1>5

LEMMA ReadStep == ASSUME ReadInv, [Next]_vars PROVE ReadInv'
<1>1. ReplayInv /\ ReplayInv' /\ FinalisedKept /\ call' = call
  BY ReplayStep, FinalisedAreKept DEF ReadInv
<1>2. Ours'
  BY OursStep DEF ReadInv
<1>3. QueriesStep /\ SubmissionsStep
  BY HandlersStep DEF ReadInv, ReplayInv, ChainTyped
<1>4. StateAt(chain, final) = State(Finalised)
  BY DEF StateAt, Finalised
<1>5. OkIsFinal'
  <2> SUFFICES ASSUME NEW r \in Submission, phase'[r] = "ok" PROVE InFinalised(r)'
    BY DEF OkIsFinal
  <2>1. phase[r] = "ok" \/ Included(r, Finalised)
    BY <1>3 DEF SubmissionsStep
  <2>2. Included(r, Finalised) => InFinalised(r)
    <3>1. /\ DOMAIN Finalised = 1..final
          /\ \A i \in 1..final : Finalised[i] = chain[i]
      BY <1>1 DEF Finalised, ReplayInv, ChainTyped
    <3> QED
      BY <3>1 DEF Included, InFinalised
  <2>3. InFinalised(r)
    BY <2>1, <2>2 DEF ReadInv, OkIsFinal
  <2> QED
    BY <1>1, <2>3, EffectStays
<1>6. AnswersKnown'
  BY <1>3 DEF ReadInv, AnswersKnown, QueriesStep, SubmissionsStep, Undisturbed, Begins, Reads
<1>7. ViewsAreFinal'
  <2> SUFFICES ASSUME NEW q \in Query PROVE view'[q] \subseteq StateAt(chain', final')
    BY DEF ViewsAreFinal
  <2>1. view'[q] \subseteq StateAt(chain, final)
    BY <1>3, <1>4 DEF ReadInv, ViewsAreFinal, QueriesStep, Undisturbed, Begins, Reads
  <2>2. StateAt(chain, final) \subseteq StateAt(chain', final')
    BY <1>1, StatesKept
  <2> QED
    BY <2>1, <2>2
<1>8. ReadsOwnWrites'
  <2> SUFFICES ASSUME NEW q \in Query, phase'[q] = "ok", NEW r \in answered'[q]
               PROVE  /\ Transaction(r, call'[r]) \in State(chain') =>
                           Transaction(r, call'[r]) \in view'[q]
                      /\ Needs(call'[r]) = {} => \E d \in view'[q] : d.call = call'[r]
    BY DEF ReadsOwnWrites
  <2>1. Undisturbed(q) \/ Reads(q)
    BY <1>3 DEF QueriesStep, Begins
  <2>2. r \in answered[q]
    BY <2>1 DEF Undisturbed, Reads
  <2>3. r \in Submission /\ InFinalised(r)
    BY <2>2 DEF ReadInv, AnswersKnown, OkIsFinal
  <2>4. Transaction(r, call[r]) \in State(chain') =>
          Transaction(r, call[r]) \in StateAt(chain, final)
    BY <1>1, <2>3, EffectStays
  <2>5. CASE Undisturbed(q)
    <3>1. phase[q] = "ok" /\ view'[q] = view[q]
      BY <2>5 DEF Undisturbed
    <3>2. /\ Transaction(r, call[r]) \in State(chain) => Transaction(r, call[r]) \in view[q]
          /\ Needs(call[r]) = {} => \E d \in view[q] : d.call = call[r]
      BY <2>2, <3>1 DEF ReadInv, ReadsOwnWrites
    <3>3. StateAt(chain, final) \subseteq State(chain)
      <4>1. /\ chain \in Seq(Transactions) /\ final \in 0..Len(chain)
            /\ Len(chain) \in 0..Len(chain)
        BY <1>1 DEF ReplayInv, ChainTyped
      <4>2. StateAt(chain, final) \subseteq StateAt(chain, Len(chain))
        BY <4>1, StateGrows
      <4> QED
        BY <4>1, <4>2, StateAtStep
    <3> QED
      BY <1>1, <2>4, <3>1, <3>2, <3>3
  <2>6. CASE Reads(q)
    <3>1. view'[q] = State(Finalised)
      BY <2>6 DEF Reads
    <3>2. Needs(call[r]) = {} => \E d \in State(Finalised) : d.call = call[r]
      BY <1>1, <2>3, ReadSees DEF ReadInv
    <3> QED
      BY <1>1, <1>4, <2>4, <3>1, <3>2
  <2> QED
    BY <2>1, <2>5, <2>6
<1> QED
  BY <1>1, <1>2, <1>3, <1>5, <1>6, <1>7, <1>8 DEF ReadInv, QueriesStep

(* What a POST reported Ok and what a GET showed is never taken back, by    *)
(* forks, rivals or later calls, for any number of requests and blocks.     *)
THEOREM ToldIsKept == Spec => []NothingTakenBack
<1>1. ReadInv => NothingTakenBack
  <2> SUFFICES ASSUME ReadInv PROVE NothingTakenBack
    OBVIOUS
  <2>1. /\ chain \in Seq(Transactions) /\ DOMAIN chain = 1..Len(chain) /\ Len(chain) \in Nat
        /\ final \in 0..Len(chain) /\ Len(chain) \in 0..Len(chain)
    BY DEF ReadInv, ReplayInv, ChainTyped
  <2>2. \A r \in Submission : phase[r] = "ok" => Included(r, chain)
    BY <2>1 DEF ReadInv, OkIsFinal, InFinalised, Included
  <2>3. StateAt(chain, final) \subseteq State(chain)
    <3>1. StateAt(chain, final) \subseteq StateAt(chain, Len(chain))
      BY <2>1, StateGrows
    <3> QED
      BY <2>1, <3>1, StateAtStep
  <2>4. \A q \in Query : view[q] \subseteq State(chain)
    BY <2>3 DEF ReadInv, ViewsAreFinal
  <2> QED
    BY <2>2, <2>4 DEF NothingTakenBack
<1> QED
  BY <1>1, ReadInit, ReadStep, PTL DEF Spec

(* A query that begins after a submission was answered Ok sees its effect,  *)
(* though the two may reach the node in any order with the blocks.          *)
THEOREM WritesAreRead == Spec => []ReadsOwnWrites
<1>1. ReadInv => ReadsOwnWrites
  BY DEF ReadInv
<1> QED
  BY <1>1, ReadInit, ReadStep, PTL DEF Spec

-----------------------------------------------------------------------------
(* No more nonces are used than there are submissions: each runs once.      *)
LEMMA NonceIsBounded ==
    ASSUME ReplayInv
    PROVE  AccountNonce(Finalised) \in 0..Cardinality(Submission)
<1> DEFINE S == Before(chain, final + 1)
           by == [i \in S |-> chain[i].by]
<1>1. chain \in Seq(Transactions)
  BY DEF ReplayInv, ChainTyped
<1>2. IsFiniteSet(S) /\ IsFiniteSet(Submission) /\ S \subseteq DOMAIN chain
  BY <1>1, BeforeFinite, ClientAssumption DEF ClientAssumption, Before
<1>3. by \in Injection(S, Submission)
  <2>1. by \in [S -> Submission]
    BY DEF Before
  <2>2. \A i, j \in S : by[i] = by[j] => i = j
    BY <1>2, OrderedIsOnce DEF NoReplay, Before
  <2> HIDE DEF by, S
  <2> QED
    BY <2>1, <2>2 DEF Injection, IsInjective
<1>4. /\ Cardinality(S) \in Nat /\ Cardinality(Submission) \in Nat
      /\ Cardinality(S) <= Cardinality(Submission)
  <2> HIDE DEF by, S
  <2> QED
    BY <1>2, <1>3, FS_Injection, FS_CardinalityType DEF ExistsInjection
<1>5. AccountNonce(Finalised) = Cardinality(S)
  BY NonceIsUsed DEF Used
<1> QED
  BY <1>4, <1>5

TypeInv == ReplayInv /\ ClientTypeOK

LEMMA TypeStep == ASSUME TypeInv, [Next]_vars PROVE TypeInv'
<1>1. ReplayInv /\ ReplayInv'
  BY ReplayStep DEF TypeInv
<1>2. /\ final' <= Len(chain')
      /\ \A i \in DOMAIN chain' : chain'[i].by \in Submission => pool'[chain'[i].by] # "none"
  BY <1>1 DEF ReplayInv, ChainTyped, Sent
<1> DEFINE Phase == {"idle", "signing", "signed", "watching", "reading",
                     "ok", "error", "unavailable"}
           Handlers == /\ phase' \in [Submission \cup Query -> Phase]
                       /\ answered' \in [Query -> SUBSET Submission]
                       /\ nonce' \in [Submission -> 0..Cardinality(Submission)]
                       /\ pool' \in [Submission -> {"none", "tracked", "dropped"}]
                       /\ \A r \in Submission : phase'[r] = "watching" => pool'[r] # "none"
                       /\ link' \in {"starting", "up", "none", "lost"}
                       /\ authority' \in BOOLEAN /\ grandpa' \in BOOLEAN
                       /\ call' \in [Submission -> Call]
<1>3. SUFFICES Handlers
  BY <1>1, <1>2 DEF TypeInv, ClientTypeOK
<1> USE DEF TypeInv, ClientTypeOK
<1>4. ASSUME NEW r \in Submission \cup Query, NEW to \in Phase \ {"watching"}, Move(r, to),
             UNCHANGED <<link, call, nonce, pool, authority, grandpa>>,
             answered' \in [Query -> SUBSET Submission]
      PROVE  Handlers
  BY <1>4 DEF Move
<1>5. CASE Connect \/ Disconnect \/ IncludeOther \/ Finalise \/ Fork \/ UNCHANGED vars
  BY <1>5 DEF Connect, Disconnect, IncludeOther, Finalise, Fork, vars, client, node
<1>6. ASSUME NEW r \in Submission, Post(r) \/ Answer(r) \/ Include(r)
      PROVE  Handlers
  <2>1. CASE Post(r)
    <3>1. PICK to \in {"unavailable", "signing", "error"} : Move(r, to)
      BY <2>1 DEF Post, Admit
    <3> QED
      BY <1>4, <2>1, <3>1 DEF Post, node
  <2>2. CASE Sign(r)
    <3>1. nonce' \in [Submission -> 0..Cardinality(Submission)]
      BY <1>1, <2>2, NonceIsBounded DEF Sign
    <3> QED
      BY <2>2, <3>1 DEF Sign, Move, node
  <2>3. CASE Accept(r)
    BY <2>3 DEF Accept, Dropped, Move, node
  <2>4. CASE Include(r)
    BY <2>4 DEF Include, Dropped, client
  <2>5. CASE Refuse(r) \/ AnswerFinalised(r) \/ AnswerDropped(r)
    BY <1>4, <2>5 DEF Refuse, AnswerFinalised, AnswerDropped, node
  <2> QED
    BY <1>6, <2>1, <2>2, <2>3, <2>4, <2>5 DEF Answer
<1>7. ASSUME NEW q \in Query, Get(q) \/ FetchAtLatest(q)
      PROVE  Handlers
  <2>1. CASE Get(q)
    <3>1. PICK to \in {"unavailable", "reading", "error"} : Move(q, to)
      BY <2>1 DEF Get, Admit
    <3>2. answered' \in [Query -> SUBSET Submission]
      BY <2>1 DEF Get
    <3> QED
      BY <1>4, <2>1, <3>1, <3>2 DEF Get, node
  <2>2. CASE FetchAtLatest(q)
    BY <1>4, <2>2 DEF FetchAtLatest, node
  <2> QED
    BY <1>7, <2>1, <2>2
<1>8. ASSUME NEW r \in Submission \cup Query, ChainErr(r)
      PROVE  Handlers
  BY <1>4, <1>8 DEF ChainErr, node
<1> QED
  BY <1>5, <1>6, <1>7, <1>8 DEF Next

(* The type invariant; a nonce never exceeds the number of submissions      *)
(* because none runs twice.                                                 *)
THEOREM ClientTypeCorrect == Spec => []ClientTypeOK
<1>1. Init => TypeInv
  <2> SUFFICES ASSUME Init PROVE TypeInv
    OBVIOUS
  <2>1. ReplayInv
    BY DEF Init, ReplayInv, ChainTyped, Sent, InOrder
  <2>2. 0 \in 0..Cardinality(Submission)
    BY FS_CardinalityType, ClientAssumption DEF ClientAssumption
  <2> QED
    BY <2>1, <2>2 DEF TypeInv, ClientTypeOK, Init
<1>2. TypeInv /\ [Next]_vars => TypeInv'
  BY TypeStep
<1>3. TypeInv => ClientTypeOK
  BY DEF TypeInv
<1> QED
  BY <1>1, <1>2, <1>3, PTL DEF Spec
=============================================================================
