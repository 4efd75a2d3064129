----------------------------- MODULE ChainClient -----------------------------
(***************************************************************************)
(* The chain endpoints of the API: handlers that run concurrently over one *)
(* RPC connection and one signing key, and the node they talk to.  A POST  *)
(* signs a call, submits it and waits until its block is finalised; a GET  *)
(* reads storage at the last finalised block.                              *)
(*                                                                         *)
(* The calls name one model, one prediction and one market, so each can    *)
(* succeed once: which call of which account ran is all the chain state    *)
(* there is.  A block holds one transaction.                               *)
(***************************************************************************)
EXTENDS Naturals, FiniteSets, SequencesExt

CONSTANTS Submission,  \* POST requests, each sent once; a retry is another one
          Query,       \* GET requests
          Call,        \* the calls requests and other accounts choose from
          MaxOthers,   \* bounds the transactions of other accounts
          MaxForks     \* bounds how often unfinalised blocks are replaced

(* A request is a POST or a GET; however many are sent, they are finitely   *)
(* many, so that nonces can be counted.                                     *)
ASSUME ClientAssumption == /\ "other" \notin Submission
                           /\ Submission \cap Query = {}
                           /\ IsFiniteSet(Submission)

VARIABLES link,      \* chain_client and its socket: "starting", "up", "none", "lost"
          authority, grandpa,  \* the node's role and ~disable_grandpa
          phase,     \* Submission \cup Query -> how far the handler is
          call, nonce,         \* of a submission
          pool,      \* Submission -> "none", "tracked" (with a watcher), "dropped"
          chain,     \* the best chain: a sequence of transactions
          final,     \* how many of its blocks are finalised
          forks,     \* counts Fork
          answered,  \* Query -> submissions answered Ok before the query began
          view       \* Query -> the state it read

client == <<link, phase, call, nonce, answered, view>>
node == <<authority, grandpa, chain, final, forks>>
vars == <<client, node, pool>>

-----------------------------------------------------------------------------
(* What a call presupposes, among them which call of the same account, and  *)
(* what rules it out; see stake_prediction, settle_market and              *)
(* reveal_prediction.                                                       *)
Calls == {"register", "create", "commit", "truth", "stake", "reveal", "settle"}

Needs(c) == CASE c = "stake"  -> {"register", "create"}
              [] c = "reveal" -> {"commit"}
              [] c = "settle" -> {"stake", "truth"}
              [] OTHER        -> {}

Own(c) == CASE c = "stake"  -> {"register"}
            [] c = "reveal" -> {"commit"}
            [] OTHER        -> {}

RuledOutBy(c) == IF c = "stake" THEN {"stake", "settle"} ELSE {c}

Signer(by) == IF by \in Submission THEN "alice" ELSE by
Transaction(by, c) == [by |-> by, call |-> c, who |-> Signer(by)]

(* A block holds a transaction whatever its call returns; only a call that  *)
(* succeeds changes the state.                                              *)
ApplyExtrinsic(done, t) ==
    IF /\ \A c \in Needs(t.call) : \E d \in done : d.call = c
       /\ \A c \in Own(t.call) : \E d \in done : d.call = c /\ d.who = t.who
       /\ \A d \in done : d.call \notin RuledOutBy(t.call)
    THEN done \cup {t} ELSE done

State(blocks) == FoldLeft(ApplyExtrinsic, {}, blocks)
Finalised == SubSeq(chain, 1, final)
Included(r, blocks) == \E i \in DOMAIN blocks : blocks[i].by = r

(* The nonce of the one account all submissions sign for.                   *)
AccountNonce(blocks) == Cardinality({i \in DOMAIN blocks : blocks[i].by \in Submission})

(* Wrong version of CheckNonce, to confirm that NoReplay can fail.          *)
AnyNonce(r) == nonce[r] <= AccountNonce(chain)

CheckNonce(r) == nonce[r] = AccountNonce(chain)

ClientTypeOK ==
    /\ link \in {"starting", "up", "none", "lost"}
    /\ authority \in BOOLEAN /\ grandpa \in BOOLEAN
    /\ phase \in [Submission \cup Query ->
                    {"idle", "signing", "signed", "watching", "reading",
                     "ok", "error", "unavailable"}]
    /\ call \in [Submission -> Call]
    /\ nonce \in [Submission -> 0..Cardinality(Submission)]
    /\ pool \in [Submission -> {"none", "tracked", "dropped"}]
    /\ final <= Len(chain)
    /\ \A i \in DOMAIN chain : chain[i].by \in Submission => pool[chain[i].by] # "none"
    /\ \A r \in Submission : phase[r] = "watching" => pool[r] # "none"
    /\ answered \in [Query -> SUBSET Submission]

Init == /\ link = "starting" /\ authority \in BOOLEAN /\ grandpa \in BOOLEAN
        /\ phase = [r \in Submission \cup Query |-> "idle"]
        /\ call \in [Submission -> Call]
        /\ nonce = [r \in Submission |-> 0]
        /\ pool = [r \in Submission |-> "none"]
        /\ chain = <<>> /\ final = 0 /\ forks = 0
        /\ answered = [q \in Query |-> {}] /\ view = [q \in Query |-> {}]

Move(r, to) == phase' = [phase EXCEPT ![r] = to]

-----------------------------------------------------------------------------
(* start_server: the only attempt to connect; requests are served from then *)
(* on, with a client or without.                                            *)
Connect == /\ link = "starting"
           /\ link' \in {"up", "none"}
           /\ UNCHANGED <<phase, call, nonce, answered, view, node, pool>>

(* Argument texts, told apart by what parse_h256 looks at.                  *)
Text == [prefixed : BOOLEAN, hex : BOOLEAN, bytes : {31, 32}]
ParseH256(s) == s.hex /\ s.bytes = 32

(* get_client, then the arguments: what a handler answers before it awaits. *)
Admit(r, next) ==
    /\ phase[r] = "idle" /\ link # "starting"
    /\ \/ link = "none" /\ Move(r, "unavailable")
       \/ link # "none" /\ \E s \in Text : Move(r, IF ParseH256(s) THEN next ELSE "error")

(* register_model ... settle.                                               *)
Post(r) == Admit(r, "signing") /\ UNCHANGED <<link, call, nonce, answered, view, node, pool>>

(* chain_query_market.                                                      *)
Get(q) == /\ Admit(q, "reading")
          /\ answered' = [answered EXCEPT ![q] = {r \in Submission : phase[r] = "ok"}]
          /\ UNCHANGED <<link, call, nonce, view, node, pool>>

-----------------------------------------------------------------------------
(* The node's pool and watchers.  Other nodes may keep what this one drops. *)
Rivals(r) == {p \in Submission \ {r} :
                pool[p] # "none" /\ nonce[p] = nonce[r] /\ ~Included(p, chain)}

Dropped(rs) == [p \in Submission |->
                  IF p \in rs /\ pool[p] = "tracked" THEN "dropped" ELSE pool[p]]

-----------------------------------------------------------------------------
(* Wrong versions of the definitions below, used only to confirm that each  *)
(* property can tell the client from one with a plausible bug.              *)

(* The nonce at the best block.                                             *)
SignAtBest(r) == /\ phase[r] = "signing" /\ link = "up"
                 /\ nonce' = [nonce EXCEPT ![r] = AccountNonce(chain)]
                 /\ Move(r, "signed")
                 /\ UNCHANGED <<link, call, answered, view, node, pool>>

(* A watcher handed out for a transaction that did not enter the pool.      *)
AcceptUnpooled(r) == /\ phase[r] = "signed" /\ link = "up" /\ CheckNonce(r)
                     /\ pool' = Dropped(Rivals(r))
                     /\ Move(r, "watching")
                     /\ UNCHANGED <<link, call, nonce, answered, view, node>>

(* Ok as soon as some block holds the transaction.                          *)
AnswerInBlock(r) ==
    /\ phase[r] = "watching" /\ link = "up"
    /\ pool[r] = "tracked" /\ Included(r, chain)
    /\ Move(r, "ok")
    /\ UNCHANGED <<link, call, nonce, answered, view, node, pool>>

(* A dropped transaction is waited for like any other.                      *)
WaitForDropped(r) ==
    /\ phase[r] = "watching" /\ link = "up"
    /\ pool[r] = "dropped" /\ Included(r, Finalised)
    /\ Move(r, "ok")
    /\ UNCHANGED <<link, call, nonce, answered, view, node, pool>>

(* Storage at the best block.                                               *)
FetchAtBest(q) == /\ phase[q] = "reading" /\ link = "up"
                  /\ view' = [view EXCEPT ![q] = State(chain)]
                  /\ Move(q, "ok")
                  /\ UNCHANGED <<link, call, nonce, answered, node, pool>>

-----------------------------------------------------------------------------
(* sign_and_submit: the nonce is the account's at the last finalised block. *)
Sign(r) == /\ phase[r] = "signing" /\ link = "up"
           /\ nonce' = [nonce EXCEPT ![r] = AccountNonce(Finalised)]
           /\ Move(r, "signed")
           /\ UNCHANGED <<link, call, answered, view, node, pool>>

(* A valid transaction enters the pool and usurps one of the same nonce ... *)
Accept(r) == /\ phase[r] = "signed" /\ link = "up" /\ CheckNonce(r)
             /\ pool' = [Dropped(Rivals(r)) EXCEPT ![r] = "tracked"]
             /\ Move(r, "watching")
             /\ UNCHANGED <<link, call, nonce, answered, view, node>>

(* ... or is refused for it; a stale one always is.                         *)
Refuse(r) == /\ phase[r] = "signed" /\ link = "up"
             /\ ~CheckNonce(r) \/ Rivals(r) # {}
             /\ Move(r, "error")
             /\ UNCHANGED <<link, call, nonce, answered, view, node, pool>>

(* A block with r, authored here or elsewhere; rivals become stale.         *)
Include(r) == /\ pool[r] # "none" /\ CheckNonce(r)
              /\ chain' = Append(chain, Transaction(r, call[r]))
              /\ pool' = Dropped(Rivals(r))
              /\ UNCHANGED <<client, authority, grandpa, final, forks>>

(* start_aura, for an authority: blocks from the pool.                      *)
Author(r) == authority /\ pool[r] = "tracked" /\ Include(r)

IncludeOther == \E c \in Call :
    /\ Cardinality({i \in DOMAIN chain : chain[i].by = "other"}) < MaxOthers
    /\ chain' = Append(chain, Transaction("other", c))
    /\ UNCHANGED <<client, authority, grandpa, final, forks, pool>>

(* run_grandpa_voter, unless disabled.                                      *)
Finalise == /\ grandpa /\ final < Len(chain)
            /\ final' \in (final + 1)..Len(chain)
            /\ UNCHANGED <<client, authority, grandpa, chain, forks, pool>>

(* A longer fork replaces blocks that are not finalised; their transactions *)
(* return to the pool, and their watchers wait on.                          *)
Fork == /\ forks < MaxForks /\ forks' = forks + 1
        /\ \E height \in final..(Len(chain) - 1) : chain' = SubSeq(chain, 1, height)
        /\ UNCHANGED <<client, authority, grandpa, final, pool>>

-----------------------------------------------------------------------------
(* wait_for_finalized: Ok once a finalised block holds the transaction,     *)
(* whatever its call returned ...                                           *)
AnswerFinalised(r) ==
    /\ phase[r] = "watching" /\ link = "up"
    /\ pool[r] = "tracked" /\ Included(r, Finalised)
    /\ Move(r, "ok")
    /\ UNCHANGED <<link, call, nonce, answered, view, node, pool>>

(* ... and an error once the watcher reports the transaction dropped.       *)
AnswerDropped(r) ==
    /\ phase[r] = "watching" /\ link = "up" /\ pool[r] = "dropped"
    /\ Move(r, "error")
    /\ UNCHANGED <<link, call, nonce, answered, view, node, pool>>

(* query_market: storage at the last finalised block.                       *)
FetchAtLatest(q) == /\ phase[q] = "reading" /\ link = "up"
                    /\ view' = [view EXCEPT ![q] = State(Finalised)]
                    /\ Move(q, "ok")
                    /\ UNCHANGED <<link, call, nonce, answered, node, pool>>

(* The socket closes for good; whoever awaits the node gets an error.       *)
Disconnect == /\ link = "up" /\ link' = "lost"
              /\ UNCHANGED <<phase, call, nonce, answered, view, node, pool>>

ChainErr(r) == /\ link = "lost" /\ phase[r] \in {"signing", "signed", "watching", "reading"}
               /\ Move(r, "error")
               /\ UNCHANGED <<link, call, nonce, answered, view, node, pool>>

Answer(r) == Sign(r) \/ Accept(r) \/ Refuse(r) \/ AnswerFinalised(r) \/ AnswerDropped(r)

Next == \/ Connect \/ Disconnect \/ IncludeOther \/ Finalise \/ Fork
        \/ \E r \in Submission : Post(r) \/ Answer(r) \/ Include(r)
        \/ \E q \in Query : Get(q) \/ FetchAtLatest(q)
        \/ \E r \in Submission \cup Query : ChainErr(r)

(* Handlers are polled, an authority authors from its pool, and GRANDPA     *)
(* finalises.  Nothing is assumed of other nodes, accounts or the socket.   *)
Spec == /\ Init /\ [][Next]_vars
        /\ \A r \in Submission : WF_vars(Answer(r)) /\ WF_vars(Author(r))
        /\ \A q \in Query : WF_vars(FetchAtLatest(q))
        /\ \A r \in Submission \cup Query : WF_vars(ChainErr(r))
        /\ WF_vars(Finalise)

-----------------------------------------------------------------------------
(* What a client was told stays true: neither a fork nor a rival takes back *)
(* a transaction reported Ok, or anything a query showed.                   *)
NothingTakenBack ==
    /\ \A r \in Submission : phase[r] = "ok" => Included(r, chain)
    /\ \A q \in Query : view[q] \subseteq State(chain)

(* The e2e test's assertion that a market exists after create_market: a     *)
(* query that begins after a submission was answered Ok sees its effect, or *)
(* that of the call that was there first, if it presupposes no other.       *)
ReadsOwnWrites ==
    \A q \in Query : phase[q] = "ok" =>
      \A r \in answered[q] :
        /\ Transaction(r, call[r]) \in State(chain) => Transaction(r, call[r]) \in view[q]
        /\ Needs(call[r]) = {} => \E d \in view[q] : d.call = call[r]

(* Signing at the finalised nonce serialises the API: of all concurrent     *)
(* submissions, at most one is ahead of finality, on the chain or on its    *)
(* way there; the others are refused, usurped or stale.                     *)
OneAheadOfFinality ==
    Cardinality({r \in Submission :
        /\ ~Included(r, Finalised)
        /\ Included(r, chain) \/ pool[r] = "tracked"}) <= 1

(* No request runs twice, whatever is forked, usurped or sent again.        *)
NoReplay ==
    \A i, j \in DOMAIN chain :
        chain[i].by = chain[j].by /\ chain[i].by \in Submission => i = j

(* Every request is answered, if the node authors and finalises: rivals,    *)
(* forks and a lost connection leave no handler waiting.                    *)
EveryRequestAnswered ==
    authority /\ grandpa =>
      \A r \in Submission \cup Query :
        phase[r] # "idle" ~> phase[r] \in {"ok", "error", "unavailable"}

(* "reveal_prediction tx: {} (hash verified on-chain!)", printed when the   *)
(* client returns Ok (rust-pipeline/tests/e2e_demo.rs:177): a submission    *)
(* reported Ok did on chain what it asks for.                               *)
OkMeansExecuted ==
    \A r \in Submission : phase[r] = "ok" => Transaction(r, call[r]) \in State(Finalised)
=============================================================================
