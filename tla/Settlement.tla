----------------------------- MODULE Settlement -----------------------------
(***************************************************************************)
(* The order flow auction and its settlement on L1: the auctions of        *)
(* MarketProcessor (zkapp/engine/src/processor.rs), the channel from it to *)
(* the settlement task (zkapp/node/src/main.rs), the SettlementEngine      *)
(* (zkapp/node/src/settlement.rs), and the contracts EviceRollup and       *)
(* EviceVerifier (contracts/src).                                          *)
(*                                                                         *)
(* The actor handles one command or tick at a time.  While it waits for    *)
(* room in the channel (resolving # <<>>) it handles nothing else.         *)
(*                                                                         *)
(* The state root and the proof that the node sends are constants in the   *)
(* code, and so they are here.                                             *)
(***************************************************************************)
EXTENDS Integers, Sequences, FiniteSets, Functions

CONSTANTS
  Intents,      \* intent ids
  Malformed,    \* the ids among them that are not the hex form of 32 bytes
  ZeroId,       \* FixedBytes::ZERO
  Solvers,
  Amounts,      \* output amounts solvers propose
  InitialRoot,  \* the root the contract is deployed with
  DummyRoot,    \* the root the settlement task sends
  NoEvent,      \* the settlement task is waiting
  Capacity,     \* of the channel to the settlement task (1024 in the code)
  MaxBids,      \* bound: different bids
  MaxDeposits,  \* bound: deposits
  MaxFailures   \* bound: errors of submit_zk_batch, pauses, crashes

Event == [intent : Intents, solver : Solvers, amount : Amounts]

\* Keys of intentRegistry.
Keys == (Intents \ Malformed) \cup {ZeroId}

ASSUME SettlementAssumption ==
  /\ Malformed \subseteq Intents
  /\ Amounts \subseteq Nat
  /\ InitialRoot # DummyRoot
  /\ NoEvent \notin Event
  /\ Capacity \in Nat \ {0}
  /\ MaxBids \in Nat /\ MaxDeposits \in Nat /\ MaxFailures \in Nat

VARIABLES
  auctions,  \* active_auctions: intent -> its bids (amount -> solver) and whether it is over
  resolving, \* the winners that resolve_auctions has still to send
  outbound,  \* the channel
  settling,  \* the event the settlement task is at, or NoEvent
  sent,      \* the transactions that L1 may still execute, though nobody waits for them
  registry,  \* intentRegistry
  root,      \* currentStateRoot
  batches,   \* currentBatchId
  paused,
  verifier,  \* a verifier has been set
  bids,      \* history: the bids made, with their auction's number
  opened,    \* history: auctions opened for an intent
  won,       \* history: the events put in the channel
  locked,    \* history: the intents funds were ever locked for
  deposits,
  failures

actor == <<auctions, resolving, bids, opened>>
rollup == <<registry, root, batches, paused, verifier, locked, deposits>>
vars == <<actor, outbound, settling, sent, won, rollup, failures>>

-----------------------------------------------------------------------------

\* FixedBytes::from_str(..).unwrap_or(ZERO)
Key(i) == IF i \in Malformed THEN ZeroId ELSE i

\* Variant: the lowest bid wins.
WinnerLowest(i) ==
  LET amount == CHOOSE a \in DOMAIN auctions[i].bids : \A b \in DOMAIN auctions[i].bids : a <= b
  IN [intent |-> i, solver |-> auctions[i].bids[amount], amount |-> amount]

\* bids.iter().rev().next(): the highest amount, and the last solver to propose it.
Winner(i) ==
  LET amount == CHOOSE a \in DOMAIN auctions[i].bids : \A b \in DOMAIN auctions[i].bids : a >= b
  IN [intent |-> i, solver |-> auctions[i].bids[amount], amount |-> amount]

Init ==
  /\ auctions = [i \in {} |-> i]
  /\ resolving = <<>>
  /\ outbound = <<>>
  /\ settling = NoEvent
  /\ sent = {}
  /\ registry = [k \in Keys |-> "NONE"]
  /\ root = InitialRoot
  /\ batches = 0
  /\ paused = FALSE
  /\ verifier = FALSE
  /\ bids = {}
  /\ opened = [i \in Intents |-> 0]
  /\ won = <<>>
  /\ locked = {}
  /\ deposits = 0
  /\ failures = 0

(***************************************************************************)
(* The actor                                                               *)
(***************************************************************************)

\* SubmitBid: the first bid for an intent that has no auction opens one.
SubmitBid(i, s, a) ==
  LET isNew == i \notin DOMAIN auctions
      known == IF isNew THEN [b \in {} |-> s] ELSE auctions[i].bids
      auction == [bids |-> [b \in DOMAIN known \cup {a} |-> IF b = a THEN s ELSE known[b]],
                  over |-> IF isNew THEN FALSE ELSE auctions[i].over]
  IN /\ resolving = <<>>
     /\ auctions' = [j \in DOMAIN auctions \cup {i} |-> IF j = i THEN auction ELSE auctions[j]]
     /\ opened' = IF isNew THEN [opened EXCEPT ![i] = @ + 1] ELSE opened
     /\ bids' = bids \cup {[intent |-> i, solver |-> s, amount |-> a, auction |-> opened'[i]]}
     /\ Cardinality(bids') <= MaxBids
     /\ UNCHANGED <<resolving, outbound, settling, sent, won, rollup, failures>>

\* An auction's 500 ms have passed.
Expire(i) ==
  /\ i \in DOMAIN auctions
  /\ ~ auctions[i].over
  /\ auctions' = [auctions EXCEPT ![i].over = TRUE]
  /\ UNCHANGED <<resolving, bids, opened, outbound, settling, sent, won, rollup, failures>>

\* Variant: an auction with a single amount is not resolved.
ResolveContested ==
  LET over == {i \in DOMAIN auctions :
                 auctions[i].over /\ Cardinality(DOMAIN auctions[i].bids) > 1}
  IN /\ resolving = <<>>
     /\ over # {}
     /\ \E order \in Bijection(1 .. Cardinality(over), over) :
          resolving' = [k \in DOMAIN order |-> Winner(order[k])]
     /\ auctions' = [i \in DOMAIN auctions \ over |-> auctions[i]]
     /\ UNCHANGED <<bids, opened, outbound, settling, sent, won, rollup, failures>>

\* A tick: resolve_auctions takes the auctions that are over, in any order, since
\* active_auctions is a HashMap.
ResolveAuctions ==
  LET over == {i \in DOMAIN auctions : auctions[i].over}
  IN /\ resolving = <<>>
     /\ over # {}
     /\ \E order \in Bijection(1 .. Cardinality(over), over) :
          resolving' = [k \in DOMAIN order |-> Winner(order[k])]
     /\ auctions' = [i \in DOMAIN auctions \ over |-> auctions[i]]
     /\ UNCHANGED <<bids, opened, outbound, settling, sent, won, rollup, failures>>

\* Variant: an event for which there is no room is dropped.
CommitOrDrop ==
  /\ resolving # <<>>
  /\ IF Len(outbound) < Capacity
       THEN outbound' = Append(outbound, Head(resolving)) /\ won' = Append(won, Head(resolving))
       ELSE UNCHANGED <<outbound, won>>
  /\ resolving' = Tail(resolving)
  /\ UNCHANGED <<auctions, bids, opened, settling, sent, rollup, failures>>

\* Variant: the channel has no limit.
CommitUnbounded ==
  /\ resolving # <<>>
  /\ outbound' = Append(outbound, Head(resolving))
  /\ won' = Append(won, Head(resolving))
  /\ resolving' = Tail(resolving)
  /\ UNCHANGED <<auctions, bids, opened, settling, sent, rollup, failures>>

\* commit_to_state_machine: waits for room in the channel.
CommitToStateMachine ==
  /\ resolving # <<>>
  /\ Len(outbound) < Capacity
  /\ outbound' = Append(outbound, Head(resolving))
  /\ won' = Append(won, Head(resolving))
  /\ resolving' = Tail(resolving)
  /\ UNCHANGED <<auctions, bids, opened, settling, sent, rollup, failures>>

(***************************************************************************)
(* The settlement task and the contract                                    *)
(***************************************************************************)

\* Variant: events are taken in pairs.
ReceiveEventOfPair ==
  /\ settling = NoEvent
  /\ Len(outbound) > 1
  /\ settling' = Head(outbound)
  /\ outbound' = Tail(outbound)
  /\ UNCHANGED <<actor, sent, won, rollup, failures>>

\* The settlement task takes the next event.
ReceiveEvent ==
  /\ settling = NoEvent
  /\ outbound # <<>>
  /\ settling' = Head(outbound)
  /\ outbound' = Tail(outbound)
  /\ UNCHANGED <<actor, sent, won, rollup, failures>>

\* EviceVerifier.verifyProof; the proof is never empty.
VerifyProof(old, new) == old # new

\* Variant: the status of the intent is not looked at.
UpdateStateUnchecked(k) ==
  /\ registry' = [registry EXCEPT ![k] = "RESOLVED"]
  /\ root' = DummyRoot
  /\ batches' = batches + 1
  /\ UNCHANGED <<paused, verifier, locked, deposits>>

\* The effects of updateStateWithIntents for one intent.
UpdateState(k) ==
  /\ registry' = IF registry[k] = "LOCKED" THEN [registry EXCEPT ![k] = "RESOLVED"] ELSE registry
  /\ root' = DummyRoot
  /\ batches' = batches + 1
  /\ UNCHANGED <<paused, verifier, locked, deposits>>

\* A transaction is executed or reverted.
Execute(e) ==
  IF ~ paused /\ verifier /\ VerifyProof(root, DummyRoot)
    THEN UpdateState(Key(e.intent))
    ELSE UNCHANGED rollup

\* submit_zk_batch gets the receipt.  Whatever its status, the task goes on to the next
\* event.
SubmitZkBatch ==
  /\ settling # NoEvent
  /\ settling' = NoEvent
  /\ Execute(settling)
  /\ UNCHANGED <<actor, outbound, sent, won, failures>>

\* submit_zk_batch cannot send the transaction, or has sent it and cannot get its
\* receipt.  Either error is logged only.
SubmitFails ==
  /\ settling # NoEvent
  /\ failures < MaxFailures
  /\ failures' = failures + 1
  /\ settling' = NoEvent
  /\ sent' \in {sent, sent \cup {settling}}
  /\ UNCHANGED <<actor, outbound, won, rollup>>

\* L1 executes a transaction for whose receipt nobody waits.
ExecuteLate(e) ==
  /\ e \in sent
  /\ sent' = sent \ {e}
  /\ Execute(e)
  /\ UNCHANGED <<actor, outbound, settling, won, failures>>

\* A user locks funds for an intent.
DepositIntent(k) ==
  /\ ~ paused
  /\ deposits < MaxDeposits
  /\ deposits' = deposits + 1
  /\ registry' = [registry EXCEPT ![k] = "LOCKED"]
  /\ locked' = locked \cup {k}
  /\ UNCHANGED <<actor, outbound, settling, sent, won, root, batches, paused, verifier, failures>>

\* The owner pauses and unpauses the contract.
PauseSystem ==
  /\ ~ paused
  /\ failures < MaxFailures
  /\ failures' = failures + 1
  /\ paused' = TRUE
  /\ UNCHANGED <<actor, outbound, settling, sent, won, registry, root, batches, verifier, locked,
                 deposits>>

UnpauseSystem ==
  /\ paused
  /\ paused' = FALSE
  /\ UNCHANGED <<actor, outbound, settling, sent, won, registry, root, batches, verifier, locked,
                 deposits, failures>>

SetVerifier ==
  /\ verifier' = TRUE
  /\ UNCHANGED <<actor, outbound, settling, sent, won, registry, root, batches, paused, locked,
                 deposits, failures>>

\* The node restarts: auctions and events are kept in memory only.  What it has sent to
\* L1 stays there.
Crash ==
  /\ failures < MaxFailures
  /\ failures' = failures + 1
  /\ auctions' = [i \in {} |-> i]
  /\ resolving' = <<>>
  /\ outbound' = <<>>
  /\ settling' = NoEvent
  /\ sent' \in {sent, sent \cup ({settling} \ {NoEvent})}
  /\ UNCHANGED <<bids, opened, won, rollup>>

Next ==
  \/ \E i \in Intents, s \in Solvers, a \in Amounts : SubmitBid(i, s, a)
  \/ \E i \in Intents : Expire(i)
  \/ ResolveAuctions \/ CommitToStateMachine
  \/ ReceiveEvent \/ SubmitZkBatch \/ SubmitFails \/ (\E e \in sent : ExecuteLate(e))
  \/ \E k \in Keys : DepositIntent(k)
  \/ PauseSystem \/ UnpauseSystem \/ SetVerifier \/ Crash

Spec == Init /\ [][Next]_vars

\* Time passes, the actor's ticker fires, the settlement task runs, L1 answers, and
\* the operator sets a verifier and ends every pause.
FairSpec ==
  /\ Spec
  /\ \A i \in Intents : WF_vars(Expire(i))
  /\ WF_vars(ResolveAuctions)
  /\ WF_vars(CommitToStateMachine)
  /\ WF_vars(ReceiveEvent)
  /\ WF_vars(SubmitZkBatch \/ SubmitFails)
  /\ WF_vars(UnpauseSystem)
  /\ WF_vars(SetVerifier)

-----------------------------------------------------------------------------
(***************************************************************************)
(* Properties                                                              *)
(***************************************************************************)

\* The type invariant.  The channel never holds more than it has room for.
TypeOK ==
  /\ DOMAIN auctions \subseteq Intents
  /\ \A i \in DOMAIN auctions :
       /\ auctions[i].over \in BOOLEAN
       /\ DOMAIN auctions[i].bids # {} /\ DOMAIN auctions[i].bids \subseteq Amounts
       /\ \A a \in DOMAIN auctions[i].bids : auctions[i].bids[a] \in Solvers
  /\ resolving \in Seq(Event)
  /\ outbound \in Seq(Event) /\ Len(outbound) <= Capacity
  /\ settling \in Event \cup {NoEvent}
  /\ sent \subseteq Event
  /\ registry \in [Keys -> {"NONE", "LOCKED", "RESOLVED"}]
  /\ root \in {InitialRoot, DummyRoot}
  /\ batches \in Nat
  /\ paused \in BOOLEAN /\ verifier \in BOOLEAN
  /\ opened \in [Intents -> Nat]
  /\ won \in Seq(Event)

\* The bids that were made in one auction.
BidsIn(i, n) ==
  {b \in bids : b.intent = i /\ b.auction = n}

\* Whoever wins has won one auction fairly: some auction of the intent had the
\* winning bid and no higher one.  Bids of a later auction for the same intent, and
\* bids that arrive while resolve_auctions waits for the channel, do not mix in.
WinnersAreBest ==
  \A e \in Range(won) : \E n \in 1 .. opened[e.intent] :
    /\ \E b \in BidsIn(e.intent, n) : b.solver = e.solver /\ b.amount = e.amount
    /\ \A b \in BidsIn(e.intent, n) : b.amount <= e.amount

\* On L1 an intent is resolved only if funds were locked for it, and an auction for
\* it, or for an id the node cannot tell from it, was won before, however late its
\* transaction is executed.
ResolvedIntentsWereWon ==
  \A k \in Keys : registry[k] = "RESOLVED" =>
    k \in locked /\ \E e \in Range(won) : Key(e.intent) = k

\* How many of the events are about an intent.
Outcomes(events, i) == Cardinality({k \in DOMAIN events : events[k].intent = i})

\* The auctions of an intent that are open or wait to be sent.
Waiting(i) == (IF i \in DOMAIN auctions THEN 1 ELSE 0) + Outcomes(resolving, i)

\* No auction's outcome is dropped on the way to the settlement task: each auction
\* opened is still open, waits to be sent, or has its event in the channel (as long as
\* the node has not restarted).
EveryAuctionHasOneOutcome ==
  failures = 0 =>
    \A i \in Intents : opened[i] = Waiting(i) + Outcomes(won, i)

\* Every auction ends: its time passes and a later tick resolves it.
AuctionsEnd ==
  \A i \in Intents : i \in DOMAIN auctions ~> i \notin DOMAIN auctions

\* The actor comes back from resolve_auctions to the commands that wait, however full
\* the channel to the settlement task is, as long as L1 answers.
ActorReturns == resolving # <<>> ~> resolving = <<>>

\* A winner whose intent is locked is settled on L1 ("settled on the Ethereum L1 via
\* the SettlementEngine", README.md), if no transaction fails.
WinsAreSettled ==
  \A i \in Intents \ Malformed :
    settling # NoEvent /\ settling.intent = i /\ registry[i] = "LOCKED" /\ verifier /\ ~ paused
      ~> registry[i] = "RESOLVED" \/ failures > 0
=============================================================================
