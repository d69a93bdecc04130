----------------------------- MODULE StateLocks -----------------------------
(***************************************************************************)
(* The two locks of the consensus state, core_state and pending_proposals  *)
(* (evice-multi-sequencer/src/consensus/state.rs), and everyone who takes  *)
(* them: the driver loop and the step job of the engine, the tasks that    *)
(* handle consensus messages (consensus/engine.rs) and the tasks that look *)
(* a batch up for a peer (p2p/swarm.rs).                                   *)
(*                                                                         *)
(* A task is the sequence of the locks it takes and drops, one sequence    *)
(* for each way through its code; what it does in between is in Consensus  *)
(* and SwarmLoop.  The other locks of the state are never held at an       *)
(* await.  RwLock of tokio is fair: a request waits for all earlier ones   *)
(* that it is not compatible with, also for a writer that waits itself.    *)
(***************************************************************************)
EXTENDS Integers, Sequences, FiniteSets

CONSTANTS
  Slots,    \* room for tasks of messages and of requests of peers
  MaxTasks  \* bound: how many of these tasks there are

VARIABLES
  queue,   \* lock -> requests, granted and waiting, in the order they were made
  todo,    \* task -> what it has yet to do
  spawned  \* tasks of messages and of requests so far

vars == <<queue, todo, spawned>>

Locks == {"core", "pending"}

Driver == "driver"

Job == "job"

Tasks == Slots \cup {Driver, Job}

-----------------------------------------------------------------------------
(***************************************************************************)
(* What the tasks do                                                       *)
(***************************************************************************)

Read(l) == [act |-> "take", lock |-> l, mode |-> "read"]

Write(l) == [act |-> "take", lock |-> l, mode |-> "write"]

Drop(l) == [act |-> "drop", lock |-> l]

Reading(l) == <<Read(l), Drop(l)>>

Writing(l) == <<Write(l), Drop(l)>>

Then(steps, ways) == {steps \o way : way \in ways}

\* prune_confirmed_proposals
PruneConfirmedProposals == Reading("core") \o Writing("pending")

\* process_votes_for_batch: no quorum; a quorum without the batch; a confirmation.
ProcessVotesForBatch ==
  LET quorum == <<Write("core")>> \o Reading("pending") \o <<Drop("core")>>
  IN {Writing("core"), quorum, quorum \o PruneConfirmedProposals}

\* handle_batch_proposal: the batch is there already, or is new.
HandleBatchProposal ==
  {Writing("pending")}
    \cup Then(Writing("pending") \o Writing("core"), ProcessVotesForBatch)

\* handle_velocity_vote: the batch is confirmed, or the vote is stored.
HandleVelocityVote ==
  {Reading("core")} \cup Then(Reading("core") \o Writing("core"), ProcessVotesForBatch)

\* handle_new_quorum_certificate: an old certificate, or a newer one.
HandleNewQuorumCertificate ==
  {Writing("core"), <<Write("core")>> \o Reading("pending") \o <<Drop("core")>>}

\* GetFullProposal, and a request on the fallback topic: the batch is pending, or it
\* is looked for among the confirmed ones, with the first guard still alive.
LookUpBatch ==
  {Reading("pending"), <<Read("pending")>> \o Reading("core") \o <<Drop("pending")>>}

\* handle_round_step with run_proposer_flow: this node is not the leader, or it is.
HandleRoundStep ==
  {Reading("core")}
    \cup Then(Reading("core") \o Reading("core") \o Reading("core")
                \o Writing("pending") \o Writing("core"), ProcessVotesForBatch)

\* A tick of the driver loop: nothing to do, or the next step.
DriverTick ==
  {Reading("core"),
   Reading("core") \o <<[act |-> "abort"]>> \o Writing("core") \o <<[act |-> "spawn"]>>}

-----------------------------------------------------------------------------
(***************************************************************************)
(* The locks                                                               *)
(***************************************************************************)

IsGranted(l, i) ==
  \A k \in 1 .. i - 1 : queue[l][k].mode = "read" /\ queue[l][i].mode = "read"

IsWaiting(t) ==
  \E l \in Locks : \E i \in DOMAIN queue[l] : queue[l][i].task = t /\ ~ IsGranted(l, i)

Without(t, requests) == SelectSeq(requests, LAMBDA r : r.task # t)

Init ==
  /\ queue = [l \in Locks |-> <<>>]
  /\ todo = [t \in Tasks |-> <<>>]
  /\ spawned = 0

\* A task for a message or for a request of a peer is spawned.
Spawn ==
  /\ spawned < MaxTasks
  /\ spawned' = spawned + 1
  /\ \E way \in HandleBatchProposal \cup HandleVelocityVote
                  \cup HandleNewQuorumCertificate \cup LookUpBatch :
       LET free == {t \in Slots : todo[t] = <<>>}
       IN free # {} /\ todo' = [todo EXCEPT ![CHOOSE t \in free : TRUE] = way]
  /\ UNCHANGED queue

\* pacesetter_ticker
Tick ==
  /\ todo[Driver] = <<>>
  /\ \E way \in DriverTick : todo' = [todo EXCEPT ![Driver] = way]
  /\ UNCHANGED <<queue, spawned>>

\* A task that waits for no lock goes on.  An aborted job drops its guards.
Step(t) ==
  /\ todo[t] # <<>>
  /\ ~ IsWaiting(t)
  /\ LET step == Head(todo[t])
         rest == [todo EXCEPT ![t] = Tail(@)]
     IN \/ /\ step.act = "take"
           /\ queue' = [queue EXCEPT ![step.lock] = Append(@, [task |-> t, mode |-> step.mode])]
           /\ todo' = rest
        \/ /\ step.act = "drop"
           /\ queue' = [queue EXCEPT ![step.lock] = Without(t, @)]
           /\ todo' = rest
        \/ /\ step.act = "abort"
           /\ queue' = [l \in Locks |-> Without(Job, queue[l])]
           /\ todo' = [rest EXCEPT ![Job] = <<>>]
        \/ /\ step.act = "spawn"
           /\ \E way \in HandleRoundStep : todo' = [rest EXCEPT ![Job] = way]
           /\ UNCHANGED queue
  /\ UNCHANGED spawned

Next ==
  \/ Spawn
  \/ Tick
  \/ \E t \in Tasks : Step(t)

Spec == Init /\ [][Next]_vars

\* The runtime comes to every task that can go on, and the ticker goes on.
FairSpec == Spec /\ WF_vars(Tick) /\ \A t \in Tasks : WF_vars(Step(t))

-----------------------------------------------------------------------------
(***************************************************************************)
(* Properties                                                              *)
(***************************************************************************)

\* The driver loop goes on for ever: it comes back to its ticker from every tick, so
\* that rounds advance ("This loop listens for signals, orchestrates sub-committee
\* elections, triggers block proposals when chosen as a leader, and processes incoming
\* consensus messages", consensus/engine.rs).
DriverGoesOn == []<>(todo[Driver] = <<>>)
=============================================================================
