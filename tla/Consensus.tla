------------------------------ MODULE Consensus ------------------------------
(***************************************************************************)
(* The batch consensus of evice-multi-sequencer/src/consensus, run by      *)
(* several nodes over gossip.                                              *)
(*                                                                         *)
(* Every node runs a driver (run), the job the driver spawns for a step    *)
(* (handle_round_step, run_proposer_flow) and one task per message         *)
(* (handle_consensus_message).  They share the node's state under locks    *)
(* that they take and release several times, so a step here is what one    *)
(* of them does between two points where another can come in.  The driver  *)
(* aborts the job of the step it leaves; a job that is running at that     *)
(* moment may still run on, so an aborted job either disappears or not.    *)
(*                                                                         *)
(* Gossip may lose, delay and reorder: a message that was sent may be      *)
(* handled at any later time or never.  It is handled once, because of     *)
(* recently_processed_hashes (fewer than its 1000 entries are in use       *)
(* here), and never by its sender.  All nodes are honest; they may         *)
(* restart, and then start from nothing since no consensus state is on     *)
(* disk.                                                                   *)
(*                                                                         *)
(* A batch is its header, which is also its hash.  A node makes at most    *)
(* one batch per boot, round and step, so these stand for the timestamp    *)
(* that makes its headers differ.  Payloads and the justify certificate    *)
(* are left out: no decision of this code depends on them.                 *)
(***************************************************************************)
EXTENDS Integers, Sequences, FiniteSets, Functions

CONSTANTS
  Nodes,            \* the validators of the address book, the same at every node
  Genesis,          \* the batch of QuorumCertificate::genesis_qc
  Committee(_, _),  \* the shuffle of the validators that a seed and a round give
  CommitteeSize,    \* genesis parameter sub_committee_size
  MaxConfirmed,     \* MAX_CONFIRMED_BATCHES
  MaxRound,         \* bound: rounds
  MaxBoots          \* bound: restarts, of all nodes together

ASSUME ConstantsAssumption ==
  /\ IsFiniteSet(Nodes) /\ Nodes # {}
  /\ CommitteeSize \in Nat \ {0}
  /\ MaxConfirmed \in Nat \ {0}
  /\ MaxRound \in Nat
  /\ MaxBoots \in Nat

VARIABLES
  round, step, \* current_round, current_step
  qc,          \* highest_seen_qc
  votes,       \* velocity_votes: batch -> the votes held for it
  processed,   \* processed_optimistic_batches
  confirmed,   \* optimistically_confirmed_batches
  pending,     \* pending_proposals
  seen,        \* the proposals in recently_processed_hashes
  requested,   \* stale_qc_request: batches asked for with GetFullProposal
  jobs,        \* step jobs that are not finished
  tasks,       \* message tasks that wait for a lock
  boots,       \* how often the node has restarted
  proposals,   \* IntentBatchProposal messages sent: batches
  ballots,     \* VelocityVoteMsg messages sent: <<voter, batch>>
  qcs          \* NewQuorumCertificate messages sent

local == <<round, step, qc, votes, processed, confirmed, pending, seen, requested,
           jobs, tasks, boots>>

vars == <<local, proposals, ballots, qcs>>

-----------------------------------------------------------------------------

GenesisQC == [batch |-> Genesis, view |-> 0, signers |-> {}]

Quorum == (Cardinality(Nodes) * 2) \div 3 + 1

\* The votes held for a batch.  A vote is kept with the place that pushed it: only
\* "gossip" looks for an earlier vote of the same voter.
VotesFor(n, b) == IF b \in DOMAIN votes[n] THEN votes[n][b] ELSE {}

Push(n, b, voter, via) ==
  votes' = [votes EXCEPT ![n] =
              [x \in DOMAIN votes[n] \cup {b} |->
                 IF x = b THEN VotesFor(n, b) \cup {[voter |-> voter, via |-> via]}
                          ELSE votes[n][x]]]

Voters(entries) == {v.voter : v \in entries}

\* The node can answer GetFullProposal for the batch.
Holds(n, b) == b \in pending[n] \cup Range(confirmed[n])

\* The seed of the election: the VRF output of the batch that the highest
\* certificate is for if the node has confirmed it, and its hash if not.
Seed(n) ==
  IF qc[n].batch \in Range(confirmed[n])
    THEN [vrf |-> qc[n].batch.proposer, over |-> qc[n].batch.prev]
    ELSE [hash |-> qc[n].batch]

IsLeader(n, r, s) ==
  LET committee == Committee(Seed(n), r)
  IN s + 1 \in DOMAIN committee /\ s < CommitteeSize /\ committee[s + 1] = n

\* The batch a leader makes: it extends the last batch the leader has confirmed.
NewBatch(n, r, s) ==
  LET last == confirmed[n][Len(confirmed[n])]
  IN [proposer |-> n, boot |-> boots[n], round |-> r, step |-> s,
      index |-> IF confirmed[n] = <<>> THEN 1 ELSE last.index + 1,
      prev |-> IF confirmed[n] = <<>> THEN Genesis ELSE last]

Job(at, r, s, b) == [at |-> at, round |-> r, step |-> s, batch |-> b]

Task(at, b, voter) == [at |-> at, batch |-> b, voter |-> voter]

\* A task of n has come to its next lock, or is done (next = {}).
Continue(n, task, next) == tasks' = [tasks EXCEPT ![n] = (@ \ {task}) \cup next]

ContinueJob(n, job, next) == jobs' = [jobs EXCEPT ![n] = (@ \ {job}) \cup next]

-----------------------------------------------------------------------------

Init ==
  /\ round = [n \in Nodes |-> 0]
  /\ step = [n \in Nodes |-> 0]
  /\ qc = [n \in Nodes |-> GenesisQC]
  /\ votes = [n \in Nodes |-> [b \in {} |-> {}]]
  /\ processed = [n \in Nodes |-> {}]
  /\ confirmed = [n \in Nodes |-> <<>>]
  /\ pending = [n \in Nodes |-> {}]
  /\ seen = [n \in Nodes |-> {}]
  /\ requested = [n \in Nodes |-> {}]
  /\ jobs = [n \in Nodes |-> {}]
  /\ tasks = [n \in Nodes |-> {}]
  /\ boots = [n \in Nodes |-> 0]
  /\ proposals = {}
  /\ ballots = {}
  /\ qcs = {}

(***************************************************************************)
(* The driver and the job of a step                                        *)
(***************************************************************************)

\* The driver moves to a round and step, aborts the earlier jobs (`running' ones
\* escape) and spawns the job of the new step.  A job that escapes before it has
\* looked at the round finds itself stale and ends, so it counts as aborted.
StartStep(n, r, s) ==
  /\ r <= MaxRound
  /\ round' = [round EXCEPT ![n] = r]
  /\ step' = [step EXCEPT ![n] = s]
  /\ \E running \in SUBSET {job \in jobs[n] : job.at # "elect"} :
       jobs' = [jobs EXCEPT ![n] = running \cup {Job("elect", r, s, Genesis)}]
  /\ UNCHANGED <<qc, votes, processed, confirmed, pending, seen, requested, tasks, boots,
                 proposals, ballots, qcs>>

\* A tick finds a certificate for the current round or a later one.
Advance(n) ==
  /\ qc[n].view >= round[n]
  /\ StartStep(n, qc[n].view + 1, 0)

\* Variant: the step after the last member of the committee is still started.
TimeoutPastCommittee(n) ==
  /\ qc[n].view < round[n]
  /\ IF step[n] + 1 > CommitteeSize
       THEN StartStep(n, round[n] + 1, 0)
       ELSE StartStep(n, round[n], step[n] + 1)

\* Variant: when all proposers have failed the same round starts again.
TimeoutInRound(n) ==
  /\ qc[n].view < round[n]
  /\ IF step[n] + 1 >= CommitteeSize
       THEN StartStep(n, round[n], 0)
       ELSE StartStep(n, round[n], step[n] + 1)

\* A tick finds that the proposer's time is up.
Timeout(n) ==
  /\ qc[n].view < round[n]
  /\ IF step[n] + 1 >= CommitteeSize
       THEN StartStep(n, round[n] + 1, 0)
       ELSE StartStep(n, round[n], step[n] + 1)

\* handle_round_step: is the node the leader of the step?
Elect(n, job) ==
  /\ job \in jobs[n]
  /\ job.at = "elect"
  /\ ContinueJob(n, job,
       IF job.round = round[n] /\ job.step = step[n] /\ IsLeader(n, job.round, job.step)
         THEN {[job EXCEPT !.at = "propose"]} ELSE {})
  /\ UNCHANGED <<round, step, qc, votes, processed, confirmed, pending, seen, requested,
                 tasks, boots, proposals, ballots, qcs>>

\* run_proposer_flow builds a batch, stores it and sends it.
Propose(n, job) ==
  /\ job \in jobs[n]
  /\ job.at = "propose"
  /\ LET b == NewBatch(n, job.round, job.step)
     IN /\ pending' = [pending EXCEPT ![n] = @ \cup {b}]
        /\ proposals' = proposals \cup {b}
        /\ ContinueJob(n, job, {[job EXCEPT !.at = "vote", !.batch = b]})
  /\ UNCHANGED <<round, step, qc, votes, processed, confirmed, seen, requested, tasks,
                 boots, ballots, qcs>>

\* The proposer's own vote, which it sends to nobody.
VoteForOwn(n, job) ==
  /\ job \in jobs[n]
  /\ job.at = "vote"
  /\ Push(n, job.batch, n, "proposer")
  /\ ContinueJob(n, job, {[job EXCEPT !.at = "count"]})
  /\ UNCHANGED <<round, step, qc, processed, confirmed, pending, seen, requested, tasks,
                 boots, proposals, ballots, qcs>>

(***************************************************************************)
(* Counting votes                                                          *)
(***************************************************************************)

\* Variant: one vote less is enough.
EnoughButOne(entries) == Cardinality(entries) + 1 >= Quorum

Enough(entries) == Cardinality(entries) >= Quorum

\* prune_stale_data drops the oldest confirmed batches beyond MaxConfirmed.
Prune(batches) ==
  IF Len(batches) > MaxConfirmed
    THEN SubSeq(batches, Len(batches) - MaxConfirmed + 1, Len(batches))
    ELSE batches

\* Variant: the new certificate becomes the highest one whatever its view.
ConfirmAsHighest(n, b) ==
  LET cert == [batch |-> b, view |-> b.round, signers |-> Voters(VotesFor(n, b))]
  IN /\ processed' = [processed EXCEPT ![n] = @ \cup {b}]
     /\ confirmed' = [confirmed EXCEPT ![n] = Prune(Append(@, b))]
     /\ qc' = [qc EXCEPT ![n] = cert]
     /\ qcs' = qcs \cup {cert}
     /\ votes' = [votes EXCEPT ![n] =
                    [x \in DOMAIN votes[n] \ processed'[n] |-> votes[n][x]]]

\* Variant: the batch is not marked as processed, its votes stay.
ConfirmUnmarked(n, b) ==
  LET cert == [batch |-> b, view |-> b.round, signers |-> Voters(VotesFor(n, b))]
  IN /\ confirmed' = [confirmed EXCEPT ![n] = Prune(Append(@, b))]
     /\ qc' = IF cert.view > qc[n].view THEN [qc EXCEPT ![n] = cert] ELSE qc
     /\ qcs' = qcs \cup {cert}
     /\ UNCHANGED <<processed, votes>>

\* process_votes_for_batch confirms the batch.
Confirm(n, b) ==
  LET cert == [batch |-> b, view |-> b.round, signers |-> Voters(VotesFor(n, b))]
  IN /\ processed' = [processed EXCEPT ![n] = @ \cup {b}]
     /\ confirmed' = [confirmed EXCEPT ![n] = Prune(Append(@, b))]
     /\ qc' = IF cert.view > qc[n].view THEN [qc EXCEPT ![n] = cert] ELSE qc
     /\ qcs' = qcs \cup {cert}
     /\ votes' = [votes EXCEPT ![n] =
                    [x \in DOMAIN votes[n] \ processed'[n] |-> votes[n][x]]]

Confirms(n, b) ==
  /\ b \notin processed[n]
  /\ Enough(VotesFor(n, b))
  /\ b \in pending[n]

\* process_votes_for_batch, called by a message task.  When it has confirmed a batch
\* it goes on to prune_confirmed_proposals.
Count(n, task) ==
  /\ task \in tasks[n]
  /\ task.at = "count"
  /\ IF Confirms(n, task.batch)
       THEN Confirm(n, task.batch) /\ Continue(n, task, {[task EXCEPT !.at = "prune"]})
       ELSE Continue(n, task, {}) /\ UNCHANGED <<processed, confirmed, qc, qcs, votes>>
  /\ UNCHANGED <<round, step, pending, seen, requested, jobs, boots, proposals, ballots>>

\* process_votes_for_batch, called by the proposer's job.
CountOwn(n, job) ==
  /\ job \in jobs[n]
  /\ job.at = "count"
  /\ IF Confirms(n, job.batch)
       THEN Confirm(n, job.batch) /\ ContinueJob(n, job, {[job EXCEPT !.at = "prune"]})
       ELSE ContinueJob(n, job, {}) /\ UNCHANGED <<processed, confirmed, qc, qcs, votes>>
  /\ UNCHANGED <<round, step, pending, seen, requested, tasks, boots, proposals, ballots>>

\* Variant: every proposal that is no later than a confirmed one is dropped.
PruneEarlierProposals(n) ==
  /\ pending' = [pending EXCEPT ![n] =
                   {b \in @ : \A c \in processed[n] : b.round > c.round}]
  /\ \/ \E task \in tasks[n] :
          task.at = "prune" /\ Continue(n, task, {}) /\ UNCHANGED jobs
     \/ \E job \in jobs[n] :
          job.at = "prune" /\ ContinueJob(n, job, {}) /\ UNCHANGED tasks
  /\ UNCHANGED <<round, step, qc, votes, processed, confirmed, seen, requested, boots,
                 proposals, ballots, qcs>>

\* prune_confirmed_proposals.
PruneProposals(n) ==
  /\ pending' = [pending EXCEPT ![n] = @ \ processed[n]]
  /\ \/ \E task \in tasks[n] :
          task.at = "prune" /\ Continue(n, task, {}) /\ UNCHANGED jobs
     \/ \E job \in jobs[n] :
          job.at = "prune" /\ ContinueJob(n, job, {}) /\ UNCHANGED tasks
  /\ UNCHANGED <<round, step, qc, votes, processed, confirmed, seen, requested, boots,
                 proposals, ballots, qcs>>

(***************************************************************************)
(* Messages                                                                *)
(***************************************************************************)

\* A proposal arrives by gossip, which does not return it to its sender, or from a
\* node that holds it in answer to GetFullProposal.
Arrives(n, b) ==
  \/ b \in proposals /\ b.proposer # n
  \/ b \in requested[n] /\ \E m \in Nodes \ {n} : Holds(m, b)

\* handle_batch_proposal: the proposal is stored unless it is there already.
ReceiveProposal(n, b) ==
  /\ Arrives(n, b)
  /\ b \notin seen[n]
  /\ seen' = [seen EXCEPT ![n] = @ \cup {b}]
  /\ pending' = [pending EXCEPT ![n] = @ \cup {b}]
  /\ tasks' = IF b \in pending[n] THEN tasks
              ELSE [tasks EXCEPT ![n] = @ \cup {Task("vote", b, n)}]
  /\ UNCHANGED <<round, step, qc, votes, processed, confirmed, requested, jobs, boots,
                 proposals, ballots, qcs>>

\* The vote for a proposal that was stored: it is kept and sent.
CastVote(n, task) ==
  /\ task \in tasks[n]
  /\ task.at = "vote"
  /\ Push(n, task.batch, n, "follower")
  /\ ballots' = ballots \cup {<<n, task.batch>>}
  /\ Continue(n, task, {[task EXCEPT !.at = "count"]})
  /\ UNCHANGED <<round, step, qc, processed, confirmed, pending, seen, requested, jobs,
                 boots, proposals, qcs>>

\* handle_velocity_vote: a vote arrives, for a batch that is not confirmed yet.
ReceiveVote(n, voter, b) ==
  /\ <<voter, b>> \in ballots
  /\ voter # n
  /\ b \notin processed[n]
  /\ voter \notin Voters(VotesFor(n, b))
  /\ Task("store", b, voter) \notin tasks[n]
  /\ tasks' = [tasks EXCEPT ![n] = @ \cup {Task("store", b, voter)}]
  /\ UNCHANGED <<round, step, qc, votes, processed, confirmed, pending, seen, requested,
                 jobs, boots, proposals, ballots, qcs>>

\* Variant: the votes are not counted after a vote has arrived.
StoreVoteUncounted(n, task) ==
  /\ task \in tasks[n]
  /\ task.at = "store"
  /\ IF task.voter \in Voters(VotesFor(n, task.batch))
       THEN UNCHANGED votes
       ELSE Push(n, task.batch, task.voter, "gossip")
  /\ Continue(n, task, {})
  /\ UNCHANGED <<round, step, qc, processed, confirmed, pending, seen, requested, jobs,
                 boots, proposals, ballots, qcs>>

\* The vote is kept unless a vote of the voter is there.  The batch may have been
\* confirmed since ReceiveVote looked.
StoreVote(n, task) ==
  /\ task \in tasks[n]
  /\ task.at = "store"
  /\ IF task.voter \in Voters(VotesFor(n, task.batch))
       THEN UNCHANGED votes
       ELSE Push(n, task.batch, task.voter, "gossip")
  /\ Continue(n, task, {[task EXCEPT !.at = "count", !.voter = n]})
  /\ UNCHANGED <<round, step, qc, processed, confirmed, pending, seen, requested, jobs,
                 boots, proposals, ballots, qcs>>

\* The check of a certificate: enough different signers.  Honest signatures verify.
IsValid(cert) == Cardinality(cert.signers) >= Quorum

\* handle_new_quorum_certificate: a later certificate replaces the highest one, and
\* its batch is asked for if it is not pending.  The batch is not confirmed.
ReceiveQC(n, cert) ==
  /\ cert \in qcs
  /\ IsValid(cert)
  /\ cert.view > qc[n].view
  /\ qc' = [qc EXCEPT ![n] = cert]
  /\ requested' = IF cert.batch \in pending[n] THEN requested
                  ELSE [requested EXCEPT ![n] = @ \cup {cert.batch}]
  /\ UNCHANGED <<round, step, votes, processed, confirmed, pending, seen, jobs, tasks,
                 boots, proposals, ballots, qcs>>

\* The process restarts: ConsensusState::new.
Restart(n) ==
  /\ FoldFunction(+, 0, boots) < MaxBoots
  /\ boots' = [boots EXCEPT ![n] = @ + 1]
  /\ round' = [round EXCEPT ![n] = 0]
  /\ step' = [step EXCEPT ![n] = 0]
  /\ qc' = [qc EXCEPT ![n] = GenesisQC]
  /\ votes' = [votes EXCEPT ![n] = [b \in {} |-> {}]]
  /\ processed' = [processed EXCEPT ![n] = {}]
  /\ confirmed' = [confirmed EXCEPT ![n] = <<>>]
  /\ pending' = [pending EXCEPT ![n] = {}]
  /\ seen' = [seen EXCEPT ![n] = {}]
  /\ requested' = [requested EXCEPT ![n] = {}]
  /\ jobs' = [jobs EXCEPT ![n] = {}]
  /\ tasks' = [tasks EXCEPT ![n] = {}]
  /\ UNCHANGED <<proposals, ballots, qcs>>

\* A step of the tasks and the jobs of a node.
Work(n) ==
  \/ \E job \in jobs[n] : Elect(n, job) \/ Propose(n, job) \/ VoteForOwn(n, job) \/ CountOwn(n, job)
  \/ \E task \in tasks[n] : CastVote(n, task) \/ StoreVote(n, task) \/ Count(n, task)
  \/ PruneProposals(n)

\* A message is handled by a node.
Deliver(n) ==
  \/ \E b \in proposals : ReceiveProposal(n, b)
  \/ \E ballot \in ballots : ReceiveVote(n, ballot[1], ballot[2])
  \/ \E cert \in qcs : ReceiveQC(n, cert)

Next == \E n \in Nodes : Advance(n) \/ Timeout(n) \/ Work(n) \/ Deliver(n) \/ Restart(n)

Spec == Init /\ [][Next]_vars

-----------------------------------------------------------------------------
(***************************************************************************)
(* Properties                                                              *)
(***************************************************************************)

IsBatch(b) ==
  /\ DOMAIN b = {"proposer", "boot", "round", "step", "index", "prev"}
  /\ b.proposer \in Nodes
  /\ b.boot \in Nat
  /\ b.round \in 1 .. MaxRound
  /\ b.step \in 0 .. CommitteeSize - 1
  /\ b.index \in Nat \ {0}

Entries == [voter : Nodes, via : {"proposer", "follower", "gossip"}]

\* The type invariant: which values the fields of ConsensusState and the messages
\* take.  Whatever a node holds refers to proposals that were sent.
TypeOK ==
  /\ \A b \in proposals : IsBatch(b)
  /\ ballots \subseteq Nodes \X proposals
  /\ \A cert \in qcs : /\ cert.batch \in proposals
                       /\ cert.view = cert.batch.round
                       /\ cert.signers \subseteq Nodes
  /\ round \in [Nodes -> 0 .. MaxRound]
  /\ step \in [Nodes -> 0 .. CommitteeSize - 1]
  /\ boots \in [Nodes -> Nat]
  /\ qc \in [Nodes -> qcs \cup {GenesisQC}]
  /\ processed \in [Nodes -> SUBSET proposals]
  /\ confirmed \in [Nodes -> Seq(proposals)]
  /\ pending \in [Nodes -> SUBSET proposals]
  /\ seen \in [Nodes -> SUBSET proposals]
  /\ requested \in [Nodes -> SUBSET proposals]
  /\ \A n \in Nodes :
       /\ DOMAIN votes[n] \subseteq proposals
       /\ \A b \in DOMAIN votes[n] : votes[n][b] \subseteq Entries
       /\ \A task \in tasks[n] : task.batch \in proposals
       /\ \A job \in jobs[n] : job.at \in {"vote", "count", "prune"} => job.batch \in proposals

\* A node has voted for a batch: it sent a vote, or made the batch.
HasVoted(n, b) == <<n, b>> \in ballots \/ b.proposer = n

\* Every certificate that a node sends passes the check of every other node: it has
\* a quorum of different signers, although process_votes_for_batch counts votes and
\* not voters; and each of them did vote.  So no honest node is ever penalised for a
\* certificate.
CertificatesAreValid ==
  \A cert \in qcs : IsValid(cert) /\ \A n \in cert.signers : HasVoted(n, cert.batch)

\* A batch with a certificate can be fetched: every signer that has not restarted
\* since holds it, before, while and after it moves from pending_proposals to the
\* confirmed batches (as long as fewer than MaxConfirmed batches are confirmed).
CertifiedBatchesAreHeld ==
  \A cert \in qcs : \A n \in cert.signers :
    boots[n] = 0 /\ Cardinality(processed[n]) <= MaxConfirmed => Holds(n, cert.batch)

\* A quorum is never overlooked: a node that holds a batch and enough votes for it
\* has confirmed it, or one of its tasks or its job is still to count them, in
\* whatever order the proposal, the votes and the node's own vote came.  The
\* exception is a proposer whose driver has moved on: it may have aborted the job
\* between the vote and the count.
Counting(n, b) ==
  \E t \in tasks[n] \cup jobs[n] : t.batch = b /\ t.at \in {"vote", "store", "count"}

QuorumsAreNoticed ==
  \A n \in Nodes : \A b \in pending[n] \ processed[n] :
    Enough(VotesFor(n, b)) =>
      \/ Counting(n, b)
      \/ b.proposer = n /\ <<b.round, b.step>> # <<round[n], step[n]>>

\* A node never confirms a batch twice, also after its votes and its proposal are
\* pruned and a late vote has opened a new entry for it.
ConfirmedOnce ==
  \A n \in Nodes : \A i, j \in DOMAIN confirmed[n] :
    confirmed[n][i] = confirmed[n][j] => i = j

\* The steps that the driver has started and whose job has not looked at the round.
Started(n) == {job \in jobs[n] : job.at = "elect"}

\* Until it restarts a node only moves forward.  Every step that its driver starts is
\* later than all before it, in the round or in a later round, whatever proposals,
\* votes and certificates are lost: with the CommitteeSize steps that a round has at
\* most (TypeOK), timeouts alone bring every round to its end.  The node goes to later
\* certificates, and it forgets no confirmation.
NodesMoveForward ==
  [][\A n \in Nodes : boots'[n] = boots[n] =>
       /\ \/ round'[n] > round[n]
          \/ round'[n] = round[n] /\ step'[n] > step[n]
          \/ round'[n] = round[n] /\ step'[n] = step[n] /\ Started(n)' \subseteq Started(n)
       /\ qc'[n].view >= qc[n].view
       /\ processed[n] \subseteq processed'[n]]_vars

\* Nodes that confirm a batch at the same index confirm the same batch ("guarantees
\* message ordering", README.md).
SameOrderEverywhere ==
  \A m, n \in Nodes : \A i \in DOMAIN confirmed[m], j \in DOMAIN confirmed[n] :
    confirmed[m][i].index = confirmed[n][j].index => confirmed[m][i] = confirmed[n][j]
=============================================================================
