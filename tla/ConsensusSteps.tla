--------------------------- MODULE ConsensusSteps ---------------------------
(***************************************************************************)
(* The first part of the proofs about the batch consensus, for any number  *)
(* of nodes, rounds and restarts and any election: the inductive           *)
(* invariant, what each action changes, that it leaves the other nodes     *)
(* alone, that it keeps the types, that nodes move forward, and that the   *)
(* driver, messages and the steps of jobs and tasks other than counting    *)
(* keep the invariant of their node.                                       *)
(*                                                                         *)
(* A step of a node changes the state of that node and adds messages.  So  *)
(* the inductive invariant says, of every node, what holds of it and of    *)
(* the messages sent so far.                                               *)
(***************************************************************************)
EXTENDS Consensus, TLAPS

-----------------------------------------------------------------------------
(***************************************************************************)
(* The inductive invariant                                                 *)
(***************************************************************************)

IsArray(f) == f = [n \in Nodes |-> f[n]]

\* The state of the nodes is in arrays.
Arrays ==
  /\ IsArray(round) /\ IsArray(step) /\ IsArray(qc) /\ IsArray(votes)
  /\ IsArray(processed) /\ IsArray(confirmed) /\ IsArray(pending) /\ IsArray(seen)
  /\ IsArray(requested) /\ IsArray(jobs) /\ IsArray(tasks) /\ IsArray(boots)

MessageType ==
  /\ \A b \in proposals : IsBatch(b)
  /\ ballots \subseteq Nodes \X proposals
  /\ \A cert \in qcs : /\ cert.batch \in proposals
                       /\ cert.view = cert.batch.round
                       /\ cert.signers \subseteq Nodes

Jobs ==
  [at : {"elect", "propose", "vote", "count", "prune"}, round : 1 .. MaxRound,
   step : 0 .. CommitteeSize - 1, batch : proposals \cup {Genesis}]

Tasks == [at : {"vote", "store", "count", "prune"}, batch : proposals, voter : Nodes]

\* The driver, certificates and batches of a node.
CoreType(n) ==
  /\ round[n] \in 0 .. MaxRound
  /\ step[n] \in 0 .. CommitteeSize - 1
  /\ boots[n] \in Nat
  /\ qc[n] \in qcs \cup {GenesisQC}
  /\ processed[n] \subseteq proposals /\ pending[n] \subseteq proposals
  /\ seen[n] \subseteq proposals /\ requested[n] \subseteq proposals
  /\ confirmed[n] \in Seq(proposals)

VotesType(n) ==
  /\ DOMAIN votes[n] \subseteq proposals
  /\ \A b \in proposals : VotesFor(n, b) \subseteq Entries

HasBatch(job) == job.at \in {"vote", "count", "prune"} => job.batch \in proposals

\* The jobs and tasks of a node.
WorkType(n) ==
  /\ tasks[n] \subseteq Tasks
  /\ jobs[n] \subseteq Jobs
  /\ \A job \in jobs[n] : HasBatch(job)

NodeType(n) == CoreType(n) /\ VotesType(n) /\ WorkType(n)

TypeInv == Arrays /\ MessageType /\ \A n \in Nodes : NodeType(n)

\* Round r and step s of the node are over or under way.
Begun(n, r, s) == r < round[n] \/ (r = round[n] /\ s <= step[n])

Over(n, r, s) == r < round[n] \/ (r = round[n] /\ s < step[n])

\* The batches a node has made since it last restarted are those of its jobs; it
\* keeps them until they are processed.
OwnBatches(n) ==
  \A b \in proposals : b.proposer = n =>
    /\ b.boot <= boots[n]
    /\ b.boot = boots[n] => b \in pending[n] \cup processed[n]

OwnJob(n, job) ==
  /\ Begun(n, job.round, job.step)
  /\ job.at \in {"vote", "count", "prune"} =>
       /\ job.batch.proposer = n
       /\ job.batch.boot = boots[n]
       /\ job.batch.round = job.round
       /\ job.batch.step = job.step

OwnInv(n) == OwnBatches(n) /\ \A job \in jobs[n] : OwnJob(n, job)

\* Where the votes come from.
VoteFrom(n, b, v) ==
  \/ v.via = "gossip" /\ v.voter # n /\ <<v.voter, b>> \in ballots
  \/ v.via = "follower" /\ v.voter = n /\ <<n, b>> \in ballots
  \/ v.via = "proposer" /\ v.voter = n /\ b.proposer = n /\ b.boot = boots[n]

TaskFrom(n, task) ==
  task.at = "store" => task.voter # n /\ <<task.voter, task.batch>> \in ballots

\* The node has voted for the batch as a follower, or is about to.
Follows(n, b) ==
  \/ \E task \in tasks[n] : task.at = "vote" /\ task.batch = b
  \/ \E v \in VotesFor(n, b) : v.via = "follower"

\* A node does not follow a batch of its own unless it has processed it or made it
\* before it restarted.
NotBoth(n) ==
  \A b \in proposals \ processed[n] : Follows(n, b) /\ b.proposer = n => b.boot < boots[n]

VoteInv(n) ==
  /\ \A b \in proposals : \A v \in VotesFor(n, b) : VoteFrom(n, b, v)
  /\ \A task \in tasks[n] : TaskFrom(n, task)
  /\ NotBoth(n)

\* What a node has voted for it holds, or has processed.
HeldInv(n) ==
  /\ \A task \in tasks[n] : task.at = "vote" => task.batch \in pending[n] \cup processed[n]
  /\ boots[n] = 0 =>
       \A b \in proposals : <<n, b>> \in ballots => b \in pending[n] \cup processed[n]

\* The confirmed batches are processed ones, each of them once, and all of them as
\* long as there are no more than prune_stale_data keeps.
OnceInv(n) ==
  /\ IsFiniteSet(processed[n])
  /\ Range(confirmed[n]) \subseteq processed[n]
  /\ \A i, j \in 1 .. Len(confirmed[n]) : confirmed[n][i] = confirmed[n][j] => i = j
  /\ Cardinality(processed[n]) <= MaxConfirmed =>
       /\ Range(confirmed[n]) = processed[n]
       /\ Len(confirmed[n]) = Cardinality(processed[n])

\* Enough votes are going to be counted, or were left to a job that was aborted.
NoticedInv(n) ==
  \A b \in pending[n] \ processed[n] :
    Enough(VotesFor(n, b)) =>
      \/ Counting(n, b)
      \/ b.proposer = n /\ b.boot = boots[n] /\ Over(n, b.round, b.step)

ConsensusInv ==
  /\ TypeInv
  /\ \A n \in Nodes : OwnInv(n) /\ VoteInv(n) /\ HeldInv(n) /\ OnceInv(n) /\ NoticedInv(n)
  /\ CertificatesAreValid

-----------------------------------------------------------------------------
(***************************************************************************)
(* Sequences                                                               *)
(***************************************************************************)

\* prune_stale_data keeps the end of the confirmed batches, and all of them if there
\* are no more than MaxConfirmed.
LEMMA PruneKeepsEnd ==
  ASSUME NEW S, NEW q \in Seq(S)
  PROVE  /\ Prune(q) \in Seq(S)
         /\ Len(q) <= MaxConfirmed => Prune(q) = q
         /\ \E k \in 0 .. Len(q) :
              /\ Len(Prune(q)) = Len(q) - k
              /\ \A i \in 1 .. Len(Prune(q)) : Prune(q)[i] = q[i + k]
<1>1. CASE Len(q) > MaxConfirmed
  <2> DEFINE k == Len(q) - MaxConfirmed
  <2>1. k \in 0 .. Len(q) /\ k + 1 \in 1 .. Len(q)
    BY <1>1, ConstantsAssumption
  <2>2. Prune(q) = SubSeq(q, k + 1, Len(q))
    BY <1>1, Zenon DEF Prune
  <2>3. Len(q) - (k + 1) + 1 = Len(q) - k /\ \A i \in Int : k + 1 + i - 1 = i + k
    BY <2>1
  <2> HIDE DEF k
  <2>4. /\ Prune(q) \in Seq(S)
        /\ Len(Prune(q)) = Len(q) - k
        /\ \A i \in 1 .. Len(Prune(q)) : Prune(q)[i] = q[i + k]
    BY <2>1, <2>2, <2>3
  <2> QED BY <1>1, <2>1, <2>4, ConstantsAssumption
<1>2. CASE ~ (Len(q) > MaxConfirmed)
  <2>1. Prune(q) = q
    BY <1>2, Zenon DEF Prune
  <2> QED BY <2>1
<1> QED BY <1>1, <1>2, Zenon

\* An element that is new to a sequence without duplicates is appended.
LEMMA AppendOnce ==
  ASSUME NEW S, NEW q \in Seq(S), NEW b \in S, NEW P, b \notin P,
         \A i \in 1 .. Len(q) : q[i] \in P,
         \A i, j \in 1 .. Len(q) : q[i] = q[j] => i = j
  PROVE  /\ Append(q, b) \in Seq(S) /\ Len(Append(q, b)) = Len(q) + 1
         /\ \A i \in 1 .. Len(Append(q, b)) : Append(q, b)[i] \in P \cup {b}
         /\ \A i, j \in 1 .. Len(Append(q, b)) : Append(q, b)[i] = Append(q, b)[j] => i = j
         /\ (\A x \in P : \E i \in 1 .. Len(q) : q[i] = x)
              => \A x \in P \cup {b} : \E i \in 1 .. Len(Append(q, b)) : Append(q, b)[i] = x
<1>1. PICK r : r = Append(q, b)
  BY Zenon
<1>2. /\ r \in Seq(S) /\ Len(r) = Len(q) + 1 /\ Len(q) \in Nat
      /\ \A i \in 1 .. Len(q) : r[i] = q[i]
      /\ r[Len(q) + 1] = b
  BY <1>1
<1>3. \A i \in 1 .. Len(r) : i \in 1 .. Len(q) \/ i = Len(q) + 1
  BY <1>2
<1>4. \A i \in 1 .. Len(q) : i \in 1 .. Len(r)
  BY <1>2
<1>5. \A i \in 1 .. Len(r) : r[i] \in P \cup {b}
  BY <1>2, <1>3, Zenon
<1>6. ASSUME NEW i \in 1 .. Len(r), NEW j \in 1 .. Len(r), r[i] = r[j]
      PROVE  i = j
  <2>1. CASE i \in 1 .. Len(q) /\ j \in 1 .. Len(q)
    BY <1>2, <1>6, <2>1, Zenon
  <2>2. CASE i = Len(q) + 1 /\ j \in 1 .. Len(q)
    BY <1>2, <1>6, <2>2, Zenon
  <2>3. CASE j = Len(q) + 1 /\ i \in 1 .. Len(q)
    BY <1>2, <1>6, <2>3, Zenon
  <2> QED BY <1>3, <2>1, <2>2, <2>3, Zenon
<1>7. ASSUME \A x \in P : \E i \in 1 .. Len(q) : q[i] = x,
             NEW x \in P \cup {b}
      PROVE  \E i \in 1 .. Len(r) : r[i] = x
  <2>1. CASE x = b
    BY <1>2, <2>1
  <2>2. CASE x \in P
    <3>1. PICK i \in 1 .. Len(q) : q[i] = x
      BY <1>7, <2>2, Zenon
    <3> QED BY <1>2, <1>4, <3>1, Zenon
  <2> QED BY <2>1, <2>2, Zenon
<1>8. r \in Seq(S) /\ Len(r) = Len(q) + 1
  BY <1>2, Zenon
<1> QED BY <1>1, <1>5, <1>6, <1>7, <1>8, Zenon

\* Pruning a sequence without duplicates makes none and adds nothing.
LEMMA PruneOnce ==
  ASSUME NEW S, NEW q \in Seq(S), NEW P,
         \A i \in 1 .. Len(q) : q[i] \in P,
         \A i, j \in 1 .. Len(q) : q[i] = q[j] => i = j
  PROVE  /\ \A i \in 1 .. Len(Prune(q)) : Prune(q)[i] \in P
         /\ \A i, j \in 1 .. Len(Prune(q)) : Prune(q)[i] = Prune(q)[j] => i = j
<1>1. PICK r : r = Prune(q)
  BY Zenon
<1>2. PICK k \in 0 .. Len(q) :
        /\ r \in Seq(S)
        /\ Len(r) = Len(q) - k
        /\ \A i \in 1 .. Len(r) : r[i] = q[i + k]
  <2>1. r \in Seq(S)
    BY <1>1, PruneKeepsEnd, Zenon
  <2>2. \E k \in 0 .. Len(q) :
          Len(Prune(q)) = Len(q) - k /\ \A i \in 1 .. Len(Prune(q)) : Prune(q)[i] = q[i + k]
    BY PruneKeepsEnd, Zenon
  <2> QED BY <1>1, <2>1, <2>2, ZenonT(40)
<1>3. \A i \in 1 .. Len(r) : i + k \in 1 .. Len(q)
  BY <1>2
<1>4. \A i \in 1 .. Len(r) : r[i] \in P
  BY <1>2, <1>3, Zenon
<1>5. \A i, j \in 1 .. Len(r) : r[i] = r[j] => i = j
  BY <1>2, <1>3
<1> QED BY <1>1, <1>4, <1>5, Zenon

\* The range of a sequence.
LEMMA SeqRange ==
  ASSUME NEW S, NEW q \in Seq(S)
  PROVE  Range(q) = {q[i] : i \in 1 .. Len(q)}
BY DEF Range

-----------------------------------------------------------------------------
(***************************************************************************)
(* What the actions do                                                     *)
(***************************************************************************)

\* The array g differs from f at n at most.
Framed(f, g, n) == IsArray(g) /\ \A m \in Nodes \ {n} : g[m] = f[m]

\* Only the state of n changes, and messages are only added.
StepOf(n) ==
  /\ Framed(round, round', n) /\ Framed(step, step', n) /\ Framed(qc, qc', n)
  /\ Framed(votes, votes', n) /\ Framed(processed, processed', n)
  /\ Framed(confirmed, confirmed', n) /\ Framed(pending, pending', n)
  /\ Framed(seen, seen', n) /\ Framed(requested, requested', n)
  /\ Framed(jobs, jobs', n) /\ Framed(tasks, tasks', n) /\ Framed(boots, boots', n)
  /\ proposals \subseteq proposals' /\ ballots \subseteq ballots' /\ qcs \subseteq qcs'
  /\ \A b \in proposals' \ proposals : b.proposer = n
  /\ \A ballot \in ballots' \ ballots : ballot[1] = n

\* An array that is changed at one place, or not at all.
LEMMA SetOne ==
  ASSUME NEW f, IsArray(f), NEW n \in Nodes
  PROVE  /\ Framed(f, f, n)
         /\ \A x : Framed(f, [f EXCEPT ![n] = x], n) /\ [f EXCEPT ![n] = x][n] = x
<1>1. DOMAIN f = Nodes
  BY DEF IsArray
<1> QED BY <1>1 DEF IsArray, Framed

\* StartStep: the driver's variables, and some of the jobs.
LEMMA StartStepDoes ==
  ASSUME Arrays, NEW n \in Nodes, NEW r, NEW s, StartStep(n, r, s)
  PROVE  /\ StepOf(n)
         /\ r <= MaxRound /\ round'[n] = r /\ step'[n] = s
         /\ jobs'[n] \subseteq jobs[n] \cup {Job("elect", r, s, Genesis)}
         /\ Job("elect", r, s, Genesis) \in jobs'[n]
         /\ UNCHANGED <<qc, votes, processed, confirmed, pending, seen, requested, tasks,
                        boots, proposals, ballots, qcs>>
<1> DEFINE job == Job("elect", r, s, Genesis)
<1>1. /\ r <= MaxRound
      /\ round' = [round EXCEPT ![n] = r]
      /\ step' = [step EXCEPT ![n] = s]
      /\ UNCHANGED <<qc, votes, processed, confirmed, pending, seen, requested, tasks,
                     boots, proposals, ballots, qcs>>
  BY DEF StartStep
<1>2. PICK running \in SUBSET jobs[n] : jobs' = [jobs EXCEPT ![n] = running \cup {job}]
  BY Zenon DEF StartStep
<1> HIDE DEF job
<1>3. StepOf(n)
  BY <1>1, <1>2, SetOne, Zenon DEF Arrays, StepOf
<1>4. jobs'[n] = running \cup {job}
  BY <1>2, SetOne, Zenon DEF Arrays
<1> QED BY <1>1, <1>3, <1>4, SetOne, Zenon DEF Arrays, job

\* Where the votes are the same, the votes for every batch are.
LEMMA SameVotes ==
  ASSUME NEW n, votes'[n] = votes[n]
  PROVE  \A b : VotesFor(n, b)' = VotesFor(n, b)
BY DEF VotesFor

\* A vote is pushed.
LEMMA PushDoes ==
  ASSUME Arrays, NEW n \in Nodes, NEW b, NEW voter, NEW via, Push(n, b, voter, via)
  PROVE  /\ Framed(votes, votes', n)
         /\ DOMAIN votes'[n] = DOMAIN votes[n] \cup {b}
         /\ \A x : VotesFor(n, x)' =
                     IF x = b THEN VotesFor(n, b) \cup {[voter |-> voter, via |-> via]}
                              ELSE VotesFor(n, x)
<1> DEFINE f == [x \in DOMAIN votes[n] \cup {b} |->
                   IF x = b THEN VotesFor(n, b) \cup {[voter |-> voter, via |-> via]}
                            ELSE votes[n][x]]
<1>1. votes' = [votes EXCEPT ![n] = f]
  BY DEF Push
<1>2. Framed(votes, votes', n) /\ votes'[n] = f
  <2> HIDE DEF f
  <2> QED BY <1>1, SetOne, Zenon DEF Arrays
<1>3. VotesFor(n, b)' = f[b]
  BY <1>2 DEF VotesFor
<1>4. ASSUME NEW x, x # b
      PROVE  VotesFor(n, x)' = VotesFor(n, x)
  BY <1>2, <1>4 DEF VotesFor
<1> QED BY <1>2, <1>3, <1>4

\* The certificate that a node makes.
CertOf(n, b) == [batch |-> b, view |-> b.round, signers |-> Voters(VotesFor(n, b))]

\* A batch is confirmed: its votes and those of all processed batches are dropped.
LEMMA ConfirmDoes ==
  ASSUME Arrays, NEW n \in Nodes, NEW b, Confirm(n, b)
  PROVE  /\ Framed(processed, processed', n) /\ Framed(confirmed, confirmed', n)
         /\ Framed(qc, qc', n) /\ Framed(votes, votes', n)
         /\ processed'[n] = processed[n] \cup {b}
         /\ confirmed'[n] = Prune(Append(confirmed[n], b))
         /\ qc'[n] = IF CertOf(n, b).view > qc[n].view THEN CertOf(n, b) ELSE qc[n]
         /\ qcs' = qcs \cup {CertOf(n, b)}
         /\ DOMAIN votes'[n] = DOMAIN votes[n] \ processed'[n]
         /\ \A x : VotesFor(n, x)' = IF x \in processed'[n] THEN {} ELSE VotesFor(n, x)
<1> DEFINE cert == CertOf(n, b)
           f == [x \in DOMAIN votes[n] \ processed'[n] |-> votes[n][x]]
<1>1. /\ processed' = [processed EXCEPT ![n] = processed[n] \cup {b}]
      /\ confirmed' = [confirmed EXCEPT ![n] = Prune(Append(confirmed[n], b))]
      /\ qc' = IF cert.view > qc[n].view THEN [qc EXCEPT ![n] = cert] ELSE qc
      /\ qcs' = qcs \cup {cert}
      /\ votes' = [votes EXCEPT ![n] = f]
  BY DEF Confirm, CertOf
<1> HIDE DEF cert
<1>2. Framed(processed, processed', n) /\ processed'[n] = processed[n] \cup {b}
  BY <1>1, SetOne, Zenon DEF Arrays
<1>3. Framed(confirmed, confirmed', n) /\ confirmed'[n] = Prune(Append(confirmed[n], b))
  BY <1>1, SetOne, Zenon DEF Arrays
<1>4. Framed(qc, qc', n) /\ qc'[n] = IF cert.view > qc[n].view THEN cert ELSE qc[n]
  BY <1>1, SetOne, Zenon DEF Arrays
<1>5. Framed(votes, votes', n) /\ votes'[n] = f
  <2> HIDE DEF f
  <2> QED BY <1>1, SetOne, Zenon DEF Arrays
<1>6. \A x : VotesFor(n, x)' = IF x \in processed'[n] THEN {} ELSE VotesFor(n, x)
  BY <1>5 DEF VotesFor
<1> QED BY <1>1, <1>2, <1>3, <1>4, <1>5, <1>6 DEF cert

\* handle_round_step.
LEMMA ElectDoes ==
  ASSUME Arrays, NEW n \in Nodes, NEW job, Elect(n, job)
  PROVE  /\ StepOf(n)
         /\ \E next \in SUBSET {[job EXCEPT !.at = "propose"]} :
              jobs'[n] = (jobs[n] \ {job}) \cup next
         /\ UNCHANGED <<round, step, qc, votes, processed, confirmed, pending, seen,
                        requested, tasks, boots, proposals, ballots, qcs>>
<1> DEFINE moved == [job EXCEPT !.at = "propose"]
<1>1. PICK next \in SUBSET {moved} : jobs' = [jobs EXCEPT ![n] = (jobs[n] \ {job}) \cup next]
  <2>1. ContinueJob(n, job, {moved}) \/ ContinueJob(n, job, {})
    BY DEF Elect
  <2> HIDE DEF moved
  <2> QED BY <2>1, Zenon DEF ContinueJob
<1>2. UNCHANGED <<round, step, qc, votes, processed, confirmed, pending, seen, requested,
                  tasks, boots, proposals, ballots, qcs>>
  BY DEF Elect
<1> HIDE DEF moved
<1>3. Framed(jobs, jobs', n) /\ jobs'[n] = (jobs[n] \ {job}) \cup next
  BY <1>1, SetOne, Zenon DEF Arrays
<1>4. StepOf(n)
  BY <1>2, <1>3, SetOne, Zenon DEF Arrays, StepOf
<1> QED BY <1>2, <1>3, <1>4 DEF moved

\* run_proposer_flow makes a batch.
LEMMA ProposeDoes ==
  ASSUME Arrays, NEW n \in Nodes, NEW job, Propose(n, job)
  PROVE  LET b == NewBatch(n, job.round, job.step)
         IN /\ StepOf(n)
            /\ pending'[n] = pending[n] \cup {b}
            /\ proposals' = proposals \cup {b}
            /\ jobs'[n] = (jobs[n] \ {job}) \cup {[job EXCEPT !.at = "vote", !.batch = b]}
            /\ UNCHANGED <<round, step, qc, votes, processed, confirmed, seen, requested,
                           tasks, boots, ballots, qcs>>
<1> DEFINE b == NewBatch(n, job.round, job.step)
           moved == [job EXCEPT !.at = "vote", !.batch = b]
<1>1. /\ pending' = [pending EXCEPT ![n] = pending[n] \cup {b}]
      /\ proposals' = proposals \cup {b}
      /\ jobs' = [jobs EXCEPT ![n] = (jobs[n] \ {job}) \cup {moved}]
      /\ UNCHANGED <<round, step, qc, votes, processed, confirmed, seen, requested,
                     tasks, boots, ballots, qcs>>
  BY DEF Propose, ContinueJob
<1>2. b.proposer = n
  BY DEF NewBatch
<1> HIDE DEF b, moved
<1>3. Framed(jobs, jobs', n) /\ jobs'[n] = (jobs[n] \ {job}) \cup {moved}
  BY <1>1, SetOne, Zenon DEF Arrays
<1>4. Framed(pending, pending', n) /\ pending'[n] = pending[n] \cup {b}
  BY <1>1, SetOne, Zenon DEF Arrays
<1>5. proposals \subseteq proposals' /\ \A x \in proposals' \ proposals : x.proposer = n
  BY <1>1, <1>2
<1>6. StepOf(n)
  BY <1>1, <1>3, <1>4, <1>5, SetOne, Zenon DEF Arrays, StepOf
<1> QED BY <1>1, <1>3, <1>4, <1>6 DEF b, moved

\* The proposer votes.
LEMMA VoteForOwnDoes ==
  ASSUME Arrays, NEW n \in Nodes, NEW job, VoteForOwn(n, job)
  PROVE  /\ StepOf(n)
         /\ Push(n, job.batch, n, "proposer")
         /\ jobs'[n] = (jobs[n] \ {job}) \cup {[job EXCEPT !.at = "count"]}
         /\ UNCHANGED <<round, step, qc, processed, confirmed, pending, seen, requested,
                        tasks, boots, proposals, ballots, qcs>>
<1> DEFINE moved == [job EXCEPT !.at = "count"]
<1>1. /\ Push(n, job.batch, n, "proposer")
      /\ jobs' = [jobs EXCEPT ![n] = (jobs[n] \ {job}) \cup {moved}]
      /\ UNCHANGED <<round, step, qc, processed, confirmed, pending, seen, requested,
                     tasks, boots, proposals, ballots, qcs>>
  BY DEF VoteForOwn, ContinueJob
<1> HIDE DEF moved
<1>2. Framed(jobs, jobs', n) /\ jobs'[n] = (jobs[n] \ {job}) \cup {moved}
  BY <1>1, SetOne, Zenon DEF Arrays
<1>3. Framed(votes, votes', n)
  BY <1>1, PushDoes
<1>4. StepOf(n)
  BY <1>1, <1>2, <1>3, SetOne, Zenon DEF Arrays, StepOf
<1> QED BY <1>1, <1>2, <1>4 DEF moved

\* A follower votes.
LEMMA CastVoteDoes ==
  ASSUME Arrays, NEW n \in Nodes, NEW task, CastVote(n, task)
  PROVE  /\ StepOf(n)
         /\ Push(n, task.batch, n, "follower")
         /\ ballots' = ballots \cup {<<n, task.batch>>}
         /\ tasks'[n] = (tasks[n] \ {task}) \cup {[task EXCEPT !.at = "count"]}
         /\ UNCHANGED <<round, step, qc, processed, confirmed, pending, seen, requested,
                        jobs, boots, proposals, qcs>>
<1> DEFINE moved == [task EXCEPT !.at = "count"]
<1>1. /\ Push(n, task.batch, n, "follower")
      /\ ballots' = ballots \cup {<<n, task.batch>>}
      /\ tasks' = [tasks EXCEPT ![n] = (tasks[n] \ {task}) \cup {moved}]
      /\ UNCHANGED <<round, step, qc, processed, confirmed, pending, seen, requested,
                     jobs, boots, proposals, qcs>>
  BY DEF CastVote, Continue
<1> HIDE DEF moved
<1>2. Framed(tasks, tasks', n) /\ tasks'[n] = (tasks[n] \ {task}) \cup {moved}
  BY <1>1, SetOne, Zenon DEF Arrays
<1>3. Framed(votes, votes', n)
  BY <1>1, PushDoes
<1>4. ballots \subseteq ballots' /\ \A ballot \in ballots' \ ballots : ballot[1] = n
  BY <1>1
<1>5. StepOf(n)
  BY <1>1, <1>2, <1>3, <1>4, SetOne, Zenon DEF Arrays, StepOf
<1> QED BY <1>1, <1>2, <1>5 DEF moved

\* A vote that has arrived is kept, unless there is one of the voter.
LEMMA StoreVoteDoes ==
  ASSUME Arrays, NEW n \in Nodes, NEW task, StoreVote(n, task)
  PROVE  /\ StepOf(n)
         /\ UNCHANGED votes \/ Push(n, task.batch, task.voter, "gossip")
         /\ tasks'[n] = (tasks[n] \ {task}) \cup {[task EXCEPT !.at = "count", !.voter = n]}
         /\ UNCHANGED <<round, step, qc, processed, confirmed, pending, seen, requested,
                        jobs, boots, proposals, ballots, qcs>>
<1> DEFINE moved == [task EXCEPT !.at = "count", !.voter = n]
<1>1. /\ UNCHANGED votes \/ Push(n, task.batch, task.voter, "gossip")
      /\ tasks' = [tasks EXCEPT ![n] = (tasks[n] \ {task}) \cup {moved}]
      /\ UNCHANGED <<round, step, qc, processed, confirmed, pending, seen, requested,
                     jobs, boots, proposals, ballots, qcs>>
  BY DEF StoreVote, Continue
<1> HIDE DEF moved
<1>2. Framed(tasks, tasks', n) /\ tasks'[n] = (tasks[n] \ {task}) \cup {moved}
  BY <1>1, SetOne, Zenon DEF Arrays
<1>3. Framed(votes, votes', n)
  BY <1>1, PushDoes, SetOne DEF Arrays
<1>4. StepOf(n)
  BY <1>1, <1>2, <1>3, SetOne, Zenon DEF Arrays, StepOf
<1> QED BY <1>1, <1>2, <1>4, Zenon DEF moved

\* process_votes_for_batch, whoever calls it.
Counted(n, b) ==
  \/ Confirms(n, b) /\ Confirm(n, b)
  \/ ~ Confirms(n, b) /\ UNCHANGED <<processed, confirmed, qc, qcs, votes>>

\* What it changes are arrays.
LEMMA CountedFrame ==
  ASSUME Arrays, NEW n \in Nodes, NEW b, Counted(n, b)
  PROVE  /\ Framed(processed, processed', n) /\ Framed(confirmed, confirmed', n)
         /\ Framed(qc, qc', n) /\ Framed(votes, votes', n)
         /\ qcs \subseteq qcs'
<1>1. CASE Confirm(n, b)
  BY <1>1, ConfirmDoes
<1>2. CASE UNCHANGED <<processed, confirmed, qc, qcs, votes>>
  BY <1>2, SetOne DEF Arrays
<1> QED BY <1>1, <1>2 DEF Counted

\* process_votes_for_batch in a message task.
LEMMA CountDoes ==
  ASSUME Arrays, NEW n \in Nodes, NEW task, Count(n, task)
  PROVE  /\ StepOf(n)
         /\ Counted(n, task.batch)
         /\ \E next \in SUBSET {[task EXCEPT !.at = "prune"]} :
              tasks'[n] = (tasks[n] \ {task}) \cup next
         /\ UNCHANGED <<round, step, pending, seen, requested, jobs, boots, proposals,
                        ballots>>
<1> DEFINE moved == [task EXCEPT !.at = "prune"]
<1>1. /\ Counted(n, task.batch)
      /\ Continue(n, task, {moved}) \/ Continue(n, task, {})
      /\ UNCHANGED <<round, step, pending, seen, requested, jobs, boots, proposals, ballots>>
  BY DEF Count, Counted
<1> HIDE DEF moved
<1>2. PICK next \in SUBSET {moved} :
        tasks' = [tasks EXCEPT ![n] = (tasks[n] \ {task}) \cup next]
  BY <1>1, Zenon DEF Continue
<1>3. Framed(tasks, tasks', n) /\ tasks'[n] = (tasks[n] \ {task}) \cup next
  BY <1>2, SetOne, Zenon DEF Arrays
<1>4. StepOf(n)
  BY <1>1, <1>3, CountedFrame, SetOne, Zenon DEF Arrays, StepOf
<1> QED BY <1>1, <1>3, <1>4 DEF moved

\* process_votes_for_batch in the proposer's job.
LEMMA CountOwnDoes ==
  ASSUME Arrays, NEW n \in Nodes, NEW job, CountOwn(n, job)
  PROVE  /\ StepOf(n)
         /\ Counted(n, job.batch)
         /\ \E next \in SUBSET {[job EXCEPT !.at = "prune"]} :
              jobs'[n] = (jobs[n] \ {job}) \cup next
         /\ UNCHANGED <<round, step, pending, seen, requested, tasks, boots, proposals,
                        ballots>>
<1> DEFINE moved == [job EXCEPT !.at = "prune"]
<1>1. /\ Counted(n, job.batch)
      /\ ContinueJob(n, job, {moved}) \/ ContinueJob(n, job, {})
      /\ UNCHANGED <<round, step, pending, seen, requested, tasks, boots, proposals, ballots>>
  BY DEF CountOwn, Counted
<1> HIDE DEF moved
<1>2. PICK next \in SUBSET {moved} :
        jobs' = [jobs EXCEPT ![n] = (jobs[n] \ {job}) \cup next]
  BY <1>1, Zenon DEF ContinueJob
<1>3. Framed(jobs, jobs', n) /\ jobs'[n] = (jobs[n] \ {job}) \cup next
  BY <1>2, SetOne, Zenon DEF Arrays
<1>4. StepOf(n)
  BY <1>1, <1>3, CountedFrame, SetOne, Zenon DEF Arrays, StepOf
<1> QED BY <1>1, <1>3, <1>4 DEF moved

\* prune_confirmed_proposals, after which the task or job is done.
LEMMA PruneProposalsDoes ==
  ASSUME Arrays, NEW n \in Nodes, PruneProposals(n)
  PROVE  /\ StepOf(n)
         /\ pending'[n] = pending[n] \ processed[n]
         /\ tasks'[n] \subseteq tasks[n] /\ jobs'[n] \subseteq jobs[n]
         /\ \A task \in tasks[n] : task.at # "prune" => task \in tasks'[n]
         /\ \A job \in jobs[n] : job.at # "prune" => job \in jobs'[n]
         /\ UNCHANGED <<round, step, qc, votes, processed, confirmed, seen, requested,
                        boots, proposals, ballots, qcs>>
<1>1. /\ pending' = [pending EXCEPT ![n] = pending[n] \ processed[n]]
      /\ UNCHANGED <<round, step, qc, votes, processed, confirmed, seen, requested,
                     boots, proposals, ballots, qcs>>
  BY DEF PruneProposals
<1>2. Framed(pending, pending', n) /\ pending'[n] = pending[n] \ processed[n]
  BY <1>1, SetOne, Zenon DEF Arrays
<1>3. \/ /\ UNCHANGED jobs
         /\ \E task \in tasks[n] : task.at = "prune" /\ Continue(n, task, {})
      \/ /\ UNCHANGED tasks
         /\ \E job \in jobs[n] : job.at = "prune" /\ ContinueJob(n, job, {})
  BY DEF PruneProposals
<1>4. CASE UNCHANGED jobs /\ \E task \in tasks[n] : task.at = "prune" /\ Continue(n, task, {})
  <2>1. PICK task \in tasks[n] :
          task.at = "prune" /\ tasks' = [tasks EXCEPT ![n] = tasks[n] \ {task}]
    BY <1>4, Zenon DEF Continue
  <2>2. Framed(tasks, tasks', n) /\ tasks'[n] = tasks[n] \ {task}
    BY <2>1, SetOne, Zenon DEF Arrays
  <2>3. StepOf(n)
    BY <1>1, <1>2, <1>4, <2>2, SetOne, Zenon DEF Arrays, StepOf
  <2> QED BY <1>1, <1>2, <1>4, <2>1, <2>2, <2>3
<1>5. CASE UNCHANGED tasks /\ \E job \in jobs[n] : job.at = "prune" /\ ContinueJob(n, job, {})
  <2>1. PICK job \in jobs[n] :
          job.at = "prune" /\ jobs' = [jobs EXCEPT ![n] = jobs[n] \ {job}]
    BY <1>5, Zenon DEF ContinueJob
  <2>2. Framed(jobs, jobs', n) /\ jobs'[n] = jobs[n] \ {job}
    BY <2>1, SetOne, Zenon DEF Arrays
  <2>3. StepOf(n)
    BY <1>1, <1>2, <1>5, <2>2, SetOne, Zenon DEF Arrays, StepOf
  <2> QED BY <1>1, <1>2, <1>5, <2>1, <2>2, <2>3
<1> QED BY <1>3, <1>4, <1>5

\* handle_batch_proposal.
LEMMA ReceiveProposalDoes ==
  ASSUME Arrays, NEW n \in Nodes, NEW b, ReceiveProposal(n, b)
  PROVE  /\ StepOf(n)
         /\ seen'[n] = seen[n] \cup {b}
         /\ pending'[n] = pending[n] \cup {b}
         /\ tasks'[n] = tasks[n] \cup (IF b \in pending[n] THEN {} ELSE {Task("vote", b, n)})
         /\ UNCHANGED <<round, step, qc, votes, processed, confirmed, requested, jobs, boots,
                        proposals, ballots, qcs>>
<1> DEFINE task == Task("vote", b, n)
<1>1. /\ seen' = [seen EXCEPT ![n] = seen[n] \cup {b}]
      /\ pending' = [pending EXCEPT ![n] = pending[n] \cup {b}]
      /\ tasks' = IF b \in pending[n] THEN tasks ELSE [tasks EXCEPT ![n] = tasks[n] \cup {task}]
      /\ UNCHANGED <<round, step, qc, votes, processed, confirmed, requested, jobs, boots,
                     proposals, ballots, qcs>>
  BY DEF ReceiveProposal
<1> HIDE DEF task
<1>2. Framed(seen, seen', n) /\ seen'[n] = seen[n] \cup {b}
  BY <1>1, SetOne, Zenon DEF Arrays
<1>3. Framed(pending, pending', n) /\ pending'[n] = pending[n] \cup {b}
  BY <1>1, SetOne, Zenon DEF Arrays
<1>4. /\ Framed(tasks, tasks', n)
      /\ tasks'[n] = tasks[n] \cup (IF b \in pending[n] THEN {} ELSE {task})
  BY <1>1, SetOne, Zenon DEF Arrays
<1>5. StepOf(n)
  BY <1>1, <1>2, <1>3, <1>4, SetOne, Zenon DEF Arrays, StepOf
<1> QED BY <1>1, <1>2, <1>3, <1>4, <1>5 DEF task

\* handle_velocity_vote.
LEMMA ReceiveVoteDoes ==
  ASSUME Arrays, NEW n \in Nodes, NEW voter, NEW b, ReceiveVote(n, voter, b)
  PROVE  /\ StepOf(n)
         /\ tasks'[n] = tasks[n] \cup {Task("store", b, voter)}
         /\ UNCHANGED <<round, step, qc, votes, processed, confirmed, pending, seen,
                        requested, jobs, boots, proposals, ballots, qcs>>
<1> DEFINE task == Task("store", b, voter)
<1>1. /\ tasks' = [tasks EXCEPT ![n] = tasks[n] \cup {task}]
      /\ UNCHANGED <<round, step, qc, votes, processed, confirmed, pending, seen,
                     requested, jobs, boots, proposals, ballots, qcs>>
  BY DEF ReceiveVote
<1> HIDE DEF task
<1>2. Framed(tasks, tasks', n) /\ tasks'[n] = tasks[n] \cup {task}
  BY <1>1, SetOne, Zenon DEF Arrays
<1>3. StepOf(n)
  BY <1>1, <1>2, SetOne, Zenon DEF Arrays, StepOf
<1> QED BY <1>1, <1>2, <1>3 DEF task

\* handle_new_quorum_certificate.
LEMMA ReceiveQCDoes ==
  ASSUME Arrays, NEW n \in Nodes, NEW cert, ReceiveQC(n, cert)
  PROVE  /\ StepOf(n)
         /\ qc'[n] = cert
         /\ requested'[n] \subseteq requested[n] \cup {cert.batch}
         /\ UNCHANGED <<round, step, votes, processed, confirmed, pending, seen, jobs, tasks,
                        boots, proposals, ballots, qcs>>
<1>1. /\ qc' = [qc EXCEPT ![n] = cert]
      /\ requested' = IF cert.batch \in pending[n] THEN requested
                      ELSE [requested EXCEPT ![n] = requested[n] \cup {cert.batch}]
      /\ UNCHANGED <<round, step, votes, processed, confirmed, pending, seen, jobs, tasks,
                     boots, proposals, ballots, qcs>>
  BY DEF ReceiveQC
<1>2. Framed(qc, qc', n) /\ qc'[n] = cert
  BY <1>1, SetOne, Zenon DEF Arrays
<1>3. /\ Framed(requested, requested', n)
      /\ requested'[n] \subseteq requested[n] \cup {cert.batch}
  BY <1>1, SetOne DEF Arrays
<1>4. StepOf(n)
  BY <1>1, <1>2, <1>3, SetOne, Zenon DEF Arrays, StepOf
<1> QED BY <1>1, <1>2, <1>3, <1>4

\* A restart.
LEMMA RestartDoes ==
  ASSUME Arrays, NEW n \in Nodes, Restart(n)
  PROVE  /\ StepOf(n)
         /\ boots'[n] = boots[n] + 1
         /\ round'[n] = 0 /\ step'[n] = 0 /\ qc'[n] = GenesisQC /\ votes'[n] = [b \in {} |-> {}]
         /\ processed'[n] = {} /\ confirmed'[n] = <<>> /\ pending'[n] = {} /\ seen'[n] = {}
         /\ requested'[n] = {} /\ jobs'[n] = {} /\ tasks'[n] = {}
         /\ UNCHANGED <<proposals, ballots, qcs>>
<1> DEFINE none == [b \in {} |-> {}]
<1>1. /\ boots' = [boots EXCEPT ![n] = boots[n] + 1]
      /\ round' = [round EXCEPT ![n] = 0] /\ step' = [step EXCEPT ![n] = 0]
      /\ qc' = [qc EXCEPT ![n] = GenesisQC] /\ votes' = [votes EXCEPT ![n] = none]
      /\ processed' = [processed EXCEPT ![n] = {}]
      /\ confirmed' = [confirmed EXCEPT ![n] = <<>>]
      /\ pending' = [pending EXCEPT ![n] = {}] /\ seen' = [seen EXCEPT ![n] = {}]
      /\ requested' = [requested EXCEPT ![n] = {}]
      /\ jobs' = [jobs EXCEPT ![n] = {}] /\ tasks' = [tasks EXCEPT ![n] = {}]
      /\ UNCHANGED <<proposals, ballots, qcs>>
  BY Zenon DEF Restart
<1> HIDE DEF none
<1>2. StepOf(n)
  BY <1>1, SetOne, Zenon DEF Arrays, StepOf
<1>3. /\ boots'[n] = boots[n] + 1
      /\ round'[n] = 0 /\ step'[n] = 0 /\ qc'[n] = GenesisQC /\ votes'[n] = none
  BY <1>1, SetOne, Zenon DEF Arrays
<1>4. /\ processed'[n] = {} /\ confirmed'[n] = <<>> /\ pending'[n] = {} /\ seen'[n] = {}
      /\ requested'[n] = {} /\ jobs'[n] = {} /\ tasks'[n] = {}
  BY <1>1, SetOne, ZenonT(40) DEF Arrays
<1> QED BY <1>1, <1>2, <1>3, <1>4 DEF none

-----------------------------------------------------------------------------
(***************************************************************************)
(* The other nodes                                                         *)
(***************************************************************************)

NodeInv(n) == OwnInv(n) /\ VoteInv(n) /\ HeldInv(n) /\ OnceInv(n) /\ NoticedInv(n)

\* Sequences over a set are sequences over a larger one.
LEMMA SeqGrows ==
  ASSUME NEW S, NEW T, S \subseteq T, NEW q \in Seq(S)
  PROVE  q \in Seq(T)
OBVIOUS

\* No votes are held for a batch that was not sent.
LEMMA NoVotesForOthers ==
  ASSUME NEW n, VotesType(n), NEW b, b \notin proposals
  PROVE  VotesFor(n, b) = {}
BY Zenon DEF VotesType, VotesFor

\* The types of a node stay when only messages are added.
LEMMA CoreKept ==
  ASSUME NEW n, CoreType(n), proposals \subseteq proposals', qcs \subseteq qcs',
         round'[n] = round[n], step'[n] = step[n], boots'[n] = boots[n], qc'[n] = qc[n],
         processed'[n] = processed[n], pending'[n] = pending[n], seen'[n] = seen[n],
         requested'[n] = requested[n], confirmed'[n] = confirmed[n]
  PROVE  CoreType(n)'
<1>1. confirmed'[n] \in Seq(proposals')
  <2>1. confirmed[n] \in Seq(proposals)
    BY Zenon DEF CoreType
  <2> QED BY <2>1, SeqGrows, Zenon
<1> QED BY <1>1, Zenon DEF CoreType

\* The same for its votes.
LEMMA VotesKept ==
  ASSUME NEW n, VotesType(n), proposals \subseteq proposals', votes'[n] = votes[n]
  PROVE  VotesType(n)'
<1>1. \A b : VotesFor(n, b)' = VotesFor(n, b)
  BY SameVotes, Zenon
<1>2. \A b : VotesFor(n, b) \subseteq Entries
  BY NoVotesForOthers, Zenon DEF VotesType
<1> QED BY <1>1, <1>2, Zenon DEF VotesType

\* The same for its jobs and tasks, to which good ones may be added.
LEMMA WorkKept ==
  ASSUME NEW n, WorkType(n), proposals \subseteq proposals',
         \A task \in tasks'[n] : task \in tasks[n] \/ task \in Tasks',
         \A job \in jobs'[n] : job \in jobs[n] \/ (job \in Jobs' /\ HasBatch(job)')
  PROVE  WorkType(n)'
<1>1. Tasks \subseteq Tasks'
  BY Zenon DEF Tasks
<1>2. Jobs \subseteq Jobs'
  BY Zenon DEF Jobs
<1>3. \A job \in jobs[n] : HasBatch(job)'
  BY Zenon DEF WorkType, HasBatch
<1> QED BY <1>1, <1>2, <1>3, Zenon DEF WorkType

\* A step of another node leaves the type of a node alone.
LEMMA OthersKeepType ==
  ASSUME NEW n \in Nodes, NEW m \in Nodes \ {n}, StepOf(n), NodeType(m)
  PROVE  NodeType(m)'
<1>1. /\ round'[m] = round[m] /\ step'[m] = step[m] /\ boots'[m] = boots[m]
      /\ qc'[m] = qc[m] /\ votes'[m] = votes[m] /\ processed'[m] = processed[m]
      /\ confirmed'[m] = confirmed[m] /\ pending'[m] = pending[m] /\ seen'[m] = seen[m]
      /\ requested'[m] = requested[m] /\ jobs'[m] = jobs[m] /\ tasks'[m] = tasks[m]
      /\ proposals \subseteq proposals' /\ qcs \subseteq qcs'
  BY Zenon DEF StepOf, Framed
<1>2. CoreType(m)'
  BY <1>1, CoreKept, Zenon DEF NodeType
<1>3. VotesType(m)'
  BY <1>1, VotesKept, Zenon DEF NodeType
<1>4. WorkType(m)'
  BY <1>1, WorkKept, Zenon DEF NodeType
<1> QED BY <1>2, <1>3, <1>4, Zenon DEF NodeType

\* It leaves the rest of the invariant alone too: batches and votes that are new have
\* the other node as their proposer or voter.
LEMMA OthersKeepInv ==
  ASSUME NEW n \in Nodes, NEW m \in Nodes \ {n}, StepOf(n), MessageType, NodeType(m),
         NodeInv(m)
  PROVE  NodeInv(m)'
<1>1. /\ round'[m] = round[m] /\ step'[m] = step[m] /\ boots'[m] = boots[m]
      /\ processed'[m] = processed[m] /\ confirmed'[m] = confirmed[m]
      /\ pending'[m] = pending[m] /\ jobs'[m] = jobs[m] /\ tasks'[m] = tasks[m]
      /\ proposals \subseteq proposals' /\ ballots \subseteq ballots'
      /\ \A b \in proposals' \ proposals : b.proposer = n
      /\ \A ballot \in ballots' \ ballots : ballot[1] = n
  BY Zenon DEF StepOf, Framed
<1>2. \A b : VotesFor(m, b)' = VotesFor(m, b)
  BY SameVotes, Zenon DEF StepOf, Framed
<1>3. OwnInv(m)'
  BY <1>1 DEF NodeInv, OwnInv, OwnBatches, OwnJob, Begun
<1>4. VoteInv(m)'
  <2>1. \A b \in proposals' : \A v \in VotesFor(m, b)' : b \in proposals
    BY <1>2, NoVotesForOthers, Zenon DEF NodeType
  <2>2. \A b \in proposals' : \A v \in VotesFor(m, b)' : VoteFrom(m, b, v)'
    BY <1>1, <1>2, <2>1, ZenonT(40) DEF NodeInv, VoteInv, VoteFrom
  <2>3. \A task \in tasks'[m] : TaskFrom(m, task)'
    BY <1>1, Zenon DEF NodeInv, VoteInv, TaskFrom
  <2>4. NotBoth(m)'
    <3>1. \A b : Follows(m, b)' = Follows(m, b)
      BY <1>1, <1>2 DEF Follows
    <3> QED BY <1>1, <3>1, Zenon DEF NodeInv, VoteInv, NotBoth
  <2> QED BY <2>2, <2>3, <2>4, Zenon DEF VoteInv
<1>5. HeldInv(m)'
  <2>1. \A b \in proposals' : <<m, b>> \in ballots' => <<m, b>> \in ballots
    BY <1>1
  <2>2. \A b : <<m, b>> \in ballots => b \in proposals
    BY Zenon DEF MessageType
  <2> QED BY <1>1, <2>1, <2>2, Zenon DEF NodeInv, HeldInv
<1>6. OnceInv(m)'
  BY <1>1, Zenon DEF NodeInv, OnceInv
<1>7. NoticedInv(m)'
  BY <1>1, <1>2, Zenon DEF NodeInv, NoticedInv, Counting, Over, Enough
<1> QED BY <1>3, <1>4, <1>5, <1>6, <1>7, Zenon DEF NodeInv

-----------------------------------------------------------------------------
(***************************************************************************)
(* Types                                                                   *)
(***************************************************************************)

\* The view of a certificate is the round of its batch.
LEMMA ViewIsRound ==
  ASSUME MessageType, NEW n, CoreType(n)
  PROVE  qc[n].view \in 0 .. MaxRound
<1>1. CASE qc[n] = GenesisQC
  BY <1>1, ConstantsAssumption DEF GenesisQC
<1>2. CASE qc[n] \in qcs
  <2>1. qc[n].view = qc[n].batch.round /\ IsBatch(qc[n].batch)
    BY <1>2, Zenon DEF MessageType
  <2> QED BY <2>1, ConstantsAssumption DEF IsBatch
<1> QED BY <1>1, <1>2, Zenon DEF CoreType

\* The driver starts a later step, of a proposer of the committee.
LEMMA DriverDoes ==
  ASSUME MessageType, NEW n \in Nodes, CoreType(n), Advance(n) \/ Timeout(n)
  PROVE  \E r \in 1 .. MaxRound, s \in 0 .. CommitteeSize - 1 :
           /\ StartStep(n, r, s)
           /\ r > round[n] \/ (r = round[n] /\ s > step[n])
<1>1. qc[n].view \in 0 .. MaxRound
  BY ViewIsRound, Zenon
<1>2. round[n] \in 0 .. MaxRound /\ step[n] \in 0 .. CommitteeSize - 1
  BY Zenon DEF CoreType
<1>3. CASE Advance(n)
  <2>1. qc[n].view >= round[n] /\ StartStep(n, qc[n].view + 1, 0)
    BY <1>3, Zenon DEF Advance
  <2>2. qc[n].view + 1 <= MaxRound
    BY <2>1, Zenon DEF StartStep
  <2> QED BY <1>1, <1>2, <2>1, <2>2, ConstantsAssumption
<1>4. CASE Timeout(n) /\ step[n] + 1 >= CommitteeSize
  <2>1. StartStep(n, round[n] + 1, 0)
    BY <1>4, Zenon DEF Timeout
  <2>2. round[n] + 1 <= MaxRound
    BY <2>1, Zenon DEF StartStep
  <2> QED BY <1>2, <2>1, <2>2, ConstantsAssumption
<1>5. CASE Timeout(n) /\ ~ (step[n] + 1 >= CommitteeSize)
  <2>1. StartStep(n, round[n], step[n] + 1) /\ qc[n].view < round[n]
    BY <1>5, Zenon DEF Timeout
  <2> QED BY <1>1, <1>2, <1>5, <2>1, ConstantsAssumption
<1> QED BY <1>3, <1>4, <1>5, Zenon

\* A step of the driver keeps the types.
LEMMA DriverType ==
  ASSUME TypeInv, NEW n \in Nodes, Advance(n) \/ Timeout(n)
  PROVE  StepOf(n) /\ MessageType' /\ NodeType(n)'
<1> DEFINE started(r, s) == Job("elect", r, s, Genesis)
<1>1. Arrays /\ MessageType /\ CoreType(n) /\ VotesType(n) /\ WorkType(n)
  BY Zenon DEF TypeInv, NodeType
<1>2. PICK r \in 1 .. MaxRound, s \in 0 .. CommitteeSize - 1 : StartStep(n, r, s)
  BY <1>1, DriverDoes, Zenon
<1>3. /\ StepOf(n)
      /\ round'[n] = r /\ step'[n] = s
      /\ jobs'[n] \subseteq jobs[n] \cup {started(r, s)}
      /\ UNCHANGED <<qc, votes, processed, confirmed, pending, seen, requested, tasks,
                     boots, proposals, ballots, qcs>>
  BY <1>1, <1>2, StartStepDoes, Zenon
<1>4. MessageType'
  BY <1>1, <1>3, Zenon DEF MessageType
<1>5. started(r, s) \in Jobs' /\ HasBatch(started(r, s))'
  BY Zenon DEF Job, Jobs, HasBatch
<1> HIDE DEF started
<1>6. CoreType(n)'
  BY <1>1, <1>3, ConstantsAssumption DEF CoreType
<1>7. VotesType(n)'
  BY <1>1, <1>3, VotesKept, Zenon
<1>8. WorkType(n)'
  BY <1>1, <1>3, <1>5, WorkKept, Zenon
<1> QED BY <1>3, <1>4, <1>6, <1>7, <1>8, Zenon DEF NodeType

\* Election keeps the types.
LEMMA ElectType ==
  ASSUME TypeInv, NEW n \in Nodes, NEW job \in jobs[n], Elect(n, job)
  PROVE  StepOf(n) /\ MessageType' /\ NodeType(n)'
<1> DEFINE moved == [job EXCEPT !.at = "propose"]
<1>1. Arrays /\ MessageType /\ CoreType(n) /\ VotesType(n) /\ WorkType(n)
  BY Zenon DEF TypeInv, NodeType
<1>2. /\ StepOf(n)
      /\ \E next \in SUBSET {moved} : jobs'[n] = (jobs[n] \ {job}) \cup next
      /\ UNCHANGED <<round, step, qc, votes, processed, confirmed, pending, seen,
                     requested, tasks, boots, proposals, ballots, qcs>>
  BY <1>1, ElectDoes, Zenon
<1>3. MessageType'
  BY <1>1, <1>2, Zenon DEF MessageType
<1>4. moved \in Jobs' /\ HasBatch(moved)'
  <2>1. job \in Jobs
    BY <1>1, Zenon DEF WorkType
  <2> QED BY <1>2, <2>1, Zenon DEF Jobs, HasBatch
<1> HIDE DEF moved
<1>5. CoreType(n)' /\ VotesType(n)'
  BY <1>1, <1>2, CoreKept, VotesKept, Zenon
<1>6. WorkType(n)'
  BY <1>1, <1>2, <1>4, WorkKept, Zenon
<1> QED BY <1>2, <1>3, <1>5, <1>6, Zenon DEF NodeType

\* The batch that a leader makes is one.
LEMMA NewBatchType ==
  ASSUME MessageType, NEW n \in Nodes, CoreType(n),
         NEW r \in 1 .. MaxRound, NEW s \in 0 .. CommitteeSize - 1
  PROVE  LET b == NewBatch(n, r, s)
         IN IsBatch(b) /\ b.proposer = n /\ b.boot = boots[n] /\ b.round = r /\ b.step = s
<1> DEFINE last == confirmed[n][Len(confirmed[n])]
           index == IF confirmed[n] = <<>> THEN 1 ELSE last.index + 1
           prev == IF confirmed[n] = <<>> THEN Genesis ELSE last
<1>1. index \in Nat \ {0}
  <2>1. CASE confirmed[n] # <<>>
    <3>1. last \in proposals
      BY <2>1 DEF CoreType
    <3>2. last.index \in Nat
      BY <3>1, Zenon DEF MessageType, IsBatch
    <3> QED BY <2>1, <3>2
  <2> QED BY <2>1
<1>2. NewBatch(n, r, s) = [proposer |-> n, boot |-> boots[n], round |-> r, step |-> s,
                           index |-> index, prev |-> prev]
  BY Zenon DEF NewBatch
<1>3. boots[n] \in Nat
  BY Zenon DEF CoreType
<1> HIDE DEF index, prev
<1> QED BY <1>1, <1>2, <1>3 DEF IsBatch

\* A proposal keeps the types.
LEMMA ProposeType ==
  ASSUME TypeInv, NEW n \in Nodes, NEW job \in jobs[n], Propose(n, job)
  PROVE  StepOf(n) /\ MessageType' /\ NodeType(n)'
<1> DEFINE moved(b) == [job EXCEPT !.at = "vote", !.batch = b]
<1>1. Arrays /\ MessageType /\ CoreType(n) /\ VotesType(n) /\ WorkType(n)
  BY Zenon DEF TypeInv, NodeType
<1>2. PICK b :
        /\ b = NewBatch(n, job.round, job.step)
        /\ StepOf(n)
        /\ pending'[n] = pending[n] \cup {b}
        /\ proposals' = proposals \cup {b}
        /\ jobs'[n] = (jobs[n] \ {job}) \cup {moved(b)}
        /\ UNCHANGED <<round, step, qc, votes, processed, confirmed, seen, requested,
                       tasks, boots, ballots, qcs>>
  BY <1>1, ProposeDoes, Zenon
<1>3. job \in Jobs
  BY <1>1, Zenon DEF WorkType
<1>4. IsBatch(b)
  BY <1>1, <1>2, <1>3, NewBatchType, Zenon DEF Jobs
<1>5. moved(b) \in Jobs' /\ HasBatch(moved(b))'
  BY <1>2, <1>3, Zenon DEF Jobs, HasBatch
<1> HIDE DEF moved
<1>6. MessageType'
  BY <1>1, <1>2, <1>4, Zenon DEF MessageType, IsBatch
<1>7. CoreType(n)'
  <2>1. confirmed'[n] \in Seq(proposals')
    <3>1. confirmed[n] \in Seq(proposals)
      BY <1>1, Zenon DEF CoreType
    <3> QED BY <1>2, <3>1, SeqGrows, Zenon
  <2> QED BY <1>1, <1>2, <2>1, Zenon DEF CoreType
<1>8. VotesType(n)'
  BY <1>1, <1>2, VotesKept, Zenon
<1>9. WorkType(n)'
  BY <1>1, <1>2, <1>5, WorkKept, Zenon
<1> QED BY <1>2, <1>6, <1>7, <1>8, <1>9, Zenon DEF NodeType

\* A vote that is pushed has the type of one.
LEMMA PushType ==
  ASSUME Arrays, NEW n \in Nodes, VotesType(n), UNCHANGED proposals, NEW b \in proposals,
         NEW voter \in Nodes, NEW via \in {"proposer", "follower", "gossip"},
         Push(n, b, voter, via)
  PROVE  VotesType(n)'
BY PushDoes DEF VotesType, Entries

\* The proposer's vote keeps the types.
LEMMA VoteForOwnType ==
  ASSUME TypeInv, NEW n \in Nodes, NEW job \in jobs[n], VoteForOwn(n, job)
  PROVE  StepOf(n) /\ MessageType' /\ NodeType(n)'
<1> DEFINE moved == [job EXCEPT !.at = "count"]
<1>1. Arrays /\ MessageType /\ CoreType(n) /\ VotesType(n) /\ WorkType(n)
  BY Zenon DEF TypeInv, NodeType
<1>2. /\ StepOf(n)
      /\ Push(n, job.batch, n, "proposer")
      /\ jobs'[n] = (jobs[n] \ {job}) \cup {moved}
      /\ UNCHANGED <<round, step, qc, processed, confirmed, pending, seen, requested,
                     tasks, boots, proposals, ballots, qcs>>
  BY <1>1, VoteForOwnDoes, Zenon
<1>3. job \in Jobs /\ job.batch \in proposals
  BY <1>1, Zenon DEF WorkType, HasBatch, VoteForOwn
<1>4. moved \in Jobs' /\ HasBatch(moved)'
  BY <1>2, <1>3, Zenon DEF Jobs, HasBatch
<1> HIDE DEF moved
<1>5. MessageType'
  BY <1>1, <1>2, Zenon DEF MessageType
<1>6. VotesType(n)'
  BY <1>1, <1>2, <1>3, PushType, Zenon
<1>7. CoreType(n)'
  BY <1>1, <1>2, CoreKept, Zenon
<1>8. WorkType(n)'
  BY <1>1, <1>2, <1>4, WorkKept, Zenon
<1> QED BY <1>2, <1>5, <1>6, <1>7, <1>8, Zenon DEF NodeType

\* A follower's vote keeps the types.
LEMMA CastVoteType ==
  ASSUME TypeInv, NEW n \in Nodes, NEW task \in tasks[n], CastVote(n, task)
  PROVE  StepOf(n) /\ MessageType' /\ NodeType(n)'
<1> DEFINE moved == [task EXCEPT !.at = "count"]
<1>1. Arrays /\ MessageType /\ CoreType(n) /\ VotesType(n) /\ WorkType(n)
  BY Zenon DEF TypeInv, NodeType
<1>2. /\ StepOf(n)
      /\ Push(n, task.batch, n, "follower")
      /\ ballots' = ballots \cup {<<n, task.batch>>}
      /\ tasks'[n] = (tasks[n] \ {task}) \cup {moved}
      /\ UNCHANGED <<round, step, qc, processed, confirmed, pending, seen, requested,
                     jobs, boots, proposals, qcs>>
  BY <1>1, CastVoteDoes, Zenon
<1>3. task \in Tasks /\ task.batch \in proposals
  BY <1>1, Zenon DEF WorkType, Tasks
<1>4. moved \in Tasks'
  BY <1>2, <1>3, Zenon DEF Tasks
<1> HIDE DEF moved
<1>5. MessageType'
  BY <1>1, <1>2, <1>3 DEF MessageType
<1>6. VotesType(n)'
  BY <1>1, <1>2, <1>3, PushType, Zenon
<1>7. CoreType(n)'
  BY <1>1, <1>2, CoreKept, Zenon
<1>8. WorkType(n)'
  BY <1>1, <1>2, <1>4, WorkKept, Zenon
<1> QED BY <1>2, <1>5, <1>6, <1>7, <1>8, Zenon DEF NodeType

\* A vote that has arrived keeps the types.
LEMMA StoreVoteType ==
  ASSUME TypeInv, NEW n \in Nodes, NEW task \in tasks[n], StoreVote(n, task)
  PROVE  StepOf(n) /\ MessageType' /\ NodeType(n)'
<1> DEFINE moved == [task EXCEPT !.at = "count", !.voter = n]
<1>1. Arrays /\ MessageType /\ CoreType(n) /\ VotesType(n) /\ WorkType(n)
  BY Zenon DEF TypeInv, NodeType
<1>2. /\ StepOf(n)
      /\ UNCHANGED votes \/ Push(n, task.batch, task.voter, "gossip")
      /\ tasks'[n] = (tasks[n] \ {task}) \cup {moved}
      /\ UNCHANGED <<round, step, qc, processed, confirmed, pending, seen, requested,
                     jobs, boots, proposals, ballots, qcs>>
  BY <1>1, StoreVoteDoes, Zenon
<1>3. task \in Tasks /\ task.batch \in proposals /\ task.voter \in Nodes
  BY <1>1, Zenon DEF WorkType, Tasks
<1>4. moved \in Tasks'
  BY <1>2, <1>3, ZenonT(40) DEF Tasks
<1> HIDE DEF moved
<1>5. MessageType'
  BY <1>1, <1>2, Zenon DEF MessageType
<1>6. VotesType(n)'
  <2>1. CASE UNCHANGED votes
    BY <1>1, <1>2, <2>1, VotesKept, Zenon
  <2>2. CASE Push(n, task.batch, task.voter, "gossip")
    BY <1>1, <1>2, <2>2, <1>3, PushType, Zenon
  <2> QED BY <1>2, <2>1, <2>2, Zenon
<1>7. CoreType(n)'
  BY <1>1, <1>2, CoreKept, Zenon
<1>8. WorkType(n)'
  BY <1>1, <1>2, <1>4, WorkKept, Zenon
<1> QED BY <1>2, <1>5, <1>6, <1>7, <1>8, Zenon DEF NodeType

\* Counting votes keeps the types.
LEMMA CountedType ==
  ASSUME Arrays, MessageType, NEW n \in Nodes, CoreType(n), VotesType(n), NEW b \in proposals,
         Counted(n, b),
         UNCHANGED <<round, step, pending, seen, requested, boots, proposals, ballots>>
  PROVE  MessageType' /\ CoreType(n)' /\ VotesType(n)'
<1>1. CASE UNCHANGED <<processed, confirmed, qc, qcs, votes>>
  <2>1. MessageType'
    BY <1>1, Zenon DEF MessageType
  <2> QED BY <1>1, <2>1, CoreKept, VotesKept, Zenon
<1>2. CASE Confirm(n, b)
  <2> DEFINE cert == CertOf(n, b)
  <2>1. /\ processed'[n] = processed[n] \cup {b}
        /\ confirmed'[n] = Prune(Append(confirmed[n], b))
        /\ qc'[n] \in {cert, qc[n]}
        /\ qcs' = qcs \cup {cert}
        /\ DOMAIN votes'[n] \subseteq DOMAIN votes[n]
        /\ \A x : VotesFor(n, x)' \subseteq VotesFor(n, x)
    BY <1>2, ConfirmDoes
  <2>2. cert.signers \subseteq Nodes
    BY Zenon DEF VotesType, Entries, Voters, CertOf
  <2>3. cert.batch = b /\ cert.view = b.round
    BY Zenon DEF CertOf
  <2> HIDE DEF cert
  <2>4. MessageType'
    BY <2>1, <2>2, <2>3, Zenon DEF MessageType
  <2>5. confirmed[n] \in Seq(proposals)
    BY Zenon DEF CoreType
  <2>6. Append(confirmed[n], b) \in Seq(proposals)
    BY <2>5
  <2>7. confirmed'[n] \in Seq(proposals)
    BY <2>1, <2>6, PruneKeepsEnd, Zenon
  <2>8. CoreType(n)'
    BY <2>1, <2>7, Zenon DEF CoreType
  <2>9. VotesType(n)'
    BY <2>1, Zenon DEF VotesType
  <2> QED BY <2>4, <2>8, <2>9, Zenon
<1> QED BY <1>1, <1>2, Zenon DEF Counted

\* A task that counts keeps the types.
LEMMA CountType ==
  ASSUME TypeInv, NEW n \in Nodes, NEW task \in tasks[n], Count(n, task)
  PROVE  StepOf(n) /\ MessageType' /\ NodeType(n)'
<1> DEFINE moved == [task EXCEPT !.at = "prune"]
<1>1. Arrays /\ MessageType /\ CoreType(n) /\ VotesType(n) /\ WorkType(n)
  BY Zenon DEF TypeInv, NodeType
<1>2. /\ StepOf(n)
      /\ Counted(n, task.batch)
      /\ \E next \in SUBSET {moved} : tasks'[n] = (tasks[n] \ {task}) \cup next
      /\ UNCHANGED <<round, step, pending, seen, requested, jobs, boots, proposals, ballots>>
  BY <1>1, CountDoes, Zenon
<1>3. task \in Tasks /\ task.batch \in proposals
  BY <1>1, Zenon DEF WorkType, Tasks
<1>4. moved \in Tasks'
  BY <1>2, <1>3, Zenon DEF Tasks
<1> HIDE DEF moved
<1>5. MessageType' /\ CoreType(n)' /\ VotesType(n)'
  BY <1>1, <1>2, <1>3, CountedType, Zenon
<1>6. WorkType(n)'
  BY <1>1, <1>2, <1>4, WorkKept, Zenon
<1> QED BY <1>2, <1>5, <1>6, Zenon DEF NodeType

\* A proposer that counts keeps the types.
LEMMA CountOwnType ==
  ASSUME TypeInv, NEW n \in Nodes, NEW job \in jobs[n], CountOwn(n, job)
  PROVE  StepOf(n) /\ MessageType' /\ NodeType(n)'
<1> DEFINE moved == [job EXCEPT !.at = "prune"]
<1>1. Arrays /\ MessageType /\ CoreType(n) /\ VotesType(n) /\ WorkType(n)
  BY Zenon DEF TypeInv, NodeType
<1>2. /\ StepOf(n)
      /\ Counted(n, job.batch)
      /\ \E next \in SUBSET {moved} : jobs'[n] = (jobs[n] \ {job}) \cup next
      /\ UNCHANGED <<round, step, pending, seen, requested, tasks, boots, proposals, ballots>>
  BY <1>1, CountOwnDoes, Zenon
<1>3. job \in Jobs /\ job.batch \in proposals
  BY <1>1, Zenon DEF WorkType, HasBatch, CountOwn
<1>4. moved \in Jobs' /\ HasBatch(moved)'
  BY <1>2, <1>3, Zenon DEF Jobs, HasBatch
<1> HIDE DEF moved
<1>5. MessageType' /\ CoreType(n)' /\ VotesType(n)'
  BY <1>1, <1>2, <1>3, CountedType, Zenon
<1>6. WorkType(n)'
  BY <1>1, <1>2, <1>4, WorkKept, Zenon
<1> QED BY <1>2, <1>5, <1>6, Zenon DEF NodeType

\* prune_confirmed_proposals keeps the types.
LEMMA PruneProposalsType ==
  ASSUME TypeInv, NEW n \in Nodes, PruneProposals(n)
  PROVE  StepOf(n) /\ MessageType' /\ NodeType(n)'
<1>1. Arrays /\ MessageType /\ CoreType(n) /\ VotesType(n) /\ WorkType(n)
  BY Zenon DEF TypeInv, NodeType
<1>2. /\ StepOf(n)
      /\ pending'[n] = pending[n] \ processed[n]
      /\ tasks'[n] \subseteq tasks[n] /\ jobs'[n] \subseteq jobs[n]
      /\ UNCHANGED <<round, step, qc, votes, processed, confirmed, seen, requested,
                     boots, proposals, ballots, qcs>>
  BY <1>1, PruneProposalsDoes, Zenon
<1>3. MessageType'
  BY <1>1, <1>2, Zenon DEF MessageType
<1>4. CoreType(n)'
  BY <1>1, <1>2, Zenon DEF CoreType
<1>5. VotesType(n)'
  BY <1>1, <1>2, VotesKept, Zenon
<1>6. WorkType(n)'
  BY <1>1, <1>2, WorkKept, Zenon
<1> QED BY <1>2, <1>3, <1>4, <1>5, <1>6, Zenon DEF NodeType

\* Messages that arrive keep the types.
LEMMA DeliverType ==
  ASSUME TypeInv, NEW n \in Nodes, Deliver(n)
  PROVE  StepOf(n) /\ MessageType' /\ NodeType(n)'
<1>1. Arrays /\ MessageType /\ CoreType(n) /\ VotesType(n) /\ WorkType(n)
  BY Zenon DEF TypeInv, NodeType
<1>2. ASSUME NEW b \in proposals, ReceiveProposal(n, b)
      PROVE  StepOf(n) /\ MessageType' /\ NodeType(n)'
  <2> DEFINE new == Task("vote", b, n)
  <2>1. /\ StepOf(n)
        /\ seen'[n] = seen[n] \cup {b}
        /\ pending'[n] = pending[n] \cup {b}
        /\ tasks'[n] = tasks[n] \cup (IF b \in pending[n] THEN {} ELSE {new})
        /\ UNCHANGED <<round, step, qc, votes, processed, confirmed, requested, jobs, boots,
                       proposals, ballots, qcs>>
    BY <1>1, <1>2, ReceiveProposalDoes, ZenonT(40)
  <2>2. new \in Tasks'
    BY <2>1, Zenon DEF Task, Tasks
  <2> HIDE DEF new
  <2>3. MessageType'
    BY <1>1, <2>1, Zenon DEF MessageType
  <2>4. CoreType(n)'
    BY <1>1, <2>1, ZenonT(40) DEF CoreType
  <2>5. VotesType(n)'
    BY <1>1, <2>1, VotesKept, Zenon
  <2>6. WorkType(n)'
    BY <1>1, <2>1, <2>2, WorkKept, Zenon
  <2> QED BY <2>1, <2>3, <2>4, <2>5, <2>6, Zenon DEF NodeType
<1>3. ASSUME NEW ballot \in ballots, ReceiveVote(n, ballot[1], ballot[2])
      PROVE  StepOf(n) /\ MessageType' /\ NodeType(n)'
  <2> DEFINE new == Task("store", ballot[2], ballot[1])
  <2>1. /\ StepOf(n)
        /\ tasks'[n] = tasks[n] \cup {new}
        /\ UNCHANGED <<round, step, qc, votes, processed, confirmed, pending, seen,
                       requested, jobs, boots, proposals, ballots, qcs>>
    BY <1>1, <1>3, ReceiveVoteDoes, Zenon
  <2>2. new \in Tasks'
    <3>1. ballot[1] \in Nodes /\ ballot[2] \in proposals
      BY <1>1, Zenon DEF MessageType
    <3> QED BY <2>1, <3>1, Zenon DEF Task, Tasks
  <2> HIDE DEF new
  <2>3. MessageType'
    BY <1>1, <2>1, Zenon DEF MessageType
  <2>4. CoreType(n)'
    BY <1>1, <2>1, CoreKept, Zenon
  <2>5. VotesType(n)'
    BY <1>1, <2>1, VotesKept, Zenon
  <2>6. WorkType(n)'
    BY <1>1, <2>1, <2>2, WorkKept, Zenon
  <2> QED BY <2>1, <2>3, <2>4, <2>5, <2>6, Zenon DEF NodeType
<1>4. ASSUME NEW cert \in qcs, ReceiveQC(n, cert)
      PROVE  StepOf(n) /\ MessageType' /\ NodeType(n)'
  <2>1. /\ StepOf(n)
        /\ qc'[n] = cert
        /\ requested'[n] \subseteq requested[n] \cup {cert.batch}
        /\ UNCHANGED <<round, step, votes, processed, confirmed, pending, seen, jobs, tasks,
                       boots, proposals, ballots, qcs>>
    BY <1>1, <1>4, ReceiveQCDoes, Zenon
  <2>2. cert.batch \in proposals
    BY <1>1, Zenon DEF MessageType
  <2>3. MessageType'
    BY <1>1, <2>1, Zenon DEF MessageType
  <2>4. CoreType(n)'
    BY <1>1, <2>1, <2>2, Zenon DEF CoreType
  <2>5. VotesType(n)'
    BY <1>1, <2>1, VotesKept, Zenon
  <2>6. WorkType(n)'
    BY <1>1, <2>1, WorkKept, Zenon
  <2> QED BY <2>1, <2>3, <2>4, <2>5, <2>6, Zenon DEF NodeType
<1> QED BY <1>2, <1>3, <1>4, Zenon DEF Deliver

\* A restart keeps the types.
LEMMA RestartType ==
  ASSUME TypeInv, NEW n \in Nodes, Restart(n)
  PROVE  StepOf(n) /\ MessageType' /\ NodeType(n)'
<1>1. Arrays /\ MessageType /\ CoreType(n)
  BY Zenon DEF TypeInv, NodeType
<1>2. /\ StepOf(n)
      /\ boots'[n] = boots[n] + 1
      /\ round'[n] = 0 /\ step'[n] = 0 /\ qc'[n] = GenesisQC /\ votes'[n] = [b \in {} |-> {}]
      /\ processed'[n] = {} /\ confirmed'[n] = <<>> /\ pending'[n] = {} /\ seen'[n] = {}
      /\ requested'[n] = {} /\ jobs'[n] = {} /\ tasks'[n] = {}
      /\ UNCHANGED <<proposals, ballots, qcs>>
  BY <1>1, RestartDoes, ZenonT(40)
<1>3. MessageType'
  BY <1>1, <1>2, Zenon DEF MessageType
<1>4. VotesType(n)'
  BY <1>2, Zenon DEF VotesType, VotesFor
<1>5. boots'[n] \in Nat /\ confirmed'[n] \in Seq(proposals')
  <2>1. boots[n] \in Nat
    BY <1>1, Zenon DEF CoreType
  <2>2. boots'[n] = boots[n] + 1 /\ confirmed'[n] = <<>>
    BY <1>2, Zenon
  <2> QED BY <2>1, <2>2
<1>6. CoreType(n)'
  BY <1>2, <1>5, ConstantsAssumption DEF CoreType
<1>7. WorkType(n)'
  BY <1>2, Zenon DEF WorkType
<1> QED BY <1>2, <1>3, <1>4, <1>6, <1>7, Zenon DEF NodeType

\* A step of a node changes only its state and keeps the types.
LEMMA StepIsOf ==
  ASSUME TypeInv, NEW n \in Nodes,
         Advance(n) \/ Timeout(n) \/ Work(n) \/ Deliver(n) \/ Restart(n)
  PROVE  StepOf(n) /\ MessageType' /\ NodeType(n)'
<1>1. CASE Advance(n) \/ Timeout(n)
  BY <1>1, DriverType, Zenon
<1>2. CASE Deliver(n)
  BY <1>2, DeliverType, Zenon
<1>3. CASE Restart(n)
  BY <1>3, RestartType, Zenon
<1>4. CASE PruneProposals(n)
  BY <1>4, PruneProposalsType, Zenon
<1>5. ASSUME NEW job \in jobs[n],
             Elect(n, job) \/ Propose(n, job) \/ VoteForOwn(n, job) \/ CountOwn(n, job)
      PROVE  StepOf(n) /\ MessageType' /\ NodeType(n)'
  BY <1>5, ElectType, ProposeType, VoteForOwnType, CountOwnType, Zenon
<1>6. ASSUME NEW task \in tasks[n], CastVote(n, task) \/ StoreVote(n, task) \/ Count(n, task)
      PROVE  StepOf(n) /\ MessageType' /\ NodeType(n)'
  BY <1>6, CastVoteType, StoreVoteType, CountType, Zenon
<1> QED BY <1>1, <1>2, <1>3, <1>4, <1>5, <1>6, Zenon DEF Work

\* Every step keeps the types.
LEMMA TypeStep ==
  ASSUME TypeInv, Next
  PROVE  TypeInv'
<1>1. PICK n \in Nodes : Advance(n) \/ Timeout(n) \/ Work(n) \/ Deliver(n) \/ Restart(n)
  BY Zenon DEF Next
<1>2. StepOf(n) /\ MessageType' /\ NodeType(n)'
  BY <1>1, StepIsOf, Zenon
<1>3. Arrays'
  BY <1>2, Zenon DEF StepOf, Framed, Arrays
<1>4. \A m \in Nodes : NodeType(m)'
  BY <1>2, OthersKeepType, Zenon DEF TypeInv
<1> QED BY <1>2, <1>3, <1>4, Zenon DEF TypeInv

\* Nothing changes.
LEMMA TypeStutter ==
  ASSUME TypeInv, UNCHANGED vars
  PROVE  TypeInv'
<1>1. Arrays' /\ MessageType'
  BY Zenon DEF TypeInv, vars, local, Arrays, MessageType
<1>2. \A n \in Nodes : NodeType(n)'
  BY Zenon DEF TypeInv, vars, local, NodeType, CoreType, VotesType, WorkType, HasBatch, VotesFor,
     Tasks, Jobs
<1> QED BY <1>1, <1>2, Zenon DEF TypeInv

\* The initial state has the types.
LEMMA TypeInit ==
  ASSUME Init
  PROVE  TypeInv
<1>1. Arrays
  BY Zenon DEF Init, Arrays, IsArray
<1>2. MessageType
  BY Zenon DEF Init, MessageType
<1>3. ASSUME NEW n \in Nodes PROVE NodeType(n)
  <2>1. CoreType(n)
    BY ConstantsAssumption DEF Init, CoreType
  <2>2. VotesType(n)
    BY Zenon DEF Init, VotesType, VotesFor
  <2>3. WorkType(n)
    BY Zenon DEF Init, WorkType
  <2> QED BY <2>1, <2>2, <2>3, Zenon DEF NodeType
<1> QED BY <1>1, <1>2, <1>3, Zenon DEF TypeInv

\* The type invariant TypeInv gives TypeOK.
LEMMA TypeInvIsType ==
  ASSUME TypeInv
  PROVE  TypeOK
<1>1. /\ round \in [Nodes -> 0 .. MaxRound]
      /\ step \in [Nodes -> 0 .. CommitteeSize - 1]
      /\ boots \in [Nodes -> Nat]
      /\ qc \in [Nodes -> qcs \cup {GenesisQC}]
  BY Zenon DEF TypeInv, Arrays, IsArray, NodeType, CoreType
<1>2. /\ processed \in [Nodes -> SUBSET proposals]
      /\ pending \in [Nodes -> SUBSET proposals]
      /\ seen \in [Nodes -> SUBSET proposals]
      /\ requested \in [Nodes -> SUBSET proposals]
  BY Zenon DEF TypeInv, Arrays, IsArray, NodeType, CoreType
<1>3. confirmed \in [Nodes -> Seq(proposals)]
  BY Zenon DEF TypeInv, Arrays, IsArray, NodeType, CoreType
<1>4. ASSUME NEW n \in Nodes
      PROVE  /\ DOMAIN votes[n] \subseteq proposals
             /\ \A b \in DOMAIN votes[n] : votes[n][b] \subseteq Entries
             /\ \A task \in tasks[n] : task.batch \in proposals
             /\ \A job \in jobs[n] :
                  job.at \in {"vote", "count", "prune"} => job.batch \in proposals
  BY Zenon DEF TypeInv, NodeType, VotesType, WorkType, HasBatch, VotesFor, Tasks
<1>5. MessageType
  BY Zenon DEF TypeInv
<1> QED BY <1>1, <1>2, <1>3, <1>4, <1>5, Zenon DEF TypeOK, MessageType

\* The fields of ConsensusState and the messages always have the values of TypeOK.
THEOREM ConsensusTypeOK == Spec => []TypeOK
<1>1. Init => TypeInv
  BY TypeInit, Zenon
<1>2. TypeInv /\ [Next]_vars => TypeInv'
  BY TypeStep, TypeStutter, Zenon
<1>3. TypeInv => TypeOK
  BY TypeInvIsType, Zenon
<1> QED BY <1>1, <1>2, <1>3, PTL DEF Spec

-----------------------------------------------------------------------------
(***************************************************************************)
(* Nodes move forward                                                      *)
(***************************************************************************)

\* What the types give.
LEMMA TypeParts ==
  ASSUME TypeInv, NEW n \in Nodes
  PROVE  /\ Arrays /\ MessageType /\ CoreType(n) /\ VotesType(n) /\ WorkType(n)
         /\ boots[n] \in Nat /\ round[n] \in Nat /\ step[n] \in Nat
BY DEF TypeInv, NodeType, CoreType

\* The highest certificate of the node that takes a step, and what it has processed.
LEMMA CertificatesGrow ==
  ASSUME TypeInv, NEW n \in Nodes, Work(n) \/ Deliver(n)
  PROVE  /\ round'[n] = round[n] /\ step'[n] = step[n]
         /\ qc'[n].view >= qc[n].view
         /\ processed[n] \subseteq processed'[n]
<1>1. Arrays /\ MessageType /\ CoreType(n) /\ WorkType(n)
  BY TypeParts, Zenon
<1>2. qc[n].view \in Nat
  BY <1>1, ViewIsRound, ConstantsAssumption
<1>3. ASSUME NEW b \in proposals, Counted(n, b), UNCHANGED <<round, step>>
      PROVE  /\ round'[n] = round[n] /\ step'[n] = step[n]
             /\ qc'[n].view >= qc[n].view
             /\ processed[n] \subseteq processed'[n]
  <2>1. CASE Confirm(n, b)
    <3>1. /\ qc'[n] = IF CertOf(n, b).view > qc[n].view THEN CertOf(n, b) ELSE qc[n]
          /\ processed'[n] = processed[n] \cup {b}
      BY <1>1, <2>1, ConfirmDoes, ZenonT(40)
    <3>2. qc'[n].view >= qc[n].view
      <4>1. CASE CertOf(n, b).view > qc[n].view
        <5>1. CertOf(n, b).view \in Nat
          BY <1>1 DEF CertOf, MessageType, IsBatch
        <5> QED BY <1>2, <3>1, <4>1, <5>1
      <4>2. CASE ~ (CertOf(n, b).view > qc[n].view)
        BY <1>2, <3>1, <4>2
      <4> QED BY <4>1, <4>2, Zenon
    <3> QED BY <1>3, <3>1, <3>2, Zenon
  <2>2. CASE UNCHANGED <<processed, confirmed, qc, qcs, votes>>
    BY <1>2, <1>3, <2>2
  <2> QED BY <1>3, <2>1, <2>2, Zenon DEF Counted
<1>4. ASSUME UNCHANGED <<round, step, qc, processed>>
      PROVE  /\ round'[n] = round[n] /\ step'[n] = step[n]
             /\ qc'[n].view >= qc[n].view
             /\ processed[n] \subseteq processed'[n]
  BY <1>2, <1>4
<1>5. ASSUME NEW job \in jobs[n], Elect(n, job) \/ Propose(n, job) \/ VoteForOwn(n, job)
      PROVE  UNCHANGED <<round, step, qc, processed>>
  BY <1>5, Zenon DEF Elect, Propose, VoteForOwn
<1>6. ASSUME NEW task \in tasks[n], CastVote(n, task) \/ StoreVote(n, task)
      PROVE  UNCHANGED <<round, step, qc, processed>>
  BY <1>6, Zenon DEF CastVote, StoreVote
<1>7. PruneProposals(n) => UNCHANGED <<round, step, qc, processed>>
  BY Zenon DEF PruneProposals
<1>8. ASSUME NEW job \in jobs[n], CountOwn(n, job)
      PROVE  job.batch \in proposals /\ Counted(n, job.batch) /\ UNCHANGED <<round, step>>
  <2>1. job.batch \in proposals
    BY <1>1, <1>8, Zenon DEF CountOwn, WorkType, HasBatch
  <2> QED BY <1>1, <1>8, <2>1, CountOwnDoes, Zenon
<1>9. ASSUME NEW task \in tasks[n], Count(n, task)
      PROVE  task.batch \in proposals /\ Counted(n, task.batch) /\ UNCHANGED <<round, step>>
  <2>1. task.batch \in proposals
    BY <1>1, Zenon DEF WorkType, Tasks
  <2> QED BY <1>1, <1>9, <2>1, CountDoes, Zenon
<1>10. ASSUME NEW cert \in qcs, ReceiveQC(n, cert)
       PROVE  /\ UNCHANGED <<round, step, processed>>
              /\ qc'[n].view >= qc[n].view
  <2>1. qc'[n] = cert /\ UNCHANGED <<round, step, processed>>
    BY <1>1, <1>10, ReceiveQCDoes, Zenon
  <2>2. cert.view > qc[n].view /\ cert.view \in Nat
    <3>1. cert.view > qc[n].view
      BY <1>10, Zenon DEF ReceiveQC
    <3>2. cert.view \in 1 .. MaxRound
      BY <1>1, Zenon DEF MessageType, IsBatch
    <3> QED BY <3>1, <3>2
  <2> QED BY <1>2, <2>1, <2>2
<1>11. ASSUME NEW x, NEW y, ReceiveProposal(n, x) \/ ReceiveVote(n, x, y)
       PROVE  UNCHANGED <<round, step, qc, processed>>
  BY <1>11, Zenon DEF ReceiveProposal, ReceiveVote
<1>12. CASE Work(n)
  BY <1>3, <1>4, <1>5, <1>6, <1>7, <1>8, <1>9, <1>12, ZenonT(40) DEF Work
<1>13. CASE Deliver(n)
  BY <1>4, <1>10, <1>11, <1>13, Zenon DEF Deliver
<1> QED BY <1>12, <1>13, Zenon

\* Tasks and jobs start no step.
LEMMA WorkStartsNothing ==
  ASSUME TypeInv, NEW n \in Nodes, Work(n) \/ Deliver(n)
  PROVE  Started(n)' \subseteq Started(n)
<1>1. Arrays /\ WorkType(n)
  BY TypeParts, Zenon
<1>2. ASSUME NEW job \in jobs[n], NEW moved, moved.at # "elect",
             jobs'[n] \subseteq (jobs[n] \ {job}) \cup {moved}
      PROVE  Started(n)' \subseteq Started(n)
  BY <1>2 DEF Started
<1>3. jobs'[n] \subseteq jobs[n] => Started(n)' \subseteq Started(n)
  BY DEF Started
<1>4. ASSUME NEW job \in jobs[n], NEW at \in {"propose", "count", "prune"}
      PROVE  [job EXCEPT !.at = at].at # "elect"
  BY <1>1, <1>4 DEF WorkType, Jobs
<1>5. ASSUME NEW job \in jobs[n], NEW b
      PROVE  [job EXCEPT !.at = "vote", !.batch = b].at # "elect"
  BY <1>1, <1>5 DEF WorkType, Jobs
<1>6. ASSUME NEW job \in jobs[n], Elect(n, job)
      PROVE  Started(n)' \subseteq Started(n)
  <2> DEFINE moved == [job EXCEPT !.at = "propose"]
  <2>1. PICK next \in SUBSET {moved} : jobs'[n] = (jobs[n] \ {job}) \cup next
    BY <1>1, <1>6, ElectDoes, Zenon
  <2>2. moved.at # "elect"
    BY <1>4, Zenon
  <2> HIDE DEF moved
  <2>3. jobs'[n] \subseteq (jobs[n] \ {job}) \cup {moved}
    BY <2>1, ZenonT(30)
  <2> QED BY <1>2, <2>2, <2>3, Zenon
<1>7. ASSUME NEW job \in jobs[n], Propose(n, job)
      PROVE  Started(n)' \subseteq Started(n)
  <2>1. PICK b : jobs'[n] = (jobs[n] \ {job}) \cup {[job EXCEPT !.at = "vote", !.batch = b]}
    BY <1>1, <1>7, ProposeDoes, Zenon
  <2> QED BY <1>2, <1>5, <2>1, Zenon
<1>8. ASSUME NEW job \in jobs[n], VoteForOwn(n, job)
      PROVE  Started(n)' \subseteq Started(n)
  <2>1. jobs'[n] = (jobs[n] \ {job}) \cup {[job EXCEPT !.at = "count"]}
    BY <1>1, <1>8, VoteForOwnDoes, ZenonT(30)
  <2> QED BY <1>2, <1>4, <2>1, ZenonT(30)
<1>9. ASSUME NEW job \in jobs[n], CountOwn(n, job)
      PROVE  Started(n)' \subseteq Started(n)
  <2> DEFINE moved == [job EXCEPT !.at = "prune"]
  <2>1. PICK next \in SUBSET {moved} : jobs'[n] = (jobs[n] \ {job}) \cup next
    BY <1>1, <1>9, CountOwnDoes, Zenon
  <2>2. moved.at # "elect"
    BY <1>4, Zenon
  <2> HIDE DEF moved
  <2>3. jobs'[n] \subseteq (jobs[n] \ {job}) \cup {moved}
    BY <2>1, ZenonT(30)
  <2> QED BY <1>2, <2>2, <2>3, Zenon
<1>10. ASSUME NEW task \in tasks[n], CastVote(n, task) \/ StoreVote(n, task) \/ Count(n, task)
       PROVE  UNCHANGED jobs
  BY <1>10, Zenon DEF CastVote, StoreVote, Count
<1>11. PruneProposals(n) => jobs'[n] \subseteq jobs[n]
  BY <1>1, PruneProposalsDoes, Zenon
<1>12. ASSUME NEW x, NEW y, ReceiveProposal(n, x) \/ ReceiveVote(n, x, y) \/ ReceiveQC(n, x)
       PROVE  UNCHANGED jobs
  BY <1>12, Zenon DEF ReceiveProposal, ReceiveVote, ReceiveQC
<1>13. CASE Work(n)
  BY <1>3, <1>6, <1>7, <1>8, <1>9, <1>10, <1>11, <1>13, ZenonT(40) DEF Work
<1>14. CASE Deliver(n)
  BY <1>3, <1>12, <1>14, Zenon DEF Deliver
<1> QED BY <1>13, <1>14, Zenon

\* What a step does to any node that does not restart.
LEMMA MovesForward ==
  ASSUME TypeInv, Next, NEW m \in Nodes, boots'[m] = boots[m]
  PROVE  /\ \/ round'[m] > round[m]
            \/ round'[m] = round[m] /\ step'[m] > step[m]
            \/ round'[m] = round[m] /\ step'[m] = step[m] /\ Started(m)' \subseteq Started(m)
         /\ qc'[m].view >= qc[m].view
         /\ processed[m] \subseteq processed'[m]
<1>1. /\ Arrays /\ MessageType /\ CoreType(m) /\ boots[m] \in Nat
      /\ round[m] \in Nat /\ step[m] \in Nat
  BY TypeParts, Zenon
<1>2. qc[m].view \in Nat
  BY <1>1, ViewIsRound, ConstantsAssumption
<1>3. PICK n \in Nodes : Advance(n) \/ Timeout(n) \/ Work(n) \/ Deliver(n) \/ Restart(n)
  BY Zenon DEF Next
<1>4. CASE m # n
  <2>1. /\ round'[m] = round[m] /\ step'[m] = step[m] /\ qc'[m] = qc[m]
        /\ processed'[m] = processed[m] /\ jobs'[m] = jobs[m]
    <3>1. StepOf(n)
      BY <1>3, StepIsOf, Zenon
    <3> QED BY <1>4, <3>1, Zenon DEF StepOf, Framed
  <2>2. qc[m].view >= qc[m].view
    BY <1>1, <1>2
  <2>3. Started(m)' \subseteq Started(m)
    BY <2>1, Zenon DEF Started
  <2> QED BY <2>1, <2>2, <2>3, ZenonT(40)
<1>5. CASE m = n /\ (Advance(n) \/ Timeout(n))
  <2>1. PICK r \in 1 .. MaxRound, s \in 0 .. CommitteeSize - 1 :
          /\ StartStep(m, r, s)
          /\ r > round[m] \/ (r = round[m] /\ s > step[m])
    BY <1>1, <1>5, DriverDoes, Zenon
  <2>2. round'[m] = r /\ step'[m] = s /\ UNCHANGED <<qc, processed>>
    BY <1>1, <2>1, StartStepDoes, Zenon
  <2>3. qc'[m].view >= qc[m].view
    BY <1>2, <2>2
  <2> QED BY <2>1, <2>2, <2>3, ZenonT(40)
<1>6. CASE m = n /\ (Work(n) \/ Deliver(n))
  BY <1>6, CertificatesGrow, WorkStartsNothing, Zenon
<1>7. CASE m = n /\ Restart(n)
  <2>1. boots'[m] = boots[m] + 1
    BY <1>1, <1>7, RestartDoes, Zenon
  <2> QED BY <1>1, <2>1
<1> QED BY <1>3, <1>4, <1>5, <1>6, <1>7, ZenonT(40)

\* Until it restarts a node starts only later steps, so that its rounds run out, goes to
\* later certificates and forgets no confirmation.
THEOREM NodesAlwaysMoveForward == Spec => NodesMoveForward
<1>1. Init => TypeInv
  BY TypeInit, Zenon
<1>2. TypeInv /\ [Next]_vars => TypeInv'
  BY TypeStep, TypeStutter, Zenon
<1>3. TypeInv /\ [Next]_vars =>
        [\A n \in Nodes : boots'[n] = boots[n] =>
           /\ \/ round'[n] > round[n]
              \/ round'[n] = round[n] /\ step'[n] > step[n]
              \/ round'[n] = round[n] /\ step'[n] = step[n] /\ Started(n)' \subseteq Started(n)
           /\ qc'[n].view >= qc[n].view
           /\ processed[n] \subseteq processed'[n]]_vars
  BY MovesForward, Zenon
<1> QED BY <1>1, <1>2, <1>3, PTL DEF Spec, NodesMoveForward

-----------------------------------------------------------------------------
(***************************************************************************)
(* What keeps each part of the invariant                                   *)
(***************************************************************************)

\* A node that moves forward and holds what it held keeps the part about its own
\* batches and jobs, if the new ones are right.
LEMMA OwnKept ==
  ASSUME NEW n, OwnInv(n), boots'[n] = boots[n],
         \A r, s : Begun(n, r, s) => Begun(n, r, s)',
         pending[n] \cup processed[n] \subseteq pending'[n] \cup processed'[n],
         \A b \in proposals' \ proposals : b.boot = boots[n] /\ b \in pending'[n],
         boots[n] \in Nat,
         \A job \in jobs'[n] : job \in jobs[n] \/ OwnJob(n, job)'
  PROVE  OwnInv(n)'
<1>1. OwnBatches(n)'
  <2> SUFFICES ASSUME NEW b \in proposals', b.proposer = n
               PROVE  /\ b.boot <= boots'[n]
                      /\ b.boot = boots'[n] => b \in pending'[n] \cup processed'[n]
    BY Zenon DEF OwnBatches
  <2>1. CASE b \in proposals
    BY <2>1, Zenon DEF OwnInv, OwnBatches
  <2>2. CASE b \notin proposals
    BY <2>2
  <2> QED BY <2>1, <2>2, Zenon
<1>2. ASSUME NEW job \in jobs[n] PROVE OwnJob(n, job)'
  BY <1>2, Zenon DEF OwnInv, OwnJob
<1> QED BY <1>1, <1>2, Zenon DEF OwnInv

\* Votes and tasks that are new are right, and the node begins to follow no batch
\* that it has made.
LEMMA VoteKept ==
  ASSUME NEW n, VoteInv(n), VotesType(n), boots'[n] = boots[n], ballots \subseteq ballots',
         proposals \subseteq proposals',
         processed[n] \subseteq processed'[n],
         \A b \in proposals' : \A v \in VotesFor(n, b)' :
           v \in VotesFor(n, b) \/ VoteFrom(n, b, v)',
         \A task \in tasks'[n] : task \in tasks[n] \/ TaskFrom(n, task)',
         \A b \in proposals' \ processed'[n] : Follows(n, b)' /\ b.proposer = n =>
           (b \in proposals /\ Follows(n, b)) \/ b.boot < boots[n]
  PROVE  VoteInv(n)'
<1>1. ASSUME NEW b \in proposals', NEW v \in VotesFor(n, b)'
      PROVE  VoteFrom(n, b, v)'
  <2>1. CASE v \in VotesFor(n, b)
    <3>1. b \in proposals
      BY <2>1, NoVotesForOthers, Zenon
    <3> QED BY <2>1, <3>1, Zenon DEF VoteInv, VoteFrom
  <2> QED BY <2>1, Zenon
<1>2. \A task \in tasks'[n] : TaskFrom(n, task)'
  BY Zenon DEF VoteInv, TaskFrom
<1>3. NotBoth(n)'
  BY Zenon DEF VoteInv, NotBoth
<1> QED BY <1>1, <1>2, <1>3, Zenon DEF VoteInv

\* The node holds what it held and what it newly votes for.
LEMMA HeldKept ==
  ASSUME NEW n, HeldInv(n), MessageType, boots'[n] = boots[n],
         pending[n] \cup processed[n] \subseteq pending'[n] \cup processed'[n],
         \A task \in tasks'[n] : task.at = "vote" =>
           task \in tasks[n] \/ task.batch \in pending'[n] \cup processed'[n],
         \A b : <<n, b>> \in ballots' =>
           <<n, b>> \in ballots \/ b \in pending'[n] \cup processed'[n]
  PROVE  HeldInv(n)'
<1>1. \A b : <<n, b>> \in ballots => b \in proposals
  BY Zenon DEF MessageType
<1> QED BY <1>1, Zenon DEF HeldInv

\* No batch is confirmed.
LEMMA OnceKept ==
  ASSUME NEW n, OnceInv(n), processed'[n] = processed[n], confirmed'[n] = confirmed[n]
  PROVE  OnceInv(n)'
BY Zenon DEF OnceInv

\* A node that does not move and drops no job or task that is to count keeps the part
\* about quorums, if it is to count whatever is new to it.
LEMMA NoticedKept ==
  ASSUME NEW n, NoticedInv(n), boots'[n] = boots[n],
         \A r, s : Over(n, r, s) => Over(n, r, s)',
         \A b \in pending'[n] \ processed'[n] : Enough(VotesFor(n, b)') =>
           \/ Counting(n, b)'
           \/ b \in pending[n] \ processed[n] /\ Enough(VotesFor(n, b)),
         \A b \in pending'[n] \ processed'[n] : Enough(VotesFor(n, b)') /\ Counting(n, b) =>
           \/ Counting(n, b)'
           \/ b.proposer = n /\ b.boot = boots[n] /\ Over(n, b.round, b.step)'
  PROVE  NoticedInv(n)'
<1> SUFFICES ASSUME NEW b \in pending'[n] \ processed'[n], Enough(VotesFor(n, b)')
             PROVE  \/ Counting(n, b)'
                    \/ b.proposer = n /\ b.boot = boots'[n] /\ Over(n, b.round, b.step)'
  BY Zenon DEF NoticedInv, Enough
<1>1. CASE b \in pending[n] \ processed[n] /\ Enough(VotesFor(n, b))
  BY <1>1, Zenon DEF NoticedInv
<1> QED BY <1>1, Zenon

\* Where the tasks and votes are the same, the node follows the same batches.
LEMMA SameFollows ==
  ASSUME NEW n, tasks'[n] = tasks[n], \A x : VotesFor(n, x)' = VotesFor(n, x)
  PROVE  \A x : Follows(n, x)' = Follows(n, x)
BY DEF Follows

\* The state of the node is the same but for its jobs, tasks, votes and certificates.
LEMMA Stands ==
  ASSUME NEW n, round'[n] = round[n], step'[n] = step[n]
  PROVE  /\ \A r, s : Begun(n, r, s)' = Begun(n, r, s)
         /\ \A r, s : Over(n, r, s)' = Over(n, r, s)
BY Zenon DEF Begun, Over

-----------------------------------------------------------------------------
(***************************************************************************)
(* Every action keeps the invariant                                        *)
(***************************************************************************)

\* The driver moves on: what an aborted job was to count is over.
LEMMA DriverInv ==
  ASSUME TypeInv, NEW n \in Nodes, NodeInv(n), Advance(n) \/ Timeout(n)
  PROVE  NodeInv(n)'
<1> DEFINE started(r, s) == Job("elect", r, s, Genesis)
<1>1. /\ Arrays /\ MessageType /\ CoreType(n) /\ VotesType(n) /\ WorkType(n)
      /\ boots[n] \in Nat /\ round[n] \in Nat /\ step[n] \in Nat
  BY TypeParts, Zenon
<1>2. PICK r \in 1 .. MaxRound, s \in 0 .. CommitteeSize - 1 :
        /\ StartStep(n, r, s)
        /\ r > round[n] \/ (r = round[n] /\ s > step[n])
  BY <1>1, DriverDoes, ZenonT(40)
<1>3. /\ round'[n] = r /\ step'[n] = s
      /\ jobs'[n] \subseteq jobs[n] \cup {started(r, s)}
      /\ UNCHANGED <<qc, votes, processed, confirmed, pending, seen, requested, tasks,
                     boots, proposals, ballots, qcs>>
  BY <1>1, <1>2, StartStepDoes, ZenonT(40)
<1>4. \A b : VotesFor(n, b)' = VotesFor(n, b)
  BY <1>3, SameVotes, Zenon
<1>5. OwnJob(n, started(r, s))'
  BY <1>3 DEF Job, OwnJob, Begun
<1>6. \A i \in 1 .. MaxRound, k \in 0 .. CommitteeSize - 1 : Begun(n, i, k) => Over(n, i, k)'
  BY <1>1, <1>2, <1>3 DEF Begun, Over
<1>7. \A job \in jobs[n] : Begun(n, job.round, job.step)'
  <2>1. \A job \in jobs[n] : job.round \in 1 .. MaxRound /\ job.step \in 0 .. CommitteeSize - 1
    BY <1>1, Zenon DEF WorkType, Jobs
  <2>2. \A job \in jobs[n] : Over(n, job.round, job.step)'
    BY <1>6, <2>1, Zenon DEF NodeInv, OwnInv, OwnJob
  <2>3. \A job \in jobs[n] : job.step \in Int /\ s \in Int
    BY <2>1, ConstantsAssumption
  <2> QED BY <1>3, <2>2, <2>3 DEF Begun, Over
<1> HIDE DEF started
<1>8. OwnInv(n)'
  <2>1. \A job \in jobs[n] : OwnJob(n, job)'
    BY <1>3, <1>7, Zenon DEF NodeInv, OwnInv, OwnJob
  <2> QED BY <1>3, <1>5, <2>1, Zenon DEF NodeInv, OwnInv, OwnBatches
<1>9. VoteInv(n)'
  <2>1. \A b : Follows(n, b)' = Follows(n, b)
    BY <1>3, <1>4, SameFollows, Zenon
  <2> QED BY <1>1, <1>3, <1>4, <2>1, VoteKept, Zenon DEF NodeInv
<1>10. HeldInv(n)'
  BY <1>1, <1>3, HeldKept, Zenon DEF NodeInv
<1>11. OnceInv(n)'
  BY <1>3, OnceKept, Zenon DEF NodeInv
<1>12. NoticedInv(n)'
  <2> SUFFICES ASSUME NEW b \in pending[n] \ processed[n], Enough(VotesFor(n, b))
               PROVE  \/ Counting(n, b)'
                      \/ b.proposer = n /\ b.boot = boots[n] /\ Over(n, b.round, b.step)'
    BY <1>3, <1>4, Zenon DEF NoticedInv
  <2>1. b.round \in 1 .. MaxRound /\ b.step \in 0 .. CommitteeSize - 1
    BY <1>1, Zenon DEF MessageType, IsBatch, CoreType
  <2>2. CASE b.proposer = n /\ b.boot = boots[n] /\ Over(n, b.round, b.step)
    <3>1. b.step \in Int /\ step[n] \in Int
      BY <1>1, <2>1, ConstantsAssumption
    <3>2. Begun(n, b.round, b.step)
      BY <2>2, <3>1 DEF Over, Begun
    <3> QED BY <1>6, <2>1, <2>2, <3>2, ZenonT(40)
  <2>3. CASE \E task \in tasks[n] : task.batch = b /\ task.at \in {"vote", "store", "count"}
    BY <1>3, <2>3, ZenonT(40) DEF Counting
  <2>4. ASSUME NEW job \in jobs[n], job.batch = b, job.at \in {"vote", "store", "count"}
        PROVE  b.proposer = n /\ b.boot = boots[n] /\ Over(n, b.round, b.step)'
    <3>1. job.at \in {"vote", "count"}
      BY <1>1, <2>4, Zenon DEF WorkType, Jobs
    <3>2. /\ b.proposer = n /\ b.boot = boots[n]
          /\ Begun(n, b.round, b.step)
      BY <2>4, <3>1, ZenonT(40) DEF NodeInv, OwnInv, OwnJob
    <3> QED BY <1>6, <2>1, <3>2, Zenon
  <2> QED BY <2>2, <2>3, <2>4, Zenon DEF NodeInv, NoticedInv, Counting
<1> QED BY <1>8, <1>9, <1>10, <1>11, <1>12, Zenon DEF NodeInv

\* Election: the job goes on or ends.
LEMMA ElectInv ==
  ASSUME TypeInv, NEW n \in Nodes, NodeInv(n), NEW job \in jobs[n], Elect(n, job)
  PROVE  NodeInv(n)'
<1> DEFINE moved == [job EXCEPT !.at = "propose"]
<1>1. /\ Arrays /\ MessageType /\ CoreType(n) /\ VotesType(n) /\ WorkType(n)
      /\ boots[n] \in Nat
  BY TypeParts, Zenon
<1>2. /\ \E next \in SUBSET {moved} : jobs'[n] = (jobs[n] \ {job}) \cup next
      /\ UNCHANGED <<round, step, qc, votes, processed, confirmed, pending, seen,
                     requested, tasks, boots, proposals, ballots, qcs>>
  BY <1>1, ElectDoes, ZenonT(40)
<1>3. \A b : VotesFor(n, b)' = VotesFor(n, b)
  BY <1>2, SameVotes, Zenon
<1>4. job.at = "elect"
  BY Zenon DEF Elect
<1>5. OwnJob(n, moved)'
  <2>1. job \in Jobs /\ OwnJob(n, job)
    BY <1>1, Zenon DEF NodeInv, OwnInv, WorkType
  <2> QED BY <1>2, <2>1, Zenon DEF OwnJob, Jobs, Begun
<1>6. \A b : Counting(n, b) => Counting(n, b)'
  BY <1>2, <1>4, Zenon DEF Counting
<1> HIDE DEF moved
<1>7. OwnInv(n)'
  BY <1>1, <1>2, <1>5, OwnKept, Stands, Zenon DEF NodeInv
<1>8. VoteInv(n)'
  <2>1. \A b : Follows(n, b)' = Follows(n, b)
    BY <1>2, <1>3, SameFollows, Zenon
  <2> QED BY <1>1, <1>2, <1>3, <2>1, VoteKept, ZenonT(40) DEF NodeInv
<1>9. HeldInv(n)' /\ OnceInv(n)'
  BY <1>1, <1>2, HeldKept, OnceKept, ZenonT(40) DEF NodeInv
<1>10. NoticedInv(n)'
  BY <1>2, <1>3, <1>6, NoticedKept, Stands, ZenonT(40) DEF NodeInv
<1> QED BY <1>7, <1>8, <1>9, <1>10, Zenon DEF NodeInv

\* A proposal: nobody has followed the new batch, and the job is to count its votes.
LEMMA ProposeInv ==
  ASSUME TypeInv, NEW n \in Nodes, NodeInv(n), NEW job \in jobs[n], Propose(n, job)
  PROVE  NodeInv(n)'
<1> DEFINE moved(b) == [job EXCEPT !.at = "vote", !.batch = b]
<1>1. /\ Arrays /\ MessageType /\ CoreType(n) /\ VotesType(n) /\ WorkType(n)
      /\ boots[n] \in Nat
  BY TypeParts, Zenon
<1>2. PICK b :
        /\ b = NewBatch(n, job.round, job.step)
        /\ pending'[n] = pending[n] \cup {b}
        /\ proposals' = proposals \cup {b}
        /\ jobs'[n] = (jobs[n] \ {job}) \cup {moved(b)}
        /\ UNCHANGED <<round, step, qc, votes, processed, confirmed, seen, requested,
                       tasks, boots, ballots, qcs>>
  BY <1>1, ProposeDoes, ZenonT(40)
<1>3. \A x : VotesFor(n, x)' = VotesFor(n, x)
  BY <1>2, SameVotes, Zenon
<1>4. job.at = "propose" /\ job \in Jobs /\ OwnJob(n, job)
  BY <1>1, Zenon DEF Propose, NodeInv, OwnInv, WorkType
<1>5. b.proposer = n /\ b.boot = boots[n] /\ b.round = job.round /\ b.step = job.step
  BY <1>1, <1>2, <1>4, NewBatchType DEF Jobs
<1>6. OwnJob(n, moved(b))'
  BY <1>2, <1>4, <1>5, Zenon DEF OwnJob, Jobs, Begun
<1>7. moved(b).batch = b /\ moved(b).at = "vote"
  BY <1>4, Zenon DEF Jobs
<1>8. \A x : Counting(n, x) => Counting(n, x)'
  BY <1>2, <1>4, Zenon DEF Counting
<1>9. Counting(n, b)'
  BY <1>2, <1>7, ZenonT(40) DEF Counting
<1> HIDE DEF moved
<1>10. OwnInv(n)'
  <2>1. \A x \in proposals' \ proposals : x.boot = boots[n] /\ x \in pending'[n]
    BY <1>2, <1>5, Zenon
  <2>2. pending[n] \cup processed[n] \subseteq pending'[n] \cup processed'[n]
    BY <1>2, Zenon
  <2>3. \A x \in jobs'[n] : x \in jobs[n] \/ OwnJob(n, x)'
    BY <1>2, <1>6, Zenon
  <2>4. \A r, s : Begun(n, r, s) => Begun(n, r, s)'
    BY <1>2, Stands, Zenon
  <2> QED BY <1>1, <1>2, <2>1, <2>2, <2>3, <2>4, OwnKept, Zenon DEF NodeInv
<1>11. VoteInv(n)'
  <2>1. \A x : Follows(n, x)' = Follows(n, x)
    BY <1>2, <1>3, SameFollows, Zenon
  <2>2. \A x : Follows(n, x) => x \in proposals
    BY <1>1, NoVotesForOthers, Zenon DEF Follows, WorkType, Tasks
  <2> QED BY <1>1, <1>2, <1>3, <2>1, <2>2, VoteKept, Zenon DEF NodeInv
<1>12. HeldInv(n)' /\ OnceInv(n)'
  BY <1>1, <1>2, HeldKept, OnceKept, Zenon DEF NodeInv
<1>13. NoticedInv(n)'
  BY <1>2, <1>3, <1>8, <1>9, NoticedKept, Stands, ZenonT(40) DEF NodeInv
<1> QED BY <1>10, <1>11, <1>12, <1>13, Zenon DEF NodeInv

\* The proposer votes and is to count.
LEMMA VoteForOwnInv ==
  ASSUME TypeInv, NEW n \in Nodes, NodeInv(n), NEW job \in jobs[n], VoteForOwn(n, job)
  PROVE  NodeInv(n)'
<1> DEFINE moved == [job EXCEPT !.at = "count"]
           vote == [voter |-> n, via |-> "proposer"]
<1>1. /\ Arrays /\ MessageType /\ CoreType(n) /\ VotesType(n) /\ WorkType(n)
      /\ boots[n] \in Nat
  BY TypeParts, Zenon
<1>2. /\ Push(n, job.batch, n, "proposer")
      /\ jobs'[n] = (jobs[n] \ {job}) \cup {moved}
      /\ UNCHANGED <<round, step, qc, processed, confirmed, pending, seen, requested,
                     tasks, boots, proposals, ballots, qcs>>
  BY <1>1, VoteForOwnDoes, Zenon
<1>3. \A x : VotesFor(n, x)' = IF x = job.batch THEN VotesFor(n, job.batch) \cup {vote}
                                                ELSE VotesFor(n, x)
  BY <1>1, <1>2, PushDoes, ZenonT(40)
<1>4. job.at = "vote" /\ job \in Jobs /\ OwnJob(n, job)
  BY <1>1, Zenon DEF VoteForOwn, NodeInv, OwnInv, WorkType
<1>5. OwnJob(n, moved)'
  BY <1>2, <1>4, Zenon DEF OwnJob, Jobs, Begun
<1>6. moved.batch = job.batch /\ moved.at = "count"
  BY <1>4, Zenon DEF Jobs
<1>7. Counting(n, job.batch)'
  BY <1>2, <1>6, Zenon DEF Counting
<1>8. \A x : Counting(n, x) => Counting(n, x)'
  BY <1>2, <1>7, Zenon DEF Counting
<1>9. VoteFrom(n, job.batch, vote)'
  BY <1>2, <1>4, Zenon DEF VoteFrom, OwnJob
<1>10. vote.via # "follower"
  BY Zenon
<1> HIDE DEF moved, vote
<1>11. OwnInv(n)'
  BY <1>1, <1>2, <1>5, OwnKept, Stands, ZenonT(40) DEF NodeInv
<1>12. VoteInv(n)'
  <2>1. \A x : Follows(n, x)' = Follows(n, x)
    BY <1>2, <1>3, <1>10, Zenon DEF Follows
  <2> QED BY <1>1, <1>2, <1>3, <1>9, <2>1, VoteKept, Zenon DEF NodeInv
<1>13. HeldInv(n)' /\ OnceInv(n)'
  BY <1>1, <1>2, HeldKept, OnceKept, Zenon DEF NodeInv
<1>14. NoticedInv(n)'
  BY <1>2, <1>3, <1>7, <1>8, NoticedKept, Stands, ZenonT(40) DEF NodeInv
<1> QED BY <1>11, <1>12, <1>13, <1>14, Zenon DEF NodeInv

\* A follower votes and is to count.
LEMMA CastVoteInv ==
  ASSUME TypeInv, NEW n \in Nodes, NodeInv(n), NEW task \in tasks[n], CastVote(n, task)
  PROVE  NodeInv(n)'
<1> DEFINE moved == [task EXCEPT !.at = "count"]
           vote == [voter |-> n, via |-> "follower"]
<1>1. /\ Arrays /\ MessageType /\ CoreType(n) /\ VotesType(n) /\ WorkType(n)
      /\ boots[n] \in Nat
  BY TypeParts, Zenon
<1>2. /\ Push(n, task.batch, n, "follower")
      /\ ballots' = ballots \cup {<<n, task.batch>>}
      /\ tasks'[n] = (tasks[n] \ {task}) \cup {moved}
      /\ UNCHANGED <<round, step, qc, processed, confirmed, pending, seen, requested,
                     jobs, boots, proposals, qcs>>
  BY <1>1, CastVoteDoes, Zenon
<1>3. \A x : VotesFor(n, x)' = IF x = task.batch THEN VotesFor(n, task.batch) \cup {vote}
                                                 ELSE VotesFor(n, x)
  BY <1>1, <1>2, PushDoes, ZenonT(40)
<1>4. task.at = "vote" /\ task \in Tasks
  BY <1>1, Zenon DEF CastVote, WorkType
<1>5. moved.batch = task.batch /\ moved.at = "count"
  BY <1>4, Zenon DEF Tasks
<1>6. Counting(n, task.batch)'
  BY <1>2, <1>5, ZenonT(40) DEF Counting
<1>7. \A x : Counting(n, x) => Counting(n, x)'
  BY <1>2, <1>6, Zenon DEF Counting
<1>8. VoteFrom(n, task.batch, vote)'
  BY <1>2, Zenon DEF VoteFrom
<1>9. TaskFrom(n, moved)'
  BY <1>5, Zenon DEF TaskFrom
<1>10. task.batch \in pending[n] \cup processed[n] /\ Follows(n, task.batch)
  BY <1>4, Zenon DEF NodeInv, HeldInv, Follows
<1> HIDE DEF moved, vote
<1>11. OwnInv(n)'
  BY <1>1, <1>2, OwnKept, Stands, Zenon DEF NodeInv
<1>12. VoteInv(n)'
  <2>1. \A x : Follows(n, x)' => Follows(n, x)
    BY <1>2, <1>3, <1>5, <1>10, Zenon DEF Follows
  <2> QED BY <1>1, <1>2, <1>3, <1>8, <1>9, <2>1, VoteKept, Zenon DEF NodeInv
<1>13. HeldInv(n)'
  <2>1. \A b : <<n, b>> \in ballots' => <<n, b>> \in ballots \/ b = task.batch
    BY <1>2, ZenonT(40)
  <2> QED BY <1>1, <1>2, <1>5, <1>10, <2>1, HeldKept, Zenon DEF NodeInv
<1>14. OnceInv(n)'
  BY <1>2, OnceKept, Zenon DEF NodeInv
<1>15. NoticedInv(n)'
  BY <1>2, <1>3, <1>6, <1>7, NoticedKept, Stands, ZenonT(40) DEF NodeInv
<1> QED BY <1>11, <1>12, <1>13, <1>14, <1>15, Zenon DEF NodeInv

\* A vote that has arrived is kept or not, and the votes are to be counted.
LEMMA StoreVoteInv ==
  ASSUME TypeInv, NEW n \in Nodes, NodeInv(n), NEW task \in tasks[n], StoreVote(n, task)
  PROVE  NodeInv(n)'
<1> DEFINE moved == [task EXCEPT !.at = "count", !.voter = n]
           vote == [voter |-> task.voter, via |-> "gossip"]
<1>1. /\ Arrays /\ MessageType /\ CoreType(n) /\ VotesType(n) /\ WorkType(n)
      /\ boots[n] \in Nat
  BY TypeParts, Zenon
<1>2. /\ UNCHANGED votes \/ Push(n, task.batch, task.voter, "gossip")
      /\ tasks'[n] = (tasks[n] \ {task}) \cup {moved}
      /\ UNCHANGED <<round, step, qc, processed, confirmed, pending, seen, requested,
                     jobs, boots, proposals, ballots, qcs>>
  BY <1>1, StoreVoteDoes, Zenon
<1>3. /\ \A x : x # task.batch => VotesFor(n, x)' = VotesFor(n, x)
      /\ VotesFor(n, task.batch)' \subseteq VotesFor(n, task.batch) \cup {vote}
  <2>1. CASE UNCHANGED votes
    BY <2>1, SameVotes, ZenonT(40)
  <2>2. CASE Push(n, task.batch, task.voter, "gossip")
    <3>1. \A x : VotesFor(n, x)' = IF x = task.batch THEN VotesFor(n, task.batch) \cup {vote}
                                                     ELSE VotesFor(n, x)
      BY <1>1, <2>2, PushDoes, ZenonT(40)
    <3> QED BY <3>1, Zenon
  <2> QED BY <1>2, <2>1, <2>2, Zenon
<1>4. task.at = "store" /\ task \in Tasks
  BY <1>1, Zenon DEF StoreVote, WorkType
<1>5. moved.batch = task.batch /\ moved.at = "count"
  BY <1>4, Zenon DEF Tasks
<1>6. Counting(n, task.batch)'
  BY <1>2, <1>5, Zenon DEF Counting
<1>7. \A x : Counting(n, x) => Counting(n, x)'
  BY <1>2, <1>6, Zenon DEF Counting
<1>8. VoteFrom(n, task.batch, vote)'
  BY <1>2, <1>4, Zenon DEF NodeInv, VoteInv, TaskFrom, VoteFrom
<1>9. TaskFrom(n, moved)' /\ vote.via # "follower"
  BY <1>5, Zenon DEF TaskFrom
<1> HIDE DEF moved, vote
<1>10. OwnInv(n)'
  BY <1>1, <1>2, OwnKept, Stands, ZenonT(40) DEF NodeInv
<1>11. VoteInv(n)'
  <2>1. \A x : Follows(n, x)' => Follows(n, x)
    BY <1>2, <1>3, <1>5, <1>9 DEF Follows
  <2>2. \A x : \A v \in VotesFor(n, x)' : v \in VotesFor(n, x) \/ VoteFrom(n, x, v)'
    BY <1>3, <1>8, Zenon
  <2> QED BY <1>1, <1>2, <1>9, <2>1, <2>2, VoteKept, ZenonT(40) DEF NodeInv
<1>12. HeldInv(n)' /\ OnceInv(n)'
  BY <1>1, <1>2, <1>5, HeldKept, OnceKept, Zenon DEF NodeInv
<1>13. NoticedInv(n)'
  BY <1>2, <1>3, <1>6, <1>7, NoticedKept, Stands, ZenonT(40) DEF NodeInv
<1> QED BY <1>10, <1>11, <1>12, <1>13, Zenon DEF NodeInv

\* prune_confirmed_proposals drops processed batches only.
LEMMA PruneProposalsInv ==
  ASSUME TypeInv, NEW n \in Nodes, NodeInv(n), PruneProposals(n)
  PROVE  NodeInv(n)'
<1>1. /\ Arrays /\ MessageType /\ CoreType(n) /\ VotesType(n) /\ WorkType(n)
      /\ boots[n] \in Nat
  BY TypeParts, Zenon
<1>2. /\ pending'[n] = pending[n] \ processed[n]
      /\ tasks'[n] \subseteq tasks[n] /\ jobs'[n] \subseteq jobs[n]
      /\ \A task \in tasks[n] : task.at # "prune" => task \in tasks'[n]
      /\ \A job \in jobs[n] : job.at # "prune" => job \in jobs'[n]
      /\ UNCHANGED <<round, step, qc, votes, processed, confirmed, seen, requested,
                     boots, proposals, ballots, qcs>>
  BY <1>1, PruneProposalsDoes, Zenon
<1>3. \A x : VotesFor(n, x)' = VotesFor(n, x)
  BY <1>2, SameVotes, Zenon
<1>4. \A x : Counting(n, x) => Counting(n, x)'
  BY <1>2, Zenon DEF Counting
<1>5. OwnInv(n)'
  BY <1>1, <1>2, OwnKept, Stands, ZenonT(40) DEF NodeInv
<1>6. VoteInv(n)'
  <2>1. \A x : Follows(n, x)' => Follows(n, x)
    BY <1>2, <1>3, Zenon DEF Follows
  <2> QED BY <1>1, <1>2, <1>3, <2>1, VoteKept, Zenon DEF NodeInv
<1>7. HeldInv(n)' /\ OnceInv(n)'
  BY <1>1, <1>2, HeldKept, OnceKept, Zenon DEF NodeInv
<1>8. NoticedInv(n)'
  BY <1>2, <1>3, <1>4, NoticedKept, Stands, ZenonT(40) DEF NodeInv
<1> QED BY <1>5, <1>6, <1>7, <1>8, Zenon DEF NodeInv

\* A proposal arrives: it is held before the node votes for it.
LEMMA ReceiveProposalInv ==
  ASSUME TypeInv, NEW n \in Nodes, NodeInv(n), NEW b \in proposals, ReceiveProposal(n, b)
  PROVE  NodeInv(n)'
<1> DEFINE new == Task("vote", b, n)
<1>1. /\ Arrays /\ MessageType /\ CoreType(n) /\ VotesType(n) /\ WorkType(n)
      /\ boots[n] \in Nat
  BY TypeParts, Zenon
<1>2. /\ pending'[n] = pending[n] \cup {b}
      /\ tasks'[n] = tasks[n] \cup (IF b \in pending[n] THEN {} ELSE {new})
      /\ UNCHANGED <<round, step, qc, votes, processed, confirmed, requested, jobs, boots,
                     proposals, ballots, qcs>>
  BY <1>1, ReceiveProposalDoes, ZenonT(40)
<1>3. \A x : VotesFor(n, x)' = VotesFor(n, x)
  BY <1>2, SameVotes, Zenon
<1>4. new.at = "vote" /\ new.batch = b
  BY Zenon DEF Task
<1>5. b \notin pending[n] => Counting(n, b)'
  BY <1>2, <1>4, Zenon DEF Counting
<1>6. \A x : Counting(n, x) => Counting(n, x)'
  BY <1>2, Zenon DEF Counting
<1>7. TaskFrom(n, new)'
  BY <1>4, Zenon DEF TaskFrom
<1> HIDE DEF new
<1>8. OwnInv(n)'
  BY <1>1, <1>2, OwnKept, Stands, Zenon DEF NodeInv
<1>9. VoteInv(n)'
  <2>1. \A x : Follows(n, x)' => Follows(n, x) \/ (x = b /\ b \notin pending[n])
    BY <1>2, <1>3, <1>4, Zenon DEF Follows
  <2>2. ASSUME b \notin pending[n], b \notin processed[n], b.proposer = n
        PROVE  b.boot < boots[n]
    <3>1. b.boot <= boots[n] /\ b.boot # boots[n]
      BY <2>2, Zenon DEF NodeInv, OwnInv, OwnBatches
    <3>2. b.boot \in Nat
      BY <1>1, Zenon DEF MessageType, IsBatch
    <3> QED BY <1>1, <3>1, <3>2
  <2>3. \A x \in proposals' \ processed'[n] : Follows(n, x)' /\ x.proposer = n =>
          (x \in proposals /\ Follows(n, x)) \/ x.boot < boots[n]
    BY <1>2, <2>1, <2>2, Zenon
  <2>4. \A task \in tasks'[n] : task \in tasks[n] \/ TaskFrom(n, task)'
    BY <1>2, <1>7, Zenon
  <2> QED BY <1>1, <1>2, <1>3, <2>3, <2>4, VoteKept, Zenon DEF NodeInv
<1>10. HeldInv(n)' /\ OnceInv(n)'
  BY <1>1, <1>2, <1>4, HeldKept, OnceKept, Zenon DEF NodeInv
<1>11. NoticedInv(n)'
  BY <1>2, <1>3, <1>5, <1>6, NoticedKept, Stands, ZenonT(40) DEF NodeInv
<1> QED BY <1>8, <1>9, <1>10, <1>11, Zenon DEF NodeInv

\* A vote arrives from a node that has sent it.
LEMMA ReceiveVoteInv ==
  ASSUME TypeInv, NEW n \in Nodes, NodeInv(n), NEW voter, NEW b, ReceiveVote(n, voter, b)
  PROVE  NodeInv(n)'
<1> DEFINE new == Task("store", b, voter)
<1>1. /\ Arrays /\ MessageType /\ CoreType(n) /\ VotesType(n) /\ WorkType(n)
      /\ boots[n] \in Nat
  BY TypeParts, Zenon
<1>2. /\ tasks'[n] = tasks[n] \cup {new}
      /\ UNCHANGED <<round, step, qc, votes, processed, confirmed, pending, seen,
                     requested, jobs, boots, proposals, ballots, qcs>>
  BY <1>1, ReceiveVoteDoes, ZenonT(40)
<1>3. \A x : VotesFor(n, x)' = VotesFor(n, x)
  BY <1>2, SameVotes, Zenon
<1>4. <<voter, b>> \in ballots /\ voter # n
  BY Zenon DEF ReceiveVote
<1>5. TaskFrom(n, new)' /\ new.at = "store"
  BY <1>2, <1>4, Zenon DEF Task, TaskFrom
<1>6. \A x : Counting(n, x) => Counting(n, x)'
  BY <1>2, Zenon DEF Counting
<1> HIDE DEF new
<1>7. OwnInv(n)'
  BY <1>1, <1>2, OwnKept, Stands, ZenonT(40) DEF NodeInv
<1>8. VoteInv(n)'
  <2>1. \A x : Follows(n, x)' => Follows(n, x)
    BY <1>2, <1>3, <1>5, Zenon DEF Follows
  <2> QED BY <1>1, <1>2, <1>3, <1>5, <2>1, VoteKept, Zenon DEF NodeInv
<1>9. HeldInv(n)' /\ OnceInv(n)'
  BY <1>1, <1>2, <1>5, HeldKept, OnceKept, ZenonT(40) DEF NodeInv
<1>10. NoticedInv(n)'
  BY <1>2, <1>3, <1>6, NoticedKept, Stands, ZenonT(40) DEF NodeInv
<1> QED BY <1>7, <1>8, <1>9, <1>10, Zenon DEF NodeInv

\* Where jobs, tasks, votes and batches are the same, so is the invariant.
LEMMA SameInv ==
  ASSUME NEW n, NodeInv(n), VotesType(n), MessageType, boots[n] \in Nat,
         round'[n] = round[n], step'[n] = step[n], boots'[n] = boots[n],
         processed'[n] = processed[n], confirmed'[n] = confirmed[n],
         pending'[n] = pending[n], jobs'[n] = jobs[n], tasks'[n] = tasks[n],
         votes'[n] = votes[n], UNCHANGED <<proposals, ballots>>
  PROVE  NodeInv(n)'
<1>1. \A x : VotesFor(n, x)' = VotesFor(n, x)
  BY SameVotes, Zenon
<1>2. \A x : Counting(n, x)' = Counting(n, x)
  BY Zenon DEF Counting
<1>3. OwnInv(n)'
  BY OwnKept, Stands, ZenonT(40) DEF NodeInv
<1>4. VoteInv(n)'
  <2>1. \A x : Follows(n, x)' = Follows(n, x)
    BY <1>1, SameFollows, Zenon
  <2> QED BY <1>1, <2>1, VoteKept, ZenonT(40) DEF NodeInv
<1>5. HeldInv(n)' /\ OnceInv(n)'
  BY HeldKept, OnceKept, Zenon DEF NodeInv
<1>6. NoticedInv(n)'
  BY <1>1, <1>2, NoticedKept, Stands, ZenonT(40) DEF NodeInv
<1> QED BY <1>3, <1>4, <1>5, <1>6, Zenon DEF NodeInv
=============================================================================
