--------------------------- MODULE ConsensusProofs --------------------------
(***************************************************************************)
(* The second part of the proofs about the batch consensus: restarts and   *)
(* the counting of votes keep the invariant of the node and the            *)
(* certificates valid, and what follows from it.                           *)
(***************************************************************************)
EXTENDS ConsensusSteps, FiniteSetTheorems

-----------------------------------------------------------------------------
(***************************************************************************)
(* Restarts                                                                *)
(***************************************************************************)

\* A restart: the batches of the node are now those of an earlier boot.
LEMMA RestartInv ==
  ASSUME TypeInv, NEW n \in Nodes, NodeInv(n), Restart(n)
  PROVE  NodeInv(n)'
<1>1. Arrays /\ MessageType /\ boots[n] \in Nat
  BY TypeParts, Zenon
<1>2. /\ boots'[n] = boots[n] + 1
      /\ votes'[n] = [b \in {} |-> {}] /\ processed'[n] = {} /\ confirmed'[n] = <<>>
      /\ pending'[n] = {} /\ jobs'[n] = {} /\ tasks'[n] = {}
      /\ UNCHANGED <<proposals, ballots, qcs>>
  BY <1>1, RestartDoes, Zenon
<1>3. \A x : VotesFor(n, x)' = {}
  BY <1>2, Zenon DEF VotesFor
<1>4. OwnInv(n)'
  <2>1. ASSUME NEW b \in proposals, b.proposer = n
        PROVE  b.boot <= boots'[n] /\ b.boot # boots'[n]
    <3>1. b.boot <= boots[n] /\ b.boot \in Nat
      BY <1>1, <2>1, Zenon DEF NodeInv, OwnInv, OwnBatches, MessageType, IsBatch
    <3>2. boots'[n] = boots[n] + 1
      BY <1>2, Zenon
    <3> QED BY <1>1, <3>1, <3>2
  <2> QED BY <1>2, <2>1, Zenon DEF OwnInv, OwnBatches
<1>5. VoteInv(n)'
  BY <1>2, <1>3, Zenon DEF VoteInv, NotBoth, Follows
<1>6. HeldInv(n)'
  BY <1>1, <1>2 DEF HeldInv
<1>7. OnceInv(n)'
  <2>1. Range(confirmed'[n]) = {} /\ Len(confirmed'[n]) = 0
    BY <1>2 DEF Range
  <2> QED BY <1>2, <2>1, FS_EmptySet DEF OnceInv
<1>8. NoticedInv(n)'
  BY <1>2, Zenon DEF NoticedInv
<1> QED BY <1>4, <1>5, <1>6, <1>7, <1>8, Zenon DEF NodeInv

-----------------------------------------------------------------------------
(***************************************************************************)
(* Confirming                                                              *)
(***************************************************************************)

\* A batch that is not processed yet is added to the confirmed ones once; the batches
\* that were dropped from them are still processed.
LEMMA ConfirmOnce ==
  ASSUME NEW n, NEW S, confirmed[n] \in Seq(S), NEW b \in S, OnceInv(n), b \notin processed[n],
         processed'[n] = processed[n] \cup {b},
         confirmed'[n] = Prune(Append(confirmed[n], b))
  PROVE  OnceInv(n)'
<1>1. PICK c : c = confirmed[n]
  BY Zenon
<1>2. PICK q : q = Append(c, b)
  BY Zenon
<1>3. PICK P : P = processed[n]
  BY Zenon
<1>4. /\ c \in Seq(S) /\ Range(c) = {c[i] : i \in 1 .. Len(c)}
      /\ \A i, j \in 1 .. Len(c) : c[i] = c[j] => i = j
      /\ \A i \in 1 .. Len(c) : c[i] \in P
  <2>1. Range(c) = {c[i] : i \in 1 .. Len(c)}
    BY <1>1, SeqRange
  <2> QED BY <1>1, <1>3, <2>1, Zenon DEF OnceInv
<1>5. /\ q \in Seq(S) /\ Len(q) = Len(c) + 1
      /\ \A i \in 1 .. Len(q) : q[i] \in P \cup {b}
      /\ \A i, j \in 1 .. Len(q) : q[i] = q[j] => i = j
  BY <1>2, <1>3, <1>4, AppendOnce
<1>6. /\ IsFiniteSet(P \cup {b})
      /\ Cardinality(P \cup {b}) = Cardinality(P) + 1
      /\ Cardinality(P) \in Nat
  BY <1>3, FS_AddElement, FS_CardinalityType, Zenon DEF OnceInv
<1>7. confirmed'[n] = Prune(q) /\ processed'[n] = P \cup {b}
  BY <1>1, <1>2, <1>3, Zenon
<1>8. /\ \A i \in 1 .. Len(Prune(q)) : Prune(q)[i] \in P \cup {b}
      /\ \A i, j \in 1 .. Len(Prune(q)) : Prune(q)[i] = Prune(q)[j] => i = j
  BY <1>5, PruneOnce, ZenonT(40)
<1>9. Range(Prune(q)) = {Prune(q)[i] : i \in 1 .. Len(Prune(q))}
  BY <1>5, PruneKeepsEnd, SeqRange
<1>10. ASSUME Cardinality(P \cup {b}) <= MaxConfirmed
       PROVE  /\ Range(Prune(q)) = P \cup {b}
              /\ Len(Prune(q)) = Cardinality(P \cup {b})
  <2>1. Range(c) = P /\ Len(c) = Cardinality(P)
    BY <1>1, <1>3, <1>6, <1>10, ConstantsAssumption DEF OnceInv
  <2>2. Prune(q) = q
    <3>1. Len(q) <= MaxConfirmed
      BY <1>5, <1>6, <1>10, <2>1, Zenon
    <3> QED BY <1>5, <3>1, PruneKeepsEnd, ZenonT(40)
  <2>3. \A x \in P : \E i \in 1 .. Len(c) : c[i] = x
    BY <1>4, <2>1, Zenon
  <2>4. \A x \in P \cup {b} : \E i \in 1 .. Len(q) : q[i] = x
    BY <1>2, <1>3, <1>4, <2>3, AppendOnce
  <2>5. Range(Prune(q)) = P \cup {b}
    <3>1. Range(q) = {q[i] : i \in 1 .. Len(q)}
      BY <1>9, <2>2, Zenon
    <3>2. \A x \in P \cup {b} : x \in Range(q)
      BY <2>4, <3>1, Zenon
    <3>3. \A x \in Range(q) : x \in P \cup {b}
      BY <1>5, <3>1
    <3> QED BY <2>2, <3>2, <3>3, Zenon
  <2> QED BY <1>5, <1>6, <2>1, <2>2, <2>5, Zenon
<1>11. Range(Prune(q)) \subseteq P \cup {b}
  BY <1>8, <1>9
<1> QED BY <1>6, <1>7, <1>8, <1>10, <1>11, Zenon DEF OnceInv

\* The votes for a batch that is not processed are of different voters, although
\* nothing compares the votes of a proposer and of a follower with those that are
\* there.  So a quorum of votes is a quorum of voters.
LEMMA QuorumOfVoters ==
  ASSUME TypeInv, NEW n \in Nodes, VoteInv(n), NEW b \in proposals \ processed[n],
         Enough(VotesFor(n, b))
  PROVE  /\ IsValid(CertOf(n, b))
         /\ \A m \in Voters(VotesFor(n, b)) : HasVoted(m, b)
<1> DEFINE E == VotesFor(n, b)
           f == [v \in E |-> v.voter]
<1>1. E \subseteq Entries /\ \A v \in E : VoteFrom(n, b, v)
  BY Zenon DEF TypeInv, NodeType, VotesType, VoteInv
<1>2. ASSUME NEW v \in E, NEW w \in E, v.via = "follower", w.via = "proposer"
      PROVE  FALSE
  <2>1. Follows(n, b)
    BY <1>2, Zenon DEF Follows
  <2>2. b.proposer = n /\ b.boot = boots[n]
    <3>1. VoteFrom(n, b, w)
      BY <1>1, Zenon
    <3> QED BY <1>2, <3>1, Zenon DEF VoteFrom
  <2>3. boots[n] < boots[n]
    BY <2>1, <2>2, Zenon DEF VoteInv, NotBoth
  <2> QED BY <2>3, TypeParts
<1>3. ASSUME NEW v \in E, NEW w \in E, v.voter = w.voter
      PROVE  v = w
  <2>1. ~ (v.via = "follower" /\ w.via = "proposer")
    BY <1>1, <1>2, Zenon
  <2>2. ~ (w.via = "follower" /\ v.via = "proposer")
    BY <1>1, <1>2, Zenon
  <2>3. v.via = w.via
    BY <1>1, <1>3, <2>1, <2>2, Zenon DEF VoteFrom
  <2> QED BY <1>1, <1>3, <2>3 DEF Entries
<1>4. Voters(E) = {v.voter : v \in E} /\ Voters(E) \subseteq Nodes
  BY <1>1, Zenon DEF Voters, Entries
<1>5. \A m \in Voters(E) : HasVoted(m, b)
  BY <1>1, <1>4, Zenon DEF VoteFrom, HasVoted
<1> HIDE DEF E
<1>6. f \in Injection(E, Voters(E))
  BY <1>3, <1>4, Zenon DEF Injection, IsInjective
<1>7. IsFiniteSet(Nodes)
  BY ConstantsAssumption, Zenon
<1>8. IsFiniteSet(Voters(E))
  BY <1>4, <1>7, FS_Subset, Zenon
<1> HIDE DEF f
<1>9. IsFiniteSet(E) /\ Cardinality(E) <= Cardinality(Voters(E))
  BY <1>6, <1>8, FS_Injection, Zenon
<1>10. Cardinality(E) >= Quorum
  BY Zenon DEF Enough, E
<1>11. Cardinality(Voters(E)) >= Quorum
  <2>1. Cardinality(E) \in Nat /\ Cardinality(Voters(E)) \in Nat /\ Quorum \in Int
    BY <1>7, <1>8, <1>9, FS_CardinalityType DEF Quorum
  <2> QED BY <1>9, <1>10, <2>1
<1>12. CertOf(n, b).signers = Voters(E)
  BY Zenon DEF CertOf, E
<1> QED BY <1>5, <1>11, <1>12, Zenon DEF IsValid, E

\* Certificates stay valid when only votes are added.
LEMMA CertificatesKept ==
  ASSUME CertificatesAreValid, ballots \subseteq ballots', UNCHANGED qcs
  PROVE  CertificatesAreValid'
BY Zenon DEF CertificatesAreValid, IsValid, HasVoted

\* process_votes_for_batch: the batch is confirmed or has no quorum, and the task or
\* job that counts it is done with counting.
LEMMA CountedInv ==
  ASSUME TypeInv, NEW n \in Nodes, NodeInv(n), CertificatesAreValid, NEW b \in proposals,
         Counted(n, b),
         UNCHANGED <<round, step, pending, boots, proposals, ballots>>,
         \A task \in tasks'[n] : task \in tasks[n] \/ task.at = "prune",
         \A job \in jobs'[n] : job \in jobs[n] \/ OwnJob(n, job)',
         \A x : x # b /\ Counting(n, x) => Counting(n, x)'
  PROVE  NodeInv(n)' /\ CertificatesAreValid'
<1>1. /\ Arrays /\ MessageType /\ CoreType(n) /\ VotesType(n) /\ WorkType(n)
      /\ boots[n] \in Nat
  BY TypeParts, Zenon
<1>2. /\ processed[n] \subseteq processed'[n]
      /\ \A x : VotesFor(n, x)' \subseteq VotesFor(n, x)
      /\ \A x : x \notin processed'[n] => VotesFor(n, x)' = VotesFor(n, x)
      /\ b \in pending[n] \ processed'[n] => ~ Enough(VotesFor(n, b))
  <2>1. CASE Confirm(n, b)
    BY <1>1, <2>1, ConfirmDoes
  <2>2. CASE ~ Confirms(n, b) /\ UNCHANGED <<processed, confirmed, qc, qcs, votes>>
    BY <2>2, SameVotes, Zenon DEF Confirms
  <2> QED BY <2>1, <2>2, Zenon DEF Counted
<1>3. OwnInv(n)'
  BY <1>1, <1>2, OwnKept, Stands, ZenonT(40) DEF NodeInv
<1>4. VoteInv(n)'
  <2>1. \A x : Follows(n, x)' => Follows(n, x)
    BY <1>2, Zenon DEF Follows
  <2>2. \A task \in tasks'[n] : task \in tasks[n] \/ TaskFrom(n, task)'
    BY Zenon DEF TaskFrom
  <2> QED BY <1>1, <1>2, <2>1, <2>2, VoteKept, Zenon DEF NodeInv
<1>5. HeldInv(n)'
  BY <1>1, <1>2, HeldKept, Zenon DEF NodeInv
<1>6. NoticedInv(n)'
  BY <1>2, NoticedKept, Stands, Zenon DEF NodeInv
<1>7. OnceInv(n)' /\ CertificatesAreValid'
  <2>1. CASE Confirms(n, b) /\ Confirm(n, b)
    <3>1. b \notin processed[n] /\ Enough(VotesFor(n, b))
      BY <2>1, Zenon DEF Confirms
    <3>2. /\ processed'[n] = processed[n] \cup {b}
          /\ confirmed'[n] = Prune(Append(confirmed[n], b))
          /\ qcs' = qcs \cup {CertOf(n, b)}
      BY <1>1, <2>1, ConfirmDoes, Zenon
    <3>3. OnceInv(n)'
      <4>1. confirmed[n] \in Seq(proposals) /\ OnceInv(n)
        BY <1>1, Zenon DEF CoreType, NodeInv
      <4> QED BY <3>1, <3>2, <4>1, ConfirmOnce, Zenon
    <3>4. /\ IsValid(CertOf(n, b))
          /\ \A m \in Voters(VotesFor(n, b)) : HasVoted(m, b)
      BY <3>1, QuorumOfVoters, Zenon DEF NodeInv
    <3>5. CertOf(n, b).signers = Voters(VotesFor(n, b)) /\ CertOf(n, b).batch = b
      BY Zenon DEF CertOf
    <3>6. \A cert \in qcs' : IsValid(cert) /\ \A m \in cert.signers : HasVoted(m, cert.batch)
      BY <3>2, <3>4, <3>5, Zenon DEF CertificatesAreValid
    <3>7. CertificatesAreValid'
      BY <3>6, Zenon DEF CertificatesAreValid, IsValid, HasVoted
    <3> QED BY <3>3, <3>7, Zenon
  <2>2. CASE UNCHANGED <<processed, confirmed, qc, qcs, votes>>
    BY <2>2, OnceKept, CertificatesKept, Zenon DEF NodeInv
  <2> QED BY <2>1, <2>2, Zenon DEF Counted
<1> QED BY <1>3, <1>4, <1>5, <1>6, <1>7, Zenon DEF NodeInv

\* A task counts.
LEMMA CountInv ==
  ASSUME TypeInv, NEW n \in Nodes, NodeInv(n), CertificatesAreValid, NEW task \in tasks[n],
         Count(n, task)
  PROVE  NodeInv(n)' /\ CertificatesAreValid'
<1> DEFINE moved == [task EXCEPT !.at = "prune"]
<1>1. Arrays /\ WorkType(n)
  BY TypeParts, Zenon
<1>2. /\ Counted(n, task.batch)
      /\ \E next \in SUBSET {moved} : tasks'[n] = (tasks[n] \ {task}) \cup next
      /\ UNCHANGED <<round, step, pending, seen, requested, jobs, boots, proposals, ballots>>
  BY <1>1, CountDoes, ZenonT(40)
<1>3. task \in Tasks /\ task.batch \in proposals
  BY <1>1, Zenon DEF WorkType, Tasks
<1>4. moved.at = "prune"
  BY <1>3, Zenon DEF Tasks
<1> HIDE DEF moved
<1>5. \A t \in tasks'[n] : t \in tasks[n] \/ t.at = "prune"
  BY <1>2, <1>4, Zenon
<1>6. \A x : x # task.batch /\ Counting(n, x) => Counting(n, x)'
  BY <1>2, Zenon DEF Counting
<1>7. UNCHANGED <<round, step, pending, boots, proposals, ballots>> /\ jobs'[n] = jobs[n]
  BY <1>2, Zenon
<1> QED BY <1>2, <1>3, <1>5, <1>6, <1>7, CountedInv, Zenon

\* The job of a proposer counts.
LEMMA CountOwnInv ==
  ASSUME TypeInv, NEW n \in Nodes, NodeInv(n), CertificatesAreValid, NEW job \in jobs[n],
         CountOwn(n, job)
  PROVE  NodeInv(n)' /\ CertificatesAreValid'
<1> DEFINE moved == [job EXCEPT !.at = "prune"]
<1>1. Arrays /\ WorkType(n)
  BY TypeParts, Zenon
<1>2. /\ Counted(n, job.batch)
      /\ \E next \in SUBSET {moved} : jobs'[n] = (jobs[n] \ {job}) \cup next
      /\ UNCHANGED <<round, step, pending, seen, requested, tasks, boots, proposals, ballots>>
  BY <1>1, CountOwnDoes, Zenon
<1>3. job.at = "count" /\ job \in Jobs /\ job.batch \in proposals /\ OwnJob(n, job)
  BY <1>1, Zenon DEF CountOwn, WorkType, HasBatch, NodeInv, OwnInv
<1>4. OwnJob(n, moved)'
  BY <1>2, <1>3, Zenon DEF OwnJob, Jobs, Begun
<1> HIDE DEF moved
<1>5. \A j \in jobs'[n] : j \in jobs[n] \/ OwnJob(n, j)'
  BY <1>2, <1>4, Zenon
<1>6. \A x : x # job.batch /\ Counting(n, x) => Counting(n, x)'
  BY <1>2, Zenon DEF Counting
<1>7. UNCHANGED <<round, step, pending, boots, proposals, ballots>> /\ tasks'[n] = tasks[n]
  BY <1>2, Zenon
<1> QED BY <1>2, <1>3, <1>5, <1>6, <1>7, CountedInv, Zenon

-----------------------------------------------------------------------------
(***************************************************************************)
(* The step of a node                                                      *)
(***************************************************************************)

\* The node that takes a step keeps its part of the invariant, and certificates are
\* valid.
LEMMA NodeStep ==
  ASSUME TypeInv, NEW n \in Nodes, NodeInv(n), CertificatesAreValid,
         Advance(n) \/ Timeout(n) \/ Work(n) \/ Deliver(n) \/ Restart(n)
  PROVE  NodeInv(n)' /\ CertificatesAreValid'
<1>1. Arrays /\ MessageType /\ VotesType(n) /\ boots[n] \in Nat
  BY TypeParts, Zenon
<1>2. CASE Advance(n) \/ Timeout(n)
  <2>1. UNCHANGED <<ballots, qcs>>
    BY <1>2, Zenon DEF Advance, Timeout, StartStep
  <2> QED BY <1>2, <2>1, DriverInv, CertificatesKept, Zenon
<1>3. CASE Restart(n)
  <2>1. UNCHANGED <<ballots, qcs>>
    BY <1>3, ZenonT(40) DEF Restart
  <2> QED BY <1>3, <2>1, RestartInv, CertificatesKept, Zenon
<1>4. CASE PruneProposals(n)
  <2>1. UNCHANGED <<ballots, qcs>>
    BY <1>4, Zenon DEF PruneProposals
  <2> QED BY <1>4, <2>1, PruneProposalsInv, CertificatesKept, Zenon
<1>5. ASSUME NEW job \in jobs[n], Elect(n, job) \/ Propose(n, job) \/ VoteForOwn(n, job)
      PROVE  NodeInv(n)' /\ CertificatesAreValid'
  <2>1. UNCHANGED <<ballots, qcs>>
    BY <1>5, Zenon DEF Elect, Propose, VoteForOwn
  <2> QED BY <1>5, <2>1, ElectInv, ProposeInv, VoteForOwnInv, CertificatesKept, Zenon
<1>6. ASSUME NEW task \in tasks[n], CastVote(n, task) \/ StoreVote(n, task)
      PROVE  NodeInv(n)' /\ CertificatesAreValid'
  <2>1. ballots \subseteq ballots' /\ UNCHANGED qcs
    BY <1>6, Zenon DEF CastVote, StoreVote
  <2> QED BY <1>6, <2>1, CastVoteInv, StoreVoteInv, CertificatesKept, Zenon
<1>7. ASSUME NEW b \in proposals, ReceiveProposal(n, b)
      PROVE  NodeInv(n)' /\ CertificatesAreValid'
  <2>1. UNCHANGED <<ballots, qcs>>
    BY <1>7, Zenon DEF ReceiveProposal
  <2> QED BY <1>7, <2>1, ReceiveProposalInv, CertificatesKept, Zenon
<1>8. ASSUME NEW ballot \in ballots, ReceiveVote(n, ballot[1], ballot[2])
      PROVE  NodeInv(n)' /\ CertificatesAreValid'
  <2>1. UNCHANGED <<ballots, qcs>>
    BY <1>8, Zenon DEF ReceiveVote
  <2> QED BY <1>8, <2>1, ReceiveVoteInv, CertificatesKept, Zenon
<1>9. ASSUME NEW cert \in qcs, ReceiveQC(n, cert)
      PROVE  NodeInv(n)' /\ CertificatesAreValid'
  <2>1. UNCHANGED <<round, step, votes, processed, confirmed, pending, jobs, tasks, boots,
                    proposals, ballots, qcs>>
    BY <1>9, Zenon DEF ReceiveQC
  <2> QED BY <1>1, <2>1, SameInv, CertificatesKept, Zenon
<1>10. ASSUME NEW job \in jobs[n], CountOwn(n, job)
       PROVE  NodeInv(n)' /\ CertificatesAreValid'
  BY <1>10, CountOwnInv, Zenon
<1>11. ASSUME NEW task \in tasks[n], Count(n, task)
       PROVE  NodeInv(n)' /\ CertificatesAreValid'
  BY <1>11, CountInv, Zenon
<1>12. CASE Work(n)
  BY <1>4, <1>5, <1>6, <1>10, <1>11, <1>12, Zenon DEF Work
<1>13. CASE Deliver(n)
  BY <1>7, <1>8, <1>9, <1>13, Zenon DEF Deliver
<1> QED BY <1>2, <1>3, <1>12, <1>13, Zenon

-----------------------------------------------------------------------------
(***************************************************************************)
(* The invariant and what follows from it                                  *)
(***************************************************************************)

\* Nothing is held or sent at the start.
LEMMA InvInit ==
  ASSUME Init
  PROVE  ConsensusInv
<1>1. ASSUME NEW n \in Nodes
      PROVE  OwnInv(n) /\ VoteInv(n) /\ HeldInv(n) /\ OnceInv(n) /\ NoticedInv(n)
  <2>1. OwnInv(n) /\ VoteInv(n) /\ HeldInv(n) /\ NoticedInv(n)
    BY Zenon DEF Init, OwnInv, OwnBatches, VoteInv, NotBoth, HeldInv, NoticedInv
  <2>2. Range(<<>>) = {} /\ Len(<<>>) = 0
    BY DEF Range
  <2>3. processed[n] = {} /\ confirmed[n] = <<>>
    BY Zenon DEF Init
  <2>4. OnceInv(n)
    BY <2>2, <2>3, FS_EmptySet DEF OnceInv
  <2> QED BY <2>1, <2>4, Zenon
<1>2. CertificatesAreValid
  BY Zenon DEF Init, CertificatesAreValid
<1> QED BY <1>1, <1>2, TypeInit, Zenon DEF ConsensusInv

\* Every step keeps the invariant: the node that takes it by NodeStep, the others
\* because they only see messages that say who has sent them.
LEMMA InvStep ==
  ASSUME ConsensusInv, [Next]_vars
  PROVE  ConsensusInv'
<1>1. TypeInv /\ Arrays /\ MessageType /\ CertificatesAreValid
  BY Zenon DEF ConsensusInv, TypeInv
<1>2. \A n \in Nodes : NodeInv(n) /\ NodeType(n)
  BY Zenon DEF ConsensusInv, NodeInv, TypeInv
<1>3. CASE Next
  <2>1. PICK n \in Nodes : Advance(n) \/ Timeout(n) \/ Work(n) \/ Deliver(n) \/ Restart(n)
    BY <1>3, Zenon DEF Next
  <2>2. TypeInv'
    BY <1>1, <1>3, TypeStep, Zenon
  <2>3. NodeInv(n)' /\ CertificatesAreValid'
    BY <1>1, <1>2, <2>1, NodeStep, Zenon
  <2>4. StepOf(n)
    BY <1>1, <2>1, StepIsOf, Zenon
  <2>5. \A m \in Nodes \ {n} : NodeInv(m)'
    BY <1>1, <1>2, <2>4, OthersKeepInv, Zenon
  <2> QED BY <2>2, <2>3, <2>5, Zenon DEF ConsensusInv, NodeInv
<1>4. CASE UNCHANGED vars
  <2>1. TypeInv'
    BY <1>1, <1>4, TypeStutter, Zenon
  <2>2. ASSUME NEW n \in Nodes PROVE NodeInv(n)'
    <3>1. VotesType(n) /\ boots[n] \in Nat
      BY <1>1, TypeParts, Zenon
    <3>2. UNCHANGED <<round, step, votes, processed, confirmed, pending, jobs, tasks, boots,
                      proposals, ballots>>
      BY <1>4, Zenon DEF vars, local
    <3> QED BY <1>1, <1>2, <3>1, <3>2, SameInv, Zenon
  <2>3. CertificatesAreValid'
    BY <1>1, <1>4, CertificatesKept, Zenon DEF vars
  <2> QED BY <2>1, <2>2, <2>3, Zenon DEF ConsensusInv, NodeInv
<1> QED BY <1>3, <1>4, Zenon

\* The invariant always holds.
THEOREM ConsensusInvariant == Spec => []ConsensusInv
<1>1. Init => ConsensusInv
  BY InvInit, Zenon
<1>2. ConsensusInv /\ [Next]_vars => ConsensusInv'
  BY InvStep, Zenon
<1> QED BY <1>1, <1>2, PTL DEF Spec

\* Every certificate has a quorum of different signers, each of whom has voted: a node
\* that adds its own vote as a proposer and as a follower never counts itself twice.
THEOREM CertificatesAreAlwaysValid == Spec => []CertificatesAreValid
<1>1. ConsensusInv => CertificatesAreValid
  BY Zenon DEF ConsensusInv
<1> QED BY <1>1, ConsensusInvariant, PTL

\* No node confirms a batch twice.
THEOREM BatchesAreConfirmedOnce == Spec => []ConfirmedOnce
<1>1. ConsensusInv => ConfirmedOnce
  <2> SUFFICES ASSUME ConsensusInv, NEW n \in Nodes
               PROVE  \A i, j \in DOMAIN confirmed[n] : confirmed[n][i] = confirmed[n][j] => i = j
    BY Zenon DEF ConfirmedOnce
  <2>1. confirmed[n] \in Seq(proposals)
    BY Zenon DEF ConsensusInv, TypeInv, NodeType, CoreType
  <2>2. DOMAIN confirmed[n] = 1 .. Len(confirmed[n])
    BY <2>1
  <2>3. OnceInv(n)
    BY Zenon DEF ConsensusInv
  <2> QED BY <2>2, <2>3, Zenon DEF OnceInv
<1> QED BY <1>1, ConsensusInvariant, PTL

\* A quorum that a node holds is counted, unless the driver has aborted the job.
THEOREM QuorumsAreAlwaysNoticed == Spec => []QuorumsAreNoticed
<1>1. ConsensusInv => QuorumsAreNoticed
  <2> SUFFICES ASSUME ConsensusInv, NEW n \in Nodes, NEW b \in pending[n] \ processed[n],
                      Enough(VotesFor(n, b))
               PROVE  \/ Counting(n, b)
                      \/ b.proposer = n /\ <<b.round, b.step>> # <<round[n], step[n]>>
    BY Zenon DEF QuorumsAreNoticed
  <2>1. TypeInv /\ NoticedInv(n)
    BY Zenon DEF ConsensusInv
  <2>2. round[n] \in Nat /\ step[n] \in Nat
    BY <2>1, TypeParts, Zenon
  <2>3. Over(n, b.round, b.step) => ~ (b.round = round[n] /\ b.step = step[n])
    BY <2>2 DEF Over
  <2> QED BY <2>1, <2>3, Zenon DEF NoticedInv
<1> QED BY <1>1, ConsensusInvariant, PTL

\* Whoever signed a certificate and has not restarted holds its batch.
THEOREM CertifiedBatchesAreAlwaysHeld == Spec => []CertifiedBatchesAreHeld
<1>1. ConsensusInv => CertifiedBatchesAreHeld
  <2> SUFFICES ASSUME ConsensusInv, NEW cert \in qcs, NEW n \in cert.signers,
                      boots[n] = 0, Cardinality(processed[n]) <= MaxConfirmed
               PROVE  Holds(n, cert.batch)
    BY Zenon DEF CertifiedBatchesAreHeld
  <2>1. cert.batch \in proposals /\ n \in Nodes /\ cert.batch.boot \in Nat
    BY Zenon DEF ConsensusInv, TypeInv, MessageType, IsBatch
  <2>2. HasVoted(n, cert.batch)
    BY Zenon DEF ConsensusInv, CertificatesAreValid
  <2>3. OwnBatches(n) /\ HeldInv(n) /\ OnceInv(n)
    BY <2>1, Zenon DEF ConsensusInv, OwnInv
  <2>4. cert.batch \in pending[n] \cup processed[n]
    <3>1. CASE <<n, cert.batch>> \in ballots
      BY <2>1, <2>3, <3>1, Zenon DEF HeldInv
    <3>2. CASE cert.batch.proposer = n
      BY <2>1, <2>3, <3>2 DEF OwnBatches
    <3> QED BY <2>2, <3>1, <3>2, Zenon DEF HasVoted
  <2>5. Range(confirmed[n]) = processed[n]
    BY <2>3, Zenon DEF OnceInv
  <2> QED BY <2>4, <2>5, Zenon DEF Holds
<1> QED BY <1>1, ConsensusInvariant, PTL
=============================================================================
