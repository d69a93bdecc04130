-------------------------- MODULE SwarmLoopProofs --------------------------
(***************************************************************************)
(* Proofs about the p2p loop, for any number of peers, tasks and           *)
(* connections and any sizes of the channels.                              *)
(***************************************************************************)
EXTENDS SwarmLoop, FiniteSetTheorems, TLAPS

-----------------------------------------------------------------------------
(***************************************************************************)
(* Which steps touch which part of the state                               *)
(***************************************************************************)

\* The scores are changed with the mutex only: by the loop and by tasks of gossip.
LEMMA WhoChangesScores ==
  ASSUME [Next]_vars
  PROVE  UseScores \/ (\E t \in TaskIds : GossipHandled(t)) \/ UNCHANGED scores
<1>1. CASE LoopSends \/ Tick \/ ReceiveCommand \/ SendResponse \/ EngineReceives
  BY <1>1 DEF LoopSends, Tick, ReceiveCommand, SendResponse, EngineReceives
<1>2. CASE SwarmEvent
  BY <1>2, Zenon DEF SwarmEvent, ConnectionEstablished, ConnectionClosed, IdentifyReceived,
              GossipMessage, FallbackMessage, SyncRequest, SyncResponse
<1>3. ASSUME NEW t \in TaskIds, TaskRuns(t) \/ Lookup(t), ~ GossipHandled(t)
      PROVE  UNCHANGED scores
  BY <1>3 DEF TaskRuns, GossipLocks, Forward, Inform, FallbackReplies, Respond, Lookup
<1>4. ASSUME NEW command, EngineCommands(command)
      PROVE  UNCHANGED scores
  BY <1>4 DEF EngineCommands
<1>5. CASE UNCHANGED vars
  BY <1>5 DEF vars
<1> QED BY <1>1, <1>2, <1>3, <1>4, <1>5, Zenon DEF Next

\* Connections and pending dials are changed by the loop only.
LEMMA WhoChangesDials ==
  ASSUME [Next]_vars
  PROVE  \/ \E p \in Peers : ConnectionEstablished(p) \/ ConnectionClosed(p)
         \/ ReceiveCommand
         \/ UNCHANGED <<connections, pending_dials>>
<1>1. CASE UseScores \/ LoopSends \/ Tick \/ SendResponse \/ EngineReceives
  BY <1>1, Zenon DEF UseScores, LoopSends, Tick, SendResponse, EngineReceives
<1>2. CASE SwarmEvent
  BY <1>2, Zenon DEF SwarmEvent, IdentifyReceived, GossipMessage, FallbackMessage, SyncRequest,
              SyncResponse
<1>3. ASSUME NEW t \in TaskIds, TaskRuns(t) \/ Lookup(t)
      PROVE  UNCHANGED <<connections, pending_dials>>
  BY <1>3 DEF TaskRuns, GossipLocks, GossipHandled, Forward, Inform, FallbackReplies,
              Respond, Lookup
<1>4. ASSUME NEW command, EngineCommands(command)
      PROVE  UNCHANGED <<connections, pending_dials>>
  BY <1>4 DEF EngineCommands
<1>5. CASE UNCHANGED vars
  BY <1>5 DEF vars
<1> QED BY <1>1, <1>2, <1>3, <1>4, <1>5, Zenon DEF Next

\* A peer gets known when it identifies itself, and only then.
LEMMA WhoGetsKnown ==
  ASSUME [Next]_vars
  PROVE  (\E p \in Peers : IdentifyReceived(p)) \/ UNCHANGED known_peers
<1>1. CASE UseScores \/ LoopSends \/ Tick \/ ReceiveCommand \/ SendResponse \/ EngineReceives
  BY <1>1, Zenon DEF UseScores, LoopSends, Tick, ReceiveCommand, SendResponse, EngineReceives
<1>2. CASE SwarmEvent
  BY <1>2, Zenon DEF SwarmEvent, ConnectionEstablished, ConnectionClosed, GossipMessage,
              FallbackMessage, SyncRequest, SyncResponse
<1>3. ASSUME NEW t \in TaskIds, TaskRuns(t) \/ Lookup(t)
      PROVE  UNCHANGED known_peers
  BY <1>3 DEF TaskRuns, GossipLocks, GossipHandled, Forward, Inform, FallbackReplies,
              Respond, Lookup
<1>4. ASSUME NEW command, EngineCommands(command)
      PROVE  UNCHANGED known_peers
  BY <1>4 DEF EngineCommands
<1>5. CASE UNCHANGED vars
  BY <1>5 DEF vars
<1> QED BY <1>1, <1>2, <1>3, <1>4, <1>5, Zenon DEF Next

\* The loop waits for room or for the mutex, and then for one of three uses.
LEMMA WhatTheLoopDoes ==
  ASSUME [Next]_vars
  PROVE  \/ loop' \in {loop, Idle, [for |-> "room"]}
         \/ \E use \in {"insert", "remove", "penalty"} : \E p : LockScores(use, p)
<1>1. CASE UseScores \/ LoopSends \/ Tick \/ SendResponse \/ EngineReceives
  BY <1>1, Zenon DEF UseScores, LoopSends, Tick, SendResponse, EngineReceives
<1>2. CASE ReceiveCommand
  BY <1>2 DEF ReceiveCommand
<1>3. CASE SwarmEvent
  BY <1>3, Zenon DEF SwarmEvent, ConnectionEstablished, ConnectionClosed, IdentifyReceived,
              GossipMessage, FallbackMessage, SyncRequest, SyncResponse
<1>4. ASSUME NEW t \in TaskIds, TaskRuns(t) \/ Lookup(t)
      PROVE  UNCHANGED loop
  BY <1>4 DEF TaskRuns, GossipLocks, GossipHandled, Forward, Inform, FallbackReplies,
              Respond, Lookup
<1>5. ASSUME NEW command, EngineCommands(command)
      PROVE  UNCHANGED loop
  BY <1>5 DEF EngineCommands
<1>6. CASE UNCHANGED vars
  BY <1>6 DEF vars
<1> QED BY <1>1, <1>2, <1>3, <1>4, <1>5, <1>6, Zenon DEF Next

UsesAreKnown == loop.for = "scores" => loop.use \in {"insert", "remove", "penalty"}

\* UsesAreKnown is inductive.
LEMMA UsesStayKnown ==
  ASSUME UsesAreKnown, [Next]_vars
  PROVE  UsesAreKnown'
<1>1. CASE loop' \in {loop, Idle, [for |-> "room"]}
  BY <1>1, UsesAreKnown DEF UsesAreKnown, Idle
<1>2. CASE \E use \in {"insert", "remove", "penalty"} : \E p : LockScores(use, p)
  BY <1>2 DEF UsesAreKnown, LockScores
<1> QED BY <1>1, <1>2, WhatTheLoopDoes

-----------------------------------------------------------------------------
(***************************************************************************)
(* Scores and bans                                                         *)
(***************************************************************************)

\* What is true of the score of one peer.
IsScore(info) ==
  /\ info \in [score : BanThreshold - 1 .. MaxPeerScore, is_banned : BOOLEAN]
  /\ info.score <= BanThreshold => info.is_banned

\* A peer that is not in the table has the score of a new one.
LEMMA NewPeerIsScore == IsScore(NewPeer)
BY ConstantsAssumption DEF IsScore, NewPeer

\* apply_penalty clamps the score below and bans at the threshold.
LEMMA PenaltyIsScore ==
  ASSUME NEW info, IsScore(info), NEW penalty \in Int \ Nat
  PROVE  IsScore(ApplyPenalty(info, penalty))
<1> DEFINE low == BanThreshold - 1
           score == Larger(info.score + penalty, low)
           banned == info.is_banned \/ score <= BanThreshold
<1>1. score \in low .. MaxPeerScore
  BY ConstantsAssumption DEF IsScore, Larger
<1>2. ApplyPenalty(info, penalty) =
        [score |-> score, is_banned |-> banned]
  BY DEF ApplyPenalty
<1>3. banned \in BOOLEAN
  BY Zenon
<1>4. score <= BanThreshold => banned
  OBVIOUS
<1> HIDE DEF score, banned
<1> QED BY <1>1, <1>2, <1>3, <1>4 DEF IsScore

\* apply_reward clamps the score above and leaves a ban that the score still calls for.
LEMMA RewardIsScore ==
  ASSUME NEW info, IsScore(info)
  PROVE  IsScore(ApplyReward(info))
BY ConstantsAssumption DEF IsScore, ApplyReward, Smaller

ScoresInv == \A p \in DOMAIN scores : IsScore(scores[p])

\* Writing a score for one peer leaves the table good.
LEMMA SetScoreKeeps ==
  ASSUME ScoresInv, NEW p, NEW info, SetScore(p, info), IsScore(info)
  PROVE  ScoresInv'
BY DEF ScoresInv, SetScore

\* Every entry of the table stays a score.
LEMMA StepKeepsScores ==
  ASSUME ScoresInv, UsesAreKnown, [Next]_vars
  PROVE  ScoresInv'
<1>1. CASE UNCHANGED scores
  BY <1>1, ScoresInv DEF ScoresInv
<1>2. CASE UseScores
  <2>1. loop.use \in {"insert", "remove", "penalty"}
    BY <1>2, UsesAreKnown DEF UseScores, UsesAreKnown
  <2>2. CASE loop.use = "insert"
    <3>1. SetScore(loop.peer, Score(loop.peer))
      BY <1>2, <2>2 DEF UseScores
    <3>2. IsScore(Score(loop.peer))
      BY NewPeerIsScore, ScoresInv DEF Score, ScoresInv
    <3> QED BY <3>1, <3>2, SetScoreKeeps, ScoresInv
  <2>3. CASE loop.use = "remove"
    <3>1. scores' = [q \in DOMAIN scores \ {loop.peer} |-> scores[q]]
      BY <1>2, <2>3 DEF UseScores, Restrict
    <3> QED BY <3>1, <2>3, ScoresInv DEF ScoresInv
  <2>4. CASE loop.use = "penalty" /\ loop.peer \in DOMAIN scores
    <3>1. SetScore(loop.peer, ApplyPenalty(Score(loop.peer), CertificatePenalty))
      BY <1>2, <2>4 DEF UseScores
    <3>2. IsScore(ApplyPenalty(Score(loop.peer), CertificatePenalty))
      BY <2>4, PenaltyIsScore, ConstantsAssumption, ScoresInv DEF Score, ScoresInv
    <3> QED BY <3>1, <3>2, SetScoreKeeps, ScoresInv
  <2>5. CASE loop.use = "penalty" /\ loop.peer \notin DOMAIN scores
    BY <1>2, <2>5, <1>1 DEF UseScores
  <2> QED BY <2>1, <2>2, <2>3, <2>4, <2>5
<1>3. ASSUME NEW t \in TaskIds, GossipHandled(t)
      PROVE  ScoresInv'
  <2> DEFINE p == tasks[t].peer
  <2>1. IsScore(Score(p))
    BY NewPeerIsScore, ScoresInv DEF Score, ScoresInv
  <2>2. \E info : SetScore(p, info) /\ IsScore(info)
    <3>1. \/ SetScore(p, ApplyPenalty(Score(p), GarbagePenalty))
          \/ SetScore(p, ApplyReward(Score(p)))
      BY <1>3 DEF GossipHandled
    <3>2. IsScore(ApplyPenalty(Score(p), GarbagePenalty)) /\ IsScore(ApplyReward(Score(p)))
      BY <2>1, PenaltyIsScore, RewardIsScore, ConstantsAssumption
    <3> QED BY <3>1, <3>2
  <2> QED BY <2>2, SetScoreKeeps, ScoresInv
<1> QED BY <1>1, <1>2, <1>3, WhoChangesScores

\* A peer whose score has reached the threshold is marked as banned, whoever took the
\* points away.
THEOREM LowScoresAreAlwaysBanned == Spec => []LowScoresAreBanned
<1>1. Init => ScoresInv /\ UsesAreKnown
  BY DEF Init, ScoresInv, UsesAreKnown, Idle
<1>2. ScoresInv /\ UsesAreKnown /\ [Next]_vars => (ScoresInv /\ UsesAreKnown)'
  BY StepKeepsScores, UsesStayKnown
<1>3. ScoresInv => LowScoresAreBanned
  BY DEF ScoresInv, IsScore, LowScoresAreBanned
<1> QED BY <1>1, <1>2, <1>3, PTL DEF Spec

-----------------------------------------------------------------------------
(***************************************************************************)
(* Dials                                                                   *)
(***************************************************************************)

DialsInv ==
  /\ connections \in [Peers -> Nat]
  /\ ConnectedPeersAreNotPending

\* DialsInv is inductive.
LEMMA DialsInvKept ==
  ASSUME DialsInv, [Next]_vars
  PROVE  DialsInv'
<1> USE DialsInv DEF DialsInv, ConnectedPeersAreNotPending, ConnectedPeers, IsConnected
<1>1. ASSUME NEW p \in Peers, ConnectionEstablished(p) PROVE DialsInv'
  BY <1>1 DEF ConnectionEstablished
<1>2. ASSUME NEW p \in Peers, ConnectionClosed(p) PROVE DialsInv'
  BY <1>2 DEF ConnectionClosed
<1>3. CASE ReceiveCommand
  <2>1. UNCHANGED connections
    BY <1>3 DEF ReceiveCommand
  <2>2. \/ UNCHANGED pending_dials
        \/ \E p : ~ IsConnected(p) /\ pending_dials' = pending_dials \cup {p}
    BY <1>3 DEF ReceiveCommand
  <2> QED BY <2>1, <2>2
<1>4. CASE UNCHANGED <<connections, pending_dials>>
  BY <1>4
<1> QED BY <1>1, <1>2, <1>3, <1>4, WhoChangesDials

\* A peer that is connected is never taken for one that is being dialled.
THEOREM ConnectedPeersAreNeverPending == Spec => []ConnectedPeersAreNotPending
<1>1. Init => DialsInv
  BY ConstantsAssumption DEF Init, DialsInv, ConnectedPeersAreNotPending
<1>2. DialsInv /\ [Next]_vars => DialsInv'
  BY DialsInvKept
<1>3. DialsInv => ConnectedPeersAreNotPending
  BY DEF DialsInv
<1> QED BY <1>1, <1>2, <1>3, PTL DEF Spec

-----------------------------------------------------------------------------
(***************************************************************************)
(* Types, the queue for the mutex, and the requests on their way           *)
(***************************************************************************)

Command == {Send} \cup [kind : {"penalty", "dial"}, peer : Peers]

Counted == {"forward", "inform"}   \* the requests that are counted

IsTask(x) ==
  /\ x \in [kind : GossipKinds \cup Counted \cup {"get", "fallback"},
            peer : Peers \cup {NoPeer}, at : {"start", "locking", "respond"},
            addresses : Seq(Peers)]
  /\ x.kind \in GossipKinds => x.peer \in Peers

\* The tasks that are at the mutex, and those that owe the answer of a request.
Locking(ts) == {t \in DOMAIN ts : ts[t].at = "locking"}

Owing(ts) == {t \in DOMAIN ts : ts[t].kind \in Counted}

\* The positions of the answers in the queue of responses.
Due(rs) == {n \in DOMAIN rs : rs[n] # "get"}

\* What the queues and the tasks hold.
QueuesInv ==
  /\ commands \in Seq(Command) /\ Len(commands) <= CommandsSize
  /\ responses \in Seq(Counted \cup {"get"}) /\ Len(responses) <= ResponsesSize
  /\ DOMAIN tasks \subseteq TaskIds /\ \A t \in DOMAIN tasks : IsTask(tasks[t])
  /\ loop.for = "scores" =>
       loop.use \in {"insert", "remove", "penalty"} /\ loop.peer \in Peers

TablesInv ==
  /\ connections \in [Peers -> 0 .. MaxConnections]
  /\ DOMAIN scores \subseteq Peers
  /\ pending_dials \subseteq Peers
  /\ known_peers \subseteq Peers
  /\ channel \in 0 .. ChannelSize
  /\ stable_since \in Unstable .. StabilityWindow
  /\ ready \in BOOLEAN
  /\ events \in 0 .. MaxEvents

LockInv ==
  /\ lock \in Seq({Loop} \cup TaskIds)
  /\ IsInjective(lock)
  /\ Range(lock) = Locking(tasks) \cup (IF loop.for = "scores" THEN {Loop} ELSE {})

\* A request that is counted is answered, or its answer is in the queue, or a task owes it.
CountInv ==
  /\ requests \in Nat /\ answers \in Nat
  /\ requests = answers + Cardinality(Due(responses)) + Cardinality(Owing(tasks))

\* Who comes to the queue of the mutex goes to its end.
LEMMA QueueGrows ==
  ASSUME NEW S, NEW q \in Seq(S), IsInjective(q), NEW x \in S, x \notin Range(q)
  PROVE  /\ Append(q, x) \in Seq(S) /\ IsInjective(Append(q, x))
         /\ Range(Append(q, x)) = Range(q) \cup {x}
<1> DEFINE r == Append(q, x)
           n == Len(q)
<1>1. /\ r \in Seq(S) /\ Len(r) = n + 1 /\ \A i \in 1 .. n : r[i] = q[i]
      /\ r[n + 1] = x
  OBVIOUS
<1>2. n \in Nat /\ DOMAIN q = 1 .. n /\ DOMAIN r = 1 .. n + 1
  BY <1>1
<1> HIDE DEF r, n
<1>3. \A i \in 1 .. n : q[i] # x
  BY <1>2 DEF Range
<1>4. IsInjective(r)
  BY <1>1, <1>2, <1>3 DEF IsInjective
<1>5. Range(r) = Range(q) \cup {x}
  BY <1>1, <1>2 DEF Range
<1> QED BY <1>1, <1>4, <1>5 DEF r

\* Who has had the mutex leaves the queue.
LEMMA QueueShrinks ==
  ASSUME NEW S, NEW q \in Seq(S), IsInjective(q), q # <<>>
  PROVE  /\ Tail(q) \in Seq(S) /\ IsInjective(Tail(q))
         /\ Range(Tail(q)) = Range(q) \ {Head(q)}
<1> DEFINE r == Tail(q)
           n == Len(q)
<1>1. r \in Seq(S) /\ Len(r) = n - 1 /\ \A i \in 1 .. Len(r) : r[i] = q[i + 1]
  OBVIOUS
<1>2. n \in Nat \ {0} /\ DOMAIN q = 1 .. n /\ DOMAIN r = 1 .. n - 1
  BY <1>1
<1>3. Head(q) = q[1]
  OBVIOUS
<1> HIDE DEF r, n
<1>4. \A i \in 1 .. n - 1 : i + 1 \in 1 .. n /\ r[i] = q[i + 1]
  BY <1>1, <1>2
<1>5. IsInjective(r)
  BY <1>2, <1>4, SMTT(30) DEF IsInjective
<1>6. Range(r) \subseteq Range(q) \ {Head(q)}
  BY <1>2, <1>3, <1>4, SMTT(30) DEF Range, IsInjective
<1>7. ASSUME NEW x \in Range(q) \ {Head(q)}
      PROVE  x \in Range(r)
  <2>1. PICK i \in 1 .. n : q[i] = x
    BY <1>2 DEF Range
  <2>2. i # 1
    BY <1>3, <2>1
  <2>3. i - 1 \in 1 .. n - 1 /\ r[i - 1] = x
    BY <1>2, <1>4, <2>1, <2>2
  <2> QED BY <1>2, <2>3 DEF Range
<1> QED BY <1>1, <1>5, <1>6, <1>7 DEF r

\* The answers in the queue are finitely many.
LEMMA DueIsFinite ==
  ASSUME NEW S, NEW rs \in Seq(S)
  PROVE  IsFiniteSet(Due(rs)) /\ Cardinality(Due(rs)) \in Nat
<1>1. Len(rs) \in Nat /\ DOMAIN rs = 1 .. Len(rs)
  OBVIOUS
<1>2. IsFiniteSet(1 .. Len(rs)) /\ Due(rs) \in SUBSET (1 .. Len(rs))
  BY <1>1, FS_Interval DEF Due
<1> QED BY <1>2, FS_Subset, FS_CardinalityType

\* A response that is queued is one more answer on its way, unless it carries a batch.
LEMMA DueGrows ==
  ASSUME NEW S, NEW rs \in Seq(S), NEW x \in S
  PROVE  Cardinality(Due(Append(rs, x))) =
           Cardinality(Due(rs)) + (IF x = "get" THEN 0 ELSE 1)
<1> DEFINE r == Append(rs, x)
           n == Len(rs)
<1>1. r \in Seq(S) /\ Len(r) = n + 1 /\ (\A i \in 1 .. n : r[i] = rs[i]) /\ r[n + 1] = x
  OBVIOUS
<1>2. n \in Nat /\ DOMAIN rs = 1 .. n /\ DOMAIN r = 1 .. n + 1
  BY <1>1
<1> HIDE DEF r, n
<1>3. Due(r) = IF x = "get" THEN Due(rs) ELSE Due(rs) \cup {n + 1}
  BY <1>1, <1>2 DEF Due
<1>4. n + 1 \notin Due(rs)
  BY <1>2 DEF Due
<1>5. IsFiniteSet(Due(rs)) /\ Cardinality(Due(rs)) \in Nat
  BY DueIsFinite
<1>6. CASE x = "get"
  BY <1>3, <1>5, <1>6 DEF r
<1>7. CASE x # "get"
  BY <1>3, <1>4, <1>5, <1>7, FS_AddElement, Zenon DEF r
<1> QED BY <1>6, <1>7

\* A response that is sent is one less.
LEMMA DueShrinks ==
  ASSUME NEW S, NEW rs \in Seq(S), rs # <<>>
  PROVE  Cardinality(Due(rs)) =
           Cardinality(Due(Tail(rs))) + (IF Head(rs) = "get" THEN 0 ELSE 1)
<1> DEFINE r == Tail(rs)
           n == Len(rs)
           later == Due(rs) \ {1}
           f == [i \in Due(r) |-> i + 1]
<1>1. r \in Seq(S) /\ Len(r) = n - 1 /\ \A i \in 1 .. Len(r) : r[i] = rs[i + 1]
  OBVIOUS
<1>2. n \in Nat \ {0} /\ DOMAIN rs = 1 .. n /\ DOMAIN r = 1 .. n - 1
  BY <1>1
<1>3. Head(rs) = rs[1]
  OBVIOUS
<1>4. IsFiniteSet(Due(rs)) /\ Cardinality(Due(rs)) \in Nat /\ IsFiniteSet(Due(r))
  BY <1>1, DueIsFinite, Zenon
<1>5. Cardinality(Due(r)) \in Nat
  BY <1>4, FS_CardinalityType
<1> HIDE DEF r, n
<1>6. \A i \in 1 .. n - 1 : i + 1 \in 1 .. n /\ i + 1 # 1 /\ r[i] = rs[i + 1]
  BY <1>1, <1>2
<1>7. f \in Bijection(Due(r), later)
  <2>1. f \in [Due(r) -> later]
    BY <1>2, <1>6 DEF Due
  <2>2. IsInjective(f)
    BY <1>2 DEF IsInjective, Due
  <2>3. ASSUME NEW j \in later
        PROVE  \E i \in Due(r) : f[i] = j
    <3>1. j - 1 \in 1 .. n - 1 /\ (j - 1) + 1 = j
      BY <1>2 DEF Due
    <3>2. j - 1 \in Due(r)
      BY <1>2, <1>6, <3>1 DEF Due
    <3> QED BY <3>1, <3>2
  <2> HIDE DEF f, later
  <2> QED BY <2>1, <2>2, <2>3 DEF Bijection, Injection, Surjection
<1>8. IsFiniteSet(later) /\ Cardinality(later) = Cardinality(Due(r))
  BY <1>4, <1>7, FS_Bijection DEF ExistsBijection
<1>9. Cardinality(later) = IF 1 \in Due(rs) THEN Cardinality(Due(rs)) - 1
                                            ELSE Cardinality(Due(rs))
  BY <1>4, FS_RemoveElement, Zenon
<1>10. 1 \in Due(rs) <=> Head(rs) # "get"
  BY <1>2, <1>3 DEF Due
<1> HIDE DEF later
<1> QED BY <1>4, <1>5, <1>8, <1>9, <1>10 DEF r

\* The table of the tasks with one more, and with one less.
With(ts, id, x) == [t \in DOMAIN ts \cup {id} |-> IF t = id THEN x ELSE ts[t]]

Without(ts, id) == Restrict(ts, DOMAIN ts \ {id})

\* tokio::spawn adds a task to the others.
LEMMA SpawnAdds ==
  ASSUME DOMAIN tasks \subseteq TaskIds, NEW kind, NEW p, NEW addresses,
         Spawn(kind, p, addresses)
  PROVE  \E id \in TaskIds \ DOMAIN tasks :
           tasks' = With(tasks, id, [kind |-> kind, peer |-> p, at |-> "start",
                                     addresses |-> addresses])
<1> DEFINE unused == TaskIds \ DOMAIN tasks
           id == CHOOSE t \in unused : \A u \in unused : t <= u
<1>1. unused # {} /\ unused \in SUBSET Nat
  BY ConstantsAssumption DEF Spawn, TaskIds
<1>2. \E t \in unused : \A u \in unused : t <= u
  <2> HIDE DEF unused
  <2>1. PICK t \in unused : \A u \in unused : ~ (<<u, t>> \in OpToRel(<, Nat))
    BY <1>1, NatLessThanWellFounded, WFMin, Zenon
  <2>2. \A u \in unused : ~ (u < t)
    BY <1>1, <2>1, Zenon DEF OpToRel
  <2> QED BY <1>1, <2>2
<1>3. id \in unused
  BY <1>2
<1>4. tasks' = With(tasks, id, [kind |-> kind, peer |-> p, at |-> "start",
                                addresses |-> addresses])
  BY DEF Spawn, With
<1> HIDE DEF id
<1> QED BY <1>3, <1>4

\* What a new task, a step of a task and its end do to the sets of tasks.
LEMMA TaskAdded ==
  ASSUME NEW ts, NEW id, id \notin DOMAIN ts, NEW x, x.at # "locking"
  PROVE  /\ Locking(With(ts, id, x)) = Locking(ts)
         /\ x.kind \in Counted => Owing(With(ts, id, x)) = Owing(ts) \cup {id}
         /\ x.kind \notin Counted => Owing(With(ts, id, x)) = Owing(ts)
BY DEF With, Locking, Owing

Moved(ts, id, x) == [ts EXCEPT ![id] = x]

\* See TaskAdded.
LEMMA TaskMoved ==
  ASSUME NEW ts, NEW id \in DOMAIN ts, NEW x, x.kind = ts[id].kind
  PROVE  /\ x.at = "locking" => Locking(Moved(ts, id, x)) = Locking(ts) \cup {id}
         /\ x.at # "locking" => Locking(Moved(ts, id, x)) = Locking(ts) \ {id}
         /\ Owing(Moved(ts, id, x)) = Owing(ts)
BY DEF Moved, Locking, Owing

\* See TaskAdded.
LEMMA TaskEnded ==
  ASSUME NEW ts, NEW id \in DOMAIN ts
  PROVE  /\ Locking(Without(ts, id)) = Locking(ts) \ {id}
         /\ Owing(Without(ts, id)) = Owing(ts) \ {id}
BY DEF Without, Restrict, Locking, Owing

Started(kind, p, addresses) ==
  [kind |-> kind, peer |-> p, at |-> "start", addresses |-> addresses]

\* The requests and messages of peers start tasks, and nothing else does.
LEMMA WhoStartsTasks ==
  ASSUME QueuesInv, requests \in Nat, SwarmEvent
  PROVE  \/ UNCHANGED <<tasks, requests>>
         \/ \E id \in TaskIds \ DOMAIN tasks : \E kind, p, addresses :
              /\ IsTask(Started(kind, p, addresses))
              /\ tasks' = With(tasks, id, Started(kind, p, addresses))
              /\ requests' = requests + (IF kind \in Counted THEN 1 ELSE 0)
              /\ UNCHANGED <<lock, loop>>
<1> DEFINE Goal == \E id \in TaskIds \ DOMAIN tasks : \E kind, p, addresses :
                     /\ IsTask(Started(kind, p, addresses))
                     /\ tasks' = With(tasks, id, Started(kind, p, addresses))
                     /\ requests' = requests + (IF kind \in Counted THEN 1 ELSE 0)
                     /\ UNCHANGED <<lock, loop>>
<1>1. DOMAIN tasks \subseteq TaskIds
  BY DEF QueuesInv
<1>2. ASSUME NEW kind, NEW p, NEW addresses, Spawn(kind, p, addresses),
             IsTask(Started(kind, p, addresses)), UNCHANGED <<lock, loop>>,
             requests' = requests + (IF kind \in Counted THEN 1 ELSE 0)
      PROVE  Goal
  <2>1. PICK id \in TaskIds \ DOMAIN tasks :
          tasks' = With(tasks, id, Started(kind, p, addresses))
    BY <1>1, <1>2, SpawnAdds DEF Started
  <2> QED BY <1>2, <2>1
<1> HIDE DEF Goal
<1> SUFFICES UNCHANGED <<tasks, requests>> \/ Goal
  BY DEF Goal
<1>3. PICK p \in Peers :
        \/ ConnectionEstablished(p) \/ ConnectionClosed(p) \/ IdentifyReceived(p)
        \/ \E kind \in GossipKinds : GossipMessage(p, kind)
        \/ FallbackMessage(p)
        \/ \E kind \in {"forward", "get"} : SyncRequest(p, kind, <<>>)
        \/ \E q \in Peers \ {p} : SyncRequest(p, "inform", <<q, p>>)
        \/ SyncResponse(p)
  BY Zenon DEF SwarmEvent
<1>4. CASE ConnectionEstablished(p) \/ ConnectionClosed(p) \/ IdentifyReceived(p)
           \/ SyncResponse(p)
  BY <1>4 DEF ConnectionEstablished, ConnectionClosed, IdentifyReceived, SyncResponse
<1>5. ASSUME NEW kind \in GossipKinds, GossipMessage(p, kind)
      PROVE  Goal
  <2>1. Spawn(kind, p, <<>>) /\ UNCHANGED <<lock, loop, requests>> /\ kind \notin Counted
    BY <1>5 DEF GossipMessage, GossipKinds, Counted
  <2>2. IsTask(Started(kind, p, <<>>))
    BY <1>5 DEF IsTask, Started
  <2>3. requests' = requests + (IF kind \in Counted THEN 1 ELSE 0)
    BY <2>1
  <2> QED BY <1>2, <2>1, <2>2, <2>3
<1>6. CASE FallbackMessage(p)
  <2>1. /\ Spawn("fallback", NoPeer, <<>>) /\ UNCHANGED <<lock, loop, requests>>
        /\ "fallback" \notin Counted \cup GossipKinds
    BY <1>6 DEF FallbackMessage, Counted, GossipKinds
  <2>2. IsTask(Started("fallback", NoPeer, <<>>))
    BY <2>1 DEF IsTask, Started
  <2>3. requests' = requests + (IF "fallback" \in Counted THEN 1 ELSE 0)
    BY <2>1
  <2> QED BY <1>2, <2>1, <2>2, <2>3
<1>7. ASSUME NEW kind \in Counted \cup {"get"}, NEW addresses \in Seq(Peers),
             SyncRequest(p, kind, addresses)
      PROVE  Goal
  <2>1. Spawn(kind, NoPeer, addresses) /\ UNCHANGED <<lock, loop>>
    BY <1>7 DEF SyncRequest
  <2>2. (kind = "get" <=> kind \notin Counted) /\ kind \notin GossipKinds
    BY DEF Counted, GossipKinds
  <2>3. requests' = requests + (IF kind \in Counted THEN 1 ELSE 0)
    BY <1>7, <2>2 DEF SyncRequest
  <2>4. IsTask(Started(kind, NoPeer, addresses))
    BY <2>2 DEF IsTask, Started
  <2> QED BY <1>2, <2>1, <2>3, <2>4
<1>8. ASSUME NEW kind \in {"forward", "get"}, SyncRequest(p, kind, <<>>)
      PROVE  Goal
  <2>1. kind \in Counted \cup {"get"} /\ <<>> \in Seq(Peers)
    BY DEF Counted
  <2> QED BY <1>7, <1>8, <2>1, Zenon
<1>9. ASSUME NEW q \in Peers, SyncRequest(p, "inform", <<q, p>>)
      PROVE  Goal
  <2>1. "inform" \in Counted \cup {"get"} /\ <<q, p>> \in Seq(Peers)
    BY DEF Counted
  <2> QED BY <1>7, <1>9, <2>1, Zenon
<1> QED BY <1>3, <1>4, <1>5, <1>6, <1>8, <1>9, Zenon

\* The tasks move on, or end when they are through.
TaskMoves(t, at) ==
  /\ t \in DOMAIN tasks
  /\ \E x : /\ IsTask(x) /\ x.kind = tasks[t].kind /\ x.at = at
            /\ tasks' = Moved(tasks, t, x)
  /\ UNCHANGED <<responses, loop, requests, answers>>

\* See TaskMoves.
TaskEnds(t) ==
  /\ t \in DOMAIN tasks
  /\ tasks' = Without(tasks, t)
  /\ UNCHANGED <<loop, requests, answers>>

\* The steps of the tasks, by what they do to the tasks.
LEMMA WhatTasksDo ==
  ASSUME QueuesInv, NEW t \in TaskIds, TaskRuns(t) \/ Lookup(t)
  PROVE  \/ GossipLocks(t) /\ TaskMoves(t, "locking")
         \/ GossipHandled(t) /\ TaskEnds(t) /\ UNCHANGED responses
         \/ /\ UNCHANGED lock /\ tasks[t].at # "locking"
            /\ \/ \E at \in {"start", "respond"} : TaskMoves(t, at)
               \/ TaskEnds(t) /\ UNCHANGED responses /\ tasks[t].kind \notin Counted
         \/ Respond(t) /\ TaskEnds(t)
<1>1. \A u \in DOMAIN tasks : IsTask(tasks[u])
  BY DEF QueuesInv
<1>2. ASSUME NEW at \in {"start", "locking", "respond"}, t \in DOMAIN tasks, GoTo(t, at),
             UNCHANGED <<responses, loop, requests, answers>>
      PROVE  TaskMoves(t, at)
  <2> DEFINE x == [tasks[t] EXCEPT !.at = at]
  <2>1. IsTask(x) /\ x.kind = tasks[t].kind /\ x.at = at
    BY <1>1, <1>2 DEF IsTask
  <2>2. tasks' = Moved(tasks, t, x)
    BY <1>2 DEF GoTo, Moved
  <2> HIDE DEF x
  <2> QED BY <1>2, <2>1, <2>2, Zenon DEF TaskMoves
<1>3. ASSUME t \in DOMAIN tasks, Finish(t), UNCHANGED <<loop, requests, answers>>
      PROVE  TaskEnds(t)
  BY <1>3 DEF Finish, TaskEnds, Without
<1>4. CASE GossipLocks(t)
  <2>1. /\ t \in DOMAIN tasks /\ GoTo(t, "locking")
        /\ UNCHANGED <<responses, loop, requests, answers>>
    BY <1>4 DEF GossipLocks, IsAt
  <2> QED BY <1>2, <1>4, <2>1
<1>5. CASE GossipHandled(t)
  <2>1. t \in DOMAIN tasks /\ Finish(t) /\ UNCHANGED <<responses, loop, requests, answers>>
    BY <1>5 DEF GossipHandled, IsAt
  <2> QED BY <1>3, <1>5, <2>1
<1>6. CASE Forward(t)
  <2>1. /\ t \in DOMAIN tasks /\ GoTo(t, "respond") /\ tasks[t].at = "start"
        /\ UNCHANGED <<lock, responses, loop, requests, answers>>
    BY <1>6 DEF Forward, IsAt
  <2> QED BY <1>2, <2>1
<1>7. CASE Inform(t)
  <2>1. /\ t \in DOMAIN tasks /\ tasks[t].at = "start"
        /\ UNCHANGED <<lock, responses, loop, requests, answers>>
    BY <1>7 DEF Inform, IsAt
  <2>2. CASE tasks[t].addresses = <<>>
    <3>1. GoTo(t, "respond")
      BY <1>7, <2>2 DEF Inform
    <3> QED BY <1>2, <2>1, <3>1, Zenon
  <2>3. CASE tasks[t].addresses # <<>>
    <3> DEFINE x == [tasks[t] EXCEPT !.addresses = Tail(@)]
    <3>1. tasks' = Moved(tasks, t, x)
      BY <1>7, <2>3 DEF Inform, Moved
    <3>2. Tail(tasks[t].addresses) \in Seq(Peers)
      BY <1>1, <2>1, <2>3 DEF IsTask
    <3>3. IsTask(x) /\ x.kind = tasks[t].kind /\ x.at = "start"
      BY <1>1, <2>1, <3>2, Zenon DEF IsTask
    <3> HIDE DEF x
    <3>4. TaskMoves(t, "start")
      BY <2>1, <3>1, <3>3 DEF TaskMoves
    <3> QED BY <2>1, <3>4
  <2> QED BY <2>2, <2>3
<1>8. CASE Lookup(t)
  <2>1. /\ t \in DOMAIN tasks /\ tasks[t].at = "start" /\ tasks[t].kind \in {"get", "fallback"}
        /\ GoTo(t, "respond") \/ Finish(t)
        /\ UNCHANGED <<lock, responses, loop, requests, answers>>
    BY <1>8, Zenon DEF Lookup, IsAt
  <2>2. tasks[t].kind \notin Counted
    BY <2>1 DEF Counted
  <2> QED BY <1>2, <1>3, <2>1, <2>2
<1>9. CASE FallbackReplies(t)
  <2>1. /\ t \in DOMAIN tasks /\ tasks[t].at = "respond" /\ tasks[t].kind = "fallback"
        /\ Finish(t) /\ UNCHANGED <<lock, responses, loop, requests, answers>>
    BY <1>9 DEF FallbackReplies, IsAt
  <2>2. tasks[t].kind \notin Counted
    BY <2>1 DEF Counted
  <2> QED BY <1>3, <2>1, <2>2
<1>10. CASE Respond(t)
  <2>1. t \in DOMAIN tasks /\ Finish(t) /\ UNCHANGED <<loop, requests, answers>>
    BY <1>10 DEF Respond, IsAt
  <2> QED BY <1>3, <1>10, <2>1
<1> QED BY <1>4, <1>5, <1>6, <1>7, <1>8, <1>9, <1>10, Zenon DEF TaskRuns

\* The other steps leave the tasks alone.
LEMMA OthersLeaveTasks ==
  ASSUME [Next]_vars
  PROVE  \/ SwarmEvent
         \/ \E t \in TaskIds : TaskRuns(t) \/ Lookup(t)
         \/ UNCHANGED <<tasks, requests>>
<1>1. CASE UseScores \/ LoopSends \/ Tick \/ ReceiveCommand \/ SendResponse \/ EngineReceives
  BY <1>1, Zenon DEF UseScores, LoopSends, Tick, ReceiveCommand, SendResponse, EngineReceives
<1>2. ASSUME NEW command, EngineCommands(command)
      PROVE  UNCHANGED <<tasks, requests>>
  BY <1>2 DEF EngineCommands
<1>3. CASE UNCHANGED vars
  BY <1>3 DEF vars
<1> QED BY <1>1, <1>2, <1>3, Zenon DEF Next

\* Tasks stay tasks.
LEMMA TasksStayTasks ==
  ASSUME QueuesInv, requests \in Nat, [Next]_vars
  PROVE  DOMAIN tasks' \subseteq TaskIds /\ \A t \in DOMAIN tasks' : IsTask(tasks'[t])
<1>1. DOMAIN tasks \subseteq TaskIds /\ \A t \in DOMAIN tasks : IsTask(tasks[t])
  BY DEF QueuesInv
<1>2. CASE UNCHANGED tasks
  BY <1>1, <1>2
<1>3. ASSUME NEW id \in TaskIds \ DOMAIN tasks, NEW x, IsTask(x), tasks' = With(tasks, id, x)
      PROVE  DOMAIN tasks' \subseteq TaskIds /\ \A t \in DOMAIN tasks' : IsTask(tasks'[t])
  BY <1>1, <1>3 DEF With
<1>4. ASSUME NEW t \in TaskIds, NEW at, TaskMoves(t, at)
      PROVE  DOMAIN tasks' \subseteq TaskIds /\ \A u \in DOMAIN tasks' : IsTask(tasks'[u])
  <2>1. t \in DOMAIN tasks
    BY <1>4 DEF TaskMoves
  <2>2. PICK x : IsTask(x) /\ x.kind = tasks[t].kind /\ tasks' = Moved(tasks, t, x)
    BY <1>4 DEF TaskMoves
  <2> QED BY <1>1, <2>1, <2>2 DEF Moved
<1>5. ASSUME NEW t \in TaskIds, TaskEnds(t)
      PROVE  DOMAIN tasks' \subseteq TaskIds /\ \A u \in DOMAIN tasks' : IsTask(tasks'[u])
  BY <1>1, <1>5 DEF TaskEnds, Without, Restrict
<1>6. CASE SwarmEvent
  BY <1>2, <1>3, <1>6, WhoStartsTasks
<1>7. ASSUME NEW t \in TaskIds, TaskRuns(t) \/ Lookup(t)
      PROVE  DOMAIN tasks' \subseteq TaskIds /\ \A u \in DOMAIN tasks' : IsTask(tasks'[u])
  BY <1>4, <1>5, <1>7, WhatTasksDo
<1> QED BY <1>2, <1>6, <1>7, OthersLeaveTasks

\* What a command asks for is about a peer.
LEMMA CommandPeers ==
  ASSUME QueuesInv, commands # <<>>
  PROVE  /\ Head(commands).kind \in {"penalty", "dial"} => Head(commands).peer \in Peers
         /\ Tail(commands) \in Seq(Command) /\ Len(Tail(commands)) <= CommandsSize
<1>1. commands \in Seq(Command) /\ Len(commands) <= CommandsSize /\ CommandsSize \in Nat
  BY ConstantsAssumption DEF QueuesInv
<1>2. /\ Head(commands) \in Command /\ Tail(commands) \in Seq(Command)
      /\ Len(Tail(commands)) = Len(commands) - 1 /\ Len(commands) \in Nat
  BY <1>1
<1>3. \A c \in Command : c.kind \in {"penalty", "dial"} => c.peer \in Peers
  BY DEF Command, Send
<1> QED BY <1>1, <1>2, <1>3

\* The loop uses the scores of peers.
LEMMA UsesStayOfPeers ==
  ASSUME QueuesInv, [Next]_vars
  PROVE  loop'.for = "scores" =>
           loop'.use \in {"insert", "remove", "penalty"} /\ loop'.peer \in Peers
<1> DEFINE Goal == loop'.for = "scores" =>
                     loop'.use \in {"insert", "remove", "penalty"} /\ loop'.peer \in Peers
<1>1. ASSUME NEW use \in {"insert", "remove", "penalty"}, NEW p \in Peers, LockScores(use, p)
      PROVE  Goal
  BY <1>1 DEF LockScores
<1>2. CASE loop' \in {loop, Idle, [for |-> "room"]}
  BY <1>2 DEF QueuesInv, Idle
<1> HIDE DEF Goal
<1> SUFFICES Goal
  BY DEF Goal
<1>3. loop' \in {loop, Idle, [for |-> "room"]} => Goal
  BY <1>2 DEF Goal
<1>4. CASE UseScores \/ LoopSends \/ Tick \/ SendResponse \/ EngineReceives
  BY <1>3, <1>4, Zenon DEF UseScores, LoopSends, Tick, SendResponse, EngineReceives
<1>5. CASE ReceiveCommand
  <2>1. \/ loop' = loop
        \/ Head(commands).kind = "penalty" /\ LockScores("penalty", Head(commands).peer)
    BY <1>5 DEF ReceiveCommand
  <2>2. commands # <<>>
    BY <1>5 DEF ReceiveCommand
  <2> QED BY <1>1, <1>3, <2>1, <2>2, CommandPeers
<1>6. CASE SwarmEvent
  <2>1. \/ loop' \in {loop, Idle, [for |-> "room"]}
        \/ \E p \in Peers : LockScores("insert", p) \/ LockScores("remove", p)
    BY <1>6, Zenon DEF SwarmEvent, ConnectionEstablished, ConnectionClosed, IdentifyReceived,
                GossipMessage, FallbackMessage, SyncRequest, SyncResponse
  <2> QED BY <1>1, <1>3, <2>1
<1>7. ASSUME NEW t \in TaskIds, TaskRuns(t) \/ Lookup(t)
      PROVE  UNCHANGED loop
  BY <1>7 DEF TaskRuns, GossipLocks, GossipHandled, Forward, Inform, FallbackReplies,
              Respond, Lookup
<1>8. ASSUME NEW command, EngineCommands(command)
      PROVE  UNCHANGED loop
  BY <1>8 DEF EngineCommands
<1>9. CASE UNCHANGED vars
  BY <1>3, <1>9 DEF vars
<1> QED BY <1>3, <1>4, <1>5, <1>6, <1>7, <1>8, <1>9, Zenon DEF Next

\* The two queues of the loop hold what they should and stay within their sizes.
LEMMA QueuesStayQueues ==
  ASSUME QueuesInv, [Next]_vars
  PROVE  /\ commands' \in Seq(Command) /\ Len(commands') <= CommandsSize
         /\ responses' \in Seq(Counted \cup {"get"}) /\ Len(responses') <= ResponsesSize
<1> DEFINE CommandsOK == commands' \in Seq(Command) /\ Len(commands') <= CommandsSize
           ResponsesOK == /\ responses' \in Seq(Counted \cup {"get"})
                          /\ Len(responses') <= ResponsesSize
<1>1. /\ commands \in Seq(Command) /\ Len(commands) <= CommandsSize /\ CommandsSize \in Nat
      /\ responses \in Seq(Counted \cup {"get"}) /\ Len(responses) <= ResponsesSize
      /\ ResponsesSize \in Nat /\ Len(commands) \in Nat /\ Len(responses) \in Nat
  BY ConstantsAssumption DEF QueuesInv
<1>2. (UNCHANGED commands => CommandsOK) /\ (UNCHANGED responses => ResponsesOK)
  BY <1>1
<1>3. ASSUME NEW c \in Command, Len(commands) < CommandsSize, commands' = Append(commands, c)
      PROVE  CommandsOK
  BY <1>1, <1>3
<1>4. ASSUME NEW c \in Counted \cup {"get"}, Len(responses) < ResponsesSize,
             responses' = Append(responses, c)
      PROVE  ResponsesOK
  BY <1>1, <1>4
<1>5. ASSUME responses # <<>>, responses' = Tail(responses)
      PROVE  ResponsesOK
  BY <1>1, <1>5
<1>6. ASSUME commands # <<>>, commands' = Tail(commands)
      PROVE  CommandsOK
  BY <1>6, CommandPeers
<1> HIDE DEF CommandsOK, ResponsesOK
<1> SUFFICES CommandsOK /\ ResponsesOK
  BY DEF CommandsOK, ResponsesOK
<1>7. CASE UseScores \/ LoopSends \/ Tick \/ EngineReceives
  BY <1>2, <1>7, Zenon DEF UseScores, LoopSends, Tick, EngineReceives
<1>8. CASE ReceiveCommand
  BY <1>2, <1>6, <1>8 DEF ReceiveCommand
<1>9. CASE SendResponse
  BY <1>2, <1>5, <1>9 DEF SendResponse
<1>10. CASE SwarmEvent
  BY <1>2, <1>10, Zenon DEF SwarmEvent, ConnectionEstablished, ConnectionClosed, IdentifyReceived,
                     GossipMessage, FallbackMessage, SyncRequest, SyncResponse
<1>11. ASSUME NEW t \in TaskIds, GossipLocks(t) \/ GossipHandled(t) \/ Forward(t) \/ Lookup(t)
       PROVE  UNCHANGED <<commands, responses>>
  BY <1>11, Zenon DEF GossipLocks, GossipHandled, Forward, Lookup
<1>12. ASSUME NEW t \in TaskIds, Inform(t)
       PROVE  CommandsOK /\ ResponsesOK
  <2>1. UNCHANGED responses /\ t \in DOMAIN tasks
    BY <1>12 DEF Inform, IsAt
  <2>2. CASE tasks[t].addresses = <<>>
    BY <1>2, <1>12, <2>1, <2>2 DEF Inform
  <2>3. CASE tasks[t].addresses # <<>>
    <3> DEFINE c == [kind |-> "dial", peer |-> Head(tasks[t].addresses)]
    <3>1. Len(commands) < CommandsSize /\ commands' = Append(commands, c)
      BY <1>12, <2>3 DEF Inform
    <3>2. tasks[t].addresses \in Seq(Peers)
      BY <2>1 DEF QueuesInv, IsTask
    <3>3. Head(tasks[t].addresses) \in Peers
      BY <2>3, <3>2
    <3>4. c \in Command
      BY <3>3 DEF Command
    <3> HIDE DEF c
    <3> QED BY <1>2, <1>3, <2>1, <3>1, <3>4
  <2> QED BY <2>2, <2>3
<1>13. ASSUME NEW t \in TaskIds, FallbackReplies(t)
       PROVE  CommandsOK /\ ResponsesOK
  <2>1. Send \in Command
    BY DEF Command
  <2> QED BY <1>2, <1>3, <1>13, <2>1 DEF FallbackReplies
<1>14. ASSUME NEW t \in TaskIds, Respond(t)
       PROVE  CommandsOK /\ ResponsesOK
  <2>1. tasks[t].kind \in Counted \cup {"get"}
    BY <1>14 DEF Respond, IsAt, Counted
  <2> QED BY <1>2, <1>4, <1>14, <2>1 DEF Respond
<1>15. ASSUME NEW command \in Command, EngineCommands(command)
       PROVE  CommandsOK /\ ResponsesOK
  BY <1>2, <1>3, <1>15 DEF EngineCommands
<1>16. Send \in Command /\ \A p \in Peers : [kind |-> "penalty", peer |-> p] \in Command
  BY DEF Command
<1>17. CASE UNCHANGED vars
  BY <1>2, <1>17 DEF vars
<1>18. ASSUME NEW t \in TaskIds, TaskRuns(t) \/ Lookup(t)
       PROVE  CommandsOK /\ ResponsesOK
  BY <1>2, <1>11, <1>12, <1>13, <1>14, <1>18 DEF TaskRuns
<1> QED BY <1>7, <1>8, <1>9, <1>10, <1>15, <1>16, <1>17, <1>18, Zenon DEF Next

\* Only peers are connected, dialled and known.
LEMMA PeersStayPeers ==
  ASSUME TablesInv, QueuesInv, [Next]_vars
  PROVE  /\ connections' \in [Peers -> 0 .. MaxConnections]
         /\ pending_dials' \subseteq Peers
         /\ known_peers' \subseteq Peers
<1>1. /\ connections \in [Peers -> 0 .. MaxConnections] /\ pending_dials \subseteq Peers
      /\ known_peers \subseteq Peers
      /\ MaxConnections \in Nat
  BY ConstantsAssumption DEF TablesInv
<1>2. connections' \in [Peers -> 0 .. MaxConnections] /\ pending_dials' \subseteq Peers
  <2>1. ASSUME NEW p \in Peers, ConnectionEstablished(p)
        PROVE  connections' \in [Peers -> 0 .. MaxConnections] /\ pending_dials' \subseteq Peers
    BY <1>1, <2>1 DEF ConnectionEstablished
  <2>2. ASSUME NEW p \in Peers, ConnectionClosed(p)
        PROVE  connections' \in [Peers -> 0 .. MaxConnections] /\ pending_dials' \subseteq Peers
    BY <1>1, <2>2 DEF ConnectionClosed, IsConnected
  <2>3. CASE ReceiveCommand
    <3>1. UNCHANGED connections /\ commands # <<>>
      BY <2>3 DEF ReceiveCommand
    <3>2. \/ UNCHANGED pending_dials
          \/ /\ Head(commands).kind = "dial"
             /\ pending_dials' = pending_dials \cup {Head(commands).peer}
      BY <2>3 DEF ReceiveCommand
    <3> QED BY <1>1, <3>1, <3>2, CommandPeers
  <2>4. CASE UNCHANGED <<connections, pending_dials>>
    BY <1>1, <2>4
  <2> QED BY <2>1, <2>2, <2>3, <2>4, WhoChangesDials
<1>3. known_peers' \subseteq Peers
  <2>1. ASSUME NEW p \in Peers, IdentifyReceived(p)
        PROVE  known_peers' \subseteq Peers
    BY <1>1, <2>1 DEF IdentifyReceived
  <2>2. CASE UNCHANGED known_peers
    BY <1>1, <2>2
  <2> QED BY <2>1, <2>2, WhoGetsKnown
<1> QED BY <1>2, <1>3

\* Only peers have scores.
LEMMA ScoresStayOfPeers ==
  ASSUME TablesInv, QueuesInv, [Next]_vars
  PROVE  DOMAIN scores' \subseteq Peers
<1>1. DOMAIN scores \subseteq Peers
  BY DEF TablesInv
<1>2. ASSUME NEW p \in Peers, NEW info, SetScore(p, info)
      PROVE  DOMAIN scores' \subseteq Peers
  BY <1>1, <1>2 DEF SetScore
<1>3. CASE UseScores
  <2>1. loop.use \in {"insert", "remove", "penalty"} /\ loop.peer \in Peers
    BY <1>3 DEF UseScores, QueuesInv
  <2>2. CASE loop.use = "insert"
    <3>1. SetScore(loop.peer, Score(loop.peer))
      BY <1>3, <2>2 DEF UseScores
    <3> QED BY <1>2, <2>1, <3>1
  <2>3. CASE loop.use = "remove"
    <3>1. scores' = [q \in DOMAIN scores \ {loop.peer} |-> scores[q]]
      BY <1>3, <2>3 DEF UseScores, Restrict
    <3> QED BY <1>1, <3>1
  <2>4. CASE loop.use = "penalty"
    <3>1. \/ SetScore(loop.peer, ApplyPenalty(Score(loop.peer), CertificatePenalty))
          \/ UNCHANGED scores
      BY <1>3, <2>4 DEF UseScores
    <3> QED BY <1>1, <1>2, <2>1, <3>1
  <2> QED BY <2>1, <2>2, <2>3, <2>4
<1>4. ASSUME NEW t \in TaskIds, GossipHandled(t)
      PROVE  DOMAIN scores' \subseteq Peers
  <2>1. t \in DOMAIN tasks /\ tasks[t].kind \in GossipKinds
    BY <1>4 DEF GossipHandled, IsAt
  <2>2. tasks[t].peer \in Peers
    BY <2>1 DEF QueuesInv, IsTask
  <2>3. \/ SetScore(tasks[t].peer, ApplyPenalty(Score(tasks[t].peer), GarbagePenalty))
        \/ SetScore(tasks[t].peer, ApplyReward(Score(tasks[t].peer)))
    BY <1>4, Zenon DEF GossipHandled
  <2> QED BY <1>2, <2>2, <2>3
<1> QED BY <1>1, <1>3, <1>4, WhoChangesScores

\* The channel to the engine and the counters stay within their limits.
LEMMA LimitsAreKept ==
  ASSUME TablesInv, [Next]_vars
  PROVE  /\ channel' \in 0 .. ChannelSize
         /\ stable_since' \in Unstable .. StabilityWindow
         /\ ready' \in BOOLEAN
         /\ events' \in 0 .. MaxEvents
<1> DEFINE Goal == /\ channel' \in 0 .. ChannelSize
                   /\ stable_since' \in Unstable .. StabilityWindow
                   /\ ready' \in BOOLEAN
                   /\ events' \in 0 .. MaxEvents
<1>1. /\ channel \in 0 .. ChannelSize /\ ChannelSize \in Nat
      /\ stable_since \in Unstable .. StabilityWindow /\ StabilityWindow \in Nat
      /\ ready \in BOOLEAN /\ events \in 0 .. MaxEvents /\ MaxEvents \in Nat
  BY ConstantsAssumption DEF TablesInv
<1>2. ASSUME UNCHANGED <<stable_since, ready, events>>,
             \/ UNCHANGED channel
             \/ channel < ChannelSize /\ channel' = channel + 1
             \/ channel > 0 /\ channel' = channel - 1
             \/ channel' = channel + 0
      PROVE  Goal
  BY <1>1, <1>2
<1>3. ASSUME UNCHANGED <<stable_since, ready, channel>>,
             UNCHANGED events \/ (events < MaxEvents /\ events' = events + 1)
      PROVE  Goal
  BY <1>1, <1>3
<1>4. CASE Tick
  <2>1. UNCHANGED <<channel, events>>
    BY <1>4 DEF Tick
  <2>2. stable_since' \in Unstable .. StabilityWindow
    BY <1>1, <1>4 DEF Tick, Smaller, Unstable
  <2>3. ready' \in BOOLEAN
    <3>1. \/ ready' = (ready \/ stable_since' >= StabilityWindow)
          \/ ready' = FALSE
      BY <1>4 DEF Tick
    <3> QED BY <3>1, Zenon
  <2> QED BY <1>1, <2>1, <2>2, <2>3
<1> HIDE DEF Goal
<1> SUFFICES Goal
  BY DEF Goal
<1>5. Tick => Goal
  BY <1>4 DEF Goal
<1>6. CASE UseScores \/ LoopSends \/ ReceiveCommand \/ SendResponse \/ EngineReceives
  BY <1>2, <1>6, Zenon DEF UseScores, LoopSends, ReceiveCommand, SendResponse, EngineReceives
<1>7. CASE SwarmEvent
  <2>1. /\ UNCHANGED <<stable_since, ready, channel>>
        /\ events < MaxEvents /\ events' = events + 1
    BY <1>7, Zenon DEF SwarmEvent, ConnectionEstablished, ConnectionClosed, IdentifyReceived,
                GossipMessage, FallbackMessage, SyncRequest, SyncResponse, Event
  <2> QED BY <1>3, <2>1
<1>8. ASSUME NEW t \in TaskIds, GossipHandled(t)
      PROVE  Goal
  <2>1. /\ UNCHANGED <<stable_since, ready, events>>
        /\ \/ channel < ChannelSize /\ channel' = channel + 1
           \/ channel' = channel + 0
    BY <1>8, Zenon DEF GossipHandled
  <2> QED BY <1>2, <2>1
<1>9. ASSUME NEW t \in TaskIds, TaskRuns(t) \/ Lookup(t), ~ GossipHandled(t)
      PROVE  Goal
  <2>1. /\ UNCHANGED <<stable_since, ready, events>>
        /\ UNCHANGED channel \/ (channel < ChannelSize /\ channel' = channel + 1)
    BY <1>9 DEF TaskRuns, GossipLocks, Forward, Inform, FallbackReplies, Respond, Lookup
  <2> QED BY <1>2, <2>1
<1>10. ASSUME NEW command, EngineCommands(command)
       PROVE  Goal
  BY <1>3, <1>10 DEF EngineCommands
<1>11. CASE UNCHANGED vars
  BY <1>2, <1>11 DEF vars
<1> QED BY <1>5, <1>6, <1>7, <1>8, <1>9, <1>10, <1>11, Zenon DEF Next

\* The queue for the mutex holds exactly those that are at it.
LEMMA QueueOfTheMutex ==
  ASSUME LockInv, QueuesInv, requests \in Nat, [Next]_vars
  PROVE  LockInv'
<1> DEFINE S == {Loop} \cup TaskIds
           AtIt(l) == IF l.for = "scores" THEN {Loop} ELSE {}
<1>1. /\ lock \in Seq(S) /\ IsInjective(lock) /\ Range(lock) = Locking(tasks) \cup AtIt(loop)
      /\ DOMAIN tasks \subseteq TaskIds /\ Loop \notin TaskIds
      /\ Locking(tasks) \subseteq TaskIds
  BY DEF LockInv, QueuesInv, Loop, TaskIds, Locking
<1>2. /\ Range(lock)' = Range(lock') /\ Locking(tasks)' = Locking(tasks')
      /\ IsInjective(lock)' <=> IsInjective(lock')
  BY DEF Range, Locking, IsInjective
<1> DEFINE Goal == /\ lock' \in Seq(S) /\ IsInjective(lock')
                   /\ Range(lock') = Locking(tasks') \cup AtIt(loop')
<1> SUFFICES Goal
  BY <1>2 DEF LockInv
<1> HIDE DEF S
<1>3. ASSUME UNCHANGED lock, Locking(tasks') = Locking(tasks), AtIt(loop') = AtIt(loop)
      PROVE  Goal
  BY <1>1, <1>3
<1>4. ASSUME NEW use, NEW p, loop = Idle, LockScores(use, p), UNCHANGED tasks
      PROVE  Goal
  <2>1. AtIt(loop) = {} /\ AtIt(loop') = {Loop} /\ lock' = Append(lock, Loop)
    BY <1>4 DEF LockScores, Idle
  <2>2. Loop \notin Range(lock) /\ Loop \in S
    BY <1>1, <2>1 DEF S
  <2> HIDE DEF AtIt
  <2>3. /\ lock' \in Seq(S) /\ IsInjective(lock')
        /\ Range(lock') = Range(lock) \cup {Loop}
    BY <1>1, <2>1, <2>2, QueueGrows
  <2> QED BY <1>1, <1>4, <2>1, <2>3 DEF AtIt
<1>5. CASE UseScores
  <2>1. /\ AtIt(loop) = {Loop} /\ AtIt(loop') = {} /\ Head(lock) = Loop
        /\ lock' = Tail(lock) /\ UNCHANGED tasks
    BY <1>5 DEF UseScores, Idle
  <2>2. lock # <<>>
    BY <1>1, <2>1 DEF Range
  <2> HIDE DEF AtIt
  <2>3. /\ lock' \in Seq(S) /\ IsInjective(lock')
        /\ Range(lock') = Range(lock) \ {Loop}
    BY <1>1, <2>1, <2>2, QueueShrinks
  <2> QED BY <1>1, <2>1, <2>3, Zenon
<1>6. CASE ReceiveCommand
  <2>1. UNCHANGED tasks /\ loop = Idle
    BY <1>6 DEF ReceiveCommand
  <2>2. UNCHANGED <<lock, loop>> \/ \E p : LockScores("penalty", p)
    BY <1>6 DEF ReceiveCommand
  <2> QED BY <1>3, <1>4, <2>1, <2>2
<1>7. CASE LoopSends \/ Tick \/ SendResponse \/ EngineReceives
  <2>1. UNCHANGED <<lock, tasks>> /\ AtIt(loop') = AtIt(loop)
    BY <1>7 DEF LoopSends, Tick, SendResponse, EngineReceives, Idle
  <2> QED BY <1>3, <2>1
<1>8. CASE SwarmEvent
  <2>1. CASE UNCHANGED tasks
    <3>1. /\ loop = Idle
          /\ \/ UNCHANGED lock /\ loop' \in {Idle, [for |-> "room"]}
             \/ \E p : LockScores("insert", p) \/ LockScores("remove", p)
      BY <1>8, Zenon DEF SwarmEvent, ConnectionEstablished, ConnectionClosed, IdentifyReceived,
                  GossipMessage, FallbackMessage, SyncRequest, SyncResponse, Event
    <3>2. loop' \in {Idle, [for |-> "room"]} => AtIt(loop') = AtIt(loop)
      BY <3>1 DEF Idle
    <3> QED BY <1>3, <1>4, <2>1, <3>1, <3>2
  <2>2. CASE tasks' # tasks
    <3>1. PICK id, kind, p, addresses :
                 /\ id \in TaskIds \ DOMAIN tasks
                 /\ tasks' = With(tasks, id, Started(kind, p, addresses))
                 /\ UNCHANGED <<lock, loop>>
      BY <1>8, <2>2, WhoStartsTasks
    <3>2. Started(kind, p, addresses).at # "locking"
      BY DEF Started
    <3>3. Locking(With(tasks, id, Started(kind, p, addresses))) = Locking(tasks)
      BY <3>1, <3>2, TaskAdded
    <3>4. Locking(tasks') = Locking(tasks)
      BY <3>1, <3>3
    <3> QED BY <1>3, <3>1, <3>4
  <2> QED BY <2>1, <2>2
<1>9. ASSUME NEW t \in TaskIds, GossipLocks(t), TaskMoves(t, "locking")
      PROVE  Goal
  <2>1. /\ t \in DOMAIN tasks /\ tasks[t].at = "start" /\ lock' = Append(lock, t)
        /\ AtIt(loop') = AtIt(loop)
    BY <1>9 DEF GossipLocks, IsAt
  <2>2. PICK x : /\ x.kind = tasks[t].kind /\ x.at = "locking"
                 /\ tasks' = Moved(tasks, t, x)
    BY <1>9 DEF TaskMoves
  <2>3. Locking(tasks') = Locking(tasks) \cup {t}
    BY <2>1, <2>2, TaskMoved
  <2>4. t \notin Range(lock) /\ t \in S
    BY <1>1, <2>1 DEF S, Locking
  <2> HIDE DEF AtIt
  <2>5. /\ lock' \in Seq(S) /\ IsInjective(lock')
        /\ Range(lock') = Range(lock) \cup {t}
    BY <1>1, <2>1, <2>4, QueueGrows
  <2> QED BY <1>1, <2>1, <2>3, <2>5
<1>10. ASSUME NEW t \in TaskIds, GossipHandled(t), TaskEnds(t)
       PROVE  Goal
  <2>1. /\ t \in DOMAIN tasks /\ tasks[t].at = "locking" /\ Head(lock) = t
        /\ lock' = Tail(lock) /\ AtIt(loop') = AtIt(loop) /\ tasks' = Without(tasks, t)
    BY <1>10 DEF GossipHandled, IsAt, TaskEnds
  <2>2. Locking(tasks') = Locking(tasks) \ {t} /\ t \in Locking(tasks)
    BY <2>1, TaskEnded DEF Locking
  <2>3. lock # <<>> /\ t # Loop
    BY <1>1, <2>2 DEF Range
  <2>4. t \notin AtIt(loop)
    BY <2>3
  <2> HIDE DEF AtIt
  <2>5. /\ lock' \in Seq(S) /\ IsInjective(lock')
        /\ Range(lock') = Range(lock) \ {t}
    BY <1>1, <2>1, <2>3, QueueShrinks
  <2> QED BY <1>1, <2>1, <2>2, <2>4, <2>5
<1>11. ASSUME NEW t \in TaskIds, UNCHANGED lock, t \in DOMAIN tasks, tasks[t].at # "locking",
              (\E at \in {"start", "respond"} : TaskMoves(t, at)) \/ TaskEnds(t)
       PROVE  Goal
  <2>1. UNCHANGED loop
    BY <1>11 DEF TaskMoves, TaskEnds
  <2>2. t \notin Locking(tasks)
    BY <1>11 DEF Locking
  <2>3. CASE TaskEnds(t)
    <3>1. Locking(tasks') = Locking(tasks)
      BY <1>11, <2>2, <2>3, TaskEnded DEF TaskEnds
    <3> QED BY <1>3, <1>11, <2>1, <3>1
  <2>4. ASSUME NEW at \in {"start", "respond"}, TaskMoves(t, at)
        PROVE  Goal
    <3>1. PICK x : /\ x.kind = tasks[t].kind /\ x.at = at
                   /\ tasks' = Moved(tasks, t, x)
      BY <2>4 DEF TaskMoves
    <3>2. Locking(tasks') = Locking(tasks)
      BY <1>11, <2>2, <3>1, TaskMoved
    <3> QED BY <1>3, <1>11, <2>1, <3>2
  <2> QED BY <1>11, <2>3, <2>4
<1>12. ASSUME NEW t \in TaskIds, Respond(t), TaskEnds(t)
       PROVE  Goal
  <2>1. t \in DOMAIN tasks /\ tasks[t].at # "locking" /\ UNCHANGED lock
    BY <1>12, Zenon DEF Respond, IsAt
  <2> QED BY <1>11, <1>12, <2>1
<1>13. ASSUME NEW t \in TaskIds, TaskRuns(t) \/ Lookup(t)
       PROVE  Goal
  <2>1. \A at : TaskMoves(t, at) \/ TaskEnds(t) => t \in DOMAIN tasks
    BY DEF TaskMoves, TaskEnds
  <2> HIDE DEF Goal
  <2> QED BY <1>9, <1>10, <1>11, <1>12, <1>13, <2>1, WhatTasksDo
<1>14. ASSUME NEW command, EngineCommands(command)
       PROVE  Goal
  BY <1>3, <1>14 DEF EngineCommands
<1>15. CASE UNCHANGED vars
  BY <1>3, <1>15 DEF vars
<1> HIDE DEF Goal
<1> QED BY <1>5, <1>6, <1>7, <1>8, <1>13, <1>14, <1>15, Zenon DEF Next

\* No request gets lost between the swarm, the tasks and the queue of responses, and none
\* is answered twice.
LEMMA RequestsAddUp ==
  ASSUME CountInv, QueuesInv, [Next]_vars
  PROVE  CountInv'
<1> DEFINE due == Cardinality(Due(responses))
           owing == Cardinality(Owing(tasks))
           R == Counted \cup {"get"}
           Goal == /\ requests' \in Nat /\ answers' \in Nat
                   /\ requests' = answers' + Cardinality(Due(responses'))
                                   + Cardinality(Owing(tasks'))
<1>1. /\ requests \in Nat /\ answers \in Nat /\ requests = answers + due + owing
      /\ responses \in Seq(R) /\ DOMAIN tasks \subseteq TaskIds
  BY DEF CountInv, QueuesInv
<1>2. due \in Nat
  BY <1>1, DueIsFinite
<1>3. IsFiniteSet(Owing(tasks)) /\ owing \in Nat
  <2>1. IsFiniteSet(TaskIds)
    BY ConstantsAssumption, FS_Interval DEF TaskIds
  <2>2. Owing(tasks) \in SUBSET TaskIds
    BY <1>1 DEF Owing
  <2> QED BY <2>1, <2>2, FS_Subset, FS_CardinalityType
<1>4. Due(responses)' = Due(responses') /\ Owing(tasks)' = Owing(tasks')
  BY DEF Due, Owing
<1>5. Goal => CountInv'
  <2>1. /\ Cardinality(Due(responses))' = Cardinality(Due(responses'))
        /\ Cardinality(Owing(tasks))' = Cardinality(Owing(tasks'))
    BY <1>4
  <2> QED BY <2>1 DEF CountInv
<1> HIDE DEF due, owing
<1>6. ASSUME UNCHANGED <<requests, answers, responses>>, Owing(tasks') = Owing(tasks)
      PROVE  Goal
  BY <1>1, <1>6 DEF due, owing
<1>7. CASE SendResponse
  <2>1. /\ responses # <<>> /\ responses' = Tail(responses) /\ UNCHANGED <<tasks, requests>>
        /\ answers' = answers + (IF Head(responses) = "get" THEN 0 ELSE 1)
    BY <1>7 DEF SendResponse
  <2>2. due = Cardinality(Due(responses')) + (IF Head(responses) = "get" THEN 0 ELSE 1)
    BY <1>1, <2>1, DueShrinks DEF due
  <2>3. Cardinality(Due(responses')) \in Nat
    <3>1. responses' \in Seq(R)
      BY <1>1, <2>1
    <3> QED BY <3>1, DueIsFinite
  <2>4. owing = Cardinality(Owing(tasks'))
    BY <2>1 DEF owing
  <2>5. Goal
    BY <1>1, <1>2, <1>3, <2>1, <2>2, <2>3, <2>4
  <2> QED BY <1>5, <2>5
<1>8. CASE SwarmEvent
  <2>1. UNCHANGED <<responses, answers>>
    BY <1>8, Zenon DEF SwarmEvent, ConnectionEstablished, ConnectionClosed, IdentifyReceived,
                GossipMessage, FallbackMessage, SyncRequest, SyncResponse
  <2>2. CASE UNCHANGED <<tasks, requests>>
    BY <1>5, <1>6, <2>1, <2>2
  <2>3. ASSUME NEW id \in TaskIds \ DOMAIN tasks, NEW kind, NEW p, NEW addresses,
               tasks' = With(tasks, id, Started(kind, p, addresses)),
               requests' = requests + (IF kind \in Counted THEN 1 ELSE 0)
        PROVE  Goal
    <3>1. /\ Started(kind, p, addresses).at # "locking"
          /\ Started(kind, p, addresses).kind = kind
      BY DEF Started
    <3>2. id \notin Owing(tasks)
      BY DEF Owing
    <3>3. CASE kind \in Counted
      <4>1. Owing(tasks') = Owing(tasks) \cup {id}
        BY <2>3, <3>1, <3>3, TaskAdded, SMTT(30)
      <4>2. Cardinality(Owing(tasks')) = owing + 1
        BY <1>3, <3>2, <4>1, FS_AddElement, Zenon DEF owing
      <4> QED BY <1>1, <1>2, <1>3, <2>1, <2>3, <3>3, <4>2, SMTT(30) DEF due
    <3>4. CASE kind \notin Counted
      <4>1. Owing(tasks') = Owing(tasks)
        BY <2>3, <3>1, <3>4, TaskAdded
      <4>2. UNCHANGED requests
        BY <1>1, <2>3, <3>4
      <4> QED BY <1>6, <2>1, <4>1, <4>2
    <3> QED BY <3>3, <3>4
  <2> HIDE DEF Goal
  <2> QED BY <1>1, <1>5, <1>8, <2>2, <2>3, WhoStartsTasks
<1>9. ASSUME NEW t \in TaskIds, Respond(t), TaskEnds(t)
      PROVE  Goal
  <2> DEFINE kind == tasks[t].kind
  <2>1. /\ t \in DOMAIN tasks /\ kind \in R /\ responses' = Append(responses, kind)
        /\ UNCHANGED <<requests, answers>> /\ tasks' = Without(tasks, t)
    BY <1>9 DEF Respond, IsAt, TaskEnds, Counted
  <2>2. kind = "get" <=> t \notin Owing(tasks)
    BY <2>1 DEF Owing, Counted
  <2>3. Cardinality(Due(responses')) = due + (IF kind = "get" THEN 0 ELSE 1)
    BY <1>1, <2>1, DueGrows DEF due
  <2>4. Owing(tasks') = Owing(tasks) \ {t}
    BY <2>1, TaskEnded
  <2>5. Cardinality(Owing(tasks')) = IF t \in Owing(tasks) THEN owing - 1 ELSE owing
    BY <1>3, <2>4, FS_RemoveElement, Zenon DEF owing
  <2> HIDE DEF kind
  <2> QED BY <1>1, <1>2, <1>3, <2>1, <2>2, <2>3, <2>5
<1>10. ASSUME NEW t \in TaskIds, TaskEnds(t), UNCHANGED responses, tasks[t].kind \notin Counted
       PROVE  Goal
  <2>1. t \in DOMAIN tasks /\ UNCHANGED <<requests, answers>> /\ tasks' = Without(tasks, t)
    BY <1>10 DEF TaskEnds
  <2>2. Owing(tasks') = Owing(tasks) \ {t} /\ t \notin Owing(tasks)
    <3>1. t \notin Owing(tasks)
      BY <1>10 DEF Owing
    <3> QED BY <2>1, <3>1, TaskEnded
  <2> QED BY <1>6, <1>10, <2>1, <2>2
<1>11. ASSUME NEW t \in TaskIds, NEW at, TaskMoves(t, at)
       PROVE  Goal
  <2>1. t \in DOMAIN tasks /\ UNCHANGED <<responses, requests, answers>>
    BY <1>11 DEF TaskMoves
  <2>2. PICK x : x.kind = tasks[t].kind /\ tasks' = Moved(tasks, t, x)
    BY <1>11 DEF TaskMoves
  <2>3. Owing(tasks') = Owing(tasks)
    BY <2>1, <2>2, TaskMoved
  <2> QED BY <1>6, <2>1, <2>3
<1>12. ASSUME NEW t \in TaskIds, TaskRuns(t) \/ Lookup(t)
       PROVE  Goal
  <2>1. GossipHandled(t) => tasks[t].kind \notin Counted
    BY DEF GossipHandled, IsAt, GossipKinds, Counted
  <2> HIDE DEF Goal
  <2> QED BY <1>9, <1>10, <1>11, <1>12, <2>1, WhatTasksDo, Zenon
<1>13. ASSUME UNCHANGED <<requests, answers, responses, tasks>>
       PROVE  Goal
  BY <1>6, <1>13
<1> HIDE DEF Goal
<1>14. CASE UseScores \/ LoopSends \/ Tick \/ ReceiveCommand \/ EngineReceives
  BY <1>5, <1>13, <1>14, Zenon DEF UseScores, LoopSends, Tick, ReceiveCommand, EngineReceives
<1>15. ASSUME NEW command, EngineCommands(command)
       PROVE  Goal
  BY <1>13, <1>15 DEF EngineCommands
<1>16. CASE UNCHANGED vars
  BY <1>5, <1>13, <1>16 DEF vars
<1> QED BY <1>5, <1>7, <1>8, <1>12, <1>14, <1>15, <1>16, Zenon DEF Next

\* The invariant of the loop and its tasks.
SwarmInv == ScoresInv /\ TablesInv /\ QueuesInv /\ LockInv /\ CountInv

\* SwarmInv is inductive.
LEMMA SwarmInvKept ==
  ASSUME SwarmInv, [Next]_vars
  PROVE  SwarmInv'
<1>1. /\ ScoresInv /\ TablesInv /\ QueuesInv /\ LockInv /\ CountInv
      /\ requests \in Nat /\ UsesAreKnown
  BY DEF SwarmInv, CountInv, QueuesInv, UsesAreKnown
<1>2. ScoresInv'
  BY <1>1, StepKeepsScores
<1>3. TablesInv'
  BY <1>1, PeersStayPeers, ScoresStayOfPeers, LimitsAreKept DEF TablesInv
<1>4. QueuesInv'
  <2>1. /\ DOMAIN tasks' \subseteq TaskIds /\ \A t \in DOMAIN tasks' : IsTask(tasks'[t])
        /\ loop'.for = "scores" =>
             loop'.use \in {"insert", "remove", "penalty"} /\ loop'.peer \in Peers
        /\ commands' \in Seq(Command) /\ Len(commands') <= CommandsSize
        /\ responses' \in Seq(Counted \cup {"get"}) /\ Len(responses') <= ResponsesSize
    BY <1>1, TasksStayTasks, UsesStayOfPeers, QueuesStayQueues
  <2>2. (\A t \in DOMAIN tasks : IsTask(tasks[t]))' <=>
          \A t \in DOMAIN tasks' : IsTask(tasks'[t])
    BY DEF IsTask
  <2> QED BY <2>1, <2>2 DEF QueuesInv
<1>5. LockInv'
  BY <1>1, QueueOfTheMutex
<1>6. CountInv'
  BY <1>1, RequestsAddUp
<1> QED BY <1>2, <1>3, <1>4, <1>5, <1>6 DEF SwarmInv

\* The type invariant of the loop: among others, scores stay within their bounds, the queue
\* for peer_scores holds exactly those that wait at it, each once, every channel stays
\* within its size, and no more responses are sent than requests came in.
THEOREM SwarmTypeOK == Spec => []TypeOK
<1>1. Init => SwarmInv
  <2> SUFFICES ASSUME Init PROVE SwarmInv
    OBVIOUS
  <2>1. DOMAIN scores = {} /\ DOMAIN tasks = {} /\ DOMAIN lock = {} /\ DOMAIN responses = {}
    BY DEF Init
  <2>2. ScoresInv
    BY <2>1 DEF ScoresInv
  <2>3. TablesInv
    <3>1. {MaxConnections, ChannelSize, StabilityWindow, MaxEvents} \subseteq Nat
      BY ConstantsAssumption
    <3>2. connections \in [Peers -> 0 .. MaxConnections]
      BY <3>1 DEF Init
    <3>3. /\ channel \in 0 .. ChannelSize /\ events \in 0 .. MaxEvents
          /\ stable_since \in Unstable .. StabilityWindow
      BY <3>1 DEF Init, Unstable
    <3>4. ready \in BOOLEAN
      BY Zenon DEF Init
    <3> QED BY <2>1, <3>2, <3>3, <3>4 DEF Init, TablesInv
  <2>4. QueuesInv
    BY <2>1, ConstantsAssumption DEF Init, QueuesInv, Idle
  <2>5. LockInv
    <3>1. Range(lock) = {} /\ Locking(tasks) = {} /\ IsInjective(lock)
      BY <2>1 DEF Range, Locking, IsInjective
    <3> QED BY <3>1 DEF Init, LockInv, Idle
  <2>6. CountInv
    <3>1. Due(responses) = {} /\ Owing(tasks) = {}
      BY <2>1 DEF Due, Owing
    <3>2. Cardinality(Due(responses)) = 0 /\ Cardinality(Owing(tasks)) = 0
      BY <3>1, FS_EmptySet, SMTT(30)
    <3> QED BY <3>2 DEF Init, CountInv
  <2> QED BY <2>2, <2>3, <2>4, <2>5, <2>6 DEF SwarmInv
<1>2. SwarmInv /\ [Next]_vars => SwarmInv'
  BY SwarmInvKept
<1>3. SwarmInv => TypeOK
  <2> SUFFICES ASSUME SwarmInv PROVE TypeOK
    OBVIOUS
  <2>1. answers <= requests
    <3>1. /\ requests \in Nat /\ answers \in Nat
          /\ requests = answers + Cardinality(Due(responses)) + Cardinality(Owing(tasks))
          /\ responses \in Seq(Counted \cup {"get"}) /\ DOMAIN tasks \subseteq TaskIds
      BY DEF SwarmInv, CountInv, QueuesInv
    <3>2. IsFiniteSet(TaskIds) /\ Owing(tasks) \in SUBSET TaskIds
      <4>1. IsFiniteSet(TaskIds)
        BY ConstantsAssumption, FS_Interval DEF TaskIds
      <4> QED BY <3>1, <4>1 DEF Owing
    <3>3. Cardinality(Due(responses)) \in Nat /\ Cardinality(Owing(tasks)) \in Nat
      BY <3>1, <3>2, DueIsFinite, FS_Subset, FS_CardinalityType
    <3> QED BY <3>1, <3>3
  <2>2. \A p \in DOMAIN scores : /\ scores[p].score \in BanThreshold - 1 .. MaxPeerScore
                                 /\ scores[p].is_banned \in BOOLEAN
    BY DEF SwarmInv, ScoresInv, IsScore
  <2>3. /\ DOMAIN tasks \subseteq TaskIds /\ IsInjective(lock)
        /\ Range(lock) = {t \in DOMAIN tasks : tasks[t].at = "locking"}
                           \cup (IF loop.for = "scores" THEN {Loop} ELSE {})
        /\ Len(commands) <= CommandsSize /\ Len(responses) <= ResponsesSize
    BY Zenon DEF SwarmInv, LockInv, QueuesInv, Locking
  <2> QED BY <2>1, <2>2, <2>3 DEF SwarmInv, TablesInv, TypeOK
<1> QED BY <1>1, <1>2, <1>3, PTL DEF Spec
=============================================================================
