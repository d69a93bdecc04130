----------------------------- MODULE SwarmLoop -----------------------------
(***************************************************************************)
(* The p2p loop of evice-multi-sequencer/src/p2p/swarm.rs on one node that *)
(* runs a consensus engine, with the peer scores and the address book of   *)
(* p2p/types.rs.                                                           *)
(*                                                                         *)
(* The loop owns the libp2p swarm.  It takes one ready branch of its       *)
(* select! after the other: a stability tick, a command, a response to     *)
(* send, or an event of the swarm.  Inside a branch it may wait, for the   *)
(* mutex peer_scores or for room in the channel to the engine, and then    *)
(* serves nothing else.  Gossip messages and requests of peers are handled *)
(* by tasks of their own that share the mutex and the channels with it.    *)
(* Mutex and channels of tokio are fair: who waits is served in order.     *)
(*                                                                         *)
(* libp2p is outside: connections come and go, also two at a time to the   *)
(* same peer, and messages arrive.  What it does with a dial is its own    *)
(* affair.  A failed dial reaches the loop as an event that it ignores.    *)
(* What is read from the consensus state is in Consensus and StateLocks.   *)
(***************************************************************************)
EXTENDS AddressBook, Sequences, FiniteSets, Functions

CONSTANTS
  Peers,            \* the other nodes
  Genesis,          \* the accounts of genesis.json
  IsBootstrapNode,
  ChannelSize, CommandsSize, ResponsesSize,  \* sizes of the three channels
  StabilityWindow,  \* NETWORK_STABILITY_WINDOW, in ticks
  MaxPeerScore, BanThreshold, Reward, GarbagePenalty, CertificatePenalty,
  MaxConnections,   \* bound: connections to one peer
  MaxTasks,         \* bound: unfinished tasks
  MaxRequests,      \* bound: requests that are counted
  MaxEvents         \* bound: events of the swarm and commands of the engine

ASSUME ConstantsAssumption ==
  /\ IsFiniteSet(Peers)
  /\ IsBootstrapNode \in BOOLEAN
  /\ {ChannelSize, CommandsSize, ResponsesSize, MaxConnections} \subseteq Nat \ {0}
  /\ {StabilityWindow, MaxTasks, MaxRequests, MaxEvents} \subseteq Nat
  /\ {MaxPeerScore, Reward} \subseteq Nat
  /\ {BanThreshold, GarbagePenalty, CertificatePenalty} \subseteq Int \ Nat

VARIABLES
  connections,   \* of the swarm: peer -> number of connections
  scores,        \* peer_scores: peer -> PeerInfo
  lock,          \* who holds peer_scores, then who waits for it
  pending_dials,
  known_peers,
  channel,       \* messages on the way to the engine
  commands,      \* p2p_cmd_rx
  responses,     \* response_rx
  tasks,         \* unfinished tasks
  loop,          \* what the loop waits for
  stable_since,  \* ticks since the network is stable, or Unstable
  ready,         \* network_ready_flag
  events,        \* how many events there were
  requests, answers  \* requests received, and responses sent to them

vars == <<connections, scores, lock, pending_dials, known_peers, channel,
          commands, responses, tasks, loop, stable_since, ready, events, requests,
          answers>>

-----------------------------------------------------------------------------
(***************************************************************************)
(* The number of peers needed, and the scores                              *)
(***************************************************************************)

RequiredPeers ==
  LET share == (Cardinality(DOMAIN UpdateFromGenesis(Genesis)) * 2) \div 3
  IN IF share > 1 THEN share ELSE 1

Larger(a, b) == IF a > b THEN a ELSE b

Smaller(a, b) == IF a < b THEN a ELSE b

NewPeer == [score |-> 0, is_banned |-> FALSE]

\* Variant: the score has no lower end.
ApplyPenaltyUnclamped(info, penalty) ==
  [score |-> info.score + penalty,
   is_banned |-> info.is_banned \/ info.score + penalty <= BanThreshold]

\* Variant: a score at the threshold is still good enough.
ApplyPenaltyBelow(info, penalty) ==
  LET score == Larger(info.score + penalty, BanThreshold - 1)
  IN [score |-> score, is_banned |-> info.is_banned \/ score < BanThreshold]

ApplyPenalty(info, penalty) ==
  LET score == Larger(info.score + penalty, BanThreshold - 1)
  IN [score |-> score, is_banned |-> info.is_banned \/ score <= BanThreshold]

ApplyReward(info) == [info EXCEPT !.score = Smaller(@ + Reward, MaxPeerScore)]

Score(p) == IF p \in DOMAIN scores THEN scores[p] ELSE NewPeer

SetScore(p, info) ==
  scores' = [q \in DOMAIN scores \cup {p} |-> IF q = p THEN info ELSE scores[q]]

-----------------------------------------------------------------------------
(***************************************************************************)
(* The loop                                                                *)
(***************************************************************************)

Unstable == -1
Idle == [for |-> "select"]
Loop == 0            \* the loop in the queue for peer_scores; tasks are 1 .. MaxTasks
TaskIds == 1 .. MaxTasks

IsConnected(p) == connections[p] > 0
ConnectedPeers == {p \in Peers : IsConnected(p)}

Init ==
  /\ connections = [p \in Peers |-> 0]
  /\ scores = [p \in {} |-> NewPeer]
  /\ lock = <<>>
  /\ pending_dials = {}
  /\ known_peers = {}
  /\ channel = 0
  /\ commands = <<>>
  /\ responses = <<>>
  /\ tasks = [t \in {} |-> Idle]
  /\ loop = Idle
  /\ stable_since = Unstable
  /\ ready = FALSE
  /\ events = 0
  /\ requests = 0
  /\ answers = 0

\* The loop goes on to peer_scores.lock().await.
LockScores(use, p) ==
  /\ lock' = Append(lock, Loop)
  /\ loop' = [for |-> "scores", use |-> use, peer |-> p]

\* The loop has the mutex: it does what it wanted to do with the score of a peer.
UseScores ==
  /\ loop.for = "scores"
  /\ Head(lock) = Loop
  /\ CASE loop.use = "insert" -> SetScore(loop.peer, Score(loop.peer))
       [] loop.use = "remove" -> scores' = Restrict(scores, DOMAIN scores \ {loop.peer})
       [] loop.use = "penalty" ->
            IF loop.peer \in DOMAIN scores
              THEN SetScore(loop.peer, ApplyPenalty(Score(loop.peer), CertificatePenalty))
              ELSE UNCHANGED scores
  /\ lock' = Tail(lock)
  /\ loop' = Idle
  /\ UNCHANGED <<connections, pending_dials, known_peers, channel, commands,
                 responses, tasks, stable_since, ready, events, requests, answers>>

\* There is room for the message that the loop hands to the engine.
LoopSends ==
  /\ loop.for = "room"
  /\ channel < ChannelSize
  /\ channel' = channel + 1
  /\ loop' = Idle
  /\ UNCHANGED <<connections, scores, lock, pending_dials, known_peers, commands,
                 responses, tasks, stable_since, ready, events, requests, answers>>

\* Variant: the flag stays up when peers are lost.
TickKeepingFlag ==
  /\ loop = Idle
  /\ IF Cardinality(ConnectedPeers) >= RequiredPeers
       THEN /\ stable_since' = Smaller(stable_since + 1, StabilityWindow)
            /\ ready' = (ready \/ stable_since' >= StabilityWindow)
       ELSE stable_since' = Unstable /\ UNCHANGED ready
  /\ UNCHANGED <<connections, scores, lock, pending_dials, known_peers, channel,
                 commands, responses, tasks, loop, events, requests, answers>>

\* The stability tick.
Tick ==
  /\ loop = Idle
  /\ IF Cardinality(ConnectedPeers) >= RequiredPeers
       THEN /\ stable_since' = Smaller(stable_since + 1, StabilityWindow)
            /\ ready' = (ready \/ stable_since' >= StabilityWindow)
       ELSE /\ stable_since' = Unstable
            /\ ready' = FALSE
  /\ UNCHANGED <<connections, scores, lock, pending_dials, known_peers, channel,
                 commands, responses, tasks, loop, events, requests, answers>>

\* BroadcastConsensusMessage, SendDirectRequest or GetConnectedPeers: no state changes.
Send == [kind |-> "send"]

\* A command.  swarm.dial may refuse.
ReceiveCommand ==
  /\ loop = Idle
  /\ commands # <<>>
  /\ commands' = Tail(commands)
  /\ LET command == Head(commands) IN
     \/ command.kind = "send" /\ UNCHANGED <<pending_dials, lock, loop>>
     \/ /\ command.kind = "penalty"
        /\ LockScores("penalty", command.peer)
        /\ UNCHANGED pending_dials
     \/ /\ command.kind = "dial"
        /\ pending_dials' \in
             IF IsConnected(command.peer) THEN {pending_dials}
             ELSE {pending_dials, pending_dials \cup {command.peer}}
        /\ UNCHANGED <<lock, loop>>
  /\ UNCHANGED <<connections, scores, known_peers, channel, responses, tasks,
                 stable_since, ready, events, requests, answers>>

\* A response of a task is handed to send_response.  Its error is logged only: it means
\* that the connection is gone and nobody waits.  So an answer is the call.
SendResponse ==
  /\ loop = Idle
  /\ responses # <<>>
  /\ responses' = Tail(responses)
  /\ answers' = answers + (IF Head(responses) = "get" THEN 0 ELSE 1)
  /\ UNCHANGED <<connections, scores, lock, pending_dials, known_peers, channel,
                 commands, tasks, loop, stable_since, ready, events, requests>>

-----------------------------------------------------------------------------
(***************************************************************************)
(* Events of the swarm                                                     *)
(***************************************************************************)

Event ==
  /\ loop = Idle
  /\ events < MaxEvents
  /\ events' = events + 1

\* tokio::spawn.
Spawn(kind, p, addresses) ==
  LET unused == TaskIds \ DOMAIN tasks
      id == CHOOSE t \in unused : \A u \in unused : t <= u
  IN /\ unused # {}
     /\ tasks' = [t \in DOMAIN tasks \cup {id} |->
                    IF t = id
                      THEN [kind |-> kind, peer |-> p, at |-> "start", addresses |-> addresses]
                      ELSE tasks[t]]

\* Variant: a dial stays pending when it has succeeded.
ConnectionEstablishedPending(p) ==
  /\ Event
  /\ connections[p] < MaxConnections
  /\ connections' = [connections EXCEPT ![p] = @ + 1]
  /\ LockScores("insert", p)
  /\ UNCHANGED <<scores, pending_dials, known_peers, channel, commands, responses,
                 tasks, stable_since, ready, requests, answers>>

ConnectionEstablished(p) ==
  /\ Event
  /\ connections[p] < MaxConnections
  /\ connections' = [connections EXCEPT ![p] = @ + 1]
  /\ pending_dials' = pending_dials \ {p}
  /\ LockScores("insert", p)
  /\ UNCHANGED <<scores, known_peers, channel, commands, responses, tasks,
                 stable_since, ready, requests, answers>>

\* The score of the peer is dropped also when another connection to it is left.
ConnectionClosed(p) ==
  /\ Event
  /\ IsConnected(p)
  /\ connections' = [connections EXCEPT ![p] = @ - 1]
  /\ pending_dials' = pending_dials \ {p}
  /\ LockScores("remove", p)
  /\ UNCHANGED <<scores, known_peers, channel, commands, responses, tasks,
                 stable_since, ready, requests, answers>>

\* A peer says under which addresses it listens.  A bootstrap node that does not know
\* it sends it the known addresses, and its address to all it knows; nothing is done
\* without an address other than loopback.  The requests are handed to libp2p, which
\* may fail to deliver them, to a peer that has left for instance.  The failure is
\* ignored, and a peer that is known stays known.
IdentifyReceived(p) ==
  /\ Event
  /\ IsConnected(p)
  /\ IsBootstrapNode
  /\ p \notin known_peers
  /\ known_peers' = known_peers \cup {p}
  /\ UNCHANGED <<connections, scores, lock, pending_dials, channel, commands, responses,
                 tasks, loop, stable_since, ready, requests, answers>>

\* A request for a batch on the fallback topic.
FallbackMessage(p) ==
  /\ Event
  /\ IsConnected(p)
  /\ Spawn("fallback", NoPeer, <<>>)
  /\ UNCHANGED <<connections, scores, lock, pending_dials, known_peers, channel,
                 commands, responses, loop, stable_since, ready, requests, answers>>

\* A gossip message: one for the engine, a payload, or one that cannot be decoded.
GossipMessage(p, kind) ==
  /\ Event
  /\ IsConnected(p)
  /\ Spawn(kind, p, <<>>)
  /\ UNCHANGED <<connections, scores, lock, pending_dials, known_peers, channel,
                 commands, responses, loop, stable_since, ready, requests, answers>>

\* A request: SubmitVote, ConsensusRequest and FullProposalForCommittee ("forward"),
\* GetFullProposal ("get") or InformAboutPeers ("inform").
SyncRequest(p, kind, addresses) ==
  /\ Event
  /\ IsConnected(p)
  /\ Spawn(kind, NoPeer, addresses)
  /\ requests' = requests + (IF kind = "get" THEN 0 ELSE 1)
  /\ requests' <= MaxRequests
  /\ UNCHANGED <<connections, scores, lock, pending_dials, known_peers, channel,
                 commands, responses, loop, stable_since, ready, answers>>

\* A response that brings a message for the engine: the loop itself hands it over.
SyncResponse(p) ==
  /\ Event
  /\ IsConnected(p)
  /\ loop' = [for |-> "room"]
  /\ UNCHANGED <<connections, scores, lock, pending_dials, known_peers, channel,
                 commands, responses, tasks, stable_since, ready, requests, answers>>

-----------------------------------------------------------------------------
(***************************************************************************)
(* The tasks                                                               *)
(***************************************************************************)

IsAt(t, kinds, at) == t \in DOMAIN tasks /\ tasks[t].kind \in kinds /\ tasks[t].at = at

GoTo(t, at) == tasks' = [tasks EXCEPT ![t].at = at]

Finish(t) == tasks' = Restrict(tasks, DOMAIN tasks \ {t})

GossipKinds == {"consensus", "payload", "garbage"}

\* The task of a gossip message comes to peer_scores.lock().await.
GossipLocks(t) ==
  /\ IsAt(t, GossipKinds, "start")
  /\ GoTo(t, "locking")
  /\ lock' = Append(lock, t)
  /\ UNCHANGED <<connections, scores, pending_dials, known_peers, channel,
                 commands, responses, loop, stable_since, ready, events, requests, answers>>

\* With the mutex it passes the message on, which may take until there is room, and
\* then gives the peer its reward or penalty.
GossipHandled(t) ==
  /\ IsAt(t, GossipKinds, "locking")
  /\ Head(lock) = t
  /\ LET p == tasks[t].peer
         kind == tasks[t].kind
     IN /\ kind = "consensus" => channel < ChannelSize
        /\ channel' = channel + (IF kind = "consensus" THEN 1 ELSE 0)
        /\ SetScore(p, IF kind = "garbage" THEN ApplyPenalty(Score(p), GarbagePenalty)
                                           ELSE ApplyReward(Score(p)))
  /\ lock' = Tail(lock)
  /\ Finish(t)
  /\ UNCHANGED <<connections, pending_dials, known_peers, commands, responses,
                 loop, stable_since, ready, events, requests, answers>>

\* The task of a message for the engine waits for room.
Forward(t) ==
  /\ IsAt(t, {"forward"}, "start")
  /\ channel < ChannelSize
  /\ channel' = channel + 1
  /\ GoTo(t, "respond")
  /\ UNCHANGED <<connections, scores, lock, pending_dials, known_peers, commands,
                 responses, loop, stable_since, ready, events, requests, answers>>

\* One DialAddress command for every address.
Inform(t) ==
  /\ IsAt(t, {"inform"}, "start")
  /\ LET addresses == tasks[t].addresses
     IN IF addresses = <<>>
          THEN GoTo(t, "respond") /\ UNCHANGED commands
          ELSE /\ Len(commands) < CommandsSize
               /\ commands' = Append(commands, [kind |-> "dial", peer |-> Head(addresses)])
               /\ tasks' = [tasks EXCEPT ![t].addresses = Tail(@)]
  /\ UNCHANGED <<connections, scores, lock, pending_dials, known_peers, channel,
                 responses, loop, stable_since, ready, events, requests, answers>>

\* A batch is looked up in the consensus state, for which locks are needed.
Lookup(t) ==
  /\ IsAt(t, {"get", "fallback"}, "start")
  /\ \/ GoTo(t, "respond")
     \/ tasks[t].kind = "fallback" /\ Finish(t)
  /\ UNCHANGED <<connections, scores, lock, pending_dials, known_peers, channel,
                 commands, responses, loop, stable_since, ready, events, requests, answers>>

\* A batch that was asked for on the fallback topic is sent to the peer directly.
FallbackReplies(t) ==
  /\ IsAt(t, {"fallback"}, "respond")
  /\ Len(commands) < CommandsSize
  /\ commands' = Append(commands, Send)
  /\ Finish(t)
  /\ UNCHANGED <<connections, scores, lock, pending_dials, known_peers, channel,
                 responses, loop, stable_since, ready, events, requests, answers>>

\* Variant: a response is dropped when the queue is full.
RespondOrDrop(t) ==
  /\ IsAt(t, {"forward", "inform", "get"}, "respond")
  /\ responses' = IF Len(responses) < ResponsesSize THEN Append(responses, tasks[t].kind)
                  ELSE responses
  /\ Finish(t)
  /\ UNCHANGED <<connections, scores, lock, pending_dials, known_peers, channel,
                 commands, loop, stable_since, ready, events, requests, answers>>

Respond(t) ==
  /\ IsAt(t, {"forward", "inform", "get"}, "respond")
  /\ Len(responses) < ResponsesSize
  /\ responses' = Append(responses, tasks[t].kind)
  /\ Finish(t)
  /\ UNCHANGED <<connections, scores, lock, pending_dials, known_peers, channel,
                 commands, loop, stable_since, ready, events, requests, answers>>

(***************************************************************************)
(* The engine, as the loop meets it                                        *)
(***************************************************************************)

\* Variant: the receiver of messages handles each one itself, sends the command that
\* follows from it and only then takes the next.
EngineReceivesInTurn ==
  /\ channel > 0
  /\ Len(commands) < CommandsSize
  /\ channel' = channel - 1
  /\ commands' = Append(commands, Send)
  /\ UNCHANGED <<connections, scores, lock, pending_dials, known_peers,
                 responses, tasks, loop, stable_since, ready, events, requests, answers>>

\* The receiver of messages spawns a task for each one.
EngineReceives ==
  /\ channel > 0
  /\ channel' = channel - 1
  /\ UNCHANGED <<connections, scores, lock, pending_dials, known_peers, commands,
                 responses, tasks, loop, stable_since, ready, events, requests, answers>>

\* A task of the engine sends a command, a penalty for an invalid certificate included.
EngineCommands(command) ==
  /\ events < MaxEvents
  /\ events' = events + 1
  /\ Len(commands) < CommandsSize
  /\ commands' = Append(commands, command)
  /\ UNCHANGED <<connections, scores, lock, pending_dials, known_peers, channel,
                 responses, tasks, loop, stable_since, ready, requests, answers>>

-----------------------------------------------------------------------------

SwarmEvent ==
  \E p \in Peers :
    \/ ConnectionEstablished(p) \/ ConnectionClosed(p) \/ IdentifyReceived(p)
    \/ \E kind \in GossipKinds : GossipMessage(p, kind)
    \/ FallbackMessage(p)
    \/ \E kind \in {"forward", "get"} : SyncRequest(p, kind, <<>>)
    \/ \E q \in Peers \ {p} : SyncRequest(p, "inform", <<q, p>>)
    \/ SyncResponse(p)

\* A step of a task that needs no lock of the consensus state.
TaskRuns(t) ==
  \/ GossipLocks(t) \/ GossipHandled(t) \/ Forward(t) \/ Inform(t) \/ FallbackReplies(t)
  \/ Respond(t)

Next ==
  \/ UseScores \/ LoopSends \/ Tick \/ ReceiveCommand \/ SendResponse
  \/ SwarmEvent
  \/ \E t \in TaskIds : TaskRuns(t) \/ Lookup(t)
  \/ EngineReceives
  \/ EngineCommands(Send)
  \/ \E p \in Peers : EngineCommands([kind |-> "penalty", peer |-> p])

\* select! starts with a random branch, so that no ready branch is passed over for
\* ever; mutex and channels serve in order.  Nothing is assumed of the network, of
\* Lookup or of the commands of the engine.
Fairness ==
  /\ WF_vars(UseScores)
  /\ SF_vars(LoopSends)
  /\ SF_vars(Tick)
  /\ SF_vars(ReceiveCommand)
  /\ SF_vars(SendResponse)
  /\ WF_vars(EngineReceives)
  /\ \A t \in TaskIds : SF_vars(TaskRuns(t))

Spec == Init /\ [][Next]_vars

FairSpec == Spec /\ Fairness

-----------------------------------------------------------------------------
(***************************************************************************)
(* Properties                                                              *)
(***************************************************************************)

\* The type invariant.  Scores stay between one below the ban threshold and the
\* maximum, and the queue for the mutex holds exactly those that are at it.
TypeOK ==
  /\ connections \in [Peers -> 0 .. MaxConnections]
  /\ DOMAIN scores \subseteq Peers
  /\ \A p \in DOMAIN scores : /\ scores[p].score \in BanThreshold - 1 .. MaxPeerScore
                              /\ scores[p].is_banned \in BOOLEAN
  /\ DOMAIN tasks \subseteq TaskIds
  /\ Range(lock) = {t \in DOMAIN tasks : tasks[t].at = "locking"}
                     \cup (IF loop.for = "scores" THEN {Loop} ELSE {})
  /\ IsInjective(lock)
  /\ pending_dials \subseteq Peers
  /\ known_peers \subseteq Peers
  /\ channel \in 0 .. ChannelSize
  /\ Len(commands) <= CommandsSize
  /\ Len(responses) <= ResponsesSize
  /\ stable_since \in Unstable .. StabilityWindow
  /\ ready \in BOOLEAN
  /\ events \in 0 .. MaxEvents
  /\ answers <= requests

\* A peer whose score has reached the threshold is marked as banned, whichever of the
\* loop and the tasks took the points away.
LowScoresAreBanned ==
  \A p \in DOMAIN scores : scores[p].score <= BanThreshold => scores[p].is_banned

\* A peer that is connected is not taken for one that is being dialled, so that it can
\* be dialled again when its connections are lost.
ConnectedPeersAreNotPending == pending_dials \cap ConnectedPeers = {}

\* The loop always comes back to its select!, although it waits for tasks that hold
\* peer_scores and for the engine, which in turn need the loop to take their commands
\* and responses.
LoopReturns == loop # Idle ~> loop = Idle

\* Every request except GetFullProposal is answered.  (GetFullProposal needs locks of
\* the consensus state, see StateLocks.)
RequestsAreAnswered == \A n \in 1 .. MaxRequests : requests >= n ~> answers >= n

\* network_ready_flag goes up when enough peers stay connected, and down when too few
\* are left.
FlagFollowsNetwork ==
  LET enough == Cardinality(ConnectedPeers) >= RequiredPeers
  IN /\ <>[]enough => <>[]ready
     /\ <>[]~enough => <>[]~ready
=============================================================================
