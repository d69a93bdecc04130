------------------------ MODULE TradingServiceProofs ------------------------
(***************************************************************************)
(* Proofs about the service of the node: the calls of clients and the feed *)
(* of the book.                                                            *)
(***************************************************************************)
EXTENDS TradingNodeProofs

-----------------------------------------------------------------------------
(***************************************************************************)
(* The service: calls                                                      *)
(***************************************************************************)

\* The types of calls and channel, and what makes NoCallIsForgotten inductive: the
\* processor runs in the process of the service.
CallsInv ==
  /\ serving \in BOOLEAN
  /\ calls \in [Commands -> {"idle", "sending", "waiting", "over"}]
  /\ queue \in Seq(Commands) /\ Len(queue) <= ChannelSize
  /\ up => serving
  /\ NoCallIsForgotten

\* A step at which no call begins to wait, and no command is lost, forgets no call.
LEMMA NothingForgotten ==
  ASSUME CallsInv, up' = up, Range(queue) \subseteq Range(queue'),
         (current' # Idle /\ current'.command = current.command) \/ current' = current,
         \A c \in Commands : calls'[c] = "waiting" => calls[c] = "waiting"
  PROVE  NoCallIsForgotten'
BY Zenon DEF CallsInv, NoCallIsForgotten, Range

\* What clients do.
LEMMA ClientCalls ==
  ASSUME CallsInv, NEW c \in Commands, Accept(c) \/ Refuse(c) \/ SendFails(c) \/ GiveUp(c)
  PROVE  CallsInv'
<1>1. /\ UNCHANGED <<serving, queue, current, up>>
      /\ \E at \in {"sending", "over"} : calls' = [calls EXCEPT ![c] = at]
  BY Zenon DEF Accept, Refuse, SendFails, GiveUp, Ends, marketVars, vars
<1>2. PICK at \in {"sending", "over"} : calls' = [calls EXCEPT ![c] = at]
  BY <1>1, Zenon
<1>3. calls' \in [Commands -> {"idle", "sending", "waiting", "over"}]
  BY <1>2, Zenon DEF CallsInv
<1>4. \A d \in Commands : calls'[d] = "waiting" => calls[d] = "waiting"
  BY <1>2, Zenon DEF CallsInv
<1>5. NoCallIsForgotten'
  BY <1>1, <1>4, NothingForgotten, Zenon
<1> QED BY <1>1, <1>3, <1>5, Zenon DEF CallsInv

\* A command is put in the channel, where it waits if its call does.
LEMMA SendCalls ==
  ASSUME CallsInv, NEW c \in Commands, Send(c)
  PROVE  CallsInv'
<1>1. /\ UNCHANGED <<serving, current, up>> /\ up
      /\ queue' = Append(queue, c) /\ Len(queue) < ChannelSize
      /\ calls' = [calls EXCEPT ![c] = IF c \in Bids THEN "over" ELSE "waiting"]
  BY Zenon DEF Send, marketVars, vars
<1>2. queue \in Seq(Commands) /\ calls \in [Commands -> {"idle", "sending", "waiting", "over"}]
  BY Zenon DEF CallsInv
<1>3. queue' \in Seq(Commands) /\ Len(queue') <= ChannelSize
  BY <1>1, <1>2, ServiceAssumption
<1>4. Range(queue') = Range(queue) \cup {c}
  BY <1>1, <1>2, RangeOfAppend
<1>5. calls' \in [Commands -> {"idle", "sending", "waiting", "over"}]
  BY <1>1, <1>2, Zenon
<1>6. ASSUME NEW d \in Commands, calls'[d] = "waiting"
      PROVE  d = c \/ calls[d] = "waiting"
  BY <1>1, <1>2, <1>6, Zenon
<1>7. NoCallIsForgotten'
  <2> SUFFICES ASSUME NEW d \in Commands, calls'[d] = "waiting"
               PROVE  up' /\ (d \in Range(queue') \/ (current' # Idle /\ current'.command = d))
    BY Zenon DEF NoCallIsForgotten, Range
  <2>1. CASE d = c
    BY <1>1, <1>4, <2>1, Zenon
  <2>2. CASE calls[d] = "waiting"
    BY <1>1, <1>4, <2>2, Zenon DEF CallsInv, NoCallIsForgotten
  <2> QED BY <1>6, <2>1, <2>2, Zenon
<1> QED BY <1>1, <1>3, <1>5, <1>7, Zenon DEF CallsInv

\* The processor takes a command from the channel and handles it.
LEMMA TakeCalls ==
  ASSUME CallsInv, NEW c \in Commands, Take(c)
  PROVE  CallsInv'
<1>1. /\ UNCHANGED <<serving, calls, up>>
      /\ queue # <<>> /\ c = Head(queue) /\ queue' = Tail(queue)
      /\ current' = [command |-> c, part |-> 1, at |-> "write"] /\ current = Idle
  BY Zenon DEF Take, PlaceOrder, CancelOrder, ExecuteBundle, GetDepth, SubmitBid, Receive
<1>2. queue \in Seq(Commands) /\ Len(queue) <= ChannelSize
  BY Zenon DEF CallsInv
<1>3. queue' \in Seq(Commands) /\ Len(queue') <= ChannelSize
  BY <1>1, <1>2, ServiceAssumption
<1>4. \A d \in Range(queue) : d = c \/ d \in Range(queue')
  <2> SUFFICES ASSUME NEW k \in DOMAIN queue, k # 1
               PROVE  queue[k] \in Range(Tail(queue))
    BY <1>1, <1>2 DEF Range
  <2>1. k - 1 \in DOMAIN Tail(queue) /\ Tail(queue)[k - 1] = queue[k]
    BY <1>1, <1>2
  <2> QED BY <2>1, Zenon DEF Range
<1>5. current' # Idle /\ current'.command = c
  BY <1>1, ProcessorAssumption
<1>6. NoCallIsForgotten'
  <2> SUFFICES ASSUME NEW d \in Commands, calls'[d] = "waiting"
               PROVE  up' /\ (d \in Range(queue') \/ (current' # Idle /\ current'.command = d))
    BY Zenon DEF NoCallIsForgotten, Range
  <2>1. up /\ d \in Range(queue)
    BY <1>1, Zenon DEF CallsInv, NoCallIsForgotten
  <2> QED BY <1>1, <1>4, <1>5, <2>1, Zenon
<1> QED BY <1>1, <1>3, <1>6, Zenon DEF CallsInv

\* The processor handles a command and replies.
LEMMA WorkCalls ==
  ASSUME MarketInv, CallsInv, Work \/ Reply
  PROVE  CallsInv'
<1>1. CASE Work
  <2>1. UNCHANGED <<serving, calls, queue, up>> /\ current # Idle
    BY <1>1, ZenonT(30) DEF Work, serviceVars, WriteEntry, WriteFails, WriteOverflows, Execute,
         Working
  <2>2. current \in Handling
    BY <2>1, CurrentType, Zenon DEF MarketInv
  <2>3. current' \in [command : Commands, part : Nat, at : {"write", "execute"}]
        /\ current'.command = current.command
    <3>1. \/ current' = [current EXCEPT !.at = "execute"]
          \/ current' = [current EXCEPT !.part = @ + 1, !.at = "write"]
      BY <1>1, ZenonT(30) DEF Work, WriteEntry, WriteFails, WriteOverflows, Execute
    <3>2. current = [command |-> current.command, part |-> current.part, at |-> current.at]
          /\ current.part \in Nat /\ current.command \in Commands
      BY <2>2, Zenon DEF Handling
    <3>3. \/ current' = [command |-> current.command, part |-> current.part, at |-> "execute"]
          \/ current' = [command |-> current.command, part |-> current.part + 1, at |-> "write"]
      BY <3>1, <3>2, Zenon
    <3> QED BY <3>2, <3>3
  <2>4. current' # Idle
    BY <2>3, ProcessorAssumption, Zenon
  <2>5. NoCallIsForgotten'
    BY <2>1, <2>3, <2>4, NothingForgotten, Zenon
  <2> QED BY <2>1, <2>5, Zenon DEF CallsInv
<1>2. CASE Reply
  <2>1. /\ UNCHANGED <<serving, queue, up>>
        /\ calls' = [calls EXCEPT ![current.command] = "over"]
    BY <1>2, Zenon DEF Reply, Respond, Ends
  <2>2. calls' \in [Commands -> {"idle", "sending", "waiting", "over"}]
    BY <2>1, Zenon DEF CallsInv
  <2>3. ASSUME NEW d \in Commands, calls'[d] = "waiting"
        PROVE  calls[d] = "waiting" /\ d # current.command
    BY <2>1, <2>3, Zenon DEF CallsInv
  <2>4. NoCallIsForgotten'
    <3> SUFFICES ASSUME NEW d \in Commands, calls'[d] = "waiting"
                 PROVE  up' /\ d \in Range(queue')
      BY Zenon DEF NoCallIsForgotten, Range
    <3> QED BY <2>1, <2>3, Zenon DEF CallsInv, NoCallIsForgotten
  <2> QED BY <2>1, <2>2, <2>4, Zenon DEF CallsInv
<1> QED BY <1>1, <1>2, Zenon

\* No call waits once the service has ended.
LEMMA EndedCalls ==
  ASSUME CallsInv, EndCalls, ~ up'
  PROVE  CallsInv'
<1>1. /\ serving' = FALSE /\ queue' = <<>>
      /\ calls' = [c \in Commands |-> IF calls[c] = "idle" THEN "idle" ELSE "over"]
  BY Zenon DEF EndCalls
<1>2. /\ calls' \in [Commands -> {"idle", "sending", "waiting", "over"}]
      /\ \A c \in Commands : calls'[c] # "waiting"
  BY <1>1, Zenon
<1>3. queue' \in Seq(Commands) /\ Len(queue') <= ChannelSize
  BY <1>1, ServiceAssumption
<1> QED BY <1>1, <1>2, <1>3, Zenon DEF CallsInv, NoCallIsForgotten

\* The processor, the service or the power ends, or the node starts.
LEMMA LifeCalls ==
  ASSUME MarketInv, CallsInv, ProcessorPanics \/ NodeStarts \/ NodeStops \/ PowerFails
  PROVE  CallsInv'
<1>1. CASE ProcessorPanics
  <2>1. /\ up' = FALSE /\ queue' = <<>> /\ UNCHANGED serving
        /\ calls' = [c \in Commands |-> IF calls[c] = "waiting" THEN "over" ELSE calls[c]]
    BY <1>1, Zenon DEF ProcessorPanics, Crash
  <2>2. /\ calls' \in [Commands -> {"idle", "sending", "waiting", "over"}]
        /\ \A c \in Commands : calls'[c] # "waiting"
    BY <2>1, Zenon DEF CallsInv
  <2>3. queue' \in Seq(Commands) /\ Len(queue') <= ChannelSize
    BY <2>1, ServiceAssumption
  <2> QED BY <2>1, <2>2, <2>3, Zenon DEF CallsInv, NoCallIsForgotten
<1>2. CASE NodeStarts
  <2>1. ~ serving /\ ~ up /\ serving' = TRUE /\ UNCHANGED <<calls, queue>>
    BY <1>2, Zenon DEF NodeStarts, Reopen, Recover
  <2> QED BY <2>1, Zenon DEF CallsInv, NoCallIsForgotten
<1>3. CASE NodeStops
  <2>1. /\ IF up THEN up' = FALSE ELSE UNCHANGED <<up, current>>
        /\ IF serving THEN EndCalls ELSE UNCHANGED <<serving, calls, queue>>
    BY <1>3, Zenon DEF NodeStops, Crash, marketVars, vars, serviceVars
  <2>2. CASE serving
    BY <2>1, <2>2, EndedCalls, Zenon DEF MarketInv, TypeOK
  <2>3. CASE ~ serving
    <3>1. ~ up
      BY <2>3, Zenon DEF CallsInv
    <3> QED BY <2>1, <2>3, <3>1, Zenon DEF CallsInv, NoCallIsForgotten, Range
  <2> QED BY <2>2, <2>3, Zenon
<1>4. CASE PowerFails
  BY <1>4, EndedCalls, Zenon DEF PowerFails
<1> QED BY <1>1, <1>2, <1>3, <1>4, Zenon

\* Every step keeps the calls.
LEMMA CallsStep ==
  ASSUME MarketInv, CallsInv, [NodeNext]_nodeVars
  PROVE  CallsInv'
<1>1. CASE UNCHANGED <<marketVars, serving, calls, queue>>
  <2>1. UNCHANGED <<up, current, serving, calls, queue>>
    BY <1>1, Zenon DEF marketVars, vars
  <2> QED BY <2>1, Zenon DEF CallsInv, NoCallIsForgotten, Range
<1>2. CASE Subscribe \/ Show \/ NodeOpensKeys \/ UNCHANGED nodeVars
  <2>1. UNCHANGED <<marketVars, serving, calls, queue>>
    BY <1>2, Zenon DEF Subscribe, Show, NodeOpensKeys, nodeVars, serviceVars
  <2> QED BY <1>1, <2>1, Zenon
<1>3. CASE NodeServes
  BY <1>2, <1>3, ClientCalls, SendCalls, TakeCalls, WorkCalls, LifeCalls, Zenon
     DEF NodeServes, Serve, PlaceLimitOrder, ExecuteSolverBundle, CancelOrderCall,
         GetOrderBookDepth, SubmitIntentBid
<1> QED BY <1>2, <1>3, LifeCalls DEF NodeNext

\* The calls are always kept.
LEMMA CallsAlways == NodeSpec => []CallsInv
<1>1. NodeInit => CallsInv
  <2> SUFFICES ASSUME NodeInit PROVE CallsInv
    OBVIOUS
  <2>1. /\ serving = FALSE /\ up = FALSE /\ queue = <<>>
        /\ calls = [c \in Commands |-> "idle"]
    BY DEF NodeInit, ServiceInit, Init
  <2>2. queue \in Seq(Commands) /\ Len(queue) <= ChannelSize
    BY <2>1, ServiceAssumption
  <2> QED BY <2>1, <2>2, Zenon DEF CallsInv, NoCallIsForgotten
<1>2. MarketInv /\ CallsInv /\ [NodeNext]_nodeVars => CallsInv'
  BY CallsStep
<1> QED BY <1>1, <1>2, MarketAlways, PTL DEF NodeSpec

\* A call that waits is not forgotten: whoever gives up, is refused or fails, and
\* whenever the processor panics, its command is in the channel or is being handled.
THEOREM NoCallIsEverForgotten == NodeSpec => []NoCallIsForgotten
<1>1. CallsInv => NoCallIsForgotten
  BY DEF CallsInv
<1> QED BY <1>1, CallsAlways, PTL

-----------------------------------------------------------------------------
(***************************************************************************)
(* The service: the feed                                                   *)
(***************************************************************************)

\* The k-th event that the viewer has seen is the one at this place.
Place(k) == ((viewer.next - Len(viewer.shown)) - 1) + k

\* The types of the feed, and FeedIsContiguous event by event.
ViewInv ==
  /\ events \in Seq(Entry)
  /\ viewer = [next |-> viewer.next, shown |-> viewer.shown]
  /\ viewer.shown \in Seq(Entry)
  /\ viewer.next \in 0 .. Len(events) + 1
  /\ viewer.next # Closed =>
       /\ Len(viewer.shown) < viewer.next
       /\ \A k \in 1 .. Len(viewer.shown) : viewer.shown[k] = events[Place(k)]

\* The entries of a command.
LEMMA PartsType ==
  ASSUME NEW c \in Commands
  PROVE  /\ Parts(c) \in Seq(Entry) /\ Len(Parts(c)) = Size[c] /\ Size[c] \in Nat
         /\ \A p \in 1 .. Size[c] : Parts(c)[p] = [command |-> c, part |-> p]
<1>1. Size[c] \in Nat
  BY SizeType
<1>2. Parts(c) \in [1 .. Size[c] -> Entry]
  BY <1>1 DEF Parts, Entry
<1>3. Parts(c) \in Seq(Entry)
  BY <1>1, <1>2, SeqFromFunction
<1> QED BY <1>1, <1>3 DEF Parts

\* Events are published after the others.
LEMMA ReplyView ==
  ASSUME MarketInv, ViewInv, Reply
  PROVE  ViewInv'
<1>1. /\ current # Idle /\ events' = events \o Parts(current.command) /\ viewer' = viewer
  BY DEF Reply, Respond, Working
<1>2. Parts(current.command) \in Seq(Entry)
  BY <1>1, CurrentType, PartsType DEF MarketInv
<1> DEFINE more == Parts(current.command)
<1> HIDE DEF more
<1>3. /\ events \in Seq(Entry) /\ more \in Seq(Entry)
      /\ viewer.shown \in Seq(Entry)
  BY <1>2 DEF ViewInv, more
<1>4. /\ events \o more \in Seq(Entry)
      /\ Len(events \o more) = Len(events) + Len(more)
      /\ \A k \in 1 .. Len(events) : (events \o more)[k] = events[k]
      /\ Len(events) \in Nat /\ Len(more) \in Nat
  BY <1>3
<1>5. /\ Len(events') >= Len(events) /\ events' \in Seq(Entry) /\ Len(events') \in Nat
      /\ \A k \in 1 .. Len(events) : events'[k] = events[k]
  BY <1>1, <1>4 DEF more
<1>6. viewer.next \in 0 .. Len(events') + 1
  BY <1>4, <1>5 DEF ViewInv
<1>7. ASSUME viewer.next # Closed, NEW k \in 1 .. Len(viewer.shown)
      PROVE  viewer.shown[k] = events'[Place(k)] /\ Place(k)' = Place(k)
  <2>1. Len(viewer.shown) \in Nat /\ Len(viewer.shown) < viewer.next /\ viewer.next \in Nat
        /\ viewer.next <= Len(events) + 1
    BY <1>3, <1>4, <1>7 DEF ViewInv
  <2>2. Place(k) \in 1 .. Len(events)
    BY <1>4, <2>1 DEF Place
  <2>3. Place(k)' = Place(k)
    BY <1>1 DEF Place
  <2> QED BY <1>5, <1>7, <2>2, <2>3 DEF ViewInv
<1> QED BY <1>1, <1>3, <1>5, <1>6, <1>7, Zenon DEF ViewInv

\* A viewer connects, or is sent the next event or closed.
LEMMA ShowView ==
  ASSUME ViewInv, Subscribe \/ Show
  PROVE  ViewInv'
<1>1. /\ events' = events /\ events \in Seq(Entry) /\ Len(events) \in Nat
      /\ viewer.shown \in Seq(Entry) /\ Len(viewer.shown) \in Nat
      /\ viewer.next \in 0 .. Len(events) + 1
  BY DEF ViewInv, Subscribe, Show
<1>2. CASE Subscribe
  <2>1. viewer' = [next |-> Len(events) + 1, shown |-> <<>>]
    BY <1>2 DEF Subscribe
  <2>2. viewer'.next = Len(events) + 1 /\ viewer'.shown = <<>>
    BY <2>1
  <2>3. viewer'.shown \in Seq(Entry) /\ Len(viewer'.shown) = 0
    BY <2>2
  <2> QED BY <1>1, <2>1, <2>2, <2>3 DEF ViewInv, Closed
<1>3. CASE Show /\ viewer' = [viewer EXCEPT !.next = Closed]
  <2>1. viewer' = [next |-> Closed, shown |-> viewer.shown]
    BY <1>3 DEF ViewInv
  <2> QED BY <1>1, <2>1 DEF ViewInv, Closed
<1>4. CASE /\ viewer.next \in 1 .. Len(events)
           /\ viewer' = [next |-> viewer.next + 1,
                         shown |-> Append(viewer.shown, events[viewer.next])]
  <2>1. /\ viewer'.next = viewer.next + 1
        /\ viewer'.shown = Append(viewer.shown, events[viewer.next])
        /\ events[viewer.next] \in Entry
    BY <1>1, <1>4
  <2>2. /\ viewer'.shown \in Seq(Entry) /\ Len(viewer'.shown) = Len(viewer.shown) + 1
        /\ \A k \in 1 .. Len(viewer.shown) : viewer'.shown[k] = viewer.shown[k]
        /\ viewer'.shown[Len(viewer.shown) + 1] = events[viewer.next]
    BY <1>1, <2>1, AppendFacts
  <2>3. /\ Len(viewer.shown) < viewer.next
        /\ \A k \in 1 .. Len(viewer.shown) : viewer.shown[k] = events[Place(k)]
    BY <1>1, <1>4 DEF ViewInv, Closed
  <2>4. \A k \in 1 .. Len(viewer.shown) + 1 : Place(k)' = Place(k)
    BY <1>1, <1>4, <2>1, <2>2 DEF Place
  <2>5. Place(Len(viewer.shown) + 1) = viewer.next
    BY <1>1, <1>4 DEF Place
  <2>6. \A k \in 1 .. Len(viewer'.shown) : viewer'.shown[k] = events[Place(k)']
    <3> SUFFICES ASSUME NEW k \in 1 .. Len(viewer.shown) + 1
                 PROVE  viewer'.shown[k] = events[Place(k)]
      BY <2>2, <2>4
    <3>1. CASE k = Len(viewer.shown) + 1
      BY <2>2, <2>5, <3>1
    <3>2. CASE k \in 1 .. Len(viewer.shown)
      BY <2>2, <2>3, <3>2
    <3> QED BY <1>1, <3>1, <3>2
  <2>7. Len(viewer'.shown) < viewer'.next /\ viewer'.next \in 0 .. Len(events) + 1
    BY <1>1, <1>4, <2>1, <2>2, <2>3
  <2>8. viewer' = [next |-> viewer'.next, shown |-> viewer'.shown]
    BY <1>4
  <2> QED BY <1>1, <2>2, <2>6, <2>7, <2>8 DEF ViewInv
<1> QED BY <1>2, <1>3, <1>4 DEF Show

\* The end of the process closes the connections.
LEMMA EndedView ==
  ASSUME ViewInv, EndCalls
  PROVE  ViewInv' /\ events' = <<>> /\ viewer'.shown = viewer.shown
<1>1. events' = <<>> /\ viewer' = [viewer EXCEPT !.next = Closed]
  BY DEF EndCalls
<1>2. viewer' = [next |-> Closed, shown |-> viewer.shown]
  BY <1>1 DEF ViewInv
<1>3. events' \in Seq(Entry) /\ Len(events') = 0
  BY <1>1
<1> QED BY <1>1, <1>2, <1>3 DEF ViewInv, Closed

\* What a step may do to the feed.
LEMMA FeedCases ==
  ASSUME [NodeNext]_nodeVars
  PROVE  \/ Reply \/ Subscribe \/ Show \/ EndCalls
         \/ UNCHANGED <<events, viewer>>
<1>1. CASE NodeServes
  BY <1>1 DEF NodeServes, Serve, PlaceLimitOrder, ExecuteSolverBundle, CancelOrderCall,
       GetOrderBookDepth, SubmitIntentBid, Accept, Refuse, Send, SendFails, GiveUp, Take,
       Work, ProcessorPanics, serviceVars
<1>2. CASE ~ NodeServes
  BY <1>2 DEF NodeNext, NodeOpensKeys, NodeStarts, Reopen, NodeStops, PowerFails, nodeVars,
       serviceVars
<1> QED BY <1>1, <1>2

\* Every step keeps the feed without gaps.
LEMMA ViewStep ==
  ASSUME MarketInv, ViewInv, [NodeNext]_nodeVars
  PROVE  ViewInv'
<1>1. CASE UNCHANGED <<events, viewer>>
  BY <1>1 DEF ViewInv, Place
<1> QED BY <1>1, ReplyView, ShowView, EndedView, FeedCases

\* The feed is always without gaps.
LEMMA ViewAlways == NodeSpec => []ViewInv
<1>1. NodeInit => ViewInv
  <2> SUFFICES ASSUME NodeInit PROVE ViewInv
    OBVIOUS
  <2>1. events = <<>> /\ viewer = [next |-> Closed, shown |-> <<>>]
    BY DEF NodeInit, ServiceInit
  <2>2. viewer.next = Closed /\ viewer.shown = <<>> /\ Len(events) = 0
        /\ events \in Seq(Entry) /\ viewer.shown \in Seq(Entry)
    BY <2>1
  <2> QED BY <2>1, <2>2 DEF ViewInv, Closed
<1>2. MarketInv /\ ViewInv /\ [NodeNext]_nodeVars => ViewInv'
  BY ViewStep
<1> QED BY <1>1, <1>2, MarketAlways, PTL DEF NodeSpec

\* A viewer never misses an event: it has seen a run of the events published, up to the
\* one that comes next, whatever the size of the ring buffer.
THEOREM TheFeedIsContiguous == NodeSpec => []FeedIsContiguous
<1>1. ViewInv => FeedIsContiguous
  <2> SUFFICES ASSUME ViewInv, viewer.next # Closed
               PROVE  viewer.shown = SubSeq(events, viewer.next - Len(viewer.shown), viewer.next - 1)
    BY DEF FeedIsContiguous, ViewInv
  <2> DEFINE n == Len(viewer.shown)
             from == viewer.next - n
             upto == viewer.next - 1
             part == SubSeq(events, from, upto)
  <2>1. /\ viewer.next \in 0 .. Len(events) + 1 /\ n < viewer.next
        /\ viewer.shown \in Seq(Entry) /\ events \in Seq(Entry)
        /\ \A k \in 1 .. n : viewer.shown[k] = events[Place(k)]
    BY Zenon DEF ViewInv
  <2>2. n \in Nat /\ Len(events) \in Nat /\ viewer.next \in Nat /\ viewer.next <= Len(events) + 1
    BY <2>1, SeqFacts
  <2>3. from \in Int /\ upto \in Int /\ (upto - from) + 1 = n
        /\ (n = 0 <=> ~ (from <= upto))
    BY <2>1, <2>2
  <2> HIDE DEF n, from, upto
  <2>4. \A i \in from .. upto : events[i] \in Entry
    <3>1. \A i \in from .. upto : i \in 1 .. Len(events)
      BY <2>1, <2>2 DEF from, upto
    <3> QED BY <2>1, <3>1, SeqFacts, Zenon
  <2>5. /\ part \in Seq(Entry)
        /\ Len(part) = n
        /\ \A i \in 1 .. n : part[i] = events[(from + i) - 1]
    <3>1. /\ part \in Seq(Entry)
          /\ Len(part) = IF from <= upto THEN (upto - from) + 1 ELSE 0
          /\ \A i \in 1 .. (upto - from) + 1 : part[i] = events[(from + i) - 1]
      BY <2>3, <2>4, SubSeqFacts
    <3> QED BY <2>3, <3>1, Zenon
  <2> HIDE DEF part
  <2>6. \A i \in 1 .. n : viewer.shown[i] = part[i]
    <3> SUFFICES ASSUME NEW i \in 1 .. n PROVE viewer.shown[i] = part[i]
      OBVIOUS
    <3>1. viewer.shown[i] = events[Place(i)]
      BY <2>1
    <3>2. Place(i) = (from + i) - 1
      BY <2>2 DEF Place, from, n
    <3> QED BY <2>5, <3>1, <3>2, Zenon
  <2> QED BY <2>1, <2>5, <2>6, SameSeq, Zenon DEF part, from, upto, n
<1> QED BY <1>1, ViewAlways, PTL

\* The service keeps its types: the channel never holds more than it has room for, and a
\* viewer is never ahead of the events.
THEOREM TheServiceTypeOK == NodeSpec => []ServiceTypeOK
<1>1. CallsInv /\ ViewInv => ServiceTypeOK
  <2> SUFFICES ASSUME CallsInv, ViewInv PROVE Range(queue) \subseteq Commands
    BY DEF CallsInv, ViewInv, ServiceTypeOK
  <2> QED BY DEF CallsInv, Range
<1> QED BY <1>1, CallsAlways, ViewAlways, PTL

-----------------------------------------------------------------------------
(***************************************************************************)
(* The service: the feed and the book                                      *)
(***************************************************************************)

\* The entries are in the book, each once, in this order.
Shows(book, seen) ==
  /\ Range(seen) \subseteq Range(book)
  /\ \A k, l \in DOMAIN book, i, j \in DOMAIN seen :
       book[k] = seen[i] /\ book[l] = seen[j] => (k < l <=> i < j)

Published == Range(events) \cup Range(viewer.shown)

\* What makes FeedShowsTheBook inductive: it holds of the log and of all that this
\* process has published, and nothing was published of the command that is being handled.
FeedInv ==
  /\ ~ lost => Shows(Log, events) /\ Shows(Log, viewer.shown)
  /\ \A e \in Published : e.command \in sent /\ (current # Idle => e.command # current.command)

\* An entry that was not seen makes no difference.
LEMMA ShowsGrows ==
  ASSUME NEW S, NEW book \in Seq(S), NEW seen, NEW e \in S, e \notin Range(seen)
  PROVE  Shows(Append(book, e), seen) <=> Shows(book, seen)
<1> DEFINE more == Append(book, e)
<1>1. Range(more) = Range(book) \cup {e}
  BY RangeOfAppend
<1>2. /\ DOMAIN book = 1 .. Len(book) /\ Len(book) \in Nat
      /\ DOMAIN more = (1 .. Len(book)) \cup {Len(book) + 1}
      /\ \A k \in 1 .. Len(book) : more[k] = book[k]
      /\ more[Len(book) + 1] = e
  BY AppendFacts, SeqFacts
<1> HIDE DEF more
<1>3. \A i \in DOMAIN seen : e # seen[i]
  BY DEF Range
<1>4. ASSUME Shows(more, seen)
      PROVE  Shows(book, seen)
  <2> SUFFICES ASSUME NEW k \in DOMAIN book, NEW l \in DOMAIN book,
                      NEW i \in DOMAIN seen, NEW j \in DOMAIN seen,
                      book[k] = seen[i], book[l] = seen[j]
               PROVE  k < l <=> i < j
    BY <1>1, <1>4 DEF Shows
  <2>1. more[k] = book[k] /\ more[l] = book[l] /\ k \in DOMAIN more /\ l \in DOMAIN more
    BY <1>2
  <2> QED BY <1>4, <2>1 DEF Shows
<1>5. ASSUME Shows(book, seen)
      PROVE  Shows(more, seen)
  <2> SUFFICES ASSUME NEW k \in DOMAIN more, NEW l \in DOMAIN more,
                      NEW i \in DOMAIN seen, NEW j \in DOMAIN seen,
                      more[k] = seen[i], more[l] = seen[j]
               PROVE  k < l <=> i < j
    BY <1>1, <1>5 DEF Shows
  <2>1. more[k] = book[k] /\ more[l] = book[l] /\ k \in DOMAIN book /\ l \in DOMAIN book
    BY <1>2, <1>3
  <2> QED BY <1>5, <2>1, Zenon DEF Shows
<1> QED BY <1>4, <1>5 DEF more

\* The entries of a command are published when they are all in the book, at its end.
LEMMA ShowsMore ==
  ASSUME NEW book \in Seq(Entry), NEW seen \in Seq(Entry), NEW c \in Commands,
         Shows(book, seen), \A e \in Range(seen) : e.command # c, IsLast(book, c, Size[c])
  PROVE  Shows(book, seen \o Parts(c))
<1> DEFINE n == Len(seen)
           m == Size[c]
           more == seen \o Parts(c)
           start == Len(book) - m
<1>1. /\ Parts(c) \in Seq(Entry) /\ Len(Parts(c)) = m /\ m \in Nat
      /\ \A p \in 1 .. m : Parts(c)[p] = [command |-> c, part |-> p]
  BY PartsType
<1>2. /\ n \in Nat /\ DOMAIN seen = 1 .. n /\ DOMAIN more = 1 .. n + m
      /\ \A i \in 1 .. n : more[i] = seen[i]
      /\ \A p \in 1 .. m : more[n + p] = Parts(c)[p]
  <2> DEFINE end == n + Len(Parts(c))
  <2>1. /\ more \in Seq(Entry) /\ Len(more) = end
        /\ \A i \in 1 .. end : more[i] = IF i <= n THEN seen[i] ELSE Parts(c)[i - n]
    BY <1>1, ConcatFacts, Zenon
  <2>2. n \in Nat /\ m \in Nat /\ DOMAIN seen = 1 .. n /\ end = n + m
    BY <1>1, SeqFacts
  <2> HIDE DEF end
  <2>3. DOMAIN more = 1 .. n + m
    BY <2>1, <2>2, SeqFacts, Zenon
  <2> HIDE DEF n, m, more
  <2>4. \A i \in 1 .. n : i \in 1 .. n + m /\ i <= n
    BY <2>2
  <2>5. \A p \in 1 .. m : n + p \in 1 .. n + m /\ ~ (n + p <= n) /\ (n + p) - n = p
    BY <2>2
  <2> QED BY <2>1, <2>2, <2>3, <2>4, <2>5, Zenon
<1>3. /\ start \in Nat /\ start + m = Len(book) /\ DOMAIN book = 1 .. Len(book)
      /\ \A k \in DOMAIN book : book[k].command = c <=> k > start
      /\ \A p \in 1 .. m : book[start + p] = [command |-> c, part |-> p]
  BY <1>1, SeqFacts DEF IsLast
<1> HIDE DEF more, start, n, m
<1>4. n \in Nat /\ m \in Nat /\ start \in Nat /\ DOMAIN book = 1 .. start + m
  BY <1>1, <1>2, <1>3, Zenon
<1>5. DOMAIN book \subseteq Nat /\ DOMAIN more \subseteq Nat
  BY <1>2, <1>4
<1>6. ASSUME NEW i \in DOMAIN more, i \notin DOMAIN seen
      PROVE  i - n \in 1 .. m /\ more[i] = [command |-> c, part |-> i - n]
  <2>1. i \in 1 .. n + m /\ ~ (i \in 1 .. n)
    BY <1>2, <1>6, Zenon
  <2>2. i - n \in 1 .. m /\ n + (i - n) = i
    BY <1>4, <2>1
  <2> QED BY <1>1, <1>2, <2>2, ZenonT(30)
<1>7. ASSUME NEW k \in Nat, NEW i \in Nat,
             k \in DOMAIN book, i \in DOMAIN more, book[k] = more[i]
      PROVE  \/ i \in DOMAIN seen /\ book[k] = seen[i] /\ i <= n /\ k <= start
             \/ i > n /\ k > start /\ i + start = k + n
  <2>2. CASE i \in DOMAIN seen
    <3>1. book[k] = seen[i] /\ i \in 1 .. n
      BY <1>2, <1>7, <2>2, Zenon
    <3>2. book[k].command # c
      BY <2>2, <3>1, Zenon DEF Range
    <3>3. ~ (k > start)
      BY <1>3, <1>7, <3>2, Zenon
    <3> QED BY <1>4, <2>2, <3>1, <3>3
  <2>3. CASE i \notin DOMAIN seen
    <3>1. i - n \in 1 .. m /\ book[k] = [command |-> c, part |-> i - n]
      BY <1>6, <1>7, <2>3, Zenon
    <3>2. k > start
      <4>1. book[k].command = c
        BY <3>1
      <4> QED BY <1>3, <1>7, <4>1, Zenon
    <3>3. k - start \in 1 .. m /\ start + (k - start) = k
      BY <1>4, <1>7, <3>2
    <3>4. book[k] = [command |-> c, part |-> k - start]
      BY <1>3, <3>3, Zenon
    <3>5. i - n = k - start
      BY <3>1, <3>4
    <3> QED BY <1>4, <3>2, <3>5
  <2> QED BY <2>2, <2>3
<1>8. Range(more) \subseteq Range(book)
  <2> SUFFICES ASSUME NEW i \in DOMAIN more PROVE more[i] \in Range(book)
    BY DEF Range
  <2>1. CASE i \in DOMAIN seen
    <3>1. more[i] = seen[i] /\ seen[i] \in Range(seen)
      BY <1>2, <2>1, Zenon DEF Range
    <3> QED BY <3>1, Zenon DEF Shows
  <2>2. CASE i \notin DOMAIN seen
    <3>1. more[i] = book[start + (i - n)] /\ i - n \in 1 .. m
      BY <1>3, <1>6, <2>2, Zenon
    <3>2. start + (i - n) \in DOMAIN book
      BY <1>4, <3>1
    <3> QED BY <3>1, <3>2, Zenon DEF Range
  <2> QED BY <2>1, <2>2
<1>9. ASSUME NEW k \in Nat, NEW l \in Nat, NEW i \in Nat, NEW j \in Nat,
             k \in DOMAIN book, l \in DOMAIN book, i \in DOMAIN more, j \in DOMAIN more,
             book[k] = more[i], book[l] = more[j]
      PROVE  k < l <=> i < j
  <2>1. \/ i \in DOMAIN seen /\ book[k] = seen[i] /\ i <= n /\ k <= start
        \/ i > n /\ k > start /\ i + start = k + n
    BY <1>7, <1>9, Zenon
  <2>2. \/ j \in DOMAIN seen /\ book[l] = seen[j] /\ j <= n /\ l <= start
        \/ j > n /\ l > start /\ j + start = l + n
    BY <1>7, <1>9, Zenon
  <2>3. n \in Nat /\ start \in Nat
    BY <1>4, Zenon
  <2>4. CASE i \in DOMAIN seen /\ j \in DOMAIN seen /\ book[k] = seen[i] /\ book[l] = seen[j]
    BY <1>9, <2>4, Zenon DEF Shows
  <2>5. CASE i <= n /\ k <= start /\ j > n /\ l > start
    BY <2>3, <2>5
  <2>6. CASE i > n /\ k > start /\ j <= n /\ l <= start
    BY <2>3, <2>6
  <2>7. CASE i + start = k + n /\ j + start = l + n
    BY <2>3, <2>7
  <2> QED BY <2>1, <2>2, <2>4, <2>5, <2>6, <2>7, Zenon
<1> QED BY <1>8, <1>9, <1>5, Zenon DEF Shows, more

\* A run of the events is in the book if they are.
LEMMA ShowsPart ==
  ASSUME NEW book, NEW S, NEW all \in Seq(S), NEW seen \in Seq(S), NEW before \in Nat,
         \A i \in 1 .. Len(seen) : before + i \in 1 .. Len(all) /\ seen[i] = all[before + i]
  PROVE  Range(seen) \subseteq Range(all) /\ (Shows(book, all) => Shows(book, seen))
<1>1. DOMAIN seen = 1 .. Len(seen) /\ DOMAIN all = 1 .. Len(all) /\ Len(seen) \in Nat
  BY SeqFacts
<1>2. Range(seen) \subseteq Range(all)
  BY <1>1 DEF Range
<1>3. ASSUME Shows(book, all), NEW k \in DOMAIN book, NEW l \in DOMAIN book,
             NEW i \in DOMAIN seen, NEW j \in DOMAIN seen, book[k] = seen[i], book[l] = seen[j]
      PROVE  k < l <=> i < j
  <2>1. /\ before + i \in DOMAIN all /\ before + j \in DOMAIN all
        /\ book[k] = all[before + i] /\ book[l] = all[before + j]
    BY <1>1, <1>3
  <2>2. k < l <=> before + i < before + j
    BY <1>3, <2>1 DEF Shows
  <2>3. i \in Nat /\ j \in Nat
    BY <1>1
  <2>4. before + i < before + j <=> i < j
    BY <2>3
  <2> QED BY <2>2, <2>4
<1> QED BY <1>2, <1>3 DEF Shows

\* What a viewer that is connected has seen is among the events.
LEMMA ViewerSees ==
  ASSUME NEW book, NEW all \in Seq(Entry), NEW seen \in Seq(Entry),
         NEW next \in 0 .. Len(all) + 1, Len(seen) < next,
         \A i \in 1 .. Len(seen) : seen[i] = all[((next - Len(seen)) - 1) + i]
  PROVE  Range(seen) \subseteq Range(all) /\ (Shows(book, all) => Shows(book, seen))
<1> DEFINE before == (next - Len(seen)) - 1
<1>1. Len(all) \in Nat /\ Len(seen) \in Nat
  OBVIOUS
<1>2. before \in Nat
  BY <1>1
<1>3. \A i \in 1 .. Len(seen) : before + i \in 1 .. Len(all)
  BY <1>1
<1>4. \A i \in 1 .. Len(seen) : seen[i] = all[before + i]
  OBVIOUS
<1> HIDE DEF before
<1> QED BY <1>2, <1>3, <1>4, ShowsPart, Zenon

\* A command that was sent, and is not being handled, never will be again.
LEMMA SentOnce ==
  ASSUME MarketInv, [NodeNext]_nodeVars, NEW d \in sent, current # Idle => d # current.command
  PROVE  d \in sent' /\ (current' # Idle => d # current'.command)
<1>1. [Next]_vars \/ PowerFails
  BY NodeStepsAreMarketSteps
<1>2. ASSUME NEW c \in Commands, Receive(c)
      PROVE  d \in sent' /\ (current' # Idle => d # current'.command)
  BY <1>2 DEF Receive
<1>3. CASE WriteEntry \/ WriteFails \/ WriteOverflows \/ Execute
  <2>1. /\ sent' = sent /\ current # Idle
        /\ \/ current' = [current EXCEPT !.at = "execute"]
           \/ current' = [current EXCEPT !.part = @ + 1, !.at = "write"]
    BY <1>3, ZenonT(30) DEF WriteEntry, WriteFails, WriteOverflows, Execute, Working
  <2>2. current \in Handling
    BY <2>1, CurrentType DEF MarketInv
  <2>3. current = [command |-> current.command, part |-> current.part, at |-> current.at]
    BY <2>2 DEF Handling
  <2>4. current'.command = current.command
    BY <2>1, <2>3, Zenon
  <2> QED BY <2>1, <2>4
<1>4. CASE Respond \/ Crash \/ PowerFails
  BY <1>4, ZenonT(30) DEF Respond, Crash, PowerFails
<1>5. CASE Recover \/ UNCHANGED vars
  BY <1>5 DEF Recover, vars
<1> QED BY <1>1, <1>2, <1>3, <1>4, <1>5
        DEF Next, PlaceOrder, CancelOrder, ExecuteBundle, GetDepth, SubmitBid

\* Every step keeps what viewers saw in the log.
LEMMA FeedStep ==
  ASSUME MarketInv, LogInv, AnswersInv, ViewInv, ViewInv', FeedInv, [NodeNext]_nodeVars
  PROVE  FeedInv'
<1> DEFINE Kept == ~ lost' => Shows(Log', events') /\ Shows(Log', viewer'.shown)
           Fresh(e) == e.command \in sent' /\ (current' # Idle => e.command # current'.command)
           Goal == Kept /\ \A e \in Range(events') \cup Range(viewer'.shown) : Fresh(e)
<1>1. SUFFICES Goal
  BY Zenon DEF FeedInv, Shows, Published, Range
<1>2. \A e \in Range(events) \cup Range(viewer.shown) : Fresh(e)
  BY SentOnce DEF FeedInv, Published
<1>3. ASSUME ~ lost'
      PROVE  /\ ~ lost /\ Log \in Seq(Entry)
             /\ Log' = IF WriteEntry \/ WriteFails THEN Append(Log, CurrentEntry) ELSE Log
             /\ Shows(Log', events) /\ Shows(Log', viewer.shown)
  <2>1. /\ ~ lost /\ Log \in Seq(Entry)
        /\ Log' = IF WriteEntry \/ WriteFails THEN Append(Log, CurrentEntry) ELSE Log
    BY <1>3, LogStep, Zenon
  <2>2. Shows(Log, events) /\ Shows(Log, viewer.shown)
    BY <2>1 DEF FeedInv
  <2>3. CASE WriteEntry \/ WriteFails
    <3>1. current # Idle
      BY <2>3, WriteDoes, Zenon
    <3>2. CurrentEntry \in Entry /\ CurrentEntry.command = current.command
      BY <3>1, CurrentType, Zenon DEF MarketInv, CurrentEntry
    <3>3. CurrentEntry \notin Range(events) /\ CurrentEntry \notin Range(viewer.shown)
      BY <3>1, <3>2 DEF FeedInv, Published
    <3> QED BY <2>1, <2>2, <2>3, <3>2, <3>3, ShowsGrows
  <2>4. CASE ~ (WriteEntry \/ WriteFails)
    BY <2>1, <2>2, <2>4
  <2> QED BY <2>1, <2>3, <2>4
<1>4. CASE UNCHANGED <<events, viewer>>
  BY <1>2, <1>3, <1>4
<1>5. CASE EndCalls
  <2>1. events' = <<>> /\ viewer'.shown = viewer.shown
    BY <1>5, EndedView
  <2>2. Range(<<>>) = {} /\ Shows(Log', <<>>)
    BY DEF Shows, Range
  <2> QED BY <1>2, <1>3, <2>1, <2>2
<1>6. CASE Subscribe \/ Show
  <2>1. events' = events
    BY <1>6 DEF Subscribe, Show
  <2>2. CASE viewer'.next # Closed
    <3>1. /\ events' \in Seq(Entry) /\ viewer'.shown \in Seq(Entry)
          /\ viewer'.next \in 0 .. Len(events') + 1 /\ Len(viewer'.shown) < viewer'.next
          /\ \A i \in 1 .. Len(viewer'.shown) :
               viewer'.shown[i] = events'[((viewer'.next - Len(viewer'.shown)) - 1) + i]
      BY <2>2 DEF ViewInv, Place
    <3>2. /\ Range(viewer'.shown) \subseteq Range(events')
          /\ Shows(Log', events') => Shows(Log', viewer'.shown)
      BY <3>1, ViewerSees, ZenonT(30)
    <3> QED BY <1>2, <1>3, <2>1, <3>2
  <2>3. CASE viewer'.next = Closed
    <3>1. viewer' = [viewer EXCEPT !.next = Closed]
      BY <1>6, <2>3 DEF Subscribe, Show, ViewInv, Closed
    <3>2. viewer'.shown = viewer.shown
      BY <3>1 DEF ViewInv
    <3> QED BY <1>2, <1>3, <2>1, <3>2
  <2> QED BY <2>2, <2>3
<1>7. CASE Reply
  <2>1. /\ current # Idle /\ current.at = "write" /\ current.part > Size[current.command]
        /\ events' = events \o Parts(current.command) /\ viewer' = viewer
        /\ current' = Idle /\ sent' = sent
    BY <1>7 DEF Reply, Respond, Working
  <2>2. /\ current.command \in Commands /\ current.part \in Nat /\ current.command \in sent
        /\ Size[current.command] \in Nat /\ current.part <= Size[current.command] + 1
    BY <2>1, CurrentType DEF MarketInv
  <2>3. Logged = Size[current.command] /\ ~ (WriteEntry \/ WriteFails)
    <3>1. current.part = Size[current.command] + 1
      BY <2>1, <2>2
    <3>2. Logged = Size[current.command]
      BY <2>1, <2>2, <3>1 DEF Logged
    <3>3. ~ (current.part <= Size[current.command])
      BY <2>2, <3>1
    <3> QED BY <3>2, <3>3 DEF WriteEntry, WriteFails
  <2>4. events \in Seq(Entry) /\ \A e \in Range(events) : e.command # current.command
    <3>1. Range(events) \subseteq Published
      BY Zenon DEF Published
    <3> QED BY <2>1, <3>1, Zenon DEF ViewInv, FeedInv
  <2>5. ASSUME ~ lost'
        PROVE  Shows(Log', events')
    <3>1. Log' = Log /\ Log \in Seq(Entry) /\ Shows(Log, events) /\ ~ lost
      BY <1>3, <2>3, <2>5, ZenonT(30)
    <3>2. IsLast(Log, current.command, Size[current.command])
      BY <2>1, <2>3, <3>1, Zenon DEF AnswersInv
    <3> QED BY <2>1, <2>2, <2>4, <3>1, <3>2, ShowsMore
  <2>6. \A e \in Range(events') : Fresh(e)
    <3>1. Range(events') \subseteq Range(events) \cup Range(Parts(current.command))
      <4>1. Parts(current.command) \in Seq(Entry)
        BY <2>2, PartsType
      <4> QED BY <2>1, <2>4, <4>1, RangeOfConcat, ZenonT(30)
    <3>2. \A e \in Range(Parts(current.command)) : e.command = current.command
      <4> SUFFICES ASSUME NEW p \in DOMAIN Parts(current.command)
                   PROVE  Parts(current.command)[p].command = current.command
        BY DEF Range
      <4> QED BY DEF Parts
    <3> QED BY <1>2, <2>1, <2>2, <3>1, <3>2
  <2> QED BY <1>2, <1>3, <2>1, <2>5, <2>6
<1> HIDE DEF Goal
<1> QED BY <1>4, <1>5, <1>6, <1>7, FeedCases

\* What viewers saw is always in the log.
LEMMA FeedAlways == NodeSpec => [](MarketInv /\ LogInv /\ FeedInv)
<1>1. NodeInit => FeedInv
  <2> SUFFICES ASSUME NodeInit PROVE FeedInv
    BY Zenon
  <2>1. Log = <<>> /\ events = <<>> /\ viewer.shown = <<>>
    BY NoLogYet, Zenon DEF NodeInit, ServiceInit
  <2>2. Range(<<>>) = {} /\ Shows(<<>>, <<>>)
    BY DEF Shows, Range
  <2> QED BY <2>1, <2>2 DEF FeedInv, Published
<1>2. MarketInv /\ LogInv /\ AnswersInv /\ ViewInv /\ ViewInv' /\ FeedInv /\ [NodeNext]_nodeVars
        => FeedInv'
  BY FeedStep
<1> QED BY <1>1, <1>2, AnswersAlways, ViewAlways, PTL DEF NodeSpec

\* What a viewer has seen stays true: each order is in the book, in the order in which it
\* was shown, however often the process crashes and recovers afterwards, with the
\* exceptions of LogLeadsBook.
THEOREM TheFeedShowsTheBook == NodeSpec => []FeedShowsTheBook
<1>1. MarketInv /\ LogInv /\ FeedInv => FeedShowsTheBook
  <2> SUFFICES ASSUME MarketInv, LogInv, FeedInv, up, ~ lost
               PROVE  Shows(executed, viewer.shown)
    BY Zenon DEF FeedShowsTheBook, Shows
  <2>1. Shows(Log, viewer.shown)
    BY Zenon DEF FeedInv
  <2>2. CASE Log = executed
    BY <2>1, <2>2
  <2>3. CASE current # Idle /\ Log = Append(executed, CurrentEntry)
    <3>1. executed \in Seq(Entry \cup {Garbage}) /\ CurrentEntry \in Entry \cup {Garbage}
      BY <2>3, CurrentType DEF MarketInv, TypeOK
    <3>2. CurrentEntry \notin Range(viewer.shown)
      BY <2>3 DEF FeedInv, Published, CurrentEntry
    <3> QED BY <2>1, <2>3, <3>1, <3>2, ShowsGrows
  <2> QED BY <2>2, <2>3 DEF LogInv
<1> QED BY <1>1, FeedAlways, PTL
=============================================================================
