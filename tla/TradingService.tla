--------------------------- MODULE TradingService ---------------------------
(***************************************************************************)
(* The clients' side of the market processor: the gRPC service and the     *)
(* WebSocket feed of zkapp/node/src/main.rs, composed with                 *)
(* MarketProcessor.                                                        *)
(*                                                                         *)
(* A call sends its command through a bounded channel to the processor,    *)
(* for which it may have to wait, and waits for the answer; a bid is       *)
(* answered as soon as it is in the channel.  A client may give up at any  *)
(* time, which drops the call but not a command that was already sent.     *)
(*                                                                         *)
(* The processor publishes the events of a command, one for each of its    *)
(* log entries here, before it answers.  A viewer gets them from a ring    *)
(* buffer that keeps the latest; the connection of a viewer that falls     *)
(* behind is closed.                                                       *)
(*                                                                         *)
(* The processor is a task of its own.  A panic ends it and leaves the     *)
(* service running, whose calls then fail.                                 *)
(***************************************************************************)
EXTENDS MarketProcessor

CONSTANTS
  ChannelSize,  \* 1024, commands in the channel
  FeedSize,     \* 100, events in the ring buffer
  MaxCalls      \* bound: calls

ASSUME ServiceAssumption ==
  {ChannelSize, FeedSize} \subseteq Nat \ {0} /\ MaxCalls \in Nat

VARIABLES
  serving,  \* the service runs
  calls,    \* command -> where the call is
  queue,    \* the channel
  events,   \* what this process has published
  viewer    \* a WebSocket connection: the next event, and those sent so far

serviceVars == <<serving, calls, queue, events, viewer>>

marketVars == vars

Closed == 0

ServiceInit ==
  /\ Init
  /\ serving = FALSE
  /\ calls = [c \in Commands |-> "idle"]
  /\ queue = <<>>
  /\ events = <<>>
  /\ viewer = [next |-> Closed, shown |-> <<>>]

Ends(c) == calls' = [calls EXCEPT ![c] = "over"]

-----------------------------------------------------------------------------
(***************************************************************************)
(* Calls                                                                   *)
(***************************************************************************)

OpenCalls == {c \in Commands : calls[c] \in {"sending", "waiting"}}

IsNew(c) == calls[c] = "idle" /\ Cardinality({d \in Commands : calls[d] # "idle"}) < MaxCalls

\* A call arrives and makes a command.
Accept(c) ==
  /\ serving
  /\ IsNew(c)
  /\ calls' = [calls EXCEPT ![c] = "sending"]
  /\ UNCHANGED <<marketVars, serving, queue, events, viewer>>

\* It is refused at once: an order has no side, a bid no signature.
Refuse(c) ==
  /\ serving
  /\ IsNew(c)
  /\ Ends(c)
  /\ UNCHANGED <<marketVars, serving, queue, events, viewer>>

PlaceLimitOrder(c) == c \in Places /\ (Accept(c) \/ Refuse(c))

ExecuteSolverBundle(c) == c \in Bundles /\ (Accept(c) \/ Refuse(c))

CancelOrderCall(c) == c \in Cancels /\ Accept(c)

GetOrderBookDepth(c) == c \in Depths /\ Accept(c)

SubmitIntentBid(c) == c \in Bids /\ (Accept(c) \/ Refuse(c))

\* Variant: the channel is taken to have room.
SendUnbounded(c) ==
  /\ serving
  /\ calls[c] = "sending"
  /\ up
  /\ queue' = Append(queue, c)
  /\ calls' = [calls EXCEPT ![c] = IF c \in Bids THEN "over" ELSE "waiting"]
  /\ UNCHANGED <<marketVars, serving, events, viewer>>

\* Variant: a command for which there is no room is dropped.
SendOrDrop(c) ==
  /\ serving
  /\ calls[c] = "sending"
  /\ up
  /\ queue' = IF Len(queue) < ChannelSize THEN Append(queue, c) ELSE queue
  /\ calls' = [calls EXCEPT ![c] = IF c \in Bids THEN "over" ELSE "waiting"]
  /\ UNCHANGED <<marketVars, serving, events, viewer>>

\* The command is in the channel.
Send(c) ==
  /\ serving
  /\ calls[c] = "sending"
  /\ up
  /\ Len(queue) < ChannelSize
  /\ queue' = Append(queue, c)
  /\ calls' = [calls EXCEPT ![c] = IF c \in Bids THEN "over" ELSE "waiting"]
  /\ UNCHANGED <<marketVars, serving, events, viewer>>

\* "Engine is down": the processor has ended, and with it the channel.
SendFails(c) ==
  /\ serving
  /\ calls[c] = "sending"
  /\ ~ up
  /\ Ends(c)
  /\ UNCHANGED <<marketVars, serving, queue, events, viewer>>

\* The client gives up.
GiveUp(c) ==
  /\ c \in OpenCalls
  /\ Ends(c)
  /\ UNCHANGED <<marketVars, serving, queue, events, viewer>>

-----------------------------------------------------------------------------
(***************************************************************************)
(* The processor                                                           *)
(***************************************************************************)

\* Variant: the events of a command are published when it is taken up.
TakePublishing(c) ==
  /\ queue # <<>> /\ c = Head(queue)
  /\ PlaceOrder(c) \/ CancelOrder(c) \/ ExecuteBundle(c) \/ GetDepth(c) \/ SubmitBid(c)
  /\ queue' = Tail(queue)
  /\ events' = events \o Parts(c)
  /\ UNCHANGED <<serving, calls, viewer>>

\* The processor takes the next command.
Take(c) ==
  /\ queue # <<>> /\ c = Head(queue)
  /\ PlaceOrder(c) \/ CancelOrder(c) \/ ExecuteBundle(c) \/ GetDepth(c) \/ SubmitBid(c)
  /\ queue' = Tail(queue)
  /\ UNCHANGED <<serving, calls, events, viewer>>

Work ==
  /\ WriteEntry \/ WriteFails \/ WriteOverflows \/ Execute
  /\ UNCHANGED serviceVars

\* The events are published and sent to the client, if it still waits for them.
Reply ==
  /\ Respond
  /\ events' = events \o Parts(current.command)
  /\ Ends(current.command)
  /\ UNCHANGED <<serving, queue, viewer>>

\* The task of the processor panics.  "Engine failed to respond"
ProcessorPanics ==
  /\ Crash
  /\ queue' = <<>>
  /\ calls' = [c \in Commands |-> IF calls[c] = "waiting" THEN "over" ELSE calls[c]]
  /\ UNCHANGED <<serving, events, viewer>>

-----------------------------------------------------------------------------
(***************************************************************************)
(* The feed                                                                *)
(***************************************************************************)

\* handle_socket: a viewer gets what is published from now on.
Subscribe ==
  /\ serving
  /\ viewer.next = Closed
  /\ viewer' = [next |-> Len(events) + 1, shown |-> <<>>]
  /\ UNCHANGED <<marketVars, serving, calls, queue, events>>

Lagged == viewer.next + FeedSize <= Len(events)

\* Variant: a viewer that has fallen behind goes on with the oldest event there is.
ShowLatest ==
  /\ serving
  /\ viewer.next \in 1 .. Len(events)
  /\ LET k == IF Lagged THEN Len(events) - FeedSize + 1 ELSE viewer.next
     IN viewer' = [next |-> k + 1, shown |-> Append(viewer.shown, events[k])]
  /\ UNCHANGED <<marketVars, serving, calls, queue, events>>

\* The next event is sent to the viewer.  The connection ends if it is no longer in the
\* buffer, or the viewer has left.
Show ==
  /\ serving
  /\ viewer.next \in 1 .. Len(events)
  /\ \/ viewer' = [viewer EXCEPT !.next = Closed]
     \/ /\ ~ Lagged
        /\ viewer' = [next |-> viewer.next + 1,
                      shown |-> Append(viewer.shown, events[viewer.next])]
  /\ UNCHANGED <<marketVars, serving, calls, queue, events>>

-----------------------------------------------------------------------------

\* Everything that happens while the service runs.
Serve ==
  \/ \E c \in Commands :
       \/ PlaceLimitOrder(c) \/ ExecuteSolverBundle(c) \/ CancelOrderCall(c)
       \/ GetOrderBookDepth(c) \/ SubmitIntentBid(c)
       \/ Send(c) \/ SendFails(c) \/ GiveUp(c) \/ Take(c)
  \/ Work \/ Reply \/ ProcessorPanics
  \/ Subscribe \/ Show

\* What the end of the process does to calls and connections.
EndCalls ==
  /\ serving' = FALSE
  /\ calls' = [c \in Commands |-> IF calls[c] = "idle" THEN "idle" ELSE "over"]
  /\ queue' = <<>>
  /\ events' = <<>>
  /\ viewer' = [viewer EXCEPT !.next = Closed]

\* The service runs again.
Reopen ==
  /\ serving' = TRUE
  /\ UNCHANGED <<calls, queue, events, viewer>>

-----------------------------------------------------------------------------
(***************************************************************************)
(* Properties                                                              *)
(***************************************************************************)

\* The type invariant.
ServiceTypeOK ==
  /\ serving \in BOOLEAN
  /\ calls \in [Commands -> {"idle", "sending", "waiting", "over"}]
  /\ Range(queue) \subseteq Commands /\ Len(queue) <= ChannelSize
  /\ viewer.next \in 0 .. Len(events) + 1

\* A call that waits for its answer will have one: its command is in the channel or is
\* being handled, whoever else has given up, been refused or failed.
NoCallIsForgotten ==
  \A c \in Commands :
    calls[c] = "waiting" =>
      up /\ (c \in Range(queue) \/ (current # Idle /\ current.command = c))

\* A viewer sees the events without a gap, in the order they were published, up to
\* the one it comes to next.
FeedIsContiguous ==
  viewer.next # Closed =>
    /\ Len(viewer.shown) < viewer.next
    /\ viewer.shown = SubSeq(events, viewer.next - Len(viewer.shown), viewer.next - 1)

\* What a viewer has seen stays true: the orders are in the book, in this order, after
\* any number of crashes (with the exceptions of LogLeadsBook).
FeedShowsTheBook ==
  up /\ ~ lost =>
    /\ Range(viewer.shown) \subseteq Range(executed)
    /\ \A k, l \in DOMAIN executed, i, j \in DOMAIN viewer.shown :
         executed[k] = viewer.shown[i] /\ executed[l] = viewer.shown[j] =>
           (k < l <=> i < j)
=============================================================================
