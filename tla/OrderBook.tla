------------------------------ MODULE OrderBook ------------------------------
(***************************************************************************)
(* The in-memory limit order book of zkapp/engine/src/lib.rs.              *)
(*                                                                         *)
(* A book is owned by one actor (MarketProcessor, or the mutex of the C    *)
(* bindings), so commands never interleave.  place_limit_order is a loop,  *)
(* and the specification takes one step per iteration of it: StartPlace    *)
(* enters the function, CancelSelfTrade and Trade are the two ways one     *)
(* iteration can go, Rest and Filled leave the function.  No other command *)
(* is enabled in between.  cancel_order has no loop and is one step.       *)
(*                                                                         *)
(* The maps of the code are functions whose domain is the set of keys that *)
(* are present: a vacant slab slot, an absent id or an absent price level  *)
(* is a value outside the domain.                                          *)
(***************************************************************************)
EXTENDS Integers, Sequences, Functions

CONSTANTS
  OrderIds,   \* order ids the clients use
  Users,      \* owners of orders
  Prices,     \* limit prices
  Quantities, \* quantities a client may ask for, possibly 0
  Capacity,   \* bound: slots of the slab
  Reused,     \* the order ids that clients may send again after they have sent them
  NoTaker     \* no call of place_limit_order is running

Side == {"Bid", "Ask"}

Slots == 0 .. Capacity - 1

Order == [id : OrderIds, user : Users, side : Side, price : Prices, quantity : Nat]

\* What a client may ask place_limit_order for.
Request == [id : OrderIds, user : Users, side : Side, price : Prices, quantity : Quantities]

ASSUME ConstantsAssumption ==
  /\ Prices \subseteq Nat
  /\ Quantities \subseteq Nat
  /\ Capacity \in Nat
  /\ Reused \subseteq OrderIds
  /\ NoTaker \notin Order

VARIABLES
  store,  \* order_store: slot -> resting order
  free,   \* the slab's chain of vacant slots: the slot freed last comes first
  book,   \* bids and asks: side -> price -> queue of slots
  index,  \* order_index: order id -> slot
  taker,  \* the order place_limit_order is working on, or NoTaker
  events, \* the events the running, or else the last, command returns
  used    \* the ids the clients have sent

vars == <<store, free, book, index, taker, events, used>>

-----------------------------------------------------------------------------

Opposite(side) == IF side = "Bid" THEN "Ask" ELSE "Bid"

\* Maps with a key added or overwritten, and with a key removed.
With(f, k, v) == [x \in DOMAIN f \cup {k} |-> IF x = k THEN v ELSE f[x]]

Without(f, k) == [x \in DOMAIN f \ {k} |-> f[x]]

\* Variant: a level at the limit price itself does not match.
IsMatchableStrictly(side, price, limit) ==
  IF side = "Bid" THEN price < limit ELSE price > limit

\* An order on `side' with limit price `limit' trades with a level at `price'.
IsMatchable(side, price, limit) ==
  IF side = "Bid" THEN price <= limit ELSE price >= limit

\* Variant: the worst level is matched first.
IsWorst(side, price) ==
  /\ price \in DOMAIN book[Opposite(side)]
  /\ \A p \in DOMAIN book[Opposite(side)] : IsMatchable(side, p, price)

\* The level an order on `side' is matched with first: the lowest ask or the
\* highest bid.
IsBest(side, price) ==
  /\ price \in DOMAIN book[Opposite(side)]
  /\ \A p \in DOMAIN book[Opposite(side)] : IsMatchable(side, price, p)

\* Variant: an emptied level stays.
SetQueueKeepingLevel(levels, price, queue) == With(levels, price, queue)

\* The levels of one side after its queue at `price' has become `queue': an
\* empty queue is removed with its level.
SetQueue(levels, price, queue) ==
  IF queue = <<>> THEN Without(levels, price) ELSE With(levels, price, queue)

\* The queue that entry(price).or_insert_with(VecDeque::new) gives.
QueueAt(levels, price) == IF price \in DOMAIN levels THEN levels[price] ELSE <<>>

\* VecDeque::retain(|idx| idx != i).  A queue never holds a slot twice (see
\* QueuesMatchStore), so the first occurrence is the only one.
Retain(queue, i) ==
  IF \E n \in DOMAIN queue : queue[n] = i
    THEN LET k == CHOOSE n \in DOMAIN queue : queue[n] = i
         IN SubSeq(queue, 1, k - 1) \o SubSeq(queue, k + 1, Len(queue))
    ELSE queue

\* Slab::remove: the slot heads the chain of vacant slots.
SlabRemove(i) ==
  /\ store' = Without(store, i)
  /\ free' = <<i>> \o free

\* Slab::insert takes the first vacant slot.
SlabInsert(order) ==
  /\ store' = With(store, Head(free), order)
  /\ free' = Tail(free)

OrderPlaced(o) == [type |-> "OrderPlaced", id |-> o.id, quantity |-> o.quantity]

OrderCancelled(id) == [type |-> "OrderCancelled", id |-> id]

\* Variant: the event reports what the maker wanted.
TradeExecutedOfMaker(maker, by, quantity) ==
  [type |-> "TradeExecuted", maker_id |-> maker.id, taker_id |-> by.id,
   price |-> maker.price, quantity |-> maker.quantity]

TradeExecuted(maker, by, quantity) ==
  [type |-> "TradeExecuted", maker_id |-> maker.id, taker_id |-> by.id,
   price |-> maker.price, quantity |-> quantity]

-----------------------------------------------------------------------------

Init ==
  /\ store = [i \in {} |-> i]
  /\ free = [n \in 1 .. Capacity |-> n - 1]
  /\ book = [side \in Side |-> [p \in {} |-> <<>>]]
  /\ index = [id \in {} |-> id]
  /\ taker = NoTaker
  /\ events = <<>>
  /\ used = {}

\* A client's order enters place_limit_order.  (free # <<>> bounds the slab.)
StartPlace(o) ==
  /\ taker = NoTaker
  /\ free # <<>>
  /\ o.id \in Reused \/ o.id \notin used
  /\ taker' = o
  /\ events' = <<>>
  /\ used' = used \cup {o.id}
  /\ UNCHANGED <<store, free, book, index>>

\* The matching loop reaches the order at the front of the best level: the
\* level is at `price' and the front of its queue is slot `i'.
Meets(price, i) ==
  /\ taker # NoTaker
  /\ taker.quantity > 0
  /\ IsBest(taker.side, price)
  /\ IsMatchable(taker.side, price, taker.price)
  /\ i = Head(book[Opposite(taker.side)][price])
  /\ i \in DOMAIN store

\* Variant: pop_front is missing.
FreeMaker(price, i) ==
  /\ UNCHANGED book
  /\ SlabRemove(i)

\* The maker leaves the front of its queue, and its slot.  Its entry in
\* order_index stays.
PopMaker(price, i) ==
  /\ book' = [book EXCEPT ![Opposite(taker.side)] =
                SetQueue(@, price, Tail(@[price]))]
  /\ SlabRemove(i)

\* Variant: the user's own order is reported as cancelled but not popped.
SkipOwnOrder(price, i) ==
  /\ Meets(price, i)
  /\ store[i].user = taker.user
  /\ events' = Append(events, OrderCancelled(store[i].id))
  /\ UNCHANGED <<store, free, book, index, taker, used>>

\* The maker belongs to the taker's user: it is cancelled, not traded with.
CancelSelfTrade(price, i) ==
  /\ Meets(price, i)
  /\ store[i].user = taker.user
  /\ PopMaker(price, i)
  /\ events' = Append(events, OrderCancelled(store[i].id))
  /\ UNCHANGED <<index, taker, used>>

\* Variant: the maker is always taken whole.
TradeWholeMaker(price, i) ==
  /\ Meets(price, i)
  /\ store[i].user # taker.user
  /\ events' = Append(events, TradeExecuted(store[i], taker, store[i].quantity))
  /\ taker' = [taker EXCEPT !.quantity = @ - store[i].quantity]
  /\ PopMaker(price, i)
  /\ UNCHANGED <<index, used>>

\* Maker and taker trade the smaller of their quantities at the maker's price.
Trade(price, i) ==
  /\ Meets(price, i)
  /\ store[i].user # taker.user
  /\ LET maker == store[i]
         quantity == IF taker.quantity <= maker.quantity
                       THEN taker.quantity ELSE maker.quantity
     IN /\ events' = Append(events, TradeExecuted(maker, taker, quantity))
        /\ taker' = [taker EXCEPT !.quantity = @ - quantity]
        /\ IF maker.quantity = quantity
             THEN PopMaker(price, i)
             ELSE /\ store' = [store EXCEPT ![i].quantity = @ - quantity]
                  /\ UNCHANGED <<free, book>>
  /\ UNCHANGED <<index, used>>

\* Variant: what remains of the order goes to the front of its level.
RestInFront ==
  /\ taker # NoTaker
  /\ taker.quantity > 0
  /\ \A p \in DOMAIN book[Opposite(taker.side)] :
       ~IsMatchable(taker.side, p, taker.price)
  /\ SlabInsert(taker)
  /\ index' = With(index, taker.id, Head(free))
  /\ book' = [book EXCEPT ![taker.side] =
                With(@, taker.price, <<Head(free)>> \o QueueAt(@, taker.price))]
  /\ events' = Append(events, OrderPlaced(taker))
  /\ taker' = NoTaker
  /\ UNCHANGED used

\* Nothing is left to match: what remains of the order rests at the back of its
\* own level.
Rest ==
  /\ taker # NoTaker
  /\ taker.quantity > 0
  /\ \A p \in DOMAIN book[Opposite(taker.side)] :
       ~IsMatchable(taker.side, p, taker.price)
  /\ SlabInsert(taker)
  /\ index' = With(index, taker.id, Head(free))
  /\ book' = [book EXCEPT ![taker.side] =
                With(@, taker.price, Append(QueueAt(@, taker.price), Head(free)))]
  /\ events' = Append(events, OrderPlaced(taker))
  /\ taker' = NoTaker
  /\ UNCHANGED used

\* The order is used up (or asked for nothing) and the function returns.
Filled ==
  /\ taker # NoTaker
  /\ taker.quantity = 0
  /\ taker' = NoTaker
  /\ UNCHANGED <<store, free, book, index, events, used>>

\* cancel_order finds an order to cancel: order_index leads to an occupied slot
\* whose order belongs to the caller.
Cancellable(id, user) ==
  /\ id \in DOMAIN index
  /\ index[id] \in DOMAIN store
  /\ store[index[id]].user = user

\* Variant: the entry of order_index is removed before the owner is checked.
CancelUnindexingFirst(id, user) ==
  /\ taker = NoTaker
  /\ index' = Without(index, id)
  /\ IF Cancellable(id, user)
       THEN LET i == index[id]
                o == store[i]
            IN /\ book' = [book EXCEPT ![o.side] =
                             SetQueue(@, o.price, Retain(@[o.price], i))]
               /\ SlabRemove(i)
               /\ events' = <<OrderCancelled(id)>>
       ELSE /\ events' = <<>>
            /\ UNCHANGED <<store, free, book>>
  /\ UNCHANGED <<taker, used>>

\* cancel_order.  The queue the slot is removed from is the one the order found
\* in the slot names.
Cancel(id, user) ==
  /\ taker = NoTaker
  /\ IF Cancellable(id, user)
       THEN LET i == index[id]
                o == store[i]
            IN /\ book' = [book EXCEPT ![o.side] =
                             IF o.price \in DOMAIN @
                               THEN SetQueue(@, o.price, Retain(@[o.price], i))
                               ELSE @]
               /\ index' = Without(index, id)
               /\ SlabRemove(i)
               /\ events' = <<OrderCancelled(id)>>
       ELSE /\ events' = <<>>
            /\ UNCHANGED <<store, free, book, index>>
  /\ UNCHANGED <<taker, used>>

Match == \E price \in Prices, i \in Slots : CancelSelfTrade(price, i) \/ Trade(price, i)

Next ==
  \/ \E o \in Request : StartPlace(o)
  \/ Match
  \/ Rest
  \/ Filled
  \/ \E id \in OrderIds, user \in Users : Cancel(id, user)

Spec == Init /\ [][Next]_vars

-----------------------------------------------------------------------------
(***************************************************************************)
(* Properties                                                              *)
(***************************************************************************)

EngineEvent ==
  [type : {"OrderPlaced"}, id : OrderIds, quantity : Nat]
    \cup [type : {"OrderCancelled"}, id : OrderIds]
    \cup [type : {"TradeExecuted"}, maker_id : OrderIds, taker_id : OrderIds,
          price : Prices, quantity : Nat]

StoreTypeOK ==
  /\ DOMAIN store \subseteq Slots
  /\ store \in [DOMAIN store -> Order]
  /\ free \in Seq(Slots)

BookTypeOK ==
  /\ DOMAIN book = Side
  /\ \A side \in Side :
       /\ DOMAIN book[side] \subseteq Prices
       /\ book[side] \in [DOMAIN book[side] -> Seq(Slots)]

\* The type invariant: which values the fields of OrderBook, the running call of
\* place_limit_order and the returned events take.
TypeOK ==
  /\ StoreTypeOK
  /\ BookTypeOK
  /\ DOMAIN index \subseteq OrderIds
  /\ index \in [DOMAIN index -> Slots]
  /\ taker \in Order \cup {NoTaker}
  /\ events \in Seq(EngineEvent)
  /\ used \subseteq OrderIds

\* The queue of a level is not empty, and its slots are distinct and hold orders of
\* the level's side and price.
QueueMatchesStore(side, price, queue) ==
  /\ queue # <<>>
  /\ IsInjective(queue)
  /\ \A n \in DOMAIN queue :
       /\ queue[n] \in DOMAIN store
       /\ store[queue[n]].side = side
       /\ store[queue[n]].price = price

\* Every slot in a price queue holds an order of that side and price, no queue
\* holds a slot twice, and every resting order is in the queue of its side and
\* price.  This is what keeps expect("Stale index in queue") in the matching
\* loop from panicking, although order_index keeps entries for slots that the
\* slab has reused and cancel_order follows them.
QueuesMatchStore ==
  /\ \A side \in Side : \A p \in DOMAIN book[side] :
       QueueMatchesStore(side, p, book[side][p])
  /\ \A i \in DOMAIN store :
       /\ store[i].price \in DOMAIN book[store[i].side]
       /\ \E n \in DOMAIN book[store[i].side][store[i].price] :
            book[store[i].side][store[i].price][n] = i

\* No resting bid reaches a resting ask: whatever could trade has traded, also
\* after self-trade prevention has emptied levels without trading.
NotCrossed ==
  \A bid \in DOMAIN book["Bid"], ask \in DOMAIN book["Ask"] : bid < ask

\* The owner of a resting order whose id is used once can always cancel it:
\* order_index leads from its id to its slot, whatever stale entries the index
\* holds beside it, whatever was cancelled through them, and although other clients
\* send their ids again.
RestingOrdersCanBeCancelled ==
  \A i \in DOMAIN store : store[i].id \notin Reused =>
    /\ store[i].id \in DOMAIN index
    /\ index[store[i].id] = i

\* Every resting order still wants something: the matching loop removes a maker
\* the moment it is used up, and never rests an empty remainder.
RestingOrdersAreOpen == \A i \in DOMAIN store : store[i].quantity > 0

\* The slab's vacant chain holds exactly the slots that hold no order, each once:
\* an insertion never overwrites a resting order.
FreeIsVacant ==
  /\ IsInjective(free)
  /\ \A n \in DOMAIN free : free[n] \notin DOMAIN store
  /\ \A i \in Slots \ DOMAIN store : \E n \in DOMAIN free : free[n] = i

\* order_index knows ids that were sent only; the id of the order place_limit_order
\* works on is not in it yet if it is an id that is used once.
FreshTaker ==
  /\ DOMAIN index \subseteq used
  /\ taker # NoTaker => taker.id \in used
  /\ taker # NoTaker /\ taker.id \notin Reused => taker.id \notin DOMAIN index

\* The bound on the slab leaves a slot for what remains of the taker.
RoomForTaker == taker # NoTaker => free # <<>>

\* The inductive strengthening of the invariants above: the structure of the book
\* is kept only together with the slab's chain of vacant slots, and the
\* reachability of orders only together with the freshness of the taker's id.
IndInv ==
  /\ TypeOK
  /\ QueuesMatchStore
  /\ NotCrossed
  /\ RestingOrdersAreOpen
  /\ FreeIsVacant
  /\ RestingOrdersCanBeCancelled
  /\ FreshTaker
  /\ RoomForTaker

\* cancel_order removes the order that has the id it was given ("order_id: The
\* order ID to cancel", zkapp/ffi/src/lib.rs).
CancelRemovesTheNamedOrder ==
  [][\A id \in OrderIds, user \in Users : Cancel(id, user) =>
       \A i \in DOMAIN store \ DOMAIN store' : store[i].id = id]_vars

\* The matching loop ends: every iteration takes something from the taker, or an order
\* out of the book, and adds none, whichever levels and own orders it meets.  (An
\* iteration that cannot go on at all would be a deadlock.)
MatchingProgresses ==
  [][taker # NoTaker /\ taker' # NoTaker =>
       /\ DOMAIN store' \subseteq DOMAIN store
       /\ \/ taker'.quantity < taker.quantity
          \/ taker' = taker /\ DOMAIN store' # DOMAIN store]_vars
=============================================================================
