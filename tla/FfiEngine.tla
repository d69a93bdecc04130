------------------------------ MODULE FfiEngine ------------------------------
(***************************************************************************)
(* The C bindings of the order book (zkapp/ffi/src/lib.rs).                *)
(*                                                                         *)
(* The host calls from any of its threads.  ENGINE is set once and holds a *)
(* mutex around the book.  A thread that waits for the mutex holds nothing *)
(* but its arguments, so the order in which the calls get the mutex is all *)
(* that their interleaving can change; the mutex is taken while `taker' is *)
(* an order.  A null answer leaves everything as it was.                   *)
(*                                                                         *)
(* A JSON argument is what remains of it after the defaults were filled    *)
(* in: fields that are missing or malformed are 0, or a bid.  Arguments    *)
(* that are not JSON, or no string, get a null answer as well.             *)
(*                                                                         *)
(* get_depth belongs to the book; evice_get_depth and evice_get_status     *)
(* pass it on.  Quantities are u64 and their sum wraps in a release build. *)
(***************************************************************************)
EXTENDS OrderLedger, OrderBookRefinement, FiniteSetsExt

CONSTANT Width \* the number of values of a u64

ASSUME WidthAssumption == Width \in Nat \ {0}

VARIABLE engine \* ENGINE is set

ffi == <<vars, ledger, engine>>

-----------------------------------------------------------------------------

\* Variant: only the first order of a queue counts.
FrontQuantity(queue) == store[queue[1]].quantity % Width

\* Iterator::sum over the orders of a level. (No slot of a queue is vacant, which
\* unwrap_or(0) provides for: see QueuesMatchStore.)
TotalQuantity(queue) ==
  LET sum[n \in 0 .. Len(queue)] ==
        IF n = 0 THEN 0 ELSE (sum[n - 1] + store[queue[n]].quantity) % Width
  IN sum[Len(queue)]

\* The levels of a side that are better for the other side than the one at a price.
Better(side, price) ==
  {p \in DOMAIN book[side] : p # price /\ IsMatchable(Opposite(side), p, price)}

\* The prices of a side in the order of the map, the best for the other side first.
PricesOf(side) ==
  [n \in 1 .. Cardinality(DOMAIN book[side]) |->
     CHOOSE p \in DOMAIN book[side] : Cardinality(Better(side, p)) = n - 1]

\* get_depth, for one side.
GetDepth(side, limit) ==
  LET prices == PricesOf(side)
      shown == SubSeq(prices, 1, Min({limit, Len(prices)}))
  IN [n \in DOMAIN shown |->
        [price |-> shown[n], quantity |-> TotalQuantity(book[side][shown[n]])]]

-----------------------------------------------------------------------------

FfiInit ==
  /\ LedgerInit
  /\ engine = FALSE

\* evice_engine_init: get_or_init keeps an engine that is there.
EngineInit ==
  /\ engine' = TRUE
  /\ UNCHANGED <<vars, ledger>>

\* evice_engine_destroy does nothing.
EngineDestroy == UNCHANGED ffi

\* evice_place_order answers null without an engine, and to a price or a quantity of 0.
PlaceRejected(price, quantity) ==
  /\ ~engine \/ price = 0 \/ quantity = 0
  /\ UNCHANGED ffi

\* evice_place_order gets the mutex; the call goes on until the taker is done.
PlaceOrder(o) ==
  /\ engine
  /\ o.price > 0 /\ o.quantity > 0
  /\ StartPlace(o)
  /\ Note
  /\ UNCHANGED engine

PlaceGoesOn ==
  /\ Match \/ Rest \/ Filled
  /\ Note
  /\ UNCHANGED engine

\* evice_cancel_order.
CancelOrder(id, user) ==
  /\ engine
  /\ Cancel(id, user)
  /\ Note
  /\ UNCHANGED engine

FfiNext ==
  \/ EngineInit
  \/ EngineDestroy
  \/ \E price \in Prices, quantity \in Quantities : PlaceRejected(price, quantity)
  \/ \E o \in Request : PlaceOrder(o)
  \/ PlaceGoesOn
  \/ \E id \in OrderIds, user \in Users : CancelOrder(id, user)

FfiSpec == FfiInit /\ [][FfiNext]_ffi

-----------------------------------------------------------------------------

\* The resting orders of a side at a price.
OrdersAt(side, p) == {i \in DOMAIN store : store[i].side = side /\ store[i].price = p}

Wanted(slots) == MapThenSumSet(LAMBDA i : store[i].quantity, slots)

\* The levels are the best prices at which orders rest, best first, as many as asked
\* for if there are so many, and the quantity of a level is the total of its orders as
\* long as that fits a u64.
IsMarket(depth, side, limit) ==
  LET prices == {store[i].price : i \in {j \in DOMAIN store : store[j].side = side}}
      shown == {depth[n].price : n \in DOMAIN depth}
  IN /\ Len(depth) = Min({limit, Cardinality(prices)})
     /\ shown \subseteq prices
     /\ \A p \in prices \ shown : \A q \in shown : ~IsMatchable(Opposite(side), p, q)
     /\ \A m, n \in DOMAIN depth : m < n =>
          ~IsMatchable(Opposite(side), depth[n].price, depth[m].price)
     /\ \A n \in DOMAIN depth :
          LET total == Wanted(OrdersAt(side, depth[n].price))
          IN total < Width => depth[n].quantity = total

\* What evice_get_depth and evice_get_status tell is the market, when no call holds
\* the mutex: the best levels of both sides, in order, with their quantities.
DepthIsTheMarket ==
  taker = NoTaker =>
    \A side \in Side, limit \in 0 .. 2 : IsMarket(GetDepth(side, limit), side, limit)
=============================================================================
