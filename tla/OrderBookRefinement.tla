------------------------- MODULE OrderBookRefinement -------------------------
(***************************************************************************)
(* OrderBook implements PriceTimeBook.  The line of orders at a price is   *)
(* what the slots of the price level hold, in the order of its queue; a    *)
(* price without a level has an empty line.                                *)
(***************************************************************************)
EXTENDS OrderBook

\* The orders in the slots of a queue.
Line(queue) == [n \in 1 .. Len(queue) |-> store[queue[n]]]

Resting ==
  [side \in Side |-> [p \in Prices |-> Line(QueueAt(book[side], p))]]

Promise == INSTANCE PriceTimeBook WITH resting <- Resting

\* Price-time priority, as PriceTimeBook states it: the slab, its reused slots, the
\* price levels that come and go, and order_index with its stale entries never make
\* place_limit_order and cancel_order do what a plain line of orders at every price
\* would not.
KeepsPriceTimePriority == Promise!Spec
=============================================================================
