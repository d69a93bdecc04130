---------------------------- MODULE PriceTimeBook ----------------------------
(***************************************************************************)
(* What the order book promises: price-time priority.                      *)
(*                                                                         *)
(* Every side has a line of orders at every price, without slots, index or *)
(* level that could disagree.  The order that place_limit_order works on   *)
(* is served by the line at the best price it accepts, from the front, and *)
(* what remains of it goes to the back of its own line.  A user's own      *)
(* orders are cancelled instead of traded with.                            *)
(*                                                                         *)
(* Of a cancellation the book promises less than its caller might think:   *)
(* it removes one order, or none.  Which one, the index of the             *)
(* implementation decides (see CancelRemovesTheNamedOrder).                *)
(***************************************************************************)
EXTENDS Integers, Sequences

CONSTANTS
  OrderIds,   \* order ids
  Users,      \* owners of orders
  Prices,     \* limit prices
  Quantities, \* quantities a client may ask for
  NoTaker     \* no order is being matched

VARIABLES
  resting, \* side -> price -> the line of resting orders
  taker,   \* the order being matched, or NoTaker
  events   \* what the running, or else the last, command returns

promised == <<resting, taker, events>>

Asked == [id : OrderIds, user : Users, side : {"Bid", "Ask"}, price : Prices,
          quantity : Quantities]

\* The side an order is matched with.
Other(side) == IF side = "Bid" THEN "Ask" ELSE "Bid"

\* To an order on `side', price p is at least as good as price q.
AtLeastAsGood(side, p, q) == IF side = "Bid" THEN p <= q ELSE p >= q

\* The line at `price' serves the taker.
Serves(price) ==
  /\ taker # NoTaker
  /\ taker.quantity > 0
  /\ resting[Other(taker.side)][price] # <<>>
  /\ AtLeastAsGood(taker.side, price, taker.price)
  /\ \A p \in Prices :
       resting[Other(taker.side)][p] # <<>> => AtLeastAsGood(taker.side, price, p)

Maker(price) == Head(resting[Other(taker.side)][price])

\* The line at a price becomes another one.
Becomes(side, price, line) == resting' = [resting EXCEPT ![side][price] = line]

-----------------------------------------------------------------------------

Init ==
  /\ resting = [side \in {"Bid", "Ask"} |-> [p \in Prices |-> <<>>]]
  /\ taker = NoTaker
  /\ events = <<>>

Start ==
  /\ taker = NoTaker
  /\ taker' \in Asked
  /\ events' = <<>>
  /\ UNCHANGED resting

\* The user's own order makes way.
Withdraw(price) ==
  /\ Serves(price)
  /\ Maker(price).user = taker.user
  /\ events' = Append(events, [type |-> "OrderCancelled", id |-> Maker(price).id])
  /\ UNCHANGED taker
  /\ Becomes(Other(taker.side), price, Tail(resting[Other(taker.side)][price]))

\* A trade of as much as both want, at the maker's price.  A maker that is left with
\* something keeps its place.
Fill(price) ==
  /\ Serves(price)
  /\ Maker(price).user # taker.user
  /\ LET maker == Maker(price)
         q == IF taker.quantity <= maker.quantity THEN taker.quantity ELSE maker.quantity
         behind == Tail(resting[Other(taker.side)][price])
     IN /\ taker' = [taker EXCEPT !.quantity = @ - q]
        /\ events' = Append(events, [type |-> "TradeExecuted", maker_id |-> maker.id,
                                     taker_id |-> taker.id, price |-> price, quantity |-> q])
        /\ Becomes(Other(taker.side), price,
                   IF q = maker.quantity THEN behind
                     ELSE <<[maker EXCEPT !.quantity = @ - q]>> \o behind)

\* Nobody serves the taker: it goes to the back of its line.
Queue ==
  /\ taker # NoTaker
  /\ taker.quantity > 0
  /\ ~ \E p \in Prices : Serves(p)
  /\ taker' = NoTaker
  /\ events' = Append(events, [type |-> "OrderPlaced", id |-> taker.id,
                               quantity |-> taker.quantity])
  /\ Becomes(taker.side, taker.price, Append(resting[taker.side][taker.price], taker))

Done ==
  /\ taker # NoTaker
  /\ taker.quantity = 0
  /\ taker' = NoTaker
  /\ UNCHANGED <<resting, events>>

\* An order is removed from wherever it stands.
Remove(side, price, n) ==
  /\ taker = NoTaker
  /\ UNCHANGED taker
  /\ \E id \in OrderIds : events' = <<[type |-> "OrderCancelled", id |-> id]>>
  /\ LET line == resting[side][price]
     IN Becomes(side, price, SubSeq(line, 1, n - 1) \o SubSeq(line, n + 1, Len(line)))

\* There is nothing to cancel.
Refuse ==
  /\ taker = NoTaker
  /\ events' = <<>>
  /\ UNCHANGED <<taker, resting>>

Next ==
  \/ Start
  \/ \E price \in Prices : Withdraw(price) \/ Fill(price)
  \/ Queue
  \/ Done
  \/ \E side \in {"Bid", "Ask"}, price \in Prices :
       \E n \in DOMAIN resting[side][price] : Remove(side, price, n)
  \/ Refuse

Spec == Init /\ [][Next]_promised
=============================================================================
