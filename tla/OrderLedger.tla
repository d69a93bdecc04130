---------------------------- MODULE OrderLedger ----------------------------
(***************************************************************************)
(* OrderBook observed by a client that adds up what the returned events    *)
(* say.                                                                    *)
(*                                                                         *)
(* The history variables record, per order id that is used once, what was  *)
(* asked for and what the TradeExecuted events have reported so far.  They *)
(* do not influence the book.                                              *)
(***************************************************************************)
EXTENDS OrderBook

VARIABLES
  asked,  \* order id -> the quantity place_limit_order was called with
  traded  \* order id -> the quantity the trade events have reported

ledger == <<asked, traded>>

LedgerInit ==
  /\ Init
  /\ asked = [id \in OrderIds \ Reused |-> 0]
  /\ traded = [id \in OrderIds \ Reused |-> 0]

\* The event a step adds to the ones its command returns.
Reports(type) ==
  /\ events' # <<>>
  /\ events' # events
  /\ events'[Len(events')].type = type

\* What the observer notes of a step.
Note ==
  /\ asked' = IF taker = NoTaker /\ taker' # NoTaker /\ taker'.id \notin Reused
                THEN [asked EXCEPT ![taker'.id] = taker'.quantity]
                ELSE asked
  /\ traded' = IF Reports("TradeExecuted")
                 THEN LET e == events'[Len(events')]
                      IN [id \in DOMAIN traded |->
                            IF id \in {e.maker_id, e.taker_id}
                              THEN traded[id] + e.quantity ELSE traded[id]]
                 ELSE traded

-----------------------------------------------------------------------------

\* What the trade events report of an order is what the order has lost: a resting
\* order and the running taker still want exactly what they asked for less what
\* was reported, and no order is ever filled beyond what it asked for.
FillsAddUp ==
  /\ \A i \in DOMAIN store : store[i].id \notin Reused =>
       asked[store[i].id] = traded[store[i].id] + store[i].quantity
  /\ taker # NoTaker /\ taker.id \notin Reused =>
       asked[taker.id] = traded[taker.id] + taker.quantity
  /\ \A id \in DOMAIN asked : traded[id] <= asked[id]
=============================================================================
