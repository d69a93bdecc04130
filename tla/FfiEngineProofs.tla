-------------------------- MODULE FfiEngineProofs --------------------------
(***************************************************************************)
(* Proofs about the C bindings: the book behind them is the one that       *)
(* OrderBookProofs is about, what it reports adds up, and what get_depth   *)
(* tells is the market.                                                    *)
(***************************************************************************)
EXTENDS FfiEngine, OrderBookProofs, FiniteSetTheorems, WellFoundedInduction, NaturalsInduction

-----------------------------------------------------------------------------
(***************************************************************************)
(* The book behind the bindings                                            *)
(***************************************************************************)

\* Every call of the bindings makes steps of the book, or leaves it alone.
LEMMA FfiStepsAreBookSteps ==
  ASSUME [FfiNext]_ffi
  PROVE  [Next]_vars
BY Zenon DEF FfiNext, EngineInit, EngineDestroy, PlaceRejected, PlaceOrder, PlaceGoesOn, CancelOrder,
       ffi, Next

\* The bindings use the book only as OrderBook says it can be used, so that what is
\* proved of the book alone holds behind the mutex as well.
THEOREM FfiKeepsTheBook == FfiSpec => Spec
<1>1. FfiInit => Init
  BY Zenon DEF FfiInit, LedgerInit
<1>2. [FfiNext]_ffi => [Next]_vars
  BY FfiStepsAreBookSteps, Zenon
<1> QED BY <1>1, <1>2, PTL DEF FfiSpec, Spec

\* The engine behind the C bindings keeps price-time priority too.
THEOREM FfiKeepsPriority == FfiSpec => KeepsPriceTimePriority
BY FfiKeepsTheBook, BookKeepsPriority, PTL

-----------------------------------------------------------------------------
(***************************************************************************)
(* What the events report                                                  *)
(***************************************************************************)

\* What makes FillsAddUp inductive: the types, and that nothing was reported of an id
\* before it was sent.
LedgerInv ==
  /\ asked \in [OrderIds \ Reused -> Nat]
  /\ traded \in [OrderIds \ Reused -> Nat]
  /\ FillsAddUp
  /\ \A id \in OrderIds \ (Reused \cup used) : traded[id] = 0

\* Orders that rest, or are being matched, with an id that is used once.
LEMMA OneOrderPerId ==
  ASSUME IndInv
  PROVE  /\ \A i \in DOMAIN store : /\ store[i] \in Order /\ store[i].id \in OrderIds
                                    /\ store[i].quantity \in Nat
                                    /\ store[i].id \notin Reused => store[i].id \in used
         /\ \A i, j \in DOMAIN store : store[i].id \notin Reused /\ store[i].id = store[j].id => i = j
         /\ taker # NoTaker =>
              /\ taker \in Order /\ taker.id \in OrderIds /\ taker.quantity \in Nat
              /\ taker.id \in used
              /\ taker.id \notin Reused => \A i \in DOMAIN store : store[i].id # taker.id
<1>1. \A i \in DOMAIN store : store[i] \in Order
  BY Zenon DEF IndInv, TypeOK, StoreTypeOK
<1>2. \A i \in DOMAIN store : store[i].id \in OrderIds /\ store[i].quantity \in Nat
  BY <1>1, Zenon DEF Order
<1>3. \A i \in DOMAIN store : store[i].id \notin Reused =>
        store[i].id \in DOMAIN index /\ index[store[i].id] = i
  BY Zenon DEF IndInv, RestingOrdersCanBeCancelled
<1>4. DOMAIN index \subseteq used
  BY Zenon DEF IndInv, FreshTaker
<1>5. taker # NoTaker =>
        /\ taker \in Order /\ taker.id \in used
        /\ taker.id \notin Reused => taker.id \notin DOMAIN index
  BY Zenon DEF IndInv, TypeOK, FreshTaker
<1>6. taker # NoTaker => taker.id \in OrderIds /\ taker.quantity \in Nat
  BY <1>5, Zenon DEF Order
<1> QED BY <1>1, <1>2, <1>3, <1>4, <1>5, <1>6

\* A step that reports no trade, and asks for nothing.
LEMMA NothingTraded ==
  ASSUME IndInv, LedgerInv, UNCHANGED ledger, used' = used,
         \A i \in DOMAIN store' : \/ i \in DOMAIN store /\ store'[i] = store[i]
                                  \/ taker # NoTaker /\ store'[i] = taker,
         taker' # NoTaker => taker' = taker
  PROVE  LedgerInv'
<1>1. UNCHANGED <<asked, traded>>
  BY Zenon DEF ledger
<1>2. /\ \A i \in DOMAIN store : store[i].id \notin Reused =>
           asked[store[i].id] = traded[store[i].id] + store[i].quantity
      /\ taker # NoTaker /\ taker.id \notin Reused =>
           asked[taker.id] = traded[taker.id] + taker.quantity
      /\ \A id \in DOMAIN asked : traded[id] <= asked[id]
  BY Zenon DEF LedgerInv, FillsAddUp
<1>3. FillsAddUp'
  <2>1. \A i \in DOMAIN store' : store'[i].id \notin Reused =>
          asked[store'[i].id] = traded[store'[i].id] + store'[i].quantity
    BY <1>2, Zenon
  <2>2. taker' # NoTaker /\ taker'.id \notin Reused =>
          asked[taker'.id] = traded[taker'.id] + taker'.quantity
    BY <1>2, Zenon
  <2> QED BY <1>1, <1>2, <2>1, <2>2 DEF FillsAddUp
<1> QED BY <1>1, <1>3, Zenon DEF LedgerInv

\* What the last of the returned events says decides what is noted.
LEMMA NotedEvent ==
  ASSUME NEW e \in EngineEvent, events \in Seq(EngineEvent), events' = Append(events, e)
  PROVE  /\ events' # <<>> /\ events' # events
         /\ events'[Len(events')] = e
         /\ \A type : Reports(type) <=> e.type = type
<1>1. events' \in Seq(EngineEvent) /\ Len(events') = Len(events) + 1 /\ Len(events) \in Nat
      /\ events'[Len(events) + 1] = e
  OBVIOUS
<1>2. events' # <<>> /\ events' # events
  BY <1>1
<1> QED BY <1>1, <1>2, Zenon DEF Reports

\* An order is asked for.
LEMMA StartIsNoted ==
  ASSUME IndInv, LedgerInv, NEW o \in Request, StartPlace(o), Note
  PROVE  LedgerInv'
<1>1. /\ taker = NoTaker /\ taker' = o /\ events' = <<>> /\ used' = used \cup {o.id}
      /\ store' = store /\ (o.id \notin Reused => o.id \notin used)
  BY Zenon DEF StartPlace
<1>2. o \in Order /\ o # NoTaker /\ o.id \in OrderIds /\ o.quantity \in Nat
  <2>1. o \in Order /\ o.id \in OrderIds /\ o.quantity \in Nat
    BY ConstantsAssumption, Zenon DEF Request, Order
  <2> QED BY <2>1, ConstantsAssumption
<1>3. /\ traded' = traded
      /\ asked' = IF o.id \notin Reused THEN [asked EXCEPT ![o.id] = o.quantity] ELSE asked
  BY <1>1, <1>2 DEF Note, Reports
<1>4. /\ asked \in [OrderIds \ Reused -> Nat] /\ traded \in [OrderIds \ Reused -> Nat]
      /\ \A id \in OrderIds \ (Reused \cup used) : traded[id] = 0
      /\ \A i \in DOMAIN store : store[i].id \notin Reused =>
           asked[store[i].id] = traded[store[i].id] + store[i].quantity
      /\ \A id \in DOMAIN asked : traded[id] <= asked[id]
  BY Zenon DEF LedgerInv, FillsAddUp
<1>5. asked' \in [OrderIds \ Reused -> Nat]
  BY <1>2, <1>3, <1>4
<1>6. \A id \in OrderIds \ Reused :
        asked'[id] = IF id = o.id THEN o.quantity ELSE asked[id]
  BY <1>2, <1>3, <1>4
<1>7. o.id \notin Reused => traded[o.id] = 0
  BY <1>1, <1>2, <1>4
<1>8. \A i \in DOMAIN store' : store'[i].id \notin Reused =>
        asked'[store'[i].id] = traded'[store'[i].id] + store'[i].quantity
  <2> SUFFICES ASSUME NEW i \in DOMAIN store, store[i].id \notin Reused
               PROVE  asked'[store[i].id] = traded[store[i].id] + store[i].quantity
    BY <1>1, <1>3, Zenon
  <2>1. store[i].id \in OrderIds \ Reused /\ store[i].id # o.id
    BY <1>1, OneOrderPerId, Zenon
  <2> QED BY <1>4, <1>6, <2>1
<1>9. taker'.id \notin Reused => asked'[taker'.id] = traded'[taker'.id] + taker'.quantity
  BY <1>1, <1>2, <1>3, <1>6, <1>7
<1>10. \A id \in DOMAIN asked' : traded'[id] <= asked'[id]
  BY <1>2, <1>3, <1>4, <1>5, <1>6, <1>7
<1>11. FillsAddUp'
  BY <1>8, <1>9, <1>10 DEF FillsAddUp
<1> QED BY <1>1, <1>3, <1>4, <1>5, <1>11 DEF LedgerInv

\* A trade is reported.
LEMMA TradeIsNoted ==
  ASSUME IndInv, LedgerInv, NEW price, NEW i, Trade(price, i), Note
  PROVE  LedgerInv'
<1> DEFINE q == IF taker.quantity <= store[i].quantity
                  THEN taker.quantity ELSE store[i].quantity
<1>1. /\ taker # NoTaker /\ i \in DOMAIN store
      /\ events' = Append(events, TradeExecuted(store[i], taker, q))
      /\ taker' = [taker EXCEPT !.quantity = @ - q]
      /\ \/ store[i].quantity = q /\ store' = Without(store, i)
         \/ store[i].quantity # q /\ store' = [store EXCEPT ![i].quantity = @ - q]
      /\ used' = used
  BY Zenon DEF Trade, Meets, PopMaker, SlabRemove
<1>2. /\ taker \in Order /\ taker.quantity \in Nat /\ taker.id \in OrderIds
      /\ store[i] \in Order /\ store[i].quantity \in Nat /\ store[i].id \in OrderIds
  BY <1>1, OneOrderPerId
<1>3. q \in Nat /\ q <= taker.quantity /\ q <= store[i].quantity
  BY <1>2
<1> HIDE DEF q
<1>4. /\ taker' \in Order /\ taker'.id = taker.id /\ taker'.quantity = taker.quantity - q
      /\ taker' # NoTaker
  <2>1. /\ taker' \in Order /\ taker'.id = taker.id /\ taker'.quantity = taker.quantity - q
    BY <1>1, <1>2, <1>3 DEF Order
  <2> QED BY <2>1, ConstantsAssumption
<1>5. \A j \in DOMAIN store' :
        /\ j \in DOMAIN store /\ store'[j].id = store[j].id
        /\ store'[j].quantity = IF j = i THEN store[j].quantity - q ELSE store[j].quantity
  <2>1. store \in [DOMAIN store -> Order]
    BY Zenon DEF IndInv, TypeOK, StoreTypeOK
  <2>2. CASE store' = Without(store, i)
    BY <2>2, Zenon DEF Without
  <2>3. CASE store' = [store EXCEPT ![i].quantity = @ - q]
    BY <1>1, <2>1, <2>3 DEF Order
  <2> QED BY <1>1, <2>2, <2>3, Zenon
<1>6. /\ Reports("TradeExecuted") /\ events'[Len(events')] = TradeExecuted(store[i], taker, q)
  <2>1. /\ TradeExecuted(store[i], taker, q) \in EngineEvent
        /\ TradeExecuted(store[i], taker, q).type = "TradeExecuted"
    BY <1>2, <1>3 DEF Order, TradeExecuted, EngineEvent
  <2>2. events \in Seq(EngineEvent)
    BY Zenon DEF IndInv, TypeOK
  <2> QED BY <1>1, <2>1, <2>2, NotedEvent
<1>7. /\ asked' = asked
      /\ traded' = [id \in DOMAIN traded |-> IF id \in {store[i].id, taker.id}
                                               THEN traded[id] + q ELSE traded[id]]
  <2>1. /\ TradeExecuted(store[i], taker, q).maker_id = store[i].id
        /\ TradeExecuted(store[i], taker, q).taker_id = taker.id
        /\ TradeExecuted(store[i], taker, q).quantity = q
    BY Zenon DEF TradeExecuted
  <2> QED BY <1>1, <1>6, <2>1 DEF Note
<1>8. /\ asked \in [OrderIds \ Reused -> Nat] /\ traded \in [OrderIds \ Reused -> Nat]
      /\ \A id \in OrderIds \ (Reused \cup used) : traded[id] = 0
      /\ \A j \in DOMAIN store : store[j].id \notin Reused =>
           asked[store[j].id] = traded[store[j].id] + store[j].quantity
      /\ taker.id \notin Reused => asked[taker.id] = traded[taker.id] + taker.quantity
      /\ \A id \in DOMAIN asked : traded[id] <= asked[id]
  BY <1>1, Zenon DEF LedgerInv, FillsAddUp
<1>9. /\ traded' \in [OrderIds \ Reused -> Nat]
      /\ \A id \in OrderIds \ Reused :
           traded'[id] = IF id = store[i].id \/ id = taker.id THEN traded[id] + q ELSE traded[id]
  BY <1>3, <1>7, <1>8
<1>10. ASSUME NEW j \in DOMAIN store', store'[j].id \notin Reused
       PROVE  asked[store'[j].id] = traded'[store'[j].id] + store'[j].quantity
  <2>1. /\ j \in DOMAIN store /\ store'[j].id = store[j].id
        /\ store[j].id \in OrderIds \ Reused /\ store[j].quantity \in Nat
        /\ store[j].id # taker.id
        /\ asked[store[j].id] = traded[store[j].id] + store[j].quantity
    BY <1>1, <1>5, <1>8, <1>10, OneOrderPerId, Zenon
  <2>2. traded[store[j].id] \in Nat
    BY <1>8, <2>1
  <2>3. CASE j = i
    <3>1. traded'[store[j].id] = traded[store[j].id] + q
      BY <1>9, <2>1, <2>3, Zenon
    <3> QED BY <1>3, <1>5, <2>1, <2>2, <2>3, <3>1
  <2>4. CASE j # i
    <3>1. store[j].id # store[i].id
      BY <1>1, <2>1, <2>4, OneOrderPerId
    <3>2. traded'[store[j].id] = traded[store[j].id]
      BY <1>9, <2>1, <3>1
    <3> QED BY <1>5, <2>1, <2>4, <3>2
  <2> QED BY <2>3, <2>4, Zenon
<1>11. ASSUME taker.id \notin Reused
       PROVE  asked[taker.id] = traded'[taker.id] + (taker.quantity - q)
  <2>1. traded'[taker.id] = traded[taker.id] + q /\ traded[taker.id] \in Nat
    BY <1>2, <1>8, <1>9, <1>11, Zenon
  <2> QED BY <1>2, <1>3, <1>8, <1>11, <2>1
<1>12. ASSUME NEW id \in OrderIds \ Reused
       PROVE  traded'[id] <= asked[id]
  <2>1. traded[id] \in Nat /\ asked[id] \in Nat /\ traded[id] <= asked[id]
    BY <1>8
  <2>2. CASE id = store[i].id
    <3>1. asked[id] = traded[id] + store[i].quantity /\ traded'[id] = traded[id] + q
      BY <1>1, <1>8, <1>9, <2>2
    <3> QED BY <1>2, <1>3, <2>1, <3>1
  <2>3. CASE id = taker.id
    <3>1. asked[id] = traded[id] + taker.quantity /\ traded'[id] = traded[id] + q
      BY <1>8, <1>9, <2>3
    <3> QED BY <1>2, <1>3, <2>1, <3>1
  <2>4. CASE id # store[i].id /\ id # taker.id
    BY <1>9, <2>1, <2>4
  <2> QED BY <2>2, <2>3, <2>4
<1>13. FillsAddUp'
  <2>1. DOMAIN asked' = OrderIds \ Reused
    BY <1>7, <1>8
  <2> QED BY <1>4, <1>7, <1>10, <1>11, <1>12, <2>1 DEF FillsAddUp
<1>14. \A id \in OrderIds \ (Reused \cup used) : traded'[id] = 0
  <2> SUFFICES ASSUME NEW id \in OrderIds \ (Reused \cup used) PROVE traded'[id] = 0
    OBVIOUS
  <2>1. id # taker.id /\ id # store[i].id
    BY <1>1, OneOrderPerId
  <2> QED BY <1>8, <1>9, <2>1
<1> QED BY <1>1, <1>7, <1>8, <1>9, <1>13, <1>14, Zenon DEF LedgerInv

\* The steps of the book that report something else, or nothing.
LEMMA OthersAreNoted ==
  ASSUME IndInv, LedgerInv, Note,
         (\E price, i : CancelSelfTrade(price, i)) \/ Rest \/ Filled \/ (\E id, user : Cancel(id, user))
  PROVE  LedgerInv'
<1>1. events \in Seq(EngineEvent)
  BY DEF IndInv, TypeOK
<1>2. ASSUME NEW price, NEW i, CancelSelfTrade(price, i)
      PROVE  LedgerInv'
  <2>1. /\ taker # NoTaker /\ i \in DOMAIN store /\ taker' = taker /\ used' = used
        /\ store' = Without(store, i)
        /\ events' = Append(events, OrderCancelled(store[i].id))
    BY <1>2, Zenon DEF CancelSelfTrade, Meets, PopMaker, SlabRemove
  <2>2. /\ OrderCancelled(store[i].id) \in EngineEvent
        /\ OrderCancelled(store[i].id).type = "OrderCancelled"
    BY <2>1, OneOrderPerId DEF OrderCancelled, EngineEvent
  <2>3. ~ Reports("TradeExecuted")
    BY <1>1, <2>1, <2>2, NotedEvent
  <2>4. UNCHANGED ledger
    BY <2>1, <2>3 DEF Note, ledger
  <2>5. \A j \in DOMAIN store' : j \in DOMAIN store /\ store'[j] = store[j]
    BY <2>1 DEF Without
  <2> QED BY <2>1, <2>4, <2>5, NothingTraded
<1>3. CASE Rest
  <2>1. /\ taker # NoTaker /\ taker' = NoTaker /\ used' = used
        /\ store' = With(store, Head(free), taker)
        /\ events' = Append(events, OrderPlaced(taker))
    BY <1>3 DEF Rest, SlabInsert
  <2>2. OrderPlaced(taker) \in EngineEvent /\ OrderPlaced(taker).type = "OrderPlaced"
    BY <2>1, OneOrderPerId DEF OrderPlaced, EngineEvent
  <2>3. ~ Reports("TradeExecuted")
    BY <1>1, <2>1, <2>2, NotedEvent
  <2>4. UNCHANGED ledger
    BY <2>1, <2>3 DEF Note, ledger
  <2>5. \A j \in DOMAIN store' : (j \in DOMAIN store /\ store'[j] = store[j]) \/ store'[j] = taker
    BY <2>1 DEF With
  <2> QED BY <2>1, <2>4, <2>5, NothingTraded
<1>4. CASE Filled
  <2>1. taker' = NoTaker /\ UNCHANGED <<store, events, used>>
    BY <1>4 DEF Filled
  <2>2. UNCHANGED ledger
    BY <2>1 DEF Note, Reports, ledger
  <2> QED BY <2>1, <2>2, NothingTraded
<1>5. ASSUME NEW id, NEW user, Cancel(id, user)
      PROVE  LedgerInv'
  <2>1. /\ taker = NoTaker /\ taker' = taker /\ used' = used
        /\ store' = store \/ store' = Without(store, index[id])
        /\ events' = <<>> \/ events' = <<OrderCancelled(id)>>
    BY <1>5, Zenon DEF Cancel, SlabRemove
  <2>2. ~ Reports("TradeExecuted")
    BY <2>1 DEF Reports, OrderCancelled
  <2>3. UNCHANGED ledger
    BY <2>1, <2>2 DEF Note, ledger
  <2>4. \A j \in DOMAIN store' : j \in DOMAIN store /\ store'[j] = store[j]
    BY <2>1 DEF Without
  <2> QED BY <2>1, <2>3, <2>4, NothingTraded
<1> QED BY <1>2, <1>3, <1>4, <1>5, Zenon

\* What the events report always adds up.
LEMMA LedgerAlways == FfiSpec => []LedgerInv
<1>1. FfiInit => LedgerInv
  <2> SUFFICES ASSUME FfiInit PROVE LedgerInv
    BY Zenon
  <2>1. /\ asked = [id \in OrderIds \ Reused |-> 0] /\ traded = [id \in OrderIds \ Reused |-> 0]
        /\ DOMAIN store = {} /\ taker = NoTaker
    BY Zenon DEF FfiInit, LedgerInit, Init
  <2> QED BY <2>1 DEF LedgerInv, FillsAddUp
<1>2. IndInv /\ LedgerInv /\ [FfiNext]_ffi => LedgerInv'
  <2> SUFFICES ASSUME IndInv, LedgerInv, [FfiNext]_ffi PROVE LedgerInv'
    OBVIOUS
  <2>1. CASE UNCHANGED <<vars, ledger>>
    <3>1. UNCHANGED <<store, taker, used, asked, traded>>
      BY <2>1 DEF vars, ledger
    <3> QED BY <3>1 DEF LedgerInv, FillsAddUp
  <2>2. ASSUME NEW o \in Request, PlaceOrder(o) PROVE LedgerInv'
    BY <2>2, StartIsNoted DEF PlaceOrder
  <2>3. CASE PlaceGoesOn
    BY <2>3, TradeIsNoted, OthersAreNoted DEF PlaceGoesOn, Match
  <2>4. ASSUME NEW id, NEW user, CancelOrder(id, user) PROVE LedgerInv'
    BY <2>4, OthersAreNoted DEF CancelOrder
  <2> QED BY <2>1, <2>2, <2>3, <2>4
          DEF FfiNext, EngineInit, EngineDestroy, PlaceRejected, ffi
<1> QED BY <1>1, <1>2, FfiKeepsTheBook, BookInvariant, PTL DEF FfiSpec

\* What the TradeExecuted events report of an order is what place_limit_order has taken
\* from it, whatever was matched, cancelled or left to rest in between, and no order is
\* filled beyond what it asked for.
THEOREM FillsAlwaysAddUp == FfiSpec => []FillsAddUp
<1>1. LedgerInv => FillsAddUp
  BY DEF LedgerInv
<1> QED BY <1>1, LedgerAlways, PTL

-----------------------------------------------------------------------------
(***************************************************************************)
(* What get_depth tells                                                    *)
(*                                                                         *)
(* The quantity of a level is added up along its queue, the total that it  *)
(* is compared with over the set of the orders at its price: that the two  *)
(* agree needs induction, over the length of the queue and over the size   *)
(* of the set.  The levels come in the order of the prices because a       *)
(* price's rank, the number of better ones, runs through 0 .. N - 1.       *)
(***************************************************************************)

\* Induction over the naturals, for a set.
LEMMA Induction ==
  ASSUME NEW T, 0 \in T, \A n \in Nat : n \in T => n + 1 \in T
  PROVE  \A n \in Nat : n \in T
<1> DEFINE Bad == {n \in Nat : n \notin T}
<1> SUFFICES ASSUME Bad # {} PROVE FALSE
  OBVIOUS
<1>1. PICK x \in Bad : \A y \in Bad : ~ (<<y, x>> \in OpToRel(<, Nat))
  BY NatLessThanWellFounded, WFMin, Zenon
<1>2. x \in Nat /\ x # 0 /\ x - 1 \in Nat /\ (x - 1) + 1 = x
  OBVIOUS
<1>3. x - 1 \notin T
  BY <1>2
<1>4. x - 1 \in Bad /\ x - 1 < x
  BY <1>2, <1>3
<1> QED BY <1>1, <1>2, <1>4, Zenon DEF OpToRel

-----------------------------------------------------------------------------

\* The recursion by which MapThenSumSet takes one element after the other.
Pick(s) == CHOOSE x \in s : TRUE

SumStep(g, f, S) ==
  [s \in SUBSET S |-> IF s = {} THEN 0 ELSE f[Pick(s)] + g[s \ {Pick(s)}]]

IsSum(g, f, S) == g = SumStep(g, f, S)

\* What is left of a finite set without the element that is picked.
LEMMA PickOne ==
  ASSUME NEW S, IsFiniteSet(S), NEW s \in SUBSET S, s # {}
  PROVE  /\ Pick(s) \in s /\ Pick(s) \in S /\ s \ {Pick(s)} \in SUBSET S
         /\ Cardinality(s) \in Nat
         /\ Cardinality(s \ {Pick(s)}) = Cardinality(s) - 1
<1>1. Pick(s) \in s
  BY DEF Pick
<1>2. IsFiniteSet(s)
  BY FS_Subset
<1> QED BY <1>1, <1>2, FS_RemoveElement, FS_CardinalityType

\* There is a function that satisfies the recursion.
LEMMA SumExists ==
  ASSUME NEW S, IsFiniteSet(S), NEW f \in [S -> Nat]
  PROVE  \E g : IsSum(g, f, S)
<1> DEFINE Upto(g, n) == \A s \in SUBSET S : Cardinality(s) <= n => g[s] = SumStep(g, f, S)[s]
           T == {n \in Nat : \E g \in [SUBSET S -> Nat] : Upto(g, n)}
<1>1. ASSUME NEW g \in [SUBSET S -> Nat]
      PROVE  SumStep(g, f, S) \in [SUBSET S -> Nat]
  <2>1. ASSUME NEW s \in SUBSET S, s # {}
        PROVE  f[Pick(s)] + g[s \ {Pick(s)}] \in Nat
    <3>1. f[Pick(s)] \in Nat /\ g[s \ {Pick(s)}] \in Nat
      BY <2>1, PickOne, Zenon
    <3> QED BY <3>1
  <2> QED BY <2>1 DEF SumStep
<1>2. ASSUME NEW s \in SUBSET S PROVE Cardinality(s) \in Nat /\ IsFiniteSet(s)
  BY FS_Subset, FS_CardinalityType
<1>3. 0 \in T
  <2> DEFINE g == [s \in SUBSET S |-> 0]
  <2>1. ASSUME NEW s \in SUBSET S, Cardinality(s) <= 0 PROVE g[s] = SumStep(g, f, S)[s]
    <3>1. s = {}
      BY <1>2, <2>1, FS_EmptySet
    <3> QED BY <3>1 DEF SumStep
  <2> QED BY <2>1, Zenon
<1>4. ASSUME NEW n \in Nat, n \in T PROVE n + 1 \in T
  <2>1. PICK g \in [SUBSET S -> Nat] : Upto(g, n)
    BY <1>4, Zenon
  <2> DEFINE h == SumStep(g, f, S)
  <2>2. h \in [SUBSET S -> Nat]
    BY <1>1, Zenon
  <2>3. ASSUME NEW s \in SUBSET S, Cardinality(s) <= n + 1 PROVE h[s] = SumStep(h, f, S)[s]
    <3>1. CASE s = {}
      BY <3>1 DEF SumStep
    <3>2. CASE s # {}
      <4>1. s \ {Pick(s)} \in SUBSET S /\ Cardinality(s \ {Pick(s)}) <= n
        BY <2>3, <3>2, PickOne
      <4>2. g[s \ {Pick(s)}] = h[s \ {Pick(s)}]
        BY <2>1, <4>1
      <4>3. /\ h[s] = f[Pick(s)] + g[s \ {Pick(s)}]
            /\ SumStep(h, f, S)[s] = f[Pick(s)] + h[s \ {Pick(s)}]
        BY <3>2 DEF SumStep
      <4> QED BY <4>2, <4>3
    <3> QED BY <3>1, <3>2
  <2> HIDE DEF h
  <2> QED BY <2>2, <2>3
<1>5. Cardinality(S) \in T
  <2>1. Cardinality(S) \in Nat
    BY FS_CardinalityType
  <2> HIDE DEF T
  <2> QED BY <1>3, <1>4, <2>1, Induction
<1>6. PICK g \in [SUBSET S -> Nat] : Upto(g, Cardinality(S))
  BY <1>5, Zenon
<1>7. \A s \in SUBSET S : g[s] = SumStep(g, f, S)[s]
  BY <1>6, FS_Subset
<1>8. SumStep(g, f, S) \in [SUBSET S -> Nat]
  BY <1>1, Zenon
<1>9. g = SumStep(g, f, S)
  BY <1>7, <1>8
<1> QED BY <1>9 DEF IsSum

\* The sum is the same whichever element is taken first.
LEMMA SumOfAny ==
  ASSUME NEW S, IsFiniteSet(S), NEW f \in [S -> Nat], NEW g, IsSum(g, f, S)
  PROVE  /\ g[{}] = 0
         /\ \A s \in SUBSET S : g[s] \in Nat /\ \A x \in s : g[s] = f[x] + g[s \ {x}]
<1> DEFINE Fine(s) == g[s] \in Nat /\ \A x \in s : g[s] = f[x] + g[s \ {x}]
           T == {n \in Nat : \A s \in SUBSET S : Cardinality(s) <= n => Fine(s)}
<1>1. ASSUME NEW s \in SUBSET S PROVE Cardinality(s) \in Nat /\ IsFiniteSet(s)
  BY FS_Subset, FS_CardinalityType
<1>2. g[{}] = 0
  <2>1. SumStep(g, f, S)[{}] = 0
    BY DEF SumStep
  <2> QED BY <2>1 DEF IsSum
<1>3. ASSUME NEW s \in SUBSET S, s # {}
      PROVE  g[s] = f[Pick(s)] + g[s \ {Pick(s)}]
  <2>1. SumStep(g, f, S)[s] = f[Pick(s)] + g[s \ {Pick(s)}]
    BY <1>3 DEF SumStep
  <2> QED BY <2>1 DEF IsSum
<1>4. 0 \in T
  <2> SUFFICES ASSUME NEW s \in SUBSET S, Cardinality(s) <= 0 PROVE Fine(s)
    OBVIOUS
  <2>1. s = {}
    BY <1>1, FS_EmptySet
  <2> QED BY <1>2, <2>1
<1>5. ASSUME NEW n \in Nat, n \in T PROVE n + 1 \in T
  <2> SUFFICES ASSUME NEW s \in SUBSET S, Cardinality(s) <= n + 1 PROVE Fine(s)
    OBVIOUS
  <2>1. CASE s = {}
    BY <1>2, <2>1
  <2>2. CASE s # {}
    <3> DEFINE y == Pick(s)
    <3>1. ASSUME NEW z \in s
          PROVE  /\ s \ {z} \in SUBSET S /\ Cardinality(s \ {z}) <= n
                 /\ g[s \ {z}] \in Nat /\ \A x \in s \ {z} : g[s \ {z}] = f[x] + g[(s \ {z}) \ {x}]
      <4>1. s \ {z} \in SUBSET S /\ Cardinality(s \ {z}) <= n
        BY <1>1, FS_RemoveElement
      <4>2. Fine(s \ {z})
        BY <1>5, <4>1, Zenon
      <4> QED BY <4>1, <4>2, Zenon
    <3>2. y \in s /\ g[s] = f[y] + g[s \ {y}] /\ f[y] \in Nat /\ g[s \ {y}] \in Nat
      BY <1>3, <2>2, <3>1, PickOne
    <3> HIDE DEF y
    <3>3. ASSUME NEW x \in s PROVE g[s] = f[x] + g[s \ {x}]
      <4>1. CASE x = y
        BY <3>2, <4>1
      <4>2. CASE x # y
        <5>1. g[s \ {y}] = f[x] + g[(s \ {y}) \ {x}] /\ g[s \ {x}] = f[y] + g[(s \ {x}) \ {y}]
          BY <3>1, <3>2, <4>2, Zenon
        <5>2. (s \ {y}) \ {x} = (s \ {x}) \ {y}
          OBVIOUS
        <5>3. (s \ {y}) \ {x} \in SUBSET S /\ f[x] \in Nat /\ f[y] \in Nat
          BY <3>2
        <5>4. Cardinality((s \ {y}) \ {x}) <= n
          BY <1>1, <3>1, <3>2, <5>3, FS_Subset, (s \ {y}) \ {x} \in SUBSET (s \ {y})
        <5>5. g[(s \ {y}) \ {x}] \in Nat
          BY <1>5, <5>3, <5>4
        <5> QED BY <3>2, <5>1, <5>2, <5>3, <5>5
      <4> QED BY <4>1, <4>2
    <3>4. g[s] \in Nat
      BY <3>2
    <3> QED BY <3>3, <3>4
  <2> QED BY <2>1, <2>2
<1>6. Cardinality(S) \in T
  <2>1. Cardinality(S) \in Nat
    BY FS_CardinalityType
  <2> HIDE DEF T
  <2> QED BY <1>4, <1>5, <2>1, Induction
<1>7. \A s \in SUBSET S : Cardinality(s) <= Cardinality(S)
  BY FS_Subset
<1> QED BY <1>2, <1>6, <1>7

\* The total of some resting orders: MapThenSumSet, with the recursion spelled out.
LEMMA WantedIs ==
  ASSUME Structure, NEW slots \in SUBSET DOMAIN store
  PROVE  LET f == [i \in slots |-> store[i].quantity]
         IN /\ f \in [slots -> Nat] /\ IsFiniteSet(slots)
            /\ \E g : IsSum(g, f, slots) /\ Wanted(slots) = g[slots]
<1> DEFINE f == [i \in slots |-> store[i].quantity]
           Sums(g) == [s \in SUBSET slots |->
                         IF s = {} THEN 0
                         ELSE store[CHOOSE x \in s : TRUE].quantity + g[s \ {CHOOSE x \in s : TRUE}]]
           sum == CHOOSE g : g = Sums(g)
<1>1. IsFiniteSet(slots)
  <2>1. IsFiniteSet(Slots)
    BY FS_Interval, ConstantsAssumption DEF Slots
  <2>2. slots \in SUBSET Slots
    BY DEF Structure, StoreTypeOK
  <2> QED BY <2>1, <2>2, FS_Subset
<1>2. f \in [slots -> Nat]
  BY DEF Structure, StoreTypeOK, Order
<1>3. ASSUME NEW g PROVE Sums(g) = SumStep(g, f, slots)
  <2>1. ASSUME NEW s \in SUBSET slots, s # {}
        PROVE  f[Pick(s)] = store[Pick(s)].quantity
    BY <2>1 DEF Pick
  <2>2. Sums(g) = [s \in SUBSET slots |->
                     IF s = {} THEN 0 ELSE store[Pick(s)].quantity + g[s \ {Pick(s)}]]
    BY DEF Pick
  <2> HIDE DEF f, Sums
  <2> QED BY <2>1, <2>2 DEF SumStep
<1>4. Wanted(slots) = sum[slots]
  BY DEF Wanted, MapThenSumSet, MapThenFoldSet
<1>5. PICK g : IsSum(g, f, slots)
  BY <1>1, <1>2, SumExists
<1>6. sum = Sums(sum)
  <2>1. \E h : h = Sums(h)
    BY <1>3, <1>5, Zenon DEF IsSum
  <2> HIDE DEF Sums
  <2> QED BY <2>1
<1>7. sum = SumStep(sum, f, slots)
  BY <1>3, <1>6, Zenon
<1> HIDE DEF sum
<1> QED BY <1>1, <1>2, <1>4, <1>7 DEF IsSum

-----------------------------------------------------------------------------
\* One step of Iterator::sum after the other.
TotalStep(h, queue) ==
  [n \in 0 .. Len(queue) |->
     IF n = 0 THEN 0 ELSE (h[n - 1] + store[queue[n]].quantity) % Width]

LEMMA TotalIs ==
  ASSUME NEW queue, Len(queue) \in Nat
  PROVE  \E h : h = TotalStep(h, queue) /\ TotalQuantity(queue) = h[Len(queue)]
<1> DEFINE L == Len(queue)
           Upto(h, m) == \A n \in 0 .. L : n <= m => h[n] = TotalStep(h, queue)[n]
           T == {m \in Nat : \E h : Upto(h, m)}
           sum == CHOOSE h : h = TotalStep(h, queue)
<1>1. 0 \in T
  <2> DEFINE h == [n \in 0 .. L |-> 0]
  <2>1. Upto(h, 0)
    BY DEF TotalStep
  <2> QED BY <2>1
<1>2. ASSUME NEW m \in Nat, m \in T PROVE m + 1 \in T
  <2>1. PICK h : Upto(h, m)
    BY <1>2
  <2> DEFINE k == TotalStep(h, queue)
  <2>2. ASSUME NEW n \in 0 .. L, n <= m + 1 PROVE k[n] = TotalStep(k, queue)[n]
    <3>1. CASE n = 0
      BY <3>1 DEF TotalStep
    <3>2. CASE n # 0
      <4>1. n - 1 \in 0 .. L /\ n - 1 <= m
        BY <2>2, <3>2
      <4>2. h[n - 1] = k[n - 1]
        BY <2>1, <4>1
      <4>3. /\ k[n] = (h[n - 1] + store[queue[n]].quantity) % Width
            /\ TotalStep(k, queue)[n] = (k[n - 1] + store[queue[n]].quantity) % Width
        BY <3>2 DEF TotalStep
      <4> QED BY <4>2, <4>3
    <3> QED BY <3>1, <3>2
  <2> HIDE DEF k
  <2>3. Upto(k, m + 1)
    BY <2>2
  <2> QED BY <2>3
<1>3. L \in T
  <2> HIDE DEF T
  <2> QED BY <1>1, <1>2, Induction
<1>4. PICK h : Upto(h, L)
  BY <1>3
<1> DEFINE k == TotalStep(h, queue)
<1>5. k = TotalStep(k, queue)
  <2>1. ASSUME NEW n \in 0 .. L PROVE k[n] = TotalStep(k, queue)[n]
    <3>1. CASE n = 0
      BY <3>1 DEF TotalStep
    <3>2. CASE n # 0
      <4>1. n - 1 \in 0 .. L /\ n - 1 <= L
        BY <3>2
      <4>2. h[n - 1] = k[n - 1]
        BY <1>4, <4>1
      <4>3. /\ k[n] = (h[n - 1] + store[queue[n]].quantity) % Width
            /\ TotalStep(k, queue)[n] = (k[n - 1] + store[queue[n]].quantity) % Width
        BY <3>2 DEF TotalStep
      <4> QED BY <4>2, <4>3
    <3> QED BY <3>1, <3>2
  <2>2. /\ k = [n \in 0 .. L |-> k[n]]
        /\ TotalStep(k, queue) = [n \in 0 .. L |-> TotalStep(k, queue)[n]]
    BY DEF TotalStep
  <2> HIDE DEF k
  <2> QED BY <2>1, <2>2
<1>6. sum = TotalStep(sum, queue)
  <2> HIDE DEF k
  <2> QED BY <1>5
<1>7. TotalQuantity(queue) = sum[L]
  BY DEF TotalQuantity, TotalStep
<1> HIDE DEF sum
<1> QED BY <1>6, <1>7

\* A sum that fits is not changed by the width.
LEMMA Fits ==
  ASSUME NEW x \in Nat, x < Width
  PROVE  x % Width = x
BY WidthAssumption

\* The quantity of a level is the total of its orders if that fits.
LEMMA TotalIsWanted ==
  ASSUME Structure, NEW queue \in Seq(Slots), IsInjective(queue), Range(queue) \subseteq DOMAIN store,
         Wanted(Range(queue)) < Width
  PROVE  TotalQuantity(queue) = Wanted(Range(queue))
<1> DEFINE slots == Range(queue)
           f == [i \in slots |-> store[i].quantity]
           L == Len(queue)
           First(n) == {queue[k] : k \in 1 .. n}
<1>1. L \in Nat /\ DOMAIN queue = 1 .. L
  OBVIOUS
<1>2. PICK h : h = TotalStep(h, queue) /\ TotalQuantity(queue) = h[L]
  BY <1>1, TotalIs
<1>3. f \in [slots -> Nat] /\ IsFiniteSet(slots)
  BY WantedIs
<1>4. PICK g : IsSum(g, f, slots) /\ Wanted(slots) = g[slots]
  BY WantedIs
<1> HIDE DEF f
<1>5. /\ g[{}] = 0
      /\ \A s \in SUBSET slots : g[s] \in Nat /\ \A x \in s : g[s] = f[x] + g[s \ {x}]
  BY <1>3, <1>4, SumOfAny
<1>6. First(L) = slots /\ First(0) = {} /\ \A n \in 0 .. L : First(n) \in SUBSET slots
  BY <1>1 DEF Range
<1>7. ASSUME NEW n \in 1 .. L
      PROVE  /\ queue[n] \in First(n) /\ First(n) \ {queue[n]} = First(n - 1)
             /\ queue[n] \in slots /\ f[queue[n]] = store[queue[n]].quantity
  <2>1. \A k \in 1 .. n - 1 : k \in DOMAIN queue /\ n \in DOMAIN queue /\ queue[k] # queue[n]
    BY <1>1 DEF IsInjective
  <2>2. \A k \in 1 .. n : k \in 1 .. n - 1 \/ k = n
    OBVIOUS
  <2>3. \A k \in 1 .. n - 1 : k \in 1 .. n
    OBVIOUS
  <2>4. First(n) \ {queue[n]} = First(n - 1)
    BY <2>1, <2>2, <2>3
  <2>5. queue[n] \in First(n) /\ queue[n] \in slots
    BY <1>1 DEF Range
  <2> QED BY <2>4, <2>5 DEF f
<1> HIDE DEF slots, First
<1> DEFINE T == {n \in Nat : n <= L /\ g[First(n)] < Width => h[n] = g[First(n)]}
<1>8. h[0] = 0 /\ \A n \in 1 .. L : h[n] = (h[n - 1] + store[queue[n]].quantity) % Width
  <2>1. TotalStep(h, queue)[0] = 0
    BY <1>1 DEF TotalStep
  <2>2. ASSUME NEW n \in 1 .. L
        PROVE  TotalStep(h, queue)[n] = (h[n - 1] + store[queue[n]].quantity) % Width
    BY <1>1 DEF TotalStep
  <2> QED BY <1>2, <2>1, <2>2
<1>9. 0 \in T
  BY <1>5, <1>6, <1>8, Zenon
<1>10. ASSUME NEW n \in Nat, n \in T PROVE n + 1 \in T
  <2> SUFFICES ASSUME n + 1 <= L, g[First(n + 1)] < Width PROVE h[n + 1] = g[First(n + 1)]
    OBVIOUS
  <2>1. n + 1 \in 1 .. L /\ (n + 1) - 1 = n /\ n \in 0 .. L /\ n + 1 \in 0 .. L
    BY <1>1
  <2>2. g[First(n + 1)] = f[queue[n + 1]] + g[First(n)]
    <3>1. /\ queue[n + 1] \in First(n + 1) /\ First(n + 1) \ {queue[n + 1]} = First(n)
          /\ First(n + 1) \in SUBSET slots
      BY <1>6, <1>7, <2>1
    <3>2. g[First(n + 1)] = f[queue[n + 1]] + g[First(n + 1) \ {queue[n + 1]}]
      BY <1>5, <3>1, Zenon
    <3> QED BY <3>1, <3>2, Zenon
  <2>3. f[queue[n + 1]] \in Nat /\ g[First(n)] \in Nat /\ g[First(n + 1)] \in Nat
    BY <1>3, <1>5, <1>6, <1>7, <2>1, SMTT(30)
  <2>4. h[n] = g[First(n)]
    BY <1>10, <2>1, <2>2, <2>3, WidthAssumption
  <2>5. h[n + 1] = (h[n] + f[queue[n + 1]]) % Width
    BY <1>7, <1>8, <2>1
  <2>6. h[n + 1] = g[First(n + 1)] % Width
    BY <2>2, <2>3, <2>4, <2>5
  <2> QED BY <2>3, <2>6, Fits
<1>11. L \in T
  <2> HIDE DEF T
  <2> QED BY <1>1, <1>9, <1>10, Induction
<1> QED BY <1>1, <1>2, <1>4, <1>6, <1>11 DEF slots

-----------------------------------------------------------------------------
\* The levels of a side are the prices of its resting orders, finitely many, and the
\* queue of a level holds the orders at its price.
LEMMA LevelsAre ==
  ASSUME Structure, NEW side \in Side
  PROVE  /\ {store[i].price : i \in {j \in DOMAIN store : store[j].side = side}} = DOMAIN book[side]
         /\ IsFiniteSet(DOMAIN book[side]) /\ DOMAIN book[side] \subseteq Nat
         /\ \A p \in DOMAIN book[side] : Range(book[side][p]) = OrdersAt(side, p)
<1> DEFINE P == DOMAIN book[side]
           R == {j \in DOMAIN store : store[j].side = side}
           price == [i \in R |-> store[i].price]
<1>1. ASSUME NEW p \in P
      PROVE  /\ book[side][p] \in Seq(Slots) /\ 1 \in DOMAIN book[side][p]
             /\ \A n \in DOMAIN book[side][p] : /\ book[side][p][n] \in R
                                                /\ store[book[side][p][n]].price = p
  <2>1. book[side][p] \in Seq(Slots) /\ book[side][p] # <<>>
    BY QueueFacts
  <2>2. 1 \in DOMAIN book[side][p]
    BY <2>1
  <2> QED BY <2>1, <2>2, QueueFacts
<1>2. ASSUME NEW i \in R
      PROVE  store[i].price \in P /\ \E n \in DOMAIN book[side][store[i].price] :
                                       book[side][store[i].price][n] = i
  BY DEF Structure, QueuesMatchStore
<1>3. {store[i].price : i \in R} = P
  BY <1>1, <1>2
<1>4. P \subseteq Nat
  BY ConstantsAssumption, Zenon DEF Structure, BookTypeOK
<1>5. IsFiniteSet(R)
  <2>1. IsFiniteSet(Slots)
    BY FS_Interval, ConstantsAssumption DEF Slots
  <2>2. R \in SUBSET Slots
    BY DEF Structure, StoreTypeOK
  <2> QED BY <2>1, <2>2, FS_Subset
<1>6. IsFiniteSet(P)
  <2>1. price \in [R -> P] /\ \A p \in P : \E i \in R : price[i] = p
    BY <1>2, <1>3
  <2>2. price \in Surjection(R, P)
    BY <2>1 DEF Surjection
  <2> HIDE DEF price, R, P
  <2> QED BY <1>5, <2>2, FS_Surjection
<1>7. ASSUME NEW p \in P PROVE Range(book[side][p]) = OrdersAt(side, p)
  <2>1. ASSUME NEW i \in OrdersAt(side, p) PROVE i \in Range(book[side][p])
    <3>1. i \in R /\ store[i].price = p
      BY <2>1 DEF OrdersAt
    <3> QED BY <1>2, <3>1 DEF Range
  <2>2. ASSUME NEW i \in Range(book[side][p]) PROVE i \in OrdersAt(side, p)
    BY <1>1, <2>2 DEF OrdersAt, Range
  <2> QED BY <2>1, <2>2
<1> QED BY <1>3, <1>4, <1>6, <1>7, SMTT(30)

\* A price is better than another or the other way round, and what is better than the
\* better one is better than the other.
LEMMA BetterIsAnOrder ==
  ASSUME NEW side \in Side, DOMAIN book[side] \subseteq Nat,
         NEW p \in DOMAIN book[side], NEW q \in DOMAIN book[side], p # q
  PROVE  /\ p \in Better(side, q) <=> ~ (q \in Better(side, p))
         /\ p \in Better(side, q) <=> ~ IsMatchable(Opposite(side), q, p)
         /\ p \in Better(side, q) => Better(side, p) \subseteq Better(side, q)
BY DEF Better, IsMatchable, Opposite, Side

\* How many levels go before one.
Rank(side, p) == Cardinality(Better(side, p))

\* The levels have the ranks from 0, each has another one, and better ones come first.
LEMMA RanksAre ==
  ASSUME NEW side \in Side, DOMAIN book[side] \subseteq Nat, IsFiniteSet(DOMAIN book[side])
  PROVE  /\ Cardinality(DOMAIN book[side]) \in Nat
         /\ \A p \in DOMAIN book[side] : Rank(side, p) \in 0 .. Cardinality(DOMAIN book[side]) - 1
         /\ \A p, q \in DOMAIN book[side] :
              p # q => Rank(side, p) # Rank(side, q)
         /\ \A p, q \in DOMAIN book[side] :
              Rank(side, p) < Rank(side, q) => ~ IsMatchable(Opposite(side), q, p)
         /\ \A n \in 0 .. Cardinality(DOMAIN book[side]) - 1 :
              \E p \in DOMAIN book[side] : Rank(side, p) = n
<1> DEFINE P == DOMAIN book[side]
           N == Cardinality(P)
           rank == [p \in P |-> Rank(side, p)]
<1>1. N \in Nat
  BY FS_CardinalityType
<1>2. ASSUME NEW p \in P
      PROVE  /\ IsFiniteSet(Better(side, p)) /\ Rank(side, p) \in 0 .. N - 1
  <2>1. Better(side, p) \in SUBSET (P \ {p})
    BY DEF Better
  <2>2. IsFiniteSet(P \ {p}) /\ Cardinality(P \ {p}) = N - 1
    BY FS_RemoveElement
  <2>3. IsFiniteSet(Better(side, p)) /\ Cardinality(Better(side, p)) <= N - 1
    BY <2>1, <2>2, FS_Subset
  <2>4. Cardinality(Better(side, p)) \in Nat
    BY <2>3, FS_CardinalityType
  <2> HIDE DEF N
  <2> QED BY <1>1, <2>3, <2>4 DEF Rank
<1>3. ASSUME NEW p \in P, NEW q \in P, p \in Better(side, q)
      PROVE  Rank(side, p) < Rank(side, q)
  <2>1. p # q /\ Better(side, p) \in SUBSET Better(side, q) /\ p \notin Better(side, p)
    <3>1. p # q /\ p \notin Better(side, p)
      BY <1>3 DEF Better
    <3> QED BY <1>3, <3>1, BetterIsAnOrder
  <2>2. Better(side, p) # Better(side, q)
    BY <1>3, <2>1
  <2>3. /\ Cardinality(Better(side, p)) <= Cardinality(Better(side, q))
        /\ Cardinality(Better(side, p)) # Cardinality(Better(side, q))
    BY <1>2, <2>1, <2>2, FS_Subset
  <2>4. Rank(side, p) \in Int /\ Rank(side, q) \in Int
    BY <1>2
  <2> QED BY <2>3, <2>4 DEF Rank
<1>4. ASSUME NEW p \in P, NEW q \in P, p # q
      PROVE  Rank(side, p) # Rank(side, q)
  <2>1. p \in Better(side, q) \/ q \in Better(side, p)
    BY <1>4, BetterIsAnOrder
  <2>2. Rank(side, p) \in Int /\ Rank(side, q) \in Int
    BY <1>2
  <2> QED BY <1>3, <2>1, <2>2
<1>5. ASSUME NEW p \in P, NEW q \in P, Rank(side, p) < Rank(side, q)
      PROVE  ~ IsMatchable(Opposite(side), q, p)
  <2>1. Rank(side, p) \in Int /\ Rank(side, q) \in Int
    BY <1>2
  <2>2. p # q /\ ~ (q \in Better(side, p))
    BY <1>3, <1>5, <2>1
  <2> QED BY <2>2, BetterIsAnOrder
<1>6. ASSUME NEW n \in 0 .. N - 1
      PROVE  \E p \in P : Rank(side, p) = n
  <2>1. rank \in Injection(P, 0 .. N - 1)
    <3>1. rank \in [P -> 0 .. N - 1]
      BY <1>2
    <3>2. \A p, q \in P : rank[p] = rank[q] => p = q
      BY <1>4
    <3> HIDE DEF rank, N, P
    <3> QED BY <3>1, <3>2 DEF Injection, IsInjective
  <2>2. IsFiniteSet(0 .. N - 1) /\ Cardinality(0 .. N - 1) = N
    <3> HIDE DEF N
    <3>1. /\ IsFiniteSet(0 .. N - 1)
          /\ Cardinality(0 .. N - 1) = IF 0 > N - 1 THEN 0 ELSE N - 1 - 0 + 1
      BY <1>1, FS_Interval
    <3> QED BY <1>1, <3>1
  <2>3. rank \in Surjection(P, 0 .. N - 1)
    <3> HIDE DEF rank
    <3> QED BY <2>1, <2>2, FS_Injection
  <2>4. \E p \in P : rank[p] = n
    BY <2>3 DEF Surjection
  <2> QED BY <2>4
<1> QED BY <1>1, <1>2, <1>4, <1>5, <1>6

\* The prices of a side are its levels, in the order of their ranks.
LEMMA PricesAre ==
  ASSUME NEW side \in Side, DOMAIN book[side] \subseteq Nat, IsFiniteSet(DOMAIN book[side])
  PROVE  /\ PricesOf(side) \in Seq(DOMAIN book[side])
         /\ Len(PricesOf(side)) = Cardinality(DOMAIN book[side])
         /\ \A n \in 1 .. Len(PricesOf(side)) : Rank(side, PricesOf(side)[n]) = n - 1
         /\ \A p \in DOMAIN book[side] : \E n \in 1 .. Len(PricesOf(side)) : PricesOf(side)[n] = p
<1> DEFINE P == DOMAIN book[side]
           N == Cardinality(P)
<1>1. N \in Nat
  BY RanksAre
<1>2. PricesOf(side) = [n \in 1 .. N |-> CHOOSE p \in P : Rank(side, p) = n - 1]
  BY DEF PricesOf, Rank
<1>3. ASSUME NEW n \in 1 .. N
      PROVE  PricesOf(side)[n] \in P /\ Rank(side, PricesOf(side)[n]) = n - 1
  <2>1. n - 1 \in 0 .. N - 1
    BY <1>1
  <2>2. \E p \in P : Rank(side, p) = n - 1
    BY <2>1, RanksAre
  <2>3. PricesOf(side)[n] = CHOOSE p \in P : Rank(side, p) = n - 1
    BY <1>2
  <2> QED BY <2>2, <2>3
<1>4. PricesOf(side) \in [1 .. N -> P]
  BY <1>2, <1>3
<1>5. PricesOf(side) \in Seq(P) /\ Len(PricesOf(side)) = N
  <2> HIDE DEF N, P
  <2> QED BY <1>1, <1>4
<1>6. ASSUME NEW p \in P PROVE \E n \in 1 .. N : PricesOf(side)[n] = p
  <2>1. Rank(side, p) \in 0 .. N - 1
    BY RanksAre
  <2>2. Rank(side, p) + 1 \in 1 .. N /\ (Rank(side, p) + 1) - 1 = Rank(side, p)
    BY <1>1, <2>1
  <2>3. /\ PricesOf(side)[Rank(side, p) + 1] \in P
        /\ Rank(side, PricesOf(side)[Rank(side, p) + 1]) = Rank(side, p)
    BY <1>3, <2>2
  <2>4. PricesOf(side)[Rank(side, p) + 1] = p
    BY <2>3, RanksAre
  <2> QED BY <2>2, <2>4
<1> QED BY <1>3, <1>5, <1>6

\* The first elements of a sequence.
LEMMA FirstOf ==
  ASSUME NEW S, NEW s \in Seq(S), NEW k \in 0 .. Len(s)
  PROVE  DOMAIN SubSeq(s, 1, k) = 1 .. k /\ \A n \in 1 .. k : SubSeq(s, 1, k)[n] = s[n]
OBVIOUS

\* What get_depth returns for one side and any limit.
LEMMA DepthOfStructure ==
  ASSUME Structure, NEW side \in Side, NEW limit \in Nat
  PROVE  IsMarket(GetDepth(side, limit), side, limit)
<1> DEFINE P == DOMAIN book[side]
           all == PricesOf(side)
           N == Cardinality(P)
           k == Min({limit, Len(all)})
           first == SubSeq(all, 1, k)
           depth == GetDepth(side, limit)
           shown == {depth[n].price : n \in DOMAIN depth}
<1>1. /\ {store[i].price : i \in {j \in DOMAIN store : store[j].side = side}} = P
      /\ IsFiniteSet(P) /\ P \subseteq Nat
  BY LevelsAre
<1>2. /\ all \in Seq(P) /\ Len(all) = N /\ N \in Nat
      /\ \A n \in 1 .. N : Rank(side, all[n]) = n - 1
      /\ \A p \in P : \E n \in 1 .. N : all[n] = p
  BY <1>1, PricesAre, RanksAre
<1>3. \A n \in 1 .. N : all[n] \in P
  BY <1>2
<1> HIDE DEF all
<1>4. k \in Nat /\ k <= N /\ k = Min({limit, N})
  <2>1. \E x \in {limit, N} : \A y \in {limit, N} : x =< y
    BY <1>2
  <2>2. Min({limit, N}) \in {limit, N} /\ \A y \in {limit, N} : Min({limit, N}) =< y
    BY <2>1 DEF Min
  <2> HIDE DEF N
  <2> QED BY <1>2, <2>2
<1> HIDE DEF k, N
<1>5. DOMAIN first = 1 .. k /\ \A n \in 1 .. k : first[n] = all[n]
  <2>1. all \in Seq(P) /\ k \in 0 .. Len(all)
    BY <1>2, <1>4
  <2> HIDE DEF P
  <2> QED BY <2>1, FirstOf
<1>6. /\ depth = [n \in 1 .. k |->
                    [price |-> all[n], quantity |-> TotalQuantity(book[side][all[n]])]]
  <2>1. depth = [n \in DOMAIN first |->
                   [price |-> first[n], quantity |-> TotalQuantity(book[side][first[n]])]]
    BY DEF GetDepth, k, all
  <2> HIDE DEF depth, first
  <2> QED BY <1>5, <2>1
<1> HIDE DEF depth, first
<1>7. /\ Len(depth) = k /\ DOMAIN depth = 1 .. k
      /\ \A n \in 1 .. k : /\ depth[n].price = all[n]
                           /\ depth[n].quantity = TotalQuantity(book[side][all[n]])
  BY <1>4, <1>6
<1>8. \A n \in 1 .. k : n \in 1 .. N /\ all[n] \in P /\ Rank(side, all[n]) = n - 1
  <2>1. \A n \in 1 .. k : n \in 1 .. N
    BY <1>2, <1>4, SMTT(30)
  <2> QED BY <1>2, <1>3, <2>1, Zenon
<1>9. shown = {all[n] : n \in 1 .. k}
  BY <1>7
<1>10. shown \subseteq P
  BY <1>8, <1>9
<1>11. ASSUME NEW p \in P \ shown, NEW q \in shown
       PROVE  ~ IsMatchable(Opposite(side), p, q)
  <2>1. PICK m \in 1 .. k : q = all[m]
    BY <1>9
  <2>2. PICK n \in 1 .. N : p = all[n]
    BY <1>2
  <2>3. ~ (n \in 1 .. k)
    BY <1>9, <1>11, <2>2
  <2>4. Rank(side, q) = m - 1 /\ Rank(side, p) = n - 1 /\ q \in P
    BY <1>2, <1>8, <2>1, <2>2
  <2>5. m < n
    BY <1>2, <1>4, <2>3
  <2>6. Rank(side, q) < Rank(side, p)
    BY <1>2, <1>4, <2>4, <2>5
  <2> QED BY <1>1, <2>4, <2>6, RanksAre
<1>12. ASSUME NEW m \in 1 .. k, NEW n \in 1 .. k, m < n
       PROVE  ~ IsMatchable(Opposite(side), depth[n].price, depth[m].price)
  <2>1. Rank(side, all[m]) < Rank(side, all[n]) /\ all[m] \in P /\ all[n] \in P
    BY <1>4, <1>8, <1>12
  <2> QED BY <1>1, <1>7, <2>1, RanksAre, Zenon
<1>13. ASSUME NEW n \in 1 .. k, Wanted(OrdersAt(side, depth[n].price)) < Width
       PROVE  depth[n].quantity = Wanted(OrdersAt(side, depth[n].price))
  <2>1. all[n] \in P /\ depth[n].price = all[n]
        /\ depth[n].quantity = TotalQuantity(book[side][all[n]])
    BY <1>7, <1>8
  <2>2. /\ book[side][all[n]] \in Seq(Slots) /\ IsInjective(book[side][all[n]])
        /\ Range(book[side][all[n]]) = OrdersAt(side, all[n])
    BY <2>1, QueueFacts, LevelsAre, Zenon
  <2>3. OrdersAt(side, all[n]) \subseteq DOMAIN store
    BY DEF OrdersAt
  <2>4. TotalQuantity(book[side][all[n]]) = Wanted(Range(book[side][all[n]]))
    BY <1>13, <2>1, <2>2, <2>3, TotalIsWanted, SMTT(30)
  <2> QED BY <2>1, <2>2, <2>4
<1>14. /\ \A m, n \in DOMAIN depth :
            m < n => ~ IsMatchable(Opposite(side), depth[n].price, depth[m].price)
       /\ \A n \in DOMAIN depth :
            Wanted(OrdersAt(side, depth[n].price)) < Width =>
              depth[n].quantity = Wanted(OrdersAt(side, depth[n].price))
  BY <1>7, <1>12, <1>13
<1>15. Len(depth) = Min({limit, Cardinality(P)})
  BY <1>4, <1>7 DEF N
<1> HIDE DEF P
<1>16. IsMarket(depth, side, limit)
  BY <1>1, <1>10, <1>11, <1>14, <1>15, Zenon DEF IsMarket
<1> QED BY <1>16 DEF depth

\* What evice_get_depth and evice_get_status tell of either side is the market between
\* two calls, however many levels are asked for: the best prices at which orders rest,
\* best first, each with the total of the orders at it.
THEOREM AnyDepthIsTheMarket ==
  FfiSpec => [](taker = NoTaker => \A side \in Side, limit \in Nat :
                                     IsMarket(GetDepth(side, limit), side, limit))
<1>1. IndInv => (taker = NoTaker => \A side \in Side, limit \in Nat :
                                      IsMarket(GetDepth(side, limit), side, limit))
  BY IndInvSplits, DepthOfStructure
<1> QED BY <1>1, FfiKeepsTheBook, BookInvariant, PTL

\* In particular for the limits that the model checker tries.
THEOREM DepthIsAlwaysTheMarket == FfiSpec => []DepthIsTheMarket
<1>1. IndInv => DepthIsTheMarket
  <2>1. ASSUME IndInv, NEW side \in Side, NEW limit \in 0 .. 2
        PROVE  IsMarket(GetDepth(side, limit), side, limit)
    BY <2>1, IndInvSplits, DepthOfStructure
  <2> QED BY <2>1 DEF DepthIsTheMarket
<1> QED BY <1>1, FfiKeepsTheBook, BookInvariant, PTL
=============================================================================
