--------------------------- MODULE OrderBookProofs ---------------------------
(***************************************************************************)
(* IndInv is an inductive invariant of OrderBook, and OrderBook implements *)
(* PriceTimeBook, for every set of ids, users, prices and quantities and   *)
(* every capacity of the slab.                                             *)
(***************************************************************************)
EXTENDS OrderBookRefinement, TLAPS

\* Queue r has the slots of queue q but for slot i, and has them once.
IsWithout(r, q, i) ==
  /\ r \in Seq(Slots)
  /\ IsInjective(r)
  /\ \A n \in DOMAIN r : r[n] # i /\ \E m \in DOMAIN q : q[m] = r[n]
  /\ \A n \in DOMAIN q : q[n] # i => \E m \in DOMAIN r : r[m] = q[n]

\* pop_front removes the front slot of a queue and nothing else.
LEMMA PopFront ==
  ASSUME NEW q \in Seq(Slots), q # <<>>, IsInjective(q)
  PROVE  /\ Head(q) = q[1] /\ 1 \in DOMAIN q
         /\ IsWithout(Tail(q), q, Head(q))
<1>1. /\ Len(q) \in Nat \ {0} /\ DOMAIN q = 1 .. Len(q)
  OBVIOUS
<1>2. /\ Tail(q) \in Seq(Slots) /\ Len(Tail(q)) = Len(q) - 1
      /\ \A n \in 1 .. Len(Tail(q)) : Tail(q)[n] = q[n + 1]
  OBVIOUS
<1>3. DOMAIN Tail(q) = 1 .. Len(q) - 1
  BY <1>1, <1>2
<1>4. Head(q) = q[1]
  OBVIOUS
<1>5. \A n \in DOMAIN Tail(q) : n + 1 \in DOMAIN q /\ n + 1 # 1 /\ Tail(q)[n] = q[n + 1]
  BY <1>1, <1>2, <1>3
<1>6. IsInjective(Tail(q))
  BY <1>1, <1>3, <1>5 DEF IsInjective
<1>7. \A n \in DOMAIN Tail(q) : Tail(q)[n] # q[1] /\ \E m \in DOMAIN q : q[m] = Tail(q)[n]
  BY <1>1, <1>5 DEF IsInjective
<1>8. \A n \in DOMAIN q : q[n] # q[1] => \E m \in DOMAIN Tail(q) : Tail(q)[m] = q[n]
  <2> SUFFICES ASSUME NEW n \in DOMAIN q, q[n] # q[1]
               PROVE  \E m \in DOMAIN Tail(q) : Tail(q)[m] = q[n]
    BY Zenon
  <2>1. n - 1 \in DOMAIN Tail(q) /\ Tail(q)[n - 1] = q[n]
    BY <1>1, <1>2, <1>3
  <2> QED BY <2>1, Zenon
<1> QED BY <1>1, <1>2, <1>4, <1>6, <1>7, <1>8 DEF IsWithout

\* A sequence without its k-th element.
Cut(q, k) == SubSeq(q, 1, k - 1) \o SubSeq(q, k + 1, Len(q))

\* The elements of the second sequence follow those of the first.
LEMMA ConcatFacts ==
  ASSUME NEW S, NEW s \in Seq(S), NEW t \in Seq(S)
  PROVE  /\ s \o t \in Seq(S) /\ Len(s \o t) = Len(s) + Len(t)
         /\ \A n \in 1 .. Len(s) + Len(t) :
              (s \o t)[n] = IF n <= Len(s) THEN s[n] ELSE t[n - Len(s)]
OBVIOUS

\* The elements before the k-th stay where they are, those behind it move up.
LEMMA CutOut ==
  ASSUME NEW S, NEW q \in Seq(S), NEW k \in DOMAIN q
  PROVE  /\ Cut(q, k) \in Seq(S) /\ Len(Cut(q, k)) = Len(q) - 1
         /\ DOMAIN Cut(q, k) = 1 .. Len(q) - 1
         /\ \A n \in 1 .. Len(q) - 1 : Cut(q, k)[n] = IF n < k THEN q[n] ELSE q[n + 1]
<1> DEFINE a == SubSeq(q, 1, k - 1)
           b == SubSeq(q, k + 1, Len(q))
           r == a \o b
<1>1. /\ Len(q) \in Nat /\ DOMAIN q = 1 .. Len(q) /\ k \in 1 .. Len(q)
      /\ \A n \in 1 .. Len(q) : q[n] \in S
  OBVIOUS
<1>2. /\ a \in Seq(S) /\ Len(a) = k - 1
      /\ \A n \in 1 .. k - 1 : a[n] = q[n]
  <2>1. \A n \in 1 .. k - 1 : q[n] \in S
    BY <1>1
  <2>2. k - 1 \in Int /\ 1 \in Int
    BY <1>1
  <2> QED BY <1>1, <2>1, <2>2, SMTT(30)
<1>3. /\ b \in Seq(S) /\ Len(b) = Len(q) - k
      /\ \A n \in 1 .. Len(q) - k : b[n] = q[k + n]
  <2>1. \A n \in k + 1 .. Len(q) : q[n] \in S
    BY <1>1
  <2>2. k + 1 \in Int /\ Len(q) \in Int
    BY <1>1
  <2> QED BY <1>1, <2>1, <2>2, SMTT(30)
<1> HIDE DEF a, b
<1>4. /\ r \in Seq(S) /\ Len(r) = Len(a) + Len(b)
      /\ \A n \in 1 .. Len(a) + Len(b) : r[n] = IF n <= Len(a) THEN a[n] ELSE b[n - Len(a)]
  BY <1>2, <1>3, ConcatFacts, Zenon
<1>5. DOMAIN r = 1 .. Len(r)
  BY <1>4
<1>6. r = Cut(q, k)
  BY Zenon DEF Cut, a, b
<1> HIDE DEF r
<1>7. Len(a) + Len(b) = Len(q) - 1
  BY <1>1, <1>2, <1>3
<1>8. ASSUME NEW n \in 1 .. Len(q) - 1
      PROVE  r[n] = IF n < k THEN q[n] ELSE q[n + 1]
  <2>1. CASE n < k
    BY <1>1, <1>2, <1>4, <1>7, <2>1, SMTT(30)
  <2>2. CASE ~(n < k)
    <3>1. n - Len(a) \in 1 .. Len(q) - k /\ k + (n - Len(a)) = n + 1 /\ ~(n <= Len(a))
      BY <1>1, <1>2, <2>2, SMTT(30)
    <3> QED BY <1>3, <1>4, <1>7, <2>2, <3>1, Zenon
  <2> QED BY <2>1, <2>2, Zenon
<1> QED BY <1>4, <1>5, <1>6, <1>7, <1>8, Zenon

\* retain removes the slot it is given from a queue.
LEMMA RetainCuts ==
  ASSUME NEW q, IsInjective(q), NEW k \in DOMAIN q
  PROVE  Retain(q, q[k]) = Cut(q, k)
<1>1. k = CHOOSE n \in DOMAIN q : q[n] = q[k]
  BY Zenon DEF IsInjective
<1> QED BY <1>1, Zenon DEF Retain, Cut

\* retain removes nothing else.
LEMMA RetainDropsSlot ==
  ASSUME NEW q \in Seq(Slots), IsInjective(q), NEW k \in DOMAIN q
  PROVE  IsWithout(Retain(q, q[k]), q, q[k])
<1> DEFINE r == Cut(q, k)
<1>1. /\ Len(q) \in Nat /\ DOMAIN q = 1 .. Len(q) /\ k \in 1 .. Len(q)
      /\ \A n \in 1 .. Len(q) : q[n] \in Slots
  OBVIOUS
<1>2. Retain(q, q[k]) = r
  BY RetainCuts, Zenon
<1>3. /\ r \in Seq(Slots) /\ Len(r) = Len(q) - 1 /\ DOMAIN r = 1 .. Len(q) - 1
      /\ \A n \in 1 .. Len(q) - 1 : r[n] = IF n < k THEN q[n] ELSE q[n + 1]
  BY CutOut, Zenon
<1> HIDE DEF r
<1>4. IsInjective(r)
  <2> SUFFICES ASSUME NEW m \in DOMAIN r, NEW n \in DOMAIN r, r[m] = r[n]
               PROVE  m = n
    BY Zenon DEF IsInjective
  <2>1. /\ m + 1 \in DOMAIN q /\ n + 1 \in DOMAIN q
        /\ m < k => m \in DOMAIN q /\ r[m] = q[m]
        /\ n < k => n \in DOMAIN q /\ r[n] = q[n]
        /\ ~(m < k) => r[m] = q[m + 1]
        /\ ~(n < k) => r[n] = q[n + 1]
    BY <1>1, <1>3, SMTT(30)
  <2> QED BY <1>1, <1>3, <2>1 DEF IsInjective
<1>5. \A n \in DOMAIN r : r[n] # q[k] /\ \E m \in DOMAIN q : q[m] = r[n]
  <2> SUFFICES ASSUME NEW n \in DOMAIN r
               PROVE  r[n] # q[k] /\ \E m \in DOMAIN q : q[m] = r[n]
    BY Zenon
  <2>1. CASE n < k
    BY <1>1, <1>3, <2>1 DEF IsInjective
  <2>2. CASE ~(n < k)
    <3>1. n + 1 \in DOMAIN q /\ n + 1 # k /\ r[n] = q[n + 1]
      BY <1>1, <1>3, <2>2
    <3> QED BY <3>1, Zenon DEF IsInjective
  <2> QED BY <2>1, <2>2, Zenon
<1>6. \A n \in DOMAIN q : q[n] # q[k] => \E m \in DOMAIN r : r[m] = q[n]
  <2> SUFFICES ASSUME NEW n \in DOMAIN q, q[n] # q[k]
               PROVE  \E m \in DOMAIN r : r[m] = q[n]
    BY Zenon
  <2>1. CASE n < k
    BY <1>1, <1>3, <2>1, SMTT(30)
  <2>2. CASE n > k
    <3>1. n - 1 \in DOMAIN r /\ r[n - 1] = q[n]
      BY <1>1, <1>3, <2>2
    <3> QED BY <3>1, Zenon
  <2> QED BY <1>1, <2>1, <2>2
<1> QED BY <1>2, <1>3, <1>4, <1>5, <1>6, Zenon DEF IsWithout

\* What a map is after a key is set, and after a level's queue is replaced.
LEMMA WithProperties ==
  ASSUME NEW f, NEW k, NEW v, NEW S, f \in [DOMAIN f -> S], v \in S
  PROVE  /\ DOMAIN With(f, k, v) = DOMAIN f \cup {k}
         /\ With(f, k, v)[k] = v
         /\ \A x \in DOMAIN f : x # k => With(f, k, v)[x] = f[x]
         /\ With(f, k, v) \in [DOMAIN With(f, k, v) -> S]
BY Zenon DEF With

\* What a map is after HashMap::remove, Slab::remove or BTreeMap::remove.
LEMMA WithoutProperties ==
  ASSUME NEW f, NEW k, NEW S, f \in [DOMAIN f -> S]
  PROVE  /\ DOMAIN Without(f, k) = DOMAIN f \ {k}
         /\ \A x \in DOMAIN f : x # k => Without(f, k)[x] = f[x]
         /\ Without(f, k) \in [DOMAIN Without(f, k) -> S]
BY Zenon DEF Without

\* What a side of the book is after one of its queues has changed, and has been
\* removed if it is empty.
LEMMA SetQueueProperties ==
  ASSUME NEW f, NEW k, NEW r \in Seq(Slots), f \in [DOMAIN f -> Seq(Slots)], k \in DOMAIN f
  PROVE  /\ DOMAIN SetQueue(f, k, r) \subseteq DOMAIN f
         /\ \A x \in DOMAIN f : x # k => x \in DOMAIN SetQueue(f, k, r) /\ SetQueue(f, k, r)[x] = f[x]
         /\ k \in DOMAIN SetQueue(f, k, r) => r # <<>> /\ SetQueue(f, k, r)[k] = r
         /\ r # <<>> => k \in DOMAIN SetQueue(f, k, r)
         /\ SetQueue(f, k, r) \in [DOMAIN SetQueue(f, k, r) -> Seq(Slots)]
<1>1. CASE r = <<>>
  <2>1. SetQueue(f, k, r) = Without(f, k)
    BY <1>1, Zenon DEF SetQueue
  <2>2. /\ DOMAIN Without(f, k) = DOMAIN f \ {k}
        /\ \A x \in DOMAIN f : x # k => Without(f, k)[x] = f[x]
        /\ Without(f, k) \in [DOMAIN Without(f, k) -> Seq(Slots)]
    BY WithoutProperties, Zenon
  <2> QED BY <1>1, <2>1, <2>2, Zenon
<1>2. CASE r # <<>>
  <2>1. SetQueue(f, k, r) = With(f, k, r)
    BY <1>2, Zenon DEF SetQueue
  <2>2. /\ DOMAIN With(f, k, r) = DOMAIN f \cup {k}
        /\ With(f, k, r)[k] = r
        /\ \A x \in DOMAIN f : x # k => With(f, k, r)[x] = f[x]
        /\ With(f, k, r) \in [DOMAIN With(f, k, r) -> Seq(Slots)]
    BY WithProperties, Zenon
  <2> QED BY <1>2, <2>1, <2>2, Zenon
<1> QED BY <1>1, <1>2, Zenon

-----------------------------------------------------------------------------

\* What the invariants say of the slab and of the queues alone.
Structure ==
  /\ StoreTypeOK /\ BookTypeOK /\ QueuesMatchStore
  /\ NotCrossed /\ RestingOrdersAreOpen /\ FreeIsVacant

\* The structure depends on the slab, its vacant chain and the queues only.
LEMMA StructureUnchanged ==
  ASSUME Structure, UNCHANGED <<store, free, book>>
  PROVE  Structure'
BY DEF Structure, StoreTypeOK, BookTypeOK, QueuesMatchStore, QueueMatchesStore, NotCrossed,
       RestingOrdersAreOpen, FreeIsVacant

\* What the structure says of one queue.
LEMMA QueueFacts ==
  ASSUME Structure, NEW t \in Side, NEW x \in DOMAIN book[t]
  PROVE  /\ x \in Prices /\ book[t][x] \in Seq(Slots)
         /\ book[t][x] # <<>> /\ IsInjective(book[t][x])
         /\ \A n \in DOMAIN book[t][x] : /\ book[t][x][n] \in DOMAIN store
                                         /\ store[book[t][x][n]].side = t
                                         /\ store[book[t][x][n]].price = x
<1>1. QueueMatchesStore(t, x, book[t][x])
  BY Zenon DEF Structure, QueuesMatchStore
<1>2. x \in Prices /\ book[t][x] \in Seq(Slots)
  BY Zenon DEF Structure, BookTypeOK
<1> QED BY <1>1, <1>2, Zenon DEF QueueMatchesStore

\* What the structure says of one resting order.
LEMMA OrderFacts ==
  ASSUME Structure, NEW j \in DOMAIN store
  PROVE  /\ j \in Slots /\ store[j] \in Order
         /\ store[j].side \in Side /\ store[j].price \in Prices
         /\ store[j].price \in DOMAIN book[store[j].side]
         /\ \E n \in DOMAIN book[store[j].side][store[j].price] :
              book[store[j].side][store[j].price][n] = j
<1>1. j \in Slots /\ store[j] \in Order
  BY Zenon DEF Structure, StoreTypeOK
<1>2. store[j].side \in Side /\ store[j].price \in Prices
  BY <1>1, Zenon DEF Order
<1> QED BY <1>1, <1>2, Zenon DEF Structure, QueuesMatchStore

\* Slot i leaves the slab, and its queue becomes r, which is the queue without i.
SlotRemoved(i, r) ==
  /\ i \in DOMAIN store
  /\ IsWithout(r, book[store[i].side][store[i].price], i)
  /\ book' = [book EXCEPT ![store[i].side] = SetQueue(@, store[i].price, r)]
  /\ SlabRemove(i)

\* A slot that leaves both the slab and its queue, as a cancelled order or a maker
\* that is used up does, leaves the structure intact.
LEMMA RemoveSlot ==
  ASSUME Structure, NEW i, NEW r, SlotRemoved(i, r)
  PROVE  Structure'
<1> DEFINE s == store[i].side
           p == store[i].price
<1>1. /\ i \in DOMAIN store
      /\ IsWithout(r, book[s][p], i)
      /\ book' = [book EXCEPT ![s] = SetQueue(@, p, r)]
      /\ SlabRemove(i)
  BY Zenon DEF SlotRemoved
<1>2. /\ i \in Slots /\ s \in Side /\ p \in Prices /\ p \in DOMAIN book[s]
  BY <1>1, OrderFacts, Zenon
<1>3. store[i].side = s /\ store[i].price = p
  BY Zenon
<1> HIDE DEF s, p
<1>4. /\ DOMAIN store' = DOMAIN store \ {i}
      /\ \A j \in DOMAIN store' : store'[j] = store[j]
      /\ store' \in [DOMAIN store' -> Order]
  BY <1>1, Zenon DEF Structure, StoreTypeOK, SlabRemove, Without
<1>5. /\ r \in Seq(Slots) /\ IsInjective(r)
      /\ \A n \in DOMAIN r : r[n] # i /\ \E m \in DOMAIN book[s][p] : book[s][p][m] = r[n]
      /\ \A n \in DOMAIN book[s][p] :
           book[s][p][n] # i => \E m \in DOMAIN r : r[m] = book[s][p][n]
  BY <1>1, Zenon DEF IsWithout
<1>6. /\ DOMAIN book' = Side
      /\ \A t \in Side : t # s => book'[t] = book[t]
      /\ book'[s] = SetQueue(book[s], p, r)
  BY <1>1, <1>2, Zenon DEF Structure, BookTypeOK
<1>7. /\ DOMAIN book'[s] \subseteq DOMAIN book[s]
      /\ \A x \in DOMAIN book[s] : x # p => x \in DOMAIN book'[s] /\ book'[s][x] = book[s][x]
      /\ p \in DOMAIN book'[s] => r # <<>> /\ book'[s][p] = r
      /\ r # <<>> => p \in DOMAIN book'[s]
      /\ book'[s] \in [DOMAIN book'[s] -> Seq(Slots)]
  <2>1. book[s] \in [DOMAIN book[s] -> Seq(Slots)]
    BY <1>2, Zenon DEF Structure, BookTypeOK
  <2> QED BY <1>2, <1>5, <1>6, <2>1, SetQueueProperties
<1>8. \A t \in Side : \A x \in DOMAIN book'[t] :
        \/ t = s /\ x = p /\ book'[t][x] = r /\ r # <<>>
        \/ (t # s \/ x # p) /\ x \in DOMAIN book[t] /\ book'[t][x] = book[t][x]
  BY <1>6, <1>7, Zenon
<1>9. StoreTypeOK' /\ FreeIsVacant'
  <2>1. /\ free \in Seq(Slots) /\ Len(free) \in Nat /\ DOMAIN free = 1 .. Len(free)
    BY DEF Structure, StoreTypeOK
  <2>2. <<i>> \in Seq(Slots) /\ Len(<<i>>) = 1 /\ <<i>>[1] = i
    BY <1>2
  <2>3. /\ free' \in Seq(Slots) /\ Len(free') = Len(free) + 1
        /\ \A n \in 1 .. Len(free) + 1 : free'[n] = IF n <= 1 THEN <<i>>[n] ELSE free[n - 1]
    BY <1>1, <2>1, <2>2 DEF SlabRemove
  <2>4. DOMAIN free' = 1 .. Len(free) + 1
    BY <2>3
  <2>5. free'[1] = i /\ \A n \in DOMAIN free : n + 1 \in DOMAIN free' /\ free'[n + 1] = free[n]
    BY <2>1, <2>2, <2>3, <2>4
  <2>6. \A n \in DOMAIN free' : n # 1 => n - 1 \in DOMAIN free /\ free'[n] = free[n - 1]
    BY <2>1, <2>3, <2>4
  <2>7. \A n \in DOMAIN free : free[n] # i
    BY <1>1, Zenon DEF Structure, FreeIsVacant
  <2>8. \A n \in DOMAIN free' : free'[n] \notin DOMAIN store'
    BY <1>4, <2>5, <2>6, Zenon DEF Structure, FreeIsVacant
  <2>9. IsInjective(free')
    BY <2>1, <2>4, <2>5, <2>6, <2>7, SMTT(30) DEF Structure, FreeIsVacant, IsInjective
  <2>10. \A j \in Slots \ DOMAIN store' : \E n \in DOMAIN free' : free'[n] = j
    <3> SUFFICES ASSUME NEW j \in Slots, j \notin DOMAIN store'
                 PROVE  \E n \in DOMAIN free' : free'[n] = j
      BY Zenon
    <3>1. CASE j = i
      BY <2>1, <2>4, <2>5, <3>1
    <3>2. CASE j # i
      BY <1>4, <2>5, <3>2 DEF Structure, FreeIsVacant
    <3> QED BY <3>1, <3>2, Zenon
  <2> QED BY <1>4, <2>3, <2>8, <2>9, <2>10, Zenon DEF Structure, StoreTypeOK, FreeIsVacant
<1>10. BookTypeOK'
  <2> SUFFICES ASSUME NEW t \in Side
               PROVE  /\ DOMAIN book'[t] \subseteq Prices
                      /\ book'[t] \in [DOMAIN book'[t] -> Seq(Slots)]
    BY <1>6, Zenon DEF BookTypeOK
  <2>1. CASE t # s
    BY <1>6, <2>1, Zenon DEF Structure, BookTypeOK
  <2>2. CASE t = s
    BY <1>2, <1>7, <2>2, Zenon DEF Structure, BookTypeOK
  <2> QED BY <2>1, <2>2, Zenon
<1>11. QueuesMatchStore'
  <2>1. ASSUME NEW t \in Side, NEW x \in DOMAIN book'[t]
        PROVE  QueueMatchesStore(t, x, book[t][x])'
    <3>1. CASE t = s /\ x = p /\ book'[t][x] = r /\ r # <<>>
      <4>1. \A m \in DOMAIN book[s][p] : /\ book[s][p][m] \in DOMAIN store
                                        /\ store[book[s][p][m]].side = s
                                        /\ store[book[s][p][m]].price = p
        BY <1>2, QueueFacts
      <4>2. \A n \in DOMAIN r : r[n] \in DOMAIN store' /\ store'[r[n]].side = s /\ store'[r[n]].price = p
        BY <1>5, <1>4, <4>1, SMTT(30)
      <4> QED BY <1>5, <3>1, <4>2, Zenon DEF QueueMatchesStore
    <3>2. CASE (t # s \/ x # p) /\ x \in DOMAIN book[t] /\ book'[t][x] = book[t][x]
      <4>1. /\ book[t][x] # <<>> /\ IsInjective(book[t][x])
            /\ \A n \in DOMAIN book[t][x] : /\ book[t][x][n] \in DOMAIN store
                                            /\ store[book[t][x][n]].side = t
                                            /\ store[book[t][x][n]].price = x
        BY <3>2, QueueFacts
      <4>2. \A n \in DOMAIN book[t][x] : book[t][x][n] # i
        BY <1>3, <3>2, <4>1, SMTT(30)
      <4>3. \A n \in DOMAIN book[t][x] : /\ book[t][x][n] \in DOMAIN store'
                                        /\ store'[book[t][x][n]].side = t
                                        /\ store'[book[t][x][n]].price = x
        BY <1>4, <4>1, <4>2, Zenon
      <4> QED BY <3>2, <4>1, <4>3, Zenon DEF QueueMatchesStore
    <3> QED BY <1>8, <3>1, <3>2, Zenon
  <2>2. ASSUME NEW j \in DOMAIN store'
        PROVE  /\ store'[j].price \in DOMAIN book'[store'[j].side]
               /\ \E n \in DOMAIN book'[store'[j].side][store'[j].price] :
                    book'[store'[j].side][store'[j].price][n] = j
    <3> DEFINE t == store[j].side
               x == store[j].price
    <3>1. /\ j # i /\ j \in DOMAIN store /\ store'[j] = store[j]
      BY <1>4, Zenon
    <3>2. /\ t \in Side /\ x \in DOMAIN book[t] /\ \E n \in DOMAIN book[t][x] : book[t][x][n] = j
      BY <3>1, OrderFacts, Zenon
    <3>3. store'[j].side = t /\ store'[j].price = x
      BY <3>1, Zenon
    <3> HIDE DEF t, x
    <3> SUFFICES x \in DOMAIN book'[t] /\ \E n \in DOMAIN book'[t][x] : book'[t][x][n] = j
      BY <3>3, Zenon
    <3>4. CASE t = s /\ x = p
      <4>1. \E n \in DOMAIN r : r[n] = j
        BY <1>5, <3>1, <3>2, <3>4
      <4>2. r # <<>>
        BY <4>1
      <4> QED BY <1>7, <3>4, <4>1, <4>2, Zenon
    <3>5. CASE t # s \/ x # p
      <4>1. x \in DOMAIN book'[t] /\ book'[t][x] = book[t][x]
        BY <1>6, <1>7, <3>2, <3>5, Zenon
      <4> QED BY <3>2, <4>1, Zenon
    <3> QED BY <3>4, <3>5, Zenon
  <2> QED BY <2>1, <2>2, Zenon DEF QueuesMatchStore
<1>12. NotCrossed'
  <2>1. \A t \in Side : DOMAIN book'[t] \subseteq DOMAIN book[t]
    BY <1>2, <1>8, Zenon
  <2> QED BY <2>1, Zenon DEF Structure, NotCrossed, Side
<1>13. RestingOrdersAreOpen'
  BY <1>4, Zenon DEF Structure, RestingOrdersAreOpen
<1> QED BY <1>9, <1>10, <1>11, <1>12, <1>13, Zenon DEF Structure

\* push_back keeps the slots of a queue and adds one at the end.
LEMMA PushBack ==
  ASSUME NEW q \in Seq(Slots), NEW i \in Slots
  PROVE  /\ Append(q, i) \in Seq(Slots)
         /\ Append(q, i) # <<>>
         /\ \A n \in DOMAIN Append(q, i) :
              Append(q, i)[n] = i \/ \E m \in DOMAIN q : q[m] = Append(q, i)[n]
         /\ \A m \in DOMAIN q : \E n \in DOMAIN Append(q, i) : Append(q, i)[n] = q[m]
         /\ \E n \in DOMAIN Append(q, i) : Append(q, i)[n] = i
         /\ IsInjective(q) /\ (\A n \in DOMAIN q : q[n] # i) => IsInjective(Append(q, i))
<1> DEFINE r == Append(q, i)
<1>1. /\ r \in Seq(Slots) /\ r # <<>> /\ Len(r) = Len(q) + 1
      /\ \A n \in 1 .. Len(q) : r[n] = q[n]
      /\ r[Len(q) + 1] = i
  OBVIOUS
<1> HIDE DEF r
<1>2. Len(q) \in Nat /\ DOMAIN q = 1 .. Len(q) /\ DOMAIN r = 1 .. Len(q) + 1
  BY <1>1
<1>3. \A n \in DOMAIN r : (n \in DOMAIN q /\ r[n] = q[n]) \/ (n = Len(q) + 1 /\ r[n] = i)
  BY <1>1, <1>2
<1>4. \A n \in DOMAIN q : n \in DOMAIN r /\ r[n] = q[n]
  BY <1>1, <1>2
<1>5. Len(q) + 1 \in DOMAIN r
  BY <1>2
<1>6. ASSUME IsInjective(q), \A n \in DOMAIN q : q[n] # i
      PROVE  IsInjective(r)
  BY <1>3, <1>6, Zenon DEF IsInjective
<1> QED BY <1>1, <1>3, <1>4, <1>5, <1>6, Zenon DEF r

\* Slab::insert takes a vacant slot and leaves the other vacant slots.
LEMMA SlabInsertTakesVacant ==
  ASSUME StoreTypeOK, FreeIsVacant, free # <<>>, NEW o \in Order, SlabInsert(o)
  PROVE  /\ Head(free) \in Slots \ DOMAIN store
         /\ DOMAIN store' = DOMAIN store \cup {Head(free)}
         /\ store'[Head(free)] = o
         /\ \A j \in DOMAIN store : store'[j] = store[j]
         /\ StoreTypeOK'
         /\ FreeIsVacant'
<1> DEFINE i == Head(free)
<1>1. /\ i = free[1] /\ 1 \in DOMAIN free
      /\ IsWithout(Tail(free), free, i)
  BY PopFront, Zenon DEF StoreTypeOK, FreeIsVacant
<1>2. i \in Slots /\ i \notin DOMAIN store
  BY <1>1 DEF StoreTypeOK, FreeIsVacant
<1>3. store \in [DOMAIN store -> Order] /\ store' = With(store, i, o) /\ free' = Tail(free)
  BY Zenon DEF StoreTypeOK, SlabInsert
<1> HIDE DEF i
<1>4. /\ DOMAIN store' = DOMAIN store \cup {i}
      /\ store'[i] = o
      /\ \A j \in DOMAIN store : j # i => store'[j] = store[j]
      /\ store' \in [DOMAIN store' -> Order]
  <2>1. /\ DOMAIN With(store, i, o) = DOMAIN store \cup {i}
        /\ With(store, i, o)[i] = o
        /\ \A j \in DOMAIN store : j # i => With(store, i, o)[j] = store[j]
        /\ With(store, i, o) \in [DOMAIN With(store, i, o) -> Order]
    BY <1>3, WithProperties, Zenon
  <2> QED BY <1>3, <2>1, Zenon
<1>5. StoreTypeOK'
  BY <1>1, <1>2, <1>3, <1>4, Zenon DEF StoreTypeOK, IsWithout
<1>6. FreeIsVacant'
  <2>1. \A n \in DOMAIN free' : free'[n] \notin DOMAIN store'
    BY <1>1, <1>3, <1>4 DEF IsWithout, FreeIsVacant
  <2>2. \A j \in Slots \ DOMAIN store' : \E n \in DOMAIN free' : free'[n] = j
    BY <1>1, <1>3, <1>4 DEF IsWithout, FreeIsVacant
  <2>3. IsInjective(free')
    BY <1>1, <1>3, Zenon DEF IsWithout
  <2> QED BY <2>1, <2>2, <2>3, Zenon DEF FreeIsVacant
<1> QED BY <1>2, <1>4, <1>5, <1>6, Zenon DEF i

\* Order o takes the first vacant slot and the back of its level, and no level of the
\* other side matches it.
SlotInserted(o) ==
  /\ o \in Order /\ o.quantity > 0
  /\ \A x \in DOMAIN book[Opposite(o.side)] : ~IsMatchable(o.side, x, o.price)
  /\ free # <<>>
  /\ SlabInsert(o)
  /\ book' = [book EXCEPT ![o.side] =
                With(@, o.price, Append(QueueAt(@, o.price), Head(free)))]

\* An order that comes to rest at the back of its level, when no level of the other
\* side matches it, leaves the structure intact.
LEMMA InsertSlot ==
  ASSUME Structure, NEW o, SlotInserted(o)
  PROVE  Structure'
<1> DEFINE i == Head(free)
           s == o.side
           p == o.price
           q == QueueAt(book[s], p)
           r == Append(q, i)
<1>1. /\ o \in Order /\ o.quantity > 0 /\ free # <<>> /\ SlabInsert(o)
      /\ book' = [book EXCEPT ![s] = With(@, p, Append(QueueAt(@, p), i))]
  BY Zenon DEF SlotInserted
<1>2. /\ i \in Slots \ DOMAIN store
      /\ DOMAIN store' = DOMAIN store \cup {i}
      /\ store'[i] = o
      /\ \A j \in DOMAIN store : store'[j] = store[j]
      /\ StoreTypeOK'
      /\ FreeIsVacant'
  BY <1>1, SlabInsertTakesVacant, Zenon DEF Structure
<1>3. s \in Side /\ p \in Prices /\ o.side = s /\ o.price = p
  BY <1>1, Zenon DEF Order
<1> HIDE DEF i, s, p
<1>4. book[s] \in [DOMAIN book[s] -> Seq(Slots)]
  BY <1>3, Zenon DEF Structure, BookTypeOK
<1>5. /\ DOMAIN book' = Side
      /\ \A t \in Side : t # s => book'[t] = book[t]
      /\ book'[s] = With(book[s], p, r)
  BY <1>1, <1>3, Zenon DEF Structure, BookTypeOK
<1>6. /\ q \in Seq(Slots)
      /\ IsInjective(q)
      /\ \A n \in DOMAIN q : q[n] \in DOMAIN store /\ store[q[n]].side = s /\ store[q[n]].price = p
      /\ p \in DOMAIN book[s] => q = book[s][p]
  <2>1. CASE p \in DOMAIN book[s]
    BY <1>3, <2>1, QueueFacts DEF QueueAt
  <2>2. CASE p \notin DOMAIN book[s]
    <3>1. q = <<>>
      BY <2>2, Zenon DEF QueueAt
    <3>2. q \in Seq(Slots) /\ DOMAIN q = {}
      BY <3>1
    <3> QED BY <2>2, <3>2, Zenon DEF IsInjective
  <2> QED BY <2>1, <2>2, Zenon
<1> HIDE DEF q
<1>7. /\ r \in Seq(Slots) /\ r # <<>>
      /\ \A n \in DOMAIN r : r[n] = i \/ \E m \in DOMAIN q : q[m] = r[n]
      /\ \A m \in DOMAIN q : \E n \in DOMAIN r : r[n] = q[m]
      /\ \E n \in DOMAIN r : r[n] = i
      /\ IsInjective(q) /\ (\A n \in DOMAIN q : q[n] # i) => IsInjective(r)
  <2>1. q \in Seq(Slots) /\ i \in Slots
    BY <1>2, <1>6, Zenon
  <2> QED BY <2>1, PushBack, Zenon
<1> HIDE DEF r
<1>8. /\ DOMAIN book'[s] = DOMAIN book[s] \cup {p}
      /\ book'[s][p] = r
      /\ \A x \in DOMAIN book[s] : x # p => book'[s][x] = book[s][x]
      /\ book'[s] \in [DOMAIN book'[s] -> Seq(Slots)]
  <2>1. /\ DOMAIN With(book[s], p, r) = DOMAIN book[s] \cup {p}
        /\ With(book[s], p, r)[p] = r
        /\ \A x \in DOMAIN book[s] : x # p => With(book[s], p, r)[x] = book[s][x]
        /\ With(book[s], p, r) \in [DOMAIN With(book[s], p, r) -> Seq(Slots)]
    BY <1>4, <1>7, WithProperties, ZenonT(30)
  <2> QED BY <1>5, <2>1, Zenon
<1>9. BookTypeOK'
  <2> SUFFICES ASSUME NEW t \in Side
               PROVE  /\ DOMAIN book'[t] \subseteq Prices
                      /\ book'[t] \in [DOMAIN book'[t] -> Seq(Slots)]
    BY <1>5, Zenon DEF BookTypeOK
  <2>1. CASE t # s
    BY <1>5, <2>1, Zenon DEF Structure, BookTypeOK
  <2>2. CASE t = s
    BY <1>3, <1>8, <2>2, Zenon DEF Structure, BookTypeOK
  <2> QED BY <2>1, <2>2, Zenon
<1>10. QueuesMatchStore'
  <2>1. ASSUME NEW t \in Side, NEW x \in DOMAIN book'[t]
        PROVE  QueueMatchesStore(t, x, book[t][x])'
    <3>1. CASE t = s /\ x = p
      <4>1. \A n \in DOMAIN r : r[n] \in DOMAIN store' /\ store'[r[n]].side = s /\ store'[r[n]].price = p
        BY <1>2, <1>3, <1>6, <1>7
      <4>2. IsInjective(r)
        BY <1>2, <1>6, <1>7, Zenon
      <4>3. book'[t][x] = r /\ r # <<>>
        BY <1>7, <1>8, <3>1, Zenon
      <4> QED BY <3>1, <4>1, <4>2, <4>3, Zenon DEF QueueMatchesStore
    <3>2. CASE t # s \/ x # p
      <4>1. x \in DOMAIN book[t] /\ book'[t][x] = book[t][x]
        BY <1>5, <1>8, <3>2
      <4>2. /\ book[t][x] # <<>> /\ IsInjective(book[t][x])
            /\ \A n \in DOMAIN book[t][x] : /\ book[t][x][n] \in DOMAIN store
                                            /\ store[book[t][x][n]].side = t
                                            /\ store[book[t][x][n]].price = x
        BY <4>1, QueueFacts
      <4>3. \A n \in DOMAIN book[t][x] : /\ book[t][x][n] \in DOMAIN store'
                                        /\ store'[book[t][x][n]].side = t
                                        /\ store'[book[t][x][n]].price = x
        BY <1>2, <4>2, Zenon
      <4> QED BY <4>1, <4>2, <4>3, Zenon DEF QueueMatchesStore
    <3> QED BY <3>1, <3>2, Zenon
  <2>2. ASSUME NEW j \in DOMAIN store'
        PROVE  /\ store'[j].price \in DOMAIN book'[store'[j].side]
               /\ \E n \in DOMAIN book'[store'[j].side][store'[j].price] :
                    book'[store'[j].side][store'[j].price][n] = j
    <3>1. CASE j = i
      <4>1. store'[j].side = s /\ store'[j].price = p
        BY <1>2, <1>3, <3>1, Zenon
      <4> QED BY <1>7, <1>8, <3>1, <4>1
    <3>2. CASE j # i
      <4> DEFINE t == store[j].side
                 x == store[j].price
      <4>1. j \in DOMAIN store /\ store'[j] = store[j]
        BY <1>2, <3>2, Zenon
      <4>2. t \in Side /\ x \in DOMAIN book[t] /\ \E n \in DOMAIN book[t][x] : book[t][x][n] = j
        BY <4>1, OrderFacts, Zenon
      <4>3. store'[j].side = t /\ store'[j].price = x
        BY <4>1, Zenon
      <4> HIDE DEF t, x
      <4> SUFFICES x \in DOMAIN book'[t] /\ \E n \in DOMAIN book'[t][x] : book'[t][x][n] = j
        BY <4>3, Zenon
      <4>4. CASE t = s /\ x = p
        BY <1>6, <1>7, <1>8, <4>2, <4>4
      <4>5. CASE t # s \/ x # p
        <5>1. x \in DOMAIN book'[t] /\ book'[t][x] = book[t][x]
          BY <1>5, <1>8, <4>2, <4>5, Zenon
        <5> QED BY <4>2, <5>1, Zenon
      <4> QED BY <4>4, <4>5, Zenon
    <3> QED BY <3>1, <3>2, Zenon
  <2> QED BY <2>1, <2>2, Zenon DEF QueuesMatchStore
<1>11. NotCrossed'
  <2> SUFFICES ASSUME NEW bid \in DOMAIN book'["Bid"], NEW ask \in DOMAIN book'["Ask"]
               PROVE  bid < ask
    BY Zenon DEF NotCrossed
  <2>1. \A t \in Side : DOMAIN book[t] \subseteq Nat
    BY ConstantsAssumption, Zenon DEF Structure, BookTypeOK
  <2>2. p \in Nat
    BY <1>3, ConstantsAssumption, Zenon
  <2>3. \A x \in DOMAIN book[Opposite(s)] : ~IsMatchable(s, x, p)
    BY Zenon DEF SlotInserted, s, p
  <2>4. CASE s = "Bid"
    <3>1. DOMAIN book'["Ask"] = DOMAIN book["Ask"] /\ DOMAIN book'["Bid"] = DOMAIN book["Bid"] \cup {p}
      BY <1>5, <1>8, <2>4, Zenon DEF Side
    <3>2. \A x \in DOMAIN book["Ask"] : ~(x <= p)
      BY <2>3, <2>4, Zenon DEF IsMatchable, Opposite
    <3> QED BY <2>1, <2>2, <3>1, <3>2 DEF Structure, NotCrossed, Side
  <2>5. CASE s = "Ask"
    <3>1. DOMAIN book'["Bid"] = DOMAIN book["Bid"] /\ DOMAIN book'["Ask"] = DOMAIN book["Ask"] \cup {p}
      BY <1>5, <1>8, <2>5, Zenon DEF Side
    <3>2. \A x \in DOMAIN book["Bid"] : ~(x >= p)
      BY <2>3, <2>5, Zenon DEF IsMatchable, Opposite
    <3> QED BY <2>1, <2>2, <3>1, <3>2 DEF Structure, NotCrossed, Side
  <2> QED BY <1>3, <2>4, <2>5, Zenon DEF Side
<1>12. RestingOrdersAreOpen'
  BY <1>1, <1>2, Zenon DEF Structure, RestingOrdersAreOpen
<1> QED BY <1>2, <1>9, <1>10, <1>11, <1>12, Zenon DEF Structure

\* A maker that is filled in part keeps its slot, its place and its level.
LEMMA PartialFill ==
  ASSUME Structure, NEW i \in DOMAIN store, NEW left \in Nat, left > 0,
         store' = [store EXCEPT ![i].quantity = left],
         UNCHANGED <<free, book>>
  PROVE  Structure'
<1>1. /\ DOMAIN store' = DOMAIN store
      /\ store' \in [DOMAIN store' -> Order]
      /\ \A j \in DOMAIN store : /\ store'[j].side = store[j].side
                                /\ store'[j].price = store[j].price
                                /\ store'[j].quantity = IF j = i THEN left ELSE store[j].quantity
  <2>1. store \in [DOMAIN store -> Order]
    BY Zenon DEF Structure, StoreTypeOK
  <2> QED BY <2>1 DEF Order
<1>2. StoreTypeOK' /\ FreeIsVacant' /\ BookTypeOK' /\ NotCrossed' /\ RestingOrdersAreOpen'
  <2>1. StoreTypeOK'
    BY <1>1, Zenon DEF Structure, StoreTypeOK
  <2>2. FreeIsVacant'
    BY <1>1 DEF Structure, FreeIsVacant
  <2>3. BookTypeOK' /\ NotCrossed'
    BY Zenon DEF Structure, BookTypeOK, NotCrossed
  <2>4. RestingOrdersAreOpen'
    BY <1>1 DEF Structure, RestingOrdersAreOpen
  <2> QED BY <2>1, <2>2, <2>3, <2>4, Zenon
<1>3. QueuesMatchStore'
  <2>1. ASSUME NEW t \in Side, NEW x \in DOMAIN book[t]
        PROVE  QueueMatchesStore(t, x, book[t][x])'
    <3>1. QueueMatchesStore(t, x, book[t][x])
      BY Zenon DEF Structure, QueuesMatchStore
    <3> QED BY <1>1, <3>1 DEF QueueMatchesStore
  <2>2. \A j \in DOMAIN store' :
          /\ store'[j].price \in DOMAIN book'[store'[j].side]
          /\ \E n \in DOMAIN book'[store'[j].side][store'[j].price] :
               book'[store'[j].side][store'[j].price][n] = j
    BY <1>1 DEF Structure, QueuesMatchStore
  <2> QED BY <2>1, <2>2, Zenon DEF QueuesMatchStore
<1> QED BY <1>2, <1>3, Zenon DEF Structure

-----------------------------------------------------------------------------

\* What the invariants say of the ids, the running call and the returned events.
Bookkeeping ==
  /\ DOMAIN index \subseteq OrderIds
  /\ index \in [DOMAIN index -> Slots]
  /\ taker \in Order \cup {NoTaker}
  /\ events \in Seq(EngineEvent)
  /\ used \subseteq OrderIds
  /\ RestingOrdersCanBeCancelled
  /\ FreshTaker
  /\ RoomForTaker

\* IndInv falls into the two halves that the lemmas treat one at a time.
LEMMA IndInvSplits ==
  /\ IndInv <=> Structure /\ Bookkeeping
  /\ IndInv' <=> Structure' /\ Bookkeeping'
BY Zenon DEF IndInv, Structure, Bookkeeping, TypeOK

\* The order that the matching loop meets is at the front of the queue of its own
\* side and price, and popping that queue takes it out of the book.
LEMMA MeetsFront ==
  ASSUME Structure, taker \in Order, NEW price, NEW i, Meets(price, i)
  PROVE  /\ i \in DOMAIN store
         /\ store[i].side = Opposite(taker.side) /\ store[i].price = price
         /\ IsWithout(Tail(book[store[i].side][store[i].price]),
                      book[store[i].side][store[i].price], i)
<1> DEFINE t == Opposite(taker.side)
           q == book[t][price]
<1>1. t \in Side /\ price \in DOMAIN book[t] /\ i = Head(q) /\ i \in DOMAIN store
  BY Zenon DEF Order, Side, Opposite, Meets, IsBest
<1>2. QueueMatchesStore(t, price, q) /\ q \in Seq(Slots)
  BY <1>1, Zenon DEF Structure, QueuesMatchStore, BookTypeOK
<1> HIDE DEF t, q
<1>3. /\ Head(q) = q[1] /\ 1 \in DOMAIN q
      /\ IsWithout(Tail(q), q, Head(q))
  BY <1>2, PopFront, Zenon DEF QueueMatchesStore
<1>4. store[i].side = t /\ store[i].price = price
  BY <1>1, <1>2, <1>3, Zenon DEF QueueMatchesStore
<1> QED BY <1>1, <1>3, <1>4, Zenon DEF t, q

\* A maker that is popped leaves the structure intact, and a slot for the taker.
LEMMA PopMakerKeeps ==
  ASSUME Structure, taker \in Order, NEW price, NEW i, Meets(price, i), PopMaker(price, i)
  PROVE  /\ Structure'
         /\ free' # <<>>
         /\ DOMAIN store' \subseteq DOMAIN store
         /\ \A j \in DOMAIN store' : store'[j] = store[j]
<1>1. /\ i \in DOMAIN store
      /\ store[i].side = Opposite(taker.side) /\ store[i].price = price
      /\ IsWithout(Tail(book[store[i].side][store[i].price]),
                   book[store[i].side][store[i].price], i)
  BY MeetsFront, Zenon
<1>2. SlabRemove(i) /\ SlotRemoved(i, Tail(book[store[i].side][store[i].price]))
  BY <1>1, Zenon DEF PopMaker, SlotRemoved
<1>3. Structure'
  BY <1>2, RemoveSlot, Zenon
<1>4. free' # <<>>
  <2>1. i \in Slots /\ free \in Seq(Slots)
    BY <1>1, Zenon DEF Structure, StoreTypeOK
  <2> QED BY <1>2, <2>1 DEF SlabRemove
<1> QED BY <1>2, <1>3, <1>4, Zenon DEF SlabRemove, Without

-----------------------------------------------------------------------------

\* An empty book satisfies the invariant.
LEMMA InitEstablishes == Init => IndInv
<1> SUFFICES ASSUME Init PROVE Structure /\ Bookkeeping
  BY IndInvSplits, Zenon
<1> USE ConstantsAssumption
<1>1. store = [i \in {} |-> i] /\ DOMAIN store = {}
  BY Zenon DEF Init
<1>2. free \in Seq(Slots) /\ DOMAIN free = 1 .. Capacity /\ \A n \in 1 .. Capacity : free[n] = n - 1
  BY DEF Init, Slots
<1>3. /\ DOMAIN book = Side
      /\ \A t \in Side : DOMAIN book[t] = {} /\ book[t] \in [{} -> Seq(Slots)]
  BY Zenon DEF Init
<1>4. StoreTypeOK
  BY <1>1, <1>2, Zenon DEF StoreTypeOK
<1>5. FreeIsVacant
  <2>1. \A i \in Slots : i + 1 \in DOMAIN free /\ free[i + 1] = i
    BY <1>2 DEF Slots
  <2> QED BY <1>1, <1>2, <2>1 DEF FreeIsVacant, IsInjective
<1>6. BookTypeOK
  BY <1>3, Zenon DEF BookTypeOK
<1>7. QueuesMatchStore /\ NotCrossed /\ RestingOrdersAreOpen
  BY <1>1, <1>3, Zenon DEF QueuesMatchStore, NotCrossed, RestingOrdersAreOpen, Side
<1>8. Bookkeeping
  <2>1. DOMAIN index = {} /\ index \in [DOMAIN index -> Slots]
    BY Zenon DEF Init
  <2>2. events \in Seq(EngineEvent) /\ taker = NoTaker /\ used = {}
    BY DEF Init
  <2> QED BY <1>1, <2>1, <2>2, Zenon DEF Bookkeeping, RestingOrdersCanBeCancelled, FreshTaker, RoomForTaker
<1> QED BY <1>4, <1>5, <1>6, <1>7, <1>8, Zenon DEF Structure

\* Entering place_limit_order touches no resting order.
LEMMA StartPlaceKeeps ==
  ASSUME IndInv, NEW o \in Request, StartPlace(o)
  PROVE  IndInv'
<1>1. Structure /\ Bookkeeping
  BY IndInvSplits, Zenon
<1>2. Structure'
  BY <1>1, StructureUnchanged, Zenon DEF StartPlace
<1>3. o \in Order /\ o.id \in OrderIds /\ o # NoTaker
  BY ConstantsAssumption, Zenon DEF Request, Order
<1>4. Bookkeeping'
  BY <1>1, <1>3 DEF StartPlace, Bookkeeping, RestingOrdersCanBeCancelled, FreshTaker, RoomForTaker
<1> QED BY <1>2, <1>4, IndInvSplits, Zenon

\* Self-trade prevention removes the maker from slab and queue alike.
LEMMA CancelSelfTradeKeeps ==
  ASSUME IndInv, NEW price, NEW i, CancelSelfTrade(price, i)
  PROVE  IndInv'
<1>1. Structure /\ Bookkeeping
  BY IndInvSplits, Zenon
<1>2. taker \in Order /\ Meets(price, i) /\ PopMaker(price, i)
  BY <1>1, Zenon DEF CancelSelfTrade, Meets, Bookkeeping
<1>3. /\ Structure'
      /\ free' # <<>>
      /\ DOMAIN store' \subseteq DOMAIN store
      /\ \A j \in DOMAIN store' : store'[j] = store[j]
  BY <1>1, <1>2, PopMakerKeeps, Zenon
<1>4. events' \in Seq(EngineEvent)
  <2>1. store[i] \in Order
    BY <1>1, <1>2, Zenon DEF Meets, Structure, StoreTypeOK
  <2>2. OrderCancelled(store[i].id) \in EngineEvent
    BY <2>1, Zenon DEF Order, OrderCancelled, EngineEvent
  <2> QED BY <1>1, <2>2 DEF CancelSelfTrade, Bookkeeping
<1>5. UNCHANGED <<index, taker, used>>
  BY Zenon DEF CancelSelfTrade
<1>6. Bookkeeping'
  BY <1>1, <1>3, <1>4, <1>5, Zenon DEF Bookkeeping, RestingOrdersCanBeCancelled, FreshTaker, RoomForTaker
<1> QED BY <1>3, <1>6, IndInvSplits, Zenon

\* A trade takes the same quantity from maker and taker, and removes the maker
\* exactly when it is used up.
LEMMA TradeKeeps ==
  ASSUME IndInv, NEW price, NEW i, Trade(price, i)
  PROVE  IndInv'
<1> DEFINE quantity == IF taker.quantity <= store[i].quantity
                         THEN taker.quantity ELSE store[i].quantity
<1>1. Structure /\ Bookkeeping
  BY IndInvSplits, Zenon
<1>2. taker \in Order /\ taker.quantity > 0 /\ Meets(price, i) /\ i \in DOMAIN store /\ store[i] \in Order
  BY <1>1, Zenon DEF Trade, Meets, Bookkeeping, Structure, StoreTypeOK
<1>3. /\ quantity \in Nat /\ quantity <= taker.quantity /\ quantity <= store[i].quantity
      /\ taker.quantity \in Nat /\ store[i].quantity \in Nat
  BY <1>2 DEF Order
<1>4. /\ events' = Append(events, TradeExecuted(store[i], taker, quantity))
      /\ taker' = [taker EXCEPT !.quantity = @ - quantity]
      /\ \/ PopMaker(price, i)
         \/ /\ store[i].quantity # quantity
            /\ store' = [store EXCEPT ![i].quantity = @ - quantity]
            /\ UNCHANGED <<free, book>>
      /\ UNCHANGED <<index, used>>
  BY Zenon DEF Trade
<1> HIDE DEF quantity
<1>5. taker' \in Order /\ taker'.id = taker.id /\ taker' # NoTaker /\ taker # NoTaker
  <2>1. taker.quantity - quantity \in Nat
    BY <1>3
  <2>2. taker' = [taker EXCEPT !.quantity = taker.quantity - quantity]
    BY <1>4, Zenon
  <2>3. taker' \in Order /\ taker'.id = taker.id
    BY <1>2, <2>1, <2>2, Zenon DEF Order
  <2> QED BY <1>2, <2>3, ConstantsAssumption, Zenon
<1>6. events' \in Seq(EngineEvent)
  <2>1. TradeExecuted(store[i], taker, quantity) \in EngineEvent
    BY <1>2, <1>3, Zenon DEF Order, TradeExecuted, EngineEvent
  <2> QED BY <1>1, <1>4, <2>1 DEF Bookkeeping
<1>7. /\ Structure'
      /\ free' # <<>>
      /\ DOMAIN store' \subseteq DOMAIN store
      /\ \A j \in DOMAIN store' : store'[j].id = store[j].id
  <2>1. CASE PopMaker(price, i)
    BY <1>1, <1>2, <2>1, PopMakerKeeps, Zenon
  <2>2. CASE /\ store[i].quantity # quantity
             /\ store' = [store EXCEPT ![i].quantity = @ - quantity]
             /\ UNCHANGED <<free, book>>
    <3> DEFINE left == store[i].quantity - quantity
    <3>1. left \in Nat /\ left > 0 /\ store' = [store EXCEPT ![i].quantity = left]
      BY <1>3, <2>2
    <3> HIDE DEF left
    <3>2. Structure'
      BY <1>1, <1>2, <2>2, <3>1, PartialFill, Zenon
    <3>3. free' # <<>>
      BY <1>1, <1>5, <2>2, Zenon DEF Bookkeeping, RoomForTaker
    <3>4. store \in [DOMAIN store -> Order]
      BY <1>1, Zenon DEF Structure, StoreTypeOK
    <3> QED BY <1>2, <3>1, <3>2, <3>3, <3>4, Zenon DEF Order
  <2> QED BY <1>4, <2>1, <2>2, Zenon
<1>8. Bookkeeping'
  BY <1>1, <1>4, <1>5, <1>6, <1>7
  DEF Bookkeeping, RestingOrdersCanBeCancelled, FreshTaker, RoomForTaker
<1> QED BY <1>7, <1>8, IndInvSplits, Zenon

\* What comes to rest gets a vacant slot, the back of its queue and an entry in
\* order_index.
LEMMA RestKeeps ==
  ASSUME IndInv, Rest
  PROVE  IndInv'
<1>1. Structure /\ Bookkeeping
  BY IndInvSplits
<1>2. taker \in Order /\ taker.quantity > 0 /\ taker # NoTaker /\ free # <<>> /\ SlabInsert(taker)
  BY <1>1 DEF Rest, Bookkeeping, RoomForTaker
<1>3. Structure'
  <2>1. SlotInserted(taker)
    BY <1>2, Zenon DEF Rest, SlotInserted
  <2> QED BY <1>1, <2>1, InsertSlot
<1> DEFINE i == Head(free)
<1>4. /\ i \in Slots
      /\ DOMAIN store' = DOMAIN store \cup {i}
      /\ store'[i] = taker
      /\ \A j \in DOMAIN store : store'[j] = store[j]
  BY <1>1, <1>2, SlabInsertTakesVacant, Zenon DEF Structure
<1>5. /\ index' = With(index, taker.id, i)
      /\ events' = Append(events, OrderPlaced(taker))
      /\ taker' = NoTaker
      /\ used' = used
  BY DEF Rest
<1> HIDE DEF i
<1>6. events' \in Seq(EngineEvent) /\ taker.id \in OrderIds
  <2>1. OrderPlaced(taker) \in EngineEvent /\ taker.id \in OrderIds
    BY <1>2 DEF Order, OrderPlaced, EngineEvent
  <2> QED BY <1>1, <1>5, <2>1 DEF Bookkeeping
<1>7. /\ DOMAIN index' = DOMAIN index \cup {taker.id}
      /\ index'[taker.id] = i
      /\ \A id \in DOMAIN index : id # taker.id => index'[id] = index[id]
      /\ index' \in [DOMAIN index' -> Slots]
  BY <1>1, <1>4, <1>5 DEF Bookkeeping, With
<1>8. RestingOrdersCanBeCancelled'
  BY <1>1, <1>2, <1>4, <1>7 DEF Bookkeeping, RestingOrdersCanBeCancelled, FreshTaker
<1>9. FreshTaker'
  <2>1. taker.id \in used
    BY <1>1, <1>2 DEF Bookkeeping, FreshTaker
  <2> QED BY <1>1, <1>5, <1>7, <2>1 DEF Bookkeeping, FreshTaker
<1>10. Bookkeeping'
  BY <1>1, <1>5, <1>6, <1>7, <1>8, <1>9 DEF Bookkeeping, RoomForTaker
<1> QED BY <1>3, <1>10, IndInvSplits

\* A cancellation removes one order from slab and queue alike, even when it comes
\* through a stale entry of order_index.
LEMMA CancelKeeps ==
  ASSUME IndInv, NEW id, NEW user, Cancel(id, user)
  PROVE  IndInv'
<1>1. Structure /\ Bookkeeping
  BY IndInvSplits
<1>2. CASE Cancellable(id, user)
  <2> DEFINE i == index[id]
             o == store[i]
             q == book[o.side][o.price]
  <2>1. /\ book' = [book EXCEPT ![o.side] =
                      IF o.price \in DOMAIN @
                        THEN SetQueue(@, o.price, Retain(@[o.price], i))
                        ELSE @]
        /\ index' = Without(index, id)
        /\ SlabRemove(i)
        /\ events' = <<OrderCancelled(id)>>
        /\ UNCHANGED <<taker, used>>
        /\ taker = NoTaker
    BY <1>2 DEF Cancel
  <2>2. id \in DOMAIN index /\ i \in DOMAIN store
    BY <1>2 DEF Cancellable
  <2>3. o.side \in Side /\ o.price \in DOMAIN book[o.side] /\ \E n \in DOMAIN q : q[n] = i
    BY <1>1, <2>2, OrderFacts, Zenon
  <2>4. q \in Seq(Slots) /\ IsInjective(q)
    BY <1>1, <2>3, QueueFacts, Zenon
  <2>5. IsWithout(Retain(q, i), q, i)
    <3> HIDE DEF q, i
    <3>1. PICK n \in DOMAIN q : q[n] = i
      BY <2>3
    <3>2. IsWithout(Retain(q, q[n]), q, q[n])
      BY <2>4, RetainDropsSlot, Zenon
    <3> QED BY <3>1, <3>2
  <2>6. book' = [book EXCEPT ![o.side] = SetQueue(@, o.price, Retain(q, i))]
    BY <2>1, <2>3, Zenon
  <2> HIDE DEF i
  <2>7. Structure'
    <3>1. SlotRemoved(i, Retain(q, i))
      BY <2>1, <2>2, <2>5, <2>6, Zenon DEF SlotRemoved
    <3> QED BY <1>1, <3>1, RemoveSlot, Zenon
  <2>8. /\ DOMAIN store' = DOMAIN store \ {i}
        /\ \A j \in DOMAIN store' : store'[j] = store[j]
    BY <2>1 DEF SlabRemove, Without
  <2>9. /\ DOMAIN index' = DOMAIN index \ {id}
        /\ \A x \in DOMAIN index' : index'[x] = index[x]
        /\ index' \in [DOMAIN index' -> Slots]
    BY <1>1, <2>1 DEF Bookkeeping, Without
  <2>10. events' \in Seq(EngineEvent)
    <3>1. OrderCancelled(id) \in EngineEvent
      BY <1>1, <2>2 DEF Bookkeeping, OrderCancelled, EngineEvent
    <3> QED BY <2>1, <3>1
  <2>11. RestingOrdersCanBeCancelled'
    BY <1>1, <2>8, <2>9 DEF Bookkeeping, RestingOrdersCanBeCancelled, i
  <2>12. Bookkeeping'
    BY <1>1, <2>1, <2>9, <2>10, <2>11, SMTT(30) DEF Bookkeeping, FreshTaker, RoomForTaker
  <2> QED BY <2>7, <2>12, IndInvSplits, Zenon
<1>3. CASE ~Cancellable(id, user)
  <2>1. events' = <<>> /\ UNCHANGED <<store, free, book, index, taker, used>>
    BY <1>3 DEF Cancel
  <2>2. Structure'
    BY <1>1, <2>1, StructureUnchanged
  <2>3. events' \in Seq(EngineEvent)
    BY <2>1
  <2>4. Bookkeeping'
    BY <1>1, <2>1, <2>3 DEF Bookkeeping, RestingOrdersCanBeCancelled, FreshTaker, RoomForTaker
  <2> QED BY <2>2, <2>4, IndInvSplits, SMTT(30)
<1> QED BY <1>2, <1>3

\* Every step of the book keeps the inductive invariant.
LEMMA NextKeeps == IndInv /\ [Next]_vars => IndInv'
<1> SUFFICES ASSUME IndInv, [Next]_vars PROVE IndInv'
  OBVIOUS
<1>1. ASSUME NEW o \in Request, StartPlace(o) PROVE IndInv'
  BY <1>1, StartPlaceKeeps
<1>2. ASSUME NEW price \in Prices, NEW i \in Slots, CancelSelfTrade(price, i) PROVE IndInv'
  BY <1>2, CancelSelfTradeKeeps
<1>3. ASSUME NEW price \in Prices, NEW i \in Slots, Trade(price, i) PROVE IndInv'
  BY <1>3, TradeKeeps
<1>4. CASE Rest
  BY <1>4, RestKeeps
<1>5. CASE Filled
  <2>1. Structure /\ Bookkeeping
    BY IndInvSplits
  <2>2. taker' = NoTaker /\ UNCHANGED <<store, free, book, index, events, used>>
    BY <1>5 DEF Filled
  <2>3. Structure'
    BY <2>1, <2>2, StructureUnchanged
  <2>4. Bookkeeping'
    BY <2>1, <2>2 DEF Bookkeeping, RestingOrdersCanBeCancelled, FreshTaker, RoomForTaker
  <2> QED BY <2>3, <2>4, IndInvSplits
<1>6. ASSUME NEW id \in OrderIds, NEW user \in Users, Cancel(id, user) PROVE IndInv'
  BY <1>6, CancelKeeps
<1>7. CASE UNCHANGED vars
  <2>1. Structure /\ Bookkeeping
    BY IndInvSplits
  <2>2. Structure'
    BY <1>7, <2>1, StructureUnchanged DEF vars
  <2>3. Bookkeeping'
    BY <1>7, <2>1 DEF vars, Bookkeeping, RestingOrdersCanBeCancelled, FreshTaker, RoomForTaker
  <2> QED BY <2>2, <2>3, IndInvSplits
<1> QED BY <1>1, <1>2, <1>3, <1>4, <1>5, <1>6, <1>7 DEF Next, Match

\* The order book keeps its inductive invariant, whatever its clients send.
THEOREM BookInvariant == Spec => []IndInv
BY InitEstablishes, NextKeeps, PTL DEF Spec

\* The fields of OrderBook keep their types.
THEOREM BookTypes == Spec => []TypeOK
<1>1. IndInv => TypeOK
  BY DEF IndInv
<1> QED BY <1>1, BookInvariant, PTL

\* Queues and slab agree: the matching loop never meets a stale slot.
THEOREM QueuesNeverStale == Spec => []QueuesMatchStore
<1>1. IndInv => QueuesMatchStore
  BY DEF IndInv
<1> QED BY <1>1, BookInvariant, PTL

\* The book is never crossed.
THEOREM BookNeverCrossed == Spec => []NotCrossed
<1>1. IndInv => NotCrossed
  BY DEF IndInv
<1> QED BY <1>1, BookInvariant, PTL

\* Clients that never reuse an order id can cancel whatever they have resting.
THEOREM OwnersCanCancel == Spec => []RestingOrdersCanBeCancelled
<1>1. IndInv => RestingOrdersCanBeCancelled
  BY DEF IndInv
<1> QED BY <1>1, BookInvariant, PTL

\* place_limit_order ends, whatever rests in the book: each iteration of its loop
\* lowers the taker's quantity or removes a resting order, and none adds one.
THEOREM MatchingEnds == Spec => MatchingProgresses
<1> DEFINE Progress == taker # NoTaker /\ taker' # NoTaker =>
             /\ DOMAIN store' \subseteq DOMAIN store
             /\ \/ taker'.quantity < taker.quantity
                \/ taker' = taker /\ DOMAIN store' # DOMAIN store
<1>1. IndInv /\ [Next]_vars => [Progress]_vars
  <2> SUFFICES ASSUME IndInv, Next, taker # NoTaker, taker' # NoTaker
               PROVE  Progress
    OBVIOUS
  <2>1. ASSUME NEW price \in Prices, NEW i \in Slots, CancelSelfTrade(price, i)
        PROVE  Progress
    <3>1. i \in DOMAIN store /\ store' = Without(store, i) /\ taker' = taker
      BY <2>1 DEF CancelSelfTrade, Meets, PopMaker, SlabRemove
    <3>2. DOMAIN store' = DOMAIN store \ {i}
      BY <3>1 DEF Without
    <3> QED BY <3>1, <3>2, SMTT(30)
  <2>2. ASSUME NEW price \in Prices, NEW i \in Slots, Trade(price, i)
        PROVE  Progress
    <3> DEFINE quantity == IF taker.quantity <= store[i].quantity
                             THEN taker.quantity ELSE store[i].quantity
    <3>1. i \in DOMAIN store /\ taker \in Order /\ taker.quantity > 0
      BY <2>2, Zenon DEF Trade, Meets, IndInv, TypeOK
    <3>2. store[i] \in Order /\ store[i].quantity > 0
      BY <3>1 DEF IndInv, TypeOK, StoreTypeOK, RestingOrdersAreOpen
    <3>3. quantity \in Nat /\ quantity > 0 /\ taker.quantity \in Nat
      BY <3>1, <3>2 DEF Order
    <3>4. /\ taker' = [taker EXCEPT !.quantity = @ - quantity]
          /\ \/ store' = Without(store, i)
             \/ store' = [store EXCEPT ![i].quantity = @ - quantity]
      BY <2>2 DEF Trade, PopMaker, SlabRemove
    <3> HIDE DEF quantity
    <3>5. taker'.quantity < taker.quantity
      BY <3>1, <3>3, <3>4 DEF Order
    <3>6. DOMAIN store' \subseteq DOMAIN store
      BY <3>4 DEF Without
    <3> QED BY <3>5, <3>6, Zenon
  <2>3. ~ (\E o \in Request : StartPlace(o)) /\ ~ Rest /\ ~ Filled
    BY SMTT(30) DEF StartPlace, Rest, Filled
  <2>4. ~ (\E id \in OrderIds, user \in Users : Cancel(id, user))
    BY DEF Cancel
  <2> QED BY <2>1, <2>2, <2>3, <2>4 DEF Next, Match
<1> QED BY <1>1, BookInvariant, PTL DEF Spec, MatchingProgresses

-----------------------------------------------------------------------------
(***************************************************************************)
(* Price-time priority                                                     *)
(***************************************************************************)

\* The queue at a price, whether there is a level or not.
LEMMA QueueAtFacts ==
  ASSUME Structure, NEW t \in Side, NEW x \in Prices
  PROVE  /\ QueueAt(book[t], x) \in Seq(Slots)
         /\ QueueAt(book[t], x) # <<>> <=> x \in DOMAIN book[t]
         /\ \A n \in 1 .. Len(QueueAt(book[t], x)) :
              /\ QueueAt(book[t], x)[n] \in DOMAIN store
              /\ store[QueueAt(book[t], x)[n]] \in Order
              /\ store[QueueAt(book[t], x)[n]].side = t
              /\ store[QueueAt(book[t], x)[n]].price = x
<1>1. CASE x \in DOMAIN book[t]
  <2>1. QueueAt(book[t], x) = book[t][x]
    BY <1>1 DEF QueueAt
  <2>2. /\ book[t][x] \in Seq(Slots) /\ book[t][x] # <<>>
        /\ \A n \in DOMAIN book[t][x] : /\ book[t][x][n] \in DOMAIN store
                                        /\ store[book[t][x][n]].side = t
                                        /\ store[book[t][x][n]].price = x
    BY <1>1, QueueFacts
  <2>3. DOMAIN book[t][x] = 1 .. Len(book[t][x])
    BY <2>2
  <2>4. \A j \in DOMAIN store : store[j] \in Order
    BY DEF Structure, StoreTypeOK
  <2> QED BY <1>1, <2>1, <2>2, <2>3, <2>4
<1>2. CASE x \notin DOMAIN book[t]
  <2>1. QueueAt(book[t], x) = <<>>
    BY <1>2 DEF QueueAt
  <2>2. QueueAt(book[t], x) \in Seq(Slots) /\ Len(QueueAt(book[t], x)) = 0
    BY <2>1
  <2> QED BY <1>2, <2>1, <2>2
<1> QED BY <1>1, <1>2

\* The line of orders in the slots of a queue.
LEMMA LineFacts ==
  ASSUME Structure, NEW t \in Side, NEW x \in Prices
  PROVE  /\ Resting[t][x] \in Seq(Order)
         /\ Len(Resting[t][x]) = Len(QueueAt(book[t], x))
         /\ \A n \in 1 .. Len(QueueAt(book[t], x)) :
              Resting[t][x][n] = store[QueueAt(book[t], x)[n]]
         /\ Resting[t][x] # <<>> <=> x \in DOMAIN book[t]
<1> DEFINE q == QueueAt(book[t], x)
<1>1. Resting[t][x] = Line(q)
  BY DEF Resting
<1>2. /\ q \in Seq(Slots) /\ (q # <<>> <=> x \in DOMAIN book[t])
      /\ \A n \in 1 .. Len(q) : store[q[n]] \in Order
  BY QueueAtFacts
<1> HIDE DEF q
<1>3. Len(q) \in Nat
  BY <1>2
<1>4. Line(q) \in [1 .. Len(q) -> Order]
  BY <1>2 DEF Line
<1>5. Line(q) \in Seq(Order) /\ Len(Line(q)) = Len(q)
  BY <1>3, <1>4
<1>6. Line(q) # <<>> <=> q # <<>>
  BY <1>2, <1>5
<1> QED BY <1>1, <1>2, <1>5, <1>6 DEF q, Line

\* The line at one price becomes another one if the queues and orders at the others are
\* the same.
LEMMA LineBecomes ==
  ASSUME NEW s \in Side, NEW p \in Prices, NEW line,
         Line(QueueAt(book[s], p))' = line,
         \A t \in Side, x \in Prices : t # s \/ x # p =>
           Line(QueueAt(book[t], x))' = Line(QueueAt(book[t], x))
  PROVE  Resting' = [Resting EXCEPT ![s][p] = line]
<1>1. /\ Resting = [t \in Side |-> [x \in Prices |-> Line(QueueAt(book[t], x))]]
      /\ Resting' = [t \in Side |-> [x \in Prices |-> Line(QueueAt(book[t], x))']]
  BY DEF Resting
<1> DEFINE New == [Resting EXCEPT ![s][p] = line]
<1>2. /\ New \in [Side -> [Prices -> {New[t][x] : t \in Side, x \in Prices}]]
      /\ \A t \in Side, x \in Prices :
           New[t][x] = IF t = s /\ x = p THEN line ELSE Line(QueueAt(book[t], x))
  BY <1>1
<1> QED BY <1>1, <1>2, Zenon

\* The orders of a queue are at its price.
LEMMA QueueOrders ==
  ASSUME Structure, NEW t \in Side, NEW x \in Prices, NEW n \in 1 .. Len(QueueAt(book[t], x))
  PROVE  LET i == QueueAt(book[t], x)[n]
         IN i \in DOMAIN store /\ store[i].side = t /\ store[i].price = x
<1> DEFINE q == QueueAt(book[t], x)
<1>1. \A m \in 1 .. Len(q) : /\ q[m] \in DOMAIN store /\ store[q[m]] \in Order
                             /\ store[q[m]].side = t /\ store[q[m]].price = x
  BY QueueAtFacts, SMTT(30)
<1> HIDE DEF q
<1>2. n \in 1 .. Len(q)
  BY Zenon DEF q
<1>3. q[n] \in DOMAIN store /\ store[q[n]].side = t /\ store[q[n]].price = x
  BY <1>1, <1>2, Zenon
<1> QED BY <1>3, Zenon DEF q

\* A line is the same if its queue is and its orders are.
LEMMA SameLine ==
  ASSUME Structure, NEW t \in Side, NEW x \in Prices,
         QueueAt(book[t], x)' = QueueAt(book[t], x),
         \A j \in DOMAIN store : store[j].side = t /\ store[j].price = x => store'[j] = store[j]
  PROVE  Line(QueueAt(book[t], x))' = Line(QueueAt(book[t], x))
<1> DEFINE q == QueueAt(book[t], x)
<1>1. ASSUME NEW n \in 1 .. Len(q) PROVE store'[q[n]] = store[q[n]]
  <2>1. q[n] \in DOMAIN store /\ store[q[n]].side = t /\ store[q[n]].price = x
    BY QueueOrders, SMTT(30)
  <2> HIDE DEF q
  <2> QED BY <2>1, Zenon
<1>2. Line(QueueAt(book[t], x))' = [n \in 1 .. Len(q) |-> store'[q[n]]]
  BY DEF Line
<1> HIDE DEF q
<1>3. Line(q) = [n \in 1 .. Len(q) |-> store'[q[n]]]
  BY <1>1 DEF Line
<1> QED BY <1>2, <1>3 DEF q

\* pop_front cuts out the first element.
LEMMA TailIsCut ==
  ASSUME NEW S, NEW q \in Seq(S), q # <<>>
  PROVE  1 \in DOMAIN q /\ Head(q) = q[1] /\ Tail(q) = Cut(q, 1)
<1>1. Len(q) \in Nat \ {0} /\ DOMAIN q = 1 .. Len(q)
  OBVIOUS
<1>2. /\ Tail(q) \in Seq(S) /\ Len(Tail(q)) = Len(q) - 1
      /\ \A n \in 1 .. Len(Tail(q)) : Tail(q)[n] = q[n + 1]
  OBVIOUS
<1>3. 1 \in DOMAIN q /\ Head(q) = q[1]
  BY <1>1
<1>4. /\ Cut(q, 1) \in Seq(S) /\ Len(Cut(q, 1)) = Len(q) - 1
      /\ \A n \in 1 .. Len(q) - 1 : Cut(q, 1)[n] = IF n < 1 THEN q[n] ELSE q[n + 1]
  BY <1>3, CutOut
<1>5. \A n \in 1 .. Len(Tail(q)) : Tail(q)[n] = Cut(q, 1)[n]
  BY <1>1, <1>2, <1>4
<1> QED BY <1>2, <1>3, <1>4, <1>5

\* When a slot leaves the slab and its queue, its order leaves its line.
LEMMA LineWithout ==
  ASSUME Structure, NEW s \in Side, NEW p \in Prices, NEW i \in DOMAIN store,
         store[i].side = s, store[i].price = p,
         NEW k \in DOMAIN book[s][p], book[s][p][k] = i,
         SlotRemoved(i, Cut(book[s][p], k))
  PROVE  /\ k \in DOMAIN Resting[s][p]
         /\ Resting' = [Resting EXCEPT ![s][p] = Cut(Resting[s][p], k)]
<1> DEFINE q == book[s][p]
           r == Cut(q, k)
           line == Resting[s][p]
<1>1. p \in DOMAIN book[s]
  BY OrderFacts
<1>2. /\ q \in Seq(Slots) /\ IsInjective(q) /\ q[k] = i /\ k \in DOMAIN q
      /\ QueueAt(book[s], p) = q
  BY <1>1, QueueFacts DEF QueueAt
<1>3. /\ book' = [book EXCEPT ![s] = SetQueue(@, p, r)]
      /\ store' = Without(store, i)
  BY DEF SlotRemoved, SlabRemove
<1>4. DOMAIN book = Side
  BY DEF Structure, BookTypeOK
<1>5. line \in Seq(Order) /\ Len(line) = Len(q) /\ \A n \in 1 .. Len(q) : line[n] = store[q[n]]
  BY <1>2, LineFacts
<1>6. \A n \in 1 .. Len(q) : q[n] \in DOMAIN store
  BY <1>2, QueueAtFacts
<1> HIDE DEF q, line
<1>7. /\ r \in Seq(Slots) /\ Len(r) = Len(q) - 1
      /\ \A n \in 1 .. Len(q) - 1 : r[n] = IF n < k THEN q[n] ELSE q[n + 1]
  BY <1>2, CutOut
<1>8. Len(q) \in Nat /\ DOMAIN q = 1 .. Len(q) /\ DOMAIN line = 1 .. Len(q)
  BY <1>2, <1>5
<1>9. /\ Cut(line, k) \in Seq(Order) /\ Len(Cut(line, k)) = Len(q) - 1
      /\ \A n \in 1 .. Len(q) - 1 : Cut(line, k)[n] = IF n < k THEN line[n] ELSE line[n + 1]
  <2>1. k \in DOMAIN line
    BY <1>2, <1>8
  <2> QED BY <1>5, <2>1, CutOut
<1>10. \A j \in DOMAIN store : j # i => store'[j] = store[j]
  BY <1>3 DEF Without
<1>11. ASSUME NEW n \in 1 .. Len(q) - 1
       PROVE  store'[r[n]] = Cut(line, k)[n]
  <2>1. CASE n < k
    <3>1. n \in DOMAIN q /\ n # k /\ r[n] = q[n] /\ Cut(line, k)[n] = line[n]
      BY <1>7, <1>8, <1>9, <2>1, SMTT(30)
    <3>2. q[n] # i
      BY <1>2, <3>1 DEF IsInjective
    <3> QED BY <1>5, <1>6, <1>8, <1>10, <3>1, <3>2
  <2>2. CASE ~ (n < k)
    <3>1. /\ n + 1 \in DOMAIN q /\ n + 1 # k /\ r[n] = q[n + 1]
          /\ Cut(line, k)[n] = line[n + 1]
      BY <1>2, <1>7, <1>8, <1>9, <2>2
    <3>2. q[n + 1] # i
      BY <1>2, <3>1 DEF IsInjective
    <3> QED BY <1>5, <1>6, <1>8, <1>10, <3>1, <3>2
  <2> QED BY <2>1, <2>2
<1> HIDE DEF r
<1>12. book'[s] = SetQueue(book[s], p, r) /\ \A t \in Side : t # s => book'[t] = book[t]
  BY <1>3, <1>4
<1>13. QueueAt(book[s], p)' = r
  BY <1>12 DEF QueueAt, SetQueue, With, Without
<1>14. Line(QueueAt(book[s], p))' = Cut(line, k)
  <2>1. Line(QueueAt(book[s], p))' = [n \in 1 .. Len(q) - 1 |-> store'[r[n]]]
    BY <1>7, <1>13 DEF Line
  <2>2. Cut(line, k) = [n \in 1 .. Len(q) - 1 |-> Cut(line, k)[n]]
    BY <1>8, <1>9
  <2> QED BY <1>11, <2>1, <2>2
<1>15. ASSUME NEW t \in Side, NEW x \in Prices, t # s \/ x # p
       PROVE  Line(QueueAt(book[t], x))' = Line(QueueAt(book[t], x))
  <2>1. QueueAt(book[t], x)' = QueueAt(book[t], x)
    BY <1>12, <1>15 DEF QueueAt, SetQueue, With, Without
  <2>2. \A j \in DOMAIN store : store[j].side = t /\ store[j].price = x => store'[j] = store[j]
    BY <1>10, <1>15
  <2> QED BY <2>1, <2>2, SameLine
<1>16. Resting' = [Resting EXCEPT ![s][p] = Cut(line, k)]
  BY <1>14, <1>15, LineBecomes
<1> QED BY <1>2, <1>8, <1>16 DEF line

\* The slab holds `maker` in slot i; the queues stay.
SlotUpdated(i, maker) == store' = [store EXCEPT ![i] = maker] /\ book' = book

\* A maker that is filled in part keeps its place.
LEMMA LineFilled ==
  ASSUME Structure, NEW s \in Side, NEW p \in Prices, NEW i \in DOMAIN store,
         store[i].side = s, store[i].price = p, i = Head(book[s][p]),
         NEW maker \in Order, SlotUpdated(i, maker)
  PROVE  Resting' = [Resting EXCEPT ![s][p] = <<maker>> \o Tail(Resting[s][p])]
<1> DEFINE q == book[s][p]
           line == Resting[s][p]
           new == <<maker>> \o Tail(line)
<1>1. p \in DOMAIN book[s]
  BY OrderFacts
<1>2. /\ q \in Seq(Slots) /\ IsInjective(q) /\ q # <<>>
      /\ QueueAt(book[s], p) = q
  BY <1>1, QueueFacts DEF QueueAt
<1>3. /\ line \in Seq(Order) /\ Len(line) = Len(q) /\ line # <<>>
      /\ \A n \in 1 .. Len(q) : line[n] = store[q[n]]
  BY <1>1, <1>2, LineFacts
<1>4. \A n \in 1 .. Len(q) : q[n] \in DOMAIN store
  BY <1>2, QueueAtFacts
<1>5. q[1] = i
  BY <1>2, TailIsCut
<1> HIDE DEF q, line
<1>6. Len(q) \in Nat \ {0} /\ DOMAIN q = 1 .. Len(q)
  BY <1>2
<1>7. maker \in Order
  OBVIOUS
<1>8. /\ book' = book
      /\ \A j \in DOMAIN store : store'[j] = IF j = i THEN maker ELSE store[j]
  BY DEF SlotUpdated, Structure, StoreTypeOK
<1>9. /\ Tail(line) \in Seq(Order) /\ Len(Tail(line)) = Len(q) - 1
      /\ \A n \in 1 .. Len(Tail(line)) : Tail(line)[n] = line[n + 1]
  BY <1>3
<1>10. <<maker>> \in Seq(Order) /\ Len(<<maker>>) = 1 /\ <<maker>>[1] = maker
  BY <1>7
<1>11. /\ new \in Seq(Order) /\ Len(new) = 1 + Len(Tail(line))
       /\ \A n \in 1 .. 1 + Len(Tail(line)) :
            new[n] = IF n <= 1 THEN <<maker>>[n] ELSE Tail(line)[n - 1]
  <2> HIDE DEF new
  <2>1. /\ new \in Seq(Order) /\ Len(new) = Len(<<maker>>) + Len(Tail(line))
        /\ \A n \in 1 .. Len(<<maker>>) + Len(Tail(line)) :
             new[n] = IF n <= Len(<<maker>>) THEN <<maker>>[n] ELSE Tail(line)[n - Len(<<maker>>)]
    BY <1>9, <1>10 DEF new
  <2> QED BY <1>10, <2>1
<1> HIDE DEF new
<1>12. Len(new) = Len(q) /\ new = [n \in 1 .. Len(q) |-> new[n]]
  BY <1>6, <1>9, <1>11
<1>13. ASSUME NEW n \in 1 .. Len(q)
       PROVE  store'[q[n]] = new[n]
  <2>1. CASE n = 1
    <3>1. 1 \in 1 .. 1 + Len(Tail(line))
      BY <1>6, <1>9
    <3>2. new[1] = maker
      BY <1>10, <1>11, <3>1
    <3> QED BY <1>5, <1>8, <2>1, <3>2
  <2>2. CASE n # 1
    <3>1. /\ n \in 1 .. 1 + Len(Tail(line)) /\ ~ (n <= 1)
          /\ n - 1 \in 1 .. Len(Tail(line)) /\ (n - 1) + 1 = n
      BY <1>6, <1>9, <2>2
    <3>2. new[n] = line[n]
      BY <1>9, <1>11, <3>1
    <3>3. q[n] # i
      BY <1>2, <1>5, <1>6, <2>2 DEF IsInjective
    <3> QED BY <1>3, <1>4, <1>8, <3>2, <3>3
  <2> QED BY <2>1, <2>2
<1>14. Line(QueueAt(book[s], p))' = new
  <2>1. QueueAt(book[s], p)' = q
    BY <1>2, <1>8 DEF QueueAt
  <2>2. Line(QueueAt(book[s], p))' = [n \in 1 .. Len(q) |-> store'[q[n]]]
    BY <2>1 DEF Line
  <2> QED BY <1>12, <1>13, <2>2
<1>15. ASSUME NEW t \in Side, NEW x \in Prices, t # s \/ x # p
       PROVE  Line(QueueAt(book[t], x))' = Line(QueueAt(book[t], x))
  <2>1. QueueAt(book[t], x)' = QueueAt(book[t], x)
    BY <1>8 DEF QueueAt
  <2>2. \A j \in DOMAIN store : store[j].side = t /\ store[j].price = x => store'[j] = store[j]
    BY <1>8, <1>15
  <2> QED BY <2>1, <2>2, SameLine
<1>16. Resting' = [Resting EXCEPT ![s][p] = new]
  BY <1>14, <1>15, LineBecomes
<1> QED BY <1>16 DEF new, line

\* An order that comes to rest goes to the back of its line.
LEMMA LineWith ==
  ASSUME Structure, NEW o \in Order, NEW s \in Side, NEW p \in Prices, o.side = s, o.price = p,
         SlotInserted(o)
  PROVE  Resting' = [Resting EXCEPT ![s][p] = Append(Resting[s][p], o)]
<1> DEFINE i == Head(free)
           q == QueueAt(book[s], p)
           r == Append(q, i)
           line == Resting[s][p]
           new == Append(line, o)
<1>1. /\ i \in Slots \ DOMAIN store
      /\ store'[i] = o
      /\ \A j \in DOMAIN store : store'[j] = store[j]
  BY SlabInsertTakesVacant DEF SlotInserted, Structure
<1>2. book' = [book EXCEPT ![s] = With(@, p, Append(QueueAt(@, p), i))] /\ DOMAIN book = Side
  BY DEF SlotInserted, Structure, BookTypeOK
<1>3. q \in Seq(Slots) /\ \A n \in 1 .. Len(q) : q[n] \in DOMAIN store
  BY QueueAtFacts
<1>4. line \in Seq(Order) /\ Len(line) = Len(q) /\ \A n \in 1 .. Len(q) : line[n] = store[q[n]]
  BY LineFacts
<1>5. book'[s] = With(book[s], p, r) /\ \A t \in Side : t # s => book'[t] = book[t]
  BY <1>2
<1> HIDE DEF i, q, line
<1>6. /\ r \in Seq(Slots) /\ Len(r) = Len(q) + 1
      /\ \A n \in 1 .. Len(q) : r[n] = q[n]
      /\ r[Len(q) + 1] = i
  BY <1>1, <1>3
<1>7. /\ new \in Seq(Order) /\ Len(new) = Len(q) + 1
      /\ \A n \in 1 .. Len(q) : new[n] = line[n]
      /\ new[Len(q) + 1] = o
  BY <1>4
<1> HIDE DEF r, new
<1>8. QueueAt(book[s], p)' = r
  BY <1>5 DEF QueueAt, With
<1>9. Len(q) \in Nat
  BY <1>3
<1>10. \A n \in 1 .. Len(q) + 1 : store'[r[n]] = new[n]
  <2>1. \A n \in 1 .. Len(q) + 1 : n \in 1 .. Len(q) \/ n = Len(q) + 1
    BY <1>9
  <2> QED BY <1>1, <1>3, <1>4, <1>6, <1>7, <2>1
<1>11. Line(QueueAt(book[s], p))' = new
  <2>1. Line(QueueAt(book[s], p))' = [n \in 1 .. Len(q) + 1 |-> store'[r[n]]]
    BY <1>6, <1>8 DEF Line
  <2>2. new = [n \in 1 .. Len(q) + 1 |-> new[n]]
    BY <1>7, <1>9, SMTT(30)
  <2> QED BY <1>10, <2>1, <2>2
<1>12. ASSUME NEW t \in Side, NEW x \in Prices, t # s \/ x # p
       PROVE  Line(QueueAt(book[t], x))' = Line(QueueAt(book[t], x))
  <2>1. QueueAt(book[t], x)' = QueueAt(book[t], x)
    BY <1>5, <1>12 DEF QueueAt, With
  <2> QED BY <1>1, <2>1, SameLine
<1> QED BY <1>11, <1>12, LineBecomes DEF new, line

\* Both specifications have one idea of sides and prices.
LEMMA SameSides ==
  /\ \A side : Promise!Other(side) = Opposite(side)
  /\ \A side, p, q : Promise!AtLeastAsGood(side, p, q) <=> IsMatchable(side, p, q)
  /\ \A side \in Side : Opposite(side) \in Side
BY SMTT(30) DEF Promise!Other, Opposite, Promise!AtLeastAsGood, IsMatchable, Side

\* The order that the matching loop meets is the one that serves the taker.
LEMMA MeetsMaker ==
  ASSUME Structure, taker \in Order, NEW price \in Prices, NEW i, Meets(price, i)
  PROVE  /\ Promise!Serves(price) /\ Promise!Maker(price) = store[i]
         /\ Opposite(taker.side) \in Side
         /\ i = Head(book[Opposite(taker.side)][price])
         /\ Resting[Opposite(taker.side)][price] \in Seq(Order)
         /\ Resting[Opposite(taker.side)][price] # <<>>
<1> DEFINE t == Opposite(taker.side)
           q == book[t][price]
<1>1. /\ t \in Side /\ price \in DOMAIN book[t] /\ i = Head(q)
      /\ taker # NoTaker /\ taker.quantity > 0 /\ IsMatchable(taker.side, price, taker.price)
      /\ \A p \in DOMAIN book[t] : IsMatchable(taker.side, price, p)
  BY SameSides DEF Order, Meets, IsBest
<1>2. \A p \in Prices : Resting[t][p] # <<>> <=> p \in DOMAIN book[t]
  BY <1>1, LineFacts, SMTT(30)
<1>3. Promise!Serves(price)
  BY <1>1, <1>2, SameSides, SMTT(30) DEF Promise!Serves
<1>4. q \in Seq(Slots) /\ q # <<>> /\ QueueAt(book[t], price) = q
  BY <1>1, QueueFacts, SMTT(30) DEF QueueAt
<1>5. /\ Resting[t][price] \in Seq(Order) /\ Resting[t][price] # <<>>
      /\ Len(Resting[t][price]) = Len(q)
      /\ \A n \in 1 .. Len(q) : Resting[t][price][n] = store[q[n]]
  BY <1>1, <1>4, LineFacts
<1>6. q[1] = i /\ 1 \in 1 .. Len(q)
  <2>1. DOMAIN q = 1 .. Len(q)
    BY <1>4, SMTT(30)
  <2> QED BY <1>1, <1>4, <2>1, TailIsCut
<1>7. Head(Resting[t][price]) = store[i]
  BY <1>5, <1>6, TailIsCut
<1>8. Promise!Maker(price) = store[i]
  BY <1>7, SameSides DEF Promise!Maker
<1> QED BY <1>1, <1>3, <1>5, <1>8

\* pop_front takes the maker from the front of its line.
LEMMA LinePopped ==
  ASSUME Structure, taker \in Order, NEW price \in Prices, NEW i, Meets(price, i),
         PopMaker(price, i)
  PROVE  Resting' = [Resting EXCEPT ![Opposite(taker.side)][price] =
                       Tail(Resting[Opposite(taker.side)][price])]
<1> DEFINE t == Opposite(taker.side)
<1>1. /\ i \in DOMAIN store /\ store[i].side = t /\ store[i].price = price
      /\ IsWithout(Tail(book[store[i].side][store[i].price]),
                   book[store[i].side][store[i].price], i)
  BY MeetsFront
<1>2. /\ t \in Side /\ i = Head(book[t][price])
      /\ Resting[t][price] \in Seq(Order) /\ Resting[t][price] # <<>>
  BY MeetsMaker
<1>3. SlotRemoved(i, Tail(book[t][price]))
  BY <1>1 DEF PopMaker, SlotRemoved
<1>4. price \in DOMAIN book[t]
  BY SMTT(30) DEF Meets, IsBest
<1>5. book[t][price] \in Seq(Slots) /\ book[t][price] # <<>>
  BY <1>2, <1>4, QueueFacts
<1>6. /\ 1 \in DOMAIN book[t][price] /\ book[t][price][1] = i
      /\ Tail(book[t][price]) = Cut(book[t][price], 1)
  BY <1>2, <1>5, TailIsCut, Zenon
<1>7. Tail(Resting[t][price]) = Cut(Resting[t][price], 1)
  BY <1>2, TailIsCut, Zenon
<1> HIDE DEF t
<1>8. SlotRemoved(i, Cut(book[t][price], 1))
  BY <1>3, <1>6
<1>9. Resting' = [Resting EXCEPT ![t][price] = Cut(Resting[t][price], 1)]
  BY <1>1, <1>2, <1>6, <1>8, LineWithout
<1> QED BY <1>7, <1>9, Zenon DEF t

\* What leaves slab and queues alone leaves the lines alone.
LEMMA SameLines ==
  ASSUME UNCHANGED <<store, book>>
  PROVE  Resting' = Resting
BY DEF Resting, Line, QueueAt

\* Self-trade prevention withdraws the maker.
LEMMA SelfTradeWithdraws ==
  ASSUME IndInv, NEW price \in Prices, NEW i, CancelSelfTrade(price, i)
  PROVE  Promise!Withdraw(price)
<1>1. Structure /\ taker \in Order /\ Meets(price, i) /\ PopMaker(price, i)
  BY IndInvSplits DEF CancelSelfTrade, Meets, Bookkeeping
<1>2. Promise!Serves(price) /\ Promise!Maker(price) = store[i]
  BY <1>1, MeetsMaker
<1>3. Resting' = [Resting EXCEPT ![Opposite(taker.side)][price] =
                    Tail(Resting[Opposite(taker.side)][price])]
  BY <1>1, LinePopped, SMTT(30)
<1>4. /\ store[i].user = taker.user /\ taker' = taker
      /\ events' = Append(events, [type |-> "OrderCancelled", id |-> store[i].id])
  BY DEF CancelSelfTrade, OrderCancelled
<1> QED BY <1>2, <1>3, <1>4, SameSides, Zenon DEF Promise!Withdraw, Promise!Becomes

\* A trade fills the maker, in whole or in part.
LEMMA TradeFills ==
  ASSUME IndInv, NEW price \in Prices, NEW i, Trade(price, i)
  PROVE  Promise!Fill(price)
<1> DEFINE q == IF taker.quantity <= store[i].quantity
                  THEN taker.quantity ELSE store[i].quantity
           t == Opposite(taker.side)
           behind == Tail(Resting[t][price])
<1>1. Structure /\ taker \in Order /\ Meets(price, i)
  BY IndInvSplits, Zenon DEF Trade, Meets, Bookkeeping
<1>2. /\ Promise!Serves(price) /\ Promise!Maker(price) = store[i]
      /\ t \in Side /\ i = Head(book[t][price])
  BY <1>1, MeetsMaker
<1>3. i \in DOMAIN store /\ store[i].side = t /\ store[i].price = price
  BY <1>1, MeetsFront
<1>4. /\ store[i] \in Order /\ store[i].quantity \in Nat /\ taker.quantity \in Nat
      /\ q \in Nat /\ q <= store[i].quantity
  <2>1. store[i] \in Order
    BY <1>1, <1>3 DEF Structure, StoreTypeOK
  <2> QED BY <1>1, <2>1 DEF Order
<1>5. /\ store[i].user # taker.user
      /\ events' = Append(events, [type |-> "TradeExecuted", maker_id |-> store[i].id,
                                   taker_id |-> taker.id, price |-> price, quantity |-> q])
      /\ taker' = [taker EXCEPT !.quantity = @ - q]
      /\ IF store[i].quantity = q
           THEN PopMaker(price, i)
           ELSE /\ store' = [store EXCEPT ![i].quantity = @ - q]
                /\ UNCHANGED <<free, book>>
  BY <1>3 DEF Trade, TradeExecuted
<1> HIDE DEF q
<1>6. Resting' = [Resting EXCEPT ![t][price] =
                    IF q = store[i].quantity THEN behind
                      ELSE <<[store[i] EXCEPT !.quantity = @ - q]>> \o behind]
  <2>1. CASE store[i].quantity = q
    BY <1>1, <1>5, <2>1, LinePopped, Zenon
  <2>2. CASE store[i].quantity # q
    <3>1. PICK maker \in Order : maker = [store[i] EXCEPT !.quantity = @ - q]
      <4>1. store[i].quantity - q \in Nat
        BY <1>4
      <4> QED BY <1>4, <4>1, Zenon DEF Order
    <3>2. PICK s \in Side : s = t
      BY <1>2
    <3>3. SlotUpdated(i, maker)
      BY <1>5, <2>2, <3>1 DEF SlotUpdated
    <3>4. store[i].side = s /\ i = Head(book[s][price])
      BY <1>2, <1>3, <3>2, SMTT(30)
    <3>5. Resting' = [Resting EXCEPT ![s][price] = <<maker>> \o Tail(Resting[s][price])]
      BY <1>1, <1>3, <3>3, <3>4, LineFilled
    <3> QED BY <2>2, <3>1, <3>2, <3>5, Zenon
  <2> QED BY <2>1, <2>2
<1> HIDE DEF behind
<1>7. Promise!Becomes(t, price, IF q = store[i].quantity THEN behind
                                  ELSE <<[store[i] EXCEPT !.quantity = @ - q]>> \o behind)
  BY <1>6 DEF Promise!Becomes
<1>8. Promise!Other(taker.side) = t /\ behind = Tail(Resting[Promise!Other(taker.side)][price])
  BY SameSides DEF behind
<1> HIDE DEF t
<1> QED BY <1>2, <1>5, <1>7, <1>8, Zenon DEF Promise!Fill, q

\* What remains of an order that nobody serves goes to the back of its line.
LEMMA RestQueues ==
  ASSUME IndInv, Rest
  PROVE  Promise!Queue
<1>1. Structure /\ taker \in Order /\ free # <<>>
  BY IndInvSplits DEF Rest, Bookkeeping, RoomForTaker
<1>2. /\ taker # NoTaker /\ taker.quantity > 0 /\ taker' = NoTaker
      /\ events' = Append(events, [type |-> "OrderPlaced", id |-> taker.id,
                                   quantity |-> taker.quantity])
      /\ \A p \in DOMAIN book[Opposite(taker.side)] : ~ IsMatchable(taker.side, p, taker.price)
  BY DEF Rest, OrderPlaced
<1>3. taker.side \in Side /\ taker.price \in Prices
  BY <1>1 DEF Order
<1>4. SlotInserted(taker)
  BY <1>1, Zenon DEF Rest, SlotInserted
<1>5. Resting' = [Resting EXCEPT ![taker.side][taker.price] =
                    Append(Resting[taker.side][taker.price], taker)]
  BY <1>1, <1>3, <1>4, LineWith, Zenon
<1>6. ASSUME NEW p \in Prices, Promise!Serves(p)
      PROVE  FALSE
  <2>1. /\ Resting[Opposite(taker.side)][p] # <<>>
        /\ IsMatchable(taker.side, p, taker.price)
    BY <1>6, SameSides DEF Promise!Serves
  <2>2. p \in DOMAIN book[Opposite(taker.side)]
    BY <1>1, <1>3, <2>1, LineFacts, SameSides
  <2> QED BY <1>2, <2>1, <2>2
<1> QED BY <1>2, <1>5, <1>6 DEF Promise!Queue, Promise!Becomes

\* cancel_order removes one order from its line, or none.
LEMMA CancelRemoves ==
  ASSUME IndInv, NEW id, NEW user, Cancel(id, user)
  PROVE  \/ Promise!Refuse
         \/ \E side \in Side, price \in Prices :
              \E n \in DOMAIN Resting[side][price] : Promise!Remove(side, price, n)
<1>1. Structure /\ Bookkeeping
  BY IndInvSplits
<1>2. CASE Cancellable(id, user)
  <2> DEFINE i == index[id]
             s == store[i].side
             p == store[i].price
             q == book[s][p]
  <2>1. /\ book' = [book EXCEPT ![s] =
                      IF p \in DOMAIN @ THEN SetQueue(@, p, Retain(@[p], i)) ELSE @]
        /\ SlabRemove(i)
        /\ events' = <<[type |-> "OrderCancelled", id |-> id]>>
        /\ taker' = taker /\ taker = NoTaker
    BY <1>2, Zenon DEF Cancel, OrderCancelled
  <2>2. id \in DOMAIN index /\ i \in DOMAIN store /\ id \in OrderIds
    BY <1>1, <1>2, SMTT(30) DEF Cancellable, Bookkeeping
  <2>3. /\ s \in Side /\ p \in Prices /\ p \in DOMAIN book[s] /\ \E n \in DOMAIN q : q[n] = i
    BY <1>1, <2>2, OrderFacts
  <2>4. q \in Seq(Slots) /\ IsInjective(q)
    BY <1>1, <2>3, QueueFacts, Zenon
  <2>5. PICK k \in DOMAIN q : q[k] = i
    BY <2>3, Zenon
  <2>6. Retain(q, i) = Cut(q, k) /\ IsWithout(Cut(q, k), q, i)
    <3> HIDE DEF q, i
    <3>1. Retain(q, q[k]) = Cut(q, k)
      BY <2>4, RetainCuts
    <3>2. IsWithout(Retain(q, q[k]), q, q[k])
      BY <2>4, RetainDropsSlot
    <3> QED BY <2>5, <3>1, <3>2
  <2>7. book' = [book EXCEPT ![s] = SetQueue(@, p, Retain(q, i))]
    BY <2>1, <2>3, Zenon
  <2>8. SlotRemoved(i, Cut(q, k))
    BY <2>1, <2>2, <2>6, <2>7, Zenon DEF SlotRemoved
  <2>9. store[i].side = s /\ store[i].price = p
    OBVIOUS
  <2> HIDE DEF i, s, p
  <2>10. /\ k \in DOMAIN Resting[s][p]
         /\ Resting' = [Resting EXCEPT ![s][p] = Cut(Resting[s][p], k)]
    BY <1>1, <2>2, <2>3, <2>5, <2>8, <2>9, LineWithout, SMTT(30)
  <2>11. Promise!Remove(s, p, k)
    BY <2>1, <2>2, <2>10 DEF Promise!Remove, Promise!Becomes, Cut
  <2> QED BY <2>3, <2>10, <2>11
<1>3. CASE ~ Cancellable(id, user)
  <2>1. taker = NoTaker /\ taker' = taker /\ events' = <<>> /\ UNCHANGED <<store, book>>
    BY <1>3 DEF Cancel
  <2>2. Resting' = Resting
    BY <2>1, SameLines
  <2> QED BY <2>1, <2>2, SMTT(30) DEF Promise!Refuse
<1> QED BY <1>2, <1>3

\* Every step of the book is one that price-time priority allows.
LEMMA StepsArePromised ==
  ASSUME IndInv, [Next]_vars
  PROVE  [Promise!Next]_(Promise!promised)
<1>1. ASSUME NEW o \in Request, StartPlace(o)
      PROVE  Promise!Start
  <2>1. /\ taker = NoTaker /\ taker' = o /\ events' = <<>> /\ UNCHANGED <<store, book>>
    BY <1>1 DEF StartPlace
  <2>2. o \in Promise!Asked
    BY DEF Request, Promise!Asked, Side
  <2> QED BY <2>1, <2>2, SameLines DEF Promise!Start
<1>2. CASE Match
  <2>1. PICK price \in Prices, i \in Slots : CancelSelfTrade(price, i) \/ Trade(price, i)
    BY <1>2 DEF Match
  <2>2. Promise!Withdraw(price) \/ Promise!Fill(price)
    BY <2>1, SelfTradeWithdraws, TradeFills
  <2> QED BY <2>2 DEF Promise!Next
<1>3. CASE Rest
  BY <1>3, RestQueues DEF Promise!Next
<1>4. CASE Filled
  <2>1. /\ taker # NoTaker /\ taker.quantity = 0 /\ taker' = NoTaker
        /\ UNCHANGED <<store, book, events>>
    BY <1>4 DEF Filled
  <2>2. Promise!Done
    BY <2>1, SameLines DEF Promise!Done
  <2> QED BY <2>2 DEF Promise!Next
<1>5. ASSUME NEW id \in OrderIds, NEW user \in Users, Cancel(id, user)
      PROVE  Promise!Next
  BY <1>5, CancelRemoves DEF Promise!Next, Side
<1>6. CASE UNCHANGED vars
  <2>1. UNCHANGED <<store, book, taker, events>>
    BY <1>6 DEF vars
  <2> QED BY <2>1, SameLines DEF Promise!promised
<1>7. ASSUME NEW o \in Request, StartPlace(o)
      PROVE  Promise!Next
  BY <1>1, <1>7 DEF Promise!Next
<1> QED BY <1>2, <1>3, <1>4, <1>5, <1>6, <1>7 DEF Next

\* place_limit_order and cancel_order keep price-time priority: with its slab, its levels
\* and its index the book does only what a plain line of orders at every price does, for
\* every set of ids, users, prices and quantities.
THEOREM BookKeepsPriority == Spec => KeepsPriceTimePriority
<1>1. Init => Promise!Init
  <2> SUFFICES ASSUME Init PROVE Promise!Init
    OBVIOUS
  <2>1. \A t \in Side, x \in Prices : Line(QueueAt(book[t], x)) = <<>>
    BY DEF Init, QueueAt, Line
  <2>2. Resting = [side \in {"Bid", "Ask"} |-> [p \in Prices |-> <<>>]]
    BY <2>1 DEF Resting, Side
  <2> QED BY <2>2 DEF Init, Promise!Init
<1>2. IndInv /\ [Next]_vars => [Promise!Next]_(Promise!promised)
  BY StepsArePromised
<1> QED BY <1>1, <1>2, BookInvariant, PTL DEF Spec, Promise!Spec, KeepsPriceTimePriority
=============================================================================
