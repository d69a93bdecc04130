-------------------------- MODULE SettlementProofs --------------------------
(***************************************************************************)
(* Proofs about the order flow auction and its settlement, for any         *)
(* intents, solvers and amounts and any size of the channel.               *)
(***************************************************************************)
EXTENDS Settlement, FiniteSetTheorems, TLAPS

-----------------------------------------------------------------------------
(***************************************************************************)
(* Numbers and counting                                                    *)
(***************************************************************************)

\* A set of naturals has a least element.
LEMMA Least ==
  ASSUME NEW T \in SUBSET Nat, T # {}
  PROVE  \E x \in T : \A y \in T : x <= y
<1>1. PICK x \in T : \A y \in T : ~ (<<y, x>> \in OpToRel(<, Nat))
  BY NatLessThanWellFounded, WFMin, Zenon
<1>2. \A y \in T : ~ (y < x)
  BY <1>1, Zenon DEF OpToRel
<1> QED BY <1>2

\* A set of naturals that has an upper bound has a greatest element.
LEMMA Greatest ==
  ASSUME NEW T \in SUBSET Nat, T # {}, NEW n \in Nat, \A x \in T : x <= n
  PROVE  \E x \in T : \A y \in T : x >= y
<1> DEFINE U == {k \in Nat : \A x \in T : x <= k}
<1>1. PICK k \in U : \A y \in U : k <= y
  BY Least, Zenon
<1>2. k \in T
  <2> SUFFICES ASSUME k \notin T PROVE FALSE
    OBVIOUS
  <2>1. k \in Nat /\ \A x \in T : x \in Nat /\ x < k
    OBVIOUS
  <2>2. k - 1 \in Nat
    <3>1. PICK x \in T : TRUE
      BY Zenon
    <3> QED BY <2>1, <3>1
  <2>3. k - 1 \in U
    BY <2>1, <2>2
  <2> QED BY <2>3, <1>1
<1> QED BY <1>1, <1>2

\* What is put at the end of a channel joins what was there.
LEMMA RangeOfAppend ==
  ASSUME NEW S, NEW s \in Seq(S), NEW e \in S
  PROVE  Range(Append(s, e)) = Range(s) \cup {e}
<1>1. /\ DOMAIN s = 1 .. Len(s) /\ Len(s) \in Nat
      /\ DOMAIN Append(s, e) = (1 .. Len(s)) \cup {Len(s) + 1}
      /\ \A k \in 1 .. Len(s) : Append(s, e)[k] = s[k]
      /\ Append(s, e)[Len(s) + 1] = e
  OBVIOUS
<1>2. ASSUME NEW x PROVE x \in Range(Append(s, e)) <=> x \in Range(s) \cup {e}
  BY <1>1, Zenon DEF Range
<1> QED BY <1>2

\* An empty channel has no outcome of any intent.
LEMMA OutcomesOfNone == \A i : Outcomes(<<>>, i) = 0
BY FS_EmptySet DEF Outcomes

\* The outcomes of an intent in a channel can be counted.
LEMMA OutcomesFinite ==
  ASSUME NEW s \in Seq(Event), NEW i
  PROVE  /\ IsFiniteSet({k \in DOMAIN s : s[k].intent = i})
         /\ Outcomes(s, i) \in Nat
<1>1. IsFiniteSet(1 .. Len(s)) /\ DOMAIN s = 1 .. Len(s)
  BY FS_Interval
<1>2. IsFiniteSet({k \in DOMAIN s : s[k].intent = i})
  BY <1>1, FS_Subset
<1> QED BY <1>2, FS_CardinalityType DEF Outcomes

\* An event put at the end of a channel counts for its intent.
LEMMA OutcomesOfAppend ==
  ASSUME NEW s \in Seq(Event), NEW e \in Event, NEW i
  PROVE  Outcomes(Append(s, e), i) = Outcomes(s, i) + (IF e.intent = i THEN 1 ELSE 0)
<1> DEFINE old == {k \in DOMAIN s : s[k].intent = i}
           new == {k \in DOMAIN Append(s, e) : Append(s, e)[k].intent = i}
<1>0. Outcomes(s, i) = Cardinality(old) /\ Outcomes(Append(s, e), i) = Cardinality(new)
  BY DEF Outcomes
<1>1. /\ DOMAIN s = 1 .. Len(s) /\ DOMAIN Append(s, e) = 1 .. Len(s) + 1 /\ Len(s) \in Nat
      /\ \A k \in 1 .. Len(s) : Append(s, e)[k] = s[k]
      /\ Append(s, e)[Len(s) + 1] = e
  OBVIOUS
<1>2. IsFiniteSet(old) /\ Cardinality(old) \in Nat
  BY OutcomesFinite, Zenon DEF Outcomes
<1>3. CASE e.intent = i
  <2>1. new = old \cup {Len(s) + 1} /\ Len(s) + 1 \notin old
    BY <1>1, <1>3
  <2> HIDE DEF old, new
  <2>2. Cardinality(old \cup {Len(s) + 1}) = Cardinality(old) + 1
    BY <1>2, <2>1, FS_AddElement, Zenon
  <2> QED BY <1>0, <1>3, <2>1, <2>2
<1>4. CASE e.intent # i
  <2>1. new = old
    BY <1>1, <1>4
  <2> HIDE DEF old, new
  <2> QED BY <1>0, <1>2, <1>4, <2>1
<1> QED BY <1>3, <1>4

\* An event taken from the head of a channel no longer counts for its intent.
LEMMA OutcomesOfTail ==
  ASSUME NEW s \in Seq(Event), s # <<>>, NEW i
  PROVE  Outcomes(s, i) = Outcomes(Tail(s), i) + (IF Head(s).intent = i THEN 1 ELSE 0)
<1> DEFINE old == {k \in DOMAIN s : s[k].intent = i}
           new == {k \in DOMAIN Tail(s) : Tail(s)[k].intent = i}
           shift == [k \in new |-> k + 1]
<1>0. Outcomes(s, i) = Cardinality(old) /\ Outcomes(Tail(s), i) = Cardinality(new)
  BY DEF Outcomes
<1>1. /\ DOMAIN s = 1 .. Len(s) /\ DOMAIN Tail(s) = 1 .. Len(s) - 1 /\ Len(s) \in Nat \ {0}
      /\ \A k \in 1 .. Len(s) - 1 : Tail(s)[k] = s[k + 1]
      /\ Head(s) = s[1] /\ Tail(s) \in Seq(Event)
  OBVIOUS
<1>2. IsFiniteSet(new) /\ Cardinality(new) \in Nat
  BY <1>1, OutcomesFinite, Zenon DEF Outcomes
<1>3. shift \in Bijection(new, old \ {1})
  <2>1. shift \in [new -> old \ {1}]
    BY <1>1
  <2>2. \A k \in old \ {1} : k - 1 \in new /\ shift[k - 1] = k
    BY <1>1
  <2>3. \A k, l \in new : shift[k] = shift[l] => k = l
    BY <1>1
  <2> QED BY <2>1, <2>2, <2>3, Zenon DEF Bijection, Injection, Surjection, IsInjective
<1>4. /\ IsFiniteSet(old \ {1}) /\ Cardinality(old \ {1}) = Cardinality(new)
  BY <1>2, <1>3, FS_Bijection, Zenon DEF ExistsBijection
<1>5. CASE Head(s).intent = i
  <2>1. old = (old \ {1}) \cup {1}
    BY <1>1, <1>5
  <2>2. Cardinality((old \ {1}) \cup {1}) = Cardinality(old \ {1}) + 1
    BY <1>4, FS_AddElement, Zenon
  <2>3. Cardinality(old) = Cardinality(new) + 1
    BY <2>1, <2>2, <1>4, Zenon
  <2> HIDE DEF old, new
  <2> QED BY <1>0, <2>3, <1>5
<1>6. CASE Head(s).intent # i
  <2>1. old \ {1} = old
    BY <1>1, <1>6
  <2>2. Cardinality(old) = Cardinality(new)
    BY <2>1, <1>4, Zenon
  <2> HIDE DEF old, new
  <2> QED BY <1>0, <1>2, <1>6, <2>2
<1> QED BY <1>5, <1>6

-----------------------------------------------------------------------------
(***************************************************************************)
(* Types                                                                   *)
(***************************************************************************)

\* An auction has bids, of which one is the highest.
IsAuction(auction) ==
  /\ auction = [bids |-> auction.bids, over |-> auction.over]
  /\ auction.over \in BOOLEAN
  /\ DOMAIN auction.bids # {} /\ DOMAIN auction.bids \subseteq Amounts
  /\ \A a \in DOMAIN auction.bids : auction.bids[a] \in Solvers
  /\ \E n \in Nat : \A a \in DOMAIN auction.bids : a <= n

AuctionsType ==
  /\ DOMAIN auctions \subseteq Intents
  /\ IsFiniteSet(DOMAIN auctions)
  /\ auctions = [i \in DOMAIN auctions |-> auctions[i]]
  /\ \A i \in DOMAIN auctions : IsAuction(auctions[i])
  /\ opened \in [Intents -> Nat]
  /\ bids \subseteq [intent : Intents, solver : Solvers, amount : Amounts, auction : Nat]

ChannelType ==
  /\ resolving \in Seq(Event)
  /\ outbound \in Seq(Event) /\ Len(outbound) <= Capacity
  /\ won \in Seq(Event)
  /\ settling \in Event \cup {NoEvent}
  /\ sent \subseteq Event

RollupType ==
  /\ registry \in [Keys -> {"NONE", "LOCKED", "RESOLVED"}]
  /\ root \in {InitialRoot, DummyRoot}
  /\ batches \in Nat
  /\ paused \in BOOLEAN /\ verifier \in BOOLEAN
  /\ failures \in Nat

TypeInv == AuctionsType /\ ChannelType /\ RollupType

\* The highest bid wins: Winner is an event, with a bid of the auction and none above it.
LEMMA WinnerIsHighest ==
  ASSUME AuctionsType, NEW i \in DOMAIN auctions
  PROVE  /\ Winner(i) \in Event
         /\ Winner(i).intent = i
         /\ Winner(i).amount \in DOMAIN auctions[i].bids
         /\ Winner(i).solver = auctions[i].bids[Winner(i).amount]
         /\ \A a \in DOMAIN auctions[i].bids : a <= Winner(i).amount
<1> DEFINE amounts == DOMAIN auctions[i].bids
           amount == CHOOSE a \in amounts : \A b \in amounts : a >= b
<1>1. /\ amounts \subseteq Nat /\ amounts # {} /\ amounts \subseteq Amounts
      /\ \A a \in amounts : auctions[i].bids[a] \in Solvers
      /\ \E n \in Nat : \A a \in amounts : a <= n
  BY SettlementAssumption DEF AuctionsType, IsAuction
<1> HIDE DEF amounts
<1>2. \E a \in amounts : \A b \in amounts : a >= b
  BY <1>1, Greatest, Zenon
<1>3. amount \in amounts /\ \A b \in amounts : amount >= b
  BY <1>2
<1>4. Winner(i) = [intent |-> i, solver |-> auctions[i].bids[amount], amount |-> amount]
  BY DEF Winner, amounts
<1> HIDE DEF amount
<1>5. i \in Intents
  BY DEF AuctionsType
<1> QED BY <1>1, <1>3, <1>4, <1>5 DEF Event, amounts

\* What SubmitBid makes of the auction of its intent.
LEMMA SubmitBidKeepsAuctions ==
  ASSUME AuctionsType, NEW i \in Intents, NEW s \in Solvers, NEW a \in Amounts,
         SubmitBid(i, s, a)
  PROVE  AuctionsType'
<1> DEFINE isNew == i \notin DOMAIN auctions
           known == IF isNew THEN [b \in {} |-> s] ELSE auctions[i].bids
           auction == [bids |-> [b \in DOMAIN known \cup {a} |-> IF b = a THEN s ELSE known[b]],
                       over |-> IF isNew THEN FALSE ELSE auctions[i].over]
<1>1. /\ auctions' = [j \in DOMAIN auctions \cup {i} |-> IF j = i THEN auction ELSE auctions[j]]
      /\ opened' = IF isNew THEN [opened EXCEPT ![i] = @ + 1] ELSE opened
      /\ bids' = bids \cup {[intent |-> i, solver |-> s, amount |-> a, auction |-> opened'[i]]}
  BY DEF SubmitBid
<1>2. /\ DOMAIN known \subseteq Amounts
      /\ \A b \in DOMAIN known : known[b] \in Solvers
      /\ \E n \in Nat : \A b \in DOMAIN known : b <= n
  <2>1. CASE isNew
    BY <2>1
  <2>2. CASE ~ isNew
    BY <2>2 DEF AuctionsType, IsAuction
  <2> QED BY <2>1, <2>2
<1>3. auction.over \in BOOLEAN
  BY Zenon DEF AuctionsType, IsAuction
<1>4. \E n \in Nat : \A b \in DOMAIN known \cup {a} : b <= n
  <2>1. PICK n \in Nat : \A b \in DOMAIN known : b <= n
    BY <1>2
  <2>2. a \in Nat /\ DOMAIN known \subseteq Nat
    BY <1>2, SettlementAssumption, Zenon
  <2>3. CASE a <= n
    BY <2>1, <2>3
  <2>4. CASE n <= a
    BY <2>1, <2>2, <2>4
  <2> QED BY <2>2, <2>3, <2>4
<1>5. IsAuction(auction)
  <2>1. DOMAIN auction.bids = DOMAIN known \cup {a}
    OBVIOUS
  <2>2. \A b \in DOMAIN auction.bids : auction.bids[b] \in Solvers
    BY <1>2
  <2>3. auction = [bids |-> auction.bids, over |-> auction.over]
    OBVIOUS
  <2> HIDE DEF auction, known
  <2> QED BY <1>2, <1>3, <1>4, <2>1, <2>2, <2>3, SMTT(30) DEF IsAuction
<1> HIDE DEF auction
<1>6. /\ DOMAIN auctions' = DOMAIN auctions \cup {i}
      /\ \A j \in DOMAIN auctions' : IsAuction(auctions'[j])
      /\ auctions' = [j \in DOMAIN auctions' |-> auctions'[j]]
  BY <1>1, <1>5 DEF AuctionsType
<1>7. IsFiniteSet(DOMAIN auctions')
  BY <1>6, FS_AddElement DEF AuctionsType
<1>8. opened' \in [Intents -> Nat]
  BY <1>1 DEF AuctionsType
<1>9. bids' \subseteq [intent : Intents, solver : Solvers, amount : Amounts, auction : Nat]
  BY <1>1, <1>8 DEF AuctionsType
<1> QED BY <1>6, <1>7, <1>8, <1>9 DEF AuctionsType

\* The time of an auction passes.
LEMMA ExpireKeepsAuctions ==
  ASSUME AuctionsType, NEW i \in Intents, Expire(i)
  PROVE  /\ AuctionsType'
         /\ DOMAIN auctions' = DOMAIN auctions
         /\ \A j \in DOMAIN auctions : auctions'[j].bids = auctions[j].bids
<1>1. /\ i \in DOMAIN auctions
      /\ auctions' = [auctions EXCEPT ![i].over = TRUE]
      /\ UNCHANGED <<opened, bids>>
  BY DEF Expire
<1>2. IsAuction(auctions[i])
  BY <1>1 DEF AuctionsType
<1>3. /\ DOMAIN auctions' = DOMAIN auctions
      /\ auctions' = [j \in DOMAIN auctions' |-> auctions'[j]]
      /\ \A j \in DOMAIN auctions : j # i => auctions'[j] = auctions[j]
  BY <1>1, Zenon DEF AuctionsType
<1>4. auctions'[i] = [bids |-> auctions[i].bids, over |-> TRUE]
  BY <1>1, <1>2, Zenon DEF IsAuction
<1>5. IsAuction(auctions'[i])
  BY <1>2, <1>4 DEF IsAuction
<1>6. \A j \in DOMAIN auctions' : IsAuction(auctions'[j])
  BY <1>3, <1>5 DEF AuctionsType
<1>7. \A j \in DOMAIN auctions : auctions'[j].bids = auctions[j].bids
  BY <1>3, <1>4
<1>8. AuctionsType'
  BY <1>1, <1>3, <1>6, Zenon DEF AuctionsType
<1> QED BY <1>3, <1>7, <1>8

\* resolve_auctions takes each auction that is over, once, and leaves the others.
LEMMA ResolveTakesEachOnce ==
  ASSUME AuctionsType, ResolveAuctions
  PROVE  LET over == {i \in DOMAIN auctions : auctions[i].over}
         IN /\ resolving' \in Seq(Event)
            /\ \A k \in DOMAIN resolving' : \E i \in over : resolving'[k] = Winner(i)
            /\ \A i \in over : \E k \in DOMAIN resolving' : resolving'[k] = Winner(i)
            /\ \A k, l \in DOMAIN resolving' :
                 resolving'[k].intent = resolving'[l].intent => k = l
<1> DEFINE over == {i \in DOMAIN auctions : auctions[i].over}
           D == 1 .. Cardinality(over)
<1>1. PICK order \in Bijection(D, over) : resolving' = [k \in DOMAIN order |-> Winner(order[k])]
  BY Zenon DEF ResolveAuctions
<1>2. IsFiniteSet(over)
  BY FS_Subset DEF AuctionsType
<1>3. Cardinality(over) \in Nat
  BY <1>2, FS_CardinalityType
<1>4. order \in [D -> over] /\ \A k, l \in D : k # l => order[k] # order[l]
  BY <1>1 DEF Bijection, Injection, IsInjective
<1>5. \A i \in over : Winner(i) \in Event /\ Winner(i).intent = i
  BY WinnerIsHighest
<1>6. \A i \in over : \E k \in D : order[k] = i
  BY <1>1 DEF Bijection, Surjection
<1> HIDE DEF over
<1>7. resolving' = [k \in D |-> Winner(order[k])] /\ DOMAIN resolving' = D
  BY <1>1, <1>4, SMTT(30)
<1>8. \A k \in D : resolving'[k] = Winner(order[k]) /\ order[k] \in over
  BY <1>4, <1>7
<1>9. resolving' \in Seq(Event)
  <2>1. resolving' \in [D -> Event]
    BY <1>5, <1>7, <1>8, SMTT(30)
  <2> QED BY <1>3, <2>1
<1> QED BY <1>4, <1>5, <1>6, <1>7, <1>8, <1>9, SMTT(30) DEF over

\* The channel and the registry keep their types when the winners that wait are sent
\* on, taken and submitted.
LEMMA ChannelStepTypes ==
  ASSUME ChannelType, RollupType,
         \/ CommitToStateMachine \/ ReceiveEvent \/ SubmitZkBatch \/ SubmitFails
         \/ \E e \in sent : ExecuteLate(e)
  PROVE  ChannelType' /\ RollupType'
<1>1. CASE CommitToStateMachine
  <2>1. Head(resolving) \in Event /\ resolving' \in Seq(Event)
    BY <1>1 DEF CommitToStateMachine, ChannelType
  <2>2. outbound' \in Seq(Event) /\ Len(outbound') <= Capacity /\ won' \in Seq(Event)
    BY <1>1, <2>1, SettlementAssumption DEF CommitToStateMachine, ChannelType
  <2> QED BY <1>1, <2>1, <2>2 DEF CommitToStateMachine, ChannelType, RollupType, rollup
<1>2. CASE ReceiveEvent
  <2>1. Head(outbound) \in Event /\ outbound' \in Seq(Event) /\ Len(outbound') <= Capacity
    BY <1>2, SettlementAssumption DEF ReceiveEvent, ChannelType
  <2> QED BY <1>2, <2>1 DEF ReceiveEvent, ChannelType, RollupType, rollup, actor
<1>3. CASE SubmitZkBatch
  <2>1. ChannelType'
    BY <1>3 DEF SubmitZkBatch, ChannelType, actor
  <2>2. RollupType'
    BY <1>3 DEF SubmitZkBatch, Execute, UpdateState, RollupType, rollup
  <2> QED BY <2>1, <2>2
<1>4. CASE SubmitFails
  BY <1>4, SettlementAssumption DEF SubmitFails, ChannelType, RollupType, rollup, actor
<1>5. ASSUME NEW e \in sent, ExecuteLate(e)
      PROVE  ChannelType' /\ RollupType'
  <2>1. ChannelType'
    BY <1>5 DEF ExecuteLate, ChannelType, actor
  <2>2. RollupType'
    BY <1>5 DEF ExecuteLate, Execute, UpdateState, RollupType, rollup
  <2> QED BY <2>1, <2>2
<1> QED BY <1>1, <1>2, <1>3, <1>4, <1>5, SMTT(30)

\* The contract's own operations, and a restart of the node, keep the types.
LEMMA RollupStepTypes ==
  ASSUME ChannelType, RollupType,
         \/ \E k \in Keys : DepositIntent(k)
         \/ PauseSystem \/ UnpauseSystem \/ SetVerifier \/ Crash
  PROVE  ChannelType' /\ RollupType'
<1>1. ASSUME NEW k \in Keys, DepositIntent(k)
      PROVE  ChannelType' /\ RollupType'
  BY <1>1 DEF DepositIntent, ChannelType, RollupType, actor
<1>2. CASE PauseSystem
  BY <1>2 DEF PauseSystem, ChannelType, RollupType, actor
<1>3. CASE UnpauseSystem
  BY <1>3, Zenon DEF UnpauseSystem, ChannelType, RollupType, actor
<1>4. CASE SetVerifier
  BY <1>4 DEF SetVerifier, ChannelType, RollupType, actor
<1>5. CASE Crash
  <2>1. <<>> \in Seq(Event) /\ Len(<<>>) <= Capacity
    BY SettlementAssumption, SMTT(30)
  <2> QED BY <1>5, <2>1 DEF Crash, ChannelType, RollupType, rollup
<1> QED BY <1>1, <1>2, <1>3, <1>4, <1>5, SMTT(30)

\* The steps that leave the auctions and their history alone.
Elsewhere ==
  \/ CommitToStateMachine \/ ReceiveEvent \/ SubmitZkBatch \/ SubmitFails
  \/ \E e \in sent : ExecuteLate(e)
  \/ \E k \in Keys : DepositIntent(k)
  \/ PauseSystem \/ UnpauseSystem \/ SetVerifier

\* Sending, settling and the contract's operations do not touch the auctions.
LEMMA ElsewhereLeavesAuctions ==
  ASSUME Elsewhere
  PROVE  UNCHANGED <<auctions, bids, opened>>
BY DEF Elsewhere, CommitToStateMachine, ReceiveEvent, SubmitZkBatch, SubmitFails, ExecuteLate,
       DepositIntent, PauseSystem, UnpauseSystem, SetVerifier, actor

\* Every step keeps the types.
LEMMA TypeStep ==
  ASSUME TypeInv, [Next]_vars
  PROVE  TypeInv'
<1> USE DEF TypeInv
<1>1. ASSUME NEW i \in Intents, NEW s \in Solvers, NEW a \in Amounts, SubmitBid(i, s, a)
      PROVE  TypeInv'
  <2>1. AuctionsType'
    BY <1>1, SubmitBidKeepsAuctions, SMTT(30)
  <2>2. ChannelType' /\ RollupType'
    BY <1>1 DEF SubmitBid, ChannelType, RollupType, rollup
  <2> QED BY <2>1, <2>2
<1>2. ASSUME NEW i \in Intents, Expire(i)
      PROVE  TypeInv'
  <2>1. AuctionsType'
    BY <1>2, ExpireKeepsAuctions, SMTT(30)
  <2>2. ChannelType' /\ RollupType'
    BY <1>2 DEF Expire, ChannelType, RollupType, rollup
  <2> QED BY <2>1, <2>2, SMTT(30)
<1>3. CASE ResolveAuctions
  <2>1. resolving' \in Seq(Event)
    BY <1>3, ResolveTakesEachOnce
  <2>2. ChannelType' /\ RollupType'
    BY <1>3, <2>1, SMTT(30) DEF ResolveAuctions, ChannelType, RollupType, rollup
  <2>3. /\ auctions' = [i \in DOMAIN auctions \ {j \in DOMAIN auctions : auctions[j].over} |-> auctions[i]]
        /\ UNCHANGED <<bids, opened>>
    BY <1>3 DEF ResolveAuctions
  <2>4. IsFiniteSet(DOMAIN auctions')
    BY <2>3, FS_Subset DEF AuctionsType
  <2>5. AuctionsType'
    BY <2>3, <2>4, SMTT(30) DEF AuctionsType
  <2> QED BY <2>2, <2>5
<1>4. CASE Elsewhere
  <2>1. ChannelType' /\ RollupType'
    BY <1>4, ChannelStepTypes, RollupStepTypes, SMTT(30) DEF Elsewhere
  <2>2. AuctionsType'
    BY <1>4, ElsewhereLeavesAuctions, SMTT(30) DEF AuctionsType, IsAuction
  <2> QED BY <2>1, <2>2
<1>5. CASE Crash
  <2>1. ChannelType' /\ RollupType'
    BY <1>5, RollupStepTypes, SMTT(30)
  <2>2. /\ auctions' = [i \in {} |-> i]
        /\ UNCHANGED <<bids, opened>>
    BY <1>5 DEF Crash
  <2>3. AuctionsType'
    BY <2>2, FS_EmptySet, SMTT(30) DEF AuctionsType
  <2> QED BY <2>1, <2>3
<1>6. CASE UNCHANGED vars
  BY <1>6, SMTT(30) DEF vars, actor, rollup, AuctionsType, IsAuction, ChannelType, RollupType
<1> QED BY <1>1, <1>2, <1>3, <1>4, <1>5, <1>6, SMTT(30) DEF Next, Elsewhere

\* A node that has just started has empty tables and an empty channel.
LEMMA TypeInit == Init => TypeInv
<1> SUFFICES ASSUME Init PROVE TypeInv
  OBVIOUS
<1>1. AuctionsType
  BY FS_EmptySet DEF Init, AuctionsType
<1>2. ChannelType
  BY SettlementAssumption DEF Init, ChannelType
<1>3. RollupType
  BY Zenon DEF Init, RollupType
<1> QED BY <1>1, <1>2, <1>3 DEF TypeInv

\* The types, with what is needed to pick a winner, always hold.
LEMMA AlwaysTyped == Spec => []TypeInv
BY TypeInit, TypeStep, PTL DEF Spec

\* The auctions, the channel of winners and the contract keep their types, and the
\* channel never holds more than it has room for, whatever its capacity.
THEOREM SettlementTypeOK == Spec => []TypeOK
<1>1. TypeInv => TypeOK
  BY DEF TypeInv, TypeOK, AuctionsType, IsAuction, ChannelType, RollupType
<1> QED BY <1>1, AlwaysTyped, PTL

-----------------------------------------------------------------------------
(***************************************************************************)
(* Winners                                                                 *)
(***************************************************************************)

\* The n-th auction for an intent takes no more bids.
Closed(i, n) == n < opened[i] \/ i \notin DOMAIN auctions

\* The n-th auction of the intent had the bid of the event and no higher one.
WinsAt(e, n) ==
  /\ \E b \in BidsIn(e.intent, n) : b.solver = e.solver /\ b.amount = e.amount
  /\ \A b \in BidsIn(e.intent, n) : b.amount <= e.amount

\* The event has won an auction that is over.
WonFairly(e) ==
  \E n \in 1 .. opened[e.intent] : Closed(e.intent, n) /\ WinsAt(e, n)

\* What makes WinnersAreBest inductive: the bids kept for an open auction are those
\* made in the intent's last auction, and the winners that wait to be sent have won
\* an auction that takes no more bids.
BidsAreKept ==
  /\ \A b \in bids : b.auction \in 1 .. opened[b.intent]
  /\ \A i \in DOMAIN auctions :
       /\ opened[i] >= 1
       /\ \A a \in DOMAIN auctions[i].bids :
            \E b \in BidsIn(i, opened[i]) : b.solver = auctions[i].bids[a] /\ b.amount = a
       /\ \A b \in BidsIn(i, opened[i]) : b.amount \in DOMAIN auctions[i].bids

WinnersInv ==
  /\ BidsAreKept
  /\ \A e \in Range(resolving) \cup Range(won) : WonFairly(e)

\* What makes ResolvedIntentsWereWon inductive: every event under way, also one whose
\* transaction is executed late, was put in the channel, and funds were locked for every intent the registry knows.
ResolvedInv ==
  /\ Range(outbound) \subseteq Range(won)
  /\ settling # NoEvent => settling \in Range(won)
  /\ sent \subseteq Range(won)
  /\ \A k \in Keys : registry[k] # "NONE" => k \in locked
  /\ ResolvedIntentsWereWon

\* A fair winner stays one as long as the auctions that take no more bids stay so and
\* keep their bids.
LEMMA FairStays ==
  ASSUME AuctionsType, AuctionsType', NEW e \in Event, WonFairly(e),
         opened[e.intent] <= opened'[e.intent],
         \A n \in 1 .. opened[e.intent] :
           Closed(e.intent, n) =>
             Closed(e.intent, n)' /\ BidsIn(e.intent, n)' = BidsIn(e.intent, n)
  PROVE  WonFairly(e)'
<1>1. PICK n \in 1 .. opened[e.intent] : Closed(e.intent, n) /\ WinsAt(e, n)
  BY DEF WonFairly
<1>2. Closed(e.intent, n)' /\ BidsIn(e.intent, n)' = BidsIn(e.intent, n)
  BY <1>1, SMTT(30)
<1>3. WinsAt(e, n)'
  BY <1>1, <1>2 DEF WinsAt
<1>4. n \in 1 .. opened'[e.intent]
  BY <1>1 DEF AuctionsType, Event
<1> QED BY <1>2, <1>3, <1>4, SMTT(30) DEF WonFairly

\* A bid goes to the last auction of its intent, which is open.
LEMMA SubmitBidWinners ==
  ASSUME TypeInv, TypeInv', WinnersInv,
         NEW i \in Intents, NEW s \in Solvers, NEW a \in Amounts, SubmitBid(i, s, a)
  PROVE  WinnersInv'
<1> DEFINE isNew == i \notin DOMAIN auctions
           known == IF isNew THEN [b \in {} |-> s] ELSE auctions[i].bids
           auction == [bids |-> [b \in DOMAIN known \cup {a} |-> IF b = a THEN s ELSE known[b]],
                       over |-> IF isNew THEN FALSE ELSE auctions[i].over]
           bid == [intent |-> i, solver |-> s, amount |-> a, auction |-> opened'[i]]
<1>1. /\ auctions' = [j \in DOMAIN auctions \cup {i} |-> IF j = i THEN auction ELSE auctions[j]]
      /\ opened' = IF isNew THEN [opened EXCEPT ![i] = @ + 1] ELSE opened
      /\ bids' = bids \cup {bid}
      /\ UNCHANGED <<resolving, won>>
  BY DEF SubmitBid
<1>2. /\ opened \in [Intents -> Nat] /\ opened' \in [Intents -> Nat]
      /\ DOMAIN auctions \subseteq Intents
      /\ \A b \in bids : b.intent \in Intents
  BY SMTT(30) DEF TypeInv, AuctionsType
<1>3. /\ DOMAIN auctions' = DOMAIN auctions \cup {i}
      /\ auctions'[i].bids = [b \in DOMAIN known \cup {a} |-> IF b = a THEN s ELSE known[b]]
      /\ \A j \in DOMAIN auctions : j # i => auctions'[j] = auctions[j]
      /\ \A j \in Intents : j # i => opened'[j] = opened[j]
      /\ isNew => opened'[i] = opened[i] + 1
      /\ ~ isNew => opened'[i] = opened[i]
  BY <1>1, <1>2
<1>4. bid.intent = i /\ bid.solver = s /\ bid.amount = a /\ bid.auction = opened'[i]
  OBVIOUS
<1> HIDE DEF bid, auction
<1>5. /\ \A j, n : j # i \/ n # opened'[i] => BidsIn(j, n)' = BidsIn(j, n)
      /\ BidsIn(i, opened[i])' = BidsIn(i, opened'[i]) \cup {bid}
  BY <1>1, <1>4, SMTT(30) DEF BidsIn
<1>6. isNew => BidsIn(i, opened'[i]) = {}
  BY <1>2, <1>3, SMTT(30) DEF WinnersInv, BidsAreKept, BidsIn
<1>7. BidsAreKept'
  <2>1. ASSUME NEW b \in bids'
        PROVE  b.auction \in 1 .. opened'[b.intent]
    <3>1. CASE b = bid
      <4>1. ~ isNew => opened[i] >= 1
        BY Zenon DEF WinnersInv, BidsAreKept
      <4> QED BY <3>1, <4>1, <1>2, <1>3, <1>4, SMTT(30)
    <3>2. CASE b \in bids
      <4>1. b.auction \in 1 .. opened[b.intent] /\ b.intent \in Intents
        BY <3>2, <1>2, SMTT(30) DEF WinnersInv, BidsAreKept
      <4>2. CASE b.intent = i
        BY <4>1, <4>2, <1>2, <1>3, SMTT(30)
      <4>3. CASE b.intent # i
        BY <4>1, <4>3, <1>2, <1>3, SMTT(30)
      <4> QED BY <4>2, <4>3, SMTT(30)
    <3> QED BY <3>1, <3>2, <1>1, SMTT(30)
  <2>2. ASSUME NEW j \in DOMAIN auctions', j # i
        PROVE  /\ opened'[j] >= 1
               /\ \A x \in DOMAIN auctions'[j].bids :
                    \E b \in BidsIn(j, opened[j])' :
                      b.solver = auctions'[j].bids[x] /\ b.amount = x
               /\ \A b \in BidsIn(j, opened[j])' : b.amount \in DOMAIN auctions'[j].bids
    <3>1. /\ j \in DOMAIN auctions /\ auctions'[j] = auctions[j] /\ opened'[j] = opened[j]
      BY <1>2, <1>3, <2>2, SMTT(30)
    <3>2. BidsIn(j, opened[j])' = BidsIn(j, opened[j])
      BY <1>5, <2>2, <3>1, SMTT(30)
    <3> QED BY <3>1, <3>2, SMTT(30) DEF WinnersInv, BidsAreKept
  <2>3. opened'[i] >= 1
    BY <1>2, <1>3, SMTT(30) DEF WinnersInv, BidsAreKept
  <2>4. ASSUME NEW x \in DOMAIN auctions'[i].bids
        PROVE  \E b \in BidsIn(i, opened[i])' : b.solver = auctions'[i].bids[x] /\ b.amount = x
    <3>1. CASE x = a
      BY <1>3, <1>4, <1>5, <3>1, Zenon
    <3>2. CASE x # a
      <4>1. ~ isNew /\ x \in DOMAIN auctions[i].bids /\ auctions'[i].bids[x] = auctions[i].bids[x]
        BY <1>3, <2>4, <3>2, SMTT(30)
      <4>2. \E b \in BidsIn(i, opened[i]) : b.solver = auctions[i].bids[x] /\ b.amount = x
        BY <4>1 DEF WinnersInv, BidsAreKept
      <4> QED BY <4>1, <4>2, <1>3, <1>5, SMTT(30)
    <3> QED BY <3>1, <3>2
  <2>5. ASSUME NEW b \in BidsIn(i, opened[i])'
        PROVE  b.amount \in DOMAIN auctions'[i].bids
    <3>1. CASE b = bid
      BY <3>1, <1>3, <1>4, SMTT(30)
    <3>2. CASE b # bid
      <4>1. ~ isNew /\ b \in BidsIn(i, opened[i])
        BY <1>3, <1>5, <1>6, <2>5, <3>2, SMTT(30)
      <4>2. b.amount \in DOMAIN auctions[i].bids
        BY <4>1, SMTT(30) DEF WinnersInv, BidsAreKept
      <4> QED BY <4>1, <4>2, <1>3, SMTT(30)
    <3> QED BY <3>1, <3>2, SMTT(30)
  <2> QED BY <2>1, <2>2, <2>3, <2>4, <2>5, SMTT(30) DEF BidsAreKept
<1>8. ASSUME NEW e \in Range(resolving)' \cup Range(won)'
      PROVE  WonFairly(e)'
  <2>1. e \in Event /\ WonFairly(e)
    BY <1>1 DEF WinnersInv, TypeInv, ChannelType, Range
  <2>2. e.intent \in Intents
    BY <2>1 DEF Event
  <2>3. ASSUME NEW n \in 1 .. opened[e.intent], Closed(e.intent, n)
        PROVE  Closed(e.intent, n)' /\ BidsIn(e.intent, n)' = BidsIn(e.intent, n)
    <3>1. CASE e.intent = i
      <4>1. n < opened'[i]
        BY <3>1, <2>3, <1>2, <1>3, SMTT(30) DEF Closed
      <4> QED BY <3>1, <4>1, <1>2, <1>5, SMTT(30) DEF Closed
    <3>2. CASE e.intent # i
      BY <3>2, <2>2, <2>3, <1>3, <1>5, Zenon DEF Closed
    <3> QED BY <3>1, <3>2
  <2>4. opened[e.intent] <= opened'[e.intent]
    <3>1. CASE e.intent = i
      BY <3>1, <1>2, <1>3, SMTT(30)
    <3>2. CASE e.intent # i
      BY <3>2, <1>2, <1>3, <2>2
    <3> QED BY <3>1, <3>2
  <2> QED BY <2>1, <2>3, <2>4, FairStays, SMTT(30) DEF TypeInv
<1> QED BY <1>7, <1>8, SMTT(30) DEF WinnersInv

\* A step that leaves the bids made alone, and opens no auction, keeps the fair winners
\* and the bids of the auctions that it leaves open.
LEMMA NoBidWinners ==
  ASSUME TypeInv, TypeInv', WinnersInv, UNCHANGED <<bids, opened>>,
         DOMAIN auctions' \subseteq DOMAIN auctions,
         \A i \in DOMAIN auctions' : auctions'[i].bids = auctions[i].bids
  PROVE  /\ BidsAreKept'
         /\ \A e \in Range(resolving) \cup Range(won) : WonFairly(e)'
<1>1. \A i, n : BidsIn(i, n)' = BidsIn(i, n)
  BY DEF BidsIn
<1>2. BidsAreKept'
  BY <1>1 DEF WinnersInv, BidsAreKept
<1>3. ASSUME NEW e \in Range(resolving) \cup Range(won)
      PROVE  WonFairly(e)'
  <2>0. resolving \in Seq(Event) /\ won \in Seq(Event)
    BY DEF TypeInv, ChannelType
  <2>1. e \in Event /\ WonFairly(e) /\ e.intent \in Intents
    <3>1. e \in Event
      BY <2>0 DEF Range
    <3> QED BY <3>1 DEF WinnersInv, Event
  <2>2. \A n : Closed(e.intent, n) => Closed(e.intent, n)'
    BY DEF Closed
  <2>3. opened[e.intent] <= opened'[e.intent]
    BY <2>1 DEF TypeInv, AuctionsType
  <2> QED BY <1>1, <2>1, <2>2, <2>3, FairStays DEF TypeInv
<1> QED BY <1>2, <1>3

\* The winners that resolve_auctions picks have won the last auctions of their intents,
\* which it closes.
LEMMA ResolveWinners ==
  ASSUME TypeInv, TypeInv', WinnersInv, ResolveAuctions
  PROVE  WinnersInv'
<1> DEFINE over == {i \in DOMAIN auctions : auctions[i].over}
<1>1. /\ auctions' = [i \in DOMAIN auctions \ over |-> auctions[i]]
      /\ UNCHANGED <<bids, opened, won>>
  BY DEF ResolveAuctions
<1>2. /\ BidsAreKept'
      /\ \A e \in Range(won) : WonFairly(e)'
  BY <1>1, NoBidWinners
<1>3. ASSUME NEW e \in Range(resolving)'
      PROVE  WonFairly(e)'
  <2>1. PICK i \in over : e = Winner(i)
    BY ResolveTakesEachOnce DEF Range, TypeInv
  <2>2. /\ e.intent = i
        /\ e.amount \in DOMAIN auctions[i].bids
        /\ e.solver = auctions[i].bids[e.amount]
        /\ \A a \in DOMAIN auctions[i].bids : a <= e.amount
    BY <2>1, WinnerIsHighest DEF TypeInv
  <2>3. opened[i] \in Nat /\ opened[i] >= 1
    BY DEF WinnersInv, BidsAreKept, TypeInv, AuctionsType
  <2>4. WinsAt(e, opened[i])
    BY <2>2 DEF WinnersInv, BidsAreKept, WinsAt
  <2>5. WinsAt(e, opened[i])'
    BY <1>1, <2>4 DEF WinsAt, BidsIn
  <2>6. i \notin DOMAIN auctions'
    BY <1>1
  <2> QED BY <1>1, <2>2, <2>3, <2>5, <2>6 DEF WonFairly, Closed
<1> QED BY <1>1, <1>2, <1>3 DEF WinnersInv

\* No step sends an event to the settlement task that did not wait to be sent.
LEMMA EventsMoveOn ==
  ASSUME TypeInv, Elsewhere \/ Crash
  PROVE  /\ Range(won)' \subseteq Range(resolving) \cup Range(won)
         /\ Range(resolving)' \subseteq Range(resolving)
         /\ Range(won) \subseteq Range(won)'
<1>1. CASE CommitToStateMachine
  <2>1. /\ resolving \in Seq(Event) /\ resolving # <<>> /\ won \in Seq(Event)
        /\ won' = Append(won, Head(resolving))
        /\ resolving' = Tail(resolving)
    BY <1>1 DEF CommitToStateMachine, TypeInv, ChannelType
  <2>2. Head(resolving) \in Range(resolving) /\ Head(resolving) \in Event
    BY <2>1 DEF Range
  <2>3. Range(Tail(resolving)) \subseteq Range(resolving)
    BY <2>1 DEF Range
  <2>4. Range(Append(won, Head(resolving))) = Range(won) \cup {Head(resolving)}
    BY <2>1, <2>2, RangeOfAppend
  <2> QED BY <2>1, <2>2, <2>3, <2>4
<1>2. CASE Crash
  BY <1>2 DEF Crash, Range
<1>3. CASE UNCHANGED <<resolving, won>>
  BY <1>3 DEF Range
<1>4. Elsewhere => CommitToStateMachine \/ UNCHANGED <<resolving, won>>
  BY Zenon DEF Elsewhere, ReceiveEvent, SubmitZkBatch, SubmitFails, ExecuteLate,
         DepositIntent, PauseSystem, UnpauseSystem, SetVerifier, actor
<1> QED BY <1>1, <1>2, <1>3, <1>4

\* Every step keeps the bids of the open auctions and the fairness of the winners.
LEMMA WinnersStep ==
  ASSUME TypeInv, TypeInv', WinnersInv, [Next]_vars
  PROVE  WinnersInv'
<1>1. ASSUME NEW i \in Intents, NEW s \in Solvers, NEW a \in Amounts, SubmitBid(i, s, a)
      PROVE  WinnersInv'
  BY <1>1, SubmitBidWinners
<1>2. ASSUME NEW i \in Intents, Expire(i)
      PROVE  WinnersInv'
  <2>1. /\ DOMAIN auctions' = DOMAIN auctions
        /\ \A j \in DOMAIN auctions : auctions'[j].bids = auctions[j].bids
    BY <1>2, ExpireKeepsAuctions DEF TypeInv
  <2>2. UNCHANGED <<bids, opened, resolving, won>>
    BY <1>2 DEF Expire
  <2> QED BY <2>1, <2>2, NoBidWinners, Zenon DEF WinnersInv
<1>3. CASE ResolveAuctions
  BY <1>3, ResolveWinners
<1>4. CASE Elsewhere \/ Crash
  <2>1. /\ UNCHANGED <<bids, opened>>
        /\ DOMAIN auctions' \subseteq DOMAIN auctions
        /\ \A i \in DOMAIN auctions' : auctions'[i].bids = auctions[i].bids
    BY <1>4, ElsewhereLeavesAuctions DEF Crash
  <2> QED BY <1>4, <2>1, NoBidWinners, EventsMoveOn DEF WinnersInv
<1>5. CASE UNCHANGED vars
  <2>1. UNCHANGED <<auctions, bids, opened, resolving, won>>
    BY <1>5 DEF vars, actor
  <2> QED BY <2>1, NoBidWinners DEF WinnersInv
<1> QED BY <1>1, <1>2, <1>3, <1>4, <1>5 DEF Next, Elsewhere

\* In the node's whole life: every winner sent to the settlement task has won one
\* auction of its intent, whatever bids arrive while resolve_auctions waits for the
\* channel, and whatever auctions for the intent are opened later.
THEOREM TheBestBidWins == Spec => []WinnersAreBest
<1>1. Init => WinnersInv
  BY DEF Init, WinnersInv, BidsAreKept, Range
<1>2. TypeInv /\ TypeInv' /\ WinnersInv /\ [Next]_vars => WinnersInv'
  BY WinnersStep
<1>3. WinnersInv => WinnersAreBest
  BY DEF WinnersInv, WinnersAreBest, WonFairly, WinsAt
<1> QED BY <1>1, <1>2, <1>3, AlwaysTyped, PTL DEF Spec

-----------------------------------------------------------------------------
(***************************************************************************)
(* Outcomes                                                                *)
(***************************************************************************)

\* A tick sends one event for each auction that is over, and none for the others.
LEMMA ResolveCounts ==
  ASSUME TypeInv, ResolveAuctions, NEW i
  PROVE  Outcomes(resolving', i) = IF i \in DOMAIN auctions /\ auctions[i].over THEN 1 ELSE 0
<1> DEFINE over == {j \in DOMAIN auctions : auctions[j].over}
           mine == {k \in DOMAIN resolving' : resolving'[k].intent = i}
<1>1. /\ \A k \in DOMAIN resolving' : \E j \in over : resolving'[k] = Winner(j)
      /\ \A j \in over : \E k \in DOMAIN resolving' : resolving'[k] = Winner(j)
      /\ \A k, l \in DOMAIN resolving' : resolving'[k].intent = resolving'[l].intent => k = l
  BY ResolveTakesEachOnce DEF TypeInv
<1>2. \A j \in over : Winner(j).intent = j
  BY WinnerIsHighest DEF TypeInv
<1>3. Outcomes(resolving', i) = Cardinality(mine)
  BY DEF Outcomes
<1>4. CASE i \in over
  <2>1. PICK k \in DOMAIN resolving' : resolving'[k] = Winner(i)
    BY <1>1, <1>4
  <2>2. mine = {k}
    BY <1>1, <1>2, <1>4, <2>1
  <2>3. Cardinality({k}) = 1
    BY FS_Singleton, Zenon
  <2> HIDE DEF mine
  <2> QED BY <1>3, <1>4, <2>2, <2>3
<1>5. CASE i \notin over
  <2>1. mine = {}
    BY <1>1, <1>2, <1>5
  <2> HIDE DEF mine
  <2> QED BY <1>3, <1>5, <2>1, FS_EmptySet
<1> QED BY <1>4, <1>5

\* Every step accounts for every auction.
LEMMA OutcomeStep ==
  ASSUME TypeInv, TypeInv', EveryAuctionHasOneOutcome, [Next]_vars, failures' = 0,
         NEW i \in Intents
  PROVE  opened'[i] = Waiting(i)' + Outcomes(won, i)'
<1>1. failures = 0 /\ UNCHANGED failures
  <2>1. failures' = failures \/ failures' = failures + 1
    BY Zenon DEF Next, vars, SubmitBid, Expire, ResolveAuctions, CommitToStateMachine, ReceiveEvent,
           SubmitZkBatch, SubmitFails, ExecuteLate, DepositIntent, PauseSystem, UnpauseSystem,
           SetVerifier, Crash
  <2>2. failures \in Nat
    BY DEF TypeInv, RollupType
  <2> QED BY <2>1, <2>2
<1>2. opened[i] = (IF i \in DOMAIN auctions THEN 1 ELSE 0) + Outcomes(resolving, i) + Outcomes(won, i)
  BY <1>1 DEF EveryAuctionHasOneOutcome, Waiting
<1>3. /\ Outcomes(resolving, i) \in Nat /\ Outcomes(won, i) \in Nat
      /\ opened \in [Intents -> Nat]
      /\ resolving \in Seq(Event) /\ won \in Seq(Event)
  BY OutcomesFinite, Zenon DEF TypeInv, ChannelType, AuctionsType
<1> DEFINE Goal == opened'[i] = (IF i \in DOMAIN auctions' THEN 1 ELSE 0)
                                  + Outcomes(resolving', i) + Outcomes(won', i)
<1>4. SUFFICES Goal
  <2>1. /\ Waiting(i)' = (IF i \in DOMAIN auctions' THEN 1 ELSE 0) + Outcomes(resolving', i)
        /\ Outcomes(won, i)' = Outcomes(won', i)
    BY DEF Waiting, Outcomes
  <2> HIDE DEF Goal
  <2> QED BY <2>1 DEF Goal
<1>5. ASSUME NEW j \in Intents, NEW s \in Solvers, NEW a \in Amounts, SubmitBid(j, s, a)
      PROVE  Goal
  <2>1. /\ DOMAIN auctions' = DOMAIN auctions \cup {j}
        /\ opened' = IF j \notin DOMAIN auctions THEN [opened EXCEPT ![j] = @ + 1] ELSE opened
        /\ UNCHANGED <<resolving, won>>
    BY <1>5 DEF SubmitBid
  <2>2. CASE i = j /\ j \notin DOMAIN auctions
    BY <1>2, <1>3, <2>1, <2>2, SMTT(30)
  <2>3. CASE ~ (i = j /\ j \notin DOMAIN auctions)
    <3>1. opened'[i] = opened[i] /\ (i \in DOMAIN auctions' <=> i \in DOMAIN auctions)
      BY <1>3, <2>1, <2>3
    <3> QED BY <1>2, <2>1, <3>1
  <2> QED BY <2>2, <2>3
<1>6. ASSUME NEW j \in Intents, Expire(j)
      PROVE  Goal
  <2>1. DOMAIN auctions' = DOMAIN auctions /\ UNCHANGED <<opened, resolving, won>>
    BY <1>6, ExpireKeepsAuctions DEF Expire, TypeInv
  <2> QED BY <1>2, <2>1
<1>7. CASE ResolveAuctions
  <2>1. /\ resolving = <<>>
        /\ DOMAIN auctions' = DOMAIN auctions \ {j \in DOMAIN auctions : auctions[j].over}
        /\ UNCHANGED <<opened, won>>
    BY <1>7 DEF ResolveAuctions
  <2>2. Outcomes(resolving, i) = 0
    BY <2>1, OutcomesOfNone
  <2>3. Outcomes(resolving', i) = IF i \in DOMAIN auctions /\ auctions[i].over THEN 1 ELSE 0
    BY <1>7, ResolveCounts
  <2> QED BY <1>2, <1>3, <2>1, <2>2, <2>3
<1>8. CASE CommitToStateMachine
  <2>1. /\ resolving # <<>> /\ resolving' = Tail(resolving)
        /\ won' = Append(won, Head(resolving))
        /\ UNCHANGED <<auctions, opened>>
    BY <1>8 DEF CommitToStateMachine
  <2>2. Head(resolving) \in Event /\ Tail(resolving) \in Seq(Event)
    BY <1>3, <2>1
  <2>3. Outcomes(resolving, i)
          = Outcomes(Tail(resolving), i) + (IF Head(resolving).intent = i THEN 1 ELSE 0)
    BY <1>3, <2>1, OutcomesOfTail
  <2>4. Outcomes(Append(won, Head(resolving)), i)
          = Outcomes(won, i) + (IF Head(resolving).intent = i THEN 1 ELSE 0)
    BY <1>3, <2>2, OutcomesOfAppend
  <2>5. Outcomes(Tail(resolving), i) \in Nat
    BY <2>2, OutcomesFinite, Zenon
  <2> QED BY <1>2, <1>3, <2>1, <2>3, <2>4, <2>5
<1>9. CASE UNCHANGED <<auctions, opened, resolving, won>>
  BY <1>2, <1>9
<1>10. \/ \E j \in Intents, s \in Solvers, a \in Amounts : SubmitBid(j, s, a)
       \/ \E j \in Intents : Expire(j)
       \/ ResolveAuctions \/ CommitToStateMachine
       \/ UNCHANGED <<auctions, opened, resolving, won>>
  <2>1. ~ Crash
    BY <1>1, SMTT(30) DEF Crash
  <2>2. ReceiveEvent \/ SubmitZkBatch \/ SubmitFails \/ (\E e \in sent : ExecuteLate(e))
          \/ (\E k \in Keys : DepositIntent(k))
          => UNCHANGED <<auctions, opened, resolving, won>>
    BY Zenon DEF actor, ReceiveEvent, SubmitZkBatch, SubmitFails, ExecuteLate, DepositIntent
  <2>3. PauseSystem \/ UnpauseSystem \/ SetVerifier => UNCHANGED <<auctions, opened, resolving, won>>
    BY Zenon DEF actor, PauseSystem, UnpauseSystem, SetVerifier
  <2>4. UNCHANGED vars => UNCHANGED <<auctions, opened, resolving, won>>
    BY Zenon DEF vars, actor
  <2> QED BY <2>1, <2>2, <2>3, <2>4, Zenon DEF Next
<1> HIDE DEF Goal
<1> QED BY <1>5, <1>6, <1>7, <1>8, <1>9, <1>10

\* Until something fails, resolve_auctions and the channel drop no outcome and make none
\* twice: each auction opened is open, waits to be sent or has its one event in the
\* channel, for channels of any size.
THEOREM NoOutcomeIsDropped == Spec => []EveryAuctionHasOneOutcome
<1>1. Init => EveryAuctionHasOneOutcome
  <2> SUFFICES ASSUME Init, NEW i \in Intents
               PROVE  opened[i] = Waiting(i) + Outcomes(won, i)
    BY DEF EveryAuctionHasOneOutcome
  <2> QED BY OutcomesOfNone DEF Init, Waiting
<1>2. TypeInv /\ TypeInv' /\ EveryAuctionHasOneOutcome /\ [Next]_vars
        => EveryAuctionHasOneOutcome'
  BY OutcomeStep DEF EveryAuctionHasOneOutcome
<1> QED BY <1>1, <1>2, AlwaysTyped, PTL DEF Spec

-----------------------------------------------------------------------------
(***************************************************************************)
(* Settlement                                                              *)
(***************************************************************************)

\* The events that have won stay known.
LEMMA WinsAreKept ==
  ASSUME TypeInv, [Next]_vars
  PROVE  Range(won) \subseteq Range(won)'
<1>1. CASE Elsewhere \/ Crash
  BY <1>1, EventsMoveOn
<1>2. CASE UNCHANGED won
  BY <1>2 DEF Range
<1> QED BY <1>1, <1>2, Zenon DEF Next, Elsewhere, vars, SubmitBid, Expire, ResolveAuctions

\* The events under way have won.
LEMMA EventsHaveWon ==
  ASSUME TypeInv, ResolvedInv, [Next]_vars
  PROVE  /\ Range(outbound)' \subseteq Range(won)'
         /\ (settling # NoEvent)' => settling' \in Range(won)'
         /\ sent' \subseteq Range(won)'
<1>1. Range(won) \subseteq Range(won)'
  BY WinsAreKept
<1>2. /\ outbound \in Seq(Event) /\ resolving \in Seq(Event) /\ won \in Seq(Event)
  BY DEF TypeInv, ChannelType
<1>3. CASE CommitToStateMachine
  <2>1. /\ Head(resolving) \in Event
        /\ outbound' = Append(outbound, Head(resolving))
        /\ won' = Append(won, Head(resolving))
        /\ UNCHANGED <<settling, sent>>
    BY <1>2, <1>3 DEF CommitToStateMachine
  <2>2. /\ Range(outbound)' = Range(outbound) \cup {Head(resolving)}
        /\ Range(won)' = Range(won) \cup {Head(resolving)}
    <3>1. Range(Append(outbound, Head(resolving))) = Range(outbound) \cup {Head(resolving)}
      BY <1>2, <2>1, RangeOfAppend
    <3>2. Range(Append(won, Head(resolving))) = Range(won) \cup {Head(resolving)}
      BY <1>2, <2>1, RangeOfAppend
    <3> QED BY <2>1, <3>1, <3>2
  <2> QED BY <2>1, <2>2 DEF ResolvedInv
<1>4. CASE ReceiveEvent
  <2>1. /\ outbound # <<>>
        /\ settling' = Head(outbound) /\ outbound' = Tail(outbound) /\ UNCHANGED sent
    BY <1>4 DEF ReceiveEvent
  <2>2. Head(outbound) \in Range(outbound) /\ Range(Tail(outbound)) \subseteq Range(outbound)
    BY <1>2, <2>1 DEF Range
  <2> QED BY <1>1, <2>1, <2>2 DEF ResolvedInv
<1>5. CASE /\ outbound' \in {outbound, <<>>}
           /\ settling' \in {settling, NoEvent}
           /\ sent' \subseteq sent \cup ({settling} \ {NoEvent})
  <2>1. Range(outbound)' \subseteq Range(outbound)
    BY <1>5 DEF Range
  <2> QED BY <1>1, <1>5, <2>1 DEF ResolvedInv
<1>6. \/ CommitToStateMachine \/ ReceiveEvent
      \/ /\ outbound' \in {outbound, <<>>}
         /\ settling' \in {settling, NoEvent}
         /\ sent' \subseteq sent \cup ({settling} \ {NoEvent})
  BY Zenon DEF Next, vars, SubmitBid, Expire, ResolveAuctions, SubmitZkBatch, SubmitFails,
         ExecuteLate, DepositIntent, PauseSystem, UnpauseSystem, SetVerifier, Crash
<1> QED BY <1>3, <1>4, <1>5, <1>6

\* The registry changes when funds are locked, and when a locked intent that has won
\* is settled.
LEMMA RegistryStep ==
  ASSUME TypeInv, ResolvedInv, [Next]_vars
  PROVE  /\ locked \subseteq locked'
         /\ \A k \in Keys :
              \/ registry'[k] = registry[k]
              \/ registry'[k] = "LOCKED" /\ k \in locked'
              \/ /\ registry[k] = "LOCKED"
                 /\ \E e \in Range(won) : Key(e.intent) = k
<1>1. ASSUME NEW k \in Keys, DepositIntent(k)
      PROVE  /\ locked \subseteq locked'
             /\ \A j \in Keys : \/ registry'[j] = registry[j]
                                \/ registry'[j] = "LOCKED" /\ j \in locked'
  BY <1>1 DEF DepositIntent, TypeInv, RollupType
<1>2. ASSUME NEW e \in Range(won), Execute(e)
      PROVE  /\ UNCHANGED locked
             /\ \A k \in Keys : \/ registry'[k] = registry[k]
                                \/ registry[k] = "LOCKED" /\ Key(e.intent) = k
  BY <1>2 DEF Execute, UpdateState, rollup, TypeInv, RollupType
<1>3. CASE UNCHANGED <<registry, locked>>
  BY <1>3
<1>4. \/ \E k \in Keys : DepositIntent(k)
      \/ \E e \in Range(won) : Execute(e)
      \/ UNCHANGED <<registry, locked>>
  <2>1. SubmitZkBatch \/ (\E e \in sent : ExecuteLate(e)) => \E e \in Range(won) : Execute(e)
    BY Zenon DEF SubmitZkBatch, ExecuteLate, ResolvedInv
  <2> QED
    BY <2>1, Zenon DEF Next, vars, rollup, SubmitBid, Expire, ResolveAuctions,
       CommitToStateMachine, ReceiveEvent, SubmitFails, PauseSystem, UnpauseSystem,
       SetVerifier, Crash
<1> QED BY <1>1, <1>2, <1>3, <1>4, Zenon

\* Every step keeps the events and the registry consistent.
LEMMA ResolvedStep ==
  ASSUME TypeInv, ResolvedInv, [Next]_vars
  PROVE  ResolvedInv'
<1>1. /\ Range(won) \subseteq Range(won)'
      /\ Range(outbound)' \subseteq Range(won)'
      /\ (settling # NoEvent)' => settling' \in Range(won)'
      /\ sent' \subseteq Range(won)'
  BY WinsAreKept, EventsHaveWon
<1>2. ASSUME NEW k \in Keys
      PROVE  /\ registry'[k] # "NONE" => k \in locked'
             /\ registry'[k] = "RESOLVED" =>
                  k \in locked' /\ \E e \in Range(won)' : Key(e.intent) = k
  <2>1. /\ locked \subseteq locked'
        /\ \/ registry'[k] = registry[k]
           \/ registry'[k] = "LOCKED" /\ k \in locked'
           \/ registry[k] = "LOCKED" /\ \E e \in Range(won) : Key(e.intent) = k
    BY RegistryStep
  <2>2. /\ registry[k] # "NONE" => k \in locked
        /\ registry[k] = "RESOLVED" => \E e \in Range(won) : Key(e.intent) = k
    BY DEF ResolvedInv, ResolvedIntentsWereWon
  <2> QED BY <1>1, <2>1, <2>2
<1> QED BY <1>1, <1>2 DEF ResolvedInv, ResolvedIntentsWereWon

\* Whatever order deposits, pauses, restarts and transactions come in, late ones
\* included, L1 resolves an
\* intent only if funds were locked for it and an auction for its key was won.
THEOREM OnlyWonIntentsAreResolved == Spec => []ResolvedIntentsWereWon
<1>1. Init => ResolvedInv
  BY DEF Init, ResolvedInv, ResolvedIntentsWereWon, Range
<1>2. TypeInv /\ ResolvedInv /\ [Next]_vars => ResolvedInv'
  BY ResolvedStep
<1>3. ResolvedInv => ResolvedIntentsWereWon
  BY DEF ResolvedInv
<1> QED BY <1>1, <1>2, <1>3, AlwaysTyped, PTL DEF Spec
=============================================================================
