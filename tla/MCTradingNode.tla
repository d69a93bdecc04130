--------------------------- MODULE MCTradingNode ---------------------------
(***************************************************************************)
(* A small instance of TradingNode: one command of each kind, the bundle   *)
(* with two orders.                                                        *)
(***************************************************************************)
EXTENDS TradingNode

TwoEach == [c \in Bundles |-> 2]

\* Three pieces, an entry and a half, fill BufWriter.
FitsThree(pieces) == Len(pieces) <= 3

\* Bound: keystores are saved, and keys made and written back, before the first command;
\* the power fails when one command at most was handled; the last crash comes when two
\* were, and no viewer comes after it; one crash at most, no power failure and no viewer
\* come with a second refused write.
KeysOrOrders ==
  \/ sent = {}
  \/ /\ saver = "idle" /\ saves = 1 /\ keys = 1 /\ p2p.synced
     /\ power = 0 \/ Cardinality(sent) = 1
     /\ crashes < MaxCrashes \/ (Cardinality(sent) <= 2 /\ viewer.next = Closed)
     /\ failures < MaxFailures \/ (crashes < MaxCrashes /\ power = 0 /\ viewer.next = Closed)
=============================================================================
