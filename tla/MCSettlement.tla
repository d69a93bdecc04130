---------------------------- MODULE MCSettlement ----------------------------
(***************************************************************************)
(* A small instance of Settlement: two solvers and two intents, of which   *)
(* one has an id that cannot be parsed.                                    *)
(***************************************************************************)
EXTENDS Settlement

\* Bound: all bids for a malformed id have the lowest amount.  (How bids compete is
\* left to the other intent.)
LowBidsForMalformed == \A b \in bids : b.intent \in Malformed => b.amount = 1

\* Bound: a third bid and a second deposit do not occur together.  (A second deposit
\* locks an intent again that was resolved; two bids make a second auction for it.)
BidsOrDeposits == Cardinality(bids) < MaxBids \/ deposits < MaxDeposits
=============================================================================
