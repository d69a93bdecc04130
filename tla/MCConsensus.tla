---------------------------- MODULE MCConsensus ----------------------------
(***************************************************************************)
(* Small instances of Consensus with nodes 1 .. N.  The seeded shuffle is  *)
(* a rotation of the nodes: a different one for every round, and for a VRF *)
(* output and a hash.                                                      *)
(***************************************************************************)
EXTENDS Consensus

N == Cardinality(Nodes)

Rotation(seed, r) ==
  LET shift == r + (IF "vrf" \in DOMAIN seed THEN 1 ELSE 0)
  IN [i \in 1 .. N |-> ((i + shift) % N) + 1]

\* A behaviour in which a node has restarted is followed only while every node is at
\* the first proposer of its round.
RestartsOrLaterSteps ==
  (\E n \in Nodes : boots[n] > 0) =>
    /\ \A b \in proposals : b.step = 0
    /\ \A n \in Nodes : step[n] = 0

\* A behaviour with a second proposal is followed only while no node has restarted or
\* left the first proposer of its round.
LaterStepsOrBatches ==
  Cardinality(proposals) > 1 =>
    /\ \A b \in proposals : b.step = 0
    /\ \A n \in Nodes : step[n] = 0 /\ boots[n] = 0
=============================================================================
