---------------------------- MODULE MCSwarmLoop ----------------------------
(***************************************************************************)
(* A small instance of SwarmLoop: a genesis with three validators, this    *)
(* node and two peers, and an account without network identity.            *)
(***************************************************************************)
EXTENDS SwarmLoop

CONSTANTS p1, p2, self

Account(p) == [size |-> AddressSize, peer |-> p]

SmallGenesis ==
  [a \in {"v0", "v1", "v2", "user"} |->
     CASE a = "v0" -> Account(self) [] a = "v1" -> Account(p1)
       [] a = "v2" -> Account(p2) [] a = "user" -> Account(NoPeer)]

MinusThree == -3

MinusFive == -5

\* Bound: the first event is not about the second peer.  The code does not tell the
\* peers apart, so what is left out is what happens with the peers exchanged; no
\* fairness is assumed of events.
FirstPeerFirst ==
  events = 1 =>
    /\ ~IsConnected(p2)
    /\ \A n \in DOMAIN commands : commands[n] # [kind |-> "penalty", peer |-> p2]
=============================================================================
