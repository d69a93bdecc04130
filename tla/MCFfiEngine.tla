---------------------------- MODULE MCFfiEngine ----------------------------
(***************************************************************************)
(* A small instance of FfiEngine.  Neither users nor order ids are ordered *)
(* by the code, so both are interchangeable model values, but for the ids  *)
(* that are sent again.                                                    *)
(***************************************************************************)
EXTENDS FfiEngine, TLC

Symmetry == Permutations(Users) \cup Permutations(OrderIds \ Reused)

\* Bound: from a full slab, in which only cancellations are left to happen, the runs go
\* on if every order wants 1.  (What happens at the levels of a full slab with other
\* quantities happens with one slot free as well.)
FullOfOnes == free = <<>> => \A i \in DOMAIN store : store[i].quantity = 1
=============================================================================
