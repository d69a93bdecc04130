------------------------- MODULE MCMarketProcessor -------------------------
(***************************************************************************)
(* A small instance of MarketProcessor, without bundles.                   *)
(***************************************************************************)
EXTENDS MarketProcessor

NoOrders == [c \in Bundles |-> 0]

\* Three pieces, an entry and a half, fill BufWriter.
FitsThree(pieces) == Len(pieces) <= 3
=============================================================================
