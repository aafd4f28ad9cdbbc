--------------------------- MODULE MCRealtimeHub ---------------------------
(***************************************************************************)
(* Instances of RealtimeHub for TLC.                                       *)
(***************************************************************************)
EXTENDS RealtimeHub

CONSTANTS p1, p2, c1, c2, k1, k2

TwoTabs == [c \in Clients |-> IF c = c1 THEN p1 ELSE p2]
AllOfOne == [k \in Changes |-> p1]
=============================================================================
