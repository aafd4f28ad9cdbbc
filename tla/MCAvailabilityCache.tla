------------------------ MODULE MCAvailabilityCache ------------------------
(***************************************************************************)
(* Instances of AvailabilityCache for TLC.                                 *)
(***************************************************************************)
EXTENDS AvailabilityCache

CONSTANTS t1, k1, k2, r1

\* k1 creates a reservation with two items of one room type, a night each; k2
\* cancels a stay over both nights.
TwoStays ==
  [k \in Changes |->
    IF k = k1 THEN << [type |-> t1, arrival |-> 1, departure |-> 2],
                      [type |-> t1, arrival |-> 2, departure |-> 3] >>
              ELSE << [type |-> t1, arrival |-> 1, departure |-> 3] >>]
=============================================================================
