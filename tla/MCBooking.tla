----------------------------- MODULE MCBooking -----------------------------
(***************************************************************************)
(* Instances of Booking for TLC.                                           *)
(***************************************************************************)
EXTENDS Booking, TLC

CONSTANTS r1, r2, i1, i2, room1, room2

\* All rooms have one type; items may also be booked, or changed to, another.
OneType   == {"double"}
TwoTypes  == {"double", "twin"}
AllDouble == [room \in Rooms |-> "double"]

\* Identifiers carry no order and no meaning.
Symmetry == Permutations(Reservations) \cup Permutations(Items) \cup Permutations(Rooms)
=============================================================================
