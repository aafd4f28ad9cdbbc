------------------------- MODULE ReservationStates -------------------------
(***************************************************************************)
(* The two state machines of internal/booking/state_machine.go and the     *)
(* initial statuses of internal/booking/types.go: which status changes a   *)
(* business action may ask for.  A table is a function from a status to    *)
(* the set of its successors.                                              *)
(***************************************************************************)

\* "absent" is the status of an identifier no row has been inserted for.
ReservationStatus ==
  {"absent", "hold", "confirmed", "checked_in", "checked_out", "cancelled",
   "archived", "pending_cancellation"}

ItemStatus ==
  {"absent", "booked", "checked_in", "checked_out", "no_show", "overstay",
   "cancelled", "archived"}

reservationTransitions ==
  [s \in ReservationStatus |->
     CASE s = "hold"        -> {"confirmed", "cancelled"}
       [] s = "confirmed"   -> {"cancelled"}
       [] s = "checked_out" -> {"archived"}
       [] s = "cancelled"   -> {"confirmed"}
       [] OTHER             -> {}]

ValidateReservationTransition(from, to) == to \in reservationTransitions[from]

itemTransitions ==
  [s \in ItemStatus |->
     CASE s = "booked"      -> {"checked_in", "no_show", "cancelled"}
       [] s = "checked_in"  -> {"checked_out", "overstay"}
       [] s = "checked_out" -> {"archived"}
       [] s = "no_show"     -> {"cancelled"}
       [] s = "overstay"    -> {"checked_in", "checked_out"}
       [] s = "cancelled"   -> {"booked"}
       [] OTHER             -> {}]

ValidateItemTransition(from, to) == to \in itemTransitions[from]

\* Mutant: only archived reservations are closed to new items.
IsArchivedReservationStatus(s) == s = "archived"

IsTerminalReservationStatus(s) == s \in {"cancelled", "archived"}

\* How a reservation enters the system.  "walkin" is source internal with
\* is_walkin set, which overrides the initial statuses of its source.
Origins == {"website", "internal", "ota", "walkin"}

\* Mutant: the reservation's status given to the items of an OTA booking.
SourceToReservationStatus ==
  [o \in Origins |->
     CASE o = "ota"    -> [reservation |-> "confirmed", item |-> "confirmed"]
       [] o = "walkin" -> [reservation |-> "checked_in", item |-> "checked_in"]
       [] OTHER        -> [reservation |-> "hold", item |-> "booked"]]

SourceToInitialStatus ==
  [o \in Origins |->
     CASE o = "ota"    -> [reservation |-> "confirmed", item |-> "booked"]
       [] o = "walkin" -> [reservation |-> "checked_in", item |-> "checked_in"]
       [] OTHER        -> [reservation |-> "hold", item |-> "booked"]]
=============================================================================
