--------------------------- MODULE BookingProofs ---------------------------
(***************************************************************************)
(* What holds of Booking for every set of reservations, items and rooms    *)
(* and every bound: its types, that versions identify rows, the ledger and *)
(* its refinement of RoomInventory, the life cycle of reservations and     *)
(* items, e-mails and announcements, and the dates of a reservation.       *)
(***************************************************************************)
EXTENDS Booking, TLAPS

-----------------------------------------------------------------------------
(* What a write may do to the rows.                                        *)

\* A row that exists is left alone or written with the next version, and
\* goes on existing.
Advance(old, new) ==
  old.status # "absent" =>
    /\ new.status # "absent"
    /\ new = old \/ new.version = old.version + 1

\* An item that exists is the item of a reservation.
ItemsBelong ==
  \A i \in Items : items[i].status # "absent" => items[i].reservation \in Reservations

\* TypeOK alone is not inductive: rollupAndNotify names the reservation of an item.
TypeInv == TypeOK /\ ItemsBelong

\* "its" are item rows that one transaction may make of the present ones.
ItemsFrom(its) ==
  /\ its \in [Items -> ItemRow]
  /\ \A i \in Items :
       /\ Advance(items[i], its[i])
       /\ its[i].status # "absent" => its[i].reservation \in Reservations

ReservationsFrom(ress) ==
  /\ ress \in [Reservations -> ReservationRow]
  /\ \A r \in Reservations : Advance(reservations[r], ress[r])

\* A deadline is only taken back by a write of its reservation.
DueKept ==
  /\ due' \subseteq Reservations
  /\ \A r \in due \ due' : reservations'[r].version = reservations[r].version + 1

\* A write of an item with the next version is such a step.
LEMMA UpdatedItemType ==
  ASSUME TypeInv, NEW i \in Items, items[i].status # "absent",
         NEW status \in ItemStatus \ {"absent"},
         NEW room \in Rooms \cup {NoRoom}, NEW stay \in [arr : Days, dep : Days],
         NEW rtype \in RoomTypes
  PROVE  ItemsFrom(UpdatedItem(i, status, room, stay, rtype))
<1> DEFINE new == [items[i] EXCEPT !.status = status, !.room = room, !.stay = stay,
                                   !.rtype = rtype, !.version = @ + 1]
<1> USE DEF TypeInv
<1>1. /\ new \in ItemRow /\ new.status = status /\ new.version = items[i].version + 1
      /\ new.reservation = items[i].reservation
  <2>1. items[i] \in ItemRow /\ items[i].version + 1 \in Nat
    BY DEF TypeOK, ItemRow
  <2> QED  BY <2>1 DEF ItemRow
<1>2. UpdatedItem(i, status, room, stay, rtype) = [items EXCEPT ![i] = new]
  BY Zenon DEF UpdatedItem
<1>3. [items EXCEPT ![i] = new] \in [Items -> ItemRow]
  BY <1>1 DEF TypeOK
<1> HIDE DEF new
<1>4. \A j \in Items :
        /\ Advance(items[j], [items EXCEPT ![i] = new][j])
        /\ [items EXCEPT ![i] = new][j].status # "absent"
             => [items EXCEPT ![i] = new][j].reservation \in Reservations
  BY <1>1 DEF Advance, TypeOK, ItemsBelong
<1> QED  BY <1>2, <1>3, <1>4 DEF ItemsFrom

\* So is the change of an item's status alone.
LEMMA ItemWithStatusType ==
  ASSUME TypeInv, NEW i \in Items, items[i].status # "absent",
         NEW status \in ItemStatus \ {"absent"}
  PROVE  ItemsFrom(ItemWithStatus(i, status))
<1>1. /\ items[i].room \in Rooms \cup {NoRoom}
      /\ items[i].stay \in [arr : Days, dep : Days]
      /\ items[i].rtype \in RoomTypes
  BY DEF TypeInv, TypeOK, ItemRow
<1> QED  BY <1>1, UpdatedItemType DEF ItemWithStatus

\* So are the bulk updates.
LEMMA CancelReservationItemsType ==
  ASSUME TypeInv, NEW r \in Reservations
  PROVE  ItemsFrom(CancelReservationItems(r))
<1> USE DEF TypeInv
<1> DEFINE new(i) == [items[i] EXCEPT !.status = "cancelled", !.deleted = TRUE, !.version = @ + 1]
<1>1. ASSUME NEW i \in Items, items[i].reservation = r
      PROVE  /\ new(i) \in ItemRow
             /\ Advance(items[i], new(i))
             /\ new(i).status = "absent" \/ new(i).reservation \in Reservations
  <2>1. items[i] \in ItemRow /\ items[i].version + 1 \in Nat
    BY DEF TypeOK, ItemRow
  <2> QED  BY <1>1, <2>1 DEF ItemRow, ItemStatus, Advance
<1> HIDE DEF new
<1>2. \A i \in Items : \/ CancelReservationItems(r)[i] = items[i]
                       \/ items[i].reservation = r /\ CancelReservationItems(r)[i] = new(i)
  BY DEF CancelReservationItems, new
<1>3. CancelReservationItems(r) = [i \in Items |-> CancelReservationItems(r)[i]]
  BY DEF CancelReservationItems
<1> QED  BY <1>1, <1>2, <1>3 DEF ItemsFrom, Advance, TypeOK, ItemsBelong

\* Restoring the items of a reservation writes the cancelled ones and no others.
LEMMA ReactivateReservationItemsType ==
  ASSUME TypeInv, NEW r \in Reservations
  PROVE  ItemsFrom(ReactivateReservationItems(r))
<1> USE DEF TypeInv
<1> DEFINE new(i) == [items[i] EXCEPT !.status = "booked", !.deleted = FALSE, !.version = @ + 1]
<1>1. ASSUME NEW i \in Items, items[i].reservation = r
      PROVE  /\ new(i) \in ItemRow
             /\ Advance(items[i], new(i))
             /\ new(i).status = "absent" \/ new(i).reservation \in Reservations
  <2>1. items[i] \in ItemRow /\ items[i].version + 1 \in Nat
    BY DEF TypeOK, ItemRow
  <2> QED  BY <1>1, <2>1 DEF ItemRow, ItemStatus, Advance
<1> HIDE DEF new
<1>2. \A i \in Items : \/ ReactivateReservationItems(r)[i] = items[i]
                       \/ items[i].reservation = r /\ ReactivateReservationItems(r)[i] = new(i)
  BY DEF ReactivateReservationItems, new
<1>3. ReactivateReservationItems(r) = [i \in Items |-> ReactivateReservationItems(r)[i]]
  BY DEF ReactivateReservationItems
<1> QED  BY <1>1, <1>2, <1>3 DEF ItemsFrom, Advance, TypeOK, ItemsBelong

\* So does archiving: the items that are not deleted yet are written.
LEMMA SoftDeleteItemsType ==
  ASSUME TypeInv, NEW r \in Reservations
  PROVE  ItemsFrom(SoftDeleteItems(r))
<1> USE DEF TypeInv
<1> DEFINE new(i) == [items[i] EXCEPT !.deleted = TRUE, !.version = @ + 1]
<1>1. ASSUME NEW i \in Items, items[i].reservation = r
      PROVE  /\ new(i) \in ItemRow
             /\ Advance(items[i], new(i))
             /\ new(i).status = "absent" \/ new(i).reservation \in Reservations
  <2>1. items[i] \in ItemRow /\ items[i].version + 1 \in Nat
    BY DEF TypeOK, ItemRow
  <2> QED  BY <1>1, <2>1 DEF ItemRow, ItemStatus, Advance
<1> HIDE DEF new
<1>2. \A i \in Items : \/ SoftDeleteItems(r)[i] = items[i]
                       \/ items[i].reservation = r /\ SoftDeleteItems(r)[i] = new(i)
  BY DEF SoftDeleteItems, new
<1>3. SoftDeleteItems(r) = [i \in Items |-> SoftDeleteItems(r)[i]]
  BY DEF SoftDeleteItems
<1> QED  BY <1>1, <1>2, <1>3 DEF ItemsFrom, Advance, TypeOK, ItemsBelong

\* A batch check-in or check-out writes the accepted items.
LEMMA BatchMoveType ==
  ASSUME TypeInv, NEW S \in SUBSET Items,
         \A i \in S : items[i].status # "absent",
         NEW to \in ItemStatus \ {"absent"}
  PROVE  ItemsFrom(BatchMove(S, to))
<1> USE DEF TypeInv
<1> DEFINE new(i) == [items[i] EXCEPT !.status = to, !.version = @ + 1]
<1>1. ASSUME NEW i \in S
      PROVE  /\ new(i) \in ItemRow
             /\ Advance(items[i], new(i))
             /\ new(i).status = "absent" \/ new(i).reservation \in Reservations
  <2>1. items[i] \in ItemRow /\ items[i].version + 1 \in Nat
    BY DEF TypeOK, ItemRow
  <2> QED  BY <2>1 DEF ItemRow, Advance, ItemsBelong
<1> HIDE DEF new
<1>2. \A i \in Items : \/ BatchMove(S, to)[i] = items[i]
                       \/ i \in S /\ BatchMove(S, to)[i] = new(i)
  BY DEF BatchMove, new
<1>3. BatchMove(S, to) = [i \in Items |-> BatchMove(S, to)[i]]
  BY DEF BatchMove
<1> QED  BY <1>1, <1>2, <1>3 DEF ItemsFrom, Advance, TypeOK, ItemsBelong

\* Leaving the items alone is allowed ...
LEMMA ItemsUnchangedType ==
  ASSUME TypeInv
  PROVE  ItemsFrom(items)
BY DEF ItemsFrom, Advance, TypeInv, TypeOK, ItemsBelong

\* ... and leaving the reservations alone.
LEMMA ReservationsUnchangedType ==
  ASSUME TypeOK
  PROVE  ReservationsFrom(reservations)
BY DEF ReservationsFrom, Advance, TypeOK

\* A change of status writes its reservation, and only that one's deadline goes.
LEMMA UpdateReservationStatusType ==
  ASSUME TypeOK, NEW r \in Reservations,
         NEW status \in ReservationStatus \ {"absent"},
         UpdateReservationStatus(r, status)
  PROVE  /\ ReservationsFrom(reservations')
         /\ DueKept
<1> DEFINE new == [reservations[r] EXCEPT !.status = status, !.version = @ + 1]
<1>1. /\ new \in ReservationRow /\ Advance(reservations[r], new)
      /\ new.version = reservations[r].version + 1
  <2>1. reservations[r] \in ReservationRow /\ reservations[r].version + 1 \in Nat
    BY DEF TypeOK, ReservationRow
  <2> QED  BY <2>1 DEF ReservationRow, Advance
<1>2. reservations' = [reservations EXCEPT ![r] = new]
  BY Zenon DEF UpdateReservationStatus
<1> HIDE DEF new
<1>3. ReservationsFrom(reservations')
  BY <1>1, <1>2 DEF ReservationsFrom, Advance, TypeOK
<1>4. DueKept
  BY <1>1, <1>2 DEF DueKept, UpdateReservationStatus, TypeOK
<1> QED  BY <1>3, <1>4

\* A change of dates or notes does too; a hold keeps its deadline.
LEMMA UpdateReservationMetadataType ==
  ASSUME TypeOK, NEW r \in Reservations \cup {NoReservation},
         NEW env \in [arr : Days, dep : Days],
         UpdateReservationMetadata(r, env)
  PROVE  /\ ReservationsFrom(reservations')
         /\ DueKept
<1>1. CASE r \in Reservations
  <2> DEFINE new == [reservations[r] EXCEPT !.env = env, !.version = @ + 1]
  <2>1. /\ new \in ReservationRow /\ Advance(reservations[r], new)
        /\ new.version = reservations[r].version + 1
    <3>1. reservations[r] \in ReservationRow /\ reservations[r].version + 1 \in Nat
      BY <1>1 DEF TypeOK, ReservationRow
    <3> QED  BY <3>1 DEF ReservationRow, Advance
  <2>2. reservations' = [reservations EXCEPT ![r] = new]
    BY Zenon DEF UpdateReservationMetadata
  <2> HIDE DEF new
  <2>3. ReservationsFrom(reservations')
    BY <1>1, <2>1, <2>2 DEF ReservationsFrom, Advance, TypeOK
  <2>4. DueKept
    BY <1>1, <2>1, <2>2 DEF DueKept, UpdateReservationMetadata, TypeOK
  <2> QED  BY <2>3, <2>4
<1>2. CASE r \notin Reservations
  <2>1. reservations' = reservations
    BY <1>2 DEF UpdateReservationMetadata, TypeOK
  <2> QED  BY <1>2, <2>1, ReservationsUnchangedType
           DEF DueKept, UpdateReservationMetadata, TypeOK
<1> QED  BY <1>1, <1>2

-----------------------------------------------------------------------------
(* The ledger.                                                             *)

\* The nights an item takes in a room are rows of the ledger.
LEMMA SoldRowsType ==
  ASSUME NEW i \in Items, NEW room \in Rooms, NEW nights \in SUBSET Days
  PROVE  SoldRows(i, room, nights) \subseteq LedgerRow
BY DEF SoldRows, LedgerRow

\* Moving an item's rows to another room leaves a well-formed ledger.
LEMMA MovedLedgerType ==
  ASSUME TypeOK, NEW i \in Items, NEW room \in Rooms
  PROVE  MovedLedger(i, room) \subseteq LedgerRow
<1>1. {l.night : l \in LedgerOf(i)} \in SUBSET Days
  BY DEF TypeOK, LedgerOf, LedgerRow
<1> QED  BY <1>1, SoldRowsType DEF MovedLedger, TypeOK

\* So does every way of shifting them to other nights.
LEMMA ShiftLedgerType ==
  ASSUME TypeOK, NEW i \in Items, NEW stay \in Stays, NEW room \in Rooms \cup {NoRoom},
         ShiftLedger(i, stay, room)
  PROVE  ledger' \subseteq LedgerRow
<1> DEFINE old == NightsBetween(items[i].stay)
           new == NightsBetween(stay)
<1>1. new \in SUBSET Days /\ new \ old \in SUBSET Days
  BY DEF NightsBetween
<1>2. room \in Rooms => /\ SoldRows(i, room, new) \subseteq LedgerRow
                        /\ SoldRows(i, room, new \ old) \subseteq LedgerRow
  BY <1>1, SoldRowsType
<1> HIDE DEF old, new
<1>3. \/ room \in Rooms /\ ledger' = (ledger \ LedgerOf(i)) \cup SoldRows(i, room, new)
      \/ ledger' \subseteq ledger
      \/ room \in Rooms /\ ledger' = ledger \cup SoldRows(i, room, new \ old)
  BY DEF ShiftLedger, old, new
<1> QED  BY <1>2, <1>3 DEF TypeOK

\* insertAllItems inserts typed rows for items that did not exist.
LEMMA InsertAllItemsType ==
  ASSUME TypeInv, NEW r \in Reservations, NEW new \in SUBSET Items,
         NEW input \in [new -> ItemInput], NEW pin \in [new -> Rooms],
         NEW status \in ItemStatus, InsertAllItems(r, new, input, status, pin)
  PROVE  ItemsFrom(items') /\ ledger' \subseteq LedgerRow
<1> USE DEF TypeInv
<1>1. ItemsFrom(items')
  <2>1. ASSUME NEW i \in new
        PROVE  /\ InsertedItem(r, input[i], status) \in ItemRow
               /\ InsertedItem(r, input[i], status).reservation = r
    <3>1. input[i] \in ItemInput
      OBVIOUS
    <3>2. input[i].rtype \in RoomTypes /\ input[i].room \in Rooms \cup {NoRoom}
          /\ input[i].stay \in [arr : Days, dep : Days]
      BY <3>1 DEF ItemInput, Stays
    <3> QED  BY <3>2 DEF InsertedItem, ItemRow
  <2>2. items' = [i \in Items |-> IF i \in new THEN InsertedItem(r, input[i], status)
                                               ELSE items[i]]
        /\ \A i \in new : items[i].status = "absent"
    BY DEF InsertAllItems
  <2> QED  BY <2>1, <2>2 DEF ItemsFrom, Advance, TypeOK, ItemsBelong
<1>2. ledger' \subseteq LedgerRow
  <2> DEFINE rows(i) == SoldRows(i, pin[i], NightsBetween(input[i].stay))
  <2>1. \A i \in new : rows(i) \subseteq LedgerRow
    <3>1. \A i \in new : NightsBetween(input[i].stay) \in SUBSET Days /\ pin[i] \in Rooms
      BY DEF NightsBetween
    <3> QED  BY <3>1, SoldRowsType
  <2>2. ledger' = ledger \cup UNION {rows(i) : i \in new}
    BY DEF InsertAllItems
  <2> HIDE DEF rows
  <2> QED  BY <2>1, <2>2 DEF TypeOK
<1> QED  BY <1>1, <1>2

\* So does selling the nights of reactivated items again.
LEMMA ReclaimInventoryType ==
  ASSUME TypeOK, NEW S \in SUBSET Items, NEW its, NEW pin \in [Items -> Rooms],
         ReclaimInventory(S, its, pin)
  PROVE  ledger' \subseteq LedgerRow
<1> DEFINE rows(i) == SoldRows(i, pin[i], NightsBetween(its[i].stay))
<1>1. \A i \in S : rows(i) \subseteq LedgerRow
  <2>1. \A i \in S : NightsBetween(its[i].stay) \in SUBSET Days /\ pin[i] \in Rooms
    BY DEF NightsBetween
  <2> QED  BY <2>1, SoldRowsType
<1>2. ledger' = ledger \cup UNION {rows(i) : i \in S}
  BY DEF ReclaimInventory
<1> HIDE DEF rows
<1> QED  BY <1>1, <1>2 DEF TypeOK

-----------------------------------------------------------------------------
(* Every step.                                                             *)

\* What a step may do to the tables and the calendar ...
Writes ==
  /\ ItemsFrom(items')
  /\ ReservationsFrom(reservations')
  /\ ledger' \subseteq LedgerRow
  /\ outbox' \in [Reservations -> Nat]
  /\ silent' \subseteq Reservations
  /\ DueKept
  /\ today' \in Days

\* ... and to the copies: some are dropped, or rows that exist are copied and
\* nothing is written.
ExistingReservations ==
  {ReservationCopyOf(r) : r \in {x \in Reservations : reservations[x].status # "absent"}}
ExistingItems ==
  {ItemCopyOf(i) : i \in {x \in Items : items[x].status # "absent"}}
DueHolds ==
  {ReservationCopyOf(r) : r \in {x \in due : reservations[x].status = "hold"}}

ClosedReservations ==
  {ReservationCopyOf(r) : r \in {x \in Reservations : reservations[x].status \in {"checked_out", "cancelled"}}}

CopiesKept ==
  /\ holdBatch' \subseteq holdBatch /\ archiveBatch' \subseteq archiveBatch
  /\ overstayBatch' \subseteq overstayBatch
  /\ reservationViews' \subseteq reservationViews /\ itemViews' \subseteq itemViews

CopiesMade ==
  /\ UNCHANGED <<reservations, items, due>>
  /\ holdBatch' \subseteq holdBatch \cup DueHolds
  /\ archiveBatch' \subseteq archiveBatch \cup ClosedReservations
  /\ overstayBatch' \subseteq overstayBatch \cup ExistingItems
  /\ reservationViews' \subseteq reservationViews \cup ExistingReservations
  /\ itemViews' \subseteq itemViews \cup ExistingItems

\* A write of existing rows that leaves the rest alone has the form of Writes.
LEMMA TablesUnchanged ==
  ASSUME TypeInv, UNCHANGED <<reservations, items, ledger, outbox, silent, due, today>>
  PROVE  Writes
BY ItemsUnchangedType, ReservationsUnchangedType DEF Writes, DueKept, TypeInv, TypeOK, ItemsFrom, ReservationsFrom, Advance

\* recomputeEnvelope writes its reservation, like any change of dates.
LEMMA RecomputeEnvelopeType ==
  ASSUME TypeOK, NEW r \in Reservations \cup {NoReservation}, NEW its,
         RecomputeEnvelope(r, its)
  PROVE  ReservationsFrom(reservations') /\ DueKept
<1>1. PICK env \in Stays : UpdateReservationMetadata(r, env)
  BY DEF RecomputeEnvelope
<1>2. env \in [arr : Days, dep : Days]
  BY DEF Stays
<1> QED  BY <1>1, <1>2, UpdateReservationMetadataType

\* Requests on a reservation write rows that way.
LEMMA ReservationRequestStep ==
  ASSUME TypeInv, NEW r \in Reservations, ReservationRequest(r)
  PROVE  Writes /\ (CopiesKept \/ CopiesMade)
<1> USE DEF TypeInv
<1>1. ASSUME NEW origin \in Origins, NEW new \in SUBSET Items \ {{}},
             NEW input \in [new -> ItemInput], NEW pin \in [new -> Rooms],
             CreateReservation(r, origin, new, input, pin)
      PROVE  Writes /\ CopiesKept
  <2> DEFINE initial == SourceToInitialStatus[origin]
  <2>1. initial.reservation \in ReservationStatus \ {"absent"} /\ initial.item \in ItemStatus
    BY DEF SourceToInitialStatus, Origins, ReservationStatus, ItemStatus
  <2> HIDE DEF initial
  <2>2. ItemsFrom(items') /\ ledger' \subseteq LedgerRow
    <3>1. InsertAllItems(r, new, input, initial.item, pin)
      BY <1>1 DEF CreateReservation, initial
    <3> QED  BY <2>1, <3>1, InsertAllItemsType
  <2>3. ReservationsFrom(reservations')
    <3>1. PICK env \in Stays :
            reservations' = [reservations EXCEPT
              ![r] = [status |-> initial.reservation, version |-> 1, env |-> env]]
      BY <1>1 DEF CreateReservation, initial
    <3>2. [status |-> initial.reservation, version |-> 1, env |-> env] \in ReservationRow
      BY <2>1 DEF ReservationRow, Stays
    <3>3. reservations[r].status = "absent"
      BY <1>1 DEF CreateReservation
    <3> QED  BY <3>1, <3>2, <3>3 DEF ReservationsFrom, Advance, TypeOK
  <2>4. outbox' \in [Reservations -> Nat] /\ silent' \subseteq Reservations
    BY <1>1 DEF CreateReservation, NotifyReservationChange, TypeOK
  <2>5. UNCHANGED <<today, due, batches, views>>
    BY <1>1 DEF CreateReservation
  <2> QED  BY <2>2, <2>3, <2>4, <2>5 DEF Writes, DueKept, CopiesKept, batches, views, TypeOK
<1>2. CASE ConfirmReservation(r)
  <2>1. ReservationsFrom(reservations') /\ DueKept
    BY <1>2, UpdateReservationStatusType DEF ConfirmReservation, ReservationStatus
  <2> QED  BY <1>2, <2>1, ItemsUnchangedType
           DEF ConfirmReservation, NotifyReservationChange, Writes, DueKept, CopiesKept,
               batches, views, TypeOK
<1>3. CASE CancelReservation(r)
  <2>1. ReservationsFrom(reservations') /\ DueKept
    BY <1>3, UpdateReservationStatusType DEF CancelReservation, ReservationStatus
  <2>2. ItemsFrom(items')
    BY <1>3, CancelReservationItemsType DEF CancelReservation
  <2> QED  BY <1>3, <2>1, <2>2
           DEF CancelReservation, NotifyReservationChange, Writes, DueKept, CopiesKept,
               batches, views, TypeOK
<1>4. CASE CheckinReservation(r)
  <2> DEFINE ready == {i \in LiveItemsOf(items, r) :
                         items[i].status = "booked" /\ items[i].room # NoRoom}
  <2>1. ready \in SUBSET Items /\ \A i \in ready : items[i].status # "absent"
    BY DEF LiveItemsOf, Live
  <2>2. items' = BatchMove(ready, "checked_in")
    BY <1>4 DEF CheckinReservation
  <2> HIDE DEF ready
  <2>3. ItemsFrom(items')
    BY <2>1, <2>2, BatchMoveType DEF ItemStatus
  <2> QED  BY <1>4, <2>3, ReservationsUnchangedType
           DEF CheckinReservation, RollupAndNotify, Writes, DueKept, CopiesKept, batches, views, TypeOK
<1>5. CASE CheckoutReservation(r)
  <2> DEFINE ready == {i \in LiveItemsOf(items, r) : items[i].status = "checked_in"}
  <2>1. ready \in SUBSET Items /\ \A i \in ready : items[i].status # "absent"
    BY DEF LiveItemsOf, Live
  <2>2. items' = BatchMove(ready, "checked_out")
    BY <1>5 DEF CheckoutReservation
  <2> HIDE DEF ready
  <2>3. ItemsFrom(items')
    BY <2>1, <2>2, BatchMoveType DEF ItemStatus
  <2> QED  BY <1>5, <2>3, ReservationsUnchangedType
           DEF CheckoutReservation, RollupAndNotify, Writes, DueKept, CopiesKept, batches, views, TypeOK
<1>6. ASSUME NEW pin \in [Items -> Rooms], ReactivateReservation(r, pin)
      PROVE  Writes /\ CopiesKept
  <2>1. ReservationsFrom(reservations') /\ DueKept
    BY <1>6, UpdateReservationStatusType DEF ReactivateReservation, ReservationStatus
  <2>2. ItemsFrom(items')
    BY <1>6, ReactivateReservationItemsType DEF ReactivateReservation
  <2>3. ledger' \subseteq LedgerRow
    <3> DEFINE its == ReactivateReservationItems(r)
    <3>1. ReclaimInventory(LiveItemsOf(its, r), its, pin)
      BY <1>6 DEF ReactivateReservation
    <3>2. LiveItemsOf(its, r) \in SUBSET Items
      BY DEF LiveItemsOf, Live
    <3> QED  BY <3>1, <3>2, ReclaimInventoryType
  <2> QED  BY <1>6, <2>1, <2>2, <2>3
           DEF ReactivateReservation, NotifyReservationChange, Writes, DueKept, CopiesKept,
               batches, views, TypeOK
<1>7. ASSUME NEW i \in Items, NEW input \in ItemInput, NEW room \in Rooms,
             AddItem(r, i, input, room)
      PROVE  Writes /\ CopiesKept
  <2>1. ItemsFrom(items') /\ ledger' \subseteq LedgerRow
    <3>1. InsertAllItems(r, {i}, [j \in {i} |-> input], "booked", [j \in {i} |-> room])
      BY <1>7 DEF AddItem
    <3> QED  BY <3>1, InsertAllItemsType DEF ItemStatus
  <2>2. ReservationsFrom(reservations') /\ DueKept
    BY <1>7, RecomputeEnvelopeType DEF AddItem
  <2> QED  BY <1>7, <2>1, <2>2
           DEF AddItem, NotifyReservationChange, Writes, DueKept, CopiesKept, batches, views, TypeOK
<1>8. CASE UpdateMetadata(r)
  <2>1. reservations[r].env \in [arr : Days, dep : Days]
    BY DEF TypeOK, ReservationRow
  <2>2. ReservationsFrom(reservations') /\ DueKept
    BY <1>8, <2>1, UpdateReservationMetadataType DEF UpdateMetadata
  <2> QED  BY <1>8, <2>2, ItemsUnchangedType
           DEF UpdateMetadata, NotifyReservationChange, Writes, DueKept, CopiesKept,
               batches, views, TypeOK
<1>9. CASE GetReservation(r)
  <2>1. Writes
    BY <1>9, TablesUnchanged DEF GetReservation, tables
  <2> QED  BY <1>9, <2>1 DEF GetReservation, CopiesMade, ExistingReservations, tables, batches
<1> QED  BY <1>1, <1>2, <1>3, <1>4, <1>5, <1>6, <1>7, <1>8, <1>9 DEF ReservationRequest

\* The facts about a live item that its handlers rest on.
LEMMA LiveItem ==
  ASSUME TypeInv, NEW i \in Items, i \in Live(items)
  PROVE  /\ items[i].status \in ItemStatus \ {"absent"}
         /\ items[i].reservation \in Reservations
         /\ items[i].room \in Rooms \cup {NoRoom}
         /\ items[i].stay \in [arr : Days, dep : Days]
         /\ items[i].rtype \in RoomTypes
BY DEF TypeInv, TypeOK, ItemsBelong, Live, ItemRow

\* Requests on an item write rows that way.
LEMMA ItemRequestStep ==
  ASSUME TypeInv, NEW i \in Items, ItemRequest(i)
  PROVE  Writes /\ (CopiesKept \/ CopiesMade)
<1> USE DEF TypeInv
<1>0. i \in Live(items)
  BY DEF ItemRequest, CancelItem, CheckinItem, CheckoutItem, MarkNoShow, UpdateItemRoomType,
         UpdateItemRatePlan, UpdateItem, AssignRoom, GetReservationItem
<1> DEFINE r == items[i].reservation
<1>l. /\ items[i].status \in ItemStatus \ {"absent"}
      /\ r \in Reservations
      /\ items[i].room \in Rooms \cup {NoRoom}
      /\ items[i].stay \in [arr : Days, dep : Days]
      /\ items[i].rtype \in RoomTypes
  BY <1>0, LiveItem
<1> HIDE DEF r
<1>s. \A s \in ItemStatus \ {"absent"} : ItemsFrom(ItemWithStatus(i, s))
  BY <1>l, ItemWithStatusType
<1>n. /\ silent \cup {r} \subseteq Reservations
      /\ silent \ {r} \subseteq Reservations
  BY <1>l DEF TypeOK
<1>1. CASE CancelItem(i)
  <2>1. ItemsFrom(items')
    BY <1>1, <1>s DEF CancelItem, ItemStatus
  <2> QED  BY <1>1, <1>n, <2>1, ReservationsUnchangedType
           DEF r, CancelItem, RollupAndNotify, Writes, DueKept, CopiesKept, batches, views, TypeOK
<1>2. CASE CheckinItem(i)
  <2>1. ItemsFrom(items')
    BY <1>2, <1>s DEF CheckinItem, ItemStatus
  <2> QED  BY <1>2, <1>n, <2>1, ReservationsUnchangedType
           DEF r, CheckinItem, RollupAndNotify, Writes, DueKept, CopiesKept, batches, views, TypeOK
<1>3. CASE CheckoutItem(i)
  <2>1. ItemsFrom(items')
    BY <1>3, <1>s DEF CheckoutItem, ItemStatus
  <2> QED  BY <1>3, <1>n, <2>1, ReservationsUnchangedType
           DEF r, CheckoutItem, RollupAndNotify, Writes, DueKept, CopiesKept, batches, views, TypeOK
<1>4. CASE MarkNoShow(i)
  <2>1. ItemsFrom(items')
    BY <1>4, <1>s DEF MarkNoShow, ItemStatus
  <2> QED  BY <1>4, <1>n, <2>1, ReservationsUnchangedType
           DEF r, MarkNoShow, RollupAndNotify, Writes, DueKept, CopiesKept, batches, views, TypeOK
<1>5. ASSUME NEW rtype \in RoomTypes, UpdateItemRoomType(i, rtype)
      PROVE  Writes /\ CopiesKept
  <2>1. ItemsFrom(items')
    BY <1>5, <1>l, UpdatedItemType DEF UpdateItemRoomType
  <2> QED  BY <1>5, <1>n, <2>1, ReservationsUnchangedType
           DEF r, UpdateItemRoomType, NotifyReservationChange, Writes, DueKept, CopiesKept,
               batches, views, TypeOK
<1>6. CASE UpdateItemRatePlan(i)
  <2>1. ItemsFrom(items')
    BY <1>6, <1>l, <1>s DEF UpdateItemRatePlan
  <2> QED  BY <1>6, <1>n, <2>1, ReservationsUnchangedType
           DEF r, UpdateItemRatePlan, NotifyReservationChange, Writes, DueKept, CopiesKept,
               batches, views, TypeOK
<1>7. ASSUME NEW stay \in Stays, NEW input \in Rooms \cup {NoRoom},
             UpdateItem(i, stay, input)
      PROVE  Writes /\ CopiesKept
  <2> DEFINE room == IF input # NoRoom THEN input ELSE items[i].room
  <2>1. room \in Rooms \cup {NoRoom} /\ stay \in [arr : Days, dep : Days]
    BY <1>l DEF Stays
  <2>2. /\ items' = UpdatedItem(i, items[i].status, room, stay, items[i].rtype)
        /\ \/ /\ ShiftLedger(i, stay, room)
              /\ RecomputeEnvelope(r, items)
           \/ /\ room # items[i].room
              /\ ledger' = MovedLedger(i, room)
              /\ UNCHANGED <<reservations, due>>
           \/ UNCHANGED <<reservations, ledger, due>>
        /\ input # NoRoom \/ room = items[i].room
        /\ silent' = silent \ {r}
        /\ UNCHANGED <<outbox, today, batches, views>>
    BY <1>7 DEF UpdateItem, NotifyReservationChange, r
  <2> HIDE DEF room
  <2>3. ItemsFrom(items')
    BY <1>0, <1>l, <2>1, <2>2, UpdatedItemType
  <2>4. /\ ReservationsFrom(reservations') /\ DueKept
        /\ ledger' \subseteq LedgerRow
    <3>1. CASE ShiftLedger(i, stay, room) /\ RecomputeEnvelope(r, items)
      BY <1>l, <2>1, <3>1, ShiftLedgerType, RecomputeEnvelopeType
    <3>2. CASE /\ room # items[i].room
               /\ ledger' = MovedLedger(i, room)
               /\ UNCHANGED <<reservations, due>>
      <4>1. room \in Rooms
        BY <2>1, <2>2, <3>2 DEF room
      <4> QED  BY <3>2, <4>1, MovedLedgerType, ReservationsUnchangedType DEF TypeOK, DueKept
    <3>3. CASE UNCHANGED <<reservations, ledger, due>>
      BY <3>3, ReservationsUnchangedType DEF TypeOK, DueKept
    <3> QED  BY <2>2, <3>1, <3>2, <3>3
  <2> QED  BY <1>n, <2>2, <2>3, <2>4 DEF Writes, DueKept, CopiesKept, batches, views, TypeOK
<1>8. ASSUME NEW room \in Rooms, AssignRoom(i, room)
      PROVE  Writes /\ CopiesKept
  <2>1. ItemsFrom(items')
    BY <1>8, <1>l, UpdatedItemType DEF AssignRoom
  <2>2. ledger' \subseteq LedgerRow
    BY <1>8, MovedLedgerType DEF AssignRoom
  <2> QED  BY <1>8, <1>n, <2>1, <2>2, ReservationsUnchangedType
           DEF r, AssignRoom, NotifyReservationChange, Writes, DueKept, CopiesKept,
               batches, views, TypeOK
<1>9. CASE GetReservationItem(i)
  <2>1. Writes
    BY <1>9, TablesUnchanged DEF GetReservationItem, tables
  <2> QED  BY <1>9, <1>l, <2>1 DEF GetReservationItem, CopiesMade, ExistingItems, tables, batches
<1> QED  BY <1>1, <1>2, <1>3, <1>4, <1>5, <1>6, <1>7, <1>8, <1>9 DEF ItemRequest

\* The sweeps write rows that way, and only they make or drop their copies.
LEMMA SweepStep ==
  ASSUME TypeInv, Sweep
  PROVE  Writes /\ (CopiesKept \/ CopiesMade)
<1> USE DEF TypeInv
<1>1. ASSUME NEW S \in SUBSET Reservations, FindExpiredHolds(S)
      PROVE  Writes /\ CopiesMade
  <2>1. Writes
    BY <1>1, TablesUnchanged DEF FindExpiredHolds, tables
  <2> QED  BY <1>1, <2>1 DEF FindExpiredHolds, CopiesMade, DueHolds, tables, views
<1>2. ASSUME NEW S \in SUBSET Reservations, FindArchivableReservations(S)
      PROVE  Writes /\ CopiesMade
  <2>1. Writes
    BY <1>2, TablesUnchanged DEF FindArchivableReservations, tables
  <2> QED  BY <1>2, <2>1
           DEF FindArchivableReservations, CopiesMade, ClosedReservations, tables, views
<1>3. ASSUME NEW S \in SUBSET Items, FindOverstays(S)
      PROVE  Writes /\ CopiesMade
  <2>1. Writes
    BY <1>3, TablesUnchanged DEF FindOverstays, tables
  <2> QED  BY <1>3, <2>1 DEF FindOverstays, CopiesMade, ExistingItems, tables, views
<1>4. ASSUME NEW copy \in holdBatch, CancelHoldTx(copy)
      PROVE  Writes /\ CopiesKept
  <2>1. copy.id \in Reservations
    BY DEF TypeOK, ReservationCopy
  <2>2. CASE reservations[copy.id].version = copy.row.version
    <3>1. ReservationsFrom(reservations') /\ DueKept
      BY <1>4, <2>1, <2>2, UpdateReservationStatusType DEF CancelHoldTx, ReservationStatus
    <3>2. ItemsFrom(items')
      BY <1>4, <2>1, <2>2, CancelReservationItemsType DEF CancelHoldTx
    <3> QED  BY <1>4, <2>2, <3>1, <3>2
             DEF CancelHoldTx, NotifyReservationChange, Writes, DueKept, CopiesKept, views, TypeOK
  <2>3. CASE reservations[copy.id].version # copy.row.version
    BY <1>4, <2>3, TablesUnchanged DEF CancelHoldTx, CopiesKept, views
  <2> QED  BY <2>2, <2>3
<1>5. ASSUME NEW copy \in overstayBatch, MarkOverstayTx(copy)
      PROVE  Writes /\ CopiesKept
  <2>1. copy.id \in Items /\ copy.row \in ItemRow
    BY DEF TypeOK, ItemCopy
  <2>2. /\ copy.row.room \in Rooms \cup {NoRoom} /\ copy.row.stay \in [arr : Days, dep : Days]
        /\ copy.row.rtype \in RoomTypes
    BY <2>1 DEF ItemRow
  <2>3. CASE /\ items[copy.id].status = "checked_in"
             /\ items[copy.id].version = copy.row.version
    <3>1. ItemsFrom(items')
      BY <1>5, <2>1, <2>2, <2>3, UpdatedItemType DEF MarkOverstayTx, ItemStatus
    <3> QED  BY <1>5, <2>1, <2>3, <3>1, ReservationsUnchangedType
             DEF MarkOverstayTx, NotifyReservationChange, Writes, DueKept, CopiesKept, views, TypeOK
  <2>4. CASE ~(/\ items[copy.id].status = "checked_in"
               /\ items[copy.id].version = copy.row.version)
    BY <1>5, <2>4, TablesUnchanged DEF MarkOverstayTx, CopiesKept, views
  <2> QED  BY <2>3, <2>4
<1>6. ASSUME NEW copy \in archiveBatch, ArchiveReservationTx(copy)
      PROVE  Writes /\ CopiesKept
  <2>1. copy.id \in Reservations
    BY DEF TypeOK, ReservationCopy
  <2>2. CASE reservations[copy.id].version = copy.row.version
    <3>1. ReservationsFrom(reservations') /\ DueKept
      BY <1>6, <2>1, <2>2, UpdateReservationStatusType DEF ArchiveReservationTx, ReservationStatus
    <3>2. ItemsFrom(items')
      BY <1>6, <2>1, <2>2, SoftDeleteItemsType DEF ArchiveReservationTx
    <3> QED  BY <1>6, <2>2, <3>1, <3>2
             DEF ArchiveReservationTx, NotifyReservationChange, Writes, DueKept, CopiesKept, views, TypeOK
  <2>3. CASE reservations[copy.id].version # copy.row.version
    BY <1>6, <2>3, TablesUnchanged DEF ArchiveReservationTx, CopiesKept, views
  <2> QED  BY <2>2, <2>3
<1>7. CASE RestartServer
  <2>1. Writes
    BY <1>7, TablesUnchanged DEF RestartServer, tables
  <2> QED  BY <1>7, <2>1 DEF RestartServer, CopiesKept, views
<1> QED  BY <1>1, <1>2, <1>3, <1>4, <1>5, <1>6, <1>7 DEF Sweep

\* Every step writes rows that way.
LEMMA NextStep ==
  ASSUME TypeInv, [Next]_vars
  PROVE  Writes /\ (CopiesKept \/ CopiesMade)
<1>1. ASSUME NEW r \in Reservations, DeadlinePasses(r)
      PROVE  Writes /\ CopiesKept
  BY <1>1, ItemsUnchangedType, ReservationsUnchangedType
     DEF DeadlinePasses, Writes, DueKept, CopiesKept, batches, views, TypeInv, TypeOK
<1>2. CASE NextDay
  <2>1. today + 1 \in Days
    BY <1>2, BookingAssumption DEF NextDay, TypeInv, TypeOK, Days
  <2> QED  BY <1>2, <2>1, ItemsUnchangedType, ReservationsUnchangedType
           DEF NextDay, Writes, DueKept, CopiesKept, tables, batches, views, TypeInv, TypeOK
<1>3. CASE UNCHANGED vars
  BY <1>3, TablesUnchanged DEF vars, CopiesKept
<1> QED  BY <1>1, <1>2, <1>3, ReservationRequestStep, ItemRequestStep, SweepStep DEF Next

-----------------------------------------------------------------------------
(* Type correctness.                                                       *)

\* The empty tables are well formed.
LEMMA TypeInvInit ==
  ASSUME Init
  PROVE  TypeInv
<1>1. [status |-> "absent", version |-> 0, env |-> [arr |-> 0, dep |-> 0]] \in ReservationRow
  BY BookingAssumption DEF ReservationRow, ReservationStatus, Days
<1>2. \A t \in RoomTypes :
        [reservation |-> NoReservation, rtype |-> t, room |-> NoRoom,
         stay |-> [arr |-> 0, dep |-> 0], status |-> "absent", version |-> 0,
         deleted |-> FALSE] \in ItemRow
  BY BookingAssumption DEF ItemRow, ItemStatus, Days
<1> QED  BY <1>1, <1>2, BookingAssumption
         DEF Init, TypeInv, TypeOK, ItemsBelong, AbsentReservation, NoStay, Days

\* Every step keeps the tables, batches and copies well formed.
LEMMA TypeInvStep ==
  ASSUME TypeInv, [Next]_vars
  PROVE  TypeInv'
<1>1. Writes /\ (CopiesKept \/ CopiesMade)
  BY NextStep
<1>2. /\ DueHolds \subseteq ReservationCopy /\ ClosedReservations \subseteq ReservationCopy
      /\ ExistingReservations \subseteq ReservationCopy /\ ExistingItems \subseteq ItemCopy
  BY DEF DueHolds, ClosedReservations, ExistingReservations, ExistingItems, ReservationCopyOf, ItemCopyOf,
         ReservationCopy, ItemCopy, TypeInv, TypeOK
<1>3. /\ holdBatch' \subseteq ReservationCopy /\ archiveBatch' \subseteq ReservationCopy
      /\ overstayBatch' \subseteq ItemCopy
      /\ reservationViews' \subseteq ReservationCopy /\ itemViews' \subseteq ItemCopy
  BY <1>1, <1>2 DEF CopiesKept, CopiesMade, TypeInv, TypeOK
<1>4. ItemsBelong'
  BY <1>1 DEF Writes, ItemsFrom, ItemsBelong
<1> QED  BY <1>1, <1>3, <1>4 DEF Writes, DueKept, ItemsFrom, ReservationsFrom, TypeInv, TypeOK

\* The tables, the sweeps' batches and the clients' copies always have the
\* shape the migrations give them, whatever the service methods of
\* internal/booking and the sweeps do and in whichever order.
THEOREM TypeCorrect == Spec => []TypeOK
<1>1. Init => TypeInv
  BY TypeInvInit
<1>2. TypeInv /\ [Next]_vars => TypeInv'
  BY TypeInvStep
<1>3. TypeInv => TypeOK
  BY DEF TypeInv
<1> QED  BY <1>1, <1>2, <1>3, PTL DEF Spec

-----------------------------------------------------------------------------
(* Optimistic locking.                                                     *)

\* A copy is of a row that exists, no newer than the row, and equal to it if
\* it has its version.
Fits(copy, row) ==
  /\ row.status # "absent"
  /\ copy.row.version <= row.version
  /\ copy.row.version = row.version => copy.row = row

\* VersionsIdentifyRows alone is not inductive: a copy with a version the row
\* has yet to reach would meet another row under it.
CopiesFit ==
  /\ \A c \in holdBatch \cup archiveBatch \cup reservationViews : Fits(c, reservations[c.id])
  /\ \A c \in overstayBatch \cup itemViews : Fits(c, items[c.id])

\* A write advances the version, so a copy that still fits equals the row.
LEMMA CopiesFitStep ==
  ASSUME TypeInv, CopiesFit, [Next]_vars
  PROVE  CopiesFit'
<1>1. Writes /\ (CopiesKept \/ CopiesMade)
  BY NextStep
<1>2. ASSUME NEW c \in ReservationCopy, Fits(c, reservations[c.id])
      PROVE  Fits(c, reservations'[c.id])
  <2>1. /\ c.id \in Reservations /\ c.row.version \in Nat
        /\ reservations[c.id].version \in Nat
    BY DEF ReservationCopy, ReservationRow, TypeInv, TypeOK
  <2>2. Advance(reservations[c.id], reservations'[c.id])
    BY <1>1, <2>1 DEF Writes, ReservationsFrom
  <2> QED  BY <1>2, <2>1, <2>2 DEF Advance, Fits
<1>3. ASSUME NEW c \in ItemCopy, Fits(c, items[c.id])
      PROVE  Fits(c, items'[c.id])
  <2>1. /\ c.id \in Items /\ c.row.version \in Nat
        /\ items[c.id].version \in Nat
    BY DEF ItemCopy, ItemRow, TypeInv, TypeOK
  <2>2. Advance(items[c.id], items'[c.id])
    BY <1>1, <2>1 DEF Writes, ItemsFrom
  <2> QED  BY <1>3, <2>1, <2>2 DEF Advance, Fits
<1>4. CASE CopiesKept
  BY <1>2, <1>3, <1>4 DEF CopiesKept, CopiesFit, TypeInv, TypeOK
<1>5. CASE CopiesMade
  <2>1. \A c \in ExistingReservations : Fits(c, reservations[c.id])
    <3>1. \A r \in Reservations : reservations[r].version <= reservations[r].version
      BY DEF TypeInv, TypeOK, ReservationRow
    <3> QED  BY <3>1 DEF ExistingReservations, ReservationCopyOf, Fits
  <2>2. \A c \in ExistingItems : Fits(c, items[c.id])
    <3>1. \A i \in Items : items[i].version <= items[i].version
      BY DEF TypeInv, TypeOK, ItemRow
    <3> QED  BY <3>1 DEF ExistingItems, ItemCopyOf, Fits
  <2>3. DueHolds \subseteq ExistingReservations /\ ClosedReservations \subseteq ExistingReservations
    BY DEF DueHolds, ClosedReservations, ExistingReservations, TypeInv, TypeOK
  <2> QED  BY <1>5, <2>1, <2>2, <2>3 DEF CopiesMade, CopiesFit
<1> QED  BY <1>1, <1>4, <1>5

\* Whoever holds a copy of a row, the client with its If-Match or a sweep with
\* its batch, and finds the version unchanged, has the row as it is now: the
\* WHERE id = @id AND version = @version of the store's updates has no ABA.
THEOREM VersionsAreIdentities == Spec => []VersionsIdentifyRows
<1>1. Init => TypeInv /\ CopiesFit
  BY TypeInvInit DEF Init, CopiesFit
<1>2. TypeInv /\ CopiesFit /\ [Next]_vars => TypeInv' /\ CopiesFit'
  BY TypeInvStep, CopiesFitStep
<1>3. CopiesFit => VersionsIdentifyRows
  BY DEF CopiesFit, Fits, VersionsIdentifyRows
<1> QED  BY <1>1, <1>2, <1>3, PTL DEF Spec

-----------------------------------------------------------------------------
(* The hold-expiry sweep.                                                  *)

\* The sweep has found due holds, and as long as the version is the one found
\* the deadline has not been taken back.
HoldsFoundDue ==
  \A c \in holdBatch :
    /\ c.row.status = "hold"
    /\ c.row.version = reservations[c.id].version => c.id \in due

\* A found hold whose version is current is a hold past its deadline.
LEMMA HoldsFoundDueStep ==
  ASSUME TypeInv, CopiesFit, HoldsFoundDue, [Next]_vars
  PROVE  HoldsFoundDue'
<1>1. Writes /\ (CopiesKept \/ CopiesMade)
  BY NextStep
<1>2. CASE CopiesKept
  <2> SUFFICES ASSUME NEW c \in holdBatch, c.row.version = reservations'[c.id].version
               PROVE  c.id \in due'
    BY <1>2 DEF CopiesKept, HoldsFoundDue
  <2>1. /\ c.id \in Reservations /\ c.row.version \in Nat
        /\ reservations[c.id].version \in Nat
    BY DEF ReservationCopy, ReservationRow, TypeInv, TypeOK
  <2>2. Advance(reservations[c.id], reservations'[c.id]) /\ Fits(c, reservations[c.id])
    BY <1>1, <2>1 DEF Writes, ReservationsFrom, CopiesFit
  <2>3. c.row.version = reservations[c.id].version
    BY <2>1, <2>2 DEF Advance, Fits
  <2>4. c.id \in due
    BY <2>3 DEF HoldsFoundDue
  <2>5. reservations'[c.id].version # reservations[c.id].version + 1
    BY <2>1, <2>3
  <2> QED  BY <1>1, <2>4, <2>5 DEF Writes, DueKept
<1>3. CASE CopiesMade
  BY <1>3 DEF CopiesMade, DueHolds, ReservationCopyOf, HoldsFoundDue
<1> QED  BY <1>1, <1>2, <1>3

\* cancelHoldTx cancels only what is, at that moment, a hold past its expiry:
\* a confirmation or an edit that commits after FindExpiredHolds wins.
THEOREM SweepIsSafe == Spec => SweepCancelsOnlyExpiredHolds
<1> DEFINE Inv == TypeInv /\ CopiesFit /\ HoldsFoundDue
           A   == \A c \in holdBatch :
                    CancelHoldTx(c) /\ reservations'[c.id] # reservations[c.id]
                      => reservations[c.id].status = "hold" /\ c.id \in due
<1>1. Init => Inv
  BY TypeInvInit DEF Init, CopiesFit, HoldsFoundDue
<1>2. Inv /\ [Next]_vars => Inv'
  BY TypeInvStep, CopiesFitStep, HoldsFoundDueStep
<1>3. Inv => A
  <2> SUFFICES ASSUME Inv, NEW c \in holdBatch, CancelHoldTx(c),
                      reservations'[c.id] # reservations[c.id]
               PROVE  reservations[c.id].status = "hold" /\ c.id \in due
    OBVIOUS
  <2>1. reservations[c.id].version = c.row.version
    BY DEF CancelHoldTx
  <2>2. c.row = reservations[c.id]
    BY <2>1 DEF CopiesFit, Fits
  <2> QED  BY <2>1, <2>2 DEF HoldsFoundDue
<1>4. Inv /\ [Next]_vars => [A]_vars
  BY <1>3
<1> HIDE DEF Inv
<1> QED  BY <1>1, <1>2, <1>4, PTL DEF Spec, SweepCancelsOnlyExpiredHolds

-----------------------------------------------------------------------------
(* What the writes leave of an item.                                       *)

\* The item j of "its" is for the same reservation, room and nights as now.
SamePlace(its, j) ==
  /\ its[j].reservation = items[j].reservation
  /\ its[j].room = items[j].room /\ its[j].stay = items[j].stay

\* UpdateReservationItem writes one item, and never its reservation or deleted_at.
LEMMA UpdatedItemFields ==
  ASSUME TypeInv, NEW i \in Items, NEW status, NEW room, NEW stay, NEW rtype,
         NEW its, its = UpdatedItem(i, status, room, stay, rtype)
  PROVE  /\ \A j \in Items : j # i => its[j] = items[j]
         /\ its[i].reservation = items[i].reservation /\ its[i].deleted = items[i].deleted
         /\ its[i].status = status /\ its[i].room = room /\ its[i].stay = stay
<1> DEFINE new == [items[i] EXCEPT !.status = status, !.room = room, !.stay = stay,
                                   !.rtype = rtype, !.version = @ + 1]
<1>1. its = [items EXCEPT ![i] = new]
  BY Zenon DEF UpdatedItem
<1>2. /\ new.reservation = items[i].reservation /\ new.deleted = items[i].deleted
      /\ new.status = status /\ new.room = room /\ new.stay = stay
  <2>1. items[i] \in ItemRow
    BY DEF TypeInv, TypeOK
  <2> QED  BY <2>1 DEF ItemRow
<1> HIDE DEF new
<1> QED  BY <1>1, <1>2 DEF TypeInv, TypeOK

\* A change of status keeps the place of the item.
LEMMA ItemWithStatusFields ==
  ASSUME TypeInv, NEW i \in Items, NEW status, NEW its, its = ItemWithStatus(i, status)
  PROVE  /\ \A j \in Items : SamePlace(its, j) /\ its[j].deleted = items[j].deleted
         /\ \A j \in Items : j # i => its[j] = items[j]
         /\ its[i].status = status
BY UpdatedItemFields DEF ItemWithStatus, SamePlace

\* A batch check-in or check-out changes the status of the accepted items.
LEMMA BatchMoveFields ==
  ASSUME TypeInv, NEW S \in SUBSET Items, NEW to, NEW its, its = BatchMove(S, to), NEW j \in Items
  PROVE  /\ SamePlace(its, j) /\ its[j].deleted = items[j].deleted
         /\ its[j].status = IF j \in S THEN to ELSE items[j].status
<1> DEFINE new == [items[j] EXCEPT !.status = to, !.version = @ + 1]
<1>1. its[j] = IF j \in S THEN new ELSE items[j]
  BY DEF BatchMove
<1>2. /\ new.reservation = items[j].reservation /\ new.deleted = items[j].deleted
      /\ new.status = to /\ new.room = items[j].room /\ new.stay = items[j].stay
  <2>1. items[j] \in ItemRow
    BY DEF TypeInv, TypeOK
  <2> QED  BY <2>1 DEF ItemRow
<1> HIDE DEF new
<1> QED  BY <1>1, <1>2 DEF SamePlace

\* CancelReservationItems cancels and deletes the items still open, in their place.
LEMMA CancelReservationItemsFields ==
  ASSUME TypeInv, NEW r, NEW its, its = CancelReservationItems(r), NEW j \in Items
  PROVE  /\ SamePlace(its, j)
         /\ \/ /\ its[j] = items[j]
               /\ items[j].reservation = r => items[j].status \in {"checked_out", "cancelled", "archived"}
            \/ /\ items[j].reservation = r /\ its[j].status = "cancelled" /\ its[j].deleted
               /\ items[j].status \notin {"checked_out", "cancelled", "archived"}
<1> DEFINE new == [items[j] EXCEPT !.status = "cancelled", !.deleted = TRUE, !.version = @ + 1]
<1>1. \/ /\ its[j] = items[j]
         /\ items[j].reservation = r => items[j].status \in {"checked_out", "cancelled", "archived"}
      \/ /\ its[j] = new /\ items[j].reservation = r
         /\ items[j].status \notin {"checked_out", "cancelled", "archived"}
  BY DEF CancelReservationItems
<1>2. /\ new.reservation = items[j].reservation /\ new.deleted
      /\ new.status = "cancelled" /\ new.room = items[j].room /\ new.stay = items[j].stay
  <2>1. items[j] \in ItemRow
    BY DEF TypeInv, TypeOK
  <2> QED  BY <2>1 DEF ItemRow
<1> HIDE DEF new
<1> QED  BY <1>1, <1>2 DEF SamePlace

\* ReactivateReservationItems restores exactly what was cancelled and deleted.
LEMMA ReactivateReservationItemsFields ==
  ASSUME TypeInv, NEW r, NEW its, its = ReactivateReservationItems(r), NEW j \in Items
  PROVE  /\ SamePlace(its, j)
         /\ \/ its[j] = items[j]
            \/ /\ items[j].reservation = r /\ items[j].status = "cancelled" /\ items[j].deleted
               /\ its[j].status = "booked" /\ ~its[j].deleted
<1> DEFINE new == [items[j] EXCEPT !.status = "booked", !.deleted = FALSE, !.version = @ + 1]
<1>1. \/ its[j] = items[j]
      \/ its[j] = new /\ items[j].reservation = r /\ items[j].status = "cancelled" /\ items[j].deleted
  BY DEF ReactivateReservationItems
<1>2. /\ new.reservation = items[j].reservation /\ ~new.deleted
      /\ new.status = "booked" /\ new.room = items[j].room /\ new.stay = items[j].stay
  <2>1. items[j] \in ItemRow
    BY DEF TypeInv, TypeOK
  <2> QED  BY <2>1 DEF ItemRow
<1> HIDE DEF new
<1> QED  BY <1>1, <1>2 DEF SamePlace

\* Archiving deletes the items of its reservation and keeps their status.
LEMMA SoftDeleteItemsFields ==
  ASSUME TypeInv, NEW r, NEW its, its = SoftDeleteItems(r), NEW j \in Items
  PROVE  /\ SamePlace(its, j) /\ its[j].status = items[j].status
         /\ items[j].reservation = r => its[j].deleted
         /\ items[j].reservation # r => its[j] = items[j]
         /\ items[j].deleted => its[j].deleted
<1> DEFINE new == [items[j] EXCEPT !.deleted = TRUE, !.version = @ + 1]
<1>1. \/ its[j] = items[j] /\ (items[j].reservation = r => items[j].deleted)
      \/ its[j] = new /\ items[j].reservation = r
  BY DEF SoftDeleteItems
<1>2. /\ new.reservation = items[j].reservation /\ new.deleted
      /\ new.status = items[j].status /\ new.room = items[j].room /\ new.stay = items[j].stay
  <2>1. items[j] \in ItemRow
    BY DEF TypeInv, TypeOK
  <2> QED  BY <2>1 DEF ItemRow
<1> HIDE DEF new
<1> QED  BY <1>1, <1>2 DEF SamePlace

\* The items "new" of reservation r are inserted, with their status and stays.
InsertedFor(r, new, status, input) ==
  /\ \A j \in Items : j \notin new => items'[j] = items[j]
  /\ \A j \in new : /\ items[j].status = "absent" /\ items'[j].status = status
                    /\ items'[j].reservation = r /\ items'[j].stay = input[j].stay
                    /\ ~items'[j].deleted

\* insertAllItems inserts the given rows, and sells their nights, once.
LEMMA InsertAllItemsFields ==
  ASSUME TypeInv, NEW r \in Reservations, NEW new \in SUBSET Items, NEW input, NEW pin, NEW status,
         InsertAllItems(r, new, input, status, pin)
  PROVE  /\ InsertedFor(r, new, status, input)
         /\ \E rows : /\ Insertable(rows, ledger) /\ ledger' = ledger \cup rows
                      /\ \A l \in rows : l.item \in new /\ l.night \in NightsBetween(items'[l.item].stay)
<1>1. /\ \A j \in Items : items'[j] = IF j \in new THEN InsertedItem(r, input[j], status) ELSE items[j]
      /\ \A j \in new : items[j].status = "absent"
  BY DEF InsertAllItems
<1>2. \A j \in new : /\ items'[j].status = status /\ items'[j].reservation = r
                     /\ items'[j].stay = input[j].stay /\ ~items'[j].deleted
  <2>1. ASSUME NEW x
        PROVE  /\ InsertedItem(r, x, status).status = status
               /\ InsertedItem(r, x, status).reservation = r
               /\ InsertedItem(r, x, status).stay = x.stay
               /\ ~InsertedItem(r, x, status).deleted
    BY DEF InsertedItem
  <2> QED  BY <1>1, <2>1
<1> DEFINE rows == UNION {SoldRows(j, pin[j], NightsBetween(input[j].stay)) : j \in new}
<1>3. Insertable(rows, ledger) /\ ledger' = ledger \cup rows
  BY DEF InsertAllItems
<1>4. \A l \in rows : l.item \in new /\ l.night \in NightsBetween(input[l.item].stay)
  BY DEF SoldRows
<1> HIDE DEF rows
<1>5. \A l \in rows : l.item \in new /\ l.night \in NightsBetween(items'[l.item].stay)
  BY <1>2, <1>4
<1>6. InsertedFor(r, new, status, input)
  BY <1>1, <1>2 DEF InsertedFor
<1> QED  BY <1>3, <1>5, <1>6

-----------------------------------------------------------------------------
(* The ledger.                                                             *)

\* Items that were never inserted belong to nobody and have sold no night.
LedgerInv ==
  /\ LedgerWithinStay
  /\ \A l \in ledger : items[l.item].status # "absent"
  /\ \A i \in Items : items[i].status = "absent" => items[i].reservation = NoReservation

\* What a step for reservation r may do: it inserts items of r, gives up and
\* sells nights of its items, sells a room-night once, and only for nights that
\* the items then stay.
Trades(r) ==
  /\ \A i \in Items : \/ items'[i].reservation = items[i].reservation
                         /\ (items[i].status = "absent" => items'[i].status = "absent")
                      \/ items[i].status = "absent" /\ items'[i].reservation = r
                         /\ items'[i].status # "absent"
  /\ \A l \in ledger \ ledger' : items[l.item].reservation = r
  /\ \A l \in ledger' \ ledger :
       /\ items'[l.item].reservation = r /\ items'[l.item].status # "absent"
       /\ \A m \in ledger' : l.room = m.room /\ l.night = m.night => l = m
  /\ \A l \in ledger' : l.night \in NightsBetween(items'[l.item].stay)

\* A step that moves no item, and gives up nights of r.
Releases(r) ==
  /\ \A j \in Items : /\ SamePlace(items', j)
                      /\ items[j].status = "absent" => items'[j].status = "absent"
  /\ ledger' \subseteq ledger
  /\ \A l \in ledger \ ledger' : items[l.item].reservation = r

\* Such a step is a trade.
LEMMA ReleaseTrades ==
  ASSUME TypeInv, LedgerInv, NEW r \in Reservations, Releases(r)
  PROVE  Trades(r)
<1> USE DEF Releases
<1>1. \A l \in ledger : l.item \in Items
  BY DEF TypeInv, TypeOK, LedgerRow
<1>2. \A l \in ledger' : l.night \in NightsBetween(items'[l.item].stay)
  BY <1>1 DEF LedgerInv, LedgerWithinStay, SamePlace
<1> QED  BY <1>2 DEF Trades, SamePlace

\* A step that sells room-nights in place of those that it gives up.
Sells(r, gone, rows) ==
  /\ \A j \in Items : \/ items'[j].reservation = items[j].reservation
                         /\ (items[j].status = "absent" => items'[j].status = "absent")
                      \/ items[j].status = "absent" /\ items'[j].reservation = r
                         /\ items'[j].status # "absent"
  /\ \A l \in ledger \cap gone : items[l.item].reservation = r
  /\ \A l \in ledger \ gone : items'[l.item].stay = items[l.item].stay
                              \/ l.night \in NightsBetween(items'[l.item].stay)
  /\ \A l \in rows : /\ items'[l.item].reservation = r /\ items'[l.item].status # "absent"
                     /\ l.night \in NightsBetween(items'[l.item].stay)
  /\ Insertable(rows, ledger \ gone)
  /\ ledger' = (ledger \ gone) \cup rows

\* So is this one.
LEMMA SaleTrades ==
  ASSUME TypeInv, LedgerInv, NEW r \in Reservations, NEW gone, NEW rows, Sells(r, gone, rows)
  PROVE  Trades(r)
<1> USE DEF Sells
<1>1. \A l \in ledger \ gone : l.night \in NightsBetween(items'[l.item].stay)
  BY DEF LedgerInv, LedgerWithinStay
<1>2. ASSUME NEW l \in ledger' \ ledger, NEW m \in ledger', l.room = m.room, l.night = m.night
      PROVE  l = m
  BY <1>2 DEF Insertable
<1> QED  BY <1>1, <1>2 DEF Trades

\* The ledger and the items that a step for one reservation leaves.
LEMMA TradesKeepsLedgerInv ==
  ASSUME TypeInv, LedgerInv, NEW r \in Reservations, Trades(r), Writes
  PROVE  LedgerInv'
<1>1. \A l \in ledger' : l.item \in Items
  BY DEF Writes, LedgerRow
<1>i. \A i \in Items : items'[i].status = "absent" => items[i].status = "absent"
  BY DEF Writes, ItemsFrom, Advance
<1>2. ASSUME NEW l \in ledger', NEW m \in ledger', l.room = m.room, l.night = m.night
      PROVE  l = m
  <2>1. CASE l \in ledger /\ m \in ledger
    BY <1>2, <2>1 DEF LedgerInv, LedgerWithinStay
  <2>2. CASE l \notin ledger \/ m \notin ledger
    BY <1>2, <2>2 DEF Trades
  <2> QED  BY <2>1, <2>2
<1>3. LedgerWithinStay'
  BY <1>2 DEF Trades, LedgerWithinStay
<1>4. \A l \in ledger' : items'[l.item].status # "absent"
  <2>1. \A l \in ledger : items[l.item].status # "absent"
    BY DEF LedgerInv
  <2>2. \A l \in ledger' \ ledger : items'[l.item].status # "absent"
    BY DEF Trades
  <2> QED  BY <1>1, <1>i, <2>1, <2>2
<1>5. \A i \in Items : items'[i].status = "absent" => items'[i].reservation = NoReservation
  BY <1>i DEF LedgerInv, Trades
<1> QED  BY <1>3, <1>4, <1>5 DEF LedgerInv

\* Every step works for one reservation, or touches neither items nor ledger.
LedgerStep == UNCHANGED <<items, ledger>> \/ \E r \in Reservations : Trades(r)

\* A creation and an added item.
LEMMA InsertTrades ==
  ASSUME TypeInv, LedgerInv, NEW r \in Reservations, NEW new \in SUBSET Items, NEW input, NEW pin,
         NEW status, status # "absent", InsertAllItems(r, new, input, status, pin)
  PROVE  Trades(r)
<1>1. InsertedFor(r, new, status, input)
  BY InsertAllItemsFields
<1>2. PICK rows : /\ Insertable(rows, ledger) /\ ledger' = ledger \cup rows
                  /\ \A l \in rows : l.item \in new /\ l.night \in NightsBetween(items'[l.item].stay)
  BY InsertAllItemsFields
<1>3. \A l \in ledger : items'[l.item].stay = items[l.item].stay
  BY <1>1 DEF InsertedFor, LedgerInv, TypeInv, TypeOK, LedgerRow
<1>4. ledger \ {} = ledger
  OBVIOUS
<1>5. Sells(r, {}, rows)
  BY <1>1, <1>2, <1>3, <1>4 DEF InsertedFor, Sells
<1> QED  BY <1>5, SaleTrades

\* A change of one item's status, or of nothing but its type.
LEMMA StatusTrades ==
  ASSUME TypeInv, LedgerInv, NEW i \in Live(items),
         \A j \in Items : SamePlace(items', j) /\ items'[j].deleted = items[j].deleted,
         \A j \in Items : j # i => items'[j] = items[j],
         ledger' \subseteq ledger, \A l \in ledger \ ledger' : l.item = i
  PROVE  Trades(items[i].reservation)
<1>1. i \in Items /\ items[i].reservation \in Reservations /\ items[i].status # "absent"
  BY DEF Live, TypeInv, ItemsBelong
<1>2. \A j \in Items : items[j].status = "absent" => items'[j].status = "absent"
  BY <1>1
<1>3. Releases(items[i].reservation)
  BY <1>2 DEF Releases
<1> QED  BY <1>1, <1>3, ReleaseTrades

\* Requests on a reservation trade room-nights of that reservation only.
LEMMA ReservationRequestTrades ==
  ASSUME TypeInv, LedgerInv, NEW r \in Reservations, ReservationRequest(r)
  PROVE  LedgerStep
<1>1. ASSUME NEW origin \in Origins, NEW new \in SUBSET Items \ {{}},
             NEW input \in [new -> ItemInput], NEW pin \in [new -> Rooms],
             CreateReservation(r, origin, new, input, pin)
      PROVE  Trades(r)
  <2>1. SourceToInitialStatus[origin].item # "absent"
    BY DEF SourceToInitialStatus, Origins
  <2>2. InsertAllItems(r, new, input, SourceToInitialStatus[origin].item, pin)
    BY <1>1 DEF CreateReservation
  <2> QED  BY <2>1, <2>2, InsertTrades
<1>2. CASE CancelReservation(r)
  <2>1. items' = CancelReservationItems(r) /\ ledger' = ledger \ LedgerOfReservation(r)
    BY <1>2 DEF CancelReservation
  <2>2. ASSUME NEW j \in Items
        PROVE  /\ SamePlace(items', j)
               /\ items[j].status = "absent" => items'[j].status = "absent"
    <3>1. items[j].status = "absent" => items[j].reservation # r
      BY BookingAssumption DEF LedgerInv
    <3> QED  BY <2>1, <3>1, CancelReservationItemsFields
  <2>3. Releases(r)
    BY <2>1, <2>2 DEF Releases, LedgerOfReservation
  <2> QED  BY <2>3, ReleaseTrades DEF LedgerStep
<1>3. CASE CheckinReservation(r) \/ CheckoutReservation(r)
  <2>1. PICK S, to : /\ S \subseteq Live(items) /\ items' = BatchMove(S, to) /\ ledger' = ledger
    BY <1>3 DEF CheckinReservation, CheckoutReservation, LiveItemsOf
  <2>2. S \in SUBSET Items /\ \A j \in S : items[j].status # "absent"
    BY <2>1 DEF Live
  <2>3. \A j \in Items : /\ SamePlace(items', j) /\ items'[j].deleted = items[j].deleted
                         /\ items'[j].status = IF j \in S THEN to ELSE items[j].status
    BY <2>1, <2>2, BatchMoveFields
  <2>4. \A j \in Items : items[j].status = "absent" => items'[j].status = "absent"
    BY <2>2, <2>3
  <2>5. Releases(r)
    BY <2>1, <2>3, <2>4 DEF Releases
  <2> QED  BY <2>5, ReleaseTrades DEF LedgerStep
<1>4. ASSUME NEW pin \in [Items -> Rooms], ReactivateReservation(r, pin)
      PROVE  Trades(r)
  <2> DEFINE its  == ReactivateReservationItems(r)
             S    == LiveItemsOf(its, r)
             rows == UNION {SoldRows(i, pin[i], NightsBetween(its[i].stay)) : i \in S}
  <2>1. items' = its /\ Insertable(rows, ledger) /\ ledger' = ledger \cup rows
    BY <1>4 DEF ReactivateReservation, ReclaimInventory
  <2>2. \A l \in rows : l.item \in S /\ l.night \in NightsBetween(its[l.item].stay)
    BY DEF SoldRows
  <2>3. \A j \in S : j \in Items /\ its[j].reservation = r /\ its[j].status # "absent"
    BY DEF LiveItemsOf, Live
  <2>4. \A j \in Items : /\ SamePlace(its, j)
                         /\ items[j].status = "absent" => its[j].status = "absent"
    BY ReactivateReservationItemsFields
  <2>5. \A l \in ledger : l.item \in Items
    BY DEF TypeInv, TypeOK, LedgerRow
  <2>6. ledger \ {} = ledger
    OBVIOUS
  <2> HIDE DEF its, S, rows
  <2>7. Sells(r, {}, rows)
    BY <2>1, <2>2, <2>3, <2>4, <2>5, <2>6 DEF Sells, SamePlace
  <2> QED  BY <2>7, SaleTrades
<1>5. ASSUME NEW i \in Items, NEW input \in ItemInput, NEW room \in Rooms,
             AddItem(r, i, input, room)
      PROVE  Trades(r)
  <2>1. InsertAllItems(r, {i}, [j \in {i} |-> input], "booked", [j \in {i} |-> room])
    BY <1>5 DEF AddItem
  <2> QED  BY <2>1, InsertTrades
<1>6. CASE ConfirmReservation(r) \/ UpdateMetadata(r) \/ GetReservation(r)
  BY <1>6 DEF ConfirmReservation, UpdateMetadata, GetReservation, tables, LedgerStep
<1> QED  BY <1>1, <1>2, <1>3, <1>4, <1>5, <1>6 DEF ReservationRequest, LedgerStep

\* A change of item i's room or stay, with the ledger rows of i replaced.
LEMMA MoveTrades ==
  ASSUME TypeInv, LedgerInv, NEW i \in Live(items), NEW room, NEW stay, NEW rtype,
         items' = UpdatedItem(i, items[i].status, room, stay, rtype),
         NEW gone \in SUBSET LedgerOf(i), NEW nights \in SUBSET NightsBetween(stay), NEW at,
         Insertable(SoldRows(i, at, nights), ledger \ gone),
         ledger' = (ledger \ gone) \cup SoldRows(i, at, nights),
         \A l \in LedgerOf(i) \ gone : l.night \in NightsBetween(stay)
  PROVE  Trades(items[i].reservation)
<1>1. i \in Items /\ items[i].reservation \in Reservations /\ items[i].status # "absent"
  BY DEF Live, TypeInv, ItemsBelong
<1>2. /\ \A j \in Items : j # i => items'[j] = items[j]
      /\ items'[i].reservation = items[i].reservation /\ items'[i].status = items[i].status
      /\ items'[i].stay = stay
  BY <1>1, UpdatedItemFields
<1> DEFINE rows == SoldRows(i, at, nights)
<1>3. \A l \in rows : l.item = i /\ l.night \in NightsBetween(stay)
  BY DEF SoldRows
<1>4. \A l \in ledger : l.item \in Items /\ (l \in LedgerOf(i) <=> l.item = i)
  BY DEF TypeInv, TypeOK, LedgerRow, LedgerOf
<1> HIDE DEF rows
<1>5. Sells(items[i].reservation, gone, rows)
  BY <1>1, <1>2, <1>3, <1>4 DEF Sells, rows
<1> QED  BY <1>1, <1>5, SaleTrades

\* Requests on an item trade room-nights of its reservation only.
LEMMA ItemRequestTrades ==
  ASSUME TypeInv, LedgerInv, NEW i \in Items, ItemRequest(i)
  PROVE  LedgerStep
<1>0. i \in Live(items)
  BY DEF ItemRequest, CancelItem, CheckinItem, CheckoutItem, MarkNoShow, UpdateItemRoomType,
         UpdateItemRatePlan, UpdateItem, AssignRoom, GetReservationItem
<1>r. items[i].reservation \in Reservations
  BY <1>0, LiveItem
<1>l. /\ LedgerOf(i) \subseteq ledger /\ \A l \in LedgerOf(i) : l.item = i
      /\ \A l \in LedgerOf(i) : l.night \in NightsBetween(items[i].stay) /\ l.night \in Days
  BY DEF LedgerOf, LedgerInv, LedgerWithinStay, NightsBetween
<1>e. \A at, into : SoldRows(i, at, {}) = {} /\ Insertable({}, into)
  BY DEF SoldRows, Insertable
<1>1. ASSUME NEW status, items' = ItemWithStatus(i, status), ledger' \subseteq ledger,
             \A l \in ledger \ ledger' : l.item = i
      PROVE  LedgerStep
  BY <1>0, <1>1, <1>r, ItemWithStatusFields, StatusTrades DEF LedgerStep
<1>2. CASE CancelItem(i) \/ MarkNoShow(i) \/ CheckinItem(i) \/ CheckoutItem(i) \/ UpdateItemRatePlan(i)
  BY <1>1, <1>2, <1>l DEF CancelItem, MarkNoShow, CheckinItem, CheckoutItem, UpdateItemRatePlan
<1>3. ASSUME NEW rtype \in RoomTypes, UpdateItemRoomType(i, rtype)
      PROVE  LedgerStep
  <2>1. /\ items' = UpdatedItem(i, items[i].status, items[i].room, items[i].stay, rtype)
        /\ ledger' = ledger
    BY <1>3 DEF UpdateItemRoomType
  <2>2. /\ \A j \in Items : SamePlace(items', j) /\ items'[j].deleted = items[j].deleted
        /\ \A j \in Items : j # i => items'[j] = items[j]
    BY <2>1, UpdatedItemFields DEF SamePlace
  <2> QED  BY <1>0, <1>r, <2>1, <2>2, StatusTrades DEF LedgerStep
<1>4. ASSUME NEW stay \in Stays, NEW input \in Rooms \cup {NoRoom}, UpdateItem(i, stay, input)
      PROVE  LedgerStep
  <2> DEFINE room    == IF input # NoRoom THEN input ELSE items[i].room
             old     == NightsBetween(items[i].stay)
             new     == NightsBetween(stay)
             removed == old \ new
             added   == new \ old
  <2>1. /\ items' = UpdatedItem(i, items[i].status, room, stay, items[i].rtype)
        /\ \/ ShiftLedger(i, stay, room)
           \/ /\ stay = items[i].stay /\ Movable(i, room) /\ ledger' = MovedLedger(i, room)
           \/ stay = items[i].stay /\ ledger' = ledger
    BY <1>4 DEF UpdateItem
  <2> HIDE DEF room
  <2>m. ASSUME NEW gone \in SUBSET LedgerOf(i), NEW nights \in SUBSET new, NEW at,
               Insertable(SoldRows(i, at, nights), ledger \ gone),
               ledger' = (ledger \ gone) \cup SoldRows(i, at, nights),
               \A l \in LedgerOf(i) \ gone : l.night \in new
        PROVE  LedgerStep
    BY <1>0, <1>r, <2>1, <2>m, MoveTrades DEF LedgerStep
  <2>2. CASE ShiftLedger(i, stay, room)
    <3>1. CASE /\ Insertable(SoldRows(i, room, new), ledger \ LedgerOf(i))
               /\ ledger' = (ledger \ LedgerOf(i)) \cup SoldRows(i, room, new)
      BY <2>m, <3>1
    <3>2. CASE ledger' = ledger \ {l \in LedgerOf(i) : \E n \in removed : n <= l.night}
      <4> DEFINE gone == {l \in LedgerOf(i) : \E n \in removed : n <= l.night}
      <4>1. ASSUME NEW l \in LedgerOf(i), l.night \notin new
            PROVE  l \in gone
        <5>1. l.night \in removed /\ l.night \in Nat
          BY <1>l, <4>1 DEF Days
        <5>2. l.night <= l.night
          BY <5>1
        <5> QED  BY <5>1, <5>2
      <4>2. gone \in SUBSET LedgerOf(i) /\ {} \in SUBSET new /\ ledger' = ledger \ gone
        BY <3>2
      <4> HIDE DEF gone
      <4>3. /\ Insertable(SoldRows(i, room, {}), ledger \ gone)
            /\ ledger' = (ledger \ gone) \cup SoldRows(i, room, {})
        BY <1>e, <4>2
      <4> QED  BY <2>m, <4>1, <4>2, <4>3
    <3>3. CASE /\ removed = {} /\ Insertable(SoldRows(i, room, added), ledger)
               /\ ledger' = ledger \cup SoldRows(i, room, added)
      <4>1. ledger \ {} = ledger /\ {} \in SUBSET LedgerOf(i) /\ added \in SUBSET new
        OBVIOUS
      <4>2. \A l \in LedgerOf(i) \ {} : l.night \in new
        BY <1>l, <3>3
      <4> QED  BY <2>m, <3>3, <4>1, <4>2
    <3> QED  BY <2>2, <3>1, <3>2, <3>3 DEF ShiftLedger
  <2>3. CASE stay = items[i].stay /\ Movable(i, room) /\ ledger' = MovedLedger(i, room)
    <3>1. {l.night : l \in LedgerOf(i)} \in SUBSET new
      BY <1>l, <2>3
    <3> QED  BY <2>3, <2>m, <3>1 DEF Movable, MovedLedger
  <2>4. CASE stay = items[i].stay /\ ledger' = ledger
    <3>1. /\ ledger \ {} = ledger /\ {} \in SUBSET LedgerOf(i) /\ {} \in SUBSET new
          /\ Insertable(SoldRows(i, room, {}), ledger \ {})
          /\ ledger' = (ledger \ {}) \cup SoldRows(i, room, {})
          /\ \A l \in LedgerOf(i) \ {} : l.night \in new
      BY <1>e, <1>l, <2>4
    <3> QED  BY <2>m, <3>1
  <2> QED  BY <2>1, <2>2, <2>3, <2>4
<1>5. ASSUME NEW room \in Rooms, AssignRoom(i, room)
      PROVE  LedgerStep
  <2> DEFINE nights == {l.night : l \in LedgerOf(i)}
  <2>1. nights \in SUBSET NightsBetween(items[i].stay)
    BY <1>l
  <2>2. /\ items' = UpdatedItem(i, items[i].status, room, items[i].stay, items[i].rtype)
        /\ Insertable(SoldRows(i, room, nights), ledger \ LedgerOf(i))
        /\ ledger' = (ledger \ LedgerOf(i)) \cup SoldRows(i, room, nights)
    BY <1>5 DEF AssignRoom, Movable, MovedLedger
  <2>3. \A l \in LedgerOf(i) \ LedgerOf(i) : l.night \in NightsBetween(items[i].stay)
    OBVIOUS
  <2> HIDE DEF nights
  <2>4. Trades(items[i].reservation)
    BY <1>0, <2>1, <2>2, <2>3, MoveTrades
  <2> QED  BY <1>r, <2>4 DEF LedgerStep
<1>6. CASE GetReservationItem(i)
  BY <1>6 DEF GetReservationItem, tables, LedgerStep
<1> QED  BY <1>2, <1>3, <1>4, <1>5, <1>6 DEF ItemRequest

\* A sweep works for the reservation of the row it found; the room and the stay
\* that the overstay sweep writes back are those of the row.
LEMMA SweepTrades ==
  ASSUME TypeInv, CopiesFit, LedgerInv, Sweep
  PROVE  LedgerStep
<1>1. ASSUME NEW copy \in holdBatch, CancelHoldTx(copy)
      PROVE  LedgerStep
  <2> DEFINE r == copy.id
  <2>1. r \in Reservations
    BY DEF TypeInv, TypeOK, ReservationCopy
  <2>2. CASE UNCHANGED <<items, ledger>>
    BY <2>2 DEF LedgerStep
  <2>3. CASE items' = CancelReservationItems(r) /\ ledger' = ledger \ LedgerOfReservation(r)
    <3>1. ASSUME NEW j \in Items
          PROVE  /\ SamePlace(items', j)
                 /\ items[j].status = "absent" => items'[j].status = "absent"
      <4>1. items[j].status = "absent" => items[j].reservation # r
        BY <2>1, BookingAssumption DEF LedgerInv
      <4> QED  BY <2>3, <4>1, CancelReservationItemsFields
    <3>2. Releases(r)
      BY <2>3, <3>1 DEF Releases, LedgerOfReservation
    <3> QED  BY <2>1, <3>2, ReleaseTrades DEF LedgerStep
  <2> QED  BY <1>1, <2>2, <2>3 DEF CancelHoldTx
<1>2. ASSUME NEW copy \in overstayBatch, MarkOverstayTx(copy)
      PROVE  LedgerStep
  <2> DEFINE i == copy.id
  <2>1. i \in Items
    BY DEF TypeInv, TypeOK, ItemCopy
  <2>2. CASE UNCHANGED <<items, ledger>>
    BY <2>2 DEF LedgerStep
  <2>3. CASE /\ items[i].status = "checked_in" /\ items[i].version = copy.row.version
             /\ items' = UpdatedItem(i, "overstay", copy.row.room, copy.row.stay, copy.row.rtype)
             /\ ledger' = ledger
    <3>1. copy.row = items[i]
      BY <2>3 DEF CopiesFit, Fits
    <3>2. \A j \in Items : /\ SamePlace(items', j) /\ items'[j].deleted = items[j].deleted
                           /\ j # i => items'[j] = items[j]
      BY <2>1, <2>3, <3>1, UpdatedItemFields DEF SamePlace
    <3>3. Releases(items[i].reservation)
      BY <2>3, <3>2 DEF Releases
    <3>4. items[i].reservation \in Reservations
      BY <2>1, <2>3 DEF TypeInv, ItemsBelong
    <3> QED  BY <3>3, <3>4, ReleaseTrades DEF LedgerStep
  <2> QED  BY <1>2, <2>2, <2>3 DEF MarkOverstayTx
<1>3. ASSUME NEW copy \in archiveBatch, ArchiveReservationTx(copy)
      PROVE  LedgerStep
  <2> DEFINE r == copy.id
  <2>1. r \in Reservations
    BY DEF TypeInv, TypeOK, ReservationCopy
  <2>2. CASE UNCHANGED <<items, ledger>>
    BY <2>2 DEF LedgerStep
  <2>3. CASE items' = SoftDeleteItems(r) /\ ledger' = ledger
    <3>1. Releases(r)
      BY <2>3, SoftDeleteItemsFields DEF Releases
    <3> QED  BY <2>1, <3>1, ReleaseTrades DEF LedgerStep
  <2> QED  BY <1>3, <2>2, <2>3 DEF ArchiveReservationTx
<1>4. CASE \/ \E S \in SUBSET Reservations : FindExpiredHolds(S) \/ FindArchivableReservations(S)
           \/ \E S \in SUBSET Items : FindOverstays(S)
           \/ RestartServer
  BY <1>4 DEF FindExpiredHolds, FindArchivableReservations, FindOverstays, RestartServer, tables, LedgerStep
<1> QED  BY <1>1, <1>2, <1>3, <1>4 DEF Sweep

\* Every step trades for one reservation or leaves items and ledger alone.
LEMMA NextTrades ==
  ASSUME TypeInv, CopiesFit, LedgerInv, [Next]_vars
  PROVE  LedgerStep
<1>1. CASE NextDay \/ (\E r \in Reservations : DeadlinePasses(r)) \/ UNCHANGED vars
  BY <1>1 DEF NextDay, DeadlinePasses, tables, vars, LedgerStep
<1> QED  BY <1>1, ReservationRequestTrades, ItemRequestTrades, SweepTrades DEF Next

\* Such steps keep every night inside its item's stay and sold once.
LEMMA LedgerInvStep ==
  ASSUME TypeInv, CopiesFit, LedgerInv, [Next]_vars
  PROVE  LedgerInv'
<1>1. LedgerStep /\ Writes
  BY NextTrades, NextStep
<1>2. CASE UNCHANGED <<items, ledger>>
  BY <1>2 DEF LedgerInv, LedgerWithinStay
<1> QED  BY <1>1, <1>2, TradesKeepsLedgerInv DEF LedgerStep

\* Nothing is sold at the start.
LEMMA LedgerInvInit ==
  ASSUME Init
  PROVE  LedgerInv
BY DEF Init, LedgerInv, LedgerWithinStay

\* A room-night is sold once and only within the stay it is sold for, whatever
\* date changes, moves, cancellations, reactivations and sweeps do.
THEOREM RoomNightsAreSafe == Spec => []LedgerWithinStay
<1>1. Init => TypeInv /\ CopiesFit /\ LedgerInv
  BY TypeInvInit, LedgerInvInit DEF Init, CopiesFit
<1>2. TypeInv /\ CopiesFit /\ LedgerInv /\ [Next]_vars => TypeInv' /\ CopiesFit' /\ LedgerInv'
  BY TypeInvStep, CopiesFitStep, LedgerInvStep
<1>3. LedgerInv => LedgerWithinStay
  BY DEF LedgerInv
<1> QED  BY <1>1, <1>2, <1>3, PTL DEF Spec

\* The ledger implements RoomInventory: every step works for one reservation,
\* sells only free room-nights and gives up only that reservation's.
THEOREM RefinesRoomInventory == Spec => ImplementsInventory
<1> DEFINE Inv == TypeInv /\ CopiesFit /\ LedgerInv
<1>1. Init => Inv
  BY TypeInvInit, LedgerInvInit DEF Init, CopiesFit
<1>2. Inv /\ [Next]_vars => Inv'
  BY TypeInvStep, CopiesFitStep, LedgerInvStep
<1>3. Init => Inventory!Init
  BY DEF Init, Inventory!Init
<1>4. Inv /\ [Next]_vars => [Inventory!Next]_<<ledger, [i \in Items |-> items[i].reservation]>>
  <2> SUFFICES ASSUME Inv, [Next]_vars
               PROVE  [Inventory!Next]_<<ledger, [i \in Items |-> items[i].reservation]>>
    OBVIOUS
  <2>1. LedgerStep /\ Writes
    BY NextTrades, NextStep
  <2>2. CASE UNCHANGED <<items, ledger>>
    BY <2>2
  <2>3. ASSUME NEW r \in Reservations, Trades(r)
        PROVE  Inventory!Next
    <3>1. Inventory!Join(r)
      <4>1. \A i \in Items : items'[i].reservation \in Reservations \cup {NoReservation}
        BY <2>1 DEF Writes, ItemsFrom, ItemRow
      <4> QED  BY <2>3, <4>1 DEF Inventory!Join, Trades, LedgerInv
    <3>2. Inventory!Trade(r)
      <4>1. /\ \A l \in ledger' : l \in LedgerRow /\ l.item \in Items
            /\ \A l \in ledger : l.item \in Items
        BY <2>1 DEF Writes, LedgerRow, TypeInv, TypeOK
      <4> QED  BY <2>3, <4>1 DEF Inventory!Trade, Inventory!Sales, Inventory!SameNight, LedgerRow, Trades
    <3> QED  BY <3>1, <3>2 DEF Inventory!Next
  <2> QED  BY <2>1, <2>2, <2>3 DEF LedgerStep
<1> HIDE DEF Inv
<1> QED  BY <1>1, <1>2, <1>3, <1>4, PTL DEF Spec, ImplementsInventory, Inventory!Spec

-----------------------------------------------------------------------------
(* The life cycle.                                                         *)

\* What one step may make of one item.
Kept(i) ==
  /\ items'[i].reservation = items[i].reservation
  /\ items'[i].status = items[i].status /\ items'[i].deleted = items[i].deleted

Moved(i) ==
  /\ items'[i].reservation = items[i].reservation /\ ~items[i].deleted /\ ~items'[i].deleted
  /\ \/ items[i].status = "booked" /\ items'[i].status \in {"checked_in", "no_show", "cancelled"}
     \/ items[i].status = "no_show" /\ items'[i].status = "cancelled"
     \/ items[i].status = "checked_in" /\ items'[i].status = "checked_out"
     \/ /\ items[i].status = "checked_in" /\ items'[i].status = "overstay"
        /\ items'[i] = [items[i] EXCEPT !.status = "overstay", !.version = @ + 1]

Inserted(i) ==
  /\ items[i].status = "absent" /\ items'[i].status \in {"booked", "checked_in"} /\ ~items'[i].deleted
  /\ reservations'[items'[i].reservation].status \in {"hold", "confirmed", "checked_in"}

CancelledWith(i) ==
  LET r == items[i].reservation
  IN  /\ items'[i].reservation = r /\ reservations'[r].status = "cancelled"
      /\ items'[i].status = "cancelled" /\ items'[i].deleted
      /\ items[i].status = "checked_in" => reservations[r].status = "hold"

Restored(i) ==
  LET r == items[i].reservation
  IN  /\ items'[i].reservation = r /\ reservations'[r].status = "confirmed"
      /\ items[i].status = "cancelled" /\ items[i].deleted
      /\ items'[i].status = "booked" /\ ~items'[i].deleted

SoftDeleted(i) ==
  LET r == items[i].reservation
  IN  /\ items'[i].reservation = r /\ r \in Reservations /\ reservations'[r].status = "archived"
      /\ items'[i].status = items[i].status /\ items'[i].deleted

ItemLife(i) ==
  Kept(i) \/ Moved(i) \/ Inserted(i) \/ CancelledWith(i) \/ Restored(i) \/ SoftDeleted(i)

\* And of one reservation.
ReservationLife(r) ==
  LET from == reservations[r].status
      to   == reservations'[r].status
  IN  \/ to = from
      \/ from = "absent" /\ to \in {"hold", "confirmed", "checked_in"}
      \/ from \in {"hold", "cancelled"} /\ to = "confirmed"
      \/ /\ from \in {"hold", "confirmed"} /\ to = "cancelled"
         /\ \A i \in Items : items[i].reservation = r => items'[i].status \in {"cancelled", "checked_out"}
      \/ /\ from = "cancelled" /\ to = "archived"
         /\ \A i \in Items : items[i].reservation = r => items'[i].deleted

LifeStep == (\A i \in Items : ItemLife(i)) /\ (\A r \in Reservations : ReservationLife(r))

\* No reservation is ever checked out and no item archived: the rollup is a stub.
LifeInv ==
  /\ ClosedReservationsAreClosed
  /\ \A i \in Items : items[i].status # "archived"
  /\ \A i \in Items : items[i].deleted => items[i].status \in {"cancelled", "checked_out"}
  /\ \A i \in Items : items[i].status # "absent" => reservations[items[i].reservation].status # "absent"
  /\ \A r \in Reservations : reservations[r].status \notin {"checked_out", "pending_cancellation"}
  /\ \A c \in archiveBatch : c.row.status \in {"checked_out", "cancelled"}

\* What UpdateReservationStatus and the others leave of a reservation's status.
StatusOnly(r, status) ==
  /\ reservations'[r].status = status
  /\ \A x \in Reservations : x # r => reservations'[x].status = reservations[x].status

StatusesKept == \A x \in Reservations : reservations'[x].status = reservations[x].status

\* UpdateReservationStatus changes one status and no dates.
LEMMA UpdateReservationStatusFields ==
  ASSUME TypeInv, NEW r \in Reservations, NEW status, UpdateReservationStatus(r, status)
  PROVE  StatusOnly(r, status) /\ \A x \in Reservations : reservations'[x].env = reservations[x].env
<1> DEFINE new == [reservations[r] EXCEPT !.status = status, !.version = @ + 1]
<1>1. reservations' = [reservations EXCEPT ![r] = new]
  BY Zenon DEF UpdateReservationStatus
<1>2. new.status = status /\ new.env = reservations[r].env
  <2>1. reservations[r] \in ReservationRow
    BY DEF TypeInv, TypeOK
  <2> QED  BY <2>1 DEF ReservationRow
<1> HIDE DEF new
<1> QED  BY <1>1, <1>2 DEF StatusOnly, TypeInv, TypeOK

\* UpdateReservationMetadata changes one reservation's dates and no status.
LEMMA UpdateReservationMetadataFields ==
  ASSUME TypeInv, NEW r \in Reservations, NEW env, UpdateReservationMetadata(r, env)
  PROVE  /\ StatusesKept /\ reservations'[r].env = env
         /\ \A x \in Reservations : x # r => reservations'[x] = reservations[x]
<1> DEFINE new == [reservations[r] EXCEPT !.env = env, !.version = @ + 1]
<1>1. reservations' = [reservations EXCEPT ![r] = new]
  BY Zenon DEF UpdateReservationMetadata
<1>2. new.status = reservations[r].status /\ new.env = env
  <2>1. reservations[r] \in ReservationRow
    BY DEF TypeInv, TypeOK
  <2> QED  BY <2>1 DEF ReservationRow
<1> HIDE DEF new
<1> QED  BY <1>1, <1>2 DEF StatusesKept, TypeInv, TypeOK

\* A step that leaves every reservation's status alone.
LEMMA QuietLife ==
  ASSUME StatusesKept, \A i \in Items : ItemLife(i)
  PROVE  LifeStep
BY DEF StatusesKept, LifeStep, ReservationLife

\* A reservation is cancelled with all its items.
LEMMA CancelLife ==
  ASSUME TypeInv, LifeInv, NEW r \in Reservations,
         reservations[r].status \in {"hold", "confirmed"},
         reservations[r].status = "hold" \/ \A i \in LiveItemsOf(items, r) : items[i].status # "checked_in",
         items' = CancelReservationItems(r), UpdateReservationStatus(r, "cancelled")
  PROVE  LifeStep
<1>1. StatusOnly(r, "cancelled")
  BY UpdateReservationStatusFields
<1>2. ASSUME NEW i \in Items
      PROVE  /\ ItemLife(i)
             /\ items[i].reservation = r => items'[i].status \in {"cancelled", "checked_out"}
  <2>1. CASE /\ items'[i] = items[i]
             /\ items[i].reservation = r => items[i].status \in {"checked_out", "cancelled", "archived"}
    BY <2>1 DEF ItemLife, Kept, LifeInv
  <2>2. CASE /\ items[i].reservation = r /\ items'[i].status = "cancelled" /\ items'[i].deleted
             /\ items'[i].reservation = items[i].reservation
    <3>1. items[i].status = "checked_in" => ~items[i].deleted
      BY DEF LifeInv
    <3>2. items[i].status = "checked_in" => i \in LiveItemsOf(items, r)
      BY <2>2, <3>1 DEF LiveItemsOf, Live
    <3> QED  BY <1>1, <2>2, <3>2 DEF ItemLife, CancelledWith, StatusOnly
  <2> QED  BY <2>1, <2>2, CancelReservationItemsFields DEF SamePlace
<1>3. ASSUME NEW x \in Reservations
      PROVE  ReservationLife(x)
  BY <1>1, <1>2 DEF StatusOnly, ReservationLife
<1> QED  BY <1>2, <1>3 DEF LifeStep

\* Requests on a reservation respect the life cycle.
LEMMA ReservationRequestLife ==
  ASSUME TypeInv, LifeInv, NEW r \in Reservations, ReservationRequest(r)
  PROVE  LifeStep
<1>k. ASSUME UNCHANGED items
      PROVE  \A i \in Items : ItemLife(i)
  BY <1>k DEF ItemLife, Kept
<1>1. ASSUME NEW origin \in Origins, NEW new \in SUBSET Items \ {{}},
             NEW input \in [new -> ItemInput], NEW pin \in [new -> Rooms],
             CreateReservation(r, origin, new, input, pin)
      PROVE  LifeStep
  <2> DEFINE initial == SourceToInitialStatus[origin]
  <2>1. initial.reservation \in {"hold", "confirmed", "checked_in"} /\ initial.item \in {"booked", "checked_in"}
    BY DEF SourceToInitialStatus, Origins
  <2> HIDE DEF initial
  <2>2. InsertAllItems(r, new, input, initial.item, pin) /\ reservations[r].status = "absent"
    BY <1>1 DEF CreateReservation, initial
  <2>3. PICK env \in Stays :
          reservations' = [reservations EXCEPT
            ![r] = [status |-> initial.reservation, version |-> 1, env |-> env]]
    BY <1>1 DEF CreateReservation, initial
  <2>4. StatusOnly(r, initial.reservation)
    BY <2>3 DEF StatusOnly, TypeInv, TypeOK
  <2>5. InsertedFor(r, new, initial.item, input)
    BY <2>2, InsertAllItemsFields
  <2>6. \A i \in Items : ItemLife(i)
    BY <2>1, <2>4, <2>5 DEF InsertedFor, StatusOnly, ItemLife, Kept, Inserted
  <2>7. \A x \in Reservations : ReservationLife(x)
    BY <2>1, <2>2, <2>4 DEF StatusOnly, ReservationLife
  <2> QED  BY <2>6, <2>7 DEF LifeStep
<1>2. CASE ConfirmReservation(r)
  <2>1. StatusOnly(r, "confirmed") /\ UNCHANGED items
    BY <1>2, UpdateReservationStatusFields DEF ConfirmReservation
  <2>2. reservations[r].status \in {"hold", "cancelled"}
    BY <1>2 DEF ConfirmReservation, ValidateReservationTransition, reservationTransitions, TypeInv, TypeOK,
       ReservationRow, ReservationStatus
  <2>3. \A x \in Reservations : ReservationLife(x)
    BY <2>1, <2>2 DEF StatusOnly, ReservationLife
  <2> QED  BY <1>k, <2>1, <2>3 DEF LifeStep
<1>3. CASE CancelReservation(r)
  <2>1. reservations[r].status \in {"hold", "confirmed"}
    BY <1>3 DEF CancelReservation, ValidateReservationTransition, reservationTransitions, TypeInv, TypeOK,
       ReservationRow, ReservationStatus
  <2> QED  BY <1>3, <2>1, CancelLife DEF CancelReservation
<1>4. ASSUME NEW S \in SUBSET Live(items), NEW to,
             \A i \in S : \/ items[i].status = "booked" /\ to = "checked_in"
                          \/ items[i].status = "checked_in" /\ to = "checked_out",
             items' = BatchMove(S, to), UNCHANGED reservations
      PROVE  LifeStep
  <2>1. S \in SUBSET Items /\ \A i \in S : ~items[i].deleted
    BY DEF Live
  <2>2. ASSUME NEW i \in Items
        PROVE  ItemLife(i)
    <3>1. /\ items'[i].reservation = items[i].reservation /\ items'[i].deleted = items[i].deleted
          /\ items'[i].status = IF i \in S THEN to ELSE items[i].status
      BY <1>4, <2>1, BatchMoveFields DEF SamePlace
    <3>2. CASE i \notin S
      BY <3>1, <3>2 DEF ItemLife, Kept
    <3>3. CASE i \in S
      BY <1>4, <2>1, <3>1, <3>3 DEF ItemLife, Moved
    <3> QED  BY <3>2, <3>3
  <2> QED  BY <1>4, <2>2, QuietLife DEF StatusesKept
<1>5. CASE CheckinReservation(r)
  <2> DEFINE ready == {i \in LiveItemsOf(items, r) :
                         items[i].status = "booked" /\ items[i].room # NoRoom}
  <2>1. ready \in SUBSET Live(items) /\ \A i \in ready : items[i].status = "booked"
    BY DEF LiveItemsOf
  <2>2. items' = BatchMove(ready, "checked_in") /\ UNCHANGED reservations
    BY <1>5 DEF CheckinReservation, RollupAndNotify
  <2> HIDE DEF ready
  <2> QED  BY <1>4, <2>1, <2>2
<1>6. CASE CheckoutReservation(r)
  <2> DEFINE ready == {i \in LiveItemsOf(items, r) : items[i].status = "checked_in"}
  <2>1. ready \in SUBSET Live(items) /\ \A i \in ready : items[i].status = "checked_in"
    BY DEF LiveItemsOf
  <2>2. items' = BatchMove(ready, "checked_out") /\ UNCHANGED reservations
    BY <1>6 DEF CheckoutReservation, RollupAndNotify
  <2> HIDE DEF ready
  <2> QED  BY <1>4, <2>1, <2>2
<1>7. ASSUME NEW pin \in [Items -> Rooms], ReactivateReservation(r, pin)
      PROVE  LifeStep
  <2>1. StatusOnly(r, "confirmed") /\ items' = ReactivateReservationItems(r)
    BY <1>7, UpdateReservationStatusFields DEF ReactivateReservation
  <2>2. reservations[r].status \in {"hold", "cancelled"}
    BY <1>7 DEF ReactivateReservation, ValidateReservationTransition, reservationTransitions, TypeInv, TypeOK,
       ReservationRow, ReservationStatus
  <2>3. \A x \in Reservations : ReservationLife(x)
    BY <2>1, <2>2 DEF StatusOnly, ReservationLife
  <2>4. ASSUME NEW i \in Items
        PROVE  ItemLife(i)
    BY <2>1, ReactivateReservationItemsFields DEF SamePlace, StatusOnly, ItemLife, Kept, Restored
  <2> QED  BY <2>3, <2>4 DEF LifeStep
<1>8. ASSUME NEW i \in Items, NEW input \in ItemInput, NEW room \in Rooms,
             AddItem(r, i, input, room)
      PROVE  LifeStep
  <2>1. InsertAllItems(r, {i}, [j \in {i} |-> input], "booked", [j \in {i} |-> room])
    BY <1>8 DEF AddItem
  <2>2. InsertedFor(r, {i}, "booked", [j \in {i} |-> input])
    BY <2>1, InsertAllItemsFields
  <2>3. StatusesKept
    BY <1>8, UpdateReservationMetadataFields DEF AddItem, RecomputeEnvelope
  <2>4. reservations'[r].status \in {"hold", "confirmed", "checked_in"}
    <3>1. reservations[r].status \in ReservationStatus
      BY DEF TypeInv, TypeOK, ReservationRow
    <3> QED  BY <1>8, <2>3, <3>1 DEF AddItem, IsTerminalReservationStatus, LifeInv, StatusesKept, ReservationStatus
  <2>5. \A j \in Items : ItemLife(j)
    BY <2>2, <2>4 DEF InsertedFor, ItemLife, Kept, Inserted
  <2> QED  BY <2>3, <2>5, QuietLife
<1>9. CASE UpdateMetadata(r)
  <2>1. StatusesKept /\ UNCHANGED items
    BY <1>9, UpdateReservationMetadataFields DEF UpdateMetadata
  <2> QED  BY <1>k, <2>1, QuietLife
<1>10. CASE GetReservation(r)
  <2>1. UNCHANGED <<reservations, items>>
    BY <1>10 DEF GetReservation, tables
  <2> QED  BY <1>k, <2>1, QuietLife DEF StatusesKept
<1> QED  BY <1>1, <1>2, <1>3, <1>5, <1>6, <1>7, <1>8, <1>9, <1>10 DEF ReservationRequest

\* Requests on an item respect the life cycle.
LEMMA ItemRequestLife ==
  ASSUME TypeInv, NEW i \in Items, ItemRequest(i)
  PROVE  LifeStep
<1>0. i \in Live(items)
  BY DEF ItemRequest, CancelItem, CheckinItem, CheckoutItem, MarkNoShow, UpdateItemRoomType,
         UpdateItemRatePlan, UpdateItem, AssignRoom, GetReservationItem
<1>i. ~items[i].deleted /\ items[i].status \in ItemStatus /\ items[i].reservation \in Reservations
  BY <1>0, LiveItem DEF Live
<1>1. ASSUME NEW status, items' = ItemWithStatus(i, status), UNCHANGED reservations,
             \/ items[i].status = "booked" /\ status \in {"checked_in", "no_show", "cancelled"}
             \/ items[i].status = "no_show" /\ status = "cancelled"
             \/ items[i].status = "checked_in" /\ status = "checked_out"
      PROVE  LifeStep
  <2>1. /\ \A j \in Items : j # i => items'[j] = items[j]
        /\ items'[i].status = status /\ items'[i].deleted = items[i].deleted
        /\ items'[i].reservation = items[i].reservation
    BY <1>1, ItemWithStatusFields DEF SamePlace
  <2>2. Moved(i)
    BY <1>1, <1>i, <2>1 DEF Moved
  <2> QED  BY <1>1, <2>1, <2>2, QuietLife DEF StatusesKept, ItemLife, Kept
<1>2. ASSUME NEW room, NEW stay, NEW rtype, StatusesKept,
             items' = UpdatedItem(i, items[i].status, room, stay, rtype)
      PROVE  LifeStep
  <2>1. \A j \in Items : Kept(j)
    BY <1>2, UpdatedItemFields DEF Kept
  <2> QED  BY <1>2, <2>1, QuietLife DEF ItemLife
<1>3. CASE CancelItem(i)
  <2>1. items[i].status \in {"booked", "no_show"}
    BY <1>3, <1>i DEF CancelItem, ValidateItemTransition, itemTransitions, ItemStatus
  <2> QED  BY <1>1, <1>3, <2>1 DEF CancelItem, RollupAndNotify
<1>4. CASE MarkNoShow(i)
  <2>1. items[i].status = "booked"
    BY <1>4, <1>i DEF MarkNoShow, ValidateItemTransition, itemTransitions, ItemStatus
  <2> QED  BY <1>1, <1>4, <2>1 DEF MarkNoShow, RollupAndNotify
<1>5. CASE CheckinItem(i) \/ CheckoutItem(i)
  BY <1>1, <1>5 DEF CheckinItem, CheckoutItem, RollupAndNotify
<1>6. ASSUME NEW rtype \in RoomTypes, UpdateItemRoomType(i, rtype)
      PROVE  LifeStep
  BY <1>2, <1>6 DEF UpdateItemRoomType, StatusesKept
<1>7. CASE UpdateItemRatePlan(i)
  BY <1>2, <1>7 DEF UpdateItemRatePlan, ItemWithStatus, StatusesKept
<1>8. ASSUME NEW stay \in Stays, NEW input \in Rooms \cup {NoRoom}, UpdateItem(i, stay, input)
      PROVE  LifeStep
  <2>1. StatusesKept
    <3>1. UNCHANGED reservations \/ RecomputeEnvelope(items[i].reservation, items)
      BY <1>8 DEF UpdateItem
    <3> QED  BY <1>i, <3>1, UpdateReservationMetadataFields DEF RecomputeEnvelope, StatusesKept
  <2> QED  BY <1>2, <1>8, <2>1 DEF UpdateItem
<1>9. ASSUME NEW room \in Rooms, AssignRoom(i, room)
      PROVE  LifeStep
  BY <1>2, <1>9 DEF AssignRoom, StatusesKept
<1>10. CASE GetReservationItem(i)
  BY <1>10, QuietLife DEF GetReservationItem, tables, StatusesKept, ItemLife, Kept
<1> QED  BY <1>3, <1>4, <1>5, <1>6, <1>7, <1>8, <1>9, <1>10 DEF ItemRequest

\* The sweeps respect the life cycle: what they found is checked again by its version.
LEMMA SweepLife ==
  ASSUME TypeInv, CopiesFit, HoldsFoundDue, LifeInv, Sweep
  PROVE  LifeStep
<1>k. ASSUME UNCHANGED <<reservations, items>>
      PROVE  LifeStep
  BY <1>k, QuietLife DEF StatusesKept, ItemLife, Kept
<1>1. ASSUME NEW copy \in holdBatch, CancelHoldTx(copy)
      PROVE  LifeStep
  <2> DEFINE r == copy.id
  <2>1. r \in Reservations
    BY DEF TypeInv, TypeOK, ReservationCopy
  <2>2. CASE /\ reservations[r].version = copy.row.version
             /\ items' = CancelReservationItems(r) /\ UpdateReservationStatus(r, "cancelled")
    <3>1. reservations[r].status = "hold"
      BY <2>2 DEF CopiesFit, Fits, HoldsFoundDue
    <3> QED  BY <2>1, <2>2, <3>1, CancelLife
  <2> QED  BY <1>1, <1>k, <2>2 DEF CancelHoldTx
<1>2. ASSUME NEW copy \in overstayBatch, MarkOverstayTx(copy)
      PROVE  LifeStep
  <2> DEFINE i == copy.id
  <2>1. i \in Items /\ UNCHANGED reservations
    BY <1>2 DEF TypeInv, TypeOK, ItemCopy, MarkOverstayTx
  <2>2. CASE /\ items[i].status = "checked_in" /\ items[i].version = copy.row.version
             /\ items' = UpdatedItem(i, "overstay", copy.row.room, copy.row.stay, copy.row.rtype)
    <3>1. copy.row = items[i]
      BY <2>2 DEF CopiesFit, Fits
    <3>2. /\ \A j \in Items : j # i => items'[j] = items[j]
          /\ items'[i].reservation = items[i].reservation /\ items'[i].deleted = items[i].deleted
          /\ items'[i].status = "overstay"
      BY <2>1, <2>2, UpdatedItemFields
    <3>3. items'[i] = [items[i] EXCEPT !.status = "overstay", !.version = @ + 1]
      <4> DEFINE a == items[i]
                 b == [a EXCEPT !.status = "overstay", !.room = a.room, !.stay = a.stay,
                                !.rtype = a.rtype, !.version = @ + 1]
                 c == [a EXCEPT !.status = "overstay", !.version = @ + 1]
      <4>1. items'[i] = b
        BY <2>1, <2>2, <3>1 DEF UpdatedItem, TypeInv, TypeOK
      <4>2. a \in ItemRow
        BY <2>1 DEF TypeInv, TypeOK
      <4>3. b = c
        BY <4>2 DEF ItemRow
      <4> QED  BY <4>1, <4>3
    <3>4. ~items[i].deleted
      BY <2>1, <2>2 DEF LifeInv
    <3>5. Moved(i)
      BY <2>2, <3>2, <3>3, <3>4 DEF Moved
    <3> QED  BY <2>1, <3>2, <3>5, QuietLife DEF StatusesKept, ItemLife, Kept
  <2> QED  BY <1>2, <1>k, <2>1, <2>2 DEF MarkOverstayTx
<1>3. ASSUME NEW copy \in archiveBatch, ArchiveReservationTx(copy)
      PROVE  LifeStep
  <2> DEFINE r == copy.id
  <2>1. r \in Reservations
    BY DEF TypeInv, TypeOK, ReservationCopy
  <2>2. CASE /\ reservations[r].version = copy.row.version
             /\ items' = SoftDeleteItems(r) /\ UpdateReservationStatus(r, "archived")
    <3>1. reservations[r].status = "cancelled"
      BY <2>1, <2>2 DEF CopiesFit, Fits, LifeInv
    <3>2. StatusOnly(r, "archived")
      BY <2>1, <2>2, UpdateReservationStatusFields
    <3>3. ASSUME NEW i \in Items
          PROVE  /\ ItemLife(i)
                 /\ items[i].reservation = r => items'[i].deleted
      <4>1. /\ items'[i].reservation = items[i].reservation /\ items'[i].status = items[i].status
            /\ items[i].reservation = r => items'[i].deleted
            /\ items[i].reservation # r => items'[i] = items[i]
        BY <2>2, SoftDeleteItemsFields DEF SamePlace
      <4> QED  BY <2>1, <3>2, <4>1 DEF StatusOnly, ItemLife, Kept, SoftDeleted
    <3>4. \A x \in Reservations : ReservationLife(x)
      BY <3>1, <3>2, <3>3 DEF StatusOnly, ReservationLife
    <3> QED  BY <3>3, <3>4 DEF LifeStep
  <2> QED  BY <1>3, <1>k, <2>2 DEF ArchiveReservationTx
<1>4. CASE \/ \E S \in SUBSET Reservations : FindExpiredHolds(S) \/ FindArchivableReservations(S)
           \/ \E S \in SUBSET Items : FindOverstays(S)
           \/ RestartServer
  BY <1>4, <1>k DEF FindExpiredHolds, FindArchivableReservations, FindOverstays, RestartServer, tables
<1> QED  BY <1>1, <1>2, <1>3, <1>4 DEF Sweep

\* Every step respects the life cycle.
LEMMA NextLife ==
  ASSUME TypeInv, CopiesFit, HoldsFoundDue, LifeInv, [Next]_vars
  PROVE  LifeStep
<1>1. CASE NextDay \/ (\E r \in Reservations : DeadlinePasses(r)) \/ UNCHANGED vars
  BY <1>1, QuietLife DEF NextDay, DeadlinePasses, tables, vars, StatusesKept, ItemLife, Kept
<1> QED  BY <1>1, ReservationRequestLife, ItemRequestLife, SweepLife DEF Next

\* The life cycle keeps closed reservations closed.
LEMMA LifeInvStep ==
  ASSUME TypeInv, CopiesFit, HoldsFoundDue, LifeInv, [Next]_vars
  PROVE  LifeInv'
<1>1. LifeStep /\ Writes /\ (CopiesKept \/ CopiesMade)
  BY NextLife, NextStep
<1>2. ASSUME NEW i \in Items
      PROVE  /\ items'[i].status # "archived"
             /\ items'[i].deleted => items'[i].status \in {"cancelled", "checked_out"}
  <2>1. /\ items[i].status # "archived"
        /\ items[i].deleted => items[i].status \in {"cancelled", "checked_out"}
        /\ items[i].status # "absent" => items[i].reservation \in Reservations
        /\ ItemLife(i)
    BY <1>1 DEF LifeStep, LifeInv, TypeInv, ItemsBelong
  <2>2. CASE Kept(i) \/ Moved(i) \/ Inserted(i) \/ CancelledWith(i) \/ Restored(i)
    BY <2>1, <2>2 DEF Kept, Moved, Inserted, CancelledWith, Restored
  <2>3. CASE SoftDeleted(i) /\ ~Kept(i)
    <3> DEFINE r == items[i].reservation
    <3>1. r \in Reservations /\ reservations[r].status \in {"cancelled", "archived"}
      BY <1>1, <2>3 DEF LifeStep, ReservationLife, SoftDeleted
    <3>2. items[i].status \in {"cancelled", "checked_out"}
      BY <3>1 DEF LifeInv, ClosedReservationsAreClosed
    <3> QED  BY <2>3, <3>2 DEF SoftDeleted
  <2> QED  BY <2>1, <2>2, <2>3 DEF ItemLife
<1>3. \A r \in Reservations :
        /\ reservations'[r].status \notin {"checked_out", "pending_cancellation"}
        /\ reservations[r].status # "absent" => reservations'[r].status # "absent"
  BY <1>1 DEF LifeStep, ReservationLife, LifeInv
<1>4. ASSUME NEW i \in Items, items'[i].status # "absent"
      PROVE  reservations'[items'[i].reservation].status # "absent"
  <2>1. ItemLife(i) /\ (items[i].status # "absent" => /\ items[i].reservation \in Reservations
                                                     /\ reservations[items[i].reservation].status # "absent")
    BY <1>1 DEF LifeStep, LifeInv, TypeInv, ItemsBelong
  <2> QED  BY <1>3, <1>4, <2>1 DEF ItemLife, Kept, Moved, Inserted, CancelledWith, Restored, SoftDeleted
<1>5. ASSUME NEW i \in Items, NEW r \in Reservations, items'[i].reservation = r
      PROVE  /\ reservations'[r].status \in {"cancelled", "archived"}
                  => items'[i].status \in {"cancelled", "checked_out"}
             /\ reservations'[r].status = "archived" => items'[i].deleted
  <2>1. ItemLife(i) /\ ReservationLife(r)
    BY <1>1 DEF LifeStep
  <2>2. items[i].reservation = r =>
          /\ reservations[r].status \in {"cancelled", "archived"}
               => items[i].status \in {"cancelled", "checked_out"}
          /\ reservations[r].status = "archived" => items[i].deleted
    BY DEF LifeInv, ClosedReservationsAreClosed
  <2>3. CASE Kept(i) \/ SoftDeleted(i)
    BY <1>5, <2>1, <2>2, <2>3 DEF Kept, SoftDeleted, ReservationLife
  <2>4. CASE Moved(i)
    BY <1>5, <2>1, <2>2, <2>4 DEF Moved, ReservationLife
  <2>5. CASE Inserted(i) \/ CancelledWith(i) \/ Restored(i)
    BY <1>5, <2>5 DEF Inserted, CancelledWith, Restored
  <2> QED  BY <2>1, <2>3, <2>4, <2>5 DEF ItemLife
<1>6. \A c \in archiveBatch' : c.row.status \in {"checked_out", "cancelled"}
  <2>1. \A c \in ClosedReservations : c.row.status \in {"checked_out", "cancelled"}
    BY DEF ClosedReservations, ReservationCopyOf
  <2> QED  BY <1>1, <2>1 DEF CopiesKept, CopiesMade, LifeInv
<1> QED  BY <1>2, <1>3, <1>4, <1>5, <1>6 DEF LifeInv, ClosedReservationsAreClosed

\* Everything that is proved of a state.
BookingInv == TypeInv /\ CopiesFit /\ HoldsFoundDue /\ LedgerInv /\ LifeInv

\* All of it holds of the empty tables ...
LEMMA BookingInvInit == Init => BookingInv
<1> SUFFICES ASSUME Init PROVE BookingInv
  OBVIOUS
<1>1. LifeInv
  BY BookingAssumption DEF Init, LifeInv, ClosedReservationsAreClosed, AbsentReservation
<1> QED  BY <1>1, TypeInvInit, LedgerInvInit DEF Init, CopiesFit, HoldsFoundDue, BookingInv

\* ... and is kept by every step.
LEMMA BookingInvStep == BookingInv /\ [Next]_vars => BookingInv'
BY TypeInvStep, CopiesFitStep, HoldsFoundDueStep, LedgerInvStep, LifeInvStep DEF BookingInv

\* A cancelled reservation has no open item and an archived one no live item,
\* although no request on an item looks at its reservation's status.
THEOREM ClosedStaysClosed == Spec => []ClosedReservationsAreClosed
<1>1. BookingInv => ClosedReservationsAreClosed
  BY DEF BookingInv, LifeInv
<1> QED  BY <1>1, BookingInvInit, BookingInvStep, PTL DEF Spec

\* markOverstayTx writes back what it read earlier, and yet only the status and
\* the version of the item change.
THEOREM OverstaySweepIsSafe == Spec => OverstayOnlyChangesStatus
<1> DEFINE A == \A i \in Items :
                  items[i].status # "overstay" /\ items'[i].status = "overstay"
                    => /\ items[i].status = "checked_in"
                       /\ items'[i] = [items[i] EXCEPT !.status = "overstay", !.version = @ + 1]
<1>1. BookingInv /\ [Next]_vars => A
  <2> SUFFICES ASSUME BookingInv, [Next]_vars, NEW i \in Items,
                      items[i].status # "overstay", items'[i].status = "overstay"
               PROVE  /\ items[i].status = "checked_in"
                      /\ items'[i] = [items[i] EXCEPT !.status = "overstay", !.version = @ + 1]
    OBVIOUS
  <2>1. ItemLife(i)
    BY NextLife DEF BookingInv, LifeStep
  <2>2. Moved(i)
    BY <2>1 DEF ItemLife, Kept, Inserted, CancelledWith, Restored, SoftDeleted
  <2> QED  BY <2>2 DEF Moved
<1>2. BookingInv /\ [Next]_vars => [A]_vars
  BY <1>1
<1> QED  BY <1>2, BookingInvInit, BookingInvStep, PTL DEF Spec, OverstayOnlyChangesStatus

\* The item of a guest in house is cancelled with its reservation only, and that
\* of a guest who is checked in only while the reservation still is a hold,
\* whatever CancelReservation, CancelItem and the sweeps do.
THEOREM GuestsInHouseAreSafe == Spec => GuestInHouseKeepsItem
<1> DEFINE Ends(i, r) ==
      /\ reservations'[r].status = "cancelled"
      /\ reservations[r].status \in {"hold", "confirmed"}
      /\ items[i].status = "checked_in" => reservations[r].status = "hold"
<1> DEFINE A == \A i \in Items :
                  items[i].status \in {"checked_in", "overstay"} /\ items'[i].status = "cancelled"
                    => LET r == items[i].reservation IN Ends(i, r)
<1>1. BookingInv /\ [Next]_vars => A
  <2> SUFFICES ASSUME BookingInv, [Next]_vars, NEW i \in Items,
                      items[i].status \in {"checked_in", "overstay"}, items'[i].status = "cancelled"
               PROVE  Ends(i, items[i].reservation)
    OBVIOUS
  <2> DEFINE r == items[i].reservation
  <2>1. r \in Reservations
    BY DEF BookingInv, TypeInv, ItemsBelong
  <2>2. ItemLife(i) /\ ReservationLife(r)
    BY <2>1, NextLife DEF BookingInv, LifeStep
  <2>3. /\ reservations'[r].status = "cancelled"
        /\ items[i].status = "checked_in" => reservations[r].status = "hold"
    BY <2>2 DEF ItemLife, Kept, Moved, Inserted, CancelledWith, Restored, SoftDeleted
  <2>4. reservations[r].status # "cancelled"
    BY <2>1 DEF BookingInv, LifeInv, ClosedReservationsAreClosed
  <2>5. reservations[r].status \in {"hold", "confirmed"}
    BY <2>2, <2>3, <2>4 DEF ReservationLife
  <2> QED  BY <2>3, <2>5
<1>2. BookingInv /\ [Next]_vars => [A]_vars
  BY <1>1
<1> QED  BY <1>2, BookingInvInit, BookingInvStep, PTL DEF Spec, GuestInHouseKeepsItem

-----------------------------------------------------------------------------
(* The rooms of the items and of their nights.                             *)

\* A cancelled reservation has given up the nights of its unassigned items, so
\* that a reactivation pins them once.
PinsReleased ==
  \A i \in Items :
    /\ items[i].status # "absent" /\ items[i].room = NoRoom
    /\ reservations[items[i].reservation].status = "cancelled"
    => LedgerOf(i) = {}

\* What one step may make of the rooms of one item: it leaves them alone,
Undisturbed(i) ==
  LET r == items[i].reservation
  IN  /\ items'[i].room = items[i].room /\ items'[i].reservation = r
      /\ LedgerOf(i)' \subseteq LedgerOf(i)
      /\ LedgerOf(i)' # {} /\ reservations'[r].status = "cancelled" => reservations[r].status = "cancelled"

\* sells its nights in the room it is assigned,
Housed(i) ==
  /\ items'[i].room # NoRoom
  /\ \A l \in LedgerOf(i)' : \/ l.room = items'[i].room
                             \/ l \in LedgerOf(i) /\ items[i].room = items'[i].room

\* pins an item that has no nights,
Pinned(i) ==
  /\ LedgerOf(i) = {} /\ items'[i].room = NoRoom
  /\ \A a, b \in LedgerOf(i)' : a.room = b.room
  /\ reservations'[items'[i].reservation].status # "cancelled"

\* pins one that has some, because its reservation still was a hold,
PinnedAgain(i) ==
  LET r == items[i].reservation
  IN  /\ items[i].room = NoRoom /\ items'[i].room = NoRoom /\ items'[i].reservation = r
      /\ reservations[r].status = "hold" /\ reservations'[r].status = "confirmed"

\* or moves it to other dates and another room.
MovedInTime(i) ==
  items'[i].room # NoRoom /\ items'[i].stay # items[i].stay /\ items'[i].room # items[i].room

RoomLife(i) ==
  Undisturbed(i) \/ Housed(i) \/ Pinned(i) \/ PinnedAgain(i) \/ MovedInTime(i)

\* A step that moves nothing, sells nothing, and cancels no reservation that keeps
\* its nights.
LEMMA QuietRooms ==
  ASSUME TypeInv, LedgerInv, \A j \in Items : SamePlace(items', j), ledger' \subseteq ledger,
         \A l \in ledger' : \A x \in Reservations :
           items[l.item].reservation = x /\ reservations'[x].status = "cancelled"
             => reservations[x].status = "cancelled",
         NEW i \in Items
  PROVE  RoomLife(i)
<1>1. LedgerOf(i)' \subseteq LedgerOf(i) /\ \A l \in LedgerOf(i)' : l \in ledger' /\ l.item = i
  BY DEF LedgerOf
<1>2. LedgerOf(i)' # {} => items[i].reservation \in Reservations
  <2>1. LedgerOf(i)' # {} => items[i].status # "absent"
    BY <1>1 DEF LedgerInv
  <2> QED  BY <2>1 DEF TypeInv, ItemsBelong
<1>3. Undisturbed(i)
  BY <1>1, <1>2 DEF Undisturbed, SamePlace
<1> QED  BY <1>3 DEF RoomLife

\* A creation and an added item: every new item is sold in one room, the given one
\* or that of its pin.
LEMMA InsertRooms ==
  ASSUME TypeInv, LedgerInv, NEW r \in Reservations, NEW new \in SUBSET Items, NEW input, NEW pin,
         NEW status, InsertAllItems(r, new, input, status, pin),
         reservations'[r].status # "cancelled",
         \A x \in Reservations : x # r => reservations'[x].status = reservations[x].status,
         NEW i \in Items
  PROVE  RoomLife(i)
<1> DEFINE rows == UNION {SoldRows(j, pin[j], NightsBetween(input[j].stay)) : j \in new}
<1>1. /\ \A j \in Items : items'[j] = IF j \in new THEN InsertedItem(r, input[j], status) ELSE items[j]
      /\ \A j \in new : items[j].status = "absent" /\ PinsTo(input[j], pin[j])
      /\ ledger' = ledger \cup rows
  BY DEF InsertAllItems
<1>2. \A l \in rows : l.item \in new /\ l.room = pin[l.item]
  BY DEF SoldRows
<1> HIDE DEF rows
<1>3. CASE i \notin new
  <2>1. LedgerOf(i)' = LedgerOf(i) /\ items'[i] = items[i]
    BY <1>1, <1>2, <1>3 DEF LedgerOf
  <2>2. LedgerOf(i) # {} => items[i].reservation \in Reservations
    BY DEF LedgerInv, LedgerOf, TypeInv, ItemsBelong
  <2>3. Undisturbed(i)
    BY <2>1, <2>2 DEF Undisturbed
  <2> QED  BY <2>3 DEF RoomLife
<1>4. CASE i \in new
  <2>1. LedgerOf(i) = {}
    BY <1>1, <1>4 DEF LedgerInv, LedgerOf
  <2>2. \A l \in LedgerOf(i)' : l.room = pin[i]
    BY <1>1, <1>2, <2>1 DEF LedgerOf
  <2>3. items'[i].room = input[i].room /\ items'[i].reservation = r
    <3>1. ASSUME NEW x
          PROVE  InsertedItem(r, x, status).room = x.room /\ InsertedItem(r, x, status).reservation = r
      BY DEF InsertedItem
    <3> QED  BY <1>1, <1>4, <3>1
  <2>4. input[i].room # NoRoom => pin[i] = input[i].room
    BY <1>1, <1>4 DEF PinsTo
  <2> QED  BY <2>1, <2>2, <2>3, <2>4 DEF RoomLife, Housed, Pinned
<1> QED  BY <1>3, <1>4

\* A reactivation sells the nights of an assigned item in its room, and pins an
\* unassigned one; only that of a hold may have been pinned before.
LEMMA ReactivateRooms ==
  ASSUME TypeInv, LedgerInv, LifeInv, PinsReleased, NEW r \in Reservations, NEW pin \in [Items -> Rooms],
         ReactivateReservation(r, pin), NEW i \in Items
  PROVE  RoomLife(i)
<1> DEFINE its  == ReactivateReservationItems(r)
           S    == LiveItemsOf(its, r)
           rows == UNION {SoldRows(j, pin[j], NightsBetween(its[j].stay)) : j \in S}
<1>1. /\ items' = its /\ ledger' = ledger \cup rows
      /\ \A j \in S : PinsTo(its[j], pin[j])
  BY DEF ReactivateReservation, ReclaimInventory
<1>2. \A l \in rows : l.item \in S /\ l.room = pin[l.item]
  BY DEF SoldRows
<1>3. S \subseteq Items /\ \A j \in S : its[j].reservation = r /\ its[j].status # "absent"
  BY DEF LiveItemsOf, Live
<1>4. SamePlace(items', i) /\ (items'[i].status # "absent" => items[i].status # "absent")
  BY <1>1, ReactivateReservationItemsFields
<1>5. StatusOnly(r, "confirmed") /\ reservations[r].status \in {"hold", "cancelled"}
  BY UpdateReservationStatusFields DEF ReactivateReservation, ValidateReservationTransition,
     reservationTransitions, TypeInv, TypeOK, ReservationRow, ReservationStatus
<1> HIDE DEF its, S, rows
<1>6. CASE i \notin S
  <2>1. LedgerOf(i)' = LedgerOf(i)
    BY <1>1, <1>2, <1>6 DEF LedgerOf
  <2>2. LedgerOf(i) # {} => items[i].reservation \in Reservations
    BY DEF LedgerInv, LedgerOf, TypeInv, ItemsBelong
  <2>3. Undisturbed(i)
    BY <1>4, <1>5, <2>1, <2>2 DEF Undisturbed, SamePlace, StatusOnly
  <2> QED  BY <2>3 DEF RoomLife
<1>7. CASE i \in S
  <2>1. \A l \in LedgerOf(i)' : l \in LedgerOf(i) \/ l.room = pin[i]
    BY <1>1, <1>2 DEF LedgerOf
  <2>2. items[i].reservation = r /\ items'[i].reservation = r /\ items[i].status # "absent"
    BY <1>1, <1>3, <1>4, <1>7 DEF SamePlace
  <2>3. CASE items[i].room # NoRoom
    <3>1. pin[i] = items[i].room
      BY <1>1, <1>4, <1>7, <2>3 DEF PinsTo, SamePlace
    <3> QED  BY <1>4, <2>1, <2>3, <3>1 DEF RoomLife, Housed, SamePlace
  <2>4. CASE items[i].room = NoRoom /\ reservations[r].status = "hold"
    BY <1>4, <1>5, <2>2, <2>4 DEF RoomLife, PinnedAgain, SamePlace, StatusOnly
  <2>5. CASE items[i].room = NoRoom /\ reservations[r].status = "cancelled"
    <3>1. LedgerOf(i) = {}
      BY <2>2, <2>5 DEF PinsReleased
    <3> QED  BY <1>4, <1>5, <2>1, <2>2, <2>5, <3>1 DEF RoomLife, Pinned, SamePlace, StatusOnly
  <2> QED  BY <1>5, <2>3, <2>4, <2>5
<1> QED  BY <1>6, <1>7

\* Requests on a reservation.
LEMMA ReservationRequestRooms ==
  ASSUME TypeInv, LedgerInv, LifeInv, PinsReleased, NEW r \in Reservations, ReservationRequest(r), NEW i \in Items
  PROVE  RoomLife(i)
<1>1. ASSUME NEW origin \in Origins, NEW new \in SUBSET Items \ {{}},
             NEW input \in [new -> ItemInput], NEW pin \in [new -> Rooms],
             CreateReservation(r, origin, new, input, pin)
      PROVE  RoomLife(i)
  <2> DEFINE initial == SourceToInitialStatus[origin]
  <2>1. initial.reservation # "cancelled"
    BY DEF SourceToInitialStatus, Origins
  <2> HIDE DEF initial
  <2>2. InsertAllItems(r, new, input, initial.item, pin)
    BY <1>1 DEF CreateReservation, initial
  <2>3. PICK env \in Stays :
          reservations' = [reservations EXCEPT
            ![r] = [status |-> initial.reservation, version |-> 1, env |-> env]]
    BY <1>1 DEF CreateReservation, initial
  <2>4. StatusOnly(r, initial.reservation)
    BY <2>3 DEF StatusOnly, TypeInv, TypeOK
  <2> QED  BY <2>1, <2>2, <2>4, InsertRooms DEF StatusOnly
<1>2. CASE CancelReservation(r)
  <2>1. /\ items' = CancelReservationItems(r) /\ ledger' = ledger \ LedgerOfReservation(r)
        /\ StatusOnly(r, "cancelled")
    BY <1>2, UpdateReservationStatusFields DEF CancelReservation
  <2>2. \A j \in Items : SamePlace(items', j)
    BY <2>1, CancelReservationItemsFields
  <2> QED  BY <2>1, <2>2, QuietRooms DEF StatusOnly, LedgerOfReservation
<1>3. CASE CheckinReservation(r) \/ CheckoutReservation(r)
  <2>1. PICK S, to : S \subseteq Live(items) /\ items' = BatchMove(S, to)
    BY <1>3 DEF CheckinReservation, CheckoutReservation, LiveItemsOf
  <2>2. S \in SUBSET Items /\ UNCHANGED <<ledger, reservations>>
    BY <1>3, <2>1 DEF Live, CheckinReservation, CheckoutReservation, RollupAndNotify
  <2>3. \A j \in Items : SamePlace(items', j)
    BY <2>1, <2>2, BatchMoveFields
  <2> QED  BY <2>2, <2>3, QuietRooms
<1>4. ASSUME NEW pin \in [Items -> Rooms], ReactivateReservation(r, pin)
      PROVE  RoomLife(i)
  BY <1>4, ReactivateRooms
<1>5. ASSUME NEW j \in Items, NEW input \in ItemInput, NEW room \in Rooms, AddItem(r, j, input, room)
      PROVE  RoomLife(i)
  <2>1. InsertAllItems(r, {j}, [k \in {j} |-> input], "booked", [k \in {j} |-> room])
    BY <1>5 DEF AddItem
  <2>2. StatusesKept
    BY <1>5, UpdateReservationMetadataFields DEF AddItem, RecomputeEnvelope
  <2>3. reservations'[r].status # "cancelled"
    BY <1>5, <2>2 DEF AddItem, IsTerminalReservationStatus, StatusesKept
  <2> QED  BY <2>1, <2>2, <2>3, InsertRooms DEF StatusesKept
<1>6. CASE ConfirmReservation(r)
  <2>1. StatusOnly(r, "confirmed") /\ UNCHANGED <<items, ledger>>
    BY <1>6, UpdateReservationStatusFields DEF ConfirmReservation
  <2> QED  BY <2>1, QuietRooms DEF StatusOnly, SamePlace
<1>7. CASE UpdateMetadata(r)
  <2>1. StatusesKept /\ UNCHANGED <<items, ledger>>
    BY <1>7, UpdateReservationMetadataFields DEF UpdateMetadata
  <2> QED  BY <2>1, QuietRooms DEF StatusesKept, SamePlace
<1>8. CASE GetReservation(r)
  BY <1>8, QuietRooms DEF GetReservation, tables, SamePlace
<1> QED  BY <1>1, <1>2, <1>3, <1>4, <1>5, <1>6, <1>7, <1>8 DEF ReservationRequest

\* A change of item i's room or stay that sells new nights in its room: without a
\* change of the room, or with all nights, or with other dates too.
LEMMA MoveRooms ==
  ASSUME TypeInv, LedgerInv, NEW i \in Live(items), NEW room, NEW stay, NEW rtype,
         items' = UpdatedItem(i, items[i].status, room, stay, rtype), StatusesKept,
         \A l \in ledger' : l \in ledger \/ (l.item = i /\ l.room = room /\ room # NoRoom),
         \/ room = items[i].room
         \/ /\ room # NoRoom
            /\ stay # items[i].stay \/ \A l \in ledger' : l.item = i => l.room = room,
         NEW j \in Items
  PROVE  RoomLife(j)
<1>1. i \in Items
  BY DEF Live
<1>2. /\ j # i => items'[j] = items[j]
      /\ items'[i].reservation = items[i].reservation
      /\ items'[i].room = room /\ items'[i].stay = stay
  BY <1>1, UpdatedItemFields
<1>3. ASSUME LedgerOf(j)' \subseteq LedgerOf(j), items'[j].room = items[j].room
      PROVE  RoomLife(j)
  <2>1. LedgerOf(j)' # {} => items[j].status # "absent"
    BY <1>3 DEF LedgerInv, LedgerOf
  <2>2. LedgerOf(j)' # {} => items[j].reservation \in Reservations
    BY <2>1 DEF TypeInv, ItemsBelong
  <2>3. Undisturbed(j)
    BY <1>2, <1>3, <2>2 DEF Undisturbed, StatusesKept
  <2> QED  BY <2>3 DEF RoomLife
<1>4. CASE j # i
  BY <1>2, <1>3, <1>4 DEF LedgerOf
<1>5. CASE j = i /\ room = NoRoom
  BY <1>2, <1>3, <1>5 DEF LedgerOf
<1>6. CASE j = i /\ room # NoRoom
  <2>1. CASE room = items[i].room \/ \A l \in ledger' : l.item = i => l.room = room
    BY <1>2, <1>6, <2>1 DEF RoomLife, Housed, LedgerOf
  <2>2. CASE stay # items[i].stay /\ room # items[i].room
    BY <1>2, <1>6, <2>2 DEF RoomLife, MovedInTime
  <2> QED  BY <2>1, <2>2
<1> QED  BY <1>4, <1>5, <1>6

\* Requests on an item.
LEMMA ItemRequestRooms ==
  ASSUME TypeInv, LedgerInv, NEW i \in Items, ItemRequest(i), NEW j \in Items
  PROVE  RoomLife(j)
<1>0. i \in Live(items)
  BY DEF ItemRequest, CancelItem, CheckinItem, CheckoutItem, MarkNoShow, UpdateItemRoomType,
         UpdateItemRatePlan, UpdateItem, AssignRoom, GetReservationItem
<1>r. items[i].reservation \in Reservations
  BY <1>0, LiveItem
<1>s. \A at, nights : \A l \in SoldRows(i, at, nights) : l.item = i /\ l.room = at
  BY DEF SoldRows
<1>1. ASSUME NEW status, items' = ItemWithStatus(i, status), ledger' \subseteq ledger, UNCHANGED reservations
      PROVE  RoomLife(j)
  BY <1>1, ItemWithStatusFields, QuietRooms
<1>2. CASE CancelItem(i) \/ MarkNoShow(i) \/ CheckinItem(i) \/ CheckoutItem(i) \/ UpdateItemRatePlan(i)
  BY <1>1, <1>2 DEF CancelItem, MarkNoShow, CheckinItem, CheckoutItem, UpdateItemRatePlan, RollupAndNotify
<1>3. ASSUME NEW rtype \in RoomTypes, UpdateItemRoomType(i, rtype)
      PROVE  RoomLife(j)
  <2>1. /\ items' = UpdatedItem(i, items[i].status, items[i].room, items[i].stay, rtype)
        /\ UNCHANGED <<ledger, reservations>>
    BY <1>3 DEF UpdateItemRoomType
  <2>2. \A k \in Items : SamePlace(items', k)
    BY <2>1, UpdatedItemFields DEF SamePlace
  <2> QED  BY <2>1, <2>2, QuietRooms
<1>4. ASSUME NEW stay \in Stays, NEW input \in Rooms \cup {NoRoom}, UpdateItem(i, stay, input)
      PROVE  RoomLife(j)
  <2> DEFINE room == IF input # NoRoom THEN input ELSE items[i].room
  <2>1. /\ items' = UpdatedItem(i, items[i].status, room, stay, items[i].rtype)
        /\ \/ stay # items[i].stay /\ ShiftLedger(i, stay, room)
           \/ room # items[i].room /\ ledger' = MovedLedger(i, room)
           \/ room = items[i].room /\ ledger' = ledger
    BY <1>4 DEF UpdateItem
  <2>2. room = items[i].room \/ room # NoRoom
    OBVIOUS
  <2>3. StatusesKept
    <3>1. UNCHANGED reservations \/ RecomputeEnvelope(items[i].reservation, items)
      BY <1>4 DEF UpdateItem
    <3> QED  BY <1>r, <3>1, UpdateReservationMetadataFields DEF RecomputeEnvelope, StatusesKept
  <2> HIDE DEF room
  <2>4. ASSUME \A l \in ledger' : l \in ledger \/ (l.item = i /\ l.room = room /\ room # NoRoom),
               \/ room = items[i].room \/ stay # items[i].stay
               \/ \A l \in ledger' : l.item = i => l.room = room
        PROVE  RoomLife(j)
    BY <1>0, <2>1, <2>2, <2>3, <2>4, MoveRooms
  <2>5. CASE stay # items[i].stay /\ ShiftLedger(i, stay, room)
    <3>1. \/ ledger' \subseteq ledger
          \/ room # NoRoom /\ \E nights : ledger' \subseteq ledger \cup SoldRows(i, room, nights)
      BY <2>5 DEF ShiftLedger
    <3>2. \A l \in ledger' : l \in ledger \/ (l.item = i /\ l.room = room /\ room # NoRoom)
      BY <1>s, <3>1
    <3> QED  BY <2>4, <2>5, <3>2
  <2>6. CASE room # items[i].room /\ ledger' = MovedLedger(i, room)
    <3>1. \A l \in ledger' : (l \in ledger /\ l.item # i) \/ (l.item = i /\ l.room = room)
      BY <1>s, <2>6 DEF MovedLedger, LedgerOf
    <3> QED  BY <2>2, <2>4, <2>6, <3>1
  <2>7. CASE room = items[i].room /\ ledger' = ledger
    BY <2>4, <2>7
  <2> QED  BY <2>1, <2>5, <2>6, <2>7
<1>5. ASSUME NEW room \in Rooms, AssignRoom(i, room)
      PROVE  RoomLife(j)
  <2>1. /\ items' = UpdatedItem(i, items[i].status, room, items[i].stay, items[i].rtype)
        /\ ledger' = MovedLedger(i, room) /\ UNCHANGED reservations /\ room # NoRoom
    BY <1>5, BookingAssumption DEF AssignRoom
  <2>2. \A l \in ledger' : (l \in ledger /\ l.item # i) \/ (l.item = i /\ l.room = room)
    BY <1>s, <2>1 DEF MovedLedger, LedgerOf
  <2>3. StatusesKept
    BY <2>1 DEF StatusesKept
  <2>4. /\ room # NoRoom
        /\ \A l \in ledger' : l \in ledger \/ (l.item = i /\ l.room = room /\ room # NoRoom)
        /\ \A l \in ledger' : l.item = i => l.room = room
    BY <2>1, <2>2
  <2>5. PICK stay, rtype : items' = UpdatedItem(i, items[i].status, room, stay, rtype)
    BY <2>1
  <2> QED  BY <1>0, <2>3, <2>4, <2>5, MoveRooms
<1>6. CASE GetReservationItem(i)
  BY <1>6, QuietRooms DEF GetReservationItem, tables, SamePlace
<1> QED  BY <1>2, <1>3, <1>4, <1>5, <1>6 DEF ItemRequest

\* The sweeps move nothing: a version that fits returns the room that is there.
LEMMA SweepRooms ==
  ASSUME TypeInv, CopiesFit, LedgerInv, Sweep, NEW i \in Items
  PROVE  RoomLife(i)
<1>k. ASSUME UNCHANGED <<reservations, items, ledger>>
      PROVE  RoomLife(i)
  BY <1>k, QuietRooms DEF SamePlace
<1>1. ASSUME NEW copy \in holdBatch, CancelHoldTx(copy)
      PROVE  RoomLife(i)
  <2> DEFINE r == copy.id
  <2>1. r \in Reservations
    BY DEF TypeInv, TypeOK, ReservationCopy
  <2>2. CASE /\ items' = CancelReservationItems(r) /\ ledger' = ledger \ LedgerOfReservation(r)
             /\ UpdateReservationStatus(r, "cancelled")
    <3>1. StatusOnly(r, "cancelled")
      BY <2>1, <2>2, UpdateReservationStatusFields
    <3>2. \A j \in Items : SamePlace(items', j)
      BY <2>2, CancelReservationItemsFields
    <3> QED  BY <2>1, <2>2, <3>1, <3>2, QuietRooms DEF StatusOnly, LedgerOfReservation
  <2> QED  BY <1>1, <1>k, <2>2 DEF CancelHoldTx
<1>2. ASSUME NEW copy \in overstayBatch, MarkOverstayTx(copy)
      PROVE  RoomLife(i)
  <2> DEFINE j == copy.id
  <2>1. j \in Items /\ UNCHANGED <<reservations, ledger>>
    BY <1>2 DEF TypeInv, TypeOK, ItemCopy, MarkOverstayTx
  <2>2. CASE /\ items[j].version = copy.row.version /\ items[j].status = "checked_in"
             /\ items' = UpdatedItem(j, "overstay", copy.row.room, copy.row.stay, copy.row.rtype)
    <3>1. copy.row = items[j]
      BY <2>2 DEF CopiesFit, Fits
    <3>2. \A k \in Items : SamePlace(items', k)
      BY <2>1, <2>2, <3>1, UpdatedItemFields DEF SamePlace
    <3> QED  BY <2>1, <3>2, QuietRooms
  <2> QED  BY <1>2, <1>k, <2>1, <2>2 DEF MarkOverstayTx
<1>3. ASSUME NEW copy \in archiveBatch, ArchiveReservationTx(copy)
      PROVE  RoomLife(i)
  <2> DEFINE r == copy.id
  <2>1. r \in Reservations /\ UNCHANGED ledger
    BY <1>3 DEF TypeInv, TypeOK, ReservationCopy, ArchiveReservationTx
  <2>2. CASE items' = SoftDeleteItems(r) /\ UpdateReservationStatus(r, "archived")
    <3>1. StatusOnly(r, "archived")
      BY <2>1, <2>2, UpdateReservationStatusFields
    <3>2. \A j \in Items : SamePlace(items', j)
      BY <2>2, SoftDeleteItemsFields
    <3> QED  BY <2>1, <3>1, <3>2, QuietRooms DEF StatusOnly
  <2> QED  BY <1>3, <1>k, <2>1, <2>2 DEF ArchiveReservationTx
<1>4. CASE \/ \E S \in SUBSET Reservations : FindExpiredHolds(S) \/ FindArchivableReservations(S)
           \/ \E S \in SUBSET Items : FindOverstays(S)
           \/ RestartServer
  BY <1>4, <1>k DEF FindExpiredHolds, FindArchivableReservations, FindOverstays, RestartServer, tables
<1> QED  BY <1>1, <1>2, <1>3, <1>4 DEF Sweep

\* Every step.
LEMMA NextRooms ==
  ASSUME BookingInv, PinsReleased, [Next]_vars, NEW i \in Items
  PROVE  RoomLife(i)
<1> USE DEF BookingInv
<1>1. CASE NextDay \/ (\E r \in Reservations : DeadlinePasses(r)) \/ UNCHANGED vars
  BY <1>1, QuietRooms DEF NextDay, DeadlinePasses, tables, vars, SamePlace
<1> QED  BY <1>1, ReservationRequestRooms, ItemRequestRooms, SweepRooms DEF Next

\* A cancellation gives up the nights, and nothing pins an item of a reservation
\* that stays cancelled.
LEMMA PinsReleasedStep ==
  ASSUME BookingInv, PinsReleased, [Next]_vars
  PROVE  PinsReleased'
<1> SUFFICES ASSUME NEW i \in Items, items'[i].status # "absent", items'[i].room = NoRoom,
                    reservations'[items'[i].reservation].status = "cancelled"
             PROVE  LedgerOf(i)' = {}
  BY DEF PinsReleased
<1>1. RoomLife(i)
  BY NextRooms
<1>2. Undisturbed(i)
  BY <1>1 DEF RoomLife, Housed, Pinned, PinnedAgain, MovedInTime
<1>3. CASE items[i].status = "absent"
  <2>1. LedgerOf(i) = {}
    BY <1>3 DEF BookingInv, LedgerInv, LedgerOf
  <2> QED  BY <1>2, <2>1 DEF Undisturbed
<1>4. CASE items[i].status # "absent"
  BY <1>2, <1>4 DEF Undisturbed, PinsReleased
<1> QED  BY <1>3, <1>4

\* The room of an item and the room of its nights come apart only when UpdateItem
\* changes dates and room at once, or when a hold is reactivated.
THEOREM RoomsAgree == Spec => LedgerFollowsRoom
<1> DEFINE A == \A i \in Items :
                  InOneRoom(i) /\ ~InOneRoom(i)'
                    => \/ items'[i].stay # items[i].stay /\ items'[i].room # items[i].room
                       \/ /\ items[i].room = NoRoom
                          /\ reservations[items[i].reservation].status = "hold"
                          /\ reservations'[items[i].reservation].status = "confirmed"
           Inv == BookingInv /\ PinsReleased
<1>1. Init => Inv
  <2>1. Init => PinsReleased
    BY DEF Init, PinsReleased, LedgerOf
  <2> QED  BY <2>1, BookingInvInit
<1>2. Inv /\ [Next]_vars => Inv'
  BY BookingInvStep, PinsReleasedStep
<1>3. Inv /\ [Next]_vars => A
  <2> SUFFICES ASSUME Inv, [Next]_vars, NEW i \in Items, InOneRoom(i), ~InOneRoom(i)'
               PROVE  PinnedAgain(i) \/ MovedInTime(i)
    BY DEF PinnedAgain, MovedInTime
  <2>1. RoomLife(i)
    BY NextRooms
  <2>2. ~Undisturbed(i)
    BY DEF InOneRoom, Undisturbed
  <2>3. ~Housed(i)
    BY DEF InOneRoom, Housed
  <2>4. ~Pinned(i)
    BY DEF InOneRoom, Pinned
  <2> QED  BY <2>1, <2>2, <2>3, <2>4 DEF RoomLife
<1>4. Inv /\ [Next]_vars => [A]_vars
  BY <1>3
<1> HIDE DEF Inv
<1> QED  BY <1>1, <1>2, <1>4, PTL DEF Spec, LedgerFollowsRoom

-----------------------------------------------------------------------------
(* Announcements and e-mails.                                              *)

\* An e-mail goes out with the change to confirmed or checked in, and a change
\* of status is announced.
Told(r) ==
  /\ outbox'[r] # outbox[r] => /\ outbox'[r] = outbox[r] + 1
                               /\ reservations[r].status # reservations'[r].status
                               /\ reservations'[r].status \in {"confirmed", "checked_in"}
  /\ reservations'[r].status # reservations[r].status => r \notin silent'

\* A step that changes the status of r alone and announces it.
LEMMA StatusTold ==
  ASSUME TypeInv, NEW r \in Reservations, NEW status, StatusOnly(r, status), silent' = silent \ {r},
         \/ outbox' = outbox
         \/ /\ outbox' = [outbox EXCEPT ![r] = @ + 1]
            /\ status # reservations[r].status /\ status \in {"confirmed", "checked_in"}
  PROVE  \A x \in Reservations : Told(x)
BY DEF StatusOnly, Told, TypeInv, TypeOK

\* Every step sends the e-mails and announcements its changes of status ask for.
LEMMA NextTells ==
  ASSUME BookingInv, [Next]_vars
  PROVE  \A x \in Reservations : Told(x)
<1> USE DEF BookingInv
<1>q. ASSUME StatusesKept, UNCHANGED outbox
      PROVE  \A x \in Reservations : Told(x)
  BY <1>q DEF StatusesKept, Told
<1>1. ASSUME NEW r \in Reservations, NEW origin \in Origins, NEW new, NEW input, NEW pin,
             CreateReservation(r, origin, new, input, pin)
      PROVE  \A x \in Reservations : Told(x)
  <2> DEFINE initial == SourceToInitialStatus[origin]
  <2>1. initial.reservation \in {"hold", "confirmed", "checked_in"}
    BY DEF SourceToInitialStatus, Origins
  <2> HIDE DEF initial
  <2>2. PICK env \in Stays :
          reservations' = [reservations EXCEPT
            ![r] = [status |-> initial.reservation, version |-> 1, env |-> env]]
    BY <1>1 DEF CreateReservation, initial
  <2>3. StatusOnly(r, initial.reservation)
    BY <2>2 DEF StatusOnly, TypeInv, TypeOK
  <2>4. /\ silent' = silent \ {r} /\ reservations[r].status = "absent"
        /\ outbox' = IF initial.reservation # "hold" THEN [outbox EXCEPT ![r] = @ + 1] ELSE outbox
    BY <1>1 DEF CreateReservation, NotifyReservationChange, initial
  <2> QED  BY <2>1, <2>3, <2>4, StatusTold
<1>2. ASSUME NEW r \in Reservations, ConfirmReservation(r)
      PROVE  \A x \in Reservations : Told(x)
  <2>1. StatusOnly(r, "confirmed")
    BY <1>2, UpdateReservationStatusFields DEF ConfirmReservation
  <2> QED  BY <1>2, <2>1, StatusTold DEF ConfirmReservation, NotifyReservationChange
<1>3. ASSUME NEW r \in Reservations, NEW status, UpdateReservationStatus(r, status),
             NotifyReservationChange(r), UNCHANGED outbox
      PROVE  \A x \in Reservations : Told(x)
  <2>1. StatusOnly(r, status)
    BY <1>3, UpdateReservationStatusFields
  <2> QED  BY <1>3, <2>1, StatusTold DEF NotifyReservationChange
<1>4. ASSUME NEW r \in Reservations, NEW env, UpdateReservationMetadata(r, env), UNCHANGED outbox
      PROVE  \A x \in Reservations : Told(x)
  BY <1>4, <1>q, UpdateReservationMetadataFields
<1>5. ASSUME NEW r \in Reservations, ReservationRequest(r)
      PROVE  \A x \in Reservations : Told(x)
  <2>1. CASE CancelReservation(r)
    BY <1>3, <2>1 DEF CancelReservation
  <2>2. ASSUME NEW pin \in [Items -> Rooms], ReactivateReservation(r, pin)
        PROVE  \A x \in Reservations : Told(x)
    BY <1>3, <2>2 DEF ReactivateReservation
  <2>3. CASE CheckinReservation(r) \/ CheckoutReservation(r) \/ GetReservation(r)
    BY <1>q, <2>3 DEF CheckinReservation, CheckoutReservation, GetReservation, RollupAndNotify,
       tables, StatusesKept
  <2>4. ASSUME NEW i \in Items, NEW input \in ItemInput, NEW room \in Rooms, AddItem(r, i, input, room)
        PROVE  \A x \in Reservations : Told(x)
    BY <1>4, <2>4 DEF AddItem, RecomputeEnvelope
  <2>5. CASE UpdateMetadata(r)
    BY <1>4, <2>5 DEF UpdateMetadata
  <2> QED  BY <1>1, <1>2, <1>5, <2>1, <2>2, <2>3, <2>4, <2>5 DEF ReservationRequest
<1>6. ASSUME NEW i \in Items, ItemRequest(i)
      PROVE  \A x \in Reservations : Told(x)
  <2>1. i \in Live(items)
    BY <1>6 DEF ItemRequest, CancelItem, CheckinItem, CheckoutItem, MarkNoShow, UpdateItemRoomType,
           UpdateItemRatePlan, UpdateItem, AssignRoom, GetReservationItem
  <2>2. items[i].reservation \in Reservations
    BY <2>1, LiveItem
  <2>3. ASSUME NEW stay \in Stays, NEW input \in Rooms \cup {NoRoom}, UpdateItem(i, stay, input)
        PROVE  \A x \in Reservations : Told(x)
    <3>1. UNCHANGED reservations \/ RecomputeEnvelope(items[i].reservation, items)
      BY <2>3 DEF UpdateItem
    <3> QED  BY <1>4, <1>q, <2>2, <2>3, <3>1 DEF UpdateItem, RecomputeEnvelope, StatusesKept
  <2>4. CASE UNCHANGED <<reservations, outbox>>
    BY <1>q, <2>4 DEF StatusesKept
  <2> QED  BY <1>6, <2>3, <2>4 DEF ItemRequest, CancelItem, CheckinItem, CheckoutItem, MarkNoShow,
           UpdateItemRoomType, UpdateItemRatePlan, AssignRoom, GetReservationItem, RollupAndNotify, tables
<1>7. CASE Sweep
  <2>1. ASSUME NEW copy \in holdBatch, CancelHoldTx(copy)
        PROVE  \A x \in Reservations : Told(x)
    <3>1. copy.id \in Reservations
      BY DEF TypeInv, TypeOK, ReservationCopy
    <3> QED  BY <1>3, <1>q, <2>1, <3>1 DEF CancelHoldTx, StatusesKept
  <2>2. ASSUME NEW copy \in archiveBatch, ArchiveReservationTx(copy)
        PROVE  \A x \in Reservations : Told(x)
    <3>1. copy.id \in Reservations
      BY DEF TypeInv, TypeOK, ReservationCopy
    <3> QED  BY <1>3, <1>q, <2>2, <3>1 DEF ArchiveReservationTx, StatusesKept
  <2>3. CASE UNCHANGED <<reservations, outbox>>
    BY <1>q, <2>3 DEF StatusesKept
  <2> QED  BY <1>7, <2>1, <2>2, <2>3 DEF Sweep, FindExpiredHolds, FindArchivableReservations,
           FindOverstays, MarkOverstayTx, RestartServer, tables
<1>8. CASE NextDay \/ (\E r \in Reservations : DeadlinePasses(r)) \/ UNCHANGED vars
  BY <1>8, <1>q DEF NextDay, DeadlinePasses, tables, vars, StatusesKept
<1> QED  BY <1>5, <1>6, <1>7, <1>8 DEF Next

\* Exactly one confirmation e-mail is enqueued, by the step that confirms a
\* reservation or creates it checked in; repeated confirms enqueue none.
THEOREM EmailsFollowConfirmations == Spec => EmailOnlyOnConfirmation
<1> DEFINE A == \A r \in Reservations :
                  outbox'[r] # outbox[r]
                    => /\ outbox'[r] = outbox[r] + 1
                       /\ reservations[r].status # reservations'[r].status
                       /\ reservations'[r].status \in {"confirmed", "checked_in"}
<1>1. BookingInv /\ [Next]_vars => [A]_vars
  BY NextTells DEF Told
<1> QED  BY <1>1, BookingInvInit, BookingInvStep, PTL DEF Spec, EmailOnlyOnConfirmation

\* Every change of a reservation's status, by a request or a sweep, is announced
\* on reservation_changes in the same transaction.
THEOREM StatusIsAnnounced == Spec => StatusChangesAreAnnounced
<1> DEFINE A == \A r \in Reservations :
                  reservations'[r].status # reservations[r].status => r \notin silent'
<1>1. BookingInv /\ [Next]_vars => [A]_vars
  BY NextTells DEF Told
<1> QED  BY <1>1, BookingInvInit, BookingInvStep, PTL DEF Spec, StatusChangesAreAnnounced

-----------------------------------------------------------------------------
(* The dates of a reservation and those of its items.                      *)

Inside(env, stay) == env.arr <= stay.arr /\ stay.dep <= env.dep

\* Where a live item comes from: it was deleted, its reservation's dates are
\* what they were or cover its old stay, or they cover its new one.
Covered(i) ==
  LET r == items[i].reservation
  IN  i \in Live(items') =>
        \/ items[i].deleted
        \/ items[i].status # "absent" /\ reservations'[r].env = reservations[r].env
        \/ items[i].status # "absent" /\ Inside(reservations'[r].env, items[i].stay)
        \/ Inside(reservations'[items'[i].reservation].env, items'[i].stay)

EnvelopesKept == \A x \in Reservations : reservations'[x].env = reservations[x].env

NothingInserted == \A i \in Live(items') : items[i].status # "absent"

\* A step that inserts no item and leaves the reservations' dates alone.
LEMMA QuietEnvelopes ==
  ASSUME TypeInv, EnvelopesKept, NothingInserted
  PROVE  \A i \in Items : Covered(i)
BY DEF EnvelopesKept, NothingInserted, Covered, TypeInv, ItemsBelong

\* Requests on a reservation: a creation and an added item compute the dates
\* from what they have inserted, the others leave them alone.
LEMMA ReservationRequestEnvelopes ==
  ASSUME TypeInv, LifeInv, NEW r \in Reservations, ReservationRequest(r)
  PROVE  \A i \in Items : Covered(i)
<1>1. ASSUME NEW origin \in Origins, NEW new \in SUBSET Items \ {{}},
             NEW input \in [new -> ItemInput], NEW pin \in [new -> Rooms],
             CreateReservation(r, origin, new, input, pin)
      PROVE  \A i \in Items : Covered(i)
  <2> DEFINE initial == SourceToInitialStatus[origin]
  <2> HIDE DEF initial
  <2>1. InsertAllItems(r, new, input, initial.item, pin) /\ reservations[r].status = "absent"
    BY <1>1 DEF CreateReservation, initial
  <2>2. PICK env \in Stays :
          /\ IsEnvelope(env, input, new)
          /\ reservations' = [reservations EXCEPT
               ![r] = [status |-> initial.reservation, version |-> 1, env |-> env]]
    BY <1>1 DEF CreateReservation, initial
  <2>3. /\ reservations'[r].env = env
        /\ \A x \in Reservations : x # r => reservations'[x] = reservations[x]
    BY <2>2 DEF TypeInv, TypeOK
  <2>4. InsertedFor(r, new, initial.item, input)
    BY <2>1, InsertAllItemsFields
  <2>5. ASSUME NEW i \in new
        PROVE  Covered(i)
    <3>1. items'[i].reservation = r /\ items'[i].stay = input[i].stay
      BY <2>4 DEF InsertedFor
    <3>2. Inside(env, input[i].stay)
      BY <2>2 DEF IsEnvelope, Inside
    <3> QED  BY <2>3, <3>1, <3>2 DEF Covered
  <2>6. ASSUME NEW i \in Items, i \notin new
        PROVE  Covered(i)
    <3>1. items'[i] = items[i]
      BY <2>4, <2>6 DEF InsertedFor
    <3>2. CASE items[i].status = "absent"
      BY <3>1, <3>2 DEF Covered, Live
    <3>3. CASE items[i].status # "absent"
      <4>1. items[i].reservation \in Reservations /\ items[i].reservation # r
        BY <2>1, <3>3 DEF LifeInv, TypeInv, ItemsBelong
      <4> QED  BY <2>3, <3>3, <4>1 DEF Covered
    <3> QED  BY <3>2, <3>3
  <2> QED  BY <2>5, <2>6
<1>2. CASE ConfirmReservation(r)
  <2>1. EnvelopesKept /\ UNCHANGED items
    BY <1>2, UpdateReservationStatusFields DEF ConfirmReservation, EnvelopesKept
  <2> QED  BY <2>1, QuietEnvelopes DEF NothingInserted, Live
<1>3. CASE CancelReservation(r)
  <2>1. EnvelopesKept /\ items' = CancelReservationItems(r)
    BY <1>3, UpdateReservationStatusFields DEF CancelReservation, EnvelopesKept
  <2>2. NothingInserted
    BY <2>1, CancelReservationItemsFields DEF NothingInserted, Live
  <2> QED  BY <2>1, <2>2, QuietEnvelopes
<1>4. ASSUME NEW S \in SUBSET Live(items), NEW to, items' = BatchMove(S, to), UNCHANGED reservations
      PROVE  \A i \in Items : Covered(i)
  <2>1. S \in SUBSET Items /\ \A i \in S : items[i].status # "absent"
    BY DEF Live
  <2>2. NothingInserted
    BY <1>4, <2>1, BatchMoveFields DEF NothingInserted, Live
  <2> QED  BY <1>4, <2>2, QuietEnvelopes DEF EnvelopesKept
<1>5. CASE CheckinReservation(r)
  <2> DEFINE ready == {i \in LiveItemsOf(items, r) :
                         items[i].status = "booked" /\ items[i].room # NoRoom}
  <2>1. ready \in SUBSET Live(items)
    BY DEF LiveItemsOf
  <2>2. items' = BatchMove(ready, "checked_in") /\ UNCHANGED reservations
    BY <1>5 DEF CheckinReservation, RollupAndNotify
  <2> HIDE DEF ready
  <2> QED  BY <1>4, <2>1, <2>2
<1>6. CASE CheckoutReservation(r)
  <2> DEFINE ready == {i \in LiveItemsOf(items, r) : items[i].status = "checked_in"}
  <2>1. ready \in SUBSET Live(items)
    BY DEF LiveItemsOf
  <2>2. items' = BatchMove(ready, "checked_out") /\ UNCHANGED reservations
    BY <1>6 DEF CheckoutReservation, RollupAndNotify
  <2> HIDE DEF ready
  <2> QED  BY <1>4, <2>1, <2>2
<1>7. ASSUME NEW pin \in [Items -> Rooms], ReactivateReservation(r, pin)
      PROVE  \A i \in Items : Covered(i)
  <2>1. EnvelopesKept /\ items' = ReactivateReservationItems(r)
    BY <1>7, UpdateReservationStatusFields DEF ReactivateReservation, EnvelopesKept
  <2>2. NothingInserted
    BY <2>1, ReactivateReservationItemsFields DEF NothingInserted, Live
  <2> QED  BY <2>1, <2>2, QuietEnvelopes
<1>8. ASSUME NEW i \in Items, NEW input \in ItemInput, NEW room \in Rooms,
             AddItem(r, i, input, room)
      PROVE  \A j \in Items : Covered(j)
  <2>1. PICK env \in Stays : /\ IsEnvelope(env, items', LiveItemsOf(items', r))
                             /\ UpdateReservationMetadata(r, env)
    BY <1>8 DEF AddItem, RecomputeEnvelope
  <2>2. /\ reservations'[r].env = env
        /\ \A x \in Reservations : x # r => reservations'[x] = reservations[x]
    BY <2>1, UpdateReservationMetadataFields
  <2>3. InsertedFor(r, {i}, "booked", [j \in {i} |-> input])
    BY <1>8, InsertAllItemsFields DEF AddItem
  <2>4. ASSUME NEW j \in Items, j \in Live(items')
        PROVE  Covered(j)
    <3>1. CASE items'[j].reservation = r
      <4>1. Inside(env, items'[j].stay)
        BY <2>1, <2>4, <3>1 DEF IsEnvelope, LiveItemsOf, Inside
      <4> QED  BY <2>2, <3>1, <4>1 DEF Covered
    <3>2. CASE items'[j].reservation # r
      <4>1. items'[j] = items[j]
        BY <2>3, <3>2 DEF InsertedFor
      <4>2. items[j].status # "absent" /\ items[j].reservation \in Reservations
        BY <2>4, <4>1 DEF Live, TypeInv, ItemsBelong
      <4> QED  BY <2>2, <3>2, <4>1, <4>2 DEF Covered
    <3> QED  BY <3>1, <3>2
  <2> QED  BY <2>4 DEF Covered
<1>9. CASE UpdateMetadata(r)
  <2>1. EnvelopesKept /\ UNCHANGED items
    BY <1>9, UpdateReservationMetadataFields DEF UpdateMetadata, EnvelopesKept
  <2> QED  BY <2>1, QuietEnvelopes DEF NothingInserted, Live
<1>10. CASE GetReservation(r)
  BY <1>10, QuietEnvelopes DEF GetReservation, tables, EnvelopesKept, NothingInserted, Live
<1> QED  BY <1>1, <1>2, <1>3, <1>5, <1>6, <1>7, <1>8, <1>9, <1>10 DEF ReservationRequest

\* Requests on an item: new dates of an item make the reservation's cover the
\* items as they were, the other requests leave them alone.
LEMMA ItemRequestEnvelopes ==
  ASSUME TypeInv, NEW i \in Items, ItemRequest(i)
  PROVE  \A j \in Items : Covered(j)
<1>0. i \in Live(items)
  BY DEF ItemRequest, CancelItem, CheckinItem, CheckoutItem, MarkNoShow, UpdateItemRoomType,
         UpdateItemRatePlan, UpdateItem, AssignRoom, GetReservationItem
<1>1. ASSUME NEW status, NEW room, NEW stay, NEW rtype,
             items' = UpdatedItem(i, status, room, stay, rtype)
      PROVE  NothingInserted
  BY <1>0, <1>1, UpdatedItemFields DEF NothingInserted, Live
<1>2. ASSUME UNCHANGED reservations,
             \/ UNCHANGED items
             \/ \E status, room, stay, rtype : items' = UpdatedItem(i, status, room, stay, rtype)
      PROVE  \A j \in Items : Covered(j)
  <2>1. NothingInserted
    BY <1>1, <1>2 DEF NothingInserted, Live
  <2> QED  BY <1>2, <2>1, QuietEnvelopes DEF EnvelopesKept
<1>3. ASSUME NEW stay \in Stays, NEW input \in Rooms \cup {NoRoom}, UpdateItem(i, stay, input)
      PROVE  \A j \in Items : Covered(j)
  <2> DEFINE r == items[i].reservation
  <2>1. NothingInserted
    BY <1>1, <1>3 DEF UpdateItem
  <2>2. CASE UNCHANGED reservations
    BY <2>1, <2>2, QuietEnvelopes DEF EnvelopesKept
  <2>3. CASE RecomputeEnvelope(r, items)
    <3>1. r \in Reservations
      BY <1>0, LiveItem
    <3> HIDE DEF r
    <3>2. PICK env \in Stays : /\ IsEnvelope(env, items, LiveItemsOf(items, r))
                               /\ UpdateReservationMetadata(r, env)
      BY <2>3 DEF RecomputeEnvelope
    <3>3. /\ reservations'[r].env = env
          /\ \A x \in Reservations : x # r => reservations'[x] = reservations[x]
      BY <3>1, <3>2, UpdateReservationMetadataFields
    <3>4. ASSUME NEW j \in Items, items[j].status # "absent", ~items[j].deleted
          PROVE  Covered(j)
      <4>1. CASE items[j].reservation = r
        <5>1. Inside(env, items[j].stay)
          BY <3>2, <3>4, <4>1 DEF IsEnvelope, LiveItemsOf, Live, Inside
        <5> QED  BY <3>3, <3>4, <4>1, <5>1 DEF Covered
      <4>2. CASE items[j].reservation # r
        BY <3>3, <3>4, <4>2 DEF Covered, TypeInv, ItemsBelong
      <4> QED  BY <4>1, <4>2
    <3> QED  BY <2>1, <3>4 DEF NothingInserted, Covered
  <2> QED  BY <1>3, <2>2, <2>3 DEF UpdateItem
<1>4. CASE CancelItem(i) \/ CheckinItem(i) \/ CheckoutItem(i) \/ MarkNoShow(i)
  <2>1. UNCHANGED reservations /\ \E status : items' = ItemWithStatus(i, status)
    BY <1>4 DEF CancelItem, CheckinItem, CheckoutItem, MarkNoShow, RollupAndNotify
  <2> QED  BY <1>2, <2>1 DEF ItemWithStatus
<1>5. CASE UpdateItemRatePlan(i)
  BY <1>2, <1>5 DEF UpdateItemRatePlan, ItemWithStatus
<1>6. ASSUME NEW rtype \in RoomTypes, UpdateItemRoomType(i, rtype)
      PROVE  \A j \in Items : Covered(j)
  BY <1>2, <1>6 DEF UpdateItemRoomType
<1>7. ASSUME NEW room \in Rooms, AssignRoom(i, room)
      PROVE  \A j \in Items : Covered(j)
  BY <1>2, <1>7 DEF AssignRoom
<1>8. CASE GetReservationItem(i)
  BY <1>2, <1>8 DEF GetReservationItem, tables
<1> QED  BY <1>3, <1>4, <1>5, <1>6, <1>7, <1>8 DEF ItemRequest

\* The sweeps leave the dates alone and insert nothing.
LEMMA SweepEnvelopes ==
  ASSUME TypeInv, Sweep
  PROVE  \A j \in Items : Covered(j)
<1>k. ASSUME UNCHANGED <<reservations, items>>
      PROVE  \A j \in Items : Covered(j)
  BY <1>k, QuietEnvelopes DEF EnvelopesKept, NothingInserted, Live
<1>1. ASSUME NEW copy \in holdBatch, CancelHoldTx(copy)
      PROVE  \A j \in Items : Covered(j)
  <2> DEFINE r == copy.id
  <2>1. r \in Reservations
    BY DEF TypeInv, TypeOK, ReservationCopy
  <2>2. CASE items' = CancelReservationItems(r) /\ UpdateReservationStatus(r, "cancelled")
    <3>1. NothingInserted
      BY <2>2, CancelReservationItemsFields DEF NothingInserted, Live
    <3> QED  BY <2>1, <2>2, <3>1, UpdateReservationStatusFields, QuietEnvelopes DEF EnvelopesKept
  <2> QED  BY <1>1, <1>k, <2>2 DEF CancelHoldTx
<1>2. ASSUME NEW copy \in overstayBatch, MarkOverstayTx(copy)
      PROVE  \A j \in Items : Covered(j)
  <2> DEFINE i == copy.id
  <2>1. i \in Items /\ UNCHANGED reservations
    BY <1>2 DEF TypeInv, TypeOK, ItemCopy, MarkOverstayTx
  <2>2. CASE /\ items[i].status = "checked_in"
             /\ items' = UpdatedItem(i, "overstay", copy.row.room, copy.row.stay, copy.row.rtype)
    <3>1. NothingInserted
      BY <2>1, <2>2, UpdatedItemFields DEF NothingInserted, Live
    <3> QED  BY <2>1, <3>1, QuietEnvelopes DEF EnvelopesKept
  <2> QED  BY <1>2, <1>k, <2>1, <2>2 DEF MarkOverstayTx
<1>3. ASSUME NEW copy \in archiveBatch, ArchiveReservationTx(copy)
      PROVE  \A j \in Items : Covered(j)
  <2> DEFINE r == copy.id
  <2>1. r \in Reservations
    BY DEF TypeInv, TypeOK, ReservationCopy
  <2>2. CASE items' = SoftDeleteItems(r) /\ UpdateReservationStatus(r, "archived")
    <3>1. NothingInserted
      BY <2>2, SoftDeleteItemsFields DEF NothingInserted, Live
    <3> QED  BY <2>1, <2>2, <3>1, UpdateReservationStatusFields, QuietEnvelopes DEF EnvelopesKept
  <2> QED  BY <1>3, <1>k, <2>2 DEF ArchiveReservationTx
<1>4. CASE \/ \E S \in SUBSET Reservations : FindExpiredHolds(S) \/ FindArchivableReservations(S)
           \/ \E S \in SUBSET Items : FindOverstays(S)
           \/ RestartServer
  BY <1>4, <1>k DEF FindExpiredHolds, FindArchivableReservations, FindOverstays, RestartServer, tables
<1> QED  BY <1>1, <1>2, <1>3, <1>4 DEF Sweep

\* An item gets outside its reservation's dates only when its own dates change
\* (UpdateItem recomputes the reservation's too early) or when it is reactivated;
\* never through another item, and never as a new item.
THEOREM DatesLagInTwoWays == Spec => EnvelopeLagsOnlyBehindDates
<1> DEFINE A == \A i \in Items :
                  ~OutsideEnvelope(i) /\ OutsideEnvelope(i)'
                    => \/ i \in Live(items) /\ items'[i].stay # items[i].stay
                       \/ items[i].deleted
<1>1. BookingInv /\ [Next]_vars => A
  <2> SUFFICES ASSUME BookingInv, [Next]_vars, NEW i \in Items,
                      ~OutsideEnvelope(i), OutsideEnvelope(i)',
                      ~items[i].deleted, i \in Live(items) => items'[i].stay = items[i].stay
               PROVE  FALSE
    OBVIOUS
  <2>1. ItemLife(i)
    BY NextLife DEF BookingInv, LifeStep
  <2>2. Covered(i)
    <3>1. CASE NextDay \/ (\E r \in Reservations : DeadlinePasses(r)) \/ UNCHANGED vars
      BY <3>1, QuietEnvelopes DEF NextDay, DeadlinePasses, tables, vars, EnvelopesKept,
         NothingInserted, Live, BookingInv
    <3> QED  BY <3>1, ReservationRequestEnvelopes, ItemRequestEnvelopes, SweepEnvelopes
             DEF Next, BookingInv
  <2>3. /\ i \in Live(items')
        /\ ~Inside(reservations'[items'[i].reservation].env, items'[i].stay)
    BY DEF OutsideEnvelope, Inside, Live
  <2>4. items[i].status # "absent"
    BY <2>2, <2>3 DEF Covered
  <2>5. i \in Live(items) /\ items'[i].stay = items[i].stay
    BY <2>4 DEF Live
  <2>6. Inside(reservations[items[i].reservation].env, items[i].stay)
    BY <2>5 DEF OutsideEnvelope, Inside
  <2>7. items'[i].reservation = items[i].reservation
    BY <2>1, <2>4 DEF ItemLife, Kept, Moved, Inserted, CancelledWith, Restored, SoftDeleted
  <2> QED  BY <2>2, <2>3, <2>5, <2>6, <2>7 DEF Covered
<1>2. BookingInv /\ [Next]_vars => [A]_vars
  BY <1>1
<1> QED  BY <1>2, BookingInvInit, BookingInvStep, PTL DEF Spec, EnvelopeLagsOnlyBehindDates
=============================================================================
