------------------------------ MODULE Booking ------------------------------
(***************************************************************************)
(* The reservation core of yop-pms: the tables the booking service writes  *)
(* (reservations, reservation items, the room inventory ledger, the        *)
(* outbox), one action per service method of internal/booking, and the     *)
(* background sweeps of internal/booking/workers.go.                       *)
(*                                                                         *)
(* A service method is one SERIALIZABLE transaction (db.ExecuteTx), so it  *)
(* is one step; a request that is rejected, or whose transaction rolls     *)
(* back, changes nothing and is no step.  What is not atomic is:           *)
(*   - a client reads a row (GET) and sends its version back later in      *)
(*     If-Match.  A request succeeds only when that version is the row's   *)
(*     current one, so the requests below carry none; what the caller saw  *)
(*     when it read the version is kept in reservationViews and itemViews; *)
(*   - a sweep finds a batch of rows in one statement and then runs one    *)
(*     transaction per row, with the copy of the row it found.             *)
(***************************************************************************)
EXTENDS ReservationStates, Integers, FiniteSets

CONSTANTS
  Reservations,   \* identifiers of reservations
  Items,          \* identifiers of reservation items
  Rooms,          \* the rooms of the property
  RoomTypes,      \* its room types
  RoomType,       \* the type of each room
  NoReservation,  \* the reservation of an item that does not exist
  NoRoom,         \* a NULL assigned_room_id
  Permissions,    \* the optional permissions the acting staff hold
  LastDay,        \* bound: calendar days are 0 .. LastDay
  MaxVersion,     \* bound: clients edit a reservation only below this version
  MaxItemVersion, \* bound: and an item only below this one
  MaxViews        \* bound: copies of rows that clients keep

ASSUME BookingAssumption ==
  /\ NoReservation \notin Reservations
  /\ NoRoom \notin Rooms
  /\ RoomType \in [Rooms -> RoomTypes]
  /\ LastDay \in Nat
  /\ MaxVersion \in Nat /\ MaxItemVersion \in Nat
  /\ MaxViews \in Nat

VARIABLES
  reservations,   \* operations.reservations
  items,          \* operations.reservation_items
  ledger,         \* inventory.room_inventory_ledger, the rows "sold"
  outbox,         \* confirmation e-mails enqueued for each reservation
  silent,         \* reservations changed since the last NOTIFY about them
  today,          \* the property's calendar day
  due,            \* reservations whose deadline has passed: expires_at of a
                  \* hold, 365 days without update of a closed one
  holdBatch,      \* copies the hold-expiry sweep found and has still to process
  overstayBatch,  \* the same of the overstay sweep
  archiveBatch,   \* the same of the archival sweep
  reservationViews, \* copies of reservations that API clients have read
  itemViews         \* and of items

tables  == <<reservations, items, ledger, outbox, silent, due>>
batches == <<holdBatch, overstayBatch, archiveBatch>>
views   == <<reservationViews, itemViews>>
vars    == <<reservations, items, ledger, outbox, silent, today, due,
             holdBatch, overstayBatch, archiveBatch, reservationViews, itemViews>>

-----------------------------------------------------------------------------
(* Rows.                                                                   *)

Days  == 0 .. LastDay
Stays == {s \in [arr : Days, dep : Days] : s.arr < s.dep}
NoStay == [arr |-> 0, dep |-> 0]

\* util.NightsBetween: the half-open range [arrival, departure).
NightsBetween(stay) == {n \in Days : stay.arr <= n /\ n < stay.dep}

ReservationRow ==
  [status : ReservationStatus, version : Nat, env : [arr : Days, dep : Days]]

ItemRow ==
  [reservation : Reservations \cup {NoReservation}, rtype : RoomTypes,
   room : Rooms \cup {NoRoom}, stay : [arr : Days, dep : Days],
   status : ItemStatus, version : Nat, deleted : BOOLEAN]

LedgerRow == [room : Rooms, night : Days, item : Items]

ReservationCopy == [id : Reservations, row : ReservationRow]
ItemCopy        == [id : Items, row : ItemRow]

AbsentReservation == [status |-> "absent", version |-> 0, env |-> NoStay]

\* The rows the queries see: deleted_at IS NULL.
Live(its) == {i \in Items : its[i].status # "absent" /\ ~its[i].deleted}
LiveItemsOf(its, r) == {i \in Live(its) : its[i].reservation = r}

-----------------------------------------------------------------------------
(* The constraints of migrations/00003_reservations.sql and the queries of *)
(* internal/store/queries.                                                 *)

\* EXCLUDE (assigned_room_id WITH =, stay_period WITH &&) on live, assigned items.
NoOverlap(its) ==
  \A i, j \in Live(its) :
    i # j /\ its[i].room # NoRoom /\ its[i].room = its[j].room
      => NightsBetween(its[i].stay) \cap NightsBetween(its[j].stay) = {}

\* Mutant: UNIQUE (room_id, calendar_date, reservation_item_id).
InsertablePerItem(rows, into) == rows \cap into = {}

\* UNIQUE (room_id, calendar_date), checked for the rows being inserted.
Insertable(rows, into) ==
  /\ \A a \in rows, b \in into : ~(a.room = b.room /\ a.night = b.night)
  /\ \A a, b \in rows : a.room = b.room /\ a.night = b.night => a = b

SoldRows(i, room, nights) ==
  {[room |-> room, night |-> n, item |-> i] : n \in nights}

LedgerOf(i) == {l \in ledger : l.item = i}

\* DeleteLedgerForReservation: the reservation_id of a ledger row is that of its item.
LedgerOfReservation(r) == {l \in ledger : items[l.item].reservation = r}

\* UpdateLedgerRowRoom: every ledger row of the item moves to the new room.
MovedLedger(i, room) ==
  (ledger \ LedgerOf(i)) \cup SoldRows(i, room, {l.night : l \in LedgerOf(i)})

\* ... and the UNIQUE constraint admits it.
Movable(i, room) ==
  /\ Insertable(SoldRows(i, room, {l.night : l \in LedgerOf(i)}), ledger \ LedgerOf(i))
  /\ \A a, b \in LedgerOf(i) : a.night = b.night => a = b

\* SelectRoomForAutoPin.  FOR UPDATE SKIP LOCKED passes over the rooms that
\* concurrent transactions lock, so any free room of the type may be the first.
AutoPinRooms(rtype, nights) ==
  {room \in Rooms : /\ RoomType[room] = rtype
                    /\ \A l \in ledger : ~(l.room = room /\ l.night \in nights)}

\* UpdateReservationItem, and UpdateReservationStatus with the deadline it restarts.
UpdatedItem(i, status, room, stay, rtype) ==
  [items EXCEPT ![i] = [items[i] EXCEPT !.status = status, !.room = room,
                                        !.stay = stay, !.rtype = rtype, !.version = @ + 1]]

ItemWithStatus(i, status) ==
  UpdatedItem(i, status, items[i].room, items[i].stay, items[i].rtype)

UpdateReservationStatus(r, status) ==
  /\ reservations' = [reservations EXCEPT
                        ![r] = [reservations[r] EXCEPT !.status = status, !.version = @ + 1]]
  /\ due' = due \ {r}

\* Mutant: every write postpones the expiry of a hold.
UpdateReservationMetadataExtendingHold(r, env) ==
  /\ reservations' = [reservations EXCEPT
                        ![r] = [reservations[r] EXCEPT !.env = env, !.version = @ + 1]]
  /\ due' = due \ {r}

\* UpdateReservationMetadata: a hold keeps its expires_at, any other
\* reservation gets a new updated_at.
UpdateReservationMetadata(r, env) ==
  /\ reservations' = [reservations EXCEPT
                        ![r] = [reservations[r] EXCEPT !.env = env, !.version = @ + 1]]
  /\ due' = IF reservations[r].status = "hold" THEN due ELSE due \ {r}

\* Mutant: the bulk update leaves the versions alone.
CancelReservationItemsUnversioned(r) ==
  [i \in Items |->
     IF items[i].reservation = r
        /\ items[i].status \notin {"checked_out", "cancelled", "archived"}
     THEN [items[i] EXCEPT !.status = "cancelled", !.deleted = TRUE]
     ELSE items[i]]

CancelReservationItems(r) ==
  [i \in Items |->
     IF items[i].reservation = r
        /\ items[i].status \notin {"checked_out", "cancelled", "archived"}
     THEN [items[i] EXCEPT !.status = "cancelled", !.deleted = TRUE, !.version = @ + 1]
     ELSE items[i]]

ReactivateReservationItems(r) ==
  [i \in Items |->
     IF items[i].reservation = r /\ items[i].status = "cancelled" /\ items[i].deleted
     THEN [items[i] EXCEPT !.status = "booked", !.deleted = FALSE, !.version = @ + 1]
     ELSE items[i]]

\* The envelope of the items S: [min(arrival), max(departure)).
IsEnvelope(env, its, S) ==
  /\ \A i \in S : env.arr <= its[i].stay.arr /\ its[i].stay.dep <= env.dep
  /\ \E i \in S : env.arr = its[i].stay.arr
  /\ \E i \in S : env.dep = its[i].stay.dep

\* recomputeEnvelope, run when the items are "its".
RecomputeEnvelope(r, its) ==
  \E env \in Stays :
    /\ IsEnvelope(env, its, LiveItemsOf(its, r))
    /\ UpdateReservationMetadata(r, env)

HasPermission(p) == p \in Permissions

\* requirePostCheckinPermission
PostCheckinAllowed(i) ==
  items[i].status = "checked_in" => HasPermission("post_checkin_mutate")

\* Mutant: no NOTIFY.
NotifyNobody(r) == silent' = silent \cup {r}

\* NOTIFY reservation_changes about r or one of its items.
NotifyReservationChange(r) == silent' = silent \ {r}

\* rollupAndNotify is a stub: neither the ADR-009 rollup nor the NOTIFY happens.
RollupAndNotify(r) ==
  /\ silent' = silent \cup {r}
  /\ UNCHANGED <<reservations, due>>

\* The bounds on what API clients do to a row.
Editable(r)     == reservations[r].version < MaxVersion
EditableItem(i) == items[i].version < MaxItemVersion

-----------------------------------------------------------------------------
(* service_create.go                                                       *)

ItemInput == [rtype : RoomTypes, room : Rooms \cup {NoRoom}, stay : Stays]

\* insertSingleItem: the room an item's nights are sold in.  The pinned room
\* is written to the ledger only, never to the item.
PinsTo(input, room) ==
  IF input.room # NoRoom
  THEN room = input.room
  ELSE room \in AutoPinRooms(input.rtype, NightsBetween(input.stay))

InsertedItem(r, input, status) ==
  [reservation |-> r, rtype |-> input.rtype, room |-> input.room,
   stay |-> input.stay, status |-> status, version |-> 1, deleted |-> FALSE]

\* insertAllItems of the items "new", with "pin" the room of each.
InsertAllItems(r, new, input, status, pin) ==
  LET rows == UNION {SoldRows(i, pin[i], NightsBetween(input[i].stay)) : i \in new}
  IN  /\ \A i \in new : items[i].status = "absent" /\ PinsTo(input[i], pin[i])
      /\ items' = [i \in Items |-> IF i \in new THEN InsertedItem(r, input[i], status)
                                                ELSE items[i]]
      /\ NoOverlap(items')
      /\ Insertable(rows, ledger)
      /\ ledger' = ledger \cup rows

CreateReservation(r, origin, new, input, pin) ==
  LET initial == SourceToInitialStatus[origin]
  IN  /\ reservations[r].status = "absent"
      /\ origin = "walkin" => \A i \in new : input[i].room # NoRoom
      /\ origin # "walkin" => \A i \in new : today <= input[i].stay.arr
      /\ \E env \in Stays :
           /\ IsEnvelope(env, input, new)
           /\ reservations' = [reservations EXCEPT
                ![r] = [status |-> initial.reservation, version |-> 1, env |-> env]]
      /\ InsertAllItems(r, new, input, initial.item, pin)
      /\ NotifyReservationChange(r)
      /\ outbox' = IF initial.reservation # "hold"
                   THEN [outbox EXCEPT ![r] = @ + 1] ELSE outbox
      /\ UNCHANGED <<today, due, batches, views>>

\* Mutant: neither the early return nor the state machine.
ConfirmReservationUnchecked(r) ==
  /\ Editable(r)
  /\ reservations[r].status # "absent"
  /\ UpdateReservationStatus(r, "confirmed")
  /\ NotifyReservationChange(r)
  /\ outbox' = [outbox EXCEPT ![r] = @ + 1]
  /\ UNCHANGED <<items, ledger, today, batches, views>>

\* A confirmed reservation is answered 200 without a change: no step.
ConfirmReservation(r) ==
  /\ Editable(r)
  /\ reservations[r].status # "confirmed"
  /\ ValidateReservationTransition(reservations[r].status, "confirmed")
  /\ UpdateReservationStatus(r, "confirmed")
  /\ NotifyReservationChange(r)
  /\ outbox' = [outbox EXCEPT ![r] = @ + 1]
  /\ UNCHANGED <<items, ledger, today, batches, views>>

-----------------------------------------------------------------------------
(* service_lifecycle.go                                                    *)

\* Mutant: checked-in items are not looked for.
CancelReservationUnchecked(r) ==
  /\ Editable(r)
  /\ ValidateReservationTransition(reservations[r].status, "cancelled")
  /\ items' = CancelReservationItems(r)
  /\ ledger' = ledger \ LedgerOfReservation(r)
  /\ UpdateReservationStatus(r, "cancelled")
  /\ NotifyReservationChange(r)
  /\ UNCHANGED <<outbox, today, batches, views>>

CancelReservation(r) ==
  /\ Editable(r)
  /\ ValidateReservationTransition(reservations[r].status, "cancelled")
  /\ \A i \in LiveItemsOf(items, r) : items[i].status # "checked_in"
  /\ items' = CancelReservationItems(r)
  /\ ledger' = ledger \ LedgerOfReservation(r)
  /\ UpdateReservationStatus(r, "cancelled")
  /\ NotifyReservationChange(r)
  /\ UNCHANGED <<outbox, today, batches, views>>

\* The item stays live: only CancelReservationItems sets deleted_at.
CancelItem(i) ==
  /\ i \in Live(items) /\ EditableItem(i)
  /\ ValidateItemTransition(items[i].status, "cancelled")
  /\ items' = ItemWithStatus(i, "cancelled")
  /\ ledger' = ledger \ LedgerOf(i)
  /\ RollupAndNotify(items[i].reservation)
  /\ UNCHANGED <<outbox, today, batches, views>>

\* The items a batch operation accepts move to "to"; the others are reported
\* as failed and stay.
BatchMove(S, to) ==
  [i \in Items |-> IF i \in S THEN [items[i] EXCEPT !.status = to, !.version = @ + 1]
                              ELSE items[i]]

CheckinReservation(r) ==
  LET ready == {i \in LiveItemsOf(items, r) :
                  items[i].status = "booked" /\ items[i].room # NoRoom}
  IN  /\ ready # {}
      /\ items' = BatchMove(ready, "checked_in")
      /\ RollupAndNotify(r)
      /\ UNCHANGED <<ledger, outbox, today, batches, views>>

CheckinItem(i) ==
  /\ i \in Live(items) /\ EditableItem(i)
  /\ items[i].status = "booked"
  /\ items[i].room # NoRoom
  /\ items' = ItemWithStatus(i, "checked_in")
  /\ RollupAndNotify(items[i].reservation)
  /\ UNCHANGED <<ledger, outbox, today, batches, views>>

CheckoutReservation(r) ==
  LET ready == {i \in LiveItemsOf(items, r) : items[i].status = "checked_in"}
  IN  /\ ready # {}
      /\ items' = BatchMove(ready, "checked_out")
      /\ RollupAndNotify(r)
      /\ UNCHANGED <<ledger, outbox, today, batches, views>>

CheckoutItem(i) ==
  /\ i \in Live(items) /\ EditableItem(i)
  /\ items[i].status = "checked_in"
  /\ items' = ItemWithStatus(i, "checked_out")
  /\ RollupAndNotify(items[i].reservation)
  /\ UNCHANGED <<ledger, outbox, today, batches, views>>

MarkNoShow(i) ==
  /\ i \in Live(items) /\ EditableItem(i)
  /\ ValidateItemTransition(items[i].status, "no_show")
  /\ items[i].stay.arr <= today
  /\ items' = ItemWithStatus(i, "no_show")
  /\ ledger' = ledger \ {l \in LedgerOf(i) : today <= l.night}
  /\ RollupAndNotify(items[i].reservation)
  /\ UNCHANGED <<outbox, today, batches, views>>

\* reactivateItemInventory of the items S as they are in "its": the assigned
\* room must be free on the ledger, an unassigned item is pinned anew.
ReclaimInventory(S, its, pin) ==
  LET rows == UNION {SoldRows(i, pin[i], NightsBetween(its[i].stay)) : i \in S}
  IN  /\ \A i \in S : PinsTo(its[i], pin[i])
      /\ Insertable(rows, ledger)
      /\ ledger' = ledger \cup rows

ReactivateReservation(r, pin) ==
  LET its == ReactivateReservationItems(r)
  IN  /\ Editable(r)
      /\ ValidateReservationTransition(reservations[r].status, "confirmed")
      /\ today < reservations[r].env.dep \/ HasPermission("retroactive_create")
      /\ UpdateReservationStatus(r, "confirmed")
      /\ items' = its
      /\ NoOverlap(its)
      /\ ReclaimInventory(LiveItemsOf(its, r), its, pin)
      /\ NotifyReservationChange(r)
      /\ UNCHANGED <<outbox, today, batches, views>>

-----------------------------------------------------------------------------
(* service_update.go, and UpdateMetadata of service_read.go.  No request   *)
(* below looks at the status of the reservation, nor, except where         *)
(* PostCheckinAllowed is named, at that of the item.                       *)

\* UpdateItem with another room type: delegated to UpdateItemRoomType, a
\* transaction of its own.  The room and the ledger stay as they are.
UpdateItemRoomType(i, rtype) ==
  /\ i \in Live(items) /\ EditableItem(i)
  /\ rtype # items[i].rtype
  /\ PostCheckinAllowed(i)
  /\ items' = UpdatedItem(i, items[i].status, items[i].room, items[i].stay, rtype)
  /\ NotifyReservationChange(items[i].reservation)
  /\ UNCHANGED <<reservations, ledger, outbox, due, today, batches, views>>

\* UpdateItem with another rate plan, delegated to UpdateItemRatePlan.  Rate
\* plans are not modelled, so only the version shows it.
UpdateItemRatePlan(i) ==
  /\ i \in Live(items) /\ EditableItem(i)
  /\ PostCheckinAllowed(i)
  /\ items' = ItemWithStatus(i, items[i].status)
  /\ NotifyReservationChange(items[i].reservation)
  /\ UNCHANGED <<reservations, ledger, outbox, due, today, batches, views>>

\* Mutant: a shortened stay keeps its rows.
ShiftLedgerKeepingRows(i, stay, room) ==
  LET old     == NightsBetween(items[i].stay)
      new     == NightsBetween(stay)
  IN  \/ /\ new \subseteq old
         /\ UNCHANGED ledger
      \/ /\ new \ old # {}
         /\ room # NoRoom
         /\ Insertable(SoldRows(i, room, new \ old), ledger)
         /\ ledger' = ledger \cup SoldRows(i, room, new \ old)

\* The ledger when the stay of item i becomes "stay": nights both removed and
\* added replace all rows, nights only removed delete every row from the first
\* of them on, nights only added are inserted beside the rows there are.
ShiftLedger(i, stay, room) ==
  LET old     == NightsBetween(items[i].stay)
      new     == NightsBetween(stay)
      removed == old \ new
      added   == new \ old
  IN  \/ /\ removed # {} /\ added # {}
         /\ room # NoRoom
         /\ Insertable(SoldRows(i, room, new), ledger \ LedgerOf(i))
         /\ ledger' = (ledger \ LedgerOf(i)) \cup SoldRows(i, room, new)
      \/ /\ removed # {} /\ added = {}
         /\ ledger' = ledger \ {l \in LedgerOf(i) : \E n \in removed : n <= l.night}
      \/ /\ removed = {} /\ added # {}
         /\ room # NoRoom
         /\ Insertable(SoldRows(i, room, added), ledger)
         /\ ledger' = ledger \cup SoldRows(i, room, added)

\* UpdateItem with other dates, another room, or only other occupants.
\* input = NoRoom when the body has no assigned_room_id.  The envelope is
\* recomputed before the item is updated.
UpdateItem(i, stay, input) ==
  LET room == IF input # NoRoom THEN input ELSE items[i].room
  IN  /\ i \in Live(items) /\ EditableItem(i)
      /\ items' = UpdatedItem(i, items[i].status, room, stay, items[i].rtype)
      /\ NoOverlap(items')
      /\ \/ /\ stay # items[i].stay
            /\ ShiftLedger(i, stay, room)
            /\ RecomputeEnvelope(items[i].reservation, items)
         \/ /\ stay = items[i].stay /\ room # items[i].room
            /\ Movable(i, room)
            /\ ledger' = MovedLedger(i, room)
            /\ UNCHANGED <<reservations, due>>
         \/ /\ stay = items[i].stay /\ room = items[i].room
            /\ UNCHANGED <<reservations, ledger, due>>
      /\ NotifyReservationChange(items[i].reservation)
      /\ UNCHANGED <<outbox, today, batches, views>>

\* Mutant: the item is moved and its ledger rows are not.
AssignRoomOnly(i, room) ==
  /\ i \in Live(items) /\ EditableItem(i)
  /\ PostCheckinAllowed(i)
  /\ items' = UpdatedItem(i, items[i].status, room, items[i].stay, items[i].rtype)
  /\ NoOverlap(items')
  /\ NotifyReservationChange(items[i].reservation)
  /\ UNCHANGED <<reservations, ledger, outbox, due, today, batches, views>>

AssignRoom(i, room) ==
  /\ i \in Live(items) /\ EditableItem(i)
  /\ PostCheckinAllowed(i)
  /\ items' = UpdatedItem(i, items[i].status, room, items[i].stay, items[i].rtype)
  /\ NoOverlap(items')
  /\ Movable(i, room)
  /\ ledger' = MovedLedger(i, room)
  /\ NotifyReservationChange(items[i].reservation)
  /\ UNCHANGED <<reservations, outbox, due, today, batches, views>>

\* Mutant: the envelope of the items there were, as UpdateItem computes it.
AddItemEnvelopeFirst(r, i, input, room) ==
  /\ reservations[r].status # "absent" /\ Editable(r)
  /\ ~IsTerminalReservationStatus(reservations[r].status)
  /\ InsertAllItems(r, {i}, [j \in {i} |-> input], "booked", [j \in {i} |-> room])
  /\ RecomputeEnvelope(r, items)
  /\ NotifyReservationChange(r)
  /\ UNCHANGED <<outbox, today, batches, views>>

\* The version in If-Match is required by the route and then not used.
AddItem(r, i, input, room) ==
  /\ reservations[r].status # "absent" /\ Editable(r)
  /\ ~IsTerminalReservationStatus(reservations[r].status)
  /\ InsertAllItems(r, {i}, [j \in {i} |-> input], "booked", [j \in {i} |-> room])
  /\ RecomputeEnvelope(r, items')
  /\ NotifyReservationChange(r)
  /\ UNCHANGED <<outbox, today, batches, views>>

\* Notes and guest are not modelled, so only the version shows it.
UpdateMetadata(r) ==
  /\ reservations[r].status # "absent" /\ Editable(r)
  /\ UpdateReservationMetadata(r, reservations[r].env)
  /\ NotifyReservationChange(r)
  /\ UNCHANGED <<items, ledger, outbox, today, batches, views>>

-----------------------------------------------------------------------------
(* Reads.  A client keeps the copy, and with it the version to send.       *)

ReservationCopyOf(r) == [id |-> r, row |-> reservations[r]]
ItemCopyOf(i)        == [id |-> i, row |-> items[i]]

RoomForView == Cardinality(reservationViews) + Cardinality(itemViews) < MaxViews

GetReservation(r) ==
  /\ reservations[r].status # "absent" /\ RoomForView
  /\ reservationViews' = reservationViews \cup {ReservationCopyOf(r)}
  /\ UNCHANGED <<tables, today, batches, itemViews>>

GetReservationItem(i) ==
  /\ i \in Live(items) /\ RoomForView
  /\ itemViews' = itemViews \cup {ItemCopyOf(i)}
  /\ UNCHANGED <<tables, today, batches, reservationViews>>

-----------------------------------------------------------------------------
(* workers.go.  Every Find query is a statement of its own: its row locks  *)
(* are gone when the batch is processed, and SKIP LOCKED leaves out the    *)
(* rows that are locked at that moment.                                    *)

FindExpiredHolds(S) ==
  /\ holdBatch = {} /\ S # {}
  /\ \A r \in S : r \in due /\ reservations[r].status = "hold"
  /\ holdBatch' = {ReservationCopyOf(r) : r \in S}
  /\ UNCHANGED <<tables, today, overstayBatch, archiveBatch, views>>

\* Mutant: WHERE id = @id without the version.
CancelHoldTxUnversioned(copy) ==
  /\ copy \in holdBatch
  /\ holdBatch' = holdBatch \ {copy}
  /\ items' = CancelReservationItems(copy.id)
  /\ ledger' = ledger \ LedgerOfReservation(copy.id)
  /\ UpdateReservationStatus(copy.id, "cancelled")
  /\ NotifyReservationChange(copy.id)
  /\ UNCHANGED <<outbox, today, overstayBatch, archiveBatch, views>>

\* cancelHoldTx: on a version mismatch the transaction is rolled back.
CancelHoldTx(copy) ==
  /\ copy \in holdBatch
  /\ holdBatch' = holdBatch \ {copy}
  /\ \/ /\ reservations[copy.id].version = copy.row.version
        /\ items' = CancelReservationItems(copy.id)
        /\ ledger' = ledger \ LedgerOfReservation(copy.id)
        /\ UpdateReservationStatus(copy.id, "cancelled")
        /\ NotifyReservationChange(copy.id)
     \/ /\ reservations[copy.id].version # copy.row.version
        /\ UNCHANGED <<reservations, items, ledger, silent, due>>
  /\ UNCHANGED <<outbox, today, overstayBatch, archiveBatch, views>>

\* upper(stay_period) + 100 minutes lies on the day of departure.
FindOverstays(S) ==
  /\ overstayBatch = {} /\ S # {}
  /\ \A i \in S : items[i].status = "checked_in" /\ items[i].stay.dep <= today
  /\ overstayBatch' = {ItemCopyOf(i) : i \in S}
  /\ UNCHANGED <<tables, today, holdBatch, archiveBatch, views>>

\* Mutant: only the status is checked again.
MarkOverstayTxUnversioned(copy) ==
  /\ copy \in overstayBatch
  /\ overstayBatch' = overstayBatch \ {copy}
  /\ items[copy.id].status = "checked_in"
  /\ items' = UpdatedItem(copy.id, "overstay", copy.row.room, copy.row.stay,
                          copy.row.rtype)
  /\ NotifyReservationChange(items[copy.id].reservation)
  /\ UNCHANGED <<reservations, ledger, outbox, due, today, holdBatch, archiveBatch, views>>

\* markOverstayTx: room, stay and type are written back from the copy.
MarkOverstayTx(copy) ==
  /\ copy \in overstayBatch
  /\ overstayBatch' = overstayBatch \ {copy}
  /\ \/ /\ items[copy.id].status = "checked_in"
        /\ items[copy.id].version = copy.row.version
        /\ items' = UpdatedItem(copy.id, "overstay", copy.row.room, copy.row.stay,
                                copy.row.rtype)
        /\ NoOverlap(items')
        /\ NotifyReservationChange(items[copy.id].reservation)
     \/ /\ \/ items[copy.id].status # "checked_in"
           \/ items[copy.id].version # copy.row.version
        /\ UNCHANGED <<items, silent>>
  /\ UNCHANGED <<reservations, ledger, outbox, due, today, holdBatch, archiveBatch, views>>

FindArchivableReservations(S) ==
  /\ archiveBatch = {} /\ S # {}
  /\ \A r \in S : r \in due /\ reservations[r].status \in {"checked_out", "cancelled"}
  /\ archiveBatch' = {ReservationCopyOf(r) : r \in S}
  /\ UNCHANGED <<tables, today, holdBatch, overstayBatch, views>>

SoftDeleteItems(r) ==
  [i \in Items |->
     IF items[i].reservation = r /\ ~items[i].deleted
     THEN [items[i] EXCEPT !.deleted = TRUE, !.version = @ + 1]
     ELSE items[i]]

\* archiveReservationTx: the items keep their status, the ledger its rows.
ArchiveReservationTx(copy) ==
  /\ copy \in archiveBatch
  /\ archiveBatch' = archiveBatch \ {copy}
  /\ \/ /\ reservations[copy.id].version = copy.row.version
        /\ items' = SoftDeleteItems(copy.id)
        /\ UpdateReservationStatus(copy.id, "archived")
        /\ NotifyReservationChange(copy.id)
     \/ /\ reservations[copy.id].version # copy.row.version
        /\ UNCHANGED <<reservations, items, silent, due>>
  /\ UNCHANGED <<ledger, outbox, today, holdBatch, overstayBatch, views>>

\* A crash or a deploy: what the sweeps had found is forgotten.
RestartServer ==
  /\ holdBatch \cup archiveBatch # {} \/ overstayBatch # {}
  /\ holdBatch' = {} /\ overstayBatch' = {} /\ archiveBatch' = {}
  /\ UNCHANGED <<tables, today, views>>

-----------------------------------------------------------------------------
(* Time.                                                                   *)

NextDay ==
  /\ today < LastDay
  /\ today' = today + 1
  /\ UNCHANGED <<tables, batches, views>>

DeadlinePasses(r) ==
  /\ r \notin due
  /\ reservations[r].status \in {"hold", "checked_out", "cancelled"}
  /\ due' = due \cup {r}
  /\ UNCHANGED <<reservations, items, ledger, outbox, silent, today, batches, views>>

-----------------------------------------------------------------------------
Init ==
  /\ reservations = [r \in Reservations |-> AbsentReservation]
  /\ \E t \in RoomTypes :
       items = [i \in Items |->
                  [reservation |-> NoReservation, rtype |-> t, room |-> NoRoom,
                   stay |-> NoStay, status |-> "absent", version |-> 0,
                   deleted |-> FALSE]]
  /\ ledger = {} /\ silent = {} /\ due = {}
  /\ outbox = [r \in Reservations |-> 0]
  /\ today = 0
  /\ holdBatch = {} /\ overstayBatch = {} /\ archiveBatch = {}
  /\ reservationViews = {} /\ itemViews = {}

ReservationRequest(r) ==
  \/ /\ reservations[r].status = "absent"
     /\ \E origin \in Origins, new \in SUBSET Items \ {{}} :
          \E input \in [new -> ItemInput], pin \in [new -> Rooms] :
            CreateReservation(r, origin, new, input, pin)
  \/ ConfirmReservation(r)
  \/ CancelReservation(r)
  \/ CheckinReservation(r)
  \/ CheckoutReservation(r)
  \/ \E pin \in [Items -> Rooms] : ReactivateReservation(r, pin)
  \/ \E i \in Items, input \in ItemInput, room \in Rooms : AddItem(r, i, input, room)
  \/ UpdateMetadata(r)
  \/ GetReservation(r)

ItemRequest(i) ==
  \/ CancelItem(i)
  \/ CheckinItem(i)
  \/ CheckoutItem(i)
  \/ MarkNoShow(i)
  \/ \E rtype \in RoomTypes : UpdateItemRoomType(i, rtype)
  \/ UpdateItemRatePlan(i)
  \/ \E stay \in Stays, input \in Rooms \cup {NoRoom} : UpdateItem(i, stay, input)
  \/ \E room \in Rooms : AssignRoom(i, room)
  \/ GetReservationItem(i)

Sweep ==
  \/ \E S \in SUBSET Reservations : FindExpiredHolds(S) \/ FindArchivableReservations(S)
  \/ \E copy \in holdBatch : CancelHoldTx(copy)
  \/ \E S \in SUBSET Items : FindOverstays(S)
  \/ \E copy \in overstayBatch : MarkOverstayTx(copy)
  \/ \E copy \in archiveBatch : ArchiveReservationTx(copy)
  \/ RestartServer

Next ==
  \/ \E r \in Reservations : ReservationRequest(r) \/ DeadlinePasses(r)
  \/ \E i \in Items : ItemRequest(i)
  \/ Sweep
  \/ NextDay

Spec == Init /\ [][Next]_vars

\* The hold-expiry sweep runs every 30 seconds for as long as the server does: a
\* due hold is not locked at every tick, and not every batch is cut short by a
\* restart before it comes to that hold.
HoldExpirySweep(r) ==
  /\ SF_vars(\E S \in SUBSET Reservations : r \in S /\ FindExpiredHolds(S))
  /\ SF_vars(\E copy \in holdBatch : copy.id = r /\ CancelHoldTx(copy))

FairSpec == Spec /\ \A r \in Reservations : HoldExpirySweep(r)

-----------------------------------------------------------------------------
(* Properties.                                                             *)

\* The rows, the batches and the copies have the shape of their tables.
TypeOK ==
  /\ reservations \in [Reservations -> ReservationRow]
  /\ items \in [Items -> ItemRow]
  /\ ledger \subseteq LedgerRow
  /\ outbox \in [Reservations -> Nat]
  /\ silent \subseteq Reservations
  /\ due \subseteq Reservations
  /\ today \in Days
  /\ holdBatch \subseteq ReservationCopy
  /\ archiveBatch \subseteq ReservationCopy
  /\ overstayBatch \subseteq ItemCopy
  /\ reservationViews \subseteq ReservationCopy
  /\ itemViews \subseteq ItemCopy

\* Optimistic locking has no ABA: whoever holds a copy of a row, a client with
\* its If-Match or a sweep with its batch, and finds its version unchanged has
\* the row exactly as it is now, whatever ran in between.
VersionsIdentifyRows ==
  /\ \A c \in holdBatch \cup archiveBatch \cup reservationViews :
       c.row.version = reservations[c.id].version => c.row = reservations[c.id]
  /\ \A c \in overstayBatch \cup itemViews :
       c.row.version = items[c.id].version => c.row = items[c.id]

\* A room-night is sold once, and only for a night the item it is sold to stays:
\* no sequence of date changes, moves, cancellations and reactivations leaves
\* the ledger blocking a night outside the stay.
LedgerWithinStay ==
  /\ \A a, b \in ledger : a.room = b.room /\ a.night = b.night => a = b
  /\ \A l \in ledger : l.night \in NightsBetween(items[l.item].stay)

\* A cancelled reservation has no item that is still open, so no guest can be
\* checked in on it; an archived one has no live item at all.
ClosedReservationsAreClosed ==
  \A i \in Items : \A r \in Reservations : items[i].reservation = r =>
    /\ reservations[r].status \in {"cancelled", "archived"}
         => items[i].status \in {"cancelled", "checked_out"}
    /\ reservations[r].status = "archived" => items[i].deleted

\* The hold-expiry sweep cancels only a reservation that at that moment still
\* is a hold past its expiry: a confirmation that commits between the sweep's
\* query and its transaction wins.
SweepCancelsOnlyExpiredHolds ==
  [][\A c \in holdBatch :
       CancelHoldTx(c) /\ reservations'[c.id] # reservations[c.id]
         => reservations[c.id].status = "hold" /\ c.id \in due]_vars

\* The overstay sweep writes back the room, stay and type it read earlier, and
\* yet undoes no room move or date change made meanwhile.
OverstayOnlyChangesStatus ==
  [][\A i \in Items :
       items[i].status # "overstay" /\ items'[i].status = "overstay"
         => /\ items[i].status = "checked_in"
            /\ items'[i] = [items[i] EXCEPT !.status = "overstay", !.version = @ + 1]]_vars

\* All nights of item i are sold in one room, the assigned one if it has one.
InOneRoom(i) ==
  \A a, b \in LedgerOf(i) :
    a.room = b.room /\ (items[i].room # NoRoom => a.room = items[i].room)

\* The room on an item and the room of its nights on the ledger are written by
\* different statements, the one of an automatic pin only on the ledger.  They come
\* apart in two ways only: UpdateItem changes dates and room in one request and
\* leaves the nights there were in the old room, or ReactivateReservation runs on a
\* hold and pins an unassigned item, whose nights were never given up, a second time.
LedgerFollowsRoom ==
  [][\A i \in Items :
       InOneRoom(i) /\ ~InOneRoom(i)'
         => \/ items'[i].stay # items[i].stay /\ items'[i].room # items[i].room
            \/ /\ items[i].room = NoRoom
               /\ reservations[items[i].reservation].status = "hold"
               /\ reservations'[items[i].reservation].status = "confirmed"]_vars

\* A guest in house keeps the item: it is cancelled only together with its
\* reservation, which was open until then, and if the guest is not an overstay
\* only while that reservation still was a hold.
GuestInHouseKeepsItem ==
  [][\A i \in Items :
       items[i].status \in {"checked_in", "overstay"} /\ items'[i].status = "cancelled"
         => LET r == items[i].reservation
            IN  /\ reservations'[r].status = "cancelled"
                /\ reservations[r].status \in {"hold", "confirmed"}
                /\ items[i].status = "checked_in" => reservations[r].status = "hold"]_vars

\* The ledger implements the abstract inventory: whatever a request or a sweep
\* does, it sells only free room-nights and gives up only those of the one
\* reservation it works for; no booking, move or reactivation evicts another.
Inventory ==
  INSTANCE RoomInventory WITH
    Guests <- Items, Parties <- Reservations, NoParty <- NoReservation, Nights <- Days,
    sold <- ledger, party <- [i \in Items |-> items[i].reservation]

ImplementsInventory == Inventory!Spec

\* A confirmation e-mail is enqueued only by the step that makes the reservation
\* confirmed (or creates it checked in), once: repeated confirms send nothing.
EmailOnlyOnConfirmation ==
  [][\A r \in Reservations :
       outbox'[r] # outbox[r]
         => /\ outbox'[r] = outbox[r] + 1
            /\ reservations[r].status # reservations'[r].status
            /\ reservations'[r].status \in {"confirmed", "checked_in"}]_vars

\* Item i is live and its stay is not within its reservation's dates.
OutsideEnvelope(i) ==
  LET env == reservations[items[i].reservation].env
  IN  /\ i \in Live(items)
      /\ ~(env.arr <= items[i].stay.arr /\ items[i].stay.dep <= env.dep)

\* UpdateItem recomputes the reservation's dates before it writes the item's, and
\* ReactivateReservation restores items without recomputing them.  A live item gets
\* outside the reservation's dates in these two ways only: its own stay is changed,
\* or it comes back; never because of what is done to another item, and not as a
\* new item, whatever the dates have lagged behind before.
EnvelopeLagsOnlyBehindDates ==
  [][\A i \in Items :
       ~OutsideEnvelope(i) /\ OutsideEnvelope(i)'
         => \/ i \in Live(items) /\ items'[i].stay # items[i].stay
            \/ items[i].deleted]_vars

\* Check-ins, check-outs, no-shows and item cancellations are silent, but the change
\* of a reservation's status, by a request or a sweep, announces it on
\* reservation_changes with all that was silent before.
StatusChangesAreAnnounced ==
  [][\A r \in Reservations :
       reservations'[r].status # reservations[r].status => r \notin silent']_vars

\* A hold past its expiry does not stay a hold, although clients may edit it
\* between the sweep's query and its transaction and the server may restart.
ExpiredHoldIsReleased ==
  \A r \in Reservations :
    (reservations[r].status = "hold" /\ r \in due) ~> (reservations[r].status # "hold")

-----------------------------------------------------------------------------
(* What the repository says and the code does not keep: each is violated,  *)
(* and PROJECT.json's finding quotes the line.                             *)

\* "Each item must have a room_inventory_ledger entry", also after UpdateItem
\* changed its dates.
OpenItemIsInLedger ==
  \A i \in Live(items) :
    items[i].status \in {"booked", "checked_in"} => LedgerOf(i) # {}

\* ConfirmReservation "requires the reservation to be in 'hold' status": whatever
\* sends a confirmation for a reservation that exists finds it a hold.
OnlyHoldsAreConfirmed ==
  [][\A r \in Reservations :
       outbox'[r] # outbox[r] /\ reservations[r].status # "absent"
         => reservations[r].status = "hold"]_vars
=============================================================================
