# A TLA+ verification project for yop-pms

yop-pms is a property management system: a Go server over Postgres and Redis
that takes reservations for rooms, walks them through their life cycle and keeps
the room inventory. This directory holds TLA+ modules of its core, the TLC
configurations that check them on small instances, and TLAPS proofs of the
properties that matter most. `PROJECT.json` maps every definition to the lines
it translates and lists the runs, mutants, findings, hazards and theorems.

## The system

| Component | State | Operations | Talks to |
|---|---|---|---|
| booking service (`internal/booking/service_*.go`) | `operations.reservations`, `operations.reservation_items`, `inventory.room_inventory_ledger` | create, confirm, cancel, check in and out, no-show, reactivate, change dates, room, type or rate, add items | Postgres, one SERIALIZABLE transaction each; NOTIFY `reservation_changes`; outbox |
| state machines (`state_machine.go`, `types.go`) | none | which status changes are allowed | called by the service |
| sweeps (`workers.go`) | a batch of rows read earlier | expire holds (30 s), mark overstays (5 min), archive (daily), announce overdue no-shows (NOTIFY `staff_alerts`) | Postgres, one READ COMMITTED transaction per row |
| list (`create.go`, `service_read.go`) | none | a page of reservations behind a cursor | Postgres, one query per page |
| transactions (`internal/platform/db/tx.go`) | connections of the pool | begin, run, roll back or commit | Postgres |
| outbox worker (`internal/platform/worker`) | `internal.outbox_events`, goroutines | claim, handle, complete, retry, dead-letter | Postgres, registered handlers |
| idempotency (`internal/platform/middleware/idempotency.go`) | a record per key in Redis | reserve, wait, replay, cache | Redis, the HTTP handlers |
| If-Match, permissions | request context | version and permission checks | booking service |
| events listener (`internal/platform/events`) | a LISTEN connection, goroutines | connect, dispatch, reconnect, stop | Postgres, the handlers of hub and cache |
| realtime hub (`internal/platform/realtime`) | a bounded channel per stream | subscribe, fan out, resync | listener, browsers |
| availability, cache (`availability.go`, `internal/platform/cache`) | counts in Redis | fill, delete, flush | Postgres, Redis, listener |

What is hard here:

* Clients send back a version they read earlier (If-Match), and sweeps act on
  copies they found earlier: everything rests on versions telling rows apart.
* The status of a reservation, those of its items, its dates and the ledger are
  records of one fact, written by some twenty operations in any order.
* The outbox worker and the idempotency middleware survive crashes, timeouts and
  lost answers only by letting claims and locks run out.
* NOTIFY reaches only a session that listens; browsers and the cache live on a
  stream with gaps, bounded channels and a goroutine per event.
* Availability is read, counted and stored in three steps while bookings commit.
* `UpdateItem` may open a second transaction while it holds the first.

What makes each part correct: a room-night is sold once, to an item that stays
that night; no step for one reservation takes a room from another; nothing acts
on a stale copy; closed reservations stay closed; expired holds are released;
no update of an item is lost; an outbox event gets exactly one, true outcome; a
replayed response is that of the same request, and duplicates run once unless a
fault explains it; a browser misses no change without being told to fetch all;
a stale count is about to be dropped; a walk through a list skips and repeats
nothing.

## Modules

| Module | Models | State |
|---|---|---|
| `ReservationStates` | the transition tables, initial and terminal statuses | none |
| `Booking` | every routed, state-changing operation of the booking service and the three sweeps that write | the tables as functions and sets, `due` and `today` for time, the sweeps' batches, the copies clients hold |
| `RoomInventory` | abstractly, what the ledger promises | `sold`, `party` |
| `Transactions` | `ExecuteTx` over the pool, and edits of one item through it | the transactions of each request, the item's version |
| `OptimisticRow` | abstractly, what If-Match promises | a version, the version each request named |
| `Listing` | `GET /v1/reservations` page by page | rows, the client's walk, what was touched meanwhile |
| `Outbox` | the outbox worker | the table, the running goroutines, tallies of what handlers returned |
| `Idempotency` | the idempotency middleware | the records, the place of each request in the protocol, what went wrong with it |
| `EventsListener` | the listener; extended by the next two | the place of `run` and `connect`, the session, the wire, the goroutines of `dispatch` |
| `RealtimeHub` | the hub behind the listener | the client map, a channel per stream, what each stream is owed |
| `AvailabilityCache` | `CheckAvailability` and all that drops its counts, behind the listener | the keys in Redis, readers and deletions under way |
| `MC*` | instances for TLC | |
| `*Proofs` | theorems about the module of that name; `EventsListenerProofs` has the lemmas that those about hub and cache share | |

**Booking.** A service method is one SERIALIZABLE transaction, so it is one
action; its guard is the conjunction of its early returns, and a rejected or
rolled-back request is no step. The requests carry no version: a request whose
If-Match is stale is rejected, and the others have the current one. What the
caller saw when it read that version is kept in `reservationViews` and
`itemViews`, so that "the version still matches" can be compared with "the row
is still what was read". A sweep is a Find action, which copies rows into a
batch, and one action per copy; between them anything may happen, a restart
that forgets the batch included. The sweeps' transactions are only READ
COMMITTED; one step each is sound because their first statement locks the items
and their last one compares the reservation's version, which everything that
adds items changes.

Stays are half-open ranges of days. Guests, notes, occupancy, rate plans, prices
and response bodies are left out: no guard that changes the modelled state reads
them. `do_not_move` is left out because no code ever sets it. `expires_at` and
the 365 days before archival are one set, `due`, which a deadline joins at any
moment and which a write that moves the deadline leaves. `UpdateItem` with a new
room type or rate plan is delegated to another method with its own transaction
and changes nothing itself, so it is `UpdateItemRoomType` or `UpdateItemRatePlan`;
`Transactions` models how the two transactions interact.
`SelectRoomForAutoPin` may return any free room, since it skips locked ones.
`rollupAndNotify` is a stub in the code and therefore does neither in the model.
`silent` holds the reservations changed since the last NOTIFY about them.

**Transactions.** What `Booking` takes as one step is here a begin, a snapshot,
a write, and a commit, each of which may fail or lose its answer. A request
holds up to two transactions, "outer" and, when `UpdateItem` delegates, "inner";
`InUse` are the connections. PostgreSQL is modelled by what SERIALIZABLE
guarantees for one row: the first writer wins, a later one with an older
snapshot fails with 40001. A client may hang up, which cancels the context;
nothing else ends a wait for a connection.

**Listing.** A page is one query: the rows behind the cursor in the order
(arrival, id), both descending, cut at the limit. The limit passes through the
conversion to 32 bits (`Int32`, of `WordSize` values). The client repeats until a
page is empty. No code sets `deleted_at` of a reservation, so rows do not
disappear.

**Outbox.** `ClaimBatch`, `HandlerSucceeds`, `HandlerFails`, `HandlerTimesOut`
and the statements that record an outcome are separate actions, since a crash, a
shutdown or the end of the 10 seconds of `dbCtx` may come between any two of
them. The one thing taken from real time: a goroutine starts right after its
claim, so that its 10 seconds are over before the claim's 5 minutes
(`ProcessAtReached`). The mutant of `FinishedStaysFinished` drops exactly that
assumption. `Registered` is a parameter; the server registers no handler yet.

**Idempotency.** A request is one HTTP exchange; a retry is another request with
the same key and fingerprint. `met` records what went wrong with each request:
Redis did not answer, the client hung up (which cancels the context that the
middleware uses for Redis), the server crashed, or the handler outlived the
two-minute lock. A client that hangs up before the key is reserved makes the
reservation fail like any Redis error, and the request is let through
(`FailOpen`); one that hangs up while it waits just ends. `Faults` says which of these may happen. The 24 hours after
which a response is forgotten lie outside the model.

**EventsListener.** `link` is where the goroutine of `run` stands; `session` is
whether the server side of the connection lives. The session may die at any
moment and with it any tail of what was sent; the listener finds out when it
writes, waits or pings. `wire` keeps the order of commits; the goroutines of
`dispatch` then run in any order. A payload is of one of three shapes: "action"
is what the Go code sends, "row" is what the handlers parse, "garbled" is no
JSON. `onReconnect` is two steps, the flush of the cache and the resync.

**RealtimeHub.** A stream is registered under the mutex, where the number of
streams is compared with `MaxSSEClients`, emptied without it, and
ends in two steps (the map entry, then the channel), as in the deferred function
of `Subscribe`. A send never blocks. When a channel is full `fanOut` tries a
resync next, which succeeds only if the reader took a message in between
(`raced`). `owed` is what each open stream has not been told: it defines what
"missed" means and guards nothing.

**AvailabilityCache.** A count is the set of changes it includes, so that a stale
one can be told from a fresh one. A Redis command may fail halfway. A query that
breaks off while its rows are read stores 0 for the nights it did not read
(`Zero`), because `rows.Err` is not asked. `straddled`, `failed` and `unheard`
record why a key may be stale and guard nothing. Changes that are not announced
at all behave as those announced without dates.

**Refinement.** `Booking` implements `RoomInventory` under the mapping `sold` =
the ledger, a guest's `party` = the reservation of an item: every step works for
one reservation, sells it only free room-nights and gives up only its own.
`Transactions` implements `OptimisticRow` under `named` = the versions in
If-Match, `applied` = the requests whose writing transaction committed, its
answer lost or not: each request changes the row at most once, from the version
it named.

**Composition.** Hub and cache are each composed with the listener by extending
it; their joint product would only add interleavings of parts that share no
state but the listener's.

## Runs

| Run | Bounds | Shows |
|---|---|---|
| `booking_locking` | 1 reservation, 1 item, 2 rooms, 2 room types, 2 nights, versions to 3 and 2, 1 copy, fairness | types; versions identify rows; the hold-expiry and overstay sweeps act only on what they found; expired holds are released; status changes are announced |
| `booking_items` | 1 reservation, 2 items, 2 rooms, 2 nights, versions to 3 and 2 | ledger rows lie within stays; the room of an item and of its nights come apart in two named ways only; closed reservations stay closed; the item of a guest in house is cancelled only with its reservation, that of a checked-in guest only with a hold; the reservation's dates lag only behind a changed stay or a restored item; one e-mail per confirmation |
| `booking_contention` | 2 reservations, 1 item each, 1 room, 1 night | refinement of `RoomInventory`: nobody sells what is taken or gives up what is another's |
| `outbox` | 2 events (one without handler), 2 retries, batches of 1, fairness | outcomes are true, final, counted right and reached |
| `idempotency` | 3 requests, 1 key, 2 bodies, all faults | replay is faithful; cached responses stay; duplicates need faults |
| `realtime` | 2 tabs of 2 properties, 1 stream at a time, channels of 1, 2 changes of 3 shapes, fairness | no more streams than `maxSSEClients` and no more messages than a channel holds; no change is missed silently; every change arrives; sends reach open channels; nothing runs after Stop |
| `availability_cache` | 1 room type, 2 nights, a creation of 2 items, a cancellation, 1 reader, restarts | every stale count has a named cause |
| `transactions` | 3 requests, 2 of them delegating, 2 connections, fairness | refinement of `OptimisticRow`; a 200 is committed and current; requests end unless the pool is held |
| `listing` | 3 reservations, 2 arrival days, 2 statuses, limits from 0 to beyond the word | what is not touched is listed exactly once |
| `doc_*` | as small as the disagreement needs | see below |

The bounds on versions limit what clients do to a row, not what the sweeps do.
They are enough for the cases that matter: create, then two or three edits
interleaved with each sweep; cancel, reactivate and cancel again; a copy read
before, between and after. Two nights are the least for which a stay can be
extended, shortened at either end and shifted. One room and two reservations
are the most contention there can be. Two retries tell the first, a middle and
the last attempt apart. Three requests allow a retry of a retry and a different
body. A channel of one is full after one message, and two changes can overtake
each other or fall on both sides of a lost session. Two delegating requests and
two connections are the least with which the pool can be held, and the third
request shows who suffers. With three rows on two days a page ends inside a day.
Symmetry is used for identifiers in the `Booking` runs without liveness
properties. Deadlock is not checked: when every bound is reached the models stop.

**Fairness.** `booking_locking` assumes that the sweep's query returns a due hold
again and again if it keeps being due, and that its transaction for that hold is
tried again and again (strong fairness: the ticker fires every 30 s for as long
as the server runs, locks are held for one transaction, restarts are not
perpetual). It assumes nothing of clients; that they do not edit a hold for ever
follows from the bound on versions, and in the code from their patience.
`outbox` assumes that time passes, a stopped server is started, and that for
each event not every claim is lost, not every handler overruns its 10 s, and not
every outcome fails to be recorded. A handler may fail every time.
`realtime` assumes that goroutines are scheduled, that browsers read, that the
loop of `run` connects in the end (weak), and that not every session dies before
its LISTEN (strong: the loop tries for ever, and databases come back). Sessions
may die at any time after that. `transactions` assumes that the pool hands out
free connections and PostgreSQL executes what it is sent; nothing has to fail
and no client has to hang up, which is why two delegating requests can hold the
pool for good.

## Proofs

Every safety property that a run checks is also a theorem, for all values of the
constants that the module's ASSUME admits: any sets of rows, rooms, requests,
clients and events, any bound. Each proof follows one scheme. The property is
strengthened to an inductive invariant, which TLC checked on the instance of the
run first; one lemma per action, or per group of actions, shows that it is kept;
action properties and refinements then follow from the invariant and a single
step. What the strengthening adds is what the property silently depends on.

**`BookingProofs`** (`BookingAssumption`: two model values are none of the others,
every room has a type, bounds are numbers). Its invariant `BookingInv` has five
parts; each action is analysed once per part, and the theorems are read off.

* `TypeInv` is TypeOK with one companion, that an item that exists belongs to a
  reservation: several actions notify about "the reservation of the item".
  Theorem `TypeCorrect`.
* `CopiesFit`: a copy's version is at most the row's, and equal only if the copy
  is the row. `NextStep` reduces every action to two facts: each row it touches
  gets the next version (`Writes`), and copies are kept, dropped or freshly
  made. That is the whole argument for `VersionsAreIdentities`, and it is what a
  bulk UPDATE without `version = version + 1` breaks.
* `HoldsFoundDue`: a copy in the hold batch whose version is current is of a hold
  that is due. With it `SweepIsSafe`; it needs that nothing postpones the expiry
  of a hold.
* `LedgerInv`: LedgerWithinStay, that sold nights belong to items that exist,
  and that an item that was never inserted belongs to nobody. `NextTrades` shows that every step leaves items and ledger alone or
  `Trades` for one reservation: it inserts items of it, sells free room-nights to
  it and gives up only its own. `RoomNightsAreSafe` is the invariant, and
  `RefinesRoomInventory` (`Spec => ImplementsInventory`) maps each trade to a
  step of the abstract ledger; that an item never changes its reservation is
  what makes the mapping work.
* `LifeInv`: closed reservations are closed; deleted items are cancelled or
  checked out; a reservation with items exists; the archival sweep has found
  only closed reservations. It records two facts about the code as well: no
  reservation is ever `checked_out` and no item `archived`, since the rollup is a
  stub and nothing else asks for these statuses; without them archival would not keep
  `ClosedReservationsAreClosed`. `NextLife` classifies what one step makes of an
  item (`Kept`, `Moved`, `Inserted`, `CancelledWith`, `Restored`, `SoftDeleted`)
  and of a reservation; `ClosedStaysClosed`, `OverstaySweepIsSafe` and
  `GuestsInHouseAreSafe` follow.

`RoomsAgree` (`Spec => LedgerFollowsRoom`) needs one more fact, `PinsReleased`: the
items of a cancelled reservation that have no room of their own hold no nights.
That is why Reactivate, which pins such items again, sells them one room and not
two; for a hold the fact is missing, and there the code does sell two. `NextRooms`
classifies what a step does to an item and its nights (`RoomLife`): nothing but
giving nights up (`Undisturbed`), new nights in its own room (`Housed`), a first
pin (`Pinned`), or one of the two exceptions (`PinnedAgain`, `MovedInTime`).

`EmailsFollowConfirmations` and `StatusIsAnnounced` come from `NextTells`, again
one case per action. `DatesLagInTwoWays` comes from `Covered`: a live item that was
not deleted is one whose reservation's dates are what they were, or cover its old
stay, or cover its new one.

**`TransactionsProofs`** (`TransactionsAssumption`). `AnswersAreTrue`: TypeOK, with
the limit of the pool, and SuccessIsCurrent. `RefinesOptimisticRow`:
`Spec => NoUpdateIsLost`. The invariant has the nesting of the two transactions
(`Nesting`), that no snapshot is newer than the row and a delegate's is not older
than its caller's (`Snapshots`), and the row lock (`RowLock`): only one
transaction has written, and the row is still at its snapshot and at the version
its If-Match named. The last gives the refinement: a commit changes the row from
the version named. That InUse is finite is part of the invariant, since Requests
need not be.

**`OutboxProofs`** (`OutboxAssumption`). `OutcomesAreTrue`: TypeOK, OutcomeIsTrue and
DeadLetterIsExhausted. `FinishedIsFinal`: `Spec => FinishedStaysFinished`. The updates
name only the row's id, so the invariant says who may still write: a live run owns
its row, which is being processed and not visible (`LiveOwnsRow`), and an event has
one live run at most (`OneLiveRun`); a lapsed claim makes its run late before
another takes the row. `RunIsTrue` and `AttemptsCounted` tie the state of a run and
`retry_count` to what handlers returned.

**`IdempotencyProofs`** (`IdempotencyAssumption`). `ReplayCorrect`: the strengthening
`CompletedIsEffect` says that a completed record belongs to a request that took
effect with that key and fingerprint. `OneEffectPerKey`: TypeOK and
DuplicatesNeedFaults, and `CacheIsStable`: `Spec => CachedResponseStays`. Set and Del
are unconditional; `RequestOK` says why that is harmless while no handler outlives its
lock: a request that executes or caches holds the lock, one outside the protocol met
a fault, and one that took effect without a fault left its response behind.

**`RealtimeHubProofs`** (`HubAssumption`, `PayloadsAssumption`). `NoSilentLoss`: TypeOK,
with the bounds of the channels and of the client map, and NothingMissedSilently; `SendsAndStopAreSafe`:
SendsReachOpenChannels and StoppedIsQuiet. From the listener the invariant needs
that notifications are under way only behind LISTEN (`WireOK`) and that `run` returns
before Stop (`StopOK`); from the hub that open streams are in the client map and
only they are owed anything (`StreamsOK`). The one argument worth knowing: what a
dying session takes with it was sent behind LISTEN, and from there every way on
leads through `onReconnect`, hence `ResyncComing`.

**`AvailabilityCacheProofs`** (`CacheAssumption`: days are consecutive numbers, every
change is a sequence of stays). `StaleCountsAreAccounted`: TypeOK and StaleHasCause.
The handler evicts night by night, so StaleHasCause is kept only if the nights it
has still to evict are the right ones when it begins: `WireIsFresh` says that a
notification is sent once and that nothing has been evicted for it while it is on
the wire. `CreationDeletes` is for restarts: they forget the deletions under way,
and the keys of a creation must then have another cause.

**`ListingProofs`** (`ListingAssumption`). `ListingIsComplete`: TypeOK and
UntouchedListedOnce. The invariant is inductive as stated, because it says of a walk
under way that exactly the matching rows not behind the cursor have been listed. The
order of the list is a strict total order (`OrderFacts`), so moving the cursor to the
last row of a page moves it over that page and nothing else; an empty page leaves no
candidate because the limit is never 0.

Only model-checked: the liveness properties `ExpiredHoldIsReleased`, `EventSettles`,
`ChangesAreTold` and `AnsweredUnlessPoolHeld`, since fairness and ENABLED are out of
the prover's reach. The `doc_*` runs refute, so there is nothing to prove.

## Disagreements between the code and its documentation

Kept as runs that TLC must refute:

* `doc_ledger_entry`: moving an arrival to a later day deletes all ledger rows
  of the item, so its remaining nights can be sold again
  (`service_update.go:102`); `docs/requirements/reservations.md:44` says "Each
  item must have a room_inventory_ledger entry".
* `doc_reactive_invalidation`: the notifications carry an action and an id
  (`service_create.go:437`), the handler that invalidates availability needs
  property and dates and gives up; `availability.go:25` says "Cache is
  invalidated reactively via NOTIFY reservation_changes. TTL is a safety net
  only." The migration `00005_planner_notifier.sql` that `invalidation.go:17`
  names does not exist.
* `doc_confirm_hold`: Confirm accepts a cancelled reservation, since the
  transition it asks about is the one Reactivate needs; the items stay deleted, the
  confirmation goes out (`service_create.go:186`, whose comment at 170 says
  "Requires the reservation to be in 'hold' status and have a guest attached").

Expressed as the exceptions in properties that hold:

* A guest can be checked in on a hold; when it expires, the sweep cancels the
  guest's item (`workers.go:87`, against `state_machine.go:58`, "Cancel of a
  checked-in item is forbidden"), and CancelReservation, which looks for
  checked-in items only, cancels that of an overstaying guest
  (`service_lifecycle.go:67`): the exceptions in `GuestInHouseKeepsItem`.
* UpdateItem with new dates and a new room leaves the nights the item keeps in the
  old room, since `UpdateLedgerRowRoom` runs only when the dates stay
  (`service_update.go:119`); Reactivate accepts a hold and sells its unassigned
  item a second room (`service_lifecycle.go:435`, against
  `docs/requirements/reservations.md:33`, "Reactivate cancelled reservation"): the
  exceptions in `LedgerFollowsRoom`.
* A date change recomputes the envelope before the item is written
  (`service_update.go:115`, against ADR-013): the first exception in
  `EnvelopeLagsOnlyBehindDates`. ADR-013 speaks of the items that are not
  cancelled, `recomputeEnvelope` takes all that are not deleted; the model follows
  the code.
* A client that hangs up and retries after two minutes is executed twice
  (`idempotency.go:162`, against `docs/guides/api-contracts.md:20`, "Return
  cached response"); a slow request that ends in an error deletes the lock of
  the request that took over its key (`idempotency.go:164`): the exceptions in
  `DuplicatesNeedFaults`.
* `UpdateItem` with another room type answers with the item as it was before
  (`service_update.go:49`), and can hold the pool: `SuccessIsCurrent` and
  `AnsweredUnlessPoolHeld`.

One limit the code admits is in a property too: a channel that is full loses both
the event and the resync meant to replace it (`hub.go:222`, "skip silently"), and
nothing tells the client afterwards: `overflow` in `NothingMissedSilently`.

Seen while modelling and stated by no property: `rollupAndNotify` is a stub, so
check-in, check-out and no-show neither reach the reservation's status nor are
announced (`service_lifecycle.go:504`, against the comment at 502, "emits
reservation_changes notification"); the notice of a dead letter is a statement of
its own and is lost when the worker dies before it or it fails (`engine.go:297`,
against ADR-006, "Exhausted rows emit `pg_notify('outbox_dead_lettered')`"); a
handler's own timeout is never
counted, so such an event is retried for ever (`engine.go:220`, against
`docs/requirements/reservations.md:357`); an item cancelled on its own stays live when its reservation is
cancelled, and extending it sells room-nights to a cancelled reservation
(`service_update.go:108`, against R-RES-VALID-007); dates and room of a
checked-in item change without `post_checkin_mutate` (`service_update.go:59`,
against R-RES-EDGE-051); an outbox event whose completion is not recorded is
handled again (`engine.go:213`, against the comment at 152); archival sets a
status and not `deleted_at` (`workers.go:352`, whose comment is "Soft-delete
reservation"), so archived reservations are listed and `include_archived` has no
effect; the list allows 200 rows and a readable cursor where ADR-008 has 100 and
an opaque one.

Of the stream at `/v1/sse`, outside the model: the response writer of the
request logger has no `Flush` (`middleware/logger.go:14`), so that `Subscribe`
answers "streaming unsupported" behind it; `StubAuth` asks for a header that
EventSource cannot send (`hub.go:70`); the server's 30 s write timeout
(`main.go:171`) ends streams that are meant to last; `Shutdown` waits its 5 s for
open streams in vain; no notification sent by the Go code has the `property_id`
that `OnEvent` needs. `RealtimeHub` shows what hub and listener do once events
with a property reach them ("row"), and that the others are dropped.

## Not modelled

Guests, pricing, validation, HTTP encoding, logging, telemetry, configuration,
generated code, developer tools and the web client keep no state the properties
speak of. Row-level security and several properties (hotels) are left out of
`Booking`: every query is scoped to one. `ShortenStay` and `UpdateItemStayPeriod`
have no route and no caller. The no-show reminder changes no row;
it sends a notification on `staff_alerts` (`workers.go:172`), to which nobody
listens. Corrupt Redis
records are left out, since nothing else writes them, and so are go-redis'
internal retries. Planner and reservation keys are invalidated by the change
handler but no code stores them; `GetOrSet` and the other helpers of the cache
client have no caller. The flush of "yop:*" does not touch the idempotency
records, which have another prefix. The heartbeat of a stream only keeps proxies
from closing it.

## Plan

Everything that keeps or changes state is modelled, and every safety property of a
run is proved. What is left:

1. The safety half of the liveness properties, as theorems: that an expired hold
   which is not in a batch can be found, that an unfinished event without a live
   run becomes visible again, that a change that is owed and not excused has a step
   that brings it nearer. Stated as the guards of those steps, without ENABLED,
   they show for every instance that nothing is stuck.
2. `RoomInventory` and `OptimisticRow` on their own: that a trade keeps every
   room-night with one party, and that the versions applied are distinct, so that
   the refinements yield these facts without the details.
3. The lemmas of `BookingProofs` on fields and types once more: several of them
   could be stated as one.
