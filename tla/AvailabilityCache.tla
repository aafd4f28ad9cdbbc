------------------------- MODULE AvailabilityCache -------------------------
(***************************************************************************)
(* The availability counts that CheckAvailability keeps in Redis, one key  *)
(* per room type and night, and the three ways in which they are dropped:  *)
(* CreateReservation deletes keys after its commit, the reservation        *)
(* change handler deletes keys when a notification arrives, and a          *)
(* reconnecting listener flushes everything.  Reading, counting and        *)
(* storing are separate steps: a change can commit between them.           *)
(***************************************************************************)
EXTENDS EventsListener, SequencesExt

CONSTANTS
  RoomTypes,
  Days,       \* nights, as day numbers
  Items,      \* what each change takes or frees: a sequence of stays
  Creates,    \* the changes that CreateReservation makes
  Readers     \* requests for availability

\* A stay departs on the day after one of the nights.
Stay == [type : RoomTypes, arrival : Days, departure : {d + 1 : d \in Days}]

ASSUME CacheAssumption ==
  /\ "cache" \in Handlers
  /\ Days \subseteq Nat /\ \A a, d \in Days : a .. d \subseteq Days
  /\ Items \in [Changes -> Seq(Stay)]
  /\ Creates \subseteq Changes
  /\ "zero" \notin Changes

VARIABLES
  cache,      \* availability keys in Redis: the changes each count includes
  committed,  \* changes that the ledger shows
  reader,     \* where each CheckAvailability is
  deleting,   \* keys that CreateReservation has still to delete
  evicting,   \* nights that the handler of each change has still to evict
  straddled,  \* keys stored with a count that is not, or no longer, the ledger's
  failed,     \* keys that a DEL or a SCAN missed because Redis failed
  unheard     \* changes announced while no listener would flush later

cacheVars == <<cache, committed, reader, deleting, evicting, straddled, failed, unheard>>
vars      == <<listenerVars, cacheVars>>

Keys == RoomTypes \X Days

\* Mutant: the night of departure counts as a night of the stay.
NightsToDeparture(arrival, departure) == arrival .. departure

\* util.NightsBetween
NightsBetween(arrival, departure) == arrival .. departure - 1

Nights(i)  == NightsBetween(i.arrival, i.departure)
Touched(k) == UNION {{i.type} \X Nights(i) : i \in Range(Items[k])}

\* The stay that a "row" announcement of the change names.
StayNights(k) == UNION {Nights(i) : i \in Range(Items[k])}

\* invalidateAvailabilityAfterCreate: the first item of each room type.
Deleted(k) ==
  UNION {{Items[k][n].type} \X Nights(Items[k][n]) :
           n \in {n \in DOMAIN Items[k] : \A m \in 1 .. n - 1 : Items[k][m].type # Items[k][n].type}}

\* The count of a key, as the set of committed changes it includes.
Count(key, changes) == {k \in changes : key \in Touched(k)}

\* The count 0, stored for a night of which no row was read.
Zero == {"zero"}

Idle == [at |-> "idle", missing |-> {}, unread |-> {}, counted |-> {}]

TypeOK ==
  /\ ListenerTypeOK
  /\ DOMAIN cache \subseteq Keys /\ Range(cache) \subseteq (SUBSET Changes) \cup {Zero}
  /\ committed \subseteq Changes
  /\ reader \in [Readers -> [at : {"idle", "missed", "counted"}, missing : SUBSET Keys,
                             unread : SUBSET Keys, counted : SUBSET Changes]]
  /\ deleting \in [Changes -> SUBSET Keys]
  /\ evicting \in [Changes -> SUBSET Days]
  /\ straddled \subseteq DOMAIN cache /\ failed \subseteq DOMAIN cache
  /\ unheard \subseteq Changes

Init ==
  /\ ListenerInit
  /\ cache = <<>>
  /\ committed = {}
  /\ reader = [r \in Readers |-> Idle]
  /\ deleting = [k \in Changes |-> {}]
  /\ evicting = [k \in Changes |-> StayNights(k)]
  /\ straddled = {} /\ failed = {} /\ unheard = {}

-----------------------------------------------------------------------------
(* CheckAvailability                                                       *)

\* MGET.  A request that finds every night, or fails, changes nothing.
MGet(r, type, arrival, departure) ==
  LET missing == ({type} \X NightsBetween(arrival, departure)) \ DOMAIN cache
  IN  /\ reader[r] = Idle /\ missing # {}
      /\ reader' = [reader EXCEPT ![r] = [Idle EXCEPT !.at = "missed", !.missing = missing]]
      /\ UNCHANGED <<listenerVars, cache, committed, deleting, evicting, straddled, failed, unheard>>

\* The query over the ledger, or its failure.  When it breaks off while its rows
\* are read, oldest night first, rows.Next ends the loop and rows.Err is not asked.
QueryLedger(r) ==
  /\ reader[r].at = "missed"
  /\ \/ \E n \in Days \cup {Max(Days) + 1} :
          reader' = [reader EXCEPT ![r].at = "counted", ![r].counted = committed,
                                   ![r].unread = {key \in reader[r].missing : key[2] >= n}]
     \/ reader' = [reader EXCEPT ![r] = Idle]
  /\ UNCHANGED <<listenerVars, cache, committed, deleting, evicting, straddled, failed, unheard>>

\* What request r stores for a key: availByDate[k] is 0 for a row it did not read.
Stored(r, key) == IF key \in reader[r].unread THEN Zero ELSE Count(key, reader[r].counted)

\* The pipeline of SETs, each with the TTL.  An error is logged; by then any
\* of the keys may be stored.
Fill(r) ==
  /\ reader[r].at = "counted"
  /\ \E stored \in SUBSET reader[r].missing :
       /\ cache' = [key \in DOMAIN cache \cup stored |->
                     IF key \in stored THEN Stored(r, key) ELSE cache[key]]
       /\ straddled' = (straddled \ stored) \cup {key \in stored : Stored(r, key) # Count(key, committed)}
       /\ failed' = failed \ stored
  /\ reader' = [reader EXCEPT ![r] = Idle]
  /\ UNCHANGED <<listenerVars, committed, deleting, evicting, unheard>>

-----------------------------------------------------------------------------
(* Redis                                                                   *)

\* Of the keys that a command should delete, gone are deleted; when Redis
\* fails the others stay.
Delete(keys, gone) ==
  /\ cache' = [key \in DOMAIN cache \ gone |-> cache[key]]
  /\ straddled' = straddled \ gone
  /\ failed' = (failed \cup (keys \cap DOMAIN cache)) \ gone

\* The TTL of a key runs out.
Expire(key) ==
  /\ key \in DOMAIN cache
  /\ Delete({}, {key})
  /\ UNCHANGED <<listenerVars, committed, reader, deleting, evicting, unheard>>

-----------------------------------------------------------------------------
(* Changes                                                                 *)

\* A transaction that changes the ledger commits and announces it.  One that
\* announces nothing, as those behind rollupAndNotify, leaves the cache as an
\* announcement without dates does.
Commit(k, p) ==
  /\ Announce(k, p)
  /\ committed' = committed \cup {k}
  /\ deleting' = [deleting EXCEPT ![k] = IF k \in Creates THEN Deleted(k) ELSE {}]
  /\ unheard' = IF link \in {"down", "connected"} /\ ~isReconnect THEN unheard \cup {k} ELSE unheard
  /\ UNCHANGED <<cache, reader, evicting, straddled, failed>>

\* InvalidateAvailabilityCache deletes one key, or logs that it could not.
InvalidateAfterCreate(k) ==
  /\ \E key \in deleting[k] :
       /\ deleting' = [deleting EXCEPT ![k] = @ \ {key}]
       /\ Delete({key}, {key}) \/ Delete({key}, {})
  /\ UNCHANGED <<listenerVars, committed, reader, evicting, unheard>>

\* invalidateAvailability: one pattern per night, over all room types.
EvictNight(k) ==
  /\ [handler |-> "cache", change |-> k] \in handling /\ payload[k] = "row"
  /\ \E d \in evicting[k] :
       /\ \A other \in evicting[k] : d <= other
       /\ evicting' = [evicting EXCEPT ![k] = @ \ {d}]
       /\ \E gone \in SUBSET (RoomTypes \X {d}) : Delete(RoomTypes \X {d}, gone)
  /\ UNCHANGED <<listenerVars, committed, reader, deleting, unheard>>

\* The handler returns: it could not parse the payload, or evicted every night.
OnReservationChange(k) ==
  /\ payload[k] = "row" => evicting[k] = {}
  /\ Handled("cache", k)
  /\ UNCHANGED cacheVars

\* Mutant: a flush that fails is not flushed at all, and nobody is told.
FlushNothing ==
  /\ OnReconnectFlush
  /\ UNCHANGED cacheVars

\* appCache.Invalidate("yop:*"); an error is logged.
Flush ==
  /\ OnReconnectFlush
  /\ \E gone \in SUBSET DOMAIN cache : Delete(DOMAIN cache, gone)
  /\ UNCHANGED <<committed, reader, deleting, evicting, unheard>>

\* Redis outlives the server.  The first connection of the new process does
\* not flush; only the dev environment flushes at the start.
Restart ==
  /\ Restarted
  /\ reader' = [r \in Readers |-> Idle]
  /\ deleting' = [k \in Changes |-> {}]
  /\ evicting' = [k \in Changes |-> StayNights(k)]
  /\ failed' = failed \cup ((UNION Range(deleting)) \cap DOMAIN cache)
  /\ unheard' = committed
  /\ UNCHANGED <<cache, committed, straddled>>

ListenerStep ==
  /\ \/ SessionDies \/ Connect \/ Listen \/ OnReconnectResync \/ Disconnect
     \/ Receive \/ Dispatch \/ Cancel \/ RunReturns \/ StopReturns
  /\ UNCHANGED cacheVars

Next ==
  \/ ListenerStep
  \/ Flush
  \/ Restart
  \/ \E k \in Changes : InvalidateAfterCreate(k) \/ EvictNight(k) \/ OnReservationChange(k)
  \/ \E k \in Changes, p \in Payloads : Commit(k, p)
  \/ \E r \in Readers : QueryLedger(r) \/ Fill(r)
  \/ \E r \in Readers, t \in RoomTypes, a, d \in Days : MGet(r, t, a, d + 1)
  \/ \E key \in Keys : Expire(key)

Spec == Init /\ [][Next]_vars

-----------------------------------------------------------------------------
(* Properties                                                              *)

\* A key that is served although the ledger has moved on without it.
Missing(key) == Count(key, committed) \ cache[key]

\* The change is not going to be dropped from the cache by anybody: neither
\* deleted by its request nor named by a notification that can be parsed.
Unannounced(key, k) ==
  /\ k \notin Creates \/ key \notin Deleted(k)
  /\ payload[k] # "row" \/ k \in unheard

FlushComing ==
  \/ link \in {"down", "connected"} /\ isReconnect
  \/ link = "flushing"
  \/ link \in {"resyncing", "listening", "dispatching"} /\ ~session

\* A cached count that leaves out a committed change is about to be dropped,
\* by the request that made the change, by the handler of its notification or
\* by the flush of a reconnect; or Redis failed to drop it; or it was counted
\* before the commit and stored after it, or never read; or the change is one that nobody
\* drops: not a creation's first item of its type, and announced without dates,
\* before the first LISTEN or to a process that died.  Only the TTL ends the
\* last three.
StaleHasCause ==
  \A key \in DOMAIN cache : \A k \in Missing(key) :
    \/ key \in deleting[k]
    \/ payload[k] = "row" /\ \E i \in DOMAIN wire : wire[i] = k
    \/ [handler |-> "cache", change |-> k] \in handling /\ payload[k] = "row" /\ key[2] \in evicting[k]
    \/ FlushComing
    \/ key \in straddled \cup failed
    \/ Unannounced(key, k)
    \/ cancelled

\* Everything that drops counts has done its work, with no fault on the way.
Quiet ==
  /\ link = "listening" /\ session /\ ~cancelled /\ wire = <<>> /\ handling = {}
  /\ \A k \in Changes : deleting[k] = {}
  /\ \A r \in Readers : reader[r] = Idle
  /\ straddled = {} /\ failed = {} /\ unheard = {}

\* CheckAvailability's comment: "Cache is invalidated reactively via NOTIFY
\* reservation_changes. TTL is a safety net only."  With nothing under way and
\* nothing gone wrong, every cached count is that of the ledger.
InvalidatedReactively == Quiet => \A key \in DOMAIN cache : Missing(key) = {}

=============================================================================
