---------------------- MODULE AvailabilityCacheProofs ----------------------
(***************************************************************************)
(* Every stale count has a cause, for any room types, nights, readers and  *)
(* changes, and whatever Redis, the session and the process do.            *)
(***************************************************************************)
EXTENDS AvailabilityCache, EventsListenerProofs

\* No notification is sent twice.
Once(s) == \A i, j \in DOMAIN s : s[i] = s[j] => i = j

\* No goroutine has begun to evict for the change.
Fresh(k) == evicting[k] = StayNights(k) /\ [handler |-> "cache", change |-> k] \notin handling

\* What is on the wire is announced, once, and not evicted for yet; what is
\* committed is announced.
WireIsFresh ==
  /\ committed \subseteq {k \in Changes : Announced(k)}
  /\ Once(wire)
  /\ \A k \in Changes : Holds(wire, k) => Announced(k) /\ Fresh(k)
  /\ \A k \in Changes : ~Announced(k) => Fresh(k)

\* What StaleHasCause says of a key and a change its count leaves out.
Caused(key, k) ==
  \/ key \in deleting[k]
  \/ payload[k] = "row" /\ Holds(wire, k)
  \/ [handler |-> "cache", change |-> k] \in handling /\ payload[k] = "row" /\ key[2] \in evicting[k]
  \/ FlushComing
  \/ key \in straddled \cup failed
  \/ Unannounced(key, k)
  \/ cancelled

\* A key that its creation deletes is kept only until then, or for a cause that
\* a restart leaves in place.
CreationDeletes(key, k) ==
  k \in Creates /\ key \in Deleted(k) => key \in deleting[k] \/ key \in straddled \cup failed

Accounted == \A key \in DOMAIN cache : \A k \in Missing(key) : Caused(key, k) /\ CreationDeletes(key, k)

Inv == TypeOK /\ WireOK /\ StopOK /\ WireIsFresh /\ Accounted

-----------------------------------------------------------------------------
(* Nights and keys.                                                        *)

\* The nights of a stay are days, and every key a change touches is of one of
\* the nights that its announcement names.
LEMMA KeysOfChange ==
  ASSUME NEW k \in Changes
  PROVE  /\ StayNights(k) \subseteq Days
         /\ Deleted(k) \subseteq Keys
         /\ \A key \in Touched(k) : key[2] \in StayNights(k)
<1>1. Items[k] \in Seq(Stay)
  BY CacheAssumption
<1>2. ASSUME NEW i \in Stay
      PROVE  Nights(i) \subseteq Days /\ i.type \in RoomTypes
  <2>1. PICK d \in Days : i.departure = d + 1
    BY DEF Stay
  <2>2. d \in Nat /\ i.departure - 1 = d /\ i.arrival \in Days
    BY <2>1, CacheAssumption DEF Stay
  <2> QED  BY <2>2, CacheAssumption DEF Stay, Nights, NightsBetween
<1>3. \A n \in DOMAIN Items[k] : Items[k][n] \in Stay
  BY <1>1, ElementOfSeq, LenProperties
<1>4. Range(Items[k]) \subseteq Stay
  BY <1>3 DEF Range
<1>5. StayNights(k) \subseteq Days
  BY <1>2, <1>4 DEF StayNights
<1>6. Deleted(k) \subseteq Keys
  BY <1>2, <1>3 DEF Deleted, Keys
<1>7. \A key \in Touched(k) : key[2] \in StayNights(k)
  BY DEF Touched, StayNights
<1> QED  BY <1>5, <1>6, <1>7

\* The nights between two days are days.
LEMMA NightsAreDays ==
  ASSUME NEW a \in Days, NEW d \in Days
  PROVE  NightsBetween(a, d + 1) \subseteq Days
<1>1. a \in Nat /\ d \in Nat /\ (d + 1) - 1 = d
  BY CacheAssumption
<1> QED  BY <1>1, CacheAssumption DEF NightsBetween

-----------------------------------------------------------------------------
(* Notifications are sent once.                                            *)

\* A message that was not in the queue is in it once after it is appended.
LEMMA AppendOnce ==
  ASSUME NEW S, NEW s \in Seq(S), NEW m \in S, Once(s), ~Holds(s, m)
  PROVE  Once(Append(s, m)) /\ \A x : Holds(Append(s, m), x) => x = m \/ Holds(s, x)
<1>1. /\ Append(s, m) \in Seq(S) /\ Len(Append(s, m)) = Len(s) + 1
      /\ \A i \in 1 .. Len(s) : Append(s, m)[i] = s[i]
      /\ Append(s, m)[Len(s) + 1] = m
  BY AppendProperties
<1>2. Len(s) \in Nat /\ DOMAIN s = 1 .. Len(s) /\ DOMAIN Append(s, m) = 1 .. Len(s) + 1
  BY <1>1, LenProperties
<1>3. \A i \in DOMAIN Append(s, m) : i \in DOMAIN s \/ i = Len(s) + 1
  BY <1>2
<1> QED  BY <1>1, <1>2, <1>3 DEF Once, Holds

\* What follows the message just delivered is still on the wire once.
LEMMA TailOnce ==
  ASSUME NEW S, NEW s \in Seq(S), s # <<>>, Once(s)
  PROVE  /\ Once(Tail(s)) /\ ~Holds(Tail(s), Head(s)) /\ Holds(s, Head(s))
         /\ \A x : Holds(Tail(s), x) => Holds(s, x)
<1>1. /\ Tail(s) \in Seq(S) /\ Len(Tail(s)) = Len(s) - 1
      /\ \A i \in 1 .. Len(Tail(s)) : Tail(s)[i] = s[i + 1]
  BY HeadTailProperties
<1>2. /\ Len(s) \in Nat /\ Len(s) > 0 /\ DOMAIN s = 1 .. Len(s)
      /\ DOMAIN Tail(s) = 1 .. Len(s) - 1
  BY <1>1, LenProperties, EmptySeq
<1>3. Head(s) = s[1] /\ 1 \in DOMAIN s
  BY <1>2
<1>4. \A i \in DOMAIN Tail(s) : i \in Nat /\ i + 1 \in DOMAIN s /\ i + 1 # 1 /\ Tail(s)[i] = s[i + 1]
  BY <1>1, <1>2
<1> QED  BY <1>3, <1>4 DEF Once, Holds

\* A queue that is cut short keeps its messages in order, each once.
LEMMA PrefixOnce ==
  ASSUME NEW S, NEW s \in Seq(S), NEW n \in 0 .. Len(s), Once(s)
  PROVE  Once(SubSeq(s, 1, n)) /\ \A x : Holds(SubSeq(s, 1, n), x) => Holds(s, x)
<1>1. Len(s) \in Nat /\ DOMAIN s = 1 .. Len(s) /\ \A i \in 1 .. n : s[i] \in S
  BY LenProperties, ElementOfSeq
<1>2. SubSeq(s, 1, n) = [i \in 1 .. n |-> s[i]]
  BY <1>1, SubSeqProperties
<1>3. 1 .. n \subseteq DOMAIN s
  BY <1>1
<1> QED  BY <1>2, <1>3 DEF Once, Holds

-----------------------------------------------------------------------------
(* Steps of the listener that the cache does not see.                      *)

\* The wire stays fresh: a notification leaves it when its goroutines start.
LEMMA ListenerKeepsFresh ==
  ASSUME Inv, ListenerStep
  PROVE  WireIsFresh'
<1>1. UNCHANGED cacheVars /\ UNCHANGED payload /\ wire \in Seq(Changes) /\ Once(wire)
  BY DEF ListenerStep, Inv, TypeOK, ListenerTypeOK, WireIsFresh, SessionDies, Connect, Listen,
     OnReconnectResync, Disconnect, Receive, Dispatch, Cancel, RunReturns, StopReturns
<1>2. UNCHANGED <<committed, evicting>> /\ \A k : Announced(k)' = Announced(k)
  BY <1>1 DEF cacheVars, Announced
<1>3. CASE handling' = handling /\ Once(wire') /\ \A x : Holds(wire', x) => Holds(wire, x)
  BY <1>2, <1>3 DEF Inv, WireIsFresh, Fresh
<1>4. CASE SessionDies
  <2>1. PICK n \in (IF link = "dispatching" THEN 1 ELSE 0) .. Len(wire) : wire' = SubSeq(wire, 1, n)
    BY <1>4 DEF SessionDies
  <2>2. n \in 0 .. Len(wire)
    BY <2>1
  <2> QED  BY <1>1, <1>3, <1>4, <2>1, <2>2, PrefixOnce DEF SessionDies
<1>5. CASE Connect \/ Listen \/ OnReconnectResync \/ Disconnect \/ Receive \/ Cancel \/ StopReturns
  BY <1>1, <1>3, <1>5 DEF Connect, Listen, OnReconnectResync, Disconnect, Receive, Cancel, StopReturns
<1>6. CASE RunReturns
  BY <1>3, <1>6 DEF RunReturns, Once, Holds
<1>7. CASE Dispatch
  <2>1. /\ wire # <<>> /\ wire' = Tail(wire)
        /\ \A k : k # Head(wire) => ([handler |-> "cache", change |-> k] \in handling'
                                       <=> [handler |-> "cache", change |-> k] \in handling)
    BY <1>7 DEF Dispatch, Inv, WireOK
  <2>2. /\ Once(wire') /\ ~Holds(wire', Head(wire)) /\ Holds(wire, Head(wire)) /\ Head(wire) \in Changes
        /\ \A x : Holds(wire', x) => Holds(wire, x)
    BY <1>1, <2>1, TailOnce, TailHolds
  <2>3. \A k \in Changes : Holds(wire', k) \/ ~Announced(k) => k # Head(wire)
    BY <2>2 DEF Inv, WireIsFresh
  <2>4. \A k : k # Head(wire) => Fresh(k)' = Fresh(k)
    BY <1>2, <2>1 DEF Fresh, StayNights
  <2> QED  BY <1>2, <2>2, <2>3, <2>4 DEF Inv, WireIsFresh
<1> QED  BY <1>4, <1>5, <1>6, <1>7 DEF ListenerStep

\* No step of the listener alone takes the cause of a stale count away: what a
\* dying session takes with it is made good by the flush of the next one.
LEMMA ListenerKeepsCause ==
  ASSUME Inv, ListenerStep, NEW key \in DOMAIN cache, NEW k \in Missing(key), Caused(key, k)
  PROVE  Caused(key, k)'
<1>1. UNCHANGED cacheVars /\ UNCHANGED payload /\ wire \in Seq(Changes) /\ k \in Changes
  BY DEF ListenerStep, Inv, TypeOK, ListenerTypeOK, Missing, Count, SessionDies, Connect, Listen,
     OnReconnectResync, Disconnect, Receive, Dispatch, Cancel, RunReturns, StopReturns
<1>2. /\ Unannounced(key, k)' = Unannounced(key, k)
      /\ UNCHANGED <<deleting, evicting, straddled, failed>>
  BY <1>1 DEF cacheVars, Unannounced, Deleted
<1>3. CASE SessionDies
  <2>1. link \in Subscribed \/ UNCHANGED wire
    <3>1. CASE wire = <<>>
      <4>1. PICK n \in (IF link = "dispatching" THEN 1 ELSE 0) .. Len(wire) :
              wire' = SubSeq(wire, 1, n)
        BY <1>3 DEF SessionDies
      <4>2. n \in 0 .. Len(wire)
        BY <4>1
      <4> QED  BY <1>1, <3>1, <4>1, <4>2, PrefixTyped
    <3> QED  BY <3>1 DEF Inv, WireOK
  <2>2. (link \in Subscribed => FlushComing') /\ (FlushComing => FlushComing')
    BY <1>3 DEF SessionDies, Subscribed, FlushComing
  <2> QED  BY <1>1, <1>2, <1>3, <2>1, <2>2 DEF SessionDies, Caused
<1>4. CASE Connect \/ Listen \/ OnReconnectResync \/ Disconnect \/ Receive \/ StopReturns
  <2>1. UNCHANGED <<wire, handling, cancelled>>
    BY <1>4 DEF Connect, Listen, OnReconnectResync, Disconnect, Receive, StopReturns
  <2>2. FlushComing => FlushComing'
    BY <1>4 DEF Connect, Listen, OnReconnectResync, Disconnect, Receive, StopReturns, FlushComing
  <2> QED  BY <1>1, <1>2, <2>1, <2>2 DEF Caused
<1>5. CASE Cancel \/ RunReturns
  BY <1>5 DEF Cancel, RunReturns, Caused
<1>6. CASE Dispatch
  <2>1. /\ wire # <<>> /\ wire' = Tail(wire) /\ UNCHANGED <<session, cancelled>>
        /\ link = "dispatching" /\ link' = "listening" /\ handling \subseteq handling'
    BY <1>6 DEF Dispatch, Inv, WireOK
  <2>2. Holds(wire, k) => k = Head(wire) \/ Holds(wire', k)
    BY <1>1, <2>1, TailHolds
  <2>3. k = Head(wire) /\ payload[k] = "row" => [handler |-> "cache", change |-> k] \in handling'
    BY <1>6, CacheAssumption DEF Dispatch
  <2>4. Holds(wire, k) => key[2] \in evicting[k]
    BY <1>1, KeysOfChange DEF Inv, WireIsFresh, Fresh, Missing, Count
  <2>5. FlushComing => FlushComing'
    BY <2>1 DEF FlushComing
  <2> QED  BY <1>1, <1>2, <2>1, <2>2, <2>3, <2>4, <2>5 DEF Caused
<1> QED  BY <1>3, <1>4, <1>5, <1>6 DEF ListenerStep

\* Such a step keeps the invariant.
LEMMA ListenerKeepsInv ==
  ASSUME Inv, ListenerStep
  PROVE  Inv'
<1>1. ListenerActions /\ UNCHANGED cacheVars
  BY DEF ListenerStep, ListenerActions
<1>2. TypeOK' /\ WireOK' /\ StopOK'
  BY <1>1, ListenerTyped, ListenerGuards DEF Inv, TypeOK, cacheVars
<1>3. /\ UNCHANGED <<cache, deleting, straddled, failed>>
      /\ \A key : Missing(key)' = Missing(key)
  BY <1>1 DEF cacheVars, Missing, Count, Touched
<1>4. ASSUME NEW key \in DOMAIN cache', NEW k \in Missing(key)'
      PROVE  Caused(key, k)' /\ CreationDeletes(key, k)'
  <2>1. key \in DOMAIN cache /\ k \in Missing(key) /\ Caused(key, k) /\ CreationDeletes(key, k)
    BY <1>3, <1>4 DEF Inv, Accounted
  <2> QED  BY <1>3, <2>1, ListenerKeepsCause DEF CreationDeletes, Deleted
<1> QED  BY <1>2, <1>4, ListenerKeepsFresh DEF Inv, Accounted

-----------------------------------------------------------------------------
(* Steps that drop keys.                                                   *)

\* A count that a deletion leaves is the one that was there, and when it should
\* have been deleted that is remembered.
LEMMA DeleteLeaves ==
  ASSUME TypeOK, NEW keys, NEW gone, Delete(keys, gone), UNCHANGED committed
  PROVE  /\ DOMAIN cache' \subseteq Keys /\ Range(cache') \subseteq (SUBSET Changes) \cup {Zero}
         /\ straddled' \subseteq DOMAIN cache' /\ failed' \subseteq DOMAIN cache'
         /\ \A key \in DOMAIN cache' :
              /\ key \in DOMAIN cache /\ Missing(key)' = Missing(key)
              /\ key \in keys \/ key \in straddled \cup failed => key \in straddled' \cup failed'
<1>1. /\ DOMAIN cache' = DOMAIN cache \ gone
      /\ \A key \in DOMAIN cache' : cache'[key] = cache[key]
  BY DEF Delete
<1>2. Range(cache') \subseteq Range(cache)
  BY <1>1 DEF Range
<1>3. \A key \in DOMAIN cache' : Missing(key)' = Missing(key)
  BY <1>1 DEF Missing, Count, Touched
<1> QED  BY <1>1, <1>2, <1>3 DEF Delete, TypeOK

\* InvalidateAfterCreate, EvictNight and Expire keep the invariant.
LEMMA DeletionKeepsInv ==
  ASSUME Inv,
         \/ \E k \in Changes : InvalidateAfterCreate(k) \/ EvictNight(k)
         \/ \E key \in Keys : Expire(key)
  PROVE  Inv'
<1>1. UNCHANGED <<listenerVars, committed, reader, unheard>>
  BY DEF InvalidateAfterCreate, EvictNight, Expire
<1>2. UNCHANGED <<link, isReconnect, session, wire, handling, cancelled, stopped, payload>>
  BY <1>1 DEF listenerVars
<1>3. ListenerTypeOK' /\ WireOK' /\ StopOK'
  BY <1>2 DEF Inv, TypeOK, ListenerTypeOK, WireOK, StopOK
<1>4. FlushComing' = FlushComing /\ \A key, k : Unannounced(key, k)' = Unannounced(key, k)
  BY <1>1, <1>2 DEF FlushComing, Unannounced, Deleted
<1>5. ASSUME NEW k \in Changes, InvalidateAfterCreate(k)
      PROVE  Inv'
  <2>1. PICK del \in deleting[k] :
          /\ deleting' = [deleting EXCEPT ![k] = @ \ {del}]
          /\ Delete({del}, {del}) \/ Delete({del}, {})
    BY <1>5 DEF InvalidateAfterCreate
  <2>2. PICK gone : Delete({del}, gone)
    BY <2>1
  <2>3. UNCHANGED evicting
    BY <1>5 DEF InvalidateAfterCreate
  <2>4. TypeOK'
    BY <1>1, <1>3, <2>1, <2>2, <2>3, DeleteLeaves DEF Inv, TypeOK
  <2>5. WireIsFresh'
    BY <1>1, <1>2, <2>3 DEF Inv, WireIsFresh, Fresh, Announced, Holds, StayNights
  <2>6. ASSUME NEW key \in DOMAIN cache', NEW x \in Missing(key)'
        PROVE  Caused(key, x)' /\ CreationDeletes(key, x)'
    <3>1. /\ key \in DOMAIN cache /\ x \in Missing(key) /\ Caused(key, x) /\ CreationDeletes(key, x)
          /\ x \in Changes
      BY <1>1, <2>2, <2>6, DeleteLeaves DEF Inv, Accounted, TypeOK, Missing, Count
    <3>2. key = del \/ key \in straddled \cup failed => key \in straddled' \cup failed'
      BY <1>1, <2>2, <2>6, DeleteLeaves DEF Inv
    <3>3. key # del => (key \in deleting'[x] <=> key \in deleting[x])
      BY <2>1, <3>1 DEF Inv, TypeOK
    <3> QED  BY <1>2, <1>4, <2>3, <3>1, <3>2, <3>3 DEF Caused, CreationDeletes, Deleted, Holds
  <2> QED  BY <1>3, <2>4, <2>5, <2>6 DEF Inv, Accounted
<1>6. ASSUME NEW k \in Changes, EvictNight(k)
      PROVE  Inv'
  <2>1. PICK d \in evicting[k] :
          /\ evicting' = [evicting EXCEPT ![k] = @ \ {d}]
          /\ \E gone \in SUBSET (RoomTypes \X {d}) : Delete(RoomTypes \X {d}, gone)
    BY <1>6 DEF EvictNight
  <2>2. PICK gone : Delete(RoomTypes \X {d}, gone)
    BY <2>1
  <2>3. UNCHANGED deleting
    BY <1>6 DEF EvictNight
  <2>4. TypeOK'
    BY <1>1, <1>3, <2>1, <2>2, <2>3, DeleteLeaves DEF Inv, TypeOK
  <2>5. WireIsFresh'
    <3>1. ~Fresh(k) /\ \A x \in Changes : x # k => Fresh(x)' = Fresh(x)
      BY <1>2, <1>6, <2>1 DEF EvictNight, Fresh, Inv, TypeOK, StayNights
    <3> QED  BY <1>1, <1>2, <3>1 DEF Inv, WireIsFresh, Announced, Holds
  <2>6. ASSUME NEW key \in DOMAIN cache', NEW x \in Missing(key)'
        PROVE  Caused(key, x)' /\ CreationDeletes(key, x)'
    <3>1. /\ key \in DOMAIN cache /\ x \in Missing(key) /\ Caused(key, x) /\ CreationDeletes(key, x)
          /\ x \in Changes /\ key \in Keys
      BY <1>1, <2>2, <2>6, DeleteLeaves DEF Inv, Accounted, TypeOK, Missing, Count
    <3>2. key[2] = d => key \in RoomTypes \X {d}
      BY <3>1 DEF Keys
    <3>3. key[2] = d \/ key \in straddled \cup failed => key \in straddled' \cup failed'
      BY <1>1, <2>2, <2>6, <3>2, DeleteLeaves DEF Inv
    <3>4. key[2] # d => (key[2] \in evicting'[x] <=> key[2] \in evicting[x])
      BY <2>1, <3>1 DEF Inv, TypeOK
    <3> QED  BY <1>2, <1>4, <2>3, <3>1, <3>3, <3>4 DEF Caused, CreationDeletes, Deleted, Holds
  <2> QED  BY <1>3, <2>4, <2>5, <2>6 DEF Inv, Accounted
<1>7. ASSUME NEW out \in Keys, Expire(out)
      PROVE  Inv'
  <2>1. Delete({}, {out}) /\ UNCHANGED <<deleting, evicting>>
    BY <1>7 DEF Expire
  <2>2. TypeOK'
    BY <1>1, <1>3, <2>1, DeleteLeaves DEF Inv, TypeOK
  <2>3. WireIsFresh'
    BY <1>1, <1>2, <2>1 DEF Inv, WireIsFresh, Fresh, Announced, Holds, StayNights
  <2>4. ASSUME NEW key \in DOMAIN cache', NEW x \in Missing(key)'
        PROVE  Caused(key, x)' /\ CreationDeletes(key, x)'
    <3>1. /\ Caused(key, x) /\ CreationDeletes(key, x)
          /\ key \in straddled \cup failed => key \in straddled' \cup failed'
      BY <1>1, <2>1, <2>4, DeleteLeaves DEF Inv, Accounted
    <3> QED  BY <1>2, <1>4, <2>1, <3>1 DEF Caused, CreationDeletes, Deleted, Holds
  <2> QED  BY <1>3, <2>2, <2>3, <2>4 DEF Inv, Accounted
<1> QED  BY <1>5, <1>6, <1>7

\* After a flush, whatever is left is what Redis failed to delete.
LEMMA FlushKeepsInv ==
  ASSUME Inv, Flush
  PROVE  Inv'
<1>1. /\ ListenerActions /\ UNCHANGED <<wire, handling, payload>>
      /\ UNCHANGED <<committed, reader, deleting, evicting, unheard>>
  BY DEF Flush, ListenerActions, OnReconnectFlush
<1>2. ListenerTypeOK' /\ WireOK' /\ StopOK'
  BY <1>1, ListenerTyped, ListenerGuards DEF Inv, TypeOK
<1>3. PICK gone : Delete(DOMAIN cache, gone)
  BY DEF Flush
<1>4. TypeOK'
  BY <1>1, <1>2, <1>3, DeleteLeaves DEF Inv, TypeOK
<1>5. WireIsFresh'
  BY <1>1 DEF Inv, WireIsFresh, Fresh, Announced, Holds, StayNights
<1>6. ASSUME NEW key \in DOMAIN cache', NEW x \in Missing(key)'
      PROVE  Caused(key, x)' /\ CreationDeletes(key, x)'
  BY <1>1, <1>3, <1>6, DeleteLeaves DEF Inv, Caused, CreationDeletes
<1> QED  BY <1>2, <1>4, <1>5, <1>6 DEF Inv, Accounted

\* A handler returns only when it has evicted every night of a change it could
\* parse.
LEMMA HandlerKeepsInv ==
  ASSUME Inv, NEW k \in Changes, OnReservationChange(k)
  PROVE  Inv'
<1>1. /\ Handled("cache", k) /\ ListenerActions /\ UNCHANGED cacheVars
      /\ UNCHANGED <<link, isReconnect, session, wire, cancelled, payload>>
      /\ \A x : [handler |-> "cache", change |-> x] \in handling' <=>
                  x # k /\ [handler |-> "cache", change |-> x] \in handling
  BY CacheAssumption DEF OnReservationChange, Handled, ListenerActions
<1>2. TypeOK' /\ WireOK' /\ StopOK'
  BY <1>1, ListenerTyped, ListenerGuards DEF Inv, TypeOK, cacheVars
<1>3. /\ UNCHANGED <<cache, committed, deleting, evicting, straddled, failed, unheard>>
      /\ \A key : Missing(key)' = Missing(key)
  BY <1>1 DEF cacheVars, Missing, Count, Touched
<1>4. WireIsFresh'
  BY <1>1, <1>3 DEF Inv, WireIsFresh, Fresh, Announced, Holds, StayNights
<1>5. FlushComing' = FlushComing /\ \A key, x : Unannounced(key, x)' = Unannounced(key, x)
  BY <1>1, <1>3 DEF FlushComing, Unannounced, Deleted
<1>6. ASSUME NEW key \in DOMAIN cache', NEW x \in Missing(key)'
      PROVE  Caused(key, x)' /\ CreationDeletes(key, x)'
  <2>1. Caused(key, x) /\ CreationDeletes(key, x)
    BY <1>3, <1>6 DEF Inv, Accounted
  <2>2. payload[k] = "row" => key[2] \notin evicting[k]
    BY DEF OnReservationChange
  <2> QED  BY <1>1, <1>3, <1>5, <2>1, <2>2 DEF Caused, CreationDeletes, Deleted, Holds
<1> QED  BY <1>2, <1>4, <1>6 DEF Inv, Accounted

-----------------------------------------------------------------------------
(* Changes, readers and restarts.                                          *)

\* A change that commits is on the wire, or a flush is to come, or its request
\* deletes the key, or nobody ever will.
LEMMA CommitKeepsInv ==
  ASSUME Inv, NEW k \in Changes, NEW p \in Payloads, Commit(k, p)
  PROVE  Inv'
<1>1. /\ Announce(k, p) /\ ListenerActions /\ ~Announced(k) /\ wire \in Seq(Changes)
      /\ UNCHANGED <<link, isReconnect, session, handling, cancelled>>
      /\ UNCHANGED <<cache, reader, evicting, straddled, failed>>
      /\ committed' = committed \cup {k} /\ unheard \subseteq unheard'
  BY DEF Commit, Announce, ListenerActions, Inv, TypeOK, ListenerTypeOK
<1>2. ListenerTypeOK' /\ WireOK' /\ StopOK'
  BY <1>1, ListenerTyped, ListenerGuards DEF Inv, TypeOK
<1>3. /\ \A x \in Changes : x # k => payload'[x] = payload[x]
      /\ payload'[k] = p /\ Announced(k)'
  BY <1>1, PayloadsAssumption DEF Announce, Announced, Inv, TypeOK, ListenerTypeOK
<1>4. ~Holds(wire, k) /\ k \notin committed /\ Fresh(k) /\ Once(wire)
  BY <1>1 DEF Inv, WireIsFresh
<1>5. /\ \A x : Holds(wire, x) => Holds(wire', x)
      /\ \A x : Holds(wire', x) => x = k \/ Holds(wire, x)
      /\ session /\ link \in Subscribed => Holds(wire', k)
      /\ Once(wire')
  BY <1>1, <1>4, AppendHolds, AppendOnce DEF Announce
<1>6. deleting' = [deleting EXCEPT ![k] = IF k \in Creates THEN Deleted(k) ELSE {}]
  BY DEF Commit
<1>7. TypeOK'
  <2>1. deleting' \in [Changes -> SUBSET Keys]
    BY <1>6, KeysOfChange DEF Inv, TypeOK
  <2>2. unheard' \subseteq Changes
    BY DEF Commit, Inv, TypeOK
  <2> QED  BY <1>1, <1>2, <2>1, <2>2 DEF Inv, TypeOK
<1>8. WireIsFresh'
  <2>1. \A x : Fresh(x)' = Fresh(x)
    BY <1>1 DEF Fresh, StayNights
  <2>2. \A x \in Changes : x # k => Announced(x)' = Announced(x)
    BY <1>3 DEF Announced
  <2> QED  BY <1>1, <1>3, <1>4, <1>5, <2>1, <2>2 DEF Inv, WireIsFresh
<1>9. ASSUME NEW key \in DOMAIN cache', NEW x \in Missing(key)'
      PROVE  Caused(key, x)' /\ CreationDeletes(key, x)'
  <2>0. x \in Changes /\ FlushComing' = FlushComing
    BY <1>1, <1>9 DEF Missing, Count, Inv, TypeOK, FlushComing
  <2>1. CASE x # k
    <3>1. x \in Missing(key) /\ key \in DOMAIN cache
      BY <1>1, <1>9, <2>1 DEF Missing, Count, Touched
    <3>2. Caused(key, x) /\ CreationDeletes(key, x)
      BY <3>1 DEF Inv, Accounted
    <3>3. deleting'[x] = deleting[x] /\ payload'[x] = payload[x]
      BY <1>3, <1>6, <2>0, <2>1 DEF Inv, TypeOK
    <3>4. Unannounced(key, x) => Unannounced(key, x)'
      BY <1>1, <3>3 DEF Unannounced, Deleted
    <3> QED  BY <1>1, <1>5, <2>0, <3>2, <3>3, <3>4 DEF Caused, CreationDeletes, Deleted
  <2>2. CASE x = k
    <3>1. k \in Creates /\ key \in Deleted(k) => key \in deleting'[k]
      BY <1>6 DEF Inv, TypeOK
    <3>2. CASE k \in Creates /\ key \in Deleted(k)
      BY <2>2, <3>1, <3>2 DEF Caused, CreationDeletes, Deleted
    <3>3. CASE ~(k \in Creates /\ key \in Deleted(k))
      <4>1. CASE p # "row"
        BY <1>3, <2>2, <3>3, <4>1 DEF Caused, CreationDeletes, Unannounced, Deleted
      <4>2. CASE p = "row" /\ session /\ link \in Subscribed
        BY <1>3, <1>5, <2>2, <3>3, <4>2 DEF Caused, CreationDeletes, Deleted
      <4>3. CASE (link \in Subscribed /\ ~session) \/ (link \in {"down", "connected"} /\ isReconnect)
        BY <2>0, <2>2, <3>3, <4>3 DEF Caused, CreationDeletes, Deleted, FlushComing, Subscribed
      <4>4. CASE link \in {"down", "connected"} /\ ~isReconnect
        BY <2>2, <3>3, <4>4 DEF Commit, Caused, CreationDeletes, Unannounced, Deleted
      <4>5. CASE link = "returned"
        BY <1>1, <2>2, <3>3, <4>5 DEF Inv, StopOK, Caused, CreationDeletes, Deleted
      <4> QED  BY <4>1, <4>2, <4>3, <4>4, <4>5 DEF Inv, TypeOK, ListenerTypeOK, Links, Subscribed
    <3> QED  BY <3>2, <3>3
  <2> QED  BY <2>1, <2>2
<1> QED  BY <1>2, <1>7, <1>8, <1>9 DEF Inv, Accounted

\* A reader stores the count of the ledger, or the key is known to be stored
\* with another.
LEMMA ReaderKeepsInv ==
  ASSUME Inv, NEW r \in Readers,
         \/ QueryLedger(r) \/ Fill(r)
         \/ \E t \in RoomTypes, a, d \in Days : MGet(r, t, a, d + 1)
  PROVE  Inv'
<1>1. UNCHANGED <<listenerVars, committed, deleting, evicting, unheard>>
  BY DEF QueryLedger, Fill, MGet
<1>2. UNCHANGED <<link, isReconnect, session, wire, handling, cancelled, stopped, payload>>
  BY <1>1 DEF listenerVars
<1>3. ListenerTypeOK' /\ WireOK' /\ StopOK'
  BY <1>2 DEF Inv, TypeOK, ListenerTypeOK, WireOK, StopOK
<1>4. WireIsFresh'
  BY <1>1, <1>2 DEF Inv, WireIsFresh, Fresh, Announced, Holds, StayNights
<1>5. FlushComing' = FlushComing /\ \A key, x : Unannounced(key, x)' = Unannounced(key, x)
  BY <1>1, <1>2 DEF FlushComing, Unannounced, Deleted
<1> DEFINE Place == [at : {"idle", "missed", "counted"}, missing : SUBSET Keys,
                     unread : SUBSET Keys, counted : SUBSET Changes]
<1>6. reader[r] \in Place /\ Idle \in Place /\ committed \subseteq Changes
  BY DEF Inv, TypeOK, Idle
<1>7. reader' \in [Readers -> Place]
  <2>1. CASE QueryLedger(r)
    <3>1. CASE reader' = [reader EXCEPT ![r] = Idle]
      BY <1>6, <3>1 DEF Inv, TypeOK
    <3>2. ASSUME NEW n,
                 reader' = [reader EXCEPT ![r].at = "counted", ![r].counted = committed,
                                          ![r].unread = {key \in reader[r].missing : key[2] >= n}]
          PROVE  reader' \in [Readers -> Place]
      <4> DEFINE unread == {key \in reader[r].missing : key[2] >= n}
                 new    == [reader[r] EXCEPT !.at = "counted", !.counted = committed, !.unread = unread]
      <4>1. unread \subseteq Keys
        BY <1>6
      <4> HIDE DEF unread
      <4>2. new \in Place
        BY <1>6, <4>1
      <4>3. reader' = [reader EXCEPT ![r] = new]
        BY <3>2 DEF Inv, TypeOK, unread
      <4> HIDE DEF new
      <4> QED  BY <4>2, <4>3 DEF Inv, TypeOK
    <3> QED  BY <2>1, <3>1, <3>2 DEF QueryLedger
  <2>2. CASE Fill(r)
    BY <1>6, <2>2 DEF Fill, Inv, TypeOK
  <2>3. ASSUME NEW t \in RoomTypes, NEW a \in Days, NEW d \in Days, MGet(r, t, a, d + 1)
        PROVE  reader' \in [Readers -> Place]
    <3> DEFINE missing == ({t} \X NightsBetween(a, d + 1)) \ DOMAIN cache
    <3>1. missing \subseteq Keys
      BY NightsAreDays DEF Keys
    <3>2. [Idle EXCEPT !.at = "missed", !.missing = missing] \in Place
      BY <3>1 DEF Idle
    <3> HIDE DEF Place
    <3> QED  BY <2>3, <3>2 DEF MGet, Inv, TypeOK, Place
  <2> QED  BY <2>1, <2>2, <2>3
<1>8. CASE UNCHANGED <<cache, straddled, failed>>
  <2>1. TypeOK'
    BY <1>1, <1>3, <1>7, <1>8 DEF Inv, TypeOK
  <2>2. \A key : Missing(key)' = Missing(key)
    BY <1>1, <1>8 DEF Missing, Count, Touched
  <2>3. Accounted'
    BY <1>1, <1>2, <1>5, <1>8, <2>2 DEF Inv, Accounted, Caused, CreationDeletes, Deleted, Holds
  <2> QED  BY <1>3, <1>4, <2>1, <2>3 DEF Inv
<1>9. CASE Fill(r)
  <2>1. PICK stored \in SUBSET reader[r].missing :
          /\ cache' = [key \in DOMAIN cache \cup stored |->
                        IF key \in stored THEN Stored(r, key) ELSE cache[key]]
          /\ straddled' = (straddled \ stored)
                            \cup {key \in stored : Stored(r, key) # Count(key, committed)}
          /\ failed' = failed \ stored
    BY <1>9 DEF Fill
  <2>2. stored \subseteq Keys /\ \A key : Stored(r, key) \in (SUBSET Changes) \cup {Zero}
    BY <1>6, <2>1 DEF Stored, Count
  <2>3. TypeOK'
    <3>1. DOMAIN cache' \subseteq Keys /\ Range(cache') \subseteq (SUBSET Changes) \cup {Zero}
      BY <2>1, <2>2 DEF Inv, TypeOK, Range
    <3>2. straddled' \subseteq DOMAIN cache' /\ failed' \subseteq DOMAIN cache'
      BY <2>1 DEF Inv, TypeOK
    <3> QED  BY <1>1, <1>3, <1>7, <3>1, <3>2 DEF Inv, TypeOK
  <2>4. ASSUME NEW key \in DOMAIN cache', NEW x \in Missing(key)'
        PROVE  Caused(key, x)' /\ CreationDeletes(key, x)'
    <3>1. CASE key \in stored
      <4>1. x \in Count(key, committed) /\ x \notin Stored(r, key)
        BY <1>1, <2>1, <2>4, <3>1 DEF Missing, Count, Touched
      <4>2. key \in straddled'
        BY <2>1, <3>1, <4>1
      <4> QED  BY <4>2 DEF Caused, CreationDeletes
    <3>2. CASE key \notin stored
      <4>1. key \in DOMAIN cache /\ x \in Missing(key)
        BY <1>1, <2>1, <2>4, <3>2 DEF Missing, Count, Touched
      <4>2. key \in straddled \cup failed => key \in straddled' \cup failed'
        BY <2>1, <3>2
      <4>3. Caused(key, x) /\ CreationDeletes(key, x)
        BY <4>1 DEF Inv, Accounted
      <4> QED  BY <1>1, <1>2, <1>5, <4>2, <4>3 DEF Caused, CreationDeletes, Deleted, Holds
    <3> QED  BY <3>1, <3>2
  <2> QED  BY <1>3, <1>4, <2>3, <2>4 DEF Inv, Accounted
<1> QED  BY <1>8, <1>9 DEF QueryLedger, MGet

\* A restart forgets what was under way; the keys that a creation had still to
\* delete are then like those that Redis failed to delete.
LEMMA RestartKeepsInv ==
  ASSUME Inv, Restart
  PROVE  Inv'
<1>1. /\ wire' = <<>> /\ handling' = {} /\ link' = "down" /\ ~stopped' /\ UNCHANGED payload
      /\ UNCHANGED <<cache, committed, straddled>> /\ unheard' = committed
      /\ failed' = failed \cup ((UNION Range(deleting)) \cap DOMAIN cache)
  BY DEF Restart, Restarted
<1>2. ListenerTypeOK'
  <2>1. <<>> \in Seq(Changes)
    BY EmptySeq
  <2> QED  BY <2>1 DEF Restart, Restarted, Inv, TypeOK, ListenerTypeOK, Links
<1>3. WireOK' /\ StopOK'
  BY <1>1 DEF WireOK, StopOK
<1>4. TypeOK'
  <2>1. reader' \in [Readers -> [at : {"idle", "missed", "counted"}, missing : SUBSET Keys,
                                 unread : SUBSET Keys, counted : SUBSET Changes]]
    BY DEF Restart, Idle
  <2>2. deleting' \in [Changes -> SUBSET Keys] /\ evicting' \in [Changes -> SUBSET Days]
    BY KeysOfChange DEF Restart
  <2> QED  BY <1>1, <1>2, <2>1, <2>2 DEF Inv, TypeOK
<1>5. WireIsFresh'
  <2>1. \A x \in Changes : Fresh(x)'
    BY <1>1 DEF Restart, Fresh, StayNights
  <2> QED  BY <1>1, <2>1 DEF Inv, WireIsFresh, Announced, Once, Holds
<1>6. ASSUME NEW key \in DOMAIN cache', NEW x \in Missing(key)'
      PROVE  Caused(key, x)' /\ CreationDeletes(key, x)'
  <2>1. key \in DOMAIN cache /\ x \in Missing(key) /\ x \in committed /\ x \in Changes
    BY <1>1, <1>6 DEF Missing, Count, Touched, Inv, TypeOK
  <2>2. CreationDeletes(key, x)
    BY <2>1 DEF Inv, Accounted
  <2>3. key \in deleting[x] => key \in failed'
    BY <1>1, <2>1 DEF Inv, TypeOK, Range
  <2>4. x \in Creates /\ key \in Deleted(x) => key \in straddled' \cup failed'
    BY <1>1, <2>2, <2>3 DEF CreationDeletes
  <2> QED  BY <1>1, <2>1, <2>4 DEF Caused, CreationDeletes, Unannounced, Deleted
<1> QED  BY <1>3, <1>4, <1>5, <1>6 DEF Inv, Accounted

-----------------------------------------------------------------------------
\* An empty cache is not stale.
LEMMA InvInit == Init => Inv
<1> SUFFICES ASSUME Init PROVE Inv
  OBVIOUS
<1>1. <<>> \in Seq(Changes) /\ DOMAIN <<>> = {}
  BY EmptySeq
<1>2. ListenerTypeOK /\ WireOK /\ StopOK
  BY <1>1 DEF Init, ListenerInit, ListenerTypeOK, WireOK, StopOK, Links
<1>3. TypeOK
  <2>1. reader \in [Readers -> [at : {"idle", "missed", "counted"}, missing : SUBSET Keys,
                                unread : SUBSET Keys, counted : SUBSET Changes]]
    BY DEF Init, Idle
  <2>2. deleting \in [Changes -> SUBSET Keys] /\ evicting \in [Changes -> SUBSET Days]
    BY KeysOfChange DEF Init
  <2>3. DOMAIN cache = {} /\ Range(cache) = {}
    BY <1>1 DEF Init, Range
  <2> QED  BY <1>2, <2>1, <2>2, <2>3 DEF Init, TypeOK
<1>4. WireIsFresh
  BY <1>1 DEF Init, ListenerInit, WireIsFresh, Once, Holds, Fresh, Announced
<1>5. Accounted
  BY <1>1 DEF Init, Accounted
<1> QED  BY <1>2, <1>3, <1>4, <1>5 DEF Inv

\* Every step of the listener, Redis, the readers, the database and a crash
\* keeps the invariant.
LEMMA InvStep == Inv /\ [Next]_vars => Inv'
<1> SUFFICES ASSUME Inv, [Next]_vars PROVE Inv'
  OBVIOUS
<1>1. CASE UNCHANGED vars
  <2>1. /\ UNCHANGED <<link, isReconnect, session, wire, handling, cancelled, stopped, payload>>
        /\ UNCHANGED <<cache, committed, reader, deleting, evicting, straddled, failed, unheard>>
    BY <1>1 DEF vars, listenerVars, cacheVars
  <2>2. TypeOK' /\ WireOK' /\ StopOK'
    BY <2>1 DEF Inv, TypeOK, ListenerTypeOK, WireOK, StopOK
  <2>3. WireIsFresh'
    BY <2>1 DEF Inv, WireIsFresh, Fresh, Announced, Once, Holds, StayNights
  <2>4. ASSUME NEW key \in DOMAIN cache, NEW k \in Missing(key)'
        PROVE  Caused(key, k)' /\ CreationDeletes(key, k)'
    <3>1. k \in Missing(key)
      BY <2>1 DEF Missing, Count, Touched
    <3>2. Caused(key, k) /\ CreationDeletes(key, k)
      BY <3>1 DEF Inv, Accounted
    <3>3. Caused(key, k)'
      BY <2>1, <3>2 DEF Caused, Unannounced, FlushComing, Holds
    <3>4. CreationDeletes(key, k)'
      BY <2>1, <3>2 DEF CreationDeletes, Deleted
    <3> QED  BY <3>3, <3>4
  <2>5. Accounted'
    BY <2>1, <2>4 DEF Accounted
  <2> QED  BY <2>2, <2>3, <2>5 DEF Inv
<1>2. CASE ListenerStep \/ Flush \/ Restart
  BY <1>2, ListenerKeepsInv, FlushKeepsInv, RestartKeepsInv
<1>3. CASE \/ \E k \in Changes : InvalidateAfterCreate(k) \/ EvictNight(k)
           \/ \E key \in Keys : Expire(key)
  BY <1>3, DeletionKeepsInv
<1>4. ASSUME NEW k \in Changes, OnReservationChange(k)
      PROVE  Inv'
  BY <1>4, HandlerKeepsInv
<1>5. ASSUME NEW k \in Changes, NEW p \in Payloads, Commit(k, p)
      PROVE  Inv'
  BY <1>5, CommitKeepsInv
<1>6. ASSUME NEW r \in Readers,
             \/ QueryLedger(r) \/ Fill(r)
             \/ \E t \in RoomTypes, a, d \in Days : MGet(r, t, a, d + 1)
      PROVE  Inv'
  BY <1>6, ReaderKeepsInv
<1> QED  BY <1>1, <1>2, <1>3, <1>4, <1>5, <1>6 DEF Next

\* A cached count that leaves out a committed change is about to be dropped, or
\* has one of the named causes: whatever commits, fills, notifications,
\* disconnects, failing deletions and restarts happen, and in whatever order.
THEOREM StaleCountsAreAccounted == Spec => [](TypeOK /\ StaleHasCause)
<1>1. Inv => TypeOK /\ StaleHasCause
  BY DEF Inv, Accounted, Caused, Holds, StaleHasCause
<1> QED  BY <1>1, InvInit, InvStep, PTL DEF Spec
=============================================================================
