------------------------- MODULE IdempotencyProofs -------------------------
(***************************************************************************)
(* A replayed response is the right one, it stays, and requests that met   *)
(* no fault take effect once per key: for any number of requests and keys  *)
(* and whichever faults occur.                                             *)
(***************************************************************************)
EXTENDS Idempotency, TLAPS

\* What a completed record in Redis stands for.  ReplayIsFaithful alone is not
\* inductive: it says nothing of the record that is replayed next.
CompletedIsEffect ==
  \A k \in Keys : records[k].state = "completed" =>
    /\ records[k].owner \in effects
    /\ Key[records[k].owner] = k
    /\ records[k].fingerprint = Fingerprint[records[k].owner]

Inv == TypeOK /\ CompletedIsEffect /\ ReplayIsFaithful

\* The records the middleware stores and the replies it makes are well formed.
LEMMA RecordTypes ==
  ASSUME NEW r \in Requests
  PROVE  /\ NoRecord \in Record /\ Processing(r) \in Record /\ Completed(r) \in Record
         /\ NoRecord.state # "completed" /\ Processing(r).state # "completed"
         /\ Completed(r).owner = r /\ Completed(r).fingerprint = Fingerprint[r]
BY IdempotencyAssumption DEF NoRecord, Processing, Completed, Record

\* A record with a fingerprint has an owner.
LEMMA RecordOwner ==
  ASSUME NEW x \in Record, x.state # "none"
  PROVE  x.owner \in Requests
BY DEF Record

\* Meeting a fault that is possible keeps the type of met.
LEMMA MeetsType ==
  ASSUME TypeOK, NEW r \in Requests, NEW f \in Faults, Meets(r, f)
  PROVE  met' \in [Requests -> SUBSET Faults]
BY DEF TypeOK, Meets

\* Nothing is stored or answered at the start.
LEMMA InvInit == Init => Inv
<1> SUFFICES ASSUME Init PROVE Inv
  OBVIOUS
<1>1. NoRecord \in Record /\ NoRecord.state # "completed"
  BY DEF NoRecord, Record
<1> QED  BY <1>1 DEF Init, Inv, TypeOK, Steps, CompletedIsEffect, ReplayIsFaithful

\* Every step of the middleware keeps the invariant, and every fault it may meet.
LEMMA InvStep == Inv /\ [Next]_vars => Inv'
<1> SUFFICES ASSUME Inv, [Next]_vars PROVE Inv'
  OBVIOUS
<1> USE IdempotencyAssumption DEF Inv
<1>1. ASSUME NEW r \in Requests, Reserve(r) \/ FailOpen(r)
      PROVE  Inv'
  <2>1. met' \in [Requests -> SUBSET Faults]
    BY <1>1, MeetsType DEF Reserve, FailOpen, TypeOK
  <2>2. /\ pc' \in [Requests -> Steps] /\ UNCHANGED <<effects, answer>>
        /\ records' = records \/ Put(r, Processing(r))
    BY <1>1 DEF Reserve, FailOpen, Go, TypeOK, Steps
  <2> QED  BY <2>1, <2>2, RecordTypes
           DEF Put, TypeOK, CompletedIsEffect, ReplayIsFaithful
<1>2. ASSUME NEW r \in Requests, CheckExisting(r)
      PROVE  Inv'
  <2>1. CASE /\ record(r).state = "none"
             /\ Put(r, Processing(r)) /\ Go(r, "executing") /\ UNCHANGED answer
    BY <1>2, <2>1, RecordTypes
       DEF CheckExisting, Put, Go, TypeOK, Steps, CompletedIsEffect, ReplayIsFaithful
  <2>2. CASE /\ record(r).state = "completed" /\ record(r).fingerprint = Fingerprint[r]
             /\ Go(r, "done") /\ answer' = [answer EXCEPT ![r] = record(r).owner]
             /\ UNCHANGED records
    <3>1. /\ record(r).owner \in effects /\ record(r).owner \in Requests
          /\ Key[record(r).owner] = Key[r]
          /\ Fingerprint[record(r).owner] = Fingerprint[r]
      BY <2>2, RecordOwner DEF record, CompletedIsEffect, TypeOK
    <3> QED  BY <1>2, <2>2, <3>1
             DEF CheckExisting, Go, TypeOK, Steps, CompletedIsEffect, ReplayIsFaithful
  <2>3. CASE \E to \in {"done", "polling"} : Go(r, to) /\ UNCHANGED <<records, answer>>
    BY <1>2, <2>3
       DEF CheckExisting, Go, TypeOK, Steps, CompletedIsEffect, ReplayIsFaithful
  <2> QED  BY <1>2, <2>1, <2>2, <2>3 DEF CheckExisting
<1>3. ASSUME NEW r \in Requests, WaitExpires(r) \/ StopWaiting(r) \/ CachingFails(r)
      PROVE  Inv'
  <2>1. met' \in [Requests -> SUBSET Faults]
    BY <1>3, MeetsType DEF WaitExpires, StopWaiting, CachingFails, TypeOK
  <2>2. pc' \in [Requests -> Steps] /\ UNCHANGED <<records, effects, answer>>
    BY <1>3 DEF WaitExpires, StopWaiting, CachingFails, Go, TypeOK, Steps
  <2> QED  BY <2>1, <2>2 DEF TypeOK, CompletedIsEffect, ReplayIsFaithful
<1>4. ASSUME NEW r \in Requests, ServeHTTP(r)
      PROVE  Inv'
  <2>1. /\ pc' \in [Requests -> Steps]
        /\ effects \subseteq effects' /\ effects' \subseteq Requests
        /\ answer' = answer \/ answer' = [answer EXCEPT ![r] = r]
        /\ UNCHANGED <<records, met>>
    BY <1>4 DEF ServeHTTP, Go, TypeOK, Steps
  <2> QED  BY <2>1 DEF TypeOK, CompletedIsEffect, ReplayIsFaithful
<1>5. ASSUME NEW r \in Requests, CacheResponse(r)
      PROVE  Inv'
  BY <1>5, RecordTypes
     DEF CacheResponse, Put, Go, TypeOK, Steps, CompletedIsEffect, ReplayIsFaithful
<1>6. ASSUME NEW r \in Requests, Disconnect(r)
      PROVE  Inv'
  BY <1>6, MeetsType DEF Disconnect, TypeOK, CompletedIsEffect, ReplayIsFaithful
<1>7. ASSUME NEW k \in Keys, LockExpires(k)
      PROVE  Inv'
  <2>1. NoRecord \in Record /\ NoRecord.state # "completed"
    BY DEF NoRecord, Record
  <2>2. records[k].owner \in Requests
    BY <1>7, RecordOwner DEF LockExpires, TypeOK
  <2>3. met' \in [Requests -> SUBSET Faults]
    BY <1>7, <2>2, MeetsType DEF LockExpires, TypeOK
  <2> QED  BY <1>7, <2>1, <2>3 DEF LockExpires, TypeOK, CompletedIsEffect, ReplayIsFaithful
<1>8. CASE Crash
  BY <1>8 DEF Crash, TypeOK, Steps, CompletedIsEffect, ReplayIsFaithful
<1>9. CASE UNCHANGED vars
  BY <1>9 DEF vars, TypeOK, CompletedIsEffect, ReplayIsFaithful
<1> QED  BY <1>1, <1>2, <1>3, <1>4, <1>5, <1>6, <1>7, <1>8, <1>9 DEF Next, Handle

\* replayCachedResponse answers a request only with the 2xx response of a
\* request with its key and its fingerprint, in spite of Redis errors, clients
\* that hang up, crashes and handlers that outlive the lock.
THEOREM ReplayCorrect == Spec => []ReplayIsFaithful
<1>1. Inv => ReplayIsFaithful
  BY DEF Inv
<1> QED  BY <1>1, InvInit, InvStep, PTL DEF Spec

-----------------------------------------------------------------------------
(* One effect per key.                                                     *)

\* While no handler for its key outlives its lock, a request that runs its
\* handler under the protocol holds the lock, and one that took effect without
\* meeting a fault has its response cached when it is done.
RequestOK(r) ==
  /\ pc[r] \in {"executing", "caching"} => record(r) = Processing(r) \/ Overrun(Key[r])
  /\ pc[r] = "open" => met[r] # {}
  /\ r \in effects =>
       /\ pc[r] \in {"caching", "done"}
       /\ pc[r] = "done" /\ met[r] = {} => record(r) = Completed(r) \/ Overrun(Key[r])

LockInv == Inv /\ \A r \in Requests : RequestOK(r)

\* A record names its owner.
LEMMA RecordsDiffer ==
  ASSUME NEW r \in Requests, NEW q \in Requests
  PROVE  /\ Processing(r) # Completed(q) /\ NoRecord # Processing(r) /\ NoRecord # Completed(r)
         /\ Processing(r) = Processing(q) => r = q
         /\ Completed(r) = Completed(q) => r = q
         /\ Processing(r).state = "processing" /\ Completed(r).state = "completed"
         /\ NoRecord.state = "none" /\ Processing(r).owner = r
BY DEF NoRecord, Processing, Completed

\* No fault is forgotten.
LEMMA MetGrows ==
  ASSUME Inv, Next
  PROVE  \A r \in Requests : met[r] \subseteq met'[r]
<1>1. ASSUME NEW q \in Requests, NEW f, Meets(q, f)
      PROVE  \A r \in Requests : met[r] \subseteq met'[r]
  BY <1>1 DEF Meets, Inv, TypeOK
<1>2. ASSUME NEW q \in Requests, Handle(q) \/ Disconnect(q)
      PROVE  UNCHANGED met \/ \E f \in {"redis", "disconnect"} : Meets(q, f)
  BY <1>2 DEF Handle, Reserve, CheckExisting, WaitExpires, StopWaiting, FailOpen, ServeHTTP,
              CacheResponse, CachingFails, Disconnect
<1>3. ASSUME NEW k \in Keys, LockExpires(k)
      PROVE  UNCHANGED met \/ \E q \in Requests : Meets(q, "slow")
  BY <1>3, RecordOwner DEF LockExpires, Inv, TypeOK
<1>4. CASE Crash
  BY <1>4 DEF Crash, Busy
<1> QED  BY <1>1, <1>2, <1>3, <1>4 DEF Next

\* Once a handler for a key has outlived its lock, that stays so.
LEMMA OverrunStays ==
  ASSUME \A r \in Requests : met[r] \subseteq met'[r], NEW k, Overrun(k)
  PROVE  Overrun(k)'
BY DEF Overrun

\* A request that does not move is disturbed by no step that leaves its record
\* alone or changes a record that is another's.
LEMMA OthersKeep ==
  ASSUME LockInv, \A r \in Requests : met[r] \subseteq met'[r], NEW q \in Requests,
         pc'[q] = pc[q], q \in effects' => q \in effects,
         \/ record(q)' = record(q)
         \/ record(q) \notin {Processing(q), Completed(q)}
         \/ Overrun(Key[q])'
  PROVE  RequestOK(q)'
<1>1. Overrun(Key[q]) => Overrun(Key[q])'
  BY OverrunStays
<1>2. met'[q] = {} => met[q] = {}
  OBVIOUS
<1>3. UNCHANGED <<Processing(q), Completed(q)>>
  BY DEF Processing, Completed
<1> QED  BY <1>1, <1>2, <1>3 DEF LockInv, RequestOK

\* At the start nobody has a lock.
LEMMA LockInit == Init => LockInv
<1>1. Init => \A r \in Requests : RequestOK(r)
  BY DEF Init, RequestOK
<1> QED  BY <1>1, InvInit DEF LockInv

\* A request that takes a free key disturbs no other, in spite of the requests
\* that ran with the key before.
LEMMA LockStep == LockInv /\ [Next]_vars => LockInv'
<1> SUFFICES ASSUME LockInv, [Next]_vars PROVE LockInv'
  OBVIOUS
<1>1. Inv /\ Inv'
  BY InvStep DEF LockInv
<1>2. CASE UNCHANGED vars
  <2>1. ASSUME NEW r \in Requests
        PROVE  RequestOK(r)'
    BY <1>2 DEF vars, LockInv, RequestOK, record, Processing, Completed, Overrun
  <2> QED  BY <1>1, <2>1 DEF LockInv
<1>3. ASSUME Next, NEW q \in Requests
      PROVE  RequestOK(q)'
  <2>1. \A r \in Requests : met[r] \subseteq met'[r]
    BY <1>1, <1>3, MetGrows
  <2>2. Overrun(Key[q]) => Overrun(Key[q])'
    BY <2>1, OverrunStays
  <2>3. UNCHANGED <<Processing(q), Completed(q)>>
    BY DEF Processing, Completed
  <2> USE IdempotencyAssumption
  \* The request itself takes a step.
  <2>4. CASE Handle(q) \/ Disconnect(q)
    <3>1. CASE Reserve(q) \/ CheckExisting(q)
      <4>1. /\ pc[q] \in {"new", "waiting", "polling"} /\ effects' = effects
            /\ \/ pc'[q] = "executing" /\ record(q)' = Processing(q)
               \/ pc'[q] \in {"waiting", "polling"}
               \/ pc'[q] = "done"
        BY <1>1, <3>1 DEF Reserve, CheckExisting, Put, Go, record, Inv, TypeOK
      <4>2. q \notin effects
        BY <4>1 DEF LockInv, RequestOK
      <4> QED  BY <2>3, <4>1, <4>2 DEF RequestOK
    <3>2. CASE WaitExpires(q) \/ StopWaiting(q)
      BY <1>1, <3>2 DEF WaitExpires, StopWaiting, Go, Inv, TypeOK, LockInv, RequestOK
    <3>3. CASE FailOpen(q)
      <4>1. pc[q] \in {"new", "waiting", "polling"} /\ pc'[q] = "open" /\ effects' = effects
        BY <1>1, <3>3 DEF FailOpen, Go, Inv, TypeOK
      <4>2. met'[q] # {}
        <5>1. CASE Gone(q)
          BY <2>1, <5>1 DEF Gone
        <5>2. CASE Meets(q, "redis")
          BY <1>1, <5>2 DEF Meets, Inv, TypeOK
        <5> QED  BY <3>3, <5>1, <5>2 DEF FailOpen
      <4> QED  BY <4>1, <4>2 DEF LockInv, RequestOK
    <3>4. CASE ServeHTTP(q)
      <4>1. /\ pc[q] \in {"executing", "open"} /\ UNCHANGED <<records, met>>
            /\ pc'[q] = IF pc[q] = "open" THEN "done" ELSE "caching"
        BY <1>1, <3>4 DEF ServeHTTP, Go, Inv, TypeOK
      <4> QED  BY <2>2, <2>3, <4>1 DEF LockInv, RequestOK, record
    <3>5. CASE CacheResponse(q)
      <4>1. /\ effects' = effects /\ pc'[q] = "done"
            /\ record(q)' = IF q \in effects THEN Completed(q) ELSE NoRecord
        BY <1>1, <3>5 DEF CacheResponse, Put, Go, record, Inv, TypeOK
      <4> QED  BY <2>3, <4>1 DEF RequestOK
    <3>6. CASE CachingFails(q)
      <4>1. effects' = effects /\ pc'[q] = "done"
        BY <1>1, <3>6 DEF CachingFails, Go, Inv, TypeOK
      <4>2. CASE Gone(q)
        BY <2>1, <4>1, <4>2 DEF Gone, RequestOK
      <4>3. CASE Meets(q, "redis")
        <5>1. met'[q] # {}
          BY <1>1, <4>3 DEF Meets, Inv, TypeOK
        <5> QED  BY <4>1, <5>1 DEF RequestOK
      <4> QED  BY <3>6, <4>2, <4>3 DEF CachingFails
    <3>7. CASE Disconnect(q)
      BY <2>1, <3>7, OthersKeep DEF Disconnect, record
    <3> QED  BY <2>4, <3>1, <3>2, <3>3, <3>4, <3>5, <3>6, <3>7 DEF Handle
  \* Another request does.
  <2>5. ASSUME NEW r \in Requests, r # q, Handle(r) \/ Disconnect(r)
        PROVE  RequestOK(q)'
    <3>1. pc'[q] = pc[q] /\ (q \in effects' => q \in effects)
      BY <1>1, <2>5 DEF Handle, Reserve, CheckExisting, WaitExpires, StopWaiting, FailOpen,
         ServeHTTP, CacheResponse, CachingFails, Disconnect, Go, Inv, TypeOK
    <3>2. CASE UNCHANGED records
      BY <2>1, <3>1, <3>2, OthersKeep DEF record
    <3>3. CASE Key[r] # Key[q] /\ \E x : Put(r, x)
      <4>1. record(q)' = record(q)
        BY <1>1, <3>3 DEF Put, record, Inv, TypeOK
      <4> QED  BY <2>1, <3>1, <4>1, OthersKeep
    <3>4. CASE Key[r] = Key[q] /\ record(r).state = "none"
      <4>1. record(q) \notin {Processing(q), Completed(q)}
        BY <3>4, RecordsDiffer DEF record
      <4> QED  BY <2>1, <3>1, <4>1, OthersKeep
    <3>5. CASE Key[r] = Key[q] /\ CacheResponse(r)
      <4>1. record(r) = Processing(r) \/ Overrun(Key[r])
        BY <3>5 DEF CacheResponse, LockInv, RequestOK
      <4>2. record(q) \notin {Processing(q), Completed(q)} \/ Overrun(Key[q])'
        BY <2>2, <2>5, <3>5, <4>1, RecordsDiffer DEF record
      <4> QED  BY <2>1, <3>1, <4>2, OthersKeep
    <3>6. \/ UNCHANGED records
          \/ (\E x : Put(r, x)) /\ (record(r).state = "none" \/ CacheResponse(r))
      BY <2>5 DEF Handle, Reserve, CheckExisting, WaitExpires, StopWaiting, FailOpen,
         ServeHTTP, CacheResponse, CachingFails, Disconnect, NoRecord
    <3> QED  BY <3>2, <3>3, <3>4, <3>5, <3>6
  <2>6. ASSUME NEW k \in Keys, LockExpires(k)
        PROVE  RequestOK(q)'
    <3>1. pc' = pc /\ effects' = effects /\ records[k].state = "processing"
      BY <2>6 DEF LockExpires
    <3>2. CASE Key[q] # k
      BY <1>1, <2>1, <2>6, <3>1, <3>2, OthersKeep DEF LockExpires, record, Inv, TypeOK
    <3>3. CASE Key[q] = k /\ record(q) # Processing(q)
      <4>1. record(q) # Completed(q)
        BY <3>1, <3>3, RecordsDiffer DEF record
      <4> QED  BY <2>1, <3>1, <3>3, <4>1, OthersKeep
    <3>4. CASE Key[q] = k /\ record(q) = Processing(q) /\ pc[q] \in {"executing", "caching"}
      <4>1. records[k].owner = q
        BY <3>4, RecordsDiffer DEF record
      <4>2. "slow" \in met'[q]
        BY <1>1, <2>6, <3>4, <4>1 DEF LockExpires, Meets, Inv, TypeOK
      <4>3. Overrun(Key[q])'
        BY <4>2 DEF Overrun
      <4> QED  BY <2>1, <3>1, <4>3, OthersKeep
    <3>5. CASE Key[q] = k /\ record(q) = Processing(q) /\ pc[q] \notin {"executing", "caching"}
      <4>1. record(q) # Completed(q)
        BY <3>5, RecordsDiffer
      <4>2. met'[q] = {} => met[q] = {}
        BY <2>1
      <4> QED  BY <2>2, <3>1, <3>5, <4>1, <4>2 DEF LockInv, RequestOK
    <3> QED  BY <3>2, <3>3, <3>4, <3>5
  <2>7. CASE Crash
    <3>1. CASE pc[q] \in {"new", "done"}
      BY <2>1, <2>7, <3>1, OthersKeep DEF Crash, Busy, record
    <3>2. CASE pc[q] \notin {"new", "done"}
      BY <2>7, <3>2 DEF Crash, Busy, RequestOK
    <3> QED  BY <3>1, <3>2
  <2> QED  BY <1>3, <2>4, <2>5, <2>6, <2>7 DEF Next
<1> QED  BY <1>1, <1>2, <1>3 DEF LockInv

\* The middleware lets at most one of the requests with a key that met no fault
\* take effect, however they interleave, while no handler outlives the lock.
THEOREM OneEffectPerKey == Spec => [](TypeOK /\ DuplicatesNeedFaults)
<1>1. LockInv => TypeOK /\ DuplicatesNeedFaults
  <2> SUFFICES ASSUME LockInv, NEW r \in effects, NEW q \in effects, Key[r] = Key[q],
                      met[r] = {}, met[q] = {}, ~Overrun(Key[r])
               PROVE  r = q
    BY DEF LockInv, Inv, DuplicatesNeedFaults
  <2>1. r \in Requests /\ q \in Requests
    BY DEF LockInv, Inv, TypeOK
  <2>2. record(r) \in {Processing(r), Completed(r)} /\ record(q) \in {Processing(q), Completed(q)}
    BY <2>1 DEF LockInv, RequestOK
  <2> QED  BY <2>1, <2>2, RecordsDiffer DEF record
<1> QED  BY <1>1, LockInit, LockStep, PTL DEF Spec

\* Only a handler that outlived its lock replaces or deletes a cached response,
\* although Set and Del do not look at what the key holds.
THEOREM CacheIsStable == Spec => CachedResponseStays
<1>1. LockInv /\ [Next]_vars =>
        [\A k \in Keys : records[k].state = "completed" /\ records'[k] # records[k]
           => Overrun(k)]_vars
  <2> SUFFICES ASSUME LockInv, Next, NEW k \in Keys, records[k].state = "completed",
                      records'[k] # records[k]
               PROVE  Overrun(k)
    BY DEF vars
  <2>1. ASSUME NEW r \in Requests, Handle(r) \/ Disconnect(r)
        PROVE  Overrun(k)
    <3>1. \/ UNCHANGED records
          \/ (\E x : Put(r, x)) /\ (record(r).state = "none" \/ CacheResponse(r))
      BY <2>1 DEF Handle, Reserve, CheckExisting, WaitExpires, StopWaiting, FailOpen,
         ServeHTTP, CacheResponse, CachingFails, Disconnect, NoRecord
    <3>2. CacheResponse(r) /\ Key[r] = k
      BY <3>1 DEF Put, record, LockInv, Inv, TypeOK
    <3>3. record(r) = Processing(r) \/ Overrun(k)
      BY <3>2 DEF CacheResponse, LockInv, RequestOK
    <3> QED  BY <3>2, <3>3, RecordsDiffer DEF record
  <2>2. ASSUME NEW j \in Keys, LockExpires(j)
        PROVE  FALSE
    BY <2>2 DEF LockExpires, LockInv, Inv, TypeOK
  <2>3. ~Crash
    BY DEF Crash
  <2> QED  BY <2>1, <2>2, <2>3 DEF Next
<1> QED  BY <1>1, LockInit, LockStep, PTL DEF Spec, CachedResponseStays
=============================================================================
