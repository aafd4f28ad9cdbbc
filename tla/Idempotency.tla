---------------------------- MODULE Idempotency ----------------------------
(***************************************************************************)
(* The Idempotency middleware of internal/platform/middleware: POST and    *)
(* PATCH requests reserve their Idempotency-Key in Redis, run the handler  *)
(* and cache its response, or wait for and replay the response of another  *)
(* request with that key.  A request is one HTTP exchange; a client's      *)
(* retry is another request with the same key and fingerprint.             *)
(*                                                                         *)
(* The model covers the 24 hours that a cached response is kept.           *)
(***************************************************************************)
EXTENDS Integers, FiniteSets

CONSTANTS
  Requests,      \* the requests that arrive
  Keys,          \* the values of the header Idempotency-Key
  Fingerprints,  \* hashes of method, path, principal and body
  Key, Fingerprint, \* the key and the fingerprint of each request
  Nobody,        \* no request
  Faults         \* what may go wrong with a request

ASSUME IdempotencyAssumption ==
  /\ Key \in [Requests -> Keys]
  /\ Fingerprint \in [Requests -> Fingerprints]
  /\ Nobody \notin Requests
  /\ Faults \subseteq {"redis", "disconnect", "crash", "slow"}

VARIABLES
  records,       \* the idempotencyRecord in Redis for each key
  pc,            \* where the middleware is with each request
  effects,       \* requests whose handler committed and answered 2xx
  answer,        \* whose response a request was answered with, if any
  met            \* what has gone wrong with each request: Redis did not answer
                 \* it, the client hung up and so cancelled its context, the
                 \* server crashed, or the handler outlived the lock

vars == <<records, pc, effects, answer, met>>

NoRecord      == [state |-> "none"]
Processing(r) == [state |-> "processing", fingerprint |-> Fingerprint[r], owner |-> r]
Completed(r)  == [state |-> "completed", fingerprint |-> Fingerprint[r], owner |-> r]

\* The response of a completed record is named by the request that produced it.
\* The code does not know the owner of a processing record.
Record ==
  [state : {"none"}]
    \cup [state : {"processing", "completed"}, fingerprint : Fingerprints, owner : Requests]

\* executing: the handler runs and its response will be cached;
\* open: it runs outside the protocol, since the key could not be reserved.
Steps == {"new", "waiting", "polling", "executing", "open", "caching", "done"}

record(r) == records[Key[r]]
Put(r, x) == records' = [records EXCEPT ![Key[r]] = x]
Go(r, to) == pc' = [pc EXCEPT ![r] = to]

Gone(r)      == "disconnect" \in met[r]
Meets(r, f)  == met' = [met EXCEPT ![r] = @ \cup {f}]

-----------------------------------------------------------------------------
\* Mutant: SET without NX.
ReserveAlways(r) ==
  /\ pc[r] = "new" /\ ~Gone(r)
  /\ Put(r, Processing(r)) /\ Go(r, "executing")
  /\ UNCHANGED <<effects, answer, met>>

\* reserveIdempotencyKey on arrival: SET NX.
Reserve(r) ==
  /\ pc[r] = "new" /\ ~Gone(r)
  /\ \/ record(r) = NoRecord /\ Put(r, Processing(r)) /\ Go(r, "executing")
     \/ record(r) # NoRecord /\ Go(r, "waiting") /\ UNCHANGED records
  /\ UNCHANGED <<effects, answer, met>>

\* Mutant: the fingerprint is not compared.
CheckExistingKeyOnly(r) ==
  /\ pc[r] \in {"waiting", "polling"} /\ ~Gone(r)
  /\ \/ record(r).state = "none"
        /\ Put(r, Processing(r)) /\ Go(r, "executing") /\ UNCHANGED answer
     \/ record(r).state = "completed"
        /\ Go(r, "done") /\ answer' = [answer EXCEPT ![r] = record(r).owner]
        /\ UNCHANGED records
     \/ record(r).state = "processing"
        /\ Go(r, "polling") /\ UNCHANGED <<records, answer>>
  /\ UNCHANGED <<effects, met>>

\* checkExistingIdempotencyKey: reserve a key that is free again, answer 409 to
\* another fingerprint, replay a completed response, else go on polling.
CheckExisting(r) ==
  /\ pc[r] \in {"waiting", "polling"} /\ ~Gone(r)
  /\ \/ /\ record(r).state = "none"
        /\ Put(r, Processing(r)) /\ Go(r, "executing") /\ UNCHANGED answer
     \/ /\ record(r).state # "none" /\ record(r).fingerprint # Fingerprint[r]
        /\ Go(r, "done") /\ UNCHANGED <<records, answer>>
     \/ /\ record(r).state = "completed" /\ record(r).fingerprint = Fingerprint[r]
        /\ Go(r, "done") /\ answer' = [answer EXCEPT ![r] = record(r).owner]
        /\ UNCHANGED records
     \/ /\ record(r).state = "processing" /\ record(r).fingerprint = Fingerprint[r]
        /\ Go(r, "polling") /\ UNCHANGED <<records, answer>>
  /\ UNCHANGED <<effects, met>>

\* Mutant: after 10 seconds the request is let through.
WaitExpiresIntoHandler(r) ==
  /\ pc[r] = "polling"
  /\ Go(r, "executing")
  /\ UNCHANGED <<records, effects, answer, met>>

\* idempotencyWait: 409, still processing.
WaitExpires(r) ==
  /\ pc[r] = "polling"
  /\ Go(r, "done")
  /\ UNCHANGED <<records, effects, answer, met>>

\* The context of a waiting request is cancelled: it returns without an answer.
StopWaiting(r) ==
  /\ pc[r] \in {"waiting", "polling"} /\ Gone(r)
  /\ Go(r, "done")
  /\ UNCHANGED <<records, effects, answer, met>>

\* A Redis error before the handler, or a context that is cancelled when the key
\* is to be reserved: fail open.  A SET NX whose answer is lost may have reserved it.
FailOpen(r) ==
  /\ \/ /\ "redis" \in Faults
        /\ pc[r] \in {"new", "waiting", "polling"}
        /\ Meets(r, "redis")
     \/ pc[r] = "new" /\ Gone(r) /\ UNCHANGED met
  /\ Go(r, "open")
  /\ \/ record(r) = NoRecord /\ Put(r, Processing(r))
     \/ UNCHANGED records
  /\ UNCHANGED <<effects, answer>>

\* next.ServeHTTP.  The response goes to the client while the handler runs.
ServeHTTP(r) ==
  /\ pc[r] \in {"executing", "open"}
  /\ Go(r, IF pc[r] = "open" THEN "done" ELSE "caching")
  /\ effects' = effects \cup {r} \/ UNCHANGED effects
  /\ answer' = IF Gone(r) THEN answer ELSE [answer EXCEPT ![r] = r]
  /\ UNCHANGED <<records, met>>

\* Mutant: the record is completed without a response.
CacheResponseEmpty(r) ==
  /\ pc[r] = "caching" /\ ~Gone(r)
  /\ Put(r, IF r \in effects THEN [Completed(r) EXCEPT !.owner = Nobody] ELSE NoRecord)
  /\ Go(r, "done")
  /\ UNCHANGED <<effects, answer, met>>

\* cacheResponse of a 2xx response, rdb.Del otherwise; whatever the key holds.
CacheResponse(r) ==
  /\ pc[r] = "caching" /\ ~Gone(r)
  /\ Put(r, IF r \in effects THEN Completed(r) ELSE NoRecord)
  /\ Go(r, "done")
  /\ UNCHANGED <<effects, answer, met>>

\* Both use the context of the request, and ignore that they fail.
CachingFails(r) ==
  /\ pc[r] = "caching"
  /\ \/ Gone(r) /\ UNCHANGED met
     \/ "redis" \in Faults /\ Meets(r, "redis")
  /\ Go(r, "done")
  /\ UNCHANGED <<records, effects, answer>>

-----------------------------------------------------------------------------
(* The clients, the server and Redis.                                      *)

Disconnect(r) ==
  /\ "disconnect" \in Faults
  /\ pc[r] # "done" /\ ~Gone(r)
  /\ Meets(r, "disconnect")
  /\ UNCHANGED <<records, pc, effects, answer>>

Busy == {r \in Requests : pc[r] \notin {"new", "done"}}

Crash ==
  /\ "crash" \in Faults
  /\ Busy # {}
  /\ pc' = [r \in Requests |-> IF r \in Busy THEN "done" ELSE pc[r]]
  /\ met' = [r \in Requests |-> IF r \in Busy THEN met[r] \cup {"crash"} ELSE met[r]]
  /\ UNCHANGED <<records, effects, answer>>

\* idempotencyLockTTL.  Handlers take less than its 2 minutes unless they are slow.
LockExpires(k) ==
  /\ records[k].state = "processing"
  /\ \/ pc[records[k].owner] \notin {"executing", "caching"} /\ UNCHANGED met
     \/ /\ pc[records[k].owner] \in {"executing", "caching"}
        /\ "slow" \in Faults /\ Meets(records[k].owner, "slow")
  /\ records' = [records EXCEPT ![k] = NoRecord]
  /\ UNCHANGED <<pc, effects, answer>>

-----------------------------------------------------------------------------
Init ==
  /\ records = [k \in Keys |-> NoRecord]
  /\ pc = [r \in Requests |-> "new"]
  /\ effects = {} /\ met = [r \in Requests |-> {}]
  /\ answer = [r \in Requests |-> Nobody]

Handle(r) ==
  \/ Reserve(r) \/ CheckExisting(r) \/ WaitExpires(r) \/ StopWaiting(r) \/ FailOpen(r)
  \/ ServeHTTP(r) \/ CacheResponse(r) \/ CachingFails(r)

Next ==
  \/ \E r \in Requests : Handle(r) \/ Disconnect(r)
  \/ \E k \in Keys : LockExpires(k)
  \/ Crash

Spec == Init /\ [][Next]_vars

-----------------------------------------------------------------------------
(* Properties.                                                             *)

\* Records and requests have the shapes above; a completed record has a response.
TypeOK ==
  /\ records \in [Keys -> Record]
  /\ pc \in [Requests -> Steps]
  /\ effects \subseteq Requests /\ met \in [Requests -> SUBSET Faults]
  /\ answer \in [Requests -> Requests \cup {Nobody}]

\* Whatever Redis, the clients and the server do, a response that is replayed is
\* the 2xx response of a request with the same key and the same fingerprint.
ReplayIsFaithful ==
  \A r \in Requests : answer[r] \notin {Nobody, r} =>
    /\ answer[r] \in effects
    /\ Key[answer[r]] = Key[r] /\ Fingerprint[answer[r]] = Fingerprint[r]

\* Some handler for key k outlived the lock: its Del or Set may hit another's record.
Overrun(k) == \E r \in Requests : Key[r] = k /\ "slow" \in met[r]

\* Set and Del name only the key, and yet the response that a request has cached
\* is never replaced or removed, unless a handler for that key outlived its lock:
\* Redis errors, hang-ups and crashes are not enough.
CachedResponseStays ==
  [][\A k \in Keys : records[k].state = "completed" /\ records'[k] # records[k]
       => Overrun(k)]_vars

\* However the requests with one key interleave, and although Redis, the client or
\* the server fails the others: of those that met no fault themselves at most one
\* takes effect, as long as no handler for the key outlives its lock.
DuplicatesNeedFaults ==
  \A r, q \in effects :
    Key[r] = Key[q] /\ met[r] = {} /\ met[q] = {} /\ ~Overrun(Key[r]) => r = q
=============================================================================
