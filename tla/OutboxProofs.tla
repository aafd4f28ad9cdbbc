---------------------------- MODULE OutboxProofs ----------------------------
(***************************************************************************)
(* What the worker records is true and final, for any events, batch size   *)
(* and number of retries, whatever is claimed, lost, taken over or         *)
(* restarted.                                                              *)
(***************************************************************************)
EXTENDS Outbox, TLAPS

\* A run that may still write its outcome to the row.
Live(run) == ~run.late /\ run.state # "dead"

\* A live run owns its row: the claim it came from has not been taken over.
LiveOwnsRow ==
  \A run \in runs : Live(run) =>
    /\ events[run.event].status = "processing" /\ ~events[run.event].visible
    /\ events[run.event].retries = run.retry

\* Two runs of one event are never both live.
OneLiveRun ==
  \A run, other \in runs : Live(run) /\ Live(other) /\ run.event = other.event => run = other

\* What the state of a run says of its event.
RunIsTrue ==
  \A run \in runs :
    /\ run.state = "unhandled" => run.event \notin Registered
    /\ run.state \in {"running", "ok", "error"} => run.event \in Registered
    /\ run.state = "ok" => successes[run.event] > 0
    /\ run.state = "error" /\ Live(run) => failures[run.event] > events[run.event].retries
    /\ run.state = "dead" => events[run.event].status = "failed"

\* retry_count never runs ahead of the failures.
AttemptsCounted ==
  \A e \in Events :
    /\ e \notin Registered => events[e].retries = 0
    /\ e \in Registered /\ events[e].status \in {"pending", "processing"} =>
         events[e].retries < MaxRetries /\ events[e].retries <= failures[e]

Inv == TypeOK /\ LiveOwnsRow /\ OneLiveRun /\ RunIsTrue /\ AttemptsCounted
       /\ OutcomeIsTrue /\ DeadLetterIsExhausted

-----------------------------------------------------------------------------
\* The updates of a run.
LEMMA RunUpdates ==
  ASSUME NEW run \in Run, NEW s \in {"running", "ok", "error", "unhandled", "dead"}
  PROVE  /\ LET new == [run EXCEPT !.state = s]
            IN  /\ new \in Run /\ new.state = s /\ new.late = run.late
                /\ new.event = run.event /\ new.retry = run.retry
         /\ LET new == [run EXCEPT !.late = TRUE]
            IN  /\ new \in Run /\ new.state = run.state /\ new.late
                /\ new.event = run.event /\ new.retry = run.retry
BY DEF Run

\* A tally grows until it passes MaxRetries.
LEMMA TallyGrows ==
  ASSUME NEW n \in Nat
  PROVE  Tally(n) \in Nat /\ Tally(n) >= n /\ Tally(n) > 0
         /\ \A m \in Nat : m <= n /\ m < MaxRetries => Tally(n) > m
BY OutboxAssumption DEF Tally

\* The table is empty and nothing runs.
LEMMA InvInit == Init => Inv
<1> SUFFICES ASSUME Init PROVE Inv
  OBVIOUS
<1>1. TypeOK
  BY DEF Init, TypeOK, EventRow, EventStatus
<1>2. /\ runs = {} /\ notified = {}
      /\ \A e \in Events : events[e].status = "absent" /\ events[e].retries = 0
  BY DEF Init
<1>3. LiveOwnsRow /\ OneLiveRun /\ RunIsTrue
  BY <1>2 DEF LiveOwnsRow, OneLiveRun, RunIsTrue
<1>4. AttemptsCounted /\ OutcomeIsTrue /\ DeadLetterIsExhausted
  BY <1>2, OutboxAssumption DEF AttemptsCounted, OutcomeIsTrue, DeadLetterIsExhausted
<1> QED  BY <1>1, <1>3, <1>4 DEF Inv

-----------------------------------------------------------------------------
(* The table.                                                              *)

\* EnqueueAt writes a row that no run can be about to write.
LEMMA EnqueueKeepsInv ==
  ASSUME Inv, NEW e \in Events, NEW visible \in BOOLEAN, Enqueue(e, visible)
  PROVE  Inv'
<1> DEFINE row == [status |-> "pending", retries |-> 0, visible |-> visible]
<1>1. /\ events[e].status = "absent" /\ events' = [events EXCEPT ![e] = row]
      /\ UNCHANGED <<runs, successes, failures, notified, stopping>>
  BY DEF Enqueue
<1>2. row \in EventRow
  BY DEF EventRow, EventStatus
<1>3. TypeOK'
  BY <1>1, <1>2 DEF Inv, TypeOK
<1>4. /\ events'[e] = row
      /\ \A d \in Events : d # e => events'[d] = events[d]
      /\ \A run \in runs : run.event \in Events
      /\ \A d \in Events : failures[d] \in Nat
  BY <1>1 DEF Inv, TypeOK, Run
<1>5. \A run \in runs : Live(run) \/ run.state = "dead" => run.event # e
  BY <1>1 DEF Inv, LiveOwnsRow, RunIsTrue
<1>6. LiveOwnsRow' /\ OneLiveRun'
  BY <1>1, <1>4, <1>5 DEF Inv, LiveOwnsRow, OneLiveRun, Live
<1>7. RunIsTrue'
  BY <1>1, <1>4, <1>5 DEF Inv, RunIsTrue, Live
<1>8. AttemptsCounted'
  BY <1>1, <1>4, OutboxAssumption DEF Inv, AttemptsCounted
<1>9. OutcomeIsTrue' /\ DeadLetterIsExhausted'
  BY <1>1, <1>4, OutboxAssumption DEF Inv, OutcomeIsTrue, DeadLetterIsExhausted
<1> QED  BY <1>3, <1>6, <1>7, <1>8, <1>9 DEF Inv

\* claimBatch takes rows whose earlier runs are all late.
LEMMA ClaimKeepsInv ==
  ASSUME Inv, NEW S \in SUBSET Events, ClaimBatch(S)
  PROVE  Inv'
<1>1. /\ \A e \in S : events[e].status \in {"pending", "processing"} /\ events[e].visible
      /\ events' = Claimed(S)
      /\ UNCHANGED <<successes, failures, notified, stopping>>
  BY DEF ClaimBatch
<1>2. /\ events' \in [Events -> EventRow]
      /\ \A e \in Events : events'[e].retries = events[e].retries
      /\ \A e \in S : events'[e].status = "processing" /\ ~events'[e].visible
      /\ \A e \in Events \ S : events'[e] = events[e]
  <2> DEFINE row(e) == [events[e] EXCEPT !.status = "processing", !.visible = FALSE]
  <2>1. \A e \in Events : /\ row(e) \in EventRow /\ row(e).retries = events[e].retries
                          /\ row(e).status = "processing" /\ ~row(e).visible
    BY DEF Inv, TypeOK, EventRow, EventStatus
  <2>2. events' = [e \in Events |-> IF e \in S THEN row(e) ELSE events[e]]
    BY <1>1 DEF Claimed
  <2> HIDE DEF row
  <2> QED  BY <2>1, <2>2 DEF Inv, TypeOK
<1>3. \A run \in runs' : run \in runs \/ \E e \in S : run = NewRun(e)
  BY DEF ClaimBatch
<1>4. \A e \in S : /\ NewRun(e) \in Run /\ NewRun(e).event = e
                   /\ NewRun(e).retry = events[e].retries /\ ~NewRun(e).late
                   /\ NewRun(e).state = IF e \in Registered THEN "running" ELSE "unhandled"
  BY DEF Inv, TypeOK, NewRun, Run, EventRow
<1>5. \A run \in runs : /\ run.event \in Events
                        /\ Live(run) \/ run.state = "dead" => run.event \notin S
  BY <1>1 DEF Inv, TypeOK, Run, LiveOwnsRow, RunIsTrue
<1>6. TypeOK'
  BY <1>1, <1>2, <1>3, <1>4 DEF Inv, TypeOK
<1>7. LiveOwnsRow'
  BY <1>2, <1>3, <1>4, <1>5 DEF Inv, LiveOwnsRow, Live
<1>8. OneLiveRun'
  BY <1>3, <1>4, <1>5 DEF Inv, OneLiveRun, Live
<1>9. RunIsTrue'
  BY <1>1, <1>2, <1>3, <1>4, <1>5 DEF Inv, RunIsTrue, Live
<1>10. AttemptsCounted'
  BY <1>1, <1>2 DEF Inv, AttemptsCounted
<1>11. OutcomeIsTrue' /\ DeadLetterIsExhausted'
  BY <1>1, <1>2, OutboxAssumption DEF Inv, TypeOK, OutcomeIsTrue, DeadLetterIsExhausted
<1> QED  BY <1>6, <1>7, <1>8, <1>9, <1>10, <1>11 DEF Inv

\* When process_at of a claimed row passes, its runs are late.
LEMMA ProcessAtKeepsInv ==
  ASSUME Inv, NEW e \in Events, ProcessAtReached(e)
  PROVE  Inv'
<1>1. /\ events[e].status \in {"pending", "processing"} /\ ~events[e].visible
      /\ events' = [events EXCEPT ![e].visible = TRUE]
      /\ UNCHANGED <<successes, failures, notified, stopping>>
  BY DEF ProcessAtReached
<1>2. /\ events' \in [Events -> EventRow]
      /\ \A d \in Events : /\ events'[d].status = events[d].status
                           /\ events'[d].retries = events[d].retries
                           /\ d # e => events'[d] = events[d]
  <2> DEFINE row == [events[e] EXCEPT !.visible = TRUE]
  <2>1. events[e] \in EventRow
    BY DEF Inv, TypeOK
  <2>2. /\ row \in EventRow
        /\ row.status = events[e].status /\ row.retries = events[e].retries
    BY <2>1 DEF EventRow
  <2>3. events' = [events EXCEPT ![e] = row]
    BY <1>1
  <2> HIDE DEF row
  <2> QED  BY <2>2, <2>3 DEF Inv, TypeOK
<1>3. \A new \in runs' : \E run \in runs :
        /\ new = run \/ new = [run EXCEPT !.late = TRUE]
        /\ run.event = e /\ events[e].status = "processing" => new = [run EXCEPT !.late = TRUE]
  BY DEF ProcessAtReached
<1>4. \A new \in runs' : \E run \in runs :
        /\ new \in Run /\ new.event = run.event /\ new.retry = run.retry /\ new.state = run.state
        /\ Live(new) => new = run /\ Live(run) /\ run.event # e
  <2> TAKE new \in runs'
  <2>1. PICK run \in runs :
          /\ new = run \/ new = [run EXCEPT !.late = TRUE]
          /\ run.event = e /\ events[e].status = "processing" => new = [run EXCEPT !.late = TRUE]
    BY <1>3
  <2>2. run \in Run
    BY DEF Inv, TypeOK
  <2>3. CASE new = [run EXCEPT !.late = TRUE]
    BY <2>2, <2>3, RunUpdates DEF Live
  <2>4. CASE new = run /\ ~(run.event = e /\ events[e].status = "processing")
    BY <2>2, <2>4 DEF Inv, LiveOwnsRow
  <2> QED  BY <2>1, <2>3, <2>4
<1>5. TypeOK'
  BY <1>1, <1>2, <1>4 DEF Inv, TypeOK
<1>6. LiveOwnsRow' /\ OneLiveRun'
  BY <1>2, <1>4 DEF Inv, TypeOK, Run, LiveOwnsRow, OneLiveRun
<1>7. RunIsTrue'
  BY <1>1, <1>2, <1>4 DEF Inv, TypeOK, Run, RunIsTrue
<1>8. AttemptsCounted' /\ OutcomeIsTrue' /\ DeadLetterIsExhausted'
  BY <1>1, <1>2, OutboxAssumption
     DEF Inv, TypeOK, AttemptsCounted, OutcomeIsTrue, DeadLetterIsExhausted
<1> QED  BY <1>5, <1>6, <1>7, <1>8 DEF Inv

-----------------------------------------------------------------------------
(* process.                                                                *)

\* The handler returns, or nothing is recorded: the table is left alone.
LEMMA HandlerKeepsInv ==
  ASSUME Inv, NEW run \in runs,
         Returns(run) \/ HandlerTimesOut(run) \/ RecordFails(run) \/ DbTimeout(run)
  PROVE  Inv'
<1>1. run \in Run /\ run.event \in Events
  BY DEF Inv, TypeOK, Run
<1>2. /\ UNCHANGED <<events, notified, stopping>>
      /\ successes' \in [Events -> Nat] /\ failures' \in [Events -> Nat]
      /\ \A e \in Events : successes'[e] >= successes[e] /\ failures'[e] >= failures[e]
  <2>1. \A e \in Events : /\ successes[e] \in Nat /\ failures[e] \in Nat
                          /\ Tally(successes[e]) \in Nat /\ Tally(successes[e]) >= successes[e]
                          /\ Tally(failures[e]) \in Nat /\ Tally(failures[e]) >= failures[e]
    BY TallyGrows DEF Inv, TypeOK
  <2> QED  BY <1>1, <2>1
           DEF Inv, TypeOK, Returns, HandlerSucceeds, HandlerFails, HandlerTimesOut,
               RecordFails, DbTimeout
\* What is new among the runs.
<1>3. \A new \in runs' :
        \/ new \in runs
        \/ /\ new \in Run /\ new.event = run.event /\ new.retry = run.retry
           /\ Live(new) => Live(run) /\ run \notin runs'
           /\ \/ new.state = "ok" /\ run.state = "running" /\ successes'[run.event] > 0
              \/ /\ new.state = "error" /\ run.state = "running"
                 /\ failures'[run.event] = Tally(failures[run.event])
              \/ new.state = run.state /\ new.late
  <2>1. CASE HandlerSucceeds(run)
    <3> DEFINE other == [run EXCEPT !.state = "ok"]
    <3>1. /\ other \in Run /\ other.state = "ok" /\ other.late = run.late
          /\ other.event = run.event /\ other.retry = run.retry
      BY <1>1, RunUpdates
    <3>2. runs' = (runs \ {run}) \cup {other} /\ run.state = "running"
      BY <2>1 DEF HandlerSucceeds, Becomes
    <3>3. successes'[run.event] > 0
      BY <1>1, <2>1, TallyGrows DEF HandlerSucceeds, Inv, TypeOK
    <3> HIDE DEF other
    <3> QED  BY <3>1, <3>2, <3>3 DEF Live
  <2>2. CASE HandlerFails(run)
    <3> DEFINE other == [run EXCEPT !.state = "error"]
    <3>1. /\ other \in Run /\ other.state = "error" /\ other.late = run.late
          /\ other.event = run.event /\ other.retry = run.retry
      BY <1>1, RunUpdates
    <3>2. runs' = (runs \ {run}) \cup {other} /\ run.state = "running"
      BY <2>2 DEF HandlerFails, Becomes
    <3>3. failures'[run.event] = Tally(failures[run.event])
      BY <1>1, <2>2 DEF HandlerFails, Inv, TypeOK
    <3> HIDE DEF other
    <3> QED  BY <3>1, <3>2, <3>3 DEF Live
  <2>3. CASE DbTimeout(run)
    <3> DEFINE other == [run EXCEPT !.late = TRUE]
    <3>1. /\ other \in Run /\ other.state = run.state /\ other.late
          /\ other.event = run.event /\ other.retry = run.retry
      BY <1>1, RunUpdates
    <3>2. runs' = (runs \ {run}) \cup {other}
      BY <2>3 DEF DbTimeout
    <3> HIDE DEF other
    <3> QED  BY <3>1, <3>2 DEF Live
  <2>4. CASE HandlerTimesOut(run) \/ RecordFails(run)
    BY <2>4 DEF HandlerTimesOut, RecordFails, Ends
  <2> QED  BY <2>1, <2>2, <2>3, <2>4 DEF Returns
<1>4. TypeOK'
  BY <1>2, <1>3 DEF Inv, TypeOK
<1>5. LiveOwnsRow'
  BY <1>2, <1>3 DEF Inv, LiveOwnsRow
<1>6. OneLiveRun'
  <2>1. \A new, other \in runs' \ runs : new = other
    BY DEF Returns, HandlerSucceeds, HandlerFails, HandlerTimesOut, RecordFails, DbTimeout,
           Becomes, Ends
  <2>2. ASSUME NEW new \in runs' \ runs, NEW other \in runs' \cap runs,
               Live(new), Live(other), new.event = other.event
        PROVE  FALSE
    BY <1>3, <2>2 DEF Inv, OneLiveRun
  <2> QED  BY <2>1, <2>2 DEF Inv, OneLiveRun, Live
<1>7. \A e \in Events : /\ events[e].retries \in Nat /\ failures[e] \in Nat /\ failures'[e] \in Nat
                        /\ successes[e] \in Nat /\ successes'[e] \in Nat
  BY <1>2 DEF Inv, TypeOK, EventRow
<1>8. RunIsTrue'
  <2>1. ASSUME NEW new \in runs
        PROVE  /\ new.state = "ok" => successes'[new.event] > 0
               /\ new.state = "error" /\ Live(new) => failures'[new.event] > events'[new.event].retries
    BY <1>2, <1>7 DEF Inv, TypeOK, Run, RunIsTrue
  <2>2. ASSUME NEW new \in runs', new \notin runs, new.state = "error", Live(new)
        PROVE  failures'[new.event] > events'[new.event].retries
    <3>1. /\ Live(run) /\ new.event = run.event /\ run.state = "running"
          /\ failures'[run.event] = Tally(failures[run.event])
      BY <1>3, <2>2 DEF Live
    <3>2. run.event \in Registered /\ events[run.event].status = "processing"
      BY <3>1 DEF Inv, RunIsTrue, LiveOwnsRow
    <3>3. events[run.event].retries < MaxRetries /\ events[run.event].retries <= failures[run.event]
      BY <1>1, <3>2 DEF Inv, AttemptsCounted
    <3> QED  BY <1>1, <1>2, <1>7, <3>1, <3>3, TallyGrows
  <2>3. ASSUME NEW new \in runs', new \notin runs
        PROVE  /\ new.state = "unhandled" => new.event \notin Registered
               /\ new.state \in {"running", "ok", "error"} => new.event \in Registered
               /\ new.state = "ok" => successes'[new.event] > 0
               /\ new.state = "dead" => events'[new.event].status = "failed"
    <3>1. run.state = "ok" => successes'[run.event] > 0
      BY <2>1
    <3> QED  BY <1>2, <1>3, <2>3, <3>1 DEF Inv, RunIsTrue
  <2> QED  BY <1>2, <2>1, <2>2, <2>3 DEF Inv, RunIsTrue, Live
<1>9. AttemptsCounted' /\ OutcomeIsTrue' /\ DeadLetterIsExhausted'
  BY <1>2, <1>7, OutboxAssumption
     DEF Inv, AttemptsCounted, OutcomeIsTrue, DeadLetterIsExhausted
<1> QED  BY <1>4, <1>5, <1>6, <1>8, <1>9 DEF Inv

\* A live run is the only one that could write its row.
LEMMA LiveIsAlone ==
  ASSUME Inv, NEW run \in runs, Live(run), NEW other \in runs, other # run, other.event = run.event
  PROVE  ~Live(other) /\ other.state # "dead"
BY DEF Inv, LiveOwnsRow, OneLiveRun, RunIsTrue

\* A live run that records an outcome: the row of its event becomes row, the
\* run ends or, as new, goes on to notify.
LEMMA RecordKeepsInv ==
  ASSUME Inv, NEW run \in runs, Live(run), NEW row \in EventRow, NEW new \in Run,
         events' = [events EXCEPT ![run.event] = row],
         runs' \subseteq (runs \ {run}) \cup {new},
         UNCHANGED <<successes, failures, notified, stopping>>,
         new \in runs' => new.event = run.event /\ new.state = "dead" /\ row.status = "failed",
         row.status \in {"pending", "completed", "failed"},
         row.status = "completed" => run.state = "ok",
         row.status = "pending" =>
           /\ run.state = "error" /\ run.retry + 1 < MaxRetries
           /\ row.retries = run.retry + 1,
         row.status = "failed" =>
           \/ run.state = "unhandled" /\ row.retries = run.retry
           \/ run.state = "error" /\ run.retry + 1 >= MaxRetries /\ row.retries = run.retry + 1,
         row.status = "completed" => row.retries = run.retry
  PROVE  Inv'
<1> DEFINE e == run.event
<1>1. /\ e \in Events /\ events[e].status = "processing" /\ events[e].retries = run.retry
      /\ run.retry \in Nat
  BY DEF Inv, TypeOK, Run, LiveOwnsRow
<1>2. events'[e] = row /\ \A d \in Events : d # e => events'[d] = events[d]
  BY <1>1 DEF Inv, TypeOK
<1>3. TypeOK'
  BY <1>1 DEF Inv, TypeOK
<1>4. \A other \in runs' : \/ other = new /\ ~Live(other)
                           \/ /\ other \in runs /\ other # run /\ other.event \in Events
                              /\ other.event = e => ~Live(other) /\ other.state # "dead"
  BY LiveIsAlone DEF Inv, TypeOK, Run, Live
<1>5. LiveOwnsRow'
  BY <1>2, <1>4 DEF Inv, LiveOwnsRow, Live
<1>6. OneLiveRun'
  BY <1>4 DEF Inv, OneLiveRun, Live
<1>7. RunIsTrue'
  BY <1>2, <1>4 DEF Inv, RunIsTrue, Live
<1>8. \A d \in Events : failures[d] \in Nat /\ events[d].retries \in Nat
  BY DEF Inv, TypeOK, EventRow
<1>9. /\ run.state = "error" => failures[e] >= run.retry + 1 /\ e \in Registered
      /\ run.state = "ok" => successes[e] > 0 /\ e \in Registered
      /\ run.state = "unhandled" => e \notin Registered
  BY <1>1, <1>8 DEF Inv, RunIsTrue
<1>10. /\ e \in Registered => run.retry < MaxRetries
       /\ e \notin Registered => run.retry = 0
  BY <1>1 DEF Inv, AttemptsCounted
<1>11. AttemptsCounted'
  BY <1>1, <1>2, <1>8, <1>9, <1>10, OutboxAssumption DEF Inv, AttemptsCounted
<1>12. OutcomeIsTrue'
  BY <1>1, <1>2, <1>8, <1>9, <1>10, OutboxAssumption DEF Inv, TypeOK, OutcomeIsTrue
<1>13. DeadLetterIsExhausted'
  BY <1>1, <1>2, <1>8, <1>9, <1>10, OutboxAssumption DEF Inv, DeadLetterIsExhausted
<1> QED  BY <1>3, <1>5, <1>6, <1>7, <1>11, <1>12, <1>13 DEF Inv

\* markCompleted, scheduleRetry and markFailed are such records.
LEMMA RecordsKeepInv ==
  ASSUME Inv, NEW run \in runs, Records(run)
  PROVE  Inv'
<1>1. run \in Run /\ run.event \in Events /\ events[run.event] \in EventRow /\ run.retry \in Nat
  BY DEF Inv, TypeOK, Run
<1>2. Live(run) => events[run.event].retries = run.retry
  BY DEF Inv, LiveOwnsRow
<1>3. CASE MarkCompleted(run)
  <2> DEFINE row == [events[run.event] EXCEPT !.status = "completed"]
  <2>1. row \in EventRow /\ row.status = "completed" /\ row.retries = events[run.event].retries
    BY <1>1 DEF EventRow, EventStatus
  <2>2. /\ events' = [events EXCEPT ![run.event] = row] /\ Live(run) /\ run.state = "ok"
        /\ runs' = runs \ {run} /\ UNCHANGED <<successes, failures, notified, stopping>>
    BY <1>3 DEF MarkCompleted, Ends, Live
  <2> HIDE DEF row
  <2> QED  BY <1>1, <1>2, <2>1, <2>2, RecordKeepsInv
<1>4. CASE ScheduleRetry(run)
  <2> DEFINE row == [status |-> "pending", retries |-> events[run.event].retries + 1, visible |-> FALSE]
  <2>1. row \in EventRow /\ row.status = "pending" /\ row.retries = events[run.event].retries + 1
    BY <1>1 DEF EventRow, EventStatus
  <2>2. /\ events' = [events EXCEPT ![run.event] = row] /\ Live(run) /\ run.state = "error"
        /\ runs' = runs \ {run} /\ UNCHANGED <<successes, failures, notified, stopping>>
        /\ run.retry + 1 < MaxRetries
    BY <1>1, <1>4, OutboxAssumption DEF ScheduleRetry, Ends, Live, Exhausted
  <2> HIDE DEF row
  <2> QED  BY <1>1, <1>2, <2>1, <2>2, RecordKeepsInv
<1>5. CASE MarkFailed(run)
  <2> DEFINE n   == IF run.state = "error" THEN events[run.event].retries + 1
                                           ELSE events[run.event].retries
             row == [events[run.event] EXCEPT !.status = "failed", !.retries = n]
             new == [run EXCEPT !.state = "dead"]
  <2>1. row \in EventRow /\ row.status = "failed" /\ row.retries = n
    <3>1. n \in Nat
      BY <1>1 DEF EventRow
    <3> HIDE DEF n
    <3> QED  BY <1>1, <3>1 DEF EventRow, EventStatus
  <2>2. new \in Run /\ new.event = run.event /\ new.state = "dead"
    BY <1>1, RunUpdates
  <2>3. /\ events' = [events EXCEPT ![run.event] = row] /\ Live(run)
        /\ run.state = "unhandled" \/ (run.state = "error" /\ Exhausted(run))
        /\ runs' = (runs \ {run}) \cup {new}
        /\ UNCHANGED <<successes, failures, notified, stopping>>
    BY <1>5 DEF MarkFailed, Becomes, Live
  <2>4. n = IF run.state = "error" THEN run.retry + 1 ELSE run.retry
    BY <1>2, <2>3
  <2> HIDE DEF row, new, n
  <2> QED  BY <1>1, <2>1, <2>2, <2>3, <2>4, RecordKeepsInv DEF Exhausted
<1> QED  BY <1>3, <1>4, <1>5 DEF Records

\* Every step of the poll loop, the goroutines, the clock and the server keeps
\* the invariant.
LEMMA InvStep == Inv /\ [Next]_vars => Inv'
<1> SUFFICES ASSUME Inv, [Next]_vars PROVE Inv'
  OBVIOUS
<1>1. ASSUME NEW run \in runs, NotifyDeadLettered(run)
      PROVE  Inv'
  <2>1. /\ notified' = notified \cup {run.event} /\ runs' \subseteq runs
        /\ UNCHANGED <<events, successes, failures, stopping>>
        /\ events[run.event].status = "failed" /\ run.event \in Events
    BY <1>1 DEF NotifyDeadLettered, Ends, Inv, TypeOK, Run, RunIsTrue
  <2> QED  BY <2>1 DEF Inv, TypeOK, LiveOwnsRow, OneLiveRun, RunIsTrue, Live, AttemptsCounted,
                       OutcomeIsTrue, DeadLetterIsExhausted
<1>2. CASE Stop \/ Restart \/ UNCHANGED vars
  <2>1. /\ UNCHANGED <<events, successes, failures, notified>> /\ runs' \subseteq runs
        /\ stopping' \in BOOLEAN
    BY <1>2 DEF Stop, Restart, vars, Inv, TypeOK
  <2> QED  BY <2>1 DEF Inv, TypeOK, LiveOwnsRow, OneLiveRun, RunIsTrue, Live, AttemptsCounted,
                       OutcomeIsTrue, DeadLetterIsExhausted
<1> QED  BY <1>1, <1>2, EnqueueKeepsInv, ClaimKeepsInv, ProcessAtKeepsInv, HandlerKeepsInv,
            RecordsKeepInv DEF Next

-----------------------------------------------------------------------------
\* Whatever the worker records is true: completed events were handled, and only
\* events that failed MaxRetries times, or have no handler, are dead-lettered.
THEOREM OutcomesAreTrue == Spec => [](TypeOK /\ OutcomeIsTrue /\ DeadLetterIsExhausted)
<1>1. Inv => TypeOK /\ OutcomeIsTrue /\ DeadLetterIsExhausted
  BY DEF Inv
<1> QED  BY <1>1, InvInit, InvStep, PTL DEF Spec

\* markCompleted, scheduleRetry and markFailed name only the id of the row, and
\* yet none of them changes the status of an event that is finished.
THEOREM FinishedIsFinal == Spec => FinishedStaysFinished
<1>1. Inv /\ [Next]_vars =>
        [\A e \in Events : events[e].status \in Finished => events'[e].status = events[e].status]_vars
  <2> SUFFICES ASSUME Inv, Next, NEW e \in Events, events[e].status \in Finished
               PROVE  events'[e].status = events[e].status
    BY DEF vars
  <2>1. CASE \E d \in Events : ProcessAtReached(d) \/ \E visible \in BOOLEAN : Enqueue(d, visible)
    <3>1. PICK d \in Events : ProcessAtReached(d) \/ \E visible \in BOOLEAN : Enqueue(d, visible)
      BY <2>1
    <3>2. d # e
      BY <3>1 DEF ProcessAtReached, Enqueue, Finished
    <3> QED  BY <3>1, <3>2 DEF ProcessAtReached, Enqueue, Inv, TypeOK
  <2>2. CASE \E S \in SUBSET Events : ClaimBatch(S)
    BY <2>2 DEF ClaimBatch, Claimed, Finished
  <2>3. ASSUME NEW run \in runs, Records(run)
        PROVE  events'[e] = events[e]
    <3>1. Live(run)
      BY <2>3 DEF Records, MarkCompleted, ScheduleRetry, MarkFailed, Live
    <3>2. run.event # e
      BY <3>1 DEF Inv, LiveOwnsRow, Finished
    <3> QED  BY <2>3, <3>2 DEF Records, MarkCompleted, ScheduleRetry, MarkFailed, Inv, TypeOK
  <2>4. ASSUME NEW run \in runs,
               \/ Returns(run) \/ HandlerTimesOut(run) \/ NotifyDeadLettered(run)
               \/ RecordFails(run) \/ DbTimeout(run)
        PROVE  events' = events
    BY <2>4 DEF Returns, HandlerSucceeds, HandlerFails, HandlerTimesOut, NotifyDeadLettered,
                RecordFails, DbTimeout
  <2>5. CASE Stop \/ Restart
    BY <2>5 DEF Stop, Restart
  <2> QED  BY <2>1, <2>2, <2>3, <2>4, <2>5 DEF Next
<1> QED  BY <1>1, InvInit, InvStep, PTL DEF Spec, FinishedStaysFinished
=============================================================================
