------------------------------- MODULE Outbox -------------------------------
(***************************************************************************)
(* The outbox worker of internal/platform/worker: the poll loop claims     *)
(* rows of internal.outbox_events and runs a goroutine per row, which      *)
(* calls the handler of the event and then records the outcome with an     *)
(* UPDATE that names only the id of the row.  Nothing but time keeps a     *)
(* goroutine from recording the outcome of a claim that is no longer its:  *)
(* its context for database work lasts 10 seconds, a claim 5 minutes.      *)
(***************************************************************************)
EXTENDS Integers, FiniteSets

CONSTANTS
  Events,       \* identifiers of outbox events
  Registered,   \* those whose type a handler is registered for
  MaxRetries,   \* Config.MaxRetries
  BatchSize     \* Config.BatchSize

ASSUME OutboxAssumption ==
  /\ Registered \subseteq Events
  /\ MaxRetries \in Nat \ {0}
  /\ BatchSize \in Nat \ {0}

VARIABLES
  events,       \* internal.outbox_events; visible: process_at <= NOW()
  runs,         \* the goroutines of process; equal ones count once
  successes,    \* how often the handler returned nil for each event
  failures,     \* how often it returned an error, a timeout included
  notified,     \* events named on the channel outbox_dead_lettered
  stopping      \* e.ctx is cancelled

vars == <<events, runs, successes, failures, notified, stopping>>

EventStatus == {"absent", "pending", "processing", "completed", "failed"}
Finished    == {"completed", "failed"}

EventRow == [status : EventStatus, retries : Nat, visible : BOOLEAN]

\* A run is calling the handler, has its outcome, or has dead-lettered the
\* event and is about to notify; late: its dbCtx has expired.
Run == [event : Events, retry : Nat, late : BOOLEAN,
        state : {"running", "ok", "error", "unhandled", "dead"}]

\* The tallies stop counting beyond what the properties tell apart.
Tally(n) == IF n <= MaxRetries THEN n + 1 ELSE n

-----------------------------------------------------------------------------
\* EnqueueAt, for now or for later.
Enqueue(e, visible) ==
  /\ events[e].status = "absent"
  /\ events' = [events EXCEPT ![e] = [status |-> "pending", retries |-> 0, visible |-> visible]]
  /\ UNCHANGED <<runs, successes, failures, notified, stopping>>

NewRun(e) ==
  [event |-> e, retry |-> events[e].retries, late |-> FALSE,
   state |-> IF e \in Registered THEN "running" ELSE "unhandled"]

Claimed(S) ==
  [e \in Events |-> IF e \in S THEN [events[e] EXCEPT !.status = "processing", !.visible = FALSE]
                               ELSE events[e]]

\* Mutant: a claim is never taken over.
ClaimPending(S) ==
  /\ ~stopping /\ S # {} /\ Cardinality(S) <= BatchSize
  /\ \A e \in S : events[e].status = "pending" /\ events[e].visible
  /\ events' = Claimed(S)
  /\ runs' = runs \cup {NewRun(e) : e \in S} \/ UNCHANGED runs
  /\ UNCHANGED <<successes, failures, notified, stopping>>

\* poll and claimBatch.  The rows may be claimed and the answer lost.
ClaimBatch(S) ==
  /\ ~stopping /\ S # {} /\ Cardinality(S) <= BatchSize
  /\ \A e \in S : events[e].status \in {"pending", "processing"} /\ events[e].visible
  /\ events' = Claimed(S)
  /\ runs' = runs \cup {NewRun(e) : e \in S} \/ UNCHANGED runs
  /\ UNCHANGED <<successes, failures, notified, stopping>>

-----------------------------------------------------------------------------
(* process                                                                 *)

Becomes(run, state) == runs' = (runs \ {run}) \cup {[run EXCEPT !.state = state]}
Ends(run)           == runs' = runs \ {run}

HandlerSucceeds(run) ==
  /\ run.state = "running"
  /\ Becomes(run, "ok")
  /\ successes' = [successes EXCEPT ![run.event] = Tally(@)]
  /\ UNCHANGED <<events, failures, notified, stopping>>

HandlerFails(run) ==
  /\ run.state = "running"
  /\ Becomes(run, "error")
  /\ failures' = [failures EXCEPT ![run.event] = Tally(@)]
  /\ UNCHANGED <<events, successes, notified, stopping>>

\* context.Canceled or context.DeadlineExceeded, of e.ctx or of a deadline the
\* handler sets itself: nothing is recorded.
HandlerTimesOut(run) ==
  /\ run.state = "running"
  /\ Ends(run)
  /\ failures' = [failures EXCEPT ![run.event] = Tally(@)]
  /\ UNCHANGED <<events, successes, notified, stopping>>

\* Mutant: off by one.
RetriesLeftOver(run) == run.retry >= MaxRetries

Exhausted(run) == run.retry + 1 >= MaxRetries

\* Mutant: the error of the handler is not looked at.
MarkAnyCompleted(run) ==
  /\ run.state \in {"ok", "error"} /\ ~run.late
  /\ events' = [events EXCEPT ![run.event].status = "completed"]
  /\ Ends(run)
  /\ UNCHANGED <<successes, failures, notified, stopping>>

MarkCompleted(run) ==
  /\ run.state = "ok" /\ ~run.late
  /\ events' = [events EXCEPT ![run.event].status = "completed"]
  /\ Ends(run)
  /\ UNCHANGED <<successes, failures, notified, stopping>>

\* Mutant: the retries left are counted down.
ScheduleRetryDown(run) ==
  /\ run.state = "error" /\ ~run.late /\ ~Exhausted(run)
  /\ events' = [events EXCEPT ![run.event] =
                  [status |-> "pending", retries |-> @.retries - 1, visible |-> FALSE]]
  /\ Ends(run)
  /\ UNCHANGED <<successes, failures, notified, stopping>>

\* The row is visible again after backoffSeconds.
ScheduleRetry(run) ==
  /\ run.state = "error" /\ ~run.late /\ ~Exhausted(run)
  /\ events' = [events EXCEPT ![run.event] =
                  [status |-> "pending", retries |-> @.retries + 1, visible |-> FALSE]]
  /\ Ends(run)
  /\ UNCHANGED <<successes, failures, notified, stopping>>

\* markFailed, first statement: retry_count grows unless no handler was called.
MarkFailed(run) ==
  /\ ~run.late
  /\ \/ run.state = "unhandled"
     \/ run.state = "error" /\ Exhausted(run)
  /\ events' = [events EXCEPT
                  ![run.event].status = "failed",
                  ![run.event].retries = IF run.state = "error" THEN @ + 1 ELSE @]
  /\ Becomes(run, "dead")
  /\ UNCHANGED <<successes, failures, notified, stopping>>

\* markFailed, second statement.
NotifyDeadLettered(run) ==
  /\ run.state = "dead" /\ ~run.late
  /\ notified' = notified \cup {run.event}
  /\ Ends(run)
  /\ UNCHANGED <<events, successes, failures, stopping>>

\* The statement fails, because dbCtx has expired or Postgres is away: it is logged.
RecordFails(run) ==
  /\ run.state # "running"
  /\ Ends(run)
  /\ UNCHANGED <<events, successes, failures, notified, stopping>>

-----------------------------------------------------------------------------
(* Time, shutdown and crashes.                                             *)

\* The 10 seconds of dbCtx began before the handler was called.
DbTimeout(run) ==
  /\ ~run.late
  /\ runs' = (runs \ {run}) \cup {[run EXCEPT !.late = TRUE]}
  /\ UNCHANGED <<events, successes, failures, notified, stopping>>

\* Mutant: a goroutine may record its outcome however long the handler took.
ProcessAtReachedFirst(e) ==
  /\ events[e].status \in {"pending", "processing"} /\ ~events[e].visible
  /\ events' = [events EXCEPT ![e].visible = TRUE]
  /\ UNCHANGED <<runs, successes, failures, notified, stopping>>

\* Five minutes after a claim its goroutine has no time left to record anything.
ProcessAtReached(e) ==
  /\ events[e].status \in {"pending", "processing"} /\ ~events[e].visible
  /\ events' = [events EXCEPT ![e].visible = TRUE]
  /\ runs' = {IF run.event = e /\ events[e].status = "processing"
              THEN [run EXCEPT !.late = TRUE] ELSE run : run \in runs}
  /\ UNCHANGED <<successes, failures, notified, stopping>>

Stop ==
  /\ ~stopping
  /\ stopping' = TRUE
  /\ UNCHANGED <<events, runs, successes, failures, notified>>

\* A crash, or the end of the 30 seconds that Stop waits, and a new start.
Restart ==
  /\ runs' = {} /\ stopping' = FALSE
  /\ UNCHANGED <<events, successes, failures, notified>>

-----------------------------------------------------------------------------
Init ==
  /\ events = [e \in Events |-> [status |-> "absent", retries |-> 0, visible |-> FALSE]]
  /\ runs = {}
  /\ successes = [e \in Events |-> 0] /\ failures = [e \in Events |-> 0]
  /\ notified = {}
  /\ stopping = FALSE

Returns(run) == HandlerSucceeds(run) \/ HandlerFails(run)
Records(run) == MarkCompleted(run) \/ ScheduleRetry(run) \/ MarkFailed(run)

Next ==
  \/ \E e \in Events : ProcessAtReached(e) \/ \E visible \in BOOLEAN : Enqueue(e, visible)
  \/ \E S \in SUBSET Events : ClaimBatch(S)
  \/ \E run \in runs : \/ Returns(run) \/ HandlerTimesOut(run)
                       \/ Records(run) \/ NotifyDeadLettered(run)
                       \/ RecordFails(run) \/ DbTimeout(run)
  \/ Stop
  \/ Restart

Spec == Init /\ [][Next]_vars

\* The loop polls every 5 seconds while the server runs, and a stopped server is
\* started again.  For each event, not every claim is lost, not every handler
\* overruns the 10 seconds, and not every outcome fails to be recorded.
FairSpec ==
  /\ Spec
  /\ WF_vars(stopping /\ Restart)
  /\ \A e \in Events :
       /\ WF_vars(ProcessAtReached(e))
       /\ SF_vars(\E S \in SUBSET Events : e \in S /\ ClaimBatch(S) /\ runs' # runs)
       /\ SF_vars(\E run \in runs : run.event = e /\ ~run.late /\ Returns(run))
       /\ SF_vars(\E run \in runs : run.event = e /\ Records(run))

-----------------------------------------------------------------------------
(* Properties.                                                             *)

\* Rows, goroutines and tallies have the shape of the table and of claimedRow.
TypeOK ==
  /\ events \in [Events -> EventRow]
  /\ runs \subseteq Run
  /\ successes \in [Events -> Nat] /\ failures \in [Events -> Nat]
  /\ notified \subseteq Events
  /\ stopping \in BOOLEAN

\* Although every UPDATE of process names only the id, no goroutine whose claim
\* was taken over revives an event that is completed or dead-lettered.
FinishedStaysFinished ==
  [][\A e \in Events :
       events[e].status \in Finished => events'[e].status = events[e].status]_vars

\* The recorded outcome is what happened: a completed event was handled, a
\* dead-lettered one failed at least MaxRetries times (or has no handler), and
\* a dead-letter notice is only ever out for a failed event.
OutcomeIsTrue ==
  /\ \A e \in Events : events[e].status = "completed" => successes[e] > 0
  /\ \A e \in Registered : events[e].status = "failed" => failures[e] >= MaxRetries
  /\ \A e \in notified : events[e].status = "failed"

\* retry_count of a dead-lettered event is MaxRetries, also when crashes and
\* takeovers came between the attempts, and stays 0 if no handler was called.
DeadLetterIsExhausted ==
  \A e \in Events : events[e].status = "failed" =>
    events[e].retries = IF e \in Registered THEN MaxRetries ELSE 0

\* No event is stranded by crashes, restarts, lost claims or takeovers.
EventSettles ==
  \A e \in Events : (events[e].status = "pending") ~> (events[e].status \in Finished)

=============================================================================
