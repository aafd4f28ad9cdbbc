--------------------------- MODULE EventsListener ---------------------------
(***************************************************************************)
(* The listener of internal/platform/events: one goroutine that connects   *)
(* to PostgreSQL, LISTENs, calls onReconnect when the connection is not    *)
(* its first attempt, and then starts a goroutine per notification and     *)
(* handler.  A notification reaches only a session that LISTENs when the   *)
(* announcing transaction commits.  The session can die at any moment and  *)
(* the listener finds out later, by an error or a ping after 90 seconds.   *)
(*                                                                         *)
(* RealtimeHub and AvailabilityCache extend this module with what their    *)
(* handler and their part of onReconnect do.                               *)
(***************************************************************************)
EXTENDS Integers, Sequences, FiniteSets

CONSTANTS
  Changes,      \* committed changes that are announced on reservation_changes
  Handlers,     \* the handlers registered with On before Start
  Payloads      \* the shapes the announcements have

\* "action": what notifyReservationChange and the sweeps send, an action and an
\* id.  "row": what the handlers parse, with a property and the dates of the
\* stay.  "garbled": not JSON.
ASSUME PayloadsAssumption == Payloads \subseteq {"action", "row", "garbled"}

VARIABLES
  link,         \* where run and connect are
  isReconnect,  \* the variable of run
  session,      \* the server side of the connection is alive
  wire,         \* notifications sent to the session and not yet dispatched
  handling,     \* the goroutines of dispatch
  cancelled,    \* l.ctx is cancelled
  stopped,      \* Stop has returned
  payload       \* the shape of each announcement; "none": not announced

listenerVars == <<link, isReconnect, session, wire, handling, cancelled, stopped, payload>>

\* The places of connect behind LISTEN.
Subscribed == {"flushing", "resyncing", "listening", "dispatching"}

Links == {"down", "connected", "flushing", "resyncing", "listening", "dispatching", "returned"}

Goroutine == [handler : Handlers, change : Changes]

ListenerTypeOK ==
  /\ link \in Links
  /\ isReconnect \in BOOLEAN
  /\ session \in BOOLEAN
  /\ wire \in Seq(Changes)
  /\ handling \subseteq Goroutine
  /\ cancelled \in BOOLEAN
  /\ stopped \in BOOLEAN
  /\ payload \in [Changes -> Payloads \cup {"none"}]

ListenerInit ==
  /\ link = "down"
  /\ isReconnect = FALSE
  /\ session = FALSE
  /\ wire = <<>>
  /\ handling = {}
  /\ cancelled = FALSE
  /\ stopped = FALSE
  /\ payload = [k \in Changes |-> "none"]

-----------------------------------------------------------------------------
(* PostgreSQL                                                              *)

Announced(k) == payload[k] # "none"

\* A transaction that called NotifyChannel commits.
Announce(k, p) ==
  /\ ~Announced(k)
  /\ payload' = [payload EXCEPT ![k] = p]
  /\ wire' = IF session /\ link \in Subscribed THEN Append(wire, k) ELSE wire
  /\ UNCHANGED <<link, isReconnect, session, handling, cancelled, stopped>>

\* The session dies; what it had already sent may still be read.
SessionDies ==
  /\ session
  /\ session' = FALSE
  /\ \E n \in (IF link = "dispatching" THEN 1 ELSE 0) .. Len(wire) : wire' = SubSeq(wire, 1, n)
  /\ UNCHANGED <<link, isReconnect, handling, cancelled, stopped, payload>>

-----------------------------------------------------------------------------
(* run and connect                                                         *)

\* pgx.Connect succeeds; when it fails the loop backs off and tries again.
Connect ==
  /\ link = "down" /\ ~cancelled
  /\ \/ link' = "connected" /\ session' = TRUE /\ UNCHANGED isReconnect
     \/ isReconnect' = TRUE /\ UNCHANGED <<link, session>>
  /\ UNCHANGED <<wire, handling, cancelled, stopped, payload>>

\* LISTEN on every channel, then onReconnect unless this is the first attempt.
Listen ==
  /\ link = "connected" /\ session /\ ~cancelled
  /\ link' = IF isReconnect THEN "flushing" ELSE "listening"
  /\ UNCHANGED <<isReconnect, session, wire, handling, cancelled, stopped, payload>>

\* The two halves of the onReconnect closure.
OnReconnectFlush ==
  /\ link = "flushing"
  /\ link' = "resyncing"
  /\ UNCHANGED <<isReconnect, session, wire, handling, cancelled, stopped, payload>>

OnReconnectResync ==
  /\ link = "resyncing"
  /\ link' = "listening"
  /\ UNCHANGED <<isReconnect, session, wire, handling, cancelled, stopped, payload>>

\* Mutant: a wait that times out does not ping.
DisconnectOnError ==
  /\ ~session /\ ~cancelled
  /\ link = "connected"
  /\ link' = "down"
  /\ isReconnect' = TRUE
  /\ UNCHANGED <<session, wire, handling, cancelled, stopped, payload>>

\* Mutant: only a connect that returned nil makes the next one a reconnect.
DisconnectForgets ==
  /\ ~session /\ ~cancelled
  /\ link = "connected" \/ (link = "listening" /\ wire = <<>>)
  /\ link' = "down"
  /\ UNCHANGED <<isReconnect, session, wire, handling, cancelled, stopped, payload>>

\* connect returns an error: LISTEN, the wait or the ping failed.
Disconnect ==
  /\ ~session /\ ~cancelled
  /\ link = "connected" \/ (link = "listening" /\ wire = <<>>)
  /\ link' = "down"
  /\ isReconnect' = TRUE
  /\ UNCHANGED <<session, wire, handling, cancelled, stopped, payload>>

\* WaitForNotification returns; the notification is not dispatched yet.
Receive ==
  /\ link = "listening" /\ wire # <<>> /\ ~cancelled
  /\ link' = "dispatching"
  /\ UNCHANGED <<isReconnect, session, wire, handling, cancelled, stopped, payload>>

\* dispatch: a goroutine per handler, none when the payload is not JSON.
Dispatch ==
  /\ link = "dispatching"
  /\ link' = "listening"
  /\ wire' = Tail(wire)
  /\ handling' = IF payload[Head(wire)] = "garbled" THEN handling
                 ELSE handling \cup [handler : Handlers, change : {Head(wire)}]
  /\ UNCHANGED <<isReconnect, session, cancelled, stopped, payload>>

\* A goroutine of dispatch ends.
Handled(h, k) ==
  /\ [handler |-> h, change |-> k] \in handling
  /\ handling' = handling \ {[handler |-> h, change |-> k]}
  /\ UNCHANGED <<link, isReconnect, session, wire, cancelled, stopped, payload>>

-----------------------------------------------------------------------------
(* Stop                                                                    *)

Cancel ==
  /\ ~cancelled
  /\ cancelled' = TRUE
  /\ UNCHANGED <<link, isReconnect, session, wire, handling, stopped, payload>>

\* run returns and closes its connection; it does not look at the context
\* inside onReconnect and dispatch.
RunReturns ==
  /\ cancelled /\ link \in {"down", "connected", "listening"}
  /\ link' = "returned"
  /\ session' = FALSE
  /\ wire' = <<>>
  /\ UNCHANGED <<isReconnect, handling, cancelled, stopped, payload>>

\* Mutant: the goroutine of run is not in the wait group.
StopLeavesRun ==
  /\ cancelled /\ ~stopped /\ handling = {}
  /\ stopped' = TRUE
  /\ UNCHANGED <<link, isReconnect, session, wire, handling, cancelled, payload>>

\* wg.Wait ends.
StopReturns ==
  /\ cancelled /\ ~stopped /\ link = "returned" /\ handling = {}
  /\ stopped' = TRUE
  /\ UNCHANGED <<link, isReconnect, session, wire, handling, cancelled, payload>>

\* The process dies or has stopped, and starts again.
Restarted ==
  /\ link' = "down"
  /\ isReconnect' = FALSE
  /\ session' = FALSE
  /\ wire' = <<>>
  /\ handling' = {}
  /\ cancelled' = FALSE
  /\ stopped' = FALSE
  /\ UNCHANGED payload

=============================================================================
