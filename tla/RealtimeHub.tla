---------------------------- MODULE RealtimeHub ----------------------------
(***************************************************************************)
(* The hub of internal/platform/realtime behind the events listener.  A    *)
(* stream has a bounded channel that OnEvent and Resync fill under the     *)
(* mutex without blocking, and that Subscribe empties without the mutex.   *)
(* A client that reads "resync" fetches everything again.                  *)
(***************************************************************************)
EXTENDS EventsListener

CONSTANTS
  Clients,        \* browser tabs
  Properties,
  PropertyOf,     \* the property each client subscribes for
  Subject,        \* the property each change belongs to
  BufferSize,     \* 64 in the code
  MaxSSEClients   \* 1000 in the code

ASSUME HubAssumption ==
  /\ "hub" \in Handlers
  /\ PropertyOf \in [Clients -> Properties]
  /\ Subject \in [Changes -> Properties]
  /\ BufferSize \in Nat \ {0}
  /\ MaxSSEClients \in Nat \ {0}
  /\ "resync" \notin Changes

VARIABLES
  clients,    \* the keys of h.clients
  stream,     \* "open", "gone" (the client hung up), "ending" (not yet closed)
  buffer,     \* the channel of each stream
  owed,       \* changes announced during the stream and not told to the client
  overflow,   \* a message for the stream was skipped because its channel is full
  early       \* changes announced before the first LISTEN of a first attempt

hubVars == <<clients, stream, buffer, owed, overflow, early>>
vars    == <<listenerVars, hubVars>>

Messages == Changes \cup {"resync"}

\* The streams have the shapes above, no channel holds more than it has room for,
\* and there are no more streams than maxSSEClients.
TypeOK ==
  /\ ListenerTypeOK
  /\ clients \subseteq Clients
  /\ IsFiniteSet(clients) /\ Cardinality(clients) <= MaxSSEClients
  /\ stream \in [Clients -> {"absent", "open", "gone", "ending"}]
  /\ buffer \in [Clients -> Seq(Messages)]
  /\ \A c \in Clients : Len(buffer[c]) <= BufferSize
  /\ owed \in [Clients -> SUBSET Changes]
  /\ overflow \in [Clients -> BOOLEAN]
  /\ early \subseteq Changes

Init ==
  /\ ListenerInit
  /\ clients = {}
  /\ stream = [c \in Clients |-> "absent"]
  /\ buffer = [c \in Clients |-> <<>>]
  /\ owed = [c \in Clients |-> {}]
  /\ overflow = [c \in Clients |-> FALSE]
  /\ early = {}

-----------------------------------------------------------------------------
(* Streams                                                                 *)

\* Mutant: len(h.clients) > maxSSEClients.
SubscribeAboveCapacity(c) ==
  /\ stream[c] = "absent"
  /\ Cardinality(clients) <= MaxSSEClients
  /\ clients' = clients \cup {c}
  /\ stream' = [stream EXCEPT ![c] = "open"]
  /\ UNCHANGED <<listenerVars, buffer, owed, overflow, early>>

\* Subscribe up to the loop; at capacity it answers 503.
Subscribe(c) ==
  /\ stream[c] = "absent"
  /\ Cardinality(clients) < MaxSSEClients
  /\ clients' = clients \cup {c}
  /\ stream' = [stream EXCEPT ![c] = "open"]
  /\ UNCHANGED <<listenerVars, buffer, owed, overflow, early>>

\* What the client knows after it read message m.
OwedAfter(c, m) == IF m = "resync" THEN {} ELSE owed[c] \ {m}

\* The loop of Subscribe takes a message and writes it.  Write errors are
\* ignored: a client that hung up is told nothing.
Deliver(c) ==
  /\ c \in clients /\ buffer[c] # <<>>
  /\ buffer' = [buffer EXCEPT ![c] = Tail(@)]
  /\ owed' = [owed EXCEPT ![c] = IF stream[c] = "open" THEN OwedAfter(c, Head(buffer[c])) ELSE @]
  /\ overflow' = [overflow EXCEPT ![c] = @ /\ Head(buffer[c]) # "resync"]
  /\ UNCHANGED <<listenerVars, clients, stream, early>>

\* The client closes the tab or the connection breaks.
HangUp(c) ==
  /\ stream[c] = "open"
  /\ stream' = [stream EXCEPT ![c] = "gone"]
  /\ owed' = [owed EXCEPT ![c] = {}]
  /\ UNCHANGED <<listenerVars, clients, buffer, overflow, early>>

\* Mutant: the channel is closed before it leaves the map.
CloseFirst(c) ==
  /\ stream[c] = "gone"
  /\ stream' = [stream EXCEPT ![c] = "absent"]
  /\ UNCHANGED <<listenerVars, clients, buffer, owed, overflow, early>>

\* r.Context() is done: the deferred function deletes the entry under the mutex...
Unregister(c) ==
  /\ stream[c] = "gone"
  /\ clients' = clients \ {c}
  /\ stream' = [stream EXCEPT ![c] = "ending"]
  /\ UNCHANGED <<listenerVars, buffer, owed, overflow, early>>

\* ... and closes the channel after unlocking.
Close(c) ==
  /\ stream[c] = "ending"
  /\ stream' = [stream EXCEPT ![c] = "absent"]
  /\ buffer' = [buffer EXCEPT ![c] = <<>>]
  /\ overflow' = [overflow EXCEPT ![c] = FALSE]
  /\ UNCHANGED <<listenerVars, clients, owed, early>>

-----------------------------------------------------------------------------
(* The hub's side of the listener                                          *)

Full(c) == Len(buffer[c]) >= BufferSize

\* Resync: a full channel is skipped.
Resync ==
  /\ OnReconnectResync
  /\ buffer' = [c \in Clients |-> IF c \in clients /\ ~Full(c) THEN Append(buffer[c], "resync") ELSE buffer[c]]
  /\ overflow' = [c \in Clients |-> overflow[c] \/ (c \in clients /\ Full(c))]
  /\ UNCHANGED <<clients, stream, owed, early>>

\* fanOut: m goes to every client of the property.  When a channel is full a
\* resync is tried next, which finds room only if the loop of Subscribe took a
\* message in between: raced are the clients it did that for.
FanOut(p, m, raced) ==
  LET For == {c \in clients : PropertyOf[c] = p}
  IN  /\ buffer' = [c \in Clients |->
                     CASE c \in For /\ ~Full(c)              -> Append(buffer[c], m)
                       [] c \in For /\ Full(c) /\ c \in raced -> Append(Tail(buffer[c]), "resync")
                       [] OTHER                               -> buffer[c]]
      /\ owed' = [c \in Clients |->
                   IF c \in For /\ Full(c) /\ c \in raced /\ stream[c] = "open"
                   THEN OwedAfter(c, Head(buffer[c])) ELSE owed[c]]
      /\ overflow' = [c \in Clients |->
                       CASE c \in For /\ Full(c) /\ c \notin raced -> TRUE
                         [] c \in For /\ Full(c) /\ c \in raced    -> overflow[c] /\ Head(buffer[c]) # "resync"
                         [] OTHER                                  -> overflow[c]]

\* OnEvent: an event without a property is dropped.
OnEvent(k) ==
  /\ Handled("hub", k)
  /\ IF payload[k] = "row"
     THEN \E raced \in SUBSET {c \in clients : Full(c)} : FanOut(Subject[k], k, raced)
     ELSE UNCHANGED <<buffer, owed, overflow>>
  /\ UNCHANGED <<clients, stream, early>>

\* A change commits; every open stream of its property is owed it.
Commit(k, p) ==
  /\ Announce(k, p)
  /\ owed' = [c \in Clients |->
               IF stream[c] = "open" /\ PropertyOf[c] = Subject[k] THEN owed[c] \cup {k} ELSE owed[c]]
  /\ early' = IF link \in {"down", "connected"} /\ ~isReconnect THEN early \cup {k} ELSE early
  /\ UNCHANGED <<clients, stream, buffer, overflow>>

ListenerStep ==
  /\ \/ SessionDies \/ Connect \/ Listen \/ OnReconnectFlush \/ Disconnect
     \/ Receive \/ Dispatch \/ Cancel \/ RunReturns \/ StopReturns
  /\ UNCHANGED hubVars

Next ==
  \/ ListenerStep
  \/ Resync
  \/ \E k \in Changes : OnEvent(k)
  \/ \E k \in Changes, p \in Payloads : Commit(k, p)
  \/ \E c \in Clients : Subscribe(c) \/ Deliver(c) \/ HangUp(c) \/ Unregister(c) \/ Close(c)

Spec == Init /\ [][Next]_vars

\* Goroutines are scheduled, clients read, and the database accepts a
\* connection and keeps it until LISTEN in the end.
Fairness ==
  /\ WF_vars(Connect /\ link' = "connected" /\ UNCHANGED hubVars)
  /\ SF_vars(Listen /\ UNCHANGED hubVars)
  /\ WF_vars((OnReconnectFlush \/ Disconnect \/ Receive \/ Dispatch) /\ UNCHANGED hubVars)
  /\ WF_vars(Resync)
  /\ \A k \in Changes : WF_vars(OnEvent(k))
  /\ \A c \in Clients : WF_vars(Deliver(c))

FairSpec == Spec /\ Fairness

-----------------------------------------------------------------------------
(* Properties                                                              *)

\* onReconnect is still to be called for the changes the session lost.
ResyncComing ==
  \/ link \in {"down", "connected"} /\ isReconnect
  \/ link \in {"flushing", "resyncing"}
  \/ link \in {"listening", "dispatching"} /\ ~session

\* The ways in which an open stream may lose a change for good.
Excused(c, k) ==
  \/ payload[k] # "row"
  \/ k \in early
  \/ overflow[c]
  \/ cancelled

\* Every change an open stream has not been told of is on its way to it: on
\* the wire, in a goroutine of dispatch, in the channel, or covered by a resync
\* that is in the channel or will be put there.  Otherwise it has no property,
\* or came before the first LISTEN, or the stream's channel was full, or the
\* listener is stopping.  connect calls onReconnect behind LISTEN for this.
NothingMissedSilently ==
  \A c \in Clients : \A k \in owed[c] :
    \/ \E i \in DOMAIN wire : wire[i] = k
    \/ [handler |-> "hub", change |-> k] \in handling
    \/ \E i \in DOMAIN buffer[c] : buffer[c][i] \in {k, "resync"}
    \/ ResyncComing
    \/ Excused(c, k)

\* OnEvent and Resync send only to channels that are not closed, although
\* Subscribe closes its channel without the mutex: a send would panic.
SendsReachOpenChannels == \A c \in clients : stream[c] \in {"open", "gone"}

\* Once Stop has returned, and main goes on to close Redis, no handler runs.
StoppedIsQuiet == stopped => handling = {}

\* Every change of an open stream's property is told to the client, by itself
\* or by a resync, or the stream ends or has an excuse to lose it.
ChangesAreTold ==
  \A c \in Clients, k \in Changes : k \in owed[c] ~> (k \notin owed[c] \/ Excused(c, k))

=============================================================================
