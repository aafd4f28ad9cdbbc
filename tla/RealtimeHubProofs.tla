------------------------- MODULE RealtimeHubProofs -------------------------
(***************************************************************************)
(* No open stream loses a change silently, no send panics and no handler   *)
(* runs after Stop, for any clients, properties, changes and buffer size.  *)
(***************************************************************************)
EXTENDS RealtimeHub, EventsListenerProofs, FiniteSetTheorems

\* Only an open stream is owed anything, and it is in h.clients.
StreamsOK ==
  \A c \in Clients :
    /\ stream[c] = "open" => c \in clients
    /\ owed[c] # {} => stream[c] = "open"
    /\ \A k \in owed[c] : Announced(k) /\ PropertyOf[c] = Subject[k]

\* What NothingMissedSilently says of one change that client c is owed.
Covered(c, k) ==
  \/ Holds(wire, k)
  \/ [handler |-> "hub", change |-> k] \in handling
  \/ Holds(buffer[c], k) \/ Holds(buffer[c], "resync")
  \/ ResyncComing
  \/ Excused(c, k)

Inv ==
  /\ TypeOK /\ WireOK /\ StopOK
  /\ StreamsOK /\ SendsReachOpenChannels
  /\ \A c \in Clients : \A k \in owed[c] : Covered(c, k)

-----------------------------------------------------------------------------
(* Steps of the listener that the hub does not see.                        *)

\* No step of the listener alone uncovers a change: what a dying session takes
\* with it is made good by the resync of the next one.
LEMMA ListenerCovers ==
  ASSUME Inv, ListenerStep, NEW c \in Clients, NEW k \in Changes, Covered(c, k)
  PROVE  Covered(c, k)'
<1>1. UNCHANGED hubVars /\ wire \in Seq(Changes)
  BY DEF ListenerStep, Inv, TypeOK, ListenerTypeOK
<1>2. /\ Excused(c, k) => Excused(c, k)'
      /\ UNCHANGED <<Holds(buffer[c], k), Holds(buffer[c], "resync")>>
  BY <1>1 DEF ListenerStep, hubVars, Excused, Holds, SessionDies, Connect, Listen, OnReconnectFlush,
     Disconnect, Receive, Dispatch, Cancel, RunReturns, StopReturns
<1>3. CASE SessionDies
  <2>1. link \in Subscribed \/ UNCHANGED wire
    <3>1. CASE wire = <<>>
      <4>1. PICK n \in (IF link = "dispatching" THEN 1 ELSE 0) .. Len(wire) :
              wire' = SubSeq(wire, 1, n)
        BY <1>3 DEF SessionDies
      <4>2. n \in 0 .. Len(wire)
        BY <4>1
      <4> QED  BY <1>1, <3>1, <4>1, <4>2, PrefixTyped
    <3> QED  BY <3>1 DEF Inv, WireOK
  <2>2. link \in Subscribed => ResyncComing'
    BY <1>3 DEF SessionDies, Subscribed, ResyncComing
  <2>3. ResyncComing => ResyncComing'
    BY <1>3 DEF SessionDies, ResyncComing
  <2> QED  BY <1>2, <1>3, <2>1, <2>2, <2>3 DEF SessionDies, Covered
<1>4. CASE Connect \/ Listen \/ OnReconnectFlush \/ Disconnect \/ Receive
  <2>1. UNCHANGED <<wire, handling>>
    BY <1>4 DEF Connect, Listen, OnReconnectFlush, Disconnect, Receive
  <2>2. ResyncComing => ResyncComing'
    BY <1>4 DEF Connect, Listen, OnReconnectFlush, Disconnect, Receive, ResyncComing
  <2> QED  BY <1>2, <2>1, <2>2 DEF Covered
<1>5. CASE Dispatch
  <2>1. wire # <<>> /\ UNCHANGED <<payload, session>> /\ wire' = Tail(wire)
        /\ link = "dispatching" /\ link' = "listening"
    BY <1>5 DEF Dispatch, Inv, WireOK
  <2>2. Holds(wire, k) => k = Head(wire) \/ Holds(Tail(wire), k)
    BY <1>1, <2>1, TailHolds
  <2>3. handling \subseteq handling'
    BY <1>5 DEF Dispatch
  <2>4. k = Head(wire) /\ payload[k] # "garbled" => [handler |-> "hub", change |-> k] \in handling'
    BY <1>5, HubAssumption DEF Dispatch
  <2>5. payload[k] = "garbled" => Excused(c, k)'
    BY <2>1 DEF Excused
  <2>6. ResyncComing => ResyncComing'
    BY <2>1 DEF ResyncComing
  <2> QED  BY <1>2, <2>1, <2>2, <2>3, <2>4, <2>5, <2>6 DEF Covered
<1>6. CASE Cancel \/ RunReturns
  BY <1>6 DEF Cancel, RunReturns, Covered, Excused
<1>7. CASE StopReturns
  BY <1>2, <1>7 DEF StopReturns, Covered, ResyncComing
<1> QED  BY <1>3, <1>4, <1>5, <1>6, <1>7 DEF ListenerStep

\* Such a step keeps the invariant.
LEMMA ListenerKeepsInv ==
  ASSUME Inv, ListenerStep
  PROVE  Inv'
<1>1. ListenerActions /\ UNCHANGED hubVars /\ UNCHANGED payload
  BY DEF ListenerStep, ListenerActions, SessionDies, Connect, Listen, OnReconnectFlush,
     Disconnect, Receive, Dispatch, Cancel, RunReturns, StopReturns
<1>2. TypeOK' /\ WireOK' /\ StopOK'
  BY <1>1, ListenerTyped, ListenerGuards DEF Inv, TypeOK, hubVars
<1>3. StreamsOK' /\ SendsReachOpenChannels'
  BY <1>1 DEF Inv, StreamsOK, SendsReachOpenChannels, hubVars, Announced
<1>4. ASSUME NEW c \in Clients, NEW k \in owed'[c]
      PROVE  Covered(c, k)'
  BY <1>1, ListenerCovers DEF Inv, TypeOK, hubVars
<1> QED  BY <1>2, <1>3, <1>4 DEF Inv

-----------------------------------------------------------------------------
(* Streams.                                                                *)

\* A client that is told a message is owed what the message does not tell; a
\* stream that ends is owed nothing.
LEMMA StreamKeepsInv ==
  ASSUME Inv, NEW c \in Clients,
         Subscribe(c) \/ Deliver(c) \/ HangUp(c) \/ Unregister(c) \/ Close(c)
  PROVE  Inv'
<1>1. UNCHANGED listenerVars /\ UNCHANGED early
  BY DEF Subscribe, Deliver, HangUp, Unregister, Close
<1>2. ListenerTypeOK' /\ WireOK' /\ StopOK'
  BY <1>1 DEF Inv, TypeOK, ListenerTypeOK, WireOK, StopOK, listenerVars
<1>3. \A d \in Clients : buffer[d] \in Seq(Messages) /\ Len(buffer[d]) \in Nat
  BY LenProperties DEF Inv, TypeOK
<1>4. /\ buffer[c] # <<>> => /\ Tail(buffer[c]) \in Seq(Messages) /\ Head(buffer[c]) \in Messages
                             /\ Len(Tail(buffer[c])) = Len(buffer[c]) - 1
                             /\ \A x : Holds(buffer[c], x) => x = Head(buffer[c]) \/ Holds(Tail(buffer[c]), x)
      /\ <<>> \in Seq(Messages) /\ Len(<<>>) = 0
  BY <1>3, TailHolds, EmptySeq
<1>5. TypeOK'
  <2>1. clients' \subseteq Clients /\ stream' \in [Clients -> {"absent", "open", "gone", "ending"}]
    BY DEF Inv, TypeOK, Subscribe, Deliver, HangUp, Unregister, Close
  <2>2. owed' \in [Clients -> SUBSET Changes] /\ overflow' \in [Clients -> BOOLEAN]
    <3>1. owed \in [Clients -> SUBSET Changes] /\ overflow \in [Clients -> BOOLEAN]
      BY DEF Inv, TypeOK
    <3>2. CASE Deliver(c)
      <4>1. OwedAfter(c, Head(buffer[c])) \in SUBSET Changes
        BY <3>1 DEF OwedAfter
      <4>2. owed' \in [Clients -> SUBSET Changes]
        BY <3>1, <3>2, <4>1 DEF Deliver
      <4>3. overflow' \in [Clients -> BOOLEAN]
        BY <3>1, <3>2 DEF Deliver
      <4> QED  BY <4>2, <4>3
    <3>3. CASE Subscribe(c) \/ HangUp(c) \/ Unregister(c) \/ Close(c)
      BY <3>1, <3>3 DEF Subscribe, HangUp, Unregister, Close
    <3> QED  BY <3>2, <3>3
  <2>3. buffer' \in [Clients -> Seq(Messages)]
    BY <1>4 DEF Inv, TypeOK, Subscribe, Deliver, HangUp, Unregister, Close
  <2>4. \A d \in Clients : Len(buffer'[d]) <= BufferSize
    <3>1. CASE Deliver(c)
      <4>1. buffer' = [buffer EXCEPT ![c] = Tail(buffer[c])] /\ buffer[c] # <<>>
        BY <3>1 DEF Deliver
      <4>2. Len(Tail(buffer[c])) <= Len(buffer[c])
        BY <1>3, <1>4, <4>1
      <4> QED  BY <1>3, <1>4, <4>1, <4>2, HubAssumption DEF Inv, TypeOK
    <3>2. CASE Close(c)
      BY <1>4, <3>2, HubAssumption DEF Close, Inv, TypeOK
    <3> QED  BY <3>1, <3>2 DEF Inv, TypeOK, Subscribe, HangUp, Unregister
  <2>5. IsFiniteSet(clients') /\ Cardinality(clients') <= MaxSSEClients
    <3>1. IsFiniteSet(clients) /\ Cardinality(clients) <= MaxSSEClients /\ Cardinality(clients) \in Nat
      BY FS_CardinalityType DEF Inv, TypeOK
    <3>2. CASE Subscribe(c)
      <4>1. clients' = clients \cup {c} /\ Cardinality(clients) < MaxSSEClients
        BY <3>2 DEF Subscribe
      <4>2. /\ IsFiniteSet(clients \cup {c})
            /\ \/ Cardinality(clients \cup {c}) = Cardinality(clients)
               \/ Cardinality(clients \cup {c}) = Cardinality(clients) + 1
        BY <3>1, FS_AddElement
      <4> QED  BY <3>1, <4>1, <4>2, HubAssumption
    <3>3. CASE Unregister(c)
      <4>1. clients' = clients \ {c}
        BY <3>3 DEF Unregister
      <4>2. /\ IsFiniteSet(clients \ {c})
            /\ \/ Cardinality(clients \ {c}) = Cardinality(clients)
               \/ Cardinality(clients \ {c}) = Cardinality(clients) - 1
        BY <3>1, FS_RemoveElement
      <4> QED  BY <3>1, <4>1, <4>2, HubAssumption
    <3> QED  BY <3>1, <3>2, <3>3 DEF Deliver, HangUp, Close
  <2> QED  BY <1>1, <1>2, <2>1, <2>2, <2>3, <2>4, <2>5 DEF Inv, TypeOK
<1>6. owed'[c] \subseteq owed[c] /\ \A d \in Clients : d # c => owed'[d] = owed[d]
  BY DEF Inv, TypeOK, Subscribe, Deliver, HangUp, Unregister, Close, OwedAfter
<1>7. StreamsOK' /\ SendsReachOpenChannels'
  <2>1. \A k : Announced(k)' = Announced(k)
    BY <1>1 DEF Announced, listenerVars
  <2>2. ASSUME NEW d \in Clients
        PROVE  /\ stream'[d] = "open" => d \in clients'
               /\ owed'[d] # {} => stream'[d] = "open"
               /\ d \in clients' => stream'[d] \in {"open", "gone"}
    BY <1>6 DEF Inv, TypeOK, StreamsOK, SendsReachOpenChannels, Subscribe, Deliver, HangUp,
                Unregister, Close
  <2> QED  BY <1>5, <1>6, <2>1, <2>2 DEF Inv, TypeOK, StreamsOK, SendsReachOpenChannels
<1>8. ASSUME NEW d \in Clients, NEW k \in owed'[d]
      PROVE  Covered(d, k)'
  <2>1. k \in owed[d] /\ Covered(d, k)
    BY <1>6, <1>8 DEF Inv
  <2>2. ResyncComing' = ResyncComing /\ UNCHANGED <<wire, handling, payload, cancelled, early>>
    BY <1>1 DEF listenerVars, ResyncComing
  <2>3. CASE UNCHANGED <<buffer[d], overflow[d]>>
    BY <2>1, <2>2, <2>3 DEF Covered, Excused
  <2>4. CASE d = c /\ Deliver(c)
    <3>1. stream[c] = "open" /\ buffer[c] # <<>>
      BY <2>1, <2>4 DEF Inv, StreamsOK, Deliver
    <3>2. k # Head(buffer[c]) /\ Head(buffer[c]) # "resync"
      BY <1>8, <2>4, <3>1 DEF Deliver, OwedAfter, Inv, TypeOK
    <3>3. buffer'[c] = Tail(buffer[c]) /\ overflow'[c] = overflow[c]
      BY <2>4, <3>2 DEF Deliver, Inv, TypeOK
    <3> QED  BY <1>4, <2>1, <2>2, <2>4, <3>1, <3>2, <3>3 DEF Covered, Excused
  <2>5. CASE d = c /\ Close(c)
    BY <2>1, <2>5 DEF Inv, StreamsOK, Close
  <2> QED  BY <2>3, <2>4, <2>5 DEF Inv, TypeOK, Subscribe, Deliver, HangUp, Unregister, Close
<1> QED  BY <1>2, <1>5, <1>7, <1>8 DEF Inv

-----------------------------------------------------------------------------
(* The hub's side of the listener.                                         *)

\* A channel with room takes a message and stays within its size.
LEMMA RoomForOne ==
  ASSUME Inv, NEW c \in Clients, ~Full(c), NEW m \in Messages
  PROVE  /\ Append(buffer[c], m) \in Seq(Messages) /\ Len(Append(buffer[c], m)) <= BufferSize
         /\ Holds(Append(buffer[c], m), m)
         /\ \A x : Holds(buffer[c], x) => Holds(Append(buffer[c], m), x)
<1>1. buffer[c] \in Seq(Messages) /\ Len(buffer[c]) \in Nat
  BY LenProperties DEF Inv, TypeOK
<1> QED  BY <1>1, AppendHolds, HubAssumption DEF Full

\* When the loop of Subscribe has taken a message, a full channel takes another.
LEMMA RoomBehindOne ==
  ASSUME Inv, NEW c \in Clients, Full(c)
  PROVE  /\ Append(Tail(buffer[c]), "resync") \in Seq(Messages)
         /\ Len(Append(Tail(buffer[c]), "resync")) <= BufferSize
         /\ Holds(Append(Tail(buffer[c]), "resync"), "resync")
<1>1. buffer[c] \in Seq(Messages) /\ Len(buffer[c]) \in Nat /\ Len(buffer[c]) <= BufferSize
  BY LenProperties DEF Inv, TypeOK
<1>2. buffer[c] # <<>>
  BY <1>1, EmptySeq, HubAssumption DEF Full
<1>3. Tail(buffer[c]) \in Seq(Messages) /\ Len(Tail(buffer[c])) = Len(buffer[c]) - 1
  BY <1>1, <1>2, TailHolds
<1>4. "resync" \in Messages
  BY DEF Messages
<1>5. /\ Append(Tail(buffer[c]), "resync") \in Seq(Messages)
      /\ Len(Append(Tail(buffer[c]), "resync")) = Len(Tail(buffer[c])) + 1
      /\ Holds(Append(Tail(buffer[c]), "resync"), "resync")
  BY <1>3, <1>4, AppendHolds
<1> QED  BY <1>1, <1>3, <1>5

\* Behind the resync of a reconnect every open stream has one in its channel, or
\* its channel was full.
LEMMA ResyncKeepsInv ==
  ASSUME Inv, Resync
  PROVE  Inv'
<1>1. /\ OnReconnectResync /\ ListenerActions /\ UNCHANGED <<clients, stream, owed, early, payload>>
  BY DEF Resync, ListenerActions, OnReconnectResync
<1>2. "resync" \in Messages
  BY DEF Messages
<1>3. \A c \in Clients :
        /\ buffer'[c] = IF c \in clients /\ ~Full(c) THEN Append(buffer[c], "resync") ELSE buffer[c]
        /\ c \in clients /\ Full(c) => overflow'[c]
        /\ overflow'[c] \in BOOLEAN
  BY DEF Resync
<1>4. ListenerTypeOK' /\ WireOK' /\ StopOK'
  BY <1>1, ListenerTyped, ListenerGuards DEF Inv, TypeOK
<1>5. TypeOK'
  <2>1. buffer' \in [Clients -> Seq(Messages)] /\ \A c \in Clients : Len(buffer'[c]) <= BufferSize
    BY <1>2, <1>3, RoomForOne DEF Resync, Inv, TypeOK
  <2>2. overflow' \in [Clients -> BOOLEAN]
    BY <1>3 DEF Resync
  <2> QED  BY <1>1, <1>4, <2>1, <2>2 DEF Inv, TypeOK
<1>6. StreamsOK' /\ SendsReachOpenChannels'
  BY <1>1 DEF Inv, StreamsOK, SendsReachOpenChannels, Announced
<1>7. ASSUME NEW c \in Clients, NEW k \in owed'[c]
      PROVE  Covered(c, k)'
  <2>1. c \in clients
    BY <1>1, <1>7 DEF Inv, StreamsOK
  <2>2. CASE Full(c)
    BY <1>3, <2>1, <2>2 DEF Covered, Excused
  <2>3. CASE ~Full(c)
    BY <1>2, <1>3, <2>1, <2>3, RoomForOne DEF Covered
  <2> QED  BY <2>2, <2>3
<1> QED  BY <1>4, <1>5, <1>6, <1>7 DEF Inv

\* What fanOut does to one channel: nothing, the message, or a resync in place
\* of it; and when a full channel gets neither, that is remembered.
LEMMA FanOutChannel ==
  ASSUME Inv, NEW p, NEW m \in Messages, NEW raced, FanOut(p, m, raced), NEW c \in Clients
  PROVE  /\ buffer'[c] \in Seq(Messages) /\ Len(buffer'[c]) <= BufferSize
         /\ owed'[c] \subseteq owed[c] /\ overflow'[c] \in BOOLEAN
         /\ \/ Holds(buffer'[c], "resync")
            \/ /\ \A x : Holds(buffer[c], x) => Holds(buffer'[c], x)
               /\ overflow[c] => overflow'[c]
               /\ c \in clients /\ PropertyOf[c] = p => Holds(buffer'[c], m) \/ overflow'[c]
<1> DEFINE For == {d \in clients : PropertyOf[d] = p}
<1>0. /\ buffer[c] \in Seq(Messages) /\ Len(buffer[c]) <= BufferSize
      /\ owed[c] \subseteq Changes /\ overflow[c] \in BOOLEAN
  BY DEF Inv, TypeOK
<1>1. CASE c \in For /\ ~Full(c)
  <2>1. buffer'[c] = Append(buffer[c], m) /\ owed'[c] = owed[c] /\ overflow'[c] = overflow[c]
    BY <1>1 DEF FanOut
  <2> QED  BY <1>0, <1>1, <2>1, RoomForOne
<1>2. CASE c \in For /\ Full(c) /\ c \in raced
  <2>1. /\ buffer'[c] = Append(Tail(buffer[c]), "resync")
        /\ owed'[c] \subseteq owed[c] /\ overflow'[c] \in BOOLEAN
    BY <1>2 DEF FanOut, OwedAfter
  <2> QED  BY <1>2, <2>1, RoomBehindOne
<1>3. CASE c \in For /\ Full(c) /\ c \notin raced
  <2>1. buffer'[c] = buffer[c] /\ owed'[c] = owed[c] /\ overflow'[c]
    BY <1>3 DEF FanOut
  <2>2. overflow'[c] \in BOOLEAN
    BY <1>3 DEF FanOut
  <2> QED  BY <1>0, <2>1, <2>2
<1>4. CASE c \notin For
  <2>1. buffer'[c] = buffer[c] /\ owed'[c] = owed[c] /\ overflow'[c] = overflow[c]
    BY <1>4 DEF FanOut
  <2> QED  BY <1>0, <1>4, <2>1
<1> QED  BY <1>1, <1>2, <1>3, <1>4

\* The goroutine of an event ends only when the event is in every channel it is
\* for, or replaced, or cannot be told.
LEMMA OnEventKeepsInv ==
  ASSUME Inv, NEW k \in Changes, OnEvent(k)
  PROVE  Inv'
<1>1. /\ Handled("hub", k) /\ ListenerActions /\ UNCHANGED <<clients, stream, early>>
      /\ UNCHANGED <<link, isReconnect, session, wire, cancelled, payload>>
      /\ \A x \in Changes : x # k /\ [handler |-> "hub", change |-> x] \in handling =>
           [handler |-> "hub", change |-> x] \in handling'
  BY HubAssumption DEF OnEvent, Handled, ListenerActions
<1>2. ListenerTypeOK' /\ WireOK' /\ StopOK'
  BY <1>1, ListenerTyped, ListenerGuards DEF Inv, TypeOK
<1>3. ResyncComing' = ResyncComing
  BY <1>1 DEF ResyncComing
<1>4. CASE payload[k] = "row"
  <2>1. PICK raced : FanOut(Subject[k], k, raced)
    BY <1>4 DEF OnEvent
  <2>2. k \in Messages
    BY DEF Messages
  <2>3. ASSUME NEW c \in Clients
        PROVE  /\ buffer'[c] \in Seq(Messages) /\ Len(buffer'[c]) <= BufferSize
               /\ owed'[c] \subseteq owed[c] /\ overflow'[c] \in BOOLEAN
               /\ \/ Holds(buffer'[c], "resync")
                  \/ /\ \A x : Holds(buffer[c], x) => Holds(buffer'[c], x)
                     /\ overflow[c] => overflow'[c]
                     /\ c \in clients /\ PropertyOf[c] = Subject[k]
                          => Holds(buffer'[c], k) \/ overflow'[c]
    BY <2>1, <2>2, FanOutChannel
  <2>4. TypeOK'
    <3>1. /\ buffer' \in [Clients -> Seq(Messages)] /\ owed' \in [Clients -> SUBSET Changes]
          /\ overflow' \in [Clients -> BOOLEAN]
      BY <2>1, <2>3 DEF FanOut, Inv, TypeOK
    <3> QED  BY <1>1, <1>2, <2>3, <3>1 DEF Inv, TypeOK
  <2>5. StreamsOK' /\ SendsReachOpenChannels'
    BY <1>1, <2>3 DEF Inv, StreamsOK, SendsReachOpenChannels, Announced
  <2>6. ASSUME NEW c \in Clients, NEW x \in owed'[c]
        PROVE  Covered(c, x)'
    <3>1. x \in owed[c] /\ x \in Changes /\ Covered(c, x)
      BY <2>3, <2>6 DEF Inv, TypeOK
    <3>2. c \in clients /\ PropertyOf[c] = Subject[x]
      BY <3>1 DEF Inv, StreamsOK
    <3>3. CASE Holds(buffer'[c], "resync")
      BY <3>3 DEF Covered
    <3>4. CASE ~Holds(buffer'[c], "resync")
      <4>1. /\ \A y : Holds(buffer[c], y) => Holds(buffer'[c], y)
            /\ overflow[c] => overflow'[c]
            /\ x = k => Holds(buffer'[c], k) \/ overflow'[c]
        BY <2>3, <3>2, <3>4
      <4>2. Excused(c, x) => Excused(c, x)'
        BY <1>1, <4>1 DEF Excused
      <4>3. CASE x = k
        BY <4>1, <4>3 DEF Covered, Excused
      <4>4. CASE x # k
        BY <1>1, <1>3, <3>1, <4>1, <4>2, <4>4 DEF Covered
      <4> QED  BY <4>3, <4>4
    <3> QED  BY <3>3, <3>4
  <2> QED  BY <1>2, <2>4, <2>5, <2>6 DEF Inv
<1>5. CASE payload[k] # "row"
  <2>1. UNCHANGED <<buffer, owed, overflow>>
    BY <1>5 DEF OnEvent
  <2>2. TypeOK' /\ StreamsOK' /\ SendsReachOpenChannels'
    BY <1>1, <1>2, <2>1 DEF Inv, TypeOK, StreamsOK, SendsReachOpenChannels, Announced
  <2>3. ASSUME NEW c \in Clients, NEW x \in owed'[c]
        PROVE  Covered(c, x)'
    <3>1. x \in owed[c] /\ x \in Changes /\ Covered(c, x)
      BY <2>1, <2>3 DEF Inv, TypeOK
    <3>2. Excused(c, x)' = Excused(c, x)
      BY <1>1, <2>1 DEF Excused
    <3>3. CASE x = k
      BY <1>1, <1>5, <3>3 DEF Covered, Excused
    <3>4. CASE x # k
      BY <1>1, <1>3, <2>1, <3>1, <3>2, <3>4 DEF Covered
    <3> QED  BY <3>3, <3>4
  <2> QED  BY <1>2, <2>2, <2>3 DEF Inv
<1> QED  BY <1>4, <1>5

\* A change that commits is put on the wire, or a resync is to come, or no
\* LISTEN has happened yet, or run has returned.
LEMMA CommitKeepsInv ==
  ASSUME Inv, NEW k \in Changes, NEW p \in Payloads, Commit(k, p)
  PROVE  Inv'
<1>1. /\ Announce(k, p) /\ ListenerActions /\ UNCHANGED <<clients, stream, buffer, overflow>>
      /\ UNCHANGED <<link, isReconnect, session, handling, cancelled>>
      /\ ~Announced(k) /\ wire \in Seq(Changes) /\ early \subseteq early'
  BY DEF Commit, Announce, ListenerActions, Inv, TypeOK, ListenerTypeOK
<1>2. ListenerTypeOK' /\ WireOK' /\ StopOK'
  BY <1>1, ListenerTyped, ListenerGuards DEF Inv, TypeOK
<1>3. /\ \A x \in Changes : x # k => payload'[x] = payload[x]
      /\ Announced(k)'
  BY <1>1, PayloadsAssumption DEF Announce, Announced, Inv, TypeOK, ListenerTypeOK
<1>4. /\ \A x : Holds(wire, x) => Holds(wire', x)
      /\ session /\ link \in Subscribed => Holds(wire', k)
  BY <1>1, AppendHolds DEF Announce
<1>5. \A c \in Clients :
        owed'[c] = IF stream[c] = "open" /\ PropertyOf[c] = Subject[k] THEN owed[c] \cup {k} ELSE owed[c]
  BY DEF Commit
<1>6. TypeOK'
  <2>1. owed' \in [Clients -> SUBSET Changes] /\ early' \subseteq Changes
    BY DEF Commit, Inv, TypeOK
  <2> QED  BY <1>1, <1>2, <2>1 DEF Inv, TypeOK
<1>7. StreamsOK' /\ SendsReachOpenChannels'
  <2>1. \A x \in Changes : Announced(x) => Announced(x)'
    BY <1>1, <1>3 DEF Announced
  <2>2. ASSUME NEW c \in Clients, NEW x \in owed'[c]
        PROVE  stream[c] = "open" /\ PropertyOf[c] = Subject[x] /\ Announced(x)'
    <3>1. CASE x \in owed[c]
      BY <2>1, <3>1 DEF Inv, TypeOK, StreamsOK
    <3>2. CASE x \notin owed[c]
      BY <1>3, <1>5, <2>2, <3>2
    <3> QED  BY <3>1, <3>2
  <2> QED  BY <1>1, <2>2 DEF Inv, StreamsOK, SendsReachOpenChannels
<1>8. ASSUME NEW c \in Clients, NEW x \in owed'[c]
      PROVE  Covered(c, x)'
  <2>1. CASE x \in owed[c]
    <3>1. x \in Changes /\ x # k /\ Covered(c, x)
      BY <1>1, <2>1 DEF Inv, TypeOK, StreamsOK
    <3>2. Excused(c, x) => Excused(c, x)'
      BY <1>1, <1>3, <3>1 DEF Excused
    <3>3. ResyncComing' = ResyncComing
      BY <1>1 DEF ResyncComing
    <3> QED  BY <1>1, <1>4, <3>1, <3>2, <3>3 DEF Covered
  <2>2. CASE x = k
    <3>1. CASE session /\ link \in Subscribed
      BY <1>4, <2>2, <3>1 DEF Covered
    <3>2. CASE link \in Subscribed /\ ~session
      BY <1>1, <3>2 DEF Subscribed, Covered, ResyncComing
    <3>3. CASE link \in {"down", "connected"} /\ isReconnect
      BY <1>1, <3>3 DEF Covered, ResyncComing
    <3>4. CASE link \in {"down", "connected"} /\ ~isReconnect
      BY <2>2, <3>4 DEF Commit, Covered, Excused
    <3>5. CASE link = "returned"
      BY <1>1, <3>5 DEF Inv, StopOK, Covered, Excused
    <3> QED  BY <3>1, <3>2, <3>3, <3>4, <3>5 DEF Inv, TypeOK, ListenerTypeOK, Links, Subscribed
  <2> QED  BY <1>5, <1>8, <2>1, <2>2
<1> QED  BY <1>2, <1>6, <1>7, <1>8 DEF Inv

-----------------------------------------------------------------------------
\* Nothing is announced and no stream is open.
LEMMA InvInit == Init => Inv
<1> SUFFICES ASSUME Init PROVE Inv
  OBVIOUS
<1>1. <<>> \in Seq(Changes) /\ <<>> \in Seq(Messages) /\ Len(<<>>) = 0
  BY EmptySeq
<1>2. ListenerTypeOK /\ WireOK /\ StopOK
  BY <1>1 DEF Init, ListenerInit, ListenerTypeOK, WireOK, StopOK, Links
<1>3. TypeOK
  BY <1>1, <1>2, FS_EmptySet, HubAssumption DEF Init, TypeOK
<1>4. StreamsOK /\ SendsReachOpenChannels /\ \A c \in Clients : \A k \in owed[c] : Covered(c, k)
  BY DEF Init, StreamsOK, SendsReachOpenChannels
<1> QED  BY <1>2, <1>3, <1>4 DEF Inv

\* Every step of the listener, the hub, the clients and the database keeps the
\* invariant.
LEMMA InvStep == Inv /\ [Next]_vars => Inv'
<1> SUFFICES ASSUME Inv, [Next]_vars PROVE Inv'
  OBVIOUS
<1>1. CASE UNCHANGED vars
  BY <1>1 DEF vars, listenerVars, hubVars, Inv, TypeOK, ListenerTypeOK, WireOK, StopOK, StreamsOK,
     SendsReachOpenChannels, Announced, Covered, ResyncComing, Excused
<1> QED  BY <1>1, ListenerKeepsInv, ResyncKeepsInv, OnEventKeepsInv, CommitKeepsInv, StreamKeepsInv
         DEF Next

\* Every change an open stream is not yet told of is on its way to it, or a
\* resync is, or one of the named excuses applies: a reconnect of the listener
\* at any moment makes good what the dead session lost.
THEOREM NoSilentLoss == Spec => [](TypeOK /\ NothingMissedSilently)
<1>1. Inv => TypeOK /\ NothingMissedSilently
  BY DEF Inv, NothingMissedSilently, Covered, Holds
<1> QED  BY <1>1, InvInit, InvStep, PTL DEF Spec

\* OnEvent and Resync never send to a channel that Subscribe has closed, and
\* when Stop has returned no goroutine of dispatch runs or will be started.
THEOREM SendsAndStopAreSafe == Spec => [](SendsReachOpenChannels /\ StoppedIsQuiet)
<1>1. Inv => SendsReachOpenChannels /\ StoppedIsQuiet
  BY DEF Inv, StopOK, StoppedIsQuiet
<1> QED  BY <1>1, InvInit, InvStep, PTL DEF Spec
=============================================================================
