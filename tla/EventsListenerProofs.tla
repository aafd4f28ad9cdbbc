----------------------- MODULE EventsListenerProofs -----------------------
(***************************************************************************)
(* What the listener keeps, whatever its handlers do: lemmas for the       *)
(* proofs about the hub and the cache behind it.                           *)
(***************************************************************************)
EXTENDS EventsListener, SequenceTheorems, TLAPS

\* Notifications are under way only behind LISTEN, and the one that run
\* dispatches is the first of them.
WireOK ==
  /\ wire # <<>> => link \in Subscribed
  /\ link = "dispatching" => wire # <<>>

\* run returns only when Stop has cancelled it, and Stop only behind run.
StopOK ==
  /\ link = "returned" => cancelled
  /\ stopped => link = "returned" /\ handling = {}

\* m is one of the elements of s.
Holds(s, m) == \E i \in DOMAIN s : s[i] = m

-----------------------------------------------------------------------------
(* Sequences.                                                              *)

\* A message is added at the end of a channel or of the wire.
LEMMA AppendHolds ==
  ASSUME NEW S, NEW s \in Seq(S), NEW m \in S
  PROVE  /\ Append(s, m) \in Seq(S) /\ Append(s, m) # <<>> /\ Len(Append(s, m)) = Len(s) + 1
         /\ Holds(Append(s, m), m)
         /\ \A x : Holds(s, x) => Holds(Append(s, m), x)
<1>1. /\ Append(s, m) \in Seq(S) /\ Append(s, m) # <<>> /\ Len(Append(s, m)) = Len(s) + 1
      /\ \A i \in 1 .. Len(s) : Append(s, m)[i] = s[i]
      /\ Append(s, m)[Len(s) + 1] = m
  BY AppendProperties
<1>2. Len(s) \in Nat /\ DOMAIN s = 1 .. Len(s) /\ DOMAIN Append(s, m) = 1 .. Len(s) + 1
  BY <1>1, LenProperties
<1> QED  BY <1>1, <1>2 DEF Holds

\* The first message is taken.
LEMMA TailHolds ==
  ASSUME NEW S, NEW s \in Seq(S), s # <<>>
  PROVE  /\ Head(s) \in S /\ Tail(s) \in Seq(S) /\ Len(Tail(s)) = Len(s) - 1 /\ Len(s) > 0
         /\ \A x : Holds(s, x) => x = Head(s) \/ Holds(Tail(s), x)
<1>1. /\ Head(s) \in S /\ Tail(s) \in Seq(S) /\ Len(Tail(s)) = Len(s) - 1
      /\ \A i \in 1 .. Len(Tail(s)) : Tail(s)[i] = s[i + 1]
  BY HeadTailProperties
<1>2. /\ Len(s) \in Nat /\ Len(s) > 0 /\ DOMAIN s = 1 .. Len(s)
      /\ DOMAIN Tail(s) = 1 .. Len(s) - 1
  BY <1>1, LenProperties, EmptySeq
<1>3. Head(s) = s[1]
  OBVIOUS
<1>4. ASSUME NEW i \in DOMAIN s, i # 1
      PROVE  i - 1 \in DOMAIN Tail(s) /\ Tail(s)[i - 1] = s[i]
  BY <1>1, <1>2, <1>4
<1> QED  BY <1>1, <1>2, <1>3, <1>4 DEF Holds

\* What a dying session leaves on the wire.
LEMMA PrefixTyped ==
  ASSUME NEW S, NEW s \in Seq(S), NEW n \in 0 .. Len(s)
  PROVE  /\ SubSeq(s, 1, n) \in Seq(S)
         /\ n > 0 => SubSeq(s, 1, n) # <<>>
         /\ s = <<>> => SubSeq(s, 1, n) = <<>>
<1>1. Len(s) \in Nat /\ \A i \in 1 .. n : s[i] \in S
  BY LenProperties, ElementOfSeq
<1>2. SubSeq(s, 1, n) \in Seq(S) /\ Len(SubSeq(s, 1, n)) = n
  BY <1>1, SubSeqProperties
<1> QED  BY <1>1, <1>2, EmptySeq

-----------------------------------------------------------------------------
(* Types.                                                                  *)

\* The actions of the listener that leave the process alive.
ListenerActions ==
  \/ SessionDies \/ Connect \/ Listen \/ OnReconnectFlush \/ OnReconnectResync \/ Disconnect
  \/ Receive \/ Dispatch \/ Cancel \/ RunReturns \/ StopReturns
  \/ \E k \in Changes, h \in Handlers : Handled(h, k)
  \/ \E k \in Changes, p \in Payloads : Announce(k, p)

\* The listener keeps its shape; dispatching needs a notification.
LEMMA ListenerTyped ==
  ASSUME ListenerTypeOK, WireOK, ListenerActions
  PROVE  ListenerTypeOK'
<1> USE DEF ListenerTypeOK, Links
<1>1. CASE SessionDies
  <2>1. PICK n \in (IF link = "dispatching" THEN 1 ELSE 0) .. Len(wire) : wire' = SubSeq(wire, 1, n)
    BY <1>1 DEF SessionDies
  <2>2. n \in 0 .. Len(wire)
    BY <2>1
  <2> QED  BY <1>1, <2>1, <2>2, PrefixTyped DEF SessionDies
<1>2. CASE Connect \/ Listen \/ OnReconnectFlush \/ OnReconnectResync \/ Disconnect \/ Receive
  BY <1>2 DEF Connect, Listen, OnReconnectFlush, OnReconnectResync, Disconnect, Receive
<1>3. CASE Dispatch
  <2>1. Head(wire) \in Changes /\ Tail(wire) \in Seq(Changes)
    BY <1>3, TailHolds DEF Dispatch, WireOK
  <2>2. [handler : Handlers, change : {Head(wire)}] \subseteq Goroutine
    BY <2>1 DEF Goroutine
  <2> QED  BY <1>3, <2>1, <2>2 DEF Dispatch
<1>4. CASE Cancel \/ StopReturns
  BY <1>4 DEF Cancel, StopReturns
<1>5. CASE RunReturns
  <2>1. <<>> \in Seq(Changes)
    BY EmptySeq
  <2> QED  BY <1>5, <2>1 DEF RunReturns
<1>6. ASSUME NEW k \in Changes, NEW h \in Handlers, Handled(h, k)
      PROVE  ListenerTypeOK'
  BY <1>6 DEF Handled
<1>7. ASSUME NEW k \in Changes, NEW p \in Payloads, Announce(k, p)
      PROVE  ListenerTypeOK'
  BY <1>7, AppendHolds DEF Announce
<1> QED  BY <1>1, <1>2, <1>3, <1>4, <1>5, <1>6, <1>7 DEF ListenerActions

\* They keep what run and connect promise each other.
LEMMA ListenerGuards ==
  ASSUME ListenerTypeOK, WireOK, StopOK, ListenerActions
  PROVE  WireOK' /\ StopOK'
<1> USE DEF WireOK, StopOK, Subscribed
<1>1. CASE SessionDies
  <2>1. PICK n \in (IF link = "dispatching" THEN 1 ELSE 0) .. Len(wire) : wire' = SubSeq(wire, 1, n)
    BY <1>1 DEF SessionDies
  <2>2. n \in 0 .. Len(wire) /\ (link = "dispatching" => n > 0)
    BY <2>1
  <2>3. /\ link = "dispatching" => wire' # <<>>
        /\ wire = <<>> => wire' = <<>>
    BY <2>1, <2>2, PrefixTyped DEF ListenerTypeOK
  <2> QED  BY <1>1, <2>3 DEF SessionDies
<1>2. CASE Connect \/ Listen \/ OnReconnectFlush \/ OnReconnectResync \/ Disconnect \/ Receive
  BY <1>2 DEF Connect, Listen, OnReconnectFlush, OnReconnectResync, Disconnect, Receive
<1>3. CASE Dispatch
  BY <1>3 DEF Dispatch
<1>4. CASE Cancel \/ RunReturns \/ StopReturns
  BY <1>4 DEF Cancel, RunReturns, StopReturns
<1>5. ASSUME NEW k \in Changes, NEW h \in Handlers, Handled(h, k)
      PROVE  WireOK' /\ StopOK'
  BY <1>5 DEF Handled
<1>6. ASSUME NEW k \in Changes, NEW p \in Payloads, Announce(k, p)
      PROVE  WireOK' /\ StopOK'
  BY <1>6, AppendHolds DEF Announce, ListenerTypeOK
<1> QED  BY <1>1, <1>2, <1>3, <1>4, <1>5, <1>6 DEF ListenerActions
=============================================================================
