-------------------------- MODULE RoomBrokerProofs --------------------------
(***************************************************************************)
(* Theorems about the relay for any sessions, rooms, queue capacity and    *)
(* number of frames: types, the map of rooms, who gets a frame, when one   *)
(* is lost, and that the relay implements RoomMulticast.                   *)
(***************************************************************************)
EXTENDS RoomBroker, SequenceTheorems, TLAPS

-----------------------------------------------------------------------------
(* The elements of a queue after Append, Head and Tail.                    *)

\* A non-empty queue: its head is one of its elements, its tail has no others.
LEMMA QueueTake ==
    ASSUME NEW S, NEW q \in Seq(S), q # <<>>
    PROVE  /\ Head(q) \in S /\ Tail(q) \in Seq(S)
           /\ Len(Tail(q)) = Len(q) - 1
           /\ Head(q) = q[1] /\ 1 \in DOMAIN q
           /\ \A i \in DOMAIN Tail(q) : i + 1 \in DOMAIN q /\ Tail(q)[i] = q[i + 1]
           /\ Range(Tail(q)) \subseteq Range(q) /\ Head(q) \in Range(q)
           /\ Range(q) \subseteq Range(Tail(q)) \cup {Head(q)}
<1>1. /\ Head(q) \in S /\ Tail(q) \in Seq(S)
      /\ Len(Tail(q)) = Len(q) - 1
      /\ Head(q) = q[1] /\ 1 \in DOMAIN q
  OBVIOUS
<1>2. \A i \in DOMAIN Tail(q) : i + 1 \in DOMAIN q /\ Tail(q)[i] = q[i + 1]
  OBVIOUS
<1>3. Range(Tail(q)) \subseteq Range(q) /\ Head(q) \in Range(q)
  BY <1>1, <1>2 DEF Range
<1>4. ASSUME NEW i \in DOMAIN q, i # 1
      PROVE  i - 1 \in DOMAIN Tail(q) /\ Tail(q)[i - 1] = q[i]
  BY <1>4
<1>5. Range(q) \subseteq Range(Tail(q)) \cup {Head(q)}
  BY <1>1, <1>4 DEF Range
<1> QED BY <1>1, <1>2, <1>3, <1>5

\* Appending adds one element, at the end.
LEMMA QueuePut ==
    ASSUME NEW S, NEW q \in Seq(S), NEW e \in S
    PROVE  /\ Append(q, e) \in Seq(S)
           /\ Len(Append(q, e)) = Len(q) + 1
           /\ \A i \in DOMAIN Append(q, e) :
                \/ i \in DOMAIN q /\ Append(q, e)[i] = q[i]
                \/ i = Len(q) + 1 /\ Append(q, e)[i] = e
           /\ \A i \in DOMAIN q : i \in DOMAIN Append(q, e) /\ i <= Len(q)
           /\ Range(Append(q, e)) = Range(q) \cup {e}
<1>1. /\ Append(q, e) \in Seq(S)
      /\ Len(Append(q, e)) = Len(q) + 1
      /\ \A i \in DOMAIN Append(q, e) :
           \/ i \in DOMAIN q /\ Append(q, e)[i] = q[i]
           \/ i = Len(q) + 1 /\ Append(q, e)[i] = e
      /\ \A i \in DOMAIN q : i \in DOMAIN Append(q, e) /\ i <= Len(q)
  OBVIOUS
<1>2. /\ \A i \in DOMAIN q : Append(q, e)[i] = q[i]
      /\ Len(q) + 1 \in DOMAIN Append(q, e) /\ Append(q, e)[Len(q) + 1] = e
  OBVIOUS
<1>3. Range(Append(q, e)) = Range(q) \cup {e}
  BY <1>1, <1>2 DEF Range
<1> QED BY <1>1, <1>3

-----------------------------------------------------------------------------
(* A client's session has no room until it joins, and the broker's map     *)
(* holds nothing but rooms.                                                *)
NewIsOutside == \A s \in Session : phase[s] = "new" <=> room[s] = "outside"

USE RoomBrokerAssumption

\* The initial state is typed.
LEMMA InitTypeOK == Init => TypeOK
<1> SUFFICES ASSUME Init PROVE TypeOK
  OBVIOUS
<1> USE DEF Init
<1>1. <<>> \in Seq(Frame) /\ Len(<<>>) = 0
  OBVIOUS
<1>2. /\ out \in [Session -> Seq(Frame)] /\ dlv \in [Session -> Seq(Frame)]
      /\ \A s \in Session : Len(out[s]) <= OutCap
  BY <1>1
<1>3. DOMAIN rooms \subseteq Room /\ rooms \in [DOMAIN rooms -> SUBSET Session]
  OBVIOUS
<1> QED BY <1>2, <1>3 DEF TypeOK

\* Every step keeps the types: one case per action.
LEMMA NextTypeOK == TypeOK /\ [Next]_vars => TypeOK'
<1> SUFFICES ASSUME TypeOK, [Next]_vars PROVE TypeOK'
  OBVIOUS
<1> USE DEF TypeOK
<1>1. ASSUME NEW s \in Session, NEW r \in Room, Join(s, r) PROVE TypeOK'
  <2>1. DOMAIN rooms' \subseteq Room /\ rooms' \in [DOMAIN rooms' -> SUBSET Session]
    BY <1>1 DEF Join, Register, SessionsIn
  <2> QED BY <1>1, <2>1 DEF Join
<1>2. ASSUME NEW s \in Session, Broadcast(s) PROVE TypeOK'
  <2>1. SessionsIn(room[s]) \subseteq Session
    BY DEF SessionsIn
  <2> QED BY <1>2, <2>1 DEF Broadcast, Snapshot
<1>3. ASSUME NEW s \in Session, NEW t \in Session, Deliver(s, t) PROVE TypeOK'
  <2>1. out' \in [Session -> Seq(Frame)] /\ \A x \in Session : Len(out'[x]) <= OutCap
    <3>1. CASE out' = out
      BY <3>1
    <3>2. CASE Len(out[t]) < OutCap /\ out' = [out EXCEPT ![t] = Append(@, Current(s))]
      <4>1. Current(s) \in Frame
        BY DEF Current, Frame
      <4>2. /\ Append(out[t], Current(s)) \in Seq(Frame)
            /\ Len(Append(out[t], Current(s))) = Len(out[t]) + 1
        BY <4>1, QueuePut
      <4> QED BY <3>2, <4>2
    <3>3. out' = out \/ (/\ Len(out[t]) < OutCap
                         /\ out' = [out EXCEPT ![t] = Append(@, Current(s))])
      BY <1>3 DEF Deliver
    <3> QED BY <3>1, <3>2, <3>3
  <2>2. targets' = targets \/ targets' = [targets EXCEPT ![s] = @ \ {t}]
    BY <1>3 DEF Deliver
  <2>3. targets' \in [Session -> SUBSET Session]
    <3>1. targets[s] \ {t} \in SUBSET Session /\ targets \in [Session -> SUBSET Session]
      OBVIOUS
    <3> HIDE DEF TypeOK
    <3> QED BY <2>2, <3>1
  <2>4. panicked' \in BOOLEAN
    BY <1>3, Zenon DEF Deliver
  <2>5. UNCHANGED <<phase, room, rooms, sent, writer, alive, dlv>>
    BY <1>3, Zenon DEF Deliver
  <2> QED BY <2>1, <2>3, <2>4, <2>5
<1>4. ASSUME NEW s \in Session, WriterSend(s) \/ WriterFail(s) PROVE TypeOK'
  <2>1. /\ out[s] # <<>> /\ out[s] \in Seq(Frame)
        /\ out' = [out EXCEPT ![s] = Tail(@)]
    BY <1>4 DEF WriterSend, WriterFail
  <2>2. /\ Tail(out[s]) \in Seq(Frame) /\ Head(out[s]) \in Frame
        /\ Len(Tail(out[s])) = Len(out[s]) - 1
    BY <2>1, QueueTake
  <2>3. out' \in [Session -> Seq(Frame)] /\ \A x \in Session : Len(out'[x]) <= OutCap
    BY <2>1, <2>2
  <2>4. dlv' \in [Session -> Seq(Frame)]
    <3>1. CASE WriterFail(s)
      BY <3>1 DEF WriterFail
    <3>2. CASE WriterSend(s)
      <4>1. Append(dlv[s], Head(out[s])) \in Seq(Frame)
        BY <2>2, QueuePut
      <4>2. dlv' = [dlv EXCEPT ![s] = Append(@, Head(out[s]))]
        BY <3>2 DEF WriterSend
      <4> QED BY <4>1, <4>2
    <3> QED BY <1>4, <3>1, <3>2
  <2> QED BY <1>4, <2>3, <2>4 DEF WriterSend, WriterFail
<1>5. ASSUME NEW s \in Session, WriterDone(s) \/ ReadError(s) \/ Hangup(s) PROVE TypeOK'
  BY <1>5 DEF WriterDone, ReadError, Hangup
<1>6. ASSUME NEW s \in Session, Finish(s) PROVE TypeOK'
  <2>1. DOMAIN rooms' \subseteq Room /\ rooms' \in [DOMAIN rooms' -> SUBSET Session]
    BY <1>6 DEF Finish, Unregister, SessionsIn
  <2> QED BY <1>6, <2>1 DEF Finish
<1>7. CASE UNCHANGED vars
  BY <1>7 DEF vars
<1> QED BY <1>1, <1>2, <1>3, <1>4, <1>5, <1>6, <1>7 DEF Next

\* Every variable of the relay always has its type, and no outbound channel
\* exceeds its capacity (the select/default of Broadcast).
THEOREM TypeCorrect == Spec => []TypeOK
BY InitTypeOK, NextTypeOK, PTL DEF Spec
-----------------------------------------------------------------------------
\* A session that has not joined keeps having no room.
LEMMA NewIsOutsideStep ==
    TypeOK /\ NewIsOutside /\ [Next]_vars => NewIsOutside'
<1> SUFFICES ASSUME TypeOK, NewIsOutside, [Next]_vars PROVE NewIsOutside'
  OBVIOUS
<1>1. ASSUME NEW s \in Session, NEW r \in Room, Join(s, r) PROVE NewIsOutside'
  BY <1>1 DEF Join, NewIsOutside, TypeOK
<1>2. ASSUME NEW s \in Session, ReadError(s) \/ Finish(s) PROVE NewIsOutside'
  BY <1>2 DEF ReadError, Finish, NewIsOutside, TypeOK
<1>3. CASE UNCHANGED <<phase, room>>
  BY <1>3 DEF NewIsOutside
<1> QED BY <1>1, <1>2, <1>3, Zenon DEF Next, vars, Broadcast, Deliver, WriterSend,
        WriterFail, WriterDone, Hangup

\* Register and Unregister keep the map in step with the handlers.
LEMMA RoomsStep ==
    TypeOK /\ NewIsOutside /\ RoomsMatchSessions /\ [Next]_vars => RoomsMatchSessions'
<1> SUFFICES ASSUME TypeOK, NewIsOutside, RoomsMatchSessions, [Next]_vars
             PROVE  RoomsMatchSessions'
  OBVIOUS
<1>1. ASSUME NEW s \in Session, NEW r \in Room, Join(s, r) PROVE RoomsMatchSessions'
  <2>1. \A x \in Room : SessionsIn(x)' = IF x = r THEN SessionsIn(r) \cup {s}
                                                  ELSE SessionsIn(x)
    BY <1>1 DEF Join, Register, SessionsIn
  <2>2. \A x \in DOMAIN rooms' : rooms'[x] # {}
    BY <1>1 DEF Join, Register, SessionsIn, RoomsMatchSessions
  <2>3. ASSUME NEW x \in Session, NEW q \in Room
        PROVE  x \in SessionsIn(q)' <=> phase'[x] \in {"reading", "closed"} /\ room'[x] = q
    <3>1. x \in SessionsIn(q) <=> phase[x] \in {"reading", "closed"} /\ room[x] = q
      BY DEF RoomsMatchSessions
    <3>2. /\ phase'[x] = IF x = s THEN "reading" ELSE phase[x]
          /\ room'[x] = IF x = s THEN r ELSE room[x]
          /\ phase[s] = "new"
      BY <1>1 DEF Join, TypeOK
    <3> QED BY <2>1, <3>1, <3>2
  <2> QED BY <2>2, <2>3 DEF RoomsMatchSessions
<1>2. ASSUME NEW s \in Session, Finish(s) PROVE RoomsMatchSessions'
  <2>1. room[s] \in Room /\ s \in SessionsIn(room[s])
    BY <1>2 DEF Finish, NewIsOutside, RoomsMatchSessions, TypeOK
  <2>2. \A x \in Room : SessionsIn(x)' = IF x = room[s] THEN SessionsIn(x) \ {s}
                                                        ELSE SessionsIn(x)
    BY <1>2, <2>1 DEF Finish, Unregister, SessionsIn
  <2>3. \A x \in DOMAIN rooms' : rooms'[x] # {}
    BY <1>2, <2>1 DEF Finish, Unregister, SessionsIn, RoomsMatchSessions
  <2>4. ASSUME NEW x \in Session, NEW q \in Room
        PROVE  x \in SessionsIn(q)' <=> phase'[x] \in {"reading", "closed"} /\ room'[x] = q
    <3>1. x \in SessionsIn(q) <=> phase[x] \in {"reading", "closed"} /\ room[x] = q
      BY DEF RoomsMatchSessions
    <3>2. /\ phase'[x] = IF x = s THEN "gone" ELSE phase[x]
          /\ room'[x] = room[x]
      BY <1>2 DEF Finish, TypeOK
    <3> QED BY <2>2, <3>1, <3>2
  <2> QED BY <2>3, <2>4 DEF RoomsMatchSessions
<1>3. ASSUME NEW s \in Session, ReadError(s) PROVE RoomsMatchSessions'
  BY <1>3 DEF ReadError, RoomsMatchSessions, SessionsIn, TypeOK
<1>4. CASE UNCHANGED <<phase, room, rooms>>
  BY <1>4 DEF RoomsMatchSessions, SessionsIn
<1> QED BY <1>1, <1>2, <1>3, <1>4, Zenon DEF Next, vars, Broadcast, Deliver, WriterSend,
        WriterFail, WriterDone, Hangup

\* Snapshots, queues and what was written hold only frames of roommates.
LEMMA RoommatesStep ==
    TypeOK /\ NewIsOutside /\ RoomsMatchSessions /\ OnlyFromRoommates /\ [Next]_vars
        => OnlyFromRoommates'
<1> SUFFICES ASSUME TypeOK, NewIsOutside, RoomsMatchSessions, OnlyFromRoommates,
                    [Next]_vars
             PROVE  OnlyFromRoommates'
  OBVIOUS
<1>1. ASSUME NEW s \in Session, NEW r \in Room, Join(s, r) PROVE OnlyFromRoommates'
  <2>1. room[s] \notin Room
    BY <1>1 DEF Join, NewIsOutside
  <2>2. \A x, y \in Session : FromRoommate(x, y) => FromRoommate(x, y)'
    BY <1>1, <2>1 DEF Join, FromRoommate, TypeOK
  <2>3. \A t \in Session : \A f \in Range(out[t]) \cup Range(dlv[t]) : f[1] \in Session
    BY DEF TypeOK, Frame, Range
  <2> QED BY <1>1, <2>2, <2>3 DEF Join, OnlyFromRoommates
<1>2. ASSUME NEW s \in Session, Broadcast(s) PROVE OnlyFromRoommates'
  <2>1. room[s] \in Room
    BY <1>2 DEF Broadcast, NewIsOutside, TypeOK
  <2>2. \A t \in Snapshot(s) : t \in Session => FromRoommate(s, t)
    BY <2>1 DEF Snapshot, RoomsMatchSessions, FromRoommate
  <2>3. \A x \in Session : targets'[x] = IF x = s THEN Snapshot(s) ELSE targets[x]
    BY <1>2 DEF Broadcast, TypeOK
  <2>4. UNCHANGED <<room, out, dlv>>
    BY <1>2 DEF Broadcast
  <2> QED BY <2>2, <2>3, <2>4 DEF OnlyFromRoommates, FromRoommate
<1>3. ASSUME NEW s \in Session, NEW t \in Session, Deliver(s, t) PROVE OnlyFromRoommates'
  <2>1. FromRoommate(s, t) /\ Current(s)[1] = s /\ Current(s) \in Frame
    BY <1>3 DEF Deliver, OnlyFromRoommates, Current, Frame, TypeOK
  <2>2. UNCHANGED <<room, dlv>>
    BY <1>3 DEF Deliver
  <2>3. \A x \in Session : targets'[x] \subseteq targets[x]
    <3>1. targets' = targets \/ targets' = [targets EXCEPT ![s] = @ \ {t}]
      BY <1>3 DEF Deliver
    <3>2. targets \in [Session -> SUBSET Session]
      BY DEF TypeOK
    <3> QED BY <3>1, <3>2
  <2>4. \A x \in Session : Range(out'[x]) \subseteq
            IF x = t THEN Range(out[x]) \cup {Current(s)} ELSE Range(out[x])
    <3>1. CASE out' = out
      BY <3>1
    <3>2. CASE out' = [out EXCEPT ![t] = Append(@, Current(s))]
      <4>1. Range(Append(out[t], Current(s))) = Range(out[t]) \cup {Current(s)}
        BY <2>1, QueuePut DEF TypeOK
      <4>2. out'[t] = Append(out[t], Current(s)) /\ \A x \in Session \ {t} : out'[x] = out[x]
        BY <3>2 DEF TypeOK
      <4> QED BY <4>1, <4>2
    <3> QED BY <1>3, <3>1, <3>2 DEF Deliver
  <2> QED BY <2>1, <2>2, <2>3, <2>4 DEF OnlyFromRoommates, FromRoommate
<1>4. ASSUME NEW s \in Session, WriterSend(s) \/ WriterFail(s) PROVE OnlyFromRoommates'
  <2>1. out[s] # <<>> /\ out' = [out EXCEPT ![s] = Tail(@)] /\ UNCHANGED <<room, targets>>
    BY <1>4 DEF WriterSend, WriterFail
  <2>2. /\ Range(Tail(out[s])) \subseteq Range(out[s]) /\ Head(out[s]) \in Range(out[s])
        /\ Head(out[s]) \in Frame
    BY <2>1, QueueTake DEF TypeOK
  <2>3. \A x \in Session : Range(out'[x]) \subseteq Range(out[x])
    BY <2>1, <2>2 DEF TypeOK
  <2>4. \A x \in Session : Range(dlv'[x]) \subseteq Range(dlv[x]) \cup Range(out[x])
    <3>1. CASE dlv' = dlv
      BY <3>1
    <3>2. CASE dlv' = [dlv EXCEPT ![s] = Append(@, Head(out[s]))]
      <4>1. Range(Append(dlv[s], Head(out[s]))) = Range(dlv[s]) \cup {Head(out[s])}
        BY <2>2, QueuePut DEF TypeOK
      <4>2. /\ dlv'[s] = Append(dlv[s], Head(out[s]))
            /\ \A x \in Session \ {s} : dlv'[x] = dlv[x]
        BY <3>2 DEF TypeOK
      <4>3. ASSUME NEW x \in Session, NEW f \in Range(dlv'[x])
            PROVE  f \in Range(dlv[x]) \cup Range(out[x])
        <5>1. CASE x = s
          <6>1. Range(dlv'[x]) = Range(dlv[s]) \cup {Head(out[s])}
            BY <4>1, <4>2, <5>1, Zenon
          <6> QED BY <2>2, <4>3, <5>1, <6>1, Zenon
        <5>2. CASE x # s
          <6>1. dlv'[x] = dlv[x]
            BY <4>2, <5>2, Zenon
          <6> QED BY <4>3, <6>1, Zenon
        <5> QED BY <5>1, <5>2
      <4> QED BY <4>3
    <3>3. dlv' = dlv \/ dlv' = [dlv EXCEPT ![s] = Append(@, Head(out[s]))]
      BY <1>4 DEF WriterSend, WriterFail
    <3> QED BY <3>1, <3>2, <3>3
  <2> QED BY <2>1, <2>3, <2>4 DEF OnlyFromRoommates, FromRoommate
<1>5. CASE UNCHANGED <<room, targets, out, dlv>>
  BY <1>5 DEF OnlyFromRoommates, FromRoommate
<1> QED BY <1>1, <1>2, <1>3, <1>4, <1>5, Zenon DEF Next, vars, WriterDone, ReadError,
        Finish, Hangup

\* A writer that has returned although its connection works has found Out
\* closed and empty.
ExitedMeansDry ==
    \A s \in Session : writer[s] = "exited" /\ alive[s] => Closed(s) /\ out[s] = <<>>

\* The writer of a working connection exits only from a closed, dry queue.
LEMMA ExitedStep == TypeOK /\ ExitedMeansDry /\ [Next]_vars => ExitedMeansDry'
<1> SUFFICES ASSUME TypeOK, ExitedMeansDry, [Next]_vars, NEW x \in Session,
                    writer'[x] = "exited", alive'[x]
             PROVE  Closed(x)' /\ out'[x] = <<>>
  BY DEF ExitedMeansDry
<1>1. ASSUME NEW s \in Session, NEW r \in Room, Join(s, r)
      PROVE  Closed(x)' /\ out'[x] = <<>>
  BY <1>1 DEF Join, ExitedMeansDry, Closed, TypeOK
<1>2. ASSUME NEW s \in Session, NEW t \in Session, Deliver(s, t)
      PROVE  Closed(x)' /\ out'[x] = <<>>
  <2>0. UNCHANGED <<phase, writer, alive>>
    BY <1>2 DEF Deliver
  <2>1. Closed(x) /\ out[x] = <<>> /\ UNCHANGED phase
    BY <2>0, Zenon DEF ExitedMeansDry
  <2>2. \/ out' = out
        \/ ~Closed(t) /\ out' = [out EXCEPT ![t] = Append(@, Current(s))]
    BY <1>2 DEF Deliver
  <2>3. out \in [Session -> Seq(Frame)]
    BY DEF TypeOK
  <2> QED BY <2>1, <2>2, <2>3 DEF Closed
<1>3. ASSUME NEW s \in Session, WriterSend(s) \/ WriterFail(s)
      PROVE  Closed(x)' /\ out'[x] = <<>>
  BY <1>3 DEF WriterSend, WriterFail, ExitedMeansDry, Closed, TypeOK
<1>4. ASSUME NEW s \in Session, WriterDone(s) \/ ReadError(s) \/ Finish(s) \/ Hangup(s)
      PROVE  Closed(x)' /\ out'[x] = <<>>
  BY <1>4 DEF WriterDone, ReadError, Finish, Hangup, ExitedMeansDry, Closed, TypeOK
<1>5. CASE UNCHANGED <<phase, out, writer, alive>>
  BY <1>5 DEF ExitedMeansDry, Closed
<1> QED BY <1>1, <1>2, <1>3, <1>4, <1>5, Zenon DEF Next, vars, Broadcast
-----------------------------------------------------------------------------
(* The inductive invariant of the relay and its consequences.              *)
RelayInv ==
    /\ TypeOK
    /\ NewIsOutside
    /\ RoomsMatchSessions
    /\ OnlyFromRoommates
    /\ ExitedMeansDry

\* The inductive invariant of the relay.
LEMMA RelayInvariant == Spec => []RelayInv
<1>1. Init => RelayInv
  <2> SUFFICES ASSUME Init PROVE RelayInv
    OBVIOUS
  <2>1. NewIsOutside /\ RoomsMatchSessions /\ ExitedMeansDry
    BY DEF Init, NewIsOutside, RoomsMatchSessions, SessionsIn, ExitedMeansDry
  <2>2. OnlyFromRoommates
    BY DEF Init, OnlyFromRoommates, Range
  <2> QED BY <2>1, <2>2, InitTypeOK DEF RelayInv
<1>2. RelayInv /\ [Next]_vars => RelayInv'
  BY NextTypeOK, NewIsOutsideStep, RoomsStep, RoommatesStep, ExitedStep DEF RelayInv
<1> QED BY <1>1, <1>2, PTL DEF Spec

\* The broker's map always holds exactly the registered sessions, each under
\* its own room, and no empty room.
THEOREM RoomsMatch == Spec => []RoomsMatchSessions
BY RelayInvariant, PTL DEF RelayInv

\* No session is ever queued or written a frame of its own, or of another
\* room: the self-send guard and the room isolation of Broadcast.
THEOREM RoommatesOnly == Spec => []OnlyFromRoommates
BY RelayInvariant, PTL DEF RelayInv

\* A handler whose connection works returns only with an empty queue.
THEOREM DrainsBeforeLeaving == Spec => DrainedBeforeGone
<1>1. RelayInv /\ [Next]_vars =>
        [\A s \in Session : phase[s] = "closed" /\ phase'[s] = "gone" /\ alive[s]
              => out[s] = <<>>]_vars
  <2> SUFFICES ASSUME RelayInv, [Next]_vars, NEW x \in Session,
                      phase[x] = "closed", phase'[x] = "gone", alive[x]
               PROVE  out[x] = <<>>
    OBVIOUS
  <2>1. ASSUME NEW s \in Session, Finish(s) PROVE out[x] = <<>>
    BY <2>1 DEF Finish, RelayInv, TypeOK, ExitedMeansDry
  <2>2. ASSUME NEW s \in Session, NEW r \in Room, Join(s, r) PROVE out[x] = <<>>
    BY <2>2 DEF Join, RelayInv, TypeOK
  <2>3. ASSUME NEW s \in Session, ReadError(s) PROVE out[x] = <<>>
    BY <2>3 DEF ReadError, RelayInv, TypeOK
  <2>4. CASE UNCHANGED phase
    BY <2>4
  <2> QED BY <2>1, <2>2, <2>3, <2>4, Zenon DEF Next, vars, Broadcast, Deliver,
          WriterSend, WriterFail, WriterDone, Hangup
<1> QED BY <1>1, RelayInvariant, PTL DEF Spec, DrainedBeforeGone
-----------------------------------------------------------------------------
(* The relay implements the multicast.  A queue holds the frames of one    *)
(* sender in the order they were sent, and none that its sender is still   *)
(* delivering to this session, so the writer takes what is due first and   *)
(* takes it once.                                                          *)

\* The writer runs from Join until the handler waits for nothing else.
WriterServes ==
    \A s \in Session : /\ phase[s] = "new" => writer[s] = "none"
                       /\ phase[s] = "gone" => writer[s] = "exited"

QueueInOrder ==
    \A t \in Session : \A i, j \in 1 .. Len(out[t]) :
        i < j /\ out[t][i][1] = out[t][j][1] => out[t][i][2] < out[t][j][2]

\* What is queued was sent before what its sender is delivering now.
QueuedBefore ==
    \A t \in Session : \A i \in 1 .. Len(out[t]) :
        /\ out[t][i][2] <= sent[out[t][i][1]]
        /\ t \in targets[out[t][i][1]] => out[t][i][2] < sent[out[t][i][1]]

FifoInv == WriterServes /\ QueueInOrder /\ QueuedBefore

\* Frames are told apart by sender and number.
LEMMA FrameParts ==
    \A f \in Frame : f = <<f[1], f[2]>> /\ f[1] \in Session /\ f[2] \in Nat
BY DEF Frame

\* A session joins with a writer and leaves when the writer has exited.
LEMMA WriterServesStep == TypeOK /\ WriterServes /\ [Next]_vars => WriterServes'
<1> SUFFICES ASSUME TypeOK, WriterServes, [Next]_vars PROVE WriterServes'
  OBVIOUS
<1>1. ASSUME NEW s \in Session, NEW r \in Room, Join(s, r) PROVE WriterServes'
  BY <1>1 DEF Join, WriterServes, TypeOK
<1>2. ASSUME NEW s \in Session, ReadError(s) \/ Finish(s) PROVE WriterServes'
  BY <1>2 DEF ReadError, Finish, WriterServes, TypeOK
<1>3. ASSUME NEW s \in Session, WriterFail(s) \/ WriterDone(s) PROVE WriterServes'
  BY <1>3 DEF WriterFail, WriterDone, WriterServes, TypeOK
<1>4. CASE UNCHANGED <<phase, writer>>
  BY <1>4 DEF WriterServes
<1> QED BY <1>1, <1>2, <1>3, <1>4, Zenon DEF Next, vars, Broadcast, Deliver, WriterSend, Hangup

\* Queues stay in order: Deliver appends the latest frame of its sender once,
\* writers take from the front, and Broadcast numbers a new frame higher.
LEMMA FifoStep ==
    TypeOK /\ QueueInOrder /\ QueuedBefore /\ [Next]_vars => QueueInOrder' /\ QueuedBefore'
<1> SUFFICES ASSUME TypeOK, QueueInOrder, QueuedBefore, [Next]_vars
             PROVE  QueueInOrder' /\ QueuedBefore'
  OBVIOUS
<1>0. /\ out \in [Session -> Seq(Frame)] /\ sent \in [Session -> Nat]
      /\ targets \in [Session -> SUBSET Session]
  BY DEF TypeOK
<1>q. \A t \in Session : \A i \in 1 .. Len(out[t]) :
         out[t][i][1] \in Session /\ out[t][i][2] \in Nat
  BY <1>0, FrameParts
<1>1. ASSUME NEW s \in Session, Broadcast(s) PROVE QueueInOrder' /\ QueuedBefore'
  <2>1. out' = out /\ \A x \in Session : /\ x # s => sent'[x] = sent[x] /\ targets'[x] = targets[x]
                                         /\ x = s => sent'[x] = sent[x] + 1
    BY <1>0, <1>1 DEF Broadcast
  <2>2. QueueInOrder' BY <2>1 DEF QueueInOrder
  <2>3. ASSUME NEW t \in Session, NEW i \in 1 .. Len(out[t])
        PROVE  /\ out[t][i][2] <= sent'[out[t][i][1]]
               /\ t \in targets'[out[t][i][1]] => out[t][i][2] < sent'[out[t][i][1]]
    <3>1. PICK x \in Session, n \in Nat : out[t][i][1] = x /\ out[t][i][2] = n
      BY <1>q
    <3>2. n <= sent[x] /\ (t \in targets[x] => n < sent[x])
      BY <3>1 DEF QueuedBefore
    <3>3. sent[x] \in Nat BY <1>0
    <3> QED BY <2>1, <3>1, <3>2, <3>3
  <2>4. QueuedBefore' BY <2>1, <2>3 DEF QueuedBefore
  <2> QED BY <2>2, <2>4
<1>2. ASSUME NEW s \in Session, NEW t \in Session, Deliver(s, t)
      PROVE  QueueInOrder' /\ QueuedBefore'
  <2>1. sent' = sent /\ t \in targets[s] BY <1>2 DEF Deliver
  <2>2. /\ \A x \in Session : targets'[x] \subseteq targets[x]
        /\ out' = out \/ t \notin targets'[s]
    <3>1. (targets' = targets /\ out' = out) \/ targets' = [targets EXCEPT ![s] = @ \ {t}]
      BY <1>2 DEF Deliver
    <3> QED BY <1>0, <3>1
  <2>3. CASE out' = out
    <3>1. QueueInOrder' BY <2>3 DEF QueueInOrder
    <3>2. QueuedBefore' BY <1>q, <2>1, <2>2, <2>3 DEF QueuedBefore
    <3> QED BY <3>1, <3>2
  <2>4. CASE t \notin targets'[s] /\ out' = [out EXCEPT ![t] = Append(@, Current(s))]
    <3>1. /\ out'[t] = Append(out[t], Current(s))
          /\ \A x \in Session : x # t => out'[x] = out[x]
      BY <1>0, <2>4
    <3>2. /\ out[t] \in Seq(Frame) /\ Current(s) \in Frame
          /\ Current(s)[1] = s /\ Current(s)[2] = sent[s] /\ sent[s] \in Nat
      BY <1>0 DEF Current, Frame
    <3>3. /\ Len(out'[t]) = Len(out[t]) + 1 /\ Len(out[t]) \in Nat
          /\ \A i \in 1 .. Len(out[t]) : out'[t][i] = out[t][i]
          /\ out'[t][Len(out[t]) + 1] = Current(s)
      BY <3>1, <3>2
    <3>4. \A i \in 1 .. Len(out[t]) : out[t][i][1] = s => out[t][i][2] < sent[s]
      BY <2>1 DEF QueuedBefore
    <3>5. ASSUME NEW x \in Session, NEW i \in 1 .. Len(out'[x]), NEW j \in 1 .. Len(out'[x]),
                 i < j, out'[x][i][1] = out'[x][j][1]
          PROVE  out'[x][i][2] < out'[x][j][2]
      <4>1. CASE x # t BY <3>1, <3>5, <4>1 DEF QueueInOrder
      <4>2. CASE x = t
        <5>1. i \in 1 .. Len(out[t]) BY <3>3, <3>5, <4>2
        <5>2. CASE j \in 1 .. Len(out[t])
          BY <3>3, <3>5, <4>2, <5>1, <5>2 DEF QueueInOrder
        <5>3. CASE j = Len(out[t]) + 1
          BY <3>2, <3>3, <3>4, <3>5, <4>2, <5>1, <5>3
        <5> QED BY <3>3, <4>2, <5>2, <5>3
      <4> QED BY <4>1, <4>2
    <3>6. QueueInOrder' BY <3>5 DEF QueueInOrder
    <3>7. ASSUME NEW x \in Session, NEW i \in 1 .. Len(out'[x])
          PROVE  /\ out'[x][i][2] <= sent[out'[x][i][1]]
                 /\ x \in targets'[out'[x][i][1]] => out'[x][i][2] < sent[out'[x][i][1]]
      <4>1. CASE x # t \/ i \in 1 .. Len(out[t])
        <5>1. i \in 1 .. Len(out[x]) /\ out'[x][i] = out[x][i]
          BY <3>1, <3>3, <3>7, <4>1
        <5> QED BY <1>q, <2>2, <5>1 DEF QueuedBefore
      <4>2. CASE x = t /\ i = Len(out[t]) + 1
        <5>1. out'[x][i] = Current(s) BY <3>3, <4>2
        <5> QED BY <2>4, <3>2, <4>2, <5>1
      <4> QED BY <3>3, <4>1, <4>2
    <3>8. QueuedBefore' BY <2>1, <3>7 DEF QueuedBefore
    <3> QED BY <3>6, <3>8
  <2> QED BY <1>2, <2>2, <2>3, <2>4 DEF Deliver
<1>3. ASSUME NEW s \in Session, WriterSend(s) \/ WriterFail(s)
      PROVE  QueueInOrder' /\ QueuedBefore'
  <2>1. out[s] # <<>> /\ out' = [out EXCEPT ![s] = Tail(@)] /\ UNCHANGED <<sent, targets>>
    BY <1>3 DEF WriterSend, WriterFail
  <2>2. out'[s] = Tail(out[s]) /\ \A x \in Session : x # s => out'[x] = out[x]
    BY <1>0, <2>1
  <2>3. /\ Len(Tail(out[s])) = Len(out[s]) - 1 /\ Len(out[s]) \in Nat
        /\ \A i \in 1 .. Len(Tail(out[s])) :
              i + 1 \in 1 .. Len(out[s]) /\ Tail(out[s])[i] = out[s][i + 1]
    <3>1. out[s] \in Seq(Frame) BY <1>0
    <3> QED BY <2>1, <3>1
  <2>4. ASSUME NEW x \in Session, NEW i \in 1 .. Len(out'[x]), NEW j \in 1 .. Len(out'[x]),
               i < j, out'[x][i][1] = out'[x][j][1]
        PROVE  out'[x][i][2] < out'[x][j][2]
    <3>1. CASE x # s BY <2>2, <2>4, <3>1 DEF QueueInOrder
    <3>2. CASE x = s
      <4>1. /\ i + 1 \in 1 .. Len(out[s]) /\ j + 1 \in 1 .. Len(out[s]) /\ i + 1 < j + 1
            /\ out'[x][i] = out[s][i + 1] /\ out'[x][j] = out[s][j + 1]
        <5>1. out'[x] = Tail(out[s]) BY <2>2, <3>2
        <5>2. i \in 1 .. Len(Tail(out[s])) /\ j \in 1 .. Len(Tail(out[s])) BY <5>1
        <5>3. i + 1 < j + 1 BY <2>4
        <5> QED BY <2>3, <5>1, <5>2, <5>3
      <4> QED BY <2>4, <4>1 DEF QueueInOrder
    <3> QED BY <3>1, <3>2
  <2>5. QueueInOrder' BY <2>4 DEF QueueInOrder
  <2>6. ASSUME NEW x \in Session, NEW i \in 1 .. Len(out'[x])
        PROVE  \E k \in 1 .. Len(out[x]) : out'[x][i] = out[x][k]
    BY <2>2, <2>3
  <2>7. QueuedBefore' BY <2>1, <2>6 DEF QueuedBefore
  <2> QED BY <2>5, <2>7
<1>4. CASE UNCHANGED <<out, sent, targets>>
  BY <1>4 DEF QueueInOrder, QueuedBefore
<1> QED BY <1>1, <1>2, <1>3, <1>4, Zenon DEF Next, vars, Join, WriterDone, ReadError, Finish, Hangup

\* The queues are in order in every reachable state.
LEMMA FifoInvariant == Spec => []FifoInv
<1>1. Init => FifoInv
  BY DEF Init, FifoInv, WriterServes, QueueInOrder, QueuedBefore
<1>2. TypeOK /\ FifoInv /\ [Next]_vars => FifoInv'
  BY WriterServesStep, FifoStep DEF FifoInv
<1> QED BY <1>1, <1>2, TypeCorrect, PTL DEF Spec

\* What is due to a session, now and after a step.
LEMMA DueMembers ==
    ASSUME NEW t, NEW f
    PROVE  /\ f \in Due(t) <=> \/ \E s \in Session : t \in targets[s] /\ f = <<s, sent[s]>>
                               \/ f \in Range(out[t])
           /\ f \in Due(t)' <=> \/ \E s \in Session : t \in targets'[s] /\ f = <<s, sent'[s]>>
                                \/ f \in Range(out'[t])
BY DEF Due, Current

\* A queued frame sits at some index.
LEMMA QueueIndex ==
    ASSUME NEW q \in Seq(Frame), NEW f
    PROVE  f \in Range(q) <=> \E i \in 1 .. Len(q) : f = q[i]
BY DEF Range

\* A frame that a sender is still delivering to t is not queued for t.
LEMMA CurrentNotQueued ==
    ASSUME TypeOK, QueuedBefore, NEW s \in Session, NEW t \in Session, t \in targets[s]
    PROVE  Current(s) \notin Range(out[t])
<1> SUFFICES ASSUME Current(s) \in Range(out[t]) PROVE FALSE
  OBVIOUS
<1>1. out[t] \in Seq(Frame) /\ sent[s] \in Nat BY DEF TypeOK
<1>2. PICK i \in 1 .. Len(out[t]) : Current(s) = out[t][i] BY <1>1, QueueIndex
<1>3. out[t][i][1] = s /\ out[t][i][2] = sent[s] BY <1>2 DEF Current
<1> QED BY <1>1, <1>3 DEF QueuedBefore

\* The head of a queue is the first due frame of its sender, and is due once.
LEMMA HeadIsFirst ==
    ASSUME TypeOK, FifoInv, NEW t \in Session, out[t] # <<>>
    PROVE  /\ Head(out[t]) \in Frame /\ Head(out[t]) \in Due(t)
           /\ Head(out[t]) \notin Range(Tail(out[t]))
           /\ \A s \in Session : t \in targets[s] => Head(out[t]) # <<s, sent[s]>>
           /\ \A g \in Due(t) : g[1] = Head(out[t])[1] => Head(out[t])[2] <= g[2]
<1> DEFINE q == out[t]
           f == Head(out[t])
<1>1. q \in Seq(Frame) /\ q # <<>> /\ Len(q) \in Nat BY DEF TypeOK
<1>2. /\ f \in Frame /\ f = q[1] /\ 1 \in 1 .. Len(q) /\ f \in Range(q)
      /\ Tail(q) \in Seq(Frame) /\ Len(Tail(q)) = Len(q) - 1
      /\ \A i \in 1 .. Len(Tail(q)) : i + 1 \in 1 .. Len(q) /\ Tail(q)[i] = q[i + 1]
  BY <1>1, QueueTake
<1>3. f[1] \in Session /\ f[2] \in Nat BY <1>2, FrameParts
<1>4. f \in Due(t) BY <1>2, DueMembers
<1>5. ASSUME NEW i \in 1 .. Len(q), q[i][1] = f[1] PROVE i # 1 => f[2] < q[i][2]
  BY <1>1, <1>2, <1>5 DEF FifoInv, QueueInOrder
<1>6. f \notin Range(Tail(q))
  <2> SUFFICES ASSUME f \in Range(Tail(q)) PROVE FALSE
    OBVIOUS
  <2>1. PICK i \in 1 .. Len(Tail(q)) : f = Tail(q)[i] BY <1>2, QueueIndex
  <2>2. i + 1 \in 1 .. Len(q) /\ f = q[i + 1] /\ i + 1 # 1 BY <1>2, <2>1
  <2> QED BY <1>3, <1>5, <2>2
<1>7. ASSUME NEW s \in Session, t \in targets[s]
      PROVE  f # <<s, sent[s]>> /\ (f[1] = s => f[2] <= sent[s])
  <2>1. Current(s) \notin Range(q) BY <1>7, CurrentNotQueued DEF FifoInv
  <2>2. f # <<s, sent[s]>> BY <1>2, <2>1 DEF Current
  <2>3. f[1] = s => f[2] <= sent[s] BY <1>2 DEF FifoInv, QueuedBefore
  <2> QED BY <2>2, <2>3
<1>8. ASSUME NEW g \in Due(t), g[1] = f[1] PROVE f[2] <= g[2]
  <2>1. CASE g \in Range(q)
    <3>1. PICK i \in 1 .. Len(q) : g = q[i] BY <1>1, <2>1, QueueIndex
    <3>2. g[2] \in Nat BY <1>1, <3>1, FrameParts
    <3>3. CASE i = 1 BY <1>2, <1>3, <3>1, <3>3
    <3>4. CASE i # 1 BY <1>3, <1>5, <1>8, <3>1, <3>2, <3>4
    <3> QED BY <3>3, <3>4
  <2>2. CASE \E s \in Session : t \in targets[s] /\ g = <<s, sent[s]>>
    BY <1>7, <1>8, <2>2
  <2> QED BY <2>1, <2>2, DueMembers
<1> QED BY <1>2, <1>4, <1>6, <1>7, <1>8

\* A writer's step takes the head of its queue from what is due, and nothing else.
LEMMA DueTake ==
    ASSUME TypeOK, FifoInv, NEW s \in Session, WriterSend(s) \/ WriterFail(s)
    PROVE  /\ Due(s)' = Due(s) \ {Head(out[s])}
           /\ \A t \in Session : t # s => Due(t)' = Due(t)
<1>1. out[s] # <<>> /\ out' = [out EXCEPT ![s] = Tail(@)] /\ UNCHANGED <<sent, targets>>
  BY DEF WriterSend, WriterFail
<1>2. out'[s] = Tail(out[s]) /\ \A x \in Session : x # s => out'[x] = out[x]
  BY <1>1 DEF TypeOK
<1>3. /\ Range(Tail(out[s])) \subseteq Range(out[s])
      /\ Range(out[s]) \subseteq Range(Tail(out[s])) \cup {Head(out[s])}
  BY <1>1, QueueTake DEF TypeOK
<1>4. /\ Head(out[s]) \notin Range(Tail(out[s]))
      /\ \A x \in Session : s \in targets[x] => Head(out[s]) # <<x, sent[x]>>
  BY <1>1, HeadIsFirst
<1>5. ASSUME NEW f PROVE f \in Due(s)' <=> f \in Due(s) /\ f # Head(out[s])
  BY <1>1, <1>2, <1>3, <1>4, DueMembers
<1>6. ASSUME NEW t \in Session, t # s PROVE Due(t)' = Due(t)
  <2>1. ASSUME NEW f PROVE f \in Due(t)' <=> f \in Due(t)
    BY <1>1, <1>2, <1>6, DueMembers
  <2> QED BY <2>1
<1> QED BY <1>5, <1>6

\* A delivery moves a due frame into the queue, or loses it when the queue is full.
LEMMA DueDeliver ==
    ASSUME TypeOK, FifoInv, NEW s \in Session, NEW t \in Session, Deliver(s, t)
    PROVE  /\ \A x \in Session : x # t => Due(x)' = Due(x)
           /\ Current(s) \in Due(t)
           /\ \/ Due(t)' = Due(t)
              \/ Due(t)' = Due(t) \ {Current(s)} /\ Len(out[t]) = OutCap
<1>1. t \in targets[s] /\ sent' = sent BY DEF Deliver
<1>2. Current(s) \in Due(t) BY <1>1, DueMembers DEF Current
<1>3. CASE targets' = targets /\ out' = out
  BY <1>1, <1>2, <1>3 DEF Due, Current
<1>4. CASE /\ targets' = [targets EXCEPT ![s] = @ \ {t}]
           /\ \/ Len(out[t]) < OutCap /\ out' = [out EXCEPT ![t] = Append(@, Current(s))]
              \/ Len(out[t]) >= OutCap /\ out' = out
  <2>1. \A x, y \in Session : y \in targets'[x] <=> y \in targets[x] /\ ~(x = s /\ y = t)
    BY <1>4 DEF TypeOK
  <2>2. \A x \in Session : x # t => out'[x] = out[x] BY DEF Deliver, TypeOK
  <2>3. ASSUME NEW x \in Session, x # t PROVE Due(x)' = Due(x)
    <3>1. ASSUME NEW f PROVE f \in Due(x)' <=> f \in Due(x)
      BY <1>1, <2>1, <2>2, <2>3, DueMembers
    <3> QED BY <3>1
  <2>4. CASE Len(out[t]) < OutCap /\ out' = [out EXCEPT ![t] = Append(@, Current(s))]
    <3>1. Current(s) \in Frame /\ out[t] \in Seq(Frame) BY DEF TypeOK, Current, Frame
    <3>2. Range(out'[t]) = Range(out[t]) \cup {Current(s)}
      <4>1. out'[t] = Append(out[t], Current(s)) BY <2>4 DEF TypeOK
      <4> QED BY <3>1, <4>1, QueuePut
    <3>3. ASSUME NEW f PROVE f \in Due(t)' <=> f \in Due(t)
      <4>1. \A x \in Session : t \in targets[x] <=> x = s \/ t \in targets'[x]
        BY <1>1, <2>1
      <4>2. Current(s) = <<s, sent[s]>> BY DEF Current
      <4> QED BY <1>1, <3>2, <4>1, <4>2, DueMembers
    <3> QED BY <1>2, <2>3, <3>3
  <2>5. CASE Len(out[t]) >= OutCap /\ out' = out
    <3>1. Len(out[t]) = OutCap
      <4>1. Len(out[t]) \in Nat /\ Len(out[t]) <= OutCap BY DEF TypeOK
      <4> QED BY <2>5, <4>1
    <3>2. Current(s) \notin Range(out[t]) BY <1>1, CurrentNotQueued DEF FifoInv
    <3>3. ASSUME NEW f PROVE f \in Due(t)' <=> f \in Due(t) /\ f # Current(s)
      <4>1. \A x \in Session : t \in targets'[x] <=> x # s /\ t \in targets[x]
        BY <2>1
      <4>2. Current(s) = <<s, sent[s]>> BY DEF Current
      <4>3. \A x \in Session : <<x, sent[x]>> = <<s, sent[s]>> => x = s
        OBVIOUS
      <4> QED BY <1>1, <2>5, <3>2, <4>1, <4>2, <4>3, DueMembers
    <3> QED BY <1>2, <2>3, <3>1, <3>3
  <2> QED BY <1>4, <2>4, <2>5
<1> QED BY <1>3, <1>4 DEF Deliver

\* A broadcast makes its frame due to the snapshot, and to no one else.
LEMMA DueBroadcast ==
    ASSUME TypeOK, NEW s \in Session, Broadcast(s)
    PROVE  \A t \in Session : Due(t)' = IF t \in Snapshot(s)
                                          THEN Due(t) \cup {<<s, sent[s] + 1>>}
                                          ELSE Due(t)
<1> SUFFICES ASSUME NEW t \in Session, NEW f
             PROVE  f \in Due(t)' <=> \/ f \in Due(t)
                                      \/ t \in Snapshot(s) /\ f = <<s, sent[s] + 1>>
  OBVIOUS
<1>1. /\ targets[s] = {} /\ out' = out
      /\ targets'[s] = Snapshot(s) /\ sent'[s] = sent[s] + 1
      /\ \A x \in Session : x # s => targets'[x] = targets[x] /\ sent'[x] = sent[x]
  BY DEF Broadcast, TypeOK
<1> QED BY <1>1, DueMembers

\* What changes neither snapshots nor queues changes nothing that is due.
LEMMA DueStays == UNCHANGED <<targets, sent, out>> => \A t \in Session : Due(t)' = Due(t)
BY DEF Due, Current
-----------------------------------------------------------------------------
\* For any capacity and any interleaving: a frame chosen for a session is lost
\* only at a full queue or on a dead connection.
THEOREM LossesExplained == Spec => LossOnlyWhenFullOrDead
<1>1. TypeOK /\ FifoInv /\ [Next]_vars =>
        [\A t \in Session : \A f \in Due(t) \ Due(t)' :
           \/ f \in Range(dlv[t]')
           \/ Len(out[t]) = OutCap
           \/ ~alive[t]]_vars
  <2> SUFFICES ASSUME TypeOK, FifoInv, [Next]_vars, NEW t \in Session, NEW f \in Due(t),
                      f \notin Due(t)'
               PROVE  f \in Range(dlv[t]') \/ Len(out[t]) = OutCap \/ ~alive[t]
    OBVIOUS
  <2>1. ASSUME NEW s \in Session, WriterSend(s) PROVE f \in Range(dlv[t]')
    <3>1. t = s /\ f = Head(out[s]) BY <2>1, DueTake
    <3>2. /\ dlv[s] \in Seq(Frame) /\ out[s] \in Seq(Frame) /\ out[s] # <<>>
          /\ dlv'[s] = Append(dlv[s], Head(out[s]))
      BY <2>1 DEF WriterSend, TypeOK
    <3>3. Range(dlv'[s]) = Range(dlv[s]) \cup {Head(out[s])} BY <3>2, QueueTake, QueuePut
    <3> QED BY <3>1, <3>3
  <2>2. ASSUME NEW s \in Session, WriterFail(s) PROVE ~alive[t]
    BY <2>2, DueTake DEF WriterFail
  <2>3. ASSUME NEW s \in Session, NEW x \in Session, Deliver(s, x) PROVE Len(out[t]) = OutCap
    BY <2>3, DueDeliver
  <2>4. ASSUME NEW s \in Session, Broadcast(s) PROVE FALSE
    BY <2>4, DueBroadcast
  <2>5. CASE UNCHANGED <<targets, sent, out>>
    BY <2>5, DueStays
  <2> QED BY <2>1, <2>2, <2>3, <2>4, <2>5, Zenon
          DEF Next, vars, Join, WriterDone, ReadError, Finish, Hangup
<1> QED BY <1>1, TypeCorrect, FifoInvariant, PTL DEF Spec, LossOnlyWhenFullOrDead
-----------------------------------------------------------------------------
(* Every step of the relay is a step of RoomMulticast or leaves what it    *)
(* describes alone.                                                        *)

\* A session that serves a client is a member of its room.
LEMMA ServingIsMember ==
    ASSUME TypeOK, NewIsOutside, NEW s \in Session, phase[s] \in {"reading", "closed"}
    PROVE  Member[s] = room[s] /\ room[s] \in Room
BY DEF TypeOK, NewIsOutside, Member

\* Membership stays when neither the phases nor the rooms move in or out.
LEMMA MemberStays ==
    ASSUME TypeOK, room' = room,
           \A s \in Session : \/ phase'[s] = phase[s]
                              \/ {phase[s], phase'[s]} \subseteq {"reading", "closed"}
    PROVE  Member' = Member
BY DEF Member

\* Each step of the relay is a step of the multicast, or changes nothing of it.
LEMMA RelayStep ==
    ASSUME RelayInv, FifoInv, [Next]_vars
    PROVE  [Multicast!MulticastNext]_(Multicast!mvars)
<1> USE DEF RelayInv
<1>1. ASSUME Member' = Member, sent' = sent, DueMap' = DueMap, dlv' = dlv
      PROVE  UNCHANGED Multicast!mvars
  BY <1>1 DEF Multicast!mvars
<1>2. ASSUME NEW s \in Session, NEW r \in Room, Join(s, r) PROVE Multicast!Enter(s, r)
  <2>1. Member[s] = "outside" /\ Member' = [Member EXCEPT ![s] = r]
    BY <1>2 DEF Join, Member, TypeOK
  <2>2. DueMap' = DueMap BY <1>2, DueStays DEF Join, DueMap
  <2> QED BY <1>2, <2>1, <2>2 DEF Join, Multicast!Enter
<1>3. ASSUME NEW s \in Session, Broadcast(s) PROVE Multicast!Send(s)
  <2>1. Member[s] = room[s] /\ room[s] \in Room
    BY <1>3, ServingIsMember DEF Broadcast
  <2>2. Member' = Member BY <1>3, MemberStays DEF Broadcast
  <2>3. \A t \in Session : t \in Snapshot(s) <=> t # s /\ Member[t] = Member[s]
    <3> SUFFICES ASSUME NEW t \in Session
                 PROVE  t \in SessionsIn(room[s]) <=> Member[t] = room[s]
      BY <2>1 DEF Snapshot
    <3>1. t \in SessionsIn(room[s]) <=> phase[t] \in {"reading", "closed"} /\ room[t] = room[s]
      BY <2>1 DEF RoomsMatchSessions
    <3>2. phase[t] \in {"new", "reading", "closed", "gone"} /\ room[s] \notin {"outside", "left"}
      BY <2>1 DEF TypeOK
    <3> QED BY <3>1, <3>2 DEF Member
  <2>4. DueMap' = [t \in Session |-> IF t \in {x \in Session \ {s} : Member[x] = Member[s]}
                                       THEN DueMap[t] \cup {<<s, sent[s] + 1>>}
                                       ELSE DueMap[t]]
    BY <1>3, <2>3, DueBroadcast DEF DueMap
  <2> QED BY <1>3, <2>1, <2>2, <2>4
          DEF Broadcast, Multicast!Send, Multicast!Roommates
<1>4. ASSUME NEW s \in Session, NEW t \in Session, Deliver(s, t)
      PROVE  \/ UNCHANGED Multicast!mvars
             \/ \E f \in Due(t) : Multicast!Lose(t, f)
  <2>1. Member' = Member /\ sent' = sent /\ dlv' = dlv
    BY <1>4, MemberStays DEF Deliver
  <2>2. CASE \A x \in Session : Due(x)' = Due(x)
    BY <1>1, <2>1, <2>2 DEF DueMap
  <2>3. CASE /\ Due(t)' = Due(t) \ {Current(s)} /\ Current(s) \in Due(t)
             /\ \A x \in Session : x # t => Due(x)' = Due(x)
    <3>1. DueMap' = [DueMap EXCEPT ![t] = @ \ {Current(s)}]
      BY <2>3 DEF DueMap
    <3>2. Current(s) \in DueMap[t] BY <2>3 DEF DueMap
    <3> QED BY <2>1, <2>3, <3>1, <3>2 DEF Multicast!Lose
  <2> QED BY <1>4, <2>2, <2>3, DueDeliver
<1>5. ASSUME NEW s \in Session, WriterSend(s) \/ WriterFail(s)
      PROVE  \E f \in Due(s) : Multicast!Get(s, f) \/ Multicast!Lose(s, f)
  <2>1. out[s] # <<>> /\ writer[s] = "running" /\ phase' = phase /\ room' = room /\ sent' = sent
    BY <1>5 DEF WriterSend, WriterFail
  <2>2. Member[s] \in Room
    BY <2>1, ServingIsMember DEF FifoInv, WriterServes, TypeOK
  <2>3. Member' = Member BY <2>1, MemberStays
  <2>4. DueMap' = [DueMap EXCEPT ![s] = @ \ {Head(out[s])}]
    BY <1>5, DueTake DEF DueMap
  <2>5. /\ Head(out[s]) \in DueMap[s]
        /\ \A g \in DueMap[s] : g[1] = Head(out[s])[1] => Head(out[s])[2] <= g[2]
    BY <2>1, HeadIsFirst DEF DueMap
  <2>6. CASE WriterSend(s)
    <3>1. dlv' = [dlv EXCEPT ![s] = Append(@, Head(out[s]))] BY <2>6 DEF WriterSend
    <3>2. Multicast!Get(s, Head(out[s]))
      BY <2>1, <2>2, <2>3, <2>4, <2>5, <3>1
         DEF Multicast!Get, Multicast!Sender, Multicast!SeqNo
    <3> QED BY <2>5, <3>2 DEF DueMap
  <2>7. CASE WriterFail(s)
    <3>1. dlv' = dlv BY <2>7 DEF WriterFail
    <3>2. Multicast!Lose(s, Head(out[s]))
      BY <2>1, <2>3, <2>4, <2>5, <3>1 DEF Multicast!Lose
    <3> QED BY <2>5, <3>2 DEF DueMap
  <2> QED BY <1>5, <2>6, <2>7
<1>6. ASSUME NEW s \in Session, Finish(s) PROVE Multicast!Leave(s)
  <2>1. Member[s] \in Room BY <1>6, ServingIsMember DEF Finish
  <2>2. Member' = [Member EXCEPT ![s] = "left"] BY <1>6 DEF Finish, Member, TypeOK
  <2>3. DueMap' = DueMap BY <1>6, DueStays DEF Finish, DueMap
  <2> QED BY <1>6, <2>1, <2>2, <2>3 DEF Finish, Multicast!Leave
<1>7. ASSUME NEW s \in Session, WriterDone(s) \/ ReadError(s) \/ Hangup(s)
      PROVE  UNCHANGED Multicast!mvars
  <2>1. Member' = Member BY <1>7, MemberStays DEF WriterDone, ReadError, Hangup, TypeOK
  <2>2. UNCHANGED <<targets, sent, out, dlv>> BY <1>7 DEF WriterDone, ReadError, Hangup
  <2>3. DueMap' = DueMap BY <2>2, DueStays DEF DueMap
  <2> QED BY <1>1, <2>1, <2>2, <2>3
<1>8. CASE UNCHANGED vars
  BY <1>8 DEF vars, Multicast!mvars, Member, DueMap, Due, Current
<1>9. CASE Next
  <2>1. PICK s \in Session :
           \/ \E r \in Asks[s] : Join(s, r)
           \/ Broadcast(s)
           \/ \E t \in Session : Deliver(s, t)
           \/ WriterSend(s) \/ WriterFail(s) \/ WriterDone(s)
           \/ ReadError(s) \/ Finish(s) \/ Hangup(s)
    BY <1>9, Zenon DEF Next
  <2>2. \A r \in Asks[s] : r \in Room OBVIOUS
  <2>3. ASSUME NEW t \in Session, NEW f \in Due(t), Multicast!Get(t, f) \/ Multicast!Lose(t, f)
        PROVE  Multicast!MulticastNext
    <3>1. f \in DueMap[t] BY DEF DueMap
    <3> QED BY <2>3, <3>1 DEF Multicast!MulticastNext
  <2>4. CASE \E r \in Asks[s] : Join(s, r)
    BY <1>2, <2>2, <2>4 DEF Multicast!MulticastNext
  <2>5. CASE Broadcast(s) BY <1>3, <2>5 DEF Multicast!MulticastNext
  <2>6. CASE Finish(s) BY <1>6, <2>6 DEF Multicast!MulticastNext
  <2>7. CASE WriterSend(s) \/ WriterFail(s) BY <1>5, <2>3, <2>7
  <2>8. CASE \E t \in Session : Deliver(s, t) BY <1>4, <2>3, <2>8
  <2> QED BY <1>7, <2>1, <2>4, <2>5, <2>6, <2>7, <2>8
<1> QED BY <1>8, <1>9

\* For any sessions, rooms, capacity and number of frames, the relay with its
\* queues, snapshots and goroutines implements RoomMulticast: each frame of a
\* sender reaches a roommate at most once and in the order it was sent.
THEOREM RelayIsMulticast == Spec => IsMulticast
<1>1. Init => Multicast!MulticastInit
  <2> SUFFICES ASSUME Init PROVE Multicast!MulticastInit
    OBVIOUS
  <2>1. \A t \in Session : Due(t) = {}
    BY DEF Init, Due, Range
  <2> QED BY <2>1 DEF Init, Multicast!MulticastInit, Member, DueMap
<1>2. RelayInv /\ FifoInv /\ [Next]_vars => [Multicast!MulticastNext]_(Multicast!mvars)
  BY RelayStep
<1> QED BY <1>1, <1>2, RelayInvariant, FifoInvariant, PTL
        DEF Spec, IsMulticast, Multicast!MulticastSpec
=============================================================================
