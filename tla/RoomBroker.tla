----------------------------- MODULE RoomBroker -----------------------------
(***************************************************************************)
(* The room server's relay: the in-memory broker and the two goroutines    *)
(* (reader, writer) that serve each SSH session.  The reader runs          *)
(* Broadcast itself, so a session with targets left to serve is inside     *)
(* Broadcast and reads nothing.  SSH channels are the environment: they    *)
(* deliver frames, break, or end (Hangup).                                 *)
(*                                                                         *)
(* A send on a closed Go channel panics, and an unrecovered panic in any   *)
(* goroutine ends the process: panicked stops every action.                *)
(***************************************************************************)
EXTENDS Naturals, Sequences, Functions

CONSTANTS Session,    \* *broker.Session values; an SSH connection makes one
          Room,       \* room names (the SSH command)
          Asks,       \* Asks[s]: the rooms the client of s may ask for
          OutCap,     \* capacity of Session.Out (256 in the code)
          Quota       \* bound: Quota[s] frames are sent by the client of s

ASSUME RoomBrokerAssumption ==
    /\ {"outside", "left"} \cap Room = {}
    /\ Asks \in [Session -> SUBSET Room]
    /\ OutCap \in Nat \ {0}
    /\ Quota \in [Session -> Nat]

VARIABLES phase,     \* the relay handler: "new", "reading", "closed" (Out
                     \* closed, waiting for the writer), "gone"
          room,      \* Session.Room; "outside" until the client connects
          rooms,     \* Broker.rooms: a map of the rooms that exist
          sent,      \* frames read from each client so far
          targets,   \* what is left of the snapshot Broadcast iterates over
          out,       \* contents of Session.Out
          writer,    \* the writer goroutine: "none", "running", "exited"
          alive,     \* whether the SSH channel still works
          dlv,       \* frames written to the client, in order
          panicked   \* the server process died

vars == <<phase, room, rooms, sent, targets, out, writer, alive, dlv, panicked>>

Frame == Session \X Nat

\* The frame s is broadcasting: the last one it read.
Current(s) == <<s, sent[s]>>

\* close(s.Out) has happened.
Closed(s) == phase[s] \in {"closed", "gone"}

\* Types, and no outbound channel ever holds more than its capacity.
TypeOK ==
    /\ phase \in [Session -> {"new", "reading", "closed", "gone"}]
    /\ room \in [Session -> Room \cup {"outside"}]
    /\ DOMAIN rooms \subseteq Room
    /\ rooms \in [DOMAIN rooms -> SUBSET Session]
    /\ sent \in [Session -> Nat]
    /\ targets \in [Session -> SUBSET Session]
    /\ out \in [Session -> Seq(Frame)]
    /\ writer \in [Session -> {"none", "running", "exited"}]
    /\ alive \in [Session -> BOOLEAN]
    /\ dlv \in [Session -> Seq(Frame)]
    /\ panicked \in BOOLEAN
    /\ \A s \in Session : Len(out[s]) <= OutCap

Init ==
    /\ phase = [s \in Session |-> "new"]
    /\ room = [s \in Session |-> "outside"]
    /\ rooms = [r \in {} |-> {}]
    /\ sent = [s \in Session |-> 0]
    /\ targets = [s \in Session |-> {}]
    /\ out = [s \in Session |-> <<>>]
    /\ writer = [s \in Session |-> "none"]
    /\ alive = [s \in Session |-> FALSE]
    /\ dlv = [s \in Session |-> <<>>]
    /\ panicked = FALSE
-----------------------------------------------------------------------------
\* b.rooms[r], nil being the empty set.
SessionsIn(r) == IF r \in DOMAIN rooms THEN rooms[r] ELSE {}

\* The map after Broker.Register / Broker.Unregister.
Register(s, r) ==
    [x \in DOMAIN rooms \cup {r} |->
        IF x = r THEN SessionsIn(r) \cup {s} ELSE rooms[x]]

\* Mutant: the room is deleted whoever is left in it.
Unregister_DeletesRoom(s, r) == [x \in DOMAIN rooms \ {r} |-> rooms[x]]

Unregister(s, r) ==
    IF SessionsIn(r) \ {s} = {}
      THEN [x \in DOMAIN rooms \ {r} |-> rooms[x]]
      ELSE [rooms EXCEPT ![r] = @ \ {s}]

\* A client opens an SSH session and execs a room name.
Join(s, r) ==
    /\ ~panicked
    /\ phase[s] = "new"
    /\ phase' = [phase EXCEPT ![s] = "reading"]
    /\ room' = [room EXCEPT ![s] = r]
    /\ rooms' = Register(s, r)
    /\ writer' = [writer EXCEPT ![s] = "running"]
    /\ alive' = [alive EXCEPT ![s] = TRUE]
    /\ UNCHANGED <<sent, targets, out, dlv, panicked>>

\* Mutant: no self-send guard.
Snapshot_WithSender(s) == SessionsIn(room[s])

\* ReadFrame returned a frame; Broadcast snapshots the room under the lock.
Snapshot(s) == SessionsIn(room[s]) \ {s}

\* Mutant: the next frame is read while the last one is still being fanned out.
Broadcast_Overlapping(s) ==
    /\ ~panicked
    /\ phase[s] = "reading" /\ alive[s]
    /\ sent[s] < Quota[s]
    /\ sent' = [sent EXCEPT ![s] = @ + 1]
    /\ targets' = [targets EXCEPT ![s] = Snapshot(s)]
    /\ UNCHANGED <<phase, room, rooms, out, writer, alive, dlv, panicked>>

Broadcast(s) ==
    /\ ~panicked
    /\ phase[s] = "reading" /\ targets[s] = {} /\ alive[s]
    /\ sent[s] < Quota[s]
    /\ sent' = [sent EXCEPT ![s] = @ + 1]
    /\ targets' = [targets EXCEPT ![s] = Snapshot(s)]
    /\ UNCHANGED <<phase, room, rooms, out, writer, alive, dlv, panicked>>

\* Mutants: a queue that takes one frame too many, one too few.
Deliver_Upto(s, t, limit) ==
    /\ ~panicked
    /\ t \in targets[s] /\ ~Closed(t)
    /\ targets' = [targets EXCEPT ![s] = @ \ {t}]
    /\ out' = IF Len(out[t]) < limit
                THEN [out EXCEPT ![t] = Append(@, Current(s))]
                ELSE out
    /\ UNCHANGED <<phase, room, rooms, sent, writer, alive, dlv, panicked>>

Deliver_Overfull(s, t) == Deliver_Upto(s, t, OutCap + 1)
Deliver_EarlyDrop(s, t) == Deliver_Upto(s, t, OutCap - 1)

\* One iteration of the delivery loop, outside the lock.  The snapshot comes
\* from a map, so the order is arbitrary.
Deliver(s, t) ==
    /\ ~panicked
    /\ t \in targets[s]
    /\ \/ /\ Closed(t)                      \* send on closed channel
          /\ panicked' = TRUE
          /\ UNCHANGED <<targets, out>>
       \/ /\ ~Closed(t)
          /\ targets' = [targets EXCEPT ![s] = @ \ {t}]
          /\ \/ /\ Len(out[t]) < OutCap
                /\ out' = [out EXCEPT ![t] = Append(@, Current(s))]
             \/ /\ Len(out[t]) >= OutCap    \* full: skip this recipient
                /\ UNCHANGED out
          /\ UNCHANGED panicked
    /\ UNCHANGED <<phase, room, rooms, sent, writer, alive, dlv>>

\* The writer goroutine: WriteFrame succeeds, fails, or Out is closed and dry.
WriterSend(s) ==
    /\ ~panicked
    /\ writer[s] = "running" /\ out[s] # <<>> /\ alive[s]
    /\ dlv' = [dlv EXCEPT ![s] = Append(@, Head(out[s]))]
    /\ out' = [out EXCEPT ![s] = Tail(@)]
    /\ UNCHANGED <<phase, room, rooms, sent, targets, writer, alive, panicked>>

\* Mutant: the writer returns on an error without closing done.
WriterFail_NoSignal(s) ==
    /\ ~panicked
    /\ writer[s] = "running" /\ out[s] # <<>> /\ ~alive[s]
    /\ writer' = [writer EXCEPT ![s] = "none"]
    /\ out' = [out EXCEPT ![s] = Tail(@)]
    /\ UNCHANGED <<phase, room, rooms, sent, targets, alive, dlv, panicked>>

WriterFail(s) ==
    /\ ~panicked
    /\ writer[s] = "running" /\ out[s] # <<>> /\ ~alive[s]
    /\ writer' = [writer EXCEPT ![s] = "exited"]
    /\ out' = [out EXCEPT ![s] = Tail(@)]
    /\ UNCHANGED <<phase, room, rooms, sent, targets, alive, dlv, panicked>>

\* Mutant: the writer stops as soon as Out is closed, with frames still in it.
WriterDone_Undrained(s) ==
    /\ ~panicked
    /\ writer[s] = "running" /\ Closed(s)
    /\ writer' = [writer EXCEPT ![s] = "exited"]
    /\ UNCHANGED <<phase, room, rooms, sent, targets, out, alive, dlv, panicked>>

WriterDone(s) ==
    /\ ~panicked
    /\ writer[s] = "running" /\ out[s] = <<>> /\ Closed(s)
    /\ writer' = [writer EXCEPT ![s] = "exited"]
    /\ UNCHANGED <<phase, room, rooms, sent, targets, out, alive, dlv, panicked>>

\* ReadFrame failed: the channel broke, the client closed its side, or the
\* frame was malformed (the channel may well be alive).  close(s.Out).
ReadError(s) ==
    /\ ~panicked
    /\ phase[s] = "reading" /\ targets[s] = {}
    /\ phase' = [phase EXCEPT ![s] = "closed"]
    /\ UNCHANGED <<room, rooms, sent, targets, out, writer, alive, dlv, panicked>>

\* <-done, then the deferred Unregister; the handler returns and the SSH
\* session ends with it.
Finish(s) ==
    /\ ~panicked
    /\ phase[s] = "closed" /\ writer[s] = "exited"
    /\ phase' = [phase EXCEPT ![s] = "gone"]
    /\ rooms' = Unregister(s, room[s])
    /\ alive' = [alive EXCEPT ![s] = FALSE]
    /\ UNCHANGED <<room, sent, targets, out, writer, dlv, panicked>>

\* The connection is lost.
Hangup(s) ==
    /\ ~panicked
    /\ alive[s]
    /\ alive' = [alive EXCEPT ![s] = FALSE]
    /\ UNCHANGED <<phase, room, rooms, sent, targets, out, writer, dlv, panicked>>

Next ==
    \E s \in Session :
        \/ \E r \in Asks[s] : Join(s, r)
        \/ Broadcast(s)
        \/ \E t \in Session : Deliver(s, t)
        \/ WriterSend(s) \/ WriterFail(s) \/ WriterDone(s)
        \/ ReadError(s)
        \/ Finish(s)
        \/ Hangup(s)

Spec == Init /\ [][Next]_vars

(***************************************************************************)
(* Go runs every goroutine that can run.  Delivery never blocks; the       *)
(* writer is either writing to a client that takes the frame or gets an    *)
(* error; ReadFrame on a broken channel returns.  Nothing makes a client   *)
(* join, send or hang up.                                                  *)
(***************************************************************************)
Fairness ==
    \A s \in Session :
        /\ WF_vars(\E t \in Session : Deliver(s, t))
        /\ WF_vars(WriterSend(s) \/ WriterFail(s) \/ WriterDone(s))
        /\ WF_vars(~alive[s] /\ ReadError(s))
        /\ WF_vars(Finish(s))

FairSpec == Spec /\ Fairness
-----------------------------------------------------------------------------
\* The broker's map holds exactly the sessions whose handler has registered
\* and not yet unregistered, each under its own room, and no empty room
\* (broker.Unregister deletes a room when it empties).
RoomsMatchSessions ==
    /\ \A s \in Session, r \in Room :
         s \in SessionsIn(r) <=> phase[s] \in {"reading", "closed"} /\ room[s] = r
    /\ \A r \in DOMAIN rooms : rooms[r] # {}

\* A frame that is queued for, written to, or about to be queued for a
\* session was sent by another session of the same room: Broadcast never
\* echoes to the originator and never crosses rooms, although it works from
\* a snapshot taken before the lock was released.
FromRoommate(s, t) == s # t /\ room[s] = room[t] /\ room[s] \in Room

OnlyFromRoommates ==
    /\ \A s, t \in Session : t \in targets[s] => FromRoommate(s, t)
    /\ \A t \in Session : \A f \in Range(out[t]) \cup Range(dlv[t]) :
           FromRoommate(f[1], t)

\* The frames a session has been chosen for and has not been written yet.
Due(t) == {Current(s) : s \in {x \in Session : t \in targets[x]}} \cup Range(out[t])

\* A frame chosen for a session disappears without being written only when
\* that session's queue is full at that moment or its connection is dead
\* (Broadcast's default case; the writer's error return).
LossOnlyWhenFullOrDead ==
    [][\A t \in Session : \A f \in Due(t) \ Due(t)' :
           \/ f \in Range(dlv[t]')
           \/ Len(out[t]) = OutCap
           \/ ~alive[t]]_vars

\* A handler whose connection still works unregisters and returns only after
\* its writer has written everything that was queued before close(s.Out).
DrainedBeforeGone ==
    [][\A s \in Session :
          phase[s] = "closed" /\ phase'[s] = "gone" /\ alive[s] => out[s] = <<>>]_vars

\* A session whose connection broke is eventually unregistered, whatever its
\* reader and writer were doing, unless the server has died.
DeadSessionLeaves ==
    \A s \in Session :
        phase[s] \in {"reading", "closed"} /\ ~alive[s]
            ~> phase[s] = "gone" \/ panicked

\* The relay is a lossy per-sender-FIFO multicast: where each session is, and
\* what is due to it.
Member == [s \in Session |-> IF phase[s] = "new" THEN "outside"
                            ELSE IF phase[s] = "gone" THEN "left" ELSE room[s]]
DueMap == [t \in Session |-> Due(t)]

Multicast == INSTANCE RoomMulticast WITH member <- Member, due <- DueMap, got <- dlv

\* The relay implements RoomMulticast: what a client gets from the server's
\* queues and goroutines is what the room promises, each frame of a sender at
\* most once and in the order it was sent.
IsMulticast == Multicast!MulticastSpec

\* No goroutine sends on a channel that relayMiddleware has closed.
NoSendOnClosedChannel == ~panicked
=============================================================================
