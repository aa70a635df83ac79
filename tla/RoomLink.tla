------------------------------ MODULE RoomLink ------------------------------
(***************************************************************************)
(* The daemon's link to the room servers: handleJoin starts a connectLoop  *)
(* goroutine per join, every loop dials, publishes its session in the one  *)
(* shared d.conn, receives until the session breaks, clears d.conn and     *)
(* redials; handleSend writes to whatever session d.conn holds.            *)
(*                                                                         *)
(* A server relays as RoomMulticast says.  All sessions of this model are  *)
(* in the same room name, so "the room of a session" is the server it is   *)
(* connected to.  Peer sessions stand for the other devices.               *)
(***************************************************************************)
EXTENDS RoomMulticast, FiniteSets, Functions

CONSTANTS OwnSession,  \* SSH sessions this daemon may open (bound: dials)
          PeerRoom,    \* PeerRoom[p]: the server that peer session p is on
          Loop,        \* connectLoop goroutines (bound: joins)
          NoTarget,    \* the empty server string
          NoSession,   \* a nil d.conn.in
          DedupeCap,   \* capacity of the msg_id set (4096 in the code)
          MaxBreaks    \* bound: connections that break by themselves

Target == Room

ASSUME RoomLinkAssumption ==
    /\ Session = OwnSession \cup DOMAIN PeerRoom
    /\ OwnSession \cap DOMAIN PeerRoom = {}
    /\ PeerRoom \in [DOMAIN PeerRoom -> Target]
    /\ NoTarget \notin Target /\ NoSession \notin Session
    /\ DedupeCap \in Nat \ {0} /\ MaxBreaks \in Nat
    /\ IsFiniteSet(OwnSession) /\ IsFiniteSet(Loop)
    /\ Cardinality(OwnSession) >= Cardinality(Loop) + MaxBreaks

VARIABLES server,     \* config: the server of the last join
          target,     \* target[l]: the argument of connectLoop l
          pc,         \* pc[l]: where loop l is
          sess,       \* sess[l]: the session loop l opened last
          connIn,     \* d.conn.in: the session that send writes to
          connTarget, \* d.conn.target
          connected,  \* d.conn.connected
          wire,       \* wire[s]: frames written to s and not yet read by the server
          broken,     \* own sessions whose connection no longer works
          up,         \* servers that run
          order,      \* Dedupe.order: the remembered msg_ids, oldest first
          items,      \* the frames ingest accepted, in order
          sending     \* a handleSend between the lock and WriteFrame, or NoSession

lvars == <<server, target, pc, sess, connIn, connTarget, connected, wire,
           broken, up, order, items, sending>>
vars == <<mvars, lvars>>

TypeOK ==
    /\ MulticastTypeOK
    /\ server \in Target \cup {NoTarget}
    /\ target \in [Loop -> Target \cup {NoTarget}]
    /\ pc \in [Loop -> {"off", "dial", "started", "recv", "drop", "wait"}]
    /\ sess \in [Loop -> OwnSession \cup {NoSession}]
    /\ connIn \in OwnSession \cup {NoSession}
    /\ connTarget \in Target \cup {NoTarget}
    /\ connected \in BOOLEAN
    /\ wire \in [OwnSession -> Nat]
    /\ broken \subseteq OwnSession
    /\ up \subseteq Target
    /\ order \in Seq(Frame) /\ Len(order) <= DedupeCap
    /\ items \in Seq(Frame)
    /\ sending \in OwnSession \cup {NoSession}

\* Run starts a loop for the configured server, if there is one.
Init ==
    /\ member = [s \in Session |-> IF s \in OwnSession THEN "outside" ELSE PeerRoom[s]]
    /\ sent = [s \in Session |-> 0]
    /\ due = [s \in Session |-> {}]
    /\ got = [s \in Session |-> <<>>]
    /\ server \in Target \cup {NoTarget}
    /\ target = [l \in Loop |-> IF l = CHOOSE x \in Loop : TRUE THEN server ELSE NoTarget]
    /\ pc = [l \in Loop |-> IF target[l] = NoTarget THEN "off" ELSE "dial"]
    /\ sess = [l \in Loop |-> NoSession]
    /\ connIn = NoSession /\ connTarget = NoTarget /\ connected = FALSE
    /\ wire = [s \in OwnSession |-> 0]
    /\ broken = {}
    /\ up = Target
    /\ order = <<>> /\ items = <<>>
    /\ sending = NoSession
-----------------------------------------------------------------------------
\* handleJoin: SetServer, then a loop for the target unless d.conn names it.
\* SetServer sets the server in memory even when it cannot save it, and then
\* handleJoin returns the error.
Join(t) ==
    /\ server' = t
    /\ \/ UNCHANGED <<target, pc>>         \* SetServer failed, or connTarget = t
       \/ /\ connTarget # t
          /\ \E l \in Loop :
               /\ pc[l] = "off"
               /\ target' = [target EXCEPT ![l] = t]
               /\ pc' = [pc EXCEPT ![l] = "dial"]
    /\ UNCHANGED <<mvars, sess, connIn, connTarget, connected, wire, broken, up,
                   order, items, sending>>

\* dialOnce up to sess.Start: the server runs the relay for a new session.
DialOk(l) ==
    LET s == CHOOSE x \in OwnSession : member[x] = "outside" IN
    /\ pc[l] = "dial" /\ target[l] \in up
    /\ \E x \in OwnSession : member[x] = "outside"
    /\ Enter(s, target[l])
    /\ sess' = [sess EXCEPT ![l] = s]
    /\ pc' = [pc EXCEPT ![l] = "started"]
    /\ UNCHANGED <<server, target, connIn, connTarget, connected, wire, broken,
                   up, order, items, sending>>

\* Dial, NewSession, a pipe or Start failed, which can happen whether or not
\* the server runs; connectLoop backs off.
DialFail(l) ==
    /\ pc[l] = "dial"
    /\ pc' = [pc EXCEPT ![l] = "wait"]
    /\ UNCHANGED <<mvars, server, target, sess, connIn, connTarget, connected,
                   wire, broken, up, order, items, sending>>

\* The locked block that publishes the session.
Publish(l) ==
    /\ pc[l] = "started"
    /\ connIn' = sess[l] /\ connTarget' = target[l] /\ connected' = TRUE
    /\ pc' = [pc EXCEPT ![l] = "recv"]
    /\ UNCHANGED <<mvars, server, target, sess, wire, broken, up, order, items,
                   sending>>

\* Mutant: nothing is evicted.
Remember_All(f) == Append(order, f)

\* Dedupe.Seen marks a new id and evicts the oldest beyond the capacity.
Remember(f) ==
    IF Len(order) < DedupeCap THEN Append(order, f) ELSE Append(Tail(order), f)

\* Mutant: ingest does not ask Seen.
Recv_NoDedupe(l) ==
    /\ pc[l] = "recv" /\ sess[l] \notin broken
    /\ \E f \in due[sess[l]] :
         /\ Get(sess[l], f)
         /\ order' = Remember(f) /\ items' = Append(items, f)
    /\ UNCHANGED <<server, target, pc, sess, connIn, connTarget, connected, wire,
                   broken, up, sending>>

\* recvLoop reads a frame and ingests it unless its msg_id was seen.
Recv(l) ==
    /\ pc[l] = "recv" /\ sess[l] \notin broken
    /\ \E f \in due[sess[l]] :
         /\ Get(sess[l], f)
         /\ \/ f \in Range(order) /\ UNCHANGED <<order, items>>
            \/ /\ f \notin Range(order)
               /\ order' = Remember(f) /\ items' = Append(items, f)
    /\ UNCHANGED <<server, target, pc, sess, connIn, connTarget, connected, wire,
                   broken, up, sending>>

\* recvLoop returns: the session broke.
RecvLoopEnds(l) ==
    /\ pc[l] = "recv" /\ sess[l] \in broken
    /\ pc' = [pc EXCEPT ![l] = "drop"]
    /\ UNCHANGED <<mvars, server, target, sess, connIn, connTarget, connected,
                   wire, broken, up, order, items, sending>>

\* Mutants: connected is not reset; the loop returns instead of redialing.
Clear_KeepsConnected(l) ==
    /\ pc[l] = "drop"
    /\ connIn' = NoSession
    /\ pc' = [pc EXCEPT ![l] = "wait"]
    /\ UNCHANGED <<mvars, server, target, sess, connTarget, connected, wire, broken,
                   up, order, items, sending>>

Clear_Returns(l) ==
    /\ pc[l] = "drop"
    /\ connIn' = NoSession /\ connected' = FALSE
    /\ pc' = [pc EXCEPT ![l] = "off"]
    /\ UNCHANGED <<mvars, server, target, sess, connTarget, wire, broken, up,
                   order, items, sending>>

\* The locked block that clears d.conn, whoever published it; target stays.
Clear(l) ==
    /\ pc[l] = "drop"
    /\ connIn' = NoSession /\ connected' = FALSE
    /\ pc' = [pc EXCEPT ![l] = "wait"]
    /\ UNCHANGED <<mvars, server, target, sess, connTarget, wire, broken, up,
                   order, items, sending>>

\* The two-second backoff is over.
Redial(l) ==
    /\ pc[l] = "wait"
    /\ pc' = [pc EXCEPT ![l] = "dial"]
    /\ UNCHANGED <<mvars, server, target, sess, connIn, connTarget, connected,
                   wire, broken, up, order, items, sending>>
-----------------------------------------------------------------------------
\* sendFrame reads in and connected under the lock; handleSend answers with
\* code 4 when there is no session.
SendCheck ==
    /\ sending = NoSession
    /\ connected /\ connIn # NoSession
    /\ sent[connIn] + wire[connIn] < Quota[connIn]
    /\ sending' = connIn
    /\ UNCHANGED <<mvars, server, target, pc, sess, connIn, connTarget, connected,
                   wire, broken, up, order, items>>

\* WriteFrame outside the lock: into a working session, or into one that
\* broke meanwhile (an error, or bytes that never arrive).  RoomFrames has
\* the case of several sends at a time.
SendWrite ==
    /\ sending # NoSession
    /\ \/ sending \notin broken /\ wire' = [wire EXCEPT ![sending] = @ + 1]
       \/ sending \in broken /\ UNCHANGED wire
    /\ sending' = NoSession
    /\ UNCHANGED <<mvars, server, target, pc, sess, connIn, connTarget, connected,
                   broken, up, order, items>>

\* The server reads a frame of s and broadcasts it.  What was written before
\* the connection broke may still arrive.
ServerReads(s) ==
    /\ wire[s] > 0
    /\ Send(s)
    /\ wire' = [wire EXCEPT ![s] = @ - 1]
    /\ UNCHANGED <<server, target, pc, sess, connIn, connTarget, connected,
                   broken, up, order, items, sending>>

PeerSends(p) ==
    /\ member[p] \in up
    /\ Send(p)
    /\ UNCHANGED lvars

\* The server notices a broken session and unregisters it.
ServerDrops(s) ==
    /\ s \in broken
    /\ Leave(s)
    /\ wire' = [wire EXCEPT ![s] = 0]
    /\ UNCHANGED <<server, target, pc, sess, connIn, connTarget, connected,
                   broken, up, order, items, sending>>

\* A connection breaks by itself, or all of a server's with the server.
Break(s) ==
    /\ member[s] \in Target /\ s \notin broken
    /\ Cardinality(broken) < MaxBreaks
    /\ broken' = broken \cup {s}
    /\ UNCHANGED <<mvars, server, target, pc, sess, connIn, connTarget, connected,
                   wire, up, order, items, sending>>

ServerStops(t) ==
    /\ t \in up
    /\ up' = up \ {t}
    /\ broken' = broken \cup {s \in OwnSession : member[s] = t}
    /\ wire' = [s \in OwnSession |-> IF member[s] = t THEN 0 ELSE wire[s]]
    /\ UNCHANGED <<mvars, server, target, pc, sess, connIn, connTarget, connected,
                   order, items, sending>>

Next ==
    \/ \E t \in Target : Join(t) \/ ServerStops(t)
    \/ \E l \in Loop :
         \/ DialOk(l) \/ DialFail(l) \/ Publish(l)
         \/ Recv(l) \/ RecvLoopEnds(l) \/ Clear(l) \/ Redial(l)
    \/ SendCheck \/ SendWrite
    \/ \E s \in OwnSession : ServerReads(s) \/ ServerDrops(s) \/ Break(s)
    \/ \E p \in DOMAIN PeerRoom : PeerSends(p)

Spec == Init /\ [][Next]_vars

\* Every loop keeps running; dials to a server that runs do not all fail.
Fairness ==
    \A l \in Loop :
        /\ WF_vars(DialOk(l) \/ DialFail(l) \/ Publish(l) \/ RecvLoopEnds(l)
                     \/ Clear(l) \/ Redial(l))
        /\ SF_vars(DialOk(l))

FairSpec == Spec /\ Fairness
-----------------------------------------------------------------------------
\* What status reports as connected, and what send uses, is the session of a
\* loop that published it and has not yet cleared it, on the reported server.
ConnectedIsALoopsSession ==
    connected =>
        \E l \in Loop : /\ pc[l] \in {"recv", "drop"}
                        /\ connIn = sess[l] /\ connTarget = target[l]

\* ingest accepts a msg_id again only after DedupeCap other items, however
\* many sessions of this daemon receive the same frame.
ReprocessedOnlyAfterEviction ==
    \A i, j \in DOMAIN items : i < j /\ items[i] = items[j] => j - i > DedupeCap

\* A daemon that joined one server only, while that server runs, gets
\* connected again after every break.
LoneLoopConnects ==
    \A l \in Loop :
        (pc[l] # "off" /\ target[l] \in up)
            ~> \/ connected
               \/ target[l] \notin up
               \/ \E m \in Loop \ {l} : pc[m] # "off"

\* While the loop of the configured server holds a working session, send
\* finds a session to write to, now or after a while.
JoinedServerIsUsable ==
    \A l \in Loop :
        (pc[l] = "recv" /\ target[l] = server /\ sess[l] \notin broken)
            ~> \/ connected
               \/ sess[l] \in broken
               \/ target[l] # server
=============================================================================
