---------------------------- MODULE LanTransport ----------------------------
(***************************************************************************)
(* The lan-go transport: peers find each other by mDNS, the one with the   *)
(* smaller fingerprint dials, each end of a QUIC connection is served by   *)
(* its own handleConn, which keeps one connection per fingerprint, and a   *)
(* broadcast opens a stream on every registered connection.                *)
(*                                                                         *)
(* A fingerprint is a number; it survives restarts (loadOrCreateIdentity). *)
(* Each run of a peer listens on an ephemeral port that a later run, of    *)
(* any peer and in any room, may be given again.  The mDNS entry of a run  *)
(* names it (the pid in the instance name), but a dial only has the        *)
(* address, and neither end compares the certificate or the room it meets  *)
(* with the entry.                                                         *)
(*                                                                         *)
(* A connection is a slot: each of its two ends is "none" (not there, or   *)
(* closed), "new" (handshake done, handleConn not yet at the lock) or      *)
(* "open" (registered).  An end whose other end is gone learns of it from  *)
(* the close frame, or after a crash from the idle timeout.                *)
(***************************************************************************)
EXTENDS Naturals

CONSTANTS Peer,      \* fingerprints
          Room,      \* room names
          Msg,       \* envelopes, each broadcast once
          Port,      \* addresses that listeners are given
          Slot,      \* connections that may exist at a time (bound)
          NoSlot,    \* no connection
          MaxRuns,   \* bound: runs of all peers together
          MaxFaults  \* bound: timeouts and refused frames on what still works

ASSUME LanAssumption ==
    /\ Peer \subseteq Nat /\ Peer # {}
    /\ Room # {} /\ NoSlot \notin Slot /\ 0 \notin Port
    /\ MaxRuns \in Nat /\ MaxFaults \in Nat

Run == 1 .. MaxRuns

\* What parseTXT reads from an mDNS record, and the run that registered it;
\* the port is that of the run.
Entry == [fp : Peer, room : Room, run : Run]

VARIABLES up,      \* peers whose transport is started
          room,    \* t.room
          started, \* runs so far, which number them
          run,     \* run[p]: the number of p's present or last run, or 0
          port,    \* port[n]: t.port of run n, or 0
          ads,     \* the mDNS entries that a browse may return
          dialing, \* dialing[p][q]: the run of q whose address p dials, or 0
          table,   \* table[p][q]: the registered connection: t.peers
          ends,    \* ends[p][c]: p's end of connection c
          pair,    \* pair[c]: <<dialer, acceptor>> of c
          want,    \* want[c]: <<q, n>>, c comes of a dial of q's run n
          sending, \* sending[p]: Broadcasts under way, as <<m, c>> to write
          streams, \* streams[p][c]: envelopes p wrote to c and not read yet
          got,     \* got[p]: envelopes handed to recvFn in this run
          sentBy,  \* history: who has broadcast m
          faults   \* counter against MaxFaults

netVars == <<up, room, started, run, port, ads>>
connVars == <<dialing, table, ends, pair, want>>
msgVars == <<sending, streams, got, sentBy>>
vars == <<netVars, connVars, msgVars, faults>>

TypeOK ==
    /\ up \subseteq Peer /\ room \in [Peer -> Room] /\ started \in 0 .. MaxRuns
    /\ run \in [Peer -> 0 .. MaxRuns] /\ port \in [Run -> Port \cup {0}]
    /\ ads \subseteq Entry
    /\ dialing \in [Peer -> [Peer -> 0 .. MaxRuns]]
    /\ table \in [Peer -> [Peer -> Slot \cup {NoSlot}]]
    /\ ends \in [Peer -> [Slot -> {"none", "new", "open"}]]
    /\ pair \in [Slot -> Peer \X Peer] /\ want \in [Slot -> Peer \X (0 .. MaxRuns)]
    /\ sending \in [Peer -> SUBSET (Msg \X Slot)]
    /\ streams \in [Peer -> [Slot -> SUBSET Msg]]
    /\ got \in [Peer -> SUBSET Msg] /\ sentBy \in [Msg -> SUBSET Peer]
    /\ faults \in 0 .. MaxFaults

\* The peer at the other end of p's connection c, and whether p dialed it.
Other(p, c) == IF pair[c][1] = p THEN pair[c][2] ELSE pair[c][1]
Dialed(p, c) == pair[c][1] = p

Init ==
    /\ up = {} /\ room = [p \in Peer |-> CHOOSE r \in Room : TRUE] /\ ads = {}
    /\ started = 0 /\ run = [p \in Peer |-> 0] /\ port = [n \in Run |-> 0]
    /\ dialing = [p \in Peer |-> [q \in Peer |-> 0]]
    /\ table = [p \in Peer |-> [q \in Peer |-> NoSlot]]
    /\ ends = [p \in Peer |-> [c \in Slot |-> "none"]]
    /\ pair = [c \in Slot |-> CHOOSE x \in Peer \X Peer : TRUE]
    /\ want = [c \in Slot |-> <<CHOOSE x \in Peer : TRUE, 0>>]
    /\ sending = [p \in Peer |-> {}]
    /\ streams = [p \in Peer |-> [c \in Slot |-> {}]]
    /\ got = [p \in Peer |-> {}] /\ sentBy = [m \in Msg |-> {}]
    /\ faults = 0
-----------------------------------------------------------------------------
\* The present run of q listens on the address a.
Listens(q, a) == q \in up /\ port[run[q]] = a

\* New and Start in a new process: a fresh table, a listener on some port
\* that is free, the mDNS entry.
Start(p, r, a) ==
    /\ p \notin up /\ started < MaxRuns
    /\ \A q \in Peer : ~Listens(q, a)
    /\ up' = up \cup {p} /\ room' = [room EXCEPT ![p] = r]
    /\ started' = started + 1
    /\ run' = [run EXCEPT ![p] = started + 1]
    /\ port' = [port EXCEPT ![started + 1] = a]
    /\ ads' = ads \cup {[fp |-> p, room |-> r, run |-> started + 1]}
    /\ UNCHANGED <<connVars, msgVars, faults>>

\* Close and the end of the process: the entry is withdrawn and every end is
\* closed.  After a crash the entry stays cached until ForgetAd.
Close(p) ==
    /\ p \in up
    /\ up' = up \ {p}
    /\ \/ ads' = {e \in ads : e.fp # p}
       \/ UNCHANGED ads
    /\ table' = [table EXCEPT ![p] = [q \in Peer |-> NoSlot]]
    /\ dialing' = [dialing EXCEPT ![p] = [q \in Peer |-> 0]]
    /\ ends' = [ends EXCEPT ![p] = [c \in Slot |-> "none"]]
    /\ sending' = [sending EXCEPT ![p] = {}]
    /\ got' = [got EXCEPT ![p] = {}]
    /\ streams' = [q \in Peer |-> [c \in Slot |-> IF ends[p][c] # "none" /\ q # p
                                                  THEN {} ELSE streams[q][c]]]
    /\ UNCHANGED <<room, started, run, port, pair, want, sentBy, faults>>

\* The mDNS record of a run that has ended expires.
ForgetAd(e) ==
    /\ e \in ads /\ (e.fp \notin up \/ e.run # run[e.fp])
    /\ ads' = ads \ {e}
    /\ UNCHANGED <<up, room, started, run, port, connVars, msgVars, faults>>
-----------------------------------------------------------------------------
\* Mutant: the room of the entry is not compared.
HandleEntry_AnyRoom(p, e) ==
    /\ p \in up /\ e \in ads
    /\ p < e.fp
    /\ table[p][e.fp] = NoSlot /\ dialing[p][e.fp] = 0
    /\ dialing' = [dialing EXCEPT ![p][e.fp] = e.run]
    /\ UNCHANGED <<netVars, table, ends, pair, want, msgVars, faults>>

\* handleEntry, for an entry that a browse returns: the smaller fingerprint
\* dials a same-room peer it is neither connected to nor dialing.  An entry
\* without an address sets and clears the mark, which changes nothing.
HandleEntry(p, e) ==
    /\ p \in up /\ e \in ads
    /\ e.room = room[p] /\ p < e.fp
    /\ table[p][e.fp] = NoSlot /\ dialing[p][e.fp] = 0
    /\ dialing' = [dialing EXCEPT ![p][e.fp] = e.run]
    /\ UNCHANGED <<netVars, table, ends, pair, want, msgVars, faults>>

\* A slot is taken while an end exists or a Broadcast holds the connection.
InUse(c) == \E p \in Peer : ends[p][c] # "none" \/ \E m \in Msg : <<m, c>> \in sending[p]

\* The connections p's dial of q has led to: dial returns when their
\* handleConn does.
DialedTo(p, q) == {c \in Slot : ends[p][c] # "none" /\ Dialed(p, c) /\ want[c][1] = q}

\* The address p dials for q.
Target(p, q) == port[dialing[p][q]]

\* dial: the handshake succeeds with whichever peer x listens on the address
\* now, and its acceptLoop gets the other end.
DialOk(p, q, x) ==
    /\ dialing[p][q] # 0 /\ DialedTo(p, q) = {}
    /\ x # p /\ Listens(x, Target(p, q))
    /\ LET c == CHOOSE d \in Slot : ~InUse(d) IN
         /\ \E d \in Slot : ~InUse(d)
         /\ pair' = [pair EXCEPT ![c] = <<p, x>>]
         /\ want' = [want EXCEPT ![c] = <<q, dialing[p][q]>>]
         /\ ends' = [ends EXCEPT ![p][c] = "new", ![x][c] = "new"]
    /\ UNCHANGED <<netVars, dialing, table, msgVars, faults>>

\* Mutant: dial forgets the deferred clearDialing when DialAddr fails.
DialFail_KeepsMark(p, q) ==
    /\ dialing[p][q] # 0 /\ DialedTo(p, q) = {}
    /\ IF \E x \in Peer \ {p} : Listens(x, Target(p, q))
       THEN faults < MaxFaults /\ faults' = faults + 1
       ELSE UNCHANGED faults
    /\ UNCHANGED <<netVars, connVars, msgVars>>

\* dial: nobody listens there any more, or the port is now p's own and both
\* ends close as "self", or the 8 s pass; clearDialing.
DialFail(p, q) ==
    /\ dialing[p][q] # 0 /\ DialedTo(p, q) = {}
    /\ IF \E x \in Peer \ {p} : Listens(x, Target(p, q))
       THEN faults < MaxFaults /\ faults' = faults + 1
       ELSE UNCHANGED faults
    /\ dialing' = [dialing EXCEPT ![p][q] = 0]
    /\ UNCHANGED <<netVars, table, ends, pair, want, msgVars>>
-----------------------------------------------------------------------------
\* p closes its end of c; what was still to be read there is lost.  The dial
\* that handleConn was called from then clears its mark.
CloseEnd(p, c) ==
    /\ ends' = [ends EXCEPT ![p][c] = "none"]
    /\ streams' = [streams EXCEPT ![Other(p, c)][c] = {}]
    /\ dialing' = [dialing EXCEPT ![p][want[c][1]] = IF Dialed(p, c) THEN 0 ELSE @]

\* Mutant: a second connection replaces the first in the table.
HandleConn_Replaces(p, c) ==
    /\ ends[p][c] = "new"
    /\ table' = [table EXCEPT ![p][Other(p, c)] = c]
    /\ ends' = [ends EXCEPT ![p][c] = "open"]
    /\ UNCHANGED <<netVars, dialing, pair, want, msgVars, faults>>

\* handleConn up to the lock: keep the registered connection and close this
\* one as a duplicate, or register this one.
HandleConn(p, c) ==
    /\ ends[p][c] = "new"
    /\ IF table[p][Other(p, c)] # NoSlot
       THEN CloseEnd(p, c) /\ UNCHANGED table
       ELSE /\ table' = [table EXCEPT ![p][Other(p, c)] = c]
            /\ ends' = [ends EXCEPT ![p][c] = "open"]
            /\ UNCHANGED <<dialing, streams>>
    /\ UNCHANGED <<netVars, pair, want, sending, got, sentBy, faults>>

\* Mutant: the entry is set to nil and not deleted.
Disconnect_NilEntry(p, c) ==
    /\ ends[p][c] = "open"
    /\ ends[Other(p, c)][c] = "none"
    /\ table' = [table EXCEPT ![p][Other(p, c)] = "nil"]
    /\ CloseEnd(p, c)
    /\ UNCHANGED <<netVars, pair, want, sending, got, sentBy, faults>>

\* AcceptUniStream fails, because the other end is gone or by a timeout, and
\* handleConn's deferred function removes its own entry.
Disconnect(p, c) ==
    /\ ends[p][c] = "open"
    /\ IF ends[Other(p, c)][c] # "none"
       THEN faults < MaxFaults /\ faults' = faults + 1
       ELSE UNCHANGED faults
    /\ table' = [table EXCEPT ![p][Other(p, c)] = IF @ = c THEN NoSlot ELSE @]
    /\ CloseEnd(p, c)
    /\ UNCHANGED <<netVars, pair, want, sending, got, sentBy>>
-----------------------------------------------------------------------------
\* Peers: who p is connected to.
Peers(p) == {q \in Peer : table[p][q] # NoSlot}

\* Broadcast copies the registered connections under the lock ...
Broadcast(p, m) ==
    /\ p \in up /\ sentBy[m] = {}
    /\ sentBy' = [sentBy EXCEPT ![m] = {p}]
    /\ sending' = [sending EXCEPT ![p] = @ \cup {<<m, table[p][q]>> : q \in Peers(p)}]
    /\ UNCHANGED <<netVars, connVars, streams, got, faults>>

Writable(p, c) == ends[p][c] = "open" /\ ends[Other(p, c)][c] # "none"

\* Mutant: a connection is tried again after its write went through.
WriteStream_Repeats(p, m, c) ==
    /\ <<m, c>> \in sending[p]
    /\ Writable(p, c)
    /\ streams' = [streams EXCEPT ![p][c] = @ \cup {m}]
    /\ UNCHANGED <<netVars, connVars, sending, got, sentBy, faults>>

\* ... and opens a stream on each.  That fails if the end has closed meanwhile
\* or the 5 s pass; WriteFrame refuses a frame over MaxFrame; frames to an end
\* that is gone are lost.  Each is logged and the next connection is tried.
WriteStream(p, m, c) ==
    /\ <<m, c>> \in sending[p]
    /\ sending' = [sending EXCEPT ![p] = @ \ {<<m, c>>}]
    /\ \/ /\ Writable(p, c)
          /\ streams' = [streams EXCEPT ![p][c] = @ \cup {m}] /\ UNCHANGED faults
       \/ /\ ~Writable(p, c)
          /\ UNCHANGED <<streams, faults>>
       \/ /\ Writable(p, c) /\ faults < MaxFaults
          /\ faults' = faults + 1 /\ UNCHANGED streams
    /\ UNCHANGED <<netVars, connVars, got, sentBy>>

\* Mutant: only the dialing side runs the accept loop.
ReadStream_DialerOnly(p, m, c) ==
    /\ ends[p][c] = "open" /\ m \in streams[Other(p, c)][c] /\ Dialed(p, c)
    /\ streams' = [streams EXCEPT ![Other(p, c)][c] = @ \ {m}]
    /\ got' = [got EXCEPT ![p] = @ \cup {m}]
    /\ UNCHANGED <<netVars, connVars, sending, sentBy, faults>>

\* handleConn accepts a stream and readStream hands its envelope to recvFn.
ReadStream(p, m, c) ==
    /\ ends[p][c] = "open" /\ m \in streams[Other(p, c)][c]
    /\ streams' = [streams EXCEPT ![Other(p, c)][c] = @ \ {m}]
    /\ got' = [got EXCEPT ![p] = @ \cup {m}]
    /\ UNCHANGED <<netVars, connVars, sending, sentBy, faults>>

Next ==
    \/ \E p \in Peer :
         \/ Close(p)
         \/ \E r \in Room, a \in Port : Start(p, r, a)
         \/ \E e \in ads : HandleEntry(p, e)
         \/ \E q \in Peer : DialFail(p, q) \/ \E x \in Peer : DialOk(p, q, x)
         \/ \E c \in Slot : HandleConn(p, c) \/ Disconnect(p, c)
         \/ \E m \in Msg : \/ Broadcast(p, m)
                           \/ \E c \in Slot : WriteStream(p, m, c) \/ ReadStream(p, m, c)
    \/ \E e \in ads : ForgetAd(e)

Spec == Init /\ [][Next]_vars

\* browseLoop asks again for as long as the transport runs, dials end or time
\* out, goroutines run, the idle timeout ends a connection whose other end is
\* gone, and cached mDNS records expire.
Fairness ==
    /\ \A p, q \in Peer :
         /\ WF_vars(\E e \in ads : e.fp = q /\ HandleEntry(p, e))
         /\ WF_vars(DialFail(p, q) \/ \E x \in Peer : DialOk(p, q, x))
    /\ \A p \in Peer, c \in Slot :
         /\ WF_vars(HandleConn(p, c))
         /\ WF_vars(ends[Other(p, c)][c] = "none" /\ Disconnect(p, c))
         /\ \A m \in Msg : WF_vars(WriteStream(p, m, c)) /\ WF_vars(ReadStream(p, m, c))
    /\ WF_vars(\E e \in ads : ForgetAd(e))

FairSpec == Spec /\ Fairness
-----------------------------------------------------------------------------
\* The table of a peer is the connections its handlers serve, one per other
\* peer, whichever restarts, duplicates and late disconnects interleave: a
\* stale entry would stop every later dial, an unlisted open connection would
\* never be sent to.
TableIsServed ==
    \A p \in Peer :
        /\ \A q \in Peers(p) : LET c == table[p][q] IN ends[p][c] = "open" /\ Other(p, c) = q
        /\ \A c \in Slot : ends[p][c] = "open" => table[p][Other(p, c)] = c

\* Owed[p]: the envelopes on their way to an end of p.
Owed == [p \in Peer |-> UNION {streams[Other(p, c)][c] :
                                c \in {d \in Slot : ends[p][d] # "none"}}]

Contract == INSTANCE PeerTransport WITH owed <- Owed

\* The transport keeps its contract: an envelope is handed to a run of a peer
\* at most once, and only after another running peer broadcast it, over any
\* restarts, duplicate connections, stale mDNS entries and reused addresses.
ImplementsContract == Contract!Spec

\* Both ends of c are there: neither peer has restarted since the handshake.
Joined(c) == ends[pair[c][1]][c] # "none" /\ ends[pair[c][2]][c] # "none"

\* c was dialed for the very run that accepted it.
AsDialed(c) == want[c] = <<pair[c][2], run[pair[c][2]]>>

\* Two rooms are joined only through an address that a later run was given:
\* a connection with the run whose entry was dialed is between peers of one
\* room, whichever of them restarted, changed its room or left a stale entry.
RoomsMixOnlyByReuse ==
    \A c \in Slot : Joined(c) /\ AsDialed(c) => room[pair[c][1]] = room[pair[c][2]]

Linked(p, q) ==
    /\ table[p][q] # NoSlot /\ table[p][q] = table[q][p]
    /\ ends[p][table[p][q]] = "open" /\ ends[q][table[p][q]] = "open"

\* p's dial for q is spent on a connection with somebody else, at an address
\* that was q's: p keeps the mark and does not dial q while that lasts.
Misdialed(p, q) == \E c \in DialedTo(p, q) : Other(p, c) # q

\* Once restarts and faults end, two running peers of a room are registered
\* with each other on one connection for good, whichever of them restarted
\* while the other still held the connection of the earlier run, unless the
\* dial met a third peer.  (The smaller fingerprint is the one that dials.)
RoommatesLink ==
    \A p, q \in Peer :
        p < q => <>[]({p, q} \subseteq up /\ room[p] = room[q] /\ ~Misdialed(p, q)
                        => Linked(p, q))

\* Once writes on a live link have stopped failing, a broadcast that a linked
\* peer is due reaches its daemon, unless the link breaks.
LinkedBroadcastArrives ==
    \A p, q \in Peer, m \in Msg :
        (Linked(p, q) /\ <<m, table[p][q]>> \in sending[p] /\ faults = MaxFaults)
            ~> (m \in got[q] \/ ~Linked(p, q))
=============================================================================
