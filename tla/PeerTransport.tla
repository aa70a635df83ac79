---------------------------- MODULE PeerTransport ----------------------------
(***************************************************************************)
(* What the shared daemon may rely on of a transport between peers: a      *)
(* broadcast is owed to peers that run at that moment, each run of a peer  *)
(* gets it at most once and only if it is owed, in any order, and what is  *)
(* owed may be lost.  A peer forgets what it got when it stops.  Nothing   *)
(* is promised of rooms: the envelope carries none, and a transport only   *)
(* looks for its own room's peers.                                         *)
(***************************************************************************)
EXTENDS Naturals

CONSTANTS Peer,   \* the identities
          Msg     \* the envelopes that may be sent, each once

VARIABLES up,     \* peers that run
          sentBy, \* sentBy[m]: the peers that have broadcast m
          owed,   \* owed[p]: envelopes on their way to this run of p
          got     \* got[p]: envelopes handed to this run of p

vars == <<up, sentBy, owed, got>>

Init ==
    /\ up = {} /\ sentBy = [m \in Msg |-> {}]
    /\ owed = [p \in Peer |-> {}] /\ got = [p \in Peer |-> {}]

Start(p) ==
    /\ p \notin up
    /\ up' = up \cup {p}
    /\ UNCHANGED <<sentBy, owed, got>>

Stop(p) ==
    /\ p \in up
    /\ up' = up \ {p}
    /\ owed' = [owed EXCEPT ![p] = {}] /\ got' = [got EXCEPT ![p] = {}]
    /\ UNCHANGED sentBy

Broadcast(p, m) ==
    /\ p \in up /\ sentBy[m] = {}
    /\ sentBy' = [sentBy EXCEPT ![m] = {p}]
    /\ UNCHANGED <<up, owed, got>>

\* One peer of the broadcast: it has not had m yet.
Owe(p, q, m) ==
    /\ p \in sentBy[m] /\ {p, q} \subseteq up /\ p # q
    /\ m \notin owed[q] \cup got[q]
    /\ owed' = [owed EXCEPT ![q] = @ \cup {m}]
    /\ UNCHANGED <<up, sentBy, got>>

Deliver(q, m) ==
    /\ m \in owed[q]
    /\ owed' = [owed EXCEPT ![q] = @ \ {m}]
    /\ got' = [got EXCEPT ![q] = @ \cup {m}]
    /\ UNCHANGED <<up, sentBy>>

Lose(q) ==
    /\ \E L \in SUBSET owed[q] : owed' = [owed EXCEPT ![q] = @ \ L]
    /\ UNCHANGED <<up, sentBy, got>>

Next ==
    \E p \in Peer :
        \/ Start(p) \/ Stop(p) \/ Lose(p)
        \/ \E m \in Msg : Broadcast(p, m) \/ Deliver(p, m)
                          \/ \E q \in Peer : Owe(p, q, m)

Spec == Init /\ [][Next]_vars
=============================================================================
