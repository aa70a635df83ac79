--------------------------- MODULE RoomMulticast ---------------------------
(***************************************************************************)
(* What a room promises the sessions in it, with no queues, goroutines or  *)
(* locks: a frame a member sends is due to every other member of its room  *)
(* at that moment, and each of them gets it at most once, after the        *)
(* frames of the same sender that it was due earlier.  A due frame may be   *)
(* lost.  The n-th frame that session s sends is the pair <<s, n>>.        *)
(***************************************************************************)
EXTENDS Naturals, Sequences

CONSTANTS Session,    \* the sessions that may ever join; each joins once
          Room,       \* the room names
          Quota       \* bound: session s sends Quota[s] frames

ASSUME RoomMulticastAssumption ==
    /\ {"outside", "left"} \cap Room = {}
    /\ Quota \in [Session -> Nat]

VARIABLES member,   \* member[s]: its room, or "outside" before, "left" after
          sent,     \* sent[s]: how many frames s has sent
          due,      \* due[s]: frames s should still get
          got       \* got[s]: frames s got, in order

mvars == <<member, sent, due, got>>

Frame == Session \X Nat
Sender(f) == f[1]
SeqNo(f)  == f[2]

\* The sessions s shares its room with.
Roommates(s) == {t \in Session \ {s} : member[t] = member[s]}

MulticastTypeOK ==
    /\ member \in [Session -> Room \cup {"outside", "left"}]
    /\ sent \in [Session -> Nat]
    /\ due \in [Session -> SUBSET Frame]
    /\ got \in [Session -> Seq(Frame)]

MulticastInit ==
    /\ member = [s \in Session |-> "outside"]
    /\ sent = [s \in Session |-> 0]
    /\ due = [s \in Session |-> {}]
    /\ got = [s \in Session |-> <<>>]

Enter(s, r) ==
    /\ member[s] = "outside"
    /\ member' = [member EXCEPT ![s] = r]
    /\ UNCHANGED <<sent, due, got>>

Send(s) ==
    /\ member[s] \in Room
    /\ sent[s] < Quota[s]
    /\ sent' = [sent EXCEPT ![s] = @ + 1]
    /\ due' = [t \in Session |->
                 IF t \in Roommates(s) THEN due[t] \cup {<<s, sent[s] + 1>>}
                                       ELSE due[t]]
    /\ UNCHANGED <<member, got>>

Get(t, f) ==
    /\ member[t] \in Room
    /\ f \in due[t]
    /\ \A g \in due[t] : Sender(g) = Sender(f) => SeqNo(f) <= SeqNo(g)
    /\ got' = [got EXCEPT ![t] = Append(@, f)]
    /\ due' = [due EXCEPT ![t] = @ \ {f}]
    /\ UNCHANGED <<member, sent>>

Lose(t, f) ==
    /\ f \in due[t]
    /\ due' = [due EXCEPT ![t] = @ \ {f}]
    /\ UNCHANGED <<member, sent, got>>

Leave(s) ==
    /\ member[s] \in Room
    /\ member' = [member EXCEPT ![s] = "left"]
    /\ UNCHANGED <<sent, due, got>>

MulticastNext ==
    \E s \in Session :
        \/ \E r \in Room : Enter(s, r)
        \/ Send(s)
        \/ \E f \in due[s] : Get(s, f) \/ Lose(s, f)
        \/ Leave(s)

MulticastSpec == MulticastInit /\ [][MulticastNext]_mvars
============================================================================
