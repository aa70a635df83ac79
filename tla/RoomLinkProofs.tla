--------------------------- MODULE RoomLinkProofs ---------------------------
(***************************************************************************)
(* Proofs about the daemon's link to the servers: the shape of its state,  *)
(* that a published session belongs to a loop, and that ingest accepts a   *)
(* msg_id again only after DedupeCap other items.                          *)
(***************************************************************************)
EXTENDS RoomLink, SequenceTheorems, TLAPS

\* A loop past its dial holds a session.
LoopsHoldSessions ==
    \A l \in Loop : pc[l] \in {"started", "recv", "drop"} => sess[l] \in OwnSession

Typed == TypeOK /\ LoopsHoldSessions

\* Dedupe.order is the tail end of the accepted items: the last DedupeCap of
\* them, or all while there are fewer.
OrderIsRecentItems ==
    /\ Len(order) = IF Len(items) <= DedupeCap THEN Len(items) ELSE DedupeCap
    /\ \A k \in 1..Len(order) : order[k] = items[Len(items) - Len(order) + k]

DedupeInv == OrderIsRecentItems /\ ReprocessedOnlyAfterEviction
-----------------------------------------------------------------------------
LEMMA InitTyped == Init => Typed
<1> SUFFICES ASSUME Init PROVE Typed
  OBVIOUS
<1> USE RoomLinkAssumption, RoomMulticastAssumption
<1>1. MulticastTypeOK
  BY DEF Init, MulticastTypeOK, Target, Frame
<1>2. pc \in [Loop -> {"off", "dial", "started", "recv", "drop", "wait"}]
       /\ target \in [Loop -> Target \cup {NoTarget}]
  BY DEF Init
<1>3. wire \in [OwnSession -> Nat] /\ sess \in [Loop -> OwnSession \cup {NoSession}]
  BY DEF Init
<1>4. order \in Seq(Frame) /\ items \in Seq(Frame) /\ Len(order) <= DedupeCap
  BY DEF Init
<1>5. LoopsHoldSessions
  BY DEF Init, LoopsHoldSessions
<1> QED
  BY <1>1, <1>2, <1>3, <1>4, <1>5 DEF Init, Typed, TypeOK

\* What a member sends, gets or leaves keeps the rooms' state in its types.
LEMMA SendKeepsTypes ==
    ASSUME MulticastTypeOK, NEW s \in Session, Send(s) PROVE MulticastTypeOK'
<1>1. <<s, sent[s] + 1>> \in Frame
  BY DEF MulticastTypeOK, Frame
<1>2. due' \in [Session -> SUBSET Frame]
  BY <1>1 DEF MulticastTypeOK, Send
<1>3. sent' \in [Session -> Nat] /\ member' = member /\ got' = got
  BY DEF MulticastTypeOK, Send
<1> QED
  BY <1>2, <1>3 DEF MulticastTypeOK

LEMMA GetKeepsTypes ==
    ASSUME MulticastTypeOK, NEW t \in Session, NEW f \in due[t], Get(t, f)
    PROVE  MulticastTypeOK' /\ f \in Frame
<1>1. f \in Frame
  BY DEF MulticastTypeOK
<1>2. got' \in [Session -> Seq(Frame)]
  <2>1. Append(got[t], f) \in Seq(Frame)
    BY <1>1, AppendProperties DEF MulticastTypeOK
  <2> QED
    BY <2>1 DEF Get, MulticastTypeOK
<1>3. due' \in [Session -> SUBSET Frame]
  BY DEF Get, MulticastTypeOK
<1> QED
  BY <1>1, <1>2, <1>3 DEF MulticastTypeOK, Get

LEMMA RememberKeepsTypes ==
    ASSUME order \in Seq(Frame), Len(order) <= DedupeCap, NEW f \in Frame
    PROVE  Remember(f) \in Seq(Frame) /\ Len(Remember(f)) <= DedupeCap
<1> USE RoomLinkAssumption
<1>1. CASE Len(order) < DedupeCap
  <2> HIDE DEF Frame
  <2>1. Append(order, f) \in Seq(Frame) /\ Len(Append(order, f)) = Len(order) + 1
    BY AppendProperties
  <2>2. Len(order) \in Nat
    BY LenProperties
  <2> QED
    BY <1>1, <2>1, <2>2 DEF Remember
<1>2. CASE ~(Len(order) < DedupeCap)
  <2>1. Len(order) \in Nat /\ order # <<>>
    BY <1>2, LenProperties
  <2>2. Tail(order) \in Seq(Frame) /\ Len(Tail(order)) = Len(order) - 1
    BY <2>1, HeadTailProperties
  <2>3. Append(Tail(order), f) \in Seq(Frame)
          /\ Len(Append(Tail(order), f)) = Len(Tail(order)) + 1
    BY <2>2, AppendProperties
  <2> QED
    BY <1>2, <2>1, <2>2, <2>3 DEF Remember
<1> QED
  BY <1>1, <1>2

LEMMA NextTyped == Typed /\ [Next]_vars => Typed'
<1> SUFFICES ASSUME Typed, [Next]_vars PROVE Typed'
  OBVIOUS
<1> USE RoomLinkAssumption, RoomMulticastAssumption
<1>0. TypeOK /\ LoopsHoldSessions
  BY DEF Typed
<1>a. CASE UNCHANGED vars
  BY <1>0, <1>a DEF Typed, TypeOK, LoopsHoldSessions, MulticastTypeOK, vars, lvars, mvars
<1>b. ASSUME NEW t \in Target, Join(t) PROVE Typed'
  <2>1. MulticastTypeOK'
    BY <1>0, <1>b DEF TypeOK, MulticastTypeOK, mvars, Join
  <2>2. /\ pc' \in [Loop -> {"off", "dial", "started", "recv", "drop", "wait"}]
        /\ target' \in [Loop -> Target \cup {NoTarget}]
        /\ \A l \in Loop : pc'[l] \in {"started", "recv", "drop"} => pc'[l] = pc[l]
    <3>1. CASE UNCHANGED <<target, pc>>
      BY <1>0, <3>1 DEF TypeOK
    <3>2. ASSUME NEW l \in Loop, target' = [target EXCEPT ![l] = t],
                 pc' = [pc EXCEPT ![l] = "dial"]
          PROVE  /\ pc' \in [Loop -> {"off", "dial", "started", "recv", "drop", "wait"}]
                 /\ target' \in [Loop -> Target \cup {NoTarget}]
                 /\ \A m \in Loop : pc'[m] \in {"started", "recv", "drop"} => pc'[m] = pc[m]
      BY <1>0, <3>2 DEF TypeOK
    <3> QED
      BY <1>b, <3>1, <3>2 DEF Join
  <2> QED
    BY <1>0, <1>b, <2>1, <2>2 DEF Typed, TypeOK, LoopsHoldSessions, Join
<1>c. ASSUME NEW t \in Target, ServerStops(t) PROVE Typed'
  BY <1>0, <1>c DEF Typed, TypeOK, LoopsHoldSessions, MulticastTypeOK, mvars, ServerStops
<1>d. ASSUME NEW l \in Loop, DialOk(l) PROVE Typed'
  <2> DEFINE s == CHOOSE x \in OwnSession : member[x] = "outside"
  <2>1. s \in OwnSession
    BY <1>d DEF DialOk
  <2>2. target[l] \in Target
    BY <1>0, <1>d DEF DialOk, TypeOK
  <2>3. sess' = [sess EXCEPT ![l] = s] /\ Enter(s, target[l])
    BY <1>d DEF DialOk
  <2> HIDE DEF s
  <2>4. MulticastTypeOK'
    BY <1>0, <2>1, <2>2, <2>3 DEF TypeOK, MulticastTypeOK, Enter, Target
  <2> QED
    BY <1>0, <1>d, <2>1, <2>3, <2>4 DEF Typed, TypeOK, LoopsHoldSessions, DialOk
<1>e. ASSUME NEW l \in Loop, DialFail(l) PROVE Typed'
  BY <1>0, <1>e DEF Typed, TypeOK, LoopsHoldSessions, MulticastTypeOK, mvars, DialFail
<1>f. ASSUME NEW l \in Loop, Publish(l) PROVE Typed'
  BY <1>0, <1>f DEF Typed, TypeOK, LoopsHoldSessions, MulticastTypeOK, mvars, Publish
<1>g. ASSUME NEW l \in Loop, Recv(l) PROVE Typed'
  <2>1. sess[l] \in Session
    BY <1>0, <1>g DEF LoopsHoldSessions, Recv
  <2>2. PICK f \in due[sess[l]] :
          /\ Get(sess[l], f)
          /\ \/ UNCHANGED <<order, items>>
             \/ order' = Remember(f) /\ items' = Append(items, f)
    BY <1>g DEF Recv
  <2>3. MulticastTypeOK' /\ f \in Frame
    BY <1>0, <2>1, <2>2, GetKeepsTypes DEF TypeOK
  <2>4. order' \in Seq(Frame) /\ Len(order') <= DedupeCap /\ items' \in Seq(Frame)
    <3>1. order \in Seq(Frame) /\ Len(order) <= DedupeCap /\ items \in Seq(Frame)
      BY <1>0 DEF TypeOK
    <3>2. Remember(f) \in Seq(Frame) /\ Len(Remember(f)) <= DedupeCap
      BY <2>3, <3>1, RememberKeepsTypes
    <3>3. Append(items, f) \in Seq(Frame)
      BY <2>3, <3>1, AppendProperties
    <3> QED
      BY <2>2, <3>1, <3>2, <3>3
  <2> QED
    BY <1>0, <1>g, <2>3, <2>4 DEF Typed, TypeOK, LoopsHoldSessions, Recv
<1>h. ASSUME NEW l \in Loop, RecvLoopEnds(l) PROVE Typed'
  BY <1>0, <1>h DEF Typed, TypeOK, LoopsHoldSessions, MulticastTypeOK, mvars, RecvLoopEnds
<1>i. ASSUME NEW l \in Loop, Clear(l) PROVE Typed'
  BY <1>0, <1>i DEF Typed, TypeOK, LoopsHoldSessions, MulticastTypeOK, mvars, Clear
<1>j. ASSUME NEW l \in Loop, Redial(l) PROVE Typed'
  BY <1>0, <1>j DEF Typed, TypeOK, LoopsHoldSessions, MulticastTypeOK, mvars, Redial
<1>k. ASSUME SendCheck PROVE Typed'
  BY <1>0, <1>k DEF Typed, TypeOK, LoopsHoldSessions, MulticastTypeOK, mvars, SendCheck
<1>l. ASSUME SendWrite PROVE Typed'
  <2>1. wire' \in [OwnSession -> Nat]
    <3>1. CASE sending \notin broken /\ wire' = [wire EXCEPT ![sending] = @ + 1]
      <4>1. sending \in OwnSession /\ wire \in [OwnSession -> Nat]
        BY <1>0, <1>l DEF TypeOK, SendWrite
      <4> QED
        BY <3>1, <4>1
    <3> QED
      BY <1>0, <1>l, <3>1 DEF TypeOK, SendWrite
  <2> QED
    BY <1>0, <1>l, <2>1 DEF Typed, TypeOK, LoopsHoldSessions, MulticastTypeOK, mvars, SendWrite
<1>m. ASSUME NEW s \in OwnSession, ServerReads(s) PROVE Typed'
  <2>1. MulticastTypeOK'
    BY <1>0, <1>m, SendKeepsTypes DEF TypeOK, ServerReads
  <2> QED
    BY <1>0, <1>m, <2>1 DEF Typed, TypeOK, LoopsHoldSessions, ServerReads
<1>n. ASSUME NEW s \in OwnSession, ServerDrops(s) PROVE Typed'
  <2>1. MulticastTypeOK'
    BY <1>0, <1>n DEF TypeOK, MulticastTypeOK, ServerDrops, Leave
  <2> QED
    BY <1>0, <1>n, <2>1 DEF Typed, TypeOK, LoopsHoldSessions, ServerDrops
<1>o. ASSUME NEW s \in OwnSession, Break(s) PROVE Typed'
  BY <1>0, <1>o DEF Typed, TypeOK, LoopsHoldSessions, MulticastTypeOK, mvars, Break
<1>p. ASSUME NEW p \in DOMAIN PeerRoom, PeerSends(p) PROVE Typed'
  <2>1. MulticastTypeOK'
    BY <1>0, <1>p, SendKeepsTypes DEF TypeOK, PeerSends
  <2> QED
    BY <1>0, <1>p, <2>1 DEF Typed, TypeOK, LoopsHoldSessions, PeerSends, lvars
<1> QED
  BY <1>a, <1>b, <1>c, <1>d, <1>e, <1>f, <1>g, <1>h, <1>i, <1>j, <1>k, <1>l,
     <1>m, <1>n, <1>o, <1>p DEF Next

LEMMA AlwaysTyped == Spec => []Typed
BY InitTyped, NextTyped, PTL DEF Spec

\* The link's state keeps its types: in particular the msg_id memory never
\* outgrows its capacity, and d.conn.in is nil or a session this daemon opened.
THEOREM LinkTypeCorrect == Spec => []TypeOK
<1>1. Typed => TypeOK
  BY DEF Typed
<1> QED
  BY <1>1, AlwaysTyped, PTL
-----------------------------------------------------------------------------
LEMMA NextConnected ==
    Typed /\ ConnectedIsALoopsSession /\ [Next]_vars => ConnectedIsALoopsSession'
<1> SUFFICES ASSUME Typed, ConnectedIsALoopsSession, [Next]_vars, connected'
             PROVE  \E l \in Loop : /\ pc'[l] \in {"recv", "drop"}
                                    /\ connIn' = sess'[l] /\ connTarget' = target'[l]
  BY DEF ConnectedIsALoopsSession
<1>1. CASE \E l \in Loop : Publish(l)
  <2>1. PICK l \in Loop : Publish(l)
    BY <1>1
  <2>2. pc'[l] = "recv" /\ connIn' = sess'[l] /\ connTarget' = target'[l]
    BY <2>1 DEF Publish, Typed, TypeOK
  <2> QED
    BY <2>2
<1>2. CASE \E l \in Loop : Clear(l)
  BY <1>2, Zenon DEF Clear
<1>3. CASE ~(\E l \in Loop : Publish(l) \/ Clear(l))
  <2>1. connected' = connected /\ connIn' = connIn /\ connTarget' = connTarget
    BY <1>3, Zenon DEF Next, vars, lvars, Join, ServerStops, DialOk, DialFail, Recv, RecvLoopEnds,
       Redial, SendCheck, SendWrite, ServerReads, ServerDrops, Break, PeerSends
  <2>2. PICK l \in Loop : /\ pc[l] \in {"recv", "drop"}
                          /\ connIn = sess[l] /\ connTarget = target[l]
    BY <2>1, Zenon DEF ConnectedIsALoopsSession
  <2> DEFINE Kept == pc'[l] \in {"recv", "drop"} /\ sess'[l] = sess[l] /\ target'[l] = target[l]
  <2>3. Kept
    <3>1. pc \in [Loop -> {"off", "dial", "started", "recv", "drop", "wait"}]
            /\ sess \in [Loop -> OwnSession \cup {NoSession}]
            /\ target \in [Loop -> Target \cup {NoTarget}]
      BY DEF Typed, TypeOK
    <3>2. ASSUME NEW m \in Loop, DialOk(m) \/ DialFail(m) \/ Recv(m)
                   \/ RecvLoopEnds(m) \/ Redial(m)
          PROVE  Kept
      BY <2>2, <3>1, <3>2 DEF DialOk, DialFail, Recv, RecvLoopEnds, Redial
    <3>3. ASSUME NEW t \in Target, Join(t)
          PROVE  Kept
      BY <2>2, <3>1, <3>3 DEF Join
    <3>4. CASE UNCHANGED <<pc, sess, target>>
      BY <2>2, <3>4
    <3> QED
      BY <1>3, <3>2, <3>3, <3>4 DEF Next, vars, lvars, ServerStops, SendCheck,
         SendWrite, ServerReads, ServerDrops, Break, PeerSends
  <2> QED
    BY <2>1, <2>2, <2>3
<1> QED
  BY <1>1, <1>2, <1>3

\* What status reports as connected, and what send writes to, is the session
\* of a connectLoop that published it and has not cleared it, whatever joins,
\* breaks and redials of the other loops come between.
THEOREM ConnectedHasALoop == Spec => []ConnectedIsALoopsSession
<1>1. Init => ConnectedIsALoopsSession
  BY Zenon DEF Init, ConnectedIsALoopsSession
<1> QED
  BY <1>1, NextConnected, AlwaysTyped, PTL DEF Spec
-----------------------------------------------------------------------------
\* What a step does to the msg_id memory: nothing, or it takes in a frame that
\* is not in it.
LEMMA DedupeView ==
    ASSUME Typed, [Next]_vars
    PROVE  \/ UNCHANGED <<order, items>>
           \/ \E f \in Frame : /\ f \notin Range(order)
                               /\ order' = Remember(f) /\ items' = Append(items, f)
<1>1. ASSUME NEW l \in Loop, Recv(l)
      PROVE  \/ UNCHANGED <<order, items>>
             \/ \E f \in Frame : /\ f \notin Range(order)
                                 /\ order' = Remember(f) /\ items' = Append(items, f)
  <2>1. sess[l] \in Session
    BY <1>1, RoomLinkAssumption DEF Typed, LoopsHoldSessions, Recv
  <2>2. due[sess[l]] \subseteq Frame
    BY <2>1 DEF Typed, TypeOK, MulticastTypeOK
  <2> QED
    BY <1>1, <2>2 DEF Recv
<1>2. CASE ~(\E l \in Loop : Recv(l))
  BY <1>2 DEF Next, vars, lvars, Join, ServerStops, DialOk, DialFail, Publish,
     RecvLoopEnds, Clear, Redial, SendCheck, SendWrite, ServerReads, ServerDrops,
     Break, PeerSends
<1> QED
  BY <1>1, <1>2

\* The memory holds what it should after taking in a frame.
LEMMA RememberIsRecent ==
    ASSUME Typed, OrderIsRecentItems, NEW f \in Frame,
           order' = Remember(f), items' = Append(items, f)
    PROVE  OrderIsRecentItems'
<1>0. DedupeCap \in Nat /\ DedupeCap >= 1
  BY RoomLinkAssumption
<1>1. order \in Seq(Frame) /\ items \in Seq(Frame)
  BY DEF Typed, TypeOK
<1> DEFINE n == Len(items)
           m == Len(order)
<1>2. n \in Nat /\ m \in Nat
  BY <1>1, LenProperties
<1>3. Len(items') = n + 1 /\ items'[n + 1] = f /\ \A k \in 1..n : items'[k] = items[k]
  BY <1>1, AppendProperties
<1>4. m = IF n <= DedupeCap THEN n ELSE DedupeCap
  BY DEF OrderIsRecentItems
<1>5. \A k \in 1..m : order[k] = items[n - m + k]
  BY DEF OrderIsRecentItems
<1>6. CASE m < DedupeCap
  <2>1. order' = Append(order, f)
    BY <1>6 DEF Remember
  <2>2. Len(order') = m + 1 /\ order'[m + 1] = f /\ \A k \in 1..m : order'[k] = order[k]
    BY <1>1, <2>1, AppendProperties
  <2> HIDE DEF n, m
  <2>3. m = n /\ n + 1 <= DedupeCap
    BY <1>0, <1>2, <1>4, <1>6
  <2>4. Len(items') = n + 1 /\ Len(order') = n + 1
    BY <1>3, <2>2, <2>3
  <2>5. ASSUME NEW k \in 1..(n + 1) PROVE order'[k] = items'[k]
    <3>1. CASE k = n + 1
      BY <1>3, <2>2, <2>3, <3>1
    <3>2. CASE k # n + 1
      <4>1. k \in 1..n /\ n - m + k = k
        BY <1>2, <2>3, <3>2
      <4>2. order'[k] = order[k] /\ items'[k] = items[k]
        BY <1>3, <2>2, <2>3, <4>1
      <4>3. order[k] = items[k]
        BY <1>5, <2>3, <4>1
      <4> QED
        BY <4>2, <4>3
    <3> QED
      BY <3>1, <3>2
  <2>6. ASSUME NEW k \in 1..(n + 1) PROVE Len(items') - Len(order') + k = k
    BY <1>2, <2>4
  <2>7. \A k \in 1..Len(order') : order'[k] = items'[Len(items') - Len(order') + k]
    BY <2>4, <2>5, <2>6
  <2>8. Len(order') = IF Len(items') <= DedupeCap THEN Len(items') ELSE DedupeCap
    BY <2>3, <2>4
  <2> QED
    BY <2>7, <2>8 DEF OrderIsRecentItems
<1>7. CASE ~(m < DedupeCap)
  <2>1. order' = Append(Tail(order), f) /\ m = DedupeCap
    BY <1>0, <1>2, <1>4, <1>7 DEF Remember
  <2>2. order # <<>>
    BY <1>0, <1>2, <1>7
  <2>3. Tail(order) \in Seq(Frame) /\ Len(Tail(order)) = m - 1
          /\ \A k \in 1..(m - 1) : Tail(order)[k] = order[k + 1]
    BY <1>1, <2>2, HeadTailProperties
  <2>4. Len(order') = m /\ order'[m] = f /\ \A k \in 1..(m - 1) : order'[k] = order[k + 1]
    BY <1>0, <1>2, <2>1, <2>3, AppendProperties
  <2> HIDE DEF n, m
  <2>5. m = DedupeCap /\ n >= m
    BY <1>0, <1>2, <1>4, <2>1
  <2>6. \A k \in 1..m : order'[k] = items'[n + 1 - m + k]
    <3>1. ASSUME NEW k \in 1..(m - 1) PROVE order'[k] = items'[n + 1 - m + k]
      <4>0. k \in Nat /\ k >= 1 /\ k <= m - 1
        BY <1>0, <1>2, <2>5
      <4>1. k + 1 \in 1..m /\ n - m + (k + 1) = n + 1 - m + k /\ n + 1 - m + k \in 1..n
        BY <1>2, <2>5, <4>0
      <4>2. order'[k] = order[k + 1]
        BY <2>4
      <4>3. order[k + 1] = items[n + 1 - m + k]
        BY <1>5, <4>1
      <4>4. items'[n + 1 - m + k] = items[n + 1 - m + k]
        BY <1>3, <4>1
      <4> QED
        BY <4>2, <4>3, <4>4
    <3>2. order'[m] = items'[n + 1 - m + m]
      BY <1>0, <1>2, <1>3, <2>4
    <3>3. \A k \in 1..m : k = m \/ k \in 1..(m - 1)
      BY <1>2
    <3> QED
      BY <3>1, <3>2, <3>3
  <2>7. Len(order') = IF n + 1 <= DedupeCap THEN n + 1 ELSE DedupeCap
    BY <1>0, <1>2, <2>4, <2>5
  <2>8. Len(items') = n + 1 /\ Len(order') = m
    BY <1>3, <2>4
  <2>9. \A k \in 1..Len(order') : order'[k] = items'[Len(items') - Len(order') + k]
    <3>1. SUFFICES ASSUME NEW k \in 1..m
                   PROVE  order'[k] = items'[Len(items') - Len(order') + k]
      BY <2>8
    <3>2. order'[k] = items'[n + 1 - m + k]
      BY <2>6
    <3>3. Len(items') - Len(order') + k = n + 1 - m + k
      BY <1>2, <2>8
    <3> QED
      BY <3>2, <3>3
  <2> QED
    BY <2>7, <2>8, <2>9 DEF OrderIsRecentItems
<1> QED
  BY <1>6, <1>7

\* A frame outside the memory is far from its earlier acceptance.
LEMMA FreshIsFar ==
    ASSUME Typed, DedupeInv, NEW f \in Frame, f \notin Range(order),
           items' = Append(items, f)
    PROVE  ReprocessedOnlyAfterEviction'
<1>0. DedupeCap \in Nat /\ DedupeCap >= 1
  BY RoomLinkAssumption
<1> DEFINE n == Len(items)
           m == Len(order)
<1>1. order \in Seq(Frame) /\ items \in Seq(Frame)
  BY DEF Typed, TypeOK
<1>2. n \in Nat /\ m \in Nat /\ DOMAIN order = 1..m /\ DOMAIN items = 1..n
  BY <1>1, LenProperties
<1>3. DOMAIN items' = 1..(n + 1) /\ items'[n + 1] = f
        /\ \A k \in 1..n : items'[k] = items[k]
  BY <1>1, AppendProperties
<1>4. \A k \in 1..m : order[k] = items[n - m + k] /\ order[k] # f
  BY <1>0, <1>2 DEF DedupeInv, OrderIsRecentItems, Range
<1>5. m = IF n <= DedupeCap THEN n ELSE DedupeCap
  BY DEF DedupeInv, OrderIsRecentItems
<1>6. \A i, j \in 1..n : i < j /\ items[i] = items[j] => j - i > DedupeCap
  BY <1>0, <1>2 DEF DedupeInv, ReprocessedOnlyAfterEviction
<1> HIDE DEF n, m
<1>7. ASSUME NEW i \in 1..n, items[i] = f PROVE n + 1 - i > DedupeCap
  <2>1. i <= n - m
    <3>1. SUFFICES ASSUME i > n - m PROVE FALSE
      BY <1>0, <1>2
    <3>2. i - (n - m) \in 1..m /\ n - m + (i - (n - m)) = i
      BY <1>0, <1>2, <1>5, <3>1
    <3> QED
      BY <1>4, <1>7, <3>2
  <2> QED
    BY <1>0, <1>2, <1>5, <2>1
<1>8. \A i, j \in 1..(n + 1) : i < j /\ items'[i] = items'[j] => j - i > DedupeCap
  <2> SUFFICES ASSUME NEW i \in 1..(n + 1), NEW j \in 1..(n + 1), i < j,
                      items'[i] = items'[j]
               PROVE  j - i > DedupeCap
    OBVIOUS
  <2>1. CASE j \in 1..n
    BY <1>0, <1>2, <1>3, <1>6, <2>1
  <2>2. CASE j = n + 1
    BY <1>0, <1>2, <1>3, <1>7, <2>2
  <2> QED
    BY <1>0, <1>2, <2>1, <2>2
<1> QED
  BY <1>3, <1>8 DEF ReprocessedOnlyAfterEviction

\* ingest accepts a msg_id again only after DedupeCap other items, for every
\* capacity, however many sessions of the daemon receive the same frame and
\* however their recvLoops interleave.
THEOREM SeenUntilEvicted == Spec => []ReprocessedOnlyAfterEviction
<1>1. Init => DedupeInv
  BY RoomLinkAssumption DEF Init, DedupeInv, OrderIsRecentItems, ReprocessedOnlyAfterEviction
<1>2. Typed /\ DedupeInv /\ [Next]_vars => DedupeInv'
  <2> SUFFICES ASSUME Typed, DedupeInv, [Next]_vars PROVE DedupeInv'
    OBVIOUS
  <2>1. CASE UNCHANGED <<order, items>>
    BY <2>1 DEF DedupeInv, OrderIsRecentItems, ReprocessedOnlyAfterEviction
  <2>2. ASSUME NEW f \in Frame, f \notin Range(order),
               order' = Remember(f), items' = Append(items, f)
        PROVE  DedupeInv'
    BY <2>2, RememberIsRecent, FreshIsFar DEF DedupeInv
  <2> QED
    BY <2>1, <2>2, DedupeView
<1>3. DedupeInv => ReprocessedOnlyAfterEviction
  BY DEF DedupeInv
<1> QED
  BY <1>1, <1>2, <1>3, AlwaysTyped, PTL DEF Spec
=============================================================================
