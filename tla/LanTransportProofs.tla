------------------------- MODULE LanTransportProofs -------------------------
(***************************************************************************)
(* For any number of peers, rooms, envelopes, connections and runs: the    *)
(* type invariant of LanTransport, that each peer's table of connections   *)
(* is exactly the connections its handlers serve, that two rooms are       *)
(* joined only through a reused address, and that the transport implements *)
(* the contract of PeerTransport.                                          *)
(***************************************************************************)
EXTENDS LanTransport, TLAPS

\* The other end's peer is a peer.
LEMMA OtherIsPeer ==
    ASSUME TypeOK, NEW p \in Peer, NEW c \in Slot
    PROVE  Other(p, c) \in Peer
  BY DEF TypeOK, Other

LEMMA InitTypeOK == Init => TypeOK
<1> SUFFICES ASSUME Init PROVE TypeOK
  OBVIOUS
<1> DEFINE some == CHOOSE x \in Peer \X Peer : TRUE
<1>1. some \in Peer \X Peer
  <2>1. PICK p \in Peer : TRUE
    BY LanAssumption
  <2>2. <<p, p>> \in Peer \X Peer
    BY <2>1
  <2> QED
    BY <2>2, Zenon
<1> HIDE DEF some
<1>2. pair \in [Slot -> Peer \X Peer]
  BY <1>1 DEF Init, some
<1>3. /\ run \in [Peer -> 0 .. MaxRuns] /\ dialing \in [Peer -> [Peer -> 0 .. MaxRuns]]
      /\ port \in [Run -> Port \cup {0}]
      /\ started \in 0 .. MaxRuns /\ faults \in 0 .. MaxFaults
  BY LanAssumption DEF Init
<1>4. /\ table \in [Peer -> [Peer -> Slot \cup {NoSlot}]]
      /\ ends \in [Peer -> [Slot -> {"none", "new", "open"}]]
      /\ sending \in [Peer -> SUBSET (Msg \X Slot)]
      /\ streams \in [Peer -> [Slot -> SUBSET Msg]]
  BY DEF Init
<1>5. want \in [Slot -> Peer \X (0 .. MaxRuns)]
  <2>1. PICK x : x = CHOOSE y \in Peer : TRUE
    OBVIOUS
  <2>2. x \in Peer
    BY <2>1, LanAssumption, Zenon
  <2>3. want = [c \in Slot |-> <<x, 0>>] /\ 0 \in 0 .. MaxRuns
    BY <2>1, LanAssumption DEF Init
  <2> QED
    BY <2>2, <2>3
<1>6. room \in [Peer -> Room]
  <2>1. PICK r : r = CHOOSE y \in Room : TRUE
    OBVIOUS
  <2>2. r \in Room
    BY <2>1, LanAssumption, Zenon
  <2> QED
    BY <2>1, <2>2 DEF Init
<1> QED
  BY <1>2, <1>3, <1>4, <1>5, <1>6 DEF Init, TypeOK

\* CloseEnd keeps the types of what it changes.
LEMMA CloseEndType ==
    ASSUME TypeOK, NEW p \in Peer, NEW c \in Slot, CloseEnd(p, c)
    PROVE  /\ ends' \in [Peer -> [Slot -> {"none", "new", "open"}]]
           /\ streams' \in [Peer -> [Slot -> SUBSET Msg]]
           /\ dialing' \in [Peer -> [Peer -> 0 .. MaxRuns]]
<1> Other(p, c) \in Peer
  BY OtherIsPeer
<1> DEFINE o == Other(p, c)
<1> HIDE DEF o
<1>1. o \in Peer
  BY DEF o
<1>2. ends' \in [Peer -> [Slot -> {"none", "new", "open"}]]
  BY DEF TypeOK, CloseEnd
<1>3. streams' \in [Peer -> [Slot -> SUBSET Msg]]
  BY <1>1 DEF TypeOK, CloseEnd, o
<1>4. dialing' \in [Peer -> [Peer -> 0 .. MaxRuns]]
  <2>1. PICK w : w = want[c][1]
    OBVIOUS
  <2>2. w \in Peer /\ 0 \in 0 .. MaxRuns
    BY <2>1, LanAssumption DEF TypeOK
  <2>3. dialing' = [dialing EXCEPT ![p][w] = IF Dialed(p, c) THEN 0 ELSE @]
    BY <2>1 DEF CloseEnd
  <2> QED
    BY <2>2, <2>3 DEF TypeOK
<1> QED
  BY <1>2, <1>3, <1>4

LEMMA NextTypeOK == TypeOK /\ [Next]_vars => TypeOK'
<1> SUFFICES ASSUME TypeOK, [Next]_vars PROVE TypeOK'
  OBVIOUS
<1> USE LanAssumption
<1>1. ASSUME NEW p \in Peer, Close(p) PROVE TypeOK'
  BY <1>1 DEF TypeOK, Close
<1>2. ASSUME NEW p \in Peer, NEW r \in Room, NEW a \in Port, Start(p, r, a) PROVE TypeOK'
  <2>1. started + 1 \in Run /\ started + 1 \in 0 .. MaxRuns
    BY <1>2 DEF TypeOK, Start, Run
  <2>2. PICK n : n = started + 1
    OBVIOUS
  <2>3. run' \in [Peer -> 0 .. MaxRuns] /\ port' \in [Run -> Port \cup {0}]
        /\ started' \in 0 .. MaxRuns
    BY <1>2, <2>1, <2>2 DEF TypeOK, Start
  <2>4. ads' \subseteq Entry
    <3>1. [fp |-> p, room |-> r, run |-> n] \in Entry
      BY <2>1, <2>2 DEF Entry
    <3> QED
      BY <1>2, <2>2, <3>1 DEF TypeOK, Start
  <2>5. up' \subseteq Peer /\ room' \in [Peer -> Room]
    BY <1>2 DEF TypeOK, Start
  <2>6. UNCHANGED <<connVars, msgVars, faults>>
    BY <1>2 DEF Start
  <2> QED
    BY <2>3, <2>4, <2>5, <2>6 DEF TypeOK, connVars, msgVars
<1>3. ASSUME NEW p \in Peer, NEW e \in ads, HandleEntry(p, e) PROVE TypeOK'
  <2>1. e.fp \in Peer /\ e.run \in 0 .. MaxRuns
    BY <1>3 DEF TypeOK, Run, Entry
  <2>2. dialing' = [dialing EXCEPT ![p][e.fp] = e.run]
    BY <1>3 DEF HandleEntry
  <2>3. dialing' \in [Peer -> [Peer -> 0 .. MaxRuns]]
    BY <2>1, <2>2, SMTT(30) DEF TypeOK
  <2> QED
    BY <1>3, <2>3 DEF TypeOK, HandleEntry, netVars, msgVars
<1>4. ASSUME NEW p \in Peer, NEW q \in Peer, NEW x \in Peer, DialOk(p, q, x) PROVE TypeOK'
  <2> DEFINE c == CHOOSE d \in Slot : ~InUse(d)
  <2>1. c \in Slot
    BY <1>4 DEF DialOk
  <2> HIDE DEF c
  <2>2. pair' = [pair EXCEPT ![c] = <<p, x>>]
        /\ want' = [want EXCEPT ![c] = <<q, dialing[p][q]>>]
        /\ ends' = [ends EXCEPT ![p][c] = "new", ![x][c] = "new"]
    BY <1>4 DEF DialOk, c
  <2>3. pair' \in [Slot -> Peer \X Peer] /\ want' \in [Slot -> Peer \X (0 .. MaxRuns)]
    BY <2>1, <2>2 DEF TypeOK
  <2>4. ends' \in [Peer -> [Slot -> {"none", "new", "open"}]]
    BY <2>1, <2>2 DEF TypeOK
  <2> QED
    BY <1>4, <2>3, <2>4 DEF TypeOK, DialOk, netVars, msgVars
<1>5. ASSUME NEW p \in Peer, NEW q \in Peer, DialFail(p, q) PROVE TypeOK'
  BY <1>5 DEF TypeOK, DialFail, netVars, msgVars
<1>6. ASSUME NEW p \in Peer, NEW c \in Slot, HandleConn(p, c) PROVE TypeOK'
  <2> Other(p, c) \in Peer
    BY OtherIsPeer
  <2>1. CASE table[p][Other(p, c)] # NoSlot
    BY <1>6, <2>1, CloseEndType DEF TypeOK, HandleConn, netVars
  <2>2. CASE table[p][Other(p, c)] = NoSlot
    <3>1. table' = [table EXCEPT ![p][Other(p, c)] = c] /\ UNCHANGED <<dialing, streams>>
          /\ ends' = [ends EXCEPT ![p][c] = "open"]
      BY <1>6, <2>2 DEF HandleConn
    <3>2. table' \in [Peer -> [Peer -> Slot \cup {NoSlot}]]
      BY <3>1 DEF TypeOK
    <3>3. ends' \in [Peer -> [Slot -> {"none", "new", "open"}]]
      BY <3>1 DEF TypeOK
    <3> QED
      BY <1>6, <3>1, <3>2, <3>3 DEF TypeOK, HandleConn, netVars
  <2> QED
    BY <2>1, <2>2
<1>7. ASSUME NEW p \in Peer, NEW c \in Slot, Disconnect(p, c) PROVE TypeOK'
  <2> Other(p, c) \in Peer
    BY OtherIsPeer
  <2>1. faults' \in 0 .. MaxFaults
    BY <1>7 DEF TypeOK, Disconnect
  <2>2. table' \in [Peer -> [Peer -> Slot \cup {NoSlot}]]
    <3> DEFINE o == Other(p, c)
               v == IF table[p][o] = c THEN NoSlot ELSE table[p][o]
    <3>0. table \in [Peer -> [Peer -> Slot \cup {NoSlot}]] /\ o \in Peer
      BY DEF TypeOK
    <3>1. o \in Peer /\ v \in Slot \cup {NoSlot}
      <4>1. table[p][o] \in Slot \cup {NoSlot}
        BY <3>0
      <4> QED
        BY <3>0, <4>1
    <3>2. table' = [table EXCEPT ![p] = [table[p] EXCEPT ![o] = v]]
      BY <1>7, <3>1 DEF TypeOK, Disconnect
    <3> HIDE DEF o, v
    <3> QED
      BY <3>1, <3>2 DEF TypeOK
  <2>3. CloseEnd(p, c) /\ UNCHANGED <<netVars, pair, want, sending, got, sentBy>>
    BY <1>7 DEF Disconnect
  <2> QED
    BY <2>1, <2>2, <2>3, CloseEndType DEF TypeOK, netVars
<1>8. ASSUME NEW p \in Peer, NEW m \in Msg, Broadcast(p, m) PROVE TypeOK'
  <2>1. {<<m, table[p][q]>> : q \in Peers(p)} \subseteq Msg \X Slot
    BY DEF TypeOK, Peers
  <2> QED
    BY <1>8, <2>1 DEF TypeOK, Broadcast, netVars, connVars
<1>9. ASSUME NEW p \in Peer, NEW m \in Msg, NEW c \in Slot, WriteStream(p, m, c)
      PROVE TypeOK'
  <2>1. sending' \in [Peer -> SUBSET (Msg \X Slot)]
    BY <1>9 DEF TypeOK, WriteStream
  <2>2. streams' = streams \/ streams' = [streams EXCEPT ![p][c] = @ \cup {m}]
    BY <1>9 DEF WriteStream
  <2>3. streams' \in [Peer -> [Slot -> SUBSET Msg]]
    <3>1. streams \in [Peer -> [Slot -> SUBSET Msg]]
      BY DEF TypeOK
    <3>2. streams[p][c] \cup {m} \in SUBSET Msg
      BY <3>1
    <3> QED
      BY <2>2, <3>1, <3>2
  <2> QED
    BY <1>9, <2>1, <2>3 DEF TypeOK, WriteStream, netVars, connVars
<1>10. ASSUME NEW p \in Peer, NEW m \in Msg, NEW c \in Slot, ReadStream(p, m, c)
       PROVE TypeOK'
  <2> Other(p, c) \in Peer
    BY OtherIsPeer
  <2> QED
    BY <1>10, ZenonT(30) DEF TypeOK, ReadStream, netVars, connVars
<1>11. ASSUME NEW e \in ads, ForgetAd(e) PROVE TypeOK'
  BY <1>11 DEF TypeOK, ForgetAd, connVars, msgVars
<1>12. CASE UNCHANGED vars
  BY <1>12 DEF TypeOK, vars, netVars, connVars, msgVars
<1> QED
  BY <1>1, <1>2, <1>3, <1>4, <1>5, <1>6, <1>7, <1>8, <1>9, <1>10, <1>11, <1>12 DEF Next

\* Every reachable state of the transport is well typed.
THEOREM LanTypeCorrect == Spec => []TypeOK
<1> QED
  BY InitTypeOK, NextTypeOK, PTL DEF Spec
-----------------------------------------------------------------------------
\* A slot that is not in use has no end, so no entry of a table refers to it.
LEMMA UnusedSlot ==
    ASSUME NEW c \in Slot, ~InUse(c)
    PROVE  \A p \in Peer : ends[p][c] = "none"
  BY DEF InUse

\* Closing an end that no entry refers to, with no new end and no new entry.
LEMMA CloseUnlisted ==
    ASSUME TypeOK, TableIsServed, NEW p \in Peer, NEW c \in Slot,
           ends[p][c] # "open", CloseEnd(p, c), UNCHANGED <<table, pair>>
    PROVE  TableIsServed'
<1>1. \A x \in Peer, d \in Slot : Other(x, d)' = Other(x, d)
  BY DEF Other
<1>2. \A x \in Peer, d \in Slot : ends'[x][d] = "open" <=> ends[x][d] = "open"
  BY DEF TypeOK, CloseEnd
<1>3. \A x \in Peer : \A q \in Peers(x) : table[x][q] \in Slot
  BY DEF TypeOK, Peers
<1> QED
  BY <1>1, <1>2, <1>3 DEF TableIsServed, Peers

\* While no connection changes its pair, TableIsServed' is about table' and ends'.
LEMMA ServedNext ==
    ASSUME pair' = pair,
           \A x, y \in Peer : table'[x][y] # NoSlot =>
               ends'[x][table'[x][y]] = "open" /\ Other(x, table'[x][y]) = y,
           \A x \in Peer, d \in Slot : ends'[x][d] = "open" => table'[x][Other(x, d)] = d
    PROVE  TableIsServed'
  BY DEF TableIsServed, Peers, Other

\* TableIsServed in the same form.
LEMMA Served ==
    ASSUME TypeOK, TableIsServed
    PROVE  /\ \A x, y \in Peer : table[x][y] # NoSlot =>
                 table[x][y] \in Slot /\ ends[x][table[x][y]] = "open" /\ Other(x, table[x][y]) = y
           /\ \A x \in Peer, d \in Slot : ends[x][d] = "open" => table[x][Other(x, d)] = d
  BY DEF TableIsServed, Peers, TypeOK

LEMMA NextTable == TypeOK /\ TableIsServed /\ [Next]_vars => TableIsServed'
<1> SUFFICES ASSUME TypeOK, TableIsServed, [Next]_vars PROVE TableIsServed'
  OBVIOUS
<1> USE LanAssumption
<1>0. ASSUME UNCHANGED <<table, ends, pair>> PROVE TableIsServed'
  BY <1>0 DEF TableIsServed, Peers, Other
<1>1. ASSUME NEW p \in Peer, Close(p) PROVE TableIsServed'
  <2>1. \A x \in Peer \ {p} : table'[x] = table[x] /\ ends'[x] = ends[x]
    BY <1>1 DEF TypeOK, Close
  <2>2. /\ \A q \in Peer : table'[p][q] = NoSlot
        /\ \A c \in Slot : ends'[p][c] = "none"
    BY <1>1 DEF TypeOK, Close
  <2>3. \A x \in Peer, c \in Slot : Other(x, c)' = Other(x, c)
    BY <1>1 DEF Close, Other
  <2> QED
    BY <2>1, <2>2, <2>3, SMTT(40) DEF TableIsServed, Peers, TypeOK
<1>2. ASSUME NEW p \in Peer, NEW r \in Room, NEW a \in Port, Start(p, r, a) PROVE TableIsServed'
  BY <1>0, <1>2 DEF Start, connVars
<1>3. ASSUME NEW p \in Peer, NEW e \in ads, HandleEntry(p, e) PROVE TableIsServed'
  BY <1>0, <1>3 DEF HandleEntry
<1>4. ASSUME NEW p \in Peer, NEW u \in Peer, NEW q \in Peer, DialOk(p, u, q) PROVE TableIsServed'
  <2> DEFINE c == CHOOSE d \in Slot : ~InUse(d)
  <2>1. c \in Slot /\ ~InUse(c)
    BY <1>4 DEF DialOk
  <2>2. /\ pair' = [pair EXCEPT ![c] = <<p, q>>] /\ table' = table
        /\ ends' = [ends EXCEPT ![p][c] = "new", ![q][c] = "new"]
    BY <1>4 DEF DialOk
  <2> HIDE DEF c
  <2>3. \A x \in Peer : ends[x][c] = "none"
    BY <2>1, UnusedSlot
  <2>4. \A x \in Peer, d \in Slot : ends'[x][d] = "open" <=> ends[x][d] = "open"
    BY <2>1, <2>2, <2>3 DEF TypeOK
  <2>5. \A x \in Peer, d \in Slot \ {c} : Other(x, d)' = Other(x, d)
    BY <2>1, <2>2 DEF TypeOK, Other
  <2>7. \A x, y \in Peer : table[x][y] # NoSlot =>
            /\ table[x][y] \in Slot \ {c} /\ ends'[x][table[x][y]] = "open"
            /\ Other(x, table[x][y]) = y
    <3> SUFFICES ASSUME NEW x \in Peer, NEW y \in Peer, table[x][y] # NoSlot
                 PROVE  /\ table[x][y] \in Slot \ {c} /\ ends'[x][table[x][y]] = "open"
                        /\ Other(x, table[x][y]) = y
      OBVIOUS
    <3>1. table[x][y] \in Slot /\ ends[x][table[x][y]] = "open" /\ Other(x, table[x][y]) = y
      BY Served
    <3> QED
      BY <2>3, <2>4, <3>1
  <2>8. \A x \in Peer, d \in Slot : ends'[x][d] = "open" => table[x][Other(x, d)] = d /\ d # c
    BY <2>3, <2>4, Served
  <2>9. \A x, d : d \in Slot \ {c} /\ x \in Peer => Other(x, d)' = Other(x, d)
    BY <2>5
  <2>10. \A x, y \in Peer : table[x][y] # NoSlot =>
             pair'[table[x][y]] = pair[table[x][y]]
    BY <2>2, <2>7 DEF TypeOK
  <2>11. \A x \in Peer, d \in Slot : ends'[x][d] = "open" => table'[x][Other(x, d)'] = d
    BY <2>2, <2>8, <2>9
  <2>12. ASSUME NEW x \in Peer, NEW y \in Peer, table'[x][y] # NoSlot
         PROVE  ends'[x][table'[x][y]] = "open" /\ Other(x, table[x][y])' = y
    <3>1. table'[x][y] = table[x][y] /\ table[x][y] # NoSlot
      BY <2>2, <2>12
    <3>2. ends'[x][table[x][y]] = "open" /\ Other(x, table[x][y]) = y
      BY <2>7, <3>1
    <3>3. PICK d : d = table[x][y]
      OBVIOUS
    <3>4. pair'[d] = pair[d] /\ table'[x][y] = d /\ ends'[x][d] = "open"
      BY <2>10, <3>1, <3>2, <3>3
    <3>5. (IF pair[d][1] = x THEN pair[d][2] ELSE pair[d][1]) = y
      BY <3>2, <3>3 DEF Other
    <3>6. (IF pair'[d][1] = x THEN pair'[d][2] ELSE pair'[d][1]) = y
      BY <3>4, <3>5
    <3> QED
      BY <3>4, <3>6 DEF Other
  <2> QED
    BY <2>11, <2>12 DEF TableIsServed, Peers
<1>5. ASSUME NEW p \in Peer, NEW q \in Peer, DialFail(p, q) PROVE TableIsServed'
  BY <1>0, <1>5 DEF DialFail
<1>6. ASSUME NEW p \in Peer, NEW c \in Slot, HandleConn(p, c) PROVE TableIsServed'
  <2> DEFINE o == Other(p, c)
  <2>0. o \in Peer
    BY OtherIsPeer
  <2>1. CASE table[p][o] # NoSlot
    BY <1>6, <2>1, CloseUnlisted DEF HandleConn
  <2>2. CASE table[p][o] = NoSlot
    <3>1. /\ table' = [table EXCEPT ![p][o] = c] /\ ends' = [ends EXCEPT ![p][c] = "open"]
          /\ pair' = pair
      BY <1>6, <2>2 DEF HandleConn
    <3>3. \A x \in Peer \ {p} : table'[x] = table[x] /\ ends'[x] = ends[x]
      BY <3>1 DEF TypeOK
    <3>4. table'[p][o] = c /\ \A y \in Peer \ {o} : table'[p][y] = table[p][y]
      BY <2>0, <3>1 DEF TypeOK
    <3>5. ends'[p][c] = "open" /\ \A d \in Slot \ {c} : ends'[p][d] = ends[p][d]
      BY <3>1 DEF TypeOK
    <3>6. \A d \in Slot \ {c} : ends[p][d] = "open" => Other(p, d) # o
      BY <2>2, Served, LanAssumption DEF TypeOK
    <3>7. Other(p, c) = o
      OBVIOUS
    <3> HIDE DEF o
    <3>8. ASSUME NEW x \in Peer, NEW y \in Peer, table'[x][y] # NoSlot
          PROVE ends'[x][table'[x][y]] = "open" /\ Other(x, table'[x][y]) = y
      <4>1. CASE x = p /\ y = o
        BY <4>1, <3>4, <3>5, <3>7
      <4>2. CASE ~(x = p /\ y = o)
        <5>1. table'[x][y] = table[x][y]
          BY <4>2, <3>3, <3>4
        <5>2. /\ table[x][y] \in Slot /\ ends[x][table[x][y]] = "open"
              /\ Other(x, table[x][y]) = y
          BY <3>8, <5>1, Served
        <5>3. ends'[x][table[x][y]] = "open"
          BY <5>2, <3>3, <3>5
        <5> QED
          BY <5>1, <5>2, <5>3
      <4> QED
        BY <4>1, <4>2
    <3>9. ASSUME NEW x \in Peer, NEW d \in Slot, ends'[x][d] = "open"
          PROVE table'[x][Other(x, d)] = d
      <4>0. Other(x, d) \in Peer
        BY OtherIsPeer
      <4>1. CASE x = p /\ d = c
        BY <4>1, <3>4, <3>7
      <4>2. CASE x = p /\ d # c
        <5>1. ends[p][d] = "open" /\ Other(p, d) # o
          BY <4>2, <3>5, <3>6, <3>9
        <5>2. table[p][Other(p, d)] = d
          BY <5>1, Served
        <5> QED
          BY <4>0, <4>2, <5>1, <5>2, <3>4
      <4>3. CASE x # p
        BY <4>3, <3>3, <3>9, Served
      <4> QED
        BY <4>1, <4>2, <4>3
    <3> QED
      BY <3>1, <3>8, <3>9, ServedNext
  <2> QED
    BY <2>1, <2>2
<1>7. ASSUME NEW p \in Peer, NEW c \in Slot, Disconnect(p, c) PROVE TableIsServed'
  <2> DEFINE o == Other(p, c)
  <2>0. o \in Peer
    BY OtherIsPeer
  <2>1. ends[p][c] = "open" /\ table[p][o] = c
    BY <1>7 DEF Disconnect, TableIsServed
  <2>2. /\ table' = [table EXCEPT ![p] = [table[p] EXCEPT ![o] = NoSlot]] /\ pair' = pair
        /\ ends' = [ends EXCEPT ![p][c] = "none"]
    BY <1>7, <2>0, <2>1 DEF Disconnect, CloseEnd, TypeOK
  <2>3. Other(p, c) = o
    OBVIOUS
  <2> HIDE DEF o
  <2>4. \A x \in Peer \ {p} : table'[x] = table[x] /\ ends'[x] = ends[x]
    BY <2>2 DEF TypeOK
  <2>5. table'[p][o] = NoSlot /\ \A y \in Peer \ {o} : table'[p][y] = table[p][y]
    BY <2>0, <2>2 DEF TypeOK
  <2>6. ends'[p][c] = "none" /\ \A d \in Slot \ {c} : ends'[p][d] = ends[p][d]
    BY <2>2 DEF TypeOK
  <2>7. ASSUME NEW x \in Peer, NEW y \in Peer, table'[x][y] # NoSlot
        PROVE ends'[x][table'[x][y]] = "open" /\ Other(x, table'[x][y]) = y
    <3>1. table'[x][y] = table[x][y] /\ ~(x = p /\ y = o)
      BY <2>7, <2>4, <2>5
    <3>2. table[x][y] \in Slot /\ ends[x][table[x][y]] = "open" /\ Other(x, table[x][y]) = y
      BY <2>7, <3>1, Served
    <3>3. x = p => table[x][y] # c
      BY <2>3, <3>1, <3>2
    <3> QED
      BY <3>1, <3>2, <3>3, <2>4, <2>6
  <2>8. ASSUME NEW x \in Peer, NEW d \in Slot, ends'[x][d] = "open"
        PROVE table'[x][Other(x, d)] = d
    <3>1. ends[x][d] = "open" /\ ~(x = p /\ d = c)
      BY <2>8, <2>4, <2>6
    <3>2. table[x][Other(x, d)] = d /\ Other(x, d) \in Peer
      BY <3>1, Served, OtherIsPeer
    <3>3. x = p => Other(x, d) # o
      BY <2>1, <3>1, <3>2
    <3> QED
      BY <3>2, <3>3, <2>4, <2>5
  <2> QED
    BY <2>2, <2>7, <2>8, ServedNext
<1>8. ASSUME NEW p \in Peer, NEW m \in Msg, Broadcast(p, m) PROVE TableIsServed'
  BY <1>0, <1>8 DEF Broadcast, connVars
<1>9. ASSUME NEW p \in Peer, NEW m \in Msg, NEW c \in Slot, WriteStream(p, m, c)
      PROVE TableIsServed'
  BY <1>0, <1>9 DEF WriteStream, connVars
<1>10. ASSUME NEW p \in Peer, NEW m \in Msg, NEW c \in Slot, ReadStream(p, m, c)
       PROVE TableIsServed'
  BY <1>0, <1>10 DEF ReadStream, connVars
<1>11. ASSUME NEW e \in ads, ForgetAd(e) PROVE TableIsServed'
  BY <1>0, <1>11 DEF ForgetAd, connVars
<1>12. CASE UNCHANGED vars
  BY <1>0, <1>12 DEF vars, connVars
<1> QED
  BY <1>1, <1>2, <1>3, <1>4, <1>5, <1>6, <1>7, <1>8, <1>9, <1>10, <1>11, <1>12 DEF Next

\* A peer's table lists exactly the connections its handlers serve, one per
\* other peer, in every interleaving of dials, duplicates, disconnects and
\* restarts: handleConn and its deferred function never leave a stale entry,
\* nor an open connection that Broadcast does not see.
THEOREM TableMatchesHandlers == Spec => []TableIsServed
<1>1. Init => TableIsServed
  <2> SUFFICES ASSUME Init PROVE TableIsServed
    OBVIOUS
  <2>1. \A p, q \in Peer : table[p][q] = NoSlot
    BY DEF Init
  <2>2. \A p \in Peer, c \in Slot : ends[p][c] = "none"
    BY DEF Init
  <2> QED
    BY <2>1, <2>2 DEF TableIsServed, Peers
<1> QED
  BY <1>1, InitTypeOK, NextTypeOK, NextTable, PTL DEF Spec
-----------------------------------------------------------------------------
(* The transport implements PeerTransport, and joins rooms only by reuse   *)
(* of an address.  Three things carry the proofs: an end belongs to a peer *)
(* that runs; mDNS entries, dials and connections that name a present run  *)
(* have its room, however stale the others are; an envelope is on its way  *)
(* to a peer over at most one connection.                                  *)

EndsPlaced ==
    \A p \in Peer, c \in Slot : ends[p][c] # "none" =>
        p \in up /\ p \in {pair[c][1], pair[c][2]} /\ pair[c][1] # pair[c][2]

\* A dial names a run of the other peer, past or present; if it is the present
\* run, that run is in the dialer's room.
DialsRight ==
    \A p, q \in Peer : dialing[p][q] # 0 =>
        /\ p \in up /\ p # q /\ dialing[p][q] <= started
        /\ dialing[p][q] = run[q] => room[p] = room[q]

AdsRight ==
    \A e \in ads : /\ e.run <= started
                   /\ e.run = run[e.fp] => e.room = room[e.fp]

NetInv == EndsPlaced /\ RoomsMixOnlyByReuse /\ DialsRight /\ AdsRight

\* m is on its way from p over connection c.
OnWay(p, m, c) == <<m, c>> \in sending[p] \/ m \in streams[p][c]

WaysRight ==
    \A p \in Peer, m \in Msg, c \in Slot : OnWay(p, m, c) =>
        /\ sentBy[m] = {p}
        /\ p \in {pair[c][1], pair[c][2]} /\ pair[c][1] # pair[c][2]
        /\ \A d \in Slot : OnWay(p, m, d) /\ Other(p, d) = Other(p, c) => d = c

\* What is still to be written has not been written or handed over.
WriteOnce ==
    \A p \in Peer, m \in Msg, c \in Slot : <<m, c>> \in sending[p] =>
        m \notin streams[p][c] /\ m \notin got[Other(p, c)]

\* What was written waits at an end that is there to read it.
StreamsHaveReaders ==
    \A p \in Peer, m \in Msg, c \in Slot : m \in streams[p][c] =>
        ends[Other(p, c)][c] # "none"

GotWasSent == \A p \in Peer, m \in Msg : m \in got[p] => sentBy[m] # {}

WayInv == WaysRight /\ WriteOnce /\ StreamsHaveReaders /\ GotWasSent

\* The two ends of a connection: each is the other's other end.
LEMMA OtherBack ==
    ASSUME NEW p, NEW c, p \in {pair[c][1], pair[c][2]}, pair[c][1] # pair[c][2]
    PROVE  /\ Other(Other(p, c), c) = p /\ Other(p, c) # p
           /\ Other(p, c) \in {pair[c][1], pair[c][2]}
           /\ \A x : x \in {pair[c][1], pair[c][2]} /\ x # p => x = Other(p, c) /\ Other(x, c) = p
BY DEF Other

\* What CloseEnd changes, entry by entry.
LEMMA CloseEndPoints ==
    ASSUME TypeOK, NEW p \in Peer, NEW c \in Slot, CloseEnd(p, c)
    PROVE  /\ \A x \in Peer, d \in Slot :
                ends'[x][d] = IF x = p /\ d = c THEN "none" ELSE ends[x][d]
           /\ \A x \in Peer, d \in Slot :
                streams'[x][d] = IF x = Other(p, c) /\ d = c THEN {} ELSE streams[x][d]
           /\ \A x, y \in Peer : dialing'[x][y] \in {0, dialing[x][y]}
<1>1. Other(p, c) \in Peer /\ want[c][1] \in Peer BY OtherIsPeer DEF TypeOK
<1>2. PICK o \in Peer : o = Other(p, c) BY <1>1
<1>w. PICK w \in Peer : w = want[c][1] BY <1>1
<1>3. PICK v : v = IF Dialed(p, c) THEN 0 ELSE dialing[p][w] OBVIOUS
<1>4. /\ ends' = [ends EXCEPT ![p][c] = "none"]
      /\ streams' = [streams EXCEPT ![o][c] = {}]
      /\ dialing' = [dialing EXCEPT ![p][w] = v]
  BY <1>2, <1>3, <1>w DEF CloseEnd, TypeOK
<1>5. v \in {0, dialing[p][w]} BY <1>3
<1>6. \A x \in Peer, d \in Slot :
          ends'[x][d] = IF x = p /\ d = c THEN "none" ELSE ends[x][d]
  BY <1>4 DEF TypeOK
<1>7. \A x \in Peer, d \in Slot :
          streams'[x][d] = IF x = o /\ d = c THEN {} ELSE streams[x][d]
  BY <1>4 DEF TypeOK
<1>8. \A x, y \in Peer : dialing'[x][y] = IF x = p /\ y = w THEN v ELSE dialing[x][y]
  BY <1>4 DEF TypeOK
<1> QED BY <1>2, <1>5, <1>6, <1>7, <1>8

\* The step gives the free slot c to a connection of p and q, dialed for u.
TookSlot(p, u, q, c) ==
    /\ ~InUse(c) /\ pair'[c] = <<p, q>> /\ want'[c] = <<u, dialing[p][u]>>
    /\ \A d \in Slot : d # c => pair'[d] = pair[d] /\ want'[d] = want[d]
    /\ \A x \in Peer, d \in Slot :
         ends'[x][d] = IF d = c /\ x \in {p, q} THEN "new" ELSE ends[x][d]

\* What DialOk changes, entry by entry, on a slot that was free.
LEMMA DialOkPoints ==
    ASSUME TypeOK, NEW p \in Peer, NEW u \in Peer, NEW q \in Peer, DialOk(p, u, q)
    PROVE  \E c \in Slot : TookSlot(p, u, q, c)
<1> DEFINE c == CHOOSE d \in Slot : ~InUse(d)
<1>1. c \in Slot /\ ~InUse(c)
  BY DEF DialOk
<1>2. /\ pair' = [pair EXCEPT ![c] = <<p, q>>]
      /\ want' = [want EXCEPT ![c] = <<u, dialing[p][u]>>]
      /\ ends' = [ends EXCEPT ![p][c] = "new", ![q][c] = "new"]
  BY DEF DialOk
<1> HIDE DEF c
<1>3. /\ pair'[c] = <<p, q>> /\ want'[c] = <<u, dialing[p][u]>>
      /\ \A d \in Slot : d # c => pair'[d] = pair[d] /\ want'[d] = want[d]
  BY <1>1, <1>2 DEF TypeOK
<1>4. \A x \in Peer, d \in Slot :
          ends'[x][d] = IF d = c /\ x \in {p, q} THEN "new" ELSE ends[x][d]
  BY <1>1, <1>2 DEF TypeOK
<1> QED BY <1>1, <1>3, <1>4 DEF TookSlot

\* RoomsMixOnlyByReuse after a step, in terms of the new values.
LEMMA MixNext ==
    ASSUME \A c \in Slot :
               /\ ends'[pair'[c][1]][c] # "none" /\ ends'[pair'[c][2]][c] # "none"
               /\ want'[c] = <<pair'[c][2], run'[pair'[c][2]]>>
               => room'[pair'[c][1]] = room'[pair'[c][2]]
    PROVE  RoomsMixOnlyByReuse'
BY DEF RoomsMixOnlyByReuse, Joined, AsDialed

\* A step that opens no end, starts no dial and no run, and adds no entry.
LEMMA NetKept ==
    ASSUME TypeOK, TypeOK', NetInv, UNCHANGED <<room, started, run>>, ads' \subseteq ads,
           \A x \in Peer, d \in Slot : ends'[x][d] # "none" =>
               /\ ends[x][d] # "none" /\ x \in up'
               /\ pair'[d] = pair[d] /\ want'[d] = want[d],
           \A x, y \in Peer : dialing'[x][y] # 0 =>
               dialing'[x][y] = dialing[x][y] /\ x \in up'
    PROVE  NetInv'
<1>1. EndsPlaced' BY DEF NetInv, EndsPlaced
<1>2. RoomsMixOnlyByReuse'
  <2> SUFFICES ASSUME NEW c \in Slot,
                      ends'[pair'[c][1]][c] # "none", ends'[pair'[c][2]][c] # "none",
                      want'[c] = <<pair'[c][2], run'[pair'[c][2]]>>
               PROVE  room'[pair'[c][1]] = room'[pair'[c][2]]
    BY MixNext
  <2>1. pair'[c][1] \in Peer /\ pair'[c][2] \in Peer BY DEF TypeOK
  <2>2. pair'[c] = pair[c] /\ want'[c] = want[c] BY <2>1
  <2>3. ends[pair[c][1]][c] # "none" /\ ends[pair[c][2]][c] # "none" BY <2>1, <2>2
  <2> QED BY <2>2, <2>3 DEF NetInv, RoomsMixOnlyByReuse, Joined, AsDialed
<1>3. DialsRight' BY DEF NetInv, DialsRight
<1>4. AdsRight' BY DEF NetInv, AdsRight
<1> QED BY <1>1, <1>2, <1>3, <1>4 DEF NetInv

\* Ends stay with peers that run, and what names a present run has its room.
LEMMA NetStep == TypeOK /\ NetInv /\ [Next]_vars => NetInv'
<1> SUFFICES ASSUME TypeOK, NetInv, [Next]_vars PROVE NetInv'
  OBVIOUS
<1>t. TypeOK' BY NextTypeOK
<1>0. EndsPlaced /\ RoomsMixOnlyByReuse /\ DialsRight /\ AdsRight BY DEF NetInv
<1>k. /\ \A x \in Peer, d \in Slot : ends[x][d] # "none" => x \in up
      /\ \A x, y \in Peer : dialing[x][y] # 0 => x \in up
  BY <1>0 DEF EndsPlaced, DialsRight
<1>1. ASSUME NEW p \in Peer, Close(p) PROVE NetInv'
  <2>1. /\ UNCHANGED <<room, started, run, pair, want>> /\ ads' \subseteq ads /\ up' = up \ {p}
    BY <1>1 DEF Close
  <2>2. /\ \A x \in Peer, d \in Slot : ends'[x][d] # "none" => x # p /\ ends[x][d] # "none"
        /\ \A x, y \in Peer : dialing'[x][y] # 0 => x # p /\ dialing'[x][y] = dialing[x][y]
    BY <1>1 DEF Close, TypeOK
  <2>3. \A x \in Peer, d \in Slot : ends'[x][d] # "none" => x \in up'
    BY <1>k, <2>1, <2>2
  <2>4. \A x, y \in Peer : dialing'[x][y] # 0 => x \in up'
    BY <1>k, <2>1, <2>2
  <2> QED BY <1>t, <2>1, <2>2, <2>3, <2>4, NetKept
<1>2. ASSUME NEW p \in Peer, NEW r \in Room, NEW a \in Port, Start(p, r, a) PROVE NetInv'
  <2>1. /\ p \notin up /\ up' = up \cup {p}
        /\ UNCHANGED <<dialing, ends, pair, want>> /\ started' = started + 1
        /\ ads' = ads \cup {[fp |-> p, room |-> r, run |-> started + 1]}
    BY <1>2 DEF Start, connVars
  <2>2. /\ \A x \in Peer : x # p => room'[x] = room[x] /\ run'[x] = run[x]
        /\ room'[p] = r /\ run'[p] = started + 1 /\ started \in Nat
    BY <1>2, LanAssumption DEF Start, TypeOK
  <2>3. EndsPlaced' BY <1>0, <2>1 DEF EndsPlaced
  <2>4. RoomsMixOnlyByReuse'
    <3> SUFFICES ASSUME NEW c \in Slot,
                        ends'[pair'[c][1]][c] # "none", ends'[pair'[c][2]][c] # "none",
                        want'[c] = <<pair'[c][2], run'[pair'[c][2]]>>
                 PROVE  room'[pair'[c][1]] = room'[pair'[c][2]]
      BY MixNext
    <3>1. pair[c][1] \in Peer /\ pair[c][2] \in Peer BY DEF TypeOK
    <3>2. pair[c][1] # p /\ pair[c][2] # p BY <1>k, <2>1, <3>1
    <3>3. want[c] = <<pair[c][2], run[pair[c][2]]>> BY <2>1, <2>2, <3>1, <3>2
    <3>4. room[pair[c][1]] = room[pair[c][2]]
      BY <1>0, <2>1, <3>3 DEF RoomsMixOnlyByReuse, Joined, AsDialed
    <3> QED BY <2>1, <2>2, <3>1, <3>2, <3>4
  <2>5. DialsRight'
    <3> SUFFICES ASSUME NEW x \in Peer, NEW y \in Peer, dialing[x][y] # 0
                 PROVE  /\ x \in up' /\ x # y /\ dialing[x][y] <= started'
                        /\ dialing[x][y] = run'[y] => room'[x] = room'[y]
      BY <2>1 DEF DialsRight
    <3>1. /\ x \in up /\ x # y /\ dialing[x][y] <= started
          /\ dialing[x][y] = run[y] => room[x] = room[y]
      BY <1>0 DEF DialsRight
    <3>2. x # p /\ dialing[x][y] \in Nat
      BY <2>1, <3>1, LanAssumption DEF TypeOK
    <3>3. dialing[x][y] <= started' /\ dialing[x][y] # started + 1
      BY <2>1, <2>2, <3>1, <3>2
    <3>4. CASE y # p BY <2>1, <2>2, <3>1, <3>2, <3>3, <3>4
    <3>5. CASE y = p BY <2>1, <2>2, <3>1, <3>3, <3>5
    <3> QED BY <3>4, <3>5
  <2>6. AdsRight'
    <3> SUFFICES ASSUME NEW e \in ads' PROVE /\ e.run <= started'
                                             /\ e.run = run'[e.fp] => e.room = room'[e.fp]
      BY DEF AdsRight
    <3>1. CASE e = [fp |-> p, room |-> r, run |-> started + 1]
      BY <2>1, <2>2, <3>1
    <3>2. CASE e \in ads
      <4>1. e.fp \in Peer /\ e.run \in Nat BY <3>2, LanAssumption DEF TypeOK, Entry, Run
      <4>2. e.run <= started /\ (e.run = run[e.fp] => e.room = room[e.fp])
        BY <1>0, <3>2 DEF AdsRight
      <4>3. e.run <= started' /\ e.run # started + 1 BY <2>1, <2>2, <4>1, <4>2
      <4>4. CASE e.fp # p BY <2>2, <4>1, <4>2, <4>3, <4>4
      <4>5. CASE e.fp = p BY <2>2, <4>3, <4>5
      <4> QED BY <4>4, <4>5
    <3> QED BY <2>1, <3>1, <3>2
  <2> QED BY <2>3, <2>4, <2>5, <2>6 DEF NetInv
<1>3. ASSUME NEW p \in Peer, NEW e \in ads, HandleEntry(p, e) PROVE NetInv'
  <2>1. /\ UNCHANGED <<up, room, started, run, ads, ends, pair, want>>
        /\ p \in up /\ e.room = room[p] /\ p < e.fp
        /\ dialing' = [dialing EXCEPT ![p][e.fp] = e.run]
    BY <1>3 DEF HandleEntry, netVars
  <2>2. e.fp \in Peer BY DEF TypeOK, Entry
  <2>3. p # e.fp BY <2>1, <2>2, LanAssumption
  <2>4. \A x, y \in Peer : dialing'[x][y] = IF x = p /\ y = e.fp THEN e.run ELSE dialing[x][y]
    BY <2>1, <2>2 DEF TypeOK
  <2>5. e.run <= started /\ (e.run = run[e.fp] => e.room = room[e.fp])
    BY <1>0 DEF AdsRight
  <2>6. DialsRight'
    <3> SUFFICES ASSUME NEW x \in Peer, NEW y \in Peer, dialing'[x][y] # 0
                 PROVE  /\ x \in up /\ x # y /\ dialing'[x][y] <= started
                        /\ dialing'[x][y] = run[y] => room[x] = room[y]
      BY <2>1 DEF DialsRight
    <3>1. CASE x = p /\ y = e.fp BY <2>1, <2>3, <2>4, <2>5, <3>1
    <3>2. CASE ~(x = p /\ y = e.fp)
      <4>1. dialing'[x][y] = dialing[x][y] BY <2>4, <3>2
      <4> QED BY <1>0, <4>1 DEF DialsRight
    <3> QED BY <3>1, <3>2
  <2>7. EndsPlaced' /\ RoomsMixOnlyByReuse' /\ AdsRight'
    BY <1>0, <2>1 DEF EndsPlaced, RoomsMixOnlyByReuse, Joined, AsDialed, AdsRight
  <2> QED BY <2>6, <2>7 DEF NetInv
<1>4. ASSUME NEW p \in Peer, NEW u \in Peer, NEW q \in Peer, DialOk(p, u, q) PROVE NetInv'
  <2>0. PICK c \in Slot : TookSlot(p, u, q, c)
    BY <1>4, DialOkPoints
  <2>1. /\ ~InUse(c) /\ pair'[c] = <<p, q>> /\ want'[c] = <<u, dialing[p][u]>>
        /\ \A d \in Slot : d # c => pair'[d] = pair[d] /\ want'[d] = want[d]
        /\ \A x \in Peer, d \in Slot :
             ends'[x][d] = IF d = c /\ x \in {p, q} THEN "new" ELSE ends[x][d]
    BY <2>0 DEF TookSlot
  <2>2. /\ UNCHANGED <<up, room, started, run, ads, dialing>>
        /\ dialing[p][u] # 0 /\ q \in up /\ q # p
    BY <1>4 DEF DialOk, netVars, Listens
  <2>3. p \in up /\ (dialing[p][u] = run[u] => room[p] = room[u]) BY <1>0, <2>2 DEF DialsRight
  <2>4. \A x \in Peer : ends[x][c] = "none" BY <2>1, UnusedSlot
  <2>5. EndsPlaced'
    <3> SUFFICES ASSUME NEW x \in Peer, NEW d \in Slot, ends'[x][d] # "none"
                 PROVE  x \in up /\ x \in {pair'[d][1], pair'[d][2]} /\ pair'[d][1] # pair'[d][2]
      BY <2>2 DEF EndsPlaced
    <3>1. CASE d = c BY <2>1, <2>2, <2>3, <2>4, <3>1
    <3>2. CASE d # c
      <4>1. ends[x][d] # "none" /\ pair'[d] = pair[d] BY <2>1, <3>2
      <4> QED BY <1>0, <4>1 DEF EndsPlaced
    <3> QED BY <3>1, <3>2
  <2>6. RoomsMixOnlyByReuse'
    <3> SUFFICES ASSUME NEW d \in Slot,
                        ends'[pair'[d][1]][d] # "none", ends'[pair'[d][2]][d] # "none",
                        want'[d] = <<pair'[d][2], run'[pair'[d][2]]>>
                 PROVE  room'[pair'[d][1]] = room'[pair'[d][2]]
      BY MixNext
    <3>1. CASE d = c BY <2>1, <2>2, <2>3, <3>1
    <3>2. CASE d # c
      <4>1. pair'[d] = pair[d] /\ want'[d] = want[d] /\ pair[d][1] \in Peer /\ pair[d][2] \in Peer
        BY <2>1, <3>2 DEF TypeOK
      <4>2. ends[pair[d][1]][d] # "none" /\ ends[pair[d][2]][d] # "none"
        BY <2>1, <3>2, <4>1
      <4> QED BY <1>0, <2>2, <4>1, <4>2 DEF RoomsMixOnlyByReuse, Joined, AsDialed
    <3> QED BY <3>1, <3>2
  <2>7. DialsRight' /\ AdsRight' BY <1>0, <2>2 DEF DialsRight, AdsRight
  <2> QED BY <2>5, <2>6, <2>7 DEF NetInv
<1>5. ASSUME NEW p \in Peer, NEW q \in Peer, DialFail(p, q) PROVE NetInv'
  <2>1. UNCHANGED <<up, room, started, run, ads, ends, pair, want>> BY <1>5 DEF DialFail, netVars
  <2>2. \A x, y \in Peer : dialing'[x][y] # 0 => dialing'[x][y] = dialing[x][y]
    BY <1>5 DEF DialFail, TypeOK
  <2> QED BY <1>t, <1>k, <2>1, <2>2, NetKept
<1>6. ASSUME NEW p \in Peer, NEW c \in Slot, CloseEnd(p, c), UNCHANGED <<netVars, pair, want>>
      PROVE  NetInv'
  <2>1. UNCHANGED <<up, room, started, run, ads, pair, want>> BY <1>6 DEF netVars
  <2>2. /\ \A x \in Peer, d \in Slot : ends'[x][d] # "none" => ends[x][d] # "none"
        /\ \A x, y \in Peer : dialing'[x][y] # 0 => dialing'[x][y] = dialing[x][y]
    BY <1>6, CloseEndPoints
  <2> QED BY <1>t, <1>k, <2>1, <2>2, NetKept
<1>7. ASSUME NEW p \in Peer, NEW c \in Slot, HandleConn(p, c) PROVE NetInv'
  <2>1. CASE CloseEnd(p, c) BY <1>6, <1>7, <2>1 DEF HandleConn
  <2>2. CASE ends' = [ends EXCEPT ![p][c] = "open"] /\ dialing' = dialing
    <3>1. UNCHANGED <<up, room, started, run, ads, pair, want>> BY <1>7 DEF HandleConn, netVars
    <3>2. \A x \in Peer, d \in Slot : ends'[x][d] # "none" => ends[x][d] # "none"
      BY <1>7, <2>2 DEF HandleConn, TypeOK
    <3> QED BY <1>t, <1>k, <2>2, <3>1, <3>2, NetKept
  <2> QED BY <1>7, <2>1, <2>2 DEF HandleConn
<1>8. ASSUME NEW p \in Peer, NEW c \in Slot, Disconnect(p, c) PROVE NetInv'
  BY <1>6, <1>8 DEF Disconnect
<1>9. ASSUME UNCHANGED <<up, room, started, run, connVars>>, ads' \subseteq ads PROVE NetInv'
  <2>1. UNCHANGED <<ends, pair, want, dialing>> BY <1>9 DEF connVars
  <2> QED BY <1>t, <1>k, <1>9, <2>1, NetKept
<1>10. ASSUME NEW p \in Peer, NEW m \in Msg, Broadcast(p, m) PROVE NetInv'
  BY <1>9, <1>10 DEF Broadcast, netVars
<1>11. ASSUME NEW p \in Peer, NEW m \in Msg, NEW c \in Slot,
              WriteStream(p, m, c) \/ ReadStream(p, m, c)
       PROVE  NetInv'
  BY <1>9, <1>11 DEF WriteStream, ReadStream, netVars
<1>12. ASSUME NEW e \in ads, ForgetAd(e) PROVE NetInv'
  BY <1>9, <1>12 DEF ForgetAd
<1>13. CASE UNCHANGED vars BY <1>9, <1>13 DEF vars, netVars
<1> QED BY <1>1, <1>2, <1>3, <1>4, <1>5, <1>7, <1>8, <1>10, <1>11, <1>12, <1>13 DEF Next

\* A step that puts nothing new on its way and moves no connection that
\* something is on its way over.
LEMMA WaysKept ==
    ASSUME WaysRight, sentBy' = sentBy,
           \A x \in Peer, m \in Msg, d \in Slot :
               OnWay(x, m, d)' => OnWay(x, m, d) /\ pair'[d] = pair[d]
    PROVE  WaysRight'
<1> SUFFICES ASSUME NEW x \in Peer, NEW m \in Msg, NEW c \in Slot, OnWay(x, m, c)'
             PROVE  /\ sentBy'[m] = {x}
                    /\ x \in {pair'[c][1], pair'[c][2]} /\ pair'[c][1] # pair'[c][2]
                    /\ \A d \in Slot : OnWay(x, m, d)' /\ Other(x, d)' = Other(x, c)' => d = c
  BY DEF WaysRight
<1>1. OnWay(x, m, c) /\ pair'[c] = pair[c] OBVIOUS
<1>2. /\ sentBy[m] = {x}
      /\ x \in {pair[c][1], pair[c][2]} /\ pair[c][1] # pair[c][2]
      /\ \A d \in Slot : OnWay(x, m, d) /\ Other(x, d) = Other(x, c) => d = c
  BY <1>1 DEF WaysRight
<1>3. ASSUME NEW d \in Slot, OnWay(x, m, d)', Other(x, d)' = Other(x, c)' PROVE d = c
  <2>1. OnWay(x, m, d) /\ pair'[d] = pair[d] BY <1>3
  <2>2. Other(x, d) = Other(x, c) BY <1>1, <1>3, <2>1 DEF Other
  <2> QED BY <1>2, <2>1, <2>2
<1> QED BY <1>1, <1>2, <1>3

\* The other end of what is on its way, before and after such a step.
LEMMA OtherStays ==
    ASSUME NEW x, NEW d, pair'[d] = pair[d]
    PROVE  Other(x, d)' = Other(x, d)
BY DEF Other

\* An envelope is on its way to a peer over one connection at most.
LEMMA WayStep == TypeOK /\ TableIsServed /\ NetInv /\ WayInv /\ [Next]_vars => WayInv'
<1> SUFFICES ASSUME TypeOK, TableIsServed, NetInv, WayInv, [Next]_vars PROVE WayInv'
  OBVIOUS
<1>0. /\ EndsPlaced
      /\ WaysRight /\ WriteOnce /\ StreamsHaveReaders /\ GotWasSent
  BY DEF NetInv, WayInv
<1>p. ASSUME NEW x \in Peer, NEW m \in Msg, NEW c \in Slot, OnWay(x, m, c)
      PROVE  x \in {pair[c][1], pair[c][2]} /\ pair[c][1] # pair[c][2]
  BY <1>0, <1>p DEF WaysRight
<1>1. ASSUME NEW p \in Peer, Close(p) PROVE WayInv'
  <2>1. UNCHANGED <<pair, sentBy>> BY <1>1 DEF Close
  <2>2. \A x \in Peer : /\ sending'[x] \subseteq sending[x] /\ got'[x] \subseteq got[x]
                        /\ \A d \in Slot : /\ streams'[x][d] \subseteq streams[x][d]
                                           /\ ends[p][d] # "none" /\ x # p => streams'[x][d] = {}
                                           /\ x # p => ends'[x][d] = ends[x][d]
    BY <1>1 DEF Close, TypeOK
  <2>3. WaysRight' BY <1>0, <2>1, <2>2, WaysKept DEF OnWay
  <2>4. WriteOnce'
    <3>1. \A x \in Peer, d \in Slot : Other(x, d)' = Other(x, d) /\ Other(x, d) \in Peer
      BY <2>1, OtherIsPeer DEF Other
    <3> QED BY <1>0, <2>2, <3>1 DEF WriteOnce
  <2>5. StreamsHaveReaders'
    <3> SUFFICES ASSUME NEW x \in Peer, NEW m \in Msg, NEW c \in Slot, m \in streams'[x][c]
                 PROVE  ends'[Other(x, c)'][c] # "none"
      BY DEF StreamsHaveReaders
    <3>1. m \in streams[x][c] BY <2>2
    <3>2. ends[Other(x, c)][c] # "none" BY <1>0, <3>1 DEF StreamsHaveReaders
    <3>3. Other(x, c)' = Other(x, c) /\ Other(x, c) \in Peer BY <2>1, OtherIsPeer DEF Other
    <3>4. Other(x, c) # x
      <4>1. x \in {pair[c][1], pair[c][2]} /\ pair[c][1] # pair[c][2]
        BY <1>p, <3>1 DEF OnWay
      <4> QED BY <4>1, OtherBack
    <3>5. Other(x, c) # p BY <2>2, <3>2, <3>4
    <3> QED BY <2>2, <3>2, <3>3, <3>5
  <2>6. GotWasSent' BY <1>0, <2>1, <2>2 DEF GotWasSent
  <2> QED BY <2>3, <2>4, <2>5, <2>6 DEF WayInv
<1>2. ASSUME NEW p \in Peer, NEW u \in Peer, NEW q \in Peer, DialOk(p, u, q) PROVE WayInv'
  <2>0. PICK c \in Slot : TookSlot(p, u, q, c)
    BY <1>2, DialOkPoints
  <2>1. /\ ~InUse(c) /\ pair'[c] = <<p, q>> /\ want'[c] = <<u, dialing[p][u]>>
        /\ \A d \in Slot : d # c => pair'[d] = pair[d] /\ want'[d] = want[d]
        /\ \A x \in Peer, d \in Slot :
             ends'[x][d] = IF d = c /\ x \in {p, q} THEN "new" ELSE ends[x][d]
    BY <2>0 DEF TookSlot
  <2>2. UNCHANGED <<sending, streams, got, sentBy>> BY <1>2 DEF DialOk, msgVars
  <2>3. ASSUME NEW x \in Peer, NEW m \in Msg, NEW d \in Slot, OnWay(x, m, d) PROVE d # c
    <3> SUFFICES ASSUME d = c PROVE FALSE
      OBVIOUS
    <3>1. CASE <<m, d>> \in sending[x] BY <2>1, <3>1 DEF InUse
    <3>2. CASE m \in streams[x][d]
      <4>1. ends[Other(x, d)][d] # "none" /\ Other(x, d) \in Peer
        BY <1>0, <3>2, OtherIsPeer DEF StreamsHaveReaders
      <4> QED BY <2>1, <4>1, UnusedSlot
    <3> QED BY <2>3, <3>1, <3>2 DEF OnWay
  <2>4. \A x \in Peer, m \in Msg, d \in Slot :
           OnWay(x, m, d)' => OnWay(x, m, d) /\ pair'[d] = pair[d]
    BY <2>1, <2>2, <2>3 DEF OnWay
  <2>5. WaysRight' BY <1>0, <2>2, <2>4, WaysKept
  <2>6. \A x \in Peer, m \in Msg, d \in Slot : OnWay(x, m, d) => Other(x, d)' = Other(x, d)
    BY <2>1, <2>3, OtherStays
  <2>7. WriteOnce' BY <1>0, <2>2, <2>6 DEF WriteOnce, OnWay
  <2>8. StreamsHaveReaders'
    <3> SUFFICES ASSUME NEW x \in Peer, NEW m \in Msg, NEW d \in Slot, m \in streams[x][d]
                 PROVE  ends'[Other(x, d)'][d] # "none"
      BY <2>2 DEF StreamsHaveReaders
    <3>1. ends[Other(x, d)][d] # "none" /\ Other(x, d) \in Peer
      BY <1>0, OtherIsPeer DEF StreamsHaveReaders
    <3>2. Other(x, d)' = Other(x, d) BY <2>6 DEF OnWay
    <3> QED BY <2>1, <3>1, <3>2
  <2>9. GotWasSent' BY <1>0, <2>2 DEF GotWasSent
  <2> QED BY <2>5, <2>7, <2>8, <2>9 DEF WayInv
<1>3. ASSUME NEW p \in Peer, NEW c \in Slot, CloseEnd(p, c),
             UNCHANGED <<pair, sending, got, sentBy>>
      PROVE  WayInv'
  <2>1. /\ \A x \in Peer, d \in Slot :
             ends'[x][d] = IF x = p /\ d = c THEN "none" ELSE ends[x][d]
        /\ \A x \in Peer, d \in Slot :
             streams'[x][d] = IF x = Other(p, c) /\ d = c THEN {} ELSE streams[x][d]
    BY <1>3, CloseEndPoints
  <2>2. \A x \in Peer, d \in Slot : streams'[x][d] \subseteq streams[x][d] BY <2>1
  <2>3. WaysRight' BY <1>0, <1>3, <2>2, WaysKept DEF OnWay
  <2>4. \A x \in Peer, d \in Slot : Other(x, d)' = Other(x, d) /\ Other(x, d) \in Peer
    BY <1>3, OtherIsPeer DEF Other
  <2>5. WriteOnce' BY <1>0, <1>3, <2>2, <2>4 DEF WriteOnce
  <2>6. StreamsHaveReaders'
    <3> SUFFICES ASSUME NEW x \in Peer, NEW m \in Msg, NEW d \in Slot, m \in streams'[x][d]
                 PROVE  ends'[Other(x, d)][d] # "none"
      BY <2>4 DEF StreamsHaveReaders
    <3>1. m \in streams[x][d] BY <2>2
    <3>2. ends[Other(x, d)][d] # "none" BY <1>0, <3>1 DEF StreamsHaveReaders
    <3>3. ASSUME Other(x, d) = p, d = c PROVE FALSE
      <4>1. x \in {pair[d][1], pair[d][2]} /\ pair[d][1] # pair[d][2]
        BY <1>p, <3>1 DEF OnWay
      <4>2. Other(Other(x, d), d) = x BY <4>1, OtherBack
      <4>3. x = Other(p, c) BY <3>3, <4>2
      <4> QED BY <2>1, <3>3, <4>3
    <3> QED BY <2>1, <2>4, <3>2, <3>3
  <2>7. GotWasSent' BY <1>0, <1>3 DEF GotWasSent
  <2> QED BY <2>3, <2>5, <2>6, <2>7 DEF WayInv
<1>4. ASSUME NEW p \in Peer, NEW c \in Slot, HandleConn(p, c) PROVE WayInv'
  <2>1. CASE CloseEnd(p, c) BY <1>3, <1>4, <2>1 DEF HandleConn
  <2>2. CASE ends' = [ends EXCEPT ![p][c] = "open"] /\ UNCHANGED streams
    <3>1. UNCHANGED <<pair, sending, streams, got, sentBy>> BY <1>4, <2>2 DEF HandleConn
    <3>2. \A x \in Peer, d \in Slot : ends[x][d] # "none" => ends'[x][d] # "none"
      BY <2>2 DEF TypeOK
    <3>3. \A x \in Peer, d \in Slot : Other(x, d)' = Other(x, d) /\ Other(x, d) \in Peer
      BY <3>1, OtherIsPeer DEF Other
    <3>4. WaysRight' BY <1>0, <3>1, WaysKept DEF OnWay
    <3>5. WriteOnce' BY <1>0, <3>1, <3>3 DEF WriteOnce
    <3>6. StreamsHaveReaders' BY <1>0, <3>1, <3>2, <3>3 DEF StreamsHaveReaders
    <3>7. GotWasSent' BY <1>0, <3>1 DEF GotWasSent
    <3> QED BY <3>4, <3>5, <3>6, <3>7 DEF WayInv
  <2> QED BY <1>4, <2>1, <2>2 DEF HandleConn
<1>5. ASSUME NEW p \in Peer, NEW c \in Slot, Disconnect(p, c) PROVE WayInv'
  BY <1>3, <1>5 DEF Disconnect
<1>6. ASSUME NEW p \in Peer, NEW m \in Msg, Broadcast(p, m) PROVE WayInv'
  <2>1. /\ UNCHANGED <<ends, pair, streams, got>> /\ sentBy[m] = {}
        /\ \A k \in Msg : sentBy'[k] = IF k = m THEN {p} ELSE sentBy[k]
    BY <1>6 DEF Broadcast, connVars, TypeOK
  <2>2. \A x \in Peer, k \in Msg, d \in Slot :
           <<k, d>> \in sending'[x] <=> \/ <<k, d>> \in sending[x]
                                        \/ x = p /\ k = m /\ \E q \in Peers(p) : d = table[p][q]
    BY <1>6 DEF Broadcast, TypeOK
  <2>3. \A x \in Peer, d \in Slot : ~OnWay(x, m, d) BY <1>0, <2>1 DEF WaysRight
  <2>4. \A q \in Peers(p) : ends[p][table[p][q]] = "open" /\ Other(p, table[p][q]) = q
    BY DEF TableIsServed
  <2>5. \A x \in Peer, d \in Slot : Other(x, d)' = Other(x, d) /\ Other(x, d) \in Peer
    BY <2>1, OtherIsPeer DEF Other
  <2>6. WaysRight'
    <3> SUFFICES ASSUME NEW x \in Peer, NEW k \in Msg, NEW c \in Slot, OnWay(x, k, c)'
                 PROVE  /\ sentBy'[k] = {x}
                        /\ x \in {pair[c][1], pair[c][2]} /\ pair[c][1] # pair[c][2]
                        /\ \A d \in Slot : OnWay(x, k, d)' /\ Other(x, d) = Other(x, c) => d = c
      BY <2>1, <2>5 DEF WaysRight
    <3>1. CASE k # m
      <4>1. \A d \in Slot : OnWay(x, k, d)' <=> OnWay(x, k, d)
        BY <2>1, <2>2, <3>1 DEF OnWay
      <4> QED BY <1>0, <2>1, <3>1, <4>1 DEF WaysRight
    <3>2. CASE k = m
      <4>1. \A d \in Slot : OnWay(x, m, d)' => x = p /\ \E q \in Peers(p) : d = table[p][q]
        BY <2>1, <2>2, <2>3 DEF OnWay
      <4>2. x = p /\ ends[p][c] = "open"
        BY <2>4, <3>2, <4>1
      <4>3. x \in {pair[c][1], pair[c][2]} /\ pair[c][1] # pair[c][2]
        BY <1>0, <4>2 DEF EndsPlaced
      <4>4. \A d \in Slot : OnWay(x, k, d)' /\ Other(x, d) = Other(x, c) => d = c
        BY <2>4, <3>2, <4>1
      <4> QED BY <2>1, <3>2, <4>2, <4>3, <4>4
    <3> QED BY <3>1, <3>2
  <2>7. WriteOnce'
    <3> SUFFICES ASSUME NEW x \in Peer, NEW k \in Msg, NEW c \in Slot, <<k, c>> \in sending'[x]
                 PROVE  k \notin streams[x][c] /\ k \notin got[Other(x, c)]
      BY <2>1, <2>5 DEF WriteOnce
    <3>1. CASE <<k, c>> \in sending[x] BY <1>0, <3>1 DEF WriteOnce
    <3>2. CASE k = m
      BY <1>0, <2>1, <2>3, <2>5, <3>2 DEF OnWay, GotWasSent
    <3> QED BY <2>2, <3>1, <3>2
  <2>8. StreamsHaveReaders' BY <1>0, <2>1, <2>5 DEF StreamsHaveReaders
  <2>9. GotWasSent' BY <1>0, <2>1 DEF GotWasSent
  <2> QED BY <2>6, <2>7, <2>8, <2>9 DEF WayInv
<1>7. ASSUME NEW p \in Peer, NEW m \in Msg, NEW c \in Slot, WriteStream(p, m, c) PROVE WayInv'
  <2>1. /\ UNCHANGED <<ends, pair, got, sentBy>> /\ <<m, c>> \in sending[p]
        /\ \A x \in Peer, k \in Msg, d \in Slot :
             <<k, d>> \in sending'[x] <=> <<k, d>> \in sending[x] /\ ~(x = p /\ k = m /\ d = c)
    BY <1>7 DEF WriteStream, connVars, TypeOK
  <2>2. \A x \in Peer, k \in Msg, d \in Slot : k \in streams'[x][d] =>
           \/ k \in streams[x][d]
           \/ x = p /\ k = m /\ d = c /\ ends[Other(p, c)][c] # "none"
    <3>1. \/ streams' = streams
          \/ streams' = [streams EXCEPT ![p][c] = @ \cup {m}] /\ ends[Other(p, c)][c] # "none"
      BY <1>7 DEF WriteStream, Writable
    <3> QED BY <3>1 DEF TypeOK
  <2>3. WaysRight' BY <1>0, <2>1, <2>2, WaysKept DEF OnWay
  <2>4. \A x \in Peer, d \in Slot : Other(x, d)' = Other(x, d) /\ Other(x, d) \in Peer
    BY <2>1, OtherIsPeer DEF Other
  <2>5. WriteOnce' BY <1>0, <2>1, <2>2, <2>4 DEF WriteOnce
  <2>6. StreamsHaveReaders' BY <1>0, <2>1, <2>2, <2>4 DEF StreamsHaveReaders
  <2>7. GotWasSent' BY <1>0, <2>1 DEF GotWasSent
  <2> QED BY <2>3, <2>5, <2>6, <2>7 DEF WayInv
<1>8. ASSUME NEW p \in Peer, NEW m \in Msg, NEW c \in Slot, ReadStream(p, m, c) PROVE WayInv'
  <2>1. Other(p, c) \in Peer BY OtherIsPeer
  <2>2. PICK o \in Peer : o = Other(p, c) BY <2>1
  <2>3. /\ UNCHANGED <<ends, pair, sending, sentBy>>
        /\ ends[p][c] = "open" /\ m \in streams[o][c]
        /\ streams' = [streams EXCEPT ![o][c] = @ \ {m}]
        /\ got' = [got EXCEPT ![p] = @ \cup {m}]
    BY <1>8, <2>2 DEF ReadStream, connVars
  <2>4. /\ \A x \in Peer, d \in Slot : streams'[x][d] \subseteq streams[x][d]
        /\ \A x \in Peer, k \in Msg : k \in got'[x] <=> k \in got[x] \/ (x = p /\ k = m)
    BY <2>3 DEF TypeOK
  <2>5. WaysRight' BY <1>0, <2>3, <2>4, WaysKept DEF OnWay
  <2>6. \A x \in Peer, d \in Slot : Other(x, d)' = Other(x, d) /\ Other(x, d) \in Peer
    BY <2>3, OtherIsPeer DEF Other
  <2>7. OnWay(o, m, c) /\ sentBy[m] = {o} BY <1>0, <2>3 DEF OnWay, WaysRight
  <2>8. Other(o, c) = p
    <3>1. p \in {pair[c][1], pair[c][2]} /\ pair[c][1] # pair[c][2]
      BY <1>0, <2>3 DEF EndsPlaced
    <3> QED BY <2>2, <3>1, OtherBack
  <2>9. ASSUME NEW x \in Peer, NEW d \in Slot, <<m, d>> \in sending[x], Other(x, d) = p
        PROVE  FALSE
    <3>1. OnWay(x, m, d) /\ sentBy[m] = {x} BY <1>0, <2>9 DEF OnWay, WaysRight
    <3>2. x = o BY <2>7, <3>1
    <3>3. d = c BY <1>0, <2>7, <2>8, <2>9, <3>1, <3>2 DEF WaysRight
    <3> QED BY <1>0, <2>3, <2>9, <3>2, <3>3 DEF WriteOnce
  <2>10. WriteOnce' BY <1>0, <2>3, <2>4, <2>6, <2>9 DEF WriteOnce
  <2>11. StreamsHaveReaders' BY <1>0, <2>3, <2>4, <2>6 DEF StreamsHaveReaders
  <2>12. GotWasSent' BY <1>0, <2>3, <2>4, <2>7 DEF GotWasSent
  <2> QED BY <2>5, <2>10, <2>11, <2>12 DEF WayInv
<1>9. ASSUME UNCHANGED <<ends, pair, sending, streams, got, sentBy>> PROVE WayInv'
  <2>1. WaysRight' BY <1>0, <1>9, WaysKept DEF OnWay
  <2>2. WriteOnce' /\ StreamsHaveReaders' /\ GotWasSent'
    BY <1>0, <1>9 DEF WriteOnce, StreamsHaveReaders, GotWasSent, Other
  <2> QED BY <2>1, <2>2 DEF WayInv
<1>10. ASSUME NEW p \in Peer,
              \/ \E r \in Room, a \in Port : Start(p, r, a)
              \/ \E e \in ads : HandleEntry(p, e)
              \/ \E q \in Peer : DialFail(p, q)
       PROVE  WayInv'
  BY <1>9, <1>10 DEF Start, HandleEntry, DialFail, connVars, msgVars
<1>11. ASSUME NEW e \in ads, ForgetAd(e) PROVE WayInv'
  BY <1>9, <1>11 DEF ForgetAd, connVars, msgVars
<1>12. CASE UNCHANGED vars BY <1>9, <1>12 DEF vars, connVars, msgVars
<1> QED BY <1>1, <1>2, <1>4, <1>5, <1>6, <1>7, <1>8, <1>10, <1>11, <1>12 DEF Next

\* The inductive invariant of the transport.
LanInv == TypeOK /\ TableIsServed /\ NetInv /\ WayInv

\* The inductive invariant holds in every reachable state.
LEMMA LanInvariant == Spec => []LanInv
<1>1. ASSUME Init PROVE NetInv /\ WayInv
  <2>1. /\ \A p \in Peer, c \in Slot : ends[p][c] = "none" /\ streams[p][c] = {}
        /\ \A p, q \in Peer : dialing[p][q] = 0
        /\ \A p \in Peer : sending[p] = {} /\ got[p] = {}
        /\ ads = {}
    BY <1>1 DEF Init
  <2>2. \A c \in Slot : pair[c][1] \in Peer
    BY <1>1, InitTypeOK DEF TypeOK
  <2>3. EndsPlaced /\ DialsRight /\ AdsRight
    BY <2>1 DEF EndsPlaced, DialsRight, AdsRight
  <2>4. RoomsMixOnlyByReuse
    BY <2>1, <2>2 DEF RoomsMixOnlyByReuse, Joined
  <2>5. WayInv
    BY <2>1 DEF WayInv, WaysRight, OnWay, WriteOnce, StreamsHaveReaders, GotWasSent
  <2> QED BY <2>3, <2>4, <2>5 DEF NetInv
<1>2. TypeOK /\ TableIsServed /\ NetInv /\ WayInv /\ [Next]_vars => NetInv' /\ WayInv'
  BY NetStep, WayStep
<1> QED BY <1>1, <1>2, LanTypeCorrect, TableMatchesHandlers, PTL DEF Spec, LanInv

\* For any number of peers, rooms, addresses and runs, whatever entries are
\* stale and whoever changed its room: handleEntry's comparison of the room
\* suffices as long as the run that was advertised is the one that answers.
THEOREM RoomsJoinOnlyByReuse == Spec => []RoomsMixOnlyByReuse
<1> QED BY LanInvariant, PTL DEF LanInv, NetInv
-----------------------------------------------------------------------------
\* What is owed to a peer, now and after a step.
LEMMA OwedMembers ==
    ASSUME NEW x \in Peer, NEW m
    PROVE  /\ m \in Owed[x] <=> \E d \in Slot : ends[x][d] # "none" /\ m \in streams[Other(x, d)][d]
           /\ m \in Owed'[x] <=>
                \E d \in Slot : ends'[x][d] # "none" /\ m \in streams'[Other(x, d)'][d]
BY DEF Owed

\* Owed is told by its entries.
LEMMA OwedIs ==
    /\ Owed = [x \in Peer |-> Owed[x]]
    /\ Owed' = [x \in Peer |-> Owed'[x]]
BY DEF Owed

\* A step that leaves the ends, the pairs and the streams of every end alone.
LEMMA OwedStays ==
    ASSUME \A x \in Peer, d \in Slot :
               /\ ends[x][d] # "none" <=> ends'[x][d] # "none"
               /\ ends[x][d] # "none" => streams'[Other(x, d)'][d] = streams[Other(x, d)][d]
    PROVE  Owed' = Owed
<1>1. ASSUME NEW x \in Peer PROVE Owed'[x] = Owed[x]
  <2>1. ASSUME NEW m PROVE m \in Owed'[x] <=> m \in Owed[x]
    BY OwedMembers
  <2> QED BY <2>1
<1> QED BY <1>1, OwedIs, Zenon

\* A peer that closes an end loses what was owed to it there, and no other
\* peer loses anything.
LEMMA OwedClosed ==
    ASSUME LanInv, NEW p \in Peer, NEW c \in Slot, ends[p][c] # "none", CloseEnd(p, c),
           pair' = pair
    PROVE  \E L \in SUBSET Owed[p] : Owed' = [Owed EXCEPT ![p] = @ \ L]
<1>1. /\ \A x \in Peer, d \in Slot :
           ends'[x][d] = IF x = p /\ d = c THEN "none" ELSE ends[x][d]
      /\ \A x \in Peer, d \in Slot :
           streams'[x][d] = IF x = Other(p, c) /\ d = c THEN {} ELSE streams[x][d]
  BY CloseEndPoints DEF LanInv
<1>2. \A x \in Peer, d \in Slot : Other(x, d)' = Other(x, d) /\ Other(x, d) \in Peer
  BY OtherIsPeer DEF Other, LanInv
<1>3. ASSUME NEW x \in Peer, x # p PROVE Owed'[x] = Owed[x]
  <2>1. ASSUME NEW d \in Slot, ends[x][d] # "none"
        PROVE  streams'[Other(x, d)][d] = streams[Other(x, d)][d]
    <3>1. CASE d # c BY <1>1, <1>2, <3>1
    <3>2. CASE d = c
      <4>1. /\ {p, x} \subseteq {pair[c][1], pair[c][2]} /\ pair[c][1] # pair[c][2]
        BY <2>1, <3>2 DEF LanInv, NetInv, EndsPlaced
      <4>2. Other(x, c) = p /\ Other(p, c) # p BY <1>3, <4>1, OtherBack
      <4> QED BY <1>1, <3>2, <4>2
    <3> QED BY <3>1, <3>2
  <2>2. ASSUME NEW m PROVE m \in Owed'[x] <=> m \in Owed[x]
    BY <1>1, <1>2, <1>3, <2>1, OwedMembers, SMTT(30)
  <2> QED BY <2>2
<1>4. Owed'[p] \subseteq Owed[p]
  <2>1. ASSUME NEW m, m \in Owed'[p] PROVE m \in Owed[p]
    BY <1>1, <1>2, <2>1, OwedMembers
  <2> QED BY <2>1
<1>5. PICK L : L = Owed[p] \ Owed'[p] OBVIOUS
<1>6. L \in SUBSET Owed[p] /\ Owed'[p] = Owed[p] \ L BY <1>4, <1>5
<1>7. Owed' = [Owed EXCEPT ![p] = @ \ L]
  <2>1. PICK f : f = Owed' OBVIOUS
  <2>2. \A x \in Peer : f[x] = [Owed EXCEPT ![p] = Owed[p] \ L][x]
    BY <1>3, <1>6, <2>1, OwedIs
  <2> QED BY <2>1, <2>2, OwedIs
<1> QED BY <1>6, <1>7

\* A write owes its envelope to one other peer that has not had it.
LEMMA WriteOwes ==
    ASSUME LanInv, NEW p \in Peer, NEW m \in Msg, NEW c \in Slot, WriteStream(p, m, c)
    PROVE  \/ Owed' = Owed
           \/ \E q \in Peer : Contract!Owe(p, q, m)
<1> USE DEF LanInv
<1>1. /\ UNCHANGED <<up, ends, pair, got, sentBy>> /\ <<m, c>> \in sending[p]
  BY DEF WriteStream, connVars, netVars
<1>2. \A x \in Peer, d \in Slot : Other(x, d)' = Other(x, d) /\ Other(x, d) \in Peer
  BY <1>1, OtherIsPeer DEF Other
<1>3. CASE streams' = streams
  BY <1>1, <1>2, <1>3, OwedStays
<1>4. CASE /\ ends[p][c] = "open" /\ ends[Other(p, c)][c] # "none"
           /\ streams' = [streams EXCEPT ![p][c] = @ \cup {m}]
  <2>1. PICK q \in Peer : q = Other(p, c) BY <1>2
  <2>2. ends[p][c] # "none" /\ ends[q][c] # "none" BY <1>4, <2>1
  <2>3. /\ {p, q} \subseteq up
        /\ p \in {pair[c][1], pair[c][2]} /\ pair[c][1] # pair[c][2]
    BY <2>2 DEF NetInv, EndsPlaced
  <2>4. Other(q, c) = p /\ q # p BY <2>1, <2>3, OtherBack
  <2>5. OnWay(p, m, c) /\ sentBy[m] = {p} BY <1>1 DEF OnWay, WayInv, WaysRight
  <2>6. m \notin got[q] /\ m \notin streams[p][c] BY <1>1, <2>1 DEF WayInv, WriteOnce
  <2>7. m \notin Owed[q]
    <3> SUFFICES ASSUME m \in Owed[q] PROVE FALSE
      OBVIOUS
    <3>1. PICK d \in Slot : ends[q][d] # "none" /\ m \in streams[Other(q, d)][d]
      BY OwedMembers
    <3>2. Other(q, d) \in Peer BY <1>2
    <3>3. OnWay(Other(q, d), m, d) BY <3>1 DEF OnWay
    <3>4. sentBy[m] = {Other(q, d)} BY <3>2, <3>3 DEF WayInv, WaysRight
    <3>5. Other(q, d) = p BY <2>5, <3>4
    <3>6. q \in {pair[d][1], pair[d][2]} /\ pair[d][1] # pair[d][2]
      BY <3>1 DEF NetInv, EndsPlaced
    <3>7. Other(p, d) = q BY <3>5, <3>6, OtherBack
    <3>8. d = c BY <2>1, <2>5, <3>3, <3>5, <3>7 DEF WayInv, WaysRight
    <3> QED BY <2>6, <3>1, <3>5, <3>8
  <2>8. \A x \in Peer, d \in Slot :
           streams'[x][d] = IF x = p /\ d = c THEN streams[x][d] \cup {m} ELSE streams[x][d]
    BY <1>4 DEF TypeOK
  <2>9. ASSUME NEW x \in Peer, x # q PROVE Owed'[x] = Owed[x]
    <3>1. ASSUME NEW d \in Slot, ends[x][d] # "none"
          PROVE  ~(Other(x, d) = p /\ d = c)
      <4> SUFFICES ASSUME Other(x, d) = p, d = c PROVE FALSE
        OBVIOUS
      <4>1. x \in {pair[c][1], pair[c][2]} BY <3>1 DEF NetInv, EndsPlaced
      <4>2. Other(Other(x, c), c) = x BY <2>3, <4>1, OtherBack
      <4> QED BY <2>1, <2>9, <4>2
    <3>2. \A d \in Slot : ends[x][d] # "none" =>
             streams'[Other(x, d)'][d] = streams[Other(x, d)][d]
      BY <1>2, <2>8, <3>1, ZenonT(30)
    <3>3. ASSUME NEW k PROVE k \in Owed'[x] <=> k \in Owed[x]
      BY <1>1, <3>2, OwedMembers
    <3> QED BY <3>3
  <2>10. Owed'[q] = Owed[q] \cup {m}
    <3>1. \A d \in Slot : streams[Other(q, d)][d] \subseteq streams'[Other(q, d)'][d]
      BY <1>2, <2>8
    <3>2. \A d \in Slot : streams'[Other(q, d)'][d] \subseteq streams[Other(q, d)][d] \cup {m}
      BY <1>2, <2>8
    <3>3. m \in streams'[Other(q, c)'][c] BY <1>2, <2>4, <2>8
    <3>4. ASSUME NEW k, k \in Owed'[q] PROVE k \in Owed[q] \/ k = m
      BY <1>1, <3>2, <3>4, OwedMembers
    <3>5. ASSUME NEW k, k \in Owed[q] PROVE k \in Owed'[q]
      BY <1>1, <3>1, <3>5, OwedMembers
    <3>6. m \in Owed'[q] BY <1>1, <2>2, <3>3, OwedMembers
    <3> QED BY <3>4, <3>5, <3>6
  <2>11. Owed' = [Owed EXCEPT ![q] = @ \cup {m}]
    <3>1. PICK f : f = Owed' OBVIOUS
    <3>2. \A x \in Peer : f[x] = [Owed EXCEPT ![q] = Owed[q] \cup {m}][x]
      BY <2>9, <2>10, <3>1, OwedIs
    <3> QED BY <3>1, <3>2, OwedIs
  <2>12. Contract!Owe(p, q, m)
    BY <1>1, <2>3, <2>4, <2>5, <2>6, <2>7, <2>11 DEF Contract!Owe
  <2> QED BY <2>12
<1> QED BY <1>3, <1>4 DEF WriteStream, Writable

\* A read hands over an envelope that is owed, and settles it.
LEMMA ReadDelivers ==
    ASSUME LanInv, NEW p \in Peer, NEW m \in Msg, NEW c \in Slot, ReadStream(p, m, c)
    PROVE  Contract!Deliver(p, m)
<1> USE DEF LanInv
<1>1. \A x \in Peer, d \in Slot : Other(x, d) \in Peer BY OtherIsPeer
<1>2. PICK o \in Peer : o = Other(p, c) BY <1>1
<1>3. /\ UNCHANGED <<up, ends, pair, sentBy>> /\ ends[p][c] = "open" /\ m \in streams[o][c]
      /\ streams' = [streams EXCEPT ![o][c] = @ \ {m}]
      /\ got' = [got EXCEPT ![p] = @ \cup {m}]
  BY <1>2 DEF ReadStream, connVars, netVars
<1>4. \A x \in Peer, d \in Slot : Other(x, d)' = Other(x, d) BY <1>3 DEF Other
<1>5. p \in {pair[c][1], pair[c][2]} /\ pair[c][1] # pair[c][2]
  BY <1>3 DEF NetInv, EndsPlaced
<1>6. Other(o, c) = p BY <1>2, <1>5, OtherBack
<1>7. OnWay(o, m, c) /\ sentBy[m] = {o} BY <1>3 DEF OnWay, WayInv, WaysRight
<1>8. \A x \in Peer, d \in Slot :
         streams'[x][d] = IF x = o /\ d = c THEN streams[x][d] \ {m} ELSE streams[x][d]
  BY <1>3 DEF TypeOK
<1>9. m \in Owed[p] BY <1>2, <1>3, OwedMembers
<1>10. ASSUME NEW x \in Peer, x # p PROVE Owed'[x] = Owed[x]
  <2>1. ASSUME NEW d \in Slot, ends[x][d] # "none" PROVE ~(Other(x, d) = o /\ d = c)
    <3> SUFFICES ASSUME Other(x, d) = o, d = c PROVE FALSE
      OBVIOUS
    <3>1. x \in {pair[c][1], pair[c][2]} BY <2>1 DEF NetInv, EndsPlaced
    <3>2. Other(Other(x, c), c) = x BY <1>5, <3>1, OtherBack
    <3> QED BY <1>6, <1>10, <3>2
  <2>2. \A d \in Slot : ends[x][d] # "none" =>
           streams'[Other(x, d)'][d] = streams[Other(x, d)][d]
    BY <1>1, <1>4, <1>8, <2>1, ZenonT(30)
  <2>3. ASSUME NEW k PROVE k \in Owed'[x] <=> k \in Owed[x]
    BY <1>3, <2>2, OwedMembers
  <2> QED BY <2>3
<1>11. ASSUME NEW d \in Slot, ends[p][d] # "none", m \in streams[Other(p, d)][d] PROVE d = c
  <2>1. OnWay(Other(p, d), m, d) /\ Other(p, d) \in Peer BY <1>1, <1>11 DEF OnWay
  <2>2. sentBy[m] = {Other(p, d)} BY <2>1 DEF WayInv, WaysRight
  <2>3. Other(p, d) = o BY <1>7, <2>2
  <2>4. p \in {pair[d][1], pair[d][2]} /\ pair[d][1] # pair[d][2]
    BY <1>11 DEF NetInv, EndsPlaced
  <2>5. Other(o, d) = p BY <2>3, <2>4, OtherBack
  <2> QED BY <1>6, <1>7, <2>1, <2>3, <2>5 DEF WayInv, WaysRight
<1>12. Owed'[p] = Owed[p] \ {m}
  <2>1. ASSUME NEW k, k \in Owed'[p] PROVE k \in Owed[p] /\ k # m
    <3>1. PICK d \in Slot : ends'[p][d] # "none" /\ k \in streams'[Other(p, d)'][d]
      BY <2>1, OwedMembers
    <3>2. ends[p][d] # "none" /\ k \in streams'[Other(p, d)][d] /\ Other(p, d) \in Peer
      BY <1>1, <1>3, <1>4, <3>1
    <3>3. k \in streams[Other(p, d)][d] BY <1>8, <3>2
    <3>4. k # m BY <1>2, <1>8, <1>11, <3>2, <3>3
    <3> QED BY <3>2, <3>3, <3>4, OwedMembers
  <2>2. ASSUME NEW k, k \in Owed[p], k # m PROVE k \in Owed'[p]
    <3>1. PICK d \in Slot : ends[p][d] # "none" /\ k \in streams[Other(p, d)][d]
      BY <2>2, OwedMembers
    <3>2. Other(p, d) \in Peer BY <1>1
    <3>3. ends'[p][d] # "none" /\ k \in streams'[Other(p, d)'][d]
      BY <1>3, <1>4, <1>8, <2>2, <3>1, <3>2
    <3> QED BY <3>3, OwedMembers
  <2> QED BY <2>1, <2>2
<1>13. Owed' = [Owed EXCEPT ![p] = @ \ {m}]
  <2>1. PICK f : f = Owed' OBVIOUS
  <2>2. \A x \in Peer : f[x] = [Owed EXCEPT ![p] = Owed[p] \ {m}][x]
    BY <1>10, <1>12, <2>1, OwedIs
  <2> QED BY <2>1, <2>2, OwedIs
<1> QED BY <1>3, <1>9, <1>13 DEF Contract!Deliver

\* Closing settles what was owed to that run, and takes nothing from others.
LEMMA CloseStops ==
    ASSUME LanInv, NEW p \in Peer, Close(p)
    PROVE  Contract!Stop(p)
<1> USE DEF LanInv
<1>1. /\ UNCHANGED <<pair, sentBy>> /\ p \in up /\ up' = up \ {p}
      /\ got' = [got EXCEPT ![p] = {}]
  BY DEF Close
<1>2. \A x \in Peer, d \in Slot :
         /\ ends'[x][d] = IF x = p THEN "none" ELSE ends[x][d]
         /\ streams'[x][d] = IF ends[p][d] # "none" /\ x # p THEN {} ELSE streams[x][d]
  BY DEF Close, TypeOK
<1>3. \A x \in Peer, d \in Slot : Other(x, d)' = Other(x, d) /\ Other(x, d) \in Peer
  BY <1>1, OtherIsPeer DEF Other
<1>4. Owed'[p] = {}
  <2>1. ASSUME NEW m PROVE m \notin Owed'[p]
    BY <1>2, OwedMembers
  <2> QED BY <2>1
<1>5. ASSUME NEW x \in Peer, x # p PROVE Owed'[x] = Owed[x]
  <2>1. ASSUME NEW d \in Slot, ends[x][d] # "none", ends[p][d] # "none" PROVE Other(x, d) = p
    <3>1. {p, x} \subseteq {pair[d][1], pair[d][2]} /\ pair[d][1] # pair[d][2]
      BY <2>1 DEF NetInv, EndsPlaced
    <3> QED BY <1>5, <3>1, OtherBack
  <2>2. ASSUME NEW k PROVE k \in Owed'[x] <=> k \in Owed[x]
    BY <1>2, <1>3, <1>5, <2>1, OwedMembers
  <2> QED BY <2>2
<1>6. Owed' = [Owed EXCEPT ![p] = {}]
  <2>1. PICK f : f = Owed' OBVIOUS
  <2>2. \A x \in Peer : f[x] = [Owed EXCEPT ![p] = {}][x]
    BY <1>4, <1>5, <2>1, OwedIs
  <2> QED BY <2>1, <2>2, OwedIs
<1> QED BY <1>1, <1>6 DEF Contract!Stop

\* Every step of the transport is a step of the contract, or changes nothing of it.
LEMMA TransportStep ==
    ASSUME LanInv, [Next]_vars
    PROVE  [Contract!Next]_(Contract!vars)
<1>0. TypeOK /\ NetInv /\ WayInv BY DEF LanInv
<1>1. ASSUME NEW p \in Peer, Close(p) PROVE Contract!Next
  BY <1>1, CloseStops DEF Contract!Next
<1>2. ASSUME NEW p \in Peer, NEW r \in Room, NEW a \in Port, Start(p, r, a)
      PROVE  Contract!Next
  <2>1. Owed' = Owed BY <1>2, OwedStays DEF Start, connVars, msgVars, Other
  <2>2. Contract!Start(p) BY <1>2, <2>1 DEF Start, Contract!Start, msgVars
  <2> QED BY <2>2 DEF Contract!Next
<1>3. ASSUME NEW p \in Peer, NEW u \in Peer, NEW q \in Peer, DialOk(p, u, q)
      PROVE  UNCHANGED Contract!vars
  <2>0. PICK c \in Slot : TookSlot(p, u, q, c)
    BY <1>0, <1>3, DialOkPoints
  <2>1. /\ ~InUse(c) /\ pair'[c] = <<p, q>> /\ want'[c] = <<u, dialing[p][u]>>
        /\ \A d \in Slot : d # c => pair'[d] = pair[d] /\ want'[d] = want[d]
        /\ \A x \in Peer, d \in Slot :
             ends'[x][d] = IF d = c /\ x \in {p, q} THEN "new" ELSE ends[x][d]
    BY <2>0 DEF TookSlot
  <2>2. UNCHANGED <<up, streams, got, sentBy>> BY <1>3 DEF DialOk, msgVars, netVars
  <2>3. \A x \in Peer : ends[x][c] = "none" BY <2>1, UnusedSlot
  <2>4. \A x \in Peer : streams[x][c] = {}
    <3> SUFFICES ASSUME NEW x \in Peer, NEW m \in streams[x][c] PROVE FALSE
      OBVIOUS
    <3>1. m \in Msg /\ Other(x, c) \in Peer BY <1>0, OtherIsPeer DEF TypeOK
    <3>2. ends[Other(x, c)][c] # "none" BY <1>0, <3>1 DEF WayInv, StreamsHaveReaders
    <3> QED BY <2>3, <3>1, <3>2
  <2>5. ASSUME NEW x \in Peer PROVE Owed'[x] = Owed[x]
    <3>1. \A d \in Slot : d # c => Other(x, d)' = Other(x, d) BY <2>1, OtherStays
    <3>2. Other(x, c)' \in Peer BY <2>1 DEF Other
    <3>3. ASSUME NEW k PROVE k \in Owed'[x] <=> k \in Owed[x]
      BY <2>1, <2>2, <2>3, <2>4, <3>1, <3>2, OwedMembers
    <3> QED BY <3>3
  <2>6. Owed' = Owed BY <2>5, OwedIs, Zenon
  <2> QED BY <2>2, <2>6 DEF Contract!vars
<1>4. ASSUME NEW p \in Peer, NEW c \in Slot, ends[p][c] # "none", CloseEnd(p, c),
             UNCHANGED <<netVars, pair, got, sentBy>>
      PROVE  Contract!Next
  <2>1. Contract!Lose(p) BY <1>4, OwedClosed DEF Contract!Lose, netVars
  <2> QED BY <2>1 DEF Contract!Next
<1>5. ASSUME NEW p \in Peer, NEW c \in Slot, HandleConn(p, c)
      PROVE  Contract!Next \/ UNCHANGED Contract!vars
  <2>1. CASE CloseEnd(p, c) BY <1>4, <1>5, <2>1 DEF HandleConn
  <2>2. CASE ends' = [ends EXCEPT ![p][c] = "open"] /\ UNCHANGED streams
    <3>1. UNCHANGED <<up, pair, streams, got, sentBy>>
      BY <1>5, <2>2 DEF HandleConn, netVars
    <3>2. \A x \in Peer, d \in Slot : ends[x][d] # "none" <=> ends'[x][d] # "none"
      BY <1>0, <1>5, <2>2 DEF HandleConn, TypeOK
    <3>3. Owed' = Owed BY <3>1, <3>2, OwedStays DEF Other
    <3> QED BY <3>1, <3>3 DEF Contract!vars
  <2> QED BY <1>5, <2>1, <2>2 DEF HandleConn
<1>6. ASSUME NEW p \in Peer, NEW c \in Slot, Disconnect(p, c) PROVE Contract!Next
  BY <1>4, <1>6 DEF Disconnect
<1>7. ASSUME NEW p \in Peer, NEW m \in Msg, Broadcast(p, m) PROVE Contract!Next
  <2>1. Owed' = Owed BY <1>7, OwedStays DEF Broadcast, connVars, Other
  <2>2. Contract!Broadcast(p, m) BY <1>7, <2>1 DEF Broadcast, Contract!Broadcast, netVars
  <2> QED BY <2>2 DEF Contract!Next
<1>8. ASSUME NEW p \in Peer, NEW m \in Msg, NEW c \in Slot, WriteStream(p, m, c)
      PROVE  Contract!Next \/ UNCHANGED Contract!vars
  <2>1. UNCHANGED <<up, got, sentBy>> BY <1>8 DEF WriteStream, netVars
  <2>2. CASE Owed' = Owed BY <2>1, <2>2 DEF Contract!vars
  <2>3. CASE \E q \in Peer : Contract!Owe(p, q, m) BY <2>3 DEF Contract!Next
  <2> QED BY <1>8, <2>2, <2>3, WriteOwes
<1>9. ASSUME NEW p \in Peer, NEW m \in Msg, NEW c \in Slot, ReadStream(p, m, c)
      PROVE  Contract!Next
  BY <1>9, ReadDelivers DEF Contract!Next
<1>10. ASSUME UNCHANGED <<up, connVars, msgVars>>
              \/ UNCHANGED <<up, table, ends, pair, msgVars>>
       PROVE  UNCHANGED Contract!vars
  <2>1. UNCHANGED <<up, ends, pair, streams, got, sentBy>>
    BY <1>10 DEF connVars, msgVars
  <2>2. Owed' = Owed BY <2>1, OwedStays DEF Other
  <2> QED BY <2>1, <2>2 DEF Contract!vars
<1>11. ASSUME NEW p \in Peer,
              (\E e \in ads : HandleEntry(p, e)) \/ (\E q \in Peer : DialFail(p, q))
       PROVE  UNCHANGED Contract!vars
  BY <1>10, <1>11 DEF HandleEntry, DialFail, netVars
<1>12. ASSUME NEW e \in ads, ForgetAd(e) PROVE UNCHANGED Contract!vars
  BY <1>10, <1>12 DEF ForgetAd
<1>13. CASE UNCHANGED vars BY <1>10, <1>13 DEF vars, netVars
<1> QED BY <1>1, <1>2, <1>3, <1>5, <1>6, <1>7, <1>8, <1>9, <1>11, <1>12, <1>13 DEF Next

\* For any number of peers, rooms, envelopes, connections, runs and faults, the
\* transport keeps its contract: whatever stale mDNS entries, reused addresses,
\* duplicate connections, restarts and failed writes interleave, a run of a
\* peer is handed an envelope at most once, and only one that another running
\* peer broadcast.
THEOREM TransportKeepsContract == Spec => ImplementsContract
<1>1. Init => Contract!Init
  <2> SUFFICES ASSUME Init PROVE Contract!Init
    OBVIOUS
  <2>1. \A x \in Peer : Owed[x] = {} BY DEF Init, Owed
  <2>2. Owed = [x \in Peer |-> {}] BY <2>1, OwedIs
  <2> QED BY <2>2 DEF Init, Contract!Init
<1>2. LanInv /\ [Next]_vars => [Contract!Next]_(Contract!vars)
  BY TransportStep
<1> QED BY <1>1, <1>2, LanInvariant, PTL DEF Spec, ImplementsContract, Contract!Spec
=============================================================================
