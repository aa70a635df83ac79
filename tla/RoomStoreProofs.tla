-------------------------- MODULE RoomStoreProofs --------------------------
(***************************************************************************)
(* Theorems about the store for any items, names, text files, workers,     *)
(* buffer capacity and number of sessions: types, that a session never     *)
(* changes what was there before it, that buffered items have their blobs, *)
(* and that a clear --all takes back what the session wrote.               *)
(***************************************************************************)
EXTENDS RoomStore, TLAPS

USE DEF vars, ingestVars, sessVars, clearVars, cfgVars, diskVars, baseVars, clearHist
-----------------------------------------------------------------------------
(* Sequences after Append, Tail and SubSeq.                                *)

\* Appending keeps what was there.
LEMMA AppendKeeps ==
    ASSUME NEW S, NEW q \in Seq(S), NEW e \in S
    PROVE  /\ Append(q, e) \in Seq(S)
           /\ Len(Append(q, e)) = Len(q) + 1
           /\ \A i \in 1 .. Len(q) : Append(q, e)[i] = q[i]
OBVIOUS

\* Cutting a sequence at n keeps its first n elements.
LEMMA CutKeeps ==
    ASSUME NEW S, NEW q \in Seq(S), NEW n \in Nat, n <= Len(q)
    PROVE  /\ SubSeq(q, 1, n) \in Seq(S)
           /\ Len(SubSeq(q, 1, n)) = n
           /\ \A i \in 1 .. n : SubSeq(q, 1, n)[i] = q[i]
OBVIOUS

\* The ring buffer takes an item and stays within its capacity.
LEMMA RingKeeps ==
    ASSUME NEW q \in Seq(Msg), Len(q) <= BufferCap, NEW m \in Msg
    PROVE  LET r == Append(IF Len(q) = BufferCap THEN Tail(q) ELSE q, m)
           IN  r \in Seq(Msg) /\ Len(r) <= BufferCap
<1>1. CASE Len(q) = BufferCap
  <2>1. q # <<>> /\ Tail(q) \in Seq(Msg) /\ Len(Tail(q)) = Len(q) - 1
    BY <1>1, RoomStoreAssumption
  <2> QED BY <1>1, <2>1, RoomStoreAssumption
<1>2. CASE Len(q) # BufferCap
  BY <1>2, RoomStoreAssumption
<1> QED BY <1>1, <1>2
-----------------------------------------------------------------------------
\* What a worker holds at each step of ingest.
WorkOK ==
    \A w \in Worker :
        /\ pc[w] # "idle" => job[w] \in Msg
        /\ pc[w] \in {"anchor", "append"} => job[w] \in TextMsg /\ path[w] \in TextFile
        /\ pc[w] \in {"write", "record"} => job[w] \in FileMsg /\ path[w] \in Path

\* The initial state is typed.
LEMMA InitTypes == Init => TypeOK /\ WorkOK
<1> SUFFICES ASSUME Init PROVE TypeOK /\ WorkOK
  OBVIOUS
<1>1. <<Old>> \in Seq(TextMsg \cup {Old}) /\ <<>> \in Seq(TextMsg \cup {Old})
  OBVIOUS
<1>2. text \in [TextFile -> Seq(TextMsg \cup {Old})]
  BY <1>1 DEF Init
<1>3. disk \in [Path -> Content]
  BY DEF Init, Content
<1>4. fileSize(FirstText) \in Nat
  BY <1>2, RoomStoreAssumption DEF fileSize
<1>5. /\ pc \in [Worker -> {"idle", "buffer", "route", "anchor", "append",
                            "write", "record"}]
      /\ job \in [Worker -> Msg \cup {NoMsg}]
      /\ path \in [Worker -> SinkPath \cup Path]
  BY DEF Init, SinkPath
<1>6. buffer \in Seq(Msg) /\ Len(buffer) <= BufferCap
  BY RoomStoreAssumption DEF Init
<1>7. FirstText \in SinkPath /\ NoPath \in SinkPath
  BY RoomStoreAssumption DEF SinkPath
<1>8. configs \in 0 .. MaxConfig /\ restarts \in 0 .. MaxRestart
  BY RoomStoreAssumption DEF Init
<1>9. TypeOK
  BY <1>2, <1>3, <1>4, <1>5, <1>6, <1>7, <1>8 DEF Init, TypeOK
<1>10. WorkOK
  BY DEF Init, WorkOK
<1> QED BY <1>9, <1>10

\* The size of a text file is a number.
LEMMA FileSizeNat == TypeOK => \A t \in SinkPath : fileSize(t) \in Nat
BY DEF TypeOK, fileSize, SinkPath

\* Every step keeps the types.
LEMMA NextTypes == TypeOK /\ WorkOK /\ [Next]_vars => TypeOK' /\ WorkOK'
<1> SUFFICES ASSUME TypeOK, WorkOK, [Next]_vars PROVE TypeOK' /\ WorkOK'
  OBVIOUS
<1> USE RoomStoreAssumption
<1>1. ASSUME NEW w \in Worker, NEW m \in Msg, Accept(w, m) PROVE TypeOK' /\ WorkOK'
  <2>1. blobs' \subseteq FileMsg BY <1>1 DEF Accept, TypeOK
  <2>2. overlapped' \subseteq Msg BY <1>1 DEF Accept, TypeOK
  <2>3. /\ pc' \in [Worker -> {"idle", "buffer", "route", "anchor", "append",
                               "write", "record"}]
        /\ job' \in [Worker -> Msg \cup {NoMsg}]
    <3>1. CASE pc' = [pc EXCEPT ![w] = "buffer"] /\ job' = [job EXCEPT ![w] = m]
      BY <3>1 DEF TypeOK
    <3>2. CASE pc' = pc /\ job' = job
      BY <3>2 DEF TypeOK
    <3> QED BY <1>1, <3>1, <3>2 DEF Accept
  <2>4. arrived' \subseteq Msg BY <1>1 DEF Accept, TypeOK
  <2>5. TypeOK' BY <1>1, <2>1, <2>2, <2>3, <2>4 DEF Accept, TypeOK
  <2>6. WorkOK' BY <1>1 DEF Accept, TypeOK, WorkOK
  <2> QED BY <2>5, <2>6
<1>2. ASSUME NEW w \in Worker, Buffer(w) PROVE TypeOK' /\ WorkOK'
  <2>1. job[w] \in Msg BY <1>2 DEF Buffer, WorkOK
  <2>2. buffer' \in Seq(Msg) /\ Len(buffer') <= BufferCap
    BY <1>2, <2>1, RingKeeps DEF Buffer, TypeOK
  <2>3. TypeOK' BY <1>2, <2>2 DEF Buffer, TypeOK
  <2>4. WorkOK' BY <1>2 DEF Buffer, TypeOK, WorkOK
  <2> QED BY <2>3, <2>4
<1>3. ASSUME NEW w \in Worker, RouteSinks(w) PROVE TypeOK' /\ WorkOK'
  <2>1. CASE job[w] \in TextMsg /\ cfgText # NoPath
    <3>1. cfgText \in TextFile BY <2>1 DEF TypeOK, SinkPath
    <3>2. job[w] \notin FileMsg BY <2>1
    <3>5. path' \in [Worker -> SinkPath \cup Path]
      BY <1>3, <2>1, <3>2 DEF RouteSinks, TypeOK
    <3>6. pc' = [pc EXCEPT ![w] = "anchor"] /\ job' = job
      BY <1>3, <2>1, <3>2 DEF RouteSinks
    <3>3. TypeOK' BY <1>3, <3>5, <3>6 DEF RouteSinks, TypeOK
    <3>4. WorkOK' BY <1>3, <2>1, <3>1, <3>2 DEF RouteSinks, TypeOK, WorkOK
    <3> QED BY <3>3, <3>4
  <2>2. CASE job[w] \in TextMsg /\ cfgText = NoPath
    <3>1. job[w] \notin FileMsg BY <2>2
    <3>2. TypeOK' BY <1>3, <2>2, <3>1, ZenonT(30) DEF RouteSinks, Finish, TypeOK, SinkPath
    <3>3. WorkOK' BY <1>3, <2>2, <3>1, ZenonT(30) DEF RouteSinks, Finish, TypeOK, WorkOK
    <3> QED BY <3>2, <3>3
  <2>3. CASE job[w] \in FileMsg
    <3>1. job[w] \notin TextMsg BY <2>3
    <3>2. PICK k \in 1 .. MaxCopy : path' = [path EXCEPT ![w] = <<Name[job[w]], k>>]
      BY <1>3, <2>3, <3>1 DEF RouteSinks
    <3>3. <<Name[job[w]], k>> \in Path BY <2>3 DEF Path
    <3>4. pc' = [pc EXCEPT ![w] = "write"] /\ job' = job
      BY <1>3, <2>3, <3>1 DEF RouteSinks
    <3>5. TypeOK' BY <1>3, <3>2, <3>3, <3>4 DEF RouteSinks, TypeOK
    <3>7. pc'[w] = "write" /\ job'[w] \in FileMsg /\ path'[w] \in Path
      BY <2>3, <3>2, <3>3, <3>4 DEF TypeOK
    <3>8. \A v \in Worker : v # w => pc'[v] = pc[v] /\ job'[v] = job[v] /\ path'[v] = path[v]
      BY <3>2, <3>4 DEF TypeOK
    <3>6. WorkOK' BY <3>7, <3>8 DEF WorkOK, Msg
    <3> QED BY <3>5, <3>6
  <2>4. job[w] \in Msg BY <1>3 DEF RouteSinks, WorkOK
  <2> QED BY <2>1, <2>2, <2>3, <2>4 DEF Msg
<1>4. ASSUME NEW w \in Worker, Anchor(w) PROVE TypeOK' /\ WorkOK'
  <2>1. path[w] \in SinkPath BY <1>4 DEF Anchor, WorkOK, SinkPath
  <2>2. sessPath' \in SinkPath /\ sessOff' \in Nat
    BY <1>4, <2>1, FileSizeNat DEF Anchor, SetTextFile, TypeOK
  <2>3. TypeOK' BY <1>4, <2>2 DEF Anchor, TypeOK
  <2>4. WorkOK' BY <1>4 DEF Anchor, TypeOK, WorkOK
  <2> QED BY <2>3, <2>4
<1>5. ASSUME NEW w \in Worker, AppendText(w) PROVE TypeOK' /\ WorkOK'
  <2>1. job[w] \in TextMsg /\ path[w] \in TextFile BY <1>5 DEF AppendText, WorkOK
  <2>2. Append(text[path[w]], job[w]) \in Seq(TextMsg \cup {Old})
    BY <2>1, AppendKeeps DEF TypeOK
  <2>3. text' \in [TextFile -> Seq(TextMsg \cup {Old})]
    BY <1>5, <2>2 DEF AppendText, TypeOK
  <2>4. TypeOK' BY <1>5, <2>3, ZenonT(30) DEF AppendText, Finish, TypeOK, SinkPath
  <2>5. WorkOK' BY <1>5 DEF AppendText, Finish, TypeOK, WorkOK
  <2> QED BY <2>4, <2>5
<1>6. ASSUME NEW w \in Worker, WriteFile(w) PROVE TypeOK' /\ WorkOK'
  <2>1. job[w] \in Msg /\ path[w] \in Path BY <1>6 DEF WriteFile, WorkOK, Msg
  <2>2. disk' \in [Path -> Content] BY <1>6, <2>1 DEF WriteFile, TypeOK, Content
  <2>5. /\ pc' \in [Worker -> {"idle", "buffer", "route", "anchor", "append",
                               "write", "record"}]
        /\ job' \in [Worker -> Msg \cup {NoMsg}]
        /\ path' \in [Worker -> SinkPath \cup Path]
    BY <1>6 DEF WriteFile, Finish, TypeOK, SinkPath
  <2>3. TypeOK' BY <1>6, <2>2, <2>5 DEF WriteFile, TypeOK
  <2>4. WorkOK' BY <1>6 DEF WriteFile, Finish, TypeOK, WorkOK
  <2> QED BY <2>3, <2>4
<1>7. ASSUME NEW w \in Worker, RecordSaved(w) PROVE TypeOK' /\ WorkOK'
  <2>1. path[w] \in Path BY <1>7 DEF RecordSaved, WorkOK
  <2>2. TypeOK' BY <1>7, <2>1, SMTT(30) DEF RecordSaved, Finish, TypeOK, SinkPath
  <2>3. WorkOK' BY <1>7 DEF RecordSaved, Finish, TypeOK, WorkOK
  <2> QED BY <2>2, <2>3
<1>8. ASSUME NEW sc \in {"transient", "all"}, ClearBuffer(sc) PROVE TypeOK' /\ WorkOK'
  <2>1. overlapped' \subseteq Msg BY <1>8 DEF ClearBuffer, WorkOK
  <2>2. TypeOK' BY <1>8, <2>1 DEF ClearBuffer, TypeOK
  <2>3. WorkOK' BY <1>8 DEF ClearBuffer, WorkOK
  <2> QED BY <2>2, <2>3
<1>9. CASE ListBlobs BY <1>9 DEF ListBlobs, TypeOK, WorkOK
<1>10. CASE RemoveBlobs BY <1>10 DEF RemoveBlobs, TypeOK, WorkOK
<1>11. CASE TakeSinks BY <1>11 DEF TakeSinks, TypeOK, WorkOK
<1>12. CASE Truncate
  <2>1. text' \in [TextFile -> Seq(TextMsg \cup {Old})]
    <3>1. CASE cPath # NoPath /\ fileSize(cPath) > cOff
      <4>1. cPath \in TextFile BY <3>1 DEF TypeOK, SinkPath
      <4>2. Len(text[cPath]) > cOff BY <3>1 DEF fileSize
      <4>3. SubSeq(text[cPath], 1, cOff) \in Seq(TextMsg \cup {Old})
        BY <4>1, <4>2, CutKeeps DEF TypeOK
      <4> QED BY <1>12, <4>1, <4>3 DEF Truncate, TypeOK
    <3>2. CASE ~(cPath # NoPath /\ fileSize(cPath) > cOff)
      BY <1>12, <3>2 DEF Truncate, TypeOK
    <3> QED BY <3>1, <3>2
  <2>2. ioError' \in BOOLEAN BY <1>12 DEF Truncate, TypeOK
  <2>3. TypeOK' BY <1>12, <2>1, <2>2 DEF Truncate, TypeOK
  <2>4. WorkOK' BY <1>12 DEF Truncate, WorkOK
  <2> QED BY <2>3, <2>4
<1>13. ASSUME NEW p \in Path, RemoveFile(p) PROVE TypeOK' /\ WorkOK'
  <2>1. disk' \in [Path -> Content] BY <1>13 DEF RemoveFile, TypeOK, Content
  <2>2. ioError' \in BOOLEAN BY <1>13 DEF RemoveFile, TypeOK
  <2>3. TypeOK' BY <1>13, <2>1, <2>2 DEF RemoveFile, TypeOK
  <2>4. WorkOK' BY <1>13 DEF RemoveFile, WorkOK
  <2> QED BY <2>3, <2>4
<1>14. CASE ClearDone BY <1>14 DEF ClearDone, TypeOK, WorkOK, SinkPath
<1>15. ASSUME NEW t \in SinkPath, ConfigSet(t) PROVE TypeOK' /\ WorkOK'
  BY <1>15 DEF ConfigSet, TypeOK, WorkOK
<1>16. CASE ConfigAnchor
  <2>1. setting \in SinkPath BY <1>16 DEF ConfigAnchor, TypeOK
  <2>2. sessPath' \in SinkPath /\ sessOff' \in Nat
    BY <1>16, <2>1, FileSizeNat DEF ConfigAnchor, SetTextFile, TypeOK
  <2> QED BY <1>16, <2>2 DEF ConfigAnchor, TypeOK, WorkOK
<1>17. CASE Restart
  <2>1. fileSize(cfgDisk) \in Nat BY FileSizeNat DEF TypeOK
  <2>4. /\ pc' \in [Worker -> {"idle", "buffer", "route", "anchor", "append",
                               "write", "record"}]
        /\ job' \in [Worker -> Msg \cup {NoMsg}]
        /\ path' \in [Worker -> SinkPath \cup Path]
    BY <1>17 DEF Restart, SinkPath
  <2>5. buffer' \in Seq(Msg) /\ Len(buffer') <= BufferCap
    BY <1>17 DEF Restart
  <2>6. configs' \in 0 .. MaxConfig /\ restarts' \in 0 .. MaxRestart
    BY <1>17 DEF Restart, TypeOK
  <2>7. NoPath \in SinkPath BY DEF SinkPath
  <2>2. TypeOK' BY <1>17, <2>1, <2>4, <2>5, <2>6, <2>7 DEF Restart, TypeOK
  <2>3. WorkOK' BY <1>17 DEF Restart, WorkOK
  <2> QED BY <2>2, <2>3
<1>18. CASE UNCHANGED vars BY <1>18 DEF TypeOK, WorkOK
<1> QED BY <1>1, <1>2, <1>3, <1>4, <1>5, <1>6, <1>7, <1>8, <1>9, <1>10, <1>11, <1>12,
           <1>13, <1>14, <1>15, <1>16, <1>17, <1>18 DEF Next

\* Types, for any constants: above all, the buffer never exceeds its capacity
\* and the session record names only paths of the sinks.
THEOREM StoreTypeCorrect == Spec => []TypeOK
<1>1. TypeOK /\ WorkOK /\ [Next]_vars => TypeOK' /\ WorkOK'
  BY NextTypes
<1> QED BY InitTypes, <1>1, PTL DEF Spec
-----------------------------------------------------------------------------
(* PreSessionPreserved needs to know that every offset a truncation may    *)
(* use lies beyond the old text, and that no path the session may write    *)
(* or remove was there before it.                                          *)

\* The paths of save_dir that existed when the session began.
OldPath == {p \in Path : baseDisk[p] # NoFile}

OffsetsSpareOld ==
    /\ sessPath \in TextFile => Len(baseText[sessPath]) <= sessOff
    /\ cPath \in TextFile => Len(baseText[cPath]) <= cOff

PathsSpareOld ==
    /\ saved \cap OldPath = {} /\ cSaved \cap OldPath = {}
    /\ \A w \in Worker : pc[w] \in {"write", "record"} => path[w] \notin OldPath

TextKept ==
    \A t \in TextFile :
        /\ Len(text[t]) >= Len(baseText[t])
        /\ \A i \in 1 .. Len(baseText[t]) : text[t][i] = baseText[t][i]

FilesKept == \A p \in OldPath : disk[p] = baseDisk[p]

StoreInv ==
    /\ TypeOK /\ WorkOK
    /\ OffsetsSpareOld /\ PathsSpareOld
    /\ TextKept /\ FilesKept

\* Anchoring at the current size of a file is beyond its old text.
LEMMA AnchorSpares ==
    ASSUME TypeOK, OffsetsSpareOld, TextKept, NEW t \in SinkPath, SetTextFile(t),
           baseText' = baseText
    PROVE  sessPath' \in TextFile => Len(baseText'[sessPath']) <= sessOff'
BY RoomStoreAssumption DEF TypeOK, OffsetsSpareOld, TextKept, SetTextFile, fileSize, SinkPath

\* Only Restart changes what the session began with.
LEMMA BaseStays == [Next]_vars /\ ~Restart => baseText' = baseText /\ baseDisk' = baseDisk
BY DEF Next, Accept, Buffer, RouteSinks, Anchor, AppendText, WriteFile, RecordSaved,
       ClearBuffer, ListBlobs, RemoveBlobs, TakeSinks, Truncate, RemoveFile, ClearDone,
       ConfigSet, ConfigAnchor

\* The offsets stay beyond the old text.
LEMMA OffsetsStep == StoreInv /\ [Next]_vars => OffsetsSpareOld'
<1> SUFFICES ASSUME StoreInv, [Next]_vars PROVE OffsetsSpareOld'
  OBVIOUS
<1>1. CASE Restart
  <2>1. cfgDisk \in TextFile => fileSize(cfgDisk) = Len(text[cfgDisk])
    BY RoomStoreAssumption DEF fileSize
  <2>2. cfgDisk \in TextFile => Len(text[cfgDisk]) \in Nat
    BY DEF StoreInv, TypeOK
  <2> QED BY <1>1, <2>1, <2>2, RoomStoreAssumption DEF Restart, OffsetsSpareOld
<1>2. ASSUME ~Restart, NEW w \in Worker, Anchor(w) PROVE OffsetsSpareOld'
  <2>1. path[w] \in SinkPath BY <1>2 DEF Anchor, StoreInv, WorkOK, SinkPath
  <2> QED BY <1>2, <2>1, AnchorSpares, BaseStays DEF Anchor, StoreInv, OffsetsSpareOld
<1>3. ASSUME ~Restart, ConfigAnchor PROVE OffsetsSpareOld'
  <2>1. setting \in SinkPath BY <1>3 DEF ConfigAnchor, StoreInv, TypeOK
  <2> QED BY <1>3, <2>1, AnchorSpares, BaseStays DEF ConfigAnchor, StoreInv, OffsetsSpareOld
<1>4. ASSUME ~Restart, TakeSinks PROVE OffsetsSpareOld'
  BY <1>4, BaseStays DEF TakeSinks, StoreInv, OffsetsSpareOld
<1>5. ASSUME ~Restart, ClearDone PROVE OffsetsSpareOld'
  BY <1>5, BaseStays, RoomStoreAssumption DEF ClearDone, StoreInv, OffsetsSpareOld
<1>6. ASSUME ~Restart, UNCHANGED <<sessPath, sessOff, cPath, cOff>> PROVE OffsetsSpareOld'
  BY <1>6, BaseStays DEF StoreInv, OffsetsSpareOld
<1>7. \/ Restart \/ ConfigAnchor \/ TakeSinks \/ ClearDone \/ \E w \in Worker : Anchor(w)
      \/ UNCHANGED <<sessPath, sessOff, cPath, cOff>>
  BY DEF Next, Accept, Buffer, RouteSinks, AppendText, WriteFile, RecordSaved,
         ClearBuffer, ListBlobs, RemoveBlobs, Truncate, RemoveFile, ConfigSet
<1> QED BY <1>1, <1>2, <1>3, <1>4, <1>5, <1>6, <1>7

\* Appending and truncating beyond the old text keep it.
LEMMA TextStep == StoreInv /\ [Next]_vars => TextKept'
<1> SUFFICES ASSUME StoreInv, [Next]_vars PROVE TextKept'
  OBVIOUS
<1>1. CASE Restart
  BY <1>1 DEF Restart, TextKept, StoreInv, TypeOK
<1>2. ASSUME ~Restart, NEW w \in Worker, AppendText(w) PROVE TextKept'
  <2>1. job[w] \in TextMsg /\ path[w] \in TextFile
    BY <1>2 DEF AppendText, StoreInv, WorkOK
  <2>2. CASE text' = text
    BY <1>2, <2>2, BaseStays DEF StoreInv, TextKept
  <2>3. CASE text' = [text EXCEPT ![path[w]] = Append(@, job[w])]
    <3> DEFINE q == text[path[w]]
    <3>1. q \in Seq(TextMsg \cup {Old}) BY <2>1 DEF StoreInv, TypeOK
    <3>2. /\ Len(Append(q, job[w])) = Len(q) + 1
          /\ \A i \in 1 .. Len(q) : Append(q, job[w])[i] = q[i]
      BY <2>1, <3>1, AppendKeeps
    <3>3. \A t \in TextFile : text'[t] = IF t = path[w] THEN Append(q, job[w]) ELSE text[t]
      BY <2>3 DEF StoreInv, TypeOK
    <3>4. \A t \in TextFile : Len(baseText[t]) \in Nat /\ Len(text[t]) \in Nat
      BY DEF StoreInv, TypeOK
    <3> HIDE DEF q
    <3>5. q = text[path[w]] BY DEF q
    <3>6. baseText' = baseText BY <1>2, BaseStays
    <3>7. ASSUME NEW t \in TextFile
          PROVE  /\ Len(text'[t]) >= Len(baseText[t])
                 /\ \A i \in 1 .. Len(baseText[t]) : text'[t][i] = baseText[t][i]
      <4>1. CASE t = path[w]
        <5>1. text'[t] = Append(q, job[w]) /\ q = text[t] BY <3>3, <3>5, <4>1
        <5>2. /\ Len(q) >= Len(baseText[t])
              /\ \A i \in 1 .. Len(baseText[t]) : q[i] = baseText[t][i]
          BY <5>1 DEF StoreInv, TextKept
        <5>3. \A i \in 1 .. Len(baseText[t]) : i \in 1 .. Len(q)
          BY <3>4, <5>1, <5>2
        <5> QED BY <3>2, <3>4, <5>1, <5>2, <5>3
      <4>2. CASE t # path[w]
        BY <3>3, <4>2 DEF StoreInv, TextKept
      <4> QED BY <4>1, <4>2
    <3> QED BY <3>6, <3>7 DEF TextKept
  <2> QED BY <1>2, <2>2, <2>3 DEF AppendText
<1>3. ASSUME ~Restart, Truncate PROVE TextKept'
  <2>1. CASE text' = text
    BY <1>3, <2>1, BaseStays DEF StoreInv, TextKept
  <2>2. CASE /\ cPath # NoPath /\ fileSize(cPath) > cOff
             /\ text' = [text EXCEPT ![cPath] = SubSeq(@, 1, cOff)]
    <3> DEFINE q == text[cPath]
    <3>1. cPath \in TextFile BY <2>2 DEF StoreInv, TypeOK, SinkPath
    <3>2. q \in Seq(TextMsg \cup {Old}) /\ cOff \in Nat /\ cOff < Len(q)
      BY <2>2, <3>1 DEF StoreInv, TypeOK, fileSize
    <3>3. /\ Len(SubSeq(q, 1, cOff)) = cOff
          /\ \A i \in 1 .. cOff : SubSeq(q, 1, cOff)[i] = q[i]
      BY <3>2, CutKeeps
    <3>4. \A t \in TextFile : text'[t] = IF t = cPath THEN SubSeq(q, 1, cOff) ELSE text[t]
      BY <2>2 DEF StoreInv, TypeOK
    <3>5. Len(baseText[cPath]) \in Nat /\ Len(baseText[cPath]) <= cOff
      BY <3>1 DEF StoreInv, TypeOK, OffsetsSpareOld
    <3> HIDE DEF q
    <3>6. q = text[cPath] BY DEF q
    <3>7. baseText' = baseText BY <1>3, BaseStays
    <3>8. ASSUME NEW t \in TextFile
          PROVE  /\ Len(text'[t]) >= Len(baseText[t])
                 /\ \A i \in 1 .. Len(baseText[t]) : text'[t][i] = baseText[t][i]
      <4>1. CASE t = cPath
        <5>1. text'[t] = SubSeq(q, 1, cOff) /\ q = text[t] BY <3>4, <3>6, <4>1
        <5>2. \A i \in 1 .. Len(baseText[t]) : q[i] = baseText[t][i]
          BY <5>1 DEF StoreInv, TextKept
        <5>3. \A i \in 1 .. Len(baseText[t]) : i \in 1 .. cOff
          BY <3>2, <3>5, <4>1
        <5> QED BY <3>2, <3>3, <3>5, <4>1, <5>1, <5>2, <5>3
      <4>2. CASE t # cPath
        BY <3>4, <4>2 DEF StoreInv, TextKept
      <4> QED BY <4>1, <4>2
    <3> QED BY <3>7, <3>8 DEF TextKept
  <2> QED BY <1>3, <2>1, <2>2 DEF Truncate
<1>4. ASSUME ~Restart, text' = text PROVE TextKept'
  BY <1>4, BaseStays DEF StoreInv, TextKept
<1>5. Restart \/ Truncate \/ (\E w \in Worker : AppendText(w)) \/ text' = text
  BY DEF Next, Accept, Buffer, RouteSinks, Anchor, WriteFile, RecordSaved,
         ClearBuffer, ListBlobs, RemoveBlobs, TakeSinks, RemoveFile, ClearDone,
         ConfigSet, ConfigAnchor
<1> QED BY <1>1, <1>2, <1>3, <1>4, <1>5


\* dedupPath chooses no old path, and only chosen paths are recorded.
LEMMA PathsStep == StoreInv /\ [Next]_vars => PathsSpareOld'
<1> SUFFICES ASSUME StoreInv, [Next]_vars PROVE PathsSpareOld'
  OBVIOUS
<1>1. CASE Restart
  BY <1>1 DEF Restart, PathsSpareOld
<1>2. ~Restart => OldPath' = OldPath
  BY BaseStays DEF OldPath
<1>3. ASSUME ~Restart, NEW w \in Worker, RouteSinks(w) PROVE PathsSpareOld'
  <2>1. saved' = saved /\ cSaved' = cSaved BY <1>3 DEF RouteSinks
  <2>2. \A v \in Worker : v # w => pc'[v] = pc[v] /\ path'[v] = path[v]
    BY <1>3 DEF RouteSinks, Finish, StoreInv, TypeOK
  <2>3. pc'[w] \in {"write", "record"} => path'[w] \notin OldPath
    <3> SUFFICES ASSUME pc'[w] \in {"write", "record"} PROVE path'[w] \notin OldPath
      OBVIOUS
    <3>1. pc'[w] \notin {"anchor", "idle"} OBVIOUS
    <3>2. PICK k \in 1 .. MaxCopy :
            /\ job[w] \in FileMsg /\ disk[<<Name[job[w]], k>>] = NoFile
            /\ path' = [path EXCEPT ![w] = <<Name[job[w]], k>>]
      BY <1>3, <3>1 DEF RouteSinks, Finish, dedupPath, StoreInv, TypeOK
    <3>3. path'[w] = <<Name[job[w]], k>> BY <3>2 DEF StoreInv, TypeOK
    <3>4. disk[path'[w]] = NoFile BY <3>2, <3>3
    <3> QED BY <3>4 DEF StoreInv, FilesKept, OldPath
  <2> QED BY <1>2, <1>3, <2>1, <2>2, <2>3 DEF StoreInv, PathsSpareOld
<1>4. ASSUME ~Restart, NEW w \in Worker, WriteFile(w) PROVE PathsSpareOld'
  <2>1. saved' = saved /\ cSaved' = cSaved BY <1>4 DEF WriteFile
  <2>2. \A v \in Worker : v # w => pc'[v] = pc[v] /\ path'[v] = path[v]
    BY <1>4 DEF WriteFile, Finish, StoreInv, TypeOK
  <2>3. pc'[w] = "idle" \/ (path'[w] = path[w] /\ pc[w] = "write")
    BY <1>4 DEF WriteFile, Finish, StoreInv, TypeOK
  <2> QED BY <1>2, <1>4, <2>1, <2>2, <2>3 DEF StoreInv, PathsSpareOld
<1>5. ASSUME ~Restart, NEW w \in Worker, RecordSaved(w) PROVE PathsSpareOld'
  <2>1. saved' = saved \cup {path[w]} /\ cSaved' = cSaved BY <1>5 DEF RecordSaved
  <2>2. path[w] \notin OldPath BY <1>5 DEF RecordSaved, StoreInv, PathsSpareOld
  <2>3. \A v \in Worker : v # w => pc'[v] = pc[v] /\ path'[v] = path[v]
    BY <1>5 DEF RecordSaved, Finish, StoreInv, TypeOK
  <2>4. pc'[w] = "idle" BY <1>5 DEF RecordSaved, Finish, StoreInv, TypeOK
  <2> QED BY <1>2, <1>5, <2>1, <2>2, <2>3, <2>4 DEF StoreInv, PathsSpareOld
<1>6. ASSUME ~Restart, saved' \subseteq saved, cSaved' \subseteq saved \cup cSaved,
             \A v \in Worker : \/ pc'[v] \notin {"write", "record"}
                               \/ pc'[v] = pc[v] /\ path'[v] = path[v]
      PROVE  PathsSpareOld'
  BY <1>2, <1>6 DEF StoreInv, PathsSpareOld
<1>7. ASSUME NEW w \in Worker,
             \/ \E m \in Msg : Accept(w, m)
             \/ Buffer(w) \/ Anchor(w) \/ AppendText(w)
      PROVE  /\ saved' = saved /\ cSaved' = cSaved
             /\ \A v \in Worker : \/ pc'[v] \notin {"write", "record"}
                                  \/ pc'[v] = pc[v] /\ path'[v] = path[v]
  BY <1>7 DEF Accept, Buffer, Anchor, AppendText, Finish, StoreInv, TypeOK
<1>8. ASSUME \/ \E sc \in {"transient", "all"} : ClearBuffer(sc)
             \/ ListBlobs \/ RemoveBlobs \/ TakeSinks \/ Truncate \/ ClearDone
             \/ \E p \in Path : RemoveFile(p)
             \/ \E t \in SinkPath : ConfigSet(t)
             \/ ConfigAnchor \/ UNCHANGED vars
      PROVE  saved' \subseteq saved /\ cSaved' \subseteq saved \cup cSaved
             /\ pc' = pc /\ path' = path
  BY <1>8 DEF ClearBuffer, ListBlobs, RemoveBlobs, TakeSinks, Truncate, ClearDone,
              RemoveFile, ConfigSet, ConfigAnchor
<1> QED BY <1>1, <1>3, <1>4, <1>5, <1>6, <1>7, <1>8 DEF Next

\* What is written or removed is never an old path.
LEMMA FilesStep == StoreInv /\ [Next]_vars => FilesKept'
<1> SUFFICES ASSUME StoreInv, [Next]_vars PROVE FilesKept'
  OBVIOUS
<1>1. CASE Restart
  BY <1>1 DEF Restart, FilesKept, OldPath
<1>2. ~Restart => OldPath' = OldPath /\ baseDisk' = baseDisk
  BY BaseStays DEF OldPath
<1>3. ASSUME ~Restart, NEW w \in Worker, WriteFile(w) PROVE FilesKept'
  <2>1. path[w] \notin OldPath BY <1>3 DEF WriteFile, StoreInv, PathsSpareOld
  <2>2. \A p \in Path : p # path[w] => disk'[p] = disk[p]
    BY <1>3 DEF WriteFile, StoreInv, TypeOK
  <2> QED BY <1>2, <1>3, <2>1, <2>2 DEF StoreInv, FilesKept, OldPath
<1>4. ASSUME ~Restart, NEW p \in Path, RemoveFile(p) PROVE FilesKept'
  <2>1. p \notin OldPath BY <1>4 DEF RemoveFile, StoreInv, PathsSpareOld
  <2>2. \A r \in Path : r # p => disk'[r] = disk[r]
    BY <1>4 DEF RemoveFile, StoreInv, TypeOK
  <2> QED BY <1>2, <1>4, <2>1, <2>2 DEF StoreInv, FilesKept, OldPath
<1>5. ASSUME ~Restart, disk' = disk PROVE FilesKept'
  BY <1>2, <1>5 DEF StoreInv, FilesKept
<1>6. \/ Restart \/ disk' = disk
      \/ \E w \in Worker : WriteFile(w)
      \/ \E p \in Path : RemoveFile(p)
  BY DEF Next, Accept, Buffer, RouteSinks, Anchor, AppendText, RecordSaved,
         ClearBuffer, ListBlobs, RemoveBlobs, TakeSinks, Truncate, ClearDone,
         ConfigSet, ConfigAnchor
<1> QED BY <1>1, <1>3, <1>4, <1>5, <1>6

\* The inductive invariant holds.
LEMMA StoreInvariant == Spec => []StoreInv
<1>1. Init => StoreInv
  <2> SUFFICES ASSUME Init PROVE StoreInv
    OBVIOUS
  <2>1. TypeOK /\ WorkOK BY InitTypes
  <2>2. OffsetsSpareOld BY <2>1, RoomStoreAssumption DEF Init, OffsetsSpareOld, fileSize, TypeOK
  <2>3. PathsSpareOld BY DEF Init, PathsSpareOld
  <2>4. TextKept BY <2>1 DEF Init, TextKept, TypeOK
  <2>5. FilesKept BY DEF Init, FilesKept
  <2> QED BY <2>1, <2>2, <2>3, <2>4, <2>5 DEF StoreInv
<1>2. StoreInv /\ [Next]_vars => StoreInv'
  BY NextTypes, OffsetsStep, PathsStep, TextStep, FilesStep DEF StoreInv
<1> QED BY <1>1, <1>2, PTL DEF Spec

\* For any number of ingests, clears, reconfigurations and restarts, whatever
\* their interleaving: a session leaves the text and the files that were
\* there before it as they were (SPEC 8: "Never touches content from before
\* the session").
THEOREM OldContentIsSafe == Spec => []PreSessionPreserved
<1>1. StoreInv => PreSessionPreserved
  BY DEF StoreInv, TextKept, FilesKept, OldPath, PreSessionPreserved
<1> QED BY <1>1, StoreInvariant, PTL

-----------------------------------------------------------------------------
(* BufferedHasBlob.  While a clear is between emptying the buffer and      *)
(* removing blobs, every item that is buffered, or about to be, overlaps   *)
(* the clear; outside it nothing removes a blob.                           *)

BlobOrOverlap ==
    /\ \A k \in DOMAIN buffer : buffer[k] \in FileMsg => buffer[k] \in blobs \cup overlapped
    /\ \A w \in Worker : pc[w] = "buffer" /\ job[w] \in FileMsg
                            => job[w] \in blobs \cup overlapped

ClearOverlaps ==
    clearing \in {"list", "blobs"} =>
        /\ \A k \in DOMAIN buffer : buffer[k] \in overlapped
        /\ \A w \in Worker : pc[w] = "buffer" => job[w] \in overlapped

BlobInv == TypeOK /\ WorkOK /\ BlobOrOverlap /\ ClearOverlaps

\* The ring buffer gains only the item it takes.
LEMMA RingElements ==
    ASSUME NEW q \in Seq(Msg), NEW m \in Msg, NEW k,
           k \in DOMAIN Append(IF Len(q) = BufferCap THEN Tail(q) ELSE q, m)
    PROVE  LET r == Append(IF Len(q) = BufferCap THEN Tail(q) ELSE q, m)
           IN  r[k] = m \/ \E j \in DOMAIN q : r[k] = q[j]
<1>1. CASE Len(q) = BufferCap
  <2>1. q # <<>> /\ Tail(q) \in Seq(Msg) /\ Len(Tail(q)) = Len(q) - 1
    BY <1>1, RoomStoreAssumption
  <2>2. \A j \in 1 .. Len(Tail(q)) : j + 1 \in DOMAIN q /\ Tail(q)[j] = q[j + 1]
    BY <2>1
  <2>3. \/ k \in 1 .. Len(Tail(q)) /\ Append(Tail(q), m)[k] = Tail(q)[k]
        \/ Append(Tail(q), m)[k] = m
    BY <1>1, <2>1
  <2> QED BY <1>1, <2>2, <2>3
<1>2. CASE Len(q) # BufferCap
  BY <1>2
<1> QED BY <1>1, <1>2

\* A step that leaves buffer, workers and the clear alone and removes no blob.
LEMMA BlobsUndisturbed ==
    ASSUME BlobOrOverlap, ClearOverlaps,
           buffer' = buffer, blobs \subseteq blobs', overlapped \subseteq overlapped',
           clearing' \in {"list", "blobs"} => clearing \in {"list", "blobs"},
           \A w \in Worker : pc'[w] = "buffer" => pc[w] = "buffer" /\ job'[w] = job[w]
    PROVE  BlobOrOverlap' /\ ClearOverlaps'
<1>1. BlobOrOverlap' BY DEF BlobOrOverlap
<1>2. ClearOverlaps' BY DEF ClearOverlaps
<1> QED BY <1>1, <1>2

\* Every step keeps the link between buffer and blobs.
LEMMA BlobStep == BlobInv /\ [Next]_vars => BlobOrOverlap' /\ ClearOverlaps'
<1> SUFFICES ASSUME BlobInv, [Next]_vars PROVE BlobOrOverlap' /\ ClearOverlaps'
  OBVIOUS
<1> USE DEF BlobInv
<1>1. ASSUME NEW w \in Worker, NEW m \in Msg, Accept(w, m)
      PROVE  BlobOrOverlap' /\ ClearOverlaps'
  <2>1. CASE pc' = [pc EXCEPT ![w] = "buffer"] /\ job' = [job EXCEPT ![w] = m]
             /\ blobs' = blobs \cup ({m} \cap FileMsg)
             /\ overlapped' = IF clearing = "no" THEN overlapped ELSE overlapped \cup {m}
    <3>1. buffer' = buffer /\ clearing' = clearing BY <1>1 DEF Accept
    <3>2. /\ pc'[w] = "buffer" /\ job'[w] = m
          /\ \A v \in Worker : v # w => pc'[v] = pc[v] /\ job'[v] = job[v]
      BY <2>1 DEF TypeOK
    <3>3. BlobOrOverlap' BY <2>1, <3>1, <3>2 DEF BlobOrOverlap
    <3>4. ClearOverlaps' BY <2>1, <3>1, <3>2 DEF ClearOverlaps
    <3> QED BY <3>3, <3>4
  <2>2. CASE pc' = pc /\ job' = job /\ overlapped' = overlapped
             /\ blobs' \in {blobs, blobs \cup {m}}
    BY <1>1, <2>2, BlobsUndisturbed DEF Accept
  <2> QED BY <1>1, <2>1, <2>2 DEF Accept
<1>2. ASSUME NEW w \in Worker, Buffer(w) PROVE BlobOrOverlap' /\ ClearOverlaps'
  <2>1. job[w] \in Msg /\ pc[w] = "buffer" BY <1>2 DEF Buffer, WorkOK
  <2>2. \A k \in DOMAIN buffer' : buffer'[k] = job[w] \/ \E j \in DOMAIN buffer : buffer'[k] = buffer[j]
    BY <1>2, <2>1, RingElements DEF Buffer, TypeOK
  <2>3. \A v \in Worker : pc'[v] = "buffer" => pc[v] = "buffer" /\ job'[v] = job[v]
    BY <1>2 DEF Buffer, TypeOK
  <2>4. blobs' = blobs /\ overlapped' = overlapped /\ clearing' = clearing
    BY <1>2 DEF Buffer
  <2>5. BlobOrOverlap' BY <2>1, <2>2, <2>3, <2>4 DEF BlobOrOverlap
  <2>6. ClearOverlaps' BY <2>1, <2>2, <2>3, <2>4 DEF ClearOverlaps
  <2> QED BY <2>5, <2>6
<1>3. ASSUME NEW w \in Worker,
             RouteSinks(w) \/ Anchor(w) \/ AppendText(w) \/ WriteFile(w) \/ RecordSaved(w)
      PROVE  BlobOrOverlap' /\ ClearOverlaps'
  <2>1. \A v \in Worker : pc'[v] = "buffer" => pc[v] = "buffer" /\ job'[v] = job[v]
    BY <1>3 DEF RouteSinks, Anchor, AppendText, WriteFile, RecordSaved, Finish, TypeOK
  <2>2. buffer' = buffer /\ blobs' = blobs /\ overlapped' = overlapped /\ clearing' = clearing
    BY <1>3 DEF RouteSinks, Anchor, AppendText, WriteFile, RecordSaved
  <2> QED BY <2>1, <2>2, BlobsUndisturbed
<1>4. ASSUME NEW sc \in {"transient", "all"}, ClearBuffer(sc)
      PROVE  BlobOrOverlap' /\ ClearOverlaps'
  <2>1. DOMAIN buffer' = {} BY <1>4 DEF ClearBuffer
  <2>2. \A w \in Worker : pc'[w] = "buffer" => job'[w] \in overlapped'
    BY <1>4 DEF ClearBuffer
  <2>3. BlobOrOverlap' BY <2>1, <2>2 DEF BlobOrOverlap
  <2>4. ClearOverlaps' BY <2>1, <2>2 DEF ClearOverlaps
  <2> QED BY <2>3, <2>4
<1>5. CASE RemoveBlobs
  <2>1. /\ clearing \in {"list", "blobs"} /\ clearing' \notin {"list", "blobs"}
        /\ UNCHANGED <<buffer, pc, job, overlapped>>
    BY <1>5 DEF RemoveBlobs
  <2>2. BlobOrOverlap' BY <2>1 DEF BlobOrOverlap, ClearOverlaps
  <2>3. ClearOverlaps' BY <2>1 DEF ClearOverlaps
  <2> QED BY <2>2, <2>3
<1>6. CASE Restart
  <2>1. DOMAIN buffer' = {} /\ clearing' = "no" /\ \A w \in Worker : pc'[w] = "idle"
    BY <1>6 DEF Restart
  <2>2. BlobOrOverlap' BY <2>1 DEF BlobOrOverlap
  <2>3. ClearOverlaps' BY <2>1 DEF ClearOverlaps
  <2> QED BY <2>2, <2>3
<1>7. ASSUME \/ ListBlobs \/ TakeSinks \/ Truncate \/ ClearDone
             \/ \E p \in Path : RemoveFile(p)
             \/ \E t \in SinkPath : ConfigSet(t)
             \/ ConfigAnchor \/ UNCHANGED vars
      PROVE  BlobOrOverlap' /\ ClearOverlaps'
  <2>1. /\ UNCHANGED <<buffer, pc, job, overlapped, blobs>>
        /\ clearing' \in {"list", "blobs"} => clearing \in {"list", "blobs"}
    BY <1>7 DEF ListBlobs, TakeSinks, Truncate, ClearDone, RemoveFile, ConfigSet, ConfigAnchor
  <2> QED BY <2>1, BlobsUndisturbed
<1> QED BY <1>1, <1>2, <1>3, <1>4, <1>5, <1>6, <1>7 DEF Next

\* For any interleaving of ingests and clears: an item in the buffer has its
\* blob on disk, unless its ingest overlapped the clear that removed it.
THEOREM BufferedItemsHaveBlobs == Spec => []BufferedHasBlob
<1>1. Init => BlobInv
  <2>1. Init => BlobOrOverlap /\ ClearOverlaps
    BY DEF Init, BlobOrOverlap, ClearOverlaps
  <2> QED BY <2>1, InitTypes DEF BlobInv
<1>2. BlobInv /\ [Next]_vars => BlobInv'
  BY NextTypes, BlobStep DEF BlobInv
<1>3. BlobInv => BufferedHasBlob
  BY DEF BlobInv, BlobOrOverlap, BufferedHasBlob
<1> QED BY <1>1, <1>2, <1>3, PTL DEF Spec
-----------------------------------------------------------------------------
(* ClearAllTakesBack.  A file the session wrote is always on record, or    *)
(* its writer is about to record it; once the clear has taken the record,  *)
(* whatever is not in its copy was written by an overlapping ingest.  In a *)
(* session without a config set only one text file grows, and the offset   *)
(* of the record is where the session found it.                            *)

\* An ingest at work during a clear overlaps it.
ActiveOverlap ==
    clearing # "no" => \A w \in Worker : pc[w] # "idle" => job[w] \in overlapped

\* The clear holds saved files only from TakeSinks on.
CopyWhileTaking == clearing \notin {"text", "files"} => cSaved = {}

\* What save_dir holds at p is from this session, and whole.
Wrote(p) == disk[p] # baseDisk[p] /\ disk[p] # Partial

Recorded(p) ==
    \/ p \in saved \cup cSaved
    \/ \E w \in Worker : pc[w] = "record" /\ path[w] = p /\ job[w] = disk[p]

FilesRecorded == ~ioError => \A p \in Path : Wrote(p) => Recorded(p)

FilesTaken ==
    clearing \in {"text", "files"} /\ ~ioError =>
        \A p \in Path : Wrote(p) /\ disk[p] \notin overlapped => p \in cSaved

FileInv == ActiveOverlap /\ CopyWhileTaking /\ FilesRecorded /\ FilesTaken

\* The session writes one text file, and the offsets are where it began.
OneTextFile ==
    /\ setting = "none" /\ cfgText = sessPath
    /\ sessPath \in TextFile => sessOff = Len(baseText[sessPath])
    /\ \A w \in Worker : pc[w] \in {"anchor", "append"} => path[w] = sessPath
    /\ clearing \in {"text", "files"} => cPath = sessPath /\ cOff = sessOff
    /\ \A t \in TextFile \ {sessPath} : Len(text[t]) = Len(baseText[t])

\* After the truncation, what lies beyond the old text overlaps the clear.
TextTaken ==
    clearing = "files" /\ ~ioError =>
        \A t \in TextFile : \A i \in 1 .. Len(text[t]) :
            i > Len(baseText[t]) => text[t][i] \in overlapped

TextInv == configs = 0 => OneTextFile /\ TextTaken

ClearInv == StoreInv /\ FileInv /\ TextInv

\* The worker steps after Accept carry an item on or let it go; they leave
\* the clear and its history alone.
WorkerStep(w) ==
    Buffer(w) \/ RouteSinks(w) \/ Anchor(w) \/ AppendText(w) \/ WriteFile(w) \/ RecordSaved(w)

LEMMA WorkersCarryOn ==
    ASSUME TypeOK, NEW w \in Worker, WorkerStep(w)
    PROVE  /\ UNCHANGED <<clearing, overlapped, ioError, cSaved, baseDisk, baseText>>
           /\ \A v \in Worker : pc'[v] # "idle" => pc[v] # "idle" /\ job'[v] = job[v]
BY DEF WorkerStep, Buffer, RouteSinks, Anchor, AppendText, WriteFile, RecordSaved, Finish, TypeOK

\* Who starts or works while a clear is on is counted as overlapping it.
LEMMA ActiveStep == ClearInv /\ [Next]_vars => ActiveOverlap'
<1> SUFFICES ASSUME ClearInv, [Next]_vars PROVE ActiveOverlap'
  OBVIOUS
<1>0. TypeOK /\ ActiveOverlap BY DEF ClearInv, StoreInv, FileInv
<1>1. ASSUME NEW w \in Worker, NEW m \in Msg, Accept(w, m) PROVE ActiveOverlap'
  <2>1. clearing' = clearing BY <1>1 DEF Accept
  <2>2. CASE /\ pc' = [pc EXCEPT ![w] = "buffer"] /\ job' = [job EXCEPT ![w] = m]
             /\ overlapped' = IF clearing = "no" THEN overlapped ELSE overlapped \cup {m}
    <3>1. /\ job'[w] = m
          /\ \A v \in Worker : v # w => pc'[v] = pc[v] /\ job'[v] = job[v]
      BY <1>0, <2>2 DEF TypeOK
    <3> QED BY <1>0, <2>1, <2>2, <3>1 DEF ActiveOverlap
  <2>3. CASE UNCHANGED <<pc, job, overlapped>>
    BY <1>0, <2>1, <2>3 DEF ActiveOverlap
  <2> QED BY <1>1, <2>2, <2>3 DEF Accept
<1>2. ASSUME NEW w \in Worker, WorkerStep(w) PROVE ActiveOverlap'
  BY <1>0, <1>2, WorkersCarryOn DEF ActiveOverlap
<1>3. ASSUME NEW sc \in {"transient", "all"}, ClearBuffer(sc) PROVE ActiveOverlap'
  BY <1>3 DEF ClearBuffer, ActiveOverlap
<1>4. CASE Restart BY <1>4 DEF Restart, ActiveOverlap
<1>5. ASSUME \/ ListBlobs \/ RemoveBlobs \/ TakeSinks \/ Truncate \/ ClearDone
             \/ \E p \in Path : RemoveFile(p)
             \/ \E t \in SinkPath : ConfigSet(t)
             \/ ConfigAnchor \/ UNCHANGED vars
      PROVE  ActiveOverlap'
  <2>1. UNCHANGED <<pc, job, overlapped>> /\ (clearing' # "no" => clearing # "no")
    BY <1>5 DEF ListBlobs, RemoveBlobs, TakeSinks, Truncate, ClearDone, RemoveFile,
                ConfigSet, ConfigAnchor
  <2> QED BY <1>0, <2>1 DEF ActiveOverlap
<1> QED BY <1>1, <1>2, <1>3, <1>4, <1>5 DEF Next, WorkerStep

\* ClearDone waits for the removals, so no clear starts with an old copy.
LEMMA CopyStep == ClearInv /\ [Next]_vars => CopyWhileTaking'
<1> SUFFICES ASSUME ClearInv, [Next]_vars PROVE CopyWhileTaking'
  OBVIOUS
<1>0. TypeOK /\ CopyWhileTaking BY DEF ClearInv, StoreInv, FileInv
<1>1. ASSUME NEW w \in Worker, WorkerStep(w) PROVE CopyWhileTaking'
  BY <1>0, <1>1, WorkersCarryOn DEF CopyWhileTaking
<1>2. ASSUME NEW w \in Worker, NEW m \in Msg, Accept(w, m) PROVE CopyWhileTaking'
  BY <1>0, <1>2 DEF Accept, CopyWhileTaking
<1>3. ASSUME NEW p \in Path, RemoveFile(p) PROVE CopyWhileTaking'
  BY <1>0, <1>3 DEF RemoveFile, CopyWhileTaking
<1>4. ASSUME \/ \E sc \in {"transient", "all"} : ClearBuffer(sc)
             \/ ListBlobs \/ RemoveBlobs \/ TakeSinks \/ Truncate \/ ClearDone
             \/ \E t \in SinkPath : ConfigSet(t)
             \/ ConfigAnchor \/ Restart \/ UNCHANGED vars
      PROVE  CopyWhileTaking'
  BY <1>0, <1>4 DEF ClearBuffer, ListBlobs, RemoveBlobs, TakeSinks, Truncate, ClearDone,
                    ConfigSet, ConfigAnchor, Restart, CopyWhileTaking
<1> QED BY <1>1, <1>2, <1>3, <1>4 DEF Next, WorkerStep

\* A step that writes no file and loses no record.
LEMMA RecordUndisturbed ==
    ASSUME FilesRecorded, UNCHANGED <<disk, baseDisk>>, ioError => ioError',
           saved \cup cSaved \subseteq saved' \cup cSaved',
           \A v \in Worker : pc[v] = "record" =>
               \/ pc'[v] = "record" /\ path'[v] = path[v] /\ job'[v] = job[v]
               \/ path[v] \in saved'
    PROVE  FilesRecorded'
<1> SUFFICES ASSUME ~ioError', NEW p \in Path, Wrote(p)' PROVE Recorded(p)'
  BY DEF FilesRecorded
<1>1. Recorded(p) BY DEF FilesRecorded, Wrote
<1> QED BY <1>1 DEF Recorded

\* Every whole file of the session is on record or about to be.
LEMMA RecordStep == ClearInv /\ [Next]_vars => FilesRecorded'
<1> SUFFICES ASSUME ClearInv, [Next]_vars PROVE FilesRecorded'
  OBVIOUS
<1>0. TypeOK /\ WorkOK /\ CopyWhileTaking /\ FilesRecorded /\ PathsSpareOld
  BY DEF ClearInv, StoreInv, FileInv
<1>1. ASSUME NEW w \in Worker, WriteFile(w) PROVE FilesRecorded'
  <2>1. /\ UNCHANGED <<saved, cSaved, baseDisk, ioError>>
        /\ \A v \in Worker : v # w => pc'[v] = pc[v] /\ path'[v] = path[v] /\ job'[v] = job[v]
    BY <1>0, <1>1 DEF WriteFile, Finish, TypeOK
  <2>2. path[w] \in Path /\ pc[w] = "write" BY <1>0, <1>1 DEF WriteFile, WorkOK
  <2> SUFFICES ASSUME ~ioError', NEW p \in Path, Wrote(p)' PROVE Recorded(p)'
    BY DEF FilesRecorded
  <2>3. CASE p # path[w] \/ disk' = disk
    <3>1. disk'[p] = disk[p] BY <1>0, <1>1, <2>3 DEF WriteFile, TypeOK
    <3>2. Recorded(p) BY <1>0, <2>1, <3>1 DEF FilesRecorded, Wrote
    <3> QED BY <2>1, <2>2, <3>1, <3>2 DEF Recorded
  <2>4. CASE p = path[w] /\ disk' # disk
    <3>1. disk' # [disk EXCEPT ![path[w]] = Partial]
      <4>1. disk' = [disk EXCEPT ![path[w]] = Partial] => disk'[p] = Partial
        BY <1>0, <2>2, <2>4 DEF TypeOK
      <4> QED BY <4>1 DEF Wrote
    <3>2. disk' = [disk EXCEPT ![path[w]] = job[w]] /\ pc' = [pc EXCEPT ![w] = "record"]
          /\ path' = path /\ job' = job
      BY <1>1, <2>4, <3>1 DEF WriteFile
    <3>3. disk'[p] = job'[w] /\ pc'[w] = "record" /\ path'[w] = p
      BY <1>0, <2>2, <2>4, <3>2 DEF TypeOK
    <3> QED BY <3>3 DEF Recorded
  <2> QED BY <2>3, <2>4
<1>2. ASSUME NEW w \in Worker, RecordSaved(w) PROVE FilesRecorded'
  <2>1. /\ UNCHANGED <<disk, baseDisk, ioError, cSaved>> /\ saved' = saved \cup {path[w]}
        /\ \A v \in Worker : v # w => pc'[v] = pc[v] /\ path'[v] = path[v] /\ job'[v] = job[v]
    BY <1>0, <1>2 DEF RecordSaved, Finish, TypeOK
  <2>2. \A v \in Worker : pc[v] = "record" =>
               \/ pc'[v] = "record" /\ path'[v] = path[v] /\ job'[v] = job[v]
               \/ path[v] \in saved'
    BY <2>1
  <2> QED BY <1>0, <2>1, <2>2, RecordUndisturbed
<1>3. ASSUME NEW w \in Worker,
             \/ \E m \in Msg : Accept(w, m)
             \/ Buffer(w) \/ RouteSinks(w) \/ Anchor(w) \/ AppendText(w)
      PROVE  FilesRecorded'
  <2>1. UNCHANGED <<disk, baseDisk, ioError, cSaved, saved>>
    BY <1>3 DEF Accept, Buffer, RouteSinks, Anchor, AppendText
  <2>2. pc[w] # "record" BY <1>3 DEF Accept, Buffer, RouteSinks, Anchor, AppendText
  <2>3. \A v \in Worker : v # w => pc'[v] = pc[v] /\ path'[v] = path[v] /\ job'[v] = job[v]
    BY <1>0, <1>3 DEF Accept, Buffer, RouteSinks, Anchor, AppendText, Finish, TypeOK
  <2> QED BY <1>0, <2>1, <2>2, <2>3, RecordUndisturbed
<1>4. ASSUME NEW p \in Path, RemoveFile(p) PROVE FilesRecorded'
  <2> SUFFICES ASSUME ~ioError', NEW r \in Path, Wrote(r)' PROVE Recorded(r)'
    BY DEF FilesRecorded
  <2>1. /\ disk' = [disk EXCEPT ![p] = NoFile] /\ ioError' = ioError
        /\ UNCHANGED <<saved, pc, path, job, baseDisk>> /\ cSaved' = cSaved \ {p}
    BY <1>4 DEF RemoveFile
  <2>2. baseDisk[p] = NoFile
    BY <1>0, <1>4 DEF RemoveFile, PathsSpareOld, OldPath
  <2>3. r # p BY <1>0, <2>1, <2>2 DEF Wrote, TypeOK
  <2>4. disk'[r] = disk[r] BY <1>0, <2>1, <2>3 DEF TypeOK
  <2>5. Recorded(r) BY <1>0, <2>1, <2>4 DEF FilesRecorded, Wrote
  <2> QED BY <2>1, <2>3, <2>4, <2>5 DEF Recorded
<1>5. CASE Restart
  BY <1>5 DEF Restart, FilesRecorded, Wrote
<1>6. CASE TakeSinks
  <2>1. cSaved = {} BY <1>0, <1>6 DEF TakeSinks, CopyWhileTaking
  <2>2. UNCHANGED <<disk, baseDisk, ioError, pc, path, job>>
        /\ saved \cup cSaved \subseteq saved' \cup cSaved'
    BY <1>6, <2>1 DEF TakeSinks
  <2> QED BY <1>0, <2>2, RecordUndisturbed
<1>7. ASSUME \/ \E sc \in {"transient", "all"} : ClearBuffer(sc)
             \/ ListBlobs \/ RemoveBlobs \/ Truncate \/ ClearDone
             \/ \E t \in SinkPath : ConfigSet(t)
             \/ ConfigAnchor \/ UNCHANGED vars
      PROVE  FilesRecorded'
  <2>1. UNCHANGED <<disk, baseDisk, pc, path, job, saved, cSaved>> /\ (ioError => ioError')
    BY <1>7 DEF ClearBuffer, ListBlobs, RemoveBlobs, Truncate, ClearDone, ConfigSet, ConfigAnchor
  <2> QED BY <1>0, <2>1, RecordUndisturbed
<1> QED BY <1>1, <1>2, <1>3, <1>4, <1>5, <1>6, <1>7 DEF Next

\* From TakeSinks on, what is not in the clear's copy overlaps it.
LEMMA TakenStep == ClearInv /\ [Next]_vars => FilesTaken'
<1> SUFFICES ASSUME ClearInv, [Next]_vars PROVE FilesTaken'
  OBVIOUS
<1>0. /\ TypeOK /\ WorkOK /\ PathsSpareOld
      /\ ActiveOverlap /\ CopyWhileTaking /\ FilesRecorded /\ FilesTaken
  BY DEF ClearInv, StoreInv, FileInv
<1>1. ASSUME NEW w \in Worker, WriteFile(w) PROVE FilesTaken'
  <2>1. UNCHANGED <<clearing, overlapped, ioError, cSaved, baseDisk>>
    BY <1>1 DEF WriteFile
  <2>2. path[w] \in Path /\ pc[w] = "write" BY <1>0, <1>1 DEF WriteFile, WorkOK
  <2> SUFFICES ASSUME clearing \in {"text", "files"}, ~ioError, NEW p \in Path,
                      Wrote(p)', disk'[p] \notin overlapped
               PROVE  p \in cSaved
    BY <2>1 DEF FilesTaken
  <2>3. job[w] \in overlapped BY <1>0, <2>2 DEF ActiveOverlap
  <2>4. disk'[p] \in {disk[p], job[w], Partial} BY <1>0, <1>1, <2>2 DEF WriteFile, TypeOK
  <2>5. disk'[p] = disk[p] BY <2>3, <2>4 DEF Wrote
  <2> QED BY <1>0, <2>1, <2>5 DEF FilesTaken, Wrote
<1>2. ASSUME NEW p \in Path, RemoveFile(p) PROVE FilesTaken'
  <2>1. UNCHANGED <<clearing, overlapped, baseDisk>> /\ cSaved' = cSaved \ {p}
    BY <1>2 DEF RemoveFile
  <2> SUFFICES ASSUME clearing \in {"text", "files"}, ~ioError', NEW r \in Path,
                      Wrote(r)', disk'[r] \notin overlapped
               PROVE  r \in cSaved \ {p}
    BY <2>1 DEF FilesTaken
  <2>2. disk' = [disk EXCEPT ![p] = NoFile] /\ ioError' = ioError
    BY <1>2 DEF RemoveFile
  <2>3. baseDisk[p] = NoFile BY <1>0, <1>2 DEF RemoveFile, PathsSpareOld, OldPath
  <2>4. r # p BY <1>0, <2>1, <2>2, <2>3 DEF Wrote, TypeOK
  <2>5. disk'[r] = disk[r] BY <1>0, <2>2, <2>4 DEF TypeOK
  <2> QED BY <1>0, <2>1, <2>2, <2>4, <2>5 DEF FilesTaken, Wrote
<1>3. CASE TakeSinks
  <2>1. /\ clearing = "sinks" /\ cSaved' = saved
        /\ UNCHANGED <<disk, baseDisk, overlapped, ioError>>
    BY <1>3 DEF TakeSinks
  <2>2. cSaved = {} BY <1>0, <2>1 DEF CopyWhileTaking
  <2> SUFFICES ASSUME ~ioError, NEW p \in Path, Wrote(p), disk[p] \notin overlapped
               PROVE  p \in saved
    BY <2>1 DEF FilesTaken, Wrote
  <2>3. Recorded(p) BY <1>0 DEF FilesRecorded
  <2> QED BY <1>0, <2>1, <2>2, <2>3 DEF Recorded, ActiveOverlap
<1>4. ASSUME clearing' \notin {"text", "files"} PROVE FilesTaken'
  BY <1>4 DEF FilesTaken
<1>5. ASSUME UNCHANGED <<disk, baseDisk, cSaved>>, ioError => ioError',
             overlapped \subseteq overlapped',
             clearing' \in {"text", "files"} => clearing \in {"text", "files"}
      PROVE  FilesTaken'
  BY <1>0, <1>5 DEF FilesTaken, Wrote
<1>6. ASSUME NEW w \in Worker,
             \/ \E m \in Msg : Accept(w, m)
             \/ Buffer(w) \/ RouteSinks(w) \/ Anchor(w) \/ AppendText(w) \/ RecordSaved(w)
      PROVE  FilesTaken'
  <2>1. /\ UNCHANGED <<disk, baseDisk, cSaved, ioError, clearing>>
        /\ overlapped \subseteq overlapped'
    BY <1>6 DEF Accept, Buffer, RouteSinks, Anchor, AppendText, RecordSaved
  <2> QED BY <1>5, <2>1
<1>7. ASSUME \/ \E sc \in {"transient", "all"} : ClearBuffer(sc)
             \/ ListBlobs \/ RemoveBlobs \/ ClearDone \/ Restart
      PROVE  FilesTaken'
  <2>1. clearing' \notin {"text", "files"}
    BY <1>7 DEF ClearBuffer, ListBlobs, RemoveBlobs, ClearDone, Restart
  <2> QED BY <1>4, <2>1
<1>8. ASSUME Truncate \/ (\E t \in SinkPath : ConfigSet(t)) \/ ConfigAnchor \/ UNCHANGED vars
      PROVE  FilesTaken'
  <2>1. /\ UNCHANGED <<disk, baseDisk, cSaved, overlapped>> /\ (ioError => ioError')
        /\ clearing' \in {"text", "files"} => clearing \in {"text", "files"}
    BY <1>8 DEF Truncate, ConfigSet, ConfigAnchor
  <2> QED BY <1>5, <2>1
<1> QED BY <1>1, <1>2, <1>3, <1>6, <1>7, <1>8 DEF Next

\* The length of a text file, now and when the session began, is a number.
LEMMA TextLengths ==
    TypeOK => \A t \in TextFile : Len(text[t]) \in Nat /\ Len(baseText[t]) \in Nat
BY DEF TypeOK

\* A step that leaves the text, its base and the record alone.
LEMMA TextUndisturbed ==
    ASSUME OneTextFile, TextTaken,
           UNCHANGED <<setting, cfgText, sessPath, sessOff, text, baseText>>,
           \A w \in Worker : pc'[w] \in {"anchor", "append"} => path'[w] = sessPath,
           clearing' \in {"text", "files"} =>
               clearing \in {"text", "files"} /\ UNCHANGED <<cPath, cOff>>,
           clearing' = "files" => clearing = "files",
           ioError => ioError', overlapped \subseteq overlapped'
    PROVE  OneTextFile' /\ TextTaken'
<1>1. OneTextFile' BY DEF OneTextFile
<1>2. TextTaken' BY DEF TextTaken
<1> QED BY <1>1, <1>2

\* In a session without a config set, text goes to one file and the clear
\* cuts that file where the session found it.
LEMMA TextTakenStep == ClearInv /\ [Next]_vars => TextInv'
<1> SUFFICES ASSUME ClearInv, [Next]_vars, configs' = 0 PROVE OneTextFile' /\ TextTaken'
  BY DEF TextInv
<1>0. TypeOK /\ WorkOK /\ ActiveOverlap
  BY DEF ClearInv, StoreInv, FileInv
<1>1. CASE Restart
  <2>1. cfgDisk \in TextFile => fileSize(cfgDisk) = Len(text[cfgDisk])
    BY RoomStoreAssumption DEF fileSize
  <2>2. OneTextFile'
    <3>1. /\ setting' = "none" /\ cfgText' = sessPath' /\ sessPath' = cfgDisk
          /\ sessOff' = fileSize(cfgDisk) /\ clearing' = "no"
          /\ text' = text /\ baseText' = text
          /\ \A w \in Worker : pc'[w] = "idle"
      BY <1>1 DEF Restart
    <3> QED BY <2>1, <3>1 DEF OneTextFile
  <2>3. TextTaken' BY <1>1 DEF Restart, TextTaken
  <2> QED BY <2>2, <2>3
<1>2. CASE ~Restart
  <2>1. configs = 0
    <3>1. ASSUME NEW t \in SinkPath, ConfigSet(t) PROVE FALSE
      BY <1>0, <3>1 DEF ConfigSet, TypeOK
    <3>2. configs' = configs
      BY <1>2, <3>1
         DEF Next, Accept, Buffer, RouteSinks, Anchor, AppendText, WriteFile, RecordSaved,
             ClearBuffer, ListBlobs, RemoveBlobs, TakeSinks, Truncate, RemoveFile,
             ClearDone, ConfigAnchor
    <3> QED BY <3>2
  <2>2. OneTextFile /\ TextTaken BY <2>1 DEF ClearInv, TextInv
  <2>3. baseText' = baseText BY <1>2, BaseStays
  <2>4. ASSUME NEW w \in Worker, AppendText(w) PROVE OneTextFile' /\ TextTaken'
    <3>1. /\ path[w] \in TextFile /\ path[w] = sessPath /\ job[w] \in TextMsg
          /\ pc[w] = "append"
      BY <1>0, <2>2, <2>4 DEF AppendText, WorkOK, OneTextFile
    <3>2. /\ UNCHANGED <<setting, cfgText, sessPath, sessOff, clearing, cPath, cOff,
                         overlapped, ioError>>
          /\ \A v \in Worker : pc'[v] \in {"anchor", "append"} =>
                                 pc[v] \in {"anchor", "append"} /\ path'[v] = path[v]
      BY <1>0, <2>4 DEF AppendText, Finish, TypeOK
    <3>3. \A t \in TextFile : t # sessPath => text'[t] = text[t]
      BY <1>0, <2>4, <3>1 DEF AppendText, TypeOK
    <3>4. OneTextFile' BY <2>2, <2>3, <3>2, <3>3 DEF OneTextFile
    <3>5. ASSUME clearing = "files", ~ioError, NEW t \in TextFile,
                 NEW i \in 1 .. Len(text'[t]), i > Len(baseText[t])
          PROVE  text'[t][i] \in overlapped
      <4>1. CASE text'[t] = text[t] BY <2>2, <3>5, <4>1 DEF TextTaken
      <4>2. CASE text'[t] # text[t]
        <5>1. t = path[w] BY <3>1, <3>3, <4>2
        <5>2. text'[t] = Append(text[t], job[w])
          BY <1>0, <2>4, <4>2, <5>1 DEF AppendText, TypeOK
        <5>3. text[t] \in Seq(TextMsg \cup {Old}) BY <1>0 DEF TypeOK
        <5>4. \/ i \in 1 .. Len(text[t]) /\ text'[t][i] = text[t][i]
              \/ text'[t][i] = job[w]
          BY <3>1, <3>5, <5>2, <5>3
        <5>5. job[w] \in overlapped BY <1>0, <3>1, <3>5 DEF ActiveOverlap
        <5> QED BY <2>2, <3>5, <5>4, <5>5 DEF TextTaken
      <4> QED BY <4>1, <4>2
    <3>6. TextTaken' BY <2>3, <3>2, <3>5 DEF TextTaken
    <3> QED BY <3>4, <3>6
  <2>5. CASE Truncate
    <3>1. /\ clearing = "text" /\ clearing' = "files" /\ overlapped' = overlapped
          /\ UNCHANGED <<setting, cfgText, sessPath, sessOff, cPath, cOff, pc, path>>
      BY <2>5 DEF Truncate
    <3>2. cPath = sessPath /\ cOff = sessOff
      BY <2>2, <3>1 DEF OneTextFile
    <3>3. \A t \in TextFile : t # sessPath => text'[t] = text[t]
      BY <1>0, <2>5, <3>2 DEF Truncate, TypeOK
    <3>4. OneTextFile' BY <2>2, <2>3, <3>1, <3>3 DEF OneTextFile
    <3>5. ASSUME ~ioError', NEW t \in TextFile PROVE Len(text'[t]) <= Len(baseText[t])
      <4>1. CASE t # sessPath
        BY <1>0, <2>2, <3>3, <4>1, TextLengths DEF OneTextFile
      <4>2. CASE t = sessPath
        <5>1. cOff = Len(baseText[t]) /\ cPath = t /\ cPath # NoPath
          BY <2>2, <3>2, <4>2, RoomStoreAssumption DEF OneTextFile
        <5>2. fileSize(cPath) = Len(text[t]) BY <5>1 DEF fileSize
        <5>3. CASE Len(text[t]) > cOff
          <6>1. text' = [text EXCEPT ![cPath] = SubSeq(@, 1, cOff)]
            BY <1>0, <2>5, <3>5, <5>1, <5>2, <5>3, TextLengths DEF Truncate
          <6>2. text'[t] = SubSeq(text[t], 1, cOff) BY <1>0, <5>1, <6>1 DEF TypeOK
          <6>3. text[t] \in Seq(TextMsg \cup {Old}) /\ cOff \in Nat BY <1>0 DEF TypeOK
          <6>4. Len(text'[t]) = cOff
            <7>1. cOff <= Len(text[t]) BY <1>0, <5>3, <6>3, TextLengths
            <7> QED BY <6>2, <6>3, <7>1, CutKeeps
          <6> QED BY <5>1, <6>3, <6>4
        <5>4. CASE Len(text[t]) <= cOff
          <6>1. ~(fileSize(cPath) > cOff)
            BY <1>0, <5>1, <5>2, <5>4, TextLengths
          <6>2. text' = text BY <2>5, <6>1 DEF Truncate
          <6> QED BY <5>1, <5>4, <6>2
        <5> QED BY <1>0, <5>1, <5>3, <5>4, TextLengths
      <4> QED BY <4>1, <4>2
    <3>6. TextTaken'
      <4>1. \A t \in TextFile : Len(text'[t]) \in Nat /\ Len(baseText[t]) \in Nat
        <5>1. TypeOK' BY <1>0, NextTypes
        <5> QED BY <1>0, <5>1, TextLengths, SMTT(30) DEF TypeOK
      <4>2. ASSUME ~ioError', NEW t \in TextFile, NEW i \in 1 .. Len(text'[t])
            PROVE  ~(i > Len(baseText[t]))
        BY <3>5, <4>1, <4>2
      <4> QED BY <2>3, <4>2 DEF TextTaken
    <3> QED BY <3>4, <3>6
  <2>6. CASE TakeSinks
    <3>1. /\ clearing' = "text" /\ cPath' = sessPath /\ cOff' = sessOff
          /\ UNCHANGED <<setting, cfgText, sessPath, sessOff, pc, path, text>>
      BY <2>6 DEF TakeSinks
    <3>2. OneTextFile' BY <2>2, <2>3, <3>1 DEF OneTextFile
    <3>3. TextTaken' BY <3>1 DEF TextTaken
    <3> QED BY <3>2, <3>3
  <2>7. ASSUME NEW w \in Worker,
               \/ \E m \in Msg : Accept(w, m)
               \/ Buffer(w) \/ RouteSinks(w) \/ Anchor(w) \/ WriteFile(w) \/ RecordSaved(w)
        PROVE  OneTextFile' /\ TextTaken'
    <3>1. /\ UNCHANGED <<setting, cfgText, text, clearing, cPath, cOff, ioError>>
          /\ overlapped \subseteq overlapped'
      BY <2>7 DEF Accept, Buffer, RouteSinks, Anchor, WriteFile, RecordSaved
    <3>2. UNCHANGED <<sessPath, sessOff>>
      <4>1. CASE Anchor(w)
        <5>1. path[w] = sessPath BY <2>2, <4>1 DEF Anchor, OneTextFile
        <5> QED BY <4>1, <5>1 DEF Anchor, SetTextFile
      <4>2. CASE ~Anchor(w)
        BY <2>7, <4>2 DEF Accept, Buffer, RouteSinks, WriteFile, RecordSaved
      <4> QED BY <4>1, <4>2
    <3>3. ASSUME NEW v \in Worker, pc'[v] \in {"anchor", "append"} PROVE path'[v] = sessPath
      <4>1. CASE RouteSinks(w) /\ v = w
        <5>1. path'[w] = cfgText
          BY <1>0, <3>3, <4>1 DEF RouteSinks, Finish, TypeOK
        <5> QED BY <2>2, <4>1, <5>1 DEF OneTextFile
      <4>2. CASE ~(RouteSinks(w) /\ v = w)
        <5>1. pc[v] \in {"anchor", "append"} /\ path'[v] = path[v]
          BY <1>0, <2>7, <3>3, <4>2
             DEF Accept, Buffer, RouteSinks, Anchor, WriteFile, RecordSaved, Finish, TypeOK
        <5> QED BY <2>2, <5>1 DEF OneTextFile
      <4> QED BY <4>1, <4>2
    <3> QED BY <2>2, <2>3, <3>1, <3>2, <3>3, TextUndisturbed
  <2>8. ASSUME NEW sc \in {"transient", "all"}, ClearBuffer(sc)
        PROVE  OneTextFile' /\ TextTaken'
    <3>1. /\ UNCHANGED <<setting, cfgText, sessPath, sessOff, text, pc, path>>
          /\ clearing' = "list"
      BY <2>8 DEF ClearBuffer
    <3>2. OneTextFile' BY <2>2, <2>3, <3>1 DEF OneTextFile
    <3>3. TextTaken' BY <3>1 DEF TextTaken
    <3> QED BY <3>2, <3>3
  <2>9. CASE ConfigAnchor BY <2>2, <2>9 DEF ConfigAnchor, OneTextFile
  <2>10. ASSUME NEW t \in SinkPath, ConfigSet(t) PROVE FALSE
    BY <1>0, <2>10 DEF ConfigSet, TypeOK
  <2>11. ASSUME \/ ListBlobs \/ RemoveBlobs \/ ClearDone
                \/ \E p \in Path : RemoveFile(p)
                \/ UNCHANGED vars
         PROVE  OneTextFile' /\ TextTaken'
    <3>1. /\ UNCHANGED <<setting, cfgText, sessPath, sessOff, text, pc, path, overlapped>>
          /\ clearing' \in {"text", "files"} =>
               clearing \in {"text", "files"} /\ UNCHANGED <<cPath, cOff>>
          /\ clearing' = "files" => clearing = "files"
          /\ ioError => ioError'
      BY <2>11 DEF ListBlobs, RemoveBlobs, ClearDone, RemoveFile
    <3>2. \A w \in Worker : pc'[w] \in {"anchor", "append"} => path'[w] = sessPath
      BY <2>2, <3>1 DEF OneTextFile
    <3> QED BY <2>2, <2>3, <3>1, <3>2, TextUndisturbed
  <2> QED BY <1>2, <2>4, <2>5, <2>6, <2>7, <2>8, <2>9, <2>10, <2>11 DEF Next
<1> QED BY <1>1, <1>2

\* The inductive invariant of the clear holds.
LEMMA ClearInvariant == Spec => []ClearInv
<1>1. Init => FileInv /\ TextInv
  <2> SUFFICES ASSUME Init PROVE FileInv /\ TextInv
    OBVIOUS
  <2>1. FileInv
    BY DEF Init, FileInv, ActiveOverlap, CopyWhileTaking, FilesRecorded, FilesTaken, Wrote
  <2>2. FirstText \in TextFile => fileSize(FirstText) = Len(text[FirstText])
    BY RoomStoreAssumption DEF fileSize
  <2>3. OneTextFile
    <3>1. /\ setting = "none" /\ cfgText = sessPath /\ sessPath = FirstText
          /\ sessOff = fileSize(FirstText) /\ clearing = "no" /\ baseText = text
          /\ \A w \in Worker : pc[w] = "idle"
      BY DEF Init
    <3> QED BY <2>2, <3>1 DEF OneTextFile
  <2>4. TextTaken BY DEF Init, TextTaken
  <2> QED BY <2>1, <2>3, <2>4 DEF TextInv
<1>2. FileInv /\ TextInv /\ StoreInv /\ [Next]_vars => FileInv' /\ TextInv'
  BY ActiveStep, CopyStep, RecordStep, TakenStep, TextTakenStep DEF ClearInv, FileInv
<1> QED BY <1>1, <1>2, StoreInvariant, PTL DEF Spec, ClearInv

\* For any number of ingests, workers, text files and sessions: when a clear
\* --all answers and no removal of the session failed, every whole file the
\* session saved is gone from save_dir and, unless text_file was reconfigured,
\* so is all the text it appended, except by ingests that overlapped the clear.
THEOREM ClearAllIsThorough == Spec => []ClearAllTakesBack
<1>1. ClearInv => ClearAllTakesBack
  <2> SUFFICES ASSUME ClearInv, AllCleared
               PROVE  /\ SessionFiles = {}
                      /\ configs = 0 => \A t \in TextFile : SessionText(t) = {}
    BY DEF ClearAllTakesBack
  <2>1. SessionFiles = {}
    BY DEF ClearInv, FileInv, FilesTaken, AllCleared, SessionFiles, Wrote
  <2>2. ASSUME configs = 0, NEW t \in TextFile PROVE SessionText(t) = {}
    <3>1. TextTaken /\ TypeOK BY <2>2 DEF ClearInv, TextInv, StoreInv
    <3>2. ASSUME NEW i \in Len(baseText[t]) + 1 .. Len(text[t])
          PROVE  text[t][i] \in overlapped
      <4>1. i \in 1 .. Len(text[t]) /\ i > Len(baseText[t])
        BY <3>1, TextLengths
      <4> QED BY <3>1, <4>1 DEF TextTaken, AllCleared
    <3> QED BY <3>2 DEF SessionText
  <2> QED BY <2>1, <2>2
<1> QED BY <1>1, ClearInvariant, PTL

=============================================================================
