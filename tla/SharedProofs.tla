---------------------------- MODULE SharedProofs ----------------------------
(***************************************************************************)
(* Proofs about the daemon and the chat TUI of the Go experiments: the     *)
(* shape of their state, that nothing from before a run is taken back,     *)
(* that a clear --all and a stop take back the rest, that no own item is   *)
(* received, and that the chat shows what was received, once.              *)
(***************************************************************************)
EXTENDS SharedTui, SequenceFacts, TLAPS

\* The sequences are sequences of envelopes, and the history has its shape.
Shapes ==
    /\ stream \in Seq(Msg) /\ bubbles \in Seq(Msg)
    /\ base.text \in [TextFile -> Seq(Text \cup {Old})] /\ base.disk \subseteq Image

\* No ingest is under way in a process that does not run, and an own envelope
\* is never in one; a received envelope is buffered, saved and handed on in
\* that order.
Flow ==
    /\ life = "down" => \A m \in Msg : pc[m] \in {"none", "done"}
    /\ \A m \in Own : pc[m] = "none"
    /\ \A m \in Text : pc[m] # "record"
    /\ \A m \in buffer \cup handed : pc[m] \notin {"none", "buffer"}
    /\ \A m \in disk : pc[m] \in {"record", "done"}

\* A text file has its old content first; its baseline, once recorded in a run,
\* is the length of that, and until then nothing was appended.  Whoever is
\* about to append has recorded the one of its file.
TextInv ==
    /\ \A t \in TextFile :
        /\ Len(base.text[t]) <= Len(text[t])
        /\ SubSeq(text[t], 1, Len(base.text[t])) = base.text[t]
        /\ baseline[t] \in {-1, Len(base.text[t])}
        /\ baseline[t] = -1 => text[t] = base.text[t]
    /\ \A m \in Text : pc[m] = "append" => baseline[into[m]] # -1

\* A file written in this run is recorded or about to be, or its write or its
\* removal has failed.
FileInv ==
    /\ base.disk \subseteq disk /\ saved \cap base.disk = {}
    /\ \A m \in saved : pc[m] = "done"
    /\ \A m \in Msg : pc[m] = "record" => m \in disk \ base.disk
    /\ \A m \in disk \ base.disk : m \in saved \/ pc[m] = "record" \/ m \in keptSinks

\* Once the exit policy is applied, every ingest under way is a late one.
LateInv == life = "exited" => \A m \in Msg : pc[m] \notin {"none", "done"} => m \in late

\* What the chat shows and what is on its way to it are different items, and
\* what still has to be offered is in neither.
ChatInv ==
    /\ IsInjective(bubbles) /\ IsInjective(stream)
    /\ Range(bubbles) \cap Range(stream) = {}
    /\ Range(stream) \subseteq handed /\ Range(bubbles) \ Own \subseteq handed
    /\ \A m \in Range(bubbles) \cup Range(stream) : pc[m] # "notify"
    /\ sub = "off" => handed = {}
    /\ sub = "live" => handed \subseteq Range(bubbles) \cup Range(stream) \cup dropped
                                          \cup {m \in Msg : pc[m] = "notify"}

Typed == TypeOK /\ Shapes /\ Flow /\ TextInv
-----------------------------------------------------------------------------
\* The parts of TypeOK that are not about sequences.
PlainTypes ==
    /\ life \in {"down", "run", "stopping", "exited"}
    /\ policy \in Policy \cup {""}
    /\ sent \subseteq Own /\ seen \subseteq Msg
    /\ pc \in [Msg -> {"none", "buffer", "notify", "sink", "append", "record", "done"}]
    /\ into \in [Text -> TextFile] /\ buffer \subseteq Msg
    /\ saved \subseteq Image /\ blobs \subseteq Image /\ disk \subseteq Image
    /\ sub \in {"off", "live", "closed"}
    /\ cfgText \in TextFile /\ cfgFile \in TextFile
    /\ keptSinks \subseteq Text \cup Image \cup {Old} /\ keptBlobs \subseteq Image
    /\ late \subseteq Msg /\ since \subseteq Msg /\ handed \subseteq Msg /\ dropped \subseteq handed
    /\ runs \in 0 .. MaxRuns /\ configs \in 0 .. MaxConfig
    /\ tui \in {"off", "on", "prompt", "quit"}

TextTypes ==
    /\ baseline \in [TextFile -> Nat \cup {-1}]
    /\ text \in [TextFile -> Seq(Text \cup {Old})]
    /\ base.text \in [TextFile -> Seq(Text \cup {Old})] /\ base.disk \subseteq Image

SeqTypes ==
    /\ stream \in Seq(Msg) /\ bubbles \in Seq(Msg)
    /\ Len(stream) <= StreamCap

LEMMA BumpWithin ==
    ASSUME NEW n \in Nat, NEW k \in 0 .. n, k < n PROVE k + 1 \in 0 .. n
OBVIOUS

LEMMA TypedParts ==
    Typed <=> PlainTypes /\ TextTypes /\ SeqTypes /\ Flow /\ TextInv
BY RangeOfSeq, Zenon DEF Typed, TypeOK, DaemonTypeOK, Shapes, PlainTypes, TextTypes, SeqTypes, Flow

\* What a run appended are entries of a text file.
LEMMA AppendedTyped ==
    ASSUME TextTypes, NEW t \in TextFile PROVE Appended(t) \subseteq Text \cup {Old}
<1> DEFINE T == Text \cup {Old}
<1>1. text[t] \in Seq(T) /\ base.text[t] \in Seq(T)
  BY DEF TextTypes
<1>2. Len(text[t]) \in Nat /\ Len(base.text[t]) \in Nat
        /\ \A i \in 1 .. Len(text[t]) : text[t][i] \in T
  BY <1>1, LenProperties, ElementOfSeq
<1>3. \A i \in Len(base.text[t]) + 1 .. Len(text[t]) : i \in 1 .. Len(text[t])
  BY <1>2
<1> QED
  BY <1>2, <1>3 DEF Appended

\* A clear keeps the types of what it touches.
LEMMA ClearTyped ==
    ASSUME PlainTypes, TextTypes, NEW all \in BOOLEAN, Clear(all)
    PROVE  /\ blobs' \subseteq Image /\ disk' \subseteq Image /\ saved' \subseteq Image
           /\ since' \subseteq Msg /\ buffer' = {}
           /\ keptSinks' \subseteq Text \cup Image \cup {Old}
<1>1. blobs' \subseteq Image /\ buffer' = {}
  BY DEF Clear, ClearTransient, PlainTypes
<1>2. CASE ~all
  BY <1>1, <1>2 DEF Clear, PlainTypes
<1>3. CASE ClearSinks
  <2>1. PICK F \in SUBSET TextFile, G \in SUBSET saved :
          /\ disk' = disk \ (saved \ G) /\ saved' = {}
          /\ since' = {m \in Msg : pc[m] = "record"}
          /\ keptSinks' = (keptSinks \cap Image) \cup G \cup UNION {Appended(t) : t \in F}
    BY <1>3 DEF ClearSinks
  <2>2. UNION {Appended(t) : t \in F} \subseteq Text \cup {Old}
    BY AppendedTyped
  <2> QED
    BY <1>1, <2>1, <2>2 DEF PlainTypes
<1> QED
  BY <1>2, <1>3 DEF Clear

LEMMA NextPlain ==
    ASSUME PlainTypes, TextTypes, Flow, [Next]_vars PROVE PlainTypes'
<1> USE SharedAssumption DEF PlainTypes, procVars, subVars, diskVars, cfgVars, histVars,
                             memVars, tvars, Msg
<1>1. CASE UNCHANGED vars
  BY <1>1 DEF vars, dvars
<1>2. ASSUME Run, UNCHANGED tvars PROVE PlainTypes'
  <2>1. runs' \in 0 .. MaxRuns
    <3>1. runs \in 0 .. MaxRuns /\ runs < MaxRuns /\ runs' = runs + 1 /\ MaxRuns \in Nat
      BY <1>2 DEF Run
    <3> QED
      BY <3>1, BumpWithin, Zenon
  <2> QED
    BY <1>2, <2>1 DEF Run
<1>3. ASSUME Exit, UNCHANGED tvars PROVE PlainTypes'
  <2>1. /\ blobs' \subseteq Image /\ disk' \subseteq Image /\ saved' \subseteq Image
        /\ since' \subseteq Msg /\ buffer' \subseteq Msg
        /\ keptSinks' \subseteq Text \cup Image \cup {Old}
    BY <1>3, ClearTyped DEF Exit
  <2> QED
    BY <1>3, <2>1 DEF Exit
<1>4. ASSUME ProcessEnds, UNCHANGED tvars PROVE PlainTypes'
  BY <1>4 DEF ProcessEnds
<1>5. ASSUME NEW m \in Msg, HandleSend(m), UNCHANGED <<tui>> PROVE PlainTypes'
  BY <1>5 DEF HandleSend, Seen
<1>6. ASSUME NEW m \in Msg, Ingest(m), UNCHANGED tvars PROVE PlainTypes'
  <2>1. seen' \subseteq Msg /\ late' \subseteq Msg
    BY <1>6 DEF Ingest, Seen
  <2>2. blobs' \subseteq Image
    <3>1. blobs' \in {blobs, blobs \cup ({m} \cap Image)}
      <4>1. CASE m \in Image
        <5>1. {m} \cap Image = {m}
          BY <4>1
        <5> QED
          BY <1>6, <5>1 DEF Ingest
      <4>2. CASE m \notin Image
        BY <1>6, <4>2 DEF Ingest
      <4> QED
        BY <4>1, <4>2
    <3>2. blobs \subseteq Image
      OBVIOUS
    <3> QED
      BY <3>1, <3>2, Zenon
  <2>3. pc' \in {pc, [pc EXCEPT ![m] = "buffer"], [pc EXCEPT ![m] = "done"]}
    BY <1>6 DEF Ingest
  <2>4. pc' \in [Msg -> {"none", "buffer", "notify", "sink", "append", "record", "done"}]
    BY <2>3
  <2> QED
    BY <1>6, <2>1, <2>2, <2>4 DEF Ingest
<1>7. ASSUME NEW m \in Msg, Buffer(m), UNCHANGED tvars PROVE PlainTypes'
  BY <1>7 DEF Buffer
<1>8. ASSUME NEW m \in Msg, Notify(m), UNCHANGED tvars PROVE PlainTypes'
  BY <1>8 DEF Notify
<1>9. ASSUME NEW m \in Msg, RouteText(m) \/ AppendTextFile(m), UNCHANGED tvars PROVE PlainTypes'
  <2>1. CASE RouteText(m)
    BY <2>1, <1>9 DEF RouteText
  <2>2. CASE AppendTextFile(m)
    BY <2>2, <1>9 DEF AppendTextFile
  <2> QED
    BY <1>9, <2>1, <2>2
<1>10. ASSUME NEW m \in Msg, SaveToDir(m), UNCHANGED tvars PROVE PlainTypes'
  <2>1. /\ disk' \subseteq Image /\ since' \subseteq Msg
        /\ keptSinks' \subseteq Text \cup Image \cup {Old}
        /\ pc' \in [Msg -> {"none", "buffer", "notify", "sink", "append", "record", "done"}]
    BY <1>10 DEF SaveToDir
  <2> QED
    BY <1>10, <2>1 DEF SaveToDir
<1>11. ASSUME NEW m \in Msg, RecordSaved(m), UNCHANGED tvars PROVE PlainTypes'
  <2>1. m \in Image
    BY <1>11 DEF RecordSaved, Flow
  <2> QED
    BY <1>11, <2>1 DEF RecordSaved
<1>13. ASSUME NEW all \in BOOLEAN, HandleClear(all), UNCHANGED tvars PROVE PlainTypes'
  BY <1>13, ClearTyped DEF HandleClear
<1>14. ASSUME NEW t \in TextFile, HandleConfigSet(t), UNCHANGED tvars PROVE PlainTypes'
  <2>1. configs' \in 0 .. MaxConfig
    <3>1. configs \in 0 .. MaxConfig /\ configs < MaxConfig /\ configs' = configs + 1
            /\ MaxConfig \in Nat
      BY <1>14 DEF HandleConfigSet, SetKey
    <3> QED
      BY <3>1, BumpWithin, Zenon
  <2> QED
    BY <1>14, <2>1 DEF HandleConfigSet, SetKey
<1>15. ASSUME NEW q \in Policy \cup {""}, HandleDaemonStop(q), UNCHANGED tvars PROVE PlainTypes'
  BY <1>15 DEF HandleDaemonStop
<1>16. ASSUME Open PROVE PlainTypes'
  BY <1>16 DEF Open, HandleSubscribe
<1>17. ASSUME ShowItem PROVE PlainTypes'
  BY <1>17 DEF ShowItem
<1>18. ASSUME RequestQuit PROVE PlainTypes'
  BY <1>18 DEF RequestQuit, Leave
<1>19. ASSUME NEW m \in Own, Enter(m) PROVE PlainTypes'
  <2>1. CASE HandleSend(m)
    BY <1>5, <1>19, <2>1 DEF Enter
  <2>2. CASE UNCHANGED dvars
    BY <1>19, <2>2 DEF Enter, dvars
  <2> QED
    BY <1>19, <2>1, <2>2 DEF Enter
<1>21. ASSUME NEW key, Answer(key) PROVE PlainTypes'
  <2>1. /\ blobs' \subseteq Image /\ disk' \subseteq Image /\ saved' \subseteq Image
        /\ since' \subseteq Msg /\ buffer' \subseteq Msg
        /\ keptSinks' \subseteq Text \cup Image \cup {Old}
    BY <1>21, ClearTyped DEF Answer
  <2>2. /\ tui' \in {"on", "quit"} /\ sub' \in {sub, "closed"}
        /\ handed' \subseteq Msg /\ dropped' \subseteq handed'
    BY <1>21 DEF Answer, Leave
  <2> QED
    BY <1>21, <2>1, <2>2 DEF Answer
<1> QED
  BY <1>1, <1>2, <1>3, <1>4, <1>5, <1>6, <1>7, <1>8, <1>9, <1>10, <1>11, <1>13, <1>14,
     <1>15, <1>16, <1>17, <1>18, <1>19, <1>21
     DEF Next, IngestStep, CmdClear, Quit, Crash
-----------------------------------------------------------------------------
\* What a step does to the text files and their baselines.
LEMMA TextView ==
    ASSUME PlainTypes, [Next]_vars
    PROVE  \/ Run
           \/ \E m \in Text : RouteText(m) \/ AppendTextFile(m)
           \/ \E t \in TextFile : HandleConfigSet(t)
           \/ ProcessEnds
           \/ ClearSinks /\ UNCHANGED <<baseline, base, into, pc>>
           \/ /\ UNCHANGED <<text, baseline, base, into>>
              /\ \A m \in Msg : pc'[m] = "append" => pc[m] = "append"
<1> USE DEF procVars, subVars, diskVars, cfgVars, histVars, memVars, tvars, dvars
<1> DEFINE Keeps == /\ UNCHANGED <<text, baseline, base, into>>
                    /\ \A m \in Msg : pc'[m] = "append" => pc[m] = "append"
           Clears == ClearSinks /\ UNCHANGED <<baseline, base, into, pc>>
<1>0. pc \in [Msg -> {"none", "buffer", "notify", "sink", "append", "record", "done"}]
  BY DEF PlainTypes
<1>1. ASSUME NEW m \in Msg,
             HandleSend(m) \/ Ingest(m) \/ Buffer(m) \/ Notify(m) \/ SaveToDir(m) \/ RecordSaved(m)
      PROVE  Keeps
  BY <1>0, <1>1 DEF HandleSend, Ingest, Buffer, Notify, SaveToDir, RecordSaved
<1>2. ASSUME Exit PROVE Keeps \/ Clears
  BY <1>2 DEF Exit, Clear
<1>3. ASSUME NEW all \in BOOLEAN, HandleClear(all) PROVE Keeps \/ Clears
  BY <1>3 DEF HandleClear, Clear
<1>4. ASSUME NEW q, HandleDaemonStop(q) PROVE Keeps
  BY <1>4 DEF HandleDaemonStop
<1>5. ASSUME Open \/ ShowItem \/ RequestQuit PROVE Keeps
  BY <1>5 DEF Open, HandleSubscribe, ShowItem, RequestQuit
<1>6. ASSUME NEW m \in Own, Enter(m) PROVE Keeps
  BY <1>1, <1>6 DEF Enter, Msg
<1>8. ASSUME NEW key, Answer(key) PROVE Keeps \/ Clears
  BY <1>8 DEF Answer, Clear
<1>9. CASE UNCHANGED vars
  BY <1>9 DEF vars
<1>10. \A m \in Msg : RouteText(m) \/ AppendTextFile(m) => m \in Text
  BY DEF RouteText, AppendTextFile
<1> QED
  BY <1>1, <1>2, <1>3, <1>4, <1>5, <1>6, <1>8, <1>9, <1>10
     DEF Next, IngestStep, CmdClear, Quit, Crash

\* Recording a baseline: unless there is one already, the length of the file.
LEMMA Recorded ==
    ASSUME TextTypes, NEW t \in TextFile, RecordTextBaseline(t)
    PROVE  /\ baseline' \in [TextFile -> Nat \cup {-1}]
           /\ baseline'[t] = IF baseline[t] = -1 THEN Len(text[t]) ELSE baseline[t]
           /\ \A u \in TextFile \ {t} : baseline'[u] = baseline[u]
           /\ Len(text[t]) \in Nat
<1>1. text[t] \in Seq(Text \cup {Old}) /\ baseline \in [TextFile -> Nat \cup {-1}]
  BY DEF TextTypes
<1>2. Len(text[t]) \in Nat
  BY <1>1, LenProperties
<1> QED
  BY <1>1, <1>2 DEF RecordTextBaseline

\* A clear --all leaves a text file alone, when its truncation fails, or cuts
\* it back to what it held when the run began.
LEMMA CutBack ==
    ASSUME TextTypes, TextInv, NEW F \in SUBSET TextFile,
           text' = [t \in TextFile |-> IF baseline[t] = -1 \/ t \in F THEN text[t]
                                       ELSE SubSeq(text[t], 1, baseline[t])]
    PROVE  /\ text' \in [TextFile -> Seq(Text \cup {Old})]
           /\ \A t \in TextFile : text'[t] = IF t \in F THEN text[t] ELSE base.text[t]
<1>1. ASSUME NEW t \in TextFile
      PROVE  text'[t] = IF t \in F THEN text[t] ELSE base.text[t]
  <2>1. baseline[t] # -1 => SubSeq(text[t], 1, baseline[t]) = base.text[t]
    BY DEF TextInv
  <2>2. baseline[t] = -1 => text[t] = base.text[t]
    BY DEF TextInv
  <2> QED
    BY <2>1, <2>2
<1>2. \A t \in TextFile : text'[t] \in Seq(Text \cup {Old})
  BY <1>1 DEF TextTypes
<1> QED
  BY <1>1, <1>2

\* Recording a baseline keeps the invariant of the text files and takes no
\* baseline back.
LEMMA RecordKeeps ==
    ASSUME TextTypes, TextInv, text' = text, base' = base,
           NEW u \in TextFile, RecordTextBaseline(u) \/ baseline' = baseline
    PROVE  /\ TextTypes'
           /\ \A t \in TextFile :
                 /\ Len(base'.text[t]) <= Len(text'[t])
                 /\ SubSeq(text'[t], 1, Len(base'.text[t])) = base'.text[t]
                 /\ baseline'[t] \in {-1, Len(base'.text[t])}
                 /\ baseline'[t] = -1 => text'[t] = base'.text[t]
           /\ \A t \in TextFile : baseline[t] # -1 => baseline'[t] # -1
           /\ RecordTextBaseline(u) => baseline'[u] # -1
<1>1. baseline' \in [TextFile -> Nat \cup {-1}]
  BY Recorded DEF TextTypes
<1>2. \A t \in TextFile : \/ baseline'[t] = baseline[t]
                          \/ baseline[t] = -1 /\ baseline'[t] = Len(text[t])
  BY Recorded
<1>3. \A t \in TextFile : baseline[t] = -1 => Len(text[t]) = Len(base.text[t])
  BY DEF TextInv
<1>4. RecordTextBaseline(u) => baseline'[u] # -1
  BY Recorded
<1>5. TextTypes'
  BY <1>1 DEF TextTypes
<1> QED
  BY <1>2, <1>3, <1>4, <1>5 DEF TextInv

LEMMA NextText ==
    ASSUME PlainTypes, PlainTypes', TextTypes, TextInv, Flow, [Next]_vars
    PROVE  TextTypes' /\ TextInv'
<1> DEFINE T == Text \cup {Old}
<1>0. /\ baseline \in [TextFile -> Nat \cup {-1}]
      /\ text \in [TextFile -> Seq(T)] /\ base.text \in [TextFile -> Seq(T)]
      /\ base.disk \subseteq Image
  BY DEF TextTypes
<1>n. \A t \in TextFile : Len(text[t]) \in Nat /\ Len(base.text[t]) \in Nat
  BY <1>0, LenProperties
<1>p. /\ pc \in [Msg -> {"none", "buffer", "notify", "sink", "append", "record", "done"}]
      /\ into \in [Text -> TextFile] /\ cfgText \in TextFile /\ Text \subseteq Msg
  BY DEF PlainTypes, Msg
<1> HIDE DEF T
<1>1. CASE Run
  <2>1. /\ base' = base /\ text' = text /\ UNCHANGED <<pc, into>>
        /\ RecordTextBaseline(cfgText)
    BY <1>1 DEF Run, diskVars, histVars
  <2> QED
    BY <1>p, <2>1, RecordKeeps DEF TextInv
<1>2. ASSUME NEW m \in Text, AppendTextFile(m) PROVE TextTypes' /\ TextInv'
  <2> DEFINE u == into[m]
  <2>1. /\ base' = base /\ baseline' = baseline /\ into' = into
        /\ u \in TextFile /\ m \in T
        /\ text' = text \/ text' = [text EXCEPT ![u] = Append(@, m)]
        /\ pc[m] = "append" /\ \A x \in Text : pc'[x] = "append" => pc[x] = "append"
    BY <1>2, <1>p DEF AppendTextFile, T
  <2>2. baseline[u] # -1
    BY <2>1 DEF TextInv
  <2> HIDE DEF u
  <2>3. Append(text[u], m) \in Seq(T) /\ Len(Append(text[u], m)) = Len(text[u]) + 1
    BY <1>0, <2>1, AppendProperties
  <2>4. TextTypes'
    <3>1. text' \in [TextFile -> Seq(T)]
      BY <1>0, <2>1, <2>3
    <3> QED
      BY <1>0, <2>1, <3>1 DEF TextTypes, T
  <2>6. ASSUME NEW t \in TextFile
        PROVE  /\ Len(base.text[t]) <= Len(text'[t])
               /\ SubSeq(text'[t], 1, Len(base.text[t])) = base.text[t]
               /\ t # u => text'[t] = text[t]
    <3>1. CASE text'[t] = text[t]
      BY <3>1 DEF TextInv
    <3>2. CASE t = u /\ text'[t] = Append(text[t], m)
      <4>1. Len(base.text[t]) \in 0..Len(text[t])
        BY <1>n DEF TextInv
      <4>2. SubSeq(Append(text[t], m), 1, Len(base.text[t]))
              = SubSeq(text[t], 1, Len(base.text[t]))
        BY <1>0, <2>1, <4>1, PrefixAppend
      <4>3. Len(base.text[t]) <= Len(text[t]) + 1
        BY <1>n, <4>1
      <4> QED
        BY <2>3, <3>2, <4>2, <4>3 DEF TextInv
    <3> QED
      BY <1>0, <2>1, <3>1, <3>2
  <2>7. TextInv'
    BY <2>1, <2>2, <2>6 DEF TextInv
  <2> QED
    BY <2>4, <2>7
<1>3. ASSUME NEW m \in Text, RouteText(m) PROVE TextTypes' /\ TextInv'
  <2>1. /\ base' = base /\ text' = text /\ RecordTextBaseline(cfgText)
        /\ into'[m] = cfgText
        /\ \A x \in Text \ {m} : into'[x] = into[x] /\ pc'[x] = pc[x]
    BY <1>3, <1>p DEF RouteText, diskVars, histVars
  <2> QED
    BY <1>p, <2>1, RecordKeeps DEF TextInv
<1>4. ASSUME NEW u \in TextFile, HandleConfigSet(u) PROVE TextTypes' /\ TextInv'
  <2>1. /\ base' = base /\ text' = text /\ UNCHANGED <<pc, into>>
        /\ RecordTextBaseline(u) \/ baseline' = baseline
    BY <1>4 DEF HandleConfigSet, diskVars, histVars
  <2> QED
    BY <1>p, <2>1, RecordKeeps DEF TextInv
<1>5. CASE ProcessEnds
  <2>1. /\ base'.text = text /\ base'.disk = disk /\ text' = text
        /\ baseline' = [t \in TextFile |-> -1]
        /\ \A m \in Text : pc'[m] # "append"
    BY <1>5, <1>p DEF ProcessEnds, diskVars
  <2>2. \A t \in TextFile : SubSeq(text[t], 1, Len(text[t])) = text[t]
    BY <1>0, PrefixWhole
  <2>3. TextTypes'
    BY <1>0, <2>1 DEF TextTypes, T, PlainTypes
  <2>4. TextInv'
    BY <1>n, <2>1, <2>2 DEF TextInv
  <2> QED
    BY <2>3, <2>4
<1>6. CASE ClearSinks /\ UNCHANGED <<baseline, base, into, pc>>
  <2>1. PICK F \in SUBSET TextFile :
          text' = [t \in TextFile |-> IF baseline[t] = -1 \/ t \in F THEN text[t]
                                      ELSE SubSeq(text[t], 1, baseline[t])]
    BY <1>6 DEF ClearSinks
  <2>2. /\ text' \in [TextFile -> Seq(T)]
        /\ \A t \in TextFile : text'[t] = IF t \in F THEN text[t] ELSE base.text[t]
    BY <2>1, CutBack DEF T
  <2>3. \A t \in TextFile : SubSeq(base.text[t], 1, Len(base.text[t])) = base.text[t]
    BY <1>0, PrefixWhole
  <2>4. TextTypes'
    BY <1>0, <1>6, <2>2 DEF TextTypes, T
  <2>5. ASSUME NEW t \in TextFile
        PROVE  /\ Len(base.text[t]) <= Len(text'[t])
               /\ SubSeq(text'[t], 1, Len(base.text[t])) = base.text[t]
               /\ baseline[t] = -1 => text'[t] = base.text[t]
    BY <1>n, <2>2, <2>3 DEF TextInv
  <2>6. TextInv'
    BY <1>6, <2>5 DEF TextInv
  <2> QED
    BY <2>4, <2>6
<1>7. CASE /\ UNCHANGED <<text, baseline, base, into>>
           /\ \A m \in Msg : pc'[m] = "append" => pc[m] = "append"
  BY <1>p, <1>7 DEF TextTypes, TextInv
<1> QED
  BY <1>1, <1>2, <1>3, <1>4, <1>5, <1>6, <1>7, TextView
-----------------------------------------------------------------------------
\* A step other than those of an ingest and the end of the process leaves the
\* ingests, the buffer up to a clear, and the process running or not, and no
\* file appears.
LEMMA IngestView ==
    ASSUME PlainTypes, [Next]_vars
    PROVE  \/ \E m \in Msg : Ingest(m) \/ IngestStep(m)
           \/ ProcessEnds
           \/ /\ UNCHANGED pc /\ buffer' \in {buffer, {}} /\ disk' \subseteq disk
              /\ handed' \in {handed, {}}
              /\ life' = "down" => life = "down"
<1> USE DEF procVars, subVars, diskVars, cfgVars, histVars, memVars, tvars, dvars
<1> DEFINE Keeps ==
             /\ UNCHANGED pc /\ buffer' \in {buffer, {}} /\ disk' \subseteq disk
             /\ handed' \in {handed, {}}
             /\ life' = "down" => life = "down"
<1>1. ASSUME NEW m, HandleSend(m) PROVE Keeps
  BY <1>1 DEF HandleSend
<1>2. ASSUME NEW all, Clear(all)
      PROVE  buffer' \in {buffer, {}} /\ disk' \subseteq disk
  BY <1>2 DEF Clear, ClearTransient, ClearSinks
<1>3. ASSUME Exit PROVE Keeps
  BY <1>2, <1>3 DEF Exit
<1>4. ASSUME NEW all \in BOOLEAN, HandleClear(all) PROVE Keeps
  BY <1>2, <1>4 DEF HandleClear
<1>5. ASSUME NEW q, HandleDaemonStop(q) PROVE Keeps
  BY <1>5 DEF HandleDaemonStop
<1>6. ASSUME Run \/ Open \/ ShowItem \/ RequestQuit PROVE Keeps
  BY <1>6 DEF Run, Open, HandleSubscribe, ShowItem, RequestQuit, Leave
<1>7. ASSUME NEW m \in Own, Enter(m) PROVE Keeps
  BY <1>1, <1>7 DEF Enter
<1>9. ASSUME NEW key, Answer(key) PROVE Keeps
  BY <1>2, <1>9 DEF Answer, Leave
<1>10. ASSUME NEW t, HandleConfigSet(t) PROVE Keeps
  BY <1>10 DEF HandleConfigSet
<1>11. CASE UNCHANGED vars
  BY <1>11 DEF vars
<1> QED
  BY <1>1, <1>3, <1>4, <1>5, <1>6, <1>7, <1>9, <1>10, <1>11
     DEF Next, CmdClear, Quit, Crash

LEMMA NextFlow ==
    ASSUME PlainTypes, Flow, [Next]_vars PROVE Flow'
<1> USE SharedAssumption DEF procVars, subVars, diskVars, cfgVars, histVars, memVars
<1>0. /\ pc \in [Msg -> {"none", "buffer", "notify", "sink", "append", "record", "done"}]
      /\ buffer \subseteq Msg /\ handed \subseteq Msg /\ disk \subseteq Msg
  BY DEF PlainTypes, Msg
<1>1. ASSUME NEW m \in Msg, Ingest(m) PROVE Flow'
  <2>1. /\ life # "down" /\ UNCHANGED <<life, buffer, handed, disk>>
        /\ \/ UNCHANGED pc
           \/ /\ pc[m] = "none" /\ m \notin Own
              /\ \E v \in {"buffer", "done"} : pc' = [pc EXCEPT ![m] = v]
    BY <1>1 DEF Ingest, Msg, Alive
  <2>2. CASE UNCHANGED pc
    BY <2>1, <2>2 DEF Flow
  <2>3. ASSUME NEW v \in {"buffer", "done"}, pc[m] = "none", m \notin Own,
               pc' = [pc EXCEPT ![m] = v]
        PROVE  Flow'
    <3>1. m \notin buffer \cup handed /\ m \notin disk
      BY <2>3 DEF Flow
    <3>2. pc'[m] = v /\ \A x \in Msg \ {m} : pc'[x] = pc[x]
      BY <1>0, <2>3
    <3> QED
      BY <1>0, <2>1, <2>3, <3>1, <3>2 DEF Flow, Msg
  <2> QED
    BY <2>1, <2>2, <2>3
<1>2. ASSUME NEW m \in Msg, Buffer(m) PROVE Flow'
  <2>1. /\ life # "down" /\ UNCHANGED <<life, disk>> /\ pc[m] = "buffer"
        /\ buffer' = buffer \cup {m} /\ handed' \subseteq handed \cup {m}
        /\ pc'[m] = "notify" /\ \A x \in Msg \ {m} : pc'[x] = pc[x]
    BY <1>0, <1>2 DEF Buffer, Alive
  <2>2. m \notin disk /\ m \notin Own
    BY <2>1 DEF Flow
  <2> QED
    BY <1>0, <2>1, <2>2 DEF Flow, Msg
<1>3. ASSUME NEW m \in Msg, Notify(m) \/ RouteText(m) \/ AppendTextFile(m) \/ RecordSaved(m)
      PROVE  Flow'
  <2>1. /\ life # "down" /\ UNCHANGED <<life, buffer, handed, disk>>
        /\ pc[m] \in {"notify", "sink", "append", "record"}
        /\ pc'[m] \in {"sink", "append", "done"} /\ \A x \in Msg \ {m} : pc'[x] = pc[x]
        /\ pc[m] = "record" => pc'[m] = "done"
    BY <1>0, <1>3 DEF Notify, RouteText, AppendTextFile, RecordSaved, Alive
  <2> QED
    BY <1>0, <2>1 DEF Flow, Msg
<1>4. ASSUME NEW m \in Msg, SaveToDir(m) PROVE Flow'
  <2>1. /\ life # "down" /\ UNCHANGED <<life, buffer, handed>> /\ m \in Image
        /\ pc[m] = "sink" /\ disk' \subseteq disk \cup {m}
        /\ pc'[m] \in {"record", "done"} /\ \A x \in Msg \ {m} : pc'[x] = pc[x]
    BY <1>0, <1>4 DEF SaveToDir, Alive
  <2>2. m \notin Own /\ m \notin Text
    BY <2>1
  <2> QED
    BY <1>0, <2>1, <2>2 DEF Flow, Msg
<1>5. CASE ProcessEnds
  <2>1. /\ life' = "down" /\ buffer' = {} /\ UNCHANGED <<handed, disk>>
        /\ \A m \in Msg : pc'[m] = IF pc[m] = "none" THEN "none" ELSE "done"
    BY <1>5 DEF ProcessEnds
  <2> QED
    BY <1>0, <2>1 DEF Flow, Msg
<1>6. CASE /\ UNCHANGED pc /\ buffer' \in {buffer, {}} /\ disk' \subseteq disk
           /\ handed' \in {handed, {}}
           /\ life' = "down" => life = "down"
  BY <1>6 DEF Flow
<1> QED
  BY <1>1, <1>2, <1>3, <1>4, <1>5, <1>6, IngestView DEF IngestStep
-----------------------------------------------------------------------------
\* What a step does to the chat and to the items on their way to it.
LEMMA ChannelView ==
    ASSUME [Next]_vars
    PROVE  \/ UNCHANGED <<stream, bubbles>> \/ (stream' = <<>> /\ bubbles' = <<>>)
           \/ \E m \in Msg : Notify(m) /\ UNCHANGED tvars
           \/ ShowItem
           \/ \E m \in Own : Enter(m) /\ UNCHANGED stream
<1> USE DEF procVars, subVars, diskVars, cfgVars, histVars, memVars, tvars, dvars
<1> DEFINE Keeps == UNCHANGED stream
<1>1. ASSUME NEW m, HandleSend(m) \/ Ingest(m) \/ Buffer(m) \/ RouteText(m)
                      \/ AppendTextFile(m) \/ SaveToDir(m) \/ RecordSaved(m)
      PROVE  Keeps
  BY <1>1 DEF HandleSend, Ingest, Buffer, RouteText, AppendTextFile, SaveToDir, RecordSaved
<1>2. ASSUME Run \/ Exit \/ ProcessEnds PROVE Keeps
  BY <1>2 DEF Run, Exit, ProcessEnds
<1>3. ASSUME NEW x, HandleClear(x) \/ HandleConfigSet(x) \/ HandleDaemonStop(x) PROVE Keeps
  BY <1>3 DEF HandleClear, HandleConfigSet, HandleDaemonStop
<1>4. ASSUME Open PROVE UNCHANGED <<stream, bubbles>>
  BY <1>4 DEF Open, HandleSubscribe
<1>5. ASSUME NEW m \in Own, Enter(m) PROVE Keeps
  BY <1>1, <1>5 DEF Enter
<1>7. ASSUME NEW key, RequestQuit \/ Answer(key)
      PROVE  UNCHANGED <<stream, bubbles>> \/ (stream' = <<>> /\ bubbles' = <<>>)
  BY <1>7 DEF RequestQuit, Answer, Leave
<1>8. CASE UNCHANGED vars
  BY <1>8 DEF vars
<1> QED
  BY <1>1, <1>2, <1>3, <1>4, <1>5, <1>7, <1>8
     DEF Next, IngestStep, CmdClear, Quit, Crash

LEMMA NextSeq ==
    ASSUME PlainTypes, SeqTypes, Flow, [Next]_vars PROVE SeqTypes'
<1> USE SharedAssumption
<1>0. /\ stream \in Seq(Msg) /\ bubbles \in Seq(Msg)
      /\ Len(stream) \in Nat /\ Len(stream) <= StreamCap
      /\ Own \subseteq Msg
  BY LenProperties DEF SeqTypes, Msg
<1>e. <<>> \in Seq(Msg) /\ Len(<<>>) <= StreamCap
  OBVIOUS
<1>2. ASSUME NEW m \in Msg, Notify(m)
      PROVE  stream' \in Seq(Msg) /\ Len(stream') <= StreamCap
  <2>1. stream' = stream \/ (Len(stream) < StreamCap /\ stream' = Append(stream, m))
    BY <1>2 DEF Notify
  <2>2. Append(stream, m) \in Seq(Msg) /\ Len(Append(stream, m)) = Len(stream) + 1
    BY <1>0, AppendProperties
  <2>3. Len(stream) < StreamCap => Len(stream) + 1 <= StreamCap
    BY <1>0
  <2> QED
    BY <1>0, <2>1, <2>2, <2>3
<1>3. ASSUME ShowItem
      PROVE  /\ stream' \in Seq(Msg) /\ Len(stream') <= StreamCap
             /\ Head(stream) \in Msg /\ bubbles' = Append(bubbles, Head(stream))
  <2>1. stream # <<>> /\ stream' = Tail(stream) /\ bubbles' = Append(bubbles, Head(stream))
    BY <1>3 DEF ShowItem, AppendBubble
  <2>2. Head(stream) \in Msg /\ Tail(stream) \in Seq(Msg) /\ Len(Tail(stream)) = Len(stream) - 1
    BY <1>0, <2>1, HeadTailProperties
  <2>3. Len(stream) - 1 <= StreamCap
    BY <1>0
  <2> QED
    BY <2>1, <2>2, <2>3
<1>4. stream' \in Seq(Msg) /\ Len(stream') <= StreamCap
  BY <1>0, <1>e, <1>2, <1>3, ChannelView, Zenon
<1>5. bubbles' \in Seq(Msg)
  <2>1. \A m \in Msg : Append(bubbles, m) \in Seq(Msg)
    BY <1>0, AppendProperties
  <2>2. \A m \in Own : Enter(m) => bubbles' = Append(bubbles, m)
    BY DEF Enter, AppendBubble
  <2>3. UNCHANGED tvars => bubbles' = bubbles
    BY DEF tvars
  <2> QED
    BY <1>0, <1>e, <1>3, <2>1, <2>2, <2>3, ChannelView, Zenon
<1> QED
  BY <1>4, <1>5 DEF SeqTypes
-----------------------------------------------------------------------------
LEMMA InitTyped == Init => Typed
<1> SUFFICES ASSUME Init PROVE PlainTypes /\ TextTypes /\ SeqTypes /\ Flow /\ TextInv
  BY TypedParts
<1>a. /\ life = "down" /\ policy = "" /\ runs = 0 /\ configs = 0
      /\ sent = {} /\ seen = {} /\ saved = {} /\ blobs = {} /\ disk = {}
      /\ sub = "off" /\ handed = {} /\ dropped = {} /\ late = {} /\ since = {} /\ tui = "off"
      /\ cfgText = (CHOOSE t \in TextFile : TRUE) /\ cfgFile = cfgText
      /\ into = [m \in Text |-> cfgText] /\ buffer = {} /\ keptSinks = {} /\ keptBlobs = {}
      /\ pc = [m \in Msg |-> "none"]
  BY DEF Init, DaemonInit
<1>b. /\ text = [t \in TextFile |-> <<Old>>] /\ base = [text |-> text, disk |-> disk]
      /\ baseline = [t \in TextFile |-> -1]
  BY DEF Init, DaemonInit
<1>c. stream = <<>> /\ bubbles = <<>>
  BY DEF Init, DaemonInit
<1>1. PlainTypes
  <2>1. 0 \in 0 .. MaxRuns /\ 0 \in 0 .. MaxConfig
    BY SharedAssumption
  <2>2. cfgText \in TextFile
    BY <1>a, SharedAssumption
  <2> QED
    BY <1>a, <2>1, <2>2 DEF PlainTypes
<1>2. base.text = text /\ base.disk = disk
  BY <1>b
<1>3. TextTypes
  <2>1. <<Old>> \in Seq(Text \cup {Old})
    OBVIOUS
  <2> QED
    BY <1>a, <1>b, <1>2, <2>1 DEF TextTypes
<1>4. SeqTypes
  <2>1. 0 <= StreamCap
    BY SharedAssumption
  <2> QED
    BY <1>c, <2>1 DEF SeqTypes
<1>5. Flow
  BY <1>a DEF Flow, Msg
<1>6. TextInv
  <2>1. \A t \in TextFile : text[t] \in Seq(Text \cup {Old})
    BY <1>3 DEF TextTypes
  <2>2. \A t \in TextFile : Len(text[t]) \in Nat /\ SubSeq(text[t], 1, Len(text[t])) = text[t]
    BY <2>1, LenProperties, PrefixWhole
  <2>3. \A t \in TextFile : baseline[t] = -1
    BY <1>b
  <2>4. \A t \in TextFile : /\ base.text[t] = text[t] /\ Len(text[t]) <= Len(text[t])
                            /\ baseline[t] \in {-1, Len(text[t])}
    BY <1>2, <2>2, <2>3
  <2>5. \A m \in Text : pc[m] # "append"
    BY <1>a DEF Msg
  <2> QED
    BY <1>a, <2>2, <2>4, <2>5, Zenon DEF TextInv
<1> QED
  BY <1>1, <1>3, <1>4, <1>5, <1>6

LEMMA NextTyped == Typed /\ [Next]_vars => Typed'
<1> SUFFICES ASSUME Typed, [Next]_vars PROVE Typed'
  OBVIOUS
<1>1. PlainTypes /\ TextTypes /\ SeqTypes /\ Flow /\ TextInv
  BY TypedParts
<1>2. PlainTypes'
  BY <1>1, NextPlain
<1>3. TextTypes' /\ TextInv'
  BY <1>1, <1>2, NextText
<1>4. SeqTypes' /\ Flow'
  BY <1>1, NextSeq, NextFlow
<1>5. (PlainTypes /\ TextTypes /\ SeqTypes /\ Flow /\ TextInv => Typed)'
  BY TypedParts, PTL
<1> QED
  BY <1>2, <1>3, <1>4, <1>5

LEMMA AlwaysTyped == Spec => []Typed
BY InitTyped, NextTyped, PTL DEF Spec

\* The state of daemon and TUI keeps its types: the channel stays within its
\* capacity, and what is recorded of sinks and runs keeps its shape.
THEOREM SharedTypeCorrect == Spec => []TypeOK
<1>1. Typed => TypeOK
  BY DEF Typed
<1> QED
  BY <1>1, AlwaysTyped, PTL

\* A device never receives what it sent, although the transport may bring it
\* back in a later run of the daemon, which has forgotten the msg_id: the
\* check of the sender in ingest is enough.
THEOREM NoEchoEver == Spec => []NoEcho
<1>1. Typed => NoEcho
  BY DEF Typed, Flow, NoEcho
<1> QED
  BY <1>1, AlwaysTyped, PTL

-----------------------------------------------------------------------------
\* What a step does to the files and what is known of them.
LEMMA FileView ==
    ASSUME PlainTypes, [Next]_vars
    PROVE  \/ ProcessEnds
           \/ \E m \in Msg : Ingest(m) \/ IngestStep(m)
           \/ ClearSinks /\ UNCHANGED <<pc, base>>
           \/ UNCHANGED <<pc, base, disk, saved, keptSinks>>
<1> USE DEF procVars, subVars, diskVars, cfgVars, histVars, memVars, tvars, dvars
<1> DEFINE Keeps == UNCHANGED <<pc, base, disk, saved, keptSinks>>
           Clears == ClearSinks /\ UNCHANGED <<pc, base>>
<1>1. ASSUME NEW m, HandleSend(m) PROVE Keeps
  BY <1>1 DEF HandleSend
<1>2. ASSUME Exit PROVE Keeps \/ Clears
  BY <1>2 DEF Exit, Clear
<1>3. ASSUME NEW all \in BOOLEAN, HandleClear(all) PROVE Keeps \/ Clears
  BY <1>3 DEF HandleClear, Clear
<1>4. ASSUME NEW q, HandleDaemonStop(q) \/ HandleConfigSet(q) PROVE Keeps
  BY <1>4 DEF HandleDaemonStop, HandleConfigSet
<1>5. ASSUME Run \/ Open \/ ShowItem \/ RequestQuit PROVE Keeps
  BY <1>5 DEF Run, Open, HandleSubscribe, ShowItem, RequestQuit
<1>6. ASSUME NEW m \in Own, Enter(m) PROVE Keeps
  BY <1>1, <1>6 DEF Enter
<1>7. ASSUME NEW key, Answer(key) PROVE Keeps \/ Clears
  BY <1>7 DEF Answer, Clear
<1>8. CASE UNCHANGED vars
  BY <1>8 DEF vars
<1> QED
  BY <1>1, <1>2, <1>3, <1>4, <1>5, <1>6, <1>7, <1>8 DEF Next, CmdClear, Quit, Crash

LEMMA NextFile ==
    ASSUME Typed, FileInv, [Next]_vars PROVE FileInv'
<1> USE SharedAssumption DEF procVars, subVars, diskVars, cfgVars, histVars, memVars
<1>0. /\ PlainTypes /\ Flow
      /\ pc \in [Msg -> {"none", "buffer", "notify", "sink", "append", "record", "done"}]
      /\ disk \subseteq Msg /\ disk \subseteq Image /\ saved \subseteq Msg
  BY TypedParts DEF PlainTypes, Msg
<1>1. CASE ProcessEnds
  <2>1. /\ saved' = {} /\ disk' = disk /\ base'.disk = disk
        /\ \A m \in Msg : pc'[m] = IF pc[m] = "none" THEN "none" ELSE "done"
    BY <1>1 DEF ProcessEnds
  <2> QED
    BY <2>1 DEF FileInv
<1>2. ASSUME NEW m \in Msg, Ingest(m) PROVE FileInv'
  <2>1. /\ UNCHANGED <<disk, saved, base, keptSinks>>
        /\ UNCHANGED pc \/ (pc[m] = "none" /\ pc'[m] \in {"buffer", "done"})
        /\ \A x \in Msg \ {m} : pc'[x] = pc[x]
    BY <1>0, <1>2 DEF Ingest, Msg
  <2> QED
    BY <1>0, <2>1 DEF FileInv
<1>3. ASSUME NEW m \in Msg, Buffer(m) \/ Notify(m) \/ RouteText(m) \/ AppendTextFile(m)
      PROVE  FileInv'
  <2>1. /\ UNCHANGED <<disk, saved, base, keptSinks>>
        /\ pc[m] \in {"buffer", "notify", "sink", "append"}
        /\ pc'[m] \in {"notify", "sink", "append", "done"}
        /\ \A x \in Msg \ {m} : pc'[x] = pc[x]
    BY <1>0, <1>3 DEF Buffer, Notify, RouteText, AppendTextFile
  <2> QED
    BY <1>0, <2>1 DEF FileInv
<1>4. ASSUME NEW m \in Msg, SaveToDir(m) PROVE FileInv'
  <2>1. /\ UNCHANGED <<saved, base>> /\ pc[m] = "sink"
        /\ \/ disk' = disk \cup {m} /\ pc'[m] = "record" /\ keptSinks' = keptSinks
           \/ /\ disk' \in {disk, disk \cup {m}} /\ pc'[m] = "done"
              /\ keptSinks' = keptSinks \cup (disk' \ disk)
        /\ \A x \in Msg \ {m} : pc'[x] = pc[x]
    BY <1>0, <1>4 DEF SaveToDir
  <2>2. m \notin disk
    BY <1>0, <2>1 DEF Flow
  <2> QED
    BY <1>0, <2>1, <2>2 DEF FileInv
<1>5. ASSUME NEW m \in Msg, RecordSaved(m) PROVE FileInv'
  <2>1. /\ UNCHANGED <<disk, base, keptSinks>> /\ pc[m] = "record"
        /\ saved' = saved \cup {m} /\ pc'[m] = "done"
        /\ \A x \in Msg \ {m} : pc'[x] = pc[x]
    BY <1>0, <1>5 DEF RecordSaved
  <2> QED
    BY <1>0, <2>1 DEF FileInv
<1>6. CASE ClearSinks /\ UNCHANGED <<pc, base>>
  <2>1. PICK G \in SUBSET saved :
          /\ disk' = disk \ (saved \ G) /\ saved' = {}
          /\ (keptSinks \cap Image) \cup G \subseteq keptSinks'
    BY <1>6 DEF ClearSinks
  <2> QED
    BY <1>0, <1>6, <2>1 DEF FileInv
<1>7. CASE UNCHANGED <<pc, base, disk, saved, keptSinks>>
  BY <1>7 DEF FileInv
<1> QED
  BY <1>0, <1>1, <1>2, <1>3, <1>4, <1>5, <1>6, <1>7, FileView DEF IngestStep

LEMMA AlwaysFile == Spec => [](Typed /\ FileInv)
<1>1. Init => FileInv
  <2> SUFFICES ASSUME Init PROVE FileInv
    OBVIOUS
  <2>1. life = "down" /\ disk = {} /\ saved = {} /\ pc = [m \in Msg |-> "none"]
    BY DEF Init, DaemonInit
  <2>2. base.disk = disk
    BY DEF Init, DaemonInit
  <2> QED
    BY <2>1, <2>2 DEF FileInv
<1>2. Typed /\ FileInv /\ [Next]_vars => FileInv'
  BY NextFile
<1> QED
  BY <1>1, <1>2, AlwaysTyped, PTL DEF Spec

\* What was on disk before a run of the daemon stays there: no clear,
\* reconfiguration of text_file, stop, crash or exit policy takes back entries
\* or files of an earlier run.
THEOREM PriorContentSafe == Spec => []PriorContentKept
<1>1. Typed /\ FileInv => PriorContentKept
  <2> SUFFICES ASSUME Typed, FileInv PROVE PriorContentKept
    OBVIOUS
  <2>1. TextInv /\ TextTypes
    BY TypedParts
  <2>2. \A t \in TextFile : Len(text[t]) \in Nat /\ Len(base.text[t]) \in Nat
    BY <2>1, LenProperties DEF TextTypes
  <2> QED
    BY <2>1, <2>2 DEF TextInv, FileInv, PriorContentKept
<1> QED
  BY <1>1, AlwaysFile, PTL
-----------------------------------------------------------------------------
\* Appending adds at most that item to what the run left in the sinks.
LEMMA AppendSession ==
    ASSUME Typed, NEW m \in Text, AppendTextFile(m)
    PROVE  /\ SessionText' \subseteq SessionText \cup {m} /\ SessionFiles' = SessionFiles
           /\ keptSinks' = keptSinks
           /\ since' = since \cup {m} \/ (SessionText' = SessionText /\ since' = since)
<1>0. TextTypes /\ TextInv /\ PlainTypes
  BY TypedParts
<1>1. /\ base' = base /\ disk' = disk /\ keptSinks' = keptSinks /\ into[m] \in TextFile
      /\ \/ text' = [text EXCEPT ![into[m]] = Append(@, m)] /\ since' = since \cup {m}
         \/ text' = text /\ since' = since
  BY <1>0 DEF AppendTextFile, PlainTypes
<1>2. CASE text' = text /\ since' = since
  BY <1>1, <1>2 DEF SessionText, SessionFiles, Appended
<1>3. CASE text' = [text EXCEPT ![into[m]] = Append(@, m)] /\ since' = since \cup {m}
  <2>1. ASSUME NEW t \in TextFile, NEW i \in Len(base.text[t]) + 1 .. Len(text'[t])
        PROVE  text'[t][i] = m \/ (i \in Len(base.text[t]) + 1 .. Len(text[t])
                                     /\ text'[t][i] = text[t][i])
    <3>1. CASE t # into[m]
      <4>1. text'[t] = text[t]
        BY <1>0, <1>1, <1>3, <3>1 DEF TextTypes
      <4> QED
        BY <4>1
    <3>2. CASE t = into[m]
      <4> DEFINE T == Text \cup {Old}
                 n == Len(text[t])
      <4>1. text'[t] = Append(text[t], m) /\ text[t] \in Seq(T) /\ base.text[t] \in Seq(T)
        BY <1>0, <1>1, <1>3, <3>2 DEF TextTypes
      <4>2. /\ Len(text'[t]) = n + 1 /\ text'[t][n + 1] = m
            /\ \A k \in 1..n : text'[t][k] = text[t][k]
            /\ n \in Nat /\ Len(base.text[t]) \in Nat
        BY <4>1, AppendProperties, LenProperties
      <4> HIDE DEF n
      <4>3. i = n + 1 \/ (i \in 1..n /\ i \in Len(base.text[t]) + 1 .. n)
        BY <4>2
      <4> QED
        BY <4>2, <4>3 DEF n
    <3> QED
      BY <3>1, <3>2
  <2>2. SessionText' \subseteq SessionText \cup {m}
    BY <1>1, <2>1 DEF SessionText, Appended
  <2> QED
    BY <1>1, <1>3, <2>2 DEF SessionFiles
<1> QED
  BY <1>1, <1>2, <1>3

\* A clear --all leaves nothing of the run in the sinks but the files that an
\* ingest has written and not yet recorded, and what a failed call left.
LEMMA CutSession ==
    ASSUME Typed, FileInv, ClearSinks, base' = base
    PROVE  /\ SessionText' \cup SessionFiles'
                  \subseteq {m \in Msg : pc[m] = "record"} \cup keptSinks'
           /\ since' = {m \in Msg : pc[m] = "record"}
<1>0. TextTypes /\ TextInv /\ PlainTypes
  BY TypedParts
<1>1. PICK F \in SUBSET TextFile, G \in SUBSET saved :
        /\ text' = [t \in TextFile |-> IF baseline[t] = -1 \/ t \in F THEN text[t]
                                       ELSE SubSeq(text[t], 1, baseline[t])]
        /\ disk' = disk \ (saved \ G)
        /\ since' = {m \in Msg : pc[m] = "record"}
        /\ keptSinks' = (keptSinks \cap Image) \cup G \cup UNION {Appended(t) : t \in F}
  BY DEF ClearSinks
<1>2. \A t \in TextFile : text'[t] = IF t \in F THEN text[t] ELSE base.text[t]
  BY <1>0, <1>1, CutBack
<1>3. \A t \in TextFile : Len(base.text[t]) + 1 .. Len(base.text[t]) = {}
  <2>1. \A t \in TextFile : Len(base.text[t]) \in Nat
    BY <1>0, LenProperties DEF TextTypes
  <2> QED
    BY <2>1
<1>4. ASSUME NEW t \in TextFile PROVE Appended(t)' \subseteq keptSinks'
  <2>1. CASE t \in F
    <3>1. Appended(t)' = Appended(t)
      BY <1>2, <2>1 DEF Appended
    <3> QED
      BY <1>1, <2>1, <3>1
  <2>2. CASE t \notin F
    <3>1. Appended(t)' = {}
      BY <1>2, <1>3, <2>2 DEF Appended
    <3> QED
      BY <3>1
  <2> QED
    BY <2>1, <2>2
<1>5. SessionText' \subseteq keptSinks'
  BY <1>4 DEF SessionText
<1>6. SessionFiles' = (disk \ (saved \ G)) \ base.disk
        /\ disk \subseteq Msg /\ disk \subseteq Image
  BY <1>0, <1>1 DEF SessionFiles, PlainTypes, Msg
<1>7. SessionFiles' \subseteq {m \in Msg : pc[m] = "record"} \cup keptSinks'
  BY <1>1, <1>6 DEF FileInv
<1> QED
  BY <1>1, <1>5, <1>7

\* What a step does to the sinks.
LEMMA SinkView ==
    ASSUME [Next]_vars
    PROVE  \/ ProcessEnds
           \/ \E m \in Text : AppendTextFile(m)
           \/ \E m \in Msg : SaveToDir(m)
           \/ ClearSinks /\ UNCHANGED base
           \/ UNCHANGED <<text, disk, base, since, keptSinks>>
<1> USE DEF procVars, subVars, diskVars, cfgVars, histVars, memVars, tvars, dvars
<1> DEFINE Keeps == UNCHANGED <<text, disk, base, since, keptSinks>>
           Clears == ClearSinks /\ UNCHANGED base
<1>1. ASSUME NEW m, HandleSend(m) \/ Ingest(m) \/ Buffer(m) \/ Notify(m) \/ RouteText(m)
                      \/ RecordSaved(m)
      PROVE  Keeps
  BY <1>1 DEF HandleSend, Ingest, Buffer, Notify, RouteText, RecordSaved
<1>2. ASSUME Exit PROVE Keeps \/ Clears
  BY <1>2 DEF Exit, Clear
<1>3. ASSUME NEW all \in BOOLEAN, HandleClear(all) PROVE Keeps \/ Clears
  BY <1>3 DEF HandleClear, Clear
<1>4. ASSUME NEW q, HandleDaemonStop(q) \/ HandleConfigSet(q) PROVE Keeps
  BY <1>4 DEF HandleDaemonStop, HandleConfigSet
<1>5. ASSUME Run \/ Open \/ ShowItem \/ RequestQuit PROVE Keeps
  BY <1>5 DEF Run, Open, HandleSubscribe, ShowItem, RequestQuit
<1>6. ASSUME NEW m \in Own, Enter(m) PROVE Keeps
  BY <1>1, <1>6 DEF Enter
<1>8. ASSUME NEW key, Answer(key) PROVE Keeps \/ Clears
  BY <1>8 DEF Answer, Clear
<1>9. CASE UNCHANGED vars
  BY <1>9 DEF vars
<1>10. \A m \in Msg : AppendTextFile(m) => m \in Text
  BY DEF AppendTextFile
<1> QED
  BY <1>1, <1>2, <1>3, <1>4, <1>5, <1>6, <1>8, <1>9, <1>10
     DEF Next, IngestStep, CmdClear, Quit, Crash

\* When a run has ended the history begins anew.
LEMMA EndSession ==
    ASSUME Typed, ProcessEnds PROVE SessionText' = {} /\ SessionFiles' = {}
<1>0. TextTypes
  BY TypedParts
<1>1. text' = text /\ disk' = disk /\ base'.text = text /\ base'.disk = disk
  BY DEF ProcessEnds, diskVars
<1>2. \A t \in TextFile : Len(text[t]) + 1 .. Len(text[t]) = {}
  <2>1. \A t \in TextFile : Len(text[t]) \in Nat
    BY <1>0, LenProperties DEF TextTypes
  <2> QED
    BY <2>1
<1>3. SessionText' = {}
  BY <1>1, <1>2 DEF SessionText, Appended
<1> QED
  BY <1>1, <1>3 DEF SessionFiles

\* The sinks hold nothing of a run from before its last clear --all, also when
\* text_file was switched to and fro between appends and when calls of earlier
\* clears failed: what remains was written, or being written, after it, is a
\* file that a failed write or removal left, or a text whose truncation by this
\* very clear failed.
THEOREM ClearAllIsThorough == Spec => []ClearAllTakesBack
<1>1. Init => ClearAllTakesBack
  <2> SUFFICES ASSUME Init PROVE ClearAllTakesBack
    OBVIOUS
  <2>1. base.text = text /\ base.disk = disk
    BY DEF Init, DaemonInit
  <2>2. TextTypes
    BY InitTyped, TypedParts
  <2>3. \A t \in TextFile : Len(text[t]) \in Nat
    BY <2>2, LenProperties DEF TextTypes
  <2>4. \A t \in TextFile : Len(text[t]) + 1 .. Len(text[t]) = {}
    BY <2>3
  <2>5. SessionText = {}
    BY <2>1, <2>4 DEF SessionText, Appended
  <2> QED
    BY <2>1, <2>5 DEF ClearAllTakesBack, SessionFiles
<1>2. Typed /\ FileInv /\ ClearAllTakesBack /\ [Next]_vars => ClearAllTakesBack'
  <2> SUFFICES ASSUME Typed, FileInv, ClearAllTakesBack, [Next]_vars PROVE ClearAllTakesBack'
    OBVIOUS
  <2>1. CASE ProcessEnds
    BY <2>1, EndSession DEF ClearAllTakesBack
  <2>2. ASSUME NEW m \in Text, AppendTextFile(m) PROVE ClearAllTakesBack'
    BY <2>2, AppendSession DEF ClearAllTakesBack
  <2>3. ASSUME NEW m \in Msg, SaveToDir(m) PROVE ClearAllTakesBack'
    <3>1. /\ UNCHANGED <<text, base>>
          /\ \/ disk' = disk \cup {m} /\ since' = since \cup {m} /\ UNCHANGED keptSinks
             \/ since' = since /\ keptSinks' = keptSinks \cup (disk' \ disk)
      BY <2>3 DEF SaveToDir
    <3>2. SessionText' = SessionText
      BY <3>1 DEF SessionText, Appended
    <3> QED
      BY <3>1, <3>2 DEF ClearAllTakesBack, SessionFiles
  <2>4. CASE ClearSinks /\ UNCHANGED base
    BY <2>4, CutSession DEF ClearAllTakesBack
  <2>5. CASE UNCHANGED <<text, disk, base, since, keptSinks>>
    BY <2>5 DEF ClearAllTakesBack, SessionText, SessionFiles, Appended
  <2> QED
    BY <2>1, <2>2, <2>3, <2>4, <2>5, SinkView
<1> QED
  BY <1>1, <1>2, AlwaysFile, PTL DEF Spec
-----------------------------------------------------------------------------
\* After the exit policy was applied, ingests go on and begin and the TUI may
\* act, but nothing clears any more.
LEMMA ExitedView ==
    ASSUME [Next]_vars, life' = "exited"
    PROVE  \/ Exit
           \/ life = "exited" /\ \E m \in Msg : Ingest(m) \/ IngestStep(m)
           \/ /\ life = "exited"
              /\ UNCHANGED <<buffer, blobs, text, disk, base, pc, late, policy, keptSinks,
                            keptBlobs>>
<1> USE DEF procVars, subVars, diskVars, cfgVars, histVars, memVars, tvars, dvars
<1> DEFINE Keeps == /\ life = "exited"
                    /\ UNCHANGED <<buffer, blobs, text, disk, base, pc, late, policy, keptSinks,
                            keptBlobs>>
<1>1. ASSUME NEW m, HandleSend(m) PROVE FALSE
  BY <1>1 DEF HandleSend
<1>2. ASSUME NEW x, HandleClear(x) \/ HandleConfigSet(x) \/ HandleDaemonStop(x) PROVE FALSE
  BY <1>2 DEF HandleClear, HandleConfigSet, HandleDaemonStop
<1>3. ASSUME Run \/ ProcessEnds \/ Open PROVE FALSE
  BY <1>3 DEF Run, ProcessEnds, Open, HandleSubscribe
<1>4. ASSUME ShowItem \/ RequestQuit PROVE Keeps
  BY <1>4 DEF ShowItem, RequestQuit
<1>5. ASSUME NEW m \in Own, Enter(m) PROVE Keeps
  BY <1>1, <1>5 DEF Enter
<1>7. ASSUME NEW key, Answer(key) PROVE Keeps
  BY <1>7 DEF Answer
<1>8. CASE UNCHANGED vars
  BY <1>8 DEF vars
<1>9. ASSUME NEW m \in Msg, Ingest(m) \/ IngestStep(m) PROVE life = "exited"
  BY <1>9 DEF Ingest, IngestStep, Buffer, Notify, RouteText, AppendTextFile, SaveToDir, RecordSaved
<1> QED
  BY <1>1, <1>2, <1>3, <1>4, <1>5, <1>7, <1>8, <1>9
     DEF Next, CmdClear, Quit, Crash

LEMMA NextStop ==
    ASSUME Typed, FileInv, StopClears, LateInv, [Next]_vars, life' = "exited"
    PROVE  StopClears' /\ LateInv'
<1> USE DEF procVars, subVars, diskVars, cfgVars, histVars, memVars
<1> DEFINE Wiped == policy # "never" /\ (policy = "" => ClearOnExit # "never")
           Cut == policy = "all" \/ (policy = "" /\ ClearOnExit = "all")
           Left == SessionText \cup SessionFiles
<1>0. PlainTypes
  BY TypedParts
<1>1. CASE Exit
  <2>1. /\ policy' = policy /\ UNCHANGED <<pc, base>> /\ keptBlobs' = blobs'
        /\ late' = {m \in Msg : pc[m] \notin {"none", "done"}}
    BY <1>1 DEF Exit
  <2>2. ASSUME Wiped PROVE buffer' = {}
    <3>1. ResolvePolicy(policy) # "never"
      BY <2>2 DEF ResolvePolicy
    <3>2. ClearTransient
      BY <1>1, <3>1 DEF Exit, Clear
    <3> QED
      BY <3>2 DEF ClearTransient
  <2>3. ASSUME Cut PROVE Left' \subseteq late' \cup keptSinks'
    <3>1. ResolvePolicy(policy) = "all"
      BY <2>3 DEF ResolvePolicy
    <3>2. ClearSinks
      BY <1>1, <3>1 DEF Exit, Clear
    <3>3. Left' \subseteq {m \in Msg : pc[m] = "record"} \cup keptSinks'
      BY <2>1, <3>2, CutSession
    <3> QED
      BY <2>1, <3>3
  <2>4. LateInv'
    BY <2>1 DEF LateInv
  <2> QED
    BY <2>1, <2>2, <2>3, <2>4 DEF StopClears
<1>2. ASSUME life = "exited", NEW m \in Msg, IngestStep(m) PROVE StopClears' /\ LateInv'
  <2>1. /\ pc[m] \notin {"none", "done"} /\ UNCHANGED <<late, policy, base, blobs, keptBlobs>>
        /\ \A x \in Msg \ {m} : pc'[x] = pc[x]
        /\ keptSinks \subseteq keptSinks' /\ buffer' \subseteq buffer \cup {m}
    BY <1>0, <1>2 DEF IngestStep, Buffer, Notify, RouteText, AppendTextFile, SaveToDir,
                      RecordSaved, PlainTypes
  <2>2. m \in late
    BY <1>2, <2>1 DEF LateInv
  <2>3. LateInv'
    BY <1>2, <2>1, <2>2 DEF LateInv
  <2>5. SessionText' \cup SessionFiles' \subseteq SessionText \cup SessionFiles \cup {m}
    <3>1. CASE AppendTextFile(m)
      <4>1. m \in Text
        BY <3>1 DEF AppendTextFile
      <4> QED
        BY <3>1, <4>1, AppendSession
    <3>2. CASE ~AppendTextFile(m)
      <4>1. UNCHANGED <<text, base>> /\ disk' \subseteq disk \cup {m}
        BY <1>2, <3>2 DEF IngestStep, Buffer, Notify, RouteText, SaveToDir, RecordSaved
      <4> QED
        BY <4>1 DEF SessionText, SessionFiles, Appended
    <3> QED
      BY <3>1, <3>2
  <2>6. Wiped => buffer' \subseteq late' /\ blobs' \subseteq late' \cup keptBlobs'
    BY <1>2, <2>1, <2>2 DEF StopClears
  <2>7. Cut => SessionText' \cup SessionFiles' \subseteq late' \cup keptSinks'
    BY <1>2, <2>1, <2>2, <2>5 DEF StopClears
  <2> QED
    BY <2>1, <2>3, <2>6, <2>7 DEF StopClears
<1>3. ASSUME life = "exited", NEW m \in Msg, Ingest(m) PROVE StopClears' /\ LateInv'
  <2>1. /\ late' = late \cup {m} /\ blobs' \subseteq blobs \cup {m}
        /\ UNCHANGED <<policy, base, buffer, text, disk, keptSinks, keptBlobs>>
        /\ \A x \in Msg \ {m} : pc'[x] = pc[x]
    BY <1>0, <1>3 DEF Ingest, PlainTypes
  <2>2. LateInv'
    BY <1>3, <2>1 DEF LateInv
  <2>3. SessionText' = SessionText /\ SessionFiles' = SessionFiles
    BY <2>1 DEF SessionText, SessionFiles, Appended
  <2> QED
    BY <1>3, <2>1, <2>2, <2>3 DEF StopClears
<1>4. CASE /\ life = "exited"
           /\ UNCHANGED <<buffer, blobs, text, disk, base, pc, late, policy, keptSinks,
                          keptBlobs>>
  <2>1. LateInv'
    BY <1>4 DEF LateInv
  <2>2. SessionText' = SessionText /\ SessionFiles' = SessionFiles
    BY <1>4 DEF SessionText, SessionFiles, Appended
  <2> QED
    BY <1>4, <2>1, <2>2 DEF StopClears
<1> QED
  BY <1>1, <1>2, <1>3, <1>4, ExitedView

\* A stop leaves behind what its policy keeps, and otherwise only items whose
\* ingest was under way while the policy was applied or began even later, and
\* what a failed call could not take back.
THEOREM StopIsThorough == Spec => []StopClears
<1>1. Init => StopClears /\ LateInv
  BY DEF Init, DaemonInit, StopClears, LateInv
<1>2. Typed /\ FileInv /\ StopClears /\ LateInv /\ [Next]_vars => (StopClears /\ LateInv)'
  <2>1. ASSUME life' # "exited" PROVE StopClears' /\ LateInv'
    BY <2>1 DEF StopClears, LateInv
  <2> QED
    BY <2>1, NextStop
<1> QED
  BY <1>1, <1>2, AlwaysFile, PTL DEF Spec
-----------------------------------------------------------------------------
\* A step that leaves the chat and the subscription's history alone: it begins
\* no offer, and ends one only together with the subscription.
ChatQuiet ==
    /\ UNCHANGED <<bubbles, stream, handed, dropped>>
    /\ sub' = "off" => sub = "off"
    /\ sub' = "live" => sub \in {"off", "live"}
    /\ \A m \in Msg : pc'[m] = "notify" => pc[m] = "notify"
    /\ sub' = "live" => \A m \in Msg : pc[m] = "notify" => pc'[m] = "notify"

LEMMA ChatView ==
    ASSUME PlainTypes, [Next]_vars
    PROVE  \/ \E m \in Msg : (Buffer(m) \/ Notify(m)) /\ UNCHANGED tvars
           \/ ShowItem
           \/ \E m \in Own : Enter(m) /\ UNCHANGED <<stream, handed, dropped, sub, pc>>
           \/ bubbles' = <<>> /\ stream' = <<>> /\ handed' = {} /\ sub' = "closed" /\ UNCHANGED pc
           \/ ChatQuiet
<1> USE DEF procVars, subVars, diskVars, cfgVars, histVars, memVars, tvars, dvars
<1>0. pc \in [Msg -> {"none", "buffer", "notify", "sink", "append", "record", "done"}]
  BY DEF PlainTypes
<1>1. CASE UNCHANGED <<bubbles, stream, handed, dropped, pc>> /\ sub' \in {sub, "closed"}
  BY <1>1 DEF ChatQuiet, PlainTypes
<1>2. ASSUME NEW m \in Msg, Ingest(m) \/ RouteText(m) \/ AppendTextFile(m) \/ SaveToDir(m)
                               \/ RecordSaved(m),
             UNCHANGED tvars
      PROVE  ChatQuiet
  <2>1. /\ UNCHANGED <<bubbles, stream, handed, dropped, sub>>
        /\ \A x \in Msg \ {m} : pc'[x] = pc[x]
        /\ pc'[m] = pc[m] \/ (pc[m] # "notify" /\ pc'[m] # "notify")
    BY <1>0, <1>2, SharedAssumption DEF Ingest, RouteText, AppendTextFile, SaveToDir, RecordSaved, Msg
  <2> QED
    BY <2>1 DEF ChatQuiet, PlainTypes
<1>3. ASSUME ProcessEnds, UNCHANGED tvars PROVE ChatQuiet
  BY <1>0, <1>3 DEF ProcessEnds, ChatQuiet, PlainTypes
<1>4. ASSUME Run \/ Exit, UNCHANGED tvars
      PROVE  UNCHANGED <<bubbles, stream, handed, dropped, pc>> /\ sub' \in {sub, "closed"}
  BY <1>4 DEF Run, Exit
<1>5. ASSUME NEW x, HandleClear(x) \/ HandleConfigSet(x) \/ HandleDaemonStop(x) \/ HandleSend(x)
      PROVE  UNCHANGED <<stream, handed, dropped, pc, sub>>
  BY <1>5 DEF HandleClear, HandleConfigSet, HandleDaemonStop, HandleSend
<1>6. ASSUME Open PROVE ChatQuiet
  BY <1>6 DEF Open, HandleSubscribe, ChatQuiet
<1>7. ASSUME NEW m \in Own, Enter(m) PROVE UNCHANGED <<stream, handed, dropped, sub, pc>>
  BY <1>5, <1>7 DEF Enter
<1>9. ASSUME NEW key, RequestQuit \/ Answer(key)
      PROVE  \/ UNCHANGED <<bubbles, stream, handed, dropped, pc, sub>>
             \/ /\ bubbles' = <<>> /\ stream' = <<>> /\ handed' = {} /\ sub' = "closed"
                /\ UNCHANGED pc
  BY <1>9 DEF RequestQuit, Answer, Leave
<1>10. CASE UNCHANGED vars
  BY <1>1, <1>10 DEF vars
<1> QED
  BY <1>1, <1>2, <1>3, <1>4, <1>5, <1>6, <1>7, <1>9, <1>10
     DEF Next, IngestStep, CmdClear, Quit, Crash

LEMMA NextChat ==
    ASSUME Typed, ChatInv, [Next]_vars PROVE ChatInv'
<1> USE SharedAssumption
<1>0. PlainTypes /\ SeqTypes /\ Flow
  BY TypedParts
<1>1. /\ bubbles \in Seq(Msg) /\ stream \in Seq(Msg) /\ handed \subseteq Msg
      /\ pc \in [Msg -> {"none", "buffer", "notify", "sink", "append", "record", "done"}]
      /\ Range(bubbles) \subseteq Msg /\ Range(stream) \subseteq Msg
      /\ Len(stream) \in Nat /\ Len(stream) <= StreamCap /\ Own \subseteq Msg
  BY <1>0, RangeOfSeq, LenProperties DEF PlainTypes, SeqTypes, Msg
<1>f. Range(<<>>) = {} /\ IsInjective(<<>>)
  BY DEF Range, IsInjective
<1>2. ASSUME NEW m \in Msg, Buffer(m), UNCHANGED tvars PROVE ChatInv'
  <2>1. /\ UNCHANGED <<bubbles, stream, sub, dropped>> /\ pc[m] = "buffer"
        /\ handed' = IF sub = "live" THEN handed \cup {m} ELSE handed
        /\ pc'[m] = "notify" /\ \A x \in Msg \ {m} : pc'[x] = pc[x]
    BY <1>1, <1>2 DEF Buffer, tvars
  <2>2. m \notin Range(bubbles) \cup Range(stream)
    BY <1>0, <2>1 DEF ChatInv, Flow
  <2> QED
    BY <1>1, <2>1, <2>2 DEF ChatInv
<1>3. ASSUME NEW m \in Msg, Notify(m), UNCHANGED tvars PROVE ChatInv'
  <2>1. /\ UNCHANGED <<bubbles, sub, handed>> /\ pc[m] = "notify"
        /\ pc'[m] = "sink" /\ \A x \in Msg \ {m} : pc'[x] = pc[x]
    BY <1>1, <1>3 DEF Notify, tvars
  <2>2. m \notin Range(bubbles) \cup Range(stream)
    BY <2>1 DEF ChatInv
  <2>3. CASE m \in handed /\ sub = "live" /\ Len(stream) < StreamCap
    <3>1. stream' = Append(stream, m) /\ dropped' = dropped
      BY <1>1, <1>3, <2>3 DEF Notify
    <3>2. Range(stream') = Range(stream) \cup {m} /\ IsInjective(stream')
      BY <1>1, <2>2, <3>1, AppendFresh DEF ChatInv
    <3> QED
      BY <1>1, <2>1, <2>2, <2>3, <3>1, <3>2 DEF ChatInv
  <2>4. CASE m \in handed /\ sub = "live" /\ ~(Len(stream) < StreamCap)
    <3>1. Len(stream) = StreamCap
      BY <1>1, <2>4
    <3>2. stream' = stream /\ dropped' = dropped \cup {m}
      BY <1>3, <2>4, <3>1 DEF Notify
    <3> QED
      BY <1>1, <2>1, <2>2, <2>4, <3>2 DEF ChatInv
  <2>5. CASE ~(m \in handed /\ sub = "live")
    <3>1. stream' = stream /\ dropped' = dropped
      BY <1>3, <2>5 DEF Notify
    <3> QED
      BY <1>1, <2>1, <2>5, <3>1 DEF ChatInv
  <2> QED
    BY <2>3, <2>4, <2>5
<1>4. CASE ShowItem
  <2>1. /\ UNCHANGED <<pc, sub, handed, dropped>> /\ stream # <<>>
        /\ bubbles' = Append(bubbles, Head(stream)) /\ stream' = Tail(stream)
    BY <1>4 DEF ShowItem, AppendBubble, memVars
  <2>2. /\ Head(stream) \in Range(stream) /\ Range(Tail(stream)) \subseteq Range(stream)
        /\ IsInjective(Tail(stream)) /\ Head(stream) \notin Range(Tail(stream))
    BY <1>1, <2>1, TailFresh DEF ChatInv
  <2>3. Head(stream) \notin Range(bubbles) /\ Head(stream) \in Msg
    BY <1>1, <2>2 DEF ChatInv
  <2>4. Range(bubbles') = Range(bubbles) \cup {Head(stream)} /\ IsInjective(bubbles')
    BY <1>1, <2>1, <2>3, AppendFresh DEF ChatInv
  <2>5. Range(stream) = Range(Tail(stream)) \cup {Head(stream)}
    BY <1>1, <2>1, RangeTail
  <2> QED
    BY <2>1, <2>2, <2>3, <2>4, <2>5 DEF ChatInv
<1>5. ASSUME NEW m \in Own, Enter(m), UNCHANGED <<stream, handed, dropped, sub, pc>>
      PROVE  ChatInv'
  <2>1. bubbles' = Append(bubbles, m) /\ m \notin Range(bubbles)
    BY <1>5 DEF Enter, AppendBubble
  <2>2. m \notin handed /\ pc[m] = "none"
    BY <1>0 DEF Flow
  <2>3. Range(bubbles') = Range(bubbles) \cup {m} /\ IsInjective(bubbles')
    BY <1>1, <2>1, AppendFresh DEF ChatInv
  <2> QED
    BY <1>5, <2>2, <2>3 DEF ChatInv
<1>6. CASE bubbles' = <<>> /\ stream' = <<>> /\ handed' = {} /\ sub' = "closed" /\ UNCHANGED pc
  BY <1>f, <1>6 DEF ChatInv
<1>7. CASE ChatQuiet
  <2>1. sub' = "live" => handed \subseteq Range(bubbles) \cup Range(stream) \cup dropped
                                            \cup {m \in Msg : pc'[m] = "notify"}
    BY <1>7 DEF ChatInv, ChatQuiet
  <2> QED
    BY <1>1, <1>7, <2>1 DEF ChatInv, ChatQuiet
<1> QED
  BY <1>0, <1>2, <1>3, <1>4, <1>5, <1>6, <1>7, ChatView

\* The chat shows each item once, and every item that ingest took while the
\* TUI was subscribed is shown, on its way, or was skipped because the channel
\* was full; only the end of the daemon loses others.
THEOREM ChatShowsEverything == Spec => []ChatIsComplete
<1>1. Init => ChatInv
  <2> SUFFICES ASSUME Init PROVE ChatInv
    OBVIOUS
  <2>1. bubbles = <<>> /\ stream = <<>> /\ handed = {} /\ sub = "off"
    BY DEF Init, DaemonInit
  <2>2. Range(<<>>) = {} /\ IsInjective(<<>>)
    BY DEF Range, IsInjective
  <2> QED
    BY <2>1, <2>2 DEF ChatInv
<1>2. Typed /\ ChatInv /\ [Next]_vars => ChatInv'
  BY NextChat
<1>3. Typed /\ ChatInv => ChatIsComplete
  <2> SUFFICES ASSUME Typed, ChatInv PROVE ChatIsComplete
    OBVIOUS
  <2>1. bubbles \in Seq(Msg) /\ stream \in Seq(Msg)
    BY TypedParts DEF SeqTypes
  <2>2. Range(bubbles \o stream) = Range(bubbles) \cup Range(stream)
    BY <2>1, RangeConcatenation
  <2>3. IsInjective(bubbles \o stream)
    BY <2>1, ConcatFresh DEF ChatInv
  <2>4. Own \cap handed = {}
    BY TypedParts DEF Flow
  <2> QED
    BY <2>2, <2>3, <2>4 DEF ChatInv, ChatIsComplete
<1> QED
  BY <1>1, <1>2, <1>3, AlwaysTyped, PTL DEF Spec
=============================================================================
