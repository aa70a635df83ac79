------------------------------ MODULE RoomStore ------------------------------
(***************************************************************************)
(* What a daemon keeps of the items it receives, and how `clear` takes it  *)
(* back: the in-memory buffer, the blob cache, the append-file text_file   *)
(* and the folder save_dir, with the session record that says what this    *)
(* run wrote.                                                              *)
(*                                                                         *)
(* A worker is a recvLoop goroutine inside ingest; RoomLink shows that     *)
(* there can be several.  Workers, a clear, a `config set text_file` and   *)
(* the end of the process interleave.  text_file holds whole entries, of   *)
(* which Old stands for what was there before the daemon first ran.  A     *)
(* path of save_dir is <<name, k>>: k = 1 for the name itself, k > 1 for   *)
(* "name (k)".  save_dir is set throughout.                                *)
(***************************************************************************)
EXTENDS FiniteSets, Integers, Sequences

CONSTANTS TextMsg, FileMsg, \* received items: text, and image or file
          Name,        \* Name[m]: the save_dir name of m \in FileMsg
          Worker,      \* concurrent ingests (bound)
          TextFile,    \* paths that text_file may be set to
          NoPath,      \* the empty path
          FirstText,   \* text_file when the daemon first starts
          NoMsg,       \* the item of a worker that has none
          NoFile,      \* what disk holds where there is no file
          Partial,     \* the content of a file whose WriteFile failed
          Old,         \* content from before the daemon ran
          OldText,     \* the text files that have some
          OldFile,     \* the paths of save_dir that have some
          MaxCopy,     \* bound: the largest k of a path
          BufferCap,   \* 64 in the code
          MaxConfig,   \* bound: config sets in a session
          MaxRestart   \* bound: ends of the process

Msg == TextMsg \cup FileMsg
Path == {Name[m] : m \in FileMsg} \X (1 .. MaxCopy)

ASSUME RoomStoreAssumption ==
    /\ TextMsg \cap FileMsg = {}
    /\ DOMAIN Name = FileMsg
    /\ FirstText \in TextFile \cup {NoPath}
    /\ NoPath \notin TextFile /\ NoPath \notin Path
    /\ NoMsg \notin Msg
    /\ NoFile \notin Msg \cup {Partial, Old}
    /\ Partial \notin Msg \cup {Old} /\ Old \notin Msg
    /\ OldText \subseteq TextFile /\ OldFile \subseteq Path
    /\ BufferCap \in Nat \ {0}
    /\ MaxConfig \in Nat /\ MaxRestart \in Nat /\ MaxCopy \in Nat

VARIABLES
    \* memory of the daemon
    arrived,     \* items that reached ingest and passed Seen (see RoomLink)
    buffer,      \* d.buffer, oldest first
    cfgText,     \* settings.TextFile in memory
    sessPath, sessOff, saved, \* d.sess: textFilePath, textFileOffset, savedFiles
    pc, job, path,            \* per worker: where it is, its item, its sink path
    setting,     \* handleConfigSet: a text_file saved and not yet anchored
    clearing, scope, victims, \* the clear: where it is, its scope, blobs listed
    cPath, cOff, cSaved,      \* what clearSinks copied under the session lock
    \* disk
    cfgDisk,     \* TextFile in config.json
    blobs,       \* the items whose blob is in the cache
    text,        \* text[t]: the entries of text file t
    disk,        \* disk[p]: the content of path p of save_dir
    \* history
    baseText, baseDisk, \* text and disk when this session began
    overlapped,  \* items whose ingest overlaps the clear
    ioError,     \* a truncation or removal of a clear --all failed
    configs, restarts   \* counters against the bounds

ingestVars == <<arrived, buffer, pc, job, path>>
sessVars == <<sessPath, sessOff, saved>>
clearVars == <<clearing, scope, victims, cPath, cOff, cSaved>>
cfgVars == <<cfgText, cfgDisk, setting, configs>>
diskVars == <<blobs, text, disk>>
baseVars == <<baseText, baseDisk, restarts>>
clearHist == <<overlapped, ioError>>
vars == <<ingestVars, sessVars, clearVars, cfgVars, diskVars, baseVars, clearHist>>

SinkPath == TextFile \cup {NoPath}
Content == Msg \cup {Partial, Old, NoFile}

TypeOK ==
    /\ arrived \subseteq Msg
    /\ buffer \in Seq(Msg) /\ Len(buffer) <= BufferCap
    /\ pc \in [Worker -> {"idle", "buffer", "route", "anchor", "append",
                          "write", "record"}]
    /\ job \in [Worker -> Msg \cup {NoMsg}]
    /\ path \in [Worker -> SinkPath \cup Path]
    /\ sessPath \in SinkPath /\ sessOff \in Nat /\ saved \subseteq Path
    /\ clearing \in {"no", "list", "blobs", "sinks", "text", "files"}
    /\ scope \in {"transient", "all"}
    /\ victims \subseteq FileMsg
    /\ cPath \in SinkPath /\ cOff \in Nat /\ cSaved \subseteq Path
    /\ cfgText \in SinkPath /\ cfgDisk \in SinkPath
    /\ setting \in SinkPath \cup {"none"}
    /\ configs \in 0 .. MaxConfig
    /\ blobs \subseteq FileMsg
    /\ text \in [TextFile -> Seq(TextMsg \cup {Old})]
    /\ disk \in [Path -> Content]
    /\ baseText \in [TextFile -> Seq(TextMsg \cup {Old})]
    /\ baseDisk \in [Path -> Content]
    /\ restarts \in 0 .. MaxRestart
    /\ overlapped \subseteq Msg /\ ioError \in BOOLEAN

\* fileSize: 0 for a file that does not exist.
fileSize(t) == IF t = NoPath THEN 0 ELSE Len(text[t])

\* New, with newSession, over a disk that has only old content.
Init ==
    /\ arrived = {} /\ buffer = <<>>
    /\ pc = [w \in Worker |-> "idle"]
    /\ job = [w \in Worker |-> NoMsg]
    /\ path = [w \in Worker |-> NoPath]
    /\ text = [t \in TextFile |-> IF t \in OldText THEN <<Old>> ELSE <<>>]
    /\ disk = [p \in Path |-> IF p \in OldFile THEN Old ELSE NoFile]
    /\ blobs = {}
    /\ cfgDisk = FirstText /\ cfgText = FirstText
    /\ sessPath = FirstText /\ sessOff = fileSize(FirstText) /\ saved = {}
    /\ setting = "none" /\ configs = 0
    /\ clearing = "no" /\ scope = "transient" /\ victims = {}
    /\ cPath = NoPath /\ cOff = 0 /\ cSaved = {}
    /\ baseText = text /\ baseDisk = disk /\ restarts = 0
    /\ overlapped = {} /\ ioError = FALSE
-----------------------------------------------------------------------------
\* ingest returns.
Finish(w) ==
    /\ pc' = [pc EXCEPT ![w] = "idle"]
    /\ job' = [job EXCEPT ![w] = NoMsg]
    /\ path' = [path EXCEPT ![w] = NoPath]

\* ingest up to the blob, for an id that Seen did not know: an image or file
\* is verified and its blob written.  A bad hash drops the item; so does a
\* write that fails, which may leave a blob behind.
Accept(w, m) ==
    /\ pc[w] = "idle" /\ m \notin arrived
    /\ arrived' = arrived \cup {m}
    /\ \/ /\ pc' = [pc EXCEPT ![w] = "buffer"]
          /\ job' = [job EXCEPT ![w] = m]
          /\ blobs' = blobs \cup ({m} \cap FileMsg)
          /\ overlapped' = IF clearing = "no" THEN overlapped ELSE overlapped \cup {m}
       \/ /\ m \in FileMsg
          /\ blobs' \in {blobs, blobs \cup {m}}
          /\ UNCHANGED <<pc, job, overlapped>>
    /\ UNCHANGED <<buffer, path, sessVars, clearVars, cfgVars, text, disk, baseVars,
                   ioError>>

\* Mutant: the capacity is checked before the append.
Buffer_Overfull(w) ==
    /\ pc[w] = "buffer"
    /\ buffer' = Append(IF Len(buffer) > BufferCap THEN Tail(buffer) ELSE buffer, job[w])
    /\ pc' = [pc EXCEPT ![w] = "route"]
    /\ UNCHANGED <<arrived, job, path, sessVars, clearVars, cfgVars, diskVars,
                   baseVars, clearHist>>

\* The locked append to the ring buffer, which keeps the newest BufferCap.
Buffer(w) ==
    /\ pc[w] = "buffer"
    /\ buffer' = Append(IF Len(buffer) = BufferCap THEN Tail(buffer) ELSE buffer, job[w])
    /\ pc' = [pc EXCEPT ![w] = "route"]
    /\ UNCHANGED <<arrived, job, path, sessVars, clearVars, cfgVars, diskVars,
                   baseVars, clearHist>>

\* dedupPath: <<n, k>> is the first path of name n that is free.
dedupPath(n, k) ==
    /\ disk[<<n, k>>] = NoFile
    /\ \A j \in 1 .. k - 1 : disk[<<n, j>>] # NoFile

\* routeSinks: cfg.Get() picks the sink; text with no text_file has none.
RouteSinks(w) ==
    /\ pc[w] = "route"
    /\ \/ /\ job[w] \in TextMsg /\ cfgText # NoPath
          /\ path' = [path EXCEPT ![w] = cfgText]
          /\ pc' = [pc EXCEPT ![w] = "anchor"]
          /\ UNCHANGED job
       \/ /\ job[w] \in TextMsg /\ cfgText = NoPath
          /\ Finish(w)
       \/ /\ job[w] \in FileMsg
          /\ \E k \in 1 .. MaxCopy :
               /\ dedupPath(Name[job[w]], k)
               /\ path' = [path EXCEPT ![w] = <<Name[job[w]], k>>]
          /\ pc' = [pc EXCEPT ![w] = "write"]
          /\ UNCHANGED job
    /\ UNCHANGED <<arrived, buffer, sessVars, clearVars, cfgVars, diskVars,
                   baseVars, clearHist>>

\* Mutant: the offset of the previous path is kept.
SetTextFile_KeepsOffset(t) ==
    /\ sessPath' = t
    /\ UNCHANGED sessOff

\* setTextFile: a new path becomes the session's, from its current size on.
SetTextFile(t) ==
    \/ t = sessPath /\ UNCHANGED <<sessPath, sessOff>>
    \/ t # sessPath /\ sessPath' = t /\ sessOff' = fileSize(t)

\* appendTextSink: anchor the offset, then open and append; either may fail.
Anchor(w) ==
    /\ pc[w] = "anchor"
    /\ SetTextFile(path[w])
    /\ pc' = [pc EXCEPT ![w] = "append"]
    /\ UNCHANGED <<arrived, buffer, job, path, saved, clearVars, cfgVars, diskVars,
                   baseVars, clearHist>>

AppendText(w) ==
    /\ pc[w] = "append"
    /\ \/ text' = [text EXCEPT ![path[w]] = Append(@, job[w])]
       \/ UNCHANGED text
    /\ Finish(w)
    /\ UNCHANGED <<arrived, buffer, sessVars, clearVars, cfgVars, blobs,
                   disk, baseVars, clearHist>>

\* writeSaveDir: MkdirAll or WriteFile fails, the latter perhaps after it
\* created the file; or the file is written and then recorded.
WriteFile(w) ==
    /\ pc[w] = "write"
    /\ \/ /\ disk' = [disk EXCEPT ![path[w]] = job[w]]
          /\ pc' = [pc EXCEPT ![w] = "record"]
          /\ UNCHANGED <<job, path>>
       \/ /\ \/ disk' = [disk EXCEPT ![path[w]] = Partial]
             \/ UNCHANGED disk
          /\ Finish(w)
    /\ UNCHANGED <<arrived, buffer, sessVars, clearVars, cfgVars, blobs,
                   text, baseVars, clearHist>>

\* Mutant: the bare name is recorded, not the de-duplicated path.
RecordSaved_BareName(w) ==
    /\ pc[w] = "record"
    /\ saved' = saved \cup {<<Name[job[w]], 1>>}
    /\ Finish(w)
    /\ UNCHANGED <<arrived, buffer, sessPath, sessOff, clearVars, cfgVars,
                   diskVars, baseVars, clearHist>>

RecordSaved(w) ==
    /\ pc[w] = "record"
    /\ saved' = saved \cup {path[w]}
    /\ Finish(w)
    /\ UNCHANGED <<arrived, buffer, sessPath, sessOff, clearVars, cfgVars,
                   diskVars, baseVars, clearHist>>
-----------------------------------------------------------------------------
\* Mutant: the buffer survives the clear.
ClearBuffer_Kept(sc) ==
    /\ clearing = "no"
    /\ clearing' = "list" /\ scope' = sc
    /\ overlapped' = {job[w] : w \in {v \in Worker : pc[v] # "idle"}}
    /\ UNCHANGED <<arrived, buffer, pc, job, path, sessVars, victims, cPath, cOff,
                   cSaved, cfgVars, diskVars, baseVars, ioError>>

\* clearTransient: empty the buffer, list the blob cache, remove what was
\* listed.  The errors of the removals are ignored; when ReadDir fails,
\* nothing is removed.
ClearBuffer(sc) ==
    /\ clearing = "no"
    /\ buffer' = <<>>
    /\ clearing' = "list" /\ scope' = sc
    /\ overlapped' = {job[w] : w \in {v \in Worker : pc[v] # "idle"}}
    /\ UNCHANGED <<arrived, pc, job, path, sessVars, victims, cPath, cOff, cSaved,
                   cfgVars, diskVars, baseVars, ioError>>

ListBlobs ==
    /\ clearing = "list"
    /\ clearing' = "blobs" /\ victims' = blobs
    /\ UNCHANGED <<ingestVars, sessVars, scope, cPath, cOff, cSaved, cfgVars,
                   diskVars, baseVars, clearHist>>

RemoveBlobs ==
    /\ clearing = "blobs"
    /\ \E failed \in SUBSET victims : blobs' = (blobs \ victims) \cup (blobs \cap failed)
    /\ clearing' = IF scope = "all" THEN "sinks" ELSE "no"
    /\ victims' = {}
    /\ UNCHANGED <<ingestVars, sessVars, scope, cPath, cOff, cSaved, cfgVars,
                   text, disk, baseVars, clearHist>>

\* clearSinks, for clear --all: copy the session record, and forget the
\* saved files, under the lock.
TakeSinks ==
    /\ clearing = "sinks"
    /\ clearing' = "text"
    /\ cPath' = sessPath /\ cOff' = sessOff
    /\ cSaved' = saved /\ saved' = {}
    /\ UNCHANGED <<ingestVars, sessPath, sessOff, scope, victims, cfgVars, diskVars,
                   baseVars, clearHist>>

\* Truncate back to the offset what has grown beyond it, unless it fails.
Truncate ==
    /\ clearing = "text"
    /\ clearing' = "files"
    /\ \/ /\ cPath # NoPath /\ fileSize(cPath) > cOff
          /\ \/ /\ text' = [text EXCEPT ![cPath] = SubSeq(@, 1, cOff)]
                /\ UNCHANGED ioError
             \/ ioError' = TRUE /\ UNCHANGED text
       \/ /\ cPath = NoPath \/ fileSize(cPath) <= cOff
          /\ UNCHANGED <<text, ioError>>
    /\ UNCHANGED <<ingestVars, sessVars, scope, victims, cPath, cOff, cSaved,
                   cfgVars, blobs, disk, baseVars, overlapped>>

RemoveFile(p) ==
    /\ clearing = "files" /\ p \in cSaved
    /\ cSaved' = cSaved \ {p}
    /\ \/ disk' = [disk EXCEPT ![p] = NoFile] /\ UNCHANGED ioError
       \/ ioError' = TRUE /\ UNCHANGED disk
    /\ UNCHANGED <<ingestVars, sessVars, clearing, scope, victims, cPath, cOff,
                   cfgVars, blobs, text, baseVars, overlapped>>

\* handleClear or handleDaemonStop answers.
ClearDone ==
    /\ clearing = "files" /\ cSaved = {}
    /\ clearing' = "no" /\ scope' = "transient" /\ cPath' = NoPath /\ cOff' = 0
    /\ UNCHANGED <<ingestVars, sessVars, victims, cSaved, cfgVars, diskVars,
                   baseVars, clearHist>>
-----------------------------------------------------------------------------
\* handleConfigSet text_file: SetKey changes memory and saves, then the
\* session is anchored; when the save fails the handler returns first.
ConfigSet(t) ==
    /\ setting = "none" /\ configs < MaxConfig
    /\ configs' = configs + 1
    /\ cfgText' = t
    /\ \/ cfgDisk' = t /\ setting' = t
       \/ UNCHANGED <<cfgDisk, setting>>
    /\ UNCHANGED <<ingestVars, sessVars, clearVars, diskVars, baseVars, clearHist>>

ConfigAnchor ==
    /\ setting # "none"
    /\ SetTextFile(setting)
    /\ setting' = "none"
    /\ UNCHANGED <<ingestVars, saved, clearVars, cfgText, cfgDisk, configs,
                   diskVars, baseVars, clearHist>>

\* The process ends, by a stop, a signal or a crash, wherever its goroutines
\* are; a stop or signal that clears first has taken the steps above.  The
\* next daemon starts a new session on what is on disk.
Restart ==
    /\ restarts < MaxRestart
    /\ restarts' = restarts + 1
    /\ buffer' = <<>>
    /\ pc' = [w \in Worker |-> "idle"]
    /\ job' = [w \in Worker |-> NoMsg]
    /\ path' = [w \in Worker |-> NoPath]
    /\ cfgText' = cfgDisk
    /\ sessPath' = cfgDisk /\ sessOff' = fileSize(cfgDisk) /\ saved' = {}
    /\ setting' = "none" /\ configs' = 0
    /\ clearing' = "no" /\ scope' = "transient" /\ victims' = {}
    /\ cPath' = NoPath /\ cOff' = 0 /\ cSaved' = {}
    /\ baseText' = text /\ baseDisk' = disk
    /\ overlapped' = {} /\ ioError' = FALSE
    /\ UNCHANGED <<arrived, cfgDisk, diskVars>>

Next ==
    \/ \E w \in Worker :
         \/ \E m \in Msg : Accept(w, m)
         \/ Buffer(w) \/ RouteSinks(w) \/ Anchor(w) \/ AppendText(w)
         \/ WriteFile(w) \/ RecordSaved(w)
    \/ \E sc \in {"transient", "all"} : ClearBuffer(sc)
    \/ ListBlobs \/ RemoveBlobs \/ TakeSinks
    \/ Truncate \/ (\E p \in Path : RemoveFile(p)) \/ ClearDone
    \/ (\E t \in SinkPath : ConfigSet(t)) \/ ConfigAnchor
    \/ Restart

Spec == Init /\ [][Next]_vars
-----------------------------------------------------------------------------
\* Whatever clears, reconfigurations and ingests interleave, a session never
\* changes what was there before it: text files keep their old beginning,
\* files of save_dir that existed keep their content.
PreSessionPreserved ==
    /\ \A t \in TextFile : /\ Len(text[t]) >= Len(baseText[t])
                           /\ \A i \in 1 .. Len(baseText[t]) : text[t][i] = baseText[t][i]
    /\ \A p \in Path : baseDisk[p] # NoFile => disk[p] = baseDisk[p]

\* A buffered image or file has its blob on disk, for recv --emit-path and
\* paste, unless its ingest overlapped a clear.
BufferedHasBlob ==
    \A i \in DOMAIN buffer :
        buffer[i] \in FileMsg => buffer[i] \in blobs \cup overlapped

\* Everything a session wrote, except by ingests that overlapped the clear.
SessionText(t) ==
    {text[t][i] : i \in Len(baseText[t]) + 1 .. Len(text[t])} \ overlapped

SessionFiles ==
    {p \in Path : disk[p] # baseDisk[p] /\ disk[p] \notin overlapped \cup {Partial}}

AllCleared == clearing = "files" /\ cSaved = {} /\ ~ioError

\* When a clear --all answers, in a session without I/O errors, every file the session saved
\* is gone, also those whose name another ingest took at the same time, and
\* so is the appended text of a session that kept its text_file.
ClearAllTakesBack ==
    AllCleared =>
        /\ SessionFiles = {}
        /\ configs = 0 => \A t \in TextFile : SessionText(t) = {}
=============================================================================
