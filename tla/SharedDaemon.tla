---------------------------- MODULE SharedDaemon ----------------------------
(***************************************************************************)
(* The daemon of the Go experiments over a transport that hands it each    *)
(* envelope of a peer at most once (PeerTransport), and its own envelopes  *)
(* at any time after they were sent, as gossip may: send, ingest and its   *)
(* sinks, the subscriber's channel, clear, and the end of the process with *)
(* its exit policy.                                                        *)
(*                                                                         *)
(* Each envelope that passes Seen is in an ingest goroutine of its own,    *)
(* pc[m].  The process is "down", in "run", "stopping" once its context is *)
(* cancelled, or "exited" once applyExitPolicy is done and goroutines run  *)
(* until the process ends.  save_dir is set throughout and the names in it *)
(* differ; a clear, whose calls may fail one by one, is a single step.     *)
(* What runs between its calls, and names that collide, are in RoomStore,  *)
(* whose clear is the same code; the clipboard is in RoomIpc.              *)
(***************************************************************************)
EXTENDS Functions, Integers, Sequences

CONSTANTS Text, Image,  \* envelopes of peers: text, and image or file
          Own,          \* texts this device sends
          TextFile,     \* paths that text_file may be set to
          Old,          \* content from before the first run
          ClearOnExit,  \* the configured policy
          StreamCap,    \* what a subscriber's channel and connection hold
          MaxRuns,      \* bound: runs of the process
          MaxConfig     \* bound: config sets

Msg == Text \cup Image \cup Own
Policy == {"transient", "all", "never"}

ASSUME SharedAssumption ==
    /\ Text \cap Image = {} /\ Own \cap (Text \cup Image) = {}
    /\ Old \notin Msg /\ TextFile # {}
    /\ ClearOnExit \in Policy \cup {"ask"}
    /\ StreamCap \in Nat \ {0} /\ MaxRuns \in Nat /\ MaxConfig \in Nat

VARIABLES life,      \* where the process is
          policy,    \* d.stopPolicy, "" when stopped by a signal
          sent,      \* own texts that were broadcast, in any run
          seen,      \* the msg_ids Dedupe knows
          pc,        \* pc[m]: where the ingest of m is
          buffer,    \* d.buffer; its order and its cap are in RoomStore
          baseline,  \* d.textBaseline: the size to truncate to, -1 for none
          saved,     \* d.sessionSaveFiles
          sub,       \* the one subscriber: "off", "live", or "closed" by the daemon
          stream,    \* items on their way to it
          into,      \* into[m]: the path appendTextFile was called with
          cfgText,   \* settings.TextFile in memory
          cfgFile,   \* text_file in config.json
          blobs, text, disk,  \* on disk: blob cache, text files, save_dir
          base,      \* history: text and disk when the run began, or the last one ended
          late,      \* history: ingests under way when the exit policy was applied,
                     \*   and those that began later
          since,     \* history: sink writes of the run after its last clear --all
          keptSinks, \* history: what a failed call of this run left in the sinks
          keptBlobs, \* history: the blobs that the exit policy left
          handed,    \* history: items ingest took while the subscriber was in d.subs
          dropped,   \* history: those skipped because the channel was full
          runs, configs       \* counters against the bounds

procVars == <<life, policy, runs>>
memVars == <<seen, pc, into, buffer, baseline, saved>>
subVars == <<sub, stream, handed, dropped>>
diskVars == <<blobs, text, disk>>
cfgVars == <<cfgText, cfgFile, configs>>
histVars == <<base, late, since, keptSinks, keptBlobs>>
dvars == <<procVars, sent, memVars, subVars, diskVars, cfgVars, histVars>>

DaemonTypeOK ==
    /\ life \in {"down", "run", "stopping", "exited"}
    /\ policy \in Policy \cup {""}
    /\ sent \subseteq Own /\ seen \subseteq Msg
    /\ pc \in [Msg -> {"none", "buffer", "notify", "sink", "append", "record", "done"}]
    /\ into \in [Text -> TextFile]
    /\ buffer \subseteq Msg
    /\ baseline \in [TextFile -> Nat \cup {-1}]
    /\ saved \subseteq Image /\ blobs \subseteq Image /\ disk \subseteq Image
    /\ sub \in {"off", "live", "closed"}
    /\ Len(stream) <= StreamCap /\ Range(stream) \subseteq Msg
    /\ cfgText \in TextFile /\ cfgFile \in TextFile
    /\ text \in [TextFile -> Seq(Text \cup {Old})]
    /\ late \subseteq Msg /\ since \subseteq Msg
    /\ keptSinks \subseteq Text \cup Image \cup {Old} /\ keptBlobs \subseteq Image
    /\ handed \subseteq Msg /\ dropped \subseteq handed
    /\ runs \in 0 .. MaxRuns /\ configs \in 0 .. MaxConfig

DaemonInit ==
    /\ life = "down" /\ policy = "" /\ runs = 0
    /\ sent = {} /\ seen = {} /\ pc = [m \in Msg |-> "none"] /\ buffer = {}
    /\ baseline = [t \in TextFile |-> -1] /\ saved = {}
    /\ sub = "off" /\ stream = <<>> /\ handed = {} /\ dropped = {}
    /\ cfgText = (CHOOSE t \in TextFile : TRUE) /\ cfgFile = cfgText /\ configs = 0
    /\ into = [m \in Text |-> cfgText]
    /\ blobs = {} /\ disk = {} /\ text = [t \in TextFile |-> <<Old>>]
    /\ base = [text |-> text, disk |-> disk] /\ late = {} /\ since = {}
    /\ keptSinks = {} /\ keptBlobs = {}
-----------------------------------------------------------------------------
\* Mutant: the size is recorded anew each time.
RecordTextBaseline_Again(t) == baseline' = [baseline EXCEPT ![t] = Len(text[t])]

\* Mutant: the file is not looked at, so the size stays 0.
RecordTextBaseline_NoStat(t) ==
    baseline' = [baseline EXCEPT ![t] = IF @ = -1 THEN 0 ELSE @]

\* recordTextBaseline: the size at the first observation of the path.
RecordTextBaseline(t) ==
    baseline' = [baseline EXCEPT ![t] = IF @ = -1 THEN Len(text[t]) ELSE @]

\* New, and Run up to the accept loop; the memory is fresh (see ProcessEnds).
Run ==
    /\ life = "down" /\ runs < MaxRuns
    /\ life' = "run" /\ runs' = runs + 1
    /\ RecordTextBaseline(cfgText)
    /\ UNCHANGED <<policy, sent, seen, pc, into, buffer, saved, subVars, diskVars, cfgVars,
                   histVars>>

\* Dedupe.Seen marks the msg_id; its eviction is in RoomLink.
Seen(m) == seen' = seen \cup {m}

\* handleSend: the own msg_id is marked before the broadcast.
HandleSend(m) ==
    /\ life = "run" /\ m \in Own \ sent
    /\ Seen(m)
    /\ sent' = sent \cup {m}
    /\ UNCHANGED <<procVars, pc, into, buffer, baseline, saved, subVars, diskVars, cfgVars,
                   histVars>>

\* The process has not ended, so goroutines still run.
Alive == life # "down"

\* Mutant: the sender of the envelope is not looked at.
Ingest_OwnToo(m) ==
    /\ Alive /\ m \notin seen
    /\ IF m \in Own THEN m \in sent ELSE pc[m] = "none"
    /\ Seen(m)
    /\ \/ /\ pc' = [pc EXCEPT ![m] = "buffer"]
          /\ blobs' = blobs \cup ({m} \cap Image)
       \/ /\ m \in Image
          /\ pc' = [pc EXCEPT ![m] = "done"]
          /\ blobs' \in {blobs, blobs \cup {m}}
    /\ late' = IF life = "exited" THEN late \cup {m} ELSE late
    /\ UNCHANGED <<procVars, sent, into, buffer, baseline, saved, subVars, text, disk,
                   cfgVars, base, since, keptSinks, keptBlobs>>

\* ingest up to the blob, called from a stream's goroutine, also after the
\* transport was closed and the exit policy was applied.  A msg_id that is known
\* ends it without a trace; an own envelope that a peer or an earlier run's
\* broadcast brings back is remembered and dropped; a blob that does not verify,
\* or cannot be written, drops the item.
Ingest(m) ==
    /\ Alive /\ m \notin seen
    /\ IF m \in Own THEN m \in sent ELSE pc[m] = "none"
    /\ Seen(m)
    /\ \/ /\ m \notin Own
          /\ pc' = [pc EXCEPT ![m] = "buffer"]
          /\ blobs' = blobs \cup ({m} \cap Image)
       \/ m \in Own /\ UNCHANGED <<pc, blobs>>
       \/ /\ m \in Image
          /\ pc' = [pc EXCEPT ![m] = "done"]
          /\ blobs' \in {blobs, blobs \cup {m}}
    /\ late' = IF life = "exited" THEN late \cup {m} ELSE late
    /\ UNCHANGED <<procVars, sent, into, buffer, baseline, saved, subVars, text, disk,
                   cfgVars, base, since, keptSinks, keptBlobs>>

\* The locked block: append to the buffer and copy the subscribers.
Buffer(m) ==
    /\ Alive /\ pc[m] = "buffer"
    /\ buffer' = buffer \cup {m}
    /\ handed' = IF sub = "live" THEN handed \cup {m} ELSE handed
    /\ pc' = [pc EXCEPT ![m] = "notify"]
    /\ UNCHANGED <<procVars, sent, seen, into, baseline, saved, sub, stream, dropped,
                   diskVars, cfgVars, histVars>>

\* Mutant: the channel is written again when the item was already taken.
Notify_Twice(m) ==
    /\ Alive /\ pc[m] = "notify"
    /\ pc' = [pc EXCEPT ![m] = IF m \in Range(stream) THEN "sink" ELSE @]
    /\ stream' = IF m \in handed /\ sub = "live" /\ Len(stream) < StreamCap
                 THEN Append(stream, m) ELSE stream
    /\ dropped' = IF m \in handed /\ sub = "live" /\ Len(stream) = StreamCap
                  THEN dropped \cup {m} ELSE dropped
    /\ UNCHANGED <<procVars, sent, seen, into, buffer, baseline, saved, sub, handed,
                   diskVars, cfgVars, histVars>>

\* Mutant: the channel's capacity is not looked at.
Notify_Overfull(m) ==
    /\ Alive /\ pc[m] = "notify"
    /\ pc' = [pc EXCEPT ![m] = "sink"]
    /\ stream' = IF m \in handed /\ sub = "live" THEN Append(stream, m) ELSE stream
    /\ UNCHANGED <<procVars, sent, seen, into, buffer, baseline, saved, sub, handed, dropped,
                   diskVars, cfgVars, histVars>>

\* Offer the item to the subscriber that was copied, unless its channel is
\* full; what applyAutoCopy does is in RoomIpc.
Notify(m) ==
    /\ Alive /\ pc[m] = "notify"
    /\ pc' = [pc EXCEPT ![m] = "sink"]
    /\ stream' = IF m \in handed /\ sub = "live" /\ Len(stream) < StreamCap
                 THEN Append(stream, m) ELSE stream
    /\ dropped' = IF m \in handed /\ sub = "live" /\ Len(stream) = StreamCap
                  THEN dropped \cup {m} ELSE dropped
    /\ UNCHANGED <<procVars, sent, seen, into, buffer, baseline, saved, sub, handed,
                   diskVars, cfgVars, histVars>>

\* routeSinks for a text, and appendTextFile up to the baseline: the path is
\* the one that is configured now, ...
RouteText(m) ==
    /\ Alive /\ m \in Text /\ pc[m] = "sink"
    /\ into' = [into EXCEPT ![m] = cfgText]
    /\ RecordTextBaseline(cfgText)
    /\ pc' = [pc EXCEPT ![m] = "append"]
    /\ UNCHANGED <<procVars, sent, seen, buffer, saved, subVars, diskVars, cfgVars, histVars>>

\* ... and the rest of it, whatever is configured or cleared meanwhile: append
\* to that file, or fail.
AppendTextFile(m) ==
    /\ Alive /\ m \in Text /\ pc[m] = "append"
    /\ \/ /\ text' = [text EXCEPT ![into[m]] = Append(@, m)]
          /\ since' = since \cup {m}
       \/ UNCHANGED <<text, since>>
    /\ pc' = [pc EXCEPT ![m] = "done"]
    /\ UNCHANGED <<procVars, sent, seen, into, buffer, baseline, saved, subVars, blobs,
                   disk, cfgVars, base, late, keptSinks, keptBlobs>>

\* routeSinks and saveToDir: write the file, or fail, which may leave a part of
\* it that is not recorded, ...
SaveToDir(m) ==
    /\ Alive /\ m \in Image /\ pc[m] = "sink"
    /\ \/ /\ disk' = disk \cup {m} /\ since' = since \cup {m}
          /\ pc' = [pc EXCEPT ![m] = "record"]
          /\ UNCHANGED keptSinks
       \/ /\ disk' \in {disk, disk \cup {m}}
          /\ keptSinks' = keptSinks \cup (disk' \ disk)
          /\ pc' = [pc EXCEPT ![m] = "done"]
          /\ UNCHANGED since
    /\ UNCHANGED <<procVars, sent, seen, into, buffer, baseline, saved, subVars, blobs,
                   text, cfgVars, base, late, keptBlobs>>

\* ... then record it under the lock.
RecordSaved(m) ==
    /\ Alive /\ pc[m] = "record"
    /\ saved' = saved \cup {m}
    /\ pc' = [pc EXCEPT ![m] = "done"]
    /\ UNCHANGED <<procVars, sent, seen, into, buffer, baseline, subVars, diskVars, cfgVars,
                   histVars>>
-----------------------------------------------------------------------------
\* clearTransient: the buffer and the blob cache.  A ReadDir that fails leaves
\* all of it, a Remove that fails leaves that blob.
ClearTransient ==
    /\ buffer' = {}
    /\ blobs' \in SUBSET blobs

\* What the run has appended to a text file.
Appended(t) == {text[t][i] : i \in Len(base.text[t]) + 1 .. Len(text[t])}

\* clearSinks: truncate every text file that was recorded, remove the files
\* that were, and keep the sizes for a later clear.  A call that fails, for the
\* text files F or the saved files G, is logged; the list of saved files is
\* gone all the same.
ClearSinks ==
    \E F \in SUBSET TextFile, G \in SUBSET saved :
        /\ text' = [t \in TextFile |-> IF baseline[t] = -1 \/ t \in F THEN text[t]
                                       ELSE SubSeq(text[t], 1, baseline[t])]
        /\ disk' = disk \ (saved \ G) /\ saved' = {}
        /\ since' = {m \in Msg : pc[m] = "record"}
        /\ keptSinks' = (keptSinks \cap Image) \cup G \cup UNION {Appended(t) : t \in F}

Clear(all) ==
    /\ ClearTransient
    /\ \/ all /\ ClearSinks
       \/ ~all /\ UNCHANGED <<text, disk, saved, since, keptSinks>>

\* handleClear
HandleClear(all) ==
    /\ life = "run"
    /\ Clear(all)
    /\ UNCHANGED <<procVars, sent, seen, pc, into, baseline, subVars, cfgVars, base, late,
                   keptBlobs>>

\* cmdClear: --all counts when --yes or the answer to a prompt confirms it.
CmdClear == \E confirmed \in BOOLEAN : HandleClear(confirmed)

\* SetKey for text_file changes the settings in memory, then saves them.
SetKey(t, ok) ==
    /\ configs < MaxConfig
    /\ cfgText' = t /\ configs' = configs + 1
    /\ cfgFile' = IF ok THEN t ELSE cfgFile

\* handleConfigSet: SetKey, then the baseline of the new file.  When the save
\* fails the handler returns in between, with the setting changed in memory.
HandleConfigSet(t) ==
    /\ life = "run"
    /\ \/ SetKey(t, TRUE) /\ RecordTextBaseline(t)
       \/ SetKey(t, FALSE) /\ UNCHANGED baseline
    /\ UNCHANGED <<procVars, sent, seen, pc, into, buffer, saved, subVars, diskVars, histVars>>

\* What cmdDaemonStop sends: the configured policy or, for "ask", the answer
\* to a prompt, which is transient without a terminal.
ExitPolicies == IF ClearOnExit = "ask" THEN Policy ELSE {ClearOnExit}

\* handleDaemonStop with the policy the client resolved, or a signal, which has
\* none: the answer is sent and the context is cancelled.
HandleDaemonStop(p) ==
    /\ life = "run" /\ p \in ExitPolicies \cup {""}
    /\ life' = "stopping" /\ policy' = p
    /\ UNCHANGED <<sent, runs, memVars, subVars, diskVars, cfgVars, histVars>>

\* handleSubscribe adds the channel; there is no replay of the buffer.
HandleSubscribe ==
    /\ life = "run" /\ sub = "off"
    /\ sub' = "live"
    /\ UNCHANGED <<procVars, sent, memVars, stream, handed, dropped, diskVars, cfgVars,
                   histVars>>

\* Mutant: the policy of the stop request is ignored.
ResolvePolicy_ConfigOnly(p) == IF ClearOnExit = "ask" THEN "transient" ELSE ClearOnExit

\* applyExitPolicy: the resolved policy of the stop wins over the config, and
\* "ask" means transient.
ResolvePolicy(p) ==
    IF p # "" THEN p ELSE IF ClearOnExit = "ask" THEN "transient" ELSE ClearOnExit

\* Run returns: the deferred calls remove the socket, close the transport and
\* apply the policy.  Ingests go on, and begin, until the process ends; d.done
\* ends the subscription.
Exit ==
    /\ life = "stopping"
    /\ life' = "exited"
    /\ \/ ResolvePolicy(policy) # "never" /\ Clear(ResolvePolicy(policy) = "all")
       \/ /\ ResolvePolicy(policy) = "never"
          /\ UNCHANGED <<buffer, blobs, text, disk, saved, since, keptSinks>>
    /\ keptBlobs' = blobs'
    /\ sub' = IF sub = "live" THEN "closed" ELSE sub
    /\ late' = {m \in Msg : pc[m] \notin {"none", "done"}}
    /\ UNCHANGED <<policy, runs, sent, seen, pc, into, baseline, stream, handed, dropped,
                   cfgVars, base>>

\* The process ends after Exit, or crashes; the memory is gone, and the next
\* one loads config.json.  The history is that of the next run from here on.
ProcessEnds ==
    /\ life' = "down" /\ policy' = ""
    /\ seen' = {} /\ buffer' = {}
    /\ pc' = [m \in Msg |-> IF pc[m] = "none" THEN "none" ELSE "done"]
    /\ baseline' = [t \in TextFile |-> -1] /\ saved' = {}
    /\ sub' = IF sub = "live" THEN "closed" ELSE sub
    /\ cfgText' = cfgFile /\ into' = [m \in Text |-> cfgFile]
    /\ base' = [text |-> text, disk |-> disk] /\ late' = {} /\ since' = {}
    /\ keptSinks' = {} /\ keptBlobs' = {}
    /\ UNCHANGED <<runs, sent, stream, handed, dropped, diskVars, cfgFile, configs>>

Quit == life = "exited" /\ ProcessEnds
Crash == life \in {"run", "stopping"} /\ ProcessEnds

IngestStep(m) ==
    \/ Buffer(m) \/ Notify(m) \/ RouteText(m) \/ AppendTextFile(m)
    \/ SaveToDir(m) \/ RecordSaved(m)
-----------------------------------------------------------------------------
\* What was on disk before a run stays there: no clear, reconfiguration or
\* exit policy takes back entries or files of an earlier run.
PriorContentKept ==
    /\ \A t \in TextFile : /\ Len(text[t]) >= Len(base.text[t])
                           /\ SubSeq(text[t], 1, Len(base.text[t])) = base.text[t]
    /\ base.disk \subseteq disk

\* What this run left in sink files.
SessionText == UNION {Appended(t) : t \in TextFile}
SessionFiles == disk \ base.disk

\* The sinks hold nothing of a run from before its last clear --all, be it a
\* request or the exit policy, also when text_file was switched to and fro:
\* what remains was written, or being written, after it, is a file that a
\* failed write or removal left, or a text that this clear's own truncation
\* failed on (the sizes are kept, so the next clear makes that good).
ClearAllTakesBack == SessionText \cup SessionFiles \subseteq since \cup keptSinks

\* A stop leaves behind what its policy keeps, and otherwise only items whose
\* ingest was under way while the policy was applied, or began even later (the
\* answer to the stop comes first, and nothing waits for those goroutines),
\* and what a failed call could not take back.
StopClears ==
    life = "exited" =>
        /\ policy # "never" /\ (policy = "" => ClearOnExit # "never") =>
               buffer \subseteq late /\ blobs \subseteq late \cup keptBlobs
        /\ policy = "all" \/ (policy = "" /\ ClearOnExit = "all") =>
               SessionText \cup SessionFiles \subseteq late \cup keptSinks

\* A device never receives what it sent, although the transport may bring it
\* back in a later run, whose dedupe set no longer knows it.
NoEcho == Own \cap (buffer \cup handed) = {}
=============================================================================
