------------------------------ MODULE SharedTui ------------------------------
(***************************************************************************)
(* The chat TUI of the Go experiments over SharedDaemon: the items of its  *)
(* subscription become bubbles below the user's own, keys send, and quit   *)
(* through a prompt that clears the session.  Which of composer and        *)
(* history has the focus only decides which keys act; here all of them     *)
(* may.  The highlight and what is done with it are left out.              *)
(***************************************************************************)
EXTENDS SharedDaemon

VARIABLES tui,       \* "off", "on", "prompt" (confirmingQuit) or "quit"
          bubbles    \* m.bubbles

tvars == <<tui, bubbles>>
vars == <<dvars, tvars>>

TypeOK ==
    /\ DaemonTypeOK
    /\ tui \in {"off", "on", "prompt", "quit"}
    /\ Range(bubbles) \subseteq Msg

Init ==
    /\ DaemonInit
    /\ tui = "off" /\ bubbles = <<>>
-----------------------------------------------------------------------------
\* cmdTUI: a status request, the subscription, and an empty model.
Open ==
    /\ tui = "off"
    /\ HandleSubscribe
    /\ tui' = "on"
    /\ UNCHANGED bubbles

\* appendItem and appendOwnText
AppendBubble(m) == bubbles' = Append(bubbles, m)

\* Update of an itemMsg from waitForItem; the prompt does not stop it.
ShowItem ==
    /\ tui \in {"on", "prompt"} /\ stream # <<>>
    /\ AppendBubble(Head(stream))
    /\ stream' = Tail(stream)
    /\ UNCHANGED <<procVars, sent, memVars, sub, handed, dropped, diskVars, cfgVars,
                   histVars, tui>>

\* handleKey, enter: the own bubble, and sendText, whose request reaches the
\* daemon or fails, which leaves the bubble and shows a toast.
Enter(m) ==
    /\ tui = "on" /\ m \in Own \ (sent \cup Range(bubbles))
    /\ AppendBubble(m)
    /\ HandleSend(m) \/ UNCHANGED dvars
    /\ UNCHANGED tui

gotItem == \E i \in DOMAIN bubbles : bubbles[i] \notin Own

\* The program ends and closes the subscription's connection.
Leave ==
    /\ tui' = "quit" /\ bubbles' = <<>>
    /\ sub' = "closed" /\ stream' = <<>> /\ handed' = {} /\ dropped' = {}

\* ctrl+c, or q while browsing: requestQuit.
RequestQuit ==
    /\ tui = "on"
    /\ \/ gotItem /\ tui' = "prompt" /\ UNCHANGED <<bubbles, subVars>>
       \/ ~gotItem /\ Leave
    /\ UNCHANGED <<procVars, sent, memVars, diskVars, cfgVars, histVars>>

\* The prompt: t and a clear before the program ends, n does not, esc goes
\* back.  A clear that reaches no daemon is ignored.
Answer(key) ==
    /\ tui = "prompt"
    /\ \/ key = "esc" /\ tui' = "on" /\ UNCHANGED <<bubbles, subVars>>
       \/ key # "esc" /\ Leave
    /\ \/ key \in {"t", "a"} /\ life = "run" /\ Clear(key = "a")
       \/ /\ key \in {"n", "esc"} \/ life # "run"
          /\ UNCHANGED <<buffer, blobs, text, disk, saved, since, keptSinks>>
    /\ UNCHANGED <<procVars, sent, seen, pc, into, baseline, cfgVars, base, late,
                   keptBlobs>>

Next ==
    \/ /\ \/ Run \/ Exit \/ Quit \/ Crash
          \/ \E m \in Msg : HandleSend(m) \/ Ingest(m) \/ IngestStep(m)
          \/ CmdClear
          \/ \E t \in TextFile : HandleConfigSet(t)
          \/ \E p \in Policy \cup {""} : HandleDaemonStop(p)
       /\ UNCHANGED tvars
    \/ Open \/ ShowItem \/ RequestQuit
    \/ \E m \in Own : Enter(m)
    \/ \E key \in {"t", "a", "n", "esc"} : Answer(key)

Spec == Init /\ [][Next]_vars
-----------------------------------------------------------------------------
\* The chat shows each item once, and every item that ingest took while the
\* TUI was subscribed is shown, on its way, or was skipped because the channel
\* was full; only the end of the daemon loses others.
ChatIsComplete ==
    /\ IsInjective(bubbles \o stream)
    /\ Range(bubbles \o stream) \ Own \subseteq handed
    /\ sub = "live" =>
         handed \subseteq Range(bubbles \o stream) \cup dropped
                          \cup {m \in Msg : pc[m] = "notify"}
=============================================================================
