----------------------------- MODULE RoomLaunch -----------------------------
(***************************************************************************)
(* The commands of one device and the daemon processes they start: who     *)
(* owns the IPC socket, who reads and writes config.json, and which server *)
(* each daemon dials.                                                      *)
(*                                                                         *)
(* A command dials the socket, spawns a daemon when nobody answers, and    *)
(* polls for 5 s; a daemon reads config.json, removes whatever is at the   *)
(* socket path, and listens.  None of them takes a lock.  A Mishap is an   *)
(* event outside the normal course of the commands, of which there are at  *)
(* most MaxEvents.                                                         *)
(***************************************************************************)
EXTENDS Integers

CONSTANTS Client,    \* processes that run a command, one at a time each
          Daemon,    \* bound: daemon processes at a time
          Target,    \* server addresses
          MaxEvents  \* bound: mishaps

NoServer == 0   \* settings.Server is ""
Absent == -1    \* config.json does not exist
NoDaemon == "no daemon"
NoFile == "no file"
Stale == "stale"  \* a socket file nobody listens on

ASSUME LaunchAssumption ==
    /\ Target \subseteq Nat \ {NoServer}
    /\ {NoDaemon, NoFile, Stale} \cap Daemon = {}
    /\ MaxEvents \in Nat

Request == [op : {"set", "stop"}, to : {NoServer}]
             \cup [op : {"join"}, to : Target]
NoRequest == [op |-> "set", to |-> NoServer]

VARIABLES config,  \* settings.Server as config.json has it
          sock,    \* what is at the socket path
          dpc,     \* dpc[d]: where daemon process d is
          server,  \* server[d]: settings.Server in its memory
          loops,   \* loops[d]: the targets its connect loops dial
          cpc,     \* cpc[c]: where the command of c is
          req,     \* req[c]: its request
          peer,    \* peer[c]: the daemon it is connected to
          joined,  \* history: the target of the last join that was saved
          stale,   \* history: daemons that read config.json before that
          forgot,  \* history: config.json was rewritten from an older read of it,
                   \* or a save failed, since that
          events   \* mishaps so far

launchVars == <<config, sock, dpc, server, loops, cpc, req, peer, joined, stale, forgot, events>>
clientVars == <<cpc, req, peer>>
joinVars == <<joined, stale, forgot>>

LaunchTypeOK ==
    /\ config \in Target \cup {NoServer, Absent}
    /\ sock \in Daemon \cup {NoFile, Stale}
    /\ dpc \in [Daemon -> {"none", "open", "defaults", "new", "removed", "listening",
                           "stopping", "closed"}]
    /\ server \in [Daemon -> Target \cup {NoServer}]
    /\ loops \in [Daemon -> SUBSET Target]
    /\ cpc \in [Client -> {"idle", "open", "defaults", "dial", "poll", "sent"}]
    /\ req \in [Client -> Request]
    /\ peer \in [Client -> Daemon \cup {NoDaemon}]
    /\ joined \in Target \cup {NoServer} /\ stale \subseteq Daemon /\ forgot \in BOOLEAN
    /\ events \in 0 .. MaxEvents

LaunchInit ==
    /\ config = Absent /\ sock = NoFile
    /\ dpc = [d \in Daemon |-> "none"] /\ server = [d \in Daemon |-> NoServer]
    /\ loops = [d \in Daemon |-> {}]
    /\ cpc = [c \in Client |-> "idle"] /\ req = [c \in Client |-> NoRequest]
    /\ peer = [c \in Client |-> NoDaemon]
    /\ joined = NoServer /\ stale = {} /\ forgot = FALSE /\ events = 0

Mishap == events < MaxEvents /\ events' = events + 1
Calm == UNCHANGED events
-----------------------------------------------------------------------------
\* A connect to the socket path succeeds.
Answering == sock \in Daemon /\ dpc[sock] \in {"listening", "stopping"}

\* A command begins; one that opens the configuration itself does so first.
Call(c, r, first) ==
    /\ cpc[c] = "idle"
    /\ cpc' = [cpc EXCEPT ![c] = first] /\ req' = [req EXCEPT ![c] = r]
    /\ UNCHANGED <<config, sock, dpc, server, loops, peer, joinVars>>

\* The command returns.
Return(c) ==
    /\ cpc' = [cpc EXCEPT ![c] = "idle"] /\ req' = [req EXCEPT ![c] = NoRequest]
    /\ peer' = [peer EXCEPT ![c] = NoDaemon]

\* cmdJoin opens the configuration: Open and load find config.json or not ...
OpenConfig(c) ==
    /\ cpc[c] = "open"
    /\ cpc' = [cpc EXCEPT ![c] = IF config = Absent THEN "defaults" ELSE "dial"]
    /\ UNCHANGED <<config, sock, dpc, server, loops, req, peer, joinVars, events>>

\* ... and save writes the defaults when it was missing, whatever is there now.
SaveDefaults ==
    /\ config' = NoServer
    /\ forgot' = (forgot \/ config \in Target)

ClientDefaults(c) ==
    /\ cpc[c] = "defaults"
    /\ SaveDefaults
    /\ cpc' = [cpc EXCEPT ![c] = "dial"]
    /\ UNCHANGED <<sock, dpc, server, loops, req, peer, joined, stale, events>>

\* Dial succeeds, at once or while it polls.
DialOk(c) ==
    /\ cpc[c] \in {"dial", "poll"} /\ Answering
    /\ cpc' = [cpc EXCEPT ![c] = "sent"] /\ peer' = [peer EXCEPT ![c] = sock]
    /\ UNCHANGED <<config, sock, dpc, server, loops, req, joinVars, events>>

\* Nobody answers: spawnDaemon, then poll.
Spawn(c) ==
    /\ cpc[c] = "dial" /\ ~Answering /\ req[c].op # "stop"
    /\ \E d \in Daemon : dpc[d] = "none" /\ dpc' = [dpc EXCEPT ![d] = "open"]
    /\ cpc' = [cpc EXCEPT ![c] = "poll"]
    /\ UNCHANGED <<config, sock, server, loops, req, peer, joinVars, events>>

\* cmdDaemonStop does not spawn a daemon to stop it.  It opens the configuration
\* only once connected to a daemon, which has written config.json by then.
NothingToStop(c) ==
    /\ cpc[c] = "dial" /\ ~Answering /\ req[c].op = "stop"
    /\ Return(c)
    /\ UNCHANGED <<config, sock, dpc, server, loops, joinVars, events>>

\* The command fails before it reaches a daemon: the configuration, the
\* identity key, the socket path, or the start of the daemon.
GivesUp(c) ==
    /\ Mishap
    /\ cpc[c] \in {"open", "dial"}
    /\ Return(c)
    /\ UNCHANGED <<config, sock, dpc, server, loops, joinVars>>

Starting(d) == dpc[d] \in {"open", "defaults", "new", "removed"}

\* The 5 s are over: in time, unless a daemon is slow.
DialTimeout(c) ==
    /\ cpc[c] = "poll" /\ ~Answering
    /\ IF \E d \in Daemon : Starting(d) THEN Mishap ELSE Calm
    /\ Return(c)
    /\ UNCHANGED <<config, sock, dpc, server, loops, joinVars>>

\* The daemon went away before it answered.
ReadFails(c) ==
    /\ cpc[c] = "sent" /\ peer[c] = NoDaemon
    /\ Return(c)
    /\ UNCHANGED <<config, sock, dpc, server, loops, joinVars, events>>
-----------------------------------------------------------------------------
\* An accepted connection, whose handler runs until the process ends.
Serving(c, op) == cpc[c] = "sent" /\ peer[c] \in Daemon /\ req[c].op = op

\* Mutant: the target is kept in memory only.
HandleJoin_Unsaved(c) ==
    LET d == peer[c]  t == req[c].to IN
    /\ Serving(c, "join")
    /\ server' = [server EXCEPT ![d] = t]
    /\ Calm
    /\ UNCHANGED config /\ loops' = [loops EXCEPT ![d] = @ \cup {t}]
    /\ joined' = t /\ forgot' = FALSE
    /\ stale' = {e \in Daemon \ {d} : dpc[e] \notin {"none", "open"}}
    /\ Return(c)
    /\ UNCHANGED <<sock, dpc>>

\* handleJoin: SetServer changes the memory, then saves; if that fails the
\* answer is an error and no loop is started.
HandleJoin(c) ==
    LET d == peer[c]  t == req[c].to IN
    /\ Serving(c, "join")
    /\ server' = [server EXCEPT ![d] = t]
    /\ \/ /\ Calm
          /\ config' = t /\ loops' = [loops EXCEPT ![d] = @ \cup {t}]
          /\ joined' = t /\ forgot' = FALSE
          /\ stale' = {e \in Daemon \ {d} : dpc[e] \notin {"none", "open"}}
       \/ /\ Mishap
          /\ forgot' = TRUE
          /\ UNCHANGED <<config, loops, joined, stale>>
    /\ Return(c)
    /\ UNCHANGED <<sock, dpc>>

\* handleConfigSet of another key: SetKey saves all settings in memory, or
\* refuses the key or value.  To the state here, a request that does not touch
\* the configuration is one that was refused.
HandleConfigSet(c) ==
    /\ Serving(c, "set")
    /\ \/ /\ config' = server[peer[c]]
          /\ forgot' = (forgot \/ peer[c] \in stale)
       \/ UNCHANGED <<config, forgot>>
    /\ Return(c)
    /\ UNCHANGED <<sock, dpc, server, loops, joined, stale, events>>

\* handleDaemonStop answers, then triggers the stop.
HandleDaemonStop(c) ==
    LET d == peer[c] IN
    /\ Serving(c, "stop")
    /\ dpc' = [dpc EXCEPT ![d] = IF @ = "listening" THEN "stopping" ELSE @]
    /\ Return(c)
    /\ UNCHANGED <<config, sock, server, loops, joinVars, events>>
-----------------------------------------------------------------------------
\* cmdDaemon: Open and load, ...
DaemonOpens(d) ==
    /\ dpc[d] = "open"
    /\ dpc' = [dpc EXCEPT ![d] = IF config = Absent THEN "defaults" ELSE "new"]
    /\ server' = [server EXCEPT ![d] = IF config = Absent THEN NoServer ELSE config]
    /\ UNCHANGED <<config, sock, loops, clientVars, joinVars, events>>

\* ... save when there was no file, and New.
DaemonDefaults(d) ==
    /\ dpc[d] = "defaults"
    /\ SaveDefaults
    /\ dpc' = [dpc EXCEPT ![d] = "new"]
    /\ UNCHANGED <<sock, server, loops, clientVars, joined, stale, events>>

\* Run removes what is at the socket path, be it the socket of another daemon, ...
RemoveSocket(d) ==
    /\ dpc[d] = "new"
    /\ sock' = NoFile
    /\ dpc' = [dpc EXCEPT ![d] = "removed"]
    /\ UNCHANGED <<config, server, loops, clientVars, joinVars, events>>

\* ... listens, and dials the configured server, ...
Listen(d) ==
    /\ dpc[d] = "removed" /\ sock = NoFile
    /\ sock' = d
    /\ dpc' = [dpc EXCEPT ![d] = "listening"]
    /\ loops' = [loops EXCEPT ![d] = {server[d]} \ {NoServer}]
    /\ UNCHANGED <<config, server, clientVars, joinVars, events>>

\* The process is gone; its clients read an end of file.
ProcessEnds(d) ==
    /\ dpc' = [dpc EXCEPT ![d] = "none"] /\ server' = [server EXCEPT ![d] = NoServer]
    /\ loops' = [loops EXCEPT ![d] = {}]
    /\ peer' = [c \in Client |-> IF peer[c] = d THEN NoDaemon ELSE peer[c]]
    /\ stale' = stale \ {d}
    /\ UNCHANGED <<config, cpc, req, joined, forgot>>

\* ... or finds that another daemon was quicker.
ListenFails(d) ==
    /\ dpc[d] = "removed" /\ sock # NoFile
    /\ ProcessEnds(d)
    /\ UNCHANGED <<sock, events>>

\* A signal, which starts the same shutdown as a stop request.
Signal(d) ==
    /\ Mishap
    /\ dpc[d] = "listening" /\ dpc' = [dpc EXCEPT ![d] = "stopping"]
    /\ UNCHANGED <<config, sock, server, loops, clientVars, joinVars>>

\* The shutdown watcher closes the listener, which unlinks the path, ...
CloseListener(d) ==
    /\ dpc[d] = "stopping"
    /\ sock' = NoFile
    /\ dpc' = [dpc EXCEPT ![d] = "closed"]
    /\ UNCHANGED <<config, server, loops, clientVars, joinVars, events>>

\* ... and Run returns, which removes the path once more.
RunReturns(d) ==
    /\ dpc[d] = "closed"
    /\ sock' = NoFile
    /\ ProcessEnds(d)
    /\ UNCHANGED events

Crash(d) ==
    /\ Mishap
    /\ dpc[d] # "none"
    /\ sock' = IF sock = d THEN Stale ELSE sock
    /\ ProcessEnds(d)

DaemonStep(d) ==
    \/ DaemonOpens(d) \/ DaemonDefaults(d) \/ RemoveSocket(d) \/ Listen(d) \/ ListenFails(d)
    \/ CloseListener(d) \/ RunReturns(d)
ClientStep(c) ==
    \/ OpenConfig(c) \/ ClientDefaults(c) \/ DialOk(c) \/ Spawn(c) \/ NothingToStop(c)
    \/ GivesUp(c) \/ DialTimeout(c) \/ ReadFails(c)
    \/ HandleJoin(c) \/ HandleConfigSet(c) \/ HandleDaemonStop(c)
-----------------------------------------------------------------------------
\* A join that was answered sticks: whichever daemon serves the socket later,
\* after stops, crashes and races of several starts, dials its target, except
\* one that had read config.json before the join, or when such a process (or
\* a failed save) put something else into config.json.
JoinSticks ==
    joined # NoServer /\ ~forgot =>
        \A d \in Daemon \ stale :
            dpc[d] = "listening" => joined \in loops[d] /\ server[d] = joined
=============================================================================
