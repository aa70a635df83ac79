----------------------------- MODULE RoomRemote -----------------------------
(***************************************************************************)
(* `room remote <host>` on top of the commands and daemons of RoomLaunch:  *)
(* detect, install, start a server, open a tunnel, record both in the      *)
(* state file, join; and `--stop`, which takes down what the file records. *)
(*                                                                         *)
(* One such command at a time, against everything that happens by itself:  *)
(* ssh fails, the user interrupts, the tunnel or the server dies, another  *)
(* device starts a server on the host, other commands run on this device,  *)
(* another program takes a local port.  Process ids are not reused, and    *)
(* the host is one of the supported systems, where the programs that the   *)
(* command calls may be missing.                                           *)
(***************************************************************************)
EXTENDS RoomLaunch

CONSTANTS Me,      \* the process of the remote commands
          RPort,   \* ports of the host
          LPort,   \* local ports that pickLocalPort tries
          Pid,     \* bound: tunnels at a time
          Elsewhere \* the target that another command may join

ASSUME RemoteAssumption ==
    /\ Me \in Client /\ LPort # {} /\ LPort \subseteq Target /\ Elsewhere \in Target \ LPort
    /\ RPort \subseteq Nat \ {0} /\ Pid \subseteq Nat \ {0}

Tunnel == [pid : Pid, lp : LPort, rp : RPort]
NoState == [pid |-> 0, lp |-> 0, rp |-> 0, started |-> FALSE]
State == [pid : Pid, lp : LPort, rp : RPort, started : BOOLEAN]

VARIABLES rpc,      \* where the remote command is
          rp,       \* its --rport
          started,  \* what ensureRemoteServer returned
          lp, pid,  \* the tunnel it uses
          tools,    \* on the host: whether there is "setsid" (not on Darwin), and
                    \*   a "lister" of ports: ss, lsof or netstat
          bin,      \* on the host: the room binary
          srv,      \* on the host: srv[r], whose server listens on port r
          booting,  \* on the host: ports on which a server of ours comes up
          busy,     \* local ports that other programs listen on
          tun,      \* tunnel processes of this device
          state,    \* the state file
          spawned   \* history: ports on which ensureRemoteServer has reported a
                    \*   server as started and no --stop has taken it since

cmdVars == <<rpc, rp, started, lp, pid>>
hostVars == <<tools, bin, srv, booting>>
vars == <<launchVars, cmdVars, hostVars, busy, tun, state, spawned>>

TypeOK ==
    /\ LaunchTypeOK
    /\ rpc \in {"idle", "bin", "server", "wait", "tunnel", "save", "join",
                "joining", "stop"}
    /\ rp \in RPort \cup {0} /\ started \in BOOLEAN
    /\ lp \in LPort \cup {0} /\ pid \in Pid \cup {0}
    /\ rpc = "join" => lp # 0
    /\ tools \subseteq {"setsid", "lister"} /\ bin \in {"none", "partial", "ok"}
    /\ srv \in [RPort -> {"none", "ours", "other"}] /\ booting \subseteq RPort
    /\ busy \subseteq LPort
    /\ tun \subseteq Tunnel /\ \A s, t \in tun : s.pid = t.pid \/ s.lp = t.lp => s = t
    /\ state \in State \cup {NoState}
    /\ spawned \subseteq RPort

\* Ports are tried in increasing order.
First(ports) == CHOOSE l \in ports : \A k \in ports : l <= k

Init ==
    /\ LaunchInit
    /\ rpc = "idle" /\ rp = 0 /\ started = FALSE /\ lp = 0 /\ pid = 0
    /\ tools \in SUBSET {"setsid", "lister"} /\ bin \in {"none", "ok"}
    /\ srv = [r \in RPort |-> "none"] /\ booting = {}
    /\ busy \in {{}, {First(LPort)}} /\ tun = {} /\ state = NoState
    /\ spawned = {}
-----------------------------------------------------------------------------
pidAlive(p) == \E t \in tun : t.pid = p
localReachable(l) == l \in busy \/ \E t \in tun : t.lp = l
remoteListening(r) == "lister" \in tools /\ srv[r] # "none"
remoteBinExists == bin # "none"  \* test -x: an upload is executable from its first byte

FreePorts == {l \in LPort : ~localReachable(l)}
pickLocalPort == IF FreePorts = {} THEN 0 ELSE First(FreePorts)

\* The file that loadRemoteState finds says that we started the server on r.
Recorded(r) == state.rp = r /\ state.started

Ended == rpc' = "idle" /\ rp' = 0 /\ started' = FALSE /\ lp' = 0 /\ pid' = 0

Goto(from, to) == rpc = from /\ rpc' = to

\* The whole state of RoomLaunch but for the count of mishaps.
launchRest == <<config, sock, dpc, server, loops, clientVars, joinVars>>

\* cmdRemote and the detection of the host's system, for the recorded port or,
\* as a mishap, for another one.
StartConnect(r) ==
    /\ Goto("idle", "bin") /\ rp' = r
    /\ IF state = NoState \/ state.rp = r THEN Calm ELSE Mishap
    /\ UNCHANGED <<launchRest, started, lp, pid, hostVars, busy, tun, state, spawned>>

\* A step that changes nothing on the host fails (ssh, uname, a tunnel
\* that does not come up, the save of the state file), or the user
\* interrupts the command, also one that stops.
StepFails ==
    /\ Mishap
    /\ rpc \notin {"idle", "joining"}
    /\ Ended
    /\ UNCHANGED <<launchRest, hostVars, busy, tun, state, spawned>>

BinPresent ==
    /\ Goto("bin", "server") /\ remoteBinExists
    /\ UNCHANGED <<launchVars, rp, started, lp, pid, hostVars, busy, tun, state, spawned>>

\* produceBinary: the build fails, or there is no module to build from and this
\* device has another architecture than the host.
NoBinary ==
    /\ Mishap
    /\ rpc = "bin" /\ ~remoteBinExists
    /\ Ended
    /\ UNCHANGED <<launchRest, hostVars, busy, tun, state, spawned>>

\* mkdir, scpTo, chmod ...
Install ==
    /\ Goto("bin", "server") /\ ~remoteBinExists
    /\ bin' = "ok"
    /\ UNCHANGED <<launchVars, rp, started, lp, pid, tools, srv, booting, busy, tun, state,
                   spawned>>

\* ... of which scp may end in the middle, or only chmod fails.
InstallFails ==
    /\ Mishap
    /\ rpc = "bin" /\ ~remoteBinExists
    /\ bin' \in {"partial", "ok"}
    /\ Ended
    /\ UNCHANGED <<launchRest, tools, srv, booting, busy, tun, state, spawned>>

\* Mutant: a server that runs already counts as started.
ReuseServer_AsOurs ==
    /\ Goto("server", "tunnel") /\ remoteListening(rp)
    /\ started' = TRUE
    /\ UNCHANGED <<launchVars, rp, lp, pid, hostVars, busy, tun, state, spawned>>

\* ensureRemoteServer reuses what listens, ...
ReuseServer ==
    /\ Goto("server", "tunnel") /\ remoteListening(rp)
    /\ UNCHANGED <<launchVars, rp, started, lp, pid, hostVars, busy, tun, state, spawned>>

\* The shell that starts a server says "spawned" whether or not it runs; it
\* does not without setsid, nor does what scp left of a binary.
Boots == bin = "ok" /\ "setsid" \in tools

\* ... or starts a server, also when the check itself failed or found no
\* program to list the ports with.
StartServer ==
    /\ Goto("server", "wait")
    /\ IF remoteListening(rp) THEN Mishap ELSE Calm
    /\ booting' = IF Boots THEN booting \cup {rp} ELSE booting
    /\ UNCHANGED <<launchRest, rp, started, lp, pid, tools, bin, srv, busy, tun, state, spawned>>

\* The ssh that starts it fails after it did.
StartServerFails ==
    /\ Mishap
    /\ rpc = "server" /\ Boots
    /\ booting' = booting \cup {rp}
    /\ Ended
    /\ UNCHANGED <<launchRest, tools, bin, srv, busy, tun, state, spawned>>

\* Something listens within 10 s ...
ServerListens ==
    /\ Goto("wait", "tunnel") /\ remoteListening(rp)
    /\ started' = TRUE /\ spawned' = spawned \cup {rp}
    /\ UNCHANGED <<launchVars, rp, lp, pid, hostVars, busy, tun, state>>

\* ... or never; a server that is merely slow is a mishap (StepFails).
NeverListens ==
    /\ rpc = "wait" /\ ~remoteListening(rp) /\ rp \notin booting
    /\ Ended
    /\ UNCHANGED <<launchVars, hostVars, busy, tun, state, spawned>>
-----------------------------------------------------------------------------
\* Mutant: what the file says is believed.
Reusable_Unchecked == state # NoState /\ state.rp = rp

\* The condition to reuse the recorded tunnel.
Reusable == /\ state # NoState /\ state.rp = rp
            /\ pidAlive(state.pid) /\ localReachable(state.lp)

\* The tunnel is reused; that the state file could not be saved is ignored.
ReuseTunnel ==
    /\ Goto("tunnel", "join") /\ Reusable
    /\ lp' = state.lp
    /\ \/ Calm /\ state' = [state EXCEPT !.started = @ \/ started]
       \/ Mishap /\ UNCHANGED state
    /\ UNCHANGED <<launchRest, rp, started, pid, hostVars, busy, tun, spawned>>

\* Mutant: port 0 is not looked for.
NoLocalPort_Unchecked ==
    /\ Goto("tunnel", "join") /\ ~Reusable /\ pickLocalPort = 0
    /\ UNCHANGED <<launchVars, rp, started, lp, pid, hostVars, busy, tun, state, spawned>>

\* All local ports are busy.
NoLocalPort ==
    /\ rpc = "tunnel" /\ ~Reusable /\ pickLocalPort = 0
    /\ Ended
    /\ UNCHANGED <<launchVars, hostVars, busy, tun, state, spawned>>

\* openTunnel: ssh -N -L in a session of its own; a failure is in StepFails,
\* as the process that was started is dead or killed by then.  When another
\* program has taken the port since it was picked, ssh exits, but what answers
\* on the port may be seen first.
OpenTunnel ==
    /\ Goto("tunnel", "save") /\ ~Reusable /\ pickLocalPort # 0
    /\ lp' = pickLocalPort
    /\ pid' \in {p \in Pid : ~pidAlive(p) /\ p # state.pid}
    /\ \/ Calm /\ tun' = tun \cup {[pid |-> pid', lp |-> lp', rp |-> rp]} /\ UNCHANGED busy
       \/ Mishap /\ busy' = busy \cup {lp'} /\ UNCHANGED tun
    /\ UNCHANGED <<launchRest, rp, started, hostVars, state, spawned>>

\* saveRemoteState with a new record.  It says nothing of a server that an
\* earlier command started, nor of a live tunnel to another port.
SaveState ==
    /\ Goto("save", "join")
    /\ state' = [pid |-> pid, lp |-> lp, rp |-> rp, started |-> started]
    /\ UNCHANGED <<launchVars, rp, started, lp, pid, hostVars, busy, tun, spawned>>

\* roundtrip of the join, through the tunnel's local end.
Join ==
    /\ Goto("join", "joining")
    /\ Call(Me, [op |-> "join", to |-> lp], "dial")
    /\ UNCHANGED <<events, rp, started, lp, pid, hostVars, busy, tun, state, spawned>>

Joined ==
    /\ rpc = "joining" /\ cpc[Me] = "idle"
    /\ Ended
    /\ UNCHANGED <<launchVars, hostVars, busy, tun, state, spawned>>
-----------------------------------------------------------------------------
\* remoteStop: kill the tunnel; if the server is not ours the file goes at once.
RemoteStop ==
    /\ rpc = "idle" /\ state # NoState
    /\ tun' = {t \in tun : t.pid # state.pid}
    /\ \/ state.started /\ rpc' = "stop" /\ UNCHANGED state
       \/ ~state.started /\ state' = NoState /\ UNCHANGED rpc
    /\ UNCHANGED <<launchVars, rp, started, lp, pid, hostVars, busy, spawned>>

\* The decimal digits of p begin with those of r: pkill's pattern
\* "[r]oom server --addr 127.0.0.1:r" is not anchored at its end.
Matches(r, p) == p = r \/ \E k \in 1 .. 4 : p \div 10^k = r

\* pkill takes every server that the pattern matches; the file goes whether or
\* not ssh worked.
StopServer ==
    LET hit == {r \in RPort : Matches(state.rp, r)} IN
    /\ Goto("stop", "idle")
    /\ \/ /\ Calm
          /\ srv' = [r \in RPort |-> IF r \in hit THEN "none" ELSE srv[r]]
          /\ booting' = booting \ hit /\ spawned' = spawned \ hit
       \/ Mishap /\ UNCHANGED <<srv, booting, spawned>>
    /\ state' = NoState
    /\ UNCHANGED <<launchRest, rp, started, lp, pid, tools, bin, busy, tun>>
-----------------------------------------------------------------------------
\* A server that was started binds its port, or exits because it is taken.
ServerBoots(r) ==
    /\ r \in booting
    /\ booting' = booting \ {r}
    /\ srv' = IF srv[r] = "none" THEN [srv EXCEPT ![r] = "ours"] ELSE srv
    /\ UNCHANGED <<launchVars, cmdVars, tools, bin, busy, tun, state, spawned>>

ServerDies(r) ==
    /\ Mishap
    /\ srv[r] # "none" /\ srv' = [srv EXCEPT ![r] = "none"]
    /\ UNCHANGED <<launchRest, cmdVars, tools, bin, booting, busy, tun, state, spawned>>

OtherStarts(r) ==
    /\ Mishap
    /\ srv[r] = "none" /\ srv' = [srv EXCEPT ![r] = "other"]
    /\ UNCHANGED <<launchRest, cmdVars, tools, bin, booting, busy, tun, state, spawned>>

TunnelDies(t) ==
    /\ Mishap
    /\ t \in tun /\ tun' = tun \ {t}
    /\ UNCHANGED <<launchRest, cmdVars, hostVars, busy, state, spawned>>

\* Commands of this device that run at the same time; those that change what
\* the daemon is for count as mishaps.
CmdConfigSet(c) == Call(c, [op |-> "set", to |-> NoServer], "dial") /\ Calm
CmdDaemonStop(c) == Call(c, [op |-> "stop", to |-> NoServer], "dial") /\ Mishap
CmdJoin(c) == Call(c, [op |-> "join", to |-> Elsewhere], "open") /\ Mishap

OtherCommand(c) ==
    /\ c # Me
    /\ CmdConfigSet(c) \/ CmdDaemonStop(c) \/ CmdJoin(c)
    /\ UNCHANGED <<cmdVars, hostVars, busy, tun, state, spawned>>

LaunchStep ==
    /\ \/ \E c \in Client : ClientStep(c)
       \/ \E d \in Daemon : DaemonStep(d) \/ Signal(d) \/ Crash(d)
    /\ UNCHANGED <<cmdVars, hostVars, busy, tun, state, spawned>>

RemoteStep ==
    \/ BinPresent \/ NoBinary \/ Install \/ InstallFails
    \/ ReuseServer \/ StartServer \/ StartServerFails \/ ServerListens \/ NeverListens
    \/ ReuseTunnel \/ NoLocalPort \/ OpenTunnel \/ SaveState \/ Join \/ Joined
    \/ StopServer

Next ==
    \/ LaunchStep \/ RemoteStep \/ StepFails \/ RemoteStop
    \/ \E r \in RPort : StartConnect(r) \/ ServerBoots(r) \/ ServerDies(r) \/ OtherStarts(r)
    \/ \E t \in tun : TunnelDies(t)
    \/ \E c \in Client : OtherCommand(c)

Spec == Init /\ [][Next]_vars

\* Processes run; an unsuccessful or successful user runs the command again.
Rest == UNCHANGED <<cmdVars, hostVars, busy, tun, state, spawned>>
Fairness ==
    /\ WF_vars(RemoteStep)
    /\ WF_vars(\E r \in RPort : StartConnect(r))
    /\ \A r \in RPort : WF_vars(ServerBoots(r))
    /\ \A c \in Client : WF_vars(ClientStep(c) /\ Rest)
    /\ \A d \in Daemon : WF_vars(DaemonStep(d) /\ Rest)
FairSpec == Spec /\ Fairness
-----------------------------------------------------------------------------
\* --stop kills the server of another device only where this device has started
\* a server itself: on that port, which the other device's server has taken over
\* since, or on one whose digits begin with it.
StopsOnlyWhereStarted ==
    [][rpc = "stop" /\ rpc' = "idle" =>
           \A r \in RPort : srv[r] = "other" /\ srv'[r] = "none" =>
               \E q \in spawned : Matches(q, r)]_vars

\* What the usage text of --stop and the README say: a --stop that meets no
\* failure takes down the servers that this device started on the host.
StopTakesOurServers ==
    [][state # NoState /\ state' = NoState /\ events' = events =>
           \A r \in spawned : srv'[r] # "ours" /\ r \notin booting']_vars

\* The daemon that commands reach dials a live tunnel to a server.
Connected ==
    /\ sock \in Daemon /\ dpc[sock] = "listening"
    /\ \E t \in tun : /\ t.pid = state.pid
                      /\ t.lp \in loops[sock] /\ remoteListening(t.rp)

\* Other programs, and tunnels that no state file knows of, have all the ports.
Blocked == \A l \in LPort : l \in busy \/ \E t \in tun : t.lp = l /\ t.pid # state.pid

\* A user who runs the command again after failures, at whatever point they
\* left things, and does not keep stopping it, gets connected and stays so,
\* unless the host has no setsid or cannot list its ports, scp left a binary
\* that is executable but incomplete, which no later command replaces, or there
\* is no local port left.
RerunConnects ==
    \/ []<><<RemoteStop>>_vars
    \/ <>[](Connected \/ tools # {"setsid", "lister"} \/ bin = "partial" \/ Blocked)
=============================================================================
