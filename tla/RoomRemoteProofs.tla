-------------------------- MODULE RoomRemoteProofs --------------------------
(***************************************************************************)
(* For any number of commands, daemons, ports, tunnels and mishaps: a join *)
(* that was answered sticks, and stopping takes a server of another device *)
(* only where this device has started one.                                 *)
(*                                                                         *)
(* Only LaunchStep and the beginning of a command touch the state of       *)
(* RoomLaunch, so the invariants of the two levels are proved apart.       *)
(***************************************************************************)
EXTENDS RoomRemote, TLAPS, WellFoundedInduction

RemoteTypeOK ==
    /\ rpc \in {"idle", "bin", "server", "wait", "tunnel", "save", "join",
                "joining", "stop"}
    /\ rp \in RPort \cup {0} /\ started \in BOOLEAN
    /\ lp \in LPort \cup {0} /\ pid \in Pid \cup {0}
    /\ rpc = "join" => lp # 0
    /\ tools \subseteq {"setsid", "lister"} /\ bin \in {"none", "partial", "ok"}
    /\ srv \in [RPort -> {"none", "ours", "other"}] /\ booting \subseteq RPort
    /\ busy \subseteq LPort
    /\ tun \subseteq Tunnel /\ \A s, t \in tun : s.pid = t.pid \/ s.lp = t.lp => s = t
    /\ state \in State \cup {NoState}
    /\ spawned \subseteq RPort

\* What JoinSticks needs: config.json holds the joined target, and so does
\* every daemon that has read it since; a connected daemon is past its start.
JoinInv ==
    /\ \A c \in Client : peer[c] \in Daemon => dpc[peer[c]] \in {"listening", "stopping", "closed"}
    /\ joined # NoServer /\ ~forgot =>
           /\ config = joined
           /\ \A d \in Daemon \ stale :
                  dpc[d] \notin {"none", "open"} =>
                      /\ dpc[d] # "defaults" /\ server[d] = joined
                      /\ dpc[d] = "listening" => joined \in loops[d]

\* What the place of the remote command says about its local variables.
CmdInv ==
    /\ rpc \in {"idle", "stop"} => ~started
    /\ rpc \notin {"idle", "stop"} => rp \in RPort
    /\ rpc = "save" => lp \in LPort /\ pid \in Pid
    /\ rpc = "stop" => state.started

\* A server that this device claims, in the command that runs or in the state
\* file, is one that it has started.
ClaimInv == \A r \in RPort : (started /\ rp = r) \/ Recorded(r) => r \in spawned
-----------------------------------------------------------------------------
\* The steps that RoomLaunch sees: its own, none, or the beginning of a command.
LEMMA LaunchView ==
    ASSUME [Next]_vars, LaunchTypeOK, RemoteTypeOK
    PROVE  \/ /\ \/ \E c \in Client : ClientStep(c)
                 \/ \E d \in Daemon : DaemonStep(d) \/ Signal(d) \/ Crash(d)
              /\ UNCHANGED <<cmdVars, hostVars, busy, tun, state, spawned>>
           \/ UNCHANGED launchRest /\ (Mishap \/ Calm)
           \/ \E c \in Client, r \in Request, f \in {"dial", "open"} :
                  Call(c, r, f) /\ (Mishap \/ Calm)
<1>1. CASE LaunchStep
  BY <1>1 DEF LaunchStep
<1>2. CASE RemoteStep
  <2>1. CASE Join
    <3>1. lp \in Target
      BY <2>1, RemoteAssumption DEF Join, Goto, RemoteTypeOK
    <3>2. [op |-> "join", to |-> lp] \in Request
      BY <3>1 DEF Request
    <3> QED
      BY <2>1, <3>2, RemoteAssumption DEF Join, Calm
  <2>2. CASE BinPresent \/ NoBinary \/ Install \/ InstallFails
    BY <2>2 DEF BinPresent, NoBinary, Install, InstallFails, launchVars, launchRest, joinVars, clientVars, Calm
  <2>3. CASE ReuseServer \/ StartServer \/ StartServerFails \/ ServerListens \/ NeverListens
    BY <2>3 DEF ReuseServer, StartServer, StartServerFails, ServerListens, NeverListens, launchVars, launchRest, joinVars, clientVars, Calm
  <2>4. CASE ReuseTunnel \/ NoLocalPort \/ OpenTunnel \/ SaveState \/ Joined \/ StopServer
    BY <2>4 DEF ReuseTunnel, NoLocalPort, OpenTunnel, SaveState, Joined, StopServer, launchVars, launchRest, joinVars, clientVars, Calm
  <2> QED
    BY <1>2, <2>1, <2>2, <2>3, <2>4 DEF RemoteStep
<1>3. CASE StepFails \/ RemoteStop
  BY <1>3 DEF StepFails, RemoteStop, launchVars, launchRest, joinVars, clientVars, Calm
<1>4. ASSUME NEW r \in RPort, StartConnect(r) \/ ServerBoots(r) \/ ServerDies(r) \/ OtherStarts(r)
      PROVE  UNCHANGED launchRest /\ (Mishap \/ Calm)
  BY <1>4 DEF StartConnect, ServerBoots, ServerDies, OtherStarts, launchVars, launchRest, joinVars, clientVars, Calm
<1>5. ASSUME NEW t \in tun, TunnelDies(t)
      PROVE  UNCHANGED launchRest /\ (Mishap \/ Calm)
  BY <1>5 DEF TunnelDies
<1>6. ASSUME NEW c \in Client, OtherCommand(c)
      PROVE  \E r \in Request, f \in {"dial", "open"} : Call(c, r, f) /\ (Mishap \/ Calm)
  <2>1. /\ [op |-> "set", to |-> NoServer] \in Request
        /\ [op |-> "stop", to |-> NoServer] \in Request
        /\ [op |-> "join", to |-> Elsewhere] \in Request
    BY RemoteAssumption DEF Request
  <2> QED
    BY <1>6, <2>1 DEF OtherCommand, CmdConfigSet, CmdDaemonStop, CmdJoin
<1>7. CASE UNCHANGED vars
  BY <1>7 DEF vars, launchVars, launchRest, joinVars, clientVars, Calm
<1> QED
  BY <1>1, <1>2, <1>3, <1>4, <1>5, <1>6, <1>7 DEF Next
-----------------------------------------------------------------------------
LEMMA LaunchInitInv == LaunchInit => LaunchTypeOK /\ JoinInv
<1> SUFFICES ASSUME LaunchInit PROVE LaunchTypeOK /\ JoinInv
  OBVIOUS
<1>1. NoRequest \in Request
  BY DEF NoRequest, Request
<1>2. events \in 0 .. MaxEvents
  BY LaunchAssumption DEF LaunchInit
<1> QED
  BY <1>1, <1>2, LaunchAssumption DEF LaunchInit, LaunchTypeOK, JoinInv

LEMMA MishapType == LaunchTypeOK /\ (Mishap \/ Calm) => events' \in 0 .. MaxEvents
  BY LaunchAssumption DEF LaunchTypeOK, Mishap, Calm

\* A command that returns leaves the types and connections in order.
LEMMA ReturnType ==
    ASSUME LaunchTypeOK, NEW c \in Client, Return(c)
    PROVE  /\ cpc' \in [Client -> {"idle", "open", "defaults", "dial", "poll", "sent"}]
           /\ req' \in [Client -> Request]
           /\ peer' \in [Client -> Daemon \cup {NoDaemon}]
           /\ \A e \in Client : peer'[e] \in Daemon => peer'[e] = peer[e]
<1>1. NoRequest \in Request
  BY DEF NoRequest, Request
<1> QED
  BY <1>1, LaunchAssumption DEF Return, LaunchTypeOK

LEMMA ClientStepType ==
    ASSUME LaunchTypeOK, NEW c \in Client, ClientStep(c)
    PROVE  LaunchTypeOK'
<1> USE LaunchAssumption
<1>1. CASE OpenConfig(c)
  BY <1>1 DEF OpenConfig, LaunchTypeOK, joinVars
<1>2. CASE ClientDefaults(c)
  BY <1>2 DEF ClientDefaults, SaveDefaults, LaunchTypeOK
<1>3. CASE DialOk(c)
  BY <1>3 DEF DialOk, Answering, LaunchTypeOK, joinVars
<1>4. CASE Spawn(c)
  BY <1>4 DEF Spawn, LaunchTypeOK, joinVars
<1>5. CASE NothingToStop(c)
  BY <1>5, ReturnType DEF NothingToStop, LaunchTypeOK, joinVars
<1>6. CASE GivesUp(c)
  BY <1>6, ReturnType, MishapType DEF GivesUp, LaunchTypeOK, joinVars
<1>7. CASE DialTimeout(c)
  BY <1>7, ReturnType, MishapType DEF DialTimeout, LaunchTypeOK, joinVars
<1>8. CASE ReadFails(c)
  BY <1>8, ReturnType DEF ReadFails, LaunchTypeOK, joinVars
<1>9. CASE HandleJoin(c)
  <2>1. peer[c] \in Daemon /\ req[c].to \in Target
    BY <1>9 DEF HandleJoin, Serving, LaunchTypeOK, Request
  <2>2. events' \in 0 .. MaxEvents
    BY <1>9, MishapType DEF HandleJoin
  <2>3. config' \in Target \cup {NoServer, Absent} /\ joined' \in Target \cup {NoServer}
        /\ stale' \subseteq Daemon /\ loops' \in [Daemon -> SUBSET Target]
    BY <1>9, <2>1 DEF HandleJoin, LaunchTypeOK
  <2>4. server' \in [Daemon -> Target \cup {NoServer}]
    BY <1>9, <2>1 DEF HandleJoin, LaunchTypeOK
  <2>5. forgot' \in BOOLEAN
    BY <1>9, Zenon DEF HandleJoin, LaunchTypeOK
  <2>6. Return(c) /\ UNCHANGED <<sock, dpc>>
    BY <1>9 DEF HandleJoin
  <2> QED
    BY <2>2, <2>3, <2>4, <2>5, <2>6, ReturnType DEF LaunchTypeOK
<1>10. CASE HandleConfigSet(c)
  <2>1. peer[c] \in Daemon
    BY <1>10 DEF HandleConfigSet, Serving
  <2>2. config' \in Target \cup {NoServer, Absent}
    BY <1>10, <2>1 DEF HandleConfigSet, LaunchTypeOK
  <2>3. forgot' \in BOOLEAN
    BY <1>10, Zenon DEF HandleConfigSet, LaunchTypeOK
  <2>4. Return(c) /\ UNCHANGED <<sock, dpc, server, loops, joined, stale, events>>
    BY <1>10 DEF HandleConfigSet
  <2> QED
    BY <2>2, <2>3, <2>4, ReturnType DEF LaunchTypeOK
<1>11. CASE HandleDaemonStop(c)
  BY <1>11, ReturnType DEF HandleDaemonStop, Serving, LaunchTypeOK, joinVars
<1> QED
  BY <1>1, <1>2, <1>3, <1>4, <1>5, <1>6, <1>7, <1>8, <1>9, <1>10, <1>11 DEF ClientStep

LEMMA DaemonStepType ==
    ASSUME LaunchTypeOK, NEW d \in Daemon, DaemonStep(d) \/ Signal(d) \/ Crash(d)
    PROVE  LaunchTypeOK'
<1> USE LaunchAssumption
<1>1. CASE DaemonOpens(d)
  BY <1>1 DEF DaemonOpens, LaunchTypeOK, clientVars, joinVars
<1>2. CASE DaemonDefaults(d)
  BY <1>2 DEF DaemonDefaults, SaveDefaults, LaunchTypeOK, clientVars
<1>3. CASE RemoveSocket(d)
  BY <1>3 DEF RemoveSocket, LaunchTypeOK, clientVars, joinVars
<1>4. CASE Listen(d)
  BY <1>4 DEF Listen, LaunchTypeOK, clientVars, joinVars
<1>5. CASE ListenFails(d)
  BY <1>5 DEF ListenFails, ProcessEnds, LaunchTypeOK
<1>6. CASE CloseListener(d)
  BY <1>6 DEF CloseListener, LaunchTypeOK, clientVars, joinVars
<1>7. CASE RunReturns(d)
  BY <1>7 DEF RunReturns, ProcessEnds, LaunchTypeOK
<1>8. CASE Signal(d)
  BY <1>8, MishapType DEF Signal, LaunchTypeOK, clientVars, joinVars
<1>9. CASE Crash(d)
  BY <1>9, MishapType DEF Crash, ProcessEnds, LaunchTypeOK
<1> QED
  BY <1>1, <1>2, <1>3, <1>4, <1>5, <1>6, <1>7, <1>8, <1>9 DEF DaemonStep
-----------------------------------------------------------------------------
LEMMA ClientStepJoin ==
    ASSUME LaunchTypeOK, JoinInv, NEW c \in Client, ClientStep(c)
    PROVE  JoinInv'
<1> USE LaunchAssumption
<1>1. CASE OpenConfig(c)
  BY <1>1 DEF OpenConfig, JoinInv, joinVars
<1>2. CASE ClientDefaults(c)
  BY <1>2 DEF ClientDefaults, SaveDefaults, JoinInv, LaunchTypeOK
<1>3. CASE DialOk(c)
  BY <1>3 DEF DialOk, Answering, JoinInv, LaunchTypeOK, joinVars
<1>4. CASE Spawn(c)
  BY <1>4 DEF Spawn, JoinInv, LaunchTypeOK, joinVars
<1>5. CASE NothingToStop(c)
  BY <1>5, ReturnType DEF NothingToStop, JoinInv, joinVars
<1>6. CASE GivesUp(c)
  BY <1>6, ReturnType DEF GivesUp, JoinInv, joinVars
<1>7. CASE DialTimeout(c)
  BY <1>7, ReturnType DEF DialTimeout, JoinInv, joinVars
<1>8. CASE ReadFails(c)
  BY <1>8, ReturnType DEF ReadFails, JoinInv, joinVars
<1>9. CASE HandleJoin(c)
  <2> DEFINE d == peer[c]
  <2>1. d \in Daemon /\ dpc[d] \in {"listening", "stopping", "closed"}
    BY <1>9 DEF HandleJoin, Serving, JoinInv
  <2>2. CASE forgot' = TRUE
    BY <1>9, <2>2, ReturnType DEF HandleJoin, JoinInv
  <2>3. CASE forgot' = FALSE
    <3>1. /\ joined' = req[c].to /\ config' = joined'
          /\ server' = [server EXCEPT ![d] = joined']
          /\ loops' = [loops EXCEPT ![d] = @ \cup {joined'}]
          /\ stale' = {e \in Daemon \ {d} : dpc[e] \notin {"none", "open"}}
          /\ UNCHANGED dpc
      BY <1>9, <2>3 DEF HandleJoin
    <3>2. ASSUME NEW e \in Daemon \ stale', dpc[e] \notin {"none", "open"}
          PROVE  e = d
      BY <3>1, <3>2
    <3>3. server'[d] = joined' /\ joined' \in loops'[d]
      BY <2>1, <3>1 DEF LaunchTypeOK
    <3> QED
      BY <1>9, <2>1, <3>1, <3>2, <3>3, ReturnType DEF HandleJoin, JoinInv
  <2> QED
    BY <1>9, <2>2, <2>3 DEF HandleJoin
<1>10. CASE HandleConfigSet(c)
  <2>1. peer[c] \in Daemon /\ dpc[peer[c]] \in {"listening", "stopping", "closed"}
    BY <1>10 DEF HandleConfigSet, Serving, JoinInv
  <2>2. Return(c) /\ UNCHANGED <<sock, dpc, server, loops, joined, stale, events>>
    BY <1>10 DEF HandleConfigSet
  <2>3. CASE UNCHANGED <<config, forgot>>
    BY <2>2, <2>3, ReturnType DEF JoinInv
  <2>4. CASE config' = server[peer[c]] /\ forgot' = (forgot \/ peer[c] \in stale)
    <3>1. ASSUME joined # NoServer, ~forgot' PROVE ~forgot /\ config' = joined
      BY <2>1, <2>4, <3>1 DEF JoinInv
    <3> QED
      BY <2>2, <3>1, ReturnType DEF JoinInv
  <2> QED
    BY <1>10, <2>3, <2>4 DEF HandleConfigSet
<1>11. CASE HandleDaemonStop(c)
  BY <1>11, ReturnType DEF HandleDaemonStop, Serving, JoinInv, LaunchTypeOK, joinVars
<1> QED
  BY <1>1, <1>2, <1>3, <1>4, <1>5, <1>6, <1>7, <1>8, <1>9, <1>10, <1>11 DEF ClientStep

LEMMA DaemonStepJoin ==
    ASSUME LaunchTypeOK, JoinInv, NEW d \in Daemon, DaemonStep(d) \/ Signal(d) \/ Crash(d)
    PROVE  JoinInv'
<1> USE LaunchAssumption
<1>1. CASE DaemonOpens(d)
  BY <1>1 DEF DaemonOpens, JoinInv, LaunchTypeOK, clientVars, joinVars, NoServer, Absent
<1>2. CASE DaemonDefaults(d)
  BY <1>2 DEF DaemonDefaults, SaveDefaults, JoinInv, LaunchTypeOK, clientVars
<1>3. CASE RemoveSocket(d)
  BY <1>3 DEF RemoveSocket, JoinInv, LaunchTypeOK, clientVars, joinVars
<1>4. CASE Listen(d)
  BY <1>4 DEF Listen, JoinInv, LaunchTypeOK, clientVars, joinVars
<1>5. CASE ListenFails(d) \/ RunReturns(d) \/ Crash(d)
  <2>1. ProcessEnds(d)
    BY <1>5 DEF ListenFails, RunReturns, Crash
  <2> QED
    BY <2>1 DEF ProcessEnds, JoinInv, LaunchTypeOK
<1>6. CASE CloseListener(d)
  BY <1>6 DEF CloseListener, JoinInv, LaunchTypeOK, clientVars, joinVars
<1>7. CASE Signal(d)
  BY <1>7 DEF Signal, JoinInv, LaunchTypeOK, clientVars, joinVars
<1> QED
  BY <1>1, <1>2, <1>3, <1>4, <1>5, <1>6, <1>7 DEF DaemonStep

LEMMA LaunchNextInv ==
    ASSUME LaunchTypeOK, RemoteTypeOK, JoinInv, [Next]_vars
    PROVE  LaunchTypeOK' /\ JoinInv'
<1>1. ASSUME NEW c \in Client, ClientStep(c) PROVE LaunchTypeOK' /\ JoinInv'
  BY <1>1, ClientStepType, ClientStepJoin
<1>2. ASSUME NEW d \in Daemon, DaemonStep(d) \/ Signal(d) \/ Crash(d)
      PROVE  LaunchTypeOK' /\ JoinInv'
  BY <1>2, DaemonStepType, DaemonStepJoin
<1>3. CASE UNCHANGED launchRest /\ (Mishap \/ Calm)
  BY <1>3, MishapType DEF launchRest, clientVars, joinVars, LaunchTypeOK, JoinInv
<1>4. ASSUME NEW c \in Client, NEW r \in Request, NEW f \in {"dial", "open"},
             Call(c, r, f) /\ (Mishap \/ Calm)
      PROVE  LaunchTypeOK' /\ JoinInv'
  BY <1>4, MishapType DEF Call, joinVars, LaunchTypeOK, JoinInv
<1> QED
  BY <1>1, <1>2, <1>3, <1>4, LaunchView
-----------------------------------------------------------------------------
\* A nonempty set of ports has a first one.
LEMMA FirstIsPort ==
    ASSUME NEW S, S \subseteq LPort, S # {}
    PROVE  First(S) \in S
<1>1. S \subseteq Nat
  BY RemoteAssumption, LaunchAssumption
<1> DEFINE Less == OpToRel(<, Nat)
<1>2. \E x \in S : \A y \in S : ~(<<y, x>> \in Less)
  <2>1. IsWellFoundedOn(Less, Nat)
    BY NatLessThanWellFounded
  <2> HIDE DEF Less
  <2> QED
    BY <1>1, <2>1, WFMin, Zenon
<1>3. PICK x \in S : \A y \in S : ~(<<y, x>> \in Less)
  BY <1>2
<1>4. ASSUME NEW y \in S PROVE x <= y
  <2>1. x \in Nat /\ y \in Nat /\ ~(<<y, x>> \in Less)
    BY <1>1, <1>3
  <2>2. Less = {ss \in Nat \X Nat : ss[1] < ss[2]}
    BY Zenon DEF OpToRel
  <2> HIDE DEF Less
  <2>3. <<y, x>> \in Nat \X Nat
    BY <2>1
  <2>4. ~(y < x)
    BY <2>1, <2>2, <2>3
  <2> QED
    BY <2>1, <2>4
<1> QED
  BY <1>4 DEF First

\* pickLocalPort returns a port that nothing listens on, or none.
LEMMA PickedIsFree ==
    ASSUME pickLocalPort # 0
    PROVE  pickLocalPort \in LPort /\ ~localReachable(pickLocalPort)
<1>1. FreePorts # {} /\ FreePorts \subseteq LPort /\ pickLocalPort = First(FreePorts)
  BY DEF pickLocalPort, FreePorts
<1>2. pickLocalPort \in FreePorts
  BY <1>1, FirstIsPort
<1> QED
  BY <1>2 DEF FreePorts
-----------------------------------------------------------------------------
\* The steps, as the invariants of the remote command see them.
Quiet == UNCHANGED <<cmdVars, hostVars, busy, tun, state, spawned>>
RemoteView ==
    \/ Quiet \/ StepFails \/ RemoteStop
    \/ BinPresent \/ NoBinary \/ Install \/ InstallFails
    \/ ReuseServer \/ StartServer \/ StartServerFails \/ ServerListens \/ NeverListens
    \/ ReuseTunnel \/ NoLocalPort \/ OpenTunnel \/ SaveState \/ Join \/ Joined
    \/ StopServer
    \/ \E r \in RPort : StartConnect(r) \/ ServerBoots(r) \/ ServerDies(r) \/ OtherStarts(r)
    \/ \E t \in tun : TunnelDies(t)

LEMMA NextRemoteView == [Next]_vars => RemoteView
<1> SUFFICES ASSUME [Next]_vars PROVE RemoteView
  OBVIOUS
<1>1. CASE LaunchStep \/ \E c \in Client : OtherCommand(c)
  BY <1>1 DEF LaunchStep, OtherCommand, Quiet, RemoteView
<1>2. CASE UNCHANGED vars
  BY <1>2 DEF vars, cmdVars, hostVars, Quiet, RemoteView
<1> QED
  BY <1>1, <1>2 DEF Next, RemoteStep, RemoteView

\* A record that says the server was started is that of a tunnel.
LEMMA StartedIsState == RemoteTypeOK /\ state.started => state \in State /\ state.rp \in RPort
<1> SUFFICES ASSUME RemoteTypeOK, state.started PROVE state \in State /\ state.rp \in RPort
  OBVIOUS
<1>1. state # NoState
  BY DEF NoState
<1> QED
  BY <1>1 DEF RemoteTypeOK, State

\* The record that ReuseTunnel writes differs from the old one in started only.
LEMMA ReuseTunnelState ==
    ASSUME RemoteTypeOK, ReuseTunnel
    PROVE  /\ state \in State /\ state' \in State /\ state.rp = rp
           /\ state'.pid = state.pid /\ state'.lp = state.lp /\ state'.rp = state.rp
           /\ state'.started => state.started \/ started
           /\ state.started => state'.started
<1>1. state \in State /\ state.rp = rp
  BY DEF RemoteTypeOK, ReuseTunnel, Reusable
<1>2. CASE UNCHANGED state
  BY <1>1, <1>2
<1>3. CASE state' = [state EXCEPT !.started = @ \/ started]
  <2> DEFINE b == state.started \/ started
  <2>1. state' = [state EXCEPT !.started = b]
    BY <1>3, Zenon
  <2>2. b \in BOOLEAN
    OBVIOUS
  <2> HIDE DEF b
  <2>3. state' = [pid |-> state.pid, lp |-> state.lp, rp |-> state.rp, started |-> b]
    BY <1>1, <2>1 DEF State
  <2>4. state' \in State /\ state'.started = b
    BY <1>1, <2>2, <2>3 DEF State
  <2>5. state'.pid = state.pid /\ state'.lp = state.lp /\ state'.rp = state.rp
    BY <2>3
  <2> QED
    BY <1>1, <2>1, <2>4, <2>5 DEF b
<1> QED
  BY <1>2, <1>3 DEF ReuseTunnel

LEMMA RemoteNextType ==
    ASSUME RemoteTypeOK, CmdInv, RemoteView
    PROVE  RemoteTypeOK' /\ CmdInv'
<1> USE LaunchAssumption, RemoteAssumption DEF RemoteTypeOK, CmdInv, cmdVars, hostVars, Goto, Ended
<1>1. CASE Quiet
  BY <1>1 DEF Quiet
<1>2. CASE StepFails \/ NoBinary \/ InstallFails \/ NoLocalPort
  BY <1>2 DEF StepFails, NoBinary, InstallFails, NoLocalPort
<1>3. CASE RemoteStop
  BY <1>3 DEF RemoteStop
<1>4. CASE BinPresent \/ Install \/ ReuseServer \/ StartServer
  BY <1>4 DEF BinPresent, Install, ReuseServer, StartServer
<1>5. CASE StartServerFails \/ NeverListens \/ Joined
  BY <1>5 DEF StartServerFails, NeverListens, Joined
<1>6. CASE ServerListens
  BY <1>6 DEF ServerListens
<1>7. CASE ReuseTunnel
  <2>1. state.lp \in LPort /\ 0 \notin LPort
    BY <1>7, ReuseTunnelState DEF State, NoServer
  <2> QED
    BY <1>7, <2>1, ReuseTunnelState DEF ReuseTunnel
<1>8. CASE OpenTunnel
  <2>1. /\ rpc = "tunnel" /\ rpc' = "save" /\ lp' = pickLocalPort /\ pickLocalPort # 0
        /\ pid' \in Pid /\ ~pidAlive(pid')
        /\ UNCHANGED <<rp, started, tools, bin, srv, booting, state, spawned>>
    BY <1>8 DEF OpenTunnel
  <2>2. lp' \in LPort /\ ~localReachable(lp')
    BY <2>1, PickedIsFree
  <2>3. CASE tun' = tun \cup {[pid |-> pid', lp |-> lp', rp |-> rp]} /\ UNCHANGED busy
    BY <2>1, <2>2, <2>3 DEF Tunnel, pidAlive, localReachable
  <2>4. CASE busy' = busy \cup {lp'} /\ UNCHANGED tun
    BY <2>1, <2>2, <2>4
  <2> QED
    BY <1>8, <2>3, <2>4 DEF OpenTunnel
<1>9. CASE SaveState
  <2>1. state' \in State
    BY <1>9 DEF SaveState, State
  <2> QED
    BY <1>9, <2>1 DEF SaveState, NoServer
<1>10. CASE Join
  BY <1>10 DEF Join
<1>11. CASE StopServer
  <2>1. state.rp \in RPort
    BY <1>11, StartedIsState DEF StopServer
  <2> QED
    BY <1>11, <2>1 DEF StopServer
<1>12. ASSUME NEW r \in RPort, StartConnect(r) \/ ServerBoots(r) \/ ServerDies(r) \/ OtherStarts(r)
       PROVE  RemoteTypeOK' /\ CmdInv'
  <2>1. CASE StartConnect(r)
    BY <2>1 DEF StartConnect
  <2>2. CASE ServerBoots(r)
    BY <2>2 DEF ServerBoots
  <2>3. CASE ServerDies(r)
    BY <2>3 DEF ServerDies
  <2>4. CASE OtherStarts(r)
    BY <2>4 DEF OtherStarts
  <2> QED
    BY <1>12, <2>1, <2>2, <2>3, <2>4
<1>13. ASSUME NEW t \in tun, TunnelDies(t) PROVE RemoteTypeOK' /\ CmdInv'
  BY <1>13 DEF TunnelDies
<1> QED
  BY <1>1, <1>2, <1>3, <1>4, <1>5, <1>6, <1>7, <1>8, <1>9, <1>10, <1>11, <1>12, <1>13 DEF RemoteView
-----------------------------------------------------------------------------
LEMMA ClaimNext ==
    ASSUME RemoteTypeOK, CmdInv, ClaimInv, RemoteView
    PROVE  ClaimInv'
<1> USE DEF ClaimInv, Recorded, CmdInv, cmdVars, hostVars, Goto, Ended
<1>1. CASE Quiet
  BY <1>1 DEF Quiet
<1>2. CASE StepFails \/ NoBinary \/ InstallFails \/ NoLocalPort
  BY <1>2 DEF StepFails, NoBinary, InstallFails, NoLocalPort
<1>3. CASE RemoteStop
  BY <1>3 DEF RemoteStop, NoState
<1>4. CASE BinPresent \/ Install \/ ReuseServer
  BY <1>4 DEF BinPresent, Install, ReuseServer
<1>5. CASE StartServer
  BY <1>5 DEF StartServer
<1>6. CASE StartServerFails \/ NeverListens \/ Joined
  BY <1>6 DEF StartServerFails, NeverListens, Joined
<1>7. CASE ServerListens
  BY <1>7 DEF ServerListens, remoteListening, RemoteTypeOK
<1>8. CASE Join \/ OpenTunnel
  BY <1>8 DEF Join, OpenTunnel
<1>9. CASE ReuseTunnel
  BY <1>9, ReuseTunnelState DEF ReuseTunnel
<1>10. CASE SaveState
  <2>1. /\ rpc = "save" /\ rpc' = "join" /\ UNCHANGED <<srv, rp, started, spawned>>
        /\ state'.rp = rp /\ state'.started = started
    BY <1>10 DEF SaveState
  <2> QED
    BY <2>1
<1>11. CASE StopServer
  BY <1>11 DEF StopServer, NoState
<1>12. ASSUME NEW r \in RPort, StartConnect(r) PROVE ClaimInv'
  BY <1>12 DEF StartConnect
<1>13. ASSUME NEW r \in RPort, ServerBoots(r) PROVE ClaimInv'
  BY <1>13 DEF ServerBoots, RemoteTypeOK
<1>14. ASSUME NEW r \in RPort, ServerDies(r) \/ OtherStarts(r) PROVE ClaimInv'
  BY <1>14 DEF ServerDies, OtherStarts, RemoteTypeOK
<1>15. ASSUME NEW t \in tun, TunnelDies(t) PROVE ClaimInv'
  BY <1>15 DEF TunnelDies
<1> QED
  BY <1>1, <1>2, <1>3, <1>4, <1>5, <1>6, <1>7, <1>8, <1>9, <1>10, <1>11, <1>12, <1>13,
     <1>14, <1>15 DEF RemoteView
-----------------------------------------------------------------------------
RemoteInv ==
    /\ LaunchTypeOK /\ JoinInv
    /\ RemoteTypeOK /\ CmdInv
    /\ ClaimInv

LEMMA InitRemoteInv == Init => RemoteInv
<1> SUFFICES ASSUME Init PROVE RemoteInv
  OBVIOUS
<1>1. LaunchTypeOK /\ JoinInv
  BY LaunchInitInv DEF Init
<1>2. RemoteTypeOK /\ CmdInv
  <2>1. busy \subseteq LPort
    BY RemoteAssumption, FirstIsPort DEF Init
  <2> QED
    BY <2>1 DEF Init, RemoteTypeOK, CmdInv, NoState
<1>3. ClaimInv
  BY DEF Init, ClaimInv, Recorded, NoState
<1> QED
  BY <1>1, <1>2, <1>3 DEF RemoteInv

LEMMA NextRemoteInv == RemoteInv /\ [Next]_vars => RemoteInv'
<1> SUFFICES ASSUME RemoteInv, [Next]_vars PROVE RemoteInv'
  OBVIOUS
<1> QED
  BY NextRemoteView, LaunchNextInv, RemoteNextType, ClaimNext DEF RemoteInv

LEMMA RemoteInvariant == Spec => []RemoteInv
  BY InitRemoteInv, NextRemoteInv, PTL DEF Spec

\* Every variable of the commands, daemons, host, tunnels and state file keeps
\* its type; two tunnels never share a process id or a local port.
THEOREM RemoteTypeCorrect == Spec => []TypeOK
<1>1. RemoteInv => TypeOK
  BY DEF RemoteInv, RemoteTypeOK, TypeOK
<1> QED
  BY <1>1, RemoteInvariant, PTL

\* handleJoin, daemon start: a join that was answered sticks, for any number
\* of commands and daemons that race.
THEOREM JoinIsRemembered == Spec => []JoinSticks
<1>1. RemoteInv => JoinSticks
  BY DEF RemoteInv, JoinInv, JoinSticks
<1> QED
  BY <1>1, RemoteInvariant, PTL

\* remoteConnect, remoteStop: pkill takes another device's server only on a port
\* where this device has started a server, or one whose digits begin with it.
THEOREM StopKillsWhereStarted == Spec => StopsOnlyWhereStarted
<1>1. ASSUME RemoteInv, [Next]_vars
      PROVE  [rpc = "stop" /\ rpc' = "idle" =>
                  \A r \in RPort : srv[r] = "other" /\ srv'[r] = "none" =>
                      \E q \in spawned : Matches(q, r)]_vars
  <2> SUFFICES ASSUME rpc = "stop", rpc' = "idle",
                      NEW r \in RPort, srv[r] = "other", srv'[r] = "none"
               PROVE  \E q \in spawned : Matches(q, r)
    OBVIOUS
  <2>1. RemoteView /\ srv' # srv
    BY <1>1, NextRemoteView
  <2>2. StopServer
    <3>1. ~(\E q \in RPort : StartConnect(q) \/ ServerBoots(q) \/ ServerDies(q) \/ OtherStarts(q))
      BY DEF StartConnect, ServerBoots, ServerDies, OtherStarts, cmdVars, Goto
    <3>2. ~(Quiet \/ StepFails \/ RemoteStop)
      BY <2>1 DEF Quiet, StepFails, RemoteStop, hostVars
    <3>3. ~(\E t \in tun : TunnelDies(t))
      BY <2>1 DEF TunnelDies, hostVars
    <3>4. ~(BinPresent \/ NoBinary \/ Install \/ InstallFails \/ Join \/ Joined)
      BY DEF BinPresent, NoBinary, Install, InstallFails, Join, Joined, Goto
    <3>5. ~(ReuseServer \/ StartServer \/ StartServerFails \/ ServerListens \/ NeverListens)
      BY DEF ReuseServer, StartServer, StartServerFails, ServerListens, NeverListens, Goto
    <3>6. ~(ReuseTunnel \/ NoLocalPort \/ OpenTunnel \/ SaveState)
      BY DEF ReuseTunnel, NoLocalPort, OpenTunnel, SaveState, Goto
    <3> QED
      BY <2>1, <3>1, <3>2, <3>3, <3>4, <3>5, <3>6 DEF RemoteView
  <2>3. Matches(state.rp, r)
    BY <2>1, <2>2 DEF StopServer
  <2>4. state.rp \in RPort /\ Recorded(state.rp)
    BY <1>1, StartedIsState DEF RemoteInv, CmdInv, Recorded
  <2>5. state.rp \in spawned
    BY <1>1, <2>4 DEF RemoteInv, ClaimInv
  <2> QED
    BY <2>3, <2>5
<1> QED
  BY <1>1, RemoteInvariant, PTL DEF Spec, StopsOnlyWhereStarted
=============================================================================
