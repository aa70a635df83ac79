# A verification of clipboard-handoff

clipboard-handoff moves text, images and files between a user's devices. The
repository holds several implementations of one specification (`docs/SPEC.md`,
`docs/PROTOCOL.md`): `room-go`, a room server reached over SSH with a daemon on
every device; `mesh-rs`, a QUIC mesh of peers; and two Go experiments,
`lan-go` and `libp2p-mesh`, over the daemon in `experiments/shared-go`.

This directory models `room-go` (the server's relay, the activities of the
daemon, the start of daemons by commands, and `room remote`) and the Go
experiments (the lan-go transport, and the shared daemon with its TUI). mesh-rs
is in the inventory and in the plan.

## Inventory

| Part | State | Operations | What makes it hard |
| --- | --- | --- | --- |
| room server (`internal/broker`, `internal/server`) | rooms and their sessions, a queue of 256 frames per session | session joins, reads a frame and broadcasts it, writer drains the queue, session leaves | two goroutines per session; broadcast works outside the lock; queues fill; connections die at any point |
| link (`daemon/conn.go`, `dedupe.go`, `handleJoin`, `handleSend`) | the one record `d.conn`, a goroutine per join, 4096 remembered ids | join, dial, publish, receive, clear, redial, send | several loops share one record; redelivery on a second session; reconnection |
| framing (`internal/wire`) | the byte stream of a session | WriteFrame, ReadFrame | concurrent sends on one stream |
| store (`daemon.ingest`, `session.go`, `config.go`) | buffer of 64 items, blob cache, `text_file`, `save_dir`, the session record | ingest, route to sinks, clear (transient, all), config set, stop | ingests, clears and reconfigurations interleave; I/O errors; a restart anywhere |
| requests (`handlers.go`, `daemon.go`) | subscribers with channels of 16, clipboard, `lastCopy` | recv, recv --follow, paste, copy, auto_copy | check-then-subscribe; full channels; two-step clipboard record |
| start and stop (`ipc.go`, `Run`, `main.go`, `config.go`) | the socket path, `config.json`, the daemon processes and the server each dials | dial or spawn, poll, listen, join, config set, stop | no lock anywhere: two daemons on one socket, saves from an older read, requests served while the process stops |
| remote (`cmd/room/remote.go`) | state file, tunnel processes, the host's binary and server | connect (detect, install, server, tunnel, record, join), stop | each of six steps may fail, be interrupted or be overtaken; other devices use the host too |
| lan-go transport | mDNS entries, `dialing`, one connection per fingerprint | discover, dial, accept, refuse duplicates, broadcast, receive, close | both ends decide for themselves; restarts leave stale entries and connections |
| shared-go daemon | buffer, sinks and their baselines, subscribers, exit policy | send, ingest, subscribe, clear, config set, stop | ingests go on while the process stops; own envelopes come back after a restart |
| shared-go TUI | bubbles, highlight, quit prompt | show, send, move, quit with a clear | a full channel, a daemon that ends, a clear at the prompt |
| room-go TUI, CLI, clipboard | view state | presentation | little beyond the above |
| libp2p-mesh transport | gossipsub topic | join, publish, receive | inside libp2p |
| mesh-rs | peers, blobs, dedupe, clipboard watch, sinks | announce, fetch, watch, clear, stop | replaced connections, blobs cleared before the fetch, clipboard echo |

What is correct, part by part: the relay delivers a sender's frames in order, at
most once, to its roommates only, and loses them only by a full queue or a dead
connection; a daemon's link comes back after every break, and what `status`
shows is a session in use; an item is processed once; a clear takes back what
the session wrote and nothing older; a request gets an item of its kind and does
not wait for one that is there; the daemon knows what it last put on the
clipboard; a join outlives the daemon that answered it; what `room remote` starts
it can stop (the code breaks this, see below); LAN peers of a room end up
connected, and a peer gets each envelope once; the chat shows what arrived.
`PROJECT.json` lists the hazards, each at its line, with the properties that cover
it.

## Modules and code

| Module | Models | Checked by |
| --- | --- | --- |
| `RoomMulticast` | the abstract specification of a room | refinement in `RoomBroker`, proved; the server in `RoomLink` |
| `RoomBroker` | `broker.go`, `relayMiddleware` | `MCRoomBroker`, `RoomBrokerProofs` |
| `RoomLink` | `conn.go`, `dedupe.go`, `handleJoin`, `handleSend` | `MCRoomLink`, `RoomLinkProofs` |
| `RoomFrames` | `WriteFrame`, `ReadFrame` on a shared session | `MCRoomFrames` |
| `RoomStore` | `ingest`, `session.go`, `config set text_file`, restart | `MCRoomStore`, `RoomStoreProofs` |
| `RoomIpc` | `handleRecv`, `handleSubscribe`, `handlePaste`, `handleCopy`, auto-copy | `MCRoomIpc`, `RoomIpcProofs` |
| `RoomLaunch` | `ipc.Dial`, `spawnDaemon`, `cmdDaemon`, `Run`, `handleJoin`, `config.json` between processes | with `RoomRemote` |
| `RoomRemote` | `remote.go`, over `RoomLaunch` | `MCRoomRemote`, `RoomRemoteProofs` |
| `PeerTransport` | the contract of `transport.go`: an abstract specification | refinement in `LanTransport`, proved; what `SharedDaemon` assumes |
| `LanTransport` | `lantransport.go` | `MCLanTransport`, `LanTransportProofs` |
| `SharedDaemon` | `shared-go/daemon`, with `clear` and `daemon stop` of its CLI | with `SharedTui` |
| `SharedTui` | `shared-go/cli/tui.go`, over `SharedDaemon` | `MCSharedTui`, `SharedProofs` |
| `SequenceFacts` | nothing of the code: lemmas about sequences and prefixes | used by `RoomIpcProofs`, `SharedProofs` |

`PROJECT.json` ("map") names the lines of every definition. The conventions are
the same throughout: an action is the longest piece of a handler that no other
goroutine can interrupt or observe, so a critical section, a system call or a
channel operation is one action and a handler is a chain of them along `pc`.
Names of definitions are the names of the functions.

*RoomBroker.* `phase` is the place of the relay handler, `targets[s]` what is
left of the snapshot that Broadcast iterates over; while it is not empty the
reader is inside Broadcast. `Deliver` has the three outcomes of the `select`: the
frame is queued, skipped, or the channel is closed and the process panics. A
client that closes its side and one that breaks are both there (`ReadError` with
the channel alive or dead). The refinement maps a session's due frames to those
it is a target of or has queued.

*RoomLink.* A loop's `pc` follows `connectLoop` and `dialOnce`. The server is
RoomMulticast itself, so what was shown of the relay is what the link rests on.
Frames travel in `wire`, which keeps what was written before a break. All
sessions use one room name; the room of a session is the server it is on. A join
whose configuration cannot be saved leaves the server in memory and starts no
loop, as SetKey does.

*RoomFrames.* A unit of the stream is a length or a packet of payload; the SSH
channel cuts payloads into packets and locks none of them together. Payload read
as a length is any length, or an error.

*RoomStore.* Text files hold whole entries, so an offset is a number of entries;
`<<name, k>>` is the path `dedupPath` makes. Every system call may fail; a
failed WriteFile may leave a partial file, a failed removal leaves the file.
`baseText` and `baseDisk` are what the session found. A restart can happen in any
state: a crash, or a stop whose clear has taken the steps before. One clear runs
at a time, `save_dir` stays set, items differ in content (so each has a blob of
its own), and an append that fails leaves no part of its entry.

*RoomIpc.* Items have a kind; `autoCopy` "notify" stands for "off" too, which do
the same to the clipboard. A streaming client may close its connection, which the
handler notices at its next write. A recv whose client left is not told apart
from one that is answered. The end of the daemon, which ends the handlers, is
left to RoomStore's restart.

*RoomLaunch.* `sock` is what is at the socket path: nothing, a file nobody
listens on, or the socket of a daemon. A daemon's `dpc` follows `cmdDaemon` and
`Run`: read `config.json`, write the defaults if there was none, remove the path,
listen, and on a stop close the listener and remove the path once more, both of
which hit whatever is there by then. A daemon without the path goes on dialling
its server. Requests are `join`, `config set` of another key (which saves all
settings in memory) and `daemon stop`; all others leave this state alone. Three
history variables say when a join may be lost: `stale` are daemons that read the
file before it, `forgot` that the file was written from an older read or a save
failed. Left out: `daemon --server` and `config set server`, two more ways to set
the server (`main.go:256`, `config.go:148`), so JoinSticks is about joins that
none of them follows; and that a save writes a temporary file, shared by all
processes, and renames it (`config.go:107`), which is one step here.

*RoomRemote.* `rpc` follows `remoteConnect` and `remoteStop`. A step that fails
without a trace on the host is StepFails; the ones that leave a trace (an
upload that stops half-way, an ssh that fails after it started the server) are
actions of their own. `tools` says what the host has: without `setsid`, as on
Darwin, the shell still says "spawned" and no server comes up; without a program
that lists ports `remoteListening` is never true. A local port may be taken by
another program between `pickLocalPort` and ssh's bind, in which case
`localReachable` sees that program. `pkill` takes every server whose port begins
with the digits of ours. `spawned` is history: ports on which
`ensureRemoteServer` reported a start and no `--stop` has taken the server since.
Everything out of the ordinary is a Mishap, of which a run has a bounded number.

*LanTransport.* A connection is a slot with two ends, each served by its own
handleConn, and each end acts on what it knows. An mDNS entry names a run of a
peer; a dial has only the address of that run, which a later run of any peer, in
any room, may have been given, and then meets whoever listens there. Neither end
compares the fingerprint or the room with the entry, so such a connection is
registered, and `want` remembers what was dialed. A stream that does not open in
5 s and a frame that is refused count against MaxFaults. Streams are a set:
QUIC orders nothing between them. The refinement maps what is written to a
connection, and not read yet, to what the contract owes. The contract promises
nothing of rooms, as the code does not; what holds of rooms is
`RoomsMixOnlyByReuse`.

*SharedDaemon.* Every envelope that passes the dedupe is a goroutine with a place
of its own; it goes on while the daemon stops, and may begin after the exit
policy. A clear is one action, in which every truncation, removal and listing may
fail; what runs between its calls is in RoomStore, whose code is the same. The
size recorded at the first use of each text_file, which room-go lacks, is here; a
Stat that fails for another reason than a missing file, which the code takes for
size 0, is not. `late` are the ingests that were under way when the exit policy
ran or began later, `keptSinks` and `keptBlobs` what a failed call left. Names in
save_dir differ (collisions are in RoomStore), and a failed append leaves no part
of its entry.

*SharedTui.* The subscriber of SharedDaemon is the TUI. Its program handles one
message at a time, so an item, a key or an answer to the prompt is one action. The
highlight, and the copy and open commands that use it, are left out.

## Runs

| Run | Bounds | Shows |
| --- | --- | --- |
| `room_broker` | 3 sessions, 2 rooms, queues of 1 | types and capacity; the map matches the sessions; frames come from roommates only; loss only by a full queue or a dead connection; a working session is drained before it leaves; dead sessions leave; RoomMulticast is implemented |
| `room_broker_panic` | the same | **violated**: a send on a closed channel |
| `room_link` | 2 servers, 2 joins, 3 sessions, 1 break, dedupe of 1 | `d.conn` is some loop's session; an id is accepted again only after eviction; a lone loop connects again |
| `room_link_stranded` | the same | **violated**: the joined server stays usable |
| `room_frames` | 2 sends of 1 and 2 packets | **violated**: relayed frames are frames that were sent |
| `room_store` | 2 ingests at a time, 1 text, 2 files of one name, 2 text files, 1 config change per session, 1 restart | old content is safe; buffered blobs exist; clear --all takes back files, and text when the text_file stayed |
| `room_ipc` | 2 ingests at a time, an image and a file, a recv of images, a follower, a copy client, channels and buffer of 1 | answers fit; files reach the clipboard on request only; `lastCopy` is the clipboard; subscribers are served |
| `room_ipc_recv` | the same | **violated**: a recv does not wait for what is buffered |
| `lan_transport` | 2 peers, 2 rooms, 3 runs in all, 2 addresses, 3 connections, 1 envelope, 1 timeout or refused frame on something that works | the table is what handlers serve; rooms mix only through a reused address; PeerTransport is implemented; roommates link for good; a linked peer gets its broadcast |
| `shared_tui` | a text, an image, an own text, 2 text files, 1 config set, 2 runs, a channel of 1 | earlier content is kept; clears and stops take back what they should; no echo; the chat is complete |
| `room_remote` | a remote and another command, 2 daemons, ports 1 and 12 of the host, 2 local ports (one may be taken), a host with or without each program, 1 mishap | a join sticks; --stop kills only where a server was started; running the command again connects; nothing deadlocks |
| `room_remote_stop` | the same | **violated**: --stop takes down the servers that were started |

Why the bounds are enough: capacities of 1 make every limit (queue, channel,
buffer, dedupe set) bind within a few steps. Two actors of a kind give every pair
of interleaved steps, and a third session gives a broadcast a second target while
the first leaves. Two files of one name, with that name taken already, make
dedupPath collide both with old content and between ingests. A second server and
a second join are what it takes for loops to share `d.conn`. `MaxCopy` is the
number of paths that these files can need. Three runs of two LAN peers give a
restart of either end against a waiting one, on a new and on the same address;
a dial that meets a third peer (`Misdialed`) needs three, so what the run says of
liveness is about two, while the safety properties are proved for any number of
peers. One config set of the shared daemon switches text_file once; switching it
to and fro is covered by the theorem. One mishap per behaviour of `room_remote`
hits every step there is; the safety properties are proved for any number. Ports 1 and
12 stand for a pair such as 229 and 2299. All
runs but `room_remote` switch deadlock checking off: clients, items, restarts and
dials are bounded, so a model that has used them up stops although the program
would wait for more.

### What the violated runs say of the code

* **A closed queue.** `relayMiddleware` closes `s.Out` before its deferred
  Unregister. A Broadcast that finds the session registered, or has it in an
  older snapshot, sends on the closed channel; Go panics and the server ends,
  with every room. Unregistering first is not enough, because of the snapshot.
* **A stranded session.** After a second `join`, the older loop's end clears
  `d.conn`, which holds the newer loop's session. That loop goes on receiving and
  never publishes again, so send finds no server until the newer session breaks.
* **Mixed frames.** `sendFrame` writes outside the lock, in two writes. Two
  concurrent sends produce a stream that decodes to other frames, and from then
  on the reader is out of step.
* **A recv that waits.** `handleRecv` looks and then subscribes; an item that
  arrives between is in the buffer and not in the channel.
* **A server left behind.** A command starts the server and fails before the
  tunnel is recorded. The rerun finds the server running, so `ensureRemoteServer`
  returns false, and the new record says so: `--stop` leaves the server. The same
  happens when the tunnel dies and is opened again.

## Fairness

`RoomBroker`: weak fairness of delivery, of the writer, of the handler's end, and
of the reader's error when the connection is dead: Go schedules every goroutine
that can run, delivery never blocks, and a read from a dead channel returns.
Clients need not join, send or leave. `RoomLink`: weak fairness of each loop,
whose backoff is a timer, and strong fairness of a successful dial: dials to a
running server may fail any number of times but not for ever. The stranded
counterexample is found under the same fairness. `RoomIpc`: weak fairness of the
fan-out and of the handlers' reads; no client needs to ask for anything.
`RoomStore` and `SharedTui` have safety properties only. `LanTransport`: weak
fairness of browsing (a loop with a timer), of dials, which succeed or time out
after 8 s, of the goroutines, of the idle timeout of a connection whose other end
is gone, and of the expiry of mDNS records. `RoomRemote`: weak fairness of every
process, and of the user, who runs the command again when it has ended;
`RerunConnects` is about such a user, on a host that has `setsid` and a program
that lists ports. Mishaps need not happen, and are bounded.
`LinkedBroadcastArrives` speaks of the time after the last fault.

## Proofs

TLAPS proves, for all values of the constants that satisfy the assumptions:

* `RoomBrokerProofs`: `TypeCorrect`, `RoomsMatch`, `RoommatesOnly`,
  `DrainsBeforeLeaving`, `LossesExplained`, `RelayIsMulticast`, from
  `RoomBrokerAssumption`. TypeOK is inductive. The
  map needs, besides, that a session that has not joined is outside every room;
  the roommates property then follows because a session's room never changes
  after it joined, so a stale snapshot is still one of roommates. Draining rests
  on: a writer that exited with a live connection left an empty, closed queue.
  Loss and the refinement need `FifoInv`: a queue holds the frames of one sender
  in increasing order (`QueueInOrder`), and only frames sent before the one this
  sender is still delivering to the session (`QueuedBefore`). So the frame that
  the writer takes is the first due frame of its sender and is due nowhere else in
  the queue. Join maps to Enter, Broadcast to
  Send, WriterSend to Get, a skipped Deliver and WriterFail to Lose, Finish to
  Leave, and every other action to a stutter.
* `RoomLinkProofs`: `LinkTypeCorrect`, `ConnectedHasALoop`, `SeenUntilEvicted`,
  from `RoomLinkAssumption` and `RoomMulticastAssumption`. The types need that a
  loop past its dial holds a session (`LoopsHoldSessions`).
  ConnectedIsALoopsSession is then inductive. The dedupe bound is not: it needs
  that `Dedupe.order` is exactly the last DedupeCap accepted items
  (`OrderIsRecentItems`), so an id outside of it is at least that far back.
* `RoomStoreProofs`: `StoreTypeCorrect`, `OldContentIsSafe`,
  `BufferedItemsHaveBlobs`, `ClearAllIsThorough`, from `RoomStoreAssumption`.
  That old content is safe
  is not inductive. `StoreInv` adds that every offset in use (the session's and
  the one a clear has copied) is at least the old length of its file
  (`OffsetsSpareOld`), and that every path a worker is about to write, or that is
  recorded for removal, had no file when the session began (`PathsSpareOld`).
  For blobs, `BlobInv` adds that an ingest past its blob either has it on disk or
  overlaps the clear, and that a clear that lists or removes blobs has emptied
  the buffer of all others. For the clear, `ClearInv` adds that every whole file
  of the session is recorded, copied by the clear, or about to be recorded by its
  ingest, which then overlaps the clear (`FilesRecorded`, `FilesTaken`), and that
  without a config set only one text file grows and the recorded offset is the
  length it had (`OneTextFile`, `TextTaken`).
* `RoomIpcProofs`: `IpcTypeCorrect`, `FilesAreAskedFor`, `HashFollowsClipboard`,
  `AnswersAlwaysFit`, from `RoomIpcAssumption`: the classes of clients are
  disjoint, and the placeholder for "no item" is no item and no clipboard
  content. `AtWork` says what each place of a handler holds; in particular only a
  paste or a copy writes a file's path. `LoneWriter` adds to
  LastCopyTracksClipboard that, without an overlap, one writer at most is between
  its write and its hash and the clipboard is what it wrote. `AnswerInv` says that
  what a stream was sent, what waits in its channel and what ingests are about to
  offer it are different items (`StreamFresh`), and that no two ingests hand out
  the same item.
* `LanTransportProofs`: `LanTypeCorrect`, `TableMatchesHandlers`,
  `RoomsJoinOnlyByReuse`, `TransportKeepsContract`, from
  `LanAssumption`. TableIsServed is inductive together with the types: a slot
  that DialOk takes is open at no end, so no table lists it, and a handler that
  closes an end either removes its own entry or had none. That rooms mix only by
  reuse needs `NetInv`: a dial and an mDNS entry that name the present run of a
  peer name its present room. The refinement needs `WayInv`, that an envelope is
  on its way to a peer over one connection only
  (`WaysRight`), not yet handed over when it is still to be written (`WriteOnce`),
  and written only where an end is there to read it.
* `SharedProofs`: `SharedTypeCorrect`, `NoEchoEver`, `PriorContentSafe`,
  `ClearAllIsThorough`, `StopIsThorough`,
  `ChatShowsEverything`, from `SharedAssumption` (which asks for at least one text
  file). `Flow` is the order of an ingest's steps, `TextInv` that a baseline
  recorded in a run is the length the file had when the run began and that a file
  without one has not grown, `FileInv` that a saved file of the run is recorded,
  about to be, or left by a failed call, `LateInv` that after the exit policy every
  ingest under way is one of `late`, and `ChatInv` that bubbles, stream and offers
  are disjoint.
* `RoomRemoteProofs`: `RemoteTypeCorrect`, `JoinIsRemembered`,
  `StopKillsWhereStarted`, from `LaunchAssumption` and `RemoteAssumption`. Two lemmas
  say what a step looks like to RoomLaunch and to the remote command, so that each
  level is proved alone. `JoinInv` adds to JoinSticks that `config.json` itself
  holds the target and that every daemon that has read it since has it in memory
  and will not write defaults. StopsOnlyWhereStarted needs that wherever the
  command or the state file claims a server, its port is in `spawned` (`ClaimInv`). That
  the first free port exists uses the well-foundedness of the naturals.

The proofs are about the same definitions that the runs check, and every
inductive invariant was checked by TLC on a small instance before it was
proved. Each invariant, action property and refinement of a passing run is stated
by a theorem. Only model-checked: liveness (`DeadSessionLeaves`,
`LoneLoopConnects`, `SubscriberIsServed`, `RoommatesLink`,
`LinkedBroadcastArrives`, `RerunConnects`), which rests on fairness and ENABLED,
out of reach of TLAPS; and the five properties that the code violates, for which
TLC's behaviours are the result (`RoomFrames` has no other).

## Observed, and not stated as a property

* Two clipboard writers that overlap can leave `lastCopy` different from the
  clipboard; `LastCopyTracksClipboard` excludes exactly this (`overlap`).
* A removal that fails in `clear --all` is not tried by the next clear, since the
  record is forgotten first.
* A frame that was sent just before a break can come back to the same device on
  its new session, which then ingests its own item.
* The handler of a recv whose client left stays subscribed until the next item.
* An interrupted scp leaves a file that `test -x` accepts; no later command
  replaces it. `RerunConnects` names it.
* Another device's server that takes the port while ours starts is claimed, and
  `--stop` kills it. `StopsOnlyWhereStarted` allows it, as the port is one where
  a start was reported.
* The pattern that `--stop` gives to `pkill` is not anchored at its end
  (`remote.go:210`), so a server on a port that begins with the same digits goes
  too, against the comment "Only kill the exact server we spawned".
* A change of room-go's `text_file` replaces the recorded path and offset
  (`session.go:51`); text appended before is out of reach of `clear --all`, also
  without any concurrency, although `docs/SPEC.md:148` calls a clear precise.
  `ClearAllTakesBack` of RoomStore names it. shared-go keeps a size for each path
  and does not have this.
* A cached mDNS entry whose address another run was given connects two rooms
  (`lantransport.go:241`, `:262`), and a dial that met a third peer keeps the mark
  for the peer it was meant for as long as that connection lasts, so the two do
  not link meanwhile. `RoomsMixOnlyByReuse` and `RoommatesLink` name these.
* On a host without `setsid`, or without ss, lsof and netstat, every `room remote`
  waits 10 s and fails. `RerunConnects` names it.
* Two daemons can run at once, one of them out of reach: each start removes the
  socket of the other, and a stopping daemon removes its successor's.
* A join whose save fails leaves the target in memory, and the next `config set`
  saves it.
* The shared-go stop is answered before its clear runs, and ingests that overlap
  it, or begin after it, leave their items (`late`); a file whose removal failed is
  not tried again (`keptSinks`).
* shared-go's TUI asks what to clear only when it has shown a received item
  itself, and a status tick may start a daemon that was just stopped, to which it
  is not subscribed.

## Plan

Done so far: the five parts of room-go's daemon and server, the start of daemons
and `room remote`, the lan-go transport, the shared daemon and its TUI. Left:

1. `MeshDaemon`: mesh-rs announce, fetch, dedupe, clipboard watch, clear and stop,
   with replaced connections and blobs that are cleared before the fetch.
2. Several remote commands for one host at a time, and the identity key of two
   first uses.
3. Proofs: of the safety of `MeshDaemon`, and that RoomLink's daemon, with a
   server that is RoomMulticast, gets no frame of a room it did not join.

## Not modelled

mesh-rs is a second implementation with state of its own; its hazards are
listed, and it is first in the plan. libp2p-mesh leaves discovery retries and
delivery to libp2p, which is not in the repository; the one thing it adds for the
daemon, that an own envelope may come back, is in SharedDaemon. room-go's TUI has
the message list and prompt of the shared one, and differs in
rendering and in reopening its stream without a replay.

Not modelled and not planned: codecs and image conversion, SSH, QUIC and TLS
themselves, authentication, rendering and argument parsing, scripts and
containers.
