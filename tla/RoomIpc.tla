------------------------------- MODULE RoomIpc -------------------------------
(***************************************************************************)
(* The daemon's local side: ingest hands items to the buffer, to the       *)
(* subscribers' channels and, under auto_copy, to the clipboard, while     *)
(* handler goroutines serve recv, recv --follow (subscribe), paste and     *)
(* copy over the IPC socket.                                               *)
(*                                                                         *)
(* A client makes one request.  Disk work (blobs, sinks) is in RoomStore;  *)
(* an item reaches Ingest once (dedupe is in RoomLink).                    *)
(***************************************************************************)
EXTENDS Functions, Integers, Sequences

CONSTANTS Text, Image, File,  \* received items by type
          Own,         \* the TUI's own outgoing text, copied inline
          Nothing,     \* a clipboard the daemon has not written; no item
          Worker,      \* recvLoop goroutines in ingest (bound)
          RecvAny, RecvImage, FollowAny, \* clients by request: recv,
                       \* recv --latest-image, recv --follow or the TUI's stream
          PasteClient, CopyClient,
          SubCap,      \* capacity of a subscriber's channel (16 in the code)
          BufferCap    \* 64 in the code

Item == Text \cup Image \cup File
Recv == RecvAny \cup RecvImage
Streaming == Recv \cup FollowAny
Client == Streaming \cup PasteClient \cup CopyClient
Proc == Worker \cup Client

ASSUME RoomIpcAssumption ==
    /\ Text \cap Image = {} /\ Text \cap File = {} /\ Image \cap File = {}
    /\ Own \notin Item /\ Nothing \notin Item \cup {Own}
    /\ Nothing \notin {"path", "content"} \X (Item \cup {Own})
    /\ Worker \cap Client = {}
    /\ RecvAny \cap RecvImage = {} /\ Recv \cap FollowAny = {}
    /\ Streaming \cap (PasteClient \cup CopyClient) = {}
    /\ PasteClient \cap CopyClient = {}
    /\ SubCap \in Nat \ {0} /\ BufferCap \in Nat \ {0}

VARIABLES arrived,   \* items that reached ingest
          buffer,    \* d.buffer, oldest first
          subs,      \* d.subs
          ch,        \* ch[c]: the channel of subscriber c
          pc,        \* pc[x]: where worker or handler x is
          item,      \* item[x]: the item x works on
          pending,   \* pending[w]: subscribers worker w has yet to notify
          autoCopy,  \* settings.AutoCopy: "on", or "notify", which stands for "off" too
          clipboard, \* the last value the daemon wrote to the OS clipboard
          lastCopy,  \* d.lastCopy, the hash of one
          out,       \* out[c]: items answered to client c
          gone,      \* clients that closed their connection
          missed,    \* history: <<c, i>>, item i skipped for c, whose channel was full
          overlap    \* history: clipboard writes overlapped since the last lone one

vars == <<arrived, buffer, subs, ch, pc, item, pending, autoCopy, clipboard,
          lastCopy, out, gone, missed, overlap>>

\* clipContent: an image's PNG, a text, or the local path of a file.  The
\* content stands for its hash too.
clipContent(i) == IF i \in File THEN <<"path", i>> ELSE <<"content", i>>

Clip == {clipContent(i) : i \in Item \cup {Own}} \cup {Nothing}

TypeOK ==
    /\ arrived \subseteq Item
    /\ buffer \in Seq(Item) /\ Len(buffer) <= BufferCap
    /\ subs \subseteq Streaming
    /\ ch \in [Streaming -> Seq(Item)] /\ \A c \in Streaming : Len(ch[c]) <= SubCap
    /\ pc \in [Proc -> {"idle", "notify", "subscribe", "wait", "clip", "hash", "done"}]
    /\ item \in [Proc -> Item \cup {Own, Nothing}]
    /\ pending \in [Worker -> SUBSET Streaming]
    /\ autoCopy \in {"on", "notify"}
    /\ clipboard \in Clip /\ lastCopy \in Clip
    /\ out \in [Streaming -> Seq(Item)]
    /\ gone \subseteq FollowAny
    /\ missed \subseteq Streaming \X Item
    /\ overlap \in BOOLEAN

Init ==
    /\ arrived = {} /\ buffer = <<>> /\ subs = {}
    /\ ch = [c \in Streaming |-> <<>>]
    /\ pc = [x \in Proc |-> "idle"] /\ item = [x \in Proc |-> Nothing]
    /\ pending = [w \in Worker |-> {}]
    /\ autoCopy = "notify"
    /\ clipboard = Nothing /\ lastCopy = Nothing
    /\ out = [c \in Streaming |-> <<>>]
    /\ gone = {} /\ missed = {} /\ overlap = FALSE

\* matchesKind
Matches(c, i) == c \in RecvImage => i \in Image

\* latest: the newest buffered item of the kind, if there is one.
MatchingAt(c) == {k \in DOMAIN buffer : Matches(c, buffer[k])}
Latest(c) == buffer[CHOOSE k \in MatchingAt(c) : \A j \in MatchingAt(c) : j <= k]

\* A worker or handler returns.
Finish(x) ==
    /\ pc' = [pc EXCEPT ![x] = IF x \in Worker THEN "idle" ELSE "done"]
    /\ item' = [item EXCEPT ![x] = IF x \in Worker THEN Nothing ELSE @]
-----------------------------------------------------------------------------
\* ingest's locked block: append to the buffer, snapshot the subscribers.
Ingest(w, i) ==
    /\ pc[w] = "idle" /\ i \notin arrived
    /\ arrived' = arrived \cup {i}
    /\ buffer' = Append(IF Len(buffer) = BufferCap THEN Tail(buffer) ELSE buffer, i)
    /\ pending' = [pending EXCEPT ![w] = subs]
    /\ pc' = [pc EXCEPT ![w] = "notify"] /\ item' = [item EXCEPT ![w] = i]
    /\ UNCHANGED <<subs, ch, autoCopy, clipboard, lastCopy, out, gone, missed,
                   overlap>>

\* Mutant: the channel takes one item more than it holds.
Notify_Overfull(w, c) ==
    /\ c \in pending[w]
    /\ pending' = [pending EXCEPT ![w] = @ \ {c}]
    /\ \/ c \notin subs /\ UNCHANGED <<ch, missed>>
       \/ /\ c \in subs /\ Len(ch[c]) <= SubCap
          /\ ch' = [ch EXCEPT ![c] = Append(@, item[w])]
          /\ UNCHANGED missed
       \/ /\ c \in subs /\ Len(ch[c]) > SubCap
          /\ missed' = missed \cup {<<c, item[w]>>}
          /\ UNCHANGED ch
    /\ UNCHANGED <<arrived, buffer, subs, pc, item, autoCopy, clipboard, lastCopy,
                   out, gone, overlap>>

\* Mutant: a full channel ends the fan-out.
Notify_StopsAtFull(w, c) ==
    /\ c \in pending[w]
    /\ \/ /\ Len(ch[c]) < SubCap
          /\ ch' = [ch EXCEPT ![c] = Append(@, item[w])]
          /\ pending' = [pending EXCEPT ![w] = @ \ {c}]
          /\ UNCHANGED missed
       \/ /\ Len(ch[c]) = SubCap
          /\ missed' = missed \cup {<<c, item[w]>>}
          /\ pending' = [pending EXCEPT ![w] = {}]
          /\ UNCHANGED ch
    /\ UNCHANGED <<arrived, buffer, subs, pc, item, autoCopy, clipboard, lastCopy,
                   out, gone, overlap>>

\* Offer the item to a subscriber's channel, or skip it when that is full.
\* The channel of one that unsubscribed meanwhile is never read again.
Notify(w, c) ==
    /\ c \in pending[w]
    /\ pending' = [pending EXCEPT ![w] = @ \ {c}]
    /\ \/ c \notin subs /\ UNCHANGED <<ch, missed>>
       \/ /\ c \in subs /\ Len(ch[c]) < SubCap
          /\ ch' = [ch EXCEPT ![c] = Append(@, item[w])]
          /\ UNCHANGED missed
       \/ /\ c \in subs /\ Len(ch[c]) = SubCap
          /\ missed' = missed \cup {<<c, item[w]>>}
          /\ UNCHANGED ch
    /\ UNCHANGED <<arrived, buffer, subs, pc, item, autoCopy, clipboard, lastCopy,
                   out, gone, overlap>>

\* Mutant: files are copied too.
ApplyAutoCopy_Files(w) ==
    /\ pc[w] = "notify" /\ pending[w] = {}
    /\ \/ /\ autoCopy = "on"
          /\ pc' = [pc EXCEPT ![w] = "clip"]
          /\ UNCHANGED item
       \/ /\ autoCopy # "on"
          /\ Finish(w)
    /\ UNCHANGED <<arrived, buffer, subs, ch, pending, autoCopy, clipboard,
                   lastCopy, out, gone, missed, overlap>>

\* applyAutoCopy reads the mode; only "on" copies, and never a file.
ApplyAutoCopy(w) ==
    /\ pc[w] = "notify" /\ pending[w] = {}
    /\ \/ /\ autoCopy = "on" /\ item[w] \notin File
          /\ pc' = [pc EXCEPT ![w] = "clip"]
          /\ UNCHANGED item
       \/ /\ autoCopy # "on" \/ item[w] \in File
          /\ Finish(w)
    /\ UNCHANGED <<arrived, buffer, subs, ch, pending, autoCopy, clipboard,
                   lastCopy, out, gone, missed, overlap>>

\* Mutant: the hash is recorded also when the write failed.
WriteClip_HashAnyway(x) ==
    /\ pc[x] = "clip"
    /\ \/ /\ clipboard' = clipContent(item[x])
          /\ overlap' = \E y \in Proc : pc[y] = "hash"
       \/ UNCHANGED <<clipboard, overlap>>
    /\ pc' = [pc EXCEPT ![x] = "hash"]
    /\ UNCHANGED <<arrived, buffer, subs, ch, item, pending, autoCopy, lastCopy,
                   out, gone, missed>>

\* writeClipboard: the clipboard first, then the hash under d.mu; a write
\* that fails (no display) ends the request.
WriteClip(x) ==
    /\ pc[x] = "clip"
    /\ \/ /\ clipboard' = clipContent(item[x])
          /\ overlap' = \E y \in Proc : pc[y] = "hash"
          /\ pc' = [pc EXCEPT ![x] = "hash"]
          /\ UNCHANGED item
       \/ Finish(x) /\ UNCHANGED <<clipboard, overlap>>
    /\ UNCHANGED <<arrived, buffer, subs, ch, pending, autoCopy, lastCopy, out,
                   gone, missed>>

RecordCopy(x) ==
    /\ pc[x] = "hash"
    /\ lastCopy' = clipContent(item[x])
    /\ Finish(x)
    /\ UNCHANGED <<arrived, buffer, subs, ch, pending, autoCopy, clipboard, out,
                   gone, missed, overlap>>
-----------------------------------------------------------------------------
\* handleRecv without --follow: the latest buffered item, or none yet.
RecvLatest(c) ==
    /\ pc[c] = "idle"
    /\ \/ /\ MatchingAt(c) # {}
          /\ out' = [out EXCEPT ![c] = Append(@, Latest(c))]
          /\ Finish(c)
       \/ /\ MatchingAt(c) = {}
          /\ pc' = [pc EXCEPT ![c] = "subscribe"]
          /\ UNCHANGED <<item, out>>
    /\ UNCHANGED <<arrived, buffer, subs, ch, pending, autoCopy, clipboard,
                   lastCopy, gone, missed, overlap>>

\* subscribe, called by handleRecv afterwards or by handleSubscribe at once.
Subscribe(c) ==
    /\ \/ c \in Recv /\ pc[c] = "subscribe"
       \/ c \in FollowAny /\ pc[c] = "idle"
    /\ subs' = subs \cup {c}
    /\ pc' = [pc EXCEPT ![c] = "wait"]
    /\ UNCHANGED <<arrived, buffer, ch, item, pending, autoCopy, clipboard,
                   lastCopy, out, gone, missed, overlap>>

TakeHead(c) == ch' = [ch EXCEPT ![c] = Tail(@)]

\* unsubscribe, as the handler returns; the channel is garbage.
Unsubscribe(c) ==
    /\ subs' = subs \ {c}
    /\ ch' = [ch EXCEPT ![c] = <<>>]
    /\ Finish(c)

\* Mutant: the kind is not checked.
Take_AnyKind(c) ==
    /\ pc[c] = "wait" /\ ch[c] # <<>>
    /\ out' = [out EXCEPT ![c] = IF c \in gone THEN @ ELSE Append(@, Head(ch[c]))]
    /\ \/ c \in FollowAny \ gone /\ TakeHead(c) /\ UNCHANGED <<subs, pc, item>>
       \/ c \in Recv \cup gone /\ Unsubscribe(c)
    /\ UNCHANGED <<arrived, buffer, pending, autoCopy, clipboard, lastCopy, gone,
                   missed, overlap>>

\* waitFor and handleSubscribe's loop: items of another kind are passed over.
\* A write to a client that is gone fails, which ends either handler.
Take(c) ==
    /\ pc[c] = "wait" /\ ch[c] # <<>>
    /\ \/ /\ ~Matches(c, Head(ch[c]))
          /\ TakeHead(c) /\ UNCHANGED <<subs, pc, item, out>>
       \/ /\ Matches(c, Head(ch[c]))
          /\ out' = [out EXCEPT ![c] = IF c \in gone THEN @ ELSE Append(@, Head(ch[c]))]
          /\ \/ c \in FollowAny \ gone /\ TakeHead(c) /\ UNCHANGED <<subs, pc, item>>
             \/ c \in Recv \cup gone /\ Unsubscribe(c)
    /\ UNCHANGED <<arrived, buffer, pending, autoCopy, clipboard, lastCopy, gone,
                   missed, overlap>>

\* A streaming client closes its connection; its handler does not notice.
\* (A recv whose client left behaves as one that is answered.)
Hangup(c) ==
    /\ c \notin gone /\ pc[c] = "wait"
    /\ gone' = gone \cup {c}
    /\ UNCHANGED <<arrived, buffer, subs, ch, pc, item, pending, autoCopy,
                   clipboard, lastCopy, out, missed, overlap>>

\* A handler is about to write i to the clipboard for client c.
Place(c, i) ==
    /\ pc' = [pc EXCEPT ![c] = "clip"]
    /\ item' = [item EXCEPT ![c] = i]

\* handlePaste: the latest item, or error 5.
Paste(c) ==
    /\ pc[c] = "idle"
    /\ \/ buffer # <<>> /\ Place(c, buffer[Len(buffer)])
       \/ buffer = <<>> /\ Finish(c)
    /\ UNCHANGED <<arrived, buffer, subs, ch, pending, autoCopy, clipboard,
                   lastCopy, out, gone, missed, overlap>>

\* handleCopy: a buffered item by msg_id (error 5 when it is not buffered),
\* or inline text; without either it is handlePaste.
Copy(c) ==
    /\ pc[c] = "idle"
    /\ \/ \E i \in Item : i \in Range(buffer) /\ Place(c, i)
       \/ Place(c, Own)
       \/ arrived # Range(buffer) /\ Finish(c)
    /\ UNCHANGED <<arrived, buffer, subs, ch, pending, autoCopy, clipboard,
                   lastCopy, out, gone, missed, overlap>>

\* config set auto_copy
SetAutoCopy(m) ==
    /\ autoCopy # m
    /\ autoCopy' = m
    /\ UNCHANGED <<arrived, buffer, subs, ch, pc, item, pending, clipboard,
                   lastCopy, out, gone, missed, overlap>>

\* clearTransient empties the buffer (the rest of clear is in RoomStore).
ClearBuffer ==
    /\ buffer # <<>>
    /\ buffer' = <<>>
    /\ UNCHANGED <<arrived, subs, ch, pc, item, pending, autoCopy, clipboard,
                   lastCopy, out, gone, missed, overlap>>

Next ==
    \/ \E w \in Worker :
         \/ \E i \in Item : Ingest(w, i)
         \/ \E c \in Streaming : Notify(w, c)
         \/ ApplyAutoCopy(w)
    \/ \E x \in Proc : WriteClip(x) \/ RecordCopy(x)
    \/ \E c \in Recv : RecvLatest(c)
    \/ \E c \in Streaming : Subscribe(c) \/ Take(c)
    \/ \E c \in FollowAny : Hangup(c)
    \/ \E c \in PasteClient \cup CopyClient : Paste(c)
    \/ \E c \in CopyClient : Copy(c)
    \/ \E m \in {"on", "notify"} : SetAutoCopy(m)
    \/ ClearBuffer

Spec == Init /\ [][Next]_vars

\* Goroutines that can run do run.
Fairness ==
    /\ \A w \in Worker : WF_vars(\E c \in Streaming : Notify(w, c))
    /\ \A c \in Streaming : WF_vars(Take(c))

FairSpec == Spec /\ Fairness
-----------------------------------------------------------------------------
\* A client gets only items of its kind, none twice, and a recv without
\* --follow at most one, however ingests interleave with its request.
AnswersFit ==
    \A c \in Streaming :
        /\ \A k \in DOMAIN out[c] : Matches(c, out[c][k])
        /\ IsInjective(out[c])
        /\ c \in Recv => Len(out[c]) <= 1

\* The daemon puts a file's path on the clipboard only when a paste or copy
\* asked for that file.
FilesOnlyOnRequest ==
    \A i \in File : clipboard = <<"path", i>> =>
        \E c \in PasteClient \cup CopyClient : item[c] = i

\* Once the writers are through, lastCopy is the hash of what the daemon last
\* wrote to the clipboard, unless two writers overlapped.
LastCopyTracksClipboard ==
    (\A x \in Proc : pc[x] # "hash") => lastCopy = clipboard \/ overlap

\* An item that ingest means to hand to a subscriber reaches the client,
\* unless the channel was full, the client left or had its answer, or the
\* item is of another kind.
SubscriberIsServed ==
    \A c \in Streaming : \A i \in {x \in Item : Matches(c, x)} :
        (\E w \in Worker : item[w] = i /\ c \in pending[w])
            ~> \/ i \in Range(out[c]) \/ <<c, i>> \in missed
               \/ c \in gone \/ pc[c] = "done"

\* A recv waits only while there is nothing for it in the buffer.
RecvMissesNothing ==
    \A c \in Recv :
        /\ pc[c] = "wait" /\ ch[c] = <<>>
        /\ \A w \in Worker : c \notin pending[w]
        => MatchingAt(c) = {}
=============================================================================
