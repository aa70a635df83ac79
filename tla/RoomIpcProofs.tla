---------------------------- MODULE RoomIpcProofs ----------------------------
(***************************************************************************)
(* Proofs about the daemon's local side: the shape of its state, that a    *)
(* file's path reaches the clipboard only on request, that lastCopy tracks *)
(* the clipboard unless writers overlap, and that answers fit requests.    *)
(***************************************************************************)
EXTENDS RoomIpc, SequenceFacts, WellFoundedInduction, TLAPS

\* What a worker or a handler at work holds: an ingest that notifies has its
\* item; only a paste, a copy or an auto-copying ingest writes the clipboard,
\* and the last never writes a file.
AtWork ==
    /\ \A w \in Worker : /\ pending[w] # {} => pc[w] = "notify"
                         /\ pc[w] = "notify" => item[w] \in Item
    /\ \A x \in Proc : pc[x] \in {"clip", "hash"} =>
         /\ item[x] \in Item \cup {Own}
         /\ x \in PasteClient \cup CopyClient \/ (x \in Worker /\ item[x] \notin File)
    /\ \A c \in Client : pc[c] = "idle" => item[c] = Nothing

Typed == TypeOK /\ AtWork

\* Unless writers overlapped, at most one is between its write and its hash,
\* and the clipboard holds what that one wrote.
LoneWriter ==
    /\ LastCopyTracksClipboard
    /\ ~overlap =>
         /\ \A x, y \in Proc : pc[x] = "hash" /\ pc[y] = "hash" => x = y
         /\ \A x \in Proc : pc[x] = "hash" => clipboard = clipContent(item[x])

\* Two ingests hand out different items, all of which arrived.
DistinctWork ==
    /\ \A w \in Worker : pc[w] = "notify" => item[w] \in arrived
    /\ \A v, w \in Worker :
         pc[v] = "notify" /\ pc[w] = "notify" /\ item[v] = item[w] => v = w

\* What a stream was sent, what waits in its channel and what ingests are
\* about to offer it are different items.
StreamFresh(c) ==
    /\ IsInjective(out[c]) /\ IsInjective(ch[c])
    /\ Range(out[c]) \cap Range(ch[c]) = {}
    /\ Range(out[c]) \cup Range(ch[c]) \subseteq arrived
    /\ \A w \in Worker : c \in pending[w] => item[w] \notin Range(out[c]) \cup Range(ch[c])

AnswerInv ==
    /\ DistinctWork
    /\ \A c \in Streaming : \A k \in DOMAIN out[c] : Matches(c, out[c][k])
    /\ \A c \in Recv : Len(out[c]) <= 1 /\ (pc[c] # "done" => out[c] = <<>>)
    /\ \A c \in FollowAny : StreamFresh(c)
-----------------------------------------------------------------------------
\* latest returns a buffered item of the kind asked for.
LEMMA LatestFits ==
    ASSUME buffer \in Seq(Item), NEW c, MatchingAt(c) # {}
    PROVE  Latest(c) \in Item /\ Matches(c, Latest(c))
<1> DEFINE Less == OpToRel(<, Nat)
           n == Len(buffer)
           S == {n - k : k \in MatchingAt(c)}
<1>1. n \in Nat /\ DOMAIN buffer = 1..n /\ MatchingAt(c) \subseteq 1..n
  BY LenProperties DEF MatchingAt
<1> HIDE DEF n
<1>2. S \subseteq Nat /\ S # {}
  BY <1>1
<1> HIDE DEF S
<1>3. \E x \in S : \A y \in S : ~(<<y, x>> \in Less)
  <2>1. IsWellFoundedOn(Less, Nat)
    BY NatLessThanWellFounded
  <2> HIDE DEF Less
  <2> QED
    BY <1>2, <2>1, WFMin, Zenon
<1>4. PICK x \in S : \A y \in S : ~(<<y, x>> \in Less)
  BY <1>3
<1>5. ASSUME NEW y \in S PROVE x <= y
  <2>1. x \in Nat /\ y \in Nat /\ ~(<<y, x>> \in Less)
    BY <1>2, <1>4
  <2>2. Less = {ss \in Nat \X Nat : ss[1] < ss[2]}
    BY Zenon DEF OpToRel
  <2> HIDE DEF Less
  <2>3. <<y, x>> \in Nat \X Nat
    BY <2>1
  <2>4. ~(y < x)
    BY <2>1, <2>2, <2>3
  <2> QED
    BY <2>1, <2>4
<1>6. \E k \in MatchingAt(c) : \A j \in MatchingAt(c) : j <= k
  <2>1. PICK k \in MatchingAt(c) : x = n - k
    BY DEF S
  <2>2. ASSUME NEW j \in MatchingAt(c) PROVE j <= k
    <3>1. n - j \in S
      BY DEF S
    <3>2. n - k <= n - j
      BY <1>5, <2>1, <3>1
    <3>3. k \in Nat /\ j \in Nat
      BY <1>1
    <3> QED
      BY <1>1, <3>2, <3>3
  <2> QED
    BY <2>2
<1> DEFINE last == CHOOSE k \in MatchingAt(c) : \A j \in MatchingAt(c) : j <= k
<1>7. last \in MatchingAt(c)
  BY <1>6
<1>8. last \in DOMAIN buffer /\ Matches(c, buffer[last])
  BY <1>7 DEF MatchingAt
<1> HIDE DEF last
<1>9. buffer[last] \in Item
  BY <1>1, <1>8, ElementOfSeq
<1> QED
  BY <1>8, <1>9 DEF Latest, last
-----------------------------------------------------------------------------
LEMMA InitTyped == Init => Typed
<1> SUFFICES ASSUME Init PROVE Typed
  OBVIOUS
<1>1. overlap \in BOOLEAN
  BY DEF Init
<1>2. TypeOK
  BY <1>1, RoomIpcAssumption DEF Init, TypeOK, Clip
<1>3. AtWork
  BY DEF Init, AtWork, Proc
<1> QED
  BY <1>2, <1>3 DEF Typed

\* The steps of an ingest.
LEMMA IngestTyped ==
    ASSUME Typed, NEW w \in Worker, NEW i \in Item, Ingest(w, i) PROVE Typed'
<1> USE RoomIpcAssumption DEF Ingest
<1>0. TypeOK /\ AtWork /\ w \in Proc
  BY DEF Typed, Proc
<1>1. buffer' \in Seq(Item) /\ Len(buffer') <= BufferCap
  <2>1. buffer \in Seq(Item) /\ Len(buffer) \in Nat /\ Len(buffer) <= BufferCap
    BY <1>0, LenProperties DEF TypeOK
  <2>2. CASE Len(buffer) = BufferCap
    <3>1. buffer # <<>>
      BY <2>1, <2>2
    <3>2. Tail(buffer) \in Seq(Item) /\ Len(Tail(buffer)) = Len(buffer) - 1
      BY <2>1, <3>1, HeadTailProperties
    <3>3. buffer' = Append(Tail(buffer), i)
      BY <2>2
    <3> QED
      BY <2>1, <2>2, <3>2, <3>3, AppendProperties
  <2>3. CASE Len(buffer) # BufferCap
    <3>1. buffer' = Append(buffer, i)
      BY <2>3
    <3>2. buffer' \in Seq(Item) /\ Len(buffer') = Len(buffer) + 1
      BY <2>1, <3>1, AppendProperties
    <3> QED
      BY <2>1, <2>3, <3>2
  <2> QED
    BY <2>2, <2>3
<1>2. overlap' \in BOOLEAN
  BY <1>0, Zenon DEF TypeOK
<1>3. TypeOK'
  BY <1>0, <1>1, <1>2 DEF TypeOK
<1>4. AtWork'
  BY <1>0 DEF AtWork, TypeOK, Proc
<1> QED
  BY <1>3, <1>4 DEF Typed

LEMMA NotifyTyped ==
    ASSUME Typed, NEW w \in Worker, NEW c \in Streaming, Notify(w, c) PROVE Typed'
<1> USE RoomIpcAssumption DEF Notify
<1>0. TypeOK /\ AtWork /\ w \in Proc
  BY DEF Typed, Proc
<1>1. item[w] \in Item
  BY <1>0 DEF AtWork, TypeOK
<1>2. ch' \in [Streaming -> Seq(Item)] /\ \A d \in Streaming : Len(ch'[d]) <= SubCap
  <2>1. ch \in [Streaming -> Seq(Item)] /\ \A d \in Streaming : Len(ch[d]) <= SubCap
    BY <1>0 DEF TypeOK
  <2>2. ASSUME Len(ch[c]) < SubCap, ch' = [ch EXCEPT ![c] = Append(@, item[w])]
        PROVE  ch' \in [Streaming -> Seq(Item)] /\ \A d \in Streaming : Len(ch'[d]) <= SubCap
    <3>1. Append(ch[c], item[w]) \in Seq(Item) /\ Len(Append(ch[c], item[w])) = Len(ch[c]) + 1
      BY <1>1, <2>1, AppendProperties
    <3>2. Len(ch[c]) \in Nat
      BY <2>1, LenProperties
    <3>3. Len(Append(ch[c], item[w])) <= SubCap
      BY <2>2, <3>1, <3>2
    <3> QED
      BY <2>1, <2>2, <3>1, <3>3
  <2> QED
    BY <2>1, <2>2
<1>3. missed' \subseteq Streaming \X Item
  BY <1>0, <1>1 DEF TypeOK
<1>4. pending' \in [Worker -> SUBSET Streaming]
  BY <1>0 DEF TypeOK
<1>5. overlap' \in BOOLEAN
  BY <1>0, Zenon DEF TypeOK
<1>6. TypeOK'
  BY <1>0, <1>2, <1>3, <1>4, <1>5 DEF TypeOK
<1>7. AtWork'
  BY <1>0 DEF AtWork, TypeOK
<1> QED
  BY <1>6, <1>7 DEF Typed

\* A worker or handler that returns leaves pc and item in their types.
LEMMA FinishKeeps ==
    ASSUME Typed, NEW x \in Proc, Finish(x),
           UNCHANGED pending, x \in Worker => pending[x] = {}
    PROVE  /\ pc' \in [Proc -> {"idle", "notify", "subscribe", "wait", "clip", "hash", "done"}]
           /\ item' \in [Proc -> Item \cup {Own, Nothing}]
           /\ AtWork'
           /\ \A y \in Proc \ {x} : pc'[y] = pc[y] /\ item'[y] = item[y]
           /\ x \in Client => pc'[x] = "done" /\ item'[x] = item[x]
           /\ x \in Worker => pc'[x] = "idle"
<1> USE RoomIpcAssumption
<1>1. TypeOK /\ AtWork
  BY DEF Typed
<1>2. /\ pc' \in [Proc -> {"idle", "notify", "subscribe", "wait", "clip", "hash", "done"}]
      /\ item' \in [Proc -> Item \cup {Own, Nothing}]
      /\ \A y \in Proc \ {x} : pc'[y] = pc[y] /\ item'[y] = item[y]
      /\ x \in Client => pc'[x] = "done" /\ item'[x] = item[x]
      /\ x \in Worker => pc'[x] = "idle"
  BY <1>1 DEF Finish, TypeOK
<1>3. AtWork'
  BY <1>1, <1>2 DEF AtWork, Proc
<1> QED
  BY <1>2, <1>3

LEMMA ApplyAutoCopyTyped ==
    ASSUME Typed, NEW w \in Worker, ApplyAutoCopy(w) PROVE Typed'
<1> USE RoomIpcAssumption DEF ApplyAutoCopy
<1>0. TypeOK /\ AtWork /\ w \in Proc
  BY DEF Typed, Proc
<1>1. overlap' \in BOOLEAN
  BY <1>0, Zenon DEF TypeOK
<1>2. CASE item[w] \notin File /\ pc' = [pc EXCEPT ![w] = "clip"] /\ UNCHANGED item
  <2>1. TypeOK'
    BY <1>0, <1>1, <1>2 DEF TypeOK
  <2>2. AtWork'
    BY <1>0, <1>2 DEF AtWork, TypeOK, Proc
  <2> QED
    BY <2>1, <2>2 DEF Typed
<1>3. CASE Finish(w)
  BY <1>0, <1>1, <1>3, FinishKeeps DEF Typed, TypeOK
<1> QED
  BY <1>2, <1>3


\* Writing the clipboard and recording its hash.
LEMMA WriteClipTyped ==
    ASSUME Typed, NEW x \in Proc, WriteClip(x) PROVE Typed'
<1> USE RoomIpcAssumption DEF WriteClip
<1>0. TypeOK /\ AtWork
  BY DEF Typed
<1>1. overlap' \in BOOLEAN
  BY <1>0, Zenon DEF TypeOK
<1>2. CASE clipboard' = clipContent(item[x]) /\ pc' = [pc EXCEPT ![x] = "hash"] /\ UNCHANGED item
  <2>1. clipboard' \in Clip
    BY <1>0, <1>2 DEF AtWork, Clip
  <2>2. TypeOK'
    BY <1>0, <1>1, <1>2, <2>1 DEF TypeOK
  <2>3. AtWork'
    BY <1>0, <1>2 DEF AtWork, TypeOK, Proc
  <2> QED
    BY <2>2, <2>3 DEF Typed
<1>3. CASE Finish(x) /\ UNCHANGED clipboard
  <2>1. x \in Worker => pending[x] = {}
    BY <1>0 DEF AtWork
  <2> QED
    BY <1>0, <1>1, <1>3, <2>1, FinishKeeps DEF Typed, TypeOK
<1> QED
  BY <1>2, <1>3

LEMMA RecordCopyTyped ==
    ASSUME Typed, NEW x \in Proc, RecordCopy(x) PROVE Typed'
<1> USE RoomIpcAssumption DEF RecordCopy
<1>0. TypeOK /\ AtWork
  BY DEF Typed
<1>1. overlap' \in BOOLEAN
  BY <1>0, Zenon DEF TypeOK
<1>2. lastCopy' \in Clip
  BY <1>0 DEF AtWork, Clip
<1>3. x \in Worker => pending[x] = {}
  BY <1>0 DEF AtWork
<1> QED
  BY <1>0, <1>1, <1>2, <1>3, FinishKeeps DEF Typed, TypeOK

\* The steps of a recv or a stream.
LEMMA RecvLatestTyped ==
    ASSUME Typed, NEW c \in Recv, RecvLatest(c) PROVE Typed'
<1> USE RoomIpcAssumption DEF RecvLatest
<1>0. TypeOK /\ AtWork /\ c \in Streaming /\ c \in Client /\ c \in Proc /\ c \notin Worker
  BY DEF Typed, Streaming, Client, Proc
<1>1. overlap' \in BOOLEAN
  BY <1>0, Zenon DEF TypeOK
<1>2. CASE /\ MatchingAt(c) # {} /\ out' = [out EXCEPT ![c] = Append(@, Latest(c))]
           /\ Finish(c)
  <2>1. Latest(c) \in Item
    BY <1>0, <1>2, LatestFits DEF TypeOK
  <2>2. Append(out[c], Latest(c)) \in Seq(Item)
    BY <1>0, <2>1, AppendProperties DEF TypeOK
  <2>3. out' \in [Streaming -> Seq(Item)]
    BY <1>0, <1>2, <2>2 DEF TypeOK
  <2> QED
    BY <1>0, <1>1, <1>2, <2>3, FinishKeeps DEF Typed, TypeOK
<1>3. CASE pc' = [pc EXCEPT ![c] = "subscribe"] /\ UNCHANGED <<item, out>>
  <2>1. TypeOK'
    BY <1>0, <1>1, <1>3 DEF TypeOK
  <2>2. AtWork'
    BY <1>0, <1>3 DEF AtWork, TypeOK, Proc
  <2> QED
    BY <2>1, <2>2 DEF Typed
<1> QED
  BY <1>2, <1>3

LEMMA SubscribeTyped ==
    ASSUME Typed, NEW c \in Streaming, Subscribe(c) PROVE Typed'
<1> USE RoomIpcAssumption DEF Subscribe
<1>0. TypeOK /\ AtWork /\ c \in Client /\ c \in Proc /\ c \notin Worker
  BY DEF Typed, Streaming, Client, Proc
<1>1. overlap' \in BOOLEAN
  BY <1>0, Zenon DEF TypeOK
<1>2. TypeOK'
  BY <1>0, <1>1 DEF TypeOK
<1>3. AtWork'
  BY <1>0 DEF AtWork, TypeOK, Proc
<1> QED
  BY <1>2, <1>3 DEF Typed

LEMMA TakeTyped ==
    ASSUME Typed, NEW c \in Streaming, Take(c) PROVE Typed'
<1> USE RoomIpcAssumption DEF Take
<1>0. TypeOK /\ AtWork /\ c \in Client /\ c \in Proc /\ c \notin Worker
  BY DEF Typed, Streaming, Client, Proc
<1>1. overlap' \in BOOLEAN
  BY <1>0, Zenon DEF TypeOK
<1>2. ch[c] \in Seq(Item) /\ ch[c] # <<>> /\ Len(ch[c]) <= SubCap
  BY <1>0 DEF TypeOK
<1>3. Head(ch[c]) \in Item /\ Tail(ch[c]) \in Seq(Item) /\ Len(Tail(ch[c])) = Len(ch[c]) - 1
  BY <1>2, HeadTailProperties
<1>4. Append(out[c], Head(ch[c])) \in Seq(Item)
  BY <1>0, <1>3, AppendProperties DEF TypeOK
<1>5. out' \in [Streaming -> Seq(Item)]
  BY <1>0, <1>4 DEF TypeOK
<1>6. Len(Tail(ch[c])) <= SubCap
  <2>1. Len(ch[c]) \in Nat
    BY <1>2, LenProperties
  <2> QED
    BY <1>2, <1>3, <2>1
<1>7. CASE TakeHead(c) /\ UNCHANGED <<subs, pc, item>>
  <2>1. ch' \in [Streaming -> Seq(Item)] /\ \A d \in Streaming : Len(ch'[d]) <= SubCap
    BY <1>0, <1>3, <1>6, <1>7 DEF TypeOK, TakeHead
  <2>2. TypeOK'
    BY <1>0, <1>1, <1>5, <1>7, <2>1 DEF TypeOK
  <2>3. AtWork'
    BY <1>0, <1>7 DEF AtWork
  <2> QED
    BY <2>2, <2>3 DEF Typed
<1>8. CASE Unsubscribe(c)
  <2>1. <<>> \in Seq(Item) /\ Len(<<>>) <= SubCap
    OBVIOUS
  <2>2. ch' \in [Streaming -> Seq(Item)] /\ \A d \in Streaming : Len(ch'[d]) <= SubCap
    BY <1>0, <1>8, <2>1 DEF TypeOK, Unsubscribe
  <2>3. subs' \subseteq Streaming
    BY <1>0, <1>8 DEF TypeOK, Unsubscribe
  <2>4. Finish(c)
    BY <1>8 DEF Unsubscribe
  <2> QED
    BY <1>0, <1>1, <1>5, <2>2, <2>3, <2>4, FinishKeeps DEF Typed, TypeOK
<1> QED
  BY <1>7, <1>8

\* The steps of a paste or a copy.
LEMMA PlaceTyped ==
    ASSUME Typed, NEW c \in PasteClient \cup CopyClient,
           NEW i \in Item \cup {Own}, Place(c, i), UNCHANGED pending
    PROVE  /\ pc' \in [Proc -> {"idle", "notify", "subscribe", "wait", "clip", "hash", "done"}]
           /\ item' \in [Proc -> Item \cup {Own, Nothing}]
           /\ AtWork'
<1> USE RoomIpcAssumption DEF Place
<1>0. TypeOK /\ AtWork /\ c \in Client /\ c \in Proc /\ c \notin Worker
  BY DEF Typed, Client, Proc
<1>1. /\ pc' \in [Proc -> {"idle", "notify", "subscribe", "wait", "clip", "hash", "done"}]
      /\ item' \in [Proc -> Item \cup {Own, Nothing}]
  BY <1>0 DEF TypeOK
<1>2. AtWork'
  BY <1>0 DEF AtWork, TypeOK, Proc
<1> QED
  BY <1>1, <1>2

LEMMA PasteTyped ==
    ASSUME Typed, NEW c \in PasteClient \cup CopyClient, Paste(c) PROVE Typed'
<1> USE RoomIpcAssumption DEF Paste
<1>0. TypeOK /\ AtWork /\ c \in Client /\ c \in Proc /\ c \notin Worker
  BY DEF Typed, Client, Proc
<1>1. overlap' \in BOOLEAN
  BY <1>0, Zenon DEF TypeOK
<1>2. CASE buffer # <<>> /\ Place(c, buffer[Len(buffer)])
  <2>1. buffer \in Seq(Item) /\ Len(buffer) \in Nat /\ Len(buffer) # 0
    BY <1>0, <1>2, LenProperties, EmptySeq DEF TypeOK
  <2>2. buffer[Len(buffer)] \in Item
    BY <2>1, ElementOfSeq
  <2> QED
    BY <1>0, <1>1, <1>2, <2>2, PlaceTyped DEF Typed, TypeOK
<1>3. CASE Finish(c)
  BY <1>0, <1>1, <1>3, FinishKeeps DEF Typed, TypeOK
<1> QED
  BY <1>2, <1>3

LEMMA CopyTyped ==
    ASSUME Typed, NEW c \in CopyClient, Copy(c) PROVE Typed'
<1> USE RoomIpcAssumption DEF Copy
<1>0. TypeOK /\ AtWork /\ c \in Client /\ c \in Proc /\ c \notin Worker
  BY DEF Typed, Client, Proc
<1>1. overlap' \in BOOLEAN
  BY <1>0, Zenon DEF TypeOK
<1>2. ASSUME NEW i \in Item \cup {Own}, Place(c, i) PROVE Typed'
  BY <1>0, <1>1, <1>2, PlaceTyped DEF Typed, TypeOK
<1>3. CASE Finish(c)
  BY <1>0, <1>1, <1>3, FinishKeeps DEF Typed, TypeOK
<1> QED
  BY <1>2, <1>3

LEMMA NextTyped == Typed /\ [Next]_vars => Typed'
<1> SUFFICES ASSUME Typed, [Next]_vars PROVE Typed'
  OBVIOUS
<1>0. TypeOK /\ AtWork
  BY DEF Typed
<1>1. ASSUME NEW c \in FollowAny, Hangup(c) PROVE Typed'
  <2>1. overlap' \in BOOLEAN
    BY <1>0, <1>1, Zenon DEF TypeOK, Hangup
  <2> QED
    BY <1>0, <1>1, <2>1 DEF Typed, TypeOK, AtWork, Hangup
<1>2. ASSUME NEW m \in {"on", "notify"}, SetAutoCopy(m) PROVE Typed'
  <2>1. overlap' \in BOOLEAN
    BY <1>0, <1>2, Zenon DEF TypeOK, SetAutoCopy
  <2> QED
    BY <1>0, <1>2, <2>1 DEF Typed, TypeOK, AtWork, SetAutoCopy
<1>3. ASSUME ClearBuffer PROVE Typed'
  <2>1. overlap' \in BOOLEAN
    BY <1>0, <1>3, Zenon DEF TypeOK, ClearBuffer
  <2>2. buffer' \in Seq(Item) /\ Len(buffer') <= BufferCap
    BY <1>3, RoomIpcAssumption DEF ClearBuffer
  <2> QED
    BY <1>0, <1>3, <2>1, <2>2 DEF Typed, TypeOK, AtWork, ClearBuffer
<1>4. CASE UNCHANGED vars
  <2>1. overlap' \in BOOLEAN
    BY <1>0, <1>4, Zenon DEF TypeOK, vars
  <2> QED
    BY <1>0, <1>4, <2>1 DEF Typed, TypeOK, AtWork, vars
<1> QED
  BY <1>1, <1>2, <1>3, <1>4, IngestTyped, NotifyTyped, ApplyAutoCopyTyped,
     WriteClipTyped, RecordCopyTyped, RecvLatestTyped, SubscribeTyped, TakeTyped,
     PasteTyped, CopyTyped DEF Next

LEMMA AlwaysTyped == Spec => []Typed
BY InitTyped, NextTyped, PTL DEF Spec

\* The local side's state keeps its types: the buffer and the subscribers'
\* channels stay within their capacities, for every capacity and any number of
\* ingests and clients.
THEOREM IpcTypeCorrect == Spec => []TypeOK
<1>1. Typed => TypeOK
  BY DEF Typed
<1> QED
  BY <1>1, AlwaysTyped, PTL
-----------------------------------------------------------------------------
\* A step that leaves the clipboard alone, keeps the writers between write and
\* hash with what they wrote, and lets no client forget the item it placed.
ClipQuiet ==
    /\ UNCHANGED <<clipboard, lastCopy, overlap>>
    /\ \A x \in Proc : pc'[x] = "hash" <=> pc[x] = "hash"
    /\ \A x \in Proc : pc[x] = "hash" => item'[x] = item[x]
    /\ \A c \in Client : item[c] # Nothing => item'[c] = item[c]

LEMMA FinishQuiet ==
    ASSUME Typed, NEW x \in Proc, Finish(x), pc[x] # "hash",
           UNCHANGED <<pending, clipboard, lastCopy, overlap>>,
           x \in Worker => pending[x] = {}
    PROVE  ClipQuiet
<1>1. /\ \A y \in Proc \ {x} : pc'[y] = pc[y] /\ item'[y] = item[y]
      /\ x \in Client => pc'[x] = "done" /\ item'[x] = item[x]
      /\ x \in Worker => pc'[x] = "idle"
  BY FinishKeeps
<1> QED
  BY <1>1 DEF ClipQuiet, Proc

\* What a step does to the clipboard.
LEMMA ClipView ==
    ASSUME Typed, [Next]_vars
    PROVE  \/ ClipQuiet
           \/ \E x \in Proc :
                \/ /\ pc[x] = "clip" /\ clipboard' = clipContent(item[x])
                   /\ overlap' = \E y \in Proc : pc[y] = "hash"
                   /\ pc' = [pc EXCEPT ![x] = "hash"]
                   /\ UNCHANGED <<item, lastCopy>>
                \/ RecordCopy(x)
<1> USE RoomIpcAssumption
<1>0. TypeOK /\ AtWork
  BY DEF Typed
<1>1. CASE UNCHANGED <<clipboard, lastCopy, overlap, pc, item>>
  BY <1>1 DEF ClipQuiet
<1>2. ASSUME NEW w \in Worker, NEW i \in Item, Ingest(w, i) PROVE ClipQuiet
  BY <1>0, <1>2 DEF TypeOK, ClipQuiet, Ingest, Proc
<1>3. ASSUME NEW w \in Worker, ApplyAutoCopy(w) PROVE ClipQuiet
  <2>0. w \in Proc /\ pc[w] # "hash" /\ pending[w] = {}
          /\ UNCHANGED <<pending, clipboard, lastCopy, overlap>>
    BY <1>3 DEF Proc, ApplyAutoCopy
  <2>1. CASE Finish(w)
    BY <2>0, <2>1, FinishQuiet
  <2>2. CASE pc' = [pc EXCEPT ![w] = "clip"] /\ UNCHANGED item
    BY <1>0, <2>0, <2>2 DEF TypeOK, ClipQuiet
  <2> QED
    BY <1>3, <2>1, <2>2 DEF ApplyAutoCopy
<1>4. ASSUME NEW x \in Proc, WriteClip(x)
      PROVE  \/ ClipQuiet
             \/ /\ pc[x] = "clip" /\ clipboard' = clipContent(item[x])
                /\ overlap' = \E y \in Proc : pc[y] = "hash"
                /\ pc' = [pc EXCEPT ![x] = "hash"]
                /\ UNCHANGED <<item, lastCopy>>
  <2>0. pc[x] = "clip" /\ pc[x] # "hash" /\ UNCHANGED <<pending, lastCopy>>
    BY <1>4 DEF WriteClip
  <2>1. x \in Worker => pending[x] = {}
    BY <1>0, <2>0 DEF AtWork
  <2>2. CASE Finish(x) /\ UNCHANGED <<clipboard, overlap>>
    BY <2>0, <2>1, <2>2, FinishQuiet
  <2> QED
    BY <1>4, <2>2, Zenon DEF WriteClip
<1>5. ASSUME NEW c \in Recv, RecvLatest(c) PROVE ClipQuiet
  <2>0. /\ c \in Proc /\ c \notin Worker /\ pc[c] # "hash"
        /\ UNCHANGED <<pending, clipboard, lastCopy, overlap>>
    BY <1>5 DEF Proc, Client, Streaming, RecvLatest
  <2>1. CASE Finish(c)
    BY <2>0, <2>1, FinishQuiet
  <2>2. CASE pc' = [pc EXCEPT ![c] = "subscribe"] /\ UNCHANGED item
    BY <1>0, <2>0, <2>2 DEF TypeOK, ClipQuiet
  <2> QED
    BY <1>5, <2>1, <2>2 DEF RecvLatest
<1>6. ASSUME NEW c \in Streaming, Subscribe(c) PROVE ClipQuiet
  BY <1>0, <1>6 DEF TypeOK, ClipQuiet, Subscribe, Proc, Client
<1>7. ASSUME NEW c \in Streaming, Take(c) PROVE ClipQuiet
  <2>0. /\ c \in Proc /\ c \notin Worker /\ pc[c] # "hash"
        /\ UNCHANGED <<pending, clipboard, lastCopy, overlap>>
    BY <1>7 DEF Proc, Client, Take
  <2>1. CASE Unsubscribe(c)
    BY <2>0, <2>1, FinishQuiet DEF Unsubscribe
  <2>2. CASE UNCHANGED <<subs, pc, item>>
    BY <2>0, <2>2 DEF ClipQuiet
  <2> QED
    BY <1>7, <2>1, <2>2 DEF Take
<1>8. ASSUME NEW c \in PasteClient \cup CopyClient, Paste(c) \/ Copy(c) PROVE ClipQuiet
  <2>0. /\ c \in Client /\ c \in Proc /\ c \notin Worker /\ pc[c] = "idle" /\ pc[c] # "hash"
        /\ UNCHANGED <<pending, clipboard, lastCopy, overlap>>
    BY <1>8 DEF Proc, Client, Paste, Copy
  <2>1. CASE Finish(c)
    BY <2>0, <2>1, FinishQuiet
  <2>2. ASSUME NEW i, Place(c, i) PROVE ClipQuiet
    <3>1. item[c] = Nothing
      BY <1>0, <2>0 DEF AtWork
    <3> QED
      BY <1>0, <2>0, <2>2, <3>1 DEF TypeOK, ClipQuiet, Place, Proc
  <2> QED
    BY <1>8, <2>1, <2>2 DEF Paste, Copy
<1>9. ASSUME NEW w \in Worker, NEW c \in Streaming, Notify(w, c)
      PROVE  UNCHANGED <<clipboard, lastCopy, overlap, pc, item>>
  BY <1>9 DEF Notify
<1>10. ASSUME NEW c \in FollowAny, Hangup(c)
       PROVE  UNCHANGED <<clipboard, lastCopy, overlap, pc, item>>
  BY <1>10 DEF Hangup
<1>11. ASSUME NEW m, SetAutoCopy(m)
       PROVE  UNCHANGED <<clipboard, lastCopy, overlap, pc, item>>
  BY <1>11 DEF SetAutoCopy
<1>12. ASSUME ClearBuffer PROVE UNCHANGED <<clipboard, lastCopy, overlap, pc, item>>
  BY <1>12 DEF ClearBuffer
<1> QED
  BY <1>1, <1>2, <1>3, <1>4, <1>5, <1>6, <1>7, <1>8, <1>9, <1>10, <1>11, <1>12, Zenon
     DEF Next, vars

\* The daemon puts a file's path on the clipboard only when a paste or a copy
\* asked for that file: auto_copy never does, whatever ingests, requests and
\* failed writes interleave.
THEOREM FilesAreAskedFor == Spec => []FilesOnlyOnRequest
<1>1. Init => FilesOnlyOnRequest
  BY RoomIpcAssumption DEF Init, FilesOnlyOnRequest, Item
<1>2. Typed /\ FilesOnlyOnRequest /\ [Next]_vars => FilesOnlyOnRequest'
  <2> SUFFICES ASSUME Typed, FilesOnlyOnRequest, [Next]_vars,
                      NEW i \in File, clipboard' = <<"path", i>>
               PROVE  \E c \in PasteClient \cup CopyClient : item'[c] = i
    BY DEF FilesOnlyOnRequest
  <2>0. i # Nothing /\ TypeOK /\ AtWork
    BY RoomIpcAssumption DEF Item, Typed
  <2>1. ASSUME clipboard = <<"path", i>>,
               \A c \in Client : item[c] # Nothing => item'[c] = item[c]
        PROVE  \E c \in PasteClient \cup CopyClient : item'[c] = i
    <3>1. PICK c \in PasteClient \cup CopyClient : item[c] = i
      BY <2>1 DEF FilesOnlyOnRequest
    <3> QED
      BY <2>0, <2>1, <3>1 DEF Client
  <2>2. CASE ClipQuiet
    BY <2>1, <2>2 DEF ClipQuiet
  <2>3. ASSUME NEW x \in Proc, pc[x] = "clip", clipboard' = clipContent(item[x]),
               UNCHANGED item
        PROVE  \E c \in PasteClient \cup CopyClient : item'[c] = i
    <3>1. item[x] = i
      BY <2>3 DEF clipContent
    <3>2. x \in PasteClient \cup CopyClient
      BY <2>0, <2>3, <3>1 DEF AtWork
    <3> QED
      BY <2>3, <3>1, <3>2
  <2>4. ASSUME NEW x \in Proc, RecordCopy(x)
        PROVE  \E c \in PasteClient \cup CopyClient : item'[c] = i
    <3>1. \A c \in Client : item'[c] = item[c]
      BY <2>0, <2>4, RoomIpcAssumption DEF RecordCopy, Finish, TypeOK, Proc
    <3>2. clipboard = <<"path", i>>
      BY <2>4 DEF RecordCopy
    <3> QED
      BY <2>1, <3>1, <3>2
  <2> QED
    BY <2>2, <2>3, <2>4, ClipView
<1> QED
  BY <1>1, <1>2, AlwaysTyped, PTL DEF Spec

\* Once the writers are through, lastCopy is the hash of what the daemon last
\* wrote to the clipboard, unless two writers overlapped between the write and
\* the locked assignment of the hash.
THEOREM HashFollowsClipboard == Spec => []LastCopyTracksClipboard
<1>1. Init => LoneWriter
  <2>1. Init => lastCopy = clipboard /\ \A x \in Proc : pc[x] # "hash"
    BY DEF Init
  <2> QED
    BY <2>1 DEF LoneWriter, LastCopyTracksClipboard
<1>2. Typed /\ LoneWriter /\ [Next]_vars => LoneWriter'
  <2> SUFFICES ASSUME Typed, LoneWriter, [Next]_vars PROVE LoneWriter'
    OBVIOUS
  <2>0. pc \in [Proc -> {"idle", "notify", "subscribe", "wait", "clip", "hash", "done"}]
    BY DEF Typed, TypeOK
  <2>1. CASE ClipQuiet
    BY <2>1, Zenon DEF ClipQuiet, LoneWriter, LastCopyTracksClipboard, clipContent
  <2>2. ASSUME NEW x \in Proc, clipboard' = clipContent(item[x]), item' = item,
               overlap' = \E y \in Proc : pc[y] = "hash",
               pc' = [pc EXCEPT ![x] = "hash"]
        PROVE  LoneWriter'
    <3>1. pc'[x] = "hash" /\ \A y \in Proc \ {x} : pc'[y] = pc[y]
      BY <2>0, <2>2
    <3>2. LastCopyTracksClipboard'
      BY <3>1, Zenon DEF LastCopyTracksClipboard
    <3>3. CASE overlap'
      BY <3>2, <3>3, Zenon DEF LoneWriter
    <3>4. CASE ~overlap'
      <4>1. \A y \in Proc : pc[y] # "hash"
        BY <2>2, <3>4, Zenon
      <4>2. \A y \in Proc : pc'[y] = "hash" => y = x
        BY <3>1, <4>1
      <4>3. clipboard' = clipContent(item'[x])
        BY <2>2
      <4> QED
        BY <3>2, <4>2, <4>3, Zenon DEF LoneWriter, clipContent
    <3> QED
      BY <3>3, <3>4
  <2>3. ASSUME NEW x \in Proc, RecordCopy(x) PROVE LoneWriter'
    <3>0. pc[x] = "hash" /\ UNCHANGED <<clipboard, overlap, pending>> /\ Finish(x)
            /\ lastCopy' = clipContent(item[x])
      BY <2>3, Zenon DEF RecordCopy
    <3>1. pc'[x] # "hash" /\ \A y \in Proc \ {x} : pc'[y] = pc[y] /\ item'[y] = item[y]
      <4>1. x \in Worker => pending[x] = {}
        BY <3>0 DEF Typed, AtWork
      <4> QED
        BY <3>0, <4>1, FinishKeeps DEF Proc
    <3>2. CASE overlap
      BY <3>0, <3>2, Zenon DEF LoneWriter, LastCopyTracksClipboard
    <3>3. CASE ~overlap
      <4>1. \A y \in Proc : pc[y] = "hash" => y = x
        BY <3>0, <3>3, Zenon DEF LoneWriter
      <4>2. clipboard = clipContent(item[x])
        BY <3>0, <3>3, Zenon DEF LoneWriter
      <4>3. lastCopy' = clipboard' /\ \A y \in Proc : pc'[y] # "hash"
        BY <3>0, <3>1, <4>1, <4>2
      <4> QED
        BY <4>3, Zenon DEF LoneWriter, LastCopyTracksClipboard
    <3> QED
      BY <3>2, <3>3
  <2> QED
    BY <2>1, <2>2, <2>3, ClipView, Zenon
<1>3. LoneWriter => LastCopyTracksClipboard
  BY DEF LoneWriter
<1> QED
  BY <1>1, <1>2, <1>3, AlwaysTyped, PTL DEF Spec
-----------------------------------------------------------------------------
\* A step that begins no ingest: the items in hand stay, fewer are pending.
WorkQuiet ==
    /\ UNCHANGED arrived
    /\ \A w \in Worker : pending'[w] \subseteq pending[w]
    /\ \A w \in Worker : pc'[w] = "notify" => pc[w] = "notify" /\ item'[w] = item[w]

LEMMA FinishWork ==
    ASSUME Typed, NEW x \in Proc, Finish(x), UNCHANGED <<arrived, pending>>,
           x \in Worker => pending[x] = {}
    PROVE  WorkQuiet
<1>1. /\ \A y \in Proc \ {x} : pc'[y] = pc[y] /\ item'[y] = item[y]
      /\ x \in Worker => pc'[x] = "idle"
  BY FinishKeeps
<1> QED
  BY <1>1 DEF WorkQuiet, Proc

LEMMA WorkView ==
    ASSUME Typed, [Next]_vars
    PROVE  WorkQuiet \/ \E w \in Worker, i \in Item : Ingest(w, i)
<1> USE RoomIpcAssumption
<1>0. TypeOK /\ AtWork
  BY DEF Typed
<1>1. CASE UNCHANGED <<arrived, pending, pc, item>>
  BY <1>1 DEF WorkQuiet
<1>2. ASSUME NEW w \in Worker, NEW c \in Streaming, Notify(w, c) PROVE WorkQuiet
  BY <1>0, <1>2 DEF TypeOK, WorkQuiet, Notify
<1>3. ASSUME NEW w \in Worker, ApplyAutoCopy(w) PROVE WorkQuiet
  <2>0. w \in Proc /\ pending[w] = {} /\ UNCHANGED <<arrived, pending>>
    BY <1>3 DEF Proc, ApplyAutoCopy
  <2>1. CASE Finish(w)
    BY <2>0, <2>1, FinishWork
  <2>2. CASE pc' = [pc EXCEPT ![w] = "clip"] /\ UNCHANGED item
    BY <1>0, <2>0, <2>2 DEF TypeOK, WorkQuiet, Proc
  <2> QED
    BY <1>3, <2>1, <2>2 DEF ApplyAutoCopy
<1>4. ASSUME NEW x \in Proc, WriteClip(x) \/ RecordCopy(x) PROVE WorkQuiet
  <2>0. pc[x] \in {"clip", "hash"} /\ UNCHANGED <<arrived, pending>>
    BY <1>4 DEF WriteClip, RecordCopy
  <2>1. x \in Worker => pending[x] = {}
    BY <1>0, <2>0 DEF AtWork
  <2>2. CASE Finish(x)
    BY <2>0, <2>1, <2>2, FinishWork
  <2>3. CASE pc' = [pc EXCEPT ![x] = "hash"] /\ UNCHANGED item
    BY <1>0, <2>0, <2>3 DEF TypeOK, WorkQuiet, Proc
  <2> QED
    BY <1>4, <2>2, <2>3 DEF WriteClip, RecordCopy
<1>5. ASSUME NEW c \in Client, RecvLatest(c) \/ Subscribe(c) \/ Take(c) \/ Paste(c) \/ Copy(c)
      PROVE  WorkQuiet
  <2>0. c \in Proc /\ c \notin Worker /\ UNCHANGED <<arrived, pending>>
    BY <1>5 DEF Proc, RecvLatest, Subscribe, Take, Paste, Copy
  <2>1. CASE Finish(c)
    BY <2>0, <2>1, FinishWork
  <2>2. CASE \A w \in Worker : pc'[w] = pc[w] /\ item'[w] = item[w]
    BY <2>0, <2>2 DEF WorkQuiet
  <2>3. ASSUME NEW i, Place(c, i) PROVE WorkQuiet
    BY <1>0, <2>0, <2>2, <2>3 DEF TypeOK, Proc, Place
  <2>4. ASSUME NEW v, pc' = [pc EXCEPT ![c] = v], UNCHANGED item PROVE WorkQuiet
    BY <1>0, <2>0, <2>2, <2>4 DEF TypeOK, Proc
  <2>5. CASE UNCHANGED <<pc, item>>
    BY <2>2, <2>5
  <2> QED
    BY <1>5, <2>1, <2>3, <2>4, <2>5
       DEF RecvLatest, Subscribe, Take, Paste, Copy, Unsubscribe
<1>6. Recv \subseteq Client /\ Streaming \subseteq Client
        /\ PasteClient \cup CopyClient \subseteq Client
  BY DEF Client, Streaming
<1> QED
  BY <1>1, <1>2, <1>3, <1>4, <1>5, <1>6 DEF Next, vars, Hangup, SetAutoCopy, ClearBuffer

LEMMA NextDistinctWork ==
    ASSUME Typed, DistinctWork, [Next]_vars PROVE DistinctWork'
<1>1. CASE WorkQuiet
  BY <1>1 DEF WorkQuiet, DistinctWork
<1>2. ASSUME NEW w \in Worker, NEW i \in Item, Ingest(w, i) PROVE DistinctWork'
  <2>1. /\ i \notin arrived /\ arrived' = arrived \cup {i}
        /\ item'[w] = i
        /\ \A v \in Worker \ {w} : pc'[v] = pc[v] /\ item'[v] = item[v]
    BY <1>2 DEF Ingest, Typed, TypeOK, Proc
  <2>2. \A v \in Worker \ {w} : pc'[v] = "notify" => item'[v] # i
    BY <2>1 DEF DistinctWork
  <2> QED
    BY <2>1, <2>2 DEF DistinctWork
<1> QED
  BY <1>1, <1>2, WorkView

\* What a step does to the answers of a client: nothing, or it adds an item of
\* the kind asked for, which ends a request that does not follow.
AnswerStep(c) ==
    \/ out'[c] = out[c] /\ (c \in Recv /\ pc[c] = "done" => pc'[c] = "done")
    \/ \E i \in Item : /\ Matches(c, i) /\ out'[c] = Append(out[c], i)
                       /\ c \in Recv => pc[c] # "done" /\ pc'[c] = "done"

LEMMA AnswerView ==
    ASSUME Typed, [Next]_vars, NEW c \in Streaming PROVE AnswerStep(c)
<1> USE RoomIpcAssumption
<1>0. TypeOK /\ AtWork /\ c \in Client /\ c \in Proc /\ c \notin Worker
  BY DEF Typed, Streaming, Client, Proc
<1>1. ASSUME UNCHANGED out,
             \/ UNCHANGED pc
             \/ \E x \in Proc : /\ x # c \/ pc[c] # "done"
                                /\ \E v : pc' = [pc EXCEPT ![x] = v]
      PROVE  AnswerStep(c)
  BY <1>0, <1>1 DEF AnswerStep, TypeOK
<1>2. ASSUME NEW x \in Proc, pc[x] # "done", Finish(x), UNCHANGED out PROVE AnswerStep(c)
  BY <1>1, <1>2 DEF Finish
<1>3. ASSUME NEW d \in Recv, RecvLatest(d) PROVE AnswerStep(c)
  <2>0. d \in Streaming /\ d \in Client /\ d \in Proc /\ d \notin Worker /\ pc[d] = "idle"
    BY <1>3 DEF Streaming, Client, Proc, RecvLatest
  <2>1. CASE MatchingAt(d) # {} /\ out' = [out EXCEPT ![d] = Append(@, Latest(d))] /\ Finish(d)
    <3>1. Latest(d) \in Item /\ Matches(d, Latest(d))
      BY <1>0, <2>1, LatestFits DEF TypeOK
    <3>2. pc' = [pc EXCEPT ![d] = "done"]
      BY <2>0, <2>1 DEF Finish
    <3>3. CASE c = d
      <4>1. out'[c] = Append(out[c], Latest(d)) /\ pc'[c] = "done"
        BY <1>0, <2>1, <3>2, <3>3 DEF TypeOK
      <4> QED
        BY <2>0, <3>1, <3>3, <4>1 DEF AnswerStep
    <3>4. CASE c # d
      BY <1>0, <2>1, <3>2, <3>4 DEF AnswerStep, TypeOK
    <3> QED
      BY <3>3, <3>4
  <2>2. CASE pc' = [pc EXCEPT ![d] = "subscribe"] /\ UNCHANGED out
    BY <1>1, <2>0, <2>2
  <2> QED
    BY <1>3, <2>1, <2>2 DEF RecvLatest
<1>4. ASSUME NEW d \in Streaming, Take(d) PROVE AnswerStep(c)
  <2>0. d \in Client /\ d \in Proc /\ d \notin Worker /\ pc[d] = "wait"
    BY <1>4 DEF Client, Proc, Take
  <2>1. UNCHANGED pc \/ (Finish(d) /\ pc' = [pc EXCEPT ![d] = "done"])
    BY <1>4, <2>0 DEF Take, Unsubscribe, Finish
  <2>2. CASE UNCHANGED out
    BY <1>1, <2>0, <2>1, <2>2
  <2>3. CASE /\ Matches(d, Head(ch[d]))
             /\ out' = [out EXCEPT ![d] = Append(@, Head(ch[d]))]
             /\ d \in Recv => Unsubscribe(d)
    <3>1. Head(ch[d]) \in Item
      <4>1. ch[d] \in Seq(Item) /\ ch[d] # <<>>
        BY <1>0, <1>4 DEF TypeOK, Take
      <4> QED
        BY <4>1, HeadTailProperties
    <3>2. CASE c = d
      <4>1. out'[c] = Append(out[c], Head(ch[d]))
        BY <1>0, <2>3, <3>2 DEF TypeOK
      <4>2. c \in Recv => pc'[c] = "done"
        BY <1>0, <2>0, <2>3, <3>2 DEF TypeOK, Unsubscribe, Finish
      <4> QED
        BY <2>0, <2>3, <3>1, <3>2, <4>1, <4>2 DEF AnswerStep
    <3>3. CASE c # d
      BY <1>0, <2>1, <2>3, <3>3 DEF AnswerStep, TypeOK
    <3> QED
      BY <3>2, <3>3
  <2>4. CASE /\ Matches(d, Head(ch[d]))
             /\ out' = [out EXCEPT ![d] = IF d \in gone THEN @ ELSE Append(@, Head(ch[d]))]
             /\ \/ d \in FollowAny \ gone
                \/ d \in Recv \cup gone /\ Unsubscribe(d)
    <3>1. CASE d \in gone
      <4>1. out' = out
        BY <1>0, <2>4, <3>1 DEF TypeOK
      <4> QED
        BY <2>2, <4>1
    <3>2. CASE d \notin gone
      BY <2>3, <2>4, <3>2
    <3> QED
      BY <3>1, <3>2
  <2> QED
    BY <1>4, <2>2, <2>4 DEF Take
<1>5. ASSUME NEW d \in Client, Paste(d) \/ Copy(d) PROVE AnswerStep(c)
  BY <1>1, <1>2, <1>5 DEF Paste, Copy, Place, Proc
<1>6. ASSUME NEW w \in Worker, NEW i \in Item, Ingest(w, i) PROVE AnswerStep(c)
  BY <1>0, <1>1, <1>6 DEF Ingest, Proc
<1>7. ASSUME NEW w \in Worker, ApplyAutoCopy(w) PROVE AnswerStep(c)
  BY <1>1, <1>2, <1>7 DEF ApplyAutoCopy, Proc
<1>8. ASSUME NEW x \in Proc, WriteClip(x) \/ RecordCopy(x) PROVE AnswerStep(c)
  BY <1>1, <1>2, <1>8 DEF WriteClip, RecordCopy
<1>9. ASSUME NEW d \in Streaming, Subscribe(d) PROVE AnswerStep(c)
  BY <1>1, <1>9 DEF Subscribe, Proc, Client
<1>10. CASE UNCHANGED <<out, pc>>
  BY <1>1, <1>10
<1>11. PasteClient \cup CopyClient \subseteq Client
  BY DEF Client
<1> QED
  BY <1>3, <1>4, <1>5, <1>6, <1>7, <1>8, <1>9, <1>10, <1>11
     DEF Next, vars, Notify, Hangup, SetAutoCopy, ClearBuffer

\* What a step does to a stream: nothing, its handler returns, an ingest puts
\* an item into its channel, or the handler passes the next one on or over.
LEMMA StreamView ==
    ASSUME Typed, [Next]_vars, NEW c \in FollowAny
    PROVE  \/ out'[c] = out[c] /\ ch'[c] \in {ch[c], <<>>}
           \/ \E w \in Worker : /\ c \in pending[w] /\ c \notin pending'[w]
                                /\ out'[c] = out[c] /\ ch'[c] = Append(ch[c], item[w])
           \/ /\ ch[c] # <<>> /\ ch'[c] = Tail(ch[c])
              /\ out'[c] \in {out[c], Append(out[c], Head(ch[c]))}
<1> USE RoomIpcAssumption
<1>0. TypeOK /\ c \in Streaming /\ c \notin Recv
  BY DEF Typed, Streaming
<1> DEFINE Seen ==
           \/ out'[c] = out[c] /\ ch'[c] \in {ch[c], <<>>}
           \/ \E w \in Worker : /\ c \in pending[w] /\ c \notin pending'[w]
                                /\ out'[c] = out[c] /\ ch'[c] = Append(ch[c], item[w])
           \/ /\ ch[c] # <<>> /\ ch'[c] = Tail(ch[c])
              /\ out'[c] \in {out[c], Append(out[c], Head(ch[c]))}
<1>1. CASE UNCHANGED <<out, ch>>
  BY <1>1
<1>2. ASSUME NEW w \in Worker, NEW d \in Streaming, Notify(w, d) PROVE Seen
  <2>1. UNCHANGED out /\ d \in pending[w] /\ pending' = [pending EXCEPT ![w] = @ \ {d}]
    BY <1>2 DEF Notify
  <2>2. CASE ch' = [ch EXCEPT ![d] = Append(@, item[w])] /\ c = d
    <3>1. ch'[c] = Append(ch[c], item[w]) /\ c \notin pending'[w]
      BY <1>0, <2>1, <2>2 DEF TypeOK
    <3> QED
      BY <2>1, <2>2, <3>1
  <2>3. CASE UNCHANGED ch \/ (ch' = [ch EXCEPT ![d] = Append(@, item[w])] /\ c # d)
    BY <1>0, <2>1, <2>3 DEF TypeOK
  <2> QED
    BY <1>2, <2>2, <2>3 DEF Notify
<1>3. ASSUME NEW d \in Streaming, Take(d) PROVE Seen
  <2>0. /\ ch[d] # <<>>
        /\ \/ UNCHANGED out
           \/ out' = [out EXCEPT ![d] = IF d \in gone THEN @ ELSE Append(@, Head(ch[d]))]
        /\ \/ ch' = [ch EXCEPT ![d] = Tail(@)]
           \/ ch' = [ch EXCEPT ![d] = <<>>] /\ (UNCHANGED out \/ d \in Recv \cup gone)
    BY <1>3 DEF Take, TakeHead, Unsubscribe
  <2>1. CASE c # d
    BY <1>0, <2>0, <2>1 DEF TypeOK
  <2>2. CASE c = d
    <3>1. CASE ch' = [ch EXCEPT ![d] = Tail(@)]
      BY <1>0, <2>0, <2>2, <3>1 DEF TypeOK
    <3>2. CASE ch' = [ch EXCEPT ![d] = <<>>] /\ (UNCHANGED out \/ d \in Recv \cup gone)
      BY <1>0, <2>0, <2>2, <3>2 DEF TypeOK
    <3> QED
      BY <2>0, <3>1, <3>2
  <2> QED
    BY <2>1, <2>2
<1>4. ASSUME NEW d \in Recv, RecvLatest(d) PROVE Seen
  BY <1>0, <1>4 DEF RecvLatest, TypeOK
<1> QED
  BY <1>1, <1>2, <1>3, <1>4
     DEF Next, vars, Ingest, ApplyAutoCopy, WriteClip, RecordCopy, Subscribe, Hangup,
         Paste, Copy, SetAutoCopy, ClearBuffer

LEMMA NextStreamFresh ==
    ASSUME Typed, Typed', DistinctWork, [Next]_vars, NEW c \in FollowAny, StreamFresh(c)
    PROVE  StreamFresh(c)'
<1>0. /\ out[c] \in Seq(Item) /\ ch[c] \in Seq(Item)
      /\ out'[c] \in Seq(Item) /\ ch'[c] \in Seq(Item)
  BY DEF Typed, TypeOK, Streaming
<1>1. /\ IsInjective(out[c]) /\ IsInjective(ch[c])
      /\ Range(out[c]) \cap Range(ch[c]) = {}
      /\ Range(out[c]) \cup Range(ch[c]) \subseteq arrived
      /\ \A w \in Worker : c \in pending[w] => item[w] \notin Range(out[c]) \cup Range(ch[c])
  BY DEF StreamFresh
<1>2. \A w \in Worker : c \in pending'[w] => pc'[w] = "notify"
  BY DEF Typed, AtWork
<1>3. \A w \in Worker : c \in pending[w] => pc[w] = "notify"
  BY DEF Typed, AtWork
<1>4. IsInjective(<<>>) /\ Range(<<>>) = {}
  BY DEF IsInjective, Range
\* The stream is left alone, or its handler returns.
<1>5. CASE out'[c] = out[c] /\ ch'[c] \in {ch[c], <<>>}
  <2>1. /\ IsInjective(out'[c]) /\ IsInjective(ch'[c])
        /\ Range(out'[c]) = Range(out[c]) /\ Range(ch'[c]) \subseteq Range(ch[c])
    BY <1>1, <1>4, <1>5
  <2>2. arrived \subseteq arrived'
          /\ \A w \in Worker : c \in pending'[w] => item'[w] \notin Range(out[c]) \cup Range(ch[c])
    <3>1. CASE WorkQuiet
      BY <1>1, <1>2, <3>1 DEF WorkQuiet
    <3>2. ASSUME NEW w \in Worker, NEW i \in Item, Ingest(w, i)
          PROVE  /\ arrived \subseteq arrived'
                 /\ \A v \in Worker : c \in pending'[v] =>
                       item'[v] \notin Range(out[c]) \cup Range(ch[c])
      <4>1. /\ i \notin arrived /\ arrived' = arrived \cup {i} /\ item'[w] = i
            /\ \A v \in Worker \ {w} : pending'[v] = pending[v] /\ item'[v] = item[v]
        BY <3>2 DEF Ingest, Typed, TypeOK, Proc
      <4> QED
        BY <1>1, <4>1
    <3> QED
      BY <3>1, <3>2, WorkView
  <2> QED
    BY <1>1, <2>1, <2>2 DEF StreamFresh
\* An ingest offers its item.
<1>6. ASSUME NEW w \in Worker, c \in pending[w], c \notin pending'[w],
             out'[c] = out[c], ch'[c] = Append(ch[c], item[w])
      PROVE  StreamFresh(c)'
  <2>0. item[w] \in Item /\ item[w] \in arrived /\ item[w] \notin Range(out[c]) \cup Range(ch[c])
    BY <1>1, <1>3, <1>6 DEF Typed, AtWork, DistinctWork
  <2>1. WorkQuiet
    <3>1. ASSUME NEW v \in Worker, NEW i \in Item, Ingest(v, i) PROVE FALSE
      <4>1. ch' = ch
        BY <3>1 DEF Ingest
      <4>2. Len(Append(ch[c], item[w])) = Len(ch[c]) + 1 /\ Len(ch[c]) \in Nat
        BY <1>0, <2>0, AppendProperties, LenProperties
      <4> QED
        BY <1>6, <4>1, <4>2
    <3> QED
      BY <3>1, WorkView
  <2>2. Range(ch'[c]) = Range(ch[c]) \cup {item[w]} /\ IsInjective(ch'[c])
    BY <1>0, <1>1, <1>6, <2>0, AppendFresh
  <2>3. \A v \in Worker : c \in pending'[v] =>
           item'[v] \notin Range(out[c]) \cup Range(ch[c]) \cup {item[w]}
    BY <1>1, <1>2, <1>3, <1>6, <2>1 DEF WorkQuiet, DistinctWork
  <2> QED
    BY <1>1, <1>6, <2>0, <2>1, <2>2, <2>3 DEF StreamFresh, WorkQuiet
\* The handler takes the next item, to send it or to pass over it.
<1>7. CASE /\ ch[c] # <<>> /\ ch'[c] = Tail(ch[c])
           /\ out'[c] \in {out[c], Append(out[c], Head(ch[c]))}
  <2>1. /\ Head(ch[c]) \in Range(ch[c]) /\ Range(ch'[c]) \subseteq Range(ch[c])
        /\ IsInjective(ch'[c]) /\ Head(ch[c]) \notin Range(ch'[c])
    BY <1>0, <1>1, <1>7, TailFresh
  <2>2. Head(ch[c]) \in Item /\ Len(Tail(ch[c])) = Len(ch[c]) - 1 /\ Len(ch[c]) \in Nat
    BY <1>0, <1>7, HeadTailProperties, LenProperties
  <2>3. WorkQuiet
    <3>1. ASSUME NEW v \in Worker, NEW i \in Item, Ingest(v, i) PROVE FALSE
      <4>1. ch' = ch
        BY <3>1 DEF Ingest
      <4>2. Len(Tail(ch[c])) = Len(ch[c])
        BY <1>7, <4>1, Zenon
      <4> QED
        BY <2>2, <4>2
    <3> QED
      BY <3>1, WorkView
  <2>4. Head(ch[c]) \notin Range(out[c])
    BY <1>1, <2>1
  <2>5. IsInjective(out'[c]) /\ Range(out'[c]) \subseteq Range(out[c]) \cup {Head(ch[c])}
    <3>1. CASE out'[c] = out[c]
      BY <1>1, <3>1
    <3>2. CASE out'[c] = Append(out[c], Head(ch[c]))
      BY <1>0, <1>1, <2>2, <2>4, <3>2, AppendFresh
    <3> QED
      BY <1>7, <3>1, <3>2
  <2>6. \A v \in Worker : c \in pending'[v] => item'[v] \notin Range(out[c]) \cup Range(ch[c])
    BY <1>1, <1>2, <2>3 DEF WorkQuiet
  <2> QED
    BY <1>1, <2>1, <2>3, <2>5, <2>6 DEF StreamFresh, WorkQuiet
<1> QED
  BY <1>5, <1>6, <1>7, StreamView

\* A client gets only items of its kind, none twice, and a recv without
\* --follow at most one, however the ingests that fan items out interleave with
\* its request and with each other, for every channel and buffer capacity.
THEOREM AnswersAlwaysFit == Spec => []AnswersFit
<1>1. Init => AnswerInv
  <2> SUFFICES ASSUME Init PROVE AnswerInv
    OBVIOUS
  <2>1. Recv \subseteq Streaming /\ FollowAny \subseteq Streaming
    BY DEF Streaming
  <2>2. \A c \in Streaming : out[c] = <<>> /\ ch[c] = <<>>
    BY DEF Init
  <2>3. \A c \in FollowAny : StreamFresh(c)
    BY <2>1, <2>2 DEF Init, StreamFresh, IsInjective, Range
  <2>4. DistinctWork
    BY DEF Init, DistinctWork, Proc
  <2>5. \A c \in Streaming : DOMAIN out[c] = {} /\ Len(out[c]) = 0
    BY <2>2
  <2> QED
    BY <2>1, <2>2, <2>3, <2>4, <2>5 DEF AnswerInv
<1>2. Typed /\ Typed' /\ AnswerInv /\ [Next]_vars => AnswerInv'
  <2> SUFFICES ASSUME Typed, Typed', AnswerInv, [Next]_vars PROVE AnswerInv'
    OBVIOUS
  <2>1. DistinctWork'
    BY NextDistinctWork DEF AnswerInv
  <2>2. \A c \in FollowAny : StreamFresh(c)'
    BY NextStreamFresh DEF AnswerInv
  <2>3. ASSUME NEW c \in Streaming, NEW k \in DOMAIN out'[c] PROVE Matches(c, out'[c][k])
    <3>1. out[c] \in Seq(Item) /\ AnswerStep(c)
            /\ \A j \in DOMAIN out[c] : Matches(c, out[c][j])
      BY AnswerView DEF Typed, TypeOK, AnswerInv
    <3>2. CASE out'[c] = out[c]
      BY <2>3, <3>1, <3>2
    <3>3. ASSUME NEW i \in Item, Matches(c, i), out'[c] = Append(out[c], i)
          PROVE  Matches(c, out'[c][k])
      <4>1. /\ DOMAIN out[c] = 1..Len(out[c]) /\ Len(out[c]) \in Nat
            /\ DOMAIN out'[c] = 1..(Len(out[c]) + 1)
            /\ out'[c][Len(out[c]) + 1] = i
            /\ \A j \in 1..Len(out[c]) : out'[c][j] = out[c][j]
        BY <3>1, <3>3, AppendProperties, LenProperties
      <4>2. k = Len(out[c]) + 1 \/ k \in 1..Len(out[c])
        BY <4>1
      <4>3. CASE k = Len(out[c]) + 1
        BY <3>3, <4>1, <4>3
      <4>4. CASE k \in 1..Len(out[c])
        <5>1. out'[c][k] = out[c][k] /\ Matches(c, out[c][k])
          BY <3>1, <4>1, <4>4
        <5> QED
          BY <5>1
      <4> QED
        BY <4>2, <4>3, <4>4
    <3> QED
      BY <3>1, <3>2, <3>3 DEF AnswerStep
  <2>4. ASSUME NEW c \in Recv
        PROVE  Len(out'[c]) <= 1 /\ (pc'[c] # "done" => out'[c] = <<>>)
    <3>0. /\ c \in Streaming /\ out[c] \in Seq(Item)
          /\ Len(out[c]) <= 1 /\ (pc[c] # "done" => out[c] = <<>>)
      BY DEF AnswerInv, Typed, TypeOK, Streaming
    <3>1. AnswerStep(c)
      BY <3>0, AnswerView
    <3>2. CASE out'[c] = out[c] /\ (pc[c] = "done" => pc'[c] = "done")
      BY <3>0, <3>2
    <3>3. ASSUME NEW i \in Item, out'[c] = Append(out[c], i), pc[c] # "done", pc'[c] = "done"
          PROVE  Len(out'[c]) <= 1 /\ (pc'[c] # "done" => out'[c] = <<>>)
      <4>1. out[c] = <<>> /\ Len(Append(out[c], i)) = Len(out[c]) + 1 /\ Len(out[c]) = 0
        BY <3>0, <3>3, AppendProperties
      <4> QED
        BY <3>3, <4>1
    <3> QED
      BY <3>1, <3>2, <3>3 DEF AnswerStep
  <2> QED
    BY <2>1, <2>2, <2>3, <2>4 DEF AnswerInv, Matches
<1>3. Typed /\ AnswerInv => AnswersFit
  <2> SUFFICES ASSUME Typed, AnswerInv, NEW c \in Streaming
               PROVE  /\ \A k \in DOMAIN out[c] : Matches(c, out[c][k])
                      /\ IsInjective(out[c])
                      /\ c \in Recv => Len(out[c]) <= 1
    BY DEF AnswersFit
  <2>1. CASE c \in FollowAny
    BY <2>1 DEF AnswerInv, StreamFresh
  <2>2. CASE c \in Recv
    <3>1. out[c] \in Seq(Item) /\ Len(out[c]) <= 1 /\ Len(out[c]) \in Nat
            /\ DOMAIN out[c] = 1..Len(out[c])
      BY <2>2, LenProperties DEF AnswerInv, Typed, TypeOK
    <3>2. \A a, b \in DOMAIN out[c] : a = b
      BY <3>1
    <3> QED
      BY <2>2, <3>1, <3>2 DEF AnswerInv, IsInjective
  <2> QED
    BY <2>1, <2>2 DEF AnswerInv, Streaming
<1> QED
  BY <1>1, <1>2, <1>3, AlwaysTyped, PTL DEF Spec
=============================================================================
