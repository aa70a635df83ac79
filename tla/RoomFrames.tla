----------------------------- MODULE RoomFrames -----------------------------
(***************************************************************************)
(* Frames on the SSH session that all `room send`s of a daemon share.      *)
(* sendFrame takes the session under d.conn.mu and calls WriteFrame after  *)
(* unlocking: the length and the payload are separate writes, and the SSH  *)
(* channel cuts a payload into packets.  The server's reader decodes the   *)
(* stream with ReadFrame and broadcasts what it decoded.                   *)
(*                                                                         *)
(* A unit of the stream is a length or a packet of a payload.  Payload     *)
(* bytes read as a length can be any length, or one beyond MaxFrame.       *)
(***************************************************************************)
EXTENDS Integers, Sequences

CONSTANTS Sender,  \* handleSend goroutines, each with a payload
          Size,    \* Size[g]: the packets of g's payload
          MaxLen   \* bound: lengths that payload bytes may be read as

VARIABLES written,  \* written[g]: units that g has written
          stream,   \* what the server has not yet read
          need,     \* packets ReadFrame still needs, or Header
          part,     \* the packets of the frame it is reading
          relayed,  \* frames handed to Broadcast
          ended     \* the reader got an error and left its loop

Header == -1  \* ReadFrame is about to read a length

vars == <<written, stream, need, part, relayed, ended>>

Length(g) == [kind |-> "length", of |-> g, n |-> Size[g]]
Packet(g, k) == [kind |-> "packet", of |-> g, n |-> k]

\* The payload of g as a frame.
Payload(g) == [k \in 1 .. Size[g] |-> Packet(g, k)]

Init ==
    /\ written = [g \in Sender |-> 0]
    /\ stream = <<>>
    /\ need = Header /\ part = <<>> /\ relayed = <<>>
    /\ ended = FALSE

\* WriteFrame: one w.Write for the length, then one for the payload, which
\* the channel sends packet by packet.
WriteFrame(g) ==
    /\ written[g] <= Size[g]
    /\ stream' = Append(stream, IF written[g] = 0 THEN Length(g)
                                                  ELSE Packet(g, written[g]))
    /\ written' = [written EXCEPT ![g] = @ + 1]
    /\ UNCHANGED <<need, part, relayed, ended>>

\* ReadFrame's header; a length beyond MaxFrame is an error.
ReadHeader ==
    /\ ~ended /\ need = Header /\ stream # <<>>
    /\ stream' = Tail(stream)
    /\ \/ /\ Head(stream).kind = "length"
          /\ need' = Head(stream).n /\ UNCHANGED ended
       \/ /\ Head(stream).kind = "packet"
          /\ need' \in 0 .. MaxLen /\ UNCHANGED ended
       \/ /\ Head(stream).kind = "packet"
          /\ ended' = TRUE /\ UNCHANGED need
    /\ UNCHANGED <<written, part, relayed>>

\* ReadFrame's body: the next packets, whatever they are.
ReadBody ==
    /\ ~ended /\ need > 0 /\ stream # <<>>
    /\ part' = Append(part, Head(stream))
    /\ stream' = Tail(stream)
    /\ need' = need - 1
    /\ UNCHANGED <<written, relayed, ended>>

Broadcast ==
    /\ ~ended /\ need = 0
    /\ relayed' = Append(relayed, part)
    /\ part' = <<>> /\ need' = Header
    /\ UNCHANGED <<written, stream, ended>>

Next == (\E g \in Sender : WriteFrame(g)) \/ ReadHeader \/ ReadBody \/ Broadcast

Spec == Init /\ [][Next]_vars
-----------------------------------------------------------------------------
\* Every frame that the server relays is a payload that some send wrote.
FramesIntact ==
    \A i \in DOMAIN relayed : \E g \in Sender : relayed[i] = Payload(g)
=============================================================================
