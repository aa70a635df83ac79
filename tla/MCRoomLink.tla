----------------------------- MODULE MCRoomLink -----------------------------
(* Two servers, two joins, one connection that breaks by itself, and one   *)
(* other device on server a.                                               *)
EXTENDS RoomLink, TLC

CONSTANTS a, b, d1, d2, d3, p

MCOwnSession == {d1, d2, d3}
MCSession == MCOwnSession \cup {p}
MCPeerRoom == p :> a
MCQuota == d1 :> 1 @@ d2 :> 0 @@ d3 :> 0 @@ p :> 1
=============================================================================
