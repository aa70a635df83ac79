---------------------------- MODULE MCRoomFrames ----------------------------
(* Two sends at the same time, a short and a longer one.                   *)
EXTENDS RoomFrames, TLC

CONSTANTS g1, g2

MCSize == g1 :> 1 @@ g2 :> 2
=============================================================================
