---------------------------- MODULE MCRoomBroker ----------------------------
(* Three sessions and two rooms; s1 sends two frames, s2 one, s3 only      *)
(* listens, so that a queue of one overflows and frames can overtake.  The *)
(* rooms are interchangeable: the one s1 asks for is r1.                   *)
EXTENDS RoomBroker, TLC

CONSTANTS s1, s2, s3, r1, r2

MCSession == {s1, s2, s3}
MCRoom == {r1, r2}
MCAsks == s1 :> {r1} @@ s2 :> {r1, r2} @@ s3 :> {r1, r2}
MCQuota == s1 :> 2 @@ s2 :> 1 @@ s3 :> 0
=============================================================================
