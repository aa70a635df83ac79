---------------------------- MODULE MCRoomRemote ----------------------------
(***************************************************************************)
(* One remote command and one other command, two daemon processes, two     *)
(* ports of the host, the digits of one of which begin with the other's,   *)
(* and two local ports.  With one mishap there are never more than two     *)
(* tunnels, so two process ids are enough.                                 *)
(***************************************************************************)
EXTENDS RoomRemote
=============================================================================
