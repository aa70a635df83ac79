------------------------------ MODULE MCRoomIpc ------------------------------
(* Two ingests at a time, an item of each type, a recv --latest-image, a    *)
(* stream, and a client that pastes or copies.                              *)
EXTENDS RoomIpc, TLC

=============================================================================
