----------------------------- MODULE MCRoomStore -----------------------------
(* Two ingests at a time; a text item and two files of the same name, which *)
(* the folder holds already; a text file with old content and an empty one. *)
EXTENDS RoomStore, TLC

CONSTANTS t1, f1, f2, a, b, n

MCName == [m \in FileMsg |-> n]
MCSymmetry == Permutations(FileMsg) \cup Permutations(Worker)
MCOldFile == {<<n, 1>>}
=============================================================================
