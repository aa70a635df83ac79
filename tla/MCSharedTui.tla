---------------------------- MODULE MCSharedTui ----------------------------
(* One text and one image from peers, one own text, two text files and one *)
(* change between them, two runs of the daemon, and a channel that holds   *)
(* one item.                                                               *)
EXTENDS SharedTui
=============================================================================
