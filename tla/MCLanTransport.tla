--------------------------- MODULE MCLanTransport ---------------------------
(* Two peers with three runs between them, in either of two rooms and on   *)
(* either of two addresses, which are reused, with one envelope and one    *)
(* timeout or refused frame that hits what works.                          *)
EXTENDS LanTransport
=============================================================================
