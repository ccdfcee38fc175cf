--------------------------- MODULE MCBootControl ---------------------------
(* Two attempts instead of three, and a boot epoch that saturates at two.   *)
EXTENDS BootControl
=============================================================================
