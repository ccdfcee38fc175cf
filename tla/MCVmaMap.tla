------------------------------ MODULE MCVmaMap ------------------------------
(* Four pages and three changes, so that a call can cover two areas.        *)
EXTENDS VmaMap

MCPages == 0..3
=============================================================================
