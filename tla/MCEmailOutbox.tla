--------------------------- MODULE MCEmailOutbox ---------------------------
(* Small instances of EmailOutbox for TLC.  The run checks liveness, so it   *)
(* uses no symmetry.                                                         *)
EXTENDS EmailOutbox, TLC
=============================================================================
