--------------------------- MODULE MCTenantCache ---------------------------
(* Small instances of TenantCache for TLC.  The run checks liveness, so it   *)
(* uses no symmetry.                                                         *)
EXTENDS TenantCache, TLC
=============================================================================
