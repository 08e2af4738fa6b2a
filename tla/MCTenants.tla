----------------------------- MODULE MCTenants -----------------------------
(* Small instances of Tenants for TLC. *)
EXTENDS Tenants, TLC

TenantSymmetry == Permutations(Slugs) \cup Permutations(Users) \cup Permutations(Slots)
=============================================================================
