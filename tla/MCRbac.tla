------------------------------- MODULE MCRbac -------------------------------
(* A small instance of Rbac for TLC: a superadmin, one member of staff who  *)
(* may get the key to manage members or admin.*, one custom role.           *)
EXTENDS Rbac, TLC

MCKeys == {AdminKey("tenant_members", "update")}
SlotSymmetry == Permutations(RoleSlots)
=============================================================================
