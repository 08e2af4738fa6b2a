------------------------------- MODULE MCCrud -------------------------------
(* A small instance of Crud for TLC: a settings singleton, orders with an   *)
(* inline and a bulk delete, and a ledger that superadmins may delete from. *)
EXTENDS Crud, TLC

MCAdmin(name, platform, policy, singleton, actions) ==
    [name |-> name, platform_only |-> platform, policy |-> policy,
     singleton |-> singleton, actions |-> actions]

MCAdmins == {MCAdmin("settings", FALSE, "none", TRUE, {}),
             MCAdmin("orders", FALSE, "none", FALSE, {"delete"}),
             MCAdmin("ledger", TRUE, "superadmin_deletable", FALSE, {})}

(* A superadmin in a tenant and at shared scope, an owner, a clerk. *)
MCContexts == {[tenant |-> "acme", grants |-> {AdminWildcard, PlatformWildcard}],
               [tenant |-> NoTenant, grants |-> {AdminWildcard, PlatformWildcard}],
               [tenant |-> "acme", grants |-> {AdminWildcard}],
               [tenant |-> "acme", grants |-> {AdminKey("orders", "*"), AdminKey("settings", "update")}]}
SlotSymmetry == Permutations(Slots)
=============================================================================
