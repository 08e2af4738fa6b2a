------------------------------- MODULE Access -------------------------------
(***************************************************************************)
(* Who may do what: permission keys and wildcards, the gates of the        *)
(* routes, the policies of the admins, what the contract tells the UI, and *)
(* the catalog of the keys that can be granted.                            *)
(*                                                                         *)
(* A key is the sequence of its dot-separated parts.  A context is a       *)
(* record [tenant, grants]; an admin is a record of type AdminType.        *)
(***************************************************************************)
EXTENDS Naturals, Sequences

CONSTANTS
    BuiltinKeys,          \* the keys without a ModelAdmin
    SuperadminRequired,   \* config.single_tenant_require_superadmin
    NoTenant

Policies == {"none", "default", "read_only", "no_create_delete",
             "superadmin_deletable"}

(* The part of a ModelAdmin that authorization looks at. *)
AdminType(names, actionNames) ==
    [name : names, platform_only : BOOLEAN, policy : Policies,
     singleton : BOOLEAN, actions : SUBSET actionNames]

Writes == {"create", "update", "delete"}

-----------------------------------------------------------------------------
(* Keys *)

(* A wildcard counts as the last part only, and stands for one part or more. *)
Matches(granted, required) ==
    LET last == Len(granted)
    IN  /\ last <= Len(required)
        /\ \A i \in 1..(last - 1) : granted[i] = required[i] /\ granted[i] # "*"
        /\ \/ granted[last] = "*"
           \/ granted[last] = required[last] /\ last = Len(required)

HasPermission(grants, required) == \E g \in grants : Matches(g, required)

AdminKey(res, act) == <<"admin", res, act>>
PlatformKey(res, act) == <<"platform", res, act>>
AdminWildcard == <<"admin", "*">>
PlatformWildcard == <<"platform", "*">>

(* BuiltinPermissionProvider.get_permissions: the keys of a superadmin, at *)
(* shared scope those of the platform roles, inside a tenant those of the  *)
(* roles of an active membership.                                          *)
Grants(superadmin, tenant, platformKeys, roleKeys) ==
    IF superadmin THEN {AdminWildcard, PlatformWildcard}
    ELSE IF tenant = NoTenant THEN platformKeys ELSE roleKeys

-----------------------------------------------------------------------------
(* Gates *)

ResourceAccess(ctx, res, act) ==
    \/ HasPermission(ctx.grants, AdminKey(res, act))
    \/ /\ ctx.tenant = NoTenant
       /\ ~SuperadminRequired \/ HasPermission(ctx.grants, PlatformWildcard)

KeyOf(adm, act) ==
    IF adm.platform_only THEN PlatformKey(adm.name, act) ELSE AdminKey(adm.name, act)

(* _require_resource_permission of the CRUD routes. *)
RouteGate(ctx, adm, act) ==
    IF adm.platform_only THEN HasPermission(ctx.grants, KeyOf(adm, act))
    ELSE ResourceAccess(ctx, adm.name, act)

PolicyAllowsCreate(adm) == adm.policy \in {"none", "default"}

PolicyAllowsUpdate(adm) == adm.policy \in {"none", "default", "no_create_delete"}

PolicyAllowsDelete(ctx, adm) ==
    \/ adm.policy \in {"none", "default"}
    \/ /\ adm.policy = "superadmin_deletable"
       /\ HasPermission(ctx.grants, PlatformKey(adm.name, "delete"))

(* Only without a policy does being a singleton restrict anything. *)
SingletonRule(adm) == adm.singleton /\ adm.policy = "none"

(* What keeps create_record, update_record and delete_record from a 403,   *)
(* "occupied" being whether the table has a row.                           *)
Allowed(ctx, adm, act, occupied) ==
    /\ RouteGate(ctx, adm, act)
    /\ CASE act = "create" -> PolicyAllowsCreate(adm) /\ ~(SingletonRule(adm) /\ occupied)
         [] act = "update" -> PolicyAllowsUpdate(adm)
         [] act = "delete" -> PolicyAllowsDelete(ctx, adm) /\ ~SingletonRule(adm)

-----------------------------------------------------------------------------
(* The contract *)

(* AdminPolicy.capability_flags and its overrides. *)
CapabilityFlag(adm, act, hasPlatform) ==
    CASE adm.policy = "read_only" -> FALSE
      [] adm.policy = "no_create_delete" -> act = "update"
      [] adm.policy = "superadmin_deletable" -> act = "delete" /\ hasPlatform
      [] OTHER -> TRUE

Capability_NoSingleton(ctx, adm, act, occupied) ==
    /\ CapabilityFlag(adm, act, HasPermission(ctx.grants, PlatformKey(adm.name, "delete")))
    /\ HasPermission(ctx.grants, KeyOf(adm, act))

(* _build_capabilities: whether the UI gets a control for act. *)
Capability(ctx, adm, act, occupied) ==
    /\ CapabilityFlag(adm, act, HasPermission(ctx.grants, PlatformKey(adm.name, "delete")))
    /\ HasPermission(ctx.grants, KeyOf(adm, act))
    /\ SingletonRule(adm) => act # "delete" /\ (act = "create" => ~occupied)

(* The actions of the list view, and the gate of the action routes. *)
ShownActions(ctx, adm) ==
    IF adm.policy = "read_only" THEN {}
    ELSE {a \in adm.actions : HasPermission(ctx.grants, KeyOf(adm, a))}

ActionGate(ctx, adm, a) == ResourceAccess(ctx, adm.name, a)

-----------------------------------------------------------------------------
(* The catalog *)

(* generate_permission_keys: only what a tenant role could make use of. *)
CrudActions(adm) ==
    {"list", "read"} \cup {act \in Writes : CapabilityFlag(adm, act, FALSE)}

GenerateKeys(admins) ==
    BuiltinKeys \cup UNION {{KeyOf(adm, act) : act \in CrudActions(adm) \cup adm.actions} :
                            adm \in admins}

(* sync_permission_catalog; rows of another source are kept. *)
SyncCatalog(catalog, foreign, desired, prune) ==
    desired \cup foreign \cup (IF prune THEN {} ELSE catalog)
=============================================================================
