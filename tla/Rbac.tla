-------------------------------- MODULE Rbac --------------------------------
(***************************************************************************)
(* Roles, their permission keys and the members of one tenant: the         *)
(* permission matrix, member management, the role form with its inlines,   *)
(* seeding by the command line and the synchronisation of the catalog.     *)
(*                                                                         *)
(* A request resolves the caller's keys in a session of its own, then its  *)
(* handler reads what it is going to change, then it writes and commits.   *)
(* A Slot is one request; between its three steps other slots move.        *)
(*                                                                         *)
(* A definition named X_Something is a faulty variant of X, there to show  *)
(* that a property depends on X; no specification uses it.                 *)
(***************************************************************************)
EXTENDS Access, FiniteSets

CONSTANTS
    Superadmins, Staff, \* the callers: superadmins, and users of the tenant
    People,        \* the users whose membership is managed
    Roles,         \* TenantRole ids
    SystemRole,    \* the owner role, which seeding creates
    Keys,          \* the keys of the matrix (the universe of the catalog)
    RoleSlots,     \* requests that may be in flight together
    MaxIds,        \* bound: memberships ever created
    NoMember, NoOp

ASSUME RbacAssumption ==
    /\ MaxIds \in Nat
    /\ NoMember \notin Nat \cup People
    /\ SystemRole \in Roles
    /\ Staff \subseteq People

Callers == Superadmins \cup Staff
MemberIds == 1..MaxIds
RoleKeys == Keys \cup {AdminWildcard}

VARIABLES
    catalog,     \* permission_catalog
    role,        \* tenant_roles: no row, or a custom or a system role
    roleKeys,    \* tenant_role_permissions
    member,      \* tenant_memberships: per user the id, and whether active
    active,
    links,       \* tenant_membership_roles: pairs <<membership id, role>>
    lastId,
    roleReq,     \* per slot: the request and what its handler has read
    asked        \* history, per user: the roles somebody has asked for in
                 \* requests handled since the user (last) joined

store == <<catalog, role, roleKeys, member, active, links, lastId>>
rbacVars == <<catalog, role, roleKeys, member, active, links, lastId, roleReq, asked>>

Kinds == {"matrix", "permissions", "add", "role_ids", "is_active", "remove",
          "delete_role"}

(* The request: its target, what it wants there, and what was there when   *)
(* the handler read it.                                                    *)
RoleRequest ==
    [kind : Kinds, target : Roles \cup People, want : SUBSET (RoleKeys \cup Roles),
     on : BOOLEAN, pc : {"context", "write"}, id : MemberIds \cup {NoMember},
     seen : SUBSET (RoleKeys \cup Roles), wasOn : BOOLEAN]

RbacTypeOK ==
    /\ catalog \subseteq Keys
    /\ role \in [Roles -> {"none", "custom", "system"}]
    /\ roleKeys \in [Roles -> SUBSET RoleKeys]
    /\ member \in [People -> MemberIds \cup {NoMember}]
    /\ active \in [People -> BOOLEAN]
    /\ links \subseteq MemberIds \X Roles
    /\ lastId \in 0..MaxIds
    /\ roleReq \in [RoleSlots -> RoleRequest \cup {NoOp}]
    /\ asked \in [People -> SUBSET Roles]

RbacInit ==
    /\ catalog = {}
    /\ role = [r \in Roles |-> "none"]
    /\ roleKeys = [r \in Roles |-> {}]
    /\ member = [u \in People |-> NoMember]
    /\ active = [u \in People |-> FALSE]
    /\ links = {}
    /\ lastId = 0
    /\ roleReq = [s \in RoleSlots |-> NoOp]
    /\ asked = [u \in People |-> {}]

-----------------------------------------------------------------------------
(* What a caller holds, by the rows of now. *)

RolesOf(u) == {r \in Roles : <<member[u], r>> \in links}

GrantsOf(c) ==
    Grants(c \in Superadmins, "tenant", {},
           IF c \in Staff /\ member[c] # NoMember /\ active[c]
           THEN UNION {roleKeys[r] : r \in RolesOf(c)} ELSE {})

(* The key each route asks for. *)
RequiredKey(kind) ==
    CASE kind = "matrix" -> AdminKey("tenant_role_permissions", "update")
      [] kind = "permissions" -> AdminKey("tenant_roles", "update")
      [] kind = "delete_role" -> AdminKey("tenant_roles", "delete")
      [] kind = "add" -> AdminKey("tenant_members", "create")
      [] kind = "remove" -> AdminKey("tenant_members", "delete")
      [] OTHER -> AdminKey("tenant_members", "update")

-----------------------------------------------------------------------------
(* A request arrives and its context is built.                             *)

(* What the clients offer: the catalog, and in the role form also what the *)
(* role has; any set of roles.                                             *)
Wants(kind, t) ==
    CASE kind = "matrix" -> SUBSET Keys
      [] kind = "permissions" -> SUBSET (catalog \cup roleKeys[t])
      [] kind \in {"add", "role_ids"} -> SUBSET Roles
      [] OTHER -> {{}}

RoleTargets(kind) == IF kind \in {"matrix", "permissions", "delete_role"} THEN Roles ELSE People

Send(s) ==
    /\ roleReq[s] = NoOp
    /\ \E kind \in Kinds, c \in Callers, on \in BOOLEAN :
         \E t \in RoleTargets(kind) : \E want \in Wants(kind, t) :
            /\ kind # "is_active" => on
            /\ HasPermission(GrantsOf(c), RequiredKey(kind))
            /\ roleReq' = [roleReq EXCEPT ![s] =
                  [kind |-> kind, target |-> t, want |-> want, on |-> on,
                   pc |-> "context", id |-> NoMember, seen |-> {}, wasOn |-> FALSE]]
    /\ UNCHANGED <<store, asked>>

Forbid(s) ==
    /\ roleReq[s] # NoOp
    /\ roleReq' = [roleReq EXCEPT ![s] = NoOp]
    /\ UNCHANGED <<store, asked>>

-----------------------------------------------------------------------------
(* The handler reads. *)

(* Unknown roles are a 404; for the matrix system roles are a 403 and keys *)
(* that the catalog does not have are a 400.                               *)
Resolves(q) ==
    CASE q.kind = "matrix" -> role[q.target] = "custom" /\ q.want \subseteq catalog
      [] q.kind = "permissions" -> role[q.target] # "none"
      [] q.kind = "delete_role" -> role[q.target] = "custom"
      [] q.kind = "add" -> \A r \in q.want : role[r] # "none"
      [] q.kind = "role_ids" -> /\ member[q.target] # NoMember
                                /\ \A r \in q.want : role[r] # "none"
      [] OTHER -> member[q.target] # NoMember

Seen(q) ==
    IF q.kind \in {"matrix", "permissions"} THEN roleKeys[q.target]
    ELSE IF q.kind = "delete_role" THEN {} ELSE RolesOf(q.target)

Read(s) ==
    /\ roleReq[s] # NoOp
    /\ roleReq[s].pc = "context"
    /\ Resolves(roleReq[s])
    /\ LET q == roleReq[s]
           about == IF q.target \in People THEN q.target ELSE NoMember
       IN roleReq' = [roleReq EXCEPT
            ![s].pc = "write", ![s].seen = Seen(q),
            ![s].id = IF about = NoMember THEN NoMember ELSE member[about],
            ![s].wasOn = IF about = NoMember THEN FALSE ELSE active[about]]
    /\ asked' = IF roleReq[s].kind \in {"add", "role_ids"} /\ member[roleReq[s].target] # NoMember
                THEN [asked EXCEPT ![roleReq[s].target] = @ \cup roleReq[s].want] ELSE asked
    /\ UNCHANGED store

-----------------------------------------------------------------------------
(* The handler writes what differs, and the request commits.  A statement  *)
(* that meets a unique index or a missing parent row ends in Forbid.       *)

Writing(s, kinds) == roleReq[s] # NoOp /\ roleReq[s].pc = "write" /\ roleReq[s].kind \in kinds

Done(s) == roleReq' = [roleReq EXCEPT ![s] = NoOp]

Diff_Overwrite(now, seen, want) == want

(* What a set of rows is after the difference of want and seen was applied. *)
Diff(now, seen, want) == (now \ (seen \ want)) \cup (want \ seen)

(* tenant_role_permissions: unique (role, key), role_id references the role. *)
UpdatePermissions(s) ==
    /\ Writing(s, {"matrix", "permissions"})
    /\ LET q == roleReq[s]
           r == q.target
           new == q.want \ q.seen
       IN /\ new # {} => role[r] # "none"
          /\ new \cap roleKeys[r] = {}
          /\ roleKeys' = [roleKeys EXCEPT ![r] = Diff(@, q.seen, q.want)]
    /\ Done(s)
    /\ UNCHANGED <<catalog, role, member, active, links, lastId, asked>>

(* tenant_membership_roles: unique (membership, role), role_id references  *)
(* the role, membership_id references nothing.                             *)
SetLinks(id, seen, want) ==
    /\ \A r \in want \ seen : role[r] # "none" /\ <<id, r>> \notin links
    /\ links' = (links \ {<<id, r>> : r \in seen \ want}) \cup {<<id, r>> : r \in want \ seen}

StillThere(q) == member[q.target] = q.id

(* ensure_membership creates, re-activates or does nothing; without roles  *)
(* in the request the links stay.                                          *)
AddMember(s) ==
    /\ Writing(s, {"add"})
    /\ LET q == roleReq[s]
           u == q.target
           id == IF q.id = NoMember THEN lastId + 1 ELSE q.id
       IN /\ IF q.id = NoMember
             THEN /\ member[u] = NoMember
                  /\ lastId < MaxIds
                  /\ lastId' = lastId + 1
                  /\ member' = [member EXCEPT ![u] = id]
                  /\ active' = [active EXCEPT ![u] = TRUE]
                  /\ asked' = [asked EXCEPT ![u] = q.want]
             ELSE /\ ~q.wasOn => StillThere(q)
                  /\ active' = IF q.wasOn THEN active ELSE [active EXCEPT ![u] = TRUE]
                  /\ UNCHANGED <<member, lastId, asked>>
          /\ IF q.want = {} THEN UNCHANGED links ELSE SetLinks(id, q.seen, q.want)
    /\ Done(s)
    /\ UNCHANGED <<catalog, role, roleKeys>>

SetRoles_ByUser(s) ==
    /\ Writing(s, {"role_ids"})
    /\ SetLinks(member[roleReq[s].target], roleReq[s].seen, roleReq[s].want)
    /\ Done(s)
    /\ UNCHANGED <<catalog, role, roleKeys, member, active, lastId, asked>>

(* update_member with role_ids; the membership row itself is not written,  *)
(* so that it may be gone.                                                 *)
SetRoles(s) ==
    /\ Writing(s, {"role_ids"})
    /\ SetLinks(roleReq[s].id, roleReq[s].seen, roleReq[s].want)
    /\ Done(s)
    /\ UNCHANGED <<catalog, role, roleKeys, member, active, lastId, asked>>

(* update_member with is_active: written only where it differs. *)
SetActive(s) ==
    /\ Writing(s, {"is_active"})
    /\ LET q == roleReq[s]
       IN /\ q.on # q.wasOn => StillThere(q)
          /\ active' = IF q.on = q.wasOn THEN active ELSE [active EXCEPT ![q.target] = q.on]
    /\ Done(s)
    /\ UNCHANGED <<catalog, role, roleKeys, member, links, lastId, asked>>

(* remove_member deletes the links it has read and the membership. *)
RemoveMember(s) ==
    /\ Writing(s, {"remove"})
    /\ LET q == roleReq[s]
           u == q.target
       IN /\ links' = links \ {<<q.id, r>> : r \in q.seen}
          /\ IF StillThere(q)
             THEN /\ member' = [member EXCEPT ![u] = NoMember]
                  /\ active' = [active EXCEPT ![u] = FALSE]
                  /\ asked' = [asked EXCEPT ![u] = {}]
             ELSE UNCHANGED <<member, active, asked>>
    /\ Done(s)
    /\ UNCHANGED <<catalog, role, roleKeys, lastId>>

(* Deleting a role takes its keys and links with it (ON DELETE CASCADE). *)
DeleteRole(s) ==
    /\ Writing(s, {"delete_role"})
    /\ LET r == roleReq[s].target
       IN /\ role' = [role EXCEPT ![r] = "none"]
          /\ roleKeys' = [roleKeys EXCEPT ![r] = {}]
          /\ links' = {l \in links : l[2] # r}
    /\ Done(s)
    /\ UNCHANGED <<catalog, member, active, lastId, asked>>

(* A custom role is made in one transaction; nobody else knows its id yet. *)
CreateRole ==
    /\ \E r \in Roles \ {SystemRole}, c \in Callers :
         /\ role[r] = "none"
         /\ roleKeys[r] = {}
         /\ HasPermission(GrantsOf(c), AdminKey("tenant_roles", "create"))
         /\ role' = [role EXCEPT ![r] = "custom"]
    /\ UNCHANGED <<catalog, roleKeys, member, active, links, lastId, roleReq, asked>>

-----------------------------------------------------------------------------
(* The command line *)

(* seed_default_tenant_roles for the owner role: only adds, and never a    *)
(* platform key.                                                           *)
SeedRoles ==
    /\ role' = [role EXCEPT ![SystemRole] = IF @ = "none" THEN "system" ELSE @]
    /\ roleKeys' = [roleKeys EXCEPT ![SystemRole] =
          @ \cup {AdminWildcard} \cup {k \in catalog : k[1] # "platform"}]
    /\ UNCHANGED <<catalog, member, active, links, lastId, roleReq, asked>>

(* A release with other admins synchronises the catalog; keys already      *)
(* assigned to roles stay assigned.                                        *)
Sync(releases) ==
    /\ \E desired \in releases : catalog' = SyncCatalog(catalog, {}, desired, TRUE)
    /\ UNCHANGED <<role, roleKeys, member, active, links, lastId, roleReq, asked>>

-----------------------------------------------------------------------------

Write(s) == \/ UpdatePermissions(s) \/ AddMember(s) \/ SetRoles(s) \/ SetActive(s)
            \/ RemoveMember(s) \/ DeleteRole(s)

RbacNext ==
    \/ \E s \in RoleSlots : Send(s) \/ Read(s) \/ Write(s) \/ Forbid(s)
    \/ CreateRole \/ SeedRoles \/ Sync({Keys})

RbacSpec == RbacInit /\ [][RbacNext]_rbacVars

-----------------------------------------------------------------------------
(* Properties *)

(* "REPLACE the membership's tenant-role set with exactly these": whoever  *)
(* is removed and added again holds only roles somebody has asked for      *)
(* since, whatever requests about the earlier membership are still under   *)
(* way (the membership_id of a role link has no foreign key).              *)
OnlyRolesSinceJoining ==
    \A u \in People : member[u] # NoMember => RolesOf(u) \subseteq asked[u]

(* The matrix applies differences: a key that has been taken from a role   *)
(* comes back only by a request that has seen it missing, never by one     *)
(* that merely kept it.                                                    *)
RevocationNotUndone ==
    [][\A r \in Roles : \A k \in roleKeys'[r] \ roleKeys[r] :
          \/ r = SystemRole
          \/ \E s \in RoleSlots : /\ roleReq[s] # NoOp
                                  /\ roleReq'[s] = NoOp
                                  /\ k \in roleReq[s].want \ roleReq[s].seen]_rbacVars
=============================================================================
