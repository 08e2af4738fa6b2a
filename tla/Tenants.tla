------------------------------ MODULE Tenants ------------------------------
(***************************************************************************)
(* The life of a tenant: its row in public.tenants, the memberships that   *)
(* refer to it, and the PostgreSQL schema of its own that is created,      *)
(* migrated, seeded and dropped by commands made of several transactions.  *)
(*                                                                         *)
(* A Slot is one command (or the offboarding route) in flight.  It may die *)
(* between any two of its transactions, and other commands run there too.  *)
(* Tenant caches are the subject of TenantCache, roles beyond the owner's  *)
(* are left out.                                                           *)
(*                                                                         *)
(* A definition named X_Something is a faulty variant of X, there to show  *)
(* that a property depends on X; no specification uses it.                 *)
(***************************************************************************)
EXTENDS Naturals

CONSTANTS
    Slugs,   \* tenant slugs; each fixes the name of its schema
    Users,   \* rows of the users table
    Owners,  \* the users named as --owner-email
    Slots,   \* commands that may be in flight together
    MaxId,   \* bound: the ids of tenants and memberships handed out
    NoRow, NoSchema, NoCmd, NoUser

VARIABLES
    tenants,     \* public.tenants, by slug
    memberships, \* public.tenant_memberships
    schemas,     \* the tenant schemas, by slug
    ids,         \* the last id handed out
    cmd          \* per slot: the command in flight

vars == <<tenants, memberships, schemas, ids, cmd>>

Ids == 1..MaxId

TenantRow == [id: Ids, active: BOOLEAN, archived: BOOLEAN]

Membership == [id: Ids, user: Users, tenant: Ids]

(* A row of tenant_audit_logs: who it is about, whether it is older than    *)
(* the retention period, whether it still names its actor.                  *)
AuditRow == [actor: Users, old: BOOLEAN, pii: BOOLEAN]

Schema == [tables: SUBSET {"framework", "app"}, seeded: BOOLEAN,
           owners: SUBSET Ids, audit: SUBSET AuditRow]

(* "member" is the membership to make an owner (0: none); "raced" is        *)
(* history: the tenant was offboarded while the command was in flight.      *)
Cmd == [op: {"create", "bootstrap", "upgrade", "archive", "drop"},
        pc: {"schema", "framework", "app", "seed", "log", "erase"},
        slug: Slugs, member: 0..MaxId, raced: BOOLEAN]

ASSUME TenantsAssumption ==
    /\ MaxId \in Nat /\ Owners \subseteq Users /\ NoUser \notin Users
    /\ NoRow \notin TenantRow /\ NoSchema \notin Schema /\ NoCmd \notin Cmd

TypeOK ==
    /\ tenants \in [Slugs -> TenantRow \cup {NoRow}]
    /\ memberships \subseteq Membership
    /\ schemas \in [Slugs -> Schema \cup {NoSchema}]
    /\ ids \in 0..MaxId
    /\ cmd \in [Slots -> Cmd \cup {NoCmd}]
    /\ \A m \in memberships : \E g \in Slugs : tenants[g] # NoRow /\ tenants[g].id = m.tenant

Init ==
    /\ tenants = [g \in Slugs |-> NoRow]
    /\ memberships = {}
    /\ schemas = [g \in Slugs |-> NoSchema]
    /\ ids = 0
    /\ cmd = [s \in Slots |-> NoCmd]

-----------------------------------------------------------------------------
(* Commands *)

Enter(s, op, pc, g, member) ==
    /\ cmd[s] = NoCmd
    /\ cmd' = [cmd EXCEPT ![s] = [op |-> op, pc |-> pc, slug |-> g,
                                  member |-> member, raced |-> FALSE]]

At(s, pc) == cmd[s] # NoCmd /\ cmd[s].pc = pc

Goto(s, pc) == cmd' = [cmd EXCEPT ![s].pc = pc]

Leave(s) == cmd' = [cmd EXCEPT ![s] = NoCmd]

EmptySchema == [tables |-> {}, seeded |-> FALSE, owners |-> {}, audit |-> {}]

MembershipsOf(u, tid) == {m \in memberships : m.user = u /\ m.tenant = tid}

(* tenant create, first transaction: fetch or insert the tenant and the     *)
(* membership of its owner.  A lost race for either ends in a unique error. *)
CreateTenant(s, g, u) ==
    LET known  == tenants[g] # NoRow
        tid    == IF known THEN tenants[g].id ELSE ids + 1
        fresh  == IF u # NoUser /\ MembershipsOf(u, tid) = {}
                  THEN {[id |-> ids + 2, user |-> u, tenant |-> tid]} ELSE {}
        owners == {m.id : m \in MembershipsOf(u, tid) \cup fresh}
    IN  /\ Enter(s, "create", "schema", g, IF owners = {} THEN 0 ELSE CHOOSE m \in owners : TRUE)
        /\ tenants' = IF known THEN tenants
                      ELSE [tenants EXCEPT ![g] =
                               [id |-> tid, active |-> TRUE, archived |-> FALSE]]
        /\ memberships' = memberships \cup fresh
        /\ ids' = IF known /\ fresh = {} THEN ids ELSE ids + 2
        /\ ids' <= MaxId
        /\ UNCHANGED schemas

(* tenant bootstrap and tenant upgrade: an existing row, and no owner. *)
Bootstrap(s, g) ==
    /\ tenants[g] # NoRow
    /\ Enter(s, "bootstrap", "schema", g, 0)
    /\ UNCHANGED <<tenants, memberships, schemas, ids>>

(* db upgrade-tenants: the migrations alone, of an active tenant. *)
Upgrade(s, g) ==
    /\ tenants[g] # NoRow /\ tenants[g].active
    /\ Enter(s, "upgrade", "framework", g, 0)
    /\ UNCHANGED <<tenants, memberships, schemas, ids>>

Provisioned_Anew(schema) == EmptySchema

(* CREATE SCHEMA IF NOT EXISTS *)
Provisioned(schema) == IF schema = NoSchema THEN EmptySchema ELSE schema

ProvisionSchema(s) ==
    /\ At(s, "schema")
    /\ schemas' = [schemas EXCEPT ![cmd[s].slug] = Provisioned(@)]
    /\ Goto(s, "framework")
    /\ UNCHANGED <<tenants, memberships, ids>>

(* upgrade_tenant_schema: the framework tree, then the application's.  The  *)
(* version table lives in the schema, so a missing schema is an error.      *)
MigrateFramework(s) ==
    /\ At(s, "framework")
    /\ schemas[cmd[s].slug] # NoSchema
    /\ schemas' = [schemas EXCEPT ![cmd[s].slug].tables = @ \cup {"framework"}]
    /\ Goto(s, "app")
    /\ UNCHANGED <<tenants, memberships, ids>>

MigrateApp(s) ==
    /\ At(s, "app")
    /\ schemas[cmd[s].slug] # NoSchema
    /\ schemas' = [schemas EXCEPT ![cmd[s].slug].tables = @ \cup {"app"}]
    /\ IF cmd[s].op = "upgrade" THEN Leave(s) ELSE Goto(s, "seed")
    /\ UNCHANGED <<tenants, memberships, ids>>

HasTables(g) == schemas[g] # NoSchema /\ "framework" \in schemas[g].tables

Seeded_NewRolesOnly(schema, member) ==
    IF schema.seeded THEN schema
    ELSE [schema EXCEPT !.seeded = TRUE, !.owners = @ \cup ({member} \ {0})]

(* The default roles, and the owner's link to one; only what is missing. *)
Seeded(schema, member) ==
    [schema EXCEPT !.seeded = TRUE, !.owners = @ \cup ({member} \ {0})]

SeedRoles(s) ==
    LET g == cmd[s].slug
    IN  /\ At(s, "seed")
        /\ HasTables(g)
        /\ schemas' = [schemas EXCEPT ![g] = Seeded(@, cmd[s].member)]
        /\ Goto(s, "log")
        /\ UNCHANGED <<tenants, memberships, ids>>

(* The audit row of the bootstrap, in one more transaction; then "ready". *)
LogBootstrap(s) ==
    /\ At(s, "log")
    /\ Leave(s)
    /\ UNCHANGED <<tenants, memberships, schemas, ids>>

(* tenant enable and disable, and the is_active box of the tenant form. *)
SetActive(g) ==
    /\ tenants[g] # NoRow
    /\ tenants' = [tenants EXCEPT ![g].active = ~@]
    /\ UNCHANGED <<memberships, schemas, ids, cmd>>

-----------------------------------------------------------------------------
(* Offboarding: export in transactions of its own, then erase in one. *)

Export(s, g, mode) ==
    /\ tenants[g] # NoRow
    /\ Enter(s, mode, "erase", g, 0)
    /\ UNCHANGED <<tenants, memberships, schemas, ids>>

PublicRows_None(tid) == {}

(* _delete_public_rows *)
PublicRows(tid) == {m \in memberships : m.tenant = tid}

ErasedRow(mode, row) ==
    IF mode = "drop" THEN NoRow ELSE [row EXCEPT !.active = FALSE, !.archived = TRUE]

Erase(s) ==
    LET g == cmd[s].slug
    IN  /\ At(s, "erase")
        /\ tenants[g] # NoRow
        /\ memberships' = memberships \ PublicRows(tenants[g].id)
        /\ schemas' = [schemas EXCEPT ![g] = NoSchema]
        /\ tenants' = [tenants EXCEPT ![g] = ErasedRow(cmd[s].op, @)]
        /\ cmd' = [t \in Slots |->
              IF t = s THEN NoCmd
              ELSE IF cmd[t] # NoCmd /\ cmd[t].slug = g THEN [cmd[t] EXCEPT !.raced = TRUE]
              ELSE cmd[t]]
        /\ UNCHANGED ids

(* A command that fails, is refused by the database or is killed. *)
Fail(s) ==
    /\ cmd[s] # NoCmd
    /\ Leave(s)
    /\ UNCHANGED <<tenants, memberships, schemas, ids>>

-----------------------------------------------------------------------------

(* A request of u inside the tenant leaves a row in its audit log. *)
Act(u, g) ==
    /\ tenants[g] # NoRow /\ tenants[g].active
    /\ HasTables(g)
    /\ schemas' = [schemas EXCEPT ![g].audit =
                      @ \cup {[actor |-> u, old |-> FALSE, pii |-> TRUE]}]
    /\ UNCHANGED <<tenants, memberships, ids, cmd>>

Command ==
    \/ \E s \in Slots, g \in Slugs :
          \/ \E u \in Owners \cup {NoUser} : CreateTenant(s, g, u)
          \/ Bootstrap(s, g)
          \/ Upgrade(s, g)
          \/ \E mode \in {"archive", "drop"} : Export(s, g, mode)
    \/ \E s \in Slots : \/ ProvisionSchema(s)
                        \/ MigrateFramework(s)
                        \/ MigrateApp(s)
                        \/ SeedRoles(s)
                        \/ LogBootstrap(s)
                        \/ Erase(s)
                        \/ Fail(s)
    \/ \E g \in Slugs : SetActive(g)

Next == Command \/ \E u \in Users, g \in Slugs : Act(u, g)

Spec == Init /\ [][Next]_vars

-----------------------------------------------------------------------------
(* Properties *)

(* "Tenant ready": when create or bootstrap is about to say so, its tenant  *)
(* has a row and a migrated and seeded schema, and the owner it was asked   *)
(* for is a member with the owner role - whatever crashed before, whatever  *)
(* ran beside it, unless the tenant was offboarded meanwhile.               *)
ReadyMeansReady ==
    \A s \in Slots : At(s, "log") /\ ~cmd[s].raced =>
        LET g == cmd[s].slug
            m == cmd[s].member
        IN  /\ tenants[g] # NoRow
            /\ schemas[g] # NoSchema
            /\ schemas[g].tables = {"framework", "app"} /\ schemas[g].seeded
            /\ m # 0 => /\ m \in schemas[g].owners
                        /\ \E r \in memberships : r.id = m /\ r.tenant = tenants[g].id

(* "Re-running bootstrap is always safe": no command but an offboarding of  *)
(* that very tenant ever takes anything away from a tenant's schema.        *)
RerunIsSafe ==
    [][\A g \in Slugs :
          \/ schemas[g] = NoSchema
          \/ \E s \in Slots : At(s, "erase") /\ cmd[s].slug = g /\ cmd'[s] = NoCmd
          \/ /\ schemas'[g] # NoSchema
             /\ schemas[g].tables \subseteq schemas'[g].tables
             /\ schemas[g].owners \subseteq schemas'[g].owners
             /\ schemas[g].audit \subseteq schemas'[g].audit
             /\ schemas[g].seeded => schemas'[g].seeded]_vars
=============================================================================
