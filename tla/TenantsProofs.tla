--------------------------- MODULE TenantsProofs ---------------------------
(***************************************************************************)
(* Proofs about the life of tenants: the commands that make and unmake     *)
(* them (Tenants), and the retention job that visits their schemas         *)
(* meanwhile (Retention, which extends Tenants).                           *)
(*                                                                         *)
(* About the commands, for every set of slugs, users and commands in       *)
(* flight: the tables stay well typed, a command that is about to report   *)
(* its tenant ready is right, and no command but an offboarding takes      *)
(* anything out of a tenant's schema.  About the job: a run over all       *)
(* tenants that ends has redacted whom it has anonymised, everywhere.      *)
(***************************************************************************)
EXTENDS Retention, TLAPS

(* The commands whose tenant is to be provisioned when they end. *)
Provisions == {"create", "bootstrap"}

(* Which command is at which step. *)
Control ==
    \A s \in Slots : cmd[s] # NoCmd =>
        /\ cmd[s].pc = "erase" <=> cmd[s].op \in {"archive", "drop"}
        /\ cmd[s].pc \in {"schema", "seed", "log"} => cmd[s].op \in Provisions

(* Ids are handed out once: no two tenants share one. *)
DistinctIds ==
    \A g \in Slugs : tenants[g] # NoRow =>
        /\ tenants[g].id <= ids
        /\ \A h \in Slugs : tenants[h] # NoRow /\ tenants[h].id = tenants[g].id => g = h

(* How far the schema must be for a command to be at step pc. *)
SchemaReached(c, schema) ==
    /\ c.pc \in {"framework", "app", "seed", "log"} => schema # NoSchema
    /\ c.pc \in {"app", "seed", "log"} => "framework" \in schema.tables
    /\ c.pc \in {"seed", "log"} => "app" \in schema.tables
    /\ c.pc = "log" => schema.seeded /\ (c.member # 0 => c.member \in schema.owners)

(* What the earlier transactions of a command have made, and the membership *)
(* of the owner it was asked for, is still there.                           *)
WorkOf(c) ==
    /\ tenants[c.slug] # NoRow
    /\ SchemaReached(c, schemas[c.slug])
    /\ c.member # 0 =>
          \E m \in memberships : m.id = c.member /\ m.tenant = tenants[c.slug].id

WorkStands ==
    \A s \in Slots :
        cmd[s] # NoCmd /\ ~cmd[s].raced /\ cmd[s].op \in Provisions => WorkOf(cmd[s])

TypeInv == TypeOK /\ Control /\ DistinctIds

(* Nothing is taken out of a schema. *)
Grows(schema, later) ==
    \/ schema = NoSchema
    \/ /\ later # NoSchema
       /\ schema.tables \subseteq later.tables
       /\ schema.owners \subseteq later.owners
       /\ schema.audit \subseteq later.audit
       /\ schema.seeded => later.seeded

-----------------------------------------------------------------------------
(* Types and ids *)

(* Nothing exists at first. *)
LEMMA TypeInvInit ==
    ASSUME TenantsAssumption PROVE Init => TypeInv
BY DEF TenantsAssumption, Init, TypeInv, TypeOK, Control, DistinctIds

(* tenant create hands out new ids and points the membership at its tenant. *)
LEMMA CreateKeepsTypes ==
    ASSUME TenantsAssumption, TypeInv, NEW s \in Slots, NEW g \in Slugs,
           NEW u \in Owners \cup {NoUser}, CreateTenant(s, g, u)
    PROVE  TypeInv'
<1> DEFINE known  == tenants[g] # NoRow
           tid    == IF known THEN tenants[g].id ELSE ids + 1
           fresh  == IF u # NoUser /\ MembershipsOf(u, tid) = {}
                     THEN {[id |-> ids + 2, user |-> u, tenant |-> tid]} ELSE {}
           owners == {m.id : m \in MembershipsOf(u, tid) \cup fresh}
           member == IF owners = {} THEN 0 ELSE CHOOSE m \in owners : TRUE
<1>1. /\ Enter(s, "create", "schema", g, member)
      /\ tenants' = IF known THEN tenants
                    ELSE [tenants EXCEPT ![g] =
                             [id |-> tid, active |-> TRUE, archived |-> FALSE]]
      /\ memberships' = memberships \cup fresh
      /\ ids' = IF known /\ fresh = {} THEN ids ELSE ids + 2
      /\ ids' <= MaxId
      /\ UNCHANGED schemas
  BY DEF CreateTenant
<1>2. /\ MaxId \in Nat /\ ids \in 0..MaxId /\ ids' \in 0..MaxId /\ ids <= ids'
      /\ (~known \/ fresh # {}) => ids' = ids + 2
  BY <1>1 DEF TenantsAssumption, TypeInv, TypeOK
<1>3. tid \in Ids
  BY <1>1, <1>2 DEF TypeInv, TypeOK, TenantRow, Ids
<1>4. fresh \subseteq Membership
  BY <1>2, <1>3 DEF Membership, Ids, TenantsAssumption
<1>5. owners \subseteq Ids
  BY <1>4 DEF MembershipsOf, TypeInv, TypeOK, Membership
<1>6. member \in 0..MaxId
  BY <1>5 DEF Ids
<1>7. cmd' = [cmd EXCEPT ![s] = [op |-> "create", pc |-> "schema", slug |-> g,
                                 member |-> member, raced |-> FALSE]]
  BY <1>1 DEF Enter
<1>8. cmd' \in [Slots -> Cmd \cup {NoCmd}]
  BY <1>6, <1>7 DEF Cmd, TypeInv, TypeOK
<1>9. tenants' \in [Slugs -> TenantRow \cup {NoRow}]
  BY <1>1, <1>3 DEF TenantRow, TypeInv, TypeOK
<1>10. /\ tenants'[g] # NoRow /\ tenants'[g].id = tid
       /\ \A h \in Slugs \ {g} : tenants'[h] = tenants[h]
       /\ known => tenants'[g] = tenants[g]
  <2>1. [id |-> tid, active |-> TRUE, archived |-> FALSE] \in TenantRow
    BY <1>3 DEF TenantRow
  <2>2. [id |-> tid, active |-> TRUE, archived |-> FALSE] # NoRow
    BY <2>1 DEF TenantsAssumption
  <2> QED
    BY <1>1, <2>2 DEF TypeInv, TypeOK
<1>11. \A m \in memberships' : \E h \in Slugs : tenants'[h] # NoRow /\ tenants'[h].id = m.tenant
  <2>1. \A m \in memberships : \E h \in Slugs : tenants'[h] # NoRow /\ tenants'[h].id = m.tenant
    BY <1>10 DEF TypeInv, TypeOK
  <2>2. \A m \in fresh : m.tenant = tid
    OBVIOUS
  <2> QED
    BY <1>1, <1>10, <2>1, <2>2
<1>12. TypeOK'
  BY <1>1, <1>2, <1>4, <1>8, <1>9, <1>11 DEF TypeInv, TypeOK
<1>13. Control'
  BY <1>7 DEF TypeInv, TypeOK, Control, Provisions
<1>14. DistinctIds'
  BY <1>2, <1>3, <1>9, <1>10 DEF TypeInv, TypeOK, DistinctIds, TenantRow, Ids
<1> QED
  BY <1>12, <1>13, <1>14 DEF TypeInv

(* Starting a command that is asked for no owner. *)
LEMMA EnterKeepsControl ==
    ASSUME TenantsAssumption, TypeInv, NEW s \in Slots, NEW g \in Slugs,
           NEW op, NEW step, Enter(s, op, step, g, 0),
           \/ op \in Provisions /\ step = "schema"
           \/ op = "upgrade" /\ step = "framework"
           \/ op \in {"archive", "drop"} /\ step = "erase"
    PROVE  cmd' \in [Slots -> Cmd \cup {NoCmd}] /\ Control'
<1>1. cmd' = [cmd EXCEPT ![s] = [op |-> op, pc |-> step, slug |-> g,
                                 member |-> 0, raced |-> FALSE]]
  BY DEF Enter
<1>2. cmd' \in [Slots -> Cmd \cup {NoCmd}]
  BY <1>1 DEF TenantsAssumption, TypeInv, TypeOK, Cmd, Provisions
<1>3. Control'
  BY <1>1 DEF TypeInv, TypeOK, Control, Provisions
<1> QED
  BY <1>2, <1>3

(* Going on to the next transaction. *)
LEMMA GotoKeepsControl ==
    ASSUME TypeInv, NEW s \in Slots, NEW step \in {"framework", "app", "seed", "log"},
           cmd[s] # NoCmd, cmd[s].pc # "erase", Goto(s, step),
           step \in {"seed", "log"} => cmd[s].op \in Provisions
    PROVE  cmd' \in [Slots -> Cmd \cup {NoCmd}] /\ Control'
<1>1. cmd[s] \in Cmd /\ cmd' = [cmd EXCEPT ![s] = [cmd[s] EXCEPT !.pc = step]]
  BY DEF TypeInv, TypeOK, Goto
<1>2. /\ [cmd[s] EXCEPT !.pc = step] \in Cmd
      /\ [cmd[s] EXCEPT !.pc = step].pc = step
      /\ [cmd[s] EXCEPT !.pc = step].op = cmd[s].op
  BY <1>1 DEF Cmd
<1>3. Control'
  BY <1>1, <1>2 DEF TypeInv, TypeOK, Control
<1> QED
  BY <1>1, <1>2, <1>3 DEF TypeInv, TypeOK

(* Ending. *)
LEMMA LeaveKeepsControl ==
    ASSUME TypeInv, NEW s \in Slots, Leave(s)
    PROVE  cmd' \in [Slots -> Cmd \cup {NoCmd}] /\ Control'
BY DEF TypeInv, TypeOK, Leave, Control

(* A command in a schema of the right type leaves one. *)
LEMMA SchemaStepKeepsTypes ==
    ASSUME TenantsAssumption, TypeInv, NEW g \in Slugs, NEW schema \in Schema,
           schemas' = [schemas EXCEPT ![g] = schema],
           UNCHANGED <<tenants, memberships, ids>>,
           cmd' \in [Slots -> Cmd \cup {NoCmd}], Control'
    PROVE  TypeInv'
<1>1. schemas' \in [Slugs -> Schema \cup {NoSchema}]
  BY DEF TypeInv, TypeOK
<1> QED
  BY <1>1 DEF TypeInv, TypeOK, DistinctIds

(* Offboarding removes the memberships with the row they refer to. *)
LEMMA EraseKeepsTypes ==
    ASSUME TenantsAssumption, TypeInv, NEW s \in Slots, Erase(s)
    PROVE  TypeInv'
<1> DEFINE g == cmd[s].slug
           row == ErasedRow(cmd[s].op, tenants[g])
<1>1. /\ cmd[s] \in Cmd /\ g \in Slugs /\ tenants[g] \in TenantRow /\ tenants[g] # NoRow
      /\ memberships' = {m \in memberships : m.tenant # tenants[g].id}
      /\ schemas' = [schemas EXCEPT ![g] = NoSchema]
      /\ tenants' = [tenants EXCEPT ![g] = row]
      /\ ids' = ids
  BY DEF Erase, At, PublicRows, TypeInv, TypeOK, Cmd
<1>2. row # NoRow => row \in TenantRow /\ row.id = tenants[g].id
  BY <1>1 DEF ErasedRow, TenantRow
<1>3. \A t \in Slots :
         \/ cmd'[t] = NoCmd
         \/ cmd[t] # NoCmd /\ cmd'[t] = [cmd[t] EXCEPT !.raced = TRUE]
         \/ cmd'[t] = cmd[t]
  BY DEF Erase
<1>4. \A c \in Cmd : LET later == [c EXCEPT !.raced = TRUE]
                     IN  later \in Cmd /\ later.pc = c.pc /\ later.op = c.op
  BY DEF Cmd
<1>5. /\ cmd' = [t \in Slots |-> cmd'[t]]
      /\ \A t \in Slots : cmd[t] \in Cmd \cup {NoCmd}
  BY DEF Erase, TypeInv, TypeOK
<1>6. \A t \in Slots : cmd'[t] \in Cmd \cup {NoCmd}
  BY <1>3, <1>4, <1>5
<1>7. cmd' \in [Slots -> Cmd \cup {NoCmd}]
  BY <1>5, <1>6
<1>8. Control'
  <2>1. \A t \in Slots : cmd'[t] # NoCmd =>
           cmd[t] # NoCmd /\ cmd'[t].pc = cmd[t].pc /\ cmd'[t].op = cmd[t].op
    BY <1>3, <1>4, <1>5
  <2> QED
    BY <2>1 DEF TypeInv, Control
<1>9. /\ \A h \in Slugs \ {g} : tenants'[h] = tenants[h]
      /\ tenants'[g] # NoRow => tenants'[g].id = tenants[g].id
  BY <1>1, <1>2 DEF TypeInv, TypeOK
<1>10. \A m \in memberships' : \E h \in Slugs : tenants'[h] # NoRow /\ tenants'[h].id = m.tenant
  BY <1>1, <1>9 DEF TypeInv, TypeOK
<1>11. TypeOK'
  BY <1>1, <1>2, <1>7, <1>10 DEF TypeInv, TypeOK
<1>12. DistinctIds'
  BY <1>1, <1>9 DEF TypeInv, DistinctIds
<1> QED
  BY <1>8, <1>11, <1>12 DEF TypeInv

(* Every step keeps types, control and the uniqueness of ids. *)
LEMMA TypeInvStep ==
    ASSUME TenantsAssumption, TypeInv, [Next]_vars PROVE TypeInv'
<1>1. CASE UNCHANGED vars
  BY <1>1 DEF vars, TypeInv, TypeOK, Control, DistinctIds
<1>2. ASSUME NEW s \in Slots, NEW g \in Slugs, NEW u \in Owners \cup {NoUser},
             CreateTenant(s, g, u)
      PROVE  TypeInv'
  BY <1>2, CreateKeepsTypes
<1>3. ASSUME NEW s \in Slots, NEW g \in Slugs, NEW mode \in {"archive", "drop"},
             Bootstrap(s, g) \/ Upgrade(s, g) \/ Export(s, g, mode)
      PROVE  TypeInv'
  <2>1. UNCHANGED <<tenants, memberships, schemas, ids>>
    BY <1>3 DEF Bootstrap, Upgrade, Export
  <2>2. \/ Enter(s, "bootstrap", "schema", g, 0)
        \/ Enter(s, "upgrade", "framework", g, 0)
        \/ Enter(s, mode, "erase", g, 0)
    BY <1>3 DEF Bootstrap, Upgrade, Export
  <2>3. cmd' \in [Slots -> Cmd \cup {NoCmd}] /\ Control'
    BY <2>2, EnterKeepsControl DEF Provisions
  <2> QED
    BY <2>1, <2>3 DEF TypeInv, TypeOK, DistinctIds
<1>4. ASSUME NEW s \in Slots, ProvisionSchema(s) PROVE TypeInv'
  <2> DEFINE g == cmd[s].slug
  <2>1. cmd[s] \in Cmd /\ g \in Slugs /\ cmd[s].pc = "schema"
    BY <1>4 DEF ProvisionSchema, At, TypeInv, TypeOK, Cmd
  <2>2. Provisioned(schemas[g]) \in Schema
    BY <2>1 DEF Provisioned, EmptySchema, Schema, TypeInv, TypeOK
  <2>3. cmd' \in [Slots -> Cmd \cup {NoCmd}] /\ Control'
    BY <1>4, GotoKeepsControl DEF ProvisionSchema, At
  <2> QED
    BY <1>4, <2>1, <2>2, <2>3, SchemaStepKeepsTypes DEF ProvisionSchema
<1>5. ASSUME NEW s \in Slots, MigrateFramework(s) PROVE TypeInv'
  <2> DEFINE g == cmd[s].slug
             migrated == [schemas[g] EXCEPT !.tables = @ \cup {"framework"}]
  <2>1. cmd[s] \in Cmd /\ g \in Slugs /\ cmd[s].pc = "framework" /\ schemas[g] \in Schema
    BY <1>5 DEF MigrateFramework, At, TypeInv, TypeOK, Cmd
  <2>2. migrated \in Schema
    BY <2>1 DEF Schema
  <2>3. cmd' \in [Slots -> Cmd \cup {NoCmd}] /\ Control'
    BY <1>5, GotoKeepsControl DEF MigrateFramework, At
  <2>4. schemas' = [schemas EXCEPT ![g] = migrated]
    BY <1>5 DEF MigrateFramework
  <2> QED
    BY <1>5, <2>1, <2>2, <2>3, <2>4, SchemaStepKeepsTypes DEF MigrateFramework
<1>6. ASSUME NEW s \in Slots, MigrateApp(s) PROVE TypeInv'
  <2> DEFINE g == cmd[s].slug
             migrated == [schemas[g] EXCEPT !.tables = @ \cup {"app"}]
  <2>1. cmd[s] \in Cmd /\ g \in Slugs /\ cmd[s].pc = "app" /\ schemas[g] \in Schema
    BY <1>6 DEF MigrateApp, At, TypeInv, TypeOK, Cmd
  <2>2. migrated \in Schema
    BY <2>1 DEF Schema
  <2>3. cmd[s].op # "upgrade" => cmd[s].op \in Provisions
    BY <1>6, <2>1 DEF TypeInv, Control, MigrateApp, At, Provisions, Cmd
  <2>4. cmd' \in [Slots -> Cmd \cup {NoCmd}] /\ Control'
    BY <1>6, <2>1, <2>3, GotoKeepsControl, LeaveKeepsControl DEF MigrateApp, At
  <2>5. schemas' = [schemas EXCEPT ![g] = migrated]
    BY <1>6 DEF MigrateApp
  <2> QED
    BY <1>6, <2>1, <2>2, <2>4, <2>5, SchemaStepKeepsTypes DEF MigrateApp
<1>7. ASSUME NEW s \in Slots, SeedRoles(s) PROVE TypeInv'
  <2> DEFINE g == cmd[s].slug
  <2>1. /\ cmd[s] \in Cmd /\ g \in Slugs /\ cmd[s].pc = "seed" /\ cmd[s].member \in 0..MaxId
        /\ schemas[g] \in Schema /\ cmd[s].op \in Provisions
    BY <1>7 DEF SeedRoles, HasTables, At, TypeInv, TypeOK, Control, Cmd
  <2>2. Seeded(schemas[g], cmd[s].member) \in Schema
    <3>1. {cmd[s].member} \ {0} \subseteq Ids
      BY <2>1 DEF Ids
    <3> QED
      BY <2>1, <3>1 DEF Seeded, Schema
  <2>3. cmd' \in [Slots -> Cmd \cup {NoCmd}] /\ Control'
    BY <1>7, <2>1, GotoKeepsControl DEF SeedRoles, At
  <2> QED
    BY <1>7, <2>1, <2>2, <2>3, SchemaStepKeepsTypes DEF SeedRoles
<1>8. ASSUME NEW s \in Slots, LogBootstrap(s) \/ Fail(s) PROVE TypeInv'
  <2>1. cmd' \in [Slots -> Cmd \cup {NoCmd}] /\ Control'
    BY <1>8, LeaveKeepsControl DEF LogBootstrap, Fail
  <2> QED
    BY <1>8, <2>1 DEF LogBootstrap, Fail, TypeInv, TypeOK, DistinctIds
<1>9. ASSUME NEW s \in Slots, Erase(s) PROVE TypeInv'
  BY <1>9, EraseKeepsTypes
<1>10. ASSUME NEW g \in Slugs, SetActive(g) PROVE TypeInv'
  <2>1. /\ tenants[g] \in TenantRow
        /\ tenants' = [tenants EXCEPT ![g] = [tenants[g] EXCEPT !.active = ~@]]
        /\ UNCHANGED <<memberships, schemas, ids, cmd>>
    BY <1>10 DEF SetActive, TypeInv, TypeOK
  <2>2. /\ [tenants[g] EXCEPT !.active = ~@] \in TenantRow
        /\ [tenants[g] EXCEPT !.active = ~@].id = tenants[g].id
    BY <2>1 DEF TenantRow
  <2>3. [tenants[g] EXCEPT !.active = ~@] # NoRow
    BY <2>2 DEF TenantsAssumption
  <2>4. \A h \in Slugs : /\ tenants[h] # NoRow <=> tenants'[h] # NoRow
                         /\ tenants[h] # NoRow => tenants'[h].id = tenants[h].id
    BY <1>10, <2>1, <2>2, <2>3 DEF SetActive, TypeInv, TypeOK
  <2>5. TypeOK'
    BY <2>1, <2>2, <2>4 DEF TypeInv, TypeOK
  <2>6. Control' /\ DistinctIds'
    BY <2>1, <2>4 DEF TypeInv, Control, DistinctIds
  <2> QED
    BY <2>5, <2>6 DEF TypeInv
<1>11. ASSUME NEW u \in Users, NEW g \in Slugs, Act(u, g) PROVE TypeInv'
  <2> DEFINE acted == [schemas[g] EXCEPT !.audit =
                          @ \cup {[actor |-> u, old |-> FALSE, pii |-> TRUE]}]
  <2>1. schemas[g] \in Schema
    BY <1>11 DEF Act, HasTables, TypeInv, TypeOK
  <2>2. [actor |-> u, old |-> FALSE, pii |-> TRUE] \in AuditRow
    BY DEF AuditRow
  <2>3. acted \in Schema
    BY <2>1, <2>2 DEF Schema
  <2>4. cmd' \in [Slots -> Cmd \cup {NoCmd}] /\ Control'
    BY <1>11 DEF Act, TypeInv, TypeOK, Control
  <2> QED
    BY <1>11, <2>3, <2>4, SchemaStepKeepsTypes DEF Act
<1> QED
  BY <1>1, <1>2, <1>3, <1>4, <1>5, <1>6, <1>7, <1>8, <1>9, <1>10, <1>11 DEF Next, Command

(* Tables, schemas and commands always have their types, and a membership   *)
(* refers to a tenant that exists (the foreign key the offboarding minds).  *)
THEOREM TypeCorrect ==
    ASSUME TenantsAssumption PROVE Spec => []TypeOK
<1>1. Init => TypeInv
  BY TypeInvInit
<1>2. TypeInv /\ [Next]_vars => TypeInv'
  BY TypeInvStep
<1>3. TypeInv => TypeOK
  BY DEF TypeInv
<1> QED
  BY <1>1, <1>2, <1>3, PTL DEF Spec

-----------------------------------------------------------------------------
(* Schemas grow *)

(* A schema that has grown is far enough for whom it was far enough.        *)
LEMMA GrowingReaches ==
    ASSUME NEW c, NEW schema, NEW later,
           SchemaReached(c, schema), Grows(schema, later),
           c.pc \in {"schema", "framework", "app", "seed", "log"}
    PROVE  SchemaReached(c, later)
BY DEF SchemaReached, Grows

(* Replacing one schema by a larger one makes every schema grow. *)
LEMMA OneSchemaGrows ==
    ASSUME TypeInv, NEW g \in Slugs, NEW schema, Grows(schemas[g], schema),
           schemas' = [schemas EXCEPT ![g] = schema]
    PROVE  \A h \in Slugs : Grows(schemas[h], schemas'[h])
BY DEF TypeInv, TypeOK, Grows

(* A step of any command but the erasing one of an offboarding. *)
LEMMA CommandsGrow ==
    ASSUME TenantsAssumption, TypeInv, NEW s \in Slots,
           \/ ProvisionSchema(s) \/ MigrateFramework(s) \/ MigrateApp(s) \/ SeedRoles(s)
    PROVE  /\ \A g \in Slugs : Grows(schemas[g], schemas'[g])
           /\ schemas'[cmd[s].slug] \in Schema
<1> DEFINE g == cmd[s].slug
<1>1. cmd[s] \in Cmd /\ g \in Slugs /\ schemas[g] \in Schema \cup {NoSchema}
  BY DEF ProvisionSchema, MigrateFramework, MigrateApp, SeedRoles, At, TypeInv, TypeOK, Cmd
<1>2. NoSchema \notin Schema
  BY DEF TenantsAssumption
<1>3. \E schema \in Schema :
         Grows(schemas[g], schema) /\ schemas' = [schemas EXCEPT ![g] = schema]
  <2>1. CASE ProvisionSchema(s)
    <3>1. EmptySchema \in Schema
      BY DEF EmptySchema, Schema
    <3> QED
      BY <1>1, <1>2, <2>1, <3>1 DEF ProvisionSchema, Provisioned, Grows
  <2>2. CASE MigrateFramework(s) \/ MigrateApp(s)
    <3> DEFINE migrated(tree) == [schemas[g] EXCEPT !.tables = @ \cup {tree}]
    <3>1. schemas[g] \in Schema
      BY <1>1, <2>2 DEF MigrateFramework, MigrateApp
    <3>2. ASSUME NEW tree \in {"framework", "app"}
          PROVE  migrated(tree) \in Schema /\ Grows(schemas[g], migrated(tree))
      <4>1. migrated(tree) \in Schema
        BY <3>1 DEF Schema
      <4>2. /\ migrated(tree).tables = schemas[g].tables \cup {tree}
            /\ migrated(tree).owners = schemas[g].owners
            /\ migrated(tree).audit = schemas[g].audit
            /\ migrated(tree).seeded = schemas[g].seeded
        BY <3>1 DEF Schema
      <4> QED
        BY <1>2, <4>1, <4>2 DEF Grows
    <3>3. \E tree \in {"framework", "app"} : schemas' = [schemas EXCEPT ![g] = migrated(tree)]
      BY <2>2 DEF MigrateFramework, MigrateApp
    <3> QED
      BY <3>2, <3>3
  <2>3. CASE SeedRoles(s)
    <3> DEFINE seeded == Seeded(schemas[g], cmd[s].member)
    <3>1. schemas[g] \in Schema /\ {cmd[s].member} \ {0} \subseteq Ids
      BY <1>1, <2>3 DEF SeedRoles, HasTables, Cmd, Ids
    <3>2. seeded \in Schema
      BY <3>1 DEF Seeded, Schema
    <3>3. /\ seeded.tables = schemas[g].tables /\ schemas[g].owners \subseteq seeded.owners
          /\ seeded.audit = schemas[g].audit /\ seeded.seeded
      BY <3>1 DEF Seeded, Schema
    <3>4. schemas' = [schemas EXCEPT ![g] = seeded]
      BY <2>3 DEF SeedRoles
    <3> QED
      BY <1>2, <3>2, <3>3, <3>4 DEF Grows
  <2> QED
    BY <2>1, <2>2, <2>3
<1>4. PICK schema \in Schema :
         Grows(schemas[g], schema) /\ schemas' = [schemas EXCEPT ![g] = schema]
  BY <1>3
<1> QED
  BY <1>1, <1>4, OneSchemaGrows DEF TypeInv, TypeOK

(* Nothing is lost without an erasing step. *)
LEMMA OnlyErasingTakesAway ==
    ASSUME TenantsAssumption, TypeInv, [Next]_vars, \A s \in Slots : ~Erase(s)
    PROVE  /\ \A g \in Slugs : Grows(schemas[g], schemas'[g])
           /\ \A g \in Slugs : tenants[g] # NoRow =>
                 tenants'[g] # NoRow /\ tenants'[g].id = tenants[g].id
           /\ memberships \subseteq memberships'
<1> DEFINE Kept == /\ \A g \in Slugs : Grows(schemas[g], schemas'[g])
                   /\ \A g \in Slugs : tenants[g] # NoRow =>
                         tenants'[g] # NoRow /\ tenants'[g].id = tenants[g].id
                   /\ memberships \subseteq memberships'
<1>1. CASE UNCHANGED vars
  BY <1>1 DEF vars, Grows
<1>2. ASSUME NEW s \in Slots, NEW g \in Slugs, NEW u \in Owners \cup {NoUser},
             CreateTenant(s, g, u)
      PROVE  /\ UNCHANGED schemas
             /\ memberships \subseteq memberships'
             /\ \A h \in Slugs : tenants[h] # NoRow => tenants'[h] = tenants[h]
  BY <1>2 DEF CreateTenant, TypeInv, TypeOK
<1>3. ASSUME NEW s \in Slots, NEW g \in Slugs, NEW mode \in {"archive", "drop"},
             Bootstrap(s, g) \/ Upgrade(s, g) \/ Export(s, g, mode)
      PROVE  UNCHANGED <<tenants, memberships, schemas>>
  BY <1>3 DEF Bootstrap, Upgrade, Export
<1>4. ASSUME NEW s \in Slots,
             \/ ProvisionSchema(s) \/ MigrateFramework(s) \/ MigrateApp(s) \/ SeedRoles(s)
      PROVE  /\ UNCHANGED <<tenants, memberships>>
             /\ \A g \in Slugs : Grows(schemas[g], schemas'[g])
  BY <1>4, CommandsGrow DEF ProvisionSchema, MigrateFramework, MigrateApp, SeedRoles
<1>5. ASSUME NEW g \in Slugs, SetActive(g)
      PROVE  /\ UNCHANGED <<memberships, schemas>>
             /\ \A h \in Slugs : tenants[h] # NoRow =>
                   tenants'[h] # NoRow /\ tenants'[h].id = tenants[h].id
  <2>1. /\ tenants[g] \in TenantRow
        /\ tenants' = [tenants EXCEPT ![g] = [tenants[g] EXCEPT !.active = ~@]]
    BY <1>5 DEF SetActive, TypeInv, TypeOK
  <2>2. /\ [tenants[g] EXCEPT !.active = ~@] \in TenantRow
        /\ [tenants[g] EXCEPT !.active = ~@].id = tenants[g].id
    BY <2>1 DEF TenantRow
  <2>3. [tenants[g] EXCEPT !.active = ~@] # NoRow
    BY <2>2 DEF TenantsAssumption
  <2> QED
    BY <1>5, <2>1, <2>2, <2>3 DEF SetActive, TypeInv, TypeOK
<1>6. ASSUME NEW u \in Users, NEW g \in Slugs, Act(u, g)
      PROVE  /\ UNCHANGED <<tenants, memberships>>
             /\ \A h \in Slugs : Grows(schemas[h], schemas'[h])
  <2> DEFINE acted == [schemas[g] EXCEPT !.audit =
                          @ \cup {[actor |-> u, old |-> FALSE, pii |-> TRUE]}]
  <2>1. schemas[g] \in Schema
    BY <1>6 DEF Act, HasTables, TypeInv, TypeOK
  <2>2. [actor |-> u, old |-> FALSE, pii |-> TRUE] \in AuditRow
    BY DEF AuditRow
  <2>3. acted \in Schema
    BY <2>1, <2>2 DEF Schema
  <2>4. /\ acted.tables = schemas[g].tables /\ acted.owners = schemas[g].owners
        /\ schemas[g].audit \subseteq acted.audit /\ acted.seeded = schemas[g].seeded
    BY <2>1 DEF Schema
  <2>5. Grows(schemas[g], acted)
    BY <2>3, <2>4 DEF Grows, TenantsAssumption
  <2>6. schemas' = [schemas EXCEPT ![g] = acted]
    BY <1>6 DEF Act
  <2> QED
    BY <1>6, <2>5, <2>6, OneSchemaGrows DEF Act
<1>7. UNCHANGED schemas => \A g \in Slugs : Grows(schemas[g], schemas'[g])
  BY DEF Grows
<1>8. ASSUME NEW s \in Slots, NEW g \in Slugs, NEW u \in Owners \cup {NoUser},
             CreateTenant(s, g, u)
      PROVE  Kept
  <2>1. /\ UNCHANGED schemas
        /\ memberships \subseteq memberships'
        /\ \A h \in Slugs : tenants[h] # NoRow => tenants'[h] = tenants[h]
    BY <1>8, <1>2
  <2> QED
    BY <2>1, <1>7
<1>9. ASSUME NEW s \in Slots, NEW g \in Slugs, NEW mode \in {"archive", "drop"},
             Bootstrap(s, g) \/ Upgrade(s, g) \/ Export(s, g, mode)
      PROVE  Kept
  <2>1. UNCHANGED <<tenants, memberships, schemas>>
    BY <1>9, <1>3
  <2> QED
    BY <2>1, <1>7
<1>10. ASSUME NEW s \in Slots, Fail(s) \/ LogBootstrap(s) PROVE Kept
  BY <1>10, <1>7 DEF Fail, LogBootstrap
<1>11. ASSUME NEW s \in Slots,
              \/ ProvisionSchema(s) \/ MigrateFramework(s) \/ MigrateApp(s) \/ SeedRoles(s)
       PROVE  Kept
  BY <1>11, <1>4
<1>12. ASSUME NEW g \in Slugs, SetActive(g) PROVE Kept
  BY <1>12, <1>5, <1>7
<1>13. ASSUME NEW u \in Users, NEW g \in Slugs, Act(u, g) PROVE Kept
  BY <1>13, <1>6
<1>14. CASE Command
  BY <1>14, <1>8, <1>9, <1>10, <1>11, <1>12 DEF Command
<1> QED
  BY <1>1, <1>13, <1>14 DEF Next

(* Erasing touches the schema, the row and the memberships of its tenant.   *)
LEMMA ErasingIsLocal ==
    ASSUME TypeInv, NEW s \in Slots, Erase(s)
    PROVE  /\ cmd[s].slug \in Slugs /\ tenants[cmd[s].slug] # NoRow
           /\ cmd'[s] = NoCmd
           /\ \A g \in Slugs \ {cmd[s].slug} :
                 tenants'[g] = tenants[g] /\ schemas'[g] = schemas[g]
           /\ memberships' = {m \in memberships : m.tenant # tenants[cmd[s].slug].id}
BY DEF TypeInv, TypeOK, Erase, At, PublicRows, Cmd

(* Running any command again, or two side by side, takes nothing out of a   *)
(* tenant's schema; only the offboarding of that tenant does.               *)
THEOREM RerunningIsSafe ==
    ASSUME TenantsAssumption PROVE Spec => RerunIsSafe
<1> DEFINE Safe(g) ==
              \/ schemas[g] = NoSchema
              \/ \E s \in Slots : At(s, "erase") /\ cmd[s].slug = g /\ cmd'[s] = NoCmd
              \/ /\ schemas'[g] # NoSchema
                 /\ schemas[g].tables \subseteq schemas'[g].tables
                 /\ schemas[g].owners \subseteq schemas'[g].owners
                 /\ schemas[g].audit \subseteq schemas'[g].audit
                 /\ schemas[g].seeded => schemas'[g].seeded
<1>1. Init => TypeInv
  BY TypeInvInit
<1>2. TypeInv /\ [Next]_vars => TypeInv'
  BY TypeInvStep
<1>3. ASSUME TypeInv, [Next]_vars PROVE \A g \in Slugs : Safe(g)
  <2>1. CASE \A s \in Slots : ~Erase(s)
    BY <1>3, <2>1, OnlyErasingTakesAway DEF Grows
  <2>2. ASSUME NEW s \in Slots, Erase(s) PROVE \A g \in Slugs : Safe(g)
    BY <1>3, <2>2, ErasingIsLocal DEF Erase
  <2> QED
    BY <2>1, <2>2
<1>4. TypeInv /\ [Next]_vars => \A g \in Slugs : Safe(g)
  BY <1>3
<1> QED
  BY <1>1, <1>2, <1>4, PTL DEF Spec, RerunIsSafe
-----------------------------------------------------------------------------
(* Ready means ready *)

(* No command is in flight at first. *)
LEMMA WorkStandsInit == Init => WorkStands
BY DEF Init, WorkStands

(* A command loses nothing while others than an erasing one take their step. *)
LEMMA BystandersKeepTheirWork ==
    ASSUME TenantsAssumption, TypeInv, WorkStands, [Next]_vars,
           \A s \in Slots : ~Erase(s),
           NEW t \in Slots, cmd[t] # NoCmd, ~cmd[t].raced, cmd[t].op \in Provisions,
           cmd'[t] = cmd[t]
    PROVE  WorkOf(cmd[t])'
<1> DEFINE c == cmd[t]
<1>1. c \in Cmd /\ c.slug \in Slugs
  BY DEF TypeInv, TypeOK, Cmd
<1>2. c.pc \in {"schema", "framework", "app", "seed", "log"}
  BY <1>1 DEF TypeInv, Control, Cmd, Provisions
<1>3. WorkOf(c)
  BY DEF WorkStands
<1>4. /\ Grows(schemas[c.slug], schemas'[c.slug])
      /\ tenants'[c.slug] # NoRow /\ tenants'[c.slug].id = tenants[c.slug].id
      /\ memberships \subseteq memberships'
  BY <1>1, <1>3, OnlyErasingTakesAway DEF WorkOf
<1>5. SchemaReached(c, schemas'[c.slug])
  BY <1>2, <1>3, <1>4, GrowingReaches DEF WorkOf
<1> QED
  BY <1>3, <1>4, <1>5 DEF WorkOf

(* Only its own steps, or an erasing one, change what a command is doing.    *)
LEMMA WhoseStep ==
    ASSUME TypeInv, [Next]_vars, \A s \in Slots : ~Erase(s),
           NEW t \in Slots, cmd'[t] # cmd[t]
    PROVE  \/ \E g \in Slugs :
                \/ \E u \in Owners \cup {NoUser} : CreateTenant(t, g, u)
                \/ Bootstrap(t, g)
                \/ Upgrade(t, g)
                \/ \E mode \in {"archive", "drop"} : Export(t, g, mode)
           \/ ProvisionSchema(t) \/ MigrateFramework(t) \/ MigrateApp(t) \/ SeedRoles(t)
           \/ LogBootstrap(t) \/ Fail(t)
<1> USE DEF TypeInv, TypeOK
<1>1. ASSUME NEW s \in Slots, NEW g \in Slugs,
             \/ \E u \in Owners \cup {NoUser} : CreateTenant(s, g, u)
             \/ Bootstrap(s, g)
             \/ Upgrade(s, g)
             \/ \E mode \in {"archive", "drop"} : Export(s, g, mode)
      PROVE  s = t
  BY <1>1 DEF CreateTenant, Bootstrap, Upgrade, Export, Enter
<1>2. ASSUME NEW s \in Slots,
             \/ ProvisionSchema(s) \/ MigrateFramework(s) \/ MigrateApp(s) \/ SeedRoles(s)
             \/ LogBootstrap(s) \/ Fail(s)
      PROVE  s = t
  BY <1>2 DEF ProvisionSchema, MigrateFramework, MigrateApp, SeedRoles, LogBootstrap, Fail,
              Goto, Leave
<1>3. Command
  BY DEF Next, Act, vars
<1>4. ~ \E g \in Slugs : SetActive(g)
  BY DEF SetActive
<1> QED
  BY <1>1, <1>2, <1>3, <1>4 DEF Command

(* tenant create starts from the row and the membership it has just made.    *)
LEMMA CreateStartsItsWork ==
    ASSUME TenantsAssumption, TypeInv, NEW t \in Slots, NEW g \in Slugs,
           NEW u \in Owners \cup {NoUser}, CreateTenant(t, g, u)
    PROVE  WorkOf(cmd[t])'
<1> DEFINE known  == tenants[g] # NoRow
           tid    == IF known THEN tenants[g].id ELSE ids + 1
           fresh  == IF u # NoUser /\ MembershipsOf(u, tid) = {}
                     THEN {[id |-> ids + 2, user |-> u, tenant |-> tid]} ELSE {}
           owners == {m.id : m \in MembershipsOf(u, tid) \cup fresh}
           member == IF owners = {} THEN 0 ELSE CHOOSE m \in owners : TRUE
           row    == [id |-> tid, active |-> TRUE, archived |-> FALSE]
<1>1. /\ Enter(t, "create", "schema", g, member)
      /\ tenants' = IF known THEN tenants ELSE [tenants EXCEPT ![g] = row]
      /\ memberships' = memberships \cup fresh
      /\ ids' = IF known /\ fresh = {} THEN ids ELSE ids + 2
      /\ ids' <= MaxId
  BY DEF CreateTenant
<1>2. cmd'[t] = [op |-> "create", pc |-> "schema", slug |-> g,
                 member |-> member, raced |-> FALSE]
  BY <1>1 DEF Enter, TypeInv, TypeOK
<1>3. ~known => row \in TenantRow
  <2>1. ~known => ids + 1 \in Ids
    BY <1>1 DEF TypeInv, TypeOK, Ids, TenantsAssumption
  <2> QED
    BY <2>1 DEF TenantRow
<1>4. tenants'[g] # NoRow /\ tenants'[g].id = tid
  BY <1>1, <1>3 DEF TypeInv, TypeOK, TenantsAssumption
<1>5. member # 0 => \E m \in memberships' : m.id = member /\ m.tenant = tid
  <2>1. member # 0 => member \in owners
    OBVIOUS
  <2>2. \A i \in owners : \E m \in memberships' : m.id = i /\ m.tenant = tid
    BY <1>1 DEF MembershipsOf
  <2> QED
    BY <2>1, <2>2
<1>6. SchemaReached(cmd'[t], schemas'[g])
  BY <1>2 DEF SchemaReached
<1> QED
  BY <1>2, <1>4, <1>5, <1>6 DEF WorkOf

(* Each transaction of a command does what its next step counts on.          *)
LEMMA EachStepAdvances ==
    ASSUME TenantsAssumption, TypeInv, WorkStands, NEW t \in Slots,
           cmd'[t] # NoCmd, ~cmd'[t].raced, cmd'[t].op \in Provisions,
           \/ ProvisionSchema(t) \/ MigrateFramework(t) \/ MigrateApp(t) \/ SeedRoles(t)
    PROVE  WorkOf(cmd[t])'
<1> DEFINE c == cmd[t]  g == cmd[t].slug  d == cmd'[t]
<1>1. /\ c \in Cmd /\ c # NoCmd /\ g \in Slugs
      /\ \E pc \in {"framework", "app", "seed", "log"} : d = [c EXCEPT !.pc = pc]
  BY DEF ProvisionSchema, MigrateFramework, MigrateApp, SeedRoles, At, Goto, Leave,
         TypeInv, TypeOK, Cmd
<1>2. /\ d.op = c.op /\ d.slug = g /\ d.member = c.member /\ d.raced = c.raced
      /\ d.pc \in {"framework", "app", "seed", "log"}
  BY <1>1 DEF Cmd
<1>3. WorkOf(c)
  BY <1>1, <1>2 DEF WorkStands
<1>4. UNCHANGED <<tenants, memberships>>
  BY DEF ProvisionSchema, MigrateFramework, MigrateApp, SeedRoles
<1>5. schemas'[g] \in Schema /\ schemas'[g] # NoSchema /\ Grows(schemas[g], schemas'[g])
  BY <1>1, CommandsGrow DEF TenantsAssumption
<1>6. SchemaReached(c, schemas'[g])
  <2>1. c.pc \in {"schema", "framework", "app", "seed", "log"}
    BY DEF ProvisionSchema, MigrateFramework, MigrateApp, SeedRoles, At
  <2> QED
    BY <1>3, <1>5, <2>1, GrowingReaches DEF WorkOf
<1>7. SchemaReached(d, schemas'[g])
  <2>1. CASE ProvisionSchema(t)
    <3>1. d.pc = "framework"
      BY <1>1, <2>1 DEF ProvisionSchema, Goto, TypeInv, TypeOK, Cmd
    <3> QED
      BY <1>5, <3>1 DEF SchemaReached
  <2>2. CASE MigrateFramework(t)
    <3>1. d.pc = "app"
      BY <1>1, <2>2 DEF MigrateFramework, Goto, TypeInv, TypeOK, Cmd
    <3>2. schemas'[g].tables = schemas[g].tables \cup {"framework"}
      BY <1>1, <2>2 DEF MigrateFramework, TypeInv, TypeOK, Schema
    <3> QED
      BY <1>5, <3>1, <3>2 DEF SchemaReached
  <2>3. CASE MigrateApp(t)
    <3>1. c.pc = "app" /\ d.pc = "seed"
      BY <1>1, <1>2, <2>3 DEF MigrateApp, Goto, Leave, At, TypeInv, TypeOK, Cmd, Provisions
    <3>2. schemas'[g].tables = schemas[g].tables \cup {"app"}
      BY <1>1, <2>3 DEF MigrateApp, TypeInv, TypeOK, Schema
    <3> QED
      BY <1>5, <1>6, <3>1, <3>2 DEF SchemaReached
  <2>4. CASE SeedRoles(t)
    <3>1. c.pc = "seed" /\ d.pc = "log"
      BY <1>1, <2>4 DEF SeedRoles, Goto, At, TypeInv, TypeOK, Cmd
    <3>2. /\ schemas'[g].seeded
          /\ c.member # 0 => c.member \in schemas'[g].owners
      BY <1>1, <2>4 DEF SeedRoles, Seeded, HasTables, TypeInv, TypeOK, Schema
    <3> QED
      BY <1>2, <1>5, <1>6, <3>1, <3>2 DEF SchemaReached
  <2> QED
    BY <2>1, <2>2, <2>3, <2>4
<1> QED
  BY <1>2, <1>3, <1>4, <1>7 DEF WorkOf

(* Erasing a tenant leaves the commands on other tenants their work.         *)
LEMMA ErasingSparesOtherTenants ==
    ASSUME TenantsAssumption, TypeInv, WorkStands, NEW s \in Slots, Erase(s)
    PROVE  WorkStands'
<1> DEFINE g == cmd[s].slug
<1> SUFFICES ASSUME NEW t \in Slots, cmd'[t] # NoCmd, ~cmd'[t].raced,
                    cmd'[t].op \in Provisions
             PROVE  WorkOf(cmd[t])'
  BY DEF WorkStands
<1>1. cmd[t] # NoCmd /\ cmd'[t] = cmd[t] /\ cmd[t].slug # g
  <2>1. cmd'[t] = IF t = s THEN NoCmd
                  ELSE IF cmd[t] # NoCmd /\ cmd[t].slug = g THEN [cmd[t] EXCEPT !.raced = TRUE]
                  ELSE cmd[t]
    BY DEF Erase
  <2>2. cmd[t] # NoCmd /\ cmd[t].slug = g => [cmd[t] EXCEPT !.raced = TRUE].raced
    BY DEF TypeInv, TypeOK, Cmd
  <2> QED
    BY <2>1, <2>2
<1> DEFINE h == cmd[t].slug
<1>2. h \in Slugs \ {g} /\ WorkOf(cmd[t])
  BY <1>1 DEF WorkStands, TypeInv, TypeOK, Cmd
<1>3. tenants'[h] = tenants[h] /\ schemas'[h] = schemas[h]
  BY <1>2, ErasingIsLocal
<1>4. tenants[h] # NoRow /\ tenants[h].id # tenants[g].id
  BY <1>2, ErasingIsLocal DEF WorkOf, TypeInv, DistinctIds
<1>5. \A m \in memberships : m.tenant = tenants[h].id => m \in memberships'
  BY <1>4, ErasingIsLocal
<1> QED
  BY <1>1, <1>2, <1>3, <1>5 DEF WorkOf

(* Whatever step is taken, every command's work still stands.                *)
LEMMA WorkStandsStep ==
    ASSUME TenantsAssumption, TypeInv, WorkStands, [Next]_vars
    PROVE  WorkStands'
<1>1. CASE \E s \in Slots : Erase(s)
  BY <1>1, ErasingSparesOtherTenants
<1>2. CASE \A s \in Slots : ~Erase(s)
  <2> SUFFICES ASSUME NEW t \in Slots, cmd'[t] # NoCmd, ~cmd'[t].raced,
                      cmd'[t].op \in Provisions
               PROVE  WorkOf(cmd[t])'
    BY DEF WorkStands
  <2>1. CASE cmd'[t] = cmd[t]
    BY <1>2, <2>1, BystandersKeepTheirWork
  <2>2. ASSUME NEW g \in Slugs, NEW u \in Owners \cup {NoUser}, CreateTenant(t, g, u)
        PROVE  WorkOf(cmd[t])'
    BY <2>2, CreateStartsItsWork
  <2>3. ASSUME NEW g \in Slugs, Bootstrap(t, g) PROVE WorkOf(cmd[t])'
    <3>1. /\ cmd'[t] = [op |-> "bootstrap", pc |-> "schema", slug |-> g,
                        member |-> 0, raced |-> FALSE]
          /\ tenants'[g] # NoRow
      BY <2>3 DEF Bootstrap, Enter, TypeInv, TypeOK
    <3> QED
      BY <3>1 DEF WorkOf, SchemaReached
  <2>4. ASSUME NEW g \in Slugs,
               Upgrade(t, g) \/ \E mode \in {"archive", "drop"} : Export(t, g, mode)
        PROVE  FALSE
    BY <2>4 DEF Upgrade, Export, Enter, Provisions, TypeInv, TypeOK
  <2>5. ASSUME ProvisionSchema(t) \/ MigrateFramework(t) \/ MigrateApp(t) \/ SeedRoles(t)
        PROVE  WorkOf(cmd[t])'
    BY <2>5, EachStepAdvances
  <2>6. ~LogBootstrap(t) /\ ~Fail(t)
    BY DEF LogBootstrap, Fail, Leave, TypeInv, TypeOK
  <2> QED
    BY <1>2, <2>1, <2>2, <2>3, <2>4, <2>5, <2>6, WhoseStep
<1> QED
  BY <1>1, <1>2

(* What a command that is about to report "ready" has behind it. *)
LEMMA ReadyFromWork == TypeInv /\ WorkStands => ReadyMeansReady
<1> SUFFICES ASSUME TypeInv, WorkStands, NEW s \in Slots, At(s, "log"), ~cmd[s].raced
             PROVE  /\ tenants[cmd[s].slug] # NoRow
                    /\ SchemaReached(cmd[s], schemas[cmd[s].slug])
                    /\ schemas[cmd[s].slug].tables = {"framework", "app"}
                    /\ cmd[s].member # 0 => \E r \in memberships :
                          r.id = cmd[s].member /\ r.tenant = tenants[cmd[s].slug].id
  BY DEF ReadyMeansReady, SchemaReached, At
<1>1. cmd[s] \in Cmd /\ cmd[s].op \in Provisions /\ cmd[s].pc = "log"
  BY DEF At, TypeInv, TypeOK, Control
<1>2. WorkOf(cmd[s])
  BY <1>1 DEF At, WorkStands
<1>3. schemas[cmd[s].slug] \in Schema
  BY <1>1, <1>2 DEF WorkOf, SchemaReached, TypeInv, TypeOK, Cmd
<1>4. schemas[cmd[s].slug].tables = {"framework", "app"}
  BY <1>1, <1>2, <1>3 DEF WorkOf, SchemaReached, Schema
<1> QED
  BY <1>2, <1>4 DEF WorkOf

(* A command that is about to report "ready" and was not overtaken by an     *)
(* offboarding of its tenant is right: row, schema, migrations, roles and    *)
(* the owner it was asked for are there.                                     *)
THEOREM ReadyIsReady ==
    ASSUME TenantsAssumption PROVE Spec => []ReadyMeansReady
<1>1. Init => TypeInv /\ WorkStands
  BY TypeInvInit, WorkStandsInit
<1>2. TypeInv /\ WorkStands /\ [Next]_vars => (TypeInv /\ WorkStands)'
  BY TypeInvStep, WorkStandsStep
<1>3. TypeInv /\ WorkStands => ReadyMeansReady
  BY ReadyFromWork
<1> QED
  BY <1>1, <1>2, <1>3, PTL DEF Spec
-----------------------------------------------------------------------------
(* The retention job beside the commands *)

(* Steps that touch nothing of a tenant but its audit log. *)
OnlyAudit ==
    /\ UNCHANGED <<tenants, memberships, ids, cmd>>
    /\ schemas' \in [Slugs -> Schema \cup {NoSchema}]
    /\ \A g \in Slugs : schemas'[g] = NoSchema <=> schemas[g] = NoSchema
    /\ \A g \in Slugs : schemas[g] # NoSchema =>
          /\ schemas'[g].tables = schemas[g].tables
          /\ schemas'[g].seeded = schemas[g].seeded
          /\ schemas'[g].owners = schemas[g].owners

(* What the job's functions on audit logs yield. *)
LEMMA AuditRows ==
    ASSUME NEW rows \in SUBSET AuditRow, NEW us
    PROVE  /\ Older(rows) \subseteq AuditRow
           /\ Pruned(rows) \subseteq rows
           /\ Redacted(rows, us) \subseteq AuditRow
           /\ \A u \in us : ~NamedIn(u, Redacted(rows, us))
           /\ \A u : NamedIn(u, Redacted(rows, us)) => NamedIn(u, rows)
<1>1. Older(rows) \subseteq AuditRow
  BY DEF Older, AuditRow
<1>2. Pruned(rows) \subseteq rows
  BY DEF Pruned
<1> DEFINE new(r) == IF r.actor \in us THEN [r EXCEPT !.pii = FALSE] ELSE r
<1>3. \A r \in rows : /\ new(r) \in AuditRow
                      /\ new(r).actor = r.actor
                      /\ new(r).pii => r.pii
                      /\ r.actor \in us => ~new(r).pii
  BY DEF AuditRow
<1>4. Redacted(rows, us) = {new(r) : r \in rows}
  BY DEF Redacted
<1> HIDE DEF new
<1>5. Redacted(rows, us) \subseteq AuditRow
  BY <1>3, <1>4
<1>6. \A u \in us : ~NamedIn(u, Redacted(rows, us))
  BY <1>3, <1>4 DEF NamedIn
<1>7. \A u : NamedIn(u, Redacted(rows, us)) => NamedIn(u, rows)
  BY <1>3, <1>4 DEF NamedIn
<1> QED
  BY <1>1, <1>2, <1>5, <1>6, <1>7

(* A schema with another audit log. *)
LEMMA OtherAudit ==
    ASSUME NEW schema \in Schema, NEW rows \in SUBSET AuditRow
    PROVE  LET later == [schema EXCEPT !.audit = rows]
           IN  /\ later \in Schema /\ later.audit = rows
               /\ later.tables = schema.tables /\ later.seeded = schema.seeded
               /\ later.owners = schema.owners
BY DEF Schema

(* The sweep of one tenant. *)
LEMMA SweepingOne ==
    ASSUME TenantsAssumption, TypeInv, NEW g \in Slugs, SweepTenant(g)
    PROVE  /\ OnlyAudit
           /\ schemas[g] \in Schema /\ schemas[g] # NoSchema
           /\ schemas'[g].audit = Swept(schemas[g].audit)
           /\ \A h \in Slugs \ {g} : schemas'[h] = schemas[h]
<1>1. schemas[g] \in Schema /\ schemas[g] # NoSchema
  BY DEF SweepTenant, HasTables, TypeInv, TypeOK
<1> DEFINE later == [schemas[g] EXCEPT !.audit = Swept(schemas[g].audit)]
<1>2. schemas[g].audit \in SUBSET AuditRow
  BY <1>1 DEF Schema
<1>3. Swept(schemas[g].audit) \in SUBSET AuditRow
  <2>1. Pruned(schemas[g].audit) \in SUBSET AuditRow
    BY <1>2, AuditRows
  <2> QED
    BY <2>1, AuditRows DEF Swept
<1>4. /\ later \in Schema /\ later.audit = Swept(schemas[g].audit)
      /\ later.tables = schemas[g].tables /\ later.seeded = schemas[g].seeded
      /\ later.owners = schemas[g].owners
  BY <1>1, <1>3, OtherAudit
<1>5. later # NoSchema
  BY <1>4 DEF TenantsAssumption
<1>6. schemas' = [schemas EXCEPT ![g] = later] /\ UNCHANGED <<tenants, memberships, ids, cmd>>
  BY DEF SweepTenant
<1> HIDE DEF later
<1>7. schemas \in [Slugs -> Schema \cup {NoSchema}]
  BY DEF TypeInv, TypeOK
<1>8. /\ schemas' \in [Slugs -> Schema \cup {NoSchema}]
      /\ schemas'[g] = later /\ \A h \in Slugs \ {g} : schemas'[h] = schemas[h]
  BY <1>4, <1>6, <1>7
<1> QED
  BY <1>1, <1>4, <1>5, <1>6, <1>8 DEF OnlyAudit

(* Time passing for the audit logs. *)
LEMMA AgeingAll ==
    ASSUME TenantsAssumption, TypeInv, AuditPeriodPasses
    PROVE  /\ OnlyAudit
           /\ \A g \in Slugs : schemas[g] # NoSchema =>
                 schemas'[g].audit = Older(schemas[g].audit)
<1> DEFINE later(g) == [schemas[g] EXCEPT !.audit = Older(schemas[g].audit)]
<1>1. ASSUME NEW g \in Slugs, schemas[g] # NoSchema
      PROVE  /\ later(g) \in Schema /\ later(g).audit = Older(schemas[g].audit)
             /\ later(g).tables = schemas[g].tables /\ later(g).seeded = schemas[g].seeded
             /\ later(g).owners = schemas[g].owners
  <2>1. schemas[g] \in Schema
    BY <1>1 DEF TypeInv, TypeOK
  <2>2. schemas[g].audit \in SUBSET AuditRow
    BY <2>1 DEF Schema
  <2>3. Older(schemas[g].audit) \in SUBSET AuditRow
    BY <2>2, AuditRows
  <2> QED
    BY <2>1, <2>3, OtherAudit
<1>2. /\ schemas' = [g \in Slugs |-> IF schemas[g] = NoSchema THEN NoSchema ELSE later(g)]
      /\ UNCHANGED <<tenants, memberships, ids, cmd>>
  BY DEF AuditPeriodPasses
<1> HIDE DEF later
<1>3. \A g \in Slugs : schemas'[g] = IF schemas[g] = NoSchema THEN NoSchema ELSE later(g)
  BY <1>2
<1>4. NoSchema \notin Schema
  BY DEF TenantsAssumption
<1>5. schemas' \in [Slugs -> Schema \cup {NoSchema}]
  BY <1>1, <1>2
<1> QED
  BY <1>1, <1>2, <1>3, <1>4, <1>5 DEF OnlyAudit

(* A step of the composition is a step of Tenants, or leaves all but audit  *)
(* logs alone.                                                              *)
LEMMA StepKinds ==
    ASSUME TenantsAssumption, TypeInv, [RetentionNext]_retentionVars
    PROVE  [Next]_vars \/ OnlyAudit
<1>1. CASE UNCHANGED retentionVars
  BY <1>1 DEF retentionVars, vars
<1>2. CASE Command \/ \E u \in Users, g \in Slugs : ActInTenant(u, g)
  BY <1>2 DEF ActInTenant, Next
<1>3. CASE \/ \E u \in Users : ActInPublic(u) \/ Deactivate(u) \/ Reactivate(u) \/ Anonymize(u)
           \/ UserPeriodPasses
           \/ \E anonymizes, all \in BOOLEAN : StartRun(anonymizes, all)
           \/ AnonymizeExpired \/ ListTenants \/ EndRun \/ Crash
           \/ \E g \in Slugs : SweepFails(g)
  BY <1>3 DEF ActInPublic, Deactivate, Reactivate, Anonymize, UserPeriodPasses, StartRun,
              AnonymizeExpired, ListTenants, EndRun, Crash, SweepFails, vars
<1>4. CASE AuditPeriodPasses
  BY <1>4, AgeingAll
<1>5. CASE \E g \in Slugs : SweepTenant(g)
  BY <1>5, SweepingOne
<1> QED
  BY <1>1, <1>2, <1>3, <1>4, <1>5 DEF RetentionNext, JobStep

(* The invariants of Tenants also hold beside the job. *)
LEMMA TenantsStayRight ==
    ASSUME TenantsAssumption, TypeInv, [RetentionNext]_retentionVars
    PROVE  TypeInv' /\ (WorkStands => WorkStands')
<1>1. CASE [Next]_vars
  BY <1>1, TypeInvStep, WorkStandsStep
<1>2. CASE OnlyAudit
  <2>1. TypeInv'
    BY <1>2 DEF OnlyAudit, TypeInv, TypeOK, Control, DistinctIds
  <2>2. ASSUME WorkStands, NEW s \in Slots, cmd'[s] # NoCmd, ~cmd'[s].raced,
               cmd'[s].op \in Provisions
        PROVE  WorkOf(cmd[s])'
    <3> DEFINE g == cmd[s].slug
    <3>1. cmd[s] \in Cmd /\ g \in Slugs /\ WorkOf(cmd[s]) /\ cmd'[s] = cmd[s]
      BY <1>2, <2>2 DEF OnlyAudit, WorkStands, TypeInv, TypeOK, Cmd
    <3>2. SchemaReached(cmd[s], schemas'[g])
      BY <1>2, <3>1 DEF OnlyAudit, WorkOf, SchemaReached, Cmd
    <3> QED
      BY <1>2, <3>1, <3>2 DEF OnlyAudit, WorkOf
  <2> QED
    BY <2>1, <2>2 DEF WorkStands
<1> QED
  BY <1>1, <1>2, StepKinds

(* "Ready" stays true while the retention job visits the schemas.           *)
THEOREM ReadyBesideTheJob == RetentionSpec => []ReadyMeansReady
<1>1. RetentionInit => TypeInv /\ WorkStands
  BY TenantsAssumption, TypeInvInit, WorkStandsInit DEF RetentionInit
<1>2. TypeInv /\ WorkStands /\ [RetentionNext]_retentionVars => (TypeInv /\ WorkStands)'
  BY TenantsAssumption, TenantsStayRight
<1>3. TypeInv /\ WorkStands => ReadyMeansReady
  BY ReadyFromWork
<1> QED
  BY <1>1, <1>2, <1>3, PTL DEF RetentionSpec

-----------------------------------------------------------------------------
(* A complete run forgets everywhere *)

(* A schema without a row - its tenant was dropped while a command was still *)
(* at work on it - has never been used.                                     *)
OrphansAreEmpty ==
    \A g \in Slugs :
        tenants[g] = NoRow /\ schemas[g] # NoSchema => schemas[g].audit = {}

(* What the visits of a run have achieved so far: whatever it has not still *)
(* to visit, tenants that came too late to be listed included.              *)
VisitedForget ==
    job.pc \in {"sweep", "done"} /\ job.all =>
        \A u \in job.anonymized, g \in Slugs \ job.todo :
            schemas[g] # NoSchema => ~NamedIn(u, schemas[g].audit)

OnlySweepsHaveTodo == job.pc # "sweep" => job.todo = {}

RetentionInv ==
    RetentionTypeOK /\ TypeInv /\ OrphansAreEmpty /\ VisitedForget /\ OnlySweepsHaveTodo

(* Nothing has happened yet. *)
LEMMA RetentionInvInit == RetentionInit => RetentionInv
<1> SUFFICES ASSUME RetentionInit PROVE RetentionInv
  OBVIOUS
<1>1. TypeInv
  BY TenantsAssumption, TypeInvInit DEF RetentionInit
<1>2. RetentionTypeOK
  BY <1>1, RetentionAssumption DEF RetentionTypeOK, TypeInv, RetentionInit, Job, NoJob
<1> QED
  BY <1>1, <1>2 DEF RetentionInv, RetentionInit, Init, OrphansAreEmpty, VisitedForget,
                    OnlySweepsHaveTodo, NoJob

(* No command writes into an audit log, and a row goes with its schema.     *)
LEMMA CommandsSpareAudit ==
    ASSUME TenantsAssumption, TypeInv, Command, NEW g \in Slugs
    PROVE  /\ \/ schemas'[g] = NoSchema
              \/ schemas'[g].audit = {}
              \/ schemas[g] # NoSchema /\ schemas'[g].audit = schemas[g].audit
           /\ tenants'[g] = NoRow => tenants[g] = NoRow \/ schemas'[g] = NoSchema
<1> DEFINE Spared == \/ schemas'[g] = NoSchema
                     \/ schemas'[g].audit = {}
                     \/ schemas[g] # NoSchema /\ schemas'[g].audit = schemas[g].audit
           RowStays == tenants'[g] = NoRow => tenants[g] = NoRow \/ schemas'[g] = NoSchema
<1>1. UNCHANGED schemas => Spared
  OBVIOUS
<1>2. CASE \E s \in Slots : Erase(s)
  BY <1>2 DEF Erase, At, TypeInv, TypeOK, Cmd
<1>3. CASE \A s \in Slots : ~Erase(s)
  <2>1. RowStays
    BY <1>3, OnlyErasingTakesAway DEF Next
  <2>2. CASE UNCHANGED schemas
    BY <1>1, <2>1, <2>2
  <2>3. CASE ~ UNCHANGED schemas
    <3>1. PICK s \in Slots : \/ ProvisionSchema(s) \/ MigrateFramework(s)
                             \/ MigrateApp(s) \/ SeedRoles(s)
      BY <1>3, <2>3 DEF Command, CreateTenant, Bootstrap, Upgrade, Export,
                        LogBootstrap, Fail, SetActive
    <3> DEFINE h == cmd[s].slug
    <3>2. /\ h \in Slugs /\ schemas[h] \in Schema \cup {NoSchema}
          /\ schemas \in [Slugs -> Schema \cup {NoSchema}]
      BY <3>1 DEF ProvisionSchema, MigrateFramework, MigrateApp, SeedRoles,
                  At, TypeInv, TypeOK, Cmd
    <3>3. CASE ProvisionSchema(s)
      BY <2>1, <3>2, <3>3 DEF ProvisionSchema, Provisioned, EmptySchema
    <3>4. CASE MigrateFramework(s) \/ MigrateApp(s) \/ SeedRoles(s)
      <4>1. schemas[h] \in Schema /\ schemas[h] # NoSchema
        BY <3>2, <3>4 DEF MigrateFramework, MigrateApp, SeedRoles, HasTables
      <4>2. schemas'[h].audit = schemas[h].audit
        <5>1. ASSUME NEW x
              PROVE  [schemas[h] EXCEPT !.tables = x].audit = schemas[h].audit
          BY <4>1 DEF Schema
        <5>2. Seeded(schemas[h], cmd[s].member).audit = schemas[h].audit
          BY <4>1 DEF Schema, Seeded
        <5> QED
          BY <3>2, <3>4, <4>1, <5>1, <5>2 DEF MigrateFramework, MigrateApp, SeedRoles, Schema
      <4>3. g # h => schemas'[g] = schemas[g]
        BY <3>2, <3>4 DEF MigrateFramework, MigrateApp, SeedRoles
      <4> QED
        BY <2>1, <4>1, <4>2, <4>3
    <3> QED
      BY <3>1, <3>3, <3>4
  <2> QED
    BY <2>2, <2>3
<1> QED
  BY <1>2, <1>3

(* Tenants' own steps: a command, or a request of a user who is active and  *)
(* so is not one of those the run has anonymised.                           *)
LEMMA TenantsForget ==
    ASSUME RetentionInv,
           \/ Command /\ UNCHANGED <<status, public, job, crashes>>
           \/ \E u \in Users, g \in Slugs : ActInTenant(u, g)
    PROVE  OrphansAreEmpty' /\ VisitedForget'
<1> USE TenantsAssumption
<1>1. CASE Command /\ UNCHANGED <<status, public, job, crashes>>
  <2>1. \A g \in Slugs :
           /\ \/ schemas'[g] = NoSchema
              \/ schemas'[g].audit = {}
              \/ schemas[g] # NoSchema /\ schemas'[g].audit = schemas[g].audit
           /\ tenants'[g] = NoRow => tenants[g] = NoRow \/ schemas'[g] = NoSchema
    BY <1>1, CommandsSpareAudit DEF RetentionInv
  <2>2. OrphansAreEmpty'
    BY <2>1 DEF RetentionInv, OrphansAreEmpty
  <2>3. VisitedForget'
    BY <1>1, <2>1 DEF RetentionInv, VisitedForget, NamedIn
  <2> QED
    BY <2>2, <2>3
<1>2. ASSUME NEW u \in Users, NEW g \in Slugs, ActInTenant(u, g)
      PROVE  OrphansAreEmpty' /\ VisitedForget'
  <2> DEFINE row == [actor |-> u, old |-> FALSE, pii |-> TRUE]
             acted == [schemas[g] EXCEPT !.audit = @ \cup {row}]
  <2>1. /\ status[u] = "active" /\ tenants[g] # NoRow
        /\ schemas[g] \in Schema /\ schemas[g] # NoSchema
        /\ schemas \in [Slugs -> Schema \cup {NoSchema}]
        /\ schemas' = [schemas EXCEPT ![g] = acted]
        /\ UNCHANGED <<tenants, status, job>>
    BY <1>2 DEF ActInTenant, Act, HasTables, RetentionInv, TypeInv, TypeOK
  <2>2. acted.audit = schemas[g].audit \cup {row} /\ row.actor = u
    BY <2>1 DEF Schema
  <2>3. u \notin job.anonymized
    BY <2>1 DEF RetentionInv, RetentionTypeOK
  <2>4. schemas'[g] = acted /\ \A h \in Slugs \ {g} : schemas'[h] = schemas[h]
    BY <2>1
  <2> HIDE DEF acted, row
  <2>5. OrphansAreEmpty'
    BY <2>1, <2>4 DEF RetentionInv, OrphansAreEmpty
  <2>6. VisitedForget'
    BY <2>1, <2>2, <2>3, <2>4 DEF RetentionInv, VisitedForget, NamedIn
  <2> QED
    BY <2>5, <2>6
<1> QED
  BY <1>1, <1>2

(* The job's visit to a tenant. *)
LEMMA SweepForgets ==
    ASSUME RetentionInv, NEW g \in Slugs, SweepTenant(g)
    PROVE  OrphansAreEmpty' /\ VisitedForget'
<1>1. /\ OnlyAudit
      /\ schemas[g] \in Schema /\ schemas[g] # NoSchema
      /\ schemas'[g].audit = Swept(schemas[g].audit)
      /\ \A h \in Slugs \ {g} : schemas'[h] = schemas[h]
  BY TenantsAssumption, SweepingOne DEF RetentionInv
<1>2. schemas[g].audit \in SUBSET AuditRow
  BY <1>1 DEF Schema
<1>3. /\ \A u \in job.anonymized : ~NamedIn(u, Swept(schemas[g].audit))
      /\ schemas[g].audit = {} => Swept(schemas[g].audit) = {}
  <2>1. Pruned(schemas[g].audit) \in SUBSET AuditRow
    BY <1>2, AuditRows
  <2>2. \A u \in job.anonymized : ~NamedIn(u, Swept(schemas[g].audit))
    BY <2>1, AuditRows DEF Swept
  <2>3. schemas[g].audit = {} => Swept(schemas[g].audit) = {}
    BY DEF Swept, Redacted, Pruned
  <2> QED
    BY <2>2, <2>3
<1>4. /\ job.pc = "sweep" /\ g \in job.todo
      /\ job \in Job
      /\ job' = [job EXCEPT !.pc = SweepOrDone(job.todo \ {g}), !.todo = job.todo \ {g}]
  BY DEF SweepTenant, RetentionInv, RetentionTypeOK
<1>5. /\ job'.anonymized = job.anonymized /\ job'.todo = job.todo \ {g}
      /\ job'.all = job.all
  BY <1>4 DEF Job
<1>6. OrphansAreEmpty'
  BY <1>1, <1>3 DEF OnlyAudit, RetentionInv, OrphansAreEmpty
<1>7. VisitedForget'
  BY <1>1, <1>3, <1>4, <1>5 DEF RetentionInv, VisitedForget
<1> QED
  BY <1>6, <1>7

(* All other steps: the job's control, users, and time. *)
LEMMA OthersForget ==
    ASSUME RetentionInv,
           \/ \E u \in Users : ActInPublic(u) \/ Deactivate(u) \/ Reactivate(u) \/ Anonymize(u)
           \/ AuditPeriodPasses
           \/ UserPeriodPasses
           \/ \E anonymizes, all \in BOOLEAN : StartRun(anonymizes, all)
           \/ AnonymizeExpired \/ ListTenants \/ EndRun \/ Crash
           \/ \E g \in Slugs : SweepFails(g)
    PROVE  OrphansAreEmpty' /\ VisitedForget'
<1>1. CASE AuditPeriodPasses
  <2>1. job = NoJob /\ job' = job
    BY <1>1 DEF AuditPeriodPasses
  <2>2. /\ OnlyAudit
        /\ \A g \in Slugs : schemas[g] # NoSchema => schemas'[g].audit = Older(schemas[g].audit)
    BY <1>1, TenantsAssumption, AgeingAll DEF RetentionInv
  <2> QED
    BY <2>1, <2>2 DEF RetentionInv, OrphansAreEmpty, VisitedForget, NoJob, OnlyAudit, Older
<1>2. CASE \/ \E u \in Users : ActInPublic(u) \/ Deactivate(u) \/ Reactivate(u) \/ Anonymize(u)
           \/ UserPeriodPasses
  BY <1>2 DEF ActInPublic, Deactivate, Reactivate, Anonymize, UserPeriodPasses, vars,
              RetentionInv, OrphansAreEmpty, VisitedForget
<1>3. CASE \/ EndRun \/ Crash \/ \E g \in Slugs : SweepFails(g)
  BY <1>3 DEF EndRun, Crash, SweepFails, vars, NoJob,
              RetentionInv, OrphansAreEmpty, VisitedForget
<1>4. CASE (\E anonymizes, all \in BOOLEAN : StartRun(anonymizes, all)) \/ AnonymizeExpired
  <2>1. UNCHANGED <<tenants, schemas>>
    BY <1>4 DEF StartRun, AnonymizeExpired, vars
  <2>2. job'.pc \in {"sweep", "done"} => ~job'.all
    <3>1. ASSUME NEW anonymizes \in BOOLEAN, NEW all \in BOOLEAN, StartRun(anonymizes, all)
          PROVE  job'.pc \in {"sweep", "done"} => ~job'.all
      BY <3>1 DEF StartRun, NoJob
    <3>2. AnonymizeExpired => (job'.pc \in {"sweep", "done"} => ~job'.all)
      BY DEF AnonymizeExpired, RetentionInv, RetentionTypeOK, Job
    <3> QED
      BY <1>4, <3>1, <3>2
  <2> QED
    BY <2>1, <2>2 DEF RetentionInv, OrphansAreEmpty, VisitedForget
<1>5. CASE ListTenants
  <2>1. /\ UNCHANGED <<tenants, schemas>>
        /\ job'.todo = Listed
    BY <1>5 DEF ListTenants, vars, RetentionInv, RetentionTypeOK, Job
  <2>2. \A g \in Slugs \ Listed : schemas[g] # NoSchema => schemas[g].audit = {}
    BY DEF Listed, RetentionInv, OrphansAreEmpty
  <2> QED
    BY <2>1, <2>2 DEF RetentionInv, OrphansAreEmpty, VisitedForget, NamedIn
<1> QED
  BY <1>1, <1>2, <1>3, <1>4, <1>5

(* The job's own variables keep their types, and only a sweeping job has    *)
(* tenants to visit.                                                        *)
LEMMA JobStepTypes ==
    ASSUME RetentionInv, [RetentionNext]_retentionVars
    PROVE  /\ status' \in [Users -> {"active", "deactivated", "expired", "anonymized"}]
           /\ public' \subseteq AuditRow
           /\ job' \in Job
           /\ crashes' \in 0..MaxCrashes
           /\ \A u \in job'.anonymized : status'[u] = "anonymized"
           /\ OnlySweepsHaveTodo'
<1> DEFINE Goal ==
              /\ status' \in [Users -> {"active", "deactivated", "expired", "anonymized"}]
              /\ public' \subseteq AuditRow
              /\ job' \in Job
              /\ crashes' \in 0..MaxCrashes
              /\ \A u \in job'.anonymized : status'[u] = "anonymized"
              /\ OnlySweepsHaveTodo'
<1> USE TenantsAssumption, RetentionAssumption DEF RetentionInv, RetentionTypeOK, OnlySweepsHaveTodo
<1>1. CASE UNCHANGED <<status, public, job, crashes>>
  BY <1>1
<1>2. ASSUME NEW u \in Users, ActInPublic(u) PROVE Goal
  <2>1. [actor |-> u, old |-> FALSE, pii |-> TRUE] \in AuditRow
    BY DEF AuditRow
  <2> QED
    BY <1>2, <2>1 DEF ActInPublic
<1>3. ASSUME NEW u \in Users, Deactivate(u) \/ Reactivate(u) PROVE Goal
  <2>1. job.anonymized \subseteq Users
    BY DEF Job
  <2> QED
    BY <1>3, <2>1 DEF Deactivate, Reactivate
<1>4. ASSUME NEW u \in Users, Anonymize(u) PROVE Goal
  <2>1. Redacted(public, {u}) \subseteq AuditRow
    BY AuditRows
  <2> QED
    BY <1>4, <2>1 DEF Anonymize
<1>5. CASE AuditPeriodPasses
  <2>1. Older(public) \subseteq AuditRow
    BY AuditRows
  <2> QED
    BY <1>5, <2>1 DEF AuditPeriodPasses
<1>6. CASE UserPeriodPasses
  <2>1. job.anonymized \subseteq Users
    BY DEF Job
  <2> QED
    BY <1>6, <2>1 DEF UserPeriodPasses
<1>7. ASSUME NEW anonymizes \in BOOLEAN, NEW all \in BOOLEAN, StartRun(anonymizes, all)
      PROVE  Goal
  <2>1. Pruned(public) \subseteq AuditRow
    BY AuditRows
  <2> QED
    BY <1>7, <2>1 DEF StartRun, NoJob, Job
<1>8. CASE AnonymizeExpired
  <2> DEFINE due == {u \in Users : status[u] = "expired"}
  <2>1. Redacted(public, due) \subseteq AuditRow
    BY AuditRows
  <2> QED
    BY <1>8, <2>1 DEF AnonymizeExpired, Job
<1>9. CASE ListTenants
  BY <1>9 DEF ListTenants, Job, Listed, SweepOrDone
<1>10. ASSUME NEW g \in Slugs, SweepTenant(g) PROVE Goal
  BY <1>10 DEF SweepTenant, Job, SweepOrDone
<1>11. ASSUME NEW g \in Slugs, SweepFails(g) PROVE Goal
  BY <1>11 DEF SweepFails, Job, NoJob
<1>12. CASE Crash \/ EndRun
  <2>1. NoJob \in Job /\ NoJob.anonymized = {} /\ NoJob.todo = {}
    BY DEF NoJob, Job
  <2>2. crashes' \in 0..MaxCrashes
    BY <1>12 DEF Crash, EndRun
  <2> QED
    BY <1>12, <2>1, <2>2 DEF Crash, EndRun
<1>13. CASE Command /\ UNCHANGED <<status, public, job, crashes>>
  BY <1>1, <1>13
<1>14. CASE \E u \in Users, g \in Slugs : ActInTenant(u, g)
  BY <1>1, <1>14 DEF ActInTenant
<1> QED
  BY <1>1, <1>2, <1>3, <1>4, <1>5, <1>6, <1>7, <1>8, <1>9, <1>10, <1>11, <1>12, <1>13, <1>14
     DEF RetentionNext, JobStep, retentionVars

(* Every step keeps the invariant. *)
LEMMA RetentionInvStep == RetentionInv /\ [RetentionNext]_retentionVars => RetentionInv'
<1> SUFFICES ASSUME RetentionInv, [RetentionNext]_retentionVars PROVE RetentionInv'
  OBVIOUS
<1>1. TypeInv'
  BY TenantsAssumption, TenantsStayRight DEF RetentionInv
<1>2. RetentionTypeOK' /\ OnlySweepsHaveTodo'
  BY <1>1, JobStepTypes DEF RetentionTypeOK, TypeInv
<1>3. OrphansAreEmpty' /\ VisitedForget'
  <2>1. CASE UNCHANGED retentionVars
    BY <2>1 DEF retentionVars, vars, RetentionInv, OrphansAreEmpty, VisitedForget
  <2>2. CASE \/ Command /\ UNCHANGED <<status, public, job, crashes>>
             \/ \E u \in Users, g \in Slugs : ActInTenant(u, g)
    BY <2>2, TenantsForget
  <2>3. CASE \E g \in Slugs : SweepTenant(g)
    BY <2>3, SweepForgets
  <2>4. CASE \/ \E u \in Users : ActInPublic(u) \/ Deactivate(u) \/ Reactivate(u) \/ Anonymize(u)
             \/ AuditPeriodPasses
             \/ UserPeriodPasses
             \/ \E anonymizes, all \in BOOLEAN : StartRun(anonymizes, all)
             \/ AnonymizeExpired \/ ListTenants \/ EndRun \/ Crash
             \/ \E g \in Slugs : SweepFails(g)
    BY <2>4, OthersForget
  <2> QED
    BY <2>1, <2>2, <2>3, <2>4 DEF RetentionNext, JobStep
<1> QED
  BY <1>1, <1>2, <1>3 DEF RetentionInv

(* The job's state and the users' always have their types, and whom a run   *)
(* has anonymised is anonymised.                                            *)
THEOREM RetentionTypeCorrect == RetentionSpec => []RetentionTypeOK
<1>1. RetentionInv => RetentionTypeOK
  BY DEF RetentionInv
<1> QED
  BY <1>1, RetentionInvInit, RetentionInvStep, PTL DEF RetentionSpec

(* A run over all tenants that ends has redacted whom it anonymised in every *)
(* schema there is, whatever was created, disabled or dropped meanwhile.     *)
THEOREM CompletedRunsRedact == RetentionSpec => []CompletedRunRedacts
<1>1. RetentionInv => CompletedRunRedacts
  BY DEF RetentionInv, CompletedRunRedacts, VisitedForget, OnlySweepsHaveTodo
<1> QED
  BY <1>1, RetentionInvInit, RetentionInvStep, PTL DEF RetentionSpec
=============================================================================
