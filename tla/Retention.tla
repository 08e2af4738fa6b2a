----------------------------- MODULE Retention -----------------------------
(***************************************************************************)
(* The retention job (privacy retention-run, audit prune): it prunes the   *)
(* public audit log, anonymises the users deactivated for long enough, and *)
(* then visits every tenant schema, each step in a transaction of its own. *)
(* It runs beside the commands of Tenants, which this module extends:      *)
(* tenants appear, disappear and stay half-provisioned under the job.      *)
(*                                                                         *)
(* How a user row gets from one status to another is the subject of        *)
(* Accounts; here a status is enough.  A run takes minutes where the       *)
(* periods are days, so nothing grows old while one is under way.          *)
(*                                                                         *)
(* A definition named X_Something is a faulty variant of X, there to show  *)
(* that a property depends on X; no specification uses it.                 *)
(***************************************************************************)
EXTENDS Tenants

CONSTANT MaxCrashes  \* bound: runs that are killed

VARIABLES
    status,   \* users: active, deactivated, expired (for long), anonymized
    public,   \* public.audit_logs, in the form of AuditRow
    job,      \* the run of the job under way
    crashes   \* runs killed so far

ASSUME RetentionAssumption == MaxCrashes \in Nat

retentionVars == <<vars, status, public, job, crashes>>

(* A run: whether it anonymises (user_anonymize_after_days), whether it     *)
(* visits the tenants (all_tenants), the users it has anonymised, and the   *)
(* tenants it has still to visit.  Only the run remembers these.            *)
Job == [pc: {"idle", "anonymize", "list", "sweep", "done"},
        anonymizes: BOOLEAN, all: BOOLEAN,
        anonymized: SUBSET Users, todo: SUBSET Slugs]

NoJob == [pc |-> "idle", anonymizes |-> FALSE, all |-> FALSE,
          anonymized |-> {}, todo |-> {}]

RetentionTypeOK ==
    /\ TypeOK
    /\ status \in [Users -> {"active", "deactivated", "expired", "anonymized"}]
    /\ public \subseteq AuditRow
    /\ job \in Job
    /\ crashes \in 0..MaxCrashes
    /\ \A u \in job.anonymized : status[u] = "anonymized"

RetentionInit ==
    /\ Init
    /\ status = [u \in Users |-> "active"]
    /\ public = {}
    /\ job = NoJob
    /\ crashes = 0

-----------------------------------------------------------------------------
(* Users and time *)

(* A request of an active user leaves its row in the tenant it is about. *)
ActInTenant(u, g) ==
    /\ status[u] = "active"
    /\ Act(u, g)
    /\ UNCHANGED <<status, public, job, crashes>>

(* A login, say, leaves one in the public log. *)
ActInPublic(u) ==
    /\ status[u] = "active"
    /\ public' = public \cup {[actor |-> u, old |-> FALSE, pii |-> TRUE]}
    /\ UNCHANGED <<vars, status, job, crashes>>

Deactivate(u) ==
    /\ status[u] = "active"
    /\ status' = [status EXCEPT ![u] = "deactivated"]
    /\ UNCHANGED <<vars, public, job, crashes>>

Reactivate(u) ==
    /\ status[u] \in {"deactivated", "expired"}
    /\ status' = [status EXCEPT ![u] = "active"]
    /\ UNCHANGED <<vars, public, job, crashes>>

Older(rows) == {[r EXCEPT !.old = TRUE] : r \in rows}

(* audit_retention_days go by. *)
AuditPeriodPasses ==
    /\ job = NoJob
    /\ public' = Older(public)
    /\ schemas' = [g \in Slugs |-> IF schemas[g] = NoSchema THEN NoSchema
                                   ELSE [schemas[g] EXCEPT !.audit = Older(@)]]
    /\ UNCHANGED <<tenants, memberships, ids, cmd, status, job, crashes>>

(* user_anonymize_after_days go by. *)
UserPeriodPasses ==
    /\ job = NoJob
    /\ status' = [u \in Users |-> IF status[u] = "deactivated" THEN "expired" ELSE status[u]]
    /\ UNCHANGED <<vars, public, job, crashes>>

(* anonymize_audit_actor *)
Redacted(rows, us) == {IF r.actor \in us THEN [r EXCEPT !.pii = FALSE] ELSE r : r \in rows}

(* user anonymize, and DELETE /root/users/{id}: the public log only. *)
Anonymize(u) ==
    /\ status[u] # "anonymized"
    /\ status' = [status EXCEPT ![u] = "anonymized"]
    /\ public' = Redacted(public, {u})
    /\ UNCHANGED <<vars, job, crashes>>

-----------------------------------------------------------------------------
(* The job *)

Pruned(rows) == {r \in rows : ~r.old}

(* apply_retention, first transaction; what follows depends on its options. *)
StartRun(anonymizes, all) ==
    /\ job = NoJob
    /\ public' = Pruned(public)
    /\ job' = [NoJob EXCEPT !.pc = IF anonymizes THEN "anonymize"
                                   ELSE IF all THEN "list" ELSE "done",
                            !.anonymizes = anonymizes, !.all = all]
    /\ UNCHANGED <<vars, status, crashes>>

(* _anonymize_expired_users *)
AnonymizeExpired ==
    LET due == {u \in Users : status[u] = "expired"}
    IN  /\ job.pc = "anonymize"
        /\ status' = [u \in Users |-> IF u \in due THEN "anonymized" ELSE status[u]]
        /\ public' = Redacted(public, due)
        /\ job' = [job EXCEPT !.pc = IF job.all THEN "list" ELSE "done", !.anonymized = due]
        /\ UNCHANGED <<vars, crashes>>

Listed_ActiveOnly == {g \in Slugs : tenants[g] # NoRow /\ tenants[g].active}

(* Every row of tenants, whatever its state. *)
Listed == {g \in Slugs : tenants[g] # NoRow}

SweepOrDone(todo) == IF todo = {} THEN "done" ELSE "sweep"

ListTenants ==
    /\ job.pc = "list"
    /\ job' = [job EXCEPT !.pc = SweepOrDone(Listed), !.todo = Listed]
    /\ UNCHANGED <<vars, status, public, crashes>>

Swept_PruneOnly(rows) == Pruned(rows)

(* What one visit makes of a tenant's audit log. *)
Swept(rows) == Redacted(Pruned(rows), job.anonymized)

(* The rows come in no particular order. *)
SweepTenant(g) ==
    /\ job.pc = "sweep" /\ g \in job.todo
    /\ HasTables(g)
    /\ schemas' = [schemas EXCEPT ![g].audit = Swept(@)]
    /\ job' = [job EXCEPT !.pc = SweepOrDone(job.todo \ {g}), !.todo = @ \ {g}]
    /\ UNCHANGED <<tenants, memberships, ids, cmd, status, public, crashes>>

(* A schema that was dropped or never migrated has no audit table: the      *)
(* error ends the whole run.                                                *)
SweepFails(g) ==
    /\ job.pc = "sweep" /\ g \in job.todo
    /\ ~HasTables(g)
    /\ job' = NoJob
    /\ UNCHANGED <<vars, status, public, crashes>>

Crash ==
    /\ job.pc \notin {"idle", "done"}
    /\ crashes < MaxCrashes
    /\ job' = NoJob
    /\ crashes' = crashes + 1
    /\ UNCHANGED <<vars, status, public>>

(* "Retention run complete" *)
EndRun ==
    /\ job.pc = "done"
    /\ job' = NoJob
    /\ UNCHANGED <<vars, status, public, crashes>>

JobStep ==
    \/ AnonymizeExpired
    \/ ListTenants
    \/ \E g \in Slugs : SweepTenant(g) \/ SweepFails(g)
    \/ EndRun

RetentionNext ==
    \/ Command /\ UNCHANGED <<status, public, job, crashes>>
    \/ \E u \in Users : \/ \E g \in Slugs : ActInTenant(u, g)
                        \/ ActInPublic(u)
                        \/ Deactivate(u)
                        \/ Reactivate(u)
                        \/ Anonymize(u)
    \/ AuditPeriodPasses
    \/ UserPeriodPasses
    \/ \E anonymizes, all \in BOOLEAN : StartRun(anonymizes, all)
    \/ JobStep
    \/ Crash

RetentionSpec == RetentionInit /\ [][RetentionNext]_retentionVars

(* Cron starts the full run every day, and a run that has begun goes on. *)
FairSpec == RetentionSpec /\ SF_retentionVars(StartRun(TRUE, TRUE)) /\ WF_retentionVars(JobStep)

-----------------------------------------------------------------------------
(* Properties *)

NamedIn(u, rows) == \E r \in rows : r.actor = u /\ r.pii

(* A run over all tenants that ends without an error has redacted the users *)
(* it anonymised "in every tenant schema", disabled tenants and tenants     *)
(* created, migrated or offboarded during the run included.                 *)
CompletedRunRedacts ==
    job.pc = "done" /\ job.all =>
        \A u \in job.anonymized, g \in Slugs :
            schemas[g] # NoSchema => ~NamedIn(u, schemas[g].audit)

OldRows(g) == schemas[g] # NoSchema /\ \E r \in schemas[g].audit : r.old

(* Storage limitation: as long as every tenant keeps a schema with its      *)
(* tables, each audit row that is too old is deleted in the end, in enabled *)
(* and disabled tenants alike, although runs are killed now and then.       *)
OldRowsGo ==
    <>[](\A g \in Slugs : tenants[g] # NoRow => HasTables(g))
        => \A g \in Slugs : (tenants[g] # NoRow /\ OldRows(g)) ~> ~OldRows(g)

(* "Per-tenant audit logs are anonymised by the retention job" (user        *)
(* anonymize): after a complete run no anonymised user is named in them.    *)
CompletedRunForgets ==
    job.pc = "done" /\ job.all /\ job.anonymizes =>
        \A u \in Users, g \in Slugs :
            status[u] = "anonymized" /\ schemas[g] # NoSchema
                => ~NamedIn(u, schemas[g].audit)
=============================================================================
