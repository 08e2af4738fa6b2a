# A TLA+ development of asterion-admin

asterion-admin (`src/asterion`) is a multi-tenant admin back end: FastAPI routes
over SQLAlchemy's async ORM, PostgreSQL with one schema per tenant (SQLite in
development), JWT sessions, a command line for operators, and extensions.
Nothing in it runs for long; what is hard is that requests, operator commands
and cron jobs share rows, and that no handler takes a lock. A handler is one
transaction at READ COMMITTED: it reads rows, decides, computes new values in
memory and commits. Between its reads and its commit any other handler moves.
That is the shape of every module here.

## 1. Inventory

| component (`src/asterion/`) | state | operations | what is hard | what makes it correct |
|---|---|---|---|---|
| `auth/` sessions: `tokens`, `router`, `revocation`, `dependencies` | `users.token_version`, `users.is_active`, `revoked_tokens`; the tokens in clients' hands | login, refresh, logout, logout-all, reset confirm, the check of every request | look-ups and writes are separate; version computed in memory | a bump ends every earlier token; one logout does not end other sessions; impersonation does not nest |
| `auth/` accounts: `password_reset`, `invite`, `provisioning`; `models/user.py` | the `users` row, `password_reset_tokens` | create, invite, request, confirm, disable, enable, promote, edit, anonymise, retention | eleven writers of the same columns, column-wise merging by the ORM | machine accounts have no password; an account that is out stays out; the retention clock is right |
| `auth/` two-factor: `two_factor_router`, `totp` | `totp_secret`, `totp_enabled`, `two_factor_backup_codes`, challenges | setup, enable, disable, login step 1, login step 2 | overlapping enrolments; single use of codes and challenges | no session by password alone; the codes shown last are the ones that work; used codes and challenges stay used |
| `auth/rate_limiter`, `extensions/rate_limit_redis`, `core/tenant_rate_limit` | failure times by key | is_limited, record_failure, clear | asked before, told after an await | no more in a window than the limit and those let in together; a lockout ends |
| `providers/` | none of their own | authenticate_request, login, effective permissions | second sessions beside the request's | same answer as the tables |
| `root/` | `impersonation_logs`, users, tenants | impersonate, anonymise, offboard | tokens minted for someone else | no nesting; revocation reaches them |
| `tenancy/resolver`, `tenancy/middleware` | `_tenant_cache` of each process | resolve, evict, gate | fills across an await, processes that do not hear of changes | staleness bounded by the TTL; offboarding is immediate |
| `tenancy/bootstrap`, `offboarding`, `schema_strategy` | `tenants`, memberships, tenant schemas | create, provision, migrate, seed, enable/disable, offboard | several transactions per operation; idempotent re-runs | an active tenant has its schema, roles and owner |
| `privacy/` | audit rows' actor data, tombstones | anonymise, retention run, export, redact | a job over many transactions; nothing remembers how far it got | every trace of an anonymised user is redacted in the end |
| `audit/` | `audit_logs`, `tenant_audit_logs` | in-session (savepoint) and isolated writes | must neither break nor outlive the request | a row per committed write, and none that tells of more or less |
| `admin/` | memberships, role links, permission matrix, inlines, saved filters | add/update/remove member, matrix update, inline writes | read-compute-write of sets; role links without a foreign key to the membership | a key taken away stays away; who is removed and added again holds only what was asked for since |
| `authz/` | permission catalog | sync, match keys | catalog changes under roles | what the UI is told and what the routes allow agree |
| `crud/`, `actions/`, `extensions/import_export` | application tables | list, create, update, delete, bulk, import, export | singleton tables; partial failure of a batch; pages that are queries of their own | all or nothing; the audit tells the truth; pages partition a list |
| `extensions/lifecycle`, `registry` | registries, the started list | setup phases, freeze, startup, shutdown | failure half-way; registrations that come too late | what started is shut down, in reverse; what was set up is what is served |
| `extensions/email` | `email_outbox` | enqueue, process_outbox | crashes between delivery and commit; overlapping runs; backoff | no mail for a rolled back request; every mail settles; outcomes stay |
| `extensions/service_accounts` | machine users | create, delete | references from other tables | token-only for ever |
| `extensions/auth_oauth` | state cookie, identity links, key cache | authorize, callback, link, get_key | concurrent first logins; a key cache shared by callbacks; cookies that stay | one account per identity, never by email; bound to the browser; no withdrawn key beyond the TTL and a fetch |
| `storage/`, `extensions/storage_s3` | files | put, get, delete | overwrites | names stay inside the root |
| `contract/`, `registry/`, `fields/`, `schemas/`, `security/`, `core/` | configuration, filled at start and then frozen | build the contract and the payload schema, convert, filter; `create_admin` | three pieces of code decide about each field and control | they agree |
| `i18n/`, `ui/`, `notifications/` | none | translate, render, log | nothing at run time | pure functions of their input |
| `cli/` | none | the operator's side of the above | runs beside the server, in another process | as the handlers it doubles |
| `db/` | the connection pool | one session per request | hold and wait for a second connection | commit on success, roll back on error |

Interactions. A request passes the tenant middleware (cache, then `tenants`),
the authentication dependency (`revoked_tokens`, then `users`), a handler and
the commit of `get_async_session`. The CLI and the cron jobs go straight to the
tables. `users.token_version` is how accounts, two-factor, impersonation and
privacy reach sessions; `password_reset_tokens` is how invitations and resets
reach accounts; the outbox row is how they reach email. Caches are told of
changes only inside the process that made them.

The hazards of each component are listed at their lines in `PROJECT.json`
("hazards"), with the properties that would catch them.

## 2. Modules

| module | models | uses |
|---|---|---|
| `SessionBook` | abstract: a token is handed out, works, and is ended for good | |
| `Sessions` | sessions: tokens, revocation, version bumps, impersonation; implements `SessionBook` | `Book == INSTANCE SessionBook WITH ...` |
| `Accounts` | one life of a `users` row and its reset tokens | |
| `TwoFactor` | enrolment and the two steps of a login | |
| `OAuth` | signing in with an identity provider: flow, callback, key cache, accounts | |
| `TenantCache` | the tenant cache, its expiry and eviction | |
| `OutboxBook` | abstract: an email is pending, then has one outcome | |
| `EmailOutbox` | the outbox and its runs; implements `OutboxBook` | `Book == INSTANCE OutboxBook WITH ...` |
| `Tenants` | tenants, memberships and tenant schemas, over the transactions of the commands | |
| `Retention` | the retention job, beside those commands | extends `Tenants` |
| `Access` | keys, wildcards, gates, policies, capabilities, catalog: operators without state | |
| `Records` | fields, payloads and serializers, filters, ordering and pages: operators without state | |
| `Rbac` | roles, keys and members of a tenant under overlapping requests | extends `Access` |
| `Crud` | the generic write routes, transaction by transaction | extends `Access`, `Records` |
| `Server` | worker processes: setup, extensions, serving, limiters | |
| `SessionsProofs`, `AccountsProofs`, `TwoFactorProofs`, `OAuthProofs`, `EmailOutboxProofs` | the theorems about the module named | that module, `TLAPS` |
| `TenantsProofs` | the theorems about tenants and the job that visits them | `Retention` (and so `Tenants`), `TLAPS` |
| `WorkerProofs` | the theorems about what a worker process holds | `Server`, `TenantCache`, `TLAPS` |
| `AdminProofs` | the theorems about what tenant staff do | `Crud` (and so `Access`, `Records`), `Rbac`, `TLAPS` |
| `MC...` | constants, symmetry sets and bounds (`Budget` of `MCSessions` and of `MCOAuth`) for TLC; nothing else | the module named |

A definition called `X_Something` beside `X` is `X` with a plausible mistake.
No specification uses it; it documents which property depends on `X`
(`PROJECT.json`, "mutants").

### Common conventions

* A *slot* is a request or command in flight. An operation is split exactly
  where the code awaits a result it later relies on: `...Read` loads rows,
  `...Commit` writes and commits. Reads of the latest committed rows and one
  atomic commit are what READ COMMITTED gives such handlers.
* The ORM writes only columns whose value changed against the loaded copy. So a
  write of a value equal to the loaded one is no write at all (`BumpCommit` in
  `Sessions`, `Merge` in `Accounts`, `AnonymizeCommit` in `TwoFactor`), and a
  counter is written as *loaded + 1*.
* A unique index turns a lost race into an error of the later transaction
  (`InsertConflict`, the guard of `SecondFactorDone`).
* `Rollback` ends any operation at any step: an error, a lost connection, a
  dying worker. State in memory is lost, the tables are not touched.
* Signatures, hashes and token expiry are abstract: a token is a record that
  only the code can mint. That an expired token is refused is a comparison
  with no other actor, and leaving it out only lets tokens live longer.

### Sessions

`token_version`, `active` and `revoked_tokens` are the columns and table;
`issued` is every token handed out. `LoginVerify`/`LoginRespond` are
`BuiltinJWTAuthProvider.login` and the answer of the route. `Present`,
`CheckRevoked`, `LoadUser` are the checks shared by refresh, logout, logout-all
and impersonation, in the order of `get_current_user` and `refresh`.
`RecheckRevoked`, `InsertRevocation`, `InsertConflict` and `RefreshAfterNoop`
are `revoke_token` and what its callers do with it: its second look-up may find
the jti, in which case it returns `False`, which nobody reads. `BumpCommit` is
the four handlers that increment the version; `SetActiveCommit` those that
write `is_active` and do not. The fields `parent` and `ep` of tokens, and the
variable `epoch`, are history.

`SessionBook` has no versions, revocation rows, loaded copies or requests in
flight: tokens are handed out (`LogIn`, `Rotate`, `Impersonate`) and ended
(`Rotate`, `LogOut`, `EndAll`). `Book` maps `ended` to the tokens `Revocation`
finds, by their jti or their version. A pair may be ended when it is handed out,
because the bump came between the read of the row and the answer: all of it or
none (`Ends`). `SessionBook` does not say that a refresh token is exchanged
once: two overlapping refreshes both mint (section 5).

### Accounts

One action of reading and one of committing for each writer of the `users` row,
with `Effect` saying what each does to its loaded copy and `Merge` what reaches
the table. Days stand for timestamps; `clock` is `deactivated_at`. Two
confirmations of one reset token may overlap, and then both succeed, as in the
code: `confirm` reads `used_at` and writes it later. A deleted row (`GoneRow`)
is not created again: its id is a fresh uuid.

### TwoFactor

As `Sessions`, for enrolment and the second step. The transactions of enable
and disable write several rows, so they go statement by statement: `UpdateUser`
(the flush of the user row), `ClearCodes` (`clear_backup_codes`, which deletes
the rows its SELECT finds) and `EnableCommit`, with the new codes, or
`DisableCommit`. An UPDATE or DELETE holds its row until the commit and others
see what is committed: from `UpdateUser` on other writers of the user row wait
(`HoldsRow`, `RowFree`), a backup code being consumed keeps `ClearCodes`
waiting (`Held`), and one deleted and not committed (`cleared`) keeps its
consumer waiting (`Deleted`). All other transactions write one row and are one
step. `spent` (per request: the challenges and codes used before it arrived),
`opened`, `slipped` and `verified` are history. `Bump` stands for any other
bump of the version.

### OAuth

A browser has one state cookie (`cookie`), which names a flow; state, nonce and
verifier of a flow are fresh and secret, so that they are its number. `Start` is
`/login`, `SignIn` somebody at the provider. A callback is a slot. `Arrive`
compares the cookie with the parameter `state`; the parameter `code` comes beside
it and may be of another flow, somebody else's as well. `Exchange` redeems the
code; `NonceMatches` is the last check of `verify_id_token`, against the nonce in
the cookie, and what refuses such a code. (A provider that compares the PKCE
verifier refuses it earlier, which is `Fail`.)

`UseKey`, `Locked`, `Fetch` and `Store` are `JWKSClient.get_key` with its look
before and behind the lock. `Fetch` is the provider answering with the keys it
publishes at that moment (`answer`), `Store` the answer arriving, up to
`MaxFetch` ticks later (`took`): the time to live begins there. `Lookup` and
`Create` are `find_or_create_by_external_identity` with its unique indexes,
`Mint` reads the token version in a session of its own and answers. `Fail` ends a
callback at any step. `Cleared` is what the browser makes of
`clear_state_cookie`: nothing over https, because a `__Host-` cookie is not
touched by a header without `Secure`.

`Provision`, `Switch` and `Delete` are what the rest of the application does to
accounts, `LoadBump` and `SaveBump` the handlers that raise a version, which
read it, add one in memory and write it back; `Rotate` the provider's keys. An
account's `origin` is the subject its first sign-in created it for, or to whom
the operator had linked it. `logins`, `origin`, `since` (how long a key has been
withdrawn), and in a callback `stale`, `was` and `floor`, are history.

### TenantCache

`Hit`, `Miss`, `ReadTenant`, `Store` are `resolve_tenant`; `Gate` the
middleware's answer. An entry carries the ticks it has left; `Aged` drops it
when there are none. `age` is history: whether, and since how many ticks, the
table has moved on from the value; `took` the ticks its fill waited.
`Invalidate` is the last statement of `offboard_tenant`, in the worker that ran
it; `WriteElsewhere` is every write that evicts nothing here.

### EmailOutbox

`EnqueueInRequest`/`CommitRequest`/`RollBackRequest` are a mail queued in the
session of its request, `EnqueueAlone` one with a session of its own. A run
(`Begin`, `Deliver`, `CommitRun`) takes the due rows in order of creation,
delivers them one by one and commits at the end; `Crash` loses its changes but
not its deliveries. Time is the ticks until `scheduled_at`; a backoff counts
from the start of the run, as in the code. `OutboxBook` has none of queue, batch, clock
or crash; `Book` maps a row to its phase, `delivered` to what is gone and
`refused` to the refusals. A row that a run has marked and not committed maps
to *pending* still.

### Tenants

A command is a sequence of transactions, one action each: `CreateTenant` (the
row and the owner's membership), `ProvisionSchema`, `MigrateFramework`,
`MigrateApp`, `SeedRoles`, `LogBootstrap` for `tenant create`; the same without
the first for `tenant bootstrap` and `tenant upgrade` (`Bootstrap`), the two
migrations alone for `db upgrade-tenants` (`Upgrade`); `Export` and `Erase` for
an offboarding. `Fail` ends a command between any two of them, which covers
errors, kills and `--skip-schema`. A schema is the set of migration trees
applied to it, whether its default roles are there, the memberships with the
owner role and its audit rows. That a command raced with an offboarding of its
tenant (`raced`) is history. The schema name follows from the slug, so a tenant
created again after a drop gets a new id and the same schema name.

### Retention

`job` is what a run keeps in memory: the users it anonymised, the tenants it has
yet to visit. `StartRun` is the first transaction of `apply_retention`, with the
options of its two callers (`privacy retention-run`: every tenant, with or
without anonymising; `audit prune`: with or without the tenants);
`AnonymizeExpired`, `ListTenants` and one `SweepTenant` per tenant follow.
`SweepFails` is the error of a schema that has no audit table, which ends the
run for the tenants not yet visited as well. `Anonymize` is the command and the
root route, which reach the public log only. The commands of `Tenants` go on all
the while.

### Access and Records

Operators shared by the modules below. `Access`: `HasPermission` with its two
wildcards, `Grants` (what the builtin provider gives to superadmins and members),
the three ways routes ask (`ResourceAccess`, `RouteGate`, `ActionGate`), what the
shipped policies answer, `Allowed` (what stands between a request and a 403) and,
on its own as in the code, what the contract tells the UI (`Capability`,
`ShownActions`). `Records` does the same for one field: the contract (`InForm`),
the schema that payloads are cleaned against (`Taken`), the serializer
(`Serialized`). Its `Places` are the positions a row may have in a result when
ties come in any order; `PagesOf` the pages it may be on.

### Rbac

A request is resolved (`Send`, with the caller's keys of that moment), reads what
it is about (`Read`) and writes the difference (`UpdatePermissions`, `SetRoles`,
`AddMember`, `SetActive`, `RemoveMember`, `DeleteRole`). Foreign keys and unique
indexes are guards; `Forbid` ends a request anywhere. `SeedRoles` and `Sync` are
the command line. `asked` is history: per member the roles somebody has asked for
in requests handled since the membership began. A membership has a fresh id, so
that links of an earlier one stay with the earlier id.

### Crud

A request goes through `Open` (context and gate), `Load` (what it is about),
`Parent`, then `InlineRow` or `ImportRow` row by row, `RowsDone`, `Audit` and
`Commit`; `Refuse` rolls everything back anywhere. A row carries the request that
made it and the one that deleted it, so that `Sees` is READ COMMITTED and `Free`
the wait for the lock of another transaction; a savepoint taken back leaves
`Void` rows, which nobody sees. A bulk delete skips what is gone, a dry run takes
its rows back and is not audited, an audit row that cannot be written is logged
and swallowed (`missed`, history). Values of columns are left out, but for the
parent and `is_system`.

### Server

`Create` is `create_admin` in one step (nothing is served before it ends). The
process is `SetUp`, which takes it through the code's order: each round of hooks
adds to a registry (`Declared`), the pages that have a permission are copied into
the navigation (`Mirrored`), `register_routes` of the extensions runs, with the
registries still open (`Routed`), the registries are closed (`Frozen`) and the
other routes mounted (`Mounted`). An item of a registry says who registered it
and when: from a hook, from `register_routes`, or when it is too late
(`RegisterLate`, which a closed registry refuses). `Startup`
and `Shutdown` go through the extensions one by one, either of which may fail;
`Kill` ends a process anywhere, and its memory with it. A limiter keeps, per key,
how many failures are how old, in the process or, if the deployment has one, in
Redis (`shared`). `Ask` and `Tell` are the two sides of an awaited password
check; over Redis also those of a tenant's budget. `Spend` is a budget in the
process, where nothing suspends in between. The `<=` of Redis's window and the
`<` of the process differ by a tick, as in the code (`InWindow`).

## 3. Runs

| run | expectation | asks |
|---|---|---|
| `SessionsTokens` | holds | no nested impersonation; a bump kills every earlier token; revocation is local; sessions implement `SessionBook` |
| `AccountsTokens` | holds | type; machine accounts stay without a password, whatever overlaps |
| `AccountsAnonymizedLogin` | violated | is an anonymised account out for good? |
| `TwoFactorParallel` | holds | no session by password alone, one set of codes, nothing used is accepted from a later request; everything overlapping, enrolments statement by statement |
| `OAuthSignIn` | holds | a sign-in ends once, in the browser that started it, whatever state and code are put together; a subject gets into its own account only; one account per identity and address; no token from before a logout-all, bumps one at a time; no withdrawn key beyond the TTL and a fetch |
| `TenantCacheServe` | holds | nothing is served beyond its TTL and the time of its fill; caches converge |
| `EmailOutboxDelivery` | holds | type; no mail of a rolled back request; rows tell what happened; the outbox implements `OutboxBook`; every mail settles |
| `TenantsProvision` | holds | type; what is reported ready is ready; commands repeated or side by side take nothing away |
| `RetentionSweep` | holds | a completed run has redacted, in every schema, the users it anonymised; old rows go in the end |
| `RbacMembers` | holds | a member has only roles asked for since joining; a key taken from a role comes back only by a request that saw it missing |
| `CrudRequests` | holds | contract, form and routes agree; audit rows tell all and the truth; singletons; pages partition a list |
| `ServerWorkers` | holds | what is served is what the hooks and `register_routes` set up; extensions are used while open; limits hold; lockouts end |

Some runs that hold are restricted where the code relies on luck rather than on
a lock: `BumpSlots` (`Sessions`, `OAuth`) says which slots run the handlers that
bump a version, `Runs` how many outbox runs overlap. What happens
when these restrictions are lifted is described in section 5.

**Bounds.** Two slots are what every race found here needs: one handler's read,
another's commit, the first's commit. Two users show locality
(`RevocationIsLocal`) in `Sessions`; elsewhere users do not interact, and one
is used where a run says so. Token identifiers bound the length of histories:
four tokens allow two logins, or a login with an impersonation and an attempt
to nest one; a login and its refreshes alone go on to six, a pair exchanged
twice at once or twice in a row (`Budget` in `MCSessions`; the ids issued are
the first ones, as any fresh id is as good as another). `MaxVersion` 1 bounds
bumps that *start*. `MaxDay` 2 lets a reset token expire before an invite and a
retention period pass. `TTL` 2 tells "fresh", "about to expire" and "expired"
apart, `MaxFill` 1 a fill that takes time from one that does not. `MaxAttempts`
2 reaches a retry and the last attempt; `BackoffCap` 2 a backoff of one tick
and a longer one; three emails over batches of two leave one behind;
`MaxCrashes` 1 is a crash after a delivery. `MaxBatch` 2 (`TwoFactor`) allows
codes of an earlier enrolment, and `BatchSize` 2 tells one code used from all.
In `TenantsProvision`, `MaxId` 4 is two creations with their memberships: two
tenants, or one slug created, dropped and created again. In `RetentionSweep`
one tenant is enough: tenants meet only in the job's `todo`, which is visited
in any order, so what another tenant adds is a run that goes on after this one
(nothing happens to this tenant then) or a run that ends before it is reached,
which is what `Crash` does; `MaxCrashes` 1 is the one between anonymising and
sweeping. In `OAuthSignIn` two flows and two browsers are what a confusion of
flows needs, two subjects one whose address is that of a local account and one
that is new; three accounts allow one deleted and created again; `MaxChanges` 1
is one account switched off, deleted or logged out everywhere while callbacks
go on; `Ttl` 1, `MaxFetch` 1 and two keys allow a rotation within the life of a
cache and one while the answer is under way. Nothing reads both keys and
accounts, so `Budget` of `MCOAuth` goes on only from states in which one of the
two is at rest. In `RbacMembers` two ids are a membership removed and created
again, and one manageable key, that of managing members, gives the one member
of staff something to win. In `CrudRequests` two requests make every pair
overlap; rows, files and selections of two tell "some" from "all" and "none";
the three tables are a singleton, one with an inline and a bulk delete, and one
with the superadmin policy; the four callers are a superadmin in a tenant and
outside, an owner and a clerk. `ServerWorkers` has two extensions, both with
pages, those of one with a permission, and both registering something from
`register_routes`; a failure window of two ticks and two attempts in flight:
the limit itself and one beyond.

**Deadlock** is not checked: the models stop when a bound is reached, and a
server with no request is at rest.

**Fairness.** `CachesConverge` assumes `WF(CacheTick)` and `WF(Progress(s))`: the
clock goes on, and the event loop resumes a task whose query has answered. No
fairness is assumed of arrivals, writes or offboardings beyond their start.
`EveryEmailSettles` assumes `WF(Tick)` and `WF(Progress(r))`: `docs/email.md`
tells operators to run `process_outbox` "from your own cron/loop (e.g. every
minute)", and a run that has begun goes on unless it crashes, which it does at
most `MaxCrashes` times. `OldRowsGo` assumes `WF(JobStep)`, a run that has begun
goes on, and `SF(StartRun(TRUE, TRUE))`: the docstring of `privacy
retention-run` says "Schedule as a periodic job", and strong because between two
full runs cron may also have started others (`audit prune`), during which the
full one cannot start. It also assumes, in its premise, that from some time on
every tenant keeps a schema with its tables: a tenant that never has one ends
every run. `LockoutEnds` assumes only `WF(Tick)`, that time passes: clients may
come or not, attempts may hang and workers be killed.

**Refinement.** `ImplementsBook` says that every behaviour of `EmailOutbox`, for
runs that do not overlap, is one of `OutboxBook` under the mapping `Book`: an
email is accepted once, tried while its outcome is open, and its one outcome is
"sent" only after a delivery and "failed" only after `MaxAttempts` refusals. A
commit of a run settles its whole batch at once; everything about queue, clock
and crash is a stutter. `ImplementsSessionBook` does the same for `Sessions`
under its `Book`, for bumps that do not overlap: the one write of each handler is
the step of the book, and every check and read before it is a stutter.

## 4. Proofs

The `...Proofs` modules prove their theorems for every value of the constants
that satisfies the named assumptions of the components (bounds are numbers, null
values are not rows or ids, owners are users, and the like). The shape is the
same everywhere: a type invariant strengthened by what each handler holds at
each of its steps; an inductive invariant per property on top of it; one lemma
per action or per kind of step; and a temporal step at the end. The null values
need assumptions of their own (`NothingAssumption`): without them a row could be
the absence of one.

Every invariant, action property and refinement of a run that holds is also a
theorem; the four liveness properties are not. `OneRun` and `SerialBumps` are
the hypotheses that the code does not ensure, and a theorem that needs one
names it; all the others hold for whatever overlaps.

### Sessions

* `TypeCorrect`: `Spec => []TypeOK`
* `ImpersonationEndsThere`: `Spec => []NoNestedImpersonation`
* `RevocationTakesOne`: `Spec => RevocationIsLocal`
* `BumpKillsEarlier`: `Spec => []BumpKillsEarlierTokens`, assuming `SerialBumps`
* `ImplementsSessionBookHolds`: `Spec => ImplementsSessionBook`, assuming
  `SerialBumps`

`SerialBumps` says that at most one slot runs the version-bumping handlers. The
code does not ensure it (no row lock); with two such slots TLC violates
both properties (section 5). So the two theorems say precisely what a
`SELECT ... FOR UPDATE`, or an increment in SQL, would buy.

The argument. `TypeOK` alone is not inductive: `row[s].tkv` is read in the
commit of a bump, so one must know that a slot at that step holds a row.
`TypeInv` adds `Control` (which step holds a token, which a row, which handlers
are at which step). `VersionInv` adds four facts about versions:
the column equals the number of committed bumps (`EpochExact`); every token and
every loaded row carries a version equal to its epoch and at most the current
one (`TokenStamped`, `RowStamped`); and a bump in flight has the current version
(`BumpCurrent`). The last is where `SerialBumps` is used: a commit by another
bumping slot would make the loaded version stale. With it versions only grow,
so a token whose version is not the current one has a smaller one, for ever.
For impersonation, `Presented` says what a request has in hand (a refresh has a
refresh token; an impersonation past its check has an access token of a
superadmin) and `Family` that tokens with one jti are one token and that every
parent was issued. With a jti naming one token, revoking it takes that token and
no other.

The refinement adds `Backed`: revocations are of tokens that were issued, a
refresh holds the row of its token's subject and, when it skipped the insert, a
token that is revoked; nobody impersonates himself. Then the jtis of new tokens
are not revoked yet, so that only the version can have ended them, and they all
carry that of one row (`MintEnds`); a logout or rotation adds its own token to
the ended ones (`Family`); and a bump adds all of its user, because none carries
a higher version than the one bumped (`BumpKeepsVersions`, where `SerialBumps`
is used again).

### Accounts

* `TypeCorrect`: `Spec => []TypeOK`
* `MachineStaysPasswordlessHolds`: `Spec => []MachineStaysPasswordless`

That types are kept is not obvious here: a commit merges a stale copy, column
by column, into a row that has moved on (`MergeType`). `Machines` strengthens
`MachineStaysPasswordless`: no reset token refers to a machine account, every
loaded copy agrees with its row on being a machine, such a copy has no
password, and no operation that gives one away has loaded it.

### TwoFactor

* `TypeCorrect`: `Spec => []TypeInv`
* `PasswordAloneNeverEnoughHolds`: `Spec => []PasswordAloneNeverEnough`
* `OneCodeSetHolds`: `Spec => []OneCodeSet`
* `NoReuseHolds`: `Spec => []NoReuse`

All without a restriction on what overlaps. `Required`: a request whose user
has had 2FA on since it began still finds it on, since whoever switches it off
clears the flag of every such request; the login reads the row again after the
password check, and that is the read that matters. `OneCodeSet` is inductive
with `OneWriter`: one request at most holds a user's row, and from its DELETE
to its commit the codes it has deleted are all that user has, so that the new
ones replace every other. `Spent`: what opened a session is revoked or marked
used, and stays so; what had been used when a request began is part of that; so
the look-ups, which come later, refuse it.

### OAuth

* `TypeCorrect`: `Spec => []TypeInv`
* `KeyWasPublishedHolds`, `BoundToBrowserHolds`, `NeverByEmailHolds`,
  `OneAccountHolds`, `VersionIsCurrentHolds`: `Spec => []P` for the property named

`VersionIsCurrentHolds` assumes `SerialBumps` (of `OAuth`), the others nothing.

`TypeInv` adds that who signed in has a code, what a callback holds at each step,
who holds the lock, and that logins refer to flows and accounts that exist. On it
rest five invariants. `Fresh`: a key in an answer under way has been gone for at
most as long as the answer has, and a cached key for at most `MaxFetch` more than
the cache is old. `Bound`: cookies and callbacks agree with the browser of their
flow; from the look-up on the code is that of the flow, because of the nonce; and
of the callbacks and logins beyond the exchange at most one has a given code,
because it is spent. This is what makes the surviving cookie harmless. `Linked`:
links and accounts agree in both directions, and no two accounts have one
address, by the unique indexes. `Owned`: the account in a callback's hand has the
subject that signed in as its origin. `Current`: the account linked on arrival
has no smaller version by now; it needs `Unmoved`, that a bump in flight has the
current version, which `SerialBumps` gives.

### TenantCache

* `CacheTypeCorrect`: `CacheSpec => []CacheTypeOK`
* `StalenessIsBounded`: `CacheSpec => []BoundedStaleness`

`ReadIsRecent`: the table has been ahead of what a fill has read for at most as
long as the fill has waited; `EntryIsRecent`: the ticks an entry has been behind
and those it has left are together at most the TTL and the time of its fill.
Every tick moves one from the latter to the former.

### Tenants

* `TypeCorrect`: `Spec => []TypeOK`, which includes the foreign key: a
  membership refers to a tenant that exists
* `RerunningIsSafe`: `Spec => RerunIsSafe`
* `ReadyIsReady`: `Spec => []ReadyMeansReady`
* `ReadyBesideTheJob`: `RetentionSpec => []ReadyMeansReady`

`TypeInv` adds to `TypeOK` which command is at which step (`Control`) and that no
two tenants share an id (`DistinctIds`): without the latter, offboarding one
tenant could delete another's memberships. `OnlyErasingTakesAway` then says that
every step but the erasing one of an offboarding leaves each schema at least as
large (`Grows`), each tenant row with its id, and every membership;
`RerunningIsSafe` follows. `ReadyMeansReady` speaks of the last step only, so it
is strengthened to `WorkStands`: at *every* step of a create or bootstrap that no
offboarding overtook, its row, what its earlier transactions made of the schema,
and the membership of its owner are there. A step by another command keeps that
(`BystandersKeepTheirWork`), the command's own steps advance it
(`CreateStartsItsWork`, `EachStepAdvances`), and erasing one tenant spares the
commands on the others (`ErasingSparesOtherTenants`). `raced` excuses only the
commands on the tenant erased; the theorem needs no serialisation of commands.
Beside the retention job the same holds, because a step of the job is either
none of `Tenants` or one that changes nothing but audit rows (`StepKinds`).

### Retention

* `RetentionTypeCorrect`: `RetentionSpec => []RetentionTypeOK`, which includes
  that whom a run counts as anonymised is
* `CompletedRunsRedact`: `RetentionSpec => []CompletedRunRedacts`

`VisitedForget` is what a run has achieved half-way: no schema but those it has
still to visit names a user it has anonymised. Such a user is not active, so no
request leaves a new row. A tenant that is created after the tenants were listed
is never visited, and this is the delicate case, because its schema may be older
than its row: a command that was still at work when the tenant was dropped may
create the schema again, and the next tenant of that slug takes it over.
`OrphansAreEmpty` says that such a schema has an empty log. It is inductive
because a log is only written in a tenant that has its row (`CommandsSpareAudit`:
no command writes there), and a row only goes together with its schema.

### EmailOutbox

* `TypeCorrect`: `Spec => []TypeOK`
* `OnlyCommittedLeaveHolds`: `Spec => []OnlyCommittedLeave`
* `LedgerIsHonestHolds`: `Spec => []LedgerIsHonest`, assuming `OneRun`
* `ImplementsBookHolds`: `Spec => ImplementsBook`, assuming `OneRun`

The first two hold for any number of overlapping runs: rows exist only of
committed requests, and runs deliver what they have read. For the other two,
`Recorded` is about the table (a row says no more than what happened, and what
happened beyond it is at most one delivery or refusal per crash) and `Working`
about the session of a run (its copies are of rows that are still pending, and
what a crash would lose is one delivery or refusal of each email). `OneRun` keeps
the copies current; `process_outbox` takes no lock that would. The refinement
maps initial states to initial states and each step to one of the book or a
stutter, by the same invariants.

### Rbac

* `RolesTypeCorrect`: `RbacSpec => []RbacTypeOK`
* `RevocationIsNotUndone`: `RbacSpec => RevocationNotUndone`
* `OnlyRolesSinceJoiningHolds`: `RbacSpec => []OnlyRolesSinceJoining`

For any number of overlapping requests. The last needs that ids are never
reused (`KnownIds`: none is from the future, `DistinctIds`: none is of two
members) and `AskedFor`: what a request is about to link was asked for, if the
membership it read is still somebody's.

### Crud

* `RecordsTypeCorrect`: `Spec => []TypeOK`
* `AuditRowsAreTrue`: `Spec => []AuditTellsTruth`
* `WritesAreAudited`: `Spec => AuditTellsAll`
* `SecondRowWasRaced`: `Spec => []OneRowUnlessRaced`

One invariant, `CrudInv`, carries all four. What a step may do to the rows is
said once (`RowsMove`: rows are added, deleted or taken back, and all under the
number of one open request), and the lemmas about it are what other requests need
(`SameMakers`, `NoNewTraces`, `StillNoneBefore`); each action is shown to be such
a move. `Numbered`: requests in flight have different numbers that have not been
committed, and rows carry numbers that have been given. `Counted`: what a handler
holds as its number of rows is the cardinality of the rows it has made, through
every savepoint that is taken back, and of a dry run that is over nothing is
left. `InPlace` says which requests come to a commit without an audit row: dry
runs, and those whose audit row could not be written, which are in `missed`.
The audit row is written from the number a handler holds in memory, so it tells
the truth by `Counted`, and goes on to: no later request changes who made a row.

A singleton is looked at once, in `Load`, and its row inserted later. `Looked`
says of a create that has looked that of the rows of requests committed before
it opened none is left, and `MadeAfterLooking` the same of every row that has
been made. Of two rows that creates have made and that are there, then, neither
maker had committed when the other's request opened: that is the race that
`OneRowUnlessRaced` allows, and the only one. Rows that an import makes are
outside it: imports do not look.

### Access and Records

* `ContractAndRoutesAgree`: `Spec => []ContractInStep`
* `PagesMeetEveryRowOnce`: `Spec => []PagesPartition`

The first is about the operators: `ControlsAllowed` goes through the policies,
`FieldFacts` and `FormIs` through what is asked of one field. For the second, an
order that ends with the primary key is total (`ListOrderTotal`: of two rows one
is strictly first by the first clause in which they differ, and ids differ), so
the number of rows before a row is fixed whatever the database does with equal
values (`OnePage`), and the page is a quotient of it.

### Server

* `ServerTypeCorrect`: `Spec => []TypeOK`
* `ServesTheSetUp`: `Spec => []ServesWhatWasSetUp`
* `ExtensionsUsedWhileOpen`: `Spec => []UsedWhileOpen`
* `BudgetsAreKept`: `Spec => []WithinBudget`

`SetUpBuilds` follows the registries through the rounds of hooks, the mirroring
and `register_routes` up to their closing; `Kept`: a process that is not down has
exactly what that gives, since nothing gets in any more. `InOrder`: the
extensions that are open are the first ones, as many as were started; startup
appends, shutdown takes the last, whichever of them fail. `Attempts`: an attempt
in flight is on a process that serves, and over Redis if it is for a budget.
`WithinBudget` is then inductive by itself. A count is the cardinality of the
failures young enough, and the proof uses of it that recording one adds at most
one (`RecordedCount`) and a tick none. An attempt that is let in finds fewer
failures than the limit, and with all slots taken there are at most
`Cardinality(Slots)` in flight; one that fails leaves the set of those in flight
as it joins the count.

### What is left to TLC

Liveness (`CachesConverge`, `EveryEmailSettles`, `OldRowsGo`, `LockoutEnds`) is
out of the prover's reach: it takes fairness, and with it `ENABLED`. The violation
is a single execution. `MaxNumKept` of `Crud`, `CompletedRunForgets` of
`Retention` and `EnabledSecretVerified` of `TwoFactor` do not hold (section 5).

## 5. Where the code and its documentation part

One run is violated, `AccountsAnonymizedLogin`: reset links outlive the
account. Anonymising a user leaves its open reset tokens, and confirming one
activates whatever row it finds and gives it a password, although
`privacy/anonymizer.py:54` says of the tombstone that "login can never
succeed". The row's address is then still the tombstone, which ends in
`.invalid` and which the `EmailStr` of `/auth/login` refuses: what lets the
account in is an address edited afterwards, or another way of signing in that
asks for an active row.

The rest was seen while modelling. Where a module shows it, the way to see it is
named: lift a restriction of its `.cfg`, or check a definition no listed run
checks.

### Sessions, accounts, two-factor

* *Lost bumps.* `token_version` is incremented in memory. Two bumps that overlap
  write the same value, and a login answered in between survives the later one;
  one that is slow enough writes a version *lower* than the current one
  (`Sessions` with two `BumpSlots`: `BumpKillsEarlierTokens`,
  `ImplementsSessionBook`; `OAuth` with two: `VersionIsCurrent`). A lower version
  brings tokens back that had been ended.
* Two overlapping refreshes exchange one token for two pairs; the second look-up
  of `revoke_token` returns `False`, which `refresh` ignores (`Sessions`). In the
  same way one challenge, or one backup code, presented twice at the same time
  opens two sessions (`TwoFactor`; `NoReuse` is about requests that arrive later).
* A setup committed during an enable replaces the secret that was verified: 2FA
  is on with one nobody has proved to hold (`TwoFactor`, `EnabledSecretVerified`).
* Switching an account off and on in the user form bumps no version, so its old
  tokens come back (`Sessions`, `SetActiveCommit`).
* Two overlapping confirmations of one reset token both set a password
  (`Accounts`); a reset requested before
  `user disable` and confirmed after it re-activates the account.
* Only `user disable` and `user enable` maintain `deactivated_at`, so after the
  form, create-superadmin or a reset an active account may carry one, and
  retention may come early; and the job does not look again at its candidates,
  so an account re-enabled meanwhile is anonymised all the same (`Accounts`).
* OAuth: `clear_state_cookie` sends its `Set-Cookie` without `Secure` for a
  `__Host-` cookie, which browsers refuse, so over https the cookie stays until
  it expires (`OAuth` therefore lets it stay; the spent code is what protects).
  Overlapping first logins of one address end in an `IntegrityError` that is not
  caught, without clearing the cookie. A browser has one cookie, so of two
  sign-ins begun in it only the later can finish. The "zero extra HTTP fetches"
  of the key cache do not hold for a key that stays unknown, and a withdrawn key
  is accepted until the time to live has passed since the answer that had it
  arrived (`KeyWasPublished`).
* The shared limiter's "exactly max requests pass per window"
  (`core/tenant_rate_limit.py:15`) is for requests that do not overlap: the
  question and the count are two awaits. The in-process limiter starts anew with
  its worker, and N workers allow N times the limit. `WithinBudget` (`Server`)
  counts the attempts in flight and the restarts in.

### Tenants, mail, retention

* A fill that read before an offboarding committed stores after its eviction
  (`TenantCache`), so "immediately, not after the TTL"
  (`tenancy/offboarding.py:279`) is really the bound of `BoundedStaleness`.
* Overlapping outbox runs handle the same rows, deliver twice, and one may turn
  the other's "sent" into "failed" (`EmailOutbox` with two `Runs`:
  `LedgerIsHonest`, `ImplementsBook`).
* `tenant enable` re-activates an archived tenant whose schema is gone
  (`Tenants`, `SetActive`); `tenant bootstrap` after a `tenant create` that
  failed half-way does not give the owner the owner role, repeating the create
  does; rows written between the export of an offboarding and its erasing
  transaction are in neither the bundle nor the database.
* A retention run redacts, in the tenant logs, the users it has anonymised
  itself. Those anonymised by the command, by the root route, or by a run that
  died before its sweep carry the tombstone email by which the selection skips
  them (`Retention`, `CompletedRunForgets`).

### Records

* A policy is asked field by field by the contract, the schemas and the
  serializer of the CRUD routes, but the export (`import_export/router.py:198`)
  and inline children are serialized without it, so a HIDDEN field is in them,
  where `admin/policy.py:42` has it "omitted everywhere". Likewise an import
  builds its schema without the policy and does not go through
  `prepare_write_payload`, the "single entry point every CRUD write path uses".
* The contract asks `field_permission` without a record (`admin/policy.py:175`), so
  `FieldsInStep` is about policies that do not look at the record; a list
  decides what is HIDDEN by its first row only.
* The bulk delete takes `is_system` rows too, although the guard of the single
  delete calls itself a "hard invariant"; bulk delete and import also pass by the
  singleton rule and the policy.
* A singleton table is single unless two creations overlap
  (`OneRowUnlessRaced`). An inline's `max_num`, a "hard cap on rows per parent"
  (`admin/inline.py:36`), counts the rows of the payload only (`Crud`,
  `MaxNumKept`), and a child is fetched by its key without its parent.
* An inline with `fields = []` takes all columns but the foreign key, the
  docstring says "all writable non-protected columns".
* Only an ordering that was asked for, or none at all, gets the primary key as
  its last criterion. An admin's own `ordering` does not (the audit log's
  "-created_at"), so its pages may repeat or skip rows of one instant;
  `PagesPartition` is about the former.
* The contract shows the actions of a platform table under the platform's
  permission names, the action routes check those of the admin's namespace.

### Setting up

* The registry of protected fields belongs to the process and is frozen by the
  first `create_admin`: a second application in the process that registers one
  gets `RegistryFrozenError` (`Server` has one application to a process).
* `ui/admin_pages.py:14` says that an entry of the sidebar is created for every
  registered page that declares a permission, and line 81 lets pages be
  registered "during register_routes() (or earlier)". `extensions/lifecycle.py`
  mirrors the pages (line 83) before it calls `register_routes` (line 100), so a
  page of the latter is registered and has no entry; `ServesWhatWasSetUp`
  (`Server`) says so.
* `extensions/import_export/__init__.py:35` lists the dry run as not available;
  the router has it.

## 6. Plan

Done: the modules of section 2, with proofs of every property that the runs
check, liveness apart.

Left, most important first:

1. Provisioning as one step, an abstract specification implemented by `Tenants`.
2. `ConnectionPool`: a login holds one connection while its audit row waits for a
   second (hold and wait, ended by the pool's timeout), with the isolated audit
   writes and their `search_path` assertion.
3. Saved filters and the pruning of `revoked_tokens`.

## 7. Not modelled

* *Pure functions* of configuration or payload: layout, labels, widgets and
  choices of the contract, value conversion, sanitising, the redaction of
  values, translations, templates, password rules. Nothing in them depends on an
  order of events. What of the contract, the registry, the schemas and the
  protected fields decides who may see or write what is in `Access` and
  `Records`.
* *External*: files and object storage, SMTP, Alembic, the identity provider
  beyond its keys and codes. Hashing and signing are perfect.
* *Operators' tools that only print or write files*: scaffolding, checks, listings,
  the contents of export bundles.
* *The database* is PostgreSQL at READ COMMITTED with unique indexes;
  serialization failures and deadlocks of the database itself end a transaction
  as `Rollback` does. Exhaustion of the connection pool, the isolated audit writes
  and the pruning of `revoked_tokens` are in the plan.
