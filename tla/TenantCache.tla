---------------------------- MODULE TenantCache ----------------------------
(***************************************************************************)
(* The per-process cache of resolved tenants: lookups, fills that read the *)
(* tenants table and store the answer later, expiry, invalidation by an    *)
(* offboarding in the same process, and the gate of the tenant middleware. *)
(*                                                                         *)
(* A value read from the table carries how long ago the table moved on     *)
(* ("behind"), counted in ticks up to Cap; it is history, and time is      *)
(* nothing else.                                                           *)
(*                                                                         *)
(* A definition named X_Something is a faulty variant of X, there to show  *)
(* that a property depends on X; no specification uses it.                 *)
(***************************************************************************)
EXTENDS Naturals

CONSTANTS
    Processes,   \* server processes
    CacheSlots,  \* requests in flight, over all workers
    Slugs,
    TTL,         \* tenant_cache_ttl_seconds, in ticks
    MaxFill,     \* bound: ticks between a fill's read and its store
    MaxChanges,  \* bound: writes to the tenants table
    NoEntry, NoWorker, NoSlug, NoRead

VARIABLES
    tenants,     \* the tenants table, as far as the gate reads it
    cache,       \* _tenant_cache of each worker
    pc,          \* per slot: the next step
    worker, slug,\* per slot: where it runs and the tenant it names
    read,        \* per slot: what its fill has read
    changes      \* history: writes to the tenants table so far

slotVars == <<pc, worker, slug, read>>
cacheVars == <<tenants, cache, pc, worker, slug, read, changes>>

Cap == TTL + MaxFill + 1

States == {"absent", "active", "disabled"}

Current == [behind |-> FALSE, ticks |-> 0]
Behind == {a \in [behind: BOOLEAN, ticks: 0..Cap] : ~a.behind => a = Current}

(* What a fill has read, and an entry: "took" is the ticks the fill waited. *)
Reading == [value: States, age: Behind, took: 0..MaxFill]
Entry == [value: States, age: Behind, took: 0..MaxFill, left: 1..TTL]

ASSUME TenantCacheAssumption ==
    /\ TTL \in Nat /\ MaxFill \in Nat /\ MaxChanges \in Nat
    /\ NoWorker \notin Processes /\ NoSlug \notin Slugs
    /\ NoRead \notin Reading /\ NoEntry \notin Entry

Pcs == {"idle", "read", "store", "admitted", "refused", "offboard", "invalidate"}

CacheTypeOK ==
    /\ tenants \in [Slugs -> States]
    /\ cache \in [Processes -> [Slugs -> Entry \cup {NoEntry}]]
    /\ pc \in [CacheSlots -> Pcs]
    /\ worker \in [CacheSlots -> Processes \cup {NoWorker}]
    /\ slug \in [CacheSlots -> Slugs \cup {NoSlug}]
    /\ read \in [CacheSlots -> Reading \cup {NoRead}]
    /\ changes \in 0..MaxChanges

CacheInit ==
    /\ tenants \in [Slugs -> States]
    /\ cache = [w \in Processes |-> [g \in Slugs |-> NoEntry]]
    /\ pc = [s \in CacheSlots |-> "idle"]
    /\ worker = [s \in CacheSlots |-> NoWorker]
    /\ slug = [s \in CacheSlots |-> NoSlug]
    /\ read = [s \in CacheSlots |-> NoRead]
    /\ changes = 0

-----------------------------------------------------------------------------
(* resolve_tenant and the gate of the middleware: an active tenant's       *)
(* request goes on (up to the CIDR check), any other is refused.           *)

Gate(s, value) ==
    pc' = [pc EXCEPT ![s] = IF value = "active" THEN "admitted" ELSE "refused"]

Arrive(s, w, g) ==
    /\ pc[s] = "idle"
    /\ worker' = [worker EXCEPT ![s] = w]
    /\ slug' = [slug EXCEPT ![s] = g]

Hit(s, w, g) ==
    /\ cache[w][g] # NoEntry
    /\ Arrive(s, w, g)
    /\ Gate(s, cache[w][g].value)
    /\ UNCHANGED <<tenants, cache, read, changes>>

Miss(s, w, g) ==
    /\ cache[w][g] = NoEntry
    /\ Arrive(s, w, g)
    /\ pc' = [pc EXCEPT ![s] = "read"]
    /\ UNCHANGED <<tenants, cache, read, changes>>

ReadTenant(s) ==
    /\ pc[s] = "read"
    /\ pc' = [pc EXCEPT ![s] = "store"]
    /\ read' = [read EXCEPT ![s] = [value |-> tenants[slug[s]], age |-> Current, took |-> 0]]
    /\ UNCHANGED <<tenants, cache, worker, slug, changes>>

(* _mem_set: a TTL of 0 caches nothing. *)
NewEntry(r) ==
    IF TTL = 0 THEN NoEntry
    ELSE [value |-> r.value, age |-> r.age, took |-> r.took, left |-> TTL]

Store(s) ==
    /\ pc[s] = "store"
    /\ cache' = [cache EXCEPT ![worker[s]][slug[s]] = NewEntry(read[s])]
    /\ Gate(s, read[s].value)
    /\ read' = [read EXCEPT ![s] = NoRead]
    /\ UNCHANGED <<tenants, worker, slug, changes>>

Leave(s) ==
    /\ pc' = [pc EXCEPT ![s] = "idle"]
    /\ worker' = [worker EXCEPT ![s] = NoWorker]
    /\ slug' = [slug EXCEPT ![s] = NoSlug]

Done(s) ==
    /\ pc[s] \in {"admitted", "refused"}
    /\ Leave(s)
    /\ UNCHANGED <<tenants, cache, read, changes>>

-----------------------------------------------------------------------------
(* Writes to the tenants table, and the clock *)

Outdated(age) == [behind |-> TRUE, ticks |-> IF age.behind THEN age.ticks ELSE 0]

OutdatedEntry(e) == IF e = NoEntry THEN e ELSE [e EXCEPT !.age = Outdated(@)]

Write(g, value) ==
    /\ changes < MaxChanges
    /\ tenants[g] # value
    /\ tenants' = [tenants EXCEPT ![g] = value]
    /\ changes' = changes + 1
    /\ cache' = [w \in Processes |-> [cache[w] EXCEPT ![g] = OutdatedEntry(@)]]
    /\ read' = [s \in CacheSlots |->
          IF slug[s] = g /\ read[s] # NoRead
          THEN [read[s] EXCEPT !.age = Outdated(@)] ELSE read[s]]

(* By another process or without invalidate_tenant: provisioning and the   *)
(* CLI, or the tenant form of the admin.                                   *)
WriteElsewhere(g, value) ==
    /\ Write(g, value)
    /\ \/ tenants[g] = "absent" /\ value = "active"
       \/ tenants[g] # "absent"
    /\ UNCHANGED <<pc, worker, slug>>

(* DELETE /root/tenants/{slug}: commit, then evict. *)
OffboardStart(s, w, g) ==
    /\ tenants[g] # "absent"
    /\ Arrive(s, w, g)
    /\ pc' = [pc EXCEPT ![s] = "offboard"]
    /\ UNCHANGED <<tenants, cache, read, changes>>

OffboardCommit(s) ==
    /\ pc[s] = "offboard"
    /\ \E value \in {"absent", "disabled"} : Write(slug[s], value)
    /\ pc' = [pc EXCEPT ![s] = "invalidate"]
    /\ UNCHANGED <<worker, slug>>

Evicted(c, g) == [c EXCEPT ![g] = NoEntry]

Invalidate(s) ==
    /\ pc[s] = "invalidate"
    /\ cache' = [cache EXCEPT ![worker[s]] = Evicted(@, slug[s])]
    /\ Leave(s)
    /\ UNCHANGED <<tenants, read, changes>>

(* The offboarding is refused or fails before it commits. *)
OffboardFails(s) ==
    /\ pc[s] = "offboard"
    /\ Leave(s)
    /\ UNCHANGED <<tenants, cache, read, changes>>

Older(age) ==
    IF age.behind /\ age.ticks < Cap THEN [age EXCEPT !.ticks = @ + 1] ELSE age

Aged_Restarted(e) ==
    IF e = NoEntry THEN NoEntry ELSE [e EXCEPT !.age = Older(@)]

(* An entry one tick later: _mem_get drops it when its time is up. *)
Aged(e) ==
    IF e = NoEntry \/ e.left = 1 THEN NoEntry
    ELSE [e EXCEPT !.left = @ - 1, !.age = Older(@)]

CacheTick ==
    /\ \A s \in CacheSlots : read[s] # NoRead => read[s].took < MaxFill
    /\ cache' = [w \in Processes |-> [g \in Slugs |-> Aged(cache[w][g])]]
    /\ read' = [s \in CacheSlots |->
          IF read[s] = NoRead THEN NoRead
          ELSE [read[s] EXCEPT !.age = Older(@), !.took = @ + 1]]
    /\ UNCHANGED <<tenants, pc, worker, slug, changes>>

-----------------------------------------------------------------------------

Progress(s) == ReadTenant(s) \/ Store(s) \/ Done(s) \/ Invalidate(s)

CacheNext ==
    \/ \E s \in CacheSlots :
          \/ \E w \in Processes, g \in Slugs :
                Hit(s, w, g) \/ Miss(s, w, g) \/ OffboardStart(s, w, g)
          \/ Progress(s)
          \/ OffboardCommit(s)
          \/ OffboardFails(s)
    \/ \E g \in Slugs, v \in States : WriteElsewhere(g, v)
    \/ CacheTick

CacheSpec == CacheInit /\ [][CacheNext]_cacheVars

(* Tasks that can run do run, and the clock goes on. *)
FairSpec ==
    /\ CacheSpec
    /\ WF_cacheVars(CacheTick)
    /\ \A s \in CacheSlots : WF_cacheVars(Progress(s))

-----------------------------------------------------------------------------
(* Properties *)

(* tenant_cache_ttl_seconds "bounds how long a deactivation or CIDR change  *)
(* can be served stale by a given worker": what a worker would answer from  *)
(* its cache was in the table less than TTL ticks, and the time its fill    *)
(* took, ago.                                                               *)
BoundedStaleness ==
    \A w \in Processes, g \in Slugs :
        LET e == cache[w][g]
        IN  e # NoEntry /\ e.age.behind => e.age.ticks < TTL + e.took

(* Once the table is left alone, every worker comes to answer what it says. *)
CachesConverge ==
    <>[][UNCHANGED tenants]_cacheVars =>
        <>[](\A w \in Processes, g \in Slugs :
                cache[w][g] # NoEntry => cache[w][g].value = tenants[g])
=============================================================================
