---------------------------- MODULE WorkerProofs ----------------------------
(***************************************************************************)
(* Proofs about what a worker process holds: its registries, its           *)
(* extensions and its rate limiters (Server), and its cache of resolved    *)
(* tenants (TenantCache).  For any workers, extensions, keys, slots and    *)
(* limits, and for any time to live of the cache and any time that a fill  *)
(* may take.                                                               *)
(***************************************************************************)
EXTENDS Server, TenantCache, Integers, FiniteSetTheorems, TLAPS

(* A fill has seen the table go on for at most as long as it has waited,   *)
(* and an entry for at most that and the time it has been there.           *)
ReadIsRecent ==
    \A s \in CacheSlots : read[s] # NoRead /\ read[s].age.behind =>
        read[s].age.ticks <= read[s].took

EntryIsRecent ==
    \A w \in Processes, g \in Slugs :
        LET e == cache[w][g]
        IN  e # NoEntry /\ e.age.behind => e.age.ticks + e.left <= e.took + TTL

(* A request has what it is about to use. *)
InHand ==
    \A s \in CacheSlots :
        /\ pc[s] \in {"read", "store", "offboard", "invalidate"} =>
              worker[s] \in Processes /\ slug[s] \in Slugs
        /\ pc[s] = "store" => read[s] \in Reading /\ read[s] # NoRead

CacheInv == CacheTypeOK /\ ReadIsRecent /\ EntryIsRecent /\ InHand

-----------------------------------------------------------------------------
(* Ages *)

LEMMA CurrentAge ==
    ASSUME TenantCacheAssumption PROVE Current \in Behind /\ Current.behind = FALSE
<1>1. 0 \in 0..Cap
  BY DEF Cap, TenantCacheAssumption
<1> QED
  BY <1>1 DEF Current, Behind

LEMMA AgeType ==
    ASSUME TenantCacheAssumption, NEW a \in Behind
    PROVE  a.behind \in BOOLEAN /\ a.ticks \in 0..Cap /\ a.ticks \in Nat /\ Cap \in Nat
BY DEF Behind, Cap, TenantCacheAssumption

LEMMA OlderAge ==
    ASSUME TenantCacheAssumption, NEW a \in Behind
    PROVE  /\ Older(a) \in Behind /\ (Older(a).behind => a.behind)
           /\ a.behind => Older(a).ticks <= a.ticks + 1
<1>1. a.ticks \in Nat /\ Cap \in Nat
  BY AgeType
<1>2. CASE a.behind /\ a.ticks < Cap
  <2>1. Older(a) = [a EXCEPT !.ticks = a.ticks + 1]
    BY <1>2 DEF Older
  <2>2. a.ticks + 1 \in 0..Cap
    BY <1>1, <1>2
  <2>3. Older(a) \in [behind : BOOLEAN, ticks : 0..Cap]
    BY <2>1, <2>2 DEF Behind
  <2>4. Older(a).behind /\ Older(a).ticks = a.ticks + 1
    BY <1>2, <2>1 DEF Behind
  <2> QED
    BY <1>1, <1>2, <2>3, <2>4 DEF Behind
<1>3. CASE ~(a.behind /\ a.ticks < Cap)
  BY <1>1, <1>3 DEF Older
<1> QED
  BY <1>2, <1>3

LEMMA OutdatedAge ==
    ASSUME TenantCacheAssumption, NEW a \in Behind
    PROVE  /\ Outdated(a) \in Behind /\ Outdated(a).behind
           /\ Outdated(a).ticks = 0 \/ (a.behind /\ Outdated(a).ticks = a.ticks)
<1>1. 0 \in 0..Cap
  BY DEF Cap, TenantCacheAssumption
<1>2. (IF a.behind THEN a.ticks ELSE 0) \in 0..Cap
  BY <1>1, AgeType
<1> QED
  BY <1>2 DEF Outdated, Behind

LEMMA AgedEntry ==
    ASSUME TenantCacheAssumption, NEW e \in Entry \cup {NoEntry}, e # NoEntry /\ e.age.behind => e.age.ticks + e.left <= e.took + TTL,
           NEW n, n = Aged(e)
    PROVE  /\ n \in Entry \cup {NoEntry}
           /\ n # NoEntry /\ n.age.behind => n.age.ticks + n.left <= n.took + TTL
<1>1. CASE e = NoEntry \/ e.left = 1
  BY <1>1 DEF Aged
<1>2. CASE e # NoEntry /\ e.left # 1
  <2>1. e \in Entry /\ e.left \in 1..TTL /\ e.age \in Behind /\ TTL \in Nat /\ e.took \in Nat
    BY <1>2 DEF Entry, TenantCacheAssumption
  <2>2. n = [e EXCEPT !.left = e.left - 1, !.age = Older(e.age)]
    BY <1>2 DEF Aged
  <2>3. e.left - 1 \in 1..TTL /\ Older(e.age) \in Behind
    BY <1>2, <2>1, OlderAge
  <2>4. n \in Entry /\ n.left = e.left - 1 /\ n.age = Older(e.age) /\ n.took = e.took
    BY <2>1, <2>2, <2>3 DEF Entry
  <2>5. n.age.behind => e.age.behind /\ n.age.ticks <= e.age.ticks + 1 /\ n.age.ticks \in Int
                        /\ e.age.ticks \in Int
    BY <2>1, <2>3, <2>4, OlderAge, AgeType
  <2> QED
    BY <1>2, <2>1, <2>4, <2>5
<1> QED
  BY <1>1, <1>2

-----------------------------------------------------------------------------
(* Every step keeps the invariant *)

LEMMA CacheInvInit ==
    ASSUME TenantCacheAssumption PROVE CacheInit => CacheInv
<1> SUFFICES ASSUME CacheInit PROVE CacheInv
  OBVIOUS
<1>1. CacheTypeOK
  BY DEF CacheInit, CacheTypeOK, Pcs, TenantCacheAssumption
<1> QED
  BY <1>1 DEF CacheInit, CacheInv, ReadIsRecent, EntryIsRecent, InHand

(* What leaves the cache and the readings alone. *)
LEMMA ArriveKeepsCache ==
    ASSUME TenantCacheAssumption, CacheInv, NEW s \in CacheSlots, NEW w \in Processes, NEW g \in Slugs,
           Hit(s, w, g) \/ Miss(s, w, g) \/ OffboardStart(s, w, g)
    PROVE  CacheInv'
<1>1. UNCHANGED <<tenants, cache, read, changes>> /\ Arrive(s, w, g)
  BY DEF Hit, Miss, OffboardStart
<1>2. \E p \in {"admitted", "refused", "read", "offboard"} : pc' = [pc EXCEPT ![s] = p]
  BY DEF Hit, Miss, OffboardStart, Gate
<1>3. CacheTypeOK'
  BY <1>1, <1>2 DEF CacheInv, CacheTypeOK, Arrive, Pcs
<1>4. InHand'
  BY <1>1, <1>2 DEF CacheInv, CacheTypeOK, InHand, Arrive
<1> QED
  BY <1>1, <1>3, <1>4 DEF CacheInv, ReadIsRecent, EntryIsRecent

LEMMA LeaveKeepsCache ==
    ASSUME TenantCacheAssumption, CacheInv, NEW s \in CacheSlots, Done(s) \/ OffboardFails(s) PROVE CacheInv'
<1>1. UNCHANGED <<tenants, cache, read, changes>> /\ Leave(s)
  BY DEF Done, OffboardFails
<1>2. CacheTypeOK'
  BY <1>1 DEF CacheInv, CacheTypeOK, Leave, Pcs
<1>3. InHand'
  BY <1>1 DEF CacheInv, CacheTypeOK, InHand, Leave
<1> QED
  BY <1>1, <1>2, <1>3 DEF CacheInv, ReadIsRecent, EntryIsRecent

LEMMA ReadKeepsCache ==
    ASSUME TenantCacheAssumption, CacheInv, NEW s \in CacheSlots, ReadTenant(s) PROVE CacheInv'
<1> DEFINE r == [value |-> tenants[slug[s]], age |-> Current, took |-> 0]
<1>1. slug[s] \in Slugs /\ tenants[slug[s]] \in States
  BY DEF ReadTenant, CacheInv, InHand, CacheTypeOK
<1>2. r \in Reading /\ ~r.age.behind /\ r # NoRead
  <2>1. 0 \in 0..MaxFill
    BY DEF TenantCacheAssumption
  <2>2. r \in Reading /\ ~r.age.behind
    BY <1>1, <2>1, CurrentAge DEF Reading
  <2> QED
    BY <2>2 DEF TenantCacheAssumption
<1>3. read' = [read EXCEPT ![s] = r] /\ pc' = [pc EXCEPT ![s] = "store"]
      /\ UNCHANGED <<tenants, cache, worker, slug, changes>> /\ pc[s] = "read"
  BY DEF ReadTenant
<1> HIDE DEF r
<1>4. CacheTypeOK'
  BY <1>2, <1>3 DEF CacheInv, CacheTypeOK, Pcs
<1>5. InHand'
  BY <1>2, <1>3 DEF CacheInv, CacheTypeOK, InHand
<1>6. ReadIsRecent'
  BY <1>2, <1>3 DEF CacheInv, CacheTypeOK, ReadIsRecent
<1> QED
  BY <1>3, <1>4, <1>5, <1>6 DEF CacheInv, EntryIsRecent

(* One entry of one worker is replaced. *)
LEMMA ReplacedEntry ==
    ASSUME TenantCacheAssumption, CacheInv, NEW w \in Processes, NEW g \in Slugs, NEW e \in Entry \cup {NoEntry},
           e # NoEntry /\ e.age.behind => e.age.ticks + e.left <= e.took + TTL,
           cache' = [cache EXCEPT ![w][g] = e]
    PROVE  /\ cache' \in [Processes -> [Slugs -> Entry \cup {NoEntry}]]
           /\ EntryIsRecent'
<1>1. cache \in [Processes -> [Slugs -> Entry \cup {NoEntry}]]
  BY DEF CacheInv, CacheTypeOK
<1>2. \A v \in Processes, h \in Slugs : cache'[v][h] = IF v = w /\ h = g THEN e ELSE cache[v][h]
  BY <1>1
<1>3. cache' \in [Processes -> [Slugs -> Entry \cup {NoEntry}]]
  BY <1>1
<1>4. EntryIsRecent'
  BY <1>2 DEF CacheInv, EntryIsRecent
<1> QED
  BY <1>3, <1>4

LEMMA StoreKeepsCache ==
    ASSUME TenantCacheAssumption, CacheInv, NEW s \in CacheSlots, Store(s) PROVE CacheInv'
<1> DEFINE r == read[s]
<1> DEFINE e == NewEntry(r)
<1>1. /\ worker[s] \in Processes /\ slug[s] \in Slugs /\ r \in Reading
      /\ cache' = [cache EXCEPT ![worker[s]][slug[s]] = e]
      /\ read' = [read EXCEPT ![s] = NoRead]
      /\ \E p \in {"admitted", "refused"} : pc' = [pc EXCEPT ![s] = p]
      /\ UNCHANGED <<tenants, worker, slug, changes>>
  BY DEF Store, Gate, CacheInv, InHand
<1>2. r.age.behind => r.age.ticks <= r.took
  BY DEF Store, CacheInv, ReadIsRecent, InHand
<1>3. e \in Entry \cup {NoEntry}
  <2>1. TTL # 0 => TTL \in 1..TTL
    BY DEF TenantCacheAssumption
  <2> QED
    BY <1>1, <2>1 DEF NewEntry, Entry, Reading
<1>4. e # NoEntry => e.age = r.age /\ e.took = r.took /\ e.left = TTL
  BY DEF NewEntry
<1>5. r.took \in Int /\ TTL \in Int /\ (r.age.behind => r.age.ticks \in Int)
  BY <1>1, AgeType DEF Reading, TenantCacheAssumption
<1>6. e # NoEntry /\ e.age.behind => e.age.ticks + e.left <= e.took + TTL
  BY <1>2, <1>4, <1>5
<1> HIDE DEF e
<1>7. cache' \in [Processes -> [Slugs -> Entry \cup {NoEntry}]] /\ EntryIsRecent'
  BY <1>1, <1>3, <1>6, ReplacedEntry
<1>8. CacheTypeOK'
  BY <1>1, <1>7 DEF CacheInv, CacheTypeOK, Pcs
<1>9. InHand' /\ ReadIsRecent'
  BY <1>1 DEF CacheInv, CacheTypeOK, InHand, ReadIsRecent
<1> QED
  BY <1>7, <1>8, <1>9 DEF CacheInv

LEMMA InvalidateKeepsCache ==
    ASSUME TenantCacheAssumption, CacheInv, NEW s \in CacheSlots, Invalidate(s) PROVE CacheInv'
<1>1. worker[s] \in Processes /\ slug[s] \in Slugs
  BY DEF Invalidate, CacheInv, InHand
<1>2. cache' = [cache EXCEPT ![worker[s]][slug[s]] = NoEntry]
  BY DEF Invalidate, Evicted
<1>3. cache' \in [Processes -> [Slugs -> Entry \cup {NoEntry}]] /\ EntryIsRecent'
  BY <1>1, <1>2, ReplacedEntry
<1>4. UNCHANGED <<tenants, read, changes>> /\ Leave(s)
  BY DEF Invalidate
<1>5. CacheTypeOK'
  BY <1>3, <1>4 DEF CacheInv, CacheTypeOK, Leave, Pcs
<1>6. InHand'
  BY <1>4 DEF CacheInv, CacheTypeOK, InHand, Leave
<1> QED
  BY <1>3, <1>4, <1>5, <1>6 DEF CacheInv, ReadIsRecent

(* The table moves on, and with it the age of all that was read from it. *)
LEMMA WriteEffect ==
    ASSUME TenantCacheAssumption, CacheInv, NEW g \in Slugs, NEW v \in States, Write(g, v)
    PROVE  /\ tenants' \in [Slugs -> States] /\ changes' \in 0..MaxChanges
           /\ cache' \in [Processes -> [Slugs -> Entry \cup {NoEntry}]] /\ EntryIsRecent'
           /\ read' \in [CacheSlots -> Reading \cup {NoRead}] /\ ReadIsRecent'
           /\ \A s \in CacheSlots : read[s] \in Reading /\ read[s] # NoRead =>
                 read'[s] \in Reading /\ read'[s] # NoRead
<1>1. tenants' \in [Slugs -> States] /\ changes' \in 0..MaxChanges
  BY DEF Write, CacheInv, CacheTypeOK, TenantCacheAssumption
<1>2. ASSUME NEW w \in Processes, NEW h \in Slugs
      PROVE  /\ cache'[w][h] \in Entry \cup {NoEntry}
             /\ cache'[w][h] # NoEntry /\ cache'[w][h].age.behind =>
                   cache'[w][h].age.ticks + cache'[w][h].left <= cache'[w][h].took + TTL
  <2> DEFINE e == cache[w][h]
  <2>1. cache[w] \in [Slugs -> Entry \cup {NoEntry}] /\ e \in Entry \cup {NoEntry}
    BY DEF CacheInv, CacheTypeOK
  <2>2. \/ cache'[w][h] = e /\ (e = NoEntry \/ h # g)
        \/ e # NoEntry /\ cache'[w][h] = [e EXCEPT !.age = Outdated(e.age)]
    <3>1. cache'[w] = [cache[w] EXCEPT ![g] = OutdatedEntry(cache[w][g])]
      BY DEF Write
    <3>2. cache'[w][h] = IF h = g THEN OutdatedEntry(e) ELSE e
      BY <2>1, <3>1
    <3> QED
      BY <3>2 DEF OutdatedEntry
  <2>3. CASE cache'[w][h] = e
    BY <2>1, <2>3 DEF CacheInv, EntryIsRecent
  <2>4. CASE e # NoEntry /\ cache'[w][h] = [e EXCEPT !.age = Outdated(e.age)]
    <3> DEFINE n == cache'[w][h]
    <3>1. e \in Entry
      BY <2>1, <2>4
    <3>2. Outdated(e.age) \in Behind
      BY <3>1, OutdatedAge DEF Entry
    <3>3. n \in Entry /\ n.age = Outdated(e.age) /\ n.left = e.left /\ n.took = e.took
      BY <2>4, <3>1, <3>2 DEF Entry
    <3>4. e.left \in 1..TTL /\ e.took \in Nat /\ TTL \in Nat /\ e.age \in Behind
      BY <3>1 DEF Entry, TenantCacheAssumption
    <3>5. n.age.ticks = 0 \/ (e.age.behind /\ n.age.ticks = e.age.ticks)
      BY <3>3, <3>4, OutdatedAge
    <3>6. e.age.behind => e.age.ticks + e.left <= e.took + TTL
      BY <2>4 DEF CacheInv, EntryIsRecent
    <3> HIDE DEF n, e
    <3>7. n.age.ticks + n.left <= n.took + TTL
      BY <3>3, <3>4, <3>5, <3>6
    <3> QED
      BY <3>3, <3>7 DEF n
  <2> QED
    BY <2>2, <2>3, <2>4
<1>3. cache' \in [Processes -> [Slugs -> Entry \cup {NoEntry}]] /\ EntryIsRecent'
  <2>1. cache' = [w \in Processes |-> [cache[w] EXCEPT ![g] = OutdatedEntry(@)]]
    BY DEF Write
  <2>2. \A w \in Processes : cache'[w] = [h \in Slugs |-> cache'[w][h]]
    BY <2>1 DEF CacheInv, CacheTypeOK
  <2>3. \A w \in Processes : cache'[w] \in [Slugs -> Entry \cup {NoEntry}]
    BY <1>2, <2>2
  <2>4. cache' \in [Processes -> [Slugs -> Entry \cup {NoEntry}]]
    BY <2>1, <2>3
  <2> QED
    BY <1>2, <2>4 DEF EntryIsRecent
<1>4. ASSUME NEW s \in CacheSlots
      PROVE  /\ read'[s] \in Reading \cup {NoRead}
             /\ read'[s] # NoRead /\ read'[s].age.behind => read'[s].age.ticks <= read'[s].took
             /\ read[s] # NoRead => read'[s] \in Reading /\ read'[s] # NoRead
  <2> DEFINE r == read[s]
  <2>1. r \in Reading \cup {NoRead}
    BY DEF CacheInv, CacheTypeOK
  <2>2. \/ read'[s] = r
        \/ r # NoRead /\ read'[s] = [r EXCEPT !.age = Outdated(r.age)]
    BY DEF Write
  <2>3. CASE read'[s] = r
    BY <2>1, <2>3 DEF CacheInv, ReadIsRecent
  <2>4. CASE r # NoRead /\ read'[s] = [r EXCEPT !.age = Outdated(r.age)]
    <3> DEFINE n == read'[s]
    <3>1. r \in Reading
      BY <2>1, <2>4
    <3>2. Outdated(r.age) \in Behind
      BY <3>1, OutdatedAge DEF Reading
    <3>3. n \in Reading /\ n.age = Outdated(r.age) /\ n.took = r.took
      BY <2>4, <3>1, <3>2 DEF Reading
    <3>4. r.took \in Nat /\ r.age \in Behind
      BY <3>1 DEF Reading, TenantCacheAssumption
    <3>5. n.age.ticks = 0 \/ (r.age.behind /\ n.age.ticks = r.age.ticks)
      BY <3>3, <3>4, OutdatedAge
    <3>6. r.age.behind => r.age.ticks <= r.took
      BY <2>4 DEF CacheInv, ReadIsRecent
    <3> HIDE DEF n, r
    <3>7. n.age.ticks <= n.took
      BY <3>3, <3>4, <3>5, <3>6
    <3> QED
      BY <3>3, <3>7 DEF n, TenantCacheAssumption
  <2> QED
    BY <2>2, <2>3, <2>4
<1>5. read' \in [CacheSlots -> Reading \cup {NoRead}] /\ ReadIsRecent'
  <2>1. read' = [s \in CacheSlots |-> read'[s]]
    BY DEF Write
  <2> QED
    BY <1>4, <2>1 DEF ReadIsRecent
<1> QED
  BY <1>1, <1>3, <1>4, <1>5

LEMMA WriteKeepsCache ==
    ASSUME TenantCacheAssumption, CacheInv, \/ \E g \in Slugs, v \in States : WriteElsewhere(g, v)
                 \/ \E s \in CacheSlots : OffboardCommit(s)
    PROVE  CacheInv'
<1>1. /\ \E g \in Slugs, v \in States : Write(g, v)
      /\ UNCHANGED <<worker, slug>>
      /\ \/ UNCHANGED pc
         \/ \E s \in CacheSlots : pc[s] = "offboard" /\ pc' = [pc EXCEPT ![s] = "invalidate"]
  <2>1. CASE \E g \in Slugs, v \in States : WriteElsewhere(g, v)
    BY <2>1 DEF WriteElsewhere
  <2>2. CASE \E s \in CacheSlots : OffboardCommit(s)
    <3>1. PICK s \in CacheSlots : OffboardCommit(s)
      BY <2>2
    <3>2. slug[s] \in Slugs
      BY <3>1 DEF OffboardCommit, CacheInv, InHand
    <3> QED
      BY <3>1, <3>2 DEF OffboardCommit, States
  <2> QED
    BY <2>1, <2>2
<1>2. /\ tenants' \in [Slugs -> States] /\ changes' \in 0..MaxChanges
      /\ cache' \in [Processes -> [Slugs -> Entry \cup {NoEntry}]] /\ EntryIsRecent'
      /\ read' \in [CacheSlots -> Reading \cup {NoRead}] /\ ReadIsRecent'
      /\ \A s \in CacheSlots : read[s] \in Reading /\ read[s] # NoRead =>
            read'[s] \in Reading /\ read'[s] # NoRead
  BY <1>1, WriteEffect
<1>3. CacheTypeOK'
  BY <1>1, <1>2 DEF CacheInv, CacheTypeOK, Pcs
<1>4. InHand'
  BY <1>1, <1>2 DEF CacheInv, CacheTypeOK, InHand
<1> QED
  BY <1>2, <1>3, <1>4 DEF CacheInv

LEMMA TickKeepsCache ==
    ASSUME TenantCacheAssumption, CacheInv, CacheTick PROVE CacheInv'
<1>1. UNCHANGED <<tenants, pc, worker, slug, changes>>
  BY DEF CacheTick
<1>2. ASSUME NEW w \in Processes, NEW g \in Slugs
      PROVE  /\ cache'[w][g] \in Entry \cup {NoEntry}
             /\ cache'[w][g] # NoEntry /\ cache'[w][g].age.behind =>
                   cache'[w][g].age.ticks + cache'[w][g].left <= cache'[w][g].took + TTL
  <2> DEFINE e == cache[w][g]
  <2>1. e \in Entry \cup {NoEntry}
    BY DEF CacheInv, CacheTypeOK
  <2>2. e # NoEntry /\ e.age.behind => e.age.ticks + e.left <= e.took + TTL
    BY DEF CacheInv, EntryIsRecent
  <2>3. cache'[w][g] = Aged(e)
    BY DEF CacheTick
  <2> QED
    BY <2>1, <2>2, <2>3, AgedEntry
<1>3. cache' \in [Processes -> [Slugs -> Entry \cup {NoEntry}]] /\ EntryIsRecent'
  <2>1. cache' = [w \in Processes |-> [g \in Slugs |-> Aged(cache[w][g])]]
    BY DEF CacheTick
  <2>2. \A w \in Processes : cache'[w] = [g \in Slugs |-> cache'[w][g]]
    BY <2>1
  <2>3. \A w \in Processes : cache'[w] \in [Slugs -> Entry \cup {NoEntry}]
    BY <1>2, <2>2
  <2>4. cache' \in [Processes -> [Slugs -> Entry \cup {NoEntry}]]
    BY <2>1, <2>3
  <2> QED
    BY <1>2, <2>4 DEF EntryIsRecent
<1>4. ASSUME NEW s \in CacheSlots
      PROVE  /\ read'[s] \in Reading \cup {NoRead}
             /\ read'[s] # NoRead /\ read'[s].age.behind => read'[s].age.ticks <= read'[s].took
             /\ read[s] # NoRead => read'[s] \in Reading /\ read'[s] # NoRead
  <2> DEFINE r == read[s]
  <2>1. r \in Reading \cup {NoRead}
    BY DEF CacheInv, CacheTypeOK
  <2>2. read'[s] = IF r = NoRead THEN NoRead
                   ELSE [r EXCEPT !.age = Older(r.age), !.took = r.took + 1]
    BY DEF CacheTick
  <2>3. CASE r = NoRead
    BY <2>2, <2>3
  <2>4. CASE r # NoRead
    <3> DEFINE n == read'[s]
    <3>1. r \in Reading /\ r.took < MaxFill
      BY <2>1, <2>4 DEF CacheTick
    <3>2. r.took \in Nat /\ r.took + 1 \in 0..MaxFill /\ r.age \in Behind /\ Older(r.age) \in Behind
      BY <3>1, OlderAge DEF Reading, TenantCacheAssumption
    <3>3. n = [r EXCEPT !.age = Older(r.age), !.took = r.took + 1]
      BY <2>2, <2>4
    <3>4. n \in Reading /\ n.age = Older(r.age) /\ n.took = r.took + 1
      BY <3>1, <3>2, <3>3 DEF Reading
    <3>5. n.age.behind => r.age.behind /\ n.age.ticks <= r.age.ticks + 1
                          /\ n.age.ticks \in Nat /\ r.age.ticks \in Nat
      BY <3>2, <3>4, OlderAge, AgeType
    <3>6. r.age.behind => r.age.ticks <= r.took
      BY <2>4 DEF CacheInv, ReadIsRecent
    <3> HIDE DEF n, r
    <3>7. n.age.behind => n.age.ticks <= n.took
      BY <3>2, <3>4, <3>5, <3>6
    <3> QED
      BY <3>4, <3>7 DEF n, TenantCacheAssumption
  <2> QED
    BY <2>3, <2>4
<1>5. read' \in [CacheSlots -> Reading \cup {NoRead}] /\ ReadIsRecent'
  <2>1. read' = [s \in CacheSlots |-> read'[s]]
    BY DEF CacheTick
  <2> QED
    BY <1>4, <2>1 DEF ReadIsRecent
<1>6. CacheTypeOK'
  BY <1>1, <1>3, <1>5 DEF CacheInv, CacheTypeOK
<1>7. InHand'
  BY <1>1, <1>4 DEF CacheInv, InHand
<1> QED
  BY <1>3, <1>5, <1>6, <1>7 DEF CacheInv

LEMMA CacheInvStep ==
    ASSUME TenantCacheAssumption, CacheInv, [CacheNext]_cacheVars PROVE CacheInv'
<1>1. CASE UNCHANGED cacheVars
  BY <1>1 DEF cacheVars, CacheInv, CacheTypeOK, ReadIsRecent, EntryIsRecent, InHand
<1>2. CASE CacheNext
  BY <1>2, ArriveKeepsCache, LeaveKeepsCache, ReadKeepsCache, StoreKeepsCache, InvalidateKeepsCache, WriteKeepsCache, TickKeepsCache
     DEF CacheNext, Progress
<1> QED
  BY <1>1, <1>2

-----------------------------------------------------------------------------
(* The theorems *)

(* The table, the caches and the requests keep their types.                *)
THEOREM CacheTypeCorrect ==
    ASSUME TenantCacheAssumption PROVE CacheSpec => []CacheTypeOK
<1>1. CacheInv => CacheTypeOK
  BY DEF CacheInv
<1>2. CacheInit => CacheInv
  BY CacheInvInit
<1>3. CacheInv /\ [CacheNext]_cacheVars => CacheInv'
  BY CacheInvStep
<1> QED
  BY <1>1, <1>2, <1>3, PTL DEF CacheSpec

(* A worker's cached answer was in the table less than the time to live,   *)
(* and the time its fill took, ago: also when the fill stores what another *)
(* request has changed and evicted in between (resolve_tenant,             *)
(* invalidate_tenant).                                                     *)
THEOREM StalenessIsBounded ==
    ASSUME TenantCacheAssumption PROVE CacheSpec => []BoundedStaleness
<1>1. ASSUME CacheInv PROVE BoundedStaleness
  <2> SUFFICES ASSUME NEW w \in Processes, NEW g \in Slugs,
                      cache[w][g] # NoEntry, cache[w][g].age.behind
               PROVE  cache[w][g].age.ticks < TTL + cache[w][g].took
    BY DEF BoundedStaleness
  <2> DEFINE e == cache[w][g]
  <2>1. e \in Entry /\ e.age.ticks + e.left <= e.took + TTL
    BY <1>1 DEF CacheInv, CacheTypeOK, EntryIsRecent
  <2>2. e.age \in Behind /\ e.left \in 1..TTL /\ e.took \in 0..MaxFill
    BY <2>1 DEF Entry
  <2> HIDE DEF e
  <2>3. e.age.ticks < TTL + e.took
    BY <2>1, <2>2, AgeType DEF TenantCacheAssumption
  <2> QED
    BY <2>3 DEF e
<1>2. CacheInit => CacheInv
  BY CacheInvInit
<1>3. CacheInv /\ [CacheNext]_cacheVars => CacheInv'
  BY CacheInvStep
<1> QED
  BY <1>1, <1>2, <1>3, PTL DEF CacheSpec

-----------------------------------------------------------------------------
(* Counting failures *)

(* The failures of the ages in D, as Count counts them. *)
Failures(f, D) == UNION {{a} \X (1..f[a]) : a \in D}

LEMMA FailuresMember ==
    ASSUME NEW f, NEW D, NEW x
    PROVE  x \in Failures(f, D) <=> \E a \in D : \E i \in 1..f[a] : x = <<a, i>>
<1>1. \A a \in D : x \in {a} \X (1..f[a]) <=> \E i \in 1..f[a] : x = <<a, i>>
  OBVIOUS
<1> QED
  BY <1>1 DEF Failures

LEMMA CountIsFailures == \A h, k : Count(h, k) = Cardinality(Failures(hits[h][k], InWindow(h)))
BY DEF Count, Failures, OfAge

LEMMA FailuresFinite ==
    ASSUME NEW f, NEW D, IsFiniteSet(D), \A a \in D : f[a] \in Nat
    PROVE  IsFiniteSet(Failures(f, D)) /\ Cardinality(Failures(f, D)) \in Nat
<1> DEFINE OfOne(a) == {a} \X (1..f[a])
           all == {OfOne(a) : a \in D}
           pick == [a \in D |-> OfOne(a)]
<1>1. \A a \in D : IsFiniteSet(OfOne(a))
  <2> TAKE a \in D
  <2>1. IsFiniteSet({a})
    BY FS_Singleton
  <2>2. IsFiniteSet(1..f[a])
    BY FS_Interval
  <2> QED
    BY <2>1, <2>2, FS_Product
<1>2. pick \in Surjection(D, all)
  <2> HIDE DEF OfOne
  <2> QED
    BY DEF Surjection
<1>3. IsFiniteSet(all)
  BY <1>2, FS_Surjection
<1>4. IsFiniteSet(UNION all)
  BY <1>1, <1>3, FS_UNION
<1>5. Failures(f, D) = UNION all
  BY DEF Failures
<1> QED
  BY <1>4, <1>5, FS_CardinalityType

LEMMA WindowAges ==
    ASSUME ServerAssumption, NEW h
    PROVE  InWindow(h) \subseteq 0..Window /\ 0 \in InWindow(h) /\ IsFiniteSet(InWindow(h))
<1>1. IsFiniteSet(0..Window) /\ IsFiniteSet(0..(Window - 1))
  BY FS_Interval DEF ServerAssumption
<1> QED
  BY <1>1 DEF ServerAssumption, InWindow

(* Nothing in the limiter: nothing counted. *)
LEMMA NothingCounted ==
    ASSUME NEW D, D \subseteq 0..Window
    PROVE  Cardinality(Failures(NoHits, D)) = 0
<1>1. \A a \in D : 1..NoHits[a] = {}
  BY DEF NoHits
<1>2. Failures(NoHits, D) = {}
  BY <1>1 DEF Failures
<1> QED
  BY <1>2, FS_EmptySet

(* One more failure of now, and no others: the count grows by at most one.  *)
LEMMA OneMoreCounted ==
    ASSUME NEW f, NEW g, NEW D, IsFiniteSet(D), 0 \in D,
           \A a \in D : f[a] \in Nat,
           g[0] = f[0] + 1,
           \A a \in D \ {0} : g[a] = 0 \/ g[a] = f[a]
    PROVE  Cardinality(Failures(g, D)) <= Cardinality(Failures(f, D)) + 1
<1> DEFINE F == Failures(f, D)
           more == F \cup {<<0, f[0] + 1>>}
<1>1. Failures(g, D) \subseteq more
  <2> SUFFICES ASSUME NEW x \in Failures(g, D) PROVE x \in more
    OBVIOUS
  <2>1. PICK a \in D : \E i \in 1..g[a] : x = <<a, i>>
    BY FailuresMember
  <2>1a. PICK i \in 1..g[a] : x = <<a, i>>
    BY <2>1
  <2>2. CASE a = 0 /\ i = f[0] + 1
    BY <2>1, <2>1a, <2>2
  <2>3. CASE ~(a = 0 /\ i = f[0] + 1)
    <3>1. i \in 1..f[a]
      BY <2>1, <2>1a, <2>3
    <3> QED
      BY <2>1, <2>1a, <3>1, FailuresMember
  <2> QED
    BY <2>2, <2>3
<1>2. IsFiniteSet(F) /\ Cardinality(F) \in Nat
  BY FailuresFinite
<1> HIDE DEF F
<1>3. IsFiniteSet(more) /\ Cardinality(more) <= Cardinality(F) + 1
  <2>1. /\ IsFiniteSet(more)
        /\ Cardinality(more) = IF <<0, f[0] + 1>> \in F THEN Cardinality(F) ELSE Cardinality(F) + 1
    BY <1>2, FS_AddElement
  <2> HIDE DEF more
  <2> QED
    BY <1>2, <2>1
<1>4. Cardinality(Failures(g, D)) <= Cardinality(more) /\ Cardinality(Failures(g, D)) \in Nat
  BY <1>1, <1>3, FS_Subset, FS_CardinalityType
<1>5. Cardinality(more) \in Nat
  BY <1>3, FS_CardinalityType
<1> QED
  BY <1>2, <1>3, <1>4, <1>5 DEF F

(* A tick shifts what is in the window, and drops the oldest.               *)
LEMMA NoMoreCounted ==
    ASSUME NEW f, NEW g, NEW n \in Nat, NEW m \in Nat,
           \A a \in 0..n : f[a] \in Nat,
           \A a \in 0..n : g[a] = IF a = 0 THEN 0 ELSE f[a - 1]
    PROVE  Cardinality(Failures(g, 0..n)) <= Cardinality(Failures(f, 0..n))
<1> DEFINE F == Failures(f, 0..n)
           G == Failures(g, 0..n)
           back == [x \in G |-> <<x[1] - 1, x[2]>>]
<1>1. \A x \in G : \E a \in 1..n : \E i \in 1..f[a - 1] : x = <<a, i>>
  <2> TAKE x \in G
  <2>1. PICK a \in 0..n : \E i \in 1..g[a] : x = <<a, i>>
    BY FailuresMember
  <2>1a. PICK i \in 1..g[a] : x = <<a, i>>
    BY <2>1
  <2>2. a # 0
    BY <2>1, <2>1a
  <2> QED
    BY <2>1, <2>1a, <2>2
<1>2. \A x \in G : back[x] \in F
  <2> TAKE x \in G
  <2>1. PICK a \in 1..n : \E i \in 1..f[a - 1] : x = <<a, i>>
    BY <1>1
  <2>1a. PICK i \in 1..f[a - 1] : x = <<a, i>>
    BY <2>1
  <2>2. back[x] = <<a - 1, i>> /\ a - 1 \in 0..n
    BY <2>1, <2>1a
  <2> QED
    BY <2>1, <2>1a, <2>2, FailuresMember
<1>3. \A x, y \in G : back[x] = back[y] => x = y
  <2> SUFFICES ASSUME NEW x \in G, NEW y \in G, back[x] = back[y] PROVE x = y
    OBVIOUS
  <2>1. PICK a \in 1..n : \E i \in 1..f[a - 1] : x = <<a, i>>
    BY <1>1
  <2>1a. PICK i \in 1..f[a - 1] : x = <<a, i>>
    BY <2>1
  <2>2. PICK b \in 1..n : \E j \in 1..f[b - 1] : y = <<b, j>>
    BY <1>1
  <2>2a. PICK j \in 1..f[b - 1] : y = <<b, j>>
    BY <2>2
  <2>3. back[x] = <<a - 1, i>> /\ back[y] = <<b - 1, j>>
    BY <2>1, <2>1a, <2>2, <2>2a
  <2>4. a - 1 = b - 1 /\ i = j
    BY <2>3
  <2> QED
    BY <2>1, <2>1a, <2>2, <2>2a, <2>4
<1>4. IsFiniteSet(F) /\ Cardinality(F) \in Nat
  <2>1. IsFiniteSet(0..n)
    BY FS_Interval
  <2> QED
    BY <2>1, FailuresFinite
<1>5. back \in Injection(G, F)
  <2> HIDE DEF F, G
  <2> QED
    BY <1>2, <1>3 DEF Injection, IsInjective
<1> QED
  BY <1>4, <1>5, FS_Injection

-----------------------------------------------------------------------------
(* What create_admin builds *)

(* The routes in the order in which they are mounted. *)
AllRoutes == Append(Append(Append(<<>>, "extensions"), "actions"), "crud")

LEMMA Appended ==
    ASSUME NEW S, NEW q \in Seq(S), NEW x \in S
    PROVE  /\ Append(q, x) \in Seq(S) /\ Len(Append(q, x)) = Len(q) + 1
           /\ Append(q, x)[Len(q) + 1] = x
           /\ \A i \in 1..Len(q) : Append(q, x)[i] = q[i]
OBVIOUS

LEMMA AllRoutesOrdered ==
    /\ AllRoutes \in Seq({"extensions", "actions", "crud"}) /\ Len(AllRoutes) = 3
    /\ AllRoutes[1] = "extensions" /\ AllRoutes[2] = "actions" /\ AllRoutes[3] = "crud"
<1> DEFINE R == {"extensions", "actions", "crud"}
           one == Append(<<>>, "extensions")
           two == Append(one, "actions")
<1>1. one \in Seq(R) /\ Len(one) = 1 /\ one[1] = "extensions"
  OBVIOUS
<1> HIDE DEF one
<1>2. two \in Seq(R) /\ Len(two) = 2 /\ two[1] = "extensions" /\ two[2] = "actions"
  <2>1. "actions" \in R
    OBVIOUS
  <2>2. /\ two \in Seq(R) /\ Len(two) = Len(one) + 1 /\ two[Len(one) + 1] = "actions"
        /\ \A i \in 1..Len(one) : two[i] = one[i]
    BY <1>1, <2>1, Appended
  <2> QED
    BY <1>1, <2>2
<1> HIDE DEF two
<1> DEFINE three == Append(two, "crud")
<1>3. /\ three \in Seq(R) /\ Len(three) = 3
      /\ three[1] = "extensions" /\ three[2] = "actions" /\ three[3] = "crud"
  <2>1. "crud" \in R /\ two \in Seq(R)
    BY <1>2
  <2> HIDE DEF R
  <2>2. /\ three \in Seq(R) /\ Len(three) = Len(two) + 1 /\ three[Len(two) + 1] = "crud"
        /\ \A i \in 1..Len(two) : three[i] = two[i]
    BY <2>1, Appended
  <2> HIDE DEF three
  <2> QED
    BY <1>2, <2>2
<1> QED
  BY <1>3 DEF AllRoutes, one, two

(* What the hook for a registry gives to it, and what register_routes does. *)
Hooked(r) == {i \in Items : i[1] = "hook" /\ i[2] = r /\ r \in Contributes[i[3]]}

AtMount == {i \in Items : i[1] = "routes" /\ i[2] \in AtRoutes[i[3]]}

Pages == {i \in Wanted : i[1] = "hook" /\ i[2] = "admin_pages" /\ i[3] \in Guarded}

(* A worker's registries and routes once create_admin has returned. *)
Built == [regs |-> Wanted, nav |-> Pages, frozen |-> Registries, routes |-> AllRoutes]

(* An application under construction. *)
AppOf(regs, nav, frozen, routes) ==
    [regs |-> regs, nav |-> nav, frozen |-> frozen, routes |-> routes]

(* A registration before the freeze. *)
LEMMA OpenRegisters ==
    ASSUME NEW items, NEW regs, NEW nav, NEW routes
    PROVE  Registered(AppOf(regs, nav, {}, routes), items) = AppOf(regs \cup items, nav, {}, routes)
<1> DEFINE a == AppOf(regs, nav, {}, routes)
<1>1. a.frozen = {} /\ a.regs = regs
  BY DEF AppOf
<1>2. {i \in items : i[2] \notin {}} = items
  OBVIOUS
<1>3. Registered(a, items) = [a EXCEPT !.regs = regs \cup items]
  BY <1>1, <1>2 DEF Registered
<1> QED
  BY <1>3 DEF AppOf

LEMMA RoundRegisters ==
    ASSUME NEW r, NEW regs, NEW nav, NEW routes
    PROVE  Declared(AppOf(regs, nav, {}, routes), r) = AppOf(regs \cup Hooked(r), nav, {}, routes)
BY OpenRegisters DEF Declared, Hooked

(* Setting up in the order of the factory yields just that. *)
LEMMA SetUpBuilds ==
    ASSUME ServerAssumption PROVE SetUp = Built /\ Built \in App
<1> DEFINE r1 == {} \cup Hooked("permissions")
           r2 == r1 \cup Hooked("protected_fields")
           r3 == r2 \cup Hooked("contract")
           r4 == r3 \cup Hooked("admin_pages")
           r5 == r4 \cup Hooked("navigation")
<1>1. r5 \cup AtMount = Wanted
  <2>1. \A x \in r5 \cup AtMount : x \in Wanted
    BY DEF Hooked, AtMount, Wanted
  <2>2. \A x \in Wanted : x \in r5 \cup AtMount
    <3> SUFFICES ASSUME NEW x \in Wanted PROVE x \in r5 \cup AtMount
      OBVIOUS
    <3>1. x \in Items /\ x[2] \in Registries
      BY DEF Wanted, Items
    <3> QED
      BY <3>1 DEF Hooked, AtMount, Wanted, Registries
  <2> QED
    BY <2>1, <2>2
<1>2. {i \in r5 : i[2] = "admin_pages" /\ i[3] \in Guarded} = Pages
  <2>1. \A x \in r5 : x[1] = "hook" /\ x \in Wanted
    BY DEF Hooked, Wanted
  <2>2. \A x \in Pages : x \in r5
    BY DEF Hooked, Pages, Wanted
  <2> HIDE DEF r5
  <2> QED
    BY <2>1, <2>2 DEF Pages
<1>3. Blank = AppOf({}, {}, {}, <<>>)
  BY DEF Blank, AppOf
<1>4. /\ Declared(AppOf({}, {}, {}, <<>>), "permissions") = AppOf(r1, {}, {}, <<>>)
      /\ Declared(AppOf(r1, {}, {}, <<>>), "protected_fields") = AppOf(r2, {}, {}, <<>>)
      /\ Declared(AppOf(r2, {}, {}, <<>>), "contract") = AppOf(r3, {}, {}, <<>>)
      /\ Declared(AppOf(r3, {}, {}, <<>>), "admin_pages") = AppOf(r4, {}, {}, <<>>)
      /\ Declared(AppOf(r4, {}, {}, <<>>), "navigation") = AppOf(r5, {}, {}, <<>>)
  BY RoundRegisters
<1> HIDE DEF r1, r2, r3, r4, r5
<1>5. Paged(Ruled(Blank)) = AppOf(r5, {}, {}, <<>>)
  BY <1>3, <1>4 DEF Paged, Ruled
<1>6. Mirrored(AppOf(r5, {}, {}, <<>>)) = AppOf(r5, Pages, {}, <<>>)
  <2>1. AppOf(r5, {}, {}, <<>>).regs = r5
    BY DEF AppOf
  <2>2. Mirrored(AppOf(r5, {}, {}, <<>>)) = [AppOf(r5, {}, {}, <<>>) EXCEPT !.nav = Pages]
    BY <1>2, <2>1 DEF Mirrored
  <2> QED
    BY <2>2 DEF AppOf
<1>7. \A frozen, routes, family :
         Mounted(AppOf(Wanted, Pages, frozen, routes), family)
            = AppOf(Wanted, Pages, frozen, Append(routes, family))
  BY DEF Mounted, AppOf
<1>8. \A routes : Frozen(AppOf(Wanted, Pages, {}, routes)) = AppOf(Wanted, Pages, Registries, routes)
  BY DEF Frozen, AppOf
<1>9. Routed(AppOf(r5, Pages, {}, <<>>)) = AppOf(Wanted, Pages, {}, Append(<<>>, "extensions"))
  <2>1. Registered(AppOf(r5, Pages, {}, <<>>), AtMount) = AppOf(Wanted, Pages, {}, <<>>)
    BY <1>1, OpenRegisters
  <2>2. Routed(AppOf(r5, Pages, {}, <<>>))
           = Mounted(Registered(AppOf(r5, Pages, {}, <<>>), AtMount), "extensions")
    BY DEF Routed, AtMount
  <2>3. Mounted(AppOf(Wanted, Pages, {}, <<>>), "extensions")
           = AppOf(Wanted, Pages, {}, Append(<<>>, "extensions"))
    BY <1>7
  <2> QED
    BY <2>1, <2>2, <2>3
<1>10. SetUp = AppOf(Wanted, Pages, Registries, AllRoutes)
  BY <1>5, <1>6, <1>7, <1>8, <1>9 DEF SetUp, AllRoutes
<1>11. SetUp = Built
  BY <1>10 DEF AppOf, Built
<1>12. Built \in App
  BY AllRoutesOrdered DEF Built, App, Wanted, Pages
<1> QED
  BY <1>11, <1>12

-----------------------------------------------------------------------------
(* The invariant of the workers *)

(* Between set-up and exit the registries hold what was set up. *)
Kept ==
    \A w \in Workers : app[w] = IF stage[w] = "down" THEN NoApp ELSE Built

(* The extensions that are open are those that have been started, and they  *)
(* are the first so and so many.                                            *)
InOrder ==
    \A w \in Workers :
        /\ Len(started[w]) <= NumExts
        /\ \A i \in 1..Len(started[w]) : started[w][i] = i
        /\ open[w] = 1..Len(started[w])
        /\ stage[w] = "down" => started[w] = <<>>
        /\ stage[w] = "serving" => Len(started[w]) = NumExts

(* Attempts are requests of a serving worker, and a budget is only asked    *)
(* for apart from being counted behind Redis.                               *)
Attempts ==
    \A s \in Slots : att[s] # NoAttempt =>
        /\ stage[att[s].worker] = "serving"
        /\ att[s].key \in BudgetKeys => shared

(* The part about the processes, and the part about their limiters. *)
ProcInv ==
    /\ stage \in [Workers -> Stages]
    /\ app \in [Workers -> App \cup {NoApp}]
    /\ started \in [Workers -> Seq(Exts)]
    /\ open \in [Workers -> SUBSET Exts]
    /\ Kept /\ InOrder

LimitInv ==
    /\ shared \in BOOLEAN
    /\ hits \in [Homes -> [Keys -> [0..Window -> Nat]]]
    /\ att \in [Slots -> Attempt \cup {NoAttempt}]
    /\ Attempts /\ WithinBudget

LEMMA InFlightFinite ==
    ASSUME ServerAssumption, NEW h, NEW k
    PROVE  /\ IsFiniteSet(InFlight(h, k)) /\ Cardinality(InFlight(h, k)) \in Nat
           /\ Cardinality(InFlight(h, k)) <= Cardinality(Slots)
           /\ Cardinality(Slots) \in Nat /\ Cardinality(Slots) >= 1
<1>1. InFlight(h, k) \in SUBSET Slots
  BY DEF InFlight
<1>2. IsFiniteSet(Slots) /\ Slots # {}
  BY DEF ServerAssumption
<1>3. Cardinality(Slots) \in Nat /\ Cardinality(Slots) # 0
  BY <1>2, FS_CardinalityType, FS_EmptySet
<1> QED
  BY <1>1, <1>2, <1>3, FS_Subset, FS_CardinalityType

LEMMA CountType ==
    ASSUME ServerAssumption, hits \in [Homes -> [Keys -> [0..Window -> Nat]]],
           NEW h \in Homes, NEW k \in Keys
    PROVE  Count(h, k) \in Nat
<1>1. \A a \in InWindow(h) : hits[h][k][a] \in Nat
  BY WindowAges
<1> QED
  BY <1>1, WindowAges, FailuresFinite, CountIsFailures

LEMMA ServerInit == ASSUME ServerAssumption, Init PROVE ProcInv /\ LimitInv
<1>1. TypeOK
  <2>1. NoHits \in [0..Window -> Nat]
    BY DEF NoHits
  <2> QED
    BY <2>1 DEF Init, TypeOK, Stages
<1>2. Kept /\ InOrder /\ Attempts
  BY DEF Init, Kept, InOrder, Attempts, ServerAssumption
<1>3. WithinBudget
  <2> SUFFICES ASSUME NEW h \in Homes, NEW k \in Keys
               PROVE  /\ Count(h, k) + Cardinality(InFlight(h, k))
                            <= MaxFailures - 1 + Cardinality(Slots)
                      /\ Count(h, k) <= MaxFailures
    BY DEF WithinBudget
  <2>1. Count(h, k) = 0
    <3>1. hits[h][k] = NoHits
      BY DEF Init
    <3> QED
      BY <3>1, CountIsFailures, NothingCounted, WindowAges
  <2>2. MaxFailures \in Nat /\ MaxFailures >= 1
    BY DEF ServerAssumption
  <2> QED
    BY <2>1, <2>2, InFlightFinite
<1> QED
  BY <1>1, <1>2, <1>3 DEF ProcInv, LimitInv, TypeOK

-----------------------------------------------------------------------------
(* Steps of a worker's life *)

LEMMA CreateProc ==
    ASSUME ServerAssumption, ProcInv, NEW w \in Workers, Create(w) PROVE ProcInv'
<1>1. /\ stage' = [stage EXCEPT ![w] = "ready"] /\ app' = [app EXCEPT ![w] = Built]
      /\ UNCHANGED <<started, open>>
  BY SetUpBuilds DEF Create
<1>2. Kept'
  BY <1>1 DEF ProcInv, Kept
<1>3. InOrder'
  BY <1>1 DEF ProcInv, InOrder
<1> QED
  BY <1>1, <1>2, <1>3, SetUpBuilds DEF ProcInv, Stages

(* What is registered too late is not registered. *)
LEMMA RegisterLateProc ==
    ASSUME ServerAssumption, ProcInv, NEW w \in Workers, RegisterLate(w)
    PROVE  UNCHANGED <<stage, app, started, open>>
<1>1. PICK e \in Exts, r \in Registries :
         app' = [app EXCEPT ![w] = Registered(app[w], {<<"late", r, e>>})]
  BY DEF RegisterLate
<1>2. app[w] = Built /\ r \in app[w].frozen
  BY DEF ProcInv, Kept, Built, RegisterLate
<1>3. Registered(app[w], {<<"late", r, e>>}) = app[w]
  <2>1. {i \in {<<"late", r, e>>} : i[2] \notin app[w].frozen} = {}
    BY <1>2
  <2> QED
    BY <1>2, <2>1 DEF Registered, Built
<1>4. app' = app
  BY <1>1, <1>3 DEF ProcInv
<1> QED
  BY <1>4 DEF RegisterLate

(* A worker goes from one stage above "down" to another; if it comes to     *)
(* serve, all its extensions have been started.                             *)
LEMMA MoveProc ==
    ASSUME ServerAssumption, ProcInv, NEW w \in Workers,
           NEW next \in {"starting", "serving", "stopping"},
           stage[w] # "down", stage' = [stage EXCEPT ![w] = next],
           UNCHANGED app,
           started' \in [Workers -> Seq(Exts)], open' \in [Workers -> SUBSET Exts],
           \A v \in Workers \ {w} : started'[v] = started[v] /\ open'[v] = open[v],
           Len(started'[w]) <= NumExts,
           \A i \in 1..Len(started'[w]) : started'[w][i] = i,
           open'[w] = 1..Len(started'[w]),
           next = "serving" => Len(started'[w]) = NumExts
    PROVE  ProcInv'
<1>1. Kept'
  BY DEF ProcInv, Kept
<1>2. InOrder'
  BY DEF ProcInv, InOrder
<1> QED
  BY <1>1, <1>2 DEF ProcInv, Stages

LEMMA StartupProc ==
    ASSUME ServerAssumption, ProcInv, NEW w \in Workers, Startup(w) PROVE ProcInv'
<1> DEFINE q == started[w]
           e == Len(q) + 1
<1>1. /\ q \in Seq(Exts) /\ Len(q) \in Nat /\ NumExts \in Nat /\ Len(q) < NumExts
      /\ stage[w] # "down" /\ UNCHANGED app
      /\ \A i \in 1..Len(q) : q[i] = i
      /\ open[w] = 1..Len(q)
  BY DEF Startup, ProcInv, InOrder, ServerAssumption
<1>2. CASE /\ started' = [started EXCEPT ![w] = Append(q, e)]
           /\ open' = [open EXCEPT ![w] = open[w] \cup {e}]
           /\ stage' = [stage EXCEPT ![w] = "starting"]
  <2>1. e \in Exts
    BY <1>1 DEF Exts
  <2>2. /\ Append(q, e) \in Seq(Exts) /\ Len(Append(q, e)) = e
        /\ Append(q, e)[e] = e
        /\ \A i \in 1..Len(q) : Append(q, e)[i] = q[i]
    BY <1>1, <2>1, Appended
  <2>3. /\ started' \in [Workers -> Seq(Exts)] /\ started'[w] = Append(q, e)
        /\ \A v \in Workers \ {w} : started'[v] = started[v]
    BY <1>2, <2>2 DEF ProcInv
  <2>4. /\ open' \in [Workers -> SUBSET Exts] /\ open'[w] = open[w] \cup {e}
        /\ \A v \in Workers \ {w} : open'[v] = open[v]
    BY <1>2, <2>1 DEF ProcInv
  <2>5. \A i \in 1..e : Append(q, e)[i] = i
    BY <1>1, <2>2
  <2>6. open'[w] = 1..e
    BY <1>1, <2>4
  <2>7. e <= NumExts
    BY <1>1
  <2> HIDE DEF e, q
  <2> QED
    BY <1>1, <1>2, <2>2, <2>3, <2>4, <2>5, <2>6, <2>7, MoveProc
<1>3. CASE stage' = [stage EXCEPT ![w] = "stopping"] /\ UNCHANGED <<started, open>>
  <2>1. started' \in [Workers -> Seq(Exts)] /\ open' \in [Workers -> SUBSET Exts]
    BY <1>3 DEF ProcInv
  <2>2. /\ Len(started'[w]) <= NumExts
        /\ \A i \in 1..Len(started'[w]) : started'[w][i] = i
        /\ open'[w] = 1..Len(started'[w])
    BY <1>1, <1>3
  <2> QED
    BY <1>1, <1>3, <2>1, <2>2, MoveProc
<1> QED
  BY <1>2, <1>3 DEF Startup

LEMMA ServeStopProc ==
    ASSUME ServerAssumption, ProcInv, NEW w \in Workers, Serve(w) \/ Stop(w) PROVE ProcInv'
<1>1. /\ \E next \in {"serving", "stopping"} : /\ stage' = [stage EXCEPT ![w] = next]
                                               /\ next = "serving" => Len(started[w]) = NumExts
      /\ stage[w] # "down" /\ UNCHANGED <<app, started, open>>
  BY DEF Serve, Stop
<1>2. /\ Len(started[w]) <= NumExts
      /\ \A i \in 1..Len(started[w]) : started[w][i] = i
      /\ open[w] = 1..Len(started[w])
  BY DEF ProcInv, InOrder
<1> QED
  BY <1>1, <1>2, MoveProc DEF ProcInv

LEMMA ShutdownProc ==
    ASSUME ServerAssumption, ProcInv, NEW w \in Workers, Shutdown(w) PROVE ProcInv'
<1> DEFINE q == started[w]
           n == Len(q)
<1>1. /\ q \in Seq(Exts) /\ q # <<>> /\ n \in Nat /\ NumExts \in Nat /\ n <= NumExts
      /\ stage[w] = "stopping" /\ UNCHANGED <<stage, app>>
      /\ \A i \in 1..n : q[i] = i
      /\ open[w] = 1..n
  BY DEF Shutdown, ProcInv, InOrder, ServerAssumption
<1>2. n >= 1
  BY <1>1
<1>3. /\ Front(q) \in Seq(Exts) /\ Len(Front(q)) = n - 1
      /\ \A i \in 1..(n - 1) : Front(q)[i] = q[i]
      /\ Last(q) = n
  BY <1>1, <1>2 DEF Front, Last
<1>4. /\ started' \in [Workers -> Seq(Exts)] /\ started'[w] = Front(q)
      /\ \A v \in Workers \ {w} : started'[v] = started[v]
  BY <1>3 DEF Shutdown, ProcInv
<1>5. /\ open' \in [Workers -> SUBSET Exts] /\ open'[w] = open[w] \ {n}
      /\ \A v \in Workers \ {w} : open'[v] = open[v]
  BY <1>3 DEF Shutdown, ProcInv
<1>6. open'[w] = 1..(n - 1)
  BY <1>1, <1>2, <1>5
<1>7. stage' = [stage EXCEPT ![w] = "stopping"]
  BY <1>1 DEF ProcInv
<1>8. \A i \in 1..(n - 1) : Front(q)[i] = i
  BY <1>1, <1>2, <1>3
<1>9. n - 1 <= NumExts
  BY <1>1
<1>10. /\ Len(started'[w]) <= NumExts
       /\ \A i \in 1..Len(started'[w]) : started'[w][i] = i
       /\ open'[w] = 1..Len(started'[w])
  BY <1>3, <1>4, <1>6, <1>8, <1>9
<1>11. stage[w] # "down" /\ UNCHANGED app
  BY <1>1
<1> HIDE DEF q, n
<1> QED
  BY <1>4, <1>5, <1>7, <1>10, <1>11, MoveProc

LEMMA GoneProc ==
    ASSUME ServerAssumption, ProcInv, NEW w \in Workers, Exit(w) \/ Kill(w) PROVE ProcInv'
<1>1. /\ stage' = [stage EXCEPT ![w] = "down"] /\ app' = [app EXCEPT ![w] = NoApp]
      /\ started' = [started EXCEPT ![w] = <<>>]
  BY DEF Exit, Kill, Gone
<1>2. open' = [open EXCEPT ![w] = {}]
  <2>1. CASE Exit(w)
    <3>1. open[w] = {} /\ open' = open
      BY <2>1 DEF Exit, ProcInv, InOrder
    <3> QED
      BY <3>1 DEF ProcInv
  <2>2. CASE Kill(w)
    BY <2>2 DEF Kill
  <2> QED
    BY <2>1, <2>2
<1>3. Kept'
  BY <1>1 DEF ProcInv, Kept
<1>4. InOrder'
  BY <1>1, <1>2 DEF ProcInv, InOrder, ServerAssumption
<1> QED
  BY <1>1, <1>2, <1>3, <1>4 DEF ProcInv, Stages

-----------------------------------------------------------------------------
(* Steps of the limiters *)

LEMMA CountNext ==
    \A h, k : Count(h, k)' = Cardinality(Failures(hits'[h][k], InWindow(h)))
BY DEF Count, Failures, OfAge

LEMMA CountTypeNext ==
    ASSUME ServerAssumption, hits' \in [Homes -> [Keys -> [0..Window -> Nat]]],
           NEW h \in Homes, NEW k \in Keys
    PROVE  Count(h, k)' \in Nat
<1>1. \A a \in InWindow(h) : hits'[h][k][a] \in Nat
  BY WindowAges
<1> QED
  BY <1>1, WindowAges, FailuresFinite, CountNext

LEMMA InFlightNext ==
    ASSUME ServerAssumption, NEW h, NEW k
    PROVE  /\ IsFiniteSet(InFlight(h, k)') /\ Cardinality(InFlight(h, k)') \in Nat
           /\ Cardinality(InFlight(h, k)') <= Cardinality(Slots)
           /\ InFlight(h, k)' \subseteq InFlight(h, k) =>
                 Cardinality(InFlight(h, k)') <= Cardinality(InFlight(h, k))
<1>1. InFlight(h, k)' \in SUBSET Slots
  BY DEF InFlight
<1>2. IsFiniteSet(Slots)
  BY DEF ServerAssumption
<1>3. IsFiniteSet(InFlight(h, k))
  BY InFlightFinite
<1> QED
  BY <1>1, <1>2, <1>3, FS_Subset, FS_CardinalityType

(* The ways in which a step may change what counts for a key and what is in *)
(* flight for it without exceeding the bounds.                              *)
Bounded(h, k) ==
    \/ /\ Count(h, k)' <= Count(h, k)
       /\ Cardinality(InFlight(h, k)') <= Cardinality(InFlight(h, k))
    \/ Count(h, k)' <= MaxFailures - 1
    \/ /\ Count(h, k)' <= Count(h, k) + 1
       /\ Cardinality(InFlight(h, k)') <= Cardinality(InFlight(h, k)) - 1
       /\ k \in BudgetKeys => shared
    \/ Count(h, k)' <= MaxFailures /\ InFlight(h, k)' = {}

LEMMA BudgetStep ==
    ASSUME ServerAssumption, LimitInv, UNCHANGED shared,
           hits' \in [Homes -> [Keys -> [0..Window -> Nat]]],
           \A h \in Homes, k \in Keys : Bounded(h, k)
    PROVE  WithinBudget'
<1> SUFFICES ASSUME NEW h \in Homes, NEW k \in Keys
             PROVE  /\ Count(h, k)' + Cardinality(InFlight(h, k)')
                          <= MaxFailures - 1 + Cardinality(Slots)
                    /\ k \in BudgetKeys /\ ~shared => Count(h, k)' <= MaxFailures
  BY DEF WithinBudget
<1> DEFINE c == Count(h, k)           d == Count(h, k)'
           n == Cardinality(InFlight(h, k))  m == Cardinality(InFlight(h, k)')
           z == Cardinality(Slots)
<1>1. /\ c \in Nat /\ d \in Nat /\ n \in Nat /\ m \in Nat /\ z \in Nat /\ z >= 1 /\ m <= z
      /\ MaxFailures \in Nat
  BY CountType, CountTypeNext, InFlightFinite, InFlightNext DEF LimitInv, ServerAssumption
<1>2. /\ c + n <= MaxFailures - 1 + z
      /\ k \in BudgetKeys /\ ~shared => c <= MaxFailures
  BY DEF LimitInv, WithinBudget
<1>3. InFlight(h, k)' = {} => m = 0
  BY FS_EmptySet
<1>4. \/ d <= c /\ m <= n
      \/ d <= MaxFailures - 1
      \/ d <= c + 1 /\ m <= n - 1 /\ (k \in BudgetKeys => shared)
      \/ d <= MaxFailures /\ m = 0
  BY <1>3 DEF Bounded
<1> HIDE DEF c, d, n, m, z
<1>5. d + m <= MaxFailures - 1 + z /\ (k \in BudgetKeys /\ ~shared => d <= MaxFailures)
  BY <1>1, <1>2, <1>4
<1> QED
  BY <1>5 DEF d, m, z

(* A step that leaves a limiter's key and the attempts at it alone.         *)
LEMMA UntouchedIsBounded ==
    ASSUME ServerAssumption, LimitInv, NEW h \in Homes, NEW k \in Keys,
           hits'[h][k] = hits[h][k], InFlight(h, k)' \subseteq InFlight(h, k)
    PROVE  Bounded(h, k)
<1>1. Count(h, k)' = Count(h, k)
  BY CountNext, CountIsFailures
<1>2. Count(h, k) \in Nat
  BY CountType DEF LimitInv
<1> QED
  BY <1>1, <1>2, InFlightNext, InFlightFinite DEF Bounded

(* Steps of a worker's life: nobody who is answering requests is disturbed. *)
LEMMA LifeLimit ==
    ASSUME ServerAssumption, LimitInv, UNCHANGED <<shared, hits, att>>,
           \A s \in Slots : att[s] # NoAttempt => stage'[att[s].worker] = stage[att[s].worker]
    PROVE  LimitInv'
<1>1. \A h, k : InFlight(h, k)' = InFlight(h, k)
  BY DEF InFlight, HomeOf
<1>2. WithinBudget'
  <2>1. \A h \in Homes, k \in Keys : Bounded(h, k)
    BY <1>1, UntouchedIsBounded
  <2> QED
    BY <2>1, BudgetStep DEF LimitInv
<1>3. Attempts'
  BY DEF LimitInv, Attempts
<1> QED
  BY <1>2, <1>3 DEF LimitInv

(* A worker that goes takes its limiter and its requests with it.           *)
LEMMA GoneLimit ==
    ASSUME ServerAssumption, LimitInv, NEW w \in Workers, Gone(w) PROVE LimitInv'
<1>1. /\ UNCHANGED shared
      /\ stage' = [stage EXCEPT ![w] = "down"]
      /\ hits' = [hits EXCEPT ![w] = [k \in Keys |-> NoHits]]
      /\ att' = [s \in Slots |-> IF att[s] # NoAttempt /\ att[s].worker = w
                                 THEN NoAttempt ELSE att[s]]
  BY DEF Gone
<1>2. NoHits \in [0..Window -> Nat]
  BY DEF NoHits
<1>3. w \in Homes
  BY DEF Homes
<1>4. hits' \in [Homes -> [Keys -> [0..Window -> Nat]]]
  BY <1>1, <1>2 DEF LimitInv
<1>5. att' \in [Slots -> Attempt \cup {NoAttempt}]
  BY <1>1 DEF LimitInv
<1>6. \A s \in Slots : att'[s] # NoAttempt =>
         att[s] # NoAttempt /\ att'[s] = att[s] /\ att[s].worker # w
  BY <1>1
<1>7. \A h, k : InFlight(h, k)' \subseteq InFlight(h, k)
  BY <1>1, <1>6 DEF InFlight, HomeOf
<1>8. \A h \in Homes, k \in Keys : Bounded(h, k)
  <2> TAKE h \in Homes, k \in Keys
  <2>1. CASE h = w
    <3>1. hits'[h][k] = NoHits
      BY <1>1, <1>3, <2>1 DEF LimitInv
    <3>2. Count(h, k)' = 0
      BY <3>1, CountNext, WindowAges, NothingCounted
    <3>3. 0 <= MaxFailures - 1
      BY DEF ServerAssumption
    <3> QED
      BY <3>2, <3>3 DEF Bounded
  <2>2. CASE h # w
    BY <1>1, <1>7, <2>2, UntouchedIsBounded DEF LimitInv
  <2> QED
    BY <2>1, <2>2
<1>9. WithinBudget'
  BY <1>1, <1>4, <1>8, BudgetStep
<1>10. Attempts'
  <2> SUFFICES ASSUME NEW s \in Slots, att'[s] # NoAttempt
               PROVE  stage'[att'[s].worker] = "serving" /\ (att'[s].key \in BudgetKeys => shared')
    BY DEF Attempts
  <2>1. /\ stage[att[s].worker] = "serving" /\ (att[s].key \in BudgetKeys => shared)
        /\ att[s] \in Attempt
    BY <1>6 DEF LimitInv, Attempts
  <2>2. att[s].worker \in Workers
    BY <2>1 DEF Attempt
  <2>3. stage'[att[s].worker] = stage[att[s].worker]
    BY <1>1, <1>6
  <2> QED
    BY <1>1, <1>6, <2>1, <2>3
<1> QED
  BY <1>1, <1>4, <1>5, <1>9, <1>10 DEF LimitInv

LEMMA HomesOfWorkers ==
    ASSUME NEW w \in Workers PROVE HomeOf(w) \in Homes /\ HomeOf(w)' = IF shared' THEN Redis ELSE w
BY DEF HomeOf, Homes

(* An attempt is let in below the limit. *)
LEMMA AskLimit ==
    ASSUME ServerAssumption, LimitInv, NEW s \in Slots, NEW w \in Workers, NEW k \in Keys,
           Ask(s, w, k)
    PROVE  LimitInv'
<1> DEFINE h == HomeOf(w)
           a == [worker |-> w, key |-> k]
<1>1. /\ stage[w] = "serving" /\ att[s] = NoAttempt /\ (k \in LoginKeys \/ shared)
      /\ Count(h, k) < MaxFailures
      /\ att' = [att EXCEPT ![s] = a]
      /\ UNCHANGED <<stage, shared, hits>>
  <2>1. h \in Homes
    BY HomesOfWorkers
  <2>2. Count(h, k) \in Nat /\ MaxFailures \in Nat
    BY <2>1, CountType DEF LimitInv, ServerAssumption
  <2> QED
    BY <2>2 DEF Ask, Limited, procs
<1>2. a \in Attempt /\ a.worker = w /\ a.key = k /\ h \in Homes
  BY HomesOfWorkers DEF Attempt
<1>3. a # NoAttempt
  BY <1>2 DEF ServerAssumption
<1> HIDE DEF a
<1>4. /\ att' \in [Slots -> Attempt \cup {NoAttempt}]
      /\ att'[s] = a /\ \A t \in Slots \ {s} : att'[t] = att[t]
  BY <1>1, <1>2 DEF LimitInv
<1>5. \A g \in Homes, j \in Keys : Bounded(g, j)
  <2> TAKE g \in Homes, j \in Keys
  <2>1. CASE g = h /\ j = k
    <3>1. Count(g, j)' = Count(h, k)
      BY <1>1, <2>1, CountNext, CountIsFailures
    <3>2. Count(h, k) \in Nat /\ MaxFailures \in Nat
      BY <1>2, CountType DEF LimitInv, ServerAssumption
    <3> QED
      BY <1>1, <3>1, <3>2 DEF Bounded
  <2>2. CASE ~(g = h /\ j = k)
    <3>1. InFlight(g, j)' \subseteq InFlight(g, j)
      BY <1>1, <1>2, <1>4, <2>2 DEF InFlight, HomeOf
    <3> QED
      BY <1>1, <3>1, UntouchedIsBounded
  <2> QED
    BY <2>1, <2>2
<1>6. WithinBudget'
  BY <1>1, <1>5, BudgetStep DEF LimitInv
<1>7. Attempts'
  <2>1. k \in BudgetKeys => shared
    BY <1>1 DEF ServerAssumption
  <2> QED
    BY <1>1, <1>2, <1>4, <2>1 DEF LimitInv, Attempts
<1> QED
  BY <1>1, <1>4, <1>6, <1>7 DEF LimitInv

(* Recording one failure. *)
LEMMA RecordedCount ==
    ASSUME ServerAssumption, LimitInv, NEW h \in Homes, NEW k \in Keys, Recorded(h, k)
    PROVE  /\ hits' \in [Homes -> [Keys -> [0..Window -> Nat]]]
           /\ Count(h, k)' <= Count(h, k) + 1
           /\ \A g \in Homes, j \in Keys : ~(g = h /\ j = k) => hits'[g][j] = hits[g][j]
<1> DEFINE f == hits[h][k]
           g == [a \in 0..Window |-> IF a = 0 THEN f[0] + 1 ELSE IF a = Window THEN 0 ELSE f[a]]
           D == InWindow(h)
<1>1. f \in [0..Window -> Nat] /\ Window \in Nat
  BY DEF LimitInv, ServerAssumption
<1>2. g \in [0..Window -> Nat]
  BY <1>1
<1>3. hits' = [hits EXCEPT ![h][k] = g]
  BY DEF Recorded
<1>4. g[0] = f[0] + 1 /\ \A a \in D \ {0} : g[a] = 0 \/ g[a] = f[a]
  BY <1>1, WindowAges
<1> HIDE DEF g
<1>5. /\ hits' \in [Homes -> [Keys -> [0..Window -> Nat]]]
      /\ hits'[h][k] = g
      /\ \A i \in Homes, j \in Keys : ~(i = h /\ j = k) => hits'[i][j] = hits[i][j]
  BY <1>2, <1>3 DEF LimitInv
<1>6. Cardinality(Failures(g, D)) <= Cardinality(Failures(f, D)) + 1
  <2>1. /\ IsFiniteSet(D) /\ 0 \in D
        /\ \A a \in D : f[a] \in Nat
    BY <1>1, WindowAges
  <2> HIDE DEF f, D
  <2> QED
    BY <1>4, <2>1, OneMoreCounted
<1> QED
  BY <1>5, <1>6, CountNext, CountIsFailures

(* The end of an attempt: one less in flight for one more that counts.      *)
LEMMA TellLimit ==
    ASSUME ServerAssumption, LimitInv, NEW s \in Slots, Tell(s) PROVE LimitInv'
<1>1. PICK w \in Workers, k \in Keys, h \in Homes :
         /\ att[s] # NoAttempt /\ att[s].worker = w /\ att[s].key = k /\ h = HomeOf(w)
         /\ \/ Recorded(h, k)
            \/ k \in LoginKeys /\ (Cleared(h, k) \/ UNCHANGED hits)
         /\ att' = [att EXCEPT ![s] = NoAttempt]
         /\ UNCHANGED <<stage, shared>>
  <2>1. att[s].worker \in Workers /\ att[s].key \in Keys
    BY DEF Tell, LimitInv, Attempt
  <2> QED
    BY <2>1, HomesOfWorkers DEF Tell, procs
<1>2. h = HomeOf(w)
  BY <1>1
<1>3. k \in BudgetKeys => shared
  BY <1>1 DEF LimitInv, Attempts
<1>4. /\ att' \in [Slots -> Attempt \cup {NoAttempt}]
      /\ att'[s] = NoAttempt /\ \A t \in Slots \ {s} : att'[t] = att[t]
  BY <1>1 DEF LimitInv
<1>5. /\ \A g, j : InFlight(g, j)' \subseteq InFlight(g, j)
      /\ InFlight(h, k)' = InFlight(h, k) \ {s} /\ s \in InFlight(h, k)
  BY <1>1, <1>4 DEF InFlight, HomeOf
<1>6. Cardinality(InFlight(h, k)') <= Cardinality(InFlight(h, k)) - 1
  <2>1. IsFiniteSet(InFlight(h, k)) /\ Cardinality(InFlight(h, k)) \in Nat
    BY InFlightFinite
  <2>2. Cardinality(InFlight(h, k) \ {s}) = Cardinality(InFlight(h, k)) - 1
    BY <1>5, <2>1, FS_RemoveElement
  <2> QED
    BY <1>5, <2>1, <2>2
<1>7. /\ hits' \in [Homes -> [Keys -> [0..Window -> Nat]]]
      /\ Count(h, k)' <= Count(h, k) + 1
      /\ \A g \in Homes, j \in Keys : ~(g = h /\ j = k) => hits'[g][j] = hits[g][j]
  <2>1. CASE Recorded(h, k)
    BY <1>2, <2>1, RecordedCount
  <2>2. CASE UNCHANGED hits
    <3>1. Count(h, k)' = Count(h, k)
      BY <2>2, CountNext, CountIsFailures
    <3>2. Count(h, k) \in Nat
      BY <1>2, CountType DEF LimitInv
    <3> QED
      BY <2>2, <3>1, <3>2 DEF LimitInv
  <2>3. CASE Cleared(h, k)
    <3>1. NoHits \in [0..Window -> Nat]
      BY DEF NoHits
    <3>2. hits' = [hits EXCEPT ![h][k] = NoHits]
      BY <2>3 DEF Cleared
    <3>3. /\ hits' \in [Homes -> [Keys -> [0..Window -> Nat]]]
          /\ hits'[h][k] = NoHits
          /\ \A g \in Homes, j \in Keys : ~(g = h /\ j = k) => hits'[g][j] = hits[g][j]
      BY <1>2, <3>1, <3>2 DEF LimitInv
    <3>4. Count(h, k)' = 0
      BY <3>3, CountNext, NothingCounted, WindowAges
    <3>5. Count(h, k) \in Nat
      BY <1>2, CountType DEF LimitInv
    <3> QED
      BY <3>3, <3>4, <3>5
  <2> QED
    BY <1>1, <2>1, <2>2, <2>3
<1>8. \A g \in Homes, j \in Keys : Bounded(g, j)
  <2> TAKE g \in Homes, j \in Keys
  <2>1. CASE g = h /\ j = k
    BY <1>3, <1>6, <1>7, <2>1 DEF Bounded
  <2>2. CASE ~(g = h /\ j = k)
    BY <1>5, <1>7, <2>2, UntouchedIsBounded
  <2> QED
    BY <2>1, <2>2
<1>9. WithinBudget'
  BY <1>1, <1>7, <1>8, BudgetStep
<1>10. Attempts'
  BY <1>1, <1>4 DEF LimitInv, Attempts
<1> QED
  BY <1>1, <1>4, <1>7, <1>9, <1>10 DEF LimitInv

(* A budget counted in the process, in the same breath as it is asked for.  *)
LEMMA SpendLimit ==
    ASSUME ServerAssumption, LimitInv, NEW w \in Workers, NEW k \in Keys, Spend(w, k)
    PROVE  LimitInv'
<1>1. /\ ~shared /\ k \in BudgetKeys /\ Recorded(w, k)
      /\ Count(w, k) < MaxFailures /\ Count(w, k) \in Nat /\ MaxFailures \in Nat
      /\ UNCHANGED <<stage, shared, att>> /\ w \in Homes
  <2>1. w \in Homes
    BY DEF Homes
  <2>2. Count(w, k) \in Nat /\ MaxFailures \in Nat
    BY <2>1, CountType DEF LimitInv, ServerAssumption
  <2> QED
    BY <2>1, <2>2 DEF Spend, Limited, procs
<1>2. /\ hits' \in [Homes -> [Keys -> [0..Window -> Nat]]]
      /\ Count(w, k)' <= Count(w, k) + 1
      /\ \A g \in Homes, j \in Keys : ~(g = w /\ j = k) => hits'[g][j] = hits[g][j]
  BY <1>1, RecordedCount
<1>3. \A h, j : InFlight(h, j)' = InFlight(h, j)
  BY <1>1 DEF InFlight, HomeOf
<1>4. InFlight(w, k) = {}
  BY <1>1 DEF LimitInv, Attempts, InFlight
<1>5. \A g \in Homes, j \in Keys : Bounded(g, j)
  <2> TAKE g \in Homes, j \in Keys
  <2>1. CASE g = w /\ j = k
    <3>1. Count(w, k)' \in Nat
      BY <1>1, <1>2, CountTypeNext
    <3>2. Count(w, k)' <= MaxFailures
      BY <1>1, <1>2, <3>1
    <3> QED
      BY <1>3, <1>4, <2>1, <3>2 DEF Bounded
  <2>2. CASE ~(g = w /\ j = k)
    BY <1>2, <1>3, <2>2, UntouchedIsBounded
  <2> QED
    BY <2>1, <2>2
<1>6. WithinBudget'
  BY <1>1, <1>2, <1>5, BudgetStep
<1>7. Attempts'
  BY <1>1 DEF LimitInv, Attempts
<1> QED
  BY <1>1, <1>2, <1>6, <1>7 DEF LimitInv

(* Time only takes away. *)
LEMMA TickLimit ==
    ASSUME ServerAssumption, LimitInv, Tick PROVE LimitInv'
<1> DEFINE later(h, k) == [a \in 0..Window |->
              IF a = 0 \/ a \notin InWindow(h) THEN 0 ELSE hits[h][k][a - 1]]
<1>1. /\ hits' = [h \in Homes |-> [k \in Keys |-> later(h, k)]]
      /\ UNCHANGED <<stage, shared, att>>
  BY DEF Tick, procs
<1>2. Window \in Nat \ {0}
  BY DEF ServerAssumption
<1>3. \A h \in Homes, k \in Keys : later(h, k) \in [0..Window -> Nat]
  <2> TAKE h \in Homes, k \in Keys
  <2>1. hits[h][k] \in [0..Window -> Nat]
    BY DEF LimitInv
  <2>2. \A a \in 0..Window : a # 0 => hits[h][k][a - 1] \in Nat
    BY <1>2, <2>1
  <2> QED
    BY <2>2
<1>4. \A h \in Homes, k \in Keys : hits'[h][k] = later(h, k)
  BY <1>1
<1>5. hits' \in [Homes -> [Keys -> [0..Window -> Nat]]]
  <2> HIDE DEF later
  <2> QED
    BY <1>1, <1>3
<1>6. \A h \in Homes, k \in Keys : Count(h, k)' <= Count(h, k)
  <2> TAKE h \in Homes, k \in Keys
  <2> DEFINE n == IF h = Redis THEN Window ELSE Window - 1
  <2>1. n \in Nat /\ n <= Window /\ InWindow(h) = 0..n
    BY <1>2 DEF InWindow
  <2>2. \A a \in 0..n : hits[h][k][a] \in Nat
    BY <1>2, <2>1 DEF LimitInv
  <2>3. \A a \in 0..n : later(h, k)[a] = IF a = 0 THEN 0 ELSE hits[h][k][a - 1]
    BY <1>2, <2>1
  <2> HIDE DEF n, later
  <2>4. Cardinality(Failures(later(h, k), 0..n)) <= Cardinality(Failures(hits[h][k], 0..n))
    BY <2>1, <2>2, <2>3, NoMoreCounted
  <2> QED
    BY <1>4, <2>1, <2>4, CountNext, CountIsFailures
<1>7. \A h, k : InFlight(h, k)' = InFlight(h, k)
  BY <1>1 DEF InFlight, HomeOf
<1>8. \A h \in Homes, k \in Keys : Bounded(h, k)
  <2> TAKE h \in Homes, k \in Keys
  <2>1. Cardinality(InFlight(h, k)') <= Cardinality(InFlight(h, k))
    BY <1>7, InFlightNext
  <2> QED
    BY <1>6, <2>1 DEF Bounded
<1>9. WithinBudget'
  BY <1>1, <1>5, <1>8, BudgetStep
<1>10. Attempts'
  BY <1>1 DEF LimitInv, Attempts
<1> QED
  BY <1>1, <1>5, <1>9, <1>10 DEF LimitInv

-----------------------------------------------------------------------------
(* The theorems about workers *)

(* Every step keeps both parts. *)
LEMMA ServerStep ==
    ASSUME ServerAssumption, ProcInv, LimitInv, [Next]_vars
    PROVE  ProcInv' /\ LimitInv'
<1>1. ASSUME UNCHANGED <<stage, app, started, open>> PROVE ProcInv'
  BY <1>1 DEF ProcInv, Kept, InOrder
<1>2. CASE UNCHANGED vars
  <2>1. LimitInv'
    BY <1>2, LifeLimit DEF vars
  <2> QED
    BY <1>1, <1>2, <2>1 DEF vars
<1>3. ASSUME NEW w \in Workers,
             \/ Create(w) \/ RegisterLate(w) \/ Startup(w) \/ Serve(w) \/ Stop(w) \/ Shutdown(w)
      PROVE  ProcInv' /\ LimitInv'
  <2>1. ProcInv'
    BY <1>1, <1>3, CreateProc, RegisterLateProc, StartupProc, ServeStopProc, ShutdownProc
  <2>2. UNCHANGED <<shared, hits, att>>
    BY <1>3 DEF Create, RegisterLate, Startup, Serve, Stop, Shutdown
  <2>3. ASSUME NEW s \in Slots, att[s] # NoAttempt
        PROVE  stage'[att[s].worker] = stage[att[s].worker]
    <3>1. stage[att[s].worker] = "serving" /\ att[s].worker \in Workers
      BY <2>3 DEF LimitInv, Attempts, Attempt
    <3>2. CASE att[s].worker = w
      BY <1>3, <3>1, <3>2, <2>3 DEF Create, RegisterLate, Startup, Serve, Stop, Shutdown
    <3>3. CASE att[s].worker # w
      BY <1>3, <3>1, <3>3 DEF ProcInv, Create, RegisterLate, Startup, Serve, Stop, Shutdown
    <3> QED
      BY <3>2, <3>3
  <2>4. LimitInv'
    BY <2>2, <2>3, LifeLimit
  <2> QED
    BY <2>1, <2>4
<1>4. ASSUME NEW w \in Workers, Exit(w) \/ Kill(w) PROVE ProcInv' /\ LimitInv'
  BY <1>4, GoneProc, GoneLimit DEF Exit, Kill
<1>5. ASSUME NEW w \in Workers, NEW k \in Keys, Spend(w, k) \/ Refuse(w, k)
      PROVE  ProcInv' /\ LimitInv'
  <2>1. UNCHANGED <<stage, app, started, open>>
    BY <1>5 DEF Spend, Refuse, vars, procs
  <2>2. CASE Spend(w, k)
    BY <1>1, <2>1, <2>2, SpendLimit
  <2>3. CASE Refuse(w, k)
    BY <1>2, <2>3 DEF Refuse
  <2> QED
    BY <1>5, <2>2, <2>3
<1>6. ASSUME NEW w \in Workers, NEW k \in Keys, NEW s \in Slots, Ask(s, w, k)
      PROVE  ProcInv' /\ LimitInv'
  BY <1>1, <1>6, AskLimit DEF Ask, procs
<1>7. ASSUME NEW s \in Slots, Tell(s) PROVE ProcInv' /\ LimitInv'
  BY <1>1, <1>7, TellLimit DEF Tell, procs
<1>8. CASE Tick
  BY <1>1, <1>8, TickLimit DEF Tick, procs
<1> QED
  BY <1>2, <1>3, <1>4, <1>5, <1>6, <1>7, <1>8 DEF Next

LEMMA ServerInvariant == Spec => [](ProcInv /\ LimitInv)
<1>1. Init => ProcInv /\ LimitInv
  BY ServerAssumption, ServerInit
<1>2. ProcInv /\ LimitInv /\ [Next]_vars => (ProcInv /\ LimitInv)'
  BY ServerAssumption, ServerStep
<1> QED
  BY <1>1, <1>2, PTL DEF Spec

(* Processes, limiters and attempts always have their types.                *)
THEOREM ServerTypeCorrect == Spec => []TypeOK
<1>1. ProcInv /\ LimitInv => TypeOK
  BY DEF ProcInv, LimitInv, TypeOK
<1> QED
  BY <1>1, ServerInvariant, PTL

(* A worker serves with just what the extensions' hooks gave, and with an   *)
(* entry for just the guarded pages of the hook for pages: setting up       *)
(* mirrors after all are declared and before register_routes, and freezes   *)
(* the registries after it (run_setup_phase, install_routes).               *)
THEOREM ServesTheSetUp == Spec => []ServesWhatWasSetUp
<1>1. ASSUME ProcInv PROVE ServesWhatWasSetUp
  <2> SUFFICES ASSUME NEW w \in Workers, stage[w] = "serving"
               PROVE  /\ app[w].regs = Wanted /\ app[w].nav = Pages
                      /\ \A i, j \in 1..Len(app[w].routes) :
                            app[w].routes[i] = "extensions" /\ app[w].routes[j] = "crud" => i < j
    BY DEF ServesWhatWasSetUp, Pages
  <2>1. app[w] = Built
    BY <1>1 DEF ProcInv, Kept
  <2>2. app[w].regs = Wanted /\ app[w].routes = AllRoutes /\ app[w].nav = Pages
    BY <2>1 DEF Built
  <2>3. \A i, j \in 1..Len(AllRoutes) :
           AllRoutes[i] = "extensions" /\ AllRoutes[j] = "crud" => i < j
    <3>1. 1..Len(AllRoutes) = {1, 2, 3}
      BY AllRoutesOrdered
    <3> QED
      BY <3>1, AllRoutesOrdered
  <2> QED
    BY <2>2, <2>3
<1>2. ProcInv => ServesWhatWasSetUp
  BY <1>1
<1> QED
  BY <1>2, ServerInvariant, PTL

(* An extension is used between its startup and its shutdown, by extensions *)
(* after it and by requests, however far startup got and whatever failed.   *)
THEOREM ExtensionsUsedWhileOpen == Spec => []UsedWhileOpen
<1>1. ASSUME ProcInv, LimitInv PROVE UsedWhileOpen
  <2>1. ASSUME NEW w \in Workers
        PROVE  /\ \A e \in open[w] : 1..e \subseteq open[w]
               /\ stage[w] = "down" => open[w] = {}
    <3>1. open[w] = 1..Len(started[w]) /\ Len(started[w]) \in Nat
      BY <1>1 DEF ProcInv, InOrder
    <3>2. stage[w] = "down" => Len(started[w]) = 0
      BY <1>1 DEF ProcInv, InOrder
    <3> QED
      BY <3>1, <3>2
  <2>2. ASSUME NEW s \in Slots, att[s] # NoAttempt PROVE open[att[s].worker] = Exts
    <3>1. att[s].worker \in Workers /\ stage[att[s].worker] = "serving"
      BY <1>1, <2>2 DEF LimitInv, Attempts, Attempt
    <3> QED
      BY <1>1, <3>1 DEF ProcInv, InOrder, Exts
  <2> QED
    BY <2>1, <2>2 DEF UsedWhileOpen
<1>2. ProcInv /\ LimitInv => UsedWhileOpen
  BY <1>1
<1> QED
  BY <1>2, ServerInvariant, PTL

(* A limiter lets through its limit and those who were let in with the last; *)
(* a budget in the process is kept to exactly (is_limited, record_failure).  *)
THEOREM BudgetsAreKept == Spec => []WithinBudget
<1>1. LimitInv => WithinBudget
  BY DEF LimitInv
<1> QED
  BY <1>1, ServerInvariant, PTL
=============================================================================
