------------------------------- MODULE Server -------------------------------
(***************************************************************************)
(* The worker processes: what create_admin sets up, the extensions'        *)
(* startup and shutdown around serving, and the rate limiters that the     *)
(* routes of a serving worker ask, in the process or shared by all.        *)
(*                                                                         *)
(* Setup runs in one go before anything is served, so it is one action.    *)
(* A limiter keeps, per key, how many failures are how old.                *)
(*                                                                         *)
(* A definition named X_Something is a faulty variant of X, there to show  *)
(* that a property depends on X; no specification uses it.                 *)
(***************************************************************************)
EXTENDS Naturals, FiniteSets, SequencesExt

CONSTANTS
    Workers,
    NumExts,        \* extensions, in the order of registration
    Contributes,    \* per extension: the registries its hooks for them write to
    AtRoutes,       \* per extension: the registries its register_routes writes to
    Guarded,        \* extensions whose admin pages have a permission
    LoginKeys,      \* limiter keys of password and second-factor attempts
    BudgetKeys,     \* keys of the tenant and the password-reset limiters
    MaxFailures, Window,
    Slots,          \* bound: attempts in flight
    Redis, NoAttempt, NoApp

Exts == 1..NumExts
Registries == {"permissions", "protected_fields", "contract", "admin_pages", "navigation"}

(* What an extension gives to a registry, and when. *)
Items == {"hook", "routes", "late"} \X Registries \X Exts

Keys == LoginKeys \cup BudgetKeys
Homes == Workers \cup {Redis}

VARIABLES
    stage,      \* per worker
    app,        \* per worker: its registries and routes
    started,    \* per worker: the list of the lifespan
    open,       \* per worker: extensions between startup and shutdown
    shared,     \* whether the deployment has the Redis limiter
    hits,       \* per limiter and key: age -> number of failures
    att         \* per slot: an attempt past the question

procs == <<stage, app, started, open>>
vars == <<stage, app, started, open, shared, hits, att>>

Stages == {"down", "ready", "starting", "serving", "stopping"}

App == [regs : SUBSET Items, nav : SUBSET Items,
        frozen : SUBSET Registries, routes : Seq({"extensions", "actions", "crud"})]

Attempt == [worker : Workers, key : Keys]

ASSUME ServerAssumption ==
    /\ NumExts \in Nat
    /\ Contributes \in [Exts -> SUBSET Registries]
    /\ AtRoutes \in [Exts -> SUBSET Registries] /\ Guarded \subseteq Exts
    /\ MaxFailures \in Nat \ {0} /\ Window \in Nat \ {0}
    /\ IsFiniteSet(Slots) /\ Slots # {}
    /\ LoginKeys \cap BudgetKeys = {}
    /\ Redis \notin Workers
    /\ NoAttempt \notin Attempt /\ NoApp \notin App

NoHits == [a \in 0..Window |-> 0]

TypeOK ==
    /\ stage \in [Workers -> Stages]
    /\ app \in [Workers -> App \cup {NoApp}]
    /\ started \in [Workers -> Seq(Exts)]
    /\ open \in [Workers -> SUBSET Exts]
    /\ shared \in BOOLEAN
    /\ hits \in [Homes -> [Keys -> [0..Window -> Nat]]]
    /\ att \in [Slots -> Attempt \cup {NoAttempt}]

Init ==
    /\ stage = [w \in Workers |-> "down"]
    /\ app = [w \in Workers |-> NoApp]
    /\ started = [w \in Workers |-> <<>>]
    /\ open = [w \in Workers |-> {}]
    /\ shared \in BOOLEAN
    /\ hits = [h \in Homes |-> [k \in Keys |-> NoHits]]
    /\ att = [s \in Slots |-> NoAttempt]

-----------------------------------------------------------------------------
(* create_admin *)

Blank == [regs |-> {}, nav |-> {}, frozen |-> {}, routes |-> <<>>]

(* A registry takes nothing any more once it is frozen. *)
Registered(a, items) == [a EXCEPT !.regs = @ \cup {i \in items : i[2] \notin a.frozen}]

(* One round of a hook, over all extensions. *)
Declared(a, r) == Registered(a, {i \in Items : i[1] = "hook" /\ i[2] = r /\ r \in Contributes[i[3]]})

(* Admin pages become entries of the navigation, which wants a permission. *)
Mirrored(a) == [a EXCEPT !.nav = {i \in a.regs : i[2] = "admin_pages" /\ i[3] \in Guarded}]

Frozen(a) == [a EXCEPT !.frozen = Registries]

Mounted(a, family) == [a EXCEPT !.routes = Append(@, family)]

(* register_routes has the application and all registries. *)
Routed(a) ==
    Mounted(Registered(a, {i \in Items : i[1] = "routes" /\ i[2] \in AtRoutes[i[3]]}), "extensions")

Ruled(a) == Declared(Declared(Declared(a, "permissions"), "protected_fields"), "contract")

Paged(a) == Declared(Declared(a, "admin_pages"), "navigation")

SetUp_MirrorFirst ==
    Mounted(Mounted(Frozen(Routed(Paged(Mirrored(Ruled(Blank))))), "actions"), "crud")

(* run_setup_phase, then install_routes. *)
SetUp == Mounted(Mounted(Frozen(Routed(Mirrored(Paged(Ruled(Blank))))), "actions"), "crud")

(* A hook that raises ends create_admin, and the process with it. *)
Create(w) ==
    /\ stage[w] = "down"
    /\ stage' = [stage EXCEPT ![w] = "ready"]
    /\ app' = [app EXCEPT ![w] = SetUp]
    /\ UNCHANGED <<started, open, shared, hits, att>>

(* Code of an extension registers something when it is too late. *)
RegisterLate(w) ==
    /\ stage[w] \in {"starting", "serving", "stopping"}
    /\ \E e \in Exts, r \in Registries : app' = [app EXCEPT ![w] = Registered(@, {<<"late", r, e>>})]
    /\ UNCHANGED <<stage, started, open, shared, hits, att>>

-----------------------------------------------------------------------------
(* compose_lifespan *)

(* startup of one extension after the other; "started" lists those whose   *)
(* startup has returned.  One that raises is taken to have opened nothing. *)
Startup(w) ==
    /\ stage[w] \in {"ready", "starting"}
    /\ Len(started[w]) < NumExts
    /\ LET e == Len(started[w]) + 1
       IN \/ /\ started' = [started EXCEPT ![w] = Append(@, e)]
             /\ open' = [open EXCEPT ![w] = @ \cup {e}]
             /\ stage' = [stage EXCEPT ![w] = "starting"]
          \/ /\ stage' = [stage EXCEPT ![w] = "stopping"]
             /\ UNCHANGED <<started, open>>
    /\ UNCHANGED <<app, shared, hits, att>>

(* The yield, in the lifespan of the application if it has one. *)
Serve(w) ==
    /\ stage[w] \in {"ready", "starting"}
    /\ Len(started[w]) = NumExts
    /\ \E next \in {"serving", "stopping"} : stage' = [stage EXCEPT ![w] = next]
    /\ UNCHANGED <<app, started, open, shared, hits, att>>

(* The server ends the lifespan when the requests have been answered. *)
Stop(w) ==
    /\ stage[w] = "serving"
    /\ \A s \in Slots : att[s] # NoAttempt => att[s].worker # w
    /\ stage' = [stage EXCEPT ![w] = "stopping"]
    /\ UNCHANGED <<app, started, open, shared, hits, att>>

Shutdown_InOrder(w) ==
    /\ stage[w] = "stopping"
    /\ started[w] # <<>>
    /\ open' = [open EXCEPT ![w] = @ \ {Head(started[w])}]
    /\ started' = [started EXCEPT ![w] = Tail(@)]
    /\ UNCHANGED <<stage, app, shared, hits, att>>

(* reversed(started); the loop goes on after a shutdown that has raised.    *)
Shutdown(w) ==
    /\ stage[w] = "stopping"
    /\ started[w] # <<>>
    /\ open' = [open EXCEPT ![w] = @ \ {Last(started[w])}]
    /\ started' = [started EXCEPT ![w] = Front(@)]
    /\ UNCHANGED <<stage, app, shared, hits, att>>

(* The memory of the process goes: its limiter, and requests it was in. *)
Gone(w) ==
    /\ stage' = [stage EXCEPT ![w] = "down"]
    /\ app' = [app EXCEPT ![w] = NoApp]
    /\ started' = [started EXCEPT ![w] = <<>>]
    /\ hits' = [hits EXCEPT ![w] = [k \in Keys |-> NoHits]]
    /\ att' = [s \in Slots |-> IF att[s] # NoAttempt /\ att[s].worker = w
                               THEN NoAttempt ELSE att[s]]
    /\ UNCHANGED shared

Exit(w) ==
    /\ stage[w] = "stopping"
    /\ started[w] = <<>>
    /\ Gone(w)
    /\ UNCHANGED open

Kill(w) ==
    /\ stage[w] # "down"
    /\ Gone(w)
    /\ open' = [open EXCEPT ![w] = {}]

-----------------------------------------------------------------------------
(* The limiters *)

HomeOf(w) == IF shared THEN Redis ELSE w

(* ts > now - window in the process; ZCOUNT of Redis is inclusive. *)
InWindow(h) == IF h = Redis THEN 0..Window ELSE 0..(Window - 1)

(* The failures of one age, told apart by a number. *)
OfAge(h, k, a) == {a} \X (1..hits[h][k][a])

Count(h, k) == Cardinality(UNION {OfAge(h, k, a) : a \in InWindow(h)})

Limited_AfterOneMore(h, k) == Count(h, k) > MaxFailures

Limited(h, k) == Count(h, k) >= MaxFailures

(* record_failure drops what has aged out and adds one. *)
Recorded(h, k) ==
    hits' = [hits EXCEPT ![h][k] =
                [a \in 0..Window |-> IF a = 0 THEN @[0] + 1
                                     ELSE IF a = Window THEN 0 ELSE @[a]]]

Cleared(h, k) == hits' = [hits EXCEPT ![h][k] = NoHits]

(* Login, second factor: is_limited, and then the check of the password is *)
(* awaited.  Behind Redis also the tenant's budget is asked for in one     *)
(* call and counted in another.                                            *)
Ask(s, w, k) ==
    /\ stage[w] = "serving"
    /\ att[s] = NoAttempt
    /\ k \in LoginKeys \/ shared
    /\ ~Limited(HomeOf(w), k)
    /\ att' = [att EXCEPT ![s] = [worker |-> w, key |-> k]]
    /\ UNCHANGED <<procs, shared, hits>>

Refuse_Refreshes(w, k) ==
    /\ stage[w] = "serving"
    /\ Limited(HomeOf(w), k)
    /\ hits' = [hits EXCEPT ![HomeOf(w)][k] =
                   [a \in 0..Window |-> IF a = 0 THEN MaxFailures ELSE 0]]
    /\ UNCHANGED <<procs, shared, att>>

(* 429: audited, and not counted. *)
Refuse(w, k) ==
    /\ stage[w] = "serving"
    /\ Limited(HomeOf(w), k)
    /\ UNCHANGED vars

(* LoginError counts, success clears, any other error does neither; a      *)
(* request always counts against a budget.                                 *)
Tell(s) ==
    /\ att[s] # NoAttempt
    /\ LET h == HomeOf(att[s].worker)
           k == att[s].key
       IN \/ Recorded(h, k)
          \/ k \in LoginKeys /\ (Cleared(h, k) \/ UNCHANGED hits)
    /\ att' = [att EXCEPT ![s] = NoAttempt]
    /\ UNCHANGED <<procs, shared>>

(* In the process nothing suspends between question and count. *)
Spend(w, k) ==
    /\ stage[w] = "serving"
    /\ ~shared /\ k \in BudgetKeys
    /\ ~Limited(w, k)
    /\ Recorded(w, k)
    /\ UNCHANGED <<procs, shared, att>>

Tick ==
    /\ hits' = [h \in Homes |-> [k \in Keys |-> [a \in 0..Window |->
                   IF a = 0 \/ a \notin InWindow(h) THEN 0 ELSE hits[h][k][a - 1]]]]
    /\ UNCHANGED <<procs, shared, att>>

-----------------------------------------------------------------------------

Next ==
    \/ \E w \in Workers :
          \/ Create(w) \/ RegisterLate(w) \/ Startup(w) \/ Serve(w) \/ Stop(w)
          \/ Shutdown(w) \/ Exit(w) \/ Kill(w)
          \/ \E k \in Keys : Spend(w, k) \/ Refuse(w, k) \/ \E s \in Slots : Ask(s, w, k)
    \/ \E s \in Slots : Tell(s)
    \/ Tick

(* Only time is fair: clients may go away, and workers hang. *)
Spec == Init /\ [][Next]_vars /\ WF_vars(Tick)

-----------------------------------------------------------------------------
(* Properties *)

Wanted ==
    {i \in Items : \/ i[1] = "hook" /\ i[2] \in Contributes[i[3]]
                   \/ i[1] = "routes" /\ i[2] \in AtRoutes[i[3]]}

(* While a worker serves, its registries hold what the extensions' hooks   *)
(* have given, the registrations of register_routes among them, and        *)
(* nothing else, whatever their code tries later.  The pages of            *)
(* register_admin_pages that have a permission, and no others, have their  *)
(* entry in the navigation; and static routes of extensions come before    *)
(* the CRUD route that matches them too.                                   *)
ServesWhatWasSetUp ==
    \A w \in Workers : stage[w] = "serving" =>
        /\ app[w].regs = Wanted
        /\ app[w].nav = {i \in Wanted : i[1] = "hook" /\ i[2] = "admin_pages" /\ i[3] \in Guarded}
        /\ \A i, j \in 1..Len(app[w].routes) :
              app[w].routes[i] = "extensions" /\ app[w].routes[j] = "crud" => i < j

(* An extension may use those registered before it from its startup to its *)
(* shutdown, wherever startup or shutdown failed; what ended orderly has   *)
(* nothing open, and requests run while everything is.                     *)
UsedWhileOpen ==
    /\ \A w \in Workers :
          /\ \A e \in open[w] : 1..e \subseteq open[w]
          /\ stage[w] = "down" => open[w] = {}
    /\ \A s \in Slots : att[s] # NoAttempt => open[att[s].worker] = Exts

InFlight(h, k) ==
    {s \in Slots : att[s] # NoAttempt /\ att[s].key = k /\ HomeOf(att[s].worker) = h}

(* The checks of a window are MaxFailures plus those that had been let in  *)
(* together with the last; in the process a budget is never exceeded       *)
(* ("exactly max requests pass per window and the next is rejected").      *)
WithinBudget ==
    \A h \in Homes, k \in Keys :
        /\ Count(h, k) + Cardinality(InFlight(h, k)) <= MaxFailures - 1 + Cardinality(Slots)
        /\ k \in BudgetKeys /\ ~shared => Count(h, k) <= MaxFailures

(* A lockout ends, however often its victim or somebody else tries. *)
LockoutEnds == \A h \in Homes, k \in Keys : Limited(h, k) ~> ~Limited(h, k)
=============================================================================
