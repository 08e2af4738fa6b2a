---------------------------- MODULE EmailOutbox ----------------------------
(***************************************************************************)
(* The transactional email outbox: requests that queue an email in their   *)
(* own transaction, and runs of process_outbox that deliver what is due.   *)
(*                                                                         *)
(* A run reads its batch, delivers email by email while its changes wait   *)
(* in the session, and writes them in the commit of its caller.  A crash   *)
(* loses the changes and not the deliveries.  Time is the ticks left until *)
(* scheduled_at.                                                           *)
(*                                                                         *)
(* A definition named X_Something is a faulty variant of X, there to show  *)
(* that a property depends on X; no specification uses it.                 *)
(***************************************************************************)
EXTENDS Naturals, Sequences, FiniteSets, Functions

CONSTANTS
    Emails,
    Runs,          \* runs of process_outbox that may overlap
    Batch, MaxAttempts,
    BackoffCap,    \* the longest backoff, in ticks
    MaxCrashes,    \* bound: runs that die
    NoRow

ASSUME EmailOutboxAssumption ==
    /\ Batch \in Nat \ {0} /\ MaxAttempts \in Nat \ {0}
    /\ BackoffCap \in Nat /\ MaxCrashes \in Nat

VARIABLES
    request,     \* per email: the transaction that queues it
    queue,       \* the emails by created_at
    outbox,      \* email_outbox: the committed rows
    batch,       \* per run: the emails still to deliver, oldest first
    loaded,      \* per run: the rows of its session, with its changes
    age,         \* per run: ticks since it started
    running,
    crashes,
    delivered, refused   \* history, per email: outcomes of deliver

runVars == <<batch, loaded, age, running>>
history == <<delivered, refused>>
vars == <<request, queue, outbox, batch, loaded, age, running, crashes, delivered, refused>>

Row == [status: {"pending", "sent", "failed"}, attempts: 0..MaxAttempts,
        wait: 0..BackoffCap]

ASSUME NoRowAssumption == NoRow \notin Row

(* The history counters stop here, beyond what any property tells apart. *)
Many == MaxAttempts + 1

TypeOK ==
    /\ request \in [Emails -> {"none", "open", "committed", "rolled back"}]
    /\ queue \in Seq(Emails) /\ IsInjective(queue)
    /\ outbox \in [Emails -> Row \cup {NoRow}]
    /\ batch \in [Runs -> SUBSET Emails]
    /\ loaded \in [Runs -> [Emails -> Row \cup {NoRow}]]
    /\ age \in [Runs -> 0..BackoffCap]
    /\ running \subseteq Runs
    /\ crashes \in 0..MaxCrashes
    /\ delivered \in [Emails -> 0..Many] /\ refused \in [Emails -> 0..Many]

Nothing == [e \in Emails |-> NoRow]

Init ==
    /\ request = [e \in Emails |-> "none"]
    /\ queue = <<>>
    /\ outbox = Nothing
    /\ batch = [r \in Runs |-> {}]
    /\ loaded = [r \in Runs |-> Nothing]
    /\ age = [r \in Runs |-> 0]
    /\ running = {}
    /\ crashes = 0
    /\ delivered = [e \in Emails |-> 0]
    /\ refused = [e \in Emails |-> 0]

-----------------------------------------------------------------------------
(* Queueing *)

NewRow == [status |-> "pending", attempts |-> 0, wait |-> 0]

EnqueueInRequest_OwnTransaction(e) ==
    /\ request[e] = "none"
    /\ request' = [request EXCEPT ![e] = "open"]
    /\ queue' = Append(queue, e)
    /\ outbox' = [outbox EXCEPT ![e] = NewRow]
    /\ UNCHANGED <<runVars, crashes, history>>

(* OutboxEmailNotifier with the session of the request: a row of the       *)
(* transaction that made the invitation or the reset token.                *)
EnqueueInRequest(e) ==
    /\ request[e] = "none"
    /\ request' = [request EXCEPT ![e] = "open"]
    /\ queue' = Append(queue, e)
    /\ UNCHANGED <<outbox, runVars, crashes, history>>

CommitRequest(e) ==
    /\ request[e] = "open"
    /\ request' = [request EXCEPT ![e] = "committed"]
    /\ outbox' = [outbox EXCEPT ![e] = NewRow]
    /\ UNCHANGED <<queue, runVars, crashes, history>>

RollBackRequest(e) ==
    /\ request[e] = "open"
    /\ request' = [request EXCEPT ![e] = "rolled back"]
    /\ UNCHANGED <<queue, outbox, runVars, crashes, history>>

(* Outside a request: a transaction of its own. *)
EnqueueAlone(e) ==
    /\ request[e] = "none"
    /\ request' = [request EXCEPT ![e] = "committed"]
    /\ queue' = Append(queue, e)
    /\ outbox' = [outbox EXCEPT ![e] = NewRow]
    /\ UNCHANGED <<runVars, crashes, history>>

-----------------------------------------------------------------------------
(* process_outbox *)

Due_AnyStatus(e) == outbox[e] # NoRow /\ outbox[e].wait = 0

Due(e) == outbox[e] # NoRow /\ outbox[e].status = "pending" /\ outbox[e].wait = 0

Before(d, e) == \E i, j \in DOMAIN queue : i < j /\ queue[i] = d /\ queue[j] = e

(* ORDER BY created_at LIMIT batch_size *)
DueBatch ==
    {e \in Emails : Due(e) /\ Cardinality({d \in Emails : Due(d) /\ Before(d, e)}) < Batch}

Begin(r) ==
    /\ r \notin running
    /\ DueBatch # {}
    /\ running' = running \cup {r}
    /\ batch' = [batch EXCEPT ![r] = DueBatch]
    /\ loaded' = [loaded EXCEPT ![r] =
          [e \in Emails |-> IF e \in DueBatch THEN outbox[e] ELSE NoRow]]
    /\ age' = [age EXCEPT ![r] = 0]
    /\ UNCHANGED <<request, queue, outbox, crashes, history>>

(* _backoff(attempts), from the moment the run started. *)
Backoff(attempts) ==
    IF attempts * attempts < BackoffCap THEN attempts * attempts ELSE BackoffCap

WaitFor(attempts, ticks) ==
    IF ticks < Backoff(attempts) THEN Backoff(attempts) - ticks ELSE 0

Refused_Uncounted(row, ticks) == [row EXCEPT !.wait = WaitFor(1, ticks)]

Refused_OneMore(row, ticks) ==
    IF row.attempts + 1 > MaxAttempts
    THEN [row EXCEPT !.status = "failed"]
    ELSE [row EXCEPT !.attempts = @ + 1, !.wait = WaitFor(row.attempts + 1, ticks)]

Refused_TooLate(row, ticks) ==
    [row EXCEPT !.attempts = @ + 1,
                !.status = IF row.attempts + 1 >= MaxAttempts THEN "failed" ELSE @,
                !.wait = BackoffCap + row.attempts + 1]

(* What a refused delivery makes of the row. *)
Refused(row, ticks) ==
    IF row.attempts + 1 >= MaxAttempts
    THEN [row EXCEPT !.attempts = @ + 1, !.status = "failed"]
    ELSE [row EXCEPT !.attempts = @ + 1, !.wait = WaitFor(row.attempts + 1, ticks)]

Count(n) == IF n < Many THEN n + 1 ELSE n

(* The next email of the batch: deliver returns or raises. *)
Deliver(r) ==
    /\ \E e \in batch[r] :
          /\ \A d \in batch[r] : ~Before(d, e)
          /\ batch' = [batch EXCEPT ![r] = @ \ {e}]
          /\ \/ /\ loaded' = [loaded EXCEPT ![r][e].status = "sent"]
                /\ delivered' = [delivered EXCEPT ![e] = Count(@)]
                /\ UNCHANGED refused
             \/ /\ loaded' = [loaded EXCEPT ![r][e] = Refused(@, age[r])]
                /\ refused' = [refused EXCEPT ![e] = Count(@)]
                /\ UNCHANGED delivered
    /\ UNCHANGED <<request, queue, outbox, age, running, crashes>>

(* The columns a run assigns: a delivery leaves attempts and scheduled_at, *)
(* a retry leaves status.                                                  *)
Merge(row, mine) ==
    CASE mine.status = "sent" -> [row EXCEPT !.status = "sent"]
      [] mine.status = "failed" -> [row EXCEPT !.status = "failed",
                                               !.attempts = mine.attempts]
      [] OTHER -> [row EXCEPT !.attempts = mine.attempts, !.wait = mine.wait]

Stop(r) ==
    /\ running' = running \ {r}
    /\ batch' = [batch EXCEPT ![r] = {}]
    /\ loaded' = [loaded EXCEPT ![r] = Nothing]
    /\ age' = [age EXCEPT ![r] = 0]

CommitRun(r) ==
    /\ r \in running
    /\ batch[r] = {}
    /\ outbox' = [e \in Emails |->
          IF loaded[r][e] = NoRow THEN outbox[e] ELSE Merge(outbox[e], loaded[r][e])]
    /\ Stop(r)
    /\ UNCHANGED <<request, queue, crashes, history>>

(* The run dies, is cancelled or cannot commit. *)
Crash(r) ==
    /\ crashes < MaxCrashes
    /\ r \in running
    /\ crashes' = crashes + 1
    /\ Stop(r)
    /\ UNCHANGED <<request, queue, outbox, history>>

Less(n) == IF n = 0 THEN 0 ELSE n - 1

Sooner(row) == IF row = NoRow THEN NoRow ELSE [row EXCEPT !.wait = Less(@)]

Tick ==
    /\ outbox' = [e \in Emails |-> Sooner(outbox[e])]
    /\ loaded' = [r \in Runs |-> [e \in Emails |-> Sooner(loaded[r][e])]]
    /\ age' = [r \in Runs |->
          IF r \in running /\ age[r] < BackoffCap THEN age[r] + 1 ELSE age[r]]
    /\ UNCHANGED <<request, queue, batch, running, crashes, history>>

-----------------------------------------------------------------------------

Progress(r) == Begin(r) \/ Deliver(r) \/ CommitRun(r)

Next ==
    \/ \E e \in Emails : EnqueueInRequest(e) \/ CommitRequest(e)
                            \/ RollBackRequest(e) \/ EnqueueAlone(e)
    \/ \E r \in Runs : Progress(r) \/ Crash(r)
    \/ Tick

Spec == Init /\ [][Next]_vars

(* Somebody keeps calling process_outbox, and the clock goes on. *)
FairSpec ==
    /\ Spec
    /\ WF_vars(Tick)
    /\ \A r \in Runs : WF_vars(Progress(r))

-----------------------------------------------------------------------------
(* Properties *)

AtRest(e) == \A r \in Runs : loaded[r][e] = NoRow

(* What a committed row says is what happened: "sent" was delivered,       *)
(* "failed" was refused MaxAttempts times and not recorded as delivered,   *)
(* attempts are refusals, and what happened beyond the record is at most   *)
(* one delivery or refusal for each run that died.                         *)
LedgerIsHonest ==
    \A e \in Emails : outbox[e] # NoRow /\ AtRest(e) =>
        LET row == outbox[e]
            sent == IF row.status = "sent" THEN 1 ELSE 0
        IN  /\ sent <= delivered[e]
            /\ row.attempts <= refused[e]
            /\ row.status = "failed" => row.attempts = MaxAttempts
            /\ delivered[e] + refused[e] <= row.attempts + sent + crashes

(* "Never user created but email lost, nor the reverse": no email leaves   *)
(* for a request that did not commit, even when runs die.                  *)
OnlyCommittedLeave ==
    \A e \in Emails : delivered[e] + refused[e] > 0 => request[e] = "committed"

Phase(row) == IF row = NoRow THEN "none" ELSE row.status

Book == INSTANCE OutboxBook WITH
    Enough <- MaxAttempts,
    phase <- [e \in Emails |-> Phase(outbox[e])],
    gone <- {e \in Emails : delivered[e] > 0},
    refusals <- refused

(* "pending -> sent | failed": process_outbox delivers pending emails only *)
(* and an outcome stays; "sent" has been delivered and "failed" refused    *)
(* max_attempts times, whatever crashes lose.  (Of one job: runs that      *)
(* overlap overwrite each other's outcomes.)                               *)
ImplementsBook == Book!Spec

(* Every email whose request commits is sent or given up, whatever the     *)
(* other emails of the queue do.                                           *)
EveryEmailSettles ==
    \A e \in Emails :
        outbox[e] # NoRow ~> (outbox[e] # NoRow /\ outbox[e].status # "pending")
=============================================================================
