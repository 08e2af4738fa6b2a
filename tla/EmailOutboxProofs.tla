-------------------------- MODULE EmailOutboxProofs --------------------------
(***************************************************************************)
(* Proofs about EmailOutbox for every set of emails, every batch size,     *)
(* every number of attempts, every backoff and any number of crashes.      *)
(*                                                                         *)
(* Type correctness, and that no email leaves for a request that did not   *)
(* commit, hold for any number of overlapping runs.  That the ledger tells *)
(* the truth and that the outbox implements its abstract book hold when    *)
(* one job runs at a time (OneRun).                                        *)
(***************************************************************************)
EXTENDS EmailOutbox, TLAPS

-----------------------------------------------------------------------------
(* The inductive invariants *)

(* What is still to be delivered has been read, as a pending row. *)
InHand ==
    \A r \in Runs : \A e \in batch[r] :
        loaded[r][e] # NoRow /\ loaded[r][e].status = "pending"

(* There is an attempt left for a pending row. *)
AttemptsLeft(row) ==
    row # NoRow /\ row.status = "pending" => row.attempts < MaxAttempts

PendingRows ==
    \A e \in Emails : AttemptsLeft(outbox[e]) /\ \A r \in Runs : AttemptsLeft(loaded[r][e])

(* Rows are those of committed requests, and runs read committed rows. *)
RowsCommitted ==
    \A e \in Emails :
        /\ outbox[e] # NoRow <=> request[e] = "committed"
        /\ \A r \in Runs : loaded[r][e] # NoRow => outbox[e] # NoRow

(* An email that nobody has queued is not in the queue. *)
Queued == \A e \in Emails : request[e] = "none" => \A i \in DOMAIN queue : queue[i] # e

TypeInv ==
    TypeOK /\ InHand /\ PendingRows /\ RowsCommitted /\ Queued /\ OnlyCommittedLeave

-----------------------------------------------------------------------------
(* Lemmas about the helper operators *)

(* No backoff exceeds its cap. *)
LEMMA WaitForBound ==
    ASSUME NEW n \in Nat, NEW ticks \in 0..BackoffCap
    PROVE  WaitFor(n, ticks) \in 0..BackoffCap
<1>1. n * n \in Nat
  OBVIOUS
<1>2. Backoff(n) \in 0..BackoffCap
  BY <1>1, EmailOutboxAssumption DEF Backoff
<1> QED
  BY <1>2, EmailOutboxAssumption DEF WaitFor

(* A refused delivery costs one attempt; the last one gives the email up. *)
LEMMA RefusedEffect ==
    ASSUME NEW row \in Row, row.attempts < MaxAttempts, row.status = "pending",
           NEW ticks \in 0..BackoffCap
    PROVE  /\ Refused(row, ticks) \in Row
           /\ Refused(row, ticks).attempts = row.attempts + 1
           /\ Refused(row, ticks).status \in {"pending", "failed"}
           /\ Refused(row, ticks).status = "failed" => row.attempts + 1 = MaxAttempts
           /\ AttemptsLeft(Refused(row, ticks))
<1>1. row.attempts \in Nat /\ row.attempts + 1 \in Nat /\ row.attempts + 1 <= MaxAttempts
      /\ MaxAttempts \in Nat
  BY EmailOutboxAssumption DEF Row
<1>2. WaitFor(row.attempts + 1, ticks) \in 0..BackoffCap
  BY <1>1, WaitForBound
<1> DEFINE n == row.attempts + 1
           w == WaitFor(n, ticks)
<1>3. CASE n >= MaxAttempts
  <2>1. Refused(row, ticks) = [status |-> "failed", attempts |-> n, wait |-> row.wait]
    BY <1>3 DEF Refused, Row
  <2>2. n \in 0..MaxAttempts /\ n = MaxAttempts /\ row.wait \in 0..BackoffCap
    BY <1>1, <1>3 DEF Row
  <2> HIDE DEF n
  <2>3. Refused(row, ticks) \in Row
    BY <2>1, <2>2 DEF Row
  <2> QED
    BY <2>1, <2>2, <2>3 DEF AttemptsLeft, n
<1>4. CASE ~(n >= MaxAttempts)
  <2>1. Refused(row, ticks) = [status |-> "pending", attempts |-> n, wait |-> w]
    BY <1>4 DEF Refused, Row
  <2>2. n \in 0..MaxAttempts /\ n < MaxAttempts /\ w \in 0..BackoffCap
    BY <1>1, <1>2, <1>4
  <2> HIDE DEF n, w
  <2>3. Refused(row, ticks) \in Row
    BY <2>1, <2>2 DEF Row
  <2> QED
    BY <2>1, <2>2, <2>3 DEF AttemptsLeft, n
<1> QED
  BY <1>3, <1>4

(* Merging the columns a run assigned into a row gives a row. *)
LEMMA MergeEffect ==
    ASSUME NEW row \in Row, NEW mine \in Row, AttemptsLeft(mine)
    PROVE  /\ Merge(row, mine) \in Row
           /\ AttemptsLeft(Merge(row, mine))
           /\ mine.status = "sent" =>
                Merge(row, mine).status = "sent" /\ Merge(row, mine).attempts = row.attempts
           /\ mine.status = "failed" =>
                Merge(row, mine).status = "failed" /\ Merge(row, mine).attempts = mine.attempts
           /\ mine.status = "pending" =>
                Merge(row, mine).status = row.status /\ Merge(row, mine).attempts = mine.attempts
BY NoRowAssumption DEF Merge, Row, AttemptsLeft

(* The clock changes nothing but the time left. *)
LEMMA SoonerEffect ==
    ASSUME NEW row \in Row \cup {NoRow}
    PROVE  /\ Sooner(row) \in Row \cup {NoRow}
           /\ Sooner(row) # NoRow <=> row # NoRow
           /\ row # NoRow => /\ Sooner(row).status = row.status
                             /\ Sooner(row).attempts = row.attempts
           /\ AttemptsLeft(row) => AttemptsLeft(Sooner(row))
BY NoRowAssumption, EmailOutboxAssumption DEF Sooner, Less, Row, AttemptsLeft

LEMMA NewRowType == NewRow \in Row /\ NewRow # NoRow /\ AttemptsLeft(NewRow)
BY NoRowAssumption, EmailOutboxAssumption DEF NewRow, Row, AttemptsLeft

LEMMA CountType ==
    ASSUME NEW n \in 0..Many
    PROVE  /\ Count(n) \in 0..Many /\ Count(n) > 0 /\ Count(n) <= n + 1 /\ Count(n) >= n
           /\ n < Many => Count(n) = n + 1
BY EmailOutboxAssumption DEF Count, Many

(* A new email at the end of the queue keeps it a queue without repetition. *)
LEMMA AppendQueue ==
    ASSUME queue \in Seq(Emails), IsInjective(queue), Queued, NEW e \in Emails,
           request[e] = "none"
    PROVE  /\ Append(queue, e) \in Seq(Emails) /\ IsInjective(Append(queue, e))
           /\ \A i \in DOMAIN Append(queue, e) :
                 \/ i \in DOMAIN queue /\ Append(queue, e)[i] = queue[i]
                 \/ Append(queue, e)[i] = e
<1> DEFINE longer == Append(queue, e)
<1>1. /\ longer \in Seq(Emails) /\ DOMAIN longer = 1..(Len(queue) + 1) /\ Len(queue) \in Nat
      /\ DOMAIN queue = 1..Len(queue)
      /\ \A i \in 1..Len(queue) : longer[i] = queue[i]
      /\ longer[Len(queue) + 1] = e
  OBVIOUS
<1>2. \A i \in DOMAIN queue : queue[i] # e
  BY DEF Queued
<1> HIDE DEF longer
<1>3. \A a, b \in DOMAIN longer : longer[a] = longer[b] => a = b
  BY <1>1, <1>2 DEF IsInjective
<1> QED
  BY <1>1, <1>3 DEF IsInjective, longer

-----------------------------------------------------------------------------
(* The steps keep the type invariant *)

LEMMA InitTypeInv == Init => TypeInv
<1> SUFFICES ASSUME Init PROVE TypeInv
  OBVIOUS
<1>1. TypeOK
  BY EmailOutboxAssumption DEF Init, TypeOK, Nothing, IsInjective, Many
<1> QED
  BY <1>1 DEF Init, TypeInv, InHand, PendingRows, AttemptsLeft, RowsCommitted, Queued,
     OnlyCommittedLeave, Nothing

LEMMA EnqueueInRequestTypeInv ==
    ASSUME TypeInv, NEW e \in Emails, EnqueueInRequest(e) PROVE TypeInv'
<1>1. TypeOK' /\ Queued'
  BY AppendQueue DEF TypeInv, TypeOK, Queued, IsInjective, EnqueueInRequest, runVars, history
<1>2. RowsCommitted' /\ OnlyCommittedLeave'
  BY DEF TypeInv, TypeOK, RowsCommitted, OnlyCommittedLeave, EnqueueInRequest, runVars, history
<1> QED
  BY <1>1, <1>2 DEF TypeInv, InHand, PendingRows, AttemptsLeft, EnqueueInRequest, runVars, history

LEMMA CommitRequestTypeInv ==
    ASSUME TypeInv, NEW e \in Emails, CommitRequest(e) PROVE TypeInv'
<1>1. TypeOK' /\ Queued'
  BY NewRowType DEF TypeInv, TypeOK, Queued, IsInjective, CommitRequest, runVars, history
<1>2. RowsCommitted' /\ OnlyCommittedLeave'
  BY NewRowType DEF TypeInv, TypeOK, RowsCommitted, OnlyCommittedLeave, CommitRequest, runVars, history
<1>3. PendingRows' /\ InHand'
  BY NewRowType DEF TypeInv, TypeOK, InHand, PendingRows, AttemptsLeft, CommitRequest, runVars, history
<1> QED
  BY <1>1, <1>2, <1>3 DEF TypeInv

LEMMA RollBackRequestTypeInv ==
    ASSUME TypeInv, NEW e \in Emails, RollBackRequest(e) PROVE TypeInv'
<1>1. TypeOK' /\ Queued'
  BY DEF TypeInv, TypeOK, Queued, IsInjective, RollBackRequest, runVars, history
<1>2. RowsCommitted' /\ OnlyCommittedLeave'
  BY DEF TypeInv, TypeOK, RowsCommitted, OnlyCommittedLeave, RollBackRequest, runVars, history
<1> QED
  BY <1>1, <1>2 DEF TypeInv, InHand, PendingRows, AttemptsLeft, RollBackRequest, runVars, history

LEMMA EnqueueAloneTypeInv ==
    ASSUME TypeInv, NEW e \in Emails, EnqueueAlone(e) PROVE TypeInv'
<1>1. TypeOK' /\ Queued'
  BY AppendQueue, NewRowType DEF TypeInv, TypeOK, Queued, IsInjective, EnqueueAlone, runVars, history
<1>2. RowsCommitted' /\ OnlyCommittedLeave'
  BY NewRowType DEF TypeInv, TypeOK, RowsCommitted, OnlyCommittedLeave, EnqueueAlone, runVars, history
<1>3. PendingRows' /\ InHand'
  BY NewRowType DEF TypeInv, TypeOK, InHand, PendingRows, AttemptsLeft, EnqueueAlone, runVars, history
<1> QED
  BY <1>1, <1>2, <1>3 DEF TypeInv

(* What a run reads: committed rows, pending those in its batch. *)
LEMMA BeginTypeInv ==
    ASSUME TypeInv, NEW r \in Runs, Begin(r) PROVE TypeInv'
<1>1. \A e \in DueBatch : e \in Emails /\ outbox[e] # NoRow /\ outbox[e].status = "pending"
  BY DEF DueBatch, Due
<1>2. TypeOK'
  <2>1. 0 \in 0..BackoffCap
    BY EmailOutboxAssumption
  <2>2. loaded' \in [Runs -> [Emails -> Row \cup {NoRow}]]
    BY DEF TypeInv, TypeOK, Begin
  <2>3. batch' \in [Runs -> SUBSET Emails] /\ age' \in [Runs -> 0..BackoffCap]
    BY <1>1, <2>1 DEF TypeInv, TypeOK, Begin
  <2> QED
    BY <2>2, <2>3 DEF TypeInv, TypeOK, IsInjective, Begin, history
<1>3. InHand' /\ PendingRows'
  BY <1>1 DEF TypeInv, TypeOK, InHand, PendingRows, AttemptsLeft, Begin, history
<1>4. RowsCommitted' /\ Queued' /\ OnlyCommittedLeave'
  BY <1>1 DEF TypeInv, TypeOK, RowsCommitted, Queued, OnlyCommittedLeave, Begin, history
<1> QED
  BY <1>2, <1>3, <1>4 DEF TypeInv

(* Deliver touches one email of one run: what it makes of the row, and what *)
(* it leaves alone.                                                         *)
LEMMA DeliverEffect ==
    ASSUME TypeInv, NEW r \in Runs, Deliver(r)
    PROVE  \E e \in batch[r] :
        /\ e \in Emails /\ loaded[r][e] \in Row /\ loaded[r][e].status = "pending"
        /\ loaded[r][e].attempts < MaxAttempts
        /\ batch' = [batch EXCEPT ![r] = batch[r] \ {e}]
        /\ loaded' \in [Runs -> [Emails -> Row \cup {NoRow}]]
        /\ \A q \in Runs, d \in Emails : q # r \/ d # e => loaded'[q][d] = loaded[q][d]
        /\ loaded'[r][e] \in Row /\ AttemptsLeft(loaded'[r][e])
        /\ \/ /\ loaded'[r][e].status = "sent"
              /\ loaded'[r][e].attempts = loaded[r][e].attempts
              /\ delivered' = [delivered EXCEPT ![e] = Count(@)]
              /\ refused' = refused
           \/ /\ loaded'[r][e].status \in {"pending", "failed"}
              /\ loaded'[r][e].status = "failed" => loaded[r][e].attempts + 1 = MaxAttempts
              /\ loaded'[r][e].attempts = loaded[r][e].attempts + 1
              /\ refused' = [refused EXCEPT ![e] = Count(@)]
              /\ delivered' = delivered
<1>1. PICK e \in batch[r] :
          /\ batch' = [batch EXCEPT ![r] = @ \ {e}]
          /\ \/ /\ loaded' = [loaded EXCEPT ![r][e].status = "sent"]
                /\ delivered' = [delivered EXCEPT ![e] = Count(@)]
                /\ UNCHANGED refused
             \/ /\ loaded' = [loaded EXCEPT ![r][e] = Refused(@, age[r])]
                /\ refused' = [refused EXCEPT ![e] = Count(@)]
                /\ UNCHANGED delivered
  BY DEF Deliver
<1> DEFINE row == loaded[r][e]
<1>2. /\ e \in Emails /\ row \in Row /\ row.status = "pending" /\ row.attempts < MaxAttempts
      /\ age[r] \in 0..BackoffCap
      /\ loaded \in [Runs -> [Emails -> Row \cup {NoRow}]]
  <2>1. e \in Emails
    BY DEF TypeInv, TypeOK
  <2>2. row # NoRow /\ row.status = "pending"
    BY DEF TypeInv, InHand
  <2>3. AttemptsLeft(row)
    BY <2>1 DEF TypeInv, PendingRows
  <2>4. loaded \in [Runs -> [Emails -> Row \cup {NoRow}]] /\ age[r] \in 0..BackoffCap
    BY DEF TypeInv, TypeOK
  <2>5. row \in Row \cup {NoRow}
    BY <2>1, <2>4
  <2>6. row.attempts < MaxAttempts
    BY <2>2, <2>3 DEF AttemptsLeft
  <2> QED
    BY <2>1, <2>2, <2>4, <2>5, <2>6
<1>3. CASE /\ loaded' = [loaded EXCEPT ![r][e].status = "sent"]
           /\ delivered' = [delivered EXCEPT ![e] = Count(@)]
           /\ UNCHANGED refused
  <2> DEFINE new == [row EXCEPT !.status = "sent"]
  <2>1. new \in Row /\ new.status = "sent" /\ new.attempts = row.attempts /\ AttemptsLeft(new)
    BY <1>2 DEF Row, AttemptsLeft
  <2>2. loaded' = [loaded EXCEPT ![r] = [loaded[r] EXCEPT ![e] = new]]
    BY <1>3
  <2> HIDE DEF new
  <2>3. /\ loaded' \in [Runs -> [Emails -> Row \cup {NoRow}]] /\ loaded'[r][e] = new
        /\ \A q \in Runs, d \in Emails : q # r \/ d # e => loaded'[q][d] = loaded[q][d]
    BY <1>2, <2>1, <2>2
  <2> QED
    BY <1>1, <1>2, <1>3, <2>1, <2>3
<1>4. CASE /\ loaded' = [loaded EXCEPT ![r][e] = Refused(@, age[r])]
           /\ refused' = [refused EXCEPT ![e] = Count(@)]
           /\ UNCHANGED delivered
  <2> DEFINE new == Refused(row, age[r])
  <2>1. /\ new \in Row /\ new.status \in {"pending", "failed"} /\ AttemptsLeft(new)
        /\ new.attempts = row.attempts + 1
        /\ new.status = "failed" => row.attempts + 1 = MaxAttempts
    BY <1>2, RefusedEffect
  <2>2. loaded' = [loaded EXCEPT ![r] = [loaded[r] EXCEPT ![e] = new]]
    BY <1>4
  <2> HIDE DEF new
  <2>3. /\ loaded' \in [Runs -> [Emails -> Row \cup {NoRow}]] /\ loaded'[r][e] = new
        /\ \A q \in Runs, d \in Emails : q # r \/ d # e => loaded'[q][d] = loaded[q][d]
    BY <1>2, <2>1, <2>2
  <2> QED
    BY <1>1, <1>2, <1>4, <2>1, <2>3
<1> QED
  BY <1>1, <1>3, <1>4

LEMMA DeliverTypeInv ==
    ASSUME TypeInv, NEW r \in Runs, Deliver(r) PROVE TypeInv'
<1>1. PICK e \in batch[r] :
        /\ e \in Emails
        /\ batch' = [batch EXCEPT ![r] = batch[r] \ {e}]
        /\ loaded' \in [Runs -> [Emails -> Row \cup {NoRow}]]
        /\ \A q \in Runs, d \in Emails : q # r \/ d # e => loaded'[q][d] = loaded[q][d]
        /\ loaded'[r][e] \in Row /\ AttemptsLeft(loaded'[r][e])
        /\ \/ delivered' = [delivered EXCEPT ![e] = Count(@)] /\ refused' = refused
           \/ refused' = [refused EXCEPT ![e] = Count(@)] /\ delivered' = delivered
  BY DeliverEffect
<1>2. UNCHANGED <<request, queue, outbox, age, running, crashes>>
  BY DEF Deliver
<1>3. loaded[r][e] # NoRow
  BY DEF TypeInv, InHand
<1>4. delivered' \in [Emails -> 0..Many] /\ refused' \in [Emails -> 0..Many]
  <2>1. delivered \in [Emails -> 0..Many] /\ refused \in [Emails -> 0..Many]
    BY DEF TypeInv, TypeOK
  <2>2. Count(delivered[e]) \in 0..Many /\ Count(refused[e]) \in 0..Many
    BY <1>1, <2>1, CountType
  <2> QED
    BY <1>1, <2>1, <2>2
<1>5. TypeOK'
  BY <1>1, <1>2, <1>4 DEF TypeInv, TypeOK, IsInjective
<1>6. InHand'
  <2> SUFFICES ASSUME NEW q \in Runs, NEW d \in batch'[q]
               PROVE  loaded'[q][d] # NoRow /\ loaded'[q][d].status = "pending"
    BY DEF InHand
  <2>1. d \in batch[q] /\ d \in Emails /\ (q # r \/ d # e)
    BY <1>1 DEF TypeInv, TypeOK
  <2>2. loaded'[q][d] = loaded[q][d]
    BY <1>1, <2>1
  <2> QED
    BY <2>1, <2>2 DEF TypeInv, InHand
<1>7. PendingRows'
  <2> SUFFICES ASSUME NEW d \in Emails, NEW q \in Runs
               PROVE  AttemptsLeft(outbox[d]) /\ AttemptsLeft(loaded'[q][d])
    BY <1>2 DEF PendingRows, AttemptsLeft
  <2> QED
    BY <1>1 DEF TypeInv, PendingRows
<1>8. RowsCommitted' /\ Queued'
  BY <1>1, <1>2, <1>3 DEF TypeInv, RowsCommitted, Queued
<1>9. OnlyCommittedLeave'
  <2>1. request[e] = "committed"
    BY <1>1, <1>3 DEF TypeInv, RowsCommitted
  <2>2. \A d \in Emails \ {e} : delivered'[d] = delivered[d] /\ refused'[d] = refused[d]
    BY <1>1 DEF TypeInv, TypeOK
  <2> QED
    BY <1>2, <2>1, <2>2 DEF TypeInv, OnlyCommittedLeave
<1> QED
  BY <1>5, <1>6, <1>7, <1>8, <1>9 DEF TypeInv

(* A run that stops has nothing in hand any more. *)
LEMMA StopEffect ==
    ASSUME TypeOK, NEW r \in Runs, Stop(r)
    PROVE  /\ running' \subseteq Runs /\ batch' \in [Runs -> SUBSET Emails]
           /\ batch'[r] = {} /\ age' \in [Runs -> 0..BackoffCap]
           /\ loaded' \in [Runs -> [Emails -> Row \cup {NoRow}]]
           /\ \A e \in Emails : loaded'[r][e] = NoRow
           /\ \A q \in Runs \ {r} : batch'[q] = batch[q] /\ loaded'[q] = loaded[q]
<1>1. 0 \in 0..BackoffCap
  BY EmailOutboxAssumption
<1> QED
  BY <1>1 DEF Stop, TypeOK, Nothing

LEMMA CrashTypeInv ==
    ASSUME TypeInv, NEW r \in Runs, Crash(r) PROVE TypeInv'
<1>1. /\ running' \subseteq Runs /\ batch' \in [Runs -> SUBSET Emails]
      /\ batch'[r] = {} /\ age' \in [Runs -> 0..BackoffCap]
      /\ loaded' \in [Runs -> [Emails -> Row \cup {NoRow}]]
      /\ \A e \in Emails : loaded'[r][e] = NoRow
      /\ \A q \in Runs \ {r} : batch'[q] = batch[q] /\ loaded'[q] = loaded[q]
  BY StopEffect DEF TypeInv, Crash
<1>2. UNCHANGED <<request, queue, outbox, delivered, refused>>
  BY DEF Crash, history
<1>3. crashes' \in 0..MaxCrashes
  <2>1. crashes \in 0..MaxCrashes
    BY DEF TypeInv, TypeOK
  <2>2. crashes' = crashes + 1 /\ crashes < MaxCrashes
    BY DEF Crash
  <2> QED
    BY <2>1, <2>2, EmailOutboxAssumption
<1>4. TypeOK'
  BY <1>1, <1>2, <1>3 DEF TypeInv, TypeOK, IsInjective
<1>5. InHand'
  BY <1>1 DEF TypeInv, InHand
<1>6. PendingRows'
  BY <1>1, <1>2 DEF TypeInv, PendingRows, AttemptsLeft
<1>7. RowsCommitted' /\ Queued' /\ OnlyCommittedLeave'
  BY <1>1, <1>2 DEF TypeInv, RowsCommitted, Queued, OnlyCommittedLeave
<1> QED
  BY <1>4, <1>5, <1>6, <1>7 DEF TypeInv

(* The rows a committing run leaves in the table. *)
LEMMA CommitRunEffect ==
    ASSUME TypeInv, NEW r \in Runs, CommitRun(r), NEW e \in Emails
    PROVE  /\ outbox'[e] \in Row \cup {NoRow} /\ AttemptsLeft(outbox'[e])
           /\ outbox'[e] # NoRow <=> outbox[e] # NoRow
           /\ loaded[r][e] = NoRow => outbox'[e] = outbox[e]
           /\ loaded[r][e] # NoRow =>
                /\ outbox[e] \in Row /\ loaded[r][e] \in Row /\ AttemptsLeft(loaded[r][e])
                /\ outbox'[e] = Merge(outbox[e], loaded[r][e])
<1>1. outbox[e] \in Row \cup {NoRow} /\ loaded[r][e] \in Row \cup {NoRow}
  BY DEF TypeInv, TypeOK
<1>2. AttemptsLeft(outbox[e]) /\ AttemptsLeft(loaded[r][e])
  BY DEF TypeInv, PendingRows
<1>3. loaded[r][e] # NoRow => outbox[e] # NoRow
  BY DEF TypeInv, RowsCommitted
<1>4. outbox'[e] = IF loaded[r][e] = NoRow THEN outbox[e] ELSE Merge(outbox[e], loaded[r][e])
  BY DEF CommitRun
<1> QED
  BY <1>1, <1>2, <1>3, <1>4, MergeEffect, NoRowAssumption

LEMMA CommitRunTypeInv ==
    ASSUME TypeInv, NEW r \in Runs, CommitRun(r) PROVE TypeInv'
<1>1. /\ running' \subseteq Runs /\ batch' \in [Runs -> SUBSET Emails]
      /\ batch'[r] = {} /\ age' \in [Runs -> 0..BackoffCap]
      /\ loaded' \in [Runs -> [Emails -> Row \cup {NoRow}]]
      /\ \A e \in Emails : loaded'[r][e] = NoRow
      /\ \A q \in Runs \ {r} : batch'[q] = batch[q] /\ loaded'[q] = loaded[q]
  BY StopEffect DEF TypeInv, CommitRun
<1>2. UNCHANGED <<request, queue, crashes, delivered, refused>>
  BY DEF CommitRun, history
<1>3. \A e \in Emails : /\ outbox'[e] \in Row \cup {NoRow} /\ AttemptsLeft(outbox'[e])
                        /\ outbox'[e] # NoRow <=> outbox[e] # NoRow
  BY CommitRunEffect
<1>4. outbox' \in [Emails -> Row \cup {NoRow}]
  <2>1. outbox' = [e \in Emails |-> outbox'[e]]
    BY DEF CommitRun
  <2> QED
    BY <1>3, <2>1
<1>5. TypeOK'
  BY <1>1, <1>2, <1>4 DEF TypeInv, TypeOK, IsInjective
<1>6. InHand'
  BY <1>1 DEF TypeInv, InHand
<1>7. PendingRows'
  BY <1>1, <1>3 DEF TypeInv, PendingRows, AttemptsLeft
<1>8. RowsCommitted' /\ Queued' /\ OnlyCommittedLeave'
  BY <1>1, <1>2, <1>3 DEF TypeInv, RowsCommitted, Queued, OnlyCommittedLeave
<1> QED
  BY <1>5, <1>6, <1>7, <1>8 DEF TypeInv

(* A tick moves times only. *)
LEMMA TickEffect ==
    ASSUME TypeInv, Tick
    PROVE  /\ outbox' \in [Emails -> Row \cup {NoRow}]
           /\ loaded' \in [Runs -> [Emails -> Row \cup {NoRow}]]
           /\ age' \in [Runs -> 0..BackoffCap]
           /\ \A e \in Emails : outbox'[e] = Sooner(outbox[e])
           /\ \A r \in Runs, e \in Emails : loaded'[r][e] = Sooner(loaded[r][e])
<1>1. \A row \in Row \cup {NoRow} : Sooner(row) \in Row \cup {NoRow}
  BY SoonerEffect
<1>2. outbox' = [e \in Emails |-> Sooner(outbox[e])]
  BY DEF Tick
<1>3. loaded' = [r \in Runs |-> [e \in Emails |-> Sooner(loaded[r][e])]]
  BY DEF Tick
<1>4. /\ outbox \in [Emails -> Row \cup {NoRow}]
      /\ loaded \in [Runs -> [Emails -> Row \cup {NoRow}]]
  BY DEF TypeInv, TypeOK
<1>5. age' \in [Runs -> 0..BackoffCap]
  <2>1. \A r \in Runs : age[r] \in 0..BackoffCap
    BY DEF TypeInv, TypeOK
  <2>2. age' = [r \in Runs |->
          IF r \in running /\ age[r] < BackoffCap THEN age[r] + 1 ELSE age[r]]
    BY DEF Tick
  <2> QED
    BY <2>1, <2>2, EmailOutboxAssumption
<1> QED
  BY <1>1, <1>2, <1>3, <1>4, <1>5

LEMMA TickTypeInv ==
    ASSUME TypeInv, Tick PROVE TypeInv'
<1>1. UNCHANGED <<request, queue, batch, running, crashes, delivered, refused>>
  BY DEF Tick, history
<1>2. TypeOK'
  BY <1>1, TickEffect DEF TypeInv, TypeOK, IsInjective
<1>3. \A e \in Emails : outbox[e] \in Row \cup {NoRow} /\
                        \A r \in Runs : loaded[r][e] \in Row \cup {NoRow}
  BY DEF TypeInv, TypeOK
<1>4. InHand'
  <2> SUFFICES ASSUME NEW r \in Runs, NEW e \in batch[r]
               PROVE  loaded'[r][e] # NoRow /\ loaded'[r][e].status = "pending"
    BY <1>1 DEF InHand
  <2>1. e \in Emails /\ loaded[r][e] # NoRow /\ loaded[r][e].status = "pending"
    BY DEF TypeInv, TypeOK, InHand
  <2> QED
    BY <1>3, <2>1, TickEffect, SoonerEffect
<1>5. PendingRows'
  <2> SUFFICES ASSUME NEW e \in Emails, NEW r \in Runs
               PROVE  AttemptsLeft(outbox'[e]) /\ AttemptsLeft(loaded'[r][e])
    BY <1>3, TickEffect, SoonerEffect DEF TypeInv, PendingRows, AttemptsLeft
  <2>1. AttemptsLeft(outbox[e]) /\ AttemptsLeft(loaded[r][e])
    BY DEF TypeInv, PendingRows
  <2> QED
    BY <1>3, <2>1, TickEffect, SoonerEffect
<1>6. RowsCommitted' /\ Queued' /\ OnlyCommittedLeave'
  BY <1>1, <1>3, TickEffect, SoonerEffect DEF TypeInv, RowsCommitted, Queued, OnlyCommittedLeave
<1> QED
  BY <1>2, <1>4, <1>5, <1>6 DEF TypeInv

LEMMA NextTypeInv == TypeInv /\ [Next]_vars => TypeInv'
<1> SUFFICES ASSUME TypeInv, [Next]_vars PROVE TypeInv'
  OBVIOUS
<1>1. CASE \E e \in Emails : EnqueueInRequest(e) \/ CommitRequest(e)
                                 \/ RollBackRequest(e) \/ EnqueueAlone(e)
  BY <1>1, EnqueueInRequestTypeInv, CommitRequestTypeInv, RollBackRequestTypeInv,
     EnqueueAloneTypeInv
<1>2. CASE \E r \in Runs : Progress(r) \/ Crash(r)
  BY <1>2, BeginTypeInv, DeliverTypeInv, CommitRunTypeInv, CrashTypeInv DEF Progress
<1>3. CASE Tick
  BY <1>3, TickTypeInv
<1>4. CASE UNCHANGED vars
  BY <1>4 DEF vars, runVars, history, TypeInv, TypeOK, IsInjective, InHand, PendingRows,
     AttemptsLeft, RowsCommitted, Queued, OnlyCommittedLeave
<1> QED
  BY <1>1, <1>2, <1>3, <1>4 DEF Next

(* The variables have the values the code can give them, and rows counters  *)
(* within their limits, for any number of overlapping runs.                 *)
THEOREM TypeCorrect == Spec => []TypeOK
<1>1. TypeInv => TypeOK
  BY DEF TypeInv
<1> QED
  BY <1>1, InitTypeInv, NextTypeInv, PTL DEF Spec

(* No email leaves for a request that did not commit, whatever runs overlap *)
(* or die.                                                                  *)
THEOREM OnlyCommittedLeaveHolds == Spec => []OnlyCommittedLeave
<1>1. TypeInv => OnlyCommittedLeave
  BY DEF TypeInv
<1> QED
  BY <1>1, InitTypeInv, NextTypeInv, PTL DEF Spec

-----------------------------------------------------------------------------
(* One job at a time *)

OneRun == \A r, q \in Runs : r = q

SentOnce(row) == IF row.status = "sent" THEN 1 ELSE 0

Happened(e) == delivered[e] + refused[e]

(* A row says no more than what has happened. *)
Backed(row, e) ==
    /\ SentOnce(row) <= delivered[e]
    /\ row.attempts <= refused[e]
    /\ row.status = "failed" => row.attempts = MaxAttempts

Idle == \A r \in Runs \ running : \A e \in Emails : loaded[r][e] = NoRow

(* The table, of emails no run has in its session: what happened beyond the *)
(* record is one delivery or refusal at most for each crash.                *)
Recorded ==
    \A e \in Emails : outbox[e] # NoRow =>
        /\ Backed(outbox[e], e)
        /\ AtRest(e) => Happened(e) <= outbox[e].attempts + SentOnce(outbox[e]) + crashes

(* The session of a run: what it will write is what happened, and what a    *)
(* crash would lose is one delivery or refusal of each email.               *)
Working ==
    \A r \in Runs, e \in Emails : loaded[r][e] # NoRow =>
        /\ outbox[e].status = "pending"
        /\ Backed(loaded[r][e], e)
        /\ Happened(e) <= loaded[r][e].attempts + SentOnce(loaded[r][e]) + crashes
        /\ Happened(e) <= outbox[e].attempts + 1 + crashes
        /\ loaded[r][e].status = "sent" \/ e \in batch[r]
              => loaded[r][e].attempts = outbox[e].attempts

HonestInv == TypeInv /\ Idle /\ Recorded /\ Working

(* The history counts, and rows have, natural numbers. *)
LEMMA HonestTypes ==
    ASSUME TypeInv, NEW e \in Emails
    PROVE  /\ delivered[e] \in Nat /\ refused[e] \in Nat /\ crashes \in Nat
           /\ delivered[e] <= Many /\ refused[e] <= Many
           /\ outbox[e] \in Row \cup {NoRow}
           /\ \A r \in Runs : loaded[r][e] \in Row \cup {NoRow}
           /\ \A row \in Row : row.attempts \in Nat /\ row.attempts <= MaxAttempts
           /\ MaxAttempts \in Nat /\ Many = MaxAttempts + 1
<1>1. MaxAttempts \in Nat /\ Many = MaxAttempts + 1
  BY EmailOutboxAssumption DEF Many
<1>2. delivered[e] \in 0..Many /\ refused[e] \in 0..Many /\ crashes \in 0..MaxCrashes
  BY DEF TypeInv, TypeOK
<1>3. outbox[e] \in Row \cup {NoRow} /\ \A r \in Runs : loaded[r][e] \in Row \cup {NoRow}
  BY DEF TypeInv, TypeOK
<1>4. \A row \in Row : row.attempts \in Nat /\ row.attempts <= MaxAttempts
  BY <1>1 DEF Row
<1> QED
  BY <1>1, <1>2, <1>3, <1>4

LEMMA InitHonest == Init => HonestInv
BY InitTypeInv DEF Init, HonestInv, Idle, Recorded, Working, Nothing

(* Nothing has left yet for an email that gets its row now. *)
LEMMA NewRowBacked ==
    ASSUME TypeInv, NEW e \in Emails, outbox[e] = NoRow
    PROVE  /\ Backed(NewRow, e) /\ Happened(e) = 0
           /\ \A r \in Runs : loaded[r][e] = NoRow
<1>1. ~(delivered[e] + refused[e] > 0)
  BY DEF TypeInv, RowsCommitted, OnlyCommittedLeave
<1>2. delivered[e] = 0 /\ refused[e] = 0
  BY <1>1, HonestTypes
<1> QED
  BY <1>2 DEF Backed, NewRow, SentOnce, Happened, TypeInv, RowsCommitted

(* A row appears: CommitRequest and EnqueueAlone. *)
LEMMA AcceptHonest ==
    ASSUME HonestInv, NEW e \in Emails, request[e] # "committed",
           outbox' = [outbox EXCEPT ![e] = NewRow],
           UNCHANGED <<batch, loaded, running, crashes, delivered, refused>>
    PROVE  Idle' /\ Recorded' /\ Working'
<1>1. outbox[e] = NoRow /\ outbox \in [Emails -> Row \cup {NoRow}]
  BY DEF HonestInv, TypeInv, TypeOK, RowsCommitted
<1>2. /\ Backed(NewRow, e) /\ Happened(e) = 0
      /\ \A r \in Runs : loaded[r][e] = NoRow
  BY <1>1, NewRowBacked DEF HonestInv
<1>3. outbox'[e] = NewRow /\ \A d \in Emails \ {e} : outbox'[d] = outbox[d]
  BY <1>1
<1>4. crashes \in Nat
  BY HonestTypes DEF HonestInv
<1>5. Idle' /\ Working'
  BY <1>2, <1>3 DEF HonestInv, Idle, Working, Backed, Happened
<1>6. Recorded'
  BY <1>2, <1>3, <1>4 DEF HonestInv, Recorded, Backed, Happened, AtRest, NewRow, SentOnce
<1> QED
  BY <1>5, <1>6

LEMMA BeginHonest ==
    ASSUME OneRun, HonestInv, NEW r \in Runs, Begin(r)
    PROVE  Idle' /\ Recorded' /\ Working'
<1>1. \A q \in Runs : q = r
  BY DEF OneRun
<1>2. \A e \in Emails : AtRest(e)
  BY <1>1 DEF HonestInv, Idle, AtRest, Begin
<1>3. /\ UNCHANGED <<outbox, crashes, delivered, refused>>
      /\ running' = running \cup {r}
      /\ batch'[r] = DueBatch
      /\ \A e \in Emails : loaded'[r][e] = IF e \in DueBatch THEN outbox[e] ELSE NoRow
  BY DEF Begin, history, HonestInv, TypeInv, TypeOK
<1>4. \A e \in DueBatch : outbox[e] # NoRow /\ outbox[e].status = "pending"
  BY DEF DueBatch, Due
<1>5. Idle'
  BY <1>1, <1>3 DEF Idle
<1>6. Recorded'
  BY <1>2, <1>3 DEF HonestInv, Recorded, AtRest, Backed, Happened
<1>7. Working'
  <2> SUFFICES ASSUME NEW e \in Emails, e \in DueBatch
               PROVE  /\ outbox[e].status = "pending"
                      /\ Backed(outbox[e], e)
                      /\ Happened(e) <= outbox[e].attempts + SentOnce(outbox[e]) + crashes
                      /\ Happened(e) <= outbox[e].attempts + 1 + crashes
    BY <1>1, <1>3 DEF Working, Backed, Happened
  <2>1. /\ Backed(outbox[e], e)
        /\ Happened(e) <= outbox[e].attempts + SentOnce(outbox[e]) + crashes
    BY <1>2, <1>4 DEF HonestInv, Recorded
  <2>2. outbox[e] \in Row
    BY <1>4, HonestTypes DEF HonestInv
  <2>3. SentOnce(outbox[e]) = 0
    BY <1>4 DEF SentOnce
  <2> QED
    BY <1>4, <2>1, <2>2, <2>3, HonestTypes DEF HonestInv, Happened
<1> QED
  BY <1>5, <1>6, <1>7

(* Deliver: one more thing has happened, and the session knows it. *)
LEMMA DeliverHonest ==
    ASSUME OneRun, HonestInv, NEW r \in Runs, Deliver(r)
    PROVE  Idle' /\ Recorded' /\ Working'
<1> DEFINE row(e) == loaded[r][e]
           new(e) == loaded'[r][e]
<1>1. PICK e \in batch[r] :
        /\ e \in Emails /\ row(e) \in Row /\ row(e).status = "pending"
        /\ row(e).attempts < MaxAttempts
        /\ batch' = [batch EXCEPT ![r] = batch[r] \ {e}]
        /\ \A q \in Runs, d \in Emails : q # r \/ d # e => loaded'[q][d] = loaded[q][d]
        /\ new(e) \in Row
        /\ \/ /\ new(e).status = "sent"
              /\ new(e).attempts = row(e).attempts
              /\ delivered' = [delivered EXCEPT ![e] = Count(@)]
              /\ refused' = refused
           \/ /\ new(e).status \in {"pending", "failed"}
              /\ new(e).status = "failed" => row(e).attempts + 1 = MaxAttempts
              /\ new(e).attempts = row(e).attempts + 1
              /\ refused' = [refused EXCEPT ![e] = Count(@)]
              /\ delivered' = delivered
  BY DeliverEffect DEF HonestInv
<1>2. UNCHANGED <<outbox, running, crashes>> /\ \A q \in Runs : q = r
  BY DEF Deliver, OneRun
<1>3. row(e) # NoRow /\ new(e) # NoRow /\ outbox[e] # NoRow /\ outbox[e] \in Row
  BY <1>1, NoRowAssumption, HonestTypes DEF HonestInv, TypeInv, RowsCommitted
<1>4. /\ outbox[e].status = "pending" /\ outbox[e].attempts = row(e).attempts
      /\ Backed(row(e), e) /\ Backed(outbox[e], e)
      /\ Happened(e) <= row(e).attempts + SentOnce(row(e)) + crashes
  BY <1>1, <1>3 DEF HonestInv, Working, Recorded
<1>5. /\ delivered \in [Emails -> 0..Many] /\ refused \in [Emails -> 0..Many]
      /\ batch \in [Runs -> SUBSET Emails]
  BY DEF HonestInv, TypeInv, TypeOK
<1>6. \A d \in Emails \ {e} :
        /\ delivered'[d] = delivered[d] /\ refused'[d] = refused[d]
        /\ loaded'[r][d] = loaded[r][d]
        /\ d \in batch'[r] <=> d \in batch[r]
  BY <1>1, <1>5
<1>7. e \notin batch'[r]
  BY <1>1, <1>5
<1>8. SentOnce(row(e)) = 0 /\ SentOnce(outbox[e]) = 0
  BY <1>1, <1>4 DEF SentOnce
<1>9. /\ delivered[e] \in 0..Many /\ refused[e] \in 0..Many
      /\ row(e).attempts <= refused[e] /\ row(e).attempts \in Nat /\ crashes \in Nat
      /\ delivered[e] + refused[e] <= row(e).attempts + crashes
      /\ Many = MaxAttempts + 1 /\ MaxAttempts \in Nat
  BY <1>1, <1>4, <1>5, <1>8, HonestTypes DEF Backed, Happened, HonestInv
<1>10. /\ Backed(row(e), e)' /\ Backed(outbox[e], e)'
       /\ delivered'[e] + refused'[e] <= new(e).attempts + SentOnce(new(e)) + crashes
       /\ delivered'[e] + refused'[e] <= outbox[e].attempts + 1 + crashes
       /\ new(e).status = "sent" => new(e).attempts = outbox[e].attempts
  <2>1. CASE /\ new(e).status = "sent" /\ new(e).attempts = row(e).attempts
             /\ delivered' = [delivered EXCEPT ![e] = Count(@)] /\ refused' = refused
    <3>1. /\ delivered'[e] = Count(delivered[e]) /\ refused'[e] = refused[e]
          /\ Count(delivered[e]) \in 0..Many /\ Count(delivered[e]) > 0
          /\ Count(delivered[e]) <= delivered[e] + 1
      BY <1>1, <1>5, <1>9, <2>1, CountType
    <3>2. SentOnce(new(e)) = 1
      BY <2>1 DEF SentOnce
    <3>3. Backed(row(e), e)'
      BY <1>9, <2>1, <3>1 DEF Backed, SentOnce
    <3>4. Backed(outbox[e], e)'
      BY <1>2, <1>4, <1>8, <1>9, <3>1 DEF Backed, SentOnce
    <3> QED
      BY <1>4, <1>9, <2>1, <3>1, <3>2, <3>3, <3>4
  <2>2. CASE /\ new(e).status \in {"pending", "failed"}
             /\ new(e).status = "failed" => row(e).attempts + 1 = MaxAttempts
             /\ new(e).attempts = row(e).attempts + 1
             /\ refused' = [refused EXCEPT ![e] = Count(@)] /\ delivered' = delivered
    <3>1. /\ refused'[e] = Count(refused[e]) /\ delivered'[e] = delivered[e]
          /\ Count(refused[e]) \in 0..Many /\ Count(refused[e]) >= refused[e]
          /\ Count(refused[e]) <= refused[e] + 1
          /\ refused[e] < Many => Count(refused[e]) = refused[e] + 1
      BY <1>1, <1>5, <1>9, <2>2, CountType
    <3>2. SentOnce(new(e)) = 0
      BY <2>2 DEF SentOnce
    <3>3. row(e).attempts + 1 <= Count(refused[e])
      BY <1>1, <1>9, <3>1
    <3>4. Backed(row(e), e)'
      BY <1>9, <2>2, <3>1, <3>3 DEF Backed, SentOnce
    <3>5. Backed(outbox[e], e)'
      BY <1>2, <1>4, <1>8, <1>9, <3>1 DEF Backed, SentOnce
    <3> QED
      BY <1>4, <1>9, <2>2, <3>1, <3>2, <3>4, <3>5
  <2> QED
    BY <1>1, <2>1, <2>2
<1> HIDE DEF row, new
<1>11. Idle'
  BY <1>1, <1>2, <1>3 DEF HonestInv, Idle, row
<1>12. Recorded'
  <2> SUFFICES ASSUME NEW d \in Emails, outbox[d] # NoRow
               PROVE  /\ Backed(outbox[d], d)'
                      /\ AtRest(d)' => (Happened(d) <= outbox[d].attempts + SentOnce(outbox[d]) + crashes)'
    BY <1>2 DEF Recorded
  <2>1. CASE d = e
    BY <1>3, <1>10, <2>1 DEF AtRest, new
  <2>2. CASE d # e
    <3>1. AtRest(d)' => AtRest(d)
      BY <1>1, <2>2 DEF AtRest
    <3>2. /\ Backed(outbox[d], d)
          /\ AtRest(d) => Happened(d) <= outbox[d].attempts + SentOnce(outbox[d]) + crashes
      BY DEF HonestInv, Recorded
    <3> QED
      BY <1>2, <1>6, <2>2, <3>1, <3>2 DEF Backed, Happened, SentOnce
  <2> QED
    BY <2>1, <2>2
<1>13. Working'
  <2> SUFFICES ASSUME NEW d \in Emails, loaded'[r][d] # NoRow
               PROVE  (/\ outbox[d].status = "pending"
                       /\ Backed(loaded[r][d], d)
                       /\ Happened(d) <= loaded[r][d].attempts + SentOnce(loaded[r][d]) + crashes
                       /\ Happened(d) <= outbox[d].attempts + 1 + crashes
                       /\ loaded[r][d].status = "sent" \/ d \in batch[r]
                             => loaded[r][d].attempts = outbox[d].attempts)'
    BY <1>2 DEF Working
  <2>1. CASE d = e
    BY <1>2, <1>4, <1>7, <1>10, <2>1 DEF Happened, row, new
  <2>2. CASE d # e
    <3>1. /\ outbox[d].status = "pending"
          /\ Backed(loaded[r][d], d)
          /\ Happened(d) <= loaded[r][d].attempts + SentOnce(loaded[r][d]) + crashes
          /\ Happened(d) <= outbox[d].attempts + 1 + crashes
          /\ loaded[r][d].status = "sent" \/ d \in batch[r]
                => loaded[r][d].attempts = outbox[d].attempts
      BY <1>6, <2>2 DEF HonestInv, Working
    <3> QED
      BY <1>2, <1>6, <2>2, <3>1 DEF Backed, Happened, SentOnce
  <2> QED
    BY <2>1, <2>2
<1> QED
  BY <1>11, <1>12, <1>13

LEMMA CrashHonest ==
    ASSUME OneRun, HonestInv, NEW r \in Runs, Crash(r)
    PROVE  Idle' /\ Recorded' /\ Working'
<1>1. /\ \A e \in Emails : loaded'[r][e] = NoRow
      /\ \A q \in Runs : q = r
  BY StopEffect DEF HonestInv, TypeInv, Crash, OneRun
<1>2. UNCHANGED <<outbox, delivered, refused>> /\ crashes' = crashes + 1
  BY DEF Crash, history
<1>3. Idle' /\ Working'
  BY <1>1 DEF Idle, Working
<1>4. Recorded'
  <2> SUFFICES ASSUME NEW e \in Emails, outbox[e] # NoRow
               PROVE  /\ Backed(outbox[e], e)
                      /\ Happened(e) <= outbox[e].attempts + SentOnce(outbox[e]) + crashes'
    BY <1>2 DEF Recorded, Backed, Happened, SentOnce
  <2>1. Backed(outbox[e], e)
    BY DEF HonestInv, Recorded
  <2>2. /\ crashes \in Nat /\ outbox[e].attempts \in Nat
        /\ delivered[e] \in Nat /\ refused[e] \in Nat /\ SentOnce(outbox[e]) \in {0, 1}
    BY HonestTypes DEF HonestInv, SentOnce
  <2>3. CASE loaded[r][e] = NoRow
    <3>1. Happened(e) <= outbox[e].attempts + SentOnce(outbox[e]) + crashes
      BY <1>1, <2>3 DEF HonestInv, Recorded, AtRest
    <3> QED
      BY <1>2, <2>1, <2>2, <3>1 DEF Happened
  <2>4. CASE loaded[r][e] # NoRow
    <3>1. Happened(e) <= outbox[e].attempts + 1 + crashes
      BY <2>4 DEF HonestInv, Working
    <3> QED
      BY <1>2, <2>1, <2>2, <3>1 DEF Happened
  <2> QED
    BY <2>3, <2>4
<1> QED
  BY <1>3, <1>4

(* CommitRun: the record catches up with what happened. *)
LEMMA CommitRunHonest ==
    ASSUME OneRun, HonestInv, NEW r \in Runs, CommitRun(r)
    PROVE  Idle' /\ Recorded' /\ Working'
<1>1. /\ \A e \in Emails : loaded'[r][e] = NoRow
      /\ \A q \in Runs : q = r
  BY StopEffect DEF HonestInv, TypeInv, CommitRun, OneRun
<1>2. UNCHANGED <<delivered, refused, crashes>>
  BY DEF CommitRun, history
<1>3. Idle' /\ Working'
  BY <1>1 DEF Idle, Working
<1>4. Recorded'
  <2> SUFFICES ASSUME NEW e \in Emails, outbox'[e] # NoRow
               PROVE  /\ Backed(outbox'[e], e)
                      /\ Happened(e) <= outbox'[e].attempts + SentOnce(outbox'[e]) + crashes
    BY <1>2 DEF Recorded, Backed, Happened, SentOnce
  <2>1. /\ outbox[e] # NoRow
        /\ loaded[r][e] = NoRow => outbox'[e] = outbox[e]
        /\ loaded[r][e] # NoRow =>
              /\ outbox[e] \in Row /\ loaded[r][e] \in Row /\ AttemptsLeft(loaded[r][e])
              /\ outbox'[e] = Merge(outbox[e], loaded[r][e])
    BY CommitRunEffect DEF HonestInv
  <2>2. CASE loaded[r][e] = NoRow
    BY <1>1, <2>1, <2>2 DEF HonestInv, Recorded, AtRest
  <2>3. CASE loaded[r][e] # NoRow
    <3> DEFINE mine == loaded[r][e]
               new == outbox'[e]
    <3>1. /\ outbox[e].status = "pending"
          /\ Backed(mine, e)
          /\ Happened(e) <= mine.attempts + SentOnce(mine) + crashes
          /\ mine.status = "sent" => mine.attempts = outbox[e].attempts
      BY <2>3 DEF HonestInv, Working
    <3>2. mine.status \in {"pending", "sent", "failed"}
      BY <2>1, <2>3 DEF Row
    <3>3. /\ mine.status = "sent" => new.status = "sent" /\ new.attempts = outbox[e].attempts
          /\ mine.status = "failed" => new.status = "failed" /\ new.attempts = mine.attempts
          /\ mine.status = "pending" => new.status = outbox[e].status /\ new.attempts = mine.attempts
      BY <2>1, <2>3, MergeEffect
    <3>4. new.status = mine.status /\ new.attempts = mine.attempts
      BY <3>1, <3>2, <3>3
    <3> QED
      BY <3>1, <3>4 DEF Backed, SentOnce
  <2> QED
    BY <2>2, <2>3
<1> QED
  BY <1>3, <1>4

LEMMA TickHonest ==
    ASSUME HonestInv, Tick
    PROVE  Idle' /\ Recorded' /\ Working'
<1>1. UNCHANGED <<batch, running, crashes, delivered, refused>>
  BY DEF Tick, history
<1>2. \A e \in Emails : /\ outbox'[e] # NoRow <=> outbox[e] # NoRow
                        /\ outbox[e] # NoRow => /\ outbox'[e].status = outbox[e].status
                                                /\ outbox'[e].attempts = outbox[e].attempts
  BY HonestTypes, TickEffect, SoonerEffect DEF HonestInv
<1>3. \A r \in Runs, e \in Emails :
        /\ loaded'[r][e] # NoRow <=> loaded[r][e] # NoRow
        /\ loaded[r][e] # NoRow => /\ loaded'[r][e].status = loaded[r][e].status
                                   /\ loaded'[r][e].attempts = loaded[r][e].attempts
  BY HonestTypes, TickEffect, SoonerEffect DEF HonestInv
<1>4. Idle'
  BY <1>1, <1>3 DEF HonestInv, Idle
<1>5. Recorded'
  BY <1>1, <1>2, <1>3 DEF HonestInv, Recorded, Backed, Happened, SentOnce, AtRest
<1>6. Working'
  <2>1. \A r \in Runs, e \in Emails : loaded[r][e] # NoRow => outbox[e] # NoRow
    BY DEF HonestInv, TypeInv, RowsCommitted
  <2> QED
    BY <1>1, <1>2, <1>3, <2>1 DEF HonestInv, Working, Backed, Happened, SentOnce
<1> QED
  BY <1>4, <1>5, <1>6

LEMMA NextHonest ==
    ASSUME OneRun PROVE HonestInv /\ [Next]_vars => HonestInv'
<1> SUFFICES ASSUME HonestInv, [Next]_vars PROVE Idle' /\ Recorded' /\ Working'
  BY NextTypeInv DEF HonestInv
<1>1. ASSUME NEW e \in Emails,
             EnqueueInRequest(e) \/ CommitRequest(e) \/ RollBackRequest(e) \/ EnqueueAlone(e)
      PROVE  Idle' /\ Recorded' /\ Working'
  <2>1. CASE EnqueueInRequest(e) \/ RollBackRequest(e)
    <3>1. UNCHANGED <<outbox, batch, loaded, running, crashes, delivered, refused>>
      BY <2>1 DEF EnqueueInRequest, RollBackRequest, runVars, history
    <3> QED
      BY <3>1 DEF HonestInv, Idle, Recorded, Working, Backed, Happened, SentOnce, AtRest
  <2>2. CASE CommitRequest(e) \/ EnqueueAlone(e)
    BY <2>2, AcceptHonest DEF CommitRequest, EnqueueAlone, runVars, history
  <2> QED
    BY <1>1, <2>1, <2>2
<1>2. ASSUME NEW r \in Runs, Progress(r) \/ Crash(r)
      PROVE  Idle' /\ Recorded' /\ Working'
  BY <1>2, BeginHonest, DeliverHonest, CommitRunHonest, CrashHonest DEF Progress
<1>3. CASE Tick
  BY <1>3, TickHonest
<1>4. CASE UNCHANGED vars
  BY <1>4 DEF vars, HonestInv, Idle, Recorded, Working, Backed, Happened, SentOnce, AtRest
<1> QED
  BY <1>1, <1>2, <1>3, <1>4 DEF Next

(* The ledger tells the truth as long as one job runs at a time: the row of *)
(* an email claims nothing that did not happen, and hides at most one       *)
(* delivery or refusal for each run that died.                              *)
THEOREM LedgerIsHonestHolds ==
    ASSUME OneRun PROVE Spec => []LedgerIsHonest
<1>1. HonestInv => LedgerIsHonest
  BY DEF HonestInv, Recorded, Backed, Happened, SentOnce, LedgerIsHonest
<1> QED
  BY <1>1, InitHonest, NextHonest, PTL DEF Spec

-----------------------------------------------------------------------------
(* The refinement of OutboxBook *)

LEMMA InitBook == Init => Book!Init
<1> SUFFICES ASSUME Init PROVE Book!Init
  OBVIOUS
<1>1. \A e \in Emails : Phase(outbox[e]) = "none" /\ ~(delivered[e] > 0)
  BY DEF Init, Nothing, Phase
<1> QED
  BY <1>1 DEF Init, Book!Init

(* A step that changes neither phases nor the history is none of the book. *)
LEMMA StutterBook ==
    ASSUME TypeOK, UNCHANGED <<delivered, refused>>,
           \A e \in Emails : Phase(outbox'[e]) = Phase(outbox[e])
    PROVE  UNCHANGED Book!bookVars
BY DEF Book!bookVars, Phase

LEMMA AcceptBook ==
    ASSUME TypeInv, NEW e \in Emails, request[e] # "committed",
           outbox' = [outbox EXCEPT ![e] = NewRow], UNCHANGED <<delivered, refused>>
    PROVE  Book!Next
<1>1. outbox \in [Emails -> Row \cup {NoRow}] /\ outbox[e] = NoRow
  BY DEF TypeInv, TypeOK, RowsCommitted
<1>2. Phase(outbox[e]) = "none" /\ Phase(NewRow) = "pending"
  BY <1>1, NewRowType DEF Phase, NewRow
<1>3. \A d \in Emails : Phase(outbox'[d]) = IF d = e THEN "pending" ELSE Phase(outbox[d])
  BY <1>1, <1>2
<1> HIDE DEF Phase
<1>4. [d \in Emails |-> Phase(outbox'[d])]
        = [[d \in Emails |-> Phase(outbox[d])] EXCEPT ![e] = "pending"]
  BY <1>3
<1>5. Book!Accept(e)
  BY <1>2, <1>4 DEF Book!Accept, Phase
<1> QED
  BY <1>5 DEF Book!Next

LEMMA DeliverBook ==
    ASSUME HonestInv, NEW r \in Runs, Deliver(r)
    PROVE  [Book!Next]_(Book!bookVars)
<1>1. PICK e \in batch[r] :
        /\ e \in Emails
        /\ \/ delivered' = [delivered EXCEPT ![e] = Count(@)] /\ refused' = refused
           \/ refused' = [refused EXCEPT ![e] = Count(@)] /\ delivered' = delivered
  BY DeliverEffect DEF HonestInv
<1>2. outbox' = outbox
  BY DEF Deliver
<1>3. loaded[r][e] # NoRow /\ outbox[e] # NoRow
  BY <1>1 DEF HonestInv, TypeInv, InHand, RowsCommitted
<1>4. Phase(outbox[e]) = "pending"
  BY <1>1, <1>3 DEF HonestInv, Working, Phase
<1>5. /\ delivered \in [Emails -> 0..Many] /\ refused \in [Emails -> 0..Many]
      /\ delivered[e] \in 0..Many /\ refused[e] \in 0..Many
  BY <1>1 DEF HonestInv, TypeInv, TypeOK
<1>6. [d \in Emails |-> Phase(outbox[d])][e] = "pending"
  BY <1>1, <1>4
<1>7. CASE delivered' = [delivered EXCEPT ![e] = Count(@)] /\ refused' = refused
  <2>1. {d \in Emails : delivered'[d] > 0} = {d \in Emails : delivered[d] > 0} \cup {e}
    BY <1>1, <1>5, <1>7, CountType
  <2>2. Book!Try(e)
    BY <1>2, <1>6, <1>7, <2>1 DEF Book!Try, Phase
  <2> QED
    BY <1>1, <2>2 DEF Book!Next
<1>8. CASE refused' = [refused EXCEPT ![e] = Count(@)] /\ delivered' = delivered
  <2>1. CASE refused[e] < Many
    <3>1. refused' = [refused EXCEPT ![e] = refused[e] + 1]
      BY <1>1, <1>5, <1>8, <2>1, CountType
    <3>2. Book!Try(e)
      BY <1>2, <1>6, <1>8, <3>1 DEF Book!Try, Phase
    <3> QED
      BY <1>1, <3>2 DEF Book!Next
  <2>2. CASE ~(refused[e] < Many)
    <3>1. refused' = refused
      BY <1>1, <1>5, <1>8, <2>2 DEF Count
    <3> QED
      BY <1>2, <1>8, <3>1 DEF Book!bookVars, Phase
  <2> QED
    BY <2>1, <2>2
<1> QED
  BY <1>1, <1>7, <1>8

(* The outcomes a run commits are outcomes of pending emails, and true. *)
LEMMA CommitRunBook ==
    ASSUME HonestInv, NEW r \in Runs, CommitRun(r)
    PROVE  Book!Next
<1> DEFINE phases == [e \in Emails |-> Phase(outbox[e])]
           gone == {e \in Emails : delivered[e] > 0}
<1>1. UNCHANGED <<delivered, refused>>
  BY DEF CommitRun, history
<1>2. ASSUME NEW e \in Emails
      PROVE  \/ Phase(outbox'[e]) = Phase(outbox[e])
             \/ Phase(outbox[e]) = "pending" /\ Phase(outbox'[e]) = "sent" /\ delivered[e] > 0
             \/ /\ Phase(outbox[e]) = "pending" /\ Phase(outbox'[e]) = "failed"
                /\ refused[e] >= MaxAttempts
  <2>1. CASE loaded[r][e] = NoRow
    BY <2>1, CommitRunEffect DEF HonestInv
  <2>2. CASE loaded[r][e] # NoRow
    <3> DEFINE mine == loaded[r][e]
    <3>1. /\ outbox[e] \in Row /\ mine \in Row /\ AttemptsLeft(mine)
          /\ outbox'[e] = Merge(outbox[e], mine) /\ outbox'[e] # NoRow
      BY <2>2, CommitRunEffect, NoRowAssumption, MergeEffect DEF HonestInv
    <3>2. outbox[e].status = "pending" /\ Backed(mine, e)
      BY <2>2 DEF HonestInv, Working
    <3>3. Phase(outbox[e]) = "pending" /\ Phase(outbox'[e]) = outbox'[e].status
      BY <3>1, <3>2, NoRowAssumption DEF Phase
    <3>4. mine.status \in {"pending", "sent", "failed"}
      BY <3>1 DEF Row
    <3>5. delivered[e] \in Nat /\ refused[e] \in Nat /\ MaxAttempts \in Nat
      BY HonestTypes DEF HonestInv
    <3>6. CASE mine.status = "pending"
      BY <3>1, <3>2, <3>3, <3>6, MergeEffect
    <3>7. CASE mine.status = "sent"
      BY <3>1, <3>2, <3>3, <3>5, <3>7, MergeEffect DEF Backed, SentOnce
    <3>8. CASE mine.status = "failed"
      BY <3>1, <3>2, <3>3, <3>5, <3>8, MergeEffect DEF Backed
    <3> QED
      BY <3>4, <3>6, <3>7, <3>8
  <2> QED
    BY <2>1, <2>2
<1>3. \A e \in Emails : Phase(outbox'[e]) \in {"none", "pending", "sent", "failed"}
  <2> SUFFICES ASSUME NEW e \in Emails
               PROVE  Phase(outbox'[e]) \in {"none", "pending", "sent", "failed"}
    OBVIOUS
  <2>1. outbox'[e] \in Row \cup {NoRow}
    BY CommitRunEffect DEF HonestInv
  <2> QED
    BY <2>1 DEF Row, Phase
<1>4. [e \in Emails |-> Phase(outbox'[e])] \in [Emails -> {"none", "pending", "sent", "failed"}]
  BY <1>3
<1>5. \A e \in Emails : Book!Settled(e)
  BY <1>2 DEF Book!Settled, Phase
<1>6. Book!Settle
  BY <1>1, <1>4, <1>5 DEF Book!Settle, Phase
<1> QED
  BY <1>6 DEF Book!Next

LEMMA NextBook ==
    ASSUME HonestInv, [Next]_vars
    PROVE  [Book!Next]_(Book!bookVars)
<1> USE DEF HonestInv, TypeInv
<1>1. ASSUME NEW e \in Emails, EnqueueInRequest(e) \/ RollBackRequest(e)
      PROVE  UNCHANGED Book!bookVars
  BY <1>1, StutterBook DEF EnqueueInRequest, RollBackRequest, history
<1>2. ASSUME NEW e \in Emails, CommitRequest(e) \/ EnqueueAlone(e)
      PROVE  Book!Next
  BY <1>2, AcceptBook DEF CommitRequest, EnqueueAlone, history
<1>3. ASSUME NEW r \in Runs, Begin(r) \/ Crash(r)
      PROVE  UNCHANGED Book!bookVars
  BY <1>3, StutterBook DEF Begin, Crash, history
<1>4. CASE Tick
  <2>1. \A e \in Emails : Phase(outbox'[e]) = Phase(outbox[e])
    BY <1>4, TickEffect, SoonerEffect, HonestTypes DEF Phase
  <2> QED
    BY <1>4, <2>1, StutterBook DEF Tick, history
<1>5. CASE UNCHANGED vars
  BY <1>5, StutterBook DEF vars, history
<1> QED
  BY <1>1, <1>2, <1>3, <1>4, <1>5, DeliverBook, CommitRunBook DEF Next, Progress

(* One job at a time, the outbox with its queue, batches, clock and crashes *)
(* is the book: an email is tried only while its outcome is open, an        *)
(* outcome stays, "sent" has been delivered and "failed" was refused        *)
(* max_attempts times.                                                      *)
THEOREM ImplementsBookHolds ==
    ASSUME OneRun PROVE Spec => ImplementsBook
<1>1. Init => Book!Init
  BY InitBook
<1>2. HonestInv /\ [Next]_vars => [Book!Next]_(Book!bookVars)
  BY NextBook
<1> QED
  BY <1>1, <1>2, InitHonest, NextHonest, PTL DEF Spec, ImplementsBook, Book!Spec
=============================================================================
