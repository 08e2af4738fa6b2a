----------------------------- MODULE OutboxBook -----------------------------
(***************************************************************************)
(* What an outbox promises, without queue, runs, batches, clock or crash:  *)
(* every accepted email is tried while its outcome is open, and gets one   *)
(* outcome that says what has happened to it.  EmailOutbox implements it.  *)
(***************************************************************************)
EXTENDS Naturals

CONSTANTS
    Emails,
    Enough      \* refusals after which an email may be given up

VARIABLES
    phase,      \* per email
    gone,       \* emails that were delivered at least once
    refusals    \* per email

bookVars == <<phase, gone, refusals>>

Init ==
    /\ phase = [e \in Emails |-> "none"]
    /\ gone = {}
    /\ refusals = [e \in Emails |-> 0]

Accept(e) ==
    /\ phase[e] = "none"
    /\ phase' = [phase EXCEPT ![e] = "pending"]
    /\ UNCHANGED <<gone, refusals>>

Try(e) ==
    /\ phase[e] = "pending"
    /\ \/ gone' = gone \cup {e} /\ UNCHANGED refusals
       \/ refusals' = [refusals EXCEPT ![e] = @ + 1] /\ UNCHANGED gone
    /\ UNCHANGED phase

Settled(e) ==
    \/ phase'[e] = phase[e]
    \/ phase[e] = "pending" /\ phase'[e] = "sent" /\ e \in gone
    \/ phase[e] = "pending" /\ phase'[e] = "failed" /\ refusals[e] >= Enough

(* Outcomes are written for several emails at once. *)
Settle ==
    /\ phase' \in [Emails -> {"none", "pending", "sent", "failed"}]
    /\ \A e \in Emails : Settled(e)
    /\ UNCHANGED <<gone, refusals>>

Next == Settle \/ \E e \in Emails : Accept(e) \/ Try(e)

Spec == Init /\ [][Next]_bookVars
=============================================================================
