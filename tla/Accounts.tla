------------------------------ MODULE Accounts ------------------------------
(***************************************************************************)
(* The life of a row of the users table: created, invited, deactivated,    *)
(* re-enabled, given a password through a reset or invite token, and       *)
(* anonymised, by an operator or by the retention job.                     *)
(*                                                                         *)
(* Each operation loads the rows it is about, then writes and commits.     *)
(* The ORM emits only the columns whose value it changed, so two           *)
(* operations on one row are merged column by column (Merge).              *)
(*                                                                         *)
(* A definition named X_Something is a faulty variant of X, there to show  *)
(* that a property depends on X; no specification uses it.                 *)
(***************************************************************************)
EXTENDS Naturals

CONSTANTS
    Users,         \* user ids
    Tokens,        \* ids of password_reset_tokens rows (resets and invites)
    Slots,         \* requests and commands that may be in flight together
    MaxDay,        \* bound: the last day modelled
    ResetDays,     \* password_reset_token_expire_minutes
    InviteDays,    \* invite_token_expire_minutes
    KeepDays,      \* user_anonymize_after_days
    NoDay, NoRow, GoneRow, NoToken

ASSUME AccountsAssumption ==
    /\ {MaxDay, ResetDays, InviteDays, KeepDays} \subseteq Nat
    /\ NoDay \notin Nat
    /\ NoToken \notin Tokens

VARIABLES
    users,    \* the users table: a row, NoRow or, once deleted, GoneRow
    tokens,   \* the password_reset_tokens table
    today,
    op,       \* per slot: the operation in flight
    seen,     \* per slot: the user rows it loaded
    tok       \* per slot: the reset token it is confirming

slotVars == <<op, seen, tok>>
vars == <<users, tokens, today, op, seen, tok>>

Days == 0..MaxDay

UserRow == [active: BOOLEAN, password: {"unusable", "set"}, anonymized: BOOLEAN,
            clock: Days \cup {NoDay}, machine: BOOLEAN]

TokenRow == [user: Users, expires: Nat, used: BOOLEAN, invite: BOOLEAN]

ASSUME NothingAssumption ==
    /\ {NoRow, GoneRow} \cap (UserRow \cup TokenRow) = {} /\ NoRow # GoneRow

Writes == {"request", "confirm", "disable", "enable", "promote", "edit",
           "anonymize", "retention"}

Rows(us) == [us -> UserRow]

TypeOK ==
    /\ users \in [Users -> UserRow \cup {NoRow, GoneRow}]
    /\ tokens \in [Tokens -> TokenRow \cup {NoRow}]
    /\ today \in Days
    /\ op \in [Slots -> Writes \cup {"none"}]
    /\ \A s \in Slots : \E us \in SUBSET Users : seen[s] \in Rows(us)
    /\ tok \in [Slots -> Tokens \cup {NoToken}]

NoRows == [u \in {} |-> NoRow]

Exists(u) == users[u] \notin {NoRow, GoneRow}

Init ==
    /\ users = [u \in Users |-> NoRow]
    /\ tokens = [t \in Tokens |-> NoRow]
    /\ today = 0
    /\ op = [s \in Slots |-> "none"]
    /\ seen = [s \in Slots |-> NoRows]
    /\ tok = [s \in Slots |-> NoToken]

-----------------------------------------------------------------------------
(* New accounts: one insert, atomic by the unique email. *)

NewUser(u, password, machine, active) ==
    /\ users[u] = NoRow
    /\ users' = [users EXCEPT ![u] =
          [active |-> active, password |-> password, anonymized |-> FALSE,
           clock |-> NoDay, machine |-> machine]]
    /\ UNCHANGED <<today, slotVars>>

AddToken_BackDated(t, u, days, invite) ==
    /\ tokens[t] = NoRow
    /\ tokens' = [tokens EXCEPT ![t] =
          [user |-> u, expires |-> today - days, used |-> FALSE,
           invite |-> invite]]

AddToken(t, u, days, invite) ==
    /\ tokens[t] = NoRow
    /\ tokens' = [tokens EXCEPT ![t] =
          [user |-> u, expires |-> today + days, used |-> FALSE,
           invite |-> invite]]

CreateUser(u) == NewUser(u, "set", FALSE, TRUE) /\ UNCHANGED tokens

CreateServiceAccount(u) ==
    /\ NewUser(u, "unusable", TRUE, TRUE)
    /\ UNCHANGED tokens

InviteMember(u) ==
    /\ NewUser(u, "unusable", FALSE, FALSE)
    /\ \E t \in Tokens : AddToken(t, u, InviteDays, TRUE)

-----------------------------------------------------------------------------
(* Loading rows *)

Load(s, o, us) ==
    /\ op[s] = "none"
    /\ \A u \in us : Exists(u)
    /\ op' = [op EXCEPT ![s] = o]
    /\ seen' = [seen EXCEPT ![s] = [u \in us |-> users[u]]]
    /\ UNCHANGED <<users, tokens, today>>

Read(s, o, u) == Load(s, o, {u}) /\ UNCHANGED tok

ResetEligible_AnyActive(r) == r.active

(* password-reset/request: an active account that may log in by password. *)
ResetEligible(r) == r.active /\ ~r.machine

RequestRead(s, u) ==
    /\ Exists(u) /\ ResetEligible(users[u])
    /\ Read(s, "request", u)

(* consume_password_reset: an unused token that has not expired. *)
Consumable(t) ==
    /\ tokens[t] # NoRow
    /\ ~tokens[t].used
    /\ today <= tokens[t].expires

ConfirmRead(s, t) ==
    /\ Consumable(t)
    /\ Load(s, "confirm", {tokens[t].user})
    /\ tok' = [tok EXCEPT ![s] = t]

DisableRead(s, u) == Exists(u) /\ users[u].active /\ Read(s, "disable", u)

EnableRead(s, u) == Exists(u) /\ ~users[u].active /\ Read(s, "enable", u)

(* create-superadmin on an existing account *)
PromoteRead(s, u) == Read(s, "promote", u)

(* the is_active box of the user form *)
EditRead(s, u) == Read(s, "edit", u)

AnonymizeRead(s, u) == Read(s, "anonymize", u)

(* privacy retention-run: the accounts deactivated for longer than KeepDays. *)
Expired(r) ==
    /\ ~r.active
    /\ ~r.anonymized
    /\ r.clock # NoDay
    /\ r.clock + KeepDays < today

RetentionRead(s) ==
    LET due == {u \in Users : Exists(u) /\ Expired(users[u])}
    IN  due # {} /\ Load(s, "retention", due) /\ UNCHANGED tok

-----------------------------------------------------------------------------
(* Writing and committing *)

(* The row as each operation leaves the copy it loaded. *)
Effect(o, r) ==
    CASE o = "confirm" -> [r EXCEPT !.active = TRUE, !.password = "set"]
      [] o = "disable" -> [r EXCEPT !.active = FALSE, !.clock = today]
      [] o = "enable"  -> [r EXCEPT !.active = TRUE, !.clock = NoDay]
      [] o = "promote" -> [r EXCEPT !.active = TRUE]
      [] o = "edit"    -> [r EXCEPT !.active = ~@]
      [] o \in {"anonymize", "retention"} ->
            [r EXCEPT !.active = FALSE, !.password = "unusable", !.anonymized = TRUE]

(* Columns whose new value always differs: salted hashes and timestamps. *)
AlwaysWritten(o) ==
    CASE o \in {"confirm", "anonymize", "retention"} -> {"password"}
      [] o = "disable" -> {"clock"}
      [] OTHER -> {}

Merge(cur, old, new, forced) ==
    [c \in DOMAIN cur |-> IF c \in forced \/ new[c] # old[c] THEN new[c] ELSE cur[c]]

Done(s) ==
    /\ op' = [op EXCEPT ![s] = "none"]
    /\ seen' = [seen EXCEPT ![s] = NoRows]
    /\ tok' = [tok EXCEPT ![s] = NoToken]

RequestCommit(s) ==
    /\ op[s] = "request"
    /\ \E t \in Tokens, u \in DOMAIN seen[s] : AddToken(t, u, ResetDays, FALSE)
    /\ Done(s)
    /\ UNCHANGED <<users, today>>

(* A token is marked used in the transaction that sets the password. *)
MarkUsed(s) ==
    tokens' = IF op[s] = "confirm" THEN [tokens EXCEPT ![tok[s]].used = TRUE] ELSE tokens

Commit(s) ==
    LET loaded == DOMAIN seen[s]
        after(u) == Merge(users[u], seen[s][u], Effect(op[s], seen[s][u]),
                          AlwaysWritten(op[s]))
    IN  /\ op[s] \in Writes \ {"request"}
        /\ \A u \in loaded : Exists(u)
        /\ users' = [u \in Users |-> IF u \in loaded THEN after(u) ELSE users[u]]
        /\ MarkUsed(s)
        /\ Done(s)
        /\ UNCHANGED today

(* service-account delete removes the row of a machine account. *)
DeleteServiceAccount(u) ==
    /\ Exists(u) /\ users[u].machine
    /\ users' = [users EXCEPT ![u] = GoneRow]
    /\ UNCHANGED <<tokens, today, slotVars>>

Rollback(s) ==
    /\ op[s] # "none"
    /\ Done(s)
    /\ UNCHANGED <<users, tokens, today>>

NextDay ==
    /\ today < MaxDay
    /\ today' = today + 1
    /\ UNCHANGED <<users, tokens, slotVars>>

-----------------------------------------------------------------------------

Step(s) ==
    \/ \E u \in Users : \/ RequestRead(s, u)
                        \/ DisableRead(s, u)
                        \/ EnableRead(s, u)
                        \/ PromoteRead(s, u)
                        \/ EditRead(s, u)
                        \/ AnonymizeRead(s, u)
    \/ \E t \in Tokens : ConfirmRead(s, t)
    \/ RetentionRead(s)
    \/ RequestCommit(s)
    \/ Commit(s)
    \/ Rollback(s)

Next ==
    \/ \E u \in Users : \/ CreateUser(u)
                        \/ CreateServiceAccount(u)
                        \/ InviteMember(u)
                        \/ DeleteServiceAccount(u)
    \/ \E s \in Slots : Step(s)
    \/ NextDay

Spec == Init /\ [][Next]_vars

-----------------------------------------------------------------------------
(* Properties *)

(* A service account never gets a password: "ServiceAccounts are token-     *)
(* only", whatever resets, edits and promotions run around its creation.    *)
MachineStaysPasswordless ==
    \A u \in Users : Exists(u) /\ users[u].machine => users[u].password = "unusable"

(* "Irreversibly ... login can never succeed": no password opens an         *)
(* anonymised account.                                                      *)
AnonymizedStaysOut ==
    \A u \in Users : Exists(u) /\ users[u].anonymized /\ users[u].active
                        => users[u].password = "unusable"
=============================================================================
