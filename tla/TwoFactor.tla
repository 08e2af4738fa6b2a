----------------------------- MODULE TwoFactor -----------------------------
(***************************************************************************)
(* Two-factor authentication: enrolling (setup, enable, disable), the      *)
(* password step of a login, and the second step that exchanges a          *)
(* challenge and a TOTP or backup code for a session.                      *)
(*                                                                         *)
(* Requests interleave between their reads and their statements.  The ORM  *)
(* writes only the columns it changed.  An UPDATE or a DELETE holds its row *)
(* until the commit, other writers of the row wait, and readers see what   *)
(* is committed.  A transaction that writes one row is one step.           *)
(*                                                                         *)
(* A definition named X_Something is a faulty variant of X, there to show  *)
(* that a property depends on X; no specification uses it.                 *)
(***************************************************************************)
EXTENDS Naturals

CONSTANTS
    Users,
    Slots,         \* requests in flight
    Secrets,       \* TOTP secrets (random_base32)
    Jtis,          \* ids of challenge tokens
    MaxBatch,      \* bound: enrolments completed by each user
    BatchSize,     \* BACKUP_CODE_COUNT
    MaxVersion,    \* bound: value of token_version
    NoSecret, NoJti, NoCode, NoRow

ASSUME TwoFactorAssumption ==
    /\ MaxBatch \in Nat /\ BatchSize \in Nat /\ MaxVersion \in Nat
    /\ NoSecret \notin Secrets /\ NoJti \notin Jtis

VARIABLES
    is_active, token_version,    \* columns of users
    totp_secret, totp_enabled,
    codes,       \* two_factor_backup_codes: the rows
    used,        \* the rows with used_at
    batches,     \* enrolments each user has completed
    challenges,  \* challenge tokens issued
    revoked,     \* jtis in revoked_tokens
    op, pc,      \* per slot: the handler and its next step
    row,         \* per slot: the user row it loaded
    jti, code,   \* per slot: the challenge and the backup code presented
    cleared,     \* per slot: the backup codes it has deleted
    required,    \* history, per slot: 2FA has been on since the request began
    spent,       \* history, per slot: challenges and codes used before it began
    opened,      \* history: the challenges and codes that opened a session
    slipped,     \* history: users let in by password while 2FA was on
    verified     \* history: secrets of which enable has verified a code

tables == <<is_active, token_version, totp_secret, totp_enabled, codes, used, batches,
            challenges, revoked>>
slotVars == <<op, pc, row, jti, code, cleared, required, spent>>
history == <<opened, slipped, verified>>
vars == <<is_active, token_version, totp_secret, totp_enabled, codes, used,
          batches, challenges, revoked, op, pc, row, jti, code, cleared, required,
          spent, opened, slipped, verified>>

Code == [user: Users, batch: 1..MaxBatch, n: 1..BatchSize]

Challenge == [jti: Jtis, user: Users, tkv: 0..MaxVersion]

Row == [user: Users, secret: Secrets \cup {NoSecret}, enabled: BOOLEAN,
        tkv: 0..MaxVersion]

ASSUME NothingAssumption ==
    /\ NoRow \notin Row /\ NoCode \notin Jtis \cup Code
    /\ \A j \in Jtis : j \notin Code

EnrollOps == {"setup", "enable", "disable", "anonymize"}
Ops == EnrollOps \cup {"none", "login", "2fa_login"}
Pcs == {"idle", "write", "clear", "store", "second_read", "check", "load", "verify", "mark",
        "recheck", "insert", "mint"}

TypeOK ==
    /\ is_active \in [Users -> BOOLEAN]
    /\ totp_secret \in [Users -> Secrets \cup {NoSecret}]
    /\ totp_enabled \in [Users -> BOOLEAN]
    /\ token_version \in [Users -> 0..MaxVersion]
    /\ codes \subseteq Code /\ used \subseteq Code
    /\ batches \in [Users -> 0..MaxBatch]
    /\ challenges \subseteq Challenge
    /\ revoked \subseteq Jtis
    /\ op \in [Slots -> Ops] /\ pc \in [Slots -> Pcs]
    /\ row \in [Slots -> Row \cup {NoRow}]
    /\ jti \in [Slots -> Jtis \cup {NoJti}]
    /\ code \in [Slots -> Code \cup {NoCode}]
    /\ cleared \in [Slots -> SUBSET Code]
    /\ required \in [Slots -> BOOLEAN]
    /\ spent \in [Slots -> SUBSET (Jtis \cup Code)]
    /\ opened \subseteq Jtis \cup Code
    /\ slipped \subseteq Users
    /\ verified \subseteq Secrets

ReadRow(u) == [user |-> u, secret |-> totp_secret[u], enabled |-> totp_enabled[u],
               tkv |-> token_version[u]]

CodesOf(u) == {c \in codes : c.user = u}

Init ==
    /\ is_active = [u \in Users |-> TRUE]
    /\ totp_secret = [u \in Users |-> NoSecret]
    /\ totp_enabled = [u \in Users |-> FALSE]
    /\ token_version = [u \in Users |-> 0]
    /\ codes = {} /\ used = {} /\ challenges = {} /\ revoked = {}
    /\ batches = [u \in Users |-> 0]
    /\ op = [s \in Slots |-> "none"] /\ pc = [s \in Slots |-> "idle"]
    /\ row = [s \in Slots |-> NoRow]
    /\ jti = [s \in Slots |-> NoJti] /\ code = [s \in Slots |-> NoCode]
    /\ cleared = [s \in Slots |-> {}] /\ required = [s \in Slots |-> FALSE]
    /\ spent = [s \in Slots |-> {}] /\ opened = {}
    /\ slipped = {} /\ verified = {}

Goto(s, step) == pc' = [pc EXCEPT ![s] = step]

Start(s, o, u, step) ==
    /\ pc[s] = "idle"
    /\ op' = [op EXCEPT ![s] = o]
    /\ row' = [row EXCEPT ![s] = ReadRow(u)]
    /\ required' = [required EXCEPT ![s] = totp_enabled[u]]
    /\ Goto(s, step)
    /\ UNCHANGED <<tables, jti, code, cleared, spent>>

(* The request is over.  Requests of users in "off" have seen 2FA off.     *)
Finish(s, off) ==
    /\ op' = [op EXCEPT ![s] = "none"]
    /\ Goto(s, "idle")
    /\ row' = [row EXCEPT ![s] = NoRow]
    /\ jti' = [jti EXCEPT ![s] = NoJti]
    /\ code' = [code EXCEPT ![s] = NoCode]
    /\ cleared' = [cleared EXCEPT ![s] = {}]
    /\ spent' = [spent EXCEPT ![s] = {}]
    /\ required' = [q \in Slots |->
          required[q] /\ q # s /\ \A u \in off : row[q].user # u]

(* A backup code whose UPDATE, or whose DELETE, is not committed yet.      *)
Held(c) == \E s \in Slots : code[s] = c /\ pc[s] \in {"recheck", "insert", "mint"}

Deleted(c) == \E s \in Slots : pc[s] = "store" /\ c \in cleared[s]

HoldsRow_AfterClear(s) == pc[s] = "store"

(* The request has updated its user, by a flush before anything else.      *)
HoldsRow(s) == pc[s] \in {"clear", "store"}

RowFree(u) == \A s \in Slots : HoldsRow(s) => row[s].user # u

-----------------------------------------------------------------------------
(* Enrolment *)

FreshSecrets ==
    Secrets \ (verified \cup {totp_secret[u] : u \in Users}
                       \cup {row[q].secret : q \in {q \in Slots : row[q] # NoRow}})

SetupRead(s, u) ==
    /\ is_active[u] /\ ~totp_enabled[u]
    /\ Start(s, "setup", u, "write")
    /\ UNCHANGED history

SetupCommit(s) ==
    /\ op[s] = "setup" /\ RowFree(row[s].user)
    /\ \E x \in FreshSecrets :
          totp_secret' = [totp_secret EXCEPT ![row[s].user] = x]
    /\ Finish(s, {})
    /\ UNCHANGED <<is_active, token_version, totp_enabled, codes, used, batches,
                   challenges, revoked, history>>

(* The code submitted is one of the secret in the row that was loaded.     *)
EnableRead(s, u) ==
    /\ is_active[u] /\ batches[u] < MaxBatch
    /\ ~totp_enabled[u] /\ totp_secret[u] # NoSecret
    /\ Start(s, "enable", u, "write")
    /\ verified' = verified \cup {totp_secret[u]}
    /\ UNCHANGED <<opened, slipped>>

(* totp_enabled, and for disable the secret, written and flushed: the new   *)
(* values are seen by others when the request commits.                     *)
UpdateUser(s) ==
    /\ pc[s] = "write" /\ op[s] \in {"enable", "disable"}
    /\ RowFree(row[s].user)
    /\ Goto(s, "clear")
    /\ UNCHANGED <<tables, op, row, jti, code, cleared, required, spent, history>>

(* clear_backup_codes: the rows a SELECT finds are deleted one by one.     *)
ClearCodes(s) ==
    /\ pc[s] = "clear"
    /\ \A c \in CodesOf(row[s].user) : ~Held(c)
    /\ cleared' = [cleared EXCEPT ![s] = CodesOf(row[s].user)]
    /\ Goto(s, "store")
    /\ UNCHANGED <<tables, op, row, jti, code, required, spent, history>>

(* store_backup_codes, and the commit. *)
EnableCommit(s) ==
    LET u == row[s].user
    IN  /\ pc[s] = "store" /\ op[s] = "enable" /\ batches[u] < MaxBatch
        /\ totp_enabled' = [totp_enabled EXCEPT ![u] = TRUE]
        /\ codes' = (codes \ cleared[s]) \cup
                        [user: {u}, batch: {batches[u] + 1}, n: 1..BatchSize]
        /\ batches' = [batches EXCEPT ![u] = @ + 1]
        /\ Finish(s, {})
        /\ UNCHANGED <<is_active, token_version, totp_secret, used, challenges, revoked,
                       history>>

DisableRead(s, u) ==
    /\ is_active[u] /\ totp_enabled[u]
    /\ totp_secret[u] # NoSecret
    /\ Start(s, "disable", u, "write")
    /\ UNCHANGED history

DisableCommit(s) ==
    LET u == row[s].user
    IN  /\ pc[s] = "store" /\ op[s] = "disable"
        /\ totp_enabled' = [totp_enabled EXCEPT ![u] = FALSE]
        /\ totp_secret' = [totp_secret EXCEPT ![u] = NoSecret]
        /\ codes' = codes \ cleared[s]
        /\ Finish(s, {u})
        /\ UNCHANGED <<is_active, token_version, used, batches, challenges, revoked, history>>

(* anonymize_user clears both columns, if the row it loaded had them set,   *)
(* and leaves the backup codes.                                             *)
AnonymizeRead(s, u) ==
    /\ token_version[u] < MaxVersion
    /\ Start(s, "anonymize", u, "write")
    /\ UNCHANGED history

AnonymizeCommit(s) ==
    LET r == row[s]
    IN  /\ op[s] = "anonymize" /\ RowFree(r.user)
        /\ is_active' = [is_active EXCEPT ![r.user] = FALSE]
        /\ totp_secret' = IF r.secret = NoSecret THEN totp_secret
                          ELSE [totp_secret EXCEPT ![r.user] = NoSecret]
        /\ totp_enabled' = IF r.enabled THEN [totp_enabled EXCEPT ![r.user] = FALSE]
                           ELSE totp_enabled
        /\ token_version' = [token_version EXCEPT ![r.user] = r.tkv + 1]
        /\ Finish(s, {r.user})
        /\ UNCHANGED <<codes, used, batches, challenges, revoked, history>>

(* Any other bump of token_version, as one step. *)
Bump(u) ==
    /\ token_version[u] < MaxVersion /\ RowFree(u)
    /\ token_version' = [token_version EXCEPT ![u] = @ + 1]
    /\ UNCHANGED <<is_active, totp_secret, totp_enabled, codes, used, batches,
                   challenges, revoked, slotVars, history>>

-----------------------------------------------------------------------------
(* POST /login, once the password is verified: the provider has loaded the *)
(* row in a session of its own; the handler loads it again to see whether  *)
(* a second factor is due.                                                 *)

LoginRead(s, u) ==
    is_active[u] /\ Start(s, "login", u, "second_read") /\ UNCHANGED history

Unused(u) == CodesOf(u) \ used

MfaRequired_IfCodesLeft(u) == totp_enabled[u] /\ Unused(u) # {}

MfaRequired(u) == totp_enabled[u]

FreshJtis == Jtis \ {c.jti : c \in challenges}

LoginRespond(s) ==
    LET u == row[s].user
    IN  /\ pc[s] = "second_read"
        /\ \/ /\ MfaRequired(u)
              /\ \E j \in FreshJtis : challenges' = challenges \cup
                    {[jti |-> j, user |-> u, tkv |-> token_version[u]]}
              /\ UNCHANGED slipped
           \/ /\ ~MfaRequired(u)
              /\ slipped' = slipped \cup {v \in {u} : required[s]}
              /\ UNCHANGED challenges
        /\ Finish(s, {})
        /\ UNCHANGED <<is_active, token_version, totp_secret, totp_enabled,
                       codes, used, batches, revoked, opened, verified>>

-----------------------------------------------------------------------------
(* POST /2fa/login *)

Present(s, ch) ==
    /\ pc[s] = "idle"
    /\ op' = [op EXCEPT ![s] = "2fa_login"]
    /\ jti' = [jti EXCEPT ![s] = ch.jti]
    /\ spent' = [spent EXCEPT ![s] = opened]
    /\ Goto(s, "check")
    /\ UNCHANGED <<tables, row, code, cleared, required, history>>

Fail(s) == Finish(s, {}) /\ UNCHANGED <<tables, history>>

Move(s, step) ==
    /\ Goto(s, step)
    /\ UNCHANGED <<tables, op, jti, cleared, required, spent, history>>

CheckRevoked(s) ==
    /\ pc[s] = "check"
    /\ \/ /\ jti[s] \notin revoked
          /\ Move(s, "load")
          /\ UNCHANGED <<row, code>>
       \/ /\ jti[s] \in revoked
          /\ Fail(s)

LoadUser(s) ==
    /\ pc[s] = "load"
    /\ \E ch \in challenges :
        /\ ch.jti = jti[s]
        /\ \/ /\ is_active[ch.user] /\ token_version[ch.user] = ch.tkv
              /\ totp_enabled[ch.user]
              /\ row' = [row EXCEPT ![s] = ReadRow(ch.user)]
              /\ Move(s, "verify")
              /\ UNCHANGED code
           \/ /\ \/ ~is_active[ch.user] \/ ~totp_enabled[ch.user]
                 \/ token_version[ch.user] # ch.tkv
              /\ Fail(s)

VerifyTotp(s) ==
    /\ pc[s] = "verify"
    /\ row[s].secret # NoSecret
    /\ Move(s, "recheck")
    /\ UNCHANGED <<row, code>>

FindBackupCode_AnyStored(s, c) ==
    /\ pc[s] = "verify"
    /\ c \in CodesOf(row[s].user)
    /\ code' = [code EXCEPT ![s] = c]
    /\ Move(s, "mark")
    /\ UNCHANGED row

(* consume_backup_code finds the unused row, then marks it: by then the    *)
(* row may have been marked by another request, or deleted.                *)
FindBackupCode(s, c) ==
    /\ pc[s] = "verify"
    /\ c \in Unused(row[s].user)
    /\ code' = [code EXCEPT ![s] = c]
    /\ Move(s, "mark")
    /\ UNCHANGED row

MarkBackupCode(s) ==
    /\ pc[s] = "mark"
    /\ ~Held(code[s]) /\ ~Deleted(code[s])
    /\ \/ /\ code[s] \in codes
          /\ Move(s, "recheck")
          /\ UNCHANGED <<row, code>>
       \/ /\ code[s] \notin codes
          /\ Fail(s)

(* revoke_token of the challenge; its answer is not used. *)
RecheckRevoked(s) ==
    /\ pc[s] = "recheck"
    /\ Move(s, IF jti[s] \in revoked THEN "mint" ELSE "insert")
    /\ UNCHANGED <<row, code>>

(* Unique jti: the insert fails when another request revoked it meanwhile. *)
SecondFactorDone(s) ==
    /\ \/ pc[s] = "insert" /\ jti[s] \notin revoked
       \/ pc[s] = "mint"
    /\ revoked' = revoked \cup {jti[s]}
    /\ used' = used \cup ({code[s]} \ {NoCode})
    /\ opened' = opened \cup ({jti[s], code[s]} \ {NoCode})
    /\ Finish(s, {})
    /\ UNCHANGED <<is_active, token_version, totp_secret, totp_enabled, codes,
                   batches, challenges, slipped, verified>>

(* A wrong code, a unique-index conflict, an error or a lost connection. *)
Rollback(s) == pc[s] # "idle" /\ Fail(s)

-----------------------------------------------------------------------------

Step(s) ==
    \/ \E u \in Users : \/ SetupRead(s, u)
                        \/ EnableRead(s, u)
                        \/ DisableRead(s, u)
                        \/ AnonymizeRead(s, u)
                        \/ LoginRead(s, u)
    \/ \E ch \in challenges : Present(s, ch)
    \/ \E c \in codes : FindBackupCode(s, c)
    \/ SetupCommit(s)
    \/ UpdateUser(s)
    \/ ClearCodes(s)
    \/ EnableCommit(s)
    \/ DisableCommit(s)
    \/ AnonymizeCommit(s)
    \/ LoginRespond(s)
    \/ CheckRevoked(s)
    \/ LoadUser(s)
    \/ VerifyTotp(s)
    \/ MarkBackupCode(s)
    \/ RecheckRevoked(s)
    \/ SecondFactorDone(s)
    \/ Rollback(s)

Next == (\E s \in Slots : Step(s)) \/ (\E u \in Users : Bump(u))

Spec == Init /\ [][Next]_vars
-----------------------------------------------------------------------------
(* Properties *)

(* While 2FA is on, a password alone opens no session: whoever starts and   *)
(* ends a login with 2FA on is given a challenge (login, "2FA step-up").    *)
PasswordAloneNeverEnough == slipped = {}

(* "Fresh backup codes - clear any leftovers": the codes stored for a user  *)
(* all come from one enrolment, so the ones shown last are the ones that    *)
(* work, whatever enrolments and logins ran together.                       *)
OneCodeSet == \A c, d \in codes : c.user = d.user => c.batch = d.batch

(* 2FA is "not active until /2fa/enable verifies a code" of the secret.     *)
EnabledSecretVerified ==
    \A u \in Users : totp_enabled[u] => totp_secret[u] \in verified

(* "Single-use challenge" and "backup codes are single-use": no request      *)
(* opens a session with a challenge or a code that was used up before the    *)
(* request began, and none gets beyond its checks with one.                  *)
NoReuse ==
    \A s \in Slots : pc[s] \in {"recheck", "insert", "mint"} =>
        /\ jti[s] \notin spent[s]
        /\ code[s] \notin spent[s]
=============================================================================
