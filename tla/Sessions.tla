------------------------------ MODULE Sessions ------------------------------
(***************************************************************************)
(* Token sessions of asterion-admin: how access, refresh and impersonation *)
(* tokens are issued, rotated, revoked one by one (the revoked_tokens      *)
(* table) and revoked for a whole user (the users.token_version column).   *)
(*                                                                         *)
(* Every HTTP request runs in one database transaction (READ COMMITTED),   *)
(* so a handler is a sequence of reads, each of the latest committed rows, *)
(* followed by one atomic write-and-commit.  A Slot is one request (or one *)
(* CLI command) in flight; between two of its steps any other slot moves.  *)
(*                                                                         *)
(* A definition named X_Something is a faulty variant of X, there to show  *)
(* that a property depends on X; no specification uses it.                 *)
(***************************************************************************)
EXTENDS Naturals

CONSTANTS
    Users,        \* rows of the users table
    Superadmins,  \* the users with is_superadmin
    Slots,        \* requests and CLI commands that may be in flight together
    BumpSlots,    \* the slots in which token_version-bumping handlers run
    Jtis,         \* token identifiers (uuid4)
    MaxVersion,   \* bound: no bump starts once a token_version is this high
    NoToken, NoUser, NoRow, NoJti

ASSUME SessionsAssumption ==
    /\ Superadmins \subseteq Users
    /\ BumpSlots \subseteq Slots
    /\ MaxVersion \in Nat
    /\ NoUser \notin Users
    /\ NoJti \notin Jtis

VARIABLES
    active,         \* users.is_active
    token_version,  \* users.token_version
    issued,         \* every token ever handed to a client
    revoked_tokens, \* jtis with a row in revoked_tokens
    op, pc,         \* per slot: the handler it runs and the next step of it
    tok,            \* per slot: the token the request presents
    row,            \* per slot: the user row the handler has loaded
    epoch           \* history: committed token_version bumps of each user

db     == <<active, token_version, issued, revoked_tokens, epoch>>
slots  == <<op, pc, tok, row>>
vars   == <<active, token_version, issued, revoked_tokens,
            op, pc, tok, row, epoch>>

TokenTypes == {"access", "refresh", "impersonation"}

(* The claims of a signed token.  "parent" (the token it was obtained with) *)
(* and "ep" (the bumps committed when its version was read) are history.    *)
Token == [jti: Jtis, type: TokenTypes, sub: Users, tkv: Nat,
          by: Users \cup {NoUser}, parent: Jtis \cup {NoJti}, ep: Nat]

(* A loaded user row: the columns a handler goes on to use. *)
Row == [user: Users, tkv: Nat, active: BOOLEAN, ep: Nat]

TokenOps == {"refresh", "logout", "logout_all", "impersonate"}
BumpOps  == {"logout_all", "reset_confirm", "disable", "anonymize"}
Ops      == TokenOps \cup BumpOps \cup {"none", "login", "set_active"}
Pcs      == {"idle", "check", "load", "target", "recheck", "insert", "mint",
             "write"}

TypeOK ==
    /\ active \in [Users -> BOOLEAN]
    /\ token_version \in [Users -> Nat]
    /\ issued \subseteq Token
    /\ revoked_tokens \subseteq Jtis
    /\ op \in [Slots -> Ops]
    /\ pc \in [Slots -> Pcs]
    /\ tok \in [Slots -> Token \cup {NoToken}]
    /\ row \in [Slots -> Row \cup {NoRow}]
    /\ epoch \in [Users -> Nat]

-----------------------------------------------------------------------------

ReadRow(u) ==
    [user |-> u, tkv |-> token_version[u], active |-> active[u],
     ep |-> epoch[u]]

(* What get_current_user, authenticate_request and refresh accept. *)
Acceptable(t) ==
    /\ t.jti \notin revoked_tokens
    /\ active[t.sub]
    /\ token_version[t.sub] = t.tkv

Revocation(t) == t.jti \in revoked_tokens \/ token_version[t.sub] # t.tkv

FreshJtis == Jtis \ {t.jti : t \in issued}

NewToken(j, type, r, by, parent) ==
    [jti |-> j, type |-> type, sub |-> r.user, tkv |-> r.tkv, by |-> by,
     parent |-> parent, ep |-> r.ep]

(* An access and a refresh token for the loaded row. *)
MintPair(r, parent) ==
    \E j1, j2 \in FreshJtis :
        /\ j1 # j2
        /\ issued' = issued \cup {NewToken(j1, "access", r, NoUser, parent),
                                  NewToken(j2, "refresh", r, NoUser, parent)}

Goto(s, step) == /\ pc' = [pc EXCEPT ![s] = step]
                 /\ UNCHANGED <<op, tok>>

Finish(s) ==
    /\ op'   = [op EXCEPT ![s] = "none"]
    /\ pc'   = [pc EXCEPT ![s] = "idle"]
    /\ tok'  = [tok EXCEPT ![s] = NoToken]
    /\ row'  = [row EXCEPT ![s] = NoRow]

(* Start a handler that needs no token, having read the row of u. *)
StartWithRow(s, o, u, step) ==
    /\ pc[s] = "idle"
    /\ op'  = [op EXCEPT ![s] = o]
    /\ pc'  = [pc EXCEPT ![s] = step]
    /\ row' = [row EXCEPT ![s] = ReadRow(u)]
    /\ UNCHANGED <<tok, db>>

Init ==
    /\ active \in [Users -> BOOLEAN]
    /\ token_version = [u \in Users |-> 0]
    /\ issued = {}
    /\ revoked_tokens = {}
    /\ op = [s \in Slots |-> "none"]
    /\ pc = [s \in Slots |-> "idle"]
    /\ tok = [s \in Slots |-> NoToken]
    /\ row = [s \in Slots |-> NoRow]
    /\ epoch = [u \in Users |-> 0]

-----------------------------------------------------------------------------
(* POST /login: the provider reads the row in a session of its own and the *)
(* pair it mints from that row is answered later.                          *)

LoginVerify(s, u) ==
    /\ active[u]
    /\ StartWithRow(s, "login", u, "mint")

LoginRespond(s) ==
    /\ op[s] = "login" /\ pc[s] = "mint"
    /\ MintPair(row[s], NoJti)
    /\ Finish(s)
    /\ UNCHANGED <<active, token_version, revoked_tokens, epoch>>

-----------------------------------------------------------------------------
(* The steps shared by every handler that is presented a token: decode,    *)
(* is_token_revoked, load the subject's row and compare its version.       *)

Present(s, o, t) ==
    /\ pc[s] = "idle"
    /\ o = "refresh" <=> t.type = "refresh"
    /\ o = "logout_all" => s \in BumpSlots /\ token_version[t.sub] < MaxVersion
    /\ op'   = [op EXCEPT ![s] = o]
    /\ pc'   = [pc EXCEPT ![s] = "check"]
    /\ tok'  = [tok EXCEPT ![s] = t]
    /\ UNCHANGED <<row, db>>

CheckRevoked(s) ==
    /\ pc[s] = "check"
    /\ \/ /\ tok[s].jti \notin revoked_tokens
          /\ Goto(s, "load")
          /\ UNCHANGED row
       \/ /\ tok[s].jti \in revoked_tokens
          /\ Finish(s)
    /\ UNCHANGED db

Authorized_AnyAccess(s) == op[s] = "impersonate" => tok[s].type = "access"

(* require_superadmin, for the impersonation endpoint only. *)
Authorized(s) ==
    op[s] = "impersonate" => /\ tok[s].type = "access"
                             /\ tok[s].sub \in Superadmins

StepAfterLoad(o) ==
    CASE o \in {"refresh", "logout"} -> "recheck"
      [] o = "logout_all"            -> "write"
      [] o = "impersonate"           -> "target"

LoadUser(s) ==
    LET u == tok[s].sub
        ok == active[u] /\ token_version[u] = tok[s].tkv /\ Authorized(s)
    IN  /\ pc[s] = "load"
        /\ \/ /\ ok
              /\ row' = [row EXCEPT ![s] = ReadRow(u)]
              /\ Goto(s, StepAfterLoad(op[s]))
           \/ /\ ~ok
              /\ Finish(s)
        /\ UNCHANGED db

-----------------------------------------------------------------------------
(* revoke_token looks the jti up again before inserting it.  A jti found   *)
(* there makes it a no-op whose result neither caller uses; a jti inserted *)
(* by another transaction after the look-up hits the unique index.         *)

RecheckRevoked(s) ==
    /\ pc[s] = "recheck"
    /\ \/ /\ tok[s].jti \notin revoked_tokens
          /\ Goto(s, "insert")
          /\ UNCHANGED row
       \/ /\ tok[s].jti \in revoked_tokens /\ op[s] = "refresh"
          /\ Goto(s, "mint")
          /\ UNCHANGED row
       \/ /\ tok[s].jti \in revoked_tokens /\ op[s] = "logout"
          /\ Finish(s)
    /\ UNCHANGED db

InsertConflict(s) ==
    /\ pc[s] = "insert"
    /\ tok[s].jti \in revoked_tokens
    /\ Finish(s)
    /\ UNCHANGED db

Revoked_AllOfUser(t) == {i.jti : i \in {i \in issued : i.sub = t.sub}}

Revoked_Nothing(t) == {}

Revoked(t) == {t.jti}

InsertRevocation(s) ==
    /\ pc[s] = "insert"
    /\ tok[s].jti \notin revoked_tokens
    /\ revoked_tokens' = revoked_tokens \cup Revoked(tok[s])
    /\ \/ /\ op[s] = "refresh"
          /\ MintPair(row[s], tok[s].jti)
       \/ /\ op[s] = "logout"
          /\ UNCHANGED issued
    /\ Finish(s)
    /\ UNCHANGED <<active, token_version, epoch>>

RefreshAfterNoop(s) ==
    /\ op[s] = "refresh" /\ pc[s] = "mint"
    /\ MintPair(row[s], tok[s].jti)
    /\ Finish(s)
    /\ UNCHANGED <<active, token_version, revoked_tokens, epoch>>

-----------------------------------------------------------------------------
(* POST /root/impersonate: load the target, then mint and log. *)

LoadTarget(s, u) ==
    /\ pc[s] = "target"
    /\ u # tok[s].sub
    /\ \/ /\ active[u]
          /\ row' = [row EXCEPT ![s] = ReadRow(u)]
          /\ Goto(s, "mint")
       \/ /\ ~active[u]
          /\ Finish(s)
    /\ UNCHANGED db

MintImpersonation(s) ==
    /\ op[s] = "impersonate" /\ pc[s] = "mint"
    /\ \E j \in FreshJtis :
          issued' = issued \cup {NewToken(j, "impersonation", row[s],
                                          tok[s].sub, tok[s].jti)}
    /\ Finish(s)
    /\ UNCHANGED <<active, token_version, revoked_tokens, epoch>>

-----------------------------------------------------------------------------
(* Handlers that bump token_version.  The ORM writes the value it computed *)
(* from the row it loaded, and only the columns whose value changed.       *)

BumpStart(s, u) == s \in BumpSlots /\ token_version[u] < MaxVersion

ResetConfirmRead(s, u) ==
    BumpStart(s, u) /\ StartWithRow(s, "reset_confirm", u, "write")

DisableRead(s, u) ==
    /\ BumpStart(s, u)
    /\ active[u]
    /\ StartWithRow(s, "disable", u, "write")

AnonymizeRead(s, u) ==
    BumpStart(s, u) /\ StartWithRow(s, "anonymize", u, "write")

(* is_active as the handler sets it on the row it loaded. *)
NewActive(o, r) ==
    CASE o = "logout_all"             -> r.active
      [] o = "reset_confirm"          -> TRUE
      [] o \in {"disable", "anonymize"} -> FALSE

NextVersion_Unchanged(r) == r.tkv

NextVersion(r) == r.tkv + 1

BumpCommit(s) ==
    LET r == row[s]
        a == NewActive(op[s], r)
    IN  /\ pc[s] = "write"
        /\ op[s] \in BumpOps
        /\ token_version' = [token_version EXCEPT ![r.user] = NextVersion(r)]
        /\ active' = IF a = r.active THEN active
                                     ELSE [active EXCEPT ![r.user] = a]
        /\ epoch' = [epoch EXCEPT ![r.user] = @ + 1]
        /\ Finish(s)
        /\ UNCHANGED <<issued, revoked_tokens>>

(* The writes of is_active alone: the user form of the admin (both ways),   *)
(* user enable and create-superadmin.  None of them bumps the version.      *)
SetActiveRead(s, u) == StartWithRow(s, "set_active", u, "write")

SetActiveCommit(s) ==
    /\ pc[s] = "write"
    /\ op[s] = "set_active"
    /\ active' = [active EXCEPT ![row[s].user] = ~row[s].active]
    /\ Finish(s)
    /\ UNCHANGED <<token_version, issued, revoked_tokens, epoch>>

(* A handler error, a lost connection or a dying worker before the commit. *)
Rollback(s) ==
    /\ pc[s] # "idle"
    /\ Finish(s)
    /\ UNCHANGED db

-----------------------------------------------------------------------------

Step(s) ==
    \/ \E u \in Users : \/ LoginVerify(s, u)
                        \/ ResetConfirmRead(s, u)
                        \/ DisableRead(s, u)
                        \/ AnonymizeRead(s, u)
                        \/ SetActiveRead(s, u)
                        \/ LoadTarget(s, u)
    \/ \E o \in TokenOps, t \in issued : Present(s, o, t)
    \/ LoginRespond(s)
    \/ CheckRevoked(s)
    \/ LoadUser(s)
    \/ RecheckRevoked(s)
    \/ InsertConflict(s)
    \/ InsertRevocation(s)
    \/ RefreshAfterNoop(s)
    \/ MintImpersonation(s)
    \/ BumpCommit(s)
    \/ SetActiveCommit(s)
    \/ Rollback(s)

Next == \E s \in Slots : Step(s)

Spec == Init /\ [][Next]_vars
-----------------------------------------------------------------------------
(* Properties *)

(* Log out everywhere, password reset, disable and anonymise revoke every   *)
(* earlier token: whatever a request accepts was issued from a user row     *)
(* read after the last of these that committed (security.md, "Revocation"). *)
BumpKillsEarlierTokens ==
    \A t \in issued : Acceptable(t) => t.ep = epoch[t.sub]

(* Revoking one token leaves every other session working (the docstring of  *)
(* logout): an accepted token dies only by its own logout or rotation, or   *)
(* by a bump or deactivation of its own user.                               *)
RevocationIsLocal ==
    [][\A t \in issued :
          Acceptable(t) /\ ~Acceptable(t)' =>
              \E s \in Slots :
                  /\ pc'[s] = "idle"
                  /\ \/ pc[s] = "insert" /\ tok[s] = t
                     \/ pc[s] = "write" /\ row[s].user = t.sub
      ]_vars

(* Impersonation tokens are obtained with a plain access token of a         *)
(* superadmin, and nothing is ever obtained with one of them.               *)
NoNestedImpersonation ==
    \A t \in issued : \A p \in issued :
        t.parent = p.jti =>
            /\ p.type # "impersonation"
            /\ t.type = "impersonation" => p.type = "access" /\ p.sub = t.by
                                           /\ p.sub \in Superadmins

(* The refinement: what is out for good is what Revocation finds.           *)
Book == INSTANCE SessionBook
            WITH given <- issued, ended <- {t \in issued : Revocation(t)},
                 enabled <- {u \in Users : active[u]}, rounds <- epoch

(* Every token is handed out by a login, a rotation, which ends the token   *)
(* it is for, or an impersonation by a plain superadmin; it is ended by a   *)
(* logout or with all others of its user, and what is ended stays so.       *)
ImplementsSessionBook == Book!Spec
=============================================================================
