--------------------------- MODULE SessionsProofs ---------------------------
(***************************************************************************)
(* Proofs about Sessions for every set of users, slots and token ids.      *)
(*                                                                         *)
(* What concerns single tokens holds with any handlers overlapping.  That  *)
(* a bump kills every earlier token, and the refinement, hold when the     *)
(* bumps of token_version are serialized (SerialBumps), and fail without   *)
(* that assumption: TLC finds the execution with two BumpSlots.            *)
(***************************************************************************)
EXTENDS Sessions, TLAPS

(* One bump handler at a time: the locking the code leaves out. *)
SerialBumps == \A a, b \in BumpSlots : a = b

-----------------------------------------------------------------------------
(* The inductive invariants *)

TokenPcs == {"check", "load", "target", "recheck", "insert"}
RowPcs   == {"target", "recheck", "insert", "mint", "write"}

(* Which slots hold a token and a row, and which handler is at which step. *)
Control ==
    \A s \in Slots :
        /\ pc[s] \in TokenPcs => op[s] \in TokenOps /\ tok[s] \in issued
        /\ pc[s] = "mint" /\ op[s] # "login" => tok[s] \in issued
        /\ pc[s] \in RowPcs => row[s] \in Row
        /\ pc[s] = "target" => op[s] = "impersonate"
        /\ pc[s] = "mint" => op[s] \in {"login", "refresh", "impersonate"}
        /\ pc[s] = "write" => op[s] \in BumpOps \cup {"set_active"}
        /\ op[s] \in BumpOps => s \in BumpSlots

EpochExact == \A u \in Users : token_version[u] = epoch[u]

TokenStamped ==
    \A t \in issued : t.ep = t.tkv /\ t.tkv <= token_version[t.sub]

RowStamped ==
    \A s \in Slots : pc[s] \in RowPcs =>
        /\ row[s].ep = row[s].tkv
        /\ row[s].tkv <= token_version[row[s].user]

(* The bump in flight will write one more than the current version. *)
BumpCurrent ==
    \A s \in Slots : pc[s] = "write" /\ op[s] \in BumpOps =>
        row[s].tkv = token_version[row[s].user]

TypeInv == TypeOK /\ Control

VersionInv ==
    EpochExact /\ TokenStamped /\ RowStamped /\ BumpCurrent

-----------------------------------------------------------------------------
(* Lemmas about the helper operators *)

(* A row read from the users table has the columns of a row. *)
LEMMA ReadRowType ==
    ASSUME TypeOK, NEW u \in Users
    PROVE  /\ ReadRow(u) \in Row
           /\ ReadRow(u).user = u /\ ReadRow(u).tkv = token_version[u]
           /\ ReadRow(u).ep = epoch[u]
BY DEF TypeOK, Row, ReadRow

(* A token minted from a loaded row is a token stamped with that row. *)
LEMMA NewTokenType ==
    ASSUME SessionsAssumption, NEW r \in Row, NEW j \in Jtis, NEW type \in TokenTypes,
           NEW by \in Users \cup {NoUser}, NEW parent \in Jtis \cup {NoJti}
    PROVE  /\ NewToken(j, type, r, by, parent) \in Token
           /\ NewToken(j, type, r, by, parent).sub = r.user
           /\ NewToken(j, type, r, by, parent).tkv = r.tkv
           /\ NewToken(j, type, r, by, parent).ep = r.ep
BY DEF Row, Token, NewToken

(* Minting a pair only adds tokens, all stamped with the loaded row. *)
LEMMA MintPairAdds ==
    ASSUME SessionsAssumption, NEW r \in Row, NEW parent \in Jtis \cup {NoJti},
           issued \subseteq Token, MintPair(r, parent)
    PROVE  /\ issued \subseteq issued' /\ issued' \subseteq Token
           /\ \A t \in issued' \ issued : t.sub = r.user /\ t.tkv = r.tkv /\ t.ep = r.ep
<1>1. PICK j1 \in FreshJtis, j2 \in FreshJtis :
        issued' = issued \cup {NewToken(j1, "access", r, NoUser, parent),
                               NewToken(j2, "refresh", r, NoUser, parent)}
  BY DEF MintPair
<1>2. j1 \in Jtis /\ j2 \in Jtis
  BY DEF FreshJtis
<1> DEFINE t1 == NewToken(j1, "access", r, NoUser, parent)
           t2 == NewToken(j2, "refresh", r, NoUser, parent)
<1>3. t1 \in Token /\ t1.sub = r.user /\ t1.tkv = r.tkv /\ t1.ep = r.ep
  BY <1>2, NewTokenType DEF TokenTypes
<1>4. t2 \in Token /\ t2.sub = r.user /\ t2.tkv = r.tkv /\ t2.ep = r.ep
  BY <1>2, NewTokenType DEF TokenTypes
<1> HIDE DEF t1, t2
<1>5. issued' = issued \cup {t1, t2}
  BY <1>1 DEF t1, t2
<1> QED
  BY <1>3, <1>4, <1>5

(* The five ways a step changes the slots: a handler finishes, moves to its *)
(* next step, starts from a row, or starts from a token.                    *)
LEMMA FinishEffect ==
    ASSUME TypeOK, NEW s \in Slots, Finish(s)
    PROVE  /\ op' \in [Slots -> Ops] /\ pc' \in [Slots -> Pcs]
           /\ tok' \in [Slots -> Token \cup {NoToken}]
           /\ row' \in [Slots -> Row \cup {NoRow}]
           /\ op'[s] = "none" /\ pc'[s] = "idle"
           /\ \A q \in Slots \ {s} : /\ op'[q] = op[q] /\ pc'[q] = pc[q]
                                     /\ tok'[q] = tok[q] /\ row'[q] = row[q]
BY DEF TypeOK, Finish, Ops, Pcs
(* A finished slot keeps the invariants of slots, if no token is forgotten. *)
LEMMA FinishKeepsControl ==
    ASSUME TypeInv, NEW s \in Slots, Finish(s),
           issued \subseteq issued', revoked_tokens \subseteq revoked_tokens'
    PROVE  Control'
BY FinishEffect DEF TypeInv, Control, TokenPcs, RowPcs, TokenOps, BumpOps

LEMMA TypeInvInit ==
    ASSUME Init PROVE TypeInv
BY DEF Init, TypeInv, TypeOK, Control, TokenPcs, RowPcs, Ops, Pcs, BumpOps, TokenOps

(* Type correctness and control are preserved by every step. *)
LEMMA TypeInvStep ==
    ASSUME SessionsAssumption, TypeInv, [Next]_vars
    PROVE  TypeInv'
<1> USE SessionsAssumption
<1> USE DEF TypeInv
<1>1. ASSUME NEW s \in Slots, NEW u \in Users, NEW o \in Ops, NEW step \in Pcs,
             StartWithRow(s, o, u, step), step \in {"mint", "write"},
             step = "mint" => o = "login",
             step = "write" => o \in {"reset_confirm", "disable", "anonymize", "set_active"},
             o \in BumpOps => s \in BumpSlots
      PROVE  TypeInv'
  <2>1. ReadRow(u) \in Row
    BY ReadRowType
  <2>2. TypeOK'
    BY <1>1, <2>1 DEF TypeOK, StartWithRow, db
  <2>3. Control'
    BY <1>1, <2>1 DEF TypeOK, StartWithRow, db, Control, TokenPcs, RowPcs, TokenOps, BumpOps
  <2> QED
    BY <2>2, <2>3
<1>2. ASSUME NEW s \in Slots, Finish(s), UNCHANGED db
      PROVE  TypeInv'
  <2>1. TypeOK'
    BY <1>2, FinishEffect DEF TypeOK, db
  <2> QED
    BY <1>2, <2>1, FinishKeepsControl DEF db
<1>3. ASSUME NEW s \in Slots, NEW r \in Row, NEW parent \in Jtis \cup {NoJti},
             MintPair(r, parent), Finish(s), revoked_tokens \subseteq revoked_tokens',
             revoked_tokens' \subseteq Jtis, UNCHANGED <<active, token_version, epoch>>
      PROVE  TypeInv'
  <2>1. issued \subseteq issued' /\ issued' \subseteq Token
    BY <1>3, MintPairAdds DEF TypeOK
  <2>2. TypeOK'
    BY <1>3, <2>1, FinishEffect DEF TypeOK
  <2> QED
    BY <1>3, <2>1, <2>2, FinishKeepsControl
<1>4. ASSUME NEW s \in Slots, NEW step \in Pcs, Goto(s, step), UNCHANGED <<row, db>>,
             pc[s] \in TokenPcs, step \in {"load", "insert", "mint"},
             step # "load" => row[s] \in Row,
             step = "mint" => op[s] = "refresh"
      PROVE  TypeInv'
  <2>1. TypeOK'
    BY <1>4 DEF TypeOK, Goto, db
  <2>2. Control'
    BY <1>4 DEF TypeOK, Goto, db, Control, TokenPcs, RowPcs, TokenOps, BumpOps
  <2> QED
    BY <2>1, <2>2
<1>5. ASSUME NEW s \in Slots, NEW u \in Users, NEW step \in Pcs, Goto(s, step),
             row' = [row EXCEPT ![s] = ReadRow(u)], UNCHANGED db,
             pc[s] \in {"load", "target"}, tok[s] \in issued,
             step \in {"recheck", "target", "mint", "write"},
             step \in {"mint", "target"} => op[s] = "impersonate",
             step = "write" => op[s] = "logout_all"
      PROVE  TypeInv'
  <2>1. ReadRow(u) \in Row
    BY ReadRowType
  <2>2. TypeOK'
    BY <1>5, <2>1 DEF TypeOK, Goto, db
  <2>3. Control'
    BY <1>5, <2>1 DEF TypeOK, Goto, db, Control, TokenPcs, RowPcs, TokenOps, BumpOps
  <2> QED
    BY <2>2, <2>3
<1>6. SUFFICES ASSUME NEW s \in Slots, Step(s)
               PROVE  TypeInv'
  <2>1. CASE UNCHANGED vars
    BY <2>1 DEF vars, TypeOK, Control, TokenPcs, RowPcs
  <2> QED
    BY <2>1, <1>6 DEF Next
<1>7. CASE \E u \in Users : \/ LoginVerify(s, u) \/ ResetConfirmRead(s, u)
                            \/ DisableRead(s, u) \/ AnonymizeRead(s, u)
                            \/ SetActiveRead(s, u)
  BY <1>1, <1>7 DEF LoginVerify, ResetConfirmRead, DisableRead, AnonymizeRead,
                    SetActiveRead, BumpStart, Ops, BumpOps, TokenOps, Pcs
<1>8. CASE \E u \in Users : LoadTarget(s, u)
  <2> PICK u \in Users : LoadTarget(s, u)
    BY <1>8
  <2>1. tok[s] \in issued /\ op[s] = "impersonate"
    BY DEF LoadTarget, Control, TokenPcs
  <2> QED
    BY <1>2, <1>5, <2>1 DEF LoadTarget, Pcs
<1>9. CASE \E o \in TokenOps, t \in issued : Present(s, o, t)
  <2> PICK o \in TokenOps, t \in issued : Present(s, o, t)
    BY <1>9
  <2>1. TypeOK'
    BY DEF Present, TypeOK, db, Ops, Pcs, TokenOps
  <2>2. Control'
    BY DEF Present, TypeOK, db, Control, TokenPcs, RowPcs, TokenOps, BumpOps
  <2> QED
    BY <2>1, <2>2
<1>10. CASE LoginRespond(s)
  <2>1. row[s] \in Row
    BY <1>10 DEF LoginRespond, Control, RowPcs
  <2> QED
    BY <1>3, <1>10, <2>1 DEF LoginRespond, TypeOK
<1>11. CASE CheckRevoked(s)
  BY <1>2, <1>4, <1>11 DEF CheckRevoked, TypeOK, TokenPcs, Pcs, db
<1>12. CASE LoadUser(s)
  <2>1. tok[s] \in issued /\ op[s] \in TokenOps /\ tok[s].sub \in Users
    BY <1>12 DEF LoadUser, Control, TokenPcs, TypeOK, Token
  <2>2. /\ StepAfterLoad(op[s]) \in {"recheck", "target", "write"}
        /\ StepAfterLoad(op[s]) = "write" => op[s] = "logout_all"
        /\ StepAfterLoad(op[s]) = "target" => op[s] = "impersonate"
    BY <2>1 DEF StepAfterLoad, TokenOps
  <2> QED
    BY <1>2, <1>5, <1>12, <2>1, <2>2 DEF LoadUser, Pcs
<1>13. CASE RecheckRevoked(s)
  <2>1. row[s] \in Row
    BY <1>13 DEF RecheckRevoked, Control, RowPcs
  <2> QED
    BY <1>2, <1>4, <1>13, <2>1 DEF RecheckRevoked, TokenPcs, Pcs, db
<1>14. CASE InsertConflict(s)
  BY <1>2, <1>14 DEF InsertConflict
<1>15. CASE InsertRevocation(s)
  <2>1. row[s] \in Row /\ tok[s] \in issued /\ tok[s].jti \in Jtis
    BY <1>15 DEF InsertRevocation, Control, RowPcs, TokenPcs, TypeOK, Token
  <2>2. CASE MintPair(row[s], tok[s].jti)
    BY <1>3, <1>15, <2>1, <2>2 DEF InsertRevocation, Revoked, TypeOK
  <2>3. CASE UNCHANGED issued
    <3>1. TypeOK'
      BY <1>15, <2>1, <2>3, FinishEffect DEF InsertRevocation, Revoked, TypeOK
    <3> QED
      BY <1>15, <2>3, <3>1, FinishKeepsControl DEF InsertRevocation, Revoked
  <2> QED
    BY <1>15, <2>2, <2>3 DEF InsertRevocation
<1>16. CASE RefreshAfterNoop(s)
  <2>1. row[s] \in Row /\ tok[s].jti \in Jtis
    BY <1>16 DEF RefreshAfterNoop, Control, RowPcs, TypeOK, Token
  <2> QED
    BY <1>3, <1>16, <2>1 DEF RefreshAfterNoop, TypeOK
<1>17. CASE MintImpersonation(s)
  <2>1. row[s] \in Row /\ tok[s].jti \in Jtis /\ tok[s].sub \in Users
    BY <1>17 DEF MintImpersonation, Control, RowPcs, TypeOK, Token
  <2>2. PICK j \in Jtis : issued' = issued \cup
              {NewToken(j, "impersonation", row[s], tok[s].sub, tok[s].jti)}
    BY <1>17 DEF MintImpersonation, FreshJtis
  <2>3. NewToken(j, "impersonation", row[s], tok[s].sub, tok[s].jti) \in Token
    BY <2>1, NewTokenType DEF TokenTypes
  <2>4. TypeOK'
    BY <1>17, <2>2, <2>3, FinishEffect DEF MintImpersonation, TypeOK
  <2> QED
    BY <1>17, <2>2, <2>4, FinishKeepsControl DEF MintImpersonation
<1>18. CASE BumpCommit(s)
  <2>1. row[s] \in Row /\ row[s].user \in Users /\ row[s].tkv + 1 \in Nat
        /\ row[s].active \in BOOLEAN
    BY <1>18 DEF BumpCommit, Control, RowPcs, Row
  <2>2. NewActive(op[s], row[s]) \in BOOLEAN
    BY <1>18, <2>1 DEF BumpCommit, NewActive, BumpOps
  <2>3. TypeOK'
    BY <1>18, <2>1, <2>2, FinishEffect DEF BumpCommit, NextVersion, TypeOK
  <2> QED
    BY <1>18, <2>3, FinishKeepsControl DEF BumpCommit
<1>19. CASE SetActiveCommit(s)
  <2>1. row[s].user \in Users
    BY <1>19 DEF SetActiveCommit, Control, RowPcs, Row
  <2>2. TypeOK'
    BY <1>19, <2>1, FinishEffect DEF SetActiveCommit, TypeOK
  <2> QED
    BY <1>19, <2>2, FinishKeepsControl DEF SetActiveCommit
<1>20. CASE Rollback(s)
  BY <1>2, <1>20 DEF Rollback
<1> QED
  BY <1>6, <1>7, <1>8, <1>9, <1>10, <1>11, <1>12, <1>13, <1>14, <1>15, <1>16,
     <1>17, <1>18, <1>19, <1>20 DEF Step

(* Type correctness of every reachable state. *)
THEOREM TypeCorrect == ASSUME SessionsAssumption PROVE Spec => []TypeOK
<1>1. Init => TypeInv
  BY TypeInvInit
<1>2. TypeInv /\ [Next]_vars => TypeInv'
  BY TypeInvStep
<1>3. TypeInv => TypeOK
  BY DEF TypeInv
<1> QED
  BY <1>1, <1>2, <1>3, PTL DEF Spec

-----------------------------------------------------------------------------
(* Versions, when the bumps are serialized *)

LEMMA VersionInvInit ==
    ASSUME Init PROVE VersionInv
BY DEF Init, VersionInv, EpochExact, TokenStamped, RowStamped, BumpCurrent, RowPcs

(* Adding tokens stamped with the row of the finishing slot. *)
LEMMA MintKeepsVersions ==
    ASSUME TypeInv, VersionInv, NEW s \in Slots, pc[s] \in {"insert", "mint"}, Finish(s),
           UNCHANGED <<active, token_version, epoch>>,
           issued \subseteq issued', issued' \subseteq Token,
           \A t \in issued' \ issued :
               t.sub = row[s].user /\ t.tkv = row[s].tkv /\ t.ep = row[s].ep
    PROVE  VersionInv'
<1>1. row[s] \in Row /\ row[s].ep = row[s].tkv /\ row[s].tkv <= token_version[row[s].user]
  BY DEF TypeInv, Control, VersionInv, RowStamped, RowPcs
<1>2. /\ pc'[s] = "idle"
      /\ \A q \in Slots \ {s} : op'[q] = op[q] /\ pc'[q] = pc[q] /\ row'[q] = row[q]
  BY FinishEffect DEF TypeInv
<1>3. EpochExact'
  BY DEF VersionInv, EpochExact
<1>4. TokenStamped'
  <2> SUFFICES ASSUME NEW t \in issued'
               PROVE  t.ep = t.tkv /\ t.tkv <= token_version[t.sub]
    BY DEF TokenStamped
  <2>1. CASE t \in issued
    BY <2>1 DEF VersionInv, TokenStamped
  <2>2. CASE t \notin issued
    BY <1>1, <2>2
  <2> QED
    BY <2>1, <2>2
<1>5. RowStamped' /\ BumpCurrent'
  BY <1>2 DEF VersionInv, RowStamped, BumpCurrent, RowPcs
<1> QED
  BY <1>3, <1>4, <1>5 DEF VersionInv

(* A slot that loads the current row of u. *)
LEMMA LoadKeepsVersions ==
    ASSUME TypeInv, VersionInv, NEW s \in Slots, NEW u \in Users, UNCHANGED db,
           row' = [row EXCEPT ![s] = ReadRow(u)],
           \A q \in Slots \ {s} : op'[q] = op[q] /\ pc'[q] = pc[q]
    PROVE  VersionInv'
<1>1. /\ row'[s].user = u /\ row'[s].tkv = token_version[u] /\ row'[s].ep = epoch[u]
      /\ \A q \in Slots \ {s} : row'[q] = row[q]
  BY ReadRowType DEF TypeInv, TypeOK
<1>2. token_version[u] \in Nat /\ token_version[u] = epoch[u]
  BY DEF TypeInv, TypeOK, VersionInv, EpochExact
<1>3. EpochExact' /\ TokenStamped'
  BY DEF VersionInv, EpochExact, TokenStamped, db
<1>4. RowStamped'
  BY <1>1, <1>2 DEF VersionInv, RowStamped, db
<1>5. BumpCurrent'
  BY <1>1 DEF VersionInv, BumpCurrent, db
<1> QED
  BY <1>3, <1>4, <1>5 DEF VersionInv

(* Steps of a slot that load no row and do not write. *)
LEMMA MoveKeepsVersions ==
    ASSUME TypeInv, VersionInv, NEW s \in Slots,
           UNCHANGED <<active, token_version, issued, epoch>>,
           \A q \in Slots \ {s} : op'[q] = op[q] /\ pc'[q] = pc[q] /\ row'[q] = row[q],
           \/ pc'[s] \notin RowPcs
           \/ pc[s] = "recheck" /\ pc'[s] \in {"insert", "mint"} /\ row'[s] = row[s]
    PROVE  VersionInv'
<1>1. EpochExact' /\ TokenStamped'
  BY DEF VersionInv, EpochExact, TokenStamped
<1>2. RowStamped' /\ BumpCurrent'
  BY DEF VersionInv, RowStamped, BumpCurrent, RowPcs
<1> QED
  BY <1>1, <1>2 DEF VersionInv

(* The write of a bump handler: the one place that needs SerialBumps. *)
LEMMA BumpKeepsVersions ==
    ASSUME SerialBumps, TypeInv, VersionInv, NEW s \in Slots, BumpCommit(s)
    PROVE  /\ VersionInv'
           /\ token_version' = [token_version EXCEPT ![row[s].user] = @ + 1]
<1> DEFINE r == row[s]
<1>1. /\ r \in Row /\ r.user \in Users /\ r.tkv = token_version[r.user]
      /\ op[s] \in BumpOps /\ s \in BumpSlots /\ r.ep = r.tkv
  BY DEF BumpCommit, NextVersion, TypeInv, Control, RowPcs, Row, VersionInv, BumpCurrent, RowStamped
<1>2. /\ pc'[s] = "idle"
      /\ \A q \in Slots \ {s} : op'[q] = op[q] /\ pc'[q] = pc[q] /\ row'[q] = row[q]
  BY FinishEffect DEF TypeInv, BumpCommit
<1>3. token_version' = [token_version EXCEPT ![r.user] = @ + 1]
  BY <1>1 DEF BumpCommit, NextVersion
<1>4. /\ token_version'[r.user] = token_version[r.user] + 1
      /\ \A u \in Users \ {r.user} : token_version'[u] = token_version[u]
      /\ \A u \in Users : token_version[u] \in Nat /\ token_version[u] <= token_version'[u]
  BY <1>1, <1>3 DEF TypeInv, TypeOK
<1>6. UNCHANGED issued /\ \A t \in issued : t.sub \in Users /\ t.tkv \in Nat
  BY DEF BumpCommit, TypeInv, TypeOK, Token
<1>7. \A q \in Slots : pc[q] \in RowPcs => row[q].user \in Users /\ row[q].tkv \in Nat
  BY DEF TypeInv, Control, Row
<1>8. EpochExact'
  BY <1>1, <1>4 DEF BumpCommit, VersionInv, EpochExact, TypeInv, TypeOK
<1>9. TokenStamped'
  <2> SUFFICES ASSUME NEW t \in issued
               PROVE  t.ep = t.tkv /\ t.tkv <= token_version'[t.sub]
    BY <1>6 DEF TokenStamped
  <2>1. t.ep = t.tkv /\ t.tkv <= token_version[t.sub] /\ t.sub \in Users /\ t.tkv \in Nat
    BY <1>6 DEF VersionInv, TokenStamped
  <2> QED
    BY <2>1, <1>4
<1>10. RowStamped'
  <2> SUFFICES ASSUME NEW q \in Slots, pc'[q] \in RowPcs
               PROVE  row'[q].ep = row'[q].tkv /\ row'[q].tkv <= token_version'[row'[q].user]
    BY DEF RowStamped
  <2>1. q # s /\ row'[q] = row[q] /\ pc[q] \in RowPcs
    BY <1>2 DEF RowPcs
  <2>2. row[q].ep = row[q].tkv /\ row[q].tkv <= token_version[row[q].user]
    BY <2>1 DEF VersionInv, RowStamped
  <2> QED
    BY <2>1, <2>2, <1>4, <1>7
<1>11. BumpCurrent'
  BY <1>1, <1>2 DEF SerialBumps, BumpCurrent, TypeInv, Control
<1> QED
  BY <1>3, <1>8, <1>9, <1>10, <1>11 DEF VersionInv
(* A write of is_active alone touches no version. *)
LEMMA SetActiveKeepsVersions ==
    ASSUME TypeInv, VersionInv, NEW s \in Slots, SetActiveCommit(s)
    PROVE  VersionInv'
<1>1. /\ pc'[s] = "idle"
      /\ \A q \in Slots \ {s} : op'[q] = op[q] /\ pc'[q] = pc[q] /\ row'[q] = row[q]
  BY FinishEffect DEF TypeInv, SetActiveCommit
<1>2. EpochExact' /\ TokenStamped'
  BY DEF SetActiveCommit, VersionInv, EpochExact, TokenStamped
<1>3. RowStamped' /\ BumpCurrent'
  BY <1>1 DEF SetActiveCommit, VersionInv, RowStamped, BumpCurrent, RowPcs
<1> QED
  BY <1>2, <1>3 DEF VersionInv

(* Every step keeps versions, epochs and stamps in line; token_version only *)
(* grows, tokens are not forgotten and revocations are not withdrawn.       *)
LEMMA VersionInvStep ==
    ASSUME SessionsAssumption, SerialBumps, TypeInv, VersionInv, [Next]_vars
    PROVE  /\ VersionInv'
           /\ revoked_tokens \subseteq revoked_tokens'
           /\ \A u \in Users : token_version[u] <= token_version'[u]
<1> DEFINE Goal == /\ VersionInv'
                   /\ revoked_tokens \subseteq revoked_tokens'
                   /\ \A u \in Users : token_version[u] <= token_version'[u]
<1>1. \A u \in Users : token_version[u] \in Nat
  BY DEF TypeInv, TypeOK
<1>2. ASSUME UNCHANGED token_version, revoked_tokens \subseteq revoked_tokens',
             VersionInv'
      PROVE  Goal
  BY <1>1, <1>2
<1>3. ASSUME NEW s \in Slots, Finish(s)
      PROVE  /\ pc'[s] = "idle" /\ pc'[s] \notin RowPcs
             /\ \A q \in Slots \ {s} : op'[q] = op[q] /\ pc'[q] = pc[q] /\ row'[q] = row[q]
  BY <1>3, FinishEffect DEF TypeInv, RowPcs
<1>4. ASSUME NEW s \in Slots, Finish(s), UNCHANGED db
      PROVE  Goal
  BY <1>2, <1>3, <1>4, MoveKeepsVersions DEF db
<1>5. ASSUME NEW s \in Slots, NEW step \in Pcs, Goto(s, step)
      PROVE  /\ pc'[s] = step
             /\ \A q \in Slots \ {s} : op'[q] = op[q] /\ pc'[q] = pc[q]
  BY <1>5 DEF Goto, TypeInv, TypeOK
<1>6. ASSUME NEW s \in Slots, NEW u \in Users, NEW o \in Ops, NEW step \in {"mint", "write"},
             StartWithRow(s, o, u, step)
      PROVE  Goal
  <2>1. /\ pc'[s] = step
        /\ \A q \in Slots \ {s} : op'[q] = op[q] /\ pc'[q] = pc[q]
    BY <1>6 DEF StartWithRow, TypeInv, TypeOK
  <2>2. VersionInv'
    BY <1>6, <2>1, LoadKeepsVersions DEF StartWithRow
  <2> QED
    BY <1>2, <1>6, <2>2 DEF StartWithRow, db
<1>7. ASSUME NEW s \in Slots, pc[s] \in {"insert", "mint"}, NEW parent \in Jtis \cup {NoJti},
             MintPair(row[s], parent), Finish(s), revoked_tokens \subseteq revoked_tokens',
             UNCHANGED <<active, token_version, epoch>>
      PROVE  Goal
  <2>1. row[s] \in Row /\ issued \subseteq Token
    BY <1>7 DEF TypeInv, TypeOK, Control, RowPcs
  <2> QED
    BY <1>2, <1>7, <2>1, MintPairAdds, MintKeepsVersions
<1>8. SUFFICES ASSUME NEW s \in Slots, Step(s)
               PROVE  Goal
  <2>1. CASE UNCHANGED vars
    <3>1. VersionInv'
      BY <2>1 DEF vars, VersionInv, EpochExact, TokenStamped, RowStamped, BumpCurrent
    <3> QED
      BY <1>2, <2>1, <3>1 DEF vars
  <2> QED
    BY <2>1, <1>8 DEF Next
<1>9. CASE \E u \in Users : LoginVerify(s, u)
  BY <1>6, <1>9 DEF LoginVerify, Ops
<1>10. CASE \E u \in Users : \/ ResetConfirmRead(s, u) \/ DisableRead(s, u)
                             \/ AnonymizeRead(s, u) \/ SetActiveRead(s, u)
  BY <1>6, <1>10 DEF ResetConfirmRead, DisableRead, AnonymizeRead, SetActiveRead, Ops, BumpOps
<1>11. CASE \E u \in Users : LoadTarget(s, u)
  <2> PICK u \in Users : LoadTarget(s, u)
    BY <1>11
  <2>1. CASE active[u] /\ row' = [row EXCEPT ![s] = ReadRow(u)] /\ Goto(s, "mint")
    <3>1. VersionInv'
      BY <2>1, <1>5, LoadKeepsVersions DEF LoadTarget, Pcs
    <3> QED
      BY <1>2, <3>1 DEF LoadTarget, db
  <2> QED
    BY <1>4, <2>1 DEF LoadTarget
<1>12. CASE \E o \in TokenOps, t \in issued : Present(s, o, t)
  <2> PICK o \in TokenOps, t \in issued : Present(s, o, t)
    BY <1>12
  <2>1. /\ pc'[s] = "check"
        /\ \A q \in Slots \ {s} : op'[q] = op[q] /\ pc'[q] = pc[q]
    BY DEF Present, TypeInv, TypeOK
  <2>2. VersionInv'
    BY <2>1, MoveKeepsVersions DEF Present, db, RowPcs
  <2> QED
    BY <1>2, <2>2 DEF Present, db
<1>13. CASE LoginRespond(s)
  BY <1>7, <1>13 DEF LoginRespond
<1>14. CASE CheckRevoked(s)
  <2>1. CASE Goto(s, "load") /\ UNCHANGED row
    <3>1. VersionInv'
      BY <1>5, <1>14, <2>1, MoveKeepsVersions DEF CheckRevoked, db, RowPcs, Pcs
    <3> QED
      BY <1>2, <1>14, <3>1 DEF CheckRevoked, db
  <2> QED
    BY <1>4, <1>14, <2>1 DEF CheckRevoked
<1>15. CASE LoadUser(s)
  <2> DEFINE u == tok[s].sub
  <2>1. u \in Users /\ op[s] \in TokenOps
    BY <1>15 DEF LoadUser, TypeInv, Control, TokenPcs, TypeOK, Token
  <2>2. StepAfterLoad(op[s]) \in {"recheck", "target", "write"}
    BY <2>1 DEF StepAfterLoad, TokenOps
  <2>3. CASE /\ active[u]
             /\ row' = [row EXCEPT ![s] = ReadRow(u)]
             /\ Goto(s, StepAfterLoad(op[s]))
    <3>1. VersionInv'
      BY <1>5, <1>15, <2>1, <2>2, <2>3, LoadKeepsVersions DEF LoadUser, Pcs
    <3> QED
      BY <1>2, <1>15, <3>1 DEF LoadUser, db
  <2> QED
    BY <1>4, <1>15, <2>3 DEF LoadUser
<1>16. CASE RecheckRevoked(s)
  <2>1. CASE \E step \in {"insert", "mint"} : Goto(s, step) /\ UNCHANGED row
    <3>1. VersionInv'
      BY <1>5, <1>16, <2>1, MoveKeepsVersions DEF RecheckRevoked, db, Pcs
    <3> QED
      BY <1>2, <1>16, <3>1 DEF RecheckRevoked, db
  <2> QED
    BY <1>4, <1>16, <2>1 DEF RecheckRevoked
<1>17. CASE InsertConflict(s)
  BY <1>4, <1>17 DEF InsertConflict
<1>18. CASE InsertRevocation(s)
  <2>1. tok[s].jti \in Jtis
    BY <1>18 DEF InsertRevocation, TypeInv, Control, TokenPcs, TypeOK, Token
  <2>2. CASE MintPair(row[s], tok[s].jti)
    BY <1>7, <1>18, <2>1, <2>2 DEF InsertRevocation, Revoked
  <2>3. CASE UNCHANGED issued
    <3>1. VersionInv'
      BY <1>3, <1>18, <2>3, MoveKeepsVersions DEF InsertRevocation, Revoked
    <3> QED
      BY <1>2, <1>18, <3>1 DEF InsertRevocation, Revoked
  <2> QED
    BY <1>18, <2>2, <2>3 DEF InsertRevocation
<1>19. CASE RefreshAfterNoop(s)
  <2>1. tok[s].jti \in Jtis
    BY <1>19 DEF RefreshAfterNoop, TypeInv, Control, TypeOK, Token
  <2> QED
    BY <1>7, <1>19, <2>1 DEF RefreshAfterNoop
<1>20. CASE MintImpersonation(s)
  <2>1. row[s] \in Row /\ tok[s].jti \in Jtis /\ tok[s].sub \in Users
    BY <1>20 DEF MintImpersonation, TypeInv, Control, RowPcs, TypeOK, Token
  <2>2. PICK j \in Jtis : issued' = issued \cup
              {NewToken(j, "impersonation", row[s], tok[s].sub, tok[s].jti)}
    BY <1>20 DEF MintImpersonation, FreshJtis
  <2> DEFINE t == NewToken(j, "impersonation", row[s], tok[s].sub, tok[s].jti)
  <2>3. t \in Token /\ t.sub = row[s].user /\ t.tkv = row[s].tkv /\ t.ep = row[s].ep
    BY <2>1, NewTokenType DEF TokenTypes
  <2>4. issued' = issued \cup {t}
    BY <2>2
  <2> HIDE DEF t
  <2>5. issued \subseteq issued' /\ issued' \subseteq Token
    BY <2>3, <2>4 DEF TypeInv, TypeOK
  <2>6. VersionInv'
    BY <1>20, <2>3, <2>4, <2>5, MintKeepsVersions DEF MintImpersonation
  <2> QED
    BY <1>2, <1>20, <2>6 DEF MintImpersonation
<1>21. CASE BumpCommit(s)
  <2>1. row[s] \in Row /\ row[s].user \in Users
    BY <1>21 DEF BumpCommit, TypeInv, Control, RowPcs, Row
  <2>2. /\ VersionInv'
        /\ token_version' = [token_version EXCEPT ![row[s].user] = @ + 1]
    BY <1>21, BumpKeepsVersions
  <2>3. \A u \in Users : token_version[u] <= token_version'[u]
    BY <1>1, <2>1, <2>2 DEF TypeInv, TypeOK
  <2> QED
    BY <1>21, <2>2, <2>3 DEF BumpCommit
<1>22. CASE SetActiveCommit(s)
  <2>1. VersionInv'
    BY <1>22, SetActiveKeepsVersions
  <2>2. UNCHANGED <<token_version, revoked_tokens>>
    BY <1>22 DEF SetActiveCommit
  <2> QED
    BY <1>1, <2>1, <2>2
<1>23. CASE Rollback(s)
  BY <1>4, <1>23 DEF Rollback
<1> QED
  BY <1>8, <1>9, <1>10, <1>11, <1>12, <1>13, <1>14, <1>15, <1>16, <1>17, <1>18, <1>19,
     <1>20, <1>21, <1>22, <1>23 DEF Step

(* When bumps are serialized, a token accepted now was issued from a row    *)
(* read after every committed bump of its user.                             *)
THEOREM BumpKillsEarlier ==
    ASSUME SessionsAssumption, SerialBumps PROVE Spec => []BumpKillsEarlierTokens
<1> DEFINE Inv == TypeInv /\ VersionInv
<1>1. Init => Inv
  BY TypeInvInit, VersionInvInit
<1>2. Inv /\ [Next]_vars => Inv'
  BY TypeInvStep, VersionInvStep
<1>3. Inv => BumpKillsEarlierTokens
  BY DEF TypeInv, TypeOK, Token, VersionInv, EpochExact, TokenStamped,
         BumpKillsEarlierTokens, Acceptable
<1> QED
  BY <1>1, <1>2, <1>3, PTL DEF Spec

-----------------------------------------------------------------------------
(* Which token leads to which, for any handlers in flight *)

(* What a token may be obtained with. *)
Child(t, p) ==
    /\ p.type # "impersonation"
    /\ t.type = "impersonation" => p.type = "access" /\ p.sub = t.by /\ p.sub \in Superadmins

(* A refresh works with a refresh token; who is past require_superadmin    *)
(* has an access token of a superadmin.                                    *)
Presented ==
    \A s \in Slots :
        /\ op[s] = "refresh" /\ pc[s] # "idle" => tok[s].type = "refresh"
        /\ op[s] = "impersonate" /\ pc[s] \in {"target", "mint"} =>
              tok[s].type = "access" /\ tok[s].sub \in Superadmins

(* A jti is of one token, and a parent is a token there was. *)
Family ==
    /\ \A t, p \in issued : t.jti = p.jti => t = p
    /\ \A t \in issued : t.parent = NoJti \/ \E p \in issued : p.jti = t.parent
    /\ NoNestedImpersonation

(* Whoever is added has a jti of its own and a parent that may have it. *)
LEMMA FamilyGrows ==
    ASSUME SessionsAssumption, TypeInv, Family, NEW new, new \subseteq Token,
           issued' = issued \cup new,
           \A t \in new : t.jti \in FreshJtis,
           \A t, u \in new : t.jti = u.jti => t = u,
           \A t \in new : t.parent = NoJti \/ \E p \in issued : p.jti = t.parent /\ Child(t, p)
    PROVE  Family'
<1>1. \A t \in new, p \in issued : t.jti # p.jti
  BY DEF FreshJtis
<1>2. \A t, p \in issued' : t.jti = p.jti => t = p
  BY <1>1 DEF Family
<1>3. \A t \in issued' : t.parent = NoJti \/ \E p \in issued' : p.jti = t.parent
  BY DEF Family
<1>4. \A t \in issued' : t.jti \in Jtis
  BY DEF TypeInv, TypeOK, Token
<1>5. ASSUME NEW t \in issued', NEW p \in issued', t.parent = p.jti PROVE Child(t, p)
  <2>1. t.parent # NoJti
    BY <1>4, <1>5 DEF SessionsAssumption
  <2>2. CASE t \in issued
    <3>1. PICK q \in issued : q.jti = t.parent
      BY <2>1, <2>2 DEF Family
    <3>2. p = q
      BY <1>2, <1>5, <3>1
    <3> QED
      BY <1>5, <2>2, <3>1, <3>2 DEF Family, NoNestedImpersonation, Child
  <2>3. CASE t \in new
    <3>1. PICK q \in issued : q.jti = t.parent /\ Child(t, q)
      BY <2>1, <2>3
    <3>2. p = q
      BY <1>2, <1>5, <3>1
    <3> QED
      BY <3>1, <3>2
  <2> QED
    BY <2>2, <2>3
<1>6. NoNestedImpersonation'
  BY <1>5 DEF NoNestedImpersonation, Child
<1> QED
  BY <1>2, <1>3, <1>6 DEF Family

LEMMA PairIsFamily ==
    ASSUME SessionsAssumption, TypeInv, Family, NEW r \in Row, NEW parent \in Jtis \cup {NoJti},
           MintPair(r, parent),
           parent = NoJti \/ \E p \in issued : p.jti = parent /\ p.type # "impersonation"
    PROVE  Family'
<1>1. PICK j1 \in FreshJtis, j2 \in FreshJtis :
        /\ j1 # j2
        /\ issued' = issued \cup {NewToken(j1, "access", r, NoUser, parent),
                                  NewToken(j2, "refresh", r, NoUser, parent)}
  BY DEF MintPair
<1> DEFINE t1 == NewToken(j1, "access", r, NoUser, parent)
           t2 == NewToken(j2, "refresh", r, NoUser, parent)
<1>2. j1 \in Jtis /\ j2 \in Jtis
  BY DEF FreshJtis
<1>3. t1 \in Token /\ t2 \in Token
  BY <1>2, NewTokenType DEF TokenTypes
<1>4. /\ t1.jti = j1 /\ t2.jti = j2 /\ t1.parent = parent /\ t2.parent = parent
      /\ t1.type = "access" /\ t2.type = "refresh"
  BY DEF NewToken
<1> HIDE DEF t1, t2
<1>5. issued' = issued \cup {t1, t2}
  BY <1>1 DEF t1, t2
<1>6. \A t \in {t1, t2} : t.parent = NoJti \/ \E p \in issued : p.jti = t.parent /\ Child(t, p)
  BY <1>4 DEF Child
<1>7. /\ \A t \in {t1, t2} : t.jti \in FreshJtis
      /\ \A t, u \in {t1, t2} : t.jti = u.jti => t = u
      /\ {t1, t2} \subseteq Token
  BY <1>1, <1>3, <1>4
<1> DEFINE new == {t1, t2}
<1>8. /\ new \subseteq Token /\ issued' = issued \cup new
      /\ \A t \in new : t.jti \in FreshJtis
      /\ \A t, u \in new : t.jti = u.jti => t = u
      /\ \A t \in new : t.parent = NoJti \/ \E p \in issued : p.jti = t.parent /\ Child(t, p)
  BY <1>5, <1>6, <1>7
<1> HIDE DEF new
<1> QED
  BY <1>8, FamilyGrows

LEMMA FamilyStep ==
    ASSUME SessionsAssumption, TypeInv, Presented, Family, [Next]_vars PROVE Family'
<1>1. CASE UNCHANGED issued
  BY <1>1 DEF Family, NoNestedImpersonation
<1>2. ASSUME NEW s \in Slots, LoginRespond(s) PROVE Family'
  <2>1. row[s] \in Row
    BY <1>2 DEF LoginRespond, TypeInv, Control, RowPcs
  <2> QED
    BY <1>2, <2>1, PairIsFamily DEF LoginRespond
<1>3. ASSUME NEW s \in Slots, InsertRevocation(s) \/ RefreshAfterNoop(s) PROVE Family'
  <2>1. /\ row[s] \in Row /\ tok[s] \in issued /\ tok[s].jti \in Jtis
    BY <1>3 DEF InsertRevocation, RefreshAfterNoop, TypeInv, TypeOK, Control, RowPcs, TokenPcs, Token
  <2>2. CASE op[s] = "refresh" /\ MintPair(row[s], tok[s].jti)
    <3>1. tok[s].type # "impersonation"
      BY <1>3, <2>2 DEF InsertRevocation, RefreshAfterNoop, Presented
    <3> QED
      BY <2>1, <2>2, <3>1, PairIsFamily
  <2> QED
    BY <1>1, <1>3, <2>2 DEF InsertRevocation, RefreshAfterNoop
<1>4. ASSUME NEW s \in Slots, MintImpersonation(s) PROVE Family'
  <2>1. /\ row[s] \in Row /\ tok[s] \in issued /\ tok[s].jti \in Jtis /\ tok[s].sub \in Users
        /\ tok[s].type = "access" /\ tok[s].sub \in Superadmins
    BY <1>4 DEF MintImpersonation, Presented, TypeInv, TypeOK, Control, RowPcs, Token
  <2>2. PICK j \in FreshJtis : issued' = issued \cup
              {NewToken(j, "impersonation", row[s], tok[s].sub, tok[s].jti)}
    BY <1>4 DEF MintImpersonation
  <2> DEFINE t == NewToken(j, "impersonation", row[s], tok[s].sub, tok[s].jti)
  <2>3. t \in Token
    BY <2>1, <2>2, NewTokenType DEF TokenTypes, FreshJtis
  <2>4. t.jti = j /\ t.parent = tok[s].jti /\ t.by = tok[s].sub
    BY DEF NewToken
  <2> HIDE DEF t
  <2>5. issued' = issued \cup {t}
    BY <2>2 DEF t
  <2>6. Child(t, tok[s])
    BY <2>1, <2>4 DEF Child
  <2> DEFINE new == {t}
  <2>7. /\ new \subseteq Token /\ issued' = issued \cup new
        /\ \A x \in new : x.jti \in FreshJtis
        /\ \A x, y \in new : x.jti = y.jti => x = y
        /\ \A x \in new : x.parent = NoJti \/ \E p \in issued : p.jti = x.parent /\ Child(x, p)
    BY <2>1, <2>2, <2>3, <2>4, <2>5, <2>6
  <2> HIDE DEF new
  <2> QED
    BY <2>7, FamilyGrows
<1>5. ASSUME NEW s \in Slots, Step(s), ~LoginRespond(s), ~InsertRevocation(s),
             ~RefreshAfterNoop(s), ~MintImpersonation(s)
      PROVE  UNCHANGED issued
  BY <1>5 DEF Step, LoginVerify, ResetConfirmRead, DisableRead, AnonymizeRead, SetActiveRead,
              StartWithRow, LoadTarget, Present, CheckRevoked, LoadUser, RecheckRevoked,
              InsertConflict, BumpCommit, SetActiveCommit, Rollback, db
<1> QED
  BY <1>1, <1>2, <1>3, <1>4, <1>5 DEF Next, vars

LEMMA PresentedStep ==
    ASSUME SessionsAssumption, TypeInv, Presented, [Next]_vars PROVE Presented'
<1> USE DEF TypeInv
<1>1. ASSUME NEW s \in Slots, Finish(s) PROVE Presented'
  BY <1>1, FinishEffect DEF Presented
<1>2. ASSUME NEW s \in Slots, NEW u \in Users, NEW o, NEW step, StartWithRow(s, o, u, step),
             o \notin {"refresh", "impersonate"}
      PROVE  Presented'
  BY <1>2 DEF StartWithRow, TypeOK, Presented
<1>3. ASSUME NEW s \in Slots, NEW step, Goto(s, step),
             step \in {"target", "mint"} /\ op[s] = "impersonate" =>
                 tok[s].type = "access" /\ tok[s].sub \in Superadmins,
             pc[s] # "idle"
      PROVE  Presented'
  BY <1>3 DEF Goto, TypeOK, Presented
<1>4. SUFFICES ASSUME NEW s \in Slots, Step(s) PROVE Presented'
  <2>1. CASE UNCHANGED vars
    BY <2>1 DEF vars, Presented
  <2> QED
    BY <2>1, <1>4 DEF Next
<1>5. CASE \E u \in Users : \/ LoginVerify(s, u) \/ ResetConfirmRead(s, u)
                            \/ DisableRead(s, u) \/ AnonymizeRead(s, u)
                            \/ SetActiveRead(s, u)
  BY <1>2, <1>5 DEF LoginVerify, ResetConfirmRead, DisableRead, AnonymizeRead, SetActiveRead
<1>6. CASE \E u \in Users : LoadTarget(s, u)
  BY <1>1, <1>3, <1>6 DEF LoadTarget, Presented
<1>7. CASE \E o \in TokenOps, t \in issued : Present(s, o, t)
  BY <1>7 DEF Present, TypeOK, Presented
<1>8. CASE CheckRevoked(s)
  BY <1>1, <1>3, <1>8 DEF CheckRevoked
<1>9. CASE LoadUser(s)
  <2>1. Authorized(s) /\ op[s] = "impersonate" => tok[s].type = "access" /\ tok[s].sub \in Superadmins
    BY DEF Authorized
  <2> QED
    BY <1>1, <1>3, <1>9, <2>1 DEF LoadUser
<1>10. CASE RecheckRevoked(s)
  BY <1>1, <1>3, <1>10 DEF RecheckRevoked
<1>11. CASE \/ LoginRespond(s) \/ InsertConflict(s) \/ InsertRevocation(s) \/ RefreshAfterNoop(s)
            \/ MintImpersonation(s) \/ BumpCommit(s) \/ SetActiveCommit(s) \/ Rollback(s)
  BY <1>1, <1>11 DEF LoginRespond, InsertConflict, InsertRevocation, RefreshAfterNoop,
                     MintImpersonation, BumpCommit, SetActiveCommit, Rollback
<1> QED
  BY <1>4, <1>5, <1>6, <1>7, <1>8, <1>9, <1>10, <1>11 DEF Step

(* Nothing is obtained with an impersonation token, and impersonation      *)
(* tokens only with an access token of the superadmin they name, however   *)
(* the handlers of any number of requests interleave.                      *)
THEOREM ImpersonationEndsThere ==
    ASSUME SessionsAssumption PROVE Spec => []NoNestedImpersonation
<1>1. Init => TypeInv /\ Presented /\ Family
  BY TypeInvInit DEF Init, Presented, Family, NoNestedImpersonation
<1>2. TypeInv /\ Presented /\ Family /\ [Next]_vars => (TypeInv /\ Presented /\ Family)'
  BY TypeInvStep, PresentedStep, FamilyStep
<1>3. Family => NoNestedImpersonation
  BY DEF Family
<1> QED
  BY <1>1, <1>2, <1>3, PTL DEF Spec

-----------------------------------------------------------------------------
(* What a revocation takes away *)

LEMMA OnlyItsOwn ==
    ASSUME SessionsAssumption, TypeInv, Family, NEW s \in Slots, Step(s),
           NEW t \in issued, Acceptable(t), ~Acceptable(t)'
    PROVE  /\ pc'[s] = "idle"
           /\ \/ pc[s] = "insert" /\ tok[s] = t
              \/ pc[s] = "write" /\ row[s].user = t.sub
<1>0. t.sub \in Users
  BY DEF TypeInv, TypeOK, Token
<1>1. ~UNCHANGED <<active, token_version, revoked_tokens>>
  BY DEF Acceptable
<1>2. InsertRevocation(s) \/ BumpCommit(s) \/ SetActiveCommit(s)
  BY <1>1 DEF Step, LoginVerify, ResetConfirmRead, DisableRead, AnonymizeRead, SetActiveRead,
              StartWithRow, LoadTarget, Present, CheckRevoked, LoadUser, RecheckRevoked,
              InsertConflict, Rollback, LoginRespond, RefreshAfterNoop, MintImpersonation, db
<1>3. pc'[s] = "idle"
  BY <1>2, FinishEffect DEF TypeInv, InsertRevocation, BumpCommit, SetActiveCommit
<1>4. CASE InsertRevocation(s)
  <2>1. tok[s] \in issued /\ t.jti \in revoked_tokens \cup {tok[s].jti}
    BY <1>4 DEF InsertRevocation, Revoked, Acceptable, TypeInv, Control, TokenPcs
  <2>2. t.jti = tok[s].jti
    BY <2>1 DEF Acceptable
  <2>3. tok[s] = t
    BY <2>1, <2>2 DEF Family
  <2> QED
    BY <1>3, <1>4, <2>3 DEF InsertRevocation
<1>5. CASE BumpCommit(s)
  <2>1. row[s].user # t.sub => token_version'[t.sub] = token_version[t.sub] /\ active'[t.sub] = active[t.sub]
    BY <1>0, <1>5 DEF BumpCommit, TypeInv, TypeOK
  <2> QED
    BY <1>3, <1>5, <2>1 DEF BumpCommit, Acceptable
<1>6. CASE SetActiveCommit(s)
  <2>1. row[s].user # t.sub => active'[t.sub] = active[t.sub]
    BY <1>0, <1>6 DEF SetActiveCommit, TypeInv, TypeOK
  <2> QED
    BY <1>3, <1>6, <2>1 DEF SetActiveCommit, Acceptable
<1> QED
  BY <1>2, <1>4, <1>5, <1>6

(* Logging out or rotating one token leaves all others working, whatever   *)
(* else is in flight: a token goes with its own jti, or with its user.     *)
THEOREM RevocationTakesOne ==
    ASSUME SessionsAssumption PROVE Spec => RevocationIsLocal
<1> DEFINE Local ==
      \A t \in issued :
          Acceptable(t) /\ ~Acceptable(t)' =>
              \E s \in Slots :
                  /\ pc'[s] = "idle"
                  /\ \/ pc[s] = "insert" /\ tok[s] = t
                     \/ pc[s] = "write" /\ row[s].user = t.sub
<1>1. Init => TypeInv /\ Presented /\ Family
  BY TypeInvInit DEF Init, Presented, Family, NoNestedImpersonation
<1>2. TypeInv /\ Presented /\ Family /\ [Next]_vars => (TypeInv /\ Presented /\ Family)'
  BY TypeInvStep, PresentedStep, FamilyStep
<1>3. TypeInv /\ Family /\ [Next]_vars => [Local]_vars
  <2> SUFFICES ASSUME TypeInv, Family, Next PROVE Local
    OBVIOUS
  <2>1. PICK s \in Slots : Step(s)
    BY DEF Next
  <2> QED
    BY <2>1, OnlyItsOwn
<1>4. RevocationIsLocal <=> [][Local]_vars
  BY DEF RevocationIsLocal
<1> QED
  BY <1>1, <1>2, <1>3, <1>4, PTL DEF Spec

-----------------------------------------------------------------------------
(* The refinement of SessionBook *)

(* What the writing steps rely on: revocations are of tokens there are, a   *)
(* refresh holds the row of its token's subject, and one that skips the     *)
(* insert found the revocation there; nobody impersonates himself.          *)
Backed ==
    /\ \A j \in revoked_tokens : \E t \in issued : t.jti = j
    /\ \A s \in Slots :
          /\ op[s] = "refresh" /\ pc[s] \in {"recheck", "insert", "mint"} =>
                row[s].user = tok[s].sub
          /\ op[s] = "refresh" /\ pc[s] = "mint" => tok[s].jti \in revoked_tokens
          /\ op[s] = "impersonate" /\ pc[s] = "mint" => row[s].user # tok[s].sub

(* Tokens and their revocations are never deleted, and a revocation is      *)
(* inserted for a token that was presented.                                 *)
LEMMA RevocationsGrow ==
    ASSUME SessionsAssumption, TypeInv, [Next]_vars
    PROVE  /\ issued \subseteq issued'
           /\ revoked_tokens \subseteq revoked_tokens'
           /\ \A j \in revoked_tokens' \ revoked_tokens : \E t \in issued : t.jti = j
<1>1. CASE UNCHANGED <<issued, revoked_tokens>>
  BY <1>1
<1>2. ASSUME NEW s \in Slots,
             \/ LoginRespond(s) \/ RefreshAfterNoop(s) \/ MintImpersonation(s)
      PROVE  issued \subseteq issued' /\ UNCHANGED revoked_tokens
  BY <1>2 DEF LoginRespond, RefreshAfterNoop, MintImpersonation, MintPair
<1>3. ASSUME NEW s \in Slots, InsertRevocation(s)
      PROVE  /\ issued \subseteq issued' /\ tok[s] \in issued
             /\ revoked_tokens' = revoked_tokens \cup {tok[s].jti}
  BY <1>3 DEF InsertRevocation, Revoked, MintPair, TypeInv, Control, TokenPcs
<1>4. ASSUME NEW s \in Slots, Step(s), ~LoginRespond(s), ~InsertRevocation(s),
             ~RefreshAfterNoop(s), ~MintImpersonation(s)
      PROVE  UNCHANGED <<issued, revoked_tokens>>
  BY <1>4 DEF Step, LoginVerify, ResetConfirmRead, DisableRead, AnonymizeRead, SetActiveRead,
              StartWithRow, LoadTarget, Present, CheckRevoked, LoadUser, RecheckRevoked,
              InsertConflict, BumpCommit, SetActiveCommit, Rollback, db
<1>5. CASE \E s \in Slots : InsertRevocation(s)
  BY <1>3, <1>5
<1> QED
  BY <1>1, <1>2, <1>4, <1>5 DEF Next, vars

LEMMA BackedStep ==
    ASSUME SessionsAssumption, TypeInv, Backed, [Next]_vars PROVE Backed'
<1> USE DEF TypeInv
<1> DEFINE SlotsBacked ==
      \A s \in Slots :
          /\ op[s] = "refresh" /\ pc[s] \in {"recheck", "insert", "mint"} =>
                row[s].user = tok[s].sub
          /\ op[s] = "refresh" /\ pc[s] = "mint" => tok[s].jti \in revoked_tokens
          /\ op[s] = "impersonate" /\ pc[s] = "mint" => row[s].user # tok[s].sub
<1>0. revoked_tokens \subseteq revoked_tokens'
  BY RevocationsGrow
<1>1. ASSUME NEW s \in Slots, Finish(s) PROVE SlotsBacked'
  BY <1>0, <1>1, FinishEffect DEF Backed
<1>2. ASSUME NEW s \in Slots, NEW u \in Users, NEW o, NEW step, StartWithRow(s, o, u, step),
             o \notin {"refresh", "impersonate"}
      PROVE  SlotsBacked'
  BY <1>0, <1>2 DEF StartWithRow, TypeOK, Backed
<1>3. ASSUME NEW s \in Slots, NEW step, Goto(s, step), UNCHANGED row,
             step \in {"load", "insert", "mint"},
             step # "load" => pc[s] = "recheck",
             step = "mint" => op[s] = "refresh" /\ tok[s].jti \in revoked_tokens
      PROVE  SlotsBacked'
  BY <1>0, <1>3 DEF Goto, TypeOK, Backed
<1>4. ASSUME NEW s \in Slots, NEW u \in Users, NEW step, Goto(s, step),
             row' = [row EXCEPT ![s] = ReadRow(u)],
             op[s] = "refresh" => u = tok[s].sub /\ step # "mint",
             op[s] = "impersonate" /\ step = "mint" => u # tok[s].sub
      PROVE  SlotsBacked'
  <2>1. row'[s].user = u /\ \A q \in Slots \ {s} : row'[q] = row[q]
    BY <1>4 DEF TypeOK, ReadRow
  <2> QED
    BY <1>0, <1>4, <2>1 DEF Goto, TypeOK, Backed
<1>5. ASSUME NEW s \in Slots, Step(s) PROVE SlotsBacked'
  <2>1. CASE \E u \in Users : \/ LoginVerify(s, u) \/ ResetConfirmRead(s, u)
                              \/ DisableRead(s, u) \/ AnonymizeRead(s, u)
                              \/ SetActiveRead(s, u)
    BY <1>2, <2>1 DEF LoginVerify, ResetConfirmRead, DisableRead, AnonymizeRead, SetActiveRead
  <2>2. CASE \E u \in Users : LoadTarget(s, u)
    <3> PICK u \in Users : LoadTarget(s, u)
      BY <2>2
    <3>1. op[s] = "impersonate"
      BY DEF LoadTarget, Control
    <3> QED
      BY <1>1, <1>4, <3>1 DEF LoadTarget
  <2>3. CASE \E o \in TokenOps, t \in issued : Present(s, o, t)
    BY <1>0, <2>3 DEF Present, TypeOK, Backed
  <2>4. CASE CheckRevoked(s)
    BY <1>1, <1>3, <2>4 DEF CheckRevoked
  <2>5. CASE LoadUser(s)
    <3>1. tok[s].sub \in Users /\ op[s] \in TokenOps
      BY <2>5 DEF LoadUser, Control, TokenPcs, TypeOK, Token
    <3>2. StepAfterLoad(op[s]) # "mint"
      BY <3>1 DEF StepAfterLoad, TokenOps
    <3> QED
      BY <1>1, <1>4, <2>5, <3>1, <3>2 DEF LoadUser
  <2>6. CASE RecheckRevoked(s)
    BY <1>1, <1>3, <2>6 DEF RecheckRevoked
  <2>7. CASE \/ LoginRespond(s) \/ InsertConflict(s) \/ InsertRevocation(s)
             \/ RefreshAfterNoop(s) \/ MintImpersonation(s) \/ BumpCommit(s)
             \/ SetActiveCommit(s) \/ Rollback(s)
    BY <1>1, <2>7 DEF LoginRespond, InsertConflict, InsertRevocation, RefreshAfterNoop,
                       MintImpersonation, BumpCommit, SetActiveCommit, Rollback
  <2> QED
    BY <1>5, <2>1, <2>2, <2>3, <2>4, <2>5, <2>6, <2>7 DEF Step
<1>6. SlotsBacked'
  <2>1. CASE UNCHANGED vars
    BY <2>1 DEF vars, Backed
  <2> QED
    BY <1>5, <2>1 DEF Next
<1>7. (\A j \in revoked_tokens : \E t \in issued : t.jti = j)'
  BY RevocationsGrow DEF Backed
<1> QED
  BY <1>6, <1>7 DEF Backed

BookInv == TypeInv /\ VersionInv /\ Presented /\ Family /\ Backed

LEMMA BookInvInit ==
    ASSUME Init PROVE BookInv
BY TypeInvInit, VersionInvInit
   DEF Init, BookInv, Presented, Family, NoNestedImpersonation, Backed

LEMMA BookInvStep ==
    ASSUME SessionsAssumption, SerialBumps, BookInv, [Next]_vars PROVE BookInv'
BY TypeInvStep, VersionInvStep, PresentedStep, FamilyStep, BackedStep DEF BookInv

LEMMA InitIsBook == Init => Book!Init
<1> SUFFICES ASSUME Init PROVE Book!Init
  OBVIOUS
<1>1. {t \in issued : Revocation(t)} = {}
  BY DEF Init
<1>2. {u \in Users : active[u]} \in SUBSET Users
  OBVIOUS
<1> QED
  BY <1>1, <1>2 DEF Init, Book!Init

(* A step that writes nothing is none of the book. *)
LEMMA StutterSessionBook ==
    ASSUME UNCHANGED db PROVE UNCHANGED Book!bookVars
BY DEF db, Book!bookVars, Revocation

(* New tokens carry the version of one row and jtis nobody has revoked:     *)
(* a bump committed since that row was read has ended all of them, or none. *)
LEMMA MintEnds ==
    ASSUME BookInv, NEW new, NEW u \in Users, NEW v, NEW gone,
           new \cap issued = {}, issued' = issued \cup new,
           \A t \in new : t.jti \in FreshJtis /\ t.sub = u /\ t.tkv = v,
           gone \subseteq issued,
           revoked_tokens' = revoked_tokens \cup {t.jti : t \in gone},
           UNCHANGED <<active, token_version, epoch>>
    PROVE  Book!New = new /\ Book!Ends(gone)
<1>1. Book!New = new
  BY DEF Book!New
<1>2. \A t \in new : t.jti \notin revoked_tokens'
  BY DEF FreshJtis, BookInv, Backed
<1>3. \A t \in new : Revocation(t)' <=> token_version[u] # v
  BY <1>2 DEF Revocation
<1>4. ASSUME NEW t \in issued
      PROVE  Revocation(t)' <=> Revocation(t) \/ t \in gone
  <2>1. \A p \in gone : t.jti = p.jti => t = p
    BY DEF BookInv, Family
  <2> QED
    BY <2>1 DEF Revocation
<1> DEFINE endedNow == {t \in issued : Revocation(t)}
           endedNext == {t \in issued' : Revocation(t)'}
<1>5. endedNext \cap issued = endedNow \cup gone
  BY <1>4
<1>6. endedNext \ issued = IF token_version[u] # v THEN new ELSE {}
  BY <1>3
<1>7. \E lateOnes \in {{}, new} : endedNext = endedNow \cup gone \cup lateOnes
  BY <1>5, <1>6
<1> QED
  BY <1>1, <1>7 DEF Book!Ends

(* A pair for the loaded row is handed out. *)
LEMMA PairBook ==
    ASSUME SessionsAssumption, BookInv, NEW r \in Row, NEW parent \in Jtis \cup {NoJti},
           MintPair(r, parent), NEW gone \in SUBSET issued,
           revoked_tokens' = revoked_tokens \cup {t.jti : t \in gone},
           UNCHANGED <<active, token_version, epoch>>
    PROVE  Book!Handed(r.user, parent) /\ Book!Pair /\ Book!Ends(gone)
<1>1. PICK j1 \in FreshJtis, j2 \in FreshJtis :
        /\ j1 # j2
        /\ issued' = issued \cup {NewToken(j1, "access", r, NoUser, parent),
                                  NewToken(j2, "refresh", r, NoUser, parent)}
  BY DEF MintPair
<1> DEFINE a == NewToken(j1, "access", r, NoUser, parent)
           f == NewToken(j2, "refresh", r, NoUser, parent)
           new == {a, f}
<1>2. /\ a.jti = j1 /\ a.sub = r.user /\ a.tkv = r.tkv /\ a.parent = parent /\ a.type = "access"
      /\ f.jti = j2 /\ f.sub = r.user /\ f.tkv = r.tkv /\ f.parent = parent /\ f.type = "refresh"
  BY DEF NewToken
<1> HIDE DEF a, f
<1>3. new \cap issued = {} /\ issued' = issued \cup new
  BY <1>1, <1>2 DEF FreshJtis, a, f
<1>4. \A t \in new : t.jti \in FreshJtis /\ t.sub = r.user /\ t.tkv = r.tkv /\ t.parent = parent
  BY <1>1, <1>2
<1>5. r.user \in Users
  BY DEF Row
<1>6. \E x, y \in new : new = {x, y} /\ x.type = "access" /\ y.type = "refresh"
  BY <1>2
<1> HIDE DEF new
<1>7. Book!New = new /\ Book!Ends(gone)
  BY <1>3, <1>4, <1>5, MintEnds
<1> QED
  BY <1>3, <1>4, <1>6, <1>7 DEF Book!Handed, Book!Pair

LEMMA LoginBook ==
    ASSUME SessionsAssumption, BookInv, NEW s \in Slots, LoginRespond(s) PROVE Book!Next
<1>1. row[s] \in Row /\ row[s].user \in Users
  BY DEF LoginRespond, BookInv, TypeInv, Control, RowPcs, Row
<1>2. Book!LogIn(row[s].user)
  BY <1>1, PairBook DEF LoginRespond, Book!LogIn
<1> QED
  BY <1>1, <1>2 DEF Book!Next

(* Both ways through a refresh: the one that inserts the revocation, and    *)
(* the one that has found it there.                                         *)
LEMMA RotateBook ==
    ASSUME SessionsAssumption, BookInv, NEW s \in Slots,
           op[s] = "refresh", pc[s] \in {"insert", "mint"}, MintPair(row[s], tok[s].jti),
           revoked_tokens' = revoked_tokens \cup {tok[s].jti},
           UNCHANGED <<active, token_version, epoch>>
    PROVE  Book!Next
<1>1. /\ row[s] \in Row /\ tok[s] \in issued /\ tok[s].jti \in Jtis
      /\ tok[s].type = "refresh" /\ row[s].user = tok[s].sub
  BY DEF BookInv, TypeInv, TypeOK, Control, RowPcs, TokenPcs, Token, Presented, Backed
<1> DEFINE gone == {tok[s]}
<1>2. gone \in SUBSET issued /\ {t.jti : t \in gone} = {tok[s].jti}
  BY <1>1
<1> HIDE DEF gone
<1>3. Book!Handed(tok[s].sub, tok[s].jti) /\ Book!Pair /\ Book!Ends(gone)
  BY <1>1, <1>2, PairBook
<1>4. Book!Rotate(tok[s])
  BY <1>1, <1>3 DEF Book!Rotate, gone
<1> QED
  BY <1>1, <1>4 DEF Book!Next

LEMMA LogoutBook ==
    ASSUME SessionsAssumption, BookInv, NEW s \in Slots, pc[s] = "insert",
           revoked_tokens' = revoked_tokens \cup {tok[s].jti},
           UNCHANGED <<active, token_version, issued, epoch>>
    PROVE  Book!Next
<1>1. tok[s] \in issued
  BY DEF BookInv, TypeInv, Control, TokenPcs
<1>2. \A t \in issued : Revocation(t)' <=> Revocation(t) \/ t = tok[s]
  BY <1>1 DEF Revocation, BookInv, Family
<1>3. {t \in issued : Revocation(t)'} = {t \in issued : Revocation(t)} \cup {tok[s]}
  BY <1>1, <1>2
<1>4. Book!LogOut(tok[s])
  BY <1>3 DEF Book!LogOut
<1> QED
  BY <1>1, <1>4 DEF Book!Next

LEMMA ImpersonateBook ==
    ASSUME SessionsAssumption, BookInv, NEW s \in Slots, MintImpersonation(s) PROVE Book!Next
<1>1. /\ row[s] \in Row /\ row[s].user \in Users /\ tok[s] \in issued
      /\ tok[s].type = "access" /\ tok[s].sub \in Superadmins /\ tok[s].sub # row[s].user
  BY DEF MintImpersonation, BookInv, TypeInv, Control, RowPcs, Row, Presented, Backed
<1>2. PICK j \in FreshJtis : issued' = issued \cup
          {NewToken(j, "impersonation", row[s], tok[s].sub, tok[s].jti)}
  BY DEF MintImpersonation
<1> DEFINE i == NewToken(j, "impersonation", row[s], tok[s].sub, tok[s].jti)
           new == {i}
           gone == {}
<1>3. /\ i.jti = j /\ i.sub = row[s].user /\ i.tkv = row[s].tkv
      /\ i.parent = tok[s].jti /\ i.type = "impersonation"
  BY DEF NewToken
<1> HIDE DEF i
<1>4. new \cap issued = {} /\ issued' = issued \cup new
  BY <1>2, <1>3 DEF FreshJtis, i
<1>5. /\ \A t \in new : t.jti \in FreshJtis /\ t.sub = row[s].user /\ t.tkv = row[s].tkv
      /\ \A t \in new : t.parent = tok[s].jti
      /\ \E t \in new : new = {t} /\ t.type = "impersonation"
  BY <1>2, <1>3
<1>6. gone \subseteq issued /\ revoked_tokens' = revoked_tokens \cup {t.jti : t \in gone}
  BY DEF MintImpersonation
<1>7. UNCHANGED <<active, token_version, epoch>>
  BY DEF MintImpersonation
<1> DEFINE u == row[s].user
           v == row[s].tkv
<1>8. u \in Users /\ \A t \in new : t.jti \in FreshJtis /\ t.sub = u /\ t.tkv = v
  BY <1>1, <1>5
<1> HIDE DEF new, gone, u, v
<1>9. Book!New = new /\ Book!Ends(gone)
  BY <1>4, <1>6, <1>7, <1>8, MintEnds
<1>10. Book!Impersonate(tok[s], row[s].user)
  BY <1>1, <1>4, <1>5, <1>9 DEF Book!Impersonate, Book!Handed, gone
<1> QED
  BY <1>1, <1>10 DEF Book!Next

(* A write of one user's is_active is a switch of that user. *)
LEMMA SwitchBook ==
    ASSUME NEW u \in Users, \A x \in Users \ {u} : active'[x] = active[x]
    PROVE  Book!Switched(u)
<1> DEFINE enabledNow == {x \in Users : active[x]}
           enabledNext == {x \in Users : active'[x]}
<1>2. enabledNext \in {enabledNow \cup {u}, enabledNow \ {u}}
  <2>1. CASE u \in enabledNext
    BY <2>1
  <2>2. CASE u \notin enabledNext
    BY <2>2
  <2> QED
    BY <2>1, <2>2
<1> QED
  BY <1>2 DEF Book!Switched

(* A bump ends every token of its user, because none of them is ahead of    *)
(* the version it bumps.                                                    *)
LEMMA BumpBook ==
    ASSUME SerialBumps, BookInv, NEW s \in Slots, BumpCommit(s) PROVE Book!Next
<1>1. PICK u \in Users : u = row[s].user
  BY DEF BumpCommit, BookInv, TypeInv, Control, RowPcs, Row
<1>2. token_version' = [token_version EXCEPT ![u] = @ + 1]
  BY <1>1, BumpKeepsVersions DEF BookInv
<1>3. ASSUME NEW t \in issued
      PROVE  Revocation(t)' <=> Revocation(t) \/ t.sub = u
  <2>1. /\ t.sub \in Users /\ t.tkv \in Nat /\ t.tkv <= token_version[t.sub]
        /\ token_version[t.sub] \in Nat
    BY DEF BookInv, TypeInv, TypeOK, Token, VersionInv, TokenStamped
  <2>2. token_version'[t.sub] = IF t.sub = u THEN token_version[t.sub] + 1
                                             ELSE token_version[t.sub]
    BY <1>2, <2>1 DEF BookInv, TypeInv, TypeOK
  <2>3. t.sub = u => token_version'[t.sub] # t.tkv
    BY <2>1, <2>2
  <2>4. revoked_tokens' = revoked_tokens
    BY DEF BumpCommit
  <2> QED
    BY <2>2, <2>3, <2>4 DEF Revocation
<1>4. {t \in issued : Revocation(t)'} =
          {t \in issued : Revocation(t)} \cup {t \in issued : t.sub = u}
  BY <1>3
<1>5. \A x \in Users \ {u} : active'[x] = active[x]
  BY <1>1 DEF BumpCommit, BookInv, TypeInv, TypeOK
<1>6. Book!Switched(u)
  BY <1>1, <1>5, SwitchBook
<1>7. issued' = issued /\ epoch' = [epoch EXCEPT ![u] = @ + 1]
  BY <1>1 DEF BumpCommit
<1>8. Book!EndAll(u)
  BY <1>4, <1>6, <1>7 DEF Book!EndAll
<1> QED
  BY <1>1, <1>8 DEF Book!Next

LEMMA SetActiveBook ==
    ASSUME BookInv, NEW s \in Slots, SetActiveCommit(s) PROVE Book!Next
<1>1. PICK u \in Users : u = row[s].user
  BY DEF SetActiveCommit, BookInv, TypeInv, Control, RowPcs, Row
<1>2. Book!Switched(u)
  <2>1. \A x \in Users \ {u} : active'[x] = active[x]
    BY <1>1 DEF SetActiveCommit, BookInv, TypeInv, TypeOK
  <2> QED
    BY <1>1, <2>1, SwitchBook
<1>3. UNCHANGED <<issued, revoked_tokens, token_version, epoch>>
  BY DEF SetActiveCommit
<1>4. Book!Switch(u)
  BY <1>2, <1>3 DEF Book!Switch, Revocation
<1> QED
  BY <1>1, <1>4 DEF Book!Next

LEMMA NextIsBook ==
    ASSUME SessionsAssumption, SerialBumps, BookInv, [Next]_vars
    PROVE  [Book!Next]_(Book!bookVars)
<1>1. CASE UNCHANGED db
  BY <1>1, StutterSessionBook
<1>2. ASSUME NEW s \in Slots, InsertRevocation(s) PROVE Book!Next
  BY <1>2, RotateBook, LogoutBook DEF InsertRevocation, Revoked
<1>3. ASSUME NEW s \in Slots, RefreshAfterNoop(s) PROVE Book!Next
  <2>1. revoked_tokens' = revoked_tokens \cup {tok[s].jti}
    BY <1>3 DEF RefreshAfterNoop, BookInv, Backed
  <2> QED
    BY <1>3, <2>1, RotateBook DEF RefreshAfterNoop
<1>4. ASSUME NEW s \in Slots, Step(s), ~LoginRespond(s), ~InsertRevocation(s),
             ~RefreshAfterNoop(s), ~MintImpersonation(s), ~BumpCommit(s), ~SetActiveCommit(s)
      PROVE  UNCHANGED db
  BY <1>4 DEF Step, LoginVerify, ResetConfirmRead, DisableRead, AnonymizeRead, SetActiveRead,
              StartWithRow, LoadTarget, Present, CheckRevoked, LoadUser, RecheckRevoked,
              InsertConflict, Rollback
<1> QED
  BY <1>1, <1>2, <1>3, <1>4, LoginBook, ImpersonateBook, BumpBook, SetActiveBook
     DEF Next, vars, db

(* When bumps are serialized, sessions of any number of requests in flight  *)
(* are the book: a token is handed out by a login, for a refresh token that *)
(* is ended by it or to a plain superadmin, and what a logout or a bump     *)
(* ended never works again.                                                 *)
THEOREM ImplementsSessionBookHolds ==
    ASSUME SessionsAssumption, SerialBumps PROVE Spec => ImplementsSessionBook
<1>1. Init => BookInv /\ Book!Init
  BY BookInvInit, InitIsBook
<1>2. BookInv /\ [Next]_vars => BookInv' /\ [Book!Next]_(Book!bookVars)
  BY BookInvStep, NextIsBook
<1> QED
  BY <1>1, <1>2, PTL DEF Spec, ImplementsSessionBook, Book!Spec
=============================================================================
