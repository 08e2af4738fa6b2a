--------------------------- MODULE TwoFactorProofs ---------------------------
(***************************************************************************)
(* Proofs about TwoFactor for any users, requests in flight, secrets,      *)
(* challenges and backup codes.                                            *)
(***************************************************************************)
EXTENDS TwoFactor, TLAPS

Writing == {"setup", "enable", "disable", "anonymize"}

(* Which handlers are at which step, and what they have in hand.           *)
Control ==
    \A s \in Slots :
        /\ op[s] \in Writing => pc[s] \in {"write", "clear", "store"}
        /\ pc[s] \in {"write", "clear", "store", "second_read", "verify", "mark"} => row[s] \in Row
        /\ pc[s] \in {"clear", "store"} => op[s] \in {"enable", "disable"}
        /\ op[s] = "anonymize" => row[s].tkv < MaxVersion
        /\ pc[s] = "second_read" => op[s] = "login"
        /\ pc[s] \in {"check", "load", "verify", "mark", "recheck", "insert", "mint"} =>
              op[s] = "2fa_login" /\ jti[s] \in Jtis
        /\ pc[s] = "mark" => code[s] \in Code

(* 2FA of a request's user has been on since it began.                     *)
Required ==
    \A s \in Slots : required[s] =>
        /\ pc[s] # "idle" /\ op[s] # "2fa_login"
        /\ row[s] # NoRow /\ totp_enabled[row[s].user]

(* At most one request at a time holds a user's row, and from its DELETE to *)
(* its commit the codes it has deleted are all there are of that user.      *)
OneWriter ==
    \A s \in Slots :
        /\ \A q \in Slots : HoldsRow(s) /\ HoldsRow(q) /\ row[s].user = row[q].user => s = q
        /\ pc[s] = "store" => cleared[s] = CodesOf(row[s].user)

(* What has opened a session is revoked or used, and what was used before  *)
(* a request began has opened one.                                         *)
Spent ==
    /\ \A x \in opened : x \in revoked \/ x \in used
    /\ \A s \in Slots : spent[s] \subseteq opened
    /\ \A s \in Slots : pc[s] \in {"load", "verify", "mark", "recheck", "insert", "mint"} =>
          jti[s] \notin spent[s]
    /\ \A s \in Slots : code[s] \notin spent[s]
    /\ \A s \in Slots : pc[s] = "idle" => code[s] = NoCode

TypeInv == TypeOK /\ Control

-----------------------------------------------------------------------------
(* Types *)

LEMMA ReadRowType ==
    ASSUME TypeInv, NEW u \in Users
    PROVE  ReadRow(u) \in Row /\ ReadRow(u).user = u /\ ReadRow(u).tkv = token_version[u]
BY DEF TypeInv, TypeOK, Row, ReadRow

LEMMA StartEffect ==
    ASSUME TypeInv, NEW s \in Slots, NEW u \in Users, NEW o \in Ops, NEW p \in {"write", "second_read"},
           o \in Writing => p = "write", p = "second_read" => o = "login", o # "2fa_login",
           o = "anonymize" => token_version[u] < MaxVersion, Start(s, o, u, p)
    PROVE  /\ op' \in [Slots -> Ops] /\ pc' \in [Slots -> Pcs] /\ row' \in [Slots -> Row \cup {NoRow}]
           /\ required' \in [Slots -> BOOLEAN] /\ UNCHANGED <<tables, jti, code, cleared, spent>>
           /\ Control'
<1>1. ReadRow(u) \in Row /\ ReadRow(u).tkv = token_version[u]
  BY ReadRowType
<1>2. /\ op' = [op EXCEPT ![s] = o] /\ pc' = [pc EXCEPT ![s] = p]
      /\ row' = [row EXCEPT ![s] = ReadRow(u)] /\ required' = [required EXCEPT ![s] = totp_enabled[u]]
      /\ UNCHANGED <<tables, jti, code, cleared, spent>>
  BY DEF Start, Goto
<1>3. /\ op' \in [Slots -> Ops] /\ pc' \in [Slots -> Pcs] /\ row' \in [Slots -> Row \cup {NoRow}]
      /\ required' \in [Slots -> BOOLEAN]
  BY <1>1, <1>2 DEF TypeInv, TypeOK, Pcs
<1>4. Control'
  BY <1>1, <1>2 DEF TypeInv, TypeOK, Control
<1> QED
  BY <1>2, <1>3, <1>4

LEMMA FinishEffect ==
    ASSUME TypeInv, NEW s \in Slots, NEW off, Finish(s, off)
    PROVE  /\ op' \in [Slots -> Ops] /\ pc' \in [Slots -> Pcs] /\ row' \in [Slots -> Row \cup {NoRow}]
           /\ jti' \in [Slots -> Jtis \cup {NoJti}] /\ code' \in [Slots -> Code \cup {NoCode}]
           /\ required' \in [Slots -> BOOLEAN] /\ spent' \in [Slots -> SUBSET (Jtis \cup Code)]
           /\ cleared' \in [Slots -> SUBSET Code] /\ Control'
           /\ pc'[s] = "idle" /\ spent'[s] = {} /\ code'[s] = NoCode
           /\ \A q \in Slots \ {s} : /\ op'[q] = op[q] /\ pc'[q] = pc[q] /\ row'[q] = row[q]
                                     /\ jti'[q] = jti[q] /\ code'[q] = code[q] /\ cleared'[q] = cleared[q]
                                     /\ spent'[q] = spent[q]
           /\ \A q \in Slots : required'[q] => /\ required[q] /\ q # s
                                               /\ \A u \in off : row[q].user # u
<1>1. /\ op' = [op EXCEPT ![s] = "none"] /\ pc' = [pc EXCEPT ![s] = "idle"]
      /\ row' = [row EXCEPT ![s] = NoRow] /\ jti' = [jti EXCEPT ![s] = NoJti]
      /\ code' = [code EXCEPT ![s] = NoCode] /\ spent' = [spent EXCEPT ![s] = {}]
      /\ cleared' = [cleared EXCEPT ![s] = {}]
  BY DEF Finish, Goto
<1>2. /\ op' \in [Slots -> Ops] /\ pc' \in [Slots -> Pcs] /\ row' \in [Slots -> Row \cup {NoRow}]
      /\ jti' \in [Slots -> Jtis \cup {NoJti}] /\ code' \in [Slots -> Code \cup {NoCode}]
      /\ spent' \in [Slots -> SUBSET (Jtis \cup Code)] /\ cleared' \in [Slots -> SUBSET Code]
  BY <1>1 DEF TypeInv, TypeOK, Pcs, Ops
<1>3. /\ pc'[s] = "idle" /\ spent'[s] = {} /\ code'[s] = NoCode /\ op'[s] = "none"
      /\ \A q \in Slots \ {s} : /\ op'[q] = op[q] /\ pc'[q] = pc[q] /\ row'[q] = row[q]
                                /\ jti'[q] = jti[q] /\ code'[q] = code[q] /\ spent'[q] = spent[q]
                                /\ cleared'[q] = cleared[q]
  BY <1>1 DEF TypeInv, TypeOK
<1>4. required' = [q \in Slots |-> required[q] /\ q # s /\ \A u \in off : row[q].user # u]
  BY DEF Finish
<1>5. required' \in [Slots -> BOOLEAN]
  BY <1>4
<1>6. \A q \in Slots : required'[q] => /\ required[q] /\ q # s /\ \A u \in off : row[q].user # u
  BY <1>4
<1>7. Control'
  BY <1>3 DEF TypeInv, Control, Writing
<1> QED
  BY <1>2, <1>3, <1>5, <1>6, <1>7

LEMMA MoveEffect ==
    ASSUME TypeInv, NEW s \in Slots, NEW p \in {"load", "verify", "mark", "recheck", "insert", "mint"},
           op[s] = "2fa_login", jti[s] \in Jtis, Move(s, p),
           p \in {"verify", "mark"} => row'[s] \in Row,
           p = "mark" => code'[s] \in Code,
           \A q \in Slots \ {s} : row'[q] = row[q] /\ code'[q] = code[q]
    PROVE  /\ pc' \in [Slots -> Pcs] /\ Control'
           /\ pc'[s] = p /\ \A q \in Slots \ {s} : pc'[q] = pc[q]
<1>1. pc' = [pc EXCEPT ![s] = p] /\ UNCHANGED <<op, jti>>
  BY DEF Move, Goto
<1>2. pc' \in [Slots -> Pcs]
  BY <1>1 DEF TypeInv, TypeOK, Pcs
<1>3. Control'
  BY <1>1 DEF TypeInv, TypeOK, Control, Writing
<1> QED
  BY <1>1, <1>2, <1>3 DEF TypeInv, TypeOK

LEMMA TypeInvInit == Init => TypeInv
BY TwoFactorAssumption DEF Init, TypeInv, TypeOK, Control, Ops, Pcs, Writing, EnrollOps

LEMMA StartTypeInv ==
    ASSUME TypeInv, NEW s \in Slots, NEW u \in Users,
           \/ SetupRead(s, u) \/ EnableRead(s, u) \/ DisableRead(s, u) \/ AnonymizeRead(s, u)
           \/ LoginRead(s, u)
    PROVE  TypeInv'
<1> DEFINE Started(o, p) == o \in Ops /\ p \in {"write", "second_read"} /\ Start(s, o, u, p)
<1>1. \/ Started("setup", "write") \/ Started("enable", "write") \/ Started("disable", "write")
      \/ Started("anonymize", "write") /\ token_version[u] < MaxVersion
      \/ Started("login", "second_read")
  BY DEF SetupRead, EnableRead, DisableRead, AnonymizeRead, LoginRead, Ops, EnrollOps
<1>2. /\ op' \in [Slots -> Ops] /\ pc' \in [Slots -> Pcs] /\ row' \in [Slots -> Row \cup {NoRow}]
      /\ required' \in [Slots -> BOOLEAN] /\ UNCHANGED <<tables, jti, code, cleared, spent>>
      /\ Control'
  <2>1. CASE Started("setup", "write")
    BY <2>1, StartEffect
  <2>2. CASE Started("enable", "write")
    BY <2>2, StartEffect
  <2>3. CASE Started("disable", "write")
    BY <2>3, StartEffect
  <2>4. CASE Started("anonymize", "write") /\ token_version[u] < MaxVersion
    BY <2>4, StartEffect
  <2>5. CASE Started("login", "second_read")
    BY <2>5, StartEffect DEF Writing
  <2> QED
    BY <1>1, <2>1, <2>2, <2>3, <2>4, <2>5
<1>3. opened' \subseteq Jtis \cup Code /\ slipped' \subseteq Users /\ verified' \subseteq Secrets
  BY DEF SetupRead, EnableRead, DisableRead, AnonymizeRead, LoginRead, history, TypeInv, TypeOK
<1>4. TypeOK'
  BY <1>2, <1>3 DEF tables, TypeInv, TypeOK
<1> QED
  BY <1>2, <1>4 DEF TypeInv

(* A request is over, whatever it has written into the tables.             *)
LEMMA OverTypeInv ==
    ASSUME TypeInv, NEW s \in Slots, NEW off, Finish(s, off),
           is_active' \in [Users -> BOOLEAN], totp_secret' \in [Users -> Secrets \cup {NoSecret}],
           totp_enabled' \in [Users -> BOOLEAN], token_version' \in [Users -> 0..MaxVersion],
           codes' \subseteq Code, used' \subseteq Code, batches' \in [Users -> 0..MaxBatch],
           challenges' \subseteq Challenge, revoked' \subseteq Jtis,
           opened' \subseteq Jtis \cup Code, slipped' \subseteq Users, verified' \subseteq Secrets
    PROVE  TypeInv'
<1>1. TypeOK'
  BY FinishEffect DEF TypeOK
<1> QED
  BY <1>1, FinishEffect DEF TypeInv

LEMMA WriterRow ==
    ASSUME TypeInv, NEW s \in Slots, op[s] \in Writing \/ pc[s] = "second_read"
    PROVE  /\ row[s] \in Row /\ row[s].user \in Users
           /\ op[s] = "anonymize" => row[s].tkv + 1 \in 0..MaxVersion
<1>1. row[s] \in Row
  BY DEF TypeInv, Control
<1>2. row[s].user \in Users /\ row[s].tkv \in 0..MaxVersion
  BY <1>1 DEF Row
<1> QED
  BY <1>1, <1>2, TwoFactorAssumption DEF TypeInv, Control

LEMMA NewBatch ==
    ASSUME TypeInv, NEW u \in Users, batches[u] < MaxBatch
    PROVE  /\ [user : {u}, batch : {batches[u] + 1}, n : 1..BatchSize] \subseteq Code
           /\ batches[u] + 1 \in 0..MaxBatch
<1>1. batches[u] + 1 \in 1..MaxBatch
  BY TwoFactorAssumption DEF TypeInv, TypeOK
<1> QED
  BY <1>1, TwoFactorAssumption DEF Code

LEMMA CommitTypeInv ==
    ASSUME TypeInv, NEW s \in Slots,
           SetupCommit(s) \/ EnableCommit(s) \/ DisableCommit(s) \/ AnonymizeCommit(s)
    PROVE  TypeInv'
<1> DEFINE u == row[s].user
<1>1. u \in Users /\ (op[s] = "anonymize" => row[s].tkv + 1 \in 0..MaxVersion)
  BY WriterRow DEF SetupCommit, EnableCommit, DisableCommit, AnonymizeCommit, Writing
<1>2. CASE SetupCommit(s)
  <2>1. totp_secret' \in [Users -> Secrets \cup {NoSecret}]
    BY <1>1, <1>2 DEF SetupCommit, FreshSecrets, TypeInv, TypeOK
  <2> QED
    BY <1>2, <2>1, OverTypeInv DEF SetupCommit, history, TypeInv, TypeOK
<1>3. CASE EnableCommit(s)
  <2>1. codes' \subseteq Code /\ batches' \in [Users -> 0..MaxBatch]
    BY <1>1, <1>3, NewBatch DEF EnableCommit, TypeInv, TypeOK
  <2>2. totp_enabled' \in [Users -> BOOLEAN]
    BY <1>1, <1>3 DEF EnableCommit, TypeInv, TypeOK
  <2> QED
    BY <1>3, <2>1, <2>2, OverTypeInv DEF EnableCommit, history, TypeInv, TypeOK
<1>4. CASE DisableCommit(s)
  <2>1. totp_enabled' \in [Users -> BOOLEAN] /\ totp_secret' \in [Users -> Secrets \cup {NoSecret}]
    BY <1>1, <1>4 DEF DisableCommit, TypeInv, TypeOK
  <2> QED
    BY <1>4, <2>1, OverTypeInv DEF DisableCommit, history, TypeInv, TypeOK
<1>5. CASE AnonymizeCommit(s)
  <2>1. /\ is_active' \in [Users -> BOOLEAN] /\ totp_enabled' \in [Users -> BOOLEAN]
        /\ totp_secret' \in [Users -> Secrets \cup {NoSecret}]
    BY <1>1, <1>5 DEF AnonymizeCommit, TypeInv, TypeOK
  <2>2. token_version' \in [Users -> 0..MaxVersion]
    BY <1>1, <1>5 DEF AnonymizeCommit, TypeInv, TypeOK
  <2> QED
    BY <1>5, <2>1, <2>2, OverTypeInv DEF AnonymizeCommit, history, TypeInv, TypeOK
<1> QED
  BY <1>2, <1>3, <1>4, <1>5

LEMMA StatementTypeInv ==
    ASSUME TypeInv, NEW s \in Slots, UpdateUser(s) \/ ClearCodes(s)
    PROVE  TypeInv'
<1>1. CodesOf(row[s].user) \subseteq Code
  BY DEF CodesOf, TypeInv, TypeOK
<1>2. /\ \E p \in {"clear", "store"} : pc' = [pc EXCEPT ![s] = p]
      /\ cleared' = cleared \/ cleared' = [cleared EXCEPT ![s] = CodesOf(row[s].user)]
      /\ UNCHANGED <<tables, op, row, jti, code, required, spent, history>>
  BY DEF UpdateUser, ClearCodes, Goto
<1>3. TypeOK'
  BY <1>1, <1>2 DEF tables, history, TypeInv, TypeOK, Pcs
<1>4. row[s] \in Row /\ op[s] \in {"enable", "disable"}
  BY DEF UpdateUser, ClearCodes, TypeInv, Control
<1>5. Control'
  BY <1>2, <1>4 DEF TypeInv, TypeOK, Control, Writing
<1> QED
  BY <1>3, <1>5 DEF TypeInv

LEMMA BumpTypeInv ==
    ASSUME TypeInv, NEW u \in Users, Bump(u) PROVE TypeInv'
<1>1. token_version' \in [Users -> 0..MaxVersion]
  BY TwoFactorAssumption DEF Bump, TypeInv, TypeOK
<1>2. TypeOK'
  BY <1>1 DEF Bump, slotVars, history, TypeInv, TypeOK
<1> QED
  BY <1>2 DEF Bump, slotVars, TypeInv, Control

LEMMA EndTypeInv ==
    ASSUME TypeInv, NEW s \in Slots, LoginRespond(s) \/ SecondFactorDone(s) \/ Fail(s)
    PROVE  TypeInv'
<1>1. CASE LoginRespond(s)
  <2> DEFINE u == row[s].user
  <2>1. u \in Users
    BY <1>1, WriterRow DEF LoginRespond
  <2>2. challenges' \subseteq Challenge /\ slipped' \subseteq Users
    <3>1. token_version[u] \in 0..MaxVersion /\ challenges \subseteq Challenge /\ slipped \subseteq Users
      BY <2>1 DEF TypeInv, TypeOK
    <3>2. \A j \in FreshJtis : [jti |-> j, user |-> u, tkv |-> token_version[u]] \in Challenge
      BY <2>1, <3>1 DEF FreshJtis, Challenge
    <3> QED
      BY <1>1, <2>1, <3>1, <3>2 DEF LoginRespond
  <2>3. Finish(s, {})
    BY <1>1 DEF LoginRespond
  <2> QED
    BY <1>1, <2>2, <2>3, OverTypeInv DEF LoginRespond, TypeInv, TypeOK
<1>2. CASE SecondFactorDone(s)
  <2>1. jti[s] \in Jtis /\ code[s] \in Code \cup {NoCode}
    BY <1>2 DEF SecondFactorDone, TypeInv, TypeOK, Control
  <2> QED
    BY <1>2, <2>1, OverTypeInv DEF SecondFactorDone, TypeInv, TypeOK
<1>3. CASE Fail(s)
  BY <1>3, OverTypeInv DEF Fail, tables, history, TypeInv, TypeOK
<1> QED
  BY <1>1, <1>2, <1>3

LEMMA PresentTypeInv ==
    ASSUME TypeInv, NEW s \in Slots, NEW ch \in challenges, Present(s, ch)
    PROVE  TypeInv'
<1>1. ch.jti \in Jtis
  BY DEF TypeInv, TypeOK, Challenge
<1>2. /\ op' = [op EXCEPT ![s] = "2fa_login"] /\ pc' = [pc EXCEPT ![s] = "check"]
      /\ jti' = [jti EXCEPT ![s] = ch.jti] /\ spent' = [spent EXCEPT ![s] = opened]
      /\ UNCHANGED <<tables, row, code, cleared, required, history>>
  BY DEF Present, Goto
<1>3. /\ op' \in [Slots -> Ops] /\ pc' \in [Slots -> Pcs] /\ jti' \in [Slots -> Jtis \cup {NoJti}]
      /\ spent' \in [Slots -> SUBSET (Jtis \cup Code)]
  BY <1>1, <1>2 DEF TypeInv, TypeOK, Pcs, Ops
<1>4. TypeOK'
  BY <1>2, <1>3 DEF tables, history, TypeInv, TypeOK
<1>5. Control'
  BY <1>1, <1>2 DEF TypeInv, TypeOK, Control, Writing
<1> QED
  BY <1>4, <1>5 DEF TypeInv

(* What a step that goes on with a second factor keeps.                    *)
LEMMA MovedTypeInv ==
    ASSUME TypeInv, NEW s \in Slots, NEW p \in {"load", "verify", "mark", "recheck", "insert", "mint"},
           op[s] = "2fa_login", jti[s] \in Jtis, Move(s, p),
           row' \in [Slots -> Row \cup {NoRow}], code' \in [Slots -> Code \cup {NoCode}],
           p \in {"verify", "mark"} => row'[s] \in Row,
           p = "mark" => code'[s] \in Code,
           \A q \in Slots \ {s} : row'[q] = row[q] /\ code'[q] = code[q]
    PROVE  TypeInv'
<1>1. pc' \in [Slots -> Pcs] /\ Control'
  BY MoveEffect
<1>2. TypeOK'
  BY <1>1 DEF Move, tables, history, TypeInv, TypeOK
<1> QED
  BY <1>1, <1>2 DEF TypeInv

LEMMA SecondStepTypeInv ==
    ASSUME TypeInv, NEW s \in Slots,
           \/ CheckRevoked(s) \/ LoadUser(s) \/ VerifyTotp(s) \/ MarkBackupCode(s) \/ RecheckRevoked(s)
           \/ \E c \in codes : FindBackupCode(s, c)
    PROVE  TypeInv'
<1>1. CASE Fail(s)
  BY <1>1, EndTypeInv
<1>2. CASE ~Fail(s)
  <2>1. op[s] = "2fa_login" /\ jti[s] \in Jtis
    BY <1>2 DEF TypeInv, Control, CheckRevoked, LoadUser, VerifyTotp, MarkBackupCode, RecheckRevoked,
           FindBackupCode
  <2>2. CASE CheckRevoked(s)
    <3>1. Move(s, "load") /\ UNCHANGED <<row, code>>
      BY <1>2, <2>2 DEF CheckRevoked
    <3> QED
      BY <2>1, <3>1, MovedTypeInv DEF TypeInv, TypeOK
  <2>3. CASE LoadUser(s)
    <3>1. PICK ch \in challenges : /\ row' = [row EXCEPT ![s] = ReadRow(ch.user)]
                                   /\ Move(s, "verify") /\ UNCHANGED code
      BY <1>2, <2>3 DEF LoadUser
    <3>2. ch.user \in Users
      BY DEF TypeInv, TypeOK, Challenge
    <3>3. ReadRow(ch.user) \in Row
      BY <3>2, ReadRowType
    <3>4. row' \in [Slots -> Row \cup {NoRow}] /\ row'[s] \in Row /\ \A q \in Slots \ {s} : row'[q] = row[q]
      BY <3>1, <3>3 DEF TypeInv, TypeOK
    <3> QED
      BY <2>1, <3>1, <3>4, MovedTypeInv DEF TypeInv, TypeOK
  <2>4. CASE VerifyTotp(s) \/ (MarkBackupCode(s) /\ code[s] \in codes)
    <3>1. Move(s, "recheck") /\ UNCHANGED <<row, code>>
      BY <1>2, <2>4 DEF VerifyTotp, MarkBackupCode
    <3> QED
      BY <2>1, <3>1, MovedTypeInv DEF TypeInv, TypeOK
  <2>5. CASE RecheckRevoked(s)
    <3>1. (Move(s, "mint") \/ Move(s, "insert")) /\ UNCHANGED <<row, code>>
      BY <2>5 DEF RecheckRevoked
    <3>2. row' \in [Slots -> Row \cup {NoRow}] /\ code' \in [Slots -> Code \cup {NoCode}]
      BY <3>1 DEF TypeInv, TypeOK
    <3>3. CASE Move(s, "mint")
      BY <2>1, <3>1, <3>2, <3>3, MovedTypeInv
    <3>4. CASE Move(s, "insert")
      BY <2>1, <3>1, <3>2, <3>4, MovedTypeInv
    <3> QED
      BY <3>1, <3>3, <3>4
  <2>6. ASSUME NEW c \in codes, FindBackupCode(s, c) PROVE TypeInv'
    <3>1. c \in Code /\ row[s] \in Row
      BY <2>6 DEF FindBackupCode, TypeInv, TypeOK, Control
    <3>2. Move(s, "mark") /\ UNCHANGED row /\ code' = [code EXCEPT ![s] = c]
      BY <2>6 DEF FindBackupCode
    <3>3. /\ code' \in [Slots -> Code \cup {NoCode}] /\ code'[s] \in Code
          /\ \A q \in Slots \ {s} : code'[q] = code[q]
      BY <3>1, <3>2 DEF TypeInv, TypeOK
    <3> QED
      BY <2>1, <3>1, <3>2, <3>3, MovedTypeInv DEF TypeInv, TypeOK
  <2>7. MarkBackupCode(s) => code[s] \in codes
    BY <1>2 DEF MarkBackupCode
  <2> QED
    BY <2>2, <2>3, <2>4, <2>5, <2>6, <2>7
<1> QED
  BY <1>1, <1>2

LEMMA TypeInvStep == TypeInv /\ [Next]_vars => TypeInv'
<1> SUFFICES ASSUME TypeInv, [Next]_vars PROVE TypeInv'
  OBVIOUS
<1>1. CASE UNCHANGED vars
  BY <1>1 DEF vars, TypeInv, TypeOK, Control
<1>2. ASSUME NEW u \in Users, Bump(u) PROVE TypeInv'
  BY <1>2, BumpTypeInv
<1>3. ASSUME NEW s \in Slots, Step(s) PROVE TypeInv'
  <2>1. Rollback(s) => Fail(s)
    BY DEF Rollback
  <2> QED
    BY <1>3, <2>1, StartTypeInv, StatementTypeInv, PresentTypeInv, SecondStepTypeInv, CommitTypeInv,
       EndTypeInv DEF Step
<1> QED
  BY <1>1, <1>2, <1>3 DEF Next

-----------------------------------------------------------------------------
(* A password alone *)

LEMMA StartRequired ==
    ASSUME TypeInv, Required, NEW s \in Slots, NEW u \in Users, NEW o \in Ops, NEW p \in {"write", "second_read"},
           o # "2fa_login", Start(s, o, u, p)
    PROVE  Required'
<1>1. ReadRow(u) # NoRow /\ ReadRow(u).user = u
  BY ReadRowType, NothingAssumption
<1>2. /\ op' = [op EXCEPT ![s] = o] /\ pc' = [pc EXCEPT ![s] = p]
      /\ row' = [row EXCEPT ![s] = ReadRow(u)] /\ required' = [required EXCEPT ![s] = totp_enabled[u]]
      /\ UNCHANGED totp_enabled
  BY DEF Start, Goto, tables
<1>3. SUFFICES ASSUME NEW q \in Slots, required'[q]
               PROVE  /\ pc'[q] # "idle" /\ op'[q] # "2fa_login"
                      /\ row'[q] # NoRow /\ totp_enabled'[row'[q].user]
  BY DEF Required
<1>4. CASE q = s
  BY <1>1, <1>2, <1>3, <1>4 DEF TypeInv, TypeOK
<1>5. CASE q # s
  BY <1>2, <1>3, <1>5 DEF TypeInv, TypeOK, Required
<1> QED
  BY <1>4, <1>5

LEMMA OverRequired ==
    ASSUME TypeInv, Required, NEW s \in Slots, NEW off, Finish(s, off),
           \A u \in Users \ off : totp_enabled[u] => totp_enabled'[u]
    PROVE  Required'
<1>1. SUFFICES ASSUME NEW q \in Slots, required'[q]
               PROVE  /\ pc'[q] # "idle" /\ op'[q] # "2fa_login"
                      /\ row'[q] # NoRow /\ totp_enabled'[row'[q].user]
  BY DEF Required
<1>2. required[q] /\ q # s /\ \A u \in off : row[q].user # u
  BY <1>1, FinishEffect
<1>3. op'[q] = op[q] /\ pc'[q] = pc[q] /\ row'[q] = row[q]
  BY <1>2, FinishEffect
<1>4. row[q] # NoRow /\ row[q].user \in Users
  BY <1>2 DEF TypeInv, TypeOK, Required, Row
<1> QED
  BY <1>2, <1>3, <1>4 DEF Required

LEMMA MoveRequired ==
    ASSUME TypeInv, Required, NEW s \in Slots, op'[s] = "2fa_login", ~required[s],
           UNCHANGED <<totp_enabled, required>>,
           \A q \in Slots \ {s} : op'[q] = op[q] /\ pc'[q] = pc[q] /\ row'[q] = row[q]
    PROVE  Required'
BY DEF Required, TypeInv, TypeOK

(* Every request whose user has had 2FA on all along still finds it on.    *)
LEMMA RequiredStep == TypeInv /\ Required /\ [Next]_vars => Required'
<1> SUFFICES ASSUME TypeInv, Required, [Next]_vars PROVE Required'
  OBVIOUS
<1>1. CASE UNCHANGED vars
  BY <1>1 DEF vars, Required
<1>2. ASSUME NEW u \in Users, Bump(u) PROVE Required'
  BY <1>2 DEF Bump, slotVars, Required
<1>3. ASSUME NEW s \in Slots, Step(s) PROVE Required'
  <2>1. ASSUME NEW u \in Users,
               \/ SetupRead(s, u) \/ EnableRead(s, u) \/ DisableRead(s, u) \/ AnonymizeRead(s, u)
               \/ LoginRead(s, u)
        PROVE  Required'
    <3>1. "setup" \in Ops /\ "enable" \in Ops /\ "disable" \in Ops /\ "anonymize" \in Ops /\ "login" \in Ops
      BY DEF Ops, EnrollOps
    <3>2. CASE SetupRead(s, u)
      BY <3>1, <3>2, StartRequired DEF SetupRead
    <3>3. CASE EnableRead(s, u)
      BY <3>1, <3>3, StartRequired DEF EnableRead
    <3>4. CASE DisableRead(s, u)
      BY <3>1, <3>4, StartRequired DEF DisableRead
    <3>5. CASE AnonymizeRead(s, u)
      BY <3>1, <3>5, StartRequired DEF AnonymizeRead
    <3>6. CASE LoginRead(s, u)
      BY <3>1, <3>6, StartRequired DEF LoginRead
    <3> QED
      BY <2>1, <3>2, <3>3, <3>4, <3>5, <3>6
  <2>2. ASSUME NEW ch \in challenges, Present(s, ch) PROVE Required'
    <3>1. ~required[s]
      BY <2>2 DEF Present, Required
    <3> QED
      BY <2>2, <3>1, MoveRequired DEF Present, Goto, tables, TypeInv, TypeOK
  <2>3. CASE Fail(s)
    BY <2>3, OverRequired DEF Fail, tables
  <2>4. ASSUME NEW c \in codes, FindBackupCode(s, c) PROVE Required'
    <3>1. op[s] = "2fa_login" /\ ~required[s]
      BY <2>4 DEF FindBackupCode, TypeInv, Control, Required
    <3> QED
      BY <2>4, <3>1, MoveRequired DEF FindBackupCode, Move, Goto, tables, TypeInv, TypeOK
  <2>5. CASE (CheckRevoked(s) \/ LoadUser(s) \/ VerifyTotp(s) \/ MarkBackupCode(s) \/ RecheckRevoked(s)) /\ ~Fail(s)
    <3>1. op[s] = "2fa_login" /\ ~required[s]
      BY <2>5 DEF CheckRevoked, LoadUser, VerifyTotp, MarkBackupCode, RecheckRevoked, TypeInv, Control, Required
    <3>2. \E p \in Pcs : Move(s, p)
      BY <2>5 DEF CheckRevoked, LoadUser, VerifyTotp, MarkBackupCode, RecheckRevoked, Pcs
    <3>3. \A q \in Slots \ {s} : row'[q] = row[q]
      BY <2>5 DEF CheckRevoked, LoadUser, VerifyTotp, MarkBackupCode, RecheckRevoked, TypeInv, TypeOK
    <3> QED
      BY <3>1, <3>2, <3>3, MoveRequired DEF Move, Goto, tables, TypeInv, TypeOK
  <2>6. CASE SetupCommit(s)
    BY <2>6, OverRequired DEF SetupCommit
  <2>7. CASE EnableCommit(s)
    <3>1. totp_enabled' = [totp_enabled EXCEPT ![row[s].user] = TRUE] /\ Finish(s, {})
      BY <2>7 DEF EnableCommit
    <3>2. \A u \in Users : totp_enabled[u] => totp_enabled'[u]
      BY <3>1 DEF TypeInv, TypeOK
    <3> QED
      BY <3>1, <3>2, OverRequired
  <2>8. CASE DisableCommit(s)
    <3>1. totp_enabled' = [totp_enabled EXCEPT ![row[s].user] = FALSE] /\ Finish(s, {row[s].user})
      BY <2>8 DEF DisableCommit
    <3>2. \A u \in Users \ {row[s].user} : totp_enabled[u] => totp_enabled'[u]
      BY <3>1 DEF TypeInv, TypeOK
    <3> QED
      BY <3>1, <3>2, OverRequired
  <2>9. CASE AnonymizeCommit(s)
    <3>1. /\ \/ totp_enabled' = [totp_enabled EXCEPT ![row[s].user] = FALSE]
             \/ totp_enabled' = totp_enabled
          /\ Finish(s, {row[s].user})
      BY <2>9 DEF AnonymizeCommit
    <3>2. \A u \in Users \ {row[s].user} : totp_enabled[u] => totp_enabled'[u]
      BY <3>1 DEF TypeInv, TypeOK
    <3> QED
      BY <3>1, <3>2, OverRequired
  <2>10. CASE LoginRespond(s)
    BY <2>10, OverRequired DEF LoginRespond
  <2>11. CASE UpdateUser(s) \/ ClearCodes(s)
    <3>1. /\ pc[s] # "idle" /\ \E p \in {"clear", "store"} : pc' = [pc EXCEPT ![s] = p]
          /\ UNCHANGED <<op, row, required, totp_enabled>>
      BY <2>11 DEF UpdateUser, ClearCodes, Goto, tables
    <3> QED
      BY <3>1 DEF Required, TypeInv, TypeOK
  <2>12. CASE SecondFactorDone(s)
    BY <2>12, OverRequired DEF SecondFactorDone
  <2> QED
    BY <1>3, <2>1, <2>2, <2>3, <2>4, <2>5, <2>6, <2>7, <2>8, <2>9, <2>10, <2>11, <2>12
       DEF Step, Rollback
<1> QED
  BY <1>1, <1>2, <1>3 DEF Next

LEMMA SlippedStep ==
    TypeInv /\ Required /\ PasswordAloneNeverEnough /\ [Next]_vars => PasswordAloneNeverEnough'
<1> SUFFICES ASSUME TypeInv, Required, slipped = {}, [Next]_vars PROVE slipped' = {}
  BY DEF PasswordAloneNeverEnough
<1>1. ASSUME NEW s \in Slots, LoginRespond(s) PROVE slipped' = {}
  <2>1. ~MfaRequired(row[s].user) => ~required[s]
    BY DEF MfaRequired, Required
  <2> QED
    BY <1>1, <2>1 DEF LoginRespond
<1>2. ASSUME NEW s \in Slots, Step(s), ~LoginRespond(s) PROVE UNCHANGED slipped
  BY <1>2 DEF Step, SetupRead, EnableRead, DisableRead, AnonymizeRead, LoginRead, Present, Fail, Move,
       FindBackupCode, SetupCommit, UpdateUser, ClearCodes, EnableCommit, DisableCommit, AnonymizeCommit, CheckRevoked,
       LoadUser, VerifyTotp, MarkBackupCode, RecheckRevoked, SecondFactorDone, Rollback, history
<1> QED
  BY <1>1, <1>2 DEF Next, vars, Bump, history

-----------------------------------------------------------------------------
(* One set of backup codes *)

LEMMA HoldsRowStart ==
    ASSUME TypeInv, OneWriter, NEW s \in Slots, NEW u \in Users, NEW o, NEW p \in {"write", "second_read"},
           Start(s, o, u, p)
    PROVE  OneWriter' /\ UNCHANGED codes
<1>1. /\ pc' = [pc EXCEPT ![s] = p] /\ row' = [row EXCEPT ![s] = ReadRow(u)]
      /\ UNCHANGED <<codes, cleared>>
  BY DEF Start, Goto, tables
<1>2. pc'[s] = p /\ \A q \in Slots \ {s} : pc'[q] = pc[q] /\ row'[q] = row[q]
  BY <1>1 DEF TypeInv, TypeOK
<1> QED
  BY <1>1, <1>2 DEF OneWriter, HoldsRow, CodesOf

(* A request that goes on with a second factor holds no user's row.        *)
LEMMA HoldsRowMove ==
    ASSUME TypeInv, OneWriter, NEW s \in Slots, pc'[s] \notin {"clear", "store"}, UNCHANGED <<codes, cleared>>,
           \A q \in Slots \ {s} : pc'[q] = pc[q] /\ row'[q] = row[q]
    PROVE  OneWriter'
BY DEF OneWriter, HoldsRow, CodesOf

(* A request that is over has changed the codes of its own user at most,    *)
(* whose row no other request holds.                                        *)
LEMMA HoldsRowOver ==
    ASSUME TypeInv, OneWriter, NEW s \in Slots, NEW off, Finish(s, off),
           \/ UNCHANGED codes
           \/ /\ pc[s] = "store"
              /\ \A c \in Code : c.user # row[s].user => (c \in codes' <=> c \in codes),
           codes' \subseteq Code
    PROVE  OneWriter'
<1>1. /\ pc'[s] = "idle"
      /\ \A q \in Slots \ {s} : pc'[q] = pc[q] /\ row'[q] = row[q] /\ cleared'[q] = cleared[q]
  BY FinishEffect
<1>2. SUFFICES ASSUME NEW q \in Slots, q # s, pc[q] = "store" PROVE CodesOf(row[q].user)' = CodesOf(row[q].user)
  BY <1>1 DEF OneWriter, HoldsRow
<1>3. row'[q] = row[q]
  BY <1>1, <1>2
<1>4. CASE UNCHANGED codes
  BY <1>3, <1>4 DEF CodesOf
<1>5. CASE /\ pc[s] = "store"
           /\ \A c \in Code : c.user # row[s].user => (c \in codes' <=> c \in codes)
  <2>1. row[q].user # row[s].user
    BY <1>2, <1>5 DEF OneWriter, HoldsRow
  <2> QED
    BY <1>3, <1>5, <2>1 DEF CodesOf, TypeInv, TypeOK
<1> QED
  BY <1>4, <1>5

(* An enrolment deletes what it finds of its user's codes, and while it     *)
(* holds the user's row no other enrolment adds or removes any.             *)
LEMMA OneCodeSetStep == TypeInv /\ OneWriter /\ OneCodeSet /\ [Next]_vars => OneWriter' /\ OneCodeSet'
<1> SUFFICES ASSUME TypeInv, OneWriter, OneCodeSet, [Next]_vars PROVE OneWriter' /\ OneCodeSet'
  OBVIOUS
<1>1. UNCHANGED codes => OneCodeSet'
  BY DEF OneCodeSet
<1>2. CASE UNCHANGED vars
  BY <1>1, <1>2 DEF vars, OneWriter, HoldsRow, CodesOf
<1>3. ASSUME NEW u \in Users, Bump(u) PROVE OneWriter' /\ OneCodeSet'
  BY <1>1, <1>3 DEF Bump, slotVars, OneWriter, HoldsRow, CodesOf
<1>4. ASSUME NEW s \in Slots, Step(s) PROVE OneWriter' /\ OneCodeSet'
  <2>1. ASSUME NEW u \in Users,
               \/ SetupRead(s, u) \/ EnableRead(s, u) \/ DisableRead(s, u) \/ AnonymizeRead(s, u)
               \/ LoginRead(s, u)
        PROVE  OneWriter' /\ OneCodeSet'
    <3>1. \E o, p : p \in {"write", "second_read"} /\ Start(s, o, u, p)
      BY <2>1 DEF SetupRead, EnableRead, DisableRead, AnonymizeRead, LoginRead
    <3> QED
      BY <1>1, <3>1, HoldsRowStart
  <2>2. ASSUME NEW ch \in challenges, Present(s, ch) PROVE OneWriter' /\ OneCodeSet'
    <3>1. pc' = [pc EXCEPT ![s] = "check"] /\ UNCHANGED <<codes, cleared, row>>
      BY <2>2 DEF Present, Goto, tables
    <3> QED
      BY <1>1, <3>1, HoldsRowMove DEF TypeInv, TypeOK
  <2>3. CASE Fail(s) \/ SetupCommit(s) \/ AnonymizeCommit(s) \/ LoginRespond(s) \/ SecondFactorDone(s)
    <3>1. UNCHANGED codes /\ \E off : Finish(s, off)
      BY <2>3 DEF Fail, tables, SetupCommit, AnonymizeCommit, LoginRespond, SecondFactorDone
    <3>2. codes' \subseteq Code
      BY <3>1 DEF TypeInv, TypeOK
    <3> QED
      BY <1>1, <3>1, <3>2, HoldsRowOver
  <2>4. CASE \/ (CheckRevoked(s) \/ LoadUser(s) \/ VerifyTotp(s) \/ MarkBackupCode(s) \/ RecheckRevoked(s)) /\ ~Fail(s)
             \/ \E c \in codes : FindBackupCode(s, c)
    <3>1. \E p \in {"load", "verify", "mark", "recheck", "insert", "mint"} : Move(s, p)
      BY <2>4 DEF CheckRevoked, LoadUser, VerifyTotp, MarkBackupCode, RecheckRevoked, FindBackupCode
    <3>2. \A q \in Slots \ {s} : row'[q] = row[q]
      BY <2>4 DEF CheckRevoked, LoadUser, VerifyTotp, MarkBackupCode, RecheckRevoked, FindBackupCode,
           TypeInv, TypeOK
    <3>3. /\ pc'[s] \notin {"clear", "store"} /\ \A q \in Slots \ {s} : pc'[q] = pc[q]
          /\ UNCHANGED <<codes, cleared>>
      BY <3>1 DEF Move, Goto, tables, TypeInv, TypeOK
    <3> QED
      BY <1>1, <3>2, <3>3, HoldsRowMove
  <2>5. CASE UpdateUser(s)
    <3>1. /\ RowFree(row[s].user) /\ pc[s] = "write" /\ pc' = [pc EXCEPT ![s] = "clear"]
          /\ UNCHANGED <<codes, cleared, row>>
      BY <2>5 DEF UpdateUser, Goto, tables
    <3>2. pc'[s] = "clear" /\ \A q \in Slots \ {s} : pc'[q] = pc[q]
      BY <3>1 DEF TypeInv, TypeOK
    <3> QED
      BY <1>1, <3>1, <3>2 DEF OneWriter, HoldsRow, RowFree, CodesOf
  <2>6. CASE ClearCodes(s)
    <3>1. /\ pc[s] = "clear" /\ pc' = [pc EXCEPT ![s] = "store"]
          /\ cleared' = [cleared EXCEPT ![s] = CodesOf(row[s].user)] /\ UNCHANGED <<codes, row>>
      BY <2>6 DEF ClearCodes, Goto, tables
    <3>2. /\ pc'[s] = "store" /\ cleared'[s] = CodesOf(row[s].user)
          /\ \A q \in Slots \ {s} : pc'[q] = pc[q] /\ cleared'[q] = cleared[q]
      BY <3>1 DEF TypeInv, TypeOK
    <3> QED
      BY <1>1, <3>1, <3>2 DEF OneWriter, HoldsRow, CodesOf
  <2>7. CASE EnableCommit(s) \/ DisableCommit(s)
    <3> DEFINE u == row[s].user
               new == [user : {u}, batch : {batches[u] + 1}, n : 1..BatchSize]
    <3>1. /\ pc[s] = "store" /\ \E off : Finish(s, off)
          /\ codes' = codes \ cleared[s] \/ codes' = (codes \ cleared[s]) \cup new
      BY <2>7 DEF EnableCommit, DisableCommit
    <3>2. cleared[s] = CodesOf(u)
      BY <3>1 DEF OneWriter
    <3>3. \A c \in new : c.user = u /\ c.batch = batches[u] + 1
      OBVIOUS
    <3>4. \A c \in codes \ cleared[s] : c \in codes /\ c.user # u
      BY <3>2 DEF CodesOf
    <3>5. \A c \in cleared[s] : c.user = u
      BY <3>2 DEF CodesOf
    <3>6. codes' \subseteq Code
      BY <2>7, CommitTypeInv DEF TypeInv, TypeOK
    <3> HIDE DEF new, u
    <3>7. OneCodeSet'
      BY <3>1, <3>3, <3>4 DEF OneCodeSet
    <3>8. \A c \in Code : c.user # u => (c \in codes' <=> c \in codes)
      BY <3>1, <3>3, <3>5
    <3> QED
      BY <3>1, <3>6, <3>7, <3>8, HoldsRowOver DEF u
  <2> QED
    BY <1>4, <2>1, <2>2, <2>3, <2>4, <2>5, <2>6, <2>7 DEF Step, Rollback
<1> QED
  BY <1>2, <1>3, <1>4 DEF Next

-----------------------------------------------------------------------------
(* Nothing is used twice *)

LEMMA KindsApart ==
    ASSUME TypeInv, Spent, NEW s \in Slots
    PROVE  /\ \A j \in Jtis : j \notin revoked => j \notin spent[s]
           /\ \A c \in Code : c \notin used => c \notin spent[s]
           /\ NoCode \notin opened
BY NothingAssumption DEF TypeInv, TypeOK, Spent

LEMMA OverSpent ==
    ASSUME TypeInv, Spent, NEW s \in Slots, NEW off, Finish(s, off),
           opened \subseteq opened', revoked \subseteq revoked', used \subseteq used',
           \A x \in opened' \ opened : x \in revoked' \/ x \in used'
    PROVE  Spent'
<1>1. /\ pc'[s] = "idle" /\ spent'[s] = {} /\ code'[s] = NoCode
      /\ \A q \in Slots \ {s} : /\ pc'[q] = pc[q] /\ jti'[q] = jti[q]
                                /\ code'[q] = code[q] /\ spent'[q] = spent[q]
  BY FinishEffect
<1> QED
  BY <1>1 DEF Spent

LEMMA MoveSpent ==
    ASSUME TypeInv, Spent, NEW s \in Slots, NEW p \in Pcs \ {"idle"}, Move(s, p),
           jti[s] \notin spent[s], code'[s] \notin spent[s],
           \A q \in Slots \ {s} : code'[q] = code[q]
    PROVE  Spent'
<1>1. /\ pc' = [pc EXCEPT ![s] = p] /\ UNCHANGED <<jti, spent, opened, revoked, used>>
  BY DEF Move, Goto, tables, history
<1>2. pc'[s] = p /\ \A q \in Slots \ {s} : pc'[q] = pc[q]
  BY <1>1 DEF TypeInv, TypeOK
<1> QED
  BY <1>1, <1>2 DEF Spent

(* A challenge and a code are looked at after the request began: what had   *)
(* been used before is revoked, or marked, by then.                         *)
LEMMA SpentStep == TypeInv /\ Spent /\ [Next]_vars => Spent'
<1> SUFFICES ASSUME TypeInv, Spent, [Next]_vars PROVE Spent'
  OBVIOUS
<1>1. CASE UNCHANGED vars
  BY <1>1 DEF vars, Spent
<1>2. ASSUME NEW u \in Users, Bump(u) PROVE Spent'
  BY <1>2 DEF Bump, slotVars, history, Spent
<1>3. ASSUME NEW s \in Slots, Step(s) PROVE Spent'
  <2>1. ASSUME NEW u \in Users, NEW o, NEW p \in {"write", "second_read"}, Start(s, o, u, p), UNCHANGED opened
        PROVE  Spent'
    <3>1. pc' = [pc EXCEPT ![s] = p] /\ UNCHANGED <<jti, code, spent, opened, revoked, used>>
      BY <2>1 DEF Start, Goto, tables
    <3> QED
      BY <3>1 DEF Spent, TypeInv, TypeOK
  <2>2. ASSUME NEW u \in Users,
               \/ SetupRead(s, u) \/ EnableRead(s, u) \/ DisableRead(s, u) \/ AnonymizeRead(s, u)
               \/ LoginRead(s, u)
        PROVE  Spent'
    <3>1. UNCHANGED opened /\ \E o, p : p \in {"write", "second_read"} /\ Start(s, o, u, p)
      BY <2>2 DEF SetupRead, EnableRead, DisableRead, AnonymizeRead, LoginRead, history
    <3> QED
      BY <2>1, <3>1
  <2>3. ASSUME NEW ch \in challenges, Present(s, ch) PROVE Spent'
    <3>1. /\ pc[s] = "idle" /\ pc' = [pc EXCEPT ![s] = "check"] /\ jti' = [jti EXCEPT ![s] = ch.jti]
          /\ spent' = [spent EXCEPT ![s] = opened] /\ UNCHANGED <<code, opened, revoked, used>>
      BY <2>3 DEF Present, Goto, tables, history
    <3>2. code[s] = NoCode /\ NoCode \notin opened
      BY <3>1, KindsApart DEF Spent
    <3>3. /\ pc'[s] = "check" /\ spent'[s] = opened
          /\ \A q \in Slots \ {s} : pc'[q] = pc[q] /\ jti'[q] = jti[q] /\ spent'[q] = spent[q]
      BY <3>1 DEF TypeInv, TypeOK
    <3> QED
      BY <3>1, <3>2, <3>3 DEF Spent
  <2>4. CASE Fail(s)
    BY <2>4, OverSpent DEF Fail, tables, history
  <2>5. ASSUME NEW c \in codes, FindBackupCode(s, c) PROVE Spent'
    <3>1. c \in Code /\ c \notin used /\ pc[s] = "verify" /\ code' = [code EXCEPT ![s] = c] /\ Move(s, "mark")
      BY <2>5 DEF FindBackupCode, Unused, TypeInv, TypeOK
    <3>2. c \notin spent[s] /\ jti[s] \notin spent[s]
      BY <3>1, KindsApart DEF Spent
    <3>3. code'[s] = c /\ \A q \in Slots \ {s} : code'[q] = code[q]
      BY <3>1 DEF TypeInv, TypeOK
    <3> QED
      BY <3>1, <3>2, <3>3, MoveSpent DEF Pcs
  <2>6. CASE (CheckRevoked(s) \/ LoadUser(s) \/ VerifyTotp(s) \/ MarkBackupCode(s) \/ RecheckRevoked(s)) /\ ~Fail(s)
    <3>1. UNCHANGED code /\ \E p \in Pcs \ {"idle"} : Move(s, p)
      BY <2>6 DEF CheckRevoked, LoadUser, VerifyTotp, MarkBackupCode, RecheckRevoked, Pcs
    <3>2. CASE CheckRevoked(s)
      <4>1. jti[s] \in Jtis /\ jti[s] \notin revoked
        BY <2>6, <3>2 DEF CheckRevoked, TypeInv, Control
      <4> QED
        BY <3>1, <4>1, KindsApart, MoveSpent DEF Spent
    <3>3. CASE LoadUser(s) \/ VerifyTotp(s) \/ MarkBackupCode(s) \/ RecheckRevoked(s)
      <4>1. jti[s] \notin spent[s]
        BY <3>3 DEF LoadUser, VerifyTotp, MarkBackupCode, RecheckRevoked, Spent
      <4> QED
        BY <3>1, <4>1, MoveSpent DEF Spent
    <3> QED
      BY <2>6, <3>2, <3>3
  <2>7. CASE SetupCommit(s) \/ EnableCommit(s) \/ DisableCommit(s) \/ AnonymizeCommit(s) \/ LoginRespond(s)
    <3>1. UNCHANGED <<opened, revoked, used>> /\ \E off : Finish(s, off)
      BY <2>7 DEF SetupCommit, EnableCommit, DisableCommit, AnonymizeCommit, LoginRespond, history
    <3> QED
      BY <3>1, OverSpent
  <2>8. CASE UpdateUser(s) \/ ClearCodes(s)
    <3>1. /\ pc[s] \in {"write", "clear"} /\ \E p \in {"clear", "store"} : pc' = [pc EXCEPT ![s] = p]
          /\ UNCHANGED <<jti, code, spent, opened, revoked, used>>
      BY <2>8 DEF UpdateUser, ClearCodes, Goto, tables, history
    <3> QED
      BY <3>1 DEF Spent, TypeInv, TypeOK
  <2>9. CASE SecondFactorDone(s)
    <3>1. /\ revoked' = revoked \cup {jti[s]} /\ used' = used \cup ({code[s]} \ {NoCode})
          /\ opened' = opened \cup ({jti[s], code[s]} \ {NoCode}) /\ Finish(s, {})
      BY <2>9 DEF SecondFactorDone
    <3> QED
      BY <3>1, OverSpent
  <2> QED
    BY <1>3, <2>2, <2>3, <2>4, <2>5, <2>6, <2>7, <2>8, <2>9 DEF Step, Rollback
<1> QED
  BY <1>1, <1>2, <1>3 DEF Next

-----------------------------------------------------------------------------
(* Theorems *)

LEMMA HistoryInit == Init => Required /\ PasswordAloneNeverEnough /\ OneWriter /\ OneCodeSet /\ Spent
BY DEF Init, Required, PasswordAloneNeverEnough, OneWriter, HoldsRow, OneCodeSet, Spent

(* Requests, rows, codes and challenges keep their types, and every handler *)
(* holds at each step what its earlier steps read.                          *)
THEOREM TypeCorrect == Spec => []TypeInv
<1> QED
  BY TypeInvInit, TypeInvStep, PTL DEF Spec

(* While 2FA is on, a password alone opens no session, whatever enrolments  *)
(* run beside the login.                                                    *)
THEOREM PasswordAloneNeverEnoughHolds == Spec => []PasswordAloneNeverEnough
<1> QED
  BY TypeInvInit, HistoryInit, TypeInvStep, RequiredStep, SlippedStep, PTL DEF Spec

(* The codes stored for a user come from one enrolment.                     *)
THEOREM OneCodeSetHolds == Spec => []OneCodeSet
<1> QED
  BY TypeInvInit, HistoryInit, TypeInvStep, OneCodeSetStep, PTL DEF Spec

(* No request gets beyond its checks with a challenge or a backup code that *)
(* was used before the request began.                                       *)
THEOREM NoReuseHolds == Spec => []NoReuse
<1>1. Spent => NoReuse
  BY DEF Spent, NoReuse
<1> QED
  BY <1>1, TypeInvInit, HistoryInit, TypeInvStep, SpentStep, PTL DEF Spec
=============================================================================
