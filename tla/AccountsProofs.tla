--------------------------- MODULE AccountsProofs ---------------------------
(***************************************************************************)
(* Proofs about Accounts for any users, tokens and operations in flight.   *)
(***************************************************************************)
EXTENDS Accounts, TLAPS

Columns == {"active", "password", "anonymized", "clock", "machine"}

(* What each operation has in hand.                                        *)
Control ==
    /\ DOMAIN seen = Slots
    /\ \A s \in Slots :
        /\ op[s] = "confirm" =>
              tok[s] \in Tokens /\ tokens[tok[s]] # NoRow
        /\ \A u \in DOMAIN seen[s] : users[u] # NoRow

TypeInv == TypeOK /\ Control

(* Machine accounts have no password and no reset token, a loaded row of    *)
(* one says so, and no operation that gives out a password has loaded one.  *)
Machines ==
    /\ MachineStaysPasswordless
    /\ \A t \in Tokens : tokens[t] # NoRow =>
          /\ users[tokens[t].user] # NoRow
          /\ Exists(tokens[t].user) => ~users[tokens[t].user].machine
    /\ \A s \in Slots : \A u \in DOMAIN seen[s] :
          /\ Exists(u) => users[u].machine = seen[s][u].machine
          /\ seen[s][u].machine => /\ seen[s][u].password = "unusable"
                                   /\ op[s] \notin {"confirm", "request"}


-----------------------------------------------------------------------------
(* Rows *)

LEMMA RowDomain == ASSUME NEW r \in UserRow PROVE DOMAIN r = Columns
BY DEF UserRow, Columns

LEMMA MergeFields ==
    ASSUME NEW cur \in UserRow, NEW old \in UserRow, NEW new \in UserRow, NEW forced
    PROVE  /\ Merge(cur, old, new, forced).password =
               IF "password" \in forced \/ new.password # old.password THEN new.password ELSE cur.password
           /\ Merge(cur, old, new, forced).machine =
               IF "machine" \in forced \/ new.machine # old.machine THEN new.machine ELSE cur.machine
BY RowDomain DEF Merge, Columns

LEMMA MergeType ==
    ASSUME NEW cur \in UserRow, NEW old \in UserRow, NEW new \in UserRow, NEW forced
    PROVE  Merge(cur, old, new, forced) \in UserRow
BY RowDomain DEF Merge, Columns, UserRow

LEMMA EffectType ==
    ASSUME NEW r \in UserRow, NEW o \in Writes \ {"request"}, today \in Days
    PROVE  /\ Effect(o, r) \in UserRow
           /\ Effect(o, r).machine = r.machine
           /\ o # "confirm" => Effect(o, r).password \in {r.password, "unusable"}
BY DEF Effect, UserRow, Writes

LEMMA ExistsRow ==
    ASSUME TypeOK, NEW u \in Users PROVE Exists(u) <=> users[u] \in UserRow
BY NothingAssumption DEF TypeOK, Exists

LEMMA SeenRows ==
    ASSUME TypeOK, NEW s \in Slots, NEW u \in DOMAIN seen[s]
    PROVE  u \in Users /\ seen[s][u] \in UserRow
BY DEF TypeOK, Rows

(* What a commit leaves in the row of a user it has loaded.                 *)
LEMMA CommitRow ==
    ASSUME TypeOK, NEW s \in Slots, Commit(s), NEW u \in DOMAIN seen[s]
    PROVE  /\ u \in Users /\ users[u] \in UserRow /\ users'[u] \in UserRow
           /\ users'[u].machine = users[u].machine
           /\ op[s] # "confirm" =>
                 users'[u].password \in {users[u].password, seen[s][u].password, "unusable"}
<1> DEFINE old == seen[s][u]
           new == Effect(op[s], old)
           forced == AlwaysWritten(op[s])
<1>1. /\ op[s] \in Writes \ {"request"} /\ Exists(u)
      /\ u \in Users /\ old \in UserRow /\ today \in Days
  BY SeenRows DEF Commit, TypeOK
<1>2. users[u] \in UserRow
  BY <1>1, ExistsRow
<1>3. new \in UserRow /\ new.machine = old.machine /\ (op[s] # "confirm" => new.password \in {old.password, "unusable"})
  BY <1>1, EffectType
<1>4. "machine" \notin forced
  BY DEF AlwaysWritten
<1>5. users'[u] = Merge(users[u], old, new, forced)
  BY <1>1 DEF Commit
<1> HIDE DEF new, forced
<1>6. /\ Merge(users[u], old, new, forced) \in UserRow
      /\ Merge(users[u], old, new, forced).machine = users[u].machine
      /\ Merge(users[u], old, new, forced).password \in {users[u].password, new.password}
  BY <1>1, <1>2, <1>3, <1>4, MergeType, MergeFields
<1> QED
  BY <1>1, <1>2, <1>3, <1>5, <1>6

LEMMA CommitOthers ==
    ASSUME TypeOK, NEW s \in Slots, Commit(s)
    PROVE  \A u \in Users \ DOMAIN seen[s] : users'[u] = users[u]
BY DEF Commit

-----------------------------------------------------------------------------
(* Types *)

LEMMA DoneEffect ==
    ASSUME TypeInv, NEW s \in Slots, Done(s)
    PROVE  /\ op' \in [Slots -> Writes \cup {"none"}] /\ tok' \in [Slots -> Tokens \cup {NoToken}]
           /\ \A q \in Slots : \E us \in SUBSET Users : seen'[q] \in Rows(us)
           /\ DOMAIN seen' = Slots
           /\ op'[s] = "none" /\ DOMAIN seen'[s] = {}
           /\ \A q \in Slots \ {s} : op'[q] = op[q] /\ seen'[q] = seen[q] /\ tok'[q] = tok[q]
<1>1. NoRows \in Rows({}) /\ DOMAIN NoRows = {}
  BY DEF NoRows, Rows
<1>2. /\ op' \in [Slots -> Writes \cup {"none"}] /\ tok' \in [Slots -> Tokens \cup {NoToken}]
      /\ op'[s] = "none" /\ \A q \in Slots \ {s} : op'[q] = op[q] /\ tok'[q] = tok[q]
  BY DEF Done, TypeInv, TypeOK
<1>3. /\ DOMAIN seen' = Slots /\ seen'[s] = NoRows
      /\ \A q \in Slots \ {s} : seen'[q] = seen[q]
  BY DEF Done, TypeInv, Control
<1> QED
  BY <1>1, <1>2, <1>3 DEF TypeInv, TypeOK

LEMMA LoadEffect ==
    ASSUME TypeInv, NEW s \in Slots, NEW o \in Writes, NEW us \in SUBSET Users, Load(s, o, us)
    PROVE  /\ op' \in [Slots -> Writes \cup {"none"}]
           /\ \A q \in Slots : \E vs \in SUBSET Users : seen'[q] \in Rows(vs)
           /\ DOMAIN seen' = Slots
           /\ op'[s] = o /\ DOMAIN seen'[s] = us /\ op[s] = "none"
           /\ \A u \in us : Exists(u) /\ users[u] \in UserRow /\ seen'[s][u] = users[u]
           /\ \A q \in Slots \ {s} : op'[q] = op[q] /\ seen'[q] = seen[q]
           /\ UNCHANGED <<users, tokens, today>>
<1>1. op' = [op EXCEPT ![s] = o] /\ seen' = [seen EXCEPT ![s] = [u \in us |-> users[u]]] /\ op[s] = "none"
      /\ UNCHANGED <<users, tokens, today>>
  BY DEF Load
<1>2. /\ op' \in [Slots -> Writes \cup {"none"}] /\ op'[s] = o /\ \A q \in Slots \ {s} : op'[q] = op[q]
  BY <1>1 DEF TypeInv, TypeOK
<1>3. /\ DOMAIN seen' = Slots /\ seen'[s] = [u \in us |-> users[u]]
      /\ \A q \in Slots \ {s} : seen'[q] = seen[q]
  BY <1>1 DEF TypeInv, Control
<1>4. \A u \in us : Exists(u) /\ users[u] \in UserRow
  BY ExistsRow DEF Load, TypeInv
<1>5. [u \in us |-> users[u]] \in Rows(us)
  BY <1>4 DEF Rows
<1> QED
  BY <1>1, <1>2, <1>3, <1>4, <1>5 DEF TypeInv, TypeOK

LEMMA TypeInvInit == Init => TypeInv
<1>1. NoRows \in Rows({}) /\ DOMAIN NoRows = {}
  BY DEF NoRows, Rows
<1>2. 0 \in Days
  BY AccountsAssumption DEF Days
<1> QED
  BY <1>1, <1>2 DEF Init, TypeInv, TypeOK, Control

LEMMA NewUserTypeInv ==
    ASSUME TypeInv, NEW u \in Users, NEW p \in {"unusable", "set"}, NEW m \in BOOLEAN, NEW a \in BOOLEAN,
           NewUser(u, p, m, a), tokens' \in [Tokens -> TokenRow \cup {NoRow}],
           \A t \in Tokens : tokens[t] # NoRow => tokens'[t] # NoRow
    PROVE  TypeInv'
<1> DEFINE r == [active |-> a, password |-> p, anonymized |-> FALSE, clock |-> NoDay, machine |-> m]
<1>1. r \in UserRow
  BY DEF UserRow
<1>2. users' = [users EXCEPT ![u] = r] /\ UNCHANGED <<today, op, seen, tok>>
  BY DEF NewUser, slotVars
<1> HIDE DEF r
<1>3. users' \in [Users -> UserRow \cup {NoRow, GoneRow}]
  BY <1>1, <1>2 DEF TypeInv, TypeOK
<1>4. \A v \in Users : users[v] # NoRow => users'[v] # NoRow
  BY <1>1, <1>2, NothingAssumption DEF TypeInv, TypeOK
<1>5. TypeOK'
  BY <1>2, <1>3 DEF TypeInv, TypeOK
<1>6. Control'
  <2>1. \A s \in Slots : DOMAIN seen[s] \subseteq Users
    BY SeenRows DEF TypeInv
  <2> QED
    BY <1>2, <1>4, <2>1 DEF TypeInv, Control
<1> QED
  BY <1>5, <1>6 DEF TypeInv

LEMMA AddTokenType ==
    ASSUME TypeInv, NEW t \in Tokens, NEW u \in Users, NEW days \in Nat, NEW inv \in BOOLEAN, AddToken(t, u, days, inv)
    PROVE  /\ tokens[t] = NoRow /\ tokens'[t] \in TokenRow /\ tokens'[t].user = u /\ ~tokens'[t].used
           /\ tokens'[t] # NoRow
           /\ tokens' \in [Tokens -> TokenRow \cup {NoRow}]
           /\ \A x \in Tokens \ {t} : tokens'[x] = tokens[x]
<1> DEFINE r == [user |-> u, expires |-> today + days, used |-> FALSE, invite |-> inv]
<1>1. r \in TokenRow /\ r.user = u /\ ~r.used
  BY AccountsAssumption DEF TokenRow, TypeInv, TypeOK, Days
<1>2. tokens' = [tokens EXCEPT ![t] = r] /\ tokens[t] = NoRow
  BY DEF AddToken
<1> HIDE DEF r
<1> QED
  BY <1>1, <1>2, NothingAssumption DEF TypeInv, TypeOK

LEMMA CreateTypeInv ==
    ASSUME TypeInv, NEW u \in Users, CreateUser(u) \/ CreateServiceAccount(u) \/ InviteMember(u)
    PROVE  TypeInv'
<1>1. CASE CreateUser(u)
  BY <1>1, NewUserTypeInv DEF CreateUser, TypeInv, TypeOK
<1>2. CASE CreateServiceAccount(u)
  BY <1>2, NewUserTypeInv DEF CreateServiceAccount, TypeInv, TypeOK
<1>3. CASE InviteMember(u)
  <2>1. InviteDays \in Nat
    BY AccountsAssumption
  <2>2. PICK t \in Tokens : AddToken(t, u, InviteDays, TRUE)
    BY <1>3 DEF InviteMember
  <2>3. /\ tokens' \in [Tokens -> TokenRow \cup {NoRow}]
        /\ \A x \in Tokens : tokens[x] # NoRow => tokens'[x] # NoRow
    BY <2>1, <2>2, AddTokenType
  <2>4. NewUser(u, "unusable", FALSE, FALSE)
    BY <1>3 DEF InviteMember
  <2> QED
    BY <2>3, <2>4, NewUserTypeInv
<1> QED
  BY <1>1, <1>2, <1>3

LEMMA LoadTypeInv ==
    ASSUME TypeInv, NEW s \in Slots, NEW o \in Writes, NEW us \in SUBSET Users, Load(s, o, us),
           tok' \in [Slots -> Tokens \cup {NoToken}], \A q \in Slots \ {s} : tok'[q] = tok[q],
           o = "confirm" => tok'[s] \in Tokens /\ tokens[tok'[s]] # NoRow
    PROVE  TypeInv'
<1>1. TypeOK'
  BY LoadEffect DEF TypeInv, TypeOK
<1>2. Control'
  BY LoadEffect, NothingAssumption DEF TypeInv, Control
<1> QED
  BY <1>1, <1>2 DEF TypeInv

LEMMA ReadTypeInv ==
    ASSUME TypeInv, NEW s \in Slots, NEW u \in Users,
           \/ RequestRead(s, u) \/ DisableRead(s, u) \/ EnableRead(s, u) \/ PromoteRead(s, u)
           \/ EditRead(s, u) \/ AnonymizeRead(s, u)
    PROVE  TypeInv'
<1>1. \E o \in Writes \ {"confirm"} : Load(s, o, {u}) /\ UNCHANGED tok
  BY DEF RequestRead, DisableRead, EnableRead, PromoteRead, EditRead, AnonymizeRead, Read, Writes
<1> QED
  BY <1>1, LoadTypeInv DEF TypeInv, TypeOK

LEMMA ConfirmReadTypeInv ==
    ASSUME TypeInv, NEW s \in Slots, NEW t \in Tokens, ConfirmRead(s, t) PROVE TypeInv'
<1>1. tokens[t] \in TokenRow /\ tokens[t] # NoRow
  BY DEF ConfirmRead, Consumable, TypeInv, TypeOK
<1>2. tokens[t].user \in Users
  BY <1>1 DEF TokenRow
<1>3. Load(s, "confirm", {tokens[t].user}) /\ tok' = [tok EXCEPT ![s] = t]
  BY DEF ConfirmRead
<1>4. tok' \in [Slots -> Tokens \cup {NoToken}] /\ tok'[s] = t /\ \A q \in Slots \ {s} : tok'[q] = tok[q]
  BY <1>3 DEF TypeInv, TypeOK
<1>5. "confirm" \in Writes
  BY DEF Writes
<1> QED
  BY <1>1, <1>2, <1>3, <1>4, <1>5, LoadTypeInv

LEMMA RetentionReadTypeInv ==
    ASSUME TypeInv, NEW s \in Slots, RetentionRead(s) PROVE TypeInv'
<1>1. \E us \in SUBSET Users : Load(s, "retention", us) /\ UNCHANGED tok
  BY DEF RetentionRead
<1>2. "retention" \in Writes
  BY DEF Writes
<1> QED
  BY <1>1, <1>2, LoadTypeInv DEF TypeInv, TypeOK

LEMMA DoneTypeInv ==
    ASSUME TypeInv, NEW s \in Slots, Done(s), UNCHANGED today,
           users' \in [Users -> UserRow \cup {NoRow, GoneRow}],
           tokens' \in [Tokens -> TokenRow \cup {NoRow}],
           \A u \in Users : users[u] # NoRow => users'[u] # NoRow,
           \A t \in Tokens : tokens[t] # NoRow => tokens'[t] # NoRow
    PROVE  TypeInv'
<1>1. TypeOK'
  BY DoneEffect DEF TypeInv, TypeOK
<1>2. Control'
  <2>1. \A q \in Slots : DOMAIN seen[q] \subseteq Users
    BY SeenRows DEF TypeInv
  <2> QED
    BY <2>1, DoneEffect DEF TypeInv, Control
<1> QED
  BY <1>1, <1>2 DEF TypeInv

LEMMA RequestCommitTypeInv ==
    ASSUME TypeInv, NEW s \in Slots, RequestCommit(s) PROVE TypeInv'
<1>1. PICK t \in Tokens, u \in DOMAIN seen[s] : AddToken(t, u, ResetDays, FALSE)
  BY DEF RequestCommit
<1>2. u \in Users /\ ResetDays \in Nat
  BY SeenRows, AccountsAssumption DEF TypeInv
<1>3. tokens' \in [Tokens -> TokenRow \cup {NoRow}] /\ \A x \in Tokens : tokens[x] # NoRow => tokens'[x] # NoRow
  BY <1>1, <1>2, AddTokenType
<1> QED
  BY <1>3, DoneTypeInv DEF RequestCommit, TypeInv, TypeOK

LEMMA MarkUsedEffect ==
    ASSUME TypeInv, NEW s \in Slots, MarkUsed(s)
    PROVE  /\ tokens' \in [Tokens -> TokenRow \cup {NoRow}]
           /\ \A t \in Tokens : /\ tokens'[t] # NoRow <=> tokens[t] # NoRow
                                /\ tokens[t] # NoRow => tokens'[t].user = tokens[t].user
<1>1. CASE op[s] = "confirm"
  <2> DEFINE t == tok[s]
             r == [tokens[t] EXCEPT !.used = TRUE]
  <2>1. t \in Tokens /\ tokens[t] \in TokenRow
    BY <1>1 DEF TypeInv, TypeOK, Control
  <2>2. r \in TokenRow /\ r.user = tokens[t].user
    BY <2>1 DEF TokenRow
  <2>3. tokens' = [tokens EXCEPT ![t] = r]
    BY <1>1 DEF MarkUsed
  <2> HIDE DEF r, t
  <2>4. tokens' \in [Tokens -> TokenRow \cup {NoRow}] /\ tokens'[t] = r /\ \A x \in Tokens \ {t} : tokens'[x] = tokens[x]
    BY <2>1, <2>2, <2>3 DEF TypeInv, TypeOK
  <2> QED
    BY <1>1, <2>1, <2>2, <2>4, NothingAssumption DEF t
<1>2. CASE op[s] # "confirm"
  BY <1>2 DEF MarkUsed, TypeInv, TypeOK
<1> QED
  BY <1>1, <1>2

LEMMA CommitTypeInv ==
    ASSUME TypeInv, NEW s \in Slots, Commit(s) PROVE TypeInv'
<1>1. Done(s) /\ MarkUsed(s) /\ UNCHANGED today
  BY DEF Commit
<1>2. \A u \in Users : users'[u] \in UserRow \/ users'[u] = users[u]
  BY CommitRow, CommitOthers DEF TypeInv
<1>3. users' \in [Users -> UserRow \cup {NoRow, GoneRow}]
  <2>1. DOMAIN users' = Users /\ users' = [u \in Users |-> users'[u]]
    BY DEF Commit
  <2> QED
    BY <1>2, <2>1 DEF TypeInv, TypeOK
<1> QED
  BY <1>1, <1>2, <1>3, MarkUsedEffect, DoneTypeInv, NothingAssumption

LEMMA DeleteTypeInv ==
    ASSUME TypeInv, NEW u \in Users, DeleteServiceAccount(u) PROVE TypeInv'
<1>1. users' = [users EXCEPT ![u] = GoneRow] /\ UNCHANGED <<tokens, today, op, seen, tok>>
  BY DEF DeleteServiceAccount, slotVars
<1>2. users' \in [Users -> UserRow \cup {NoRow, GoneRow}] /\ \A v \in Users : users[v] # NoRow => users'[v] # NoRow
  BY <1>1, NothingAssumption DEF TypeInv, TypeOK
<1>3. \A q \in Slots : DOMAIN seen[q] \subseteq Users
  BY SeenRows DEF TypeInv
<1>4. TypeOK'
  BY <1>1, <1>2 DEF TypeInv, TypeOK
<1>5. Control'
  BY <1>1, <1>2, <1>3 DEF TypeInv, Control
<1> QED
  BY <1>4, <1>5 DEF TypeInv

LEMMA NextDayTypeInv == ASSUME TypeInv, NextDay PROVE TypeInv'
<1>1. today' \in Days
  BY AccountsAssumption DEF NextDay, Days, TypeInv, TypeOK
<1> QED
  BY <1>1 DEF NextDay, slotVars, TypeInv, TypeOK, Control

LEMMA TypeInvStep == TypeInv /\ [Next]_vars => TypeInv'
<1> SUFFICES ASSUME TypeInv, [Next]_vars PROVE TypeInv'
  OBVIOUS
<1>1. CASE UNCHANGED vars
  BY <1>1 DEF vars, TypeInv, TypeOK, Control
<1>2. ASSUME NEW s \in Slots, Rollback(s) PROVE TypeInv'
  BY <1>2, DoneTypeInv DEF Rollback, TypeInv, TypeOK
<1> QED
  BY <1>1, <1>2, CreateTypeInv, ReadTypeInv, ConfirmReadTypeInv, RetentionReadTypeInv, RequestCommitTypeInv,
     CommitTypeInv, DeleteTypeInv, NextDayTypeInv DEF Next, Step

-----------------------------------------------------------------------------
(* Machine accounts *)

(* What all actions may do to the users: nothing turns into a machine.      *)
LEMMA NewUserMachines ==
    ASSUME TypeInv, Machines, NEW u \in Users, NEW p \in {"unusable", "set"}, NEW m \in BOOLEAN, NEW a \in BOOLEAN,
           NewUser(u, p, m, a), m => p = "unusable",
           \A t \in Tokens : tokens'[t] = tokens[t] \/ (tokens'[t].user = u /\ ~m)
    PROVE  Machines'
<1> DEFINE r == [active |-> a, password |-> p, anonymized |-> FALSE, clock |-> NoDay, machine |-> m]
<1>1. r \in UserRow /\ r.machine = m /\ r.password = p
  BY DEF UserRow
<1>2. users[u] = NoRow /\ users' = [users EXCEPT ![u] = r] /\ UNCHANGED <<op, seen>>
  BY DEF NewUser, slotVars
<1> HIDE DEF r
<1>3. users'[u] = r /\ \A v \in Users \ {u} : users'[v] = users[v]
  BY <1>2 DEF TypeInv, TypeOK
<1>4. users'[u] # NoRow /\ Exists(u)'
  BY <1>1, <1>3, NothingAssumption DEF Exists
<1>5. MachineStaysPasswordless'
  BY <1>1, <1>3 DEF Machines, MachineStaysPasswordless, Exists
<1>6. \A t \in Tokens : tokens'[t] # NoRow =>
          /\ users'[tokens'[t].user] # NoRow
          /\ Exists(tokens[t].user)' => ~users'[tokens'[t].user].machine
  <2> SUFFICES ASSUME NEW t \in Tokens, tokens'[t] # NoRow
               PROVE  /\ users'[tokens'[t].user] # NoRow
                      /\ Exists(tokens[t].user)' => ~users'[tokens'[t].user].machine
    OBVIOUS
  <2>1. CASE tokens'[t].user = u /\ ~m
    BY <1>1, <1>3, <1>4, <2>1
  <2>2. CASE tokens'[t] = tokens[t]
    <3>1. tokens[t].user \in Users /\ tokens[t].user # u
      BY <1>2, <2>2 DEF Machines, TypeInv, TypeOK, TokenRow
    <3> QED
      BY <1>3, <2>2, <3>1 DEF Machines, Exists
  <2> QED
    BY <2>1, <2>2
<1>7. \A s \in Slots : \A v \in DOMAIN seen[s] : v \in Users /\ v # u
  BY <1>2, SeenRows DEF TypeInv, Control
<1> QED
  BY <1>2, <1>3, <1>5, <1>6, <1>7 DEF Machines, Exists

LEMMA CreateMachines ==
    ASSUME TypeInv, Machines, NEW u \in Users, CreateUser(u) \/ CreateServiceAccount(u) \/ InviteMember(u)
    PROVE  Machines'
<1>1. CASE CreateUser(u)
  BY <1>1, NewUserMachines DEF CreateUser
<1>2. CASE CreateServiceAccount(u)
  BY <1>2, NewUserMachines DEF CreateServiceAccount
<1>3. CASE InviteMember(u)
  <2>1. PICK t \in Tokens : AddToken(t, u, InviteDays, TRUE)
    BY <1>3 DEF InviteMember
  <2>2. tokens'[t].user = u /\ \A x \in Tokens \ {t} : tokens'[x] = tokens[x]
    BY <2>1, AccountsAssumption, AddTokenType
  <2> QED
    BY <1>3, <2>2, NewUserMachines DEF InviteMember
<1> QED
  BY <1>1, <1>2, <1>3

LEMMA LoadMachines ==
    ASSUME TypeInv, Machines, NEW s \in Slots, NEW o \in Writes, NEW us \in SUBSET Users, Load(s, o, us),
           o \in {"confirm", "request"} => \A u \in us : ~users[u].machine
    PROVE  Machines'
<1>1. UNCHANGED <<users, tokens>>
  BY LoadEffect
<1>2. \A q \in Slots : \A u \in DOMAIN seen'[q] :
          /\ Exists(u) => users[u].machine = seen'[q][u].machine
          /\ seen'[q][u].machine => /\ seen'[q][u].password = "unusable"
                                    /\ op'[q] \notin {"confirm", "request"}
  <2> SUFFICES ASSUME NEW q \in Slots, NEW u \in DOMAIN seen'[q]
               PROVE  /\ Exists(u) => users[u].machine = seen'[q][u].machine
                      /\ seen'[q][u].machine => /\ seen'[q][u].password = "unusable"
                                                /\ op'[q] \notin {"confirm", "request"}
    OBVIOUS
  <2>1. CASE q = s
    <3>1. u \in us /\ Exists(u) /\ seen'[q][u] = users[u] /\ op'[q] = o
      BY <2>1, LoadEffect
    <3> QED
      BY <3>1 DEF Machines, MachineStaysPasswordless
  <2>2. CASE q # s
    <3>1. seen'[q] = seen[q] /\ op'[q] = op[q]
      BY <2>2, LoadEffect
    <3> QED
      BY <3>1 DEF Machines
  <2> QED
    BY <2>1, <2>2
<1> QED
  BY <1>1, <1>2 DEF Machines, MachineStaysPasswordless, Exists

LEMMA ReadMachines ==
    ASSUME TypeInv, Machines, NEW s \in Slots, NEW u \in Users,
           \/ RequestRead(s, u) \/ DisableRead(s, u) \/ EnableRead(s, u) \/ PromoteRead(s, u)
           \/ EditRead(s, u) \/ AnonymizeRead(s, u)
    PROVE  Machines'
<1>1. CASE RequestRead(s, u)
  BY <1>1, LoadMachines DEF RequestRead, ResetEligible, Read, Writes
<1>2. CASE ~RequestRead(s, u)
  <2>1. \E o \in Writes \ {"confirm", "request"} : Load(s, o, {u})
    BY <1>2 DEF DisableRead, EnableRead, PromoteRead, EditRead, AnonymizeRead, Read, Writes
  <2> QED
    BY <2>1, LoadMachines
<1> QED
  BY <1>1, <1>2

LEMMA ConfirmReadMachines ==
    ASSUME TypeInv, Machines, NEW s \in Slots, NEW t \in Tokens, ConfirmRead(s, t) PROVE Machines'
<1> DEFINE u == tokens[t].user
<1>1. tokens[t] \in TokenRow /\ tokens[t] # NoRow /\ Load(s, "confirm", {u})
  BY DEF ConfirmRead, Consumable, TypeInv, TypeOK
<1>2. u \in Users
  BY <1>1 DEF TokenRow
<1>3. Exists(u) /\ ~users[u].machine
  BY <1>1 DEF Load, Machines
<1> QED
  BY <1>1, <1>2, <1>3, LoadMachines DEF Writes

LEMMA RetentionReadMachines ==
    ASSUME TypeInv, Machines, NEW s \in Slots, RetentionRead(s) PROVE Machines'
<1>1. \E us \in SUBSET Users : Load(s, "retention", us)
  BY DEF RetentionRead
<1> QED
  BY <1>1, LoadMachines DEF Writes

(* The end of an operation that leaves machine accounts what they were.     *)
LEMMA DoneMachines ==
    ASSUME TypeInv, Machines, NEW s \in Slots, Done(s),
           \A u \in Users : /\ users[u] # NoRow => users'[u] # NoRow
                            /\ Exists(u)' => Exists(u) /\ users'[u].machine = users[u].machine
                            /\ Exists(u)' /\ users[u].machine => users'[u].password = "unusable",
           \A t \in Tokens : tokens'[t] # NoRow =>
              \/ tokens[t] # NoRow /\ tokens'[t].user = tokens[t].user
              \/ \E u \in DOMAIN seen[s] : tokens'[t].user = u /\ ~seen[s][u].machine
    PROVE  Machines'
<1>1. MachineStaysPasswordless'
  BY DEF MachineStaysPasswordless
<1>2. \A q \in Slots : DOMAIN seen[q] \subseteq Users
  BY SeenRows DEF TypeInv
<1>3. ASSUME NEW t \in Tokens, tokens'[t] # NoRow
      PROVE  users'[tokens'[t].user] # NoRow /\ (Exists(tokens[t].user)' => ~users'[tokens'[t].user].machine)
  <2>1. CASE tokens[t] # NoRow /\ tokens'[t].user = tokens[t].user
    <3>1. tokens[t].user \in Users
      BY <2>1 DEF TypeInv, TypeOK, TokenRow
    <3> QED
      BY <2>1, <3>1 DEF Machines, Exists
  <2>2. CASE \E u \in DOMAIN seen[s] : tokens'[t].user = u /\ ~seen[s][u].machine
    <3>1. PICK u \in DOMAIN seen[s] : tokens'[t].user = u /\ ~seen[s][u].machine
      BY <2>2
    <3>2. u \in Users /\ users[u] # NoRow
      BY <1>2 DEF TypeInv, Control
    <3>3. Exists(u) => ~users[u].machine
      BY <3>1 DEF Machines
    <3> QED
      BY <3>1, <3>2, <3>3 DEF Exists
  <2> QED
    BY <1>3, <2>1, <2>2
<1>4. ASSUME NEW q \in Slots, NEW u \in DOMAIN seen'[q]
      PROVE  /\ Exists(u)' => users'[u].machine = seen'[q][u].machine
             /\ seen'[q][u].machine => /\ seen'[q][u].password = "unusable"
                                       /\ op'[q] \notin {"confirm", "request"}
  <2>1. q # s /\ seen'[q] = seen[q] /\ op'[q] = op[q]
    BY <1>4, DoneEffect
  <2>2. u \in Users /\ u \in DOMAIN seen[q]
    BY <1>2, <1>4, <2>1
  <2> QED
    BY <2>1, <2>2 DEF Machines, Exists
<1> QED
  BY <1>1, <1>3, <1>4 DEF Machines, Exists

LEMMA CommitMachines ==
    ASSUME TypeInv, Machines, NEW s \in Slots, Commit(s) PROVE Machines'
<1>1. Done(s) /\ MarkUsed(s)
  BY DEF Commit
<1>2. ASSUME NEW u \in Users
      PROVE  /\ users[u] # NoRow => users'[u] # NoRow
             /\ Exists(u)' => Exists(u) /\ users'[u].machine = users[u].machine
             /\ Exists(u)' /\ users[u].machine => users'[u].password = "unusable"
  <2>1. CASE u \in DOMAIN seen[s]
    <3>1. /\ users[u] \in UserRow /\ users'[u] \in UserRow /\ users'[u].machine = users[u].machine
          /\ op[s] # "confirm" =>
                 users'[u].password \in {users[u].password, seen[s][u].password, "unusable"}
      BY <2>1, CommitRow DEF TypeInv
    <3>2. Exists(u)
      BY <3>1, ExistsRow DEF TypeInv
    <3>3. users[u].machine => /\ op[s] # "confirm" /\ users[u].password = "unusable"
                              /\ seen[s][u].password = "unusable"
      BY <2>1, <3>2 DEF Machines, MachineStaysPasswordless
    <3> QED
      BY <3>1, <3>2, <3>3, NothingAssumption
  <2>2. CASE u \notin DOMAIN seen[s]
    BY <2>2, CommitOthers DEF TypeInv, Machines, MachineStaysPasswordless, Exists
  <2> QED
    BY <2>1, <2>2
<1>3. \A t \in Tokens : tokens'[t] # NoRow => tokens[t] # NoRow /\ tokens'[t].user = tokens[t].user
  BY <1>1, MarkUsedEffect
<1> QED
  BY <1>1, <1>2, <1>3, DoneMachines

LEMMA RequestCommitMachines ==
    ASSUME TypeInv, Machines, NEW s \in Slots, RequestCommit(s) PROVE Machines'
<1>1. PICK t \in Tokens, u \in DOMAIN seen[s] : AddToken(t, u, ResetDays, FALSE)
  BY DEF RequestCommit
<1>2. u \in Users /\ ResetDays \in Nat /\ seen[s][u] \in UserRow
  BY SeenRows, AccountsAssumption DEF TypeInv
<1>3. tokens'[t].user = u /\ \A x \in Tokens \ {t} : tokens'[x] = tokens[x]
  BY <1>1, <1>2, AddTokenType
<1>4. ~seen[s][u].machine
  BY DEF RequestCommit, Machines
<1>5. \A v \in Users : Exists(v)' /\ users[v].machine => users'[v].password = "unusable"
  BY DEF RequestCommit, Exists, Machines, MachineStaysPasswordless
<1> QED
  BY <1>3, <1>4, <1>5, DoneMachines DEF RequestCommit, Exists

LEMMA MachinesStep == TypeInv /\ Machines /\ [Next]_vars => Machines'
<1> SUFFICES ASSUME TypeInv, Machines, [Next]_vars PROVE Machines'
  OBVIOUS
<1>1. CASE UNCHANGED <<users, tokens, op, seen>>
  BY <1>1 DEF Machines, MachineStaysPasswordless, Exists
<1>2. ASSUME NEW s \in Slots, Rollback(s) PROVE Machines'
  BY <1>2, DoneMachines DEF Rollback, Exists, Machines, MachineStaysPasswordless
<1>3. ASSUME NEW u \in Users, DeleteServiceAccount(u) PROVE Machines'
  <2>1. users' = [users EXCEPT ![u] = GoneRow] /\ UNCHANGED <<tokens, op, seen>>
    BY <1>3 DEF DeleteServiceAccount, slotVars
  <2>2. users'[u] = GoneRow /\ \A v \in Users \ {u} : users'[v] = users[v]
    BY <2>1 DEF TypeInv, TypeOK
  <2>3. \A t \in Tokens : tokens[t] # NoRow => tokens[t].user \in Users
    BY DEF TypeInv, TypeOK, TokenRow
  <2>4. \A q \in Slots : DOMAIN seen[q] \subseteq Users
    BY SeenRows DEF TypeInv
  <2>5. \A v \in Users : Exists(v)' => v # u /\ Exists(v) /\ users'[v] = users[v]
    BY <2>2 DEF Exists
  <2>6. GoneRow # NoRow
    BY NothingAssumption
  <2> QED
    BY <2>1, <2>2, <2>3, <2>4, <2>5, <2>6 DEF Machines, MachineStaysPasswordless
<1>4. NextDay \/ UNCHANGED vars => UNCHANGED <<users, tokens, op, seen>>
  BY DEF NextDay, vars, slotVars
<1> QED
  BY <1>1, <1>2, <1>3, <1>4, CreateMachines, ReadMachines, ConfirmReadMachines, RetentionReadMachines,
     RequestCommitMachines, CommitMachines DEF Next, Step

-----------------------------------------------------------------------------
(* Theorems *)

LEMMA HistoryInit == Init => Machines
<1>1. DOMAIN NoRows = {}
  BY DEF NoRows
<1> QED
  BY <1>1 DEF Init, Machines, MachineStaysPasswordless, Exists

(* Rows, tokens and operations in flight keep their types: the merge of a   *)
(* stale copy into a row gives a row again.                                 *)
THEOREM TypeCorrect == Spec => []TypeOK
<1>1. TypeInv => TypeOK
  BY DEF TypeInv
<1> QED
  BY <1>1, TypeInvInit, TypeInvStep, PTL DEF Spec

(* However many operations on a row overlap, a service account never gets a *)
(* password.                                                                *)
THEOREM MachineStaysPasswordlessHolds == Spec => []MachineStaysPasswordless
<1>1. Machines => MachineStaysPasswordless
  BY DEF Machines
<1> QED
  BY <1>1, TypeInvInit, HistoryInit, TypeInvStep, MachinesStep, PTL DEF Spec
=============================================================================
