---------------------------- MODULE AdminProofs ----------------------------
(***************************************************************************)
(* Proofs about what tenant staff do with the admin: the generic write     *)
(* routes with their audit rows and lists (Crud), and roles and members    *)
(* (Rbac).  For any admins, callers, people, roles, keys, numbers of rows  *)
(* and of requests in flight.                                              *)
(***************************************************************************)
EXTENDS Crud, Rbac, FiniteSetTheorems, TLAPS

-----------------------------------------------------------------------------
(* The write routes: the inductive invariant *)

MadeBy(x) == {i \in 1..Len(rows) : rows[i].by = x}

WrittenBy(x) == {i \in 1..Len(rows) : x \in {rows[i].by, rows[i].gone}}

(* Requests in flight are distinct, have been opened and have not          *)
(* committed; what is there of a request is of one that has been opened.   *)
Numbered ==
    /\ 0 \in committed
    /\ \A s \in Slots : req[s] # NoReq => req[s].xid \in (1..Len(opened)) \ committed
    /\ \A s, o \in Slots : req[s] # NoReq /\ req[o] # NoReq /\ req[s].xid = req[o].xid => s = o
    /\ \A i \in 1..Len(rows) : /\ rows[i].by \in (0..Len(opened)) \cup {Void}
                               /\ rows[i].gone \in 0..Len(opened)
    /\ \A x \in 1..Len(opened) : opened[x] \subseteq committed \ {x}

(* What a handler has done by the place where it is. *)
InPlace(s) ==
    /\ req[s].table # "lines"
    /\ req[s].dry => req[s].act = "import"
    /\ req[s].act = "import" => req[s].locks = {}
    /\ req[s].act = "update" => req[s].target # 0
    /\ req[s].act # "create" => opened[req[s].xid] = {}
    /\ req[s].pc \in {"load", "parent"} => req[s].made = 0
    /\ req[s].pc = "audit" => ~req[s].dry
    /\ req[s].logged => req[s].pc = "commit" /\ ~req[s].dry
    /\ req[s].pc = "commit" /\ ~req[s].logged /\ ~req[s].dry => req[s].xid \in missed

DryRunOver(s) == req[s].dry /\ req[s].pc = "commit"

(* It knows how many rows it has made; at first there is nothing of it,    *)
(* and of a dry run that is over there is nothing left.                    *)
Counted(s) ==
    /\ DryRunOver(s) \/ req[s].pc \in {"load", "parent"} => WrittenBy(req[s].xid) = {}
    /\ ~DryRunOver(s) => req[s].made = Cardinality(MadeBy(req[s].xid))

(* Of the rows that had been committed when x was opened none is left.     *)
NoneBefore(x, table) ==
    \A i \in 1..Len(rows) :
        rows[i].table = table /\ rows[i].by \in opened[x] => rows[i].gone \in committed \ {0}

(* That is so for every create of a singleton that has looked, and for     *)
(* whatever row it has made.                                               *)
Looked(s) ==
    \A adm \in Admins :
        SingletonRule(adm) /\ req[s].table = adm.name /\ req[s].act = "create" /\ req[s].pc # "load"
            => NoneBefore(req[s].xid, adm.name)

MadeAfterLooking ==
    \A adm \in Admins, j \in 1..Len(rows) :
        SingletonRule(adm) /\ rows[j].table = adm.name /\ rows[j].by \in 1..Len(opened)
            => NoneBefore(rows[j].by, adm.name)

CrudInv ==
    /\ TypeOK
    /\ Numbered
    /\ \A s \in Slots : req[s] # NoReq => InPlace(s) /\ Counted(s) /\ Looked(s)
    /\ AuditTellsTruth
    /\ MadeAfterLooking

-----------------------------------------------------------------------------
(* What a transaction may do to the rows *)

(* Rows are added, deleted where no committed request has deleted them, or *)
(* taken back, and all of it under the number of the request.              *)
RowsMove(x) ==
    /\ rows' \in Seq(Row) /\ Len(rows) <= Len(rows') /\ Len(rows') <= MaxRows
    /\ \A i \in 1..Len(rows) :
         /\ rows'[i].table = rows[i].table
         /\ rows'[i].by = rows[i].by \/ (rows[i].by = x /\ rows'[i].by = Void)
         /\ \/ rows'[i].gone = rows[i].gone
            \/ rows'[i].gone = x /\ rows[i].gone \notin committed \ {0}
            \/ rows[i].gone = x /\ rows'[i].gone = 0
    /\ \A i \in (Len(rows) + 1)..Len(rows') : rows'[i].by = x /\ rows'[i].gone = 0

LEMMA RowFacts ==
    ASSUME CrudAssumption, TypeOK, NEW i \in 1..Len(rows)
    PROVE  /\ rows[i] \in Row /\ rows[i].table \in Tables /\ rows[i].parent \in 0..MaxRows
           /\ rows[i].by \in 0..Void /\ rows[i].gone \in 0..MaxRequests
           /\ rows[i].system \in BOOLEAN
<1>1. rows[i] \in Row
  BY DEF TypeOK
<1> QED
  BY <1>1 DEF Row

LEMMA Bounds ==
    ASSUME CrudAssumption, CrudInv
    PROVE  /\ Len(rows) \in Nat /\ Len(opened) \in Nat /\ MaxRows \in Nat /\ MaxRequests \in Nat
           /\ Len(rows) <= MaxRows /\ Len(opened) <= MaxRequests
           /\ committed \subseteq 0..Len(opened)
BY DEF CrudAssumption, CrudInv, TypeOK

LEMMA LengthsMove ==
    ASSUME CrudAssumption, CrudInv, NEW x, RowsMove(x)
    PROVE  Len(rows) \in Nat /\ Len(rows') \in Nat /\ Len(rows) <= Len(rows') /\ Len(rows') <= MaxRows
<1>1. rows' \in Seq(Row) /\ Len(rows) <= Len(rows') /\ Len(rows') <= MaxRows
  BY DEF RowsMove
<1> QED
  BY <1>1, Bounds

LEMMA NoVoid ==
    ASSUME CrudAssumption, CrudInv
    PROVE  Void \notin committed /\ (\A y \in 0..Len(opened) : y # Void)
<1>1. /\ Len(opened) \in Nat /\ MaxRequests \in Nat /\ Len(opened) <= MaxRequests
      /\ committed \subseteq 0..Len(opened)
  BY Bounds
<1>2. \A y \in 0..Len(opened) : y # Void
  BY <1>1 DEF Void
<1>3. Void \notin 0..Len(opened)
  BY <1>2
<1> QED
  BY <1>1, <1>2, <1>3

LEMMA SameMakers ==
    ASSUME CrudAssumption, CrudInv, NEW x \in 1..Len(opened), RowsMove(x),
           NEW y \in 0..Len(opened), y # x
    PROVE  MadeBy(y)' = MadeBy(y)
<1>1. y # Void /\ Len(rows) \in Nat /\ Len(rows') \in Nat /\ Len(rows) <= Len(rows')
  BY NoVoid, LengthsMove
<1>2. ASSUME NEW i \in 1..Len(rows') PROVE rows'[i].by = y <=> i \in 1..Len(rows) /\ rows[i].by = y
  <2>1. CASE i \in 1..Len(rows)
    BY <1>1, <2>1 DEF RowsMove
  <2>2. CASE i \notin 1..Len(rows)
    BY <1>1, <2>2 DEF RowsMove
  <2> QED
    BY <2>1, <2>2
<1> QED
  BY <1>1, <1>2 DEF MadeBy

LEMMA NoNewTraces ==
    ASSUME CrudAssumption, CrudInv, NEW x \in 1..Len(opened), RowsMove(x),
           NEW y \in 1..Len(opened), y # x
    PROVE  WrittenBy(y)' \subseteq WrittenBy(y)
<1>1. y # Void /\ y # 0 /\ Len(rows) \in Nat /\ Len(rows') \in Nat /\ Len(rows) <= Len(rows')
  <2>1. y \in 0..Len(opened) /\ y # 0
    BY Bounds
  <2> QED
    BY <2>1, NoVoid, LengthsMove
<1>2. ASSUME NEW i \in 1..Len(rows'), rows'[i].by = y \/ rows'[i].gone = y
      PROVE  i \in 1..Len(rows) /\ (rows[i].by = y \/ rows[i].gone = y)
  <2>1. CASE i \in 1..Len(rows)
    BY <1>1, <1>2, <2>1 DEF RowsMove
  <2>2. CASE i \notin 1..Len(rows)
    BY <1>1, <1>2, <2>2 DEF RowsMove
  <2> QED
    BY <2>1, <2>2
<1> QED
  BY <1>2 DEF WrittenBy

LEMMA StillNoneBefore ==
    ASSUME CrudAssumption, CrudInv, NEW x \in (1..Len(opened)) \ committed, RowsMove(x),
           UNCHANGED <<committed, opened>>, NEW y \in 1..Len(opened), NEW table, NoneBefore(y, table)
    PROVE  NoneBefore(y, table)'
<1>1. /\ Len(rows) \in Nat /\ Len(rows') \in Nat /\ Len(rows) <= Len(rows')
      /\ opened[y] \subseteq committed /\ Void \notin committed
  BY NoVoid, LengthsMove DEF CrudInv, Numbered
<1> SUFFICES ASSUME NEW i \in 1..Len(rows'), rows'[i].table = table, rows'[i].by \in opened[y]
             PROVE  rows'[i].gone \in committed \ {0}
  BY DEF NoneBefore
<1>2. i \in 1..Len(rows)
  BY <1>1 DEF RowsMove
<1>3. rows[i].table = table /\ rows[i].by = rows'[i].by
  BY <1>1, <1>2 DEF RowsMove
<1>4. rows[i].gone \in committed \ {0}
  BY <1>2, <1>3 DEF NoneBefore
<1> QED
  BY <1>2, <1>4 DEF RowsMove

-----------------------------------------------------------------------------
(* A step of one handler leaves the other requests as they were. *)

LEMMA Aloft ==
    ASSUME CrudAssumption, CrudInv, NEW s \in Slots, req[s] # NoReq
    PROVE  /\ req[s] \in Request
           /\ req[s].xid \in 1..Len(opened) /\ req[s].xid \notin committed
           /\ InPlace(s) /\ Counted(s) /\ Looked(s)
BY DEF CrudInv, TypeOK, Numbered

LEMMA HandlerNumbers ==
    ASSUME CrudAssumption, CrudInv, NEW s \in Slots, req[s] # NoReq,
           UNCHANGED <<committed, opened>>, RowsMove(req[s].xid),
           \A o \in Slots \ {s} : req'[o] = req[o],
           req'[s] # NoReq => req'[s].xid = req[s].xid
    PROVE  Numbered'
<1> DEFINE x == req[s].xid
<1>1. x \in 1..Len(opened) /\ x \notin committed
  BY Aloft
<1>2. \A o \in Slots : req'[o] # NoReq => req[o] # NoReq /\ req'[o].xid = req[o].xid
  OBVIOUS
<1>3. ASSUME NEW i \in 1..Len(rows')
      PROVE  rows'[i].by \in (0..Len(opened)) \cup {Void} /\ rows'[i].gone \in 0..Len(opened)
  <2>1. Len(rows) \in Nat /\ Len(rows') \in Nat /\ Len(opened) \in Nat /\ x \in 0..Len(opened)
    BY <1>1, LengthsMove, Bounds
  <2>2. CASE i \in 1..Len(rows)
    <3>1. rows[i].by \in (0..Len(opened)) \cup {Void} /\ rows[i].gone \in 0..Len(opened)
      BY <2>2 DEF CrudInv, Numbered
    <3> QED
      BY <2>1, <2>2, <3>1 DEF RowsMove
  <2>3. CASE i \notin 1..Len(rows)
    <3>1. i \in (Len(rows) + 1)..Len(rows')
      BY <2>1, <2>3
    <3>2. rows'[i].by = x /\ rows'[i].gone = 0
      BY <3>1 DEF RowsMove
    <3> QED
      BY <2>1, <3>2
  <2> QED
    BY <2>2, <2>3
<1>4. /\ 0 \in committed'
      /\ \A y \in 1..Len(opened') : opened'[y] \subseteq committed' \ {y}
  BY DEF CrudInv, Numbered
<1>5. \A o \in Slots : req'[o] # NoReq => req'[o].xid \in (1..Len(opened')) \ committed'
  BY <1>2 DEF CrudInv, Numbered
<1>6. \A o, p \in Slots : req'[o] # NoReq /\ req'[p] # NoReq /\ req'[o].xid = req'[p].xid => o = p
  BY <1>2 DEF CrudInv, Numbered
<1>7. \A i \in 1..Len(rows') : /\ rows'[i].by \in (0..Len(opened')) \cup {Void'}
                               /\ rows'[i].gone \in 0..Len(opened')
  BY <1>3 DEF Void
<1> QED
  BY <1>4, <1>5, <1>6, <1>7 DEF Numbered

LEMMA OthersUnmoved ==
    ASSUME CrudAssumption, CrudInv, NEW s \in Slots, req[s] # NoReq,
           UNCHANGED <<committed, opened>>, missed \subseteq missed', RowsMove(req[s].xid),
           NEW o \in Slots \ {s}, req'[o] = req[o], req[o] # NoReq
    PROVE  InPlace(o)' /\ Counted(o)' /\ Looked(o)'
<1> SUFFICES ASSUME NEW x, x = req[s].xid, NEW y, y = req[o].xid
             PROVE  InPlace(o)' /\ Counted(o)' /\ Looked(o)'
  OBVIOUS
<1>1. x \in (1..Len(opened)) \ committed /\ y \in 1..Len(opened) /\ y # x /\ y \in 0..Len(opened)
  <2>1. y # x /\ x \in (1..Len(opened)) \ committed /\ y \in 1..Len(opened)
    BY DEF CrudInv, Numbered
  <2> QED
    BY <2>1, Bounds
<1>2. InPlace(o) /\ Counted(o) /\ Looked(o)
  BY Aloft
<1>3. InPlace(o)'
  BY <1>2 DEF InPlace
<1>4. Counted(o)'
  <2>1. MadeBy(y)' = MadeBy(y)
    BY <1>1, SameMakers
  <2>2. WrittenBy(y)' \subseteq WrittenBy(y)
    BY <1>1, NoNewTraces
  <2>3. Counted(o)' <=>
          /\ DryRunOver(o) \/ req[o].pc \in {"load", "parent"} => WrittenBy(y)' = {}
          /\ ~DryRunOver(o) => req[o].made = Cardinality(MadeBy(y)')
    BY DEF Counted, DryRunOver, MadeBy, WrittenBy
  <2>4. /\ DryRunOver(o) \/ req[o].pc \in {"load", "parent"} => WrittenBy(y) = {}
        /\ ~DryRunOver(o) => req[o].made = Cardinality(MadeBy(y))
    BY <1>2 DEF Counted
  <2> QED
    BY <2>1, <2>2, <2>3, <2>4
<1>5. Looked(o)'
  <2> SUFFICES ASSUME NEW adm \in Admins, SingletonRule(adm), req[o].table = adm.name,
                      req[o].act = "create", req[o].pc # "load"
               PROVE  NoneBefore(y, adm.name)'
    BY DEF Looked, NoneBefore
  <2>1. NoneBefore(y, adm.name)
    BY <1>2 DEF Looked
  <2> QED
    BY <1>1, <2>1, StillNoneBefore
<1> QED
  BY <1>3, <1>4, <1>5

LEMMA HandlerAudit ==
    ASSUME CrudAssumption, CrudInv, NEW s \in Slots, req[s] # NoReq,
           UNCHANGED <<committed, log>>, RowsMove(req[s].xid)
    PROVE  AuditTellsTruth'
<1> SUFFICES ASSUME NEW e \in log
             PROVE  e.xid \in committed /\ e.made = Cardinality({i \in 1..Len(rows') : rows'[i].by = e.xid})
  BY DEF AuditTellsTruth
<1>1. e.xid \in committed /\ e.made = Cardinality(MadeBy(e.xid))
  BY DEF CrudInv, AuditTellsTruth, MadeBy
<1>2. /\ req[s].xid \in 1..Len(opened) /\ e.xid \in 0..Len(opened) /\ e.xid # req[s].xid
  BY <1>1, Aloft, Bounds
<1>3. {i \in 1..Len(rows') : rows'[i].by = e.xid} = MadeBy(e.xid)
  BY <1>2, SameMakers DEF MadeBy
<1> QED
  BY <1>1, <1>3

LEMMA HandlerStep ==
    ASSUME CrudAssumption, CrudInv, NEW s \in Slots, req[s] # NoReq,
           UNCHANGED <<committed, log, opened>>,
           missed \subseteq missed', missed' \subseteq 1..Len(opened), RowsMove(req[s].xid),
           req' \in [Slots -> Request \cup {NoReq}],
           \A o \in Slots \ {s} : req'[o] = req[o],
           req'[s] # NoReq => req'[s].xid = req[s].xid /\ InPlace(s)' /\ Counted(s)' /\ Looked(s)',
           \A adm \in Admins, j \in (Len(rows) + 1)..Len(rows') :
              SingletonRule(adm) /\ rows'[j].table = adm.name => NoneBefore(req[s].xid, adm.name)
    PROVE  CrudInv'
<1> DEFINE x == req[s].xid
<1>1. x \in (1..Len(opened)) \ committed
  BY Aloft
<1>2. TypeOK'
  <2>1. rows' \in Seq(Row) /\ Len(rows') <= MaxRows
    BY DEF RowsMove
  <2> QED
    BY <2>1 DEF CrudInv, TypeOK
<1>3. Numbered'
  BY HandlerNumbers
<1>4. \A o \in Slots : req'[o] # NoReq => InPlace(o)' /\ Counted(o)' /\ Looked(o)'
  BY OthersUnmoved
<1>5. AuditTellsTruth'
  BY HandlerAudit
<1>6. MadeAfterLooking'
  <2> SUFFICES ASSUME NEW adm \in Admins, NEW j \in 1..Len(rows'), SingletonRule(adm),
                      rows'[j].table = adm.name, NEW y \in 1..Len(opened), rows'[j].by = y
               PROVE  NoneBefore(y, adm.name)'
    BY DEF MadeAfterLooking, NoneBefore, SingletonRule
  <2>1. Len(rows) \in Nat /\ Len(rows') \in Nat /\ y # Void
    <3>1. y \in 0..Len(opened)
      BY Bounds
    <3> QED
      BY <3>1, LengthsMove, NoVoid
  <2>2. NoneBefore(y, adm.name)
    <3>1. CASE j \in 1..Len(rows)
      <4>1. rows[j].table = adm.name /\ rows[j].by = y
        BY <2>1, <3>1 DEF RowsMove
      <4> QED
        BY <3>1, <4>1 DEF CrudInv, MadeAfterLooking
    <3>2. CASE j \notin 1..Len(rows)
      <4>1. j \in (Len(rows) + 1)..Len(rows')
        BY <2>1, <3>2
      <4> QED
        BY <4>1 DEF RowsMove
    <3> QED
      BY <3>1, <3>2
  <2> QED
    BY <1>1, <2>2, StillNoneBefore
<1> QED
  BY <1>2, <1>3, <1>4, <1>5, <1>6 DEF CrudInv

-----------------------------------------------------------------------------
(* The statements *)

LEMMA Unmoved ==
    ASSUME CrudAssumption, CrudInv, UNCHANGED rows, NEW x
    PROVE  RowsMove(x) /\ MadeBy(x)' = MadeBy(x) /\ WrittenBy(x)' = WrittenBy(x)
<1>1. Len(rows) \in Nat /\ Len(rows) <= MaxRows /\ rows \in Seq(Row)
  BY Bounds DEF CrudInv, TypeOK
<1> QED
  BY <1>1 DEF RowsMove, MadeBy, WrittenBy

LEMMA MadeByFinite ==
    ASSUME CrudAssumption, CrudInv, NEW x
    PROVE  /\ IsFiniteSet(MadeBy(x)) /\ Cardinality(MadeBy(x)) \in Nat
           /\ Cardinality(MadeBy(x)) <= Len(rows)
<1>1. Len(rows) \in Nat /\ 1 \in Int
  BY Bounds
<1>2. IsFiniteSet(1..Len(rows)) /\ Cardinality(1..Len(rows)) = Len(rows)
  <2>1. IsFiniteSet(1..Len(rows)) /\ Cardinality(1..Len(rows)) = IF 1 > Len(rows) THEN 0 ELSE Len(rows) - 1 + 1
    BY <1>1, FS_Interval
  <2> QED
    BY <1>1, <2>1
<1>3. MadeBy(x) \subseteq 1..Len(rows)
  BY DEF MadeBy
<1>4. IsFiniteSet(MadeBy(x)) /\ Cardinality(MadeBy(x)) <= Cardinality(1..Len(rows))
  BY <1>2, <1>3, FS_Subset
<1> QED
  BY <1>2, <1>4, FS_CardinalityType

LEMMA Appended ==
    ASSUME NEW S, NEW q \in Seq(S), NEW e \in S
    PROVE  /\ Append(q, e) \in Seq(S) /\ Len(Append(q, e)) = Len(q) + 1
           /\ Append(q, e)[Len(q) + 1] = e
           /\ \A i \in 1..Len(q) : Append(q, e)[i] = q[i]
OBVIOUS

LEMMA Inserted ==
    ASSUME CrudAssumption, CrudInv, NEW table \in Tables, NEW parent \in 0..MaxRows,
           NEW x \in 1..Len(opened), Insert(table, parent, x)
    PROVE  /\ RowsMove(x) /\ Len(rows') = Len(rows) + 1 /\ Len(rows) + 1 \in Ids
           /\ rows'[Len(rows) + 1].table = table
           /\ MadeBy(x)' = MadeBy(x) \cup {Len(rows) + 1}
           /\ Cardinality(MadeBy(x)') = Cardinality(MadeBy(x)) + 1
           /\ Cardinality(MadeBy(x)) + 1 \in 0..MaxRows
<1> DEFINE r == NewRow(table, parent, x, FALSE)
           n == Len(rows)
<1>1. /\ n \in Nat /\ n < MaxRows /\ MaxRows \in Nat /\ rows \in Seq(Row) /\ rows' = Append(rows, r)
      /\ x \in 0..Void /\ 0 \in 0..MaxRequests
  <2>1. /\ n \in Nat /\ MaxRows \in Nat /\ Len(opened) \in Nat /\ MaxRequests \in Nat
        /\ Len(opened) <= MaxRequests
    BY Bounds
  <2>2. x \in 0..Void /\ 0 \in 0..MaxRequests
    BY <2>1 DEF Void
  <2> QED
    BY <2>1, <2>2 DEF Insert, CrudInv, TypeOK
<1>2. r \in Row /\ r.table = table /\ r.by = x /\ r.gone = 0
  BY <1>1 DEF NewRow, Row
<1> HIDE DEF r
<1>3. /\ rows' \in Seq(Row) /\ Len(rows') = n + 1 /\ rows'[n + 1] = r
      /\ \A i \in 1..n : rows'[i] = rows[i]
  BY <1>1, <1>2, Appended
<1>4. RowsMove(x)
  <2>1. \A i \in (n + 1)..Len(rows') : rows'[i].by = x /\ rows'[i].gone = 0
    BY <1>1, <1>2, <1>3
  <2> QED
    BY <1>1, <1>3, <2>1 DEF RowsMove
<1>5. MadeBy(x)' = MadeBy(x) \cup {n + 1} /\ n + 1 \notin MadeBy(x)
  BY <1>1, <1>2, <1>3 DEF MadeBy
<1>6. Cardinality(MadeBy(x)') = Cardinality(MadeBy(x)) + 1
  BY <1>5, MadeByFinite, FS_AddElement
<1>7. Cardinality(MadeBy(x)) + 1 \in 0..MaxRows /\ n + 1 \in Ids
  <2>1. Cardinality(MadeBy(x)) \in Nat /\ Cardinality(MadeBy(x)) <= n
    BY MadeByFinite
  <2> QED
    BY <1>1, <2>1 DEF Ids
<1> QED
  BY <1>2, <1>3, <1>4, <1>5, <1>6, <1>7

LEMMA Deleted ==
    ASSUME CrudAssumption, CrudInv, NEW ids, NEW x \in 1..Len(opened), rows' = Without(ids, x)
    PROVE  RowsMove(x) /\ Len(rows') = Len(rows) /\ MadeBy(x)' = MadeBy(x)
<1>1. Len(rows) \in Nat /\ Len(rows) <= MaxRows /\ x \in 0..MaxRequests
  <2>1. Len(opened) \in Nat /\ Len(opened) <= MaxRequests /\ MaxRequests \in Nat
    BY Bounds
  <2> QED
    BY <2>1, Bounds
<1>2. ASSUME NEW i \in 1..Len(rows)
      PROVE  /\ Without(ids, x)[i] \in Row
             /\ Without(ids, x)[i].table = rows[i].table /\ Without(ids, x)[i].by = rows[i].by
             /\ \/ Without(ids, x)[i].gone = rows[i].gone
                \/ Without(ids, x)[i].gone = x /\ rows[i].gone \notin committed \ {0}
  <2>1. rows[i] \in Row
    BY DEF CrudInv, TypeOK
  <2>2. CASE Without(ids, x)[i] = rows[i]
    BY <2>1, <2>2
  <2>3. CASE Without(ids, x)[i] # rows[i]
    <3>1. Without(ids, x)[i] = [rows[i] EXCEPT !.gone = x] /\ Sees(x, i)
      BY <2>3 DEF Without
    <3>2. rows[i].gone \notin committed \ {0}
      BY <3>1 DEF Sees
    <3> QED
      BY <1>1, <2>1, <3>1, <3>2 DEF Row
  <2> QED
    BY <2>2, <2>3
<1>3. rows' = [i \in 1..Len(rows) |-> Without(ids, x)[i]]
  BY DEF Without
<1>4. rows' \in Seq(Row) /\ Len(rows') = Len(rows) /\ \A i \in 1..Len(rows) : rows'[i] = Without(ids, x)[i]
  BY <1>1, <1>2, <1>3
<1>5. RowsMove(x)
  BY <1>1, <1>2, <1>4 DEF RowsMove
<1>6. MadeBy(x)' = MadeBy(x)
  BY <1>2, <1>4 DEF MadeBy
<1> QED
  BY <1>4, <1>5, <1>6

LEMMA RolledBack ==
    ASSUME CrudAssumption, CrudInv, NEW x \in 1..Len(opened), rows' = TakenBack(x)
    PROVE  RowsMove(x) /\ Len(rows') = Len(rows) /\ WrittenBy(x)' = {}
<1>1. Len(rows) \in Nat /\ Len(rows) <= MaxRows /\ x \in 0..MaxRequests /\ MaxRequests \in Nat /\ x # 0
  BY Bounds
<1>2. x # Void
  BY <1>1 DEF Void
<1>3. ASSUME NEW i \in 1..Len(rows)
      PROVE  /\ TakenBack(x)[i] \in Row
             /\ TakenBack(x)[i].table = rows[i].table
             /\ TakenBack(x)[i].by = IF rows[i].by = x THEN Void ELSE rows[i].by
             /\ TakenBack(x)[i].gone = IF rows[i].gone = x THEN 0 ELSE rows[i].gone
  <2>1. rows[i] \in Row /\ Void \in 0..Void /\ 0 \in 0..MaxRequests
    BY <1>1 DEF CrudInv, TypeOK, Void
  <2>2. TakenBack(x)[i] = [rows[i] EXCEPT !.by = IF rows[i].by = x THEN Void ELSE rows[i].by,
                                          !.gone = IF rows[i].gone = x THEN 0 ELSE rows[i].gone]
    BY DEF TakenBack
  <2> QED
    BY <2>1, <2>2 DEF Row
<1>4. rows' = [i \in 1..Len(rows) |-> TakenBack(x)[i]]
  BY DEF TakenBack
<1>5. rows' \in Seq(Row) /\ Len(rows') = Len(rows) /\ \A i \in 1..Len(rows) : rows'[i] = TakenBack(x)[i]
  BY <1>1, <1>3, <1>4
<1>6. RowsMove(x)
  BY <1>1, <1>3, <1>5 DEF RowsMove
<1>7. WrittenBy(x)' = {}
  BY <1>1, <1>2, <1>3, <1>5 DEF WrittenBy
<1> QED
  BY <1>5, <1>6, <1>7

-----------------------------------------------------------------------------
(* The steps *)

(* What every step of a handler but its last has in common. *)
LEMMA Going ==
    ASSUME TypeOK, NEW s \in Slots, NEW q \in Request, Goto(s, q)
    PROVE  /\ req' \in [Slots -> Request \cup {NoReq}] /\ req'[s] = q
           /\ \A o \in Slots \ {s} : req'[o] = req[o]
BY DEF TypeOK, Goto

LEMMA Fields ==
    ASSUME NEW q \in Request
    PROVE  /\ q.xid \in Xids /\ q.table \in Tables /\ q.left \in 0..MaxBatch /\ q.target \in 0..MaxRows
           /\ q.picked \in SUBSET Ids /\ q.locks \in SUBSET Ids /\ q.made \in 0..MaxRows
           /\ q.dry \in BOOLEAN /\ q.logged \in BOOLEAN
           /\ q.act \in {"create", "update", "delete", "action", "import", "export"}
           /\ q.pc \in {"load", "parent", "rows", "audit", "commit"}
BY DEF Request

LEMMA LoadStep ==
    ASSUME CrudAssumption, CrudInv, NEW s \in Slots, Load(s) PROVE CrudInv'
<1> DEFINE q == req[s]
           seen == Live(q.xid, q.table)
           r == [q EXCEPT !.picked = @ \cap seen,
                          !.pc = CASE q.act = "import" -> "rows"
                                   [] q.act = "export" -> "audit"
                                   [] OTHER -> "parent"]
<1>1. /\ q # NoReq /\ q.pc = "load" /\ Look(AdminOf(q.table), q.act, seen) /\ Goto(s, r)
      /\ UNCHANGED <<rows, committed, log, missed, opened>>
  BY DEF Load
<1>2. /\ q \in Request /\ q.xid \in 1..Len(opened) /\ q.xid \notin committed
      /\ InPlace(s) /\ Counted(s)
  BY <1>1, Aloft
<1>3. r \in Request /\ r.xid = q.xid /\ r.act = q.act /\ r.table = q.table /\ r.dry = q.dry
      /\ r.target = q.target /\ r.made = q.made /\ r.locks = q.locks /\ r.logged = q.logged
      /\ r.pc \in {"rows", "audit", "parent"} /\ (r.pc = "audit" => q.act # "import")
  BY <1>2 DEF Request
<1>4. /\ req' \in [Slots -> Request \cup {NoReq}] /\ req'[s] = r
      /\ \A o \in Slots \ {s} : req'[o] = req[o]
  <2> HIDE DEF r
  <2> QED
    BY <1>1, <1>3, Going DEF CrudInv
<1>5. RowsMove(q.xid)
  BY <1>1, Unmoved
<1>6. InPlace(s)'
  <2> HIDE DEF r
  <2> QED
    BY <1>1, <1>2, <1>3, <1>4 DEF InPlace
<1>7. Counted(s)'
  <2> HIDE DEF r
  <2> QED
    BY <1>1, <1>2, <1>3, <1>4 DEF Counted, DryRunOver, MadeBy, WrittenBy
<1>8. Looked(s)'
  <2> SUFFICES ASSUME NEW adm \in Admins, SingletonRule(adm), q.table = adm.name, q.act = "create"
               PROVE  NoneBefore(q.xid, adm.name)
    BY <1>1, <1>3, <1>4 DEF Looked, NoneBefore
  <2>1. AdminOf(q.table) = adm
    BY DEF AdminOf, CrudAssumption
  <2>2. seen = {}
    BY <1>1, <2>1 DEF Look
  <2> SUFFICES ASSUME NEW i \in 1..Len(rows), rows[i].table = adm.name, rows[i].by \in opened[q.xid]
               PROVE  rows[i].gone \in committed \ {0}
    BY DEF NoneBefore
  <2>3. rows[i].by \in committed
    BY <1>2 DEF CrudInv, Numbered
  <2>4. ~Sees(q.xid, i)
    BY <2>2 DEF Live
  <2>5. rows[i].gone # 0 /\ rows[i].gone \in committed \cup {q.xid}
    BY <2>3, <2>4 DEF Sees
  <2>6. rows[i].gone # q.xid
    BY <1>1, <1>2 DEF Counted, WrittenBy
  <2> QED
    BY <2>5, <2>6
<1>9. \A j \in (Len(rows) + 1)..Len(rows') : FALSE
  BY <1>1, Bounds
<1> QED
  <2> HIDE DEF r
  <2> QED
    BY <1>1, <1>3, <1>4, <1>5, <1>6, <1>7, <1>8, <1>9, HandlerStep DEF CrudInv, TypeOK

(* A create makes its row. *)
LEMMA ParentCreate ==
    ASSUME CrudAssumption, CrudInv, NEW s \in Slots, req[s] # NoReq, req[s].pc = "parent",
           req[s].act = "create", Insert(req[s].table, 0, req[s].xid),
           Goto(s, [req[s] EXCEPT !.target = Len(rows) + 1, !.locks = {Len(rows) + 1},
                                  !.made = 1, !.pc = "rows"]),
           UNCHANGED <<committed, log, missed, opened>>
    PROVE  CrudInv'
<1> DEFINE q == req[s]
           n == Len(rows) + 1
           r == [q EXCEPT !.target = n, !.locks = {n}, !.made = 1, !.pc = "rows"]
<1>1. /\ q \in Request /\ q.xid \in 1..Len(opened) /\ q.xid \notin committed
      /\ InPlace(s) /\ Counted(s) /\ Looked(s)
  BY Aloft
<1>2. q.table \in Tables /\ 0 \in 0..MaxRows
  BY <1>1, Bounds, Fields
<1> SUFFICES ASSUME NEW x \in 1..Len(opened), x = q.xid PROVE CrudInv'
  BY <1>1
<1>3. /\ RowsMove(x) /\ Len(rows') = n /\ n \in Ids
      /\ MadeBy(x)' = MadeBy(x) \cup {n}
      /\ Cardinality(MadeBy(x)') = Cardinality(MadeBy(x)) + 1
      /\ Cardinality(MadeBy(x)) + 1 \in 0..MaxRows
  BY <1>2, Inserted
<1>4. Cardinality(MadeBy(x)) = 0 /\ ~q.dry
  <2>1. ~DryRunOver(s) /\ q.made = 0 /\ ~q.dry
    BY <1>1 DEF DryRunOver, InPlace
  <2> QED
    BY <1>1, <2>1 DEF Counted
<1>5. /\ r \in Request /\ r.xid = x /\ r.act = q.act /\ r.table = q.table /\ r.dry = q.dry
      /\ r.made = 1 /\ r.logged = q.logged /\ r.pc = "rows"
  <2>1. n \in Ids /\ n \in 0..MaxRows /\ 1 \in 0..MaxRows
    BY <1>3, <1>4 DEF Ids
  <2> HIDE DEF n
  <2> QED
    BY <1>1, <2>1 DEF Request
<1>6. Goto(s, r)
  OBVIOUS
<1> HIDE DEF r
<1>7. /\ req' \in [Slots -> Request \cup {NoReq}] /\ req'[s] = r
      /\ \A o \in Slots \ {s} : req'[o] = req[o]
  BY <1>5, <1>6, Going DEF CrudInv
<1>8. InPlace(s)'
  BY <1>1, <1>4, <1>5, <1>7 DEF InPlace
<1>9. Counted(s)'
  <2>1. Counted(s)' <=> /\ DryRunOver(s)' \/ r.pc \in {"load", "parent"} => WrittenBy(x)' = {}
                        /\ ~DryRunOver(s)' => r.made = Cardinality(MadeBy(x)')
    BY <1>5, <1>7 DEF Counted, WrittenBy, MadeBy
  <2>2. ~DryRunOver(s)'
    BY <1>5, <1>7 DEF DryRunOver
  <2> QED
    BY <1>3, <1>4, <1>5, <2>1, <2>2
<1>10. \A adm \in Admins : SingletonRule(adm) /\ q.table = adm.name => NoneBefore(x, adm.name)
  BY <1>1 DEF Looked
<1>11. Looked(s)'
  <2> SUFFICES ASSUME NEW adm \in Admins, SingletonRule(adm), q.table = adm.name
               PROVE  NoneBefore(x, adm.name)'
    BY <1>5, <1>7 DEF Looked, NoneBefore
  <2>1. NoneBefore(x, adm.name) /\ x \in (1..Len(opened)) \ committed
    BY <1>1, <1>10
  <2> QED
    BY <1>3, <2>1, StillNoneBefore
<1>12. \A adm \in Admins, j \in (Len(rows) + 1)..Len(rows') :
          SingletonRule(adm) /\ rows'[j].table = adm.name => NoneBefore(x, adm.name)
  <2>1. \A j \in (Len(rows) + 1)..Len(rows') : rows'[j].table = q.table
    <3>1. rows'[n].table = q.table
      BY <1>2, Inserted
    <3> QED
      BY <1>3, <3>1, Bounds
  <2> QED
    BY <1>10, <2>1
<1> QED
  BY <1>3, <1>5, <1>7, <1>8, <1>9, <1>11, <1>12, HandlerStep DEF CrudInv, TypeOK

(* A step of a handler that does not insert. *)
LEMMA MovesOn ==
    ASSUME CrudAssumption, CrudInv, NEW s \in Slots, req[s] # NoReq, req[s].pc # "load",
           NEW x \in 1..Len(opened), x = req[s].xid,
           NEW r \in Request, Goto(s, r), UNCHANGED <<committed, log, opened>>,
           missed \subseteq missed', missed' \subseteq 1..Len(opened),
           RowsMove(x), Len(rows') = Len(rows),
           r.xid = x, r.act = req[s].act, r.table = req[s].table, r.dry = req[s].dry,
           InPlace(s)', Counted(s)'
    PROVE  CrudInv'
<1>1. /\ req' \in [Slots -> Request \cup {NoReq}] /\ req'[s] = r
      /\ \A o \in Slots \ {s} : req'[o] = req[o]
  BY Going DEF CrudInv
<1>2. Looked(s)'
  <2> SUFFICES ASSUME NEW adm \in Admins, SingletonRule(adm), req[s].table = adm.name,
                      req[s].act = "create"
               PROVE  NoneBefore(x, adm.name)'
    BY <1>1 DEF Looked, NoneBefore
  <2>1. NoneBefore(x, adm.name) /\ x \in (1..Len(opened)) \ committed
    BY Aloft DEF Looked
  <2> QED
    BY <2>1, StillNoneBefore
<1>3. \A j \in (Len(rows) + 1)..Len(rows') : FALSE
  BY Bounds
<1> QED
  BY <1>1, <1>2, <1>3, HandlerStep

(* The same, where the rows the request has made stay as many. *)
LEMMA MovesOnAsMany ==
    ASSUME CrudAssumption, CrudInv, NEW s \in Slots, req[s] # NoReq, req[s].pc # "load",
           req[s].pc # "commit",
           NEW x \in 1..Len(opened), x = req[s].xid,
           NEW r \in Request, Goto(s, r), UNCHANGED <<committed, log, missed, opened>>,
           RowsMove(x), Len(rows') = Len(rows), MadeBy(x)' = MadeBy(x),
           r.xid = x, r.act = req[s].act, r.table = req[s].table, r.dry = req[s].dry,
           r.made = req[s].made, r.logged = req[s].logged, r.pc \in {"rows", "audit"},
           r.act # "import", r.target = req[s].target
    PROVE  CrudInv'
<1>1. req'[s] = r
  BY Going DEF CrudInv
<1>2. InPlace(s) /\ Counted(s) /\ req[s] \in Request /\ missed \subseteq 1..Len(opened)
  BY Aloft DEF CrudInv, TypeOK
<1>3. InPlace(s)'
  BY <1>1, <1>2 DEF InPlace
<1>4. Counted(s)'
  <2>1. ~DryRunOver(s)' /\ ~DryRunOver(s)
    BY <1>1 DEF DryRunOver
  <2>2. Counted(s)' <=> r.made = Cardinality(MadeBy(x)')
    BY <1>1, <2>1 DEF Counted, MadeBy
  <2> QED
    BY <1>2, <2>1, <2>2 DEF Counted
<1> QED
  BY <1>2, <1>3, <1>4, MovesOn

LEMMA ParentStep ==
    ASSUME CrudAssumption, CrudInv, NEW s \in Slots, Parent(s) PROVE CrudInv'
<1> DEFINE q == req[s]
<1>1. q # NoReq /\ q.pc = "parent" /\ UNCHANGED <<committed, log, missed, opened>>
  BY DEF Parent
<1>2. q \in Request /\ q.xid \in 1..Len(opened)
  BY <1>1, Aloft
<1> SUFFICES ASSUME NEW x \in 1..Len(opened), x = q.xid PROVE CrudInv'
  BY <1>2
<1>3. CASE /\ q.act = "create" /\ Insert(q.table, 0, q.xid)
           /\ Goto(s, [q EXCEPT !.target = Len(rows) + 1, !.locks = {Len(rows) + 1},
                                !.made = 1, !.pc = "rows"])
  BY <1>1, <1>3, ParentCreate
<1>4. CASE /\ q.act = "update" /\ Free(s, q.target) /\ Sees(q.xid, q.target) /\ UNCHANGED rows
           /\ Goto(s, [q EXCEPT !.locks = {q.target}, !.pc = "rows"])
  <2> DEFINE r == [q EXCEPT !.locks = {q.target}, !.pc = "rows"]
  <2>1. q.target \in Ids
    <3>1. q.target # 0 /\ q.target \in 0..MaxRows
      BY <1>1, <1>2, <1>4, Aloft, Fields DEF InPlace
    <3> QED
      BY <3>1, Bounds DEF Ids
  <2>2. /\ r \in Request /\ r.xid = x /\ r.act = q.act /\ r.table = q.table /\ r.dry = q.dry
        /\ r.target = q.target /\ r.made = q.made /\ r.logged = q.logged /\ r.pc = "rows"
    BY <1>2, <2>1 DEF Request
  <2>3. Goto(s, r)
    BY <1>4
  <2> HIDE DEF r
  <2>4. RowsMove(x) /\ Len(rows') = Len(rows) /\ MadeBy(x)' = MadeBy(x)
    BY <1>4, Unmoved
  <2> QED
    BY <1>1, <1>4, <2>2, <2>3, <2>4, MovesOnAsMany
<1>5. CASE /\ q.act = "update" /\ q.left > 0 /\ UNCHANGED rows
           /\ Goto(s, [q EXCEPT !.pc = "rows"])
  <2> DEFINE r == [q EXCEPT !.pc = "rows"]
  <2>1. /\ r \in Request /\ r.xid = x /\ r.act = q.act /\ r.table = q.table /\ r.dry = q.dry
        /\ r.target = q.target /\ r.made = q.made /\ r.logged = q.logged /\ r.pc = "rows"
    BY <1>2 DEF Request
  <2>2. Goto(s, r)
    BY <1>5
  <2> HIDE DEF r
  <2>3. RowsMove(x) /\ Len(rows') = Len(rows) /\ MadeBy(x)' = MadeBy(x)
    BY <1>5, Unmoved
  <2> QED
    BY <1>1, <1>5, <2>1, <2>2, <2>3, MovesOnAsMany
<1> DEFINE ids == IF q.act = "delete" THEN {q.target} ELSE q.picked
<1>6. CASE /\ q.act \in {"delete", "action"} /\ DeleteRows(s, ids)
           /\ Goto(s, [q EXCEPT !.locks = {i \in 1..Len(rows) : i \in ids \/ rows[i].parent \in ids},
                                !.pc = "audit"])
  <2> HIDE DEF ids
  <2> DEFINE all == {i \in 1..Len(rows) : i \in ids \/ rows[i].parent \in ids}
             r == [q EXCEPT !.locks = all, !.pc = "audit"]
  <2>1. all \in SUBSET Ids
    BY Bounds DEF Ids
  <2>2. Goto(s, r)
    BY <1>6
  <2> HIDE DEF all
  <2>3. /\ r \in Request /\ r.xid = x /\ r.act = q.act /\ r.table = q.table /\ r.dry = q.dry
        /\ r.target = q.target /\ r.made = q.made /\ r.logged = q.logged /\ r.pc = "audit"
    BY <1>2, <2>1 DEF Request
  <2> HIDE DEF r
  <2>4. RowsMove(x) /\ Len(rows') = Len(rows) /\ MadeBy(x)' = MadeBy(x)
    BY <1>6, Deleted DEF DeleteRows
  <2> QED
    BY <1>1, <1>6, <2>2, <2>3, <2>4, MovesOnAsMany
<1> QED
  BY <1>3, <1>4, <1>5, <1>6 DEF Parent

(* One more row is made. *)
LEMMA MakesOne ==
    ASSUME CrudAssumption, CrudInv, NEW s \in Slots, req[s] # NoReq, req[s].pc = "rows",
           NEW x \in 1..Len(opened), x = req[s].xid, NEW table \in Tables, NEW parent \in 0..MaxRows,
           Insert(table, parent, x),
           NEW r \in Request, Goto(s, r), UNCHANGED <<committed, log, missed, opened>>,
           r.xid = x, r.act = req[s].act, r.table = req[s].table, r.dry = req[s].dry,
           r.made = req[s].made + 1, r.logged = req[s].logged, r.pc = "rows",
           r.act = "import" => r.locks = {}, r.target = req[s].target,
           \A adm \in Admins : SingletonRule(adm) /\ table = adm.name => NoneBefore(x, adm.name)
    PROVE  CrudInv'
<1>1. /\ req' \in [Slots -> Request \cup {NoReq}] /\ req'[s] = r
      /\ \A o \in Slots \ {s} : req'[o] = req[o]
  BY Going DEF CrudInv
<1>2. /\ RowsMove(x) /\ Len(rows') = Len(rows) + 1 /\ rows'[Len(rows) + 1].table = table
      /\ Cardinality(MadeBy(x)') = Cardinality(MadeBy(x)) + 1
  BY Inserted
<1>3. /\ InPlace(s) /\ Counted(s) /\ Looked(s) /\ x \in (1..Len(opened)) \ committed
      /\ missed \subseteq 1..Len(opened)
  BY Aloft DEF CrudInv, TypeOK
<1>4. InPlace(s)'
  BY <1>1, <1>3 DEF InPlace
<1>5. Counted(s)'
  <2>1. ~DryRunOver(s)' /\ ~DryRunOver(s)
    BY <1>1 DEF DryRunOver
  <2>2. Counted(s)' <=> r.made = Cardinality(MadeBy(x)')
    BY <1>1, <2>1 DEF Counted, MadeBy
  <2> QED
    BY <1>2, <1>3, <2>1, <2>2 DEF Counted
<1>6. Looked(s)'
  <2> SUFFICES ASSUME NEW adm \in Admins, SingletonRule(adm), req[s].table = adm.name,
                      req[s].act = "create"
               PROVE  NoneBefore(x, adm.name)'
    BY <1>1 DEF Looked, NoneBefore
  <2>1. NoneBefore(x, adm.name)
    BY <1>3 DEF Looked
  <2> QED
    BY <1>2, <1>3, <2>1, StillNoneBefore
<1>7. \A adm \in Admins, j \in (Len(rows) + 1)..Len(rows') :
         SingletonRule(adm) /\ rows'[j].table = adm.name => NoneBefore(x, adm.name)
  <2>1. \A j \in (Len(rows) + 1)..Len(rows') : j = Len(rows) + 1
    BY <1>2, Bounds
  <2> QED
    BY <1>2, <2>1
<1> QED
  BY <1>1, <1>2, <1>3, <1>4, <1>5, <1>6, <1>7, HandlerStep

LEMMA InlineRowStep ==
    ASSUME CrudAssumption, CrudInv, NEW s \in Slots, InlineRow(s) PROVE CrudInv'
<1> DEFINE q == req[s]
           next == [q EXCEPT !.left = @ - 1]
<1>1. /\ q # NoReq /\ q.pc = "rows" /\ q.act # "import" /\ q.left > 0
      /\ UNCHANGED <<committed, log, missed, opened>>
  BY DEF InlineRow
<1>2. q \in Request /\ q.xid \in 1..Len(opened) /\ InPlace(s) /\ Counted(s)
  BY <1>1, Aloft
<1>3. q.left - 1 \in 0..MaxBatch
  <2>1. q.left \in 0..MaxBatch /\ MaxBatch \in Nat
    BY <1>2, Fields DEF CrudAssumption
  <2> QED
    BY <1>1, <2>1
<1> SUFFICES ASSUME NEW x \in 1..Len(opened), x = q.xid PROVE CrudInv'
  BY <1>2
<1>4. CASE /\ Insert("lines", q.target, q.xid)
           /\ Goto(s, [next EXCEPT !.made = @ + 1, !.locks = @ \cup {Len(rows) + 1}])
  <2> DEFINE n == Len(rows) + 1
             r == [next EXCEPT !.made = @ + 1, !.locks = @ \cup {n}]
  <2>1. "lines" \in Tables /\ q.target \in 0..MaxRows
    BY <1>2, Fields DEF Tables
  <2>2. n \in Ids /\ Cardinality(MadeBy(x)) + 1 \in 0..MaxRows
    BY <1>4, <2>1, Inserted
  <2>3. q.made + 1 \in 0..MaxRows
    <3>1. ~DryRunOver(s)
      BY <1>1 DEF DryRunOver
    <3> QED
      BY <1>2, <2>2, <3>1 DEF Counted
  <2>4. Goto(s, r)
    BY <1>4
  <2> HIDE DEF n
  <2>5. /\ r \in Request /\ r.xid = x /\ r.act = q.act /\ r.table = q.table /\ r.dry = q.dry
        /\ r.target = q.target /\ r.made = q.made + 1 /\ r.logged = q.logged /\ r.pc = "rows"
    BY <1>1, <1>2, <1>3, <2>2, <2>3 DEF Request
  <2> HIDE DEF r
  <2>6. \A adm \in Admins : adm.name # "lines"
    BY DEF CrudAssumption
  <2> QED
    BY <1>1, <1>4, <2>1, <2>4, <2>5, <2>6, MakesOne
<1>5. ASSUME NEW i \in Live(q.xid, "lines"), Goto(s, [next EXCEPT !.locks = @ \cup {i}]),
             rows' = Without({i}, q.xid) \/ UNCHANGED rows
      PROVE  CrudInv'
  <2> DEFINE r == [next EXCEPT !.locks = @ \cup {i}]
  <2>1. i \in Ids
    <3>1. i \in 1..Len(rows) /\ Len(rows) \in Nat /\ Len(rows) <= MaxRows /\ MaxRows \in Nat
      BY Bounds DEF Live
    <3> QED
      BY <3>1 DEF Ids
  <2>2. /\ r \in Request /\ r.xid = x /\ r.act = q.act /\ r.table = q.table /\ r.dry = q.dry
        /\ r.target = q.target /\ r.made = q.made /\ r.logged = q.logged /\ r.pc = "rows"
    BY <1>1, <1>2, <1>3, <2>1 DEF Request
  <2>3. Goto(s, r)
    BY <1>5
  <2> HIDE DEF r
  <2>4. RowsMove(x) /\ Len(rows') = Len(rows) /\ MadeBy(x)' = MadeBy(x)
    BY <1>5, Unmoved, Deleted
  <2> QED
    BY <1>1, <2>2, <2>3, <2>4, MovesOnAsMany
<1> QED
  BY <1>4, <1>5 DEF InlineRow

LEMMA ImportRowStep ==
    ASSUME CrudAssumption, CrudInv, NEW s \in Slots, ImportRow(s) PROVE CrudInv'
<1> DEFINE q == req[s]
<1>1. /\ q # NoReq /\ q.pc = "rows" /\ q.act = "import" /\ q.left > 0
      /\ UNCHANGED <<committed, log, missed, opened>>
  BY DEF ImportRow
<1>2. /\ q \in Request /\ q.xid \in 1..Len(opened) /\ InPlace(s) /\ Counted(s)
      /\ q.table \in Tables /\ 0 \in 0..MaxRows /\ missed \subseteq 1..Len(opened)
  <2>1. q \in Request /\ q.xid \in 1..Len(opened) /\ InPlace(s) /\ Counted(s)
    BY <1>1, Aloft
  <2> QED
    BY <2>1, Fields, Bounds DEF CrudInv, TypeOK
<1>3. q.left - 1 \in 0..MaxBatch
  <2>1. q.left \in 0..MaxBatch /\ MaxBatch \in Nat
    BY <1>2, Fields DEF CrudAssumption
  <2> QED
    BY <1>1, <2>1
<1>4. ~DryRunOver(s)
  BY <1>1 DEF DryRunOver
<1> SUFFICES ASSUME NEW x \in 1..Len(opened), x = q.xid PROVE CrudInv'
  BY <1>2
<1>5. CASE /\ Insert(q.table, 0, x)
           /\ Goto(s, [q EXCEPT !.left = @ - 1, !.made = @ + 1])
  <2> DEFINE r == [q EXCEPT !.left = @ - 1, !.made = @ + 1]
  <2>1. q.made + 1 \in 0..MaxRows
    BY <1>2, <1>4, <1>5, Inserted DEF Counted
  <2>2. /\ r \in Request /\ r.xid = x /\ r.act = q.act /\ r.table = q.table /\ r.dry = q.dry
        /\ r.target = q.target /\ r.made = q.made + 1 /\ r.logged = q.logged /\ r.pc = "rows"
        /\ r.locks = q.locks
    BY <1>1, <1>2, <1>3, <2>1 DEF Request
  <2>3. Goto(s, r)
    BY <1>5
  <2> HIDE DEF r
  <2>4. r.locks = {} /\ \A adm \in Admins : NoneBefore(x, adm.name)
    BY <1>1, <1>2, <2>2 DEF InPlace, NoneBefore
  <2> QED
    BY <1>1, <1>2, <1>5, <2>2, <2>3, <2>4, MakesOne
<1>6. CASE /\ UNCHANGED rows
           /\ Goto(s, [q EXCEPT !.left = @ - 1, !.made = @])
  <2> DEFINE r == [q EXCEPT !.left = @ - 1, !.made = @]
  <2>1. /\ r \in Request /\ r.xid = x /\ r.act = q.act /\ r.table = q.table /\ r.dry = q.dry
        /\ r.target = q.target /\ r.made = q.made /\ r.logged = q.logged /\ r.pc = "rows"
        /\ r.locks = q.locks
    BY <1>1, <1>2, <1>3 DEF Request
  <2>2. Goto(s, r)
    BY <1>6
  <2> HIDE DEF r
  <2>3. RowsMove(x) /\ Len(rows') = Len(rows) /\ MadeBy(x)' = MadeBy(x)
    BY <1>6, Unmoved
  <2>4. req'[s] = r
    BY <2>1, <2>2, Going DEF CrudInv
  <2>5. InPlace(s)'
    BY <1>1, <1>2, <2>1, <2>4 DEF InPlace
  <2>6. Counted(s)'
    <3>1. ~DryRunOver(s)'
      BY <2>1, <2>4 DEF DryRunOver
    <3>2. Counted(s)' <=> r.made = Cardinality(MadeBy(x)')
      BY <2>1, <2>4, <3>1 DEF Counted, MadeBy
    <3> QED
      BY <1>2, <1>4, <2>1, <2>3, <3>2 DEF Counted
  <2> QED
    BY <1>1, <1>2, <2>1, <2>2, <2>3, <2>5, <2>6, MovesOn
<1> QED
  BY <1>5, <1>6 DEF ImportRow, ImportedRow

LEMMA RowsDoneStep ==
    ASSUME CrudAssumption, CrudInv, NEW s \in Slots, RowsDone(s) PROVE CrudInv'
<1> DEFINE q == req[s]
           r == [q EXCEPT !.pc = IF q.dry THEN "commit" ELSE "audit"]
<1>1. /\ q # NoReq /\ q.pc = "rows" /\ Goto(s, r)
      /\ rows' = (IF q.dry THEN TakenBack(q.xid) ELSE rows)
      /\ UNCHANGED <<committed, log, missed, opened>>
  BY DEF RowsDone
<1>2. /\ q \in Request /\ q.xid \in 1..Len(opened) /\ InPlace(s) /\ Counted(s) /\ q.dry \in BOOLEAN
      /\ missed \subseteq 1..Len(opened)
  BY <1>1, Aloft, Fields DEF CrudInv, TypeOK
<1> SUFFICES ASSUME NEW x \in 1..Len(opened), x = q.xid PROVE CrudInv'
  BY <1>2
<1>3. /\ r \in Request /\ r.xid = x /\ r.act = q.act /\ r.table = q.table /\ r.dry = q.dry
      /\ r.target = q.target /\ r.made = q.made /\ r.logged = q.logged /\ r.locks = q.locks
      /\ r.pc = IF q.dry THEN "commit" ELSE "audit"
  BY <1>2 DEF Request
<1> HIDE DEF r
<1>4. req'[s] = r
  BY <1>1, <1>3, Going DEF CrudInv
<1>5. /\ RowsMove(x) /\ Len(rows') = Len(rows)
      /\ IF q.dry THEN WrittenBy(x)' = {} ELSE MadeBy(x)' = MadeBy(x)
  <2>1. CASE q.dry
    BY <1>1, <2>1, RolledBack
  <2>2. CASE ~q.dry
    BY <1>1, <2>2, Unmoved
  <2> QED
    BY <2>1, <2>2
<1>6. InPlace(s)'
  BY <1>1, <1>2, <1>3, <1>4 DEF InPlace
<1>7. Counted(s)'
  <2>1. Counted(s)' <=> /\ q.dry => WrittenBy(x)' = {}
                        /\ ~q.dry => r.made = Cardinality(MadeBy(x)')
    BY <1>2, <1>3, <1>4 DEF Counted, DryRunOver, MadeBy, WrittenBy
  <2>2. q.made = Cardinality(MadeBy(x))
    BY <1>1, <1>2 DEF Counted, DryRunOver
  <2> QED
    BY <1>3, <1>5, <2>1, <2>2
<1> QED
  BY <1>1, <1>2, <1>3, <1>5, <1>6, <1>7, MovesOn

LEMMA AuditStep ==
    ASSUME CrudAssumption, CrudInv, NEW s \in Slots, Audit(s) PROVE CrudInv'
<1> DEFINE q == req[s]
<1>1. q # NoReq /\ q.pc = "audit" /\ UNCHANGED <<rows, committed, log, opened>>
  BY DEF Audit
<1>2. PICK ok \in BOOLEAN : /\ Goto(s, [q EXCEPT !.logged = ok, !.pc = "commit"])
                            /\ missed' = IF ok THEN missed ELSE missed \cup {q.xid}
  BY DEF Audit
<1> DEFINE r == [q EXCEPT !.logged = ok, !.pc = "commit"]
<1>3. /\ q \in Request /\ q.xid \in 1..Len(opened) /\ InPlace(s) /\ Counted(s)
      /\ missed \subseteq 1..Len(opened)
  BY <1>1, Aloft DEF CrudInv, TypeOK
<1> SUFFICES ASSUME NEW x \in 1..Len(opened), x = q.xid PROVE CrudInv'
  BY <1>3
<1>4. /\ r \in Request /\ r.xid = x /\ r.act = q.act /\ r.table = q.table /\ r.dry = q.dry
      /\ r.target = q.target /\ r.made = q.made /\ r.logged = ok /\ r.locks = q.locks
      /\ r.pc = "commit"
  BY <1>3 DEF Request
<1>5. Goto(s, r)
  BY <1>2
<1> HIDE DEF r
<1>6. req'[s] = r
  BY <1>4, <1>5, Going DEF CrudInv
<1>7. missed \subseteq missed' /\ missed' \subseteq 1..Len(opened) /\ (~ok => x \in missed')
  BY <1>2, <1>3
<1>8. RowsMove(x) /\ Len(rows') = Len(rows) /\ MadeBy(x)' = MadeBy(x)
  BY <1>1, Unmoved
<1>9. InPlace(s)'
  BY <1>1, <1>3, <1>4, <1>6, <1>7 DEF InPlace
<1>10. Counted(s)'
  <2>1. ~q.dry
    BY <1>1, <1>3 DEF InPlace
  <2>2. Counted(s)' <=> r.made = Cardinality(MadeBy(x)')
    BY <1>4, <1>6, <2>1 DEF Counted, DryRunOver, MadeBy
  <2> QED
    BY <1>1, <1>3, <1>4, <1>8, <2>1, <2>2 DEF Counted, DryRunOver
<1> QED
  BY <1>1, <1>4, <1>5, <1>7, <1>8, <1>9, <1>10, MovesOn

LEMMA CrudRefuseStep ==
    ASSUME CrudAssumption, CrudInv, NEW s \in Slots, Refuse(s) PROVE CrudInv'
<1>1. /\ req[s] # NoReq /\ rows' = TakenBack(req[s].xid) /\ req' = [req EXCEPT ![s] = NoReq]
      /\ UNCHANGED <<committed, log, missed, opened>>
  BY DEF Refuse
<1> SUFFICES ASSUME NEW x \in 1..Len(opened), x = req[s].xid PROVE CrudInv'
  BY <1>1, Aloft
<1>2. RowsMove(x) /\ Len(rows') = Len(rows)
  BY <1>1, RolledBack
<1>3. /\ req' \in [Slots -> Request \cup {NoReq}] /\ req'[s] = NoReq
      /\ \A o \in Slots \ {s} : req'[o] = req[o]
  BY <1>1 DEF CrudInv, TypeOK
<1>4. missed \subseteq missed' /\ missed' \subseteq 1..Len(opened)
  BY <1>1 DEF CrudInv, TypeOK
<1>5. \A j \in (Len(rows) + 1)..Len(rows') : FALSE
  BY <1>2, Bounds
<1> QED
  BY <1>1, <1>2, <1>3, <1>4, <1>5, HandlerStep

(* A request that commits is one that the others have not seen before. *)
LEMMA CommitStep ==
    ASSUME CrudAssumption, CrudInv, NEW s \in Slots, Commit(s) PROVE CrudInv'
<1> DEFINE q == req[s]
<1>1. /\ q # NoReq /\ q.pc = "commit" /\ committed' = committed \cup {q.xid}
      /\ log' = IF q.logged THEN log \cup {EntryOf(q)} ELSE log
      /\ req' = [req EXCEPT ![s] = NoReq] /\ UNCHANGED <<rows, missed, opened>>
  BY DEF Commit
<1>2. /\ q \in Request /\ q.xid \in 1..Len(opened) /\ InPlace(s) /\ Counted(s)
  BY <1>1, Aloft
<1>3. /\ req' \in [Slots -> Request \cup {NoReq}] /\ req'[s] = NoReq
      /\ \A o \in Slots \ {s} : req'[o] = req[o]
  BY <1>1 DEF CrudInv, TypeOK
<1>4. \A x, table : NoneBefore(x, table) => NoneBefore(x, table)'
  BY <1>1 DEF NoneBefore
<1>5. TypeOK'
  <2>1. committed' \subseteq 0..Len(opened)
    <3>1. q.xid \in 0..Len(opened)
      BY <1>2, Bounds
    <3> QED
      BY <1>1, <3>1, Bounds
  <2>2. log' \subseteq Entry
    <3>1. EntryOf(q) \in Entry
      BY <1>2, Fields DEF EntryOf, Entry
    <3> QED
      BY <1>1, <3>1 DEF CrudInv, TypeOK
  <2> QED
    BY <1>1, <1>3, <2>1, <2>2 DEF CrudInv, TypeOK
<1>6. Numbered'
  <2>1. \A o \in Slots : req'[o] # NoReq => o # s /\ req[o] # NoReq /\ req'[o].xid = req[o].xid
    BY <1>3
  <2>2. \A o \in Slots : req'[o] # NoReq => req'[o].xid \in (1..Len(opened)) \ committed'
    BY <1>1, <2>1 DEF CrudInv, Numbered
  <2>3. \A o, p \in Slots : req'[o] # NoReq /\ req'[p] # NoReq /\ req'[o].xid = req'[p].xid => o = p
    BY <2>1 DEF CrudInv, Numbered
  <2> QED
    BY <1>1, <2>2, <2>3 DEF CrudInv, Numbered, Void
<1>7. \A o \in Slots : req'[o] # NoReq => InPlace(o)' /\ Counted(o)' /\ Looked(o)'
  <2> SUFFICES ASSUME NEW o \in Slots, req'[o] # NoReq PROVE InPlace(o)' /\ Counted(o)' /\ Looked(o)'
    OBVIOUS
  <2>1. o # s /\ req'[o] = req[o] /\ req[o] # NoReq
    BY <1>3
  <2>2. InPlace(o) /\ Counted(o) /\ Looked(o)
    BY <2>1, Aloft
  <2>3. InPlace(o)' /\ Counted(o)'
    BY <1>1, <2>1, <2>2 DEF InPlace, Counted, DryRunOver, MadeBy, WrittenBy
  <2>4. Looked(o)'
    BY <1>1, <2>1, <2>2 DEF Looked, NoneBefore
  <2> QED
    BY <2>3, <2>4
<1>8. AuditTellsTruth'
  <2> SUFFICES ASSUME NEW e \in log'
               PROVE  /\ e.xid \in committed'
                      /\ e.made = Cardinality({i \in 1..Len(rows) : rows[i].by = e.xid})
    BY <1>1 DEF AuditTellsTruth
  <2>1. CASE e \in log
    BY <1>1, <2>1 DEF CrudInv, AuditTellsTruth
  <2>2. CASE e \notin log
    <3>1. q.logged /\ e = EntryOf(q)
      BY <1>1, <2>2
    <3>2. ~DryRunOver(s)
      BY <1>2, <3>1 DEF InPlace, DryRunOver
    <3>3. e.xid = q.xid /\ e.made = q.made
      BY <3>1 DEF EntryOf
    <3> QED
      BY <1>1, <1>2, <3>2, <3>3 DEF Counted, MadeBy
  <2> QED
    BY <2>1, <2>2
<1>9. MadeAfterLooking'
  BY <1>1, <1>4 DEF CrudInv, MadeAfterLooking, NoneBefore, SingletonRule
<1> QED
  BY <1>5, <1>6, <1>7, <1>8, <1>9 DEF CrudInv

LEMMA Inputs ==
    ASSUME CrudAssumption, CrudInv, NEW adm \in Admins, NEW act,
           NEW n \in Batches(adm, act), NEW t \in Targets(adm, act), NEW p \in Picks(adm, act)
    PROVE  /\ n \in 0..MaxBatch /\ t \in 0..MaxRows /\ p \in SUBSET Ids
           /\ act = "update" => t # 0
<1>1. /\ Len(rows) \in Nat /\ MaxRows \in Nat /\ Len(rows) <= MaxRows /\ 0 \in 0..MaxBatch
  <2>1. 0 \in 0..MaxBatch
    BY DEF CrudAssumption
  <2> QED
    BY <2>1, Bounds
<1>2. n \in 0..MaxBatch
  BY <1>1 DEF Batches, FileRows, InlineRows
<1>3. t \in 0..MaxRows /\ (act = "update" => t # 0)
  BY <1>1 DEF Targets
<1>4. p \in SUBSET Ids
  BY <1>1 DEF Picks, Ids
<1> QED
  BY <1>2, <1>3, <1>4

LEMMA OpenStep ==
    ASSUME CrudAssumption, CrudInv, NEW s \in Slots, Open(s) PROVE CrudInv'
<1>1. /\ req[s] = NoReq /\ Len(opened) < MaxRequests /\ UNCHANGED <<rows, committed, log, missed>>
  BY DEF Open
<1>2. PICK adm \in Admins, act \in {"create", "update", "delete", "action", "import", "export"},
           dry \in BOOLEAN :
        /\ dry => act = "import"
        /\ \E ctx \in Contexts : Admitted(ctx, adm, act)
        /\ \E n \in Batches(adm, act), t \in Targets(adm, act), p \in Picks(adm, act) :
             Goto(s, [xid |-> Len(opened) + 1, act |-> act, table |-> adm.name, pc |-> "load",
                      dry |-> dry, left |-> n, target |-> t, picked |-> p,
                      locks |-> {}, made |-> 0, logged |-> FALSE])
        /\ opened' = Append(opened, IF act = "create" THEN committed ELSE {})
  BY DEF Open
<1>3. PICK n \in Batches(adm, act), t \in Targets(adm, act), p \in Picks(adm, act) :
        Goto(s, [xid |-> Len(opened) + 1, act |-> act, table |-> adm.name, pc |-> "load",
                 dry |-> dry, left |-> n, target |-> t, picked |-> p,
                 locks |-> {}, made |-> 0, logged |-> FALSE])
  BY <1>2
<1> DEFINE r == [xid |-> Len(opened) + 1, act |-> act, table |-> adm.name, pc |-> "load",
                 dry |-> dry, left |-> n, target |-> t, picked |-> p,
                 locks |-> {}, made |-> 0, logged |-> FALSE]
           before == IF act = "create" THEN committed ELSE {}
<1> SUFFICES ASSUME NEW x, x = Len(opened) + 1 PROVE CrudInv'
  OBVIOUS
<1>4. /\ Len(opened) \in Nat /\ MaxRequests \in Nat /\ x \in 1..MaxRequests
      /\ x \notin 0..Len(opened) /\ x \notin committed /\ x # Void
      /\ 0..Len(opened) \subseteq 0..x /\ 0..x \subseteq 0..MaxRequests
  <2>1. Len(opened) \in Nat /\ MaxRequests \in Nat /\ committed \subseteq 0..Len(opened)
    BY Bounds
  <2>2. x \notin 0..Len(opened)
    BY <2>1
  <2> QED
    BY <1>1, <2>1, <2>2 DEF Void
<1>5. r \in Request /\ r.table # "lines"
  <2>1. /\ n \in 0..MaxBatch /\ t \in 0..MaxRows /\ p \in SUBSET Ids /\ 0 \in 0..MaxRows
        /\ adm.name \in Tables /\ adm.name # "lines"
    <3>1. adm.name \in Tables /\ adm.name # "lines"
      BY DEF Tables, CrudAssumption
    <3>2. n \in 0..MaxBatch /\ t \in 0..MaxRows /\ p \in SUBSET Ids
      BY Inputs
    <3>3. 0 \in 0..MaxRows
      BY Bounds
    <3> QED
      BY <3>1, <3>2, <3>3
  <2>2. Len(opened) + 1 \in Xids
    BY <1>4 DEF Xids
  <2> QED
    BY <2>1, <2>2 DEF Request
<1>6. /\ r.xid = x /\ r.act = act /\ r.pc = "load" /\ r.dry = dry /\ r.locks = {} /\ r.made = 0
      /\ r.logged = FALSE /\ (act = "update" => r.target # 0)
  BY Inputs
<1>7. Goto(s, r)
  BY <1>3
<1> HIDE DEF r
<1>8. /\ req' \in [Slots -> Request \cup {NoReq}] /\ req'[s] = r /\ r # NoReq
      /\ \A o \in Slots \ {s} : req'[o] = req[o]
  BY <1>5, <1>7, Going DEF CrudInv, CrudAssumption
<1>9. /\ opened' \in Seq(SUBSET (0..MaxRequests)) /\ Len(opened') = x /\ opened'[x] = before
      /\ \A y \in 1..Len(opened) : opened'[y] = opened[y]
  <2>1. before \in SUBSET (0..MaxRequests)
    BY <1>4, Bounds
  <2>2. opened \in Seq(SUBSET (0..MaxRequests)) /\ opened' = Append(opened, before)
    BY <1>2 DEF CrudInv, TypeOK
  <2> HIDE DEF before
  <2> QED
    BY <2>1, <2>2, Appended
<1>10. before \subseteq committed /\ (act # "create" => before = {})
  OBVIOUS
<1> HIDE DEF before
<1>11. 1..Len(opened') = (1..Len(opened)) \cup {x}
  BY <1>4, <1>9
<1>12. TypeOK'
  <2>1. committed \subseteq 0..x /\ missed \subseteq 1..Len(opened') /\ x <= MaxRequests
    BY <1>4, <1>11, Bounds DEF CrudInv, TypeOK
  <2> QED
    BY <1>1, <1>8, <1>9, <2>1 DEF CrudInv, TypeOK
<1>13. Numbered'
  <2>1. \A o \in Slots : req'[o] # NoReq => req'[o].xid \in (1..Len(opened')) \ committed
    BY <1>4, <1>6, <1>8, <1>11 DEF CrudInv, Numbered
  <2>2. \A o \in Slots \ {s} : req'[o] # NoReq => req[o].xid # x
    BY <1>4, <1>8, Bounds DEF CrudInv, Numbered
  <2>3. \A o, q \in Slots : req'[o] # NoReq /\ req'[q] # NoReq /\ req'[o].xid = req'[q].xid => o = q
    BY <1>6, <1>8, <2>2 DEF CrudInv, Numbered
  <2>4. \A i \in 1..Len(rows) : rows[i].by \in (0..x) \cup {Void} /\ rows[i].gone \in 0..x
    BY <1>4 DEF CrudInv, Numbered
  <2>5. \A y \in 1..Len(opened') : opened'[y] \subseteq committed \ {y}
    <3>1. opened'[x] \subseteq committed \ {x}
      BY <1>4, <1>9, <1>10
    <3> QED
      BY <1>9, <1>11, <3>1 DEF CrudInv, Numbered
  <2> QED
    BY <1>1, <1>9, <2>1, <2>3, <2>4, <2>5 DEF CrudInv, Numbered, Void
<1>14. WrittenBy(x) = {} /\ MadeBy(x) = {}
  <2>1. \A i \in 1..Len(rows) : rows[i].by # x /\ rows[i].gone # x
    BY <1>4 DEF CrudInv, Numbered
  <2> QED
    BY <2>1 DEF WrittenBy, MadeBy
<1>15. InPlace(s)' /\ Counted(s)' /\ Looked(s)'
  <2>1. InPlace(s)'
    BY <1>2, <1>5, <1>6, <1>8, <1>9, <1>10 DEF InPlace
  <2>2. Counted(s)' <=> WrittenBy(x)' = {} /\ 0 = Cardinality(MadeBy(x)')
    <3>1. ~DryRunOver(s)'
      BY <1>6, <1>8 DEF DryRunOver
    <3>2. req'[s].xid = x /\ req'[s].made = 0 /\ req'[s].pc = "load"
      BY <1>6, <1>8
    <3> QED
      BY <3>1, <3>2 DEF Counted, WrittenBy, MadeBy
  <2>3. Looked(s)'
    BY <1>6, <1>8 DEF Looked
  <2> QED
    BY <1>1, <1>14, <2>1, <2>2, <2>3, FS_EmptySet DEF WrittenBy, MadeBy
<1>16. \A o \in Slots \ {s} : req'[o] # NoReq => InPlace(o)' /\ Counted(o)' /\ Looked(o)'
  <2> SUFFICES ASSUME NEW o \in Slots \ {s}, req[o] # NoReq, req'[o] = req[o]
               PROVE  InPlace(o)' /\ Counted(o)' /\ Looked(o)'
    BY <1>8
  <2>1. InPlace(o) /\ Counted(o) /\ Looked(o) /\ req[o].xid \in 1..Len(opened)
    BY Aloft
  <2>2. opened'[req[o].xid] = opened[req[o].xid]
    BY <1>9, <2>1
  <2>3. InPlace(o)' /\ Counted(o)'
    BY <1>1, <2>1, <2>2 DEF InPlace, Counted, DryRunOver, MadeBy, WrittenBy
  <2>4. Looked(o)'
    BY <1>1, <2>1, <2>2 DEF Looked, NoneBefore
  <2> QED
    BY <2>3, <2>4
<1>17. AuditTellsTruth'
  BY <1>1 DEF CrudInv, AuditTellsTruth
<1>18. MadeAfterLooking'
  <2> SUFFICES ASSUME NEW a \in Admins, NEW j \in 1..Len(rows), SingletonRule(a),
                      rows[j].table = a.name, NEW y \in 1..Len(opened'), y = rows[j].by
               PROVE  NoneBefore(y, a.name)'
    BY <1>1 DEF MadeAfterLooking, NoneBefore, SingletonRule
  <2>1. y \in 1..Len(opened)
    BY <1>11, <1>14 DEF MadeBy
  <2>2. NoneBefore(y, a.name)
    BY <2>1 DEF CrudInv, MadeAfterLooking
  <2> QED
    BY <1>1, <1>9, <2>1, <2>2 DEF NoneBefore
<1> QED
  BY <1>8, <1>12, <1>13, <1>15, <1>16, <1>17, <1>18 DEF CrudInv

LEMMA InitCrudInv == Init => CrudInv
<1> SUFFICES ASSUME Init PROVE CrudInv
  OBVIOUS
<1> DEFINE r == NewRow(SystemTable, 0, 0, TRUE)
<1>1. /\ rows = <<r>> /\ committed = {0} /\ log = {} /\ missed = {} /\ opened = <<>>
      /\ req = [s \in Slots |-> NoReq]
  BY DEF Init
<1>2. /\ MaxRequests \in Nat /\ MaxRows \in Nat \ {0} /\ SystemTable \in Tables /\ NoReq \notin Request
  BY CrudAssumption
<1>3. r \in Row /\ r.by = 0 /\ r.gone = 0
  <2>1. 0 \in 0..MaxRows /\ 0 \in 0..Void /\ 0 \in 0..MaxRequests
    BY <1>2 DEF Void
  <2> QED
    BY <1>2, <2>1 DEF NewRow, Row
<1> HIDE DEF r
<1>4. /\ rows \in Seq(Row) /\ Len(rows) = 1 /\ rows[1] = r
      /\ opened \in Seq(SUBSET (0..MaxRequests)) /\ Len(opened) = 0
  BY <1>1, <1>3
<1>5. TypeOK
  BY <1>1, <1>2, <1>4 DEF TypeOK
<1>6. Numbered
  BY <1>1, <1>3, <1>4 DEF Numbered
<1>7. \A s \in Slots : req[s] = NoReq
  BY <1>1
<1>8. AuditTellsTruth
  BY <1>1 DEF AuditTellsTruth
<1>9. MadeAfterLooking
  BY <1>4 DEF MadeAfterLooking
<1> QED
  BY <1>5, <1>6, <1>7, <1>8, <1>9 DEF CrudInv

LEMMA IdleCrud ==
    ASSUME CrudInv, UNCHANGED vars PROVE CrudInv'
<1>1. /\ rows' = rows /\ committed' = committed /\ log' = log /\ missed' = missed
      /\ opened' = opened /\ req' = req
  BY DEF vars
<1>2. TypeOK' /\ Numbered' /\ AuditTellsTruth'
  BY <1>1 DEF CrudInv, TypeOK, Numbered, AuditTellsTruth, Void
<1>3. \A s \in Slots : req'[s] # NoReq => InPlace(s)' /\ Counted(s)' /\ Looked(s)'
  BY <1>1 DEF CrudInv, InPlace, Counted, DryRunOver, MadeBy, WrittenBy, Looked, NoneBefore
<1>4. MadeAfterLooking'
  BY <1>1 DEF CrudInv, MadeAfterLooking, NoneBefore
<1> QED
  BY <1>2, <1>3, <1>4 DEF CrudInv

LEMMA CrudInvStep == CrudInv /\ [Next]_vars => CrudInv'
<1> SUFFICES ASSUME CrudInv, [Next]_vars PROVE CrudInv'
  OBVIOUS
<1> QED
  BY CrudAssumption, OpenStep, LoadStep, ParentStep, InlineRowStep, ImportRowStep, RowsDoneStep,
     AuditStep, CommitStep, CrudRefuseStep, IdleCrud DEF Next

-----------------------------------------------------------------------------
(* The theorems about the write routes *)

LEMMA CrudInvHolds == Spec => []CrudInv
BY InitCrudInv, CrudInvStep, PTL DEF Spec

(* The rows, the audit log and the requests in flight have their types. *)
THEOREM RecordsTypeCorrect == Spec => []TypeOK
<1>1. CrudInv => TypeOK
  BY DEF CrudInv
<1> QED
  BY <1>1, CrudInvHolds, PTL

(* Every audit row tells what its request did, no less and no more, however *)
(* requests that fail, lose savepoints or delete the same rows come between.*)
THEOREM AuditRowsAreTrue == Spec => []AuditTellsTruth
<1>1. CrudInv => AuditTellsTruth
  BY DEF CrudInv
<1> QED
  BY <1>1, CrudInvHolds, PTL

(* A second row of a singleton comes from an import or from creates that    *)
(* overlapped.                                                              *)
THEOREM SecondRowWasRaced == Spec => []OneRowUnlessRaced
<1>1. CrudInv => OneRowUnlessRaced
  <2> SUFFICES ASSUME CrudInv, NEW adm \in Admins, SingletonRule(adm),
                      NEW i \in Live(0, adm.name), NEW j \in Live(0, adm.name),
                      rows[j].by # 0, rows[i].by \in opened[rows[j].by]
               PROVE  FALSE
    BY DEF OneRowUnlessRaced
  <2>1. /\ i \in 1..Len(rows) /\ j \in 1..Len(rows) /\ rows[i].table = adm.name /\ rows[j].table = adm.name
        /\ rows[j].by \in committed \cup {0}
        /\ rows[i].gone = 0 \/ rows[i].gone \notin committed \cup {0}
    BY DEF Live, Sees
  <2>2. rows[j].by \in 1..Len(opened)
    <3>1. 0 \in committed /\ committed \subseteq 0..Len(opened) /\ Len(opened) \in Nat
      BY CrudAssumption, Bounds DEF CrudInv, Numbered
    <3>2. rows[j].by \in 0..Len(opened) /\ rows[j].by # 0
      BY <2>1, <3>1
    <3> QED
      BY <3>1, <3>2
  <2>3. NoneBefore(rows[j].by, adm.name)
    BY <2>1, <2>2 DEF CrudInv, MadeAfterLooking
  <2>4. rows[i].gone \in committed \ {0}
    BY <2>1, <2>3 DEF NoneBefore
  <2> QED
    BY <2>1, <2>4
<1> QED
  BY <1>1, CrudInvHolds, PTL

(* Only Commit changes what is committed, by one request. *)
LEMMA OnlyCommitCommits ==
    ASSUME CrudInv, [Next]_vars, NEW s \in Slots, req[s] # NoReq,
           req[s].xid \in committed' \ committed
    PROVE  Commit(s)
<1>1. PICK o \in Slots : Commit(o)
  <2>1. committed' # committed
    OBVIOUS
  <2> QED
    BY <2>1 DEF Next, vars, Open, Load, Parent, InlineRow, ImportRow, RowsDone, Audit, Refuse
<1>2. req[s].xid = req[o].xid /\ req[o] # NoReq
  BY <1>1 DEF Commit
<1>3. s = o
  BY <1>2 DEF CrudInv, Numbered
<1> QED
  BY <1>1, <1>3

(* Whatever a request has written is committed together with its audit row, *)
(* or with a failed attempt to write one.                                   *)
THEOREM WritesAreAudited == Spec => AuditTellsAll
<1>1. CrudInv /\ [Next]_vars =>
        [\A s \in Slots :
           LET x == req[s].xid
           IN /\ req[s] # NoReq
              /\ x \in committed' \ committed
              /\ \E i \in 1..Len(rows) : x \in {rows[i].by, rows[i].gone} \/ i \in req[s].locks
              => x \in {e.xid : e \in log'} \cup missed]_vars
  <2> SUFFICES ASSUME CrudInv, [Next]_vars, NEW s \in Slots, req[s] # NoReq,
                      req[s].xid \in committed' \ committed,
                      NEW i \in 1..Len(rows),
                      req[s].xid \in {rows[i].by, rows[i].gone} \/ i \in req[s].locks
               PROVE  req[s].xid \in {e.xid : e \in log'} \cup missed
    OBVIOUS
  <2>1. Commit(s)
    BY OnlyCommitCommits
  <2>2. InPlace(s) /\ Counted(s) /\ req[s].pc = "commit"
    BY <2>1, CrudAssumption, Aloft DEF Commit
  <2>3. ~req[s].dry
    <3> SUFFICES ASSUME req[s].dry PROVE FALSE
      OBVIOUS
    <3>1. WrittenBy(req[s].xid) = {}
      BY <2>2 DEF Counted, DryRunOver
    <3>2. req[s].locks = {}
      BY <2>2 DEF InPlace
    <3> QED
      BY <3>1, <3>2 DEF WrittenBy
  <2>4. CASE req[s].logged
    <3>1. EntryOf(req[s]) \in log' /\ EntryOf(req[s]).xid = req[s].xid
      BY <2>1, <2>4 DEF Commit, EntryOf
    <3> QED
      BY <3>1
  <2>5. CASE ~req[s].logged
    BY <2>2, <2>3, <2>5 DEF InPlace
  <2> QED
    BY <2>4, <2>5
<1> QED
  BY <1>1, CrudInvHolds, PTL DEF AuditTellsAll, Spec

-----------------------------------------------------------------------------
(* The contract and the lists *)

LEMMA ControlsAllowed ==
    ASSUME CrudAssumption, NEW ctx, NEW adm \in Admins, NEW act \in {"create", "update", "delete"},
           NEW occupied, Capability(ctx, adm, act, occupied)
    PROVE  Allowed(ctx, adm, act, occupied)
<1>1. /\ adm.policy \in {"none", "default", "read_only", "no_create_delete", "superadmin_deletable"}
      /\ adm.platform_only \in BOOLEAN
  BY DEF CrudAssumption, AdminType, Policies
<1> DEFINE platform == HasPermission(ctx.grants, PlatformKey(adm.name, "delete"))
<1>2. CapabilityFlag(adm, act, platform) /\ HasPermission(ctx.grants, KeyOf(adm, act))
      /\ (SingletonRule(adm) => act # "delete" /\ (act = "create" => ~occupied))
  BY DEF Capability
<1>3. RouteGate(ctx, adm, act)
  BY <1>1, <1>2 DEF RouteGate, KeyOf, ResourceAccess
<1>4. CASE act = "create"
  <2>1. PolicyAllowsCreate(adm)
    BY <1>1, <1>2, <1>4 DEF CapabilityFlag, PolicyAllowsCreate
  <2> QED
    BY <1>2, <1>3, <1>4, <2>1 DEF Allowed
<1>5. CASE act = "update"
  <2>1. PolicyAllowsUpdate(adm)
    BY <1>1, <1>2, <1>5 DEF CapabilityFlag, PolicyAllowsUpdate
  <2> QED
    BY <1>3, <1>5, <2>1 DEF Allowed
<1>6. CASE act = "delete"
  <2>1. PolicyAllowsDelete(ctx, adm)
    BY <1>1, <1>2, <1>6 DEF CapabilityFlag, PolicyAllowsDelete
  <2> QED
    BY <1>2, <1>3, <1>6, <2>1 DEF Allowed
<1> QED
  BY <1>4, <1>5, <1>6

LEMMA FieldFacts ==
    ASSUME NEW f \in FieldType
    PROVE  /\ f.kind \in {"pk", "column", "calculated"} /\ f.auto \in BOOLEAN
           /\ f.readonly \in BOOLEAN /\ f.protected \in BOOLEAN
           /\ f.asked["new"] \in {"write", "read", "hidden"}
           /\ f.asked["old"] \in {"write", "read", "hidden"}
BY DEF FieldType, Permissions

LEMMA StrictestIs ==
    ASSUME NEW p \in {"write", "read", "hidden"}, NEW q \in {"write", "read", "hidden"}
    PROVE  /\ Strictest(p, q) = "hidden" <=> p = "hidden" \/ q = "hidden"
           /\ Strictest(p, q) = "write" <=> p = "write" /\ q = "write"
           /\ Strictest(p, q) \in {"write", "read", "hidden"}
BY DEF Strictest, Rank

LEMMA StaticIs ==
    ASSUME NEW f \in FieldType
    PROVE  /\ StaticPermission(f) \in {"write", "read", "hidden"}
           /\ StaticPermission(f) = "hidden" <=> f.protected
           /\ StaticPermission(f) = "write" <=>
                 ~f.protected /\ f.kind # "calculated" /\ ~f.readonly /\ ~f.auto
<1>1. f.protected \in BOOLEAN
  BY FieldFacts
<1>2. CASE f.protected
  BY <1>2 DEF StaticPermission
<1>3. CASE ~f.protected /\ (f.kind = "calculated" \/ f.readonly \/ f.auto)
  BY <1>3 DEF StaticPermission
<1>4. CASE ~f.protected /\ ~(f.kind = "calculated" \/ f.readonly \/ f.auto)
  BY <1>4 DEF StaticPermission
<1> QED
  BY <1>1, <1>2, <1>3, <1>4

LEMMA FormIs ==
    ASSUME NEW f \in FieldType
    PROVE  /\ InContract(f) <=> ~f.protected /\ f.asked["new"] # "hidden"
           /\ InForm(f) <=> /\ ~f.protected /\ f.kind = "column" /\ ~f.readonly /\ ~f.auto
                            /\ f.asked["new"] = "write"
<1> DEFINE p == StaticPermission(f)
           q == f.asked["new"]
<1>1. p \in {"write", "read", "hidden"} /\ q \in {"write", "read", "hidden"}
  BY FieldFacts, StaticIs
<1>2. /\ FieldPermission(f) = "hidden" <=> p = "hidden" \/ q = "hidden"
      /\ FieldPermission(f) = "write" <=> p = "write" /\ q = "write"
      /\ FieldPermission(f) \in {"write", "read", "hidden"}
  BY <1>1, StrictestIs DEF FieldPermission
<1>3. /\ p = "hidden" <=> f.protected
      /\ p = "write" <=> ~f.protected /\ f.kind # "calculated" /\ ~f.readonly /\ ~f.auto
  BY StaticIs
<1> HIDE DEF p, q
<1>4. InContract(f) <=> ~f.protected /\ q # "hidden"
  BY <1>2, <1>3 DEF InContract
<1>5. InForm(f) <=> /\ ~f.protected /\ f.kind = "column" /\ ~f.readonly /\ ~f.auto
                    /\ q = "write"
  BY <1>1, <1>2, <1>3, <1>4 DEF InForm, ReadOnlyInContract
<1> QED
  BY <1>4, <1>5 DEF q

(* The forms and the controls that the contract offers are those that the   *)
(* write routes, the schema and the serializer go by.                       *)
THEOREM ContractAndRoutesAgree == Spec => []ContractInStep
<1>1. ControlsInStep
  BY CrudAssumption, ControlsAllowed DEF ControlsInStep, Writes
<1>2. FieldsInStep
  <2> SUFFICES ASSUME NEW f \in FieldType
               PROVE  /\ InForm(f) <=> Taken(f, "new")
                      /\ f.asked["old"] = f.asked["new"] =>
                             /\ InForm(f) <=> Taken(f, "old")
                             /\ InContract(f) <=> Serialized(f, "record")
                      /\ \A about \in {"new", "old", "import"} :
                             Taken(f, about) => StaticPermission(f) = "write"
                      /\ \A route \in {"record", "export"} :
                             Serialized(f, route) => StaticPermission(f) # "hidden"
    BY DEF FieldsInStep
  <2>1. \A about : Taken(f, about) <=>
           /\ f.kind = "column" /\ ~f.protected /\ ~f.readonly /\ ~f.auto
           /\ about = "import" \/ f.asked[about] = "write"
    BY DEF Taken, InSchema, ReadOnlyInSchema, PolicyAllowsWrite
  <2>2. \A route : Serialized(f, route) <=>
           ~f.protected /\ ~(route = "record" /\ f.asked["old"] = "hidden")
    BY DEF Serialized, PolicyHides
  <2> QED
    BY <2>1, <2>2, FormIs, StaticIs
<1>3. ContractInStep
  BY <1>1, <1>2 DEF ContractInStep
<1> QED
  BY <1>3, PTL

LEMMA ValueFacts ==
    ASSUME TypeOK, NEW i \in 1..Len(rows), NEW column \in Columns
    PROVE  Values[i][column] \in Int /\ Values[i]["id"] = i
<1>1. Values[i] = [id |-> i, parent |-> rows[i].parent, system |-> IF rows[i].system THEN 1 ELSE 0]
  BY DEF Values
<1>2. rows[i].parent \in Int /\ i \in Int
  <2>1. rows[i] \in Row /\ MaxRows \in Nat /\ Len(rows) \in Nat
    BY CrudAssumption DEF TypeOK
  <2>2. rows[i].parent \in 0..MaxRows
    BY <2>1 DEF Row
  <2> QED
    BY <2>1, <2>2
<1>3. (IF rows[i].system THEN 1 ELSE 0) \in Int
  OBVIOUS
<1> QED
  BY <1>1, <1>2, <1>3 DEF Columns

Before(desc, m, n) == IF desc THEN m > n ELSE m < n

LEMMA OneClause ==
    ASSUME TypeOK, NEW c, c.column = "id", NEW i \in 1..Len(rows), NEW j \in 1..Len(rows)
    PROVE  ComesBefore(<<c>>, Values, i, j) <=> Before(c.desc, i, j)
<1>1. Len(<<c>>) = 1 /\ <<c>>[1] = c
  OBVIOUS
<1>2. Values[i]["id"] = i /\ Values[j]["id"] = j
  BY ValueFacts DEF Columns
<1>3. \A m : m \in 1..1 <=> m = 1
  OBVIOUS
<1>4. \A m \in 1..(1 - 1) : FALSE
  OBVIOUS
<1> QED
  BY <1>1, <1>2, <1>3, <1>4 DEF ComesBefore, Before

LEMMA TwoClauses ==
    ASSUME TypeOK, NEW c, NEW d, c.column \in Columns, d.column = "id",
           NEW i \in 1..Len(rows), NEW j \in 1..Len(rows)
    PROVE  ComesBefore(<<c, d>>, Values, i, j) <=>
              \/ Before(c.desc, Values[i][c.column], Values[j][c.column])
              \/ Values[i][c.column] = Values[j][c.column] /\ Before(d.desc, i, j)
<1> DEFINE cs == <<c, d>>
<1>1. Len(cs) = 2 /\ cs[1] = c /\ cs[2] = d
  OBVIOUS
<1>2. Values[i]["id"] = i /\ Values[j]["id"] = j
  BY ValueFacts DEF Columns
<1>3. /\ \A m : m \in 1..2 <=> m = 1 \/ m = 2
      /\ \A m \in 1..(1 - 1) : FALSE
      /\ \A m : m \in 1..(2 - 1) <=> m = 1
  OBVIOUS
<1> HIDE DEF cs
<1>4. ComesBefore(cs, Values, i, j) <=>
        \E n \in 1..2 :
            /\ \A m \in 1..(n - 1) : Values[i][cs[m].column] = Values[j][cs[m].column]
            /\ Before(cs[n].desc, Values[i][cs[n].column], Values[j][cs[n].column])
  BY <1>1 DEF ComesBefore, Before
<1>5. ComesBefore(cs, Values, i, j) <=>
        \/ Before(c.desc, Values[i][c.column], Values[j][c.column])
        \/ /\ Values[i][c.column] = Values[j][c.column]
           /\ Before(d.desc, Values[i][d.column], Values[j][d.column])
  <2> DEFINE P(n) == /\ \A m \in 1..(n - 1) : Values[i][cs[m].column] = Values[j][cs[m].column]
                     /\ Before(cs[n].desc, Values[i][cs[n].column], Values[j][cs[n].column])
  <2>1. P(1) <=> Before(c.desc, Values[i][c.column], Values[j][c.column])
    BY <1>1, <1>3
  <2>2. P(2) <=> /\ Values[i][c.column] = Values[j][c.column]
                 /\ Before(d.desc, Values[i][d.column], Values[j][d.column])
    BY <1>1, <1>3
  <2>3. ComesBefore(cs, Values, i, j) <=> \E n \in 1..2 : P(n)
    BY <1>4
  <2> HIDE DEF P
  <2> QED
    BY <1>3, <2>1, <2>2, <2>3
<1> QED
  BY <1>2, <1>5 DEF cs

(* The order of a list ends with the id, so no two rows tie. *)
LEMMA ListOrderTotal ==
    ASSUME TypeOK, NEW clause \in Clause(Columns) \cup {NoOrdering},
           NEW i \in 1..Len(rows), NEW j \in 1..Len(rows)
    PROVE  LET cs == OrderBy(clause, <<>>, Columns)
           IN  /\ ~ComesBefore(cs, Values, i, i)
               /\ i # j => (ComesBefore(cs, Values, j, i) <=> ~ComesBefore(cs, Values, i, j))
<1> DEFINE cs == OrderBy(clause, <<>>, Columns)
<1>1. i \in Int /\ j \in Int
  BY DEF TypeOK
<1>2. CASE clause.column = "id"
  <2>1. cs = <<clause>>
    BY <1>2 DEF OrderBy, Columns
  <2> QED
    BY <1>1, <1>2, <2>1, OneClause DEF Before
<1>3. CASE clause.column \in Columns \ {"id"}
  <2>1. cs = <<clause, ById>> /\ ById.column = "id" /\ ById.desc = FALSE
    BY <1>3 DEF OrderBy, ById
  <2>2. Values[i][clause.column] \in Int /\ Values[j][clause.column] \in Int
    BY <1>3, ValueFacts
  <2> HIDE DEF cs
  <2>3. ASSUME NEW k \in 1..Len(rows), NEW l \in 1..Len(rows)
        PROVE  ComesBefore(cs, Values, k, l) <=>
                 \/ Before(clause.desc, Values[k][clause.column], Values[l][clause.column])
                 \/ Values[k][clause.column] = Values[l][clause.column] /\ Before(FALSE, k, l)
    <3>1. clause.column \in Columns /\ ById.column = "id"
      BY <1>3, <2>1
    <3>2. ComesBefore(<<clause, ById>>, Values, k, l) <=>
             \/ Before(clause.desc, Values[k][clause.column], Values[l][clause.column])
             \/ Values[k][clause.column] = Values[l][clause.column] /\ Before(ById.desc, k, l)
      BY <3>1, TwoClauses
    <3> QED
      BY <2>1, <3>2
  <2> DEFINE u == Values[i][clause.column]
             v == Values[j][clause.column]
  <2>4. /\ ~Before(clause.desc, u, u) /\ ~Before(FALSE, i, i)
        /\ i # j => ((Before(clause.desc, v, u) \/ (v = u /\ Before(FALSE, j, i))) <=>
                     ~(Before(clause.desc, u, v) \/ (u = v /\ Before(FALSE, i, j))))
    <3>1. u \in Int /\ v \in Int
      BY <2>2
    <3> HIDE DEF u, v
    <3> QED
      BY <1>1, <3>1 DEF Before
  <2> QED
    BY <2>3, <2>4 DEF cs
<1>4. CASE clause.column \notin Columns
  <2>1. cs = <<ById>> /\ ById.column = "id" /\ ById.desc = FALSE
    BY <1>4 DEF OrderBy, ById, Columns
  <2> QED
    BY <1>1, <2>1, OneClause DEF Before
<1> QED
  BY <1>2, <1>3, <1>4 DEF Columns

(* Then a row has one place among any rows, and is on one page. *)
LEMMA OnePage ==
    ASSUME TypeOK, NEW clause \in Clause(Columns) \cup {NoOrdering},
           NEW ids \in SUBSET (1..Len(rows)), NEW i \in ids, NEW limit
    PROVE  Cardinality(PagesOf(ids, OrderBy(clause, <<>>, Columns), Values, limit, i)) = 1
<1> DEFINE cs == OrderBy(clause, <<>>, Columns)
           earlier == {j \in ids : ComesBefore(cs, Values, j, i)}
           n == Cardinality(earlier)
<1>1. {j \in ids \ {i} : ~ComesBefore(cs, Values, i, j)} = earlier
  <2>1. \A j \in ids : /\ ~ComesBefore(cs, Values, i, i)
                       /\ i # j => (ComesBefore(cs, Values, j, i) <=> ~ComesBefore(cs, Values, i, j))
    BY ListOrderTotal
  <2> HIDE DEF cs
  <2> QED
    BY <2>1
<1>2. n \in Nat
  <2>1. IsFiniteSet(1..Len(rows))
    <3>1. Len(rows) \in Int /\ 1 \in Int
      BY DEF TypeOK
    <3> QED
      BY <3>1, FS_Interval
  <2>2. earlier \subseteq 1..Len(rows)
    OBVIOUS
  <2> QED
    BY <2>1, <2>2, FS_Subset, FS_CardinalityType
<1>3. Places(ids, cs, Values, i) = n..n
  BY <1>1 DEF Places
<1> HIDE DEF n
<1>4. Places(ids, cs, Values, i) = {n}
  BY <1>2, <1>3
<1>5. PagesOf(ids, cs, Values, limit, i) = {n \div limit}
  BY <1>4 DEF PagesOf
<1>6. Cardinality({n \div limit}) = 1
  BY FS_Singleton
<1> QED
  BY <1>5, <1>6

(* Going through the pages of a list meets every row that stays, once. *)
THEOREM PagesMeetEveryRowOnce == Spec => []PagesPartition
<1>1. TypeOK => PagesPartition
  <2> SUFFICES ASSUME TypeOK, NEW table \in Tables, NEW clause \in Clause(Columns) \cup {NoOrdering},
                      NEW limit \in 1..MaxRows,
                      NEW filters \in {{}} \cup {{<<"parent", p>>} : p \in 0..MaxRows},
                      NEW i \in Selected(Live(0, table), Values, filters)
               PROVE  Cardinality(PagesOf(Selected(Live(0, table), Values, filters),
                                          OrderBy(clause, <<>>, Columns), Values, limit, i)) = 1
    BY DEF PagesPartition
  <2>1. Selected(Live(0, table), Values, filters) \in SUBSET (1..Len(rows))
    BY DEF Selected, Live
  <2> QED
    BY <2>1, OnePage
<1> QED
  BY <1>1, RecordsTypeCorrect, PTL

-----------------------------------------------------------------------------
(* Roles and members: the inductive invariants *)

(* A request is about a role or about a user, wants keys or roles, and has *)
(* an id once it has read a membership.                                    *)
Fits ==
    \A s \in RoleSlots : roleReq[s] # NoOp =>
        /\ roleReq[s].kind \in {"matrix", "permissions", "delete_role"} => roleReq[s].target \in Roles
        /\ roleReq[s].kind \in {"add", "role_ids", "is_active", "remove"} => roleReq[s].target \in People
        /\ roleReq[s].kind \in {"matrix", "permissions"} => roleReq[s].want \subseteq RoleKeys
        /\ roleReq[s].kind \in {"add", "role_ids"} => roleReq[s].want \subseteq Roles
        /\ roleReq[s].pc = "write" /\ roleReq[s].kind = "role_ids" => roleReq[s].id \in MemberIds

RolesInv == RbacTypeOK /\ Fits

DistinctIds ==
    \A u, v \in People : member[u] = member[v] /\ member[u] # NoMember => u = v

(* No id is from the future. *)
KnownIds ==
    /\ \A u \in People : member[u] # NoMember => member[u] <= lastId
    /\ \A l \in links : l[1] <= lastId
    /\ \A s \in RoleSlots : roleReq[s] # NoOp /\ roleReq[s].id # NoMember => roleReq[s].id <= lastId

(* What a request is going to link is asked for, if the membership it has  *)
(* read is still somebody's.                                               *)
AskedFor ==
    \A s \in RoleSlots :
        roleReq[s] # NoOp /\ roleReq[s].pc = "write" /\ roleReq[s].kind \in {"add", "role_ids"} =>
            \A u \in People : member[u] = roleReq[s].id /\ member[u] # NoMember =>
                roleReq[s].want \subseteq asked[u]

JoinInv == RolesInv /\ DistinctIds /\ KnownIds /\ AskedFor /\ OnlyRolesSinceJoining

-----------------------------------------------------------------------------
(* Roles and members: type correctness *)

LEMMA Freed ==
    ASSUME RolesInv, NEW s \in RoleSlots, Done(s)
    PROVE  /\ roleReq' \in [RoleSlots -> RoleRequest \cup {NoOp}]
           /\ \A o \in RoleSlots : roleReq'[o] = IF o = s THEN NoOp ELSE roleReq[o]
BY DEF RolesInv, RbacTypeOK, Done

(* A slot that is free fits, the others are as they were. *)
LEMMA FreedFits ==
    ASSUME RolesInv, NEW s \in RoleSlots, Done(s) PROVE Fits'
<1>1. \A o \in RoleSlots : roleReq'[o] = IF o = s THEN NoOp ELSE roleReq[o]
  BY Freed
<1> QED
  BY <1>1 DEF RolesInv, Fits

LEMMA SetLinksEffect ==
    ASSUME NEW id, NEW seen, NEW want, SetLinks(id, seen, want)
    PROVE  \A l \in links' : l \in links \/ \E r \in want : l = <<id, r>>
BY DEF SetLinks

LEMMA SetLinksType ==
    ASSUME RbacTypeOK, NEW id \in MemberIds, NEW seen, NEW want \in SUBSET Roles, SetLinks(id, seen, want)
    PROVE  links' \subseteq MemberIds \X Roles
<1>1. \A l \in links' : l \in links \/ \E r \in want : l = <<id, r>>
  BY SetLinksEffect
<1> QED
  BY <1>1 DEF RbacTypeOK

LEMMA InitRolesInv ==
    ASSUME RbacAssumption PROVE RbacInit => RolesInv
BY RbacAssumption DEF RbacAssumption, RbacInit, RolesInv, RbacTypeOK, Fits

LEMMA SendRolesInv ==
    ASSUME RolesInv, NEW s \in RoleSlots, Send(s) PROVE RolesInv'
<1>1. PICK kind \in Kinds, on \in BOOLEAN :
         \E t \in RoleTargets(kind) : \E want \in Wants(kind, t) :
         roleReq' = [roleReq EXCEPT ![s] =
                  [kind |-> kind, target |-> t, want |-> want, on |-> on,
                   pc |-> "context", id |-> NoMember, seen |-> {}, wasOn |-> FALSE]]
  BY DEF Send
<1>a. PICK t \in RoleTargets(kind) : \E want \in Wants(kind, t) :
         roleReq' = [roleReq EXCEPT ![s] =
                  [kind |-> kind, target |-> t, want |-> want, on |-> on,
                   pc |-> "context", id |-> NoMember, seen |-> {}, wasOn |-> FALSE]]
  BY <1>1
<1>b. PICK want \in Wants(kind, t) :
         roleReq' = [roleReq EXCEPT ![s] =
                  [kind |-> kind, target |-> t, want |-> want, on |-> on,
                   pc |-> "context", id |-> NoMember, seen |-> {}, wasOn |-> FALSE]]
  BY <1>a
<1>2. /\ kind \in {"matrix", "permissions", "delete_role"} => t \in Roles
      /\ kind \in {"add", "role_ids", "is_active", "remove"} => t \in People
  BY DEF RoleTargets, Kinds
<1>3. /\ kind \in {"matrix", "permissions"} => want \subseteq RoleKeys
      /\ kind \in {"add", "role_ids"} => want \subseteq Roles
      /\ kind \in {"is_active", "remove", "delete_role"} => want = {}
  BY <1>2 DEF Wants, RoleKeys, RolesInv, RbacTypeOK
<1>4. t \in Roles \cup People /\ want \in SUBSET (RoleKeys \cup Roles)
  BY <1>2, <1>3 DEF Kinds
<1>5. roleReq' \in [RoleSlots -> RoleRequest \cup {NoOp}]
  BY <1>b, <1>4 DEF RolesInv, RbacTypeOK, RoleRequest
<1>6. UNCHANGED <<catalog, role, roleKeys, member, active, links, lastId, asked>>
  BY DEF Send, store
<1>7. RbacTypeOK'
  BY <1>5, <1>6 DEF RolesInv, RbacTypeOK
<1>8. Fits'
  BY <1>b, <1>2, <1>3 DEF RolesInv, RbacTypeOK, Fits
<1> QED
  BY <1>7, <1>8 DEF RolesInv

LEMMA RefuseRolesInv ==
    ASSUME RolesInv, NEW s \in RoleSlots, Forbid(s) PROVE RolesInv'
<1>1. Done(s)
  BY DEF Forbid, Done
<1>2. UNCHANGED <<catalog, role, roleKeys, member, active, links, lastId, asked>>
  BY DEF Forbid, store
<1> QED
  BY <1>1, <1>2, Freed, FreedFits DEF RolesInv, RbacTypeOK

LEMMA RequestRead ==
    ASSUME NEW q \in RoleRequest, NEW seen, NEW id, NEW wasOn, NEW read,
           read = [q EXCEPT !.pc = "write", !.seen = seen, !.id = id, !.wasOn = wasOn]
    PROVE  read = [kind |-> q.kind, target |-> q.target, want |-> q.want, on |-> q.on,
                pc |-> "write", id |-> id, seen |-> seen, wasOn |-> wasOn]
BY DEF RoleRequest

LEMMA ReadEffect ==
    ASSUME RbacAssumption, RolesInv, NEW s \in RoleSlots, Read(s)
    PROVE  \E id \in MemberIds \cup {NoMember}, seen \in SUBSET (RoleKeys \cup Roles), wasOn \in BOOLEAN :
        /\ roleReq[s].target \in People => id = member[roleReq[s].target]
        /\ roleReq[s].target \notin People => id = NoMember
        /\ roleReq' = [roleReq EXCEPT ![s] =
              [kind |-> roleReq[s].kind, target |-> roleReq[s].target, want |-> roleReq[s].want,
               on |-> roleReq[s].on, pc |-> "write", id |-> id, seen |-> seen, wasOn |-> wasOn]]
        /\ roleReq[s] \in RoleRequest
<1> DEFINE q == roleReq[s]
<1> DEFINE about == IF q.target \in People THEN q.target ELSE NoMember
<1> DEFINE id == IF about = NoMember THEN NoMember ELSE member[about]
<1> DEFINE wasOn == IF about = NoMember THEN FALSE ELSE active[about]
<1>1. q \in RoleRequest
  BY DEF RolesInv, RbacTypeOK, Read
<1>2. NoMember \notin People
  BY RbacAssumption DEF RbacAssumption
<1>3. id \in MemberIds \cup {NoMember} /\ wasOn \in BOOLEAN
  BY <1>2 DEF RolesInv, RbacTypeOK
<1>4. Seen(q) \in SUBSET (RoleKeys \cup Roles)
  BY <1>1 DEF Seen, RolesOf, Fits, RolesInv, RbacTypeOK, Read
<1>5. /\ q.target \in People => id = member[q.target]
      /\ q.target \notin People => id = NoMember
  BY <1>2
<1>6. roleReq' = [roleReq EXCEPT ![s] = [q EXCEPT !.pc = "write", !.seen = Seen(q), !.id = id, !.wasOn = wasOn]]
  BY DEF Read, RolesInv, RbacTypeOK
<1> HIDE DEF id, wasOn
<1>7. [q EXCEPT !.pc = "write", !.seen = Seen(q), !.id = id, !.wasOn = wasOn]
        = [kind |-> q.kind, target |-> q.target, want |-> q.want, on |-> q.on,
           pc |-> "write", id |-> id, seen |-> Seen(q), wasOn |-> wasOn]
  BY <1>1, RequestRead
<1> QED
  BY <1>1, <1>3, <1>4, <1>5, <1>6, <1>7

LEMMA ReadRolesInv ==
    ASSUME RbacAssumption, RolesInv, NEW s \in RoleSlots, Read(s) PROVE RolesInv'
<1>1. PICK id \in MemberIds \cup {NoMember}, seen \in SUBSET (RoleKeys \cup Roles), wasOn \in BOOLEAN :
        /\ roleReq[s].target \in People => id = member[roleReq[s].target]
        /\ roleReq' = [roleReq EXCEPT ![s] =
              [kind |-> roleReq[s].kind, target |-> roleReq[s].target, want |-> roleReq[s].want,
               on |-> roleReq[s].on, pc |-> "write", id |-> id, seen |-> seen, wasOn |-> wasOn]]
        /\ roleReq[s] \in RoleRequest
  BY ReadEffect
<1>2. roleReq' \in [RoleSlots -> RoleRequest \cup {NoOp}]
  BY <1>1 DEF RolesInv, RbacTypeOK, RoleRequest
<1>3. UNCHANGED <<catalog, role, roleKeys, member, active, links, lastId>>
  BY DEF Read, store
<1>4. asked' \in [People -> SUBSET Roles]
  BY DEF Read, RolesInv, RbacTypeOK, Fits
<1>5. roleReq[s].kind = "role_ids" => id \in MemberIds
  <2> SUFFICES ASSUME roleReq[s].kind = "role_ids" PROVE id \in MemberIds
    OBVIOUS
  <2>1. roleReq[s].target \in People /\ member[roleReq[s].target] # NoMember
    BY DEF Read, Resolves, RolesInv, Fits
  <2> QED
    BY <1>1, <2>1
<1>6. Fits'
  <2>1. roleReq[s] # NoOp
    BY DEF Read
  <2>2. ASSUME NEW o \in RoleSlots \ {s} PROVE roleReq'[o] = roleReq[o]
    BY <1>1 DEF RolesInv, RbacTypeOK
  <2>3. roleReq'[s] = [kind |-> roleReq[s].kind, target |-> roleReq[s].target, want |-> roleReq[s].want,
                   on |-> roleReq[s].on, pc |-> "write", id |-> id, seen |-> seen, wasOn |-> wasOn]
    BY <1>1 DEF RolesInv, RbacTypeOK
  <2> QED
    BY <1>5, <2>1, <2>2, <2>3 DEF RolesInv, Fits
<1> QED
  BY <1>2, <1>3, <1>4, <1>6 DEF RolesInv, RbacTypeOK

LEMMA UpdatePermissionsRolesInv ==
    ASSUME RolesInv, NEW s \in RoleSlots, UpdatePermissions(s) PROVE RolesInv'
<1>1. Done(s) /\ UNCHANGED <<catalog, role, member, active, links, lastId, asked>>
  BY DEF UpdatePermissions
<1>2. roleReq[s].target \in Roles /\ roleReq[s].want \subseteq RoleKeys
  BY DEF UpdatePermissions, Writing, RolesInv, Fits
<1>3. roleKeys' = [roleKeys EXCEPT ![roleReq[s].target] = Diff(@, roleReq[s].seen, roleReq[s].want)]
  BY DEF UpdatePermissions
<1>4. Diff(roleKeys[roleReq[s].target], roleReq[s].seen, roleReq[s].want) \in SUBSET RoleKeys
  BY <1>2 DEF Diff, RolesInv, RbacTypeOK
<1>5. roleKeys' \in [Roles -> SUBSET RoleKeys]
  BY <1>3, <1>4 DEF RolesInv, RbacTypeOK
<1> QED
  BY <1>1, <1>5, Freed, FreedFits DEF RolesInv, RbacTypeOK

(* The id and the roles an AddMember links, and what it leaves alone. *)
LEMMA AddMemberEffect ==
    ASSUME RbacAssumption, RolesInv, NEW s \in RoleSlots, AddMember(s)
    PROVE  \E id \in MemberIds :
        /\ id = IF roleReq[s].id = NoMember THEN lastId + 1 ELSE roleReq[s].id
        /\ roleReq[s].target \in People /\ roleReq[s].want \in SUBSET Roles
        /\ roleReq[s].pc = "write" /\ roleReq[s].kind = "add" /\ roleReq[s] # NoOp
        /\ Done(s)
        /\ links' \subseteq MemberIds \X Roles
        /\ \A l \in links' : l \in links \/ \E r \in roleReq[s].want : l = <<id, r>>
<1>1. /\ roleReq[s].target \in People /\ roleReq[s].want \in SUBSET Roles
      /\ roleReq[s].pc = "write" /\ roleReq[s].kind = "add" /\ roleReq[s] # NoOp
  BY DEF AddMember, Writing, RolesInv, Fits
<1>2. roleReq[s] \in RoleRequest
  BY <1>1 DEF RolesInv, RbacTypeOK
<1> DEFINE id == IF roleReq[s].id = NoMember THEN lastId + 1 ELSE roleReq[s].id
<1>3. id \in MemberIds
  <2>1. CASE roleReq[s].id = NoMember
    <3>1. lastId < MaxIds
      BY <2>1 DEF AddMember
    <3> QED
      BY <2>1, <3>1, RbacAssumption DEF RbacAssumption, RolesInv, RbacTypeOK, MemberIds
  <2>2. CASE roleReq[s].id # NoMember
    BY <1>2, <2>2 DEF RoleRequest
  <2> QED
    BY <2>1, <2>2
<1>4. IF roleReq[s].want = {} THEN UNCHANGED links ELSE SetLinks(id, roleReq[s].seen, roleReq[s].want)
  BY DEF AddMember
<1> HIDE DEF id
<1>5. links' \subseteq MemberIds \X Roles
  BY <1>1, <1>3, <1>4, SetLinksType DEF RolesInv, RbacTypeOK
<1>6. \A l \in links' : l \in links \/ \E r \in roleReq[s].want : l = <<id, r>>
  BY <1>4, SetLinksEffect
<1>7. Done(s)
  BY DEF AddMember
<1> QED
  BY <1>1, <1>3, <1>5, <1>6, <1>7 DEF id

LEMMA AddMemberRolesInv ==
    ASSUME RbacAssumption, RolesInv, NEW s \in RoleSlots, AddMember(s) PROVE RolesInv'
<1>1. PICK id \in MemberIds :
        /\ id = IF roleReq[s].id = NoMember THEN lastId + 1 ELSE roleReq[s].id
        /\ roleReq[s].target \in People /\ roleReq[s].want \in SUBSET Roles
        /\ Done(s) /\ links' \subseteq MemberIds \X Roles
  BY AddMemberEffect
<1>2. UNCHANGED <<catalog, role, roleKeys>>
  BY DEF AddMember
<1>3. CASE roleReq[s].id = NoMember
  <2>1. /\ lastId < MaxIds /\ lastId' = lastId + 1
        /\ member' = [member EXCEPT ![roleReq[s].target] = lastId + 1]
        /\ active' = [active EXCEPT ![roleReq[s].target] = TRUE]
        /\ asked' = [asked EXCEPT ![roleReq[s].target] = roleReq[s].want]
    BY <1>3 DEF AddMember
  <2>2. lastId' \in 0..MaxIds
    BY <2>1, RbacAssumption DEF RbacAssumption, RolesInv, RbacTypeOK
  <2>3. member' \in [People -> MemberIds \cup {NoMember}]
    BY <1>1, <1>3, <2>1 DEF RolesInv, RbacTypeOK
  <2> QED
    BY <1>1, <1>2, <2>1, <2>2, <2>3, Freed, FreedFits DEF RolesInv, RbacTypeOK
<1>4. CASE roleReq[s].id # NoMember
  <2>1. /\ active' = IF roleReq[s].wasOn THEN active ELSE [active EXCEPT ![roleReq[s].target] = TRUE]
        /\ UNCHANGED <<member, lastId, asked>>
    BY <1>4 DEF AddMember
  <2> QED
    BY <1>1, <1>2, <2>1, Freed, FreedFits DEF RolesInv, RbacTypeOK
<1> QED
  BY <1>3, <1>4

LEMMA SetRolesEffect ==
    ASSUME RolesInv, NEW s \in RoleSlots, SetRoles(s)
    PROVE  /\ roleReq[s].id \in MemberIds /\ roleReq[s].want \in SUBSET Roles
           /\ roleReq[s].pc = "write" /\ roleReq[s].kind = "role_ids" /\ roleReq[s] # NoOp
           /\ Done(s)
           /\ links' \subseteq MemberIds \X Roles
           /\ \A l \in links' : l \in links \/ \E r \in roleReq[s].want : l = <<roleReq[s].id, r>>
<1>1. /\ roleReq[s].id \in MemberIds /\ roleReq[s].want \in SUBSET Roles
      /\ roleReq[s].pc = "write" /\ roleReq[s].kind = "role_ids" /\ roleReq[s] # NoOp
  BY DEF SetRoles, Writing, RolesInv, Fits
<1>2. SetLinks(roleReq[s].id, roleReq[s].seen, roleReq[s].want) /\ Done(s)
  BY DEF SetRoles
<1>3. links' \subseteq MemberIds \X Roles
  BY <1>1, <1>2, SetLinksType DEF RolesInv
<1> QED
  BY <1>1, <1>2, <1>3, SetLinksEffect

LEMMA SetRolesRolesInv ==
    ASSUME RolesInv, NEW s \in RoleSlots, SetRoles(s) PROVE RolesInv'
<1>1. UNCHANGED <<catalog, role, roleKeys, member, active, lastId, asked>>
  BY DEF SetRoles
<1> QED
  BY <1>1, SetRolesEffect, Freed, FreedFits DEF RolesInv, RbacTypeOK

LEMMA SetActiveRolesInv ==
    ASSUME RolesInv, NEW s \in RoleSlots, SetActive(s) PROVE RolesInv'
<1>1. Done(s) /\ UNCHANGED <<catalog, role, roleKeys, member, links, lastId, asked>>
  BY DEF SetActive
<1>2. roleReq[s] \in RoleRequest /\ roleReq[s].on \in BOOLEAN
  BY DEF SetActive, Writing, RolesInv, RbacTypeOK, RoleRequest
<1>3. active' \in [People -> BOOLEAN]
  BY <1>2 DEF SetActive, RolesInv, RbacTypeOK
<1> QED
  BY <1>1, <1>3, Freed, FreedFits DEF RolesInv, RbacTypeOK

LEMMA RemoveMemberRolesInv ==
    ASSUME RolesInv, NEW s \in RoleSlots, RemoveMember(s) PROVE RolesInv'
<1>1. Done(s) /\ UNCHANGED <<catalog, role, roleKeys, lastId>>
  BY DEF RemoveMember
<1>2. links' \subseteq MemberIds \X Roles
  BY DEF RemoveMember, RolesInv, RbacTypeOK
<1>3. /\ member' \in [People -> MemberIds \cup {NoMember}]
      /\ active' \in [People -> BOOLEAN]
      /\ asked' \in [People -> SUBSET Roles]
  BY DEF RemoveMember, RolesInv, RbacTypeOK
<1> QED
  BY <1>1, <1>2, <1>3, Freed, FreedFits DEF RolesInv, RbacTypeOK

LEMMA DeleteRoleRolesInv ==
    ASSUME RolesInv, NEW s \in RoleSlots, DeleteRole(s) PROVE RolesInv'
<1>1. Done(s) /\ UNCHANGED <<catalog, member, active, lastId, asked>>
  BY DEF DeleteRole
<1>2. /\ role' \in [Roles -> {"none", "custom", "system"}]
      /\ roleKeys' \in [Roles -> SUBSET RoleKeys]
      /\ links' \subseteq MemberIds \X Roles
  BY DEF DeleteRole, RolesInv, RbacTypeOK
<1> QED
  BY <1>1, <1>2, Freed, FreedFits DEF RolesInv, RbacTypeOK

(* Roles and keys made outside the requests. *)
LEMMA RolesRolesInv ==
    ASSUME RbacAssumption, RolesInv, CreateRole \/ SeedRoles \/ Sync({Keys}) PROVE RolesInv'
<1>1. UNCHANGED <<member, active, links, lastId, roleReq, asked>>
  BY DEF CreateRole, SeedRoles, Sync
<1>2. /\ role' \in [Roles -> {"none", "custom", "system"}]
      /\ catalog' \subseteq Keys
      /\ roleKeys' \in [Roles -> SUBSET RoleKeys]
  BY RbacAssumption DEF RbacAssumption, CreateRole, SeedRoles, Sync, SyncCatalog, RoleKeys, RolesInv, RbacTypeOK
<1> QED
  BY <1>1, <1>2 DEF RolesInv, RbacTypeOK, Fits

LEMMA RolesInvStep ==
    ASSUME RbacAssumption PROVE RolesInv /\ [RbacNext]_rbacVars => RolesInv'
<1> SUFFICES ASSUME RolesInv, [RbacNext]_rbacVars PROVE RolesInv'
  OBVIOUS
<1>1. ASSUME NEW s \in RoleSlots, Send(s) \/ Read(s) \/ Forbid(s)
      PROVE  RolesInv'
  BY <1>1, SendRolesInv, ReadRolesInv, RefuseRolesInv
<1>2. ASSUME NEW s \in RoleSlots, Write(s)
      PROVE  RolesInv'
  BY <1>2, UpdatePermissionsRolesInv, AddMemberRolesInv, SetRolesRolesInv, SetActiveRolesInv,
     RemoveMemberRolesInv, DeleteRoleRolesInv DEF Write
<1>3. CASE UNCHANGED rbacVars
  BY <1>3 DEF rbacVars, RolesInv, RbacTypeOK, Fits
<1> QED
  BY <1>1, <1>2, <1>3, RolesRolesInv DEF RbacNext

(* Every reachable state is well typed: role links refer to ids that have   *)
(* been given, whatever overlaps.                                           *)
THEOREM RolesTypeCorrect ==
    ASSUME RbacAssumption PROVE RbacSpec => []RbacTypeOK
<1>1. RolesInv => RbacTypeOK
  BY DEF RolesInv
<1> QED
  BY <1>1, InitRolesInv, RolesInvStep, PTL DEF RbacSpec

-----------------------------------------------------------------------------
(* What a step may give to a role *)

Given(r) ==
    \A k \in roleKeys'[r] \ roleKeys[r] :
        \/ r = SystemRole
        \/ \E s \in RoleSlots : /\ roleReq[s] # NoOp
                                /\ roleReq'[s] = NoOp
                                /\ k \in roleReq[s].want \ roleReq[s].seen

LEMMA UpdateGives ==
    ASSUME RolesInv, NEW s \in RoleSlots, UpdatePermissions(s), NEW r \in Roles
    PROVE  Given(r)
<1>1. roleReq[s] # NoOp /\ roleReq'[s] = NoOp
  BY Freed DEF UpdatePermissions, Writing
<1>2. roleKeys' = [roleKeys EXCEPT ![roleReq[s].target] = Diff(@, roleReq[s].seen, roleReq[s].want)]
  BY DEF UpdatePermissions
<1>3. \A k \in roleKeys'[r] \ roleKeys[r] : k \in roleReq[s].want \ roleReq[s].seen
  BY <1>2 DEF Diff, RolesInv, RbacTypeOK
<1> QED
  BY <1>1, <1>3 DEF Given

LEMMA StepGives ==
    ASSUME RolesInv, [RbacNext]_rbacVars, NEW r \in Roles
    PROVE  Given(r)
<1>1. ASSUME NEW s \in RoleSlots, Send(s) \/ Read(s) \/ Forbid(s) PROVE Given(r)
  BY <1>1 DEF Send, Read, Forbid, store, Given
<1>2. ASSUME NEW s \in RoleSlots, AddMember(s) \/ SetRoles(s) \/ SetActive(s) \/ RemoveMember(s)
      PROVE  Given(r)
  BY <1>2 DEF AddMember, SetRoles, SetActive, RemoveMember, Given
<1>3. ASSUME NEW s \in RoleSlots, DeleteRole(s) PROVE Given(r)
  BY <1>3 DEF DeleteRole, Given, RolesInv, RbacTypeOK
<1>4. CASE CreateRole \/ Sync({Keys}) \/ UNCHANGED rbacVars
  BY <1>4 DEF CreateRole, Sync, rbacVars, Given
<1>5. CASE SeedRoles
  BY <1>5 DEF SeedRoles, Given, RolesInv, RbacTypeOK
<1> QED
  BY <1>1, <1>2, <1>3, <1>4, <1>5, UpdateGives DEF RbacNext, Write

(* Whatever requests overlap, a key taken from a custom role comes back only *)
(* by one that has seen it missing and asks for it.                          *)
THEOREM RevocationIsNotUndone ==
    ASSUME RbacAssumption PROVE RbacSpec => RevocationNotUndone
<1>1. RolesInv /\ [RbacNext]_rbacVars =>
        [\A r \in Roles : \A k \in roleKeys'[r] \ roleKeys[r] :
            \/ r = SystemRole
            \/ \E s \in RoleSlots : /\ roleReq[s] # NoOp
                                    /\ roleReq'[s] = NoOp
                                    /\ k \in roleReq[s].want \ roleReq[s].seen]_rbacVars
  BY StepGives DEF Given
<1> QED
  BY <1>1, InitRolesInv, RolesInvStep, PTL DEF RbacSpec, RevocationNotUndone

-----------------------------------------------------------------------------
(* The roles of a member *)

LEMMA InitJoinInv ==
    ASSUME RbacAssumption PROVE RbacInit => JoinInv
<1> SUFFICES ASSUME RbacInit PROVE JoinInv
  OBVIOUS
<1>1. DistinctIds /\ KnownIds /\ AskedFor /\ OnlyRolesSinceJoining
  BY DEF RbacInit, DistinctIds, KnownIds, AskedFor, OnlyRolesSinceJoining
<1> QED
  BY <1>1, InitRolesInv DEF JoinInv

(* A step that ends a request at most, and leaves members and links alone. *)
LEMMA BystandersJoin ==
    ASSUME JoinInv, RolesInv', UNCHANGED <<member, links, lastId, asked>>,
           \A s \in RoleSlots : roleReq'[s] # NoOp => roleReq'[s] = roleReq[s]
    PROVE  JoinInv'
<1>1. DistinctIds' /\ OnlyRolesSinceJoining'
  BY DEF JoinInv, DistinctIds, OnlyRolesSinceJoining, RolesOf
<1>2. KnownIds' /\ AskedFor'
  BY DEF JoinInv, KnownIds, AskedFor
<1> QED
  BY <1>1, <1>2 DEF JoinInv

LEMMA SendJoin ==
    ASSUME JoinInv, NEW s \in RoleSlots, Send(s) PROVE JoinInv'
<1>1. RolesInv /\ RolesInv'
  BY SendRolesInv DEF JoinInv
<1>2. UNCHANGED <<member, links, lastId, asked>>
  BY DEF Send, store
<1>3. /\ \A o \in RoleSlots \ {s} : roleReq'[o] = roleReq[o]
      /\ roleReq'[s].pc = "context" /\ roleReq'[s].id = NoMember
  BY <1>1 DEF Send, RolesInv, RbacTypeOK
<1>4. DistinctIds' /\ OnlyRolesSinceJoining'
  BY <1>2 DEF JoinInv, DistinctIds, OnlyRolesSinceJoining, RolesOf
<1>5. KnownIds' /\ AskedFor'
  BY <1>2, <1>3 DEF JoinInv, KnownIds, AskedFor
<1> QED
  BY <1>1, <1>4, <1>5 DEF JoinInv

(* Reading an id somebody has makes what the request wants asked for. *)
LEMMA ReadJoin ==
    ASSUME RbacAssumption, JoinInv, NEW s \in RoleSlots, Read(s) PROVE JoinInv'
<1>1. RolesInv /\ RolesInv'
  BY ReadRolesInv DEF JoinInv
<1>2. PICK id \in MemberIds \cup {NoMember}, seen \in SUBSET (RoleKeys \cup Roles), wasOn \in BOOLEAN :
        /\ roleReq[s].target \in People => id = member[roleReq[s].target]
        /\ roleReq[s].target \notin People => id = NoMember
        /\ roleReq' = [roleReq EXCEPT ![s] =
              [kind |-> roleReq[s].kind, target |-> roleReq[s].target, want |-> roleReq[s].want,
               on |-> roleReq[s].on, pc |-> "write", id |-> id, seen |-> seen, wasOn |-> wasOn]]
        /\ roleReq[s] \in RoleRequest
  BY <1>1, ReadEffect
<1>3. roleReq[s] # NoOp /\ UNCHANGED <<member, links, lastId>>
  BY DEF Read, store
<1>4. /\ \A o \in RoleSlots \ {s} : roleReq'[o] = roleReq[o]
      /\ roleReq'[s] = [kind |-> roleReq[s].kind, target |-> roleReq[s].target, want |-> roleReq[s].want,
                    on |-> roleReq[s].on, pc |-> "write", id |-> id, seen |-> seen, wasOn |-> wasOn]
  BY <1>1, <1>2 DEF RolesInv, RbacTypeOK
<1>5. asked' = IF roleReq[s].kind \in {"add", "role_ids"} /\ member[roleReq[s].target] # NoMember
               THEN [asked EXCEPT ![roleReq[s].target] = @ \cup roleReq[s].want] ELSE asked
  BY DEF Read
<1>6. \A u \in People : asked[u] \subseteq asked'[u]
  BY <1>1, <1>5 DEF RolesInv, RbacTypeOK
<1>7. DistinctIds'
  BY <1>3 DEF JoinInv, DistinctIds
<1>8. OnlyRolesSinceJoining'
  BY <1>3, <1>6 DEF JoinInv, OnlyRolesSinceJoining, RolesOf
<1>9. KnownIds'
  <2>1. id # NoMember => id <= lastId
    BY <1>2 DEF JoinInv, KnownIds
  <2> QED
    BY <1>3, <1>4, <2>1 DEF JoinInv, KnownIds
<1>10. AskedFor'
  <2>1. ASSUME roleReq[s].kind \in {"add", "role_ids"}, NEW u \in People, member[u] = id,
               member[u] # NoMember
        PROVE  roleReq[s].want \subseteq asked'[u]
    <3>1. roleReq[s].target \in People /\ u = roleReq[s].target
      BY <1>2, <1>3, <2>1 DEF JoinInv, DistinctIds, RolesInv, Fits
    <3> QED
      BY <1>1, <1>5, <2>1, <3>1 DEF RolesInv, RbacTypeOK
  <2>2. ASSUME NEW o \in RoleSlots \ {s}, roleReq[o] # NoOp, roleReq[o].pc = "write",
               roleReq[o].kind \in {"add", "role_ids"}, NEW u \in People, member[u] = roleReq[o].id,
               member[u] # NoMember
        PROVE  roleReq[o].want \subseteq asked'[u]
    BY <1>6, <2>2 DEF JoinInv, AskedFor
  <2> QED
    BY <1>3, <1>4, <2>1, <2>2 DEF AskedFor
<1> QED
  BY <1>1, <1>7, <1>8, <1>9, <1>10 DEF JoinInv

(* Links come from a request whose roles are asked for, if its membership  *)
(* is somebody's.                                                          *)
LEMMA LinkedAsAsked ==
    ASSUME RbacAssumption, JoinInv, NEW s \in RoleSlots, NEW id \in MemberIds, UNCHANGED <<member, lastId, asked>>,
           roleReq[s] # NoOp, roleReq[s].pc = "write", roleReq[s].kind \in {"add", "role_ids"},
           roleReq[s].id = id, RolesInv', Done(s),
           \A l \in links' : l \in links \/ \E r \in roleReq[s].want : l = <<id, r>>
    PROVE  JoinInv'
<1>1. \A o \in RoleSlots : roleReq'[o] = IF o = s THEN NoOp ELSE roleReq[o]
  BY Freed DEF JoinInv
<1>2. id # NoMember
  BY RbacAssumption DEF RbacAssumption, MemberIds
<1>3. DistinctIds' /\ AskedFor'
  BY <1>1 DEF JoinInv, DistinctIds, AskedFor
<1>4. KnownIds'
  <2>1. id <= lastId
    BY <1>2 DEF JoinInv, KnownIds
  <2>2. \A l \in links' : l[1] <= lastId
    BY <2>1 DEF JoinInv, KnownIds
  <2> QED
    BY <1>1, <2>2 DEF JoinInv, KnownIds
<1>5. OnlyRolesSinceJoining'
  <2> SUFFICES ASSUME NEW u \in People, member[u] # NoMember, NEW r \in Roles,
                      <<member[u], r>> \in links'
               PROVE  r \in asked[u]
    BY DEF OnlyRolesSinceJoining, RolesOf
  <2>1. CASE <<member[u], r>> \in links
    BY <2>1 DEF JoinInv, OnlyRolesSinceJoining, RolesOf
  <2>2. CASE \E w \in roleReq[s].want : <<member[u], r>> = <<id, w>>
    BY <2>2 DEF JoinInv, AskedFor
  <2> QED
    BY <2>1, <2>2
<1> QED
  BY <1>3, <1>4, <1>5 DEF JoinInv

LEMMA SetRolesJoin ==
    ASSUME RbacAssumption, JoinInv, NEW s \in RoleSlots, SetRoles(s) PROVE JoinInv'
<1>1. UNCHANGED <<member, lastId, asked>>
  BY DEF SetRoles
<1> QED
  BY <1>1, SetRolesEffect, SetRolesRolesInv, LinkedAsAsked DEF JoinInv

(* A new membership has an id no link and no request has. *)
LEMMA NewMemberJoin ==
    ASSUME RbacAssumption, JoinInv, NEW s \in RoleSlots, AddMember(s), roleReq[s].id = NoMember PROVE JoinInv'
<1>1. RolesInv /\ RolesInv'
  BY AddMemberRolesInv DEF JoinInv
<1> DEFINE u == roleReq[s].target
<1> DEFINE id == lastId + 1
<1>2. /\ lastId' = id
      /\ member' = [member EXCEPT ![u] = id]
      /\ asked' = [asked EXCEPT ![u] = roleReq[s].want]
      /\ lastId < MaxIds
  BY DEF AddMember
<1>3. /\ u \in People /\ roleReq[s].want \in SUBSET Roles
      /\ \A l \in links' : l \in links \/ \E r \in roleReq[s].want : l = <<id, r>>
      /\ \A o \in RoleSlots : roleReq'[o] = IF o = s THEN NoOp ELSE roleReq[o]
  BY <1>1, AddMemberEffect, Freed
<1>4. /\ lastId \in Nat /\ id \in Nat /\ id # NoMember
      /\ \A v \in People : member[v] # NoMember => member[v] \in Nat
      /\ \A o \in RoleSlots : roleReq[o] # NoOp /\ roleReq[o].id # NoMember => roleReq[o].id \in Nat
      /\ \A l \in links : l[1] \in Nat
  BY <1>1, RbacAssumption DEF RbacAssumption, RolesInv, RbacTypeOK, MemberIds, RoleRequest
<1>5. /\ member'[u] = id /\ asked'[u] = roleReq[s].want
      /\ \A v \in People \ {u} : member'[v] = member[v] /\ asked'[v] = asked[v]
  BY <1>1, <1>2, <1>3 DEF RolesInv, RbacTypeOK
<1>6. \A v \in People : member[v] # NoMember => member[v] <= lastId
  BY DEF JoinInv, KnownIds
<1>7. \A o \in RoleSlots : roleReq[o] # NoOp /\ roleReq[o].id # NoMember => roleReq[o].id <= lastId
  BY DEF JoinInv, KnownIds
<1>8. \A l \in links : l[1] <= lastId
  BY DEF JoinInv, KnownIds
<1> HIDE DEF u
<1>9. DistinctIds'
  <2> SUFFICES ASSUME NEW v \in People, NEW w \in People, member'[v] = member'[w],
                      member'[v] # NoMember, v # w
               PROVE  FALSE
    BY DEF DistinctIds
  <2>1. CASE v = u
    BY <1>4, <1>5, <1>6, <2>1
  <2>2. CASE w = u
    BY <1>4, <1>5, <1>6, <2>2
  <2>3. CASE v # u /\ w # u
    BY <1>5, <2>3 DEF JoinInv, DistinctIds
  <2> QED
    BY <2>1, <2>2, <2>3
<1>10. KnownIds'
  <2>1. \A v \in People : member'[v] # NoMember => member'[v] <= lastId'
    BY <1>2, <1>4, <1>5, <1>6
  <2>2. \A l \in links' : l[1] <= lastId'
    BY <1>2, <1>3, <1>4, <1>8
  <2>3. \A o \in RoleSlots : roleReq'[o] # NoOp /\ roleReq'[o].id # NoMember => roleReq'[o].id <= lastId'
    BY <1>2, <1>3, <1>4, <1>7
  <2> QED
    BY <2>1, <2>2, <2>3 DEF KnownIds
<1>11. AskedFor'
  <2> SUFFICES ASSUME NEW o \in RoleSlots, roleReq'[o] # NoOp, roleReq'[o].pc = "write",
                      roleReq'[o].kind \in {"add", "role_ids"}, NEW v \in People,
                      member'[v] = roleReq'[o].id, member'[v] # NoMember
               PROVE  roleReq'[o].want \subseteq asked'[v]
    BY DEF AskedFor
  <2>1. roleReq'[o] = roleReq[o]
    BY <1>3
  <2>2. v # u
    BY <1>4, <1>5, <1>7, <2>1
  <2> QED
    BY <1>5, <2>1, <2>2 DEF JoinInv, AskedFor
<1>12. OnlyRolesSinceJoining'
  <2> SUFFICES ASSUME NEW v \in People, member'[v] # NoMember, NEW r \in Roles,
                      <<member'[v], r>> \in links'
               PROVE  r \in asked'[v]
    BY DEF OnlyRolesSinceJoining, RolesOf
  <2>1. <<member'[v], r>> \in links \/ \E w \in roleReq[s].want : <<member'[v], r>> = <<id, w>>
    BY <1>3
  <2>2. CASE v = u
    <3>1. <<id, r>> \notin links
      BY <1>4, <1>8
    <3> QED
      BY <1>5, <2>1, <2>2, <3>1
  <2>3. CASE v # u
    <3>1. member'[v] = member[v] /\ asked'[v] = asked[v] /\ member[v] # id
      BY <1>4, <1>5, <1>6, <2>3
    <3> QED
      BY <2>1, <3>1 DEF JoinInv, OnlyRolesSinceJoining, RolesOf
  <2> QED
    BY <2>2, <2>3
<1> QED
  BY <1>1, <1>9, <1>10, <1>11, <1>12 DEF JoinInv

LEMMA AddMemberJoin ==
    ASSUME RbacAssumption, JoinInv, NEW s \in RoleSlots, AddMember(s) PROVE JoinInv'
<1>1. CASE roleReq[s].id # NoMember
  <2>1. UNCHANGED <<member, lastId, asked>>
    BY <1>1 DEF AddMember
  <2> QED
    BY <1>1, <2>1, AddMemberEffect, AddMemberRolesInv, LinkedAsAsked DEF JoinInv
<1> QED
  BY <1>1, NewMemberJoin

(* Nobody has the id of a membership that is removed. *)
LEMMA RemoveMemberJoin ==
    ASSUME JoinInv, NEW s \in RoleSlots, RemoveMember(s) PROVE JoinInv'
<1>1. RolesInv /\ RolesInv' /\ Done(s) /\ lastId' = lastId
  BY RemoveMemberRolesInv DEF JoinInv, RemoveMember
<1>2. \A o \in RoleSlots : roleReq'[o] = IF o = s THEN NoOp ELSE roleReq[o]
  BY <1>1, Freed
<1>3. links' \subseteq links
  BY DEF RemoveMember
<1>4. \A v \in People : member'[v] # NoMember => member'[v] = member[v] /\ asked'[v] = asked[v]
  BY DEF RemoveMember, JoinInv, RolesInv, RbacTypeOK
<1>5. DistinctIds' /\ OnlyRolesSinceJoining'
  BY <1>3, <1>4 DEF JoinInv, DistinctIds, OnlyRolesSinceJoining, RolesOf
<1>6. KnownIds' /\ AskedFor'
  BY <1>1, <1>2, <1>3, <1>4 DEF JoinInv, KnownIds, AskedFor
<1> QED
  BY <1>1, <1>5, <1>6 DEF JoinInv

LEMMA DeleteRoleJoin ==
    ASSUME JoinInv, NEW s \in RoleSlots, DeleteRole(s) PROVE JoinInv'
<1>1. RolesInv /\ RolesInv' /\ Done(s) /\ UNCHANGED <<member, lastId, asked>>
  BY DeleteRoleRolesInv DEF JoinInv, DeleteRole
<1>2. \A o \in RoleSlots : roleReq'[o] = IF o = s THEN NoOp ELSE roleReq[o]
  BY <1>1, Freed
<1>3. links' \subseteq links
  BY DEF DeleteRole
<1>4. DistinctIds' /\ OnlyRolesSinceJoining'
  BY <1>1, <1>3 DEF JoinInv, DistinctIds, OnlyRolesSinceJoining, RolesOf
<1>5. KnownIds' /\ AskedFor'
  BY <1>1, <1>2, <1>3 DEF JoinInv, KnownIds, AskedFor
<1> QED
  BY <1>1, <1>4, <1>5 DEF JoinInv

LEMMA JoinInvStep ==
    ASSUME RbacAssumption PROVE JoinInv /\ [RbacNext]_rbacVars => JoinInv'
<1> SUFFICES ASSUME JoinInv, [RbacNext]_rbacVars PROVE JoinInv'
  OBVIOUS
<1>1. RolesInv /\ RolesInv'
  BY RolesInvStep DEF JoinInv
<1>2. ASSUME NEW s \in RoleSlots, UpdatePermissions(s) \/ SetActive(s) \/ Forbid(s)
      PROVE  JoinInv'
  <2>1. Done(s) /\ UNCHANGED <<member, links, lastId, asked>>
    BY <1>2 DEF UpdatePermissions, SetActive, Forbid, Done, store
  <2>2. \A o \in RoleSlots : roleReq'[o] # NoOp => roleReq'[o] = roleReq[o]
    BY <1>1, <2>1, Freed
  <2> QED
    BY <1>1, <2>1, <2>2, BystandersJoin
<1>3. CASE CreateRole \/ SeedRoles \/ Sync({Keys}) \/ UNCHANGED rbacVars
  <2>1. UNCHANGED <<member, links, lastId, asked, roleReq>>
    BY <1>3 DEF CreateRole, SeedRoles, Sync, rbacVars
  <2> QED
    BY <1>1, <2>1, BystandersJoin
<1> QED
  BY <1>2, <1>3, SendJoin, ReadJoin, AddMemberJoin, SetRolesJoin, RemoveMemberJoin,
     DeleteRoleJoin DEF RbacNext, Write

(* A member has only roles asked for since he joined, whatever requests about *)
(* him or an earlier membership of his are under way.                         *)
THEOREM OnlyRolesSinceJoiningHolds ==
    ASSUME RbacAssumption PROVE RbacSpec => []OnlyRolesSinceJoining
<1>1. JoinInv => OnlyRolesSinceJoining
  BY DEF JoinInv
<1> QED
  BY <1>1, InitJoinInv, JoinInvStep, PTL DEF RbacSpec
=============================================================================
