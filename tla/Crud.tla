-------------------------------- MODULE Crud --------------------------------
(***************************************************************************)
(* The generic write routes: create, update with inline rows, delete, the  *)
(* bulk delete action, import with savepoints, export, and their audit     *)
(* rows.  A request resolves its context and passes the gate (Open), reads *)
(* what it is about (Load), flushes row by row, writes its audit row in a  *)
(* savepoint and commits.  Rows carry the request that made and the one    *)
(* that deleted them: other requests see them once that one has committed. *)
(*                                                                         *)
(* A definition named X_Something is a faulty variant of X, there to show  *)
(* that a property depends on X; no specification uses it.                 *)
(***************************************************************************)
EXTENDS Access, Records

CONSTANTS
    Admins,        \* records of AdminType, one per table
    Contexts,      \* what callers may hold
    LineParents,   \* names of the admins with the inline "lines"
    MaxNum,        \* its max_num
    LinesDeletable,  \* its can_delete
    SystemTable,   \* the table with a system row from the start
    Slots,
    MaxRows,       \* bound: rows ever inserted
    MaxRequests,   \* bound: requests ever opened
    MaxBatch,      \* bound: rows of a file, ids of an action, inline rows
    NoReq

Ids == 1..MaxRows
Xids == 1..MaxRequests
Void == MaxRequests + 1    \* in place of a request that was rolled back
Tables == {a.name : a \in Admins} \cup {"lines"}
AdminOf(name) == CHOOSE a \in Admins : a.name = name

VARIABLES
    rows,        \* the sequence of rows ever inserted
    committed,   \* the requests that have committed
    log,         \* the audit rows that have committed
    missed,      \* history: requests whose audit row could not be written
    opened,      \* history: per request, for a create what had committed before
    req          \* per slot: the request

vars == <<rows, committed, log, missed, opened, req>>

Row == [table : Tables, parent : 0..MaxRows, system : BOOLEAN,
        by : 0..Void, gone : 0..MaxRequests]

NewRow(table, parent, x, system) ==
    [table |-> table, parent |-> parent, system |-> system, by |-> x, gone |-> 0]

(* What an audit row says: who, what, and how many rows were made. *)
Entry == [xid : Xids, act : {"create", "update", "delete", "action", "import", "export"},
          made : 0..MaxRows]

Request == [xid : Xids, act : {"create", "update", "delete", "action", "import", "export"},
            table : Tables, pc : {"load", "parent", "rows", "audit", "commit"},
            dry : BOOLEAN, left : 0..MaxBatch, target : 0..MaxRows,
            picked : SUBSET Ids, locks : SUBSET Ids, made : 0..MaxRows,
            logged : BOOLEAN]

ASSUME CrudAssumption ==
    /\ MaxNum \in Nat /\ MaxRows \in Nat \ {0} /\ MaxRequests \in Nat /\ MaxBatch \in Nat
    /\ \A a \in Admins : a \in AdminType({a.name}, a.actions) /\ a.name # "lines"
    /\ \A a, b \in Admins : a.name = b.name => a = b
    /\ SystemTable \in Tables
    /\ NoReq \notin Request

TypeOK ==
    /\ rows \in Seq(Row) /\ Len(rows) <= MaxRows
    /\ committed \subseteq 0..Len(opened)
    /\ log \subseteq Entry
    /\ missed \subseteq 1..Len(opened)
    /\ opened \in Seq(SUBSET (0..MaxRequests)) /\ Len(opened) <= MaxRequests
    /\ req \in [Slots -> Request \cup {NoReq}]

Init ==
    /\ rows = <<NewRow(SystemTable, 0, 0, TRUE)>>
    /\ committed = {0}
    /\ log = {}
    /\ missed = {}
    /\ opened = <<>>
    /\ req = [s \in Slots |-> NoReq]

-----------------------------------------------------------------------------
(* What a transaction sees (read committed), and what it waits for. *)

Sees(x, i) ==
    /\ rows[i].by \in committed \cup {x}
    /\ rows[i].gone = 0 \/ rows[i].gone \notin committed \cup {x}

Live(x, table) == {i \in 1..Len(rows) : rows[i].table = table /\ Sees(x, i)}

Locks(s) == IF req[s] = NoReq THEN {} ELSE req[s].locks

(* No other transaction has written the row and not ended yet. *)
Free(s, i) == \A o \in Slots \ {s} : i \notin Locks(o)

Goto(s, changes) == req' = [req EXCEPT ![s] = changes]

-----------------------------------------------------------------------------
(* The context is resolved and the route lets the request in.              *)

(* The 403s that do not depend on a row: the gate, and the policy; import  *)
(* and actions have gates of their own and do not ask the policy.          *)
Admitted(ctx, adm, act) ==
    CASE act \in Writes -> Allowed(ctx, adm, act, FALSE)
      [] act = "import" -> ResourceAccess(ctx, adm.name, "create")
      [] act = "export" -> ResourceAccess(ctx, adm.name, "list")
      [] act = "action" -> "delete" \in adm.actions /\ ActionGate(ctx, adm, "delete")

FileRows == 0..MaxBatch

(* process_inline_writes compares max_num with the rows of the payload. *)
InlineRows == {n \in 0..MaxBatch : n <= MaxNum}

Batches(adm, act) ==
    CASE act = "import" -> FileRows
      [] act \in {"create", "update"} /\ adm.name \in LineParents -> InlineRows
      [] OTHER -> {0}

Targets(adm, act) ==
    IF act \in {"update", "delete"} THEN {i \in 1..Len(rows) : rows[i].table = adm.name}
    ELSE {0}

Picks(adm, act) ==
    IF act = "action"
    THEN {p \in SUBSET {i \in 1..Len(rows) : rows[i].table = adm.name} : Cardinality(p) <= MaxBatch}
    ELSE {{}}

Open(s) ==
    /\ req[s] = NoReq
    /\ Len(opened) < MaxRequests
    /\ \E adm \in Admins, act \in {"create", "update", "delete", "action", "import", "export"},
         dry \in BOOLEAN :
         /\ dry => act = "import"
         /\ \E ctx \in Contexts : Admitted(ctx, adm, act)
         /\ \E n \in Batches(adm, act), t \in Targets(adm, act), p \in Picks(adm, act) :
              Goto(s, [xid |-> Len(opened) + 1, act |-> act, table |-> adm.name, pc |-> "load",
                       dry |-> dry, left |-> n, target |-> t, picked |-> p,
                       locks |-> {}, made |-> 0, logged |-> FALSE])
         /\ opened' = Append(opened, IF act = "create" THEN committed ELSE {})
    /\ UNCHANGED <<rows, committed, log, missed>>

-----------------------------------------------------------------------------
(* The handler reads.  Missing records are a 404, or left out by an action. *)

Look_Skipped(adm, act, seen) == TRUE

(* create_record of a singleton looks for any row first. *)
Look(adm, act, seen) == act = "create" /\ SingletonRule(adm) => seen = {}

Load(s) ==
    /\ req[s] # NoReq
    /\ req[s].pc = "load"
    /\ LET q == req[s]
           seen == Live(q.xid, q.table)
       IN /\ q.target # 0 => q.target \in seen
          /\ q.act = "delete" => ~rows[q.target].system
          /\ Look(AdminOf(q.table), q.act, seen)
          /\ Goto(s, [q EXCEPT !.picked = @ \cap seen,
                               !.pc = CASE q.act = "import" -> "rows"
                                        [] q.act = "export" -> "audit"
                                        [] OTHER -> "parent"])
    /\ UNCHANGED <<rows, committed, log, missed, opened>>

-----------------------------------------------------------------------------
(* The handler flushes, statement by statement.                            *)

Insert(table, parent, x) ==
    /\ Len(rows) < MaxRows
    /\ rows' = Append(rows, NewRow(table, parent, x, FALSE))

(* session.delete of what is still there; children go with their parent    *)
(* (ON DELETE CASCADE); a row that is gone by now is no error.             *)
Without(ids, x) ==
    [i \in 1..Len(rows) |->
        IF (i \in ids \/ rows[i].parent \in ids) /\ Sees(x, i)
        THEN [rows[i] EXCEPT !.gone = x] ELSE rows[i]]

DeleteRows(s, ids) ==
    LET all == {i \in 1..Len(rows) : i \in ids \/ rows[i].parent \in ids}
    IN /\ \A i \in all : Free(s, i)
       /\ rows' = Without(ids, req[s].xid)

Parent(s) ==
    /\ req[s] # NoReq
    /\ req[s].pc = "parent"
    /\ LET q == req[s]
       IN \/ /\ q.act = "create"
             /\ Insert(q.table, 0, q.xid)
             /\ Goto(s, [q EXCEPT !.target = Len(rows) + 1, !.locks = {Len(rows) + 1},
                                  !.made = 1, !.pc = "rows"])
          \/ /\ q.act = "update"          \* a row deleted meanwhile: StaleDataError
             /\ Free(s, q.target) /\ Sees(q.xid, q.target)
             /\ Goto(s, [q EXCEPT !.locks = {q.target}, !.pc = "rows"])
             /\ UNCHANGED rows
          \/ /\ q.act = "update" /\ q.left > 0     \* inline rows only
             /\ Goto(s, [q EXCEPT !.pc = "rows"])
             /\ UNCHANGED rows
          \/ /\ q.act \in {"delete", "action"}
             /\ LET ids == IF q.act = "delete" THEN {q.target} ELSE q.picked
                IN /\ DeleteRows(s, ids)
                   /\ Goto(s, [q EXCEPT !.locks = {i \in 1..Len(rows) : i \in ids \/ rows[i].parent \in ids},
                                        !.pc = "audit"])
    /\ UNCHANGED <<committed, log, missed, opened>>

(* process_inline_writes, one row of the payload: children are fetched by  *)
(* their id.                                                               *)
InlineRow(s) ==
    /\ req[s] # NoReq
    /\ req[s].pc = "rows" /\ req[s].act # "import"
    /\ req[s].left > 0
    /\ LET q == req[s]
           next == [q EXCEPT !.left = @ - 1]
       IN \/ /\ Free(s, q.target) /\ Sees(q.xid, q.target)    \* the foreign key
             /\ Insert("lines", q.target, q.xid)
             /\ Goto(s, [next EXCEPT !.made = @ + 1, !.locks = @ \cup {Len(rows) + 1}])
          \/ \E i \in Live(q.xid, "lines") :
               /\ LinesDeletable
               /\ Free(s, i)
               /\ Goto(s, [next EXCEPT !.locks = @ \cup {i}])
               /\ rows' = Without({i}, q.xid)
          \/ \E i \in Live(q.xid, "lines") :
               /\ Free(s, i)
               /\ Goto(s, [next EXCEPT !.locks = @ \cup {i}])
               /\ UNCHANGED rows
    /\ UNCHANGED <<committed, log, missed, opened>>

ImportedRow_NoSavepoint(s, ok) ==
    /\ Insert(req[s].table, 0, req[s].xid)
    /\ Goto(s, [req[s] EXCEPT !.left = @ - 1, !.made = IF ok THEN @ + 1 ELSE @])

(* One row of the file: a savepoint takes a failing one back, also when it *)
(* fails after its flush (after_create).                                   *)
ImportedRow(s, ok) ==
    /\ IF ok THEN Insert(req[s].table, 0, req[s].xid) ELSE UNCHANGED rows
    /\ Goto(s, [req[s] EXCEPT !.left = @ - 1, !.made = IF ok THEN @ + 1 ELSE @])

ImportRow(s) ==
    /\ req[s] # NoReq
    /\ req[s].pc = "rows" /\ req[s].act = "import"
    /\ req[s].left > 0
    /\ \E ok \in BOOLEAN : ImportedRow(s, ok)
    /\ UNCHANGED <<committed, log, missed, opened>>

TakenBack_Kept(x) == rows

(* The rows without the traces of one transaction, or of its savepoint. *)
TakenBack(x) ==
    [i \in 1..Len(rows) |->
        [rows[i] EXCEPT !.by = IF @ = x THEN Void ELSE @,
                        !.gone = IF @ = x THEN 0 ELSE @]]

(* A dry run rolls the savepoint around all its rows back and is not       *)
(* audited.                                                                *)
RowsDone(s) ==
    /\ req[s] # NoReq
    /\ req[s].pc = "rows" /\ req[s].left = 0
    /\ Goto(s, [req[s] EXCEPT !.pc = IF req[s].dry THEN "commit" ELSE "audit"])
    /\ rows' = IF req[s].dry THEN TakenBack(req[s].xid) ELSE rows
    /\ UNCHANGED <<committed, log, missed, opened>>

-----------------------------------------------------------------------------
(* record_audit_in_session: a savepoint of the same transaction, whose     *)
(* failure is logged and swallowed.                                        *)

Audit(s) ==
    /\ req[s] # NoReq
    /\ req[s].pc = "audit"
    /\ \E ok \in BOOLEAN :
         /\ Goto(s, [req[s] EXCEPT !.logged = ok, !.pc = "commit"])
         /\ missed' = IF ok THEN missed ELSE missed \cup {req[s].xid}
    /\ UNCHANGED <<rows, committed, log, opened>>

EntryOf(q) == [xid |-> q.xid, act |-> q.act, made |-> q.made]

(* get_async_session commits after the handler, and rolls back on errors. *)
Commit(s) ==
    /\ req[s] # NoReq
    /\ req[s].pc = "commit"
    /\ committed' = committed \cup {req[s].xid}
    /\ log' = IF req[s].logged THEN log \cup {EntryOf(req[s])} ELSE log
    /\ req' = [req EXCEPT ![s] = NoReq]
    /\ UNCHANGED <<rows, missed, opened>>

Refuse(s) ==
    /\ req[s] # NoReq
    /\ rows' = TakenBack(req[s].xid)
    /\ req' = [req EXCEPT ![s] = NoReq]
    /\ UNCHANGED <<committed, log, missed, opened>>

-----------------------------------------------------------------------------

Next == \E s \in Slots :
    \/ Open(s) \/ Load(s) \/ Parent(s) \/ InlineRow(s) \/ ImportRow(s)
    \/ RowsDone(s) \/ Audit(s) \/ Commit(s) \/ Refuse(s)

Spec == Init /\ [][Next]_vars

-----------------------------------------------------------------------------
(* Properties *)

(* A control that the contract shows ("the contract has the accurate       *)
(* flag") is not answered with a 403 as long as nothing changes: the       *)
(* capabilities and the routes with their policies and singleton rules are *)
(* two separate pieces of code.                                            *)
ControlsInStep ==
    \A ctx \in Contexts, adm \in Admins, act \in Writes :
        LET occupied == Live(0, adm.name) # {}
        IN Capability(ctx, adm, act, occupied) => Allowed(ctx, adm, act, occupied)

(* The form has exactly the fields a create takes, and, of a policy that   *)
(* does not look at the record, those an update takes and the record has.  *)
(* No policy loosens what the admin declares, on no way in or out.         *)
FieldsInStep ==
    \A f \in FieldType :
        /\ InForm(f) <=> Taken(f, "new")
        /\ f.asked["old"] = f.asked["new"] =>
               /\ InForm(f) <=> Taken(f, "old")
               /\ InContract(f) <=> Serialized(f, "record")
        /\ \A about \in {"new", "old", "import"} :
               Taken(f, about) => StaticPermission(f) = "write"
        /\ \A route \in {"record", "export"} :
               Serialized(f, route) => StaticPermission(f) # "hidden"

ContractInStep == ControlsInStep /\ FieldsInStep

Columns == {"id", "parent", "system"}

(* The columns of the rows, as numbers. *)
Values == [i \in 1..Len(rows) |->
             [id |-> i, parent |-> rows[i].parent, system |-> IF rows[i].system THEN 1 ELSE 0]]

(* Who goes through the pages of a list, ordered by a column or by nothing *)
(* in particular, meets every row that stays there, and meets it once,     *)
(* whatever order the database gives to rows with the same value ("so      *)
(* pagination is deterministic when the sort column has duplicate          *)
(* values").                                                               *)
PagesPartition ==
    \A table \in Tables, asked \in Clause(Columns) \cup {NoOrdering}, limit \in 1..MaxRows :
        \A filters \in {{}} \cup {{<<"parent", p>>} : p \in 0..MaxRows} :
            LET ids == Selected(Live(0, table), Values, filters)
            IN \A i \in ids :
                 Cardinality(PagesOf(ids, OrderBy(asked, <<>>, Columns), Values, limit, i)) = 1

(* Every audit row tells what its request did, no less and no more: a save *)
(* with inline rows is there as a whole, "created" of an import counts the *)
(* rows that are there, and nothing tells of a request that failed.        *)
AuditTellsTruth ==
    \A e \in log :
        /\ e.xid \in committed
        /\ e.made = Cardinality({i \in 1..Len(rows) : rows[i].by = e.xid})

(* A request that has written something commits with its audit row, or has *)
(* tried to write it; nothing of a dry run is committed.                   *)
AuditTellsAll ==
    [][\A s \in Slots :
         LET x == req[s].xid
         IN /\ req[s] # NoReq
            /\ x \in committed' \ committed
            /\ \E i \in 1..Len(rows) : x \in {rows[i].by, rows[i].gone} \/ i \in req[s].locks
            => x \in {e.xid : e \in log'} \cup missed]_vars

(* A second row of a singleton comes from an import, or from creates that  *)
(* overlapped: never from one that was opened when the first was there.    *)
OneRowUnlessRaced ==
    \A adm \in Admins : SingletonRule(adm) =>
        \A i, j \in Live(0, adm.name) :
            i # j /\ rows[j].by # 0 => rows[i].by \notin opened[rows[j].by]

(* "max_num - hard cap on rows per parent". *)
MaxNumKept ==
    \A p \in 1..Len(rows) :
        Cardinality({i \in Live(0, "lines") : rows[i].parent = p}) <= MaxNum
=============================================================================
