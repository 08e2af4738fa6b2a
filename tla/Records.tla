------------------------------ MODULE Records ------------------------------
(***************************************************************************)
(* What a caller sees of a record and may write into it, field by field,   *)
(* and how the list view selects, orders and pages the records.            *)
(*                                                                         *)
(* Three pieces of code decide about a field on their own: the contract    *)
(* (the form of the UI), the schema that payloads are cleaned against, and *)
(* the serializer.  A field is a record of type FieldType; "asked" is what *)
(* the policy answers for it, about a record that is yet to be made and    *)
(* about one that is there.                                                *)
(*                                                                         *)
(* A definition named X_Something is a faulty variant of X, there to show  *)
(* that a property depends on X; no specification uses it.                 *)
(***************************************************************************)
EXTENDS Naturals, Sequences, FiniteSets

Permissions == {"write", "read", "hidden"}

Rank(p) == CASE p = "write" -> 0 [] p = "read" -> 1 [] p = "hidden" -> 2

Strictest(p, q) == IF Rank(p) >= Rank(q) THEN p ELSE q

(* "auto": id, created_at and the other columns the framework fills in. *)
FieldType == [kind : {"pk", "column", "calculated"}, auto : BOOLEAN,
              readonly : BOOLEAN, protected : BOOLEAN,
              asked : [{"new", "old"} -> Permissions]]

StaticPermission(f) ==
    CASE f.protected -> "hidden"
      [] ~f.protected /\ (f.kind = "calculated" \/ f.readonly \/ f.auto) -> "read"
      [] OTHER -> "write"

-----------------------------------------------------------------------------
(* The contract: the policy is asked without a record. *)

(* compute_field_permissions *)
FieldPermission(f) == Strictest(StaticPermission(f), f.asked["new"])

(* A calculated field is looked up in the permissions only, a column also  *)
(* among the protected fields.                                             *)
InContract(f) ==
    /\ FieldPermission(f) # "hidden"
    /\ f.kind # "calculated" => ~f.protected

ReadOnlyInContract(f) ==
    f.kind # "column" \/ f.readonly \/ FieldPermission(f) = "read"

InForm(f) == InContract(f) /\ ~ReadOnlyInContract(f)

-----------------------------------------------------------------------------
(* Payloads: "about" is "new" for a create and "old" for an update; an     *)
(* import asks no policy.                                                  *)

(* build_model_schema *)
InSchema(f) == f.kind = "calculated" \/ ~f.protected

ReadOnlyInSchema(f) == f.kind # "column" \/ f.readonly

PolicyAllowsWrite(f, about) == about = "import" \/ f.asked[about] = "write"

Taken_AutoToo(f, about) ==
    InSchema(f) /\ ~ReadOnlyInSchema(f) /\ PolicyAllowsWrite(f, about)

(* clean_write_payload: whether a payload with f is not a 422. *)
Taken(f, about) ==
    InSchema(f) /\ ~ReadOnlyInSchema(f) /\ PolicyAllowsWrite(f, about) /\ ~f.auto

-----------------------------------------------------------------------------
(* Reading: the records of the CRUD routes, of an export, inline rows. *)

PolicyHides(f, route) == route = "record" /\ f.asked["old"] = "hidden"

Serialized(f, route) == ~f.protected /\ ~PolicyHides(f, route)

-----------------------------------------------------------------------------
(* The list.  "value" gives the columns of the rows as numbers, "id" among *)
(* them; a clause is a column and a direction.                             *)

Clause(columns) == [column : columns, desc : BOOLEAN]

NoOrdering == [column |-> "", desc |-> FALSE]

ById == [column |-> "id", desc |-> FALSE]

OrderBy_AsAsked(asked, default, columns) ==
    CASE asked.column \in columns -> <<asked>>
      [] asked.column \notin columns /\ default = <<>> -> <<ById>>
      [] OTHER -> default

(* apply_ordering: an unknown column falls back to the default of the      *)
(* admin, which is taken as it is.                                         *)
OrderBy(asked, default, columns) ==
    CASE asked.column = "id" -> <<asked>>
      [] asked.column \in columns \ {"id"} -> <<asked, ById>>
      [] asked.column \notin columns /\ default = <<>> -> <<ById>>
      [] OTHER -> default

ComesBefore(clauses, value, i, j) ==
    \E n \in 1..Len(clauses) :
        LET col(m) == clauses[m].column
        IN /\ \A m \in 1..(n - 1) : value[i][col(m)] = value[j][col(m)]
           /\ IF clauses[n].desc THEN value[i][col(n)] > value[j][col(n)]
              ELSE value[i][col(n)] < value[j][col(n)]

(* apply_filters and apply_search: the rows that pass every predicate. *)
Selected(ids, value, filters) ==
    {i \in ids : \A f \in filters : value[i][f[1]] = f[2]}

(* The places row i may have in a result: rows that tie come in any order. *)
Places(ids, clauses, value, i) ==
    Cardinality({j \in ids : ComesBefore(clauses, value, j, i)})
        .. Cardinality({j \in ids \ {i} : ~ComesBefore(clauses, value, i, j)})

(* The pages of "limit" rows on which row i may be, when every page is the *)
(* result of a query of its own.                                           *)
PagesOf(ids, clauses, value, limit, i) ==
    {place \div limit : place \in Places(ids, clauses, value, i)}
=============================================================================
