----------------------------- MODULE MCSessions -----------------------------
(* A small instance of Sessions for TLC. *)
EXTENDS Sessions, FiniteSets

(* Token ids are only compared for equality, so it is enough to go on from  *)
(* the states in which the ids were issued in order, a pair's access token  *)
(* first.                                                                   *)
InOrder ==
    /\ {t.jti : t \in issued} = 1..Cardinality(issued)
    /\ \A t \in issued : t.type = "access" =>
          \E p \in issued : p = [t EXCEPT !.jti = t.jti + 1, !.type = "refresh"]

(* Beyond four tokens: a login and what it is refreshed to. *)
OneFamily ==
    /\ \A s \in Slots : op[s] \in {"none", "refresh"}
    /\ \A t \in issued : t.type # "impersonation"
    /\ Cardinality({t \in issued : t.parent = NoJti}) = 2

Budget == InOrder /\ (Cardinality(issued) <= 4 \/ OneFamily)
=============================================================================
