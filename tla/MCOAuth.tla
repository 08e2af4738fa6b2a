------------------------------- MODULE MCOAuth -------------------------------
(* A small instance of OAuth for TLC: ann has the address of the account    *)
(* that is there from the start, bob's is new.                              *)
EXTENDS OAuth, TLC

CONSTANTS ann, bob, annMail, bobMail

MCEmail == (ann :> annMail) @@ (bob :> bobMail)
OAuthSymmetry == Permutations(Slots) \cup Permutations(Browsers) \cup Permutations(Kids)

(* The keys are those of the start, and no other is about. *)
KeysRest ==
    /\ Cardinality(published) = 1 /\ keys \subseteq published
    /\ \A k \in Kids \ published : since[k] = MaxSince
    /\ \A s \in Slots : req[s] # NoOne => req[s].kid \in published \cup {NoKid}
    /\ \A l \in logins : l.stale = 0

(* There is only the account that is there from the start, as it was. *)
AccountsRest == Len(users) = 1 /\ Changes = 0 /\ \A j \in BumpSlots : bump[j] = NoOne

(* Nothing reads both the keys and the accounts, so that it is enough to go *)
(* on from the states in which one of the two is at rest.                   *)
Budget == KeysRest \/ AccountsRest
=============================================================================
