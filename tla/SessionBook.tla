---------------------------- MODULE SessionBook ----------------------------
(***************************************************************************)
(* What token sessions promise, without versions, revocation rows, loaded  *)
(* copies and requests in flight: a token is handed out once, by a login   *)
(* or in exchange for another one; it works until it is ended, and then    *)
(* never again.  Sessions implements it.                                   *)
(*                                                                         *)
(* A token is a record with its jti, type, subject (sub) and the jti of    *)
(* the token it was obtained with (parent).                                *)
(***************************************************************************)
EXTENDS Naturals

CONSTANTS Users, Superadmins, NoJti

VARIABLES
    given,    \* tokens that have been handed out
    ended,    \* those of them that are out for good
    enabled,  \* users whose tokens are accepted at all
    rounds    \* per user: how often it was logged out everywhere

bookVars == <<given, ended, enabled, rounds>>

Init ==
    /\ given = {}
    /\ ended = {}
    /\ enabled \in SUBSET Users
    /\ rounds = [u \in Users |-> 0]

New == given' \ given

Handed(u, parent) ==
    /\ given \subseteq given'
    /\ \A t \in New : t.sub = u /\ t.parent = parent

Pair == \E a, r \in New : New = {a, r} /\ a.type = "access" /\ r.type = "refresh"

(* What is handed out may have been ended on its way: all of it or none. *)
Ends(tokens) ==
    /\ \E late \in {{}, New} : ended' = ended \cup tokens \cup late
    /\ UNCHANGED <<enabled, rounds>>

LogIn(u) == Handed(u, NoJti) /\ Pair /\ Ends({})

(* A refresh token is exchanged for a pair, and ended by that. *)
Rotate(t) == t.type = "refresh" /\ Handed(t.sub, t.jti) /\ Pair /\ Ends({t})

Impersonate(t, u) ==
    /\ t.type = "access" /\ t.sub \in Superadmins /\ t.sub # u
    /\ Handed(u, t.jti)
    /\ \E i \in New : New = {i} /\ i.type = "impersonation"
    /\ Ends({})

LogOut(t) ==
    /\ ended' = ended \cup {t}
    /\ UNCHANGED <<given, enabled, rounds>>

Switched(u) == enabled' \in {enabled \cup {u}, enabled \ {u}}

(* Logging out everywhere ends every token that has been handed out. *)
EndAll(u) ==
    /\ ended' = ended \cup {t \in given : t.sub = u}
    /\ rounds' = [rounds EXCEPT ![u] = @ + 1]
    /\ Switched(u)
    /\ UNCHANGED given

Switch(u) == Switched(u) /\ UNCHANGED <<given, ended, rounds>>

Next ==
    \/ \E u \in Users : LogIn(u) \/ EndAll(u) \/ Switch(u)
    \/ \E t \in given : Rotate(t) \/ LogOut(t) \/ \E u \in Users : Impersonate(t, u)

Spec == Init /\ [][Next]_bookVars
=============================================================================
