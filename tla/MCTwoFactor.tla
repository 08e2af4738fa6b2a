---------------------------- MODULE MCTwoFactor ----------------------------
(* Small instances of TwoFactor for TLC. *)
EXTENDS TwoFactor, TLC

TokenSymmetry == Permutations(Jtis) \cup Permutations(Secrets) \cup Permutations(Slots)
=============================================================================
