---------------------------- MODULE MCAccounts ----------------------------
(* Small instances of Accounts for TLC. *)
EXTENDS Accounts, TLC

AccountSymmetry == Permutations(Tokens) \cup Permutations(Slots)
=============================================================================
