----------------------------- MODULE MCAccounts -----------------------------
(* Constants of Accounts for TLC. *)
EXTENDS Accounts, TLC

AccountSymmetry ==
    Permutations(Handlers) \cup Permutations(Admins) \cup Permutations(BuyerAccts)
=============================================================================
