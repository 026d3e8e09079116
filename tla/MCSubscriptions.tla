-------------------------- MODULE MCSubscriptions --------------------------
(* Constants of Subscriptions for TLC. *)
EXTENDS Subscriptions, TLC

OneEach == [p \in Plans |-> 1]

SubSymmetry == Permutations(Calls)
=============================================================================
