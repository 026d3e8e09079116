---------------------------- MODULE MCBackOffice ----------------------------
(* Constants of BackOffice for TLC. *)
EXTENDS BackOffice, TLC

(* One name is part of every other. *)
OneInside == LET part == CHOOSE n \in BankNames : TRUE
             IN {pair \in BankNames \X BankNames : pair[2] \in {pair[1], part}}

OfficeSymmetry == Permutations(Requests)
=============================================================================
