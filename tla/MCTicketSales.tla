--------------------------- MODULE MCTicketSales ---------------------------
(* Constants of TicketSales for TLC. *)
EXTENDS TicketSales, TLC

(* dto.ticketNumbers: none given, one ticket picked, or either. *)
RandomOnly   == {{}}
PickOnly     == {{t} : t \in Tickets}
RandomOrPick == RandomOnly \cup PickOnly

(* Every slip image shows the same bank reference. *)
OneRef == [s \in Slips |-> CHOOSE ref \in Refs : TRUE]

(* Rows, requests and buyers are told apart only by what is stored in them.  *)
RowSymmetry == Permutations(Tickets) \cup Permutations(Resvs)
                 \cup Permutations(Pays) \cup Permutations(Requests) \cup Permutations(Buyers)
=============================================================================
