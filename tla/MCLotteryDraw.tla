--------------------------- MODULE MCLotteryDraw ---------------------------
(* Constants of LotteryDraw for TLC. *)
EXTENDS LotteryDraw, TLC

RandomOnly == {{}}
OneRef     == [s \in Slips |-> CHOOSE ref \in Refs : TRUE]

(* One prize of quantity 1. *)
OnePrize == <<CHOOSE z \in Prizes : TRUE>>

DrawSymmetry == Permutations(Tickets) \cup Permutations(Resvs) \cup Permutations(Pays)
                  \cup Permutations(Requests) \cup Permutations(Desks) \cup Permutations(Draws)
=============================================================================
