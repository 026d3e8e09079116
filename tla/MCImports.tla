----------------------------- MODULE MCImports -----------------------------
(* Constants of Imports for TLC. *)
EXTENDS Imports, MCTicketSales
=============================================================================
