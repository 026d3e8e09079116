----------------------------- MODULE MCReports -----------------------------
(* Constants of Reports for TLC. *)
EXTENDS Reports, MCTicketSales
=============================================================================
