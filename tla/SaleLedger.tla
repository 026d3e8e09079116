----------------------------- MODULE SaleLedger -----------------------------
(***************************************************************************)
(* What the sale of one lottery's tickets promises, with nothing of how:   *)
(* payments are opened for a payer and approved, only an approved payment  *)
(* buys tickets, it buys them for its own payer and only tickets nobody    *)
(* owns, and only an approved payment is recorded as approved.  A ticket   *)
(* may be given back.  Handlers, statements, reservations, the queue,      *)
(* failures and restarts do not appear.                                    *)
(***************************************************************************)
CONSTANTS
    Tickets, Payments,
    Payers,      \* who a payment may be opened for
    none         \* no payment, no owner

VARIABLES
    opened,      \* payments that exist
    payer,       \* the payer of each payment
    approved,    \* payments approved at some time
    recorded,    \* payments with an approval record
    boughtWith,  \* the payment each ticket was bought with, or none
    owner        \* the payer each ticket was bought for, or none

ledger == <<opened, payer, approved, recorded, boughtWith, owner>>

LedgerInit ==
    /\ opened = {} /\ approved = {} /\ recorded = {}
    /\ payer = [p \in Payments |-> none]
    /\ boughtWith = [t \in Tickets |-> none]
    /\ owner = [t \in Tickets |-> none]

Open(p, b) ==
    /\ p \notin opened
    /\ opened' = opened \cup {p}
    /\ payer' = [payer EXCEPT ![p] = b]
    /\ UNCHANGED <<approved, recorded, boughtWith, owner>>

Approve(p) ==
    /\ p \in opened
    /\ approved' = approved \cup {p}
    /\ UNCHANGED <<opened, payer, recorded, boughtWith, owner>>

Record(p) ==
    /\ p \in approved
    /\ recorded' = recorded \cup {p}
    /\ UNCHANGED <<opened, payer, approved, boughtWith, owner>>

Buy(p, chosen) ==
    /\ p \in approved
    /\ \A t \in chosen : boughtWith[t] \in {none, p}
    /\ boughtWith' = [t \in Tickets |-> IF t \in chosen THEN p ELSE boughtWith[t]]
    /\ owner' = [t \in Tickets |-> IF t \in chosen THEN payer[p] ELSE owner[t]]
    /\ UNCHANGED <<opened, payer, approved, recorded>>

GiveBack(chosen) ==
    /\ boughtWith' = [t \in Tickets |-> IF t \in chosen THEN none ELSE boughtWith[t]]
    /\ owner' = [t \in Tickets |-> IF t \in chosen THEN none ELSE owner[t]]
    /\ UNCHANGED <<opened, payer, approved, recorded>>

LedgerNext ==
    \/ \E p \in Payments, b \in Payers : Open(p, b)
    \/ \E p \in Payments : Approve(p) \/ Record(p)
    \/ \E p \in Payments, chosen \in SUBSET Tickets : Buy(p, chosen)
    \/ \E chosen \in SUBSET Tickets : GiveBack(chosen)

LedgerSpec == LedgerInit /\ [][LedgerNext]_ledger
=============================================================================
