------------------------------ MODULE Imports ------------------------------
(***************************************************************************)
(* The spreadsheet imports of PaymentService                               *)
(* (modules/payments/payment.service.ts) next to everything else that is   *)
(* going on in the sale: importPayments ("import": rows an operator marked *)
(* APPROVED), and processBulkImport and processBulkImportJson ("bulk":     *)
(* buyers who have paid already).  A row is one handler: rows share no     *)
(* state but the database, and a row that throws does not stop the others. *)
(* Parsing the sheet and building the answer are left out.                 *)
(***************************************************************************)
EXTENDS TicketSales

-----------------------------------------------------------------------------
(* importPayments *)

(* The statuses of a payment the import goes on with. *)
Unfinished == {"INITIATED", "SUBMITTED", "UNDER_REVIEW"}

OpenPaymentsOf(b) ==
    {p \in Pays : /\ pay[p].exists /\ ~pay[p].deleted
                  /\ pay[p].buyer = b /\ pay[p].status \in Unfinished}

(* A row whose payment is still to be created, and one that goes on with an  *)
(* open payment: an initiated one is given tickets if the row has a label.   *)
RowToCreate(b, n, listed) ==
    [Idle EXCEPT !.op = "import", !.pc = "import_create", !.buyer = b, !.qty = n,
                 !.tickets = listed]
RowOfPayment(b, n, p, labelled) ==
    [Idle EXCEPT !.op = IF pay[p].status = "INITIATED" THEN "topUp" ELSE "import",
                 !.pc = IF pay[p].status # "INITIATED" THEN "import_approve"
                        ELSE IF labelled THEN "import_count" ELSE "import_submit",
                 !.buyer = b, !.qty = n, !.pay = p]

(* The first statement after the buyer and the payment of a row have been    *)
(* looked up.  Without a label row naming the lottery a payment can only be  *)
(* approved, not created, and gets no tickets.                               *)
ImportRead(q) ==
    /\ Arrives(q, "import")
    /\ \E b \in Buyers, n \in 1..MaxQty, labelled \in BOOLEAN :
        /\ labelled => ~lottery.deleted
        /\ \/ /\ OpenPaymentsOf(b) = {} /\ labelled
              /\ \E listed \in Listings : Run(q, RowToCreate(b, n, listed))
           \/ \E p \in OpenPaymentsOf(b) : Run(q, RowOfPayment(b, n, p, labelled))
    /\ UNCHANGED <<rows, env, job>>

NewPayment(b, status, approved) ==
    [NoPay EXCEPT !.exists = TRUE, !.buyer = b, !.status = status, !.approved = approved]

(* A payment with an id of its own; the handler names it from here on.       *)
Creates(q, status, approved, pc) ==
    \E p \in Pays :
        /\ ~pay[p].exists
        /\ pay' = [pay EXCEPT ![p] = NewPayment(task[q].buyer, status, approved)]
        /\ Run(q, [task[q] EXCEPT !.pc = pc, !.pay = p])
        /\ UNCHANGED <<lottery, ticket, resv, audit, env, job>>

ImportCreate(q) ==
    /\ task[q].pc = "import_create"
    /\ Creates(q, "SUBMITTED", FALSE,
               IF task[q].tickets = {} THEN "import_pick" ELSE "import_listed")

(* The listed tickets that are not sold, whoever they are held for; the next *)
(* available ones if there are none.                                         *)
ImportListed(q) ==
    /\ task[q].pc = "import_listed"
    /\ LET found == {t \in task[q].tickets : ticket[t].status # "SOLD"} IN
        Run(q, [task[q] EXCEPT !.tickets = found,
                               !.pc = IF found = {} THEN "import_pick" ELSE "import_assign"])
    /\ UNCHANGED <<rows, env, job>>

(* An initiated payment that has tickets keeps them. *)
ImportCount(q) ==
    /\ task[q].pc = "import_count"
    /\ Goto(q, IF LinkedTo(task[q].pay) = {} THEN "import_pick" ELSE "import_submit")
    /\ UNCHANGED <<rows, env, job>>

AfterAssign(q) == IF task[q].op = "topUp" THEN "import_submit" ELSE "import_approve"

(* As many available tickets as asked for, or as there are; the payment goes *)
(* on without tickets if there are none.                                     *)
ImportPick(q) ==
    /\ task[q].pc = "import_pick"
    /\ \E chosen \in SUBSET Available :
        /\ \/ Cardinality(chosen) = task[q].qty
           \/ chosen = Available /\ Cardinality(chosen) < task[q].qty
        /\ Run(q, [task[q] EXCEPT !.tickets = chosen,
                                  !.pc = IF chosen = {} THEN AfterAssign(q)
                                         ELSE "import_assign"])
    /\ UNCHANGED <<rows, env, job>>

(* updateMany by ticket id alone; a reservation that held the ticket is not  *)
(* asked and keeps pointing at it.                                           *)
(* Variant: the reservation's tickets are marked RESERVED for the payment.   *)
Assigned_Reserved(t, p, b) == [ticket[t] EXCEPT !.status = "RESERVED", !.pay = p, !.buyer = b]
Assigned(t, p, b) ==
    [ticket[t] EXCEPT !.status = "PENDING_PAYMENT", !.pay = p, !.buyer = b]

ImportAssign(q) ==
    /\ task[q].pc = "import_assign"
    /\ ticket' = [t \in Tickets |->
                    IF t \in task[q].tickets
                    THEN Assigned(t, task[q].pay, task[q].buyer)
                    ELSE ticket[t]]
    /\ Goto(q, AfterAssign(q))
    /\ UNCHANGED <<lottery, resv, pay, audit, env, job>>

(* SUBMITTED is written whatever became of the payment since it was read.    *)
ImportSubmit(q) ==
    /\ task[q].pc = "import_submit"
    /\ pay' = [pay EXCEPT ![task[q].pay].status = "SUBMITTED"]
    /\ Goto(q, "import_approve")
    /\ UNCHANGED <<lottery, ticket, resv, audit, env, job>>

(* approvePayment's own read; it throws if the payment has been decided.     *)
ImportApprove(q) ==
    /\ task[q].pc = "import_approve"
    /\ IF pay[task[q].pay].status \in Unfinished \cup {"REJECTED"}
       THEN Run(q, [task[q] EXCEPT !.op = "approve", !.pc = "approve_write"])
       ELSE Run(q, Idle)
    /\ UNCHANGED <<rows, env, job>>

-----------------------------------------------------------------------------
(* processBulkImport, processBulkImportJson *)

BulkRead(q) ==
    /\ Arrives(q, "bulk")
    /\ ~lottery.deleted
    /\ \E b \in Buyers, n \in 1..MaxQty :
        Run(q, [Idle EXCEPT !.op = "bulk", !.pc = "bulk_create", !.buyer = b, !.qty = n])
    /\ UNCHANGED <<rows, env, job>>

(* "Create payment as APPROVED (operator already collected money)".          *)
(* Variant: approvedAt is left out.                                          *)
BulkApproved_Forgotten == FALSE
BulkApproved == TRUE

BulkCreate(q) ==
    /\ task[q].pc = "bulk_create"
    /\ Creates(q, "APPROVED", BulkApproved, "bulk_pick")

BulkPick(q) ==
    /\ task[q].pc = "bulk_pick"
    /\ IF Cardinality(Available) < task[q].qty
       THEN Goto(q, "bulk_short")
       ELSE \E chosen \in SUBSET Available :
              /\ Cardinality(chosen) = task[q].qty
              /\ Run(q, [task[q] EXCEPT !.tickets = chosen, !.pc = "bulk_tx"])
    /\ UNCHANGED <<rows, env, job>>

(* approvedAt stays. *)
BulkShort(q) ==
    /\ task[q].pc = "bulk_short"
    /\ pay' = [pay EXCEPT ![task[q].pay].status = "UNDER_REVIEW"]
    /\ Run(q, Idle)
    /\ UNCHANGED <<lottery, ticket, resv, audit, env, job>>

(* Variant: the buyer's id is not written. *)
BulkSold_KeepsBuyer(t, p, b) == [ticket[t] EXCEPT !.status = "SOLD", !.pay = p]
BulkSold(t, p, b) == [ticket[t] EXCEPT !.status = "SOLD", !.pay = p, !.buyer = b]

(* What the lottery's ticketsSold grows by.  Variant: it is forgotten.       *)
BulkCounted_Not(q) == 0
BulkCounted(q) == task[q].qty

(* One transaction, again by ticket id alone. *)
BulkTx(q) ==
    /\ task[q].pc = "bulk_tx"
    /\ lottery.sold + task[q].qty <= MaxSold
    /\ ticket' = [t \in Tickets |->
                    IF t \in task[q].tickets
                    THEN BulkSold(t, task[q].pay, task[q].buyer)
                    ELSE ticket[t]]
    /\ lottery' = [lottery EXCEPT !.sold = @ + BulkCounted(q)]
    /\ Run(q, Idle)
    /\ UNCHANGED <<resv, pay, audit, env, job>>

-----------------------------------------------------------------------------
ImportContinue(q) ==
    \/ ImportCreate(q) \/ ImportListed(q) \/ ImportCount(q) \/ ImportPick(q)
    \/ ImportAssign(q) \/ ImportSubmit(q) \/ ImportApprove(q)
    \/ BulkCreate(q) \/ BulkPick(q) \/ BulkShort(q) \/ BulkTx(q)

ImportNext ==
    \/ Next
    \/ \E q \in Requests : ImportRead(q) \/ BulkRead(q) \/ ImportContinue(q)

ImportSpec == Init /\ [][ImportNext]_vars
=============================================================================
