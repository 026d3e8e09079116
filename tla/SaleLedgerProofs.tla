-------------------------- MODULE SaleLedgerProofs --------------------------
(***************************************************************************)
(* TicketSales implements SaleLedger, for every value of the constants.    *)
(***************************************************************************)
EXTENDS TicketSalesProofs

(* A step that leaves payments and the audit alone and unsells the tickets S. *)
LEMMA GivenBack ==
    ASSUME UNCHANGED <<pay, audit>>, NEW S \in SUBSET Tickets,
           \A t \in S : ticket'[t].status # "SOLD",
           \A t \in Tickets \ S : ticket'[t] = ticket[t]
    PROVE  Ledger!LedgerNext
<1>1. Ledger!GiveBack(S) BY DEF Ledger!GiveBack
<1> QED BY <1>1 DEF Ledger!LedgerNext

(* A step that leaves the columns of the ledger alone. *)
LEMMA NothingLedgered ==
    ASSUME UNCHANGED <<ticket, audit>>,
           \A p \in Pays : /\ pay'[p].exists = pay[p].exists
                           /\ pay'[p].buyer = pay[p].buyer
                           /\ pay'[p].approved = pay[p].approved
    PROVE  UNCHANGED Ledger!ledger
BY DEF Ledger!ledger

(* The tickets of a reservation, of a payment, or of a request change hands. *)
LEMMA TicketsLedgered ==
    ASSUME TypeOK, NEW q \in Tasks,
           \/ ReserveManually(q) \/ ReserveRandomly(q)
           \/ CancelTx(q) \/ ConfirmTx(q) \/ RejectRelease(q)
    PROVE  Ledger!LedgerNext
<1>1. ASSUME NEW chosen, StoreReservation(q, chosen) PROVE Ledger!LedgerNext
  <2>1. PICK r \in Resvs :
          ticket' = [t \in Tickets |->
                       IF t \in chosen
                       THEN [ticket[t] EXCEPT !.status = "RESERVED", !.resv = r]
                       ELSE ticket[t]]
    BY <1>1 DEF StoreReservation
  <2> DEFINE S == chosen \cap Tickets
  <2>2. \A t \in S : ticket'[t].status # "SOLD" BY <2>1 DEF TypeOK, TicketRow
  <2>3. \A t \in Tickets \ S : ticket'[t] = ticket[t] BY <2>1
  <2>4. UNCHANGED <<pay, audit>> BY <1>1 DEF StoreReservation
  <2>5. S \in SUBSET Tickets OBVIOUS
  <2> HIDE DEF S
  <2> QED BY <2>2, <2>3, <2>4, <2>5, GivenBack
<1>2. CASE CancelTx(q)
  <2>1. \A t \in HeldBy(task[q].resv) : ticket'[t].status # "SOLD"
    BY <1>2 DEF CancelTx, Released, HeldBy, TypeOK, TicketRow
  <2>2. \A t \in Tickets \ HeldBy(task[q].resv) : ticket'[t] = ticket[t]
    BY <1>2 DEF CancelTx, HeldBy
  <2>3. HeldBy(task[q].resv) \in SUBSET Tickets BY DEF HeldBy
  <2> QED BY <1>2, <2>1, <2>2, <2>3, GivenBack DEF CancelTx
<1>3. CASE ConfirmTx(q)
  <2>1. \A t \in HeldBy(task[q].resv) : ticket'[t].status # "SOLD"
    BY <1>3 DEF ConfirmTx, Awaiting, HeldBy, TypeOK, TicketRow
  <2>2. \A t \in Tickets \ HeldBy(task[q].resv) : ticket'[t] = ticket[t]
    BY <1>3 DEF ConfirmTx, HeldBy
  <2>3. HeldBy(task[q].resv) \in SUBSET Tickets BY DEF HeldBy
  <2> QED BY <1>3, <2>1, <2>2, <2>3, GivenBack DEF ConfirmTx
<1>4. CASE RejectRelease(q)
  <2> DEFINE S == {t \in Tickets : ticket[t].pay = task[q].pay
                                     /\ ticket[t].status \in Releasable}
  <2>1. \A t \in S : ticket'[t].status # "SOLD"
    BY <1>4 DEF RejectRelease, NewTicket
  <2>2. \A t \in Tickets \ S : ticket'[t] = ticket[t] BY <1>4 DEF RejectRelease
  <2>3. S \in SUBSET Tickets OBVIOUS
  <2> HIDE DEF S
  <2> QED BY <1>4, <2>1, <2>2, <2>3, GivenBack DEF RejectRelease
<1> QED BY <1>1, <1>2, <1>3, <1>4 DEF ReserveManually, ReserveRandomly

(* finalizeTickets buys the tickets linked to its payment: none of them has  *)
(* been sold with another, and the buyer it read is the payer.               *)
LEMMA SaleLedgered ==
    ASSUME TypeOK, ApprovalInv, NEW q \in Tasks, FinalizeTx(q)
    PROVE  Ledger!LedgerNext
<1>1. task[q].pc = "finalize_tx" /\ UNCHANGED <<pay, audit>> BY DEF FinalizeTx
<1>2. PICK p \in Pays : /\ p = task[q].pay /\ pay[p].approved
                        /\ task[q].buyer = pay[p].buyer
  BY <1>1, LocalsType
  DEF ApprovalInv, ActsOnPayment, ApprovedPcs, BuyerPcs, PayPcs, Pcs
<1>3. PICK S \in SUBSET Tickets : S = LinkedTo(p) BY DEF LinkedTo
<1>4. ASSUME NEW t \in Tickets
      PROVE  /\ t \in S => /\ ticket[t].pay = p /\ ticket'[t].pay = p
                           /\ ticket'[t].status = "SOLD"
                           /\ ticket'[t].buyer = pay[p].buyer
             /\ t \notin S => ticket'[t] = ticket[t]
  BY <1>2, <1>3 DEF FinalizeTx, SoldTo, LinkedTo, TypeOK, TicketRow
<1>5. Ledger!Buy(p, S)
  <2>1. [t \in Tickets |-> IF ticket'[t].status = "SOLD" THEN ticket'[t].pay ELSE null]
          = [t \in Tickets |-> IF t \in S THEN p
                ELSE [u \in Tickets |-> IF ticket[u].status = "SOLD"
                                        THEN ticket[u].pay ELSE null][t]]
    BY <1>4
  <2>2. [t \in Tickets |-> IF ticket'[t].status = "SOLD" THEN ticket'[t].buyer ELSE null]
          = [t \in Tickets |-> IF t \in S THEN [r \in Pays |-> pay[r].buyer][p]
                ELSE [u \in Tickets |-> IF ticket[u].status = "SOLD"
                                        THEN ticket[u].buyer ELSE null][t]]
    BY <1>2, <1>4
  <2>3. \A t \in S : [u \in Tickets |-> IF ticket[u].status = "SOLD"
                                        THEN ticket[u].pay ELSE null][t] \in {null, p}
    BY <1>4
  <2> QED BY <1>1, <1>2, <2>1, <2>2, <2>3 DEF Ledger!Buy
<1> QED BY <1>5 DEF Ledger!LedgerNext

(* initiatePayment opens a payment. *)
LEMMA CreationLedgered ==
    ASSUME TypeOK, ApprovalInv, NEW q \in Tasks, CreatePayment(q)
    PROVE  Ledger!LedgerNext
<1>0. PICK b \in Buyers \cup {null} : b = task[q].buyer BY LocalsType
<1>1. PICK p \in Pays :
        /\ ~pay[p].exists
        /\ pay' = [pay EXCEPT ![p] = [NoPay EXCEPT !.exists = TRUE,
                                        !.buyer = task[q].buyer,
                                        !.key = task[q].key]]
  BY DEF CreatePayment
<1>2. UNCHANGED <<ticket, audit>> BY DEF CreatePayment
<1>3. /\ pay'[p].exists /\ ~pay'[p].approved /\ pay'[p].buyer = b
      /\ ~pay[p].approved
      /\ \A other \in Pays : other # p => pay'[other] = pay[other]
  BY <1>0, <1>1 DEF TypeOK, NoPay, ApprovalInv, ApprovedExist
<1>4. Ledger!Open(p, b)
  <2>1. {x \in Pays : pay'[x].exists} = {x \in Pays : pay[x].exists} \cup {p}
    BY <1>3
  <2>2. [x \in Pays |-> pay'[x].buyer]
          = [[x \in Pays |-> pay[x].buyer] EXCEPT ![p] = b]
    BY <1>3
  <2>3. {x \in Pays : pay'[x].approved} = {x \in Pays : pay[x].approved} BY <1>3
  <2>4. p \notin {x \in Pays : pay[x].exists} BY <1>1
  <2> QED BY <1>2, <2>1, <2>2, <2>3, <2>4 DEF Ledger!Open
<1> QED BY <1>4 DEF Ledger!LedgerNext

(* Writing an approval, by a reviewer or by the automatic verdict. *)
LEMMA ApprovalLedgered ==
    ASSUME TypeOK, TypeOK', ApprovalInv, NEW q \in Tasks,
           ApproveWrite(q) \/ StoreVerdict(q)
    PROVE  [Ledger!LedgerNext]_(Ledger!ledger)
<1>1. task[q].pc \in PayPcs BY DEF ApproveWrite, StoreVerdict, PayPcs, Pcs
<1>2. PICK p \in Pays : p = task[q].pay /\ pay[p].exists
  BY <1>1, LocalsType DEF ApprovalInv, ActsOnPayment
<1>3. \A x \in Pays : /\ pay'[x].exists = pay[x].exists
                      /\ pay'[x].buyer = pay[x].buyer
                      /\ pay[x].approved => pay'[x].approved
                      /\ x # p => pay'[x] = pay[x]
  BY <1>2, ReviewColumns
<1>4. UNCHANGED <<ticket, audit>> BY DEF ApproveWrite, StoreVerdict
<1>5. CASE pay'[p].approved
  <2>1. {x \in Pays : pay'[x].approved} = {x \in Pays : pay[x].approved} \cup {p}
    BY <1>2, <1>3, <1>5
  <2>2. /\ {x \in Pays : pay'[x].exists} = {x \in Pays : pay[x].exists}
        /\ [x \in Pays |-> pay'[x].buyer] = [x \in Pays |-> pay[x].buyer]
    BY <1>3
  <2>3. p \in {x \in Pays : pay[x].exists} BY <1>2
  <2>4. Ledger!Approve(p) BY <1>4, <2>1, <2>2, <2>3 DEF Ledger!Approve
  <2> QED BY <1>2, <2>4 DEF Ledger!LedgerNext
<1>6. CASE ~pay'[p].approved
  <2>1. \A x \in Pays : pay[x].approved \in BOOLEAN /\ pay'[x].approved \in BOOLEAN
    BY DEF TypeOK, PayRow
  <2>2. \A x \in Pays : pay'[x].approved = pay[x].approved BY <1>3, <1>6, <2>1
  <2> QED BY <1>3, <1>4, <2>2, NothingLedgered
<1> QED BY <1>5, <1>6

(* The audit row of an approval; that of a rejection is not in the ledger.   *)
LEMMA RecordLedgered ==
    ASSUME TypeOK, ApprovalInv, NEW q \in Tasks, WriteAudit(q)
    PROVE  [Ledger!LedgerNext]_(Ledger!ledger)
<1>0. task[q].pc \in PayPcs BY DEF WriteAudit, PayPcs, Pcs
<1>1. PICK p \in Pays : p = task[q].pay BY <1>0, LocalsType
<1>2. UNCHANGED <<ticket, pay>> BY DEF WriteAudit
<1>3. CASE task[q].pc = "approve_audit"
  <2>1. pay[p].approved
    BY <1>1, <1>3 DEF ApprovalInv, ActsOnPayment, ApprovedPcs
  <2>2. audit' = audit \cup {<<p, "APPROVE">>} BY <1>1, <1>3 DEF WriteAudit
  <2>3. {x \in Pays : <<x, "APPROVE">> \in audit'}
          = {x \in Pays : <<x, "APPROVE">> \in audit} \cup {p}
    BY <2>2
  <2>4. Ledger!Record(p) BY <1>2, <2>1, <2>3 DEF Ledger!Record
  <2> QED BY <2>4 DEF Ledger!LedgerNext
<1>4. CASE task[q].pc # "approve_audit"
  <2>1. audit' = audit \cup {<<p, "REJECT">>} BY <1>1, <1>4 DEF WriteAudit
  <2>2. {x \in Pays : <<x, "APPROVE">> \in audit'}
          = {x \in Pays : <<x, "APPROVE">> \in audit}
    BY <2>1
  <2> QED BY <1>2, <2>2 DEF Ledger!ledger
<1> QED BY <1>3, <1>4

(* The review columns that the ledger does not have. *)
LEMMA ReviewNotLedgered ==
    ASSUME TypeOK, TypeOK', NEW q \in Tasks,
           \/ StoreSlip(q) \/ RejectWrite(q) \/ RefundWrite(q)
           \/ UnderReviewWrite(q) \/ DeleteWrite(q) \/ RestoreWrite(q)
    PROVE  UNCHANGED Ledger!ledger
<1>1. UNCHANGED <<ticket, audit>>
  BY DEF StoreSlip, RejectWrite, RefundWrite, UnderReviewWrite, DeleteWrite, RestoreWrite
<1>2. \A p \in Pays : /\ pay'[p].exists = pay[p].exists
                      /\ pay'[p].buyer = pay[p].buyer
  BY ReviewColumns
<1>3. ASSUME NEW p \in Pays PROVE pay'[p].approved = pay[p].approved
  <2>1. CASE StoreSlip(q) BY <2>1 DEF StoreSlip, TypeOK, PayRow
  <2>2. CASE RejectWrite(q) BY <2>2 DEF RejectWrite, TypeOK, PayRow
  <2>3. CASE RefundWrite(q) BY <2>3 DEF RefundWrite, TypeOK, PayRow
  <2>4. CASE UnderReviewWrite(q) BY <2>4 DEF UnderReviewWrite, TypeOK, PayRow
  <2>5. CASE DeleteWrite(q) BY <2>5 DEF DeleteWrite, TypeOK, PayRow
  <2>6. CASE RestoreWrite(q) BY <2>6 DEF RestoreWrite, TypeOK, PayRow
  <2> QED BY <2>1, <2>2, <2>3, <2>4, <2>5, <2>6
<1> QED BY <1>1, <1>2, <1>3, NothingLedgered

LEMMA LedgerStep ==
    ASSUME TypeOK, ApprovalInv, [Next]_vars
    PROVE  [Ledger!LedgerNext]_(Ledger!ledger)
<1>0. TypeOK' BY TypeStep
<1>1. CASE UNCHANGED <<ticket, pay, audit>> BY <1>1, NothingLedgered
<1>2. ASSUME NEW q \in Tasks,
             \/ ReserveManually(q) \/ ReserveRandomly(q)
             \/ CancelTx(q) \/ ConfirmTx(q) \/ RejectRelease(q)
      PROVE  Ledger!LedgerNext
  BY <1>2, TicketsLedgered
<1>3. ASSUME NEW q \in Tasks, FinalizeTx(q) PROVE Ledger!LedgerNext
  BY <1>3, SaleLedgered
<1>4. ASSUME NEW q \in Tasks, CreatePayment(q) PROVE Ledger!LedgerNext
  BY <1>4, CreationLedgered
<1>5. ASSUME NEW q \in Tasks, ApproveWrite(q) \/ StoreVerdict(q)
      PROVE  [Ledger!LedgerNext]_(Ledger!ledger)
  BY <1>0, <1>5, ApprovalLedgered
<1>6. ASSUME NEW q \in Tasks, WriteAudit(q)
      PROVE  [Ledger!LedgerNext]_(Ledger!ledger)
  BY <1>6, RecordLedgered
<1>7. ASSUME NEW q \in Tasks,
             \/ StoreSlip(q) \/ RejectWrite(q) \/ RefundWrite(q)
             \/ UnderReviewWrite(q) \/ DeleteWrite(q) \/ RestoreWrite(q)
      PROVE  [Ledger!LedgerNext]_(Ledger!ledger)
  BY <1>0, <1>7, ReviewNotLedgered
<1>8. ASSUME NEW q \in Tasks,
             \/ Begin(q) \/ ExpireRead(q) \/ Fail(q)
             \/ SelectManually(q) \/ ReserveRefused(q) \/ CancelRead(q)
             \/ ConfirmRead(q) \/ FinalizeRead(q)
             \/ CreatePaymentRefused(q) \/ DuplicateSlipCheck(q) \/ VerifySlip(q)
             \/ CloseWrite(q)
      PROVE  [Ledger!LedgerNext]_(Ledger!ledger)
  <2>1. UNCHANGED pay BY <1>8, OthersKeepPayments
  <2>2. UNCHANGED audit BY <1>8, OthersKeepAudit
  <2>3. UNCHANGED ticket BY <1>8, OthersKeepHolds
  <2> QED BY <1>1, <2>1, <2>2, <2>3
<1>9. CASE Tick \/ Crash \/ UNCHANGED vars
  <2>1. UNCHANGED <<ticket, pay, audit>> BY <1>9 DEF Tick, Crash, rows, vars
  <2> QED BY <1>1, <2>1
<1> QED BY <1>2, <1>3, <1>4, <1>5, <1>6, <1>7, <1>8, <1>9 DEF Next, Continue

(* The sale implements the ledger.  ApprovalInv carries the refinement: a    *)
(* sale is a purchase of the ledger because the handler about to sell holds  *)
(* an approved payment's id and its payer.                                   *)
THEOREM SaleImplementsLedger == Spec => ImplementsLedger
<1>1. Init => Ledger!LedgerInit
  BY DEF Init, Start, NewTicket, NoPay, Ledger!LedgerInit
<1>2. TypeOK /\ ApprovalInv /\ [Next]_vars => [Ledger!LedgerNext]_(Ledger!ledger)
  BY LedgerStep
<1> QED
  BY <1>1, <1>2, TypeCorrect, ApprovalInvariant, PTL
  DEF Spec, ImplementsLedger, Ledger!LedgerSpec
=============================================================================
