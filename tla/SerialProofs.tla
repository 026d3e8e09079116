---------------------------- MODULE SerialProofs ----------------------------
(***************************************************************************)
(* What tickets, payments and reports agree on as long as requests do not  *)
(* overlap and nothing fails, for every number of tickets, payments,       *)
(* buyers and reservations: RestingRowsAgree and ReportsAgree.             *)
(***************************************************************************)
EXTENDS Reports, ImportsProofs

(* The statuses of a payment that has bought its tickets. *)
Settled == {"APPROVED", "REFUNDED"}

(* The sale of p has been decided and its tickets are about to be sold, or   *)
(* its rejection has been written and they are about to be released.         *)
Selling(p) ==
    \E q \in Tasks : task[q].pc \in {"finalize_read", "finalize_tx"} /\ task[q].pay = p
Releasing(p) ==
    \E q \in Tasks : task[q].pc = "reject_release" /\ task[q].pay = p

(* A ticket agrees with its payment and its reservation, but for the moment  *)
(* between the two statements of a sale or of a rejection.                   *)
TicketAgrees(t) ==
    LET p == ticket[t].pay IN
    /\ ticket[t].status = "AVAILABLE" => ticket[t] = NewTicket
    /\ ticket[t].status = "RESERVED" => p = null /\ ticket[t].buyer = null
    /\ ticket[t].status = "PENDING_PAYMENT" => p # null
    /\ p # null => pay[p].exists
    /\ ticket[t].status = "SOLD" => pay[p].status \in Settled \/ Releasing(p)
    /\ ticket[t].status # "SOLD" /\ p # null => pay[p].status \notin Settled \/ Selling(p)
    /\ ticket[t].resv # null /\ OpenResv(ticket[t].resv) => ticket[t].status = "RESERVED"

Sold == {t \in Tickets : ticket[t].status = "SOLD"}
SoldAreCounted == Cardinality(Sold) <= lottery.sold

(* The statements that rest on a payment not yet decided, and on a decided   *)
(* one.                                                                      *)
UndecidedPcs == {"confirm_read", "confirm_tx", "dup_check", "slip_tx", "verify", "verdict",
                 "approve_write", "review_write", "import_pick", "import_count",
                 "import_assign", "import_submit", "import_approve"}
BulkPcs      == {"bulk_pick", "bulk_short", "bulk_tx"}
DecidedPcs   == {"finalize_read", "finalize_tx", "refund_write"} \cup BulkPcs

(* Those that name a reservation. *)
ResvPcs == {"pay_create", "confirm_read", "confirm_tx", "cancel_read", "cancel_tx"}

(* What the one handler has read still holds when it is used. *)
TaskAgrees(q) ==
    LET pc == task[q].pc
        p  == task[q].pay
    IN
    /\ pc # "import_listed"
    /\ pc = "import_create" => task[q].tickets = {}
    /\ pc \in {"reserve_write", "import_assign", "bulk_tx"} =>
         task[q].tickets \subseteq Available
    /\ pc = "bulk_tx" => Cardinality(task[q].tickets) = task[q].qty
    /\ pc \in ResvPcs => task[q].resv # null
    /\ pc = "cancel_tx" => OpenResv(task[q].resv)
    /\ pc \in UndecidedPcs => pay[p].status \notin Settled
    /\ pc \in DecidedPcs => pay[p].status \in Settled
    /\ pc \in BulkPcs => LinkedTo(p) = {}
    /\ pc = "finalize_tx" => task[q].count = Cardinality(LinkedTo(p))

(* The inductive invariant.  RestingRowsAgree says nothing while a handler   *)
(* is in flight; this says what it holds, and what is not yet so.            *)
SerialInv ==
    /\ \A t \in Tickets : TicketAgrees(t)
    /\ \A q \in Tasks : TaskAgrees(q)
    /\ SoldAreCounted

(* What the sale guarantees however requests overlap. *)
SaleInv == TypeOK /\ ApprovalInv /\ TicketsFollowTheirReservation

-----------------------------------------------------------------------------
(* Rows that a statement leaves alone *)

LEMMA NobodySells ==
    ASSUME NEW q, Tasks = {q},
           task[q].pc \notin {"finalize_read", "finalize_tx", "reject_release"}
    PROVE  \A p : ~Selling(p) /\ ~Releasing(p)
BY DEF Selling, Releasing

LEMMA RowsRest ==
    ASSUME SerialInv, UNCHANGED <<ticket, resv, pay>>,
           \A p : (Selling(p) => Selling(p)') /\ (Releasing(p) => Releasing(p)')
    PROVE  \A t \in Tickets : TicketAgrees(t)'
BY DEF SerialInv, TicketAgrees, OpenResv

(* A statement that writes one payment.                                      *)
LEMMA OnePaymentMoves ==
    ASSUME SaleInv, SerialInv, UNCHANGED <<ticket, resv>>,
           NEW one \in Pays,
           \A p : ~Selling(p) /\ ~Releasing(p),
           pay'[one].exists,
           \A p \in Pays : p # one => pay'[p] = pay[p],
           \/ LinkedTo(one) = {}
           \/ /\ pay[one].status \in Settled =>
                   pay'[one].status \in Settled \/ Releasing(one)'
              /\ pay[one].status \notin Settled =>
                   pay'[one].status \notin Settled \/ Selling(one)'
    PROVE  \A t \in Tickets : TicketAgrees(t)'
<1> SUFFICES ASSUME NEW t \in Tickets PROVE TicketAgrees(t)' OBVIOUS
<1>1. TicketAgrees(t) BY DEF SerialInv
<1>2. ticket[t].status = "SOLD" => ticket[t].pay # null
  BY DEF SaleInv, ApprovalInv, SoldTicketsBelongToThePayer
<1>3. ticket[t].pay \in Pays \cup {null} BY DEF SaleInv, TypeOK, TicketRow
<1>4. CASE ticket[t].pay = one
  <2>1. LinkedTo(one) # {} BY <1>4 DEF LinkedTo
  <2> QED BY <1>1, <1>2, <1>4, <2>1 DEF TicketAgrees, OpenResv
<1>5. CASE ticket[t].pay # one
  <2>1. ticket[t].pay # null => pay'[ticket[t].pay] = pay[ticket[t].pay] BY <1>3, <1>5
  <2> QED BY <1>1, <1>2, <2>1 DEF TicketAgrees, OpenResv
<1> QED BY <1>4, <1>5

(* No ticket is sold, and the counter does not go back. *)
LEMMA NoneSold ==
    ASSUME SaleInv, SerialInv, lottery'.sold = lottery.sold,
           \A t \in Tickets : ticket'[t].status = "SOLD" => ticket[t].status = "SOLD"
    PROVE  SoldAreCounted'
<1>1. Sold' \subseteq Sold BY DEF Sold
<1>2. IsFiniteSet(Sold)
  BY FS_Subset, StoreAssumption DEF StoreAssumption, Sold
<1>3. Cardinality(Sold') <= Cardinality(Sold) /\ IsFiniteSet(Sold') BY <1>1, <1>2, FS_Subset
<1>4. Cardinality(Sold) \in Nat /\ Cardinality(Sold') \in Nat
  BY <1>2, <1>3, FS_CardinalityType
<1>5. lottery.sold \in Nat BY DEF SaleInv, TypeOK, LotteryRow
<1> QED BY <1>3, <1>4, <1>5 DEF SerialInv, SoldAreCounted

-----------------------------------------------------------------------------
(* What the handler holds after a statement *)

LEMMA NothingHeld ==
    ASSUME NEW q,
           task'[q].pc \notin UndecidedPcs \cup DecidedPcs \cup ResvPcs
                              \cup {"import_listed", "import_create", "reserve_write"}
    PROVE  TaskAgrees(q)'
BY DEF TaskAgrees, UndecidedPcs, DecidedPcs, BulkPcs, ResvPcs

LEMMA UndecidedHeld ==
    ASSUME NEW q, task'[q].pc \in UndecidedPcs \ {"import_assign"},
           pay'[task'[q].pay].status \notin Settled,
           task'[q].pc \in {"confirm_read", "confirm_tx"} => task'[q].resv # null
    PROVE  TaskAgrees(q)'
BY DEF TaskAgrees, UndecidedPcs, DecidedPcs, BulkPcs, ResvPcs

LEMMA DecidedHeld ==
    ASSUME NEW q, task'[q].pc \in {"finalize_read", "refund_write"},
           pay'[task'[q].pay].status \in Settled
    PROVE  TaskAgrees(q)'
BY DEF TaskAgrees, UndecidedPcs, DecidedPcs, BulkPcs, ResvPcs

(* The record of q in one step: what Run and Goto write.                     *)
LEMMA GotoKeeps ==
    ASSUME TypeOK, NEW q \in Tasks, NEW pc, Goto(q, pc)
    PROVE  /\ task'[q].pc = pc
           /\ task'[q].pay = task[q].pay /\ task'[q].resv = task[q].resv
           /\ task'[q].tickets = task[q].tickets /\ task'[q].op = task[q].op
<1>1. task[q] \in TaskLocals BY DEF TypeOK, TaskRow
<1>2. task'[q] = [task[q] EXCEPT !.pc = pc] BY DEF Goto, TypeOK
<1> QED BY <1>1, <1>2 DEF TaskLocals

LEMMA RunIdle ==
    ASSUME TypeOK, NEW q \in Tasks, Run(q, Idle) \/ Return(q)
    PROVE  task'[q].pc = "idle" /\ TaskAgrees(q)'
<1>1. task'[q].pc = "idle" BY RunWrites, ReturnWrites DEF Idle
<1> QED BY <1>1, NothingHeld DEF UndecidedPcs, DecidedPcs, BulkPcs, ResvPcs

-----------------------------------------------------------------------------
(* The statements that write tickets *)

(* Tickets that another reservation, or none, holds keep what they were. *)
LEMMA UntouchedTicket ==
    ASSUME SerialInv, NEW t \in Tickets, ticket'[t] = ticket[t], UNCHANGED pay,
           \A p : ~Selling(p) /\ ~Releasing(p),
           ticket[t].resv # null =>
             (OpenResv(ticket[t].resv)' => OpenResv(ticket[t].resv))
    PROVE  TicketAgrees(t)'
BY DEF SerialInv, TicketAgrees, OpenResv

LEMMA ReserveAgrees ==
    ASSUME SaleInv, SerialInv, NEW q \in Tasks, Tasks = {q},
           task[q].pc \in {"reserve_tx", "reserve_write"},
           NEW chosen \in SUBSET Available, StoreReservation(q, chosen)
    PROVE  SerialInv'
<1>0. \A p : ~Selling(p) /\ ~Releasing(p) BY NobodySells
<1>1. PICK r \in Resvs :
        /\ ~resv[r].exists
        /\ resv' = [resv EXCEPT ![r] =
                      [exists |-> TRUE, cancelled |-> FALSE, confirmed |-> FALSE,
                       key |-> task[q].key, qty |-> task[q].qty,
                       exp |-> task[q].exp]]
        /\ ticket' = [t \in Tickets |->
                        IF t \in chosen
                        THEN [ticket[t] EXCEPT !.status = "RESERVED", !.resv = r]
                        ELSE ticket[t]]
  BY DEF StoreReservation
<1>2. UNCHANGED pay /\ Run(q, Idle) BY DEF StoreReservation
<1>3. lottery'.sold = lottery.sold
  BY DEF StoreReservation, SaleInv, TypeOK, LotteryRow
<1>4. ASSUME NEW t \in Tickets PROVE TicketAgrees(t)'
  <2>1. CASE t \in chosen
    <3>1. ticket[t].status = "AVAILABLE" BY <2>1 DEF Available
    <3>2. ticket[t] = NewTicket BY <3>1 DEF SerialInv, TicketAgrees
    <3>3. ticket'[t] = [NewTicket EXCEPT !.status = "RESERVED", !.resv = r]
      BY <1>1, <2>1, <3>2
    <3> QED BY <3>3 DEF NewTicket, TicketAgrees
  <2>2. CASE t \notin chosen
    <3>1. ticket'[t] = ticket[t] BY <1>1, <2>2
    <3>2. ticket[t].resv # null => ticket[t].resv # r /\ ticket[t].resv \in Resvs
      BY <1>1 DEF SaleInv, TicketsFollowTheirReservation, TypeOK, TicketRow
    <3>3. ticket[t].resv # null => resv'[ticket[t].resv] = resv[ticket[t].resv]
      BY <1>1, <3>2 DEF SaleInv, TypeOK
    <3> QED BY <1>0, <1>2, <3>1, <3>3, UntouchedTicket DEF OpenResv
  <2> QED BY <2>1, <2>2
<1>5. SoldAreCounted'
  <2>1. \A t \in Tickets : ticket'[t].status = "SOLD" => ticket[t].status = "SOLD"
    BY <1>1 DEF SaleInv, TypeOK, TicketRow
  <2> QED BY <1>3, <2>1, NoneSold
<1>6. TaskAgrees(q)' BY <1>2, RunIdle DEF SaleInv
<1> QED BY <1>4, <1>5, <1>6 DEF SerialInv

LEMMA CancelAgrees ==
    ASSUME SaleInv, SerialInv, NEW q \in Tasks, Tasks = {q}, CancelTx(q)
    PROVE  SerialInv'
<1>0. task[q].pc = "cancel_tx" /\ UNCHANGED <<pay, lottery>> BY DEF CancelTx
<1>1. \A p : ~Selling(p) /\ ~Releasing(p) BY <1>0, NobodySells
<1>2. OpenResv(task[q].resv) /\ task[q].resv # null
  BY <1>0 DEF SerialInv, TaskAgrees, ResvPcs
<1>3. ASSUME NEW t \in Tickets PROVE TicketAgrees(t)'
  <2>0. TicketAgrees(t) /\ ticket[t] \in TicketRow BY DEF SerialInv, SaleInv, TypeOK
  <2>1. CASE ticket[t].resv = task[q].resv
    <3>1. ticket[t].status = "RESERVED" BY <1>2, <2>0, <2>1 DEF TicketAgrees
    <3>2. ticket[t].pay = null /\ ticket[t].buyer = null BY <2>0, <3>1 DEF TicketAgrees
    <3>3. ticket'[t] = [ticket[t] EXCEPT !.status = "AVAILABLE", !.resv = null]
      BY <2>1 DEF CancelTx, Released
    <3>4. ticket'[t] = NewTicket BY <2>0, <3>2, <3>3 DEF TicketRow, NewTicket
    <3> QED BY <3>4 DEF TicketAgrees, NewTicket
  <2>2. CASE ticket[t].resv # task[q].resv
    <3>1. ticket'[t] = ticket[t] BY <2>2 DEF CancelTx
    <3>2. ticket[t].resv # null => resv'[ticket[t].resv] = resv[ticket[t].resv]
      BY <2>0, <2>2 DEF CancelTx, SaleInv, TypeOK, TicketRow
    <3> QED BY <1>0, <1>1, <3>1, <3>2, UntouchedTicket DEF OpenResv
  <2> QED BY <2>1, <2>2
<1>4. SoldAreCounted'
  <2>1. \A t \in Tickets : ticket'[t].status = "SOLD" => ticket[t].status = "SOLD"
    BY DEF CancelTx, Released, SaleInv, TypeOK, TicketRow
  <2> QED BY <1>0, <2>1, NoneSold
<1>5. TaskAgrees(q)' BY RunIdle DEF CancelTx, SaleInv
<1> QED BY <1>3, <1>4, <1>5 DEF SerialInv

(* A payment a handler names before it is decided exists. *)
LEMMA PaymentInHand ==
    ASSUME SaleInv, NEW q \in Tasks, task[q].pc \in PayPcs
    PROVE  task[q].pay \in Pays /\ task[q].pay # null /\ pay[task[q].pay].exists
<1>1. task[q].pay \in Pays BY LocalsType DEF SaleInv
<1> QED BY <1>1, StoreAssumption DEF SaleInv, ApprovalInv, ActsOnPayment, StoreAssumption

LEMMA ConfirmAgrees ==
    ASSUME SaleInv, SerialInv, NEW q \in Tasks, Tasks = {q}, ConfirmTx(q)
    PROVE  SerialInv'
<1>p. PICK p, r : p = task[q].pay /\ r = task[q].resv OBVIOUS
<1>0. task[q].pc = "confirm_tx" /\ UNCHANGED <<pay, lottery>> BY DEF ConfirmTx
<1>1. \A x : ~Selling(x) /\ ~Releasing(x) BY <1>0, NobodySells
<1>2. pay[p].status \notin Settled /\ r # null
  BY <1>0, <1>p DEF SerialInv, TaskAgrees, ResvPcs, UndecidedPcs
<1>3. p # null /\ pay[p].exists BY <1>0, <1>p, PaymentInHand DEF PayPcs, Pcs
<1>4. ASSUME NEW t \in Tickets PROVE TicketAgrees(t)'
  <2>0. TicketAgrees(t) /\ ticket[t] \in TicketRow BY DEF SerialInv, SaleInv, TypeOK
  <2>1. CASE ticket[t].resv = r
    <3>1. ticket'[t] = [ticket[t] EXCEPT !.status = "PENDING_PAYMENT", !.pay = p]
      BY <1>p, <2>1 DEF ConfirmTx, Awaiting
    <3>2. /\ ticket'[t].status = "PENDING_PAYMENT" /\ ticket'[t].pay = p
          /\ ticket'[t].resv = r
      BY <2>0, <2>1, <3>1 DEF TicketRow
    <3>3. r \in Resvs BY <1>2, <2>0, <2>1 DEF TicketRow
    <3>4. ~OpenResv(r)' BY <1>p, <3>3 DEF ConfirmTx, OpenResv, SaleInv, TypeOK, ResvRow
    <3> QED BY <1>0, <1>2, <1>3, <3>2, <3>4 DEF TicketAgrees, OpenResv
  <2>2. CASE ticket[t].resv # r
    <3>1. ticket'[t] = ticket[t] BY <1>p, <2>2 DEF ConfirmTx
    <3>2. ticket[t].resv # null => resv'[ticket[t].resv] = resv[ticket[t].resv]
      BY <1>p, <2>0, <2>2 DEF ConfirmTx, SaleInv, TypeOK, TicketRow
    <3> QED BY <1>0, <1>1, <3>1, <3>2, UntouchedTicket DEF OpenResv
  <2> QED BY <2>1, <2>2
<1>5. SoldAreCounted'
  <2>1. \A t \in Tickets : ticket'[t].status = "SOLD" => ticket[t].status = "SOLD"
    BY DEF ConfirmTx, Awaiting, SaleInv, TypeOK, TicketRow
  <2> QED BY <1>0, <2>1, NoneSold
<1>6. TaskAgrees(q)' BY RunIdle DEF ConfirmTx, SaleInv
<1> QED BY <1>4, <1>5, <1>6 DEF SerialInv

(* The tickets the update marks are those the read has counted. *)
LEMMA FinalizeAgrees ==
    ASSUME SaleInv, SerialInv, NEW q \in Tasks, Tasks = {q}, FinalizeTx(q)
    PROVE  SerialInv'
<1> DEFINE p == task[q].pay
<1>0. task[q].pc = "finalize_tx" /\ UNCHANGED <<resv, pay>> BY DEF FinalizeTx
<1>1. \A x : ~Releasing(x) /\ (Selling(x) => x = p)
  BY <1>0 DEF Selling, Releasing
<1>2. pay[p].status \in Settled /\ task[q].count = Cardinality(LinkedTo(p))
  BY <1>0 DEF SerialInv, TaskAgrees, DecidedPcs
<1>3. p # null /\ pay[p].exists BY <1>0, PaymentInHand DEF PayPcs, Pcs
<1>4. ASSUME NEW t \in Tickets PROVE TicketAgrees(t)'
  <2>0. TicketAgrees(t) /\ ticket[t] \in TicketRow BY DEF SerialInv, SaleInv, TypeOK
  <2>1. CASE ticket[t].pay = p
    <3>1. ticket'[t] = [ticket[t] EXCEPT !.status = "SOLD", !.buyer = task[q].buyer]
      BY <2>1 DEF FinalizeTx, SoldTo
    <3>2. /\ ticket'[t].status = "SOLD" /\ ticket'[t].pay = p
          /\ ticket'[t].resv = ticket[t].resv
      BY <2>0, <2>1, <3>1 DEF TicketRow
    <3>3. ticket[t].status # "RESERVED" BY <1>3, <2>0, <2>1 DEF TicketAgrees
    <3> QED BY <1>0, <1>2, <1>3, <2>0, <3>2, <3>3 DEF TicketAgrees, OpenResv
  <2>2. CASE ticket[t].pay # p
    <3>1. ticket'[t] = ticket[t] BY <2>2 DEF FinalizeTx
    <3> QED BY <1>0, <1>1, <2>0, <2>2, <3>1 DEF TicketAgrees, OpenResv
  <2> QED BY <2>1, <2>2
<1>5. SoldAreCounted'
  <2>1. Sold' = Sold \cup LinkedTo(p)
    BY DEF Sold, FinalizeTx, SoldTo, LinkedTo, SaleInv, TypeOK, TicketRow
  <2>2. IsFiniteSet(Sold) /\ IsFiniteSet(LinkedTo(p))
    BY FS_Subset, StoreAssumption DEF StoreAssumption, Sold, LinkedTo
  <2>3. IsFiniteSet(Sold \cap LinkedTo(p)) BY <2>2, FS_Intersection
  <2>4. /\ Cardinality(Sold) \in Nat /\ Cardinality(LinkedTo(p)) \in Nat
        /\ Cardinality(Sold \cap LinkedTo(p)) \in Nat
    BY <2>2, <2>3, FS_CardinalityType
  <2>5. Cardinality(Sold \cup LinkedTo(p))
          = Cardinality(Sold) + Cardinality(LinkedTo(p)) - Cardinality(Sold \cap LinkedTo(p))
    BY <2>2, FS_Union
  <2>6. lottery'.sold = lottery.sold + Cardinality(LinkedTo(p)) /\ lottery.sold \in Nat
    BY <1>2 DEF FinalizeTx, SaleInv, TypeOK, LotteryRow
  <2>7. Cardinality(Sold) <= lottery.sold BY DEF SerialInv, SoldAreCounted
  <2> QED BY <2>1, <2>4, <2>5, <2>6, <2>7 DEF SoldAreCounted
<1>6. TaskAgrees(q)'
  <2>1. CASE Goto(q, "approve_audit")
    <3>1. task'[q].pc = "approve_audit" BY <2>1, GotoWrites DEF SaleInv
    <3> QED BY <3>1, NothingHeld DEF UndecidedPcs, DecidedPcs, BulkPcs, ResvPcs
  <2>2. CASE Run(q, Idle) BY <2>2, RunIdle DEF SaleInv
  <2> QED BY <2>1, <2>2 DEF FinalizeTx
<1> QED BY <1>4, <1>5, <1>6 DEF SerialInv

(* Every ticket of the rejected payment is released, sold or not. *)
LEMMA ReleaseAgrees ==
    ASSUME SaleInv, SerialInv, NEW q \in Tasks, Tasks = {q}, RejectRelease(q)
    PROVE  SerialInv'
<1> DEFINE p == task[q].pay
<1>0. task[q].pc = "reject_release" /\ UNCHANGED <<resv, pay, lottery>> BY DEF RejectRelease
<1>1. \A x : ~Selling(x) /\ (Releasing(x) => x = p)
  BY <1>0 DEF Selling, Releasing
<1>3. p # null BY <1>0, PaymentInHand DEF PayPcs, Pcs
<1>4. ASSUME NEW t \in Tickets PROVE TicketAgrees(t)'
  <2>0. TicketAgrees(t) /\ ticket[t] \in TicketRow BY DEF SerialInv, SaleInv, TypeOK
  <2>1. CASE ticket[t].pay = p
    <3>1. ticket[t].status \in Releasable
      BY <1>3, <2>0, <2>1 DEF TicketAgrees, TicketRow, TicketStatus, NewTicket, Releasable
    <3>2. ticket'[t] = NewTicket BY <2>1, <3>1 DEF RejectRelease
    <3> QED BY <3>2 DEF TicketAgrees, NewTicket
  <2>2. CASE ticket[t].pay # p
    <3>1. ticket'[t] = ticket[t] BY <2>2 DEF RejectRelease
    <3> QED BY <1>0, <1>1, <2>0, <2>2, <3>1 DEF TicketAgrees, OpenResv
  <2> QED BY <2>1, <2>2
<1>5. SoldAreCounted'
  <2>1. \A t \in Tickets : ticket'[t].status = "SOLD" => ticket[t].status = "SOLD"
    BY DEF RejectRelease, NewTicket
  <2> QED BY <1>0, <2>1, NoneSold
<1>6. TaskAgrees(q)'
  <2>1. task'[q].pc = "reject_audit" BY GotoWrites DEF SaleInv, RejectRelease
  <2> QED BY <2>1, NothingHeld DEF UndecidedPcs, DecidedPcs, BulkPcs, ResvPcs
<1> QED BY <1>4, <1>5, <1>6 DEF SerialInv

(* The tickets an import takes are for sale, since nobody came in between.   *)
LEMMA AssignAgrees ==
    ASSUME SaleInv, SerialInv, NEW q \in Tasks, Tasks = {q}, ImportAssign(q)
    PROVE  SerialInv'
<1>p. PICK p : p = task[q].pay OBVIOUS
<1>0. task[q].pc = "import_assign" /\ UNCHANGED <<resv, pay, lottery>> BY DEF ImportAssign
<1>1. \A x : ~Selling(x) /\ ~Releasing(x) BY <1>0, NobodySells
<1>2. pay[p].status \notin Settled /\ task[q].tickets \subseteq Available
  BY <1>0, <1>p DEF SerialInv, TaskAgrees, UndecidedPcs
<1>3. p # null /\ pay[p].exists BY <1>0, <1>p, PaymentInHand DEF PayPcs, Pcs
<1>4. ASSUME NEW t \in Tickets PROVE TicketAgrees(t)'
  <2>0. TicketAgrees(t) BY DEF SerialInv
  <2>1. CASE t \in task[q].tickets
    <3>1. ticket[t] = NewTicket BY <1>2, <2>0, <2>1 DEF Available, TicketAgrees
    <3>2. ticket'[t] = [NewTicket EXCEPT !.status = "PENDING_PAYMENT", !.pay = p,
                                         !.buyer = task[q].buyer]
      BY <1>p, <2>1, <3>1 DEF ImportAssign, Assigned
    <3> QED BY <1>0, <1>2, <1>3, <3>2 DEF NewTicket, TicketAgrees
  <2>2. CASE t \notin task[q].tickets
    <3>1. ticket'[t] = ticket[t] BY <2>2 DEF ImportAssign
    <3> QED BY <1>0, <1>1, <3>1, UntouchedTicket DEF OpenResv
  <2> QED BY <2>1, <2>2
<1>5. SoldAreCounted'
  <2>1. \A t \in Tickets : ticket'[t].status = "SOLD" => ticket[t].status = "SOLD"
    BY DEF ImportAssign, Assigned, SaleInv, TypeOK, TicketRow
  <2> QED BY <1>0, <2>1, NoneSold
<1>6. TaskAgrees(q)'
  <2>1. /\ task'[q].pay = p
        /\ task'[q].pc \in {"import_submit", "import_approve"}
    BY <1>p, GotoKeeps DEF ImportAssign, AfterAssign, SaleInv
  <2> QED BY <1>0, <1>2, <2>1, UndecidedHeld DEF UndecidedPcs
<1> QED BY <1>4, <1>5, <1>6 DEF SerialInv

LEMMA BulkAgrees ==
    ASSUME SaleInv, SerialInv, NEW q \in Tasks, Tasks = {q}, BulkTx(q)
    PROVE  SerialInv'
<1>p. PICK p : p = task[q].pay OBVIOUS
<1>0. task[q].pc = "bulk_tx" /\ UNCHANGED <<resv, pay>> BY DEF BulkTx
<1>1. \A x : ~Selling(x) /\ ~Releasing(x) BY <1>0, NobodySells
<1>2. /\ pay[p].status \in Settled
      /\ task[q].tickets \subseteq Available
      /\ Cardinality(task[q].tickets) = task[q].qty
  BY <1>0, <1>p DEF SerialInv, TaskAgrees, DecidedPcs, BulkPcs
<1>3. p # null /\ pay[p].exists BY <1>0, <1>p, PaymentInHand DEF PayPcs, Pcs
<1>4. ASSUME NEW t \in Tickets PROVE TicketAgrees(t)'
  <2>0. TicketAgrees(t) BY DEF SerialInv
  <2>1. CASE t \in task[q].tickets
    <3>1. ticket[t] = NewTicket BY <1>2, <2>0, <2>1 DEF Available, TicketAgrees
    <3>2. ticket'[t] = [NewTicket EXCEPT !.status = "SOLD", !.pay = p,
                                         !.buyer = task[q].buyer]
      BY <1>p, <2>1, <3>1 DEF BulkTx, BulkSold
    <3> QED BY <1>0, <1>2, <1>3, <3>2 DEF NewTicket, TicketAgrees
  <2>2. CASE t \notin task[q].tickets
    <3>1. ticket'[t] = ticket[t] BY <2>2 DEF BulkTx
    <3> QED BY <1>0, <1>1, <3>1, UntouchedTicket DEF OpenResv
  <2> QED BY <2>1, <2>2
<1>5. SoldAreCounted'
  <2> DEFINE sold == task[q].tickets
  <2>1. Sold' \subseteq Sold \cup sold
    BY DEF Sold, BulkTx, BulkSold, SaleInv, TypeOK, TicketRow
  <2>2. IsFiniteSet(Sold) /\ IsFiniteSet(sold)
    BY <1>2, FS_Subset, StoreAssumption DEF StoreAssumption, Sold, Available
  <2>3. IsFiniteSet(Sold \cap sold) /\ IsFiniteSet(Sold \cup sold)
    BY <2>2, FS_Intersection, FS_Union
  <2>4. IsFiniteSet(Sold') /\ Cardinality(Sold') <= Cardinality(Sold \cup sold)
    BY <2>1, <2>3, FS_Subset
  <2>5. Cardinality(Sold \cup sold)
          = Cardinality(Sold) + Cardinality(sold) - Cardinality(Sold \cap sold)
    BY <2>2, FS_Union
  <2>6. /\ Cardinality(Sold) \in Nat /\ Cardinality(sold) \in Nat
        /\ Cardinality(Sold \cap sold) \in Nat /\ Cardinality(Sold') \in Nat
    BY <2>2, <2>3, <2>4, FS_CardinalityType
  <2>7. lottery'.sold = lottery.sold + Cardinality(sold) /\ lottery.sold \in Nat
    BY <1>2 DEF BulkTx, BulkCounted, SaleInv, TypeOK, LotteryRow
  <2>8. Cardinality(Sold) <= lottery.sold BY DEF SerialInv, SoldAreCounted
  <2> HIDE DEF sold
  <2>9. Cardinality(Sold') <= lottery'.sold BY <2>4, <2>5, <2>6, <2>7, <2>8
  <2> QED BY <2>9 DEF SoldAreCounted
<1>6. TaskAgrees(q)' BY RunIdle DEF BulkTx, SaleInv
<1> QED BY <1>4, <1>5, <1>6 DEF SerialInv

-----------------------------------------------------------------------------
(* The statements that write a payment *)

(* What a statement that writes the payment in hand has to establish.        *)
LEMMA DecisionAgrees ==
    ASSUME SaleInv, SerialInv, NEW q \in Tasks, Tasks = {q},
           UNCHANGED <<ticket, resv, lottery>>,
           task[q].pc \notin {"finalize_read", "finalize_tx", "reject_release"},
           NEW one \in Pays, pay'[one].exists,
           \A p \in Pays : p # one => pay'[p] = pay[p],
           \/ LinkedTo(one) = {}
           \/ pay[one].status \in Settled /\ pay'[one].status \in Settled
           \/ pay[one].status \notin Settled /\ pay'[one].status \notin Settled
           \/ /\ pay[one].status \notin Settled
              /\ task'[q].pc = "finalize_read" /\ task'[q].pay = one
           \/ /\ pay'[one].status \notin Settled
              /\ task'[q].pc = "reject_release" /\ task'[q].pay = one,
           TaskAgrees(q)'
    PROVE  SerialInv'
<1>1. \A p : ~Selling(p) /\ ~Releasing(p) BY NobodySells
<1>2. task'[q].pc = "finalize_read" /\ task'[q].pay = one => Selling(one)'
  BY DEF Selling
<1>3. task'[q].pc = "reject_release" /\ task'[q].pay = one => Releasing(one)'
  BY DEF Releasing
<1>4. \A t \in Tickets : TicketAgrees(t)'
  BY <1>1, <1>2, <1>3, OnePaymentMoves
<1>5. SoldAreCounted' BY NoneSold
<1> QED BY <1>4, <1>5 DEF SerialInv

(* A statement of the upload, the verification, or a review. *)
LEMMA ReviewAgrees ==
    ASSUME SaleInv, SerialInv, NEW q \in Tasks, Tasks = {q},
           \/ StoreSlip(q) \/ StoreVerdict(q) \/ ApproveWrite(q) \/ RejectWrite(q)
           \/ RefundWrite(q) \/ UnderReviewWrite(q) \/ DeleteWrite(q) \/ RestoreWrite(q)
    PROVE  SerialInv'
<1>p. PICK p : p = task[q].pay OBVIOUS
<1>0. TypeOK BY DEF SaleInv
<1>1. /\ task[q].pc \in {"slip_tx", "verdict", "approve_write", "reject_write",
                         "refund_write", "review_write", "delete_write", "restore_write"}
      /\ UNCHANGED <<ticket, resv, lottery>>
  BY DEF StoreSlip, StoreVerdict, ApproveWrite, RejectWrite, RefundWrite,
     UnderReviewWrite, DeleteWrite, RestoreWrite
<1>2. p \in Pays /\ pay[p].exists BY <1>p, <1>1, PaymentInHand DEF PayPcs, Pcs
<1>3. /\ pay'[p].exists
      /\ \A other \in Pays : other # p => pay'[other] = pay[other]
  BY <1>p, <1>0, <1>2, ReviewColumns
<1>4. task[q].pc \in UndecidedPcs => pay[p].status \notin Settled
  BY <1>p DEF SerialInv, TaskAgrees
<1>5. task[q].pc = "refund_write" => pay[p].status \in Settled
  BY <1>p DEF SerialInv, TaskAgrees, DecidedPcs
<1>6. pay[p] \in PayRow BY <1>0, <1>2 DEF TypeOK
<1>7. ASSUME \/ pay[p].status \in Settled /\ pay'[p].status \in Settled
             \/ pay[p].status \notin Settled /\ pay'[p].status \notin Settled
             \/ /\ pay[p].status \notin Settled
                /\ task'[q].pc = "finalize_read" /\ task'[q].pay = p
             \/ /\ pay'[p].status \notin Settled
                /\ task'[q].pc = "reject_release" /\ task'[q].pay = p,
             TaskAgrees(q)'
      PROVE  SerialInv'
  BY <1>1, <1>2, <1>3, <1>7, DecisionAgrees
<1>8. CASE StoreSlip(q)
  <2>1. pay'[p].status = "SUBMITTED" BY <1>p, <1>0, <1>2, <1>6, <1>8 DEF StoreSlip, TypeOK, PayRow
  <2>2. task'[q] = [task[q] EXCEPT !.op = "verify", !.pc = "verify"]
    BY <1>0, <1>8, RunWrites DEF StoreSlip
  <2>3. task'[q].pc = "verify" /\ task'[q].pay = p
    BY <1>p, <1>0, <2>2 DEF TypeOK, TaskRow, TaskLocals
  <2>4. task[q].pc \in UndecidedPcs BY <1>8 DEF StoreSlip, UndecidedPcs
  <2>5. TaskAgrees(q)' BY <2>1, <2>3, UndecidedHeld DEF UndecidedPcs, Settled
  <2> QED BY <1>4, <1>7, <2>1, <2>4, <2>5 DEF Settled
<1>9. CASE StoreVerdict(q)
  <2>1. /\ task[q].verdict = "AUTO" => pay'[p].status = "APPROVED"
        /\ task[q].verdict # "AUTO" => pay'[p].status \in {"UNDER_REVIEW", "REJECTED"}
    BY <1>p, <1>0, <1>2, <1>6, <1>9 DEF StoreVerdict, VerdictStatus, TypeOK, PayRow
  <2>2. pay[p].status \notin Settled BY <1>4, <1>9 DEF StoreVerdict, UndecidedPcs
  <2>3. CASE task[q].verdict = "AUTO"
    <3>1. task'[q].pc = "finalize_read" /\ task'[q].pay = p
      BY <1>p, <1>0, <1>9, <2>3, GotoKeeps DEF StoreVerdict
    <3>2. TaskAgrees(q)' BY <2>1, <2>3, <3>1, DecidedHeld DEF Settled
    <3> QED BY <1>7, <2>2, <3>1, <3>2
  <2>4. CASE task[q].verdict # "AUTO"
    <3>1. TaskAgrees(q)' BY <1>0, <1>9, <2>4, RunIdle DEF StoreVerdict
    <3> QED BY <1>7, <2>1, <2>2, <2>4, <3>1 DEF Settled
  <2> QED BY <2>3, <2>4
<1>10. CASE ApproveWrite(q)
  <2>1. pay'[p].status = "APPROVED" BY <1>p, <1>0, <1>2, <1>6, <1>10 DEF ApproveWrite, TypeOK, PayRow
  <2>2. pay[p].status \notin Settled BY <1>4, <1>10 DEF ApproveWrite, UndecidedPcs
  <2>3. task'[q].pc = "finalize_read" /\ task'[q].pay = p
    BY <1>p, <1>0, <1>10, GotoKeeps DEF ApproveWrite
  <2>4. TaskAgrees(q)' BY <2>1, <2>3, DecidedHeld DEF Settled
  <2> QED BY <1>7, <2>2, <2>3, <2>4
<1>11. CASE RejectWrite(q)
  <2>1. pay'[p].status = "REJECTED" BY <1>p, <1>0, <1>2, <1>6, <1>11 DEF RejectWrite, TypeOK, PayRow
  <2>2. task'[q].pc = "reject_release" /\ task'[q].pay = p
    BY <1>p, <1>0, <1>11, GotoKeeps DEF RejectWrite
  <2>3. TaskAgrees(q)'
    BY <2>2, NothingHeld DEF UndecidedPcs, DecidedPcs, BulkPcs, ResvPcs
  <2> QED BY <1>7, <2>1, <2>2, <2>3 DEF Settled
<1>12. CASE RefundWrite(q)
  <2>1. pay'[p].status = "REFUNDED" BY <1>p, <1>0, <1>2, <1>6, <1>12 DEF RefundWrite, TypeOK, PayRow
  <2>2. TaskAgrees(q)' BY <1>0, <1>12, RunIdle DEF RefundWrite
  <2> QED BY <1>5, <1>7, <1>12, <2>1, <2>2 DEF RefundWrite, Settled
<1>13. CASE UnderReviewWrite(q)
  <2>1. pay'[p].status = "UNDER_REVIEW" BY <1>p, <1>0, <1>2, <1>6, <1>13 DEF UnderReviewWrite, TypeOK, PayRow
  <2>2. pay[p].status \notin Settled BY <1>4, <1>13 DEF UnderReviewWrite, UndecidedPcs
  <2>3. TaskAgrees(q)' BY <1>0, <1>13, RunIdle DEF UnderReviewWrite
  <2> QED BY <1>7, <2>1, <2>2, <2>3 DEF Settled
<1>14. CASE DeleteWrite(q) \/ RestoreWrite(q)
  <2>1. pay'[p].status = pay[p].status
    BY <1>p, <1>0, <1>2, <1>6, <1>14 DEF DeleteWrite, RestoreWrite, TypeOK, PayRow
  <2>2. TaskAgrees(q)' BY <1>0, <1>14, RunIdle DEF DeleteWrite, RestoreWrite
  <2> QED BY <1>7, <2>1, <2>2
<1> QED BY <1>8, <1>9, <1>10, <1>11, <1>12, <1>13, <1>14

(* A new payment has no tickets, whoever creates it. *)
LEMMA CreationAgrees ==
    ASSUME SaleInv, SerialInv, NEW q \in Tasks, Tasks = {q},
           CreatePayment(q) \/ ImportCreate(q) \/ BulkCreate(q)
    PROVE  SerialInv'
<1>0. TypeOK /\ task[q] \in TaskLocals BY DEF SaleInv, TypeOK, TaskRow
<1>1. /\ task[q].pc \in {"pay_create", "import_create", "bulk_create"}
      /\ UNCHANGED <<ticket, resv, lottery>>
  BY DEF CreatePayment, ImportCreate, BulkCreate, Creates
<1>2. ASSUME NEW one \in Pays, ~pay[one].exists PROVE LinkedTo(one) = {}
  <2>1. one # null BY StoreAssumption DEF StoreAssumption
  <2> QED BY <1>2, <2>1 DEF LinkedTo, SerialInv, TicketAgrees
<1>3. ASSUME NEW one \in Pays, ~pay[one].exists, pay'[one].exists,
             \A other \in Pays : other # one => pay'[other] = pay[other],
             TaskAgrees(q)'
      PROVE  SerialInv'
  BY <1>1, <1>2, <1>3, DecisionAgrees
<1>4. ASSUME NEW one \in Pays, NEW pc, task'[q] = [task[q] EXCEPT !.pc = pc, !.pay = one]
      PROVE  /\ task'[q].pc = pc /\ task'[q].pay = one
             /\ task'[q].resv = task[q].resv /\ task'[q].tickets = task[q].tickets
  BY <1>0, <1>4 DEF TaskLocals
<1>5. CASE CreatePayment(q)
  <2>1. PICK one \in Pays :
          /\ ~pay[one].exists
          /\ pay'[one].exists /\ pay'[one].status = "INITIATED"
          /\ \A other \in Pays : other # one => pay'[other] = pay[other]
          /\ task' = [task EXCEPT ![q] = [task[q] EXCEPT !.pc = "confirm_read",
                                                         !.pay = one]]
    BY <1>0, <1>5, CreationColumns
  <2>2. task'[q] = [task[q] EXCEPT !.pc = "confirm_read", !.pay = one]
    BY <1>0, <2>1 DEF TypeOK
  <2>3. task'[q].pc = "confirm_read" /\ task'[q].pay = one /\ task'[q].resv = task[q].resv
    BY <1>4, <2>2
  <2>4. task[q].resv # null BY <1>5 DEF CreatePayment, SerialInv, TaskAgrees, ResvPcs
  <2>5. TaskAgrees(q)'
    BY <2>1, <2>3, <2>4, UndecidedHeld DEF UndecidedPcs, Settled
  <2> QED BY <1>3, <2>1, <2>5
<1>6. CASE ImportCreate(q)
  <2>1. PICK one, pc :
          /\ one \in Pays /\ ~pay[one].exists
          /\ pay' = [pay EXCEPT ![one] = NewPayment(task[q].buyer, "SUBMITTED", FALSE)]
          /\ pc = (IF task[q].tickets = {} THEN "import_pick" ELSE "import_listed")
          /\ Run(q, [task[q] EXCEPT !.pc = pc, !.pay = one])
    BY <1>6 DEF ImportCreate, Creates
  <2>2. /\ pay'[one].exists /\ pay'[one].status = "SUBMITTED"
        /\ \A other \in Pays : other # one => pay'[other] = pay[other]
    BY <1>0, <2>1 DEF TypeOK, NewPayment, NoPay
  <2>3. task[q].tickets = {} BY <1>6 DEF ImportCreate, SerialInv, TaskAgrees
  <2>4. task'[q].pc = "import_pick" /\ task'[q].pay = one
    BY <1>0, <1>4, <2>1, <2>3, RunWrites
  <2>5. TaskAgrees(q)' BY <2>2, <2>4, UndecidedHeld DEF UndecidedPcs, Settled
  <2> QED BY <1>3, <2>1, <2>2, <2>5
<1>7. CASE BulkCreate(q)
  <2>1. PICK one \in Pays :
          /\ ~pay[one].exists
          /\ pay' = [pay EXCEPT ![one] = NewPayment(task[q].buyer, "APPROVED", BulkApproved)]
          /\ Run(q, [task[q] EXCEPT !.pc = "bulk_pick", !.pay = one])
    BY <1>7 DEF BulkCreate, Creates
  <2>2. /\ pay'[one].exists /\ pay'[one].status = "APPROVED"
        /\ \A other \in Pays : other # one => pay'[other] = pay[other]
    BY <1>0, <2>1 DEF TypeOK, NewPayment, NoPay
  <2>3. task'[q].pc = "bulk_pick" /\ task'[q].pay = one
    BY <1>0, <1>4, <2>1, RunWrites
  <2>4. LinkedTo(one)' = {} BY <1>1, <1>2, <2>1 DEF LinkedTo
  <2>5. TaskAgrees(q)'
    BY <2>2, <2>3, <2>4 DEF TaskAgrees, UndecidedPcs, DecidedPcs, BulkPcs, ResvPcs, Settled
  <2> QED BY <1>3, <2>1, <2>2, <2>5
<1> QED BY <1>5, <1>6, <1>7

LEMMA SubmitAgrees ==
    ASSUME SaleInv, SerialInv, NEW q \in Tasks, Tasks = {q},
           ImportSubmit(q) \/ BulkShort(q)
    PROVE  SerialInv'
<1>p. PICK p : p = task[q].pay OBVIOUS
<1>0. TypeOK BY DEF SaleInv
<1>1. /\ task[q].pc \in {"import_submit", "bulk_short"}
      /\ UNCHANGED <<ticket, resv, lottery>>
  BY DEF ImportSubmit, BulkShort
<1>2. p \in Pays /\ pay[p].exists BY <1>p, <1>1, PaymentInHand DEF PayPcs, Pcs
<1>3. pay[p] \in PayRow BY <1>0, <1>2 DEF TypeOK
<1>4. /\ pay'[p].status \in {"SUBMITTED", "UNDER_REVIEW"} /\ pay'[p].exists
      /\ \A other \in Pays : other # p => pay'[other] = pay[other]
  BY <1>p, <1>0, <1>2, <1>3 DEF ImportSubmit, BulkShort, TypeOK, PayRow
<1>5. CASE ImportSubmit(q)
  <2>1. task'[q].pc = "import_approve" /\ task'[q].pay = p
    BY <1>p, <1>0, <1>5, GotoKeeps DEF ImportSubmit
  <2>2. TaskAgrees(q)' BY <1>4, <2>1, UndecidedHeld DEF UndecidedPcs, Settled
  <2>3. pay[p].status \notin Settled
    BY <1>p, <1>5 DEF ImportSubmit, SerialInv, TaskAgrees, UndecidedPcs
  <2> QED BY <1>1, <1>2, <1>4, <2>2, <2>3, DecisionAgrees DEF Settled
<1>6. CASE BulkShort(q)
  <2>1. TaskAgrees(q)' BY <1>0, <1>6, RunIdle DEF BulkShort
  <2>2. LinkedTo(p) = {} BY <1>p, <1>6 DEF BulkShort, SerialInv, TaskAgrees, BulkPcs
  <2> QED BY <1>1, <1>2, <1>4, <2>1, <2>2, DecisionAgrees
<1> QED BY <1>5, <1>6

-----------------------------------------------------------------------------
(* The statements that read *)

(* A statement that leaves the rows alone, and neither a sale nor a          *)
(* rejection half done.                                                      *)
LEMMA ReadAgrees ==
    ASSUME SaleInv, SerialInv, NEW q \in Tasks, Tasks = {q},
           UNCHANGED <<ticket, resv, pay>>, lottery'.sold = lottery.sold,
           task[q].pc \notin {"finalize_read", "finalize_tx", "reject_release"},
           TaskAgrees(q)'
    PROVE  SerialInv'
<1>1. \A p : ~Selling(p) /\ ~Releasing(p) BY NobodySells
<1>2. \A t \in Tickets : TicketAgrees(t)' BY <1>1, RowsRest
<1>3. SoldAreCounted' BY NoneSold
<1> QED BY <1>2, <1>3 DEF SerialInv

(* The first statement of a request of the sale, or of the queue's worker.   *)
LEMMA BeginAgrees ==
    ASSUME SaleInv, SerialInv, NEW q \in Tasks, Tasks = {q},
           Begin(q) \/ ExpireRead(q)
    PROVE  SerialInv'
<1>0. TypeOK BY DEF SaleInv
<1>1. task[q].pc = "idle" /\ UNCHANGED rows
  BY DEF Begin, ReserveRead, CancelRequest, InitiateRead, UploadRead, ApproveRead,
     RejectRead, RefundRead, UnderReviewRead, DeleteRead, RestoreRead, CloseRead,
     Review, Arrives, ExpireRead
<1>2. UNCHANGED <<ticket, resv, pay, lottery>> BY <1>1 DEF rows
<1>r. \A r \in Resvs : r # null BY StoreAssumption DEF StoreAssumption
<1>3. CASE ReserveRead(q) \/ CloseRead(q)
  <2>1. task'[q].pc \in {"reserve_tx", "close_write"}
    BY <1>0, <1>3 DEF ReserveRead, CloseRead, Run, Idle, TypeOK
  <2>2. TaskAgrees(q)' BY <2>1, NothingHeld DEF UndecidedPcs, DecidedPcs, BulkPcs, ResvPcs
  <2> QED BY <1>1, <1>2, <2>2, ReadAgrees
<1>4. CASE CancelRequest(q)
  <2>1. PICK r \in Resvs :
          OpenResv(r) /\ task'[q] = [Idle EXCEPT !.op = "cancel", !.pc = "cancel_tx", !.resv = r]
    BY <1>0, <1>4 DEF CancelRequest, Run, TypeOK
  <2>2. task'[q].pc = "cancel_tx" /\ task'[q].resv = r BY <2>1 DEF Idle
  <2>3. OpenResv(r)' BY <1>2, <2>1 DEF OpenResv
  <2>4. TaskAgrees(q)'
    BY <1>r, <2>2, <2>3 DEF TaskAgrees, UndecidedPcs, DecidedPcs, BulkPcs, ResvPcs, OpenResv
  <2> QED BY <1>1, <1>2, <2>4, ReadAgrees
<1>5. CASE InitiateRead(q)
  <2>1. task'[q].pc = "pay_create" /\ task'[q].resv # null
    BY <1>0, <1>r, <1>5 DEF InitiateRead, Run, Idle, TypeOK
  <2>2. TaskAgrees(q)'
    BY <2>1 DEF TaskAgrees, UndecidedPcs, DecidedPcs, BulkPcs, ResvPcs
  <2> QED BY <1>1, <1>2, <2>2, ReadAgrees
<1>6. CASE UploadRead(q)
  <2>1. PICK p \in Pays :
          /\ task'[q].pc = "dup_check" /\ task'[q].pay = p
          /\ pay[p].status = "INITIATED"
    BY <1>0, <1>6 DEF UploadRead, Run, Idle, TypeOK
  <2>2. TaskAgrees(q)' BY <1>2, <2>1, UndecidedHeld DEF UndecidedPcs, Settled
  <2> QED BY <1>1, <1>2, <2>2, ReadAgrees
<1>7. ASSUME NEW op, NEW pc, NEW p \in Pays, Review(q, op, pc, p)
      PROVE  task'[q].pc = pc /\ task'[q].pay = p
  BY <1>0, <1>7 DEF Review, Run, Idle, TypeOK
<1>8. CASE ApproveRead(q) \/ UnderReviewRead(q)
  <2>1. PICK p \in Pays :
          /\ task'[q].pc \in {"approve_write", "review_write"} /\ task'[q].pay = p
          /\ pay[p].status \notin Settled
    BY <1>7, <1>8 DEF ApproveRead, UnderReviewRead, Settled
  <2>2. TaskAgrees(q)' BY <1>2, <2>1, UndecidedHeld DEF UndecidedPcs
  <2> QED BY <1>1, <1>2, <2>2, ReadAgrees
<1>9. CASE RefundRead(q)
  <2>1. PICK p \in Pays :
          /\ task'[q].pc = "refund_write" /\ task'[q].pay = p
          /\ pay[p].status = "APPROVED"
    BY <1>7, <1>9 DEF RefundRead, Refundable
  <2>2. TaskAgrees(q)' BY <1>2, <2>1, DecidedHeld DEF Settled
  <2> QED BY <1>1, <1>2, <2>2, ReadAgrees
<1>10. CASE RejectRead(q) \/ DeleteRead(q) \/ RestoreRead(q)
  <2>1. task'[q].pc \in {"reject_write", "delete_write", "restore_write"}
    BY <1>7, <1>10 DEF RejectRead, DeleteRead, RestoreRead
  <2>2. TaskAgrees(q)' BY <2>1, NothingHeld DEF UndecidedPcs, DecidedPcs, BulkPcs, ResvPcs
  <2> QED BY <1>1, <1>2, <2>2, ReadAgrees
<1>11. CASE ExpireRead(q)
  <2>1. CASE UNCHANGED task
    <3>1. TaskAgrees(q)'
      BY <1>1, <2>1, NothingHeld DEF UndecidedPcs, DecidedPcs, BulkPcs, ResvPcs
    <3> QED BY <1>1, <1>2, <3>1, ReadAgrees
  <2>2. CASE task' # task
    <3>1. PICK r \in Resvs :
            Run(q, [Idle EXCEPT !.op = "expire", !.pc = "cancel_read", !.resv = r])
      BY <1>11, <2>2 DEF ExpireRead
    <3>2. task'[q] = [Idle EXCEPT !.op = "expire", !.pc = "cancel_read", !.resv = r]
      BY <1>0, <3>1, RunWrites
    <3>3. task'[q].pc = "cancel_read" /\ task'[q].resv # null BY <1>r, <3>2 DEF Idle
    <3>4. TaskAgrees(q)'
      BY <3>3 DEF TaskAgrees, UndecidedPcs, DecidedPcs, BulkPcs, ResvPcs
    <3> QED BY <1>1, <1>2, <3>4, ReadAgrees
  <2> QED BY <2>1, <2>2
<1> QED BY <1>3, <1>4, <1>5, <1>6, <1>8, <1>9, <1>10, <1>11 DEF Begin

(* A later statement of the sale that writes neither tickets nor payments.   *)
LEMMA ContinueReadAgrees ==
    ASSUME SaleInv, SerialInv, NEW q \in Tasks, Tasks = {q},
           \/ SelectManually(q) \/ ReserveRefused(q) \/ CancelRead(q) \/ ConfirmRead(q)
           \/ FinalizeRead(q) \/ CreatePaymentRefused(q) \/ DuplicateSlipCheck(q)
           \/ VerifySlip(q) \/ WriteAudit(q) \/ CloseWrite(q)
    PROVE  SerialInv'
<1>0. TypeOK /\ task[q] \in TaskLocals /\ TaskAgrees(q)
  BY DEF SaleInv, TypeOK, TaskRow, SerialInv
<1>p. PICK p : p = task[q].pay OBVIOUS
<1>1. UNCHANGED <<ticket, resv, pay>> /\ lottery'.sold = lottery.sold
  <2>1. UNCHANGED <<ticket, resv, pay>>
    BY DEF SelectManually, ReserveRefused, CancelRead, ConfirmRead, FinalizeRead,
       CreatePaymentRefused, DuplicateSlipCheck, VerifySlip, WriteAudit, CloseWrite, rows
  <2>2. UNCHANGED lottery \/ lottery' = [lottery EXCEPT !.status = "CLOSED"]
    BY DEF SelectManually, ReserveRefused, CancelRead, ConfirmRead, FinalizeRead,
       CreatePaymentRefused, DuplicateSlipCheck, VerifySlip, WriteAudit, CloseWrite, rows
  <2> QED BY <1>0, <2>1, <2>2 DEF TypeOK, LotteryRow
<1>2. ASSUME task[q].pc \notin {"finalize_read", "finalize_tx", "reject_release"},
             TaskAgrees(q)'
      PROVE  SerialInv'
  BY <1>1, <1>2, ReadAgrees
<1>3. CASE SelectManually(q)
  <2>1. task'[q].pc = "reserve_write" /\ task'[q].tickets = task[q].tickets
    BY <1>0, <1>3, GotoKeeps DEF SelectManually
  <2>2. task[q].tickets \subseteq Available /\ Available' = Available
    BY <1>1, <1>3 DEF SelectManually, Available
  <2>3. TaskAgrees(q)'
    BY <2>1, <2>2 DEF TaskAgrees, UndecidedPcs, DecidedPcs, BulkPcs, ResvPcs
  <2> QED BY <1>2, <1>3, <2>3 DEF SelectManually
<1>4. CASE ReserveRefused(q) \/ CreatePaymentRefused(q) \/ WriteAudit(q) \/ CloseWrite(q)
  <2>1. TaskAgrees(q)'
    BY <1>0, <1>4, RunIdle DEF ReserveRefused, CreatePaymentRefused, WriteAudit, CloseWrite
  <2> QED BY <1>2, <1>4, <2>1 DEF ReserveRefused, CreatePaymentRefused, WriteAudit, CloseWrite
<1>5. CASE CancelRead(q)
  <2>1. CASE Return(q)
    <3>1. TaskAgrees(q)' BY <1>0, <2>1, RunIdle
    <3> QED BY <1>2, <1>5, <3>1 DEF CancelRead
  <2>2. CASE ~Return(q)
    <3>1. OpenResv(task[q].resv) /\ Goto(q, "cancel_tx") BY <1>5, <2>2 DEF CancelRead
    <3>2. task'[q].pc = "cancel_tx" /\ task'[q].resv = task[q].resv
      BY <1>0, <3>1, GotoKeeps
    <3>3. task[q].resv # null BY <1>0, <1>5 DEF CancelRead, TaskAgrees, ResvPcs
    <3>4. TaskAgrees(q)'
      BY <1>1, <3>1, <3>2, <3>3
      DEF TaskAgrees, UndecidedPcs, DecidedPcs, BulkPcs, ResvPcs, OpenResv
    <3> QED BY <1>2, <1>5, <3>4 DEF CancelRead
  <2> QED BY <2>1, <2>2
<1>6. CASE ConfirmRead(q)
  <2>1. task[q].resv # null /\ pay[p].status \notin Settled
    BY <1>0, <1>p, <1>6 DEF ConfirmRead, TaskAgrees, ResvPcs, UndecidedPcs
  <2>2. CASE Return(q)
    <3>1. TaskAgrees(q)' BY <1>0, <2>2, RunIdle
    <3> QED BY <1>2, <1>6, <3>1 DEF ConfirmRead
  <2>3. CASE ~Return(q)
    <3>1. PICK pc \in {"cancel_read", "confirm_tx"} : Goto(q, pc)
      BY <1>6, <2>3 DEF ConfirmRead
    <3>2. task'[q].pc = pc /\ task'[q].resv = task[q].resv /\ task'[q].pay = p
      BY <1>0, <1>p, <3>1, GotoKeeps
    <3>3. TaskAgrees(q)'
      BY <1>1, <2>1, <3>2 DEF TaskAgrees, UndecidedPcs, DecidedPcs, BulkPcs, ResvPcs
    <3> QED BY <1>2, <1>6, <3>3 DEF ConfirmRead
  <2> QED BY <2>2, <2>3
<1>7. CASE FinalizeRead(q)
  <2>1. task'[q] = [task[q] EXCEPT !.pc = "finalize_tx", !.buyer = pay[p].buyer,
                                   !.count = Cardinality(LinkedTo(p))]
    BY <1>0, <1>p, <1>7, RunWrites DEF FinalizeRead
  <2>2. /\ task'[q].pc = "finalize_tx" /\ task'[q].pay = p
        /\ task'[q].count = Cardinality(LinkedTo(p))
    BY <1>0, <1>p, <2>1 DEF TaskLocals
  <2>3. pay[p].status \in Settled /\ task[q].pc = "finalize_read"
    BY <1>0, <1>p, <1>7 DEF FinalizeRead, TaskAgrees, DecidedPcs
  <2>4. \A t \in Tickets : TicketAgrees(t)'
    <3>1. \A x : (Selling(x) => Selling(x)') /\ ~Releasing(x)
      BY <1>p, <2>2, <2>3 DEF Selling, Releasing
    <3> QED BY <1>1, <3>1, RowsRest
  <2>5. SoldAreCounted' BY <1>1, NoneSold
  <2>6. TaskAgrees(q)'
    <3>1. LinkedTo(p)' = LinkedTo(p) BY <1>1 DEF LinkedTo
    <3> QED BY <1>1, <2>2, <2>3, <3>1
         DEF TaskAgrees, UndecidedPcs, DecidedPcs, BulkPcs, ResvPcs
  <2> QED BY <2>4, <2>5, <2>6 DEF SerialInv
<1>8. CASE DuplicateSlipCheck(q)
  <2>1. pay[p].status \notin Settled
    BY <1>0, <1>p, <1>8 DEF DuplicateSlipCheck, TaskAgrees, UndecidedPcs
  <2>2. CASE Run(q, Idle)
    <3>1. TaskAgrees(q)' BY <1>0, <2>2, RunIdle
    <3> QED BY <1>2, <1>8, <3>1 DEF DuplicateSlipCheck
  <2>3. CASE Goto(q, "slip_tx")
    <3>1. task'[q].pc = "slip_tx" /\ task'[q].pay = p BY <1>0, <1>p, <2>3, GotoKeeps
    <3>2. TaskAgrees(q)' BY <1>1, <2>1, <3>1, UndecidedHeld DEF UndecidedPcs
    <3> QED BY <1>2, <1>8, <3>2 DEF DuplicateSlipCheck
  <2> QED BY <1>8, <2>2, <2>3 DEF DuplicateSlipCheck
<1>9. CASE VerifySlip(q)
  <2>1. pay[p].status \notin Settled
    BY <1>0, <1>p, <1>9 DEF VerifySlip, TaskAgrees, UndecidedPcs
  <2>2. PICK v : Run(q, [task[q] EXCEPT !.pc = "verdict", !.verdict = v])
    BY <1>9 DEF VerifySlip
  <2>3. task'[q] = [task[q] EXCEPT !.pc = "verdict", !.verdict = v]
    BY <1>0, <2>2, RunWrites
  <2>4. task'[q].pc = "verdict" /\ task'[q].pay = p BY <1>0, <1>p, <2>3 DEF TaskLocals
  <2>5. TaskAgrees(q)' BY <1>1, <2>1, <2>4, UndecidedHeld DEF UndecidedPcs
  <2> QED BY <1>2, <1>9, <2>5 DEF VerifySlip
<1> QED BY <1>3, <1>4, <1>5, <1>6, <1>7, <1>8, <1>9

(* A statement of an import that writes neither tickets nor payments.        *)
LEMMA ImportReadAgrees ==
    ASSUME SaleInv, SerialInv, NEW q \in Tasks, Tasks = {q}, Listings \subseteq {{}},
           \/ ImportRead(q) \/ BulkRead(q) \/ ImportListed(q) \/ ImportCount(q)
           \/ ImportPick(q) \/ ImportApprove(q) \/ BulkPick(q)
    PROVE  SerialInv'
<1>0. TypeOK /\ task[q] \in TaskLocals /\ TaskAgrees(q)
  BY DEF SaleInv, TypeOK, TaskRow, SerialInv
<1>p. PICK p : p = task[q].pay OBVIOUS
<1>1. /\ UNCHANGED <<ticket, resv, pay, lottery>>
      /\ task[q].pc \in {"idle", "import_listed", "import_count", "import_pick",
                         "import_approve", "bulk_pick"}
  BY DEF ImportRead, BulkRead, ImportListed, ImportCount, ImportPick, ImportApprove,
     BulkPick, Arrives, rows
<1>2. ASSUME TaskAgrees(q)' PROVE SerialInv' BY <1>1, <1>2, ReadAgrees
<1>3. CASE ImportRead(q)
  <2>1. PICK b \in Buyers, n \in 1..MaxQty, labelled \in BOOLEAN :
          \/ \E listed \in Listings : Run(q, RowToCreate(b, n, listed))
          \/ \E one \in OpenPaymentsOf(b) : Run(q, RowOfPayment(b, n, one, labelled))
    BY <1>3 DEF ImportRead
  <2>2. ASSUME NEW listed \in Listings, Run(q, RowToCreate(b, n, listed))
        PROVE  TaskAgrees(q)'
    <3>1. listed = {} OBVIOUS
    <3>2. task'[q] = RowToCreate(b, n, listed) BY <1>0, <2>2, RunWrites
    <3>3. task'[q].pc = "import_create" /\ task'[q].tickets = {}
      BY <3>1, <3>2 DEF RowToCreate, Idle
    <3> QED BY <3>3 DEF TaskAgrees, UndecidedPcs, DecidedPcs, BulkPcs, ResvPcs
  <2>3. ASSUME NEW one \in OpenPaymentsOf(b), Run(q, RowOfPayment(b, n, one, labelled))
        PROVE  TaskAgrees(q)'
    <3>1. pay[one].status \notin Settled BY DEF OpenPaymentsOf, Unfinished, Settled
    <3>2. task'[q] = RowOfPayment(b, n, one, labelled) BY <1>0, <2>3, RunWrites
    <3>3. /\ task'[q].pay = one
          /\ task'[q].pc \in {"import_approve", "import_count", "import_submit"}
      BY <3>2 DEF RowOfPayment, Idle
    <3> QED BY <1>1, <3>1, <3>3, UndecidedHeld DEF UndecidedPcs
  <2> QED BY <1>2, <2>1, <2>2, <2>3
<1>4. CASE BulkRead(q)
  <2>1. PICK b \in Buyers, n \in 1..MaxQty :
          Run(q, [Idle EXCEPT !.op = "bulk", !.pc = "bulk_create", !.buyer = b, !.qty = n])
    BY <1>4 DEF BulkRead
  <2>2. task'[q] = [Idle EXCEPT !.op = "bulk", !.pc = "bulk_create", !.buyer = b, !.qty = n]
    BY <1>0, <2>1, RunWrites
  <2>3. task'[q].pc = "bulk_create" BY <2>2 DEF Idle
  <2>4. TaskAgrees(q)' BY <2>3, NothingHeld DEF UndecidedPcs, DecidedPcs, BulkPcs, ResvPcs
  <2> QED BY <1>2, <2>4
<1>5. CASE ImportListed(q) BY <1>0, <1>5 DEF ImportListed, TaskAgrees
<1>6. CASE ImportCount(q) \/ ImportPick(q) \/ ImportApprove(q)
  <2>1. pay[p].status \notin Settled
    BY <1>0, <1>p, <1>6 DEF ImportCount, ImportPick, ImportApprove, TaskAgrees, UndecidedPcs
  <2>2. ASSUME task'[q].pay = p,
               task'[q].pc \in {"import_pick", "import_submit", "import_approve",
                                "approve_write"}
        PROVE  TaskAgrees(q)'
    BY <1>1, <2>1, <2>2, UndecidedHeld DEF UndecidedPcs
  <2>3. CASE ImportCount(q)
    <3>1. task'[q].pay = p /\ task'[q].pc \in {"import_pick", "import_submit"}
      BY <1>0, <1>p, <2>3, GotoKeeps DEF ImportCount
    <3> QED BY <1>2, <2>2, <3>1
  <2>4. CASE ImportPick(q)
    <3>1. PICK chosen, pc :
            /\ chosen \in SUBSET Available
            /\ pc = (IF chosen = {} THEN AfterAssign(q) ELSE "import_assign")
            /\ Run(q, [task[q] EXCEPT !.tickets = chosen, !.pc = pc])
      BY <2>4 DEF ImportPick
    <3>2. task'[q] = [task[q] EXCEPT !.tickets = chosen, !.pc = pc]
      BY <1>0, <3>1, RunWrites
    <3>3. task'[q].tickets = chosen /\ task'[q].pc = pc /\ task'[q].pay = p
      BY <1>0, <1>p, <3>2 DEF TaskLocals
    <3>4. CASE chosen = {}
      BY <1>2, <2>2, <3>1, <3>3, <3>4 DEF AfterAssign
    <3>5. CASE chosen # {}
      <4>1. Available' = Available BY <1>1 DEF Available
      <4>2. TaskAgrees(q)'
        BY <1>1, <2>1, <3>1, <3>3, <3>5, <4>1
        DEF TaskAgrees, UndecidedPcs, DecidedPcs, BulkPcs, ResvPcs
      <4> QED BY <1>2, <4>2
    <3> QED BY <3>4, <3>5
  <2>5. CASE ImportApprove(q)
    <3>1. CASE Run(q, Idle)
      <4>1. TaskAgrees(q)' BY <1>0, <3>1, RunIdle
      <4> QED BY <1>2, <4>1
    <3>2. CASE Run(q, [task[q] EXCEPT !.op = "approve", !.pc = "approve_write"])
      <4>1. task'[q] = [task[q] EXCEPT !.op = "approve", !.pc = "approve_write"]
        BY <1>0, <3>2, RunWrites
      <4>2. task'[q].pay = p /\ task'[q].pc = "approve_write"
        BY <1>0, <1>p, <4>1 DEF TaskLocals
      <4> QED BY <1>2, <2>2, <4>2
    <3> QED BY <2>5, <3>1, <3>2 DEF ImportApprove
  <2> QED BY <1>6, <2>3, <2>4, <2>5
<1>7. CASE BulkPick(q)
  <2>1. pay[p].status \in Settled /\ LinkedTo(p) = {}
    BY <1>0, <1>p, <1>7 DEF BulkPick, TaskAgrees, DecidedPcs, BulkPcs
  <2>2. LinkedTo(p)' = {} /\ Available' = Available
    BY <1>1, <2>1 DEF LinkedTo, Available
  <2>3. CASE Goto(q, "bulk_short")
    <3>1. task'[q].pc = "bulk_short" /\ task'[q].pay = p BY <1>0, <1>p, <2>3, GotoKeeps
    <3>2. TaskAgrees(q)'
      BY <1>1, <2>1, <2>2, <3>1 DEF TaskAgrees, UndecidedPcs, DecidedPcs, BulkPcs, ResvPcs
    <3> QED BY <1>2, <3>2
  <2>4. CASE ~Goto(q, "bulk_short")
    <3>1. PICK chosen \in SUBSET Available :
            /\ Cardinality(chosen) = task[q].qty
            /\ Run(q, [task[q] EXCEPT !.tickets = chosen, !.pc = "bulk_tx"])
      BY <1>7, <2>4 DEF BulkPick
    <3>2. task'[q] = [task[q] EXCEPT !.tickets = chosen, !.pc = "bulk_tx"]
      BY <1>0, <3>1, RunWrites
    <3>3. /\ task'[q].tickets = chosen /\ task'[q].pc = "bulk_tx" /\ task'[q].pay = p
          /\ task'[q].qty = task[q].qty
      BY <1>0, <1>p, <3>2 DEF TaskLocals
    <3>4. TaskAgrees(q)'
      BY <1>1, <2>1, <2>2, <3>1, <3>3
      DEF TaskAgrees, UndecidedPcs, DecidedPcs, BulkPcs, ResvPcs
    <3> QED BY <1>2, <3>4
  <2> QED BY <2>3, <2>4
<1> QED BY <1>3, <1>4, <1>5, <1>6, <1>7

-----------------------------------------------------------------------------
(* The invariant *)

LEMMA SerialStep ==
    ASSUME SaleInv, SerialInv, NEW q \in Tasks, Tasks = {q}, Listings \subseteq {{}},
           MaxFaults = 0, MaxCrashes = 0, [ImportNext]_vars
    PROVE  SerialInv'
<1>0. TypeOK BY DEF SaleInv
<1>1. CASE Imported(q)
  BY <1>1, AssignAgrees, BulkAgrees, CreationAgrees, SubmitAgrees, ImportReadAgrees
  DEF Imported, ImportContinue
<1>2. CASE Begin(q) \/ ExpireRead(q) BY <1>2, BeginAgrees
<1>3. CASE Continue(q)
  <2>1. CASE ReserveManually(q)
    <3>1. task[q].tickets \in SUBSET Available
      BY <2>1 DEF ReserveManually, SerialInv, TaskAgrees
    <3> QED BY <2>1, <3>1, ReserveAgrees DEF ReserveManually
  <2>2. CASE ReserveRandomly(q)
    BY <2>2, ReserveAgrees DEF ReserveRandomly, Selectable
  <2> QED BY <1>3, <2>1, <2>2, CancelAgrees, ConfirmAgrees, FinalizeAgrees, ReleaseAgrees,
       ReviewAgrees, CreationAgrees, ContinueReadAgrees DEF Continue
<1>4. ~Fail(q) /\ ~Crash
  <2>1. ~(faults < 0) /\ ~(crashes < 0) BY <1>0 DEF TypeOK
  <2> QED BY <2>1 DEF Fail, ReserveCommitFails, Throws, Crash
<1>5. CASE Tick \/ UNCHANGED vars
  <2>1. UNCHANGED <<lottery, ticket, resv, pay, task>> BY <1>5 DEF Tick, rows, vars
  <2>2. \A t \in Tickets : TicketAgrees(t)'
    BY <2>1, RowsRest DEF Selling, Releasing
  <2>3. SoldAreCounted' BY <2>1, NoneSold
  <2>4. TaskAgrees(q)'
    BY <2>1 DEF SerialInv, TaskAgrees, Available, LinkedTo, OpenResv
  <2> QED BY <2>2, <2>3, <2>4 DEF SerialInv
<1> QED BY <1>1, <1>2, <1>3, <1>4, <1>5, ImportStepKinds DEF Next

LEMMA SerialStart == Init => SerialInv
<1> SUFFICES ASSUME Init PROVE SerialInv OBVIOUS
<1>1. \A t \in Tickets : TicketAgrees(t) BY DEF Init, Start, NewTicket, TicketAgrees
<1>2. \A q \in Tasks : TaskAgrees(q)
  BY DEF Init, Start, Idle, TaskAgrees, UndecidedPcs, DecidedPcs, BulkPcs, ResvPcs
<1>3. Sold = {} BY DEF Init, Start, NewTicket, Sold
<1>4. Cardinality(Sold) = 0 BY <1>3, FS_EmptySet
<1>5. lottery.sold = 0 BY DEF Init, NewLottery
<1> QED BY <1>1, <1>2, <1>4, <1>5 DEF SerialInv, SoldAreCounted

LEMMA SaleHolds == ImportSpec => []SaleInv
BY ImportTypeCorrect, ImportApprovals, ImportsKeepHoldsSafe, PTL DEF SaleInv

LEMMA SerialHolds ==
    ASSUME NEW q, Tasks = {q}, Listings \subseteq {{}}, MaxFaults = 0, MaxCrashes = 0
    PROVE  ImportSpec => []SerialInv
<1>1. SaleInv /\ SerialInv /\ [ImportNext]_vars => SerialInv'
  BY SerialStep
<1> QED BY <1>1, SerialStart, SaleHolds, PTL DEF ImportSpec

LEMMA RestingRows ==
    ASSUME SaleInv, SerialInv, \A q \in Tasks : task[q].pc = "idle", NEW t \in Tickets
    PROVE  /\ ticket[t].status = "AVAILABLE" => ticket[t] = NewTicket
           /\ ticket[t].status = "RESERVED" => ticket[t].pay = null /\ ticket[t].buyer = null
           /\ ticket[t].status = "PENDING_PAYMENT" => ticket[t].pay # null
           /\ ticket[t].pay # null => pay[ticket[t].pay].exists
           /\ ticket[t].status = "SOLD" => pay[ticket[t].pay].status \in Settled
           /\ ticket[t].status # "SOLD" /\ ticket[t].pay # null =>
                pay[ticket[t].pay].status \notin Settled
<1>1. \A p : ~Selling(p) /\ ~Releasing(p) BY DEF Selling, Releasing
<1> QED BY <1>1 DEF SerialInv, TicketAgrees

(* As long as requests do not overlap, nothing fails and no import names its *)
(* tickets, the rows agree whenever no handler is in flight.  Each           *)
(* hypothesis is needed: section 6 of the README names what is reachable     *)
(* without it.                                                               *)
THEOREM RowsAgreeAtRest ==
    ASSUME NEW q, Tasks = {q}, Listings \subseteq {{}}, MaxFaults = 0, MaxCrashes = 0
    PROVE  ImportSpec => []RestingRowsAgree
<1>1. SaleInv /\ SerialInv => RestingRowsAgree
  <2> SUFFICES ASSUME SaleInv, SerialInv, \A any \in Tasks : task[any].pc = "idle"
               PROVE  /\ \A t \in Tickets :
                          /\ ticket[t].status = "AVAILABLE" => ticket[t] = NewTicket
                          /\ ticket[t].status = "SOLD" =>
                               pay[ticket[t].pay].status \in {"APPROVED", "REFUNDED"}
                          /\ ticket[t].status # "SOLD" /\ ticket[t].pay # null =>
                               pay[ticket[t].pay].status \notin {"APPROVED", "REFUNDED"}
                      /\ Cardinality({t \in Tickets : ticket[t].status = "SOLD"})
                           <= lottery.sold
    BY DEF RestingRowsAgree
  <2>1. Cardinality(Sold) <= lottery.sold BY DEF SerialInv, SoldAreCounted
  <2> QED BY <2>1, RestingRows DEF Settled, Sold
<1> QED BY <1>1, SaleHolds, SerialHolds, PTL

(* What the reports say when no handler is in flight, one claim after the    *)
(* other.                                                                    *)
AtRest ==
    SaleInv /\ SerialInv /\ BuyersKnown /\ NothingDeleted
    /\ \A q \in Tasks : task[q].pc = "idle"

(* A sold ticket at rest, with the payment that bought it. *)
LEMMA SoldAtRest ==
    ASSUME AtRest, NEW t \in Carrying("SOLD")
    PROVE  /\ t \in Tickets /\ ticket[t].pay \in Pays
           /\ pay[ticket[t].pay].exists /\ pay[ticket[t].pay].status \in Settled
           /\ ticket[t].buyer = pay[ticket[t].pay].buyer /\ ticket[t].buyer # null
<1>1. t \in Tickets /\ ticket[t].status = "SOLD" BY DEF Carrying
<1>2. /\ ticket[t].pay # null /\ pay[ticket[t].pay].exists
      /\ ticket[t].buyer = pay[ticket[t].pay].buyer
  BY <1>1 DEF AtRest, SaleInv, ApprovalInv, SoldTicketsBelongToThePayer
<1>3. ticket[t].pay \in Pays BY <1>1, <1>2 DEF AtRest, SaleInv, TypeOK, TicketRow
<1>4. pay[ticket[t].pay].status \in Settled BY <1>1, RestingRows DEF AtRest
<1> QED BY <1>1, <1>2, <1>3, <1>4 DEF AtRest, BuyersKnown

(* A ticket linked to an approved payment is sold, to its buyer.             *)
LEMMA PaidAtRest ==
    ASSUME AtRest, NEW t \in Tickets, ticket[t].pay \in Paid
    PROVE  t \in Carrying("SOLD") /\ ticket[t].buyer = pay[ticket[t].pay].buyer
<1>1. pay[ticket[t].pay].status = "APPROVED" /\ ticket[t].pay # null
  BY StoreAssumption DEF Paid, StoreAssumption
<1>2. ticket[t].status = "SOLD" BY <1>1, RestingRows DEF AtRest, Settled
<1> QED BY <1>2, SoldAtRest DEF Carrying

(* The platform's revenue is cut off by its two limits and by nothing else.  *)
LEMMA RevenueWithinLimits ==
    ASSUME NEW when \in [Pays -> Periods], NEW read, Newest(read, when)
    PROVE  /\ PlatformRevenue(read, when) \subseteq Approvals
           /\ /\ Cardinality(Approvals) <= RevenueRows
              /\ Cardinality({when[p] : p \in Approvals}) <= RevenuePeriods
              => PlatformRevenue(read, when) = Approvals
<1>1. PlatformRevenue(read, when) \subseteq Approvals /\ read \subseteq Approvals
  BY DEF PlatformRevenue, Newest
<1>2. IsFiniteSet(Approvals) /\ Approvals \subseteq Pays
  <2>1. Approvals \subseteq Pays BY DEF Approvals, Paid
  <2> QED BY <2>1, ReportAssumption, FS_Subset DEF ReportAssumption
<1>3. ASSUME Cardinality(Approvals) <= RevenueRows,
             Cardinality({when[p] : p \in Approvals}) <= RevenuePeriods
      PROVE  Approvals \subseteq PlatformRevenue(read, when)
  <2>1. read = Approvals
    <3>1. Cardinality(read) = Cardinality(Approvals) BY <1>3 DEF Newest
    <3> QED BY <1>1, <1>2, <3>1, FS_Subset
  <2>2. ASSUME NEW p \in Approvals PROVE p \in PlatformRevenue(read, when)
    <3> DEFINE shown == {when[r] : r \in Approvals}
               later == {when[r] : r \in {x \in read : when[x] > when[p]}}
    <3>1. \A r \in Approvals : when[r] \in Nat
      BY <1>2, ReportAssumption DEF ReportAssumption
    <3>2. later \subseteq shown BY <2>1
    <3>3. when[p] \in shown /\ when[p] \notin later BY <3>1
    <3>4. IsFiniteSet(shown)
      <4>1. shown \subseteq Periods BY <1>2
      <4> QED BY <4>1, ReportAssumption, FS_Subset DEF ReportAssumption
    <3> HIDE DEF shown, later
    <3>5. Cardinality(later) < Cardinality(shown)
      <4>1. /\ IsFiniteSet(later) /\ Cardinality(later) <= Cardinality(shown)
            /\ Cardinality(later) # Cardinality(shown)
        BY <3>2, <3>3, <3>4, FS_Subset
      <4>2. Cardinality(later) \in Nat /\ Cardinality(shown) \in Nat
        BY <3>4, <4>1, FS_CardinalityType
      <4> QED BY <4>1, <4>2
    <3>6. Cardinality(shown) <= RevenuePeriods BY <1>3 DEF shown
    <3>7. Cardinality(later) \in Nat /\ Cardinality(shown) \in Nat /\ RevenuePeriods \in Nat
      BY <3>2, <3>4, FS_Subset, FS_CardinalityType, ReportAssumption DEF ReportAssumption
    <3>8. Cardinality(later) < RevenuePeriods BY <3>5, <3>6, <3>7
    <3> QED BY <2>1, <3>8 DEF PlatformRevenue, later
  <2> QED BY <2>2
<1> QED BY <1>1, <1>3

LEMMA ReportsAtRest == ASSUME AtRest PROVE ReportsAgree
<1>1. SalesReport.buyers = DOMAIN LotteryBuyers
  <2>1. null \notin {ticket[t].buyer : t \in Carrying("SOLD")} BY SoldAtRest
  <2> QED BY <2>1 DEF SalesReport, LotteryBuyers, ByBuyer
<1>2. UNION {MyTickets(b) : b \in DOMAIN LotteryBuyers} = SummarySheet.charged
  <2>1. DOMAIN LotteryBuyers = {ticket[t].buyer : t \in Carrying("SOLD")}
    BY <1>1 DEF SalesReport
  <2>2. UNION {MyTickets(b) : b \in DOMAIN LotteryBuyers} = Carrying("SOLD")
    BY <2>1 DEF MyTickets
  <2> QED BY <2>2 DEF SummarySheet
<1>3. ASSUME NEW b \in DOMAIN BuyersSheet
      PROVE  /\ \A t \in BuyersSheet[b].tickets :
                   TicketSheet[t].status \in {"SOLD", "PENDING_PAYMENT"}
             /\ \A p \in Paid :
                   BuyersSheet[b].totalPaid[p] > 0 =>
                     p \in Approvals /\ p \in MyPayments(b)
             /\ BuyersSheet[b].refs \subseteq LotteryPayments
  <2> DEFINE own == {t \in Tickets : ticket[t].buyer = b}
  <2>1. b # null BY DEF BuyersSheet, ByBuyer
  <2>2. BuyersSheet[b] = BuyerLine(Tickets, b) BY DEF BuyersSheet, ByBuyer
  <2>3. /\ BuyersSheet[b].tickets = own
        /\ BuyersSheet[b].refs = {ticket[t].pay : t \in own} \ {null}
        /\ BuyersSheet[b].totalPaid
             = [p \in Paid |-> Cardinality({t \in own : ticket[t].pay = p})]
    BY <2>2 DEF BuyerLine
  <2>4. ASSUME NEW t \in own PROVE TicketSheet[t].status \in {"SOLD", "PENDING_PAYMENT"}
    <3>1. ticket[t].status \in TicketStatus BY DEF AtRest, SaleInv, TypeOK, TicketRow
    <3>2. ticket[t].status \notin {"AVAILABLE", "RESERVED"}
      BY <2>1, RestingRows DEF AtRest, NewTicket
    <3> QED BY <3>1, <3>2 DEF TicketSheet, TicketStatus
  <2>5. ASSUME NEW p \in Paid, BuyersSheet[b].totalPaid[p] > 0
        PROVE  p \in Approvals /\ p \in MyPayments(b)
    <3> DEFINE bought == {t \in own : ticket[t].pay = p}
    <3>1. Cardinality(bought) > 0 BY <2>3, <2>5
    <3>2. bought # {}
      <4>1. Cardinality({}) = 0 BY FS_EmptySet
      <4> HIDE DEF bought
      <4> QED BY <3>1, <4>1
    <3>3. PICK t \in own : ticket[t].pay = p BY <3>2
    <3>4. pay[p].buyer = b BY <3>3, PaidAtRest
    <3>5. p \in Pays /\ pay[p].exists /\ pay[p].status = "APPROVED" BY DEF Paid
    <3>6. ~pay[p].deleted BY <3>5 DEF AtRest, NothingDeleted
    <3>7. pay[p].approved
      BY <3>5 DEF AtRest, SaleInv, ApprovalInv, DecisionsRestOnApproval
    <3> QED BY <3>4, <3>5, <3>6, <3>7 DEF Approvals, MyPayments
  <2>6. ASSUME NEW p \in BuyersSheet[b].refs PROVE p \in LotteryPayments
    <3>1. PICK t \in own : p = ticket[t].pay /\ p # null BY <2>3
    <3>2. p \in Pays BY <3>1 DEF AtRest, SaleInv, TypeOK, TicketRow
    <3>3. pay[p].exists BY <3>1, RestingRows DEF AtRest
    <3> QED BY <3>2, <3>3 DEF LotteryPayments
  <2> QED BY <2>3, <2>4, <2>5, <2>6
<1>4. RevenueIsTheClients
  <2>1. \A p \in Paid : pay[p].approved
    BY DEF Paid, AtRest, SaleInv, ApprovalInv, DecisionsRestOnApproval
  <2>2. Approvals = Dashboard.revenue BY <2>1 DEF Approvals, Dashboard
  <2> QED BY <2>2, RevenueWithinLimits DEF RevenueIsTheClients
<1>5. PublicCount <= lottery.sold
  <2>1. PublicCount = Cardinality(Sold)
    BY DEF PublicCount, Counts, TicketStatus, Carrying, Sold
  <2> QED BY <2>1 DEF AtRest, SerialInv, SoldAreCounted
<1>6. ASSUME NEW t \in SummarySheet.charged
      PROVE  TicketSheet[t].payment \in {"APPROVED", "REFUNDED"}
  <2>1. t \in Carrying("SOLD") BY DEF SummarySheet
  <2>2. t \in Tickets /\ ticket[t].pay \in Pays /\ pay[ticket[t].pay].status \in Settled
    BY <2>1, SoldAtRest
  <2>3. ticket[t].pay # null BY <2>2, StoreAssumption DEF StoreAssumption
  <2> QED BY <2>2, <2>3 DEF TicketSheet, Settled
<1>7. ASSUME NEW t \in Carrying("PENDING_PAYMENT")
      PROVE  ticket[t].pay \in TemplateRows \/ TicketSheet[t].payment = "REJECTED"
  <2>p. PICK p : p = ticket[t].pay OBVIOUS
  <2>1. t \in Tickets /\ ticket[t].status = "PENDING_PAYMENT" BY DEF Carrying
  <2>2. p # null /\ pay[p].exists /\ pay[p].status \notin Settled
    BY <2>p, <2>1, RestingRows DEF AtRest
  <2>3. p \in Pays BY <2>p, <2>1, <2>2 DEF AtRest, SaleInv, TypeOK, TicketRow
  <2>4. pay[p].status \in PaymentStatus /\ ~pay[p].deleted
    BY <2>3 DEF AtRest, SaleInv, TypeOK, PayRow, NothingDeleted
  <2>5. pay[p].status \in Unfinished \/ pay[p].status = "REJECTED"
    BY <2>2, <2>4 DEF PaymentStatus, Settled, Unfinished
  <2>6. TicketSheet[t].payment = pay[p].status BY <2>p, <2>1, <2>2 DEF TicketSheet
  <2> QED BY <2>p, <2>2, <2>3, <2>4, <2>5, <2>6 DEF TemplateRows, ClientPayments
<1> QED BY <1>1, <1>2, <1>3, <1>4, <1>5, <1>6, <1>7 DEF ReportsAgree

(* Under the same hypotheses, and as long as nobody deletes a payment, what  *)
(* buyers, clients and the platform are shown agrees whenever no handler is  *)
(* in flight, the platform's revenue up to its two limits.                   *)
THEOREM ReportsAgreeAtRest ==
    ASSUME NEW q, Tasks = {q}, Listings \subseteq {{}}, MaxFaults = 0, MaxCrashes = 0,
           "delete" \notin Ops
    PROVE  ImportSpec => []ReportsAgree
<1>1. SaleInv /\ SerialInv /\ BuyersKnown /\ NothingDeleted => ReportsAgree
  BY ReportsAtRest DEF AtRest, ReportsAgree
<1> QED BY <1>1, SaleHolds, SerialHolds, ImportBuyers, ImportDeletions, PTL
=============================================================================
