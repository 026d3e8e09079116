------------------------- MODULE TicketSalesProofs -------------------------
(***************************************************************************)
(* Theorems about TicketSales for every number of tickets, reservations,   *)
(* payments, clients and workers, every interleaving, and every number of  *)
(* failures and restarts.                                                  *)
(***************************************************************************)
EXTENDS TicketSales, FiniteSetTheorems, TLAPS

-----------------------------------------------------------------------------
(* Type correctness *)

(* Whatever is read from a slip, its verification ends in a known outcome. *)
LEMMA OutcomesType ==
    ASSUME NEW ref
    PROVE  Outcomes(ref) \subseteq {"DUPLICATE", "FAILED", "AUTO", "MANUAL"}
<1>1. \A e, bank, page : Verdict(e, bank, page) \in {"FAILED", "AUTO", "MANUAL"}
  <2> SUFFICES ASSUME NEW e, NEW bank, NEW page
               PROVE  Verdict(e, bank, page) \in {"FAILED", "AUTO", "MANUAL"}
    OBVIOUS
  <2>1. OnlineVerdict(e, bank, page) \in {"none", "FAILED", "AUTO", "MANUAL"}
    BY DEF OnlineVerdict, BankVerdict, PageVerdict
  <2>2. HeuristicVerdict(e) \in {"AUTO", "MANUAL"} BY DEF HeuristicVerdict
  <2> QED BY <2>1, <2>2 DEF Verdict
<1>2. \A keyed : VerdictsOn(keyed) \subseteq {"FAILED", "AUTO", "MANUAL"}
  BY <1>1 DEF VerdictsOn
<1> QED BY <1>2 DEF Outcomes, KeyedVerdicts, UnkeyedVerdicts

(* The empty slot is a task record. *)
LEMMA IdleType == Idle \in TaskRow
BY DEF Idle, TaskRow, TaskLocals, PayPcs, SlipPcs, AllOps, Pcs, LotteryStatus

(* A slot that gets a task record leaves task well-typed. *)
LEMMA RunType ==
    ASSUME TypeOK, NEW q \in Tasks, NEW rec \in TaskRow, Run(q, rec)
    PROVE  task' \in [Tasks -> TaskRow]
BY DEF TypeOK, Run

(* So does a slot that moves on to another statement. *)
LEMMA GotoType ==
    ASSUME TypeOK, NEW q \in Tasks, NEW pc \in Pcs, Goto(q, pc),
           pc \in PayPcs => task[q].pay \in Pays,
           pc \in SlipPcs => task[q].slip \in Slips
    PROVE  task' \in [Tasks -> TaskRow]
<1>1. task[q] \in TaskRow BY DEF TypeOK
<1>2. [task[q] EXCEPT !.pc = pc] \in TaskRow BY <1>1 DEF TaskRow, TaskLocals
<1> QED BY <1>2 DEF Goto, TypeOK

(* A handler that returns leaves the slots and the queue well-typed. *)
LEMMA ReturnType ==
    ASSUME TypeOK, NEW q \in Tasks, Return(q)
    PROVE  task' \in [Tasks -> TaskRow] /\ job' \in [Resvs -> JobRow]
<1>1. task' \in [Tasks -> TaskRow] BY IdleType, RunType DEF Return
<1>2. job' \in [Resvs -> JobRow] BY DEF Return, TypeOK, JobRow
<1> QED BY <1>1, <1>2

(* The locals of a task, one by one. *)
LEMMA LocalsType ==
    ASSUME TypeOK, NEW q \in Tasks
    PROVE  /\ task[q].resv \in Resvs \cup {null}
           /\ task[q].pay \in Pays \cup {null}
           /\ task[q].pc \in PayPcs => task[q].pay \in Pays
           /\ task[q].key \in Keys \cup {null}
           /\ task[q].buyer \in Buyers \cup {null}
           /\ task[q].slip \in Slips \cup {null}
           /\ task[q].pc \in SlipPcs => task[q].slip \in Slips
           /\ task[q].tickets \in SUBSET Tickets
           /\ task[q].qty \in Nat /\ task[q].exp \in Nat /\ task[q].count \in Nat
BY DEF TypeOK, TaskRow, TaskLocals

(* What UNCHANGED <<rows, env, job>> leaves unchanged. *)
LEMMA SameRows ==
    ASSUME UNCHANGED <<rows, env, job>>
    PROVE  UNCHANGED <<now, lottery, ticket, resv, job, pay, audit, faults, crashes>>
BY DEF rows, env

(* A step that only reads keeps every type but that of the tasks. *)
LEMMA ReadType ==
    ASSUME TypeOK, task' \in [Tasks -> TaskRow], UNCHANGED <<rows, env, job>>
    PROVE  TypeOK'
BY SameRows DEF TypeOK

(* The first read of every request. *)
LEMMA BeginType == ASSUME TypeOK, NEW q \in Tasks, Begin(q) PROVE TypeOK'
<1>1. CASE ReserveRead(q)
  <2>1. PICK k \in Keys \cup {null}, n \in 1..MaxQty, chosen \in Selections :
          Run(q, [Idle EXCEPT !.op = "reserve", !.pc = "reserve_tx",
                              !.key = k, !.qty = n, !.tickets = chosen,
                              !.exp = now + HoldTime, !.seen = lottery.status])
    BY <1>1 DEF ReserveRead
  <2>2. [Idle EXCEPT !.op = "reserve", !.pc = "reserve_tx",
                     !.key = k, !.qty = n, !.tickets = chosen,
                     !.exp = now + HoldTime, !.seen = lottery.status] \in TaskRow
    <3>1. n \in Nat /\ now + HoldTime \in Nat /\ chosen \in SUBSET Tickets
      BY StoreAssumption DEF StoreAssumption, TypeOK
    <3>2. lottery.status \in LotteryStatus BY DEF TypeOK, LotteryRow
    <3> QED BY <3>1, <3>2 DEF Idle, TaskRow, TaskLocals, PayPcs, SlipPcs, AllOps, Pcs
  <2>3. UNCHANGED <<rows, env, job>> BY <1>1 DEF ReserveRead
  <2> QED BY <2>1, <2>2, <2>3, RunType, ReadType
<1>2. CASE CancelRequest(q)
  <2>1. PICK r \in Resvs :
          Run(q, [Idle EXCEPT !.op = "cancel", !.pc = "cancel_tx", !.resv = r])
    BY <1>2 DEF CancelRequest
  <2>2. [Idle EXCEPT !.op = "cancel", !.pc = "cancel_tx", !.resv = r] \in TaskRow
    BY DEF Idle, TaskRow, TaskLocals, PayPcs, SlipPcs, AllOps, Pcs, LotteryStatus
  <2>3. UNCHANGED <<rows, env, job>> BY <1>2 DEF CancelRequest
  <2> QED BY <2>1, <2>2, <2>3, RunType, ReadType
<1>3. CASE InitiateRead(q)
  <2>1. PICK r \in Resvs, k \in Keys \cup {null}, b \in Buyers :
          Run(q, [Idle EXCEPT !.op = "initiate", !.pc = "pay_create",
                              !.resv = r, !.key = k, !.buyer = b])
    BY <1>3 DEF InitiateRead
  <2>2. [Idle EXCEPT !.op = "initiate", !.pc = "pay_create",
                     !.resv = r, !.key = k, !.buyer = b] \in TaskRow
    BY DEF Idle, TaskRow, TaskLocals, PayPcs, SlipPcs, AllOps, Pcs, LotteryStatus
  <2>3. UNCHANGED <<rows, env, job>> BY <1>3 DEF InitiateRead
  <2> QED BY <2>1, <2>2, <2>3, RunType, ReadType
<1>4. CASE UploadRead(q)
  <2>1. PICK p \in Pays, s \in Slips :
          Run(q, [Idle EXCEPT !.op = "upload", !.pc = "dup_check",
                              !.pay = p, !.slip = s])
    BY <1>4 DEF UploadRead
  <2>2. [Idle EXCEPT !.op = "upload", !.pc = "dup_check",
                     !.pay = p, !.slip = s] \in TaskRow
    BY DEF Idle, TaskRow, TaskLocals, PayPcs, SlipPcs, AllOps, Pcs, LotteryStatus
  <2>3. UNCHANGED <<rows, env, job>> BY <1>4 DEF UploadRead
  <2> QED BY <2>1, <2>2, <2>3, RunType, ReadType
<1>5. ASSUME NEW op \in {"approve", "reject", "refund", "review", "delete", "restore"},
             NEW pc \in Pcs \ SlipPcs, NEW p \in Pays, Review(q, op, pc, p)
      PROVE  TypeOK'
  <2>1. [Idle EXCEPT !.op = op, !.pc = pc, !.pay = p] \in TaskRow
    BY <1>5 DEF Idle, TaskRow, TaskLocals, AllOps, LotteryStatus
  <2> QED BY <1>5, <2>1, RunType, ReadType DEF Review
<1>6. CASE CloseRead(q)
  <2>1. [Idle EXCEPT !.op = "close", !.pc = "close_write"] \in TaskRow
    BY DEF Idle, TaskRow, TaskLocals, PayPcs, SlipPcs, AllOps, Pcs, LotteryStatus
  <2> QED BY <1>6, <2>1, RunType, ReadType DEF CloseRead
<1>7. CASE ApproveRead(q) BY <1>5, <1>7 DEF ApproveRead, Pcs, SlipPcs
<1>8. CASE RejectRead(q) BY <1>5, <1>8 DEF RejectRead, Pcs, SlipPcs
<1>9. CASE RefundRead(q) BY <1>5, <1>9 DEF RefundRead, Pcs, SlipPcs
<1>10. CASE UnderReviewRead(q) BY <1>5, <1>10 DEF UnderReviewRead, Pcs, SlipPcs
<1>11. CASE DeleteRead(q) BY <1>5, <1>11 DEF DeleteRead, Pcs, SlipPcs
<1>12. CASE RestoreRead(q) BY <1>5, <1>12 DEF RestoreRead, Pcs, SlipPcs
<1> QED
  BY <1>1, <1>2, <1>3, <1>4, <1>6, <1>7, <1>8, <1>9, <1>10, <1>11, <1>12
  DEF Begin

(* Storing a reservation, whatever tickets were chosen. *)
LEMMA StoreReservationType ==
    ASSUME TypeOK, NEW q \in Tasks, NEW chosen, StoreReservation(q, chosen)
    PROVE  TypeOK'
<1>1. PICK r \in Resvs :
        /\ resv' = [resv EXCEPT ![r] =
                      [exists |-> TRUE, cancelled |-> FALSE, confirmed |-> FALSE,
                       key |-> task[q].key, qty |-> task[q].qty,
                       exp |-> task[q].exp]]
        /\ ticket' = [t \in Tickets |->
                        IF t \in chosen
                        THEN [ticket[t] EXCEPT !.status = "RESERVED", !.resv = r]
                        ELSE ticket[t]]
        /\ job' = [job EXCEPT ![r] = ExpiryJob]
  BY DEF StoreReservation
<1>3. resv' \in [Resvs -> ResvRow] BY <1>1, LocalsType DEF TypeOK, ResvRow
<1>4. ticket' \in [Tickets -> TicketRow]
  <2>1. ASSUME NEW t \in Tickets
        PROVE  [ticket[t] EXCEPT !.status = "RESERVED", !.resv = r] \in TicketRow
    BY DEF TypeOK, TicketRow, TicketStatus
  <2>2. \A t \in Tickets : ticket[t] \in TicketRow BY DEF TypeOK
  <2> QED BY <1>1, <2>1, <2>2
<1>5. job' \in [Resvs -> JobRow]
  <2>1. now + HoldTime \in Nat BY StoreAssumption DEF StoreAssumption, TypeOK
  <2>2. ExpiryJob \in JobRow BY <2>1 DEF JobRow, ExpiryJob
  <2> QED BY <1>1, <2>2 DEF TypeOK
<1>6. lottery' \in LotteryRow
  <2>1. lottery' = lottery \/ lottery' = [lottery EXCEPT !.status = "SELLING"]
    BY DEF StoreReservation
  <2> QED BY <2>1 DEF TypeOK, LotteryRow, LotteryStatus
<1>7. task' \in [Tasks -> TaskRow] BY IdleType, RunType DEF StoreReservation
<1>8. UNCHANGED <<now, pay, audit, faults, crashes>> BY DEF StoreReservation, env
<1> QED BY <1>3, <1>4, <1>5, <1>6, <1>7, <1>8 DEF TypeOK

(* The later statements of the handlers of TicketService. *)
LEMMA TicketStepType ==
    ASSUME TypeOK, NEW q \in Tasks,
           \/ SelectManually(q) \/ ReserveManually(q) \/ ReserveRandomly(q)
           \/ ReserveRefused(q) \/ CancelRead(q) \/ CancelTx(q)
           \/ ConfirmRead(q) \/ ConfirmTx(q) \/ FinalizeRead(q) \/ FinalizeTx(q)
    PROVE  TypeOK'
<1>0. task[q] \in TaskRow BY DEF TypeOK
<1>1. CASE SelectManually(q)
  BY <1>1, GotoType, ReadType DEF SelectManually, Pcs, PayPcs, SlipPcs
<1>2. CASE ReserveManually(q)
  BY <1>2, StoreReservationType DEF ReserveManually
<1>3. CASE ReserveRandomly(q)
  BY <1>3, StoreReservationType DEF ReserveRandomly
<1>4. CASE ReserveRefused(q)
  BY <1>4, IdleType, RunType, ReadType DEF ReserveRefused
<1>5. CASE CancelRead(q)
  <2>1. task' \in [Tasks -> TaskRow] /\ job' \in [Resvs -> JobRow]
    BY <1>5, GotoType, ReturnType DEF CancelRead, Pcs, PayPcs, SlipPcs, TypeOK
  <2>2. UNCHANGED <<rows, env>> BY <1>5 DEF CancelRead
  <2> QED BY <2>1, <2>2 DEF TypeOK, rows, env
<1>6. CASE CancelTx(q)
  <2>1. task' \in [Tasks -> TaskRow] /\ job' \in [Resvs -> JobRow]
    BY <1>6, ReturnType DEF CancelTx
  <2>2. ticket' \in [Tickets -> TicketRow]
    <3>1. ASSUME NEW t \in Tickets
          PROVE  Released(t) \in TicketRow /\ ticket[t] \in TicketRow
      BY DEF Released, TypeOK, TicketRow, TicketStatus
    <3> QED BY <1>6, <3>1 DEF CancelTx
  <2>3. resv' \in [Resvs -> ResvRow] BY <1>6 DEF CancelTx, TypeOK, ResvRow
  <2>4. UNCHANGED <<now, lottery, pay, audit, faults, crashes>>
    BY <1>6 DEF CancelTx, env
  <2> QED BY <2>1, <2>2, <2>3, <2>4 DEF TypeOK
<1>7. CASE ConfirmRead(q)
  <2>1. task' \in [Tasks -> TaskRow] /\ job' \in [Resvs -> JobRow]
    <3>1. task[q].pay \in Pays BY <1>7, LocalsType DEF ConfirmRead, PayPcs, SlipPcs, Pcs
    <3> QED BY <1>7, <3>1, GotoType, ReturnType DEF ConfirmRead, Pcs, SlipPcs, TypeOK
  <2>2. UNCHANGED <<rows, env>> BY <1>7 DEF ConfirmRead
  <2> QED BY <2>1, <2>2 DEF TypeOK, rows, env
<1>8. CASE ConfirmTx(q)
  <2>1. task' \in [Tasks -> TaskRow] /\ job' \in [Resvs -> JobRow]
    BY <1>8, ReturnType DEF ConfirmTx
  <2>2. ticket' \in [Tickets -> TicketRow]
    <3>1. ASSUME NEW t \in Tickets PROVE Awaiting(t, task[q].pay) \in TicketRow
      <4>1. task[q].pay \in Pays \cup {null} BY LocalsType
      <4>2. ticket[t] \in TicketRow BY DEF TypeOK
      <4> QED BY <4>1, <4>2 DEF Awaiting, TicketRow, TicketStatus
    <3> QED BY <1>8, <3>1 DEF ConfirmTx, TypeOK
  <2>3. resv' \in [Resvs -> ResvRow] BY <1>8 DEF ConfirmTx, TypeOK, ResvRow
  <2>4. UNCHANGED <<now, lottery, pay, audit, faults, crashes>>
    BY <1>8 DEF ConfirmTx, env
  <2> QED BY <2>1, <2>2, <2>3, <2>4 DEF TypeOK
<1>9. CASE FinalizeRead(q)
  <2> DEFINE rec == [task[q] EXCEPT !.pc = "finalize_tx",
                                    !.buyer = pay[task[q].pay].buyer,
                                    !.count = Cardinality(LinkedTo(task[q].pay))]
  <2>1. Cardinality(LinkedTo(task[q].pay)) \in Nat
    BY StoreAssumption, FS_Subset, FS_CardinalityType DEF StoreAssumption, LinkedTo
  <2>2. rec \in TaskRow
    <3>1. task[q].pay \in Pays BY <1>9, LocalsType DEF FinalizeRead, PayPcs, SlipPcs, Pcs
    <3>2. pay[task[q].pay].buyer \in Buyers \cup {null}
      BY <3>1 DEF TypeOK, PayRow
    <3>3. rec \in TaskLocals
      <4>1. ASSUME NEW loc \in TaskLocals, NEW pc \in Pcs,
                   NEW b \in Buyers \cup {null}, NEW n \in Nat
            PROVE  [loc EXCEPT !.pc = pc, !.buyer = b, !.count = n] \in TaskLocals
        BY DEF TaskLocals
      <4>2. task[q] \in TaskLocals /\ "finalize_tx" \in Pcs
        BY <1>0 DEF TaskRow, Pcs
      <4> QED BY <4>1, <4>2, <2>1, <3>2
    <3>4. rec.pay \in Pays BY <1>0, <3>1 DEF TaskRow, TaskLocals
    <3> QED BY <3>3, <3>4 DEF TaskRow, TaskLocals, SlipPcs
  <2>3. Run(q, rec) /\ UNCHANGED <<rows, env, job>> BY <1>9 DEF FinalizeRead
  <2> QED BY <2>2, <2>3, RunType, ReadType
<1>10. CASE FinalizeTx(q)
  <2>1. task' \in [Tasks -> TaskRow]
    <3>1. task[q].pay \in Pays BY <1>10, LocalsType DEF FinalizeTx, PayPcs, SlipPcs, Pcs
    <3> QED BY <1>10, <3>1, IdleType, GotoType, RunType DEF FinalizeTx, Pcs, SlipPcs
  <2>2. ticket' \in [Tickets -> TicketRow]
    <3>1. ASSUME NEW t \in Tickets PROVE SoldTo(t, task[q].buyer) \in TicketRow
      <4>1. task[q].buyer \in Buyers \cup {null} BY LocalsType
      <4>2. ticket[t] \in TicketRow BY DEF TypeOK
      <4> QED BY <4>1, <4>2 DEF SoldTo, TicketRow, TicketStatus
    <3> QED BY <1>10, <3>1 DEF FinalizeTx, TypeOK
  <2>3. lottery' \in LotteryRow
    BY <1>10, LocalsType DEF FinalizeTx, TypeOK, LotteryRow
  <2>4. UNCHANGED <<now, resv, job, pay, audit, faults, crashes>>
    BY <1>10 DEF FinalizeTx, env
  <2> QED BY <2>1, <2>2, <2>3, <2>4 DEF TypeOK
<1> QED BY <1>1, <1>2, <1>3, <1>4, <1>5, <1>6, <1>7, <1>8, <1>9, <1>10

(* A task that goes on with another payment statement. *)
LEMMA TaskGoesOn ==
    ASSUME TypeOK, NEW q \in Tasks, NEW pc \in Pcs, NEW op \in {"verify"},
           NEW v \in {"none", "DUPLICATE", "FAILED", "AUTO", "MANUAL"},
           task[q].pay \in Pays, task[q].slip \in Slips
    PROVE  /\ [task[q] EXCEPT !.op = op, !.pc = pc] \in TaskRow
           /\ [task[q] EXCEPT !.pc = pc, !.verdict = v] \in TaskRow
<1>1. task[q] \in TaskRow BY DEF TypeOK
<1>2. ASSUME NEW loc \in TaskLocals, loc.pay \in Pays, loc.slip \in Slips
      PROVE  /\ [loc EXCEPT !.op = op, !.pc = pc] \in TaskRow
             /\ [loc EXCEPT !.pc = pc, !.verdict = v] \in TaskRow
  <2>1. [loc EXCEPT !.op = op, !.pc = pc] \in TaskLocals BY DEF TaskLocals
  <2>2. [loc EXCEPT !.pc = pc, !.verdict = v] \in TaskLocals BY DEF TaskLocals
  <2>3. /\ [loc EXCEPT !.op = op, !.pc = pc].pay = loc.pay
        /\ [loc EXCEPT !.op = op, !.pc = pc].slip = loc.slip
    BY DEF TaskLocals
  <2>4. /\ [loc EXCEPT !.pc = pc, !.verdict = v].pay = loc.pay
        /\ [loc EXCEPT !.pc = pc, !.verdict = v].slip = loc.slip
    BY DEF TaskLocals
  <2> QED BY <1>2, <2>1, <2>2, <2>3, <2>4 DEF TaskRow
<1> QED BY <1>1, <1>2 DEF TaskRow

(* What is left to show when a statement writes payments alone. *)
LEMMA PayWriteType ==
    ASSUME TypeOK, task' \in [Tasks -> TaskRow], pay' \in [Pays -> PayRow],
           UNCHANGED <<lottery, ticket, resv, audit, env, job>>
    PROVE  TypeOK'
<1>1. UNCHANGED <<now, lottery, ticket, resv, job, audit, faults, crashes>>
  BY DEF env
<1> QED BY <1>1 DEF TypeOK

(* Recording a verdict. *)
LEMMA VerdictType == ASSUME TypeOK, NEW q \in Tasks, StoreVerdict(q) PROVE TypeOK'
<1>1. task[q].pay \in Pays BY LocalsType DEF StoreVerdict, PayPcs, SlipPcs, Pcs
<1>2. task' \in [Tasks -> TaskRow]
  BY <1>1, IdleType, RunType, GotoType DEF StoreVerdict, Pcs, SlipPcs
<1>3. pay' \in [Pays -> PayRow]
  <2>1. RefOf[task[q].slip] \in Refs \cup {null}
    BY LocalsType, StoreAssumption DEF StoreVerdict, SlipPcs, StoreAssumption
  <2>2. VerdictStatus(task[q].verdict) \in PaymentStatus
    BY DEF VerdictStatus, PaymentStatus
  <2>3. ApprovedAtWith(task[q].verdict, pay[task[q].pay].approved) \in BOOLEAN
    BY <1>1 DEF ApprovedAtWith, TypeOK, PayRow
  <2>4. ASSUME NEW row \in PayRow, NEW st \in PaymentStatus,
               NEW ref \in Refs \cup {null}, NEW a \in BOOLEAN
        PROVE  [row EXCEPT !.status = st, !.ref = ref, !.approved = a] \in PayRow
    BY DEF PayRow
  <2>5. pay[task[q].pay] \in PayRow BY <1>1 DEF TypeOK
  <2>6. pay' = [pay EXCEPT ![task[q].pay] =
                  [pay[task[q].pay] EXCEPT
                     !.status = VerdictStatus(task[q].verdict),
                     !.ref = RefOf[task[q].slip],
                     !.approved = ApprovedAtWith(task[q].verdict,
                                                 pay[task[q].pay].approved)]]
    BY <1>1 DEF StoreVerdict, TypeOK
  <2> QED BY <2>1, <2>2, <2>3, <2>4, <2>5, <2>6 DEF TypeOK
<1>4. UNCHANGED <<lottery, ticket, resv, audit, env, job>> BY DEF StoreVerdict
<1> QED BY <1>2, <1>3, <1>4, PayWriteType

(* The later statements of the handlers of PaymentService. *)
LEMMA PaymentStepType ==
    ASSUME TypeOK, NEW q \in Tasks,
           \/ CreatePayment(q) \/ CreatePaymentRefused(q) \/ DuplicateSlipCheck(q)
           \/ StoreSlip(q) \/ VerifySlip(q) \/ ApproveWrite(q) \/ RejectWrite(q)
           \/ RejectRelease(q) \/ WriteAudit(q) \/ RefundWrite(q)
           \/ UnderReviewWrite(q) \/ DeleteWrite(q) \/ RestoreWrite(q)
    PROVE  TypeOK'
<1>a. ASSUME NEW p \in Pays, NEW st \in PaymentStatus, NEW b \in BOOLEAN
      PROVE  /\ [pay[p] EXCEPT !.status = st] \in PayRow
             /\ [pay[p] EXCEPT !.deleted = b] \in PayRow
             /\ [pay[p] EXCEPT !.status = st, !.approved = b] \in PayRow
  BY DEF TypeOK, PayRow
<1>b. ASSUME task[q].pay \in Pays, NEW row \in PayRow,
             pay' = [pay EXCEPT ![task[q].pay] = row]
      PROVE  pay' \in [Pays -> PayRow]
  BY <1>b DEF TypeOK
<1>1. CASE CreatePayment(q)
  <2>1. PICK p \in Pays :
          /\ pay' = [pay EXCEPT ![p] = [NoPay EXCEPT !.exists = TRUE,
                                          !.buyer = task[q].buyer,
                                          !.key = task[q].key]]
          /\ Run(q, [task[q] EXCEPT !.pc = "confirm_read", !.pay = p])
    BY <1>1 DEF CreatePayment
  <2>2. [NoPay EXCEPT !.exists = TRUE, !.buyer = task[q].buyer,
                      !.key = task[q].key] \in PayRow
    BY LocalsType DEF NoPay, PayRow, PaymentStatus
  <2>3. pay' \in [Pays -> PayRow] BY <2>1, <2>2 DEF TypeOK
  <2>4. [task[q] EXCEPT !.pc = "confirm_read", !.pay = p] \in TaskRow
    <3>1. ASSUME NEW loc \in TaskLocals, NEW pc \in Pcs \ SlipPcs
          PROVE  [loc EXCEPT !.pc = pc, !.pay = p] \in TaskRow
      BY DEF TaskRow, TaskLocals
    <3>2. "confirm_read" \in Pcs \ SlipPcs BY DEF Pcs, SlipPcs
    <3>3. task[q] \in TaskLocals BY DEF TypeOK, TaskRow
    <3> QED BY <3>1, <3>2, <3>3
  <2>5. UNCHANGED <<lottery, ticket, resv, audit, env, job>>
    BY <1>1 DEF CreatePayment
  <2> QED BY <2>1, <2>3, <2>4, <2>5, RunType, PayWriteType
<1>2. CASE CreatePaymentRefused(q)
  BY <1>2, IdleType, RunType, ReadType DEF CreatePaymentRefused
<1>3. CASE DuplicateSlipCheck(q)
  <2>1. task' \in [Tasks -> TaskRow]
    BY <1>3, LocalsType, IdleType, RunType, GotoType
    DEF DuplicateSlipCheck, Pcs, PayPcs, SlipPcs
  <2> QED BY <1>3, <2>1, ReadType DEF DuplicateSlipCheck
<1>4. CASE StoreSlip(q)
  <2>1. task[q].pay \in Pays /\ task[q].slip \in Slips /\ "verify" \in Pcs
    BY <1>4, LocalsType DEF StoreSlip, Pcs, PayPcs, SlipPcs
  <2>2. task' \in [Tasks -> TaskRow]
    BY <1>4, <2>1, TaskGoesOn, RunType DEF StoreSlip
  <2>3. ASSUME NEW row \in PayRow, NEW s \in Slips
        PROVE  [row EXCEPT !.status = "SUBMITTED", !.slips = row.slips \cup {s}]
                 \in PayRow
    BY DEF PayRow, PaymentStatus
  <2>4. pay' = [pay EXCEPT ![task[q].pay] =
                  [pay[task[q].pay] EXCEPT
                     !.status = "SUBMITTED",
                     !.slips = pay[task[q].pay].slips \cup {task[q].slip}]]
    BY <1>4, <2>1 DEF StoreSlip, TypeOK
  <2>5. pay' \in [Pays -> PayRow] BY <2>1, <2>3, <2>4 DEF TypeOK
  <2> QED BY <1>4, <2>2, <2>5, PayWriteType DEF StoreSlip
<1>5. CASE VerifySlip(q)
  <2>1. PICK v \in {"DUPLICATE", "FAILED", "AUTO", "MANUAL"} :
          Run(q, [task[q] EXCEPT !.pc = "verdict", !.verdict = v])
    BY <1>5, OutcomesType DEF VerifySlip
  <2>2. task[q].pay \in Pays /\ task[q].slip \in Slips /\ "verdict" \in Pcs
    BY <1>5, LocalsType DEF VerifySlip, Pcs, PayPcs, SlipPcs
  <2>3. [task[q] EXCEPT !.pc = "verdict", !.verdict = v] \in TaskRow
    BY <2>2, TaskGoesOn
  <2> QED BY <1>5, <2>1, <2>3, RunType, ReadType DEF VerifySlip
<1>6. CASE ApproveWrite(q)
  <2>1. task[q].pay \in Pays
    BY <1>6, LocalsType DEF ApproveWrite, Pcs, PayPcs, SlipPcs
  <2>2. task' \in [Tasks -> TaskRow]
    BY <1>6, <2>1, GotoType DEF ApproveWrite, Pcs, SlipPcs
  <2>3. pay' = [pay EXCEPT ![task[q].pay] =
                  [pay[task[q].pay] EXCEPT !.status = "APPROVED", !.approved = TRUE]]
    BY <1>6, <2>1 DEF ApproveWrite, TypeOK
  <2>4. pay' \in [Pays -> PayRow]
    BY <1>a, <1>b, <2>1, <2>3 DEF PaymentStatus
  <2> QED BY <1>6, <2>2, <2>4, PayWriteType DEF ApproveWrite
<1>7. CASE RejectWrite(q)
  <2>1. task[q].pay \in Pays
    BY <1>7, LocalsType DEF RejectWrite, Pcs, PayPcs, SlipPcs
  <2>2. task' \in [Tasks -> TaskRow]
    BY <1>7, <2>1, GotoType DEF RejectWrite, Pcs, SlipPcs
  <2>3. pay' = [pay EXCEPT ![task[q].pay] =
                  [pay[task[q].pay] EXCEPT !.status = "REJECTED"]]
    BY <1>7 DEF RejectWrite
  <2>4. pay' \in [Pays -> PayRow]
    BY <1>a, <1>b, <2>1, <2>3 DEF PaymentStatus
  <2> QED BY <1>7, <2>2, <2>4, PayWriteType DEF RejectWrite
<1>8. CASE RejectRelease(q)
  <2>1. task' \in [Tasks -> TaskRow]
    BY <1>8, LocalsType, GotoType DEF RejectRelease, Pcs, PayPcs, SlipPcs
  <2>2. NewTicket \in TicketRow BY DEF NewTicket, TicketRow, TicketStatus
  <2>3. ticket' \in [Tickets -> TicketRow] BY <1>8, <2>2 DEF RejectRelease, TypeOK
  <2>4. UNCHANGED <<now, lottery, resv, job, pay, audit, faults, crashes>>
    BY <1>8 DEF RejectRelease, env
  <2> QED BY <2>1, <2>3, <2>4 DEF TypeOK
<1>9. CASE WriteAudit(q)
  <2>1. task[q].pay \in Pays
    BY <1>9, LocalsType DEF WriteAudit, Pcs, PayPcs, SlipPcs
  <2>2. task' \in [Tasks -> TaskRow] BY <1>9, IdleType, RunType DEF WriteAudit
  <2>3. audit' \subseteq Pays \X {"APPROVE", "REJECT"}
    BY <1>9, <2>1 DEF WriteAudit, TypeOK
  <2>4. UNCHANGED <<now, lottery, ticket, resv, job, pay, faults, crashes>>
    BY <1>9 DEF WriteAudit, env
  <2> QED BY <2>2, <2>3, <2>4 DEF TypeOK
<1>10. CASE RefundWrite(q) \/ UnderReviewWrite(q) \/ DeleteWrite(q) \/ RestoreWrite(q)
  <2>1. task[q].pay \in Pays
    BY <1>10, LocalsType
    DEF RefundWrite, UnderReviewWrite, DeleteWrite, RestoreWrite, Pcs, PayPcs, SlipPcs
  <2>2. task' \in [Tasks -> TaskRow]
    BY <1>10, IdleType, RunType
    DEF RefundWrite, UnderReviewWrite, DeleteWrite, RestoreWrite
  <2>3. PICK row \in PayRow : pay' = [pay EXCEPT ![task[q].pay] = row]
    BY <1>10, <1>a, <2>1
    DEF RefundWrite, UnderReviewWrite, DeleteWrite, RestoreWrite, PaymentStatus
  <2>4. UNCHANGED <<lottery, ticket, resv, audit, env, job>>
    BY <1>10 DEF RefundWrite, UnderReviewWrite, DeleteWrite, RestoreWrite
  <2> QED BY <1>b, <2>1, <2>2, <2>3, <2>4, PayWriteType
<1> QED BY <1>1, <1>2, <1>3, <1>4, <1>5, <1>6, <1>7, <1>8, <1>9, <1>10

(* The worker's reads, the failures and the environment. *)
LEMMA EnvironmentType ==
    ASSUME TypeOK,
           \/ \E q \in Tasks : CloseWrite(q) \/ ExpireRead(q) \/ Fail(q)
           \/ Tick \/ Crash
    PROVE  TypeOK'
<1>1. ASSUME NEW q \in Tasks, CloseWrite(q) PROVE TypeOK'
  <2>1. task' \in [Tasks -> TaskRow] BY <1>1, IdleType, RunType DEF CloseWrite
  <2>2. lottery' \in LotteryRow
    BY <1>1 DEF CloseWrite, TypeOK, LotteryRow, LotteryStatus
  <2>3. UNCHANGED <<now, ticket, resv, job, pay, audit, faults, crashes>>
    BY <1>1 DEF CloseWrite, env
  <2> QED BY <2>1, <2>2, <2>3 DEF TypeOK
<1>2. ASSUME NEW q \in Tasks, ExpireRead(q) PROVE TypeOK'
  <2>1. PICK r \in Resvs :
          /\ \E st \in {"active", "done"} : job' = [job EXCEPT ![r].state = st]
          /\ \/ Run(q, [Idle EXCEPT !.op = "expire", !.pc = "cancel_read", !.resv = r])
             \/ UNCHANGED task
    BY <1>2 DEF ExpireRead
  <2>2. [Idle EXCEPT !.op = "expire", !.pc = "cancel_read", !.resv = r] \in TaskRow
    BY DEF Idle, TaskRow, TaskLocals, PayPcs, SlipPcs, AllOps, Pcs, LotteryStatus
  <2>3. task' \in [Tasks -> TaskRow] BY <2>1, <2>2, RunType DEF TypeOK
  <2>4. job' \in [Resvs -> JobRow] BY <2>1 DEF TypeOK, JobRow
  <2>5. UNCHANGED <<rows, env>> BY <1>2 DEF ExpireRead
  <2> QED BY <2>3, <2>4, <2>5 DEF TypeOK, rows, env
<1>3. ASSUME NEW q \in Tasks, ReserveCommitFails(q) PROVE TypeOK'
  <2>1. task' \in [Tasks -> TaskRow]
    BY <1>3, IdleType, RunType DEF ReserveCommitFails
  <2>2. job' \in [Resvs -> JobRow]
    <3>1. now + HoldTime \in Nat BY StoreAssumption DEF StoreAssumption, TypeOK
    <3>2. ExpiryJob \in JobRow BY <3>1 DEF JobRow, ExpiryJob
    <3> QED BY <1>3, <3>2 DEF ReserveCommitFails, TypeOK
  <2>3. UNCHANGED <<rows, now, crashes>> /\ faults' \in Nat
    BY <1>3 DEF ReserveCommitFails, TypeOK
  <2> QED BY <2>1, <2>2, <2>3 DEF TypeOK, rows
<1>4. ASSUME NEW q \in Tasks, Throws(q) PROVE TypeOK'
  <2>1. task' \in [Tasks -> TaskRow] BY <1>4, IdleType, RunType DEF Throws
  <2>2. job' \in [Resvs -> JobRow]
    <3>1. ASSUME NEW j \in JobRow PROVE AfterThrow(j) \in JobRow
      <4>0. ASSUME NEW st \in {"delayed", "failed"}, NEW n \in Nat
            PROVE  [j EXCEPT !.state = st, !.tries = n] \in JobRow
        BY DEF JobRow
      <4>1. ASSUME NEW st \in {"delayed", "failed"}
            PROVE  [j EXCEPT !.state = st, !.tries = j.tries + 1] \in JobRow
        <5>1. j.tries + 1 \in Nat BY DEF JobRow
        <5> QED BY <4>0, <5>1
      <4>2. \E st \in {"delayed", "failed"} :
              AfterThrow(j) = [j EXCEPT !.state = st, !.tries = j.tries + 1]
        BY DEF AfterThrow
      <4> QED BY <4>1, <4>2
    <3> QED BY <1>4, <3>1 DEF Throws, TypeOK
  <2>3. UNCHANGED <<rows, now, crashes>> /\ faults' \in Nat
    BY <1>4 DEF Throws, TypeOK
  <2> QED BY <2>1, <2>2, <2>3 DEF TypeOK, rows
<1>5. CASE Tick
  BY <1>5 DEF Tick, TypeOK, rows
<1>6. CASE Crash
  <2>1. task' \in [Tasks -> TaskRow] BY <1>6, IdleType DEF Crash
  <2>2. job' \in [Resvs -> JobRow] BY <1>6 DEF Crash, TypeOK, JobRow
  <2>3. UNCHANGED <<rows, now, faults>> /\ crashes' \in Nat
    BY <1>6 DEF Crash, TypeOK
  <2> QED BY <2>1, <2>2, <2>3 DEF TypeOK, rows
<1> QED BY <1>1, <1>2, <1>3, <1>4, <1>5, <1>6 DEF Fail

(* One step keeps every type. *)
LEMMA TypeStep == ASSUME TypeOK, [Next]_vars PROVE TypeOK'
<1>1. CASE UNCHANGED vars BY <1>1 DEF vars, TypeOK
<1>2. ASSUME NEW q \in Tasks, Begin(q) PROVE TypeOK' BY <1>2, BeginType
<1>3. ASSUME NEW q \in Tasks, Continue(q) PROVE TypeOK'
  BY <1>3, TicketStepType, PaymentStepType, VerdictType, EnvironmentType DEF Continue
<1>4. CASE \/ \E q \in Tasks : ExpireRead(q) \/ Fail(q)
           \/ Tick \/ Crash
  BY <1>4, EnvironmentType
<1> QED BY <1>1, <1>2, <1>3, <1>4 DEF Next

LEMMA TypeStart == ASSUME Start, lottery \in LotteryRow PROVE TypeOK
<1>1. now \in Nat /\ faults \in Nat /\ crashes \in Nat /\ audit = {} BY DEF Start
<1>2. ticket \in [Tickets -> TicketRow]
  BY DEF Start, NewTicket, TicketRow, TicketStatus
<1>3. resv \in [Resvs -> ResvRow] BY DEF Start, NoResv, ResvRow
<1>4. job \in [Resvs -> JobRow] BY DEF Start, NoJob, JobRow
<1>5. pay \in [Pays -> PayRow] BY DEF Start, NoPay, PayRow, PaymentStatus
<1>6. task \in [Tasks -> TaskRow] BY IdleType DEF Start
<1> QED BY <1>1, <1>2, <1>3, <1>4, <1>5, <1>6 DEF TypeOK

LEMMA TypeInit == Init => TypeOK
BY TypeStart DEF Init, NewLottery, LotteryRow, LotteryStatus

(* Every row and every task keeps its type, for every number of tickets,     *)
(* reservations, payments, requests and workers.                             *)
THEOREM TypeCorrect == Spec => []TypeOK
BY TypeInit, TypeStep, PTL DEF Spec

-----------------------------------------------------------------------------
(* Tickets follow their reservation *)

(* Storing a reservation: no ticket referred to the new id before. *)
LEMMA StoreReservationHolds ==
    ASSUME TypeOK, TicketsFollowTheirReservation, NEW q \in Tasks, NEW chosen,
           StoreReservation(q, chosen)
    PROVE  TicketsFollowTheirReservation'
<1>1. PICK r \in Resvs :
        /\ ~resv[r].exists
        /\ resv' = [resv EXCEPT ![r] =
                      [exists |-> TRUE, cancelled |-> FALSE, confirmed |-> FALSE,
                       key |-> task[q].key, qty |-> task[q].qty,
                       exp |-> task[q].exp]]
        /\ ticket' = [t \in Tickets |->
                        IF t \in chosen
                        THEN [ticket[t] EXCEPT !.status = "RESERVED", !.resv = r]
                        ELSE ticket[t]]
  BY DEF StoreReservation
<1>2. r # null BY StoreAssumption DEF StoreAssumption
<1>3. /\ resv'[r].exists /\ ~resv'[r].cancelled /\ ~resv'[r].confirmed
      /\ \A s \in Resvs : s # r => resv'[s] = resv[s]
  BY <1>1 DEF TypeOK
<1>4. ASSUME NEW t \in Tickets
      PROVE  /\ t \in chosen => ticket'[t].status = "RESERVED" /\ ticket'[t].resv = r
             /\ t \notin chosen => ticket'[t] = ticket[t] /\ ticket[t].resv # r
             /\ ticket[t].resv \in Resvs \cup {null}
  BY <1>1, <1>2 DEF TypeOK, TicketRow, TicketsFollowTheirReservation
<1> QED BY <1>2, <1>3, <1>4 DEF TicketsFollowTheirReservation

(* Cancelling: every ticket of the reservation lets go of it. *)
LEMMA CancelHolds ==
    ASSUME TypeOK, TicketsFollowTheirReservation, NEW q \in Tasks, CancelTx(q)
    PROVE  TicketsFollowTheirReservation'
<1> DEFINE r == task[q].resv
<1>1. ASSUME NEW s \in Resvs
      PROVE  /\ s # r => resv'[s] = resv[s]
             /\ resv'[s].exists = resv[s].exists
             /\ resv'[s].confirmed = resv[s].confirmed
  BY DEF CancelTx, TypeOK, ResvRow
<1>2. ASSUME NEW t \in Tickets
      PROVE  /\ ticket[t].resv = r =>
                   ticket'[t].status = "AVAILABLE" /\ ticket'[t].resv = null
             /\ ticket[t].resv # r => ticket'[t] = ticket[t]
             /\ ticket[t].resv \in Resvs \cup {null}
  BY DEF CancelTx, Released, TypeOK, TicketRow
<1> QED BY <1>1, <1>2 DEF TicketsFollowTheirReservation

(* Confirming: every RESERVED ticket of the reservation leaves RESERVED. *)
LEMMA ConfirmHolds ==
    ASSUME TypeOK, TicketsFollowTheirReservation, NEW q \in Tasks, ConfirmTx(q)
    PROVE  TicketsFollowTheirReservation'
<1> DEFINE r == task[q].resv
<1>1. ASSUME NEW s \in Resvs
      PROVE  /\ s # r => resv'[s] = resv[s]
             /\ resv'[s].exists = resv[s].exists
             /\ resv'[s].cancelled = resv[s].cancelled
  BY DEF ConfirmTx, TypeOK, ResvRow
<1>2. ASSUME NEW t \in Tickets
      PROVE  /\ ticket[t].resv = r =>
                   ticket'[t].status = "PENDING_PAYMENT" /\ ticket'[t].resv = r
             /\ ticket[t].resv # r => ticket'[t] = ticket[t]
             /\ ticket[t].resv \in Resvs \cup {null}
  BY DEF ConfirmTx, Awaiting, TypeOK, TicketRow
<1> QED BY <1>1, <1>2 DEF TicketsFollowTheirReservation

(* Selling and rejecting leave the reservations alone and make no ticket     *)
(* RESERVED.                                                                 *)
LEMMA SettleHolds ==
    ASSUME TypeOK, TicketsFollowTheirReservation, NEW q \in Tasks,
           FinalizeTx(q) \/ RejectRelease(q)
    PROVE  TicketsFollowTheirReservation'
<1>1. UNCHANGED resv BY DEF FinalizeTx, RejectRelease
<1>2. ASSUME NEW t \in Tickets
      PROVE  \/ ticket'[t] = ticket[t]
             \/ ticket'[t].status = "SOLD" /\ ticket'[t].resv = ticket[t].resv
             \/ ticket'[t].status = "AVAILABLE" /\ ticket'[t].resv = null
  <2>1. CASE FinalizeTx(q)
    <3>1. /\ SoldTo(t, task[q].buyer).status = "SOLD"
          /\ SoldTo(t, task[q].buyer).resv = ticket[t].resv
      BY DEF SoldTo, TypeOK, TicketRow
    <3>2. ticket'[t] \in {SoldTo(t, task[q].buyer), ticket[t]} BY <2>1 DEF FinalizeTx
    <3> QED BY <3>1, <3>2
  <2>2. CASE RejectRelease(q)
    <3>1. ticket'[t] \in {NewTicket, ticket[t]} BY <2>2 DEF RejectRelease
    <3> QED BY <3>1 DEF NewTicket
  <2> QED BY <2>1, <2>2
<1> QED BY <1>1, <1>2 DEF TicketsFollowTheirReservation

(* Every other step leaves tickets and reservations alone. *)
LEMMA OthersKeepHolds ==
    ASSUME NEW q \in Tasks,
           \/ Begin(q) \/ ExpireRead(q) \/ Fail(q)
           \/ SelectManually(q) \/ ReserveRefused(q) \/ CancelRead(q)
           \/ ConfirmRead(q) \/ FinalizeRead(q)
           \/ CreatePayment(q) \/ CreatePaymentRefused(q) \/ DuplicateSlipCheck(q)
           \/ StoreSlip(q) \/ VerifySlip(q) \/ StoreVerdict(q) \/ ApproveWrite(q)
           \/ RejectWrite(q) \/ WriteAudit(q) \/ RefundWrite(q)
           \/ UnderReviewWrite(q) \/ DeleteWrite(q) \/ RestoreWrite(q) \/ CloseWrite(q)
    PROVE  UNCHANGED <<ticket, resv>>
<1>1. CASE Begin(q)
  BY <1>1 DEF Begin, ReserveRead, CancelRequest, InitiateRead, UploadRead, ApproveRead,
     RejectRead, RefundRead, UnderReviewRead, DeleteRead, RestoreRead, CloseRead,
     Review, rows
<1>2. CASE ExpireRead(q) \/ Fail(q)
  BY <1>2 DEF ExpireRead, Fail, ReserveCommitFails, Throws, rows
<1>3. CASE SelectManually(q) \/ ReserveRefused(q) \/ CancelRead(q)
           \/ ConfirmRead(q) \/ FinalizeRead(q)
  BY <1>3 DEF SelectManually, ReserveRefused, CancelRead, ConfirmRead, FinalizeRead, rows
<1>4. CASE CreatePayment(q) \/ CreatePaymentRefused(q) \/ DuplicateSlipCheck(q)
           \/ StoreSlip(q) \/ VerifySlip(q) \/ StoreVerdict(q)
  BY <1>4 DEF CreatePayment, CreatePaymentRefused, DuplicateSlipCheck, StoreSlip,
     VerifySlip, StoreVerdict, rows
<1>5. CASE ApproveWrite(q) \/ RejectWrite(q) \/ WriteAudit(q) \/ RefundWrite(q)
           \/ UnderReviewWrite(q) \/ DeleteWrite(q) \/ RestoreWrite(q) \/ CloseWrite(q)
  BY <1>5 DEF ApproveWrite, RejectWrite, WriteAudit, RefundWrite, UnderReviewWrite,
     DeleteWrite, RestoreWrite, CloseWrite
<1> QED BY <1>1, <1>2, <1>3, <1>4, <1>5

LEMMA HoldStep ==
    ASSUME TypeOK, TicketsFollowTheirReservation, [Next]_vars
    PROVE  TicketsFollowTheirReservation'
<1>1. CASE UNCHANGED <<ticket, resv>> BY <1>1 DEF TicketsFollowTheirReservation
<1>2. ASSUME NEW q \in Tasks, ReserveManually(q) \/ ReserveRandomly(q)
      PROVE  TicketsFollowTheirReservation'
  BY <1>2, StoreReservationHolds DEF ReserveManually, ReserveRandomly
<1>3. ASSUME NEW q \in Tasks,
             CancelTx(q) \/ ConfirmTx(q) \/ FinalizeTx(q) \/ RejectRelease(q)
      PROVE  TicketsFollowTheirReservation'
  BY <1>3, CancelHolds, ConfirmHolds, SettleHolds
<1>4. ASSUME NEW q \in Tasks, Continue(q) PROVE TicketsFollowTheirReservation'
  BY <1>1, <1>2, <1>3, <1>4, OthersKeepHolds DEF Continue
<1>5. ASSUME NEW q \in Tasks, Begin(q) \/ ExpireRead(q) \/ Fail(q)
      PROVE  TicketsFollowTheirReservation'
  BY <1>1, <1>5, OthersKeepHolds
<1>6. CASE Tick \/ Crash \/ UNCHANGED vars
  <2>1. UNCHANGED <<ticket, resv>> BY <1>6 DEF Tick, Crash, rows, vars
  <2> QED BY <1>1, <2>1
<1> QED BY <1>4, <1>5, <1>6 DEF Next

(* No interleaving of reserving, cancelling, expiring, confirming, selling   *)
(* and rejecting strands a ticket: a RESERVED ticket has an open reservation *)
(* and no ticket refers to a cancelled one.                                  *)
THEOREM HoldsAreSafe == Spec => []TicketsFollowTheirReservation
<1>1. Init => TicketsFollowTheirReservation
  BY DEF Init, Start, NewTicket, TicketsFollowTheirReservation
<1> QED BY <1>1, TypeCorrect, HoldStep, PTL DEF Spec

-----------------------------------------------------------------------------
(* One row per idempotency key *)

(* A step either leaves the rows' existence and keys alone, or creates one   *)
(* row whose key no other row has.                                           *)
LEMMA ResvKeysStep ==
    ASSUME TypeOK, NEW q \in Tasks, NEW chosen, StoreReservation(q, chosen),
           OneRowPerIdempotencyKey
    PROVE  OneRowPerIdempotencyKey'
<1>1. PICK r \in Resvs :
        /\ ~resv[r].exists /\ ResvKeyFree(task[q].key)
        /\ resv' = [resv EXCEPT ![r] =
                      [exists |-> TRUE, cancelled |-> FALSE, confirmed |-> FALSE,
                       key |-> task[q].key, qty |-> task[q].qty,
                       exp |-> task[q].exp]]
  BY DEF StoreReservation, UniqueResvKey
<1>2. UNCHANGED pay BY DEF StoreReservation
<1>3. resv'[r].key = task[q].key /\ \A s \in Resvs : s # r => resv'[s] = resv[s]
  BY <1>1 DEF TypeOK
<1> QED BY <1>1, <1>2, <1>3 DEF OneRowPerIdempotencyKey, ResvKeyFree

LEMMA PayKeysStep ==
    ASSUME TypeOK, NEW q \in Tasks, CreatePayment(q), OneRowPerIdempotencyKey
    PROVE  OneRowPerIdempotencyKey'
<1>1. PICK p \in Pays :
        /\ ~pay[p].exists
        /\ pay' = [pay EXCEPT ![p] = [NoPay EXCEPT !.exists = TRUE,
                                        !.buyer = task[q].buyer,
                                        !.key = task[q].key]]
  BY DEF CreatePayment
<1>2. PayKeyFree(task[q].key) /\ UNCHANGED resv BY DEF CreatePayment, UniquePayKey
<1>3. pay'[p].key = task[q].key /\ \A s \in Pays : s # p => pay'[s] = pay[s]
  BY <1>1 DEF TypeOK, NoPay
<1> QED BY <1>1, <1>2, <1>3 DEF OneRowPerIdempotencyKey, PayKeyFree

-----------------------------------------------------------------------------
(* What a payment keeps *)

(* A payment never ceases to exist, keeps its buyer and its key, and once    *)
(* approved stays approved.                                                  *)
PaymentsAreKept ==
    \A p \in Pays :
        /\ pay[p].exists => /\ pay'[p].exists
                            /\ pay'[p].buyer = pay[p].buyer
                            /\ pay'[p].key = pay[p].key
        /\ pay[p].approved /\ pay[p].exists => pay'[p].approved

(* An update of one existing payment's review columns. *)
LEMMA ReviewColumns ==
    ASSUME TypeOK, NEW q \in Tasks,
           \/ StoreSlip(q) \/ StoreVerdict(q) \/ ApproveWrite(q) \/ RejectWrite(q)
           \/ RefundWrite(q) \/ UnderReviewWrite(q) \/ DeleteWrite(q) \/ RestoreWrite(q)
    PROVE  /\ UNCHANGED resv
           /\ \A p \in Pays : /\ pay'[p].exists = pay[p].exists
                              /\ pay'[p].buyer = pay[p].buyer
                              /\ pay'[p].key = pay[p].key
                              /\ pay[p].approved => pay'[p].approved
                              /\ pay'[p].deleted => pay[p].deleted \/ DeleteWrite(q)
                              /\ p # task[q].pay => pay'[p] = pay[p]
<1> DEFINE Goal == \A p \in Pays : /\ pay'[p].exists = pay[p].exists
                                   /\ pay'[p].buyer = pay[p].buyer
                                   /\ pay'[p].key = pay[p].key
                                   /\ pay[p].approved => pay'[p].approved
                                   /\ pay'[p].deleted => pay[p].deleted \/ DeleteWrite(q)
                                   /\ p # task[q].pay => pay'[p] = pay[p]
<1>1. CASE StoreSlip(q)
  <2>1. Goal BY <1>1 DEF StoreSlip, TypeOK, PayRow
  <2> QED BY <1>1, <2>1 DEF StoreSlip
<1>2. CASE StoreVerdict(q)
  <2>1. Goal BY <1>2 DEF StoreVerdict, ApprovedAtWith, TypeOK, PayRow
  <2> QED BY <1>2, <2>1 DEF StoreVerdict
<1>3. CASE ApproveWrite(q)
  <2>1. Goal BY <1>3 DEF ApproveWrite, TypeOK, PayRow
  <2> QED BY <1>3, <2>1 DEF ApproveWrite
<1>4. CASE RejectWrite(q)
  <2>1. Goal BY <1>4 DEF RejectWrite, TypeOK, PayRow
  <2> QED BY <1>4, <2>1 DEF RejectWrite
<1>5. CASE RefundWrite(q)
  <2>1. Goal BY <1>5 DEF RefundWrite, TypeOK, PayRow
  <2> QED BY <1>5, <2>1 DEF RefundWrite
<1>6. CASE UnderReviewWrite(q)
  <2>1. Goal BY <1>6 DEF UnderReviewWrite, TypeOK, PayRow
  <2> QED BY <1>6, <2>1 DEF UnderReviewWrite
<1>7. CASE DeleteWrite(q)
  <2>1. Goal BY <1>7 DEF DeleteWrite, TypeOK, PayRow
  <2> QED BY <1>7, <2>1 DEF DeleteWrite
<1>8. CASE RestoreWrite(q)
  <2>1. Goal BY <1>8 DEF RestoreWrite, TypeOK, PayRow
  <2> QED BY <1>8, <2>1 DEF RestoreWrite
<1> QED BY <1>1, <1>2, <1>3, <1>4, <1>5, <1>6, <1>7, <1>8

(* A new payment: the others are as they were. *)
LEMMA CreationColumns ==
    ASSUME TypeOK, NEW q \in Tasks, CreatePayment(q)
    PROVE  \E p \in Pays :
             /\ ~pay[p].exists
             /\ pay'[p].exists /\ ~pay'[p].approved /\ pay'[p].status = "INITIATED"
             /\ pay'[p].buyer = task[q].buyer /\ ~pay'[p].deleted
             /\ \A other \in Pays : other # p => pay'[other] = pay[other]
             /\ task' = [task EXCEPT ![q] = [task[q] EXCEPT !.pc = "confirm_read",
                                                            !.pay = p]]
<1>1. PICK p \in Pays :
        /\ ~pay[p].exists
        /\ pay' = [pay EXCEPT ![p] = [NoPay EXCEPT !.exists = TRUE,
                                        !.buyer = task[q].buyer,
                                        !.key = task[q].key]]
        /\ task' = [task EXCEPT ![q] = [task[q] EXCEPT !.pc = "confirm_read",
                                                       !.pay = p]]
  BY DEF CreatePayment, Run
<1>2. \A other \in Pays : other # p => pay'[other] = pay[other] BY <1>1 DEF TypeOK
<1>3. /\ pay'[p].exists /\ ~pay'[p].approved /\ pay'[p].status = "INITIATED"
      /\ pay'[p].buyer = task[q].buyer /\ ~pay'[p].deleted
  BY <1>1 DEF TypeOK, NoPay
<1> QED BY <1>1, <1>2, <1>3

(* All other steps leave the payments alone. *)
LEMMA OthersKeepPayments ==
    ASSUME NEW q \in Tasks,
           \/ Begin(q) \/ ExpireRead(q) \/ Fail(q)
           \/ SelectManually(q) \/ ReserveManually(q) \/ ReserveRandomly(q)
           \/ ReserveRefused(q) \/ CancelRead(q) \/ CancelTx(q) \/ ConfirmRead(q)
           \/ ConfirmTx(q) \/ FinalizeRead(q) \/ FinalizeTx(q)
           \/ CreatePaymentRefused(q) \/ DuplicateSlipCheck(q) \/ VerifySlip(q)
           \/ RejectRelease(q) \/ WriteAudit(q) \/ CloseWrite(q)
    PROVE  UNCHANGED pay
<1>1. CASE Begin(q)
  BY <1>1 DEF Begin, ReserveRead, CancelRequest, InitiateRead, UploadRead, ApproveRead,
     RejectRead, RefundRead, UnderReviewRead, DeleteRead, RestoreRead, CloseRead,
     Review, rows
<1>2. CASE ExpireRead(q) \/ Fail(q)
  BY <1>2 DEF ExpireRead, Fail, ReserveCommitFails, Throws, rows
<1>3. CASE ReserveManually(q) \/ ReserveRandomly(q)
  BY <1>3 DEF ReserveManually, ReserveRandomly, StoreReservation
<1>4. CASE SelectManually(q) \/ ReserveRefused(q) \/ CancelRead(q) \/ CancelTx(q)
           \/ ConfirmRead(q) \/ ConfirmTx(q) \/ FinalizeRead(q) \/ FinalizeTx(q)
  BY <1>4 DEF SelectManually, ReserveRefused, CancelRead, CancelTx, ConfirmRead,
     ConfirmTx, FinalizeRead, FinalizeTx, rows
<1>5. CASE CreatePaymentRefused(q) \/ DuplicateSlipCheck(q) \/ VerifySlip(q)
           \/ RejectRelease(q) \/ WriteAudit(q) \/ CloseWrite(q)
  BY <1>5 DEF CreatePaymentRefused, DuplicateSlipCheck, VerifySlip, RejectRelease,
     WriteAudit, CloseWrite, rows
<1> QED BY <1>1, <1>2, <1>3, <1>4, <1>5

LEMMA PaymentsKeptStep == ASSUME TypeOK, [Next]_vars PROVE PaymentsAreKept
<1>1. CASE UNCHANGED pay BY <1>1 DEF PaymentsAreKept
<1>2. ASSUME NEW q \in Tasks, CreatePayment(q) PROVE PaymentsAreKept
  <2>1. PICK p \in Pays :
          ~pay[p].exists /\ \A other \in Pays : other # p => pay'[other] = pay[other]
    BY <1>2, CreationColumns
  <2> QED BY <2>1 DEF PaymentsAreKept
<1>3. ASSUME NEW q \in Tasks,
             \/ StoreSlip(q) \/ StoreVerdict(q) \/ ApproveWrite(q) \/ RejectWrite(q)
             \/ RefundWrite(q) \/ UnderReviewWrite(q) \/ DeleteWrite(q)
             \/ RestoreWrite(q)
      PROVE  PaymentsAreKept
  <2>1. \A p \in Pays : /\ pay'[p].exists = pay[p].exists
                        /\ pay'[p].buyer = pay[p].buyer
                        /\ pay'[p].key = pay[p].key
                        /\ pay[p].approved => pay'[p].approved
    BY <1>3, ReviewColumns
  <2> QED BY <2>1 DEF PaymentsAreKept
<1>4. ASSUME NEW q \in Tasks, Continue(q) PROVE PaymentsAreKept
  BY <1>1, <1>2, <1>3, <1>4, OthersKeepPayments DEF Continue
<1>5. ASSUME NEW q \in Tasks, Begin(q) \/ ExpireRead(q) \/ Fail(q)
      PROVE  PaymentsAreKept
  BY <1>1, <1>5, OthersKeepPayments
<1>6. CASE Tick \/ Crash \/ UNCHANGED vars
  <2>1. UNCHANGED pay BY <1>6 DEF Tick, Crash, rows, vars
  <2> QED BY <1>1, <2>1
<1> QED BY <1>4, <1>5, <1>6 DEF Next

LEMMA KeysStep ==
    ASSUME TypeOK, OneRowPerIdempotencyKey, [Next]_vars
    PROVE  OneRowPerIdempotencyKey'
<1>a. ASSUME UNCHANGED pay,
             \A r \in Resvs : resv'[r].exists = resv[r].exists /\ resv'[r].key = resv[r].key
      PROVE  OneRowPerIdempotencyKey'
  BY <1>a DEF OneRowPerIdempotencyKey
<1>1. CASE UNCHANGED <<resv, pay>> BY <1>1, <1>a
<1>2. ASSUME NEW q \in Tasks, ReserveManually(q) \/ ReserveRandomly(q)
      PROVE  OneRowPerIdempotencyKey'
  BY <1>2, ResvKeysStep DEF ReserveManually, ReserveRandomly
<1>3. ASSUME NEW q \in Tasks, CreatePayment(q) PROVE OneRowPerIdempotencyKey'
  BY <1>3, PayKeysStep
<1>4. ASSUME NEW q \in Tasks, CancelTx(q) \/ ConfirmTx(q)
      PROVE  OneRowPerIdempotencyKey'
  <2>1. \A r \in Resvs : resv'[r].exists = resv[r].exists /\ resv'[r].key = resv[r].key
    BY <1>4 DEF CancelTx, ConfirmTx, TypeOK, ResvRow
  <2> QED BY <1>4, <1>a, <2>1 DEF CancelTx, ConfirmTx
<1>5. ASSUME NEW q \in Tasks,
             \/ StoreSlip(q) \/ StoreVerdict(q) \/ ApproveWrite(q) \/ RejectWrite(q)
             \/ RefundWrite(q) \/ UnderReviewWrite(q) \/ DeleteWrite(q)
             \/ RestoreWrite(q)
      PROVE  OneRowPerIdempotencyKey'
  <2>1. /\ \A p \in Pays : pay'[p].exists = pay[p].exists /\ pay'[p].key = pay[p].key
        /\ UNCHANGED resv
    BY <1>5, ReviewColumns
  <2> QED BY <2>1 DEF OneRowPerIdempotencyKey
<1>6. ASSUME NEW q \in Tasks,
             \/ Begin(q) \/ ExpireRead(q) \/ Fail(q)
             \/ SelectManually(q) \/ ReserveRefused(q) \/ CancelRead(q)
             \/ ConfirmRead(q) \/ FinalizeRead(q) \/ FinalizeTx(q)
             \/ CreatePaymentRefused(q) \/ DuplicateSlipCheck(q) \/ VerifySlip(q)
             \/ RejectRelease(q) \/ WriteAudit(q) \/ CloseWrite(q)
      PROVE  OneRowPerIdempotencyKey'
  <2>1. UNCHANGED pay BY <1>6, OthersKeepPayments
  <2>2. UNCHANGED resv
    BY <1>6, OthersKeepHolds DEF FinalizeTx, RejectRelease
  <2> QED BY <1>1, <2>1, <2>2
<1>7. CASE Tick \/ Crash \/ UNCHANGED vars
  <2>1. UNCHANGED <<resv, pay>> BY <1>7 DEF Tick, Crash, rows, vars
  <2> QED BY <1>1, <2>1
<1> QED BY <1>2, <1>3, <1>4, <1>5, <1>6, <1>7 DEF Next, Continue

(* A key names at most one reservation and one payment, however the lookups  *)
(* and the creations of concurrent retries interleave.                       *)
THEOREM KeysAreUnique == Spec => []OneRowPerIdempotencyKey
<1>1. Init => OneRowPerIdempotencyKey
  BY DEF Init, Start, NoResv, NoPay, OneRowPerIdempotencyKey
<1> QED BY <1>1, TypeCorrect, KeysStep, PTL DEF Spec

-----------------------------------------------------------------------------
(* Approval *)

(* The statements that sell to a buyer the handler has read or was given,    *)
(* and all that act on an approval.  The bulk import's are among them so     *)
(* that ImportsProofs can use the same invariant.                            *)
BuyerPcs == {"finalize_tx", "bulk_pick", "bulk_short", "bulk_tx"}
ApprovedPcs == {"finalize_read", "approve_audit", "refund_write"} \cup BuyerPcs

(* A handler's view of its payment is behind the row, never wrong about what *)
(* the row has become for good.                                              *)
ActsOnPayment(q) ==
    /\ task[q].pc \in PayPcs => pay[task[q].pay].exists
    /\ task[q].pc \in ApprovedPcs => pay[task[q].pay].approved
    /\ task[q].pc \in BuyerPcs => task[q].buyer = pay[task[q].pay].buyer

ApprovedExist == \A p \in Pays : pay[p].approved => pay[p].exists

(* The inductive invariant.  SoldTicketsBelongToThePayer alone is not        *)
(* inductive: finalizeTickets sells to the buyer it read in an earlier       *)
(* statement, so the invariant must say that the buyer it holds is still the *)
(* payment's, and that the payment it was called for is approved.            *)
ApprovalInv ==
    /\ ApprovedExist
    /\ \A q \in Tasks : ActsOnPayment(q)
    /\ SoldTicketsBelongToThePayer
    /\ DecisionsRestOnApproval

(* The other handlers' views survive a step of handler q. *)
LEMMA OtherTasksAct ==
    ASSUME TypeOK, ApprovalInv, PaymentsAreKept, NEW other \in Tasks,
           task'[other] = task[other]
    PROVE  ActsOnPayment(other)'
<1>1. ActsOnPayment(other) BY DEF ApprovalInv
<1>2. ASSUME task[other].pc \in PayPcs
      PROVE  /\ task[other].pay \in Pays
             /\ pay[task[other].pay].exists
             /\ pay'[task[other].pay].exists
             /\ pay'[task[other].pay].buyer = pay[task[other].pay].buyer
             /\ pay[task[other].pay].approved => pay'[task[other].pay].approved
  BY <1>1, <1>2, LocalsType DEF ActsOnPayment, PaymentsAreKept
<1>3. \A pc \in ApprovedPcs : pc \in PayPcs
  BY DEF ApprovedPcs, BuyerPcs, PayPcs, Pcs
<1>4. \A pc \in BuyerPcs : pc \in PayPcs BY DEF BuyerPcs, PayPcs, Pcs
<1> QED BY <1>1, <1>2, <1>3, <1>4 DEF ActsOnPayment

(* A handler that has no payment yet, or none any more. *)
LEMMA NoPaymentInHand ==
    ASSUME NEW q \in Tasks, task'[q].pc \notin PayPcs
    PROVE  ActsOnPayment(q)'
<1>1. \A pc \in ApprovedPcs : pc \in PayPcs
  BY DEF ApprovedPcs, BuyerPcs, PayPcs, Pcs
<1>2. \A pc \in BuyerPcs : pc \in PayPcs BY DEF BuyerPcs, PayPcs, Pcs
<1> QED BY <1>1, <1>2 DEF ActsOnPayment

(* A handler that goes on with the payment it has. *)
LEMMA SamePaymentInHand ==
    ASSUME TypeOK, ApprovalInv, PaymentsAreKept, NEW q \in Tasks,
           task[q].pc \in PayPcs, task'[q].pay = task[q].pay,
           task'[q].pc \in ApprovedPcs => pay'[task[q].pay].approved,
           task'[q].pc \in BuyerPcs =>
             task'[q].buyer = pay'[task[q].pay].buyer
    PROVE  ActsOnPayment(q)'
<1>1. pay'[task[q].pay].exists
  BY LocalsType DEF ApprovalInv, ActsOnPayment, PaymentsAreKept
<1> QED BY <1>1 DEF ActsOnPayment

(* What the actions write into the acting slot. *)
LEMMA RunWrites ==
    ASSUME TypeOK, NEW q \in Tasks, NEW rec, Run(q, rec)
    PROVE  /\ task'[q] = rec
           /\ \A other \in Tasks : other # q => task'[other] = task[other]
BY DEF TypeOK, Run

LEMMA GotoWrites ==
    ASSUME TypeOK, NEW q \in Tasks, NEW pc, Goto(q, pc)
    PROVE  /\ task'[q].pc = pc /\ task'[q].pay = task[q].pay
           /\ \A other \in Tasks : other # q => task'[other] = task[other]
BY DEF TypeOK, Goto, TaskRow, TaskLocals

LEMMA ReturnWrites ==
    ASSUME TypeOK, NEW q \in Tasks, Return(q)
    PROVE  /\ task'[q].pc = "idle"
           /\ \A other \in Tasks : other # q => task'[other] = task[other]
BY RunWrites DEF Return, Idle

(* The first read of a request, and of the worker, and the failures. *)
LEMMA BeginActs ==
    ASSUME TypeOK, ApprovalInv, NEW q \in Tasks,
           Begin(q) \/ ExpireRead(q) \/ Fail(q)
    PROVE  /\ ActsOnPayment(q)'
           /\ \A other \in Tasks : other # q => task'[other] = task[other]
<1>0. task \in [Tasks -> TaskRow] BY DEF TypeOK
<1> USE DEF Idle
<1>1. CASE ReserveRead(q) \/ CancelRequest(q) \/ InitiateRead(q) \/ CloseRead(q)
  <2> DEFINE Begun == \A other \in Tasks : other # q => task'[other] = task[other]
  <2>1. CASE ReserveRead(q)
    <3>1. PICK k \in Keys \cup {null}, n \in 1..MaxQty, chosen \in Selections :
            Run(q, [Idle EXCEPT !.op = "reserve", !.pc = "reserve_tx",
                                !.key = k, !.qty = n, !.tickets = chosen,
                                !.exp = now + HoldTime, !.seen = lottery.status])
      BY <2>1 DEF ReserveRead
    <3>2. task'[q].pc = "reserve_tx" /\ Begun BY <1>0, <3>1 DEF Run
    <3> QED BY <3>2, NoPaymentInHand DEF PayPcs
  <2>2. CASE CancelRequest(q)
    <3>1. PICK r \in Resvs :
            Run(q, [Idle EXCEPT !.op = "cancel", !.pc = "cancel_tx", !.resv = r])
      BY <2>2 DEF CancelRequest
    <3>2. task'[q].pc = "cancel_tx" /\ Begun BY <1>0, <3>1 DEF Run
    <3> QED BY <3>2, NoPaymentInHand DEF PayPcs
  <2>3. CASE InitiateRead(q)
    <3>1. PICK r \in Resvs, k \in Keys \cup {null}, b \in Buyers :
            Run(q, [Idle EXCEPT !.op = "initiate", !.pc = "pay_create",
                                !.resv = r, !.key = k, !.buyer = b])
      BY <2>3 DEF InitiateRead
    <3>2. task'[q].pc = "pay_create" /\ Begun BY <1>0, <3>1 DEF Run
    <3> QED BY <3>2, NoPaymentInHand DEF PayPcs
  <2>4. CASE CloseRead(q)
    <3>1. task'[q].pc = "close_write" /\ Begun BY <2>4, RunWrites DEF CloseRead
    <3> QED BY <3>1, NoPaymentInHand DEF PayPcs
  <2> QED BY <1>1, <2>1, <2>2, <2>3, <2>4
<1>2. CASE UploadRead(q)
  <2>1. /\ task'[q].pc = "dup_check" /\ pay[task'[q].pay].exists /\ UNCHANGED pay
        /\ \A other \in Tasks : other # q => task'[other] = task[other]
    BY <1>2, <1>0 DEF Run, Goto, Return, UploadRead, rows
  <2> QED BY <2>1 DEF ActsOnPayment, ApprovedPcs, BuyerPcs
<1>3. CASE RefundRead(q)
  <2>1. PICK p \in Pays : Refundable(p) /\ Review(q, "refund", "refund_write", p)
    BY <1>3 DEF RefundRead
  <2>2. /\ task'[q].pc = "refund_write" /\ task'[q].pay = p
        /\ pay[p].exists /\ UNCHANGED pay
        /\ \A other \in Tasks : other # q => task'[other] = task[other]
    BY <2>1, <1>0 DEF Run, Goto, Return, Review, rows
  <2>3. pay[p].approved
    BY <2>1 DEF Refundable, ApprovalInv, DecisionsRestOnApproval
  <2> QED BY <2>2, <2>3 DEF ActsOnPayment, BuyerPcs
<1>4. ASSUME NEW p \in Pays, NEW op,
             NEW pc \in {"approve_write", "reject_write", "review_write",
                         "delete_write", "restore_write"},
             Review(q, op, pc, p)
      PROVE  /\ ActsOnPayment(q)'
             /\ \A other \in Tasks : other # q => task'[other] = task[other]
  <2>1. /\ task'[q].pc = pc /\ task'[q].pay = p
        /\ pay[p].exists /\ UNCHANGED pay
        /\ \A other \in Tasks : other # q => task'[other] = task[other]
    BY <1>4, <1>0 DEF Run, Goto, Return, Review, rows
  <2> QED BY <2>1 DEF ActsOnPayment, ApprovedPcs, BuyerPcs
<1>5. CASE ExpireRead(q)
  <2>1. /\ \A other \in Tasks : other # q => task'[other] = task[other]
        /\ task'[q].pc = "cancel_read" \/ task'[q] = task[q]
        /\ task[q].pc = "idle"
    <3>1. PICK r \in Resvs :
            \/ Run(q, [Idle EXCEPT !.op = "expire", !.pc = "cancel_read", !.resv = r])
            \/ UNCHANGED task
      BY <1>5 DEF ExpireRead
    <3>2. task[q].pc = "idle" BY <1>5 DEF ExpireRead
    <3> QED BY <1>0, <3>1, <3>2 DEF Run
  <2> QED BY <2>1, NoPaymentInHand DEF PayPcs
<1>6. CASE Fail(q)
  <2>1. /\ task'[q].pc = "idle"
        /\ \A other \in Tasks : other # q => task'[other] = task[other]
    BY <1>6, <1>0 DEF Run, Goto, Return, Fail, ReserveCommitFails, Throws
  <2> QED BY <2>1, NoPaymentInHand DEF PayPcs
<1> QED BY <1>1, <1>2, <1>3, <1>4, <1>5, <1>6 DEF Begin, ApproveRead, RejectRead,
           UnderReviewRead, DeleteRead, RestoreRead

(* The later statements. *)
LEMMA ContinueActs ==
    ASSUME TypeOK, ApprovalInv, PaymentsAreKept, NEW q \in Tasks, Continue(q)
    PROVE  /\ ActsOnPayment(q)'
           /\ \A other \in Tasks : other # q => task'[other] = task[other]
<1>0. task \in [Tasks -> TaskRow] BY DEF TypeOK
<1> DEFINE OthersRest == \A other \in Tasks : other # q => task'[other] = task[other]
<1>1. CASE SelectManually(q) \/ ReserveManually(q) \/ ReserveRandomly(q)
           \/ ReserveRefused(q) \/ CancelRead(q) \/ CancelTx(q) \/ ConfirmTx(q)
           \/ CreatePaymentRefused(q) \/ WriteAudit(q) \/ RefundWrite(q)
           \/ UnderReviewWrite(q) \/ DeleteWrite(q) \/ RestoreWrite(q) \/ CloseWrite(q)
  <2>1. \/ Goto(q, "reserve_write") \/ Goto(q, "cancel_tx") \/ Return(q) \/ Run(q, Idle)
    BY <1>1
    DEF SelectManually, ReserveManually, ReserveRandomly, StoreReservation,
        ReserveRefused, CancelRead, CancelTx, ConfirmTx, CreatePaymentRefused,
        WriteAudit, RefundWrite, UnderReviewWrite, DeleteWrite, RestoreWrite,
        CloseWrite
  <2>2. task'[q].pc \in {"idle", "reserve_write", "cancel_tx"} /\ OthersRest
    BY <2>1, GotoWrites, ReturnWrites, RunWrites DEF Idle
  <2> QED BY <2>2, NoPaymentInHand DEF PayPcs
<1>2. CASE ConfirmRead(q)
  <2>1. /\ task'[q].pc \in {"idle", "cancel_read", "confirm_tx"}
        /\ task'[q].pc = "confirm_tx" => task'[q].pay = task[q].pay
        /\ OthersRest
    BY <1>2, GotoWrites, ReturnWrites DEF ConfirmRead
  <2>2. task[q].pc \in PayPcs BY <1>2 DEF ConfirmRead, PayPcs, Pcs
  <2>3. task'[q].pc = "confirm_tx" => ActsOnPayment(q)'
    BY <2>1, <2>2, SamePaymentInHand DEF ApprovedPcs, BuyerPcs
  <2> QED BY <2>1, <2>3, NoPaymentInHand DEF PayPcs
<1>3. CASE FinalizeRead(q)
  <2>1. /\ task'[q].pc = "finalize_tx" /\ task'[q].pay = task[q].pay
        /\ task'[q].buyer = pay[task[q].pay].buyer /\ UNCHANGED pay
        /\ OthersRest
    BY <1>3, <1>0 DEF Run, Goto, Return, FinalizeRead, rows, TaskRow, TaskLocals
  <2>2. task[q].pc \in PayPcs /\ task[q].pc \in ApprovedPcs
    BY <1>3 DEF FinalizeRead, PayPcs, Pcs, ApprovedPcs, BuyerPcs
  <2> QED BY <2>1, <2>2, SamePaymentInHand DEF ApprovalInv, ActsOnPayment, BuyerPcs
<1>4. CASE FinalizeTx(q)
  <2>1. /\ task'[q].pc \in {"idle", "approve_audit"}
        /\ task'[q].pc = "approve_audit" => task'[q].pay = task[q].pay
        /\ UNCHANGED pay /\ OthersRest
    BY <1>4, GotoWrites, RunWrites DEF FinalizeTx, Idle
  <2>2. task[q].pc \in PayPcs /\ task[q].pc \in ApprovedPcs
    BY <1>4 DEF FinalizeTx, PayPcs, Pcs, ApprovedPcs, BuyerPcs
  <2>3. task'[q].pc = "approve_audit" => ActsOnPayment(q)'
    BY <2>1, <2>2, SamePaymentInHand DEF ApprovalInv, ActsOnPayment, BuyerPcs
  <2> QED BY <2>1, <2>3, NoPaymentInHand DEF PayPcs
<1>5. CASE CreatePayment(q)
  <2>1. PICK p \in Pays :
          /\ pay'[p].exists
          /\ task' = [task EXCEPT ![q] = [task[q] EXCEPT !.pc = "confirm_read",
                                                         !.pay = p]]
    BY <1>5, CreationColumns
  <2>2. task'[q].pc = "confirm_read" /\ task'[q].pay = p /\ OthersRest
    BY <2>1 DEF TypeOK, TaskRow, TaskLocals
  <2> QED BY <2>1, <2>2 DEF ActsOnPayment, ApprovedPcs, BuyerPcs
<1>6. CASE DuplicateSlipCheck(q) \/ StoreSlip(q) \/ VerifySlip(q)
           \/ RejectWrite(q) \/ RejectRelease(q)
  <2>1. task[q].pc \in PayPcs
    BY <1>6 DEF DuplicateSlipCheck, StoreSlip, VerifySlip, RejectWrite, RejectRelease,
       PayPcs, Pcs
  <2>2. /\ task'[q].pc \in {"idle", "slip_tx", "verify", "verdict",
                            "reject_release", "reject_audit"}
        /\ task'[q].pc # "idle" => task'[q].pay = task[q].pay
        /\ OthersRest
    <3>1. CASE DuplicateSlipCheck(q)
      BY <3>1, GotoWrites, RunWrites DEF DuplicateSlipCheck, Idle
    <3>2. CASE StoreSlip(q)
      <4>1. task'[q] = [task[q] EXCEPT !.op = "verify", !.pc = "verify"] /\ OthersRest
        BY <3>2, RunWrites DEF StoreSlip
      <4> QED BY <1>0, <4>1 DEF TaskRow, TaskLocals
    <3>3. CASE VerifySlip(q)
      <4>1. PICK v : Run(q, [task[q] EXCEPT !.pc = "verdict", !.verdict = v])
        BY <3>3 DEF VerifySlip
      <4>2. task'[q] = [task[q] EXCEPT !.pc = "verdict", !.verdict = v] /\ OthersRest
        BY <4>1, RunWrites
      <4> QED BY <1>0, <4>2 DEF TaskRow, TaskLocals
    <3>4. CASE RejectWrite(q) \/ RejectRelease(q)
      BY <3>4, GotoWrites DEF RejectWrite, RejectRelease
    <3> QED BY <1>6, <3>1, <3>2, <3>3, <3>4
  <2>3. task'[q].pc # "idle" => ActsOnPayment(q)'
    BY <2>1, <2>2, SamePaymentInHand DEF ApprovedPcs, BuyerPcs
  <2> QED BY <2>2, <2>3, NoPaymentInHand DEF PayPcs
<1>7. CASE StoreVerdict(q) \/ ApproveWrite(q)
  <2>1. task[q].pc \in PayPcs /\ task[q].pay \in Pays
    BY <1>7, LocalsType DEF StoreVerdict, ApproveWrite, PayPcs, Pcs
  <2>2. /\ task'[q].pc \in {"idle", "finalize_read"}
        /\ task'[q].pc # "idle" => task'[q].pay = task[q].pay
        /\ OthersRest
    BY <1>7, GotoWrites, RunWrites DEF StoreVerdict, ApproveWrite, Idle
  <2>3. task'[q].pc # "idle" => pay'[task[q].pay].approved
    <3>1. CASE ApproveWrite(q) BY <2>1, <3>1 DEF ApproveWrite, TypeOK, PayRow
    <3>2. CASE StoreVerdict(q) /\ task[q].verdict = "AUTO"
      BY <2>1, <3>2 DEF StoreVerdict, ApprovedAtWith, TypeOK, PayRow
    <3>3. CASE StoreVerdict(q) /\ task[q].verdict # "AUTO"
      BY <3>3, <1>0 DEF Run, Goto, Return, StoreVerdict, Idle
    <3> QED BY <1>7, <3>1, <3>2, <3>3
  <2>4. task'[q].pc # "idle" => ActsOnPayment(q)'
    BY <2>1, <2>2, <2>3, SamePaymentInHand DEF BuyerPcs
  <2> QED BY <2>2, <2>4, NoPaymentInHand DEF PayPcs
<1> QED BY <1>1, <1>2, <1>3, <1>4, <1>5, <1>6, <1>7 DEF Continue

LEMMA TasksActStep ==
    ASSUME TypeOK, ApprovalInv, [Next]_vars
    PROVE  \A q \in Tasks : ActsOnPayment(q)'
<1>0. PaymentsAreKept BY PaymentsKeptStep
<1>1. ASSUME NEW q \in Tasks, Begin(q) \/ ExpireRead(q) \/ Fail(q) \/ Continue(q),
             NEW any \in Tasks
      PROVE  ActsOnPayment(any)'
  <2>1. /\ ActsOnPayment(q)'
        /\ \A other \in Tasks : other # q => task'[other] = task[other]
    BY <1>0, <1>1, BeginActs, ContinueActs
  <2> QED BY <1>0, <2>1, OtherTasksAct
<1>2. ASSUME Crash, NEW any \in Tasks PROVE ActsOnPayment(any)'
  <2>1. task'[any].pc = "idle" BY <1>2 DEF Crash, Idle
  <2> QED BY <2>1, NoPaymentInHand DEF PayPcs
<1>3. ASSUME Tick \/ UNCHANGED vars, NEW any \in Tasks PROVE ActsOnPayment(any)'
  <2>1. UNCHANGED task BY <1>3 DEF Tick, vars
  <2> QED BY <1>0, <2>1, OtherTasksAct
<1> QED BY <1>1, <1>2, <1>3 DEF Next

(* Only WriteAudit and the payment writes are left out here. *)
LEMMA OthersKeepAudit ==
    ASSUME NEW q \in Tasks,
           \/ Begin(q) \/ ExpireRead(q) \/ Fail(q)
           \/ SelectManually(q) \/ ReserveManually(q) \/ ReserveRandomly(q)
           \/ ReserveRefused(q) \/ CancelRead(q) \/ CancelTx(q) \/ ConfirmRead(q)
           \/ ConfirmTx(q) \/ FinalizeRead(q) \/ FinalizeTx(q)
           \/ CreatePaymentRefused(q) \/ DuplicateSlipCheck(q) \/ VerifySlip(q)
           \/ RejectRelease(q) \/ CloseWrite(q)
    PROVE  UNCHANGED audit
<1>1. CASE Begin(q)
  BY <1>1 DEF Begin, ReserveRead, CancelRequest, InitiateRead, UploadRead, ApproveRead,
     RejectRead, RefundRead, UnderReviewRead, DeleteRead, RestoreRead, CloseRead,
     Review, rows
<1>2. CASE ExpireRead(q) \/ Fail(q)
  BY <1>2 DEF ExpireRead, Fail, ReserveCommitFails, Throws, rows
<1>3. CASE ReserveManually(q) \/ ReserveRandomly(q)
  BY <1>3 DEF ReserveManually, ReserveRandomly, StoreReservation
<1>4. CASE \/ SelectManually(q) \/ ReserveRefused(q) \/ CancelRead(q) \/ CancelTx(q)
           \/ ConfirmRead(q) \/ ConfirmTx(q) \/ FinalizeRead(q) \/ FinalizeTx(q)
  BY <1>4 DEF SelectManually, ReserveRefused, CancelRead, CancelTx, ConfirmRead,
     ConfirmTx, FinalizeRead, FinalizeTx, rows
<1>5. CASE \/ CreatePaymentRefused(q) \/ DuplicateSlipCheck(q) \/ VerifySlip(q)
           \/ RejectRelease(q) \/ CloseWrite(q)
  BY <1>5 DEF CreatePaymentRefused, DuplicateSlipCheck, VerifySlip, RejectRelease,
     CloseWrite, rows
<1> QED BY <1>1, <1>2, <1>3, <1>4, <1>5

(* Approvals are of payments, and the statuses and the audit rest on them. *)
LEMMA ApprovedExistStep ==
    ASSUME TypeOK, ApprovalInv, [Next]_vars
    PROVE  ApprovedExist' /\ DecisionsRestOnApproval'
<1>0. PaymentsAreKept BY PaymentsKeptStep
<1> DEFINE Decided(p) == pay[p].status \in {"APPROVED", "REFUNDED"}
<1>a. ASSUME \A p \in Pays :
               /\ pay'[p].approved => pay[p].approved \/ pay'[p].exists
               /\ pay'[p].status \in {"APPROVED", "REFUNDED"} =>
                    pay'[p].approved \/ pay'[p].status = pay[p].status,
             \A p \in Pays : <<p, "APPROVE">> \in audit' =>
               <<p, "APPROVE">> \in audit \/ pay[p].approved
      PROVE  ApprovedExist' /\ DecisionsRestOnApproval'
  <2>1. \A p \in Pays : pay[p].approved => pay'[p].approved /\ pay'[p].exists
    BY <1>0 DEF PaymentsAreKept, ApprovalInv, ApprovedExist
  <2>2. \A p \in Pays : Decided(p) => pay[p].approved
    BY DEF ApprovalInv, DecisionsRestOnApproval
  <2>3. \A p \in Pays : <<p, "APPROVE">> \in audit => pay[p].approved
    BY DEF ApprovalInv, DecisionsRestOnApproval
  <2> QED BY <1>a, <2>1, <2>2, <2>3 DEF ApprovedExist, DecisionsRestOnApproval
<1>1. CASE UNCHANGED <<pay, audit>> BY <1>1, <1>a
<1>2. ASSUME NEW q \in Tasks, CreatePayment(q)
      PROVE  ApprovedExist' /\ DecisionsRestOnApproval'
  <2>1. PICK p \in Pays :
          /\ ~pay'[p].approved /\ pay'[p].status = "INITIATED"
          /\ \A other \in Pays : other # p => pay'[other] = pay[other]
    BY <1>2, CreationColumns
  <2>2. UNCHANGED audit BY <1>2 DEF CreatePayment
  <2> QED BY <1>a, <2>1, <2>2
<1>3. ASSUME NEW q \in Tasks,
             \/ StoreSlip(q) \/ StoreVerdict(q) \/ ApproveWrite(q) \/ RejectWrite(q)
             \/ RefundWrite(q) \/ UnderReviewWrite(q) \/ DeleteWrite(q)
             \/ RestoreWrite(q)
      PROVE  ApprovedExist' /\ DecisionsRestOnApproval'
  <2>1. /\ UNCHANGED audit
        /\ task[q].pc \in PayPcs
        /\ RefundWrite(q) => task[q].pc \in ApprovedPcs
    BY <1>3 DEF StoreSlip, StoreVerdict, ApproveWrite, RejectWrite, RefundWrite,
       UnderReviewWrite, DeleteWrite, RestoreWrite, PayPcs, Pcs, ApprovedPcs, BuyerPcs
  <2>2. /\ task[q].pay \in Pays /\ pay[task[q].pay].exists
        /\ RefundWrite(q) => pay[task[q].pay].approved
    BY <2>1, LocalsType DEF ApprovalInv, ActsOnPayment
  <2>3. /\ pay'[task[q].pay].exists
        /\ pay[task[q].pay].approved => pay'[task[q].pay].approved
        /\ \A p \in Pays : p # task[q].pay => pay'[p] = pay[p]
    BY <1>3, <2>2, ReviewColumns
  <2>4. pay'[task[q].pay].status \in {"APPROVED", "REFUNDED"} =>
          \/ pay'[task[q].pay].approved
          \/ pay'[task[q].pay].status = pay[task[q].pay].status
    <3>1. CASE StoreSlip(q) BY <2>2, <3>1 DEF StoreSlip, TypeOK, PayRow
    <3>2. CASE StoreVerdict(q)
      BY <2>2, <3>2 DEF StoreVerdict, VerdictStatus, ApprovedAtWith, TypeOK, PayRow
    <3>3. CASE ApproveWrite(q) BY <2>2, <3>3 DEF ApproveWrite, TypeOK, PayRow
    <3>4. CASE RejectWrite(q) BY <2>2, <3>4 DEF RejectWrite, TypeOK, PayRow
    <3>5. CASE RefundWrite(q) BY <2>2, <2>3, <3>5
    <3>6. CASE UnderReviewWrite(q) BY <2>2, <3>6 DEF UnderReviewWrite, TypeOK, PayRow
    <3>7. CASE DeleteWrite(q) BY <2>2, <3>7 DEF DeleteWrite, TypeOK, PayRow
    <3>8. CASE RestoreWrite(q) BY <2>2, <3>8 DEF RestoreWrite, TypeOK, PayRow
    <3> QED BY <1>3, <3>1, <3>2, <3>3, <3>4, <3>5, <3>6, <3>7, <3>8
  <2> QED BY <1>a, <2>1, <2>3, <2>4
<1>4. ASSUME NEW q \in Tasks, WriteAudit(q)
      PROVE  ApprovedExist' /\ DecisionsRestOnApproval'
  <2>1. UNCHANGED pay BY <1>4 DEF WriteAudit
  <2>2. \A p \in Pays : <<p, "APPROVE">> \in audit' =>
          <<p, "APPROVE">> \in audit \/ (task[q].pc = "approve_audit" /\ p = task[q].pay)
    BY <1>4 DEF WriteAudit
  <2>3. task[q].pc = "approve_audit" => pay[task[q].pay].approved
    BY DEF ApprovalInv, ActsOnPayment, ApprovedPcs, BuyerPcs
  <2> QED BY <1>a, <2>1, <2>2, <2>3
<1>5. ASSUME NEW q \in Tasks,
             \/ Begin(q) \/ ExpireRead(q) \/ Fail(q)
             \/ SelectManually(q) \/ ReserveManually(q) \/ ReserveRandomly(q)
             \/ ReserveRefused(q) \/ CancelRead(q) \/ CancelTx(q) \/ ConfirmRead(q)
             \/ ConfirmTx(q) \/ FinalizeRead(q) \/ FinalizeTx(q)
             \/ CreatePaymentRefused(q) \/ DuplicateSlipCheck(q) \/ VerifySlip(q)
             \/ RejectRelease(q) \/ CloseWrite(q)
      PROVE  ApprovedExist' /\ DecisionsRestOnApproval'
  <2>1. UNCHANGED pay BY <1>5, OthersKeepPayments
  <2>2. UNCHANGED audit BY <1>5, OthersKeepAudit
  <2> QED BY <1>1, <2>1, <2>2
<1>6. CASE Tick \/ Crash \/ UNCHANGED vars
  <2>1. UNCHANGED <<pay, audit>> BY <1>6 DEF Tick, Crash, rows, vars
  <2> QED BY <1>1, <2>1
<1> QED BY <1>2, <1>3, <1>4, <1>5, <1>6 DEF Next, Continue

(* A SOLD ticket is one that was SOLD before, or one that finalizeTickets    *)
(* has just sold.                                                            *)
LEMMA SoldStep ==
    ASSUME TypeOK, ApprovalInv, [Next]_vars
    PROVE  SoldTicketsBelongToThePayer'
<1>0. PaymentsAreKept BY PaymentsKeptStep
<1>a. ASSUME NEW t \in Tickets, ticket'[t] = ticket[t], ticket[t].status = "SOLD"
      PROVE  /\ ticket'[t].pay # null
             /\ pay'[ticket'[t].pay].exists
             /\ pay'[ticket'[t].pay].approved
             /\ ticket'[t].buyer = pay'[ticket'[t].pay].buyer
  <2>1. /\ ticket[t].pay # null
        /\ pay[ticket[t].pay].exists /\ pay[ticket[t].pay].approved
        /\ ticket[t].buyer = pay[ticket[t].pay].buyer
    BY <1>a DEF ApprovalInv, SoldTicketsBelongToThePayer
  <2>2. ticket[t].pay \in Pays BY <2>1 DEF TypeOK, TicketRow
  <2> QED BY <1>0, <1>a, <2>1, <2>2 DEF PaymentsAreKept
<1>b. ASSUME \A t \in Tickets : ticket'[t] = ticket[t] \/ ticket'[t].status # "SOLD"
      PROVE  SoldTicketsBelongToThePayer'
  BY <1>a, <1>b DEF SoldTicketsBelongToThePayer
<1>1. CASE UNCHANGED ticket BY <1>1, <1>b
<1>2. ASSUME NEW q \in Tasks, NEW chosen, StoreReservation(q, chosen)
      PROVE  SoldTicketsBelongToThePayer'
  <2>1. PICK r \in Resvs :
          ticket' = [t \in Tickets |->
                       IF t \in chosen
                       THEN [ticket[t] EXCEPT !.status = "RESERVED", !.resv = r]
                       ELSE ticket[t]]
    BY <1>2 DEF StoreReservation
  <2>2. \A t \in Tickets : ticket'[t] = ticket[t] \/ ticket'[t].status # "SOLD"
    BY <2>1 DEF TypeOK, TicketRow
  <2> QED BY <1>b, <2>2
<1>3. ASSUME NEW q \in Tasks, CancelTx(q) \/ ConfirmTx(q) \/ RejectRelease(q)
      PROVE  SoldTicketsBelongToThePayer'
  <2>1. ASSUME NEW t \in Tickets
        PROVE  ticket'[t] = ticket[t] \/ ticket'[t].status # "SOLD"
    <3>1. CASE CancelTx(q) BY <3>1 DEF CancelTx, Released, TypeOK, TicketRow
    <3>2. CASE ConfirmTx(q) BY <3>2 DEF ConfirmTx, Awaiting, TypeOK, TicketRow
    <3>3. CASE RejectRelease(q) BY <3>3 DEF RejectRelease, NewTicket
    <3> QED BY <1>3, <3>1, <3>2, <3>3
  <2> QED BY <1>b, <2>1
<1>4. ASSUME NEW q \in Tasks, FinalizeTx(q) PROVE SoldTicketsBelongToThePayer'
  <2>1. task[q].pc = "finalize_tx" /\ UNCHANGED pay BY <1>4 DEF FinalizeTx
  <2>2. /\ task[q].pay \in Pays
        /\ pay[task[q].pay].exists /\ pay[task[q].pay].approved
        /\ task[q].buyer = pay[task[q].pay].buyer
    BY <2>1, LocalsType DEF ApprovalInv, ActsOnPayment, ApprovedPcs, BuyerPcs, PayPcs, Pcs
  <2>3. task[q].pay # null BY <2>2, StoreAssumption DEF StoreAssumption
  <2>4. ASSUME NEW t \in Tickets
        PROVE  \/ ticket'[t] = ticket[t]
               \/ ticket'[t].pay = task[q].pay /\ ticket'[t].buyer = task[q].buyer
    BY <1>4 DEF FinalizeTx, SoldTo, TypeOK, TicketRow
  <2>5. ASSUME NEW t \in Tickets, ticket'[t].status = "SOLD"
        PROVE  /\ ticket'[t].pay # null
               /\ pay'[ticket'[t].pay].exists
               /\ pay'[ticket'[t].pay].approved
               /\ ticket'[t].buyer = pay'[ticket'[t].pay].buyer
    <3>1. CASE ticket'[t] = ticket[t] BY <1>a, <2>5, <3>1
    <3>2. CASE ticket'[t].pay = task[q].pay /\ ticket'[t].buyer = task[q].buyer
      BY <2>1, <2>2, <2>3, <3>2
    <3> QED BY <2>4, <3>1, <3>2
  <2> QED BY <2>5 DEF SoldTicketsBelongToThePayer
<1>5. ASSUME NEW q \in Tasks, CreatePayment(q) \/ WriteAudit(q)
      PROVE  SoldTicketsBelongToThePayer'
  BY <1>1, <1>5 DEF CreatePayment, WriteAudit
<1>6. ASSUME NEW q \in Tasks, ReserveManually(q) \/ ReserveRandomly(q)
      PROVE  SoldTicketsBelongToThePayer'
  BY <1>2, <1>6 DEF ReserveManually, ReserveRandomly
<1>7. ASSUME NEW q \in Tasks, Begin(q) \/ ExpireRead(q) \/ Fail(q)
      PROVE  SoldTicketsBelongToThePayer'
  BY <1>1, <1>7, OthersKeepHolds
<1>8. ASSUME NEW q \in Tasks, Continue(q) PROVE SoldTicketsBelongToThePayer'
  BY <1>1, <1>3, <1>4, <1>5, <1>6, <1>8, OthersKeepHolds DEF Continue
<1>9. CASE Tick \/ Crash \/ UNCHANGED vars
  <2>1. UNCHANGED ticket BY <1>9 DEF Tick, Crash, rows, vars
  <2> QED BY <1>1, <2>1
<1> QED BY <1>7, <1>8, <1>9 DEF Next

LEMMA ApprovalStart == Start => ApprovalInv
<1> SUFFICES ASSUME Start PROVE ApprovalInv OBVIOUS
<1>1. ApprovedExist BY DEF Start, NoPay, ApprovedExist
<1>2. \A q \in Tasks : ActsOnPayment(q)
  BY DEF Start, Idle, ActsOnPayment, PayPcs, ApprovedPcs, BuyerPcs
<1>3. SoldTicketsBelongToThePayer
  BY DEF Start, NewTicket, SoldTicketsBelongToThePayer
<1>4. DecisionsRestOnApproval BY DEF Start, NoPay, DecisionsRestOnApproval
<1> QED BY <1>1, <1>2, <1>3, <1>4 DEF ApprovalInv

LEMMA ApprovalStep == ASSUME TypeOK, ApprovalInv, [Next]_vars PROVE ApprovalInv'
<1>1. (\A q \in Tasks : ActsOnPayment(q))' BY TasksActStep
<1> QED BY <1>1, ApprovedExistStep, SoldStep DEF ApprovalInv

LEMMA ApprovalInvariant == Spec => []ApprovalInv
BY ApprovalStart, ApprovalStep, TypeCorrect, PTL DEF Spec, Init

(* Whatever happens between the reads and the writes of finalizeTickets, a   *)
(* SOLD ticket carries a payment that has been approved and that payment's   *)
(* buyer.                                                                    *)
THEOREM SoldToThePayer == Spec => []SoldTicketsBelongToThePayer
<1>1. ApprovalInv => SoldTicketsBelongToThePayer BY DEF ApprovalInv
<1> QED BY <1>1, ApprovalInvariant, PTL

(* Every refund and every APPROVE audit row rests on an approval.            *)
THEOREM ApprovalComesFirst == Spec => []DecisionsRestOnApproval
<1>1. ApprovalInv => DecisionsRestOnApproval BY DEF ApprovalInv
<1> QED BY <1>1, ApprovalInvariant, PTL

-----------------------------------------------------------------------------
(* Automatic approvals *)

(* The amount earns 40, 20, 10 or no points, by how far it is off. *)
LEMMA AmountCounts ==
    ASSUME NEW a \in Amounts \cup {Unread}
    PROVE  /\ AmountScore(a) \in {0, 10, 20, 40}
           /\ AmountScore(a) = 40 <=> a # Unread /\ a \in (Due - 99)..(Due + 99)
           /\ AmountScore(a) \in {20, 40} <=>
                 \/ AmountScore(a) = 40
                 \/ 95 * Due < 100 * a /\ 100 * a < 105 * Due
           /\ AmountScore(a) = 20 => a # Unread
<1>1. a \in Nat /\ Due \in Nat /\ Due # 0 BY AmountsAssumption DEF Unread
<1> QED BY <1>1 DEF AmountScore, Exact, Near, Distance, Unread

(* What is extracted from a slip has the parts the score looks at. *)
LEMMA ExtractsType ==
    ASSUME NEW e \in Extracts
    PROVE  e.qr \in BOOLEAN /\ e.ref \in BOOLEAN /\ e.amount \in Amounts \cup {Unread}
<1>1. PICK qr \in QrCodes, text \in Texts : e = Extract(qr, text) BY DEF Extracts
<1>2. qr.data \in BOOLEAN /\ qr.ref \in BOOLEAN
  <2>1. CASE qr = NoQr BY <2>1 DEF NoQr
  <2>2. CASE qr # NoQr
    <3>1. qr \in [data : {TRUE}, url : BOOLEAN, ref : BOOLEAN, provider : Providers]
      BY <2>2 DEF QrCodes
    <3>2. qr.data = TRUE /\ qr.ref \in BOOLEAN BY <3>1
    <3> QED BY <3>2
  <2> QED BY <2>1, <2>2
<1>3. text.ref \in BOOLEAN /\ text.amount \in Amounts \cup {Unread} BY DEF Texts
<1> QED BY <1>1, <1>2, <1>3 DEF Extract

(* The sums that reach 70 are those of the evidence, and no others.          *)
LEMMA ScoreIsEvidence ==
    ASSUME NEW e \in Extracts
    PROVE  Score(e) >= 70 <=> Evidence(e)
<1> DEFINE a == e.amount
           toTheBirr  == a # Unread /\ a \in (Due - 99)..(Due + 99)
           nearEnough == 95 * Due < 100 * a /\ 100 * a < 105 * Due
<1>1. a \in Amounts \cup {Unread} BY ExtractsType
<1>2. /\ AmountScore(a) \in {0, 10, 20, 40}
      /\ AmountScore(a) = 40 <=> toTheBirr
      /\ AmountScore(a) \in {20, 40} <=> AmountScore(a) = 40 \/ nearEnough
      /\ AmountScore(a) = 20 => a # Unread
  BY <1>1, AmountCounts
<1>3. Evidence(e) <=> \/ toTheBirr /\ (e.ref \/ (Known(e) /\ e.qr))
                      \/ nearEnough /\ e.ref /\ (Known(e) \/ e.qr)
                      \/ e.ref /\ Known(e) /\ e.qr
  BY DEF Evidence, Known
<1> HIDE DEF a, toTheBirr, nearEnough
<1>4. Score(e) >= 70 <=> \/ AmountScore(a) = 40 /\ (e.ref \/ (Known(e) /\ e.qr))
                         \/ AmountScore(a) = 20 /\ e.ref /\ (Known(e) \/ e.qr)
                         \/ e.ref /\ Known(e) /\ e.qr
  <2>1. CASE e.ref /\ Known(e) /\ e.qr BY <1>2, <2>1 DEF Score, Confident, a
  <2>2. CASE e.ref /\ ~(Known(e) /\ e.qr)
    <3>1. CASE AmountScore(a) \in {0, 10} BY <2>2, <3>1 DEF Score, Confident, a
    <3>2. CASE AmountScore(a) = 20 BY <1>2, <2>2, <3>2 DEF Score, Confident, a
    <3>3. CASE AmountScore(a) = 40 BY <1>2, <2>2, <3>3 DEF Score, Confident, a
    <3> QED BY <1>2, <3>1, <3>2, <3>3
  <2>3. CASE ~e.ref BY <1>2, <2>3 DEF Score, Confident, a
  <2> QED BY <2>1, <2>2, <2>3
<1>5. CASE AmountScore(a) = 40 BY <1>2, <1>3, <1>4, <1>5
<1>6. CASE AmountScore(a) # 40 BY <1>2, <1>3, <1>4, <1>6
<1> QED BY <1>5, <1>6

(* No combination of what is read and answered is misjudged.                 *)
LEMMA NothingIsMisjudged == Misjudged = {}
<1> SUFFICES ASSUME NEW e \in Extracts, NEW bank \in BankAnswers, NEW page \in PageAnswers
             PROVE  Verdict(e, bank, page) = "AUTO" <=>
                      \/ Confirmed(e, bank, page)
                      \/ NobodyAnswers(e, bank, page) /\ Evidence(e)
  <2>1. ASSUME NEW e \in Misjudged PROVE FALSE
    <3>1. PICK bank \in BankAnswers, page \in PageAnswers :
            (Verdict(e, bank, page) = "AUTO") #
              (Confirmed(e, bank, page) \/ (NobodyAnswers(e, bank, page) /\ Evidence(e)))
      BY DEF Misjudged
    <3>2. e \in Extracts BY DEF Misjudged
    <3>3. Verdict(e, bank, page) = "AUTO" <=>
            Confirmed(e, bank, page) \/ (NobodyAnswers(e, bank, page) /\ Evidence(e))
      BY <3>2
    <3>4. Confirmed(e, bank, page) \in BOOLEAN BY DEF Confirmed
    <3>5. (Confirmed(e, bank, page) \/ (NobodyAnswers(e, bank, page) /\ Evidence(e)))
            \in BOOLEAN
      BY <3>4
    <3> QED BY <3>1, <3>3, <3>5
  <2> QED BY <2>1
<1>1. OnlineVerdict(e, bank, page) = "AUTO" <=> Confirmed(e, bank, page)
  BY DEF OnlineVerdict, BankVerdict, PageVerdict, Confirmed
<1>2. OnlineVerdict(e, bank, page) = "none" <=> NobodyAnswers(e, bank, page)
  BY DEF OnlineVerdict, BankVerdict, PageVerdict, AsksBank, BankAnswers, PageAnswers,
     NobodyAnswers
<1>3. HeuristicVerdict(e) = "AUTO" <=> Evidence(e)
  BY ScoreIsEvidence DEF HeuristicVerdict
<1>4. CASE OnlineVerdict(e, bank, page) = "none"
  <2>1. Verdict(e, bank, page) = HeuristicVerdict(e) BY <1>4 DEF Verdict
  <2> QED BY <1>1, <1>2, <1>3, <1>4, <2>1
<1>5. CASE OnlineVerdict(e, bank, page) # "none"
  <2>1. Verdict(e, bank, page) = OnlineVerdict(e, bank, page) BY <1>5 DEF Verdict
  <2> QED BY <1>1, <1>2, <1>5, <2>1
<1> QED BY <1>4, <1>5

(* A payment is approved automatically when the bank or the receipt's page   *)
(* confirms it, or neither answers and the slip carries the evidence, and    *)
(* not otherwise, whatever is due and whatever is read.                      *)
THEOREM ApprovalTakesEvidence == Spec => []VerdictsFollowTheEvidence
<1>1. VerdictsFollowTheEvidence BY NothingIsMisjudged DEF VerdictsFollowTheEvidence
<1> QED BY <1>1, PTL

-----------------------------------------------------------------------------
(* The expiry job *)

(* How a slot comes to the statements of reserveTickets, of a rejection, of  *)
(* a deletion and of the creation of a payment.                              *)
LEMMA HowTasksMove ==
    ASSUME TypeOK, NEW q \in Tasks, Begin(q) \/ Continue(q) \/ ExpireRead(q) \/ Fail(q)
    PROVE  /\ \A other \in Tasks : other # q => task'[other] = task[other]
           /\ task'[q].pc = "reserve_tx" => ReserveRead(q)
           /\ task'[q].pc = "reserve_write" => SelectManually(q)
           /\ task'[q].pc = "reject_write" => RejectRead(q)
           /\ task'[q].pc = "reject_release" => RejectWrite(q)
           /\ task'[q].pc = "delete_write" => DeleteRead(q)
           /\ task'[q].pc = "pay_create" => InitiateRead(q)
           /\ task'[q].pc \notin {"import_create", "bulk_create"}
<1> DEFINE Rests == \A other \in Tasks : other # q => task'[other] = task[other]
           Listed == {"reserve_tx", "reserve_write", "reject_write", "reject_release",
                      "delete_write", "pay_create", "import_create", "bulk_create"}
<1>0. task \in [Tasks -> TaskRow] /\ task[q] \in TaskLocals BY DEF TypeOK, TaskRow
<1>1. CASE ReserveRead(q) \/ CancelRequest(q) \/ InitiateRead(q) \/ UploadRead(q) \/ CloseRead(q)
  <2>1. CASE ReserveRead(q)
    <3>1. task'[q].pc = "reserve_tx" /\ Rests
      BY <1>0, <2>1 DEF ReserveRead, Run, Idle
    <3> QED BY <2>1, <3>1
  <2>2. CASE CancelRequest(q)
    <3>1. task'[q].pc = "cancel_tx" /\ Rests
      BY <1>0, <2>2 DEF CancelRequest, Run, Idle
    <3> QED BY <3>1
  <2>3. CASE InitiateRead(q)
    <3>1. task'[q].pc = "pay_create" /\ Rests
      BY <1>0, <2>3 DEF InitiateRead, Run, Idle
    <3> QED BY <2>3, <3>1
  <2>4. CASE UploadRead(q)
    <3>1. task'[q].pc = "dup_check" /\ Rests
      BY <1>0, <2>4 DEF UploadRead, Run, Idle
    <3> QED BY <3>1
  <2>5. CASE CloseRead(q)
    <3>1. task'[q].pc = "close_write" /\ Rests
      BY <1>0, <2>5 DEF CloseRead, Run, Idle
    <3> QED BY <3>1
  <2> QED BY <1>1, <2>1, <2>2, <2>3, <2>4, <2>5
<1>2. ASSUME NEW op, NEW pc, NEW p \in Pays, Review(q, op, pc, p)
      PROVE  task'[q].pc = pc /\ Rests
  BY <1>0, <1>2 DEF Review, Run, Idle
<1>3. CASE ApproveRead(q) \/ UnderReviewRead(q) \/ RefundRead(q) \/ RestoreRead(q)
  <2>1. task'[q].pc \notin Listed /\ Rests
    BY <1>2, <1>3 DEF ApproveRead, UnderReviewRead, RefundRead, RestoreRead
  <2> QED BY <2>1
<1>4. CASE RejectRead(q) \/ DeleteRead(q)
  <2>1. CASE RejectRead(q)
    <3>1. task'[q].pc = "reject_write" /\ Rests BY <1>2, <2>1 DEF RejectRead
    <3> QED BY <2>1, <3>1
  <2>2. CASE DeleteRead(q)
    <3>1. task'[q].pc = "delete_write" /\ Rests BY <1>2, <2>2 DEF DeleteRead
    <3> QED BY <2>2, <3>1
  <2> QED BY <1>4, <2>1, <2>2
<1>5. CASE ExpireRead(q) \/ Fail(q)
  <2>1. CASE ExpireRead(q)
    <3>1. task'[q].pc \in {"idle", "cancel_read"} /\ Rests
      BY <1>0, <2>1 DEF ExpireRead, Run, Idle
    <3> QED BY <3>1
  <2>2. CASE Fail(q)
    <3>1. task'[q].pc = "idle" /\ Rests
      BY <2>2, RunWrites DEF Fail, ReserveCommitFails, Throws, Idle
    <3> QED BY <3>1
  <2> QED BY <1>5, <2>1, <2>2
<1>6. CASE \/ ReserveManually(q) \/ ReserveRandomly(q) \/ ReserveRefused(q) \/ CancelRead(q)
           \/ CancelTx(q) \/ ConfirmTx(q) \/ CreatePaymentRefused(q) \/ WriteAudit(q)
           \/ RefundWrite(q) \/ UnderReviewWrite(q) \/ DeleteWrite(q) \/ RestoreWrite(q)
           \/ CloseWrite(q) \/ DuplicateSlipCheck(q) \/ StoreVerdict(q) \/ ApproveWrite(q)
           \/ RejectRelease(q) \/ FinalizeTx(q) \/ ConfirmRead(q)
  <2>1. \/ Return(q) \/ Run(q, Idle)
        \/ \E pc \in Pcs \ Listed : Goto(q, pc)
    <3>1. {"cancel_tx", "slip_tx", "finalize_read", "reject_audit", "approve_audit",
           "cancel_read", "confirm_tx"} \subseteq Pcs \ Listed
      BY DEF Pcs
    <3> HIDE DEF Listed
    <3>2. CASE ReserveManually(q) \/ ReserveRandomly(q) \/ ReserveRefused(q)
      BY <3>2 DEF ReserveManually, ReserveRandomly, StoreReservation, ReserveRefused
    <3>3. CASE CancelRead(q) \/ CancelTx(q) \/ ConfirmTx(q) \/ ConfirmRead(q)
      BY <3>1, <3>3 DEF CancelRead, CancelTx, ConfirmTx, ConfirmRead
    <3>4. CASE DuplicateSlipCheck(q) \/ StoreVerdict(q) \/ ApproveWrite(q)
               \/ RejectRelease(q) \/ FinalizeTx(q)
      BY <3>1, <3>4 DEF DuplicateSlipCheck, StoreVerdict, ApproveWrite, RejectRelease,
         FinalizeTx
    <3>5. CASE \/ CreatePaymentRefused(q) \/ WriteAudit(q) \/ RefundWrite(q)
               \/ UnderReviewWrite(q) \/ DeleteWrite(q) \/ RestoreWrite(q) \/ CloseWrite(q)
      BY <3>5 DEF CreatePaymentRefused, WriteAudit, RefundWrite, UnderReviewWrite,
         DeleteWrite, RestoreWrite, CloseWrite
    <3> QED BY <1>6, <3>2, <3>3, <3>4, <3>5
  <2>2. task'[q].pc \notin Listed /\ Rests
    BY <2>1, RunWrites, ReturnWrites, GotoWrites DEF Idle
  <2> QED BY <2>2
<1>7. CASE SelectManually(q) \/ RejectWrite(q)
  BY <1>7, GotoWrites DEF SelectManually, RejectWrite
<1>8. CASE FinalizeRead(q) \/ CreatePayment(q) \/ StoreSlip(q) \/ VerifySlip(q)
  <2>1. CASE FinalizeRead(q)
    <3>1. PICK b, n : Run(q, [task[q] EXCEPT !.pc = "finalize_tx", !.buyer = b, !.count = n]) BY <2>1 DEF FinalizeRead
    <3>2. task'[q] = [task[q] EXCEPT !.pc = "finalize_tx", !.buyer = b, !.count = n] /\ Rests BY <3>1, RunWrites
    <3>3. task'[q].pc = "finalize_tx" BY <1>0, <3>2 DEF TaskLocals
    <3> QED BY <3>2, <3>3
  <2>2. CASE CreatePayment(q)
    <3>1. PICK p \in Pays : Run(q, [task[q] EXCEPT !.pc = "confirm_read", !.pay = p]) BY <2>2 DEF CreatePayment
    <3>2. task'[q] = [task[q] EXCEPT !.pc = "confirm_read", !.pay = p] /\ Rests BY <3>1, RunWrites
    <3>3. task'[q].pc = "confirm_read" BY <1>0, <3>2 DEF TaskLocals
    <3> QED BY <3>2, <3>3
  <2>3. CASE StoreSlip(q)
    <3>2. task'[q] = [task[q] EXCEPT !.op = "verify", !.pc = "verify"] /\ Rests
      BY <2>3, RunWrites DEF StoreSlip
    <3>3. task'[q].pc = "verify" BY <1>0, <3>2 DEF TaskLocals
    <3> QED BY <3>2, <3>3
  <2>4. CASE VerifySlip(q)
    <3>1. PICK v : Run(q, [task[q] EXCEPT !.pc = "verdict", !.verdict = v]) BY <2>4 DEF VerifySlip
    <3>2. task'[q] = [task[q] EXCEPT !.pc = "verdict", !.verdict = v] /\ Rests BY <3>1, RunWrites
    <3>3. task'[q].pc = "verdict" BY <1>0, <3>2 DEF TaskLocals
    <3> QED BY <3>2, <3>3
  <2> QED BY <1>8, <2>1, <2>2, <2>3, <2>4
<1> QED BY <1>1, <1>3, <1>4, <1>5, <1>6, <1>7, <1>8 DEF Begin, Continue

(* The job of a reservation that exists runs no earlier than the reservation *)
(* expires, and is not done before the reservation is settled.               *)
JobAwaits(r) ==
    resv[r].exists =>
        /\ job[r].state # "none" /\ resv[r].exp <= job[r].due
        /\ OpenResv(r) => job[r].state # "done"

(* expiresAt lies in the future of the moment it was computed at.            *)
ExpiryIsSoon(q) ==
    task[q].pc \in {"reserve_tx", "reserve_write"} => task[q].exp <= now + HoldTime

(* The inductive invariant.  ExpiryJobOutlivesTheHold alone is not           *)
(* inductive: a job that failed for good might be delayed again, and the     *)
(* expiry a request computed before its transaction must not lie beyond the  *)
(* delay the job is given within it.                                         *)
JobInv ==
    /\ \A r \in Resvs : JobAwaits(r)
    /\ \A q \in Tasks : ExpiryIsSoon(q)

(* What a step may do to a reservation that exists and to its job. *)
JobIsKept(r) ==
    /\ resv'[r].exists = resv[r].exists
    /\ resv[r].exists =>
         /\ resv'[r].exp = resv[r].exp
         /\ OpenResv(r)' => OpenResv(r)
         /\ job'[r].due = job[r].due
         /\ job'[r].state = "none" => job[r].state = "none"
         /\ job'[r].state = "done" => job[r].state = "done" \/ ~OpenResv(r)'

LEMMA SettlingKeepsJobs ==
    ASSUME TypeOK, NEW q \in Tasks,
           CancelRead(q) \/ CancelTx(q) \/ ConfirmRead(q) \/ ConfirmTx(q)
    PROVE  \A r \in Resvs : JobIsKept(r)
<1>1. ASSUME NEW r \in Resvs, Return(q)
      PROVE  /\ job'[r].due = job[r].due
             /\ job'[r].state = "none" => job[r].state = "none"
             /\ job'[r].state = "done" => job[r].state = "done" \/ task[q].resv = r
  BY <1>1 DEF Return, TypeOK, JobRow
<1>2. CASE CancelRead(q) \/ ConfirmRead(q)
  <2>1. UNCHANGED resv BY <1>2 DEF CancelRead, ConfirmRead, rows
  <2>2. UNCHANGED job \/ (Return(q) /\ ~OpenResv(task[q].resv))
    BY <1>2 DEF CancelRead, ConfirmRead, OpenResv
  <2>3. \A r \in Resvs : OpenResv(r)' <=> OpenResv(r) BY <2>1 DEF OpenResv
  <2>4. CASE UNCHANGED job BY <2>1, <2>3, <2>4 DEF JobIsKept
  <2>5. CASE Return(q) /\ ~OpenResv(task[q].resv)
    BY <1>1, <2>1, <2>3, <2>5 DEF JobIsKept
  <2> QED BY <2>2, <2>4, <2>5
<1>4. CASE CancelTx(q) \/ ConfirmTx(q)
  <2>1. Return(q) BY <1>4 DEF CancelTx, ConfirmTx
  <2>2. ASSUME NEW r \in Resvs
        PROVE  /\ resv'[r].exists = resv[r].exists /\ resv'[r].exp = resv[r].exp
               /\ OpenResv(r)' => OpenResv(r) /\ task[q].resv # r
    BY <1>4 DEF CancelTx, ConfirmTx, TypeOK, ResvRow, OpenResv
  <2> QED BY <1>1, <2>1, <2>2 DEF JobIsKept
<1> QED BY <1>2, <1>4

LEMMA QueueKeepsJobs ==
    ASSUME TypeOK, JobInv,
           Crash \/ \E q \in Tasks : ExpireRead(q) \/ Fail(q)
    PROVE  \A r \in Resvs : JobIsKept(r)
<1>1. CASE Crash
  BY <1>1 DEF Crash, rows, TypeOK, JobRow, JobIsKept, OpenResv
<1>2. ASSUME NEW q \in Tasks, ExpireRead(q) PROVE \A r \in Resvs : JobIsKept(r)
  <2>1. PICK r \in Resvs :
          /\ job[r].state = "delayed" /\ job[r].due <= now
          /\ job' = [job EXCEPT ![r].state = IF OpenResv(r) /\ resv[r].exp <= now
                                             THEN "active" ELSE "done"]
    BY <1>2 DEF ExpireRead
  <2>2. UNCHANGED resv BY <1>2 DEF ExpireRead, rows
  <2>3. OpenResv(r) => resv[r].exp <= now
    <3>1. JobAwaits(r) BY DEF JobInv
    <3>2. resv[r].exp \in Nat /\ job[r].due \in Nat /\ now \in Nat
      BY DEF TypeOK, ResvRow, JobRow
    <3> QED BY <2>1, <3>1, <3>2 DEF JobAwaits, OpenResv
  <2>4. ASSUME NEW s \in Resvs, s # r PROVE job'[s] = job[s]
    BY <2>1, <2>4 DEF TypeOK
  <2>5. /\ job'[r].due = job[r].due
        /\ job'[r].state = IF OpenResv(r) /\ resv[r].exp <= now THEN "active" ELSE "done"
    BY <2>1 DEF TypeOK, JobRow
  <2>6. \A s \in Resvs : OpenResv(s)' <=> OpenResv(s) BY <2>2 DEF OpenResv
  <2> QED BY <2>2, <2>3, <2>4, <2>5, <2>6 DEF JobIsKept
<1>3. ASSUME NEW q \in Tasks, ReserveCommitFails(q) PROVE \A r \in Resvs : JobIsKept(r)
  <2>1. PICK r \in Resvs : ~resv[r].exists /\ job' = [job EXCEPT ![r] = ExpiryJob]
    BY <1>3 DEF ReserveCommitFails
  <2>2. UNCHANGED resv BY <1>3 DEF ReserveCommitFails, rows
  <2>3. \A s \in Resvs : s # r => job'[s] = job[s] BY <2>1 DEF TypeOK
  <2> QED BY <2>1, <2>2, <2>3 DEF JobIsKept, OpenResv
<1>4. ASSUME NEW q \in Tasks, Throws(q) PROVE \A r \in Resvs : JobIsKept(r)
  <2>1. UNCHANGED resv BY <1>4 DEF Throws, rows
  <2>2. ASSUME NEW r \in Resvs
        PROVE  job'[r] = job[r] \/ job'[r] = AfterThrow(job[r])
    BY <1>4 DEF Throws, TypeOK
  <2>3. ASSUME NEW j \in JobRow
        PROVE  AfterThrow(j).due = j.due /\ AfterThrow(j).state \in {"delayed", "failed"}
    BY DEF AfterThrow, JobRow
  <2> QED BY <2>1, <2>2, <2>3 DEF JobIsKept, OpenResv, TypeOK
<1> QED BY <1>1, <1>2, <1>3, <1>4 DEF Fail

(* Only the steps above, and a new reservation, concern reservations and jobs. *)
LEMMA OthersKeepJobs ==
    ASSUME NEW q \in Tasks,
           \/ Begin(q)
           \/ SelectManually(q) \/ ReserveRefused(q) \/ FinalizeRead(q) \/ FinalizeTx(q)
           \/ CreatePayment(q) \/ CreatePaymentRefused(q) \/ DuplicateSlipCheck(q)
           \/ StoreSlip(q) \/ VerifySlip(q) \/ StoreVerdict(q) \/ ApproveWrite(q)
           \/ RejectWrite(q) \/ RejectRelease(q) \/ WriteAudit(q) \/ RefundWrite(q)
           \/ UnderReviewWrite(q) \/ DeleteWrite(q) \/ RestoreWrite(q) \/ CloseWrite(q)
    PROVE  UNCHANGED <<resv, job>>
<1>1. CASE Begin(q)
  BY <1>1 DEF Begin, ReserveRead, CancelRequest, InitiateRead, UploadRead, ApproveRead,
     RejectRead, RefundRead, UnderReviewRead, DeleteRead, RestoreRead, CloseRead,
     Review, rows
<1>2. CASE SelectManually(q) \/ ReserveRefused(q) \/ FinalizeRead(q) \/ FinalizeTx(q)
           \/ CreatePayment(q) \/ CreatePaymentRefused(q) \/ DuplicateSlipCheck(q)
           \/ StoreSlip(q) \/ VerifySlip(q) \/ StoreVerdict(q)
  BY <1>2 DEF SelectManually, ReserveRefused, FinalizeRead, FinalizeTx, CreatePayment,
     CreatePaymentRefused, DuplicateSlipCheck, StoreSlip, VerifySlip, StoreVerdict, rows
<1>3. CASE ApproveWrite(q) \/ RejectWrite(q) \/ RejectRelease(q) \/ WriteAudit(q)
           \/ RefundWrite(q) \/ UnderReviewWrite(q) \/ DeleteWrite(q) \/ RestoreWrite(q)
           \/ CloseWrite(q)
  BY <1>3 DEF ApproveWrite, RejectWrite, RejectRelease, WriteAudit, RefundWrite,
     UnderReviewWrite, DeleteWrite, RestoreWrite, CloseWrite
<1> QED BY <1>1, <1>2, <1>3

LEMMA JobKeptAwaits ==
    ASSUME JobInv, NEW r \in Resvs, JobIsKept(r) PROVE JobAwaits(r)'
<1>1. JobAwaits(r) BY DEF JobInv
<1> QED BY <1>1 DEF JobIsKept, JobAwaits, OpenResv

LEMMA JobsStep == ASSUME TypeOK, JobInv, [Next]_vars PROVE \A r \in Resvs : JobAwaits(r)'
<1>1. CASE \A r \in Resvs : JobIsKept(r) BY <1>1, JobKeptAwaits
<1>2. CASE UNCHANGED <<resv, job>>
  BY <1>1, <1>2 DEF JobIsKept, OpenResv
<1>3. ASSUME NEW q \in Tasks, NEW chosen, StoreReservation(q, chosen),
             task[q].pc \in {"reserve_tx", "reserve_write"}
      PROVE  \A r \in Resvs : JobAwaits(r)'
  <2>1. PICK r \in Resvs :
          /\ resv' = [resv EXCEPT ![r] =
                        [exists |-> TRUE, cancelled |-> FALSE, confirmed |-> FALSE,
                         key |-> task[q].key, qty |-> task[q].qty,
                         exp |-> task[q].exp]]
          /\ job' = [job EXCEPT ![r] = ExpiryJob]
    BY <1>3 DEF StoreReservation
  <2>2. ASSUME NEW s \in Resvs, s # r PROVE JobAwaits(s)'
    <3>1. resv'[s] = resv[s] /\ job'[s] = job[s] BY <2>1, <2>2 DEF TypeOK
    <3> QED BY <3>1 DEF JobInv, JobAwaits, OpenResv
  <2>3. JobAwaits(r)'
    <3>1. task[q].exp <= now + HoldTime BY <1>3 DEF JobInv, ExpiryIsSoon
    <3>2. resv'[r].exp = task[q].exp /\ job'[r] = ExpiryJob BY <2>1 DEF TypeOK
    <3> QED BY <3>1, <3>2 DEF JobAwaits, ExpiryJob
  <2> QED BY <2>2, <2>3
<1>4. ASSUME NEW q \in Tasks, Continue(q) PROVE \A r \in Resvs : JobAwaits(r)'
  <2>1. CASE ReserveManually(q) \/ ReserveRandomly(q)
    BY <1>3, <2>1 DEF ReserveManually, ReserveRandomly
  <2>2. CASE CancelRead(q) \/ CancelTx(q) \/ ConfirmRead(q) \/ ConfirmTx(q)
    BY <1>1, <2>2, SettlingKeepsJobs
  <2> QED BY <1>2, <1>4, <2>1, <2>2, OthersKeepJobs DEF Continue
<1>5. CASE Crash \/ \E q \in Tasks : ExpireRead(q) \/ Fail(q)
  BY <1>1, <1>5, QueueKeepsJobs
<1>6. CASE Tick \/ UNCHANGED vars
  BY <1>2, <1>6 DEF Tick, rows, vars
<1>7. ASSUME NEW q \in Tasks, Begin(q) PROVE \A r \in Resvs : JobAwaits(r)'
  BY <1>2, <1>7, OthersKeepJobs
<1> QED BY <1>4, <1>5, <1>6, <1>7 DEF Next

(* Time does not go back. *)
LEMMA TimePasses == ASSUME TypeOK, [Next]_vars PROVE now <= now' /\ now' \in Nat
<1>0. now \in Nat BY DEF TypeOK
<1>1. now' \in {now, now + 1}
  <2>1. ASSUME NEW q \in Tasks, Begin(q) PROVE UNCHANGED now
    BY <2>1 DEF Begin, ReserveRead, CancelRequest, InitiateRead, UploadRead, ApproveRead,
       RejectRead, RefundRead, UnderReviewRead, DeleteRead, RestoreRead, CloseRead,
       Review, env
  <2>2. ASSUME NEW q \in Tasks, Continue(q) PROVE UNCHANGED now
    BY <2>2 DEF Continue, SelectManually, ReserveManually, ReserveRandomly,
       StoreReservation, ReserveRefused, CancelRead, CancelTx, ConfirmRead, ConfirmTx,
       FinalizeRead, FinalizeTx, CreatePayment, CreatePaymentRefused,
       DuplicateSlipCheck, StoreSlip, VerifySlip, StoreVerdict, ApproveWrite,
       RejectWrite, RejectRelease, WriteAudit, RefundWrite, UnderReviewWrite,
       DeleteWrite, RestoreWrite, CloseWrite, env
  <2>3. ASSUME NEW q \in Tasks, ExpireRead(q) \/ Fail(q) PROVE UNCHANGED now
    BY <2>3 DEF ExpireRead, Fail, ReserveCommitFails, Throws, env
  <2>4. CASE Tick \/ Crash \/ UNCHANGED vars BY <2>4 DEF Tick, Crash, vars
  <2> QED BY <2>1, <2>2, <2>3, <2>4 DEF Next
<1> QED BY <1>0, <1>1

LEMMA ExpiryStep == ASSUME TypeOK, JobInv, [Next]_vars PROVE \A q \in Tasks : ExpiryIsSoon(q)'
<1>0. now <= now' /\ now \in Nat /\ now' \in Nat /\ HoldTime \in Nat
  BY TimePasses, StoreAssumption DEF TypeOK, StoreAssumption
<1>1. ASSUME NEW q \in Tasks, task'[q] = task[q] PROVE ExpiryIsSoon(q)'
  <2>1. ExpiryIsSoon(q) BY DEF JobInv
  <2>2. task[q].exp \in Nat BY LocalsType
  <2> QED BY <1>0, <1>1, <2>1, <2>2 DEF ExpiryIsSoon
<1>2. ASSUME NEW q \in Tasks, ReserveRead(q) PROVE ExpiryIsSoon(q)'
  <2>1. task'[q].exp = now + HoldTime
    BY <1>2 DEF ReserveRead, Run, Idle, TypeOK
  <2>2. \A a, b, c \in Nat : a <= b => a + c <= b + c OBVIOUS
  <2>3. now + HoldTime <= now' + HoldTime BY <1>0, <2>2
  <2> QED BY <2>1, <2>3 DEF ExpiryIsSoon
<1>3. ASSUME NEW q \in Tasks, SelectManually(q) PROVE ExpiryIsSoon(q)'
  <2>1. task'[q].exp = task[q].exp /\ task[q].pc = "reserve_tx" /\ UNCHANGED now
    BY <1>3 DEF SelectManually, Goto, TypeOK, TaskRow, TaskLocals, env
  <2>2. task[q].exp <= now + HoldTime BY <2>1 DEF JobInv, ExpiryIsSoon
  <2>3. task[q].exp \in Nat BY LocalsType
  <2>4. task'[q].exp <= now' + HoldTime BY <1>0, <2>1, <2>2, <2>3
  <2> QED BY <2>4 DEF ExpiryIsSoon
<1>4. ASSUME NEW q \in Tasks, Begin(q) \/ Continue(q) \/ ExpireRead(q) \/ Fail(q),
             NEW any \in Tasks
      PROVE  ExpiryIsSoon(any)'
  <2>1. CASE any # q BY <1>1, <1>4, <2>1, HowTasksMove
  <2>2. CASE any = q
    <3>1. task'[q].pc = "reserve_tx" => ReserveRead(q) BY <1>4, HowTasksMove
    <3>2. task'[q].pc = "reserve_write" => SelectManually(q) BY <1>4, HowTasksMove
    <3>3. CASE task'[q].pc \notin {"reserve_tx", "reserve_write"}
      BY <2>2, <3>3 DEF ExpiryIsSoon
    <3> QED BY <1>2, <1>3, <2>2, <3>1, <3>2, <3>3
  <2> QED BY <2>1, <2>2
<1>5. CASE Crash BY <1>5 DEF Crash, Idle, ExpiryIsSoon
<1>6. CASE Tick \/ UNCHANGED vars
  BY <1>1, <1>6 DEF Tick, vars
<1> QED BY <1>4, <1>5, <1>6 DEF Next

LEMMA JobStart == Start => JobInv
BY DEF Start, NoResv, Idle, JobInv, JobAwaits, ExpiryIsSoon

LEMMA JobInvariant == Spec => []JobInv
<1>1. ASSUME TypeOK, JobInv, [Next]_vars PROVE JobInv'
  BY <1>1, JobsStep, ExpiryStep DEF JobInv
<1> QED BY <1>1, JobStart, TypeCorrect, PTL DEF Spec, Init

LEMMA JobsAwaitTheHold == ASSUME TypeOK, JobInv PROVE ExpiryJobOutlivesTheHold
BY DEF TypeOK, JobRow, JobInv, JobAwaits, ExpiryJobOutlivesTheHold, OpenResv

(* No open reservation is left without a job: whatever throws, restarts or   *)
(* overtakes, the job waits or runs, and not before the reservation has      *)
(* expired, unless it has failed as often as it may.                         *)
THEOREM JobsOutliveTheHold == Spec => []ExpiryJobOutlivesTheHold
<1>1. TypeOK /\ JobInv => ExpiryJobOutlivesTheHold BY JobsAwaitTheHold
<1> QED BY <1>1, JobInvariant, TypeCorrect, PTL

-----------------------------------------------------------------------------
(* Who a payment is from, and whether it is deleted *)

(* A payment is created for a buyer the handler has found or created.        *)
BuyersKnown ==
    /\ \A p \in Pays : pay[p].exists => pay[p].buyer # null
    /\ \A q \in Tasks :
         task[q].pc \in {"pay_create", "import_create", "bulk_create"} =>
           task[q].buyer # null

(* When nobody calls softDeletePayment, no payment is deleted. *)
NothingDeleted ==
    /\ \A p \in Pays : ~pay[p].deleted
    /\ \A q \in Tasks : task[q].pc # "delete_write"

(* What a step of the sale does to the two columns. *)
LEMMA BuyersAndMarks ==
    ASSUME TypeOK, [Next]_vars
    PROVE  \/ /\ \A p \in Pays : pay'[p].exists = pay[p].exists /\ pay'[p].buyer = pay[p].buyer
              /\ \/ \A p \in Pays : pay'[p].deleted => pay[p].deleted
                 \/ \E q \in Tasks : DeleteWrite(q)
           \/ \E q \in Tasks, one \in Pays :
                /\ CreatePayment(q)
                /\ pay'[one].buyer = task[q].buyer /\ ~pay'[one].deleted
                /\ \A p \in Pays : p # one => pay'[p] = pay[p]
<1>1. ASSUME NEW q \in Tasks, Begin(q) \/ Continue(q) \/ ExpireRead(q) \/ Fail(q)
      PROVE  \/ UNCHANGED pay
             \/ /\ \A p \in Pays : /\ pay'[p].exists = pay[p].exists
                                   /\ pay'[p].buyer = pay[p].buyer
                                   /\ pay'[p].deleted => pay[p].deleted \/ DeleteWrite(q)
             \/ \E one \in Pays :
                  /\ CreatePayment(q)
                  /\ pay'[one].buyer = task[q].buyer /\ ~pay'[one].deleted
                  /\ \A p \in Pays : p # one => pay'[p] = pay[p]
  BY <1>1, OthersKeepPayments, ReviewColumns, CreationColumns DEF Continue
<1>2. CASE Tick \/ Crash \/ UNCHANGED vars
  <2>1. UNCHANGED pay BY <1>2 DEF Tick, Crash, rows, vars
  <2> QED BY <2>1
<1> QED BY <1>1, <1>2 DEF Next

LEMMA BuyersKnownStep == ASSUME TypeOK, BuyersKnown, [Next]_vars PROVE BuyersKnown'
<1>1. \A p \in Pays : pay'[p].exists => pay'[p].buyer # null
  BY BuyersAndMarks DEF BuyersKnown, CreatePayment
<1> DEFINE Named(q) == task[q].pc \in {"pay_create", "import_create", "bulk_create"} =>
                         task[q].buyer # null
<1>2. ASSUME NEW q \in Tasks, Begin(q) \/ Continue(q) \/ ExpireRead(q) \/ Fail(q),
             NEW any \in Tasks
      PROVE  Named(any)'
  <2>1. InitiateRead(q) => task'[q].buyer # null
    BY StoreAssumption DEF InitiateRead, Run, Idle, TypeOK, StoreAssumption
  <2> QED BY <1>2, <2>1, HowTasksMove DEF BuyersKnown
<1>3. ASSUME NEW any \in Tasks, Tick \/ Crash \/ UNCHANGED vars PROVE Named(any)'
  BY <1>3 DEF Tick, Crash, vars, Idle, BuyersKnown
<1> QED BY <1>1, <1>2, <1>3 DEF Next, BuyersKnown

LEMMA DeletionStep ==
    ASSUME TypeOK, NothingDeleted, "delete" \notin Ops, [Next]_vars PROVE NothingDeleted'
<1>1. \A q \in Tasks : ~DeleteWrite(q) /\ ~DeleteRead(q)
  BY DEF NothingDeleted, DeleteWrite, DeleteRead, Review, Arrives
<1>2. \A p \in Pays : ~pay'[p].deleted BY <1>1, BuyersAndMarks DEF NothingDeleted
<1>3. ASSUME NEW q \in Tasks, Begin(q) \/ Continue(q) \/ ExpireRead(q) \/ Fail(q),
             NEW any \in Tasks
      PROVE  task'[any].pc # "delete_write"
  BY <1>1, <1>3, HowTasksMove DEF NothingDeleted
<1>4. ASSUME NEW any \in Tasks, Tick \/ Crash \/ UNCHANGED vars
      PROVE  task'[any].pc # "delete_write"
  BY <1>4 DEF Tick, Crash, vars, Idle, NothingDeleted
<1> QED BY <1>2, <1>3, <1>4 DEF Next, NothingDeleted

LEMMA BuyersKnownStart == Start => BuyersKnown /\ NothingDeleted
BY DEF Start, NoPay, Idle, BuyersKnown, NothingDeleted

-----------------------------------------------------------------------------
(* Random selection *)

(* When clients leave the choice to the backend, no handler ever stands      *)
(* between the SELECT and the update of a manual selection.                  *)
RandomTasks ==
    \A q \in Tasks : /\ task[q].pc # "reserve_write"
                     /\ task[q].pc = "reserve_tx" => task[q].tickets = {}

(* When nobody calls rejectPayment, no handler is inside it. *)
NoRejection == \A q \in Tasks : task[q].pc \notin {"reject_write", "reject_release"}

LEMMA RandomStep ==
    ASSUME TypeOK, RandomTasks, Selections = {{}}, [Next]_vars PROVE RandomTasks'
<1>1. ASSUME NEW q \in Tasks, Begin(q) \/ Continue(q) \/ ExpireRead(q) \/ Fail(q)
      PROVE  RandomTasks'
  <2>1. \A other \in Tasks : other # q => task'[other] = task[other]
    BY <1>1, HowTasksMove
  <2>2. task'[q].pc # "reserve_write"
    <3>1. ~SelectManually(q) BY DEF RandomTasks, SelectManually
    <3> QED BY <1>1, <3>1, HowTasksMove
  <2>3. task'[q].pc = "reserve_tx" => task'[q].tickets = {}
    <3>1. ReserveRead(q) => task'[q].tickets = {}
      BY DEF ReserveRead, Run, Idle, TypeOK
    <3> QED BY <1>1, <3>1, HowTasksMove
  <2> QED BY <2>1, <2>2, <2>3 DEF RandomTasks
<1>2. CASE Crash BY <1>2 DEF Crash, Idle, RandomTasks
<1>3. CASE Tick \/ UNCHANGED vars
  <2>1. UNCHANGED task BY <1>3 DEF Tick, vars
  <2> QED BY <2>1 DEF RandomTasks
<1> QED BY <1>1, <1>2, <1>3 DEF Next

LEMMA RejectionStep ==
    ASSUME TypeOK, NoRejection, "reject" \notin Ops, [Next]_vars PROVE NoRejection'
<1>1. ASSUME NEW q \in Tasks, Begin(q) \/ Continue(q) \/ ExpireRead(q) \/ Fail(q)
      PROVE  NoRejection'
  <2>1. \A other \in Tasks : other # q => task'[other] = task[other]
    BY <1>1, HowTasksMove
  <2>2. ~RejectRead(q) BY DEF RejectRead, Review, Arrives
  <2>3. ~RejectWrite(q) BY DEF RejectWrite, NoRejection
  <2>4. task'[q].pc \notin {"reject_write", "reject_release"}
    BY <1>1, <2>2, <2>3, HowTasksMove
  <2> QED BY <2>1, <2>4 DEF NoRejection
<1>2. CASE Crash BY <1>2 DEF Crash, Idle, NoRejection
<1>3. CASE Tick \/ UNCHANGED vars
  <2>1. UNCHANGED task BY <1>3 DEF Tick, vars
  <2> QED BY <2>1 DEF NoRejection
<1> QED BY <1>1, <1>2, <1>3 DEF Next

(* What a step may do to the status and the reservation of a ticket. *)
LEMMA TicketMoves ==
    ASSUME TypeOK, RandomTasks, [Next]_vars, NEW t \in Tickets
    PROVE  \/ ticket'[t].status = ticket[t].status /\ ticket'[t].resv = ticket[t].resv
           \/ ticket[t].status = "AVAILABLE"
           \/ ticket'[t].status # "RESERVED"
<1>1. CASE UNCHANGED ticket BY <1>1
<1>2. ASSUME NEW q \in Tasks, ReserveManually(q) \/ ReserveRandomly(q)
      PROVE  ticket'[t] = ticket[t] \/ ticket[t].status = "AVAILABLE"
  <2>1. PICK chosen \in SUBSET Available : StoreReservation(q, chosen)
    BY <1>2 DEF ReserveManually, RandomTasks, ReserveRandomly, Selectable
  <2>2. t \notin chosen => ticket'[t] = ticket[t] BY <2>1 DEF StoreReservation
  <2> QED BY <2>1, <2>2 DEF Available
<1>3. ASSUME NEW q \in Tasks,
             CancelTx(q) \/ ConfirmTx(q) \/ FinalizeTx(q) \/ RejectRelease(q)
      PROVE  ticket'[t] = ticket[t] \/ ticket'[t].status # "RESERVED"
  <2>1. CASE CancelTx(q) BY <2>1 DEF CancelTx, Released, TypeOK, TicketRow
  <2>2. CASE ConfirmTx(q) BY <2>2 DEF ConfirmTx, Awaiting, TypeOK, TicketRow
  <2>3. CASE FinalizeTx(q) BY <2>3 DEF FinalizeTx, SoldTo, TypeOK, TicketRow
  <2>4. CASE RejectRelease(q) BY <2>4 DEF RejectRelease, NewTicket
  <2> QED BY <1>3, <2>1, <2>2, <2>3, <2>4
<1>4. ASSUME NEW q \in Tasks, Begin(q) \/ Continue(q) \/ ExpireRead(q) \/ Fail(q)
      PROVE  \/ ticket'[t] = ticket[t]
             \/ ticket[t].status = "AVAILABLE"
             \/ ticket'[t].status # "RESERVED"
  BY <1>2, <1>3, <1>4, OthersKeepHolds DEF Continue
<1>5. CASE Tick \/ Crash \/ UNCHANGED vars
  BY <1>1, <1>5 DEF Tick, Crash, rows, vars
<1> QED BY <1>4, <1>5 DEF Next

LEMMA RandomStart == Start => RandomTasks
BY DEF Start, Idle, RandomTasks

(* A random selection never takes a ticket that another reservation holds,   *)
(* whatever else happens at the same time: FOR UPDATE SKIP LOCKED leaves no  *)
(* room between the SELECT and the update.                                   *)
THEOREM RandomSelectionTakesNothing ==
    ASSUME Selections = {{}} PROVE Spec => ReservedTicketIsNotTaken
<1> DEFINE NotTaken ==
             \A t \in Tickets :
               ticket[t].status = "RESERVED" /\ ticket'[t].status = "RESERVED" =>
                 ticket'[t].resv = ticket[t].resv
<1>1. Init => RandomTasks BY RandomStart DEF Init
<1>2. TypeOK /\ RandomTasks /\ [Next]_vars => RandomTasks' BY RandomStep
<1>3. TypeOK /\ RandomTasks /\ [Next]_vars => [NotTaken]_vars BY TicketMoves
<1> QED BY <1>1, <1>2, <1>3, TypeCorrect, PTL DEF Spec, ReservedTicketIsNotTaken

-----------------------------------------------------------------------------
(* An open reservation holds what it will be charged for *)

(* An available ticket refers to no reservation. *)
AvailableIsFree == \A t \in Tickets : ticket[t].status = "AVAILABLE" => ticket[t].resv = null

LEMMA AvailableStep ==
    ASSUME TypeOK, AvailableIsFree, [Next]_vars PROVE AvailableIsFree'
<1>1. CASE UNCHANGED ticket BY <1>1 DEF AvailableIsFree
<1>2. ASSUME NEW q \in Tasks, NEW chosen, StoreReservation(q, chosen), NEW t \in Tickets
      PROVE  ticket'[t] = ticket[t] \/ ticket'[t].status # "AVAILABLE"
  <2>1. PICK r \in Resvs :
          ticket' = [s \in Tickets |->
                       IF s \in chosen
                       THEN [ticket[s] EXCEPT !.status = "RESERVED", !.resv = r]
                       ELSE ticket[s]]
    BY <1>2 DEF StoreReservation
  <2> QED BY <2>1 DEF TypeOK, TicketRow
<1>3. ASSUME NEW q \in Tasks,
             CancelTx(q) \/ ConfirmTx(q) \/ FinalizeTx(q) \/ RejectRelease(q),
             NEW t \in Tickets
      PROVE  \/ ticket'[t] = ticket[t]
             \/ ticket'[t].status # "AVAILABLE"
             \/ ticket'[t].resv = null
  <2>1. CASE CancelTx(q) BY <2>1 DEF CancelTx, Released, TypeOK, TicketRow
  <2>2. CASE ConfirmTx(q) BY <2>2 DEF ConfirmTx, Awaiting, TypeOK, TicketRow
  <2>3. CASE FinalizeTx(q) BY <2>3 DEF FinalizeTx, SoldTo, TypeOK, TicketRow
  <2>4. CASE RejectRelease(q) BY <2>4 DEF RejectRelease, NewTicket
  <2> QED BY <1>3, <2>1, <2>2, <2>3, <2>4
<1>4. ASSUME NEW q \in Tasks, Continue(q) PROVE AvailableIsFree'
  <2>1. CASE ReserveManually(q) \/ ReserveRandomly(q)
    BY <1>2, <2>1 DEF ReserveManually, ReserveRandomly, AvailableIsFree
  <2>2. CASE CancelTx(q) \/ ConfirmTx(q) \/ FinalizeTx(q) \/ RejectRelease(q)
    BY <1>3, <2>2 DEF AvailableIsFree
  <2> QED BY <1>1, <1>4, <2>1, <2>2, OthersKeepHolds DEF Continue
<1>5. ASSUME NEW q \in Tasks, Begin(q) \/ ExpireRead(q) \/ Fail(q) PROVE AvailableIsFree'
  BY <1>1, <1>5, OthersKeepHolds
<1>6. CASE Tick \/ Crash \/ UNCHANGED vars
  BY <1>1, <1>6 DEF Tick, Crash, rows, vars
<1> QED BY <1>4, <1>5, <1>6 DEF Next

(* The inductive invariant.  The number alone is not inductive: it stays     *)
(* only because the tickets a selection takes belong to nobody and a ticket  *)
(* leaves an open reservation only with all the others.                      *)
QuantityInv ==
    /\ RandomTasks
    /\ NoRejection
    /\ AvailableIsFree
    /\ TicketsFollowTheirReservation
    /\ OpenReservationHoldsItsQuantity

(* A reservation whose tickets and quantity stay, and is not opened again.   *)
LEMMA SameHold ==
    ASSUME OpenReservationHoldsItsQuantity, NEW r \in Resvs,
           \A t \in Tickets : ticket'[t].resv = r <=> ticket[t].resv = r,
           OpenResv(r)' => OpenResv(r) /\ resv'[r].qty = resv[r].qty
    PROVE  OpenResv(r)' => Cardinality(HeldBy(r))' = resv'[r].qty
<1>1. HeldBy(r)' = HeldBy(r) BY DEF HeldBy
<1> QED BY <1>1 DEF OpenReservationHoldsItsQuantity

LEMMA NewHold ==
    ASSUME TypeOK, QuantityInv, NEW q \in Tasks, ReserveManually(q) \/ ReserveRandomly(q)
    PROVE  OpenReservationHoldsItsQuantity'
<1>1. PICK chosen \in SUBSET Available :
        StoreReservation(q, chosen) /\ Cardinality(chosen) = task[q].qty
  BY DEF QuantityInv, RandomTasks, ReserveManually, ReserveRandomly, Selectable
<1>2. PICK r \in Resvs :
        /\ ~resv[r].exists
        /\ resv' = [resv EXCEPT ![r] =
                      [exists |-> TRUE, cancelled |-> FALSE, confirmed |-> FALSE,
                       key |-> task[q].key, qty |-> task[q].qty,
                       exp |-> task[q].exp]]
        /\ ticket' = [t \in Tickets |->
                        IF t \in chosen
                        THEN [ticket[t] EXCEPT !.status = "RESERVED", !.resv = r]
                        ELSE ticket[t]]
  BY <1>1 DEF StoreReservation
<1>3. r # null /\ \A s \in Resvs : s # null BY StoreAssumption DEF StoreAssumption
<1>4. ASSUME NEW t \in Tickets
      PROVE  /\ t \in chosen => ticket'[t].resv = r /\ ticket[t].resv = null
             /\ t \notin chosen => ticket'[t] = ticket[t] /\ ticket[t].resv # r
  <2>1. ticket[t].resv # r
    BY <1>2, <1>3 DEF QuantityInv, TicketsFollowTheirReservation
  <2>2. t \in chosen => ticket[t].resv = null
    BY <1>1 DEF Available, QuantityInv, AvailableIsFree
  <2>3. t \in chosen => ticket'[t].resv = r BY <1>2 DEF TypeOK, TicketRow
  <2>4. t \notin chosen => ticket'[t] = ticket[t] BY <1>2
  <2> QED BY <2>1, <2>2, <2>3, <2>4
<1>5. OpenResv(r)' => Cardinality(HeldBy(r))' = resv'[r].qty
  <2>1. HeldBy(r)' = chosen
    <3>1. chosen \subseteq Tickets BY <1>1 DEF Available
    <3> QED BY <1>4, <3>1 DEF HeldBy
  <2>2. resv'[r].qty = task[q].qty BY <1>2 DEF TypeOK
  <2> QED BY <1>1, <2>1, <2>2
<1>6. ASSUME NEW s \in Resvs, s # r
      PROVE  OpenResv(s)' => Cardinality(HeldBy(s))' = resv'[s].qty
  <2>1. resv'[s] = resv[s] BY <1>2, <1>6 DEF TypeOK
  <2>2. \A t \in Tickets : ticket'[t].resv = s <=> ticket[t].resv = s
    BY <1>3, <1>4, <1>6
  <2> QED BY <2>1, <2>2, SameHold DEF OpenResv, QuantityInv
<1> QED BY <1>5, <1>6 DEF OpenReservationHoldsItsQuantity

LEMMA SettledHold ==
    ASSUME TypeOK, QuantityInv, NEW q \in Tasks,
           CancelTx(q) \/ ConfirmTx(q) \/ FinalizeTx(q)
    PROVE  OpenReservationHoldsItsQuantity'
<1>0. OpenReservationHoldsItsQuantity BY DEF QuantityInv
<1>1. CASE CancelTx(q)
  <2>1. ASSUME NEW r \in Resvs
        PROVE  OpenResv(r)' => Cardinality(HeldBy(r))' = resv'[r].qty
    <3>1. CASE r = task[q].resv
      BY <1>1, <3>1 DEF CancelTx, TypeOK, ResvRow, OpenResv
    <3>2. CASE r # task[q].resv
      <4>1. resv'[r] = resv[r] BY <1>1, <3>2 DEF CancelTx, TypeOK
      <4>2. ASSUME NEW t \in Tickets PROVE ticket'[t].resv = r <=> ticket[t].resv = r
        <5>1. Released(t).resv = null BY DEF Released, TypeOK, TicketRow
        <5>2. ticket'[t] = IF ticket[t].resv = task[q].resv THEN Released(t)
                           ELSE ticket[t]
          BY <1>1 DEF CancelTx
        <5>3. r # null BY StoreAssumption DEF StoreAssumption
        <5> QED BY <3>2, <5>1, <5>2, <5>3
      <4> QED BY <1>0, <4>1, <4>2, SameHold DEF OpenResv
    <3> QED BY <3>1, <3>2
  <2> QED BY <2>1 DEF OpenReservationHoldsItsQuantity
<1>2. CASE ConfirmTx(q)
  <2>1. ASSUME NEW r \in Resvs
        PROVE  OpenResv(r)' => Cardinality(HeldBy(r))' = resv'[r].qty
    <3>1. OpenResv(r)' => OpenResv(r) /\ resv'[r].qty = resv[r].qty
      BY <1>2 DEF ConfirmTx, TypeOK, ResvRow, OpenResv
    <3>2. ASSUME NEW t \in Tickets PROVE ticket'[t].resv = ticket[t].resv
      BY <1>2 DEF ConfirmTx, Awaiting, TypeOK, TicketRow
    <3> QED BY <1>0, <3>1, <3>2, SameHold
  <2> QED BY <2>1 DEF OpenReservationHoldsItsQuantity
<1>3. CASE FinalizeTx(q)
  <2>1. ASSUME NEW r \in Resvs
        PROVE  OpenResv(r)' => Cardinality(HeldBy(r))' = resv'[r].qty
    <3>1. UNCHANGED resv BY <1>3 DEF FinalizeTx
    <3>2. ASSUME NEW t \in Tickets PROVE ticket'[t].resv = ticket[t].resv
      BY <1>3 DEF FinalizeTx, SoldTo, TypeOK, TicketRow
    <3>3. OpenResv(r)' => OpenResv(r) /\ resv'[r].qty = resv[r].qty
      BY <3>1 DEF OpenResv
    <3> QED BY <1>0, <3>2, <3>3, SameHold
  <2> QED BY <2>1 DEF OpenReservationHoldsItsQuantity
<1> QED BY <1>1, <1>2, <1>3

LEMMA QuantityStep ==
    ASSUME TypeOK, QuantityInv, [Next]_vars PROVE OpenReservationHoldsItsQuantity'
<1>1. CASE UNCHANGED <<ticket, resv>>
  <2>1. \A r \in Resvs : HeldBy(r)' = HeldBy(r) /\ (OpenResv(r)' <=> OpenResv(r))
    BY <1>1 DEF HeldBy, OpenResv
  <2>2. OpenReservationHoldsItsQuantity BY DEF QuantityInv
  <2> QED BY <1>1, <2>1, <2>2 DEF OpenReservationHoldsItsQuantity
<1>2. ASSUME NEW q \in Tasks, Continue(q) PROVE OpenReservationHoldsItsQuantity'
  <2>1. ~RejectRelease(q) BY DEF QuantityInv, NoRejection, RejectRelease
  <2>2. CASE ReserveManually(q) \/ ReserveRandomly(q) BY <2>2, NewHold
  <2>3. CASE CancelTx(q) \/ ConfirmTx(q) \/ FinalizeTx(q) BY <2>3, SettledHold
  <2> QED BY <1>1, <1>2, <2>1, <2>2, <2>3, OthersKeepHolds DEF Continue
<1>3. ASSUME NEW q \in Tasks, Begin(q) \/ ExpireRead(q) \/ Fail(q)
      PROVE  OpenReservationHoldsItsQuantity'
  BY <1>1, <1>3, OthersKeepHolds
<1>4. CASE Tick \/ Crash \/ UNCHANGED vars
  BY <1>1, <1>4 DEF Tick, Crash, rows, vars
<1> QED BY <1>2, <1>3, <1>4 DEF Next

LEMMA QuantityStart == Init => QuantityInv
<1>1. Init => NoRejection /\ AvailableIsFree /\ OpenReservationHoldsItsQuantity
  BY DEF Init, Start, Idle, NewTicket, NoResv, OpenResv, NoRejection, AvailableIsFree,
     OpenReservationHoldsItsQuantity
<1>2. Init => TicketsFollowTheirReservation
  BY DEF Init, Start, NewTicket, TicketsFollowTheirReservation
<1> QED BY <1>1, <1>2, RandomStart DEF Init, QuantityInv

(* With random selection, and as long as nobody rejects a payment, an open   *)
(* reservation holds as many tickets as its payment will be charged for,     *)
(* through every interleaving, failure and restart.                          *)
THEOREM QuantityIsHeld ==
    ASSUME Selections = {{}}, "reject" \notin Ops
    PROVE  Spec => []OpenReservationHoldsItsQuantity
<1>1. TypeOK /\ QuantityInv /\ [Next]_vars => QuantityInv'
  BY RandomStep, RejectionStep, AvailableStep, HoldStep, QuantityStep DEF QuantityInv
<1>2. QuantityInv => OpenReservationHoldsItsQuantity BY DEF QuantityInv
<1> QED BY <1>1, <1>2, QuantityStart, TypeCorrect, PTL DEF Spec
=============================================================================
