---------------------------- MODULE ImportsProofs ----------------------------
(***************************************************************************)
(* The safety of the sale with the imports beside it, for every value of   *)
(* the constants.  The steps of the sale itself are those of               *)
(* TicketSalesProofs; what is left is one case per step of an import.      *)
(***************************************************************************)
EXTENDS Imports, TicketSalesProofs

Imported(q) == ImportRead(q) \/ BulkRead(q) \/ ImportContinue(q)

LEMMA ImportStepKinds ==
    ASSUME [ImportNext]_vars
    PROVE  [Next]_vars \/ \E q \in Tasks : Imported(q)
BY DEF ImportNext, Imported, Tasks

-----------------------------------------------------------------------------
(* The records an import puts into its slot *)

(* A task that goes on, with what it has found. *)
LEMMA ImportTaskType ==
    ASSUME TypeOK, NEW q \in Tasks, NEW pc \in Pcs \ SlipPcs,
           NEW chosen \in SUBSET Tickets, NEW p \in Pays, NEW op \in {"approve", "import"}
    PROVE  /\ [task[q] EXCEPT !.pc = pc, !.pay = p] \in TaskRow
           /\ task[q].pay \in Pays =>
                /\ [task[q] EXCEPT !.tickets = chosen, !.pc = pc] \in TaskRow
                /\ [task[q] EXCEPT !.op = op, !.pc = pc] \in TaskRow
<1>1. task[q] \in TaskLocals BY DEF TypeOK, TaskRow
<1>2. ASSUME NEW loc \in TaskLocals
      PROVE  /\ [loc EXCEPT !.pc = pc, !.pay = p] \in TaskRow
             /\ loc.pay \in Pays =>
                  /\ [loc EXCEPT !.tickets = chosen, !.pc = pc] \in TaskRow
                  /\ [loc EXCEPT !.op = op, !.pc = pc] \in TaskRow
  <2>1. [loc EXCEPT !.pc = pc, !.pay = p] \in TaskRow BY DEF TaskRow, TaskLocals
  <2>2. ASSUME loc.pay \in Pays
        PROVE  [loc EXCEPT !.tickets = chosen, !.pc = pc] \in TaskRow
    BY <2>2 DEF TaskRow, TaskLocals
  <2>3. ASSUME loc.pay \in Pays
        PROVE  [loc EXCEPT !.op = op, !.pc = pc] \in TaskRow
    <3>1. op \in AllOps BY DEF AllOps
    <3> QED BY <2>3, <3>1 DEF TaskRow, TaskLocals
  <2> QED BY <2>1, <2>2, <2>3
<1> QED BY <1>1, <1>2

(* What the first read of an import leaves in the slot: a new payment is     *)
(* still to be created, or an existing one is named.                         *)
ImportBegun(q) ==
    \E rec \in TaskRow :
        /\ task' = [task EXCEPT ![q] = rec]
        /\ \/ rec.pc \in {"import_create", "bulk_create"}
           \/ /\ rec.pc \in {"import_approve", "import_count", "import_submit"}
              /\ rec.pay \in Pays /\ pay[rec.pay].exists

LEMMA ReadsBegin ==
    ASSUME TypeOK, NEW q \in Tasks, ImportRead(q) \/ BulkRead(q)
    PROVE  ImportBegun(q) /\ UNCHANGED <<rows, env, job>>
<1>a. ASSUME NEW rec \in TaskRow, Run(q, rec),
             \/ rec.pc \in {"import_create", "bulk_create"}
             \/ /\ rec.pc \in {"import_approve", "import_count", "import_submit"}
                /\ rec.pay \in Pays /\ pay[rec.pay].exists
      PROVE  ImportBegun(q)
  BY <1>a DEF ImportBegun, Run
<1>b. ASSUME NEW n \in 1..MaxQty PROVE n \in Nat
  BY StoreAssumption DEF StoreAssumption
<1>c. ASSUME NEW b \in Buyers, NEW n \in Nat, NEW listed \in SUBSET Tickets
      PROVE  /\ RowToCreate(b, n, listed) \in TaskRow
             /\ RowToCreate(b, n, listed).pc = "import_create"
  BY DEF RowToCreate, Idle, TaskRow, TaskLocals, PayPcs, SlipPcs, AllOps, Pcs,
     LotteryStatus
<1>d. ASSUME NEW b \in Buyers, NEW n \in Nat, NEW p \in Pays, NEW labelled \in BOOLEAN
      PROVE  \E rec \in TaskRow :
               /\ rec = RowOfPayment(b, n, p, labelled) /\ rec.pay = p
               /\ rec.pc \in {"import_approve", "import_count", "import_submit"}
  <2>1. ASSUME NEW op \in {"import", "topUp"},
               NEW pc \in {"import_approve", "import_count", "import_submit"}
        PROVE  LET rec == [Idle EXCEPT !.op = op, !.pc = pc, !.buyer = b, !.qty = n,
                                       !.pay = p]
               IN rec \in TaskRow /\ rec.pay = p /\ rec.pc = pc
    BY DEF Idle, TaskRow, TaskLocals, SlipPcs, AllOps, Pcs, LotteryStatus
  <2>2. PICK op \in {"import", "topUp"},
             pc \in {"import_approve", "import_count", "import_submit"} :
          RowOfPayment(b, n, p, labelled)
            = [Idle EXCEPT !.op = op, !.pc = pc, !.buyer = b, !.qty = n, !.pay = p]
    BY DEF RowOfPayment
  <2> DEFINE rec == [Idle EXCEPT !.op = op, !.pc = pc, !.buyer = b, !.qty = n, !.pay = p]
  <2>3. /\ rec \in TaskRow /\ rec.pay = p /\ rec.pc = pc
        /\ rec = RowOfPayment(b, n, p, labelled)
    BY <2>1, <2>2
  <2> HIDE DEF rec
  <2> QED BY <2>3
<1>1. CASE ImportRead(q)
  <2>1. PICK b \in Buyers, n \in 1..MaxQty, labelled \in BOOLEAN :
          \/ \E listed \in Listings : Run(q, RowToCreate(b, n, listed))
          \/ \E p \in OpenPaymentsOf(b) : Run(q, RowOfPayment(b, n, p, labelled))
    BY <1>1 DEF ImportRead
  <2>2. n \in Nat /\ \A listed \in Listings : listed \in SUBSET Tickets
    BY <1>b, StoreAssumption DEF StoreAssumption
  <2>3. ASSUME NEW listed \in Listings, Run(q, RowToCreate(b, n, listed))
        PROVE  ImportBegun(q)
    BY <1>a, <1>c, <2>2, <2>3
  <2>4. ASSUME NEW p \in OpenPaymentsOf(b), Run(q, RowOfPayment(b, n, p, labelled))
        PROVE  ImportBegun(q)
    <3>1. p \in Pays /\ pay[p].exists BY DEF OpenPaymentsOf
    <3>2. PICK rec \in TaskRow :
            /\ rec = RowOfPayment(b, n, p, labelled) /\ rec.pay = p
            /\ rec.pc \in {"import_approve", "import_count", "import_submit"}
      BY <1>d, <2>2, <3>1
    <3>3. task' = [task EXCEPT ![q] = rec] BY <2>4, <3>2 DEF Run
    <3> QED BY <3>1, <3>2, <3>3 DEF ImportBegun
  <2>5. UNCHANGED <<rows, env, job>> BY <1>1 DEF ImportRead
  <2> QED BY <2>1, <2>3, <2>4, <2>5
<1>2. CASE BulkRead(q)
  <2>1. PICK b \in Buyers, n \in 1..MaxQty :
          Run(q, [Idle EXCEPT !.op = "bulk", !.pc = "bulk_create", !.buyer = b, !.qty = n])
    BY <1>2 DEF BulkRead
  <2>2. n \in Nat BY <1>b
  <2>3. /\ [Idle EXCEPT !.op = "bulk", !.pc = "bulk_create", !.buyer = b, !.qty = n]
             \in TaskRow
        /\ [Idle EXCEPT !.op = "bulk", !.pc = "bulk_create", !.buyer = b, !.qty = n].pc
             = "bulk_create"
    BY <2>2 DEF Idle, TaskRow, TaskLocals, PayPcs, SlipPcs, AllOps, Pcs, LotteryStatus
  <2>4. UNCHANGED <<rows, env, job>> BY <1>2 DEF BulkRead
  <2> QED BY <1>a, <2>1, <2>3, <2>4
<1> QED BY <1>1, <1>2

(* Creating the payment of a row. *)
LEMMA CreationWrites ==
    ASSUME TypeOK, NEW q \in Tasks, ImportCreate(q) \/ BulkCreate(q)
    PROVE  \E p \in Pays :
             /\ ~pay[p].exists
             /\ pay' \in [Pays -> PayRow]
             /\ pay'[p].exists /\ pay'[p].buyer = task[q].buyer /\ pay'[p].key = null
             /\ ~pay'[p].deleted
             /\ pay'[p].status \in {"SUBMITTED", "APPROVED"}
             /\ pay'[p].approved = (task[q].pc = "bulk_create")
             /\ pay'[p].status = "APPROVED" => pay'[p].approved
             /\ \A other \in Pays : other # p => pay'[other] = pay[other]
             /\ \E pc \in IF task[q].pc = "bulk_create" THEN {"bulk_pick"}
                          ELSE {"import_pick", "import_listed"} :
                  Run(q, [task[q] EXCEPT !.pc = pc, !.pay = p])
             /\ UNCHANGED <<lottery, ticket, resv, audit, env, job>>
<1> DEFINE bulk == task[q].pc = "bulk_create"
<1>1. PICK st \in {"SUBMITTED", "APPROVED"},
           pc \in IF bulk THEN {"bulk_pick"} ELSE {"import_pick", "import_listed"} :
        Creates(q, st, bulk, pc) /\ (st = "APPROVED" => bulk)
  BY DEF ImportCreate, BulkCreate, BulkApproved
<1>2. PICK p \in Pays :
        /\ ~pay[p].exists
        /\ pay' = [pay EXCEPT ![p] = NewPayment(task[q].buyer, st, bulk)]
        /\ Run(q, [task[q] EXCEPT !.pc = pc, !.pay = p])
        /\ UNCHANGED <<lottery, ticket, resv, audit, env, job>>
  BY <1>1 DEF Creates
<1>3. NewPayment(task[q].buyer, st, bulk) \in PayRow
  BY LocalsType DEF NewPayment, NoPay, PayRow, PaymentStatus
<1>4. /\ NewPayment(task[q].buyer, st, bulk).exists
      /\ NewPayment(task[q].buyer, st, bulk).buyer = task[q].buyer
      /\ NewPayment(task[q].buyer, st, bulk).key = null
      /\ ~NewPayment(task[q].buyer, st, bulk).deleted
      /\ NewPayment(task[q].buyer, st, bulk).status = st
      /\ NewPayment(task[q].buyer, st, bulk).approved = bulk
  BY DEF NewPayment, NoPay
<1>5. /\ pay' \in [Pays -> PayRow]
      /\ pay'[p] = NewPayment(task[q].buyer, st, bulk)
      /\ \A other \in Pays : other # p => pay'[other] = pay[other]
  BY <1>2, <1>3 DEF TypeOK
<1> QED BY <1>1, <1>2, <1>4, <1>5

(* Tickets an import puts aside or sells. *)
LEMMA ImportedTickets ==
    ASSUME TypeOK, NEW q \in Tasks, ImportAssign(q) \/ BulkTx(q)
    PROVE  /\ ticket' \in [Tickets -> TicketRow]
           /\ \A t \in Tickets :
                \/ ticket'[t] = ticket[t]
                \/ /\ ticket'[t].resv = ticket[t].resv
                   /\ ticket'[t].pay = task[q].pay /\ ticket'[t].buyer = task[q].buyer
                   /\ \/ ticket'[t].status = "PENDING_PAYMENT"
                      \/ ticket'[t].status = "SOLD" /\ BulkTx(q)
<1>1. task[q].pay \in Pays \cup {null} /\ task[q].buyer \in Buyers \cup {null}
  BY LocalsType
<1>2. ASSUME NEW t \in Tickets, NEW st \in {"PENDING_PAYMENT", "SOLD"}
      PROVE  LET row == [ticket[t] EXCEPT !.status = st, !.pay = task[q].pay,
                                          !.buyer = task[q].buyer]
             IN /\ row \in TicketRow
                /\ row.resv = ticket[t].resv /\ row.pay = task[q].pay
                /\ row.buyer = task[q].buyer /\ row.status = st
  BY <1>1 DEF TypeOK, TicketRow, TicketStatus
<1>3. CASE ImportAssign(q)
  <2>1. ASSUME NEW t \in Tickets
        PROVE  ticket'[t] \in {ticket[t],
                 [ticket[t] EXCEPT !.status = "PENDING_PAYMENT", !.pay = task[q].pay,
                                   !.buyer = task[q].buyer]}
    BY <1>3 DEF ImportAssign, Assigned
  <2>2. ticket' \in [Tickets -> TicketRow]
    <3>1. \A t \in Tickets : ticket'[t] \in TicketRow BY <1>2, <2>1 DEF TypeOK
    <3>2. ticket' = [t \in Tickets |-> ticket'[t]] BY <1>3 DEF ImportAssign
    <3> QED BY <3>1, <3>2
  <2> QED BY <1>2, <2>1, <2>2
<1>4. CASE BulkTx(q)
  <2>1. ASSUME NEW t \in Tickets
        PROVE  ticket'[t] \in {ticket[t],
                 [ticket[t] EXCEPT !.status = "SOLD", !.pay = task[q].pay,
                                   !.buyer = task[q].buyer]}
    BY <1>4 DEF BulkTx, BulkSold
  <2>2. ticket' \in [Tickets -> TicketRow]
    <3>1. \A t \in Tickets : ticket'[t] \in TicketRow BY <1>2, <2>1 DEF TypeOK
    <3>2. ticket' = [t \in Tickets |-> ticket'[t]] BY <1>4 DEF BulkTx
    <3> QED BY <3>1, <3>2
  <2> QED BY <1>2, <1>4, <2>1, <2>2
<1> QED BY <1>3, <1>4

-----------------------------------------------------------------------------
(* Type correctness *)

LEMMA ImportType == ASSUME TypeOK, NEW q \in Tasks, Imported(q) PROVE TypeOK'
<1>1. CASE ImportRead(q) \/ BulkRead(q)
  <2>1. ImportBegun(q) /\ UNCHANGED <<rows, env, job>> BY <1>1, ReadsBegin
  <2>2. task' \in [Tasks -> TaskRow] BY <2>1 DEF ImportBegun, TypeOK
  <2> QED BY <2>1, <2>2, ReadType
<1>2. CASE ImportCreate(q) \/ BulkCreate(q)
  <2>1. PICK p \in Pays, pc \in {"bulk_pick", "import_pick", "import_listed"} :
          /\ pay' \in [Pays -> PayRow]
          /\ Run(q, [task[q] EXCEPT !.pc = pc, !.pay = p])
          /\ UNCHANGED <<lottery, ticket, resv, audit, env, job>>
    BY <1>2, CreationWrites
  <2>2. pc \in Pcs \ SlipPcs BY DEF Pcs, SlipPcs
  <2>3. [task[q] EXCEPT !.pc = pc, !.pay = p] \in TaskRow BY <2>2, ImportTaskType
  <2>4. task' \in [Tasks -> TaskRow] BY <2>1, <2>3 DEF Run, TypeOK
  <2> QED BY <2>1, <2>4, PayWriteType
<1>a. ASSUME task[q].pc \in PayPcs PROVE task[q].pay \in Pays
  BY <1>a, LocalsType
<1>3. CASE ImportListed(q) \/ ImportPick(q) \/ BulkPick(q)
  <2>1. task[q].pay \in Pays
    BY <1>3, <1>a DEF ImportListed, ImportPick, BulkPick, PayPcs, Pcs
  <2>2. \/ \E chosen \in SUBSET Tickets, pc \in Pcs \ SlipPcs :
             task' = [task EXCEPT ![q] = [task[q] EXCEPT !.tickets = chosen, !.pc = pc]]
        \/ Goto(q, "bulk_short")
    <3>1. task[q].tickets \in SUBSET Tickets BY LocalsType
    <3>2. CASE ImportListed(q)
      <4> DEFINE found == {t \in task[q].tickets : ticket[t].status # "SOLD"}
                 pc == IF found = {} THEN "import_pick" ELSE "import_assign"
      <4>1. task' = [task EXCEPT ![q] = [task[q] EXCEPT !.tickets = found, !.pc = pc]]
        BY <3>2 DEF ImportListed, Run
      <4>2. found \in SUBSET Tickets /\ pc \in Pcs \ SlipPcs
        BY <3>1 DEF Pcs, SlipPcs
      <4> HIDE DEF found, pc
      <4> QED BY <4>1, <4>2
    <3>3. CASE ImportPick(q)
      <4>1. PICK chosen \in SUBSET Available :
              Run(q, [task[q] EXCEPT !.tickets = chosen,
                                     !.pc = IF chosen = {} THEN AfterAssign(q)
                                            ELSE "import_assign"])
        BY <3>3 DEF ImportPick
      <4> DEFINE pc == IF chosen = {} THEN AfterAssign(q) ELSE "import_assign"
      <4>2. chosen \in SUBSET Tickets /\ pc \in Pcs \ SlipPcs
        BY DEF Available, AfterAssign, Pcs, SlipPcs
      <4>3. task' = [task EXCEPT ![q] = [task[q] EXCEPT !.tickets = chosen, !.pc = pc]]
        BY <4>1 DEF Run
      <4> HIDE DEF pc
      <4> QED BY <4>2, <4>3
    <3>4. CASE BulkPick(q)
      <4>1. "bulk_tx" \in Pcs \ SlipPcs /\ Available \subseteq Tickets
        BY DEF Pcs, SlipPcs, Available
      <4> QED BY <3>4, <4>1 DEF BulkPick, Run
    <3> QED BY <1>3, <3>2, <3>3, <3>4
  <2>3. task' \in [Tasks -> TaskRow]
    <3>1. ASSUME NEW chosen \in SUBSET Tickets, NEW pc \in Pcs \ SlipPcs,
                 task' = [task EXCEPT ![q] = [task[q] EXCEPT !.tickets = chosen, !.pc = pc]]
          PROVE  task' \in [Tasks -> TaskRow]
      <4>1. [task[q] EXCEPT !.tickets = chosen, !.pc = pc] \in TaskRow
        BY <2>1, ImportTaskType
      <4> QED BY <3>1, <4>1 DEF TypeOK
    <3>2. CASE Goto(q, "bulk_short")
      BY <2>1, <3>2, GotoType DEF Pcs, SlipPcs
    <3> QED BY <2>2, <3>1, <3>2
  <2> QED BY <1>3, <2>3, ReadType DEF ImportListed, ImportPick, BulkPick
<1>4. CASE ImportCount(q) \/ ImportApprove(q)
  <2>1. task[q].pay \in Pays
    BY <1>4, <1>a DEF ImportCount, ImportApprove, PayPcs, Pcs
  <2>2. task' \in [Tasks -> TaskRow]
    <3>1. CASE ImportCount(q)
      BY <2>1, <3>1, GotoType DEF ImportCount, Pcs, SlipPcs
    <3>2. CASE ImportApprove(q)
      <4>1. "approve_write" \in Pcs \ SlipPcs BY DEF Pcs, SlipPcs
      <4>2. [task[q] EXCEPT !.op = "approve", !.pc = "approve_write"] \in TaskRow
        BY <2>1, <4>1, ImportTaskType
      <4> QED BY <3>2, <4>2, IdleType, RunType DEF ImportApprove
    <3> QED BY <1>4, <3>1, <3>2
  <2> QED BY <1>4, <2>2, ReadType DEF ImportCount, ImportApprove
<1>5. CASE ImportAssign(q)
  <2>1. task[q].pay \in Pays BY <1>5, <1>a DEF ImportAssign, PayPcs, Pcs
  <2>2. task' \in [Tasks -> TaskRow]
    BY <1>5, <2>1, GotoType DEF ImportAssign, AfterAssign, Pcs, SlipPcs
  <2>3. ticket' \in [Tickets -> TicketRow] BY <1>5, ImportedTickets
  <2>4. UNCHANGED <<now, lottery, resv, job, pay, audit, faults, crashes>>
    BY <1>5 DEF ImportAssign, env
  <2> QED BY <2>2, <2>3, <2>4 DEF TypeOK
<1>6. CASE ImportSubmit(q) \/ BulkShort(q)
  <2>1. task[q].pay \in Pays BY <1>6, <1>a DEF ImportSubmit, BulkShort, PayPcs, Pcs
  <2>2. task' \in [Tasks -> TaskRow]
    BY <1>6, <2>1, GotoType, RunType, IdleType DEF ImportSubmit, BulkShort, Pcs, SlipPcs
  <2>3. ASSUME NEW st \in {"SUBMITTED", "UNDER_REVIEW"}
        PROVE  [pay[task[q].pay] EXCEPT !.status = st] \in PayRow
    BY <2>1 DEF TypeOK, PayRow, PaymentStatus
  <2>4. pay' \in [Pays -> PayRow]
    BY <1>6, <2>1, <2>3 DEF ImportSubmit, BulkShort, TypeOK
  <2> QED BY <1>6, <2>2, <2>4, PayWriteType DEF ImportSubmit, BulkShort
<1>7. CASE BulkTx(q)
  <2>1. task' \in [Tasks -> TaskRow] BY <1>7, IdleType, RunType DEF BulkTx
  <2>2. ticket' \in [Tickets -> TicketRow] BY <1>7, ImportedTickets
  <2>3. lottery' \in LotteryRow
    BY <1>7, LocalsType DEF BulkTx, BulkCounted, TypeOK, LotteryRow
  <2>4. UNCHANGED <<now, resv, job, pay, audit, faults, crashes>>
    BY <1>7 DEF BulkTx, env
  <2> QED BY <2>1, <2>2, <2>3, <2>4 DEF TypeOK
<1> QED BY <1>1, <1>2, <1>3, <1>4, <1>5, <1>6, <1>7 DEF Imported, ImportContinue

LEMMA ImportTypeStep == ASSUME TypeOK, [ImportNext]_vars PROVE TypeOK'
BY ImportStepKinds, TypeStep, ImportType

(* Rows and handlers keep their types with the imports beside the sale. *)
THEOREM ImportTypeCorrect == ImportSpec => []TypeOK
BY TypeInit, ImportTypeStep, PTL DEF ImportSpec

-----------------------------------------------------------------------------
(* Reservations *)

(* The imports that write no ticket. *)
LEMMA ImportsKeepTickets ==
    ASSUME NEW q \in Tasks, Imported(q), ~ImportAssign(q), ~BulkTx(q), TypeOK
    PROVE  UNCHANGED <<ticket, resv>>
<1>1. CASE ImportRead(q) \/ BulkRead(q)
  BY <1>1 DEF ImportRead, BulkRead, rows
<1>2. CASE ImportCreate(q) \/ BulkCreate(q) BY <1>2, CreationWrites
<1>3. CASE \/ ImportListed(q) \/ ImportCount(q) \/ ImportPick(q) \/ ImportSubmit(q)
           \/ ImportApprove(q) \/ BulkPick(q) \/ BulkShort(q)
  BY <1>3 DEF ImportListed, ImportCount, ImportPick, ImportSubmit, ImportApprove,
     BulkPick, BulkShort, rows
<1> QED BY <1>1, <1>2, <1>3 DEF Imported, ImportContinue

LEMMA ImportHolds ==
    ASSUME TypeOK, TicketsFollowTheirReservation, NEW q \in Tasks, Imported(q)
    PROVE  TicketsFollowTheirReservation'
<1>1. CASE ImportAssign(q) \/ BulkTx(q)
  <2>1. UNCHANGED resv BY <1>1 DEF ImportAssign, BulkTx
  <2>2. \A t \in Tickets :
          \/ ticket'[t] = ticket[t]
          \/ ticket'[t].resv = ticket[t].resv /\ ticket'[t].status # "RESERVED"
    BY <1>1, ImportedTickets
  <2> QED BY <2>1, <2>2 DEF TicketsFollowTheirReservation
<1>2. CASE ~ImportAssign(q) /\ ~BulkTx(q)
  BY <1>2, ImportsKeepTickets DEF TicketsFollowTheirReservation
<1> QED BY <1>1, <1>2

LEMMA ImportHoldStep ==
    ASSUME TypeOK, TicketsFollowTheirReservation, [ImportNext]_vars
    PROVE  TicketsFollowTheirReservation'
BY ImportStepKinds, HoldStep, ImportHolds

(* The imports take tickets without asking who holds them, and still no      *)
(* ticket is left RESERVED for a reservation that has ended.                 *)
THEOREM ImportsKeepHoldsSafe == ImportSpec => []TicketsFollowTheirReservation
<1>1. Init => TicketsFollowTheirReservation
  BY DEF Init, Start, NewTicket, TicketsFollowTheirReservation
<1> QED BY <1>1, ImportHoldStep, ImportTypeCorrect, PTL DEF ImportSpec

-----------------------------------------------------------------------------
(* Payments *)

(* What an import that goes on with a payment does to payments. *)
LEMMA ImportPayWrites ==
    ASSUME TypeOK, NEW q \in Tasks, Imported(q), ~ImportCreate(q), ~BulkCreate(q)
    PROVE  \A p \in Pays :
             /\ pay'[p].exists = pay[p].exists /\ pay'[p].buyer = pay[p].buyer
             /\ pay'[p].key = pay[p].key /\ pay'[p].approved = pay[p].approved
             /\ pay'[p].deleted = pay[p].deleted
             /\ \/ pay'[p].status = pay[p].status
                \/ pay'[p].status \in {"SUBMITTED", "UNDER_REVIEW"}
<1>1. CASE ImportSubmit(q) \/ BulkShort(q)
  <2>1. PICK st \in {"SUBMITTED", "UNDER_REVIEW"} :
          pay' = [pay EXCEPT ![task[q].pay].status = st]
    BY <1>1 DEF ImportSubmit, BulkShort
  <2>2. ASSUME NEW p \in Pays
        PROVE  /\ pay'[p].exists = pay[p].exists /\ pay'[p].buyer = pay[p].buyer
               /\ pay'[p].key = pay[p].key /\ pay'[p].approved = pay[p].approved
               /\ pay'[p].deleted = pay[p].deleted
               /\ pay'[p].status = pay[p].status \/ pay'[p].status = st
    <3>1. pay'[p] = pay[p] \/ pay'[p] = [pay[p] EXCEPT !.status = st]
      BY <2>1 DEF TypeOK
    <3>2. pay[p] \in PayRow BY DEF TypeOK
    <3>3. CASE pay'[p] = [pay[p] EXCEPT !.status = st] BY <3>2, <3>3 DEF PayRow
    <3>4. CASE pay'[p] = pay[p] BY <3>4
    <3> QED BY <3>1, <3>3, <3>4
  <2> QED BY <2>2
<1>2. CASE ~ImportSubmit(q) /\ ~BulkShort(q)
  <2>1. UNCHANGED pay
    BY <1>2 DEF Imported, ImportContinue, ImportRead, BulkRead, ImportListed,
       ImportCount, ImportPick, ImportAssign, ImportApprove, BulkPick, BulkTx, rows
  <2> QED BY <2>1
<1> QED BY <1>1, <1>2

LEMMA ImportsKeepPayments ==
    ASSUME TypeOK, NEW q \in Tasks, Imported(q) PROVE PaymentsAreKept
<1>1. CASE ImportCreate(q) \/ BulkCreate(q)
  <2>1. PICK p \in Pays :
          ~pay[p].exists /\ \A other \in Pays : other # p => pay'[other] = pay[other]
    BY <1>1, CreationWrites
  <2> QED BY <2>1 DEF PaymentsAreKept
<1>2. CASE ~ImportCreate(q) /\ ~BulkCreate(q)
  BY <1>2, ImportPayWrites DEF PaymentsAreKept
<1> QED BY <1>1, <1>2

LEMMA ImportKeysStep ==
    ASSUME TypeOK, OneRowPerIdempotencyKey, NEW q \in Tasks, Imported(q)
    PROVE  OneRowPerIdempotencyKey'
<1>0. UNCHANGED resv
  BY ImportsKeepTickets DEF ImportAssign, BulkTx
<1>1. CASE ImportCreate(q) \/ BulkCreate(q)
  <2>1. PICK p \in Pays :
          /\ pay'[p].key = null
          /\ \A other \in Pays : other # p => pay'[other] = pay[other]
    BY <1>1, CreationWrites
  <2> QED BY <1>0, <2>1 DEF OneRowPerIdempotencyKey
<1>2. CASE ~ImportCreate(q) /\ ~BulkCreate(q)
  BY <1>0, <1>2, ImportPayWrites DEF OneRowPerIdempotencyKey
<1> QED BY <1>1, <1>2

LEMMA ImportKeysKept ==
    ASSUME TypeOK, OneRowPerIdempotencyKey, [ImportNext]_vars
    PROVE  OneRowPerIdempotencyKey'
BY ImportStepKinds, KeysStep, ImportKeysStep

(* The payments of the imports have no key, and those of clients stay unique. *)
THEOREM ImportsKeepKeysUnique == ImportSpec => []OneRowPerIdempotencyKey
<1>1. Init => OneRowPerIdempotencyKey
  BY DEF Init, Start, NoResv, NoPay, OneRowPerIdempotencyKey
<1> QED BY <1>1, ImportTypeCorrect, ImportKeysKept, PTL DEF ImportSpec

-----------------------------------------------------------------------------
(* Approval *)

(* Where an import goes that has a payment, and has not just created it. *)
LEMMA ImportGoesOn ==
    ASSUME TypeOK, NEW q \in Tasks,
           \/ ImportListed(q) \/ ImportCount(q) \/ ImportPick(q) \/ ImportAssign(q)
           \/ ImportSubmit(q) \/ ImportApprove(q) \/ BulkShort(q) \/ BulkTx(q)
    PROVE  /\ task'[q].pc \in {"idle", "import_pick", "import_assign", "import_submit",
                               "import_approve", "approve_write"}
           /\ task'[q].pc # "idle" => task'[q].pay = task[q].pay
           /\ \A other \in Tasks : other # q => task'[other] = task[other]
<1> DEFINE OthersRest == \A other \in Tasks : other # q => task'[other] = task[other]
<1>a. task[q] \in TaskLocals BY DEF TypeOK, TaskRow
<1>1. CASE ImportCount(q) \/ ImportAssign(q) \/ ImportSubmit(q)
  BY <1>1, GotoWrites DEF ImportCount, ImportAssign, ImportSubmit, AfterAssign
<1>2. CASE BulkShort(q) \/ BulkTx(q)
  BY <1>2, RunWrites DEF BulkShort, BulkTx, Idle
<1>3. ASSUME NEW chosen,
             NEW pc \in {"import_pick", "import_assign", "import_submit",
                         "import_approve"},
             task' = [task EXCEPT ![q] = [task[q] EXCEPT !.tickets = chosen, !.pc = pc]]
      PROVE  task'[q].pc = pc /\ task'[q].pay = task[q].pay /\ OthersRest
  <2>1. task'[q] = [task[q] EXCEPT !.tickets = chosen, !.pc = pc] /\ OthersRest
    BY <1>3 DEF TypeOK
  <2> QED BY <1>a, <2>1 DEF TaskLocals
<1>4. CASE ImportListed(q)
  <2> DEFINE found == {t \in task[q].tickets : ticket[t].status # "SOLD"}
             pc == IF found = {} THEN "import_pick" ELSE "import_assign"
  <2>1. task' = [task EXCEPT ![q] = [task[q] EXCEPT !.tickets = found, !.pc = pc]]
    BY <1>4 DEF ImportListed, Run
  <2>2. pc \in {"import_pick", "import_assign"} OBVIOUS
  <2> HIDE DEF found, pc
  <2> QED BY <1>3, <2>1, <2>2
<1>5. CASE ImportPick(q)
  <2>1. PICK chosen \in SUBSET Available :
          Run(q, [task[q] EXCEPT !.tickets = chosen,
                                 !.pc = IF chosen = {} THEN AfterAssign(q)
                                        ELSE "import_assign"])
    BY <1>5 DEF ImportPick
  <2> DEFINE pc == IF chosen = {} THEN AfterAssign(q) ELSE "import_assign"
  <2>2. pc \in {"import_assign", "import_submit", "import_approve"} BY DEF AfterAssign
  <2>3. task' = [task EXCEPT ![q] = [task[q] EXCEPT !.tickets = chosen, !.pc = pc]]
    BY <2>1 DEF Run
  <2> HIDE DEF pc
  <2> QED BY <1>3, <2>2, <2>3
<1>6. CASE ImportApprove(q)
  <2>1. \/ task'[q] = [task[q] EXCEPT !.op = "approve", !.pc = "approve_write"]
        \/ task'[q] = Idle
    BY <1>6, RunWrites DEF ImportApprove
  <2>2. OthersRest BY <1>6, RunWrites DEF ImportApprove
  <2>3. CASE task'[q] = [task[q] EXCEPT !.op = "approve", !.pc = "approve_write"]
    BY <1>a, <2>2, <2>3 DEF TaskLocals
  <2>4. CASE task'[q] = Idle BY <2>2, <2>4 DEF Idle
  <2> QED BY <2>1, <2>3, <2>4
<1> QED BY <1>1, <1>2, <1>4, <1>5, <1>6

(* An import knows an existing payment from the moment it has found or       *)
(* created it, and a bulk row's payment is approved from its creation on.    *)
LEMMA ImportActs ==
    ASSUME TypeOK, ApprovalInv, NEW q \in Tasks, Imported(q)
    PROVE  /\ ActsOnPayment(q)'
           /\ \A other \in Tasks : other # q => task'[other] = task[other]
<1> DEFINE OthersRest == \A other \in Tasks : other # q => task'[other] = task[other]
<1>0. PaymentsAreKept BY ImportsKeepPayments
<1>a. task[q] \in TaskLocals BY DEF TypeOK, TaskRow
<1>1. CASE ImportRead(q) \/ BulkRead(q)
  <2>1. UNCHANGED pay /\ ImportBegun(q) BY <1>1, ReadsBegin DEF rows
  <2>2. PICK rec \in TaskRow :
          /\ task' = [task EXCEPT ![q] = rec]
          /\ \/ rec.pc \in {"import_create", "bulk_create"}
             \/ /\ rec.pc \in {"import_approve", "import_count", "import_submit"}
                /\ rec.pay \in Pays /\ pay[rec.pay].exists
    BY <2>1 DEF ImportBegun
  <2>3. task'[q] = rec /\ OthersRest BY <2>2 DEF TypeOK
  <2>4. CASE rec.pc \in {"import_create", "bulk_create"}
    BY <2>3, <2>4, NoPaymentInHand DEF PayPcs
  <2>5. CASE /\ rec.pc \in {"import_approve", "import_count", "import_submit"}
             /\ rec.pay \in Pays /\ pay[rec.pay].exists
    BY <2>1, <2>3, <2>5 DEF ActsOnPayment, ApprovedPcs, BuyerPcs
  <2> QED BY <2>2, <2>3, <2>4, <2>5
<1>2. CASE ImportCreate(q) \/ BulkCreate(q)
  <2>1. PICK p \in Pays,
             pc \in IF task[q].pc = "bulk_create" THEN {"bulk_pick"}
                    ELSE {"import_pick", "import_listed"} :
          /\ pay'[p].exists /\ pay'[p].buyer = task[q].buyer
          /\ pay'[p].approved = (task[q].pc = "bulk_create")
          /\ Run(q, [task[q] EXCEPT !.pc = pc, !.pay = p])
    BY <1>2, CreationWrites
  <2>2. task'[q] = [task[q] EXCEPT !.pc = pc, !.pay = p] /\ OthersRest
    BY <2>1, RunWrites
  <2>3. task'[q].pc = pc /\ task'[q].pay = p /\ task'[q].buyer = task[q].buyer
    BY <1>a, <2>2 DEF TaskLocals
  <2>4. pc \in ApprovedPcs => task[q].pc = "bulk_create"
    BY DEF ApprovedPcs, BuyerPcs
  <2> QED BY <2>1, <2>2, <2>3, <2>4 DEF ActsOnPayment, ApprovedPcs, BuyerPcs
<1>3. CASE \/ ImportListed(q) \/ ImportCount(q) \/ ImportPick(q) \/ ImportAssign(q)
           \/ ImportSubmit(q) \/ ImportApprove(q) \/ BulkShort(q) \/ BulkTx(q)
  <2>1. task[q].pc \in PayPcs
    BY <1>3 DEF ImportListed, ImportCount, ImportPick, ImportAssign, ImportSubmit,
       ImportApprove, BulkShort, BulkTx, PayPcs, Pcs
  <2>2. /\ task'[q].pc \in {"idle", "import_pick", "import_assign", "import_submit",
                            "import_approve", "approve_write"}
        /\ task'[q].pc # "idle" => task'[q].pay = task[q].pay
        /\ OthersRest
    BY <1>3, ImportGoesOn
  <2>3. task'[q].pc # "idle" => ActsOnPayment(q)'
    BY <1>0, <2>1, <2>2, SamePaymentInHand DEF ApprovedPcs, BuyerPcs
  <2> QED BY <2>2, <2>3, NoPaymentInHand DEF PayPcs
<1>4. CASE BulkPick(q)
  <2>1. task[q].pc = "bulk_pick" /\ UNCHANGED pay BY <1>4 DEF BulkPick, rows
  <2>2. /\ task'[q].pay = task[q].pay /\ task'[q].buyer = task[q].buyer
        /\ OthersRest
    <3>1. \/ task'[q] = [task[q] EXCEPT !.pc = "bulk_short"]
          \/ \E chosen : task'[q] = [task[q] EXCEPT !.tickets = chosen, !.pc = "bulk_tx"]
      BY <1>4, RunWrites DEF BulkPick, Goto, TypeOK
    <3>2. OthersRest BY <1>4, RunWrites, GotoWrites DEF BulkPick
    <3> QED BY <1>a, <3>1, <3>2 DEF TaskLocals
  <2>3. pay[task[q].pay].approved /\ task[q].buyer = pay[task[q].pay].buyer
    BY <2>1 DEF ApprovalInv, ActsOnPayment, ApprovedPcs, BuyerPcs
  <2>4. task[q].pc \in PayPcs BY <2>1 DEF PayPcs, Pcs
  <2> QED BY <1>0, <2>1, <2>2, <2>3, <2>4, SamePaymentInHand
<1> QED BY <1>1, <1>2, <1>3, <1>4 DEF Imported, ImportContinue

(* Statuses and audit rows keep resting on approvals. *)
LEMMA ImportDecisions ==
    ASSUME TypeOK, ApprovalInv, NEW q \in Tasks, Imported(q)
    PROVE  ApprovedExist' /\ DecisionsRestOnApproval'
<1>0. /\ \A p \in Pays : pay[p].approved => pay[p].exists
      /\ \A p \in Pays : pay[p].status \in {"APPROVED", "REFUNDED"} => pay[p].approved
      /\ \A p \in Pays : <<p, "APPROVE">> \in audit => pay[p].approved
  BY DEF ApprovalInv, ApprovedExist, DecisionsRestOnApproval
<1>1. UNCHANGED audit
  <2>1. CASE ImportCreate(q) \/ BulkCreate(q) BY <2>1, CreationWrites
  <2>2. CASE ImportRead(q) \/ BulkRead(q) BY <2>2 DEF ImportRead, BulkRead, rows
  <2> QED BY <2>1, <2>2 DEF Imported, ImportContinue, ImportListed, ImportCount,
       ImportPick, ImportAssign, ImportSubmit, ImportApprove, BulkPick, BulkShort,
       BulkTx, rows
<1>2. CASE ImportCreate(q) \/ BulkCreate(q)
  <2>1. PICK p \in Pays :
          /\ ~pay[p].exists /\ pay'[p].exists
          /\ pay'[p].status \in {"SUBMITTED", "APPROVED"}
          /\ pay'[p].status = "APPROVED" => pay'[p].approved
          /\ \A other \in Pays : other # p => pay'[other] = pay[other]
    BY <1>2, CreationWrites
  <2> QED BY <1>0, <1>1, <2>1 DEF ApprovedExist, DecisionsRestOnApproval
<1>3. CASE ~ImportCreate(q) /\ ~BulkCreate(q)
  BY <1>0, <1>1, <1>3, ImportPayWrites DEF ApprovedExist, DecisionsRestOnApproval
<1> QED BY <1>2, <1>3

(* A bulk row sells to the buyer its approved payment was created for, and   *)
(* an import takes a SOLD ticket only to put it aside.                       *)
LEMMA ImportSales ==
    ASSUME TypeOK, ApprovalInv, NEW q \in Tasks, Imported(q)
    PROVE  SoldTicketsBelongToThePayer'
<1>0. PaymentsAreKept BY ImportsKeepPayments
<1>1. ASSUME NEW t \in Tickets, ticket'[t].status = "SOLD"
      PROVE  /\ ticket'[t].pay # null
             /\ pay'[ticket'[t].pay].exists
             /\ pay'[ticket'[t].pay].approved
             /\ ticket'[t].buyer = pay'[ticket'[t].pay].buyer
  <2>1. CASE ticket'[t] = ticket[t]
    <3>1. /\ ticket[t].pay # null
          /\ pay[ticket[t].pay].exists /\ pay[ticket[t].pay].approved
          /\ ticket[t].buyer = pay[ticket[t].pay].buyer
      BY <1>1, <2>1 DEF ApprovalInv, SoldTicketsBelongToThePayer
    <3>2. ticket[t].pay \in Pays BY <3>1 DEF TypeOK, TicketRow
    <3> QED BY <1>0, <2>1, <3>1, <3>2 DEF PaymentsAreKept
  <2>2. CASE ticket'[t] # ticket[t]
    <3>1. /\ BulkTx(q)
          /\ ticket'[t].pay = task[q].pay /\ ticket'[t].buyer = task[q].buyer
      BY <1>1, <2>2, ImportsKeepTickets, ImportedTickets
    <3>2. task[q].pc = "bulk_tx" /\ UNCHANGED pay BY <3>1 DEF BulkTx
    <3>3. /\ task[q].pay \in Pays
          /\ pay[task[q].pay].exists /\ pay[task[q].pay].approved
          /\ task[q].buyer = pay[task[q].pay].buyer
      BY <3>2, LocalsType DEF ApprovalInv, ActsOnPayment, ApprovedPcs, BuyerPcs,
         PayPcs, Pcs
    <3>4. task[q].pay # null BY <3>3, StoreAssumption DEF StoreAssumption
    <3> QED BY <3>1, <3>2, <3>3, <3>4
  <2> QED BY <2>1, <2>2
<1> QED BY <1>1 DEF SoldTicketsBelongToThePayer

LEMMA ImportApprovalStep ==
    ASSUME TypeOK, ApprovalInv, [ImportNext]_vars PROVE ApprovalInv'
<1>1. CASE [Next]_vars BY <1>1, ApprovalStep
<1>2. ASSUME NEW q \in Tasks, Imported(q) PROVE ApprovalInv'
  <2>1. PaymentsAreKept BY <1>2, ImportsKeepPayments
  <2>2. ASSUME NEW any \in Tasks PROVE ActsOnPayment(any)'
    BY <1>2, <2>1, ImportActs, OtherTasksAct
  <2>3. (\A any \in Tasks : ActsOnPayment(any))' BY <2>2
  <2> QED BY <1>2, <2>3, ImportDecisions, ImportSales DEF ApprovalInv
<1> QED BY <1>1, <1>2, ImportStepKinds

LEMMA ImportApprovals == ImportSpec => []ApprovalInv
BY ApprovalStart, ImportApprovalStep, ImportTypeCorrect, PTL DEF ImportSpec, Init

(* Whatever is imported meanwhile, and whatever tickets it takes from whom,  *)
(* a SOLD ticket belongs to the buyer of an approved payment.                *)
THEOREM ImportsSellToThePayer == ImportSpec => []SoldTicketsBelongToThePayer
<1>1. ApprovalInv => SoldTicketsBelongToThePayer BY DEF ApprovalInv
<1> QED BY <1>1, ImportApprovals, PTL

(* The payments an import creates, submits or sends back to review leave     *)
(* every approval standing.                                                  *)
THEOREM ImportsKeepApprovalFirst == ImportSpec => []DecisionsRestOnApproval
<1>1. ApprovalInv => DecisionsRestOnApproval BY DEF ApprovalInv
<1> QED BY <1>1, ImportApprovals, PTL
-----------------------------------------------------------------------------
(* Who a payment is from, and whether it is deleted *)

(* How an import's slot comes to the creation of a payment; no other slot    *)
(* moves, and an import never stands in a statement of the reservations, of  *)
(* a rejection or of a deletion.                                             *)
LEMMA HowImportsMove ==
    ASSUME TypeOK, NEW q \in Tasks, Imported(q)
    PROVE  /\ \A other \in Tasks : other # q => task'[other] = task[other]
           /\ task'[q].pc \notin {"reserve_tx", "reserve_write", "reject_write",
                                 "reject_release", "pay_create", "delete_write"}
           /\ task'[q].pc = "import_create" => ImportRead(q)
           /\ task'[q].pc = "bulk_create" => BulkRead(q)
<1> DEFINE OthersRest == \A other \in Tasks : other # q => task'[other] = task[other]
<1>0. task[q] \in TaskLocals BY DEF TypeOK, TaskRow
<1>1. CASE ImportRead(q)
  <2>1. PICK b \in Buyers, n \in 1..MaxQty, labelled \in BOOLEAN :
          \/ \E listed \in Listings : Run(q, RowToCreate(b, n, listed))
          \/ \E one \in OpenPaymentsOf(b) : Run(q, RowOfPayment(b, n, one, labelled))
    BY <1>1 DEF ImportRead
  <2>2. \A listed : RowToCreate(b, n, listed).pc = "import_create"
    BY DEF RowToCreate, Idle
  <2>3. \A one : RowOfPayment(b, n, one, labelled).pc
                    \in {"import_approve", "import_count", "import_submit"}
    BY DEF RowOfPayment, Idle
  <2>4. OthersRest /\ task'[q].pc \in {"import_create", "import_approve",
                                      "import_count", "import_submit"}
    BY <2>1, <2>2, <2>3, RunWrites
  <2> QED BY <1>1, <2>4
<1>2. CASE BulkRead(q)
  <2>1. PICK b \in Buyers, n \in 1..MaxQty :
          Run(q, [Idle EXCEPT !.op = "bulk", !.pc = "bulk_create", !.buyer = b, !.qty = n])
    BY <1>2 DEF BulkRead
  <2>2. /\ task'[q] = [Idle EXCEPT !.op = "bulk", !.pc = "bulk_create", !.buyer = b, !.qty = n]
        /\ OthersRest
    BY <2>1, RunWrites
  <2>3. task'[q].pc = "bulk_create" BY <2>2 DEF Idle
  <2> QED BY <1>2, <2>2, <2>3
<1>3. CASE ImportCreate(q) \/ BulkCreate(q)
  <2>1. PICK p \in Pays, pc \in {"bulk_pick", "import_pick", "import_listed"} :
          Run(q, [task[q] EXCEPT !.pc = pc, !.pay = p])
    BY <1>3, CreationWrites
  <2>2. task'[q] = [task[q] EXCEPT !.pc = pc, !.pay = p] /\ OthersRest
    BY <2>1, RunWrites
  <2>3. task'[q].pc = pc BY <1>0, <2>2 DEF TaskLocals
  <2> QED BY <2>2, <2>3
<1>4. CASE BulkPick(q)
  <2>1. \/ task'[q] = [task[q] EXCEPT !.pc = "bulk_short"]
        \/ \E chosen : task'[q] = [task[q] EXCEPT !.tickets = chosen, !.pc = "bulk_tx"]
    BY <1>4, RunWrites DEF BulkPick, Goto, TypeOK
  <2>2. OthersRest BY <1>4, RunWrites, GotoWrites DEF BulkPick
  <2>3. task'[q].pc \in {"bulk_short", "bulk_tx"} BY <1>0, <2>1 DEF TaskLocals
  <2> QED BY <2>2, <2>3
<1>5. CASE \/ ImportListed(q) \/ ImportCount(q) \/ ImportPick(q) \/ ImportAssign(q)
           \/ ImportSubmit(q) \/ ImportApprove(q) \/ BulkShort(q) \/ BulkTx(q)
  BY <1>5, ImportGoesOn
<1> QED BY <1>1, <1>2, <1>3, <1>4, <1>5 DEF Imported, ImportContinue

LEMMA ImportBuyersStep ==
    ASSUME TypeOK, BuyersKnown, [ImportNext]_vars PROVE BuyersKnown'
<1>1. CASE [Next]_vars BY <1>1, BuyersKnownStep
<1>2. ASSUME NEW q \in Tasks, Imported(q) PROVE BuyersKnown'
  <2>1. CASE ImportCreate(q) \/ BulkCreate(q)
    <3>1. task[q].buyer # null
      BY <2>1 DEF ImportCreate, BulkCreate, BuyersKnown
    <3>2. PICK one \in Pays :
            /\ pay'[one].buyer = task[q].buyer
            /\ \A p \in Pays : p # one => pay'[p] = pay[p]
      BY <2>1, CreationWrites
    <3>3. \A p \in Pays : pay'[p].exists => pay'[p].buyer # null
      BY <3>1, <3>2 DEF BuyersKnown
    <3>4. ~ImportRead(q) /\ ~BulkRead(q)
      BY <2>1 DEF ImportCreate, BulkCreate, ImportRead, BulkRead, Arrives
    <3> QED BY <1>2, <3>3, <3>4, HowImportsMove DEF BuyersKnown
  <2>2. CASE ~ImportCreate(q) /\ ~BulkCreate(q)
    <3>1. \A p \in Pays : pay'[p].exists => pay'[p].buyer # null
      BY <1>2, <2>2, ImportPayWrites DEF BuyersKnown
    <3>2. ASSUME ImportRead(q), task'[q].pc = "import_create"
          PROVE  task'[q].buyer # null
      <4>1. PICK b \in Buyers, n \in 1..MaxQty, labelled \in BOOLEAN :
              \/ \E listed \in Listings : Run(q, RowToCreate(b, n, listed))
              \/ \E one \in OpenPaymentsOf(b) : Run(q, RowOfPayment(b, n, one, labelled))
        BY <3>2 DEF ImportRead
      <4>2. \A listed : RowToCreate(b, n, listed).buyer = b BY DEF RowToCreate, Idle
      <4>3. \A one : RowOfPayment(b, n, one, labelled).buyer = b BY DEF RowOfPayment, Idle
      <4>4. task'[q].buyer = b BY <4>1, <4>2, <4>3, RunWrites
      <4> QED BY <4>4, StoreAssumption DEF StoreAssumption
    <3>3. ASSUME BulkRead(q) PROVE task'[q].buyer # null
      <4>1. PICK b \in Buyers, n \in 1..MaxQty :
              Run(q, [Idle EXCEPT !.op = "bulk", !.pc = "bulk_create", !.buyer = b, !.qty = n])
        BY <3>3 DEF BulkRead
      <4>2. task'[q] = [Idle EXCEPT !.op = "bulk", !.pc = "bulk_create", !.buyer = b, !.qty = n]
        BY <4>1, RunWrites
      <4>3. task'[q].buyer = b BY <4>2 DEF Idle
      <4> QED BY <4>3, StoreAssumption DEF StoreAssumption
    <3> QED BY <1>2, <3>1, <3>2, <3>3, HowImportsMove DEF BuyersKnown
  <2> QED BY <2>1, <2>2
<1> QED BY <1>1, <1>2, ImportStepKinds

LEMMA ImportDeletionStep ==
    ASSUME TypeOK, NothingDeleted, "delete" \notin Ops, [ImportNext]_vars
    PROVE  NothingDeleted'
<1>1. CASE [Next]_vars BY <1>1, DeletionStep
<1>2. ASSUME NEW q \in Tasks, Imported(q) PROVE NothingDeleted'
  <2>1. \A p \in Pays : ~pay'[p].deleted
    <3>1. CASE ImportCreate(q) \/ BulkCreate(q)
      BY <3>1, CreationWrites DEF NothingDeleted
    <3>2. CASE ~ImportCreate(q) /\ ~BulkCreate(q)
      BY <1>2, <3>2, ImportPayWrites DEF NothingDeleted
    <3> QED BY <3>1, <3>2
  <2> QED BY <1>2, <2>1, HowImportsMove DEF NothingDeleted
<1> QED BY <1>1, <1>2, ImportStepKinds

LEMMA ImportBuyers == ImportSpec => []BuyersKnown
BY BuyersKnownStart, ImportBuyersStep, ImportTypeCorrect, PTL DEF ImportSpec, Init

LEMMA ImportDeletions ==
    ASSUME "delete" \notin Ops PROVE ImportSpec => []NothingDeleted
BY BuyersKnownStart, ImportDeletionStep, ImportTypeCorrect, PTL DEF ImportSpec, Init

-----------------------------------------------------------------------------
(* The expiry job *)

LEMMA ImportsKeepJobs ==
    ASSUME TypeOK, NEW q \in Tasks, Imported(q)
    PROVE  UNCHANGED <<resv, job, now>>
<1>1. UNCHANGED resv BY ImportsKeepTickets DEF ImportAssign, BulkTx
<1>2. CASE ImportCreate(q) \/ BulkCreate(q) BY <1>1, <1>2, CreationWrites DEF env
<1>3. CASE ~ImportCreate(q) /\ ~BulkCreate(q)
  BY <1>1, <1>3 DEF Imported, ImportContinue, ImportRead, BulkRead, ImportListed,
     ImportCount, ImportPick, ImportAssign, ImportSubmit, ImportApprove, BulkPick,
     BulkShort, BulkTx, env
<1> QED BY <1>2, <1>3

LEMMA ImportJobStep == ASSUME TypeOK, JobInv, [ImportNext]_vars PROVE JobInv'
<1>1. CASE [Next]_vars BY <1>1, JobsStep, ExpiryStep DEF JobInv
<1>2. ASSUME NEW q \in Tasks, Imported(q) PROVE JobInv'
  <2>1. UNCHANGED <<resv, job, now>> BY <1>2, ImportsKeepJobs
  <2>2. \A r \in Resvs : JobAwaits(r)' BY <2>1 DEF JobInv, JobAwaits, OpenResv
  <2>3. \A any \in Tasks : ExpiryIsSoon(any)'
    BY <1>2, <2>1, HowImportsMove DEF JobInv, ExpiryIsSoon
  <2> QED BY <2>2, <2>3 DEF JobInv
<1> QED BY <1>1, <1>2, ImportStepKinds

(* A reservation whose tickets an import has taken still has its job: the    *)
(* import touches neither reservations nor the queue.                        *)
THEOREM ImportsKeepTheJobs == ImportSpec => []ExpiryJobOutlivesTheHold
<1>1. TypeOK /\ JobInv => ExpiryJobOutlivesTheHold BY JobsAwaitTheHold
<1> QED BY <1>1, JobStart, ImportJobStep, ImportTypeCorrect, PTL DEF ImportSpec, Init
=============================================================================
