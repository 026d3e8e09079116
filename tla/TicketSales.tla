---------------------------- MODULE TicketSales ----------------------------
(***************************************************************************)
(* One lottery's ticket sale: the handlers of TicketService and            *)
(* PaymentService, LotteryService's closeLottery, the expiry queue, the    *)
(* clock, and the failures, composed over the shared rows of SalesStore.   *)
(***************************************************************************)
EXTENDS PaymentService

-----------------------------------------------------------------------------
(* closeLottery (modules/lottery/lottery.service.ts) *)

CloseRead(q) ==
    /\ Arrives(q, "close")
    /\ ~lottery.deleted /\ lottery.status \in {"SELLING", "PUBLISHED"}
    /\ Run(q, [Idle EXCEPT !.op = "close", !.pc = "close_write"])
    /\ UNCHANGED <<rows, env, job>>

CloseWrite(q) ==
    /\ task[q].pc = "close_write"
    /\ lottery' = [lottery EXCEPT !.status = "CLOSED"]
    /\ Run(q, Idle)
    /\ UNCHANGED <<ticket, resv, pay, audit, env, job>>

-----------------------------------------------------------------------------
(* The environment *)

Tick ==
    /\ now < MaxNow
    /\ now' = now + 1
    /\ UNCHANGED <<rows, job, task, faults, crashes>>

(* A job whose processor threw.  Variant: defaultJobOptions without attempts.*)
AfterThrow_NoRetry(j) == [j EXCEPT !.state = "failed", !.tries = @ + 1]
AfterThrow(j) ==
    [j EXCEPT !.state = IF j.tries + 1 < MaxAttempts THEN "delayed" ELSE "failed",
              !.tries = @ + 1]

(* A database call of an in-flight handler fails: its transaction, if any,   *)
(* rolls back and the handler throws.  The queue retries a job.              *)
Throws(q) ==
    /\ task[q].pc # "idle"
    /\ faults < MaxFaults
    /\ faults' = faults + 1
    /\ Run(q, Idle)
    /\ job' = IF task[q].op = "expire"
              THEN [job EXCEPT ![task[q].resv] = AfterThrow(@)]
              ELSE job
    /\ UNCHANGED <<rows, now, crashes>>

(* The process restarts: in-flight handlers are gone, committed rows and the *)
(* queue in Redis stay, and Bull puts the jobs it held back as stalled.      *)
Crash ==
    /\ crashes < MaxCrashes
    /\ crashes' = crashes + 1
    /\ task' = [q \in Tasks |-> Idle]
    /\ job' = [r \in Resvs |-> IF job[r].state = "active"
                               THEN [job[r] EXCEPT !.state = "delayed"]
                               ELSE job[r]]
    /\ UNCHANGED <<rows, now, faults>>

-----------------------------------------------------------------------------
(* A request begins on slot q. *)
Begin(q) ==
    \/ ReserveRead(q) \/ CancelRequest(q) \/ InitiateRead(q) \/ UploadRead(q)
    \/ ApproveRead(q) \/ RejectRead(q) \/ RefundRead(q) \/ UnderReviewRead(q)
    \/ DeleteRead(q) \/ RestoreRead(q) \/ CloseRead(q)

(* The handler on slot q does its next statement. *)
Continue(q) ==
    \/ SelectManually(q) \/ ReserveManually(q) \/ ReserveRandomly(q)
    \/ ReserveRefused(q) \/ CancelRead(q) \/ CancelTx(q) \/ ConfirmRead(q)
    \/ ConfirmTx(q) \/ FinalizeRead(q) \/ FinalizeTx(q)
    \/ CreatePayment(q) \/ CreatePaymentRefused(q) \/ DuplicateSlipCheck(q)
    \/ StoreSlip(q) \/ VerifySlip(q) \/ StoreVerdict(q) \/ ApproveWrite(q)
    \/ RejectWrite(q) \/ RejectRelease(q) \/ WriteAudit(q) \/ RefundWrite(q)
    \/ UnderReviewWrite(q) \/ DeleteWrite(q) \/ RestoreWrite(q) \/ CloseWrite(q)

Fail(q) == ReserveCommitFails(q) \/ Throws(q)

Next ==
    \/ \E q \in Tasks : Begin(q) \/ Continue(q) \/ ExpireRead(q) \/ Fail(q)
    \/ Tick
    \/ Crash

Spec == Init /\ [][Next]_vars

(* Time passes, an open connection makes progress, and the worker takes the  *)
(* jobs that are due.  Nothing makes a client call or a call fail.           *)
Fairness ==
    /\ WF_vars(Tick)
    /\ \A q \in Tasks : WF_vars(Continue(q))
    /\ \A w \in Workers : WF_vars(ExpireRead(w))

FairSpec == Spec /\ Fairness

-----------------------------------------------------------------------------
(* The ledger the sale keeps: what its rows say once everything is left out  *)
(* that a buyer and an operator could not agree on.                          *)
Ledger == INSTANCE SaleLedger WITH
    Payments   <- Pays,
    Payers     <- Buyers \cup {null},
    none       <- null,
    opened     <- {p \in Pays : pay[p].exists},
    payer      <- [p \in Pays |-> pay[p].buyer],
    approved   <- {p \in Pays : pay[p].approved},
    recorded   <- {p \in Pays : <<p, "APPROVE">> \in audit},
    boughtWith <- [t \in Tickets |-> IF ticket[t].status = "SOLD"
                                     THEN ticket[t].pay ELSE null],
    owner      <- [t \in Tickets |-> IF ticket[t].status = "SOLD"
                                     THEN ticket[t].buyer ELSE null]

-----------------------------------------------------------------------------
(* Properties *)

(* A RESERVED ticket is held by a reservation that exists and is neither     *)
(* cancelled nor confirmed, and no ticket of any status refers to a          *)
(* cancelled reservation: cancelling, expiring and confirming, from several  *)
(* stale readers at once, never strand a ticket (ticket.service.ts:139-194). *)
TicketsFollowTheirReservation ==
    \A t \in Tickets :
        /\ ticket[t].resv # null =>
             /\ resv[ticket[t].resv].exists
             /\ ~resv[ticket[t].resv].cancelled
        /\ ticket[t].status = "RESERVED" =>
             /\ ticket[t].resv # null
             /\ ~resv[ticket[t].resv].confirmed

(* A SOLD ticket is linked to a payment that was approved at some time, and  *)
(* its buyer is that payment's buyer, however often the ticket changed hands *)
(* before (ticket.service.ts:196-219).                                       *)
SoldTicketsBelongToThePayer ==
    \A t \in Tickets :
        ticket[t].status = "SOLD" =>
            /\ ticket[t].pay # null
            /\ pay[ticket[t].pay].exists
            /\ pay[ticket[t].pay].approved
            /\ ticket[t].buyer = pay[ticket[t].pay].buyer

(* Money is refunded, and an APPROVE audit row written, only for a payment   *)
(* that was approved at some time, although each handler decides on a status *)
(* it read earlier (payment.service.ts:521-667).                             *)
DecisionsRestOnApproval ==
    /\ \A p \in Pays : pay[p].status \in {"APPROVED", "REFUNDED"} => pay[p].approved
    /\ \A p \in Pays : <<p, "APPROVE">> \in audit => pay[p].approved

(* A verification approves a payment by itself on exactly the evidence that  *)
(* SlipVerify lists, no less and no more, whatever its slip may show: an     *)
(* order of branches, four weights and two thresholds whose sums sit exactly *)
(* on the limit decide (slip-verify.service.ts:443-457, 606-659;             *)
(* payment.service.ts:374-386).  The evidence is the code's, and not what    *)
(* slip-verify.types.ts:21 says: a wrong amount is FAILED there, but a slip  *)
(* that shows one is approved all the same when nobody answers and it has a  *)
(* reference, a known provider and a QR code.                                *)
VerdictsFollowTheEvidence ==
    \A q \in Tasks :
        task[q].pc = "verdict" /\ task[q].verdict # "DUPLICATE" =>
            ~\E e \in Misjudged : HasKey(e) = (RefOf[task[q].slip] # null)

(* A client that retries with its key never owns two reservations or two     *)
(* payments, although the lookup and the creation are separate statements    *)
(* (ticket.service.ts:38-47, payment.service.ts:43-48).                      *)
OneRowPerIdempotencyKey ==
    /\ \A r1, r2 \in Resvs :
        (resv[r1].exists /\ resv[r2].exists /\ r1 # r2) =>
            (resv[r1].key = null \/ resv[r1].key # resv[r2].key)
    /\ \A p1, p2 \in Pays :
        (pay[p1].exists /\ pay[p2].exists /\ p1 # p2) =>
            (pay[p1].key = null \/ pay[p1].key # pay[p2].key)

(* An open reservation has a job that will run no earlier than the           *)
(* reservation expires, unless the job has failed for good: the job never    *)
(* completes before it has done its work (ticket.service.ts:60, 127-131,     *)
(* 161-170; reservation.processor.ts:14-24).                                 *)
ExpiryJobOutlivesTheHold ==
    \A r \in Resvs : OpenResv(r) =>
        \/ job[r].state = "failed"
        \/ job[r].state \in {"delayed", "active"} /\ resv[r].exp <= job[r].due

(* As long as requests do not overlap, nothing fails and no import lists     *)
(* ticket numbers, tickets and payments agree whenever no handler is in      *)
(* flight: the tickets of an approved payment are all SOLD, a SOLD ticket's  *)
(* payment is approved or refunded, an AVAILABLE ticket carries nothing of   *)
(* an earlier sale, and ticketsSold misses no SOLD ticket                    *)
(* (ticket.service.ts:139-222, payment.service.ts:349-414, 521-642).  An     *)
(* imported row that lists a reserved ticket breaks it without any overlap:  *)
(* the row takes the ticket and the reservation keeps pointing at it         *)
(* (payment.service.ts:1258-1289), so that cancelling the reservation frees  *)
(* a ticket that was bought (ticket.service.ts:147-149).                     *)
RestingRowsAgree ==
    (\A q \in Tasks : task[q].pc = "idle") =>
        /\ \A t \in Tickets :
            /\ ticket[t].status = "AVAILABLE" => ticket[t] = NewTicket
            /\ ticket[t].status = "SOLD" =>
                 pay[ticket[t].pay].status \in {"APPROVED", "REFUNDED"}
            /\ ticket[t].status # "SOLD" /\ ticket[t].pay # null =>
                 pay[ticket[t].pay].status \notin {"APPROVED", "REFUNDED"}
        /\ Cardinality({t \in Tickets : ticket[t].status = "SOLD"}) <= lottery.sold

(* With random selection only, an open reservation holds exactly the number  *)
(* of tickets its payment will be charged for (ticket.service.ts:80-116,     *)
(* payment.service.ts:58).                                                   *)
OpenReservationHoldsItsQuantity ==
    \A r \in Resvs : OpenResv(r) => Cardinality(HeldBy(r)) = resv[r].qty

(* A reserved ticket does not pass from one reservation straight to another: *)
(* "Uses a Prisma transaction to atomically select and lock available        *)
(* tickets" (ticket.service.ts:34).                                          *)
ReservedTicketIsNotTaken ==
    [][\A t \in Tickets :
        ticket[t].status = "RESERVED" /\ ticket'[t].status = "RESERVED" =>
            ticket'[t].resv = ticket[t].resv]_vars

(* Every reservation is in the end confirmed or cancelled, and its tickets   *)
(* leave RESERVED, with fewer failures than the job has attempts             *)
(* (ticket.service.ts:126-131, 161-170).                                     *)
HoldsAreSettled ==
    \A r \in Resvs : resv[r].exists ~> ~OpenResv(r)

(* Every step of the sale, whatever its handlers have read and however they  *)
(* fail, is one step of the ledger or none: a ticket is bought with one      *)
(* approved payment, for that payment's buyer, and never bought away from    *)
(* another; no payment is approved, recorded or given a payer twice over     *)
(* (ticket.service.ts:196-222, payment.service.ts:83-94, 536-569).           *)
ImplementsLedger == Ledger!LedgerSpec
=============================================================================
