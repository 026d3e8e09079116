--------------------------- MODULE TicketService ---------------------------
(***************************************************************************)
(* TicketService (modules/tickets/ticket.service.ts) and the processor of  *)
(* the ticket-reservation queue: reserve, cancel, expire, confirm and      *)
(* finalize, one action per database statement or transaction.             *)
(*                                                                         *)
(* A read that sends a handler home without a change of state leaves the   *)
(* system as it was and is not a step; an early return later on is.        *)
(***************************************************************************)
EXTENDS SalesStore

-----------------------------------------------------------------------------
(* reserveTickets *)

(* The idempotency lookup and the lottery lookup.  They are two statements;  *)
(* one step stands for both because the unique index decides about the key   *)
(* again when the row is created.  expiresAt is computed here, before the    *)
(* transaction begins.                                                       *)
ReserveRead(q) ==
    /\ Arrives(q, "reserve")
    /\ ~lottery.deleted /\ lottery.status \in {"PUBLISHED", "SELLING"}
    /\ now <= SaleEnd
    /\ \E k \in Keys \cup {null}, n \in 1..MaxQty, chosen \in Selections :
        /\ ResvKeyFree(k)
        /\ Run(q, [Idle EXCEPT !.op = "reserve", !.pc = "reserve_tx",
                               !.key = k, !.qty = n, !.tickets = chosen,
                               !.exp = now + HoldTime,
                               !.seen = lottery.status])
    /\ UNCHANGED <<rows, env, job>>

(* Manual selection: a plain SELECT, which takes no lock. *)
SelectManually(q) ==
    /\ task[q].pc = "reserve_tx" /\ task[q].tickets # {}
    /\ task[q].tickets \subseteq Available
    /\ Goto(q, "reserve_write")
    /\ UNCHANGED <<rows, env, job>>

(* The unique index on ticket_reservations.idempotencyKey, asked at the      *)
(* INSERT.  Variant: a schema without the index.                             *)
UniqueResvKey_Missing(q) == TRUE
UniqueResvKey(q) == ResvKeyFree(task[q].key)

(* The delayed job of a reservation made now.  Variant: a delay that ends    *)
(* before the reservation does.                                              *)
ExpiryJob_TooEarly == [state |-> "delayed", due |-> now + HoldTime - 1, tries |-> 0]
ExpiryJob == [state |-> "delayed", due |-> now + HoldTime, tries |-> 0]

(* Bound: the clock does not stop before the job is due. *)
JobWithinBound == now + HoldTime <= MaxNow

(* The tickets a random selection chooses from.  Variant: the SELECT without *)
(* its status condition.                                                     *)
Selectable_AnyStatus == Tickets
Selectable == Available

(* The rest of the transaction: the reservation, its tickets, the lottery's  *)
(* status as the handler remembers it, and the job.  updateMany matches by   *)
(* ticket id alone.                                                          *)
StoreReservation(q, chosen) ==
    \E r \in Resvs :
        /\ ~resv[r].exists /\ job[r].state = "none" /\ UniqueResvKey(q)
        /\ JobWithinBound
        /\ resv' = [resv EXCEPT ![r] =
                      [exists |-> TRUE, cancelled |-> FALSE, confirmed |-> FALSE,
                       key |-> task[q].key, qty |-> task[q].qty,
                       exp |-> task[q].exp]]
        /\ ticket' = [t \in Tickets |->
                        IF t \in chosen
                        THEN [ticket[t] EXCEPT !.status = "RESERVED", !.resv = r]
                        ELSE ticket[t]]
        /\ lottery' = IF task[q].seen = "PUBLISHED"
                      THEN [lottery EXCEPT !.status = "SELLING"]
                      ELSE lottery
        /\ job' = [job EXCEPT ![r] = ExpiryJob]
        /\ Run(q, Idle)
        /\ UNCHANGED <<pay, audit, env>>

ReserveManually(q) ==
    /\ task[q].pc = "reserve_write"
    /\ StoreReservation(q, task[q].tickets)

(* Random selection: SELECT ... FOR UPDATE SKIP LOCKED holds the row locks   *)
(* until the commit, so selecting and writing are one step.                  *)
ReserveRandomly(q) ==
    /\ task[q].pc = "reserve_tx" /\ task[q].tickets = {}
    /\ \E chosen \in SUBSET Selectable :
        /\ Cardinality(chosen) = task[q].qty
        /\ StoreReservation(q, chosen)

(* The transaction rolls back: a wanted ticket is gone, too few are left     *)
(* (SKIP LOCKED passes over rows that other transactions hold, so this may   *)
(* happen at any time), or the key was taken since it was looked up.         *)
ReserveRefused(q) ==
    /\ \/ task[q].pc = "reserve_tx" /\ task[q].tickets = {}
       \/ task[q].pc = "reserve_tx" /\ ~(task[q].tickets \subseteq Available)
       \/ task[q].pc = "reserve_write" /\ ~UniqueResvKey(q)
    /\ Run(q, Idle)
    /\ UNCHANGED <<rows, env, job>>

(* The commit fails after queue.add has put the job into Redis: a job whose  *)
(* reservation does not exist.                                               *)
ReserveCommitFails(q) ==
    /\ \/ task[q].pc = "reserve_write"
       \/ /\ task[q].pc = "reserve_tx" /\ task[q].tickets = {}
          /\ Cardinality(Selectable) >= task[q].qty
    /\ UniqueResvKey(q)
    /\ faults < MaxFaults
    /\ \E r \in Resvs :
        /\ ~resv[r].exists /\ job[r].state = "none" /\ JobWithinBound
        /\ job' = [job EXCEPT ![r] = ExpiryJob]
    /\ faults' = faults + 1
    /\ Run(q, Idle)
    /\ UNCHANGED <<rows, now, crashes>>

-----------------------------------------------------------------------------
(* cancelReservation: called over HTTP, by expireReservation, and by         *)
(* confirmReservation on an expired reservation.                             *)

CancelRequest(q) ==
    /\ Arrives(q, "cancel")
    /\ \E r \in Resvs :
        /\ OpenResv(r)
        /\ Run(q, [Idle EXCEPT !.op = "cancel", !.pc = "cancel_tx", !.resv = r])
    /\ UNCHANGED <<rows, env, job>>

CancelRead(q) ==
    /\ task[q].pc = "cancel_read"
    /\ IF OpenResv(task[q].resv)
       THEN Goto(q, "cancel_tx") /\ UNCHANGED job
       ELSE Return(q)
    /\ UNCHANGED <<rows, env>>

(* A released ticket: its paymentId and buyerId stay.  Variant: the          *)
(* reservationId stays too.                                                  *)
Released_KeepsHolder(t) == [ticket[t] EXCEPT !.status = "AVAILABLE"]
Released(t) == [ticket[t] EXCEPT !.status = "AVAILABLE", !.resv = null]

(* Every ticket of the reservation is released, whatever its status by now.  *)
(* Whether the reservation has been confirmed since it was read is not asked *)
(* again.                                                                    *)
CancelTx(q) ==
    /\ task[q].pc = "cancel_tx"
    /\ ticket' = [t \in Tickets |->
                    IF ticket[t].resv = task[q].resv THEN Released(t) ELSE ticket[t]]
    /\ resv' = [resv EXCEPT ![task[q].resv].cancelled = TRUE]
    /\ Return(q)
    /\ UNCHANGED <<lottery, pay, audit, env>>

-----------------------------------------------------------------------------
(* The queue's worker: handleExpireReservation, then expireReservation.      *)

(* A due job is taken and the reservation read: the job is over if it is     *)
(* missing, settled or still running, otherwise it is cancelled.             *)
ExpireRead(w) ==
    /\ w \in Workers /\ task[w].pc = "idle"
    /\ \E r \in Resvs :
        /\ job[r].state = "delayed" /\ job[r].due <= now
        /\ job' = [job EXCEPT ![r].state = IF OpenResv(r) /\ resv[r].exp <= now
                                           THEN "active" ELSE "done"]
        /\ IF OpenResv(r) /\ resv[r].exp <= now
           THEN Run(w, [Idle EXCEPT !.op = "expire", !.pc = "cancel_read",
                                    !.resv = r])
           ELSE UNCHANGED task
    /\ UNCHANGED <<rows, env>>

-----------------------------------------------------------------------------
(* confirmReservation, the last call of initiatePayment *)

ConfirmRead(q) ==
    /\ task[q].pc = "confirm_read"
    /\ LET r == task[q].resv IN
        IF resv[r].cancelled
        THEN Return(q)
        ELSE /\ Goto(q, IF resv[r].exp < now THEN "cancel_read" ELSE "confirm_tx")
             /\ UNCHANGED job
    /\ UNCHANGED <<rows, env>>

(* A ticket awaiting payment p.  Variants: the status is left at RESERVED,   *)
(* or a SOLD ticket stays SOLD under the new payment.                        *)
Awaiting_StaysReserved(t, p) == [ticket[t] EXCEPT !.pay = p]
Awaiting_KeepsSold(t, p) ==
    [ticket[t] EXCEPT !.status = IF @ = "SOLD" THEN @ ELSE "PENDING_PAYMENT", !.pay = p]
Awaiting(t, p) == [ticket[t] EXCEPT !.status = "PENDING_PAYMENT", !.pay = p]

(* Every ticket of the reservation moves to this payment, also one that an   *)
(* earlier payment of the same reservation already holds or has bought.      *)
ConfirmTx(q) ==
    /\ task[q].pc = "confirm_tx"
    /\ ticket' = [t \in Tickets |->
                    IF ticket[t].resv = task[q].resv
                    THEN Awaiting(t, task[q].pay)
                    ELSE ticket[t]]
    /\ resv' = [resv EXCEPT ![task[q].resv].confirmed = TRUE]
    /\ Return(q)
    /\ UNCHANGED <<lottery, pay, audit, env>>

-----------------------------------------------------------------------------
(* finalizeTickets, called by approvePayment and by the auto-approval        *)

FinalizeRead(q) ==
    /\ task[q].pc = "finalize_read"
    /\ LET p == task[q].pay IN
        Run(q, [task[q] EXCEPT !.pc = "finalize_tx", !.buyer = pay[p].buyer,
                               !.count = Cardinality(LinkedTo(p))])
    /\ UNCHANGED <<rows, env, job>>

(* A sold ticket.  Variant: an earlier owner's buyerId is not overwritten.   *)
SoldTo_KeepsBuyer(t, b) ==
    [ticket[t] EXCEPT !.status = "SOLD", !.buyer = IF @ = null THEN b ELSE @]
SoldTo(t, b) == [ticket[t] EXCEPT !.status = "SOLD", !.buyer = b]

(* ticketsSold grows by the number of tickets the read saw, which need not   *)
(* be the number the update marks.                                           *)
FinalizeTx(q) ==
    /\ task[q].pc = "finalize_tx"
    /\ lottery.sold + task[q].count <= MaxSold
    /\ ticket' = [t \in Tickets |->
                    IF ticket[t].pay = task[q].pay
                    THEN SoldTo(t, task[q].buyer)
                    ELSE ticket[t]]
    /\ lottery' = [lottery EXCEPT !.sold = @ + task[q].count]
    /\ IF task[q].op = "approve" THEN Goto(q, "approve_audit") ELSE Run(q, Idle)
    /\ UNCHANGED <<resv, pay, audit, env, job>>
=============================================================================
