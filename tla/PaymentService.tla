--------------------------- MODULE PaymentService ---------------------------
(***************************************************************************)
(* The ticket payments of PaymentService                                   *)
(* (modules/payments/payment.service.ts): initiation, slip upload, the     *)
(* verification that runs after the upload has been answered, and the      *)
(* review actions of the client and its staff.                             *)
(***************************************************************************)
EXTENDS TicketService, SlipVerify

(* The statuses under which a slip or a bank reference counts as used. *)
InUse == {"SUBMITTED", "UNDER_REVIEW", "APPROVED"}

-----------------------------------------------------------------------------
(* initiatePayment *)

(* The idempotency lookup, the reservation, and the buyer (found or created  *)
(* by phone or email; here one of Buyers).                                   *)
InitiateRead(q) ==
    /\ Arrives(q, "initiate")
    /\ \E r \in Resvs, k \in Keys \cup {null}, b \in Buyers :
        /\ PayKeyFree(k)
        /\ resv[r].exists /\ ~resv[r].cancelled
        /\ Run(q, [Idle EXCEPT !.op = "initiate", !.pc = "pay_create",
                               !.resv = r, !.key = k, !.buyer = b])
    /\ UNCHANGED <<rows, env, job>>

(* The unique index on payment_transactions.idempotencyKey. *)
UniquePayKey(q) == PayKeyFree(task[q].key)

CreatePayment(q) ==
    /\ task[q].pc = "pay_create" /\ UniquePayKey(q)
    /\ \E p \in Pays :
        /\ ~pay[p].exists
        /\ pay' = [pay EXCEPT ![p] = [NoPay EXCEPT !.exists = TRUE,
                                        !.buyer = task[q].buyer,
                                        !.key = task[q].key]]
        /\ Run(q, [task[q] EXCEPT !.pc = "confirm_read", !.pay = p])
    /\ UNCHANGED <<lottery, ticket, resv, audit, env, job>>

(* The key was taken since it was looked up: the INSERT throws. *)
CreatePaymentRefused(q) ==
    /\ task[q].pc = "pay_create" /\ ~UniquePayKey(q)
    /\ Run(q, Idle)
    /\ UNCHANGED <<rows, env, job>>

-----------------------------------------------------------------------------
(* uploadPaymentSlip *)

UploadRead(q) ==
    /\ Arrives(q, "upload")
    /\ \E p \in Pays, s \in Slips :
        /\ pay[p].exists /\ pay[p].status = "INITIATED"
        /\ Run(q, [Idle EXCEPT !.op = "upload", !.pc = "dup_check",
                               !.pay = p, !.slip = s])
    /\ UNCHANGED <<rows, env, job>>

(* Another payment in use carries a slip of the same content. *)
SlipUsedElsewhere(p, s) ==
    \E other \in Pays \ {p} :
        pay[other].exists /\ pay[other].status \in InUse /\ s \in pay[other].slips

DuplicateSlipCheck(q) ==
    /\ task[q].pc = "dup_check"
    /\ IF SlipUsedElsewhere(task[q].pay, task[q].slip)
       THEN Run(q, Idle)
       ELSE Goto(q, "slip_tx")
    /\ UNCHANGED <<rows, env, job>>

(* The slip row and SUBMITTED are committed, the request is answered, and    *)
(* the handler goes on as an unawaited verification.                         *)
StoreSlip(q) ==
    /\ task[q].pc = "slip_tx"
    /\ pay' = [pay EXCEPT ![task[q].pay].status = "SUBMITTED",
                          ![task[q].pay].slips = @ \cup {task[q].slip}]
    /\ Run(q, [task[q] EXCEPT !.op = "verify", !.pc = "verify"])
    /\ UNCHANGED <<lottery, ticket, resv, audit, env, job>>

-----------------------------------------------------------------------------
(* runSlipVerification *)

(* checkDuplicate: the extracted reference stands in another payment's       *)
(* metadata.                                                                 *)
RefUsedElsewhere(p, ref) ==
    /\ ref # null
    /\ \E other \in Pays \ {p} :
        pay[other].exists /\ pay[other].status \in InUse /\ pay[other].ref = ref

(* checkDuplicate also searches the notes, which only an approval writes and *)
(* where a reviewer may write anything: the match is left open.              *)
NoteMayMention(p, ref) ==
    /\ ref # null
    /\ \E other \in Pays \ {p} : pay[other].status \in InUse /\ pay[other].approved

(* verifySlip: a reference in use is a DUPLICATE; otherwise the bank's API,  *)
(* the receipt page or the confidence score decides (module SlipVerify).     *)
Outcomes(ref) ==
    {"DUPLICATE"} \cup IF ref = null THEN UnkeyedVerdicts ELSE KeyedVerdicts

VerifySlip(q) ==
    /\ task[q].pc = "verify"
    /\ LET p   == task[q].pay
           ref == RefOf[task[q].slip]
       IN \E v \in Outcomes(ref) :
            /\ v = "DUPLICATE" => RefUsedElsewhere(p, ref) \/ NoteMayMention(p, ref)
            /\ v # "DUPLICATE" => ~RefUsedElsewhere(p, ref)
            /\ Run(q, [task[q] EXCEPT !.pc = "verdict", !.verdict = v])
    /\ UNCHANGED <<rows, env, job>>

(* Variant: the verifier's own status is stored as it comes.                 *)
VerdictStatus_Raw(v) == v
VerdictStatus(v) ==
    CASE v = "AUTO"   -> "APPROVED"
      [] v = "MANUAL" -> "UNDER_REVIEW"
      [] OTHER        -> "REJECTED"

(* The auto-approval's record.  Variant: approvedAt is left out.             *)
ApprovedAtWith_Forgotten(v, before) == before
ApprovedAtWith(v, before) == v = "AUTO" \/ before

(* The verdict overwrites the payment's status, whatever it is by now; a     *)
(* rejection leaves the tickets with the payment.                            *)
StoreVerdict(q) ==
    /\ task[q].pc = "verdict"
    /\ LET p == task[q].pay IN
       LET v == task[q].verdict IN
        /\ pay' = [pay EXCEPT ![p].status = VerdictStatus(v),
                              ![p].ref = RefOf[task[q].slip],
                              ![p].approved = ApprovedAtWith(v, @)]
        /\ IF v = "AUTO" THEN Goto(q, "finalize_read") ELSE Run(q, Idle)
    /\ UNCHANGED <<lottery, ticket, resv, audit, env, job>>

-----------------------------------------------------------------------------
(* Review: read the payment, test its status, and write what the test        *)
(* allowed in a second statement.                                            *)

Review(q, op, pc, p) ==
    /\ Arrives(q, op)
    /\ pay[p].exists
    /\ Run(q, [Idle EXCEPT !.op = op, !.pc = pc, !.pay = p])
    /\ UNCHANGED <<rows, env, job>>

ApproveRead(q) ==
    \E p \in Pays :
        /\ pay[p].status \in {"INITIATED", "SUBMITTED", "UNDER_REVIEW", "REJECTED"}
        /\ Review(q, "approve", "approve_write", p)

RejectRead(q) ==
    \E p \in Pays :
        /\ pay[p].status \in {"INITIATED", "SUBMITTED", "UNDER_REVIEW", "APPROVED"}
        /\ Review(q, "reject", "reject_write", p)

(* refundPayment's guard.  Variant: any reviewed payment may be refunded.    *)
Refundable_AnyReviewed(p) == pay[p].status \in {"APPROVED", "REJECTED"}
Refundable(p) == pay[p].status = "APPROVED"

RefundRead(q) ==
    \E p \in Pays : Refundable(p) /\ Review(q, "refund", "refund_write", p)

UnderReviewRead(q) ==
    \E p \in Pays :
        /\ pay[p].status \in {"INITIATED", "SUBMITTED", "REJECTED"}
        /\ Review(q, "review", "review_write", p)

DeleteRead(q) ==
    \E p \in Pays :
        /\ ~pay[p].deleted /\ pay[p].status # "APPROVED"
        /\ Review(q, "delete", "delete_write", p)

RestoreRead(q) ==
    \E p \in Pays : pay[p].deleted /\ Review(q, "restore", "restore_write", p)

(* approvePayment goes on to finalizeTickets and to its audit row.           *)
ApproveWrite(q) ==
    /\ task[q].pc = "approve_write"
    /\ pay' = [pay EXCEPT ![task[q].pay].status = "APPROVED",
                          ![task[q].pay].approved = TRUE]
    /\ Goto(q, "finalize_read")
    /\ UNCHANGED <<lottery, ticket, resv, audit, env, job>>

RejectWrite(q) ==
    /\ task[q].pc = "reject_write"
    /\ pay' = [pay EXCEPT ![task[q].pay].status = "REJECTED"]
    /\ Goto(q, "reject_release")
    /\ UNCHANGED <<lottery, ticket, resv, audit, env, job>>

(* The statuses a rejection releases.  Variant: sold tickets stay sold.      *)
Releasable_PendingOnly == {"PENDING_PAYMENT"}
Releasable == {"PENDING_PAYMENT", "SOLD"}

(* The second statement of rejectPayment; ticketsSold is left as it is.      *)
RejectRelease(q) ==
    /\ task[q].pc = "reject_release"
    /\ ticket' = [t \in Tickets |->
                    IF /\ ticket[t].pay = task[q].pay
                       /\ ticket[t].status \in Releasable
                    THEN NewTicket
                    ELSE ticket[t]]
    /\ Goto(q, "reject_audit")
    /\ UNCHANGED <<lottery, resv, pay, audit, env, job>>

WriteAudit(q) ==
    /\ task[q].pc \in {"approve_audit", "reject_audit"}
    /\ audit' = audit \cup
         {<<task[q].pay, IF task[q].pc = "approve_audit" THEN "APPROVE" ELSE "REJECT">>}
    /\ Run(q, Idle)
    /\ UNCHANGED <<lottery, ticket, resv, pay, env, job>>

RefundWrite(q) ==
    /\ task[q].pc = "refund_write"
    /\ pay' = [pay EXCEPT ![task[q].pay].status = "REFUNDED"]
    /\ Run(q, Idle)
    /\ UNCHANGED <<lottery, ticket, resv, audit, env, job>>

UnderReviewWrite(q) ==
    /\ task[q].pc = "review_write"
    /\ pay' = [pay EXCEPT ![task[q].pay].status = "UNDER_REVIEW"]
    /\ Run(q, Idle)
    /\ UNCHANGED <<lottery, ticket, resv, audit, env, job>>

DeleteWrite(q) ==
    /\ task[q].pc = "delete_write"
    /\ pay' = [pay EXCEPT ![task[q].pay].deleted = TRUE]
    /\ Run(q, Idle)
    /\ UNCHANGED <<lottery, ticket, resv, audit, env, job>>

RestoreWrite(q) ==
    /\ task[q].pc = "restore_write"
    /\ pay' = [pay EXCEPT ![task[q].pay].deleted = FALSE]
    /\ Run(q, Idle)
    /\ UNCHANGED <<lottery, ticket, resv, audit, env, job>>
=============================================================================
