--------------------------- MODULE Subscriptions ---------------------------
(***************************************************************************)
(* The plans and subscriptions of PlansService                             *)
(* (modules/plans/plans.service.ts), the subscription payments of          *)
(* PaymentService (modules/payments/payment.service.ts) and the lotteries  *)
(* LotteryService charges to a subscription's quota                        *)
(* (modules/lottery/lottery.service.ts).  A call is one in-flight handler; *)
(* each action is one statement or one transaction of it.                  *)
(***************************************************************************)
EXTENDS Naturals, FiniteSets

CONSTANTS
    Clients, Plans, Slips, null,
    MaxSubs,       \* bound: Subscription rows
    MaxTxns,       \* bound: SubscriptionTransaction rows
    MaxLots,       \* bound: Lottery rows
    Cycles,        \* lengths of the billing cycles
    Quota,         \* plan.maxLotteriesPerCycle
    MaxActive,     \* plan.maxActiveLotteries
    Calls,         \* slots for concurrent handlers
    SubOps,        \* the handlers called in this instance
    MaxNow,        \* bound: the clock stops here
    MaxCalls,      \* bound: handlers called
    MaxFailures    \* bound: database calls that fail

(* Rows are numbered in the order of their createdAt. *)
Subs == 1 .. MaxSubs
Txns == 1 .. MaxTxns
Lots == 1 .. MaxLots

AllSubOps == {"subscribe", "submit", "cancel", "upgrade", "approve", "reject",
              "initiate", "upload", "deletePlan", "createLottery", "publish",
              "close"}

ASSUME SubAssumption ==
    /\ {MaxSubs, MaxTxns, MaxLots, MaxNow, MaxCalls, MaxFailures} \subseteq Nat
    /\ Cycles \subseteq Nat \ {0}
    /\ Quota \in [Plans -> Nat] /\ MaxActive \in [Plans -> Nat]
    /\ null \notin Clients \cup Plans \cup Slips \cup Nat
    /\ SubOps \subseteq AllSubOps /\ IsFiniteSet(Calls)

VARIABLES
    time,      \* Date.now()
    plans,     \* the Plan rows that are not deleted
    sub,       \* Subscription rows
    txn,       \* SubscriptionTransaction rows with their PaymentSlip rows
    lot,       \* Lottery rows
    call,      \* in-flight handlers
    calls,     \* number of handlers called so far
    failures   \* number of failed database calls so far

subVars == <<time, plans, sub, txn, lot, call, calls, failures>>

-----------------------------------------------------------------------------
(* Rows *)

SubscriptionStatus == {"PENDING", "AWAITING_PAYMENT", "UNDER_REVIEW", "ACTIVE",
                       "EXPIRED", "CANCELLED"}
TxnStatus == {"INITIATED", "SUBMITTED", "UNDER_REVIEW", "APPROVED", "REJECTED",
              "REFUNDED"}

(* admin says that approvedById is set. *)
SubRow == [exists : BOOLEAN, client : Clients \cup {null}, plan : Plans \cup {null},
           status : SubscriptionStatus, cycle : Nat, exp : Nat \cup {null},
           used : Nat, admin : BOOLEAN]

(* approved says that approvedAt is set; no handler clears it. *)
TxnRow == [exists : BOOLEAN, sub : Nat, status : TxnStatus,
           slips : SUBSET Slips, approved : BOOLEAN]

LotRow == [exists : BOOLEAN, client : Clients \cup {null}, sub : Nat,
           status : {"DRAFT", "PUBLISHED", "CLOSED"}]

CallPcs == {"idle", "subscribe_check", "subscribe_create", "submit_find",
            "submit_txn", "submit_slip", "submit_status", "cancel_write",
            "upgrade_cancel", "upgrade_create", "approve_tx", "reject_tx",
            "initiate_create", "initiate_status", "upload_check", "upload_tx",
            "verify", "plan_delete", "lot_count", "lot_tx", "publish_write",
            "close_write"}

(* sub, txn and lot are 0 until the handler has the row in hand. *)
CallRow == [pc : CallPcs, client : Clients \cup {null}, plan : Plans \cup {null},
            cycle : Nat, sub : Nat, txn : Nat, lot : Nat,
            slip : Slips \cup {null}, exp : Nat, used : Nat]

NoSub == [exists |-> FALSE, client |-> null, plan |-> null, status |-> "PENDING",
          cycle |-> 0, exp |-> null, used |-> 0, admin |-> FALSE]
NoTxn == [exists |-> FALSE, sub |-> 0, status |-> "INITIATED", slips |-> {},
          approved |-> FALSE]
NoLot == [exists |-> FALSE, client |-> null, sub |-> 0, status |-> "DRAFT"]
Quiet == [pc |-> "idle", client |-> null, plan |-> null, cycle |-> 0, sub |-> 0,
          txn |-> 0, lot |-> 0, slip |-> null, exp |-> 0, used |-> 0]

SubInit ==
    /\ time = 0
    /\ plans = Plans
    /\ sub = [s \in Subs |-> NoSub]
    /\ txn = [t \in Txns |-> NoTxn]
    /\ lot = [l \in Lots |-> NoLot]
    /\ call = [c \in Calls |-> Quiet]
    /\ calls = 0
    /\ failures = 0

-----------------------------------------------------------------------------
(* What the handlers ask of the rows *)

Live == {"ACTIVE", "AWAITING_PAYMENT", "UNDER_REVIEW", "PENDING"}

HasLive(cl) == \E s \in Subs : sub[s].exists /\ sub[s].client = cl /\ sub[s].status \in Live

(* The next row a table gives out. *)
Newest(table, ids, n) == n \in ids /\ ~table[n].exists /\ \A m \in ids : m < n => table[m].exists

OfSub(s) == {t \in Txns : txn[t].exists /\ txn[t].sub = s}

(* The transactions a decision on the subscription decides too.  Variant:    *)
(* the status is not asked for.                                              *)
Undecided_All(s) == OfSub(s)
Undecided(s) == {t \in OfSub(s) : txn[t].status \in {"SUBMITTED", "UNDER_REVIEW", "INITIATED"}}

Called(c, o) == call[c].pc = "idle" /\ o \in SubOps /\ calls < MaxCalls
Begin(c, rec) == call' = [call EXCEPT ![c] = rec] /\ calls' = calls + 1
Proceed(c, rec) == call' = [call EXCEPT ![c] = rec]
Advance(c, pc) == call' = [call EXCEPT ![c].pc = pc]
Done(c) == call' = [call EXCEPT ![c] = Quiet]

clock == <<time, calls, failures>>
rowsAndClock == <<time, failures, plans, sub, txn, lot>>

SetStatus(s, st) == sub' = [sub EXCEPT ![s].status = st]

-----------------------------------------------------------------------------
(* PlansService, client side *)

SubscribeRead(c) ==
    /\ Called(c, "subscribe")
    /\ \E cl \in Clients, p \in plans, n \in Cycles :
        Begin(c, [Quiet EXCEPT !.pc = "subscribe_check", !.client = cl,
                                 !.plan = p, !.cycle = n])
    /\ UNCHANGED rowsAndClock

SubscribeCheck(c) ==
    /\ call[c].pc = "subscribe_check"
    /\ IF HasLive(call[c].client) THEN Done(c) ELSE Advance(c, "subscribe_create")
    /\ UNCHANGED <<clock, plans, sub, txn, lot>>

(* The INSERT of subscribe, and the second statement of upgradeSubscription. *)
CreateSubscription(c) ==
    /\ call[c].pc \in {"subscribe_create", "upgrade_create"}
    /\ \E s \in Subs :
        /\ Newest(sub, Subs, s)
        /\ sub' = [sub EXCEPT ![s] = [NoSub EXCEPT !.exists = TRUE,
                                        !.client = call[c].client,
                                        !.plan = call[c].plan,
                                        !.cycle = call[c].cycle]]
    /\ Done(c)
    /\ UNCHANGED <<clock, plans, txn, lot>>

SubmitRead(c) ==
    /\ Called(c, "submit")
    /\ \E s \in Subs, f \in Slips :
        /\ sub[s].exists /\ sub[s].status \in {"PENDING", "AWAITING_PAYMENT"}
        /\ Begin(c, [Quiet EXCEPT !.pc = "submit_find", !.sub = s, !.slip = f])
    /\ UNCHANGED rowsAndClock

(* findFirst of an unfinished transaction: any of them, or none. *)
SubmitFind(c) ==
    /\ call[c].pc = "submit_find"
    /\ LET open == {t \in OfSub(call[c].sub) : txn[t].status \in {"INITIATED", "SUBMITTED"}}
       IN \E t \in IF open = {} THEN {0} ELSE open :
            Proceed(c, [call[c] EXCEPT !.pc = "submit_txn", !.txn = t])
    /\ UNCHANGED <<clock, plans, sub, txn, lot>>

(* The statement after the transaction's.  Variant: the slip is stored last, *)
(* after the subscription has been put under review.                         *)
AfterTransaction_Status == "submit_status"
AfterTransaction == "submit_slip"

SubmitCreate(c) ==
    /\ call[c].pc = "submit_txn" /\ call[c].txn = 0
    /\ \E t \in Txns :
        /\ Newest(txn, Txns, t)
        /\ txn' = [txn EXCEPT ![t] = [NoTxn EXCEPT !.exists = TRUE, !.sub = call[c].sub,
                                                   !.status = "SUBMITTED"]]
        /\ Proceed(c, [call[c] EXCEPT !.pc = AfterTransaction, !.txn = t])
    /\ UNCHANGED <<clock, plans, sub, lot>>

SubmitReuse(c) ==
    /\ call[c].pc = "submit_txn" /\ call[c].txn # 0
    /\ txn' = [txn EXCEPT ![call[c].txn].status = "SUBMITTED"]
    /\ Advance(c, AfterTransaction)
    /\ UNCHANGED <<clock, plans, sub, lot>>

SubmitSlip(c) ==
    /\ call[c].pc = "submit_slip"
    /\ txn' = [txn EXCEPT ![call[c].txn].slips = @ \cup {call[c].slip}]
    /\ Advance(c, "submit_status")
    /\ UNCHANGED <<clock, plans, sub, lot>>

SubmitStatus(c) ==
    /\ call[c].pc = "submit_status"
    /\ SetStatus(call[c].sub, "UNDER_REVIEW")
    /\ Done(c)
    /\ UNCHANGED <<clock, plans, txn, lot>>

(* cancelSubscription *)
CancelActiveRead(c) ==
    /\ Called(c, "cancel")
    /\ \E s \in Subs :
        /\ sub[s].exists /\ sub[s].status = "ACTIVE"
        /\ Begin(c, [Quiet EXCEPT !.pc = "cancel_write", !.sub = s])
    /\ UNCHANGED rowsAndClock

CancelActiveWrite(c) ==
    /\ call[c].pc = "cancel_write"
    /\ SetStatus(call[c].sub, "CANCELLED")
    /\ Done(c)
    /\ UNCHANGED <<clock, plans, txn, lot>>

(* upgradeSubscription: cancel the current one, then create the new one.     *)
UpgradeRead(c) ==
    /\ Called(c, "upgrade")
    /\ \E s \in Subs, p \in plans, n \in Cycles :
        /\ sub[s].exists /\ sub[s].status = "ACTIVE"
        /\ Begin(c, [Quiet EXCEPT !.pc = "upgrade_cancel", !.sub = s, !.plan = p,
                                    !.cycle = n, !.client = sub[s].client])
    /\ UNCHANGED rowsAndClock

UpgradeCancel(c) ==
    /\ call[c].pc = "upgrade_cancel"
    /\ SetStatus(call[c].sub, "CANCELLED")
    /\ Advance(c, "upgrade_create")
    /\ UNCHANGED <<clock, plans, txn, lot>>

-----------------------------------------------------------------------------
(* PlansService, administrator side *)

DeletePlanRead(c) ==
    /\ Called(c, "deletePlan")
    /\ \E p \in plans :
        /\ ~\E s \in Subs : sub[s].exists /\ sub[s].plan = p /\ sub[s].status = "ACTIVE"
        /\ Begin(c, [Quiet EXCEPT !.pc = "plan_delete", !.plan = p])
    /\ UNCHANGED rowsAndClock

DeletePlanWrite(c) ==
    /\ call[c].pc = "plan_delete"
    /\ plans' = plans \ {call[c].plan}
    /\ Done(c)
    /\ UNCHANGED <<clock, sub, txn, lot>>

(* A renewal of a running term begins where the term ends. *)
BaseDate(s) ==
    IF sub[s].status = "ACTIVE" /\ sub[s].exp # null /\ sub[s].exp > time
    THEN sub[s].exp ELSE time

ApproveSubRead(c) ==
    /\ Called(c, "approve")
    /\ \E s \in Subs :
        /\ sub[s].exists /\ sub[s].status \in Live
        /\ Begin(c, [Quiet EXCEPT !.pc = "approve_tx", !.sub = s,
                                    !.exp = BaseDate(s) + sub[s].cycle])
    /\ UNCHANGED rowsAndClock

ApproveSubTx(c) ==
    /\ call[c].pc = "approve_tx"
    /\ sub' = [sub EXCEPT ![call[c].sub].status = "ACTIVE",
                          ![call[c].sub].exp = call[c].exp,
                          ![call[c].sub].admin = TRUE]
    /\ txn' = [t \in Txns |-> IF t \in Undecided(call[c].sub)
                              THEN [txn[t] EXCEPT !.status = "APPROVED", !.approved = TRUE]
                              ELSE txn[t]]
    /\ Done(c)
    /\ UNCHANGED <<clock, plans, lot>>

(* rejectSubscription looks at no status. *)
RejectSubRead(c) ==
    /\ Called(c, "reject")
    /\ \E s \in Subs : sub[s].exists /\ Begin(c, [Quiet EXCEPT !.pc = "reject_tx", !.sub = s])
    /\ UNCHANGED rowsAndClock

RejectSubTx(c) ==
    /\ call[c].pc = "reject_tx"
    /\ SetStatus(call[c].sub, "CANCELLED")
    /\ txn' = [t \in Txns |-> IF t \in Undecided(call[c].sub)
                              THEN [txn[t] EXCEPT !.status = "REJECTED"]
                              ELSE txn[t]]
    /\ Done(c)
    /\ UNCHANGED <<clock, plans, lot>>

(* expireOverdueSubscriptions: one UPDATE.  Its job 'expire-subscriptions' is *)
(* added by nothing in the repository, so the time of a run is left open.    *)
ExpireOverdue ==
    /\ sub' = [s \in Subs |->
                 IF sub[s].exists /\ sub[s].status = "ACTIVE"
                      /\ sub[s].exp # null /\ sub[s].exp < time
                 THEN [sub[s] EXCEPT !.status = "EXPIRED"] ELSE sub[s]]
    /\ sub' # sub
    /\ UNCHANGED <<clock, plans, txn, lot, call>>

-----------------------------------------------------------------------------
(* PaymentService, subscription payments *)

(* initiateSubscriptionPayment looks at no status either. *)
InitiateSubRead(c) ==
    /\ Called(c, "initiate")
    /\ \E s \in Subs : sub[s].exists
                         /\ Begin(c, [Quiet EXCEPT !.pc = "initiate_create", !.sub = s])
    /\ UNCHANGED rowsAndClock

InitiateSubCreate(c) ==
    /\ call[c].pc = "initiate_create"
    /\ \E t \in Txns :
        /\ Newest(txn, Txns, t)
        /\ txn' = [txn EXCEPT ![t] = [NoTxn EXCEPT !.exists = TRUE, !.sub = call[c].sub]]
    /\ Advance(c, "initiate_status")
    /\ UNCHANGED <<clock, plans, sub, lot>>

InitiateSubStatus(c) ==
    /\ call[c].pc = "initiate_status"
    /\ SetStatus(call[c].sub, "AWAITING_PAYMENT")
    /\ Done(c)
    /\ UNCHANGED <<clock, plans, txn, lot>>

UploadSubRead(c) ==
    /\ Called(c, "upload")
    /\ \E t \in Txns, f \in Slips :
        /\ txn[t].exists /\ txn[t].status = "INITIATED"
        /\ Begin(c, [Quiet EXCEPT !.pc = "upload_check", !.txn = t,
                                    !.sub = txn[t].sub, !.slip = f])
    /\ UNCHANGED rowsAndClock

UploadSubCheck(c) ==
    /\ call[c].pc = "upload_check"
    /\ IF \E t \in Txns \ {call[c].txn} :
             /\ txn[t].exists /\ call[c].slip \in txn[t].slips
             /\ txn[t].status \in {"SUBMITTED", "UNDER_REVIEW", "APPROVED"}
       THEN Done(c) ELSE Advance(c, "upload_tx")
    /\ UNCHANGED <<clock, plans, sub, txn, lot>>

(* The request is answered here and the verification runs on, unawaited.     *)
UploadSubTx(c) ==
    /\ call[c].pc = "upload_tx"
    /\ txn' = [txn EXCEPT ![call[c].txn].status = "SUBMITTED",
                          ![call[c].txn].slips = @ \cup {call[c].slip}]
    /\ SetStatus(call[c].sub, "UNDER_REVIEW")
    /\ Advance(c, "verify")
    /\ UNCHANGED <<clock, plans, lot>>

(* runSubscriptionSlipVerification.  The verdict rests on the slip, the bank *)
(* and the ticket payments' references: any of the outcomes is open.         *)
VerdictRejects(c) ==
    /\ call[c].pc = "verify"
    /\ txn' = [txn EXCEPT ![call[c].txn].status = "REJECTED"]
    /\ SetStatus(call[c].sub, "CANCELLED")
    /\ Done(c)
    /\ UNCHANGED <<clock, plans, lot>>

VerdictApproves(c) ==
    /\ call[c].pc = "verify"
    /\ txn' = [txn EXCEPT ![call[c].txn].status = "APPROVED", ![call[c].txn].approved = TRUE]
    /\ SetStatus(call[c].sub, "ACTIVE")
    /\ Done(c)
    /\ UNCHANGED <<clock, plans, lot>>

(* What a slip left to a reviewer does to its subscription.  Variants: it is *)
(* activated until the reviewer decides, or given the transaction's status.  *)
LeftToReview_Submitted(c) == SetStatus(call[c].sub, "SUBMITTED")
LeftToReview_Active(c) == SetStatus(call[c].sub, "ACTIVE")
LeftToReview(c) == UNCHANGED sub

VerdictLeaves(c) ==
    /\ call[c].pc = "verify"
    /\ txn' = [txn EXCEPT ![call[c].txn].status = "UNDER_REVIEW"]
    /\ LeftToReview(c)
    /\ Done(c)
    /\ UNCHANGED <<clock, plans, lot>>

-----------------------------------------------------------------------------
(* LotteryService: what is charged to a subscription *)

ActiveLotteries(cl) ==
    {l \in Lots : lot[l].exists /\ lot[l].client = cl /\ lot[l].status = "PUBLISHED"}

(* validateSubscriptionForLottery: the client's latest ACTIVE subscription,  *)
(* with its counter as it is now.                                            *)
ValidateRead(c) ==
    /\ Called(c, "createLottery")
    /\ \E s \in Subs :
        /\ sub[s].exists /\ sub[s].status = "ACTIVE"
        /\ ~\E later \in Subs : /\ later > s /\ sub[later].status = "ACTIVE"
                                /\ sub[later].exists /\ sub[later].client = sub[s].client
        /\ Begin(c, [Quiet EXCEPT !.pc = "lot_count", !.sub = s, !.used = sub[s].used,
                                    !.client = sub[s].client, !.plan = sub[s].plan])
    /\ UNCHANGED rowsAndClock

(* Variant: the quota is passed by one.                                      *)
WithinQuota_OneMore(used, p) == used <= Quota[p]
WithinQuota(used, p) == used < Quota[p]

ValidateCount(c) ==
    /\ call[c].pc = "lot_count"
    /\ IF /\ Cardinality(ActiveLotteries(call[c].client)) < MaxActive[call[c].plan]
          /\ WithinQuota(call[c].used, call[c].plan)
       THEN Advance(c, "lot_tx") ELSE Done(c)
    /\ UNCHANGED <<clock, plans, sub, txn, lot>>

(* lotteriesUsed: { increment: 1 }.  Variant: the value read is counted on.  *)
Charged_FromRead(used, read) == read + 1
Charged(used, read) == used + 1

CreateLottery(c) ==
    /\ call[c].pc = "lot_tx"
    /\ \E l \in Lots :
        /\ Newest(lot, Lots, l)
        /\ lot' = [lot EXCEPT ![l] = [NoLot EXCEPT !.exists = TRUE, !.sub = call[c].sub,
                                                   !.client = call[c].client]]
    /\ sub' = [sub EXCEPT ![call[c].sub].used = Charged(@, call[c].used)]
    /\ Done(c)
    /\ UNCHANGED <<clock, plans, txn>>

(* publishLottery and closeLottery, as far as they move the count of active  *)
(* lotteries (the conditions on prizes are Catalogue's).                     *)
LotteryRead(c) ==
    \E l \in Lots, o \in {"publish", "close"} :
        /\ Called(c, o)
        /\ lot[l].exists /\ lot[l].status = IF o = "publish" THEN "DRAFT" ELSE "PUBLISHED"
        /\ Begin(c, [Quiet EXCEPT !.lot = l,
                         !.pc = IF o = "publish" THEN "publish_write" ELSE "close_write"])
        /\ UNCHANGED rowsAndClock

LotteryWrite(c) ==
    /\ call[c].pc \in {"publish_write", "close_write"}
    /\ lot' = [lot EXCEPT ![call[c].lot].status =
                 IF call[c].pc = "publish_write" THEN "PUBLISHED" ELSE "CLOSED"]
    /\ Done(c)
    /\ UNCHANGED <<clock, plans, sub, txn>>

-----------------------------------------------------------------------------

SubTick ==
    /\ time < MaxNow
    /\ time' = time + 1
    /\ UNCHANGED <<plans, sub, txn, lot, call, calls, failures>>

(* A database call fails, or the process restarts under the handler: what it *)
(* has committed stays, the rest of it never happens.                        *)
CallFails(c) ==
    /\ call[c].pc # "idle" /\ failures < MaxFailures
    /\ failures' = failures + 1
    /\ Done(c)
    /\ UNCHANGED <<time, calls, plans, sub, txn, lot>>

ClientCall(c) ==
    \/ SubscribeRead(c) \/ SubscribeCheck(c) \/ CreateSubscription(c)
    \/ SubmitRead(c) \/ SubmitFind(c) \/ SubmitCreate(c) \/ SubmitReuse(c)
    \/ SubmitSlip(c) \/ SubmitStatus(c) \/ CancelActiveRead(c)
    \/ CancelActiveWrite(c) \/ UpgradeRead(c) \/ UpgradeCancel(c)

AdminCall(c) ==
    \/ DeletePlanRead(c) \/ DeletePlanWrite(c) \/ ApproveSubRead(c)
    \/ ApproveSubTx(c) \/ RejectSubRead(c) \/ RejectSubTx(c)

PaymentCall(c) ==
    \/ InitiateSubRead(c) \/ InitiateSubCreate(c) \/ InitiateSubStatus(c)
    \/ UploadSubRead(c) \/ UploadSubCheck(c) \/ UploadSubTx(c)
    \/ VerdictRejects(c) \/ VerdictApproves(c) \/ VerdictLeaves(c)

LotteryCall(c) ==
    \/ ValidateRead(c) \/ ValidateCount(c) \/ CreateLottery(c)
    \/ LotteryRead(c) \/ LotteryWrite(c)

SubNext ==
    \/ \E c \in Calls : ClientCall(c) \/ AdminCall(c) \/ PaymentCall(c)
                          \/ LotteryCall(c) \/ CallFails(c)
    \/ ExpireOverdue
    \/ SubTick

SubSpec == SubInit /\ [][SubNext]_subVars

-----------------------------------------------------------------------------
(* Properties *)

(* Every column has its type, a subscription's and a transaction's status    *)
(* the values of their enums (schema.prisma:30-37, 63-70), and so has what a *)
(* handler in flight has read.  Of a lottery's status only the three values  *)
(* are told apart that move the count of active lotteries.                   *)
SubTypeOK ==
    /\ time \in Nat
    /\ plans \subseteq Plans
    /\ sub \in [Subs -> SubRow]
    /\ txn \in [Txns -> TxnRow]
    /\ lot \in [Lots -> LotRow]
    /\ call \in [Calls -> CallRow]
    /\ calls \in Nat
    /\ failures \in Nat

(* The quota counter of a subscription is the number of lotteries created    *)
(* under it, however many creations overlap and wherever they fail           *)
(* (lottery.service.ts:106-145).                                             *)
LotteriesAreCharged ==
    \A s \in Subs :
        sub[s].used = Cardinality({l \in Lots : lot[l].exists /\ lot[l].sub = s})

(* The quota is read before the lottery is created, so concurrent creations  *)
(* can pass it; but never by more than the number of other handlers in       *)
(* flight at once (lottery.service.ts:81, 138-142).                          *)
QuotaHoldsUpToConcurrency ==
    \A s \in Subs : sub[s].used > 0 =>
        sub[s].used < Quota[sub[s].plan] + Cardinality(Calls)

(* A subscription whose term runs or has run, and any subscription a lottery *)
(* was charged to, was approved: by an administrator, or because one of its  *)
(* transactions was.  No stale status, renewal, upgrade or payment gets      *)
(* there otherwise (plans.service.ts:278-315, payment.service.ts:478-499).   *)
PaidFor(s) == sub[s].admin \/ \E t \in Txns : txn[t].exists /\ txn[t].sub = s /\ txn[t].approved

TermsArePaidFor ==
    \A s \in Subs :
        (sub[s].status \in {"ACTIVE", "EXPIRED"} \/ sub[s].used > 0) => PaidFor(s)

(* A subscription under review has a slip with one of its payments, which    *)
(* getSubscription shows the reviewer (plans.service.ts:336-351), although   *)
(* submitPaymentSlip stores the slip and the status in separate statements   *)
(* that may fail in between (plans.service.ts:118-155).  Nothing is said of  *)
(* getSlipPresignedUrl: it asks the latest payment only and throws when that *)
(* one, begun after the slip came, has none (plans.service.ts:353-370).      *)
ReviewsRestOnASlip ==
    \A s \in Subs : sub[s].status = "UNDER_REVIEW" =>
        \E t \in Txns : txn[t].exists /\ txn[t].sub = s /\ txn[t].slips # {}

(* An approved transaction is undone only by a handler that had taken it up  *)
(* as undecided: a late verdict, or a slip for it on its way in.  A later    *)
(* decision on the subscription leaves it alone (plans.service.ts:304-308,   *)
(* 321-332).                                                                 *)
ApprovalsAreUndoneOnlyByLateWriters ==
    [][\A t \in Txns :
        txn[t].status = "APPROVED" /\ txn'[t].status # "APPROVED" =>
            \E c \in Calls : call[c].txn = t
                               /\ call[c].pc \in {"verify", "upload_tx", "submit_txn"}]_subVars
=============================================================================
