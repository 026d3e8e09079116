------------------------ MODULE SubscriptionsProofs ------------------------
(***************************************************************************)
(* The safety of plans, subscriptions and quotas for every value of the    *)
(* constants: any numbers of clients, subscriptions, transactions and      *)
(* handlers at once, and any bounds.                                       *)
(***************************************************************************)
EXTENDS Subscriptions, FiniteSetTheorems, TLAPS

-----------------------------------------------------------------------------
(* What a handler in flight knows: the rows it has in hand.                  *)

Ordering == {"subscribe_check", "subscribe_create", "upgrade_cancel", "upgrade_create"}
Charging == {"lot_count", "lot_tx"}
Paying == {"submit_slip", "submit_status", "upload_check", "upload_tx", "verify"}
WithSub == Paying \cup Charging \cup
    {"submit_find", "submit_txn", "cancel_write", "upgrade_cancel", "approve_tx",
     "reject_tx", "initiate_create", "initiate_status"}

Knows(r) ==
    /\ r.pc \in Ordering \cup Charging => r.client \in Clients /\ r.plan \in Plans
    /\ r.pc \in WithSub => r.sub \in Subs
    /\ r.pc \in Paying => r.txn \in Txns
    /\ r.pc = "submit_txn" => r.txn \in Txns \cup {0}
    /\ r.pc \in {"submit_find", "submit_txn", "submit_slip", "upload_check", "upload_tx"}
         => r.slip \in Slips
    /\ r.pc \in {"publish_write", "close_write"} => r.lot \in Lots

KnownRecord(r) == r \in CallRow /\ Knows(r)

(* What is true of these rows, and stays true whatever the others do.        *)
Holds(r) ==
    /\ r.pc \in WithSub => sub[r.sub].exists
    /\ r.pc \in Paying \/ (r.pc = "submit_txn" /\ r.txn # 0) =>
         txn[r.txn].exists /\ txn[r.txn].sub = r.sub
    /\ r.pc = "submit_status" => txn[r.txn].slips # {}
    /\ r.pc \in Charging => PaidFor(r.sub) /\ r.plan = sub[r.sub].plan
    /\ r.pc = "lot_tx" => r.used < Quota[r.plan]

(* Rows refer to rows that exist.                                            *)
RowsRefer ==
    /\ \A s \in Subs : sub[s].exists => sub[s].client \in Clients /\ sub[s].plan \in Plans
    /\ \A t \in Txns : /\ txn[t].exists => txn[t].sub \in Subs /\ sub[txn[t].sub].exists
                       /\ ~txn[t].exists => txn[t].status = "INITIATED"
    /\ \A l \in Lots : lot[l].exists => lot[l].sub \in Subs /\ sub[lot[l].sub].exists

SubsInv ==
    /\ SubTypeOK
    /\ RowsRefer
    /\ TermsArePaidFor
    /\ ReviewsRestOnASlip
    /\ \A c \in Calls : Knows(call[c]) /\ Holds(call[c])

Handler(c) == ClientCall(c) \/ AdminCall(c) \/ PaymentCall(c) \/ LotteryCall(c) \/ CallFails(c)

LEMMA StepKinds ==
    ASSUME [SubNext]_subVars
    PROVE  \/ \E c \in Calls : Handler(c)
           \/ ExpireOverdue
           \/ SubTick
           \/ UNCHANGED subVars
BY DEF SubNext, Handler

(* The facts about a handler's slot every case below begins with.            *)
LEMMA SlotFacts ==
    ASSUME SubsInv, NEW c \in Calls
    PROVE  call[c] \in CallRow /\ Knows(call[c]) /\ Holds(call[c])
BY DEF SubsInv, SubTypeOK

-----------------------------------------------------------------------------
(* What a step does to a row *)

FreshSub(cl, p, n) ==
    [NoSub EXCEPT !.exists = TRUE, !.client = cl, !.plan = p, !.cycle = n]
FreshTxn(s, st) == [NoTxn EXCEPT !.exists = TRUE, !.sub = s, !.status = st]
MovedSub(row, st) == [row EXCEPT !.status = st]
MovedTxn(row, st, ap, sl) == [row EXCEPT !.status = st, !.approved = ap, !.slips = sl]

SubSame(s) == sub'[s] = sub[s]
SubNew(s) ==
    /\ ~sub[s].exists
    /\ \E cl \in Clients, p \in Plans, n \in Nat : sub'[s] = FreshSub(cl, p, n)
SubMoved(s) ==
    /\ sub[s].exists
    /\ \E st \in SubscriptionStatus :
        /\ sub'[s] = MovedSub(sub[s], st)
        /\ st = "ACTIVE" => \E t \in Txns : txn'[t].exists /\ txn'[t].sub = s /\ txn'[t].approved
        /\ st = "EXPIRED" => sub[s].status = "ACTIVE"
        /\ st = "UNDER_REVIEW" =>
             \E t \in Txns : txn'[t].exists /\ txn'[t].sub = s /\ txn'[t].slips # {}
SubApproved(s) ==
    /\ sub[s].exists
    /\ \E n \in Nat :
         sub'[s] = [sub[s] EXCEPT !.status = "ACTIVE", !.exp = n, !.admin = TRUE]
SubCharged(s) ==
    /\ \E c \in Calls : CreateLottery(c) /\ call[c].sub = s
    /\ sub'[s] = [sub[s] EXCEPT !.used = @ + 1]

SubStep(s) == SubSame(s) \/ SubNew(s) \/ SubMoved(s) \/ SubApproved(s) \/ SubCharged(s)

TxnSame(t) == txn'[t] = txn[t]
TxnNew(t) ==
    /\ ~txn[t].exists
    /\ \E s \in Subs, st \in {"INITIATED", "SUBMITTED"} :
        /\ sub[s].exists
        /\ txn'[t] = FreshTxn(s, st)
TxnMoved(t) ==
    /\ txn[t].exists
    /\ \E st \in TxnStatus, ap \in BOOLEAN, sl \in SUBSET Slips :
        /\ txn'[t] = MovedTxn(txn[t], st, ap, sl)
        /\ (txn[t].approved => ap) /\ txn[t].slips \subseteq sl
        /\ txn[t].status = "APPROVED" /\ st # "APPROVED" =>
             \E c \in Calls : call[c].txn = t
                                /\ call[c].pc \in {"verify", "upload_tx", "submit_txn"}
TxnStep(t) == TxnSame(t) \/ TxnNew(t) \/ TxnMoved(t)

LotSame(l) == lot'[l] = lot[l]
LotNew(l) ==
    /\ ~lot[l].exists
    /\ \E c \in Calls :
        /\ CreateLottery(c)
        /\ lot'[l] = [NoLot EXCEPT !.exists = TRUE, !.sub = call[c].sub,
                                   !.client = call[c].client]
LotMoved(l) ==
    \E st \in {"DRAFT", "PUBLISHED", "CLOSED"} : lot'[l] = [lot[l] EXCEPT !.status = st]
LotStep(l) == LotSame(l) \/ LotNew(l) \/ LotMoved(l)

RowsStep ==
    /\ DOMAIN sub' = Subs /\ sub' = [s \in Subs |-> sub'[s]]
    /\ txn' = [t \in Txns |-> txn'[t]]
    /\ lot' = [l \in Lots |-> lot'[l]]
    /\ \A s \in Subs : SubStep(s)
    /\ \A t \in Txns : TxnStep(t)
    /\ \A l \in Lots : LotStep(l)
    /\ plans' \subseteq plans

LEMMA TableFacts ==
    ASSUME SubsInv
    PROVE  /\ sub \in [Subs -> SubRow] /\ txn \in [Txns -> TxnRow] /\ lot \in [Lots -> LotRow]
           /\ call \in [Calls -> CallRow] /\ plans \subseteq Plans
           /\ time \in Nat /\ calls \in Nat /\ failures \in Nat
BY DEF SubsInv, SubTypeOK

LEMMA RowsUntouched ==
    ASSUME SubsInv, UNCHANGED <<plans, sub, txn, lot>>
    PROVE  RowsStep
BY TableFacts DEF RowsStep, SubStep, SubSame, TxnStep, TxnSame, LotStep, LotSame

(* Four tables: a statement on one of them leaves the others.                *)
LEMMA OneSub ==
    ASSUME SubsInv, UNCHANGED <<plans, txn, lot>>, NEW s \in Subs, NEW row,
           sub' = [sub EXCEPT ![s] = row], sub'[s] = row => SubStep(s)
    PROVE  RowsStep
BY TableFacts DEF RowsStep, SubStep, SubSame, TxnStep, TxnSame, LotStep, LotSame

LEMMA OneTxn ==
    ASSUME SubsInv, UNCHANGED <<plans, sub, lot>>, NEW t \in Txns, NEW row,
           txn' = [txn EXCEPT ![t] = row], txn'[t] = row => TxnStep(t)
    PROVE  RowsStep
BY TableFacts DEF RowsStep, SubStep, SubSame, TxnStep, TxnSame, LotStep, LotSame

Writes(c) ==
    \/ CreateSubscription(c) \/ SubmitCreate(c) \/ SubmitReuse(c) \/ SubmitSlip(c)
    \/ SubmitStatus(c) \/ CancelActiveWrite(c) \/ UpgradeCancel(c) \/ DeletePlanWrite(c)
    \/ ApproveSubTx(c) \/ RejectSubTx(c) \/ InitiateSubCreate(c) \/ InitiateSubStatus(c)
    \/ UploadSubTx(c) \/ VerdictRejects(c) \/ VerdictApproves(c) \/ VerdictLeaves(c)
    \/ CreateLottery(c) \/ LotteryWrite(c)

LEMMA OthersLeaveTheRows ==
    ASSUME NEW c \in Calls, Handler(c), ~Writes(c)
    PROVE  UNCHANGED <<plans, sub, txn, lot>>
BY DEF Handler, ClientCall, AdminCall, PaymentCall, LotteryCall, CallFails, Writes,
   rowsAndClock, SubscribeRead, SubscribeCheck, SubmitRead, SubmitFind, CancelActiveRead,
   UpgradeRead, DeletePlanRead, ApproveSubRead, RejectSubRead, InitiateSubRead,
   UploadSubRead, UploadSubCheck, ValidateRead, ValidateCount, LotteryRead

(* A status nobody is paid for or asked to review. *)
LEMMA PlainStatus ==
    ASSUME SubsInv, UNCHANGED <<plans, txn, lot>>, NEW s \in Subs, sub[s].exists,
           NEW st \in {"AWAITING_PAYMENT", "CANCELLED"}, SetStatus(s, st)
    PROVE  RowsStep
<1>1. sub' = [sub EXCEPT ![s] = MovedSub(sub[s], st)] BY DEF SetStatus, MovedSub
<1>2. st \in SubscriptionStatus /\ st \notin {"ACTIVE", "EXPIRED", "UNDER_REVIEW"}
  BY DEF SubscriptionStatus
<1>3. sub'[s] = MovedSub(sub[s], st) => SubMoved(s) BY <1>2 DEF SubMoved
<1> QED BY <1>1, <1>3, OneSub DEF SubStep

LEMMA SubscriptionWrites ==
    ASSUME SubsInv, NEW c \in Calls,
           \/ CreateSubscription(c) \/ SubmitStatus(c) \/ CancelActiveWrite(c)
           \/ UpgradeCancel(c) \/ InitiateSubStatus(c) \/ DeletePlanWrite(c)
    PROVE  RowsStep
<1>k. call[c] \in CallRow /\ Knows(call[c]) /\ Holds(call[c]) BY SlotFacts
<1>s. call[c].pc \in WithSub => call[c].sub \in Subs /\ sub[call[c].sub].exists
  BY <1>k DEF Knows, Holds
<1>1. CASE CreateSubscription(c)
  <2>1. PICK s \in Subs :
          /\ ~sub[s].exists
          /\ sub' = [sub EXCEPT ![s] =
                       FreshSub(call[c].client, call[c].plan, call[c].cycle)]
    BY <1>1 DEF CreateSubscription, Newest, FreshSub
  <2>2. call[c].client \in Clients /\ call[c].plan \in Plans /\ call[c].cycle \in Nat
    BY <1>1, <1>k DEF CreateSubscription, Knows, Ordering, CallRow
  <2>3. UNCHANGED <<plans, txn, lot>> BY <1>1 DEF CreateSubscription
  <2>4. sub'[s] = FreshSub(call[c].client, call[c].plan, call[c].cycle) => SubNew(s)
    BY <2>1, <2>2 DEF SubNew
  <2> QED BY <2>1, <2>3, <2>4, OneSub DEF SubStep
<1>2. CASE SubmitStatus(c)
  <2>1. /\ call[c].sub \in Subs /\ sub[call[c].sub].exists
        /\ call[c].txn \in Txns /\ txn[call[c].txn].exists
        /\ txn[call[c].txn].sub = call[c].sub /\ txn[call[c].txn].slips # {}
    BY <1>2, <1>k DEF SubmitStatus, Knows, Holds, WithSub, Paying
  <2>2. UNCHANGED <<plans, txn, lot>> BY <1>2 DEF SubmitStatus
  <2>3. sub' = [sub EXCEPT ![call[c].sub] = MovedSub(sub[call[c].sub], "UNDER_REVIEW")]
    BY <1>2 DEF SubmitStatus, SetStatus, MovedSub
  <2>4. sub'[call[c].sub] = MovedSub(sub[call[c].sub], "UNDER_REVIEW") => SubMoved(call[c].sub)
    BY <2>1, <2>2 DEF SubMoved, SubscriptionStatus
  <2> QED BY <2>1, <2>2, <2>3, <2>4, OneSub DEF SubStep
<1>3. CASE CancelActiveWrite(c)
  BY <1>3, <1>s, PlainStatus DEF CancelActiveWrite, WithSub
<1>4. CASE UpgradeCancel(c)
  BY <1>4, <1>s, PlainStatus DEF UpgradeCancel, WithSub
<1>5. CASE InitiateSubStatus(c)
  BY <1>5, <1>s, PlainStatus DEF InitiateSubStatus, WithSub
<1>6. CASE DeletePlanWrite(c)
  <2>1. plans' \subseteq plans /\ UNCHANGED <<sub, txn, lot>> BY <1>6 DEF DeletePlanWrite
  <2> QED BY <2>1, TableFacts DEF RowsStep, SubStep, SubSame, TxnStep, TxnSame, LotStep, LotSame
<1> QED BY <1>1, <1>2, <1>3, <1>4, <1>5, <1>6

LEMMA TransactionWrites ==
    ASSUME SubsInv, NEW c \in Calls,
           SubmitCreate(c) \/ SubmitReuse(c) \/ SubmitSlip(c) \/ InitiateSubCreate(c)
    PROVE  RowsStep
<1>k. call[c] \in CallRow /\ Knows(call[c]) /\ Holds(call[c]) BY SlotFacts
<1>r. \A t \in Txns : txn[t] \in TxnRow BY TableFacts
<1>1. CASE SubmitCreate(c)
  <2>1. PICK t \in Txns :
          ~txn[t].exists /\ txn' = [txn EXCEPT ![t] = FreshTxn(call[c].sub, "SUBMITTED")]
    BY <1>1 DEF SubmitCreate, Newest, FreshTxn
  <2>2. call[c].sub \in Subs /\ sub[call[c].sub].exists
    BY <1>1, <1>k DEF SubmitCreate, Knows, Holds, WithSub
  <2>3. UNCHANGED <<plans, sub, lot>> BY <1>1 DEF SubmitCreate
  <2>4. txn'[t] = FreshTxn(call[c].sub, "SUBMITTED") => TxnNew(t)
    BY <2>1, <2>2 DEF TxnNew
  <2> QED BY <2>1, <2>3, <2>4, OneTxn DEF TxnStep
<1>2. CASE InitiateSubCreate(c)
  <2>1. FreshTxn(call[c].sub, "INITIATED")
          = [NoTxn EXCEPT !.exists = TRUE, !.sub = call[c].sub]
    <3>1. NoTxn \in TxnRow /\ NoTxn.status = "INITIATED" BY DEF NoTxn, TxnRow, TxnStatus
    <3> QED BY <3>1 DEF FreshTxn, TxnRow
  <2>2. PICK t \in Txns :
          ~txn[t].exists /\ txn' = [txn EXCEPT ![t] = FreshTxn(call[c].sub, "INITIATED")]
    BY <1>2, <2>1 DEF InitiateSubCreate, Newest
  <2>3. call[c].sub \in Subs /\ sub[call[c].sub].exists
    BY <1>2, <1>k DEF InitiateSubCreate, Knows, Holds, WithSub
  <2>4. UNCHANGED <<plans, sub, lot>> BY <1>2 DEF InitiateSubCreate
  <2>5. txn'[t] = FreshTxn(call[c].sub, "INITIATED") => TxnNew(t)
    BY <2>2, <2>3 DEF TxnNew
  <2> QED BY <2>2, <2>4, <2>5, OneTxn DEF TxnStep
<1>3. CASE SubmitReuse(c)
  <2> DEFINE t == call[c].txn
  <2>1. t \in Txns /\ txn[t].exists /\ call[c].pc = "submit_txn"
    BY <1>3, <1>k DEF SubmitReuse, Knows, Holds
  <2>2. [txn[t] EXCEPT !.status = "SUBMITTED"]
          = MovedTxn(txn[t], "SUBMITTED", txn[t].approved, txn[t].slips)
    BY <1>r, <2>1 DEF TxnRow, MovedTxn
  <2>3. /\ UNCHANGED <<plans, sub, lot>>
        /\ txn' = [txn EXCEPT ![t] = MovedTxn(txn[t], "SUBMITTED", txn[t].approved, txn[t].slips)]
    BY <1>3, <2>2 DEF SubmitReuse
  <2>4. /\ "SUBMITTED" \in TxnStatus /\ txn[t].approved \in BOOLEAN
        /\ txn[t].slips \in SUBSET Slips
    BY <1>r, <2>1 DEF TxnRow, TxnStatus
  <2>5. txn'[t] = MovedTxn(txn[t], "SUBMITTED", txn[t].approved, txn[t].slips) => TxnMoved(t)
    BY <2>1, <2>4 DEF TxnMoved
  <2> QED BY <2>1, <2>3, <2>5, OneTxn DEF TxnStep
<1>4. CASE SubmitSlip(c)
  <2> DEFINE t == call[c].txn  sl == txn[t].slips \cup {call[c].slip}
  <2>1. t \in Txns /\ txn[t].exists /\ call[c].slip \in Slips
    BY <1>4, <1>k DEF SubmitSlip, Knows, Holds, Paying
  <2>2. [txn[t] EXCEPT !.slips = sl] = MovedTxn(txn[t], txn[t].status, txn[t].approved, sl)
    BY <1>r, <2>1 DEF TxnRow, MovedTxn
  <2>3. /\ UNCHANGED <<plans, sub, lot>>
        /\ txn' = [txn EXCEPT ![t] = MovedTxn(txn[t], txn[t].status, txn[t].approved, sl)]
    BY <1>4, <2>2 DEF SubmitSlip
  <2>4. /\ txn[t].status \in TxnStatus /\ txn[t].approved \in BOOLEAN /\ sl \in SUBSET Slips
        /\ txn[t].slips \subseteq sl
    BY <1>r, <2>1 DEF TxnRow
  <2> HIDE DEF sl
  <2>5. txn'[t] = MovedTxn(txn[t], txn[t].status, txn[t].approved, sl) => TxnMoved(t)
    BY <2>1, <2>4 DEF TxnMoved
  <2> QED BY <2>1, <2>3, <2>5, OneTxn DEF TxnStep
<1> QED BY <1>1, <1>2, <1>3, <1>4

LEMMA SubAndTxn ==
    ASSUME SubsInv, UNCHANGED <<plans, lot>>, NEW s \in Subs, NEW t \in Txns,
           NEW srow, NEW trow, sub' = [sub EXCEPT ![s] = srow], txn' = [txn EXCEPT ![t] = trow],
           sub'[s] = srow /\ txn'[t] = trow => SubStep(s) /\ TxnStep(t)
    PROVE  RowsStep
BY TableFacts DEF RowsStep, SubStep, SubSame, TxnStep, TxnSame, LotStep, LotSame

(* A verdict or an uploaded slip: the transaction and its subscription.      *)
LEMMA PaymentWrites ==
    ASSUME SubsInv, NEW c \in Calls,
           UploadSubTx(c) \/ VerdictRejects(c) \/ VerdictApproves(c) \/ VerdictLeaves(c)
    PROVE  RowsStep
<1> DEFINE s == call[c].sub  t == call[c].txn
<1>k. /\ s \in Subs /\ t \in Txns /\ sub[s].exists /\ txn[t].exists /\ txn[t].sub = s
      /\ call[c].pc \in {"verify", "upload_tx"}
  <2>1. call[c] \in CallRow /\ Knows(call[c]) /\ Holds(call[c]) BY SlotFacts
  <2>2. call[c].pc \in {"verify", "upload_tx"}
    BY DEF UploadSubTx, VerdictRejects, VerdictApproves, VerdictLeaves
  <2> QED BY <2>1, <2>2 DEF Knows, Holds, WithSub, Paying
<1>f. /\ UNCHANGED <<plans, lot>>
      /\ UploadSubTx(c) => call[c].slip \in Slips
  BY SlotFacts DEF UploadSubTx, VerdictRejects, VerdictApproves, VerdictLeaves, Knows
<1>r. /\ txn[t] \in TxnRow /\ sub[s] \in SubRow /\ txn \in [Txns -> TxnRow]
      /\ sub \in [Subs -> SubRow]
  BY <1>k, TableFacts
<1>t. \A st \in TxnStatus, ap \in BOOLEAN, sl \in SUBSET Slips :
        (txn[t].approved => ap) /\ txn[t].slips \subseteq sl
          /\ txn'[t] = MovedTxn(txn[t], st, ap, sl) => TxnMoved(t)
  BY <1>k DEF TxnMoved
<1>m. \A st, ap, sl : MovedTxn(txn[t], st, ap, sl).exists /\ MovedTxn(txn[t], st, ap, sl).sub = s
                      /\ MovedTxn(txn[t], st, ap, sl).approved = ap
                      /\ MovedTxn(txn[t], st, ap, sl).slips = sl
  BY <1>k, <1>r DEF MovedTxn, TxnRow
<1>e. /\ {"REJECTED", "APPROVED", "UNDER_REVIEW", "SUBMITTED"} \subseteq TxnStatus
      /\ {"CANCELLED", "ACTIVE", "UNDER_REVIEW"} \subseteq SubscriptionStatus
      /\ txn[t].approved \in BOOLEAN /\ txn[t].slips \in SUBSET Slips
  BY <1>r DEF TxnStatus, SubscriptionStatus, TxnRow
<1>1. CASE UploadSubTx(c)
  <2> DEFINE sl == txn[t].slips \cup {call[c].slip}
             srow == MovedSub(sub[s], "UNDER_REVIEW")
             trow == MovedTxn(txn[t], "SUBMITTED", txn[t].approved, sl)
  <2>1. [txn[t] EXCEPT !.status = "SUBMITTED", !.slips = sl] = trow
    BY <1>r DEF MovedTxn, TxnRow
  <2>2. txn' = [txn EXCEPT ![t] = trow]
    <3>1. txn' = [txn EXCEPT ![t] = [txn[t] EXCEPT !.status = "SUBMITTED", !.slips = sl]]
      BY <1>1, <1>k, <1>r DEF UploadSubTx, TxnRow
    <3> QED BY <2>1, <3>1
  <2>3. sub' = [sub EXCEPT ![s] = srow] BY <1>1 DEF UploadSubTx, SetStatus, MovedSub
  <2>4. sl \in SUBSET Slips /\ txn[t].slips \subseteq sl /\ sl # {} BY <1>1, <1>e, <1>f
  <2> HIDE DEF sl
  <2>5. txn'[t] = trow => TxnMoved(t) BY <1>e, <1>t, <2>4
  <2>6. txn'[t] = trow => txn'[t].exists /\ txn'[t].sub = s /\ txn'[t].slips # {}
    BY <1>m, <2>4
  <2> HIDE DEF trow
  <2>7. sub'[s] = srow /\ txn'[t] = trow => SubMoved(s) BY <1>e, <1>k, <2>6 DEF SubMoved
  <2> QED BY <1>f, <1>k, <2>2, <2>3, <2>5, <2>7, SubAndTxn DEF SubStep, TxnStep
<1>2. CASE VerdictRejects(c)
  <2> DEFINE srow == MovedSub(sub[s], "CANCELLED")
             trow == MovedTxn(txn[t], "REJECTED", txn[t].approved, txn[t].slips)
  <2>1. [txn[t] EXCEPT !.status = "REJECTED"] = trow BY <1>r DEF MovedTxn, TxnRow
  <2>2. txn' = [txn EXCEPT ![t] = trow] BY <1>2, <2>1 DEF VerdictRejects
  <2>3. sub' = [sub EXCEPT ![s] = srow] BY <1>2 DEF VerdictRejects, SetStatus, MovedSub
  <2>5. txn'[t] = trow => TxnMoved(t) BY <1>e, <1>t
  <2> HIDE DEF trow
  <2>7. sub'[s] = srow => SubMoved(s) BY <1>e, <1>k DEF SubMoved
  <2> QED BY <1>f, <1>k, <2>2, <2>3, <2>5, <2>7, SubAndTxn DEF SubStep, TxnStep
<1>3. CASE VerdictApproves(c)
  <2> DEFINE srow == MovedSub(sub[s], "ACTIVE")
             trow == MovedTxn(txn[t], "APPROVED", TRUE, txn[t].slips)
  <2>1. [txn[t] EXCEPT !.status = "APPROVED", !.approved = TRUE] = trow
    BY <1>r DEF MovedTxn, TxnRow
  <2>2. txn' = [txn EXCEPT ![t] = trow]
    <3>1. txn' = [txn EXCEPT ![t] = [txn[t] EXCEPT !.status = "APPROVED", !.approved = TRUE]]
      BY <1>3, <1>k, <1>r DEF VerdictApproves, TxnRow
    <3> QED BY <2>1, <3>1
  <2>3. sub' = [sub EXCEPT ![s] = srow] BY <1>3 DEF VerdictApproves, SetStatus, MovedSub
  <2>5. txn'[t] = trow => TxnMoved(t) BY <1>e, <1>t
  <2>6. txn'[t] = trow => txn'[t].exists /\ txn'[t].sub = s /\ txn'[t].approved
    <3>1. trow.exists /\ trow.sub = s /\ trow.approved BY <1>k, <1>r DEF MovedTxn, TxnRow
    <3> QED BY <3>1
  <2> HIDE DEF trow
  <2>7. sub'[s] = srow /\ txn'[t] = trow => SubMoved(s) BY <1>e, <1>k, <2>6 DEF SubMoved
  <2> QED BY <1>f, <1>k, <2>2, <2>3, <2>5, <2>7, SubAndTxn DEF SubStep, TxnStep
<1>4. CASE VerdictLeaves(c)
  <2> DEFINE trow == MovedTxn(txn[t], "UNDER_REVIEW", txn[t].approved, txn[t].slips)
  <2>1. [txn[t] EXCEPT !.status = "UNDER_REVIEW"] = trow BY <1>r DEF MovedTxn, TxnRow
  <2>2. txn' = [txn EXCEPT ![t] = trow] BY <1>4, <2>1 DEF VerdictLeaves
  <2>3. sub' = sub BY <1>4 DEF VerdictLeaves, LeftToReview
  <2>5. txn'[t] = trow => TxnMoved(t) BY <1>e, <1>t
  <2> HIDE DEF trow
  <2> QED BY <1>f, <1>k, <2>2, <2>3, <2>5, OneTxn DEF TxnStep
<1> QED BY <1>1, <1>2, <1>3, <1>4

LEMMA DecisionWrites ==
    ASSUME SubsInv, NEW c \in Calls, ApproveSubTx(c) \/ RejectSubTx(c)
    PROVE  RowsStep
<1> DEFINE s == call[c].sub
<1>k. s \in Subs /\ sub[s].exists
  <2>1. Knows(call[c]) /\ Holds(call[c]) BY SlotFacts
  <2>2. call[c].pc \in {"approve_tx", "reject_tx"} BY DEF ApproveSubTx, RejectSubTx
  <2> QED BY <2>1, <2>2 DEF Knows, Holds, WithSub
<1>f. UNCHANGED <<plans, lot>> BY DEF ApproveSubTx, RejectSubTx
<1>r. /\ sub \in [Subs -> SubRow] /\ txn \in [Txns -> TxnRow] /\ call[c].exp \in Nat
      /\ lot \in [Lots -> LotRow]
  BY TableFacts DEF CallRow
<1>u. \A t \in Undecided(s) : t \in Txns /\ txn[t].exists /\ txn[t].status # "APPROVED"
  BY DEF Undecided, OfSub
<1>1. CASE ApproveSubTx(c)
  <2>1. /\ DOMAIN sub' = Subs /\ sub' = [x \in Subs |-> sub'[x]]
        /\ \A x \in Subs \ {s} : sub'[x] = sub[x]
    BY <1>1, <1>k, <1>r DEF ApproveSubTx
  <2>2. sub'[s] = [sub[s] EXCEPT !.status = "ACTIVE", !.exp = call[c].exp, !.admin = TRUE]
    BY <1>1, <1>k, <1>r DEF ApproveSubTx, SubRow
  <2>3. SubApproved(s) BY <1>k, <1>r, <2>2 DEF SubApproved
  <2>4. txn' = [t \in Txns |-> IF t \in Undecided(s)
                   THEN [txn[t] EXCEPT !.status = "APPROVED", !.approved = TRUE]
                   ELSE txn[t]]
    BY <1>1 DEF ApproveSubTx
  <2>5. ASSUME NEW t \in Txns PROVE TxnStep(t)
    <3>1. CASE t \notin Undecided(s) BY <2>4, <3>1 DEF TxnStep, TxnSame
    <3>2. CASE t \in Undecided(s)
      <4>1. txn[t] \in TxnRow BY <1>r
      <4>2. txn'[t] = [txn[t] EXCEPT !.status = "APPROVED", !.approved = TRUE] BY <2>4, <3>2
      <4>3. txn'[t] = MovedTxn(txn[t], "APPROVED", TRUE, txn[t].slips)
        BY <4>1, <4>2 DEF MovedTxn, TxnRow
      <4>4. "APPROVED" \in TxnStatus /\ txn[t].slips \in SUBSET Slips
        BY <4>1 DEF TxnRow, TxnStatus
      <4> QED BY <1>u, <3>2, <4>3, <4>4 DEF TxnMoved, TxnStep
    <3> QED BY <3>1, <3>2
  <2>6. txn' = [t \in Txns |-> txn'[t]] BY <2>4
  <2> QED BY <1>f, <1>r, <2>1, <2>3, <2>5, <2>6 DEF RowsStep, SubStep, SubSame, LotStep, LotSame
<1>2. CASE RejectSubTx(c)
  <2>1. sub' = [sub EXCEPT ![s] = MovedSub(sub[s], "CANCELLED")]
    BY <1>2 DEF RejectSubTx, SetStatus, MovedSub
  <2>2. "CANCELLED" \in SubscriptionStatus BY DEF SubscriptionStatus
  <2>3. sub'[s] = MovedSub(sub[s], "CANCELLED") BY <1>k, <1>r, <2>1
  <2>8. SubMoved(s) BY <1>k, <2>3, <2>2 DEF SubMoved
  <2>4. txn' = [t \in Txns |-> IF t \in Undecided(s)
                   THEN [txn[t] EXCEPT !.status = "REJECTED"] ELSE txn[t]]
    BY <1>2 DEF RejectSubTx
  <2>5. ASSUME NEW t \in Txns PROVE TxnStep(t)
    <3>1. CASE t \notin Undecided(s) BY <2>4, <3>1 DEF TxnStep, TxnSame
    <3>2. CASE t \in Undecided(s)
      <4>1. txn[t] \in TxnRow BY <1>r
      <4>2. txn'[t] = [txn[t] EXCEPT !.status = "REJECTED"] BY <2>4, <3>2
      <4>3. txn'[t] = MovedTxn(txn[t], "REJECTED", txn[t].approved, txn[t].slips)
        BY <4>1, <4>2 DEF MovedTxn, TxnRow
      <4>4. /\ "REJECTED" \in TxnStatus /\ txn[t].slips \in SUBSET Slips
            /\ txn[t].approved \in BOOLEAN
        BY <4>1 DEF TxnRow, TxnStatus
      <4> QED BY <1>u, <3>2, <4>3, <4>4 DEF TxnMoved, TxnStep
    <3> QED BY <3>1, <3>2
  <2>6. txn' = [t \in Txns |-> txn'[t]] BY <2>4
  <2> QED BY <1>f, <1>r, <2>1, <2>8, <2>5, <2>6 DEF RowsStep, SubStep, SubSame, LotStep, LotSame
<1> QED BY <1>1, <1>2

LEMMA LotteryWrites ==
    ASSUME SubsInv, NEW c \in Calls, CreateLottery(c) \/ LotteryWrite(c)
    PROVE  RowsStep
<1>k. call[c] \in CallRow /\ Knows(call[c]) /\ Holds(call[c]) BY SlotFacts
<1>r. /\ sub \in [Subs -> SubRow] /\ txn \in [Txns -> TxnRow] /\ lot \in [Lots -> LotRow]
  BY TableFacts
<1>1. CASE CreateLottery(c)
  <2> DEFINE s == call[c].sub
  <2>1. s \in Subs BY <1>1, <1>k DEF CreateLottery, Knows, WithSub, Charging
  <2>2. PICK l \in Lots :
          /\ ~lot[l].exists
          /\ lot' = [lot EXCEPT ![l] = [NoLot EXCEPT !.exists = TRUE, !.sub = s,
                                                   !.client = call[c].client]]
    BY <1>1 DEF CreateLottery, Newest
  <2>3. sub' = [sub EXCEPT ![s] = [sub[s] EXCEPT !.used = @ + 1]]
    BY <1>1 DEF CreateLottery, Charged
  <2>4. SubCharged(s) BY <1>1, <1>r, <2>1, <2>3 DEF SubCharged
  <2>5. LotNew(l) BY <1>1, <1>r, <2>2 DEF LotNew
  <2>6. UNCHANGED <<plans, txn>> BY <1>1 DEF CreateLottery
  <2>7. /\ \A x \in Subs \ {s} : sub'[x] = sub[x]
        /\ DOMAIN sub' = Subs /\ sub' = [x \in Subs |-> sub'[x]]
    BY <1>r, <2>1, <2>3
  <2>8. /\ \A x \in Lots \ {l} : lot'[x] = lot[x]
        /\ lot' = [x \in Lots |-> lot'[x]]
    BY <1>r, <2>2
  <2> QED BY <1>r, <2>4, <2>5, <2>6, <2>7, <2>8
          DEF RowsStep, SubStep, SubSame, TxnStep, TxnSame, LotStep, LotSame
<1>2. CASE LotteryWrite(c)
  <2>1. PICK st \in {"PUBLISHED", "CLOSED"} : lot' = [lot EXCEPT ![call[c].lot].status = st]
    BY <1>2 DEF LotteryWrite
  <2>2. call[c].lot \in Lots BY <1>2, <1>k DEF LotteryWrite, Knows
  <2>3. lot'[call[c].lot] = [lot[call[c].lot] EXCEPT !.status = st] BY <1>r, <2>1, <2>2
  <2>4. LotMoved(call[c].lot) BY <2>3 DEF LotMoved
  <2>5. UNCHANGED <<plans, sub, txn>> BY <1>2 DEF LotteryWrite
  <2>6. /\ \A x \in Lots \ {call[c].lot} : lot'[x] = lot[x]
        /\ lot' = [x \in Lots |-> lot'[x]]
    BY <1>r, <2>1, <2>2
  <2> QED BY <1>r, <2>4, <2>5, <2>6
          DEF RowsStep, SubStep, SubSame, TxnStep, TxnSame, LotStep, LotSame
<1> QED BY <1>1, <1>2

LEMMA EveryStepIsARowsStep ==
    ASSUME SubsInv, [SubNext]_subVars
    PROVE  RowsStep
<1>1. ASSUME NEW c \in Calls, Handler(c) PROVE RowsStep
  <2>1. CASE ~Writes(c) BY <1>1, <2>1, OthersLeaveTheRows, RowsUntouched
  <2>2. CASE Writes(c)
    BY <2>2, SubscriptionWrites, TransactionWrites, PaymentWrites, DecisionWrites, LotteryWrites
       DEF Writes
  <2> QED BY <2>1, <2>2
<1>2. CASE ExpireOverdue
  <2>1. sub' = [s \in Subs |->
                 IF sub[s].exists /\ sub[s].status = "ACTIVE"
                      /\ sub[s].exp # null /\ sub[s].exp < time
                 THEN MovedSub(sub[s], "EXPIRED") ELSE sub[s]]
    BY <1>2 DEF ExpireOverdue, MovedSub
  <2>2. "EXPIRED" \in SubscriptionStatus BY DEF SubscriptionStatus
  <2>3. ASSUME NEW s \in Subs PROVE SubStep(s)
    <3>1. CASE sub'[s] = sub[s] BY <3>1 DEF SubStep, SubSame
    <3>2. CASE sub'[s] # sub[s]
      <4>1. sub[s].exists /\ sub[s].status = "ACTIVE" /\ sub'[s] = MovedSub(sub[s], "EXPIRED")
        BY <2>1, <3>2
      <4> QED BY <2>2, <4>1 DEF SubStep, SubMoved
    <3> QED BY <3>1, <3>2
  <2>4. UNCHANGED <<plans, txn, lot>> BY <1>2 DEF ExpireOverdue
  <2>5. DOMAIN sub' = Subs /\ sub' = [s \in Subs |-> sub'[s]] BY <2>1
  <2> QED BY <2>3, <2>4, <2>5, TableFacts DEF RowsStep, TxnStep, TxnSame, LotStep, LotSame
<1>3. CASE SubTick BY <1>3, RowsUntouched DEF SubTick
<1>4. CASE UNCHANGED subVars BY <1>4, RowsUntouched DEF subVars
<1> QED BY <1>1, <1>2, <1>3, <1>4, StepKinds

-----------------------------------------------------------------------------
(* What follows from it *)

LEMMA IdsAreNumbers == Subs \subseteq Nat \ {0} /\ Txns \subseteq Nat \ {0}
BY SubAssumption DEF SubAssumption, Subs, Txns

LEMMA ChargedRows ==
    ASSUME SubsInv, NEW s \in Subs, SubCharged(s)
    PROVE  sub[s].exists /\ PaidFor(s)
<1>1. PICK c \in Calls : CreateLottery(c) /\ call[c].sub = s BY DEF SubCharged
<1>2. Holds(call[c]) /\ call[c].pc = "lot_tx" BY <1>1, SlotFacts DEF CreateLottery
<1> QED BY <1>1, <1>2 DEF Holds, WithSub, Charging

LEMMA SubRowKept ==
    ASSUME SubsInv, NEW s \in Subs, SubStep(s)
    PROVE  /\ sub'[s] \in SubRow
           /\ sub[s].exists =>
                /\ sub'[s].exists /\ sub'[s].plan = sub[s].plan
                /\ sub'[s].client = sub[s].client
                /\ sub[s].admin => sub'[s].admin
<1>r. sub[s] \in SubRow BY TableFacts
<1>1. CASE SubSame(s) BY <1>1, <1>r DEF SubSame
<1>2. CASE SubNew(s)
  <2>1. PICK cl \in Clients, p \in Plans, n \in Nat : sub'[s] = FreshSub(cl, p, n)
    BY <1>2 DEF SubNew
  <2>2. FreshSub(cl, p, n) \in SubRow BY DEF FreshSub, NoSub, SubRow, SubscriptionStatus
  <2> QED BY <1>2, <2>1, <2>2 DEF SubNew
<1>3. CASE SubMoved(s) BY <1>3, <1>r DEF SubMoved, MovedSub, SubRow
<1>4. CASE SubApproved(s) BY <1>4, <1>r DEF SubApproved, SubRow, SubscriptionStatus
<1>5. CASE SubCharged(s) BY <1>5, <1>r DEF SubCharged, SubRow
<1> QED BY <1>1, <1>2, <1>3, <1>4, <1>5 DEF SubStep

LEMMA TxnRowKept ==
    ASSUME SubsInv, NEW t \in Txns, TxnStep(t)
    PROVE  /\ txn'[t] \in TxnRow
           /\ txn[t].exists =>
                /\ txn'[t].exists /\ txn'[t].sub = txn[t].sub
                /\ txn[t].approved => txn'[t].approved
                /\ txn[t].slips \subseteq txn'[t].slips
           /\ ~txn[t].exists /\ txn'[t].exists =>
                txn'[t].sub \in Subs /\ sub[txn'[t].sub].exists
           /\ ~txn'[t].exists => ~txn[t].exists /\ txn'[t].status = txn[t].status
<1>r. txn[t] \in TxnRow BY TableFacts
<1>1. CASE TxnSame(t) BY <1>1, <1>r DEF TxnSame
<1>2. CASE TxnNew(t)
  <2>1. PICK s \in Subs, st \in {"INITIATED", "SUBMITTED"} :
          sub[s].exists /\ txn'[t] = FreshTxn(s, st)
    BY <1>2 DEF TxnNew
  <2>2. /\ FreshTxn(s, st) \in TxnRow /\ FreshTxn(s, st).exists /\ FreshTxn(s, st).sub = s
    BY IdsAreNumbers DEF FreshTxn, NoTxn, TxnRow, TxnStatus
  <2> QED BY <1>2, <2>1, <2>2 DEF TxnNew
<1>3. CASE TxnMoved(t)
  <2>1. PICK st \in TxnStatus, ap \in BOOLEAN, sl \in SUBSET Slips :
          /\ txn'[t] = MovedTxn(txn[t], st, ap, sl)
          /\ (txn[t].approved => ap) /\ txn[t].slips \subseteq sl
    BY <1>3 DEF TxnMoved
  <2>2. /\ MovedTxn(txn[t], st, ap, sl) \in TxnRow
        /\ MovedTxn(txn[t], st, ap, sl).exists = txn[t].exists
        /\ MovedTxn(txn[t], st, ap, sl).sub = txn[t].sub
        /\ MovedTxn(txn[t], st, ap, sl).slips = sl
    BY <1>r DEF MovedTxn, TxnRow
  <2>3. MovedTxn(txn[t], st, ap, sl).approved = ap BY <1>r DEF MovedTxn, TxnRow
  <2>4. txn[t].exists BY <1>3 DEF TxnMoved
  <2>5. txn[t].approved => txn'[t].approved BY <2>1, <2>3
  <2> QED BY <2>1, <2>2, <2>4, <2>5
<1> QED BY <1>1, <1>2, <1>3 DEF TxnStep

LEMMA LotRowKept ==
    ASSUME SubsInv, NEW l \in Lots, LotStep(l)
    PROVE  /\ lot'[l] \in LotRow
           /\ lot[l].exists => lot'[l].exists /\ lot'[l].sub = lot[l].sub
           /\ ~lot[l].exists /\ lot'[l].exists =>
                lot'[l].sub \in Subs /\ sub[lot'[l].sub].exists
<1>r. lot[l] \in LotRow BY TableFacts
<1>1. CASE LotSame(l) BY <1>1, <1>r DEF LotSame
<1>2. CASE LotNew(l)
  <2>1. PICK c \in Calls :
          /\ CreateLottery(c)
          /\ lot'[l] = [NoLot EXCEPT !.exists = TRUE, !.sub = call[c].sub,
                                     !.client = call[c].client]
    BY <1>2 DEF LotNew
  <2>2. /\ call[c].sub \in Subs /\ call[c].client \in Clients /\ sub[call[c].sub].exists
    BY <2>1, SlotFacts DEF CreateLottery, Knows, Holds, WithSub, Charging
  <2>3. /\ lot'[l].exists /\ lot'[l].sub = call[c].sub BY <2>1 DEF NoLot
  <2>4. lot'[l] \in LotRow BY <2>1, <2>2, IdsAreNumbers DEF NoLot, LotRow
  <2> QED BY <1>2, <2>2, <2>3, <2>4 DEF LotNew
<1>3. CASE LotMoved(l) BY <1>3, <1>r DEF LotMoved, LotRow
<1> QED BY <1>1, <1>2, <1>3 DEF LotStep

LEMMA PaidStaysPaid ==
    ASSUME SubsInv, RowsStep, NEW s \in Subs, sub[s].exists, PaidFor(s)
    PROVE  PaidFor(s)'
<1>1. CASE sub[s].admin BY <1>1, SubRowKept DEF PaidFor, RowsStep
<1>2. CASE \E t \in Txns : txn[t].exists /\ txn[t].sub = s /\ txn[t].approved
  <2>1. PICK t \in Txns : txn[t].exists /\ txn[t].sub = s /\ txn[t].approved BY <1>2
  <2>2. txn'[t].exists /\ txn'[t].sub = s /\ txn'[t].approved
    BY <2>1, TxnRowKept DEF RowsStep
  <2> QED BY <2>2 DEF PaidFor
<1> QED BY <1>1, <1>2 DEF PaidFor

LEMMA TermsStep ==
    ASSUME SubsInv, RowsStep
    PROVE  TermsArePaidFor'
<1> SUFFICES ASSUME NEW s \in Subs, sub'[s].status \in {"ACTIVE", "EXPIRED"} \/ sub'[s].used > 0
             PROVE  PaidFor(s)'
  BY DEF TermsArePaidFor
<1>r. sub[s] \in SubRow /\ SubStep(s) BY TableFacts DEF RowsStep
<1>x. ASSUME ~sub[s].exists, PaidFor(s), SubSame(s) PROVE PaidFor(s)'
  <2>1. CASE sub[s].admin BY <1>x, <2>1 DEF SubSame, PaidFor
  <2>2. CASE \E t \in Txns : txn[t].exists /\ txn[t].sub = s /\ txn[t].approved
    BY <2>2, TxnRowKept DEF RowsStep, PaidFor
  <2> QED BY <1>x, <2>1, <2>2 DEF PaidFor
<1>1. CASE SubSame(s)
  <2>1. PaidFor(s) BY <1>1 DEF SubSame, SubsInv, TermsArePaidFor
  <2> QED BY <1>1, <1>x, <2>1, PaidStaysPaid
<1>2. CASE SubNew(s)
  <2>1. PICK cl, p, n : sub'[s] = FreshSub(cl, p, n) BY <1>2 DEF SubNew
  <2>2. FreshSub(cl, p, n).status = "PENDING" /\ FreshSub(cl, p, n).used = 0
    BY DEF FreshSub, NoSub
  <2> QED BY <2>1, <2>2
<1>3. CASE SubMoved(s)
  <2>1. PICK st \in SubscriptionStatus :
          /\ sub'[s] = MovedSub(sub[s], st)
          /\ st = "ACTIVE" =>
               \E t \in Txns : txn'[t].exists /\ txn'[t].sub = s /\ txn'[t].approved
          /\ st = "EXPIRED" => sub[s].status = "ACTIVE"
    BY <1>3 DEF SubMoved
  <2>2. sub'[s].status = st /\ sub'[s].used = sub[s].used /\ sub[s].exists
    BY <1>3, <1>r, <2>1 DEF SubMoved, MovedSub, SubRow
  <2>3. CASE st = "ACTIVE" BY <2>1, <2>3 DEF PaidFor
  <2>4. CASE st # "ACTIVE"
    <3>1. PaidFor(s) BY <2>1, <2>2, <2>4 DEF SubsInv, TermsArePaidFor
    <3> QED BY <2>2, <3>1, PaidStaysPaid
  <2> QED BY <2>3, <2>4
<1>4. CASE SubApproved(s)
  <2>1. sub'[s].admin BY <1>4, <1>r DEF SubApproved, SubRow
  <2> QED BY <2>1 DEF PaidFor
<1>5. CASE SubCharged(s) BY <1>5, ChargedRows, PaidStaysPaid
<1> QED BY <1>r, <1>1, <1>2, <1>3, <1>4, <1>5 DEF SubStep

LEMMA ReviewersStep ==
    ASSUME SubsInv, RowsStep
    PROVE  ReviewsRestOnASlip'
<1> SUFFICES ASSUME NEW s \in Subs, sub'[s].status = "UNDER_REVIEW"
             PROVE  \E t \in Txns : txn'[t].exists /\ txn'[t].sub = s /\ txn'[t].slips # {}
  BY DEF ReviewsRestOnASlip
<1>r. sub[s] \in SubRow /\ SubStep(s) BY TableFacts DEF RowsStep
<1>k. ASSUME sub[s].status = "UNDER_REVIEW"
      PROVE  \E t \in Txns : txn'[t].exists /\ txn'[t].sub = s /\ txn'[t].slips # {}
  <2>1. PICK t \in Txns : txn[t].exists /\ txn[t].sub = s /\ txn[t].slips # {}
    BY <1>k DEF SubsInv, ReviewsRestOnASlip
  <2>2. /\ txn'[t].exists /\ txn'[t].sub = s /\ txn[t].slips \subseteq txn'[t].slips
    BY <2>1, TxnRowKept DEF RowsStep
  <2> QED BY <2>1, <2>2
<1>1. CASE SubSame(s) BY <1>1, <1>k DEF SubSame
<1>2. CASE SubNew(s)
  <2>1. PICK cl, p, n : sub'[s] = FreshSub(cl, p, n) BY <1>2 DEF SubNew
  <2>2. FreshSub(cl, p, n).status = "PENDING" BY DEF FreshSub, NoSub
  <2> QED BY <2>1, <2>2
<1>3. CASE SubMoved(s)
  <2>1. PICK st \in SubscriptionStatus :
          /\ sub'[s] = MovedSub(sub[s], st)
          /\ st = "UNDER_REVIEW" =>
               \E t \in Txns : txn'[t].exists /\ txn'[t].sub = s /\ txn'[t].slips # {}
    BY <1>3 DEF SubMoved
  <2>2. sub'[s].status = st BY <1>r, <2>1 DEF MovedSub, SubRow
  <2> QED BY <2>1, <2>2
<1>4. CASE SubApproved(s) BY <1>4, <1>r DEF SubApproved, SubRow
<1>5. CASE SubCharged(s)
  <2>1. sub'[s].status = sub[s].status BY <1>5, <1>r DEF SubCharged, SubRow
  <2> QED BY <1>k, <2>1
<1> QED BY <1>r, <1>1, <1>2, <1>3, <1>4, <1>5 DEF SubStep

LEMMA RowsReferStep ==
    ASSUME SubsInv, RowsStep
    PROVE  RowsRefer'
<1>1. ASSUME NEW s \in Subs, sub'[s].exists
      PROVE  sub'[s].client \in Clients /\ sub'[s].plan \in Plans
  <2>1. CASE sub[s].exists BY <2>1, SubRowKept DEF RowsStep, SubsInv, RowsRefer
  <2>2. CASE ~sub[s].exists
    <3>1. SubStep(s) BY DEF RowsStep
    <3>2. CASE SubSame(s) BY <1>1, <2>2, <3>2 DEF SubSame
    <3>3. CASE SubNew(s)
      <4>1. PICK cl \in Clients, p \in Plans, n \in Nat : sub'[s] = FreshSub(cl, p, n)
        BY <3>3 DEF SubNew
      <4>2. FreshSub(cl, p, n).client = cl /\ FreshSub(cl, p, n).plan = p
        BY DEF FreshSub, NoSub
      <4> QED BY <4>1, <4>2
    <3> QED BY <2>2, <3>1, <3>2, <3>3, ChargedRows DEF SubStep, SubMoved, SubApproved
  <2> QED BY <2>1, <2>2
<1>2. ASSUME NEW t \in Txns
      PROVE  /\ txn'[t].exists => txn'[t].sub \in Subs /\ sub'[txn'[t].sub].exists
             /\ ~txn'[t].exists => txn'[t].status = "INITIATED"
  <2>1. /\ txn[t].exists => txn[t].sub \in Subs /\ sub[txn[t].sub].exists
        /\ ~txn[t].exists => txn[t].status = "INITIATED"
    BY DEF SubsInv, RowsRefer
  <2>2. TxnStep(t) /\ \A s \in Subs : sub[s].exists => sub'[s].exists
    BY SubRowKept DEF RowsStep
  <2> QED BY <2>1, <2>2, TxnRowKept
<1>3. ASSUME NEW l \in Lots, lot'[l].exists
      PROVE  lot'[l].sub \in Subs /\ sub'[lot'[l].sub].exists
  <2>1. lot[l].exists => lot[l].sub \in Subs /\ sub[lot[l].sub].exists
    BY DEF SubsInv, RowsRefer
  <2>2. LotStep(l) /\ \A s \in Subs : sub[s].exists => sub'[s].exists
    BY SubRowKept DEF RowsStep
  <2> QED BY <1>3, <2>1, <2>2, LotRowKept
<1> QED BY <1>1, <1>2, <1>3 DEF RowsRefer

(* What a handler holds stays true while the others work. *)
LEMMA HeldStaysHeld ==
    ASSUME SubsInv, RowsStep, NEW r, KnownRecord(r), Holds(r)
    PROVE  Holds(r)'
<1>1. \A s \in Subs : sub[s].exists => sub'[s].exists /\ sub'[s].plan = sub[s].plan
  BY SubRowKept DEF RowsStep
<1>2. \A t \in Txns : txn[t].exists =>
        txn'[t].exists /\ txn'[t].sub = txn[t].sub /\ txn[t].slips \subseteq txn'[t].slips
  BY TxnRowKept DEF RowsStep
<1>3. r.pc \in WithSub => r.sub \in Subs /\ sub[r.sub].exists /\ sub'[r.sub].exists
  BY <1>1 DEF KnownRecord, Knows, Holds
<1>4. r.pc \in Paying \/ (r.pc = "submit_txn" /\ r.txn # 0) =>
        r.txn \in Txns /\ txn'[r.txn].exists /\ txn'[r.txn].sub = r.sub
  BY <1>2 DEF KnownRecord, Knows, Holds
<1>5. r.pc = "submit_status" => txn'[r.txn].slips # {}
  <2>1. r.pc = "submit_status" => r.txn \in Txns /\ txn[r.txn].exists /\ txn[r.txn].slips # {}
    BY DEF KnownRecord, Knows, Holds, Paying
  <2> QED BY <1>2, <2>1
<1>6. r.pc \in Charging => PaidFor(r.sub)' /\ r.plan = sub'[r.sub].plan
  <2>1. r.pc \in Charging => /\ r.sub \in Subs /\ sub[r.sub].exists /\ PaidFor(r.sub)
                             /\ r.plan = sub[r.sub].plan
    BY <1>3 DEF Holds, WithSub
  <2> QED BY <1>1, <2>1, PaidStaysPaid
<1>7. r.pc = "lot_tx" => r.used < Quota[r.plan] BY DEF Holds
<1> QED BY <1>3, <1>4, <1>5, <1>6, <1>7 DEF Holds

-----------------------------------------------------------------------------
(* What a step puts into a handler's slot *)

Fields(r, q) ==
    /\ r.client = q.client /\ r.plan = q.plan /\ r.sub = q.sub /\ r.slip = q.slip
    /\ r.used = q.used /\ r.lot = q.lot

LEMMA RecordsTyped ==
    ASSUME NEW pc \in CallPcs, NEW s \in Nat, NEW n \in Nat, NEW t \in Nat
    PROVE  /\ Quiet \in CallRow
           /\ [Quiet EXCEPT !.pc = pc, !.sub = s] \in CallRow
           /\ [Quiet EXCEPT !.pc = pc, !.sub = s, !.exp = n] \in CallRow
           /\ [Quiet EXCEPT !.lot = t, !.pc = pc] \in CallRow
           /\ \A f \in Slips :
                /\ [Quiet EXCEPT !.pc = pc, !.sub = s, !.slip = f] \in CallRow
                /\ [Quiet EXCEPT !.pc = pc, !.txn = t, !.sub = s, !.slip = f] \in CallRow
           /\ \A cl \in Clients, p \in Plans :
                /\ [Quiet EXCEPT !.pc = pc, !.client = cl, !.plan = p, !.cycle = n] \in CallRow
                /\ [Quiet EXCEPT !.pc = pc, !.sub = s, !.plan = p, !.cycle = n,
                                 !.client = cl] \in CallRow
                /\ [Quiet EXCEPT !.pc = pc, !.sub = s, !.used = n, !.client = cl,
                                 !.plan = p] \in CallRow
<1> USE DEF Quiet, CallRow, CallPcs
<1>1. Quiet \in CallRow OBVIOUS
<1>2. [Quiet EXCEPT !.pc = pc, !.sub = s] \in CallRow OBVIOUS
<1>3. [Quiet EXCEPT !.pc = pc, !.sub = s, !.exp = n] \in CallRow OBVIOUS
<1>4. [Quiet EXCEPT !.lot = t, !.pc = pc] \in CallRow OBVIOUS
<1>5. ASSUME NEW f \in Slips
      PROVE  [Quiet EXCEPT !.pc = pc, !.sub = s, !.slip = f] \in CallRow
  OBVIOUS
<1>6. ASSUME NEW f \in Slips
      PROVE  [Quiet EXCEPT !.pc = pc, !.txn = t, !.sub = s, !.slip = f] \in CallRow
  OBVIOUS
<1>7. ASSUME NEW cl \in Clients, NEW p \in Plans
      PROVE  [Quiet EXCEPT !.pc = pc, !.client = cl, !.plan = p, !.cycle = n] \in CallRow
  OBVIOUS
<1>8. ASSUME NEW cl \in Clients, NEW p \in Plans
      PROVE  [Quiet EXCEPT !.pc = pc, !.sub = s, !.plan = p, !.cycle = n,
                           !.client = cl] \in CallRow
  OBVIOUS
<1>9. ASSUME NEW cl \in Clients, NEW p \in Plans
      PROVE  [Quiet EXCEPT !.pc = pc, !.sub = s, !.used = n, !.client = cl,
                           !.plan = p] \in CallRow
  OBVIOUS
<1> HIDE DEF Quiet, CallRow, CallPcs
<1> QED BY <1>1, <1>2, <1>3, <1>4, <1>5, <1>6, <1>7, <1>8, <1>9

LEMMA RecordsAdvance ==
    ASSUME NEW r \in CallRow, NEW pc \in CallPcs
    PROVE  /\ [r EXCEPT !.pc = pc] \in CallRow
           /\ [r EXCEPT !.pc = pc].pc = pc /\ [r EXCEPT !.pc = pc].txn = r.txn
           /\ Fields([r EXCEPT !.pc = pc], r)
           /\ \A t \in Nat : /\ [r EXCEPT !.pc = pc, !.txn = t] \in CallRow
                             /\ [r EXCEPT !.pc = pc, !.txn = t].pc = pc
                             /\ [r EXCEPT !.pc = pc, !.txn = t].txn = t
                             /\ Fields([r EXCEPT !.pc = pc, !.txn = t], r)
BY DEF CallRow, Fields

Counting == calls' \in Nat /\ failures' \in Nat
SlotTaken(c) ==
    /\ Counting
    /\ \E rec : KnownRecord(rec) /\ Holds(rec)' /\ call' = [call EXCEPT ![c] = rec]

LEMMA QuietRecord == KnownRecord(Quiet) /\ Holds(Quiet)'
<1>1. Quiet.pc = "idle" BY DEF Quiet
<1>2. Quiet \in CallRow
  <2>1. "idle" \in CallPcs /\ 0 \in Nat BY DEF CallPcs
  <2> QED BY <2>1, RecordsTyped
<1> QED BY <1>1, <1>2
        DEF KnownRecord, Knows, Holds, Ordering, Charging, WithSub, Paying

LEMMA SlotWritten ==
    ASSUME SubsInv, RowsStep, NEW c \in Calls
    PROVE  /\ Done(c) /\ Counting => SlotTaken(c)
           /\ \A rec : Begin(c, rec) /\ KnownRecord(rec) /\ Holds(rec)
                         /\ failures' = failures => SlotTaken(c)
           /\ \A pc \in CallPcs : \A rec :
                /\ Advance(c, pc) /\ Counting /\ rec = [call[c] EXCEPT !.pc = pc]
                /\ Knows(rec) /\ (Holds(rec) \/ Holds(rec)')
                => SlotTaken(c)
<1>k. call[c] \in CallRow BY TableFacts
<1>1. Done(c) /\ Counting => SlotTaken(c) BY QuietRecord DEF Done, SlotTaken
<1>2. ASSUME NEW rec, Begin(c, rec), KnownRecord(rec), Holds(rec), failures' = failures
      PROVE  SlotTaken(c)
  <2>1. Counting BY <1>2, TableFacts DEF Begin, Counting
  <2>2. Holds(rec)' BY <1>2, HeldStaysHeld
  <2> QED BY <1>2, <2>1, <2>2 DEF Begin, SlotTaken
<1>3. ASSUME NEW pc \in CallPcs, NEW rec, Advance(c, pc), Counting,
             rec = [call[c] EXCEPT !.pc = pc], Knows(rec), Holds(rec) \/ Holds(rec)'
      PROVE  SlotTaken(c)
  <2>1. KnownRecord(rec) BY <1>k, <1>3, RecordsAdvance DEF KnownRecord
  <2>2. call' = [call EXCEPT ![c] = rec] BY <1>3, TableFacts DEF Advance
  <2>3. Holds(rec)' BY <1>3, <2>1, HeldStaysHeld
  <2> QED BY <1>3, <2>1, <2>2, <2>3 DEF SlotTaken
<1> QED BY <1>1, <1>2, <1>3

(* A request puts rec into its slot. *)
LEMMA RequestsTakeTheirSlot ==
    ASSUME SubsInv, RowsStep, NEW c \in Calls, NEW rec, Begin(c, rec), failures' = failures,
           rec \in CallRow, Knows(rec), Holds(rec)
    PROVE  SlotTaken(c)
BY SlotWritten DEF KnownRecord

LEMMA ClientRequests ==
    ASSUME SubsInv, RowsStep, NEW c \in Calls,
           SubscribeRead(c) \/ SubmitRead(c) \/ CancelActiveRead(c) \/ UpgradeRead(c)
    PROVE  SlotTaken(c)
<1>p. {"subscribe_check", "submit_find", "cancel_write", "upgrade_cancel"} \subseteq CallPcs
  BY DEF CallPcs
<1>c. Cycles \subseteq Nat /\ Subs \subseteq Nat /\ plans \subseteq Plans
  BY SubAssumption, IdsAreNumbers, TableFacts DEF SubAssumption
<1>1. CASE SubscribeRead(c)
  <2>1. PICK cl \in Clients, p \in plans, n \in Cycles :
          Begin(c, [Quiet EXCEPT !.pc = "subscribe_check", !.client = cl,
                                 !.plan = p, !.cycle = n])
    BY <1>1 DEF SubscribeRead
  <2>2. PICK rec : rec = [Quiet EXCEPT !.pc = "subscribe_check", !.client = cl,
                                       !.plan = p, !.cycle = n]
    OBVIOUS
  <2>3. rec \in CallRow BY <1>c, <1>p, <2>2, IdsAreNumbers, RecordsTyped
  <2>4. rec.pc = "subscribe_check" /\ rec.client = cl /\ rec.plan = p BY <2>2 DEF Quiet
  <2>5. Knows(rec) /\ Holds(rec)
    BY <1>c, <2>4 DEF Knows, Holds, Ordering, Charging, WithSub, Paying
  <2>6. Begin(c, rec) /\ failures' = failures
    BY <1>1, <2>1, <2>2 DEF SubscribeRead, rowsAndClock
  <2> QED BY <2>3, <2>5, <2>6, RequestsTakeTheirSlot
<1>2. CASE SubmitRead(c)
  <2>1. PICK s \in Subs, f \in Slips :
          /\ sub[s].exists
          /\ Begin(c, [Quiet EXCEPT !.pc = "submit_find", !.sub = s, !.slip = f])
    BY <1>2 DEF SubmitRead
  <2>2. PICK rec : rec = [Quiet EXCEPT !.pc = "submit_find", !.sub = s, !.slip = f]
    OBVIOUS
  <2>3. rec \in CallRow BY <1>c, <1>p, <2>2, RecordsTyped
  <2>4. rec.pc = "submit_find" /\ rec.sub = s /\ rec.slip = f BY <2>2 DEF Quiet
  <2>5. Knows(rec) /\ Holds(rec)
    BY <2>1, <2>4 DEF Knows, Holds, Ordering, Charging, WithSub, Paying
  <2>6. Begin(c, rec) /\ failures' = failures
    BY <1>2, <2>1, <2>2 DEF SubmitRead, rowsAndClock
  <2> QED BY <2>3, <2>5, <2>6, RequestsTakeTheirSlot
<1>3. CASE CancelActiveRead(c)
  <2>1. PICK s \in Subs :
          sub[s].exists /\ Begin(c, [Quiet EXCEPT !.pc = "cancel_write", !.sub = s])
    BY <1>3 DEF CancelActiveRead
  <2>2. PICK rec : rec = [Quiet EXCEPT !.pc = "cancel_write", !.sub = s] OBVIOUS
  <2>3. rec \in CallRow BY <1>c, <1>p, <2>2, RecordsTyped
  <2>4. rec.pc = "cancel_write" /\ rec.sub = s BY <2>2 DEF Quiet
  <2>5. Knows(rec) /\ Holds(rec)
    BY <2>1, <2>4 DEF Knows, Holds, Ordering, Charging, WithSub, Paying
  <2>6. Begin(c, rec) /\ failures' = failures
    BY <1>3, <2>1, <2>2 DEF CancelActiveRead, rowsAndClock
  <2> QED BY <2>3, <2>5, <2>6, RequestsTakeTheirSlot
<1>4. CASE UpgradeRead(c)
  <2>1. PICK s \in Subs, p \in plans, n \in Cycles :
          /\ sub[s].exists
          /\ Begin(c, [Quiet EXCEPT !.pc = "upgrade_cancel", !.sub = s, !.plan = p,
                                    !.cycle = n, !.client = sub[s].client])
    BY <1>4 DEF UpgradeRead
  <2>2. PICK rec : rec = [Quiet EXCEPT !.pc = "upgrade_cancel", !.sub = s, !.plan = p,
                                       !.cycle = n, !.client = sub[s].client]
    OBVIOUS
  <2>a. sub[s].client \in Clients BY <2>1 DEF SubsInv, RowsRefer
  <2>3. rec \in CallRow BY <1>c, <1>p, <2>a, <2>2, RecordsTyped
  <2>4. /\ rec.pc = "upgrade_cancel" /\ rec.sub = s /\ rec.plan = p
        /\ rec.client = sub[s].client
    BY <2>2 DEF Quiet
  <2>5. Knows(rec) /\ Holds(rec)
    BY <1>c, <2>1, <2>a, <2>4 DEF Knows, Holds, Ordering, Charging, WithSub, Paying
  <2>6. Begin(c, rec) /\ failures' = failures
    BY <1>4, <2>1, <2>2 DEF UpgradeRead, rowsAndClock
  <2> QED BY <2>3, <2>5, <2>6, RequestsTakeTheirSlot
<1> QED BY <1>1, <1>2, <1>3, <1>4

LEMMA OtherRequests ==
    ASSUME SubsInv, RowsStep, NEW c \in Calls,
           \/ DeletePlanRead(c) \/ ApproveSubRead(c) \/ RejectSubRead(c) \/ InitiateSubRead(c)
           \/ UploadSubRead(c) \/ ValidateRead(c) \/ LotteryRead(c)
    PROVE  SlotTaken(c)
<1>p. {"plan_delete", "approve_tx", "reject_tx", "initiate_create", "upload_check",
       "lot_count", "publish_write", "close_write"} \subseteq CallPcs
  BY DEF CallPcs
<1>c. Subs \subseteq Nat /\ Txns \subseteq Nat /\ plans \subseteq Plans /\ Lots \subseteq Nat
  BY SubAssumption, IdsAreNumbers, TableFacts DEF SubAssumption, Lots
<1>1. CASE DeletePlanRead(c)
  <2>1. PICK p \in plans : Begin(c, [Quiet EXCEPT !.pc = "plan_delete", !.plan = p])
    BY <1>1 DEF DeletePlanRead
  <2>2. PICK rec : rec = [Quiet EXCEPT !.pc = "plan_delete", !.plan = p] OBVIOUS
  <2>3. rec \in CallRow BY <1>c, <1>p, <2>2 DEF Quiet, CallRow
  <2>4. rec.pc = "plan_delete" BY <2>2 DEF Quiet
  <2>5. Knows(rec) /\ Holds(rec)
    BY <2>4 DEF Knows, Holds, Ordering, Charging, WithSub, Paying
  <2>6. Begin(c, rec) /\ failures' = failures
    BY <1>1, <2>1, <2>2 DEF DeletePlanRead, rowsAndClock
  <2> QED BY <2>3, <2>5, <2>6, RequestsTakeTheirSlot
<1>2. CASE ApproveSubRead(c)
  <2>1. PICK s \in Subs :
          /\ sub[s].exists
          /\ Begin(c, [Quiet EXCEPT !.pc = "approve_tx", !.sub = s,
                                    !.exp = BaseDate(s) + sub[s].cycle])
    BY <1>2 DEF ApproveSubRead
  <2>2. PICK rec : rec = [Quiet EXCEPT !.pc = "approve_tx", !.sub = s,
                                       !.exp = BaseDate(s) + sub[s].cycle]
    OBVIOUS
  <2>a. BaseDate(s) + sub[s].cycle \in Nat
    <3>1. sub[s].cycle \in Nat /\ time \in Nat /\ sub[s].exp \in Nat \cup {null}
      BY TableFacts DEF SubRow
    <3>2. BaseDate(s) \in Nat BY <3>1 DEF BaseDate
    <3> QED BY <3>1, <3>2
  <2>3. rec \in CallRow BY <1>c, <1>p, <2>a, <2>2, RecordsTyped
  <2>4. rec.pc = "approve_tx" /\ rec.sub = s BY <2>2 DEF Quiet
  <2>5. Knows(rec) /\ Holds(rec)
    BY <2>1, <2>4 DEF Knows, Holds, Ordering, Charging, WithSub, Paying
  <2>6. Begin(c, rec) /\ failures' = failures
    BY <1>2, <2>1, <2>2 DEF ApproveSubRead, rowsAndClock
  <2> QED BY <2>3, <2>5, <2>6, RequestsTakeTheirSlot
<1>3. CASE RejectSubRead(c) \/ InitiateSubRead(c)
  <2>1. PICK pc \in {"reject_tx", "initiate_create"}, s \in Subs :
          sub[s].exists /\ Begin(c, [Quiet EXCEPT !.pc = pc, !.sub = s])
    BY <1>3 DEF RejectSubRead, InitiateSubRead
  <2>2. PICK rec : rec = [Quiet EXCEPT !.pc = pc, !.sub = s] OBVIOUS
  <2>3. rec \in CallRow BY <1>c, <1>p, <2>2, RecordsTyped
  <2>4. rec.pc = pc /\ rec.sub = s BY <2>2 DEF Quiet
  <2>5. Knows(rec) /\ Holds(rec)
    BY <2>1, <2>4 DEF Knows, Holds, Ordering, Charging, WithSub, Paying
  <2>6. Begin(c, rec) /\ failures' = failures
    BY <1>3, <2>1, <2>2 DEF RejectSubRead, InitiateSubRead, rowsAndClock
  <2> QED BY <2>3, <2>5, <2>6, RequestsTakeTheirSlot
<1>4. CASE UploadSubRead(c)
  <2>1. PICK t \in Txns, f \in Slips :
          /\ txn[t].exists
          /\ Begin(c, [Quiet EXCEPT !.pc = "upload_check", !.txn = t, !.sub = txn[t].sub,
                                    !.slip = f])
    BY <1>4 DEF UploadSubRead
  <2>2. PICK rec : rec = [Quiet EXCEPT !.pc = "upload_check", !.txn = t, !.sub = txn[t].sub,
                                       !.slip = f]
    OBVIOUS
  <2>a. txn[t].sub \in Subs /\ sub[txn[t].sub].exists BY <2>1 DEF SubsInv, RowsRefer
  <2>3. rec \in CallRow BY <1>c, <1>p, <2>a, <2>2, RecordsTyped
  <2>4. rec.pc = "upload_check" /\ rec.sub = txn[t].sub /\ rec.txn = t /\ rec.slip = f
    BY <2>2 DEF Quiet
  <2>5. Knows(rec) /\ Holds(rec)
    BY <2>1, <2>a, <2>4 DEF Knows, Holds, Ordering, Charging, WithSub, Paying
  <2>6. Begin(c, rec) /\ failures' = failures
    BY <1>4, <2>1, <2>2 DEF UploadSubRead, rowsAndClock
  <2> QED BY <2>3, <2>5, <2>6, RequestsTakeTheirSlot
<1>5. CASE ValidateRead(c)
  <2>1. PICK s \in Subs :
          /\ sub[s].exists /\ sub[s].status = "ACTIVE"
          /\ Begin(c, [Quiet EXCEPT !.pc = "lot_count", !.sub = s, !.used = sub[s].used,
                                    !.client = sub[s].client, !.plan = sub[s].plan])
    BY <1>5 DEF ValidateRead
  <2>2. PICK rec : rec = [Quiet EXCEPT !.pc = "lot_count", !.sub = s, !.used = sub[s].used,
                                       !.client = sub[s].client, !.plan = sub[s].plan]
    OBVIOUS
  <2>a. /\ sub[s].client \in Clients /\ sub[s].plan \in Plans /\ sub[s].used \in Nat
        /\ PaidFor(s)
    BY <2>1, TableFacts DEF SubsInv, RowsRefer, TermsArePaidFor, SubRow
  <2>3. rec \in CallRow BY <1>c, <1>p, <2>a, <2>2, RecordsTyped
  <2>4. /\ rec.pc = "lot_count" /\ rec.sub = s /\ rec.client = sub[s].client
        /\ rec.plan = sub[s].plan
    BY <2>2 DEF Quiet
  <2>5. Knows(rec) /\ Holds(rec)
    BY <2>1, <2>a, <2>4 DEF Knows, Holds, Ordering, Charging, WithSub, Paying
  <2>6. Begin(c, rec) /\ failures' = failures
    BY <1>5, <2>1, <2>2 DEF ValidateRead, rowsAndClock
  <2> QED BY <2>3, <2>5, <2>6, RequestsTakeTheirSlot
<1>6. CASE LotteryRead(c)
  <2>1. PICK l \in Lots, o \in {"publish", "close"} :
          /\ Begin(c, [Quiet EXCEPT !.lot = l,
                         !.pc = IF o = "publish" THEN "publish_write" ELSE "close_write"])
          /\ failures' = failures
    BY <1>6 DEF LotteryRead, rowsAndClock
  <2>b. PICK pc \in {"publish_write", "close_write"} :
          pc = IF o = "publish" THEN "publish_write" ELSE "close_write"
    OBVIOUS
  <2>2. PICK rec : rec = [Quiet EXCEPT !.lot = l, !.pc = pc] OBVIOUS
  <2>3. rec \in CallRow BY <1>c, <1>p, <2>2, RecordsTyped
  <2>4. rec.pc = pc /\ rec.lot = l BY <2>2 DEF Quiet
  <2>5. Knows(rec) /\ Holds(rec)
    BY <2>1, <2>4 DEF Knows, Holds, Ordering, Charging, WithSub, Paying
  <2>6. Begin(c, rec) /\ failures' = failures BY <2>1, <2>2, <2>b
  <2> QED BY <2>3, <2>5, <2>6, RequestsTakeTheirSlot
<1> QED BY <1>1, <1>2, <1>3, <1>4, <1>5, <1>6

(* Statements that end their handler. *)
LEMMA LastStatements ==
    ASSUME SubsInv, RowsStep, NEW c \in Calls,
           \/ CreateSubscription(c) \/ SubmitStatus(c) \/ CancelActiveWrite(c)
           \/ DeletePlanWrite(c) \/ ApproveSubTx(c) \/ RejectSubTx(c)
           \/ InitiateSubStatus(c) \/ VerdictRejects(c) \/ VerdictApproves(c)
           \/ VerdictLeaves(c) \/ CreateLottery(c) \/ LotteryWrite(c) \/ CallFails(c)
    PROVE  SlotTaken(c)
<1>1. Done(c)
  BY DEF CreateSubscription, SubmitStatus, CancelActiveWrite, DeletePlanWrite, ApproveSubTx,
     RejectSubTx, InitiateSubStatus, VerdictRejects, VerdictApproves, VerdictLeaves,
     CreateLottery, LotteryWrite, CallFails
<1>2. calls' = calls /\ (failures' = failures \/ failures' = failures + 1)
  BY DEF CreateSubscription, SubmitStatus, CancelActiveWrite, DeletePlanWrite, ApproveSubTx,
     RejectSubTx, InitiateSubStatus, VerdictRejects, VerdictApproves, VerdictLeaves,
     CreateLottery, LotteryWrite, CallFails, clock
<1>3. Counting BY <1>2, TableFacts DEF Counting
<1> QED BY <1>1, <1>3, SlotWritten

(* Statements their handler goes on from. *)
LEMMA MiddleStatements ==
    ASSUME SubsInv, RowsStep, NEW c \in Calls,
           \/ SubscribeCheck(c) \/ SubmitFind(c) \/ SubmitCreate(c) \/ SubmitReuse(c)
           \/ SubmitSlip(c) \/ UpgradeCancel(c) \/ InitiateSubCreate(c) \/ UploadSubCheck(c)
           \/ UploadSubTx(c) \/ ValidateCount(c)
    PROVE  SlotTaken(c)
<1>k. call[c] \in CallRow /\ Knows(call[c]) /\ Holds(call[c]) BY SlotFacts
<1>p. {"subscribe_create", "submit_txn", "submit_slip", "submit_status", "upgrade_create",
       "initiate_status", "upload_tx", "verify", "lot_tx"} \subseteq CallPcs
  BY DEF CallPcs
<1>n. Counting
  <2>1. calls' = calls /\ failures' = failures
    BY DEF SubscribeCheck, SubmitFind, SubmitCreate, SubmitReuse, SubmitSlip, UpgradeCancel,
       InitiateSubCreate, UploadSubCheck, UploadSubTx, ValidateCount, clock
  <2> QED BY <2>1, TableFacts DEF Counting
<1>d. Done(c) => SlotTaken(c) BY <1>n, SlotWritten
<1>a. ASSUME NEW pc \in CallPcs, Advance(c, pc),
             \A rec : rec.pc = pc /\ rec.txn = call[c].txn /\ Fields(rec, call[c])
                        => Knows(rec) /\ (Holds(rec) \/ Holds(rec)')
      PROVE  SlotTaken(c)
  <2>1. PICK rec : rec = [call[c] EXCEPT !.pc = pc] OBVIOUS
  <2>2. rec.pc = pc /\ rec.txn = call[c].txn /\ Fields(rec, call[c])
    BY <1>k, <2>1, RecordsAdvance
  <2> QED BY <1>a, <1>n, <2>1, <2>2, SlotWritten
<1> USE DEF Fields
<1>1. CASE SubscribeCheck(c)
  <2>1. call[c].client \in Clients /\ call[c].plan \in Plans
    BY <1>1, <1>k DEF SubscribeCheck, Knows, Ordering
  <2>2. \A rec : rec.pc = "subscribe_create" /\ Fields(rec, call[c]) => Knows(rec) /\ Holds(rec)
    BY <2>1 DEF Knows, Holds, Ordering, Charging, WithSub, Paying
  <2> QED BY <1>1, <1>a, <1>d, <1>p, <2>2 DEF SubscribeCheck
<1>2. CASE UpgradeCancel(c)
  <2>1. call[c].client \in Clients /\ call[c].plan \in Plans
    BY <1>2, <1>k DEF UpgradeCancel, Knows, Ordering
  <2>2. \A rec : rec.pc = "upgrade_create" /\ Fields(rec, call[c]) => Knows(rec) /\ Holds(rec)
    BY <2>1 DEF Knows, Holds, Ordering, Charging, WithSub, Paying
  <2> QED BY <1>2, <1>a, <1>p, <2>2 DEF UpgradeCancel
<1>3. CASE SubmitFind(c)
  <2>1. PICK t \in OfSub(call[c].sub) \cup {0} :
          call' = [call EXCEPT ![c] = [call[c] EXCEPT !.pc = "submit_txn", !.txn = t]]
    BY <1>3 DEF SubmitFind, Proceed
  <2>2. t # 0 => t \in Txns /\ txn[t].exists /\ txn[t].sub = call[c].sub
    BY <2>1 DEF OfSub
  <2>3. PICK rec : rec = [call[c] EXCEPT !.pc = "submit_txn", !.txn = t] OBVIOUS
  <2>4. t \in Nat
    <3>1. CASE t = 0 BY <3>1
    <3>2. CASE t # 0 BY <2>2, <3>2, IdsAreNumbers
    <3> QED BY <3>1, <3>2
  <2>5. rec \in CallRow /\ rec.pc = "submit_txn" /\ rec.txn = t /\ Fields(rec, call[c])
    <3>1. "submit_txn" \in CallPcs BY <1>p
    <3> QED BY <1>k, <2>3, <2>4, <3>1 DEF CallRow
  <2>6. call[c].sub \in Subs /\ sub[call[c].sub].exists /\ call[c].slip \in Slips
    BY <1>3, <1>k DEF SubmitFind, Knows, Holds, WithSub
  <2>7. Knows(rec) /\ Holds(rec)
    BY <2>2, <2>5, <2>6 DEF Knows, Holds, Ordering, Charging, WithSub, Paying
  <2>8. Holds(rec)' BY <2>5, <2>7, HeldStaysHeld DEF KnownRecord
  <2> QED BY <1>n, <2>1, <2>3, <2>5, <2>7, <2>8 DEF SlotTaken, KnownRecord
<1>4. CASE SubmitCreate(c)
  <2>1. PICK t \in Txns :
          /\ txn' = [txn EXCEPT ![t] = FreshTxn(call[c].sub, "SUBMITTED")]
          /\ call' = [call EXCEPT ![c] = [call[c] EXCEPT !.pc = "submit_slip", !.txn = t]]
    BY <1>4 DEF SubmitCreate, Proceed, AfterTransaction, FreshTxn
  <2>2. txn'[t].exists /\ txn'[t].sub = call[c].sub BY <2>1, TableFacts DEF FreshTxn, NoTxn
  <2>3. PICK rec : rec = [call[c] EXCEPT !.pc = "submit_slip", !.txn = t] OBVIOUS
  <2>5. rec \in CallRow /\ rec.pc = "submit_slip" /\ rec.txn = t /\ Fields(rec, call[c])
    <3>1. "submit_slip" \in CallPcs /\ t \in Nat BY <1>p, IdsAreNumbers
    <3> QED BY <1>k, <2>3, <3>1 DEF CallRow
  <2>6. call[c].sub \in Subs /\ sub[call[c].sub].exists /\ call[c].slip \in Slips
    BY <1>4, <1>k DEF SubmitCreate, Knows, Holds, WithSub
  <2>7. Knows(rec)
    BY <2>5, <2>6 DEF Knows, Ordering, Charging, WithSub, Paying
  <2>a. sub'[call[c].sub].exists BY <2>6, SubRowKept DEF RowsStep
  <2>8. Holds(rec)' BY <2>2, <2>5, <2>a DEF Holds, Charging, WithSub, Paying
  <2> QED BY <1>n, <2>1, <2>3, <2>5, <2>7, <2>8 DEF SlotTaken, KnownRecord
<1>5. CASE SubmitReuse(c)
  <2>1. /\ call[c].sub \in Subs /\ sub[call[c].sub].exists /\ call[c].slip \in Slips
        /\ call[c].txn \in Txns /\ txn[call[c].txn].exists
        /\ txn[call[c].txn].sub = call[c].sub
    BY <1>5, <1>k DEF SubmitReuse, Knows, Holds, WithSub
  <2>2. \A rec : rec.pc = "submit_slip" /\ rec.txn = call[c].txn /\ Fields(rec, call[c])
          => Knows(rec) /\ Holds(rec)
    BY <2>1 DEF Knows, Holds, Ordering, Charging, WithSub, Paying
  <2> QED BY <1>5, <1>a, <1>p, <2>2 DEF SubmitReuse, AfterTransaction
<1>6. CASE SubmitSlip(c)
  <2>1. /\ call[c].sub \in Subs /\ sub[call[c].sub].exists /\ call[c].slip \in Slips
        /\ call[c].txn \in Txns /\ txn[call[c].txn].exists
        /\ txn[call[c].txn].sub = call[c].sub
    BY <1>6, <1>k DEF SubmitSlip, Knows, Holds, WithSub, Paying
  <2>2. txn' = [txn EXCEPT ![call[c].txn].slips = @ \cup {call[c].slip}]
    BY <1>6 DEF SubmitSlip
  <2>3. txn'[call[c].txn].slips # {}
    BY <2>1, <2>2, TableFacts DEF TxnRow
  <2>4. /\ sub'[call[c].sub].exists
        /\ txn'[call[c].txn].exists /\ txn'[call[c].txn].sub = call[c].sub
    BY <2>1, SubRowKept, TxnRowKept DEF RowsStep
  <2>5. \A rec : rec.pc = "submit_status" /\ rec.txn = call[c].txn /\ Fields(rec, call[c])
          => Knows(rec) /\ Holds(rec)'
    BY <2>1, <2>3, <2>4 DEF Knows, Holds, Ordering, Charging, WithSub, Paying
  <2> QED BY <1>6, <1>a, <1>p, <2>5 DEF SubmitSlip
<1>7. CASE InitiateSubCreate(c)
  <2>1. call[c].sub \in Subs /\ sub[call[c].sub].exists
    BY <1>7, <1>k DEF InitiateSubCreate, Knows, Holds, WithSub
  <2>2. \A rec : rec.pc = "initiate_status" /\ Fields(rec, call[c]) => Knows(rec) /\ Holds(rec)
    BY <2>1 DEF Knows, Holds, Ordering, Charging, WithSub, Paying
  <2> QED BY <1>7, <1>a, <1>p, <2>2 DEF InitiateSubCreate
<1>8. CASE UploadSubCheck(c) \/ UploadSubTx(c)
  <2>1. /\ call[c].sub \in Subs /\ sub[call[c].sub].exists /\ call[c].slip \in Slips
        /\ call[c].txn \in Txns /\ txn[call[c].txn].exists
        /\ txn[call[c].txn].sub = call[c].sub
    BY <1>8, <1>k DEF UploadSubCheck, UploadSubTx, Knows, Holds, WithSub, Paying
  <2>2. \A rec : /\ rec.pc \in {"upload_tx", "verify"} /\ rec.txn = call[c].txn
                 /\ Fields(rec, call[c])
          => Knows(rec) /\ Holds(rec)
    BY <2>1 DEF Knows, Holds, Ordering, Charging, WithSub, Paying
  <2> QED BY <1>8, <1>a, <1>d, <1>p, <2>2 DEF UploadSubCheck, UploadSubTx
<1>9. CASE ValidateCount(c)
  <2>1. CASE Done(c) BY <1>d, <2>1
  <2>2. CASE Advance(c, "lot_tx") /\ call[c].used < Quota[call[c].plan]
    <3>1. /\ call[c].sub \in Subs /\ sub[call[c].sub].exists /\ call[c].client \in Clients
          /\ call[c].plan \in Plans /\ PaidFor(call[c].sub)
          /\ call[c].plan = sub[call[c].sub].plan
      BY <1>9, <1>k DEF ValidateCount, Knows, Holds, WithSub, Charging
    <3>2. \A rec : rec.pc = "lot_tx" /\ Fields(rec, call[c]) => Knows(rec) /\ Holds(rec)
      BY <2>2, <3>1 DEF Knows, Holds, Ordering, Charging, WithSub, Paying
    <3> QED BY <1>a, <1>p, <2>2, <3>2
  <2> QED BY <1>9, <2>1, <2>2 DEF ValidateCount, WithinQuota
<1> QED BY <1>1, <1>2, <1>3, <1>4, <1>5, <1>6, <1>7, <1>8, <1>9

LEMMA SlotStep ==
    ASSUME SubsInv, RowsStep, NEW c \in Calls, Handler(c)
    PROVE  SlotTaken(c)
BY ClientRequests, OtherRequests, LastStatements, MiddleStatements
   DEF Handler, ClientCall, AdminCall, PaymentCall, LotteryCall

LEMMA SubsInvStep ==
    ASSUME SubsInv, [SubNext]_subVars
    PROVE  SubsInv'
<1>1. RowsStep BY EveryStepIsARowsStep
<1>2. RowsRefer' /\ TermsArePaidFor' /\ ReviewsRestOnASlip'
  BY <1>1, RowsReferStep, TermsStep, ReviewersStep
<1>3. /\ sub' \in [Subs -> SubRow] /\ txn' \in [Txns -> TxnRow] /\ lot' \in [Lots -> LotRow]
      /\ plans' \subseteq Plans
  BY <1>1, SubRowKept, TxnRowKept, LotRowKept, TableFacts DEF RowsStep
<1>4. /\ call' \in [Calls -> CallRow] /\ Counting
      /\ \A c \in Calls : Knows(call'[c]) /\ Holds(call[c])'
  <2>1. ASSUME NEW c \in Calls, Handler(c)
        PROVE  /\ call' \in [Calls -> CallRow] /\ Counting
               /\ \A d \in Calls : Knows(call'[d]) /\ Holds(call[d])'
    <3>1. PICK rec : KnownRecord(rec) /\ Holds(rec)' /\ call' = [call EXCEPT ![c] = rec]
      BY <1>1, <2>1, SlotStep DEF SlotTaken
    <3>2. call' \in [Calls -> CallRow] BY <3>1, TableFacts DEF KnownRecord
    <3>3. Knows(call'[c]) /\ Holds(call[c])'
      <4>1. call'[c] = rec BY <3>1, TableFacts
      <4> QED BY <3>1, <4>1 DEF KnownRecord, Knows, Holds
    <3>4. ASSUME NEW d \in Calls \ {c} PROVE Knows(call'[d]) /\ Holds(call[d])'
      <4>1. PICK r : r = call[d] OBVIOUS
      <4>2. KnownRecord(r) /\ Holds(r) BY <4>1, SlotFacts DEF KnownRecord
      <4>3. call'[d] = r BY <3>1, <4>1, TableFacts
      <4>4. Holds(r)' BY <1>1, <4>2, HeldStaysHeld
      <4> QED BY <4>2, <4>3, <4>4 DEF KnownRecord, Knows, Holds
    <3> QED BY <1>1, <2>1, <3>2, <3>3, <3>4, SlotStep DEF SlotTaken
  <2>2. ASSUME UNCHANGED <<call, calls, failures>>
        PROVE  /\ call' \in [Calls -> CallRow] /\ Counting
               /\ \A d \in Calls : Knows(call'[d]) /\ Holds(call[d])'
    <3>1. ASSUME NEW d \in Calls PROVE Knows(call'[d]) /\ Holds(call[d])'
      <4>1. PICK r : r = call[d] OBVIOUS
      <4>2. KnownRecord(r) /\ Holds(r) BY <4>1, SlotFacts DEF KnownRecord
      <4>3. call'[d] = r BY <2>2, <4>1
      <4>4. Holds(r)' BY <1>1, <4>2, HeldStaysHeld
      <4> QED BY <4>2, <4>3, <4>4 DEF KnownRecord, Knows, Holds
    <3> QED BY <2>2, <3>1, TableFacts DEF Counting
  <2>3. CASE ExpireOverdue BY <2>2, <2>3 DEF ExpireOverdue, clock
  <2>4. CASE SubTick BY <2>2, <2>4 DEF SubTick
  <2>5. CASE UNCHANGED subVars BY <2>2, <2>5 DEF subVars
  <2> QED BY <2>1, <2>3, <2>4, <2>5, StepKinds
<1>5. time' \in Nat
  <2>1. ASSUME NEW c \in Calls, Handler(c) PROVE time' = time
    BY <2>1 DEF Handler, ClientCall, AdminCall, PaymentCall, LotteryCall, CallFails, clock,
       rowsAndClock, SubscribeRead, SubscribeCheck, CreateSubscription, SubmitRead, SubmitFind,
       SubmitCreate, SubmitReuse, SubmitSlip, SubmitStatus, CancelActiveRead,
       CancelActiveWrite, UpgradeRead, UpgradeCancel, DeletePlanRead, DeletePlanWrite,
       ApproveSubRead, ApproveSubTx, RejectSubRead, RejectSubTx, InitiateSubRead,
       InitiateSubCreate, InitiateSubStatus, UploadSubRead, UploadSubCheck, UploadSubTx,
       VerdictRejects, VerdictApproves, VerdictLeaves, ValidateRead, ValidateCount,
       CreateLottery, LotteryRead, LotteryWrite
  <2> QED BY <2>1, StepKinds, TableFacts DEF ExpireOverdue, SubTick, subVars, clock
<1> QED BY <1>2, <1>3, <1>4, <1>5 DEF SubsInv, SubTypeOK, Counting

LEMMA SubsInvInit == SubInit => SubsInv
<1> SUFFICES ASSUME SubInit PROVE SubsInv OBVIOUS
<1>1. SubTypeOK
  <2>1. NoSub \in SubRow BY DEF NoSub, SubRow, SubscriptionStatus
  <2>2. NoTxn \in TxnRow BY DEF NoTxn, TxnRow, TxnStatus
  <2>3. NoLot \in LotRow BY DEF NoLot, LotRow
  <2>4. Quiet \in CallRow BY QuietRecord DEF KnownRecord
  <2> QED BY <2>1, <2>2, <2>3, <2>4 DEF SubInit, SubTypeOK
<1>2. /\ ~NoSub.exists /\ NoSub.status = "PENDING" /\ NoSub.used = 0
      /\ ~NoTxn.exists /\ NoTxn.status = "INITIATED" /\ ~NoLot.exists
      /\ Quiet.pc = "idle"
  BY DEF NoSub, NoTxn, NoLot, Quiet
<1>3. RowsRefer /\ TermsArePaidFor /\ ReviewsRestOnASlip
  BY <1>2 DEF SubInit, RowsRefer, TermsArePaidFor, ReviewsRestOnASlip
<1>4. \A c \in Calls : Knows(call[c]) /\ Holds(call[c])
  BY <1>2 DEF SubInit, Knows, Holds, Ordering, Charging, WithSub, Paying
<1> QED BY <1>1, <1>3, <1>4 DEF SubsInv

(* Every column and every handler's slot has its type, with the statuses of  *)
(* the schema's enums.                                                       *)
THEOREM SubscriptionTypeCorrect == SubSpec => []SubTypeOK
<1>1. SubsInv => SubTypeOK BY DEF SubsInv
<1> QED BY <1>1, SubsInvInit, SubsInvStep, PTL DEF SubSpec

(* What is in force, has been, or was charged for was approved: by an        *)
(* administrator or through one of its payments.                             *)
THEOREM ApprovedTermsOnly == SubSpec => []TermsArePaidFor
<1>1. SubsInv => TermsArePaidFor BY DEF SubsInv
<1> QED BY <1>1, SubsInvInit, SubsInvStep, PTL DEF SubSpec

(* A subscription under review has a slip with one of its payments. *)
THEOREM SlipsComeBeforeReviews == SubSpec => []ReviewsRestOnASlip
<1>1. SubsInv => ReviewsRestOnASlip BY DEF SubsInv
<1> QED BY <1>1, SubsInvInit, SubsInvStep, PTL DEF SubSpec

(* An approved transaction is undone only by who had it in hand. *)
THEOREM ApprovalsOutliveLaterDecisions == SubSpec => ApprovalsAreUndoneOnlyByLateWriters
<1>1. ASSUME SubsInv, [SubNext]_subVars, NEW t \in Txns,
             txn[t].status = "APPROVED", txn'[t].status # "APPROVED"
      PROVE  \E c \in Calls : call[c].txn = t
                                /\ call[c].pc \in {"verify", "upload_tx", "submit_txn"}
  <2>1. TxnStep(t) BY <1>1, EveryStepIsARowsStep DEF RowsStep
  <2>2. txn[t].exists BY <1>1 DEF SubsInv, RowsRefer
  <2>3. TxnMoved(t) BY <1>1, <2>1, <2>2 DEF TxnStep, TxnSame, TxnNew
  <2>4. PICK st \in TxnStatus, ap \in BOOLEAN, sl \in SUBSET Slips :
          /\ txn'[t] = MovedTxn(txn[t], st, ap, sl)
          /\ txn[t].status = "APPROVED" /\ st # "APPROVED" =>
               \E c \in Calls : call[c].txn = t
                                  /\ call[c].pc \in {"verify", "upload_tx", "submit_txn"}
    BY <2>3 DEF TxnMoved
  <2>5. txn'[t].status = st
    <3>1. txn[t] \in TxnRow BY <1>1, TableFacts
    <3> QED BY <2>4, <3>1 DEF MovedTxn, TxnRow
  <2> QED BY <1>1, <2>4, <2>5
<1>2. SubsInv /\ [SubNext]_subVars =>
        \A t \in Txns : txn[t].status = "APPROVED" /\ txn'[t].status # "APPROVED" =>
            \E c \in Calls : call[c].txn = t
                               /\ call[c].pc \in {"verify", "upload_tx", "submit_txn"}
  BY <1>1
<1> QED BY <1>2, SubsInvInit, SubsInvStep, PTL DEF SubSpec, ApprovalsAreUndoneOnlyByLateWriters

-----------------------------------------------------------------------------
(* The quota *)

Under(s) == {l \in Lots : lot[l].exists /\ lot[l].sub = s}

LEMMA FiniteLots ==
    /\ IsFiniteSet(Calls)
    /\ \A s : IsFiniteSet(Under(s)) /\ IsFiniteSet(Under(s)')
<1>1. IsFiniteSet(Calls) BY SubAssumption DEF SubAssumption
<1>2. IsFiniteSet(Lots) BY SubAssumption, FS_Interval DEF SubAssumption, Lots
<1>3. \A s : Under(s) \subseteq Lots /\ Under(s)' \subseteq Lots BY DEF Under
<1> QED BY <1>1, <1>2, <1>3, FS_Subset

(* A creation charges the subscription and stores the lottery together.      *)
LEMMA Creation ==
    ASSUME SubsInv, NEW c \in Calls, CreateLottery(c)
    PROVE  /\ call[c].sub \in Subs /\ sub[call[c].sub].exists /\ call[c].pc = "lot_tx"
           /\ sub' = [sub EXCEPT ![call[c].sub] = [sub[call[c].sub] EXCEPT !.used = @ + 1]]
           /\ call' = [call EXCEPT ![c] = Quiet]
           /\ \E l \in Lots : /\ ~lot[l].exists /\ lot'[l].exists /\ lot'[l].sub = call[c].sub
                              /\ \A k \in Lots \ {l} : lot'[k] = lot[k]
<1>1. call[c].pc = "lot_tx" BY DEF CreateLottery
<1>2. call[c].sub \in Subs /\ sub[call[c].sub].exists
  BY <1>1, SlotFacts DEF Knows, Holds, WithSub, Charging
<1>3. sub' = [sub EXCEPT ![call[c].sub] = [sub[call[c].sub] EXCEPT !.used = @ + 1]]
  BY DEF CreateLottery, Charged
<1>4. call' = [call EXCEPT ![c] = Quiet] BY DEF CreateLottery, Done
<1>5. PICK l \in Lots :
        /\ ~lot[l].exists
        /\ lot' = [lot EXCEPT ![l] = [NoLot EXCEPT !.exists = TRUE, !.sub = call[c].sub,
                                                   !.client = call[c].client]]
  BY DEF CreateLottery, Newest
<1>6. /\ lot'[l].exists /\ lot'[l].sub = call[c].sub
      /\ \A k \in Lots \ {l} : lot'[k] = lot[k]
  BY <1>5, TableFacts DEF NoLot
<1> QED BY <1>1, <1>2, <1>3, <1>4, <1>5, <1>6

(* No other step does either. *)
LEMMA NoCreation ==
    ASSUME SubsInv, RowsStep, NEW s \in Subs, ~\E c \in Calls : CreateLottery(c)
    PROVE  /\ Under(s)' = Under(s)
           /\ \/ sub'[s].used = sub[s].used /\ (sub[s].exists => sub'[s].plan = sub[s].plan)
              \/ ~sub[s].exists /\ sub'[s].used = 0
<1>1. ASSUME NEW l \in Lots PROVE lot'[l].exists = lot[l].exists /\ lot'[l].sub = lot[l].sub
  <2>1. LotStep(l) /\ lot[l] \in LotRow BY TableFacts DEF RowsStep
  <2>2. LotSame(l) \/ LotMoved(l) BY <2>1 DEF LotStep, LotNew
  <2> QED BY <2>1, <2>2 DEF LotSame, LotMoved, LotRow
<1>2. Under(s)' = Under(s) BY <1>1 DEF Under
<1>3. SubStep(s) /\ sub[s] \in SubRow BY TableFacts DEF RowsStep
<1>4. CASE SubNew(s)
  <2>1. PICK cl, p, n : sub'[s] = FreshSub(cl, p, n) BY <1>4 DEF SubNew
  <2>2. FreshSub(cl, p, n).used = 0 BY DEF FreshSub, NoSub
  <2> QED BY <1>2, <1>4, <2>1, <2>2 DEF SubNew
<1>5. CASE SubSame(s) BY <1>2, <1>5 DEF SubSame
<1>6. CASE SubMoved(s) BY <1>2, <1>3, <1>6 DEF SubMoved, MovedSub, SubRow
<1>7. CASE SubApproved(s) BY <1>2, <1>3, <1>7 DEF SubApproved, SubRow
<1> QED BY <1>3, <1>4, <1>5, <1>6, <1>7 DEF SubStep, SubCharged

LEMMA ChargesStep ==
    ASSUME SubsInv, LotteriesAreCharged, RowsStep
    PROVE  LotteriesAreCharged'
<1> SUFFICES ASSUME NEW s \in Subs PROVE sub'[s].used = Cardinality(Under(s)')
  BY DEF LotteriesAreCharged, Under
<1>i. sub[s].used = Cardinality(Under(s)) /\ sub[s].used \in Nat
  BY TableFacts DEF LotteriesAreCharged, Under, SubRow
<1>1. ASSUME NEW c \in Calls, CreateLottery(c) PROVE sub'[s].used = Cardinality(Under(s)')
  <2>1. PICK l \in Lots : /\ ~lot[l].exists /\ lot'[l].exists /\ lot'[l].sub = call[c].sub
                          /\ \A k \in Lots \ {l} : lot'[k] = lot[k]
    BY <1>1, Creation
  <2>2. /\ call[c].sub \in Subs
        /\ sub' = [sub EXCEPT ![call[c].sub] = [sub[call[c].sub] EXCEPT !.used = @ + 1]]
    BY <1>1, Creation
  <2>3. CASE call[c].sub = s
    <3>1. Under(s)' = Under(s) \cup {l} /\ l \notin Under(s) BY <2>1, <2>3 DEF Under
    <3>2. sub'[s].used = sub[s].used + 1 BY <2>2, <2>3, TableFacts DEF SubRow
    <3>3. Cardinality(Under(s) \cup {l}) = Cardinality(Under(s)) + 1
      BY <3>1, FiniteLots, FS_AddElement
    <3> QED BY <1>i, <3>1, <3>2, <3>3
  <2>4. CASE call[c].sub # s
    <3>1. Under(s)' = Under(s) BY <2>1, <2>4 DEF Under
    <3>2. sub'[s] = sub[s] BY <2>2, <2>4, TableFacts
    <3> QED BY <1>i, <3>1, <3>2
  <2> QED BY <2>3, <2>4
<1>2. ASSUME ~\E c \in Calls : CreateLottery(c) PROVE sub'[s].used = Cardinality(Under(s)')
  <2>1. CASE sub'[s].used = sub[s].used BY <1>2, <1>i, <2>1, NoCreation
  <2>2. CASE ~sub[s].exists /\ sub'[s].used = 0
    <3>1. Under(s) = {} BY <2>2 DEF Under, SubsInv, RowsRefer
    <3> QED BY <1>2, <2>2, <3>1, NoCreation, FS_EmptySet
  <2> QED BY <1>2, <2>1, <2>2, NoCreation
<1> QED BY <1>1, <1>2

(* The counter of a subscription is the number of its lotteries. *)
THEOREM EveryLotteryIsCharged == SubSpec => []LotteriesAreCharged
<1>1. SubsInv /\ LotteriesAreCharged /\ [SubNext]_subVars => SubsInv' /\ LotteriesAreCharged'
  BY SubsInvStep, EveryStepIsARowsStep, ChargesStep
<1>2. SubInit => SubsInv /\ LotteriesAreCharged
  <2> SUFFICES ASSUME SubInit, NEW s \in Subs PROVE sub[s].used = Cardinality(Under(s))
    BY SubsInvInit DEF LotteriesAreCharged, Under
  <2>1. Under(s) = {} BY DEF SubInit, Under, NoLot
  <2>2. sub[s].used = 0 BY DEF SubInit, NoSub
  <2> QED BY <2>1, <2>2, FS_EmptySet
<1> QED BY <1>1, <1>2, PTL DEF SubSpec

(* The creations under way that the quota, as they read it, still allows.    *)
Admissible(r) == r.pc \in Charging /\ r.used < Quota[r.plan]
Racing(s) == {c \in Calls : Admissible(call[c]) /\ call[c].sub = s}

RaceInv ==
    \A s \in Subs : sub[s].used > 0 \/ Racing(s) # {} =>
        sub[s].used + Cardinality(Racing(s)) < Quota[sub[s].plan] + Cardinality(Calls)

LEMMA FiniteRaces ==
    ASSUME NEW s
    PROVE  /\ IsFiniteSet(Racing(s)) /\ Cardinality(Racing(s)) \in Nat
           /\ Racing(s)' \subseteq Calls
           /\ IsFiniteSet(Racing(s)') /\ Cardinality(Racing(s)') \in Nat
           /\ Cardinality(Racing(s)') <= Cardinality(Calls) /\ Cardinality(Calls) \in Nat
<1>1. Racing(s) \subseteq Calls /\ Racing(s)' \subseteq Calls BY DEF Racing
<1> QED BY <1>1, FiniteLots, FS_Subset, FS_CardinalityType

LastStatement(c) ==
    \/ CreateSubscription(c) \/ SubmitStatus(c) \/ CancelActiveWrite(c)
    \/ DeletePlanWrite(c) \/ ApproveSubTx(c) \/ RejectSubTx(c)
    \/ InitiateSubStatus(c) \/ VerdictRejects(c) \/ VerdictApproves(c)
    \/ VerdictLeaves(c) \/ CreateLottery(c) \/ LotteryWrite(c) \/ CallFails(c)

(* A handler comes to a creation by ValidateRead, and stays by ValidateCount *)
(* with what it has read.                                                    *)
LEMMA ChargingStarts ==
    ASSUME SubsInv, NEW c \in Calls, Handler(c), ~ValidateRead(c), ~ValidateCount(c)
    PROVE  call'[c].pc \notin Charging
<1> DEFINE Elsewhere == call'[c].pc \notin Charging
<1>t. call \in [Calls -> CallRow] BY TableFacts
<1>a. ASSUME NEW rec, Begin(c, rec), rec.pc \notin Charging PROVE Elsewhere
  BY <1>a, <1>t DEF Begin
<1>b. ASSUME Done(c) PROVE Elsewhere BY <1>b, <1>t DEF Done, Quiet, Charging
<1>d. ASSUME NEW pc, Advance(c, pc), pc \notin Charging PROVE Elsewhere
  BY <1>d, <1>t DEF Advance, CallRow
<1>e. ASSUME NEW t, NEW pc, Proceed(c, [call[c] EXCEPT !.pc = pc, !.txn = t]), pc \notin Charging
      PROVE  Elsewhere
  BY <1>e, <1>t DEF Proceed, CallRow
<1>1. CASE LastStatement(c) BY <1>1, <1>b DEF LastStatement, CreateSubscription,
     SubmitStatus, CancelActiveWrite, DeletePlanWrite, ApproveSubTx,
     RejectSubTx, InitiateSubStatus, VerdictRejects, VerdictApproves, VerdictLeaves,
     CreateLottery, LotteryWrite, CallFails
<1>2. CASE \/ SubscribeCheck(c) \/ SubmitReuse(c) \/ SubmitSlip(c) \/ UpgradeCancel(c)
           \/ InitiateSubCreate(c) \/ UploadSubCheck(c) \/ UploadSubTx(c)
  BY <1>2, <1>b, <1>d DEF SubscribeCheck, SubmitReuse, SubmitSlip, UpgradeCancel,
     InitiateSubCreate, UploadSubCheck, UploadSubTx, AfterTransaction, Charging
<1>3. CASE SubmitFind(c) \/ SubmitCreate(c)
  <2>1. "submit_txn" \notin Charging /\ "submit_slip" \notin Charging BY DEF Charging
  <2>2. CASE SubmitFind(c)
    <3>1. PICK t : Proceed(c, [call[c] EXCEPT !.pc = "submit_txn", !.txn = t])
      BY <2>2 DEF SubmitFind
    <3> QED BY <1>e, <2>1, <3>1
  <2>3. CASE SubmitCreate(c)
    <3>1. PICK t : Proceed(c, [call[c] EXCEPT !.pc = "submit_slip", !.txn = t])
      BY <2>3 DEF SubmitCreate, AfterTransaction
    <3> QED BY <1>e, <2>1, <3>1
  <2> QED BY <1>3, <2>2, <2>3
<1> USE DEF Charging
<1>4. CASE SubscribeRead(c)
  <2>1. PICK cl, p, n : Begin(c, [Quiet EXCEPT !.pc = "subscribe_check", !.client = cl,
                                               !.plan = p, !.cycle = n])
    BY <1>4 DEF SubscribeRead
  <2>2. [Quiet EXCEPT !.pc = "subscribe_check", !.client = cl, !.plan = p,
                      !.cycle = n].pc = "subscribe_check"
    BY DEF Quiet
  <2> QED BY <1>a, <2>1, <2>2
<1>5. CASE SubmitRead(c)
  <2>1. PICK s, f : Begin(c, [Quiet EXCEPT !.pc = "submit_find", !.sub = s, !.slip = f])
    BY <1>5 DEF SubmitRead
  <2>2. [Quiet EXCEPT !.pc = "submit_find", !.sub = s, !.slip = f].pc = "submit_find"
    BY DEF Quiet
  <2> QED BY <1>a, <2>1, <2>2
<1>6. CASE UpgradeRead(c)
  <2>1. PICK s, p, n, cl : Begin(c, [Quiet EXCEPT !.pc = "upgrade_cancel", !.sub = s,
                                       !.plan = p, !.cycle = n, !.client = cl])
    BY <1>6 DEF UpgradeRead
  <2>2. [Quiet EXCEPT !.pc = "upgrade_cancel", !.sub = s, !.plan = p, !.cycle = n,
                      !.client = cl].pc = "upgrade_cancel"
    BY DEF Quiet
  <2> QED BY <1>a, <2>1, <2>2
<1>7. CASE CancelActiveRead(c) \/ RejectSubRead(c) \/ InitiateSubRead(c)
  <2>1. PICK pc \in {"cancel_write", "reject_tx", "initiate_create"}, s \in Subs :
          Begin(c, [Quiet EXCEPT !.pc = pc, !.sub = s])
    BY <1>7 DEF CancelActiveRead, RejectSubRead, InitiateSubRead
  <2>2. [Quiet EXCEPT !.pc = pc, !.sub = s].pc = pc BY DEF Quiet
  <2> QED BY <1>a, <2>1, <2>2
<1>8. CASE DeletePlanRead(c)
  <2>1. PICK p : Begin(c, [Quiet EXCEPT !.pc = "plan_delete", !.plan = p])
    BY <1>8 DEF DeletePlanRead
  <2>2. [Quiet EXCEPT !.pc = "plan_delete", !.plan = p].pc = "plan_delete" BY DEF Quiet
  <2> QED BY <1>a, <2>1, <2>2
<1>9. CASE ApproveSubRead(c)
  <2>1. PICK s, n : Begin(c, [Quiet EXCEPT !.pc = "approve_tx", !.sub = s, !.exp = n])
    BY <1>9 DEF ApproveSubRead
  <2>2. [Quiet EXCEPT !.pc = "approve_tx", !.sub = s, !.exp = n].pc = "approve_tx"
    BY DEF Quiet
  <2> QED BY <1>a, <2>1, <2>2
<1>10. CASE UploadSubRead(c)
  <2>1. PICK t, s, f : Begin(c, [Quiet EXCEPT !.pc = "upload_check", !.txn = t, !.sub = s,
                                              !.slip = f])
    BY <1>10 DEF UploadSubRead
  <2>2. [Quiet EXCEPT !.pc = "upload_check", !.txn = t, !.sub = s, !.slip = f].pc
          = "upload_check"
    BY DEF Quiet
  <2> QED BY <1>a, <2>1, <2>2
<1>11. CASE LotteryRead(c)
  <2>1. PICK l \in Lots, o \in {"publish", "close"} :
          Begin(c, [Quiet EXCEPT !.lot = l,
                      !.pc = IF o = "publish" THEN "publish_write" ELSE "close_write"])
    BY <1>11 DEF LotteryRead
  <2>2. PICK pc \in {"publish_write", "close_write"} :
          pc = IF o = "publish" THEN "publish_write" ELSE "close_write"
    OBVIOUS
  <2>3. [Quiet EXCEPT !.lot = l, !.pc = pc].pc = pc BY DEF Quiet
  <2> QED BY <1>a, <2>1, <2>2, <2>3
<1> QED
  BY <1>1, <1>2, <1>3, <1>4, <1>5, <1>6, <1>7, <1>8, <1>9, <1>10, <1>11
     DEF LastStatement, Handler, ClientCall, AdminCall, PaymentCall, LotteryCall

(* A creation joins the race only below the quota. *)
LEMMA RacersJoinBelowTheQuota ==
    ASSUME SubsInv, RowsStep, [SubNext]_subVars, NEW s \in Subs, NEW c \in Racing(s)',
           c \notin Racing(s)
    PROVE  sub[s].exists /\ sub[s].used < Quota[sub[s].plan]
<1>c. c \in Calls /\ Admissible(call[c])' /\ call'[c].sub = s BY DEF Racing
<1>r. Charging' = Charging /\ Quota' = Quota OBVIOUS
<1>a. /\ call'[c].pc \in Charging /\ call'[c].used < Quota[call'[c].plan]
  BY <1>c DEF Admissible, Charging
<1>1. Handler(c)
  <2>1. call'[c] # call[c] BY <1>a, <1>c DEF Racing, Admissible
  <2>2. ASSUME NEW d \in Calls, Handler(d), d # c PROVE FALSE
    <3>1. PICK rec : call' = [call EXCEPT ![d] = rec] BY <2>2, SlotStep DEF SlotTaken
    <3> QED BY <1>c, <2>1, <2>2, <3>1, TableFacts
  <2>3. call' # call BY <2>1
  <2> QED BY <2>2, <2>3, StepKinds DEF ExpireOverdue, SubTick, subVars
<1>2. CASE ValidateRead(c)
  <2>1. PICK x \in Subs :
          /\ sub[x].exists
          /\ Begin(c, [Quiet EXCEPT !.pc = "lot_count", !.sub = x, !.used = sub[x].used,
                                    !.client = sub[x].client, !.plan = sub[x].plan])
    BY <1>2 DEF ValidateRead
  <2>2. call'[c] = [Quiet EXCEPT !.pc = "lot_count", !.sub = x, !.used = sub[x].used,
                                 !.client = sub[x].client, !.plan = sub[x].plan]
    BY <1>c, <2>1, TableFacts DEF Begin
  <2>3. call'[c].sub = x /\ call'[c].used = sub[x].used /\ call'[c].plan = sub[x].plan
    BY <2>2 DEF Quiet
  <2> QED BY <1>a, <1>c, <2>1, <2>3
<1>3. CASE ValidateCount(c)
  <2>1. Advance(c, "lot_tx") /\ call[c].pc = "lot_count"
    <3>1. CASE Done(c) BY <1>a, <1>c, <3>1, TableFacts DEF Done, Quiet, Charging
    <3> QED BY <1>3, <3>1 DEF ValidateCount
  <2>2. /\ call'[c].sub = call[c].sub /\ call'[c].used = call[c].used
        /\ call'[c].plan = call[c].plan
    BY <1>c, <2>1, TableFacts DEF Advance, CallRow
  <2> QED BY <1>a, <1>c, <2>1, <2>2 DEF Racing, Admissible, Charging
<1> QED BY <1>1, <1>2, <1>3, <1>a, <1>c, ChargingStarts

LEMMA RaceStep ==
    ASSUME SubsInv, LotteriesAreCharged, RaceInv, RowsStep, [SubNext]_subVars
    PROVE  RaceInv'
<1> SUFFICES ASSUME NEW s \in Subs, sub'[s].used > 0 \/ Racing(s)' # {}
             PROVE  sub'[s].used + Cardinality(Racing(s)')
                      < Quota[sub'[s].plan] + Cardinality(Calls)
  BY DEF RaceInv
<1>f. /\ IsFiniteSet(Racing(s)) /\ Cardinality(Racing(s)) \in Nat
      /\ Cardinality(Racing(s)') \in Nat /\ Cardinality(Racing(s)') <= Cardinality(Calls)
      /\ Cardinality(Calls) \in Nat
  BY FiniteRaces
<1>u. sub[s].used \in Nat BY TableFacts DEF SubRow
<1>g. Racing(s) # {} => sub[s].exists
  BY SlotFacts DEF Racing, Admissible, Holds, WithSub
<1>q. ASSUME sub[s].exists PROVE Quota[sub[s].plan] \in Nat
  BY <1>q, SubAssumption DEF SubAssumption, SubsInv, RowsRefer
<1>1. ASSUME NEW c \in Calls, CreateLottery(c), call[c].sub = s
      PROVE  sub'[s].used + Cardinality(Racing(s)')
               < Quota[sub'[s].plan] + Cardinality(Calls)
  <2>1. /\ sub[s].exists /\ call[c].pc = "lot_tx"
        /\ sub' = [sub EXCEPT ![s] = [sub[s] EXCEPT !.used = @ + 1]]
        /\ call' = [call EXCEPT ![c] = Quiet]
    BY <1>1, Creation
  <2>2. c \in Racing(s)
    BY <1>1, <2>1, SlotFacts DEF Racing, Admissible, Holds, Charging
  <2>3. Racing(s)' = Racing(s) \ {c}
    BY <2>1, TableFacts DEF Racing, Admissible, Quiet, Charging
  <2>4. Cardinality(Racing(s)') = Cardinality(Racing(s)) - 1
    BY <1>f, <2>2, <2>3, FS_RemoveElement
  <2>5. sub'[s].used = sub[s].used + 1 /\ sub'[s].plan = sub[s].plan
    BY <2>1, TableFacts DEF SubRow
  <2>6. sub[s].used + Cardinality(Racing(s)) < Quota[sub[s].plan] + Cardinality(Calls)
    BY <2>2 DEF RaceInv
  <2>7. Quota[sub[s].plan] \in Nat BY <1>q, <2>1
  <2> QED BY <1>f, <1>u, <2>4, <2>5, <2>6, <2>7
<1>2. ASSUME sub'[s].used = sub[s].used, sub[s].exists, sub'[s].plan = sub[s].plan
      PROVE  sub'[s].used + Cardinality(Racing(s)')
               < Quota[sub'[s].plan] + Cardinality(Calls)
  <2>7. Quota[sub[s].plan] \in Nat BY <1>q, <1>2
  <2>1. CASE Racing(s)' \subseteq Racing(s)
    <3>1. Cardinality(Racing(s)') <= Cardinality(Racing(s)) BY <1>f, <2>1, FS_Subset
    <3>2. sub[s].used > 0 \/ Racing(s) # {} BY <1>2, <2>1
    <3>3. sub[s].used + Cardinality(Racing(s)) < Quota[sub[s].plan] + Cardinality(Calls)
      BY <3>2 DEF RaceInv
    <3> QED BY <1>2, <1>f, <1>u, <2>7, <3>1, <3>3
  <2>2. CASE ~(Racing(s)' \subseteq Racing(s))
    <3>1. sub[s].used < Quota[sub[s].plan] BY <2>2, RacersJoinBelowTheQuota
    <3> QED BY <1>2, <1>f, <1>u, <2>7, <3>1
  <2> QED BY <2>1, <2>2
<1>3. ASSUME ~sub[s].exists, sub'[s].used = 0 PROVE FALSE
  <2>1. Racing(s)' \subseteq Racing(s) BY <1>3, RacersJoinBelowTheQuota
  <2>2. Racing(s)' = {} BY <1>3, <1>g, <2>1
  <2> QED BY <1>3, <2>2
<1>4. ASSUME NEW c \in Calls, CreateLottery(c), call[c].sub # s
      PROVE  sub'[s] = sub[s]
  BY <1>4, Creation, TableFacts
<1>x. ASSUME ~sub[s].exists PROVE sub[s].used = 0
  <2>1. Under(s) = {} BY <1>x DEF Under, SubsInv, RowsRefer
  <2> QED BY <2>1, FS_EmptySet DEF LotteriesAreCharged, Under
<1> QED BY <1>1, <1>2, <1>3, <1>4, <1>x, NoCreation

(* Concurrent creations pass the quota by less than their number. *)
THEOREM TheQuotaIsPassedByRacersOnly == SubSpec => []QuotaHoldsUpToConcurrency
<1> DEFINE I == SubsInv /\ LotteriesAreCharged /\ RaceInv
<1>1. I => QuotaHoldsUpToConcurrency
  <2> SUFFICES ASSUME I, NEW s \in Subs, sub[s].used > 0
               PROVE  sub[s].used < Quota[sub[s].plan] + Cardinality(Calls)
    BY DEF QuotaHoldsUpToConcurrency
  <2>1. sub[s].exists
    <3>1. CASE ~sub[s].exists
      <4>1. Under(s) = {} BY <3>1 DEF Under, SubsInv, RowsRefer
      <4>2. sub[s].used = 0 BY <4>1, FS_EmptySet DEF LotteriesAreCharged, Under
      <4> QED BY <4>2
    <3> QED BY <3>1
  <2>2. Quota[sub[s].plan] \in Nat
    BY <2>1, SubAssumption DEF SubAssumption, SubsInv, RowsRefer
  <2>3. /\ sub[s].used \in Nat /\ Cardinality(Racing(s)) \in Nat
        /\ Cardinality(Calls) \in Nat
    BY FiniteRaces, TableFacts DEF SubRow
  <2>4. sub[s].used + Cardinality(Racing(s)) < Quota[sub[s].plan] + Cardinality(Calls)
    BY DEF RaceInv
  <2> QED BY <2>2, <2>3, <2>4
<1>2. SubInit => I
  <2> SUFFICES ASSUME SubInit PROVE I OBVIOUS
  <2>1. ASSUME NEW s \in Subs PROVE sub[s].used = 0 /\ Racing(s) = {} /\ Under(s) = {}
    BY DEF SubInit, NoSub, NoLot, Quiet, Racing, Admissible, Charging, Under
  <2>2. LotteriesAreCharged BY <2>1, FS_EmptySet DEF LotteriesAreCharged, Under
  <2>3. RaceInv BY <2>1 DEF RaceInv
  <2> QED BY <2>2, <2>3, SubsInvInit
<1>3. I /\ [SubNext]_subVars => I'
  BY SubsInvStep, EveryStepIsARowsStep, ChargesStep, RaceStep
<1> QED BY <1>1, <1>2, <1>3, PTL DEF SubSpec
=============================================================================
