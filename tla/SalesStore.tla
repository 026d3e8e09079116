----------------------------- MODULE SalesStore -----------------------------
(***************************************************************************)
(* The database rows, the expiry queue and the in-flight requests of one   *)
(* lottery's ticket sale.                                                  *)
(*                                                                         *)
(* The backend is a set of Node processes in front of one PostgreSQL       *)
(* database.  A request handler runs alone until its next `await`, and     *)
(* every await is one database statement or one committed transaction, so  *)
(* the unit of interleaving is the statement.  A task is one in-flight     *)
(* handler: an HTTP request, or the queue worker running a job.  What the  *)
(* handler has read and will still use is in the task's record; it may be  *)
(* stale by the time it is used.                                           *)
(***************************************************************************)
EXTENDS Naturals, FiniteSets

CONSTANTS
    Tickets,       \* LotteryTicket rows of the lottery
    Resvs,         \* ids of TicketReservation rows that may be created
    Pays,          \* ids of PaymentTransaction rows that may be created
    Buyers,        \* Buyer rows
    Keys,          \* client-supplied idempotency keys
    Slips,         \* contents of uploaded slip images (File.contentHash)
    Refs,          \* bank transaction references printed on slips
    RefOf,         \* the reference OCR/QR extracts from a slip, or null
    null,          \* SQL NULL
    Requests,      \* slots for concurrent HTTP requests
    Workers        \* slots of the ticket-reservation queue's processor

CONSTANTS
    Ops,           \* the handlers clients call in this instance
    Selections,    \* dto.ticketNumbers: {} asks for a random selection
    Listings,      \* ticket numbers an imported row lists, {} if none
    MaxQty,        \* MAX_TICKETS_PER_PURCHASE
    HoldTime,      \* TICKET_RESERVATION_TIMEOUT_MINUTES
    SaleEnd,       \* lottery.saleEndDate
    MaxAttempts,   \* defaultJobOptions.attempts
    MaxNow,        \* bound: the clock stops here
    MaxFaults,     \* bound: database calls that fail
    MaxCrashes,    \* bound: restarts of the process
    MaxSold        \* bound: value of lottery.ticketsSold

Tasks == Requests \cup Workers

AllOps == {"reserve", "cancel", "initiate", "upload", "approve", "reject",
           "refund", "review", "delete", "restore", "close", "import", "bulk"}

ASSUME StoreAssumption ==
    /\ null \notin Resvs \cup Pays \cup Buyers \cup Keys \cup Slips \cup Refs
    /\ Requests \cap Workers = {}
    /\ IsFiniteSet(Tickets)
    /\ RefOf \in [Slips -> Refs \cup {null}]
    /\ Ops \subseteq AllOps
    /\ Selections \subseteq SUBSET Tickets /\ Listings \subseteq SUBSET Tickets
    /\ {MaxQty, HoldTime, SaleEnd, MaxAttempts} \subseteq Nat
    /\ {MaxNow, MaxFaults, MaxCrashes, MaxSold} \subseteq Nat

VARIABLES
    now,       \* Date.now(), common to the application and the queue
    lottery,   \* the Lottery row
    ticket,    \* LotteryTicket rows
    resv,      \* TicketReservation rows
    job,       \* the expire-reservation job of each reservation
    pay,       \* PaymentTransaction rows with their PaymentSlip rows
    audit,     \* AuditLog rows <<payment, action>>
    task,      \* in-flight handlers
    faults,    \* number of failed database calls so far
    crashes    \* number of restarts so far

vars == <<now, lottery, ticket, resv, job, pay, audit, task, faults, crashes>>

-----------------------------------------------------------------------------
(* Row types *)

LotteryStatus == {"DRAFT", "PUBLISHED", "SELLING", "CLOSED", "DRAWING",
                  "COMPLETED", "ARCHIVED"}
TicketStatus  == {"AVAILABLE", "RESERVED", "PENDING_PAYMENT", "SOLD"}
PaymentStatus == {"INITIATED", "SUBMITTED", "UNDER_REVIEW", "APPROVED",
                  "REJECTED", "REFUNDED"}

LotteryRow == [status : LotteryStatus, sold : Nat, deleted : BOOLEAN]

TicketRow == [status : TicketStatus,
              resv   : Resvs \cup {null},
              pay    : Pays \cup {null},
              buyer  : Buyers \cup {null}]

(* cancelled and confirmed stand for the two nullable timestamps. *)
ResvRow == [exists : BOOLEAN, cancelled : BOOLEAN, confirmed : BOOLEAN,
            key : Keys \cup {null}, qty : Nat, exp : Nat]

(* approved says that approvedAt is set: no handler ever clears it.  ref is  *)
(* metadata.verifiedTransactionRef / verifiedReceiptUrl.                     *)
PayRow == [exists : BOOLEAN, status : PaymentStatus, approved : BOOLEAN,
           deleted : BOOLEAN, buyer : Buyers \cup {null},
           key : Keys \cup {null}, slips : SUBSET Slips,
           ref : Refs \cup {null}]

(* A Bull job: delayed until due, active while a worker holds it, done when  *)
(* the processor returns, failed when it has thrown MaxAttempts times.       *)
JobRow == [state : {"none", "delayed", "active", "done", "failed"},
           due : Nat, tries : Nat]

Pcs == {"idle",
        "reserve_tx", "reserve_write", "cancel_read", "cancel_tx",
        "confirm_read", "confirm_tx", "finalize_read", "finalize_tx",
        "pay_create", "dup_check", "slip_tx", "verify", "verdict",
        "approve_write", "approve_audit", "reject_write", "reject_release",
        "reject_audit", "refund_write", "review_write", "delete_write",
        "restore_write", "close_write",
        "import_create", "import_listed", "import_count", "import_pick",
        "import_assign", "import_submit", "import_approve",
        "bulk_create", "bulk_pick", "bulk_short", "bulk_tx"}

(* From the statement on that has read or created the payment, a task names it. *)
PayPcs == Pcs \ {"idle", "reserve_tx", "reserve_write", "cancel_read",
                 "cancel_tx", "pay_create", "close_write", "import_create",
                 "bulk_create"}

(* Likewise the slip, from the check of its content to the verdict. *)
SlipPcs == {"dup_check", "slip_tx", "verify", "verdict"}

TaskLocals ==
    [op : AllOps \cup {"none", "expire", "verify", "topUp"}, pc : Pcs,
     resv : Resvs \cup {null}, pay : Pays \cup {null},
     key : Keys \cup {null}, buyer : Buyers \cup {null},
     slip : Slips \cup {null},
     tickets : SUBSET Tickets, qty : Nat, exp : Nat,
     seen : LotteryStatus, count : Nat,
     verdict : {"none", "DUPLICATE", "FAILED", "AUTO", "MANUAL"}]

TaskRow == {rec \in TaskLocals : /\ rec.pc \in PayPcs => rec.pay \in Pays
                                 /\ rec.pc \in SlipPcs => rec.slip \in Slips}

(* Every column has its type: references are ids or NULL, statuses are the   *)
(* enums of schema.prisma, and a task's locals are values a row can hold.    *)
TypeOK ==
    /\ now \in Nat
    /\ lottery \in LotteryRow
    /\ ticket \in [Tickets -> TicketRow]
    /\ resv \in [Resvs -> ResvRow]
    /\ job \in [Resvs -> JobRow]
    /\ pay \in [Pays -> PayRow]
    /\ audit \subseteq Pays \X {"APPROVE", "REJECT"}
    /\ task \in [Tasks -> TaskRow]
    /\ faults \in Nat
    /\ crashes \in Nat

-----------------------------------------------------------------------------
(* Initial state: the tickets createLottery has pre-generated, nobody        *)
(* connected, and a lottery that has been published.                         *)

Idle == [op |-> "none", pc |-> "idle", resv |-> null, pay |-> null,
         key |-> null, buyer |-> null, slip |-> null, tickets |-> {},
         qty |-> 0, exp |-> 0, seen |-> "PUBLISHED", count |-> 0,
         verdict |-> "none"]

NewTicket == [status |-> "AVAILABLE", resv |-> null, pay |-> null, buyer |-> null]

NoResv == [exists |-> FALSE, cancelled |-> FALSE, confirmed |-> FALSE,
           key |-> null, qty |-> 0, exp |-> 0]

NoPay == [exists |-> FALSE, status |-> "INITIATED", approved |-> FALSE,
          deleted |-> FALSE, buyer |-> null, key |-> null, slips |-> {},
          ref |-> null]

NoJob == [state |-> "none", due |-> 0, tries |-> 0]

NewLottery(status) == [status |-> status, sold |-> 0, deleted |-> FALSE]

Start ==
    /\ now = 0
    /\ ticket = [t \in Tickets |-> NewTicket]
    /\ resv = [r \in Resvs |-> NoResv]
    /\ job = [r \in Resvs |-> NoJob]
    /\ pay = [p \in Pays |-> NoPay]
    /\ audit = {}
    /\ task = [q \in Tasks |-> Idle]
    /\ faults = 0
    /\ crashes = 0

Init == Start /\ lottery = NewLottery("PUBLISHED")

-----------------------------------------------------------------------------
(* What the handlers ask of the rows and do with their own record *)

HeldBy(r)   == {t \in Tickets : ticket[t].resv = r}
LinkedTo(p) == {t \in Tickets : ticket[t].pay = p}
Available   == {t \in Tickets : ticket[t].status = "AVAILABLE"}

(* A reservation neither cancelled nor confirmed. *)
OpenResv(r) == resv[r].exists /\ ~resv[r].cancelled /\ ~resv[r].confirmed

(* The unique index on idempotencyKey admits key k; NULLs never collide.     *)
ResvKeyFree(k) == k = null \/ \A r \in Resvs : resv[r].exists => resv[r].key # k
PayKeyFree(k)  == k = null \/ \A p \in Pays : pay[p].exists => pay[p].key # k

(* An HTTP request for handler o arrives on the free slot q. *)
Arrives(q, o) == q \in Requests /\ task[q].pc = "idle" /\ o \in Ops

Run(q, rec)  == task' = [task EXCEPT ![q] = rec]
Goto(q, pc)  == task' = [task EXCEPT ![q].pc = pc]

(* The handler of q returns or throws: an HTTP request is answered, a job    *)
(* that returned is complete.                                                *)
Return(q) ==
    /\ Run(q, Idle)
    /\ job' = IF task[q].op = "expire"
              THEN [job EXCEPT ![task[q].resv].state = "done"]
              ELSE job

rows == <<lottery, ticket, resv, pay, audit>>
env  == <<now, faults, crashes>>
=============================================================================
