----------------------------- MODULE BackOffice -----------------------------
(***************************************************************************)
(* The operator's and the administrator's back office around a lottery:    *)
(* the catalogue of one lottery (Catalogue), the bank accounts of clients  *)
(* and of the platform (modules/clients/clients.service.ts,                *)
(* modules/admin/admin.service.ts), and the report exports                 *)
(* (modules/reports/reports.service.ts,                                    *)
(* modules/jobs/processors/export.processor.ts), which a Bull queue runs.  *)
(* They share the request slots, the database that may fail and the        *)
(* process that may stop.                                                  *)
(***************************************************************************)
EXTENDS Catalogue

CONSTANTS
    Workers,       \* slots of the export queue's processor
    MaxAttempts,   \* defaultJobOptions.attempts
    MaxStalled,    \* Bull's maxStalledCount
    MaxCrashes     \* bound: restarts of the process

ASSUME OfficeAssumption ==
    /\ Requests \cap Workers = {}
    /\ MaxAttempts \in Nat \ {0} /\ {MaxStalled, MaxCrashes} \subseteq Nat

VARIABLES
    bank,      \* Bank rows: their name, or null
    account,   \* BankAccount rows
    export,    \* Export rows: their status
    job,       \* the generate-export job of each export
    worker,    \* the processor's slots
    crashes    \* number of restarts so far

officeRows == <<bank, account, export, job, worker, crashes>>
officeVars == <<catalogueVars, officeRows>>

(* bankId is NOT NULL. *)
AccountRow == [exists : {TRUE}, owner : Owners \cup {null}, bank : Banks,
               default : BOOLEAN, active : BOOLEAN]
NoAccount == [exists |-> FALSE, owner |-> null, bank |-> null, default |-> FALSE,
              active |-> FALSE]

ExportStatus == {"PENDING", "PROCESSING", "COMPLETED", "FAILED"}

(* waiting covers Bull's delayed: a retry waits for its backoff.             *)
JobRow == [state : {"none", "waiting", "active", "done", "failed"},
           tries : Nat, stalls : Nat]
NoJob == [state |-> "none", tries |-> 0, stalls |-> 0]

WorkerRow == [pc : {"idle", "mark", "generate", "complete", "ack", "record_failure",
                    "rethrow"},
              export : Exports \cup {null}]
NoWork == [pc |-> "idle", export |-> null]

OfficeInit ==
    /\ CatalogueInit
    /\ bank = [b \in Banks |-> null]
    /\ account = [a \in BankAccounts |-> NoAccount]
    /\ export = [e \in Exports |-> "NONE"]
    /\ job = [e \in Exports |-> NoJob]
    /\ worker = [w \in Workers |-> NoWork]
    /\ crashes = 0

-----------------------------------------------------------------------------
(* Bank accounts *)

Named(name) == {b \in Banks : bank[b] = name}
Accounts    == {a \in BankAccounts : account[a].exists}

(* The handler's record once it has its bank.  Variant: the id of the bank   *)
(* is not taken over.                                                        *)
WithBank_Forgotten(rec, b) ==
    [rec EXCEPT !.pc = IF rec.default THEN "default_unset" ELSE "account_create"]
WithBank(rec, b) ==
    [rec EXCEPT !.bank = b,
                !.pc = IF rec.op = "moveAccount" THEN "account_move"
                       ELSE IF rec.default THEN "default_unset" ELSE "account_create"]

(* The administrator's handlers look a bank up by its name, the client's by  *)
(* a name that contains the one given.                                       *)
Lookup(owner, name) ==
    IF owner = null THEN Named(name) ELSE {b \in Banks : <<bank[b], name>> \in Contains}

(* A new account of owner (none: the platform), or an account moved to       *)
(* another bank: the bank is looked up first.                                *)
FindBank(q, op, owner, item, name, default) ==
    /\ LET rec == [NoReq EXCEPT !.pc = "bank_create", !.op = op, !.owner = owner,
                                !.item = item, !.name = name, !.default = default]
       IN \/ Lookup(owner, name) = {} /\ Takes(q, op, rec)
          \/ \E b \in Lookup(owner, name) : Takes(q, op, WithBank(rec, b))
    /\ UNCHANGED <<catalogueRows, officeRows>>

AddAccountRead(q) ==
    \E name \in BankNames, owner \in Owners \cup {null}, default \in BOOLEAN :
        /\ owner = null => ~default
        /\ FindBank(q, "addAccount", owner, null, name, default)

MoveAccountRead(q) ==
    \E name \in BankNames, a \in Accounts :
        FindBank(q, "moveAccount", null, a, name, FALSE)

CreateBank(q) ==
    /\ At(q, "bank_create") /\ Named(null) # {}
    /\ LET b == Fresh(Named(null), {}) IN
        /\ bank' = [bank EXCEPT ![b] = req[q].name]
        /\ Move(q, WithBank(req[q], b))
    /\ UNCHANGED <<catalogueRows, history, account, export, job, worker, crashes>>

(* "If marking as default, unset others first".  Variant: the condition on   *)
(* the owner is turned round.                                                *)
Unset_Foreign(a, owner) == [a EXCEPT !.default = @ /\ a.owner = owner]
Unset(a, owner) == [a EXCEPT !.default = @ /\ a.owner # owner]

UnsetDefaults(q) ==
    /\ At(q, "default_unset")
    /\ account' = [a \in BankAccounts |-> Unset(account[a], req[q].owner)]
    /\ Step(q, "account_create")
    /\ UNCHANGED <<catalogueRows, bank, export, job, worker, crashes>>

CreateAccount(q) ==
    /\ At(q, "account_create")
    /\ Free(BankAccounts, Accounts)
    /\ account' = [account EXCEPT ![Fresh(BankAccounts, Accounts)] =
                     [exists |-> TRUE, owner |-> req[q].owner, bank |-> req[q].bank,
                      default |-> req[q].default, active |-> TRUE]]
    /\ Answer(q)
    /\ UNCHANGED <<catalogueRows, bank, export, job, worker, crashes>>

(* A client switches its account off; the administrator switches any account *)
(* off or on, or deletes it.  isDefault stays.                               *)
DropAccountRead(q) ==
    /\ \E a \in Accounts :
        Takes(q, "dropAccount", [NoReq EXCEPT !.pc = "account_drop", !.item = a])
    /\ UNCHANGED <<catalogueRows, officeRows>>

DropAccountWrite(q) ==
    /\ At(q, "account_drop") /\ req[q].item \in Accounts
    /\ LET a == req[q].item IN
        \/ account' = [account EXCEPT ![a] = NoAccount]
        \/ \E on \in BOOLEAN : account' = [account EXCEPT ![a].active = on]
    /\ Answer(q)
    /\ UNCHANGED <<catalogueRows, bank, export, job, worker, crashes>>

MoveAccountWrite(q) ==
    /\ At(q, "account_move") /\ req[q].item \in Accounts
    /\ account' = [account EXCEPT ![req[q].item].bank = req[q].bank]
    /\ Answer(q)
    /\ UNCHANGED <<catalogueRows, bank, export, job, worker, crashes>>

(* The row has been deleted since it was read: the statement throws.         *)
AccountGone(q) ==
    /\ req[q].pc \in {"account_drop", "account_move"}
    /\ req[q].item \notin Accounts
    /\ Answer(q)
    /\ UNCHANGED <<catalogueRows, officeRows>>

-----------------------------------------------------------------------------
(* Exports: requestExport, and handleGenerateExport on the queue's worker *)

RequestExport(q) ==
    /\ \E e \in Exports :
        /\ export[e] = "NONE"
        /\ export' = [export EXCEPT ![e] = "PENDING"]
        /\ Takes(q, "export", [NoReq EXCEPT !.pc = "export_enqueue", !.item = e])
    /\ UNCHANGED <<catalogueRows, bank, account, job, worker, crashes>>

EnqueueExport(q) ==
    /\ At(q, "export_enqueue")
    /\ job' = [job EXCEPT ![req[q].item].state = "waiting"]
    /\ Answer(q)
    /\ UNCHANGED <<catalogueRows, bank, account, export, worker, crashes>>

work == <<catalogueVars, bank, account, crashes>>

Works(w, pc) == worker[w].pc = pc
Goes(w, pc)  == worker' = [worker EXCEPT ![w].pc = pc]
Marks(w, status) == export' = [export EXCEPT ![worker[w].export] = status]

TakeJob(w) ==
    /\ Works(w, "idle")
    /\ \E e \in Exports :
        /\ job[e].state = "waiting"
        /\ job' = [job EXCEPT ![e].state = "active"]
        /\ worker' = [worker EXCEPT ![w] = [pc |-> "mark", export |-> e]]
    /\ UNCHANGED <<work, export>>

MarkProcessing(w) ==
    /\ Works(w, "mark") /\ Marks(w, "PROCESSING") /\ Goes(w, "generate")
    /\ UNCHANGED <<work, job>>

(* The record and the rows of the workbook are read; nothing is stored yet.  *)
Generate(w) ==
    /\ Works(w, "generate") /\ Goes(w, "complete")
    /\ UNCHANGED <<work, export, job>>

CompleteExport(w) ==
    /\ Works(w, "complete") /\ Marks(w, "COMPLETED") /\ Goes(w, "ack")
    /\ UNCHANGED <<work, job>>

(* The processor has returned and Bull moves the job to completed.           *)
Acknowledge(w) ==
    /\ Works(w, "ack")
    /\ job' = [job EXCEPT ![worker[w].export].state = "done"]
    /\ worker' = [worker EXCEPT ![w] = NoWork]
    /\ UNCHANGED <<work, export>>

(* A job whose processor threw.  Variant: the catch block does not rethrow.  *)
AfterThrow_Swallowed(j) == [j EXCEPT !.state = "done", !.tries = @ + 1]
AfterThrow(j) ==
    [j EXCEPT !.state = IF j.tries + 1 < MaxAttempts THEN "waiting" ELSE "failed",
              !.tries = @ + 1]

RecordFailure(w) ==
    /\ Works(w, "record_failure") /\ Marks(w, "FAILED") /\ Goes(w, "rethrow")
    /\ UNCHANGED <<work, job>>

(* The processor has thrown and Bull moves the job.                          *)
Rethrow(w) ==
    /\ Works(w, "rethrow")
    /\ job' = [job EXCEPT ![worker[w].export] = AfterThrow(@)]
    /\ worker' = [worker EXCEPT ![w] = NoWork]
    /\ UNCHANGED <<work, export>>

Faulty == faults < MaxFaults /\ faults' = faults + 1
unfailing == <<catalogueRows, requests, history, bank, account, export, crashes>>

(* Inside the try block a failure is recorded; the statements before it and  *)
(* in the catch block throw out of the processor.                            *)
WorkFails(w) ==
    /\ Faulty
    /\ \/ Works(w, "generate") \/ Works(w, "complete")
    /\ Goes(w, "record_failure")
    /\ UNCHANGED <<unfailing, req, job>>

WorkThrows(w) ==
    /\ Faulty
    /\ \/ Works(w, "mark") \/ Works(w, "record_failure")
    /\ Goes(w, "rethrow")
    /\ UNCHANGED <<unfailing, req, job>>

-----------------------------------------------------------------------------
(* Failures and restarts *)

RequestFails(q) ==
    /\ ~At(q, "idle") /\ Faulty
    /\ req' = [req EXCEPT ![q] = NoReq]
    /\ UNCHANGED <<unfailing, job, worker>>

(* A job that a stopped process held is stalled: Bull runs it again, but not *)
(* more than MaxStalled times.  An upload may have left its file behind.     *)
AfterStall(j) ==
    [j EXCEPT !.state = IF j.stalls < MaxStalled THEN "waiting" ELSE "failed",
              !.stalls = @ + 1]

Crash ==
    /\ crashes < MaxCrashes
    /\ crashes' = crashes + 1
    /\ req' = [q \in Requests |-> NoReq]
    /\ worker' = [w \in Workers |-> NoWork]
    /\ job' = [e \in Exports |-> IF job[e].state = "active" THEN AfterStall(job[e]) ELSE job[e]]
    /\ UNCHANGED <<catalogueRows, requests, faults, history, bank, account, export>>

-----------------------------------------------------------------------------
OfficeBegin(q) ==
    \/ AddAccountRead(q) \/ MoveAccountRead(q) \/ DropAccountRead(q) \/ RequestExport(q)

OfficeContinue(q) ==
    \/ CreateBank(q) \/ UnsetDefaults(q) \/ CreateAccount(q) \/ DropAccountWrite(q)
    \/ MoveAccountWrite(q) \/ AccountGone(q) \/ EnqueueExport(q) \/ RequestFails(q)

Work(w) ==
    \/ TakeJob(w) \/ MarkProcessing(w) \/ Generate(w) \/ CompleteExport(w)
    \/ Acknowledge(w) \/ RecordFailure(w) \/ Rethrow(w) \/ WorkFails(w) \/ WorkThrows(w)

OfficeNext ==
    \/ \E q \in Requests : /\ CatalogueBegin(q) \/ CatalogueContinue(q)
                           /\ UNCHANGED officeRows
    \/ \E q \in Requests : OfficeBegin(q) \/ OfficeContinue(q)
    \/ \E w \in Workers : Work(w)
    \/ Crash

OfficeSpec == OfficeInit /\ [][OfficeNext]_officeVars

-----------------------------------------------------------------------------
(* Properties *)

(* Every column has its type: statuses are the enums of schema.prisma,       *)
(* references are ids or NULL.                                               *)
OfficeTypeOK ==
    /\ lot \in LotRow /\ numbers \subseteq Nat /\ prizes \subseteq Prizes
    /\ image \in [Images -> Files \cup {null}] /\ logo \in Files \cup {null}
    /\ disk \subseteq Files /\ files \subseteq Files
    /\ req \in [Requests -> ReqRow] /\ {requests, faults, crashes} \subseteq Nat
    /\ {late, edited} \subseteq BOOLEAN
    /\ bank \in [Banks -> BankNames \cup {null}]
    /\ account \in [BankAccounts -> AccountRow \cup {NoAccount}]
    /\ export \in [Exports -> ExportStatus \cup {"NONE"}]
    /\ job \in [Exports -> JobRow] /\ worker \in [Workers -> WorkerRow]

(* Looking up and creating are separate statements without a unique index,   *)
(* so overlapping requests may leave several defaults of one client or       *)
(* several banks of one name, but never more than there were requests at     *)
(* once; the next request sets a client's defaults right                     *)
(* (clients.service.ts:165-202, admin.service.ts:365-412).                   *)
DuplicatesNeedOverlap ==
    /\ \A o \in Owners :
        Cardinality({a \in BankAccounts : account[a].default /\ account[a].owner = o})
            <= Cardinality(Requests)
    /\ \A name \in BankNames : Cardinality(Named(name)) <= Cardinality(Requests)

(* A job is complete only when its export is; an export is given up only     *)
(* after as many failures as it has attempts, or after one restart too many; *)
(* and one that was requested without a failure or a restart has its job or  *)
(* is about to get it.  No export is left in PROCESSING otherwise            *)
(* (export.processor.ts:17-53, reports.service.ts:372-393,                   *)
(* app.module.ts:68-73).                                                     *)
ExportsAreAccountedFor ==
    \A e \in Exports :
        /\ job[e].state = "done" => export[e] = "COMPLETED"
        /\ job[e].state = "failed" => faults >= MaxAttempts \/ crashes > MaxStalled
        /\ job[e].state = "none" /\ export[e] # "NONE" =>
             \/ \E q \in Requests : At(q, "export_enqueue") /\ req[q].item = e
             \/ faults + crashes > 0
=============================================================================
