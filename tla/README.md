# Verification of the lottery backend

The backend sells lottery tickets for its clients, the operators: a buyer reserves tickets, pays by bank
transfer, uploads a picture of the transfer slip, and an automatic check or a reviewer approves or rejects the
payment; after the sale the operator draws the winners. Operators in turn subscribe to a plan and pay for it the
same way. It is a NestJS application over PostgreSQL (Prisma) with Bull queues in Redis. This directory holds
TLA+ modules of its services, TLC configurations that check them on small instances, and theorems about them
checked by TLAPS.

Paths are relative to the repository's `src/` (`prisma/` lies beside it); `T` is `modules/tickets/ticket.service.ts`, `P`
`modules/payments/payment.service.ts`, `V` `modules/slip-verify/slip-verify.service.ts`, `L`
`modules/lottery/lottery.service.ts`, `D` `modules/draw/draw.service.ts`, `S` `modules/plans/plans.service.ts`, `A`
`modules/auth/auth.service.ts`, `R` `modules/reports/reports.service.ts`.

## 1. Inventory

| Component | State | What is hard about it | What makes it correct | Here |
|---|---|---|---|---|
| Tickets (`T`) | `LotteryTicket`, `TicketReservation`, the lottery's status and `ticketsSold` | every operation reads first and writes in a later transaction; jobs and requests race; manual selection takes no lock | a hold is never stranded, lost or shared; a sold ticket has the right owner | modelled |
| Payments of tickets (`P`) | `PaymentTransaction`, `PaymentSlip`, `AuditLog` | the verification runs behind an answered request; reviewers race with it; several statements without a transaction | decisions rest on an approval; retries make no second row; payments and tickets agree | modelled |
| Spreadsheet imports (`P:866-1868`) | the same rows | tickets are taken by number, whoever holds them; four to seven statements a row | the sale's invariants survive a row at any point | modelled |
| Payments of subscriptions (`P:204-290, 416-518, 692-816`), plans (`S`), quota (`L:64-110`) | `Subscription`, `SubscriptionTransaction`, `PaymentSlip`, `lotteriesUsed` | check-then-create; two routes for a slip; a verdict that arrives after a decision | a term, and a lottery, was paid for; a review rests on a slip; the quota is charged | modelled (edits of plans are not) |
| Slip verification (`V`) | none of its own | four sources, an order of branches, weights and two thresholds | a slip is approved automatically on exactly the evidence the code lists | modelled as a function |
| Reservation queue (`modules/jobs/processors/reservation.processor.ts`, `app.module.ts:68-73`) | delayed jobs in Redis | job added inside a database transaction; retries; stalled jobs | a hold is never forgotten | modelled |
| Export queue (`modules/jobs/processors/export.processor.ts`, `R:372-393`) | `Export` rows and their jobs | status written beside the job's own | export and job never tell different stories unless something failed | modelled |
| Lottery (`L`) | `Lottery`, `LotteryPrize`, `LotteryImage`, tickets | status written by id alone after a read; images counted before they are stored; range edited by parts | a lottery is published with a prize unless a deletion overtook it, and goes back only by a late writer; its range and its tickets agree | modelled but for two edits |
| Draw (`D`) | `LotteryDraw`, `LotteryWinner` | two draws at once; tickets read before the transaction | winners are distinct, those of a system draw have paid; results are published | modelled |
| Authentication, staff, buyers, administration (`A`, `modules/{staff,buyers,admin}`) | four account tables, `users`, `RefreshToken`, failed-login counters, audit rows | counters and tokens read and then written back; second writes that may fail | sessions, lockouts and e-mails survive overlap | modelled but for password changes and profile edits |
| Clients, bank accounts, files (`modules/{clients,files}`) | `Bank`, `BankAccount`, `File`, the disk | look-up and creation apart; three writes in three places | what is shown is stored; duplicates need overlap | modelled but for profile edits |
| Reports (`R`, queries of `T`, `P`, `L`) | none | the same rows counted in a dozen ways | the figures agree with each other | modelled but for formats and winners' lists |
| Notifications, events gateway, health, common, database, configuration | none that a handler decides on | | | not modelled |

The components interact through the database. `initiatePayment` ends with `confirmReservation`, an approval with
`finalizeTickets`, an expired reservation with `cancelReservation`; `reserveTickets` puts the `expire-reservation`
job into Redis, whose processor calls `expireReservation`; an import ends in `approvePayment`; `createLottery`
charges the client's subscription. The events gateway is told of each change and nobody reads it back. The
hazards this leaves, each with its line and the properties aimed at it, are the `hazards` of `PROJECT.json`.

## 2. The models

### Interleaving

A Node process runs one handler until its next `await`, several processes may share the database, and each await of
a handler is one statement or one transaction. So each handler in flight is a record with a program counter
(`task`, `desk`, `call`, `req`, `worker`); an action is one statement or one transaction; and between two actions of
a handler anything else may happen. What a handler has read and uses later is in its record, where it can go stale.

A read at the start of a handler is one action with its guards (`...Read`). If the guard sends the client home
nothing has changed, so that case is no step; an early return later in a handler is a step. A transaction of several
statements is one action. The database runs at its default level, READ COMMITTED, where an `UPDATE ... WHERE` waits
for the rows it wants and evaluates its condition again on the committed rows; with that, each transaction of these
services behaves as if it ran at the time of its updates, except for the plain `SELECT` of a manual selection and the
two statements of `publishResults`, which are actions of their own. Two statements are merged where the second
decides nothing the first could spoil: the idempotency lookup with the read that follows it (the unique index
decides again at the insert).

| Module | What it holds | Code |
|---|---|---|
| `SalesStore` | CONSTANTS, the rows, queue and tasks, their types, `Init` | `prisma/schema.prisma`, `L:151-180` |
| `TicketService` | reserve, cancel, expire, confirm, finalize | `T:36-222`, `reservation.processor.ts` |
| `SlipVerify` | what becomes of one slip: extraction, online checks, score, verdict | `V:84-681` |
| `PaymentService` | initiate, upload, verification, reviews | `P:42-202, 294-414, 521-690, 820-863`, `V:49-89, 386-430` |
| `SaleLedger` | the abstract ledger | |
| `TicketSales` | closing, clock, failures, restarts, `Next`, fairness, the refinement mapping, properties | `L:271-277`, `app.module.ts:68-73` |
| `Imports` | rows of both imports beside the sale | `P:1138-1868` |
| `Reports` | the queries over the rows of a sale, with the two limits of the platform's revenue | `R`, `T`, `P`, `L` |
| `LotteryDraw` | life cycle and draw beside the sale and its imports | `D:22-158, 198-269`, `L:254-293` |
| `Subscriptions` | plans, subscriptions, their payments, the quota | `S`, `P`, `L:64-145` |
| `Accounts` | logins, lockout, refresh tokens, accounts and guests, their second writes | `A`, `modules/{staff,buyers,admin}` |
| `Catalogue` | one lottery's draft, tickets, prizes, life cycle, images, files | `L`, `modules/files/file.service.ts` |
| `BackOffice` | on top: bank accounts, the export queue, restarts | `modules/{clients,admin,reports,jobs}` |
| `MC*` | sets for TLC and the symmetry | |
| `*Proofs` | the theorems about the module they are named after | |

### The sale: `SalesStore`, `TicketService`, `PaymentService`, `TicketSales`

| Variable | Code |
|---|---|
| `lottery` | status, `ticketsSold` and deletion of the `Lottery` row; `Spec` starts with a published lottery, `DrawSpec` with a draft |
| `ticket[t]` | status, `reservationId`, `paymentId`, `buyerId` of a `LotteryTicket` |
| `resv[r]` | a `TicketReservation`; `cancelled`, `confirmed` stand for the two timestamps |
| `job[r]` | the Bull job `reservation:<r>`, with its due time and the attempts it has used |
| `pay[p]` | a `PaymentTransaction` with its slips; `approved` is `approvedAt # null`, `ref` is the verified reference or receipt URL of `metadata` |
| `audit` | the APPROVE and REJECT rows of payments |
| `task[q]` | the in-flight handlers; `Requests` are slots for HTTP requests, `Workers` of the queue's processor |
| `now`, `faults`, `crashes` | clock and the numbers of failures and restarts so far |

| Handler | Actions |
|---|---|
| `reserveTickets` | `ReserveRead`, then `ReserveRandomly`, or `SelectManually` and `ReserveManually`; `ReserveRefused` (conflict or key taken), `ReserveCommitFails` (the job is in Redis, the transaction is not committed) |
| `cancelReservation` | `CancelRequest` (HTTP) or `CancelRead` (called by expire and confirm), `CancelTx` |
| `expireReservation` | `ExpireRead`, then as cancel |
| `initiatePayment`, `confirmReservation` | `InitiateRead`, `CreatePayment` or `CreatePaymentRefused`, `ConfirmRead`, `ConfirmTx` or a cancellation |
| `uploadPaymentSlip` | `UploadRead`, `DuplicateSlipCheck`, `StoreSlip` |
| `runSlipVerification` | `VerifySlip`, `StoreVerdict`, then `FinalizeRead`, `FinalizeTx` when it approves |
| `approvePayment` | `ApproveRead`, `ApproveWrite`, `FinalizeRead`, `FinalizeTx`, `WriteAudit` |
| `rejectPayment` | `RejectRead`, `RejectWrite`, `RejectRelease`, `WriteAudit` |
| refund, under review, delete, restore | a `...Read` and a `...Write` each |
| `closeLottery` | `CloseRead`, `CloseWrite` |
| failures | `Throws` (a database call of any handler fails; a job is retried until its attempts are used up), `Crash` (all handlers gone, rows and queue kept, stalled jobs back in the queue) |

A slip is its content, with the bank reference that extraction finds in it (`RefOf`); amounts other than a slip's,
names and messages are left out. The search for a reference in the notes of other payments may match whenever another
payment in use has been approved, since a reviewer writes those notes freely. `SKIP LOCKED` may pass over any row
that another transaction holds, so a random selection may be refused at any time.

### The slip: `SlipVerify`

A pure function from what the QR scanner and the OCR read, and what the bank or the receipt's page answers, to
AUTO, MANUAL or FAILED. `Extract` merges the two readings (the QR code's reference first); `OnlineVerdict` is the
order of `tryOnlineVerification`: a bank that is configured and can be named is asked, and when it cannot be reached
the receipt page is *not* tried; `Score` adds the four parts, in cents, with both limits for the amount, and
`Confident` is the `confidence > 0.7` of floating-point sums (0.4 + 0.3 is not above it, 0.4 + 0.2 + 0.1 is).
`VerifySlip` picks from the verdicts this function has for a slip with, or without, a deduplication key.

### The imports: `Imports`

A row of a spreadsheet is one handler: rows share nothing but the database, and one that throws does not stop the
others. An `importPayments` row runs `ImportRead`, `ImportCreate` or the open payment found, `ImportListed` or
`ImportCount`, `ImportPick`, `ImportAssign`, `ImportSubmit`, `ImportApprove` and on into `approvePayment`; a bulk row
`BulkRead`, `BulkCreate`, `BulkPick`, then `BulkTx` or, with too few tickets, `BulkShort`. The find-or-create of the
buyer is the choice of `b`; parsing and the answer sheet are left out.

### The ledger: `SaleLedger`

What the sale promises, with nothing of how: payments are opened for a payer and approved, only an approved payment
buys tickets, for its own payer, and only tickets nobody owns; only an approved payment is recorded as approved; a
ticket may be given back. `TicketSales` maps its rows to it (`Ledger`): a payment is opened when its row exists,
approved when `approvedAt` is set, recorded when its APPROVE row is in the audit log; a ticket is bought with its
`paymentId` while it is SOLD. The sale implements it (`ImplementsLedger`, checked in `verification` and proved). The
sale *with imports* does not: a row writes SOLD by ticket id alone, and may take a ticket that another payment has
bought since the row looked. What survives the imports is `SoldTicketsBelongToThePayer`.

### The reports: `Reports`

The queries are operators over the rows. A sum of money is the payments summed with the number of times each is
added, since the buyers' lists add a payment's whole amount once for every ticket linked to it (`R:132, 570`). `PlatformRevenue`
reads the last `RevenueRows` approvals (`take: 1000`, `R:327`) and shows `RevenuePeriods` periods of them (`slice(0, 24)`, `R:350`). The date
of `approvedAt` is not a column of the model: `RevenueIsTheClients` quantifies over every assignment of payments to `Periods`.

### The lottery's life and its draw: `LotteryDraw`

`LotteryDraw` extends `Imports`, and so the sale: their actions leave `draws`, `winners` and `desk` alone, and the requests
of the lottery's client run at `Desks`, slots like `Requests`, over the same `lottery` and `ticket` rows. (`closeLottery`
stays with the sale.) `draws[i]` is the method of a recorded `LotteryDraw`, `winners` the `LotteryWinner` rows, and a
desk's record holds what its handler has read: the method, the awards it is about to record, and for a publication the
winners it has updated.

| Handler | Actions |
|---|---|
| `publishLottery`, `archiveLottery`, `deleteLottery` | `LifeCycleRead`, then `PublishLottery`, `ArchiveLottery` or `DeleteLottery` by id alone |
| `executeDraw` | `DrawRead`, `DrawCheck` (an earlier draw?), `ExecuteSelect` (the sold tickets, shuffled), `DrawCommit` or `DrawRefused` (the unique index on the winning ticket) |
| `manualDraw` | the same, with `ManualSelect`: any tickets and prizes, of any status |
| `publishResults` | `ResultsRead`, `ResultsSelect` (`updateMany` on the winners), `ResultsCommit` |
| the imports | `ImportRow`: an import asks for no lottery's status and may come before, during and after a draw |
| failures | `DeskThrows`, `Restart` (with the sale's `Crash`) |

`SaleDrawNext` is the next-state relation without the imports, `DrawNext` the one that is checked and, but for the ledger, proved about.

At READ COMMITTED a draw can commit between the two statements of `publishResults`, and then its winners have not been
seen by the first. A recorded draw's transaction is one step, because the unique index decides at its inserts. The
shuffle is any order of any tickets as many as there are prizes; the prizes are constant (`PrizeSlots` lists each by
rank as often as its quantity).

### Subscriptions: `Subscriptions`

`sub`, `txn`, `lot` are the `Subscription`, `SubscriptionTransaction` (with its slips) and `Lottery` rows, numbered in the
order of their `createdAt`, because the quota looks for the latest active subscription. A call is a handler:
`ClientCall` (subscribe, submit a slip, cancel, upgrade), `AdminCall` (approve, reject, delete a plan), `PaymentCall`
(initiate, upload, and the verification that goes on behind the answer), `LotteryCall` (`createLottery`'s validation
and transaction, publication and closing as far as they move the count). `ExpireOverdue` is the body of the
`expire-subscriptions` job; nothing in the repository adds that job, so the time of a run is left open. The verdict on a
slip is a choice. `CallFails` ends any handler between two statements.

### Accounts: `Accounts`

The four tables are one function `acct` with the columns a handler decides on. `LoginStep` holds the four logins and the
unified one (three tables asked in turn), the counter of failed logins read and written back, the token and the
`users` row saved after it, refresh (find, revoke, issue: three statements) and logout; `ManagementStep` the creation,
status changes and deletion of accounts with the second write each makes: the `users` row of a registration (not awaited: a failure is
only logged), the subscription of a client who registers with a plan (`SubscriptionWrite`), the audit row of `createUser` and of a deletion. Two
creations make no second write: `createAdmin` (`CreateAdminRead`) and the buyers that payments and imports find or create (`GuestRead`). `by`
tells in a row which handler made it; no handler reads it but for a guest having no password. Durations count down (`TimePasses`) instead
of being compared with a clock. A token's `parent` and `misses` are history: no handler reads them.

### The back office: `Catalogue`, `BackOffice`

`Catalogue` is one lottery as its operator edits it: creation with its tickets generated in batches, edits of the range by
parts, prizes, the life cycle, images, banner and logo on top of `uploadFile`, which writes the bytes and then the row.
The sale's, the draw's and the publication's writes of the status are handlers of their own (`ReserveRead` and `ReserveWrite`, `DrawRead` and
`DrawWrite`, `ResultsRead` and `ResultsWrite`): each reads the lottery before its transaction, which writes the next status by id, so a
reservation may put SELLING over a lottery that has been closed, drawn or completed since. `BackOffice` adds the bank accounts
(bank looked up and created, other defaults unset, account created: separate statements; a client's lookup is by `contains`, the
administrator's by equality: `Lookup`) and the export queue with its attempts, stalled jobs and restarts. `late` and `edited` are history, and so is
`stale` in a handler's record.

## 3. What is checked

TLC explores every reachable state of each configuration (`tlc -config Hold.cfg MCTicketSales.tla`, ...).

| Run | Distinct states, depth | Asks | Answer |
|---|---|---|---|
| `hold` | 1,001,792, 21 | two clients reserve at random, cancel and pay, beside the expiry worker, with a failed call: `TicketsFollowTheirReservation`, `OpenReservationHoldsItsQuantity`, `ExpiryJobOutlivesTheHold`, `OneRowPerIdempotencyKey` | a hold is never stranded or short, its job survives it, and a retried key makes no second row |
| `imports` | 1,095,392, 52 | rows of both imports, reservations and rejections contend for one ticket: `TicketsFollowTheirReservation`, `SoldTicketsBelongToThePayer`, `DecisionsRestOnApproval` | a row that takes a held or a paid ticket neither strands it nor sells it to anybody but the payer |
| `verification` | 1,524,953, 59 | two payments of two buyers for one ticket, two handlers at once, the verification behind an answered upload: `TypeOK`, the two above, `VerdictsFollowTheEvidence`, `ImplementsLedger` | no stale verdict or review sells, refunds or records without an approval; a ticket bought is not bought again before it is given back, also when the second payment takes it over; the sale is a ledger |
| `serial` | 4,327,103, 59 | one request at a time, nothing fails, nobody deletes and no import lists ticket numbers: `RestingRowsAgree`, `ReportsAgree` | tickets, payments, `ticketsSold` and every report agree when nothing is in flight |
| `expiry` | 76,646, 27 | two reservations, two failed calls, three attempts, a restart, the lottery closed and the payment deleted meanwhile, fairness: `HoldsAreSettled` | every reservation is in the end confirmed or cancelled |
| `draw` | 1,557,763, 35 | a lottery from draft to archive, two desks, one sale and both imports beside it: five properties of the draw | a ticket wins once, winners of system draws have paid, results come from a draw and are published |
| `subscriptions` | 1,105,978, 26 | two calls at once on two subscriptions and their transactions: six properties | terms and lotteries are paid for, a review rests on a slip, approvals survive but for a late verdict, the quota is passed by racers only |
| `accounts` | 648,516, 22 | two handlers register, log in, refresh, bring guests and manage accounts of four tables: six properties | tokens, lockouts, e-mails and second writes survive overlap |
| `backoffice` | 1,978,296, 27 | a lottery's draft and life cycle with the late writes of reservations and draws, files, bank accounts and an export, two requests at once, two failures and two restarts: eight properties | pictures shown are stored, the range fits the tickets, only late writers undo the life cycle or publish without a prize, an export and its job agree |
| `picked_twice` | violation, 7 | `ReservedTicketIsNotTaken` | two buyers pick one number and both reservations succeed |
| `drawn_twice` | violation, 13 | `ResultsAreFinal` | two draws of one lottery are both recorded |
| `phone_login` | violation, 8 | `PhoneLoginsReachTheBuyer` | a buyer's phone login dies in the staff table |

**Bounds.** Ids (`Resvs`, `Pays`, `Txns`, `Tokens`, ...) are used once each, so their number bounds how often rows are
created. Nearly all hazards here are races of two handlers over one row, or of two rows over one ticket: each run has two
of the rows and two of the slots its question is about, and one of what it is not about. In detail:

- *Sale.* `HoldTime` is 1 in `hold` and `expiry`, so a hold is open before it expires, and 0 elsewhere, where only the order
  of events matters. `MaxSold` and `MaxNow` cap a counter and the clock above anything the ids can reach. `serial` has two of
  everything and one slot, since overlap is what it excludes. `imports` starves two buyers, two payments and two
  reservations of a single ticket. `Listings` are the ticket numbers a spreadsheet row may name; it is `{{}}` in `serial`, because a row that lists a
  reserved ticket breaks `RestingRowsAgree` without any overlap (section 6), and in `draw`. `verification` has two payments of two
  buyers for one ticket, so that one may be bought away from the other, and no restart, which multiplies its states by four: restarts are in `expiry` and
  `draw`, and in the theorems.
- *Slips.* `Due` is 10 000 cents; 5 000, 9 500, 9 900, 9 901 and 10 000 are the amounts on either side of
  both limits of `Score`. All evidence is enumerated over them.
- *Reports.* Two payments, `RevenueRows` 2, `RevenuePeriods` 1 and two periods, so a revenue is cut off by its periods; the limit of
  rows is passed in the theorem only, which is for every limit.
- *Draw.* One prize, two tickets, three draws: more draws than desks, so one comes after two that overlapped. One payment, which the sale or an
  import brings: an unapproved buyer on a ticket that may be drawn is reached with it.
- *Expiry.* Fewer failures than attempts (2 < 3), and one restart, since Bull gives a job up that stalls twice.
- *Subscriptions.* A quota of one for three lotteries, two transactions for a renewal or an upgrade, six calls: two
  of them get a term approved, four remain to race.
- *Accounts.* No row is seeded, so each account has come by its registration, which takes one of the four calls. `MaxFailed` 2 instead of 5, so two overlapping failures reach the limit; four tokens for two exchanges
  of one token and one of a successor.
- *Back office.* `MaxImages` 1 instead of 10, `BatchSize` 2 instead of 1000: three tickets take two batches, and two uploads
  exceed the maximum. `MaxFaults` equals `MaxAttempts`, so an export can fail for good; `MaxStalled` is Bull's 1 and there are two
  restarts, so a stalled job runs again and the second restart gives it up. The environment's handlers are not counted by `MaxRequests`.

Symmetry is declared for rows of a kind, in runs of invariants and of action properties only; `expiry` has none, and
neither do the violations. `CHECK_DEADLOCK FALSE` is needed everywhere because ids, calls and time run out.

**Fairness.** Only `expiry` assumes any (`FairSpec`): time passes (`Tick`); a handler that has started goes on
(`Continue`), because Node resumes an awaited call; and the worker takes a job whose time has come (`ExpireRead`), because
the Bull processor polls as long as the process runs. No client is bound to call, no call to fail and no reviewer to act.

**Mutants.** For each property of a passing run there is an operator `<definition>_<change>`, used by no action: the
definition with one plausible slip of the pen (a condition dropped, a write forgotten, an order swapped).
Put in the definition's place, it makes TLC find the property violated, so each property depends on the code it is about.

## 4. What is proved

The theorems hold for every value of the constants that satisfies the named assumptions (`StoreAssumption`,
`DrawAssumption`, `ReportAssumption`, `AmountsAssumption`, `AccountAssumption`, `SubAssumption`, `CatalogueAssumption`, `OfficeAssumption`: finite sets, null is no id,
positive bounds).

| Module | Theorems (property) | Argument |
|---|---|---|
| `TicketSalesProofs` | `TypeCorrect` (`TypeOK`), `HoldsAreSafe` (`TicketsFollowTheirReservation`), `KeysAreUnique` (`OneRowPerIdempotencyKey`), `SoldToThePayer` (`SoldTicketsBelongToThePayer`), `ApprovalComesFirst` (`DecisionsRestOnApproval`), `ApprovalTakesEvidence` (`VerdictsFollowTheEvidence`), `JobsOutliveTheHold` (`ExpiryJobOutlivesTheHold`); with hypotheses: `RandomSelectionTakesNothing` (`ReservedTicketIsNotTaken`), `QuantityIsHeld` (`OpenReservationHoldsItsQuantity`) | below |
| `SaleLedgerProofs` | `SaleImplementsLedger` (`ImplementsLedger`) | from the invariants above, each action maps to a step of the ledger or to none |
| `ImportsProofs` | `ImportTypeCorrect`, `ImportsKeepHoldsSafe`, `ImportsKeepKeysUnique`, `ImportsSellToThePayer`, `ImportsKeepApprovalFirst`, `ImportsKeepTheJobs` | the sale's step lemmas are cited, the import's own actions added |
| `SerialProofs` | with hypotheses: `RowsAgreeAtRest` (`RestingRowsAgree`), `ReportsAgreeAtRest` (`ReportsAgree`) | below |
| `LotteryDrawProofs` | `SaleIsSafeBesideTheDraw`, `HoldsAreSafeBesideTheDraw`, `SaleBesideTheDrawImplementsLedger`, `TicketsWinOnce`, `OnlyPayersWin`, `DrawsComeFirst`, `NoWinnerIsForgotten`, `LateDrawsAreTurnedAway` (`LateDrawsAreRefused`); with a hypothesis: `LoneDrawsAreFinal` (`ResultsAreFinal`) | below |
| `SubscriptionsProofs` | `SubscriptionTypeCorrect`, `ApprovedTermsOnly`, `SlipsComeBeforeReviews`, `ApprovalsOutliveLaterDecisions`, `EveryLotteryIsCharged`, `TheQuotaIsPassedByRacersOnly` | below |
| `AccountsProofs` | `AccountTypeCorrect`, `RotationIsSafe`, `ExchangesAreBounded`, `EmailsAreUnique`, `CallsAreDoneInFull`, `FailuresAreNotLostForever` (`LostFailuresAreLimited`) | below |
| `BackOfficeProofs` | `OfficeTypeCorrect`, `PicturesAreStored` (`ShownFilesAreStored`), `UnprizedOnlyWhenOvertaken` (`UnprizedPublicationsWereOvertaken`), `LateWritersOnly` (`OnlyLateWritersUndoTheLifeCycle`), `ExportsAreNeverLostSilently` (`ExportsAreAccountedFor`), `ImagesAreBounded` (`ImagesExceedTheMaximumByOverlapOnly`), `DuplicatesAreBounded` (`DuplicatesNeedOverlap`), `RangeStaysConsistent` (`RangeIsConsistent`) | below |

**The sale.** `TypeOK` is inductive once it says of each program counter what the record of a handler holds (`PayPcs`, `SlipPcs`).
`TicketsFollowTheirReservation` is inductive with it, and the proof follows the writes: a cancellation frees *all* the
reservation's tickets in the transaction that marks it, so a stale second one finds none; a confirmation tests the mark
it read, but moves the tickets of the reservation away from RESERVED in the same step. `OneRowPerIdempotencyKey` rests on
the test of the unique index at the insert and on `PaymentsAreKept`. `SoldTicketsBelongToThePayer` alone is not
inductive: `FinalizeTx` sells for a payment some handler approved earlier. `ApprovalInv` adds that a handler on its way to sell or to
record has a payment that exists and was approved (`ActsOnPayment`, `ApprovedExist`); nothing ever clears `approvedAt`.
`ApprovalTakesEvidence` is about the function of `SlipVerify` alone: an equivalence, for any amount due and any amounts printed, between what the weights
and thresholds add up to (`ScoreIsEvidence`) and a list of what a slip must show.

**Holds.** `JobInv` says that the job of a reservation is due no earlier than its expiry (`JobAwaits`), even though the expiry is computed before the
transaction that adds the job (`ExpiryIsSoon`), and that it is not done while the reservation is open: a processor that returns
without cancelling has found the reservation settled. `RandomSelectionTakesNothing` assumes that buyers pick no
numbers (`Selections = {{}}`): a manual selection does take a held ticket (`picked_twice`). `QuantityIsHeld` needs two hypotheses, random
selection and that nobody rejects a payment. `QuantityInv` has an available ticket belong to nobody and an open reservation
hold its number of tickets; a reservation's confirmation and cancellation move all of them together. A rejection breaks it (section 6).

**One request at a time.** `RowsAgreeAtRest` assumes one slot (`Tasks = {q}`), no failures, no restarts, and imports that
name no ticket numbers; `ReportsAgreeAtRest` also that nobody deletes a payment. These are the hypotheses of the `serial` run, for any
numbers of rows, buyers and keys, any limits of the platform's revenue and sequences of calls of any length. `SerialInv` is what holds *between* the statements of a
handler: each ticket agrees with its payment and its reservation, but for a payment that is being sold or released (`Selling`,
`Releasing`), and no more tickets are sold than `ticketsSold` counts. What the one handler in flight has read is still true, and that is what overlap
destroys. The reports follow by counting the same sets.

**The draw.** A step of `DrawNext` is one of the sale's, one of an import's, one of a desk's, or a restart (`StepKinds`), and desks leave the sale's rows alone but
for the lottery's status (`DeskLeavesTheSale`), so the lemmas of the sale and of the imports carry over. `PayersInv` says that the winners of a system draw, and the awards such a draw is about to
record, have paid: they were sold tickets when they were read, and approvals stay. It says nothing of manual draws; `ResultsInv` says what the handler of a publication knows
(`DeskKnows`): the draw it saw is recorded, and which of its winners it has marked. The sale may still write SELLING over a lottery
that is closed or drawn, and the invariant is only as strong as that permits (`SaleMovesTheLottery`).
`RaceInv` counts for `LateDrawsAreRefused`: the recorded draws and the desks that have passed the test
for an earlier draw (`Racing`) are together never more than there are desks, because a desk that comes later is turned away. With one desk (the hypothesis of
`LoneDrawsAreFinal`) nobody is past the test when a draw is recorded; with two, `drawn_twice` shows the second draw. Holds, jobs and the
ledger are the lemmas of the sale again, with the life cycle and the draw as stutters (`SaleRowsInv`); the theorem about the ledger is about `SaleDrawNext`,
since an import may buy a ticket away.

**Subscriptions.** `SubsInv` is the types, the references between rows, `TermsArePaidFor`, `ReviewsRestOnASlip`, and for each
call what it `Knows` (its record) and `Holds` (rows it read that cannot be lost). Each of the many actions is shown to
be a `RowsStep`, which says how little a step may do to a row (`SubStep`, `TxnStep`, `LotStep`), and to put a known record into
its slot (`SlotTaken`); the invariant follows from these two alone. `LotteriesAreCharged` counts: a step either creates one lottery
and adds one to the counter of its subscription (`Creation`), or does neither (`NoCreation`). For the quota, `RaceInv` counts
`used` plus the creations under way that have passed the test: that sum stays below the quota plus the number of calls.

**Accounts.** `SessionsInv` says what a refresh in flight knows of its token (it exists, and is revoked once the handler is past that statement). `RotationInv`
bounds the successors of a token plus the handlers that hold it by the number of handlers: a revoked token is found by
nobody new. E-mails are unique by the index at the insert. `LivesInv` makes the audit rows, and those a handler is about to
write, true (`Announces`, `Tells`), and `SecondWrites` says that the second write of each account registered or created by `createUser`, and the subscription of a registration with a plan, is done or in
a handler's slot as long as nothing has failed; `createAdmin` and guests, who have none, are told apart by `by`. `MissesInv` is the argument that two handlers cannot overwrite each other's failed logins for
ever. For each account there is a floor, a value of the counter that no handler in flight can write below; a stale write raises the
floor to what it has written, and the wrong passwords forgotten by it are paid for by the way the floor has come (`Budget`, a sum of an arithmetic progression). The
lock comes when the counter, and so the floor, can rise no further. The property, like the theorem, is about two requests at a time.

**The back office.** Every action of a handler is shown to put a record into an idle slot (`Enters`, with what holds at that moment in `Entry`)
or to move one on (`Continues`, with where it may go in `Passed`), and every action of a worker to be one of eight kinds
(`QueueKinds`). The invariants follow from these and from what a statement writes. `LifeInv` says what a handler in flight still knows
of the lottery: a lottery that is being created is the only one, and one that is being published has a prize, or had one deleted since the handler counted (`stale`). `OnlyLateWritersUndoTheLifeCycle` needs only that a handler about to write
a status had read one below it in the cycle. `QueueInv`
has each active job with at most one worker, bounds attempts and stalls by the failures and restarts there were, and gives
every requested export without a job its handler. Images, defaults and banks of one name are counted together with the handlers about
to add one (`Within`): that sum never passes the bound. `BatchesMakeTheRange` is the arithmetic of the batches: for
every start, width and batch size they are the range, without a gap or a number too many.

The ledger is implemented by the sale, not by the sale with imports: `ImportSpec` lets a row sell a ticket that another payment has
bought since the row looked (section 2).

Every invariant the runs check is stated by a theorem. Only model-checked: `HoldsAreSettled`, because liveness under fairness and
ENABLED are out of TLAPS's reach. So is induction over data, and modules with RECURSIVE operators; there are none here. `picked_twice`,
`drawn_twice` and `phone_login` are counterexamples, which a run shows and a theorem cannot; the first two have a theorem beside them
that says under which hypothesis the violated property holds.

## 5. Where code and documentation part

Three runs show it (the `findings`): `picked_twice` (`T:33-34` promises atomic selection), `drawn_twice` (`D:18` promises an
immutable result), `phone_login` (`A:397-399` promises the first match of three tables). Read, without a run:

- `P:128-129` sees no timing window in the duplicate check; the check (`P:132`) and the insert of the slip are separate statements, and two uploads of
  one image pass it together. The verification that follows asks again, but only for a slip whose reference it can read.
- An upload answers that "Verification is in progress" (`P:198`); a restart loses the verification, and nothing starts it again.
- `S:304` means "the most recent pending transaction", `updateMany` approves all undecided ones.
- `modules/slip-verify/slip-verify.types.ts:21` has a wrong amount fail. Without an online answer it only scores nothing (`V:628-630`): a reference, a bank's name, a QR
  code and a confident reading are 70 points, which is enough for an automatic approval. `VerdictsFollowTheEvidence` lists that case as part of what the code accepts.
- The sheet's instructions offer REJECTED rows, and `importPayments` "bulk-approve / reject" (`P:1024, 1049`); only
  APPROVED rows are read (`P:1160-1162`).
- `R:531` groups "sold/pending tickets"; a released ticket that still carries its buyer is listed as well.

## 6. Reachable, modelled, and not claimed away

The properties are as strong as the code permits. These states are reachable in the models and no property excludes them:

- *Sale.* A rejection can take a ticket from a hold: the reservation of a pending payment is cancelled by a racing request after it was confirmed, so that its ticket is
  for sale with the payment's id on it; while the approval is between its read and its sale another reservation takes the ticket, the sale sells it, and a rejection
  releases it (`P:609`, `T:149`), so that the open reservation is short of a ticket. A payment approved whose sale failed stays APPROVED with tickets that are not SOLD, and cannot be approved again (`P:532-548`). A
  cancellation racing a confirmation leaves `paymentId` on a ticket that is for sale (`T:149`). A second payment takes the tickets of a confirmed
  reservation over (`T:185`). A rejection does not lower `ticketsSold` (`P:609`). A payment deleted while it was being
  approved, or approved after its deletion, counts as revenue and is hidden from the list (`P:827`).
- *Imports.* A reserved ticket that an import sells keeps its `reservationId`; when the reservation is cancelled or expires, the sold ticket is for
  sale again. The same happens without any overlap when an import lists the number of a reserved
  ticket, its payment is approved and the reservation is then cancelled (`P:1258-1289`, `T:147-149`). Neither import asks for the lottery's status. A restart between a bulk row's payment and its transaction leaves a payment without tickets.
- *Lottery and draw.* A reservation that read PUBLISHED writes SELLING over a closed, drawn or completed lottery (`T:119`). With a prize deleted between the count and the
  write, a lottery is published without one (`L:260-269, 394-397`). A deletion that
  read DRAFT deletes a lottery published since (`L:288`). Winners of a second overlapping draw may stay unpublished. A
  winning ticket may be released before its draw is recorded (`D:43`). A manual draw may name the buyer of an imported payment that is
  not approved yet, since the import writes the buyer into the ticket first and the draw asks for no status (`P:1281-1289`, `D:241-255`). The portal's `listWinnersByUsername` (`L:540`) shows unpublished winners too.
- *Reports.* A buyer of several tickets on one payment is shown more than he paid (`R:132, 570`). The export's revenue is sold tickets times price, refunds included. The platform's revenue leaves out all but the last
  thousand approvals and 24 periods (`R:327, 350`).
- *Accounts.* An administrator created by `createAdmin` is not in the audit log (`modules/admin/admin.service.ts:249-259`), and a guest of a payment or an import is not
  in `users` (`P:72-80, 1201-1209`).
- *Subscriptions.* Two live subscriptions of one client; a plan deleted while one of its subscriptions is being approved; an upgrade that fails between
  cancelling the old subscription and creating the new one (`S:202-210`); a second approval that works from the old expiry date (`S:287-300`); an automatic approval that sets no
  `expiresAt`, so that the subscription never expires (`P:495-498`). A reviewer's download of the slip asks the latest
  transaction alone and finds none when that one was begun after the slip came (`S:353-370`). The search for duplicates looks at ticket payments only (`V:386`). `expire-subscriptions` is never enqueued.

## 7. Not modelled

- *Single conditional writes nothing else reads:* the two password changes, profile edits (`updateMe`, `updateStaff`, `updateUser`,
  buyers' profiles), `createPlan`, `updatePlan`, `updatePrize`, `reorderImages`, settings, verification marks.
- *Code without callers or effect:* `forgotPassword` and `resetPassword` (stubs), `PENDING_VERIFICATION`, `NotificationService` and the e-mail
  processor, `deleteFile`.
- *Stateless plumbing:* guards, filters, interceptors, configuration, start-up, health, the events gateway (it pushes committed changes; the handlers
  never read it back), validation of request shapes.
- *Data that decides nothing here:* hashing and signatures, the reading of spreadsheets and images, formats and e-mail texts, names and messages, lists of
  winners, subscription metrics.

Left for later: the bound on lost failures for any number of requests at once, and `QuantityIsHeld` beside the draw.
