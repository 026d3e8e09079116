------------------------------ MODULE Reports ------------------------------
(***************************************************************************)
(* What buyers, clients, their staff and the platform are shown of a sale: *)
(* the queries of ReportsService (modules/reports/reports.service.ts), of  *)
(* TicketService, PaymentService and LotteryService over the rows of       *)
(* SalesStore, and the workbook of generateLotteryExcel.  Sums of money    *)
(* are abstracted to the payments summed, with the number of times each is *)
(* added; paging, searching, sorting and cell formats are left out, but    *)
(* not the two limits of the platform's revenue.                           *)
(***************************************************************************)
EXTENDS Imports

CONSTANTS
    Periods,         \* bound: the months, or days, approvals fall in
    RevenueRows,     \* take: 1000
    RevenuePeriods   \* slice(0, 24)

ASSUME ReportAssumption ==
    /\ IsFiniteSet(Pays) /\ IsFiniteSet(Periods) /\ Periods \subseteq Nat
    /\ {RevenueRows, RevenuePeriods} \subseteq Nat

Paid       == {p \in Pays : pay[p].exists /\ pay[p].status = "APPROVED"}
Carrying(s) == {t \in Tickets : ticket[t].status = s}
Counts     == [s \in TicketStatus |-> Cardinality(Carrying(s))]

(* getLotterySalesReport: three queries.  DISTINCT counts NULL as a buyer.   *)
SalesReport ==
    [tickets |-> Counts,
     revenue |-> Paid,
     buyers  |-> {ticket[t].buyer : t \in Carrying("SOLD")}]

(* The line a buyer gets in a list of the tickets ts.  The whole amount of   *)
(* an approved payment is added once for every ticket linked to it.          *)
BuyerLine(ts, b) ==
    LET own == {t \in ts : ticket[t].buyer = b} IN
    [tickets   |-> own,
     refs      |-> {ticket[t].pay : t \in own} \ {null},
     totalPaid |-> [p \in Paid |-> Cardinality({t \in own : ticket[t].pay = p})]]

(* Tickets without a buyer are passed over. *)
ByBuyer(ts) == [b \in {ticket[t].buyer : t \in ts} \ {null} |-> BuyerLine(ts, b)]

(* getLotteryBuyers lists the sold tickets, the workbook's buyers sheet all  *)
(* that carry a buyer.                                                       *)
LotteryBuyers == ByBuyer(Carrying("SOLD"))
BuyersSheet   == ByBuyer(Tickets)

(* The workbook's summary sheet; its revenue is the price of every sold      *)
(* ticket.                                                                   *)
SummarySheet ==
    [tickets |-> Counts,
     buyers  |-> {ticket[t].buyer : t \in Tickets} \ {null},
     charged |-> Carrying("SOLD")]

(* The workbook's sheet of all tickets, and the same list page by page.      *)
TicketSheet ==
    [t \in Tickets |->
        [status |-> ticket[t].status, buyer |-> ticket[t].buyer,
         payment |-> IF ticket[t].pay = null THEN "none" ELSE pay[ticket[t].pay].status]]

(* getLotteryPayments, deleted payments included, and getLotteryStats.       *)
LotteryPayments == {p \in Pays : pay[p].exists}
LotteryStats    == [tickets |-> Counts, revenue |-> Paid]

(* The portal lists a lottery while it is on sale, with the number of SOLD   *)
(* rows in place of ticketsSold.                                             *)
OnSale      == lottery.status \in {"PUBLISHED", "SELLING"} /\ ~lottery.deleted
PublicCount == Counts["SOLD"]

(* getClientDashboard counts a payment only in one of three statuses.        *)
Dashboard ==
    [activeLotteries |-> OnSale,
     revenue         |-> Paid,
     ticketsSold     |-> Counts["SOLD"],
     payments        |-> [s \in InUse |->
                            {p \in Pays : pay[p].exists /\ pay[p].status = s}]]

(* getPlatformRevenue leaves out what has no approvedAt.  It reads the       *)
(* payments approved last, up to a limit; the date of approvedAt is not kept *)
(* here, so when says which period each fell in, and within a period any may *)
(* have been last.                                                           *)
Approvals == {p \in Paid : pay[p].approved}
Newest(read, when) ==
    /\ read \subseteq Approvals
    /\ Cardinality(read) = IF Cardinality(Approvals) <= RevenueRows
                           THEN Cardinality(Approvals) ELSE RevenueRows
    /\ \A p \in read, r \in Approvals \ read : when[p] >= when[r]

(* It shows the latest periods of the rows read. *)
PlatformRevenue(read, when) ==
    {p \in read :
        Cardinality({when[r] : r \in {x \in read : when[x] > when[p]}}) < RevenuePeriods}

(* What a buyer sees of his own. *)
MyTickets(b)  == {t \in Carrying("SOLD") : ticket[t].buyer = b}
MyPayments(b) == {p \in Pays : pay[p].exists /\ pay[p].buyer = b /\ ~pay[p].deleted}

(* The payments a client sees, with or without the deleted ones, and those   *)
(* generateImportTemplate offers for approval.                               *)
ClientPayments(includeDeleted) ==
    {p \in Pays : pay[p].exists /\ (~includeDeleted => ~pay[p].deleted)}
TemplateRows == {p \in ClientPayments(FALSE) : pay[p].status \in Unfinished}

-----------------------------------------------------------------------------
(* The platform's revenue holds nothing that is not in the client's, and all *)
(* of it as long as the payments and their periods are within its limits.    *)
RevenueIsTheClients ==
    \A when \in [Pays -> Periods], read \in SUBSET Approvals :
        Newest(read, when) =>
            /\ PlatformRevenue(read, when) \subseteq Dashboard.revenue
            /\ /\ Cardinality(Approvals) <= RevenueRows
               /\ Cardinality({when[p] : p \in Approvals}) <= RevenuePeriods
               => PlatformRevenue(read, when) = Dashboard.revenue

(* As long as requests do not overlap, nothing fails, nobody deletes a       *)
(* payment and no import lists ticket numbers (see RestingRowsAgree), the    *)
(* reports agree whenever no handler is in flight.  Every buyer counted has  *)
(* a line of his own, and the lines cover the sold tickets; the buyers sheet *)
(* lists "all sold/pending tickets by buyer" and no others; money stands in  *)
(* the line of the buyer who paid it; the platform's revenue is the client's *)
(* but for the thousand payments and 24 periods it is cut off at; the portal *)
(* shows no more sold tickets than the lottery's own counter; a ticket the   *)
(* summary charges without an approved payment was refunded; and a payment   *)
(* whose tickets wait is on the import's template                            *)
(* (reports.service.ts:21-55, 92-144, 321-351, 449-475, 530-575,             *)
(* lottery.service.ts:444-446, payment.service.ts:883-896).                  *)
ReportsAgree ==
    (\A q \in Tasks : task[q].pc = "idle") =>
        /\ SalesReport.buyers = DOMAIN LotteryBuyers
        /\ UNION {MyTickets(b) : b \in DOMAIN LotteryBuyers} = SummarySheet.charged
        /\ \A b \in DOMAIN BuyersSheet :
            /\ \A t \in BuyersSheet[b].tickets :
                 TicketSheet[t].status \in {"SOLD", "PENDING_PAYMENT"}
            /\ \A p \in Paid :
                 BuyersSheet[b].totalPaid[p] > 0 =>
                   p \in Approvals /\ p \in MyPayments(b)
            /\ BuyersSheet[b].refs \subseteq LotteryPayments
        /\ RevenueIsTheClients
        /\ PublicCount <= lottery.sold
        /\ \A t \in SummarySheet.charged : TicketSheet[t].payment \in {"APPROVED", "REFUNDED"}
        /\ \A t \in Carrying("PENDING_PAYMENT") :
             ticket[t].pay \in TemplateRows \/ TicketSheet[t].payment = "REJECTED"
=============================================================================
