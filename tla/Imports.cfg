\* Imported rows, two payments and two reservations contend for one ticket.
SPECIFICATION ImportSpec
CONSTANTS
    Tickets = {t1}
    Resvs = {r1, r2}
    Pays = {p1, p2}
    Buyers = {b1, b2}
    Keys = {}
    Slips = {}
    Refs = {}
    RefOf <- OneRef
    null = null
    Due = 10000
    Amounts = {5000, 9500, 9900, 9901, 10000}
    Requests = {q1, q2}
    Workers = {}
    Ops = {"reserve", "cancel", "reject", "import", "bulk"}
    Selections <- PickOnly
    Listings <- RandomOrPick
    MaxQty = 1
    HoldTime = 0
    SaleEnd = 0
    MaxAttempts = 3
    MaxNow = 0
    MaxFaults = 0
    MaxCrashes = 0
    MaxSold = 2
SYMMETRY RowSymmetry
INVARIANTS
    TicketsFollowTheirReservation
    SoldTicketsBelongToThePayer
    DecisionsRestOnApproval
CHECK_DEADLOCK FALSE
