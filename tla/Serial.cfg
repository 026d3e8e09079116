\* One request at a time, no failure, and no deletion: every other handler of a
\* payment, and imports that list no ticket numbers (one that lists a reserved
\* ticket takes it, and the reservation's cancellation then frees a bought ticket).
SPECIFICATION ImportSpec
CONSTANTS
    Tickets = {t1, t2}
    Resvs = {r1, r2}
    Pays = {p1, p2}
    Buyers = {b1, b2}
    Keys = {}
    Slips = {s1}
    Refs = {ref1}
    RefOf <- OneRef
    null = null
    Due = 10000
    Amounts = {5000, 9500, 9900, 9901, 10000}
    Requests = {q1}
    Workers = {}
    Ops = {"reserve", "cancel", "initiate", "upload", "approve", "reject", "refund", "review", "import", "bulk"}
    Selections <- RandomOrPick
    Listings = {{}}
    MaxQty = 2
    HoldTime = 0
    SaleEnd = 0
    MaxAttempts = 3
    MaxNow = 1
    MaxFaults = 0
    MaxCrashes = 0
    MaxSold = 3
    Periods = {1, 2}
    RevenueRows = 2
    RevenuePeriods = 1
INVARIANTS
    RestingRowsAgree
    ReportsAgree
SYMMETRY RowSymmetry
CHECK_DEADLOCK FALSE
