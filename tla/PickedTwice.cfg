\* Two buyers pick the same ticket number.
SPECIFICATION Spec
CONSTANTS
    Tickets = {t1}
    Resvs = {r1, r2}
    Pays = {p1}
    Buyers = {b1}
    Keys = {}
    Slips = {s1}
    Refs = {ref1}
    RefOf <- OneRef
    null = null
    Due = 10000
    Amounts = {5000, 9500, 9900, 9901, 10000}
    Requests = {q1, q2}
    Workers = {w1}
    Ops = {"reserve"}
    Selections <- PickOnly
    Listings = {{}}
    MaxQty = 1
    HoldTime = 0
    SaleEnd = 0
    MaxAttempts = 3
    MaxNow = 0
    MaxFaults = 0
    MaxCrashes = 0
    MaxSold = 2
PROPERTY
    ReservedTicketIsNotTaken
CHECK_DEADLOCK FALSE
