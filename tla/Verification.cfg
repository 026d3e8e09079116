\* Two payments of two buyers for one ticket: slip verification against reviews.
SPECIFICATION Spec
CONSTANTS
    Tickets = {t1}
    Resvs = {r1}
    Pays = {p1, p2}
    Buyers = {b1, b2}
    Keys = {}
    Slips = {s1}
    Refs = {ref1}
    RefOf <- OneRef
    null = null
    Due = 10000
    Amounts = {5000, 9500, 9900, 9901, 10000}
    Requests = {q1, q2}
    Workers = {}
    Ops = {"reserve", "initiate", "upload", "approve", "reject", "refund"}
    Selections <- PickOnly
    Listings = {{}}
    MaxQty = 1
    HoldTime = 0
    SaleEnd = 0
    MaxAttempts = 3
    MaxNow = 0
    MaxFaults = 0
    MaxCrashes = 0
    MaxSold = 2
SYMMETRY RowSymmetry
INVARIANTS
    TypeOK
    SoldTicketsBelongToThePayer
    DecisionsRestOnApproval
    VerdictsFollowTheEvidence
PROPERTIES
    ImplementsLedger
CHECK_DEADLOCK FALSE
