\* The draw beside the last reviews and imports: two desks, one sale of two tickets.
SPECIFICATION DrawSpec
CONSTANTS
    Tickets = {t1, t2}
    Resvs = {r1}
    Pays = {p1}
    Buyers = {b1}
    Keys = {}
    Slips = {}
    Refs = {}
    RefOf <- OneRef
    null = null
    Due = 10000
    Amounts = {5000, 9500, 9900, 9901, 10000}
    Requests = {q1}
    Workers = {}
    Ops = {"reserve", "initiate", "approve", "close", "import", "bulk"}
    Selections <- RandomOnly
    Listings = {{}}
    MaxQty = 2
    HoldTime = 0
    SaleEnd = 0
    MaxAttempts = 3
    MaxNow = 0
    MaxFaults = 1
    MaxCrashes = 1
    MaxSold = 2
    Desks = {d1, d2}
    Draws = {w1, w2, w3}
    Prizes = {z1}
    PrizeSlots <- OnePrize
SYMMETRY DrawSymmetry
INVARIANTS
    NoTicketWinsTwice
    WinnersHavePaid
    ResultsComeFromADraw
    CompletedResultsArePublished
    LateDrawsAreRefused
CHECK_DEADLOCK FALSE
