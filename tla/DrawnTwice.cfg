\* Two draws of one lottery at once.
SPECIFICATION DrawSpec
CONSTANTS
    Tickets = {t1, t2}
    Resvs = {r1}
    Pays = {p1}
    Buyers = {b1}
    Keys = {}
    Slips = {}
    Refs = {}
    RefOf <- OneRef
    null = null
    Due = 10000
    Amounts = {5000, 9500, 9900, 9901, 10000}
    Requests = {q1}
    Workers = {}
    Ops = {"reserve", "initiate", "approve", "reject", "close"}
    Selections <- RandomOnly
    Listings = {{}}
    MaxQty = 2
    HoldTime = 0
    SaleEnd = 0
    MaxAttempts = 3
    MaxNow = 0
    MaxFaults = 0
    MaxCrashes = 0
    MaxSold = 2
    Desks = {d1, d2}
    Draws = {w1, w2}
    Prizes = {z1}
    PrizeSlots <- OnePrize
PROPERTIES
    ResultsAreFinal
CHECK_DEADLOCK FALSE
