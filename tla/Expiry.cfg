\* The expiry queue under failures and a restart, with fairness, while the lottery
\* is closed and its payment deleted or restored.
SPECIFICATION FairSpec
CONSTANTS
    Tickets = {t1}
    Resvs = {r1, r2}
    Pays = {p1}
    Buyers = {b1}
    Keys = {}
    Slips = {}
    Refs = {}
    RefOf <- OneRef
    null = null
    Due = 10000
    Amounts = {5000, 9500, 9900, 9901, 10000}
    Requests = {q1}
    Workers = {w1}
    Ops = {"reserve", "cancel", "initiate", "close", "delete", "restore"}
    Selections <- RandomOnly
    Listings = {{}}
    MaxQty = 1
    HoldTime = 1
    SaleEnd = 0
    MaxAttempts = 3
    MaxNow = 2
    MaxFaults = 2
    MaxCrashes = 1
    MaxSold = 3
PROPERTIES
    HoldsAreSettled
CHECK_DEADLOCK FALSE
