\* Reservations, confirmations and the expiry queue, random selection only.
SPECIFICATION Spec
CONSTANTS
    Tickets = {t1, t2}
    Resvs = {r1, r2}
    Pays = {p1}
    Buyers = {b1}
    Keys = {k1}
    Slips = {}
    Refs = {}
    RefOf <- OneRef
    null = null
    Due = 10000
    Amounts = {5000, 9500, 9900, 9901, 10000}
    Requests = {q1, q2}
    Workers = {w1}
    Ops = {"reserve", "cancel", "initiate"}
    Selections <- RandomOnly
    Listings = {{}}
    MaxQty = 2
    HoldTime = 1
    SaleEnd = 0
    MaxAttempts = 2
    MaxNow = 2
    MaxFaults = 1
    MaxCrashes = 0
    MaxSold = 3
SYMMETRY RowSymmetry
INVARIANTS
    TicketsFollowTheirReservation
    OpenReservationHoldsItsQuantity
    ExpiryJobOutlivesTheHold
    OneRowPerIdempotencyKey
CHECK_DEADLOCK FALSE
