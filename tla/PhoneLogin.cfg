\* One unified login at a time, by phone.
SPECIFICATION AccountSpec
CONSTANTS
    Admins = {}
    ClientAccts = {c1}
    StaffAccts = {s1}
    BuyerAccts = {b1}
    Seeded = {c1}
    Emails = {e1}
    Phones = {n1}
    null = null
    MaxTokens = 2
    MaxFailed = 2
    LockTime = 1
    TokenLife = 1
    Handlers = {h1}
    AccountOps = {"unified", "register"}
    MaxRequests = 2
    MaxErrors = 0
PROPERTIES
    PhoneLoginsReachTheBuyer
CHECK_DEADLOCK FALSE
