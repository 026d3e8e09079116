\* Two requests at a time against the accounts of one operator.
SPECIFICATION AccountSpec
CONSTANTS
    Admins = {a1, a2}
    ClientAccts = {c1}
    StaffAccts = {s1}
    BuyerAccts = {b1, b2}
    Seeded = {}
    Emails = {e1}
    Phones = {n1}
    null = null
    MaxTokens = 4
    MaxFailed = 2
    LockTime = 1
    TokenLife = 1
    Handlers = {h1, h2}
    AccountOps = {"login", "unified", "refresh", "logout", "register", "createAdmin",
                  "guest", "suspend", "toggleStaff", "delete", "userStatus"}
    MaxRequests = 4
    MaxErrors = 1
SYMMETRY AccountSymmetry
INVARIANTS
    AccountTypeOK
    RotatedTokensAreDead
    RotationIsBounded
    OneAccountPerEmail
    LostFailuresAreLimited
    NothingIsHalfDone
CHECK_DEADLOCK FALSE
