\* Two handlers of one client and an administrator at once.
SPECIFICATION SubSpec
CONSTANTS
    Clients = {c1}
    Plans = {p1}
    Slips = {f1}
    null = null
    MaxSubs = 2
    MaxTxns = 2
    MaxLots = 3
    Cycles = {1}
    Quota <- OneEach
    MaxActive <- OneEach
    Calls = {h1, h2}
    SubOps = {"subscribe", "submit", "cancel", "upgrade", "approve", "reject",
              "initiate", "upload", "deletePlan", "createLottery", "publish", "close"}
    MaxNow = 2
    MaxCalls = 6
    MaxFailures = 1
SYMMETRY SubSymmetry
INVARIANTS
    SubTypeOK
    LotteriesAreCharged
    QuotaHoldsUpToConcurrency
    TermsArePaidFor
    ReviewsRestOnASlip
PROPERTIES
    ApprovalsAreUndoneOnlyByLateWriters
CHECK_DEADLOCK FALSE
