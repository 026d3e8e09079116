\* Two handlers at once on one lottery, its client's accounts and an export.
SPECIFICATION OfficeSpec
CONSTANTS
    Files = {f1, f2, f3}
    Images = {i1, i2, i3}
    Prizes = {z1}
    null = null
    Owners = {c1}
    Banks = {k1, k2}
    BankNames = {n1}
    Contains <- OneInside
    BankAccounts = {a1, a2, a3}
    Exports = {e1}
    Starts = {1}
    Totals = {2, 3}
    BatchSize = 2
    MaxImages = 1
    Requests = {q1, q2}
    Workers = {w1}
    OfficeOps = {"create", "edit", "addPrize", "deletePrize", "publish", "close",
                 "archive", "delete", "addImage", "deleteImage", "banner", "logo",
                 "reserve", "draw", "results", "addAccount", "dropAccount", "moveAccount", "export"}
    MaxRequests = 4
    MaxFaults = 2
    MaxAttempts = 2
    MaxStalled = 1
    MaxCrashes = 2
SYMMETRY OfficeSymmetry
INVARIANTS
    OfficeTypeOK
    ImagesExceedTheMaximumByOverlapOnly
    ShownFilesAreStored
    RangeIsConsistent
    DuplicatesNeedOverlap
    ExportsAreAccountedFor
PROPERTIES
    UnprizedPublicationsWereOvertaken
    OnlyLateWritersUndoTheLifeCycle
CHECK_DEADLOCK FALSE
