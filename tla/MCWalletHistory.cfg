SPECIFICATION Spec
CONSTANTS
    SlotOf <- MCSlotOf
    TimeOf <- MCTimeOf
    Skipped = {2}
    Opaque = {1}
    Tips = {2, 3}
    Lookback = 1
    PageSize = 2
    MaxPages = 4
    MaxTransactions = 6
    MaxAttempts = 2
    MaxFallback = 1
    MaxSearch = 2
    MaxFaults = 1
INVARIANTS
    NothingListedIsMissing
    CompletedHeardOneStory
    OneRequestAtATime
CHECK_DEADLOCK FALSE
