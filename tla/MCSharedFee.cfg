SPECIFICATION Spec
CONSTANTS
    MaxTransactions = 2
    MaxEvents = 2
    Quantities = {1, 2}
    Shapes <- MCShapes
    Changes <- MCChanges
    MinimumContextSlot = 1
    MaxSlots = 1
    MaxLag = 0
    MaxPairAttempts = 1
    Residuals = {"NONE"}
    MaxOpening = 0
    MaxResiduals = 0
    MaxChanges = 0
CHECK_DEADLOCK FALSE
INVARIANT
    EveryEpisodeIsDisposed
