SPECIFICATION Spec
CONSTANTS
    MaxTransactions = 3
    MaxEvents = 3
    Quantities = {1, 2}
    Shapes <- MCShapes
    Changes <- MCChanges
    MinimumContextSlot = 2
    MaxSlots = 4
    MaxLag = 1
    MaxPairAttempts = 2
    Residuals = {"NONE", "TARGET"}
    MaxOpening = 1
    MaxResiduals = 1
    MaxChanges = 1
CHECK_DEADLOCK FALSE
INVARIANTS
  EpisodesAreTheLedger
  OutcomesAreJustified
  ClaimsRestOnOneEvidence
  BoundariesAccountForTheHistory
