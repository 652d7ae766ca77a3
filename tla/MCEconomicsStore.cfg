SPECIFICATION Spec
CONSTANTS
    N = 2
    Variants = {v1, v2}
    Archivers = {a1}
    Importers = {i1}
    Recoverers = {r1, r2}
    Readers = {q1}
    Nothing = nothing
    MaxReruns = 1
    MaxTroubles = 1
INVARIANTS
  RecoveryIsAllOrNothing
  RecoveredIsKept
  ShownEconomicsVerify
SYMMETRY MCSymmetry
CHECK_DEADLOCK FALSE
