SPECIFICATION ServerSpec
CONSTANTS
    Swaps <- MCSwaps
    MaxSwaps = 5
    DustUnits = 1
    DustDivisor = 2
    Seconds <- MCSeconds
    ServedLives <- MCLives
    Requests = {r1, r2}
    SingleTools = {t1}
    Windows <- MCWindows
    Depths = {3}
    Edits = {{1}}
    Rates <- MCRates
    ServerPage = 2
    MaxAsked = 3
    MaxMishaps = 2
INVARIANTS
  TradesAreAccountedOnce
  HistoriesHold
  ServerAnswersHold
  SettledReceiptsAgree
SYMMETRY Either
CHECK_DEADLOCK FALSE
