SPECIFICATION PipelineSpec
CONSTANTS
    Swaps <- MCSwaps
    MaxSwaps = 4
    DustUnits = 1
    DustDivisor = 100
    Lives <- MCLives
    Invocations <- MCInvocations
    Offsets = {0, 2}
    Tools = {t1, t2}
    MaxRuns = 2
    MaxToolRuns = 2
    MaxFaults = 1
INVARIANTS
  RecordsShowTheirReceipts
  TrustedResultsAreOnChain
  AnchorsShowTheirCard
CHECK_DEADLOCK FALSE
