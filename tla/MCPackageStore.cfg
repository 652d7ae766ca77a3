\* Two writers with two calls each, or a retry after a failure; two packages,
\* so that writers agree or conflict; every fault of the file system.  No
\* symmetry, for the liveness property.
SPECIFICATION FairSpec
CONSTANTS
  None = None
  Writers = {w1, w2}
  Digests = {d1, d2}
  Faults = {"mkdir", "answer", "power"}
  MaxCalls = 2
  MaxFailures = 1
\* Every writer may have made its last call.
CHECK_DEADLOCK FALSE
INVARIANTS
  AcknowledgedPackageIsDurable
PROPERTIES
  ImplementsWriteOnce
  CommitReturns
