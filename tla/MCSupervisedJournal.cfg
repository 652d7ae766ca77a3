\* Two processes over one journal of up to three records; two phases and two
\* other records, so that two processes may try to retain different ones.
SPECIFICATION Spec
CONSTANTS
  Runtimes = {r1, r2}
  Phases = {p1, p2}
  Entries = {e1, e2}
  NoFile = NoFile
  MaxRecords = 3
  MaxFailures = 2
SYMMETRY Interchangeable
\* A journal that was interrupted cannot be opened again.
CHECK_DEADLOCK FALSE
INVARIANTS
  GrantedOnce
  VerifiedIsComplete
PROPERTIES
  ImplementsAppendLog
