\* Two polls: a null status that is followed by another poll.
SPECIFICATION SubmissionSpec
CONSTANTS
  Requests = {q1, q2, q3}
  TotalCalls = 2
  MaxPolls = 2
\* The submission ends.
CHECK_DEADLOCK FALSE
INVARIANTS
  NothingStartsAfterGivingUp
  GivenUpSendsStayUnsent
  TerminalIsTrue
