\* Two processes and one crash; two legs, so two decisions, challenges and
\* intents; any process may submit a durable leg.
SPECIFICATION RuntimeSpec
CONSTANTS
  None = None
  Decisions = {d1, d2}
  Challenges = {c1, c2}
  Plans = {p1}
  Intents = {w1, w2}
  Evidence = {e1}
  Revocations = {v1}
  SubmitAfterDecision = FALSE
  Runtimes = {r1, r2}
  MaxSends = 2
  MaxCrashes = 1
SYMMETRY Interchangeable
\* The episode ends.
CHECK_DEADLOCK FALSE
INVARIANTS
  RestartReopens
  SignedAtMostOnce
  SendsAreBounded
  AnswersCanBeReliedOn
PROPERTIES
  AuthorityAsSpecified
