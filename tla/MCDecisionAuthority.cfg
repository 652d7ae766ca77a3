\* Two decisions, challenges, intents and pieces of evidence: enough for both
\* legs and for a reuse of an identity across the legs; two revocations, so
\* that a conflicting second one can be offered.
SPECIFICATION Spec
CONSTANTS
  None = None
  Decisions = {d1, d2}
  Challenges = {c1, c2, c3}
  Plans = {p1, p2}
  Intents = {w1, w2}
  Evidence = {e1, e2}
  Revocations = {v1, v2}
  SubmitAfterDecision = FALSE
\* The episode ends.
CHECK_DEADLOCK FALSE
INVARIANTS
  DisposalRestsOnSettledAcquisition
  RevokedBeforeSigningIsUnsigned
  PossibleSubmissionTracked
PROPERTIES
  RetainedForever
  ImplementsBoundedEpisode
