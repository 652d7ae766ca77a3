\* One worker that is started at most twice; the two legs of an episode.
SPECIFICATION FiniteFairSpec
CONSTANT MaxRuns = 2
\* The worker ends.
CHECK_DEADLOCK FALSE
INVARIANTS
  OneChallenge
  ReportsAreTrue
PROPERTIES
  NothingStartsAfterStop
  EpisodeEnds
