SPECIFICATION Spec
CONSTANTS
  IPs = {a, b}
  Scores = {0, 1, 2}
  Threshold = 3
  Window = 2
  TTL = 2
  NoCall = NoCall
  MaxTime = 5
  MaxHits = 3
SYMMETRY TrackerSymmetry
INVARIANTS
  QuarantineByRule
  EpisodesCounted
  SnapshotByRule
PROPERTY
  NeverShortened
\* The clock and the number of calls are bounded.
CHECK_DEADLOCK FALSE
