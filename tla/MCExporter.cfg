SPECIFICATION FairSpec
CONSTANTS
  Events = {e1, e2, e3}
  NoEvent = NoEvent
  BatchSize = 2
  Retries = 2
INVARIANTS
  Custody
  DroppedExact
  BatchBound
  CopiesBounded
  StragglerBound
PROPERTIES
  Settled
