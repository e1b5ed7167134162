SPECIFICATION FairSpec
CONSTANTS
  Publishers = {p1, p2, p3}
  Events = {e1, e2, e3, e4, e5}
  NoEvent = NoEvent
  Cap = 2
  NSubs = 3
INVARIANTS
  Conservation
  LockStep
  DrainedAtExit
PROPERTIES
  PublishReturns
  ImplementsFanOut
