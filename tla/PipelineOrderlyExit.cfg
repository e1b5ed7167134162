SPECIFICATION Spec
CONSTANTS
  Publishers = {p1}
  Events = {e1}
  NoEvent = NoEvent
  Cap = 1
  BatchSize = 1
  Retries = 1
INVARIANT
  OrderlyExitKeepsEvents
