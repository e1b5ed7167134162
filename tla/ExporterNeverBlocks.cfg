SPECIFICATION Spec
CONSTANTS
  Events = {e1, e2}
  NoEvent = NoEvent
  BatchSize = 2
  Retries = 1
INVARIANT
  NeverBlocksBus
