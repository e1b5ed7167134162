SPECIFICATION FairSpec
CONSTANTS
  Publishers = {p1}
  Events = {e1, e2, e3, e4}
  NoEvent = NoEvent
  Cap = 1
  BatchSize = 1
  Retries = 1
INVARIANTS
  ExportedWasStored
  CrashLossBound
  ShutdownLossBound
PROPERTIES
  CaptureGoesOn
  ShutdownEnds
