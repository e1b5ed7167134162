SPECIFICATION Spec
CONSTANTS
  Chars = {"w", "|", "newline"}
  Known = {"w"}
  Payloads = {}
  MaxTyped = 5
INVARIANT
  LastStageReachesTerminal
CHECK_DEADLOCK FALSE
