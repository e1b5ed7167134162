SPECIFICATION Spec
CONSTANTS
  Requests <- All
  Streams <- AllStreams
  Keyspace <- Data
  MaxInline = 4
  Chars = {"w", "e", " ", ";", "&", "|", "newline", "return"}
  Known = {"w"}
  Payloads <- ExecPayloads
  MaxTyped = 5
  Conns = {c1, c2}
  Plans <- TlsPlans
  Random = 1
  None = None
  MaxKeys = 6
  MaxStarts = 5
INVARIANTS
  ServedAsSent
  RepliesStayInStep
  RunsWhatWasTyped
  ServedAsItCame
  FatalMeansTorn
PROPERTIES
  ConnectionEnds
  IdentityIsStable
CHECK_DEADLOCK FALSE
