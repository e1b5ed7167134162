SPECIFICATION Spec
CONSTANTS
  Requests <- All
  Streams <- AllStreams
  Keyspace <- Data
  MaxInline = 4
  Chars = {"w", "e", " ", ";", "&", "|", "newline", "return"}
  Known = {"w"}
  Payloads <- ExecPayloads
  MaxTyped = 1
  Conns = {c1}
  Plans <- TlsPlans
  Random = 1
  None = None
  MaxKeys = 2
  MaxStarts = 1
INVARIANTS
  ReadCommandReturns
CHECK_DEADLOCK FALSE
