SPECIFICATION FairSpec
CONSTANTS
  Callers = {c1, c2}
  IPs = {a, b}
  AllKinds <- TwoKinds
  PooledKinds = {"username"}
  Pool = {j_morgan}
  TTL = 2
  NoCaller = NoCaller
  NoIP = NoIP
  NoSet = NoSet
  MaxTime = 3
  MaxBoots = 2
  MaxCalls = 3
INVARIANTS
  HandedIsTraceable
  AllOrNothing
PROPERTIES
  SetForReturns
  ImplementsRegistry
\* The clock and the calls are bounded.
CHECK_DEADLOCK FALSE
