SPECIFICATION Spec
CONSTANTS
  Reqs = {r1, r2}
  RedisConns = {c1, c2}
  SshConns = {d1, d2}
  Chans = {k1, k2}
  IPs = {a, proxy}
  Trusted = {proxy}
  NoIP = NoIP
  SetIds = {s1, s2, s3}
  NoSet = NoSet
  NoReq = NoReq
  TTL = 1
  MaxTime = 1
  MaxClients = 2
  Suspects = {a}
  MaxInputs = 3
  MaxCommands = 2
  MaxLogins = 2
SYMMETRY SetSymmetry
INVARIANTS
  TypeOK
  BaitIsRecorded
  BaitIsAttributable
  QuarantineIsShared
  PublishedInOrder
\* Requests and connections end and the commands are bounded.
CHECK_DEADLOCK FALSE
