SPECIFICATION HostSpec
CONSTANTS
  alice = alice
  bob = bob
  None = None
  Mistyped = Mistyped
  Peer <- Two
  ShardOf <- Numbers
  Hash <- Numbers
  Ids <- Pools
  MaxShard = 2
  MaxLookups = 2
  MaxSends = 1
  File = {a, b}
  NoTree = NoTree
  MaxVersion = 1
  Request = {r1, r2}
  Served = {"vendor"}
  MaxEvents = 2
  MaxChanges = 1
  MaxLines = 2
  Shapes = {"oversized", "double", "archive", "binary", "hidden"}
  Proc = {daily, command}
  daily = daily
  PoolSize = 2
  MaxMade = 2
SYMMETRY Symmetry
INVARIANT ServersStop
CHECK_DEADLOCK FALSE
