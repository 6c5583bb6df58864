SPECIFICATION HostSpec
CONSTANTS
  alice = alice
  bob = bob
  None = None
  Mistyped = Mistyped
  Peer <- Two
  ShardOf <- Numbers
  Hash <- Numbers
  Ids <- Pools
  MaxShard = 2
  MaxLookups = 2
  MaxSends = 1
  File = {a, b}
  NoTree = NoTree
  MaxVersion = 2
  Request = {r1, r2}
  Served = {"vendor"}
  MaxEvents = 2
  MaxChanges = 3
  MaxLines = 2
  Shapes = {"oversized", "double", "archive", "binary", "hidden"}
  Proc = {daily, command}
  daily = daily
  PoolSize = 2
  MaxMade = 2
SYMMETRY Symmetry
INVARIANTS LookupsHold ChecksTell LinksAsAsked ScanSound KeysHold
PROPERTY KeepsWhole
CHECK_DEADLOCK FALSE
