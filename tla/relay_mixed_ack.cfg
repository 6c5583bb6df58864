SPECIFICATION Spec
CONSTANTS
  c1 = c1
  c2 = c2
  a1 = a1
  a2 = a2
  g1 = g1
  None = None
  Client <- TwoClients
  WsClient = {}
  Address = {a1}
  Group = {}
  Traffic <- PairOnly
  Subscribable = {a1}
  MaxSends = 2
  MaxClock = 1
  MaxAwaiting = 1
  QueueTTL = 1
  MaxQueue = 1
  MaxRecipients = 1
  Ephemeral = FALSE
  MixOff = FALSE
  Jitter = FALSE
SYMMETRY Symmetry
INVARIANT AckedIsKept
CHECK_DEADLOCK FALSE
