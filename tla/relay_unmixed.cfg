SPECIFICATION Spec
CONSTANTS
  c1 = c1
  c2 = c2
  a1 = a1
  a2 = a2
  g1 = g1
  None = None
  Client <- TwoClients
  WsClient <- TwoClients
  Address = {a1}
  Group = {g1}
  Traffic <- AllTraffic
  Subscribable = {a1, g1}
  MaxSends = 2
  MaxClock = 1
  MaxAwaiting = 1
  QueueTTL = 0
  MaxQueue = 2
  MaxRecipients = 1
  Ephemeral = FALSE
  MixOff = TRUE
  Jitter = FALSE
SYMMETRY Symmetry
INVARIANT Conservation
INVARIANT Fifo
INVARIANT AckedFits
INVARIANT NoGoneSubscriber
CHECK_DEADLOCK FALSE
