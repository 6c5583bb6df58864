SPECIFICATION Spec
CONSTANTS
  alice = alice
  bob = bob
  None = None
  NoPeer = NoPeer
  Party <- Both
  Larger = alice
  MaxSkip = 3
  MaxKept = 3
  MaxEpochs = 4
  Bundles = {}
  PoolSize = 1
  Channel = "fifo"
  Others = FALSE
  MaxTexts = 1
  Crashers <- Both
  InHandler = TRUE
  MaxCrashes = 0
  MaxPrekeys = 1
INVARIANT AllRead
CHECK_DEADLOCK FALSE
