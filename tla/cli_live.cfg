SPECIFICATION LiveSpec
CONSTANTS
  alice = alice
  bob = bob
  None = None
  NoPeer = NoPeer
  Party <- Both
  Larger = alice
  MaxSkip = 3
  MaxKept = 3
  MaxEpochs = 4
  Bundles = {bob}
  PoolSize = 0
  Channel = "fifo"
  Others = FALSE
  MaxTexts = 2
  Crashers <- Both
  InHandler = FALSE
  MaxCrashes = 1
  MaxPrekeys = 0
PROPERTY EventuallyRead
CHECK_DEADLOCK FALSE
