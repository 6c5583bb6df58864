SPECIFICATION Spec
CONSTANTS
  alice = alice
  bob = bob
  None = None
  NoPeer = NoPeer
  Party <- Both
  Larger = alice
  MaxSkip = 3
  MaxKept = 3
  MaxEpochs = 4
  Bundles = {bob}
  PoolSize = 0
  Channel = "fifo"
  Others = FALSE
  MaxTexts = 1
  Crashers <- Both
  InHandler = TRUE
  MaxCrashes = 0
  MaxAnswers = 1
  MaxPrekeys = 0
PROPERTY EstablishedKept
CHECK_DEADLOCK FALSE
