SPECIFICATION Spec
CONSTANTS
  alice = alice
  bob = bob
  None = None
  NoPeer = NoPeer
  Party <- Both
  Larger = alice
  MaxSkip = 3
  MaxKept = 3
  MaxEpochs = 4
  Bundles <- Both
  PoolSize = 0
  Channel = "any-order"
  Others = FALSE
  MaxTexts = 2
  Crashers <- Both
  InHandler = TRUE
  MaxCrashes = 0
  MaxAnswers = 1
  MaxPrekeys = 0
PROPERTY EvictOnlyJunk
CHECK_DEADLOCK FALSE
