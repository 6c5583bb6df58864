SPECIFICATION PartsSpec
CONSTANTS
  alice = alice
  bob = bob
  None = None
  NoPeer = NoPeer
  Party <- Both
  Larger = alice
  MaxSkip = 3
  MaxKept = 1
  MaxEpochs = 1
  Bundles <- Both
  PoolSize = 0
  Channel = "replay"
  Others = FALSE
  MaxTexts = 2
  Crashers <- Both
  InHandler = TRUE
  MaxCrashes = 0
  MaxPrekeys = 0
INVARIANT OrderRefuses
INVARIANT ReadOnce
INVARIANT NoKeyReuse
INVARIANT PrekeyOnce
CHECK_DEADLOCK FALSE
