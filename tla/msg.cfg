SPECIFICATION BothSpec
CONSTANTS
  alice = alice
  bob = bob
  None = None
  NoPeer = NoPeer
  Party <- Both
  Larger = alice
  MaxSkip = 3
  MaxKept = 3
  MaxEpochs = 4
  Bundles = {bob}
  PoolSize = 2
  Channel = "fifo"
  Others = TRUE
  MaxTexts = 1
  Crashers = {bob}
  InHandler = TRUE
  MaxCrashes = 1
  MaxAnswers = 1
  MaxPrekeys = 4
INVARIANT UnusedPrekeysOpen
INVARIANT ServedUnspent
INVARIANT TabsSound
INVARIANT NoKeyReuse
CHECK_DEADLOCK FALSE
