SPECIFICATION Spec
CONSTANTS
  alice = alice
  bob = bob
  carol = carol
  dave = dave
  None = None
  Member <- Three
  Founders <- Two
  Committers = {alice}
  Channel = "fifo"
  MaxTexts = 2
  MaxCommits = 0
  MaxReloads = 1
INVARIANT NonceOnce
CHECK_DEADLOCK FALSE
