SPECIFICATION Spec
CONSTANTS
  alice = alice
  bob = bob
  carol = carol
  dave = dave
  None = None
  Member <- Four
  Founders <- Two
  Committers <- Two
  Channel = "fifo"
  MaxTexts = 0
  MaxCommits = 2
  MaxReloads = 0
INVARIANT EpochNamesKey
CHECK_DEADLOCK FALSE
