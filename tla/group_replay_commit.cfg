SPECIFICATION Spec
CONSTANTS
  alice = alice
  bob = bob
  carol = carol
  dave = dave
  None = None
  Member <- Three
  Founders <- Two
  Committers = {alice}
  Channel = "replay"
  MaxTexts = 1
  MaxCommits = 1
  MaxReloads = 0
INVARIANT ReadOnce
CHECK_DEADLOCK FALSE
