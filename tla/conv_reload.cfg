SPECIFICATION Spec
CONSTANTS
  Peer = {p, q}
  None = None
  Group = Group
  MaxTexts = 3
  MaxReloads = 1
INVARIANT RepliesRouted
CHECK_DEADLOCK FALSE
