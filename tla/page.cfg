SPECIFICATION PageSpec
CONSTANTS
  alice = alice
  bob = bob
  carol = carol
  dave = dave
  p1 = p1
  p2 = p2
  room = room
  None = None
  Member <- Three
  Founders <- Two
  Committers = {alice}
  Channel = "replay"
  MaxTexts = 1
  MaxCommits = 1
  MaxReloads = 1
  Caller = {idle, user}
  Stored = {"own", "v3", "v4"}
  Skill = {s1, s2}
  MaxTime = 2
  MaxAttempts = 2
  MaxImports = 2
  MaxWork = 3
  Words = {"sure", "certain"}
  Vector = {fear, urgency}
  Lengths = {8, 40, 1000}
  MaxHits = 2
  MaxAudits = 2
  Bytes = {0, 1, 57, 58, 255}
  MaxBytes = 5
  Chars = {27, 97, 173, 1072, 9470}
  MaxChars = 4
  Width = 2
  Cli = {c1}
  Dashboards = {d1}
  Tenants = {c1}
  SPAWN_DAEMON = TRUE
  MaxDeletes = 1
INVARIANTS EpochNonces EpochsAgree OnlyOtherEpochsRefused
INVARIANTS ReadyMeansReady MemoriesHonest LogTells VerdictsHold CodecsExact ConversationsHold
PROPERTY StepsHold
CHECK_DEADLOCK FALSE
