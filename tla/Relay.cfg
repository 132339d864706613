SPECIFICATION FairSpec
CONSTANTS
  None = None
  a = a
  b = b
  c = c
  Node <- Nodes
  Meshes <- MeshesToRun
  Daemons <- Mixed
  Texts <- Reasons
  LocalViolation <- Ascii
  PREFIX = 6
  MAX_REASON_LEN = 256
  TIMESTAMP_WINDOW = 1
  NONCE_CACHE_SIZE = 3
  Operated = {a}
  MayFailBind = {c}
  Unreliable = {a}
  MaxNonces = 3
  MaxClock = 1
  MaxRestarts = 1
  MaxViolations = 1
INVARIANTS
  AckIsTrue
PROPERTIES
  ActsOnce
  SpreadSpec
  HeardKillLands
ACTION_CONSTRAINT Calm
CHECK_DEADLOCK FALSE
