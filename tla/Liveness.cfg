SPECIFICATION FairSpec
CONSTANTS
  None = None
  UsbId = {}
  TbId = {t1}
  SdId = {}
  PciId = {}
  Monitor = {}
  Connector = {}
  Iface = {}
  Configs <- LiveConfigs
  HISTORY_LEN = 1
  LOG_WRAP = 2
  Horizon = 2
  Conn = {k1}
  Requests <- LiveRequests
  Callers = {"root"}
  Verdicts = {TRUE}
  MAX_DISARM_SECS = 2
  MAX_PAIR_SECS = 2
  StartMode = "Enforce"
  CliOff = {"sdcard"}
  CliDryRun = FALSE
  World <- LiveWorld
  FaultyBuses = {}
  ShutdownMayFail = FALSE
  MayCrash = FALSE
  MayEdit = TRUE
  Files <- LiveConfigs
PROPERTIES
  DisarmEnds
  RemoteKillRuns
  IntruderIsKilled
  CutIsKilled
  ReloadIsServed
CONSTRAINT LiveScene
CHECK_DEADLOCK FALSE
