SPECIFICATION Spec
CONSTANTS
  None = None
  UsbId = {}
  TbId = {}
  SdId = {}
  PciId = {}
  Monitor = {m1}
  Connector = {c1, c2}
  Iface = {}
  Configs <- DisplayConfigs
  HISTORY_LEN = 1
  LOG_WRAP = 1
  Horizon = 1
  Conn = {k1}
  Requests <- DisplayRequests
  Callers = {"root"}
  Verdicts = {TRUE}
  MAX_DISARM_SECS = 2
  MAX_PAIR_SECS = 2
  StartMode = "Learn"
  CliOff = {}
  CliDryRun = FALSE
  World <- DisplayWorld
  FaultyBuses = {}
  ShutdownMayFail = FALSE
  MayCrash = FALSE
  MayEdit = FALSE
  Files <- DisplayConfigs
INVARIANTS
  AllowedMonitorMayMove
CHECK_DEADLOCK FALSE
