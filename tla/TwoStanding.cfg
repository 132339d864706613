SPECIFICATION Spec
CONSTANTS
  None = None
  UsbId = {}
  TbId = {t1, t2}
  SdId = {}
  PciId = {}
  Monitor = {}
  Connector = {}
  Iface = {}
  Configs <- LivenessConfigs
  HISTORY_LEN = 3
  LOG_WRAP = 1
  Horizon = 0
  Conn = {k1}
  Requests <- JustReload
  Callers = {"root"}
  Verdicts = {TRUE}
  MAX_DISARM_SECS = 2
  MAX_PAIR_SECS = 2
  StartMode = "Learn"
  CliOff = {}
  CliDryRun = FALSE
  World <- ThunderboltWorld
  FaultyBuses = {}
  ShutdownMayFail = FALSE
  MayCrash = FALSE
  MayEdit = FALSE
  Files <- LivenessConfigs
INVARIANTS
  SlotsDistinct
CHECK_DEADLOCK FALSE
