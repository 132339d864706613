SPECIFICATION Spec
CONSTANTS
  None = None
  UsbId = {}
  TbId = {t1}
  SdId = {}
  PciId = {}
  Monitor = {}
  Connector = {}
  Iface = {}
  Configs <- SetConfigs
  HISTORY_LEN = 1
  LOG_WRAP = 1
  Horizon = 1
  Conn = {k1}
  Requests <- AllowanceRequests
  Callers = {"root"}
  Verdicts = {TRUE}
  MAX_DISARM_SECS = 2
  MAX_PAIR_SECS = 2
  StartMode = "Learn"
  CliOff = {}
  CliDryRun = FALSE
  World <- SetWorld
  FaultyBuses = {}
  ShutdownMayFail = FALSE
  MayCrash = FALSE
  MayEdit = FALSE
  Files <- SetConfigs
INVARIANTS
  AllowedKeptOut
CHECK_DEADLOCK FALSE
