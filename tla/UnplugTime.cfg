SPECIFICATION Spec
CONSTANTS
  None = None
  UsbId = {}
  TbId = {}
  SdId = {}
  PciId = {}
  Monitor = {}
  Connector = {}
  Iface = {}
  Configs <- SwitchedPolicies
  HISTORY_LEN = 1
  LOG_WRAP = 1
  Horizon = 1
  Conn = {k1}
  Requests <- JustReload
  Callers = {"root"}
  Verdicts = {TRUE}
  MAX_DISARM_SECS = 2
  MAX_PAIR_SECS = 2
  StartMode = "Enforce"
  CliOff = {}
  CliDryRun = FALSE
  World <- EventWorld
  FaultyBuses = {}
  ShutdownMayFail = FALSE
  MayCrash = FALSE
  MayEdit = TRUE
  Files <- SwitchedPolicies
PROPERTIES
  UnplugTimeIsOfThisCut
CHECK_DEADLOCK FALSE
