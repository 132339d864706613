SPECIFICATION Spec
CONSTANTS
  None = None
  UsbId = {u1}
  TbId = {t1}
  SdId = {}
  PciId = {p1}
  Monitor = {m1}
  Connector = {c1, c2}
  Iface = {}
  Configs <- AllowanceConfigs
  HISTORY_LEN = 1
  LOG_WRAP = 1
  Horizon = 1
  Conn = {k1}
  Requests <- AllowanceRequests
  Callers = {"root"}
  Verdicts = {TRUE}
  MAX_DISARM_SECS = 2
  MAX_PAIR_SECS = 2
  StartMode = "Learn"
  CliOff = {}
  CliDryRun = FALSE
  World <- AllowanceWorld
  FaultyBuses = {}
  ShutdownMayFail = FALSE
  MayCrash = FALSE
  MayEdit = FALSE
  Files <- AllowanceConfigs
PROPERTIES
  PairedKeptOut
  QuietStaysQuiet
  RearmIsQuiet
CONSTRAINT AllowanceScene
CHECK_DEADLOCK FALSE
