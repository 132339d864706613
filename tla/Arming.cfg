SPECIFICATION Spec
CONSTANTS
  None = None
  UsbId = {}
  TbId = {t1}
  SdId = {}
  PciId = {p1}
  Monitor = {m1, m2}
  Connector = {c1, c2}
  Iface = {i1}
  Configs <- AnyScene
  HISTORY_LEN = 1
  LOG_WRAP = 1
  Horizon = 4
  Conn = {k1}
  Requests <- AnyRequests
  Callers = {"user"}
  Verdicts = {TRUE}
  MAX_DISARM_SECS = 2
  MAX_PAIR_SECS = 2
  StartMode = "Enforce"
  CliOff = {}
  CliDryRun = FALSE
  World <- AnyWorld
  FaultyBuses = {}
  ShutdownMayFail = FALSE
  MayCrash = TRUE
  MayEdit = FALSE
  Files <- AnyScene
INVARIANTS
  DisarmHasDeadline
  ChecksUseFreshBaseline
  StrangerIsSeen
PROPERTIES
  DisarmWindowSpec
  MonitoredIsLoggedOnce
  GraceKept
SYMMETRY DisplaySymmetry
CONSTRAINT ArmingScene
CHECK_DEADLOCK FALSE
