SPECIFICATION Spec
CONSTANTS
  None = None
  UsbId = {u1}
  TbId = {t1, t2}
  SdId = {}
  PciId = {p1}
  Monitor = {}
  Connector = {c1}
  Iface = {}
  Configs <- ReloadOrLock
  HISTORY_LEN = 3
  LOG_WRAP = 1
  Horizon = 2
  Conn = {k1}
  Requests <- AllRequests
  Callers = {"user"}
  Verdicts = {FALSE}
  MAX_DISARM_SECS = 2
  MAX_PAIR_SECS = 2
  StartMode = "Enforce"
  CliOff = {}
  CliDryRun = FALSE
  World <- ReloadOrLockWorld
  FaultyBuses = {"usb", "thunderbolt", "pci"}
  ShutdownMayFail = TRUE
  MayCrash = FALSE
  MayEdit = TRUE
  Files <- ReloadOrLockFiles
INVARIANTS
  TypeOK
  NewestIsHandled
  LockedDown
PROPERTIES
  LockedDownBaselines
  NeverBlind
CONSTRAINT ReloadScene
CHECK_DEADLOCK FALSE
