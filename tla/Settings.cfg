SPECIFICATION Spec
CONSTANTS
  None = None
  hub = hub
  key = key
  KEY = KEY
  root = root
  inner = inner
  beside = beside
  main = main
  other = other
  lan = lan
  bad = bad
  UsbId = {hub, key}
  Spelling = {hub, key, KEY}
  Norm <- Norms
  Port = {root, inner, beside}
  PortOrder <- Order
  Behind <- Hangs
  Path = {main, other}
  Links = {lan, bad}
  BadLinks = {bad}
  MIN_SLEEP = 1
  MAX_SLEEP = 2
  SPIN_SLEEP = 3
  Defaults <- Config0
  Disks <- DisksToRun
  MaxPlugs = 3
  MaxEdits = 2
  MaxRoot = 2
INVARIANTS
  EditsSurvive
  CoverIsRight
PROPERTIES
  PasteKeeps
CONSTRAINT Scene
