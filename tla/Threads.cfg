SPECIFICATION FairSpec
CONSTANTS
  None = None
  h1 = h1
  h2 = h2
  mine = mine
  theirs = theirs
  me = me
  them = them
  root = root
  Handler = {h1, h2}
  Session = {mine, theirs}
  Uid = {me, them, root}
  SessionOwner <- Owners
  Caller <- Peers
  HasPid = {h1, h2}
  Root = root
  Lasts = {0}
  METHOD_TIMEOUT = 0
  AUTH_READ_TIMEOUT = 0
INVARIANTS
  StatusIsOneMoment
  SubjectIsCallersOwn
PROPERTIES
  PatrolGoesOn
  StatusIsAnswered
ACTION_CONSTRAINT RootAsksLittle
