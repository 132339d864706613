SPECIFICATION FairSpec
CONSTANTS
  None = None
  secret = secret
  folder = folder
  plain = plain
  empty = empty
  alias = alias
  sub = sub
  back = back
  away = away
  outer = outer
  kept = kept
  other = other
  hollow = hollow
  ring = ring
  Node <- Nodes
  Kind <- Kinds
  Entries <- Holds
  Target <- Names
  Confs <- Variants
  Faulty = {plain, sub}
  SHRED_PASSES = 2
  MAX_LINKS = 1
INVARIANTS
  NoRemovalBeforeOverwrite
  DestroysExactly
  FlushedAtPowerOff
PROPERTIES
  SequenceEnds
CHECK_DEADLOCK FALSE
