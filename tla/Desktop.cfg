SPECIFICATION FairSpec
CONSTANTS
  None = None
  DryRuns = {TRUE, FALSE}
  Presets = {1, 2}
  FIVE_MINUTES = 1
  MAX_DISARM = 2
  MaxClock = 2
  MaxNews = 1
  MaxChanges = 2
  MaxClicks = 2
  MaxQueued = 1
  MaxSteps = 2
PROPERTIES
  ClicksAreKept
  NoticeGoesAway
  ViewsCatchUp
ACTION_CONSTRAINT FewAndPrompt
