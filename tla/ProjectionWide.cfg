\* Two teams and two types: whose rows an event may touch, and progress past an
\* event that the handler refuses.
SPECIFICATION FairSpec
CONSTANTS
  t1 = t1
  t2 = t2
  ref1 = ref1
  ref2 = ref2
  NoTeam = NoTeam
  BadRef = BadRef
  NoRef = NoRef
  NoRow = NoRow
  Teams <- WideTeams
  Types <- WideTypes
  Refs <- WideRefs
  Values <- WideValues
  PurgeLists <- WidePurgeLists
  OlderEvents <- WideOlder
  MaxEvents = 3
  MaxErasures = 1
  MaxRestarts = 1
INVARIANTS
  RowsFollowLog
  NoRowFromNowhere
PROPERTIES
  EveryEventHandled
\* The stream may stay as it is for ever, and a projection that has caught up idles.
CHECK_DEADLOCK FALSE
