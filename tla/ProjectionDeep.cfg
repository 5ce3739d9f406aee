\* Long logs of one team: corrections, purges, replays by newer code.
SPECIFICATION Spec
CONSTANTS
  t1 = t1
  t2 = t2
  ref1 = ref1
  ref2 = ref2
  NoTeam = NoTeam
  BadRef = BadRef
  NoRef = NoRef
  NoRow = NoRow
  Teams <- DeepTeams
  Types <- DeepTypes
  Refs <- DeepRefs
  Values <- DeepValues
  PurgeLists <- DeepPurgeLists
  OlderEvents <- DeepOlder
  MaxEvents = 3
  MaxErasures = 1
  MaxRestarts = 2
INVARIANTS
  TypeOK
  RowsFollowLog
  CaughtUpIsView
  DeadlettersAreCurrent
  ThumbIsCheapest
\* The stream may stay as it is for ever, and a projection that has caught up idles.
CHECK_DEADLOCK FALSE
