\* Rows of erased events after a restart.
SPECIFICATION FairSpec
CONSTANTS
  t1 = t1
  t2 = t2
  ref1 = ref1
  ref2 = ref2
  NoTeam = NoTeam
  BadRef = BadRef
  NoRef = NoRef
  NoRow = NoRow
  Teams <- DeepTeams
  Types <- DeepTypes
  Refs <- DeepRefs
  Values <- DeepValues
  PurgeLists <- DeepPurgeLists
  OlderEvents <- DeepOlder
  MaxEvents = 2
  MaxErasures = 1
  MaxRestarts = 1
INVARIANTS
  RestartRemovesErased
\* The stream may stay as it is for ever, and a projection that has caught up idles.
CHECK_DEADLOCK FALSE
