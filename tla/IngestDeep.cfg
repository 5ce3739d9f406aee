\* Two photographs, replays, restarts, renumbering.
SPECIFICATION Spec
CONSTANTS
  r1 = r1
  r2 = r2
  t1 = t1
  t2 = t2
  NoNumber = NoNumber
  NoTeam = NoTeam
  NoShot = NoShot
  Requests <- MCRequests
  Shots <- DeepShots
  Teams <- MCTeams
  Numbers <- MCNumbers
  Objects <- DeepObjects
  Number <- DeepNumber
  UrlClass <- DeepUrlClass
  ImageClass <- DeepImageClass
  Parts <- DeepParts
  Addressable <- MCTeams
  MaxCalls = 3
  MaxAssignments = 3
SYMMETRY MCSymmetry
INVARIANTS
  TypeOK
  BytesBeforeEvent
  DeliveredIsRecorded
  StoredIsAttributed
  AttributionWasUnique
  NothingForgotten
  PublishFailedKeepsBytes
  RequestInv
PROPERTIES
  ContractSpec
  AttributionIsOfThisCall
