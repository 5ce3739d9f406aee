\* A refusal that is not retryable, and a replay that succeeds.
SPECIFICATION FairSpec
CONSTANTS
  r1 = r1
  r2 = r2
  t1 = t1
  t2 = t2
  NoNumber = NoNumber
  NoTeam = NoTeam
  NoShot = NoShot
  Requests <- MCRequests
  Shots <- DeepShots
  Teams <- MCTeams
  Numbers <- MCNumbers
  Objects <- DeepObjects
  Number <- DeepNumber
  UrlClass <- DeepUrlClass
  ImageClass <- DeepImageClass
  Parts <- DeepParts
  Addressable <- MCTeams
  MaxCalls = 2
  MaxAssignments = 1
PROPERTIES
  UnknownTeamIsFinal
