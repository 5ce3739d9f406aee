\* One shot of every class: what may be stored for each.
SPECIFICATION Spec
CONSTANTS
  r1 = r1
  r2 = r2
  t1 = t1
  t2 = t2
  NoNumber = NoNumber
  NoTeam = NoTeam
  NoShot = NoShot
  Requests <- MCRequests
  Shots <- MixedShots
  Teams <- MCTeams
  Numbers <- MCNumbers
  Objects <- MixedObjects
  Number <- MixedNumber
  UrlClass <- MixedUrlClass
  ImageClass <- MixedImageClass
  Parts <- MixedParts
  Addressable <- MCAddressable
  MaxCalls = 2
  MaxAssignments = 2
INVARIANTS
  StoredIsAttributed
