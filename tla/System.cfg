\* Two photographs from ingest to the reader.
SPECIFICATION FairSystemSpec
CONSTANTS
  t1 = t1
  s1 = s1
  s2 = s2
  o1 = o1
  d1 = d1
  h1 = h1
  h2 = h2
  NoTeam = NoTeam
  BadRef = BadRef
  NoRef = NoRef
  NoRow = NoRow
  Teams = {t1}
  Types = {"start"}
  Refs <- Ref
  Values <- Bodies
  PurgeLists = {{d1}}
  OlderEvents <- Older
  MaxEvents = 2
  MaxErasures = 0
  MaxRestarts = 1
  Shots = {s1, s2}
  Photo <- PhotoOf
  MaxRemoved = 1
INVARIANTS
  SystemTypeOK
  NamedIsStored
PROPERTIES
  AnnouncedIsListed
  OnlyShownIsServed
  SteadyIsServed
\* With every bound reached the stream may stay as it is for ever.
CHECK_DEADLOCK FALSE
