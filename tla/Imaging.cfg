\* Photographs, malformed JPEGs and images of every extent.
SPECIFICATION FairSpec
CONSTANTS
  Files <- AllFiles
  Edges <- AllEdges
  MaxEdge = 12
  MaxPixels = 96
  IntMax = 384
INVARIANTS
  TypeOK
  PhotographIsUpright
  RenditionsAgree
  EveryPixelOnce
  ProductsFit
PROPERTIES
  PrepareReturns
\* Prepare returns.
CHECK_DEADLOCK FALSE
