SPECIFICATION FairSpec
CONSTANTS
  Handlers = {h1, h2}
  Sweeper = sw
  Paths = {p1}
  NoPath = NoPath
  Files = {f1, f2}
  NoFile = NoFile
  Items = {i1}
  NoItem = NoItem
  MaxFaults = 1
CHECK_DEADLOCK FALSE
INVARIANTS
  MediaSurvives
  RecycledIsFindable
PROPERTIES
  KeepsBin
  BinDrains
