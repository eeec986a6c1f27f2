SPECIFICATION FairSpec
CONSTANTS
  p1 = p1
  p2 = p2
  p3 = p3
  url1 = url1
  NoProc = NoProc
  Proc = {p1, p2, p3}
  Url = {url1}
  MayCrash = {p3}
  MaxFaults = 1
INVARIANTS
  OneExtractor
  OneSpawnPerResult
PROPERTIES
  ExtractionEnds
