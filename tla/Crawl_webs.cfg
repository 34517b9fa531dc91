SPECIFICATION Spec
CONSTANTS
  h1 = h1
  h2 = h2
  root = root
  p = p
  Host = {h1, h2}
  Name = {root, p}
  Root = root
  Sites <- Webs
  Start <- StartPage
  Signer <- OwnAuthority
  RootSets = {{h1}, {h1, h2}}
  Depths = {0, 1, 2, 3}
  HalfShort = 2
  MaxFaults = 1
INVARIANTS TypeOK DepthRespected CrawlsAllWithinDepth
PROPERTIES CrawlEnds
CHECK_DEADLOCK FALSE
