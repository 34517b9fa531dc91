SPECIFICATION Spec
CONSTANTS
  a = a
  b = b
  u1 = u1
  u2 = u2
  NoId = NoId
  Server = s
  Process = {c1, s}
  Crawler = {c1}
  Word = {a, b}
  Url = {u1, u2}
  LongWord = {}
  LongUrl = {}
  MaxConnections = 4
  CrawlOrder <- BothPages
  Versions <- Site
  FreqModulus = 8
  MaxFaults = 0
  Queries <- TwoWords
INVARIANTS AllMatchesReturned
