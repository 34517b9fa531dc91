SPECIFICATION FairIndexerSpec
CONSTANTS
  a = a
  b = b
  long = long
  u1 = u1
  u2 = u2
  NoId = NoId
  Process = {c1, c2}
  Crawler = {c1, c2}
  Word = {a, b, long}
  Url = {u1, u2}
  LongWord = {long}
  LongUrl = {u2}
  MaxConnections = 3
  CrawlOrder <- TwiceFirst
  Versions <- Site
  FreqModulus = 4
  MaxFaults = 1
INVARIANTS TypeOK RowsFaithful
PROPERTIES PresenceSaved RetrySucceeds EventuallyIndexed
