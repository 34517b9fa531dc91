SPECIFICATION Spec
CONSTANTS
  a = a
  b = b
  u1 = u1
  NoId = NoId
  Server = s
  Process = {s}
  Word = {a, b}
  Url = {u1}
  LongWord = {}
  LongUrl = {}
  MaxConnections = 1
  Queries <- OneWord
  Connection = {k1, k2}
  NoConnection = NoConnection
  Requests <- AllKinds
  NoRequest = NoRequest
  Rows <- Crawled
INVARIANTS HttpTypeOK DeadlineGuards RepliesToRequest CutOnlyByDeadline
PROPERTIES NothingAfterDeadline ImplementsInvertedIndex
SYMMETRY Connections
