SPECIFICATION FairSpec
CONSTANTS
  a = a
  b = b
  u1 = u1
  NoId = NoId
  Server = s
  Process = {s}
  Word = {a, b}
  Url = {u1}
  LongWord = {}
  LongUrl = {}
  MaxConnections = 1
  Queries <- OneWord
  Connection = {k1, k2}
  NoConnection = NoConnection
  Requests <- UndefinedOrUnreadable
  NoRequest = NoRequest
  Rows <- Nothing
PROPERTIES EveryConnectionEnds CallersAccepted
