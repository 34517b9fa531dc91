--------------------------- MODULE HttpServerProofs ---------------------------
(***************************************************************************)
(* Proofs about HttpServer, for any connections, requests and database.    *)
(* The invariant has three parts: the running search (SearcherProofs), how *)
(* the operations, the timer and the socket of one connection go together  *)
(* (ObjectOK), and that each handler in the queue is that of an operation  *)
(* which has ended and is there once (QueueOK, Once).                      *)
(***************************************************************************)
EXTENDS HttpServer, SearcherProofs

Ends3 == {"read", "write", "deadline"}

ObjectOK(k) ==
  /\ k.socket = "open" <=> k.timer \in {"set", "expired", "cancelled"}
  /\ k.writing # "none" => k.reading = "none"
  /\ k.timer \in {"off", "cancelled", "lost"} =>
       k.reading = "none" /\ k.writing = "none"
  /\ k.timer = "fired" => k.reading # "pending" /\ k.writing # "pending"
  /\ k.writing = "ok" => k.received = "whole"
  /\ k.socket = "open" /\ k.writing = "error" => k.client = "gone"
  /\ k.timer \in {"off", "cancelled"} /\ k.client = "here" =>
       k.received = "whole"
  /\ k.reading = "ok" => Readable(k.request)
  /\ k.response.hrefs # <<>> => k.request # NoRequest

\* The operation has ended and its handler has not run.
Ended(k, operation) ==
  /\ operation = "read" => k.reading \in {"ok", "error"}
  /\ operation = "write" => k.writing \in {"ok", "error"}
  /\ operation = "deadline" => k.timer \in {"expired", "cancelled"}

EntryOK(x) ==
  \/ x = <<NoConnection, "accept">>
  \/ /\ x \in Connection \X Ends3
     /\ Ended(at[x[1]], x[2])
     /\ x[2] = "read" => thread # x[1]

QueueOK == \A i \in DOMAIN queue : EntryOK(queue[i])

OnceIn(s) ==
  \A i, j \in DOMAIN s : s[i] = s[j] /\ s[i][2] # "accept" => i = j

\* The search that runs is the one of the request at hand.
ThreadOK ==
  thread # NoConnection =>
    /\ at[thread].reading = "ok" /\ at[thread].request.method = "post"
    /\ HasWords(at[thread].request) => query = WordsOf(at[thread].request)

\* The resources of the response of k hold the words of its request.
RepliesHold(k) ==
  \A i \in DOMAIN k.response.hrefs :
    /\ k.request.method = "post"
    /\ HasWords(k.request) => Matches(k.response.hrefs[i].url, WordsOf(k.request))

Objects == \A c \in Connection : ObjectOK(at[c]) /\ RepliesHold(at[c])

HttpIInv ==
  SearchIInv /\ HttpTypeOK /\ Objects /\ QueueOK /\ OnceIn(queue) /\ ThreadOK

Entries == (Connection \cup {NoConnection}) \X Operation

-----------------------------------------------------------------------------
(* The queue.                                                              *)

\* Handlers that are appended to others.
LEMMA QueueAppends ==
  ASSUME NEW rest \in Seq(Entries), NEW more \in Seq(Entries),
         queue' = rest \o more,
         \A i \in DOMAIN rest : EntryOK(rest[i])',
         \A i \in DOMAIN more : EntryOK(more[i])',
         OnceIn(rest), OnceIn(more),
         \A i \in DOMAIN rest : \A j \in DOMAIN more :
           rest[i] = more[j] => rest[i][2] = "accept"
  PROVE  queue' \in Seq(Entries) /\ QueueOK' /\ OnceIn(queue)'
<1>1. /\ queue' \in Seq(Entries) /\ Len(queue') = Len(rest) + Len(more)
      /\ Len(rest) \in Nat /\ Len(more) \in Nat
      /\ DOMAIN rest = 1 .. Len(rest) /\ DOMAIN more = 1 .. Len(more)
      /\ DOMAIN queue' = 1 .. Len(rest) + Len(more)
  OBVIOUS
<1>2. \A i \in DOMAIN queue' :
        \/ i \in DOMAIN rest /\ queue'[i] = rest[i]
        \/ /\ i > Len(rest) /\ i - Len(rest) \in DOMAIN more
           /\ queue'[i] = more[i - Len(rest)]
  BY <1>1
<1>3. QueueOK'
  BY <1>2 DEF QueueOK
<1>4. OnceIn(queue')
  <2> SUFFICES ASSUME NEW i \in DOMAIN queue', NEW j \in DOMAIN queue',
                      queue'[i] = queue'[j], queue'[i][2] # "accept"
               PROVE  i = j
    BY DEF OnceIn
  <2>1. CASE i \in DOMAIN rest /\ queue'[i] = rest[i]
             /\ j \in DOMAIN rest /\ queue'[j] = rest[j]
    BY <2>1 DEF OnceIn
  <2>2. CASE /\ i > Len(rest) /\ i - Len(rest) \in DOMAIN more
             /\ queue'[i] = more[i - Len(rest)]
             /\ j > Len(rest) /\ j - Len(rest) \in DOMAIN more
             /\ queue'[j] = more[j - Len(rest)]
    <3>1. i - Len(rest) = j - Len(rest)
      BY <2>2 DEF OnceIn
    <3> QED
      BY <1>1, <3>1
  <2> QED
    BY <1>2, <2>1, <2>2
<1> QED
  BY <1>1, <1>3, <1>4 DEF OnceIn

\* What a handler leaves in the queue when it is taken from its head.
LEMMA QueueTail ==
  ASSUME HttpTypeOK, QueueOK, OnceIn(queue), queue # <<>>
  PROVE  /\ Head(queue) \in Entries /\ EntryOK(Head(queue))
         /\ Tail(queue) \in Seq(Entries) /\ OnceIn(Tail(queue))
         /\ \A i \in DOMAIN Tail(queue) :
              /\ EntryOK(Tail(queue)[i])
              /\ \/ Tail(queue)[i] # Head(queue)
                 \/ Head(queue)[2] = "accept"
<1> DEFINE t == Tail(queue)
<1>1. /\ queue \in Seq(Entries) /\ Len(queue) \in Nat \ {0}
      /\ DOMAIN queue = 1 .. Len(queue) /\ Head(queue) = queue[1]
      /\ t \in Seq(Entries) /\ DOMAIN t = 1 .. Len(queue) - 1
      /\ \A i \in DOMAIN t : t[i] = queue[i + 1] /\ i + 1 \in DOMAIN queue
  BY DEF HttpTypeOK, Entries
<1> HIDE DEF t
<1>2. \A i \in DOMAIN t : i \in Nat /\ i + 1 # 1
  BY <1>1
<1>3. OnceIn(t)
  <2> SUFFICES ASSUME NEW i \in DOMAIN t, NEW j \in DOMAIN t,
                      t[i] = t[j], t[i][2] # "accept"
               PROVE  i = j
    BY DEF OnceIn
  <2>1. i + 1 = j + 1
    BY <1>1 DEF OnceIn
  <2> QED
    BY <1>2, <2>1
<1>4. 1 \in DOMAIN queue
  BY <1>1
<1>5. \A i \in DOMAIN t :
        EntryOK(t[i]) /\ (t[i] # Head(queue) \/ Head(queue)[2] = "accept")
  BY <1>1, <1>2, <1>4 DEF QueueOK, OnceIn
<1> QED
  BY <1>1, <1>3, <1>4, <1>5 DEF QueueOK, t

\* A step of connection c leaves rest and adds more.
LEMMA ConnectionQueue ==
  ASSUME HttpTypeOK, NEW c \in Connection, NEW k, at' = [at EXCEPT ![c] = k],
         NEW rest \in Seq(Entries), OnceIn(rest),
         NEW more \in Seq(Entries), OnceIn(more),
         queue' = rest \o more, thread' \in {thread, NoConnection, c},
         \A i \in DOMAIN rest :
           /\ EntryOK(rest[i])
           /\ \A o \in Ends3 : rest[i] = <<c, o>> =>
                Ended(k, o) /\ (o = "read" => thread' # c),
         \A i \in DOMAIN more : \E o \in Ends3 :
           /\ more[i] = <<c, o>> /\ ~Ended(at[c], o) /\ Ended(k, o)
           /\ o = "read" => thread' # c
  PROVE  queue' \in Seq(Entries) /\ QueueOK' /\ OnceIn(queue)'
<1>1. at'[c] = k /\ \A d \in Connection \ {c} : at'[d] = at[d]
  BY DEF HttpTypeOK
<1>2. NoConnection \notin Connection
  BY HttpAssumption
<1>3. ASSUME NEW i \in DOMAIN rest PROVE EntryOK(rest[i])'
  <2>1. CASE rest[i] = <<NoConnection, "accept">>
    BY <2>1 DEF EntryOK
  <2>2. CASE rest[i] \in Connection \X Ends3
    <3>1. PICK d \in Connection, o \in Ends3 : rest[i] = <<d, o>>
      BY <2>2
    <3>2. Ended(at[d], o) /\ (o = "read" => thread # d)
      BY <1>2, <3>1 DEF EntryOK
    <3>3. Ended(at'[d], o) /\ (o = "read" => thread' # d)
      BY <1>1, <1>2, <3>1, <3>2
    <3> QED
      BY <3>1, <3>3 DEF EntryOK, Ended
  <2> QED
    BY <2>1, <2>2 DEF EntryOK
<1>4. \A i \in DOMAIN more : EntryOK(more[i])'
  BY <1>1 DEF EntryOK, Ended
<1>5. \A i \in DOMAIN rest : \A j \in DOMAIN more :
        rest[i] = more[j] => rest[i][2] = "accept"
  BY <1>2 DEF EntryOK
<1> QED
  BY <1>3, <1>4, <1>5, QueueAppends

\* The queue does not change, and what has ended stays so.
LEMMA QueueSame ==
  ASSUME HttpTypeOK, QueueOK, OnceIn(queue), UNCHANGED <<queue, thread>>,
         NEW c \in Connection, NEW k, at' = [at EXCEPT ![c] = k],
         \A o \in Ends3 : Ended(at[c], o) => Ended(k, o)
  PROVE  queue' \in Seq(Entries) /\ QueueOK' /\ OnceIn(queue)'
<1>1. queue \in Seq(Entries)
  BY DEF HttpTypeOK, Entries
<1>2. \A d \in Connection : \A o \in Ends3 : Ended(at[d], o) => Ended(at'[d], o)
  BY DEF HttpTypeOK
<1>3. ASSUME NEW x, EntryOK(x) PROVE EntryOK(x)'
  <2>1. CASE x = <<NoConnection, "accept">>
    BY <2>1 DEF EntryOK
  <2>2. ASSUME NEW d \in Connection, NEW o \in Ends3, x = <<d, o>>,
               Ended(at[d], o), o = "read" => thread # d
        PROVE  EntryOK(x)'
    BY <1>2, <2>2 DEF EntryOK, Ended
  <2> QED
    BY <1>3, <2>1, <2>2 DEF EntryOK
<1> QED
  BY <1>1, <1>3 DEF QueueOK, OnceIn

\* Short lists of handlers.
LEMMA OneEntry ==
  ASSUME NEW x \in Entries
  PROVE  /\ << x >> \in Seq(Entries) /\ OnceIn(<< x >>)
         /\ \A i \in DOMAIN << x >> : << x >>[i] = x
BY DEF OnceIn

LEMMA NoEntry ==
  <<>> \in Seq(Entries) /\ OnceIn(<<>>) /\ \A i \in DOMAIN <<>> : FALSE
BY DEF OnceIn

\* An operation of c has ended.
LEMMA EndsKeepsQueue ==
  ASSUME HttpIInv, NEW c \in Connection, NEW operation \in Ends3, NEW k,
         Ends(c, operation, k),
         ~Ended(at[c], operation), Ended(k, operation),
         \A o \in Ends3 : Ended(at[c], o) => Ended(k, o)
  PROVE  queue' \in Seq(Entries) /\ QueueOK' /\ OnceIn(queue)'
<1> USE DEF HttpIInv
<1> DEFINE more == << <<c, operation>> >>
<1>1. more \in Seq(Entries) /\ OnceIn(more)
  BY OneEntry DEF Entries, Ends3, Operation
<1>2. queue \in Seq(Entries)
  BY DEF HttpTypeOK, Entries
<1>3. queue' = queue \o more
  <2> DEFINE x == <<c, operation>>
  <2>1. x \in Entries
    BY DEF Entries, Ends3, Operation
  <2>2. queue' = Append(queue, x)
    BY DEF Ends
  <2> HIDE DEF x
  <2>3. Append(queue, x) = queue \o << x >>
    BY <1>2, <2>1
  <2> QED
    BY <2>2, <2>3 DEF x
<1>4. at' = [at EXCEPT ![c] = k] /\ thread' = thread
  BY DEF Ends, loopVars
<1>5. operation = "read" => thread # c
  BY HttpAssumption DEF ThreadOK, Ended
<1>6. \A i \in DOMAIN queue : EntryOK(queue[i])
  BY DEF QueueOK
<1>7. \A i \in DOMAIN queue : \A o \in Ends3 : queue[i] = <<c, o>> =>
        Ended(k, o) /\ (o = "read" => thread' # c)
  BY <1>4, <1>6, HttpAssumption DEF EntryOK
<1>8. \A i \in DOMAIN more : more[i] = <<c, operation>>
  OBVIOUS
<1> HIDE DEF more
<1> QED
  BY <1>1, <1>2, <1>3, <1>4, <1>5, <1>6, <1>7, <1>8, ConnectionQueue

\* A handler of c has run.
LEMMA RunKeepsQueue ==
  ASSUME HttpIInv, NEW c \in Connection, NEW operation \in Ends3,
         NEW more \in Seq(Entries), OnceIn(more), Run(c, operation, more),
         NEW k, at' = [at EXCEPT ![c] = k],
         thread' = NoConnection \/ (thread' = c /\ operation = "read"),
         \A o \in Ends3 \ {operation} : Ended(at[c], o) => Ended(k, o),
         \A i \in DOMAIN more : \E o \in Ends3 :
           /\ more[i] = <<c, o>> /\ ~Ended(at[c], o) /\ Ended(k, o)
           /\ o = "read" => thread' # c
  PROVE  queue' \in Seq(Entries) /\ QueueOK' /\ OnceIn(queue)'
<1> USE DEF HttpIInv, Run, Turn
<1> DEFINE rest == Tail(queue)
<1>1. /\ rest \in Seq(Entries) /\ OnceIn(rest)
      /\ \A i \in DOMAIN rest : EntryOK(rest[i]) /\ rest[i] # <<c, operation>>
  <2>1. Head(queue) = <<c, operation>> /\ Head(queue)[2] # "accept"
    BY DEF Ends3
  <2> QED
    BY <2>1, QueueTail
<1>2. queue' = rest \o more
  OBVIOUS
<1> HIDE DEF rest
<1>3. \A i \in DOMAIN rest : \A o \in Ends3 : rest[i] = <<c, o>> =>
        Ended(k, o) /\ (o = "read" => thread' # c)
  BY <1>1, HttpAssumption DEF EntryOK
<1> QED
  BY <1>1, <1>2, <1>3, ConnectionQueue

-----------------------------------------------------------------------------
(* Steps of a connection that leave the database and the search alone.     *)

LEMMA SearchUnchanged ==
  ASSUME SearchIInv, UNCHANGED <<dbVars, searchVars>>
  PROVE  SearchIInv' /\ RowsGrow
<1> USE DEF dbVars, SearchIInv
<1>1. RowsGrow
  BY DEF RowsGrow
<1>2. Constrained'
  BY DEF Constrained, DbTypeOK, UniqueRows, RowsHaveKeys
<1>3. conn'[Server] = "open" => conn[Server] = "open" /\ ServerHolds'
  BY DEF ServerHolds
<1> QED
  BY <1>1, <1>2, <1>3, OthersKeepSearch

\* The response is kept with its request, or names no resource.
SameReply(k, k2) ==
  \/ k2.response.hrefs = <<>>
  \/ k2.response = k.response /\ k2.request = k.request

LEMMA RepliesStay ==
  ASSUME RowsGrow, NEW k, RepliesHold(k) PROVE RepliesHold(k)'
BY MatchesStay DEF RepliesHold

\* Of the connections that do not move.
LEMMA OtherObjects ==
  ASSUME RowsGrow, NEW d, at'[d] = at[d], ObjectOK(at[d]), RepliesHold(at[d])
  PROVE  (ObjectOK(at[d]) /\ RepliesHold(at[d]))'
<1>1. PICK v : v = at[d]
  OBVIOUS
<1>2. RepliesHold(v)'
  BY <1>1, RepliesStay
<1>3. at'[d] = v
  BY <1>1
<1> QED
  BY <1>1, <1>2, <1>3 DEF ObjectOK, RepliesHold

LEMMA ObjectsKeep ==
  ASSUME HttpIInv, RowsGrow, NEW c \in Connection, NEW k \in Object,
         ObjectOK(k), RepliesHold(k)', at' = [at EXCEPT ![c] = k]
  PROVE  at' \in [Connection -> Object] /\ Objects'
<1> USE DEF HttpIInv, HttpTypeOK, Objects
<1>1. at'[c] = k /\ \A d \in Connection \ {c} : at'[d] = at[d]
  OBVIOUS
<1>2. (ObjectOK(at[c]) /\ RepliesHold(at[c]))'
  BY <1>1 DEF ObjectOK, RepliesHold
<1>3. ASSUME NEW d \in Connection, d # c
      PROVE  (ObjectOK(at[d]) /\ RepliesHold(at[d]))'
  BY <1>1, <1>3, OtherObjects
<1> QED
  BY <1>2, <1>3

LEMMA SameReplyHolds ==
  ASSUME RowsGrow, NEW j, NEW k, RepliesHold(j), SameReply(j, k)
  PROVE  RepliesHold(k)'
BY RepliesStay DEF SameReply, RepliesHold

LEMMA ConnectionStep ==
  ASSUME HttpIInv, UNCHANGED <<dbVars, searchVars, thread>>,
         running' \in BOOLEAN, accepting' \in BOOLEAN, caller' \in BOOLEAN,
         NEW c \in Connection, NEW k \in Object,
         ObjectOK(k), SameReply(at[c], k), at' = [at EXCEPT ![c] = k],
         thread = c => k.reading = "ok" /\ k.request = at[c].request,
         queue' \in Seq(Entries), QueueOK', OnceIn(queue)'
  PROVE  HttpIInv'
<1> USE DEF HttpIInv
<1>1. SearchIInv' /\ RowsGrow
  BY SearchUnchanged
<1>2. at' \in [Connection -> Object] /\ Objects'
  BY <1>1, SameReplyHolds, ObjectsKeep DEF Objects
<1>3. HttpTypeOK'
  BY <1>1, <1>2 DEF HttpTypeOK, SearchIInv, Constrained, Entries, searchVars
<1>4. ThreadOK'
  BY DEF ThreadOK, HttpTypeOK, searchVars
<1> QED
  BY <1>1, <1>2, <1>3, <1>4

LEMMA LeftKeeps ==
  ASSUME NEW k \in Object, ObjectOK(k)
  PROVE  /\ Left(k) \in Object /\ ObjectOK(Left(k)) /\ SameReply(k, Left(k))
         /\ Left(k).reading = k.reading /\ Left(k).writing = k.writing
         /\ Left(k).timer = k.timer
<1>1. CASE Outstanding(k)
  BY <1>1 DEF Left, SameReply
<1>2. CASE ~Outstanding(k)
  <2>1. NoResponse \in [status : {"none", "ok", "not_found", "bad_request"},
               body : {"none", "form", "text"},
               hrefs : Seq([scheme : {"https"}, url : Url])]
        /\ NoResponse.hrefs = <<>>
    BY DEF NoResponse, Response
  <2>2. Left(k) = [k EXCEPT !.socket = "closed", !.request = NoRequest,
                            !.response = NoResponse]
    BY <1>2 DEF Left
  <2> QED
    BY <1>2, <2>1, <2>2 DEF Object, ObjectOK, Outstanding, SameReply
<1> QED
  BY <1>1, <1>2

-----------------------------------------------------------------------------
(* Clients, and operations that end.                                       *)

LEMMA ObjectAt ==
  ASSUME HttpIInv, NEW c \in Connection
  PROVE  at[c] \in Object /\ ObjectOK(at[c]) /\ RepliesHold(at[c])
BY DEF HttpIInv, HttpTypeOK, Objects

LEMMA FlagsKeep ==
  ASSUME HttpIInv, UNCHANGED loopVars
  PROVE  /\ running' \in BOOLEAN /\ accepting' \in BOOLEAN /\ caller' \in BOOLEAN
         /\ thread' = thread
BY DEF HttpIInv, HttpTypeOK, loopVars

LEMMA SendKeeps ==
  ASSUME HttpIInv, NEW c \in Connection, NEW r \in Requests, Send(c, r)
  PROVE  HttpIInv'
<1> DEFINE k == [at[c] EXCEPT !.request = r]
<1>1. at[c] \in Object /\ ObjectOK(at[c]) /\ at[c].request = NoRequest
  BY ObjectAt DEF Send
<1>2. k \in Object /\ ObjectOK(k) /\ SameReply(at[c], k)
  BY <1>1, HttpAssumption DEF Object, ObjectOK, SameReply, Readable
<1>3. \A o \in Ends3 : Ended(at[c], o) => Ended(k, o)
  BY <1>1 DEF Ended, Object
<1>4. /\ at' = [at EXCEPT ![c] = k]
      /\ UNCHANGED <<dbVars, searchVars, loopVars, queue>>
  BY DEF Send
<1>5. thread # c
  BY <1>1, HttpAssumption DEF HttpIInv, ThreadOK, ObjectOK, Readable
<1> HIDE DEF k
<1> QED
  BY <1>2, <1>3, <1>4, <1>5, FlagsKeep, QueueSame, ConnectionStep DEF HttpIInv

LEMMA LeaveKeeps ==
  ASSUME HttpIInv, NEW c \in Connection, Leave(c) PROVE HttpIInv'
<1> DEFINE k == [at[c] EXCEPT !.client = "gone"]
<1>1. at[c] \in Object /\ ObjectOK(at[c])
  BY ObjectAt
<1>2. /\ k \in Object /\ ObjectOK(k) /\ SameReply(at[c], k)
      /\ k.reading = at[c].reading /\ k.request = at[c].request
  BY <1>1 DEF Object, ObjectOK, SameReply
<1>3. \A o \in Ends3 : Ended(at[c], o) => Ended(k, o)
  BY <1>1 DEF Ended, Object
<1>4. /\ at' = [at EXCEPT ![c] = k]
      /\ UNCHANGED <<dbVars, searchVars, loopVars, queue>>
  BY DEF Leave
<1>5. thread = c => k.reading = "ok"
  BY <1>2, HttpAssumption DEF HttpIInv, ThreadOK
<1> HIDE DEF k
<1> QED
  BY <1>2, <1>3, <1>4, <1>5, FlagsKeep, QueueSame, ConnectionStep DEF HttpIInv

\* All operations that end, once they are shown to leave the object in order.
LEMMA EndsKeeps ==
  ASSUME HttpIInv, NEW c \in Connection, NEW operation \in Ends3,
         NEW k \in Object, ObjectOK(k), Ends(c, operation, k),
         ~Ended(at[c], operation), Ended(k, operation),
         \A o \in Ends3 : Ended(at[c], o) => Ended(k, o),
         k.response = at[c].response, k.request = at[c].request,
         at[c].reading = "ok" => k.reading = "ok"
  PROVE  HttpIInv'
<1>1. queue' \in Seq(Entries) /\ QueueOK' /\ OnceIn(queue)'
  BY EndsKeepsQueue
<1>2. at' = [at EXCEPT ![c] = k] /\ UNCHANGED <<dbVars, searchVars, loopVars>>
  BY DEF Ends
<1>3. thread = c => k.reading = "ok"
  BY HttpAssumption DEF HttpIInv, ThreadOK
<1> QED
  BY <1>1, <1>2, <1>3, FlagsKeep, ConnectionStep DEF SameReply

LEMMA ReadEndsKeeps ==
  ASSUME HttpIInv, NEW c \in Connection, RequestRead(c) \/ ReadFails(c)
  PROVE  HttpIInv'
<1> DEFINE k(e) == [at[c] EXCEPT !.reading = e]
<1>1. at[c] \in Object /\ ObjectOK(at[c]) /\ at[c].reading = "pending"
  BY ObjectAt DEF RequestRead, ReadFails
<1>2. PICK e \in {"ok", "error"} :
        Ends(c, "read", k(e)) /\ (e = "ok" => Readable(at[c].request))
  BY DEF RequestRead, ReadFails
<1>3. /\ k(e) \in Object /\ ObjectOK(k(e))
      /\ k(e).response = at[c].response /\ k(e).request = at[c].request
  BY <1>1, <1>2 DEF Object, ObjectOK
<1>4. /\ ~Ended(at[c], "read") /\ Ended(k(e), "read")
      /\ \A o \in Ends3 : Ended(at[c], o) => Ended(k(e), o)
  BY <1>1 DEF Ended, Ends3, Object
<1> HIDE DEF k
<1> QED
  BY <1>1, <1>2, <1>3, <1>4, EndsKeeps DEF Ends3

LEMMA WriteSomeKeeps ==
  ASSUME HttpIInv, NEW c \in Connection, WriteSome(c) PROVE HttpIInv'
<1> DEFINE k1 == [at[c] EXCEPT !.received = "part"]
           k2 == [at[c] EXCEPT !.received = "whole", !.writing = "ok"]
<1>1. at[c] \in Object /\ ObjectOK(at[c]) /\ at[c].writing = "pending"
  BY ObjectAt DEF WriteSome
<1>2. CASE /\ at' = [at EXCEPT ![c] = k1]
           /\ UNCHANGED <<dbVars, searchVars, loopVars, queue>>
  <2>1. /\ k1 \in Object /\ ObjectOK(k1) /\ SameReply(at[c], k1)
        /\ k1.reading = at[c].reading /\ k1.request = at[c].request
    BY <1>1 DEF Object, ObjectOK, SameReply
  <2>2. \A o \in Ends3 : Ended(at[c], o) => Ended(k1, o)
    BY <1>1 DEF Ended, Object
  <2>3. thread = c => k1.reading = "ok"
    BY <2>1, HttpAssumption DEF HttpIInv, ThreadOK
  <2> HIDE DEF k1
  <2> QED
    BY <1>2, <2>1, <2>2, <2>3, FlagsKeep, QueueSame, ConnectionStep DEF HttpIInv
<1>3. CASE Ends(c, "write", k2)
  <2>1. /\ k2 \in Object /\ ObjectOK(k2) /\ k2.reading = at[c].reading
        /\ k2.response = at[c].response /\ k2.request = at[c].request
    BY <1>1 DEF Object, ObjectOK
  <2>2. /\ ~Ended(at[c], "write") /\ Ended(k2, "write")
        /\ \A o \in Ends3 : Ended(at[c], o) => Ended(k2, o)
    BY <1>1 DEF Ended, Ends3, Object
  <2> HIDE DEF k2
  <2> QED
    BY <1>3, <2>1, <2>2, EndsKeeps DEF Ends3
<1> QED
  BY <1>2, <1>3 DEF WriteSome

LEMMA WriteFailsKeeps ==
  ASSUME HttpIInv, NEW c \in Connection, WriteFails(c) PROVE HttpIInv'
<1> DEFINE k == [at[c] EXCEPT !.writing = "error"]
<1>1. /\ at[c] \in Object /\ ObjectOK(at[c]) /\ at[c].writing = "pending"
      /\ at[c].client = "gone"
  BY ObjectAt DEF WriteFails
<1>2. /\ k \in Object /\ ObjectOK(k) /\ k.reading = at[c].reading
      /\ k.response = at[c].response /\ k.request = at[c].request
  BY <1>1 DEF Object, ObjectOK
<1>3. /\ ~Ended(at[c], "write") /\ Ended(k, "write")
      /\ \A o \in Ends3 : Ended(at[c], o) => Ended(k, o)
  BY <1>1 DEF Ended, Ends3, Object
<1>4. Ends(c, "write", k)
  BY DEF WriteFails
<1> HIDE DEF k
<1> QED
  BY <1>2, <1>3, <1>4, EndsKeeps DEF Ends3

LEMMA DeadlineExpiresKeeps ==
  ASSUME HttpIInv, NEW c \in Connection, DeadlineExpires(c) PROVE HttpIInv'
<1> DEFINE k == [at[c] EXCEPT !.timer = "expired"]
<1>1. at[c] \in Object /\ ObjectOK(at[c]) /\ at[c].timer = "set"
  BY ObjectAt DEF DeadlineExpires
<1>2. /\ k \in Object /\ ObjectOK(k) /\ k.reading = at[c].reading
      /\ k.response = at[c].response /\ k.request = at[c].request
  BY <1>1 DEF Object, ObjectOK
<1>3. /\ ~Ended(at[c], "deadline") /\ Ended(k, "deadline")
      /\ \A o \in Ends3 : Ended(at[c], o) => Ended(k, o)
  BY <1>1 DEF Ended, Ends3, Object
<1>4. Ends(c, "deadline", k)
  BY DEF DeadlineExpires
<1> HIDE DEF k
<1> QED
  BY <1>2, <1>3, <1>4, EndsKeeps DEF Ends3

-----------------------------------------------------------------------------
(* Handlers, but for those of a search.                                    *)

\* The handler whose turn it is is that of an operation which has ended.
LEMMA TurnEnded ==
  ASSUME HttpIInv, NEW c \in Connection, NEW operation \in Ends3,
         Turn(c, operation)
  PROVE  Ended(at[c], operation) /\ thread = NoConnection
<1> USE DEF HttpIInv, Turn
<1>1. EntryOK(<<c, operation>>)
  BY QueueTail
<1> QED
  BY <1>1, HttpAssumption DEF EntryOK

LEMMA RunKeeps ==
  ASSUME HttpIInv, NEW c \in Connection, NEW operation \in Ends3,
         NEW more \in Seq(Entries), OnceIn(more), Run(c, operation, more),
         NEW k \in Object, ObjectOK(k), SameReply(at[c], k),
         at' = [at EXCEPT ![c] = k], UNCHANGED <<dbVars, searchVars, loopVars>>,
         \A o \in Ends3 \ {operation} : Ended(at[c], o) => Ended(k, o),
         \A i \in DOMAIN more : \E o \in Ends3 :
           more[i] = <<c, o>> /\ ~Ended(at[c], o) /\ Ended(k, o)
  PROVE  HttpIInv'
<1>1. thread' = NoConnection /\ thread' # c /\ thread # c
  BY HttpAssumption DEF Run, Turn, loopVars
<1>2. queue' \in Seq(Entries) /\ QueueOK' /\ OnceIn(queue)'
  BY <1>1, RunKeepsQueue
<1> QED
  BY <1>1, <1>2, FlagsKeep, ConnectionStep

LEMMA HandleReadErrorKeeps ==
  ASSUME HttpIInv, NEW c \in Connection, HandleReadError(c) PROVE HttpIInv'
<1> DEFINE j == AfterRead(c)
           k == Left(j)
<1>1. at[c] \in Object /\ ObjectOK(at[c]) /\ at[c].reading = "error"
  BY ObjectAt DEF HandleReadError
<1>2. /\ j \in Object /\ ObjectOK(j) /\ j.writing = at[c].writing
      /\ j.timer = at[c].timer
      /\ j.response = at[c].response /\ j.request = at[c].request
  BY <1>1 DEF AfterRead, Object, ObjectOK
<1>3. /\ k \in Object /\ ObjectOK(k) /\ SameReply(j, k)
      /\ k.writing = j.writing /\ k.timer = j.timer
  <2> HIDE DEF j
  <2> QED
    BY <1>2, LeftKeeps
<1>4. SameReply(at[c], k)
  BY <1>2, <1>3 DEF SameReply
<1>5. \A o \in Ends3 \ {"read"} : Ended(at[c], o) => Ended(k, o)
  BY <1>2, <1>3 DEF Ended
<1>6. /\ Run(c, "read", <<>>) /\ at' = [at EXCEPT ![c] = k]
      /\ UNCHANGED <<dbVars, searchVars, loopVars>>
  BY DEF HandleReadError
<1> HIDE DEF k
<1> QED
  BY <1>3, <1>4, <1>5, <1>6, NoEntry, RunKeeps DEF Ends3

\* write_response takes the place of the read, and fails at once when the
\* socket is closed.
LEMMA ResponseObject ==
  ASSUME HttpIInv, NEW c \in Connection, at[c].reading = "ok",
         NEW r \in [status : {"none", "ok", "not_found", "bad_request"},
                    body : {"none", "form", "text"},
                    hrefs : Seq([scheme : {"https"}, url : Url])],
         write_response(c, AfterRead(c), r)
  PROVE  \E k \in Object :
           /\ ObjectOK(k) /\ at' = [at EXCEPT ![c] = k]
           /\ k.response = r /\ k.request = at[c].request
           /\ k.reading = "none" /\ at[c].writing = "none"
           /\ \A o \in {"write", "deadline"} : Ended(at[c], o) => Ended(k, o)
           /\ at[c].socket # "open" => Ended(k, "write")
<1> DEFINE w == IF at[c].socket = "open" THEN "pending" ELSE "error"
           k == [at[c] EXCEPT !.reading = "none", !.response = r, !.writing = w]
<1>1. at[c] \in Object /\ ObjectOK(at[c])
  BY ObjectAt
<1>2. [AfterRead(c) EXCEPT !.response = r,
         !.writing = IF AfterRead(c).socket = "open" THEN "pending"
                     ELSE "error"] = k
  BY <1>1 DEF AfterRead, Object
<1>3. at' = [at EXCEPT ![c] = k]
  BY <1>2 DEF write_response
<1>4. w \in {"pending", "error"}
  OBVIOUS
<1>5. k \in Object
  BY <1>1, <1>4 DEF Object
<1>6. /\ k.response = r /\ k.request = at[c].request /\ k.reading = "none"
      /\ k.writing = w /\ k.timer = at[c].timer /\ k.socket = at[c].socket
      /\ k.client = at[c].client /\ k.received = at[c].received
  BY <1>1 DEF Object
<1>7. at[c].request # NoRequest /\ at[c].writing = "none"
  BY <1>1 DEF ObjectOK, Readable
<1> HIDE DEF k
<1>8. ObjectOK(k)
  BY <1>1, <1>6, <1>7 DEF ObjectOK
<1> QED
  BY <1>3, <1>5, <1>6, <1>7, <1>8 DEF Ended

\* The handlers of a write on a closed socket.
LEMMA ErrorEntries ==
  ASSUME NEW c \in Connection
  PROVE  /\ ErrorOfWrite(c) \in Seq(Entries) /\ OnceIn(ErrorOfWrite(c))
         /\ \A i \in DOMAIN ErrorOfWrite(c) :
              ErrorOfWrite(c)[i] = <<c, "write">> /\ at[c].socket # "open"
<1>1. <<c, "write">> \in Entries
  BY DEF Entries, Operation
<1> QED
  BY <1>1, OneEntry, NoEntry DEF ErrorOfWrite

LEMMA ProcessRequestKeeps ==
  ASSUME HttpIInv, NEW c \in Connection, ProcessRequest(c) PROVE HttpIInv'
<1> USE DEF ProcessRequest
<1> DEFINE r == IF at[c].request.method = "get"
                THEN create_response(at[c].request)
                ELSE Response("bad_request", "text", <<>>)
<1>1. /\ r \in [status : {"none", "ok", "not_found", "bad_request"},
                body : {"none", "form", "text"},
                hrefs : Seq([scheme : {"https"}, url : Url])]
      /\ r.hrefs = <<>>
  BY DEF create_response, Response
<1>2. write_response(c, AfterRead(c), r) /\ at[c].reading = "ok"
  OBVIOUS
<1> HIDE DEF r
<1>3. PICK k \in Object :
        /\ ObjectOK(k) /\ at' = [at EXCEPT ![c] = k]
        /\ k.response = r /\ at[c].writing = "none"
        /\ \A o \in {"write", "deadline"} : Ended(at[c], o) => Ended(k, o)
        /\ at[c].socket # "open" => Ended(k, "write")
  BY <1>1, <1>2, ResponseObject
<1>4. SameReply(at[c], k)
  BY <1>1, <1>3 DEF SameReply
<1>5. \A o \in Ends3 \ {"read"} : Ended(at[c], o) => Ended(k, o)
  BY <1>3 DEF Ends3
<1>6. \A i \in DOMAIN ErrorOfWrite(c) : \E o \in Ends3 :
        ErrorOfWrite(c)[i] = <<c, o>> /\ ~Ended(at[c], o) /\ Ended(k, o)
  BY <1>3, ErrorEntries DEF Ends3, Ended
<1> QED
  BY <1>3, <1>4, <1>5, <1>6, ErrorEntries, RunKeeps DEF Ends3

LEMMA HandleWriteKeeps ==
  ASSUME HttpIInv, NEW c \in Connection, HandleWrite(c) PROVE HttpIInv'
<1> DEFINE inTime == at[c].timer = "set"
           t == IF inTime THEN "cancelled" ELSE at[c].timer
           j == [at[c] EXCEPT !.writing = "none", !.timer = t]
           k == Left(j)
           more == IF inTime THEN << <<c, "deadline">> >> ELSE <<>>
<1>1. /\ at[c] \in Object /\ ObjectOK(at[c])
      /\ at[c].writing \in {"ok", "error"}
  BY ObjectAt, TurnEnded DEF HandleWrite, Run, Ended, Ends3
<1>2. /\ j \in Object /\ ObjectOK(j) /\ j.reading = at[c].reading /\ j.timer = t
      /\ j.response = at[c].response /\ j.request = at[c].request
  BY <1>1 DEF Object, ObjectOK
<1>3. /\ k \in Object /\ ObjectOK(k) /\ SameReply(j, k)
      /\ k.reading = j.reading /\ k.timer = j.timer
  <2> HIDE DEF j
  <2> QED
    BY <1>2, LeftKeeps
<1>4. SameReply(at[c], k)
  BY <1>2, <1>3 DEF SameReply
<1>5. \A o \in Ends3 \ {"write"} : Ended(at[c], o) => Ended(k, o)
  BY <1>2, <1>3 DEF Ended, Ends3
<1>6. /\ Run(c, "write", more) /\ at' = [at EXCEPT ![c] = k]
      /\ UNCHANGED <<dbVars, searchVars, loopVars>>
  BY DEF HandleWrite
<1>7. /\ more \in Seq(Entries) /\ OnceIn(more)
      /\ \A i \in DOMAIN more : more[i] = <<c, "deadline">> /\ inTime
  BY OneEntry, NoEntry DEF Entries, Operation
<1>8. inTime => ~Ended(at[c], "deadline") /\ Ended(k, "deadline")
  BY <1>2, <1>3 DEF Ended
<1> HIDE DEF k, more, inTime
<1>9. \A i \in DOMAIN more : \E o \in Ends3 :
        more[i] = <<c, o>> /\ ~Ended(at[c], o) /\ Ended(k, o)
  BY <1>7, <1>8 DEF Ends3
<1> QED
  BY <1>3, <1>4, <1>5, <1>6, <1>7, <1>9, RunKeeps DEF Ends3

\* Closing the socket makes errors of the operations that are pending.
LEMMA AbortedEntries ==
  ASSUME NEW c \in Connection
  PROVE  /\ AbortedHandlers(c) \in Seq(Entries) /\ OnceIn(AbortedHandlers(c))
         /\ \A i \in DOMAIN AbortedHandlers(c) :
              \/ AbortedHandlers(c)[i] = <<c, "read">> /\ at[c].reading = "pending"
              \/ AbortedHandlers(c)[i] = <<c, "write">> /\ at[c].writing = "pending"
<1> DEFINE r == <<c, "read">>
           w == <<c, "write">>
<1>1. r \in Entries /\ w \in Entries /\ r # w
  BY DEF Entries, Operation
<1>2. AbortedHandlers(c) =
        (IF at[c].reading = "pending" THEN << r >> ELSE <<>>) \o
        (IF at[c].writing = "pending" THEN << w >> ELSE <<>>)
  BY DEF AbortedHandlers
<1> HIDE DEF r, w
<1>3. CASE at[c].reading = "pending" /\ at[c].writing = "pending"
  <2> DEFINE s == << r >> \o << w >>
  <2>1. AbortedHandlers(c) = s
    BY <1>2, <1>3
  <2>2. << r >> \in Seq(Entries) /\ << w >> \in Seq(Entries)
    BY <1>1, OneEntry
  <2>3. s \in Seq(Entries) /\ DOMAIN s = 1 .. 2 /\ s[1] = r /\ s[2] = w
    BY <2>2
  <2> HIDE DEF s
  <2>4. \A i \in DOMAIN s : i = 1 \/ i = 2
    BY <2>3
  <2>5. OnceIn(s)
    BY <1>1, <2>3, <2>4 DEF OnceIn
  <2> QED
    BY <1>3, <2>1, <2>3, <2>4, <2>5 DEF r, w
<1>4. CASE at[c].reading = "pending" /\ at[c].writing # "pending"
  <2>1. AbortedHandlers(c) = << r >>
    BY <1>1, <1>2, <1>4
  <2> QED
    BY <1>1, <1>4, <2>1, OneEntry DEF r
<1>5. CASE at[c].reading # "pending" /\ at[c].writing = "pending"
  <2>1. AbortedHandlers(c) = << w >>
    BY <1>1, <1>2, <1>5
  <2> QED
    BY <1>1, <1>5, <2>1, OneEntry DEF w
<1>6. CASE at[c].reading # "pending" /\ at[c].writing # "pending"
  <2>1. AbortedHandlers(c) = <<>>
    BY <1>1, <1>2, <1>6
  <2> QED
    BY <2>1, NoEntry
<1> QED
  BY <1>3, <1>4, <1>5, <1>6

Closed(k, x, y) ==
  [k EXCEPT !.timer = "fired", !.socket = "closed",
            !.reading = x, !.writing = y]

LEMMA ClosedObject ==
  ASSUME NEW k \in Object,
         NEW x \in {"none", "pending", "ok", "error"},
         NEW y \in {"none", "pending", "ok", "error"}
  PROVE  LET j == Closed(k, x, y) IN
         /\ j \in Object
         /\ j.reading = x /\ j.writing = y /\ j.timer = "fired"
         /\ j.socket = "closed" /\ j.received = k.received
         /\ j.client = k.client
         /\ j.response = k.response /\ j.request = k.request
<1>1. PICK p : p = [k EXCEPT !.timer = "fired", !.socket = "closed"]
  OBVIOUS
<1>2. /\ p \in Object /\ p.timer = "fired" /\ p.socket = "closed"
      /\ p.received = k.received /\ p.client = k.client
      /\ p.response = k.response /\ p.request = k.request
  BY <1>1 DEF Object
<1>3. PICK j : j = [p EXCEPT !.reading = x, !.writing = y]
  OBVIOUS
<1>4. /\ j \in Object /\ j.reading = x /\ j.writing = y
      /\ j.timer = p.timer /\ j.socket = p.socket
      /\ j.received = p.received /\ j.client = p.client
      /\ j.response = p.response /\ j.request = p.request
  BY <1>2, <1>3 DEF Object
<1>5. Closed(k, x, y) = j
  BY <1>1, <1>3 DEF Object, Closed
<1> QED
  BY <1>2, <1>4, <1>5

LEMMA HandleDeadlineKeeps ==
  ASSUME HttpIInv, NEW c \in Connection, HandleDeadline(c) PROVE HttpIInv'
<1>1. at[c] \in Object /\ ObjectOK(at[c])
  BY ObjectAt
<1>2. UNCHANGED <<dbVars, searchVars, loopVars>>
  BY DEF HandleDeadline
<1>3. CASE at[c].timer = "expired"
  <2>1. PICK x \in {"none", "ok", "error"}, y \in {"none", "ok", "error"} :
        /\ x = Aborted(at[c].reading) /\ y = Aborted(at[c].writing)
        /\ at[c].reading = "pending" => x = "error"
        /\ at[c].writing = "pending" => y = "error"
        /\ at[c].reading # "pending" => x = at[c].reading
        /\ at[c].writing # "pending" => y = at[c].writing
    BY <1>1 DEF Aborted, Object
  <2> DEFINE j == Closed(at[c], x, y)
  <2>2. /\ j \in Object
        /\ j.reading = x /\ j.writing = y /\ j.timer = "fired"
        /\ j.socket = "closed" /\ j.received = at[c].received
        /\ j.client = at[c].client
        /\ j.response = at[c].response /\ j.request = at[c].request
    <3>1. /\ x \in {"none", "pending", "ok", "error"}
          /\ y \in {"none", "pending", "ok", "error"}
      BY <2>1
    <3> QED
      BY <1>1, <3>1, ClosedObject
  <2> DEFINE k == Left(j)
  <2>3. /\ Run(c, "deadline", AbortedHandlers(c))
        /\ at' = [at EXCEPT ![c] = k]
    BY <1>3, <2>1 DEF HandleDeadline, Closed
  <2> HIDE DEF j
  <2>4. ObjectOK(j)
    BY <1>1, <2>1, <2>2 DEF ObjectOK
  <2>5. /\ k \in Object /\ ObjectOK(k) /\ SameReply(j, k)
        /\ k.reading = x /\ k.writing = y
    BY <2>2, <2>4, LeftKeeps
  <2> HIDE DEF k
  <2>6. SameReply(at[c], k)
    BY <2>2, <2>5 DEF SameReply
  <2>7. \A o \in Ends3 \ {"deadline"} : Ended(at[c], o) => Ended(k, o)
    BY <2>1, <2>5 DEF Ended
  <2>8. \A i \in DOMAIN AbortedHandlers(c) : \E o \in Ends3 :
          AbortedHandlers(c)[i] = <<c, o>> /\ ~Ended(at[c], o) /\ Ended(k, o)
    BY <2>1, <2>5, AbortedEntries DEF Ended, Ends3
  <2> QED
    BY <1>2, <2>3, <2>5, <2>6, <2>7, <2>8, AbortedEntries, RunKeeps DEF Ends3
<1>4. CASE at[c].timer = "cancelled"
  <2> DEFINE j == [at[c] EXCEPT !.timer = "off"]
             k == Left(j)
  <2>1. ~Outstanding(j) /\ j \in Object
    BY <1>1, <1>4 DEF Object, ObjectOK, Outstanding
  <2>2. k = [at[c] EXCEPT !.timer = "off", !.socket = "closed",
                          !.request = NoRequest, !.response = NoResponse]
    BY <2>1 DEF Left
  <2>3. NoResponse \in [status : {"none", "ok", "not_found", "bad_request"},
               body : {"none", "form", "text"},
               hrefs : Seq([scheme : {"https"}, url : Url])]
        /\ NoResponse.hrefs = <<>>
    BY DEF NoResponse, Response
  <2>4. /\ k \in Object /\ ObjectOK(k) /\ SameReply(at[c], k)
        /\ k.reading = at[c].reading /\ k.writing = at[c].writing
    BY <1>1, <1>4, <2>2, <2>3 DEF Object, ObjectOK, SameReply
  <2>5. Run(c, "deadline", <<>>) /\ at' = [at EXCEPT ![c] = k]
    BY <1>4 DEF HandleDeadline
  <2>6. \A o \in Ends3 \ {"deadline"} : Ended(at[c], o) => Ended(k, o)
    BY <2>4 DEF Ended
  <2> HIDE DEF k
  <2> QED
    BY <1>2, <2>4, <2>5, <2>6, NoEntry, RunKeeps DEF Ends3
<1> QED
  BY <1>3, <1>4 DEF HandleDeadline

-----------------------------------------------------------------------------
(* The acceptor.                                                           *)

\* Only the flags and the handlers of the acceptor change.
LEMMA LoopStep ==
  ASSUME HttpIInv, UNCHANGED <<dbVars, searchVars, thread, at>>,
         running' \in BOOLEAN, accepting' \in BOOLEAN, caller' \in BOOLEAN,
         NEW rest \in Seq(Entries), OnceIn(rest),
         \A i \in DOMAIN rest : EntryOK(rest[i]),
         NEW more \in {<<>>, AcceptEnds}, queue' = rest \o more
  PROVE  HttpIInv'
<1> USE DEF HttpIInv
<1>1. /\ more \in Seq(Entries) /\ OnceIn(more)
      /\ \A i \in DOMAIN more : more[i] = <<NoConnection, "accept">>
  <2> DEFINE x == <<NoConnection, "accept">>
  <2>1. x \in Entries /\ AcceptEnds = << x >>
    BY DEF Entries, Operation, AcceptEnds
  <2> HIDE DEF x
  <2>2. CASE more = AcceptEnds
    <3>1. /\ more \in Seq(Entries) /\ OnceIn(more)
          /\ \A i \in DOMAIN more : more[i] = x
      BY <2>1, <2>2, OneEntry
    <3> QED
      BY <3>1 DEF x
  <2>3. CASE more = <<>>
    BY <2>3, NoEntry
  <2> QED
    BY <2>2, <2>3
<1>2. \A i \in DOMAIN more : EntryOK(more[i])'
  BY <1>1 DEF EntryOK
<1>3. \A i \in DOMAIN rest : EntryOK(rest[i])'
  BY DEF EntryOK, Ended
<1>4. \A i \in DOMAIN rest : \A j \in DOMAIN more :
        rest[i] = more[j] => rest[i][2] = "accept"
  BY <1>1
<1>5. queue' \in Seq(Entries) /\ QueueOK' /\ OnceIn(queue)'
  BY <1>1, <1>2, <1>3, <1>4, QueueAppends
<1>6. SearchIInv' /\ RowsGrow
  BY SearchUnchanged
<1>7. HttpTypeOK'
  BY <1>5, <1>6 DEF HttpTypeOK, SearchIInv, Constrained, Entries, searchVars
<1>8. Objects'
  BY <1>6, OtherObjects DEF Objects
<1>9. ThreadOK'
  BY DEF ThreadOK, searchVars
<1> QED
  BY <1>5, <1>6, <1>7, <1>8, <1>9

LEMMA CallKeeps ==
  ASSUME HttpIInv, Call \/ StartServer PROVE HttpIInv'
<1> DEFINE more == IF Call /\ accepting THEN AcceptEnds ELSE <<>>
<1>1. queue \in Seq(Entries) /\ OnceIn(queue)
      /\ \A i \in DOMAIN queue : EntryOK(queue[i])
  BY DEF HttpIInv, HttpTypeOK, Entries, QueueOK
<1>2. /\ running' \in BOOLEAN /\ accepting' \in BOOLEAN /\ caller' \in BOOLEAN
      /\ UNCHANGED <<dbVars, searchVars, thread, at>>
  BY DEF Call, StartServer, HttpIInv, HttpTypeOK
<1>3. queue \o <<>> = queue
  BY <1>1
<1>4. CASE queue' = queue \o AcceptEnds
  BY <1>1, <1>2, <1>4, LoopStep
<1>5. CASE queue' = queue
  BY <1>1, <1>2, <1>3, <1>5, LoopStep
<1> QED
  BY <1>4, <1>5 DEF Call, StartServer

LEMMA AcceptFailsKeeps ==
  ASSUME HttpIInv, AcceptFails PROVE HttpIInv'
<1> USE DEF AcceptFails, Run, Turn
<1>1. /\ Tail(queue) \in Seq(Entries) /\ OnceIn(Tail(queue))
      /\ \A i \in DOMAIN Tail(queue) : EntryOK(Tail(queue)[i])
  BY QueueTail DEF HttpIInv
<1>2. /\ running' \in BOOLEAN /\ accepting' \in BOOLEAN /\ caller' \in BOOLEAN
      /\ queue' = Tail(queue) \o AcceptEnds
      /\ UNCHANGED <<dbVars, searchVars, thread, at>>
  BY DEF HttpIInv, HttpTypeOK
<1> QED
  BY <1>1, <1>2, LoopStep

LEMMA AcceptKeeps ==
  ASSUME HttpIInv, NEW c \in Connection, Accept(c) PROVE HttpIInv'
<1> DEFINE k == Start([NoObject EXCEPT !.client = "here", !.socket = "open"])
           rest == Tail(queue)
<1>1. NoResponse \in [status : {"none", "ok", "not_found", "bad_request"},
               body : {"none", "form", "text"},
               hrefs : Seq([scheme : {"https"}, url : Url])]
      /\ NoResponse.hrefs = <<>>
  BY DEF NoResponse, Response
<1>2. k \in Object /\ ObjectOK(k) /\ SameReply(at[c], k)
  BY <1>1 DEF Start, NoObject, Object, ObjectOK, SameReply
<1>3. /\ rest \in Seq(Entries) /\ OnceIn(rest)
      /\ \A i \in DOMAIN rest : EntryOK(rest[i])
  BY QueueTail DEF Accept, Run, Turn, HttpIInv
<1>4. /\ thread = NoConnection /\ ~Outstanding(at[c])
      /\ queue' = rest \o <<>> /\ at' = [at EXCEPT ![c] = k]
      /\ UNCHANGED <<dbVars, searchVars, thread>>
      /\ running' \in BOOLEAN /\ accepting' \in BOOLEAN /\ caller' \in BOOLEAN
  BY DEF Accept, Run, Turn, Referenced, HttpIInv, HttpTypeOK
<1> HIDE DEF k, rest
<1>5. \A i \in DOMAIN rest : \A o \in Ends3 : rest[i] # <<c, o>>
  BY <1>3, <1>4, HttpAssumption DEF EntryOK, Ended, Outstanding, Ends3
<1>6. queue' \in Seq(Entries) /\ QueueOK' /\ OnceIn(queue)'
  <2>1. \A i \in DOMAIN rest :
          /\ EntryOK(rest[i])
          /\ \A o \in Ends3 : rest[i] = <<c, o>> =>
               Ended(k, o) /\ (o = "read" => thread' # c)
    BY <1>3, <1>5
  <2>2. thread' \in {thread, NoConnection, c} /\ HttpTypeOK
    BY <1>4 DEF HttpIInv
  <2> DEFINE none == <<>>
  <2>3. /\ none \in Seq(Entries) /\ OnceIn(none) /\ queue' = rest \o none
        /\ \A i \in DOMAIN none : FALSE
    BY <1>4, NoEntry
  <2> HIDE DEF none
  <2> QED
    BY <1>3, <1>4, <2>1, <2>2, <2>3, ConnectionQueue
<1> QED
  BY <1>2, <1>4, <1>6, HttpAssumption, ConnectionStep

-----------------------------------------------------------------------------
(* The search, and the database.                                           *)

\* Steps that no connection takes part in.
LEMMA DatabaseStep ==
  ASSUME HttpIInv, SearchIInv', RowsGrow, UNCHANGED <<httpVars, query>>,
         stage' # "idle" => thread # NoConnection
  PROVE  HttpIInv'
<1> USE DEF HttpIInv, httpVars, loopVars
<1>1. Objects'
  BY OtherObjects DEF Objects
<1>2. QueueOK' /\ OnceIn(queue)'
  BY DEF QueueOK, OnceIn, EntryOK, Ended
<1>3. HttpTypeOK'
  BY DEF HttpTypeOK, SearchIInv, Constrained
<1>4. ThreadOK'
  BY DEF ThreadOK
<1> QED
  BY <1>1, <1>2, <1>3, <1>4

LEMMA CrawlerCommitsKeeps ==
  ASSUME HttpIInv, CrawlerCommits PROVE HttpIInv'
<1> USE DEF HttpIInv
<1>1. PICK r \in Rows :
        /\ ~Stored(r.word, r.url)
        /\ words' = words \cup {r.word} /\ urls' = urls \cup {r.url}
        /\ frequencies' = frequencies \cup {r}
  BY DEF CrawlerCommits
<1>2. r \in Row /\ UNCHANGED <<conn, held, searchVars, httpVars>>
  BY HttpAssumption DEF CrawlerCommits
<1>3. RowsGrow
  BY <1>1, <1>2 DEF RowsGrow
<1>4. Constrained'
  <2> USE DEF SearchIInv, Constrained
  <2>1. DbTypeOK'
    BY <1>1, <1>2 DEF DbTypeOK, Row
  <2>2. IsFiniteSet(frequencies')
    BY <1>1, FS_AddElement
  <2>3. UniqueRows' /\ RowsHaveKeys'
    BY <1>1 DEF UniqueRows, RowsHaveKeys, Stored
  <2> QED
    BY <2>1, <2>2, <2>3
<1>5. conn'[Server] = "open" => conn[Server] = "open" /\ ServerHolds'
  BY <1>2 DEF SearchIInv, ServerHolds
<1>6. SearchIInv'
  BY <1>2, <1>3, <1>4, <1>5, OthersKeepSearch
<1> QED
  BY <1>2, <1>3, <1>6, DatabaseStep DEF HttpTypeOK, searchVars

LEMMA DbConnectionLostKeeps ==
  ASSUME HttpIInv, DbConnectionLost PROVE HttpIInv'
<1> USE DEF HttpIInv
<1>1. ConnectionLost(Server) /\ UNCHANGED <<searchVars, httpVars>>
  BY DEF DbConnectionLost
<1>2. RowsGrow
  BY <1>1 DEF RowsGrow, ConnectionLost, tables
<1>3. Constrained' /\ conn'[Server] = "broken"
  BY <1>1, SearcherAssumption
     DEF SearchIInv, Constrained, DbTypeOK, UniqueRows, RowsHaveKeys, ServerHolds,
         ConnectionLost, tables
<1>4. SearchIInv'
  BY <1>1, <1>2, <1>3, OthersKeepSearch
<1> QED
  BY <1>1, <1>2, <1>4, DatabaseStep DEF HttpTypeOK, searchVars

LEMMA RunSearchKeeps ==
  ASSUME HttpIInv, NEW c \in Connection, RunSearch(c) PROVE HttpIInv'
<1>1. SearchIInv'
  BY SearchStepKeeps DEF RunSearch, HttpIInv
<1>2. UNCHANGED query /\ RowsGrow
  BY DEF RunSearch, SearchStep, OpenSearch, GetWordsIds, GetUrlsIdsByWords,
         GetSortedUrlsByWords, StatementThrows, ConstructorThrows,
         CatchException, RowsGrow, tables, dbVars
<1> QED
  BY <1>1, <1>2, HttpAssumption, DatabaseStep DEF RunSearch

LEMMA ProcessPostKeeps ==
  ASSUME HttpIInv, NEW c \in Connection, ProcessPost(c) PROVE HttpIInv'
<1> USE DEF HttpIInv
<1>1. PICK q \in Queries :
        /\ HasWords(at[c].request) => q = WordsOf(at[c].request)
        /\ ProcessSearchRequest(q)
  BY DEF ProcessPost
<1>2. SearchIInv' /\ UNCHANGED tables /\ query' = q
  BY <1>1, ProcessSearchRequestKeeps DEF ProcessSearchRequest, dbVars, tables
<1>3. /\ Run(c, "read", <<>>) /\ thread' = c
      /\ at[c].reading = "ok" /\ at[c].request.method = "post"
      /\ UNCHANGED <<running, accepting, caller, at>>
  BY DEF ProcessPost, PostRead
<1>4. at' = [at EXCEPT ![c] = at[c]]
  BY <1>3 DEF HttpTypeOK
<1>5. queue' \in Seq(Entries) /\ QueueOK' /\ OnceIn(queue)'
  <2> DEFINE none == <<>>
  <2>1. /\ none \in Seq(Entries) /\ OnceIn(none) /\ Run(c, "read", none)
        /\ \A i \in DOMAIN none : FALSE
    BY <1>3, NoEntry
  <2> HIDE DEF none
  <2> QED
    BY <1>3, <1>4, <2>1, RunKeepsQueue DEF Ends3
<1>6. RowsGrow
  BY <1>2 DEF RowsGrow, tables
<1>7. Objects'
  BY <1>3, <1>6, OtherObjects DEF Objects
<1>8. HttpTypeOK'
  BY <1>2, <1>3, <1>5, HttpAssumption
     DEF HttpTypeOK, SearchIInv, Constrained, Entries
<1>9. ThreadOK'
  BY <1>1, <1>2, <1>3 DEF ThreadOK
<1> QED
  BY <1>2, <1>5, <1>7, <1>8, <1>9

LEMMA CrashKeeps ==
  ASSUME HttpIInv, NEW c \in Connection, Crash(c) PROVE HttpIInv'
<1> USE DEF HttpIInv
<1> DEFINE lost == [NoObject EXCEPT !.timer = "lost"]
<1>1. /\ thread' = NoConnection /\ queue' = <<>> /\ RestartServer
      /\ running' = FALSE /\ accepting' = FALSE /\ caller' = FALSE
      /\ at' = [x \in Connection |-> IF Referenced(x) THEN lost ELSE at[x]]
  BY DEF Crash, Turn
<1>2. SearchIInv' /\ UNCHANGED tables /\ stage' = "idle"
  BY <1>1, RestartServerKeeps DEF RestartServer, ForgetSearch, ExitProcess
<1>3. RowsGrow
  BY <1>2 DEF RowsGrow, tables
<1>4. NoResponse \in [status : {"none", "ok", "not_found", "bad_request"},
               body : {"none", "form", "text"},
               hrefs : Seq([scheme : {"https"}, url : Url])]
      /\ NoResponse.hrefs = <<>>
  BY DEF NoResponse, Response
<1>5. lost \in Object /\ ObjectOK(lost) /\ lost.response.hrefs = <<>>
  BY <1>4 DEF NoObject, Object, ObjectOK
<1> HIDE DEF lost
<1>6. ASSUME NEW x \in Connection
      PROVE  at'[x] \in Object /\ (ObjectOK(at[x]) /\ RepliesHold(at[x]))'
  <2>1. CASE Referenced(x)
    BY <1>1, <1>5, <2>1 DEF ObjectOK, RepliesHold
  <2>2. CASE ~Referenced(x)
    BY <1>1, <1>3, <2>2, OtherObjects DEF Objects, HttpTypeOK
  <2> QED
    BY <2>1, <2>2
<1>7. at' \in [Connection -> Object] /\ Objects'
  BY <1>1, <1>6 DEF Objects
<1>8. queue' \in Seq(Entries) /\ QueueOK' /\ OnceIn(queue)'
  BY <1>1, NoEntry DEF QueueOK, OnceIn
<1>9. HttpTypeOK' /\ ThreadOK'
  BY <1>1, <1>2, <1>7, <1>8
     DEF HttpTypeOK, ThreadOK, SearchIInv, Constrained, Entries
<1> QED
  BY <1>2, <1>7, <1>8, <1>9

\* The page of results names the resources of the reply.
LEMMA ListPageOfReply ==
  ASSUME SearchIInv
  PROVE  /\ ListPage(reply) \in
              [status : {"none", "ok", "not_found", "bad_request"},
               body : {"none", "form", "text"},
               hrefs : Seq([scheme : {"https"}, url : Url])]
         /\ \A i \in DOMAIN ListPage(reply).hrefs :
              Matches(ListPage(reply).hrefs[i].url, query)
<1>1. reply \in Seq(Url)
  BY DEF SearchIInv, SearchTypeOK
<1>2. CASE reply = <<>>
  BY <1>2 DEF ListPage, Response
<1>3. CASE reply # <<>>
  <2> DEFINE h == getHrefListStringFromVector(reply)
  <2>1. /\ h \in Seq([scheme : {"https"}, url : Url]) /\ DOMAIN h = DOMAIN reply
        /\ \A i \in DOMAIN reply : h[i].url = reply[i]
    <3> DEFINE S == [scheme : {"https"}, url : Url]
               n == Len(reply)
    <3>1. n \in Nat /\ DOMAIN reply = 1 .. n /\ \A i \in 1 .. n : reply[i] \in Url
      BY <1>1
    <3>2. h = [i \in 1 .. n |-> [scheme |-> "https", url |-> reply[i]]]
      BY <3>1 DEF getHrefListStringFromVector
    <3>3. \A i \in 1 .. n : [scheme |-> "https", url |-> reply[i]] \in S
      BY <3>1
    <3> HIDE DEF n, h
    <3>4. h \in [1 .. n -> S] /\ \A i \in 1 .. n : h[i].url = reply[i]
      BY <3>2, <3>3
    <3> HIDE DEF S
    <3>5. h \in Seq(S) /\ DOMAIN h = 1 .. n
      BY <3>1, <3>4
    <3> QED
      BY <3>1, <3>4, <3>5 DEF S
  <2>2. ListPage(reply) = Response("ok", "form", h)
    BY <1>3 DEF ListPage
  <2> HIDE DEF h
  <2> QED
    BY <2>1, <2>2 DEF Response, SearchIInv, SearchSound
<1> QED
  BY <1>2, <1>3

LEMMA FinishPostKeeps ==
  ASSUME HttpIInv, NEW c \in Connection, FinishPost(c) PROVE HttpIInv'
<1> USE DEF HttpIInv
<1> DEFINE r == ListPage(reply)
           more == ErrorOfWrite(c)
<1>1. /\ at[c].reading = "ok" /\ at[c].request.method = "post"
      /\ HasWords(at[c].request) => query = WordsOf(at[c].request)
  BY HttpAssumption DEF FinishPost, ThreadOK
<1>2. /\ thread = c /\ thread' = NoConnection /\ queue' = queue \o more
      /\ write_response(c, AfterRead(c), r) /\ ForgetSearch
      /\ UNCHANGED <<dbVars, running, accepting, caller>>
  BY DEF FinishPost
<1>3. PICK k \in Object :
        /\ ObjectOK(k) /\ at' = [at EXCEPT ![c] = k]
        /\ k.response = r /\ k.request = at[c].request
        /\ k.reading = "none" /\ at[c].writing = "none"
        /\ \A o \in {"write", "deadline"} : Ended(at[c], o) => Ended(k, o)
        /\ at[c].socket # "open" => Ended(k, "write")
  <2>1. r \in [status : {"none", "ok", "not_found", "bad_request"},
              body : {"none", "form", "text"},
              hrefs : Seq([scheme : {"https"}, url : Url])]
    BY ListPageOfReply
  <2> HIDE DEF r
  <2> QED
    BY <1>1, <1>2, <2>1, ResponseObject
<1>4. SearchIInv'
  <2>1. Constrained' /\ ServerHolds'
    BY <1>2 DEF SearchIInv, Constrained, DbTypeOK, UniqueRows, RowsHaveKeys,
                ServerHolds, dbVars
  <2>2. BeforeHold' /\ before' \subseteq Url /\ query' \in Seq(Word)
    BY <1>2 DEF ForgetSearch, BeforeHold
  <2>3. /\ ids' = <<>> /\ accepted' = {} /\ reply' = <<>> /\ query' = <<>>
        /\ stage' = "idle" /\ caught' = FALSE
    BY <1>2 DEF ForgetSearch
  <2> QED
    BY <2>1, <2>2, <2>3, IdleSearch
<1>5. RowsGrow
  BY <1>2 DEF RowsGrow, dbVars
<1>6. RepliesHold(k)
  BY <1>1, <1>3, ListPageOfReply DEF RepliesHold
<1>7. at' \in [Connection -> Object] /\ Objects'
  BY <1>3, <1>5, <1>6, RepliesStay, ObjectsKeep
<1>8. queue' \in Seq(Entries) /\ QueueOK' /\ OnceIn(queue)'
  <2>1. queue \in Seq(Entries)
    BY DEF HttpTypeOK, Entries
  <2>2. \A i \in DOMAIN queue :
          /\ EntryOK(queue[i])
          /\ \A o \in Ends3 : queue[i] = <<c, o>> =>
               Ended(k, o) /\ (o = "read" => thread' # c)
    BY <1>2, <1>3, HttpAssumption DEF QueueOK, EntryOK, Ends3
  <2>3. \A i \in DOMAIN more : \E o \in Ends3 :
          /\ more[i] = <<c, o>> /\ ~Ended(at[c], o) /\ Ended(k, o)
          /\ o = "read" => thread' # c
    BY <1>3, ErrorEntries DEF Ends3, Ended
  <2>4. more \in Seq(Entries) /\ OnceIn(more)
    BY ErrorEntries
  <2> HIDE DEF more
  <2> QED
    BY <1>2, <1>3, <2>1, <2>2, <2>3, <2>4, ConnectionQueue
<1>9. HttpTypeOK' /\ ThreadOK'
  BY <1>2, <1>4, <1>7, <1>8
     DEF HttpTypeOK, ThreadOK, SearchIInv, Constrained, Entries, ForgetSearch
<1> QED
  BY <1>4, <1>7, <1>8, <1>9

-----------------------------------------------------------------------------
LEMMA HttpInitially == Init => HttpIInv
<1> SUFFICES ASSUME Init PROVE HttpIInv
  OBVIOUS
<1> USE SearcherAssumption, HttpAssumption DEF Init, DbInit, SearchInit
<1>1. Constrained /\ ServerHolds
  BY FS_EmptySet DEF Constrained, DbTypeOK, UniqueRows, RowsHaveKeys, ServerHolds
<1>2. query \in Seq(Word) /\ ids \in Seq(Word \cup {NoId}) /\ reply \in Seq(Url)
  OBVIOUS
<1>3. Len(ids) <= Len(query) /\ DOMAIN ids = {} /\ DOMAIN reply = {}
  OBVIOUS
<1>4. SearchIInv
  BY <1>1, <1>2, <1>3
     DEF SearchIInv, SearchTypeOK, SearchShape, LookedUp, Looking, AcceptedHold,
         BeforeHold, WordsFound, OneWordAccepted, SearchSound, ReplySorted,
         OneWordComplete, Answered
<1>5. NoResponse \in [status : {"none", "ok", "not_found", "bad_request"},
               body : {"none", "form", "text"},
               hrefs : Seq([scheme : {"https"}, url : Url])]
      /\ NoResponse.hrefs = <<>> /\ DOMAIN NoResponse.hrefs = {}
  BY DEF NoResponse, Response
<1>6. NoObject \in Object /\ ObjectOK(NoObject) /\ RepliesHold(NoObject)
  BY <1>5 DEF NoObject, Object, ObjectOK, RepliesHold
<1>7. at \in [Connection -> Object] /\ Objects
  BY <1>6 DEF Objects
<1>8. queue \in Seq(Entries) /\ QueueOK /\ OnceIn(queue)
  BY NoEntry DEF QueueOK, OnceIn
<1>9. HttpTypeOK /\ ThreadOK
  BY <1>4, <1>7, <1>8 DEF HttpTypeOK, ThreadOK, SearchIInv, Constrained, Entries
<1> QED
  BY <1>4, <1>7, <1>8, <1>9 DEF HttpIInv

LEMMA HttpStep == HttpIInv /\ [Next]_vars => HttpIInv'
<1> SUFFICES ASSUME HttpIInv, [Next]_vars PROVE HttpIInv'
  OBVIOUS
<1>1. CASE StartServer \/ Call \/ CrawlerCommits \/ DbConnectionLost \/ AcceptFails
  BY <1>1, CallKeeps, CrawlerCommitsKeeps, DbConnectionLostKeeps,
     AcceptFailsKeeps
<1>2. ASSUME NEW c \in Connection, Client(c) \/ OperationEnds(c)
      PROVE  HttpIInv'
  BY <1>2, SendKeeps, LeaveKeeps, ReadEndsKeeps, WriteSomeKeeps, WriteFailsKeeps,
     DeadlineExpiresKeeps DEF Client, OperationEnds
<1>3. ASSUME NEW c \in Connection, Handle(c) PROVE HttpIInv'
  BY <1>3, AcceptKeeps, HandleReadErrorKeeps, ProcessRequestKeeps,
     ProcessPostKeeps, CrashKeeps, RunSearchKeeps, FinishPostKeeps,
     HandleWriteKeeps, HandleDeadlineKeeps DEF Handle
<1>4. CASE UNCHANGED vars
  <2>1. UNCHANGED <<dbVars, searchVars, httpVars>>
    BY <1>4 DEF vars
  <2>2. SearchIInv' /\ RowsGrow
    BY <2>1, SearchUnchanged DEF HttpIInv
  <2> QED
    BY <2>1, <2>2, DatabaseStep DEF HttpIInv, HttpTypeOK, searchVars
<1> QED
  BY <1>1, <1>2, <1>3, <1>4 DEF Next, ThreadStep

LEMMA HttpInvariant == Spec => []HttpIInv
BY HttpInitially, HttpStep, PTL DEF Spec

\* The server's variables keep their types.
THEOREM HttpTypeCorrect == Spec => []HttpTypeOK
<1>1. HttpIInv => HttpTypeOK
  BY DEF HttpIInv
<1> QED
  BY <1>1, HttpInvariant, PTL

\* No open socket is without a deadline.
THEOREM DeadlineAlwaysGuards == Spec => []DeadlineGuards
<1>1. HttpIInv => DeadlineGuards
  BY DEF HttpIInv, Objects, ObjectOK, DeadlineGuards
<1> QED
  BY <1>1, HttpInvariant, PTL

\* What a client is shown answers its own request.
THEOREM RepliesBelongToRequests == Spec => []RepliesToRequest
<1>1. HttpIInv => RepliesToRequest
  BY DEF HttpIInv, Objects, RepliesHold, RepliesToRequest
<1> QED
  BY <1>1, HttpInvariant, PTL

\* Only the deadline, or the end of the process, cuts a response short.
THEOREM OnlyDeadlineCuts == Spec => []CutOnlyByDeadline
<1>1. HttpIInv => CutOnlyByDeadline
  BY DEF HttpIInv, Objects, ObjectOK, CutOnlyByDeadline
<1> QED
  BY <1>1, HttpInvariant, PTL

\* A step that changes c alone, and neither makes nor breaks what is received.
LEMMA ReceivedStays ==
  ASSUME HttpIInv, NEW c \in Connection, NEW k, at' = [at EXCEPT ![c] = k],
         at[c].timer = "fired" /\ k.timer = "fired" =>
           k.received = at[c].received,
         NEW x \in Connection, at[x].timer = "fired", at'[x].timer = "fired"
  PROVE  at'[x].received = at[x].received
BY DEF HttpIInv, HttpTypeOK

LEMMA LeftReceived ==
  ASSUME NEW k \in Object PROVE Left(k).received = k.received
BY DEF Left, Object

\* What HandleWrite makes of the state k of a connection.
Written(k, t) == [k EXCEPT !.writing = "none", !.timer = t]

LEMMA WrittenObject ==
  ASSUME NEW k \in Object,
         NEW t \in {"off", "set", "expired", "cancelled", "fired", "lost"}
  PROVE  /\ Written(k, t) \in Object
         /\ Written(k, t).received = k.received
         /\ Written(k, t).timer = t
BY DEF Object, Written

LEMMA NothingReceived ==
  ASSUME HttpIInv, Next, NEW x \in Connection,
         at[x].timer = "fired", at'[x].timer = "fired"
  PROVE  at'[x].received = at[x].received
<1>1. CASE \/ StartServer \/ Call \/ CrawlerCommits \/ DbConnectionLost
           \/ AcceptFails \/ \E c \in Connection : ProcessPost(c) \/ RunSearch(c)
  BY <1>1 DEF StartServer, Call, CrawlerCommits, DbConnectionLost, AcceptFails,
     ProcessPost, RunSearch, httpVars
<1>2. ASSUME NEW c \in Connection, Client(c) \/ OperationEnds(c)
      PROVE  at'[x].received = at[x].received
  <2>1. at[c] \in Object /\ ObjectOK(at[c])
    BY ObjectAt
  <2>2. CASE WriteSome(c)
    <3>1. \E k : at' = [at EXCEPT ![c] = k] /\ at[c].timer # "fired"
      BY <2>1, <2>2 DEF WriteSome, Ends, ObjectOK
    <3> QED
      BY <3>1, ReceivedStays
  <2>3. CASE ~WriteSome(c)
    <3>1. \/ \E r : at' = [at EXCEPT ![c] = [at[c] EXCEPT !.request = r]]
          \/ at' = [at EXCEPT ![c] = [at[c] EXCEPT !.client = "gone"]]
          \/ \E e : at' = [at EXCEPT ![c] = [at[c] EXCEPT !.reading = e]]
          \/ at' = [at EXCEPT ![c] = [at[c] EXCEPT !.writing = "error"]]
          \/ at' = [at EXCEPT ![c] = [at[c] EXCEPT !.timer = "expired"]]
      BY <1>2, <2>3 DEF Client, Send, Leave, OperationEnds, RequestRead,
         ReadFails, WriteFails, DeadlineExpires, Ends
    <3>2. /\ \A r : [at[c] EXCEPT !.request = r].received = at[c].received
          /\ [at[c] EXCEPT !.client = "gone"].received = at[c].received
          /\ \A e : [at[c] EXCEPT !.reading = e].received = at[c].received
          /\ [at[c] EXCEPT !.writing = "error"].received = at[c].received
          /\ [at[c] EXCEPT !.timer = "expired"].received = at[c].received
      BY <2>1 DEF Object
    <3>3. ASSUME NEW r, at' = [at EXCEPT ![c] = [at[c] EXCEPT !.request = r]]
          PROVE  at'[x].received = at[x].received
      BY <3>2, <3>3, ReceivedStays
    <3>4. ASSUME NEW e, at' = [at EXCEPT ![c] = [at[c] EXCEPT !.reading = e]]
          PROVE  at'[x].received = at[x].received
      BY <3>2, <3>4, ReceivedStays
    <3> QED
      BY <3>1, <3>2, <3>3, <3>4, ReceivedStays
  <2> QED
    BY <2>2, <2>3
<1>3. ASSUME NEW c \in Connection, Accept(c) PROVE at'[x].received = at[x].received
  <2> DEFINE k == Start([NoObject EXCEPT !.client = "here", !.socket = "open"])
  <2>1. at' = [at EXCEPT ![c] = k] /\ k.timer = "set"
    BY <1>3 DEF Accept, Start, NoObject
  <2> HIDE DEF k
  <2> QED
    BY <2>1, ReceivedStays
<1>4. ASSUME NEW c \in Connection, HandleReadError(c)
      PROVE  at'[x].received = at[x].received
  <2>1. AfterRead(c) \in Object /\ AfterRead(c).received = at[c].received
    <3>1. at[c] \in Object
      BY ObjectAt
    <3> QED
      BY <3>1 DEF AfterRead, Object
  <2>2. at' = [at EXCEPT ![c] = Left(AfterRead(c))]
    BY <1>4 DEF HandleReadError
  <2> QED
    BY <2>1, <2>2, LeftReceived, ReceivedStays
<1>5. ASSUME NEW c \in Connection, ProcessRequest(c) \/ FinishPost(c)
      PROVE  at'[x].received = at[x].received
  <2>1. PICK r : write_response(c, AfterRead(c), r)
    BY <1>5 DEF ProcessRequest, FinishPost
  <2> DEFINE k == [AfterRead(c) EXCEPT !.response = r,
                     !.writing = IF AfterRead(c).socket = "open" THEN "pending"
                                 ELSE "error"]
  <2>2. k.received = at[c].received
    BY ObjectAt DEF AfterRead, Object
  <2>3. at' = [at EXCEPT ![c] = k]
    BY <2>1 DEF write_response
  <2> HIDE DEF k
  <2> QED
    BY <2>2, <2>3, ReceivedStays
<1>6. ASSUME NEW c \in Connection, HandleWrite(c)
      PROVE  at'[x].received = at[x].received
  <2> DEFINE t == IF at[c].timer = "set" THEN "cancelled" ELSE at[c].timer
  <2>1. at[c] \in Object
    BY ObjectAt
  <2>2. t \in {"off", "set", "expired", "cancelled", "fired", "lost"}
    BY <2>1 DEF Object
  <2>3. at' = [at EXCEPT ![c] = Left(Written(at[c], t))]
    BY <1>6 DEF HandleWrite, Written
  <2> HIDE DEF t
  <2>4. /\ Written(at[c], t) \in Object
        /\ Written(at[c], t).received = at[c].received
        /\ Written(at[c], t).timer = t
    BY <2>1, <2>2, WrittenObject
  <2>5. Left(Written(at[c], t)).received = at[c].received
    BY <2>4, LeftReceived
  <2> QED
    BY <2>3, <2>5, ReceivedStays
<1>7. ASSUME NEW c \in Connection, HandleDeadline(c)
      PROVE  at'[x].received = at[x].received
  <2>1. /\ \E k : at' = [at EXCEPT ![c] = k]
        /\ at[c].timer # "fired"
    BY <1>7 DEF HandleDeadline
  <2> QED
    BY <2>1, ReceivedStays
<1>8. ASSUME NEW c \in Connection, Crash(c) PROVE at'[x].received = at[x].received
  <2>1. [NoObject EXCEPT !.timer = "lost"].timer = "lost"
    BY DEF NoObject
  <2>2. at'[x] = at[x] \/ at'[x] = [NoObject EXCEPT !.timer = "lost"]
    BY <1>8 DEF Crash
  <2> QED
    BY <2>1, <2>2
<1> QED
  BY <1>1, <1>2, <1>3, <1>4, <1>5, <1>6, <1>7, <1>8
     DEF Next, ThreadStep, Handle

\* Nothing is written to a connection whose deadline has closed it.
THEOREM NothingFollowsDeadline == Spec => NothingAfterDeadline
<1>1. HttpIInv /\ [Next]_vars =>
        [\A c \in Connection : (at[c].timer = "fired" /\ at'[c].timer = "fired")
           => at'[c].received = at[c].received]_vars
  BY NothingReceived
<1> QED
  BY <1>1, HttpInvariant, PTL DEF Spec, NothingAfterDeadline

-----------------------------------------------------------------------------
(* The refinement of InvertedIndex.                                        *)

LEMMA AbstractInitially == Init => II!Init
BY DEF Init, DbInit, SearchInit, II!Init

\* Steps that neither search nor write to the database.
LEMMA UnseenSteps ==
  ASSUME UNCHANGED <<dbVars, searchVars>> PROVE [II!Next]_(II!vars)
BY DEF dbVars, tables, searchVars, II!vars

\* The handlers of many connections, with a search inside some of them, and a
\* process that may crash are one index that answers one search at a time.
THEOREM ServerImplementsIndex == Spec => ImplementsInvertedIndex
<1>1. ASSUME HttpIInv, HttpIInv', [Next]_vars PROVE [II!Next]_(II!vars)
  <2> USE DEF HttpIInv
  <2>1. CASE CrawlerCommits
    <3>1. RowsGrow /\ UNCHANGED searchVars
      BY <2>1, HttpAssumption DEF CrawlerCommits, RowsGrow
    <3> QED
      BY <3>1, CrawlerImplements
  <2>2. CASE DbConnectionLost
    BY <2>2 DEF DbConnectionLost, ConnectionLost, tables, searchVars, II!vars
  <2>3. ASSUME NEW c \in Connection, ProcessPost(c) PROVE [II!Next]_(II!vars)
    BY <2>3, AskImplements DEF ProcessPost
  <2>4. ASSUME NEW c \in Connection, Crash(c) PROVE [II!Next]_(II!vars)
    BY <2>4, ForgetImplements DEF Crash, RestartServer, ExitProcess
  <2>5. ASSUME NEW c \in Connection, RunSearch(c) PROVE [II!Next]_(II!vars)
    BY <1>1, <2>5, SearchStepImplements DEF RunSearch
  <2>6. ASSUME NEW c \in Connection, FinishPost(c) PROVE [II!Next]_(II!vars)
    BY <2>6, ForgetImplements DEF FinishPost, dbVars, tables
  <2>7. CASE StartServer \/ Call \/ AcceptFails \/ UNCHANGED vars
    BY <2>7, UnseenSteps DEF StartServer, Call, AcceptFails, vars
  <2>8. ASSUME NEW c \in Connection, Client(c) \/ OperationEnds(c)
        PROVE  [II!Next]_(II!vars)
    BY <2>8, UnseenSteps
       DEF Client, Send, Leave, OperationEnds, RequestRead, ReadFails, WriteSome,
           WriteFails, DeadlineExpires, Ends
  <2>9. ASSUME NEW c \in Connection,
               \/ Accept(c) \/ HandleReadError(c) \/ ProcessRequest(c)
               \/ HandleWrite(c) \/ HandleDeadline(c)
        PROVE  [II!Next]_(II!vars)
    BY <2>9, UnseenSteps
       DEF Accept, HandleReadError, ProcessRequest, HandleWrite, HandleDeadline
  <2> QED
    BY <1>1, <2>1, <2>2, <2>3, <2>4, <2>5, <2>6, <2>7, <2>8, <2>9
       DEF Next, ThreadStep, Handle
<1> QED
  BY <1>1, AbstractInitially, HttpInvariant, PTL
     DEF Spec, ImplementsInvertedIndex, II!Spec
=============================================================================
