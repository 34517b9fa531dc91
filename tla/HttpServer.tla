------------------------------ MODULE HttpServer ------------------------------
(***************************************************************************)
(* The http_server program (http_server_small.cpp): one thread runs the    *)
(* completion handlers of an io_context, those of the acceptor and, for    *)
(* each connection, of a read, a write and a deadline.  A handler is one   *)
(* step, except that of a POST: it runs a whole search (Searcher) before   *)
(* it returns, and until then the thread does nothing else.                *)
(*                                                                         *)
(* An operation is "pending" until it has ended; then it is "ok" or        *)
(* "error" and its handler is in the queue of the io_context, which runs   *)
(* first what ended first.  A timer that is "expired" can no longer be     *)
(* cancelled.  A connection object lives as long as one of its handlers is *)
(* to come or is running.                                                  *)
(***************************************************************************)
EXTENDS Searcher

CONSTANTS
  Connection, NoConnection,   \* connection objects, as many as descriptors
  Requests, NoRequest,        \* what a client may send
  Rows                        \* what crawlers may commit meanwhile

VARIABLES
  running,     \* the process runs
  accepting,   \* an async_accept is outstanding
  caller,      \* a client waits to be accepted
  thread,      \* the connection whose handler runs a search
  queue,       \* the handlers to run: <<connection, operation>>
  at           \* each connection: its client, object and operations

loopVars == <<running, accepting, caller, thread>>
httpVars == <<loopVars, queue, at>>
vars == <<dbVars, searchVars, httpVars>>

Response(status, body, hrefs) ==
  [status |-> status, body |-> body, hrefs |-> hrefs]
NoResponse == Response("none", "none", <<>>)

NoObject ==
  [client |-> "gone", socket |-> "closed", request |-> NoRequest,
   response |-> NoResponse, received |-> "nothing",
   reading |-> "none", writing |-> "none", timer |-> "off"]

\* A handler of a connection in state k is still to come.
Outstanding(k) ==
  \/ k.reading # "none" \/ k.writing # "none"
  \/ k.timer \in {"set", "expired", "cancelled"}

\* k after one of its handlers: the last one destroys the object.
Left(k) ==
  IF Outstanding(k) THEN k
  ELSE [k EXCEPT !.socket = "closed", !.request = NoRequest,
                 !.response = NoResponse]

Referenced(c) == Outstanding(at[c]) \/ thread = c

-----------------------------------------------------------------------------
(* Requests and responses.                                                 *)

\* A body is its parts between "=", each of them its words between "+".
HasWords(r) == Len(r.body) > 1

\* What follows the first "=", up to the next.
WordsOf(r) == r.body[2]

ASSUME HttpAssumption ==
  /\ NoConnection \notin Connection
  /\ NoRequest \notin Requests
  /\ \A r \in Requests :
       /\ r.method \in {"get", "post", "other", "malformed"}
       /\ r.method = "post" /\ HasWords(r) => WordsOf(r) \in Queries
  /\ Rows \subseteq Row

create_response(r) ==
  IF r.target = "/" THEN Response("ok", "form", <<>>)
                    ELSE Response("not_found", "text", <<>>)

getHrefListStringFromVector(urlsVector) ==
  [i \in DOMAIN urlsVector |-> [scheme |-> "https", url |-> urlsVector[i]]]

\* With no resource found, or an exception, the body stays empty.
ListPage(urlsVector) ==
  IF urlsVector = <<>> THEN Response("ok", "none", <<>>)
  ELSE Response("ok", "form", getHrefListStringFromVector(urlsVector))

-----------------------------------------------------------------------------
Init ==
  /\ DbInit /\ SearchInit
  /\ running = FALSE /\ accepting = FALSE /\ caller = FALSE
  /\ thread = NoConnection /\ queue = <<>>
  /\ at = [c \in Connection |-> NoObject]

\* main: the configuration was read and the address could be bound.
StartServer ==
  /\ ~running /\ running' = TRUE
  /\ accepting' = TRUE
  /\ UNCHANGED <<dbVars, searchVars, caller, thread, queue, at>>

-----------------------------------------------------------------------------
(* The clients, and the crawlers.                                          *)

\* The handler of an async_accept that is called while a client waits.
AcceptEnds == << <<NoConnection, "accept">> >>

Call ==
  /\ running /\ ~caller /\ caller' = TRUE
  /\ queue' = IF accepting THEN queue \o AcceptEnds ELSE queue
  /\ UNCHANGED <<dbVars, searchVars, running, accepting, thread, at>>

Connected(c) == at[c].socket = "open" /\ at[c].client = "here"

Send(c, r) ==
  /\ Connected(c) /\ at[c].request = NoRequest
  /\ at' = [at EXCEPT ![c].request = r]
  /\ UNCHANGED <<dbVars, searchVars, loopVars, queue>>

Leave(c) ==
  /\ Connected(c)
  /\ at' = [at EXCEPT ![c].client = "gone"]
  /\ UNCHANGED <<dbVars, searchVars, loopVars, queue>>

\* A crawler has saved a presence.  Its transactions are one step here;
\* SearchEngine keeps them apart.
CrawlerCommits ==
  /\ \E r \in Rows :
       /\ ~Stored(r.word, r.url)
       /\ words' = words \cup {r.word} /\ urls' = urls \cup {r.url}
       /\ frequencies' = frequencies \cup {r}
  /\ UNCHANGED <<conn, held, searchVars, httpVars>>

DbConnectionLost ==
  ConnectionLost(Server) /\ UNCHANGED <<searchVars, httpVars>>

-----------------------------------------------------------------------------
(* Operations that end: their handlers are queued.                         *)

Ends(c, operation, k) ==
  /\ at' = [at EXCEPT ![c] = k]
  /\ queue' = Append(queue, <<c, operation>>)
  /\ UNCHANGED <<dbVars, searchVars, loopVars>>

Readable(r) == r # NoRequest /\ r.method # "malformed"

RequestRead(c) ==
  /\ at[c].reading = "pending" /\ Readable(at[c].request)
  /\ Ends(c, "read", [at[c] EXCEPT !.reading = "ok"])

ReadFails(c) ==
  /\ at[c].reading = "pending"
  /\ \/ at[c].client = "gone"
     \/ at[c].request # NoRequest /\ ~Readable(at[c].request)
  /\ Ends(c, "read", [at[c] EXCEPT !.reading = "error"])

\* async_write_some: it ends when some of the response is written.
WriteOnce(c) ==
  /\ at[c].writing = "pending" /\ at[c].client = "here"
  /\ \E much \in {"part", "whole"} :
       Ends(c, "write", [at[c] EXCEPT !.received = much, !.writing = "ok"])

\* async_write: it ends when all of the response is written.
WriteSome(c) ==
  /\ at[c].writing = "pending" /\ at[c].client = "here"
  /\ \/ /\ at' = [at EXCEPT ![c].received = "part"]
        /\ UNCHANGED <<dbVars, searchVars, loopVars, queue>>
     \/ Ends(c, "write", [at[c] EXCEPT !.received = "whole", !.writing = "ok"])

WriteFails(c) ==
  /\ at[c].writing = "pending" /\ at[c].client = "gone"
  /\ Ends(c, "write", [at[c] EXCEPT !.writing = "error"])

DeadlineExpires(c) ==
  /\ at[c].timer = "set"
  /\ Ends(c, "deadline", [at[c] EXCEPT !.timer = "expired"])

-----------------------------------------------------------------------------
(* Handlers.                                                               *)

\* It is the turn of a handler.
Turn(c, operation) ==
  /\ thread = NoConnection
  /\ queue # <<>> /\ Head(queue) = <<c, operation>>

\* The thread runs it, and it queues those in more.
Run(c, operation, more) ==
  /\ Turn(c, operation)
  /\ queue' = Tail(queue) \o more

\* start without its second call.
StartNoDeadline(k) == [k EXCEPT !.reading = "pending"]

\* read_request and check_deadline.
Start(k) == [k EXCEPT !.reading = "pending", !.timer = "set"]

\* The handler of http_server: the socket becomes that of a new connection.
Accept(c) ==
  /\ Run(NoConnection, "accept", <<>>)
  /\ ~Referenced(c)
  /\ caller' = FALSE /\ accepting' = TRUE
  /\ at' = [at EXCEPT ![c] =
              Start([NoObject EXCEPT !.client = "here", !.socket = "open"])]
  /\ UNCHANGED <<dbVars, searchVars, running, thread>>

\* No descriptor is left, so accept failed: the handler calls http_server
\* again all the same, while the client still waits.
AcceptFails ==
  /\ Run(NoConnection, "accept", AcceptEnds)
  /\ \A c \in Connection : Referenced(c)
  /\ accepting' = TRUE
  /\ UNCHANGED <<dbVars, searchVars, running, caller, thread, at>>

\* A write that does not see that the deadline has closed the socket.
write_response_anyway(c, k, r) ==
  at' = [at EXCEPT ![c] = [k EXCEPT !.response = r, !.writing = "pending"]]

\* One response for all connections.
write_response_shared(c, k, r) ==
  at' = [x \in Connection |->
           IF x = c THEN [k EXCEPT !.response = r, !.writing = "pending"]
                    ELSE [at[x] EXCEPT !.response = r]]

\* async_write on a closed socket ends at once.
write_response(c, k, r) ==
  at' = [at EXCEPT ![c] =
    [k EXCEPT !.response = r,
              !.writing = IF k.socket = "open" THEN "pending" ELSE "error"]]

\* The handlers of write_response on a socket that is closed.
ErrorOfWrite(c) ==
  IF at[c].socket = "open" THEN <<>> ELSE << <<c, "write">> >>

AfterRead(c) == [at[c] EXCEPT !.reading = "none"]

\* Nothing is done about an error: the object waits for its deadline.
HandleReadError(c) ==
  /\ Run(c, "read", <<>>) /\ at[c].reading = "error"
  /\ at' = [at EXCEPT ![c] = Left(AfterRead(c))]
  /\ UNCHANGED <<dbVars, searchVars, loopVars>>

\* process_request for all methods but POST.
ProcessRequest(c) ==
  /\ Run(c, "read", ErrorOfWrite(c)) /\ at[c].reading = "ok"
  /\ at[c].request.method # "post"
  /\ write_response(c, AfterRead(c),
       IF at[c].request.method = "get" THEN create_response(at[c].request)
                                       ELSE Response("bad_request", "text", <<>>))
  /\ UNCHANGED <<dbVars, searchVars, loopVars>>

PostRead(c) == at[c].reading = "ok" /\ at[c].request.method = "post"

\* A handler that does not wait for the search.
PostSearch(c) ==
  /\ Run(c, "read", <<>>) /\ PostRead(c)
  /\ \E q \in Queries : ProcessSearchRequest(q)
  /\ UNCHANGED <<loopVars, at>>

\* create_response_on_post up to the search.  Of a body without "=" nothing
\* is left to read the words from; if that is survived they may be any.
ProcessPost(c) ==
  /\ Run(c, "read", <<>>) /\ PostRead(c)
  /\ \E q \in Queries :
       /\ HasWords(at[c].request) => q = WordsOf(at[c].request)
       /\ ProcessSearchRequest(q)
  /\ thread' = c
  /\ UNCHANGED <<running, accepting, caller, at>>

\* If it is not survived, the process is gone with all its connections.
Crash(c) ==
  /\ Turn(c, "read") /\ queue' = <<>>
  /\ PostRead(c) /\ ~HasWords(at[c].request)
  /\ running' = FALSE /\ accepting' = FALSE /\ caller' = FALSE
  /\ RestartServer
  /\ at' = [x \in Connection |->
              IF Referenced(x) THEN [NoObject EXCEPT !.timer = "lost"]
                               ELSE at[x]]
  /\ UNCHANGED thread

RunSearch(c) ==
  /\ thread = c
  /\ SearchStep \/ ConstructorThrows
  /\ UNCHANGED httpVars

\* The rest of create_response_on_post, and of the handler, whose variables
\* are gone then.
FinishPost(c) ==
  /\ thread = c /\ thread' = NoConnection
  /\ stage = "idle"
  /\ write_response(c, AfterRead(c), ListPage(reply))
  /\ queue' = queue \o ErrorOfWrite(c)
  /\ ForgetSearch
  /\ UNCHANGED <<dbVars, running, accepting, caller>>

\* The handler of write_response: cancel() comes too late for a timer whose
\* handler has run or is queued.
HandleWrite(c) ==
  LET inTime == at[c].timer = "set" IN
  /\ Run(c, "write", IF inTime THEN << <<c, "deadline">> >> ELSE <<>>)
  /\ at' = [at EXCEPT ![c] =
              Left([at[c] EXCEPT !.writing = "none",
                      !.timer = IF inTime THEN "cancelled" ELSE at[c].timer])]
  /\ UNCHANGED <<dbVars, searchVars, loopVars>>

\* What close does to outstanding operations.
Aborted(operation) == IF operation = "pending" THEN "error" ELSE operation

AbortedHandlers(c) ==
  (IF at[c].reading = "pending" THEN << <<c, "read">> >> ELSE <<>>) \o
  (IF at[c].writing = "pending" THEN << <<c, "write">> >> ELSE <<>>)

\* A handler that takes every call for a cancellation.
NeverClose(c) ==
  /\ Run(c, "deadline", <<>>)
  /\ at' = [at EXCEPT ![c] = Left([at[c] EXCEPT !.timer = "off"])]
  /\ UNCHANGED <<dbVars, searchVars, loopVars>>

\* The handler of check_deadline.
HandleDeadline(c) ==
  /\ \/ /\ at[c].timer = "expired"
        /\ Run(c, "deadline", AbortedHandlers(c))
        /\ at' = [at EXCEPT ![c] =
                    Left([at[c] EXCEPT !.timer = "fired", !.socket = "closed",
                                       !.reading = Aborted(at[c].reading),
                                       !.writing = Aborted(at[c].writing)])]
     \/ /\ at[c].timer = "cancelled"
        /\ Run(c, "deadline", <<>>)
        /\ at' = [at EXCEPT ![c] = Left([at[c] EXCEPT !.timer = "off"])]
  /\ UNCHANGED <<dbVars, searchVars, loopVars>>

Client(c) == Leave(c) \/ \E r \in Requests : Send(c, r)

OperationEnds(c) ==
  RequestRead(c) \/ ReadFails(c) \/ WriteSome(c) \/ WriteFails(c)
    \/ DeadlineExpires(c)

\* What the thread does for c.
Handle(c) ==
  \/ Accept(c) \/ HandleReadError(c) \/ ProcessRequest(c) \/ ProcessPost(c)
  \/ Crash(c) \/ RunSearch(c) \/ FinishPost(c) \/ HandleWrite(c)
  \/ HandleDeadline(c)

ThreadStep == AcceptFails \/ \E c \in Connection : Handle(c)

Next ==
  \/ StartServer \/ Call \/ CrawlerCommits \/ DbConnectionLost
  \/ \E c \in Connection : Client(c) \/ OperationEnds(c)
  \/ ThreadStep

Spec == Init /\ [][Next]_vars

\* Someone starts the server when it does not run; the thread runs, and the
\* database answers; time passes.  Clients owe nothing.
FairSpec ==
  /\ Spec
  /\ WF_vars(StartServer) /\ WF_vars(ThreadStep)
  /\ \A c \in Connection : WF_vars(DeadlineExpires(c))

-----------------------------------------------------------------------------
(* Properties.                                                             *)

Operation == {"accept", "read", "write", "deadline"}

Object ==
  [client : {"here", "gone"}, socket : {"open", "closed"},
   request : Requests \cup {NoRequest},
   response : [status : {"none", "ok", "not_found", "bad_request"},
               body : {"none", "form", "text"},
               hrefs : Seq([scheme : {"https"}, url : Url])],
   received : {"nothing", "part", "whole"},
   reading : {"none", "pending", "ok", "error"},
   writing : {"none", "pending", "ok", "error"},
   timer : {"off", "set", "expired", "cancelled", "fired", "lost"}]

\* The variables have their types; a search is the running handler's.
HttpTypeOK ==
  /\ DbTypeOK /\ SearchTypeOK
  /\ running \in BOOLEAN /\ accepting \in BOOLEAN /\ caller \in BOOLEAN
  /\ thread \in Connection \cup {NoConnection}
  /\ queue \in Seq((Connection \cup {NoConnection}) \X Operation)
  /\ at \in [Connection -> Object]
  /\ stage # "idle" => thread # NoConnection

\* Every open socket has a handler of its timer still to come, so that
\* neither a silent client nor a failed read keeps it open for good.
DeadlineGuards ==
  \A c \in Connection :
    at[c].socket = "open" => at[c].timer \in {"set", "expired", "cancelled"}

\* A client is shown resources with all words of its own request: searches of
\* several connections, one after the other in one Searcher's steps, and
\* crawlers' commits meanwhile do not mix.
RepliesToRequest ==
  \A c \in Connection : at[c].received # "nothing" =>
    \A i \in DOMAIN at[c].response.hrefs :
      /\ at[c].request.method = "post"
      /\ HasWords(at[c].request) =>
           Matches(at[c].response.hrefs[i].url, WordsOf(at[c].request))

\* A client that stays and whose connection is neither cut by the deadline
\* nor lost with the process has the whole response when the socket closes.
CutOnlyByDeadline ==
  \A c \in Connection :
    (at[c].socket = "closed" /\ at[c].timer = "off" /\ at[c].client = "here")
      => at[c].received = "whole"

\* When a search was overtaken by the deadline of its connection, nothing of
\* the late response reaches the client.
NothingAfterDeadline ==
  [][\A c \in Connection : (at[c].timer = "fired" /\ at'[c].timer = "fired")
       => at'[c].received = at[c].received]_vars

\* Every connection ends, although clients send nothing, send what cannot be
\* read, stop reading, and searches hold up the only thread.
EveryConnectionEnds ==
  \A c \in Connection : at[c].socket = "open" ~> at[c].socket = "closed"

\* No client waits for ever to be accepted, although connections use up the
\* descriptors and accept fails.
CallersAccepted == caller ~> ~caller
=============================================================================
