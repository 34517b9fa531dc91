# A verification project for the search engine

The repository is a small search engine in C++: a crawler program that
downloads pages over HTTPS, counts their words and stores them in PostgreSQL,
and an HTTP server program that answers queries from that database. This
directory holds TLA+ models of it, the TLC runs that check them and TLAPS
proofs. `PROJECT.json` lists components, runs, mutants, findings, hazards,
theorems and, for every definition that models code, the lines it models.

## Inventory

| component | state | operations | interacts with |
|---|---|---|---|
| `SafeQueue` | `queue_`, `mutex_`, `data_cond` | `push`, `pop`, `isEmpty` (without the mutex) | pushed to by main, popped by workers |
| thread pool (`Crowler` constructor, destructor, `work`; `main.cpp`) | worker threads, the configured start task | start workers, push one task, endless loop of `isEmpty`, `pop`, `processUrl`, join | `SafeQueue`; every page ends in `DbManager` |
| crawl of a site (`processUrl`, `download`, `parseSubUrl`, root certificates) | call stack of (domain, path, depth) | download from a verified peer with redirects, extraction, recursion over links | web servers; `savePresencesToDb` |
| extraction (`getWords`, `getSubUrls`) | none | regular expressions | crawl |
| page indexing (`savePresencesToDb`, `insertPresence`) | the page's counts, ids collected so far | up to five transactions per word | `DbManager`, other crawler processes |
| database (`DbManager`, PostgreSQL) | tables `words`, `urls`, `frequencies`; connections | connect, destroy, lookups, inserts, the two selects of a search, `adjacent_count` | crawlers write, servers read |
| search (`Searcher`) | ids and resources collected so far | `processSearchRequest` with its catch block | `DbManager` |
| HTTP server (`http_server_small.cpp`) | a socket, request, response and timer per connection, one thread and its `io_context` | accept, read, GET/POST/other, write, 60 s deadline | `Searcher`, clients |
| configuration (`IniParser`) | sections with fields | read file, typed values | crawl start, `DbManager`, server |

What is hard here:

- *Concurrency.* Workers race for the queue, and `isEmpty` is a data race.
  Several processes (any number of crawlers, a server) share the database, and
  both indexing a presence and answering a search are sequences of separate
  transactions.
- *Failure.* Connections break, downloads fail, a constructor throws out of a
  thread, results of inserts are dropped, every exception of a search becomes
  an empty list, a process can end between two transactions.
- *Resources.* `~DbManager` forgets the connection before it deletes it.
- *Boundaries.* Counts are `unsigned short`, columns have widths, an id 0 means
  both "absent" and "failed", links are split without checking their parts,
  recursion ends at depth exactly 1.
- *Time.* A search blocks the only thread of the server while the deadlines of
  its connections run. A timer that has expired cannot be cancelled, an
  operation that has ended cannot be aborted, and both handlers still come.

What makes each component correct:

- queue: FIFO, each task taken once, never a `front` of an empty queue, no
  thread asleep beside a task;
- pool: the task is processed once, by one thread, and is processed;
- indexing: no row is ever wrong; a good call stores its presence; whatever
  fails, crawling again repairs it;
- search: only resources with all words, sorted; none missing; the server goes
  on answering;
- `adjacent_count`: the maximal runs of its argument;
- crawl: visits exactly the targets within the depth, ends, fetches every page
  that is linked;
- HTTP server: a client gets the whole reply to its own request or is cut by
  the deadline, every connection ends, every caller is accepted;
- configuration: a value read is that of the last line that assigns it, and
  one bad line is the only reason to read nothing.

## Modules

| module | models | role |
|---|---|---|
| `SafeQueue` | `SafeQueue.cpp` | one action per step inside `push` and `pop` |
| `TaskQueue` | - | abstract FIFO that `SafeQueue` implements |
| `Crowler` | pool and `main.cpp` | extends `SafeQueue` |
| `Crawl` | `processUrl`, `download`, `parseSubUrl`, which peers `root_certificates.hpp` lets pass | one worker's recursion over a site |
| `DbManager` | tables, connections, statements | operators used by the next two |
| `Indexer` | `savePresencesToDb`, `insertPresence` | extends `DbManager` |
| `AdjacentRuns`, `AdjacentCount` | `adjacent_count` | definition of runs; the loop that computes them |
| `Searcher` | `processSearchRequest`, `getSortedUrlsByWords`, ... | extends `DbManager`, `AdjacentRuns` |
| `SearchEngine` | both programs on one database | extends `Indexer`, `Searcher` |
| `InvertedIndex` | - | abstract specification that `SearchEngine` and `HttpServer` implement; the mapping (`II`, `RowsOfWords`) is in `Searcher` |
| `HttpServer` | `http_server_small.cpp` | extends `Searcher`: connections, handlers and the search inside one |
| `IniParser` | `IniParser.h`, `IniParser.cpp` | the constructor and the getters the programs use |
| `CrowlerProofs` (with those of `SafeQueue`), `CrawlProofs`, `AdjacentCountProofs`, `IndexerProofs`, `SearchProofs`, `HttpServerProofs`, `IniParserProofs` | - | theorems |
| `SearcherProofs` | - | lemmas about a search, used by the proofs of its two users |
| `MCCrawl`, `MCIndexer`, `MCSearchEngine`, `MCHttpServer`, `MCIniParser` | - | sites, queries, requests and files for TLC |

### Correspondence of state and actions

**SafeQueue.** `phase[t]` is where thread `t` is in the class: about to lock,
holding the mutex before and after `queue_.push`, testing the predicate of the
wait, in the wait set, about to `pop`. `task[t]` is the argument of `push` and
afterwards the result of `pop`. `NotifyAll` merges `notify_all` and the release
of the mutex: a woken thread could do nothing in between. `Wake` is a spurious
wakeup. `isEmpty` returns the truth when no thread is inside `queue_.push` or
`queue_.pop`, and anything otherwise, since it reads without the mutex. (That
the read might be hoisted out of the loop of `work` is no outcome of the build:
`isEmpty` and `yield` are calls into other translation units.)

**Crowler.** `pool` is the set of workers `hardware_concurrency()` gives, any
number including none. Workers run as soon as they are started. What is thrown
in main or in a worker is caught nowhere and aborts the process.

**Crawl.** `stack` is the stack of `processUrl` calls, each with its target, its
depth and the links its loop has not reached; `request` is the target of the
running `download`, which calls itself for a redirect. `recursionDepth` is an
unsigned short that becomes a short (`ToShort`) and is decremented as one. A
path is a name behind a number of slashes: relative links keep theirs, absolute
links lose them all in `parseSubUrl`, a redirect gets one more. A web server
(external) answers a path that begins with a slash, and refuses another as no
valid request target. A link with `http` in it and no more than three parts
between slashes is read behind the end of `parts` (`Overruns`): the process
ends, or goes on with empty strings for what is not there. Of `https://host`
(`HostOnly`) that is the path alone: as a link its target is refused, as a
redirect it is the root of that host. A peer may also accept the connection and
then stay silent (`Silent`): no timeout ends that download, and with it the only
thread that crawls waits for ever. Saving a page is one step here; its
transactions, and the exception that may end the process, are in `Indexer`.
Each host has a certificate signed by an authority (`Signer`); `roots` is what
`load_root_certificates` adds, the same to every new context, and a download
from another host fails in the handshake. The name in a certificate is not
compared with the host, by the code or the model. The links of a page that a
redirect to another host has led to belong to the host that was asked first, as
in `processUrl`, both in the recursion and in the definition it is compared with.

**DbManager.** Every method runs one statement in one transaction, so it is one
atomic step; READ COMMITTED gives nothing more to observe. Only equality of ids
matters: the id of a word is the word itself, `NoId` is 0. A connection, once
broken, stays broken (pqxx does not reconnect), and every statement on it
throws. A commit whose outcome the client does not learn is the same as the
insert followed by the loss of the connection. `held[p]` counts connections of
process `p` the server still has: `Connect` adds one, a failure or the end of
the process takes back, `~DbManager` does not. Only the connection in use
breaks in the model. The tables exist from the start: `createTables` is
`IF NOT EXISTS`, and an error of it is caught.

**Indexer.** One action per transaction of `insertPresence`; the control state
`pc` names the next one. `todo` is the rest of the `unordered_map`, any element
of which may be next. Counts are reduced modulo the width of `unsigned short`
(`FreqModulus` in place of 65536). `CrawlOrder` stands for the recursion over
links: the resources in the order a run meets them, repetitions included; a
page that cannot be downloaded is saved as an empty page and hides some of the
pages after it. The constructor of `DbManager`, which reads the configuration
again for every page, may throw for want of a connection or for any other reason
(`Terminate`, a fault). One thread of a process writes, because a run pushes one
task and, as `Crowler` shows, one worker takes it. Nothing in the programs prevents
several crawler processes on one database. `Raced` says that an id stayed 0
although the row was there when the last transaction of an `insertPresence`
began: that is the one way in which a call with a live connection stores
nothing.

**Searcher.** `stage` names the function the search is in; the words are looked
up one transaction at a time, once in `getUrlsIdsByWords` and again in
`getSortedUrlsByWords`. The rows of the select without `ORDER BY` come in every
order. An exception comes from a refused connection or a statement on a lost one
(`StatementThrows`), or, in any search, from the constructor
(`ConstructorThrows`): it reads the configuration again each time, outside its
own `try`, and a file that is gone, a bad line or a missing field ends in the
catch block of `processSearchRequest` like the rest (`CatchException`). `before`
is a history variable: the resources that matched when the search came in.

**HttpServer.** One thread runs completion handlers, each of which is one
action. The exception is the handler of a POST: `ProcessPost` begins it,
`RunSearch` takes the steps of `Searcher` one by one, `FinishPost` ends it, and
meanwhile `thread` keeps every other handler waiting, while clients, timers,
the kernel and crawlers go on. `queue` holds the handlers of operations that
have ended, in that order; a pending operation of a connection is `"pending"`
in `reading` or `writing`, an ended one `"ok"` or `"error"`, and `timer` tells
apart a wait that has expired (its handler will close the socket), one that was
cancelled in time, and one whose handler has run. `shared_from_this` in the
handlers keeps a connection object alive: `Left` destroys it, and with it
closes its socket, when the last of its handlers has run. `async_write` is a
composed operation, so a part of the response may have been received before it
ends or fails. Connection objects stand for descriptors: without a free one,
`accept` fails at once, and the handler calls `http_server` again all the
same. A body without `=` leaves `wordsStr` empty and `wordsStr[0]` is undefined:
any query of the model, or `Crash`, which takes all connections with it. A
request is a method, a target and, for a POST, a body split at `=` and `+`; a
response is a status, what kind of body it has, and the list of its links, with
`https://` before each. A page without results has an empty body. The reply
page posts to `/search`; `process_request` answers a POST to any target. A
crawler is the single action `CrawlerCommits`, a whole `insertPresence`; its
transactions beside those of a search are in `SearchEngine`.

**IniParser.** A string is a sequence of tokens: `[`, `]`, `=`, `;`, `.`, space,
numerals and names. A line carries, next to its text, what it says by itself in
this format; only the properties look at that. One line is one step. The
classification, both ways of splitting, the removal of spaces and comments, and
the cut of a number to `unsigned short` (`ShortWidth`) are operators with the
conditions of the code. What a line says is not always what it looks like:

- `rfind` takes only a line whose last semicolon is its first character as a
  comment. With a second semicolon, `;port=1;` assigns a field `;port`, `;[Db];`
  opens a section `;Db;`, to which the fields behind it then belong, and
  `;a=b;c=d` makes the constructor throw.
- A `=` in the comment behind a value makes it throw too, as does a value with
  `=` in it (`password=a=b`) or with nothing in it (`password=`); but `a=b=` is
  read as `a=b`, because no segment follows the last `=`.
- Spaces behind a value stay in it, those before a comment included; a number is
  read all the same.
- Text around the brackets stays in the name of a section; a `=` on a line with
  a bracket makes the parser skip that line; a field before any section belongs
  to the section with the empty name.

What `get_value` throws is a result.

**AdjacentCount.** Positions are iterators, `Len(v) + 1` is `end()`; a turn of
the loop is an action.

## Runs

| run | checks | bounds and why they are enough |
|---|---|---|
| `queue` | types, `PopHasTask`, `NoSleepOnWork`, refinement of `TaskQueue` | 3 threads (one pushes, one waits, one overtakes), 2 tasks, at most 2 queued before another push is begun |
| `pool` | types, `TaskRunsOnce`, `StartTaskTaken` | 0 to 3 workers: one takes the task, one is fooled by `isEmpty`, one looks on |
| `crawl_webs` | types, `DepthRespected`, `CrawlsAllWithinDepth`, `CrawlEnds` | all webs of three resources on two hosts, each of them one of eight kinds (every kind of link and redirect), one or both hosts certified, a short of 2 bits and every `recursionDepth` it has, 1 failed download |
| `crawl_absolute` | violation of `LinkedPagesServed` | one web of two pages |
| `adjacent_count` | loop invariant (with progress in every turn), result, totals of grouped vectors | all vectors of up to 5 elements of 3 ids: runs at both ends and in the middle, separated equal elements |
| `indexer` | types, `RowsFaithful`, `PresenceSaved`, `RetrySucceeds`, `EventuallyIndexed` | 2 crawlers on the same two pages, the first visited twice with two versions, a count above `FreqModulus`, an overlong word and an overlong resource, 1 fault, room for a third connection beside the two |
| `search_safety` | types, `SearchSound`, `ReplySorted`, `OneWordComplete`, refinement of `InvertedIndex` | 1 crawler, 2 pages with both words, one of them changing (4 rows, every order), queries of one and two words, 4 connections, 1 fault (a lost or refused connection, another exception of a constructor, an exit) |
| `search_incomplete` | violation of `AllMatchesReturned` | same without faults |
| `search_leak` | violation of `KeepsAnswering` | same, queries of one word |
| `http_safety` | types, `DeadlineGuards`, `RepliesToRequest`, `CutOnlyByDeadline`, `NothingAfterDeadline`, refinement of `InvertedIndex` | 2 connections (one searches, the other waits, and both are all descriptors, so that `accept` fails), a search, a body without `=`, a GET and an unreadable request, 2 words of which one is indexed meanwhile, 1 database connection, so that a later search fails; connections are interchangeable |
| `http_ends` | `EveryConnectionEnds`, `CallersAccepted` | 2 connections; a body without `=`, which stands for every search or crashes the server, and requests that cannot be read; no symmetry |
| `config` | `ReadsAsWritten`, `FailsOnMalformed`, `FieldsKept` | all files of up to 4 lines of fourteen kinds: section, field, other section, section again with a field after it need four; every spelling, comments, lines that look like comments, ignored and malformed lines |

Bounds of the models, all constants: `QueueBound` (tasks before a client pushes
another), `HalfShort`, `FreqModulus` and `ShortWidth` (smaller widths), `MaxConnections` (the limit of the server, a real one), `MaxFaults` (lost connections, failed downloads, refused
constructors, kills and restarts of the server), `MaxLength`.

Deadlock is checked except where the system may stop: the pool after an abort
or a return, `Crawl` and `AdjacentCount` when they are done.

### Fairness

- `Crowler`: weak fairness of the main thread and of each worker, because the
  operating system runs every thread. Spurious wakeups are not fair. No
  fairness of the mutex is needed.
- `Crawl`: weak fairness of the worker; a download is answered, fails, or, its
  peer being silent, never ends. `CrawlEnds` promises nothing in the last case.
- `Indexer`: weak fairness of each crawler's own steps, including the next run
  after one that ended or died: somebody runs `./crowler` again. A silent peer
  is not in this module: a crawler it holds up has to be killed (`Kill`) and run
  again. Faults are never fair, and bounded.
- `SearchEngine`: in addition weak fairness of the server, whose clients keep
  asking.
- `HttpServer`: weak fairness of the thread (the database answers every
  statement), of each deadline (time passes), and of starting the server when
  it does not run. Clients owe nothing: they may never send, never read and
  never leave. Reads, writes and calls of clients have no fairness.
- `IniParser`: none, safety only.

### What the violations show

1. `search_leak`: the leaked connections. A server answers only so many
   searches. In the same way a crawl of more pages than the server grants
   connections aborts, in every run at the same page (`Terminate` in `Indexer`).
2. `search_incomplete`: rows without `ORDER BY` make a multi-word search miss
   resources. Only one-word searches are complete (`OneWordComplete`). A query
   that repeats a word never matches either, because the filter compares with
   the number of words and a resource has one row per distinct word.
3. `crawl_absolute`: the page behind an absolute link is requested without the
   slash its path begins with.

### What else the models show of the code

- `work` never returns, so the destructor of `Crowler`, whose comment says that
  it waits for the threads' work to end (`Crowler.cpp:41`), never does either:
  the crawler has to be killed when it is done. In `Crowler` no action leaves
  `main = "join"` while there is a worker.
- An insert refused because another crawler was faster is not followed by a
  lookup; the id stays 0 and the presence is lost until the page is crawled
  again, although the comment on `insertPresence` promises to add the word and
  the resource "if they are not there yet" (`DbManager.cpp:152`).
  `PresenceSaved` names this exception (`Raced`), its proof shows that it is the
  only one, and `RetrySucceeds` and `EventuallyIndexed` that nothing is lost for
  good.
- `README.MD:40` tells the user to open `.../search`; a GET of that target is
  answered with 404, the form is at `/` (`create_response`).
- A failed read is not answered, not even with 400: the client waits for the
  deadline (`HandleReadError`).
- A peer that accepts a connection and stays silent stops a crawl for ever:
  `connect`, `handshake` and `read` of `download` have no timeout
  (`Crowler.cpp:112-138`), and there is one task, so one thread that crawls.
- A configuration that has become unreadable while the server runs gives the
  same empty reply as a search that finds nothing: every search reads the file
  again, and the catch block takes that exception too (`ConstructorThrows`).
- Relative links of a page that a redirect to another host has led to are
  looked up on the first host (`Crowler.cpp:75` has the domain of the call).
- While a search waits for the database, nothing else is served, and no
  deadline closes a socket. A reply that comes after its deadline is lost.

## Proofs

All theorems hold for every value of the constants under the assumptions named
in the modules, which TLC evaluates in the runs.

`CrowlerProofs`, first of the queue, for any set of threads and tasks and any
bound. The inductive invariant `QueueIInv` adds to the checked properties that a thread is
in a locked phase exactly while it owns the mutex (without it nothing relates
what a thread saw of `queue_` to what it is when the thread acts) and that a
pushing thread has a task. From it: `QueueTypeCorrect`, `PopNeverEmpty`,
`NoLostWakeup`, and, step by step, `QueueIsFIFO`, the refinement of
`TaskQueue`.

Then of the pool, for any set of workers. `PoolIInv` adds to `QueueIInv` that
only main pushes and only workers pop, and where the task is: with main, in the
queue, with one worker, or counted in `runs` (`TaskIsSomewhere`). From it:
`PoolTypeCorrect` and `OneThreadCrawls`, which is what entitles `Indexer` to
one writing thread per crawler.

`CrawlProofs`, for any finite webs, any authorities, depths and width of a
short. A bound on the height of the stack is not inductive: `CrawlIInv` says
that the call at height k has the configured depth less k, as a short, and that
a call whose depth is 1 has no links left. That 0 and values above the range of
a short also come down to 1 after `Levels` calls, and not before, is arithmetic
of `%` (`ToShortIs`). From it: `CrawlTypeCorrect` and `RecursionEnds` (the
height).

`SearchInv` adds that the crawl is a search of the web, as the recursive
definitions `Hops` and `Level` mean it. Three ideas carry it. A running download
has come from its call's target by a chain of redirects (`Redirecting`), and a
chain that ends does so within as many redirects as there are resources, since
otherwise one of them would come twice (`ChainShort`, by the pigeonhole
principle of `FiniteSetTheorems`); so what is saved is what `Hops` ends with
(`BodyIsFinal`). The call at height k processes a target of level k with links
of that target (`CallsOnLevels`). And, as long as no download has failed, there
is a set D of visits, pairs of a target and a level (`Visits`): it holds the
start page, the target of each is saved or about to be, and for each link of
each, the visit one level on is in D, or the link is still to be gone through
by a call on the stack. D is not a variable of the program, which remembers no
visits; the invariant says that such a set exists, and each step's proof names
the next one. When the stack is empty nothing is left to do, and D is closed
under links up to the last level. From it: `DepthIsRespected` and
`CrawlIsComplete`: a crawl without failures has saved exactly `WithinDepth`.

`AdjacentCountProofs`, for vectors of any length over any elements. `LoopInv`
says that the iterator is at the start of a run of the argument (`AtRunStart`),
that the last run counted ends where it stands (`LastRun`), and that what has
been collected are the runs before it and their totals (`RunsBefore`,
`TotalsBefore`). `AdjacentRuns` joins the runs with the recursive `FlattenSeq`
of the community modules, of which the lemmas `FlattenIs` and `FlattenAppend`
prove what the loop needs. From it: `EveryPrefixCounted`, `AllRunsReturned` and
`GroupedTotals`.

Induction in these two modules is over natural numbers, and first-order: a set
of numbers with 0 and with every successor has all of them (`Induct`), because
what is missing would have a least element (`Least`, from `WFMin`). The
equations of a recursive function (`Hops`, `Level`, `FlattenSeq`) follow once a
function that satisfies them is shown to exist, by `Induct` on its length.

`IndexerProofs`, for any crawlers, sites, limits and numbers of faults. The
inductive invariant `IndexerIInv` says of each crawler that its page is a
version of its resource, that its ids are those of the word and resource at
hand or 0, and that what its live connection found or inserted exists. The
last part is stable under steps of others because rows are never deleted
(`OthersKeep`). From it: `IndexerTypeCorrect`, `IndexIsFaithful`,
`RetryAlwaysSucceeds`, and `PresenceIsSaved`: with both ids there, the
frequency is refused only if it is stored already.

`SearcherProofs` and `SearchProofs`, for any crawlers, sites, queries, limits
and faults. `SearchIInv` follows a search through its stages: the ids are those
of the words looked up so far, or 0; what `accepted` holds has all words; the
resources of `before` still match. Its core is `AcceptedMatch`: as many rows of
one resource as the query has words, selected by those words, are rows of all
its words, since no resource has two rows of a word. It needs the constraints
of the tables as an invariant (`Constrained`), and is the same whatever the
order of the rows. `SystemIInv` joins it to `IndexerIInv`; a crawler's step only
adds rows, which a search survives, and the server writes no table. From it:
`SystemTypeCorrect`, `RepliesAreSound`, `RepliesAreSorted`,
`OneWordRepliesAreComplete` and `EngineImplementsIndex`, the refinement of `InvertedIndex`.

`HttpServerProofs`, for any connections, requests and queries. `HttpIInv` joins
`SearchIInv` to what holds of one connection (`ObjectOK`: the socket is open
exactly while a handler of the timer is to come, no write begins before the
read has ended, ...), to the queue (`QueueOK`, `OnceIn`: a queued handler is
that of an operation which has ended, and is queued once, so that a handler
finds what it expects), and to the running search (`ThreadOK`: it is the one of
the request of the connection whose handler runs). From it: `HttpTypeCorrect`,
`DeadlineAlwaysGuards`, `RepliesBelongToRequests`, `OnlyDeadlineCuts`,
`NothingFollowsDeadline` and `ServerImplementsIndex`: a handler that asks, is
refused, replies, fails or dies with the server is a step of the abstract index
or a stutter, and everything else that connections do is a stutter. The lemmas
about the steps of a search (`AskImplements`, `ReplyImplements`, ...) are those
of `SearcherProofs`, which `SearchProofs` uses too.

`IniParserProofs`, for files of any length. `FieldsAreKept` needs no
hypothesis. `OnlyMalformedFails` and `FilesReadAsWritten` are about files all of
whose lines are in a grammar (`PlainLines`, with `SectionLine`, `FieldLine`,
`NothingLine` and `MalformedLine` for lines of any length), which derives what a
line says from how it is written, the odd lines listed under IniParser above
included. Two kinds of lines are left out: a value of nothing but spaces, and a
last `=` behind another one. Paths have one `.` with something behind it, and a
space is not a numeral. The lemmas of the first half compute what the string
functions do with such lines: where `Find` finds (`FindIs`), what a string
joined from parts is split into (`CutJoined`, `SplitJoinedBy`), what is left
without its first spaces (`SpacesSkipped`), and from them that each line is read
as what it says (`LineMeant`). The other half is about how lines follow each
other: `IniIInv` is `ReadsAsWritten` for the lines read so far, together with
the section open after them; each line extends or replaces the last assignment.
The lines, paths and numerals of `MCIniParser` satisfy the three hypotheses.

Assumptions: `QueueAssumption`, `PoolAssumption`, `CrawlAssumption`,
`AdjacentAssumption`, `DbAssumption`, `IndexerAssumption`, `SearcherAssumption`, `ProcessAssumption`,
`HttpAssumption`, `IniAssumption`, all about types of constants, sets that
are disjoint, and hosts and names that are finitely many.

Only model-checked: liveness (`StartTaskTaken`, `EventuallyIndexed`,
`CrawlEnds`, `EveryConnectionEnds`, `CallersAccepted`), which is out of the
prover's reach. Every safety property of a passing run is a theorem.

## Plan

Done: the queue, the pool, the crawl, the database, the indexer, the search, the
composition of indexer and search with its abstract specification, the server,
the configuration, and their proofs.

Left: the composition of `Crawl` with `Indexer`, so that `CrawlOrder` becomes
what the recursion does; the composition of several crawlers with the server
(now a crawler is the single action `CrawlerCommits` there).

## Not modelled

- Extraction (`getDataFromHtml`, `getWords`, `getSubUrls`): regular expressions
  over text. What they match is a question about `std::regex`; the models take
  the words and links of a page as data.
- `root_certificates.hpp` beyond the set of authorities it amounts to: 3963
  lines, nearly all of them certificates, 73 percent of the repository's lines
  of code. Only its functions at the end are mapped, so the models stand for a
  small share of all lines and for nearly all of the code that is not data.
- `getUrlsIdsByWord`, `get_value<int>` and `get_value<float>`, which nothing
  calls; the exceptions nothing throws; the commented-out half of `main.cpp`.
- TLS beyond the verification of the peer, the bytes of HTTP, console output,
  the build.
