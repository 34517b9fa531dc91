------------------------------- MODULE Indexer -------------------------------
(***************************************************************************)
(* The crawler processes as writers of the database: savePresencesToDb     *)
(* (Crowler.cpp) and insertPresence (DbManager.cpp) for every page of a    *)
(* crawl.  A run of the program has one task, so one thread of a process   *)
(* writes; several processes may run on one database.  insertPresence is   *)
(* up to five transactions, and other processes, a lost connection or the  *)
(* end of the process can come between any two of them.                    *)
(*                                                                         *)
(* processUrl's recursion over links is left to its own module: here a     *)
(* crawl visits the pages of CrawlOrder, the same in every run because     *)
(* every run reads the same configuration and site, and a page that cannot *)
(* be downloaded also hides some of the pages after it.                    *)
(***************************************************************************)
EXTENDS DbManager, Sequences

CONSTANTS
  Crawler,       \* the crawler processes
  CrawlOrder,    \* the resources a run visits, in order
  Versions,      \* the contents a resource may have: word counts
  FreqModulus,   \* 2^16: counts are unsigned short
  MaxFaults      \* bound on lost connections, failed downloads and kills

ASSUME IndexerAssumption ==
  /\ Crawler \subseteq Process
  /\ CrawlOrder \in Seq(Url)
  /\ FreqModulus \in Nat \ {0}
  /\ MaxFaults \in Nat
  /\ \A u \in Url : \A v \in Versions[u] :
       DOMAIN v \subseteq Word /\ \A w \in DOMAIN v : v[w] \in Nat \ {0}

VARIABLES
  pc,          \* where each crawler stands
  pos,         \* index in CrawlOrder of the next page
  url, page,   \* the page being saved and its word counts
  todo,        \* words of the page not yet passed to insertPresence
  word,        \* argument of the running insertPresence
  wordId, urlId,
  faults       \* faults so far

localVars == <<pc, pos, url, page, todo, word, wordId, urlId>>
indexerVars == <<dbVars, localVars, faults>>

EmptyPage == [w \in {} |-> 0]
Contents == {EmptyPage} \cup UNION {Versions[u] : u \in Url}
Stage == {"crawl", "connect", "save", "insertWord", "getUrlId", "insertUrl",
          "insertFrequency", "down"}

\* Each variable of the crawlers has its type.
TypeOK ==
  /\ DbTypeOK
  /\ pc \in [Crawler -> Stage]
  /\ pos \in [Crawler -> 1 .. Len(CrawlOrder) + 1]
  /\ url \in [Crawler -> Url \cup {NoId}]
  /\ page \in [Crawler -> Contents]
  /\ todo \in [Crawler -> SUBSET Word]
  /\ word \in [Crawler -> Word \cup {NoId}]
  /\ wordId \in [Crawler -> Word \cup {NoId}]
  /\ urlId \in [Crawler -> Url \cup {NoId}]
  /\ faults \in 0 .. MaxFaults

IndexerInit ==
  /\ DbInit
  /\ pc = [c \in Crawler |-> "crawl"]
  /\ pos = [c \in Crawler |-> 1]
  /\ url = [c \in Crawler |-> NoId]
  /\ page = [c \in Crawler |-> EmptyPage]
  /\ todo = [c \in Crawler |-> {}]
  /\ word = [c \in Crawler |-> NoId]
  /\ wordId = [c \in Crawler |-> NoId]
  /\ urlId = [c \in Crawler |-> NoId]
  /\ faults = 0

Fault == faults < MaxFaults /\ faults' = faults + 1

Goto(c, from, to) == pc[c] = from /\ pc' = [pc EXCEPT ![c] = to]

\* Nothing is left of the process's stack, for a run that starts at stage s.
Reset(c, s) ==
  /\ pc' = [pc EXCEPT ![c] = s]
  /\ pos' = [pos EXCEPT ![c] = 1]
  /\ url' = [url EXCEPT ![c] = NoId]
  /\ page' = [page EXCEPT ![c] = EmptyPage]
  /\ todo' = [todo EXCEPT ![c] = {}]
  /\ word' = [word EXCEPT ![c] = NoId]
  /\ wordId' = [wordId EXCEPT ![c] = NoId]
  /\ urlId' = [urlId EXCEPT ![c] = NoId]

-----------------------------------------------------------------------------
(* savePresencesToDb: the page and its DbManager.                          *)

StartPage(c, v) ==
  /\ Goto(c, "crawl", "connect")
  /\ url' = [url EXCEPT ![c] = CrawlOrder[pos[c]]]
  /\ page' = [page EXCEPT ![c] = v]
  /\ todo' = [todo EXCEPT ![c] = DOMAIN v]
  /\ UNCHANGED <<dbVars, word, wordId, urlId>>

\* processUrl downloaded the page and counted its words.
SavePresences(c) ==
  /\ pos[c] <= Len(CrawlOrder)
  /\ \E v \in Versions[CrawlOrder[pos[c]]] : StartPage(c, v)
  /\ pos' = [pos EXCEPT ![c] = @ + 1]
  /\ UNCHANGED faults

\* download caught an exception or met another status than 200: the page is
\* "", it has no words and no links, and what only it links to is skipped.
DownloadFails(c) ==
  /\ pos[c] <= Len(CrawlOrder)
  /\ Fault
  /\ StartPage(c, EmptyPage)
  /\ \E n \in pos[c] + 1 .. Len(CrawlOrder) + 1 : pos' = [pos EXCEPT ![c] = n]

OpenDb(c) ==
  /\ Goto(c, "connect", "save")
  /\ Connect(c)
  /\ UNCHANGED <<tables, pos, url, page, todo, word, wordId, urlId, faults>>

\* The constructor throws out of the thread's function, for want of a free
\* connection, a database or a readable configuration: std::terminate.
Terminate(c) ==
  /\ pc[c] = "connect"
  /\ \/ Refused /\ UNCHANGED faults
     \/ Fault
  /\ ExitProcess(c)
  /\ Reset(c, "down")

EndPage(c) ==
  /\ todo[c] = {}
  /\ Goto(c, "save", "crawl")
  /\ Destroy(c)
  /\ url' = [url EXCEPT ![c] = NoId]
  /\ page' = [page EXCEPT ![c] = EmptyPage]
  /\ UNCHANGED <<tables, pos, todo, word, wordId, urlId, faults>>

-----------------------------------------------------------------------------
(* insertPresence: its result is dropped by the caller.                    *)

\* The map is unordered: any word left may be next.
GetWordId(c) ==
  \E w \in todo[c] :
    LET id == getWordId(c, w) IN
    /\ Goto(c, "save", IF id = NoId THEN "insertWord" ELSE "getUrlId")
    /\ word' = [word EXCEPT ![c] = w]
    /\ wordId' = [wordId EXCEPT ![c] = id]
    /\ UNCHANGED <<dbVars, pos, url, page, todo, urlId, faults>>

InsertWord(c) ==
  \E id \in Word \cup {NoId} :
    /\ Goto(c, "insertWord", "getUrlId")
    /\ insertWord(c, word[c], id)
    /\ wordId' = [wordId EXCEPT ![c] = id]
    /\ UNCHANGED <<conn, held, pos, url, page, todo, word, urlId, faults>>

\* The lookup without the insert that follows it.
GetUrlIdOnly(c) ==
  LET id == getUrlId(c, url[c]) IN
  /\ Goto(c, "getUrlId", "insertFrequency")
  /\ urlId' = [urlId EXCEPT ![c] = id]
  /\ UNCHANGED <<dbVars, pos, url, page, todo, word, wordId, faults>>

GetUrlId(c) ==
  LET id == getUrlId(c, url[c]) IN
  /\ Goto(c, "getUrlId", IF id = NoId THEN "insertUrl" ELSE "insertFrequency")
  /\ urlId' = [urlId EXCEPT ![c] = id]
  /\ UNCHANGED <<dbVars, pos, url, page, todo, word, wordId, faults>>

InsertUrl(c) ==
  \E id \in Url \cup {NoId} :
    /\ Goto(c, "insertUrl", "insertFrequency")
    /\ insertUrl(c, url[c], id)
    /\ urlId' = [urlId EXCEPT ![c] = id]
    /\ UNCHANGED <<conn, held, pos, url, page, todo, word, wordId, faults>>

Count(c) == page[c][word[c]] % FreqModulus

InsertFrequency(c) ==
  /\ Goto(c, "insertFrequency", "save")
  /\ insertFrequency(c, wordId[c], urlId[c], Count(c))
  /\ todo' = [todo EXCEPT ![c] = @ \ {word[c]}]
  /\ word' = [word EXCEPT ![c] = NoId]
  /\ wordId' = [wordId EXCEPT ![c] = NoId]
  /\ urlId' = [urlId EXCEPT ![c] = NoId]
  /\ UNCHANGED <<conn, held, pos, url, page, faults>>

-----------------------------------------------------------------------------
(* What happens to the process.                                            *)

LoseConnection(c) ==
  /\ Fault
  /\ ConnectionLost(c)
  /\ UNCHANGED localVars

Kill(c) ==
  /\ pc[c] # "down"
  /\ Fault
  /\ ExitProcess(c)
  /\ Reset(c, "down")

\* Someone runs ./crowler again, after it died or had nothing left to do.
Rerun(c) ==
  /\ \/ pc[c] = "down"
     \/ pc[c] = "crawl" /\ pos[c] > Len(CrawlOrder)
  /\ ExitProcess(c)
  /\ Reset(c, "crawl")
  /\ UNCHANGED faults

InsertPresence(c) ==
  GetWordId(c) \/ InsertWord(c) \/ GetUrlId(c) \/ InsertUrl(c)
    \/ InsertFrequency(c)

CrawlerStep(c) ==
  \/ SavePresences(c) \/ OpenDb(c) \/ InsertPresence(c) \/ EndPage(c)
  \/ Terminate(c) \/ Rerun(c)

CrawlerNext(c) ==
  CrawlerStep(c) \/ DownloadFails(c) \/ LoseConnection(c) \/ Kill(c)

IndexerNext == \E c \in Crawler : CrawlerNext(c)

IndexerSpec == IndexerInit /\ [][IndexerNext]_indexerVars

\* The operating system runs every crawler's thread, PostgreSQL answers every
\* statement, and a run that ended is followed by another.
FairIndexerSpec ==
  IndexerSpec /\ \A c \in Crawler : WF_indexerVars(CrawlerStep(c))

-----------------------------------------------------------------------------
(* Properties.                                                             *)

Storable(w, u) == w \notin LongWord /\ u \notin LongUrl

\* Every row of frequencies says what some version of its page said: the ids
\* a crawler collects over several transactions, among those of other
\* crawlers, are never those of another word or resource, and the count is
\* the page's, modulo the width of unsigned short.
RowsFaithful ==
  \A r \in frequencies : \E v \in Versions[r.url] :
    r.word \in DOMAIN v /\ r.frequency = v[r.word] % FreqModulus

\* The last transaction of an insertPresence whose connection is alive and
\* whose texts fit the columns.
PresenceDone(c) ==
  /\ pc[c] = "insertFrequency" /\ pc'[c] = "save"
  /\ conn[c] = "open" /\ Storable(word[c], url[c])

\* An id stayed 0 although the row is there: another process inserted it
\* between the lookup and the insert.
Raced(c) ==
  \/ wordId[c] = NoId /\ word[c] \in words
  \/ urlId[c] = NoId /\ url[c] \in urls

\* Such a call has put the presence into the database ("adding a new
\* frequency to the database, and the word and the resource if they are not
\* there yet", DbManager.cpp:152); nothing but a lost race keeps it from that.
PresenceSaved ==
  [][\A c \in Crawler : PresenceDone(c) =>
       Raced(c) \/ \E r \in frequencies' :
                     r.word = word[c] /\ r.url = url[c]]_indexerVars

\* Even when it loses a race for a row of words or urls, both rows exist when
\* it ends: the next insertPresence of the same presence does not fail.
RetrySucceeds ==
  [][\A c \in Crawler :
       PresenceDone(c) => word[c] \in words' /\ url[c] \in urls']_indexerVars

\* Once faults stop, crawling again and again stores every presence that
\* every version of its page has, whatever the earlier runs left half done.
EventuallyIndexed ==
  \A i \in DOMAIN CrawlOrder : \A w \in Word :
    LET u == CrawlOrder[i] IN
    (Storable(w, u) /\ \A v \in Versions[u] : w \in DOMAIN v)
      => <>[]Stored(w, u)
=============================================================================
