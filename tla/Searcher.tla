------------------------------- MODULE Searcher -------------------------------
(***************************************************************************)
(* The http_server process as a reader of the database: processSearch-     *)
(* Request (Searcher.cpp) and the query methods of DbManager it calls.     *)
(* The server has one thread, so it runs one search at a time; a search    *)
(* is a sequence of transactions, and the crawlers commit between them.    *)
(***************************************************************************)
EXTENDS DbManager, Sequences, SequencesExt, AdjacentRuns

CONSTANTS
  Server,    \* the http_server process
  Queries    \* the lists of words a search may ask for

ASSUME SearcherAssumption ==
  /\ Server \in Process
  /\ Queries \subseteq Seq(Word) /\ <<>> \notin Queries

VARIABLES
  stage,      \* the function the search is in
  query,      \* its words
  ids,        \* result of getWordsIds so far
  accepted,   \* result of getUrlsIdsByWords
  reply,      \* result of the last search, while idle
  caught,     \* the last search ended in the catch block
  before      \* the resources that matched the query when it came in

searchVars == <<stage, query, ids, accepted, reply, caught, before>>

\* Every word of q is on resource u.
Matches(u, q) == \A w \in Range(q) : Stored(w, u)

\* sum(frequency) over some rows.
Occurrences(rows) == MapThenSumSet(LAMBDA r : r.frequency, rows)

\* Occurrences of the words of q on u that the database has.
Total(u, q) ==
  Occurrences({r \in frequencies : r.url = u /\ r.word \in Range(q)})

SearchTypeOK ==
  /\ stage \in {"idle", "connect", "getUrlsIdsByWords", "getSortedUrlsByWords"}
  /\ query \in Seq(Word)
  /\ ids \in Seq(Word \cup {NoId})
  /\ accepted \subseteq Url
  /\ reply \in Seq(Url)
  /\ caught \in BOOLEAN
  /\ before \subseteq Url

SearchInit ==
  /\ stage = "idle" /\ query = <<>> /\ ids = <<>> /\ accepted = {}
  /\ reply = <<>> /\ caught = FALSE /\ before = {}

-----------------------------------------------------------------------------
(* getUrlsIdsByWords.                                                      *)

\* A filter that asks for some of the words only.
AcceptedAny(rows, q) ==
  {p[1] : p \in Runs([i \in DOMAIN rows |-> rows[i].url])}

\* A filter that asks for more adjacent rows than there are words.
AcceptedMore(rows, q) ==
  {p[1] : p \in {x \in Runs([i \in DOMAIN rows |-> rows[i].url]) :
                   x[2] > Len(q)}}

\* The resources of the rows with as many adjacent rows as there are words.
Accepted(rows, q) ==
  {p[1] : p \in {x \in Runs([i \in DOMAIN rows |-> rows[i].url]) :
                   x[2] = Len(q)}}

\* The select without its WHERE.
RowsOfTable == frequencies

\* Rows of the words looked up, and those of accepted resources among them.
RowsOfWords == {r \in frequencies : r.word \in Range(ids)}
RowsJoined == {r \in RowsOfWords : r.url \in accepted}

\* "order by sum_freq DESC"; the order of equal sums is open.
SumFreq(u) == Occurrences({r \in RowsJoined : r.url = u})

\* The statement without its ORDER BY.
AnyOrder(s) == TRUE

Descending(s) ==
  \A i, j \in DOMAIN s : i < j => SumFreq(s[i]) >= SumFreq(s[j])

-----------------------------------------------------------------------------
ProcessSearchRequest(q) ==
  /\ stage = "idle" /\ stage' = "connect"
  /\ query' = q
  /\ before' = {u \in Url : Matches(u, q)}
  /\ reply' = <<>> /\ caught' = FALSE
  /\ UNCHANGED <<dbVars, ids, accepted>>

OpenSearch ==
  /\ stage = "connect" /\ stage' = "getUrlsIdsByWords"
  /\ Connect(Server)
  /\ UNCHANGED <<tables, query, ids, accepted, reply, caught, before>>

LookupsDone == Len(ids) = Len(query)

\* getWordsIds, one transaction per word.  getSortedUrlsByWords calls it a
\* second time after getUrlsIdsByWords.
GetWordsIds ==
  /\ stage \in {"getUrlsIdsByWords", "getSortedUrlsByWords"}
  /\ ~LookupsDone
  /\ ids' = Append(ids, getWordId(Server, query[Len(ids) + 1]))
  /\ UNCHANGED <<dbVars, stage, query, accepted, reply, caught, before>>

\* The select has no ORDER BY: its rows come in any order.
GetUrlsIdsByWords ==
  /\ stage = "getUrlsIdsByWords" /\ stage' = "getSortedUrlsByWords"
  /\ LookupsDone /\ conn[Server] = "open"
  /\ \E rows \in SetToSeqs(RowsOfWords) : accepted' = Accepted(rows, query)
  /\ ids' = <<>>
  /\ UNCHANGED <<dbVars, query, reply, caught, before>>

\* With no accepted resource the last statement is not sent.
GetSortedUrlsByWords ==
  /\ stage = "getSortedUrlsByWords" /\ stage' = "idle"
  /\ LookupsDone
  /\ accepted # {} => conn[Server] = "open"
  /\ reply' \in {s \in SetToSeqs({r.url : r \in RowsJoined}) : Descending(s)}
  /\ ids' = <<>> /\ accepted' = {}
  /\ Destroy(Server)
  /\ UNCHANGED <<tables, query, caught, before>>

\* The catch block of processSearchRequest: an empty result.
CatchException ==
  /\ stage' = "idle" /\ reply' = <<>> /\ caught' = TRUE
  /\ ids' = <<>> /\ accepted' = {}
  /\ Destroy(Server)
  /\ UNCHANGED <<tables, query, before>>

\* No connection is granted, or a statement needs the one that is lost.
StatementThrows ==
  /\ \/ stage = "connect" /\ Refused
     \/ /\ LookupsDone /\ conn[Server] # "open"
        /\ \/ stage = "getUrlsIdsByWords"
           \/ stage = "getSortedUrlsByWords" /\ accepted # {}
  /\ CatchException

\* The constructor throws for another reason.  It reads the configuration
\* again for every search: the file may be gone, a line or a field of it
\* wrong; or the database is down.
ConstructorThrows ==
  /\ stage = "connect"
  /\ CatchException

SearchStep ==
  OpenSearch \/ GetWordsIds \/ GetUrlsIdsByWords \/ GetSortedUrlsByWords
    \/ StatementThrows

\* The variables of a search go out of scope.
ForgetSearch ==
  /\ stage' = "idle" /\ query' = <<>> /\ ids' = <<>> /\ accepted' = {}
  /\ reply' = <<>> /\ caught' = FALSE /\ before' = {}

\* The process ends and is started again: the search and its client are gone.
RestartServer == ExitProcess(Server) /\ ForgetSearch

-----------------------------------------------------------------------------
(* Properties.                                                             *)

\* Every resource of a reply holds every word of the query ("getting the
\* resources each of which contains all words of the request",
\* DbManager.cpp:240), although the words were looked up, the rows counted
\* and the reply sorted in different transactions, in an order of rows that
\* nothing fixes, with an id 0 for words that were not there yet.
SearchSound == \A i \in DOMAIN reply : Matches(reply[i], query)

\* A reply names no resource twice and is sorted by the number of occurrences
\* of the query's words that the database has, rows committed by crawlers
\* between the first lookup and the last select included.
ReplySorted ==
  \A i, j \in DOMAIN reply : i < j =>
    /\ reply[i] # reply[j]
    /\ Total(reply[i], query) >= Total(reply[j], query)

\* A search that ended outside the catch block.
Answered == stage = "idle" /\ query # <<>> /\ ~caught

\* The reply to a search for one word has every resource that held the word
\* when the search came in.
OneWordComplete ==
  (Answered /\ Len(query) = 1) => before \subseteq Range(reply)

\* The same for every search ("method for getting all resources that contain
\* each requested word", DbManager.h:51).
AllMatchesReturned == Answered => before \subseteq Range(reply)

\* Every step of a system with searches in it is a step of InvertedIndex or
\* changes nothing that specification can see: a search that reads the tables
\* over several transactions replies as if it had read them all at its last.
II == INSTANCE InvertedIndex WITH
        index <- frequencies, asked <- (stage # "idle")

ImplementsInvertedIndex == II!Spec
=============================================================================
