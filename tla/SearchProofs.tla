----------------------------- MODULE SearchProofs -----------------------------
(***************************************************************************)
(* Proofs about SearchEngine, for any crawlers, server, sites and queries. *)
(* The invariant is that of the crawlers (IndexerProofs) and that of the   *)
(* running search (SearcherProofs): a crawler's step only adds rows, which *)
(* the search survives, and a step of the server writes no table.          *)
(***************************************************************************)
EXTENDS SearchEngine, IndexerProofs, SearcherProofs

SystemIInv == IndexerIInv /\ SearchIInv

ServerStep == SearchStep \/ \E q \in Queries : ProcessSearchRequest(q)

-----------------------------------------------------------------------------
(* Steps of the crawlers.                                                  *)

\* What a crawler does to the server's connection and to the tables.
LEMMA CrawlerFrame ==
  ASSUME TypeOK, NEW c \in Crawler, CrawlerNext(c)
  PROVE  /\ conn'[Server] = conn[Server] /\ held'[Server] = held[Server]
         /\ \/ /\ words \subseteq words' /\ urls \subseteq urls'
               /\ UNCHANGED frequencies
            \/ InsertFrequency(c)
<1> USE ProcessAssumption, IndexerAssumption, SearcherAssumption
    DEF TypeOK, DbTypeOK, CrawlerNext, CrawlerStep, InsertPresence, dbVars,
        tables
<1>1. CASE SavePresences(c) \/ DownloadFails(c)
  BY <1>1 DEF SavePresences, DownloadFails, StartPage
<1>2. CASE OpenDb(c)
  BY <1>2 DEF OpenDb, Connect
<1>3. CASE EndPage(c)
  BY <1>3 DEF EndPage, Destroy
<1>4. CASE Terminate(c) \/ Rerun(c) \/ Kill(c)
  BY <1>4 DEF Terminate, Rerun, Kill, ExitProcess
<1>5. CASE LoseConnection(c)
  BY <1>5 DEF LoseConnection, ConnectionLost
<1>6. CASE GetWordId(c) \/ GetUrlId(c)
  BY <1>6 DEF GetWordId, GetUrlId
<1>7. CASE InsertWord(c)
  BY <1>7 DEF InsertWord, insertWord
<1>8. CASE InsertUrl(c)
  BY <1>8 DEF InsertUrl, insertUrl
<1>9. CASE InsertFrequency(c)
  BY <1>9 DEF InsertFrequency
<1> QED
  BY <1>1, <1>2, <1>3, <1>4, <1>5, <1>6, <1>7, <1>8, <1>9

LEMMA CrawlerAddsRows ==
  ASSUME SystemIInv, NEW c \in Crawler, CrawlerNext(c), TypeOK'
  PROVE  RowsGrow /\ Constrained'
<1> USE DEF SystemIInv, IndexerIInv, SearchIInv, Constrained
<1>1. DbTypeOK'
  BY DEF TypeOK
<1>2. CASE /\ words \subseteq words' /\ urls \subseteq urls'
           /\ UNCHANGED frequencies
  BY <1>1, <1>2 DEF RowsGrow, UniqueRows, RowsHaveKeys
<1>3. CASE InsertFrequency(c)
  <2> DEFINE row == [word |-> wordId[c], url |-> urlId[c], frequency |-> Count(c)]
  <2>1. words' = words /\ urls' = urls
    BY <1>3 DEF InsertFrequency, insertFrequency, tables
  <2>2. CASE FrequencyRefused(c, wordId[c], urlId[c])
    <3>1. UNCHANGED frequencies
      BY <1>3, <2>2 DEF InsertFrequency, insertFrequency, tables
    <3> QED
      BY <1>2, <2>1, <3>1
  <2>3. CASE ~FrequencyRefused(c, wordId[c], urlId[c])
    <3>1. frequencies' = frequencies \cup {row}
      BY <1>3, <2>3 DEF InsertFrequency, insertFrequency
    <3>2. row.word = wordId[c] /\ row.url = urlId[c]
      OBVIOUS
    <3>3. /\ row.word \in words /\ row.url \in urls
          /\ ~Stored(row.word, row.url)
      BY <2>3, <3>2 DEF FrequencyRefused, Stored
    <3>4. row \in Row
      BY <1>1, <3>1 DEF DbTypeOK
    <3> HIDE DEF row
    <3>5. RowsGrow
      BY <3>1, <3>3, <3>4 DEF RowsGrow
    <3>6. IsFiniteSet(frequencies')
      BY <3>1, FS_AddElement
    <3>7. UniqueRows'
      BY <3>1, <3>3 DEF UniqueRows, Stored
    <3>8. RowsHaveKeys'
      BY <2>1, <3>1, <3>3 DEF RowsHaveKeys
    <3> QED
      BY <1>1, <3>5, <3>6, <3>7, <3>8
  <2> QED
    BY <2>2, <2>3
<1> QED
  BY <1>2, <1>3, CrawlerFrame

LEMMA CrawlerActionKeeps ==
  ASSUME SystemIInv, CrawlerAction PROVE SystemIInv' /\ RowsGrow
<1>1. PICK c \in Crawler : CrawlerNext(c)
  BY DEF CrawlerAction, IndexerNext
<1>2. IndexerIInv'
  BY IndexerStep DEF SystemIInv, CrawlerAction
<1>3. RowsGrow /\ Constrained'
  BY <1>1, <1>2, CrawlerAddsRows DEF IndexerIInv
<1>4. conn'[Server] = conn[Server] /\ held'[Server] = held[Server]
  BY <1>1, CrawlerFrame DEF SystemIInv, IndexerIInv
<1>5. SearchIInv'
  <2>1. conn'[Server] = "open" => conn[Server] = "open" /\ ServerHolds'
    BY <1>4 DEF ServerHolds, SystemIInv, SearchIInv
  <2> QED
    BY <1>3, <2>1, OthersKeepSearch DEF SystemIInv, CrawlerAction
<1> QED
  BY <1>2, <1>3, <1>5 DEF SystemIInv

-----------------------------------------------------------------------------
(* Steps of the server.                                                    *)

\* The crawlers do not see what the server does to its own connections.
LEMMA ServerKeepsIndexer ==
  ASSUME IndexerIInv, UNCHANGED <<tables, localVars>>, faults' \in 0 .. MaxFaults,
         Connect(Server) \/ Destroy(Server) \/ ExitProcess(Server)
           \/ ConnectionLost(Server) \/ UNCHANGED <<conn, held>>
  PROVE  IndexerIInv'
<1> USE SearcherAssumption, IndexerAssumption, ProcessAssumption
    DEF IndexerIInv, tables, localVars
<1>1. /\ \A d \in Crawler : conn'[d] = conn[d]
      /\ DbTypeOK' /\ OpenIsHeld'
  <2> USE DEF TypeOK, DbTypeOK, OpenIsHeld
  <2>1. CASE Connect(Server)
    BY <2>1 DEF Connect
  <2>2. CASE Destroy(Server)
    BY <2>2 DEF Destroy
  <2>3. CASE ExitProcess(Server)
    BY <2>3 DEF ExitProcess
  <2>4. CASE ConnectionLost(Server)
    BY <2>4 DEF ConnectionLost
  <2>5. CASE UNCHANGED <<conn, held>>
    BY <2>5
  <2> QED
    BY <2>1, <2>2, <2>3, <2>4, <2>5
<1>2. TypeOK'
  BY <1>1 DEF TypeOK
<1>3. RowsFaithful'
  BY DEF RowsFaithful
<1>4. \A d \in Crawler : Local(d)'
  BY <1>1, OthersKeep
<1> QED
  BY <1>1, <1>2, <1>3, <1>4

\* What a step of the server can do to its connection.
LEMMA ServerStepFrame ==
  ASSUME ServerStep
  PROVE  /\ UNCHANGED tables
         /\ Connect(Server) \/ Destroy(Server) \/ UNCHANGED <<conn, held>>
BY DEF ServerStep, SearchStep, OpenSearch, GetWordsIds, GetUrlsIdsByWords,
       GetSortedUrlsByWords, StatementThrows, CatchException,
       ProcessSearchRequest, dbVars, tables

LEMMA ServerActionKeeps ==
  ASSUME SystemIInv, ServerAction PROVE SystemIInv'
<1>1. ServerStep /\ UNCHANGED <<localVars, faults>>
  BY DEF ServerAction, ServerStep
<1>2. SearchIInv'
  BY <1>1, SearchStepKeeps, ProcessSearchRequestKeeps DEF ServerStep, SystemIInv
<1>3. IndexerIInv'
  BY <1>1, ServerStepFrame, ServerKeepsIndexer
     DEF SystemIInv, IndexerIInv, TypeOK, tables, localVars
<1> QED
  BY <1>2, <1>3 DEF SystemIInv

LEMMA ServerFaultKeeps ==
  ASSUME SystemIInv, ServerFault PROVE SystemIInv'
<1> USE DEF ServerFault
<1>1. faults' \in 0 .. MaxFaults
  BY IndexerAssumption DEF Fault, SystemIInv, IndexerIInv, TypeOK
<1>2. CASE ConnectionLost(Server) /\ UNCHANGED searchVars
  <2>1. UNCHANGED <<tables, localVars>>
    BY <1>2 DEF ConnectionLost, tables, localVars
  <2>2. IndexerIInv'
    BY <1>1, <1>2, <2>1, ServerKeepsIndexer DEF SystemIInv
  <2>3. Constrained'
    BY <2>1, <2>2 DEF IndexerIInv, TypeOK, SystemIInv, SearchIInv, Constrained,
                      UniqueRows, RowsHaveKeys, tables
  <2>4. conn'[Server] = "broken" /\ RowsGrow
    BY <1>2, <2>1, SearcherAssumption
       DEF ConnectionLost, tables, RowsGrow, SystemIInv, IndexerIInv, TypeOK,
           DbTypeOK
  <2>5. SearchIInv'
    BY <1>2, <2>3, <2>4, OthersKeepSearch DEF SystemIInv
  <2> QED
    BY <2>2, <2>5 DEF SystemIInv
<1>3. CASE RestartServer
  <2>1. UNCHANGED tables
    BY <1>3 DEF RestartServer, ExitProcess, tables
  <2>2. IndexerIInv'
    BY <1>1, <1>3, <2>1, ServerKeepsIndexer DEF SystemIInv, RestartServer,
       localVars
  <2>3. SearchIInv'
    BY <1>3, RestartServerKeeps DEF SystemIInv
  <2> QED
    BY <2>2, <2>3 DEF SystemIInv
<1>4. CASE ConstructorThrows
  <2>1. SearchIInv'
    BY <1>4, SearchStepKeeps DEF SystemIInv
  <2>2. UNCHANGED <<tables, localVars>> /\ Destroy(Server)
    BY <1>4 DEF ConstructorThrows, CatchException
  <2>3. IndexerIInv'
    BY <1>1, <2>2, ServerKeepsIndexer DEF SystemIInv
  <2> QED
    BY <2>1, <2>3 DEF SystemIInv
<1> QED
  BY <1>2, <1>3, <1>4

-----------------------------------------------------------------------------
LEMMA SystemInitially == Init => SystemIInv
<1> SUFFICES ASSUME Init PROVE SystemIInv
  OBVIOUS
<1> USE DEF Init, SearchInit
<1>1. IndexerIInv
  BY IndexerInitially
<1>2. Constrained /\ ServerHolds
  BY <1>1, FS_EmptySet, SearcherAssumption
     DEF IndexerIInv, TypeOK, Constrained, UniqueRows, RowsHaveKeys, ServerHolds,
         IndexerInit, DbInit
<1>3. SearchTypeOK /\ SearchShape
  <2>1. query \in Seq(Word) /\ ids \in Seq(Word \cup {NoId}) /\ reply \in Seq(Url)
    OBVIOUS
  <2>2. Len(ids) <= Len(query) /\ DOMAIN ids = {}
    OBVIOUS
  <2> QED
    BY <2>1, <2>2 DEF SearchTypeOK, SearchShape, LookedUp, Looking
<1>4. /\ AcceptedHold /\ BeforeHold /\ WordsFound /\ OneWordAccepted
      /\ SearchSound /\ ReplySorted /\ OneWordComplete
  BY DEF AcceptedHold, BeforeHold, WordsFound, OneWordAccepted, SearchSound,
         ReplySorted, OneWordComplete, Answered, Looking
<1> QED
  BY <1>1, <1>2, <1>3, <1>4 DEF SystemIInv, SearchIInv

LEMMA SystemStutters ==
  ASSUME SystemIInv, UNCHANGED vars PROVE SystemIInv' /\ RowsGrow
<1> USE DEF vars, indexerVars, dbVars, SystemIInv
<1>1. IndexerIInv'
  BY IndexerStep DEF indexerVars, dbVars
<1>2. Constrained'
  BY <1>1 DEF SearchIInv, Constrained, UniqueRows, RowsHaveKeys, IndexerIInv,
              TypeOK
<1>3. RowsGrow
  BY DEF RowsGrow
<1>4. SearchIInv'
  BY <1>2, <1>3, OthersKeepSearch DEF SearchIInv, ServerHolds
<1> QED
  BY <1>1, <1>3, <1>4

LEMMA SystemStep == SystemIInv /\ [Next]_vars => SystemIInv'
BY CrawlerActionKeeps, ServerActionKeeps, ServerFaultKeeps, SystemStutters
   DEF Next

LEMMA SystemInvariant == Spec => []SystemIInv
BY SystemInitially, SystemStep, PTL DEF Spec

\* Both programs keep their variables in their types.
THEOREM SystemTypeCorrect == Spec => []SystemTypeOK
<1>1. SystemIInv => SystemTypeOK
  BY DEF SystemIInv, IndexerIInv, SearchIInv, SystemTypeOK
<1> QED
  BY <1>1, SystemInvariant, PTL

\* Every resource of a reply holds all words of the query.
THEOREM RepliesAreSound == Spec => []SearchSound
<1>1. SystemIInv => SearchSound
  BY DEF SystemIInv, SearchIInv
<1> QED
  BY <1>1, SystemInvariant, PTL

\* A reply names resources once, by descending number of occurrences.
THEOREM RepliesAreSorted == Spec => []ReplySorted
<1>1. SystemIInv => ReplySorted
  BY DEF SystemIInv, SearchIInv
<1> QED
  BY <1>1, SystemInvariant, PTL

\* A search for one word misses no resource that was there when it came in.
THEOREM OneWordRepliesAreComplete == Spec => []OneWordComplete
<1>1. SystemIInv => OneWordComplete
  BY DEF SystemIInv, SearchIInv
<1> QED
  BY <1>1, SystemInvariant, PTL

-----------------------------------------------------------------------------
(* The refinement.                                                         *)

LEMMA AbstractInitially == Init => II!Init
BY DEF Init, IndexerInit, DbInit, SearchInit, II!Init

LEMMA ServerImplements ==
  ASSUME SearchIInv', ServerStep PROVE [II!Next]_(II!vars)
BY AskImplements, SearchStepImplements DEF ServerStep

\* A search that reads the tables in several transactions, among crawlers that
\* write them in several, replies as from the index of one moment.
THEOREM EngineImplementsIndex == Spec => ImplementsInvertedIndex
<1>1. ASSUME SystemIInv, SystemIInv', [Next]_vars PROVE [II!Next]_(II!vars)
  <2>1. CASE CrawlerAction
    BY <1>1, <2>1, CrawlerActionKeeps, CrawlerImplements DEF CrawlerAction
  <2>2. CASE ServerAction
    BY <1>1, <2>2, ServerImplements DEF ServerAction, ServerStep, SystemIInv
  <2>3. CASE ServerFault
    <3>1. CASE RestartServer
      BY <3>1, ForgetImplements DEF RestartServer, ExitProcess
    <3>2. CASE ConnectionLost(Server) /\ UNCHANGED searchVars
      BY <3>2 DEF ConnectionLost, tables, searchVars, II!vars
    <3>3. CASE ConstructorThrows
      BY <1>1, <3>3, SearchStepImplements DEF SystemIInv
    <3> QED
      BY <2>3, <3>1, <3>2, <3>3 DEF ServerFault
  <2>4. CASE UNCHANGED vars
    BY <2>4 DEF vars, indexerVars, dbVars, searchVars, II!vars
  <2> QED
    BY <1>1, <2>1, <2>2, <2>3, <2>4 DEF Next
<1> QED
  BY <1>1, AbstractInitially, SystemInvariant, PTL
     DEF Spec, ImplementsInvertedIndex, II!Spec
=============================================================================
