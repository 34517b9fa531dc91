---------------------------- MODULE IndexerProofs ----------------------------
(***************************************************************************)
(* Proofs about Indexer, for any crawlers, sites, limits and numbers of    *)
(* faults.  The invariant says what each local variable of insertPresence  *)
(* means while other processes commit: an id is that of the word or        *)
(* resource at hand or 0, and what a crawler found or inserted stays.      *)
(***************************************************************************)
EXTENDS Indexer, TLAPS

\* A process keeps at least the connection it is using.
OpenIsHeld == \A p \in Process : conn[p] = "open" => held[p] >= 1

Presence == {"insertWord", "getUrlId", "insertUrl", "insertFrequency"}

\* The page at hand is a version of its resource, or the empty page.
PageOfUrl(c) ==
  \/ page[c] = EmptyPage
  \/ url[c] \in Url /\ page[c] \in Versions[url[c]]

\* The arguments and variables of the running insertPresence.
PresenceVars(c) ==
  /\ todo[c] \subseteq DOMAIN page[c]
  /\ pc[c] \in {"crawl", "down"} => todo[c] = {}
  /\ pc[c] \in Presence => word[c] \in todo[c]
  /\ pc[c] \in Presence => wordId[c] \in {NoId, word[c]}
  /\ pc[c] = "insertFrequency" => urlId[c] \in {NoId, url[c]}

\* What a live connection has been told exists, exists.
RowsThere(c) ==
  /\ (/\ pc[c] \in Presence \ {"insertWord"}
      /\ conn[c] = "open" /\ word[c] \notin LongWord) => word[c] \in words
  /\ (/\ pc[c] = "insertFrequency"
      /\ conn[c] = "open" /\ url[c] \notin LongUrl) => url[c] \in urls

Local(c) == PageOfUrl(c) /\ PresenceVars(c) /\ RowsThere(c)

IndexerIInv ==
  TypeOK /\ OpenIsHeld /\ RowsFaithful /\ \A c \in Crawler : Local(c)

LEMMA EmptyPageFacts == DOMAIN EmptyPage = {} /\ EmptyPage \in Contents
BY DEF EmptyPage, Contents

\* Counts of a page, reduced to an unsigned short.
LEMMA CountInNat ==
  ASSUME NEW u \in Url, NEW v \in Versions[u], NEW w \in DOMAIN v
  PROVE  v[w] % FreqModulus \in Nat /\ w \in Word
<1>1. v[w] \in Nat /\ w \in Word /\ FreqModulus \in Nat \ {0}
  BY IndexerAssumption
<1> QED
  BY <1>1, SMT

LEMMA IndexerInitially == IndexerInit => IndexerIInv
<1> SUFFICES ASSUME IndexerInit PROVE IndexerIInv
  OBVIOUS
<1> USE IndexerAssumption, DbAssumption, EmptyPageFacts
        DEF IndexerInit, DbInit
<1>1. TypeOK
  <2>1. Len(CrawlOrder) \in Nat
    OBVIOUS
  <2> QED
    BY <2>1 DEF TypeOK, DbTypeOK, Stage
<1>2. OpenIsHeld /\ RowsFaithful
  BY DEF OpenIsHeld, RowsFaithful
<1>3. \A c \in Crawler : Local(c)
  BY DEF Local, PageOfUrl, PresenceVars, RowsThere, Presence
<1> QED
  BY <1>1, <1>2, <1>3 DEF IndexerIInv

\* A step that leaves d's own variables alone keeps what they mean: the tables
\* only grow, and d's connection can only be lost.
LEMMA OthersKeep ==
  ASSUME NEW d \in Crawler, Local(d),
         pc'[d] = pc[d], url'[d] = url[d], page'[d] = page[d],
         todo'[d] = todo[d], word'[d] = word[d], wordId'[d] = wordId[d],
         urlId'[d] = urlId[d],
         words \subseteq words', urls \subseteq urls',
         conn'[d] = "open" => conn[d] = "open"
  PROVE  Local(d)'
BY DEF Local, PageOfUrl, PresenceVars, RowsThere, Presence

\* The same, for all crawlers but one.
LEMMA OnlyOneMoves ==
  ASSUME TypeOK, \A d \in Crawler : Local(d), NEW c \in Crawler,
         \A d \in Crawler \ {c} :
           /\ pc'[d] = pc[d] /\ url'[d] = url[d] /\ page'[d] = page[d]
           /\ todo'[d] = todo[d] /\ word'[d] = word[d]
           /\ wordId'[d] = wordId[d] /\ urlId'[d] = urlId[d]
           /\ conn'[d] = conn[d],
         words \subseteq words', urls \subseteq urls',
         Local(c)'
  PROVE  \A d \in Crawler : Local(d)'
<1>1. ASSUME NEW d \in Crawler, d # c PROVE Local(d)'
  BY <1>1, OthersKeep
<1> QED
  BY <1>1

-----------------------------------------------------------------------------
LEMMA StartPageStep ==
  ASSUME IndexerIInv, NEW c \in Crawler, pos[c] <= Len(CrawlOrder),
         NEW v \in {EmptyPage} \cup Versions[CrawlOrder[pos[c]]],
         StartPage(c, v),
         NEW n \in pos[c] + 1 .. Len(CrawlOrder) + 1,
         pos' = [pos EXCEPT ![c] = n],
         faults' \in 0 .. MaxFaults
  PROVE  IndexerIInv'
<1> USE IndexerAssumption, DbAssumption, EmptyPageFacts
        DEF IndexerIInv, StartPage, Goto, dbVars
<1>1. /\ Len(CrawlOrder) \in Nat /\ pos[c] \in 1 .. Len(CrawlOrder) + 1
      /\ pc[c] = "crawl" /\ todo[c] = {}
  BY DEF TypeOK, Local, PresenceVars
<1>2. CrawlOrder[pos[c]] \in Url
  BY <1>1
<1>3. v \in Contents /\ DOMAIN v \subseteq Word
  BY <1>2 DEF Contents
<1>4. TypeOK'
  <2>1. n \in 1 .. Len(CrawlOrder) + 1
    BY <1>1
  <2> QED
    BY <1>2, <1>3, <2>1 DEF TypeOK, DbTypeOK, Stage
<1>5. OpenIsHeld' /\ RowsFaithful'
  BY DEF OpenIsHeld, RowsFaithful
<1>6. /\ url'[c] = CrawlOrder[pos[c]] /\ page'[c] = v /\ todo'[c] = DOMAIN v
      /\ pc'[c] = "connect"
  BY DEF TypeOK
<1>7. Local(c)'
  BY <1>2, <1>6 DEF Local, PageOfUrl, PresenceVars, RowsThere, Presence
<1>8. \A d \in Crawler : Local(d)'
  BY <1>7, OnlyOneMoves DEF TypeOK
<1> QED
  BY <1>4, <1>5, <1>8

LEMMA SavePresencesStep ==
  ASSUME IndexerIInv, NEW c \in Crawler, SavePresences(c)
  PROVE  IndexerIInv'
<1>1. PICK v \in Versions[CrawlOrder[pos[c]]] : StartPage(c, v)
  BY DEF SavePresences
<1>2. /\ Len(CrawlOrder) \in Nat /\ pos[c] \in Nat
      /\ pos[c] <= Len(CrawlOrder)
      /\ pos' = [pos EXCEPT ![c] = pos[c] + 1] /\ faults' = faults
      /\ faults \in 0 .. MaxFaults
  BY IndexerAssumption DEF IndexerIInv, TypeOK, SavePresences
<1>3. pos[c] + 1 \in pos[c] + 1 .. Len(CrawlOrder) + 1
  BY <1>2
<1> QED
  BY <1>1, <1>2, <1>3, StartPageStep

LEMMA DownloadFailsStep ==
  ASSUME IndexerIInv, NEW c \in Crawler, DownloadFails(c)
  PROVE  IndexerIInv'
<1>1. PICK n \in pos[c] + 1 .. Len(CrawlOrder) + 1 :
        pos' = [pos EXCEPT ![c] = n]
  BY DEF DownloadFails
<1>2. faults' \in 0 .. MaxFaults
  BY IndexerAssumption DEF IndexerIInv, TypeOK, DownloadFails, Fault
<1> QED
  BY <1>1, <1>2, StartPageStep DEF DownloadFails

LEMMA OpenDbStep ==
  ASSUME IndexerIInv, NEW c \in Crawler, OpenDb(c)
  PROVE  IndexerIInv'
<1> USE IndexerAssumption DEF IndexerIInv, OpenDb, Connect, Goto, tables
<1>1. TypeOK'
  BY DEF TypeOK, DbTypeOK, Stage
<1>2. OpenIsHeld' /\ RowsFaithful'
  BY DEF OpenIsHeld, RowsFaithful, TypeOK, DbTypeOK
<1>3. Local(c)'
  BY DEF Local, PageOfUrl, PresenceVars, RowsThere, Presence, TypeOK
<1>4. \A d \in Crawler : Local(d)'
  BY <1>3, OnlyOneMoves DEF TypeOK, DbTypeOK
<1> QED
  BY <1>1, <1>2, <1>4

LEMMA EndPageStep ==
  ASSUME IndexerIInv, NEW c \in Crawler, EndPage(c)
  PROVE  IndexerIInv'
<1> USE IndexerAssumption, DbAssumption, EmptyPageFacts
        DEF IndexerIInv, EndPage, Destroy, Goto, tables
<1>1. TypeOK'
  BY DEF TypeOK, DbTypeOK, Stage
<1>2. OpenIsHeld' /\ RowsFaithful'
  BY DEF OpenIsHeld, RowsFaithful, TypeOK, DbTypeOK
<1>3. Local(c)'
  BY DEF Local, PageOfUrl, PresenceVars, RowsThere, Presence, TypeOK
<1>4. \A d \in Crawler : Local(d)'
  BY <1>3, OnlyOneMoves DEF TypeOK, DbTypeOK
<1> QED
  BY <1>1, <1>2, <1>4

\* A process that ends and may start again: Terminate, Kill and Rerun.
LEMMA ResetStep ==
  ASSUME IndexerIInv, NEW c \in Crawler, NEW s \in {"crawl", "down"},
         ExitProcess(c), Reset(c, s), faults' \in 0 .. MaxFaults
  PROVE  IndexerIInv'
<1> USE IndexerAssumption, DbAssumption, EmptyPageFacts
        DEF IndexerIInv, ExitProcess, Reset, tables
<1>1. TypeOK'
  <2>1. Len(CrawlOrder) \in Nat
    OBVIOUS
  <2> QED
    BY <2>1 DEF TypeOK, DbTypeOK, Stage
<1>2. OpenIsHeld' /\ RowsFaithful'
  BY DEF OpenIsHeld, RowsFaithful, TypeOK, DbTypeOK
<1>3. Local(c)'
  BY DEF Local, PageOfUrl, PresenceVars, RowsThere, Presence, TypeOK
<1>4. \A d \in Crawler : Local(d)'
  BY <1>3, OnlyOneMoves DEF TypeOK, DbTypeOK
<1> QED
  BY <1>1, <1>2, <1>4

LEMMA LoseConnectionStep ==
  ASSUME IndexerIInv, NEW c \in Crawler, LoseConnection(c)
  PROVE  IndexerIInv'
<1> USE IndexerAssumption
        DEF IndexerIInv, LoseConnection, ConnectionLost, Fault, tables,
            localVars
<1>1. TypeOK' /\ OpenIsHeld' /\ RowsFaithful'
  <2>1. held[c] \in Nat /\ held[c] >= 1 /\ c \in Process
    BY DEF TypeOK, DbTypeOK, OpenIsHeld
  <2>2. held[c] - 1 \in Nat
    BY <2>1
  <2>3. TypeOK'
    BY <2>2 DEF TypeOK, DbTypeOK
  <2>4. OpenIsHeld' /\ RowsFaithful'
    BY <2>1 DEF OpenIsHeld, RowsFaithful, TypeOK, DbTypeOK
  <2> QED
    BY <2>3, <2>4
<1>2. \A d \in Crawler : conn'[d] = "open" => conn[d] = "open"
  BY DEF TypeOK, DbTypeOK
<1>3. \A d \in Crawler : Local(d)'
  BY <1>2, OthersKeep
<1> QED
  BY <1>1, <1>3

-----------------------------------------------------------------------------
(* The five transactions of insertPresence.                                *)

\* In insertPresence the page is a version of the resource at hand.
LEMMA PresenceAtHand ==
  ASSUME IndexerIInv, NEW c \in Crawler, NEW w \in todo[c]
  PROVE  /\ url[c] \in Url /\ page[c] \in Versions[url[c]]
         /\ w \in DOMAIN page[c] /\ w \in Word
         /\ page[c][w] % FreqModulus \in Nat
<1>1. w \in DOMAIN page[c] /\ page[c] # EmptyPage
  BY EmptyPageFacts DEF IndexerIInv, Local, PresenceVars
<1>2. url[c] \in Url /\ page[c] \in Versions[url[c]]
  BY <1>1 DEF IndexerIInv, Local, PageOfUrl
<1> QED
  BY <1>1, <1>2, CountInNat

LEMMA GetWordIdStep ==
  ASSUME IndexerIInv, NEW c \in Crawler, GetWordId(c)
  PROVE  IndexerIInv'
<1> USE IndexerAssumption, DbAssumption
        DEF IndexerIInv, GetWordId, getWordId, Goto, dbVars
<1>1. PICK w \in todo[c] : word' = [word EXCEPT ![c] = w]
  OBVIOUS
<1>2. w \in Word /\ c \in Process
  BY <1>1, PresenceAtHand
<1>3. TypeOK'
  BY <1>1, <1>2 DEF TypeOK, DbTypeOK, Stage
<1>4. OpenIsHeld' /\ RowsFaithful'
  BY DEF OpenIsHeld, RowsFaithful
<1>5. /\ pc'[c] = IF getWordId(c, w) = NoId THEN "insertWord" ELSE "getUrlId"
      /\ word'[c] = w /\ wordId'[c] = getWordId(c, w)
  BY <1>1 DEF TypeOK
<1>6. Local(c)'
  BY <1>1, <1>5 DEF Local, PageOfUrl, PresenceVars, RowsThere, Presence,
                    TypeOK, DbTypeOK
<1>7. \A d \in Crawler : Local(d)'
  BY <1>6, OnlyOneMoves DEF TypeOK
<1> QED
  BY <1>3, <1>4, <1>7

LEMMA GetUrlIdStep ==
  ASSUME IndexerIInv, NEW c \in Crawler, GetUrlId(c)
  PROVE  IndexerIInv'
<1> USE IndexerAssumption, DbAssumption
        DEF IndexerIInv, GetUrlId, getUrlId, Goto, dbVars
<1>1. word[c] \in todo[c]
  BY DEF Local, PresenceVars, Presence
<1>2. url[c] \in Url
  BY <1>1, PresenceAtHand
<1>3. TypeOK'
  BY <1>2 DEF TypeOK, DbTypeOK, Stage
<1>4. OpenIsHeld' /\ RowsFaithful'
  BY DEF OpenIsHeld, RowsFaithful
<1>5. Local(c)'
  BY DEF Local, PageOfUrl, PresenceVars, RowsThere, Presence, TypeOK, DbTypeOK
<1>6. \A d \in Crawler : Local(d)'
  BY <1>5, OnlyOneMoves DEF TypeOK
<1> QED
  BY <1>3, <1>4, <1>6

LEMMA InsertWordStep ==
  ASSUME IndexerIInv, NEW c \in Crawler, InsertWord(c)
  PROVE  IndexerIInv'
<1> USE IndexerAssumption, DbAssumption DEF IndexerIInv, Goto
<1>1. PICK id \in Word \cup {NoId} :
        /\ Goto(c, "insertWord", "getUrlId")
        /\ insertWord(c, word[c], id)
        /\ wordId' = [wordId EXCEPT ![c] = id]
        /\ UNCHANGED <<conn, held, pos, url, page, todo, word, urlId, faults>>
  BY DEF InsertWord
<1>2. word[c] \in todo[c]
  BY <1>1 DEF Local, PresenceVars, Presence
<1>3. word[c] \in Word
  BY <1>2, PresenceAtHand
<1>4. /\ words \subseteq words' /\ words' \subseteq Word
      /\ UNCHANGED <<urls, frequencies>>
      /\ id \in {NoId, word[c]}
      /\ (conn[c] = "open" /\ word[c] \notin LongWord) => word[c] \in words'
  BY <1>1, <1>3 DEF insertWord, WordRefused, tables, TypeOK, DbTypeOK
<1>5. TypeOK'
  BY <1>1, <1>4 DEF TypeOK, DbTypeOK, Stage
<1>6. OpenIsHeld' /\ RowsFaithful'
  BY <1>1, <1>4 DEF OpenIsHeld, RowsFaithful
<1>7. Local(c)'
  BY <1>1, <1>2, <1>4
     DEF Local, PageOfUrl, PresenceVars, RowsThere, Presence, TypeOK
<1>8. \A d \in Crawler : Local(d)'
  BY <1>1, <1>4, <1>7, OnlyOneMoves DEF TypeOK
<1> QED
  BY <1>5, <1>6, <1>8

LEMMA InsertUrlStep ==
  ASSUME IndexerIInv, NEW c \in Crawler, InsertUrl(c)
  PROVE  IndexerIInv'
<1> USE IndexerAssumption, DbAssumption DEF IndexerIInv, Goto
<1>1. PICK id \in Url \cup {NoId} :
        /\ Goto(c, "insertUrl", "insertFrequency")
        /\ insertUrl(c, url[c], id)
        /\ urlId' = [urlId EXCEPT ![c] = id]
        /\ UNCHANGED <<conn, held, pos, url, page, todo, word, wordId, faults>>
  BY DEF InsertUrl
<1>2. word[c] \in todo[c]
  BY <1>1 DEF Local, PresenceVars, Presence
<1>3. url[c] \in Url
  BY <1>2, PresenceAtHand
<1>4. /\ urls \subseteq urls' /\ urls' \subseteq Url
      /\ UNCHANGED <<words, frequencies>>
      /\ id \in {NoId, url[c]}
      /\ (conn[c] = "open" /\ url[c] \notin LongUrl) => url[c] \in urls'
  BY <1>1, <1>3 DEF insertUrl, UrlRefused, tables, TypeOK, DbTypeOK
<1>5. TypeOK'
  BY <1>1, <1>4 DEF TypeOK, DbTypeOK, Stage
<1>6. OpenIsHeld' /\ RowsFaithful'
  BY <1>1, <1>4 DEF OpenIsHeld, RowsFaithful
<1>7. Local(c)'
  BY <1>1, <1>2, <1>4
     DEF Local, PageOfUrl, PresenceVars, RowsThere, Presence, TypeOK
<1>8. \A d \in Crawler : Local(d)'
  BY <1>1, <1>4, <1>7, OnlyOneMoves DEF TypeOK
<1> QED
  BY <1>5, <1>6, <1>8

LEMMA InsertFrequencyStep ==
  ASSUME IndexerIInv, NEW c \in Crawler, InsertFrequency(c)
  PROVE  IndexerIInv'
<1> USE IndexerAssumption, DbAssumption
        DEF IndexerIInv, InsertFrequency, Count, Goto
<1> DEFINE n == page[c][word[c]] % FreqModulus
           row == [word |-> wordId[c], url |-> urlId[c], frequency |-> n]
<1>1. /\ word[c] \in todo[c]
      /\ wordId[c] \in {NoId, word[c]} /\ urlId[c] \in {NoId, url[c]}
  BY DEF Local, PresenceVars, Presence
<1>2. /\ url[c] \in Url /\ page[c] \in Versions[url[c]]
      /\ word[c] \in DOMAIN page[c] /\ n \in Nat
  BY <1>1, PresenceAtHand
<1>3. UNCHANGED <<words, urls>>
  BY DEF insertFrequency, tables
<1>4. \/ UNCHANGED frequencies
      \/ /\ frequencies' = frequencies \cup {row}
         /\ wordId[c] \in words /\ urlId[c] \in urls
  BY DEF insertFrequency, FrequencyRefused, tables
<1>5. \/ UNCHANGED frequencies
      \/ /\ frequencies' = frequencies \cup {row}
         /\ row = [word |-> word[c], url |-> url[c], frequency |-> n]
         /\ row \in Row
  BY <1>1, <1>2, <1>4 DEF Row, TypeOK, DbTypeOK
<1>6. TypeOK'
  <2>1. DbTypeOK'
    BY <1>3, <1>5 DEF TypeOK, DbTypeOK
  <2> QED
    BY <2>1 DEF TypeOK, Stage
<1>7. RowsFaithful'
  <2>1. ASSUME NEW r \in frequencies'
        PROVE  \E v \in Versions[r.url] :
                 r.word \in DOMAIN v /\ r.frequency = v[r.word] % FreqModulus
    <3>1. CASE r \in frequencies
      BY <3>1 DEF RowsFaithful
    <3>2. CASE r = row /\ row = [word |-> word[c], url |-> url[c],
                                 frequency |-> n]
      BY <3>2, <1>2
    <3> QED
      BY <1>5, <2>1, <3>1, <3>2
  <2> QED
    BY <2>1 DEF RowsFaithful
<1>8. OpenIsHeld'
  BY DEF OpenIsHeld
<1>9. Local(c)'
  BY <1>3 DEF Local, PageOfUrl, PresenceVars, RowsThere, Presence, TypeOK
<1>10. \A d \in Crawler : Local(d)'
  BY <1>3, <1>9, OnlyOneMoves DEF TypeOK
<1> QED
  BY <1>6, <1>7, <1>8, <1>10

-----------------------------------------------------------------------------
LEMMA IndexerStep == IndexerIInv /\ [IndexerNext]_indexerVars => IndexerIInv'
<1> SUFFICES ASSUME IndexerIInv, [IndexerNext]_indexerVars PROVE IndexerIInv'
  OBVIOUS
<1>1. CASE UNCHANGED indexerVars
  BY <1>1 DEF indexerVars, dbVars, localVars, IndexerIInv, TypeOK, DbTypeOK,
              OpenIsHeld, RowsFaithful, Local, PageOfUrl, PresenceVars,
              RowsThere
<1>2. ASSUME NEW c \in Crawler, CrawlerNext(c) PROVE IndexerIInv'
  <2>1. CASE InsertPresence(c)
    BY <2>1, GetWordIdStep, InsertWordStep, GetUrlIdStep, InsertUrlStep,
       InsertFrequencyStep DEF InsertPresence
  <2>2. ASSUME Terminate(c) \/ Kill(c) \/ Rerun(c) PROVE IndexerIInv'
    <3>1. faults' \in 0 .. MaxFaults
      BY <2>2, IndexerAssumption
         DEF Terminate, Kill, Rerun, Fault, IndexerIInv, TypeOK
    <3> QED
      BY <2>2, <3>1, ResetStep DEF Terminate, Kill, Rerun
  <2> QED
    BY <1>2, <2>1, <2>2, SavePresencesStep, DownloadFailsStep, OpenDbStep,
       EndPageStep, LoseConnectionStep DEF CrawlerNext, CrawlerStep
<1> QED
  BY <1>1, <1>2 DEF IndexerNext

LEMMA IndexerInvariant == IndexerSpec => []IndexerIInv
BY IndexerInitially, IndexerStep, PTL DEF IndexerSpec

\* Every variable of the crawlers and the database keeps its type.
THEOREM IndexerTypeCorrect == IndexerSpec => []TypeOK
BY IndexerInvariant, PTL DEF IndexerIInv

\* No interleaving of crawlers, lost connection or restart gives a word a
\* count on a resource that no version of the resource has.
THEOREM IndexIsFaithful == IndexerSpec => []RowsFaithful
BY IndexerInvariant, PTL DEF IndexerIInv

\* An insertPresence that ends with a live connection leaves the rows a later
\* one needs, whoever inserted them.
THEOREM RetryAlwaysSucceeds == IndexerSpec => RetrySucceeds
<1>1. IndexerIInv /\ [IndexerNext]_indexerVars =>
        [\A c \in Crawler : PresenceDone(c) =>
           word[c] \in words' /\ url[c] \in urls']_indexerVars
  <2> SUFFICES ASSUME IndexerIInv, [IndexerNext]_indexerVars,
                      NEW c \in Crawler, PresenceDone(c)
               PROVE  word[c] \in words' /\ url[c] \in urls'
    OBVIOUS
  <2>1. word[c] \in words /\ url[c] \in urls
    BY DEF PresenceDone, Storable, IndexerIInv, Local, RowsThere, Presence
  <2>2. words \subseteq words' /\ urls \subseteq urls'
    <3> USE DEF dbVars, tables
    <3>1. CASE UNCHANGED indexerVars
      BY <3>1 DEF indexerVars
    <3>2. ASSUME NEW d \in Crawler, CrawlerNext(d)
          PROVE  words \subseteq words' /\ urls \subseteq urls'
      <4>1. CASE InsertPresence(d)
        BY <4>1 DEF InsertPresence, GetWordId, InsertWord, GetUrlId,
                    InsertUrl, InsertFrequency, insertWord, insertUrl,
                    insertFrequency
      <4>2. CASE SavePresences(d) \/ DownloadFails(d)
        BY <4>2 DEF SavePresences, DownloadFails, StartPage
      <4>3. CASE OpenDb(d) \/ EndPage(d) \/ LoseConnection(d)
        BY <4>3 DEF OpenDb, EndPage, LoseConnection, ConnectionLost
      <4>4. CASE Terminate(d) \/ Kill(d) \/ Rerun(d)
        BY <4>4 DEF Terminate, Kill, Rerun, ExitProcess
      <4> QED
        BY <3>2, <4>1, <4>2, <4>3, <4>4 DEF CrawlerNext, CrawlerStep
    <3> QED
      BY <3>1, <3>2 DEF IndexerNext
  <2> QED
    BY <2>1, <2>2
<1> QED
  BY <1>1, IndexerInvariant, PTL DEF IndexerSpec, RetrySucceeds

-----------------------------------------------------------------------------
\* The step in which an insertPresence ends is its own.
LEMMA DoneByInsertFrequency ==
  ASSUME TypeOK, [IndexerNext]_indexerVars, NEW c \in Crawler, PresenceDone(c)
  PROVE  InsertFrequency(c)
<1> USE DEF PresenceDone, TypeOK, Goto
<1>1. CASE UNCHANGED indexerVars
  BY <1>1 DEF indexerVars, localVars
<1>2. ASSUME NEW d \in Crawler, CrawlerNext(d) PROVE InsertFrequency(c)
  <2>1. CASE InsertFrequency(d)
    BY <2>1 DEF InsertFrequency
  <2>2. CASE GetWordId(d) \/ InsertWord(d) \/ GetUrlId(d) \/ InsertUrl(d)
    BY <2>2 DEF GetWordId, InsertWord, GetUrlId, InsertUrl
  <2>3. CASE SavePresences(d) \/ DownloadFails(d) \/ OpenDb(d) \/ EndPage(d)
    BY <2>3 DEF SavePresences, DownloadFails, StartPage, OpenDb, EndPage
  <2>4. CASE Terminate(d) \/ Kill(d) \/ Rerun(d) \/ LoseConnection(d)
    BY <2>4 DEF Terminate, Kill, Rerun, Reset, LoseConnection, localVars
  <2> QED
    BY <1>2, <2>1, <2>2, <2>3, <2>4
       DEF CrawlerNext, CrawlerStep, InsertPresence
<1> QED
  BY <1>1, <1>2 DEF IndexerNext

\* An insertPresence that ends with a live connection and texts that fit has
\* stored its presence, unless a lost race left it with an id 0.
THEOREM PresenceIsSaved == IndexerSpec => PresenceSaved
<1>1. IndexerIInv /\ [IndexerNext]_indexerVars =>
        [\A c \in Crawler : PresenceDone(c) =>
           Raced(c) \/ \E r \in frequencies' :
                         r.word = word[c] /\ r.url = url[c]]_indexerVars
  <2> SUFFICES ASSUME IndexerIInv, [IndexerNext]_indexerVars,
                      NEW c \in Crawler, PresenceDone(c), ~Raced(c)
               PROVE  \E r \in frequencies' : r.word = word[c] /\ r.url = url[c]
    OBVIOUS
  <2>1. /\ word[c] \in words /\ url[c] \in urls
        /\ wordId[c] \in {NoId, word[c]} /\ urlId[c] \in {NoId, url[c]}
    BY DEF PresenceDone, Storable, IndexerIInv, Local, RowsThere, PresenceVars,
           Presence
  <2>2. wordId[c] = word[c] /\ urlId[c] = url[c]
    BY <2>1 DEF Raced
  <2>3. insertFrequency(c, word[c], url[c], Count(c))
    BY <2>2, DoneByInsertFrequency DEF IndexerIInv, InsertFrequency
  <2>4. CASE FrequencyRefused(c, word[c], url[c])
    BY <2>1, <2>3, <2>4
       DEF insertFrequency, FrequencyRefused, PresenceDone, tables
  <2>5. CASE ~FrequencyRefused(c, word[c], url[c])
    <3> DEFINE row == [word |-> word[c], url |-> url[c],
                       frequency |-> Count(c)]
    <3>1. row \in frequencies'
      BY <2>3, <2>5 DEF insertFrequency
    <3>2. row.word = word[c] /\ row.url = url[c]
      OBVIOUS
    <3> HIDE DEF row
    <3> QED
      BY <3>1, <3>2
  <2> QED
    BY <2>4, <2>5
<1> QED
  BY <1>1, IndexerInvariant, PTL DEF IndexerSpec, PresenceSaved
=============================================================================
