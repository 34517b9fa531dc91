---------------------------- MODULE SearcherProofs ----------------------------
(***************************************************************************)
(* Lemmas about the steps of a search (Searcher), while others add rows:   *)
(* used by the proofs about SearchEngine and HttpServer, whose server both *)
(* run these steps.                                                        *)
(***************************************************************************)
EXTENDS Searcher, FiniteSetTheorems, TLAPS

-----------------------------------------------------------------------------
(* Sequences that list a set, and the filter over runs.                    *)

LEMMA UpToCount ==
  ASSUME NEW n \in Nat
  PROVE  IsFiniteSet(1 .. n) /\ Cardinality(1 .. n) = n
<1>1. IsFiniteSet(1 .. n)
      /\ Cardinality(1 .. n) = IF 1 > n THEN 0 ELSE n - 1 + 1
  BY FS_Interval, 1 \in Int, n \in Int
<1> QED
  BY <1>1

\* SetToSeqs gives sequences that have each element once.
LEMMA ListsSet ==
  ASSUME NEW S, IsFiniteSet(S), NEW s \in SetToSeqs(S)
  PROVE  /\ s \in Seq(S) /\ Len(s) = Cardinality(S)
         /\ \A i, j \in DOMAIN s : s[i] = s[j] => i = j
         /\ \A x \in S : \E i \in DOMAIN s : s[i] = x
<1> DEFINE n == Cardinality(S)
<1>1. n \in Nat
  BY FS_CardinalityType
<1>2. s \in [1 .. n -> S] /\ \A i, j \in 1 .. n : i # j => s[i] # s[j]
  BY DEF SetToSeqs
<1>3. s \in Seq(S) /\ Len(s) = n /\ DOMAIN s = 1 .. n
  BY <1>1, <1>2
<1>4. s \in Injection(1 .. n, S)
  BY <1>2, <1>3 DEF Injection, IsInjective
<1>5. Cardinality(1 .. n) = n
  BY <1>1, UpToCount
<1>6. s \in Surjection(1 .. n, S)
  BY <1>4, <1>5, FS_Injection
<1> QED
  BY <1>2, <1>3, <1>6 DEF Surjection

\* The rows of the database are as its constraints keep them.
UniqueRows ==
  \A r, s \in frequencies : r.word = s.word /\ r.url = s.url => r = s

RowsHaveKeys == \A r \in frequencies : r.word \in words /\ r.url \in urls

Constrained ==
  DbTypeOK /\ IsFiniteSet(frequencies) /\ UniqueRows /\ RowsHaveKeys

\* What has been looked up for the words of the query.
LookedUp ==
  /\ Len(ids) <= Len(query)
  /\ \A i \in DOMAIN ids : ids[i] \in {NoId, query[i]}

\* As many rows of one resource as the query has words are rows of all its
\* words: they differ in their words, and no more words were looked up.
LEMMA AcceptedMatch ==
  ASSUME Constrained, query \in Seq(Word), ids \in Seq(Word \cup {NoId}),
         LookedUp, Len(ids) = Len(query),
         NEW rows \in SetToSeqs(RowsOfWords), NEW u \in Accepted(rows, query)
  PROVE  u \in Url /\ Matches(u, query)
<1> DEFINE v == [i \in DOMAIN rows |-> rows[i].url]
           n == Len(query)
<1>1. IsFiniteSet(RowsOfWords) /\ RowsOfWords \subseteq frequencies
  BY FS_Subset DEF RowsOfWords, Constrained
<1>2. /\ rows \in Seq(RowsOfWords)
      /\ \A i, j \in DOMAIN rows : rows[i] = rows[j] => i = j
  BY <1>1, ListsSet
<1>3. PICK i \in DOMAIN v, j \in DOMAIN v :
        EqualRun(v, i, j) /\ v[i] = u /\ j - i + 1 = n
  <2>1. PICK x \in Runs(v) : x[2] = n /\ x[1] = u
    BY DEF Accepted
  <2>2. PICK p \in (DOMAIN v) \X (DOMAIN v) :
          EqualRun(v, p[1], p[2]) /\ x = <<v[p[1]], p[2] - p[1] + 1>>
    BY <2>1 DEF Runs
  <2> QED
    BY <2>1, <2>2
<1>4. /\ DOMAIN v = DOMAIN rows /\ DOMAIN rows = 1 .. Len(rows)
      /\ i \in Nat /\ j \in Nat /\ n \in Nat /\ Len(rows) \in Nat
  BY <1>2
<1>5. \A k \in 1 .. n : i + k - 1 \in i .. j /\ i + k - 1 \in DOMAIN rows
  BY <1>3, <1>4
<1>6. \A k \in 1 .. n : /\ rows[i + k - 1] \in RowsOfWords
                        /\ rows[i + k - 1].url = u
  <2> TAKE k \in 1 .. n
  <2>1. rows[i + k - 1] \in RowsOfWords
    BY <1>2, <1>5
  <2>2. v[i + k - 1] = v[i]
    BY <1>3, <1>5 DEF EqualRun
  <2> QED
    BY <1>3, <1>4, <1>5, <2>1, <2>2
<1> DEFINE f == [k \in 1 .. n |-> rows[i + k - 1].word]
           W == Range(query)
<1>7. f \in [1 .. n -> W]
  <2> SUFFICES ASSUME NEW k \in 1 .. n PROVE rows[i + k - 1].word \in W
    OBVIOUS
  <2>1. PICK m \in DOMAIN ids : ids[m] = rows[i + k - 1].word
    BY <1>6 DEF RowsOfWords, Range
  <2>2. rows[i + k - 1].word \in Word
    BY <1>1, <1>6 DEF Constrained, DbTypeOK, Row
  <2>3. ids[m] = query[m] /\ m \in DOMAIN query
    BY <2>1, <2>2, DbAssumption DEF LookedUp
  <2> QED
    BY <2>1, <2>3 DEF Range
<1>8. \A k, m \in 1 .. n : f[k] = f[m] => k = m
  <2> SUFFICES ASSUME NEW k \in 1 .. n, NEW m \in 1 .. n, f[k] = f[m]
               PROVE  k = m
    OBVIOUS
  <2>1. rows[i + k - 1] = rows[i + m - 1]
    BY <1>1, <1>6 DEF Constrained, UniqueRows
  <2>2. i + k - 1 = i + m - 1
    BY <1>2, <1>5, <2>1
  <2> QED
    BY <1>4, <2>2
<1>9. f \in Injection(1 .. n, W)
  <2> HIDE DEF f, W, n
  <2> QED
    BY <1>7, <1>8 DEF Injection, IsInjective
<1>10. IsFiniteSet(1 .. n) /\ Cardinality(1 .. n) = n
  BY <1>4, UpToCount
<1>11. IsFiniteSet(W) /\ Cardinality(W) <= n
  <2>1. query \in Surjection(1 .. n, W)
    BY DEF Surjection, Range
  <2> HIDE DEF W, n
  <2> QED
    BY <1>10, <2>1, FS_Surjection
<1>12. f \in Surjection(1 .. n, W)
  <2> HIDE DEF f, W, n
  <2>1. n <= Cardinality(W) /\ Cardinality(W) \in Nat
    BY <1>9, <1>10, <1>11, FS_Injection, FS_CardinalityType
  <2>2. Cardinality(1 .. n) = Cardinality(W)
    BY <1>4, <1>10, <1>11, <2>1
  <2> QED
    BY <1>9, <1>11, <2>2, FS_Injection
<1>13. \A w \in W : Stored(w, u)
  <2> TAKE w \in W
  <2>1. PICK k \in 1 .. n : f[k] = w
    BY <1>12 DEF Surjection
  <2>2. rows[i + k - 1] \in frequencies /\ rows[i + k - 1].word = w
    BY <1>1, <1>6, <2>1
  <2> QED
    BY <1>6, <2>2 DEF Stored
<1>14. u \in Url
  BY <1>1, <1>2, <1>3, <1>4 DEF Constrained, DbTypeOK, Row
<1> QED
  BY <1>13, <1>14 DEF Matches

\* The one word of a query is on all rows, so equal resources are not adjacent.
LEMMA AcceptedAllOfOneWord ==
  ASSUME Constrained, query \in Seq(Word), ids \in Seq(Word \cup {NoId}),
         Len(query) = 1, Len(ids) = 1, ids[1] = query[1],
         NEW rows \in SetToSeqs(RowsOfWords),
         NEW u \in Url, Matches(u, query)
  PROVE  u \in Accepted(rows, query)
<1> DEFINE v == [i \in DOMAIN rows |-> rows[i].url]
<1>1. IsFiniteSet(RowsOfWords) /\ RowsOfWords \subseteq frequencies
  BY FS_Subset DEF RowsOfWords, Constrained
<1>2. /\ rows \in Seq(RowsOfWords)
      /\ \A i, j \in DOMAIN rows : rows[i] = rows[j] => i = j
      /\ \A x \in RowsOfWords : \E i \in DOMAIN rows : rows[i] = x
  BY <1>1, ListsSet
<1>3. Range(ids) = {query[1]}
  BY DEF Range
<1>4. query[1] \in Range(query)
  BY DEF Range
<1>5. PICK r \in frequencies : r.word = query[1] /\ r.url = u
  BY <1>4 DEF Matches, Stored
<1>6. PICK k \in DOMAIN rows : rows[k] = r
  BY <1>2, <1>3, <1>5 DEF RowsOfWords
<1>7. \A i \in DOMAIN rows : v[i] = u => i = k
  <2> SUFFICES ASSUME NEW i \in DOMAIN rows, rows[i].url = u PROVE i = k
    OBVIOUS
  <2>1. rows[i] \in RowsOfWords
    BY <1>2
  <2>2. rows[i].word = query[1] /\ rows[i] \in frequencies
    BY <1>3, <2>1 DEF RowsOfWords
  <2>3. rows[i] = r
    BY <1>5, <2>2 DEF Constrained, UniqueRows
  <2> QED
    BY <1>2, <1>6, <2>3
<1>8. v[k] = u /\ k \in DOMAIN v
  BY <1>5, <1>6
<1>9. /\ DOMAIN v = DOMAIN rows /\ DOMAIN rows = 1 .. Len(rows)
      /\ k \in Nat /\ Len(rows) \in Nat /\ Len(v) = Len(rows)
  BY <1>2, <1>6
<1>10. EqualRun(v, k, k)
  <2> HIDE DEF v
  <2>1. \A i \in k .. k : i = k
    BY <1>9
  <2>2. k > 1 => k - 1 \in DOMAIN rows /\ k - 1 # k
    BY <1>6, <1>9
  <2>3. k < Len(v) => k + 1 \in DOMAIN rows /\ k + 1 # k
    BY <1>6, <1>9
  <2> QED
    BY <1>7, <1>8, <1>9, <2>1, <2>2, <2>3 DEF EqualRun
<1>11. <<u, 1>> \in Runs(v)
  <2>1. <<k, k>> \in (DOMAIN v) \X (DOMAIN v) /\ k - k + 1 = 1
    BY <1>8, <1>9
  <2> HIDE DEF v
  <2> QED
    BY <1>8, <1>10, <2>1 DEF Runs
<1> QED
  BY <1>11 DEF Accepted

-----------------------------------------------------------------------------
(* The invariant of a search.                                              *)

Looking == {"getUrlsIdsByWords", "getSortedUrlsByWords"}

\* The connection in use is one of those the server holds.
ServerHolds == conn[Server] = "open" => held[Server] >= 1

\* Which variables are in use at which stage.
SearchShape ==
  /\ LookedUp
  /\ stage \notin Looking => ids = <<>>
  /\ stage # "getSortedUrlsByWords" => accepted = {}
  /\ stage # "idle" => reply = <<>>

AcceptedHold == \A u \in accepted : Matches(u, query)
BeforeHold == \A u \in before : Matches(u, query)

\* A resource that holds all words makes every lookup find its word, if the
\* connection is there to ask.
WordsFound ==
  (conn[Server] = "open" /\ (before # {} \/ accepted # {})) =>
    \A i \in DOMAIN ids : ids[i] = query[i]

\* No resource of the one word has been lost on the way.
OneWordAccepted ==
  (stage = "getSortedUrlsByWords" /\ Len(query) = 1) => before \subseteq accepted

SearchIInv ==
  /\ Constrained /\ SearchTypeOK
  /\ ServerHolds /\ SearchShape
  /\ AcceptedHold /\ BeforeHold /\ WordsFound /\ OneWordAccepted
  /\ SearchSound /\ ReplySorted /\ OneWordComplete

\* A step may add a row for a word and a resource that have none.
RowsGrow ==
  \/ frequencies' = frequencies
  \/ \E row \in Row : /\ ~Stored(row.word, row.url)
                      /\ frequencies' = frequencies \cup {row}

LEMMA MatchesStay ==
  ASSUME RowsGrow, NEW u, NEW q, Matches(u, q) PROVE Matches(u, q)'
BY DEF RowsGrow, Matches, Stored

\* A new row is not one of a resource that already holds all words.
LEMMA TotalStays ==
  ASSUME RowsGrow, NEW u, NEW q, Matches(u, q) PROVE Total(u, q)' = Total(u, q)
<1>1. {r \in frequencies : r.url = u /\ r.word \in Range(q)}' =
      {r \in frequencies : r.url = u /\ r.word \in Range(q)}
  BY DEF RowsGrow, Matches, Stored
<1> QED
  BY <1>1 DEF Total

\* Steps of the crawlers, and a lost connection.
LEMMA OthersKeepSearch ==
  ASSUME SearchIInv, UNCHANGED searchVars, Constrained', RowsGrow,
         conn'[Server] = "open" => conn[Server] = "open" /\ ServerHolds'
  PROVE  SearchIInv'
<1> USE DEF SearchIInv, searchVars
<1>1. SearchTypeOK' /\ SearchShape'
  BY DEF SearchTypeOK, SearchShape, LookedUp
<1>2. AcceptedHold' /\ BeforeHold' /\ SearchSound'
  BY MatchesStay DEF AcceptedHold, BeforeHold, SearchSound
<1>3. WordsFound' /\ OneWordAccepted' /\ OneWordComplete' /\ ServerHolds'
  BY DEF WordsFound, OneWordAccepted, OneWordComplete, Answered, ServerHolds
<1>4. ReplySorted'
  <2>1. \A i \in DOMAIN reply : Total(reply[i], query)' = Total(reply[i], query)
    BY TotalStays DEF SearchSound
  <2> QED
    BY <2>1 DEF ReplySorted
<1> QED
  BY <1>1, <1>2, <1>3, <1>4

\* Between searches the conditions on the running one are empty.
LEMMA IdleSearch ==
  ASSUME Constrained', ServerHolds', ids' = <<>>, accepted' = {}, reply' = <<>>,
         query' \in Seq(Word), before' \subseteq Url, BeforeHold',
         stage' \in {"idle", "connect"}, caught' \in BOOLEAN,
         stage' = "idle" => query' = <<>> \/ caught'
  PROVE  SearchIInv'
BY DEF SearchIInv, SearchTypeOK, SearchShape, LookedUp, Looking, AcceptedHold,
       WordsFound, OneWordAccepted, SearchSound, ReplySorted, OneWordComplete,
       Answered

-----------------------------------------------------------------------------
(* The steps of a search: none of them writes a table.                     *)

LEMMA OwnConnection ==
  ASSUME SearchIInv, UNCHANGED tables,
         Connect(Server) \/ Destroy(Server) \/ ExitProcess(Server)
           \/ UNCHANGED <<conn, held>>
  PROVE  Constrained' /\ ServerHolds'
<1> USE SearcherAssumption
    DEF SearchIInv, Constrained, DbTypeOK, tables, UniqueRows, RowsHaveKeys
<1>1. CASE Connect(Server)
  BY <1>1 DEF Connect, ServerHolds
<1>2. CASE Destroy(Server)
  BY <1>2 DEF Destroy, ServerHolds
<1>3. CASE ExitProcess(Server)
  BY <1>3 DEF ExitProcess, ServerHolds
<1>4. CASE UNCHANGED <<conn, held>>
  BY <1>4 DEF ServerHolds
<1> QED
  BY <1>1, <1>2, <1>3, <1>4

LEMMA ProcessSearchRequestKeeps ==
  ASSUME SearchIInv, NEW q \in Queries, ProcessSearchRequest(q) PROVE SearchIInv'
<1> USE DEF ProcessSearchRequest
<1>1. Constrained' /\ ServerHolds'
  BY OwnConnection DEF dbVars, tables
<1>2. ids' = <<>> /\ accepted' = {}
  BY DEF SearchIInv, SearchShape, Looking
<1>3. BeforeHold' /\ before' \subseteq Url
  BY DEF BeforeHold, Matches, Stored, dbVars
<1> QED
  BY <1>1, <1>2, <1>3, SearcherAssumption, IdleSearch

LEMMA OpenSearchKeeps ==
  ASSUME SearchIInv, OpenSearch PROVE SearchIInv'
<1> USE DEF OpenSearch, SearchIInv
<1>1. Constrained' /\ ServerHolds'
  BY OwnConnection
<1>2. ids = <<>> /\ accepted = {} /\ reply = <<>>
  BY DEF SearchShape, Looking
<1>3. SearchTypeOK' /\ SearchShape' /\ AcceptedHold' /\ WordsFound'
      /\ OneWordAccepted'
  BY <1>2 DEF SearchTypeOK, SearchShape, LookedUp, AcceptedHold, WordsFound,
              OneWordAccepted
<1>4. BeforeHold' /\ SearchSound' /\ ReplySorted' /\ OneWordComplete'
  BY <1>2 DEF BeforeHold, Matches, Stored, tables, SearchSound, ReplySorted,
              OneWordComplete, Answered
<1> QED
  BY <1>1, <1>3, <1>4

LEMMA GetWordsIdsKeeps ==
  ASSUME SearchIInv, GetWordsIds PROVE SearchIInv'
<1> USE DEF GetWordsIds, SearchIInv
<1> DEFINE w == query[Len(ids) + 1]
           id == getWordId(Server, w)
<1>1. Constrained' /\ ServerHolds'
  BY OwnConnection DEF dbVars, tables
<1>2. /\ Len(ids) \in Nat /\ Len(query) \in Nat /\ Len(ids) < Len(query)
      /\ Len(ids) + 1 \in DOMAIN query /\ w \in Word /\ w \in Range(query)
  BY DEF SearchTypeOK, SearchShape, LookedUp, LookupsDone, Range
<1>3. id \in {NoId, w}
  BY DEF getWordId
<1>4. /\ ids' \in Seq(Word \cup {NoId}) /\ Len(ids') = Len(ids) + 1
      /\ \A i \in DOMAIN ids' :
           ids'[i] = IF i = Len(ids) + 1 THEN id ELSE ids[i]
      /\ DOMAIN ids' = 1 .. Len(ids) + 1 /\ DOMAIN ids = 1 .. Len(ids)
  <2> HIDE DEF id, w
  <2>1. ids \in Seq(Word \cup {NoId}) /\ id \in Word \cup {NoId}
    BY <1>2, <1>3 DEF SearchTypeOK
  <2>2. ids' = Append(ids, id)
    BY DEF id, w
  <2> QED
    BY <2>1, <2>2
<1>5. SearchTypeOK' /\ SearchShape'
  <2> HIDE DEF id
  <2>1. \A i \in DOMAIN ids' : ids'[i] \in {NoId, query[i]}
    BY <1>2, <1>3, <1>4 DEF SearchShape, LookedUp
  <2> QED
    BY <1>2, <1>4, <2>1 DEF SearchTypeOK, SearchShape, LookedUp, Looking
<1>6. \A u \in before \cup accepted : conn[Server] = "open" => id = w
  <2> SUFFICES ASSUME NEW u \in before \cup accepted, conn[Server] = "open"
               PROVE  id = w
    OBVIOUS
  <2>1. Stored(w, u)
    BY <1>2 DEF AcceptedHold, BeforeHold, Matches
  <2>2. w \in words
    BY <2>1 DEF Stored, Constrained, RowsHaveKeys
  <2> QED
    BY <2>2 DEF getWordId
<1>7. WordsFound'
  <2> SUFFICES ASSUME conn[Server] = "open", before # {} \/ accepted # {},
                      NEW i \in DOMAIN ids'
               PROVE  ids'[i] = query[i]
    BY DEF WordsFound, dbVars
  <2>1. id = w
    BY <1>6
  <2> HIDE DEF id
  <2> QED
    BY <1>2, <1>4, <2>1 DEF WordsFound
<1>8. AcceptedHold' /\ BeforeHold' /\ OneWordAccepted' /\ SearchSound'
      /\ ReplySorted' /\ OneWordComplete'
  BY DEF AcceptedHold, BeforeHold, OneWordAccepted, SearchSound, ReplySorted,
         OneWordComplete, Answered, Matches, Stored, Total, dbVars
<1> QED
  BY <1>1, <1>5, <1>7, <1>8

LEMMA GetUrlsIdsByWordsKeeps ==
  ASSUME SearchIInv, GetUrlsIdsByWords PROVE SearchIInv'
<1> USE DEF GetUrlsIdsByWords, SearchIInv
<1>1. Constrained' /\ ServerHolds'
  BY OwnConnection DEF dbVars, tables
<1>2. PICK rows \in SetToSeqs(RowsOfWords) : accepted' = Accepted(rows, query)
  OBVIOUS
<1>3. query \in Seq(Word) /\ ids \in Seq(Word \cup {NoId}) /\ LookedUp
      /\ Len(ids) = Len(query) /\ reply = <<>>
  BY DEF SearchTypeOK, SearchShape, LookupsDone
<1>4. \A u \in accepted' : u \in Url /\ Matches(u, query)
  BY <1>2, <1>3, AcceptedMatch
<1>5. SearchTypeOK' /\ SearchShape' /\ WordsFound'
  BY <1>3, <1>4 DEF SearchTypeOK, SearchShape, LookedUp, Looking, WordsFound
<1>6. AcceptedHold'
  BY <1>4 DEF AcceptedHold, Matches, Stored, dbVars
<1>7. OneWordAccepted'
  <2> SUFFICES ASSUME Len(query) = 1, NEW u \in before PROVE u \in accepted'
    BY DEF OneWordAccepted
  <2>1. Matches(u, query) /\ u \in Url
    BY DEF BeforeHold, SearchTypeOK
  <2>2. ids[1] = query[1]
    BY <1>3 DEF WordsFound
  <2> QED
    BY <1>2, <1>3, <2>1, <2>2, AcceptedAllOfOneWord
<1>8. BeforeHold' /\ SearchSound' /\ ReplySorted' /\ OneWordComplete'
  BY <1>3 DEF BeforeHold, SearchSound, ReplySorted, OneWordComplete, Answered,
              Matches, Stored, dbVars
<1> QED
  BY <1>1, <1>5, <1>6, <1>7, <1>8

\* The last select sums the rows of the same words as Total does.
LEMMA SumFreqIsTotal ==
  ASSUME Constrained, query \in Seq(Word), ids \in Seq(Word \cup {NoId}),
         Len(ids) = Len(query), \A i \in DOMAIN ids : ids[i] = query[i],
         NEW u \in accepted
  PROVE  SumFreq(u) = Total(u, query)
<1>1. Range(ids) = Range(query)
  BY DEF Range
<1>2. {r \in RowsJoined : r.url = u} =
      {r \in frequencies : r.url = u /\ r.word \in Range(query)}
  BY <1>1 DEF RowsJoined, RowsOfWords
<1> QED
  BY <1>2 DEF SumFreq, Total

LEMMA GetSortedUrlsByWordsKeeps ==
  ASSUME SearchIInv, GetSortedUrlsByWords PROVE SearchIInv'
<1> USE DEF GetSortedUrlsByWords, SearchIInv
<1> DEFINE found == {r.url : r \in RowsJoined}
<1>1. Constrained' /\ ServerHolds'
  BY OwnConnection
<1>2. query \in Seq(Word) /\ ids \in Seq(Word \cup {NoId})
      /\ Len(ids) = Len(query) /\ accepted \subseteq Url
  BY DEF SearchTypeOK, LookupsDone
<1>3. IsFiniteSet(found)
  <2>1. IsFiniteSet(RowsJoined)
    BY FS_Subset DEF RowsJoined, RowsOfWords, Constrained
  <2>2. [r \in RowsJoined |-> r.url] \in Surjection(RowsJoined, found)
    BY DEF Surjection
  <2> HIDE DEF found
  <2> QED
    BY <2>1, <2>2, FS_Surjection
<1>4. /\ reply' \in Seq(found)
      /\ \A i, j \in DOMAIN reply' : reply'[i] = reply'[j] => i = j
      /\ \A u \in found : \E i \in DOMAIN reply' : reply'[i] = u
  <2>1. reply' \in SetToSeqs(found)
    OBVIOUS
  <2> HIDE DEF found
  <2> QED
    BY <1>3, <2>1, ListsSet
<1>5. \A i \in DOMAIN reply' : reply'[i] \in accepted
  BY <1>4 DEF RowsJoined
<1>6. accepted # {} => \A i \in DOMAIN ids : ids[i] = query[i]
  BY DEF WordsFound
<1>7. SearchTypeOK' /\ SearchShape'
  <2>1. reply' \in Seq(Url)
    <3>1. found \subseteq Url
      BY <1>2 DEF RowsJoined
    <3> HIDE DEF found
    <3> QED
      BY <1>4, <3>1
  <2> QED
    BY <2>1 DEF SearchTypeOK, SearchShape, LookedUp, Looking
<1>8. AcceptedHold' /\ BeforeHold' /\ WordsFound' /\ OneWordAccepted'
  BY DEF AcceptedHold, BeforeHold, WordsFound, OneWordAccepted, Matches, Stored,
         tables
<1>9. SearchSound'
  BY <1>5 DEF SearchSound, AcceptedHold, Matches, Stored, tables
<1>10. ReplySorted'
  <2> SUFFICES ASSUME NEW i \in DOMAIN reply', NEW j \in DOMAIN reply', i < j
               PROVE  /\ reply'[i] # reply'[j]
                      /\ Total(reply'[i], query) >= Total(reply'[j], query)
    BY DEF ReplySorted, Total, tables
  <2>1. reply'[i] # reply'[j]
    BY <1>4
  <2>2. SumFreq(reply'[i]) >= SumFreq(reply'[j])
    BY DEF Descending
  <2>3. /\ SumFreq(reply'[i]) = Total(reply'[i], query)
        /\ SumFreq(reply'[j]) = Total(reply'[j], query)
    BY <1>2, <1>5, <1>6, SumFreqIsTotal
  <2> QED
    BY <2>1, <2>2, <2>3
<1>11. OneWordComplete'
  <2> SUFFICES ASSUME Len(query) = 1, NEW u \in before PROVE u \in Range(reply')
    BY DEF OneWordComplete
  <2>1. u \in accepted
    BY DEF OneWordAccepted
  <2>2. query[1] \in Range(query) /\ query[1] \in Range(ids)
    BY <1>2, <1>6, <2>1 DEF Range
  <2>3. PICK r \in frequencies : r.word = query[1] /\ r.url = u
    BY <2>1, <2>2 DEF AcceptedHold, Matches, Stored
  <2>4. u \in found
    BY <2>1, <2>2, <2>3 DEF RowsJoined, RowsOfWords
  <2> HIDE DEF found
  <2> QED
    BY <1>4, <2>4 DEF Range
<1> QED
  BY <1>1, <1>7, <1>8, <1>9, <1>10, <1>11

LEMMA CatchExceptionKeeps ==
  ASSUME SearchIInv, CatchException PROVE SearchIInv'
<1> USE DEF CatchException
<1>1. Constrained' /\ ServerHolds'
  BY OwnConnection
<1>2. BeforeHold' /\ before' \subseteq Url /\ query' \in Seq(Word)
  BY DEF SearchIInv, BeforeHold, SearchTypeOK, Matches, Stored, tables
<1> QED
  BY <1>1, <1>2, IdleSearch

LEMMA RestartServerKeeps ==
  ASSUME SearchIInv, RestartServer PROVE SearchIInv'
<1> USE DEF RestartServer, ForgetSearch
<1>1. Constrained' /\ ServerHolds'
  BY OwnConnection DEF ExitProcess
<1>2. BeforeHold' /\ before' \subseteq Url /\ query' \in Seq(Word)
  BY DEF BeforeHold
<1>3. /\ ids' = <<>> /\ accepted' = {} /\ reply' = <<>> /\ query' = <<>>
      /\ stage' = "idle" /\ caught' = FALSE
  OBVIOUS
<1> QED
  BY <1>1, <1>2, <1>3, IdleSearch

LEMMA SearchStepKeeps ==
  ASSUME SearchIInv, SearchStep \/ ConstructorThrows PROVE SearchIInv'
BY OpenSearchKeeps, GetWordsIdsKeeps, GetUrlsIdsByWordsKeeps,
   GetSortedUrlsByWordsKeeps, CatchExceptionKeeps
   DEF SearchStep, StatementThrows, ConstructorThrows

-----------------------------------------------------------------------------
(* The refinement of InvertedIndex.                                        *)

\* What others may do to the tables is to add a row.
LEMMA CrawlerImplements ==
  ASSUME RowsGrow, UNCHANGED searchVars PROVE [II!Next]_(II!vars)
<1> USE DEF searchVars, II!vars
<1>1. CASE frequencies' = frequencies
  BY <1>1
<1>2. ASSUME NEW row \in Row, ~Stored(row.word, row.url),
             frequencies' = frequencies \cup {row}
      PROVE  II!Next
  <2>1. row \in frequencies' \ frequencies
    BY <1>2 DEF Stored
  <2>2. row \in II!Entry /\ ~II!Holds(row.url, row.word)
    BY <1>2 DEF Row, II!Entry, II!Holds, Stored
  <2> QED
    BY <1>2, <2>1, <2>2 DEF II!Next, II!Add
<1> QED
  BY <1>1, <1>2 DEF RowsGrow

\* A reply the invariant describes is one the abstract index may give.
LEMMA ReplyImplements ==
  ASSUME SearchIInv', UNCHANGED <<tables, query>>, stage # "idle", stage' = "idle"
  PROVE  II!Answer
<1>1. reply' \in Seq(Url)
  BY DEF SearchIInv, SearchTypeOK
<1>2. \A i \in DOMAIN reply' :
        reply'[i] \in Url /\ \A w \in Range(query) : II!Holds(reply'[i], w)
  BY <1>1 DEF SearchIInv, SearchSound, Matches, Stored, II!Holds, tables
<1>3. II!Range(query) = Range(query)
  BY DEF Range, II!Range
<1>4. ASSUME NEW u PROVE II!Total(u, query) = Total(u, query)'
  BY <1>3 DEF II!Total, Total, tables
<1>5. ASSUME NEW i \in DOMAIN reply', NEW j \in DOMAIN reply', i < j
      PROVE  /\ reply'[i] # reply'[j]
             /\ II!Total(reply'[i], query) >= II!Total(reply'[j], query)
  <2>1. /\ reply'[i] # reply'[j]
        /\ Total(reply[i], query)' >= Total(reply[j], query)'
    BY <1>5 DEF SearchIInv, ReplySorted
  <2>2. /\ II!Total(reply'[i], query) = Total(reply[i], query)'
        /\ II!Total(reply'[j], query) = Total(reply[j], query)'
    BY <1>4 DEF Total
  <2> QED
    BY <2>1, <2>2
<1>6. II!IsReply(reply')
  BY <1>2, <1>3, <1>5 DEF II!IsReply
<1> QED
  BY <1>1, <1>6 DEF II!Answer, tables

LEMMA AskImplements ==
  ASSUME NEW q \in Queries, ProcessSearchRequest(q) PROVE II!Next
BY DEF ProcessSearchRequest, II!Next, II!Ask, dbVars, tables

LEMMA SearchStepImplements ==
  ASSUME SearchIInv', SearchStep \/ ConstructorThrows
  PROVE  [II!Next]_(II!vars)
<1>1. CASE OpenSearch \/ GetWordsIds \/ GetUrlsIdsByWords
  BY <1>1 DEF OpenSearch, GetWordsIds, GetUrlsIdsByWords, II!vars, dbVars, tables
<1>2. CASE GetSortedUrlsByWords \/ StatementThrows \/ ConstructorThrows
  <2>1. UNCHANGED <<tables, query>> /\ stage # "idle" /\ stage' = "idle"
    BY <1>2 DEF GetSortedUrlsByWords, CatchException, StatementThrows,
       ConstructorThrows
  <2> QED
    BY <2>1, ReplyImplements DEF II!Next
<1> QED
  BY <1>1, <1>2 DEF SearchStep

LEMMA ForgetImplements ==
  ASSUME ForgetSearch, UNCHANGED tables PROVE II!Next
BY DEF ForgetSearch, II!Next, II!Forget, tables
=============================================================================
