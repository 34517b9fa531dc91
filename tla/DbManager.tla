------------------------------ MODULE DbManager ------------------------------
(***************************************************************************)
(* The PostgreSQL database of the search engine, as class DbManager uses   *)
(* it (DbManager.cpp).  Every method of the class runs one statement in a  *)
(* transaction of its own, so a method is one atomic step over the         *)
(* committed tables; what lies between two methods is up to the callers    *)
(* (modules Indexer and Searcher).                                         *)
(*                                                                         *)
(* Ids.  Tables words and urls map a SERIAL id, never 0, to a unique text. *)
(* Only equality of ids matters, so the id of a word is the word itself;   *)
(* NoId is the 0 the methods return for "absent" and for "failed" alike.   *)
(*                                                                         *)
(* Connections.  A process (a crawler or an http_server) owns the          *)
(* connections it opened until it exits or they break: ~DbManager forgets  *)
(* the pointer before it deletes it, so the connection stays open.         *)
(***************************************************************************)
EXTENDS Naturals, Functions

CONSTANTS
  Process,         \* the processes that use the database
  Word, Url,       \* texts of words and of resources
  LongWord,        \* the words that do not fit varchar(32)
  LongUrl,         \* the resources that do not fit varchar(256)
  NoId,            \* the id 0
  MaxConnections   \* connections the server grants at a time

ASSUME DbAssumption ==
  /\ LongWord \subseteq Word /\ LongUrl \subseteq Url
  /\ NoId \notin Word \cup Url
  /\ MaxConnections \in Nat \ {0}

VARIABLES
  words, urls,     \* the committed tables: sets of texts
  frequencies,     \* the committed table: a set of rows
  conn,            \* the connection of each process's current DbManager
  held             \* the connections each process keeps open

tables == <<words, urls, frequencies>>
dbVars == <<words, urls, frequencies, conn, held>>

Row == [word : Word, url : Url, frequency : Nat]

DbTypeOK ==
  /\ words \subseteq Word /\ urls \subseteq Url
  /\ frequencies \subseteq Row
  /\ conn \in [Process -> {"none", "open", "broken"}]
  /\ held \in [Process -> Nat]

DbInit ==
  /\ words = {} /\ urls = {} /\ frequencies = {}
  /\ conn = [p \in Process |-> "none"]
  /\ held = [p \in Process |-> 0]

-----------------------------------------------------------------------------
(* Connections.                                                            *)

\* The constructor, when the server grants the connection.  CREATE TABLE IF
\* NOT EXISTS is a no-op on the tables the model starts with.
Connect(p) ==
  /\ SumFunction(held) < MaxConnections
  /\ held' = [held EXCEPT ![p] = @ + 1]
  /\ conn' = [conn EXCEPT ![p] = "open"]

\* The constructor throws pqxx::broken_connection, which is no sql_error.
Refused == SumFunction(held) >= MaxConnections

\* The destructor that would close what it forgets.
DestroyClosing(p) ==
  /\ conn' = [conn EXCEPT ![p] = "none"]
  /\ held' = IF conn[p] = "open" THEN [held EXCEPT ![p] = @ - 1] ELSE held

\* The destructor that gives back a connection it may have lost before.
DestroyTwice(p) ==
  /\ conn' = [conn EXCEPT ![p] = "none"]
  /\ held' = [held EXCEPT ![p] = @ - 1]

\* The destructor: conn = nullptr; delete conn.
Destroy(p) ==
  /\ conn' = [conn EXCEPT ![p] = "none"]
  /\ UNCHANGED held

\* The connection breaks: pqxx does not reopen it, the server frees its slot.
ConnectionLost(p) ==
  /\ conn[p] = "open"
  /\ conn' = [conn EXCEPT ![p] = "broken"]
  /\ held' = [held EXCEPT ![p] = @ - 1]
  /\ UNCHANGED tables

\* The process ends: the operating system closes all its sockets.
ExitProcess(p) ==
  /\ conn' = [conn EXCEPT ![p] = "none"]
  /\ held' = [held EXCEPT ![p] = 0]
  /\ UNCHANGED tables

-----------------------------------------------------------------------------
(* Statements.                                                             *)

\* select id from words where word = w; any exception gives 0.
getWordId(p, w) == IF conn[p] = "open" /\ w \in words THEN w ELSE NoId
getUrlId(p, u)  == IF conn[p] = "open" /\ u \in urls  THEN u ELSE NoId

\* A column constraint refuses the insert, or the connection is broken.
WordRefused(p, w) == conn[p] # "open" \/ w \in words \cup LongWord
UrlRefused(p, u)  == conn[p] # "open" \/ u \in urls \cup LongUrl

\* An insert that may answer a refusal with the id of some row.
insertWordAnyId(p, w, id) ==
  \/ /\ ~WordRefused(p, w)
     /\ words' = words \cup {w} /\ id = w
     /\ UNCHANGED <<urls, frequencies>>
  \/ /\ WordRefused(p, w)
     /\ id \in words \cup {NoId}
     /\ UNCHANGED tables

\* insert into words ... returning id: the new id, or 0 for any exception.
insertWord(p, w, id) ==
  \/ /\ ~WordRefused(p, w)
     /\ words' = words \cup {w} /\ id = w
     /\ UNCHANGED <<urls, frequencies>>
  \/ /\ WordRefused(p, w)
     /\ id = NoId
     /\ UNCHANGED tables

insertUrl(p, u, id) ==
  \/ /\ ~UrlRefused(p, u)
     /\ urls' = urls \cup {u} /\ id = u
     /\ UNCHANGED <<words, frequencies>>
  \/ /\ UrlRefused(p, u)
     /\ id = NoId
     /\ UNCHANGED tables

\* The constraints of table frequencies without UNIQUE(word_id, url_id).
FrequencyTwice(p, wid, uid) ==
  conn[p] # "open" \/ wid \notin words \/ uid \notin urls

\* UNIQUE(word_id, url_id) and the two foreign keys of table frequencies.
FrequencyRefused(p, wid, uid) ==
  \/ conn[p] # "open"
  \/ wid \notin words \/ uid \notin urls
  \/ \E r \in frequencies : r.word = wid /\ r.url = uid

\* insert into frequencies: nothing happens when it throws.
insertFrequency(p, wid, uid, n) ==
  \/ /\ ~FrequencyRefused(p, wid, uid)
     /\ frequencies' = frequencies \cup
                         {[word |-> wid, url |-> uid, frequency |-> n]}
     /\ UNCHANGED <<words, urls>>
  \/ /\ FrequencyRefused(p, wid, uid)
     /\ UNCHANGED tables

\* The presence of w on u is in the database.
Stored(w, u) == \E r \in frequencies : r.word = w /\ r.url = u
=============================================================================
