---------------------------- MODULE InvertedIndex ----------------------------
(***************************************************************************)
(* What the search engine promises: an index that only grows, with one     *)
(* count per word and resource that never changes, and searches that name  *)
(* resources holding all the words asked for, by descending total count.   *)
(* It does not promise that a reply names all of them.                     *)
(***************************************************************************)
EXTENDS Naturals, Sequences, Functions

CONSTANTS
  Word, Url, Queries,
  Occurrences(_)   \* the sum of the counts of some entries

VARIABLES index, asked, query, reply

vars == <<index, asked, query, reply>>

Entry == [word : Word, url : Url, frequency : Nat]

Holds(u, w) == \E e \in index : e.word = w /\ e.url = u

Total(u, q) ==
  Occurrences({e \in index : e.url = u /\ e.word \in Range(q)})

Init == index = {} /\ asked = FALSE /\ query = <<>> /\ reply = <<>>

\* A crawler adds the count of a word on a resource that has none yet.
Add ==
  /\ \E e \in index' \ index :
       e \in Entry /\ ~Holds(e.url, e.word) /\ index' = index \cup {e}
  /\ UNCHANGED <<asked, query, reply>>

Ask(q) ==
  /\ ~asked /\ asked' = TRUE
  /\ query' = q /\ reply' = <<>>
  /\ UNCHANGED index

\* A correct reply to the query over the index of this moment.
IsReply(s) ==
  /\ \A i \in DOMAIN s : s[i] \in Url /\ \A w \in Range(query) : Holds(s[i], w)
  /\ \A i, j \in DOMAIN s : i < j =>
       s[i] # s[j] /\ Total(s[i], query) >= Total(s[j], query)

Answer ==
  /\ asked /\ asked' = FALSE
  /\ reply' \in Seq(Url) /\ IsReply(reply')
  /\ UNCHANGED <<index, query>>

\* The server was restarted: the search is forgotten.
Forget ==
  /\ asked' = FALSE /\ query' = <<>> /\ reply' = <<>>
  /\ UNCHANGED index

Next == Add \/ (\E q \in Queries : Ask(q)) \/ Answer \/ Forget

Spec == Init /\ [][Next]_vars
=============================================================================
