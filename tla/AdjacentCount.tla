----------------------------- MODULE AdjacentCount -----------------------------
(***************************************************************************)
(* The loop of adjacent_count (DbManager.cpp) over every short vector: an  *)
(* iterator "it" at the start of a run, and one std::adjacent_find with    *)
(* not_equal_to per turn, which stops ON the last element of the run, or   *)
(* at the end of the vector.  Position Len(v) + 1 is v.end().              *)
(***************************************************************************)
EXTENDS AdjacentRuns, SequencesExt

CONSTANTS
  Element,     \* the ids of resources
  MaxLength    \* bound on the length of the vector

ASSUME AdjacentAssumption == MaxLength \in Nat

VARIABLES v, it, res

vars == <<v, it, res>>

end == Len(v) + 1

\* The search that starts behind its first argument.
adjacent_find_next(from) ==
  LET found == {k \in from + 1 .. Len(v) - 1 : v[k] # v[k + 1]} IN
  IF found = {} THEN end ELSE CHOOSE k \in found : \A m \in found : k <= m

\* std::adjacent_find(from, end, not_equal_to): the first element that differs
\* from its successor.
adjacent_find(from) ==
  LET found == {k \in from .. Len(v) - 1 : v[k] # v[k + 1]} IN
  IF found = {} THEN end ELSE CHOOSE k \in found : \A m \in found : k <= m

Init ==
  /\ v \in UNION {[1 .. n -> Element] : n \in 0 .. MaxLength}
  /\ it = 1 /\ res = <<>>

\* it2 moved behind the run only where the search has not moved at all.
RunEndShort(from) ==
  LET it2 == adjacent_find(from) IN IF it2 > from THEN it2 ELSE it2 + 1

\* it2: behind the last element of the run.
RunEnd(from) ==
  LET it2 == adjacent_find(from) IN IF it2 # end THEN it2 + 1 ELSE it2

Turn ==
  /\ it # end
  /\ res' = Append(res, <<v[it], RunEnd(it) - it>>)
  /\ it' = RunEnd(it)
  /\ UNCHANGED v

Next == Turn

Spec == Init /\ [][Next]_vars

-----------------------------------------------------------------------------
\* Each turn consumes a whole run: the runs found so far, written out again,
\* are the part of the vector before "it", and no two neighbours are equal.
PrefixCounted ==
  /\ FlattenSeq([i \in DOMAIN res |-> [k \in 1 .. res[i][2] |-> res[i][1]]])
       = SubSeq(v, 1, it - 1)
  /\ \A i \in DOMAIN res : res[i][2] > 0 /\ (i > 1 => res[i - 1][1] # res[i][1])

\* What it returns are the runs that module Searcher filters.
ReturnsRuns == it = end => Range(res) = Runs(v)

\* When equal elements are adjacent, as the caller supposes of the rows of its
\* query, each element comes once, with the number of its occurrences.
Grouped ==
  \A i, j \in DOMAIN v : (i < j /\ v[i] = v[j]) => \A k \in i .. j : v[k] = v[i]

GroupedGivesTotals ==
  (it = end /\ Grouped) =>
    /\ \A i, j \in DOMAIN res : i # j => res[i][1] # res[j][1]
    /\ \A i \in DOMAIN res :
         res[i][2] = Cardinality({k \in DOMAIN v : v[k] = res[i][1]})
=============================================================================
