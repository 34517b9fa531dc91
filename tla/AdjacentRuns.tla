----------------------------- MODULE AdjacentRuns -----------------------------
(***************************************************************************)
(* The runs of equal adjacent elements of a vector: what adjacent_count    *)
(* (DbManager.cpp) returns, without the order of the runs.  AdjacentCount  *)
(* shows that its loop computes them.                                      *)
(***************************************************************************)
EXTENDS Naturals, Sequences

\* v[i..j] is a maximal run of equal elements.
EqualRun(v, i, j) ==
  /\ i <= j
  /\ \A k \in i .. j : v[k] = v[i]
  /\ i > 1 => v[i - 1] # v[i]
  /\ j < Len(v) => v[j + 1] # v[i]

\* The value and the length of each run.
Runs(v) ==
  {<<v[p[1]], p[2] - p[1] + 1>> :
     p \in {x \in (DOMAIN v) \X (DOMAIN v) : EqualRun(v, x[1], x[2])}}
=============================================================================
