---------------------------- MODULE MCSearchEngine ----------------------------
(* Small sites and queries for the runs of SearchEngine.                   *)
EXTENDS SearchEngine, TLC

CONSTANTS a, b, u1, u2

\* Both words are on both pages; the first one changes at times.
Site == (u1 :> {(a :> 1) @@ (b :> 2), (a :> 3) @@ (b :> 2)}) @@ (u2 :> {(a :> 2) @@ (b :> 3)})

BothPages == <<u1, u2>>

OneOrTwo == {<<a>>, <<a, b>>}
OneWord == {<<a>>}
TwoWords == {<<a, b>>}
=============================================================================
