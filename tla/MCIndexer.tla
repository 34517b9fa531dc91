------------------------------ MODULE MCIndexer ------------------------------
(* A small site for the run of Indexer.                                    *)
EXTENDS Indexer, TLC

CONSTANTS a, b, long, u1, u2

\* u1 may have changed between crawls, and then has a more often than an
\* unsigned short of FreqModulus 4 can hold, and a word that fits no row.
\* The resource u2 fits no row itself.
Site == (u1 :> {(a :> 1) @@ (b :> 2), (a :> 5) @@ (long :> 1)}) @@
        (u2 :> {(b :> 1)})

\* A crawl that meets the first page again.
TwiceFirst == <<u1, u2, u1>>
=============================================================================
