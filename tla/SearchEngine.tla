----------------------------- MODULE SearchEngine -----------------------------
(***************************************************************************)
(* The two programs on one database: crawler processes that fill the index *)
(* (Indexer) while an http_server answers searches from it (Searcher).     *)
(* They share nothing else, so a step of the system is a transaction of    *)
(* one of them.                                                            *)
(***************************************************************************)
EXTENDS Indexer, Searcher

ASSUME ProcessAssumption == Server \notin Crawler

vars == <<indexerVars, searchVars>>

Init == IndexerInit /\ SearchInit

CrawlerAction == IndexerNext /\ UNCHANGED searchVars

ServerAction ==
  /\ SearchStep \/ \E q \in Queries : ProcessSearchRequest(q)
  /\ UNCHANGED <<localVars, faults>>

ServerFault ==
  /\ Fault
  /\ \/ ConnectionLost(Server) /\ UNCHANGED searchVars
     \/ ConstructorThrows
     \/ RestartServer
  /\ UNCHANGED localVars

Next == CrawlerAction \/ ServerAction \/ ServerFault

Spec == Init /\ [][Next]_vars

\* Both programs are scheduled, and a client keeps asking.
FairSpec ==
  /\ Spec
  /\ \A c \in Crawler : WF_vars(CrawlerStep(c) /\ UNCHANGED searchVars)
  /\ WF_vars(ServerAction)

SystemTypeOK == TypeOK /\ SearchTypeOK

-----------------------------------------------------------------------------
(* Properties.                                                             *)

\* Searches go on being answered ("to run http-server to process search
\* queries", README.MD:37): not all end in the catch block from some time on.
KeepsAnswering == []<>Answered
=============================================================================
