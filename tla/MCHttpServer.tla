----------------------------- MODULE MCHttpServer -----------------------------
(* Requests and rows for the runs of HttpServer.                           *)
EXTENDS HttpServer, TLC

CONSTANTS a, b, u1

Get(target) == [method |-> "get", target |-> target]
Post(body) == [method |-> "post", target |-> "/", body |-> body]

\* A search, a body without "=", and requests that are no search.
AllKinds ==
  {Post(<< <<a>>, <<b>> >>), Post(<< <<a>> >>), Get("/"),
   [method |-> "malformed"]}

\* A body without "=", which may end the process or become any search, and
\* what cannot be read.
UndefinedOrUnreadable == {Post(<< <<a>> >>), [method |-> "malformed"]}

OneWord == {<<a>>, <<b>>}

Crawled == {[word |-> b, url |-> u1, frequency |-> 2]}
Nothing == {}

Connections == Permutations(Connection)
=============================================================================
