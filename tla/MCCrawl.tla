------------------------------- MODULE MCCrawl -------------------------------
(* Webs for the runs of Crawl.                                             *)
EXTENDS Crawl, TLC

CONSTANTS h1, h2, root, p

\* Pages with links to themselves, to each other, to the other host, of every
\* kind, and redirects to both hosts, in circles too.
Kinds ==
  {Absent,
   Page(<<Relative(p, 1), Short, Relative(root, 1)>>),
   Page(<<Absolute(h2, p), Relative(p, 0)>>),
   Page(<<Broken, Relative(p, 1), HostOnly(h2)>>),
   Moved(Absolute(h2, p)), Moved(Relative(root, 1)), Moved(Broken),
   Moved(HostOnly(h1))}

\* Every web of two pages of one host and one of the other.
Webs == {w \in [Host \X Name -> Kinds] : w[<<h2, root>>] = Absent}

\* A relative and an absolute link to pages of the same host.
WithAbsolute ==
  {(<<h1, root>> :> Page(<<Relative(root, 1), Absolute(h1, p)>>)) @@
   (<<h1, p>> :> Page(<<>>)) @@ [x \in Host \X Name |-> Absent]}

\* Each host has an authority of its own.
OwnAuthority == [h \in Host |-> h]

StartPage == Target(h1, 1, root)
=============================================================================
