-------------------------------- MODULE Crawl --------------------------------
(***************************************************************************)
(* One worker's processUrl (Crowler.cpp): it downloads a page, following   *)
(* redirects, saves it, and goes through the links of the page before it   *)
(* comes back to its caller.  The call stack is a sequence, innermost call *)
(* first.                                                                  *)
(*                                                                         *)
(* A resource is a host and a name.  A target is what the program keeps:   *)
(* a domain and a path, the path being a name behind some slashes.         *)
(* parseSubUrl leaves the path of a relative link as it is, and gives an   *)
(* absolute link a path with no slash at all.                              *)
(***************************************************************************)
EXTENDS Integers, Sequences, FiniteSets, Functions

CONSTANTS
  Host, Name,    \* domains, and names of resources
  Root,          \* the empty name
  Sites,         \* webs: what each resource is, a page, a redirect or absent
  Start,         \* the configured start page, a target
  Signer,        \* the authority that signed the certificate of each host
  RootSets,      \* what root_certificates.hpp may hold: sets of authorities
  Depths,        \* values of recursionDepth, an unsigned short
  HalfShort,     \* 2^15
  MaxFaults      \* bound on downloads that fail

Relative(n, s) == [kind |-> "relative", name |-> n, slashes |-> s]
Absolute(h, n) == [kind |-> "absolute", host |-> h, name |-> n]
\* "http" somewhere, and three parts between slashes: no parts[3].
HostOnly(h) == [kind |-> "hostonly", host |-> h]
\* "http" somewhere, and fewer parts: no parts[2] either.
Broken == [kind |-> "broken"]
\* At most one character.
Short == [kind |-> "short"]

Page(links) == [kind |-> "page", links |-> links]
Moved(link) == [kind |-> "moved", location |-> link]
Absent == [kind |-> "absent"]

AnyLink ==
  [kind : {"relative"}, name : Name, slashes : Nat] \cup
  [kind : {"absolute"}, host : Host, name : Name] \cup
  [kind : {"hostonly"}, host : Host] \cup {Broken, Short}

Resource(r) ==
  /\ r.kind \in {"page", "moved", "absent"}
  /\ r.kind = "page" => r.links \in Seq(AnyLink)
  /\ r.kind = "moved" => r.location \in AnyLink \ {Short}

Target(h, s, n) == [host |-> h, slashes |-> s, name |-> n]
\* Strings read behind the end of a vector are empty when that is survived.
Nowhere == Target("", 0, Root)

AnyTarget == [host : Host \cup {""}, slashes : Nat, name : Name]

ASSUME CrawlAssumption ==
  /\ IsFiniteSet(Host) /\ IsFiniteSet(Name)
  /\ Root \in Name /\ Start \in AnyTarget
  /\ \A w \in Sites :
       /\ DOMAIN w = Host \X Name
       /\ \A x \in Host \X Name : Resource(w[x])
  /\ DOMAIN Signer = Host
  /\ HalfShort \in Nat \ {0, 1} /\ MaxFaults \in Nat
  /\ Depths \subseteq 0 .. 2 * HalfShort - 1

VARIABLES
  mode,         \* what the innermost call is doing
  stack,        \* the calls: target, depth, links still to go through
  request,      \* target of the running download
  body,         \* what has been downloaded
  saved,        \* targets passed to savePresencesToDb, with what was served
  site,         \* the web that is crawled
  roots,        \* the authorities load_root_certificates adds
  recursionDepth,
  faults

given == <<site, roots, recursionDepth>>
vars == <<mode, stack, request, body, saved, given, faults>>

\* A conversion to short, which keeps the low 16 bits.
ToShort(n) == ((n + HalfShort) % (2 * HalfShort)) - HalfShort

-----------------------------------------------------------------------------
(* parseSubUrl, for a link found on a page of domain h.                    *)

parseSubUrl(h, link) ==
  CASE link.kind = "relative" -> Target(h, link.slashes, link.name)
    [] link.kind = "absolute" -> Target(link.host, 0, link.name)
    [] link.kind = "hostonly" -> Target(link.host, 0, Root)
    [] link.kind = "broken"   -> Nowhere

\* The links that make it read behind the end of parts.
Overruns(link) == link.kind \in {"hostonly", "broken"}

\* download calls itself with "/" + path.
Redirected(h, link) == [parseSubUrl(h, link) EXCEPT !.slashes = @ + 1]

\* verify_peer: whether the handshake with h is completed.  The name in the
\* certificate is not looked at.
Verified(h) == h \in Host /\ Signer[h] \in roots

\* What a download finds: a path has to begin with a slash.
Answer(t) ==
  IF t.slashes = 0 \/ ~Verified(t.host) THEN Absent
  ELSE site[<<t.host, t.name>>]

-----------------------------------------------------------------------------
(* processUrl.                                                             *)

Call(t, d) == [target |-> t, depth |-> d, links |-> <<>>]

\* Every download adds the same authorities to a new context.
load_root_certificates == roots \in RootSets

Init ==
  /\ recursionDepth \in Depths /\ site \in Sites /\ load_root_certificates
  /\ mode = "download"
  /\ stack = <<Call(Start, ToShort(recursionDepth))>>
  /\ request = Start
  /\ body = Absent /\ saved = {} /\ faults = 0

\* The test and the decrement around the loop over the links.
DeeperIfGreater(d) == d > 1
Deeper(d) == d # 1

\* Without the decrement, and with an int.
BelowSame(d) == d
BelowInt(d) == d - 1

Below(d) == ToShort(d - 1)

Redirect ==
  /\ mode = "download" /\ Answer(request).kind = "moved"
  /\ request' = Redirected(request.host, Answer(request).location)
  /\ UNCHANGED <<mode, stack, body, saved, given, faults>>

\* Status 200; for any other status and for every exception the text is "".
Download ==
  /\ mode = "download" /\ mode' = "save"
  /\ \/ /\ Answer(request).kind # "moved"
        /\ body' = Answer(request)
        /\ UNCHANGED faults
     \/ /\ faults < MaxFaults /\ faults' = faults + 1
        /\ body' = Absent
  /\ UNCHANGED <<stack, request, saved, given>>

\* The peer accepts the connection and then never answers, or never goes on
\* with the handshake: handshake and read have no timeout, so the thread waits
\* for ever.
Silent ==
  /\ mode = "download" /\ request.host \in Host
  /\ mode' = "silent"
  /\ UNCHANGED <<stack, request, body, saved, given, faults>>

Links == IF body.kind = "page" THEN body.links ELSE <<>>

\* The page is saved under the target processUrl was called with, whatever
\* resource the redirects led to.
SavePage ==
  /\ mode = "save" /\ mode' = "links"
  /\ saved' = saved \cup
       {[target |-> Head(stack).target,
         served |-> IF body.kind = "page" THEN <<request.host, request.name>>
                                          ELSE <<>>]}
  /\ stack' = [stack EXCEPT ![1].links =
                 IF Deeper(Head(stack).depth) THEN Links ELSE <<>>]
  /\ UNCHANGED <<request, body, given, faults>>

\* The loop that does not go on to the next link.
SameLink(call) == call

NextLink(call) == [call EXCEPT !.links = Tail(@)]

HasLink == mode = "links" /\ Head(stack).links # <<>>
Link == Head(Head(stack).links)

SkipShort ==
  /\ HasLink /\ Link = Short
  /\ stack' = <<NextLink(Head(stack))>> \o Tail(stack)
  /\ UNCHANGED <<mode, request, body, saved, given, faults>>

FollowLink ==
  /\ HasLink /\ Link # Short
  /\ LET t == parseSubUrl(Head(stack).target.host, Link) IN
     /\ stack' = <<Call(t, Below(Head(stack).depth)), NextLink(Head(stack))>>
                   \o Tail(stack)
     /\ request' = t
  /\ mode' = "download"
  /\ UNCHANGED <<body, saved, given, faults>>

\* Reading parts[2] or parts[3] of too short a vector may end the process.
Crash ==
  /\ \/ HasLink /\ Overruns(Link)
     \/ /\ mode = "download" /\ Answer(request).kind = "moved"
        /\ Overruns(Answer(request).location)
  /\ mode' = "crashed"
  /\ UNCHANGED <<stack, request, body, saved, given, faults>>

Return ==
  /\ mode = "links" /\ Head(stack).links = <<>>
  /\ stack' = Tail(stack)
  /\ mode' = IF Tail(stack) = <<>> THEN "done" ELSE "links"
  /\ UNCHANGED <<request, body, saved, given, faults>>

Next ==
  \/ Redirect \/ Download \/ Silent \/ SavePage \/ SkipShort \/ FollowLink
  \/ Crash \/ Return

\* The worker's thread runs; a download ends, or its peer is silent for ever.
Spec == Init /\ [][Next]_vars /\ WF_vars(Next)

-----------------------------------------------------------------------------
(* What a crawl should visit.                                              *)

\* The number of levels of recursionDepth: 0 is as many as a short has values.
Levels == IF recursionDepth = 0 THEN 2 * HalfShort ELSE recursionDepth

\* What t leads to after n redirects, and the page it ends with.
Hops(t) ==
  LET hop[n \in 0 .. Cardinality(DOMAIN site)] ==
        IF n = 0 THEN t
        ELSE IF Answer(hop[n - 1]).kind = "moved"
             THEN Redirected(hop[n - 1].host, Answer(hop[n - 1]).location)
             ELSE hop[n - 1]
  IN  hop

LinksOf(t) ==
  LET a == Answer(Hops(t)[Cardinality(DOMAIN site)]) IN
  IF a.kind = "page" THEN Range(a.links) \ {Short} ELSE {}

\* The targets on each level, breadth first.
Level ==
  LET level[n \in 1 .. Levels] ==
        IF n = 1 THEN {Start}
        ELSE UNION {{parseSubUrl(t.host, l) : l \in LinksOf(t)} :
                      t \in level[n - 1]}
  IN  level

WithinDepth == UNION Range(Level)

-----------------------------------------------------------------------------
(* Properties.                                                             *)

Saved == {s.target : s \in saved}

\* The variables have their types; the stack is never empty while a page is
\* being processed.
TypeOK ==
  /\ mode \in {"download", "save", "links", "done", "crashed", "silent"}
  /\ stack \in Seq([target : AnyTarget, depth : -HalfShort .. HalfShort - 1,
                   links : Seq(AnyLink)])
  /\ request \in AnyTarget /\ Resource(body)
  /\ mode = "done" <=> stack = <<>>
  /\ recursionDepth \in Depths /\ site \in Sites /\ roots \in RootSets
  /\ faults \in 0 .. MaxFaults

\* The recursion ends after as many levels as configured, although the
\* unsigned short becomes a short that may start below 1 and wrap around on
\* its way to 1; and nothing farther away is saved.
LevelsEnd == Len(stack) <= Levels
DepthRespected == LevelsEnd /\ Saved \subseteq WithinDepth

\* A crawl without a failed download has saved all targets within the depth:
\* depth first, with pages visited again on other levels, it reaches what a
\* search level by level reaches.
CrawlsAllWithinDepth ==
  (mode = "done" /\ faults = 0) => Saved = WithinDepth

\* What follows the redirects that begin at a resource is no redirect.
RedirectsEnd ==
  \A r \in DOMAIN site :
    LET t == Target(r[1], 1, r[2]) IN
    Answer(Hops(t)[Cardinality(DOMAIN site)]).kind # "moved"

\* A crawl ends, however its pages link to each other, unless redirects go in
\* a circle, which are followed for ever, or one peer is silent: no timeout
\* ends that download.
CrawlEnds ==
  (RedirectsEnd /\ [](mode # "silent")) => <>(mode \in {"done", "crashed"})

\* "Full processing of a resource: ... getting the inner resources"
\* (Crowler.cpp:49): every page a link of the start page names is served to
\* the crawler.
LinkedPagesServed ==
  (mode = "done" /\ faults = 0 /\ Levels > 1) =>
    \A l \in LinksOf(Start) :
      LET r == CASE l.kind = "absolute" -> <<l.host, l.name>>
                 [] l.kind = "hostonly" -> <<l.host, Root>>
                 [] OTHER -> <<Start.host, l.name>> IN
      (l # Broken /\ site[r].kind = "page") => \E s \in saved : s.served = r
=============================================================================
