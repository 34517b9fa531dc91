----------------------------- MODULE CrawlProofs -----------------------------
(***************************************************************************)
(* Safety of the crawl of a site (module Crawl), for all webs, certificate *)
(* authorities, depths, and widths of the short.                           *)
(*                                                                         *)
(* CrawlIInv says of every call on the stack on which level it is: its     *)
(* depth is the configured one less the levels above it, as a short, and   *)
(* it has links left to go through only if that is not 1.                  *)
(*                                                                         *)
(* SearchInv adds what makes the recursion a search of the web: the calls  *)
(* process targets of their levels, a download is a chain of redirects     *)
(* from its call's target, and there is a set of visits, each saved with   *)
(* everything its links lead to, or still being worked on.                 *)
(***************************************************************************)
EXTENDS Crawl, FiniteSetTheorems, WellFoundedInduction, TLAPS

AnyCall == [target : AnyTarget, depth : -HalfShort .. HalfShort - 1,
            links : Seq(AnyLink)]

\* The depth of the k-th call below the first.
DepthOf(k) == ToShort(recursionDepth - k)

Levelled ==
  \A i \in DOMAIN stack :
    /\ stack[i].depth = DepthOf(Len(stack) - i)
    /\ stack[i].links # <<>> => stack[i].depth # 1

CrawlIInv == TypeOK /\ LevelsEnd /\ Levelled

-----------------------------------------------------------------------------
(* Arithmetic of the short.                                                *)

LEMMA ModSmall ==
  ASSUME NEW a \in Int, NEW b \in Nat \ {0}, 0 <= a, a < b PROVE a % b = a
OBVIOUS

LEMMA ModOver ==
  ASSUME NEW a \in Int, NEW b \in Nat \ {0}, b <= a, a < 2 * b
  PROVE  a % b = a - b
OBVIOUS

LEMMA ModBelow ==
  ASSUME NEW a \in Int, NEW b \in Nat \ {0}, -b <= a, a < 0
  PROVE  a % b = a + b
OBVIOUS

\* What the conversion makes of numbers near the range of a short.
LEMMA ToShortIs ==
  ASSUME NEW n \in -3 * HalfShort .. 3 * HalfShort - 1
  PROVE  ToShort(n) = IF n < -HalfShort THEN n + 2 * HalfShort
                      ELSE IF n < HalfShort THEN n ELSE n - 2 * HalfShort
<1> DEFINE a == n + HalfShort
           b == 2 * HalfShort
<1>1. /\ HalfShort \in Nat \ {0} /\ n \in Int /\ a \in Int /\ b \in Nat \ {0}
      /\ -b <= a /\ a < 2 * b
  BY CrawlAssumption
<1>2. a % b = IF a < 0 THEN a + b ELSE IF a < b THEN a ELSE a - b
  <2> HIDE DEF a, b
  <2>1. CASE a < 0
    BY <1>1, <2>1, ModBelow
  <2>2. CASE 0 <= a /\ a < b
    BY <1>1, <2>2, ModSmall
  <2>3. CASE b <= a
    <3>1. a % b = a - b
      BY <1>1, <2>3, ModOver
    <3>2. ~(a < 0) /\ ~(a < b)
      BY <1>1, <2>3
    <3> QED
      BY <3>1, <3>2
  <2> QED
    BY <1>1, <2>1, <2>2, <2>3
<1>3. ToShort(n) = (a % b) - HalfShort
  BY DEF ToShort
<1> QED
  BY <1>1, <1>2, <1>3

LEMMA LevelsType ==
  ASSUME TypeOK PROVE Levels \in 1 .. 2 * HalfShort
<1>1. recursionDepth \in Depths
  BY DEF TypeOK
<1>2. HalfShort \in Nat \ {0} /\ Depths \subseteq 0 .. 2 * HalfShort - 1
  BY CrawlAssumption
<1> QED
  BY <1>1, <1>2 DEF Levels

\* A level deeper, the depth is that of the next level; and it is 1 on the
\* last level.
LEMMA NextLevel ==
  ASSUME TypeOK, NEW k \in 0 .. Levels - 1
  PROVE  /\ DepthOf(k) \in -HalfShort .. HalfShort - 1
         /\ Below(DepthOf(k)) = DepthOf(k + 1)
         /\ k = Levels - 1 => DepthOf(k) = 1
<1> USE CrawlAssumption
<1>1. recursionDepth \in 0 .. 2 * HalfShort - 1 /\ k \in 0 .. 2 * HalfShort - 1
  BY LevelsType DEF TypeOK
<1> DEFINE n == recursionDepth - k
<1>2. /\ n \in -3 * HalfShort .. 3 * HalfShort - 1
      /\ n - 1 \in -3 * HalfShort .. 3 * HalfShort - 1
  BY <1>1
<1>3. DepthOf(k) \in -HalfShort .. HalfShort - 1
  BY <1>1, <1>2, ToShortIs DEF DepthOf
<1>4. DepthOf(k) - 1 \in -3 * HalfShort .. 3 * HalfShort - 1
  BY <1>3
<1>5. Below(DepthOf(k)) = DepthOf(k + 1)
  <2>1. Below(DepthOf(k)) = ToShort(DepthOf(k) - 1)
    BY DEF Below
  <2>2. DepthOf(k + 1) = ToShort(n - 1)
    <3>1. recursionDepth - (k + 1) = n - 1
      BY <1>1
    <3> QED
      BY <3>1 DEF DepthOf
  <2>3. ToShort(n - 1) =
          IF n - 1 < -HalfShort THEN n - 1 + 2 * HalfShort
          ELSE IF n - 1 < HalfShort THEN n - 1 ELSE n - 1 - 2 * HalfShort
    BY <1>2, ToShortIs
  <2>4. ToShort(DepthOf(k) - 1) =
          IF DepthOf(k) - 1 < -HalfShort THEN DepthOf(k) - 1 + 2 * HalfShort
          ELSE IF DepthOf(k) - 1 < HalfShort THEN DepthOf(k) - 1
          ELSE DepthOf(k) - 1 - 2 * HalfShort
    BY <1>4, ToShortIs
  <2>5. DepthOf(k) = IF n < -HalfShort THEN n + 2 * HalfShort
                     ELSE IF n < HalfShort THEN n ELSE n - 2 * HalfShort
    BY <1>2, ToShortIs DEF DepthOf
  <2> QED
    BY <1>1, <2>1, <2>2, <2>3, <2>4, <2>5
<1>6. k = Levels - 1 => DepthOf(k) = 1
  BY <1>1, <1>2, ToShortIs DEF DepthOf, Levels
<1> QED
  BY <1>3, <1>5, <1>6

-----------------------------------------------------------------------------
(* Sequences of calls.                                                     *)

LEMMA OneCall ==
  ASSUME NEW k \in AnyCall
  PROVE  /\ <<k>> \in Seq(AnyCall) /\ Len(<<k>>) = 1 /\ <<k>>[1] = k
OBVIOUS

\* The innermost call replaced by k.
LEMMA HeadReplaced ==
  ASSUME NEW s \in Seq(AnyCall), s # <<>>, NEW k \in AnyCall
  PROVE  LET r == <<k>> \o Tail(s) IN
         /\ r \in Seq(AnyCall) /\ Len(r) = Len(s) /\ r # <<>> /\ r[1] = k
         /\ \A i \in 2 .. Len(s) : r[i] = s[i]
<1> DEFINE r == <<k>> \o Tail(s)
<1>1. Tail(s) \in Seq(AnyCall) /\ Len(Tail(s)) = Len(s) - 1 /\ Len(s) \in Nat \ {0}
  OBVIOUS
<1>2. <<k>> \in Seq(AnyCall) /\ Len(<<k>>) = 1 /\ <<k>>[1] = k
  BY OneCall
<1>3. r \in Seq(AnyCall) /\ Len(r) = Len(s)
  BY <1>1, <1>2
<1>4. r[1] = k
  BY <1>1, <1>2
<1>5. \A i \in 2 .. Len(s) : r[i] = s[i]
  BY <1>1, <1>2
<1> QED
  BY <1>1, <1>3, <1>4, <1>5

\* The innermost call k calling j.
LEMMA CallAdded ==
  ASSUME NEW s \in Seq(AnyCall), s # <<>>, NEW k \in AnyCall, NEW j \in AnyCall
  PROVE  LET r == <<j, k>> \o Tail(s) IN
         /\ r \in Seq(AnyCall) /\ Len(r) = Len(s) + 1 /\ r[1] = j /\ r[2] = k
         /\ \A i \in 3 .. Len(s) + 1 : r[i] = s[i - 1]
<1> DEFINE r == <<j, k>> \o Tail(s)
<1>1. Tail(s) \in Seq(AnyCall) /\ Len(Tail(s)) = Len(s) - 1 /\ Len(s) \in Nat \ {0}
  OBVIOUS
<1>2. /\ <<j, k>> \in Seq(AnyCall) /\ Len(<<j, k>>) = 2
      /\ <<j, k>>[1] = j /\ <<j, k>>[2] = k
  OBVIOUS
<1>3. r \in Seq(AnyCall) /\ Len(r) = Len(s) + 1
  BY <1>1, <1>2
<1>4. r[1] = j /\ r[2] = k
  BY <1>1, <1>2
<1>5. \A i \in 3 .. Len(s) + 1 : r[i] = s[i - 1]
  BY <1>1, <1>2
<1> QED
  BY <1>3, <1>4, <1>5

-----------------------------------------------------------------------------
(* The steps.                                                              *)

LEMMA AnswerType ==
  ASSUME TypeOK, NEW t \in AnyTarget PROVE Resource(Answer(t))
<1>1. Resource(Absent)
  BY DEF Resource, Absent
<1>2. CASE t.slashes # 0 /\ Verified(t.host)
  <2>1. t.host \in Host /\ t.name \in Name
    BY <1>2 DEF AnyTarget, Verified
  <2> QED
    BY <1>2, <2>1, CrawlAssumption DEF TypeOK, Answer
<1> QED
  BY <1>1, <1>2 DEF Answer

LEMMA TargetType ==
  ASSUME NEW h \in Host \cup {""}, NEW s \in Nat, NEW n \in Name
  PROVE  Target(h, s, n) \in AnyTarget
BY DEF Target, AnyTarget

LEMMA ParsedType ==
  ASSUME NEW h \in Host \cup {""}, NEW l \in AnyLink \ {Short}
  PROVE  parseSubUrl(h, l) \in AnyTarget
<1>1. CASE l \in [kind : {"relative"}, name : Name, slashes : Nat]
  BY <1>1, TargetType DEF parseSubUrl
<1>2. CASE l \in [kind : {"absolute"}, host : Host, name : Name]
  BY <1>2, TargetType DEF parseSubUrl
<1>3. CASE l \in [kind : {"hostonly"}, host : Host]
  BY <1>3, CrawlAssumption, TargetType DEF parseSubUrl
<1>4. CASE l = Broken
  <2>1. Nowhere \in AnyTarget
    BY CrawlAssumption, TargetType DEF Nowhere
  <2>2. l.kind = "broken"
    BY <1>4 DEF Broken
  <2> QED
    BY <2>1, <2>2 DEF parseSubUrl
<1> QED
  BY <1>1, <1>2, <1>3, <1>4 DEF AnyLink

LEMMA SlashesType ==
  ASSUME NEW t \in AnyTarget, NEW n \in Nat
  PROVE  [t EXCEPT !.slashes = n] \in AnyTarget
BY DEF AnyTarget

LEMMA SlashesNumber ==
  ASSUME NEW t \in AnyTarget PROVE t.slashes + 1 \in Nat
<1>1. t.slashes \in Nat
  BY DEF AnyTarget
<1> QED
  BY <1>1

LEMMA RedirectedType ==
  ASSUME NEW h \in Host \cup {""}, NEW l \in AnyLink \ {Short}
  PROVE  Redirected(h, l) \in AnyTarget
<1> DEFINE t == parseSubUrl(h, l)
<1>1. t \in AnyTarget
  BY ParsedType
<1>2. [t EXCEPT !.slashes = t.slashes + 1] \in AnyTarget
  <2> HIDE DEF t
  <2>1. t.slashes + 1 \in Nat
    BY <1>1, SlashesNumber
  <2> QED
    BY <1>1, <2>1, SlashesType
<1> QED
  BY <1>1, <1>2 DEF Redirected

LEMMA CrawlInitially == Init => CrawlIInv
<1> SUFFICES ASSUME Init PROVE CrawlIInv
  OBVIOUS
<1> USE CrawlAssumption DEF Init, load_root_certificates
<1> DEFINE k == Call(Start, ToShort(recursionDepth))
<1>1. recursionDepth \in 0 .. 2 * HalfShort - 1 /\ Levels \in 1 .. 2 * HalfShort
  BY DEF Levels
<1>2. ToShort(recursionDepth) \in -HalfShort .. HalfShort - 1
  <2>1. recursionDepth \in -3 * HalfShort .. 3 * HalfShort - 1
    BY <1>1
  <2> QED
    BY <1>1, <2>1, ToShortIs
<1>3. k \in AnyCall /\ k.depth = ToShort(recursionDepth) /\ k.links = <<>>
  BY <1>2 DEF Call, AnyCall
<1>4. stack \in Seq(AnyCall) /\ Len(stack) = 1 /\ stack[1] = k
  <2> HIDE DEF k
  <2>1. <<k>> \in Seq(AnyCall) /\ Len(<<k>>) = 1 /\ <<k>>[1] = k
    BY <1>3, OneCall
  <2> QED
    BY <2>1 DEF k
<1>5. TypeOK
  BY <1>4 DEF TypeOK, AnyCall, Resource, Absent
<1>6. Levelled
  <2>1. DepthOf(0) = ToShort(recursionDepth)
    BY <1>1 DEF DepthOf
  <2>2. DOMAIN stack = {1}
    BY <1>4
  <2> HIDE DEF k
  <2> QED
    BY <1>3, <1>4, <2>1, <2>2 DEF Levelled
<1> QED
  BY <1>1, <1>4, <1>5, <1>6
     DEF CrawlIInv, LevelsEnd

\* Steps that leave the calls alone.
LEMMA SameStack ==
  ASSUME CrawlIInv, UNCHANGED <<stack, given>>
  PROVE  LevelsEnd' /\ Levelled'
BY DEF CrawlIInv, LevelsEnd, Levelled, Levels, DepthOf, ToShort, given

LEMMA RedirectKeeps ==
  ASSUME CrawlIInv, Redirect PROVE CrawlIInv'
<1> USE DEF Redirect
<1>1. TypeOK /\ request \in AnyTarget
  BY DEF CrawlIInv, TypeOK
<1>2. Answer(request).location \in AnyLink \ {Short}
  BY <1>1, AnswerType DEF Resource
<1>3. request.host \in Host \cup {""}
  BY <1>1 DEF AnyTarget
<1>4. request' \in AnyTarget
  BY <1>2, <1>3, RedirectedType
<1>5. TypeOK'
  BY <1>1, <1>4 DEF TypeOK, given
<1> QED
  BY <1>5, SameStack DEF CrawlIInv

LEMMA DownloadKeeps ==
  ASSUME CrawlIInv, Download PROVE CrawlIInv'
<1> USE CrawlAssumption DEF Download
<1>1. TypeOK /\ request \in AnyTarget
  BY DEF CrawlIInv, TypeOK
<1>2. Resource(Answer(request)) /\ Resource(Absent)
  BY <1>1, AnswerType DEF Resource, Absent
<1>3. Resource(body')
  BY <1>2
<1>4. TypeOK'
  <2>1. faults' \in 0 .. MaxFaults
    BY <1>1 DEF TypeOK
  <2> QED
    BY <1>1, <1>3, <2>1 DEF TypeOK, given
<1> QED
  BY <1>4, SameStack DEF CrawlIInv

LEMMA SilentKeeps ==
  ASSUME CrawlIInv, Silent PROVE CrawlIInv'
<1>1. UNCHANGED <<stack, given>>
  BY DEF Silent
<1>2. TypeOK'
  BY DEF CrawlIInv, TypeOK, Silent, given
<1> QED
  BY <1>1, <1>2, SameStack DEF CrawlIInv

LEMMA LevelChange ==
  ASSUME CrawlIInv, UNCHANGED given
  PROVE  Levels' = Levels /\ \A k : DepthOf(k)' = DepthOf(k)
BY DEF given, Levels, DepthOf, ToShort

LEMMA LinksType ==
  ASSUME NEW k \in AnyCall, NEW l \in Seq(AnyLink)
  PROVE  LET j == [k EXCEPT !.links = l] IN
         j \in AnyCall /\ j.target = k.target /\ j.depth = k.depth /\ j.links = l
BY DEF AnyCall

\* The innermost call with links l.
LEMMA LinksSet ==
  ASSUME NEW s \in Seq(AnyCall), s # <<>>, NEW l \in Seq(AnyLink)
  PROVE  LET r == [s EXCEPT ![1].links = l] IN
         /\ r \in Seq(AnyCall) /\ Len(r) = Len(s) /\ DOMAIN r = DOMAIN s
         /\ r[1].target = s[1].target /\ r[1].depth = s[1].depth /\ r[1].links = l
         /\ \A i \in DOMAIN s \ {1} : r[i] = s[i]
<1> DEFINE j == [s[1] EXCEPT !.links = l]
           r == [s EXCEPT ![1].links = l]
<1>1. 1 \in DOMAIN s /\ s[1] \in AnyCall
  OBVIOUS
<1>2. /\ j \in AnyCall /\ j.target = s[1].target
      /\ j.depth = s[1].depth /\ j.links = l
  BY <1>1, LinksType
<1>3. r = [s EXCEPT ![1] = j]
  OBVIOUS
<1> HIDE DEF j, r
<1>4. /\ r \in Seq(AnyCall) /\ Len(r) = Len(s) /\ DOMAIN r = DOMAIN s
      /\ r[1] = j /\ \A i \in DOMAIN s \ {1} : r[i] = s[i]
  BY <1>1, <1>2, <1>3
<1> QED
  BY <1>2, <1>4 DEF r

LEMMA SavePageKeeps ==
  ASSUME CrawlIInv, SavePage PROVE CrawlIInv'
<1> DEFINE left == IF Deeper(Head(stack).depth) THEN Links ELSE <<>>
<1>1. /\ TypeOK /\ stack \in Seq(AnyCall) /\ stack # <<>>
      /\ Len(stack) \in Nat \ {0} /\ 1 \in DOMAIN stack
  BY DEF CrawlIInv, TypeOK, AnyCall, SavePage
<1>2. left \in Seq(AnyLink)
  BY <1>1 DEF Links, TypeOK, Resource
<1>3. stack' = [stack EXCEPT ![1].links = left] /\ UNCHANGED given
  BY DEF SavePage
<1>4. left # <<>> => stack[1].depth # 1
  BY <1>1 DEF Deeper
<1> HIDE DEF left
<1>5. /\ stack' \in Seq(AnyCall) /\ Len(stack') = Len(stack) /\ DOMAIN stack' = DOMAIN stack
      /\ stack'[1].depth = stack[1].depth /\ stack'[1].links = left
      /\ \A i \in DOMAIN stack \ {1} : stack'[i] = stack[i]
  BY <1>1, <1>2, <1>3, LinksSet
<1>6. TypeOK'
  BY <1>1, <1>5 DEF TypeOK, SavePage, AnyCall, given
<1>7. LevelsEnd' /\ Levelled'
  BY <1>3, <1>4, <1>5, LevelChange DEF CrawlIInv, LevelsEnd, Levelled
<1> QED
  BY <1>6, <1>7 DEF CrawlIInv

\* The innermost call goes on to its next link.
LEMMA NextLinkType ==
  ASSUME NEW k \in AnyCall, k.links # <<>>
  PROVE  /\ NextLink(k) \in AnyCall /\ NextLink(k).depth = k.depth
         /\ NextLink(k).target = k.target /\ NextLink(k).links = Tail(k.links)
BY DEF AnyCall, NextLink

LEMMA SkipShortKeeps ==
  ASSUME CrawlIInv, SkipShort PROVE CrawlIInv'
<1> DEFINE k == NextLink(stack[1])
<1>1. /\ TypeOK /\ stack \in Seq(AnyCall) /\ stack # <<>>
      /\ Len(stack) \in Nat \ {0} /\ 1 \in DOMAIN stack
  BY DEF CrawlIInv, TypeOK, AnyCall, SkipShort, HasLink
<1>2. stack[1] \in AnyCall /\ stack[1].links # <<>> /\ stack[1].depth # 1
  BY <1>1 DEF SkipShort, HasLink, CrawlIInv, Levelled
<1>3. k \in AnyCall /\ k.depth = stack[1].depth
  BY <1>2, NextLinkType
<1>4. stack' = <<k>> \o Tail(stack) /\ UNCHANGED given
  BY <1>1 DEF SkipShort
<1> HIDE DEF k
<1>5. /\ stack' \in Seq(AnyCall) /\ Len(stack') = Len(stack) /\ stack' # <<>>
      /\ stack'[1] = k /\ \A i \in 2 .. Len(stack) : stack'[i] = stack[i]
  BY <1>1, <1>3, <1>4, HeadReplaced
<1>6. TypeOK'
  BY <1>1, <1>5 DEF TypeOK, SkipShort, HasLink, AnyCall, given
<1>7. Levelled'
  <2>1. \A i \in DOMAIN stack' : i = 1 \/ i \in 2 .. Len(stack)
    BY <1>1, <1>5
  <2>2. DOMAIN stack' = DOMAIN stack
    BY <1>1, <1>5
  <2>3. stack'[1].depth = stack[1].depth /\ stack'[1].depth # 1
    BY <1>2, <1>3, <1>5
  <2> QED
    BY <1>1, <1>4, <1>5, <2>1, <2>2, <2>3, LevelChange DEF CrawlIInv, Levelled
<1>8. LevelsEnd'
  BY <1>4, <1>5, LevelChange DEF CrawlIInv, LevelsEnd
<1> QED
  BY <1>6, <1>7, <1>8 DEF CrawlIInv

LEMMA ReturnKeeps ==
  ASSUME CrawlIInv, Return PROVE CrawlIInv'
<1>1. /\ TypeOK /\ stack \in Seq(AnyCall) /\ stack # <<>> /\ Len(stack) \in Nat \ {0}
  BY DEF CrawlIInv, TypeOK, AnyCall, Return
<1>2. /\ stack' = Tail(stack) /\ stack' \in Seq(AnyCall) /\ Len(stack') = Len(stack) - 1
      /\ \A i \in 1 .. Len(stack) - 1 : stack'[i] = stack[i + 1]
  BY <1>1 DEF Return
<1>3. UNCHANGED given
  BY DEF Return
<1>4. TypeOK'
  BY <1>1, <1>2 DEF TypeOK, Return, AnyCall, given
<1>5. Levelled'
  <2> SUFFICES ASSUME NEW i \in 1 .. Len(stack) - 1
               PROVE  /\ stack'[i].depth = DepthOf(Len(stack) - (i + 1))
                      /\ stack'[i].links # <<>> => stack'[i].depth # 1
    <3>1. DOMAIN stack' = 1 .. Len(stack) - 1
      BY <1>1, <1>2
    <3>2. \A i \in 1 .. Len(stack) - 1 : Len(stack') - i = Len(stack) - (i + 1)
      BY <1>1, <1>2
    <3> QED
      BY <1>3, <3>1, <3>2, LevelChange DEF Levelled
  <2>1. i + 1 \in DOMAIN stack
    BY <1>1
  <2> QED
    BY <1>2, <2>1 DEF CrawlIInv, Levelled
<1>6. LevelsEnd'
  BY <1>1, <1>2, <1>3, LevelsType, LevelChange DEF CrawlIInv, LevelsEnd
<1> QED
  BY <1>4, <1>5, <1>6 DEF CrawlIInv

LEMMA FollowLinkKeeps ==
  ASSUME CrawlIInv, FollowLink PROVE CrawlIInv'
<1> DEFINE k == NextLink(stack[1])
           t == parseSubUrl(stack[1].target.host, Link)
           j == Call(t, Below(stack[1].depth))
           n == Len(stack)
<1>1. /\ TypeOK /\ stack \in Seq(AnyCall) /\ stack # <<>>
      /\ n \in Nat \ {0} /\ 1 \in DOMAIN stack
  BY DEF CrawlIInv, TypeOK, AnyCall, FollowLink, HasLink
<1>2. stack[1] \in AnyCall /\ stack[1].links # <<>> /\ stack[1].depth # 1
  BY <1>1 DEF FollowLink, HasLink, CrawlIInv, Levelled
<1>3. k \in AnyCall /\ k.depth = stack[1].depth
  BY <1>2, NextLinkType
<1>4. t \in AnyTarget
  <2>1. Link \in AnyLink \ {Short}
    BY <1>1, <1>2 DEF FollowLink, Link, AnyCall
  <2>2. stack[1].target.host \in Host \cup {""}
    BY <1>2 DEF AnyCall, AnyTarget
  <2> QED
    BY <2>1, <2>2, ParsedType
<1>5. /\ stack' = <<j, k>> \o Tail(stack) /\ request' = t /\ mode' = "download"
      /\ UNCHANGED <<body, saved, given, faults>>
  BY <1>1 DEF FollowLink
<1>6. /\ stack[1].depth = DepthOf(n - 1) /\ n < Levels /\ Levels \in Nat
      /\ Below(DepthOf(n - 1)) = DepthOf(n) /\ DepthOf(n) \in -HalfShort .. HalfShort - 1
  <2>1. stack[1].depth = DepthOf(n - 1) /\ n <= Levels
    BY <1>1 DEF CrawlIInv, Levelled, LevelsEnd
  <2>2. Levels \in 1 .. 2 * HalfShort /\ Levels \in Nat
    BY <1>1, LevelsType
  <2>3. n - 1 \in 0 .. Levels - 1
    BY <1>1, <2>1, <2>2
  <2> HIDE DEF n
  <2>4. n # Levels
    BY <1>1, <1>2, <2>1, <2>3, NextLevel
  <2>5. n \in 0 .. Levels - 1 /\ (n - 1) + 1 = n
    BY <1>1, <2>1, <2>2, <2>4
  <2> QED
    BY <1>1, <2>1, <2>2, <2>3, <2>5, NextLevel
<1>7. j \in AnyCall /\ j.depth = DepthOf(n) /\ j.links = <<>>
  <2> HIDE DEF t, n
  <2> QED
    BY <1>4, <1>6 DEF Call, AnyCall
<1> HIDE DEF k, t, j
<1>8. /\ stack' \in Seq(AnyCall) /\ Len(stack') = n + 1
      /\ stack'[1] = j /\ stack'[2] = k
      /\ \A i \in 3 .. n + 1 : stack'[i] = stack[i - 1]
  BY <1>1, <1>3, <1>5, <1>7, CallAdded
<1>9. TypeOK'
  BY <1>1, <1>4, <1>5, <1>8 DEF TypeOK, AnyCall, given
<1>10. Levelled'
  <2> SUFFICES ASSUME NEW i \in 1 .. n + 1
               PROVE  /\ stack'[i].depth = DepthOf(n + 1 - i)
                      /\ stack'[i].links # <<>> => stack'[i].depth # 1
    <3>1. DOMAIN stack' = 1 .. n + 1
      BY <1>1, <1>8
    <3> QED
      BY <1>5, <1>8, <3>1, LevelChange DEF Levelled
  <2>1. CASE i = 1
    BY <1>1, <1>7, <1>8, <2>1
  <2>2. CASE i = 2
    BY <1>1, <1>2, <1>3, <1>6, <1>8, <2>2
  <2>3. CASE i \in 3 .. n + 1
    <3>1. i - 1 \in DOMAIN stack /\ n - (i - 1) = n + 1 - i
      BY <1>1, <2>3
    <3> QED
      BY <1>8, <2>3, <3>1 DEF CrawlIInv, Levelled
  <2> QED
    BY <1>1, <2>1, <2>2, <2>3
<1>11. LevelsEnd'
  BY <1>1, <1>5, <1>6, <1>8, LevelChange DEF LevelsEnd
<1> QED
  BY <1>9, <1>10, <1>11 DEF CrawlIInv

LEMMA CrashKeeps ==
  ASSUME CrawlIInv, Crash PROVE CrawlIInv'
<1>1. stack # <<>> /\ UNCHANGED <<stack, request, body, saved, given, faults>>
  BY DEF Crash, HasLink, CrawlIInv, TypeOK
<1>2. TypeOK'
  BY <1>1 DEF CrawlIInv, TypeOK, Crash, given
<1> QED
  BY <1>1, <1>2, SameStack DEF CrawlIInv

LEMMA CrawlInvariant == Spec => []CrawlIInv
<1>1. CrawlIInv /\ UNCHANGED vars => CrawlIInv'
  <2> SUFFICES ASSUME CrawlIInv, UNCHANGED vars PROVE CrawlIInv'
    OBVIOUS
  <2>1. TypeOK'
    BY DEF vars, given, CrawlIInv, TypeOK
  <2> QED
    BY <2>1, SameStack DEF vars, CrawlIInv
<1>2. CrawlIInv /\ [Next]_vars => CrawlIInv'
  BY <1>1, RedirectKeeps, DownloadKeeps, SilentKeeps, SavePageKeeps,
     SkipShortKeeps, FollowLinkKeeps, CrashKeeps, ReturnKeeps DEF Next
<1> QED
  BY CrawlInitially, <1>2, PTL DEF Spec

-----------------------------------------------------------------------------
(* Numbers.                                                                *)

\* A set of numbers that is not empty has a least element.
LEMMA Least ==
  ASSUME NEW S, S \subseteq Nat, S # {}
  PROVE  \E x \in S : \A y \in S : x <= y
<1> DEFINE R == {ss \in Nat \X Nat : ss[1] < ss[2]}
<1>1. IsWellFoundedOn(R, Nat)
  BY NatLessThanWellFounded DEF OpToRel
<1>2. PICK x \in S : \A y \in S : <<y, x>> \notin R
  <2> HIDE DEF R
  <2> QED BY <1>1, WFMin
<1>3. \A y \in S : ~ (y < x)
  BY <1>2
<1> QED
  BY <1>2, <1>3

\* A set that holds 0 and the successor of every number in it holds them all.
LEMMA Induct ==
  ASSUME NEW S, 0 \in S, \A n \in Nat : n \in S => n + 1 \in S
  PROVE  Nat \subseteq S
<1> SUFFICES ASSUME Nat \ S # {} PROVE FALSE
  OBVIOUS
<1>1. PICK x \in Nat \ S : \A y \in Nat \ S : x <= y
  BY Least
<1>2. x # 0 /\ x - 1 \in Nat
  BY <1>1
<1>3. x - 1 \in S
  BY <1>1, <1>2
<1> QED
  BY <1>1, <1>2, <1>3

-----------------------------------------------------------------------------
(* Redirects.                                                              *)

IsMoved(t) == Answer(t).kind = "moved"
Successor(t) == Redirected(t.host, Answer(t).location)

\* As many redirects as Hops follows.
MaxHops == Cardinality(DOMAIN site)

LEMMA MaxHopsType ==
  ASSUME TypeOK PROVE MaxHops \in Nat /\ IsFiniteSet(DOMAIN site) /\ DOMAIN site = Host \X Name
<1>1. DOMAIN site = Host \X Name
  BY CrawlAssumption DEF TypeOK
<1>2. IsFiniteSet(Host \X Name)
  BY CrawlAssumption, FS_Product
<1>3. Cardinality(Host \X Name) \in Nat
  BY <1>2, FS_CardinalityType
<1> QED
  BY <1>1, <1>2, <1>3 DEF MaxHops

\* f is the function that Hops(t) is, for the first n redirects.
Hopping(f, t, n) ==
  f = [m \in 0 .. n |-> IF m = 0 THEN t
                        ELSE IF IsMoved(f[m - 1]) THEN Successor(f[m - 1])
                             ELSE f[m - 1]]

LEMMA HoppingAt ==
  ASSUME NEW t, NEW n, NEW f, Hopping(f, t, n), NEW m \in 0 .. n
  PROVE  f[m] = IF m = 0 THEN t
                ELSE IF IsMoved(f[m - 1]) THEN Successor(f[m - 1]) ELSE f[m - 1]
<1> DEFINE r == [k \in 0 .. n |-> IF k = 0 THEN t
                        ELSE IF IsMoved(f[k - 1]) THEN Successor(f[k - 1])
                             ELSE f[k - 1]]
<1>1. f = r
  BY DEF Hopping
<1>2. r[m] = IF m = 0 THEN t
             ELSE IF IsMoved(f[m - 1]) THEN Successor(f[m - 1]) ELSE f[m - 1]
  OBVIOUS
<1> HIDE DEF r
<1> QED
  BY <1>1, <1>2

LEMMA HoppingExists ==
  ASSUME NEW t, NEW n \in Nat PROVE \E f : Hopping(f, t, n)
<1> DEFINE S == {m \in Nat : \E f : Hopping(f, t, m)}
<1>1. 0 \in S
  <2> DEFINE f == [m \in 0 .. 0 |-> t]
  <2>1. \A m \in 0 .. 0 :
          f[m] = IF m = 0 THEN t
                 ELSE IF IsMoved(f[m - 1]) THEN Successor(f[m - 1]) ELSE f[m - 1]
    OBVIOUS
  <2>2. f = [m \in 0 .. 0 |-> f[m]]
    OBVIOUS
  <2> HIDE DEF f
  <2>3. Hopping(f, t, 0)
    BY <2>1, <2>2 DEF Hopping
  <2> QED
    BY <2>3
<1>2. \A m \in Nat : m \in S => m + 1 \in S
  <2> SUFFICES ASSUME NEW m \in Nat, NEW f, Hopping(f, t, m)
               PROVE  \E g : Hopping(g, t, m + 1)
    OBVIOUS
  <2> DEFINE g == [k \in 0 .. m + 1 |->
                     IF k <= m THEN f[k]
                     ELSE IF IsMoved(f[m]) THEN Successor(f[m]) ELSE f[m]]
  <2>1. \A k \in 0 .. m + 1 :
          g[k] = IF k = 0 THEN t
                 ELSE IF IsMoved(g[k - 1]) THEN Successor(g[k - 1]) ELSE g[k - 1]
    <3> SUFFICES ASSUME NEW k \in 0 .. m + 1
                 PROVE  g[k] = IF k = 0 THEN t
                               ELSE IF IsMoved(g[k - 1]) THEN Successor(g[k - 1])
                                    ELSE g[k - 1]
      OBVIOUS
    <3>1. CASE k <= m
      <4>1. f[k] = IF k = 0 THEN t
                   ELSE IF IsMoved(f[k - 1]) THEN Successor(f[k - 1]) ELSE f[k - 1]
        BY <3>1, HoppingAt
      <4>2. g[k] = f[k] /\ (k # 0 => g[k - 1] = f[k - 1])
        BY <3>1
      <4> HIDE DEF g
      <4> QED
        BY <4>1, <4>2
    <3>2. CASE k = m + 1
      <4>1. /\ g[k - 1] = f[m] /\ k # 0
            /\ g[k] = IF IsMoved(f[m]) THEN Successor(f[m]) ELSE f[m]
        BY <3>2
      <4> HIDE DEF g
      <4> QED
        BY <4>1
    <3> HIDE DEF g
    <3> QED
      BY <3>1, <3>2
  <2>2. g = [k \in 0 .. m + 1 |-> g[k]]
    OBVIOUS
  <2> HIDE DEF g
  <2>3. Hopping(g, t, m + 1)
    BY <2>1, <2>2 DEF Hopping
  <2> QED
    BY <2>3
<1> HIDE DEF S
<1>3. n \in S
  BY <1>1, <1>2, Induct
<1> QED
  BY <1>3 DEF S

LEMMA HopsHops == ASSUME TypeOK, NEW t PROVE Hopping(Hops(t), t, MaxHops)
<1>1. \E f : Hopping(f, t, MaxHops)
  BY MaxHopsType, HoppingExists
<1>2. Hops(t) = CHOOSE f : Hopping(f, t, MaxHops)
  BY DEF Hops, Hopping, MaxHops, IsMoved, Successor
<1> QED
  BY <1>1, <1>2

\* k redirects lead from t to h[k].
Chain(h, k, t) ==
  /\ h \in [0 .. k -> AnyTarget] /\ h[0] = t
  /\ \A i \in 0 .. k - 1 : IsMoved(h[i]) /\ h[i + 1] = Successor(h[i])

ResourceOf(t) == <<t.host, t.name>>

LEMMA MovedResource ==
  ASSUME NEW t \in AnyTarget, IsMoved(t)
  PROVE  ResourceOf(t) \in Host \X Name /\ Answer(t) = site[ResourceOf(t)]
<1>1. t.slashes # 0 /\ Verified(t.host)
  BY DEF IsMoved, Answer, Absent
<1>2. t.host \in Host /\ t.name \in Name
  BY <1>1 DEF AnyTarget, Verified
<1> QED
  BY <1>1, <1>2 DEF Answer, ResourceOf

LEMMA SameSuccessor ==
  ASSUME NEW t \in AnyTarget, NEW u \in AnyTarget, IsMoved(t), IsMoved(u),
         ResourceOf(t) = ResourceOf(u)
  PROVE  Successor(t) = Successor(u)
<1>1. Answer(t) = Answer(u)
  BY MovedResource
<1>2. t.host = u.host
  BY DEF ResourceOf
<1> QED
  BY <1>1, <1>2 DEF Successor

\* Redirects that end meet no resource twice, for they would go in a circle.
LEMMA ChainShort ==
  ASSUME TypeOK, NEW t, NEW k \in Nat, NEW h, Chain(h, k, t), ~IsMoved(h[k])
  PROVE  k <= MaxHops
<1> SUFFICES ASSUME k > MaxHops PROVE FALSE
  BY MaxHopsType
<1> DEFINE f == [i \in 0 .. k - 1 |-> ResourceOf(h[i])]
<1>1. \A i \in 0 .. k : h[i] \in AnyTarget
  BY DEF Chain
<1>2. \A i \in 0 .. k - 1 : IsMoved(h[i]) /\ h[i + 1] = Successor(h[i])
  BY DEF Chain
<1>3. f \in [0 .. k - 1 -> Host \X Name]
  BY <1>1, <1>2, MovedResource
<1>4. PICK i \in 0 .. k - 1, j \in 0 .. k - 1 : i # j /\ f[i] = f[j]
  <2>1. IsFiniteSet(0 .. k - 1) /\ Cardinality(0 .. k - 1) = k
    <3>1. 0 \in Int /\ k - 1 \in Int /\ (0 > k - 1 <=> k = 0) /\ (k - 1) - 0 + 1 = k
      OBVIOUS
    <3> QED
      BY <3>1, FS_Interval
  <2>2. IsFiniteSet(Host \X Name) /\ Cardinality(Host \X Name) < k
    BY MaxHopsType DEF MaxHops
  <2> HIDE DEF f
  <2> QED
    BY <1>3, <2>1, <2>2, FS_PigeonHole
<1>5. ASSUME NEW a \in 0 .. k - 1, NEW b \in 0 .. k - 1, a < b,
             ResourceOf(h[a]) = ResourceOf(h[b])
      PROVE  FALSE
  <2> DEFINE S == {m \in 1 .. k - b : h[a + m] # h[b + m]}
  <2>1. S = {}
    <3> SUFFICES ASSUME S # {} PROVE FALSE
      OBVIOUS
    <3>1. PICK m \in S : \A n \in S : m <= n
      <4>1. S \subseteq Nat
        OBVIOUS
      <4> HIDE DEF S
      <4> QED
        BY <4>1, Least
    <3> DEFINE p == a + (m - 1)
               q == b + (m - 1)
    <3>2. /\ m \in 1 .. k - b /\ p \in 0 .. k - 1 /\ q \in 0 .. k - 1
          /\ p + 1 = a + m /\ q + 1 = b + m /\ h[a + m] # h[b + m]
      <4>1. m \in 1 .. k - b /\ h[a + m] # h[b + m]
        BY <3>1
      <4>2. m \in Int /\ a \in Int /\ b \in Int /\ k \in Int
        BY <4>1
      <4> QED
        BY <1>5, <4>1, <4>2
    <3>3. ResourceOf(h[p]) = ResourceOf(h[q])
      <4>1. CASE m = 1
        <5>1. p = a /\ q = b
          BY <4>1
        <5> QED
          BY <1>5, <5>1
      <4>2. CASE m # 1
        <5>1. m - 1 \notin S /\ m - 1 \in 1 .. k - b
          BY <3>1, <3>2, <4>2
        <5>2. h[p] = h[q]
          BY <5>1
        <5> QED
          BY <5>2
      <4> QED
        BY <4>1, <4>2
    <3> HIDE DEF p, q
    <3>4. Successor(h[p]) = Successor(h[q])
      <4>1. p \in 0 .. k /\ q \in 0 .. k
        BY <3>2
      <4> QED
        BY <1>1, <1>2, <3>2, <3>3, <4>1, SameSuccessor
    <3> QED
      BY <1>2, <3>2, <3>4
  <2>2. k - b \in 1 .. k - b /\ b + (k - b) = k /\ a + (k - b) \in 0 .. k - 1
    BY <1>5
  <2>3. h[a + (k - b)] = h[k]
    BY <2>1, <2>2
  <2> QED
    BY <1>2, <2>2, <2>3
<1>6. ResourceOf(h[i]) = ResourceOf(h[j])
  BY <1>4
<1> QED
  BY <1>4, <1>5, <1>6

\* So Hops follows them to the end.
LEMMA ChainEnds ==
  ASSUME TypeOK, NEW t, NEW k \in Nat, NEW h, Chain(h, k, t), ~IsMoved(h[k])
  PROVE  Hops(t)[MaxHops] = h[k]
<1> DEFINE f == Hops(t)
           S == {n \in 0 .. MaxHops : f[n] # h[IF n <= k THEN n ELSE k]}
<1>1. k <= MaxHops /\ MaxHops \in Nat
  BY ChainShort, MaxHopsType
<1>2. Hopping(f, t, MaxHops)
  BY HopsHops
<1> HIDE DEF f
<1>3. S = {}
  <2> SUFFICES ASSUME S # {} PROVE FALSE
    OBVIOUS
  <2>1. PICK n \in S : \A m \in S : n <= m
    <3>1. S \subseteq Nat
      BY <1>1
    <3> HIDE DEF S
    <3> QED
      BY <3>1, Least
  <2>2. n \in 0 .. MaxHops /\ f[n] # h[IF n <= k THEN n ELSE k]
    BY <2>1
  <2>3. f[n] = IF n = 0 THEN t
               ELSE IF IsMoved(f[n - 1]) THEN Successor(f[n - 1]) ELSE f[n - 1]
    BY <1>2, <2>2, HoppingAt
  <2>4. n # 0
    BY <1>1, <2>2, <2>3 DEF Chain
  <2>5. n - 1 \in 0 .. MaxHops /\ n - 1 \notin S
    BY <1>1, <2>1, <2>2, <2>4
  <2>6. f[n - 1] = h[IF n - 1 <= k THEN n - 1 ELSE k]
    BY <2>5
  <2>7. CASE n <= k
    <3>1. n - 1 \in 0 .. k - 1 /\ (n - 1) + 1 = n
      BY <2>2, <2>4, <2>7
    <3>2. IsMoved(h[n - 1]) /\ h[n] = Successor(h[n - 1])
      BY <3>1 DEF Chain
    <3>3. f[n - 1] = h[n - 1]
      BY <2>6, <3>1
    <3> QED
      BY <2>2, <2>3, <2>4, <2>7, <3>2, <3>3
  <2>8. CASE n > k
    <3>1. f[n - 1] = h[k]
      BY <2>2, <2>4, <2>6, <2>8
    <3> QED
      BY <2>2, <2>3, <2>4, <2>8, <3>1
  <2> QED
    BY <2>2, <2>7, <2>8
<1>4. f[MaxHops] = h[IF MaxHops <= k THEN MaxHops ELSE k]
  BY <1>1, <1>3
<1> QED
  BY <1>1, <1>4 DEF f

-----------------------------------------------------------------------------
(* Levels.                                                                 *)

\* The targets that the pages of S link to.
LinkedFrom(S) == UNION {{parseSubUrl(t.host, l) : l \in LinksOf(t)} : t \in S}

\* f is the function that Level is, for the first n levels.
Levelling(f, n) ==
  f = [m \in 1 .. n |-> IF m = 1 THEN {Start} ELSE LinkedFrom(f[m - 1])]

LEMMA LevellingAt ==
  ASSUME NEW n, NEW f, Levelling(f, n), NEW m \in 1 .. n
  PROVE  f[m] = IF m = 1 THEN {Start} ELSE LinkedFrom(f[m - 1])
<1> DEFINE r == [k \in 1 .. n |-> IF k = 1 THEN {Start} ELSE LinkedFrom(f[k - 1])]
<1>1. f = r
  BY DEF Levelling
<1>2. r[m] = IF m = 1 THEN {Start} ELSE LinkedFrom(f[m - 1])
  OBVIOUS
<1> HIDE DEF r
<1> QED
  BY <1>1, <1>2

LEMMA LevellingExists == ASSUME NEW n \in Nat PROVE \E f : Levelling(f, n)
<1> DEFINE S == {m \in Nat : \E f : Levelling(f, m)}
<1>1. 0 \in S
  <2>1. Levelling([m \in 1 .. 0 |-> {}], 0)
    BY DEF Levelling
  <2> QED
    BY <2>1
<1>2. \A m \in Nat : m \in S => m + 1 \in S
  <2> SUFFICES ASSUME NEW m \in Nat, NEW f, Levelling(f, m)
               PROVE  \E g : Levelling(g, m + 1)
    OBVIOUS
  <2> DEFINE g == [k \in 1 .. m + 1 |->
                     IF k <= m THEN f[k]
                     ELSE IF k = 1 THEN {Start} ELSE LinkedFrom(f[m])]
  <2>1. \A k \in 1 .. m + 1 : g[k] = IF k = 1 THEN {Start} ELSE LinkedFrom(g[k - 1])
    <3> SUFFICES ASSUME NEW k \in 1 .. m + 1
                 PROVE  g[k] = IF k = 1 THEN {Start} ELSE LinkedFrom(g[k - 1])
      OBVIOUS
    <3>1. CASE k <= m
      <4>1. f[k] = IF k = 1 THEN {Start} ELSE LinkedFrom(f[k - 1])
        BY <3>1, LevellingAt
      <4>2. g[k] = f[k] /\ (k # 1 => g[k - 1] = f[k - 1])
        BY <3>1
      <4> HIDE DEF g
      <4> QED
        BY <4>1, <4>2
    <3>2. CASE k = m + 1
      <4>1. /\ k # 1 => g[k - 1] = f[m]
            /\ g[k] = IF k = 1 THEN {Start} ELSE LinkedFrom(f[m])
        BY <3>2
      <4> HIDE DEF g
      <4> QED
        BY <4>1
    <3> HIDE DEF g
    <3> QED
      BY <3>1, <3>2
  <2>2. g = [k \in 1 .. m + 1 |-> g[k]]
    OBVIOUS
  <2> HIDE DEF g
  <2>3. Levelling(g, m + 1)
    BY <2>1, <2>2 DEF Levelling
  <2> QED
    BY <2>3
<1> HIDE DEF S
<1>3. n \in S
  BY <1>1, <1>2, Induct
<1> QED
  BY <1>3 DEF S

LEMMA LevelAt ==
  ASSUME TypeOK
  PROVE  /\ DOMAIN Level = 1 .. Levels
         /\ \A n \in 1 .. Levels :
              Level[n] = IF n = 1 THEN {Start} ELSE LinkedFrom(Level[n - 1])
<1>1. Levels \in Nat
  BY LevelsType, CrawlAssumption
<1>2. \E f : Levelling(f, Levels)
  BY <1>1, LevellingExists
<1>3. Level = CHOOSE f : Levelling(f, Levels)
  BY DEF Level, Levelling, LinkedFrom
<1>4. Levelling(Level, Levels)
  BY <1>2, <1>3
<1>5. DOMAIN Level = 1 .. Levels
  <2> DEFINE r == [m \in 1 .. Levels |->
                     IF m = 1 THEN {Start} ELSE LinkedFrom(Level[m - 1])]
  <2>1. DOMAIN r = 1 .. Levels
    OBVIOUS
  <2>2. Level = r
    BY <1>4 DEF Levelling
  <2> HIDE DEF r
  <2> QED
    BY <2>1, <2>2
<1> QED
  BY <1>4, <1>5, LevellingAt

\* A link on level n leads to level n + 1.
LEMMA NextTarget ==
  ASSUME TypeOK, NEW n \in 1 .. Levels, n + 1 <= Levels,
         NEW t \in Level[n], NEW l \in LinksOf(t)
  PROVE  parseSubUrl(t.host, l) \in Level[n + 1]
<1>1. Levels \in Nat
  BY LevelsType, CrawlAssumption
<1>2. n + 1 \in 1 .. Levels /\ n + 1 # 1 /\ (n + 1) - 1 = n
  BY <1>1
<1>3. Level[n + 1] = LinkedFrom(Level[n])
  BY <1>2, LevelAt
<1> QED
  BY <1>3 DEF LinkedFrom

LEMMA LevelWithin ==
  ASSUME TypeOK PROVE \A t : t \in WithinDepth <=> \E n \in 1 .. Levels : t \in Level[n]
BY LevelAt DEF WithinDepth, Range

\* Level, with the links of a page under a name.
LevelByLinks ==
  LET level[n \in 1 .. Levels] ==
        IF n = 1 THEN {Start} ELSE LinkedFrom(level[n - 1])
  IN  level

\* All of this is about what is given.
LEMMA GivenSame ==
  ASSUME UNCHANGED given
  PROVE  /\ Levels' = Levels /\ MaxHops' = MaxHops
         /\ \A t : /\ Answer(t)' = Answer(t)
                   /\ Hops(t)' = Hops(t)
                   /\ LinksOf(t)' = LinksOf(t)
         /\ Level' = Level /\ WithinDepth' = WithinDepth
<1>1. \A t : Answer(t)' = Answer(t)
  BY DEF given, Answer, Verified
<1>2. \A t : Hops(t)' = Hops(t)
  BY <1>1 DEF given, Hops
<1>3. \A t : LinksOf(t)' = LinksOf(t)
  BY <1>1, <1>2 DEF given, LinksOf
<1>4. Levels' = Levels /\ MaxHops' = MaxHops
  BY DEF Levels, MaxHops, given
<1>5. \A S : LinkedFrom(S)' = LinkedFrom(S)
  BY <1>3 DEF LinkedFrom
<1>6. LevelByLinks' = LevelByLinks
  BY <1>4, <1>5 DEF LevelByLinks
<1>7. Level = LevelByLinks /\ Level' = LevelByLinks'
  BY DEF Level, LevelByLinks, LinkedFrom
<1>8. Level' = Level
  BY <1>6, <1>7
<1>9. WithinDepth' = WithinDepth
  BY <1>8 DEF WithinDepth
<1> QED
  BY <1>1, <1>2, <1>3, <1>4, <1>8, <1>9

\* The depth is not 1 before the last level.
LEMMA NotLastLevel ==
  ASSUME TypeOK, NEW k \in 0 .. Levels - 2 PROVE DepthOf(k) # 1
<1>1. /\ HalfShort \in Nat /\ HalfShort > 1 /\ k \in Nat
      /\ recursionDepth \in 0 .. 2 * HalfShort - 1
      /\ IF recursionDepth = 0 THEN k <= 2 * HalfShort - 2 ELSE k <= recursionDepth - 2
  BY CrawlAssumption, LevelsType DEF TypeOK, Levels
<1> DEFINE n == recursionDepth - k
<1>2. n \in -3 * HalfShort .. 3 * HalfShort - 1
  BY <1>1
<1>3. ToShort(n) = IF n < -HalfShort THEN n + 2 * HalfShort
                   ELSE IF n < HalfShort THEN n ELSE n - 2 * HalfShort
  BY <1>2, ToShortIs
<1>4. ToShort(n) # 1
  BY <1>1, <1>3
<1> QED
  BY <1>4 DEF DepthOf

-----------------------------------------------------------------------------
(* The invariant of the crawl as a search.                                 *)

\* Each call processes a target of its level, and has left of its links some
\* that are to be followed.
CallsOnLevels ==
  \A i \in DOMAIN stack :
    /\ stack[i].target \in Level[Len(stack) - i + 1]
    /\ Range(stack[i].links) \ {Short} \subseteq LinksOf(stack[i].target)

\* The running download got to its request by redirects from the call's target.
Redirecting ==
  mode = "download" =>
    \E k \in Nat : \E h : Chain(h, k, Head(stack).target) /\ h[k] = request

\* What is about to be saved is what the call's target leads to.
BodyIsFinal ==
  mode = "save" =>
    \/ body = Answer(Hops(Head(stack).target)[MaxHops])
    \/ body = Absent /\ faults > 0

SavedWithin == Saved \subseteq WithinDepth

\* The innermost call has not saved its target yet.
Fresh == mode \in {"download", "save"}

\* d is the visit, a target and its level, of the innermost call.
FreshVisit(d) == Fresh /\ d = <<Head(stack).target, Len(stack)>>

\* A call has link l of the visit d still to go through.
Pending(d, l) ==
  \E i \in DOMAIN stack :
    d = <<stack[i].target, Len(stack) - i + 1>> /\ l \in Range(stack[i].links)

\* D holds the visits made so far: their targets have been saved and what
\* their links lead to has been visited, too, apart from what is still to do.
Visits(D) ==
  /\ <<Start, 1>> \in D
  /\ \A d \in D : d[1] \in Saved \/ FreshVisit(d)
  /\ \A d \in D : d[2] < Levels =>
       \A l \in LinksOf(d[1]) :
         <<parseSubUrl(d[1].host, l), d[2] + 1>> \in D \/ FreshVisit(d) \/ Pending(d, l)

VisitsRecorded ==
  (faults = 0 /\ mode \notin {"crashed", "silent"}) =>
    \E D \in SUBSET (AnyTarget \X Nat) : Visits(D)

SearchInv ==
  /\ CrawlIInv
  /\ CallsOnLevels /\ Redirecting /\ BodyIsFinal /\ SavedWithin
  /\ VisitsRecorded

LEMMA ChainOfNone ==
  ASSUME NEW t \in AnyTarget
  PROVE  \E k \in Nat : \E h : Chain(h, k, t) /\ h[k] = t
<1> DEFINE h == [i \in 0 .. 0 |-> t]
<1>1. h \in [0 .. 0 -> AnyTarget] /\ h[0] = t
  OBVIOUS
<1> HIDE DEF h
<1>2. Chain(h, 0, t)
  BY <1>1 DEF Chain
<1> QED
  BY <1>1, <1>2

LEMMA ChainExtended ==
  ASSUME NEW t, NEW k \in Nat, NEW h, Chain(h, k, t),
         IsMoved(h[k]), Successor(h[k]) \in AnyTarget
  PROVE  \E j \in Nat : \E g : Chain(g, j, t) /\ g[j] = Successor(h[k])
<1> DEFINE u == Successor(h[k])
           g == [i \in 0 .. k + 1 |-> IF i <= k THEN h[i] ELSE u]
<1>1. \A i \in 0 .. k : h[i] \in AnyTarget
  BY DEF Chain
<1> HIDE DEF u
<1>2. /\ g \in [0 .. k + 1 -> AnyTarget] /\ g[0] = h[0] /\ g[k + 1] = u
      /\ \A i \in 0 .. k : g[i] = h[i]
  BY <1>1 DEF u
<1> HIDE DEF g
<1>3. \A i \in 0 .. k : IsMoved(g[i]) /\ g[i + 1] = Successor(g[i])
  <2> SUFFICES ASSUME NEW i \in 0 .. k
               PROVE  IsMoved(g[i]) /\ g[i + 1] = Successor(g[i])
    OBVIOUS
  <2>1. CASE i = k
    BY <1>2, <2>1 DEF u
  <2>2. CASE i \in 0 .. k - 1
    <3>1. i + 1 \in 0 .. k
      BY <2>2
    <3> QED
      BY <1>2, <2>2, <3>1 DEF Chain
  <2> QED
    BY <2>1, <2>2
<1>4. Chain(g, k + 1, t)
  <2>1. (k + 1) - 1 = k
    OBVIOUS
  <2> QED
    BY <1>2, <1>3, <2>1 DEF Chain
<1> QED
  BY <1>2, <1>4 DEF u

LEMMA SearchInitially == Init => SearchInv
<1> SUFFICES ASSUME Init PROVE SearchInv
  OBVIOUS
<1>1. CrawlIInv /\ TypeOK
  BY CrawlInitially DEF CrawlIInv
<1> DEFINE c == Call(Start, ToShort(recursionDepth))
<1>2. stack = <<c>> /\ c.target = Start /\ c.links = <<>> /\ mode = "download" /\ request = Start
  BY DEF Init, Call
<1> HIDE DEF c
<1>3. /\ Len(stack) = 1 /\ DOMAIN stack = {1} /\ Head(stack) = stack[1]
      /\ stack[1].target = Start /\ stack[1].links = <<>>
  BY <1>2
<1>4. Level[1] = {Start}
  BY <1>1, LevelsType, LevelAt, CrawlAssumption
<1>5. Range(<<>>) = {}
  BY DEF Range
<1>6. CallsOnLevels
  BY <1>3, <1>4, <1>5 DEF CallsOnLevels
<1>7. Redirecting
  BY <1>2, <1>3, ChainOfNone, CrawlAssumption DEF Redirecting
<1>8. BodyIsFinal /\ SavedWithin
  BY <1>2 DEF BodyIsFinal, SavedWithin, Saved, Init
<1>9. VisitsRecorded
  <2> DEFINE D == {<<Start, 1>>}
  <2>1. Visits(D)
    BY <1>2, <1>3 DEF Visits, Fresh, FreshVisit
  <2>2. D \in SUBSET (AnyTarget \X Nat)
    BY CrawlAssumption
  <2> QED
    BY <2>1, <2>2 DEF VisitsRecorded
<1> QED
  BY <1>1, <1>6, <1>7, <1>8, <1>9 DEF SearchInv

\* Steps that leave the calls alone.
LEMMA SameCalls ==
  ASSUME SearchInv, UNCHANGED <<stack, given>> PROVE CallsOnLevels'
<1>1. Level' = Level /\ \A t : LinksOf(t)' = LinksOf(t)
  BY GivenSame DEF given
<1> QED
  BY <1>1 DEF SearchInv, CallsOnLevels

LEMMA SameWithin ==
  ASSUME SearchInv, UNCHANGED <<saved, given>> PROVE SavedWithin'
<1>1. WithinDepth' = WithinDepth
  BY GivenSame DEF given
<1> QED
  BY <1>1 DEF SearchInv, SavedWithin, Saved

\* Steps inside a download.
LEMMA SameVisits ==
  ASSUME SearchInv, UNCHANGED <<stack, saved, given>>, Fresh, Fresh',
         faults' = 0 => faults = 0
  PROVE  VisitsRecorded'
<1>1. Levels' = Levels /\ \A t : LinksOf(t)' = LinksOf(t)
  BY GivenSame DEF given
<1> SUFFICES ASSUME faults = 0
             PROVE  \E D \in SUBSET (AnyTarget \X Nat) : Visits(D)'
  BY DEF VisitsRecorded
<1>2. PICK D \in SUBSET (AnyTarget \X Nat) : Visits(D)
  BY DEF SearchInv, VisitsRecorded, Fresh
<1>3. Visits(D)'
  BY <1>1, <1>2 DEF Visits, Saved, FreshVisit, Pending
<1> QED
  BY <1>3

LEMMA RedirectSearches == ASSUME SearchInv, Redirect PROVE SearchInv'
<1>1. CrawlIInv' /\ TypeOK /\ TypeOK' /\ TypeOK
  BY RedirectKeeps DEF SearchInv, CrawlIInv
<1>2. /\ UNCHANGED <<mode, stack, saved, given, faults>> /\ mode = "download"
      /\ IsMoved(request) /\ request' = Successor(request) /\ request' \in AnyTarget
  BY <1>1 DEF Redirect, IsMoved, Successor, TypeOK
<1>3. Redirecting'
  <2>1. PICK k, h : k \in Nat /\ Chain(h, k, Head(stack).target) /\ h[k] = request
    BY <1>2 DEF SearchInv, Redirecting
  <2>2. PICK j, g : j \in Nat /\ Chain(g, j, Head(stack).target) /\ g[j] = request'
    BY <1>2, <2>1, ChainExtended
  <2>3. Chain(g, j, Head(stack).target)'
    <3>1. \A t : IsMoved(t)' = IsMoved(t) /\ Successor(t)' = Successor(t)
      BY GivenSame DEF Redirect, IsMoved, Successor
    <3>2. Head(stack).target' = Head(stack).target
      BY <1>2
    <3>3. /\ g \in [0 .. j -> AnyTarget] /\ g[0] = Head(stack).target
          /\ \A i \in 0 .. j - 1 : IsMoved(g[i]) /\ g[i + 1] = Successor(g[i])
      BY <2>2 DEF Chain
    <3>4. \A i \in 0 .. j - 1 : IsMoved(g[i])' /\ g[i + 1] = Successor(g[i])'
      BY <3>1, <3>3
    <3> QED
      BY <3>2, <3>3, <3>4 DEF Chain
  <2>4. g[j] = request'
    BY <2>2
  <2> QED
    BY <2>2, <2>3, <2>4 DEF Redirecting
<1>4. CallsOnLevels' /\ SavedWithin' /\ VisitsRecorded'
  BY <1>2, SameCalls, SameWithin, SameVisits DEF Fresh
<1>5. BodyIsFinal'
  BY <1>2 DEF BodyIsFinal
<1> QED
  BY <1>1, <1>3, <1>4, <1>5 DEF SearchInv

LEMMA DownloadSearches == ASSUME SearchInv, Download PROVE SearchInv'
<1>1. CrawlIInv' /\ TypeOK
  BY DownloadKeeps DEF SearchInv, CrawlIInv
<1>2. /\ UNCHANGED <<stack, saved, given>> /\ mode = "download" /\ mode' = "save"
      /\ \/ ~IsMoved(request) /\ body' = Answer(request) /\ faults' = faults
         \/ faults' = faults + 1 /\ body' = Absent
      /\ faults \in Nat
  BY <1>1, CrawlAssumption DEF Download, IsMoved, TypeOK
<1>3. BodyIsFinal'
  <2>1. CASE ~IsMoved(request) /\ body' = Answer(request)
    <3>1. PICK k, h : k \in Nat /\ Chain(h, k, Head(stack).target) /\ h[k] = request
      BY <1>2 DEF SearchInv, Redirecting
    <3>2. Hops(Head(stack).target)[MaxHops] = request
      BY <1>1, <2>1, <3>1, ChainEnds
    <3>3. body' = Answer(Hops(Head(stack).target)[MaxHops])
      BY <2>1, <3>2
    <3>4. MaxHops' = MaxHops /\ \A t : Answer(t)' = Answer(t) /\ Hops(t)' = Hops(t)
      BY <1>2, GivenSame
    <3> QED
      BY <1>2, <3>3, <3>4 DEF BodyIsFinal
  <2>2. CASE faults' = faults + 1 /\ body' = Absent
    BY <1>2, <2>2 DEF BodyIsFinal, Absent
  <2> QED
    BY <1>2, <2>1, <2>2
<1>4. CallsOnLevels' /\ SavedWithin' /\ VisitsRecorded'
  BY <1>2, SameCalls, SameWithin, SameVisits DEF Fresh
<1>5. Redirecting'
  BY <1>2 DEF Redirecting
<1> QED
  BY <1>1, <1>3, <1>4, <1>5 DEF SearchInv

\* A call, its level and its links.
LEMMA CallFacts ==
  ASSUME SearchInv, stack # <<>>
  PROVE  /\ TypeOK /\ stack \in Seq(AnyCall) /\ Len(stack) \in Nat \ {0}
         /\ DOMAIN stack = 1 .. Len(stack) /\ Head(stack) = stack[1]
         /\ Levels \in Nat /\ Len(stack) \in 1 .. Levels
         /\ stack[1].target \in Level[Len(stack)] /\ stack[1].target \in AnyTarget
         /\ stack[1].depth = DepthOf(Len(stack) - 1)
<1>1. TypeOK /\ stack \in Seq(AnyCall) /\ Len(stack) \in Nat \ {0}
  BY DEF SearchInv, CrawlIInv, TypeOK, AnyCall
<1>2. DOMAIN stack = 1 .. Len(stack) /\ Head(stack) = stack[1] /\ 1 \in DOMAIN stack
  BY <1>1
<1>3. Levels \in Nat /\ Len(stack) \in 1 .. Levels
  BY <1>1, LevelsType, CrawlAssumption DEF SearchInv, CrawlIInv, LevelsEnd
<1>4. Len(stack) - 1 + 1 = Len(stack)
  BY <1>1
<1>5. stack[1].target \in Level[Len(stack)]
  BY <1>2, <1>4 DEF SearchInv, CallsOnLevels
<1>6. stack[1].target \in AnyTarget
  <2>1. stack[1] \in AnyCall
    BY <1>1, <1>2
  <2> QED
    BY <2>1 DEF AnyCall
<1>7. stack[1].depth = DepthOf(Len(stack) - 1)
  BY <1>2 DEF SearchInv, CrawlIInv, Levelled
<1> QED
  BY <1>1, <1>2, <1>3, <1>5, <1>6, <1>7

LEMMA SavePageSearches == ASSUME SearchInv, SavePage PROVE SearchInv'
<1> DEFINE left == IF Deeper(Head(stack).depth) THEN Links ELSE <<>>
           t == stack[1].target
           n == Len(stack)
<1>1. CrawlIInv' /\ stack # <<>>
  BY SavePageKeeps DEF SearchInv, CrawlIInv, TypeOK, SavePage
<1>2. /\ TypeOK /\ stack \in Seq(AnyCall) /\ n \in Nat \ {0}
      /\ DOMAIN stack = 1 .. n /\ Head(stack) = stack[1]
      /\ Levels \in Nat /\ n \in 1 .. Levels
      /\ t \in Level[n] /\ stack[1].depth = DepthOf(n - 1)
  BY <1>1, CallFacts
<1>3. left \in Seq(AnyLink)
  BY <1>2 DEF Links, TypeOK, Resource
<1>4. /\ stack' = [stack EXCEPT ![1].links = left]
      /\ mode = "save" /\ mode' = "links" /\ UNCHANGED <<given, faults>>
      /\ Saved' = Saved \cup {t}
  <2> DEFINE new == [target |-> Head(stack).target,
                     served |-> IF body.kind = "page"
                                THEN <<request.host, request.name>> ELSE <<>>]
  <2>1. saved' = saved \cup {new} /\ new.target = t
    BY <1>2 DEF SavePage
  <2> HIDE DEF new
  <2>2. Saved' = Saved \cup {t}
    BY <2>1 DEF Saved
  <2> QED
    BY <2>2 DEF SavePage
<1>5. body.kind = "page" =>
        Links = body.links /\ LinksOf(t) = Range(body.links) \ {Short}
  <2> SUFFICES ASSUME body.kind = "page"
               PROVE  Links = body.links /\ LinksOf(t) = Range(body.links) \ {Short}
    OBVIOUS
  <2>1. body = Answer(Hops(t)[MaxHops])
    BY <1>2, <1>4 DEF SearchInv, BodyIsFinal, Absent
  <2> QED
    BY <2>1 DEF LinksOf, Links, MaxHops
<1>6. faults = 0 =>
        (Links = body.links /\ body.kind = "page") \/ LinksOf(t) = {}
  <2> SUFFICES ASSUME faults = 0, body.kind # "page" PROVE LinksOf(t) = {}
    BY <1>5
  <2>1. body = Answer(Hops(t)[MaxHops])
    BY <1>2, <1>4 DEF SearchInv, BodyIsFinal
  <2> QED
    BY <2>1 DEF LinksOf, MaxHops
<1>7. Range(left) \ {Short} \subseteq LinksOf(t)
  <2>1. Range(<<>>) = {}
    BY DEF Range
  <2> QED
    BY <1>5, <2>1 DEF Links
<1>8. n < Levels => left = Links
  <2> SUFFICES ASSUME n < Levels PROVE left = Links
    OBVIOUS
  <2>1. n - 1 \in 0 .. Levels - 2
    BY <1>2
  <2>2. DepthOf(n - 1) # 1
    BY <1>2, <2>1, NotLastLevel
  <2> QED
    BY <1>2, <2>2 DEF Deeper
<1> HIDE DEF left
<1>9. /\ Len(stack') = n /\ DOMAIN stack' = DOMAIN stack
      /\ stack'[1].target = t /\ stack'[1].links = left
      /\ \A i \in DOMAIN stack \ {1} : stack'[i] = stack[i]
  BY <1>2, <1>3, <1>4, LinksSet
<1>10. /\ Levels' = Levels /\ Level' = Level /\ WithinDepth' = WithinDepth
       /\ \A u : LinksOf(u)' = LinksOf(u)
  BY <1>4, GivenSame
<1>11. CallsOnLevels'
  <2> SUFFICES ASSUME NEW i \in DOMAIN stack
               PROVE  /\ stack'[i].target \in Level[n - i + 1]
                      /\ Range(stack'[i].links) \ {Short} \subseteq LinksOf(stack'[i].target)
    BY <1>9, <1>10 DEF CallsOnLevels
  <2>1. CASE i = 1
    <3>1. n - 1 + 1 = n
      BY <1>2
    <3> QED
      BY <1>2, <1>7, <1>9, <2>1, <3>1
  <2>2. CASE i # 1
    BY <1>9, <2>2 DEF SearchInv, CallsOnLevels
  <2> QED
    BY <2>1, <2>2
<1>12. SavedWithin'
  <2>1. t \in WithinDepth
    BY <1>2, LevelWithin
  <2> QED
    BY <1>4, <1>10, <2>1 DEF SearchInv, SavedWithin
<1>13. VisitsRecorded'
  <2> SUFFICES ASSUME faults = 0
               PROVE  \E D \in SUBSET (AnyTarget \X Nat) : Visits(D)'
    BY <1>4 DEF VisitsRecorded
  <2>1. PICK D \in SUBSET (AnyTarget \X Nat) : Visits(D)
    BY <1>4 DEF SearchInv, VisitsRecorded
  <2>3. \A d \in D : d[1] \in Saved'
    <3> SUFFICES ASSUME NEW d \in D, d[1] \notin Saved PROVE d[1] = t
      BY <1>4
    <3>1. d = <<t, n>>
      BY <1>2, <2>1 DEF Visits, FreshVisit
    <3> QED
      BY <3>1
  <2>4. ASSUME NEW d \in D, d[2] < Levels, NEW l \in LinksOf(d[1])
        PROVE  \/ <<parseSubUrl(d[1].host, l), d[2] + 1>> \in D
               \/ Pending(d, l)'
    <3> SUFFICES ASSUME <<parseSubUrl(d[1].host, l), d[2] + 1>> \notin D
                 PROVE  \E i \in DOMAIN stack :
                          /\ d = <<stack'[i].target, n - i + 1>>
                          /\ l \in Range(stack'[i].links)
      BY <1>9 DEF Pending
    <3>1. CASE d = <<t, n>>
      <4>1. d[1] = t /\ d[2] = n /\ n - 1 + 1 = n
        BY <1>2, <3>1
      <4>2. left = body.links /\ l \in Range(body.links)
        BY <1>5, <1>6, <1>8, <2>4, <4>1
      <4> QED
        BY <1>2, <1>9, <3>1, <4>1, <4>2
    <3>2. CASE d # <<t, n>>
      <4>1. ~FreshVisit(d)
        BY <1>2, <3>2 DEF FreshVisit
      <4>2. PICK i \in DOMAIN stack :
              d = <<stack[i].target, n - i + 1>> /\ l \in Range(stack[i].links)
        BY <2>1, <2>4, <4>1 DEF Visits, Pending
      <4>3. i # 1
        <5>1. n - 1 + 1 = n
          BY <1>2
        <5> QED
          BY <3>2, <4>2, <5>1
      <4> QED
        BY <1>9, <4>2, <4>3
    <3> QED
      BY <3>1, <3>2
  <2>5. Visits(D)'
    BY <1>10, <2>1, <2>3, <2>4 DEF Visits
  <2> QED
    BY <2>5
<1>14. Redirecting' /\ BodyIsFinal'
  BY <1>4 DEF Redirecting, BodyIsFinal
<1> QED
  BY <1>1, <1>11, <1>12, <1>13, <1>14 DEF SearchInv

LEMMA RangeTail ==
  ASSUME NEW T, NEW s \in Seq(T), s # <<>>
  PROVE  Range(s) = Range(Tail(s)) \cup {Head(s)}
<1>1. /\ Len(s) \in Nat \ {0} /\ DOMAIN s = 1 .. Len(s) /\ Head(s) = s[1]
      /\ Tail(s) \in Seq(T) /\ DOMAIN Tail(s) = 1 .. Len(s) - 1
      /\ \A i \in 1 .. Len(s) - 1 : Tail(s)[i] = s[i + 1]
  OBVIOUS
<1>2. \A i \in 1 .. Len(s) : i = 1 \/ (i - 1 \in 1 .. Len(s) - 1 /\ (i - 1) + 1 = i)
  BY <1>1
<1>3. \A i \in 1 .. Len(s) - 1 : i + 1 \in 1 .. Len(s)
  BY <1>1
<1>4. 1 \in 1 .. Len(s)
  BY <1>1
<1>5. ASSUME NEW x \in Range(s) PROVE x \in Range(Tail(s)) \cup {Head(s)}
  <2>1. PICK i \in 1 .. Len(s) : x = s[i]
    BY <1>1 DEF Range
  <2>2. CASE i = 1
    BY <1>1, <2>1, <2>2
  <2>3. CASE i # 1
    <3>1. x = Tail(s)[i - 1] /\ i - 1 \in DOMAIN Tail(s)
      BY <1>1, <1>2, <2>1, <2>3
    <3> QED
      BY <3>1 DEF Range
  <2> QED
    BY <2>2, <2>3
<1>6. ASSUME NEW x \in Range(Tail(s)) \cup {Head(s)} PROVE x \in Range(s)
  <2>1. CASE x = Head(s)
    BY <1>1, <1>4, <2>1 DEF Range
  <2>2. CASE x \in Range(Tail(s))
    <3>1. PICK i \in 1 .. Len(s) - 1 : x = Tail(s)[i]
      BY <1>1, <2>2 DEF Range
    <3>2. x = s[i + 1] /\ i + 1 \in DOMAIN s
      BY <1>1, <1>3, <3>1
    <3> QED
      BY <3>2 DEF Range
  <2> QED
    BY <2>1, <2>2
<1> QED
  BY <1>5, <1>6

\* The innermost call before it goes on to its next link.
LEMMA LinkFacts ==
  ASSUME SearchInv, HasLink
  PROVE  LET c == stack[1]  k == NextLink(stack[1]) IN
         /\ mode = "links" /\ stack # <<>> /\ c \in AnyCall /\ c.links # <<>>
         /\ k \in AnyCall /\ k.target = c.target /\ k.depth = c.depth
         /\ Range(c.links) = Range(k.links) \cup {Link}
         /\ c.links \in Seq(AnyLink) /\ Link \in AnyLink
         /\ Link # Short => Link \in LinksOf(c.target)
<1>1. stack # <<>> /\ mode = "links"
  BY DEF SearchInv, CrawlIInv, TypeOK, HasLink
<1>2. /\ stack \in Seq(AnyCall) /\ Head(stack) = stack[1] /\ 1 \in DOMAIN stack
  BY <1>1, CallFacts
<1>3. stack[1] \in AnyCall /\ stack[1].links # <<>> /\ stack[1].links \in Seq(AnyLink)
  <2>1. stack[1] \in AnyCall
    BY <1>2
  <2> QED
    BY <1>2, <2>1 DEF HasLink, AnyCall
<1>4. /\ NextLink(stack[1]) \in AnyCall /\ NextLink(stack[1]).depth = stack[1].depth
      /\ NextLink(stack[1]).target = stack[1].target
      /\ NextLink(stack[1]).links = Tail(stack[1].links)
  BY <1>3, NextLinkType
<1>5. Link = Head(stack[1].links) /\ Link \in AnyLink
  BY <1>2, <1>3 DEF Link
<1>6. Range(stack[1].links) = Range(NextLink(stack[1]).links) \cup {Link}
  BY <1>3, <1>4, <1>5, RangeTail
<1>7. Link # Short => Link \in LinksOf(stack[1].target)
  BY <1>2, <1>6 DEF SearchInv, CallsOnLevels
<1> QED
  BY <1>1, <1>3, <1>4, <1>5, <1>6, <1>7

LEMMA SkipShortSearches == ASSUME SearchInv, SkipShort PROVE SearchInv'
<1> DEFINE k == NextLink(stack[1])
           n == Len(stack)
<1>1. /\ CrawlIInv' /\ HasLink /\ Link = Short
      /\ UNCHANGED <<mode, request, body, saved, given, faults>>
  BY SkipShortKeeps DEF SearchInv, SkipShort
<1>2. /\ mode = "links" /\ stack # <<>> /\ k \in AnyCall /\ k.target = stack[1].target
      /\ Range(stack[1].links) = Range(k.links) \cup {Short}
  BY <1>1, LinkFacts
<1>3. /\ TypeOK /\ stack \in Seq(AnyCall) /\ n \in Nat \ {0}
      /\ DOMAIN stack = 1 .. n /\ Head(stack) = stack[1]
  BY <1>2, CallFacts
<1>4. stack' = <<k>> \o Tail(stack)
  BY <1>3 DEF SkipShort
<1> HIDE DEF k
<1>5. /\ stack' \in Seq(AnyCall) /\ Len(stack') = n /\ stack'[1] = k
      /\ \A i \in 2 .. n : stack'[i] = stack[i]
  BY <1>2, <1>3, <1>4, HeadReplaced
<1>6. DOMAIN stack' = 1 .. n
  BY <1>5
<1>7. /\ Levels' = Levels /\ Level' = Level
      /\ \A u : LinksOf(u)' = LinksOf(u)
  BY <1>1, GivenSame
<1>8. \A i \in 1 .. n : /\ stack'[i].target = stack[i].target
                        /\ Range(stack'[i].links) \ {Short} = Range(stack[i].links) \ {Short}
  <2>1. \A i \in 1 .. n : i = 1 \/ i \in 2 .. n
    BY <1>3
  <2> QED
    BY <1>2, <1>5, <2>1
<1>9. CallsOnLevels'
  BY <1>3, <1>5, <1>6, <1>7, <1>8 DEF SearchInv, CallsOnLevels
<1>10. VisitsRecorded'
  <2> SUFFICES ASSUME faults = 0
               PROVE  \E D \in SUBSET (AnyTarget \X Nat) : Visits(D)'
    BY <1>1 DEF VisitsRecorded
  <2>1. PICK D \in SUBSET (AnyTarget \X Nat) : Visits(D)
    BY <1>2 DEF SearchInv, VisitsRecorded
  <2>2. \A d : ~FreshVisit(d)
    BY <1>2 DEF FreshVisit, Fresh
  <2>3. \A d, l : Pending(d, l) /\ l # Short => Pending(d, l)'
    BY <1>3, <1>5, <1>6, <1>8 DEF Pending
  <2>4. \A u : Short \notin LinksOf(u)
    BY DEF LinksOf
  <2>5. Saved' = Saved
    BY <1>1 DEF Saved
  <2>6. Visits(D)'
    BY <1>7, <2>1, <2>2, <2>3, <2>4, <2>5 DEF Visits
  <2> QED
    BY <2>6
<1>11. Redirecting' /\ BodyIsFinal'
  BY <1>1, <1>2 DEF Redirecting, BodyIsFinal
<1> QED
  BY <1>1, <1>9, <1>10, <1>11, SameWithin DEF SearchInv

LEMMA ReturnSearches == ASSUME SearchInv, Return PROVE SearchInv'
<1> DEFINE n == Len(stack)
<1>1. /\ CrawlIInv' /\ mode = "links" /\ mode' \in {"links", "done"}
      /\ stack # <<>> /\ UNCHANGED <<request, body, saved, given, faults>>
  BY ReturnKeeps DEF SearchInv, CrawlIInv, TypeOK, Return
<1>2. /\ TypeOK /\ stack \in Seq(AnyCall) /\ n \in Nat \ {0}
      /\ DOMAIN stack = 1 .. n /\ Head(stack) = stack[1]
  BY <1>1, CallFacts
<1>3. stack' = Tail(stack) /\ Range(stack[1].links) = {}
  <2>1. stack[1].links = <<>> /\ Range(<<>>) = {}
    BY <1>2 DEF Return, Range
  <2> QED
    BY <2>1 DEF Return
<1>4. /\ Len(stack') = n - 1 /\ DOMAIN stack' = 1 .. n - 1
      /\ \A i \in 1 .. n - 1 : stack'[i] = stack[i + 1]
  BY <1>2, <1>3
<1>5. /\ Levels' = Levels /\ Level' = Level
      /\ \A u : LinksOf(u)' = LinksOf(u)
  BY <1>1, GivenSame
<1>6. \A i \in 1 .. n - 1 : i + 1 \in 1 .. n /\ n - 1 - i + 1 = n - (i + 1) + 1
  BY <1>2
<1>7. CallsOnLevels'
  BY <1>2, <1>4, <1>5, <1>6 DEF SearchInv, CallsOnLevels
<1>8. VisitsRecorded'
  <2> SUFFICES ASSUME faults = 0
               PROVE  \E D \in SUBSET (AnyTarget \X Nat) : Visits(D)'
    BY <1>1 DEF VisitsRecorded
  <2>1. PICK D \in SUBSET (AnyTarget \X Nat) : Visits(D)
    BY <1>1 DEF SearchInv, VisitsRecorded
  <2>2. \A d : ~FreshVisit(d)
    BY <1>1 DEF FreshVisit, Fresh
  <2>3. ASSUME NEW d, NEW l, Pending(d, l) PROVE Pending(d, l)'
    <3>1. PICK i \in 1 .. n : d = <<stack[i].target, n - i + 1>> /\ l \in Range(stack[i].links)
      BY <1>2, <2>3 DEF Pending
    <3>2. i # 1
      BY <1>3, <3>1
    <3>3. i - 1 \in 1 .. n - 1 /\ (i - 1) + 1 = i /\ n - 1 - (i - 1) + 1 = n - i + 1
      BY <1>2, <3>2
    <3> QED
      BY <1>4, <3>1, <3>3 DEF Pending
  <2>4. Saved' = Saved
    BY <1>1 DEF Saved
  <2>5. Visits(D)'
    BY <1>5, <2>1, <2>2, <2>3, <2>4 DEF Visits
  <2> QED
    BY <2>5
<1>9. Redirecting' /\ BodyIsFinal'
  BY <1>1 DEF Redirecting, BodyIsFinal
<1> QED
  BY <1>1, <1>7, <1>8, <1>9, SameWithin DEF SearchInv

LEMMA SilentSearches == ASSUME SearchInv, Silent PROVE SearchInv'
<1>1. CrawlIInv' /\ mode' = "silent" /\ UNCHANGED <<stack, saved, given>>
  BY SilentKeeps DEF SearchInv, Silent
<1>2. Redirecting' /\ BodyIsFinal' /\ VisitsRecorded'
  BY <1>1 DEF Redirecting, BodyIsFinal, VisitsRecorded
<1> QED
  BY <1>1, <1>2, SameCalls, SameWithin DEF SearchInv

LEMMA CrashSearches == ASSUME SearchInv, Crash PROVE SearchInv'
<1>1. CrawlIInv' /\ mode' = "crashed" /\ UNCHANGED <<stack, saved, given>>
  BY CrashKeeps DEF SearchInv, Crash
<1>2. Redirecting' /\ BodyIsFinal' /\ VisitsRecorded'
  BY <1>1 DEF Redirecting, BodyIsFinal, VisitsRecorded
<1> QED
  BY <1>1, <1>2, SameCalls, SameWithin DEF SearchInv

LEMMA ChainSame ==
  ASSUME UNCHANGED given, NEW t, NEW k, NEW h, Chain(h, k, t)
  PROVE  Chain(h, k, t)'
<1>1. \A u : IsMoved(u)' = IsMoved(u) /\ Successor(u)' = Successor(u)
  BY GivenSame DEF IsMoved, Successor
<1> QED
  BY <1>1 DEF Chain

LEMMA FollowLinkSearches == ASSUME SearchInv, FollowLink PROVE SearchInv'
<1> DEFINE c == stack[1]
           k == NextLink(stack[1])
           t == parseSubUrl(stack[1].target.host, Link)
           j == Call(t, Below(stack[1].depth))
           n == Len(stack)
<1>1. /\ CrawlIInv' /\ TypeOK' /\ HasLink /\ Link # Short /\ mode' = "download"
      /\ UNCHANGED <<body, saved, given, faults>>
  BY FollowLinkKeeps DEF SearchInv, CrawlIInv, FollowLink
<1>2. /\ mode = "links" /\ stack # <<>>
      /\ k \in AnyCall /\ k.target = c.target
      /\ Range(c.links) = Range(k.links) \cup {Link} /\ Link \in LinksOf(c.target)
  BY <1>1, LinkFacts
<1>3. /\ TypeOK /\ stack \in Seq(AnyCall) /\ n \in Nat \ {0}
      /\ DOMAIN stack = 1 .. n /\ Head(stack) = stack[1]
      /\ Levels \in Nat /\ n \in 1 .. Levels /\ c.target \in Level[n]
      /\ c.depth = DepthOf(n - 1)
  BY <1>2, CallFacts
<1>4. stack' = <<j, k>> \o Tail(stack) /\ request' = t
  BY <1>3 DEF FollowLink
<1>5. t \in AnyTarget
  BY <1>1, <1>4 DEF TypeOK
<1>6. j \in AnyCall /\ j.target = t /\ j.links = <<>>
  <2>1. Below(c.depth) \in -HalfShort .. HalfShort - 1
    <3>1. n - 1 \in 0 .. Levels - 1
      BY <1>3
    <3>2. c.depth - 1 \in -3 * HalfShort .. 3 * HalfShort - 1
      BY <1>3, <3>1, NextLevel, CrawlAssumption
    <3> QED
      BY <3>2, ToShortIs, CrawlAssumption DEF Below
  <2> HIDE DEF t
  <2> QED
    BY <1>5, <2>1 DEF Call, AnyCall
<1> HIDE DEF k, t, j
<1>7. /\ stack' \in Seq(AnyCall) /\ Len(stack') = n + 1 /\ stack'[1] = j /\ stack'[2] = k
      /\ \A i \in 3 .. n + 1 : stack'[i] = stack[i - 1]
  BY <1>2, <1>3, <1>4, <1>6, CallAdded
<1>8. DOMAIN stack' = 1 .. n + 1 /\ Head(stack') = j /\ n + 1 <= Levels
  <2>1. Len(stack') <= Levels'
    BY <1>1 DEF CrawlIInv, LevelsEnd
  <2>2. DOMAIN stack' = 1 .. n + 1 /\ Head(stack') = j
    BY <1>3, <1>7
  <2> QED
    BY <1>1, <1>7, <2>1, <2>2, GivenSame
<1>9. /\ Levels' = Levels /\ Level' = Level
      /\ \A u : LinksOf(u)' = LinksOf(u)
  BY <1>1, GivenSame
<1>10. t \in Level[n + 1]
  BY <1>2, <1>3, <1>8, NextTarget DEF t
<1>11. \A i \in 1 .. n + 1 :
         \/ /\ i = 1 /\ n + 1 - i + 1 = n + 1
         \/ /\ i = 2 /\ n + 1 - i + 1 = n - 1 + 1 /\ 1 \in 1 .. n
         \/ /\ i \in 3 .. n + 1 /\ i - 1 \in 1 .. n
            /\ n + 1 - i + 1 = n - (i - 1) + 1
  BY <1>3
<1>12. CallsOnLevels'
  <2> SUFFICES ASSUME NEW i \in 1 .. n + 1
               PROVE  /\ stack'[i].target \in Level[n + 1 - i + 1]
                      /\ Range(stack'[i].links) \ {Short} \subseteq LinksOf(stack'[i].target)
    BY <1>7, <1>8, <1>9 DEF CallsOnLevels
  <2>1. CASE i = 1
    <3>1. Range(<<>>) = {}
      BY DEF Range
    <3> QED
      BY <1>6, <1>7, <1>10, <1>11, <2>1, <3>1
  <2>2. CASE i = 2
    <3>1. /\ c.target \in Level[n - 1 + 1]
          /\ Range(c.links) \ {Short} \subseteq LinksOf(c.target)
      BY <1>3, <1>11, <2>2 DEF SearchInv, CallsOnLevels
    <3> QED
      BY <1>2, <1>7, <1>11, <2>2, <3>1
  <2>3. CASE i \in 3 .. n + 1
    <3>1. i - 1 \in 1 .. n /\ n + 1 - i + 1 = n - (i - 1) + 1
      BY <1>11, <2>3
    <3> QED
      BY <1>3, <1>7, <2>3, <3>1 DEF SearchInv, CallsOnLevels
  <2> QED
    BY <1>3, <2>1, <2>2, <2>3
<1>13. Redirecting'
  <2> PICK x : x = t
    OBVIOUS
  <2>1. PICK m, h : m \in Nat /\ Chain(h, m, x) /\ h[m] = x
    BY <1>5, ChainOfNone
  <2>2. Chain(h, m, x)'
    BY <1>1, <2>1, ChainSame
  <2>3. Head(stack').target = x /\ h[m] = request'
    BY <1>4, <1>6, <1>8, <2>1
  <2> QED
    BY <2>1, <2>2, <2>3 DEF Redirecting
<1>14. VisitsRecorded'
  <2> SUFFICES ASSUME faults = 0
               PROVE  \E D \in SUBSET (AnyTarget \X Nat) : Visits(D)'
    BY <1>1 DEF VisitsRecorded
  <2>1. PICK D \in SUBSET (AnyTarget \X Nat) : Visits(D)
    BY <1>2 DEF SearchInv, VisitsRecorded
  <2> PICK new : new = <<t, n + 1>>
    OBVIOUS
  <2> PICK E : E = D \cup {new}
    OBVIOUS
  <2>2. E \in SUBSET (AnyTarget \X Nat)
    BY <1>3, <1>5
  <2>3. \A d : ~FreshVisit(d)
    BY <1>2 DEF FreshVisit, Fresh
  <2>4. FreshVisit(new)'
    BY <1>1, <1>6, <1>7, <1>8 DEF FreshVisit, Fresh
  <2>5. Saved' = Saved
    BY <1>1 DEF Saved
  <2>6. ASSUME NEW d \in D, NEW l, Pending(d, l),
               <<parseSubUrl(d[1].host, l), d[2] + 1>> # new
        PROVE  Pending(d, l)'
    <3>1. PICK i \in 1 .. n : d = <<stack[i].target, n - i + 1>> /\ l \in Range(stack[i].links)
      BY <1>3, <2>6 DEF Pending
    <3>2. CASE i = 1
      <4>1. d = <<c.target, n>> /\ n - 1 + 1 = n
        BY <1>3, <3>1, <3>2
      <4>2. l # Link
        <5> SUFFICES ASSUME l = Link PROVE FALSE
          OBVIOUS
        <5>1. d[1] = c.target /\ d[2] = n
          BY <4>1
        <5>2. <<parseSubUrl(d[1].host, l), d[2] + 1>> = <<t, n + 1>>
          BY <5>1 DEF t
        <5> QED
          BY <2>6, <5>2
      <4>3. l \in Range(stack'[2].links) /\ stack'[2].target = c.target
        BY <1>2, <1>7, <3>1, <3>2, <4>2
      <4>4. 2 \in DOMAIN stack' /\ Len(stack') - 2 + 1 = n
        BY <1>3, <1>7, <1>8
      <4> QED
        BY <4>1, <4>3, <4>4 DEF Pending
    <3>3. CASE i # 1
      <4>1. i + 1 \in 3 .. n + 1 /\ (i + 1) - 1 = i /\ Len(stack') - (i + 1) + 1 = n - i + 1
        BY <1>3, <1>7, <3>3
      <4>2. stack'[i + 1] = stack[i] /\ i + 1 \in DOMAIN stack'
        BY <1>7, <1>8, <4>1
      <4> QED
        BY <3>1, <4>1, <4>2 DEF Pending
    <3> QED
      BY <3>2, <3>3
  <2>7. Visits(E)'
    BY <1>9, <2>1, <2>3, <2>4, <2>5, <2>6 DEF Visits
  <2> QED
    BY <2>2, <2>7
<1>15. BodyIsFinal'
  BY <1>1 DEF BodyIsFinal
<1> QED
  BY <1>1, <1>12, <1>13, <1>14, <1>15, SameWithin DEF SearchInv

LEMMA SearchInvariant == Spec => []SearchInv
<1>1. SearchInv /\ UNCHANGED vars => SearchInv'
  <2> SUFFICES ASSUME SearchInv, UNCHANGED vars PROVE SearchInv'
    OBVIOUS
  <2>1. UNCHANGED <<mode, stack, request, body, saved, given, faults>>
    BY DEF vars
  <2>2. CrawlIInv'
    <3>1. TypeOK'
      BY <2>1 DEF given, SearchInv, CrawlIInv, TypeOK
    <3> QED
      BY <2>1, <3>1, SameStack DEF SearchInv, CrawlIInv
  <2>3. Redirecting'
    <3> SUFFICES ASSUME mode = "download"
                 PROVE  \E k \in Nat : \E h :
                          Chain(h, k, Head(stack).target)' /\ h[k] = request
      BY <2>1 DEF Redirecting
    <3> PICK x : x = Head(stack).target
      OBVIOUS
    <3>1. PICK k, h : k \in Nat /\ Chain(h, k, x) /\ h[k] = request
      BY DEF SearchInv, Redirecting
    <3>2. Chain(h, k, x)' /\ Head(stack').target = x
      BY <2>1, <3>1, ChainSame
    <3> QED
      BY <3>1, <3>2
  <2>4. BodyIsFinal'
    <3>1. \A t : Answer(t)' = Answer(t) /\ Hops(t)' = Hops(t)
      BY <2>1, GivenSame
    <3>2. MaxHops' = MaxHops
      BY <2>1, GivenSame
    <3> QED
      BY <2>1, <3>1, <3>2 DEF SearchInv, BodyIsFinal
  <2>5. VisitsRecorded'
    <3> SUFFICES ASSUME faults = 0, mode \notin {"crashed", "silent"}
                 PROVE  \E D \in SUBSET (AnyTarget \X Nat) : Visits(D)'
      BY <2>1 DEF VisitsRecorded
    <3>1. PICK D \in SUBSET (AnyTarget \X Nat) : Visits(D)
      BY DEF SearchInv, VisitsRecorded
    <3>2. Levels' = Levels /\ \A t : LinksOf(t)' = LinksOf(t)
      BY <2>1, GivenSame
    <3>3. Visits(D)'
      BY <2>1, <3>1, <3>2 DEF Visits, Saved, FreshVisit, Fresh, Pending
    <3> QED
      BY <3>3
  <2> QED
    BY <2>1, <2>2, <2>3, <2>4, <2>5, SameCalls, SameWithin DEF SearchInv
<1>2. SearchInv /\ [Next]_vars => SearchInv'
  BY <1>1, RedirectSearches, DownloadSearches, SilentSearches, SavePageSearches,
     SkipShortSearches, FollowLinkSearches, CrashSearches, ReturnSearches DEF Next
<1> QED
  BY SearchInitially, <1>2, PTL DEF Spec

\* When the crawl is over and no download has failed, the visits contain
\* every target of every level.
LEMMA AllLevelsSaved ==
  ASSUME SearchInv, mode = "done", faults = 0,
         NEW n \in 1 .. Levels, NEW t \in Level[n]
  PROVE  t \in Saved
<1>1. TypeOK /\ stack = <<>> /\ DOMAIN stack = {} /\ Levels \in Nat
  BY LevelsType, CrawlAssumption DEF SearchInv, CrawlIInv, TypeOK
<1>2. PICK D : Visits(D)
  BY DEF SearchInv, VisitsRecorded
<1>3. \A d : ~FreshVisit(d) /\ \A l : ~Pending(d, l)
  BY <1>1 DEF FreshVisit, Fresh, Pending
<1>4. \A d \in D : d[1] \in Saved
  BY <1>2, <1>3 DEF Visits
<1>5. \A d \in D : d[2] < Levels =>
        \A l \in LinksOf(d[1]) : <<parseSubUrl(d[1].host, l), d[2] + 1>> \in D
  BY <1>2, <1>3 DEF Visits
<1> DEFINE S == {m \in Nat : m + 1 <= Levels => \A u \in Level[m + 1] : <<u, m + 1>> \in D}
<1>6. 0 \in S
  <2> SUFFICES ASSUME 1 <= Levels, NEW u \in Level[1] PROVE <<u, 1>> \in D
    BY <1>1
  <2>1. u = Start
    BY <1>1, LevelAt
  <2> QED
    BY <1>2, <2>1 DEF Visits
<1>7. \A m \in Nat : m \in S => m + 1 \in S
  <2> SUFFICES ASSUME NEW m \in Nat, m \in S, (m + 1) + 1 <= Levels,
                      NEW u \in Level[(m + 1) + 1]
               PROVE  <<u, (m + 1) + 1>> \in D
    OBVIOUS
  <2>1. /\ (m + 1) + 1 \in 1 .. Levels /\ (m + 1) + 1 # 1 /\ ((m + 1) + 1) - 1 = m + 1
        /\ m + 1 <= Levels /\ m + 1 < Levels
    BY <1>1
  <2>2. u \in LinkedFrom(Level[m + 1])
    BY <1>1, <2>1, LevelAt
  <2>3. PICK v \in Level[m + 1] : \E l \in LinksOf(v) : u = parseSubUrl(v.host, l)
    BY <2>2 DEF LinkedFrom
  <2> PICK d : d = <<v, m + 1>>
    OBVIOUS
  <2>4. d \in D /\ d[1] = v /\ d[2] = m + 1
    BY <2>1
  <2> QED
    BY <1>5, <2>1, <2>3, <2>4
<1> HIDE DEF S
<1>8. Nat \subseteq S
  BY <1>6, <1>7, Induct
<1>9. n - 1 \in S /\ (n - 1) + 1 = n
  BY <1>1, <1>8
<1>10. <<t, n>> \in D
  <2>1. (n - 1) + 1 <= Levels => \A u \in Level[(n - 1) + 1] : <<u, (n - 1) + 1>> \in D
    BY <1>9 DEF S
  <2> QED
    BY <1>1, <1>9, <2>1
<1> QED
  BY <1>4, <1>10

-----------------------------------------------------------------------------
(* Theorems.                                                               *)

\* The variables have their types; a crawl that has a page to process has a
\* call for it.
THEOREM CrawlTypeCorrect == Spec => []TypeOK
<1>1. CrawlIInv => TypeOK
  BY DEF CrawlIInv
<1> QED
  BY <1>1, CrawlInvariant, PTL

\* The calls are never nested deeper than the configured levels, of which 0
\* means as many as a short has values: whatever the width of the short, the
\* wrapped depth meets 1 on the last of them.
THEOREM RecursionEnds == Spec => []LevelsEnd
<1>1. CrawlIInv => LevelsEnd
  BY DEF CrawlIInv
<1> QED
  BY <1>1, CrawlInvariant, PTL

\* The recursion is as deep as configured at most, and whatever is saved is
\* that many links from the start page at most, whichever way it was found.
THEOREM DepthIsRespected == Spec => []DepthRespected
<1>1. SearchInv => DepthRespected
  BY DEF SearchInv, CrawlIInv, SavedWithin, DepthRespected
<1> QED
  BY <1>1, SearchInvariant, PTL

\* A crawl that is over and met no failing download has saved exactly what a
\* search of the web level by level finds: the search depth first, which
\* wraps the depth, skips short links and visits pages again, misses nothing.
THEOREM CrawlIsComplete == Spec => []CrawlsAllWithinDepth
<1>1. SearchInv => CrawlsAllWithinDepth
  <2> SUFFICES ASSUME SearchInv, mode = "done", faults = 0 PROVE Saved = WithinDepth
    BY DEF CrawlsAllWithinDepth
  <2>1. WithinDepth \subseteq Saved
    BY AllLevelsSaved, LevelWithin DEF SearchInv, CrawlIInv
  <2> QED
    BY <2>1 DEF SearchInv, SavedWithin
<1> QED
  BY <1>1, SearchInvariant, PTL
=============================================================================
