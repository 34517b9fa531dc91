-------------------------- MODULE AdjacentCountProofs --------------------------
(***************************************************************************)
(* The loop of adjacent_count computes the runs of every vector, of any    *)
(* elements and any length.                                                *)
(*                                                                         *)
(* "it" is always at the start of a run, and what has been returned so far *)
(* are the runs that end before it.                                        *)
(***************************************************************************)
EXTENDS AdjacentCount, FiniteSetTheorems, WellFoundedInduction, TLAPS

-----------------------------------------------------------------------------
(* Numbers.                                                                *)

\* A set of numbers that is not empty has a least element.
LEMMA Least ==
  ASSUME NEW S, S \subseteq Nat, S # {}
  PROVE  \E x \in S : \A y \in S : x <= y
<1> DEFINE R == {ss \in Nat \X Nat : ss[1] < ss[2]}
<1>1. IsWellFoundedOn(R, Nat)
  BY NatLessThanWellFounded DEF OpToRel
<1>2. PICK x \in S : \A y \in S : <<y, x>> \notin R
  <2> HIDE DEF R
  <2> QED BY <1>1, WFMin
<1>3. \A y \in S : ~ (y < x)
  BY <1>2
<1> QED
  BY <1>2, <1>3

\* A set that holds 0 and the successor of every number in it holds them all.
LEMMA Induct ==
  ASSUME NEW S, 0 \in S, \A n \in Nat : n \in S => n + 1 \in S
  PROVE  Nat \subseteq S
<1> SUFFICES ASSUME Nat \ S # {} PROVE FALSE
  OBVIOUS
<1>1. PICK x \in Nat \ S : \A y \in Nat \ S : x <= y
  BY Least
<1>2. x # 0 /\ x - 1 \in Nat
  BY <1>1
<1>3. x - 1 \in S
  BY <1>1, <1>2
<1> QED
  BY <1>1, <1>2, <1>3

-----------------------------------------------------------------------------
(* FlattenSeq.                                                             *)

\* f is the function that FlattenSeq computes, for the first n elements of s.
Flattens(f, s, n) ==
  f = [i \in 1 .. n |-> IF i = 1 THEN s[i] ELSE f[i - 1] \o s[i]]

LEMMA FlattensAt ==
  ASSUME NEW s, NEW n, NEW f, Flattens(f, s, n), NEW i \in 1 .. n
  PROVE  f[i] = IF i = 1 THEN s[i] ELSE f[i - 1] \o s[i]
<1> DEFINE r == [j \in 1 .. n |-> IF j = 1 THEN s[j] ELSE f[j - 1] \o s[j]]
<1>1. f = r
  BY DEF Flattens
<1>2. r[i] = IF i = 1 THEN s[i] ELSE f[i - 1] \o s[i]
  OBVIOUS
<1> HIDE DEF r
<1> QED
  BY <1>1, <1>2

LEMMA FlattensExtended ==
  ASSUME NEW s, NEW n \in Nat, NEW f, Flattens(f, s, n)
  PROVE  \E g : Flattens(g, s, n + 1)
<1> DEFINE g == [i \in 1 .. n + 1 |->
                   IF i <= n THEN f[i]
                   ELSE IF i = 1 THEN s[i] ELSE f[n] \o s[i]]
<1>1. \A i \in 1 .. n + 1 : g[i] = IF i = 1 THEN s[i] ELSE g[i - 1] \o s[i]
  <2> SUFFICES ASSUME NEW i \in 1 .. n + 1
               PROVE  g[i] = IF i = 1 THEN s[i] ELSE g[i - 1] \o s[i]
    OBVIOUS
  <2>1. CASE i <= n
    <3>1. f[i] = IF i = 1 THEN s[i] ELSE f[i - 1] \o s[i]
      BY <2>1, FlattensAt
    <3>2. i # 1 => g[i - 1] = f[i - 1]
      BY <2>1
    <3> QED
      BY <2>1, <3>1, <3>2
  <2>2. CASE i = n + 1
    <3>1. i # 1 => g[i - 1] = f[n]
      BY <2>2
    <3> QED
      BY <2>2, <3>1
  <2> QED
    BY <2>1, <2>2
<1>2. g = [i \in 1 .. n + 1 |-> g[i]]
  OBVIOUS
<1> HIDE DEF g
<1>3. Flattens(g, s, n + 1)
  BY <1>1, <1>2 DEF Flattens
<1> QED
  BY <1>3

LEMMA FlattensExists ==
  ASSUME NEW s, NEW n \in Nat PROVE \E f : Flattens(f, s, n)
<1> DEFINE S == {m \in Nat : \E f : Flattens(f, s, m)}
<1>1. 0 \in S
  <2>1. Flattens([i \in 1 .. 0 |-> s[i]], s, 0)
    BY DEF Flattens
  <2> QED
    BY <2>1
<1>2. \A m \in Nat : m \in S => m + 1 \in S
  BY FlattensExtended
<1> HIDE DEF S
<1>3. n \in S
  BY <1>1, <1>2, Induct
<1> QED
  BY <1>3 DEF S

\* It depends only on these elements.
LEMMA FlattensUnique ==
  ASSUME NEW s, NEW t, NEW n \in Nat, NEW m \in Nat, n <= m,
         \A i \in 1 .. n : s[i] = t[i],
         NEW f, Flattens(f, s, n), NEW g, Flattens(g, t, m)
  PROVE  \A i \in 1 .. n : f[i] = g[i]
<1> DEFINE S == {i \in 1 .. n : f[i] # g[i]}
<1> SUFFICES ASSUME S # {} PROVE FALSE
  OBVIOUS
<1>1. PICK i \in S : \A j \in S : i <= j
  <2>1. S \subseteq Nat
    OBVIOUS
  <2> HIDE DEF S
  <2> QED
    BY <2>1, Least
<1>2. i \in 1 .. n /\ i \in 1 .. m /\ f[i] # g[i]
  BY <1>1
<1>3. i # 1 => f[i - 1] = g[i - 1]
  BY <1>1
<1>4. /\ f[i] = IF i = 1 THEN s[i] ELSE f[i - 1] \o s[i]
      /\ g[i] = IF i = 1 THEN t[i] ELSE g[i - 1] \o t[i]
  BY <1>2, FlattensAt
<1> QED
  BY <1>2, <1>3, <1>4

LEMMA FlattenIs ==
  ASSUME NEW s, Len(s) \in Nat \ {0}
  PROVE  \E f : Flattens(f, s, Len(s)) /\ FlattenSeq(s) = f[Len(s)]
<1>1. \E f : Flattens(f, s, Len(s))
  BY FlattensExists
<1>2. FlattenSeq(s) = (CHOOSE f : Flattens(f, s, Len(s)))[Len(s)]
  BY DEF FlattenSeq, Flattens
<1> QED
  BY <1>1, <1>2

\* A sequence more is written behind the others.
LEMMA FlattenAppend ==
  ASSUME NEW T, NEW s \in Seq(Seq(T)), NEW x \in Seq(T)
  PROVE  FlattenSeq(Append(s, x)) = FlattenSeq(s) \o x
<1> DEFINE n == Len(s)
           m == n + 1
           t == Append(s, x)
<1>1. /\ n \in Nat /\ m \in Nat /\ n <= m /\ m - 1 = n /\ (m = 1 <=> n = 0)
      /\ Len(t) = m /\ t[m] = x /\ \A i \in 1 .. n : s[i] = t[i]
  OBVIOUS
<1> HIDE DEF t, n, m
<1>2. PICK g : Flattens(g, t, m) /\ FlattenSeq(t) = g[m]
  BY <1>1, FlattenIs
<1>3. g[m] = IF n = 0 THEN x ELSE g[n] \o x
  <2>1. m \in 1 .. m
    BY <1>1
  <2> QED
    BY <1>1, <1>2, <2>1, FlattensAt
<1>4. CASE n = 0
  <2>1. FlattenSeq(s) = <<>>
    BY <1>4 DEF FlattenSeq, n
  <2> QED
    BY <1>2, <1>3, <1>4, <2>1 DEF t
<1>5. CASE n # 0
  <2>1. PICK f : Flattens(f, s, n) /\ FlattenSeq(s) = f[n]
    BY <1>1, <1>5, FlattenIs DEF n
  <2>2. \A i \in 1 .. n : f[i] = g[i]
    <3>1. n \in Nat /\ m \in Nat /\ n <= m /\ \A i \in 1 .. n : s[i] = t[i]
      BY <1>1
    <3>2. Flattens(f, s, n) /\ Flattens(g, t, m)
      BY <1>2, <2>1
    <3> QED
      BY <3>1, <3>2, FlattensUnique
  <2>3. f[n] = g[n]
    BY <1>1, <1>5, <2>2
  <2> QED
    BY <1>2, <1>3, <1>5, <2>1, <2>3 DEF t
<1> QED
  BY <1>4, <1>5

-----------------------------------------------------------------------------
(* One turn.                                                               *)

\* adjacent_find stops on the last element of the run at "from", or at the end
\* when that is the last run.
LEMMA Found ==
  ASSUME v \in Seq(Element), NEW from \in 1 .. Len(v)
  PROVE  LET last == IF adjacent_find(from) # end THEN adjacent_find(from) ELSE Len(v)
         IN  /\ last \in from .. Len(v)
             /\ adjacent_find(from) \in from .. end
             /\ \A k \in from .. last : v[k] = v[from]
             /\ last < Len(v) => v[last + 1] # v[from]
<1> DEFINE found == {k \in from .. Len(v) - 1 : v[k] # v[k + 1]}
           last == IF adjacent_find(from) # end THEN adjacent_find(from) ELSE Len(v)
           S == {k \in from .. last : v[k] # v[from]}
<1>1. Len(v) \in Nat /\ found \subseteq Nat
  OBVIOUS
<1>2. /\ last \in from .. Len(v) /\ adjacent_find(from) \in from .. end
      /\ \A k \in from .. last - 1 : k \notin found
      /\ last < Len(v) => last \in found
  <2>1. CASE found = {}
    <3>1. adjacent_find(from) = end /\ last = Len(v)
      BY <2>1 DEF adjacent_find
    <3> HIDE DEF found, last
    <3> QED
      BY <1>1, <2>1, <3>1 DEF end
  <2>2. CASE found # {}
    <3> DEFINE a == CHOOSE k \in found : \A m \in found : k <= m
    <3>1. adjacent_find(from) = a
      BY <2>2 DEF adjacent_find
    <3>2. a \in found /\ \A m \in found : a <= m
      <4> HIDE DEF found
      <4>1. \E k \in found : \A m \in found : k <= m
        BY <1>1, <2>2, Least
      <4> QED
        BY <4>1
    <3> HIDE DEF a
    <3>3. last = a
      BY <1>1, <3>1, <3>2 DEF end
    <3> QED
      BY <1>1, <3>1, <3>2, <3>3 DEF end
  <2> QED
    BY <2>1, <2>2
<1> HIDE DEF last
<1>3. S = {}
  <2> SUFFICES ASSUME S # {} PROVE FALSE
    OBVIOUS
  <2>1. PICK k \in S : \A j \in S : k <= j
    <3>1. S \subseteq Nat
      BY <1>2
    <3> HIDE DEF S
    <3> QED
      BY <3>1, Least
  <2>2. k \in from + 1 .. last /\ v[k - 1] = v[from] /\ v[k] # v[from]
    BY <1>2, <2>1
  <2>3. k - 1 \in found
    BY <1>2, <2>2
  <2> QED
    BY <1>2, <2>2, <2>3
<1>4. \A k \in from .. last : v[k] = v[from]
  BY <1>3
<1>5. last < Len(v) => v[last + 1] # v[from]
  BY <1>2, <1>4
<1> QED
  BY <1>2, <1>4, <1>5 DEF last

\* A turn consumes the run at "from".
LEMMA RunFound ==
  ASSUME v \in Seq(Element), NEW from \in 1 .. Len(v)
  PROVE  /\ RunEnd(from) \in from + 1 .. end
         /\ \A k \in from .. RunEnd(from) - 1 : v[k] = v[from]
         /\ RunEnd(from) <= Len(v) => v[RunEnd(from)] # v[from]
<1>1. Len(v) \in Nat
  OBVIOUS
<1> DEFINE a == adjacent_find(from)
           last == IF a # end THEN a ELSE Len(v)
<1>2. /\ last \in from .. Len(v) /\ a \in from .. end
      /\ \A k \in from .. last : v[k] = v[from]
      /\ last < Len(v) => v[last + 1] # v[from]
  BY Found
<1> HIDE DEF a
<1>3. RunEnd(from) = last + 1
  BY <1>1, <1>2 DEF RunEnd, end, a
<1> HIDE DEF last
<1> QED
  BY <1>1, <1>2, <1>3 DEF end

-----------------------------------------------------------------------------
(* The invariant.                                                          *)

\* No run is cut in two.
AtRunStart == it \in 1 .. end /\ (it > 1 /\ it < end => v[it - 1] # v[it])

LastRun ==
  /\ Len(res) = 0 <=> it = 1
  /\ Len(res) > 0 => res[Len(res)][1] = v[it - 1]

\* The runs that end before position e.
RunsBefore(e) ==
  {<<v[p[1]], p[2] - p[1] + 1>> :
     p \in {x \in (DOMAIN v) \X (DOMAIN v) : EqualRun(v, x[1], x[2]) /\ x[2] < e}}

\* GroupedGivesTotals for the part of the vector before "it".
TotalsBefore ==
  Grouped =>
    \A i \in DOMAIN res :
      /\ \E k \in 1 .. it - 1 : v[k] = res[i][1]
      /\ \A j \in DOMAIN res : i # j => res[i][1] # res[j][1]
      /\ res[i][2] = Cardinality({k \in 1 .. it - 1 : v[k] = res[i][1]})

LoopInv ==
  /\ v \in Seq(Element)
  /\ res \in Seq(Element \X (Nat \ {0}))
  /\ AtRunStart /\ LastRun
  /\ PrefixCounted
  /\ Range(res) = RunsBefore(it)
  /\ TotalsBefore

LEMMA LoopInitially == Init => LoopInv
<1> SUFFICES ASSUME Init PROVE LoopInv
  OBVIOUS
<1>1. PICK n \in 0 .. MaxLength : v \in [1 .. n -> Element]
  BY DEF Init
<1>2. n \in Nat /\ v \in Seq(Element) /\ Len(v) \in Nat /\ it = 1 /\ res = <<>>
  BY <1>1, AdjacentAssumption DEF Init
<1>3. AtRunStart /\ LastRun /\ TotalsBefore
  BY <1>2 DEF AtRunStart, LastRun, TotalsBefore, end
<1>4. PrefixCounted
  <2>1. [i \in DOMAIN res |-> [k \in 1 .. res[i][2] |-> res[i][1]]] = <<>>
    BY <1>2
  <2>2. SubSeq(v, 1, it - 1) = <<>>
    BY <1>2
  <2>3. FlattenSeq(<<>>) = <<>>
    BY DEF FlattenSeq
  <2>4. DOMAIN res = {}
    BY <1>2
  <2> QED
    BY <2>1, <2>2, <2>3, <2>4, Zenon DEF PrefixCounted
<1>5. Range(res) = RunsBefore(it)
  <2>1. Range(res) = {}
    BY <1>2 DEF Range
  <2>2. RunsBefore(it) = {}
    BY <1>2 DEF RunsBefore
  <2> QED
    BY <2>1, <2>2
<1> QED
  BY <1>2, <1>3, <1>4, <1>5 DEF LoopInv

\* What a turn does.
TurnTo(e) ==
  /\ it \in 1 .. Len(v) /\ e \in it + 1 .. end
  /\ \A k \in it .. e - 1 : v[k] = v[it]
  /\ e <= Len(v) => v[e] # v[it]
  /\ v' = v /\ it' = e /\ res' = Append(res, <<v[it], e - it>>)

LEMMA TurnIs == ASSUME LoopInv, Turn PROVE TurnTo(RunEnd(it))
<1>1. v \in Seq(Element) /\ it \in 1 .. Len(v)
  BY DEF LoopInv, AtRunStart, Turn, end
<1> QED
  BY <1>1, RunFound DEF Turn, TurnTo

\* The last entry of res' is new, the others are those of res.
LEMMA Appended ==
  ASSUME LoopInv, NEW e, TurnTo(e)
  PROVE  LET n == Len(res) IN
         /\ n \in Nat /\ e \in Nat /\ it \in Nat /\ Len(v) \in Nat /\ it < e
         /\ v[it] \in Element
         /\ res' \in Seq(Element \X (Nat \ {0})) /\ Len(res') = n + 1
         /\ DOMAIN res = 1 .. n /\ DOMAIN res' = 1 .. n + 1
         /\ \A i \in 1 .. n : res'[i] = res[i]
         /\ res'[n + 1] = <<v[it], e - it>>
<1>1. /\ v \in Seq(Element) /\ Len(v) \in Nat
      /\ it \in 1 .. Len(v) /\ e \in it + 1 .. Len(v) + 1 
      /\ res \in Seq(Element \X (Nat \ {0})) /\ Len(res) \in Nat
  BY DEF LoopInv, TurnTo, end
<1> DEFINE x == <<v[it], e - it>>
<1>2. x \in Element \X (Nat \ {0})
  BY <1>1
<1>3. res' = Append(res, x)
  BY DEF TurnTo
<1> HIDE DEF x
<1>4. /\ res' \in Seq(Element \X (Nat \ {0})) /\ Len(res') = Len(res) + 1
      /\ res'[Len(res) + 1] = x
      /\ \A i \in 1 .. Len(res) : res'[i] = res[i]
  BY <1>1, <1>2, <1>3
<1> QED
  BY <1>1, <1>4 DEF x

LEMMA AtRunStartKept ==
  ASSUME LoopInv, NEW e, TurnTo(e) PROVE AtRunStart' /\ LastRun'
<1> DEFINE n == Len(res)
<1>1. /\ n \in Nat /\ e \in Nat /\ it \in Nat /\ Len(v) \in Nat /\ it < e
      /\ Len(res') = n + 1 /\ res'[n + 1] = <<v[it], e - it>>
  BY Appended
<1>2. /\ v' = v /\ it' = e /\ e \in it + 1 .. end /\ it \in 1 .. Len(v)
      /\ v[e - 1] = v[it] /\ (e <= Len(v) => v[e] # v[it])
  BY <1>1 DEF TurnTo
<1>3. AtRunStart'
  BY <1>1, <1>2 DEF AtRunStart, end
<1>4. LastRun'
  BY <1>1, <1>2 DEF LastRun
<1> QED
  BY <1>3, <1>4

\* What one entry of the result stands for.
Block(x) == [k \in 1 .. x[2] |-> x[1]]

LEMMA BlockType ==
  ASSUME NEW x \in Element \X (Nat \ {0})
  PROVE  /\ Block(x) \in Seq(Element) /\ Len(Block(x)) = x[2]
         /\ \A k \in 1 .. x[2] : Block(x)[k] = x[1]
<1>1. x[1] \in Element /\ x[2] \in Nat
  OBVIOUS
<1> QED
  BY <1>1 DEF Block

LEMMA PrefixExtended ==
  ASSUME NEW T, NEW s \in Seq(T), NEW i \in Nat, NEW j \in Nat,
         i <= j, j <= Len(s),
         NEW b \in Seq(T), Len(b) = j - i, \A k \in 1 .. j - i : b[k] = s[i + k]
  PROVE  SubSeq(s, 1, i) \o b = SubSeq(s, 1, j)
<1> DEFINE a == SubSeq(s, 1, i)
           c == SubSeq(s, 1, j)
           d == a \o b
<1>1. /\ a \in Seq(T) /\ Len(a) = i /\ \A k \in 1 .. i : a[k] = s[k]
      /\ c \in Seq(T) /\ Len(c) = j /\ \A k \in 1 .. j : c[k] = s[k]
  OBVIOUS
<1> HIDE DEF a, c
<1>2. d \in Seq(T) /\ Len(d) = j
  BY <1>1
<1>3. \A k \in 1 .. j : d[k] = s[k]
  <2> SUFFICES ASSUME NEW k \in 1 .. j PROVE d[k] = s[k]
    OBVIOUS
  <2>1. CASE k <= i
    BY <1>1, <2>1
  <2>2. CASE k > i
    <3>1. d[k] = b[k - i] /\ k - i \in 1 .. j - i /\ i + (k - i) = k
      BY <1>1, <2>2
    <3> QED
      BY <3>1
  <2> HIDE DEF d
  <2> QED
    BY <2>1, <2>2
<1> HIDE DEF d
<1>4. c = d
  BY <1>1, <1>2, <1>3
<1> QED
  BY <1>4 DEF a, c, d

LEMMA PrefixCountedKept ==
  ASSUME LoopInv, NEW e, TurnTo(e) PROVE PrefixCounted'
<1> DEFINE n == Len(res)
           x == <<v[it], e - it>>
           s == [i \in DOMAIN res |-> Block(res[i])]
           t == [i \in DOMAIN res' |-> Block(res'[i])]
<1>1. /\ n \in Nat /\ e \in Nat /\ it \in Nat \ {0} /\ Len(v) \in Nat /\ it < e
      /\ v[it] \in Element /\ x \in Element \X (Nat \ {0})
      /\ res \in Seq(Element \X (Nat \ {0}))
      /\ res' \in Seq(Element \X (Nat \ {0}))
      /\ DOMAIN res = 1 .. n /\ DOMAIN res' = 1 .. n + 1
      /\ \A i \in 1 .. n : res'[i] = res[i]
      /\ res'[n + 1] = x
  BY Appended DEF TurnTo, LoopInv
<1>2. /\ v \in Seq(Element) /\ v' = v /\ it' = e
      /\ e <= Len(v) + 1 /\ it <= Len(v)
      /\ \A k \in it .. e - 1 : v[k] = v[it]
  BY <1>1 DEF TurnTo, LoopInv, end
<1>3. Block(x) \in Seq(Element)
  BY <1>1, BlockType
<1>4. s \in Seq(Seq(Element))
  <2>1. \A i \in 1 .. n : Block(res[i]) \in Seq(Element)
    BY <1>1, BlockType
  <2> QED
    BY <1>1, <2>1
<1>5. t = Append(s, Block(x))
  <2>1. /\ Append(s, Block(x)) =
             [i \in 1 .. n + 1 |-> IF i <= n THEN s[i] ELSE Block(x)]
    BY <1>1, <1>3, <1>4
  <2>2. \A i \in 1 .. n + 1 :
          Block(res'[i]) = IF i <= n THEN s[i] ELSE Block(x)
    <3>1. \A i \in 1 .. n : s[i] = Block(res[i])
      BY <1>1
    <3>2. \A i \in 1 .. n : Block(res'[i]) = Block(res[i])
      BY <1>1, Zenon
    <3>3. Block(res'[n + 1]) = Block(x)
      BY <1>1, Zenon
    <3>4. \A i \in 1 .. n + 1 : IF i <= n THEN i \in 1 .. n ELSE i = n + 1
      BY <1>1
    <3> HIDE DEF s, x, n
    <3> QED
      BY <3>1, <3>2, <3>3, <3>4
  <2> HIDE DEF s
  <2> QED
    BY <1>1, <2>1, <2>2
<1>6. FlattenSeq(t) = FlattenSeq(s) \o Block(x)
  <2> HIDE DEF s, t
  <2> QED
    BY <1>3, <1>4, <1>5, FlattenAppend
<1>7. FlattenSeq(s) = SubSeq(v, 1, it - 1)
  BY DEF LoopInv, PrefixCounted, Block
<1>8. SubSeq(v, 1, it - 1) \o Block(x) = SubSeq(v, 1, e - 1)
  <2> DEFINE i == it - 1
             j == e - 1
  <2>1. i \in Nat /\ j \in Nat /\ i <= j /\ j <= Len(v) /\ j - i = e - it
    BY <1>1, <1>2
  <2>2. Len(Block(x)) = j - i
    BY <1>1, <2>1, BlockType
  <2>3. \A k \in 1 .. j - i : Block(x)[k] = v[i + k]
    <3>1. \A k \in 1 .. e - it : Block(x)[k] = v[it]
      BY <1>1, BlockType
    <3>2. \A k \in 1 .. e - it : i + k \in it .. e - 1
      BY <1>1
    <3> QED
      BY <1>2, <2>1, <3>1, <3>2
  <2> HIDE DEF i, j, x
  <2>4. SubSeq(v, 1, i) \o Block(x) = SubSeq(v, 1, j)
    BY <1>2, <1>3, <2>1, <2>2, <2>3, PrefixExtended
  <2> QED
    BY <2>4 DEF i, j
<1>9. FlattenSeq(t) = SubSeq(v', 1, it' - 1)
  BY <1>2, <1>6, <1>7, <1>8
<1>10. \A i \in DOMAIN res' : res'[i][2] > 0 /\ (i > 1 => res'[i - 1][1] # res'[i][1])
  <2> HIDE DEF x
  <2> SUFFICES ASSUME NEW i \in 1 .. n + 1
               PROVE  res'[i][2] > 0 /\ (i > 1 => res'[i - 1][1] # res'[i][1])
    BY <1>1
  <2>1. CASE i \in 1 .. n
    <3>1. res'[i] = res[i] /\ (i > 1 => res'[i - 1] = res[i - 1])
      <4>1. i > 1 => i - 1 \in 1 .. n
        BY <1>1, <2>1
      <4>2. \A k \in 1 .. n : res'[k] = res[k]
        BY <1>1, Zenon
      <4> HIDE DEF n, s, t
      <4> QED
        BY <2>1, <4>1, <4>2, Zenon
    <3>2. res[i][2] > 0 /\ (i > 1 => res[i - 1][1] # res[i][1])
      BY <1>1, <2>1 DEF LoopInv, PrefixCounted
    <3> QED
      BY <3>1, <3>2
  <2>2. CASE i = n + 1
    <3>1. res'[i] = x /\ x[2] > 0
      BY <1>1, <2>2 DEF x
    <3>2. i > 1 => res'[i - 1] = res[n] /\ res[n][1] = v[it - 1]
      <4>1. i > 1 => n \in 1 .. n /\ i - 1 = n /\ n > 0
        BY <1>1, <2>2
      <4>2. n > 0 => res[n][1] = v[it - 1]
        BY DEF LoopInv, LastRun
      <4> QED
        BY <1>1, <4>1, <4>2
    <3>3. i > 1 => v[it - 1] # v[it]
      <4>1. i > 1 => n # 0
        BY <1>1, <2>2
      <4>2. n # 0 => it # 1
        BY DEF LoopInv, LastRun
      <4>3. it # 1 => v[it - 1] # v[it]
        BY <1>1, <1>2 DEF LoopInv, AtRunStart, end
      <4> QED
        BY <4>1, <4>2, <4>3
    <3> QED
      BY <3>1, <3>2, <3>3 DEF x
  <2> QED
    BY <1>1, <2>1, <2>2
<1> QED
  BY <1>9, <1>10 DEF PrefixCounted, Block

\* The runs that end between "it" and e are the one that begins at "it".
LEMMA OneRunMore ==
  ASSUME LoopInv, NEW e, TurnTo(e), NEW i \in DOMAIN v, NEW j \in DOMAIN v
  PROVE  (EqualRun(v, i, j) /\ j < e) <=>
           ((EqualRun(v, i, j) /\ j < it) \/ (i = it /\ j = e - 1))
<1>1. /\ e \in Nat /\ it \in Nat \ {0} /\ Len(v) \in Nat /\ it < e
      /\ DOMAIN v = 1 .. Len(v) /\ it <= Len(v) /\ e <= Len(v) + 1
      /\ i \in Nat /\ j \in Nat /\ i > 0 /\ j > 0 /\ i <= Len(v) /\ j <= Len(v)
  BY Appended DEF TurnTo, end, LoopInv
<1>2. /\ \A k \in it .. e - 1 : v[k] = v[it]
      /\ e <= Len(v) => v[e] # v[it]
      /\ it > 1 => v[it - 1] # v[it]
  BY <1>1 DEF TurnTo, LoopInv, AtRunStart, end
<1>3. EqualRun(v, it, e - 1)
  BY <1>1, <1>2 DEF EqualRun
<1>4. ASSUME EqualRun(v, i, j), j < e, it <= j PROVE i = it /\ j = e - 1
  <2>1. i <= j /\ \A k \in i .. j : v[k] = v[i]
    BY <1>4 DEF EqualRun
  <2>2. ~(i < it)
    <3> SUFFICES ASSUME i < it PROVE FALSE
      OBVIOUS
    <3>1. it - 1 \in i .. j /\ it \in i .. j
      BY <1>1, <1>4
    <3>2. v[it - 1] = v[i] /\ v[it] = v[i]
      BY <2>1, <3>1
    <3> QED
      BY <1>1, <1>2, <3>2
  <2>3. ~(i > it)
    <3> SUFFICES ASSUME i > it PROVE FALSE
      OBVIOUS
    <3>1. i - 1 \in it .. e - 1 /\ i \in it .. e - 1 /\ i > 1
      BY <1>1, <1>4, <2>1
    <3>2. v[i - 1] = v[i]
      BY <1>2, <3>1
    <3> QED
      BY <1>4, <3>1, <3>2 DEF EqualRun
  <2>4. ~(j < e - 1)
    <3> SUFFICES ASSUME j < e - 1 PROVE FALSE
      OBVIOUS
    <3>1. j + 1 \in it .. e - 1 /\ i \in it .. e - 1 /\ j < Len(v)
      BY <1>1, <1>4, <2>1, <2>2
    <3>2. v[j + 1] = v[i]
      BY <1>2, <3>1
    <3> QED
      BY <1>4, <3>1, <3>2 DEF EqualRun
  <2> QED
    BY <1>1, <1>4, <2>2, <2>3, <2>4
<1> QED
  BY <1>1, <1>3, <1>4

LEMMA RunsKept ==
  ASSUME LoopInv, NEW e, TurnTo(e) PROVE (Range(res) = RunsBefore(it))'
<1> DEFINE n == Len(res)
           x == <<v[it], e - it>>
           R(p) == <<v[p[1]], p[2] - p[1] + 1>>
           P == (DOMAIN v) \X (DOMAIN v)
           q == <<it, e - 1>>
<1>1. /\ n \in Nat /\ e \in Nat /\ it \in Nat \ {0} /\ Len(v) \in Nat /\ it < e
      /\ DOMAIN res = 1 .. n /\ DOMAIN res' = 1 .. n + 1
      /\ \A i \in 1 .. n : res'[i] = res[i]
      /\ res'[n + 1] = x
      /\ DOMAIN v = 1 .. Len(v) /\ it <= Len(v) /\ e <= Len(v) + 1
  BY Appended DEF TurnTo, LoopInv, end
<1>2. v' = v /\ it' = e
  BY DEF TurnTo
<1>3. Range(res') = Range(res) \cup {x}
  <2> HIDE DEF x
  <2>1. 1 .. n + 1 = (1 .. n) \cup {n + 1}
    BY <1>1
  <2> HIDE DEF n
  <2> QED
    BY <1>1, <2>1 DEF Range
<1>4. q \in P /\ R(q) = x
  BY <1>1
<1>5. \A p \in P : (EqualRun(v, p[1], p[2]) /\ p[2] < e) <=>
                     ((EqualRun(v, p[1], p[2]) /\ p[2] < it) \/ p = q)
  <2> SUFFICES ASSUME NEW p \in P
               PROVE  (EqualRun(v, p[1], p[2]) /\ p[2] < e) <=>
                        ((EqualRun(v, p[1], p[2]) /\ p[2] < it) \/ p = q)
    OBVIOUS
  <2>1. p[1] \in DOMAIN v /\ p[2] \in DOMAIN v /\ (p = q <=> p[1] = it /\ p[2] = e - 1)
    OBVIOUS
  <2> HIDE DEF P, q
  <2> QED
    BY <2>1, OneRunMore
<1>6. RunsBefore(e) = RunsBefore(it) \cup {x}
  <2>1. \A f : RunsBefore(f) =
                 {R(p) : p \in {y \in P : EqualRun(v, y[1], y[2]) /\ y[2] < f}}
    BY DEF RunsBefore
  <2> HIDE DEF P, R, q, x
  <2> QED
    BY <1>4, <1>5, <2>1
<1>7. RunsBefore(it)' = RunsBefore(e)
  BY <1>2 DEF RunsBefore
<1> QED
  BY <1>3, <1>6, <1>7 DEF LoopInv

LEMMA TotalsKept ==
  ASSUME LoopInv, NEW e, TurnTo(e) PROVE TotalsBefore'
<1> DEFINE n == Len(res)
           x == <<v[it], e - it>>
           At(a, m) == {k \in 1 .. m - 1 : v[k] = a}
<1>1. /\ n \in Nat /\ e \in Nat /\ it \in Nat \ {0} /\ Len(v) \in Nat /\ it < e
      /\ DOMAIN res = 1 .. n /\ DOMAIN res' = 1 .. n + 1
      /\ \A i \in 1 .. n : res'[i] = res[i]
      /\ res'[n + 1] = x
      /\ DOMAIN v = 1 .. Len(v) /\ it <= Len(v) /\ e <= Len(v) + 1
  BY Appended DEF TurnTo, LoopInv, end
<1>2. /\ v' = v /\ it' = e
      /\ \A k \in it .. e - 1 : v[k] = v[it]
      /\ it > 1 => v[it - 1] # v[it]
  BY <1>1 DEF TurnTo, LoopInv, AtRunStart, end
<1> SUFFICES ASSUME Grouped, NEW i \in 1 .. n + 1
             PROVE  /\ \E k \in 1 .. e - 1 : v[k] = res'[i][1]
                    /\ \A j \in 1 .. n + 1 : i # j => res'[i][1] # res'[j][1]
                    /\ res'[i][2] = Cardinality(At(res'[i][1], e))
  <2> SUFFICES ASSUME Grouped', NEW i \in DOMAIN res'
               PROVE  /\ \E k \in 1 .. it' - 1 : v'[k] = res'[i][1]
                      /\ \A j \in DOMAIN res' : i # j => res'[i][1] # res'[j][1]
                      /\ res'[i][2] =
                           Cardinality({k \in 1 .. it' - 1 : v'[k] = res'[i][1]})
    BY DEF TotalsBefore
  <2>1. Grouped
    BY <1>2 DEF Grouped
  <2>2. {k \in 1 .. it' - 1 : v'[k] = res'[i][1]} = At(res'[i][1], e)
    BY <1>2
  <2> HIDE DEF At
  <2> QED
    BY <1>1, <1>2, <2>1, <2>2
<1>3. \A j \in 1 .. n :
        /\ \E k \in 1 .. it - 1 : v[k] = res[j][1]
        /\ \A l \in 1 .. n : j # l => res[j][1] # res[l][1]
        /\ res[j][2] = Cardinality(At(res[j][1], it))
  BY <1>1 DEF LoopInv, TotalsBefore
\* The value of the run has not occurred before.
<1>4. \A k \in 1 .. it - 1 : v[k] # v[it]
  <2> SUFFICES ASSUME NEW k \in 1 .. it - 1, v[k] = v[it] PROVE FALSE
    OBVIOUS
  <2>1. k \in DOMAIN v /\ it \in DOMAIN v /\ k < it /\ it - 1 \in k .. it /\ it > 1
    BY <1>1
  <2>2. v[it - 1] = v[k]
    BY <2>1 DEF Grouped
  <2> QED
    BY <1>2, <2>1, <2>2
<1>5. \A j \in 1 .. n : res[j][1] # v[it]
  <2>1. \A j \in 1 .. n : \E k \in 1 .. it - 1 : v[k] = res[j][1]
    BY <1>3
  <2> QED
    BY <1>4, <2>1
<1>6. CASE i \in 1 .. n
  <2>1. \E k \in 1 .. e - 1 : v[k] = res'[i][1]
    <3>1. PICK k \in 1 .. it - 1 : v[k] = res[i][1]
      BY <1>3, <1>6
    <3> QED
      BY <1>1, <1>6, <3>1
  <2>2. \A j \in 1 .. n + 1 : i # j => res'[i][1] # res'[j][1]
    <3>1. \A j \in 1 .. n + 1 : j \in 1 .. n \/ j = n + 1
      BY <1>1
    <3>2. \A j \in 1 .. n : i # j => res[i][1] # res[j][1]
      BY <1>3, <1>6
    <3>3. res'[n + 1][1] = v[it]
      BY <1>1
    <3> QED
      BY <1>1, <1>5, <1>6, <3>1, <3>2, <3>3
  <2>3. At(res[i][1], e) = At(res[i][1], it)
    <3>1. \A k \in 1 .. e - 1 : v[k] = res[i][1] => k \in 1 .. it - 1
      BY <1>1, <1>2, <1>5, <1>6
    <3> QED
      BY <1>1, <3>1
  <2> HIDE DEF At
  <2> QED
    BY <1>1, <1>3, <1>6, <2>1, <2>2, <2>3
<1>7. CASE i = n + 1
  <2>1. \E k \in 1 .. e - 1 : v[k] = v[it]
    BY <1>1
  <2>2. \A j \in 1 .. n + 1 : i # j => v[it] # res'[j][1]
    BY <1>1, <1>5, <1>7
  <2>3. Cardinality(At(v[it], e)) = e - it
    <3>1. At(v[it], e) = it .. e - 1
      BY <1>1, <1>2, <1>4
    <3>2. it \in Int /\ e - 1 \in Int /\ ~(it > e - 1) /\ e - 1 - it + 1 = e - it
      BY <1>1
    <3>3. Cardinality(it .. e - 1) = e - it
      BY <3>2, FS_Interval
    <3> QED
      BY <3>1, <3>3
  <2>4. res'[i][1] = v[it] /\ res'[i][2] = e - it
    BY <1>1, <1>7
  <2> HIDE DEF At
  <2> QED
    BY <2>1, <2>2, <2>3, <2>4
<1> QED
  BY <1>1, <1>6, <1>7

LEMMA LoopStep == LoopInv /\ [Next]_vars => LoopInv'
<1>1. CASE LoopInv /\ UNCHANGED vars
  <2>1. v' = v /\ it' = it /\ res' = res
    BY <1>1 DEF vars
  <2>2. AtRunStart' /\ LastRun' /\ PrefixCounted' /\ RunsBefore(it)' = RunsBefore(it)
    BY <1>1, <2>1 DEF LoopInv, AtRunStart, LastRun, PrefixCounted, RunsBefore, end
  <2>3. TotalsBefore'
    BY <1>1, <2>1 DEF LoopInv, TotalsBefore, Grouped
  <2> QED
    BY <1>1, <2>1, <2>2, <2>3 DEF LoopInv
<1>2. ASSUME LoopInv, Turn PROVE LoopInv'
  <2>1. PICK e : TurnTo(e)
    BY <1>2, TurnIs
  <2>2. v' \in Seq(Element) /\ res' \in Seq(Element \X (Nat \ {0}))
    BY <1>2, <2>1, Appended DEF TurnTo, LoopInv
  <2> QED
    BY <1>2, <2>1, <2>2, AtRunStartKept, PrefixCountedKept, RunsKept, TotalsKept
       DEF LoopInv
<1> QED
  BY <1>1, <1>2 DEF Next

LEMMA LoopInvariant == Spec => []LoopInv
BY LoopInitially, LoopStep, PTL DEF Spec

-----------------------------------------------------------------------------
(* Theorems.                                                               *)

\* Every turn consumes a whole run, and what has been counted so far is the
\* part of the vector before "it".
THEOREM EveryPrefixCounted == Spec => []PrefixCounted
BY LoopInvariant, PTL DEF LoopInv

\* What adjacent_count returns are the maximal runs of its argument: the
\* definition that module Searcher filters rows with.
THEOREM AllRunsReturned == Spec => []ReturnsRuns
<1>1. LoopInv => ReturnsRuns
  <2> SUFFICES ASSUME LoopInv, it = end PROVE Range(res) = Runs(v)
    BY DEF ReturnsRuns
  <2>1. \A j \in DOMAIN v : j < it
    BY DEF end, LoopInv
  <2>2. Range(res) = RunsBefore(it)
    BY DEF LoopInv
  <2> DEFINE P == (DOMAIN v) \X (DOMAIN v)
  <2>3. {x \in P : EqualRun(v, x[1], x[2]) /\ x[2] < it} = {x \in P : EqualRun(v, x[1], x[2])}
    <3>1. \A x \in P : x[2] < it
      BY <2>1
    <3> QED
      BY <3>1
  <2> QED
    BY <2>2, <2>3 DEF RunsBefore, Runs
<1> QED
  BY <1>1, LoopInvariant, PTL

\* Of a vector with equal elements adjacent, each element comes once, with the
\* number of its occurrences.
THEOREM GroupedTotals == Spec => []GroupedGivesTotals
<1>1. LoopInv => GroupedGivesTotals
  <2> SUFFICES ASSUME LoopInv, it = end, Grouped
               PROVE  /\ \A i, j \in DOMAIN res : i # j => res[i][1] # res[j][1]
                      /\ \A i \in DOMAIN res :
                           res[i][2] = Cardinality({k \in DOMAIN v : v[k] = res[i][1]})
    BY DEF GroupedGivesTotals
  <2>1. 1 .. it - 1 = DOMAIN v
    BY DEF end, LoopInv
  <2> QED
    BY <2>1 DEF LoopInv, TotalsBefore
<1> QED
  BY <1>1, LoopInvariant, PTL
=============================================================================
