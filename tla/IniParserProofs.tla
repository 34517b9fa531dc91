--------------------------- MODULE IniParserProofs ---------------------------
(***************************************************************************)
(* Safety of the parser (module IniParser): nothing that is read is lost,  *)
(* whatever the file; and a file whose lines are all in the grammar below  *)
(* is read as those lines say.                                             *)
(*                                                                         *)
(* The proof has two parts.  The string functions read every line of the   *)
(* grammar as what it says (LineMeant).  The inductive invariant IniIInv   *)
(* says what the properties say, but of the lines read so far, with the    *)
(* section that is open at the last of them.                               *)
(***************************************************************************)
EXTENDS IniParser, SequenceTheorems, FiniteSetTheorems, WellFoundedInduction, TLAPS

\* A line alone is read as what it says.
ReadAsMeant(l) ==
  /\ l.means = "section" => /\ get_line_type(l.line) = "section"
                            /\ Without(l.line, {"[", "]", " "}) = l.name
  /\ l.means = "field" => /\ get_line_type(l.line) = "field"
                          /\ split_line(l.line, "=") = "split"
                          /\ Key(l.line) = l.key /\ Value(l.line) = l.value
  /\ l.means = "nothing" => get_line_type(l.line) \notin {"section", "field"}
  /\ l.means = "malformed" => /\ get_line_type(l.line) = "field"
                              /\ split_line(l.line, "=") # "split"

\* The grammar of a configuration file, odd lines included: a line that begins
\* with a semicolon and has another one is no comment.  The name of a section
\* and the key of a field have no spaces, a value keeps those behind it.  Two
\* kinds of lines are in no part of the grammar: a value of nothing but
\* spaces, and a last "=" behind another one ("a=b=", which is read as "a=b").
Token == STRING

Equals == "="
Semicolon == ";"
Open == "["
Close == "]"
Space == " "
Dot == "."

Lacks(s, t) == \A i \in DOMAIN s : s[i] # t

NoBrackets(s) == Lacks(s, Open) /\ Lacks(s, Close)

NotComment(s) ==
  s[1] # Semicolon \/ \E i \in 2 .. Len(s) : s[i] = Semicolon

SectionLine(l) ==
  /\ Open \in Range(l.line) /\ Close \in Range(l.line) /\ Lacks(l.line, Equals)
  /\ NotComment(l.line)
  /\ l.name = Without(l.line, {Open, Close, Space})

\* A name, "=", spaces, a value, and perhaps a comment; without a value there
\* is a comment.
FieldLine(l) ==
  \E name, gap, value, comment \in Seq(Token) :
    /\ l.line = (name \o <<Equals>>) \o (gap \o (value \o comment))
    /\ NoBrackets(l.line) /\ NotComment(l.line)
    /\ Lacks(name, Equals) /\ Lacks(value, Equals) /\ Lacks(comment, Equals)
    /\ \A i \in DOMAIN gap : gap[i] = Space
    /\ IF value = <<>> THEN comment # <<>> ELSE value[1] # Space
    /\ Lacks(value, Semicolon)
    /\ comment # <<>> => comment[1] = Semicolon
    /\ l.key = Without(name, {Space}) /\ l.value = value

NothingLine(l) ==
  \/ l.line = <<>>
  \/ /\ l.line # <<>> /\ l.line[1] = Semicolon
     /\ \A i \in 2 .. Len(l.line) : l.line[i] # Semicolon
  \/ Lacks(l.line, Equals) /\ (Lacks(l.line, Open) \/ Lacks(l.line, Close))
  \/ ~Lacks(l.line, Equals) /\ ~NoBrackets(l.line)

\* Nothing behind the "=", or another "=" anywhere, the comment included.
MalformedLine(l) ==
  /\ NoBrackets(l.line) /\ NotComment(l.line)
  /\ \/ \E name \in Seq(Token) : l.line = name \o <<Equals>> /\ Lacks(name, Equals)
     \/ /\ \E i, j \in DOMAIN l.line : i # j /\ l.line[i] = Equals /\ l.line[j] = Equals
        /\ l.line[Len(l.line)] # Equals

WellFormed(l) ==
  /\ l.line \in Seq(Token)
  /\ l.means = "section" => SectionLine(l)
  /\ l.means = "field" => FieldLine(l)
  /\ l.means = "nothing" => NothingLine(l)
  /\ l.means = "malformed" => MalformedLine(l)

\* The assumptions of the theorems about files as a whole.
PlainPaths ==
  \A path \in Paths : \E section, field \in Seq(Token) :
    /\ path = (section \o <<Dot>>) \o field
    /\ Lacks(section, Dot) /\ Lacks(field, Dot) /\ field # <<>>
PlainLines == \A f \in Files : \A i \in DOMAIN f : WellFormed(f[i])
PlainNumbers == Space \notin DOMAIN Number

\* Of the first n lines, those that assign the field.
AssigningBy(n, section, field) ==
  {i \in 1 .. n : /\ file[i].means = "field"
                  /\ file[i].key = field /\ SectionAt(i) = section}

HasField(section, field) ==
  section \in DOMAIN data /\ field \in DOMAIN data[section]

IniIInv ==
  /\ file \in Files /\ line_number \in 0 .. Len(file)
  /\ current_section = SectionAt(line_number)
  /\ \A s, f : LET lines == AssigningBy(line_number, s, f) IN
       /\ HasField(s, f) <=> lines # {}
       /\ lines # {} => data[s][f] = file[Max(lines)].value
  /\ status = "loaded" => line_number = Len(file)
  /\ FailsOnMalformed

-----------------------------------------------------------------------------
(* Strings.                                                                *)

\* A set of numbers that is not empty has a least element.
LEMMA Least ==
  ASSUME NEW S, S \subseteq Nat, S # {}
  PROVE  \E x \in S : \A y \in S : x <= y
<1> DEFINE R == {ss \in Nat \X Nat : ss[1] < ss[2]}
<1>1. IsWellFoundedOn(R, Nat)
  BY NatLessThanWellFounded DEF OpToRel
<1>2. PICK x \in S : \A y \in S : <<y, x>> \notin R
  <2> HIDE DEF R
  <2> QED BY <1>1, WFMin
<1>3. \A y \in S : ~ (y < x)
  BY <1>2
<1> QED
  BY <1>2, <1>3

\* Find gives the first place, or 0.
LEMMA FindIs ==
  ASSUME NEW T, NEW s \in Seq(T), NEW t
  PROVE  \/ Find(s, t) = 0 /\ Lacks(s, t)
         \/ /\ Find(s, t) \in DOMAIN s /\ s[Find(s, t)] = t
            /\ \A i \in 1 .. Find(s, t) - 1 : s[i] # t
<1> DEFINE I == {i \in 1 .. Len(s) : s[i] = t}
<1>1. Find(s, t) = IF I # {} THEN Min(I) ELSE 0
  BY DEF Find, SelectInSeq
<1>2. CASE I = {}
  BY <1>1, <1>2 DEF Lacks
<1>3. CASE I # {}
  <2>1. I \subseteq Nat
    OBVIOUS
  <2> HIDE DEF I
  <2>2. \E x \in I : \A y \in I : x <= y
    BY <1>3, <2>1, Least
  <2>3. PICK m : m = Min(I) /\ m \in I /\ \A y \in I : m <= y
    BY <2>2 DEF Min
  <2>4. Find(s, t) = m
    BY <1>1, <1>3, <2>3
  <2>5. m \in 1 .. Len(s) /\ s[m] = t /\ Len(s) \in Nat
    BY <2>3 DEF I
  <2>6. ASSUME NEW i \in 1 .. m - 1 PROVE s[i] # t
    <3>1. i \in 1 .. Len(s) /\ ~(m <= i)
      BY <2>5
    <3>2. i \notin I
      BY <2>3, <3>1
    <3> QED
      BY <3>1, <3>2 DEF I
  <2> QED
    BY <2>4, <2>5, <2>6
<1> QED
  BY <1>2, <1>3

LEMMA FindFirst ==
  ASSUME NEW T, NEW s \in Seq(T), NEW t, NEW k \in DOMAIN s,
         s[k] = t, \A i \in 1 .. k - 1 : s[i] # t
  PROVE  Find(s, t) = k
<1>1. ~Lacks(s, t)
  BY DEF Lacks
<1> DEFINE f == Find(s, t)
<1>2. f \in DOMAIN s /\ s[f] = t /\ \A i \in 1 .. f - 1 : s[i] # t
  BY <1>1, FindIs
<1> HIDE DEF f
<1>3. ~(f < k) /\ ~(k < f)
  BY <1>2
<1> QED
  BY <1>2, <1>3 DEF f

LEMMA FindNone ==
  ASSUME NEW T, NEW s \in Seq(T), NEW t PROVE Find(s, t) = 0 <=> Lacks(s, t)
<1>1. Find(s, t) \in DOMAIN s => Find(s, t) # 0
  OBVIOUS
<1> QED
  BY <1>1, FindIs DEF Lacks

\* Two strings with a delimiter between them.
LEMMA Joined ==
  ASSUME NEW T, NEW a \in Seq(T), NEW t \in T, NEW b \in Seq(T)
  PROVE  LET s == (a \o <<t>>) \o b IN
         /\ s \in Seq(T) /\ Len(s) = Len(a) + 1 + Len(b) /\ DOMAIN s = 1 .. Len(s)
         /\ \A i \in 1 .. Len(a) : s[i] = a[i]
         /\ s[Len(a) + 1] = t
         /\ \A i \in 1 .. Len(b) : s[Len(a) + 1 + i] = b[i]
<1> DEFINE c == a \o <<t>>
<1>1. /\ c \in Seq(T) /\ Len(c) = Len(a) + 1 /\ Len(a) \in Nat /\ c[Len(a) + 1] = t
      /\ \A i \in 1 .. Len(a) : c[i] = a[i]
  OBVIOUS
<1> HIDE DEF c
<1>2. /\ c \o b \in Seq(T) /\ Len(c \o b) = Len(c) + Len(b) /\ Len(b) \in Nat
      /\ \A i \in 1 .. Len(c) : (c \o b)[i] = c[i]
      /\ \A i \in 1 .. Len(b) : (c \o b)[Len(c) + i] = b[i]
  BY <1>1
<1>3. DOMAIN (c \o b) = 1 .. Len(c \o b)
  BY <1>2
<1> QED
  BY <1>1, <1>2, <1>3 DEF c

LEMMA JoinedPlaces ==
  ASSUME NEW T, NEW a \in Seq(T), NEW t \in T, NEW b \in Seq(T), NEW i,
         NEW s, s = (a \o <<t>>) \o b, i \in DOMAIN s
  PROVE  \/ i \in DOMAIN a \/ i = Len(a) + 1
         \/ i - (Len(a) + 1) \in DOMAIN b /\ i = Len(a) + 1 + (i - (Len(a) + 1))
<1>1. Len(s) = Len(a) + 1 + Len(b) /\ DOMAIN s = 1 .. Len(s)
  BY Joined
<1>2. DOMAIN a = 1 .. Len(a) /\ DOMAIN b = 1 .. Len(b) /\ Len(a) \in Nat /\ Len(b) \in Nat
  OBVIOUS
<1> QED
  BY <1>1, <1>2

\* It is cut at the delimiter.
LEMMA CutJoined ==
  ASSUME NEW T, NEW a \in Seq(T), NEW t \in T, NEW b \in Seq(T), Lacks(a, t)
  PROVE  LET s == (a \o <<t>>) \o b IN
         Find(s, t) = Len(a) + 1 /\ UpTo(s, t) = a /\ After(s, t) = b
<1>1. PICK s : s = (a \o <<t>>) \o b
  OBVIOUS
<1>2. /\ s \in Seq(T) /\ Len(s) = Len(a) + 1 + Len(b) /\ DOMAIN s = 1 .. Len(s)
      /\ \A i \in 1 .. Len(a) : s[i] = a[i]
      /\ s[Len(a) + 1] = t
      /\ \A i \in 1 .. Len(b) : s[Len(a) + 1 + i] = b[i]
  BY <1>1, Joined
<1>3. Len(a) \in Nat /\ Len(b) \in Nat /\ DOMAIN a = 1 .. Len(a)
  OBVIOUS
<1>4. Find(s, t) = Len(a) + 1
  <2>1. PICK k : k = Len(a) + 1
    OBVIOUS
  <2>2. k \in DOMAIN s /\ s[k] = t
    BY <1>2, <1>3, <2>1
  <2>3. ASSUME NEW i \in 1 .. k - 1 PROVE s[i] # t
    <3>1. i \in 1 .. Len(a)
      BY <1>3, <2>1
    <3> QED
      BY <1>2, <1>3, <3>1 DEF Lacks
  <2> QED
    BY <1>2, <2>1, <2>2, <2>3, FindFirst
<1>5. SubSeq(s, 1, Len(a)) = a
  BY <1>2, <1>3, SeqEqual, SubSeqProperties
<1>6. SubSeq(s, Len(a) + 2, Len(s)) = b
  <2> DEFINE r == SubSeq(s, Len(a) + 2, Len(s))
  <2>1. \A i \in Len(a) + 2 .. Len(s) : s[i] \in T
    BY <1>2, <1>3
  <2>2. r \in Seq(T) /\ Len(r) = Len(b) /\ \A i \in 1 .. Len(b) : r[i] = s[Len(a) + 2 + i - 1]
    BY <1>2, <1>3, <2>1, SubSeqProperties
  <2> HIDE DEF r
  <2>3. \A i \in 1 .. Len(b) : r[i] = b[i]
    BY <1>2, <1>3, <2>2
  <2>4. r = b
    BY <2>2, <2>3, SeqEqual
  <2> QED
    BY <2>4 DEF r
<1>7. UpTo(s, t) = a /\ After(s, t) = b
  <2>1. PICK k : k = Find(s, t)
    OBVIOUS
  <2>2. k # 0 /\ k - 1 = Len(a) /\ k + 1 = Len(a) + 2
    BY <1>3, <1>4, <2>1
  <2>3. UpTo(s, t) = SubSeq(s, 1, k - 1) /\ After(s, t) = SubSeq(s, k + 1, Len(s))
    BY <2>1, <2>2 DEF UpTo, After
  <2> QED
    BY <1>5, <1>6, <2>2, <2>3
<1> QED
  BY <1>1, <1>4, <1>7

LEMMA UpToAll ==
  ASSUME NEW T, NEW s \in Seq(T), NEW t, Lacks(s, t)
  PROVE  UpTo(s, t) = s
BY FindNone DEF UpTo

\* What follows the delimiter does not matter.
LEMMA UpToFirst ==
  ASSUME NEW T, NEW a \in Seq(T), NEW b \in Seq(T), NEW t,
         Lacks(a, t), b = <<>> \/ b[1] = t
  PROVE  UpTo(a \o b, t) = a
<1>1. PICK s : s = a \o b
  OBVIOUS
<1>2. /\ s \in Seq(T) /\ Len(s) = Len(a) + Len(b) /\ DOMAIN s = 1 .. Len(s)
      /\ Len(a) \in Nat /\ Len(b) \in Nat /\ DOMAIN a = 1 .. Len(a)
      /\ \A i \in 1 .. Len(a) : s[i] = a[i]
      /\ \A i \in 1 .. Len(b) : s[Len(a) + i] = b[i]
  BY <1>1
<1>3. CASE b = <<>>
  <2>1. a \o b = a
    BY <1>3
  <2> QED
    BY <2>1, UpToAll
<1>4. CASE b # <<>>
  <2>1. Len(b) >= 1 /\ b[1] = t
    BY <1>4, <1>2
  <2>2. s[Len(a) + 1] = t /\ Len(a) + 1 \in DOMAIN s
    BY <1>2, <2>1
  <2>3. PICK k : k = Len(a) + 1
    OBVIOUS
  <2>4. ASSUME NEW i \in 1 .. k - 1 PROVE s[i] # t
    <3>1. i \in 1 .. Len(a)
      BY <1>2, <2>3
    <3> QED
      BY <1>2, <3>1 DEF Lacks
  <2>5. Find(s, t) = k
    <3>1. k \in DOMAIN s /\ s[k] = t
      BY <2>2, <2>3
    <3> QED
      BY <1>2, <2>4, <3>1, FindFirst
  <2>6. SubSeq(s, 1, Len(a)) = a
    BY <1>2, SeqEqual, SubSeqProperties
  <2>7. k # 0 /\ k - 1 = Len(a)
    BY <1>2, <2>3
  <2>8. UpTo(s, t) = SubSeq(s, 1, k - 1)
    BY <2>5, <2>7 DEF UpTo
  <2> QED
    BY <1>1, <2>6, <2>7, <2>8
<1> QED
  BY <1>3, <1>4

LEMMA TimesFinite ==
  ASSUME NEW T, NEW s \in Seq(T), NEW t
  PROVE  IsFiniteSet({i \in DOMAIN s : s[i] = t}) /\ Times(s, t) \in Nat
<1> DEFINE I == {i \in DOMAIN s : s[i] = t}
<1>1. IsFiniteSet(1 .. Len(s)) /\ I \subseteq 1 .. Len(s)
  BY FS_Interval
<1> HIDE DEF I
<1>2. IsFiniteSet(I) /\ Cardinality(I) \in Nat
  BY <1>1, FS_Subset, FS_CardinalityType
<1> QED
  BY <1>2 DEF I, Times

LEMMA TimesOnce ==
  ASSUME NEW T, NEW s \in Seq(T), NEW t, NEW k \in DOMAIN s,
         s[k] = t, \A i \in DOMAIN s : i # k => s[i] # t
  PROVE  Times(s, t) = 1
<1>1. {i \in DOMAIN s : s[i] = t} = {k}
  OBVIOUS
<1> QED
  BY <1>1, FS_Singleton DEF Times

LEMMA TimesMore ==
  ASSUME NEW T, NEW s \in Seq(T), NEW t, NEW i \in DOMAIN s, NEW j \in DOMAIN s,
         i # j, s[i] = t, s[j] = t
  PROVE  Times(s, t) >= 2
<1> DEFINE I == {k \in DOMAIN s : s[k] = t}
<1>1. {i, j} \subseteq I
  OBVIOUS
<1>2. IsFiniteSet(I)
  BY TimesFinite
<1> HIDE DEF I
<1>3. Cardinality({i, j}) <= Cardinality(I) /\ Cardinality(I) \in Nat
  BY <1>1, <1>2, FS_Subset, FS_CardinalityType
<1>4. Cardinality({i, j}) = 2
  <2>1. IsFiniteSet({i}) /\ Cardinality({i}) = 1
    BY FS_Singleton
  <2>2. {i, j} = {i} \cup {j} /\ j \notin {i}
    OBVIOUS
  <2>3. Cardinality({i} \cup {j}) = Cardinality({i}) + 1
    BY <2>1, <2>2, FS_AddElement
  <2>4. Cardinality({i, j}) = 1 + 1
    BY <2>1, <2>2, <2>3, Zenon
  <2> QED
    BY <2>4
<1> QED
  BY <1>3, <1>4 DEF I, Times

\* Two strings without the delimiter, the second of which is not empty.
LEMMA SplitJoined ==
  ASSUME NEW T, NEW a \in Seq(T), NEW t \in T, NEW b \in Seq(T),
         Lacks(a, t), Lacks(b, t), b # <<>>
  PROVE  LET s == (a \o <<t>>) \o b IN
         /\ split_line(s, t) = "split" /\ First(s, t) = a /\ Second(s, t) = b
         /\ ~Lacks(s, t)
<1>1. PICK s : s = (a \o <<t>>) \o b
  OBVIOUS
<1>2. /\ s \in Seq(T) /\ Len(s) = Len(a) + 1 + Len(b) /\ DOMAIN s = 1 .. Len(s)
      /\ \A i \in 1 .. Len(a) : s[i] = a[i]
      /\ s[Len(a) + 1] = t
      /\ \A i \in 1 .. Len(b) : s[Len(a) + 1 + i] = b[i]
  BY <1>1, Joined
<1>3. /\ Len(a) \in Nat /\ Len(b) \in Nat /\ Len(b) > 0
      /\ DOMAIN a = 1 .. Len(a) /\ DOMAIN b = 1 .. Len(b)
  OBVIOUS
<1>4. \A i \in DOMAIN s : i # Len(a) + 1 => s[i] # t
  <2> SUFFICES ASSUME NEW i \in DOMAIN s, i # Len(a) + 1 PROVE s[i] # t
    OBVIOUS
  <2>1. CASE i \in DOMAIN a
    BY <1>2, <1>3, <2>1 DEF Lacks
  <2>2. CASE i - (Len(a) + 1) \in DOMAIN b
    BY <1>2, <1>3, <2>2 DEF Lacks
  <2> QED
    BY <1>1, <2>1, <2>2, JoinedPlaces
<1>5. Times(s, t) = 1
  <2>1. Len(a) + 1 \in DOMAIN s
    BY <1>2, <1>3
  <2> QED
    BY <1>2, <1>4, <2>1, TimesOnce
<1>6. s # <<>> /\ Last(s) # t
  BY <1>2, <1>3, <1>4 DEF Last
<1>7. split_line(s, t) = "split"
  BY <1>5, <1>6 DEF split_line, Segments
<1>8. UpTo(s, t) = a /\ After(s, t) = b
  BY <1>1, CutJoined
<1>9. UpTo(b, t) = b
  BY UpToAll
<1>10. ~Lacks(s, t)
  BY <1>2, <1>3 DEF Lacks
<1> QED
  BY <1>1, <1>7, <1>8, <1>9, <1>10 DEF First, Second

\* The delimiter need not be a token otherwise.
LEMMA SplitJoinedBy ==
  ASSUME NEW T, NEW a \in Seq(T), NEW t, NEW b \in Seq(T),
         Lacks(a, t), Lacks(b, t), b # <<>>
  PROVE  LET s == (a \o <<t>>) \o b IN
         /\ split_line(s, t) = "split" /\ First(s, t) = a /\ Second(s, t) = b
         /\ ~Lacks(s, t)
<1>1. PICK U : U = T \cup {t}
  OBVIOUS
<1>2. t \in U /\ a \in Seq(U) /\ b \in Seq(U)
  BY <1>1
<1> QED
  BY <1>2, SplitJoined

LEMMA Concatenated ==
  ASSUME NEW T, NEW a \in Seq(T), NEW b \in Seq(T), NEW s, s = a \o b
  PROVE  /\ s \in Seq(T) /\ Len(s) = Len(a) + Len(b) /\ DOMAIN s = 1 .. Len(s)
         /\ Len(a) \in Nat /\ Len(b) \in Nat
         /\ DOMAIN a = 1 .. Len(a) /\ DOMAIN b = 1 .. Len(b)
         /\ \A i \in 1 .. Len(a) : s[i] = a[i]
         /\ \A i \in 1 .. Len(b) : s[Len(a) + i] = b[i]
OBVIOUS

LEMMA BothLack ==
  ASSUME NEW T, NEW a \in Seq(T), NEW b \in Seq(T), NEW t,
         Lacks(a, t), Lacks(b, t)
  PROVE  Lacks(a \o b, t)
<1>1. PICK s : s = a \o b
  OBVIOUS
<1>2. /\ s \in Seq(T) /\ Len(s) = Len(a) + Len(b) /\ DOMAIN s = 1 .. Len(s)
      /\ Len(a) \in Nat /\ Len(b) \in Nat
      /\ DOMAIN a = 1 .. Len(a) /\ DOMAIN b = 1 .. Len(b)
      /\ \A i \in 1 .. Len(a) : s[i] = a[i]
      /\ \A i \in 1 .. Len(b) : s[Len(a) + i] = b[i]
  BY <1>1, Concatenated
<1>3. ASSUME NEW i \in DOMAIN s PROVE s[i] # t
  <2>1. CASE i \in DOMAIN a
    BY <1>2, <2>1 DEF Lacks
  <2>2. CASE i \notin DOMAIN a
    <3>1. PICK j : j = i - Len(a)
      OBVIOUS
    <3>2. j \in DOMAIN b /\ i = Len(a) + j
      BY <1>2, <2>2, <3>1
    <3> QED
      BY <1>2, <3>2 DEF Lacks
  <2> QED
    BY <2>1, <2>2
<1> QED
  BY <1>1, <1>3 DEF Lacks

\* The first place with something else.
FirstNot(s, t) == SelectInSeq(s, LAMBDA x : x # t)

LEMMA FirstOther ==
  ASSUME NEW T, NEW a \in Seq(T), NEW b \in Seq(T), NEW t,
         \A i \in DOMAIN a : a[i] = t, b # <<>>, b[1] # t
  PROVE  LET s == a \o b
             start == FirstNot(s, t) IN
         start # 0 /\ SubSeq(s, start, Len(s)) = b
<1>1. PICK s : s = a \o b
  OBVIOUS
<1>2. /\ s \in Seq(T) /\ Len(s) = Len(a) + Len(b) /\ DOMAIN s = 1 .. Len(s)
      /\ Len(a) \in Nat /\ Len(b) \in Nat
      /\ DOMAIN a = 1 .. Len(a) /\ DOMAIN b = 1 .. Len(b)
      /\ \A i \in 1 .. Len(a) : s[i] = a[i]
      /\ \A i \in 1 .. Len(b) : s[Len(a) + i] = b[i]
  BY <1>1, Concatenated
<1>3. Len(b) >= 1
  BY <1>2
<1>4. PICK k : k = Len(a) + 1
  OBVIOUS
<1> DEFINE I == {i \in 1 .. Len(s) : s[i] # t}
<1>5. k \in I /\ \A i \in I : k <= i
  <2>1. k \in 1 .. Len(s) /\ s[k] # t /\ k \in Nat
    BY <1>2, <1>3, <1>4
  <2>2. ASSUME NEW i \in 1 .. Len(s), s[i] # t PROVE k <= i
    <3>1. i \notin 1 .. Len(a)
      BY <1>2, <2>2
    <3> QED
      BY <1>2, <1>4, <3>1
  <2> QED
    BY <2>1, <2>2
<1>6. Min(I) = k
  <2>1. I \subseteq Nat
    BY <1>2
  <2> HIDE DEF I
  <2>2. \A x \in I : (\A y \in I : x <= y) => x = k
    BY <1>5, <2>1
  <2> QED
    BY <1>5, <2>2 DEF Min
<1>7. FirstNot(s, t) = k
  BY <1>5, <1>6 DEF SelectInSeq, FirstNot
<1>8. SubSeq(s, k, Len(s)) = b
  <2>1. PICK r : r = SubSeq(s, k, Len(s))
    OBVIOUS
  <2>2. k \in 1 .. Len(s) + 1 /\ Len(s) \in Nat /\ Len(s) - k + 1 = Len(b)
    BY <1>2, <1>4
  <2>3. \A i \in k .. Len(s) : s[i] \in T
    BY <1>2, <2>2
  <2>4. r \in Seq(T) /\ Len(r) = Len(b) /\ \A i \in 1 .. Len(b) : r[i] = s[k + i - 1]
    BY <1>2, <2>1, <2>2, <2>3, SubSeqProperties
  <2>5. ASSUME NEW i \in 1 .. Len(b) PROVE r[i] = b[i]
    <3>1. k + i - 1 = Len(a) + i
      BY <1>2, <1>4
    <3> QED
      BY <1>2, <2>4, <3>1
  <2> QED
    BY <2>1, <2>4, <2>5, SeqEqual
<1>9. k # 0
  BY <1>2, <1>4
<1> QED
  BY <1>1, <1>7, <1>8, <1>9

LEMMA SpacesSkipped ==
  ASSUME NEW T, NEW a \in Seq(T), NEW b \in Seq(T),
         \A i \in DOMAIN a : a[i] = Space, b # <<>>, b[1] # Space
  PROVE  SkipSpaces(a \o b) = b
<1>1. PICK s : s = a \o b
  OBVIOUS
<1>2. FirstNot(s, Space) # 0 /\ SubSeq(s, FirstNot(s, Space), Len(s)) = b
  BY <1>1, FirstOther
<1>3. SkipSpaces(s) = IF FirstNot(s, Space) = 0 THEN s
                      ELSE SubSeq(s, FirstNot(s, Space), Len(s))
  BY DEF SkipSpaces, FirstNot, Space
<1> QED
  BY <1>1, <1>2, <1>3

-----------------------------------------------------------------------------
(* Every line alone is read as what it says.                               *)

LEMMA LineType ==
  ASSUME NEW line
  PROVE  get_line_type(line) =
           LET Has(t) == Find(line, t) # 0
               Brackets == Has(Open) /\ Has(Close)
               NoBracket == ~Has(Open) /\ ~Has(Close)
           IN  IF Find(line, Semicolon) = 1 /\ Times(line, Semicolon) = 1 THEN "comment"
               ELSE IF line = <<>> THEN "empty"
               ELSE IF Brackets /\ ~Has(Equals) THEN "section"
               ELSE IF NoBracket /\ Has(Equals) THEN "field"
               ELSE "unknown"
BY DEF get_line_type, Open, Close, Equals, Semicolon

LEMMA NoComment ==
  ASSUME NEW line \in Seq(Token), line # <<>>, NotComment(line)
  PROVE  get_line_type(line) # "comment"
<1>1. CASE line[1] # Semicolon
  <2>1. Find(line, Semicolon) # 1
    BY <1>1, FindIs
  <2> QED
    BY <2>1, LineType
<1>2. CASE line[1] = Semicolon
  <2>1. PICK i \in 2 .. Len(line) : line[i] = Semicolon
    BY <1>2 DEF NotComment
  <2>2. 1 \in DOMAIN line /\ i \in DOMAIN line /\ i # 1
    OBVIOUS
  <2>3. Times(line, Semicolon) >= 2
    BY <1>2, <2>1, <2>2, TimesMore
  <2>4. Times(line, Semicolon) # 1
    BY <2>3
  <2> QED
    BY <2>4, LineType
<1> QED
  BY <1>1, <1>2

LEMMA SectionType ==
  ASSUME NEW line \in Seq(Token), NotComment(line),
         ~Lacks(line, Open), ~Lacks(line, Close), Lacks(line, Equals)
  PROVE  get_line_type(line) = "section"
<1>1. line # <<>>
  BY DEF Lacks
<1>2. Find(line, Open) # 0 /\ Find(line, Close) # 0 /\ Find(line, Equals) = 0
  BY FindNone
<1>3. get_line_type(line) # "comment"
  BY <1>1, NoComment
<1> QED
  BY <1>1, <1>2, <1>3, LineType

LEMMA FieldType ==
  ASSUME NEW line \in Seq(Token), NotComment(line),
         NoBrackets(line), ~Lacks(line, Equals)
  PROVE  get_line_type(line) = "field"
<1>1. line # <<>>
  BY DEF Lacks
<1>2. Find(line, Open) = 0 /\ Find(line, Close) = 0 /\ Find(line, Equals) # 0
  BY FindNone DEF NoBrackets
<1>3. get_line_type(line) # "comment"
  BY <1>1, NoComment
<1> QED
  BY <1>1, <1>2, <1>3, LineType

LEMMA SectionRead ==
  ASSUME NEW l, l.line \in Seq(Token), SectionLine(l)
  PROVE  /\ get_line_type(l.line) = "section"
         /\ Without(l.line, {Open, Close, Space}) = l.name
<1>1. ~Lacks(l.line, Open) /\ ~Lacks(l.line, Close)
  BY DEF SectionLine, Lacks, Range
<1>2. get_line_type(l.line) = "section"
  BY <1>1, SectionType DEF SectionLine
<1> QED
  BY <1>2 DEF SectionLine

LEMMA AssignmentRead ==
  ASSUME NEW l, l.line \in Seq(Token), FieldLine(l)
  PROVE  /\ get_line_type(l.line) = "field" /\ split_line(l.line, Equals) = "split"
         /\ Key(l.line) = l.key /\ Value(l.line) = l.value
<1>1. PICK name, gap, value, comment \in Seq(Token) :
        /\ l.line = (name \o <<Equals>>) \o (gap \o (value \o comment))
        /\ NoBrackets(l.line) /\ NotComment(l.line)
        /\ Lacks(name, Equals) /\ Lacks(value, Equals) /\ Lacks(comment, Equals)
        /\ \A i \in DOMAIN gap : gap[i] = Space
        /\ IF value = <<>> THEN comment # <<>> ELSE value[1] # Space
        /\ Lacks(value, Semicolon)
        /\ comment # <<>> => comment[1] = Semicolon
        /\ l.key = Without(name, {Space}) /\ l.value = value
  BY DEF FieldLine
<1>2. PICK said : said = value \o comment
  OBVIOUS
<1>3. said \in Seq(Token) /\ said # <<>> /\ said[1] # Space /\ Lacks(said, Equals)
  <2>1. /\ said \in Seq(Token) /\ Len(said) = Len(value) + Len(comment)
        /\ Len(value) \in Nat /\ Len(comment) \in Nat
        /\ \A i \in 1 .. Len(value) : said[i] = value[i]
        /\ \A i \in 1 .. Len(comment) : said[Len(value) + i] = comment[i]
    BY <1>2, Concatenated
  <2>2. Lacks(said, Equals)
    BY <1>1, <1>2, BothLack
  <2>3. CASE value # <<>>
    <3>1. Len(value) >= 1
      BY <2>1, <2>3
    <3> QED
      BY <1>1, <2>1, <2>2, <2>3, <3>1
  <2>4. CASE value = <<>>
    <3>1. Len(value) = 0 /\ Len(comment) >= 1
      BY <1>1, <2>1, <2>4
    <3>2. comment[1] # Space
      BY <1>1, <2>4 DEF Semicolon, Space
    <3> QED
      BY <2>1, <2>2, <3>1, <3>2
  <2> QED
    BY <2>3, <2>4
<1>4. PICK rest : rest = gap \o said
  OBVIOUS
<1>5. rest \in Seq(Token) /\ rest # <<>> /\ Lacks(rest, Equals)
  <2>1. /\ rest \in Seq(Token) /\ Len(rest) = Len(gap) + Len(said)
        /\ Len(gap) \in Nat /\ Len(said) \in Nat
    BY <1>3, <1>4, Concatenated
  <2>2. Len(said) >= 1
    BY <1>3, <2>1
  <2>3. Lacks(gap, Equals)
    <3>1. Space # Equals
      BY DEF Space, Equals
    <3> QED
      BY <1>1, <3>1 DEF Lacks
  <2> QED
    BY <1>3, <1>4, <2>1, <2>2, <2>3, BothLack
<1>6. l.line = (name \o <<Equals>>) \o rest
  BY <1>1, <1>2, <1>4
<1>7. /\ split_line(l.line, Equals) = "split"
      /\ First(l.line, Equals) = name /\ Second(l.line, Equals) = rest
      /\ ~Lacks(l.line, Equals)
  <2>1. name \in Seq(Token) /\ Lacks(name, Equals)
    BY <1>1
  <2> HIDE <1>1
  <2> QED
    BY <1>5, <1>6, <2>1, SplitJoinedBy
<1>8. SkipSpaces(rest) = said
  BY <1>1, <1>3, <1>4, SpacesSkipped
<1>9. UpTo(said, Semicolon) = value
  BY <1>1, <1>2, UpToFirst
<1>10. get_line_type(l.line) = "field"
  BY <1>1, <1>7, FieldType
<1> QED
  BY <1>1, <1>7, <1>8, <1>9, <1>10 DEF Key, Value, Equals, Space, Semicolon

LEMMA NothingRead ==
  ASSUME NEW l, l.line \in Seq(Token), NothingLine(l)
  PROVE  get_line_type(l.line) \notin {"section", "field"}
<1>1. CASE l.line = <<>>
  <2>1. Lacks(l.line, Semicolon)
    BY <1>1 DEF Lacks
  <2>2. Find(l.line, Semicolon) = 0
    BY <2>1, FindNone
  <2> QED
    BY <1>1, <2>2, LineType
<1>2. CASE /\ l.line # <<>> /\ l.line[1] = Semicolon
           /\ \A i \in 2 .. Len(l.line) : l.line[i] # Semicolon
  <2>1. /\ 1 \in DOMAIN l.line /\ \A i \in 1 .. 1 - 1 : l.line[i] # Semicolon
        /\ \A i \in DOMAIN l.line : i # 1 => l.line[i] # Semicolon
    BY <1>2
  <2>2. Find(l.line, Semicolon) = 1 /\ Times(l.line, Semicolon) = 1
    BY <1>2, <2>1, FindFirst, TimesOnce
  <2> QED
    BY <2>2, LineType
<1>3. CASE Lacks(l.line, Equals) /\ (Lacks(l.line, Open) \/ Lacks(l.line, Close))
  <2>1. Find(l.line, Equals) = 0 /\ (Find(l.line, Open) = 0 \/ Find(l.line, Close) = 0)
    BY <1>3, FindNone
  <2> QED
    BY <2>1, LineType
<1>4. CASE ~Lacks(l.line, Equals) /\ ~NoBrackets(l.line)
  <2>1. Find(l.line, Equals) # 0 /\ (Find(l.line, Open) # 0 \/ Find(l.line, Close) # 0)
    BY <1>4, FindNone DEF NoBrackets
  <2> QED
    BY <2>1, LineType
<1> QED
  BY <1>1, <1>2, <1>3, <1>4 DEF NothingLine

LEMMA MalformedRead ==
  ASSUME NEW l, l.line \in Seq(Token), MalformedLine(l)
  PROVE  get_line_type(l.line) = "field" /\ split_line(l.line, Equals) # "split"
<1>1. CASE \E name \in Seq(Token) : l.line = name \o <<Equals>> /\ Lacks(name, Equals)
  <2>1. PICK name \in Seq(Token) : l.line = name \o <<Equals>> /\ Lacks(name, Equals)
    BY <1>1
  <2>2. PICK k : k = Len(name) + 1
    OBVIOUS
  <2>3. /\ Len(l.line) = k /\ l.line[k] = Equals /\ k \in DOMAIN l.line
        /\ \A i \in DOMAIN l.line : i # k => l.line[i] # Equals
    <3>1. /\ Len(l.line) = k /\ l.line[k] = Equals /\ k - 1 = Len(name) /\ k \in Nat
          /\ \A i \in 1 .. Len(name) : l.line[i] = name[i]
      BY <2>1, <2>2
    <3>2. \A i \in 1 .. k : i # k => i \in 1 .. Len(name)
      BY <2>2, <3>1
    <3> QED
      BY <2>1, <2>2, <3>1, <3>2 DEF Lacks
  <2>4. Times(l.line, Equals) = 1
    BY <2>3, TimesOnce
  <2>5. Last(l.line) = Equals /\ ~Lacks(l.line, Equals)
    BY <2>3 DEF Last, Lacks
  <2>6. split_line(l.line, Equals) # "split"
    BY <2>4, <2>5 DEF split_line, Segments
  <2> QED
    BY <2>5, <2>6, FieldType DEF MalformedLine
<1>2. CASE /\ \E i, j \in DOMAIN l.line : i # j /\ l.line[i] = Equals /\ l.line[j] = Equals
           /\ l.line[Len(l.line)] # Equals
  <2>1. Times(l.line, Equals) >= 2 /\ Times(l.line, Equals) \in Nat
    BY <1>2, TimesMore, TimesFinite
  <2>2. l.line # <<>> /\ Last(l.line) # Equals /\ ~Lacks(l.line, Equals)
    BY <1>2 DEF Last, Lacks
  <2>3. split_line(l.line, Equals) # "split"
    BY <2>1, <2>2 DEF split_line, Segments
  <2> QED
    BY <2>2, <2>3, FieldType DEF MalformedLine
<1> QED
  BY <1>1, <1>2 DEF MalformedLine

LEMMA LineMeant ==
  ASSUME NEW l, WellFormed(l) PROVE ReadAsMeant(l)
BY SectionRead, AssignmentRead, NothingRead, MalformedRead
   DEF WellFormed, ReadAsMeant, Open, Close, Space, Equals

LEMMA PathSplit ==
  ASSUME PlainPaths, NEW path \in Paths PROVE split_line(path, ".") = "split"
<1>1. PICK section, field \in Seq(Token) :
        /\ path = (section \o <<Dot>>) \o field
        /\ Lacks(section, Dot) /\ Lacks(field, Dot) /\ field # <<>>
  BY DEF PlainPaths
<1>2. split_line(path, Dot) = "split"
  BY <1>1, SplitJoinedBy
<1> QED
  BY <1>2 DEF Dot

-----------------------------------------------------------------------------
(* Nothing is lost.                                                        *)

\* Opening a section, again or for the first time.
LEMMA OpenedKeeps ==
  ASSUME NEW section
  PROVE  /\ DOMAIN Opened(section) = DOMAIN data \cup {section}
         /\ \A s \in DOMAIN data : Opened(section)[s] = data[s]
         /\ section \notin DOMAIN data => Opened(section)[section] = NoFields
BY DEF Opened, Put

\* What a field line makes of the data.
LEMMA FieldPut ==
  ASSUME NEW section, NEW key, NEW value,
         data' = Put(data, section, Put(Opened(section)[section], key, value))
  PROVE  /\ DOMAIN data' = DOMAIN data \cup {section}
         /\ \A s \in DOMAIN data : s # section => data'[s] = data[s]
         /\ DOMAIN data'[section] = DOMAIN Opened(section)[section] \cup {key}
         /\ data'[section][key] = value
         /\ \A k \in DOMAIN Opened(section)[section] :
              k # key => data'[section][k] = Opened(section)[section][k]
<1>1. PICK fields : fields = Put(Opened(section)[section], key, value)
  OBVIOUS
<1>2. /\ DOMAIN fields = DOMAIN Opened(section)[section] \cup {key}
      /\ fields[key] = value
      /\ \A k \in DOMAIN Opened(section)[section] :
           k # key => fields[k] = Opened(section)[section][k]
  BY <1>1 DEF Put
<1>3. /\ DOMAIN data' = DOMAIN data \cup {section} /\ data'[section] = fields
      /\ \A s \in DOMAIN data : s # section => data'[s] = data[s]
  BY <1>1 DEF Put
<1> QED
  BY <1>2, <1>3

\* Sections and fields are added, never taken away.
THEOREM FieldsAreKept == Spec => FieldsKept
<1> DEFINE Kept == \A s \in DOMAIN data :
              s \in DOMAIN data' /\ DOMAIN data[s] \subseteq DOMAIN data'[s]
<1>1. ASSUME process_section_line PROVE Kept
  BY <1>1, OpenedKeeps DEF process_section_line
<1>2. ASSUME process_field_line PROVE Kept
  <2>1. CASE UNCHANGED data
    BY <2>1
  <2>2. CASE data' # data
    <3>1. data' = Put(data, current_section,
                      Put(Opened(current_section)[current_section],
                          Key(Line), Value(Line)))
      BY <1>2, <2>2 DEF process_field_line
    <3>2. /\ DOMAIN data' = DOMAIN data \cup {current_section}
          /\ \A s \in DOMAIN data : s # current_section => data'[s] = data[s]
          /\ DOMAIN data'[current_section] =
               DOMAIN Opened(current_section)[current_section] \cup {Key(Line)}
      BY <3>1, FieldPut
    <3>3. current_section \in DOMAIN data =>
            Opened(current_section)[current_section] = data[current_section]
      BY OpenedKeeps
    <3> QED
      BY <3>2, <3>3
  <2> QED
    BY <2>1, <2>2
<1>3. Next => Kept
  BY <1>1, <1>2 DEF Next, NoFile, OpenFile, SkipLine, EndOfFile
<1>4. [Next]_vars => [Kept]_vars
  BY <1>3
<1> QED
  BY <1>4, PTL DEF Spec, FieldsKept

-----------------------------------------------------------------------------
(* One line more.                                                          *)

LEMMA MaxLast ==
  ASSUME NEW n \in Nat, NEW S \in SUBSET (1 .. n)
  PROVE  Max(S \cup {n + 1}) = n + 1
<1> DEFINE T == S \cup {n + 1}
<1>1. n + 1 \in T /\ \A y \in T : n + 1 >= y
  OBVIOUS
<1>2. \A x \in T : (\A y \in T : x >= y) => x = n + 1
  OBVIOUS
<1> HIDE DEF T
<1>3. Max(T) = n + 1
  BY <1>1, <1>2 DEF Max
<1> QED
  BY <1>3 DEF T

\* The section that is open at the next line.
LEMMA NextSection ==
  ASSUME NEW n \in Nat
  PROVE  SectionAt(n + 1) = IF file[n + 1].means = "section"
                            THEN file[n + 1].name ELSE SectionAt(n)
<1> DEFINE opening(m) == {j \in 1 .. m : file[j].means = "section"}
<1>1. SectionAt(n + 1) = IF opening(n + 1) = {} THEN <<>>
                         ELSE file[Max(opening(n + 1))].name
  BY DEF SectionAt
<1>2. SectionAt(n) = IF opening(n) = {} THEN <<>> ELSE file[Max(opening(n))].name
  BY DEF SectionAt
<1>3. CASE file[n + 1].means = "section"
  <2>1. opening(n + 1) = opening(n) \cup {n + 1} /\ opening(n) \in SUBSET (1 .. n)
    BY <1>3
  <2>2. Max(opening(n + 1)) = n + 1
    <3> HIDE DEF opening
    <3> QED
      BY <2>1, MaxLast
  <2>3. opening(n + 1) # {}
    BY <2>1
  <2> HIDE DEF opening
  <2> QED
    BY <1>1, <1>3, <2>2, <2>3
<1>4. CASE file[n + 1].means # "section"
  <2>1. opening(n + 1) = opening(n)
    BY <1>4
  <2> HIDE DEF opening
  <2> QED
    BY <1>1, <1>2, <1>4, <2>1
<1> QED
  BY <1>3, <1>4

Assigns(n, section, field) ==
  file[n].means = "field" /\ file[n].key = field /\ SectionAt(n) = section

LEMMA NextAssigning ==
  ASSUME NEW n \in Nat, NEW s, NEW f
  PROVE  LET lines == AssigningBy(n, s, f)
             more == AssigningBy(n + 1, s, f) IN
         /\ Assigns(n + 1, s, f) =>
              more # {} /\ file[Max(more)].value = file[n + 1].value
         /\ ~Assigns(n + 1, s, f) => more = lines
<1> DEFINE lines == AssigningBy(n, s, f)
           more == AssigningBy(n + 1, s, f)
<1>1. CASE Assigns(n + 1, s, f)
  <2>1. more = lines \cup {n + 1} /\ lines \in SUBSET (1 .. n)
    BY <1>1 DEF AssigningBy, Assigns
  <2> HIDE DEF lines, more
  <2>2. Max(more) = n + 1 /\ more # {}
    BY <2>1, MaxLast
  <2> QED
    BY <1>1, <2>2 DEF lines, more
<1>2. CASE ~Assigns(n + 1, s, f)
  BY <1>2 DEF AssigningBy, Assigns
<1> QED
  BY <1>1, <1>2

\* A step that reads line n + 1, and what its author means by the file.
LEMMA AfterLine ==
  ASSUME NEW n, line_number' = n + 1, UNCHANGED file
  PROVE  /\ SectionAt(line_number)' = SectionAt(n + 1)
         /\ \A s, f : AssigningBy(line_number, s, f)' = AssigningBy(n + 1, s, f)
BY DEF SectionAt, AssigningBy


-----------------------------------------------------------------------------
(* The steps.                                                              *)

\* What the invariant says of a field.
FieldRead(s, f) ==
  LET lines == AssigningBy(line_number, s, f) IN
  /\ HasField(s, f) <=> lines # {}
  /\ lines # {} => data[s][f] = file[Max(lines)].value

LEMMA LineRead ==
  ASSUME IniIInv, PlainLines, NEW type, Read(type)
  PROVE  LET n == line_number IN
         /\ n \in Nat /\ n' = n + 1 /\ n + 1 \in 0 .. Len(file) /\ UNCHANGED file
         /\ ReadAsMeant(file[n + 1]) /\ file[n + 1].means \in Meaning
         /\ get_line_type(file[n + 1].line) = type /\ status = "read"
<1>1. file \in Files /\ file \in Seq(Range(file)) /\ line_number \in 0 .. Len(file)
  BY IniAssumption DEF IniIInv
<1>2. line_number + 1 \in DOMAIN file
  BY <1>1 DEF Read
<1>3. ReadAsMeant(file[line_number + 1])
  BY <1>1, <1>2, LineMeant DEF PlainLines
<1> QED
  BY <1>1, <1>2, <1>3, IniAssumption DEF Read, Line

\* A line that assigns nothing.
LEMMA NothingAssigned ==
  ASSUME IniIInv, PlainLines, NEW type, Read(type),
         file[line_number + 1].means # "field",
         \A s, f : /\ HasField(s, f)' <=> HasField(s, f)
                   /\ HasField(s, f) => data'[s][f] = data[s][f]
  PROVE  \A s, f : FieldRead(s, f)'
<1> DEFINE n == line_number
<1>1. n \in Nat /\ n' = n + 1 /\ UNCHANGED file
  BY LineRead
<1>2. SUFFICES ASSUME NEW s, NEW f PROVE FieldRead(s, f)'
  OBVIOUS
<1>3. AssigningBy(line_number, s, f)' = AssigningBy(n, s, f)
  <2>1. ~Assigns(n + 1, s, f)
    BY DEF Assigns
  <2>2. AssigningBy(n + 1, s, f) = AssigningBy(n, s, f)
    BY <1>1, <2>1, NextAssigning
  <2>3. AssigningBy(line_number, s, f)' = AssigningBy(n + 1, s, f)
    BY <1>1, AfterLine
  <2> QED
    BY <2>2, <2>3
<1>4. /\ HasField(s, f) <=> AssigningBy(n, s, f) # {}
      /\ AssigningBy(n, s, f) # {} =>
           data[s][f] = file[Max(AssigningBy(n, s, f))].value
  BY DEF IniIInv
<1>5. /\ HasField(s, f)' <=> HasField(s, f)
      /\ HasField(s, f) => data'[s][f] = data[s][f]
  OBVIOUS
<1>6. /\ HasField(s, f)' <=> AssigningBy(line_number, s, f)' # {}
      /\ AssigningBy(line_number, s, f)' # {} =>
           data'[s][f] = file'[Max(AssigningBy(line_number, s, f)')]
                           .value
  BY <1>1, <1>3, <1>4, <1>5
<1> QED
  BY <1>6 DEF FieldRead

LEMMA SkipLineKeeps ==
  ASSUME IniIInv, PlainLines, SkipLine PROVE IniIInv'
<1> DEFINE n == line_number
<1>1. PICK type \in {"comment", "empty", "unknown"} : Read(type)
  BY DEF SkipLine
<1>2. /\ n \in Nat /\ n' = n + 1 /\ n + 1 \in 0 .. Len(file) /\ UNCHANGED file
      /\ ReadAsMeant(file[n + 1]) /\ file[n + 1].means \in Meaning
      /\ get_line_type(file[n + 1].line) = type /\ status = "read"
  BY <1>1, LineRead
<1>3. file[n + 1].means = "nothing"
  BY <1>2 DEF ReadAsMeant, Meaning
<1>4. \A s, f : FieldRead(s, f)'
  BY <1>1, <1>3, NothingAssigned DEF SkipLine, HasField
<1>5. current_section' = SectionAt(line_number)'
  <2>1. SectionAt(n + 1) = SectionAt(n)
    BY <1>2, <1>3, NextSection
  <2>2. SectionAt(line_number)' = SectionAt(n + 1)
    BY <1>2, AfterLine
  <2> QED
    BY <1>2, <2>1, <2>2 DEF SkipLine, IniIInv
<1> QED
  BY <1>2, <1>4, <1>5 DEF IniIInv, FieldRead, SkipLine, FailsOnMalformed, Thrown

LEMMA SectionLineKeeps ==
  ASSUME IniIInv, PlainLines, process_section_line PROVE IniIInv'
<1> DEFINE n == line_number
<1>1. Read("section") /\ UNCHANGED status
  BY DEF process_section_line
<1>2. /\ n \in Nat /\ n' = n + 1 /\ n + 1 \in 0 .. Len(file) /\ UNCHANGED file
      /\ ReadAsMeant(file[n + 1]) /\ file[n + 1].means \in Meaning
      /\ get_line_type(file[n + 1].line) = "section" /\ status = "read"
  BY <1>1, LineRead
<1>3. file[n + 1].means = "section"
  BY <1>2 DEF ReadAsMeant, Meaning
<1>4. current_section' = file[n + 1].name
  BY <1>2, <1>3 DEF process_section_line, ReadAsMeant, Line
<1>5. \A s, f : /\ HasField(s, f)' <=> HasField(s, f)
                /\ HasField(s, f) => data'[s][f] = data[s][f]
  <2>1. data' = Opened(current_section')
    BY DEF process_section_line
  <2> QED
    BY <2>1 DEF Opened, Put, NoFields, HasField
<1>6. \A s, f : FieldRead(s, f)'
  BY <1>1, <1>3, <1>5, NothingAssigned
<1>7. current_section' = SectionAt(line_number)'
  <2>1. SectionAt(n + 1) = file[n + 1].name
    BY <1>2, <1>3, NextSection
  <2>2. SectionAt(line_number)' = SectionAt(n + 1)
    BY <1>2, AfterLine
  <2> QED
    BY <1>2, <1>4, <2>1, <2>2
<1> QED
  BY <1>1, <1>2, <1>6, <1>7 DEF IniIInv, FieldRead, FailsOnMalformed, Thrown

LEMMA FieldLineKeeps ==
  ASSUME IniIInv, PlainLines, process_field_line PROVE IniIInv'
<1> DEFINE n == line_number
           l == file[n + 1]
           section == current_section
<1>1. Read("field") /\ UNCHANGED current_section
  BY DEF process_field_line
<1>2. /\ n \in Nat /\ n' = n + 1 /\ n + 1 \in 0 .. Len(file) /\ UNCHANGED file
      /\ ReadAsMeant(l) /\ l.means \in Meaning
      /\ get_line_type(l.line) = "field" /\ status = "read" /\ Line = l.line
  BY <1>1, LineRead DEF Line
<1>3. l.means \in {"field", "malformed"}
  BY <1>2 DEF ReadAsMeant, Meaning
<1>4. SectionAt(n + 1) = SectionAt(n) /\ section = SectionAt(n)
  BY <1>2, <1>3, NextSection DEF IniIInv
<1>5. section' = SectionAt(line_number)'
  BY <1>1, <1>2, <1>4, AfterLine
<1>6. CASE l.means = "malformed"
  <2>1. split_line(l.line, "=") # "split"
    BY <1>2, <1>6 DEF ReadAsMeant
  <2>2. status' = split_line(l.line, "=") /\ UNCHANGED data
    BY <1>2, <2>1 DEF process_field_line
  <2>3. status' # "loaded" /\ FailsOnMalformed'
    BY <1>2, <1>6, <2>2 DEF FailsOnMalformed, split_line
  <2>4. \A s, f : FieldRead(s, f)'
    BY <1>1, <1>6, <2>2, NothingAssigned DEF HasField
  <2> QED
    BY <1>2, <1>5, <2>3, <2>4 DEF IniIInv, FieldRead
<1>7. CASE l.means = "field"
  <2>1. /\ split_line(l.line, "=") = "split" /\ Key(l.line) = l.key
        /\ Value(l.line) = l.value
    BY <1>2, <1>7 DEF ReadAsMeant
  <2>2. /\ data' = Put(data, section, Put(Opened(section)[section], l.key, l.value))
        /\ UNCHANGED status
    BY <1>2, <2>1 DEF process_field_line
  <2>3. /\ DOMAIN data' = DOMAIN data \cup {section}
        /\ \A s \in DOMAIN data : s # section => data'[s] = data[s]
        /\ DOMAIN data'[section] = DOMAIN Opened(section)[section] \cup {l.key}
        /\ data'[section][l.key] = l.value
        /\ \A k \in DOMAIN Opened(section)[section] :
             k # l.key => data'[section][k] = Opened(section)[section][k]
    <3>1. PICK key, value : key = l.key /\ value = l.value
      OBVIOUS
    <3>2. data' = Put(data, section, Put(Opened(section)[section], key, value))
      BY <2>2, <3>1
    <3> HIDE DEF l
    <3>3. /\ DOMAIN data' = DOMAIN data \cup {section}
          /\ \A s \in DOMAIN data : s # section => data'[s] = data[s]
          /\ DOMAIN data'[section] = DOMAIN Opened(section)[section] \cup {key}
          /\ data'[section][key] = value
          /\ \A k \in DOMAIN Opened(section)[section] :
               k # key => data'[section][k] = Opened(section)[section][k]
      <4>1. PICK fields : fields = Put(Opened(section)[section], key, value)
        OBVIOUS
      <4>2. /\ DOMAIN fields = DOMAIN Opened(section)[section] \cup {key}
            /\ fields[key] = value
            /\ \A k \in DOMAIN Opened(section)[section] :
                 k # key => fields[k] = Opened(section)[section][k]
        BY <4>1 DEF Put
      <4>3. /\ DOMAIN data' = DOMAIN data \cup {section} /\ data'[section] = fields
            /\ \A s \in DOMAIN data : s # section => data'[s] = data[s]
        BY <3>2, <4>1 DEF Put
      <4> QED
        BY <4>2, <4>3
    <3> QED
      BY <3>1, <3>3
  <2>4. /\ section \in DOMAIN data => Opened(section)[section] = data[section]
        /\ section \notin DOMAIN data => DOMAIN Opened(section)[section] = {}
    BY OpenedKeeps DEF NoFields
  <2>5. ASSUME NEW s, NEW f PROVE FieldRead(s, f)'
    <3>1. Assigns(n + 1, s, f) <=> s = section /\ f = l.key
      BY <1>4, <1>7 DEF Assigns
    <3>2. AssigningBy(line_number, s, f)' = AssigningBy(n + 1, s, f)
      BY <1>2, AfterLine
    <3>3. CASE s = section /\ f = l.key
      <4>1. /\ AssigningBy(n + 1, s, f) # {}
            /\ file[Max(AssigningBy(n + 1, s, f))].value = l.value
        BY <1>2, <3>1, <3>3, NextAssigning
      <4>2. HasField(s, f)' /\ data'[s][f] = l.value
        BY <2>3, <3>3 DEF HasField
      <4> QED
        BY <1>2, <3>2, <4>1, <4>2 DEF FieldRead
    <3>4. CASE ~(s = section /\ f = l.key)
      <4>1. AssigningBy(n + 1, s, f) = AssigningBy(n, s, f)
        BY <1>2, <3>1, <3>4, NextAssigning
      <4>2. /\ HasField(s, f)' <=> HasField(s, f)
            /\ HasField(s, f) => data'[s][f] = data[s][f]
        <5>1. CASE s # section
          BY <2>3, <5>1 DEF HasField
        <5>2. CASE s = section
          BY <2>3, <2>4, <3>4, <5>2 DEF HasField
        <5> QED
          BY <5>1, <5>2
      <4>3. /\ HasField(s, f) <=> AssigningBy(n, s, f) # {}
            /\ AssigningBy(n, s, f) # {} =>
                 data[s][f] = file[Max(AssigningBy(n, s, f))].value
        BY DEF IniIInv
      <4> QED
        BY <1>2, <3>2, <4>1, <4>2, <4>3 DEF FieldRead
    <3> QED
      BY <3>3, <3>4
  <2>6. FailsOnMalformed' /\ status' # "loaded"
    BY <1>2, <2>2 DEF FailsOnMalformed, Thrown
  <2> QED
    BY <1>2, <1>5, <2>5, <2>6 DEF IniIInv, FieldRead
<1> QED
  BY <1>3, <1>6, <1>7

LEMMA IniInitially ==
  ASSUME Init PROVE IniIInv
<1>1. file \in Seq(Range(file)) /\ line_number = 0
  BY IniAssumption DEF Init
<1>2. SectionAt(0) = <<>> /\ \A s, f : AssigningBy(0, s, f) = {}
  BY DEF SectionAt, AssigningBy
<1>3. \A s, f : ~HasField(s, f)
  BY DEF Init, HasField
<1> QED
  BY <1>1, <1>2, <1>3 DEF Init, IniIInv, FailsOnMalformed, Thrown

\* Steps that read no line.
LEMMA OtherStepKeeps ==
  ASSUME IniIInv, NoFile \/ OpenFile \/ EndOfFile \/ UNCHANGED vars
  PROVE  IniIInv'
<1>1. UNCHANGED <<file, line_number, current_section, data>>
  BY DEF NoFile, OpenFile, EndOfFile, vars
<1>2. /\ current_section' = SectionAt(line_number)'
      /\ \A s, f : FieldRead(s, f)'
  <2>1. /\ SectionAt(line_number)' = SectionAt(line_number)
        /\ \A s, f : AssigningBy(line_number, s, f)' = AssigningBy(line_number, s, f)
        /\ \A s, f : HasField(s, f)' <=> HasField(s, f)
    BY <1>1 DEF SectionAt, AssigningBy, HasField
  <2> QED
    BY <1>1, <2>1 DEF IniIInv, FieldRead
<1>3. (status = "loaded" => line_number = Len(file))' /\ FailsOnMalformed'
  BY <1>1 DEF IniIInv, FailsOnMalformed, Thrown, NoFile, OpenFile, EndOfFile, vars
<1> QED
  BY <1>1, <1>2, <1>3 DEF IniIInv, FieldRead

LEMMA IniInvariant ==
  ASSUME PlainLines PROVE Spec => []IniIInv
<1>1. IniIInv /\ [Next]_vars => IniIInv'
  BY SkipLineKeeps, SectionLineKeeps, FieldLineKeeps, OtherStepKeeps DEF Next
<1>2. Init => IniIInv
  BY IniInitially
<1> QED
  BY <1>1, <1>2, PTL DEF Spec

-----------------------------------------------------------------------------
(* Numbers.                                                                *)

\* A numeral alone has no spaces to skip.
LEMMA NumeralAlone ==
  ASSUME PlainNumbers, NEW n \in DOMAIN Number, NEW v \in Seq(Token), IsNumeral(v, n)
  PROVE  SkipSpaces(v) = v /\ v # <<>> /\ Head(v) = n
<1>1. v # <<>> /\ v[1] = n /\ n # Space
  BY DEF PlainNumbers, IsNumeral
<1>2. PICK none : none = <<>>
  OBVIOUS
<1>3. none \in Seq(Token) /\ (\A i \in DOMAIN none : none[i] = Space) /\ none \o v = v
  BY <1>2
<1>4. SkipSpaces(none \o v) = v
  BY <1>1, <1>3, SpacesSkipped
<1>5. Head(v) = v[1]
  BY <1>1
<1> QED
  BY <1>1, <1>3, <1>4, <1>5

\* A set of places that is not empty has a last one.
LEMMA MaxIn ==
  ASSUME NEW n \in Nat, NEW S \in SUBSET (1 .. n), S # {}
  PROVE  Max(S) \in S
<1> DEFINE Behind == {n - x : x \in S}
<1>1. Behind \subseteq Nat /\ Behind # {}
  OBVIOUS
<1>2. PICK b \in Behind : \A y \in Behind : b <= y
  <2> HIDE DEF Behind
  <2> QED
    BY <1>1, Least
<1>3. PICK m \in S : b = n - m
  BY <1>2
<1>4. \A x \in S : m >= x
  <2> SUFFICES ASSUME NEW x \in S PROVE m >= x
    OBVIOUS
  <2>1. n - m <= n - x
    BY <1>2, <1>3
  <2> QED
    BY <2>1
<1> QED
  BY <1>3, <1>4 DEF Max

\* The value of the line that assigns a field last is a string.
LEMMA ValueType ==
  ASSUME IniIInv, PlainLines, NEW s, NEW f, AssigningBy(line_number, s, f) # {}
  PROVE  file[Max(AssigningBy(line_number, s, f))].value \in Seq(Token)
<1>1. file \in Files /\ file \in Seq(Range(file)) /\ line_number \in 0 .. Len(file)
  BY IniAssumption DEF IniIInv
<1>2. PICK lines : lines = AssigningBy(line_number, s, f)
  OBVIOUS
<1>3. lines \in SUBSET (1 .. line_number) /\ lines # {}
  BY <1>2 DEF AssigningBy
<1>4. Max(lines) \in lines
  <2>1. line_number \in Nat
    BY <1>1
  <2> QED
    BY <1>3, <2>1, MaxIn
<1>5. PICK i : i = Max(lines)
  OBVIOUS
<1>6. i \in DOMAIN file /\ file[i].means = "field"
  BY <1>1, <1>2, <1>4, <1>5 DEF AssigningBy
<1>7. FieldLine(file[i])
  BY <1>1, <1>6 DEF PlainLines, WellFormed
<1> QED
  BY <1>2, <1>5, <1>7 DEF FieldLine

-----------------------------------------------------------------------------
(* Theorems.                                                               *)

\* A failure is that of the line that was read last, and that line is
\* malformed by itself: there is nothing behind its "=", or another "=" in it
\* (the exceptions of split_line).
THEOREM OnlyMalformedFails ==
  ASSUME PlainLines PROVE Spec => []FailsOnMalformed
<1>1. IniIInv => FailsOnMalformed
  BY DEF IniIInv
<1> QED
  BY <1>1, IniInvariant, PTL

\* Of files of any length, all of whose lines are in the grammar, every field
\* has the value that its last assignment says, whatever lines are in between,
\* and a number below the width is read as it is (_get_value and
\* get_value<unsigned short> after the constructor).
THEOREM FilesReadAsWritten ==
  ASSUME PlainLines, PlainPaths, PlainNumbers PROVE Spec => []ReadsAsWritten
<1>1. IniIInv => ReadsAsWritten
  <2> SUFFICES ASSUME IniIInv, status = "loaded", NEW path \in Paths
               PROVE  LET text == _get_value(path)
                          number == get_value_unsigned_short(path)
                      IN  IF Written(path) = {}
                          THEN text.throws \in {"NoSuchSection", "NoSuchFieldInSection"}
                          ELSE /\ text.throws = "nothing" /\ text.value \in Written(path)
                               /\ \A n \in DOMAIN Number :
                                    (IsNumeral(text.value, n) /\ Number[n] < ShortWidth)
                                      => number = Gives(Number[n])
    BY DEF ReadsAsWritten
  <2> DEFINE section == First(path, ".")
             field == Second(path, ".")
             lines == AssigningBy(line_number, section, field)
             text == _get_value(path)
  <2>1. file \in Seq(Range(file)) /\ line_number = Len(file)
    BY IniAssumption DEF IniIInv
  <2>2. Assigning(section, field) = lines
    <3>1. DOMAIN file = 1 .. Len(file)
      BY <2>1
    <3> QED
      BY <2>1, <3>1 DEF Assigning, AssigningBy
  <2>3. Written(path) = IF lines = {} THEN {} ELSE {file[Max(lines)].value}
    BY <2>2 DEF Written
  <2>4. /\ HasField(section, field) <=> lines # {}
        /\ lines # {} => data[section][field] = file[Max(lines)].value
    BY DEF IniIInv
  <2>5. text = IF section \notin DOMAIN data THEN Throws("NoSuchSection")
               ELSE IF field \notin DOMAIN data[section]
                    THEN Throws("NoSuchFieldInSection")
                    ELSE Gives(data[section][field])
    <3>1. split_line(path, ".") = "split"
      BY PathSplit
    <3> QED
      BY <3>1 DEF _get_value
  <2> HIDE DEF section, field, lines, text
  <2>6. CASE lines = {}
    <3>1. text.throws \in {"NoSuchSection", "NoSuchFieldInSection"}
      BY <2>4, <2>5, <2>6 DEF HasField, Throws
    <3> QED
      BY <2>3, <2>6, <3>1 DEF text
  <2>7. CASE lines # {}
    <3>1. text = Gives(data[section][field])
      BY <2>4, <2>5, <2>7 DEF HasField
    <3>2. text.throws = "nothing" /\ text.value = file[Max(lines)].value
      BY <2>4, <2>7, <3>1 DEF Gives
    <3>3. ASSUME NEW n \in DOMAIN Number, IsNumeral(text.value, n), Number[n] < ShortWidth
          PROVE  get_value_unsigned_short(path) = Gives(Number[n])
      <4>1. text.value \in Seq(Token)
        BY <2>7, <3>2, ValueType DEF lines
      <4>2. SkipSpaces(text.value) # <<>> /\ Head(SkipSpaces(text.value)) = n
        BY <3>3, <4>1, NumeralAlone
      <4>3. Number[n] % ShortWidth = Number[n]
        BY <3>3, IniAssumption
      <4>4. get_value_unsigned_short(path) = Gives(Number[n] % ShortWidth)
        BY <3>2, <4>2 DEF get_value_unsigned_short, text
      <4> QED
        BY <4>3, <4>4
    <3>4. Written(path) = {text.value}
      BY <2>3, <2>7, <3>2
    <3> QED
      BY <3>2, <3>3, <3>4 DEF text
  <2> QED
    BY <2>6, <2>7
<1> QED
  BY <1>1, IniInvariant, PTL
=============================================================================
