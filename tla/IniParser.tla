------------------------------- MODULE IniParser -------------------------------
(***************************************************************************)
(* Class IniParser (IniParser.h, IniParser.cpp), which both programs read  *)
(* their configuration with.  A string is a sequence of tokens: the        *)
(* characters the format is made of, numerals, and any others.  A line of  *)
(* a file carries what it says by itself in this format; only the          *)
(* properties look at that.                                                *)
(***************************************************************************)
EXTENDS Naturals, Sequences, SequencesExt

CONSTANTS
  Files,       \* sequences of lines, with text and meaning
  Paths,       \* what the programs ask for, "section.field"
  Number,      \* the values of the numerals among the tokens
  ShortWidth   \* 2^16

Meaning == {"section", "field", "nothing", "malformed"}

ASSUME IniAssumption ==
  /\ ShortWidth \in Nat \ {0}
  /\ \A t \in DOMAIN Number : Number[t] \in Nat
  /\ \A f \in Files :
       f \in Seq(Range(f)) /\ \A i \in DOMAIN f : f[i].means \in Meaning

VARIABLES
  file,              \* the lines not read yet are those after line_number
  line_number,
  current_section,
  data,              \* section -> field -> value
  status             \* where the constructor is, or what it threw

vars == <<file, line_number, current_section, data, status>>

Thrown == {"NoSuchFile", "NoValueInLine", "BadValueLine"}

-----------------------------------------------------------------------------
(* Strings.                                                                *)

\* How often, and where first, a token is in a string; 0 if it is not.
Times(s, t) == Cardinality({i \in DOMAIN s : s[i] = t})
Find(s, t) == SelectInSeq(s, LAMBDA x : x = t)

Without(s, T) == SelectSeq(s, LAMBDA x : x \notin T)

UpTo(s, t) == IF Find(s, t) = 0 THEN s ELSE SubSeq(s, 1, Find(s, t) - 1)
After(s, t) == SubSeq(s, Find(s, t) + 1, Len(s))

\* Without its first spaces, unless it is nothing else.
SkipSpaces(s) ==
  LET start == SelectInSeq(s, LAMBDA x : x # " ") IN
  IF start = 0 THEN s ELSE SubSeq(s, start, Len(s))

\* rfind finds the last semicolon.
get_line_type(line) ==
  LET Has(t) == Find(line, t) # 0
      Brackets == Has("[") /\ Has("]")
      NoBracket == ~Has("[") /\ ~Has("]")
  IN  IF Find(line, ";") = 1 /\ Times(line, ";") = 1 THEN "comment"
      ELSE IF line = <<>> THEN "empty"
      ELSE IF Brackets /\ ~Has("=") THEN "section"
      ELSE IF NoBracket /\ Has("=") THEN "field"
      ELSE "unknown"

\* The segment behind the last delimiter is never given.
SegmentsShort(s, delimiter) == Times(s, delimiter)

\* getline gives no segment for nothing behind the last delimiter.
Segments(s, delimiter) ==
  Times(s, delimiter) + (IF s = <<>> \/ Last(s) = delimiter THEN 0 ELSE 1)

split_line(s, delimiter) ==
  CASE Segments(s, delimiter) = 2 -> "split"
    [] Segments(s, delimiter) = 1 -> "NoValueInLine"
    [] OTHER -> "BadValueLine"

\* The two segments of a string that can be split.
First(s, delimiter) == UpTo(s, delimiter)
Second(s, delimiter) == UpTo(After(s, delimiter), delimiter)

-----------------------------------------------------------------------------
(* The constructor.                                                        *)

Init ==
  /\ file \in Files
  /\ line_number = 0 /\ current_section = <<>>
  /\ data = [s \in {} |-> <<>>] /\ status = "open"

NoFile ==
  /\ status = "open" /\ status' = "NoSuchFile"
  /\ UNCHANGED <<file, line_number, current_section, data>>

OpenFile ==
  /\ status = "open" /\ status' = "read"
  /\ UNCHANGED <<file, line_number, current_section, data>>

Line == file[line_number + 1].line

\* getline, of a line of this type.
Read(type) ==
  /\ status = "read" /\ line_number < Len(file)
  /\ get_line_type(Line) = type
  /\ line_number' = line_number + 1
  /\ UNCHANGED file

SkipLine ==
  /\ Read("comment") \/ Read("empty") \/ Read("unknown")
  /\ UNCHANGED <<current_section, data, status>>

Put(map, key, value) ==
  [k \in DOMAIN map \cup {key} |-> IF k = key THEN value ELSE map[k]]

NoFields == [k \in {} |-> <<>>]

\* A new section at every line with a section.
Reopened(section) == Put(data, section, NoFields)

Opened(section) ==
  IF section \in DOMAIN data THEN data ELSE Put(data, section, NoFields)

process_section_line ==
  /\ Read("section")
  /\ current_section' = Without(Line, {"[", "]", " "})
  /\ data' = Opened(current_section')
  /\ UNCHANGED status

Key(line) == Without(First(line, "="), {" "})

\* The comment at its end stays in the value.
ValueWithComment(line) == SkipSpaces(Second(line, "="))

Value(line) == UpTo(SkipSpaces(Second(line, "=")), ";")

process_field_line ==
  /\ Read("field")
  /\ IF split_line(Line, "=") = "split"
     THEN /\ data' = Put(data, current_section,
                         Put(Opened(current_section)[current_section],
                             Key(Line), Value(Line)))
          /\ UNCHANGED status
     ELSE status' = split_line(Line, "=") /\ UNCHANGED data
  /\ UNCHANGED current_section

EndOfFile ==
  /\ status = "read" /\ line_number = Len(file)
  /\ status' = "loaded"
  /\ UNCHANGED <<file, line_number, current_section, data>>

Next ==
  \/ NoFile \/ OpenFile \/ SkipLine \/ process_section_line
  \/ process_field_line \/ EndOfFile

Spec == Init /\ [][Next]_vars

-----------------------------------------------------------------------------
(* get_value.  What is thrown is a result too.                             *)

Gives(value) == [throws |-> "nothing", value |-> value]
Throws(what) == [throws |-> what, value |-> <<>>]

_get_value(path) ==
  LET section == First(path, ".")
      field == Second(path, ".")
  IN  IF split_line(path, ".") # "split" THEN Throws(split_line(path, "."))
      ELSE IF section \notin DOMAIN data THEN Throws("NoSuchSection")
      ELSE IF field \notin DOMAIN data[section]
           THEN Throws("NoSuchFieldInSection")
      ELSE Gives(data[section][field])

\* stoul skips spaces, reads the digits and ignores the rest; its result is
\* cut to the unsigned short that is returned.
get_value_unsigned_short(path) ==
  LET text == _get_value(path)
      digits == SkipSpaces(text.value)
  IN  IF text.throws # "nothing" THEN text
      ELSE IF digits = <<>> \/ Head(digits) \notin DOMAIN Number
           THEN Throws("invalid_argument")
      ELSE Gives(Number[Head(digits)] % ShortWidth)

-----------------------------------------------------------------------------
(* Properties.                                                             *)

\* The lines that assign this field of this section, a section being opened
\* by the last line before that says so.
SectionAt(i) ==
  LET opening == {j \in 1 .. i : file[j].means = "section"} IN
  IF opening = {} THEN <<>> ELSE file[Max(opening)].name

Assigning(section, field) ==
  {i \in DOMAIN file : /\ file[i].means = "field"
                       /\ file[i].key = field /\ SectionAt(i) = section}

\* What the file says of the path.
Written(path) ==
  LET lines == Assigning(First(path, "."), Second(path, ".")) IN
  IF lines = {} THEN {} ELSE {file[Max(lines)].value}

\* v is the numeral n, with nothing but spaces behind it.
IsNumeral(v, n) ==
  v # <<>> /\ v[1] = n /\ \A i \in 2 .. Len(v) : v[i] = " "

\* A configuration is read as its lines say, however they follow each other:
\* sections that are opened again keep their fields, of several assignments
\* to a field the last one counts, and those of other sections do not.  What
\* a line says is not always what it looks like.  Spaces before a comment
\* are part of the value.  A line that begins with a semicolon and has
\* another one is no comment: with "=" it assigns a field of an odd name,
\* with brackets it opens a section of an odd name, and the fields behind it
\* are no longer those of the section before.  Numbers too large for the
\* type are left out: they are cut.
ReadsAsWritten ==
  status = "loaded" => \A path \in Paths :
    LET text == _get_value(path)
        number == get_value_unsigned_short(path)
    IN  IF Written(path) = {}
        THEN text.throws \in {"NoSuchSection", "NoSuchFieldInSection"}
        ELSE /\ text.throws = "nothing" /\ text.value \in Written(path)
             /\ \A n \in DOMAIN Number :
                  (IsNumeral(text.value, n) /\ Number[n] < ShortWidth)
                    => number = Gives(Number[n])

\* Reading fails only for a line with a field that has no value or another
\* "=", be it in the comment behind the value or in a line that begins with a
\* semicolon and has another one: the rest of the file, and how lines follow
\* each other, never matter.
FailsOnMalformed ==
  status \in Thrown \ {"NoSuchFile"} => file[line_number].means = "malformed"

\* Nothing that has been read is lost while the rest of the file is read.
FieldsKept ==
  [][\A s \in DOMAIN data :
       s \in DOMAIN data' /\ DOMAIN data[s] \subseteq DOMAIN data'[s]]_vars
=============================================================================
