----------------------------- MODULE MCIniParser -----------------------------
(* Files for the run of IniParser: all sequences of up to four lines.      *)
EXTENDS IniParser, TLC

Section(name, line) == [means |-> "section", name |-> name, line |-> line]
Field(key, value, line) ==
  [means |-> "field", key |-> key, value |-> value, line |-> line]
Nothing(line) == [means |-> "nothing", line |-> line]
Malformed(line) == [means |-> "malformed", line |-> line]

\* The values a numeral can have: within the width, and beyond it.
Numerals == ("9093" :> 3) @@ ("65536" :> 4)

\* Lines that look like comments.
SecondSemicolon ==
  {Section(<<";", "Db", ";">>, <<";", "[", "Db", "]", ";">>),
   Field(<<";", "text", ";", "port">>, <<"9093">>,
         <<";", "text", ";", "port", "=", "9093">>),
   Malformed(<<";", "port", "=", "9093", ";", "=", "a">>)}

\* Lines of every kind, and what they say.
Lines ==
  {Section(<<"Db">>, <<"[", "Db", "]">>),
   Section(<<"Crowler">>, <<" ", "[", " ", "Crowler", " ", "]">>),
   Field(<<"port">>, <<"9093">>, <<"port", "=", "9093">>),
   Field(<<"port">>, <<"65536", " ">>,
         <<" ", "port", " ", "=", " ", "65536", " ", ";", "text">>),
   Field(<<"host">>, <<"a", " ", "b">>,
         <<"host", "=", " ", "a", " ", "b", ";", "9093">>),
   Field(<<"host">>, <<>>, <<"host", "=", " ", ";", "text">>),
   Nothing(<<>>),
   Nothing(<<";", "port", "=", "65536">>),
   Nothing(<<"host", "=", "[", "a">>),
   Malformed(<<"port", "=">>),
   Malformed(<<"host", "=", "a", ";", "b", "=", "c">>)} \cup SecondSemicolon

SmallFiles == UNION {[1 .. n -> Lines] : n \in 0 .. 4}

AskedFor == {<<s, ".", f>> : s \in {"Db", "Crowler"}, f \in {"port", "host"}}
=============================================================================
