------------------------------- MODULE MCText -------------------------------
(* Texts that are put together: buffers and replacements, the expansion of  *)
(* rewriting rules, the variables of a page, and the conditions of a page.  *)
(* The modules share no variable: a behaviour is one of one module, while   *)
(* the others rest at a single state.                                       *)
EXTENDS SsiConditions, VarBuf, RewriteExpand, SsiString

CONSTANTS
  m1, m2, m3, g1, g2   \* stand-ins
VARIABLE mode
-----------------------------------------------------------------------------
\* The conditions of a page: each kind of copy.
MCIfCopies == {If_193, If_71, If_146, If_76, If_47, If_84}
MCElifCopies == {Elif_194, Elif_72, Elif_85, Elif_77, Elif_48, Elif_147}
ConditionsRest == copy = [if |-> If_193, elif |-> Elif_72] /\ Init

Strings(chars, n) == UNION {[1 .. k -> chars] : k \in 0 .. n}
-----------------------------------------------------------------------------
\* Short replacements, and buffers through a few operations.
ReplacementChars == {"$", "\\", "&", "0", "1", "x"}
Source == [i \in 1 .. 32 |-> "s"]
Match(a, b, c, d) == 0 :> [so |-> a, eo |-> b] @@ 1 :> [so |-> c, eo |-> d] @@ 2 :> [so |-> -1, eo |-> -1]
Both == Match(0, 3, 1, 2)
Unset == Match(1, 2, -1, -1)
Inverted == Match(2, 1, 0, 2)
Long == Match(0, 32, 0, 31)

Call(input, source, pmatch, nmatch, maxlen) ==
  [input |-> input, source |-> source, pmatch |-> pmatch, nmatch |-> nmatch, maxlen |-> maxlen]
MCOwnCases ==
  {Call(i, Source, p, n, m) :
     i \in Strings(ReplacementChars, 2), p \in {Both, Unset, Inverted},
     n \in {0, 1, 2, MaxRegMatch + 1}, m \in {0, 3}}
  \cup {Call(i, Source, Both, 2, 0) : i \in Strings(ReplacementChars, 4)}
  \cup {Call(i, Source, Long, 2, m) : m \in {0, 40}, i \in
     {<<"$", "0", "$", "0">>, <<"$", "1", "$", "1">>, <<"$", "1", "$", "1", "x">>,
      <<"$", "0", "$", "0", "x", "x">>}}
  \cup {Call(<<"x">>, NoSource, Both, n, 0) : n \in {0, 1}}
MCCases ==
  {Call(<<"x", "$", "0">>, Source, Both, 2, 0), Call(<<"\\", "$">>, Source, Both, 2, 0),
   Call(<<"$", "0", "$", "0">>, Source, Both, 2, 5), Call(<<"&">>, Source, Both, 0, 0),
   Call(<<"$", "0">>, Source, Inverted, 1, 0), Call(<<"$", "0", "&">>, Source, Long, 1, 0)}
MCTexts == {<<"a">>, <<"a", "D", "c">>}
MCLines == {<<"a", " ">>, <<" ", "b", "c", "d", "e", "f", "g", "h", "i">>}

BufRests ==
  /\ buf_copy = Pair(Sub_348, Grow_991)
  /\ vb = [strlen |-> 0, avail |-> 0, text |-> <<>>, null |-> FALSE]
  /\ BufInit
-----------------------------------------------------------------------------
\* Templates of any three characters, and with variables, maps and defaults.
RuleChars == {"\\", "$", "%", "{", "}", ":", "|", "0", "v"}
Map(key, default) == <<"$", "{", "v", ":">> \o key \o <<"|">> \o default \o <<"}">>
MCTemplates ==
  Strings(RuleChars, 3)
  \cup {<<"%", "{">> \o t \o <<"}">> : t \in Strings(RuleChars, 2)}
  \cup {Map(k, d) :
          k \in Strings(RuleChars, 1) \cup {<<"$", "0">>, <<"%", "{", "v", "}">>},
          d \in {<<>>, <<"$">>, <<"%", "0">>, <<"%", "{", "v", "}">>, Map(<<"v">>, <<"0">>)}}
MCContexts ==
  {[rr |-> 0 :> <<g1>> @@ 1 :> <<>>, rc |-> Null],
   [rr |-> 0 :> <<"v">> @@ 1 :> <<"0">>, rc |-> 0 :> <<g2>> @@ 1 :> <<"v", g1>>]}
MCVariables == <<"v">> :> <<m1>>
MCMaps == <<<<"v">>, <<"v">>>> :> <<m2>> @@ <<<<"v">>, <<"$", "0">>>> :> <<"v", m1>>
MCFilling ==
  m1 :> <<"$", "0">> @@ m2 :> <<"\\", "%", "1">> @@ m3 :> <<"$", "v">>
  @@ g1 :> <<"$", "0">> @@ g2 :> <<"%", "{", "v", "}">>
MCDenials == {{}, {<<"v">>}, MCTemplates}
MCItems ==
  {<<<<"v", ":", "0">>, <<"!", "v">>, <<"%", "{", "v", "}">>>>, <<<<"v">>, <<"!", "v">>>>}

ExpandRests ==
  /\ rule_copy = Expand_782 /\ ctx = [rr |-> Null, rc |-> Null] /\ escape = FALSE /\ denied = {}
  /\ progress = "start" /\ given = <<>> /\ expanded = Null /\ items = <<>> /\ env = <<>>
-----------------------------------------------------------------------------
\* Texts of any two characters, of three where the first is special, some longer ones, and
\* every length there can be room for.
PageChars == {"\\", "$", "{", "}", "v", "w", " "}
MCInputs ==
  Strings(PageChars, 2)
  \cup {<<c>> \o t : c \in {"$", "\\"}, t \in Strings(PageChars, 2)}
  \cup {<<c>> \o <<"$", "{", "v", "}">> \o t : c \in PageChars, t \in Strings(PageChars, 1)}
  \cup {<<"$", "{", "w">> \o t : t \in Strings(PageChars, 2)}
MCValues == <<"v">> :> <<m3, "v">>

MCLengths == 0 .. 4
ParseRests == parse_copy = Parse_541 /\ parse_call = NoCall /\ parsed = NoResult
-----------------------------------------------------------------------------
MCInit ==
  \/ mode = "conditions" /\ Init /\ BufRests /\ ExpandRests /\ ParseRests
  \/ /\ mode \in {"buffer", "rule", "page"}
     /\ ConditionsRest
     /\ IF mode = "buffer" THEN BufInit ELSE BufRests
     /\ IF mode = "rule" THEN ExpandInit ELSE ExpandRests
     /\ IF mode = "page" THEN ParseInit ELSE ParseRests
MCNext ==
  /\ UNCHANGED mode
  /\ \/ mode = "conditions" /\ Next /\ UNCHANGED <<buf_vars, expand_vars, parse_vars>>
     \/ mode = "buffer" /\ BufNext /\ UNCHANGED <<vars, expand_vars, parse_vars>>
     \/ mode = "rule" /\ ExpandNext /\ UNCHANGED <<vars, buf_vars, parse_vars>>
     \/ mode = "page" /\ ParseNext /\ UNCHANGED <<vars, buf_vars, expand_vars>>
MCSpec == MCInit /\ [][MCNext]_<<vars, mode, buf_vars, expand_vars, parse_vars>>
=============================================================================
