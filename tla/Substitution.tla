---------------------------- MODULE Substitution ----------------------------
(***************************************************************************)
(* regsub_core: a replacement text with references to the groups of a      *)
(* match is turned into the text it stands for.  It goes over the          *)
(* replacement twice: the first pass counts, the second writes into the    *)
(* memory that was asked for in between.                                   *)
(*                                                                         *)
(* A text is a sequence of characters.  A group of the match is where it   *)
(* starts and ends in the source; one that did not take part starts and    *)
(* ends at -1, and one may end before it starts.                           *)
(***************************************************************************)
EXTENDS Integers, SequencesExt

CONSTANTS
  MaxRegMatch,   \* AP_MAX_REG_MATCH
  SizeMax,       \* APR_SIZE_MAX
  NoSource       \* a source that is NULL

Digits == [c \in {"0", "1", "2"} |-> IF c = "0" THEN 0 ELSE IF c = "1" THEN 1 ELSE 2]
IsDigit(c) == c \in DOMAIN Digits

SubstitutionAssumption == MaxRegMatch \in Nat /\ MaxRegMatch > 2 /\ SizeMax \in Nat \ {0}

Wrap(n) == n % (SizeMax + 1)
-----------------------------------------------------------------------------
(* regsub_core:                                                            *)
(*   checks    it refuses to work without a source, or with more groups    *)
(*             than there can be                                           *)
(*   limits    it compares the length with maxlen                          *)
(*   overflow  it tests whether the length still fits its type             *)
(*   ordered   it takes only groups that start before they end             *)
(*   second    its second pass reads the replacement as the first does     *)
(*             ("alike"), or also takes & for the whole match and lets a   *)
(*             backslash protect only $ and & ("ampersand")                *)
(*   digit     a reference needs a digit after the $                       *)
(*   asks      it asks whether the user may                                *)
Sub_348 ==
  [checks |-> TRUE, limits |-> TRUE, overflow |-> TRUE, ordered |-> TRUE, second |-> "alike",
   digit |-> TRUE, asks |-> FALSE]
Sub_371 == Sub_348
Sub_382 == Sub_348
Sub_589 == Sub_348
Sub_1008 == Sub_348
Sub_382_safe == [Sub_348 EXCEPT !.asks = TRUE]
Sub_461 == [Sub_348 EXCEPT !.overflow = FALSE]
Sub_349 == [Sub_461 EXCEPT !.limits = FALSE]
Sub_459 == [Sub_349 EXCEPT !.checks = FALSE, !.ordered = FALSE]
Sub_635 == [Sub_348 EXCEPT !.second = "ampersand"]
Sub_673 == Sub_635
Sub_675 == Sub_635
Sub_673_safe == [Sub_635 EXCEPT !.asks = TRUE]
Sub_674 == [Sub_349 EXCEPT !.second = "ampersand"]
Sub_1007 == [Sub_461 EXCEPT !.digit = FALSE]
-----------------------------------------------------------------------------
Char(c) == [group |-> MaxRegMatch, char |-> c]
Group(n) == [group |-> n, char |-> "$"]

\* What a turn of a pass makes of the replacement: a character or a group; and whether
\* it has read the next character, too.  Past is met where it reads on behind the end.
Past == [group |-> -1, char |-> "$"]
One(token) == [token |-> token, skips |-> FALSE]
Two(token) == [token |-> token, skips |-> TRUE]
Escapes(ampersand, c, next) ==
  c = "\\" /\ (ampersand => next \in {"$", "&"})

Turn(v, ampersand, input, i) ==
  LET c == input[i]
      last == i = Len(input)
      next == IF last THEN "end" ELSE input[i + 1]
  IN IF ampersand /\ c = "&" THEN One(Group(0))
     ELSE IF c = "$" /\ IsDigit(next) THEN Two(Group(Digits[next]))
     ELSE IF c = "$" /\ ~v.digit THEN IF last THEN One(Past) ELSE Two(Char(c))
     ELSE IF ~last /\ Escapes(ampersand, c, next) THEN Two(Char(next))
     ELSE One(Char(c))

Tokens(v, ampersand, input) ==
  LET read[i \in 0 .. Len(input)] ==
        IF i = 0 THEN [tokens |-> <<>>, skips |-> FALSE]
        ELSE IF read[i - 1].skips THEN [read[i - 1] EXCEPT !.skips = FALSE]
        ELSE LET turn == Turn(v, ampersand, input, i) IN
             [tokens |-> Append(read[i - 1].tokens, turn.token), skips |-> turn.skips]
  IN read[Len(input)].tokens

\* The second pass.
SecondTokens(v, input) == Tokens(v, v.second = "ampersand", input)
FirstTokens(v, input) == Tokens(v, FALSE, input)

\* Whether a reference to a group writes anything.
GroupTaken(v, pmatch, nmatch, n) ==
  n < nmatch /\ (v.ordered => pmatch[n].so < pmatch[n].eo)
Size(pmatch, n) == Wrap(pmatch[n].eo - pmatch[n].so)

\* The length, and whether the first pass gave up on it.
CountBlindly(v, pmatch, nmatch, sum, token) ==   \* mutant
  IF token.group >= MaxRegMatch THEN [sum EXCEPT !.len = Wrap(@ + 1)]
  ELSE IF GroupTaken(v, pmatch, nmatch, token.group)
  THEN [sum EXCEPT !.len = Wrap(@ + Size(pmatch, token.group))] ELSE sum
CountToken(v, pmatch, nmatch, sum, token) ==
  IF sum.full THEN sum
  ELSE IF token.group >= MaxRegMatch THEN [sum EXCEPT !.len = Wrap(@ + 1)]
  ELSE IF ~GroupTaken(v, pmatch, nmatch, token.group) THEN sum
  ELSE IF v.overflow /\ SizeMax - sum.len <= Size(pmatch, token.group)
  THEN [sum EXCEPT !.full = TRUE]
  ELSE [sum EXCEPT !.len = Wrap(@ + Size(pmatch, token.group))]
Counted(v, input, pmatch, nmatch) ==
  LET tokens == FirstTokens(v, input)
      sum[k \in 0 .. Len(tokens)] ==
        IF k = 0 THEN [len |-> 0, full |-> FALSE]
        ELSE CountToken(v, pmatch, nmatch, sum[k - 1], tokens[k])
  IN sum[Len(tokens)]

\* What the second pass writes, before the end.
GroupText(source, pmatch, n) == SubSeq(source, pmatch[n].so + 1, pmatch[n].eo)
TokenText(v, source, pmatch, nmatch, token) ==
  IF token.group >= MaxRegMatch THEN <<token.char>>
  ELSE IF GroupTaken(v, pmatch, nmatch, token.group) THEN GroupText(source, pmatch, token.group)
  ELSE <<>>
Written(v, input, source, pmatch, nmatch) ==
  LET tokens == SecondTokens(v, input) IN
  FlattenSeq([i \in DOMAIN tokens |-> TokenText(v, source, pmatch, nmatch, tokens[i])])

\* A copy of nearly all of memory.
RunsAway(v, input, pmatch, nmatch) ==
  \E i \in DOMAIN SecondTokens(v, input) :
    LET n == SecondTokens(v, input)[i].group IN
    n < MaxRegMatch /\ n < nmatch /\ ~v.ordered /\ pmatch[n].eo < pmatch[n].so

\* What is found before memory is asked for: "ok" if it is, "unset" if the caller
\* is told so without having got a result.
TooLong(v, len, maxlen) == v.limits /\ maxlen > 0 /\ len >= maxlen
Status(v, input, source, pmatch, nmatch, maxlen) ==
  IF v.checks /\ (source = NoSource \/ nmatch > MaxRegMatch) THEN "EINVAL"
  ELSE IF source = NoSource THEN "unset"
  ELSE IF nmatch = 0 THEN IF TooLong(v, Len(input), maxlen) THEN "ENOMEM" ELSE "ok"
  ELSE IF \E i \in DOMAIN FirstTokens(v, input) : FirstTokens(v, input)[i].group = -1 THEN "crashed"
  ELSE IF Counted(v, input, pmatch, nmatch).full THEN "ENOMEM"
  ELSE IF TooLong(v, Counted(v, input, pmatch, nmatch).len, maxlen) THEN "ENOMEM"
  ELSE "ok"
-----------------------------------------------------------------------------
(* What a replacement stands for, read off each of its characters.         *)

\* Backslashes stand in pairs, the first of a pair protecting the second.
Protected(ampersand, input, i) ==
  IF ampersand THEN i > 1 /\ input[i] \in {"$", "&"} /\ input[i - 1] = "\\"
  ELSE LET run == {j \in 1 .. i - 1 : \A k \in j .. i - 1 : input[k] = "\\"}
       IN Cardinality(run) % 2 = 1
Protects(ampersand, input, i) ==
  i < Len(input) /\ input[i] = "\\"
  /\ IF ampersand THEN input[i + 1] \in {"$", "&"} ELSE ~Protected(ampersand, input, i)
Refers(ampersand, input, i) ==
  input[i] = "$" /\ ~Protected(ampersand, input, i) /\ i < Len(input) /\ IsDigit(input[i + 1])

Stands(ampersand, input, source, pmatch, nmatch, i) ==
  LET Of(n) == IF n < nmatch /\ pmatch[n].so < pmatch[n].eo THEN GroupText(source, pmatch, n)
               ELSE <<>>
  IN CASE Refers(ampersand, input, i) -> Of(Digits[input[i + 1]])
       [] i > 1 /\ Refers(ampersand, input, i - 1) -> <<>>
       [] ampersand /\ input[i] = "&" /\ ~Protected(ampersand, input, i) -> Of(0)
       [] Protects(ampersand, input, i) -> <<>>
       [] OTHER -> <<input[i]>>
StandsFor(ampersand, input, source, pmatch, nmatch) ==
  FlattenSeq([i \in DOMAIN input |-> Stands(ampersand, input, source, pmatch, nmatch, i)])
=============================================================================
