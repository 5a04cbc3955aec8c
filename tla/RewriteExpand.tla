---------------------------- MODULE RewriteExpand ----------------------------
(***************************************************************************)
(* do_expand: the right side of a rewriting rule, or a condition's text,    *)
(* is turned into the text it stands for: \c, $n and %n for the groups of   *)
(* the rule and of the last condition, %{variable}, ${map:key|default}.     *)
(* do_expand_env does so for the environment a rule sets.                   *)
(*                                                                          *)
(* It cuts the text into pieces, adding up their lengths, and copies the    *)
(* pieces into memory of that length.  Variables, maps and the escaping of  *)
(* a URI are other functions'.                                              *)
(***************************************************************************)
EXTENDS TextPieces

CONSTANTS
  Templates,         \* what is expanded
  Contexts,          \* [rr, rc: the groups' texts, or Null without a match]
  Denials,           \* the texts a user may not expand, for the copy that asks
  Items,             \* lists of what a rule sets in the environment
  Variables, Maps,   \* texts, by name, and by map and key
  Null

RuleDigits == [c \in {"0", "1"} |-> IF c = "0" THEN 0 ELSE 1]
RuleSpecial == {"\\", "$", "%"}

ASSUME ExpandAssumption ==
  /\ RuleSpecial \cup {"x"} \subseteq STRING
  /\ Templates \subseteq Seq(STRING) /\ Items \subseteq Seq(Seq(STRING))
  /\ \A c \in Contexts : {c.rr, c.rc} \ {Null} \subseteq [0 .. 1 -> Seq(Character)]
  /\ \A name \in DOMAIN Variables : Variables[name] \in Seq(Character)
  /\ \A key \in DOMAIN Maps : Maps[key] \in Seq(Character)
  /\ Null \notin [text : Seq(Character), outlen : Nat, crash : BOOLEAN]

VariableOf(name) == IF name \in DOMAIN Variables THEN Variables[name] ELSE <<>>
MapOf(map, key) == IF <<map, key>> \in DOMAIN Maps THEN Maps[<<map, key>>] ELSE Null
EscapeUri(text) ==
  FlattenSeq([i \in DOMAIN text |-> IF text[i] \in RuleSpecial THEN <<"%", "x">> ELSE <<text[i]>>])

(* do_expand:                                                              *)
(*   escapes  it escapes groups where the rule says so                     *)
(*   malloc   it takes its memory from the system                          *)
(*   asks     it asks whether the user may expand the text                 *)
Expand_782 == [escapes |-> TRUE, malloc |-> FALSE, asks |-> FALSE]
Expand_811 == Expand_782
Expand_902 == Expand_782
Expand_780 == Expand_782
Expand_826 == Expand_782
Expand_777 == [Expand_782 EXCEPT !.escapes = FALSE]
Expand_778 == [Expand_782 EXCEPT !.malloc = TRUE]
Expand_896 == Expand_778
Expand_782_safe == [Expand_782 EXCEPT !.asks = TRUE]
RuleCopies == {Expand_782, Expand_782_safe, Expand_811, Expand_902, Expand_780, Expand_826,
               Expand_777, Expand_778, Expand_896}
-----------------------------------------------------------------------------
VARIABLES
  rule_copy, ctx, escape, denied,
  progress,  \* "start", "env", or how it ended: "done", "crashed"
  given,     \* the text to expand
  expanded,  \* what came of it: [text, outlen, crash], or Null
  items,     \* what of the environment is still to be set
  env        \* r->subprocess_env

expand_vars == <<rule_copy, ctx, escape, denied, progress, given, expanded, items, env>>

ExpandInit ==
  /\ rule_copy \in RuleCopies /\ ctx \in Contexts
  /\ escape \in BOOLEAN
  /\ denied \in (IF rule_copy.asks THEN Denials ELSE {{}})
  /\ progress = "start" /\ given = <<>> /\ expanded = Null
  /\ items = <<>> /\ env = <<>>
-----------------------------------------------------------------------------
\* How deep in curlies t is after j, having begun in one at i.
Depth(t, i, j) ==
  1 + Cardinality({k \in i .. j : t[k] = "{"}) - Cardinality({k \in i .. j : t[k] = "}"})
Inside(t, i, j) == \A k \in i .. j : Depth(t, i, k) > 0

\* The place that is found, or none.
FindClosingCurly(t, i) == {j \in i .. Len(t) : Inside(t, i, j - 1) /\ Depth(t, i, j) = 0}
FindCharInCurlies(t, i, c) ==
  LET found == {j \in i .. Len(t) : t[j] = c /\ Inside(t, i, j - 1) /\ Depth(t, i, j - 1) = 1}
  IN IF found = {} THEN {} ELSE {Min(found)}
-----------------------------------------------------------------------------
\* What an expansion goes by; values are filled in as they are met, or not.
Settings(fill) ==
  [fill |-> fill, rr |-> ctx.rr, rc |-> ctx.rc, escapes |-> rule_copy.escapes /\ escape,
   denied |-> denied]
AsMet(x, text) == IF x.fill THEN Filled(text) ELSE text

\* A piece, what it adds to outlen, and where the text goes on.
Span(text, group) == Len(text)
Piece(text, next) == [text |-> text, span |-> Len(text), next |-> next, crash |-> FALSE]
NoPiece(next) == Piece(<<>>, next)
Crash(next) == [NoPiece(next) EXCEPT !.crash = TRUE]

BeforeEscaped(i) == i + 1     \* mutant
AfterEscaped(i) == i + 2
Backslash(t, i) ==
  IF i = Len(t) THEN Piece(<<t[i]>>, i + 1) ELSE Piece(<<t[i + 1]>>, AfterEscaped(i))

\* A group that matched nothing stands for nothing.
Backref(x, t, i) ==
  LET groups == IF t[i] = "$" THEN x.rr ELSE x.rc
      group == AsMet(x, groups[RuleDigits[t[i + 1]]])
      text == IF x.escapes THEN EscapeUri(group) ELSE group
  IN IF groups = Null THEN NoPiece(i + 2)
     ELSE [Piece(text, i + 2) EXCEPT !.span = Span(text, group)]

\* ${map:key|default}, where the key and the default are expanded themselves.
MapCall(t, i, colon, end) ==
  LET rest == SubSeq(t, colon + 1, end - 1)
      bar == FindCharInCurlies(rest, 1, "|")
  IN [map |-> SubSeq(t, i + 2, colon - 1),
      key |-> IF bar = {} THEN rest ELSE SubSeq(rest, 1, Min(bar) - 1),
      default |-> IF bar = {} THEN <<>> ELSE SubSeq(rest, Min(bar) + 1, Len(rest))]

\* expand[t] is what do_expand makes of t, for the shorter texts it calls itself for;
\* Null for one that the user may not expand.
Default(expand, text, next) ==
  IF expand[text] = Null THEN NoPiece(next)
  ELSE [Piece(expand[text].text, next) EXCEPT !.crash = expand[text].crash]
Fetch(x, expand, call, next) ==
  LET key == expand[call.key]
      found == MapOf(call.map, Filled(key.text))
  IN IF key = Null THEN Crash(next)
     ELSE IF key.crash THEN Crash(next)
     ELSE IF found # Null THEN Piece(AsMet(x, found), next)
     ELSE IF call.default = <<>> THEN NoPiece(next)
     ELSE Default(expand, call.default, next)

Curly(x, expand, t, i) ==
  LET end == FindClosingCurly(t, i + 2)
      colon == FindCharInCurlies(t, i + 2, ":")
      asItIs == Piece(SubSeq(t, i, i + 1), i + 2)
  IN IF end = {} THEN asItIs
     ELSE IF t[i] = "%"
     THEN Piece(AsMet(x, VariableOf(SubSeq(t, i + 2, Min(end) - 1))), Min(end) + 1)
     ELSE IF colon = {} THEN asItIs
     ELSE Fetch(x, expand, MapCall(t, i, Min(colon), Min(end)), Min(end) + 1)

PieceAt(x, expand, t, i) ==
  CASE t[i] \notin RuleSpecial -> Piece(<<t[i]>>, i + 1)
    [] t[i] = "\\" -> Backslash(t, i)
    [] t[i] \in {"$", "%"} ->
         IF i < Len(t) /\ t[i + 1] = "{" THEN Curly(x, expand, t, i)
         ELSE IF i < Len(t) /\ t[i + 1] \in DOMAIN RuleDigits THEN Backref(x, t, i)
         ELSE Piece(<<t[i]>>, i + 1)

Added(pieces) ==
  LET outlen[k \in 0 .. Len(pieces)] == IF k = 0 THEN 0 ELSE outlen[k - 1] + pieces[k].span
  IN outlen[Len(pieces)]

Expansion(x, expand, t) ==
  LET pieces == PiecesOf(Len(t), [i \in 1 .. Len(t) |-> PieceAt(x, expand, t, i)])
  IN IF t \in x.denied THEN Null
     ELSE [text |-> Joined(pieces), outlen |-> Added(pieces),
           crash |-> \E i \in DOMAIN pieces : pieces[i].crash]
DoExpand(x) ==
  LET expand[t \in Seq(STRING)] == Expansion(x, expand, t) IN expand
-----------------------------------------------------------------------------
MayCrash == rule_copy.malloc

\* One call for a rule; lookup_map takes no NULL for a key.
Expand(t) ==
  /\ progress = "start"
  /\ given' = t
  /\ expanded' = DoExpand(Settings(TRUE))[t]
  /\ progress' \in {IF expanded' # Null /\ expanded'.crash THEN "crashed" ELSE "done"}
                   \cup (IF MayCrash THEN {"crashed"} ELSE {})
  /\ UNCHANGED <<rule_copy, ctx, escape, denied, items, env>>

\* do_expand_env: no entry, so that nothing is escaped.
SetEnv(list) ==
  /\ progress = "start" /\ ~escape
  /\ progress' = "env" /\ items' = list
  /\ UNCHANGED <<rule_copy, ctx, escape, denied, given, expanded, env>>

\* The value is what follows the name, the colon with it; the name is not cut off.
From(text, c) ==
  LET found == {i \in DOMAIN text : text[i] = c} IN
  IF found = {} THEN Null ELSE SubSeq(text, Min(found), Len(text))
SetNext ==
  /\ progress = "env" /\ items # <<>>
  /\ items' = Tail(items)
  /\ LET item == DoExpand(Settings(TRUE))[Head(items)]
         name == item.text
     IN IF item = Null THEN progress' = "crashed" /\ UNCHANGED env
        ELSE IF item.crash THEN progress' = "crashed" /\ UNCHANGED env
        ELSE /\ UNCHANGED progress
             /\ env' = IF name # <<>> /\ name[1] = "!"
                       THEN Restrict(env, DOMAIN env \ {Tail(name)})
                       ELSE (name :> From(name, ":")) @@ env
  /\ UNCHANGED <<rule_copy, ctx, escape, denied, given, expanded>>

ExpandNext ==
  \/ \E t \in Templates : Expand(t)
  \/ \E list \in Items : SetEnv(list)
  \/ SetNext

ExpandSpec == ExpandInit /\ [][ExpandNext]_expand_vars
-----------------------------------------------------------------------------
Expanded == progress = "done" /\ expanded # Null

\* The lengths that were added up are those of what is copied: the assertion before
\* each copy holds, and the text fills its memory to the end.
LengthsAgree == Expanded => Len(expanded.text) = expanded.outlen

\* What a variable, a map or a group holds is never expanded itself, whatever it looks
\* like: with each value standing as one character, the text comes out the same once
\* they are filled in.  And a text whose special characters are all protected comes
\* out as it was.
ExpandsOnce ==
  Expanded /\ denied = {} =>
    /\ ~escape => expanded.text = Filled(DoExpand(Settings(FALSE))[given].text)
    /\ DoExpand(Settings(TRUE))[Quoted(given, RuleSpecial)].text = given

\* A rule's text is expanded once, into memory of its length.
ExpandsRight == LengthsAgree /\ ExpandsOnce
=============================================================================
