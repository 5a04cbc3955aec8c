------------------------------ MODULE SsiString ------------------------------
(***************************************************************************)
(* ap_ssi_parse_string: a text of a page in which $name and ${name} stand   *)
(* for variables, into a buffer of the caller's or into memory of its own,  *)
(* of no more than a given length.                                          *)
(*                                                                          *)
(* It takes the text piece by piece, and stops when there is no room.  In   *)
(* memory of its own it puts the pieces only when it knows their length.    *)
(***************************************************************************)
EXTENDS TextPieces

CONSTANTS
  Inputs,     \* texts
  Lengths,    \* what a caller allows; 0 is no limit
  Values      \* get_include_var, by name

PageSpecial == {"\\", "$"}
NameChars == {"0", "v", "w"}

ASSUME ParseAssumption ==
  /\ PageSpecial \subseteq STRING
  /\ Inputs \subseteq Seq(STRING) /\ Lengths \subseteq Nat
  /\ \A name \in DOMAIN Values : Values[name] \in Seq(Character)

(* ap_ssi_parse_string:                                                    *)
(*   measures  it copies no more of a piece than there is room             *)
Parse_541 == [measures |-> TRUE]
Parse_680 == Parse_541
Parse_139 == Parse_541
Parse_188 == Parse_541
Parse_432 == Parse_541
Parse_41 == [Parse_541 EXCEPT !.measures = FALSE]
ParseCopies == {Parse_541, Parse_680, Parse_139, Parse_188, Parse_432, Parse_41}
-----------------------------------------------------------------------------
VARIABLES
  parse_copy,
  parse_call,   \* [in, out: whether the caller has a buffer, length, leave_name], or none
  parsed        \* [text, past: whether it wrote behind its memory]

parse_vars == <<parse_copy, parse_call, parsed>>
NoResult == [text |-> <<>>, past |-> FALSE]
NoCall == [in |-> <<>>, out |-> FALSE, length |-> 0, leave_name |-> FALSE]

ParseInit == parse_copy \in ParseCopies /\ parse_call = NoCall /\ parsed = NoResult
-----------------------------------------------------------------------------
\* The first place from i on of one of these characters, or the end.
Until(t, i, stops) == Min({j \in i .. Len(t) + 1 : j = Len(t) + 1 \/ t[j] \in stops})

Part(text, next) == [text |-> text, next |-> next]
Missing(t) == Part(<<>>, Len(t) + 1)

\* A name that is left as it is loses its closing curly.
Variable(x, name, left, next) ==
  Part(IF name \in DOMAIN Values THEN (IF x.fill THEN Filled(Values[name]) ELSE Values[name])
       ELSE IF x.leave_name THEN left ELSE <<>>, next)

Dollar(x, t, i) ==
  LET curly == i < Len(t) /\ t[i + 1] = "{"
      from == IF curly THEN i + 2 ELSE i + 1
      end == IF curly THEN Until(t, from, {"}"})
             ELSE Until(t, from, Range(t) \ NameChars)
  IN IF curly /\ end > Len(t) THEN Missing(t)
     ELSE IF end = from THEN Part(<<"$">>, i + 1)
     ELSE Variable(x, SubSeq(t, from, end - 1), SubSeq(t, i, end - 1), IF curly THEN end + 1 ELSE end)

PartAt(x, t, i) ==
  CASE t[i] = "\\" /\ i < Len(t) /\ t[i + 1] = "$" -> Part(<<"$">>, i + 2)
    [] t[i] = "\\" /\ ~(i < Len(t) /\ t[i + 1] = "$") -> Part(<<"\\">>, i + 1)
    [] t[i] = "$" -> Dollar(x, t, i)
    [] OTHER -> LET end == Until(t, i, PageSpecial)
                IN Part(SubSeq(t, i, end - 1), end)

Parts(x, t) == PiecesOf(Len(t), [i \in 1 .. Len(t) |-> PartAt(x, t, i)])

First(s, n) == SubSeq(s, 1, Min({n, Len(s)}))

\* The pieces it comes to before the room is used up; without a limit, all of them.
Length(parts) == Len(Joined(parts))
TakenUp(parts, limited, room) ==
  First(parts, Max({n \in 0 .. Len(parts) :
                     n = 0 \/ ~limited \/ Length(First(parts, n - 1)) < room}))

\* Whether a piece is copied for which there is no room.
Overruns(parts, limit, first) ==
  \E n \in DOMAIN parts : n >= first /\ Length(First(parts, n)) > limit
IsPlain(in) == \A i \in DOMAIN in : in[i] \notin PageSpecial

\* A NUL follows at the end of the buffer at the latest.
BehindTheEnd(c) == c.length   \* mutant
End(c) == c.length - 1
IntoBuffer(x, c) ==
  LET parts == TakenUp(Parts(x, c.in), TRUE, End(c))
      first == IF c.in[1] \in PageSpecial THEN 1 ELSE 2
  IN [text |-> First(Joined(parts), End(c)),
      past |-> ~x.measures /\ Overruns(parts, c.length, first)]

Cut(outlen, length) == IF length > 0 /\ outlen > length THEN length - 1 ELSE outlen
IntoPool(x, c) ==
  LET parts == TakenUp(Parts(x, c.in), c.length > 0, c.length)
      outlen == Cut(Length(parts), c.length)
  IN [text |-> First(Joined(parts), outlen),
      past |-> ~x.measures /\ Overruns(parts, outlen + 1, 1)]

\* A text with nothing to replace is copied without more ado.
Plain(c) ==
  [text |-> IF c.out \/ (c.length > 0 /\ c.length <= Len(c.in)) THEN First(c.in, c.length - 1)
            ELSE c.in,
   past |-> FALSE]

\* Values are filled in as they are met, or not; the copy may measure.
ParsedWith(x, c) ==
  IF IsPlain(c.in) THEN Plain(c) ELSE IF c.out THEN IntoBuffer(x, c) ELSE IntoPool(x, c)
Reads(fill, c) == [fill |-> fill, leave_name |-> c.leave_name, measures |-> parse_copy.measures]

Parse(c) ==
  /\ parse_call = NoCall
  /\ parse_call' = c
  /\ parsed' = ParsedWith(Reads(TRUE, c), c)
  /\ UNCHANGED parse_copy

\* A buffer has a length.
Calls == {c \in [in : Inputs, out : BOOLEAN, length : Lengths, leave_name : BOOLEAN] :
            c.out => c.length > 0}
ParseNext == \E c \in Calls : Parse(c)

ParseSpec == ParseInit /\ [][ParseNext]_parse_vars
-----------------------------------------------------------------------------
Unlimited(c) == [c EXCEPT !.out = FALSE, !.length = 0]
Whole(fill, c) == ParsedWith(Reads(fill, c), Unlimited(c)).text

\* A limit only cuts: what is parsed before the room is used up is what would have come
\* first without a limit.  In a buffer the NUL finds its room; memory of its own has room
\* for one character more if a piece ends there.  Nothing is written behind either but by
\* the copy that does not measure, and by it only if the text had to be cut.
LimitOnlyCuts ==
  LET whole == Whole(TRUE, parse_call) IN
  parse_call # NoCall =>
    /\ parsed.past => ~parse_copy.measures /\ Len(whole) >= parse_call.length
    /\ IsPrefix(parsed.text, whole)
    /\ parse_call.out => Len(parsed.text) = Min({Len(whole), parse_call.length - 1})
    /\ ~parse_call.out /\ parse_call.length > 0 =>
         \/ parsed.text = whole /\ Len(whole) <= parse_call.length
         \/ Len(parsed.text) \in {parse_call.length - 1, parse_call.length}

\* What a variable holds is not parsed itself; a text with its dollars protected comes
\* out as it was.
ParsesOnce ==
  parse_call # NoCall =>
    /\ Whole(TRUE, parse_call) = Filled(Whole(FALSE, parse_call))
    /\ Whole(TRUE, [parse_call EXCEPT !.in = Quoted(@, {"$"})]) = parse_call.in

\* What is parsed is what the text says, as far as there is room for it.
ParsesRight == LimitOnlyCuts /\ ParsesOnce
=============================================================================
