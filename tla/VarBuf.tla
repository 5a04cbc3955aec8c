------------------------------- MODULE VarBuf -------------------------------
(***************************************************************************)
(* ap_varbuf: a text that grows in place.  Its owner appends to it, empties *)
(* it or writes into it; regsub_core appends what a replacement stands for; *)
(* ap_varbuf_cfg_getline reads a line of any length into it.  All of them   *)
(* have ap_varbuf_grow find the room.  regsub_core can also make a text of  *)
(* its own.                                                                 *)
(*                                                                          *)
(* Abstracted: sizes are a few bytes; a text is what stands before the      *)
(* buffer's first NUL.                                                      *)
(***************************************************************************)
EXTENDS Substitution

CONSTANTS
  SmallSize, MaxSize,   \* VARBUF_SMALL_SIZE and VARBUF_MAX_SIZE
  Align,                \* what APR_ALIGN_DEFAULT rounds up to
  NodeStep,             \* ... and the sizes of an allocator's nodes
  Sizes,                \* what buffers are made with
  Texts, Lines,         \* what owners append or write, and what files hold
  Cases, OwnCases,      \* what regsub_core may be called with, for a buffer or without
  MaxOps                \* bound: operations on one buffer

RoundUp(n, step) == ((n + step - 1) \div step) * step

\* A text and its NUL are in memory, and a group that took part in a match is in its source.
Case(c) ==
  /\ c.input \in Seq(STRING) /\ c.nmatch \in Nat /\ c.maxlen \in Nat
  /\ c.source # NoSource => c.source \in Seq(STRING) /\ Len(c.source) < SizeMax
  /\ Len(c.input) < SizeMax
  /\ c.nmatch > 0 => \A n \in 0 .. 2 :
       /\ n \in DOMAIN c.pmatch
       /\ c.pmatch[n].so \in Int /\ c.pmatch[n].eo \in Int
       /\ c.source # NoSource /\ c.pmatch[n].so < c.pmatch[n].eo =>
            c.pmatch[n].so >= 0 /\ c.pmatch[n].eo <= Len(c.source)

ASSUME VarBufAssumption ==
  /\ SubstitutionAssumption
  /\ {SmallSize, MaxSize, MaxOps} \subseteq Nat /\ {Align, NodeStep} \subseteq Nat \ {0}
  /\ SmallSize < MaxSize /\ 2 * (SmallSize + Align) <= SizeMax /\ MaxSize + NodeStep <= SizeMax
  /\ \A size \in Sizes : size \in Nat /\ size + Align <= SizeMax
  /\ Texts \subseteq Seq(STRING) /\ Lines \subseteq Seq(STRING)
  /\ \A c \in Cases \cup OwnCases : Case(c)
-----------------------------------------------------------------------------
(* ap_varbuf_grow:                                                         *)
(*   asks      it does nothing for a user of another role                  *)
(*   limits    it tests whether more is wanted than there can be           *)
(*   fails     without memory: it ends the process ("abort"), "returns",   *)
(*             or leaves no buffer ("null")                                *)
(*   extends   it sees that new memory follows what it has                 *)
(*   frees     it gives the old node back                                  *)
(*   malloc    it takes small memory from the system too, which may have   *)
(*             none                                                        *)
(*   replaces  it puts something in the place of a certain text            *)
Grow_991 ==
  [asks |-> FALSE, limits |-> TRUE, fails |-> "abort", extends |-> TRUE, frees |-> TRUE,
   malloc |-> FALSE, replaces |-> FALSE]
Grow_835 == Grow_991
Grow_837 == Grow_991
Grow_839 == Grow_991
Grow_991_safe == [Grow_991 EXCEPT !.asks = TRUE]
Grow_837_safe == Grow_991_safe
Grow_838 == [Grow_991 EXCEPT !.extends = FALSE, !.frees = FALSE, !.malloc = TRUE]
Grow_840 == [Grow_991 EXCEPT !.limits = FALSE, !.fails = "null", !.frees = FALSE]
Grow_852 == [Grow_991 EXCEPT !.fails = "returns", !.extends = FALSE, !.frees = FALSE]
Grow_995 == Grow_852
Grow_993 == [Grow_991 EXCEPT !.replaces = TRUE]

\* The copies that are used together: each of the one with the plainest of the other.
Pair(s, g) == [sub |-> s, grow |-> g]
BufCopies ==
  {Pair(s, Grow_991) : s \in {Sub_348, Sub_371, Sub_382, Sub_382_safe, Sub_589, Sub_1008, Sub_461,
                              Sub_349, Sub_459, Sub_635, Sub_673, Sub_673_safe, Sub_674, Sub_675,
                              Sub_1007}}
  \cup {Pair(Sub_348, g) : g \in {Grow_991, Grow_835, Grow_837, Grow_837_safe, Grow_839,
                                  Grow_991_safe, Grow_838, Grow_840, Grow_852, Grow_995, Grow_993}}

\* The text that is replaced is one character here, and so is what replaces it.
Sought == "D"
Instead == <<"I">>
-----------------------------------------------------------------------------
VARIABLES
  buf_copy,  \* [sub, grow]
  vb,        \* [strlen, avail, text, null]; strlen may be Unknown
  nodes,     \* nodes of the allocator that are taken for the buffer
  at,        \* "idle", "reading" a line, or how it ended: "aborted", "crashed", "past"
  line,      \* what is still to be read of the line
  lines,     \* history: lines read, and cfp->line_number
  said,      \* history: the text there should be
  own,       \* what regsub_core made without a buffer: [case, status, size, text]
  ops

buf_vars == <<buf_copy, vb, nodes, at, line, lines, said, own, ops>>

Unknown == -1   \* AP_VARBUF_UNKNOWN
NoOwn == [case |-> NoSource, status |-> "none", size |-> 0, text |-> <<>>]

\* ap_varbuf_init: at first all buffers of no size share one, empty for ever.
BufInit ==
  /\ buf_copy \in BufCopies
  /\ \E size \in Sizes :
       vb = [strlen |-> 0, avail |-> IF size = 0 THEN 0 ELSE RoundUp(size + 1, Align) - 1,
             text |-> <<>>, null |-> FALSE]
  /\ nodes = 0 /\ at = "idle"
  /\ line = <<>> /\ lines = [read |-> 0, number |-> 0]
  /\ said = <<>>
  /\ own = NoOwn /\ ops = 0
-----------------------------------------------------------------------------
(* ap_varbuf_grow, as what may come of it: [vb, nodes, at].                *)
Outcome(b, n, a) == [vb |-> b, nodes |-> n, at |-> a]

Kept(b) ==
  IF b.avail = 0 \/ b.strlen = 0 THEN <<>>
  ELSE IF b.strlen = Unknown THEN b.text ELSE SubSeq(b.text, 1, b.strlen)

NoMemory(b) ==
  CASE buf_copy.grow.fails = "abort" -> Outcome(b, nodes, "aborted")
    [] buf_copy.grow.fails = "returns" -> Outcome(b, nodes, "idle")
    [] OTHER -> Outcome([b EXCEPT !.null = TRUE], nodes, "idle")

\* From the pool: the new memory may directly follow the buffer's.
Small(b, len) ==
  LET moved == [b EXCEPT !.text = Kept(b), !.avail = Wrap(len - 1)]
      longer == [b EXCEPT !.avail = b.avail + len]
  IN {Outcome(moved, nodes, "idle")}
     \cup (IF buf_copy.grow.extends /\ b.avail > 0 /\ b.strlen # 0
           THEN {Outcome(longer, nodes, "idle")} ELSE {})
     \cup (IF buf_copy.grow.malloc THEN {Outcome(b, nodes, "crashed")} ELSE {})

\* From the allocator: a node is no smaller than what was asked for.
Large(b, len) ==
  LET size == IF buf_copy.grow.malloc THEN len ELSE RoundUp(len, NodeStep)
      text == IF buf_copy.grow.replaces /\ Contains(Kept(b), Sought) THEN Instead ELSE Kept(b)
      moved == [b EXCEPT !.text = text, !.avail = size - 1]
  IN {NoMemory(b)}
     \cup IF len > MaxSize THEN {}
          ELSE {Outcome(moved, IF buf_copy.grow.frees THEN 1 ELSE nodes + 1, "idle")}

Suffices(b, new_len) == new_len <= b.avail
Grown(b, new_len) ==
  LET doubles == new_len < 2 * b.avail /\ b.avail < MaxSize \div 2
      len == Wrap((IF doubles THEN 2 * b.avail ELSE new_len) + 1)
  IN IF Suffices(b, new_len) THEN {Outcome(b, nodes, "idle")}
     ELSE (IF buf_copy.grow.asks THEN {Outcome(b, nodes, "idle")} ELSE {})
          \cup IF ~doubles /\ buf_copy.grow.limits /\ new_len > MaxSize THEN {NoMemory(b)}
               ELSE IF len <= SmallSize THEN Small(b, RoundUp(len, Align)) ELSE Large(b, len)
-----------------------------------------------------------------------------
(* Writing at the end: into no buffer, past its end, or well.              *)
Known(b) == IF b.strlen = Unknown THEN [b EXCEPT !.strlen = Len(b.text)] ELSE b
Fits(b, n) == b.strlen + n <= b.avail

Writes(outcome, text, len) ==
  LET b == outcome.vb IN
  /\ nodes' = outcome.nodes
  /\ IF outcome.at # "idle" THEN at' = outcome.at /\ vb' = b
     ELSE IF b.null THEN at' = "crashed" /\ vb' = b
     ELSE IF ~Fits(b, Len(text)) THEN at' = "past" /\ vb' = b
     ELSE at' = "idle" /\ vb' = [b EXCEPT !.text = b.text \o text, !.strlen = @ + len]

Begin == at = "idle" /\ own = NoOwn /\ ops < MaxOps /\ ops' = ops + 1
OwnersOnly == UNCHANGED <<buf_copy, line, lines, own>>

\* ap_varbuf_strmemcat
Append_(text) ==
  /\ Begin
  /\ \E outcome \in Grown(Known(vb), Wrap(Known(vb).strlen + Len(text))) :
       Writes(outcome, text, Len(text))
  /\ said' = said \o text
  /\ OwnersOnly

\* The owner writes a text of its own into the room there is.
Write(text) ==
  /\ Begin
  /\ ~vb.null /\ Len(text) <= vb.avail
  /\ vb' = [vb EXCEPT !.text = text, !.strlen = Unknown]
  /\ said' = text
  /\ UNCHANGED <<nodes, at>> /\ OwnersOnly

Empty ==
  /\ Begin /\ ~vb.null /\ vb.text # <<>>
  /\ vb' = [vb EXCEPT !.text = <<>>, !.strlen = 0]
  /\ said' = <<>>
  /\ UNCHANGED <<nodes, at>> /\ OwnersOnly
-----------------------------------------------------------------------------
(* regsub_core.  A case is the arguments of a call.                        *)
StatusOf(c) == Status(buf_copy.sub, c.input, c.source, c.pmatch, c.nmatch, c.maxlen)
WrittenOf(c) ==
  IF c.nmatch = 0 THEN c.input ELSE Written(buf_copy.sub, c.input, c.source, c.pmatch, c.nmatch)
CountedOf(c) ==
  IF c.nmatch = 0 THEN Len(c.input) ELSE Counted(buf_copy.sub, c.input, c.pmatch, c.nmatch).len
Runaway(c) == c.nmatch > 0 /\ RunsAway(buf_copy.sub, c.input, c.pmatch, c.nmatch)

StandsForOf(c) ==
  IF c.nmatch = 0 THEN c.input
  ELSE StandsFor(buf_copy.sub.second = "ampersand", c.input, c.source, c.pmatch, c.nmatch)

\* Into the buffer.
RegsubAppends(c) ==
  /\ Begin
  /\ StatusOf(c) = "ok" /\ ~Runaway(c)
  /\ LET b == Known(vb) IN
     \E outcome \in Grown(b, Wrap(b.strlen + CountedOf(c))) :
       Writes(outcome, WrittenOf(c), CountedOf(c))
  /\ said' = said \o StandsForOf(c)
  /\ OwnersOnly

\* A refusal leaves the buffer alone.
RegsubRefuses(c) ==
  /\ Begin
  /\ \/ buf_copy.sub.asks /\ UNCHANGED at
     \/ StatusOf(c) \in {"EINVAL", "ENOMEM", "unset"} /\ UNCHANGED at
     \/ (StatusOf(c) = "crashed" \/ (StatusOf(c) = "ok" /\ Runaway(c))) /\ at' = "crashed"
  /\ UNCHANGED <<vb, nodes, said>> /\ OwnersOnly

\* Into memory of its own, asked for with a byte more.
Fresh == own = NoOwn /\ ops = 0
RegsubMakes(c) ==
  /\ Fresh
  /\ \E status \in {StatusOf(c)} \cup (IF buf_copy.sub.asks THEN {"EACCES"} ELSE {}) :
       own' = [case |-> c,
               status |-> IF status = "ok" /\ Runaway(c) THEN "crashed" ELSE status,
               size |-> IF status = "ok" THEN Wrap(CountedOf(c) + 1) ELSE 0,
               text |-> IF status = "ok" /\ ~Runaway(c) THEN WrittenOf(c) ELSE <<>>]
  /\ UNCHANGED <<buf_copy, vb, nodes, at, line, lines, said, ops>>
-----------------------------------------------------------------------------
(* ap_varbuf_cfg_getline                                                   *)
Quadruple(b) == Wrap(b.avail * 4)

Settles(outcome, b) ==
  /\ nodes' = outcome.nodes
  /\ vb' = b
  /\ at' = IF outcome.at # "idle" THEN outcome.at ELSE IF b.null THEN "crashed" ELSE "reading"

StartLine(text) ==
  /\ Begin
  /\ LET b == [vb EXCEPT !.strlen = 0, !.text = <<>>] IN
     \E outcome \in IF b.avail < 3 THEN Grown(b, Quadruple(b)) ELSE {Outcome(b, nodes, "idle")} :
       Settles(outcome, outcome.vb)
  /\ line' = text /\ said' = text
  /\ UNCHANGED <<buf_copy, lines, own>>

\* ap_cfg_getline_core reads what there is room for, and counts a line.
Room == Max({vb.avail - vb.strlen - 1, 0})
Uncount(n) == n - 1

ReadPart ==
  /\ at = "reading" /\ Len(line) > Room
  /\ LET part == SubSeq(line, 1, Room)
         b == [vb EXCEPT !.text = @ \o part, !.strlen = @ + Room]
     IN /\ line' = SubSeq(line, Room + 1, Len(line))
        /\ \E outcome \in Grown(b, Quadruple(b)) : Settles(outcome, outcome.vb)
  /\ lines' = [lines EXCEPT !.number = Uncount(@ + 1)]
  /\ UNCHANGED <<buf_copy, said, own, ops>>

IsBlank(c) == c = " "
Trim(text) ==
  LET solid == {i \in DOMAIN text : ~IsBlank(text[i])} IN
  IF solid = {} THEN <<>> ELSE SubSeq(text, Min(solid), Max(solid))

ReadRest ==
  /\ at = "reading" /\ Len(line) <= Room
  /\ vb' = [vb EXCEPT !.text = Trim(vb.text \o line), !.strlen = Len(Trim(vb.text \o line))]
  /\ at' = "idle"
  /\ line' = <<>>
  /\ lines' = [read |-> lines.read + 1, number |-> lines.number + 1]
  /\ said' = Trim(said)
  /\ UNCHANGED <<buf_copy, nodes, own, ops>>
-----------------------------------------------------------------------------
BufNext ==
  \/ \E text \in Texts : Append_(text) \/ Write(text)
  \/ Empty
  \/ \E c \in Cases : RegsubAppends(c) \/ RegsubRefuses(c)
  \/ Fresh /\ \E c \in OwnCases : RegsubMakes(c)
  \/ \E text \in Lines : StartLine(text)
  \/ ReadPart \/ ReadRest

BufSpec == BufInit /\ [][BufNext]_buf_vars
-----------------------------------------------------------------------------
\* Of the copies that grow or end the process, the text is what its owner made of
\* it, however often the buffer moved, was lengthened in place, or a line came in
\* parts: each line was counted once, and no node was left behind.
Reliable ==
  /\ ~buf_copy.grow.asks /\ buf_copy.grow.fails = "abort" /\ ~buf_copy.grow.replaces
  /\ buf_copy.sub.second = "alike" /\ buf_copy.sub.digit
BufferKept ==
  Reliable =>
    /\ at = "idle" => vb.text = said /\ vb.strlen \in {Len(said), Unknown}
    /\ at = "reading" => vb.text \o line = said
    /\ at = "idle" => lines.read = lines.number
    /\ buf_copy.grow.frees => nodes <= 1

\* What regsub_core writes has room in what it counted: no byte is written past the
\* end of a buffer, or of the memory that was asked for.  Two kinds of calls are left
\* out because there the two passes do disagree: an & or a backslash where only the
\* second pass knows them, and a text that no longer fits its length's type - which
\* no copy tests for single characters, or for what the buffer held before, and some
\* do not test at all.
Ordinary(c) ==
  LET tokens == SecondTokens(buf_copy.sub, c.input) IN
  \E i \in DOMAIN tokens : tokens[i].group >= MaxRegMatch
Agrees(c) ==
  /\ buf_copy.sub.second = "ampersand" => \A i \in DOMAIN c.input : c.input[i] \notin {"&", "\\"}
  /\ Len(WrittenOf(c)) < SizeMax \/ (buf_copy.sub.overflow /\ ~Ordinary(c))
FitsCounted ==
  /\ Reliable /\ Len(said) < SizeMax => at # "past"
  /\ own.status = "ok" /\ Agrees(own.case) => Len(own.text) < own.size

\* What regsub_core makes is what the replacement stands for; where a reference needs
\* no digit, of the replacements whose dollars all have one.
DollarsRefer(c) ==
  \A i \in DOMAIN c.input : c.input[i] = "$" => i < Len(c.input) /\ IsDigit(c.input[i + 1])
Substitutes ==
  own.status = "ok" /\ (buf_copy.sub.digit \/ DollarsRefer(own.case)) =>
    own.text = StandsForOf(own.case)

\* A buffer holds what its owners put there, a replacement comes out as what it stands
\* for, and neither is written past its end.
TextKept == BufferKept /\ Substitutes /\ FitsCounted
=============================================================================
