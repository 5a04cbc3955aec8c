---------------------------- MODULE SsiConditions ----------------------------
(***************************************************************************)
(* mod_include's conditions: the elements if, elif, else and endif of a     *)
(* page decide which of its parts are sent.  All the filter keeps of them   *)
(* is two flags, and a count of the conditions that were opened where       *)
(* nothing is sent.                                                         *)
(*                                                                          *)
(* A page is any sequence of elements in which every elif, else and endif   *)
(* belongs to an if, with one else at most, after every elif.               *)
(***************************************************************************)
EXTENDS Integers, Sequences

CONSTANTS
  IfCopies, ElifCopies,   \* the copies of handle_if and of handle_elif
  MaxDepth                \* bound: conditions within each other

(* What may be wrong with an element: it has no argument ("few"), several  *)
(* ("many"), one of another name ("tag"), one without a value ("missing"), *)
(* or its expression cannot be evaluated ("error").                        *)
Faults == {"few", "many", "tag", "missing", "error"}

(* handle_if:                                                              *)
(*   refuses  the faults on which it gives up                              *)
(*   tells    it then puts an error into the page                          *)
If_193 == [refuses |-> Faults, tells |-> TRUE]
If_71 == If_193
If_146 == If_193
If_76 == If_193
If_47 == [If_193 EXCEPT !.refuses = {"few", "many"}]
If_84 == [If_193 EXCEPT !.tells = FALSE]

(* handle_elif, also:                                                      *)
(*   before  after a true branch it prints nothing ("stops"), does not ask *)
(*           ("ignores"), or leaves everything as it is ("stays")          *)
(*   always  it takes every expression for true                            *)
Elif_194 == [refuses |-> {"error"}, tells |-> TRUE, before |-> "ignores", always |-> FALSE]
Elif_72 == [Elif_194 EXCEPT !.refuses = Faults, !.before = "stops"]
Elif_85 == Elif_72
Elif_77 == [Elif_72 EXCEPT !.refuses = Faults \ {"error"}]
Elif_48 == [Elif_72 EXCEPT !.tells = FALSE, !.before = "stays"]
Elif_147 == [Elif_77 EXCEPT !.tells = FALSE, !.always = TRUE]

ASSUME ConditionsAssumption ==
  /\ IfCopies \subseteq [refuses : SUBSET Faults, tells : BOOLEAN]
  /\ ElifCopies \subseteq
       [refuses : SUBSET Faults, tells : BOOLEAN, before : {"stops", "ignores", "stays"},
        always : BOOLEAN]
  /\ MaxDepth \in Nat
-----------------------------------------------------------------------------
VARIABLES
  copy,                \* [if, elif]
  printing, cond_true, \* SSI_FLAG_PRINTING, SSI_FLAG_COND_TRUE
  if_nesting_level,
  out,                 \* what the last element put into the page: "nothing", "text", "error"
  page                 \* history: the conditions that are open, outermost first

vars == <<copy, printing, cond_true, if_nesting_level, out, page>>

Init ==
  /\ copy \in [if : IfCopies, elif : ElifCopies]
  /\ printing = TRUE /\ cond_true = TRUE
  /\ if_nesting_level = 0
  /\ out = "nothing"
  /\ page = <<>>
-----------------------------------------------------------------------------
(* What the page says, of each condition by itself: whether a branch       *)
(* before the last was true, and the last.                                 *)
Opened(value) == [earlier |-> FALSE, last |-> value, else |-> FALSE]
Taken(level) == level.earlier \/ level.last
Another(level, value) == [level EXCEPT !.earlier = Taken(level), !.last = value]

\* The first true branch is the one that is sent; of the two kinds of copies that
\* print otherwise, one sends every true branch, one all after the first but the else.
Chosen(level) ==
  \/ copy.elif.before = "stops" /\ level.last /\ ~level.earlier
  \/ copy.elif.before = "ignores" /\ level.last
  \/ copy.elif.before = "stays" /\ (level.last \/ (level.earlier /\ ~level.else))
ElseOf(level) ==
  [Another(level, IF copy.elif.before = "ignores" THEN ~level.last ELSE ~Taken(level))
     EXCEPT !.else = TRUE]

Top == page[Len(page)]
Below == SubSeq(page, 1, Len(page) - 1)
OnTop(level) == page' = Append(Below, level)

\* A fault the handler does not mind leaves it with an expression that holds, unless
\* it read one; an if that is refused leaves its branch as if it held.
Refused(v, e) == e.fault \in v.refuses
Value(v, e) == IF e.fault \in {"few", "missing", "error"} THEN TRUE ELSE e.value
Element == [fault : Faults \cup {"none"}, value : BOOLEAN]
Told(v) == IF v.tells THEN "error" ELSE "nothing"
-----------------------------------------------------------------------------
Flags(value) == printing' = value /\ cond_true' = value
SameFlags == UNCHANGED <<printing, cond_true>>

ForgetsNesting(e) ==   \* mutant
  /\ Len(page) < MaxDepth
  /\ page' = Append(page, Opened(Refused(copy.if, e) \/ Value(copy.if, e)))
  /\ UNCHANGED <<copy, if_nesting_level>>
  /\ \/ ~printing /\ out' = "nothing" /\ SameFlags
     \/ printing /\ Refused(copy.if, e) /\ out' = Told(copy.if) /\ SameFlags
     \/ printing /\ ~Refused(copy.if, e) /\ out' = "nothing" /\ Flags(Value(copy.if, e))
HandleIf(e) ==
  /\ Len(page) < MaxDepth
  /\ page' = Append(page, Opened(Refused(copy.if, e) \/ Value(copy.if, e)))
  /\ UNCHANGED copy
  /\ \/ ~printing
        /\ if_nesting_level' = if_nesting_level + 1
        /\ out' = "nothing" /\ SameFlags
     \/ printing /\ Refused(copy.if, e)
        /\ out' = Told(copy.if) /\ SameFlags /\ UNCHANGED if_nesting_level
     \/ printing /\ ~Refused(copy.if, e)
        /\ Flags(Value(copy.if, e))
        /\ if_nesting_level' = 0
        /\ out' = "nothing"

\* Whether the expression is evaluated at all is asked after the argument and before
\* the expression: an error in it is met only then.
Evaluated == ~(cond_true /\ copy.elif.before # "ignores")
Rejects(e) == Refused(copy.elif, e) /\ (e.fault = "error" => Evaluated)

HandleElif(e) ==
  /\ page # <<>> /\ ~Top.else
  /\ UNCHANGED <<copy, if_nesting_level>>
  /\ \/ if_nesting_level > 0 /\ out' = "nothing" /\ SameFlags
     \/ if_nesting_level = 0 /\ Rejects(e) /\ out' = Told(copy.elif) /\ SameFlags
     \/ if_nesting_level = 0 /\ ~Rejects(e) /\ ~Evaluated /\ out' = "nothing"
        /\ UNCHANGED cond_true
        /\ printing' = (printing /\ copy.elif.before = "stays")
     \/ if_nesting_level = 0 /\ ~Rejects(e) /\ Evaluated /\ out' = "nothing"
        /\ Flags(copy.elif.always \/ Value(copy.elif, e))
  /\ \* Of the page: an elif that is refused is not there.
     IF Refused(copy.elif, e) /\ (e.fault = "error" => copy.elif.before = "ignores" \/ ~Taken(Top))
     THEN UNCHANGED page
     ELSE OnTop(Another(Top, copy.elif.always \/ Value(copy.elif, e)))

HandleElse ==
  /\ page # <<>> /\ ~Top.else
  /\ \/ if_nesting_level > 0 /\ SameFlags
     \/ if_nesting_level = 0 /\ cond_true /\ printing' = FALSE /\ UNCHANGED cond_true
     \/ if_nesting_level = 0 /\ ~cond_true /\ Flags(TRUE)
  /\ out' = "nothing" /\ OnTop(ElseOf(Top))
  /\ UNCHANGED <<copy, if_nesting_level>>

HandleEndif ==
  /\ page # <<>>
  /\ \/ if_nesting_level > 0 /\ if_nesting_level' = if_nesting_level - 1 /\ SameFlags
     \/ if_nesting_level = 0 /\ Flags(TRUE) /\ UNCHANGED if_nesting_level
  /\ out' = "nothing" /\ page' = Below
  /\ UNCHANGED copy

\* What is not an element is sent where the page is printed, and so is what an
\* element prints that may have no argument.
Text ==
  /\ out' = IF printing THEN "text" ELSE "nothing"
  /\ UNCHANGED <<copy, printing, cond_true, if_nesting_level, page>>
HandlePrintenv(argc) ==
  /\ out' = IF argc = 0 /\ printing THEN "text" ELSE "nothing"
  /\ UNCHANGED <<copy, printing, cond_true, if_nesting_level, page>>

Next ==
  \/ \E e \in Element : HandleIf(e) \/ HandleElif(e)
  \/ HandleElse \/ HandleEndif
  \/ Text
  \/ \E argc \in 0 .. 1 : HandlePrintenv(argc)

Spec == Init /\ [][Next]_vars
-----------------------------------------------------------------------------
Level == [earlier : BOOLEAN, last : BOOLEAN, else : BOOLEAN]

TypeOK ==
  /\ copy \in [if : IfCopies, elif : ElifCopies]
  /\ printing \in BOOLEAN /\ cond_true \in BOOLEAN
  /\ if_nesting_level \in Nat
  /\ out \in {"nothing", "text", "error"}
  /\ page \in Seq(Level)

\* Two flags and a count do for conditions of any depth: the page is sent where every
\* open condition has its branch chosen, nowhere else - neither its text nor an error
\* about one of its elements, which needs what is around its condition to be sent.
PrintsChosen ==
  /\ printing <=> \A k \in DOMAIN page : Chosen(page[k])
  /\ out = "text" => \A k \in DOMAIN page : Chosen(page[k])
  /\ out = "error" => \A k \in DOMAIN page : k < Len(page) => Chosen(page[k])
=============================================================================
