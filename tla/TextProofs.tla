----------------------------- MODULE TextProofs -----------------------------
(***************************************************************************)
(* Four arguments about texts of any length.                               *)
(*                                                                         *)
(* Conditions: however deep they are nested, the page is sent exactly      *)
(* where every open condition has its branch chosen.  The flags say it for *)
(* one condition only, the outermost whose branch is not chosen: the count *)
(* is that of the conditions within it, and nothing is known of those.     *)
(*                                                                         *)
(* Replacements and buffers: what is written for the characters that were  *)
(* read so far is what they stand for, each by itself; what was counted is *)
(* as long, until it is longer than its type can say; and a buffer that    *)
(* moves or is lengthened goes on holding what its owners put there.       *)
(*                                                                         *)
(* Strings of a page: each piece is what it is by itself, so that a limit  *)
(* can only cut what would come out without one; what a variable holds is  *)
(* a piece of its own, so that it can be filled in afterwards as well.     *)
(*                                                                         *)
(* Rules: the same, for a function that calls itself for shorter texts.    *)
(* That it is defined at all is the first step; what holds of its result   *)
(* holds by induction on the length of the text.                           *)
(***************************************************************************)
EXTENDS SsiConditions, VarBuf, RewriteExpand, SsiString, FiniteSetTheorems, SequenceTheorems,
        TLAPS

\* What cond_true says of a condition that still may have branches.
KnownOf(level) == IF copy.elif.before = "ignores" THEN level.last ELSE Taken(level)

\* The outermost condition whose branch is not chosen.
Hides(d) ==
  /\ if_nesting_level = Len(page) - d
  /\ ~Chosen(page[d])
  /\ \A k \in 1 .. d - 1 : Chosen(page[k])
  /\ ~page[d].else => cond_true = KnownOf(page[d])

Shown ==
  /\ if_nesting_level = 0 /\ cond_true = TRUE
  /\ \A k \in 1 .. Len(page) : Chosen(page[k])

Nested ==
  /\ TypeOK
  /\ printing => Shown
  /\ ~printing => \E d \in 1 .. Len(page) : Hides(d)
  /\ out = "text" => printing
  /\ out = "error" => \A k \in 1 .. Len(page) - 1 : Chosen(page[k])
-----------------------------------------------------------------------------
LEMMA CopyType ==
  ASSUME copy \in [if : IfCopies, elif : ElifCopies]
  PROVE  /\ copy.elif.before \in {"stops", "ignores", "stays"}
         /\ copy.elif.always \in BOOLEAN
         /\ Told(copy.if) \in {"nothing", "error"} /\ Told(copy.elif) \in {"nothing", "error"}
BY ConditionsAssumption DEF Told

LEMMA TypeValue ==
  ASSUME NEW v, NEW e \in Element
  PROVE  Value(v, e) \in BOOLEAN
BY DEF Value, Element

LEMMA OpenedType ==
  ASSUME copy \in [if : IfCopies, elif : ElifCopies], NEW value \in BOOLEAN
  PROVE  /\ Opened(value) \in Level
         /\ Chosen(Opened(value)) = value /\ KnownOf(Opened(value)) = value
BY CopyType DEF Level, Opened, Taken, Chosen, KnownOf

LEMMA LevelType ==
  ASSUME copy \in [if : IfCopies, elif : ElifCopies],
         NEW level \in Level, NEW value \in BOOLEAN
  PROVE  /\ Another(level, value) \in Level /\ ElseOf(level) \in Level
         /\ Taken(level) \in BOOLEAN /\ KnownOf(level) \in BOOLEAN
BY CopyType DEF Level, Another, ElseOf, Taken, KnownOf

LEMMA Shorter ==
  ASSUME NEW S, NEW s \in Seq(S), NEW n \in Nat, n <= Len(s)
  PROVE  /\ SubSeq(s, 1, n) \in Seq(S) /\ Len(SubSeq(s, 1, n)) = n
         /\ \A k \in 1 .. n : SubSeq(s, 1, n)[k] = s[k]
<1>1. SubSeq(s, 1, n) \in Seq(S) /\ Len(SubSeq(s, 1, n)) = n OBVIOUS
<1>2. \A k \in 1 .. n : SubSeq(s, 1, n)[k] = s[k] OBVIOUS
<1> QED BY <1>1, <1>2

\* The page without the condition on top, and with another in its place.
LEMMA BelowPage ==
  ASSUME page \in Seq(Level), page # <<>>
  PROVE  /\ Len(page) \in Nat \ {0} /\ Top \in Level /\ Top = page[Len(page)]
         /\ Below \in Seq(Level) /\ Len(Below) = Len(page) - 1
         /\ \A k \in 1 .. Len(page) - 1 : Below[k] = page[k]
<1>1. Len(page) \in Nat \ {0} /\ Top \in Level /\ Top = page[Len(page)] BY DEF Top
<1>2. Len(page) - 1 \in Nat /\ Len(page) - 1 <= Len(page) BY <1>1
<1>3. /\ Below \in Seq(Level) /\ Len(Below) = Len(page) - 1
      /\ \A k \in 1 .. Len(page) - 1 : Below[k] = page[k]
  BY <1>2, Shorter, Zenon DEF Below
<1> QED BY <1>1, <1>3

LEMMA OnTopPage ==
  ASSUME page \in Seq(Level), page # <<>>, NEW level \in Level, OnTop(level)
  PROVE  /\ page' \in Seq(Level) /\ Len(page') = Len(page)
         /\ page'[Len(page)] = level
         /\ \A k \in 1 .. Len(page) - 1 : page'[k] = page[k]
<1>1. page' = Append(Below, level) BY DEF OnTop
<1>2. page' \in Seq(Level) /\ Len(page') = Len(Below) + 1 BY <1>1, BelowPage
<1>3. page'[Len(Below) + 1] = level BY <1>1, BelowPage
<1>4. \A k \in 1 .. Len(Below) : page'[k] = Below[k] BY <1>1, BelowPage
<1> QED BY <1>2, <1>3, <1>4, BelowPage

LEMMA PushPage ==
  ASSUME page \in Seq(Level), NEW level \in Level, page' = Append(page, level)
  PROVE  /\ page' \in Seq(Level) /\ Len(page') = Len(page) + 1 /\ Len(page) \in Nat
         /\ page'[Len(page) + 1] = level
         /\ \A k \in 1 .. Len(page) : page'[k] = page[k]
OBVIOUS

LEMMA Carried ==
  ASSUME copy' = copy, NEW j, NEW level, page'[j] = level
  PROVE  /\ Chosen(page[j])' = Chosen(level)
         /\ KnownOf(page[j])' = KnownOf(level)
         /\ page'[j].else = level.else
BY DEF Chosen, KnownOf, Taken

\* What the two flags say of a condition that has just had a branch.
LEMMA Branch ==
  ASSUME copy \in [if : IfCopies, elif : ElifCopies], NEW level \in Level, ~level.else,
         NEW value \in BOOLEAN
  PROVE  /\ Chosen(level) => KnownOf(level) = TRUE
         /\ copy.elif.before = "ignores" \/ KnownOf(level) = FALSE =>
              Chosen(Another(level, value)) = value /\ KnownOf(Another(level, value)) = value
         /\ copy.elif.before # "ignores" /\ KnownOf(level) = TRUE =>
              /\ Chosen(Another(level, value)) = (Chosen(level) /\ copy.elif.before = "stays")
              /\ KnownOf(Another(level, value)) = TRUE
         /\ Chosen(ElseOf(level)) = ~KnownOf(level)
         /\ ElseOf(level).else = TRUE /\ Another(level, value).else = FALSE
BY CopyType DEF Level, Chosen, KnownOf, Taken, Another, ElseOf
-----------------------------------------------------------------------------
LEMMA IfNested ==
  ASSUME Nested, NEW e \in Element, HandleIf(e)
  PROVE  Nested'
<1>1. PICK value \in BOOLEAN :
        /\ value = (Refused(copy.if, e) \/ Value(copy.if, e))
        /\ Value(copy.if, e) \in BOOLEAN
  BY TypeValue
<1>2. copy' = copy /\ page \in Seq(Level) /\ copy \in [if : IfCopies, elif : ElifCopies]
  BY DEF HandleIf, Nested, TypeOK
<1>b. PICK n \in Nat : n = Len(page)
  BY <1>2
<1>3. Opened(value) \in Level /\ Chosen(Opened(value)) = value /\ KnownOf(Opened(value)) = value
  BY <1>2, OpenedType
<1>a. page' = Append(page, Opened(value))
  BY <1>1 DEF HandleIf
<1>4. /\ page' \in Seq(Level) /\ Len(page') = n + 1
      /\ page'[n + 1] = Opened(value)
      /\ \A k \in 1 .. n : page'[k] = page[k]
  BY <1>2, <1>3, <1>a, <1>b, PushPage
<1>5. \A k \in 1 .. n :
        /\ Chosen(page[k])' = Chosen(page[k]) /\ KnownOf(page[k])' = KnownOf(page[k])
        /\ page'[k].else = page[k].else
  BY <1>2, <1>4, Carried
<1>6. Chosen(page[n + 1])' = value /\ KnownOf(page[n + 1])' = value
  BY <1>2, <1>3, <1>4, Carried
<1>7. TypeOK'
  <2>1. /\ printing' \in BOOLEAN /\ cond_true' \in BOOLEAN /\ if_nesting_level' \in Nat
        /\ out' \in {"nothing", "text", "error"}
    BY <1>1, <1>2, CopyType DEF HandleIf, Nested, TypeOK, Flags, SameFlags
  <2> QED BY <1>2, <1>4, <2>1 DEF TypeOK
<1>8. CASE ~printing
  <2>1. /\ if_nesting_level' = if_nesting_level + 1 /\ out' = "nothing"
        /\ printing' = printing /\ cond_true' = cond_true
    BY <1>8 DEF HandleIf, SameFlags
  <2>2. PICK d \in 1 .. n : Hides(d) BY <1>8, <1>b DEF Nested
  <2>3. Hides(d)' BY <1>4, <1>b, <1>5, <2>1, <2>2 DEF Hides
  <2> QED BY <1>4, <1>7, <1>8, <2>1, <2>3 DEF Nested
<1>9. CASE printing /\ Refused(copy.if, e)
  <2>1. /\ if_nesting_level' = if_nesting_level /\ out' # "text"
        /\ printing' = printing /\ cond_true' = cond_true
    BY <1>9, CopyType, <1>2 DEF HandleIf, SameFlags
  <2>2. value = TRUE BY <1>1, <1>9
  <2>3. \A k \in 1 .. n : Chosen(page[k])' BY <1>b, <1>5, <1>9 DEF Nested, Shown
  <2>4. \A k \in 1 .. n + 1 : Chosen(page[k])'
    <3>1. Chosen(page[n + 1])' BY <1>6, <2>2
    <3>2. \A k \in 1 .. n + 1 : k \in 1 .. n \/ k = n + 1 OBVIOUS
    <3> QED BY <2>3, <3>1, <3>2, Zenon
  <2>5. Shown' BY <1>4, <1>9, <2>1, <2>4 DEF Nested, Shown
  <2> QED BY <1>4, <1>7, <1>9, <2>1, <2>3, <2>5 DEF Nested
<1>10. CASE printing /\ ~Refused(copy.if, e)
  <2>1. value = Value(copy.if, e) BY <1>1, <1>10
  <2>2. /\ if_nesting_level' = 0 /\ out' = "nothing"
        /\ printing' = value /\ cond_true' = value
    BY <1>10, <2>1 DEF HandleIf, Flags
  <2>3. \A k \in 1 .. n : Chosen(page[k])' BY <1>b, <1>5, <1>10 DEF Nested, Shown
  <2>4. value => Shown'
    <3>1. value => Chosen(page[n + 1])' BY <1>6
    <3>2. \A k \in 1 .. n + 1 : k \in 1 .. n \/ k = n + 1 OBVIOUS
    <3>3. value => \A k \in 1 .. n + 1 : Chosen(page[k])' BY <2>3, <3>1, <3>2, Zenon
    <3> QED BY <1>4, <2>2, <3>3 DEF Shown
  <2>5. ~value => Hides(n + 1)' BY <1>4, <1>6, <2>2, <2>3 DEF Hides
  <2> QED BY <1>4, <1>7, <2>2, <2>4, <2>5 DEF Nested
<1> QED BY <1>8, <1>9, <1>10 DEF Nested, TypeOK

\* Where nothing is skipped, the flags are those of the condition on top.
LEMMA TopKnown ==
  ASSUME Nested, if_nesting_level = 0, page # <<>>
  PROVE  /\ \A k \in 1 .. Len(page) - 1 : Chosen(page[k])
         /\ printing = Chosen(Top)
         /\ ~Top.else => cond_true = KnownOf(Top)
<1>1. /\ Len(page) \in Nat \ {0} /\ Top \in Level /\ Top = page[Len(page)]
      /\ copy \in [if : IfCopies, elif : ElifCopies]
      /\ printing \in BOOLEAN
  BY BelowPage DEF Nested, TypeOK
<1>2. CASE printing
  <2>1. Chosen(Top) /\ cond_true = TRUE BY <1>1, <1>2 DEF Nested, Shown
  <2>2. ~Top.else => KnownOf(Top) = TRUE BY <1>1, <2>1, Branch
  <2>3. printing = Chosen(Top) BY <1>1, <1>2, <2>1 DEF Chosen
  <2>4. \A k \in 1 .. Len(page) - 1 : Chosen(page[k]) BY <1>1, <1>2 DEF Nested, Shown
  <2> QED BY <2>1, <2>2, <2>3, <2>4, Zenon
<1>3. CASE ~printing
  <2>1. PICK d \in 1 .. Len(page) : Hides(d) BY <1>3 DEF Nested
  <2>2. d = Len(page) BY <1>1, <2>1 DEF Hides
  <2>3. ~Chosen(Top) /\ (\A k \in 1 .. Len(page) - 1 : Chosen(page[k]))
    BY <1>1, <2>1, <2>2 DEF Hides
  <2>4. printing = Chosen(Top) BY <1>1, <1>3, <2>3 DEF Chosen
  <2> QED BY <1>1, <2>1, <2>2, <2>3, <2>4 DEF Hides
<1> QED BY <1>1, <1>2, <1>3

\* Another state of the condition on top, with the flags that say it.
LEMMA TopNested ==
  ASSUME Nested, if_nesting_level = 0, page # <<>>, NEW level \in Level, OnTop(level),
         copy' = copy, if_nesting_level' = 0, out' = "nothing",
         printing' \in BOOLEAN, cond_true' \in BOOLEAN,
         printing' = Chosen(level), printing' => cond_true' = TRUE,
         ~level.else => cond_true' = KnownOf(level)
  PROVE  Nested'
<1>1. PICK n \in Nat \ {0} : n = Len(page) BY BelowPage DEF Nested, TypeOK
<1>2. /\ page' \in Seq(Level) /\ Len(page') = n /\ page'[n] = level
      /\ \A k \in 1 .. n - 1 : page'[k] = page[k]
  BY <1>1, OnTopPage DEF Nested, TypeOK
<1>3. \A k \in 1 .. n - 1 : Chosen(page[k])'
  <2>1. \A k \in 1 .. n - 1 : Chosen(page[k])' = Chosen(page[k]) BY <1>2, Carried
  <2> QED BY <1>1, <2>1, TopKnown
<1>4. /\ Chosen(page[n])' = Chosen(level) /\ KnownOf(page[n])' = KnownOf(level)
      /\ page'[n].else = level.else
  BY <1>2, Carried
<1>5. TypeOK' BY <1>2 DEF Nested, TypeOK
<1>6. CASE printing'
  <2>1. Chosen(page[n])' BY <1>4, <1>6
  <2>2. \A k \in 1 .. n : k \in 1 .. n - 1 \/ k = n OBVIOUS
  <2>3. \A k \in 1 .. n : Chosen(page[k])' BY <1>3, <2>1, <2>2, Zenon
  <2>4. Shown' BY <1>2, <1>6, <2>3 DEF Shown
  <2> QED BY <1>5, <1>6, <2>4 DEF Nested
<1>7. CASE ~printing'
  <2>1. ~Chosen(page[n])' BY <1>4, <1>7
  <2>2. Hides(n)' BY <1>2, <1>3, <1>4, <2>1 DEF Hides
  <2> QED BY <1>2, <1>5, <1>7, <2>2 DEF Nested
<1> QED BY <1>6, <1>7

\* Within a condition that is not sent, nothing is known and nothing changes.
LEMMA HiddenNested ==
  ASSUME Nested, if_nesting_level > 0, page # <<>>, NEW level \in Level,
         OnTop(level) \/ page' = page,
         copy' = copy, if_nesting_level' = if_nesting_level, out' = "nothing", SameFlags
  PROVE  Nested'
<1>1. PICK n \in Nat \ {0} : n = Len(page) BY BelowPage DEF Nested, TypeOK
<1>2. /\ page' \in Seq(Level) /\ Len(page') = n
      /\ \A k \in 1 .. n - 1 : page'[k] = page[k]
  BY <1>1, OnTopPage DEF Nested, TypeOK
<1>3. ~printing BY DEF Nested, Shown, TypeOK
<1>4. PICK d \in 1 .. n : Hides(d) BY <1>1, <1>3 DEF Nested
<1>5. d \in 1 .. n - 1 BY <1>1, <1>4 DEF Hides, Nested, TypeOK
<1>6. \A k \in 1 .. n - 1 :
        /\ Chosen(page[k])' = Chosen(page[k]) /\ KnownOf(page[k])' = KnownOf(page[k])
        /\ page'[k].else = page[k].else
  BY <1>2, Carried
<1>7. Hides(d)' BY <1>1, <1>2, <1>4, <1>5, <1>6 DEF Hides, SameFlags
<1>8. TypeOK' BY <1>2 DEF Nested, TypeOK, SameFlags
<1> QED BY <1>2, <1>3, <1>7, <1>8 DEF Nested, SameFlags

LEMMA ElifNested ==
  ASSUME Nested, NEW e \in Element, HandleElif(e)
  PROVE  Nested'
<1>1. PICK value \in BOOLEAN : value = (copy.elif.always \/ Value(copy.elif, e))
  BY TypeValue, CopyType DEF Nested, TypeOK
<1> DEFINE level == Another(Top, value)
<1>2. /\ page # <<>> /\ ~Top.else /\ copy' = copy /\ if_nesting_level' = if_nesting_level
      /\ copy \in [if : IfCopies, elif : ElifCopies] /\ if_nesting_level \in Nat
      /\ printing \in BOOLEAN /\ cond_true \in BOOLEAN
  BY DEF HandleElif, Nested, TypeOK
<1>3. Top \in Level /\ level \in Level BY <1>2, BelowPage, LevelType DEF Nested, TypeOK
<1>4. OnTop(level) \/ page' = page BY <1>1 DEF HandleElif
<1>5. CASE if_nesting_level > 0
  <2>1. SameFlags /\ out' = "nothing" BY <1>2, <1>5 DEF HandleElif
  <2> QED BY <1>2, <1>3, <1>4, <1>5, <2>1, HiddenNested
<1>a. if_nesting_level = 0 =>
        /\ \A k \in 1 .. Len(page) - 1 : Chosen(page[k])
        /\ printing = Chosen(Top) /\ cond_true = KnownOf(Top)
  BY <1>2, TopKnown
<1>b. if_nesting_level = 0 => (Rejects(e) <=> page' = page /\ Refused(copy.elif, e)
        /\ (e.fault = "error" => copy.elif.before = "ignores" \/ ~Taken(Top)))
  BY <1>2, <1>a DEF Rejects, Evaluated, KnownOf, HandleElif
<1>6. CASE if_nesting_level = 0 /\ Rejects(e)
  <2>1. SameFlags /\ page' = page /\ out' = Told(copy.elif)
    BY <1>2, <1>6, <1>b DEF HandleElif
  <2>2. TypeOK' /\ out' # "text" BY <1>2, <2>1, CopyType DEF Nested, TypeOK, SameFlags
  <2>3. Shown' = Shown BY <1>2, <2>1 DEF Shown, Chosen, SameFlags
  <2>4. \A d \in 1 .. Len(page) : Hides(d) => Hides(d)'
    BY <1>2, <2>1 DEF Hides, Chosen, KnownOf, Taken, SameFlags
  <2>5. \A k \in 1 .. Len(page) - 1 : Chosen(page[k])'
    BY <1>2, <1>6, <1>a, <2>1 DEF Chosen
  <2> QED BY <2>1, <2>2, <2>3, <2>4, <2>5 DEF Nested, SameFlags
<1>7. CASE if_nesting_level = 0 /\ ~Rejects(e) /\ ~Evaluated
  <2>1. /\ out' = "nothing" /\ cond_true' = cond_true
        /\ printing' = (printing /\ copy.elif.before = "stays")
        /\ cond_true = TRUE /\ copy.elif.before # "ignores"
    <3>1. ~(if_nesting_level > 0) BY <1>7
    <3>2. cond_true /\ copy.elif.before # "ignores" BY <1>7 DEF Evaluated
    <3>3. /\ out' = "nothing" /\ UNCHANGED cond_true
          /\ printing' = (printing /\ copy.elif.before = "stays")
      BY <1>7, <3>1, Zenon DEF HandleElif
    <3> QED BY <1>2, <3>2, <3>3
  <2>2. OnTop(level) BY <1>1, <1>7, <1>b DEF HandleElif
  <2>3. /\ Chosen(level) = (Chosen(Top) /\ copy.elif.before = "stays")
        /\ KnownOf(level) = TRUE /\ level.else = FALSE
    BY <1>2, <1>3, <1>7, <1>a, <2>1, Branch
  <2> QED BY <1>2, <1>3, <1>7, <1>a, <2>1, <2>2, <2>3, TopNested
<1>8. CASE if_nesting_level = 0 /\ ~Rejects(e) /\ Evaluated
  <2>1. /\ out' = "nothing" /\ printing' = value /\ cond_true' = value
        /\ cond_true = FALSE \/ copy.elif.before = "ignores"
    BY <1>1, <1>2, <1>8 DEF HandleElif, Evaluated, Flags
  <2>2. OnTop(level) BY <1>1, <1>8, <1>b DEF HandleElif
  <2>3. Chosen(level) = value /\ KnownOf(level) = value
    BY <1>2, <1>3, <1>8, <1>a, <2>1, Branch
  <2> QED BY <1>2, <1>3, <1>8, <2>1, <2>2, <2>3, TopNested
<1> QED BY <1>5, <1>6, <1>7, <1>8 DEF Nested, TypeOK

LEMMA ElseNested ==
  ASSUME Nested, HandleElse
  PROVE  Nested'
<1>1. /\ page # <<>> /\ ~Top.else /\ copy' = copy /\ if_nesting_level' = if_nesting_level
      /\ copy \in [if : IfCopies, elif : ElifCopies] /\ out' = "nothing"
      /\ OnTop(ElseOf(Top)) /\ cond_true \in BOOLEAN /\ if_nesting_level \in Nat
  BY DEF HandleElse, Nested, TypeOK
<1>2. Top \in Level /\ ElseOf(Top) \in Level /\ ElseOf(Top).else = TRUE
  BY <1>1, BelowPage, LevelType, Branch DEF Nested, TypeOK
<1>3. CASE if_nesting_level > 0
  <2>0. if_nesting_level # 0 BY <1>1, <1>3
  <2>1. SameFlags BY <2>0, Zenon DEF HandleElse
  <2> QED BY <1>1, <1>2, <1>3, <2>1, HiddenNested
<1>4. CASE if_nesting_level = 0
  <2>1. Chosen(ElseOf(Top)) = ~cond_true BY <1>1, <1>2, <1>4, TopKnown, Branch
  <2>2. printing' = ~cond_true /\ cond_true' = TRUE
    <3>1. ~(if_nesting_level > 0) BY <1>4
    <3>2. \/ cond_true /\ printing' = FALSE /\ UNCHANGED cond_true
          \/ ~cond_true /\ Flags(TRUE)
      BY <3>1, Zenon DEF HandleElse
    <3>3. CASE cond_true BY <1>1, <3>2, <3>3
    <3>4. CASE ~cond_true BY <1>1, <3>2, <3>4 DEF Flags
    <3> QED BY <3>3, <3>4
  <2> QED BY <1>1, <1>2, <1>4, <2>1, <2>2, TopNested
<1> QED BY <1>3, <1>4 DEF Nested, TypeOK

LEMMA EndifNested ==
  ASSUME Nested, HandleEndif
  PROVE  Nested'
<1>1. PICK n \in Nat \ {0} : n = Len(page) BY BelowPage DEF HandleEndif, Nested, TypeOK
<1>2. /\ copy' = copy /\ out' = "nothing" /\ if_nesting_level \in Nat
      /\ page' \in Seq(Level) /\ Len(page') = n - 1
      /\ \A k \in 1 .. n - 1 : page'[k] = page[k]
  BY <1>1, BelowPage DEF HandleEndif, Nested, TypeOK
<1>3. \A k \in 1 .. n - 1 :
        /\ Chosen(page[k])' = Chosen(page[k]) /\ KnownOf(page[k])' = KnownOf(page[k])
        /\ page'[k].else = page[k].else
  BY <1>2, Carried
<1>4. CASE if_nesting_level > 0
  <2>0. if_nesting_level # 0 BY <1>2, <1>4
  <2>1. if_nesting_level' = if_nesting_level - 1 /\ SameFlags BY <2>0, Zenon DEF HandleEndif
  <2>2. ~printing BY <1>4 DEF Nested, Shown
  <2>3. PICK d \in 1 .. n : Hides(d) BY <1>1, <2>2 DEF Nested
  <2>4. d \in 1 .. n - 1 BY <1>1, <1>4, <2>3 DEF Hides
  <2>5. Hides(d)'
    <3>1. (if_nesting_level = Len(page) - d)'
      <4>1. if_nesting_level = n - d BY <1>1, <2>3 DEF Hides
      <4> QED BY <1>2, <2>1, <2>4, <4>1
    <3>2. Chosen(page[d])' = Chosen(page[d]) /\ KnownOf(page[d])' = KnownOf(page[d])
          /\ page'[d].else = page[d].else
      BY <1>3, <2>4
    <3>3. (~Chosen(page[d]))' BY <2>3, <3>2 DEF Hides
    <3>4. (\A k \in 1 .. d - 1 : Chosen(page[k]))'
      <4>1. \A k \in 1 .. d - 1 : k \in 1 .. n - 1 BY <2>4
      <4>2. \A k \in 1 .. d - 1 : Chosen(page[k]) BY <2>3 DEF Hides
      <4>3. \A k \in 1 .. d - 1 : Chosen(page[k])' BY <1>3, <4>1, <4>2
      <4> QED BY <4>3
    <3>5. (~page[d].else => cond_true = KnownOf(page[d]))'
      <4>1. ~page[d].else => cond_true = KnownOf(page[d]) BY <2>3 DEF Hides
      <4>2. cond_true' = cond_true BY <2>1 DEF SameFlags
      <4> QED BY <3>2, <4>1, <4>2
    <3> QED BY <3>1, <3>3, <3>4, <3>5 DEF Hides
  <2>6. TypeOK' BY <1>2, <1>4, <2>1 DEF Nested, TypeOK, SameFlags
  <2> QED BY <1>2, <2>1, <2>2, <2>4, <2>5, <2>6 DEF Nested, SameFlags
<1>5. CASE if_nesting_level = 0
  <2>0. ~(if_nesting_level > 0) BY <1>5
  <2>1. if_nesting_level' = 0 /\ Flags(TRUE) BY <1>5, <2>0, Zenon DEF HandleEndif
  <2>2. \A k \in 1 .. n - 1 : Chosen(page[k]) BY <1>1, <1>5, TopKnown DEF HandleEndif
  <2>3. \A k \in 1 .. n - 1 : Chosen(page[k])' BY <1>3, <2>2
  <2>4. Shown' BY <1>2, <2>1, <2>3 DEF Shown, Flags
  <2>5. TypeOK' BY <1>2, <2>1 DEF Nested, TypeOK, Flags
  <2> QED BY <1>2, <2>1, <2>4, <2>5 DEF Nested, Flags
<1> QED BY <1>4, <1>5 DEF Nested, TypeOK

\* What is not a condition.
LEMMA OtherNested ==
  ASSUME Nested,
         copy' = copy, printing' = printing, cond_true' = cond_true,
         if_nesting_level' = if_nesting_level, page' = page,
         out' = out \/ out' = "nothing" \/ (out' = "text" /\ printing)
  PROVE  Nested'
<1>1. Shown' = Shown BY DEF Shown, Chosen
<1>2. \A d \in 1 .. Len(page) : Hides(d) => Hides(d)' BY DEF Hides, Chosen, KnownOf, Taken
<1>3. TypeOK' BY DEF Nested, TypeOK
<1>4. \A k \in 1 .. Len(page) - 1 : Chosen(page[k])' = Chosen(page[k]) BY DEF Chosen
<1> QED BY <1>1, <1>2, <1>3, <1>4 DEF Nested

LEMMA StepNested ==
  ASSUME Nested, [Next]_vars
  PROVE  Nested'
<1>1. CASE \E e \in Element : HandleIf(e) \/ HandleElif(e) BY <1>1, IfNested, ElifNested
<1>2. CASE HandleElse \/ HandleEndif BY <1>2, ElseNested, EndifNested
<1>3. CASE Text
  <2>1. /\ copy' = copy /\ printing' = printing /\ cond_true' = cond_true
        /\ if_nesting_level' = if_nesting_level /\ page' = page
        /\ (out' = "nothing" \/ (out' = "text" /\ printing))
    BY <1>3 DEF Text
  <2> QED BY <2>1, OtherNested
<1>4. CASE \E argc \in 0 .. 1 : HandlePrintenv(argc)
  <2>1. /\ copy' = copy /\ printing' = printing /\ cond_true' = cond_true
        /\ if_nesting_level' = if_nesting_level /\ page' = page
        /\ (out' = "nothing" \/ (out' = "text" /\ printing))
    BY <1>4 DEF HandlePrintenv
  <2> QED BY <2>1, OtherNested
<1>5. CASE UNCHANGED vars
  <2>1. /\ copy' = copy /\ printing' = printing /\ cond_true' = cond_true
        /\ if_nesting_level' = if_nesting_level /\ page' = page /\ out' = out
    BY <1>5 DEF vars
  <2> QED BY <2>1, OtherNested
<1> QED BY <1>1, <1>2, <1>3, <1>4, <1>5 DEF Next

LEMMA InitNested == Init => Nested
<1> SUFFICES ASSUME Init PROVE Nested OBVIOUS
<1>1. page \in Seq(Level) /\ Len(page) = 0 BY DEF Init
<1> QED BY <1>1 DEF Init, Nested, TypeOK, Shown

LEMMA NestedPrints ==
  ASSUME Nested
  PROVE  PrintsChosen
<1>1. DOMAIN page = 1 .. Len(page) BY DEF Nested, TypeOK
<1>2. printing => \A k \in DOMAIN page : Chosen(page[k]) BY <1>1 DEF Nested, Shown
<1>3. ~printing => \E k \in DOMAIN page : ~Chosen(page[k]) BY <1>1 DEF Nested, Hides
<1>4. out = "text" => \A k \in DOMAIN page : Chosen(page[k]) BY <1>2 DEF Nested
<1>5. out = "error" => \A k \in DOMAIN page : k < Len(page) => Chosen(page[k])
  BY <1>1 DEF Nested, TypeOK
<1> QED BY <1>2, <1>3, <1>4, <1>5 DEF PrintsChosen
-----------------------------------------------------------------------------
\* The handlers keep to their types.
THEOREM TypeCorrect == Spec => []TypeOK
<1>1. Nested /\ [Next]_vars => Nested' BY StepNested
<1>2. Nested => TypeOK BY DEF Nested
<1> QED BY <1>1, <1>2, InitNested, PTL DEF Spec

\* At any depth, for every kind of copy and every element that is refused, a page is
\* sent exactly where its conditions say (193_1.c, 194_1.c and their copies).
THEOREM PrintsChosenCorrect == Spec => []PrintsChosen
<1>1. Nested /\ [Next]_vars => Nested' BY StepNested
<1>2. Nested => PrintsChosen BY NestedPrints
<1> QED BY <1>1, <1>2, InitNested, PTL DEF Spec
-----------------------------------------------------------------------------
(* Loops, and the least of numbers: a set that has 0 and with every number *)
(* the next has them all, or there would be finitely many below one it has *)
(* not, as many as there are but the first.                                *)
LEMMA Inductive ==
  ASSUME NEW P, 0 \in P, \A n \in Nat : n \in P => n + 1 \in P
  PROVE  \A n \in Nat : n \in P
<1> SUFFICES ASSUME NEW n \in Nat, n \notin P PROVE FALSE OBVIOUS
<1> DEFINE A == P \cap (0 .. n)
           f == [k \in A |-> k + 1]
<1>1. IsFiniteSet(A)
  <2>1. IsFiniteSet(0 .. n) BY FS_Interval
  <2> QED BY <2>1, FS_Subset
<1>2. 0 \in A OBVIOUS
<1>3. Cardinality(A \ {0}) = Cardinality(A) - 1 /\ Cardinality(A) \in Nat
  BY <1>1, <1>2, FS_RemoveElement, FS_CardinalityType
<1>4. f \in [A -> A \ {0}] OBVIOUS
<1>5. \A x, y \in A : x # y => f[x] # f[y] OBVIOUS
<1>6. IsFiniteSet(A \ {0}) BY <1>1, FS_RemoveElement
<1> HIDE DEF A, f
<1>7. Cardinality(A \ {0}) < Cardinality(A) BY <1>3
<1>8. \E x, y \in A : x # y /\ f[x] = f[y] BY <1>1, <1>4, <1>6, <1>7, FS_PigeonHole
<1> QED BY <1>5, <1>8

\* A loop of n turns, each of which makes something of what there was before it.
Turns(n, Y, x0, step) == n \in Nat /\ x0 \in Y /\ step \in [Y \X (1 .. n) -> Y]
LEMMA Loops ==
  ASSUME NEW n, NEW Y, NEW x0, NEW step, Turns(n, Y, x0, step)
  PROVE  \E f \in [0 .. n -> Y] :
           f[0] = x0 /\ \A k \in 1 .. n : f[k] = step[<<f[k - 1], k>>]
<1> n \in Nat /\ x0 \in Y /\ step \in [Y \X (1 .. n) -> Y] BY DEF Turns
<1> DEFINE Upto(f, m) == f[0] = x0 /\ \A k \in 1 .. m : f[k] = step[<<f[k - 1], k>>]
           P == {m \in Nat : m <= n => \E f \in [0 .. m -> Y] : Upto(f, m)}
<1>1. 0 \in P
  <2> DEFINE f == [k \in 0 .. 0 |-> x0]
  <2>1. f \in [0 .. 0 -> Y] /\ Upto(f, 0) OBVIOUS
  <2> HIDE DEF f, Upto
  <2>2. \E g \in [0 .. 0 -> Y] : Upto(g, 0) BY <2>1
  <2> QED BY <2>2
<1>2. \A m \in Nat : m \in P => m + 1 \in P
  <2> SUFFICES ASSUME NEW m \in Nat, m \in P, m + 1 <= n
               PROVE  \E g \in [0 .. m + 1 -> Y] : Upto(g, m + 1)
    OBVIOUS
  <2>0. m <= n OBVIOUS
  <2>1. PICK f \in [0 .. m -> Y] : Upto(f, m)
    <3> HIDE DEF Upto
    <3> QED BY <2>0
  <2>2. m + 1 \in 1 .. n /\ m + 1 - 1 = m /\ m \in 0 .. m OBVIOUS
  <2> DEFINE y == step[<<f[m], m + 1>>]
             g == [k \in 0 .. m + 1 |-> IF k = m + 1 THEN y ELSE f[k]]
  <2>3. y \in Y BY <2>1, <2>2
  <2> HIDE DEF y
  <2>4. g \in [0 .. m + 1 -> Y] BY <2>3
  <2>5. g[m + 1] = y /\ \A k \in 0 .. m : g[k] = f[k] OBVIOUS
  <2> HIDE DEF g
  <2>6. ASSUME NEW k \in 1 .. m + 1 PROVE g[k] = step[<<g[k - 1], k>>]
    <3>1. CASE k = m + 1
      <4>1. g[k - 1] = f[m] /\ g[k] = y BY <2>2, <2>5, <3>1
      <4> QED BY <3>1, <4>1 DEF y
    <3>2. CASE k # m + 1
      <4>1. k \in 1 .. m /\ k - 1 \in 0 .. m /\ k \in 0 .. m BY <3>2
      <4>2. g[k - 1] = f[k - 1] /\ g[k] = f[k] BY <2>5, <4>1
      <4> QED BY <2>1, <4>1, <4>2
    <3> QED BY <3>1, <3>2
  <2>7. g[0] = x0 BY <2>1, <2>5
  <2>8. Upto(g, m + 1) BY <2>6, <2>7
  <2> HIDE DEF Upto
  <2> QED BY <2>4, <2>8
<1>3. n \in P
  <2> HIDE DEF P
  <2> QED BY <1>1, <1>2, Inductive
<1> QED BY <1>3
-----------------------------------------------------------------------------
(* Sequences that are put one behind the other.                            *)
IsFlat(f, s) == f[0] = <<>> /\ \A k \in 1 .. Len(s) : f[k] = f[k - 1] \o s[k]

LEMMA FlatExists ==
  ASSUME NEW S, NEW s \in Seq(Seq(S))
  PROVE  \E f \in [0 .. Len(s) -> Seq(S)] : IsFlat(f, s)
<1> DEFINE n == Len(s)
           step == [t \in Seq(S) \X (1 .. n) |-> t[1] \o s[t[2]]]
<1>1. n \in Nat /\ \A k \in 1 .. n : s[k] \in Seq(S) OBVIOUS
<1>2. step \in [Seq(S) \X (1 .. n) -> Seq(S)]
  <2>1. \A x \in Seq(S), k \in 1 .. n : x \o s[k] \in Seq(S) BY <1>1
  <2>2. \A t \in Seq(S) \X (1 .. n) : t[1] \in Seq(S) /\ t[2] \in 1 .. n OBVIOUS
  <2>3. \A t \in Seq(S) \X (1 .. n) : t[1] \o s[t[2]] \in Seq(S) BY <2>1, <2>2
  <2> QED BY <2>3
<1>3. \A x \in Seq(S), k \in 1 .. n : step[<<x, k>>] = x \o s[k]
  <2> SUFFICES ASSUME NEW x \in Seq(S), NEW k \in 1 .. n PROVE step[<<x, k>>] = x \o s[k] OBVIOUS
  <2>1. <<x, k>> \in Seq(S) \X (1 .. n) OBVIOUS
  <2>2. step[<<x, k>>] = <<x, k>>[1] \o s[<<x, k>>[2]] BY <2>1
  <2>3. <<x, k>>[1] = x /\ <<x, k>>[2] = k OBVIOUS
  <2> QED BY <2>2, <2>3
<1>4. <<>> \in Seq(S) OBVIOUS
<1> HIDE DEF step
<1>5. PICK f \in [0 .. n -> Seq(S)] :
        f[0] = <<>> /\ \A k \in 1 .. n : f[k] = step[<<f[k - 1], k>>]
  <2> DEFINE Y == Seq(S)
  <2>1. <<>> \in Y /\ step \in [Y \X (1 .. n) -> Y] /\ n \in Nat BY <1>1, <1>2, <1>4
  <2>2. SUFFICES \E f \in [0 .. n -> Y] :
                   f[0] = <<>> /\ \A k \in 1 .. n : f[k] = step[<<f[k - 1], k>>]
    OBVIOUS
  <2> HIDE DEF n, Y
  <2>3. PICK m, Z, x0, go : m = n /\ Z = Y /\ x0 = <<>> /\ go = step OBVIOUS
  <2>4. Turns(m, Z, x0, go) BY <2>1, <2>3 DEF Turns
  <2>5. \E f \in [0 .. m -> Z] : f[0] = x0 /\ \A k \in 1 .. m : f[k] = go[<<f[k - 1], k>>]
    BY <2>4, Loops
  <2> QED BY <2>3, <2>5
<1>6. \A k \in 1 .. n : f[k - 1] \in Seq(S)
  <2> SUFFICES ASSUME NEW k \in 1 .. n PROVE f[k - 1] \in Seq(S) OBVIOUS
  <2>1. k - 1 \in 0 .. n BY <1>1
  <2> HIDE DEF n
  <2> QED BY <2>1
<1>7. IsFlat(f, s) BY <1>3, <1>5, <1>6 DEF IsFlat
<1> QED BY <1>7

\* There is one way to do so, and FlattenSeq is it.
LEMMA FlatIs ==
  ASSUME NEW S, NEW s \in Seq(Seq(S)), NEW f, IsFlat(f, s)
  PROVE  FlattenSeq(s) = f[Len(s)]
<1> DEFINE n == Len(s)
           Loop(g) == [i \in 1 .. n |-> IF i = 1 THEN s[i] ELSE g[i - 1] \o s[i]]
           F == CHOOSE g : g = Loop(g)
<1>0. n \in Nat /\ \A k \in 1 .. n : s[k] \in Seq(S) OBVIOUS
<1>1. CASE n = 0
  <2>1. s = <<>> BY <1>1
  <2>2. FlattenSeq(s) = <<>> BY <1>1, <2>1 DEF FlattenSeq
  <2> QED BY <1>1, <2>2 DEF IsFlat
<1>2. CASE n # 0
  <2>1. PICK e \in [0 .. n -> Seq(S)] : IsFlat(e, s) BY FlatExists
  <2> DEFINE g == [i \in 1 .. n |-> e[i]]
  <2>2. g = Loop(g)
    <3>1. ASSUME NEW i \in 1 .. n PROVE e[i] = IF i = 1 THEN s[i] ELSE g[i - 1] \o s[i]
      <4>1. e[i] = e[i - 1] \o s[i] BY <2>1, Zenon DEF IsFlat
      <4>2. i = 1 => e[i] = s[i] BY <1>0, <2>1, <4>1 DEF IsFlat
      <4>3. i # 1 => i - 1 \in 1 .. n /\ g[i - 1] = e[i - 1] BY <1>0
      <4> QED BY <4>1, <4>2, <4>3
    <3> QED BY <3>1
  <2> HIDE DEF g
  <2>3. F = Loop(F)
    <3> HIDE DEF Loop
    <3> QED BY <2>2
  <2>4. FlattenSeq(s) = F[n] BY <1>2 DEF FlattenSeq
  <2> HIDE DEF F
  <2>5. \A i \in 1 .. n : F[i] = IF i = 1 THEN s[i] ELSE F[i - 1] \o s[i] BY <2>3
  <2> DEFINE P == {m \in Nat : m + 1 <= n => F[m + 1] = f[m + 1]}
  <2>6. 0 \in P
    <3>1. 1 \in 1 .. n BY <1>0, <1>2
    <3>2. f[1] = <<>> \o s[1]
      <4>1. f[1] = f[1 - 1] \o s[1] BY <3>1, Zenon DEF IsFlat
      <4>2. f[1 - 1] = <<>> BY DEF IsFlat
      <4> QED BY <4>1, <4>2
    <3>3. f[1] = s[1] BY <1>0, <3>1, <3>2
    <3> QED BY <2>5, <3>1, <3>3
  <2>7. \A m \in Nat : m \in P => m + 1 \in P
    <3> HIDE DEF n
    <3>0. \A m \in Nat : m + 1 \in Nat OBVIOUS
    <3> SUFFICES ASSUME NEW m \in Nat, m \in P, m + 1 + 1 <= n
                 PROVE  F[m + 1 + 1] = f[m + 1 + 1]
      BY <3>0, Zenon
    <3> DEFINE k == m + 1 + 1
    <3>1. k \in 1 .. n /\ k # 1 /\ k - 1 = m + 1 BY <1>0
    <3>2. F[m + 1] = f[m + 1] BY <1>0
    <3> HIDE DEF k
    <3>3. F[k - 1] = f[k - 1] BY <3>1, <3>2, Zenon
    <3>4. f[k] = f[k - 1] \o s[k] BY <3>1, Zenon DEF IsFlat, n
    <3>5. F[k] = F[k - 1] \o s[k] BY <2>5, <3>1, Zenon
    <3>6. F[k] = f[k] BY <3>3, <3>4, <3>5, Zenon
    <3> QED BY <3>6 DEF k
  <2>8. n - 1 \in Nat /\ n - 1 + 1 = n BY <1>0, <1>2
  <2>9. n - 1 \in P
    <3> HIDE DEF P
    <3> QED BY <2>6, <2>7, <2>8, Inductive
  <2> QED BY <2>4, <2>8, <2>9
<1> QED BY <1>1, <1>2

LEMMA FlatAppend ==
  ASSUME NEW S, NEW s \in Seq(Seq(S)), NEW x \in Seq(S)
  PROVE  /\ FlattenSeq(s) \in Seq(S)
         /\ FlattenSeq(Append(s, x)) = FlattenSeq(s) \o x
<1> DEFINE n == Len(s)
           t == Append(s, x)
<1>1. PICK f \in [0 .. n -> Seq(S)] : IsFlat(f, s) BY FlatExists
<1>2. n \in Nat /\ FlattenSeq(s) = f[n] /\ f[n] \in Seq(S) BY <1>1, FlatIs
<1> DEFINE g == [k \in 0 .. n + 1 |-> IF k = n + 1 THEN f[n] \o x ELSE f[k]]
<1>3. t \in Seq(Seq(S)) /\ Len(t) = n + 1 /\ t[n + 1] = x /\ \A k \in 1 .. n : t[k] = s[k] OBVIOUS
<1>4. g[n + 1] = f[n] \o x /\ \A k \in 0 .. n : g[k] = f[k] BY <1>2
<1> HIDE DEF g, t
<1>5. g[0] = <<>> BY <1>1, <1>2, <1>4 DEF IsFlat
<1>6. ASSUME NEW k \in 1 .. n + 1 PROVE g[k] = g[k - 1] \o t[k]
  <2>1. CASE k = n + 1
    <3>1. g[k - 1] = f[n] BY <1>2, <1>4, <2>1
    <3>2. g[k] = f[n] \o x /\ t[k] = x BY <1>3, <1>4, <2>1
    <3> QED BY <3>1, <3>2
  <2>2. CASE k # n + 1
    <3>1. k \in 1 .. n /\ k \in 0 .. n /\ k - 1 \in 0 .. n BY <1>2, <2>2
    <3> HIDE DEF n
    <3>2. g[k] = f[k] /\ g[k - 1] = f[k - 1] /\ t[k] = s[k] BY <1>3, <1>4, <3>1
    <3>3. f[k] = f[k - 1] \o s[k] BY <1>1, <3>1, Zenon DEF IsFlat, n
    <3> QED BY <3>2, <3>3
  <2> QED BY <2>1, <2>2
<1>7. IsFlat(g, t)
  <2> HIDE DEF n
  <2> QED BY <1>3, <1>5, <1>6 DEF IsFlat
<1>8. FlattenSeq(t) = g[n + 1]
  <2>1. FlattenSeq(t) = g[Len(t)] BY <1>3, <1>7, FlatIs
  <2> HIDE DEF n
  <2> QED BY <1>3, <2>1
<1> QED BY <1>2, <1>4, <1>8 DEF t

LEMMA FlatEmpty == FlattenSeq(<<>>) = <<>>
BY DEF FlattenSeq
-----------------------------------------------------------------------------
(* What protects what.                                                     *)
\* No prover shows that a certain text is a string.
Chars == STRING \cup {"end", "$"}

LEMMA DigitsAre ==
  /\ \A c : IsDigit(c) <=> c \in {"0", "1", "2"}
  /\ \A c : IsDigit(c) => Digits[c] \in 0 .. 2 /\ c # "$" /\ c # "\\" /\ c # "&" /\ c # "end"
BY DEF IsDigit, Digits

\* The backslashes right before a character: it is protected where they are odd in
\* number, that is where one of them is not protected itself.
Run(input, i) == {j \in 1 .. i - 1 : \A k \in j .. i - 1 : input[k] = "\\"}

LEMMA ProtectedMeans ==
  ASSUME NEW ampersand \in BOOLEAN, NEW input \in Seq(Chars), NEW i \in 1 .. Len(input)
  PROVE  Protected(ampersand, input, i) <=> i > 1 /\ Protects(ampersand, input, i - 1)
<1>0. i \in Nat /\ i >= 1 /\ Len(input) \in Nat /\ i <= Len(input) OBVIOUS
<1>1. CASE ampersand BY <1>0, <1>1 DEF Protected, Protects
<1>2. CASE ~ampersand
  <2>1. \A j : Protected(ampersand, input, j) <=> Cardinality(Run(input, j)) % 2 = 1
    BY <1>2 DEF Protected, Run
  <2>2. CASE i = 1 \/ (i > 1 /\ input[i - 1] # "\\")
    <3>1. Run(input, i) = {}
      <4> SUFFICES ASSUME NEW j \in 1 .. i - 1, \A k \in j .. i - 1 : input[k] = "\\" PROVE FALSE
        BY DEF Run
      <4>1. i - 1 \in j .. i - 1 BY <1>0
      <4> QED BY <2>2, <4>1
    <3>2. Cardinality(Run(input, i)) = 0 BY <3>1, FS_EmptySet
    <3>3. ~Protected(ampersand, input, i) BY <2>1, <3>2
    <3> QED BY <1>0, <2>2, <3>3 DEF Protects
  <2>3. CASE i > 1 /\ input[i - 1] = "\\"
    <3> DEFINE j == i - 1
    <3>0. j \in Nat /\ i = j + 1 /\ j >= 1 BY <1>0, <2>3
    <3>1. Run(input, i) = Run(input, j) \cup {j}
      <4>1. ASSUME NEW k \in Run(input, i), k # j PROVE k \in Run(input, j)
        BY <3>0, <4>1 DEF Run
      <4>2. ASSUME NEW k \in Run(input, j) PROVE k \in Run(input, i)
        <5>1. k \in 1 .. j - 1 /\ k \in 1 .. i - 1 BY <3>0, <4>2 DEF Run
        <5>2. \A l \in k .. i - 1 : l = j \/ l \in k .. j - 1 BY <3>0
        <5>3. \A l \in k .. i - 1 : input[l] = "\\" BY <2>3, <4>2, <5>2 DEF Run
        <5> QED BY <5>1, <5>3 DEF Run
      <4>3. j \in Run(input, i)
        <5>1. \A l \in j .. i - 1 : l = j BY <3>0
        <5> QED BY <2>3, <3>0, <5>1 DEF Run
      <4> QED BY <4>1, <4>2, <4>3
    <3>2. IsFiniteSet(Run(input, j)) /\ j \notin Run(input, j)
      <4>1. IsFiniteSet(1 .. j - 1) BY <3>0, FS_Interval
      <4>2. Run(input, j) \subseteq 1 .. j - 1 BY DEF Run
      <4> QED BY <3>0, <4>1, <4>2, FS_Subset
    <3> HIDE DEF j
    <3>3. Cardinality(Run(input, i)) = Cardinality(Run(input, j)) + 1
      BY <3>1, <3>2, FS_AddElement
    <3>4. Cardinality(Run(input, j)) \in Nat BY <3>2, FS_CardinalityType
    <3>5. Cardinality(Run(input, i)) % 2 = 1 <=> Cardinality(Run(input, j)) % 2 # 1
      BY <3>3, <3>4
    <3>6. Protected(ampersand, input, i) <=> ~Protected(ampersand, input, j) BY <2>1, <3>5
    <3>7. Protects(ampersand, input, j) <=> ~Protected(ampersand, input, j)
      BY <1>0, <1>2, <2>3, <3>0 DEF Protects, j
    <3> QED BY <2>3, <3>6, <3>7 DEF j
  <2> QED BY <1>0, <2>2, <2>3
<1> QED BY <1>1, <1>2
-----------------------------------------------------------------------------
(* A replacement is read character by character.                           *)
Token == [group : (-1 .. 2) \cup {MaxRegMatch}, char : Chars]
\* What has been read, and whether the next character, too.
Reading == [tokens : Seq(Token), skips : BOOLEAN]
Unread == [tokens |-> <<>>, skips |-> FALSE]

ReadOn(v, ampersand, input, before, i) ==
  IF before.skips THEN [before EXCEPT !.skips = FALSE]
  ELSE LET turn == Turn(v, ampersand, input, i)
       IN [tokens |-> Append(before.tokens, turn.token), skips |-> turn.skips]
IsReading(r, v, ampersand, input) ==
  r[0] = Unread /\ \A i \in 1 .. Len(input) : r[i] = ReadOn(v, ampersand, input, r[i - 1], i)

LEMMA TurnType ==
  ASSUME NEW v, NEW ampersand, NEW input \in Seq(Chars), NEW i \in 1 .. Len(input)
  PROVE  Turn(v, ampersand, input, i) \in [token : Token, skips : BOOLEAN]
<1>1. MaxRegMatch \in Int BY VarBufAssumption DEF SubstitutionAssumption
<1> DEFINE next == IF i = Len(input) THEN "end" ELSE input[i + 1]
<1>2. input[i] \in Chars /\ next \in Chars
  <2>1. Len(input) \in Nat /\ \A k \in 1 .. Len(input) : input[k] \in Chars OBVIOUS
  <2>2. i # Len(input) => i + 1 \in 1 .. Len(input) BY <2>1
  <2>3. CASE i = Len(input) BY <2>1, <2>3 DEF Chars
  <2>4. CASE i # Len(input) BY <2>1, <2>2, <2>4
  <2> QED BY <2>3, <2>4
<1> HIDE DEF next
<1>3. \A c \in Chars : Char(c) \in Token BY <1>1 DEF Char, Token
<1>4. \A k \in 0 .. 2 : Group(k) \in Token BY DEF Group, Token, Chars
<1>5. Past \in Token BY DEF Past, Token, Chars
<1>6. (IsDigit(next) => Digits[next] \in 0 .. 2) /\ 0 \in 0 .. 2 BY DigitsAre
<1>7. \A t \in Token : One(t) \in [token : Token, skips : BOOLEAN]
                      /\ Two(t) \in [token : Token, skips : BOOLEAN]
  BY DEF One, Two
<1> QED BY <1>2, <1>3, <1>4, <1>5, <1>6, <1>7 DEF Turn, next

LEMMA ReadOnType ==
  ASSUME NEW v, NEW ampersand, NEW input \in Seq(Chars), NEW i \in 1 .. Len(input),
         NEW before \in Reading
  PROVE  ReadOn(v, ampersand, input, before, i) \in Reading
<1>1. Turn(v, ampersand, input, i) \in [token : Token, skips : BOOLEAN] BY TurnType
<1> DEFINE turn == Turn(v, ampersand, input, i)
<1>2. turn.token \in Token /\ turn.skips \in BOOLEAN BY <1>1
<1> HIDE DEF turn
<1>3. Append(before.tokens, turn.token) \in Seq(Token) BY <1>2 DEF Reading
<1> QED BY <1>2, <1>3 DEF ReadOn, Reading, turn

LEMMA TokensRead ==
  ASSUME NEW v, NEW ampersand, NEW input \in Seq(Chars)
  PROVE  \E r \in [0 .. Len(input) -> Reading] :
           IsReading(r, v, ampersand, input) /\ Tokens(v, ampersand, input) = r[Len(input)].tokens
<1> DEFINE n == Len(input)
           Loop(g) == [i \in 0 .. n |->
             IF i = 0 THEN [tokens |-> <<>>, skips |-> FALSE]
             ELSE IF g[i - 1].skips THEN [g[i - 1] EXCEPT !.skips = FALSE]
             ELSE LET turn == Turn(v, ampersand, input, i) IN
                  [tokens |-> Append(g[i - 1].tokens, turn.token), skips |-> turn.skips]]
           r == CHOOSE g : g = Loop(g)
           step == [t \in Reading \X (1 .. n) |-> ReadOn(v, ampersand, input, t[1], t[2])]
<1>0. n \in Nat OBVIOUS
<1>1. \A x \in Reading, k \in 1 .. n : step[<<x, k>>] = ReadOn(v, ampersand, input, x, k)
  <2> SUFFICES ASSUME NEW x \in Reading, NEW k \in 1 .. n
               PROVE  step[<<x, k>>] = ReadOn(v, ampersand, input, x, k)
    OBVIOUS
  <2> HIDE DEF n
  <2> QED OBVIOUS
<1>2. step \in [Reading \X (1 .. n) -> Reading]
  <2>1. \A t \in Reading \X (1 .. n) : t[1] \in Reading /\ t[2] \in 1 .. n OBVIOUS
  <2>2. \A t \in Reading \X (1 .. n) : ReadOn(v, ampersand, input, t[1], t[2]) \in Reading
    BY <2>1, ReadOnType
  <2> QED BY <2>2
<1>3. Unread \in Reading BY DEF Unread, Reading
<1> HIDE DEF step
<1>4. Turns(n, Reading, Unread, step) BY <1>0, <1>2, <1>3 DEF Turns
<1>5. PICK f \in [0 .. n -> Reading] :
        f[0] = Unread /\ \A k \in 1 .. n : f[k] = step[<<f[k - 1], k>>]
  <2> HIDE DEF n
  <2> QED BY <1>4, Loops
<1>6. \A k \in 1 .. n : f[k] = ReadOn(v, ampersand, input, f[k - 1], k)
  <2> SUFFICES ASSUME NEW k \in 1 .. n PROVE f[k] = ReadOn(v, ampersand, input, f[k - 1], k)
    OBVIOUS
  <2>1. k - 1 \in 0 .. n BY <1>0
  <2> HIDE DEF n
  <2> QED BY <1>1, <1>5, <2>1
<1>7. \A g : g \in [0 .. n -> Reading] =>
             (g = Loop(g) <=> IsReading(g, v, ampersand, input))
  <2> SUFFICES ASSUME NEW g \in [0 .. n -> Reading]
               PROVE  g = Loop(g) <=> IsReading(g, v, ampersand, input)
    OBVIOUS
  <2>1. ASSUME NEW i \in 0 .. n
        PROVE Loop(g)[i] = IF i = 0 THEN Unread ELSE ReadOn(v, ampersand, input, g[i - 1], i)
    <3> HIDE DEF n
    <3> QED BY DEF ReadOn, Unread
  <2>2. DOMAIN Loop(g) = 0 .. n /\ DOMAIN g = 0 .. n OBVIOUS
  <2>3. g = Loop(g) <=> \A i \in 0 .. n : g[i] = Loop(g)[i]
    <3> HIDE DEF n
    <3> QED OBVIOUS
  <2> HIDE DEF Loop
  <2> QED BY <1>0, <2>1, <2>3 DEF IsReading
<1>8. f = Loop(f)
  <2> HIDE DEF Loop
  <2> QED BY <1>5, <1>6, <1>7 DEF IsReading
<1>9. r = Loop(r)
  <2> HIDE DEF Loop
  <2> QED BY <1>8
<1>10. Tokens(v, ampersand, input) = r[n].tokens BY DEF Tokens
<1> HIDE DEF r
<1>11. r[0] = Unread /\ \A i \in 1 .. n : r[i] = ReadOn(v, ampersand, input, r[i - 1], i)
  <2>1. \A i \in 0 .. n : Loop(r)[i] = IF i = 0 THEN Unread ELSE ReadOn(v, ampersand, input, r[i - 1], i)
    <3> SUFFICES ASSUME NEW i \in 0 .. n
                 PROVE Loop(r)[i] = IF i = 0 THEN Unread ELSE ReadOn(v, ampersand, input, r[i - 1], i)
      OBVIOUS
    <3> HIDE DEF n
    <3> QED BY DEF ReadOn, Unread
  <2> HIDE DEF Loop
  <2> QED BY <1>0, <1>9, <2>1
<1>12. \A m \in Nat : m \in {k \in Nat : k <= n => r[k] = f[k]}
  <2> DEFINE P == {k \in Nat : k <= n => r[k] = f[k]}
  <2>1. 0 \in P BY <1>5, <1>11
  <2>2. ASSUME NEW k \in Nat, k \in P PROVE k + 1 \in P
    <3>1. k + 1 <= n => k + 1 \in 1 .. n /\ k <= n /\ k + 1 - 1 = k BY <1>0
    <3> HIDE DEF n
    <3>2. k + 1 <= n => r[k + 1] = f[k + 1] BY <1>6, <1>11, <2>2, <3>1
    <3> QED BY <3>2
  <2> HIDE DEF P
  <2>3. \A m \in Nat : m \in P BY <2>1, <2>2, Inductive
  <2> QED BY <2>3 DEF P
<1>13. r[n] = f[n] BY <1>0, <1>12
<1> QED BY <1>5, <1>6, <1>10, <1>13 DEF IsReading
LEMMA TokensType ==
  ASSUME NEW v, NEW ampersand, NEW input \in Seq(Chars)
  PROVE  Tokens(v, ampersand, input) \in Seq(Token)
<1>1. PICK r \in [0 .. Len(input) -> Reading] :
        IsReading(r, v, ampersand, input) /\ Tokens(v, ampersand, input) = r[Len(input)].tokens
  BY TokensRead
<1>2. r[Len(input)] \in Reading OBVIOUS
<1> QED BY <1>1, <1>2 DEF Reading
-----------------------------------------------------------------------------
(* What is written for a token, and what a character stands for.           *)
Groups(source, pmatch) ==
  \A n \in 0 .. 2 :
    /\ pmatch[n].so \in Int /\ pmatch[n].eo \in Int
    /\ pmatch[n].so < pmatch[n].eo => pmatch[n].so >= 0 /\ pmatch[n].eo <= Len(source)
Arguments(input, source, pmatch, nmatch) ==
  /\ input \in Seq(Chars) /\ source \in Seq(Chars)
  /\ nmatch \in Nat /\ Groups(source, pmatch)
  /\ Len(source) < SizeMax

\* Where the code would copy nearly all of memory.
Runs(v, pmatch, nmatch, token) ==
  /\ token.group < MaxRegMatch /\ token.group < nmatch
  /\ ~v.ordered /\ pmatch[token.group].eo < pmatch[token.group].so
Tame(v, pmatch, nmatch, tokens) ==
  \A k \in 1 .. Len(tokens) : ~Runs(v, pmatch, nmatch, tokens[k])

OfGroup(source, pmatch, nmatch, n) ==
  IF n < nmatch /\ pmatch[n].so < pmatch[n].eo THEN GroupText(source, pmatch, n) ELSE <<>>

LEMMA GroupTexts ==
  ASSUME NEW input, NEW source, NEW pmatch, NEW nmatch, NEW n \in 0 .. 2,
         Arguments(input, source, pmatch, nmatch)
  PROVE  /\ pmatch[n].so < pmatch[n].eo =>
              GroupText(source, pmatch, n) \in Seq(Chars)
              /\ Len(GroupText(source, pmatch, n)) = pmatch[n].eo - pmatch[n].so
         /\ pmatch[n].so = pmatch[n].eo => GroupText(source, pmatch, n) = <<>>
         /\ OfGroup(source, pmatch, nmatch, n) \in Seq(Chars)
<1> DEFINE so == pmatch[n].so
           eo == pmatch[n].eo
<1>1. so \in Int /\ eo \in Int /\ source \in Seq(Chars) /\ (so < eo => so >= 0 /\ eo <= Len(source))
  BY DEF Arguments, Groups
<1>2. GroupText(source, pmatch, n) = SubSeq(source, so + 1, eo) BY DEF GroupText
<1> HIDE DEF so, eo
<1>3. so < eo => SubSeq(source, so + 1, eo) \in Seq(Chars) /\ Len(SubSeq(source, so + 1, eo)) = eo - so
  BY <1>1
<1>4. so = eo => SubSeq(source, so + 1, eo) = <<>> BY <1>1
<1>5. <<>> \in Seq(Chars) OBVIOUS
<1> QED BY <1>2, <1>3, <1>4, <1>5 DEF OfGroup, so, eo

\* A token is a character, or a group there may be.
IsToken(token) == token \in Token /\ token.group # -1
AreTokens(tokens) == \A k \in 1 .. Len(tokens) : IsToken(tokens[k])

LEMMA TokenIs ==
  ASSUME NEW token, IsToken(token)
  PROVE  /\ token.group \in Int /\ token.char \in Chars
         /\ token.group >= MaxRegMatch \/ token.group \in 0 .. 2
BY VarBufAssumption DEF IsToken, Token, SubstitutionAssumption

LEMMA TokenTexts ==
  ASSUME NEW v, NEW input, NEW source, NEW pmatch, NEW nmatch, NEW token,
         Arguments(input, source, pmatch, nmatch), IsToken(token),
         ~Runs(v, pmatch, nmatch, token)
  PROVE  TokenText(v, source, pmatch, nmatch, token) =
           IF token.group >= MaxRegMatch THEN <<token.char>>
           ELSE OfGroup(source, pmatch, nmatch, token.group)
<1>1. CASE token.group >= MaxRegMatch BY <1>1 DEF TokenText
<1>2. CASE ~(token.group >= MaxRegMatch)
  <2> DEFINE n == token.group
  <2>1. n \in 0 .. 2 /\ n < MaxRegMatch
    BY <1>2, VarBufAssumption, TokenIs DEF SubstitutionAssumption
  <2>2. pmatch[n].so \in Int /\ pmatch[n].eo \in Int BY <2>1 DEF Arguments, Groups
  <2>3. pmatch[n].so = pmatch[n].eo => GroupText(source, pmatch, n) = <<>> BY <2>1, GroupTexts
  <2>4. n < nmatch => v.ordered \/ ~(pmatch[n].eo < pmatch[n].so) BY <2>1 DEF Runs
  <2> HIDE DEF n
  <2>5. GroupTaken(v, pmatch, nmatch, n) => n < nmatch /\ (v.ordered => pmatch[n].so < pmatch[n].eo)
    BY DEF GroupTaken
  <2>6. (IF GroupTaken(v, pmatch, nmatch, n) THEN GroupText(source, pmatch, n) ELSE <<>>)
        = OfGroup(source, pmatch, nmatch, n)
    BY <2>2, <2>3, <2>4 DEF GroupTaken, OfGroup
  <2> QED BY <1>2, <2>6 DEF TokenText, n
<1> QED BY <1>1, <1>2

LEMMA TokenTextType ==
  ASSUME NEW v, NEW input, NEW source, NEW pmatch, NEW nmatch, NEW token,
         Arguments(input, source, pmatch, nmatch), IsToken(token),
         ~Runs(v, pmatch, nmatch, token)
  PROVE  TokenText(v, source, pmatch, nmatch, token) \in Seq(Chars)
<1>1. token.char \in Chars BY TokenIs
<1>2. <<token.char>> \in Seq(Chars) BY <1>1
<1>3. ~(token.group >= MaxRegMatch) => OfGroup(source, pmatch, nmatch, token.group) \in Seq(Chars)
  BY GroupTexts, TokenIs
<1>4. TokenText(v, source, pmatch, nmatch, token) =
        IF token.group >= MaxRegMatch THEN <<token.char>>
        ELSE OfGroup(source, pmatch, nmatch, token.group)
  BY TokenTexts
<1> QED BY <1>2, <1>3, <1>4

LEMMA StandsType ==
  ASSUME NEW ampersand, NEW input, NEW source, NEW pmatch, NEW nmatch,
         Arguments(input, source, pmatch, nmatch), NEW i \in 1 .. Len(input)
  PROVE  Stands(ampersand, input, source, pmatch, nmatch, i) \in Seq(Chars)
<1>1. \A n \in 0 .. 2 : OfGroup(source, pmatch, nmatch, n) \in Seq(Chars) BY GroupTexts
<1>2. <<>> \in Seq(Chars) OBVIOUS
<1>3. <<input[i]>> \in Seq(Chars) BY DEF Arguments
<1>4. Refers(ampersand, input, i) => Digits[input[i + 1]] \in 0 .. 2 BY DigitsAre DEF Refers
<1>5. 0 \in 0 .. 2 OBVIOUS
<1> QED BY <1>1, <1>2, <1>3, <1>4, <1>5 DEF Stands, OfGroup

\* Every dollar refers to a group, where the copy takes none for itself.
Dollars(v, input) ==
  v.digit \/ \A i \in 1 .. Len(input) : input[i] = "$" => i < Len(input) /\ IsDigit(input[i + 1])

\* A turn takes a character that nothing before it protects or uses.
LEMMA TurnStands ==
  ASSUME NEW v, NEW ampersand \in BOOLEAN, NEW input, NEW source, NEW pmatch, NEW nmatch,
         Arguments(input, source, pmatch, nmatch), Dollars(v, input),
         NEW i \in 1 .. Len(input),
         i > 1 => ~Refers(ampersand, input, i - 1) /\ ~Protects(ampersand, input, i - 1)
  PROVE  LET turn == Turn(v, ampersand, input, i)
             Meant(k) == Stands(ampersand, input, source, pmatch, nmatch, k)
             text == IF turn.token.group >= MaxRegMatch THEN <<turn.token.char>>
                     ELSE OfGroup(source, pmatch, nmatch, turn.token.group)
         IN /\ turn.skips <=> Refers(ampersand, input, i) \/ Protects(ampersand, input, i)
            /\ ~turn.skips => Meant(i) = text
            /\ turn.skips => /\ i + 1 \in 1 .. Len(input)
                             /\ ~Refers(ampersand, input, i + 1) /\ ~Protects(ampersand, input, i + 1)
                             /\ \/ Meant(i) = text /\ Meant(i + 1) = <<>>
                                \/ Meant(i) = <<>> /\ Meant(i + 1) = text
            /\ IsToken(turn.token)
<1> DEFINE turn == Turn(v, ampersand, input, i)
           Meant(k) == Stands(ampersand, input, source, pmatch, nmatch, k)
           text == IF turn.token.group >= MaxRegMatch THEN <<turn.token.char>>
                   ELSE OfGroup(source, pmatch, nmatch, turn.token.group)
           c == input[i]
           last == i = Len(input)
           next == IF last THEN "end" ELSE input[i + 1]
<1>0. /\ Len(input) \in Nat /\ i \in Nat /\ input \in Seq(Chars)
      /\ MaxRegMatch \in Nat /\ MaxRegMatch > 2
  BY VarBufAssumption DEF SubstitutionAssumption, Arguments
<1>1. ~Protected(ampersand, input, i) BY <1>0, ProtectedMeans
<1>2. last \/ i + 1 \in 1 .. Len(input) BY <1>0
<1>3. i + 1 \in 1 .. Len(input) =>
        (Protected(ampersand, input, i + 1) <=> Protects(ampersand, input, i))
  <2> SUFFICES ASSUME i + 1 \in 1 .. Len(input)
               PROVE Protected(ampersand, input, i + 1) <=> Protects(ampersand, input, i)
    OBVIOUS
  <2> DEFINE j == i + 1
  <2>1. j \in 1 .. Len(input) /\ j > 1 /\ j - 1 = i BY <1>0
  <2> HIDE DEF j
  <2>2. Protected(ampersand, input, j) <=> j > 1 /\ Protects(ampersand, input, j - 1)
    BY <1>0, <2>1, ProtectedMeans
  <2> QED BY <2>1, <2>2 DEF j
<1>4. Turn(v, ampersand, input, i).token \in Token BY <1>0, TurnType
<1>5. turn = IF ampersand /\ c = "&" THEN One(Group(0))
             ELSE IF c = "$" /\ IsDigit(next) THEN Two(Group(Digits[next]))
             ELSE IF c = "$" /\ ~v.digit THEN IF last THEN One(Past) ELSE Two(Char(c))
             ELSE IF ~last /\ Escapes(ampersand, c, next) THEN Two(Char(next))
             ELSE One(Char(c))
  BY DEF Turn
<1>6. /\ \A n : One(n).token = n /\ One(n).skips = FALSE /\ Two(n).token = n /\ Two(n).skips = TRUE
      /\ \A n : Group(n).group = n /\ Char(n).group = MaxRegMatch /\ Char(n).char = n
  BY DEF One, Two, Group, Char
<1>7. IsDigit(next) => ~last /\ next = input[i + 1] /\ Digits[next] \in 0 .. 2 BY DigitsAre
<1>8. Refers(ampersand, input, i) <=> c = "$" /\ IsDigit(next)
  BY <1>0, <1>1, <1>2, <1>7 DEF Refers
<1>9. Protects(ampersand, input, i) <=> ~last /\ Escapes(ampersand, c, next)
  BY <1>0, <1>1, <1>2 DEF Protects, Escapes
<1>10. Meant(i) = CASE Refers(ampersand, input, i) -> OfGroup(source, pmatch, nmatch, Digits[input[i + 1]])
                   [] i > 1 /\ Refers(ampersand, input, i - 1) -> <<>>
                   [] ampersand /\ c = "&" /\ ~Protected(ampersand, input, i) ->
                        OfGroup(source, pmatch, nmatch, 0)
                   [] Protects(ampersand, input, i) -> <<>>
                   [] OTHER -> <<c>>
  BY DEF Stands, OfGroup
<1>11. ~last => Meant(i + 1) =
         CASE Refers(ampersand, input, i + 1) -> OfGroup(source, pmatch, nmatch, Digits[input[i + 1 + 1]])
           [] Refers(ampersand, input, i) -> <<>>
           [] ampersand /\ next = "&" /\ ~Protected(ampersand, input, i + 1) ->
                OfGroup(source, pmatch, nmatch, 0)
           [] Protects(ampersand, input, i + 1) -> <<>>
           [] OTHER -> <<next>>
  <2>1. i + 1 > 1 /\ i + 1 - 1 = i BY <1>0
  <2> QED BY <2>1 DEF Stands, OfGroup
<1>12. ~last => (Refers(ampersand, input, i + 1) => next = "$" /\ ~Protected(ampersand, input, i + 1))
               /\ (Protects(ampersand, input, i + 1) =>
                     next = "\\" /\ (~ampersand => ~Protected(ampersand, input, i + 1)))
  BY DEF Refers, Protects
<1>13. c = "$" /\ ~v.digit => IsDigit(next) BY <1>0, <1>2 DEF Dollars
<1>14. Escapes(ampersand, c, next) => c = "\\" /\ (ampersand => next \in {"$", "&"}) BY DEF Escapes
<1>15. (turn.token.group >= MaxRegMatch => text = <<turn.token.char>>)
       /\ (~(turn.token.group >= MaxRegMatch) => text = OfGroup(source, pmatch, nmatch, turn.token.group))
  OBVIOUS
<1>16. IsDigit(next) => next \notin {"$", "\\", "&"} BY DigitsAre
<1> HIDE DEF turn, Meant, text, c, last, next
<1>20. CASE ampersand /\ c = "&"
  <2>1. turn.token.group = 0 /\ turn.skips = FALSE BY <1>5, <1>6, <1>20
  <2>2. ~Refers(ampersand, input, i) /\ ~Protects(ampersand, input, i) BY <1>8, <1>9, <1>14, <1>20
  <2>3. text = OfGroup(source, pmatch, nmatch, 0) BY <1>0, <1>15, <2>1
  <2>4. Meant(i) = OfGroup(source, pmatch, nmatch, 0)
    BY <1>0, <1>1, <1>10, <1>20, <2>2 DEF c
  <2>5. IsToken(turn.token) BY <1>4, <2>1 DEF IsToken, turn
  <2> QED BY <2>1, <2>2, <2>3, <2>4, <2>5 DEF turn, text, Meant
<1>21. CASE c = "$" /\ IsDigit(next)
  <2>1. turn.token.group = Digits[next] /\ turn.skips = TRUE BY <1>5, <1>6, <1>21
  <2>2. Refers(ampersand, input, i) /\ ~Protects(ampersand, input, i) BY <1>8, <1>9, <1>14, <1>21
  <2>3. ~last /\ Digits[next] \in 0 .. 2 /\ next = input[i + 1] BY <1>7, <1>21
  <2>4. text = OfGroup(source, pmatch, nmatch, Digits[next]) BY <1>0, <1>15, <2>1, <2>3
  <2>5. Meant(i) = OfGroup(source, pmatch, nmatch, Digits[next])
    BY <1>0, <1>10, <1>21, <2>2, <2>3
  <2>6. ~Refers(ampersand, input, i + 1) /\ ~Protects(ampersand, input, i + 1)
    BY <1>12, <1>16, <1>21, <2>3
  <2>7. Meant(i + 1) = <<>> BY <1>11, <1>16, <1>21, <2>2, <2>3, <2>6
  <2>8. IsToken(turn.token) BY <1>4, <2>1, <2>3 DEF IsToken, turn
  <2>9. i + 1 \in 1 .. Len(input) BY <1>2, <2>3
  <2> QED BY <2>1, <2>2, <2>4, <2>5, <2>6, <2>7, <2>8, <2>9 DEF turn, text, Meant
<1>22. CASE ~last /\ Escapes(ampersand, c, next)
  <2>1. turn = Two(Char(next)) BY <1>5, <1>14, <1>22
  <2>2. turn.token.group = MaxRegMatch /\ turn.token.char = next /\ turn.skips = TRUE BY <1>6, <2>1
  <2>3. ~Refers(ampersand, input, i) /\ Protects(ampersand, input, i) BY <1>8, <1>9, <1>14, <1>22
  <2>4. text = <<next>> BY <1>0, <1>15, <2>2
  <2>5. c # "&" BY <1>14, <1>22
  <2>6. Meant(i) = <<>> BY <1>10, <2>3, <2>5
  <2>7. i + 1 \in 1 .. Len(input) /\ Protected(ampersand, input, i + 1) BY <1>2, <1>3, <1>22, <2>3
  <2>8. ~Refers(ampersand, input, i + 1) BY <1>12, <1>22, <2>7
  <2>9. ~Protects(ampersand, input, i + 1) BY <1>12, <1>14, <1>22, <2>7
  <2>10. Meant(i + 1) = <<next>> BY <1>11, <1>22, <2>3, <2>7, <2>8, <2>9
  <2>11. IsToken(turn.token) BY <1>0, <1>4, <2>2 DEF IsToken, turn
  <2> QED BY <2>2, <2>3, <2>4, <2>6, <2>7, <2>8, <2>9, <2>10, <2>11 DEF turn, text, Meant
<1>23. CASE ~(ampersand /\ c = "&") /\ ~(c = "$" /\ IsDigit(next)) /\ ~(~last /\ Escapes(ampersand, c, next))
  <2>1. turn = One(Char(c)) BY <1>5, <1>13, <1>23
  <2>2. turn.token.group = MaxRegMatch /\ turn.token.char = c /\ turn.skips = FALSE BY <1>6, <2>1
  <2>3. ~Refers(ampersand, input, i) /\ ~Protects(ampersand, input, i) BY <1>8, <1>9, <1>23
  <2>4. text = <<c>> BY <1>0, <1>15, <2>2
  <2>5. Meant(i) = <<c>> BY <1>0, <1>10, <1>23, <2>3
  <2>6. IsToken(turn.token) BY <1>0, <1>4, <2>2 DEF IsToken, turn
  <2> QED BY <2>2, <2>3, <2>4, <2>5, <2>6 DEF turn, text, Meant
<1> QED BY <1>20, <1>21, <1>22, <1>23

\* What the second pass has written for the tokens it has read.
Pieces(v, source, pmatch, nmatch, tokens) ==
  [k \in 1 .. Len(tokens) |-> TokenText(v, source, pmatch, nmatch, tokens[k])]

\* After i characters, the text is what they stand for; after a turn that has read
\* the next one, too, what that stands for as well.
ReadSoFar(v, ampersand, input, source, pmatch, nmatch, f, before, i) ==
  LET texts == Pieces(v, source, pmatch, nmatch, before.tokens) IN
  /\ before \in Reading
  /\ \A k \in 1 .. Len(before.tokens) : IsToken(before.tokens[k])
  /\ Tame(v, pmatch, nmatch, before.tokens) =>
       /\ texts \in Seq(Seq(Chars))
       /\ FlattenSeq(texts) = IF before.skips THEN f[i + 1] ELSE f[i]
  /\ before.skips => i + 1 \in 1 .. Len(input)
  /\ ~before.skips /\ i > 0 => ~Refers(ampersand, input, i) /\ ~Protects(ampersand, input, i)
  /\ before.skips => ~Refers(ampersand, input, i + 1) /\ ~Protects(ampersand, input, i + 1)

LEMMA ReadOnStands ==
  ASSUME NEW v, NEW ampersand \in BOOLEAN, NEW input, NEW source, NEW pmatch, NEW nmatch,
         Arguments(input, source, pmatch, nmatch), Dollars(v, input),
         NEW f \in [0 .. Len(input) -> Seq(Chars)],
         IsFlat(f, [i \in 1 .. Len(input) |-> Stands(ampersand, input, source, pmatch, nmatch, i)]),
         NEW i \in 1 .. Len(input), NEW before,
         ReadSoFar(v, ampersand, input, source, pmatch, nmatch, f, before, i - 1)
  PROVE  ReadSoFar(v, ampersand, input, source, pmatch, nmatch, f,
                   ReadOn(v, ampersand, input, before, i), i)
<1> DEFINE n == Len(input)
           s == [k \in 1 .. n |-> Stands(ampersand, input, source, pmatch, nmatch, k)]
           turn == Turn(v, ampersand, input, i)
           after == ReadOn(v, ampersand, input, before, i)
           Meant(t) == TokenText(v, source, pmatch, nmatch, t)
<1>0. n \in Nat /\ i \in Nat /\ i >= 1 /\ i - 1 + 1 = i /\ input \in Seq(Chars) BY DEF Arguments
<1>1. before \in Reading /\ after \in Reading
  BY <1>0, ReadOnType DEF ReadSoFar
<1>2. \A k \in 1 .. n : f[k] = f[k - 1] \o s[k]
  <2>1. Len(s) = n BY <1>0
  <2> HIDE DEF n, s
  <2> QED BY <2>1 DEF IsFlat, n, s
<1>3. CASE before.skips
  <2>1. after = [before EXCEPT !.skips = FALSE] BY <1>3 DEF ReadOn
  <2>2. after.tokens = before.tokens /\ after.skips = FALSE BY <1>1, <2>1 DEF Reading
  <2> HIDE DEF after
  <2> QED BY <1>0, <1>1, <1>3, <2>2 DEF ReadSoFar, after
<1>4. CASE ~before.skips
  <2>1. i > 1 => ~Refers(ampersand, input, i - 1) /\ ~Protects(ampersand, input, i - 1)
    BY <1>0, <1>4 DEF ReadSoFar
  <2>2. after = [tokens |-> Append(before.tokens, turn.token), skips |-> turn.skips]
    BY <1>4 DEF ReadOn
  <2> DEFINE text == IF turn.token.group >= MaxRegMatch THEN <<turn.token.char>>
                     ELSE OfGroup(source, pmatch, nmatch, turn.token.group)
             stands(k) == Stands(ampersand, input, source, pmatch, nmatch, k)
  <2>3. /\ turn.skips <=> Refers(ampersand, input, i) \/ Protects(ampersand, input, i)
        /\ ~turn.skips => stands(i) = text
        /\ turn.skips => /\ i + 1 \in 1 .. n
                         /\ ~Refers(ampersand, input, i + 1) /\ ~Protects(ampersand, input, i + 1)
                         /\ \/ stands(i) = text /\ stands(i + 1) = <<>>
                            \/ stands(i) = <<>> /\ stands(i + 1) = text
        /\ IsToken(turn.token)
    BY <2>1, TurnStands
  <2>4. turn.token \in Token /\ turn.skips \in BOOLEAN
    <3>1. turn \in [token : Token, skips : BOOLEAN] BY <1>0, TurnType
    <3> HIDE DEF turn
    <3> QED BY <3>1
  <2> HIDE DEF turn
  <2>5. before.tokens \in Seq(Token) BY <1>1 DEF Reading
  <2> DEFINE old == before.tokens
             new == Append(old, turn.token)
             m == Len(old)
  <2>6. after.tokens = new /\ after.skips = turn.skips BY <2>2
  <2>7. m \in Nat /\ Len(new) = m + 1 /\ new[m + 1] = turn.token /\ \A k \in 1 .. m : new[k] = old[k]
    BY <2>4, <2>5
  <2>8. \A k \in 1 .. m : IsToken(old[k]) BY DEF ReadSoFar
  <2> HIDE DEF after, new, m
  <2>9. \A k \in 1 .. m + 1 : k = m + 1 \/ k \in 1 .. m BY <2>7
  <2>10. \A k \in 1 .. Len(new) : IsToken(new[k]) BY <2>3, <2>7, <2>8, <2>9
  <2>11. ASSUME Tame(v, pmatch, nmatch, new)
         PROVE  /\ Pieces(v, source, pmatch, nmatch, new) \in Seq(Seq(Chars))
                /\ FlattenSeq(Pieces(v, source, pmatch, nmatch, new))
                     = IF turn.skips THEN f[i + 1] ELSE f[i]
    <3> DEFINE texts == Pieces(v, source, pmatch, nmatch, old)
               all == Pieces(v, source, pmatch, nmatch, new)
    <3>1. Tame(v, pmatch, nmatch, old) /\ ~Runs(v, pmatch, nmatch, turn.token)
      <4>1. \A k \in 1 .. m : ~Runs(v, pmatch, nmatch, old[k])
        <5> SUFFICES ASSUME NEW k \in 1 .. m PROVE ~Runs(v, pmatch, nmatch, old[k]) OBVIOUS
        <5>1. k \in 1 .. Len(new) /\ new[k] = old[k] BY <2>7
        <5> QED BY <2>11, <5>1 DEF Tame
      <4>2. m + 1 \in 1 .. Len(new) BY <2>7
      <4> QED BY <2>7, <2>11, <4>1, <4>2 DEF Tame, m
    <3>2. Meant(turn.token) = text BY <2>3, <3>1, TokenTexts
    <3>3. text \in Seq(Chars)
      <4> HIDE DEF text
      <4>1. Meant(turn.token) \in Seq(Chars) BY <2>3, <3>1, TokenTextType
      <4> HIDE DEF Meant
      <4> QED BY <3>2, <4>1
    <3>4. texts \in Seq(Seq(Chars)) /\ FlattenSeq(texts) = f[i - 1] BY <1>4, <3>1 DEF ReadSoFar
    <3> HIDE DEF text
    <3>5. all = Append(texts, text)
      <4>1. Len(texts) = m /\ \A k \in 1 .. m : texts[k] = Meant(old[k])
        BY <2>7 DEF Pieces, m
      <4>2. all = [k \in 1 .. m + 1 |-> Meant(new[k])] BY <2>7 DEF Pieces
      <4>3. Append(texts, text) = [k \in 1 .. m + 1 |-> IF k = m + 1 THEN text ELSE texts[k]]
        <5> HIDE DEF texts
        <5> DEFINE Y == Seq(Chars)
        <5>1. texts \in Seq(Y) /\ text \in Y BY <3>3, <3>4
        <5> HIDE DEF Y
        <5> DEFINE longer == Append(texts, text)
        <5>2. /\ longer \in Seq(Y) /\ Len(longer) = m + 1 /\ longer[m + 1] = text
              /\ \A k \in 1 .. m : longer[k] = texts[k]
          BY <4>1, <5>1, AppendProperties
        <5> HIDE DEF longer
        <5>3. longer = [k \in 1 .. m + 1 |-> longer[k]] BY <5>2
        <5>4. \A k \in 1 .. m + 1 : longer[k] = IF k = m + 1 THEN text ELSE texts[k]
          BY <2>9, <5>2
        <5> QED BY <5>3, <5>4 DEF longer
      <4>4. \A k \in 1 .. m + 1 : Meant(new[k]) = IF k = m + 1 THEN text ELSE texts[k]
        <5> SUFFICES ASSUME NEW k \in 1 .. m + 1
                     PROVE  Meant(new[k]) = IF k = m + 1 THEN text ELSE texts[k]
          OBVIOUS
        <5>1. CASE k = m + 1 BY <2>7, <3>2, <5>1
        <5>2. CASE k \in 1 .. m /\ k # m + 1 
          <6> HIDE DEF texts, Meant
          <6> QED BY <2>7, <4>1, <5>2
        <5> QED BY <2>9, <5>1, <5>2, <2>7
      <4> HIDE DEF texts, all, Meant
      <4> QED BY <4>2, <4>3, <4>4
    <3> HIDE DEF texts, all
    <3>6. all \in Seq(Seq(Chars)) /\ FlattenSeq(all) = f[i - 1] \o text
      <4> DEFINE Y == Seq(Chars)
      <4>1. Append(texts, text) \in Seq(Y) /\ texts \in Seq(Y) BY <3>3, <3>4
      <4>2. FlattenSeq(Append(texts, text)) = FlattenSeq(texts) \o text BY <3>3, <3>4, FlatAppend
      <4> QED BY <3>4, <3>5, <4>1, <4>2, Zenon
    <3>7. f[i - 1] \in Seq(Chars) /\ f[i] \in Seq(Chars)
      <4>1. i - 1 \in 0 .. n /\ i \in 0 .. n BY <1>0
      <4> HIDE DEF n
      <4> QED BY <4>1
    <3>8. s[i] = stands(i) /\ f[i] = f[i - 1] \o s[i] BY <1>2
    <3>9. CASE ~turn.skips BY <2>3, <3>6, <3>8, <3>9 DEF all
    <3>10. CASE turn.skips
      <4>1. i + 1 \in 1 .. n BY <2>3, <3>10
      <4>2. s[i + 1] = stands(i + 1) BY <4>1
      <4> HIDE DEF s, n, stands
      <4> DEFINE j == i + 1
      <4>3. j \in 1 .. n /\ j - 1 = i BY <1>0, <4>1
      <4> HIDE DEF j
      <4>4. f[j] = f[j - 1] \o s[j] BY <1>2, <4>3, Zenon
      <4>5. f[i + 1] = f[i] \o stands(i + 1) /\ f[i] = f[i - 1] \o stands(i)
        BY <3>8, <4>2, <4>3, <4>4, Zenon DEF j
      <4>6. f[i - 1] \o <<>> = f[i - 1] /\ f[i] \o <<>> = f[i] BY <3>7
      <4>7. CASE stands(i) = text /\ stands(i + 1) = <<>>
        BY <3>6, <3>10, <4>5, <4>6, <4>7, Zenon DEF all
      <4>8. CASE stands(i) = <<>> /\ stands(i + 1) = text
        BY <3>6, <3>10, <4>5, <4>6, <4>8, Zenon DEF all
      <4> QED BY <2>3, <3>10, <4>7, <4>8
    <3> QED BY <3>9, <3>10
  <2>12. /\ turn.skips => i + 1 \in 1 .. n
                          /\ ~Refers(ampersand, input, i + 1) /\ ~Protects(ampersand, input, i + 1)
         /\ ~turn.skips => ~Refers(ampersand, input, i) /\ ~Protects(ampersand, input, i)
    BY <2>3
  <2> QED BY <1>1, <2>6, <2>10, <2>11, <2>12 DEF ReadSoFar, after
<1> QED BY <1>3, <1>4

LEMMA WrittenStands ==
  ASSUME NEW v, NEW ampersand \in BOOLEAN, NEW input, NEW source, NEW pmatch, NEW nmatch,
         Arguments(input, source, pmatch, nmatch), Dollars(v, input),
         Tame(v, pmatch, nmatch, Tokens(v, ampersand, input))
  PROVE  LET texts == Pieces(v, source, pmatch, nmatch, Tokens(v, ampersand, input)) IN
         /\ FlattenSeq(texts) = StandsFor(ampersand, input, source, pmatch, nmatch)
         /\ FlattenSeq(texts) \in Seq(Chars)
         /\ texts \in Seq(Seq(Chars))
         /\ Tokens(v, ampersand, input) \in Seq(Token)
         /\ \A k \in 1 .. Len(texts) : IsToken(Tokens(v, ampersand, input)[k])
<1> DEFINE n == Len(input)
           s == [i \in 1 .. n |-> Stands(ampersand, input, source, pmatch, nmatch, i)]
<1>0. input \in Seq(Chars) /\ n \in Nat /\ DOMAIN input = 1 .. n BY DEF Arguments
<1>1. s \in Seq(Seq(Chars)) /\ Len(s) = n
  <2>1. \A i \in 1 .. n : s[i] \in Seq(Chars) BY StandsType
  <2> DEFINE Y == Seq(Chars)
  <2>2. s = [i \in 1 .. n |-> s[i]] /\ \A i \in 1 .. n : s[i] \in Y BY <2>1
  <2> HIDE DEF Y, s, n
  <2> QED BY <1>0, <2>2 DEF Y
<1>2. PICK f \in [0 .. n -> Seq(Chars)] : IsFlat(f, s)
  <2> HIDE DEF s, n
  <2> QED BY <1>1, FlatExists
<1>3. StandsFor(ampersand, input, source, pmatch, nmatch) = f[n]
  <2>1. StandsFor(ampersand, input, source, pmatch, nmatch) = FlattenSeq(s)
    BY <1>0 DEF StandsFor
  <2> HIDE DEF s, n
  <2>2. FlattenSeq(s) = f[Len(s)] BY <1>1, <1>2, FlatIs
  <2> QED BY <1>1, <2>1, <2>2
<1>4. PICK r \in [0 .. n -> Reading] :
        IsReading(r, v, ampersand, input) /\ Tokens(v, ampersand, input) = r[n].tokens
  BY <1>0, TokensRead
<1> DEFINE Good(k) == ReadSoFar(v, ampersand, input, source, pmatch, nmatch, f, r[k], k)
           P == {k \in Nat : k <= n => Good(k)}
<1>5. 0 \in P
  <2>1. r[0] = Unread BY <1>4 DEF IsReading
  <2>2. r[0].tokens = <<>> /\ r[0].skips = FALSE BY <2>1 DEF Unread
  <2>3. Pieces(v, source, pmatch, nmatch, r[0].tokens) = <<>> BY <2>2 DEF Pieces
  <2>4. f[0] = <<>> BY <1>2 DEF IsFlat
  <2>5. <<>> \in Seq(Seq(Chars)) OBVIOUS
  <2>6. r[0] \in Reading BY <1>0, <1>4
  <2>7. \A k \in 1 .. Len(r[0].tokens) : IsToken(r[0].tokens[k]) BY <2>2
  <2>8. Good(0) BY <2>2, <2>3, <2>4, <2>5, <2>6, <2>7, FlatEmpty DEF ReadSoFar
  <2> QED BY <2>8
<1>6. \A k \in Nat : k \in P => k + 1 \in P
  <2> SUFFICES ASSUME NEW k \in Nat, k <= n => Good(k), k + 1 <= n PROVE Good(k + 1)
    OBVIOUS
  <2> DEFINE j == k + 1
  <2>1. j \in 1 .. n /\ j - 1 = k /\ Good(k) BY <1>0
  <2> HIDE DEF j
  <2>2. Good(j - 1) BY <2>1
  <2>3. r[j] = ReadOn(v, ampersand, input, r[j - 1], j) BY <1>4, <2>1 DEF IsReading
  <2>4. Good(j) BY <1>2, <2>1, <2>2, <2>3, ReadOnStands
  <2> QED BY <2>4 DEF j
<1>7. Good(n)
  <2> HIDE DEF P, n, Good
  <2>1. n \in P BY <1>0, <1>5, <1>6, Inductive
  <2> QED BY <2>1 DEF P
<1>8. ~r[n].skips /\ r[n].skips = FALSE
  <2>1. ~r[n].skips BY <1>0, <1>7 DEF ReadSoFar
  <2>2. r[n].skips \in BOOLEAN BY <1>7 DEF ReadSoFar, Reading
  <2> QED BY <2>1, <2>2
<1> DEFINE tokens == r[n].tokens
           texts == Pieces(v, source, pmatch, nmatch, tokens)
<1>9. texts \in Seq(Seq(Chars)) /\ FlattenSeq(texts) = f[n] BY <1>4, <1>7, <1>8 DEF ReadSoFar
<1>10. f[n] \in Seq(Chars) BY <1>0
<1>11. tokens \in Seq(Token) /\ \A k \in 1 .. Len(tokens) : IsToken(tokens[k])
  BY <1>7 DEF ReadSoFar, Reading
<1>12. Len(texts) = Len(tokens) BY <1>11 DEF Pieces
<1> HIDE DEF texts, tokens, n
<1> QED BY <1>3, <1>4, <1>9, <1>10, <1>11, <1>12 DEF texts, tokens
-----------------------------------------------------------------------------
(* The first pass counts.                                                  *)
LEMMA WrapIs ==
  /\ SizeMax \in Nat /\ SizeMax > 0
  /\ \A n \in Int : Wrap(n) \in 0 .. SizeMax
  /\ \A n \in 0 .. SizeMax : Wrap(n) = n
<1>1. SizeMax \in Nat /\ SizeMax > 0 BY VarBufAssumption DEF SubstitutionAssumption
<1>2. ASSUME NEW n \in Int PROVE Wrap(n) \in 0 .. SizeMax BY <1>1 DEF Wrap
<1>3. ASSUME NEW n \in 0 .. SizeMax PROVE Wrap(n) = n BY <1>1 DEF Wrap
<1> QED BY <1>1, <1>2, <1>3

Count == [len : 0 .. SizeMax, full : BOOLEAN]
Nothing == [len |-> 0, full |-> FALSE]

LEMMA SizeIs ==
  ASSUME NEW v, NEW input, NEW source, NEW pmatch, NEW nmatch, NEW token,
         Arguments(input, source, pmatch, nmatch), IsToken(token)
  PROVE  /\ ~(token.group >= MaxRegMatch) => Size(pmatch, token.group) \in 0 .. SizeMax
         /\ ~Runs(v, pmatch, nmatch, token) =>
              Len(TokenText(v, source, pmatch, nmatch, token)) =
                IF token.group >= MaxRegMatch THEN 1
                ELSE IF GroupTaken(v, pmatch, nmatch, token.group) THEN Size(pmatch, token.group)
                ELSE 0
<1> DEFINE n == token.group
<1>1. CASE n >= MaxRegMatch BY <1>1 DEF TokenText
<1>2. CASE ~(n >= MaxRegMatch)
  <2>1. n \in 0 .. 2 /\ n < MaxRegMatch
    BY <1>2, VarBufAssumption, TokenIs DEF SubstitutionAssumption
  <2> DEFINE so == pmatch[n].so
             eo == pmatch[n].eo
  <2>2. so \in Int /\ eo \in Int /\ (so < eo => so >= 0 /\ eo <= Len(source))
        /\ Len(source) \in Nat /\ Len(source) < SizeMax
    BY <2>1 DEF Arguments, Groups
  <2>3. Size(pmatch, n) = Wrap(eo - so) /\ Size(pmatch, n) \in 0 .. SizeMax
    BY <2>2, WrapIs DEF Size
  <2>4. so < eo => Size(pmatch, n) = eo - so /\ Len(GroupText(source, pmatch, n)) = eo - so
    <3>1. so < eo => eo - so \in 0 .. SizeMax BY <2>2, WrapIs
    <3>2. so < eo => Len(GroupText(source, pmatch, n)) = eo - so BY <2>1, GroupTexts
    <3> HIDE DEF so, eo, n
    <3>3. so < eo => Wrap(eo - so) = eo - so BY <2>2, <3>1, WrapIs
    <3> QED BY <2>3, <3>2, <3>3
  <2>5. so = eo => Size(pmatch, n) = 0 /\ GroupText(source, pmatch, n) = <<>>
    <3>1. so = eo => eo - so = 0 BY <2>2
    <3> QED BY <2>1, <2>3, <3>1, WrapIs, GroupTexts
  <2>6. ~Runs(v, pmatch, nmatch, token) => (n < nmatch => v.ordered \/ ~(eo < so)) BY <2>1 DEF Runs
  <2>7. TokenText(v, source, pmatch, nmatch, token) =
          IF GroupTaken(v, pmatch, nmatch, n) THEN GroupText(source, pmatch, n) ELSE <<>>
    BY <1>2 DEF TokenText
  <2>8. GroupTaken(v, pmatch, nmatch, n) <=> n < nmatch /\ (v.ordered => so < eo) BY DEF GroupTaken
  <2> HIDE DEF so, eo, n
  <2>9. ~Runs(v, pmatch, nmatch, token) =>
          Len(TokenText(v, source, pmatch, nmatch, token)) =
            IF GroupTaken(v, pmatch, nmatch, n) THEN Size(pmatch, n) ELSE 0
    BY <2>2, <2>4, <2>5, <2>6, <2>7, <2>8
  <2> QED BY <1>2, <2>3, <2>9 DEF n
<1> QED BY <1>1, <1>2

LEMMA CountTokenType ==
  ASSUME NEW v, NEW input, NEW source, NEW pmatch, NEW nmatch, NEW token,
         Arguments(input, source, pmatch, nmatch), IsToken(token), NEW sum \in Count
  PROVE  CountToken(v, pmatch, nmatch, sum, token) \in Count
<1>1. sum.len \in 0 .. SizeMax /\ sum.full \in BOOLEAN BY DEF Count
<1>2. Wrap(sum.len + 1) \in 0 .. SizeMax BY <1>1, WrapIs
<1> DEFINE size == Size(pmatch, token.group)
<1>3. ~(token.group >= MaxRegMatch) => Wrap(sum.len + size) \in 0 .. SizeMax
  <2>1. ~(token.group >= MaxRegMatch) => size \in 0 .. SizeMax BY SizeIs
  <2> HIDE DEF size
  <2>2. ~(token.group >= MaxRegMatch) => sum.len + size \in Int BY <1>1, <2>1, WrapIs
  <2> QED BY <2>2, WrapIs
<1> QED BY <1>1, <1>2, <1>3 DEF Count, CountToken

IsCount(sum, v, pmatch, nmatch, tokens) ==
  sum[0] = Nothing
  /\ \A k \in 1 .. Len(tokens) : sum[k] = CountToken(v, pmatch, nmatch, sum[k - 1], tokens[k])

LEMMA CountedSum ==
  ASSUME NEW v, NEW input, NEW source, NEW pmatch, NEW nmatch,
         Arguments(input, source, pmatch, nmatch),
         AreTokens(FirstTokens(v, input))
  PROVE  \E sum \in [0 .. Len(FirstTokens(v, input)) -> Count] :
           /\ IsCount(sum, v, pmatch, nmatch, FirstTokens(v, input))
           /\ Counted(v, input, pmatch, nmatch) = sum[Len(FirstTokens(v, input))]
<1> DEFINE tokens == FirstTokens(v, input)
           n == Len(tokens)
           Loop(g) == [k \in 0 .. n |->
             IF k = 0 THEN [len |-> 0, full |-> FALSE]
             ELSE CountToken(v, pmatch, nmatch, g[k - 1], tokens[k])]
           r == CHOOSE g : g = Loop(g)
           step == [t \in Count \X (1 .. n) |-> CountToken(v, pmatch, nmatch, t[1], tokens[t[2]])]
<1>0. n \in Nat /\ \A k \in 1 .. n : IsToken(tokens[k])
  <2>1. input \in Seq(Chars) BY DEF Arguments
  <2>2. tokens \in Seq(Token) BY <2>1, TokensType DEF FirstTokens
  <2> HIDE DEF tokens
  <2> QED BY <2>2 DEF tokens, AreTokens
<1> HIDE DEF tokens
<1>1. \A x \in Count, k \in 1 .. n : step[<<x, k>>] = CountToken(v, pmatch, nmatch, x, tokens[k])
  <2> SUFFICES ASSUME NEW x \in Count, NEW k \in 1 .. n
               PROVE  step[<<x, k>>] = CountToken(v, pmatch, nmatch, x, tokens[k])
    OBVIOUS
  <2> HIDE DEF n
  <2> QED OBVIOUS
<1>2. step \in [Count \X (1 .. n) -> Count]
  <2>1. \A t \in Count \X (1 .. n) : t[1] \in Count /\ t[2] \in 1 .. n OBVIOUS
  <2>2. \A t \in Count \X (1 .. n) : CountToken(v, pmatch, nmatch, t[1], tokens[t[2]]) \in Count
    BY <1>0, <2>1, CountTokenType
  <2> QED BY <2>2
<1>3. Nothing \in Count BY WrapIs DEF Nothing, Count
<1> HIDE DEF step
<1>4. Turns(n, Count, Nothing, step) BY <1>0, <1>2, <1>3 DEF Turns
<1>5. PICK f \in [0 .. n -> Count] :
        f[0] = Nothing /\ \A k \in 1 .. n : f[k] = step[<<f[k - 1], k>>]
  <2> HIDE DEF n
  <2> QED BY <1>4, Loops
<1>6. \A k \in 1 .. n : f[k] = CountToken(v, pmatch, nmatch, f[k - 1], tokens[k])
  <2> SUFFICES ASSUME NEW k \in 1 .. n
               PROVE f[k] = CountToken(v, pmatch, nmatch, f[k - 1], tokens[k])
    OBVIOUS
  <2>1. k - 1 \in 0 .. n BY <1>0
  <2> HIDE DEF n
  <2> QED BY <1>1, <1>5, <2>1
<1>7. \A g, k : k \in 0 .. n => Loop(g)[k] =
        IF k = 0 THEN Nothing ELSE CountToken(v, pmatch, nmatch, g[k - 1], tokens[k])
  <2> HIDE DEF n
  <2> QED BY DEF Nothing
<1>8. f = Loop(f)
  <2>1. \A k \in 0 .. n : f[k] = Loop(f)[k]
    <3>1. \A k \in 0 .. n : k = 0 \/ k \in 1 .. n BY <1>0
    <3> HIDE DEF Loop, n
    <3> QED BY <1>5, <1>6, <1>7, <3>1
  <2>2. DOMAIN Loop(f) = 0 .. n /\ Loop(f) = [k \in 0 .. n |-> Loop(f)[k]] OBVIOUS
  <2> HIDE DEF Loop, n
  <2>3. f = [k \in 0 .. n |-> f[k]] OBVIOUS
  <2> QED BY <2>1, <2>2, <2>3
<1>9. r = Loop(r)
  <2> HIDE DEF Loop
  <2> QED BY <1>8
<1>10. Counted(v, input, pmatch, nmatch) = r[n] BY DEF Counted, tokens
<1> HIDE DEF r
<1>11. r[0] = Nothing /\ \A k \in 1 .. n : r[k] = CountToken(v, pmatch, nmatch, r[k - 1], tokens[k])
  <2>1. 0 \in 0 .. n /\ \A k \in 1 .. n : k \in 0 .. n /\ k # 0 BY <1>0
  <2> HIDE DEF Loop, n
  <2> QED BY <1>7, <1>9, <2>1
<1> DEFINE P == {k \in Nat : k <= n => r[k] = f[k]}
<1>12. 0 \in P BY <1>5, <1>11
<1>13. ASSUME NEW k \in Nat, k \in P PROVE k + 1 \in P
  <2>1. k + 1 <= n => k + 1 \in 1 .. n /\ k <= n /\ k + 1 - 1 = k BY <1>0
  <2> HIDE DEF n
  <2>2. k + 1 <= n => r[k + 1] = f[k + 1] BY <1>6, <1>11, <1>13, <2>1
  <2> QED BY <2>2
<1>14. r[n] = f[n]
  <2> HIDE DEF P
  <2>1. n \in P BY <1>0, <1>12, <1>13, Inductive
  <2> QED BY <1>0, <2>1 DEF P
<1> QED BY <1>5, <1>6, <1>10, <1>14 DEF IsCount, tokens

\* As long as the length fits its type, it is counted right; and of groups alone, it is
\* counted right or given up on, where the code tests it.
CountsRight(v, sum, tokens, texts, k) ==
  ~sum.full =>
    /\ Len(texts) <= SizeMax => sum.len = Len(texts)
    /\ v.overflow /\ (\A i \in 1 .. k : ~(tokens[i].group >= MaxRegMatch)) =>
         sum.len = Len(texts) /\ Len(texts) < SizeMax

LEMMA CountTokenRight ==
  ASSUME NEW v, NEW input, NEW source, NEW pmatch, NEW nmatch,
         Arguments(input, source, pmatch, nmatch),
         NEW tokens, NEW k \in Nat, IsToken(tokens[k + 1]),
         ~Runs(v, pmatch, nmatch, tokens[k + 1]),
         NEW sum \in Count, NEW texts \in Seq(Chars), CountsRight(v, sum, tokens, texts, k)
  PROVE  CountsRight(v, CountToken(v, pmatch, nmatch, sum, tokens[k + 1]), tokens,
                     texts \o TokenText(v, source, pmatch, nmatch, tokens[k + 1]), k + 1)
<1> DEFINE token == tokens[k + 1]
           text == TokenText(v, source, pmatch, nmatch, token)
           size == Size(pmatch, token.group)
           after == CountToken(v, pmatch, nmatch, sum, token)
           all == texts \o text
           Within(j) == \A i \in 1 .. j : ~(tokens[i].group >= MaxRegMatch)
<1>1. text \in Seq(Chars) BY TokenTextType
<1>2. /\ ~(token.group >= MaxRegMatch) => size \in 0 .. SizeMax
      /\ Len(text) = IF token.group >= MaxRegMatch THEN 1
                     ELSE IF GroupTaken(v, pmatch, nmatch, token.group) THEN size ELSE 0
  BY SizeIs
<1> HIDE DEF text, size
<1>3. Len(all) = Len(texts) + Len(text) /\ Len(texts) \in Nat /\ Len(text) \in Nat BY <1>1
<1>4. Within(k + 1) => Within(k) /\ ~(token.group >= MaxRegMatch) OBVIOUS
<1>5. sum.len \in 0 .. SizeMax /\ sum.full \in BOOLEAN BY DEF Count
<1>6. after = IF sum.full THEN sum
              ELSE IF token.group >= MaxRegMatch THEN [sum EXCEPT !.len = Wrap(@ + 1)]
              ELSE IF ~GroupTaken(v, pmatch, nmatch, token.group) THEN sum
              ELSE IF v.overflow /\ SizeMax - sum.len <= size THEN [sum EXCEPT !.full = TRUE]
              ELSE [sum EXCEPT !.len = Wrap(@ + size)]
  BY DEF CountToken, size
<1>7. SizeMax \in Nat /\ \A n \in 0 .. SizeMax : Wrap(n) = n BY WrapIs
<1> HIDE DEF after, all, token, Within
<1>8. SUFFICES ASSUME ~after.full
               PROVE  /\ Len(all) <= SizeMax => after.len = Len(all)
                      /\ v.overflow /\ Within(k + 1) => after.len = Len(all) /\ Len(all) < SizeMax
  BY DEF CountsRight, after, all, Within, token, text
<1>9. ~sum.full BY <1>6, <1>8
<1>10. /\ Len(texts) <= SizeMax => sum.len = Len(texts)
       /\ v.overflow /\ Within(k) => sum.len = Len(texts) /\ Len(texts) < SizeMax
  BY <1>9 DEF CountsRight, Within
<1>11. CASE token.group >= MaxRegMatch
  <2>1. Len(text) = 1 /\ after.len = Wrap(sum.len + 1) BY <1>2, <1>5, <1>6, <1>9, <1>11 DEF Count
  <2>2. Len(all) <= SizeMax => sum.len = Len(texts) /\ sum.len + 1 \in 0 .. SizeMax
    BY <1>3, <1>5, <1>7, <1>10, <2>1
  <2>3. Len(all) <= SizeMax => after.len = Len(all) BY <1>3, <1>7, <2>1, <2>2
  <2> QED BY <1>4, <1>11, <2>3
<1>12. CASE ~(token.group >= MaxRegMatch) /\ ~GroupTaken(v, pmatch, nmatch, token.group)
  <2>1. Len(text) = 0 /\ after.len = sum.len BY <1>2, <1>6, <1>9, <1>12
  <2> QED BY <1>3, <1>4, <1>7, <1>10, <2>1
<1>13. CASE ~(token.group >= MaxRegMatch) /\ GroupTaken(v, pmatch, nmatch, token.group)
  <2>1. Len(text) = size /\ size \in 0 .. SizeMax BY <1>2, <1>13
  <2>2. ~(v.overflow /\ SizeMax - sum.len <= size) /\ after.len = Wrap(sum.len + size)
    BY <1>5, <1>6, <1>8, <1>9, <1>13 DEF Count
  <2>3. Len(all) <= SizeMax => sum.len = Len(texts) /\ sum.len + size \in 0 .. SizeMax
    BY <1>3, <1>5, <1>7, <1>10, <2>1
  <2>4. Len(all) <= SizeMax => after.len = Len(all) BY <1>3, <1>7, <2>1, <2>2, <2>3
  <2>5. v.overflow /\ Within(k + 1) => Len(all) < SizeMax
    BY <1>3, <1>4, <1>5, <1>7, <1>10, <2>1, <2>2
  <2> QED BY <1>3, <1>7, <2>4, <2>5
<1> QED BY <1>11, <1>12, <1>13

LEMMA CountedRight ==
  ASSUME NEW v, NEW input, NEW source, NEW pmatch, NEW nmatch,
         Arguments(input, source, pmatch, nmatch),
         AreTokens(FirstTokens(v, input)),
         Tame(v, pmatch, nmatch, FirstTokens(v, input))
  PROVE  LET tokens == FirstTokens(v, input)
             text == FlattenSeq(Pieces(v, source, pmatch, nmatch, tokens))
         IN /\ text \in Seq(Chars)
            /\ Counted(v, input, pmatch, nmatch) \in Count
            /\ CountsRight(v, Counted(v, input, pmatch, nmatch), tokens, text, Len(tokens))
<1> DEFINE tokens == FirstTokens(v, input)
           n == Len(tokens)
           texts == Pieces(v, source, pmatch, nmatch, tokens)
<1>0. n \in Nat /\ \A k \in 1 .. n : IsToken(tokens[k]) /\ ~Runs(v, pmatch, nmatch, tokens[k])
  <2>1. input \in Seq(Chars) BY DEF Arguments
  <2>2. tokens \in Seq(Token) BY <2>1, TokensType DEF FirstTokens
  <2> HIDE DEF tokens
  <2> QED BY <2>2 DEF tokens, Tame, AreTokens
<1>1. PICK sum \in [0 .. n -> Count] :
        /\ IsCount(sum, v, pmatch, nmatch, tokens)
        /\ Counted(v, input, pmatch, nmatch) = sum[n]
  BY CountedSum
<1> HIDE DEF tokens
<1>2. texts \in Seq(Seq(Chars)) /\ Len(texts) = n
      /\ \A k \in 1 .. n : texts[k] = TokenText(v, source, pmatch, nmatch, tokens[k])
  <2> DEFINE Y == Seq(Chars)
  <2>1. \A k \in 1 .. n : TokenText(v, source, pmatch, nmatch, tokens[k]) \in Y
    BY <1>0, TokenTextType
  <2> HIDE DEF Y
  <2>2. texts = [k \in 1 .. n |-> TokenText(v, source, pmatch, nmatch, tokens[k])] BY DEF Pieces
  <2>3. texts \in Seq(Y) BY <1>0, <2>1, <2>2
  <2> HIDE DEF texts, n
  <2> QED BY <1>0, <2>2, <2>3 DEF Y
<1> HIDE DEF texts
<1>3. PICK e \in [0 .. n -> Seq(Chars)] : IsFlat(e, texts)
  <2> HIDE DEF n
  <2> QED BY <1>2, FlatExists
<1>4. FlattenSeq(texts) = e[n]
  <2> HIDE DEF n
  <2>1. FlattenSeq(texts) = e[Len(texts)] BY <1>2, <1>3, FlatIs
  <2> QED BY <1>2, <2>1
<1> DEFINE Right(k) == CountsRight(v, sum[k], tokens, e[k], k)
           P == {k \in Nat : k <= n => Right(k)}
<1>5. 0 \in P
  <2>1. sum[0] = Nothing /\ e[0] = <<>> BY <1>1, <1>3 DEF IsCount, IsFlat
  <2>2. Right(0) BY <2>1, WrapIs DEF CountsRight, Nothing
  <2> QED BY <2>2
<1>6. \A k \in Nat : k \in P => k + 1 \in P
  <2> SUFFICES ASSUME NEW k \in Nat, k <= n => Right(k), k + 1 <= n PROVE Right(k + 1)
    OBVIOUS
  <2>1. k \in 0 .. n /\ k + 1 \in 1 .. n /\ k + 1 - 1 = k /\ Right(k) BY <1>0
  <2>2. sum[k] \in Count /\ e[k] \in Seq(Chars) BY <1>1, <1>3, <2>1
  <2> DEFINE j == k + 1
  <2>3. j \in 1 .. n /\ j - 1 = k BY <2>1
  <2>4. CountsRight(v, CountToken(v, pmatch, nmatch, sum[k], tokens[j]), tokens,
                    e[k] \o TokenText(v, source, pmatch, nmatch, tokens[j]), j)
    <3>1. IsToken(tokens[j]) /\ ~Runs(v, pmatch, nmatch, tokens[j]) BY <1>0, <2>3
    <3>2. CountsRight(v, sum[k], tokens, e[k], k) BY <2>1
    <3> QED BY <2>2, <3>1, <3>2, CountTokenRight
  <2> HIDE DEF j, n
  <2>5. sum[j] = CountToken(v, pmatch, nmatch, sum[j - 1], tokens[j])
    BY <1>1, <2>3, Zenon DEF IsCount, n
  <2>6. e[j] = e[j - 1] \o texts[j]
    <3>1. j \in 1 .. Len(texts) BY <1>2, <2>3
    <3> QED BY <1>3, <3>1, Zenon DEF IsFlat
  <2>7. texts[j] = TokenText(v, source, pmatch, nmatch, tokens[j]) BY <1>2, <2>3
  <2>8. CountsRight(v, sum[j], tokens, e[j], j) BY <2>3, <2>4, <2>5, <2>6, <2>7, Zenon
  <2> QED BY <2>8 DEF j
<1>7. Right(n)
  <2> HIDE DEF P, n, Right
  <2>1. n \in P BY <1>0, <1>5, <1>6, Inductive
  <2> QED BY <1>0, <2>1 DEF P
<1>8. sum[n] \in Count /\ e[n] \in Seq(Chars)
  <2>1. n \in 0 .. n BY <1>0
  <2> HIDE DEF n
  <2> QED BY <1>1, <1>3, <2>1
<1> HIDE DEF n
<1> QED BY <1>1, <1>4, <1>7, <1>8 DEF tokens, texts, n

\* Without the characters that only one of the passes knows, they read the same.
LEMMA SameTokens ==
  ASSUME NEW v, NEW input \in Seq(Chars), \A i \in 1 .. Len(input) : input[i] \notin {"&", "\\"}
  PROVE  Tokens(v, TRUE, input) = Tokens(v, FALSE, input)
<1> DEFINE n == Len(input)
<1>0. n \in Nat OBVIOUS
<1>1. ASSUME NEW i \in 1 .. n PROVE Turn(v, TRUE, input, i) = Turn(v, FALSE, input, i)
  <2>1. input[i] # "&" /\ input[i] # "\\" OBVIOUS
  <2> HIDE DEF n
  <2> QED BY <2>1 DEF Turn, Escapes
<1>2. PICK f \in [0 .. n -> Reading] : IsReading(f, v, TRUE, input) /\ Tokens(v, TRUE, input) = f[n].tokens
  BY TokensRead
<1>3. PICK g \in [0 .. n -> Reading] : IsReading(g, v, FALSE, input) /\ Tokens(v, FALSE, input) = g[n].tokens
  BY TokensRead
<1> DEFINE P == {k \in Nat : k <= n => f[k] = g[k]}
<1>4. 0 \in P BY <1>2, <1>3 DEF IsReading
<1>5. \A k \in Nat : k \in P => k + 1 \in P
  <2> SUFFICES ASSUME NEW k \in Nat, k <= n => f[k] = g[k], k + 1 <= n PROVE f[k + 1] = g[k + 1]
    OBVIOUS
  <2> DEFINE j == k + 1
  <2>1. j \in 1 .. n /\ j - 1 = k /\ f[k] = g[k] BY <1>0
  <2> HIDE DEF j
  <2>2. f[j] = ReadOn(v, TRUE, input, f[j - 1], j) BY <1>2, <2>1 DEF IsReading
  <2>3. g[j] = ReadOn(v, FALSE, input, g[j - 1], j) BY <1>3, <2>1 DEF IsReading
  <2> HIDE DEF n
  <2>4. f[j] = g[j] BY <1>1, <2>1, <2>2, <2>3 DEF ReadOn
  <2> QED BY <2>4 DEF j
<1>6. f[n] = g[n]
  <2> HIDE DEF P, n
  <2>1. n \in P BY <1>0, <1>4, <1>5, Inductive
  <2> QED BY <1>0, <2>1 DEF P
<1> QED BY <1>2, <1>3, <1>6
-----------------------------------------------------------------------------
(* A call of regsub_core.                                                  *)
LEMMA CaseMeans ==
  ASSUME NEW c, Case(c), StatusOf(c) = "ok"
  PROVE  /\ c.input \in Seq(Chars) /\ c.nmatch \in Nat
         /\ c.nmatch > 0 => Arguments(c.input, c.source, c.pmatch, c.nmatch)
<1>1. c.input \in Seq(Chars) /\ c.nmatch \in Nat BY DEF Case, Chars
<1>2. c.source # NoSource BY DEF StatusOf, Status
<1>3. c.source \in Seq(Chars) /\ Len(c.source) < SizeMax BY <1>2 DEF Case, Chars
<1>4. c.nmatch > 0 => Groups(c.source, c.pmatch) BY <1>2 DEF Case, Groups
<1> QED BY <1>1, <1>3, <1>4 DEF Arguments

LEMMA WrittenIs ==
  ASSUME NEW c, Case(c), StatusOf(c) = "ok", ~Runaway(c), buf_copy.sub.digit \/ DollarsRefer(c)
  PROVE  WrittenOf(c) = StandsForOf(c) /\ WrittenOf(c) \in Seq(Chars)
<1> DEFINE v == buf_copy.sub
           ampersand == v.second = "ampersand"
           tokens == Tokens(v, ampersand, c.input)
<1>1. CASE c.nmatch = 0 BY <1>1, CaseMeans DEF WrittenOf, StandsForOf
<1>2. CASE c.nmatch # 0
  <2>1. Arguments(c.input, c.source, c.pmatch, c.nmatch) /\ c.nmatch > 0 BY <1>2, CaseMeans
  <2>2. Dollars(v, c.input)
    <3>1. DOMAIN c.input = 1 .. Len(c.input) BY <2>1 DEF Arguments
    <3> QED BY <3>1 DEF Dollars, DollarsRefer
  <2>3. tokens \in Seq(Token)
    <3>1. c.input \in Seq(Chars) BY <2>1 DEF Arguments
    <3> QED BY <3>1, TokensType
  <2>4. Tame(v, c.pmatch, c.nmatch, tokens)
    <3>1. SecondTokens(v, c.input) = tokens BY DEF SecondTokens
    <3>2. DOMAIN tokens = 1 .. Len(tokens) BY <2>3
    <3> HIDE DEF tokens, v
    <3>3. ~RunsAway(v, c.input, c.pmatch, c.nmatch) BY <2>1 DEF Runaway, v
    <3> QED BY <3>1, <3>2, <3>3 DEF RunsAway, Tame, Runs
  <2> DEFINE texts == Pieces(v, c.source, c.pmatch, c.nmatch, tokens)
  <2>5. FlattenSeq(texts) = StandsFor(ampersand, c.input, c.source, c.pmatch, c.nmatch)
        /\ FlattenSeq(texts) \in Seq(Chars)
    <3>1. ampersand \in BOOLEAN OBVIOUS
    <3> HIDE DEF ampersand, v
    <3> QED BY <2>1, <2>2, <2>4, <3>1, WrittenStands
  <2>6. Written(v, c.input, c.source, c.pmatch, c.nmatch) = FlattenSeq(texts)
    <3>1. DOMAIN tokens = 1 .. Len(tokens) BY <2>3
    <3> QED BY <3>1 DEF Written, Pieces, SecondTokens
  <2> QED BY <1>2, <2>5, <2>6 DEF WrittenOf, StandsForOf
<1> QED BY <1>1, <1>2

LEMMA CountedType ==
  ASSUME NEW c, Case(c), StatusOf(c) = "ok"
  PROVE  /\ CountedOf(c) \in 0 .. SizeMax
         /\ c.nmatch > 0 => /\ AreTokens(FirstTokens(buf_copy.sub, c.input))
                            /\ ~Counted(buf_copy.sub, c.input, c.pmatch, c.nmatch).full
<1> DEFINE v == buf_copy.sub
           tokens == FirstTokens(v, c.input)
<1>1. CASE c.nmatch = 0
  <2>1. Len(c.input) \in 0 .. SizeMax BY WrapIs DEF Case
  <2> QED BY <1>1, <2>1 DEF CountedOf
<1>2. CASE c.nmatch # 0
  <2>1. Arguments(c.input, c.source, c.pmatch, c.nmatch) /\ c.nmatch > 0 BY <1>2, CaseMeans
  <2>2. tokens \in Seq(Token)
    <3>1. c.input \in Seq(Chars) BY <2>1 DEF Arguments
    <3> QED BY <3>1, TokensType DEF FirstTokens
  <2>3. /\ \A i \in DOMAIN tokens : tokens[i].group # -1
        /\ ~Counted(v, c.input, c.pmatch, c.nmatch).full
    BY <1>2 DEF StatusOf, Status
  <2> HIDE DEF tokens
  <2>4. AreTokens(tokens)
    <3> SUFFICES ASSUME NEW k \in 1 .. Len(tokens) PROVE IsToken(tokens[k]) BY DEF AreTokens
    <3>1. k \in DOMAIN tokens /\ tokens[k] \in Token BY <2>2
    <3> QED BY <2>3, <3>1 DEF IsToken
  <2> HIDE DEF v
  <2>5. Counted(v, c.input, c.pmatch, c.nmatch) \in Count
    <3>1. PICK sum \in [0 .. Len(tokens) -> Count] : Counted(v, c.input, c.pmatch, c.nmatch) = sum[Len(tokens)]
      BY <2>1, <2>4, CountedSum DEF tokens
    <3>2. Len(tokens) \in 0 .. Len(tokens) BY <2>2
    <3> QED BY <3>1, <3>2
  <2>6. CountedOf(c) \in 0 .. SizeMax BY <1>2, <2>5 DEF CountedOf, Count, v
  <2> QED BY <2>3, <2>4, <2>6 DEF tokens, v
<1> QED BY <1>1, <1>2

LEMMA CountedIs ==
  ASSUME NEW c, Case(c), StatusOf(c) = "ok", ~Runaway(c),
         buf_copy.sub.second = "ampersand" => \A i \in DOMAIN c.input : c.input[i] \notin {"&", "\\"}
  PROVE  /\ WrittenOf(c) \in Seq(Chars)
         /\ Len(WrittenOf(c)) <= SizeMax => CountedOf(c) = Len(WrittenOf(c))
         /\ Len(WrittenOf(c)) < SizeMax \/ (buf_copy.sub.overflow /\ ~Ordinary(c)) =>
              CountedOf(c) = Len(WrittenOf(c)) /\ Len(WrittenOf(c)) < SizeMax
<1> DEFINE v == buf_copy.sub
           tokens == FirstTokens(v, c.input)
           count == Counted(v, c.input, c.pmatch, c.nmatch)
<1>1. CASE c.nmatch = 0
  <2>1. WrittenOf(c) = c.input /\ CountedOf(c) = Len(c.input) BY <1>1 DEF WrittenOf, CountedOf
  <2>2. c.input \in Seq(Chars) /\ Len(c.input) < SizeMax BY CaseMeans DEF Case
  <2> QED BY <2>1, <2>2
<1>2. CASE c.nmatch # 0
  <2>1. Arguments(c.input, c.source, c.pmatch, c.nmatch) /\ c.nmatch > 0 BY <1>2, CaseMeans
  <2>2. c.input \in Seq(Chars) /\ DOMAIN c.input = 1 .. Len(c.input) BY <2>1 DEF Arguments
  <2>3. AreTokens(tokens) /\ ~count.full BY <2>1, CountedType
  <2>4. tokens \in Seq(Token) BY <2>2, TokensType DEF FirstTokens
  <2>5. SecondTokens(v, c.input) = tokens
    <3>1. CASE v.second = "ampersand"
      <4>1. \A i \in 1 .. Len(c.input) : c.input[i] \notin {"&", "\\"} BY <2>2, <3>1
      <4>2. Tokens(v, TRUE, c.input) = Tokens(v, FALSE, c.input) BY <2>2, <4>1, SameTokens
      <4>3. (v.second = "ampersand") = TRUE BY <3>1
      <4> QED BY <4>2, <4>3 DEF SecondTokens, FirstTokens
    <3>2. CASE v.second # "ampersand"
      <4>1. (v.second = "ampersand") = FALSE BY <3>2
      <4> QED BY <4>1 DEF SecondTokens, FirstTokens
    <3> QED BY <3>1, <3>2
  <2>6. Tame(v, c.pmatch, c.nmatch, tokens)
    <3>1. DOMAIN tokens = 1 .. Len(tokens) BY <2>4
    <3> HIDE DEF tokens, v
    <3>2. ~RunsAway(v, c.input, c.pmatch, c.nmatch) BY <2>1 DEF Runaway, v
    <3> QED BY <2>5, <3>1, <3>2 DEF RunsAway, Tame, Runs
  <2> DEFINE text == FlattenSeq(Pieces(v, c.source, c.pmatch, c.nmatch, tokens))
  <2>7. text \in Seq(Chars) /\ count \in Count /\ CountsRight(v, count, tokens, text, Len(tokens))
    <3> HIDE DEF v
    <3> QED BY <2>1, <2>3, <2>6, CountedRight
  <2>8. WrittenOf(c) = text /\ CountedOf(c) = count.len
    <3>1. DOMAIN tokens = 1 .. Len(tokens) BY <2>4
    <3> HIDE DEF tokens
    <3>2. Written(v, c.input, c.source, c.pmatch, c.nmatch) = text
      BY <2>5, <3>1 DEF Written, Pieces
    <3> QED BY <1>2, <3>2 DEF WrittenOf, CountedOf
  <2>9. ~Ordinary(c) => \A i \in 1 .. Len(tokens) : ~(tokens[i].group >= MaxRegMatch)
    <3>1. DOMAIN tokens = 1 .. Len(tokens) BY <2>4
    <3> HIDE DEF tokens
    <3> QED BY <2>5, <3>1 DEF Ordinary, v
  <2> HIDE DEF text, count, tokens
  <2>10. Len(text) \in Nat /\ SizeMax \in Nat BY <2>7, WrapIs
  <2>11. /\ Len(text) <= SizeMax => count.len = Len(text)
         /\ v.overflow /\ ~Ordinary(c) => count.len = Len(text) /\ Len(text) < SizeMax
    BY <2>3, <2>7, <2>9 DEF CountsRight
  <2> QED BY <2>7, <2>8, <2>10, <2>11
<1> QED BY <1>1, <1>2
-----------------------------------------------------------------------------
(* A buffer that grows.                                                    *)
LEMMA RoundUpIs ==
  ASSUME NEW n \in Nat, NEW step \in Nat \ {0}
  PROVE  RoundUp(n, step) \in n .. n + step - 1
<1> DEFINE m == n + step - 1
           q == m \div step
<1>1. m \in Nat /\ q \in Nat OBVIOUS
<1>2. m = step * q + (m % step) /\ m % step \in 0 .. step - 1 OBVIOUS
<1>3. q * step = step * q /\ q * step \in Nat BY <1>1
<1> HIDE DEF q
<1>4. q * step \in n .. m BY <1>1, <1>2, <1>3
<1> QED BY <1>4 DEF RoundUp, q

LEMMA ReliableCopies ==
  ASSUME buf_copy \in BufCopies, Reliable
  PROVE  /\ ~buf_copy.grow.asks /\ buf_copy.grow.limits /\ buf_copy.grow.fails = "abort"
         /\ ~buf_copy.grow.replaces
<1>1. buf_copy.grow \in {Grow_991, Grow_835, Grow_837, Grow_837_safe, Grow_839, Grow_991_safe,
                        Grow_838, Grow_840, Grow_852, Grow_995, Grow_993}
  BY DEF BufCopies, Pair
<1>2. Grow_991.limits /\ Grow_991_safe.limits /\ Grow_838.limits /\ Grow_993.limits
  BY DEF Grow_991, Grow_991_safe, Grow_838, Grow_993
<1>3. Grow_835.limits /\ Grow_837.limits /\ Grow_837_safe.limits /\ Grow_839.limits
  BY <1>2 DEF Grow_835, Grow_837, Grow_837_safe, Grow_839
<1>4. Grow_840.fails # "abort" /\ Grow_852.fails # "abort" BY DEF Grow_840, Grow_852, Grow_991
<1>5. Grow_995.fails # "abort" BY <1>4 DEF Grow_995
<1>6. buf_copy.grow.fails = "abort" BY DEF Reliable
<1>7. buf_copy.grow.limits BY <1>1, <1>2, <1>3, <1>4, <1>5, <1>6
<1> QED BY <1>7 DEF Reliable

Buffer == [strlen : Nat \cup {Unknown}, avail : 0 .. SizeMax, text : Seq(Chars), null : BOOLEAN]

\* A buffer in use: its length is known, and what it holds has room.
Sound(b) == b \in Buffer /\ ~b.null /\ b.strlen = Len(b.text) /\ Len(b.text) <= b.avail

LEMMA SizesAre ==
  /\ SizeMax \in Nat /\ SmallSize \in Nat /\ MaxSize \in Nat /\ Align \in Nat \ {0} /\ NodeStep \in Nat \ {0}
  /\ SmallSize < MaxSize /\ 2 * (SmallSize + Align) <= SizeMax /\ MaxSize + NodeStep <= SizeMax
BY VarBufAssumption DEF SubstitutionAssumption

\* Where there is memory the buffer keeps its text, and has got the room it wanted.
LEMMA GrownKeeps ==
  ASSUME buf_copy \in BufCopies, Reliable, nodes \in Nat, buf_copy.grow.frees => nodes <= 1,
         NEW b, Sound(b), NEW new_len \in 0 .. SizeMax, NEW outcome \in Grown(b, new_len)
  PROVE  /\ outcome.at \in {"idle", "aborted", "crashed"}
         /\ outcome.nodes \in Nat /\ (buf_copy.grow.frees => outcome.nodes <= 1)
         /\ outcome.at # "idle" => outcome.vb = b
         /\ outcome.at = "idle" =>
              /\ Sound(outcome.vb)
              /\ outcome.vb.text = b.text
              /\ new_len < SizeMax => new_len <= outcome.vb.avail
<1> DEFINE doubles == new_len < 2 * b.avail /\ b.avail < MaxSize \div 2
           wanted == IF doubles THEN 2 * b.avail ELSE new_len
           len == Wrap(wanted + 1)
<1>1. /\ ~buf_copy.grow.asks /\ buf_copy.grow.limits /\ buf_copy.grow.fails = "abort"
      /\ ~buf_copy.grow.replaces
  BY ReliableCopies
<1>2. /\ b.avail \in 0 .. SizeMax /\ b.strlen \in Nat /\ b.text \in Seq(Chars) /\ ~b.null
      /\ b.strlen = Len(b.text) /\ Len(b.text) <= b.avail
      /\ b = [strlen |-> b.strlen, avail |-> b.avail, text |-> b.text, null |-> b.null]
      /\ b.null \in BOOLEAN
  BY DEF Sound, Buffer
<1>3. SizeMax \in Nat /\ SizeMax > 0 /\ \A n \in 0 .. SizeMax : Wrap(n) = n BY WrapIs
<1>4. Kept(b) = b.text
  <2>1. b.strlen = 0 \/ b.avail = 0 => b.text = <<>> BY <1>2
  <2>2. SubSeq(b.text, 1, Len(b.text)) = b.text BY <1>2
  <2> QED BY <1>2, <2>1, <2>2 DEF Kept, Unknown
<1> DEFINE Roomy(avail) == [b EXCEPT !.avail = avail]
<1>5. ASSUME NEW avail \in 0 .. SizeMax, avail >= b.avail
      PROVE  /\ Sound(Roomy(avail)) /\ Roomy(avail).text = b.text /\ Roomy(avail).avail = avail
             /\ [b EXCEPT !.text = b.text, !.avail = avail] = Roomy(avail)
  <2> DEFINE r == Roomy(avail)
  <2>1. r = [strlen |-> b.strlen, avail |-> avail, text |-> b.text, null |-> b.null]
    BY DEF Sound, Buffer
  <2>2. [b EXCEPT !.text = b.text, !.avail = avail]
          = [strlen |-> b.strlen, avail |-> avail, text |-> b.text, null |-> b.null]
    <3> DEFINE x == [b EXCEPT !.text = b.text]
    <3>1. b \in Buffer BY DEF Sound
    <3>2. x = b BY <3>1 DEF Buffer
    <3>3. [b EXCEPT !.text = b.text, !.avail = avail] = [x EXCEPT !.avail = avail] OBVIOUS
    <3> HIDE DEF x
    <3> QED BY <2>1, <3>2, <3>3
  <2>3. r.strlen = b.strlen /\ r.avail = avail /\ r.text = b.text /\ r.null = b.null BY <2>1
  <2>4. r \in Buffer BY <1>2, <2>1 DEF Buffer
  <2>5. Len(b.text) <= avail BY <1>2, <1>3, <1>5
  <2> HIDE DEF r
  <2>6. Sound(r) BY <1>2, <2>3, <2>4, <2>5, Zenon DEF Sound
  <2> QED BY <2>1, <2>2, <2>3, <2>6 DEF r
<1>6. NoMemory(b) = Outcome(b, nodes, "aborted") BY <1>1 DEF NoMemory
<1>7. CASE Suffices(b, new_len)
  <2>1. outcome = Outcome(b, nodes, "idle") BY <1>7 DEF Grown
  <2> QED BY <1>7, <2>1 DEF Outcome, Suffices
<1>8. CASE outcome = NoMemory(b) BY <1>6, <1>8 DEF Outcome
<1>9. CASE ~Suffices(b, new_len) /\ outcome # NoMemory(b)
  <2>1. new_len > b.avail BY <1>2, <1>9 DEF Suffices
  <2>2. outcome \in IF ~doubles /\ new_len > MaxSize THEN {NoMemory(b)}
                    ELSE IF len <= SmallSize THEN Small(b, RoundUp(len, Align)) ELSE Large(b, len)
    BY <1>1, <1>9 DEF Grown
  <2>3. ~(~doubles /\ new_len > MaxSize) BY <1>9, <2>2
  <2>4. wanted \in new_len .. MaxSize
    <3>1. doubles => 2 * b.avail <= MaxSize /\ new_len <= 2 * b.avail BY <1>2, SizesAre
    <3> QED BY <1>2, <2>3, <3>1, SizesAre
  <2> HIDE DEF doubles
  <2>5. len = wanted + 1 BY <1>3, <2>4, SizesAre
  <2> HIDE DEF wanted, len
  <2>6. b.avail < wanted /\ wanted \in Nat /\ len \in Nat BY <1>2, <2>1, <2>4, <2>5
  <2>7. outcome \in IF len <= SmallSize THEN Small(b, RoundUp(len, Align)) ELSE Large(b, len)
    BY <2>2, <2>3
  <2>8. CASE len <= SmallSize
    <3> DEFINE size == RoundUp(len, Align)
    <3>1. size \in len .. len + Align - 1 BY <2>6, SizesAre, RoundUpIs
    <3> HIDE DEF size
    <3>2. Wrap(size - 1) = size - 1 /\ size - 1 \in 0 .. SizeMax /\ size - 1 >= wanted
          /\ b.avail + size \in 0 .. SizeMax /\ b.avail + size >= wanted
      <4>1. size - 1 \in 0 .. SizeMax /\ size - 1 >= wanted BY <2>5, <2>6, <2>8, <3>1, SizesAre
      <4>2. b.avail + size \in 0 .. SizeMax /\ b.avail + size >= wanted
        <5>1. PICK avail \in Nat : avail = b.avail BY <1>2
        <5>2. avail < wanted /\ len <= SmallSize /\ size <= len + Align - 1 /\ size - 1 >= wanted
          BY <2>6, <2>8, <3>1, <4>1, <5>1, SizesAre
        <5>3. avail + size <= 2 * (SmallSize + Align) /\ avail + size >= wanted
          BY <2>5, <2>6, <3>1, <5>2, SizesAre
        <5> QED BY <3>1, <5>1, <5>3, <2>6, SizesAre
      <4> QED BY <1>3, <4>1, <4>2
    <3>3. outcome \in Small(b, size) BY <2>7, <2>8 DEF size
    <3>4. \/ outcome = Outcome(Roomy(size - 1), nodes, "idle")
          \/ outcome = Outcome(Roomy(b.avail + size), nodes, "idle")
          \/ outcome = Outcome(b, nodes, "crashed")
      <4>1. [b EXCEPT !.text = Kept(b), !.avail = Wrap(size - 1)] = Roomy(size - 1)
        BY <1>2, <1>4, <1>5, <2>6, <3>2
      <4> QED BY <3>3, <4>1 DEF Small
    <3>5. Sound(Roomy(size - 1)) /\ Roomy(size - 1).text = b.text /\ Roomy(size - 1).avail = size - 1
      <4> HIDE DEF Roomy
      <4>1. size - 1 >= b.avail BY <1>2, <2>6, <3>2
      <4> DEFINE avail == size - 1
      <4>2. avail \in 0 .. SizeMax /\ avail >= b.avail BY <3>2, <4>1
      <4> HIDE DEF avail
      <4>3. Sound(Roomy(avail)) /\ Roomy(avail).text = b.text /\ Roomy(avail).avail = avail
        BY <1>5, <4>2
      <4> QED BY <4>3 DEF avail
    <3>6. Sound(Roomy(b.avail + size)) /\ Roomy(b.avail + size).text = b.text
          /\ Roomy(b.avail + size).avail = b.avail + size
      <4> HIDE DEF Roomy
      <4>1. b.avail + size >= b.avail BY <1>2, <2>6, <3>2
      <4> DEFINE avail == b.avail + size
      <4>2. avail \in 0 .. SizeMax /\ avail >= b.avail BY <3>2, <4>1
      <4> HIDE DEF avail
      <4>3. Sound(Roomy(avail)) /\ Roomy(avail).text = b.text /\ Roomy(avail).avail = avail
        BY <1>5, <4>2
      <4> QED BY <4>3 DEF avail
    <3> HIDE DEF Roomy
    <3>7. new_len <= size - 1 /\ new_len <= b.avail + size
      <4>1. size \in Nat /\ new_len \in Nat /\ new_len <= wanted BY <2>4, <2>6, <3>1, SizesAre
      <4> QED BY <1>2, <2>6, <3>2, <4>1
    <3> QED BY <3>4, <3>5, <3>6, <3>7 DEF Outcome
  <2>9. CASE ~(len <= SmallSize)
    <3> DEFINE size == IF buf_copy.grow.malloc THEN len ELSE RoundUp(len, NodeStep)
    <3>1. outcome \in Large(b, len) BY <2>7, <2>9
    <3>2. len <= MaxSize
      <4>1. len > MaxSize \/ len <= MaxSize BY <2>6, SizesAre
      <4>2. len > MaxSize => outcome = NoMemory(b) BY <3>1 DEF Large
      <4> QED BY <1>9, <4>1, <4>2
    <3>3. size \in len .. len + NodeStep - 1
      <4>1. RoundUp(len, NodeStep) \in len .. len + NodeStep - 1 BY <2>6, SizesAre, RoundUpIs
      <4>2. len \in len .. len + NodeStep - 1 BY <2>6, SizesAre
      <4> QED BY <4>1, <4>2
    <3>4. outcome = Outcome([b EXCEPT !.text = Kept(b), !.avail = size - 1],
                            IF buf_copy.grow.frees THEN 1 ELSE nodes + 1, "idle")
      BY <1>1, <1>9, <3>1, <3>2 DEF Large
    <3> HIDE DEF size
    <3>5. size - 1 \in 0 .. SizeMax /\ size - 1 >= b.avail /\ size - 1 >= new_len
      <4>1. PICK avail \in Nat, s \in Nat : avail = b.avail /\ s = size BY <1>2, <2>6, <3>3, SizesAre
      <4>2. s >= len /\ s <= MaxSize + NodeStep - 1 BY <2>6, <3>2, <3>3, <4>1, SizesAre
      <4>3. s - 1 \in 0 .. SizeMax /\ s - 1 >= wanted BY <2>5, <2>6, <4>1, <4>2, SizesAre
      <4>4. s - 1 >= avail /\ s - 1 >= new_len BY <2>4, <2>6, <4>1, <4>3, SizesAre
      <4> QED BY <4>1, <4>3, <4>4
    <3>6. /\ Sound(Roomy(size - 1)) /\ Roomy(size - 1).text = b.text /\ Roomy(size - 1).avail = size - 1
          /\ [b EXCEPT !.text = Kept(b), !.avail = size - 1] = Roomy(size - 1)
      <4> HIDE DEF Roomy
      <4> DEFINE avail == size - 1
      <4>1. avail \in 0 .. SizeMax /\ avail >= b.avail BY <3>5
      <4> HIDE DEF avail
      <4>2. Sound(Roomy(avail)) /\ Roomy(avail).text = b.text /\ Roomy(avail).avail = avail
            /\ [b EXCEPT !.text = b.text, !.avail = avail] = Roomy(avail)
        BY <1>5, <4>1
      <4> QED BY <1>4, <4>2 DEF avail
    <3> DEFINE taken == IF buf_copy.grow.frees THEN 1 ELSE nodes + 1
    <3>7. taken \in Nat /\ (buf_copy.grow.frees => taken <= 1) OBVIOUS
    <3> HIDE DEF Roomy, taken
    <3>8. outcome = Outcome(Roomy(size - 1), taken, "idle") BY <3>4, <3>6 DEF taken
    <3> QED BY <3>5, <3>6, <3>7, <3>8 DEF Outcome
  <2> QED BY <2>8, <2>9
<1> QED BY <1>7, <1>8, <1>9
-----------------------------------------------------------------------------
LEMMA SmallestIs ==
  ASSUME NEW A \in SUBSET Nat, A # {}
  PROVE  \E m \in A : \A x \in A : m <= x
<1> SUFFICES ASSUME \A m \in A : \E x \in A : ~(m <= x) PROVE FALSE OBVIOUS
<1> DEFINE P == {k \in Nat : \A x \in A : ~(x <= k)}
<1>1. 0 \in P
  <2> SUFFICES ASSUME NEW x \in A, x <= 0 PROVE FALSE OBVIOUS
  <2>1. x = 0 OBVIOUS
  <2> QED BY <2>1
<1>2. ASSUME NEW k \in Nat, k \in P PROVE k + 1 \in P
  <2> SUFFICES ASSUME NEW x \in A, x <= k + 1 PROVE FALSE OBVIOUS
  <2>1. PICK y \in A : ~(x <= y) OBVIOUS
  <2>2. y <= k BY <2>1
  <2> QED BY <1>2, <2>2
<1> HIDE DEF P
<1>3. \A k \in Nat : k \in P BY <1>1, <1>2, Inductive
<1>4. PICK x \in A : TRUE OBVIOUS
<1> QED BY <1>3, <1>4 DEF P

LEMMA EndsAre ==
  ASSUME NEW n \in Nat, NEW A \in SUBSET (1 .. n), A # {}
  PROVE  Min(A) \in A /\ Max(A) \in A
<1>1. PICK m \in A : \A x \in A : m <= x BY SmallestIs
<1>2. Min(A) \in A BY <1>1 DEF Min
<1> DEFINE B == {n - x : x \in A}
<1>3. B \in SUBSET Nat /\ B # {} OBVIOUS
<1>4. PICK k \in B : \A y \in B : k <= y BY <1>3, SmallestIs
<1>5. PICK l \in A : k = n - l BY <1>4
<1>6. \A x \in A : l >= x
  <2> SUFFICES ASSUME NEW x \in A PROVE l >= x OBVIOUS
  <2>1. n - x \in B OBVIOUS
  <2> HIDE DEF B
  <2>2. n - l <= n - x BY <1>4, <1>5, <2>1
  <2> QED BY <2>2
<1>7. Max(A) \in A BY <1>6 DEF Max
<1> QED BY <1>2, <1>7

LEMMA TrimType ==
  ASSUME NEW s \in Seq(Chars)
  PROVE  Trim(s) \in Seq(Chars) /\ Len(Trim(s)) <= Len(s)
<1> DEFINE solid == {i \in DOMAIN s : ~IsBlank(s[i])}
           n == Len(s)
<1>1. n \in Nat /\ solid \in SUBSET (1 .. n) OBVIOUS
<1>2. CASE solid = {}
  <2>1. Trim(s) = <<>> BY <1>2 DEF Trim
  <2> QED BY <1>1, <2>1
<1>3. CASE solid # {}
  <2>1. Trim(s) = SubSeq(s, Min(solid), Max(solid)) BY <1>3 DEF Trim
  <2> HIDE DEF solid
  <2>2. Min(solid) \in 1 .. n /\ Max(solid) \in 1 .. n BY <1>1, <1>3, EndsAre
  <2>3. \A a, b \in 1 .. n : SubSeq(s, a, b) \in Seq(Chars) /\ Len(SubSeq(s, a, b)) <= n
    <3> SUFFICES ASSUME NEW a \in 1 .. n, NEW b \in 1 .. n
                 PROVE  SubSeq(s, a, b) \in Seq(Chars) /\ Len(SubSeq(s, a, b)) <= n
      OBVIOUS
    <3> QED BY <1>1
  <2> HIDE DEF n
  <2>4. Trim(s) \in Seq(Chars) /\ Len(Trim(s)) <= n BY <2>1, <2>2, <2>3
  <2> QED BY <2>4 DEF n
<1> QED BY <1>2, <1>3

LEMMA RoomIs ==
  ASSUME vb.avail \in Int, vb.strlen \in Int
  PROVE  Room \in Nat /\ (Room = 0 \/ Room = vb.avail - vb.strlen - 1)
<1> DEFINE x == vb.avail - vb.strlen - 1
<1>1. x \in Int OBVIOUS
<1> HIDE DEF x
<1>2. \E m \in {x, 0} : \A y \in {x, 0} : m >= y BY <1>1
<1>3. Max({x, 0}) \in {x, 0} /\ Max({x, 0}) >= 0 BY <1>2 DEF Max
<1> QED BY <1>1, <1>3 DEF Room, x
-----------------------------------------------------------------------------
(* What holds of a buffer between the operations.                          *)
Held ==
  /\ vb \in Buffer /\ ~vb.null
  /\ nodes \in Nat /\ (buf_copy.grow.frees => nodes <= 1)
  /\ said \in Seq(Chars) /\ line \in Seq(Chars)
  /\ at \in {"idle", "reading", "aborted", "crashed", "past"}
  /\ at = "idle" => vb.text = said /\ vb.strlen \in {Len(said), Unknown} /\ Len(said) <= vb.avail
  /\ at = "reading" => Sound(vb) /\ vb.text \o line = said
  /\ Len(said) < SizeMax => at # "past"

\* What regsub_core made without a buffer is what one of its calls makes.
OwnMade ==
  own.status = "ok" =>
    /\ own.case \in OwnCases
    /\ StatusOf(own.case) = "ok" /\ ~Runaway(own.case)
    /\ own.size = Wrap(CountedOf(own.case) + 1) /\ own.text = WrittenOf(own.case)

\* The history of what was said needs what is held to be one text with it, whatever
\* form the length is known in, and to have room where it is.
BufInv ==
  /\ buf_copy \in BufCopies
  /\ lines \in [read : Nat, number : Nat] /\ lines.read = lines.number
  /\ OwnMade
  /\ Reliable => Held

LEMMA KnownIs ==
  ASSUME Held, at = "idle"
  PROVE  /\ Sound(Known(vb)) /\ Known(vb).text = said /\ Known(vb).strlen = Len(said)
         /\ Known(vb).avail = vb.avail
<1>1. vb \in Buffer /\ Len(said) \in Nat /\ ~vb.null /\ vb.text = said /\ Len(said) <= vb.avail
      /\ vb.strlen \in {Len(said), Unknown}
  BY DEF Held
<1>2. CASE vb.strlen = Unknown
  <2> DEFINE b == [vb EXCEPT !.strlen = Len(vb.text)]
  <2>1. Known(vb) = b BY <1>2 DEF Known
  <2>2. b \in Buffer /\ b.strlen = Len(said) /\ b.text = said /\ b.avail = vb.avail /\ b.null = vb.null
    BY <1>1 DEF Buffer
  <2> HIDE DEF b
  <2> QED BY <1>1, <2>1, <2>2 DEF Sound
<1>3. CASE vb.strlen # Unknown
  <2>1. Known(vb) = vb BY <1>3 DEF Known
  <2> QED BY <1>1, <1>3, <2>1 DEF Sound
<1> QED BY <1>2, <1>3

LEMMA WritesKeeps ==
  ASSUME buf_copy \in BufCopies, Reliable, Held, at = "idle", NEW text \in Seq(Chars), NEW len \in Nat,
         Len(text) <= SizeMax => len = Len(text),
         NEW outcome \in Grown(Known(vb), Wrap(Known(vb).strlen + len)), Writes(outcome, text, len),
         said' = said \o text, UNCHANGED <<buf_copy, line>>
  PROVE  Held'
<1> DEFINE b == outcome.vb
           new_len == Wrap(Known(vb).strlen + len)
<1>1. /\ Sound(Known(vb)) /\ Known(vb).text = said /\ Known(vb).strlen = Len(said)
      /\ Known(vb).avail = vb.avail
  BY KnownIs
<1>2. said \in Seq(Chars) /\ Len(said) \in Nat /\ nodes \in Nat /\ line \in Seq(Chars)
      /\ (buf_copy.grow.frees => nodes <= 1)
  BY DEF Held
<1>3. new_len \in 0 .. SizeMax /\ SizeMax \in Nat
  <2>1. Known(vb).strlen + len \in Int BY <1>1, <1>2
  <2> QED BY <2>1, WrapIs
<1>4. Len(said) + len < SizeMax => new_len = Len(said) + len
  <2>1. Len(said) + len < SizeMax => Len(said) + len \in 0 .. SizeMax BY <1>2, <1>3
  <2> QED BY <1>1, <2>1, WrapIs
<1> HIDE DEF new_len
<1>5. /\ outcome.at \in {"idle", "aborted", "crashed"}
      /\ outcome.nodes \in Nat /\ (buf_copy.grow.frees => outcome.nodes <= 1)
      /\ outcome.at # "idle" => b = Known(vb)
      /\ outcome.at = "idle" =>
           Sound(b) /\ b.text = said /\ (new_len < SizeMax => new_len <= b.avail)
  <2>1. outcome \in Grown(Known(vb), new_len) BY DEF new_len
  <2> QED BY <1>1, <1>2, <1>3, <2>1, GrownKeeps
<1>6. nodes' = outcome.nodes /\ buf_copy' = buf_copy /\ line' = line BY DEF Writes
<1>7. said' \in Seq(Chars) /\ Len(said') = Len(said) + Len(text) /\ Len(text) \in Nat BY <1>2
<1>8. CASE outcome.at # "idle"
  <2>1. at' = outcome.at /\ vb' = Known(vb) BY <1>5, <1>8 DEF Writes
  <2> QED BY <1>1, <1>2, <1>5, <1>6, <1>7, <1>8, <2>1 DEF Held, Sound
<1>9. CASE outcome.at = "idle"
  <2>1. b \in Buffer /\ ~b.null /\ b.strlen = Len(said) /\ b.text = said /\ Len(said) <= b.avail
        /\ b.avail \in 0 .. SizeMax
    BY <1>5, <1>9 DEF Sound, Buffer
  <2>2. CASE ~Fits(b, Len(text))
    <3>1. at' = "past" /\ vb' = b BY <1>9, <2>1, <2>2 DEF Writes
    <3>2. ~(Len(said') < SizeMax)
      <4> SUFFICES ASSUME Len(said) + Len(text) < SizeMax PROVE FALSE BY <1>7
      <4>1. len = Len(text) BY <1>2, <1>3, <1>7
      <4>2. new_len = Len(said) + Len(text) BY <1>4, <4>1
      <4>3. Len(said) + Len(text) <= b.avail BY <1>5, <1>9, <4>2
      <4> QED BY <2>1, <2>2, <4>3 DEF Fits
    <3> QED BY <1>2, <1>5, <1>6, <1>7, <2>1, <3>1, <3>2 DEF Held
  <2>3. CASE Fits(b, Len(text))
    <3>1. Len(said) + Len(text) <= b.avail BY <2>1, <2>3 DEF Fits
    <3>2. len = Len(text) BY <1>2, <1>3, <1>7, <2>1, <3>1
    <3> DEFINE after == [b EXCEPT !.text = b.text \o text, !.strlen = @ + len]
    <3>3. at' = "idle" /\ vb' = after BY <1>9, <2>1, <2>3 DEF Writes
    <3>4. b.text \o text \in Seq(Chars) /\ b.text \o text = said' /\ b.strlen + len = Len(said')
      BY <1>7, <2>1, <3>2
    <3>5. after \in Buffer /\ after.text = said' /\ after.strlen = Len(said') /\ after.avail = b.avail
          /\ after.null = b.null
      <4> DEFINE t == b.text \o text
                 l == b.strlen + len
      <4>1. t \in Seq(Chars) /\ t = said' /\ l = Len(said') /\ l \in Nat BY <1>7, <3>4
      <4>2. after = [b EXCEPT !.text = t, !.strlen = l] OBVIOUS
      <4> HIDE DEF b, t, l, after
      <4>3. b \in Buffer BY <2>1
      <4> QED BY <4>1, <4>2, <4>3 DEF Buffer
    <3> HIDE DEF after
    <3> QED BY <1>2, <1>5, <1>6, <1>7, <2>1, <3>1, <3>3, <3>5 DEF Held
  <2> QED BY <2>2, <2>3
<1> QED BY <1>5, <1>8, <1>9

LEMMA TextsAre ==
  /\ \A text \in Texts : text \in Seq(Chars) /\ Len(text) \in Nat
  /\ \A text \in Lines : text \in Seq(Chars)
  /\ \A c \in Cases \cup OwnCases : Case(c)
BY VarBufAssumption DEF Chars

LEMMA InitHeld == BufInit => BufInv
<1> SUFFICES ASSUME BufInit PROVE BufInv OBVIOUS
<1>1. PICK size \in Sizes :
        vb = [strlen |-> 0, avail |-> IF size = 0 THEN 0 ELSE RoundUp(size + 1, Align) - 1,
              text |-> <<>>, null |-> FALSE]
  BY DEF BufInit
<1> DEFINE avail == IF size = 0 THEN 0 ELSE RoundUp(size + 1, Align) - 1
<1>2. size \in Nat /\ size + Align <= SizeMax BY VarBufAssumption
<1>3. avail \in 0 .. SizeMax
  <2>1. RoundUp(size + 1, Align) \in size + 1 .. size + 1 + Align - 1 BY <1>2, SizesAre, RoundUpIs
  <2> QED BY <1>2, <2>1, SizesAre
<1> HIDE DEF avail
<1>4. vb = [strlen |-> 0, avail |-> avail, text |-> <<>>, null |-> FALSE] BY <1>1 DEF avail
<1>5. vb \in Buffer /\ ~vb.null /\ vb.text = <<>> /\ vb.strlen = 0 /\ vb.avail = avail
  BY <1>3, <1>4 DEF Buffer
<1>6. Held BY <1>3, <1>5 DEF Held, BufInit
<1>7. OwnMade BY DEF OwnMade, BufInit, NoOwn
<1> QED BY <1>6, <1>7 DEF BufInv, BufInit

LEMMA AppendKeeps ==
  ASSUME BufInv, Reliable, NEW text \in Texts, Append_(text)
  PROVE  Held'
<1>1. PICK outcome \in Grown(Known(vb), Wrap(Known(vb).strlen + Len(text))) :
        Writes(outcome, text, Len(text))
  BY DEF Append_
<1>2. at = "idle" /\ said' = said \o text /\ UNCHANGED <<buf_copy, line>>
  BY DEF Append_, Begin, OwnersOnly
<1>3. text \in Seq(Chars) /\ Len(text) \in Nat BY TextsAre
<1> QED BY <1>1, <1>2, <1>3, WritesKeeps DEF BufInv

LEMMA WriteKeeps ==
  ASSUME BufInv, Reliable, NEW text \in Texts, Write(text)
  PROVE  Held'
<1>1. text \in Seq(Chars) /\ Len(text) <= vb.avail /\ Len(text) \in Nat BY TextsAre DEF Write
<1>2. vb \in Buffer /\ Held /\ at = "idle" BY DEF BufInv, Held, Write, Begin
<1> DEFINE after == [vb EXCEPT !.text = text, !.strlen = Unknown]
<1>3. after \in Buffer /\ after.text = text /\ after.strlen = Unknown /\ after.avail = vb.avail
      /\ after.null = vb.null
  BY <1>1, <1>2 DEF Buffer
<1>4. vb' = after /\ said' = text /\ UNCHANGED <<nodes, at, buf_copy, line>> BY DEF Write, OwnersOnly
<1> HIDE DEF after
<1> QED BY <1>1, <1>2, <1>3, <1>4 DEF Held

LEMMA EmptiedIs ==
  ASSUME NEW b \in Buffer
  PROVE  LET after == [b EXCEPT !.text = <<>>, !.strlen = 0] IN
         /\ after \in Buffer /\ after.text = <<>> /\ after.strlen = 0 /\ after.avail = b.avail
         /\ after.null = b.null
<1> DEFINE e == <<>>
<1>1. e \in Seq(Chars) OBVIOUS
<1> HIDE DEF e
<1>2. LET after == [b EXCEPT !.text = e, !.strlen = 0] IN
      /\ after \in Buffer /\ after.text = e /\ after.strlen = 0 /\ after.avail = b.avail
      /\ after.null = b.null
  BY <1>1 DEF Buffer
<1> QED BY <1>2 DEF e

LEMMA EmptyKeeps ==
  ASSUME BufInv, Reliable, Empty
  PROVE  Held'
<1>1. vb \in Buffer /\ Held /\ at = "idle" BY DEF BufInv, Held, Empty, Begin
<1> DEFINE after == [vb EXCEPT !.text = <<>>, !.strlen = 0]
<1>2. after \in Buffer /\ after.text = <<>> /\ after.strlen = 0 /\ after.avail = vb.avail
      /\ after.null = vb.null
  BY <1>1, EmptiedIs
<1>3. vb' = after /\ said' = <<>> /\ UNCHANGED <<nodes, at, buf_copy, line>> BY DEF Empty, OwnersOnly
<1>4. vb.avail \in Nat BY <1>1, WrapIs DEF Buffer
<1> HIDE DEF after
<1> QED BY <1>1, <1>2, <1>3, <1>4 DEF Held

LEMMA RegsubKeeps ==
  ASSUME BufInv, Reliable, NEW c \in Cases, RegsubAppends(c)
  PROVE  Held'
<1>1. Case(c) /\ StatusOf(c) = "ok" /\ ~Runaway(c) BY TextsAre DEF RegsubAppends
<1>2. buf_copy.sub.second # "ampersand" /\ buf_copy.sub.digit BY DEF Reliable
<1>3. WrittenOf(c) = StandsForOf(c) /\ WrittenOf(c) \in Seq(Chars) BY <1>1, <1>2, WrittenIs
<1>4. CountedOf(c) \in Nat
  <2>1. CountedOf(c) \in 0 .. SizeMax BY <1>1, CountedType
  <2> QED BY <2>1, WrapIs
<1>5. Len(WrittenOf(c)) <= SizeMax => CountedOf(c) = Len(WrittenOf(c)) BY <1>1, <1>2, CountedIs
<1>6. PICK outcome \in Grown(Known(vb), Wrap(Known(vb).strlen + CountedOf(c))) :
        Writes(outcome, WrittenOf(c), CountedOf(c))
  BY DEF RegsubAppends
<1>7. at = "idle" /\ said' = said \o WrittenOf(c) /\ UNCHANGED <<buf_copy, line>>
  BY <1>3 DEF RegsubAppends, Begin, OwnersOnly
<1> QED BY <1>3, <1>4, <1>5, <1>6, <1>7, WritesKeeps DEF BufInv

LEMMA RefusesKeeps ==
  ASSUME BufInv, Reliable, NEW c \in Cases, RegsubRefuses(c)
  PROVE  Held'
<1>1. at = "idle" /\ (at' = at \/ at' = "crashed") /\ UNCHANGED <<vb, nodes, said, line, buf_copy>>
  BY DEF RegsubRefuses, Begin, OwnersOnly
<1> QED BY <1>1 DEF BufInv, Held

LEMMA StartKeeps ==
  ASSUME BufInv, Reliable, NEW text \in Lines, StartLine(text)
  PROVE  Held'
<1> DEFINE b == [vb EXCEPT !.strlen = 0, !.text = <<>>]
<1>1. vb \in Buffer /\ ~vb.null /\ Held /\ at = "idle" BY DEF BufInv, Held, StartLine, Begin
<1>2. b = [vb EXCEPT !.text = <<>>, !.strlen = 0] BY <1>1 DEF Buffer
<1>3. b \in Buffer /\ b.text = <<>> /\ b.strlen = 0 /\ b.avail = vb.avail /\ b.null = vb.null
  BY <1>1, <1>2, EmptiedIs
<1>4. PICK outcome \in IF b.avail < 3 THEN Grown(b, Quadruple(b)) ELSE {Outcome(b, nodes, "idle")} :
        Settles(outcome, outcome.vb)
  BY DEF StartLine
<1> HIDE DEF b
<1>5. Sound(b) BY <1>1, <1>3, WrapIs DEF Sound, Buffer
<1>6. /\ outcome.at \in {"idle", "aborted", "crashed"}
      /\ outcome.nodes \in Nat /\ (buf_copy.grow.frees => outcome.nodes <= 1)
      /\ outcome.at # "idle" => outcome.vb = b
      /\ outcome.at = "idle" => Sound(outcome.vb) /\ outcome.vb.text = <<>>
  <2>1. CASE b.avail < 3
    <3>1. Quadruple(b) \in 0 .. SizeMax
      <4>1. b.avail * 4 \in Int BY <1>3 DEF Buffer
      <4> QED BY <4>1, WrapIs DEF Quadruple
    <3>2. buf_copy \in BufCopies /\ nodes \in Nat /\ (buf_copy.grow.frees => nodes <= 1)
      BY <1>1 DEF BufInv, Held
    <3>3. outcome \in Grown(b, Quadruple(b)) BY <1>4, <2>1
    <3> QED BY <1>3, <1>5, <3>1, <3>2, <3>3, GrownKeeps
  <2>2. CASE ~(b.avail < 3)
    <3>1. outcome = Outcome(b, nodes, "idle") BY <1>4, <2>2
    <3> QED BY <1>1, <1>3, <1>5, <3>1 DEF Outcome, Held
  <2> QED BY <2>1, <2>2
<1>7. text \in Seq(Chars) /\ line' = text /\ said' = text /\ buf_copy' = buf_copy
  BY TextsAre DEF StartLine
<1>8. outcome.vb \in Buffer /\ ~outcome.vb.null BY <1>5, <1>6 DEF Sound
<1>9. nodes' = outcome.nodes /\ vb' = outcome.vb
      /\ at' = IF outcome.at # "idle" THEN outcome.at ELSE "reading"
  BY <1>4, <1>8 DEF Settles
<1>10. <<>> \o text = text BY <1>7
<1> QED BY <1>6, <1>7, <1>8, <1>9, <1>10 DEF Held

LEMMA PartKeeps ==
  ASSUME BufInv, Reliable, ReadPart
  PROVE  Held'
<1> DEFINE part == SubSeq(line, 1, Room)
           rest == SubSeq(line, Room + 1, Len(line))
           b == [vb EXCEPT !.text = @ \o part, !.strlen = @ + Room]
<1>1. vb \in Buffer /\ ~vb.null /\ Held /\ Sound(vb) /\ line \in Seq(Chars) /\ vb.text \o line = said
  BY DEF BufInv, Held, ReadPart
<1>2. vb.strlen = Len(vb.text) /\ Len(vb.text) \in Nat /\ vb.avail \in Nat /\ vb.text \in Seq(Chars)
      /\ Len(vb.text) <= vb.avail
  BY <1>1, WrapIs DEF Sound, Buffer
<1>3. Room \in Nat /\ Room < Len(line) /\ Len(vb.text) + Room <= vb.avail
  <2>1. Room \in Nat /\ (Room = 0 \/ Room = vb.avail - vb.strlen - 1) BY <1>2, RoomIs
  <2>2. Len(line) \in Nat /\ Len(line) > Room BY <1>1 DEF ReadPart
  <2> QED BY <1>2, <2>1, <2>2
<1>4. PICK outcome \in Grown(b, Quadruple(b)) : Settles(outcome, outcome.vb) BY DEF ReadPart
<1>5. line' = rest /\ UNCHANGED <<buf_copy, said>> BY DEF ReadPart
<1> DEFINE room == Room
<1>6. /\ part \in Seq(Chars) /\ Len(part) = room /\ rest \in Seq(Chars)
      /\ part \o rest = line
  <2> DEFINE n == Len(line)
  <2>1. room \in Nat /\ n \in Nat /\ room < n BY <1>1, <1>3
  <2>2. part = SubSeq(line, 1, room) /\ rest = SubSeq(line, room + 1, n) OBVIOUS
  <2>3. SubSeq(line, 1, n) = line BY <1>1, SubSeqFull
  <2> HIDE DEF room, part, rest, n
  <2>4. 1 \in 1 .. n + 1 /\ room \in 0 .. n /\ n \in 0 .. n /\ room + 1 \in 1 .. n + 1 BY <2>1
  <2>5. \A a \in 1 .. n + 1, z \in 0 .. n : SubSeq(line, a, z) \in Seq(Chars)
    <3> SUFFICES ASSUME NEW a \in 1 .. n + 1, NEW z \in 0 .. n PROVE SubSeq(line, a, z) \in Seq(Chars)
      OBVIOUS
    <3>1. CASE a <= z
      <4>1. a \in 1 .. n /\ z \in 1 .. n BY <2>1, <3>1
      <4> QED BY <1>1, <4>1 DEF n
    <3>2. CASE a > z
      <4>1. SubSeq(line, a, z) = <<>> BY <2>1, <3>2, SubSeqEmpty
      <4> QED BY <4>1
    <3> QED BY <2>1, <3>1, <3>2
  <2>6. part \in Seq(Chars) /\ rest \in Seq(Chars) BY <2>2, <2>4, <2>5
  <2>7. Len(part) = room BY <1>1, <2>1, <2>2 DEF n
  <2>8. SubSeq(line, 1, room) \o SubSeq(line, room + 1, n) = SubSeq(line, 1, n)
    <3>1. 1 \in 1 .. Len(line) + 1 /\ room \in 1 - 1 .. Len(line) /\ n \in room .. Len(line)
      BY <2>1 DEF n
    <3> QED BY <1>1, <3>1, ConcatAdjacentSubSeq
  <2> QED BY <2>2, <2>3, <2>6, <2>7, <2>8
<1> DEFINE t == vb.text \o part
           l == vb.strlen + room
<1>7. t \in Seq(Chars) /\ l \in Nat /\ Len(t) = l /\ l <= vb.avail BY <1>2, <1>3, <1>6
<1>8. t \o rest = said
  <2> HIDE DEF part, rest
  <2>1. t \o rest = vb.text \o (part \o rest)
    <3> DEFINE Y == Seq(Chars)
               text == vb.text
    <3>1. text \in Y /\ part \in Y /\ rest \in Y BY <1>2, <1>6
    <3> HIDE DEF text
    <3>2. (text \o part) \o rest = text \o (part \o rest) BY <3>1, ConcatAssociative
    <3> QED BY <3>2 DEF text
  <2> QED BY <1>1, <1>6, <2>1
<1>9. b = [vb EXCEPT !.text = t, !.strlen = l] OBVIOUS
<1> HIDE DEF t, l, part, rest, room, b
<1>10. b \in Buffer /\ b.text = t /\ b.strlen = l /\ b.avail = vb.avail /\ b.null = vb.null
  BY <1>1, <1>7, <1>9 DEF Buffer
<1>11. Sound(b) BY <1>1, <1>7, <1>10 DEF Sound
<1>12. /\ outcome.at \in {"idle", "aborted", "crashed"}
       /\ outcome.nodes \in Nat /\ (buf_copy.grow.frees => outcome.nodes <= 1)
       /\ outcome.at # "idle" => outcome.vb = b
       /\ outcome.at = "idle" => Sound(outcome.vb) /\ outcome.vb.text = t
  <2>1. Quadruple(b) \in 0 .. SizeMax
    <3>1. b.avail * 4 \in Int BY <1>10 DEF Buffer
    <3> QED BY <3>1, WrapIs DEF Quadruple
  <2>2. buf_copy \in BufCopies /\ nodes \in Nat /\ (buf_copy.grow.frees => nodes <= 1)
    BY <1>1 DEF BufInv, Held
  <2> QED BY <1>4, <1>10, <1>11, <2>1, <2>2, GrownKeeps
<1>13. outcome.vb \in Buffer /\ ~outcome.vb.null BY <1>11, <1>12 DEF Sound
<1>14. nodes' = outcome.nodes /\ vb' = outcome.vb
       /\ at' = IF outcome.at # "idle" THEN outcome.at ELSE "reading"
  BY <1>4, <1>13 DEF Settles
<1> QED BY <1>1, <1>5, <1>6, <1>8, <1>12, <1>13, <1>14 DEF Held

LEMMA RestKeeps ==
  ASSUME BufInv, Reliable, ReadRest
  PROVE  Held'
<1> DEFINE all == vb.text \o line
<1>1. vb \in Buffer /\ ~vb.null /\ Held /\ Sound(vb) /\ line \in Seq(Chars) /\ all = said
  BY DEF BufInv, Held, ReadRest
<1>2. vb.strlen = Len(vb.text) /\ Len(vb.text) \in Nat /\ vb.avail \in Nat /\ vb.text \in Seq(Chars)
      /\ Len(vb.text) <= vb.avail
  BY <1>1, WrapIs DEF Sound, Buffer
<1>3. Len(all) <= vb.avail
  <2>1. Room \in Nat /\ (Room = 0 \/ Room = vb.avail - vb.strlen - 1) BY <1>2, RoomIs
  <2>2. Len(line) \in Nat /\ Len(line) <= Room BY <1>1 DEF ReadRest
  <2>3. Len(all) = Len(vb.text) + Len(line) BY <1>1, <1>2
  <2> HIDE DEF all
  <2> QED BY <1>2, <2>1, <2>2, <2>3
<1> DEFINE t == Trim(all)
           l == Len(t)
           after == [vb EXCEPT !.text = t, !.strlen = l]
<1>4. all \in Seq(Chars) BY <1>1 DEF Held
<1>5. t \in Seq(Chars) /\ l <= Len(all) /\ l \in Nat
  <2> HIDE DEF all
  <2>1. t \in Seq(Chars) /\ Len(t) <= Len(all) BY <1>4, TrimType
  <2> HIDE DEF t
  <2> QED BY <2>1
<1>6. vb' = after /\ at' = "idle" /\ line' = <<>> /\ said' = t /\ UNCHANGED <<buf_copy, nodes>>
  <2>1. Trim(said) = t BY <1>1
  <2> QED BY <2>1 DEF ReadRest
<1>7. Len(all) \in Nat BY <1>4
<1> HIDE DEF t, l, all
<1>8. after \in Buffer /\ after.text = t /\ after.strlen = l /\ after.avail = vb.avail
      /\ after.null = vb.null
  BY <1>1, <1>5 DEF Buffer
<1>9. l <= vb.avail BY <1>2, <1>3, <1>5, <1>7
<1> HIDE DEF after
<1> QED BY <1>1, <1>5, <1>6, <1>8, <1>9 DEF Held, l
-----------------------------------------------------------------------------
LEMMA MakesKeeps ==
  ASSUME NEW c \in OwnCases, RegsubMakes(c)
  PROVE  OwnMade'
<1>1. PICK status \in {StatusOf(c)} \cup (IF buf_copy.sub.asks THEN {"EACCES"} ELSE {}) :
        own' = [case |-> c,
                status |-> IF status = "ok" /\ Runaway(c) THEN "crashed" ELSE status,
                size |-> IF status = "ok" THEN Wrap(CountedOf(c) + 1) ELSE 0,
                text |-> IF status = "ok" /\ ~Runaway(c) THEN WrittenOf(c) ELSE <<>>]
  BY DEF RegsubMakes
<1>2. /\ own'.case = c
      /\ own'.status = IF status = "ok" /\ Runaway(c) THEN "crashed" ELSE status
      /\ own'.size = IF status = "ok" THEN Wrap(CountedOf(c) + 1) ELSE 0
      /\ own'.text = IF status = "ok" /\ ~Runaway(c) THEN WrittenOf(c) ELSE <<>>
  BY <1>1
<1>3. own'.status = "ok" => status = "ok" /\ ~Runaway(c) BY <1>2
<1>4. status = "ok" => StatusOf(c) = "ok" BY <1>1
<1>5. buf_copy' = buf_copy BY DEF RegsubMakes
<1>6. (own.case)' = c /\ (own.status)' = own'.status BY <1>2
<1>7. /\ StatusOf(c)' = StatusOf(c) /\ Runaway(c)' = Runaway(c)
      /\ CountedOf(c)' = CountedOf(c) /\ WrittenOf(c)' = WrittenOf(c)
  BY <1>5 DEF StatusOf, Runaway, CountedOf, WrittenOf
<1> QED BY <1>2, <1>3, <1>4, <1>6, <1>7 DEF OwnMade

LEMMA NextHeld == BufInv /\ [BufNext]_buf_vars => BufInv'
<1> SUFFICES ASSUME BufInv, [BufNext]_buf_vars PROVE BufInv' OBVIOUS
<1>1. buf_copy' = buf_copy
  BY DEF BufNext, buf_vars, Append_, Write, Empty, RegsubAppends, RegsubRefuses, RegsubMakes,
         StartLine, ReadPart, ReadRest, OwnersOnly
<1>2. lines' \in [read : Nat, number : Nat] /\ lines'.read = lines'.number
  <2>1. CASE UNCHANGED lines BY <2>1 DEF BufInv
  <2>2. CASE ReadPart BY <2>2 DEF BufInv, ReadPart, Uncount
  <2>3. CASE ReadRest BY <2>3 DEF BufInv, ReadRest
  <2> QED BY <2>1, <2>2, <2>3 DEF BufNext, buf_vars, Append_, Write, Empty, RegsubAppends,
             RegsubRefuses, RegsubMakes, StartLine, OwnersOnly
<1>3. OwnMade'
  <2>1. CASE UNCHANGED own
    <3>1. OwnMade BY DEF BufInv
    <3> QED BY <1>1, <2>1, <3>1 DEF OwnMade, StatusOf, Runaway, CountedOf, WrittenOf
  <2>2. CASE \E c \in OwnCases : RegsubMakes(c) BY <2>2, MakesKeeps
  <2> QED BY <2>1, <2>2 DEF BufNext, buf_vars, Append_, Write, Empty, RegsubAppends,
             RegsubRefuses, StartLine, ReadPart, ReadRest, OwnersOnly
<1>4. Reliable => Held'
  <2> SUFFICES ASSUME Reliable PROVE Held' OBVIOUS
  <2>1. CASE UNCHANGED <<vb, nodes, at, line, said>> BY <1>1, <2>1 DEF BufInv, Held, Sound
  <2>2. ASSUME NEW text \in Texts, Append_(text) \/ Write(text) PROVE Held'
    BY <2>2, AppendKeeps, WriteKeeps
  <2>3. CASE Empty BY <2>3, EmptyKeeps
  <2>4. ASSUME NEW c \in Cases, RegsubAppends(c) \/ RegsubRefuses(c) PROVE Held'
    BY <2>4, RegsubKeeps, RefusesKeeps
  <2>5. ASSUME NEW text \in Lines, StartLine(text) PROVE Held' BY <2>5, StartKeeps
  <2>6. CASE ReadPart BY <2>6, PartKeeps
  <2>7. CASE ReadRest BY <2>7, RestKeeps
  <2>8. ASSUME NEW c \in OwnCases, RegsubMakes(c) PROVE Held'
    <3>1. UNCHANGED <<vb, nodes, at, line, said>> BY <2>8 DEF RegsubMakes
    <3> QED BY <2>1, <3>1
  <2>9. CASE UNCHANGED buf_vars BY <2>1, <2>9 DEF buf_vars
  <2> QED BY <2>2, <2>3, <2>4, <2>5, <2>6, <2>7, <2>8, <2>9 DEF BufNext
<1>5. Reliable' => Reliable BY <1>1 DEF Reliable
<1> QED BY <1>1, <1>2, <1>3, <1>4, <1>5 DEF BufInv

\* What holds of a buffer between ap_varbuf's operations, and of regsub_core's results.
THEOREM BufInvariant == BufSpec => []BufInv
BY InitHeld, NextHeld, PTL DEF BufSpec

LEMMA HeldFits == BufInv => FitsCounted
<1> SUFFICES ASSUME BufInv PROVE FitsCounted OBVIOUS
<1>1. Reliable /\ Len(said) < SizeMax => at # "past" BY DEF BufInv, Held
<1>2. ASSUME own.status = "ok", Agrees(own.case) PROVE Len(own.text) < own.size
  <2> DEFINE c == own.case
  <2>1. /\ c \in OwnCases /\ StatusOf(c) = "ok" /\ ~Runaway(c)
        /\ own.size = Wrap(CountedOf(c) + 1) /\ own.text = WrittenOf(c)
    BY <1>2 DEF BufInv, OwnMade
  <2>2. Case(c) BY <2>1, TextsAre
  <2> HIDE DEF c
  <2>3. CountedOf(c) = Len(WrittenOf(c)) /\ Len(WrittenOf(c)) < SizeMax
    BY <1>2, <2>1, <2>2, CountedIs DEF Agrees, c
  <2>4. WrittenOf(c) \in Seq(Chars) BY <1>2, <2>1, <2>2, CountedIs DEF Agrees, c
  <2>5. Len(WrittenOf(c)) \in Nat BY <2>4
  <2>6. Len(WrittenOf(c)) + 1 \in 0 .. SizeMax BY <2>3, <2>5, WrapIs
  <2>7. own.size = Len(WrittenOf(c)) + 1 BY <2>1, <2>3, <2>6, WrapIs
  <2> QED BY <2>1, <2>5, <2>7
<1> QED BY <1>1, <1>2 DEF FitsCounted

LEMMA HeldSubstitutes == BufInv => Substitutes
<1> SUFFICES ASSUME BufInv, own.status = "ok", buf_copy.sub.digit \/ DollarsRefer(own.case)
             PROVE  own.text = StandsForOf(own.case)
  BY DEF Substitutes
<1>1. /\ own.case \in OwnCases /\ StatusOf(own.case) = "ok" /\ ~Runaway(own.case)
      /\ own.text = WrittenOf(own.case)
  BY DEF BufInv, OwnMade
<1>2. Case(own.case) BY <1>1, TextsAre
<1> QED BY <1>1, <1>2, WrittenIs

\* Nothing is written past the end of a buffer or of the memory that was asked for.
THEOREM FitsCountedCorrect == BufSpec => []FitsCounted
BY BufInvariant, HeldFits, PTL

\* A buffer of a reliable copy holds what its owners put there and no more than it has
\* room for, and a replacement comes out as what it stands for, in memory that was counted
\* for it: for texts, replacements and sizes of any kind.
THEOREM TextKeptCorrect == BufSpec => []TextKept
<1>1. BufInv => BufferKept BY DEF BufferKept, BufInv, Held
<1>2. BufInv => TextKept BY <1>1, HeldFits, HeldSubstitutes DEF TextKept
<1> QED BY <1>2, BufInvariant, PTL
-----------------------------------------------------------------------------
(* Definitions that call themselves for what is smaller.                   *)
LEMMA Course ==
  ASSUME NEW P, \A n \in Nat : (\A k \in Nat : k < n => k \in P) => n \in P
  PROVE  \A n \in Nat : n \in P
<1> DEFINE Q == {n \in Nat : \A k \in Nat : k < n => k \in P}
<1>1. 0 \in Q OBVIOUS
<1>2. \A n \in Nat : n \in Q => n + 1 \in Q
  <2> SUFFICES ASSUME NEW n \in Nat, n \in Q, NEW k \in Nat, k < n + 1 PROVE k \in P
    OBVIOUS
  <2>1. k < n \/ k = n OBVIOUS
  <2>2. n \in P OBVIOUS
  <2> QED BY <2>1, <2>2
<1>3. \A n \in Nat : n \in Q
  <2> HIDE DEF Q
  <2> QED BY <1>1, <1>2, Inductive
<1> QED BY <1>3

Measured(D, V, size, step) ==
  /\ D # {} /\ V # {} /\ size \in [D -> Nat] /\ step \in [[D -> V] \X D -> V]
  /\ \A f, g \in [D -> V], y \in D :
       (\A z \in D : size[z] < size[y] => f[z] = g[z]) => step[<<f, y>>] = step[<<g, y>>]

\* What solves it for all that is smaller than n.
Solves(D, size, step, n, f) == \A y \in D : size[y] < n => f[y] = step[<<f, y>>]

LEMMA OneSolution ==
  ASSUME NEW D, NEW V, NEW size, NEW step, Measured(D, V, size, step),
         NEW n \in Nat, NEW f \in [D -> V], NEW g \in [D -> V],
         Solves(D, size, step, n, f), Solves(D, size, step, n, g)
  PROVE  \A y \in D : size[y] < n => f[y] = g[y]
<1> DEFINE P == {k \in Nat : \A y \in D : size[y] = k /\ k < n => f[y] = g[y]}
<1>1. size \in [D -> Nat] BY DEF Measured
<1>2. ASSUME NEW k \in Nat, \A j \in Nat : j < k => j \in P PROVE k \in P
  <2> SUFFICES ASSUME NEW y \in D, size[y] = k, k < n PROVE f[y] = g[y] OBVIOUS
  <2>1. \A z \in D : size[z] < size[y] => f[z] = g[z] BY <1>1, <1>2
  <2> HIDE DEF P
  <2>2. step[<<f, y>>] = step[<<g, y>>] BY <2>1 DEF Measured
  <2>3. f[y] = step[<<f, y>>] /\ g[y] = step[<<g, y>>] BY DEF Solves
  <2> QED BY <2>2, <2>3
<1>3. \A k \in Nat : k \in P
  <2> HIDE DEF P
  <2> QED BY <1>2, Course
<1> QED BY <1>1, <1>3

LEMMA SomeSolution ==
  ASSUME NEW D, NEW V, NEW size, NEW step, Measured(D, V, size, step), NEW n \in Nat
  PROVE  \E f \in [D -> V] : Solves(D, size, step, n, f)
<1> DEFINE P == {k \in Nat : \E f \in [D -> V] : Solves(D, size, step, k, f)}
<1>0. size \in [D -> Nat] /\ step \in [[D -> V] \X D -> V] /\ V # {} BY DEF Measured
<1>1. 0 \in P
  <2>1. PICK v : v \in V BY <1>0
  <2>2. [y \in D |-> v] \in [D -> V] BY <2>1
  <2>3. Solves(D, size, step, 0, [y \in D |-> v]) BY <1>0 DEF Solves
  <2> QED BY <2>2, <2>3
<1>2. \A k \in Nat : k \in P => k + 1 \in P
  <2> SUFFICES ASSUME NEW k \in Nat, NEW f \in [D -> V], Solves(D, size, step, k, f)
               PROVE  \E g \in [D -> V] : Solves(D, size, step, k + 1, g)
    OBVIOUS
  <2> DEFINE g == [y \in D |-> step[<<f, y>>]]
  <2>1. g \in [D -> V] /\ \A y \in D : g[y] = step[<<f, y>>] BY <1>0
  <2> HIDE DEF g
  <2>2. ASSUME NEW y \in D, size[y] < k + 1 PROVE g[y] = step[<<g, y>>]
    <3>1. \A z \in D : size[z] < size[y] => f[z] = g[z]
      <4> SUFFICES ASSUME NEW z \in D, size[z] < size[y] PROVE f[z] = g[z] OBVIOUS
      <4>1. size[z] < k BY <1>0, <2>2
      <4> QED BY <2>1, <4>1 DEF Solves
    <3>2. step[<<f, y>>] = step[<<g, y>>] BY <2>1, <3>1 DEF Measured
    <3> QED BY <2>1, <3>2
  <2>3. Solves(D, size, step, k + 1, g) BY <2>2 DEF Solves
  <2> QED BY <2>1, <2>3
<1>3. n \in P
  <2> HIDE DEF P
  <2> QED BY <1>1, <1>2, Inductive
<1> QED BY <1>3

LEMMA Recursion ==
  ASSUME NEW D, NEW V, NEW size, NEW step, Measured(D, V, size, step)
  PROVE  \E f \in [D -> V] : \A y \in D : f[y] = step[<<f, y>>]
<1> DEFINE Sol(n) == CHOOSE f \in [D -> V] : Solves(D, size, step, n, f)
           f == [y \in D |-> Sol(size[y] + 1)[y]]
<1>0. size \in [D -> Nat] BY DEF Measured
<1>1. \A n \in Nat : Sol(n) \in [D -> V] /\ Solves(D, size, step, n, Sol(n)) BY SomeSolution
<1>2. \A y \in D : size[y] \in Nat /\ size[y] + 1 \in Nat BY <1>0
<1> HIDE DEF Sol
<1>3. f \in [D -> V] BY <1>1, <1>2
<1>4. \A y \in D : f[y] = Sol(size[y] + 1)[y] OBVIOUS
<1> HIDE DEF f
<1>5. ASSUME NEW y \in D PROVE f[y] = step[<<f, y>>]
  <2> DEFINE g == Sol(size[y] + 1)
  <2>1. g \in [D -> V] /\ Solves(D, size, step, size[y] + 1, g) BY <1>1, <1>2
  <2>2. f[y] = g[y] BY <1>4
  <2> HIDE DEF g
  <2>3. g[y] = step[<<g, y>>] BY <1>2, <2>1 DEF Solves
  <2>4. ASSUME NEW z \in D, size[z] < size[y] PROVE g[z] = f[z]
    <3> DEFINE h == Sol(size[z] + 1)
    <3>1. h \in [D -> V] /\ Solves(D, size, step, size[z] + 1, h) BY <1>1, <1>2
    <3>2. f[z] = h[z] BY <1>4
    <3> HIDE DEF h
    <3>3. Solves(D, size, step, size[z] + 1, g) BY <1>2, <2>1, <2>4 DEF Solves
    <3>4. size[z] < size[z] + 1 /\ size[z] + 1 \in Nat BY <1>2
    <3>5. g[z] = h[z] BY <2>1, <3>1, <3>3, <3>4, OneSolution
    <3> QED BY <3>2, <3>5
  <2>5. step[<<g, y>>] = step[<<f, y>>] BY <1>3, <2>1, <2>4 DEF Measured
  <2> QED BY <2>2, <2>3, <2>5
<1> QED BY <1>3, <1>5
-----------------------------------------------------------------------------
(* Texts cut into pieces from left to right, and put together again.       *)
LEMMA Backwards ==
  ASSUME NEW n \in Nat, NEW P,
         \A i \in 1 .. n + 1 : (\A j \in 1 .. n + 1 : j > i => j \in P) => i \in P
  PROVE  \A i \in 1 .. n + 1 : i \in P
<1> DEFINE Q == {k \in Nat : k <= n => n + 1 - k \in P}
<1>1. ASSUME NEW k \in Nat, \A j \in Nat : j < k => j \in Q PROVE k \in Q
  <2> SUFFICES ASSUME k <= n PROVE n + 1 - k \in P OBVIOUS
  <2>1. n + 1 - k \in 1 .. n + 1 OBVIOUS
  <2>2. ASSUME NEW j \in 1 .. n + 1, j > n + 1 - k PROVE j \in P
    <3>1. n + 1 - j \in Nat /\ n + 1 - j < k /\ n + 1 - j <= n /\ n + 1 - (n + 1 - j) = j
      BY <2>2
    <3>2. n + 1 - j \in Q BY <1>1, <3>1
    <3> QED BY <3>1, <3>2
  <2> QED BY <2>1, <2>2
<1>2. \A k \in Nat : k \in Q
  <2> HIDE DEF Q
  <2> QED BY <1>1, Course
<1> SUFFICES ASSUME NEW i \in 1 .. n + 1 PROVE i \in P OBVIOUS
<1>3. n + 1 - i \in Nat /\ n + 1 - i <= n /\ n + 1 - (n + 1 - i) = i OBVIOUS
<1> QED BY <1>2, <1>3

LEMMA Associative ==
  ASSUME NEW E, NEW x \in Seq(E), NEW y \in Seq(E), NEW z \in Seq(E)
  PROVE  x \o (y \o z) = (x \o y) \o z
BY ConcatAssociative, SMT

\* The same, where there are texts of texts as well.
Associates(E) == \A x, y, z \in Seq(E) : x \o (y \o z) = (x \o y) \o z

LEMMA AllAssociate == \A E : Associates(E)
BY Associative DEF Associates

LEMMA FlatConcat ==
  ASSUME NEW S, NEW s \in Seq(Seq(S)), NEW t \in Seq(Seq(S))
  PROVE  /\ FlattenSeq(s) \in Seq(S) /\ FlattenSeq(t) \in Seq(S)
         /\ FlattenSeq(s \o t) = FlattenSeq(s) \o FlattenSeq(t)
<1> DEFINE st == s \o t
<1>1. PICK n, m \in Nat : n = Len(s) /\ m = Len(t) OBVIOUS
<1>2. PICK e \in [0 .. n -> Seq(S)] : IsFlat(e, s) BY <1>1, FlatExists
<1>3. PICK f \in [0 .. m -> Seq(S)] : IsFlat(f, t) BY <1>1, FlatExists
<1>4. /\ FlattenSeq(s) = e[n] /\ e[n] \in Seq(S)
      /\ FlattenSeq(t) = f[m] /\ f[m] \in Seq(S)
  BY <1>1, <1>2, <1>3, FlatIs
<1>5. PICK x \in Seq(S) : x = e[n] BY <1>4
<1>a. Associates(S) BY AllAssociate
<1> DEFINE g == [k \in 0 .. n + m |-> IF k <= n THEN e[k] ELSE x \o f[k - n]]
<1>6. /\ st \in Seq(Seq(S)) /\ Len(st) = n + m
      /\ \A k \in 1 .. n : st[k] = s[k]
      /\ \A k \in 1 .. m : st[n + k] = t[k]
  BY <1>1
<1>7. f[0] = <<>> /\ \A k \in 1 .. m : f[k] = f[k - 1] \o t[k] BY <1>1, <1>3 DEF IsFlat
<1>8. \A k \in 0 .. n : g[k] = e[k] OBVIOUS
<1>9. \A k \in 0 .. m : g[n + k] = x \o f[k]
  <2> SUFFICES ASSUME NEW k \in 0 .. m PROVE g[n + k] = x \o f[k] OBVIOUS
  <2>1. CASE k = 0
    <3>1. x \o <<>> = x BY ConcatEmptySeq
    <3>2. n + k = n /\ g[n] = e[n] BY <2>1
    <3> QED BY <1>5, <1>7, <2>1, <3>1, <3>2
  <2>2. CASE k # 0
    <3>1. n + k \in 0 .. n + m /\ ~(n + k <= n) /\ n + k - n = k BY <2>2
    <3> QED BY <3>1
  <2> QED BY <2>1, <2>2
<1> HIDE DEF g, st
<1>10. g[0] = <<>> BY <1>2, <1>8 DEF IsFlat
<1>11. ASSUME NEW k \in 1 .. n + m PROVE g[k] = g[k - 1] \o st[k]
  <2>1. CASE k <= n
    <3>1. k \in 1 .. n /\ k \in 0 .. n /\ k - 1 \in 0 .. n BY <2>1
    <3>2. e[k] = e[k - 1] \o s[k] BY <1>1, <1>2, <3>1 DEF IsFlat
    <3> QED BY <1>6, <1>8, <3>1, <3>2
  <2>2. CASE ~(k <= n)
    <3>1. PICK j \in 1 .. m : k = n + j /\ j \in 0 .. m BY <2>2
    <3>2. PICK i \in 0 .. m : i = j - 1 /\ k - 1 = n + i BY <3>1
    <3>3. g[k] = x \o f[j] /\ g[k - 1] = x \o f[i] BY <1>9, <3>1, <3>2
    <3>4. st[k] = t[j] BY <1>6, <3>1
    <3>5. PICK y \in Seq(S) : y = f[i] OBVIOUS
    <3>6. PICK z \in Seq(S) : z = t[j] BY <1>1, ElementOfSeq
    <3>7. f[j] = y \o z BY <1>7, <3>2, <3>5, <3>6
    <3>8. x \o (y \o z) = (x \o y) \o z BY <1>a DEF Associates
    <3> QED BY <3>3, <3>4, <3>5, <3>6, <3>7, <3>8, Zenon
  <2> QED BY <2>1, <2>2
<1>12. IsFlat(g, st) BY <1>6, <1>10, <1>11 DEF IsFlat
<1>13. FlattenSeq(st) = g[n + m]
  <2>1. FlattenSeq(st) = g[Len(st)] BY <1>6, <1>12, FlatIs
  <2> QED BY <1>6, <2>1
<1>14. m \in 0 .. m OBVIOUS
<1>15. g[n + m] = x \o f[m] BY <1>9, <1>14
<1> QED BY <1>4, <1>5, <1>13, <1>15, Zenon DEF st

LEMMA FlatPrepend ==
  ASSUME NEW S, NEW s \in Seq(Seq(S)), NEW x \in Seq(S)
  PROVE  /\ FlattenSeq(s) \in Seq(S)
         /\ FlattenSeq(<<x>> \o s) = x \o FlattenSeq(s)
<1>1. PICK one \in Seq(Seq(S)) : one = <<x>>
  <2>1. <<x>> \in Seq(Seq(S)) OBVIOUS
  <2> QED BY <2>1
<1>2. FlattenSeq(one) = x
  <2>1. <<>> \in Seq(Seq(S)) /\ Append(<<>>, x) = one BY <1>1
  <2>2. FlattenSeq(Append(<<>>, x)) = FlattenSeq(<<>>) \o x BY <2>1, FlatAppend
  <2>3. <<>> \o x = x BY ConcatEmptySeq
  <2> QED BY <2>1, <2>2, <2>3, FlatEmpty, Zenon
<1>3. FlattenSeq(s) \in Seq(S) /\ FlattenSeq(one \o s) = FlattenSeq(one) \o FlattenSeq(s)
  BY FlatConcat
<1> QED BY <1>1, <1>2, <1>3, Zenon

\* What is put down first stays where it is.
GrowsBy(n, s, S, f) ==
  s \in Seq(Seq(S)) /\ n \in Nat /\ n = Len(s) /\ f \in [0 .. n -> Seq(S)] /\ IsFlat(f, s)
LEMMA FlatKeeps ==
  ASSUME NEW n, NEW s, NEW S, NEW f, GrowsBy(n, s, S, f)
  PROVE  \A m \in 0 .. n : \A k \in 0 .. m :
           /\ Len(f[k]) <= Len(f[m])
           /\ \A j \in 1 .. Len(f[k]) : f[m][j] = f[k][j]
<1> DEFINE Keeps(m) == \A k \in 0 .. m :
             Len(f[k]) <= Len(f[m]) /\ \A j \in 1 .. Len(f[k]) : f[m][j] = f[k][j]
           P == {m \in Nat : m <= n => Keeps(m)}
<1> s \in Seq(Seq(S)) /\ n \in Nat /\ n = Len(s) /\ f \in [0 .. n -> Seq(S)] /\ IsFlat(f, s)
  BY DEF GrowsBy
<1>0. \A k \in 0 .. n : Len(f[k]) \in Nat OBVIOUS
<1>1. 0 \in P BY <1>0
<1>2. \A m \in Nat : m \in P => m + 1 \in P
  <2> SUFFICES ASSUME NEW m \in Nat, m \in P, m + 1 <= n PROVE Keeps(m + 1)
    <3> HIDE DEF Keeps
    <3> QED OBVIOUS
  <2>1. Keeps(m)
    <3> HIDE DEF Keeps
    <3> QED OBVIOUS
  <2> HIDE DEF P
  <2>2. PICK l \in 1 .. n : l = m + 1 /\ l - 1 = m OBVIOUS
  <2>3. PICK a \in Seq(S) : a = f[m]
    <3>1. m \in 0 .. n OBVIOUS
    <3> QED BY <3>1
  <2>4. PICK b \in Seq(S) : b = s[l] BY ElementOfSeq
  <2>5. f[l] = a \o b BY <2>2, <2>3, <2>4 DEF IsFlat
  <2>6. Len(a) <= Len(a \o b) /\ \A j \in 1 .. Len(a) : (a \o b)[j] = a[j] OBVIOUS
  <2>7. Len(f[m]) <= Len(f[l]) /\ \A j \in 1 .. Len(f[m]) : f[l][j] = f[m][j]
    BY <2>3, <2>5, <2>6, Zenon
  <2> SUFFICES ASSUME NEW k \in 0 .. l
               PROVE  Len(f[k]) <= Len(f[l]) /\ \A j \in 1 .. Len(f[k]) : f[l][j] = f[k][j]
    BY <2>2
  <2>8. CASE k = l BY <1>0, <2>8
  <2>9. CASE k # l
    <3>1. k \in 0 .. m /\ m \in 0 .. n /\ k \in 0 .. n /\ l \in 0 .. n BY <2>2, <2>9
    <3>2. Len(f[k]) <= Len(f[m]) /\ \A j \in 1 .. Len(f[k]) : f[m][j] = f[k][j] BY <2>1, <3>1
    <3>3. Len(f[k]) \in Nat /\ Len(f[m]) \in Nat /\ Len(f[l]) \in Nat BY <1>0, <3>1
    <3>4. \A j \in 1 .. Len(f[k]) : j \in 1 .. Len(f[m]) BY <3>2, <3>3
    <3> QED BY <2>7, <3>2, <3>3, <3>4
  <2> QED BY <2>8, <2>9
<1>3. \A m \in Nat : m \in P
  <2> HIDE DEF P
  <2> QED BY <1>1, <1>2, Inductive
<1> QED BY <1>3

\* Characters that stand each for itself.
LEMMA Singles ==
  ASSUME NEW S, NEW t \in Seq(S), NEW s, s = [i \in 1 .. Len(t) |-> <<t[i]>>]
  PROVE  FlattenSeq(s) = t
<1>1. PICK n \in Nat : n = Len(t) OBVIOUS
<1> DEFINE f == [k \in 0 .. n |-> SubSeq(t, 1, k)]
<1>2. s \in Seq(Seq(S)) /\ Len(s) = n /\ \A k \in 1 .. n : s[k] = <<t[k]>> BY <1>1
<1>3. f[0] = <<>> BY <1>1
<1>4. ASSUME NEW k \in 1 .. n PROVE f[k] = f[k - 1] \o s[k]
  <2>1. 1 \in 1 .. Len(t) /\ k \in 1 .. Len(t) BY <1>1
  <2>2. SubSeq(t, 1, k) = SubSeq(t, 1, k - 1) \o <<t[k]>> BY <2>1, SubSeqRecursiveSecond
  <2>3. f[k] = SubSeq(t, 1, k) /\ f[k - 1] = SubSeq(t, 1, k - 1) OBVIOUS
  <2> QED BY <1>2, <2>2, <2>3
<1>5. f[n] = t BY <1>1, SubSeqFull
<1> HIDE DEF f
<1>6. IsFlat(f, s) BY <1>2, <1>3, <1>4 DEF IsFlat
<1> QED BY <1>2, <1>5, <1>6, FlatIs
-----------------------------------------------------------------------------
\* A text is cut into pieces from left to right.
GoesOn(n, cut, P) ==
  n \in Nat /\ cut \in [1 .. n -> P] /\ \A i \in 1 .. n : cut[i].next \in i + 1 .. n + 1

Following(n, cut, from) ==
  /\ from[n + 1] = <<>>
  /\ \A i \in 1 .. n : from[i] = <<cut[i]>> \o from[cut[i].next]

LEMMA PiecesAre ==
  ASSUME NEW n, NEW cut, NEW P, GoesOn(n, cut, P)
  PROVE  \E from \in [1 .. n + 1 -> Seq(P)] :
           Following(n, cut, from) /\ PiecesOf(n, cut) = from[1]
<1> DEFINE D == 1 .. n + 1
           V == Seq(P)
           Then(f, i) == IF i > n THEN <<>> ELSE <<cut[i]>> \o f[cut[i].next]
           size == [i \in D |-> n + 1 - i]
           step == [p \in [D -> V] \X D |-> Then(p[1], p[2])]
           Loop(f) == [i \in D |-> Then(f, i)]
           F == CHOOSE f : f = Loop(f)
<1>0. n \in Nat /\ \A i \in 1 .. n : cut[i] \in P /\ cut[i].next \in i + 1 .. n + 1 BY DEF GoesOn
<1>1. ASSUME NEW f, NEW i \in D, \A j \in D : j > i => f[j] \in V PROVE Then(f, i) \in V
  <2>1. CASE i > n BY <2>1
  <2>2. CASE ~(i > n)
    <3>1. i \in 1 .. n BY <1>0, <2>2
    <3>2. f[cut[i].next] \in V /\ <<cut[i]>> \in V BY <1>0, <1>1, <3>1
    <3> QED BY <2>2, <3>2
  <2> QED BY <2>1, <2>2
<1>2. ASSUME NEW f, NEW g, NEW i \in D, \A j \in D : j > i => f[j] = g[j]
      PROVE  Then(f, i) = Then(g, i)
  <2>1. CASE i > n BY <2>1
  <2>2. CASE ~(i > n)
    <3>1. i \in 1 .. n BY <1>0, <2>2
    <3>2. f[cut[i].next] = g[cut[i].next] BY <1>0, <1>2, <3>1
    <3> QED BY <2>2, <3>2
  <2> QED BY <2>1, <2>2
<1> HIDE DEF Then
<1>3. \A f \in [D -> V], i \in D : <<f, i>> \in [D -> V] \X D /\ step[<<f, i>>] = Then(f, i)
  <2> SUFFICES ASSUME NEW f \in [D -> V], NEW i \in D
               PROVE  <<f, i>> \in [D -> V] \X D /\ step[<<f, i>>] = Then(f, i)
    OBVIOUS
  <2> HIDE DEF D, V
  <2> QED OBVIOUS
<1>4. step \in [[D -> V] \X D -> V]
  <2>1. \A f \in [D -> V], i \in D : Then(f, i) \in V BY <1>1
  <2> HIDE DEF D, V
  <2>2. \A p \in [D -> V] \X D : Then(p[1], p[2]) \in V BY <2>1
  <2> QED BY <2>2
<1>5. size \in [D -> Nat] /\ \A i \in D : size[i] = n + 1 - i BY <1>0
<1>6. D # {} /\ V # {}
  <2>1. 1 \in D /\ <<>> \in V BY <1>0
  <2> QED BY <2>1
<1> HIDE DEF size, step
<1>7. \A i, j \in D : j > i => size[j] < size[i] BY <1>0, <1>5
<1>8. Measured(D, V, size, step)
  <2>1. ASSUME NEW f \in [D -> V], NEW g \in [D -> V], NEW i \in D,
               \A j \in D : size[j] < size[i] => f[j] = g[j]
        PROVE  step[<<f, i>>] = step[<<g, i>>]
    <3>1. \A j \in D : j > i => f[j] = g[j] BY <1>7, <2>1
    <3>2. Then(f, i) = Then(g, i) BY <1>2, <3>1
    <3> HIDE DEF D, V
    <3> QED BY <1>3, <3>2
  <2> HIDE DEF D, V
  <2> QED BY <1>4, <1>5, <1>6, <2>1 DEF Measured
<1>9. \E f \in [D -> V] : f = Loop(f)
  <2>1. PICK f \in [D -> V] : \A i \in D : f[i] = step[<<f, i>>]
    <3> HIDE DEF D, V
    <3> QED BY <1>8, Recursion
  <2> HIDE DEF D, V
  <2>2. \A i \in D : f[i] = Then(f, i) BY <1>3, <2>1
  <2>3. f = Loop(f) BY <2>2
  <2> QED BY <2>3
<1>10. F = Loop(F)
  <2> HIDE DEF Loop
  <2> QED BY <1>9
<1>11. PiecesOf(n, cut) = F[1] BY DEF PiecesOf, Then
<1> HIDE DEF F
<1>12. \A i \in D : F[i] = Then(F, i) BY <1>10
<1>13. F \in [D -> V]
  <2> DEFINE Q == {i \in D : F[i] \in V}
  <2>1. \A i \in 1 .. n + 1 : (\A j \in 1 .. n + 1 : j > i => j \in Q) => i \in Q BY <1>1, <1>12
  <2>2. \A i \in 1 .. n + 1 : i \in Q
    <3> HIDE DEF Q
    <3> QED BY <1>0, <2>1, Backwards
  <2>3. \A i \in D : F[i] \in V BY <2>2
  <2>4. F = [i \in D |-> F[i]] BY <1>10
  <2> QED BY <2>3, <2>4
<1>14. Following(n, cut, F)
  <2>1. F[n + 1] = <<>>
    <3>1. n + 1 \in D /\ n + 1 > n BY <1>0
    <3> QED BY <1>12, <3>1 DEF Then
  <2>2. ASSUME NEW i \in 1 .. n PROVE F[i] = <<cut[i]>> \o F[cut[i].next]
    <3>1. i \in D /\ ~(i > n) BY <1>0
    <3> QED BY <1>12, <3>1 DEF Then
  <2> QED BY <2>1, <2>2 DEF Following
<1> QED BY <1>11, <1>13, <1>14

LEMMA Prepended ==
  ASSUME NEW E, NEW ps \in Seq(E), NEW p \in E
  PROVE  /\ <<p>> \o ps \in Seq(E) /\ Len(<<p>> \o ps) = Len(ps) + 1
         /\ (<<p>> \o ps)[1] = p
         /\ \A i \in 1 .. Len(ps) : (<<p>> \o ps)[i + 1] = ps[i]
<1>1. <<p>> \in Seq(E) /\ Len(<<p>>) = 1 /\ <<p>>[1] = p /\ Len(ps) \in Nat OBVIOUS
<1> QED BY <1>1

\* What is said of pieces: theirs are texts of characters of S.
HaveTexts(P, S) == \A p \in P : p.text \in Seq(S)

LEMMA JoinedPieces ==
  ASSUME NEW S, NEW P, HaveTexts(P, S), NEW ps \in Seq(P)
  PROVE  /\ [i \in DOMAIN ps |-> ps[i].text] \in Seq(Seq(S))
         /\ Len([i \in DOMAIN ps |-> ps[i].text]) = Len(ps)
         /\ Joined(ps) \in Seq(S)
<1> DEFINE s == [i \in DOMAIN ps |-> ps[i].text]
<1>1. DOMAIN ps = 1 .. Len(ps) /\ Len(ps) \in Nat OBVIOUS
<1>2. \A i \in 1 .. Len(ps) : ps[i].text \in Seq(S)
  <2>1. \A i \in 1 .. Len(ps) : ps[i] \in P OBVIOUS
  <2> QED BY <2>1 DEF HaveTexts
<1>3. s \in Seq(Seq(S)) /\ Len(s) = Len(ps) BY <1>1, <1>2
<1> HIDE DEF s
<1>4. FlattenSeq(s) \in Seq(S) BY <1>3, FlatConcat
<1> QED BY <1>3, <1>4 DEF Joined, s

LEMMA JoinedPrepend ==
  ASSUME NEW S, NEW P, HaveTexts(P, S), NEW ps \in Seq(P), NEW p \in P
  PROVE  Joined(<<p>> \o ps) = p.text \o Joined(ps)
<1> DEFINE qs == <<p>> \o ps
           s == [i \in DOMAIN ps |-> ps[i].text]
           t == [i \in DOMAIN qs |-> qs[i].text]
<1>1. qs \in Seq(P) BY Prepended
<1>2. Len(qs) = Len(ps) + 1 /\ qs[1] = p /\ \A i \in 1 .. Len(ps) : qs[i + 1] = ps[i] BY Prepended
<1>3. DOMAIN qs = 1 .. Len(qs) /\ DOMAIN ps = 1 .. Len(ps) /\ Len(ps) \in Nat OBVIOUS
<1>4. s \in Seq(Seq(S)) /\ Len(s) = Len(ps) BY JoinedPieces
<1> HIDE DEF qs
<1>5. t \in Seq(Seq(S)) /\ Len(t) = Len(qs) BY <1>1, JoinedPieces
<1>6. t[1] = p.text /\ \A i \in 1 .. Len(ps) : t[i + 1] = s[i]
  <2>1. 1 \in DOMAIN qs /\ \A i \in 1 .. Len(ps) : i + 1 \in DOMAIN qs BY <1>2, <1>3
  <2> QED BY <1>2, <1>3, <2>1
<1> HIDE DEF s, t
<1>7. PICK x \in Seq(S) : x = p.text BY DEF HaveTexts
<1>8. t = <<x>> \o s
  <2>1. PICK u \in Seq(Seq(S)) : u = <<x>> \o s BY <1>4, Prepended
  <2>2. Len(u) = Len(s) + 1 /\ u[1] = x /\ \A i \in 1 .. Len(s) : u[i + 1] = s[i]
    BY <1>4, <2>1, Prepended
  <2>3. \A i \in 1 .. Len(t) : t[i] = u[i]
    <3> SUFFICES ASSUME NEW i \in 1 .. Len(t) PROVE t[i] = u[i] OBVIOUS
    <3>1. CASE i = 1 BY <1>6, <1>7, <2>2, <3>1
    <3>2. CASE i # 1
      <4>1. PICK j \in 1 .. Len(ps) : i = j + 1
        <5>1. i - 1 \in 1 .. Len(ps) BY <1>2, <1>3, <1>5, <3>2
        <5> QED BY <5>1
      <4> QED BY <1>4, <1>6, <2>2, <4>1
    <3> QED BY <3>1, <3>2
  <2>4. Len(t) = Len(u) BY <1>2, <1>4, <1>5, <2>2
  <2>5. t = u BY <1>5, <2>3, <2>4, SeqEqual
  <2> QED BY <2>1, <2>5
<1>9. FlattenSeq(<<x>> \o s) = x \o FlattenSeq(s) BY <1>4, FlatPrepend
<1> QED BY <1>7, <1>8, <1>9, Zenon DEF Joined, qs, s, t

LEMMA JoinedEmpty == Joined(<<>>) = <<>>
<1>1. [i \in DOMAIN <<>> |-> <<>>[i].text] = <<>> OBVIOUS
<1> QED BY <1>1, FlatEmpty DEF Joined

\* A place further on is one of the text, or its end.
LEMMA Behind ==
  ASSUME NEW n \in Nat, NEW i \in 1 .. n, NEW k \in i + 1 .. n + 1
  PROVE  k \in 1 .. n + 1 /\ k > i
OBVIOUS

\* What is put together from a place on.
Remains(n, cut, rest) ==
  rest[n + 1] = <<>> /\ \A i \in 1 .. n : rest[i] = cut[i].text \o rest[cut[i].next]

LEMMA RestIs ==
  ASSUME NEW S, NEW P, HaveTexts(P, S), NEW n, NEW cut, GoesOn(n, cut, P)
  PROVE  \E rest \in [1 .. n + 1 -> Seq(S)] :
           Remains(n, cut, rest) /\ Joined(PiecesOf(n, cut)) = rest[1]
<1>0. n \in Nat /\ \A i \in 1 .. n : cut[i] \in P /\ cut[i].next \in i + 1 .. n + 1 BY DEF GoesOn
<1>1. PICK from \in [1 .. n + 1 -> Seq(P)] : Following(n, cut, from) /\ PiecesOf(n, cut) = from[1]
  BY PiecesAre
<1> DEFINE rest == [i \in 1 .. n + 1 |-> Joined(from[i])]
<1>2. rest \in [1 .. n + 1 -> Seq(S)]
  <2>1. ASSUME NEW i \in 1 .. n + 1 PROVE Joined(from[i]) \in Seq(S)
    <3>1. PICK ps \in Seq(P) : ps = from[i] OBVIOUS
    <3> QED BY <3>1, JoinedPieces
  <2> QED BY <2>1
<1>3. rest[n + 1] = <<>>
  <2>1. n + 1 \in 1 .. n + 1 BY <1>0
  <2> QED BY <1>1, <2>1, JoinedEmpty DEF Following
<1>4. ASSUME NEW i \in 1 .. n PROVE rest[i] = cut[i].text \o rest[cut[i].next]
  <2>1. PICK j \in 1 .. n + 1 : j = cut[i].next
    <3>1. cut[i].next \in 1 .. n + 1 BY <1>0
    <3> QED BY <3>1
  <2>2. PICK p \in P : p = cut[i] BY <1>0
  <2>3. PICK ps \in Seq(P) : ps = from[j] OBVIOUS
  <2>4. from[i] = <<p>> \o ps BY <1>1, <2>1, <2>2, <2>3 DEF Following
  <2>5. Joined(<<p>> \o ps) = p.text \o Joined(ps) BY JoinedPrepend
  <2>6. i \in 1 .. n + 1 BY <1>0
  <2>7. rest[i] = Joined(from[i]) /\ rest[j] = Joined(from[j]) BY <2>6
  <2> QED BY <2>1, <2>2, <2>3, <2>4, <2>5, <2>7, Zenon
<1>5. Joined(PiecesOf(n, cut)) = rest[1]
  <2>1. 1 \in 1 .. n + 1 BY <1>0
  <2> QED BY <1>1, <2>1
<1>6. Remains(n, cut, rest) BY <1>3, <1>4 DEF Remains
<1> QED BY <1>2, <1>5, <1>6

\* Two that go on alike are cut cut the same places.
Alike(us, ws, n, cut, bt) ==
  Len(us) = Len(ws) /\ \A k \in 1 .. Len(us) : \E i \in 1 .. n : us[k] = cut[i] /\ ws[k] = bt[i]

LEMMA AlikePieces ==
  ASSUME NEW n, NEW P, NEW Q, NEW cut, NEW bt, GoesOn(n, cut, P), GoesOn(n, bt, Q),
         \A i \in 1 .. n : cut[i].next = bt[i].next
  PROVE  /\ PiecesOf(n, cut) \in Seq(P) /\ PiecesOf(n, bt) \in Seq(Q)
         /\ Alike(PiecesOf(n, cut), PiecesOf(n, bt), n, cut, bt)
<1>0. /\ n \in Nat
      /\ \A i \in 1 .. n : cut[i] \in P /\ bt[i] \in Q /\ cut[i].next \in i + 1 .. n + 1
  BY DEF GoesOn
<1>1. PICK f \in [1 .. n + 1 -> Seq(P)] : Following(n, cut, f) /\ PiecesOf(n, cut) = f[1]
  BY PiecesAre
<1>2. PICK g \in [1 .. n + 1 -> Seq(Q)] : Following(n, bt, g) /\ PiecesOf(n, bt) = g[1]
  BY PiecesAre
<1> DEFINE A == {i \in 1 .. n + 1 : Alike(f[i], g[i], n, cut, bt)}
<1>3. ASSUME NEW i \in 1 .. n + 1, \A j \in 1 .. n + 1 : j > i => j \in A PROVE i \in A
  <2>1. CASE i = n + 1
    <3>1. f[i] = <<>> /\ g[i] = <<>> BY <1>1, <1>2, <2>1 DEF Following
    <3> QED BY <3>1 DEF Alike
  <2>2. CASE i # n + 1
    <3>1. i \in 1 .. n BY <1>0, <2>2
    <3>2. PICK j \in 1 .. n + 1 : j = cut[i].next /\ j > i
      <4>1. PICK k : k = cut[i].next OBVIOUS
      <4>2. k \in i + 1 .. n + 1 BY <1>0, <3>1, <4>1
      <4>3. k \in 1 .. n + 1 /\ k > i BY <1>0, <3>1, <4>2, Behind
      <4> QED BY <4>1, <4>3
    <3>3. Alike(f[j], g[j], n, cut, bt) BY <1>3, <3>2
    <3>4. PICK us \in Seq(P) : us = f[j] OBVIOUS
    <3>5. PICK ws \in Seq(Q) : ws = g[j] OBVIOUS
    <3>6. PICK a \in P, b \in Q : a = cut[i] /\ b = bt[i] BY <1>0, <3>1
    <3>7. f[i] = <<a>> \o us /\ g[i] = <<b>> \o ws
      BY <1>1, <1>2, <3>1, <3>2, <3>4, <3>5, <3>6 DEF Following
    <3>8. PICK m \in Nat : m = Len(us) /\ m = Len(ws) BY <3>3, <3>4, <3>5 DEF Alike
    <3>9. /\ Len(f[i]) = m + 1 /\ f[i][1] = a /\ \A k \in 1 .. m : f[i][k + 1] = us[k]
          /\ Len(g[i]) = m + 1 /\ g[i][1] = b /\ \A k \in 1 .. m : g[i][k + 1] = ws[k]
      <4>1. Len(<<a>> \o us) = Len(us) + 1 BY Prepended
      <4>a. (<<a>> \o us)[1] = a BY Prepended
      <4>c. \A k \in 1 .. Len(us) : (<<a>> \o us)[k + 1] = us[k]
        BY Prepended
      <4>2. /\ Len(<<b>> \o ws) = Len(ws) + 1 /\ (<<b>> \o ws)[1] = b
            /\ \A k \in 1 .. Len(ws) : (<<b>> \o ws)[k + 1] = ws[k]
        BY Prepended
      <4> QED BY <3>7, <3>8, <4>1, <4>a, <4>c, <4>2, Zenon
    <3>10. ASSUME NEW k \in 1 .. m + 1
           PROVE  \E l \in 1 .. n : f[i][k] = cut[l] /\ g[i][k] = bt[l]
      <4>1. CASE k = 1 BY <3>1, <3>6, <3>9, <4>1
      <4>2. CASE k # 1
        <5>1. PICK h \in 1 .. m : k = h + 1
          <6>1. k - 1 \in 1 .. m BY <4>2
          <6> QED BY <6>1
        <5>2. PICK l \in 1 .. n : us[h] = cut[l] /\ ws[h] = bt[l]
          BY <3>3, <3>4, <3>5, <3>8 DEF Alike
        <5> QED BY <3>9, <5>1, <5>2
      <4> QED BY <4>1, <4>2
    <3> QED BY <3>9, <3>10 DEF Alike
  <2> QED BY <2>1, <2>2
<1>4. \A i \in 1 .. n + 1 : i \in A
  <2> HIDE DEF A
  <2> QED BY <1>0, <1>3, Backwards
<1>5. 1 \in 1 .. n + 1 BY <1>0
<1>6. Alike(f[1], g[1], n, cut, bt) BY <1>4, <1>5
<1> QED BY <1>1, <1>2, <1>5, <1>6
-----------------------------------------------------------------------------
(* What stands for a text, and what it stands for.                         *)
LEMMA OneOf ==
  ASSUME NEW E, NEW e \in E
  PROVE  <<e>> \in Seq(E)
OBVIOUS

LEMMA TwoOf ==
  ASSUME NEW E, NEW d \in E, NEW e \in E
  PROVE  <<d, e>> \in Seq(E)
OBVIOUS

\* What a character stands for.
FilledChar(c) == IF c \in DOMAIN Filling THEN Filling[c] ELSE <<c>>

LEMMA FilledChars ==
  ASSUME NEW t \in Seq(Character)
  PROVE  LET s == [i \in DOMAIN t |-> FilledChar(t[i])]
         IN s \in Seq(Seq(STRING)) /\ Len(s) = Len(t) /\ Filled(t) = FlattenSeq(s)
            /\ Filled(t) \in Seq(STRING)
<1> DEFINE s == [i \in DOMAIN t |-> FilledChar(t[i])]
<1>1. ASSUME NEW c \in Character PROVE FilledChar(c) \in Seq(STRING)
  <2>1. CASE c \in DOMAIN Filling BY <2>1, FillingAssumption DEF FilledChar
  <2>2. CASE c \notin DOMAIN Filling
    <3>1. c \in STRING BY <2>2 DEF Character
    <3>2. <<c>> \in Seq(STRING) BY <3>1, OneOf
    <3> QED BY <2>2, <3>2 DEF FilledChar
  <2> QED BY <2>1, <2>2
<1>2. DOMAIN t = 1 .. Len(t) /\ Len(t) \in Nat /\ \A i \in 1 .. Len(t) : t[i] \in Character
  OBVIOUS
<1>3. s \in Seq(Seq(STRING)) /\ Len(s) = Len(t)
  <2>1. PICK n \in Nat : n = Len(t) BY <1>2
  <2>2. \A i \in 1 .. n : FilledChar(t[i]) \in Seq(STRING) BY <1>1, <1>2, <2>1
  <2>3. s = [i \in 1 .. n |-> FilledChar(t[i])] BY <1>2, <2>1
  <2> QED BY <2>1, <2>2, <2>3
<1>4. Filled(t) = FlattenSeq(s) BY DEF Filled, FilledChar
<1> HIDE DEF s
<1>5. FlattenSeq(s) \in Seq(STRING) BY <1>3, FlatConcat
<1> QED BY <1>3, <1>4, <1>5 DEF s

LEMMA FilledConcat ==
  ASSUME NEW a \in Seq(Character), NEW b \in Seq(Character)
  PROVE  a \o b \in Seq(Character) /\ Filled(a \o b) = Filled(a) \o Filled(b)
<1> DEFINE r == [i \in DOMAIN a |-> FilledChar(a[i])]
           s == [i \in DOMAIN b |-> FilledChar(b[i])]
           ab == a \o b
           t == [i \in DOMAIN ab |-> FilledChar(ab[i])]
<1>1. r \in Seq(Seq(STRING)) /\ Len(r) = Len(a) /\ Filled(a) = FlattenSeq(r) BY FilledChars
<1>2. s \in Seq(Seq(STRING)) /\ Len(s) = Len(b) /\ Filled(b) = FlattenSeq(s) BY FilledChars
<1>3. /\ ab \in Seq(Character) /\ Len(ab) = Len(a) + Len(b)
      /\ \A i \in 1 .. Len(a) + Len(b) : ab[i] = IF i <= Len(a) THEN a[i] ELSE b[i - Len(a)]
  BY ConcatProperties
<1> HIDE DEF ab
<1>4. t \in Seq(Seq(STRING)) /\ Len(t) = Len(ab) /\ Filled(ab) = FlattenSeq(t)
  BY <1>3, FilledChars
<1>5. DOMAIN a = 1 .. Len(a) /\ DOMAIN b = 1 .. Len(b) /\ DOMAIN ab = 1 .. Len(ab)
      /\ Len(a) \in Nat /\ Len(b) \in Nat
  BY <1>3
<1>6. /\ \A i \in 1 .. Len(a) : r[i] = FilledChar(a[i])
      /\ \A i \in 1 .. Len(b) : s[i] = FilledChar(b[i])
      /\ \A i \in 1 .. Len(ab) : t[i] = FilledChar(ab[i])
  BY <1>5
<1> HIDE DEF r, s, t
<1>7. PICK u \in Seq(Seq(STRING)) : u = r \o s BY <1>1, <1>2, ConcatProperties
<1>8. /\ Len(u) = Len(r) + Len(s)
      /\ \A i \in 1 .. Len(r) + Len(s) : u[i] = IF i <= Len(r) THEN r[i] ELSE s[i - Len(r)]
  <2>1. /\ Len(r \o s) = Len(r) + Len(s)
        /\ \A i \in 1 .. Len(r) + Len(s) : (r \o s)[i] = IF i <= Len(r) THEN r[i] ELSE s[i - Len(r)]
    BY <1>1, <1>2, ConcatProperties
  <2> QED BY <1>7, <2>1, Zenon
<1>9. \A i \in 1 .. Len(t) : t[i] = u[i]
  <2> SUFFICES ASSUME NEW i \in 1 .. Len(t) PROVE t[i] = u[i] OBVIOUS
  <2>1. CASE i <= Len(a)
    <3>1. i \in 1 .. Len(a) /\ i \in 1 .. Len(a) + Len(b) /\ i \in 1 .. Len(ab)
      BY <1>3, <1>4, <1>5, <2>1
    <3>2. ab[i] = a[i] BY <1>3, <2>1, <3>1
    <3>3. u[i] = r[i] BY <1>1, <1>2, <1>8, <2>1, <3>1
    <3> QED BY <1>6, <3>1, <3>2, <3>3
  <2>2. CASE ~(i <= Len(a))
    <3>1. PICK j \in 1 .. Len(b) : j = i - Len(a)
      <4>1. i - Len(a) \in 1 .. Len(b) BY <1>3, <1>4, <1>5, <2>2
      <4> QED BY <4>1
    <3>2. i \in 1 .. Len(a) + Len(b) /\ i \in 1 .. Len(ab) BY <1>3, <1>4, <1>5
    <3>3. ab[i] = b[j] BY <1>3, <2>2, <3>1, <3>2
    <3>4. u[i] = s[j] BY <1>1, <1>2, <1>8, <2>2, <3>1, <3>2
    <3> QED BY <1>6, <3>1, <3>2, <3>3, <3>4
  <2> QED BY <2>1, <2>2
<1>10. Len(t) = Len(u) BY <1>1, <1>2, <1>3, <1>4, <1>8
<1>11. t = u BY <1>4, <1>9, <1>10, SeqEqual
<1>12. FlattenSeq(r \o s) = FlattenSeq(r) \o FlattenSeq(s) BY <1>1, <1>2, FlatConcat
<1>13. Filled(ab) = Filled(a) \o Filled(b)
  BY <1>1, <1>2, <1>4, <1>7, <1>11, <1>12, Zenon
<1> QED BY <1>3, <1>13 DEF ab

\* A text without stand-ins stays as it is.
LEMMA FilledString ==
  ASSUME NEW t \in Seq(STRING)
  PROVE  t \in Seq(Character) /\ Filled(t) = t
<1> DEFINE s == [i \in 1 .. Len(t) |-> <<t[i]>>]
<1>1. STRING \subseteq Character BY DEF Character
<1>2. t \in Seq(Character) BY <1>1, SeqMonotonic
<1>3. \A i \in 1 .. Len(t) : t[i] \in STRING /\ t[i] \notin DOMAIN Filling
  BY FillingAssumption
<1>4. DOMAIN t = 1 .. Len(t) OBVIOUS
<1>5. [i \in DOMAIN t |-> FilledChar(t[i])] = s BY <1>3, <1>4 DEF FilledChar
<1>6. Filled(t) = FlattenSeq(s) BY <1>5 DEF Filled, FilledChar
<1> HIDE DEF s
<1>7. FlattenSeq(s) = t BY Singles DEF s
<1> QED BY <1>2, <1>6, <1>7

LEMMA FilledTwice ==
  ASSUME NEW t \in Seq(Character)
  PROVE  Filled(t) \in Seq(STRING) /\ Filled(t) \in Seq(Character) /\ Filled(Filled(t)) = Filled(t)
<1>1. Filled(t) \in Seq(STRING) BY FilledChars
<1> QED BY <1>1, FilledString

\* Filling in what is left of a text, from the back to the front.
FillsIn(n, cut, filled) ==
  \A i \in 1 .. n : filled[i].next = cut[i].next /\ filled[i].text = Filled(cut[i].text)

LEMMA FilledPieces ==
  ASSUME NEW n, NEW P, NEW Q, NEW cut, NEW filled,
         GoesOn(n, cut, P), HaveTexts(P, Character), GoesOn(n, filled, Q), HaveTexts(Q, STRING),
         FillsIn(n, cut, filled)
  PROVE  Joined(PiecesOf(n, filled)) = Filled(Joined(PiecesOf(n, cut)))
<1>0. n \in Nat /\ \A i \in 1 .. n : cut[i] \in P /\ cut[i].next \in i + 1 .. n + 1 BY DEF GoesOn
<1>1. PICK f \in [1 .. n + 1 -> Seq(Character)] :
        Remains(n, cut, f) /\ Joined(PiecesOf(n, cut)) = f[1]
  BY RestIs
<1>2. PICK g \in [1 .. n + 1 -> Seq(STRING)] :
        Remains(n, filled, g) /\ Joined(PiecesOf(n, filled)) = g[1]
  BY RestIs
<1> DEFINE A == {i \in 1 .. n + 1 : g[i] = Filled(f[i])}
<1>3. ASSUME NEW i \in 1 .. n + 1, \A j \in 1 .. n + 1 : j > i => j \in A PROVE i \in A
  <2>1. CASE i = n + 1
    <3>1. f[i] = <<>> /\ g[i] = <<>> BY <1>1, <1>2, <2>1 DEF Remains
    <3>2. <<>> \in Seq(STRING) OBVIOUS
    <3>a. Filled(<<>>) = <<>> BY <3>2, FilledString
    <3> QED BY <3>1, <3>a
  <2>2. CASE i # n + 1
    <3>1. i \in 1 .. n BY <1>0, <2>2
    <3>2. PICK j \in 1 .. n + 1 : j = cut[i].next /\ j > i
      <4>1. PICK k : k = cut[i].next OBVIOUS
      <4>2. k \in i + 1 .. n + 1 BY <1>0, <3>1, <4>1
      <4>3. k \in 1 .. n + 1 /\ k > i BY <1>0, <3>1, <4>2, Behind
      <4> QED BY <4>1, <4>3
    <3>3. g[j] = Filled(f[j]) BY <1>3, <3>2
    <3>4. PICK a \in Seq(Character) : a = cut[i].text BY <1>0, <3>1 DEF HaveTexts
    <3>5. PICK b \in Seq(Character) : b = f[j] OBVIOUS
    <3>6. f[i] = a \o b BY <1>1, <3>1, <3>2, <3>4, <3>5, Zenon DEF Remains
    <3>7. g[i] = Filled(a) \o Filled(b)
      BY <1>2, <3>1, <3>2, <3>3, <3>4, <3>5, Zenon DEF Remains, FillsIn
    <3>8. Filled(a \o b) = Filled(a) \o Filled(b) BY FilledConcat
    <3> QED BY <3>6, <3>7, <3>8
  <2> QED BY <2>1, <2>2
<1>4. \A i \in 1 .. n + 1 : i \in A
  <2> HIDE DEF A
  <2> QED BY <1>0, <1>3, Backwards
<1>5. 1 \in 1 .. n + 1 BY <1>0
<1>6. g[1] = Filled(f[1]) BY <1>4, <1>5
<1> QED BY <1>1, <1>2, <1>6
-----------------------------------------------------------------------------
(* Texts whose special characters are protected.                           *)
\* Where each character of t is in q, where those of chars are protected.
Places(t, chars, q, pos) ==
  /\ pos \in [1 .. Len(t) + 1 -> 1 .. Len(q) + 1]
  /\ pos[1] = 1 /\ pos[Len(t) + 1] = Len(q) + 1
  /\ \A k \in 1 .. Len(t) :
       /\ t[k] \in chars => pos[k + 1] = pos[k] + 2 /\ q[pos[k]] = "\\" /\ q[pos[k] + 1] = t[k]
       /\ t[k] \notin chars => pos[k + 1] = pos[k] + 1 /\ q[pos[k]] = t[k]

LEMMA QuotedIs ==
  ASSUME NEW chars, NEW t \in Seq(STRING)
  PROVE  /\ Quoted(t, chars) \in Seq(STRING)
         /\ \E pos : Places(t, chars, Quoted(t, chars), pos)
<1> DEFINE Protect(c) == IF c \in chars THEN <<"\\", c>> ELSE <<c>>
           s == [i \in DOMAIN t |-> Protect(t[i])]
           q == Quoted(t, chars)
<1>1. PICK n \in Nat : n = Len(t) /\ DOMAIN t = 1 .. n OBVIOUS
<1>2. ASSUME NEW c \in STRING
      PROVE  /\ Protect(c) \in Seq(STRING)
             /\ c \in chars => Len(Protect(c)) = 2 /\ Protect(c)[1] = "\\" /\ Protect(c)[2] = c
             /\ c \notin chars => Len(Protect(c)) = 1 /\ Protect(c)[1] = c
  <2>1. <<c>> \in Seq(STRING) BY OneOf
  <2>2. <<"\\", c>> \in Seq(STRING)
    <3>1. "\\" \in STRING BY ParseAssumption DEF PageSpecial
    <3> QED BY <3>1, TwoOf
  <2> QED BY <2>1, <2>2
<1>3. \A k \in 1 .. n : t[k] \in STRING BY <1>1
<1> HIDE DEF Protect
<1>4. s \in Seq(Seq(STRING)) /\ Len(s) = n /\ \A k \in 1 .. n : s[k] = Protect(t[k])
  <2>1. \A k \in 1 .. n : Protect(t[k]) \in Seq(STRING) BY <1>2, <1>3
  <2>2. s = [k \in 1 .. n |-> Protect(t[k])] BY <1>1
  <2> QED BY <2>1, <2>2
<1>5. q = FlattenSeq(s) BY DEF Quoted, Protect
<1> HIDE DEF s, q
<1>6. PICK f : GrowsBy(n, s, STRING, f)
  <2>1. PICK g \in [0 .. n -> Seq(STRING)] : IsFlat(g, s) BY <1>4, FlatExists
  <2> QED BY <1>4, <2>1 DEF GrowsBy
<1>a. \A m \in 0 .. n : \A k \in 0 .. m :
        Len(f[k]) <= Len(f[m]) /\ \A j \in 1 .. Len(f[k]) : f[m][j] = f[k][j]
  BY <1>6, FlatKeeps
<1>b. f \in [0 .. n -> Seq(STRING)] /\ IsFlat(f, s) BY <1>6 DEF GrowsBy
<1>7. q = f[n] BY <1>4, <1>5, <1>b, FlatIs
<1>8. q \in Seq(STRING) BY <1>7, <1>b
<1>9. \A k \in 0 .. n : Len(f[k]) \in Nat BY <1>b
<1>10. \A k \in 0 .. n :
         Len(f[k]) <= Len(q) /\ \A j \in 1 .. Len(f[k]) : q[j] = f[k][j]
  <2>1. n \in 0 .. n OBVIOUS
  <2> QED BY <1>7, <1>a, <2>1
<1> DEFINE pos == [k \in 1 .. n + 1 |-> Len(f[k - 1]) + 1]
<1>11. \A k \in 0 .. n : pos[k + 1] = Len(f[k]) + 1
  <2>1. \A k \in 0 .. n : k + 1 \in 1 .. n + 1 /\ k + 1 - 1 = k OBVIOUS
  <2> QED BY <2>1
<1>12. DOMAIN pos = 1 .. n + 1 /\ pos = [k \in 1 .. n + 1 |-> pos[k]] OBVIOUS
<1> HIDE DEF pos
<1>13. \A k \in 1 .. n + 1 : pos[k] \in 1 .. Len(q) + 1
  <2> SUFFICES ASSUME NEW k \in 1 .. n + 1 PROVE pos[k] \in 1 .. Len(q) + 1 OBVIOUS
  <2>1. PICK j \in 0 .. n : k = j + 1
    <3>1. k - 1 \in 0 .. n OBVIOUS
    <3> QED BY <3>1
  <2>2. PICK m \in Nat : m = Len(q) BY <1>8
  <2>3. PICK l \in Nat : l = Len(f[j]) BY <1>9
  <2>4. l <= m /\ pos[k] = l + 1 BY <1>10, <1>11, <2>1, <2>2, <2>3
  <2> QED BY <2>2, <2>4
<1>14. pos \in [1 .. n + 1 -> 1 .. Len(q) + 1] BY <1>12, <1>13
<1>15. pos[1] = 1 /\ pos[n + 1] = Len(q) + 1
  <2>1. 0 \in 0 .. n /\ n \in 0 .. n /\ 0 + 1 = 1 OBVIOUS
  <2>2. f[0] = <<>> BY <1>b DEF IsFlat
  <2> QED BY <1>7, <1>11, <2>1, <2>2
<1>16. ASSUME NEW k \in 1 .. n
       PROVE  /\ t[k] \in chars =>
                   pos[k + 1] = pos[k] + 2 /\ q[pos[k]] = "\\" /\ q[pos[k] + 1] = t[k]
              /\ t[k] \notin chars => pos[k + 1] = pos[k] + 1 /\ q[pos[k]] = t[k]
  <2>1. PICK j \in 0 .. n : k = j + 1 /\ k - 1 = j /\ k \in 0 .. n
    <3>1. k - 1 \in 0 .. n OBVIOUS
    <3> QED BY <3>1
  <2>2. PICK a \in Seq(STRING) : a = f[j] BY <1>b
  <2>3. PICK c \in STRING : c = t[k] BY <1>3
  <2>4. PICK b \in Seq(STRING) : b = Protect(c) BY <1>2
  <2>5. f[k] = a \o b BY <1>4, <1>b, <2>1, <2>2, <2>3, <2>4 DEF IsFlat
  <2>6. /\ Len(a \o b) = Len(a) + Len(b) /\ Len(a) \in Nat /\ Len(b) \in Nat
        /\ \A i \in 1 .. Len(a) + Len(b) : (a \o b)[i] = IF i <= Len(a) THEN a[i] ELSE b[i - Len(a)]
    BY ConcatProperties
  <2>7. \A i \in 1 .. Len(b) : q[Len(a) + i] = b[i]
    <3> SUFFICES ASSUME NEW i \in 1 .. Len(b) PROVE q[Len(a) + i] = b[i] OBVIOUS
    <3>1. PICK l \in 1 .. Len(a) + Len(b) : l = Len(a) + i /\ l - Len(a) = i /\ ~(l <= Len(a))
      <4>1. PICK m, h \in Nat : m = Len(a) /\ h = Len(b) BY <2>6
      <4>2. m + i \in 1 .. m + h /\ m + i - m = i /\ ~(m + i <= m) BY <4>1
      <4> QED BY <4>1, <4>2
    <3>2. (a \o b)[l] = b[i] BY <2>6, <3>1
    <3>3. l \in 1 .. Len(f[k]) BY <2>5, <2>6
    <3>4. q[l] = f[k][l] BY <1>10, <2>1, <3>3
    <3> QED BY <2>5, <3>1, <3>2, <3>4
  <2>8. pos[k] = Len(a) + 1 /\ pos[k + 1] = Len(a) + Len(b) + 1
    BY <1>11, <2>1, <2>2, <2>5, <2>6
  <2>9. CASE c \in chars
    <3>1. Len(b) = 2 /\ b[1] = "\\" /\ b[2] = c BY <1>2, <2>4, <2>9
    <3>2. 1 \in 1 .. Len(b) /\ 2 \in 1 .. Len(b) BY <3>1
    <3>3. q[Len(a) + 1] = "\\" /\ q[Len(a) + 2] = c BY <2>7, <3>1, <3>2, Zenon
    <3>4. Len(a) + 1 + 1 = Len(a) + 2 /\ Len(a) + 1 + 2 = Len(a) + 2 + 1 BY <2>6
    <3> QED BY <2>3, <2>8, <2>9, <3>1, <3>3, <3>4, Zenon
  <2>10. CASE c \notin chars
    <3>1. Len(b) = 1 /\ b[1] = c BY <1>2, <2>4, <2>10
    <3>2. 1 \in 1 .. Len(b) BY <3>1
    <3>3. q[Len(a) + 1] = c BY <2>7, <3>1, <3>2, Zenon
    <3> QED BY <2>3, <2>8, <2>10, <3>1, <3>3, Zenon
  <2> QED BY <2>9, <2>10
<1>17. Places(t, chars, q, pos) BY <1>1, <1>14, <1>15, <1>16 DEF Places
<1> QED BY <1>8, <1>17 DEF q

\* Character for character, what is put together is the text.
LEMMA Unquoted ==
  ASSUME NEW S, NEW t \in Seq(S), NEW pos, NEW rest,
         rest[pos[Len(t) + 1]] = <<>>,
         \A k \in 1 .. Len(t) : rest[pos[k]] = <<t[k]>> \o rest[pos[k + 1]]
  PROVE  rest[pos[1]] = t
<1>1. PICK n \in Nat : n = Len(t) OBVIOUS
<1> DEFINE A == {k \in 1 .. n + 1 : rest[pos[k]] = SubSeq(t, k, n)}
<1>2. ASSUME NEW k \in 1 .. n + 1, \A j \in 1 .. n + 1 : j > k => j \in A PROVE k \in A
  <2>1. CASE k = n + 1
    <3>1. SubSeq(t, k, n) = <<>> BY <2>1, SubSeqEmpty
    <3> QED BY <1>1, <2>1, <3>1
  <2>2. CASE k # n + 1
    <3>1. k \in 1 .. n /\ k + 1 \in 1 .. n + 1 /\ k + 1 > k BY <2>2
    <3>2. rest[pos[k + 1]] = SubSeq(t, k + 1, n) BY <1>2, <3>1
    <3>3. k \in 1 .. Len(t) /\ n \in k .. Len(t) BY <1>1, <3>1
    <3>4. SubSeq(t, k, n) = <<t[k]>> \o SubSeq(t, k + 1, n) BY <3>3, SubSeqRecursiveFirst
    <3>5. rest[pos[k]] = <<t[k]>> \o rest[pos[k + 1]] BY <3>3
    <3>6. rest[pos[k]] = SubSeq(t, k, n) BY <3>2, <3>4, <3>5, Zenon
    <3> QED BY <3>6
  <2> QED BY <2>1, <2>2
<1>3. \A k \in 1 .. n + 1 : k \in A
  <2> HIDE DEF A
  <2> QED BY <1>2, Backwards
<1>4. 1 \in 1 .. n + 1 OBVIOUS
<1>5. rest[pos[1]] = SubSeq(t, 1, n) BY <1>3, <1>4
<1> QED BY <1>1, <1>5, SubSeqFull
-----------------------------------------------------------------------------
(* ap_ssi_parse_string: the pieces.                                        *)
LEMMA LeastIs ==
  ASSUME NEW A \in SUBSET Nat, A # {}
  PROVE  Min(A) \in A /\ \A a \in A : Min(A) <= a
<1>1. PICK m \in A : \A a \in A : m <= a BY SmallestIs
<1> QED BY <1>1 DEF Min

LEMMA GreatestIs ==
  ASSUME NEW n \in Nat, NEW A \in SUBSET (0 .. n), A # {}
  PROVE  Max(A) \in A /\ \A a \in A : Max(A) >= a
<1> DEFINE B == {n - a : a \in A}
<1>1. B \in SUBSET Nat /\ B # {}
  <2>1. \A a \in A : n - a \in Nat OBVIOUS
  <2> QED BY <2>1
<1>2. PICK k \in B : \A b \in B : k <= b BY <1>1, SmallestIs
<1>3. PICK l \in A : k = n - l BY <1>2
<1>4. \A a \in A : l >= a
  <2> SUFFICES ASSUME NEW a \in A PROVE l >= a OBVIOUS
  <2>1. n - a \in B OBVIOUS
  <2> HIDE DEF B
  <2>2. n - l <= n - a BY <1>2, <1>3, <2>1
  <2> QED BY <2>2
<1> QED BY <1>4 DEF Max

LEMMA UntilIs ==
  ASSUME NEW t \in Seq(STRING), NEW i \in 1 .. Len(t) + 1, NEW stops
  PROVE  LET end == Until(t, i, stops)
         IN /\ end \in i .. Len(t) + 1
            /\ end = Len(t) + 1 \/ t[end] \in stops
            /\ \A j \in i .. end - 1 : t[j] \notin stops
<1>1. PICK n \in Nat : n = Len(t) OBVIOUS
<1> DEFINE A == {j \in i .. n + 1 : j = n + 1 \/ t[j] \in stops}
<1>2. A \in SUBSET Nat /\ n + 1 \in A BY <1>1
<1>3. Until(t, i, stops) = Min(A) BY <1>1 DEF Until
<1> HIDE DEF A
<1>4. Min(A) \in A /\ \A a \in A : Min(A) <= a BY <1>2, LeastIs
<1>5. PICK m \in A : m = Min(A) BY <1>4
<1>6. m \in i .. n + 1 /\ (m = n + 1 \/ t[m] \in stops) BY DEF A
<1>7. ASSUME NEW j \in i .. m - 1, t[j] \in stops PROVE FALSE
  <2>1. j \in i .. n + 1 /\ ~(m <= j) BY <1>1, <1>6
  <2>2. j \in A BY <1>7, <2>1 DEF A
  <2> QED BY <1>4, <1>5, <2>1, <2>2
<1> QED BY <1>1, <1>3, <1>5, <1>6, <1>7
-----------------------------------------------------------------------------
\* A piece and what it is once its values are filled in.
FillsPart(p, q, i, n) ==
  /\ p \in [text : Seq(STRING), next : i + 1 .. n + 1]
  /\ q \in [text : Seq(Character), next : i + 1 .. n + 1]
  /\ p.next = q.next /\ p.text = Filled(q.text)

LEMMA SamePart ==
  ASSUME NEW text \in Seq(STRING), NEW i, NEW n, NEW next \in i + 1 .. n + 1
  PROVE  FillsPart(Part(text, next), Part(text, next), i, n)
BY FilledString DEF FillsPart, Part

LEMMA ValuePart ==
  ASSUME NEW text \in Seq(Character), NEW i, NEW n, NEW next \in i + 1 .. n + 1
  PROVE  FillsPart(Part(Filled(text), next), Part(text, next), i, n)
BY FilledChars DEF FillsPart, Part

\* The same text, with its values filled in as they are met, and not.
ReadAlike(x, y) == x.fill = TRUE /\ y.fill = FALSE /\ x.leave_name = y.leave_name

LEMMA VariableFills ==
  ASSUME NEW x, NEW y, ReadAlike(x, y), NEW name, NEW left \in Seq(STRING),
         NEW i, NEW n, NEW next \in i + 1 .. n + 1
  PROVE  FillsPart(Variable(x, name, left, next), Variable(y, name, left, next), i, n)
<1>1. CASE name \in DOMAIN Values
  <2>1. PICK value \in Seq(Character) : value = Values[name] BY <1>1, ParseAssumption
  <2>2. /\ Variable(x, name, left, next) = Part(Filled(value), next)
        /\ Variable(y, name, left, next) = Part(value, next)
    BY <1>1, <2>1 DEF Variable, ReadAlike
  <2> QED BY <2>2, ValuePart
<1>2. CASE name \notin DOMAIN Values
  <2>1. <<>> \in Seq(STRING) OBVIOUS
  <2>2. PICK text \in Seq(STRING) : text = IF x.leave_name THEN left ELSE <<>> BY <2>1
  <2>3. /\ Variable(x, name, left, next) = Part(text, next)
        /\ Variable(y, name, left, next) = Part(text, next)
    BY <1>2, <2>2 DEF Variable, ReadAlike
  <2> QED BY <2>3, SamePart
<1> QED BY <1>1, <1>2

LEMMA SpecialStrings == "$" \in STRING /\ "\\" \in STRING
BY ParseAssumption DEF PageSpecial

LEMMA SubText ==
  ASSUME NEW E, NEW t \in Seq(E), NEW i \in 1 .. Len(t) + 1, NEW j \in 0 .. Len(t)
  PROVE  SubSeq(t, i, j) \in Seq(E)
<1>1. \A k \in i .. j : t[k] \in E OBVIOUS
<1> QED BY <1>1, SubSeqProperties

LEMMA DollarFills ==
  ASSUME NEW x, NEW y, ReadAlike(x, y), NEW t \in Seq(STRING), NEW i \in 1 .. Len(t)
  PROVE  FillsPart(Dollar(x, t, i), Dollar(y, t, i), i, Len(t))
<1>1. PICK n \in Nat : n = Len(t) OBVIOUS
<1>2. i \in 1 .. n BY <1>1
<1>3. <<"$">> \in Seq(STRING) BY SpecialStrings, OneOf
<1> DEFINE curly == i < Len(t) /\ t[i + 1] = "{"
           from == IF curly THEN i + 2 ELSE i + 1
           end == IF curly THEN Until(t, from, {"}"}) ELSE Until(t, from, Range(t) \ NameChars)
           next == IF curly THEN end + 1 ELSE end
           name == SubSeq(t, from, end - 1)
           left == SubSeq(t, i, end - 1)
<1>4. from \in i + 1 .. n + 1
  <2>1. i + 1 \in i + 1 .. n + 1 BY <1>2
  <2>2. curly => i < n BY <1>1
  <2> HIDE DEF curly
  <2>3. curly => i + 2 \in i + 1 .. n + 1 BY <1>2, <2>2
  <2> QED BY <2>1, <2>3
<1>5. end \in from .. n + 1
  <2>1. PICK f \in 1 .. Len(t) + 1 : f = from
    <3> HIDE DEF from
    <3>1. from \in 1 .. Len(t) + 1 BY <1>1, <1>2, <1>4
    <3> QED BY <3>1
  <2>2. Until(t, f, {"}"}) \in f .. Len(t) + 1 BY UntilIs
  <2>3. Until(t, f, Range(t) \ NameChars) \in f .. Len(t) + 1 BY UntilIs
  <2> HIDE DEF from, curly
  <2> QED BY <1>1, <2>1, <2>2, <2>3
<1>6. \A z : Dollar(z, t, i) =
               IF curly /\ end > Len(t) THEN Missing(t)
               ELSE IF end = from THEN Part(<<"$">>, i + 1)
               ELSE Variable(z, name, left, next)
  BY DEF Dollar
<1>7. curly => from = i + 2 OBVIOUS
<1>8. next = IF curly THEN end + 1 ELSE end OBVIOUS
<1>9. left \in Seq(STRING)
  <2> HIDE DEF end, from
  <2>1. end - 1 \in 0 .. Len(t) /\ i \in 1 .. Len(t) + 1 BY <1>1, <1>2, <1>4, <1>5
  <2> QED BY <2>1, SubText
<1> HIDE DEF curly, from, end, next, name, left
<1>10. CASE curly /\ end > Len(t)
  <2>1. /\ Dollar(x, t, i) = Part(<<>>, n + 1) /\ Dollar(y, t, i) = Part(<<>>, n + 1)
    BY <1>1, <1>6, <1>10 DEF Missing
  <2>2. n + 1 \in i + 1 .. n + 1 /\ <<>> \in Seq(STRING) BY <1>2
  <2> QED BY <1>1, <2>1, <2>2, SamePart
<1>11. CASE ~(curly /\ end > Len(t)) /\ end = from
  <2>1. Dollar(x, t, i) = Part(<<"$">>, i + 1) /\ Dollar(y, t, i) = Part(<<"$">>, i + 1)
    BY <1>6, <1>11
  <2>2. i + 1 \in i + 1 .. n + 1 BY <1>2
  <2> QED BY <1>1, <1>3, <2>1, <2>2, SamePart
<1>12. CASE ~(curly /\ end > Len(t)) /\ end # from
  <2>1. /\ Dollar(x, t, i) = Variable(x, name, left, next)
        /\ Dollar(y, t, i) = Variable(y, name, left, next)
    BY <1>6, <1>12, Zenon
  <2>2. next \in i + 1 .. n + 1 BY <1>1, <1>2, <1>4, <1>5, <1>8, <1>12
  <2> QED BY <1>1, <1>9, <2>1, <2>2, VariableFills
<1> QED BY <1>10, <1>11, <1>12

LEMMA PartFills ==
  ASSUME NEW x, NEW y, ReadAlike(x, y), NEW t \in Seq(STRING), NEW i \in 1 .. Len(t)
  PROVE  FillsPart(PartAt(x, t, i), PartAt(y, t, i), i, Len(t))
<1>1. PICK n \in Nat : n = Len(t) OBVIOUS
<1>2. i \in 1 .. n BY <1>1
<1>3. <<"$">> \in Seq(STRING) /\ <<"\\">> \in Seq(STRING) BY SpecialStrings, OneOf
<1>4. CASE t[i] = "\\" /\ i < Len(t) /\ t[i + 1] = "$"
  <2>1. PartAt(x, t, i) = Part(<<"$">>, i + 2) /\ PartAt(y, t, i) = Part(<<"$">>, i + 2)
    BY <1>4 DEF PartAt
  <2>2. i + 2 \in i + 1 .. n + 1 BY <1>1, <1>2, <1>4
  <2> QED BY <1>1, <1>3, <2>1, <2>2, SamePart
<1>5. CASE t[i] = "\\" /\ ~(i < Len(t) /\ t[i + 1] = "$")
  <2>1. PartAt(x, t, i) = Part(<<"\\">>, i + 1) /\ PartAt(y, t, i) = Part(<<"\\">>, i + 1)
    BY <1>5 DEF PartAt
  <2>2. i + 1 \in i + 1 .. n + 1 BY <1>2
  <2> QED BY <1>1, <1>3, <2>1, <2>2, SamePart
<1>6. CASE t[i] = "$"
  <2>1. PartAt(x, t, i) = Dollar(x, t, i) /\ PartAt(y, t, i) = Dollar(y, t, i)
    BY <1>6 DEF PartAt
  <2> QED BY <2>1, DollarFills
<1>7. CASE t[i] # "\\" /\ t[i] # "$"
  <2> DEFINE end == Until(t, i, PageSpecial)
  <2>1. /\ PartAt(x, t, i) = Part(SubSeq(t, i, end - 1), end)
        /\ PartAt(y, t, i) = Part(SubSeq(t, i, end - 1), end)
    BY <1>7 DEF PartAt
  <2>2. i \in 1 .. Len(t) + 1 BY <1>1, <1>2
  <2>3. end \in i .. n + 1 /\ (end = n + 1 \/ t[end] \in PageSpecial)
    BY <1>1, <2>2, UntilIs
  <2> HIDE DEF end
  <2>4. end \in i + 1 .. n + 1 BY <1>2, <1>7, <2>3 DEF PageSpecial
  <2>5. end - 1 \in 0 .. Len(t) BY <1>1, <1>2, <2>4
  <2>6. SubSeq(t, i, end - 1) \in Seq(STRING) BY <2>2, <2>5, SubText
  <2> QED BY <1>1, <2>1, <2>4, <2>6, SamePart
<1> QED BY <1>4, <1>5, <1>6, <1>7
-----------------------------------------------------------------------------
(* ap_ssi_parse_string: what is taken up of them.                          *)
Starts(a, b) == Len(a) <= Len(b) /\ \A j \in 1 .. Len(a) : a[j] = b[j]

LEMMA FirstIs ==
  ASSUME NEW E, NEW s \in Seq(E), NEW n \in Nat
  PROVE  /\ First(s, n) \in Seq(E) /\ Starts(First(s, n), s)
         /\ Len(First(s, n)) = IF n <= Len(s) THEN n ELSE Len(s)
         /\ n <= Len(s) => First(s, n) = SubSeq(s, 1, n)
         /\ n >= Len(s) => First(s, n) = s
<1>1. PICK m \in Nat : m = Len(s) OBVIOUS
<1> DEFINE A == {n, m}
<1>2. A \in SUBSET Nat /\ A # {} OBVIOUS
<1>3. PICK k \in A : k = Min(A) /\ k <= n /\ k <= m
  <2> HIDE DEF A
  <2>1. Min(A) \in A /\ \A a \in A : Min(A) <= a BY <1>2, LeastIs
  <2> QED BY <2>1 DEF A
<1>4. First(s, n) = SubSeq(s, 1, k) BY <1>1, <1>3 DEF First
<1>5. k \in Nat /\ k <= Len(s) /\ k = (IF n <= m THEN n ELSE m) BY <1>1, <1>3
<1>6. /\ SubSeq(s, 1, k) \in Seq(E) /\ Len(SubSeq(s, 1, k)) = k
      /\ \A j \in 1 .. k : SubSeq(s, 1, k)[j] = s[j]
  BY <1>5, Shorter
<1>7. SubSeq(s, 1, m) = s BY <1>1, SubSeqFull
<1>8. First(s, n) \in Seq(E) /\ Len(First(s, n)) = k /\ Starts(First(s, n), s)
  BY <1>4, <1>5, <1>6 DEF Starts
<1>9. n <= m => First(s, n) = SubSeq(s, 1, n) BY <1>4, <1>5
<1>10. n >= m => First(s, n) = s
  <2>1. n >= m => k = m BY <1>5
  <2> QED BY <1>4, <1>7, <2>1
<1> QED BY <1>1, <1>5, <1>8, <1>9, <1>10

LEMMA StartsOn ==
  ASSUME NEW E, NEW a \in Seq(E), NEW b \in Seq(E), NEW c \in Seq(E), Starts(a, b), Starts(b, c)
  PROVE  Starts(a, c)
<1>1. Len(a) \in Nat /\ Len(b) \in Nat /\ Len(c) \in Nat OBVIOUS
<1>2. Len(a) <= Len(b) /\ Len(b) <= Len(c) BY DEF Starts
<1>3. \A j \in 1 .. Len(a) : j \in 1 .. Len(b) BY <1>1, <1>2
<1>4. \A j \in 1 .. Len(a) : a[j] = b[j] /\ b[j] = c[j] BY <1>3 DEF Starts
<1> QED BY <1>1, <1>2, <1>4 DEF Starts

LEMMA StartsPrefix ==
  ASSUME NEW E, NEW a \in Seq(E), NEW b \in Seq(E), Starts(a, b)
  PROVE  IsPrefix(a, b)
<1>1. PICK n \in Nat : n = Len(a) /\ n <= Len(b) BY DEF Starts
<1>2. /\ SubSeq(b, 1, n) \in Seq(E) /\ Len(SubSeq(b, 1, n)) = n
      /\ \A k \in 1 .. n : SubSeq(b, 1, n)[k] = b[k]
  BY <1>1, Shorter
<1>3. SubSeq(a, 1, n) = a BY <1>1, SubSeqFull
<1>4. \A k \in 1 .. n : a[k] = b[k] BY <1>1 DEF Starts
<1>5. \A k \in 1 .. n : a[k] = SubSeq(b, 1, n)[k] BY <1>2, <1>4
<1>6. a = SubSeq(b, 1, n)
  <2>1. PICK c \in Seq(E) : c = SubSeq(b, 1, n) BY <1>2
  <2>2. Len(a) = Len(c) /\ \A k \in 1 .. Len(a) : a[k] = c[k] BY <1>1, <1>2, <1>5, <2>1
  <2>3. a = c BY <2>2, SeqEqual
  <2> QED BY <2>1, <2>3
<1> QED BY <1>1, <1>3, <1>6 DEF IsPrefix

\* The first pieces make the beginning of what all of them make.
LEMMA FirstPieces ==
  ASSUME NEW S, NEW P, HaveTexts(P, S), NEW ps \in Seq(P), NEW k \in Nat
  PROVE  /\ First(ps, k) \in Seq(P)
         /\ Joined(First(ps, k)) \in Seq(S) /\ Joined(ps) \in Seq(S)
         /\ Starts(Joined(First(ps, k)), Joined(ps))
<1> DEFINE s == [i \in DOMAIN ps |-> ps[i].text]
           qs == First(ps, k)
           t == [i \in DOMAIN qs |-> qs[i].text]
<1>1. PICK n \in Nat : n = Len(ps) OBVIOUS
<1>2. PICK m \in 0 .. n : m = IF k <= n THEN k ELSE n
  <2>1. (IF k <= n THEN k ELSE n) \in 0 .. n OBVIOUS
  <2> QED BY <2>1
<1>3. qs \in Seq(P) /\ Len(qs) = m /\ \A i \in 1 .. m : qs[i] = ps[i]
  BY <1>1, <1>2, FirstIs DEF Starts
<1> HIDE DEF qs
<1>4. s \in Seq(Seq(S)) /\ Len(s) = n BY <1>1, JoinedPieces
<1>5. t \in Seq(Seq(S)) /\ Len(t) = m BY <1>3, JoinedPieces
<1>6. \A i \in 1 .. m : t[i] = s[i]
  <2>1. DOMAIN ps = 1 .. n /\ DOMAIN qs = 1 .. m BY <1>1, <1>3
  <2>2. \A i \in 1 .. m : i \in 1 .. n OBVIOUS
  <2> QED BY <1>3, <2>1, <2>2
<1>7. Joined(ps) = FlattenSeq(s) /\ Joined(qs) = FlattenSeq(t) BY DEF Joined
<1> HIDE DEF s, t
<1>8. PICK f : GrowsBy(n, s, S, f)
  <2>1. PICK g \in [0 .. n -> Seq(S)] : IsFlat(g, s) BY <1>4, FlatExists
  <2> QED BY <1>4, <2>1 DEF GrowsBy
<1>9. \A i \in 0 .. n : \A j \in 0 .. i :
        Len(f[j]) <= Len(f[i]) /\ \A l \in 1 .. Len(f[j]) : f[i][l] = f[j][l]
  BY <1>8, FlatKeeps
<1>10. f \in [0 .. n -> Seq(S)] /\ IsFlat(f, s) BY <1>8 DEF GrowsBy
<1>11. FlattenSeq(s) = f[n] BY <1>4, <1>10, FlatIs
<1>12. FlattenSeq(t) = f[m]
  <2>1. IsFlat(f, t)
    <3>1. \A i \in 1 .. m : i \in 1 .. n OBVIOUS
    <3> QED BY <1>4, <1>5, <1>6, <1>10, <3>1 DEF IsFlat
  <2> QED BY <1>5, <2>1, FlatIs
<1>13. n \in 0 .. n /\ m \in 0 .. n OBVIOUS
<1>14. Starts(f[m], f[n]) BY <1>9, <1>13 DEF Starts
<1>15. f[m] \in Seq(S) /\ f[n] \in Seq(S) BY <1>10, <1>13
<1> QED BY <1>3, <1>7, <1>11, <1>12, <1>14, <1>15 DEF qs

LEMMA OverrunsMeans ==
  ASSUME NEW S, NEW P, HaveTexts(P, S), NEW ps \in Seq(P), NEW limit \in Nat, NEW first \in Nat,
         Overruns(ps, limit, first)
  PROVE  Length(ps) > limit
<1>1. PICK n \in DOMAIN ps : Length(First(ps, n)) > limit BY DEF Overruns
<1>2. n \in Nat OBVIOUS
<1>3. PICK a, b \in Seq(S) : a = Joined(First(ps, n)) /\ b = Joined(ps) /\ Starts(a, b)
  BY <1>2, FirstPieces
<1>4. Len(a) > limit /\ Len(a) <= Len(b) /\ Len(a) \in Nat /\ Len(b) \in Nat
  BY <1>1, <1>3 DEF Length, Starts
<1> QED BY <1>3, <1>4 DEF Length

\* What is taken up: all of it, or as much as there is room for.
LEMMA TakenIs ==
  ASSUME NEW S, NEW P, HaveTexts(P, S), NEW ps \in Seq(P), NEW limited \in BOOLEAN, NEW room \in Int
  PROVE  LET taken == TakenUp(ps, limited, room)
         IN /\ taken \in Seq(P) /\ Joined(taken) \in Seq(S) /\ Joined(ps) \in Seq(S)
            /\ Starts(Joined(taken), Joined(ps))
            /\ taken = ps \/ (limited /\ Length(taken) >= room)
<1> DEFINE A == {n \in 0 .. Len(ps) : n = 0 \/ ~limited \/ Length(First(ps, n - 1)) < room}
           taken == TakenUp(ps, limited, room)
<1>1. PICK m \in Nat : m = Len(ps) OBVIOUS
<1>2. A \in SUBSET (0 .. m) /\ 0 \in A BY <1>1
<1>3. taken = First(ps, Max(A)) BY DEF TakenUp
<1>4. \A n \in 0 .. m : n \in A <=> (n = 0 \/ ~limited \/ Length(First(ps, n - 1)) < room)
  BY <1>1
<1> HIDE DEF A, taken
<1>5. Max(A) \in A /\ \A a \in A : Max(A) >= a BY <1>2, GreatestIs
<1>6. PICK n \in 0 .. m : n = Max(A) /\ n \in A BY <1>2, <1>5
<1>7. n \in Nat OBVIOUS
<1>8. /\ taken \in Seq(P) /\ Joined(taken) \in Seq(S) /\ Joined(ps) \in Seq(S)
      /\ Starts(Joined(taken), Joined(ps))
  BY <1>3, <1>6, <1>7, FirstPieces
<1>9. CASE n = m
  <2>1. taken = ps BY <1>1, <1>3, <1>6, <1>7, <1>9, FirstIs
  <2> QED BY <1>8, <2>1 DEF taken
<1>10. CASE n # m
  <2>1. n + 1 \in 0 .. m /\ n + 1 # 0 /\ n + 1 - 1 = n /\ ~(n >= n + 1) BY <1>10
  <2>2. n + 1 \notin A BY <1>5, <1>6, <2>1
  <2>3. limited /\ ~(Length(First(ps, n)) < room) BY <1>4, <2>1, <2>2
  <2>4. Length(taken) \in Nat BY <1>8 DEF Length
  <2>5. Length(taken) >= room BY <1>3, <1>6, <2>3, <2>4
  <2> QED BY <1>8, <2>3, <2>5 DEF taken
<1> QED BY <1>9, <1>10

PartOf(E) == [text : Seq(E), next : Nat]
PartsAt(x, t) == [i \in 1 .. Len(t) |-> PartAt(x, t, i)]

LEMMA PartTexts == \A E : HaveTexts(PartOf(E), E)
BY DEF HaveTexts, PartOf

\* What is taken up of the pieces of a text.
LEMMA PartsTaken ==
  ASSUME NEW E, NEW ps \in Seq(PartOf(E)), NEW limited \in BOOLEAN, NEW room \in Int
  PROVE  /\ TakenUp(ps, limited, room) \in Seq(PartOf(E))
         /\ Joined(TakenUp(ps, limited, room)) \in Seq(E) /\ Joined(ps) \in Seq(E)
         /\ Starts(Joined(TakenUp(ps, limited, room)), Joined(ps))
         /\ \/ TakenUp(ps, limited, room) = ps
            \/ limited /\ Length(TakenUp(ps, limited, room)) >= room
<1>1. PICK P : P = PartOf(E) OBVIOUS
<1>2. HaveTexts(P, E) /\ ps \in Seq(P) BY <1>1, PartTexts
<1>3. LET taken == TakenUp(ps, limited, room)
      IN /\ taken \in Seq(P) /\ Joined(taken) \in Seq(E) /\ Joined(ps) \in Seq(E)
         /\ Starts(Joined(taken), Joined(ps))
         /\ taken = ps \/ (limited /\ Length(taken) >= room)
  BY <1>2, TakenIs
<1> QED BY <1>1, <1>3

LEMMA PartsOverrun ==
  ASSUME NEW E, NEW ps \in Seq(PartOf(E)), NEW limit \in Nat, NEW first \in Nat,
         Overruns(ps, limit, first)
  PROVE  Length(ps) > limit
BY PartTexts, OverrunsMeans

LEMMA PartsGoOn ==
  ASSUME NEW x, NEW y, ReadAlike(x, y), NEW t \in Seq(STRING)
  PROVE  /\ GoesOn(Len(t), PartsAt(x, t), PartOf(STRING))
         /\ GoesOn(Len(t), PartsAt(y, t), PartOf(Character))
         /\ FillsIn(Len(t), PartsAt(y, t), PartsAt(x, t))
<1>1. PICK n \in Nat : n = Len(t) OBVIOUS
<1>2. ASSUME NEW i \in 1 .. n
      PROVE  /\ PartsAt(x, t)[i] \in PartOf(STRING) /\ PartsAt(y, t)[i] \in PartOf(Character)
             /\ PartsAt(x, t)[i].next \in i + 1 .. n + 1
             /\ PartsAt(y, t)[i].next \in i + 1 .. n + 1
             /\ PartsAt(x, t)[i].next = PartsAt(y, t)[i].next
             /\ PartsAt(x, t)[i].text = Filled(PartsAt(y, t)[i].text)
  <2>1. FillsPart(PartAt(x, t, i), PartAt(y, t, i), i, n) BY <1>1, PartFills
  <2>2. PartsAt(x, t)[i] = PartAt(x, t, i) /\ PartsAt(y, t)[i] = PartAt(y, t, i)
    BY <1>1 DEF PartsAt
  <2>3. i + 1 .. n + 1 \subseteq Nat OBVIOUS
  <2> QED BY <2>1, <2>2, <2>3 DEF FillsPart, PartOf
<1>3. PartsAt(x, t) = [i \in 1 .. n |-> PartsAt(x, t)[i]] BY <1>1 DEF PartsAt
<1>4. PartsAt(y, t) = [i \in 1 .. n |-> PartsAt(y, t)[i]] BY <1>1 DEF PartsAt
<1>5. PartsAt(x, t) \in [1 .. n -> PartOf(STRING)] BY <1>2, <1>3
<1>6. PartsAt(y, t) \in [1 .. n -> PartOf(Character)] BY <1>2, <1>4
<1> QED BY <1>1, <1>2, <1>5, <1>6 DEF GoesOn, FillsIn

LEMMA PartsType ==
  ASSUME NEW x, NEW y, ReadAlike(x, y), NEW t \in Seq(STRING)
  PROVE  /\ Parts(x, t) \in Seq(PartOf(STRING)) /\ Parts(y, t) \in Seq(PartOf(Character))
         /\ Joined(Parts(x, t)) \in Seq(STRING) /\ Joined(Parts(y, t)) \in Seq(Character)
         /\ Joined(Parts(x, t)) = Filled(Joined(Parts(y, t)))
<1>1. /\ GoesOn(Len(t), PartsAt(x, t), PartOf(STRING))
      /\ GoesOn(Len(t), PartsAt(y, t), PartOf(Character))
      /\ FillsIn(Len(t), PartsAt(y, t), PartsAt(x, t))
  BY PartsGoOn
<1>2. /\ Parts(x, t) = PiecesOf(Len(t), PartsAt(x, t))
      /\ Parts(y, t) = PiecesOf(Len(t), PartsAt(y, t))
  BY DEF Parts, PartsAt
<1>3. \A i \in 1 .. Len(t) : PartsAt(x, t)[i].next = PartsAt(y, t)[i].next
  BY <1>1 DEF FillsIn
<1>4. Parts(x, t) \in Seq(PartOf(STRING)) /\ Parts(y, t) \in Seq(PartOf(Character))
  BY <1>1, <1>2, <1>3, AlikePieces
<1>5. Joined(Parts(x, t)) \in Seq(STRING) /\ Joined(Parts(y, t)) \in Seq(Character)
  BY <1>4, PartTexts, JoinedPieces
<1>6. Joined(Parts(x, t)) = Filled(Joined(Parts(y, t)))
  BY <1>1, <1>2, PartTexts, FilledPieces
<1> QED BY <1>4, <1>5, <1>6

\* How a call reads, and how it reads without the values.
LEMMA ReadsAre == \A c : ReadAlike(Reads(TRUE, c), Reads(FALSE, c))
BY DEF ReadAlike, Reads

\* A call with any text.
AnyCalls == {c \in [in : Seq(STRING), out : BOOLEAN, length : Nat, leave_name : BOOLEAN] :
               c.out => c.length > 0}

LEMMA CallsAny == Calls \subseteq AnyCalls
BY ParseAssumption DEF Calls, AnyCalls

LEMMA CallType ==
  ASSUME NEW c \in AnyCalls
  PROVE  /\ c.in \in Seq(STRING) /\ c.out \in BOOLEAN /\ c.length \in Nat
         /\ c.out => c.length > 0
         /\ Unlimited(c).in = c.in /\ Unlimited(c).out = FALSE /\ Unlimited(c).length = 0
BY DEF AnyCalls, Unlimited

\* Without a limit it is all of the pieces.
LEMMA WholeIs ==
  ASSUME NEW c \in AnyCalls
  PROVE  /\ Whole(TRUE, c) = IF IsPlain(c.in) THEN c.in ELSE Joined(Parts(Reads(TRUE, c), c.in))
         /\ Whole(FALSE, c) = IF IsPlain(c.in) THEN c.in ELSE Joined(Parts(Reads(FALSE, c), c.in))
<1> DEFINE u == Unlimited(c)
<1>1. u.in = c.in /\ u.out = FALSE /\ u.length = 0 /\ c.in \in Seq(STRING) BY CallType
<1> HIDE DEF u
<1>2. ASSUME IsPlain(c.in), NEW x PROVE ParsedWith(x, u).text = c.in
  <2>1. ~(u.out \/ (u.length > 0 /\ u.length <= Len(u.in))) BY <1>1
  <2>2. Plain(u).text = u.in BY <2>1 DEF Plain
  <2> QED BY <1>1, <1>2, <2>2 DEF ParsedWith
<1>3. ASSUME ~IsPlain(c.in), NEW x, NEW E, Parts(x, c.in) \in Seq(PartOf(E))
      PROVE  ParsedWith(x, u).text = Joined(Parts(x, c.in))
  <2>1. PICK ps \in Seq(PartOf(E)) : ps = Parts(x, c.in) BY <1>3
  <2>2. ParsedWith(x, u) = IntoPool(x, u) BY <1>1, <1>3 DEF ParsedWith
  <2>3. TakenUp(ps, FALSE, 0) = ps
    <3>1. FALSE \in BOOLEAN /\ 0 \in Int OBVIOUS
    <3> QED BY <2>1, <3>1, PartsTaken
  <2>4. PICK text \in Seq(E) : text = Joined(ps) BY PartTexts, JoinedPieces
  <2>5. Cut(Length(ps), 0) = Len(text) BY <2>4 DEF Cut, Length
  <2>6. First(text, Len(text)) = text BY FirstIs
  <2>7. IntoPool(x, u).text = First(Joined(TakenUp(ps, FALSE, 0)),
                                    Cut(Length(TakenUp(ps, FALSE, 0)), 0))
    <3>1. (u.length > 0) = FALSE BY <1>1
    <3> QED BY <1>1, <2>1, <3>1 DEF IntoPool
  <2>8. IntoPool(x, u).text = text BY <2>3, <2>4, <2>5, <2>6, <2>7, Zenon
  <2> QED BY <2>1, <2>2, <2>4, <2>8
<1>4. /\ Parts(Reads(TRUE, c), c.in) \in Seq(PartOf(STRING))
      /\ Parts(Reads(FALSE, c), c.in) \in Seq(PartOf(Character))
  BY <1>1, ReadsAre, PartsType
<1>5. \A fill : Whole(fill, c) = ParsedWith(Reads(fill, c), u).text BY DEF Whole, u
<1>6. CASE IsPlain(c.in) BY <1>2, <1>5, <1>6
<1>7. CASE ~IsPlain(c.in) BY <1>3, <1>4, <1>5, <1>7
<1> QED BY <1>6, <1>7

\* Every limit but cuts.
LEMMA BufferCuts ==
  ASSUME NEW c \in AnyCalls, ~IsPlain(c.in), c.out, NEW x, x.measures \in BOOLEAN,
         Parts(x, c.in) \in Seq(PartOf(STRING))
  PROVE  LET whole == Joined(Parts(x, c.in))
             result == IntoBuffer(x, c)
         IN /\ result.past => ~x.measures /\ Len(whole) >= c.length
            /\ IsPrefix(result.text, whole)
            /\ Len(result.text) = Min({Len(whole), c.length - 1})
<1>1. c.length \in Nat /\ c.length > 0 BY CallType
<1>2. PICK room \in Nat : room = c.length - 1 /\ room = End(c) BY <1>1 DEF End
<1> DEFINE ps == Parts(x, c.in)
           taken == TakenUp(ps, TRUE, room)
           first == IF c.in[1] \in PageSpecial THEN 1 ELSE 2
<1>3. /\ taken \in Seq(PartOf(STRING)) /\ Joined(taken) \in Seq(STRING) /\ Joined(ps) \in Seq(STRING)
      /\ Starts(Joined(taken), Joined(ps))
      /\ taken = ps \/ Length(taken) >= room
  <2>1. PICK qs \in Seq(PartOf(STRING)) : qs = ps OBVIOUS
  <2>2. TRUE \in BOOLEAN /\ room \in Int OBVIOUS
  <2> QED BY <2>1, <2>2, PartsTaken
<1>4. /\ IntoBuffer(x, c).text = First(Joined(taken), room)
      /\ IntoBuffer(x, c).past = (~x.measures /\ Overruns(taken, c.length, first))
  BY <1>2 DEF IntoBuffer
<1>5. first \in Nat OBVIOUS
<1> HIDE DEF ps, first, taken
<1>6. PICK a, b \in Seq(STRING) : a = Joined(taken) /\ b = Joined(ps) BY <1>3
<1>7. Starts(a, b) /\ (taken = ps => a = b) /\ (taken # ps => Len(a) >= room)
  BY <1>3, <1>6 DEF Length
<1>8. PICK r \in Seq(STRING) :
        /\ r = First(a, room) /\ Starts(r, a)
        /\ Len(r) = IF room <= Len(a) THEN room ELSE Len(a)
  BY FirstIs
<1>9. PICK l, m \in Nat : l = Len(a) /\ m = Len(b) /\ l <= m BY <1>7 DEF Starts
<1>10. Starts(r, b) BY <1>7, <1>8, StartsOn
<1>11. IsPrefix(r, b) BY <1>10, StartsPrefix
<1>12. Len(r) = Min({Len(b), c.length - 1})
  <2> DEFINE A == {m, room}
  <2>1. A \in SUBSET Nat /\ A # {} OBVIOUS
  <2> HIDE DEF A
  <2>2. Min(A) \in A /\ \A i \in A : Min(A) <= i BY <2>1, LeastIs
  <2>3. Min(A) = IF m <= room THEN m ELSE room BY <2>2 DEF A
  <2>4. Len(r) = IF m <= room THEN m ELSE room BY <1>6, <1>7, <1>8, <1>9
  <2> QED BY <1>2, <1>9, <2>3, <2>4 DEF A
<1>13. Overruns(taken, c.length, first) => Len(b) >= c.length
  <2> SUFFICES ASSUME Overruns(taken, c.length, first) PROVE Len(b) >= c.length OBVIOUS
  <2>1. Length(taken) > c.length BY <1>1, <1>3, <1>5, PartsOverrun
  <2> QED BY <1>1, <1>6, <1>9, <2>1 DEF Length
<1> QED BY <1>4, <1>6, <1>8, <1>11, <1>12, <1>13 DEF ps

LEMMA PoolCuts ==
  ASSUME NEW c \in AnyCalls, ~IsPlain(c.in), ~c.out, NEW x, x.measures \in BOOLEAN,
         Parts(x, c.in) \in Seq(PartOf(STRING))
  PROVE  LET whole == Joined(Parts(x, c.in))
             result == IntoPool(x, c)
         IN /\ result.past => ~x.measures /\ Len(whole) >= c.length
            /\ IsPrefix(result.text, whole)
            /\ c.length > 0 =>
                 \/ result.text = whole /\ Len(whole) <= c.length
                 \/ Len(result.text) \in {c.length - 1, c.length}
<1>1. PICK length \in Nat : length = c.length BY CallType
<1> DEFINE ps == Parts(x, c.in)
           limited == length > 0
           taken == TakenUp(ps, limited, length)
           outlen == Cut(Length(taken), length)
<1>2. limited \in BOOLEAN OBVIOUS
<1> HIDE DEF limited
<1>3. /\ taken \in Seq(PartOf(STRING)) /\ Joined(taken) \in Seq(STRING) /\ Joined(ps) \in Seq(STRING)
      /\ Starts(Joined(taken), Joined(ps))
      /\ taken = ps \/ (limited /\ Length(taken) >= length)
  <2>1. PICK qs \in Seq(PartOf(STRING)) : qs = ps OBVIOUS
  <2>2. length \in Int OBVIOUS
  <2>3. /\ TakenUp(qs, limited, length) \in Seq(PartOf(STRING))
        /\ Joined(TakenUp(qs, limited, length)) \in Seq(STRING) /\ Joined(qs) \in Seq(STRING)
        /\ Starts(Joined(TakenUp(qs, limited, length)), Joined(qs))
        /\ \/ TakenUp(qs, limited, length) = qs
           \/ limited /\ Length(TakenUp(qs, limited, length)) >= length
    BY <1>2, <2>2, PartsTaken
  <2> QED BY <2>1, <2>3
<1>4. /\ IntoPool(x, c).text = First(Joined(taken), outlen)
      /\ IntoPool(x, c).past = (~x.measures /\ Overruns(taken, outlen + 1, 1))
  BY <1>1 DEF IntoPool, limited
<1> HIDE DEF ps, taken
<1>5. PICK a, b \in Seq(STRING) : a = Joined(taken) /\ b = Joined(ps) BY <1>3
<1>6. /\ Starts(a, b) /\ Length(taken) = Len(a)
      /\ (taken = ps => a = b) /\ (taken # ps => length > 0 /\ Len(a) >= length)
  BY <1>3, <1>5 DEF Length, limited
<1>7. PICK l, m \in Nat : l = Len(a) /\ m = Len(b) /\ l <= m BY <1>6 DEF Starts
<1>8. PICK o \in Nat : o = outlen /\ o = IF length > 0 /\ l > length THEN length - 1 ELSE l
  BY <1>6, <1>7 DEF Cut
<1> HIDE DEF outlen
<1>9. PICK r \in Seq(STRING) :
        r = First(a, o) /\ Starts(r, a) /\ Len(r) = o /\ (o >= Len(a) => r = a)
  BY <1>7, <1>8, FirstIs
<1>10. Starts(r, b) BY <1>6, <1>9, StartsOn
<1>11. IsPrefix(r, b) BY <1>10, StartsPrefix
<1>12. Overruns(taken, o + 1, 1) => Len(b) >= length
  <2> SUFFICES ASSUME Overruns(taken, o + 1, 1) PROVE Len(b) >= length OBVIOUS
  <2>1. Length(taken) > o + 1 BY <1>3, PartsOverrun
  <2> QED BY <1>6, <1>7, <1>8, <2>1
<1>13. length > 0 => \/ r = b /\ Len(b) <= length
                     \/ Len(r) \in {length - 1, length}
  BY <1>6, <1>7, <1>8, <1>9
<1> QED BY <1>1, <1>4, <1>5, <1>8, <1>9, <1>11, <1>12, <1>13 DEF ps

LEMMA PlainCuts ==
  ASSUME NEW c \in AnyCalls
  PROVE  /\ Plain(c).past = FALSE /\ IsPrefix(Plain(c).text, c.in)
         /\ c.out => Len(Plain(c).text) = Min({Len(c.in), c.length - 1})
         /\ ~c.out /\ c.length > 0 =>
              \/ Plain(c).text = c.in /\ Len(c.in) <= c.length
              \/ Len(Plain(c).text) \in {c.length - 1, c.length}
<1>1. PICK in \in Seq(STRING), length \in Nat : in = c.in /\ length = c.length BY CallType
<1>2. c.out => length > 0 BY <1>1, CallType
<1>3. PICK m \in Nat : m = Len(in) OBVIOUS
<1> DEFINE short == c.out \/ (length > 0 /\ length <= m)
<1>4. Plain(c).past = FALSE /\ Plain(c).text = IF short THEN First(in, length - 1) ELSE in
  BY <1>1, <1>3 DEF Plain
<1>5. short => length - 1 \in Nat /\ length > 0 BY <1>2
<1>6. short => \A k \in Nat : k = length - 1 =>
        /\ First(in, k) \in Seq(STRING) /\ Starts(First(in, k), in)
        /\ Len(First(in, k)) = IF k <= m THEN k ELSE m
  BY <1>3, FirstIs
<1>7. PICK r \in Seq(STRING) :
        /\ r = Plain(c).text /\ Starts(r, in)
        /\ short => Len(r) = IF length - 1 <= m THEN length - 1 ELSE m
        /\ ~short => r = in
  <2>1. CASE short BY <1>4, <1>5, <1>6, <2>1
  <2>2. CASE ~short BY <1>3, <1>4, <2>2 DEF Starts
  <2> QED BY <2>1, <2>2
<1>8. IsPrefix(r, in) BY <1>7, StartsPrefix
<1>9. c.out => Len(r) = Min({m, length - 1})
  <2> SUFFICES ASSUME c.out PROVE Len(r) = Min({m, length - 1}) OBVIOUS
  <2>1. PICK k \in Nat : k = length - 1 BY <1>5
  <2> DEFINE A == {m, k}
  <2>2. A \in SUBSET Nat /\ A # {} OBVIOUS
  <2> HIDE DEF A
  <2>3. Min(A) \in A /\ \A i \in A : Min(A) <= i BY <2>2, LeastIs
  <2>4. Min(A) = IF k <= m THEN k ELSE m BY <2>3 DEF A
  <2>5. Len(r) = IF k <= m THEN k ELSE m BY <1>7, <2>1
  <2> QED BY <2>1, <2>4, <2>5 DEF A
<1>10. ~c.out /\ length > 0 => \/ r = in /\ m <= length
                               \/ Len(r) \in {length - 1, length}
  BY <1>7
<1> QED BY <1>1, <1>3, <1>4, <1>7, <1>8, <1>9, <1>10

\* A call read as it is: whatever its limit, the limit only cuts.
LEMMA CallCuts ==
  ASSUME NEW c \in AnyCalls, parse_copy.measures \in BOOLEAN
  PROVE  /\ ParsedWith(Reads(TRUE, c), c).past =>
              ~parse_copy.measures /\ Len(Whole(TRUE, c)) >= c.length
         /\ IsPrefix(ParsedWith(Reads(TRUE, c), c).text, Whole(TRUE, c))
         /\ c.out => Len(ParsedWith(Reads(TRUE, c), c).text) = Min({Len(Whole(TRUE, c)), c.length - 1})
         /\ ~c.out /\ c.length > 0 =>
              \/ ParsedWith(Reads(TRUE, c), c).text = Whole(TRUE, c) /\ Len(Whole(TRUE, c)) <= c.length
              \/ Len(ParsedWith(Reads(TRUE, c), c).text) \in {c.length - 1, c.length}
<1>1. PICK x, y : x = Reads(TRUE, c) /\ y = Reads(FALSE, c) /\ ReadAlike(x, y) BY ReadsAre
<1>2. x.measures = parse_copy.measures BY <1>1 DEF Reads
<1>3. c.in \in Seq(STRING) /\ c.out \in BOOLEAN BY CallType
<1>4. PICK whole : whole = Whole(TRUE, c) OBVIOUS
<1>5. PICK result : result = ParsedWith(x, c) OBVIOUS
<1>6. CASE IsPlain(c.in)
  <2>1. whole = c.in BY <1>4, <1>6, WholeIs
  <2>2. result = Plain(c) BY <1>5, <1>6 DEF ParsedWith
  <2>3. /\ Plain(c).past = FALSE /\ IsPrefix(Plain(c).text, c.in)
        /\ c.out => Len(Plain(c).text) = Min({Len(c.in), c.length - 1})
        /\ ~c.out /\ c.length > 0 =>
             \/ Plain(c).text = c.in /\ Len(c.in) <= c.length
             \/ Len(Plain(c).text) \in {c.length - 1, c.length}
    BY PlainCuts
  <2> QED BY <1>1, <1>4, <1>5, <2>1, <2>2, <2>3
<1>7. CASE ~IsPlain(c.in)
  <2>1. whole = Joined(Parts(x, c.in)) BY <1>1, <1>4, <1>7, WholeIs
  <2>2. Parts(x, c.in) \in Seq(PartOf(STRING)) BY <1>1, <1>3, PartsType
  <2>3. x.measures \in BOOLEAN BY <1>2
  <2>4. CASE c.out
    <3>1. result = IntoBuffer(x, c) BY <1>5, <1>7, <2>4 DEF ParsedWith
    <3>2. LET w == Joined(Parts(x, c.in))
              r == IntoBuffer(x, c)
          IN /\ r.past => ~x.measures /\ Len(w) >= c.length
             /\ IsPrefix(r.text, w)
             /\ Len(r.text) = Min({Len(w), c.length - 1})
      BY <1>7, <2>2, <2>3, <2>4, BufferCuts
    <3> QED BY <1>1, <1>2, <1>4, <1>5, <2>1, <2>4, <3>1, <3>2
  <2>5. CASE ~c.out
    <3>1. result = IntoPool(x, c) BY <1>5, <1>7, <2>5 DEF ParsedWith
    <3>2. LET w == Joined(Parts(x, c.in))
              r == IntoPool(x, c)
          IN /\ r.past => ~x.measures /\ Len(w) >= c.length
             /\ IsPrefix(r.text, w)
             /\ c.length > 0 =>
                  \/ r.text = w /\ Len(w) <= c.length
                  \/ Len(r.text) \in {c.length - 1, c.length}
      BY <1>7, <2>2, <2>3, <2>5, PoolCuts
    <3> QED BY <1>1, <1>2, <1>4, <1>5, <2>1, <2>5, <3>1, <3>2
  <2> QED BY <1>3, <2>4, <2>5
<1> QED BY <1>6, <1>7

\* What is filled in as it is met is what is filled in afterwards.
LEMMA CallFills ==
  ASSUME NEW c \in AnyCalls PROVE Whole(TRUE, c) = Filled(Whole(FALSE, c))
<1>1. PICK x, y : x = Reads(TRUE, c) /\ y = Reads(FALSE, c) /\ ReadAlike(x, y) BY ReadsAre
<1>2. c.in \in Seq(STRING) BY CallType
<1>3. CASE IsPlain(c.in)
  <2>1. Whole(TRUE, c) = c.in /\ Whole(FALSE, c) = c.in BY <1>3, WholeIs
  <2>2. Filled(c.in) = c.in BY <1>2, FilledString
  <2> QED BY <2>1, <2>2
<1>4. CASE ~IsPlain(c.in)
  <2>1. Whole(TRUE, c) = Joined(Parts(x, c.in)) /\ Whole(FALSE, c) = Joined(Parts(y, c.in))
    BY <1>1, <1>4, WholeIs
  <2>2. Joined(Parts(x, c.in)) = Filled(Joined(Parts(y, c.in))) BY <1>1, <1>2, PartsType
  <2> QED BY <2>1, <2>2
<1> QED BY <1>3, <1>4

\* A stretch of a text without special characters might be cut anywhere.
LEMMA OneByOne ==
  ASSUME NEW t \in Seq(STRING), NEW stops, NEW rest \in [1 .. Len(t) + 1 -> Seq(STRING)],
         \A j \in 1 .. Len(t) : t[j] \notin stops =>
           rest[j] = SubSeq(t, j, Until(t, j, stops) - 1) \o rest[Until(t, j, stops)],
         NEW i \in 1 .. Len(t), t[i] \notin stops
  PROVE  rest[i] = <<t[i]>> \o rest[i + 1]
<1>1. PICK n \in Nat : n = Len(t) OBVIOUS
<1>2. i \in 1 .. n + 1 /\ i + 1 \in 1 .. n + 1 /\ i \in 1 .. n BY <1>1
<1>3. LET end == Until(t, i, stops)
      IN /\ end \in i .. Len(t) + 1
         /\ end = Len(t) + 1 \/ t[end] \in stops
         /\ \A j \in i .. end - 1 : t[j] \notin stops
  BY <1>1, <1>2, UntilIs
<1>4. PICK e \in i .. n + 1 : e = Until(t, i, stops) BY <1>1, <1>3
<1>5. (e = n + 1 \/ t[e] \in stops) /\ \A j \in i .. e - 1 : t[j] \notin stops
  BY <1>1, <1>3, <1>4
<1>6. e \in i + 1 .. n + 1
  <2>1. e # i
    <3>1. CASE e = n + 1 BY <1>2, <3>1
    <3>2. CASE t[e] \in stops BY <3>2
    <3> QED BY <1>5, <3>1, <3>2
  <2> QED BY <2>1
<1>7. rest[i] = SubSeq(t, i, e - 1) \o rest[e] BY <1>4
<1>8. PICK c \in STRING : c = t[i]
  <2>1. t[i] \in STRING BY ElementOfSeq
  <2> QED BY <2>1
<1>9. <<c>> \in Seq(STRING) BY OneOf
<1>10. PICK z \in Seq(STRING) : z = rest[e] BY <1>1, <1>6
<1>11. e - 1 \in i .. Len(t) BY <1>1, <1>6
<1>12. SubSeq(t, i, e - 1) = <<c>> \o SubSeq(t, i + 1, e - 1)
  BY <1>8, <1>11, SubSeqRecursiveFirst
<1>13. CASE e = i + 1
  <2>1. SubSeq(t, i + 1, e - 1) = <<>> BY <1>13, SubSeqEmpty
  <2>2. <<c>> \o <<>> = <<c>> BY <1>9, ConcatEmptySeq
  <2> QED BY <1>7, <1>8, <1>12, <1>13, <2>1, <2>2, Zenon
<1>14. CASE e # i + 1
  <2>1. PICK k \in 1 .. n : k = i + 1 /\ k < e
    <3>1. i + 1 \in 1 .. n /\ i + 1 < e BY <1>6, <1>14
    <3> QED BY <3>1
  <2>2. t[k] \notin stops
    <3>1. k \in i .. e - 1 BY <1>6, <2>1
    <3> QED BY <1>5, <3>1
  <2>3. LET end == Until(t, k, stops)
        IN /\ end \in k .. Len(t) + 1
           /\ end = Len(t) + 1 \/ t[end] \in stops
           /\ \A j \in k .. end - 1 : t[j] \notin stops
    <3>1. k \in 1 .. Len(t) + 1 BY <1>1
    <3> QED BY <3>1, UntilIs
  <2>4. PICK d \in k .. n + 1 : d = Until(t, k, stops) BY <1>1, <2>3
  <2>5. (d = n + 1 \/ t[d] \in stops) /\ \A j \in k .. d - 1 : t[j] \notin stops
    BY <1>1, <2>3, <2>4
  <2>6. d = e
    <3>1. ~(d < e)
      <4> SUFFICES ASSUME d < e PROVE FALSE OBVIOUS
      <4>1. d \in i .. e - 1 /\ d # n + 1 BY <1>6, <2>1
      <4> QED BY <1>5, <2>5, <4>1
    <3>2. ~(e < d)
      <4> SUFFICES ASSUME e < d PROVE FALSE OBVIOUS
      <4>1. e \in k .. d - 1 /\ e # n + 1 BY <1>6, <2>1
      <4> QED BY <1>5, <2>5, <4>1
    <3> QED BY <1>6, <3>1, <3>2
  <2>7. rest[k] = SubSeq(t, k, e - 1) \o z BY <1>1, <1>10, <2>2, <2>4, <2>6
  <2>8. PICK y \in Seq(STRING) : y = SubSeq(t, k, e - 1)
    <3>1. SubSeq(t, k, e - 1) \in Seq(STRING)
      <4>1. k \in 1 .. Len(t) + 1 /\ e - 1 \in 0 .. Len(t) BY <1>1, <1>6
      <4> QED BY <4>1, SubText
    <3> QED BY <3>1
  <2>9. <<c>> \o (y \o z) = (<<c>> \o y) \o z BY <1>9, Associative
  <2> QED BY <1>7, <1>8, <1>10, <1>12, <2>1, <2>7, <2>8, <2>9, Zenon
<1> QED BY <1>13, <1>14

RestOf(n, cut, S, rest) ==
  /\ rest \in [1 .. n + 1 -> Seq(S)]
  /\ Remains(n, cut, rest) /\ Joined(PiecesOf(n, cut)) = rest[1]

LEMMA PartsRest ==
  ASSUME NEW S, NEW n, NEW cut, GoesOn(n, cut, PartOf(S))
  PROVE  \E rest : RestOf(n, cut, S, rest)
<1>1. PICK P : P = PartOf(S) OBVIOUS
<1>2. HaveTexts(P, S) /\ GoesOn(n, cut, P) BY <1>1, PartTexts
<1>3. PICK rest \in [1 .. n + 1 -> Seq(S)] :
        Remains(n, cut, rest) /\ Joined(PiecesOf(n, cut)) = rest[1]
  BY <1>2, RestIs
<1> QED BY <1>3 DEF RestOf

\* Where a text with its dollars protected goes on.
StaysThere(x, t, q, pos, k) ==
  /\ pos[k] \in 1 .. Len(q) /\ pos[k + 1] \in 1 .. Len(q) + 1
  /\ t[k] \in PageSpecial => PartAt(x, q, pos[k]) = Part(<<t[k]>>, pos[k + 1])
  /\ t[k] \notin PageSpecial => q[pos[k]] = t[k] /\ pos[k + 1] = pos[k] + 1

LEMMA QuotedParts ==
  ASSUME NEW t \in Seq(STRING), NEW q \in Seq(STRING), NEW pos, Places(t, {"$"}, q, pos),
         NEW x, NEW k \in 1 .. Len(t)
  PROVE  StaysThere(x, t, q, pos, k)
<1>1. PICK n, m \in Nat : n = Len(t) /\ m = Len(q) OBVIOUS
<1>2. /\ pos \in [1 .. n + 1 -> 1 .. m + 1] /\ pos[n + 1] = m + 1
      /\ \A j \in 1 .. n :
           /\ t[j] = "$" => pos[j + 1] = pos[j] + 2 /\ q[pos[j]] = "\\" /\ q[pos[j] + 1] = t[j]
           /\ t[j] # "$" => pos[j + 1] = pos[j] + 1 /\ q[pos[j]] = t[j]
  BY <1>1 DEF Places
<1>3. k \in 1 .. n /\ k \in 1 .. n + 1 /\ k + 1 \in 1 .. n + 1 BY <1>1
<1>4. PICK i \in 1 .. m + 1, j \in 1 .. m + 1 : i = pos[k] /\ j = pos[k + 1] BY <1>2, <1>3
<1>5. /\ t[k] = "$" => j = i + 2 /\ q[i] = "\\" /\ q[i + 1] = "$"
      /\ t[k] # "$" => j = i + 1 /\ q[i] = t[k]
  BY <1>2, <1>3, <1>4
<1>6. i \in 1 .. m BY <1>5
<1>7. CASE t[k] = "$"
  <2>1. i < Len(q) BY <1>1, <1>5, <1>7
  <2>2. PartAt(x, q, i) = Part(<<"$">>, i + 2) BY <1>5, <1>7, <2>1 DEF PartAt
  <2> QED BY <1>1, <1>4, <1>5, <1>6, <1>7, <2>2 DEF PageSpecial, StaysThere
<1>8. CASE t[k] = "\\"
  <2>1. ~(i < Len(q) /\ q[i + 1] = "$")
    <3> SUFFICES ASSUME i < Len(q), q[i + 1] = "$" PROVE FALSE OBVIOUS
    <3>1. j = i + 1 /\ j # m + 1 BY <1>1, <1>5, <1>8
    <3>2. k # n BY <1>2, <1>4, <3>1
    <3>3. k + 1 \in 1 .. n BY <1>3, <3>2
    <3>4. q[pos[k + 1]] # "$" BY <1>2, <3>3
    <3> QED BY <1>4, <3>1, <3>4
  <2>2. PartAt(x, q, i) = Part(<<"\\">>, i + 1) BY <1>5, <1>8, <2>1 DEF PartAt
  <2> QED BY <1>1, <1>4, <1>5, <1>6, <1>8, <2>2 DEF PageSpecial, StaysThere
<1>9. CASE t[k] \notin PageSpecial BY <1>1, <1>4, <1>5, <1>6, <1>9 DEF PageSpecial, StaysThere
<1> QED BY <1>7, <1>8, <1>9 DEF PageSpecial

\* A text with its dollars protected comes out as it was.
LEMMA QuotedReads ==
  ASSUME NEW x, NEW y, ReadAlike(x, y), NEW t \in Seq(STRING), NEW q \in Seq(STRING),
         NEW pos, Places(t, {"$"}, q, pos)
  PROVE  Joined(Parts(x, q)) = t
<1>1. PICK n, m \in Nat : n = Len(t) /\ m = Len(q) OBVIOUS
<1>2. GoesOn(m, PartsAt(x, q), PartOf(STRING)) BY <1>1, PartsGoOn
<1>3. PICK cut : cut = PartsAt(x, q) /\ GoesOn(m, cut, PartOf(STRING)) BY <1>2
<1>4. PICK rest \in [1 .. m + 1 -> Seq(STRING)] :
        Remains(m, cut, rest) /\ Joined(PiecesOf(m, cut)) = rest[1]
  <2>1. PICK r : RestOf(m, cut, STRING, r) BY <1>3, PartsRest
  <2> QED BY <2>1 DEF RestOf
<1>5. Joined(Parts(x, q)) = rest[1] BY <1>1, <1>3, <1>4 DEF Parts, PartsAt
<1>6. rest[m + 1] = <<>> /\ \A i \in 1 .. m : rest[i] = cut[i].text \o rest[cut[i].next]
  BY <1>4 DEF Remains
<1>7. \A i \in 1 .. m : cut[i] = PartAt(x, q, i) BY <1>1, <1>3 DEF PartsAt
<1>8. \A i \in 1 .. m : q[i] \notin PageSpecial =>
        rest[i] = SubSeq(q, i, Until(q, i, PageSpecial) - 1) \o rest[Until(q, i, PageSpecial)]
  <2> SUFFICES ASSUME NEW i \in 1 .. m, q[i] \notin PageSpecial
      PROVE rest[i] = SubSeq(q, i, Until(q, i, PageSpecial) - 1) \o rest[Until(q, i, PageSpecial)]
    OBVIOUS
  <2>1. q[i] # "\\" /\ q[i] # "$" BY DEF PageSpecial
  <2>2. PICK e : e = Until(q, i, PageSpecial) OBVIOUS
  <2>3. PartAt(x, q, i) = Part(SubSeq(q, i, e - 1), e) BY <2>1, <2>2 DEF PartAt
  <2>4. cut[i].text = SubSeq(q, i, e - 1) /\ cut[i].next = e BY <1>7, <2>3 DEF Part
  <2> QED BY <1>6, <2>2, <2>4
<1>9. ASSUME NEW k \in 1 .. n PROVE rest[pos[k]] = <<t[k]>> \o rest[pos[k + 1]]
  <2>1. /\ pos[k] \in 1 .. Len(q) /\ pos[k + 1] \in 1 .. Len(q) + 1
        /\ t[k] \in PageSpecial => PartAt(x, q, pos[k]) = Part(<<t[k]>>, pos[k + 1])
        /\ t[k] \notin PageSpecial => q[pos[k]] = t[k] /\ pos[k + 1] = pos[k] + 1
    <3>1. k \in 1 .. Len(t) BY <1>1
    <3>2. StaysThere(x, t, q, pos, k) BY <3>1, QuotedParts
    <3> QED BY <3>2 DEF StaysThere
  <2>2. PICK i \in 1 .. m, j \in 1 .. m + 1 : i = pos[k] /\ j = pos[k + 1] BY <1>1, <2>1
  <2>3. CASE t[k] \in PageSpecial
    <3>1. cut[i] = Part(<<t[k]>>, j) BY <1>7, <2>1, <2>2, <2>3
    <3>2. cut[i].text = <<t[k]>> /\ cut[i].next = j BY <3>1 DEF Part
    <3>3. rest[i] = <<t[k]>> \o rest[j] BY <1>6, <3>2
    <3> QED BY <2>2, <3>3
  <2>4. CASE t[k] \notin PageSpecial
    <3>1. q[i] = t[k] /\ j = i + 1 BY <2>1, <2>2, <2>4
    <3>2. rest[i] = <<q[i]>> \o rest[i + 1]
      <4>1. rest \in [1 .. Len(q) + 1 -> Seq(STRING)] /\ i \in 1 .. Len(q) BY <1>1
      <4>2. q[i] \notin PageSpecial BY <2>4, <3>1
      <4>3. \A l \in 1 .. Len(q) : q[l] \notin PageSpecial =>
              rest[l] = SubSeq(q, l, Until(q, l, PageSpecial) - 1) \o rest[Until(q, l, PageSpecial)]
        BY <1>1, <1>8
      <4> QED BY <4>1, <4>2, <4>3, OneByOne
    <3> QED BY <2>2, <3>1, <3>2
  <2> QED BY <2>3, <2>4
<1>10. pos[1] = 1 /\ pos[n + 1] = m + 1 BY <1>1 DEF Places
<1>11. rest[pos[1]] = t
  <2>1. rest[pos[Len(t) + 1]] = <<>> BY <1>1, <1>6, <1>10
  <2>2. \A k \in 1 .. Len(t) : rest[pos[k]] = <<t[k]>> \o rest[pos[k + 1]] BY <1>1, <1>9
  <2> QED BY <2>1, <2>2, Unquoted
<1> QED BY <1>5, <1>10, <1>11

LEMMA CallQuotes ==
  ASSUME NEW c \in AnyCalls
  PROVE  Whole(TRUE, [c EXCEPT !.in = Quoted(@, {"$"})]) = c.in
<1>1. PICK t \in Seq(STRING) : t = c.in BY CallType
<1>2. PICK q \in Seq(STRING) : q = Quoted(t, {"$"}) BY QuotedIs
<1>3. PICK pos : Places(t, {"$"}, q, pos) BY <1>2, QuotedIs
<1>4. PICK d : d = [c EXCEPT !.in = q] OBVIOUS
<1>5. d \in AnyCalls /\ d.in = q BY <1>4 DEF AnyCalls
<1>6. Whole(TRUE, d) = t
  <2>1. CASE IsPlain(q)
    <3>1. \A k \in 1 .. Len(t) : t[k] # "$"
      <4> SUFFICES ASSUME NEW k \in 1 .. Len(t), t[k] = "$" PROVE FALSE OBVIOUS
      <4>1. pos[k] \in 1 .. Len(q) BY <1>3, QuotedParts DEF StaysThere
      <4>2. q[pos[k]] = "\\" BY <1>3 DEF Places
      <4> QED BY <2>1, <4>1, <4>2 DEF IsPlain, PageSpecial
    <3>2. DOMAIN t = 1 .. Len(t) OBVIOUS
    <3>3. Quoted(t, {"$"}) = FlattenSeq([i \in 1 .. Len(t) |-> <<t[i]>>])
      BY <3>1, <3>2 DEF Quoted
    <3>4. q = t BY <1>2, <3>3, Singles
    <3> QED BY <1>5, <2>1, <3>4, WholeIs
  <2>2. CASE ~IsPlain(q)
    <3>1. PICK x, y : x = Reads(TRUE, d) /\ y = Reads(FALSE, d) /\ ReadAlike(x, y) BY ReadsAre
    <3>2. Whole(TRUE, d) = Joined(Parts(x, q)) BY <1>5, <2>2, <3>1, WholeIs
    <3> QED BY <1>3, <3>1, <3>2, QuotedReads
  <2> QED BY <2>1, <2>2
<1> QED BY <1>1, <1>2, <1>4, <1>6
-----------------------------------------------------------------------------
ParseInvariant ==
  /\ parse_copy \in ParseCopies
  /\ parse_call # NoCall =>
       parse_call \in Calls /\ parsed = ParsedWith(Reads(TRUE, parse_call), parse_call)

\* What is parsed is what the text says, as far as there is room for it, and it is
\* parsed once.
THEOREM ParsesRightCorrect == ParseSpec => []ParsesRight
<1>1. ParseInit => ParseInvariant BY DEF ParseInit, ParseInvariant
<1>2. ParseInvariant /\ [ParseNext]_parse_vars => ParseInvariant'
  <2> SUFFICES ASSUME ParseInvariant, [ParseNext]_parse_vars PROVE ParseInvariant' OBVIOUS
  <2>1. CASE UNCHANGED parse_vars
    BY <2>1 DEF ParseInvariant, parse_vars, Calls, ParsedWith, IntoBuffer, IntoPool, Reads
  <2>2. CASE ParseNext
    <3>1. PICK c \in Calls : Parse(c) BY <2>2 DEF ParseNext
    <3>2. parse_copy' = parse_copy /\ parse_call' = c /\ parsed' = ParsedWith(Reads(TRUE, c), c)
      BY <3>1 DEF Parse
    <3>3. Reads(TRUE, parse_call)' = Reads(TRUE, c) BY <3>2 DEF Reads
    <3> QED BY <3>2, <3>3 DEF ParseInvariant
  <2> QED BY <2>1, <2>2
<1>3. ParseInvariant => ParsesRight
  <2> SUFFICES ASSUME ParseInvariant, parse_call # NoCall PROVE LimitOnlyCuts /\ ParsesOnce
    BY DEF ParsesRight, LimitOnlyCuts, ParsesOnce
  <2>1. PICK c \in AnyCalls : c = parse_call /\ parsed = ParsedWith(Reads(TRUE, c), c)
    BY CallsAny DEF ParseInvariant
  <2>2. parse_copy.measures \in BOOLEAN
    <3>1. Parse_541 \in [measures : BOOLEAN] BY DEF Parse_541
    <3>2. Parse_41 \in [measures : BOOLEAN] BY <3>1 DEF Parse_41
    <3>3. parse_copy \in [measures : BOOLEAN]
      BY <3>1, <3>2 DEF ParseInvariant, ParseCopies, Parse_680, Parse_139, Parse_188, Parse_432
    <3> QED BY <3>3
  <2>3. LimitOnlyCuts BY <2>1, <2>2, CallCuts DEF LimitOnlyCuts
  <2>4. ParsesOnce BY <2>1, CallFills, CallQuotes DEF ParsesOnce
  <2> QED BY <2>3, <2>4
<1> QED BY <1>1, <1>2, <1>3, PTL DEF ParseSpec
-----------------------------------------------------------------------------
(* do_expand: the pieces.                                                  *)
LEMMA ClosingIs ==
  ASSUME NEW t \in Seq(STRING), NEW i \in Nat, FindClosingCurly(t, i) # {}
  PROVE  Min(FindClosingCurly(t, i)) \in i .. Len(t)
<1>1. PICK A : A = FindClosingCurly(t, i) OBVIOUS
<1>2. A \subseteq i .. Len(t) BY <1>1 DEF FindClosingCurly
<1>3. A \in SUBSET Nat /\ A # {} BY <1>1, <1>2
<1>4. Min(A) \in A BY <1>3, LeastIs
<1> QED BY <1>1, <1>2, <1>4

LEMMA CharIs ==
  ASSUME NEW t \in Seq(STRING), NEW i \in Nat, NEW c, FindCharInCurlies(t, i, c) # {}
  PROVE  Min(FindCharInCurlies(t, i, c)) \in i .. Len(t)
<1> DEFINE A == {j \in i .. Len(t) : t[j] = c /\ Inside(t, i, j - 1) /\ Depth(t, i, j - 1) = 1}
<1>1. A # {} /\ FindCharInCurlies(t, i, c) = {Min(A)} BY DEF FindCharInCurlies
<1>2. A \subseteq i .. Len(t) OBVIOUS
<1> HIDE DEF A
<1>3. A \in SUBSET Nat BY <1>2
<1>4. Min(A) \in A BY <1>1, <1>3, LeastIs
<1>5. PICK m \in i .. Len(t) : m = Min(A) BY <1>2, <1>4
<1>6. PICK B : B = {m} OBVIOUS
<1>7. B \in SUBSET Nat /\ B # {} BY <1>6
<1>8. Min(B) \in B BY <1>7, LeastIs
<1>9. Min(B) = m BY <1>6, <1>8
<1> QED BY <1>1, <1>5, <1>6, <1>9
-----------------------------------------------------------------------------
\* What a map is asked for is shorter than the text that asks.
IsCall(call, t) ==
  /\ call.key \in Seq(STRING) /\ Len(call.key) < Len(t)
  /\ call.default \in Seq(STRING) /\ Len(call.default) < Len(t)

LEMMA CallShorter ==
  ASSUME NEW t \in Seq(STRING), NEW i \in 1 .. Len(t), NEW colon \in i + 2 .. Len(t),
         NEW end \in i + 2 .. Len(t)
  PROVE  IsCall(MapCall(t, i, colon, end), t)
<1> DEFINE r == SubSeq(t, colon + 1, end - 1)
           A == FindCharInCurlies(r, 1, "|")
<1>1. PICK n \in Nat : n = Len(t) OBVIOUS
<1>2. r \in Seq(STRING) /\ Len(r) \in Nat /\ Len(r) < n
  <2>1. colon + 1 \in 1 .. Len(t) + 1 /\ end - 1 \in 0 .. Len(t) BY <1>1
  <2>2. r \in Seq(STRING) BY <2>1, SubText
  <2>3. Len(r) = IF colon + 1 <= end - 1 THEN end - 1 - (colon + 1) + 1 ELSE 0
    <3>1. \A k \in colon + 1 .. end - 1 : t[k] \in STRING BY <1>1
    <3> QED BY <3>1, SubSeqProperties
  <2> QED BY <1>1, <2>2, <2>3
<1>3. /\ MapCall(t, i, colon, end).key = IF A = {} THEN r ELSE SubSeq(r, 1, Min(A) - 1)
      /\ MapCall(t, i, colon, end).default = IF A = {} THEN <<>> ELSE SubSeq(r, Min(A) + 1, Len(r))
  BY DEF MapCall
<1> HIDE DEF r
<1>4. A # {} => Min(A) \in 1 .. Len(r) BY <1>2, CharIs
<1> HIDE DEF A
<1>5. PICK l \in Nat : l = Len(r) BY <1>2
<1>6. CASE A = {} BY <1>1, <1>2, <1>3, <1>6 DEF IsCall
<1>7. CASE A # {}
  <2>1. PICK m \in 1 .. l : m = Min(A) BY <1>4, <1>5, <1>7
  <2>2. SubSeq(r, 1, m - 1) \in Seq(STRING) /\ Len(SubSeq(r, 1, m - 1)) = m - 1
    <3>1. m - 1 \in Nat /\ m - 1 <= Len(r) BY <1>5
    <3> QED BY <1>2, <3>1, Shorter
  <2>3. SubSeq(r, m + 1, l) \in Seq(STRING)
    <3>1. m + 1 \in 1 .. Len(r) + 1 /\ l \in 0 .. Len(r) BY <1>5
    <3> QED BY <1>2, <3>1, SubText
  <2>4. Len(SubSeq(r, m + 1, l)) <= l
    <3>1. \A k \in m + 1 .. l : r[k] \in STRING BY <1>2, <1>5
    <3>2. Len(SubSeq(r, m + 1, l)) = IF m + 1 <= l THEN l - (m + 1) + 1 ELSE 0
      BY <3>1, SubSeqProperties
    <3> QED BY <3>2
  <2>5. PICK a \in Seq(STRING), b \in Seq(STRING) :
          a = SubSeq(r, 1, m - 1) /\ b = SubSeq(r, m + 1, l)
    BY <2>2, <2>3
  <2>6. Len(a) < n /\ Len(b) < n BY <1>2, <1>5, <2>2, <2>4, <2>5
  <2> QED BY <1>1, <1>3, <1>5, <1>7, <2>1, <2>5, <2>6 DEF IsCall
<1> QED BY <1>6, <1>7
-----------------------------------------------------------------------------
\* What a piece of t at i is, whatever the settings.
GoesTo(t, i, next) == next \in i + 1 .. Len(t) + 1
AsItIs(t, i, text, next) ==
  text \in Seq(STRING) /\ GoesTo(t, i, next) /\ \A x, e : PieceAt(x, e, t, i) = Piece(text, next)
AsValue(t, i, text, next) ==
  text \in Seq(Character) /\ GoesTo(t, i, next)
    /\ \A x, e : PieceAt(x, e, t, i) = Piece(AsMet(x, text), next)
AsGroup(t, i) ==
  GoesTo(t, i, i + 2) /\ RuleDigits[t[i + 1]] \in 0 .. 1
    /\ \A x, e : PieceAt(x, e, t, i) = Backref(x, t, i)
AsCall(t, i, call, next) ==
  IsCall(call, t) /\ GoesTo(t, i, next)
    /\ \A x, e : PieceAt(x, e, t, i) = Fetch(x, e, call, next)

KnownPiece(t, i) ==
  \/ \E text, next : AsItIs(t, i, text, next)
  \/ \E text, next : AsValue(t, i, text, next)
  \/ AsGroup(t, i)
  \/ \E call, next : AsCall(t, i, call, next)

LEMMA VariableText == \A name : VariableOf(name) \in Seq(Character)
BY ExpandAssumption DEF VariableOf

LEMMA PieceKnown ==
  ASSUME NEW t \in Seq(STRING), NEW i \in 1 .. Len(t)
  PROVE  KnownPiece(t, i)
<1>1. PICK n \in Nat : n = Len(t) OBVIOUS
<1>2. i \in 1 .. n /\ t[i] \in STRING BY <1>1
<1>3. <<t[i]>> \in Seq(STRING) BY <1>2, OneOf
<1>4. i + 1 \in i + 1 .. Len(t) + 1 BY <1>1
<1>5. i < Len(t) => i + 2 \in i + 1 .. Len(t) + 1 /\ t[i + 1] \in STRING
  <2> SUFFICES ASSUME i < Len(t) PROVE i + 2 \in i + 1 .. Len(t) + 1 /\ t[i + 1] \in STRING
    OBVIOUS
  <2>1. PICK k \in 1 .. Len(t) : k = i + 1
    <3>1. i + 1 \in 1 .. Len(t) BY <1>1
    <3> QED BY <3>1
  <2>2. t[k] \in STRING BY ElementOfSeq
  <2> QED BY <1>1, <2>1, <2>2
<1>6. CASE \A x, e : PieceAt(x, e, t, i) = Piece(<<t[i]>>, i + 1)
  BY <1>3, <1>4, <1>6 DEF KnownPiece, AsItIs, GoesTo
<1>7. CASE t[i] \notin RuleSpecial BY <1>6, <1>7 DEF PieceAt, RuleSpecial
<1>8. CASE t[i] = "\\"
  <2>1. CASE i = Len(t)
    <3>1. \A x, e : PieceAt(x, e, t, i) = Piece(<<t[i]>>, i + 1)
      BY <1>8, <2>1 DEF PieceAt, Backslash, RuleSpecial
    <3> QED BY <1>6, <3>1
  <2>2. CASE i # Len(t)
    <3>1. \A x, e : PieceAt(x, e, t, i) = Piece(<<t[i + 1]>>, i + 2)
      BY <1>8, <2>2 DEF PieceAt, Backslash, AfterEscaped, RuleSpecial
    <3>2. i < Len(t) BY <1>1, <2>2
    <3>3. <<t[i + 1]>> \in Seq(STRING) BY <1>5, <3>2, OneOf
    <3> QED BY <1>5, <3>1, <3>2, <3>3 DEF KnownPiece, AsItIs, GoesTo
  <2> QED BY <2>1, <2>2
<1>9. CASE t[i] \in {"$", "%"}
  <2>1. CASE i < Len(t) /\ t[i + 1] = "{"
    <3>1. \A x, e : PieceAt(x, e, t, i) = Curly(x, e, t, i)
      BY <1>9, <2>1 DEF PieceAt, RuleSpecial
    <3> DEFINE E == FindClosingCurly(t, i + 2)
               C == FindCharInCurlies(t, i + 2, ":")
    <3>2. E # {} => Min(E) \in i + 2 .. Len(t) BY <1>2, ClosingIs
    <3>3. C # {} => Min(C) \in i + 2 .. Len(t) BY <1>2, CharIs
    <3>4. \A x, e : Curly(x, e, t, i) =
            IF E = {} THEN Piece(SubSeq(t, i, i + 1), i + 2)
            ELSE IF t[i] = "%"
            THEN Piece(AsMet(x, VariableOf(SubSeq(t, i + 2, Min(E) - 1))), Min(E) + 1)
            ELSE IF C = {} THEN Piece(SubSeq(t, i, i + 1), i + 2)
            ELSE Fetch(x, e, MapCall(t, i, Min(C), Min(E)), Min(E) + 1)
      BY DEF Curly
    <3> HIDE DEF E, C
    <3>5. SubSeq(t, i, i + 1) \in Seq(STRING)
      <4>0. i < n BY <1>1, <2>1
      <4>1. i \in 1 .. n + 1 /\ i + 1 \in 0 .. n BY <1>2, <4>0
      <4> QED BY <1>1, <4>1, SubText
    <3>6. CASE \A x, e : PieceAt(x, e, t, i) = Piece(SubSeq(t, i, i + 1), i + 2)
      BY <1>5, <2>1, <3>5, <3>6 DEF KnownPiece, AsItIs, GoesTo
    <3>7. CASE E # {} /\ t[i] = "%"
      <4>1. PICK m \in i + 2 .. n : m = Min(E) BY <1>1, <3>2, <3>7
      <4>2. PICK text \in Seq(Character) : text = VariableOf(SubSeq(t, i + 2, m - 1))
        BY VariableText
      <4>3. \A x, e : PieceAt(x, e, t, i) = Piece(AsMet(x, text), m + 1)
        BY <3>1, <3>4, <3>7, <4>1, <4>2
      <4>4. m + 1 \in i + 1 .. Len(t) + 1 BY <1>1, <4>1
      <4> QED BY <4>3, <4>4 DEF KnownPiece, AsValue, GoesTo
    <3>8. CASE E # {} /\ C # {} /\ t[i] # "%"
      <4>1. PICK m \in i + 2 .. n : m = Min(E) BY <1>1, <3>2, <3>8
      <4>2. PICK l \in i + 2 .. n : l = Min(C) BY <1>1, <3>3, <3>8
      <4>3. PICK call : call = MapCall(t, i, l, m) OBVIOUS
      <4>4. IsCall(call, t) BY <1>1, <4>3, CallShorter
      <4>5. \A x, e : PieceAt(x, e, t, i) = Fetch(x, e, call, m + 1)
        BY <3>1, <3>4, <3>8, <4>1, <4>2, <4>3
      <4>6. m + 1 \in i + 1 .. Len(t) + 1 BY <1>1, <4>1
      <4> QED BY <4>4, <4>5, <4>6 DEF KnownPiece, AsCall, GoesTo
    <3>9. CASE E = {} \/ (C = {} /\ t[i] # "%") BY <3>1, <3>4, <3>6, <3>9
    <3> QED BY <3>7, <3>8, <3>9
  <2>2. CASE i < Len(t) /\ t[i + 1] \in DOMAIN RuleDigits
    <3>1. t[i + 1] # "{" BY <2>2 DEF RuleDigits
    <3>2. \A x, e : PieceAt(x, e, t, i) = Backref(x, t, i)
      BY <1>9, <2>2, <3>1 DEF PieceAt, RuleSpecial
    <3>3. RuleDigits[t[i + 1]] \in 0 .. 1 BY <2>2 DEF RuleDigits
    <3> QED BY <1>5, <2>2, <3>2, <3>3 DEF KnownPiece, AsGroup, GoesTo
  <2>3. CASE ~(i < Len(t) /\ t[i + 1] = "{") /\ ~(i < Len(t) /\ t[i + 1] \in DOMAIN RuleDigits)
    <3>1. \A x, e : PieceAt(x, e, t, i) = Piece(<<t[i]>>, i + 1)
      BY <1>9, <2>3 DEF PieceAt, RuleSpecial
    <3> QED BY <1>6, <3>1
  <2> QED BY <2>1, <2>2, <2>3
<1> QED BY <1>7, <1>8, <1>9 DEF RuleSpecial
-----------------------------------------------------------------------------
\* Settings under which what is met is a text of S.
Meets(x, S) ==
  /\ STRING \subseteq S
  /\ \A text \in Seq(Character) : AsMet(x, text) \in Seq(S)
  /\ {x.rr, x.rc} \ {Null} \subseteq [0 .. 1 -> Seq(Character)]

Result(S) == [text : Seq(S), outlen : Nat, crash : BOOLEAN]
Results(S) == Result(S) \cup {Null}
PieceOf(S) == [text : Seq(S), span : Nat, next : Nat, crash : BOOLEAN]

\* Whether the shorter texts are expanded.
Shorten(e, S, t) == \A s \in Seq(STRING) : Len(s) < Len(t) => e[s] \in Results(S)

Put(p, S, t, i) == p \in PieceOf(S) /\ p.span = Len(p.text) /\ GoesTo(t, i, p.next)

LEMMA CrashPut ==
  ASSUME NEW S, NEW text \in Seq(S), NEW t \in Seq(STRING), NEW i \in 1 .. Len(t), NEW next,
         GoesTo(t, i, next), NEW b \in BOOLEAN
  PROVE  Put([Piece(text, next) EXCEPT !.crash = b], S, t, i)
<1>1. PICK n \in Nat : n = Len(t) OBVIOUS
<1>2. next \in Nat BY <1>1 DEF GoesTo
<1>3. PICK l \in Nat : l = Len(text) OBVIOUS
<1>4. [Piece(text, next) EXCEPT !.crash = b] =
        [text |-> text, span |-> l, next |-> next, crash |-> b]
  BY <1>3 DEF Piece
<1> QED BY <1>2, <1>3, <1>4 DEF Put, PieceOf

LEMMA PiecePut ==
  ASSUME NEW S, NEW text \in Seq(S), NEW t \in Seq(STRING), NEW i \in 1 .. Len(t), NEW next,
         GoesTo(t, i, next)
  PROVE  Put(Piece(text, next), S, t, i)
<1>1. PICK n \in Nat : n = Len(t) OBVIOUS
<1>2. next \in Nat BY <1>1 DEF GoesTo
<1>3. PICK l \in Nat : l = Len(text) OBVIOUS
<1>4. Piece(text, next) = [text |-> text, span |-> l, next |-> next, crash |-> FALSE]
  BY <1>3 DEF Piece
<1> QED BY <1>2, <1>3, <1>4 DEF Put, PieceOf

LEMMA WiderText ==
  ASSUME NEW E, NEW S, E \subseteq S, NEW text \in Seq(E)
  PROVE  text \in Seq(S)
<1>1. PICK n \in Nat : n = Len(text) OBVIOUS
<1>2. \A k \in 1 .. n : text[k] \in S BY <1>1
<1>3. text = [k \in 1 .. n |-> text[k]] BY <1>1
<1> QED BY <1>2, <1>3

LEMMA EscapedText ==
  ASSUME NEW S, STRING \subseteq S, NEW text \in Seq(S)
  PROVE  EscapeUri(text) \in Seq(S)
<1> DEFINE Escaped(c) == IF c \in RuleSpecial THEN <<"%", "x">> ELSE <<c>>
           s == [i \in DOMAIN text |-> Escaped(text[i])]
<1>1. PICK n \in Nat : n = Len(text) OBVIOUS
<1>2. \A c \in S : Escaped(c) \in Seq(S)
  <2> SUFFICES ASSUME NEW c \in S PROVE Escaped(c) \in Seq(S) OBVIOUS
  <2>1. "%" \in S /\ "x" \in S BY ExpandAssumption DEF RuleSpecial
  <2>2. <<"%", "x">> \in Seq(S) BY <2>1, TwoOf
  <2>3. <<c>> \in Seq(S) BY OneOf
  <2> QED BY <2>2, <2>3
<1> HIDE DEF Escaped
<1>3. s \in Seq(Seq(S))
  <2>1. \A i \in 1 .. n : text[i] \in S BY <1>1
  <2>2. \A i \in 1 .. n : Escaped(text[i]) \in Seq(S) BY <1>2, <2>1
  <2>3. s = [i \in 1 .. n |-> Escaped(text[i])] BY <1>1
  <2> QED BY <2>2, <2>3
<1> HIDE DEF s
<1>4. FlattenSeq(s) \in Seq(S) BY <1>3, FlatConcat
<1> QED BY <1>4 DEF EscapeUri, s, Escaped

\* What a piece of the text is put for.
LEMMA GroupPut ==
  ASSUME NEW x, NEW S, Meets(x, S), NEW t \in Seq(STRING), NEW i \in 1 .. Len(t), AsGroup(t, i)
  PROVE  Put(Backref(x, t, i), S, t, i)
<1>1. GoesTo(t, i, i + 2) BY DEF AsGroup
<1>2. PICK groups : groups = IF t[i] = "$" THEN x.rr ELSE x.rc OBVIOUS
<1>3. PICK d \in 0 .. 1 : d = RuleDigits[t[i + 1]] BY DEF AsGroup
<1>4. CASE groups = Null
  <2>1. Backref(x, t, i) = Piece(<<>>, i + 2) BY <1>2, <1>4 DEF Backref, NoPiece
  <2>2. <<>> \in Seq(S) OBVIOUS
  <2> QED BY <1>1, <2>1, <2>2, PiecePut
<1>5. CASE groups # Null
  <2>1. groups \in [0 .. 1 -> Seq(Character)] BY <1>2, <1>5 DEF Meets
  <2>2. groups[d] \in Seq(Character) BY <2>1
  <2>3. PICK group \in Seq(S) : group = AsMet(x, groups[d]) BY <2>2 DEF Meets
  <2>4. PICK text \in Seq(S) : text = IF x.escapes THEN EscapeUri(group) ELSE group
    <3>1. EscapeUri(group) \in Seq(S) BY EscapedText DEF Meets
    <3> QED BY <3>1
  <2>5. Backref(x, t, i) = [Piece(text, i + 2) EXCEPT !.span = Len(text)]
    BY <1>2, <1>3, <1>5, <2>3, <2>4 DEF Backref, Span
  <2>6. Backref(x, t, i) = Piece(text, i + 2) BY <2>5 DEF Piece
  <2> QED BY <1>1, <2>6, PiecePut
<1> QED BY <1>4, <1>5

LEMMA FetchPut ==
  ASSUME NEW x, NEW S, Meets(x, S), NEW t \in Seq(STRING), NEW i \in 1 .. Len(t),
         NEW e, Shorten(e, S, t), NEW call, NEW next, IsCall(call, t), GoesTo(t, i, next)
  PROVE  Put(Fetch(x, e, call, next), S, t, i)
<1>1. PICK key \in Results(S) : key = e[call.key] BY DEF Shorten, IsCall
<1>2. PICK default \in Results(S) : default = e[call.default] BY DEF Shorten, IsCall
<1>3. PICK found : found = MapOf(call.map, Filled(key.text)) OBVIOUS
<1>4. found # Null => found \in Seq(Character) BY <1>3, ExpandAssumption DEF MapOf
<1>5. <<>> \in Seq(S) OBVIOUS
<1>6. Put(NoPiece(next), S, t, i) BY <1>5, PiecePut DEF NoPiece
<1>7. Put(Crash(next), S, t, i)
  <2>1. TRUE \in BOOLEAN OBVIOUS
  <2> QED BY <1>5, <2>1, CrashPut DEF Crash, NoPiece
<1>8. found # Null => Put(Piece(AsMet(x, found), next), S, t, i)
  <2> SUFFICES ASSUME found # Null PROVE Put(Piece(AsMet(x, found), next), S, t, i) OBVIOUS
  <2>1. PICK text \in Seq(S) : text = AsMet(x, found) BY <1>4 DEF Meets
  <2> QED BY <2>1, PiecePut
<1>9. Put(Default(e, call.default, next), S, t, i)
  <2>1. CASE default = Null BY <1>2, <1>6, <2>1 DEF Default
  <2>2. CASE default # Null
    <3>1. PICK text \in Seq(S), b \in BOOLEAN : text = default.text /\ b = default.crash
      BY <2>2 DEF Results, Result
    <3>2. Default(e, call.default, next) = [Piece(text, next) EXCEPT !.crash = b]
      BY <1>2, <2>2, <3>1 DEF Default
    <3> QED BY <3>2, CrashPut
  <2> QED BY <2>1, <2>2
<1>10. Fetch(x, e, call, next) \in {Crash(next), Piece(AsMet(x, found), next), NoPiece(next),
                                    Default(e, call.default, next)}
  BY <1>1, <1>3 DEF Fetch
<1>11. Fetch(x, e, call, next) = Piece(AsMet(x, found), next) => \/ found # Null
         \/ Fetch(x, e, call, next) \in {Crash(next), NoPiece(next), Default(e, call.default, next)}
  BY <1>1, <1>3 DEF Fetch
<1> QED BY <1>6, <1>7, <1>8, <1>9, <1>10, <1>11

LEMMA PieceType ==
  ASSUME NEW x, NEW S, Meets(x, S), NEW t \in Seq(STRING), NEW i \in 1 .. Len(t),
         NEW e, Shorten(e, S, t)
  PROVE  Put(PieceAt(x, e, t, i), S, t, i)
<1>1. CASE \E text, next : AsItIs(t, i, text, next)
  <2>1. PICK text, next : AsItIs(t, i, text, next) BY <1>1
  <2>2. PICK same \in Seq(S) : same = text
    <3>1. text \in Seq(STRING) /\ STRING \subseteq S BY <2>1 DEF AsItIs, Meets
    <3> QED BY <3>1, WiderText
  <2>3. GoesTo(t, i, next) /\ PieceAt(x, e, t, i) = Piece(same, next) BY <2>1, <2>2 DEF AsItIs
  <2> QED BY <2>3, PiecePut
<1>2. CASE \E text, next : AsValue(t, i, text, next)
  <2>1. PICK text, next : AsValue(t, i, text, next) BY <1>2
  <2>2. PICK met \in Seq(S) : met = AsMet(x, text) BY <2>1 DEF AsValue, Meets
  <2>3. GoesTo(t, i, next) /\ PieceAt(x, e, t, i) = Piece(met, next) BY <2>1, <2>2 DEF AsValue
  <2> QED BY <2>3, PiecePut
<1>3. CASE AsGroup(t, i)
  <2>1. PieceAt(x, e, t, i) = Backref(x, t, i) BY <1>3 DEF AsGroup
  <2> QED BY <1>3, <2>1, GroupPut
<1>4. CASE \E call, next : AsCall(t, i, call, next)
  <2>1. PICK call, next : AsCall(t, i, call, next) BY <1>4
  <2>2. IsCall(call, t) /\ GoesTo(t, i, next) /\ PieceAt(x, e, t, i) = Fetch(x, e, call, next)
    BY <2>1 DEF AsCall
  <2> QED BY <2>2, FetchPut
<1> QED BY <1>1, <1>2, <1>3, <1>4, PieceKnown DEF KnownPiece

\* A piece is the same whenever the shorter texts are expanded alike.
LEMMA PieceSame ==
  ASSUME NEW x, NEW t \in Seq(STRING), NEW i \in 1 .. Len(t), NEW e, NEW f,
         \A s \in Seq(STRING) : Len(s) < Len(t) => e[s] = f[s]
  PROVE  PieceAt(x, e, t, i) = PieceAt(x, f, t, i)
<1>1. CASE \E text, next : AsItIs(t, i, text, next) BY <1>1 DEF AsItIs
<1>2. CASE \E text, next : AsValue(t, i, text, next) BY <1>2 DEF AsValue
<1>3. CASE AsGroup(t, i) BY <1>3 DEF AsGroup
<1>4. CASE \E call, next : AsCall(t, i, call, next)
  <2>1. PICK call, next : AsCall(t, i, call, next) BY <1>4
  <2>2. /\ PieceAt(x, e, t, i) = Fetch(x, e, call, next)
        /\ PieceAt(x, f, t, i) = Fetch(x, f, call, next)
    BY <2>1 DEF AsCall
  <2>3. e[call.key] = f[call.key] /\ e[call.default] = f[call.default]
    BY <2>1 DEF AsCall, IsCall
  <2>4. Default(e, call.default, next) = Default(f, call.default, next) BY <2>3 DEF Default
  <2>5. Fetch(x, e, call, next) = Fetch(x, f, call, next) BY <2>3, <2>4, Zenon DEF Fetch
  <2> QED BY <2>2, <2>5
<1> QED BY <1>1, <1>2, <1>3, <1>4, PieceKnown DEF KnownPiece
-----------------------------------------------------------------------------
(* do_expand: what is made of them.                                        *)
CutsOf(x, e, t) == [i \in 1 .. Len(t) |-> PieceAt(x, e, t, i)]
Spans(ps) == \A k \in 1 .. Len(ps) : ps[k].span = Len(ps[k].text)

LEMMA CutsGoOn ==
  ASSUME NEW x, NEW S, Meets(x, S), NEW t \in Seq(STRING), NEW e, Shorten(e, S, t)
  PROVE  /\ GoesOn(Len(t), CutsOf(x, e, t), PieceOf(S))
         /\ \A i \in 1 .. Len(t) : CutsOf(x, e, t)[i].span = Len(CutsOf(x, e, t)[i].text)
<1>1. PICK n \in Nat : n = Len(t) OBVIOUS
<1>2. ASSUME NEW i \in 1 .. n
      PROVE  /\ CutsOf(x, e, t)[i] \in PieceOf(S)
             /\ CutsOf(x, e, t)[i].span = Len(CutsOf(x, e, t)[i].text)
             /\ CutsOf(x, e, t)[i].next \in i + 1 .. n + 1
  <2>1. Put(PieceAt(x, e, t, i), S, t, i)
    <3>1. i \in 1 .. Len(t) BY <1>1
    <3> QED BY <3>1, PieceType
  <2>2. CutsOf(x, e, t)[i] = PieceAt(x, e, t, i) BY <1>1 DEF CutsOf
  <2> QED BY <1>1, <2>1, <2>2 DEF Put, GoesTo
<1>3. CutsOf(x, e, t) = [i \in 1 .. n |-> CutsOf(x, e, t)[i]] BY <1>1 DEF CutsOf
<1>4. CutsOf(x, e, t) \in [1 .. n -> PieceOf(S)] BY <1>2, <1>3
<1> QED BY <1>1, <1>2, <1>4 DEF GoesOn

LEMMA PieceTexts == \A S : HaveTexts(PieceOf(S), S)
BY DEF HaveTexts, PieceOf

\* The lengths add up to that of what is put together.
LEMMA AddedIs ==
  ASSUME NEW S, NEW ps \in Seq(PieceOf(S)), Spans(ps)
  PROVE  Joined(ps) \in Seq(S) /\ Added(ps) = Len(Joined(ps))
<1>1. PICK n \in Nat : n = Len(ps) OBVIOUS
<1> DEFINE s == [i \in DOMAIN ps |-> ps[i].text]
           Sum(f, k) == IF k = 0 THEN 0 ELSE f[k - 1] + ps[k].span
           Loop(f) == [k \in 0 .. n |-> Sum(f, k)]
           F == CHOOSE f : f = Loop(f)
<1>2. s \in Seq(Seq(S)) /\ Len(s) = n /\ Joined(ps) \in Seq(S)
  <2>1. PICK P : P = PieceOf(S) OBVIOUS
  <2>2. HaveTexts(P, S) /\ ps \in Seq(P) BY <2>1, PieceTexts
  <2>3. /\ [i \in DOMAIN ps |-> ps[i].text] \in Seq(Seq(S))
        /\ Len([i \in DOMAIN ps |-> ps[i].text]) = Len(ps)
        /\ Joined(ps) \in Seq(S)
    BY <2>2, JoinedPieces
  <2> QED BY <1>1, <2>3
<1>3. \A k \in 1 .. n : s[k] = ps[k].text BY <1>1
<1>4. Added(ps) = F[n] BY <1>1, Zenon DEF Added
<1>5. Joined(ps) = FlattenSeq(s) BY DEF Joined
<1> HIDE DEF s
<1>6. PICK g \in [0 .. n -> Seq(S)] : IsFlat(g, s) BY <1>2, FlatExists
<1>7. FlattenSeq(s) = g[n] BY <1>2, <1>6, FlatIs
<1>8. g[0] = <<>> /\ \A k \in 1 .. n : g[k] = g[k - 1] \o s[k] BY <1>2, <1>6 DEF IsFlat
<1>9. ASSUME NEW k \in 1 .. n PROVE Len(g[k]) = Len(g[k - 1]) + ps[k].span
  <2>1. PICK a \in Seq(S) : a = g[k - 1] BY <1>6
  <2>2. PICK b \in Seq(S) : b = s[k] BY <1>2, ElementOfSeq
  <2>3. Len(a \o b) = Len(a) + Len(b) BY ConcatProperties
  <2>4. ps[k].span = Len(b) BY <1>1, <1>3, <2>2 DEF Spans
  <2> QED BY <1>8, <2>1, <2>2, <2>3, <2>4
<1> DEFINE G == [k \in 0 .. n |-> Len(g[k])]
<1>10. ASSUME NEW k \in 0 .. n PROVE G[k] = Sum(G, k)
  <2>1. CASE k = 0 BY <1>8, <2>1
  <2>2. CASE k # 0
    <3>1. k \in 1 .. n /\ k - 1 \in 0 .. n BY <2>2
    <3>2. G[k] = Len(g[k]) /\ G[k - 1] = Len(g[k - 1]) BY <3>1
    <3> QED BY <1>9, <2>2, <3>1, <3>2
  <2> QED BY <2>1, <2>2
<1>11. G = Loop(G)
  <2>1. G = [k \in 0 .. n |-> G[k]] OBVIOUS
  <2> HIDE DEF G, Sum
  <2> QED BY <1>10, <2>1
<1>12. F = Loop(F)
  <2> HIDE DEF Loop, G
  <2> QED BY <1>11
<1>13. \A k \in 0 .. n : F[k] = Sum(F, k)
  <2> HIDE DEF F, Sum
  <2> QED BY <1>12
<1> HIDE DEF F
<1>14. F[0] = 0 /\ \A k \in 1 .. n : F[k] = F[k - 1] + ps[k].span
  <2>1. 0 \in 0 .. n OBVIOUS
  <2>2. \A k \in 1 .. n : k \in 0 .. n /\ k # 0 OBVIOUS
  <2> QED BY <1>13, <2>1, <2>2
<1> DEFINE P == {k \in Nat : k <= n => F[k] = Len(g[k])}
<1>15. 0 \in P BY <1>8, <1>14
<1>16. \A k \in Nat : k \in P => k + 1 \in P
  <2> SUFFICES ASSUME NEW k \in Nat, F[k] = Len(g[k]), k + 1 <= n
               PROVE  F[k + 1] = Len(g[k + 1])
    OBVIOUS
  <2>1. PICK j \in 1 .. n : j = k + 1 /\ j - 1 = k
    <3>1. k + 1 \in 1 .. n /\ k + 1 - 1 = k OBVIOUS
    <3> QED BY <3>1
  <2>2. F[j] = F[j - 1] + ps[j].span /\ Len(g[j]) = Len(g[j - 1]) + ps[j].span BY <1>9, <1>14
  <2> QED BY <2>1, <2>2
<1>17. \A k \in Nat : k \in P
  <2> HIDE DEF P
  <2> QED BY <1>15, <1>16, Inductive
<1> QED BY <1>2, <1>4, <1>5, <1>7, <1>17
-----------------------------------------------------------------------------
\* What an expansion is made of.
ExpandedTo(r, x, t, ps, S) ==
  /\ r = IF t \in x.denied THEN Null
         ELSE [text |-> Joined(ps), outlen |-> Added(ps),
               crash |-> \E i \in 1 .. Len(ps) : ps[i].crash]
  /\ ps \in Seq(PieceOf(S)) /\ Joined(ps) \in Seq(S) /\ Added(ps) = Len(Joined(ps))

LEMMA ExpansionIs ==
  ASSUME NEW x, NEW S, Meets(x, S), NEW t \in Seq(STRING), NEW e, Shorten(e, S, t)
  PROVE  ExpandedTo(Expansion(x, e, t), x, t, PiecesOf(Len(t), CutsOf(x, e, t)), S)
<1>1. PICK n, cut : n = Len(t) /\ cut = CutsOf(x, e, t) OBVIOUS
<1>2. GoesOn(n, cut, PieceOf(S)) /\ \A i \in 1 .. n : cut[i].span = Len(cut[i].text)
  BY <1>1, CutsGoOn
<1>3. PICK ps : ps = PiecesOf(n, cut) OBVIOUS
<1>4. ps \in Seq(PieceOf(S)) /\ Alike(ps, ps, n, cut, cut) BY <1>2, <1>3, AlikePieces
<1>5. Spans(ps) BY <1>2, <1>4 DEF Spans, Alike
<1>6. Joined(ps) \in Seq(S) /\ Added(ps) = Len(Joined(ps)) BY <1>4, <1>5, AddedIs
<1>7. DOMAIN ps = 1 .. Len(ps) BY <1>4
<1>8. Expansion(x, e, t) =
        IF t \in x.denied THEN Null
        ELSE [text |-> Joined(ps), outlen |-> Added(ps), crash |-> \E i \in DOMAIN ps : ps[i].crash]
  BY <1>1, <1>3 DEF Expansion, CutsOf
<1> QED BY <1>1, <1>3, <1>4, <1>6, <1>7, <1>8 DEF ExpandedTo

LEMMA ExpandedType ==
  ASSUME NEW x, NEW S, NEW t, NEW r, NEW ps, ExpandedTo(r, x, t, ps, S)
  PROVE  /\ t \in x.denied => r = Null
         /\ t \notin x.denied => r \in Result(S) /\ r.text = Joined(ps) /\ Len(r.text) = r.outlen
<1>1. PICK text \in Seq(S) : text = Joined(ps) /\ Added(ps) = Len(text) BY DEF ExpandedTo
<1>2. PICK b \in BOOLEAN : b = \E i \in 1 .. Len(ps) : ps[i].crash
  <2>1. CASE \E i \in 1 .. Len(ps) : ps[i].crash BY <2>1, Zenon
  <2>2. CASE ~\E i \in 1 .. Len(ps) : ps[i].crash BY <2>2, Zenon
  <2> QED BY <2>1, <2>2
<1>3. PICK l \in Nat : l = Len(text) OBVIOUS
<1>4. r = IF t \in x.denied THEN Null ELSE [text |-> text, outlen |-> l, crash |-> b]
  BY <1>1, <1>2, <1>3, Zenon DEF ExpandedTo
<1> QED BY <1>1, <1>3, <1>4 DEF Result

LEMMA ExpansionType ==
  ASSUME NEW x, NEW S, Meets(x, S), NEW t \in Seq(STRING), NEW e, Shorten(e, S, t)
  PROVE  /\ Expansion(x, e, t) \in Results(S)
         /\ Expansion(x, e, t) # Null => Len(Expansion(x, e, t).text) = Expansion(x, e, t).outlen
<1>1. PICK r, ps : r = Expansion(x, e, t) /\ ExpandedTo(r, x, t, ps, S) BY ExpansionIs
<1>2. /\ t \in x.denied => r = Null
      /\ t \notin x.denied => r \in Result(S) /\ Len(r.text) = r.outlen
  BY <1>1, ExpandedType
<1> QED BY <1>1, <1>2 DEF Results

LEMMA ExpansionSame ==
  ASSUME NEW x, NEW t \in Seq(STRING), NEW e, NEW f,
         \A s \in Seq(STRING) : Len(s) < Len(t) => e[s] = f[s]
  PROVE  Expansion(x, e, t) = Expansion(x, f, t)
<1>1. \A i \in 1 .. Len(t) : PieceAt(x, e, t, i) = PieceAt(x, f, t, i) BY PieceSame
<1>2. [i \in 1 .. Len(t) |-> PieceAt(x, e, t, i)] = [i \in 1 .. Len(t) |-> PieceAt(x, f, t, i)]
  BY <1>1
<1> QED BY <1>2, Zenon DEF Expansion

\* The function that calls itself for the shorter texts.
LEMMA DoExpandIs ==
  ASSUME NEW x, NEW S, Meets(x, S)
  PROVE  /\ DoExpand(x) \in [Seq(STRING) -> Results(S)]
         /\ \A t \in Seq(STRING) : DoExpand(x)[t] = Expansion(x, DoExpand(x), t)
<1> DEFINE D == Seq(STRING)
           V == Results(S)
           Then(f, t) == Expansion(x, f, t)
           size == [t \in D |-> Len(t)]
           step == [p \in [D -> V] \X D |-> Then(p[1], p[2])]
           Loop(f) == [t \in D |-> Then(f, t)]
           F == CHOOSE f : f = Loop(f)
<1>1. \A f : \A t \in D : (\A s \in D : Len(s) < Len(t) => f[s] \in V) => Then(f, t) \in V
  BY ExpansionType DEF Shorten
<1>2. \A f, g : \A t \in D : (\A s \in D : Len(s) < Len(t) => f[s] = g[s]) => Then(f, t) = Then(g, t)
  BY ExpansionSame
<1>3. D # {} /\ V # {}
  <2>1. <<>> \in D /\ Null \in V BY DEF Results
  <2> QED BY <2>1
<1>4. \A t \in D : Len(t) \in Nat OBVIOUS
<1>5. DoExpand(x) = F BY Zenon DEF DoExpand
<1> HIDE DEF Then, D, V
<1>6. \A f \in [D -> V], t \in D : <<f, t>> \in [D -> V] \X D /\ step[<<f, t>>] = Then(f, t)
  OBVIOUS
<1>7. step \in [[D -> V] \X D -> V]
  <2>1. \A f \in [D -> V], t \in D : Then(f, t) \in V BY <1>1
  <2>2. \A p \in [D -> V] \X D : Then(p[1], p[2]) \in V BY <2>1
  <2> QED BY <2>2
<1>8. size \in [D -> Nat] /\ \A t \in D : size[t] = Len(t) BY <1>4
<1> HIDE DEF size, step
<1>9. Measured(D, V, size, step)
  <2>1. ASSUME NEW f \in [D -> V], NEW g \in [D -> V], NEW t \in D,
               \A s \in D : size[s] < size[t] => f[s] = g[s]
        PROVE  step[<<f, t>>] = step[<<g, t>>]
    <3>1. \A s \in D : Len(s) < Len(t) => f[s] = g[s] BY <1>8, <2>1
    <3>2. Then(f, t) = Then(g, t) BY <1>2, <3>1
    <3> QED BY <1>6, <3>2
  <2> QED BY <1>3, <1>7, <1>8, <2>1 DEF Measured
<1>10. \E f \in [D -> V] : f = Loop(f)
  <2>1. PICK f \in [D -> V] : \A t \in D : f[t] = step[<<f, t>>] BY <1>9, Recursion
  <2>2. \A t \in D : f[t] = Then(f, t) BY <1>6, <2>1
  <2>3. f = Loop(f) BY <2>2
  <2> QED BY <2>3
<1>11. F = Loop(F)
  <2> HIDE DEF Loop
  <2> QED BY <1>10
<1> HIDE DEF F
<1>12. \A t \in D : F[t] = Then(F, t) BY <1>11
<1> DEFINE P == {n \in Nat : \A t \in D : Len(t) = n => F[t] \in V}
<1>13. ASSUME NEW n \in Nat, \A k \in Nat : k < n => k \in P PROVE n \in P
  <2> SUFFICES ASSUME NEW t \in D, Len(t) = n PROVE F[t] \in V OBVIOUS
  <2>1. \A s \in D : Len(s) < Len(t) => F[s] \in V BY <1>4, <1>13
  <2>2. Then(F, t) \in V BY <1>1, <2>1
  <2> QED BY <1>12, <2>2
<1>14. \A n \in Nat : n \in P
  <2> HIDE DEF P
  <2> QED BY <1>13, Course
<1>15. \A t \in D : F[t] \in V BY <1>4, <1>14
<1>16. F = [t \in D |-> F[t]]
  <2>1. DOMAIN F = D BY <1>11
  <2> QED BY <1>11, <2>1
<1>17. F \in [D -> V] BY <1>15, <1>16
<1> QED BY <1>5, <1>12, <1>17 DEF D, V, Then
-----------------------------------------------------------------------------
(* do_expand: each text is expanded once.                                  *)
\* Settings that fill in, and the same that do not.
Fillings(x, y) ==
  /\ Meets(x, STRING) /\ Meets(y, Character)
  /\ x.fill = TRUE /\ y.fill = FALSE
  /\ ~x.escapes /\ ~y.escapes
  /\ x.rr = y.rr /\ x.rc = y.rc
  /\ x.denied = {} /\ y.denied = {}

Fulfils(a, b) ==
  a \in Result(STRING) /\ b \in Result(Character) /\ a.crash = b.crash /\ a.text = Filled(b.text)
Tallies(p, q) == p.next = q.next /\ p.crash = q.crash /\ p.text = Filled(q.text)

LEMMA ResultNull == Null \notin Result(STRING) /\ Null \notin Result(Character)
<1>1. Null \notin Result(Character) BY ExpandAssumption DEF Result
<1>2. STRING \subseteq Character BY DEF Character
<1>3. \A a : a \in Seq(STRING) => a \in Seq(Character) BY <1>2, WiderText
<1>4. Result(STRING) \subseteq Result(Character) BY <1>3 DEF Result
<1> QED BY <1>1, <1>4

LEMMA PieceTallies ==
  ASSUME NEW a, NEW b, a = Filled(b), NEW next
  PROVE  Tallies(Piece(a, next), Piece(b, next))
BY DEF Tallies, Piece

LEMMA CrashTallies ==
  ASSUME NEW a, NEW b, a = Filled(b), NEW next, NEW d \in BOOLEAN
  PROVE  Tallies([Piece(a, next) EXCEPT !.crash = d], [Piece(b, next) EXCEPT !.crash = d])
BY DEF Tallies, Piece

LEMMA NothingTallies ==
  \A next : Tallies(NoPiece(next), NoPiece(next)) /\ Tallies(Crash(next), Crash(next))
<1>1. <<>> \in Seq(STRING) OBVIOUS
<1>2. <<>> = Filled(<<>>) BY <1>1, FilledString
<1> QED BY <1>2 DEF Tallies, NoPiece, Crash, Piece

LEMMA GroupTallies ==
  ASSUME NEW x, NEW y, Fillings(x, y), NEW t, NEW i, AsGroup(t, i)
  PROVE  Tallies(Backref(x, t, i), Backref(y, t, i))
<1>1. PICK groups : groups = IF t[i] = "$" THEN x.rr ELSE x.rc OBVIOUS
<1>2. groups = IF t[i] = "$" THEN y.rr ELSE y.rc BY <1>1 DEF Fillings
<1>3. PICK d : d = RuleDigits[t[i + 1]] OBVIOUS
<1>4. CASE groups = Null
  <2>1. Backref(x, t, i) = NoPiece(i + 2) BY <1>1, <1>4 DEF Backref
  <2>2. Backref(y, t, i) = NoPiece(i + 2) BY <1>2, <1>4 DEF Backref
  <2> QED BY <2>1, <2>2, NothingTallies
<1>5. CASE groups # Null
  <2>1. PICK b : b = groups[d] OBVIOUS
  <2>2. PICK a : a = Filled(b) OBVIOUS
  <2>3. AsMet(x, b) = a /\ AsMet(y, b) = b BY <2>2 DEF AsMet, Fillings
  <2>4. Backref(x, t, i) = [Piece(a, i + 2) EXCEPT !.span = Len(a)]
    BY <1>1, <1>3, <1>5, <2>1, <2>3 DEF Backref, Span, Fillings
  <2>5. Backref(y, t, i) = [Piece(b, i + 2) EXCEPT !.span = Len(b)]
    BY <1>2, <1>3, <1>5, <2>1, <2>3 DEF Backref, Span, Fillings
  <2> QED BY <2>2, <2>4, <2>5 DEF Tallies, Piece
<1> QED BY <1>4, <1>5

LEMMA FetchTallies ==
  ASSUME NEW x, NEW y, Fillings(x, y), NEW call, NEW next, NEW e, NEW f,
         Fulfils(e[call.key], f[call.key]), Fulfils(e[call.default], f[call.default])
  PROVE  Tallies(Fetch(x, e, call, next), Fetch(y, f, call, next))
<1>1. PICK kx \in Result(STRING), ky \in Result(Character) : kx = e[call.key] /\ ky = f[call.key]
  BY DEF Fulfils
<1>2. kx.crash = ky.crash /\ kx.text = Filled(ky.text) BY <1>1 DEF Fulfils
<1>3. kx # Null /\ ky # Null BY ResultNull
<1>4. Filled(kx.text) = Filled(ky.text)
  <2>1. PICK text \in Seq(Character) : text = ky.text BY DEF Result
  <2>2. Filled(Filled(text)) = Filled(text) BY FilledTwice
  <2> QED BY <1>2, <2>1, <2>2
<1>5. PICK found : found = MapOf(call.map, Filled(kx.text)) OBVIOUS
<1>6. found = MapOf(call.map, Filled(ky.text)) BY <1>4, <1>5
<1>7. CASE kx.crash
  <2>1. Fetch(x, e, call, next) = Crash(next) BY <1>1, <1>3, <1>7 DEF Fetch
  <2>2. Fetch(y, f, call, next) = Crash(next) BY <1>1, <1>2, <1>3, <1>7 DEF Fetch
  <2> QED BY <2>1, <2>2, NothingTallies
<1>8. CASE ~kx.crash /\ found # Null
  <2>1. PICK a : a = Filled(found) OBVIOUS
  <2>2. Fetch(x, e, call, next) = Piece(a, next)
    BY <1>1, <1>3, <1>5, <1>8, <2>1 DEF Fetch, AsMet, Fillings
  <2>3. Fetch(y, f, call, next) = Piece(found, next)
    BY <1>1, <1>2, <1>3, <1>6, <1>8 DEF Fetch, AsMet, Fillings
  <2> QED BY <2>1, <2>2, <2>3, PieceTallies
<1>9. CASE ~kx.crash /\ found = Null /\ call.default = <<>>
  <2>1. Fetch(x, e, call, next) = NoPiece(next) BY <1>1, <1>3, <1>5, <1>9 DEF Fetch
  <2>2. Fetch(y, f, call, next) = NoPiece(next) BY <1>1, <1>2, <1>3, <1>6, <1>9 DEF Fetch
  <2> QED BY <2>1, <2>2, NothingTallies
<1>10. CASE ~kx.crash /\ found = Null /\ call.default # <<>>
  <2>1. Fetch(x, e, call, next) = Default(e, call.default, next)
    BY <1>1, <1>3, <1>5, <1>10 DEF Fetch
  <2>2. Fetch(y, f, call, next) = Default(f, call.default, next)
    BY <1>1, <1>2, <1>3, <1>6, <1>10 DEF Fetch
  <2>3. PICK dx \in Result(STRING), dy \in Result(Character) :
          dx = e[call.default] /\ dy = f[call.default]
    BY DEF Fulfils
  <2>4. dx.crash = dy.crash /\ dx.text = Filled(dy.text) BY <2>3 DEF Fulfils
  <2>5. dx # Null /\ dy # Null BY ResultNull
  <2>6. PICK d \in BOOLEAN : d = dx.crash BY DEF Result
  <2>7. Default(e, call.default, next) = [Piece(dx.text, next) EXCEPT !.crash = d]
    BY <2>3, <2>5, <2>6 DEF Default
  <2>8. Default(f, call.default, next) = [Piece(dy.text, next) EXCEPT !.crash = d]
    BY <2>3, <2>4, <2>5, <2>6 DEF Default
  <2>9. PICK a, b : a = dx.text /\ b = dy.text /\ a = Filled(b) BY <2>4
  <2>10. Tallies([Piece(a, next) EXCEPT !.crash = d], [Piece(b, next) EXCEPT !.crash = d])
    BY <2>9, CrashTallies
  <2> QED BY <2>1, <2>2, <2>7, <2>8, <2>9, <2>10
<1> QED BY <1>7, <1>8, <1>9, <1>10

\* Each piece tallies when the shorter texts do.
LEMMA PiecesTally ==
  ASSUME NEW x, NEW y, Fillings(x, y), NEW t \in Seq(STRING), NEW i \in 1 .. Len(t),
         NEW e, NEW f, \A s \in Seq(STRING) : Len(s) < Len(t) => Fulfils(e[s], f[s])
  PROVE  Tallies(PieceAt(x, e, t, i), PieceAt(y, f, t, i))
<1>1. CASE \E text, next : AsItIs(t, i, text, next)
  <2>1. PICK text, next : AsItIs(t, i, text, next) BY <1>1
  <2>2. text \in Seq(STRING) BY <2>1 DEF AsItIs
  <2>3. text = Filled(text) BY <2>2, FilledString
  <2>4. PieceAt(x, e, t, i) = Piece(text, next) /\ PieceAt(y, f, t, i) = Piece(text, next)
    BY <2>1 DEF AsItIs
  <2> QED BY <2>3, <2>4, PieceTallies
<1>2. CASE \E text, next : AsValue(t, i, text, next)
  <2>1. PICK text, next : AsValue(t, i, text, next) BY <1>2
  <2>2. PICK a : a = Filled(text) OBVIOUS
  <2>3. AsMet(x, text) = a /\ AsMet(y, text) = text BY <2>2 DEF AsMet, Fillings
  <2>4. PieceAt(x, e, t, i) = Piece(a, next) /\ PieceAt(y, f, t, i) = Piece(text, next)
    BY <2>1, <2>3 DEF AsValue
  <2> QED BY <2>2, <2>4, PieceTallies
<1>3. CASE AsGroup(t, i)
  <2>1. PieceAt(x, e, t, i) = Backref(x, t, i) /\ PieceAt(y, f, t, i) = Backref(y, t, i)
    BY <1>3 DEF AsGroup
  <2> QED BY <1>3, <2>1, GroupTallies
<1>4. CASE \E call, next : AsCall(t, i, call, next)
  <2>1. PICK call, next : AsCall(t, i, call, next) BY <1>4
  <2>2. /\ PieceAt(x, e, t, i) = Fetch(x, e, call, next)
        /\ PieceAt(y, f, t, i) = Fetch(y, f, call, next)
    BY <2>1 DEF AsCall
  <2>3. Fulfils(e[call.key], f[call.key]) /\ Fulfils(e[call.default], f[call.default])
    BY <2>1 DEF AsCall, IsCall
  <2> QED BY <2>2, <2>3, FetchTallies
<1> QED BY <1>1, <1>2, <1>3, <1>4, PieceKnown DEF KnownPiece
-----------------------------------------------------------------------------
LEMMA ExpansionFulfils ==
  ASSUME NEW x, NEW y, Fillings(x, y), NEW t \in Seq(STRING), NEW e, NEW f,
         \A s \in Seq(STRING) : Len(s) < Len(t) => Fulfils(e[s], f[s])
  PROVE  Fulfils(Expansion(x, e, t), Expansion(y, f, t))
<1>1. PICK n, cut, bt : n = Len(t) /\ cut = CutsOf(y, f, t) /\ bt = CutsOf(x, e, t) OBVIOUS
<1>2. Meets(x, STRING) /\ Meets(y, Character) BY DEF Fillings
<1>3. Shorten(e, STRING, t) /\ Shorten(f, Character, t) BY DEF Shorten, Fulfils, Results
<1>4. GoesOn(n, cut, PieceOf(Character)) BY <1>1, <1>2, <1>3, CutsGoOn
<1>5. GoesOn(n, bt, PieceOf(STRING)) BY <1>1, <1>2, <1>3, CutsGoOn
<1>6. \A i \in 1 .. n : Tallies(bt[i], cut[i])
  <2> SUFFICES ASSUME NEW i \in 1 .. n PROVE Tallies(bt[i], cut[i]) OBVIOUS
  <2>1. i \in 1 .. Len(t) BY <1>1
  <2>2. Tallies(PieceAt(x, e, t, i), PieceAt(y, f, t, i)) BY <2>1, PiecesTally
  <2>3. bt[i] = PieceAt(x, e, t, i) /\ cut[i] = PieceAt(y, f, t, i) BY <1>1, <2>1 DEF CutsOf
  <2> QED BY <2>2, <2>3
<1>7. FillsIn(n, cut, bt) BY <1>6 DEF FillsIn, Tallies
<1>8. PICK ps, qs : ps = PiecesOf(n, bt) /\ qs = PiecesOf(n, cut) OBVIOUS
<1>9. Alike(ps, qs, n, bt, cut)
  <2>1. \A i \in 1 .. n : bt[i].next = cut[i].next BY <1>7 DEF FillsIn
  <2> QED BY <1>4, <1>5, <1>8, <2>1, AlikePieces
<1>10. Joined(ps) = Filled(Joined(qs))
  <2>1. PICK P, Q : P = PieceOf(Character) /\ Q = PieceOf(STRING) OBVIOUS
  <2>2. GoesOn(n, cut, P) /\ HaveTexts(P, Character) /\ GoesOn(n, bt, Q) /\ HaveTexts(Q, STRING)
    BY <1>4, <1>5, <2>1, PieceTexts
  <2>3. Joined(PiecesOf(n, bt)) = Filled(Joined(PiecesOf(n, cut))) BY <1>7, <2>2, FilledPieces
  <2> QED BY <1>8, <2>3
<1>11. (\E i \in 1 .. Len(ps) : ps[i].crash) = (\E i \in 1 .. Len(qs) : qs[i].crash)
  <2>1. Len(ps) = Len(qs) BY <1>9 DEF Alike
  <2>2. \A i \in 1 .. Len(ps) : ps[i].crash = qs[i].crash BY <1>6, <1>9 DEF Alike, Tallies
  <2> QED BY <2>1, <2>2
<1>12. PICK a, b : a = Expansion(x, e, t) /\ b = Expansion(y, f, t) OBVIOUS
<1>13. ExpandedTo(a, x, t, ps, STRING) BY <1>1, <1>2, <1>3, <1>8, <1>12, ExpansionIs
<1>14. ExpandedTo(b, y, t, qs, Character) BY <1>1, <1>2, <1>3, <1>8, <1>12, ExpansionIs
<1>15. t \notin x.denied /\ t \notin y.denied BY DEF Fillings
<1>16. /\ a = [text |-> Joined(ps), outlen |-> Added(ps),
               crash |-> \E i \in 1 .. Len(ps) : ps[i].crash]
       /\ b = [text |-> Joined(qs), outlen |-> Added(qs),
               crash |-> \E i \in 1 .. Len(qs) : qs[i].crash]
  BY <1>13, <1>14, <1>15, Zenon DEF ExpandedTo
<1>17. a.text = Filled(b.text) /\ a.crash = b.crash BY <1>10, <1>11, <1>16
<1>18. a \in Result(STRING) /\ b \in Result(Character) BY <1>13, <1>14, <1>15, ExpandedType
<1> QED BY <1>12, <1>17, <1>18 DEF Fulfils

\* What is filled in as it is met is what is filled in afterwards.
LEMMA DoExpandFulfils ==
  ASSUME NEW x, NEW y, Fillings(x, y), NEW t \in Seq(STRING)
  PROVE  Fulfils(DoExpand(x)[t], DoExpand(y)[t])
<1>1. PICK e, f : e = DoExpand(x) /\ f = DoExpand(y) OBVIOUS
<1>2. Meets(x, STRING) /\ Meets(y, Character) BY DEF Fillings
<1>3. \A s \in Seq(STRING) : e[s] = Expansion(x, e, s) BY <1>1, <1>2, DoExpandIs
<1>4. \A s \in Seq(STRING) : f[s] = Expansion(y, f, s) BY <1>1, <1>2, DoExpandIs
<1> DEFINE P == {n \in Nat : \A s \in Seq(STRING) : Len(s) = n => Fulfils(e[s], f[s])}
<1>5. ASSUME NEW n \in Nat, \A k \in Nat : k < n => k \in P PROVE n \in P
  <2> SUFFICES ASSUME NEW s \in Seq(STRING), Len(s) = n PROVE Fulfils(e[s], f[s]) OBVIOUS
  <2>1. \A r \in Seq(STRING) : Len(r) < Len(s) => Fulfils(e[r], f[r])
    <3>1. \A r \in Seq(STRING) : Len(r) \in Nat OBVIOUS
    <3> QED BY <1>5, <3>1
  <2>2. Fulfils(Expansion(x, e, s), Expansion(y, f, s)) BY <2>1, ExpansionFulfils
  <2> QED BY <1>3, <1>4, <2>2
<1>6. \A n \in Nat : n \in P
  <2> HIDE DEF P
  <2> QED BY <1>5, Course
<1>7. Len(t) \in Nat OBVIOUS
<1> QED BY <1>1, <1>6, <1>7

\* A protected character is a piece of its own.
StandsAlone(x, e, t, q, pos, k) ==
  pos[k] \in 1 .. Len(q) /\ PieceAt(x, e, q, pos[k]) = Piece(<<t[k]>>, pos[k + 1])

LEMMA QuotedPiece ==
  ASSUME NEW t \in Seq(STRING), NEW q \in Seq(STRING), NEW pos, Places(t, RuleSpecial, q, pos),
         NEW x, NEW e, NEW k \in 1 .. Len(t)
  PROVE  StandsAlone(x, e, t, q, pos, k)
<1>1. PICK n, m \in Nat : n = Len(t) /\ m = Len(q) OBVIOUS
<1>2. /\ pos \in [1 .. n + 1 -> 1 .. m + 1] /\ pos[n + 1] = m + 1
      /\ \A j \in 1 .. n :
           /\ t[j] \in RuleSpecial =>
                pos[j + 1] = pos[j] + 2 /\ q[pos[j]] = "\\" /\ q[pos[j] + 1] = t[j]
           /\ t[j] \notin RuleSpecial => pos[j + 1] = pos[j] + 1 /\ q[pos[j]] = t[j]
  BY <1>1 DEF Places
<1>3. k \in 1 .. n /\ k \in 1 .. n + 1 /\ k + 1 \in 1 .. n + 1 BY <1>1
<1>4. PICK i \in 1 .. m + 1, j \in 1 .. m + 1 : i = pos[k] /\ j = pos[k + 1] BY <1>2, <1>3
<1>5. /\ t[k] \in RuleSpecial => j = i + 2 /\ q[i] = "\\" /\ q[i + 1] = t[k]
      /\ t[k] \notin RuleSpecial => j = i + 1 /\ q[i] = t[k]
  BY <1>2, <1>3, <1>4
<1>6. i \in 1 .. m BY <1>5
<1>7. CASE t[k] \in RuleSpecial
  <2>1. i # Len(q) BY <1>1, <1>5, <1>7
  <2>2. PieceAt(x, e, q, i) = Piece(<<t[k]>>, i + 2)
    BY <1>5, <1>7, <2>1 DEF PieceAt, Backslash, AfterEscaped, RuleSpecial
  <2> QED BY <1>1, <1>4, <1>5, <1>6, <1>7, <2>2 DEF StandsAlone
<1>8. CASE t[k] \notin RuleSpecial
  <2>1. PieceAt(x, e, q, i) = Piece(<<t[k]>>, i + 1) BY <1>5, <1>8 DEF PieceAt, RuleSpecial
  <2> QED BY <1>1, <1>4, <1>5, <1>6, <1>8, <2>1 DEF StandsAlone
<1> QED BY <1>7, <1>8

\* A text whose special characters are all protected comes out as it was.
LEMMA QuotedExpands ==
  ASSUME NEW x, Meets(x, STRING), x.denied = {}, NEW t \in Seq(STRING)
  PROVE  DoExpand(x)[Quoted(t, RuleSpecial)].text = t
<1>1. PICK q \in Seq(STRING) : q = Quoted(t, RuleSpecial) BY QuotedIs
<1>2. PICK pos : Places(t, RuleSpecial, q, pos) BY <1>1, QuotedIs
<1>3. PICK n, m \in Nat : n = Len(t) /\ m = Len(q) OBVIOUS
<1>4. PICK e \in [Seq(STRING) -> Results(STRING)] : e = DoExpand(x) BY DoExpandIs
<1>5. e[q] = Expansion(x, e, q) BY <1>4, DoExpandIs
<1>6. Shorten(e, STRING, q) BY DEF Shorten
<1>7. PICK cut : cut = CutsOf(x, e, q) OBVIOUS
<1>8. GoesOn(m, cut, PieceOf(STRING)) BY <1>3, <1>6, <1>7, CutsGoOn
<1>9. e[q].text = Joined(PiecesOf(m, cut))
  <2>1. ExpandedTo(e[q], x, q, PiecesOf(m, cut), STRING) BY <1>3, <1>5, <1>6, <1>7, ExpansionIs
  <2> QED BY <2>1, ExpandedType
<1>10. PICK rest : RestOf(m, cut, STRING, rest)
  <2>1. PICK P, S : P = PieceOf(STRING) /\ S = STRING OBVIOUS
  <2>2. HaveTexts(P, S) /\ GoesOn(m, cut, P) BY <1>8, <2>1, PieceTexts
  <2>3. PICK rest \in [1 .. m + 1 -> Seq(S)] :
          Remains(m, cut, rest) /\ Joined(PiecesOf(m, cut)) = rest[1]
    BY <2>2, RestIs
  <2> QED BY <2>1, <2>3 DEF RestOf
<1>11. rest[m + 1] = <<>> /\ \A i \in 1 .. m : rest[i] = cut[i].text \o rest[cut[i].next]
  BY <1>10 DEF RestOf, Remains
<1>12. ASSUME NEW k \in 1 .. n PROVE rest[pos[k]] = <<t[k]>> \o rest[pos[k + 1]]
  <2>1. k \in 1 .. Len(t) BY <1>3
  <2>0. StandsAlone(x, e, t, q, pos, k) BY <1>2, <2>1, QuotedPiece
  <2>2. pos[k] \in 1 .. m BY <1>3, <2>0 DEF StandsAlone
  <2>3. PICK i \in 1 .. m : i = pos[k] BY <2>2
  <2>4. PieceAt(x, e, q, pos[k]) = Piece(<<t[k]>>, pos[k + 1]) BY <2>0 DEF StandsAlone
  <2>5. cut[i] = Piece(<<t[k]>>, pos[k + 1]) BY <1>3, <1>7, <2>3, <2>4 DEF CutsOf
  <2>6. cut[i].text = <<t[k]>> /\ cut[i].next = pos[k + 1] BY <2>5 DEF Piece
  <2>7. rest[i] = <<t[k]>> \o rest[pos[k + 1]] BY <1>11, <2>6
  <2> QED BY <2>3, <2>7
<1>13. pos[1] = 1 /\ pos[n + 1] = m + 1 BY <1>2, <1>3 DEF Places
<1>14. rest[pos[1]] = t
  <2>1. rest[pos[Len(t) + 1]] = <<>> BY <1>3, <1>11, <1>13
  <2>2. \A k \in 1 .. Len(t) : rest[pos[k]] = <<t[k]>> \o rest[pos[k + 1]] BY <1>3, <1>12
  <2> QED BY <2>1, <2>2, Unquoted
<1>15. e[q].text = rest[1] BY <1>9, <1>10 DEF RestOf
<1> QED BY <1>1, <1>4, <1>13, <1>14, <1>15
-----------------------------------------------------------------------------
LEMMA SettingsMeet ==
  ASSUME ctx \in Contexts
  PROVE  Meets(Settings(TRUE), STRING) /\ Meets(Settings(FALSE), Character)
<1>1. STRING \subseteq Character BY DEF Character
<1>2. {ctx.rr, ctx.rc} \ {Null} \subseteq [0 .. 1 -> Seq(Character)] BY ExpandAssumption
<1>3. \A text \in Seq(Character) : Filled(text) \in Seq(STRING) BY FilledTwice
<1>4. \A text : AsMet(Settings(TRUE), text) = Filled(text) BY DEF AsMet, Settings
<1>5. \A text : AsMet(Settings(FALSE), text) = text BY DEF AsMet, Settings
<1>6. \A fill : Settings(fill).rr = ctx.rr /\ Settings(fill).rc = ctx.rc BY DEF Settings
<1>7. Meets(Settings(TRUE), STRING) BY <1>2, <1>3, <1>4, <1>6 DEF Meets
<1>8. Meets(Settings(FALSE), Character) BY <1>1, <1>2, <1>5, <1>6 DEF Meets
<1> QED BY <1>7, <1>8

ExpandInvariant ==
  /\ ctx \in Contexts
  /\ progress \in {"start", "env", "done", "crashed"}
  /\ progress # "start" /\ expanded # Null =>
       given \in Templates /\ expanded = DoExpand(Settings(TRUE))[given]
  /\ progress = "start" => expanded = Null

\* A rule's text is expanded once, into memory of its length.
THEOREM ExpandsRightCorrect == ExpandSpec => []ExpandsRight
<1>1. ExpandInit => ExpandInvariant BY DEF ExpandInit, ExpandInvariant
<1>2. ExpandInvariant /\ [ExpandNext]_expand_vars => ExpandInvariant'
  <2> SUFFICES ASSUME ExpandInvariant, [ExpandNext]_expand_vars PROVE ExpandInvariant' OBVIOUS
  <2>1. rule_copy' = rule_copy /\ ctx' = ctx /\ escape' = escape /\ denied' = denied
    BY DEF ExpandNext, Expand, SetEnv, SetNext, expand_vars
  <2>2. \A fill : Settings(fill)' = Settings(fill) BY <2>1 DEF Settings
  <2>3. Settings(TRUE)' = Settings(TRUE) BY <2>1 DEF Settings
  <2>4. CASE UNCHANGED expand_vars
    <3>1. progress' = progress /\ given' = given /\ expanded' = expanded
      BY <2>4 DEF expand_vars
    <3> QED BY <2>1, <2>3, <3>1 DEF ExpandInvariant
  <2>5. ASSUME NEW t \in Templates, Expand(t) PROVE ExpandInvariant'
    <3>1. given' = t /\ expanded' = DoExpand(Settings(TRUE))[t] /\ progress' \in {"done", "crashed"}
      BY <2>5 DEF Expand
    <3> QED BY <2>1, <2>3, <3>1 DEF ExpandInvariant
  <2>6. ASSUME NEW list \in Items, SetEnv(list) PROVE ExpandInvariant'
    <3>1. progress = "start" /\ progress' = "env" /\ expanded' = expanded BY <2>6 DEF SetEnv
    <3> QED BY <2>1, <3>1 DEF ExpandInvariant
  <2>7. CASE SetNext
    <3>1. /\ progress = "env" /\ progress' \in {"env", "crashed"}
          /\ expanded' = expanded /\ given' = given
      BY <2>7 DEF SetNext
    <3> QED BY <2>1, <2>3, <3>1 DEF ExpandInvariant
  <2> QED BY <2>4, <2>5, <2>6, <2>7 DEF ExpandNext
<1>3. ExpandInvariant => ExpandsRight
  <2> SUFFICES ASSUME ExpandInvariant, Expanded PROVE LengthsAgree /\ ExpandsOnce
    BY DEF ExpandsRight, LengthsAgree, ExpandsOnce
  <2>1. PICK t \in Seq(STRING) : t = given /\ expanded = DoExpand(Settings(TRUE))[t]
    BY ExpandAssumption DEF ExpandInvariant, Expanded
  <2>2. PICK x, y : x = Settings(TRUE) /\ y = Settings(FALSE) OBVIOUS
  <2>3. Meets(x, STRING) /\ Meets(y, Character) BY <2>2, SettingsMeet DEF ExpandInvariant
  <2>4. LengthsAgree
    <3>1. PICK e \in [Seq(STRING) -> Results(STRING)] : e = DoExpand(x) BY <2>3, DoExpandIs
    <3>2. e[t] = Expansion(x, e, t) BY <2>3, <3>1, DoExpandIs
    <3>3. Shorten(e, STRING, t) BY DEF Shorten
    <3>4. e[t] # Null => Len(e[t].text) = e[t].outlen BY <2>3, <3>2, <3>3, ExpansionType
    <3> QED BY <2>1, <2>2, <3>1, <3>4 DEF LengthsAgree, Expanded
  <2>5. ASSUME denied = {}, ~escape PROVE expanded.text = Filled(DoExpand(y)[t].text)
    <3>1. Fillings(x, y) BY <2>2, <2>3, <2>5 DEF Fillings, Settings
    <3>2. Fulfils(DoExpand(x)[t], DoExpand(y)[t]) BY <3>1, DoExpandFulfils
    <3> QED BY <2>1, <2>2, <3>2 DEF Fulfils
  <2>6. ASSUME denied = {} PROVE DoExpand(x)[Quoted(t, RuleSpecial)].text = t
    <3>1. x.denied = {} BY <2>2, <2>6 DEF Settings
    <3> QED BY <2>3, <3>1, QuotedExpands
  <2>7. ExpandsOnce BY <2>1, <2>2, <2>5, <2>6 DEF ExpandsOnce
  <2> QED BY <2>4, <2>7
<1> QED BY <1>1, <1>2, <1>3, PTL DEF ExpandSpec
=============================================================================
