---------------------------- MODULE ConfigProofs ----------------------------
(***************************************************************************)
(* Sections: the locals of the calls under way form a chain: the outermost *)
(* holds what the configuration was begun with, each other one the path of *)
(* the section around it, and the path is that of the innermost section.   *)
(*                                                                         *)
(* The start: what has still to be listed and what is a candidate are      *)
(* together the files that match; sorting keeps them all; and the tree is  *)
(* the candidates up to the current one.  The logs that were checked are   *)
(* well, or there is an excuse for a refusal.                              *)
(*                                                                         *)
(* The walks: every cache belongs to one request and one kind of sections, *)
(* its entries are what applies to its key, for that request or one that   *)
(* it follows from, and its result is its merged configuration with them   *)
(* (HeapOk); a request's configuration is the one before with what applies *)
(* (RequestOk).                                                            *)
(***************************************************************************)
EXTENDS IfSection, ServerStart, ConfigWalks, FiniteSetTheorems, TLAPS

Both == ver.restores = "both"
Outer == Both /\ depth > 0 =>
  frames[1].old_path = start.path /\ frames[1].old_overrides = start.override
Narrow == Both /\ start.path # Nowhere =>
  /\ path # Nowhere /\ override \subseteq start.override
  /\ \A i \in 1 .. depth :
       frames[i].old_path # Nowhere /\ frames[i].old_overrides \subseteq start.override
Chain == ver.restores # "neither" =>
  /\ depth > 0 => path = frames[depth].own
  /\ \A i \in 1 .. depth - 1 : frames[i + 1].old_path = frames[i].own

LEMMA OpenType ==
  ASSUME TypeOK, NEW section \in Sections
  PROVE  PathWithin(section) \in Paths /\ OverrideWithin(section) \in Overrides
<1>1. section.words \in 0 .. 2 BY SectionAssumption DEF Section
<1>2. PathWithin(section) \in Paths BY <1>1 DEF PathWithin, Paths, InIf, TypeOK
<1>3. OverrideWithin(section) \in Overrides BY DEF OverrideWithin, Overrides, TypeOK
<1> QED BY <1>2, <1>3

LEMMA CloseType ==
  ASSUME TypeOK, depth > 0
  PROVE  PathAfter \in Paths /\ OverrideAfter \in Overrides
<1>1. depth \in 1 .. depth /\ depth \in Nat BY SectionAssumption DEF TypeOK
<1>2. Top \in Frame BY <1>1 DEF TypeOK, Top
<1>3. PathAfter \in Paths BY <1>2 DEF PathAfter, Paths, Frame
<1>4. OverrideAfter \in Overrides BY <1>2 DEF OverrideAfter, Overrides, Frame
<1> QED BY <1>3, <1>4

\* Reading a section keeps the types.
THEOREM TypeCorrect == Spec => []TypeOK
<1>1. Init => TypeOK
  <2> SUFFICES ASSUME Init PROVE TypeOK OBVIOUS
  <2>1. path \in Paths /\ override \in Overrides
    BY DEF Init, Paths, Overrides, Nowhere, Directory
  <2>2. depth = 0 /\ frames = [i \in {} |-> i] /\ failed = FALSE BY DEF Init
  <2>3. 1 .. 0 = {} OBVIOUS
  <2>4. frames \in [1 .. depth -> Frame] BY <2>2, <2>3
  <2>5. 0 \in 0 .. MaxDepth BY SectionAssumption
  <2> QED BY <2>1, <2>2, <2>4, <2>5 DEF TypeOK
<1>2. TypeOK /\ [Next]_vars => TypeOK'
  <2> SUFFICES ASSUME TypeOK, [Next]_vars PROVE TypeOK' OBVIOUS
  <2>0. depth \in Nat /\ MaxDepth \in Nat BY SectionAssumption DEF TypeOK
  <2>1. CASE UNCHANGED vars BY <2>1 DEF vars, cmd, calls, TypeOK
  <2>2. ASSUME NEW section \in Sections, Open(section) PROVE TypeOK'
    <3>1. [section |-> section, old_path |-> path, old_overrides |-> override,
           own |-> PathWithin(section)] \in Frame
      BY OpenType DEF TypeOK, Frame
    <3>2. \A i \in 1 .. depth : frames[i] \in Frame BY DEF TypeOK
    <3>3. frames' \in [1 .. depth' -> Frame] BY <2>0, <2>2, <3>1, <3>2 DEF Open
    <3> QED BY <2>0, <2>2, <3>3, OpenType DEF Open, TypeOK
  <2>3. ASSUME NEW section \in Sections, Fail(section) PROVE TypeOK'
    BY <2>3 DEF Fail, cmd, calls, TypeOK
  <2>4. ASSUME NEW class, Directive(class) PROVE TypeOK'
    BY <2>4 DEF Directive, cmd, calls, TypeOK
  <2>5. CASE Close
    <3>1. CASE UNCHANGED <<cmd, calls>> /\ failed' = TRUE
      BY <3>1 DEF cmd, calls, TypeOK
    <3>2. CASE /\ path' = PathAfter /\ override' = OverrideAfter /\ depth' = depth - 1
               /\ frames' = [i \in 1 .. depth - 1 |-> frames[i]] /\ failed' \in BOOLEAN
      <4>1. depth > 0 BY <2>5 DEF Close
      <4>2. \A i \in 1 .. depth : frames[i] \in Frame BY DEF TypeOK
      <4>3. frames' \in [1 .. depth' -> Frame] BY <2>0, <3>2, <4>1, <4>2
      <4> QED BY <2>0, <3>2, <4>1, <4>3, CloseType DEF TypeOK
    <3> QED BY <2>5, <3>1, <3>2 DEF Close, cmd, calls
  <2> QED BY <2>1, <2>2, <2>3, <2>4, <2>5 DEF Next
<1> QED BY <1>1, <1>2, PTL DEF Spec

\* What a step that is no section's end does to the parts of the invariant.
LEMMA OpenKeeps ==
  ASSUME TypeOK, Balanced, Outer, Narrow, Chain, NEW section \in Sections, Open(section)
  PROVE  Balanced' /\ Outer' /\ Narrow' /\ Chain'
<1>0. depth \in Nat /\ depth' = depth + 1 /\ ver' = ver /\ start' = start
  BY SectionAssumption DEF TypeOK, Open
<1>1. \A i \in 1 .. depth : frames'[i] = frames[i] BY <1>0 DEF Open
<1>2. frames'[depth + 1] = [section |-> section, old_path |-> path, old_overrides |-> override,
                            own |-> PathWithin(section)]
  BY <1>0 DEF Open
<1>3. path' = PathWithin(section) /\ override' = OverrideWithin(section) BY DEF Open
<1>4. Balanced' BY <1>0 DEF Balanced
<1>5. Outer'
  <2>1. CASE depth = 0 BY <1>0, <1>2, <2>1 DEF Outer, Balanced, Both
  <2>2. CASE depth > 0 BY <1>0, <1>1, <2>2 DEF Outer, Both
  <2> QED BY <1>0, <2>1, <2>2
<1>6. Narrow'
  <2> SUFFICES ASSUME Both, start.path # Nowhere PROVE Narrow' BY <1>0 DEF Narrow, Both
  <2>1. path' # Nowhere /\ override' = override
    BY <1>3 DEF Narrow, PathWithin, OverrideWithin, InIf, Nowhere, NoPath
  <2>2. \A i \in 1 .. depth + 1 :
          frames'[i].old_path # Nowhere /\ frames'[i].old_overrides \subseteq start.override
    BY <1>0, <1>1, <1>2 DEF Narrow
  <2> QED BY <1>0, <2>1, <2>2 DEF Narrow
<1>7. Chain'
  <2> SUFFICES ASSUME ver.restores # "neither" PROVE Chain' BY <1>0 DEF Chain
  <2>1. path' = frames'[depth'].own BY <1>0, <1>2, <1>3
  <2>2. ASSUME NEW i \in 1 .. depth PROVE frames'[i + 1].old_path = frames'[i].own
    <3>1. CASE i = depth BY <1>0, <1>1, <1>2, <3>1 DEF Chain
    <3>2. CASE i < depth
      <4>1. i + 1 \in 1 .. depth /\ i \in 1 .. depth - 1 BY <1>0, <3>2
      <4> QED BY <1>1, <4>1 DEF Chain
    <3> QED BY <1>0, <3>1, <3>2
  <2> QED BY <1>0, <2>1, <2>2 DEF Chain
<1> QED BY <1>4, <1>5, <1>6, <1>7

LEMMA CloseKeeps ==
  ASSUME TypeOK, Outer, Narrow, Chain, depth > 0, ver' = ver, start' = start,
         path' = PathAfter, override' = OverrideAfter, depth' = depth - 1,
         frames' = [i \in 1 .. depth - 1 |-> frames[i]]
  PROVE  Balanced' /\ Outer' /\ Narrow' /\ Chain'
<1>0. depth \in Nat /\ depth \in 1 .. depth BY SectionAssumption DEF TypeOK
<1>1. \A i \in 1 .. depth - 1 : frames'[i] = frames[i] OBVIOUS
<1>2. ver.restores # "neither" => path' = frames[depth].old_path BY DEF PathAfter, Top
<1>3. Both => path' = frames[depth].old_path /\ override' = frames[depth].old_overrides
  BY <1>2 DEF OverrideAfter, Top, Both
<1>4. Balanced' BY <1>0, <1>3 DEF Balanced, Outer, Both
<1>5. Outer' BY <1>0, <1>1 DEF Outer, Both
<1>6. Narrow'
  <2> SUFFICES ASSUME Both, start.path # Nowhere PROVE Narrow' BY DEF Narrow, Both
  <2>1. path' # Nowhere /\ override' \subseteq start.override BY <1>0, <1>3 DEF Narrow
  <2>2. \A i \in 1 .. depth - 1 :
          frames'[i].old_path # Nowhere /\ frames'[i].old_overrides \subseteq start.override
    BY <1>0, <1>1 DEF Narrow
  <2> QED BY <2>1, <2>2 DEF Narrow
<1>7. Chain'
  <2> SUFFICES ASSUME ver.restores # "neither" PROVE Chain' BY DEF Chain
  <2>1. ASSUME depth - 1 > 0 PROVE path' = frames'[depth - 1].own
    <3>1. depth - 1 \in 1 .. depth - 1 BY <1>0, <2>1
    <3>2. frames[(depth - 1) + 1].old_path = frames[depth - 1].own BY <3>1 DEF Chain
    <3> QED BY <1>0, <1>1, <1>2, <3>1, <3>2
  <2>2. ASSUME NEW i \in 1 .. depth - 2 PROVE frames'[i + 1].old_path = frames'[i].own
    <3>1. i \in 1 .. depth - 1 /\ i + 1 \in 1 .. depth - 1 BY <1>0, <2>2
    <3> QED BY <1>1, <3>1 DEF Chain
  <2> QED BY <1>0, <2>1, <2>2 DEF Chain
<1> QED BY <1>4, <1>5, <1>6, <1>7

LEMMA OthersKeep ==
  ASSUME Balanced, Outer, Narrow, Chain, UNCHANGED <<ver, start, cmd, calls>>
  PROVE  Balanced' /\ Outer' /\ Narrow' /\ Chain'
BY DEF cmd, calls, Balanced, Outer, Narrow, Chain, Both

LEMMA Invariance == Spec => [](Balanced /\ Outer /\ Narrow /\ Chain /\ NoWidening /\ OwnPath)
<1> DEFINE Inv == Balanced /\ Outer /\ Narrow /\ Chain
<1>1. Init => Inv /\ NoWidening /\ OwnPath
  BY DEF Init, Balanced, Outer, Narrow, Chain, NoWidening, OwnPath, Both
<1>2. TypeOK /\ Inv /\ [Next]_vars => Inv'
  <2> SUFFICES ASSUME TypeOK, Inv, [Next]_vars PROVE Inv' OBVIOUS
  <2>1. CASE UNCHANGED vars BY <2>1, OthersKeep DEF vars
  <2>2. ASSUME NEW section \in Sections, Open(section) PROVE Inv' BY <2>2, OpenKeeps
  <2>3. ASSUME NEW section \in Sections, Fail(section) PROVE Inv' BY <2>3, OthersKeep DEF Fail
  <2>4. ASSUME NEW class, Directive(class) PROVE Inv' BY <2>4, OthersKeep DEF Directive
  <2>5. CASE Close
    <3>1. CASE UNCHANGED <<cmd, calls>> BY <2>5, <3>1, OthersKeep DEF Close
    <3>2. CASE ~UNCHANGED <<cmd, calls>> BY <2>5, <3>2, CloseKeeps DEF Close, cmd, calls
    <3> QED BY <3>1, <3>2
  <2> QED BY <2>1, <2>2, <2>3, <2>4, <2>5 DEF Next
<1>3. TypeOK /\ Inv /\ NoWidening /\ [Next]_vars => NoWidening'
  <2> SUFFICES ASSUME TypeOK, Inv, NoWidening, [Next]_vars PROVE NoWidening' OBVIOUS
  <2>1. CASE UNCHANGED <<ver, start, taken>> BY <2>1 DEF NoWidening
  <2>2. ASSUME NEW class, Directive(class) PROVE NoWidening'
    BY <2>2 DEF Directive, NoWidening, Narrow, Both
  <2> QED BY <2>1, <2>2 DEF Next, vars, Open, Fail, Close
<1>4. TypeOK /\ Inv /\ OwnPath /\ [Next]_vars => OwnPath'
  <2> SUFFICES ASSUME TypeOK, Inv, OwnPath, [Next]_vars PROVE OwnPath' OBVIOUS
  <2>1. CASE UNCHANGED <<ver, added>> BY <2>1 DEF OwnPath
  <2>2. CASE Close
    <3>1. CASE added' = added BY <2>2, <3>1 DEF OwnPath, Close
    <3>2. CASE added' = {[section |-> Top.section, d |-> path, own |-> Top.own]}
      <4>1. ver' = ver /\ depth > 0 BY <2>2 DEF Close
      <4>2. ver.restores # "neither" => path = Top.own BY <4>1 DEF Chain, Top
      <4> QED BY <3>2, <4>1, <4>2 DEF OwnPath
    <3> QED BY <2>2, <3>1, <3>2 DEF Close
  <2> QED BY <2>1, <2>2 DEF Next, vars, Open, Fail, Directive
<1> QED BY <1>1, <1>2, <1>3, <1>4, TypeCorrect, PTL DEF Spec

\* A copy that restores both changes nothing after the end of a section, at any depth.
THEOREM BalancedCorrect == Spec => []Balanced
BY Invariance, PTL

\* In a directory's configuration such a copy allows nothing more than the directory does.
THEOREM NoWideningCorrect == Spec => []NoWidening
BY Invariance, PTL

\* Every section is added under its own path, whatever it holds.
THEOREM OwnPathCorrect == Spec => []OwnPath
BY Invariance, PTL
-----------------------------------------------------------------------------
(* The start of the server: sorting.                                        *)
Increasing(s) == \A i, j \in DOMAIN s : i < j => s[i] < s[j]
Distinct(s) == \A i, j \in DOMAIN s : i # j => s[i] # s[j]

\* Sorting keeps what is in the sequence, and puts it in order.
LEMMA SortingSorts ==
  ASSUME NEW s \in Seq(Nat), Distinct(s)
  PROVE  /\ Sorted(s) \in Seq(Nat) /\ Increasing(Sorted(s))
         /\ Range(Sorted(s)) = Range(s)
<1> DEFINE N == Len(s)
           R == Range(s)
           L(n) == {m \in R : m <= n}
           p == [n \in R |-> Place(n, R)]
<1>1. /\ N \in Nat /\ s \in [1 .. N -> Nat] /\ R \subseteq Nat
      /\ s \in [1 .. N -> R] /\ \A n \in R : \E i \in 1 .. N : s[i] = n
  BY DEF Range
<1>2. IsFiniteSet(R) /\ Cardinality(R) = N
  <2>1. IsFiniteSet(1 .. N) /\ Cardinality(1 .. N) = N BY <1>1, FS_Interval
  <2>2. s \in Surjection(1 .. N, R) BY <1>1 DEF Surjection
  <2>3. s \in Injection(1 .. N, R)
    <3>1. DOMAIN s = 1 .. N BY <1>1
    <3> QED BY <1>1, <3>1 DEF Injection, IsInjective, Distinct
  <2> HIDE DEF R, N
  <2> QED BY <2>1, <2>2, <2>3, FS_Surjection
<1> HIDE DEF N, R
<1>3. ASSUME NEW n \in R
      PROVE  Place(n, R) = Cardinality(L(n)) /\ IsFiniteSet(L(n)) /\ Cardinality(L(n)) \in 1 .. N
  <2>1. IsFiniteSet(L(n)) /\ Cardinality(L(n)) <= N BY <1>2, FS_Subset
  <2>2. Cardinality(L(n)) \in Nat BY <2>1, FS_CardinalityType
  <2>3. n \in L(n) BY <1>1
  <2>4. Cardinality(L(n)) # 0 BY <2>1, <2>3, FS_EmptySet
  <2>5. Cardinality(L(n)) \in 1 .. N
    <3> HIDE DEF L
    <3> QED BY <1>1, <2>1, <2>2, <2>4
  <2> QED BY <2>1, <2>5 DEF Place
<1>4. ASSUME NEW m \in R, NEW n \in R, m < n PROVE Place(m, R) < Place(n, R)
  <2>1. L(m) \subseteq L(n) \ {n}
    <3> SUFFICES ASSUME NEW k \in R, k <= m PROVE k <= n /\ k # n OBVIOUS
    <3>1. k \in Nat /\ m \in Nat /\ n \in Nat BY <1>1
    <3> QED BY <1>4, <3>1
  <2>2. IsFiniteSet(L(n) \ {n}) /\ Cardinality(L(n) \ {n}) = Cardinality(L(n)) - 1
    <3>1. n \in L(n) BY <1>1
    <3> QED BY <1>3, <3>1, FS_RemoveElement
  <2>3. Cardinality(L(m)) <= Cardinality(L(n)) - 1 BY <2>1, <2>2, FS_Subset
  <2>4. Cardinality(L(m)) \in Nat /\ Cardinality(L(n)) \in Nat BY <1>3
  <2> HIDE DEF L
  <2> QED BY <1>3, <2>3, <2>4
<1>5. \A m, n \in R : Place(m, R) = Place(n, R) => m = n
  <2> SUFFICES ASSUME NEW m \in R, NEW n \in R, Place(m, R) = Place(n, R), m # n PROVE FALSE
    OBVIOUS
  <2>1. m \in Nat /\ n \in Nat BY <1>1
  <2>2. m < n \/ n < m BY <2>1
  <2> HIDE DEF L
  <2>3. Place(m, R) \in 1 .. N BY <1>3
  <2>4. Place(m, R) \in Nat BY <2>3
  <2> QED BY <1>4, <2>2, <2>4
<1>6. \A i \in 1 .. N : \E n \in R : Place(n, R) = i
  <2>1. p \in Injection(R, 1 .. N) BY <1>3, <1>5 DEF Injection, IsInjective
  <2>2. IsFiniteSet(1 .. N) /\ Cardinality(1 .. N) = N BY <1>1, FS_Interval
  <2>3. p \in Surjection(R, 1 .. N)
    <3> HIDE DEF p
    <3> QED BY <1>2, <2>1, <2>2, FS_Injection
  <2> QED BY <2>3 DEF Surjection
<1> DEFINE t == Sorted(s)
<1>7. DOMAIN t = 1 .. N /\ \A i \in 1 .. N : t[i] \in R /\ Place(t[i], R) = i
  <2>1. t = [i \in 1 .. N |-> CHOOSE n \in R : Place(n, R) = i] BY <1>1 DEF Sorted, R
  <2> QED BY <1>6, <2>1
<1> HIDE DEF t
<1>8. t \in Seq(Nat)
  <2>1. t = [i \in 1 .. N |-> t[i]] BY <1>7 DEF t, Sorted
  <2>2. \A i \in 1 .. N : t[i] \in Nat BY <1>1, <1>7
  <2>3. N \in Nat BY <1>1
  <2> HIDE DEF R
  <2> QED BY <2>1, <2>2, <2>3
<1>9. Increasing(t)
  <2> SUFFICES ASSUME NEW i \in 1 .. N, NEW j \in 1 .. N, i < j PROVE t[i] < t[j]
    BY <1>7 DEF Increasing
  <2>1. t[i] \in Nat /\ t[j] \in Nat BY <1>1, <1>7
  <2>2. t[i] < t[j] \/ t[i] = t[j] \/ t[j] < t[i] BY <2>1
  <2>3. CASE t[i] = t[j] BY <1>7, <2>3
  <2>4. CASE t[j] < t[i]
    <3>1. j < i BY <1>4, <1>7, <2>4
    <3> QED BY <1>1, <3>1
  <2> QED BY <2>2, <2>3, <2>4
<1>10. Range(t) = R
  <2> HIDE DEF L
  <2>1. ASSUME NEW n \in R PROVE \E i \in 1 .. N : t[i] = n
    <3>1. Place(n, R) \in 1 .. N BY <1>3
    <3> QED BY <1>5, <1>7, <3>1
  <2> QED BY <1>7, <2>1 DEF Range
<1> QED BY <1>8, <1>9, <1>10 DEF t, R
LEMMA RangeOfAppend ==
  ASSUME NEW s \in Seq(Nat), NEW x \in Nat
  PROVE  Range(Append(s, x)) = Range(s) \cup {x}
<1> DEFINE more == Append(s, x)
<1>1. /\ Len(s) \in Nat /\ DOMAIN s = 1 .. Len(s) /\ DOMAIN more = 1 .. Len(s) + 1
      /\ more[Len(s) + 1] = x /\ \A i \in 1 .. Len(s) : more[i] = s[i]
  OBVIOUS
<1> HIDE DEF more
<1>2. \A i \in 1 .. Len(s) + 1 : i = Len(s) + 1 \/ i \in 1 .. Len(s) BY <1>1
<1>3. Len(s) + 1 \in 1 .. Len(s) + 1 /\ 1 .. Len(s) \subseteq 1 .. Len(s) + 1 BY <1>1
<1>4. Range(more) \subseteq Range(s) \cup {x} BY <1>1, <1>2 DEF Range
<1>5. Range(s) \cup {x} \subseteq Range(more) BY <1>1, <1>3 DEF Range
<1> QED BY <1>4, <1>5 DEF more

LEMMA DistinctAppend ==
  ASSUME NEW s \in Seq(Nat), Distinct(s), NEW x \in Nat, x \notin Range(s)
  PROVE  Distinct(Append(s, x))
<1> DEFINE more == Append(s, x)
<1>1. /\ Len(s) \in Nat /\ DOMAIN s = 1 .. Len(s) /\ DOMAIN more = 1 .. Len(s) + 1
      /\ more[Len(s) + 1] = x /\ \A i \in 1 .. Len(s) : more[i] = s[i]
  OBVIOUS
<1> HIDE DEF more
<1>2. \A i \in 1 .. Len(s) + 1 : i = Len(s) + 1 \/ i \in 1 .. Len(s) BY <1>1
<1>3. \A i \in 1 .. Len(s) : s[i] # x BY <1>1 DEF Range
<1>4. Distinct(more) BY <1>1, <1>2, <1>3 DEF Distinct
<1> QED BY <1>4 DEF more
-----------------------------------------------------------------------------
(* The reading.  Careful: a pattern, read by a copy that takes only what    *)
(* matches and stops at an error.                                          *)
Careful ==
  include.form = "pattern" /\ s_ver.files.filter = "matching" /\ ~s_ver.files.ignores

StartTyped ==
  /\ s_ver \in StartVersions /\ include \in Includes /\ conf \in Configurations
  /\ files \in SUBSET Names

\* A start begins with nothing read, listed or checked.
Fresh ==
  /\ at \in {"start", "listing"} => current = 1 /\ tree = <<>>
  /\ at = "start" => candidates = <<>> /\ stayed = {}
  /\ at \in {"start", "listing", "reading", "read"} =>
       server = 1 /\ directive = DOMAIN conf.transfers /\ rv

\* Only files that were there in the listing, and each that stayed, if it had an end.
Whole(names) ==
  /\ names \subseteq seen \cap Matching
  /\ ~partial => stayed \cap Matching \subseteq names

\* Each entry that matches is still to be returned or among the candidates.
Listed ==
  at = "listing" /\ Careful =>
    /\ candidates \in Seq(Nat) /\ Distinct(candidates)
    /\ Range(candidates) \cap unread = {} /\ unread \subseteq Nat
    /\ unread \subseteq seen \cup Dots
    /\ Whole((unread \cap Matching) \cup Range(candidates))

\* The tree is what has been read of the candidates, in order.
InOrder ==
  at = "reading" /\ Careful =>
    /\ candidates \in Seq(Nat) /\ Increasing(candidates)
    /\ Whole(Range(candidates))
    /\ current \in 1 .. Len(candidates) + 1
    /\ tree = [i \in 1 .. current - 1 |-> candidates[i]]

\* A reading that has ended well has read them all.
AllRead == at = "read" /\ Careful => Increasing(tree) /\ Whole(Range(tree))

ReadInv == StartTyped /\ Fresh /\ Listed /\ InOrder /\ AllRead
-----------------------------------------------------------------------------
(* The checks.                                                             *)
ErrorWell(i, dirs) ==
  conf.errors[i].name = "file" /\ ~conf.errors[i].provider => conf.errors[i].parent \in dirs
TransferWell(c, dirs) ==
  conf.transfers[c].name = "file" => conf.transfers[c].parent \in dirs

\* Why a server may be refused.
Excuse(dirs) ==
  \/ Needed \cap dirs # {}
  \/ s_ver.error.asks \/ s_ver.transfer.asks
  \/ /\ s_ver.error.exempt = "syslog"
     /\ \E log \in Range(conf.errors) : log.provider

\* The error logs that were checked are well, or the server is refused with an excuse.
ErrorsChecked ==
  at = "error logs" =>
    /\ server \in 1 .. Len(conf.errors) /\ directive = DOMAIN conf.transfers
    /\ LooksRight => /\ rv => \A i \in 1 .. server - 1 : ErrorWell(i, found)
                     /\ ~rv => Excuse(missed)

\* So are the transfer logs that were checked or have no directive left.
TransfersChecked ==
  at = "transfer logs" =>
    /\ server \in 1 .. Len(conf.uses) /\ directive \subseteq DOMAIN conf.transfers
    /\ LooksRight => /\ rv => /\ \A i \in 1 .. Len(conf.errors) : ErrorWell(i, found)
                              /\ \A c \in DOMAIN conf.transfers \ directive : TransferWell(c, found)
                              /\ \A i \in 1 .. server - 1 : TransferWell(conf.uses[i], found)
                     /\ ~rv => Excuse(missed)

Verdict ==
  /\ at = "checked" /\ LooksRight => (rv => Needed \subseteq found) /\ (~rv => Excuse(missed))
  /\ at = "refused" /\ LooksRight => Excuse(missed)
  /\ at \in {"up", "not opened"} /\ LooksRight => Needed \subseteq found

CheckInv == ErrorsChecked /\ TransfersChecked /\ Verdict
-----------------------------------------------------------------------------
LEMMA ReadInit == StartInit => ReadInv
<1> SUFFICES ASSUME StartInit PROVE ReadInv OBVIOUS
<1> USE DEF StartInit
<1>1. StartTyped BY DEF StartTyped
<1>2. Fresh BY DEF Fresh
<1>3. Listed /\ InOrder /\ AllRead BY DEF Listed, InOrder, AllRead
<1> QED BY <1>1, <1>2, <1>3 DEF ReadInv

LEMMA ReadStep == ReadInv /\ [StartNext]_start_vars => ReadInv'
<1> SUFFICES ASSUME ReadInv, [StartNext]_start_vars PROVE ReadInv' OBVIOUS
<1>t. StartTyped'
  <2>1. s_ver' = s_ver /\ include' = include /\ conf' = conf /\ files' \in SUBSET Names
    BY DEF ReadInv, StartTyped, StartNext, start_vars, fixed, world, SkipDefault, ReadPlain,
       OpenDir, ReadEntry, ListingFails, CloseDir, ReadFile, EndReading, StartChecks,
       CheckErrorLog, CheckTransferLog, Refuse, OpenLogs, Restart, Change, ChangeFile,
       ChangeDirectory, Toggled
  <2> QED BY <2>1 DEF ReadInv, StartTyped
<1> USE DEF fixed, world, reading, listing, checking
<1>1. CASE SkipDefault
  <2>1. Fresh' BY <1>1 DEF SkipDefault, ReadInv, Fresh
  <2>2. Listed' /\ InOrder' BY <1>1 DEF SkipDefault, Listed, InOrder
  <2>3. AllRead'
    <3>1. tree' = <<>> /\ stayed' = {} BY <1>1 DEF SkipDefault, ReadInv, Fresh
    <3>2. Range(<<>>) = {} BY DEF Range
    <3>3. Whole(Range(tree))' BY <3>1, <3>2 DEF Whole
    <3> QED BY <3>1, <3>3 DEF AllRead, Increasing
  <2> QED BY <1>t, <2>1, <2>2, <2>3 DEF ReadInv
<1>2. CASE ReadPlain
  <2>1. Fresh' BY <1>2 DEF ReadPlain, ReadInv, Fresh
  <2>2. Listed' /\ InOrder' BY <1>2 DEF ReadPlain, Listed, InOrder
  <2>3. AllRead' BY <1>2 DEF ReadPlain, AllRead, Careful
  <2> QED BY <1>t, <2>1, <2>2, <2>3 DEF ReadInv
<1>3. CASE OpenDir
  <2>1. Fresh' BY <1>3 DEF OpenDir, ReadInv, Fresh
  <2>2. InOrder' /\ AllRead' BY <1>3 DEF OpenDir, InOrder, AllRead
  <2>3. Listed'
    <3> SUFFICES ASSUME at' = "listing" PROVE Listed' BY DEF Listed
    <3>1. /\ candidates' = <<>> /\ unread' = files \cup Dots
          /\ stayed' = files /\ seen' = files
      BY <1>3 DEF OpenDir, ReadInv, Fresh
    <3>2. files \subseteq Nat /\ Matching \cap Dots = {}
      BY StartAssumption DEF ReadInv, StartTyped
    <3>3. Range(<<>>) = {} BY DEF Range
    <3>4. <<>> \in Seq(Nat) /\ Distinct(<<>>) BY DEF Distinct
    <3>5. unread' \subseteq Nat BY <3>1, <3>2 DEF Dots
    <3>6. Whole((unread \cap Matching) \cup Range(candidates))'
      BY <3>1, <3>2, <3>3 DEF Whole
    <3> QED BY <3>1, <3>3, <3>4, <3>5, <3>6 DEF Listed
  <2> QED BY <1>t, <2>1, <2>2, <2>3 DEF ReadInv
<1>4. CASE ReadEntry
  <2>1. Fresh' BY <1>4 DEF ReadEntry, ReadInv, Fresh
  <2>2. InOrder' /\ AllRead' BY <1>4 DEF ReadEntry, InOrder, AllRead
  <2>3. Listed'
    <3> SUFFICES ASSUME Careful' PROVE Listed' BY DEF Listed
    <3>1. Careful /\ Listed BY <1>4 DEF ReadEntry, Careful, ReadInv
    <3>2. PICK entry \in unread :
            /\ unread' = unread \ {entry}
            /\ candidates' = IF entry \in Matching THEN Append(candidates, entry) ELSE candidates
      BY <1>4, <3>1 DEF ReadEntry, Takes, Careful
    <3>3. /\ candidates \in Seq(Nat) /\ Distinct(candidates)
          /\ Range(candidates) \cap unread = {} /\ unread \subseteq Nat
          /\ unread \subseteq seen \cup Dots
          /\ Whole((unread \cap Matching) \cup Range(candidates))
      BY <1>4, <3>1 DEF Listed, ReadEntry
    <3>4. UNCHANGED listing BY <1>4 DEF ReadEntry
    <3>5. CASE entry \notin Matching
      <4>1. Whole((unread \cap Matching) \cup Range(candidates))'
        BY <3>2, <3>3, <3>4, <3>5 DEF Whole
      <4> QED BY <3>2, <3>3, <3>4, <3>5, <4>1 DEF Listed
    <3>6. CASE entry \in Matching
      <4> DEFINE more == Append(candidates, entry)
      <4>1. more \in Seq(Nat) BY <3>3
      <4>2. Range(more) = Range(candidates) \cup {entry} BY <3>3, RangeOfAppend
      <4>3. Distinct(more) BY <3>3, DistinctAppend
      <4> HIDE DEF more
      <4>4. candidates' = more BY <3>2, <3>6 DEF more
      <4>5. Whole((unread \cap Matching) \cup Range(candidates))'
        BY <3>2, <3>3, <3>4, <3>6, <4>2, <4>4 DEF Whole
      <4> QED BY <3>2, <3>3, <3>4, <3>6, <4>1, <4>2, <4>3, <4>4, <4>5 DEF Listed
    <3> QED BY <3>5, <3>6
  <2> QED BY <1>t, <2>1, <2>2, <2>3 DEF ReadInv
<1>4a. CASE ListingFails
  <2>1. Fresh' BY <1>4a DEF ListingFails, ReadInv, Fresh
  <2>2. InOrder' /\ AllRead' BY <1>4a DEF ListingFails, InOrder, AllRead
  <2>3. Listed'
    <3> SUFFICES ASSUME Careful' PROVE Listed' BY DEF Listed
    <3>1. Careful /\ Listed BY <1>4a DEF ListingFails, Careful, ReadInv
    <3>2. /\ candidates \in Seq(Nat) /\ Distinct(candidates)
          /\ Whole((unread \cap Matching) \cup Range(candidates))
      BY <1>4a, <3>1 DEF Listed, ListingFails
    <3>3. unread' = {} /\ partial' /\ candidates' = candidates /\ seen' = seen
      BY <1>4a DEF ListingFails
    <3>4. Whole((unread \cap Matching) \cup Range(candidates))'
      BY <3>2, <3>3 DEF Whole
    <3> QED BY <3>2, <3>3, <3>4 DEF Listed
  <2> QED BY <1>t, <2>1, <2>2, <2>3 DEF ReadInv
<1>5. CASE CloseDir
  <2>1. Fresh' BY <1>5 DEF CloseDir, ReadInv, Fresh
  <2>2. Listed' /\ AllRead' BY <1>5 DEF CloseDir, Listed, AllRead
  <2>3. InOrder'
    <3> SUFFICES ASSUME Careful' PROVE InOrder' BY DEF InOrder
    <3>1. Careful /\ Listed /\ Fresh BY <1>5 DEF CloseDir, Careful, ReadInv
    <3>2. candidates \in Seq(Nat) /\ Distinct(candidates) /\ Whole(Range(candidates))
      <4>1. (unread \cap Matching) \cup Range(candidates) = Range(candidates)
        BY <1>5 DEF CloseDir
      <4> QED BY <1>5, <3>1, <4>1 DEF Listed, CloseDir
    <3>3. candidates' \in Seq(Nat) /\ Increasing(candidates')
          /\ Range(candidates') = Range(candidates)
      BY <1>5, <3>2, SortingSorts DEF CloseDir
    <3>4. current' = 1 /\ tree' = <<>> BY <1>5, <3>1 DEF CloseDir, Fresh
    <3>5. Len(candidates') \in Nat BY <3>3
    <3>6. tree' = [i \in 1 .. current' - 1 |-> candidates'[i]] BY <3>4
    <3>7. Whole(Range(candidates))' BY <1>5, <3>2, <3>3 DEF CloseDir, Whole
    <3> QED BY <3>3, <3>4, <3>5, <3>6, <3>7 DEF InOrder
  <2> QED BY <1>t, <2>1, <2>2, <2>3 DEF ReadInv
<1>6. CASE ReadFile
  <2>1. Fresh' BY <1>6 DEF ReadFile, ReadInv, Fresh
  <2>2. Listed' /\ AllRead' BY <1>6 DEF ReadFile, Listed, AllRead
  <2>3. InOrder'
    <3> SUFFICES ASSUME Careful', at' = "reading" PROVE InOrder' BY DEF InOrder
    <3>1. Careful /\ InOrder BY <1>6 DEF ReadFile, Careful, ReadInv
    <3>2. /\ candidates \in Seq(Nat) /\ Increasing(candidates)
          /\ Whole(Range(candidates))
          /\ current \in 1 .. Len(candidates) + 1
          /\ tree = [i \in 1 .. current - 1 |-> candidates[i]]
      BY <1>6, <3>1 DEF InOrder, ReadFile
    <3>3. /\ tree' = Append(tree, candidates[current]) /\ current' = current + 1
          /\ candidates' = candidates /\ UNCHANGED listing
          /\ current <= Len(candidates)
      BY <1>6, <3>1 DEF ReadFile, Careful
    <3>4. Len(candidates) \in Nat /\ current \in 1 .. Len(candidates) BY <3>2, <3>3
    <3>5. tree' = [i \in 1 .. current' - 1 |-> candidates[i]]
      <4>1. tree \in Seq(Nat) /\ Len(tree) = current - 1 /\ current - 1 \in Nat
        <5>1. candidates \in [1 .. Len(candidates) -> Nat] BY <3>2
        <5>2. \A i \in 1 .. current - 1 : candidates[i] \in Nat BY <3>4, <5>1
        <5> QED BY <3>2, <3>4, <5>2
      <4>2. Append(tree, candidates[current]) =
              [i \in 1 .. current |-> IF i = current THEN candidates[current] ELSE tree[i]]
        BY <3>2, <3>4, <4>1
      <4>3. \A i \in 1 .. current - 1 : tree[i] = candidates[i] BY <3>2
      <4> QED BY <3>3, <3>4, <4>2, <4>3
    <3>6. Whole(Range(candidates))' BY <3>2, <3>3 DEF Whole
    <3> QED BY <3>2, <3>3, <3>4, <3>5, <3>6 DEF InOrder
  <2> QED BY <1>t, <2>1, <2>2, <2>3 DEF ReadInv
<1>7. CASE EndReading
  <2>1. Fresh' BY <1>7 DEF EndReading, ReadInv, Fresh
  <2>2. Listed' /\ InOrder' BY <1>7 DEF EndReading, Listed, InOrder
  <2>3. AllRead'
    <3> SUFFICES ASSUME Careful' PROVE AllRead' BY DEF AllRead
    <3>1. Careful /\ InOrder BY <1>7 DEF EndReading, Careful, ReadInv
    <3>2. /\ candidates \in Seq(Nat) /\ Increasing(candidates)
          /\ Whole(Range(candidates))
          /\ current \in 1 .. Len(candidates) + 1
          /\ tree = [i \in 1 .. current - 1 |-> candidates[i]]
          /\ current > Len(candidates) /\ Len(candidates) \in Nat
      BY <1>7, <3>1 DEF InOrder, EndReading
    <3>3. current - 1 = Len(candidates) BY <3>2
    <3>4. tree = candidates BY <3>2, <3>3
    <3>5. tree' = tree /\ UNCHANGED listing BY <1>7 DEF EndReading
    <3>6. Whole(Range(tree))' BY <3>2, <3>4, <3>5 DEF Whole
    <3> QED BY <3>2, <3>4, <3>5, <3>6 DEF AllRead
  <2> QED BY <1>t, <2>1, <2>2, <2>3 DEF ReadInv
<1>8. CASE StartChecks \/ CheckErrorLog \/ CheckTransferLog \/ Refuse \/ OpenLogs
  <2>1. /\ at \notin {"start", "listing", "reading", "read"} \/ at = "read"
        /\ at' \notin {"start", "listing", "reading", "read"}
    BY <1>8 DEF StartChecks, CheckErrorLog, CheckTransferLog, Refuse, OpenLogs, Advance
  <2> QED BY <1>t, <2>1 DEF ReadInv, Fresh, Listed, InOrder, AllRead
<1>9. CASE Restart
  BY <1>t, <1>9 DEF Restart, ReadInv, Fresh, Listed, InOrder, AllRead
<1>10. CASE Change
  <2>1. /\ at' = at /\ candidates' = candidates /\ current' = current /\ tree' = tree
        /\ server' = server /\ directive' = directive /\ rv' = rv /\ partial' = partial
        /\ conf' = conf /\ Careful' = Careful
    BY <1>10 DEF Change, Careful
  <2>2. \/ at # "listing" /\ UNCHANGED <<unread, stayed, seen>>
        \/ at = "listing" /\ \E n \in Names : ChangeFile(n)
        \/ at = "listing" /\ UNCHANGED <<unread, stayed, seen>>
    BY <1>10 DEF Change, ChangeFile, ChangeDirectory
  <2>3. CASE UNCHANGED <<unread, stayed, seen>>
    <3>2. Listed' BY <2>1, <2>3 DEF ReadInv, Listed, Whole
    <3>3. InOrder' /\ AllRead' BY <2>1, <2>3 DEF ReadInv, InOrder, AllRead, Whole
    <3> QED BY <1>t, <2>1, <2>3, <3>2, <3>3 DEF ReadInv, Fresh
  <2>4. CASE at = "listing" /\ \E n \in Names : ChangeFile(n)
    <3>1. Fresh' /\ InOrder' /\ AllRead' BY <2>1, <2>4 DEF ReadInv, Fresh, InOrder, AllRead
    <3>2. ASSUME Careful PROVE Listed'
      <4>1. PICK n \in Names : ChangeFile(n) BY <2>4
      <4>2. /\ candidates \in Seq(Nat) /\ Distinct(candidates)
            /\ Range(candidates) \cap unread = {} /\ unread \subseteq Nat
            /\ unread \subseteq seen \cup Dots
            /\ Whole((unread \cap Matching) \cup Range(candidates))
        BY <2>4, <3>2 DEF ReadInv, Listed
      <4>3. /\ files' = Toggled(files, n)
            /\ \/ n \in files /\ unread' = unread \ {n}
               \/ n \notin files \cup Range(candidates) /\ unread' = unread \cup {n}
               \/ unread' = unread
            /\ stayed' = stayed \cap files' /\ seen' = seen \cup files'
        BY <2>4, <4>1 DEF ChangeFile
      <4>4. n \in Nat BY StartAssumption
      <4>5. CASE unread' = unread
        BY <2>1, <4>2, <4>3, <4>5 DEF Listed, Whole
      <4>6. CASE n \in files /\ unread' = unread \ {n}
        <5>1. n \notin stayed' BY <4>3, <4>6 DEF Toggled
        <5> QED BY <2>1, <4>2, <4>3, <4>6, <5>1 DEF Listed, Whole
      <4>7. CASE n \notin files \cup Range(candidates) /\ unread' = unread \cup {n}
        <5>1. n \in seen' BY <4>3, <4>7 DEF Toggled
        <5> QED BY <2>1, <4>2, <4>3, <4>4, <4>7, <5>1 DEF Listed, Whole
      <4> QED BY <4>3, <4>5, <4>6, <4>7
    <3> QED BY <1>t, <2>1, <3>1, <3>2 DEF ReadInv, Listed
  <2> QED BY <2>2, <2>3, <2>4
<1>11. CASE UNCHANGED start_vars
  <2>1. Careful' = Careful BY <1>11 DEF start_vars, Careful
  <2>2. Listed' BY <1>11, <2>1 DEF start_vars, ReadInv, Listed, Whole
  <2>3. InOrder' /\ AllRead' BY <1>11, <2>1 DEF start_vars, ReadInv, InOrder, AllRead, Whole
  <2> QED BY <1>t, <1>11, <2>1, <2>2, <2>3 DEF start_vars, ReadInv, Fresh
<1> QED BY <1>1, <1>2, <1>3, <1>4, <1>4a, <1>5, <1>6, <1>7, <1>8, <1>9, <1>10, <1>11 DEF StartNext
-----------------------------------------------------------------------------
LEMMA Shapes ==
  ASSUME StartTyped
  PROVE  /\ conf.errors \in Seq(ErrorLog) /\ conf.transfers \in Seq(TransferLog)
         /\ conf.uses \in Seq(Nat)
         /\ Len(conf.errors) \in Nat \ {0} /\ Len(conf.uses) \in Nat \ {0}
         /\ \A i \in 1 .. Len(conf.errors) : conf.errors[i] \in ErrorLog
         /\ \A c \in DOMAIN conf.transfers : conf.transfers[c] \in TransferLog
         /\ \A i \in 1 .. Len(conf.uses) : conf.uses[i] \in DOMAIN conf.transfers
         /\ \A c \in DOMAIN conf.transfers : \E i \in 1 .. Len(conf.uses) : conf.uses[i] = c
         /\ \A i \in 1 .. Len(conf.errors) :
              conf.errors[i].name = "syslog" => conf.errors[i].provider
<1>1. conf \in Configuration BY StartAssumption DEF StartTyped
<1>2. /\ conf.errors \in Seq(ErrorLog) /\ conf.transfers \in Seq(TransferLog)
      /\ conf.uses \in Seq(Nat)
  BY <1>1 DEF Configuration
<1>3. /\ Len(conf.errors) > 0 /\ Len(conf.uses) > 0
      /\ Range(conf.uses) = DOMAIN conf.transfers
      /\ \A log \in Range(conf.errors) : log.name = "syslog" => log.provider
  BY StartAssumption DEF StartTyped
<1>4. Len(conf.errors) \in Nat \ {0} /\ Len(conf.uses) \in Nat \ {0} BY <1>2, <1>3
<1>5. DOMAIN conf.errors = 1 .. Len(conf.errors) /\ DOMAIN conf.uses = 1 .. Len(conf.uses)
  BY <1>2
<1>6. /\ \A i \in 1 .. Len(conf.errors) : conf.errors[i] \in ErrorLog
      /\ \A c \in DOMAIN conf.transfers : conf.transfers[c] \in TransferLog
  BY <1>2
<1> QED BY <1>2, <1>3, <1>4, <1>5, <1>6 DEF Range

\* The logs have had their directories when each of them had.
LEMMA NeededOfEach ==
  ASSUME StartTyped, NEW dirs,
         \A i \in 1 .. Len(conf.errors) : ErrorWell(i, dirs),
         \A c \in DOMAIN conf.transfers : TransferWell(c, dirs)
  PROVE  Needed \subseteq dirs
<1>1. DOMAIN conf.errors = 1 .. Len(conf.errors) BY Shapes
<1>2. \A d \in Needed :
        \/ \E i \in 1 .. Len(conf.errors) :
             conf.errors[i].name = "file" /\ ~conf.errors[i].provider /\ d = conf.errors[i].parent
        \/ \E c \in DOMAIN conf.transfers :
             conf.transfers[c].name = "file" /\ d = conf.transfers[c].parent
  BY <1>1 DEF Needed, Range
<1> QED BY <1>2 DEF ErrorWell, TransferWell

LEMMA CheckInit == StartInit => CheckInv
BY DEF StartInit, CheckInv, ErrorsChecked, TransfersChecked, Verdict

\* What was found, or missed, stays so until the next start.
LEMMA Remembered ==
  ASSUME found \subseteq found', missed \subseteq missed'
  PROVE  /\ Excuse(missed) => Excuse(missed')
         /\ \A i : ErrorWell(i, found) => ErrorWell(i, found')
         /\ \A c : TransferWell(c, found) => TransferWell(c, found')
<1>1. Excuse(missed) => Excuse(missed') BY DEF Excuse
<1>2. \A i : ErrorWell(i, found) => ErrorWell(i, found') BY DEF ErrorWell
<1>3. \A c : TransferWell(c, found) => TransferWell(c, found') BY DEF TransferWell
<1> QED BY <1>1, <1>2, <1>3

\* The same server is meant after a step as before it.
LEMMA SameServer ==
  ASSUME UNCHANGED fixed
  PROVE  /\ LooksRight' = LooksRight /\ Needed' = Needed
         /\ Excuse(missed)' = Excuse(missed')
         /\ \A i : ErrorWell(i, found)' = ErrorWell(i, found')
         /\ \A c : TransferWell(c, found)' = TransferWell(c, found')
BY DEF fixed, LooksRight, Needed, Excuse, ErrorWell, TransferWell

LEMMA Grows ==
  ASSUME NEW sought, Finds(sought)
  PROVE  found \subseteq found' /\ missed \subseteq missed'
BY DEF Finds

\* What a check of an error log finds, where it looks at the parent.
LEMMA ErrorVerdict ==
  ASSUME StartTyped, LooksRight, UNCHANGED fixed, NEW i \in 1 .. Len(conf.errors),
         Finds(ErrorSeeks(conf.errors[i])),
         NEW verdict \in ErrorVerdicts(conf.errors[i])
  PROVE  /\ verdict \in BOOLEAN
         /\ verdict => ErrorWell(i, found')
         /\ ~verdict => Excuse(missed')
<1> DEFINE log == conf.errors[i]
<1>0. s_ver' = s_ver /\ conf' = conf BY DEF fixed
<1>1. log \in ErrorLog /\ (log.name = "syslog" => log.provider) BY Shapes
<1>2. s_ver.error.exempt \in {"provider", "syslog"}
  <2>1. PICK e \in {Error_1001, Error_467, Error_201, Error_218, Error_346_safe, Error_201_safe,
                    Error_370, Error_565, Error_182} : s_ver.error = e
    BY DEF StartTyped, StartVersions, StartVersion
  <2>2. /\ Error_1001.exempt = "provider" /\ Error_467.exempt = "provider"
        /\ Error_346_safe.exempt = "provider" /\ Error_370.exempt = "provider"
        /\ Error_565.exempt = "provider"
    BY DEF Error_1001, Error_467, Error_346_safe, Error_370, Error_565
  <2>3. /\ Error_201.exempt = "syslog" /\ Error_218.exempt = "syslog"
        /\ Error_201_safe.exempt = "syslog" /\ Error_182.exempt = "syslog"
    BY DEF Error_1001, Error_467, Error_201, Error_218, Error_201_safe, Error_182
  <2> QED BY <2>1, <2>2, <2>3
<1>3. log.name \in {"none", "pipe", "syslog", "file"} /\ log.provider \in BOOLEAN
  BY <1>1 DEF ErrorLog
<1>4. log.name = "file" /\ ~log.provider => ~Exempt(log) BY <1>2 DEF Exempt
<1>5. ~Exempt(log) => log.name = "file" /\ (log.provider => s_ver.error.exempt = "syslog")
  BY <1>1, <1>2, <1>3 DEF Exempt
<1>6. verdict \in BOOLEAN BY DEF ErrorVerdicts
<1>7. Exempt(log) => verdict BY DEF ErrorVerdicts
<1>8. ~Exempt(log) => (verdict <=> log.parent \in directories) \/ (s_ver.error.asks /\ ~verdict)
  <2> DEFINE there == \/ s_ver.error.looks = "nothing"
                      \/ s_ver.error.looks = "parent" /\ log.parent \in directories
  <2>1. ~Exempt(log) => verdict \in {there} \cup (IF s_ver.error.asks THEN {FALSE} ELSE {})
    BY DEF ErrorVerdicts
  <2>2. there <=> log.parent \in directories BY DEF LooksRight
  <2> HIDE DEF there
  <2>3. ~Exempt(log) => verdict = there \/ (s_ver.error.asks /\ verdict = FALSE) BY <2>1
  <2> QED BY <2>2, <2>3
<1>9. log \in Range(conf.errors)
  <2>1. i \in DOMAIN conf.errors BY Shapes
  <2> QED BY <2>1 DEF Range
<1>10. ~Exempt(log) => /\ log.parent \in directories => log.parent \in found'
                       /\ log.parent \notin directories => log.parent \in missed'
  BY DEF Finds, ErrorSeeks, LooksRight
<1>11. verdict => ErrorWell(i, found') BY <1>0, <1>4, <1>8, <1>10 DEF ErrorWell
<1>12. ASSUME ~verdict PROVE Excuse(missed')
  <2>1. ~Exempt(log) BY <1>7, <1>12
  <2>2. CASE s_ver.error.asks BY <1>0, <2>2 DEF Excuse
  <2>3. CASE log.provider BY <1>0, <1>5, <1>9, <2>1, <2>3 DEF Excuse
  <2>4. CASE ~log.provider /\ ~s_ver.error.asks
    <3>1. log.parent \in missed' BY <1>8, <1>10, <1>12, <2>1, <2>4
    <3>2. log.parent \in Needed BY <1>0, <1>5, <1>9, <2>1, <2>4 DEF Needed
    <3> QED BY <3>1, <3>2 DEF Excuse
  <2> QED BY <2>2, <2>3, <2>4
<1> QED BY <1>6, <1>11, <1>12

\* What a check of a transfer log finds, under the server's root.
LEMMA TransferVerdict ==
  ASSUME StartTyped, LooksRight, UNCHANGED fixed, NEW c \in DOMAIN conf.transfers,
         Finds(TransferSeeks(c)), NEW verdict \in TransferVerdicts(c)
  PROVE  /\ verdict \in BOOLEAN
         /\ verdict /\ c \in directive => TransferWell(c, found')
         /\ ~verdict => Excuse(missed')
<1> DEFINE log == conf.transfers[c]
           there == LooksAt(log) \in directories
<1>0. s_ver' = s_ver /\ conf' = conf BY DEF fixed
<1>1. log.name \in {"pipe", "file"}
  <2>1. log \in TransferLog BY Shapes
  <2> QED BY <2>1 DEF TransferLog
<1>2. verdict \in IF log.name = "pipe" \/ c \notin directive THEN {TRUE}
                  ELSE {there} \cup (IF s_ver.transfer.asks THEN {FALSE} ELSE {})
  BY DEF TransferVerdicts
<1>3. there \in BOOLEAN /\ (there <=> log.parent \in directories) BY DEF LooksRight, LooksAt
<1>4. log.name # "pipe" /\ c \in directive =>
        /\ log.parent \in directories => log.parent \in found'
        /\ log.parent \notin directories => log.parent \in missed'
  BY DEF Finds, TransferSeeks, LooksRight, LooksAt
<1> HIDE DEF there
<1>5. IF log.name = "pipe" \/ c \notin directive THEN verdict = TRUE
      ELSE verdict = there \/ (s_ver.transfer.asks /\ verdict = FALSE)
  BY <1>2
<1>6. verdict \in BOOLEAN BY <1>3, <1>5
<1>7. log.name = "pipe" \/ c \notin directive => verdict BY <1>5
<1>8. ~(log.name = "pipe" \/ c \notin directive) =>
        (verdict <=> log.parent \in directories) \/ (s_ver.transfer.asks /\ ~verdict)
  BY <1>3, <1>5
<1>9. verdict /\ c \in directive => TransferWell(c, found')
  BY <1>0, <1>1, <1>4, <1>8 DEF TransferWell
<1>10. ASSUME ~verdict PROVE Excuse(missed')
  <2>1. log.name = "file" /\ c \in directive BY <1>1, <1>7, <1>10
  <2>2. CASE s_ver.transfer.asks BY <1>0, <2>2 DEF Excuse
  <2>3. CASE ~s_ver.transfer.asks
    <3>1. log.parent \in missed' BY <1>4, <1>8, <1>10, <2>1, <2>3
    <3>2. log.parent \in Needed BY <1>0, <2>1 DEF Needed, Range
    <3> QED BY <3>1, <3>2 DEF Excuse
  <2> QED BY <2>2, <2>3
<1> QED BY <1>6, <1>9, <1>10

LEMMA CheckStep == ReadInv /\ ReadInv' /\ CheckInv /\ [StartNext]_start_vars => CheckInv'
<1> SUFFICES ASSUME ReadInv, ReadInv', CheckInv, [StartNext]_start_vars PROVE CheckInv' OBVIOUS
<1>0. StartTyped /\ Fresh BY DEF ReadInv
<1>s. /\ Len(conf.errors) \in Nat \ {0} /\ Len(conf.uses) \in Nat \ {0}
  BY <1>0, Shapes
<1>n. 1 \in 1 .. Len(conf.errors) /\ 1 \in 1 .. Len(conf.uses) /\ \A i \in 1 .. 1 - 1 : FALSE
  BY <1>s
<1>1. CASE \/ SkipDefault \/ ReadPlain \/ OpenDir \/ ReadEntry \/ ListingFails
            \/ CloseDir \/ ReadFile \/ EndReading
  <2>1. at' \notin {"error logs", "transfer logs", "checked", "refused", "up", "not opened"}
    BY <1>1 DEF SkipDefault, ReadPlain, OpenDir, ReadEntry, ListingFails, CloseDir, ReadFile,
       EndReading
  <2> QED BY <2>1 DEF CheckInv, ErrorsChecked, TransfersChecked, Verdict
<1>2. CASE StartChecks
  <2>1. server = 1 /\ directive = DOMAIN conf.transfers /\ rv BY <1>0, <1>2 DEF StartChecks, Fresh
  <2>2. at' = "error logs" /\ server' = server /\ directive' = directive /\ rv' = rv /\ conf' = conf
    BY <1>2 DEF StartChecks, fixed, checking
  <2>3. server' \in 1 .. Len(conf'.errors) /\ (\A i \in 1 .. server' - 1 : FALSE)
    BY <1>n, <2>1, <2>2
  <2>4. ErrorsChecked' BY <2>1, <2>2, <2>3 DEF ErrorsChecked
  <2> QED BY <2>2, <2>4 DEF CheckInv, TransfersChecked, Verdict
<1>3. CASE CheckErrorLog
  <2>1. at = "error logs" BY <1>3 DEF CheckErrorLog
  <2>2. /\ server \in 1 .. Len(conf.errors) /\ directive = DOMAIN conf.transfers
        /\ LooksRight => /\ rv => \A i \in 1 .. server - 1 : ErrorWell(i, found)
                         /\ ~rv => Excuse(missed)
    BY <2>1 DEF CheckInv, ErrorsChecked
  <2>3. PICK verdict \in ErrorVerdicts(conf.errors[server]) : rv' = (rv /\ verdict)
    BY <1>3 DEF CheckErrorLog
  <2>4. conf' = conf /\ directive' = directive /\ UNCHANGED fixed
        /\ Finds(ErrorSeeks(conf.errors[server]))
    BY <1>3 DEF CheckErrorLog, fixed
  <2>4a. found \subseteq found' /\ missed \subseteq missed' BY <2>4, Grows
  <2>4b. /\ Excuse(missed) => Excuse(missed')
         /\ \A i : ErrorWell(i, found) => ErrorWell(i, found')
    BY <2>4a, Remembered
  <2>5. ASSUME LooksRight
        PROVE  /\ verdict \in BOOLEAN
               /\ verdict => ErrorWell(server, found')
               /\ ~verdict => Excuse(missed')
    <3>1. server \in 1 .. Len(conf.errors) BY <2>2
    <3>2. UNCHANGED fixed BY <2>4
    <3>3. Finds(ErrorSeeks(conf.errors[server])) BY <2>4
    <3> QED BY <1>0, <2>5, <3>1, <3>2, <3>3, ErrorVerdict, Zenon
  <2>6. LooksRight => /\ rv' => \A i \in 1 .. server : ErrorWell(i, found')
                      /\ ~rv' => Excuse(missed')
    <3>1. \A i \in 1 .. server : i = server \/ i \in 1 .. server - 1 BY <2>2
    <3> QED BY <2>2, <2>3, <2>4b, <2>5, <3>1
  <2>7. CASE server < Len(conf.errors)
    <3>1. server' = server + 1 /\ at' = at BY <1>3, <2>7 DEF CheckErrorLog, Advance
    <3>2. server' - 1 = server /\ server' \in 1 .. Len(conf.errors) BY <2>2, <2>7, <3>1
    <3>3. ErrorsChecked' BY <2>2, <2>4, <2>6, <3>1, <3>2, SameServer DEF ErrorsChecked
    <3> QED BY <2>1, <3>1, <3>3 DEF CheckInv, TransfersChecked, Verdict
  <2>8. CASE ~(server < Len(conf.errors))
    <3>1. server' = 1 /\ at' = "transfer logs" BY <1>3, <2>8 DEF CheckErrorLog, Advance
    <3>2. server = Len(conf.errors) BY <1>s, <2>2, <2>8
    <3>2a. (\A i \in 1 .. server' - 1 : FALSE) /\ server' \in 1 .. Len(conf.uses) BY <1>n, <3>1
    <3>2b. directive' \subseteq DOMAIN conf'.transfers
           /\ DOMAIN conf'.transfers \ directive' = {}
      BY <2>2, <2>4
    <3>3. TransfersChecked'
      BY <2>4, <2>6, <3>2, <3>2a, <3>2b, SameServer DEF TransfersChecked
    <3> QED BY <3>1, <3>3 DEF CheckInv, ErrorsChecked, Verdict
  <2> QED BY <2>7, <2>8
<1>4. CASE CheckTransferLog
  <2>1. at = "transfer logs" BY <1>4 DEF CheckTransferLog
  <2> DEFINE c == conf.uses[server]
  <2>2. /\ server \in 1 .. Len(conf.uses) /\ directive \subseteq DOMAIN conf.transfers
        /\ LooksRight => /\ rv => /\ \A i \in 1 .. Len(conf.errors) : ErrorWell(i, found)
                                  /\ \A d \in DOMAIN conf.transfers \ directive : TransferWell(d, found)
                                  /\ \A i \in 1 .. server - 1 : TransferWell(conf.uses[i], found)
                         /\ ~rv => Excuse(missed)
    BY <2>1 DEF CheckInv, TransfersChecked
  <2>3. PICK verdict \in TransferVerdicts(c) :
          rv' = (rv /\ verdict) /\ directive' \in {directive, directive \ {c}}
    BY <1>4 DEF CheckTransferLog
  <2>4. conf' = conf /\ UNCHANGED fixed /\ Finds(TransferSeeks(c))
    BY <1>4 DEF CheckTransferLog, fixed, world
  <2>5. c \in DOMAIN conf.transfers BY <1>0, <2>2, Shapes
  <2>5a. found \subseteq found' /\ missed \subseteq missed' BY <2>4, Grows
  <2>5b. /\ Excuse(missed) => Excuse(missed')
         /\ \A i : ErrorWell(i, found) => ErrorWell(i, found')
         /\ \A d : TransferWell(d, found) => TransferWell(d, found')
    BY <2>5a, Remembered
  <2> HIDE DEF c
  <2>6. ASSUME LooksRight
        PROVE  /\ verdict \in BOOLEAN
               /\ verdict /\ c \in directive => TransferWell(c, found')
               /\ ~verdict => Excuse(missed')
    <3>1. UNCHANGED fixed BY <2>4
    <3>2. Finds(TransferSeeks(c)) BY <2>4
    <3> QED BY <1>0, <2>5, <2>6, <3>1, <3>2, TransferVerdict, Zenon
  <2>7. ASSUME LooksRight, rv' PROVE TransferWell(c, found')
    BY <2>2, <2>3, <2>5, <2>5b, <2>6, <2>7
  <2>8. LooksRight =>
          /\ rv' => /\ \A i \in 1 .. Len(conf.errors) : ErrorWell(i, found')
                    /\ \A d \in DOMAIN conf.transfers \ directive' : TransferWell(d, found')
                    /\ \A i \in 1 .. server : TransferWell(conf.uses[i], found')
          /\ ~rv' => Excuse(missed')
    <3>1. \A i \in 1 .. server : i = server \/ i \in 1 .. server - 1 BY <2>2
    <3>2. ASSUME LooksRight, rv', NEW d \in DOMAIN conf.transfers \ directive'
          PROVE TransferWell(d, found')
      BY <2>2, <2>3, <2>5b, <2>7, <3>2
    <3>3. ASSUME LooksRight, rv', NEW i \in 1 .. server PROVE TransferWell(conf.uses[i], found')
      <4>1. CASE i = server BY <2>4, <2>7, <3>3, <4>1 DEF c
      <4>2. CASE i \in 1 .. server - 1
        <5>1. TransferWell(conf.uses[i], found) BY <2>2, <2>3, <3>3, <4>2
        <5> QED BY <2>5b, <5>1
      <4> QED BY <3>1, <4>1, <4>2
    <3>4. LooksRight /\ rv' => \A i \in 1 .. Len(conf.errors) : ErrorWell(i, found')
      BY <2>2, <2>3, <2>5b
    <3>5. LooksRight /\ ~rv' => Excuse(missed') BY <2>2, <2>3, <2>5b, <2>6
    <3> QED BY <3>2, <3>3, <3>4, <3>5
  <2>9. CASE server < Len(conf.uses)
    <3>1. server' = server + 1 /\ at' = at BY <1>4, <2>9 DEF CheckTransferLog, Advance
    <3>2. server' - 1 = server /\ server' \in 1 .. Len(conf.uses) BY <2>2, <2>9, <3>1
    <3>3. directive' \subseteq DOMAIN conf.transfers BY <2>2, <2>3
    <3>4. TransfersChecked' BY <2>4, <2>8, <3>1, <3>2, <3>3, SameServer DEF TransfersChecked
    <3> QED BY <2>1, <3>1, <3>4 DEF CheckInv, ErrorsChecked, Verdict
  <2>10. CASE ~(server < Len(conf.uses))
    <3>1. at' = "checked" BY <1>4, <2>10 DEF CheckTransferLog, Advance
    <3>2. server = Len(conf.uses) BY <1>s, <2>2, <2>10
    <3>3. LooksRight /\ rv' => \A d \in DOMAIN conf.transfers : TransferWell(d, found')
      BY <1>0, <2>8, <3>2, Shapes
    <3>4. LooksRight => (rv' => Needed \subseteq found') /\ (~rv' => Excuse(missed'))
      BY <1>0, <2>8, <3>3, NeededOfEach
    <3>5. Verdict' BY <2>4, <3>1, <3>4, SameServer DEF Verdict
    <3> QED BY <3>1, <3>5 DEF CheckInv, ErrorsChecked, TransfersChecked
  <2> QED BY <2>9, <2>10
<1>5. CASE Refuse
  <2>1. at = "checked" /\ ~rv /\ at' = "refused" /\ UNCHANGED <<fixed, found, missed>>
    BY <1>5 DEF Refuse, checking
  <2>2. LooksRight' = LooksRight /\ Excuse(missed)' = Excuse(missed)
    BY <2>1, SameServer
  <2>3. Verdict' BY <2>1, <2>2 DEF CheckInv, Verdict
  <2> QED BY <2>1, <2>3 DEF CheckInv, ErrorsChecked, TransfersChecked
<1>6. CASE OpenLogs
  <2>1. /\ at = "checked" /\ rv /\ at' \in {"up", "not opened"}
        /\ UNCHANGED <<fixed, found, missed>>
    BY <1>6 DEF OpenLogs, checking
  <2>2. LooksRight => Needed \subseteq found BY <2>1 DEF CheckInv, Verdict
  <2>3. LooksRight' = LooksRight /\ Needed' = Needed BY <2>1, SameServer
  <2>4. Verdict' BY <2>1, <2>2, <2>3 DEF Verdict
  <2> QED BY <2>1, <2>4 DEF CheckInv, ErrorsChecked, TransfersChecked
<1>7. CASE Restart
  BY <1>7 DEF Restart, CheckInv, ErrorsChecked, TransfersChecked, Verdict
<1>8. CASE Change \/ UNCHANGED start_vars
  <2>1. UNCHANGED <<fixed, checking>> /\ at' = at BY <1>8 DEF Change, start_vars
  <2>2. /\ conf' = conf /\ server' = server /\ directive' = directive /\ rv' = rv
        /\ found' = found /\ missed' = missed /\ UNCHANGED fixed
    BY <2>1 DEF checking, fixed
  <2>3. /\ LooksRight' = LooksRight /\ Needed' = Needed /\ Excuse(missed)' = Excuse(missed)
        /\ \A i : ErrorWell(i, found)' = ErrorWell(i, found)
        /\ \A d : TransferWell(d, found)' = TransferWell(d, found)
    BY <2>2, SameServer
  <2>4. ErrorsChecked' BY <2>1, <2>2, <2>3 DEF CheckInv, ErrorsChecked
  <2>5. TransfersChecked' BY <2>1, <2>2, <2>3 DEF CheckInv, TransfersChecked
  <2>6. Verdict' BY <2>1, <2>2, <2>3 DEF CheckInv, Verdict
  <2> QED BY <2>4, <2>5, <2>6 DEF CheckInv
<1> QED BY <1>1, <1>2, <1>3, <1>4, <1>5, <1>6, <1>7, <1>8 DEF StartNext

\* A server reads its files in order and leaves none out, and starts as it was checked:
\* for any files, patterns and logs, and however often the file system changes.
THEOREM StartsCorrect == StartSpec => []StartsAsMeant
<1>1. StartInit => ReadInv /\ CheckInv BY ReadInit, CheckInit
<1>2. ReadInv /\ CheckInv /\ [StartNext]_start_vars => (ReadInv /\ CheckInv)' BY ReadStep, CheckStep
<1>3. ReadInv /\ CheckInv => StartsAsMeant
  <2> SUFFICES ASSUME ReadInv, CheckInv PROVE StartsAsMeant OBVIOUS
  <2>1. FilesInOrder BY DEF FilesInOrder, ReadInv, AllRead, Careful, Increasing, Whole
  <2>2. StartsAsChecked BY DEF StartsAsChecked, CheckInv, Verdict, Excuse
  <2> QED BY <2>1, <2>2 DEF StartsAsMeant
<1> QED BY <1>1, <1>2, <1>3, PTL DEF StartSpec
-----------------------------------------------------------------------------
(* The walks.                                                              *)

LEMMA Inductive ==
  ASSUME NEW P, 0 \in P, \A n \in Nat : n \in P => n + 1 \in P
  PROVE  \A n \in Nat : n \in P
<1> SUFFICES ASSUME NEW n \in Nat, n \notin P PROVE FALSE OBVIOUS
<1> DEFINE A == P \cap (0 .. n)
           f == [k \in A |-> k + 1]
<1>1. IsFiniteSet(A)
  <2>1. IsFiniteSet(0 .. n) BY FS_Interval
  <2> QED BY <2>1, FS_Subset
<1>2. 0 \in A OBVIOUS
<1>3. Cardinality(A \ {0}) = Cardinality(A) - 1 /\ Cardinality(A) \in Nat
  BY <1>1, <1>2, FS_RemoveElement, FS_CardinalityType
<1>4. f \in [A -> A \ {0}] OBVIOUS
<1>5. \A x, y \in A : x # y => f[x] # f[y] OBVIOUS
<1>6. IsFiniteSet(A \ {0}) BY <1>1, FS_RemoveElement
<1> HIDE DEF A, f
<1>7. Cardinality(A \ {0}) < Cardinality(A) BY <1>3
<1>8. \E x, y \in A : x # y /\ f[x] = f[y] BY <1>1, <1>4, <1>6, <1>7, FS_PigeonHole
<1> QED BY <1>5, <1>8

\* A loop of n steps, each of which leads from what holds before it to what holds after.
IsRun(f, n, x0, R, I) ==
  /\ f[0] = x0
  /\ \A k \in 1 .. n : <<f[k - 1], f[k], k>> \in R
  /\ \A k \in 0 .. n : f[k] \in I[k]
LEMMA Iterates ==
  ASSUME NEW n \in Nat, NEW Y, NEW I \in [0 .. n -> SUBSET Y], NEW x0 \in I[0], NEW R,
         \A k \in 1 .. n : \A x \in I[k - 1] : \E y \in I[k] : <<x, y, k>> \in R
  PROVE  \E f \in [0 .. n -> Y] : IsRun(f, n, x0, R, I)
<1> DEFINE Upto(f, m) == IsRun(f, m, x0, R, I)
           P == {m \in Nat : m <= n => \E f \in [0 .. m -> Y] : Upto(f, m)}
<1>1. 0 \in P
  <2>1. x0 \in Y OBVIOUS
  <2> DEFINE f == [k \in 0 .. 0 |-> x0]
  <2>2. f \in [0 .. 0 -> Y] BY <2>1
  <2>3. Upto(f, 0) BY DEF IsRun
  <2>4. \E g \in [0 .. 0 -> Y] : Upto(g, 0)
    <3> HIDE DEF f, Upto
    <3> QED BY <2>2, <2>3
  <2> QED BY <2>4
<1>2. \A m \in Nat : m \in P => m + 1 \in P
  <2> SUFFICES ASSUME NEW m \in Nat, m \in P, m + 1 <= n
               PROVE  \E g \in [0 .. m + 1 -> Y] : Upto(g, m + 1)
    OBVIOUS
  <2>0. m <= n OBVIOUS
  <2>1. PICK f \in [0 .. m -> Y] : Upto(f, m)
    <3> HIDE DEF Upto
    <3> QED BY <2>0
  <2>2. m + 1 \in 1 .. n /\ m + 1 - 1 = m /\ m \in 0 .. m OBVIOUS
  <2>3. f[m] \in I[m] BY <2>1, <2>2 DEF IsRun
  <2>4. PICK y \in I[m + 1] : <<f[m], y, m + 1>> \in R
    <3> DEFINE k == m + 1
    <3>1. k \in 1 .. n /\ k - 1 = m BY <2>2
    <3> HIDE DEF k
    <3>2. \A x \in I[k - 1] : \E y \in I[k] : <<x, y, k>> \in R BY <3>1
    <3>3. \E y \in I[k] : <<f[m], y, k>> \in R BY <2>3, <3>1, <3>2
    <3> QED BY <3>3 DEF k
  <2>5. y \in Y BY <2>2
  <2> DEFINE g == [k \in 0 .. m + 1 |-> IF k = m + 1 THEN y ELSE f[k]]
  <2>6. g \in [0 .. m + 1 -> Y] BY <2>5
  <2>7. g[m + 1] = y /\ \A k \in 0 .. m : g[k] = f[k] OBVIOUS
  <2>8. g[0] = x0 BY <2>1, <2>7 DEF IsRun
  <2> HIDE DEF g
  <2>9. ASSUME NEW k \in 1 .. m + 1 PROVE <<g[k - 1], g[k], k>> \in R
    <3>1. CASE k = m + 1
      <4>1. g[k - 1] = f[m] /\ g[k] = y BY <2>2, <2>7, <3>1
      <4> QED BY <2>4, <3>1, <4>1
    <3>2. CASE k # m + 1
      <4>1. k \in 1 .. m /\ k - 1 \in 0 .. m /\ k \in 0 .. m BY <3>2
      <4>2. g[k - 1] = f[k - 1] /\ g[k] = f[k] BY <2>7, <4>1
      <4> QED BY <2>1, <4>1, <4>2 DEF IsRun
    <3> QED BY <3>1, <3>2
  <2>10. ASSUME NEW k \in 0 .. m + 1 PROVE g[k] \in I[k]
    <3>1. k = m + 1 \/ k \in 0 .. m OBVIOUS
    <3> QED BY <2>1, <2>4, <2>7, <3>1 DEF IsRun
  <2>11. Upto(g, m + 1) BY <2>8, <2>9, <2>10 DEF IsRun
  <2> HIDE DEF Upto
  <2> QED BY <2>6, <2>11
<1>3. n \in P
  <2> HIDE DEF P
  <2> QED BY <1>1, <1>2, Inductive
<1> QED BY <1>3

\* Two runs of a loop are the same.
LEMMA Agree ==
  ASSUME NEW n \in Nat, NEW f, NEW g, f[0] = g[0],
         \A k \in 1 .. n : f[k - 1] = g[k - 1] => f[k] = g[k]
  PROVE  f[n] = g[n]
<1> DEFINE P == {m \in Nat : m <= n => f[m] = g[m]}
<1>1. 0 \in P OBVIOUS
<1>2. \A m \in Nat : m \in P => m + 1 \in P
  <2> SUFFICES ASSUME NEW m \in Nat, m \in P, m + 1 <= n PROVE f[m + 1] = g[m + 1] OBVIOUS
  <2>1. m + 1 \in 1 .. n /\ m + 1 - 1 = m /\ f[m] = g[m] OBVIOUS
  <2> QED BY <2>1
<1>3. n \in P
  <2> HIDE DEF P
  <2> QED BY <1>1, <1>2, Inductive
<1> QED BY <1>3

LEMMA SeqMonotone ==
  ASSUME NEW S, NEW T, S \subseteq T, NEW s \in Seq(S)
  PROVE  s \in Seq(T)
<1>1. s = [i \in 1 .. Len(s) |-> s[i]] /\ Len(s) \in Nat OBVIOUS
<1>2. \A i \in 1 .. Len(s) : s[i] \in T OBVIOUS
<1>3. [i \in 1 .. Len(s) |-> s[i]] \in Seq(T) BY <1>1, <1>2
<1> QED BY <1>1, <1>3
-----------------------------------------------------------------------------
(* The operators.                                                          *)

\* What is among a set is in it, and in the sequence.
LEMMA AmongMeans ==
  ASSUME NEW T, NEW ids \in Seq(T), NEW set
  PROVE  Among(ids, set) \in Seq(T \cap set)
<1> DEFINE n == Len(ids)
           Y == Seq(T \cap set)
           Step(x, k) == IF ids[k] \in set THEN Append(x, ids[k]) ELSE x
           R == {t \in Y \X Y \X Nat : t[2] = Step(t[1], t[3])}
           I == [k \in 0 .. n |-> Y]
           Loop(g) == [k \in 0 .. n |-> IF k = 0 THEN <<>> ELSE Step(g[k - 1], k)]
<1>1. n \in Nat /\ \A k \in 1 .. n : ids[k] \in T OBVIOUS
<1>2. ASSUME NEW k \in 1 .. n, NEW x \in Y PROVE Step(x, k) \in Y BY <1>1
<1>3. \A k \in 1 .. n : \A x \in I[k - 1] : \E y \in I[k] : <<x, y, k>> \in R
  <2> SUFFICES ASSUME NEW k \in 1 .. n, NEW x \in Y PROVE \E y \in Y : <<x, y, k>> \in R
    BY <1>1
  <2>1. Step(x, k) \in Y BY <1>2
  <2> HIDE DEF Step, Y
  <2>2. <<x, Step(x, k), k>> \in R BY <1>1, <2>1
  <2> HIDE DEF R
  <2> QED BY <2>1, <2>2
<1>4. I \in [0 .. n -> SUBSET Y] /\ <<>> \in I[0] /\ \A k \in 0 .. n : I[k] = Y BY <1>1
<1>5. PICK f \in [0 .. n -> Y] : IsRun(f, n, <<>>, R, I)
  <2>1. <<>> \in I[0] BY <1>4
  <2> HIDE DEF I, R, Y, n
  <2>2. n \in Nat /\ I \in [0 .. n -> SUBSET Y] BY <1>1, <1>4
  <2> QED BY <1>3, <2>1, <2>2, Iterates
<1>6. f[0] = <<>> /\ \A k \in 1 .. n : f[k] = Step(f[k - 1], k)
  <2> HIDE DEF Step, Y
  <2> QED BY <1>5 DEF IsRun
<1> HIDE DEF Step, Y, R, I, n
<1>7. f = Loop(f)
  <2>1. ASSUME NEW k \in 0 .. n PROVE f[k] = IF k = 0 THEN <<>> ELSE Step(f[k - 1], k)
    <3>1. k = 0 \/ k \in 1 .. n BY <1>1
    <3> QED BY <1>5, <1>6, <3>1
  <2> QED BY <1>5, <2>1
<1> DEFINE F == CHOOSE g : g = Loop(g)
<1>8. F = Loop(F)
  <2> HIDE DEF Loop
  <2> QED BY <1>7
<1> HIDE DEF F
<1>9. F[0] = <<>> /\ \A k \in 1 .. n : F[k] = Step(F[k - 1], k)
  <2>1. \A k \in 0 .. n : F[k] = IF k = 0 THEN <<>> ELSE Step(F[k - 1], k) BY <1>8
  <2> QED BY <1>1, <2>1
<1>10. F[n] = f[n]
  <2>1. \A k \in 1 .. n : F[k - 1] = f[k - 1] => F[k] = f[k] BY <1>6, <1>9
  <2> QED BY <1>1, <1>6, <1>9, <2>1, Agree, ZenonT(60)
<1>11. Among(ids, set) = F[n] BY DEF Among, F, Loop, n, Step
<1> QED BY <1>1, <1>5, <1>10, <1>11 DEF Y
-----------------------------------------------------------------------------
(* What the heap holds.                                                    *)
KindOf(note) == OfKind(IF note = "location" THEN "location" ELSE "files")

Keys == {EntryUri(uri) : uri \in Uris} \cup {TestFile(file) : file \in Filenames}
Obj == [secs : Seq(Nat), files : [array : Nat, elts : Seq(OfKind("files"))]]
Entry == [matched : Numbers, merged : Nat]
Cache == [cached : SUBSET Keys, tested : Nat, merged : Nat, result : Nat, walked : Nat,
          prev : Nat, count : Nat]
Heap == [confs : Seq(Obj), arrays : Seq(Seq(Entry)), caches : Seq(Cache)]

\* A section's own object holds it; an array of <Files> sections is known by its number.
Objects(confs) ==
  /\ confs \in Seq(Obj) /\ Len(confs) >= Defaults
  /\ \A s \in 1 .. Defaults : confs[s].secs = <<s>>
  /\ \A c \in DOMAIN confs : confs[c].files.array <= Len(confs)
  /\ \A c, d \in DOMAIN confs :
       confs[c].files.array = confs[d].files.array => confs[c].files.elts = confs[d].files.elts

\* Each entry of a walk has merged what was matched up to it.
UpTo(entries, k) == [i \in 1 .. k |-> entries[i].matched]
Matched(entries) == UpTo(entries, Len(entries))
Chained(confs, entries) ==
  /\ entries \in Seq(Entry)
  /\ \A k \in DOMAIN entries :
       entries[k].merged \in DOMAIN confs /\ confs[entries[k].merged].secs = UpTo(entries, k)

ClosedIn(reqs, set) == \A j \in set : {reqs[j].prev, reqs[j].main} \subseteq set \cup {Null}
FamilyIn(reqs, i) ==
  {j \in DOMAIN reqs :
     \A set \in SUBSET DOMAIN reqs : i \in set /\ ClosedIn(reqs, set) => j \in set}

\* What was matched is what applies to the key: for a request of the family, or in the
\* directory that the array belongs to.
OfLocation(reqs, matched, cached, i) ==
  \E j \in FamilyIn(reqs, i) :
    cached = {EntryUri(reqs[j].uri)} /\ matched = Applying(reqs[j].uri)
OfFile(confs, matched, cached, tested) ==
  \E c \in DOMAIN confs, file \in Filenames :
    /\ cached = {TestFile(file)} /\ tested = confs[c].files.array
    /\ matched = Among(confs[c].files.elts, {s \in Numbers : FileApplies(s, file)})
Origin(reqs, confs, matched, cached, tested, i, note) ==
  /\ note = "location" => OfLocation(reqs, matched, cached, i)
  /\ note = "file" => OfFile(confs, matched, cached, tested)

\* The result is what it was merged from and what was matched.
Outcome(confs, matched, merged, result) ==
  /\ merged \in 0 .. Len(confs) /\ result \in 0 .. Len(confs)
  /\ merged = Null => result = Null
  /\ merged # Null => result # Null /\ confs[result].secs = confs[merged].secs \o matched

Sound(reqs, confs, cache, entries, i, note) ==
  cache.cached # {} =>
    /\ Origin(reqs, confs, Matched(entries), cache.cached, cache.tested, i, note)
    /\ Outcome(confs, Matched(entries), cache.merged, cache.result)

\* A cache has an array of its own; the list it is in is that of one request and note.
CacheOk(reqs, h, own, kind, n) ==
  /\ h.caches[n].walked = n
  /\ h.caches[n].prev < n /\ (h.caches[n].count > 0 => h.caches[n].prev # Null)
  /\ h.caches[n].prev # Null =>
       own[h.caches[n].prev] = own[n] /\ kind[h.caches[n].prev] = kind[n]
  /\ Chained(h.confs, h.arrays[n])
  /\ Sound(reqs, h.confs, h.caches[n], h.arrays[n], own[n], kind[n])
HeapOk(reqs, h, own, kind) ==
  /\ h \in Heap /\ Objects(h.confs)
  /\ Len(h.arrays) = Len(h.caches)
  /\ own \in [DOMAIN h.caches -> DOMAIN reqs] /\ kind \in [DOMAIN h.caches -> Notes]
  /\ \A n \in DOMAIN h.caches : CacheOk(reqs, h, own, kind, n)
-----------------------------------------------------------------------------
(* What the requests hold.                                                 *)
Request ==
  [uri : Uris, file : SUBSET Filenames, prev : Nat, main : Nat, conf : Nat, before : Nat,
   notes : [Notes -> Nat], at : {"read", "located", "mapped", "filed", "done", "refused"}]

Without(confs, given, note) ==
  \A k \in DOMAIN confs[given].secs : confs[given].secs[k] \notin KindOf(note)

\* A configuration that a walk made is that of before, with what was matched.
Walked(reqs, confs, i, r, note) ==
  r.conf # Null =>
    /\ r.before # Null
    /\ note = "location" =>
         \E j \in FamilyIn(reqs, i) :
           /\ EntryUri(reqs[j].uri) = EntryUri(r.uri)
           /\ confs[r.conf].secs = confs[r.before].secs \o Applying(reqs[j].uri)
    /\ note = "file" =>
         /\ r.file = {} => confs[r.conf].secs = confs[r.before].secs
         /\ \A file \in r.file :
              confs[r.conf].secs = confs[r.before].secs \o
                Among(confs[r.before].files.elts, {s \in Numbers : FileApplies(s, file)})

RequestOk(reqs, h, own, kind, i, r) ==
  /\ r.prev < i /\ r.main < i
  /\ r.file # {} => \E file \in Filenames : r.file = {file}
  /\ \A note \in Notes :
       r.notes[note] # Null =>
         /\ r.notes[note] \in DOMAIN h.caches
         /\ own[r.notes[note]] = i /\ kind[r.notes[note]] = note
  /\ r.conf \in 0 .. Len(h.confs) /\ r.before \in 0 .. Len(h.confs)
  /\ r.at = "read" => r.conf = Defaults
  /\ r.at = "mapped" =>
       r.conf # Null /\ Without(h.confs, r.conf, "location") /\ Without(h.confs, r.conf, "file")
  /\ r.at = "filed" /\ r.conf # Null => Without(h.confs, r.conf, "location")
  /\ r.at \in {"located", "done"} => Walked(reqs, h.confs, i, r, "location")
  /\ r.at = "filed" => Walked(reqs, h.confs, i, r, "file")

RequestsOk(reqs, h, own, kind) ==
  /\ reqs \in Seq(Request)
  /\ \A i \in DOMAIN reqs : RequestOk(reqs, h, own, kind, i, reqs[i])

Right(reqs, h, own, kind) == HeapOk(reqs, h, own, kind) /\ RequestsOk(reqs, h, own, kind)
Ready(reqs, h, waiting) ==
  /\ waiting \in Seq(DOMAIN reqs) /\ waiting # <<>>
  /\ \E own, kind : Right(reqs, h, own, kind)

WalkInv == ~w_ver.prep.shares => Ready(requests, heap, stack)
-----------------------------------------------------------------------------
LEMMA SectionNumbers ==
  /\ Len(ServerSections) \in Nat /\ Numbers = 1 .. Len(ServerSections)
  /\ Defaults \in Nat /\ Defaults = Len(ServerSections) + 1
  /\ Locations \in Seq(OfKind("location"))
  /\ \A dir : FilesOf(dir) \in Seq(OfKind("files"))
<1>1. Len(ServerSections) \in Nat /\ Numbers = 1 .. Len(ServerSections)
  BY WalkAssumption DEF Numbers
<1>2. [s \in Numbers |-> s] \in Seq(Numbers)
  <2>1. [s \in 1 .. Len(ServerSections) |-> s] \in Seq(1 .. Len(ServerSections)) BY <1>1
  <2> QED BY <1>1, <2>1
<1>3. Locations \in Seq(Numbers \cap OfKind("location")) BY <1>2, AmongMeans DEF Locations
<1>4. Numbers \cap OfKind("location") = OfKind("location") BY DEF OfKind
<1>5. ASSUME NEW dir PROVE FilesOf(dir) \in Seq(OfKind("files"))
  <2> DEFINE set == {s \in OfKind("files") : ServerSections[s].dir = dir}
  <2>1. FilesOf(dir) \in Seq(Numbers \cap set) BY <1>2, AmongMeans DEF FilesOf
  <2>2. Numbers \cap set \subseteq OfKind("files") OBVIOUS
  <2> HIDE DEF set
  <2> QED BY <2>1, <2>2, SeqMonotone
<1> QED BY <1>1, <1>3, <1>4, <1>5 DEF Defaults

LEMMA Kinds ==
  /\ \A uri : Applying(uri) \in Seq(KindOf("location"))
  /\ \A elts \in Seq(OfKind("files")) : \A set : Among(elts, set) \in Seq(KindOf("file"))
  /\ KindOf("location") \subseteq Numbers /\ KindOf("file") \subseteq Numbers
<1>1. KindOf("location") = OfKind("location") /\ KindOf("file") = OfKind("files") BY DEF KindOf
<1>2. ASSUME NEW T, NEW ids \in Seq(T), NEW set PROVE Among(ids, set) \in Seq(T)
  <2>1. Among(ids, set) \in Seq(T \cap set) BY AmongMeans
  <2> QED BY <2>1, SeqMonotone
<1>3. ASSUME NEW uri PROVE Applying(uri) \in Seq(OfKind("location"))
  <2> DEFINE set == {s \in Numbers : SectionApplies(s, uri, EntryUri(uri))}
  <2>1. Applying(uri) = Among(Locations, set) BY DEF Applying
  <2> HIDE DEF set
  <2> QED BY <1>2, <2>1, SectionNumbers
<1> QED BY <1>1, <1>2, <1>3 DEF OfKind

LEMMA InOwnFamily == ASSUME NEW reqs, NEW i \in DOMAIN reqs PROVE i \in FamilyIn(reqs, i)
BY DEF FamilyIn

\* A request's family has those of the requests it follows from.
LEMMA FamilyUp ==
  ASSUME NEW reqs, NEW i \in DOMAIN reqs, NEW p \in {reqs[i].prev, reqs[i].main}, p # Null
  PROVE  FamilyIn(reqs, p) \subseteq FamilyIn(reqs, i)
<1> SUFFICES ASSUME NEW j \in FamilyIn(reqs, p), NEW set \in SUBSET DOMAIN reqs,
                    i \in set, ClosedIn(reqs, set)
             PROVE  j \in set
  BY DEF FamilyIn
<1>1. p \in set BY DEF ClosedIn
<1> QED BY <1>1 DEF FamilyIn

\* Requests that follow a request, and what becomes of one, leave its family as it is.
SameLinks(reqs, more) ==
  /\ DOMAIN reqs \subseteq DOMAIN more
  /\ \A j \in DOMAIN reqs :
       /\ more[j].prev = reqs[j].prev /\ more[j].main = reqs[j].main /\ more[j].uri = reqs[j].uri
       /\ {reqs[j].prev, reqs[j].main} \subseteq DOMAIN reqs \cup {Null}

LEMMA FamilyGrows ==
  ASSUME NEW reqs, NEW more, SameLinks(reqs, more), NEW i \in DOMAIN reqs
  PROVE  FamilyIn(reqs, i) \subseteq FamilyIn(more, i)
<1> SUFFICES ASSUME NEW j \in FamilyIn(reqs, i), NEW set \in SUBSET DOMAIN more,
                    i \in set, ClosedIn(more, set)
             PROVE  j \in set
  BY DEF FamilyIn, SameLinks
<1> DEFINE part == set \cap DOMAIN reqs
<1>1. ClosedIn(reqs, part)
  <2> SUFFICES ASSUME NEW k \in part PROVE {reqs[k].prev, reqs[k].main} \subseteq part \cup {Null}
    BY DEF ClosedIn
  <2>1. {more[k].prev, more[k].main} \subseteq set \cup {Null} BY DEF ClosedIn
  <2>2. {reqs[k].prev, reqs[k].main} \subseteq DOMAIN reqs \cup {Null} BY DEF SameLinks
  <2>3. {reqs[k].prev, reqs[k].main} \subseteq set \cup {Null} BY <2>1 DEF SameLinks
  <2> QED BY <2>2, <2>3
<1>2. part \in SUBSET DOMAIN reqs /\ i \in part OBVIOUS
<1> HIDE DEF part
<1>3. j \in part BY <1>1, <1>2 DEF FamilyIn
<1> QED BY <1>3 DEF part

\* The climb up a list of caches stays with its request and its note.
Linked(h, own, kind) ==
  /\ h.caches \in Seq(Cache)
  /\ \A n \in DOMAIN h.caches :
       /\ h.caches[n].prev < n /\ (h.caches[n].count > 0 => h.caches[n].prev # Null)
       /\ h.caches[n].prev # Null =>
            own[h.caches[n].prev] = own[n] /\ kind[h.caches[n].prev] = kind[n]
LEMMA ClimbStays ==
  ASSUME NEW h, NEW own, NEW kind, Linked(h, own, kind), NEW count \in Nat,
         NEW cache \in DOMAIN h.caches
  PROVE  /\ OfCount(h, cache, count) \in DOMAIN h.caches
         /\ own[OfCount(h, cache, count)] = own[cache]
         /\ kind[OfCount(h, cache, count)] = kind[cache]
<1> DEFINE N == Len(h.caches)
           up(c) == h.caches[c].prev
           More(c) == h.caches[c].count > count
           Climb(f) == [c \in DOMAIN h.caches |-> IF More(c) THEN f[up(c)] ELSE c]
           Upto(f, m) == \A c \in 1 .. m : f[c] = IF More(c) THEN f[up(c)] ELSE c
           P == {m \in Nat : m <= N => \E f \in [1 .. m -> Nat] : Upto(f, m)}
<1>0. /\ h.caches \in Seq(Cache)
      /\ \A c \in DOMAIN h.caches :
           /\ up(c) < c /\ (h.caches[c].count > 0 => up(c) # Null)
           /\ up(c) # Null => own[up(c)] = own[c] /\ kind[up(c)] = kind[c]
  BY DEF Linked
<1>1. N \in Nat /\ DOMAIN h.caches = 1 .. N BY <1>0
<1>2. ASSUME NEW c \in 1 .. N PROVE up(c) \in Nat /\ up(c) < c /\ (More(c) => up(c) \in 1 .. c - 1)
  <2>1. h.caches[c] \in Cache BY <1>0, <1>1
  <2>2. h.caches[c].count \in Nat /\ up(c) \in Nat BY <2>1 DEF Cache
  <2> QED BY <1>0, <1>1, <2>2 DEF Null
<1> HIDE DEF up, More, N
<1>3. 0 \in P
  <2> DEFINE f == [c \in 1 .. 0 |-> 0]
  <2>1. f \in [1 .. 0 -> Nat] OBVIOUS
  <2>2. Upto(f, 0) OBVIOUS
  <2>3. \E g \in [1 .. 0 -> Nat] : Upto(g, 0)
    <3> HIDE DEF f, Upto
    <3> QED BY <2>1, <2>2
  <2> QED BY <2>3
<1>4. \A m \in Nat : m \in P => m + 1 \in P
  <2> HIDE DEF Upto
  <2> SUFFICES ASSUME NEW m \in Nat, m \in P, m + 1 <= N
               PROVE  \E g \in [1 .. m + 1 -> Nat] : Upto(g, m + 1)
    OBVIOUS
  <2>0. m <= N BY <1>1
  <2>1. PICK f \in [1 .. m -> Nat] : Upto(f, m)
    <3> HIDE DEF Upto
    <3> QED BY <2>0
  <2> DEFINE last == IF More(m + 1) THEN f[up(m + 1)] ELSE m + 1
             g == [c \in 1 .. m + 1 |-> IF c = m + 1 THEN last ELSE f[c]]
  <2>2. m + 1 \in 1 .. N BY <1>1
  <2>3. last \in Nat BY <1>2, <2>2
  <2> HIDE DEF last
  <2>4. g \in [1 .. m + 1 -> Nat] BY <2>3
  <2>5. g[m + 1] = last /\ \A c \in 1 .. m : g[c] = f[c] OBVIOUS
  <2> HIDE DEF g
  <2>6. ASSUME NEW c \in 1 .. m + 1 PROVE g[c] = IF More(c) THEN g[up(c)] ELSE c
    <3>0. c \in 1 .. N BY <2>2, <1>1
    <3>1. More(c) => up(c) \in 1 .. m /\ g[up(c)] = f[up(c)] BY <1>2, <2>5, <3>0
    <3>2. CASE c = m + 1 BY <2>5, <3>1, <3>2 DEF last
    <3>3. CASE c \in 1 .. m BY <2>1, <2>5, <3>1, <3>3 DEF Upto
    <3> QED BY <3>2, <3>3
  <2>7. Upto(g, m + 1) BY <2>6 DEF Upto
  <2> QED BY <2>4, <2>7
<1>5. N \in P
  <2> HIDE DEF P
  <2> QED BY <1>1, <1>3, <1>4, Inductive
<1>6. PICK f \in [1 .. N -> Nat] : Upto(f, N) BY <1>1, <1>5
<1> DEFINE F == CHOOSE f1 : f1 = Climb(f1)
<1>7. f = Climb(f) BY <1>1, <1>6
<1>8. F = Climb(F)
  <2> HIDE DEF Climb
  <2> QED BY <1>7
<1> HIDE DEF F
<1>9. \A c \in 1 .. N : F[c] = IF More(c) THEN F[up(c)] ELSE c BY <1>1, <1>8
<1> DEFINE Stays(c) == F[c] \in 1 .. N /\ own[F[c]] = own[c] /\ kind[F[c]] = kind[c]
           Q == {m \in Nat : \A c \in 1 .. N : c <= m => Stays(c)}
<1>10. 0 \in Q BY <1>1
<1>11. \A m \in Nat : m \in Q => m + 1 \in Q
  <2> HIDE DEF Stays
  <2> SUFFICES ASSUME NEW m \in Nat, m \in Q PROVE m + 1 \in Q OBVIOUS
  <2>0. m + 1 \in Nat OBVIOUS
  <2> SUFFICES ASSUME NEW c \in 1 .. N, c <= m + 1 PROVE Stays(c) BY <2>0
  <2>1. CASE More(c)
    <3>1. up(c) \in 1 .. N /\ up(c) <= m BY <1>1, <1>2, <2>1
    <3>2. Stays(up(c)) BY <3>1
    <3> USE DEF Stays
    <3>3. F[c] = F[up(c)] BY <1>9, <2>1
    <3>4. own[up(c)] = own[c] /\ kind[up(c)] = kind[c] BY <1>0, <1>1, <3>1 DEF Null
    <3> QED BY <3>2, <3>3, <3>4
  <2>2. CASE ~More(c)
    <3>1. F[c] = c BY <1>9, <2>2
    <3> QED BY <3>1 DEF Stays
  <2> QED BY <2>1, <2>2
<1>12. N \in Q
  <2> HIDE DEF Q
  <2> QED BY <1>1, <1>10, <1>11, Inductive
<1>13. cache \in 1 .. N /\ cache <= N BY <1>1
<1>14. Stays(cache) BY <1>12, <1>13
<1>15. OfCount(h, cache, count) = F[cache] BY DEF OfCount, F, Climb, More, up
<1> QED BY <1>1, <1>14, <1>15
-----------------------------------------------------------------------------
(* Objects are only added.                                                 *)
Longer(confs, more) ==
  Len(confs) <= Len(more) /\ \A c \in DOMAIN confs : more[c] = confs[c]

LEMMA ChainedGrows ==
  ASSUME NEW confs \in Seq(Obj), NEW more \in Seq(Obj), Longer(confs, more),
         NEW entries, Chained(confs, entries)
  PROVE  Chained(more, entries)
BY DEF Longer, Chained

LEMMA OriginGrows ==
  ASSUME NEW confs \in Seq(Obj), NEW more \in Seq(Obj), Longer(confs, more),
         NEW reqs, NEW later, SameLinks(reqs, later), NEW i \in DOMAIN reqs,
         NEW matched, NEW cached, NEW tested, NEW note,
         Origin(reqs, confs, matched, cached, tested, i, note)
  PROVE  Origin(later, more, matched, cached, tested, i, note)
<1>1. OfLocation(reqs, matched, cached, i) => OfLocation(later, matched, cached, i)
  <2> SUFFICES ASSUME NEW j \in FamilyIn(reqs, i),
                      cached = {EntryUri(reqs[j].uri)} /\ matched = Applying(reqs[j].uri)
               PROVE  OfLocation(later, matched, cached, i)
    BY DEF OfLocation
  <2>1. j \in FamilyIn(later, i) BY FamilyGrows
  <2>2. later[j].uri = reqs[j].uri BY DEF FamilyIn, SameLinks
  <2> QED BY <2>1, <2>2 DEF OfLocation
<1>2. OfFile(confs, matched, cached, tested) => OfFile(more, matched, cached, tested)
  <2> SUFFICES ASSUME NEW c \in DOMAIN confs, NEW file \in Filenames,
                      cached = {TestFile(file)}, tested = confs[c].files.array,
                      matched = Among(confs[c].files.elts, {s \in Numbers : FileApplies(s, file)})
               PROVE  OfFile(more, matched, cached, tested)
    BY DEF OfFile
  <2>1. c \in DOMAIN more
    <3>1. /\ Len(confs) \in Nat /\ Len(more) \in Nat /\ Len(confs) <= Len(more)
          /\ DOMAIN confs = 1 .. Len(confs) /\ DOMAIN more = 1 .. Len(more)
      BY DEF Longer
    <3> QED BY <3>1
  <2>2. more[c] = confs[c] BY DEF Longer
  <2> QED BY <2>1, <2>2 DEF OfFile
<1> QED BY <1>1, <1>2 DEF Origin

LEMMA OutcomeGrows ==
  ASSUME NEW confs \in Seq(Obj), NEW more \in Seq(Obj), Longer(confs, more),
         NEW matched, NEW merged, NEW result, Outcome(confs, matched, merged, result)
  PROVE  Outcome(more, matched, merged, result)
<1>1. /\ merged \in 0 .. Len(confs) /\ result \in 0 .. Len(confs)
      /\ merged = Null => result = Null
      /\ merged # Null => result # Null /\ confs[result].secs = confs[merged].secs \o matched
  BY DEF Outcome
<1>2. /\ Len(confs) \in Nat /\ Len(more) \in Nat /\ Len(confs) <= Len(more)
      /\ DOMAIN confs = 1 .. Len(confs)
  BY DEF Longer
<1>3. merged \in 0 .. Len(more) /\ result \in 0 .. Len(more) BY <1>1, <1>2
<1>4. ASSUME merged # Null PROVE more[result].secs = more[merged].secs \o matched
  <2>1. merged \in DOMAIN confs /\ result \in DOMAIN confs BY <1>1, <1>2, <1>4 DEF Null
  <2>2. more[merged] = confs[merged] /\ more[result] = confs[result] BY <2>1 DEF Longer
  <2> QED BY <1>1, <1>4, <2>2
<1> QED BY <1>1, <1>3, <1>4 DEF Outcome

LEMMA SoundGrows ==
  ASSUME NEW confs \in Seq(Obj), NEW more \in Seq(Obj), Longer(confs, more),
         NEW reqs, NEW later, SameLinks(reqs, later), NEW i \in DOMAIN reqs,
         NEW cache, NEW entries, NEW note, Sound(reqs, confs, cache, entries, i, note)
  PROVE  Sound(later, more, cache, entries, i, note)
<1> SUFFICES ASSUME cache.cached # {}
             PROVE  /\ Origin(later, more, Matched(entries), cache.cached, cache.tested, i, note)
                    /\ Outcome(more, Matched(entries), cache.merged, cache.result)
  BY DEF Sound
<1>1. /\ Origin(reqs, confs, Matched(entries), cache.cached, cache.tested, i, note)
      /\ Outcome(confs, Matched(entries), cache.merged, cache.result)
  BY DEF Sound
<1>2. Origin(later, more, Matched(entries), cache.cached, cache.tested, i, note)
  BY <1>1, OriginGrows
<1> QED BY <1>1, <1>2, OutcomeGrows

\* A merge adds an object, which holds what its two sides hold.
Merges(h, base, new, m) ==
  /\ m \in Heap /\ m.arrays = h.arrays /\ m.caches = h.caches
  /\ Len(m.confs) = Len(h.confs) + 1 /\ Longer(h.confs, m.confs)
  /\ m.confs[Len(h.confs) + 1].secs = h.confs[base].secs \o h.confs[new].secs
  /\ Objects(m.confs)
LEMMA MergeAdds ==
  ASSUME NEW h \in Heap, Objects(h.confs), NEW base \in DOMAIN h.confs, NEW new \in DOMAIN h.confs
  PROVE  Merges(h, base, new, Merge(h, base, new))
<1> DEFINE N == Len(h.confs)
           kept_files == MergedFiles(h, base, new)
           obj == [secs |-> h.confs[base].secs \o h.confs[new].secs, files |-> kept_files]
           more == Append(h.confs, obj)
           m == Merge(h, base, new)
<1>1. /\ h.confs \in Seq(Obj) /\ h.arrays \in Seq(Seq(Entry)) /\ h.caches \in Seq(Cache)
      /\ N \in Nat /\ DOMAIN h.confs = 1 .. N
  BY DEF Heap
<1>2. \A c \in 1 .. N : /\ h.confs[c].secs \in Seq(Nat) /\ h.confs[c].files.array \in Nat
                        /\ h.confs[c].files.elts \in Seq(OfKind("files"))
                        /\ h.confs[c].files \in [array : Nat, elts : Seq(OfKind("files"))]
  <2>1. \A c \in 1 .. N : h.confs[c] \in Obj BY <1>1
  <2> QED BY <2>1 DEF Obj
<1>3. /\ kept_files \in [array : Nat, elts : Seq(OfKind("files"))]
      /\ \/ kept_files \in {h.confs[base].files, h.confs[new].files}
         \/ kept_files.array = N + 1
  BY <1>1, <1>2 DEF MergedFiles
<1> HIDE DEF kept_files
<1>4. obj \in Obj
  <2>1. base \in 1 .. N /\ new \in 1 .. N BY <1>1
  <2>2. h.confs[base].secs \in Seq(Nat) /\ h.confs[new].secs \in Seq(Nat) BY <1>2, <2>1
  <2>3. h.confs[base].secs \o h.confs[new].secs \in Seq(Nat) BY <2>2
  <2> QED BY <1>3, <2>3 DEF Obj
<1>5. obj.files = kept_files /\ obj.secs = h.confs[base].secs \o h.confs[new].secs OBVIOUS
<1> HIDE DEF obj
<1>6. /\ more \in Seq(Obj) /\ Len(more) = N + 1 /\ DOMAIN more = 1 .. N + 1
      /\ more[N + 1] = obj /\ \A c \in 1 .. N : more[c] = h.confs[c]
  BY <1>1, <1>4
<1>7. m = [h EXCEPT !.confs = more] BY DEF Merge, obj, kept_files
<1> HIDE DEF more
<1>8. m \in Heap /\ m.confs = more /\ m.arrays = h.arrays /\ m.caches = h.caches
  BY <1>6, <1>7 DEF Heap
<1>9. Longer(h.confs, more) BY <1>1, <1>6 DEF Longer
<1>10. Objects(more)
  <2>1. N >= Defaults /\ Defaults \in Nat BY SectionNumbers DEF Objects
  <2>2. \A s \in 1 .. Defaults : more[s].secs = <<s>>
    <3>1. \A s \in 1 .. Defaults : s \in 1 .. N BY <1>1, <2>1
    <3> QED BY <1>6, <3>1 DEF Objects
  <2>3. \A c \in 1 .. N : h.confs[c].files.array <= N BY <1>1 DEF Objects
  <2>4. kept_files.array <= N + 1
    <3>1. CASE kept_files \in {h.confs[base].files, h.confs[new].files}
      <4>1. kept_files.array <= N BY <1>1, <2>3, <3>1
      <4> QED BY <1>1, <1>3, <4>1
    <3>2. CASE kept_files.array = N + 1 BY <1>1, <3>2
    <3> QED BY <1>3, <3>1, <3>2
  <2>5. ASSUME NEW c \in 1 .. N + 1 PROVE more[c].files.array <= N + 1
    <3>1. CASE c = N + 1
      <4>1. more[c].files = kept_files BY <1>5, <1>6, <3>1
      <4> QED BY <2>4, <4>1
    <3>2. CASE c \in 1 .. N
      <4>1. more[c].files.array = h.confs[c].files.array BY <1>6, <3>2
      <4>2. h.confs[c].files.array \in Nat /\ h.confs[c].files.array <= N BY <1>2, <2>3, <3>2
      <4> HIDE DEF N
      <4>3. h.confs[c].files.array <= N + 1 BY <1>1, <4>2
      <4> QED BY <4>1, <4>3
    <3>3. c = N + 1 \/ c \in 1 .. N BY <1>1
    <3> QED BY <3>1, <3>2, <3>3
  <2>6. ASSUME NEW c \in 1 .. N, kept_files.array = h.confs[c].files.array
        PROVE  kept_files.elts = h.confs[c].files.elts
    <3>1. kept_files.array # N + 1 BY <1>1, <1>2, <2>3, <2>6
    <3>2. kept_files \in {h.confs[base].files, h.confs[new].files} BY <1>3, <3>1
    <3> QED BY <1>1, <2>6, <3>2 DEF Objects
  <2>7. ASSUME NEW c \in 1 .. N + 1, NEW d \in 1 .. N + 1,
               more[c].files.array = more[d].files.array
        PROVE  more[c].files.elts = more[d].files.elts
    <3>0. N \in Nat BY <1>1
    <3>1. (c = N + 1 \/ c \in 1 .. N) /\ (d = N + 1 \/ d \in 1 .. N)
      <4> HIDE DEF N
      <4>1. c = N + 1 \/ c \in 1 .. N BY <3>0
      <4>2. d = N + 1 \/ d \in 1 .. N BY <3>0
      <4> QED BY <4>1, <4>2
    <3>2. CASE c \in 1 .. N /\ d \in 1 .. N
      <4>1. more[c] = h.confs[c] /\ more[d] = h.confs[d] BY <1>6, <3>2
      <4>2. c \in DOMAIN h.confs /\ d \in DOMAIN h.confs BY <1>1, <3>2
      <4>3. h.confs[c].files.array = h.confs[d].files.array BY <2>7, <4>1
      <4>4. h.confs[c].files.elts = h.confs[d].files.elts BY <4>2, <4>3 DEF Objects
      <4> QED BY <4>1, <4>4
    <3>3. CASE c = N + 1 /\ d \in 1 .. N
      <4>1. more[c].files = kept_files /\ more[d] = h.confs[d] BY <1>5, <1>6, <3>3
      <4>2. kept_files.elts = h.confs[d].files.elts BY <2>6, <2>7, <3>3, <4>1
      <4> QED BY <4>1, <4>2
    <3>4. CASE c \in 1 .. N /\ d = N + 1
      <4>1. more[d].files = kept_files /\ more[c] = h.confs[c] BY <1>5, <1>6, <3>4
      <4>2. kept_files.elts = h.confs[c].files.elts BY <2>6, <2>7, <3>4, <4>1
      <4> QED BY <4>1, <4>2
    <3>5. CASE c = N + 1 /\ d = N + 1 BY <3>5
    <3> QED BY <3>1, <3>2, <3>3, <3>4, <3>5
  <2> QED BY <1>1, <1>6, <2>1, <2>2, <2>5, <2>7 DEF Objects
<1> QED BY <1>1, <1>5, <1>6, <1>8, <1>9, <1>10 DEF Merges
-----------------------------------------------------------------------------
(* A walk over the sections that apply.                                    *)
WalkState == [heap : Heap, now : Nat, matches : Nat, entries : Seq(Entry)]
WalkOk(h, walk, applying, k) ==
  /\ walk \in WalkState
  /\ walk.heap.arrays = h.arrays /\ walk.heap.caches = h.caches
  /\ Longer(h.confs, walk.heap.confs) /\ Objects(walk.heap.confs)
  /\ Chained(walk.heap.confs, walk.entries)
  /\ walk.matches <= Len(walk.entries) /\ Len(walk.entries) - walk.matches = k
  /\ \A i \in 1 .. k : walk.entries[i].matched = applying[i]
  /\ k = 0 => walk.now = Null
  /\ k # 0 => walk.now = walk.entries[k].merged

LEMMA AppendAs ==
  ASSUME NEW T, NEW u \in Seq(T), NEW x \in T
  PROVE  Append(u, x) = [j \in 1 .. Len(u) + 1 |-> IF j = Len(u) + 1 THEN x ELSE u[j]]
<1> DEFINE v == Append(u, x)
           n == Len(u)
<1>1. n \in Nat /\ v \in Seq(T) /\ Len(v) = n + 1 OBVIOUS
<1>2. v[n + 1] = x OBVIOUS
<1>3. \A j \in 1 .. n : v[j] = u[j] OBVIOUS
<1> HIDE DEF v, n
<1>4. v = [j \in 1 .. n + 1 |-> v[j]] BY <1>1
<1>5. ASSUME NEW j \in 1 .. n + 1 PROVE v[j] = IF j = n + 1 THEN x ELSE u[j]
  <2>1. j = n + 1 \/ (j \in 1 .. n /\ j # n + 1) BY <1>1
  <2> QED BY <1>2, <1>3, <2>1
<1>6. v = [j \in 1 .. n + 1 |-> IF j = n + 1 THEN x ELSE u[j]] BY <1>4, <1>5
<1> QED BY <1>6 DEF v, n

LEMMA LongerStill ==
  ASSUME NEW a \in Seq(Obj), NEW b \in Seq(Obj), NEW c \in Seq(Obj), Longer(a, b), Longer(b, c)
  PROVE  Longer(a, c)
<1>1. Len(a) \in Nat /\ Len(b) \in Nat /\ Len(c) \in Nat /\ DOMAIN a = 1 .. Len(a)
      /\ DOMAIN b = 1 .. Len(b)
  OBVIOUS
<1>2. Len(a) <= Len(b) /\ Len(b) <= Len(c) BY DEF Longer
<1>3. \A x \in DOMAIN a : x \in DOMAIN b BY <1>1, <1>2
<1> QED BY <1>1, <1>2, <1>3 DEF Longer

LEMMA AddedIsOk ==
  ASSUME NEW h \in Heap, NEW applying, NEW m \in Nat, NEW walk, WalkOk(h, walk, applying, m),
         NEW s \in Numbers, s = applying[m + 1],
         NEW g \in Heap, g.arrays = h.arrays, g.caches = h.caches, Objects(g.confs),
         Longer(walk.heap.confs, g.confs),
         NEW merged \in DOMAIN g.confs, g.confs[merged].secs = Append(UpTo(walk.entries, m), s)
  PROVE  WalkOk(h, Added(walk, g, s, merged), applying, m + 1)
<1> DEFINE e == [matched |-> s, merged |-> merged]
           more == Append(SubSeq(walk.entries, 1, m), e)
           next == [heap |-> g, now |-> merged, matches |-> 0, entries |-> more]
<1>1. /\ h.confs \in Seq(Obj) /\ g.confs \in Seq(Obj)
      /\ walk.heap \in Heap /\ walk.entries \in Seq(Entry) /\ walk.matches \in Nat
  BY DEF WalkOk, WalkState, Heap
<1>2. walk.heap.confs \in Seq(Obj) BY <1>1 DEF Heap
<1>3. Len(walk.entries) - walk.matches = m /\ m <= Len(walk.entries)
  <2>1. Len(walk.entries) \in Nat BY <1>1
  <2>2. Len(walk.entries) - walk.matches = m BY DEF WalkOk
  <2> QED BY <1>1, <2>1, <2>2
<1>4. Chained(g.confs, walk.entries) BY <1>1, <1>2, ChainedGrows DEF WalkOk
<1>5. /\ Chained(g.confs, more) /\ Len(more) = m + 1
      /\ \A i \in 1 .. m : more[i] = walk.entries[i]
      /\ more[m + 1] = e
  <2> DEFINE confs == g.confs
             entries == walk.entries
             part == SubSeq(entries, 1, m)
  <2>1. /\ entries \in Seq(Entry) /\ m <= Len(entries) /\ confs \in Seq(Obj)
        /\ Chained(confs, entries) /\ merged \in DOMAIN confs
        /\ confs[merged].secs = Append(UpTo(entries, m), s)
    BY <1>1, <1>3, <1>4
  <2>0. more = Append(part, e) /\ e = [matched |-> s, merged |-> merged] OBVIOUS
  <2> HIDE DEF WalkOk, confs, entries, e, more, part
  <2>2. part \in Seq(Entry) /\ Len(part) = m /\ \A i \in 1 .. m : part[i] = entries[i]
    BY <2>1 DEF part
  <2>3. e \in Entry
    <3>1. merged \in Nat BY <2>1
    <3> QED BY <2>0, <3>1 DEF Entry
  <2>4. e.matched = s /\ e.merged = merged BY <2>0
  <2>5. more \in Seq(Entry) /\ Len(more) = m + 1 /\ DOMAIN more = 1 .. m + 1
        /\ more[m + 1] = e /\ \A i \in 1 .. m : more[i] = entries[i]
    <3>1. more = Append(part, e) BY <2>0
    <3> QED BY <2>2, <2>3, <3>1
  <2>6. \A i \in 1 .. m : entries[i].matched \in Numbers
    <3>1. \A i \in 1 .. m : entries[i] \in Entry BY <2>1
    <3> QED BY <3>1 DEF Entry
  <2>7. ASSUME NEW i \in 1 .. m + 1
        PROVE  more[i].merged \in DOMAIN confs /\ confs[more[i].merged].secs = UpTo(more, i)
    <3>1. CASE i = m + 1
      <4>1. UpTo(entries, m) \in Seq(Numbers) /\ Len(UpTo(entries, m)) = m
        <5> DEFINE u == [j \in 1 .. m |-> entries[j].matched]
        <5>1. u \in [1 .. m -> Numbers] BY <2>6
        <5> HIDE DEF u
        <5>2. u \in Seq(Numbers) /\ Len(u) = m BY <5>1
        <5> QED BY <5>2 DEF UpTo, u
      <4>2. Append(UpTo(entries, m), s) =
              [j \in 1 .. m + 1 |-> IF j = m + 1 THEN s ELSE UpTo(entries, m)[j]]
        <5> DEFINE u == UpTo(entries, m)
        <5>1. u \in Seq(Numbers) /\ Len(u) = m BY <4>1
        <5> HIDE DEF u
        <5>2. Append(u, s) = [j \in 1 .. Len(u) + 1 |-> IF j = Len(u) + 1 THEN s ELSE u[j]]
          BY <5>1, AppendAs
        <5>3. Append(u, s) = [j \in 1 .. m + 1 |-> IF j = m + 1 THEN s ELSE u[j]] BY <5>1, <5>2
        <5> QED BY <5>3 DEF u
      <4>3. \A j \in 1 .. m : UpTo(entries, m)[j] = entries[j].matched BY DEF UpTo
      <4>4. ASSUME NEW j \in 1 .. m + 1
            PROVE  more[j].matched = IF j = m + 1 THEN s ELSE UpTo(entries, m)[j]
        BY <2>4, <2>5, <4>3
      <4>5. UpTo(more, m + 1) = Append(UpTo(entries, m), s) BY <4>2, <4>4 DEF UpTo
      <4> QED BY <2>1, <2>4, <2>5, <3>1, <4>5
    <3>2. CASE i \in 1 .. m
      <4>1. i \in DOMAIN entries BY <2>1, <3>2
      <4>2. UpTo(more, i) = UpTo(entries, i)
        <5>1. \A j \in 1 .. i : more[j].matched = entries[j].matched BY <2>5, <3>2
        <5> QED BY <5>1 DEF UpTo
      <4> QED BY <2>1, <2>5, <3>2, <4>1, <4>2 DEF Chained
    <3> QED BY <3>1, <3>2
  <2>8. Chained(confs, more) BY <2>5, <2>7 DEF Chained
  <2> QED BY <2>5, <2>8 DEF confs, entries
<1>6. Added(walk, g, s, merged) = next BY <1>3 DEF Added, Kept
<1>7. e.matched = s /\ e.merged = merged OBVIOUS
<1>8. more \in Seq(Entry) BY <1>5 DEF Chained
<1> HIDE DEF e, more
<1>9. /\ next.heap = g /\ next.now = merged /\ next.matches = 0 /\ next.entries = more
      /\ next \in WalkState
  <2>1. merged \in Nat BY <1>1
  <2> QED BY <1>8, <2>1 DEF WalkState
<1> HIDE DEF next
<1>10. Longer(h.confs, g.confs) BY <1>1, <1>2, LongerStill DEF WalkOk
<1>11. ASSUME NEW i \in 1 .. m + 1 PROVE more[i].matched = applying[i]
  <2>1. CASE i = m + 1 BY <1>5, <1>7, <2>1
  <2>2. CASE i \in 1 .. m
    <3>1. more[i] = walk.entries[i] BY <1>5, <2>2
    <3>2. walk.entries[i].matched = applying[i] BY <2>2 DEF WalkOk
    <3> QED BY <3>1, <3>2
  <2>3. i = m + 1 \/ i \in 1 .. m OBVIOUS
  <2> QED BY <2>1, <2>2, <2>3
<1>12. more[m + 1].merged = merged BY <1>5, <1>7
<1>13. Len(more) - 0 = m + 1 /\ 0 <= Len(more) /\ m + 1 # 0 BY <1>5
<1> QED BY <1>5, <1>6, <1>9, <1>10, <1>11, <1>12, <1>13 DEF WalkOk

\* What a section leads to: an entry that is met again, or one that is added.
LEMMA SectionStep ==
  ASSUME NEW h \in Heap, NEW applying, NEW m \in Nat, NEW s \in Numbers, s = applying[m + 1],
         NEW walk, WalkOk(h, walk, applying, m)
  PROVE  WalkOk(h, WalkSection(walk, s), applying, m + 1)
<1> DEFINE entries == walk.entries
           n == Len(entries)
           confs == walk.heap.confs
<1>1. /\ walk \in WalkState /\ walk.heap \in Heap /\ entries \in Seq(Entry) /\ walk.matches \in Nat
      /\ n \in Nat /\ DOMAIN entries = 1 .. n /\ walk.now \in Nat
  BY DEF WalkOk, WalkState
<1>2. n - walk.matches = m /\ walk.matches <= n BY DEF WalkOk
<1>3. confs \in Seq(Obj) /\ Len(confs) \in Nat /\ DOMAIN confs = 1 .. Len(confs)
  BY <1>1 DEF Heap
<1>4. /\ walk.heap.arrays = h.arrays /\ walk.heap.caches = h.caches
      /\ Longer(h.confs, confs) /\ Objects(confs) /\ Chained(confs, entries)
      /\ \A i \in 1 .. m : entries[i].matched = applying[i]
      /\ m = 0 => walk.now = Null
      /\ m # 0 => walk.now = entries[m].merged
  BY DEF WalkOk
<1>5. m # 0 => walk.now \in DOMAIN confs /\ confs[walk.now].secs = UpTo(entries, m)
  <2> SUFFICES ASSUME m # 0
               PROVE  walk.now \in DOMAIN confs /\ confs[walk.now].secs = UpTo(entries, m)
    OBVIOUS
  <2>1. m \in DOMAIN entries BY <1>1, <1>2
  <2> QED BY <1>4, <2>1 DEF Chained
<1>6. s \in DOMAIN confs /\ confs[s].secs = <<s>>
  <2>1. Len(ServerSections) \in Nat /\ s \in 1 .. Len(ServerSections)
        /\ Defaults = Len(ServerSections) + 1
    BY SectionNumbers
  <2>2. s \in 1 .. Defaults /\ Len(confs) >= Defaults BY <1>4, <2>1 DEF Objects
  <2> QED BY <1>3, <1>4, <2>1, <2>2 DEF Objects
<1> HIDE DEF entries, n, confs
<1>7. CASE walk.matches > 0 /\ Awaited(walk).matched = s
  <2> DEFINE next == [walk EXCEPT !.now = entries[m + 1].merged, !.matches = walk.matches - 1]
  <2>1. m + 1 \in 1 .. n /\ n - walk.matches + 1 = m + 1 BY <1>1, <1>2, <1>7
  <2>2. Awaited(walk) = entries[m + 1] BY <2>1 DEF Awaited, entries, n
  <2>3. WalkSection(walk, s) = next BY <1>7, <2>2 DEF WalkSection
  <2>4. entries[m + 1] \in Entry BY <1>1, <2>1
  <2>5. entries[m + 1].merged \in Nat /\ entries[m + 1].matched = s BY <1>7, <2>2, <2>4 DEF Entry
  <2>6. walk.matches - 1 \in Nat /\ walk.matches - 1 <= n /\ n - (walk.matches - 1) = m + 1
    BY <1>1, <1>2, <1>7
  <2>7. /\ next \in WalkState /\ next.heap = walk.heap /\ next.entries = walk.entries
        /\ next.now = entries[m + 1].merged /\ next.matches = walk.matches - 1
    BY <1>1, <2>5, <2>6 DEF WalkState
  <2> HIDE DEF next
  <2>8. ASSUME NEW i \in 1 .. m + 1 PROVE entries[i].matched = applying[i]
    <3>1. i = m + 1 \/ i \in 1 .. m OBVIOUS
    <3> QED BY <1>4, <2>5, <3>1
  <2>9. m + 1 # 0 OBVIOUS
  <2>10. WalkOk(h, next, applying, m + 1)
    BY <1>4, <2>6, <2>7, <2>8, <2>9 DEF WalkOk, entries, n, confs
  <2> QED BY <2>3, <2>10
<1>8. CASE ~(walk.matches > 0 /\ Awaited(walk).matched = s) /\ walk.now = Null
  <2>1. m = 0 BY <1>3, <1>5, <1>8 DEF Null
  <2>2. WalkSection(walk, s) = Added(walk, walk.heap, s, s) BY <1>8 DEF WalkSection
  <2>3. UpTo(entries, m) = <<>> BY <2>1 DEF UpTo
  <2>4. Append(<<>>, s) = <<s>> OBVIOUS
  <2>5. confs[s].secs = Append(UpTo(entries, m), s) BY <1>6, <2>3, <2>4
  <2>6. Longer(confs, confs) BY <1>3 DEF Longer
  <2> HIDE DEF WalkOk
  <2>7. WalkOk(h, Added(walk, walk.heap, s, s), applying, m + 1)
    BY <1>1, <1>4, <1>6, <2>5, <2>6, AddedIsOk DEF confs, entries
  <2> QED BY <2>2, <2>7
<1>9. CASE ~(walk.matches > 0 /\ Awaited(walk).matched = s) /\ walk.now # Null
  <2> DEFINE g == Merge(walk.heap, walk.now, s)
             new == Len(confs) + 1
  <2>1. m # 0 BY <1>4, <1>9
  <2>2. WalkSection(walk, s) = Added(walk, g, s, new) BY <1>9 DEF WalkSection, confs
  <2>3. /\ g \in Heap /\ g.arrays = walk.heap.arrays /\ g.caches = walk.heap.caches
        /\ Len(g.confs) = new /\ Longer(confs, g.confs)
        /\ g.confs[new].secs = confs[walk.now].secs \o confs[s].secs
        /\ Objects(g.confs)
    BY <1>1, <1>4, <1>5, <1>6, <2>1, MergeAdds DEF confs, Merges
  <2> HIDE DEF g
  <2>4. confs[walk.now].secs = UpTo(entries, m) BY <1>5, <2>1
  <2>5. confs[walk.now].secs \in Seq(Nat)
    <3>1. confs[walk.now] \in Obj BY <1>3, <1>5, <2>1
    <3> QED BY <3>1 DEF Obj
  <2>6. UpTo(entries, m) \o <<s>> = Append(UpTo(entries, m), s)
    <3>1. UpTo(entries, m) \in Seq(Nat) /\ s \in Nat BY <2>4, <2>5, SectionNumbers
    <3> QED BY <3>1
  <2>7. g.confs[new].secs = Append(UpTo(entries, m), s) BY <1>6, <2>3, <2>4, <2>6
  <2>8. new \in DOMAIN g.confs
    <3>1. g.confs \in Seq(Obj) BY <2>3 DEF Heap
    <3> QED BY <1>3, <2>3, <3>1
  <2>9. g.arrays = h.arrays /\ g.caches = h.caches BY <1>4, <2>3
  <2> HIDE DEF WalkOk, new
  <2>10. WalkOk(h, Added(walk, g, s, new), applying, m + 1)
    BY <2>3, <2>7, <2>8, <2>9, AddedIsOk DEF confs, entries
  <2> QED BY <2>2, <2>10
<1> QED BY <1>7, <1>8, <1>9

\* The loop over the sections that apply.
LEMMA WalkedOverIs ==
  ASSUME NEW h \in Heap, Objects(h.confs), NEW array \in DOMAIN h.arrays,
         Chained(h.confs, h.arrays[array]), NEW applying \in Seq(Numbers)
  PROVE  WalkOk(h, WalkedOver(h, array, applying), applying, Len(applying))
<1> DEFINE n == Len(applying)
           Y == WalkState
           x0 == WalkBegun(h, array)
           R == {t \in Y \X Y \X Nat : t[2] = WalkSection(t[1], applying[t[3]])}
           I == [k \in 0 .. n |-> {w \in Y : WalkOk(h, w, applying, k)}]
           Loop(g) == [k \in 0 .. n |-> IF k = 0 THEN x0 ELSE WalkSection(g[k - 1], applying[k])]
<1>1. n \in Nat /\ \A k \in 1 .. n : applying[k] \in Numbers OBVIOUS
<1>2. WalkOk(h, x0, applying, 0)
  <2> DEFINE entries == h.arrays[array]
  <2>1. entries \in Seq(Entry) /\ Len(entries) \in Nat BY DEF Chained
  <2>2. h.confs \in Seq(Obj) BY DEF Heap
  <2>3. Longer(h.confs, h.confs) BY <2>2 DEF Longer
  <2>4. x0 = [heap |-> h, now |-> Null, matches |-> Len(entries), entries |-> entries]
    BY DEF WalkBegun
  <2> HIDE DEF entries, x0
  <2>5. x0 \in WalkState /\ x0.heap = h /\ x0.now = Null /\ x0.matches = Len(entries)
        /\ x0.entries = entries
    BY <2>1, <2>4 DEF WalkState, Null
  <2>6. Chained(h.confs, entries) BY DEF entries
  <2>7. Len(entries) - Len(entries) = 0 /\ Len(entries) <= Len(entries)
        /\ \A i \in 1 .. 0 : FALSE
    BY <2>1
  <2> QED BY <2>3, <2>5, <2>6, <2>7 DEF WalkOk
<1>3. ASSUME NEW k \in 1 .. n, NEW x, WalkOk(h, x, applying, k - 1)
      PROVE  WalkOk(h, WalkSection(x, applying[k]), applying, k)
  <2> DEFINE m == k - 1
             s == applying[k]
  <2>1. m \in Nat /\ m + 1 = k /\ s \in Numbers BY <1>1
  <2>2. s = applying[m + 1] BY <2>1
  <2>3. WalkOk(h, x, applying, m) BY <1>3
  <2> HIDE DEF m, s
  <2>4. WalkOk(h, WalkSection(x, s), applying, m + 1) BY <2>1, <2>2, <2>3, SectionStep
  <2> QED BY <2>1, <2>4 DEF s
<1> HIDE DEF x0
<1>4. /\ \A k \in 0 .. n : I[k] = {w \in Y : WalkOk(h, w, applying, k)}
      /\ I \in [0 .. n -> SUBSET Y]
  OBVIOUS
<1>5. x0 \in I[0]
  <2>1. x0 \in Y BY <1>2 DEF WalkOk
  <2>2. 0 \in 0 .. n BY <1>1
  <2> HIDE DEF Y, I, n
  <2> QED BY <1>2, <1>4, <2>1, <2>2
<1>6. \A k \in 1 .. n : \A x \in I[k - 1] : \E y \in I[k] : <<x, y, k>> \in R
  <2> SUFFICES ASSUME NEW k \in 1 .. n, NEW x \in I[k - 1] PROVE \E y \in I[k] : <<x, y, k>> \in R
    BY <1>1
  <2> DEFINE m == k - 1
             y == WalkSection(x, applying[k])
  <2>1. m \in 0 .. n /\ k \in 0 .. n /\ k \in Nat BY <1>1
  <2>2. x \in I[m] OBVIOUS
  <2>3. x \in Y /\ WalkOk(h, x, applying, m)
    <3> HIDE DEF I, m, Y
    <3> QED BY <1>4, <2>1, <2>2
  <2>4. WalkOk(h, y, applying, k)
    <3>1. WalkOk(h, x, applying, k - 1) BY <2>3
    <3> QED BY <1>3, <3>1
  <2>5. y \in Y BY <2>4 DEF WalkOk
  <2> HIDE DEF I, Y, y
  <2>6. y \in I[k] BY <1>4, <2>1, <2>4, <2>5
  <2>7. <<x, y, k>> \in R BY <2>1, <2>3, <2>5 DEF y
  <2> HIDE DEF R
  <2> QED BY <2>6, <2>7
<1>7. PICK f \in [0 .. n -> Y] : IsRun(f, n, x0, R, I)
  <2> HIDE DEF I, R, Y, n
  <2>1. n \in Nat /\ I \in [0 .. n -> SUBSET Y] BY <1>1, <1>4
  <2>2. x0 \in I[0] BY <1>5
  <2> QED BY <1>6, <2>1, <2>2, Iterates
<1>8. f[0] = x0 /\ \A k \in 1 .. n : f[k] = WalkSection(f[k - 1], applying[k])
  <2> HIDE DEF Y
  <2> QED BY <1>7 DEF IsRun
<1>9. WalkOk(h, f[n], applying, n)
  <2>1. n \in 0 .. n BY <1>1
  <2>2. f[n] \in I[n]
    <3> HIDE DEF I, n
    <3> QED BY <1>7, <2>1 DEF IsRun
  <2> HIDE DEF I, n, Y
  <2> QED BY <1>4, <2>1, <2>2
<1> HIDE DEF Y, R, I, n
<1>10. f = Loop(f)
  <2>1. ASSUME NEW k \in 0 .. n
        PROVE  f[k] = IF k = 0 THEN x0 ELSE WalkSection(f[k - 1], applying[k])
    <3>1. k = 0 \/ k \in 1 .. n BY <1>1
    <3> QED BY <1>7, <1>8, <3>1
  <2> QED BY <1>7, <2>1
<1> DEFINE F == CHOOSE g : g = Loop(g)
<1>11. F = Loop(F)
  <2> HIDE DEF Loop
  <2> QED BY <1>10
<1> HIDE DEF F
<1>12. F[0] = x0 /\ \A k \in 1 .. n : F[k] = WalkSection(F[k - 1], applying[k])
  <2>1. \A k \in 0 .. n : F[k] = IF k = 0 THEN x0 ELSE WalkSection(F[k - 1], applying[k])
    BY <1>11
  <2> QED BY <1>1, <2>1
<1>13. F[n] = f[n]
  <2>1. \A k \in 1 .. n : F[k - 1] = f[k - 1] => F[k] = f[k] BY <1>8, <1>12
  <2> QED BY <1>1, <1>8, <1>12, <2>1, Agree, ZenonT(60)
<1>14. WalkedOver(h, array, applying) = F[n] BY DEF WalkedOver, F, Loop, n, x0
<1> QED BY <1>9, <1>13, <1>14 DEF n

\* What the entries that are left then say.
Over(h, applying, w) ==
  /\ w.heap \in Heap /\ w.heap.arrays = h.arrays /\ w.heap.caches = h.caches
  /\ Longer(h.confs, w.heap.confs) /\ Objects(w.heap.confs)
  /\ Chained(w.heap.confs, Kept(w)) /\ Matched(Kept(w)) = applying
  /\ w.now = LastMerged(Kept(w))
LEMMA WalkedOverMeans ==
  ASSUME NEW h \in Heap, Objects(h.confs), NEW array \in DOMAIN h.arrays,
         Chained(h.confs, h.arrays[array]), NEW applying \in Seq(Numbers)
  PROVE  Over(h, applying, WalkedOver(h, array, applying))
<1> DEFINE w == WalkedOver(h, array, applying)
           n == Len(applying)
           entries == w.entries
           kept == SubSeq(entries, 1, n)
<1>1. WalkOk(h, w, applying, n) BY WalkedOverIs
<1> HIDE DEF w
<1>2. /\ w.heap \in Heap /\ entries \in Seq(Entry) /\ w.matches \in Nat
      /\ w.heap.arrays = h.arrays /\ w.heap.caches = h.caches
      /\ Longer(h.confs, w.heap.confs) /\ Objects(w.heap.confs)
      /\ Chained(w.heap.confs, entries)
      /\ w.matches <= Len(entries) /\ Len(entries) - w.matches = n
      /\ \A i \in 1 .. n : entries[i].matched = applying[i]
      /\ n = 0 => w.now = Null
      /\ n # 0 => w.now = entries[n].merged
  BY <1>1 DEF WalkOk, WalkState
<1>3. n \in Nat /\ applying = [k \in 1 .. n |-> applying[k]] OBVIOUS
<1>4. Kept(w) = kept BY <1>2 DEF Kept
<1> HIDE DEF entries, n
<1>5. Len(entries) \in Nat /\ n <= Len(entries) BY <1>2, <1>3
<1>6. kept \in Seq(Entry) /\ Len(kept) = n /\ \A i \in 1 .. n : kept[i] = entries[i]
  BY <1>2, <1>3, <1>5
<1> HIDE DEF kept
<1>7. Matched(kept) = applying
  <2>1. \A i \in 1 .. n : kept[i].matched = applying[i] BY <1>2, <1>6
  <2> QED BY <1>3, <1>6, <2>1 DEF Matched, UpTo
<1>8. Chained(w.heap.confs, kept)
  <2>1. ASSUME NEW k \in 1 .. n
        PROVE  /\ kept[k].merged \in DOMAIN w.heap.confs
               /\ w.heap.confs[kept[k].merged].secs = UpTo(kept, k)
    <3>1. k \in DOMAIN entries
      <4>1. k \in 1 .. Len(entries) BY <1>3, <1>5
      <4> QED BY <1>2, <4>1
    <3>2. UpTo(kept, k) = UpTo(entries, k)
      <4>1. \A j \in 1 .. k : kept[j].matched = entries[j].matched BY <1>3, <1>6
      <4> QED BY <4>1 DEF UpTo
    <3>3. kept[k] = entries[k] BY <1>6
    <3> QED BY <1>2, <3>1, <3>2, <3>3 DEF Chained
  <2>2. DOMAIN kept = 1 .. n BY <1>6
  <2> QED BY <1>6, <2>1, <2>2 DEF Chained
<1>9. w.now = LastMerged(kept)
  <2>1. CASE n = 0
    <3>1. kept = <<>> BY <1>6, <2>1
    <3> QED BY <1>2, <2>1, <3>1 DEF LastMerged
  <2>2. CASE n # 0
    <3>1. kept # <<>> /\ Last(kept) = kept[n] BY <1>6, <2>2 DEF Last
    <3>2. kept[n] = entries[n] BY <1>3, <1>6, <2>2
    <3> QED BY <1>2, <2>2, <3>1, <3>2 DEF LastMerged
  <2> QED BY <2>1, <2>2
<1> QED BY <1>2, <1>4, <1>7, <1>8, <1>9 DEF Over, w

-----------------------------------------------------------------------------
(* What was right stays so as the heap and the requests grow.              *)
With(f, n, x) == [m \in 1 .. n |-> IF m = n THEN x ELSE f[m]]

\* A cache is as it was, with the ones before it in its list.
StaysAt(h, g, own, kind, own2, kind2, n) ==
  /\ h \in Heap /\ g \in Heap /\ Longer(h.confs, g.confs) /\ n \in DOMAIN h.caches
  /\ g.caches[n] = h.caches[n] /\ g.arrays[n] = h.arrays[n]
  /\ \A m \in 1 .. n : own2[m] = own[m] /\ kind2[m] = kind[m]

LEMMA CacheGrows ==
  ASSUME NEW reqs, NEW later, SameLinks(reqs, later),
         NEW h, NEW g, NEW own, NEW kind, NEW own2, NEW kind2, NEW n,
         StaysAt(h, g, own, kind, own2, kind2, n),
         own[n] \in DOMAIN reqs, CacheOk(reqs, h, own, kind, n)
  PROVE  CacheOk(later, g, own2, kind2, n)
<1> DEFINE c == h.caches[n]
<1>0. /\ h \in Heap /\ g \in Heap /\ Longer(h.confs, g.confs) /\ n \in DOMAIN h.caches
      /\ g.caches[n] = h.caches[n] /\ g.arrays[n] = h.arrays[n]
      /\ \A m \in 1 .. n : own2[m] = own[m] /\ kind2[m] = kind[m]
  BY DEF StaysAt
<1>1. h.confs \in Seq(Obj) /\ g.confs \in Seq(Obj) /\ h.caches \in Seq(Cache) BY <1>0 DEF Heap
<1>2. n \in Nat /\ n \in 1 .. n /\ c \in Cache BY <1>0, <1>1
<1>3. c.prev \in Nat BY <1>2 DEF Cache
<1>4. /\ c.walked = n /\ c.prev < n /\ (c.count > 0 => c.prev # Null)
      /\ c.prev # Null => own[c.prev] = own[n] /\ kind[c.prev] = kind[n]
      /\ Chained(h.confs, h.arrays[n]) /\ Sound(reqs, h.confs, c, h.arrays[n], own[n], kind[n])
  BY DEF CacheOk
<1> HIDE DEF c
<1>5. own2[n] = own[n] /\ kind2[n] = kind[n] BY <1>0, <1>2
<1>6. c.prev # Null => own2[c.prev] = own[c.prev] /\ kind2[c.prev] = kind[c.prev]
  <2>1. c.prev # Null => c.prev \in 1 .. n BY <1>2, <1>3, <1>4 DEF Null
  <2> QED BY <1>0, <2>1
<1>7. Chained(g.confs, h.arrays[n]) BY <1>0, <1>1, <1>4, ChainedGrows
<1>8. Sound(later, g.confs, c, h.arrays[n], own[n], kind[n]) BY <1>0, <1>1, <1>4, SoundGrows
<1>9. g.caches[n] = c BY <1>0 DEF c
<1> QED BY <1>0, <1>4, <1>5, <1>6, <1>7, <1>8, <1>9 DEF CacheOk

\* A cache and an array that a heap can be given.
Fitting(reqs, h, own, kind, i, note, N, cache, entries, g) ==
  /\ g = [h EXCEPT !.caches = Append(h.caches, cache), !.arrays = Append(h.arrays, entries)]
  /\ N = Len(h.caches) + 1
  /\ cache \in Cache /\ cache.walked = N
  /\ cache.prev < N /\ (cache.count > 0 => cache.prev # Null)
  /\ cache.prev # Null => own[cache.prev] = i /\ kind[cache.prev] = note
  /\ Chained(h.confs, entries) /\ Sound(reqs, h.confs, cache, entries, i, note)

LEMMA CacheAdded ==
  ASSUME NEW reqs, SameLinks(reqs, reqs), NEW h, NEW own, NEW kind, HeapOk(reqs, h, own, kind),
         NEW i \in DOMAIN reqs, NEW note \in Notes, NEW N, NEW cache, NEW entries, NEW g,
         Fitting(reqs, h, own, kind, i, note, N, cache, entries, g)
  PROVE  /\ HeapOk(reqs, g, With(own, N, i), With(kind, N, note))
         /\ g.confs = h.confs /\ Len(g.caches) = N
         /\ \A n \in DOMAIN h.caches : g.caches[n] = h.caches[n]
<1> DEFINE own2 == With(own, N, i)
           kind2 == With(kind, N, note)
           M == N - 1
           caches == Append(h.caches, cache)
           arrays == Append(h.arrays, entries)
<1> USE DEF Fitting
<1>1. /\ h \in Heap /\ Objects(h.confs) /\ Len(h.arrays) = Len(h.caches)
      /\ own \in [DOMAIN h.caches -> DOMAIN reqs] /\ kind \in [DOMAIN h.caches -> Notes]
      /\ \A n \in DOMAIN h.caches : CacheOk(reqs, h, own, kind, n)
  BY DEF HeapOk
<1>2. h.confs \in Seq(Obj) /\ h.arrays \in Seq(Seq(Entry)) /\ h.caches \in Seq(Cache)
  BY <1>1 DEF Heap
<1>3. /\ Len(h.caches) = M /\ M \in Nat /\ N = M + 1 /\ DOMAIN h.caches = 1 .. M /\ N \in Nat
      /\ Len(h.arrays) = M
  BY <1>1, <1>2
<1> HIDE DEF M
<1>4. /\ caches \in Seq(Cache) /\ Len(caches) = N /\ DOMAIN caches = 1 .. N /\ caches[N] = cache
      /\ \A n \in 1 .. M : caches[n] = h.caches[n]
  BY <1>2, <1>3
<1>5. entries \in Seq(Entry) BY DEF Chained
<1>6. /\ arrays \in Seq(Seq(Entry)) /\ Len(arrays) = N /\ arrays[N] = entries
      /\ \A n \in 1 .. M : arrays[n] = h.arrays[n]
  BY <1>2, <1>3, <1>5
<1> HIDE DEF caches, arrays
<1>7. g \in Heap /\ g.confs = h.confs /\ g.caches = caches /\ g.arrays = arrays
  <2>1. g = [h EXCEPT !.caches = caches, !.arrays = arrays] BY DEF caches, arrays
  <2> QED BY <1>1, <1>4, <1>6, <2>1 DEF Heap
<1>8. /\ own2[N] = i /\ kind2[N] = note
      /\ \A n \in 1 .. M : own2[n] = own[n] /\ kind2[n] = kind[n]
  BY <1>3 DEF With
<1>9. own2 \in [1 .. N -> DOMAIN reqs] /\ kind2 \in [1 .. N -> Notes]
  <2>1. \A n \in 1 .. N : n # N => n \in 1 .. M BY <1>3
  <2> QED BY <1>1, <1>3, <2>1 DEF With
<1> HIDE DEF own2, kind2
<1>10. Longer(h.confs, g.confs) BY <1>2, <1>7 DEF Longer
<1>11. ASSUME NEW n \in 1 .. M PROVE CacheOk(reqs, g, own2, kind2, n)
  <2>1. \A m \in 1 .. n : m \in 1 .. M BY <1>3
  <2>2. g.caches[n] = h.caches[n] /\ g.arrays[n] = h.arrays[n] BY <1>4, <1>6, <1>7
  <2>3. n \in DOMAIN h.caches /\ own[n] \in DOMAIN reqs /\ CacheOk(reqs, h, own, kind, n)
    BY <1>1, <1>3
  <2>4. \A m \in 1 .. n : own2[m] = own[m] /\ kind2[m] = kind[m] BY <1>8, <2>1
  <2>5. h \in Heap /\ g \in Heap BY <1>1, <1>7
  <2>6. StaysAt(h, g, own, kind, own2, kind2, n) BY <1>10, <2>2, <2>3, <2>4, <2>5 DEF StaysAt
  <2> QED BY <2>3, <2>6, CacheGrows
<1>12. CacheOk(reqs, g, own2, kind2, N)
  <2>1. g.caches[N] = cache /\ g.arrays[N] = entries BY <1>4, <1>6, <1>7
  <2>2. cache.prev # Null => own2[cache.prev] = i /\ kind2[cache.prev] = note
    <3> SUFFICES ASSUME cache.prev # Null
                 PROVE  own2[cache.prev] = i /\ kind2[cache.prev] = note
      OBVIOUS
    <3>1. cache.prev \in Nat BY DEF Cache
    <3>2. cache.prev \in 1 .. M BY <1>3, <3>1 DEF Null
    <3> QED BY <1>8, <3>2
  <2> QED BY <1>7, <1>8, <2>1, <2>2 DEF CacheOk
<1>13. \A n \in 1 .. N : CacheOk(reqs, g, own2, kind2, n)
  <2>1. \A n \in 1 .. N : n = N \/ n \in 1 .. M BY <1>3
  <2> QED BY <1>11, <1>12, <2>1
<1>14. HeapOk(reqs, g, own2, kind2) BY <1>1, <1>4, <1>6, <1>7, <1>9, <1>13 DEF HeapOk
<1> QED BY <1>3, <1>4, <1>7, <1>14 DEF own2, kind2

LEMMA WalkedGrows ==
  ASSUME NEW reqs, NEW later, SameLinks(reqs, later),
         NEW confs \in Seq(Obj), NEW more \in Seq(Obj), Longer(confs, more),
         NEW i \in DOMAIN reqs, NEW r,
         r.conf \in 0 .. Len(confs), r.before \in 0 .. Len(confs),
         NEW note, Walked(reqs, confs, i, r, note)
  PROVE  Walked(later, more, i, r, note)
<1> SUFFICES ASSUME r.conf # Null
             PROVE  /\ r.before # Null
                    /\ note = "location" =>
                         \E j \in FamilyIn(later, i) :
                           /\ EntryUri(later[j].uri) = EntryUri(r.uri)
                           /\ more[r.conf].secs = more[r.before].secs \o Applying(later[j].uri)
                    /\ note = "file" =>
                         /\ r.file = {} => more[r.conf].secs = more[r.before].secs
                         /\ \A file \in r.file :
                              more[r.conf].secs = more[r.before].secs \o
                                Among(more[r.before].files.elts,
                                      {s \in Numbers : FileApplies(s, file)})
  BY DEF Walked
<1>1. r.before # Null BY DEF Walked
<1>2. r.conf \in DOMAIN confs /\ r.before \in DOMAIN confs
  <2>1. Len(confs) \in Nat /\ DOMAIN confs = 1 .. Len(confs) OBVIOUS
  <2> QED BY <1>1, <2>1 DEF Null
<1>3. more[r.conf] = confs[r.conf] /\ more[r.before] = confs[r.before] BY <1>2 DEF Longer
<1>4. ASSUME note = "location"
      PROVE  \E j \in FamilyIn(later, i) :
               /\ EntryUri(later[j].uri) = EntryUri(r.uri)
               /\ more[r.conf].secs = more[r.before].secs \o Applying(later[j].uri)
  <2>1. PICK j \in FamilyIn(reqs, i) :
          /\ EntryUri(reqs[j].uri) = EntryUri(r.uri)
          /\ confs[r.conf].secs = confs[r.before].secs \o Applying(reqs[j].uri)
    BY <1>4 DEF Walked
  <2>2. j \in FamilyIn(later, i) BY FamilyGrows
  <2>3. later[j].uri = reqs[j].uri BY DEF FamilyIn, SameLinks
  <2> QED BY <1>3, <2>1, <2>2, <2>3
<1>5. ASSUME note = "file"
      PROVE  /\ r.file = {} => more[r.conf].secs = more[r.before].secs
             /\ \A file \in r.file :
                  more[r.conf].secs = more[r.before].secs \o
                    Among(more[r.before].files.elts, {s \in Numbers : FileApplies(s, file)})
  BY <1>3, <1>5 DEF Walked
<1> QED BY <1>1, <1>4, <1>5

\* There is more of everything.
Grown(reqs, later, h, g, own, kind, own2, kind2) ==
  /\ SameLinks(reqs, later)
  /\ h \in Heap /\ g \in Heap /\ Longer(h.confs, g.confs)
  /\ DOMAIN h.caches \subseteq DOMAIN g.caches
  /\ \A n \in DOMAIN h.caches : own2[n] = own[n] /\ kind2[n] = kind[n]

LEMMA RequestGrows ==
  ASSUME NEW reqs, NEW later, NEW h, NEW g, NEW own, NEW kind, NEW own2, NEW kind2,
         Grown(reqs, later, h, g, own, kind, own2, kind2),
         NEW i \in DOMAIN reqs, NEW r, RequestOk(reqs, h, own, kind, i, r)
  PROVE  RequestOk(later, g, own2, kind2, i, r)
<1> USE DEF Grown
<1>1. h.confs \in Seq(Obj) /\ g.confs \in Seq(Obj) BY DEF Heap
<1>2. /\ r.prev < i /\ r.main < i
      /\ r.file # {} => \E file \in Filenames : r.file = {file}
      /\ \A note \in Notes :
           r.notes[note] # Null =>
             /\ r.notes[note] \in DOMAIN h.caches
             /\ own[r.notes[note]] = i /\ kind[r.notes[note]] = note
  BY DEF RequestOk
<1>3. /\ r.conf \in 0 .. Len(h.confs) /\ r.before \in 0 .. Len(h.confs)
      /\ r.at = "read" => r.conf = Defaults
      /\ r.at = "mapped" =>
           r.conf # Null /\ Without(h.confs, r.conf, "location") /\ Without(h.confs, r.conf, "file")
      /\ r.at = "filed" /\ r.conf # Null => Without(h.confs, r.conf, "location")
      /\ r.at \in {"located", "done"} => Walked(reqs, h.confs, i, r, "location")
      /\ r.at = "filed" => Walked(reqs, h.confs, i, r, "file")
  BY DEF RequestOk
<1>4. /\ Len(h.confs) \in Nat /\ Len(g.confs) \in Nat /\ Len(h.confs) <= Len(g.confs)
      /\ DOMAIN h.confs = 1 .. Len(h.confs)
  BY <1>1 DEF Longer
<1>5. r.conf \in 0 .. Len(g.confs) /\ r.before \in 0 .. Len(g.confs) BY <1>3, <1>4
<1>6. r.conf # Null => g.confs[r.conf] = h.confs[r.conf]
  <2>1. r.conf # Null => r.conf \in DOMAIN h.confs BY <1>3, <1>4 DEF Null
  <2> QED BY <2>1 DEF Longer
<1>7. \A note : Walked(reqs, h.confs, i, r, note) => Walked(later, g.confs, i, r, note)
  BY <1>1, <1>3, WalkedGrows
<1>8. \A note : r.conf # Null /\ Without(h.confs, r.conf, note) => Without(g.confs, r.conf, note)
  BY <1>6 DEF Without
<1>9. \A note \in Notes :
        r.notes[note] # Null =>
          /\ r.notes[note] \in DOMAIN g.caches
          /\ own2[r.notes[note]] = i /\ kind2[r.notes[note]] = note
  BY <1>2
<1> QED BY <1>2, <1>3, <1>5, <1>7, <1>8, <1>9 DEF RequestOk

-----------------------------------------------------------------------------
(* prep_walk_cache.                                                        *)

\* The copy is of a cache for the same kind of sections, of this request or of one that it
\* follows from.
LEMMA CopyMeans ==
  ASSUME NEW own, NEW kind, HeapOk(requests, heap, own, kind),
         RequestsOk(requests, heap, own, kind),
         NEW i \in DOMAIN requests, NEW note \in Notes, NEW access,
         NEW copy, copy = Copied(heap, requests[i], note, access), copy # Null
  PROVE  /\ copy \in DOMAIN heap.caches /\ kind[copy] = note
         /\ own[copy] \in {i, requests[i].prev, requests[i].main} \ {Null}
<1> DEFINE r == requests[i]
           Noted(q) == IF q = Null THEN Null ELSE requests[q].notes[note]
           inherit == Inheritable(r, note)
           count == Count(heap, r, note)
<1>1. /\ requests \in Seq(Request) /\ i \in Nat /\ DOMAIN requests = 1 .. Len(requests)
      /\ Len(requests) \in Nat /\ r \in Request
  BY DEF RequestsOk
<1>2. r.prev \in Nat /\ r.main \in Nat /\ r.prev < i /\ r.main < i
  BY <1>1 DEF Request, RequestsOk, RequestOk
<1>3. \A q \in DOMAIN requests :
        requests[q].notes[note] # Null =>
          /\ requests[q].notes[note] \in DOMAIN heap.caches
          /\ own[requests[q].notes[note]] = q /\ kind[requests[q].notes[note]] = note
  BY DEF RequestsOk, RequestOk
<1>4. \A q \in {r.prev, r.main} : q # Null => q \in DOMAIN requests BY <1>1, <1>2 DEF Null
<1> HIDE DEF r
<1>5. \A q \in {r.prev, r.main} :
        Noted(q) # Null => Noted(q) \in DOMAIN heap.caches /\ own[Noted(q)] = q
                           /\ q # Null /\ kind[Noted(q)] = note
  BY <1>3, <1>4
<1>6. inherit \in {Noted(r.prev), Noted(r.main)} BY DEF Inheritable
<1>7. heap.caches \in Seq(Cache) /\ Linked(heap, own, kind)
  BY DEF HeapOk, CacheOk, Heap, Linked
<1>8. count \in Nat
  <2>1. r.notes[note] # Null => r.notes[note] \in DOMAIN heap.caches BY <1>3 DEF r
  <2>2. r.notes[note] # Null => heap.caches[r.notes[note]] \in Cache BY <1>7, <2>1
  <2>3. r.notes[note] # Null => heap.caches[r.notes[note]].count \in Nat BY <2>2 DEF Cache
  <2>4. CASE r.notes[note] = Null BY <2>4 DEF Count
  <2>5. CASE r.notes[note] # Null BY <2>3, <2>5 DEF Count
  <2> QED BY <2>4, <2>5
<1> HIDE DEF inherit, count, Noted
<1>9. CASE copy = r.notes[note]
  <2>1. copy \in DOMAIN heap.caches /\ own[copy] = i /\ kind[copy] = note BY <1>3, <1>9 DEF r
  <2>2. i # Null BY <1>1 DEF Null
  <2> QED BY <2>1, <2>2
<1>10. CASE inherit # Null /\ copy = OfCount(heap, inherit, count)
  <2>1. PICK q \in {r.prev, r.main} : inherit = Noted(q) BY <1>6
  <2>2. inherit \in DOMAIN heap.caches /\ own[inherit] = q /\ q # Null /\ kind[inherit] = note
    BY <1>5, <1>10, <2>1
  <2>3. copy \in DOMAIN heap.caches /\ own[copy] = own[inherit] /\ kind[copy] = kind[inherit]
    BY <1>7, <1>8, <1>10, <2>2, ClimbStays
  <2> QED BY <2>1, <2>2, <2>3 DEF r
<1>11. copy = r.notes[note] \/ (inherit # Null /\ copy = OfCount(heap, inherit, count))
  BY DEF Copied, CopiedFrom, inherit, count, r
<1> QED BY <1>9, <1>10, <1>11

\* What prep_walk_cache adds is right for the request, and leaves the rest as it is.
LEMMA PreparedOk ==
  ASSUME ~w_ver.prep.shares, NEW own, NEW kind,
         HeapOk(requests, heap, own, kind), RequestsOk(requests, heap, own, kind),
         SameLinks(requests, requests),
         NEW i \in DOMAIN requests, NEW note \in Notes, NEW access,
         NEW N, N = Len(heap.caches) + 1,
         NEW g, g = Prepared(heap, requests[i], note, access)
  PROVE  /\ HeapOk(requests, g, With(own, N, i), With(kind, N, note))
         /\ g.confs = heap.confs /\ Len(g.caches) = N
<1> DEFINE r == requests[i]
           prev == r.notes[note]
           count == Count(heap, r, note)
           copy == Copied(heap, r, note, access)
<1>1. /\ heap \in Heap /\ Objects(heap.confs) /\ Len(heap.arrays) = Len(heap.caches)
      /\ \A n \in DOMAIN heap.caches : CacheOk(requests, heap, own, kind, n)
  BY DEF HeapOk
<1>2. /\ heap.confs \in Seq(Obj) /\ heap.arrays \in Seq(Seq(Entry)) /\ heap.caches \in Seq(Cache)
      /\ Len(heap.caches) \in Nat /\ N \in Nat /\ DOMAIN heap.caches = 1 .. Len(heap.caches)
  BY <1>1 DEF Heap
<1>3. prev # Null => prev \in DOMAIN heap.caches /\ own[prev] = i /\ kind[prev] = note
  BY DEF RequestsOk, RequestOk
<1>4. prev \in Nat /\ prev < N
  <2>1. prev = Null \/ prev \in 1 .. Len(heap.caches) BY <1>2, <1>3
  <2> QED BY <1>2, <2>1 DEF Null
<1>5. count \in Nat /\ (count > 0 => prev # Null)
  <2>1. prev # Null => heap.caches[prev] \in Cache BY <1>2, <1>3
  <2>2. prev # Null => heap.caches[prev].count \in Nat BY <2>1 DEF Cache
  <2>3. CASE prev = Null BY <2>3 DEF Count
  <2>4. CASE prev # Null BY <2>2, <2>4 DEF Count
  <2> QED BY <2>3, <2>4
<1> HIDE DEF prev, count, copy
<1>6. CASE copy = Null
  <2> DEFINE cache == EmptyCache(heap)
  <2>1. /\ cache \in Cache /\ cache.walked = N /\ cache.prev = Null /\ cache.count = 0
        /\ cache.cached = {}
    BY <1>1, <1>2 DEF EmptyCache, Cache, Null
  <2>2. g = [heap EXCEPT !.caches = Append(heap.caches, cache),
                         !.arrays = Append(heap.arrays, <<>>)]
    BY <1>6 DEF Prepared, Extended, WithEmpty, copy, r
  <2>3. Chained(heap.confs, <<>>) BY DEF Chained
  <2> HIDE DEF cache
  <2>4. Sound(requests, heap.confs, cache, <<>>, i, note) BY <2>1 DEF Sound
  <2>5. cache.prev < N /\ (cache.count > 0 => cache.prev # Null)
        /\ (cache.prev # Null => own[cache.prev] = i /\ kind[cache.prev] = note)
    BY <1>2, <2>1 DEF Null
  <2>6. Fitting(requests, heap, own, kind, i, note, N, cache, <<>>, g)
    BY <2>1, <2>2, <2>3, <2>4, <2>5 DEF Fitting
  <2> QED BY <2>6, CacheAdded
<1>7. CASE copy # Null
  <2> DEFINE old == heap.caches[copy]
             entries == heap.arrays[copy]
             cache == [old EXCEPT !.walked = N, !.prev = prev, !.count = count]
  <2>1. copy \in DOMAIN heap.caches /\ kind[copy] = note
        /\ own[copy] \in {i, r.prev, r.main} \ {Null}
    BY <1>7, CopyMeans DEF copy
  <2>2. /\ old.walked = copy /\ Chained(heap.confs, entries)
        /\ Sound(requests, heap.confs, old, entries, own[copy], note)
    BY <1>1, <2>1 DEF CacheOk
  <2>3. old \in Cache BY <1>2, <2>1
  <2>4. g = [heap EXCEPT !.caches = Append(heap.caches, cache),
                         !.arrays = Append(heap.arrays, entries)]
    <3>1. ArrayOf(heap, copy) = N BY <1>1 DEF ArrayOf
    <3> QED BY <1>7, <2>2, <3>1 DEF Prepared, Extended, WithCopy, copy, prev, count, r
  <2> HIDE DEF old, entries
  <2>5. /\ cache \in Cache /\ cache.walked = N /\ cache.prev = prev /\ cache.count = count
        /\ cache.cached = old.cached /\ cache.tested = old.tested
        /\ cache.merged = old.merged /\ cache.result = old.result
    BY <1>2, <1>4, <1>5, <2>3 DEF Cache
  <2> HIDE DEF cache
  <2>6. FamilyIn(requests, own[copy]) \subseteq FamilyIn(requests, i)
    <3>1. CASE own[copy] = i BY <3>1
    <3>2. CASE own[copy] \in {r.prev, r.main} BY <2>1, <3>2, FamilyUp
    <3> QED BY <2>1, <3>1, <3>2
  <2>7. Sound(requests, heap.confs, cache, entries, i, note)
    BY <2>2, <2>5, <2>6 DEF Sound, Origin, OfLocation
  <2>8. Fitting(requests, heap, own, kind, i, note, N, cache, entries, g)
    BY <1>3, <1>4, <1>5, <2>2, <2>4, <2>5, <2>7 DEF Fitting
  <2> QED BY <2>8, CacheAdded
<1> QED BY <1>6, <1>7

-----------------------------------------------------------------------------
(* The walk from the cache that was prepared last.                         *)

\* What is found: the entries of the last cache are those of what applies.
Founded(reqs, h, own, kind, N, key, tested, f) ==
  /\ f.heap \in Heap /\ f.heap.caches = h.caches /\ Len(f.heap.arrays) = N
  /\ \A n \in 1 .. N : n # N => f.heap.arrays[n] = h.arrays[n]
  /\ Longer(h.confs, f.heap.confs) /\ Objects(f.heap.confs)
  /\ Chained(f.heap.confs, f.heap.arrays[N]) /\ f.now = LastMerged(f.heap.arrays[N])
  /\ Origin(reqs, f.heap.confs, Matched(f.heap.arrays[N]), {key}, tested, own[N], kind[N])

LEMMA FoundMeans ==
  ASSUME NEW reqs, SameLinks(reqs, reqs), NEW h, NEW own, NEW kind, HeapOk(reqs, h, own, kind),
         NEW N \in Nat \ {0}, N = Len(h.caches), NEW key, NEW tested, NEW applying \in Seq(Numbers),
         Origin(reqs, h.confs, applying, {key}, tested, own[N], kind[N]),
         NEW f, f = Found(h, key, tested, applying)
  PROVE  Founded(reqs, h, own, kind, N, key, tested, f)
<1> DEFINE cache == h.caches[N]
           entries == h.arrays[N]
<1>1. /\ h \in Heap /\ Objects(h.confs) /\ Len(h.arrays) = N
      /\ own \in [DOMAIN h.caches -> DOMAIN reqs] /\ CacheOk(reqs, h, own, kind, N)
  <2>1. h \in Heap /\ Objects(h.confs) /\ Len(h.arrays) = N
        /\ own \in [DOMAIN h.caches -> DOMAIN reqs]
        /\ \A n \in DOMAIN h.caches : CacheOk(reqs, h, own, kind, n)
    BY DEF HeapOk
  <2>2. h.caches \in Seq(Cache) BY <2>1 DEF Heap
  <2>3. N \in DOMAIN h.caches BY <2>2
  <2> QED BY <2>1, <2>3
<1>2. /\ h.confs \in Seq(Obj) /\ h.arrays \in Seq(Seq(Entry)) /\ h.caches \in Seq(Cache)
      /\ N \in DOMAIN h.arrays /\ N \in DOMAIN h.caches
  BY <1>1 DEF Heap
<1>3. cache.walked = N /\ Chained(h.confs, entries)
      /\ Sound(reqs, h.confs, cache, entries, own[N], kind[N])
  BY <1>1 DEF CacheOk
<1>4. Last(h.caches) = cache BY DEF Last
<1>5. own[N] \in DOMAIN reqs BY <1>1, <1>2
<1> HIDE DEF cache, entries
<1>6. CASE Current(cache, key, tested)
  <2> DEFINE g == [heap |-> h, now |-> LastMerged(h.arrays[N])]
  <2>1. f = g BY <1>3, <1>4, <1>6 DEF Found, FoundFrom
  <2>2. g.heap = h /\ g.now = LastMerged(h.arrays[N]) OBVIOUS
  <2> HIDE DEF g
  <2>3. Origin(reqs, h.confs, Matched(entries), {key}, tested, own[N], kind[N])
    <3>1. cache.cached = {key} /\ cache.tested = tested BY <1>6 DEF Current
    <3>2. cache.cached # {} BY <3>1
    <3>3. Origin(reqs, h.confs, Matched(entries), cache.cached, cache.tested, own[N], kind[N])
      BY <1>3, <3>2 DEF Sound
    <3> QED BY <3>1, <3>3
  <2>4. Longer(h.confs, h.confs) BY <1>2 DEF Longer
  <2> QED BY <1>1, <1>3, <2>1, <2>2, <2>3, <2>4 DEF Founded, entries
<1>7. CASE ~Current(cache, key, tested)
  <2> DEFINE w == WalkedOver(h, N, applying)
             arrays == [h.arrays EXCEPT ![N] = Kept(w)]
             g == [heap |-> [w.heap EXCEPT !.arrays = arrays], now |-> w.now]
  <2>1. /\ w.heap \in Heap /\ w.heap.arrays = h.arrays /\ w.heap.caches = h.caches
        /\ Longer(h.confs, w.heap.confs) /\ Objects(w.heap.confs)
        /\ Chained(w.heap.confs, Kept(w)) /\ Matched(Kept(w)) = applying
        /\ w.now = LastMerged(Kept(w))
    <3>1. Chained(h.confs, h.arrays[N]) BY <1>3 DEF entries
    <3>2. Over(h, applying, w) BY <1>1, <1>2, <3>1, WalkedOverMeans
    <3> HIDE DEF w
    <3> QED BY <3>2 DEF Over
  <2>2. f = g
    <3>1. f = Rewritten(w, N) BY <1>3, <1>4, <1>7 DEF Found, FoundFrom
    <3> HIDE DEF w
    <3> QED BY <2>1, <3>1 DEF Rewritten
  <2> HIDE DEF w
  <2>3. Kept(w) \in Seq(Entry) BY <2>1 DEF Chained
  <2>4. arrays \in Seq(Seq(Entry)) /\ Len(arrays) = N /\ arrays[N] = Kept(w)
        /\ \A n \in 1 .. N : n # N => arrays[n] = h.arrays[n]
    BY <1>1, <1>2, <2>3
  <2> HIDE DEF arrays
  <2>5. /\ g.heap \in Heap /\ g.heap.confs = w.heap.confs /\ g.heap.caches = h.caches
        /\ g.heap.arrays = arrays /\ g.now = w.now
    BY <2>1, <2>4 DEF Heap
  <2> HIDE DEF g
  <2>6. w.heap.confs \in Seq(Obj) BY <2>1 DEF Heap
  <2>7. Origin(reqs, w.heap.confs, applying, {key}, tested, own[N], kind[N])
    BY <1>2, <1>5, <2>1, <2>6, OriginGrows
  <2> QED BY <2>1, <2>2, <2>4, <2>5, <2>7 DEF Founded
<1> QED BY <1>6, <1>7

\* What a walk does to a configuration: what is matched, which is what applies, comes after it.
Brings(reqs, confs, given, result, key, tested, i, note) ==
  /\ result \in 0 .. Len(confs)
  /\ result # Null =>
       /\ given # Null
       /\ \E matched \in Seq(KindOf(note)) :
            /\ Origin(reqs, confs, matched, {key}, tested, i, note)
            /\ confs[result].secs = confs[given].secs \o matched

LEMMA OriginKind ==
  ASSUME NEW reqs, NEW confs \in Seq(Obj), NEW matched, NEW cached, NEW tested, NEW i,
         NEW note \in Notes, Origin(reqs, confs, matched, cached, tested, i, note)
  PROVE  matched \in Seq(KindOf(note))
<1>1. CASE note = "location"
  <2>1. PICK j \in FamilyIn(reqs, i) : matched = Applying(reqs[j].uri)
    BY <1>1 DEF Origin, OfLocation
  <2> QED BY <1>1, <2>1, Kinds
<1>2. CASE note = "file"
  <2>1. PICK c \in DOMAIN confs, file \in Filenames :
          matched = Among(confs[c].files.elts, {s \in Numbers : FileApplies(s, file)})
    BY <1>2 DEF Origin, OfFile
  <2>2. confs[c].files.elts \in Seq(OfKind("files"))
    <3>1. confs[c] \in Obj OBVIOUS
    <3> QED BY <3>1 DEF Obj
  <2> QED BY <1>2, <2>1, <2>2, Kinds
<1> QED BY <1>1, <1>2 DEF Notes

LEMMA OutcomeBrings ==
  ASSUME NEW reqs, NEW confs \in Seq(Obj), NEW matched, NEW given, NEW result, NEW key, NEW tested,
         NEW i, NEW note \in Notes, Origin(reqs, confs, matched, {key}, tested, i, note),
         Outcome(confs, matched, given, result)
  PROVE  Brings(reqs, confs, given, result, key, tested, i, note)
<1>1. matched \in Seq(KindOf(note)) BY OriginKind
<1> QED BY <1>1 DEF Outcome, Brings

\* What was found is merged, if anything was.
LEMMA FoundMerged ==
  ASSUME NEW reqs, NEW h, NEW own, NEW kind, h \in Heap,
         NEW N \in Nat \ {0}, N = Len(h.caches), NEW key, NEW tested,
         NEW f, Founded(reqs, h, own, kind, N, key, tested, f),
         NEW given \in 0 .. Len(h.confs), given # Null \/ f.now = Null,
         NEW m, m = IF f.now = Null THEN f.heap ELSE Merge(f.heap, given, f.now)
  PROVE  /\ m \in Heap /\ m.arrays = f.heap.arrays /\ m.caches = h.caches
         /\ Longer(f.heap.confs, m.confs) /\ Objects(m.confs)
         /\ Outcome(m.confs, Matched(f.heap.arrays[N]), given, Result(f, given))
<1> DEFINE arr == f.heap.arrays[N]
           M == Len(f.heap.confs)
<1>1. /\ f.heap \in Heap /\ f.heap.caches = h.caches
      /\ Longer(h.confs, f.heap.confs) /\ Objects(f.heap.confs)
      /\ Chained(f.heap.confs, arr) /\ f.now = LastMerged(arr)
  BY DEF Founded
<1>2. f.heap.confs \in Seq(Obj) /\ M \in Nat /\ DOMAIN f.heap.confs = 1 .. M
      /\ h.confs \in Seq(Obj) /\ Len(h.confs) \in Nat
  BY <1>1 DEF Heap
<1>3. given \in 0 .. M /\ (given # Null => given \in DOMAIN f.heap.confs)
  BY <1>1, <1>2 DEF Longer, Null
<1>4. arr \in Seq(Entry) /\ Len(arr) \in Nat /\ DOMAIN arr = 1 .. Len(arr) BY <1>1 DEF Chained
<1> HIDE DEF arr, M
<1>5. CASE arr = <<>>
  <2>1. f.now = Null /\ m = f.heap BY <1>1, <1>5 DEF LastMerged
  <2>2. Result(f, given) = given BY <2>1 DEF Result
  <2>3. Matched(arr) = <<>> BY <1>5 DEF Matched, UpTo
  <2>4. Outcome(f.heap.confs, <<>>, given, given)
    <3>1. ASSUME given # Null
          PROVE  f.heap.confs[given].secs = f.heap.confs[given].secs \o <<>>
      <4>1. f.heap.confs[given] \in Obj BY <1>2, <1>3, <3>1
      <4>2. f.heap.confs[given].secs \in Seq(Nat) BY <4>1 DEF Obj
      <4> QED BY <4>2
    <3> QED BY <1>3, <3>1 DEF Outcome, M
  <2>5. Longer(f.heap.confs, f.heap.confs) BY <1>2 DEF Longer
  <2> QED BY <1>1, <2>1, <2>2, <2>3, <2>4, <2>5 DEF arr
<1>6. CASE arr # <<>>
  <2> DEFINE n == Len(arr)
  <2>1. n \in DOMAIN arr BY <1>4, <1>6
  <2>2. f.now = arr[n].merged BY <1>1, <1>6 DEF LastMerged, Last
  <2>3. f.now \in DOMAIN f.heap.confs /\ f.heap.confs[f.now].secs = Matched(arr)
    BY <1>1, <2>1, <2>2 DEF Chained, Matched
  <2>4. f.now # Null BY <1>2, <2>3 DEF Null
  <2>5. given # Null /\ given \in DOMAIN f.heap.confs BY <1>3, <2>4
  <2>6. m = Merge(f.heap, given, f.now) /\ Result(f, given) = M + 1 BY <2>4 DEF Result, M
  <2>7. /\ m \in Heap /\ m.arrays = f.heap.arrays /\ m.caches = f.heap.caches
        /\ Len(m.confs) = M + 1 /\ Longer(f.heap.confs, m.confs)
        /\ m.confs[M + 1].secs = f.heap.confs[given].secs \o f.heap.confs[f.now].secs
        /\ Objects(m.confs)
    <3>1. Merges(f.heap, given, f.now, Merge(f.heap, given, f.now))
      BY <1>1, <2>3, <2>5, MergeAdds
    <3> QED BY <2>6, <3>1 DEF Merges, M
  <2>8. m.confs[given] = f.heap.confs[given] BY <2>5, <2>7 DEF Longer
  <2>9. given \in 0 .. M + 1 /\ M + 1 \in 0 .. M + 1 /\ M + 1 # Null BY <1>2, <1>3 DEF Null
  <2>10. Outcome(m.confs, Matched(arr), given, M + 1)
    BY <2>3, <2>5, <2>7, <2>8, <2>9 DEF Outcome
  <2> QED BY <1>1, <2>6, <2>7, <2>10 DEF arr
<1> QED BY <1>5, <1>6

\* The rest of a walk that goes to its end.
LEMMA EndedMeans ==
  ASSUME NEW reqs, SameLinks(reqs, reqs), NEW h, NEW own, NEW kind, HeapOk(reqs, h, own, kind),
         NEW N \in Nat \ {0}, N = Len(h.caches), NEW key \in Keys, NEW tested \in Nat,
         NEW f, Founded(reqs, h, own, kind, N, key, tested, f),
         NEW given \in 0 .. Len(h.confs), given # Null \/ f.now = Null,
         NEW e, e = Ended(f, given, key, tested)
  PROVE  /\ HeapOk(reqs, e, own, kind) /\ Longer(h.confs, e.confs) /\ Len(e.caches) = N
         /\ Brings(reqs, e.confs, given, Result(f, given), key, tested, own[N], kind[N])
<1> DEFINE arr == f.heap.arrays[N]
           result == Result(f, given)
           m == IF f.now = Null THEN f.heap ELSE Merge(f.heap, given, f.now)
           old == h.caches[N]
           cache == [old EXCEPT !.cached = {key}, !.tested = tested, !.merged = given,
                                !.result = result]
           caches == [h.caches EXCEPT ![N] = cache]
<1>1. /\ h \in Heap /\ Objects(h.confs) /\ Len(h.arrays) = N
      /\ own \in [DOMAIN h.caches -> DOMAIN reqs] /\ kind \in [DOMAIN h.caches -> Notes]
      /\ \A n \in DOMAIN h.caches : CacheOk(reqs, h, own, kind, n)
  BY DEF HeapOk
<1>2. /\ h.confs \in Seq(Obj) /\ h.arrays \in Seq(Seq(Entry)) /\ h.caches \in Seq(Cache)
      /\ DOMAIN h.caches = 1 .. N /\ N \in 1 .. N
  BY <1>1 DEF Heap
<1>3. /\ m \in Heap /\ m.arrays = f.heap.arrays /\ m.caches = h.caches
      /\ Longer(f.heap.confs, m.confs) /\ Objects(m.confs)
      /\ Outcome(m.confs, Matched(arr), given, result)
  BY <1>1, FoundMerged
<1>4. /\ f.heap \in Heap /\ Len(f.heap.arrays) = N /\ Longer(h.confs, f.heap.confs)
      /\ f.heap.caches = h.caches
      /\ \A n \in 1 .. N : n # N => f.heap.arrays[n] = h.arrays[n]
      /\ Chained(f.heap.confs, arr)
      /\ Origin(reqs, f.heap.confs, Matched(arr), {key}, tested, own[N], kind[N])
  BY DEF Founded
<1>5. e = [m EXCEPT !.caches = caches]
  <2>1. e = Stored(m, N, key, tested, given, result) BY <1>4 DEF Ended
  <2> HIDE DEF m, result
  <2> QED BY <1>2, <1>3, <2>1 DEF Stored
<1> HIDE DEF m, result, old, arr
<1>6. f.heap.confs \in Seq(Obj) /\ m.confs \in Seq(Obj) BY <1>3, <1>4 DEF Heap
<1>7. old \in Cache BY <1>2 DEF old
<1>8. result \in Nat /\ given \in Nat
  <2>1. Len(m.confs) \in Nat BY <1>6
  <2> QED BY <1>3, <2>1 DEF Outcome
<1>9. /\ cache \in Cache /\ cache.cached = {key} /\ cache.tested = tested /\ cache.merged = given
      /\ cache.result = result /\ cache.walked = old.walked /\ cache.prev = old.prev
      /\ cache.count = old.count
  BY <1>7, <1>8 DEF Cache
<1> HIDE DEF cache
<1>10. /\ caches \in Seq(Cache) /\ Len(caches) = N /\ DOMAIN caches = 1 .. N /\ caches[N] = cache
       /\ \A n \in 1 .. N : n # N => caches[n] = h.caches[n]
  BY <1>2, <1>9
<1> HIDE DEF caches
<1>11. /\ e \in Heap /\ e.confs = m.confs /\ e.arrays = f.heap.arrays /\ e.caches = caches
  BY <1>3, <1>5, <1>10 DEF Heap
<1>12. Longer(h.confs, m.confs) BY <1>2, <1>3, <1>4, <1>6, LongerStill
<1>13. own[N] \in DOMAIN reqs /\ kind[N] \in Notes BY <1>1, <1>2
<1>14. Origin(reqs, m.confs, Matched(arr), {key}, tested, own[N], kind[N])
  BY <1>3, <1>4, <1>6, <1>13, OriginGrows
<1>15. ASSUME NEW n \in 1 .. N, n # N PROVE CacheOk(reqs, e, own, kind, n)
  <2>1. e.caches[n] = h.caches[n] /\ e.arrays[n] = h.arrays[n] BY <1>4, <1>10, <1>11, <1>15
  <2>2. StaysAt(h, e, own, kind, own, kind, n) BY <1>1, <1>2, <1>11, <1>12, <2>1 DEF StaysAt
  <2>3. own[n] \in DOMAIN reqs /\ CacheOk(reqs, h, own, kind, n) BY <1>1, <1>2
  <2> QED BY <2>2, <2>3, CacheGrows
<1>16. CacheOk(reqs, e, own, kind, N)
  <2>1. CacheOk(reqs, h, own, kind, N) BY <1>1, <1>2
  <2>2. /\ old.walked = N /\ old.prev < N /\ (old.count > 0 => old.prev # Null)
        /\ old.prev # Null => own[old.prev] = own[N] /\ kind[old.prev] = kind[N]
    BY <2>1 DEF CacheOk, old
  <2>3. e.caches[N] = cache /\ e.arrays[N] = arr BY <1>10, <1>11 DEF arr
  <2>4. Chained(e.confs, arr) BY <1>3, <1>4, <1>6, <1>11, ChainedGrows
  <2>5. Sound(reqs, e.confs, cache, arr, own[N], kind[N]) BY <1>3, <1>9, <1>11, <1>14 DEF Sound
  <2> QED BY <1>9, <2>2, <2>3, <2>4, <2>5 DEF CacheOk
<1>17. HeapOk(reqs, e, own, kind)
  <2>1. \A n \in 1 .. N : CacheOk(reqs, e, own, kind, n) BY <1>15, <1>16
  <2> QED BY <1>1, <1>2, <1>3, <1>4, <1>10, <1>11, <2>1 DEF HeapOk
<1>18. Brings(reqs, m.confs, given, result, key, tested, own[N], kind[N])
  BY <1>3, <1>6, <1>13, <1>14, OutcomeBrings
<1> QED BY <1>10, <1>11, <1>12, <1>17, <1>18 DEF result

\* A cache that is current for a configuration that it has seen: its result is what the walk
\* would have made.
LEMMA EarlyMeans ==
  ASSUME NEW reqs, NEW h, NEW own, NEW kind, HeapOk(reqs, h, own, kind),
         NEW N \in Nat \ {0}, N = Len(h.caches), NEW key, NEW tested,
         NEW given \in 0 .. Len(h.confs), given # Null => Without(h.confs, given, kind[N]),
         Early(Last(h.caches), given, key, tested)
  PROVE  Brings(reqs, h.confs, given, Last(h.caches).result, key, tested, own[N], kind[N])
<1> DEFINE cache == h.caches[N]
           matched == Matched(h.arrays[N])
           merged == cache.merged
           result == cache.result
<1>1. /\ h \in Heap /\ kind[N] \in Notes /\ CacheOk(reqs, h, own, kind, N)
  <2>1. h \in Heap /\ kind \in [DOMAIN h.caches -> Notes]
        /\ \A n \in DOMAIN h.caches : CacheOk(reqs, h, own, kind, n)
    BY DEF HeapOk
  <2>2. h.caches \in Seq(Cache) BY <2>1 DEF Heap
  <2>3. N \in DOMAIN h.caches BY <2>2
  <2> QED BY <2>1, <2>3
<1>2. Last(h.caches) = cache BY DEF Last
<1>3. cache.cached = {key} /\ cache.tested = tested /\ given \in {result, merged}
  BY <1>2 DEF Early, Current
<1>4. /\ Origin(reqs, h.confs, matched, {key}, tested, own[N], kind[N])
      /\ Outcome(h.confs, matched, merged, result)
  <2>1. Sound(reqs, h.confs, cache, h.arrays[N], own[N], kind[N]) BY <1>1 DEF CacheOk
  <2>2. cache.cached # {} BY <1>3
  <2> QED BY <1>3, <2>1, <2>2 DEF Sound
<1>5. h.confs \in Seq(Obj) BY <1>1 DEF Heap
<1>6. matched \in Seq(KindOf(kind[N])) BY <1>1, <1>4, <1>5, OriginKind
<1> HIDE DEF cache, matched, merged, result
<1>7. Brings(reqs, h.confs, given, result, key, tested, own[N], kind[N])
  <2>1. CASE given = merged
    BY <1>1, <1>4, <1>5, <2>1, OutcomeBrings
  <2>2. CASE given = result /\ given # Null
    <3>1. /\ merged # Null /\ merged \in 0 .. Len(h.confs)
          /\ h.confs[given].secs = h.confs[merged].secs \o matched
      BY <1>4, <2>2 DEF Outcome
    <3>2. merged \in DOMAIN h.confs /\ given \in DOMAIN h.confs
      BY <1>5, <2>2, <3>1 DEF Null
    <3> DEFINE a == h.confs[merged].secs
               b == h.confs[given].secs
    <3>3. a \in Seq(Nat) /\ b \in Seq(Nat)
      <4>1. h.confs[merged] \in Obj /\ h.confs[given] \in Obj BY <1>5, <3>2
      <4> QED BY <4>1 DEF Obj
    <3>4. \A k \in DOMAIN b : b[k] \notin KindOf(kind[N]) BY <2>2 DEF Without
    <3>5. b = a \o matched BY <3>1
    <3> HIDE DEF a, b
    <3>6. matched = <<>>
      <4> SUFFICES ASSUME matched # <<>> PROVE FALSE OBVIOUS
      <4>1. Len(matched) \in Nat /\ Len(matched) # 0 /\ matched[1] \in KindOf(kind[N])
        BY <1>6
      <4>2. matched \in Seq(Nat)
        <5>1. KindOf(kind[N]) \subseteq Nat BY <1>1, Kinds, SectionNumbers DEF Notes
        <5> QED BY <1>6, <5>1, SeqMonotone
      <4>3. Len(a) + 1 \in DOMAIN b /\ b[Len(a) + 1] = matched[1] BY <3>3, <3>5, <4>1, <4>2
      <4> QED BY <3>4, <4>1, <4>3
    <3>7. <<>> \in Seq(KindOf(kind[N])) /\ b = b \o <<>> BY <3>3
    <3> QED BY <1>4, <2>2, <3>6, <3>7 DEF Brings, b
  <2>3. CASE given = result /\ given = Null
    <3>1. given \in 0 .. Len(h.confs) OBVIOUS
    <3> QED BY <2>3, <3>1 DEF Brings
  <2> QED BY <1>3, <2>1, <2>2, <2>3
<1> QED BY <1>2, <1>7 DEF result

-----------------------------------------------------------------------------
(* The steps.                                                              *)
LEMMA LinksStay ==
  ASSUME NEW reqs, NEW h, NEW own, NEW kind, RequestsOk(reqs, h, own, kind)
  PROVE  SameLinks(reqs, reqs)
<1> SUFFICES ASSUME NEW j \in DOMAIN reqs
             PROVE  {reqs[j].prev, reqs[j].main} \subseteq DOMAIN reqs \cup {Null}
  BY DEF SameLinks
<1>1. reqs \in Seq(Request) /\ reqs[j].prev < j /\ reqs[j].main < j BY DEF RequestsOk, RequestOk
<1>2. Len(reqs) \in Nat /\ DOMAIN reqs = 1 .. Len(reqs) /\ j \in 1 .. Len(reqs) BY <1>1
<1>3. reqs[j] \in Request BY <1>1
<1>4. reqs[j].prev \in Nat /\ reqs[j].main \in Nat BY <1>3 DEF Request
<1> QED BY <1>1, <1>2, <1>4 DEF Null

\* A request that has changed, or one that is new, beside those that were right before.
LEMMA HeapKept ==
  ASSUME NEW reqs, NEW later, SameLinks(reqs, later), NEW g, NEW own, NEW kind,
         HeapOk(reqs, g, own, kind)
  PROVE  HeapOk(later, g, own, kind)
<1>1. /\ g \in Heap /\ Objects(g.confs) /\ Len(g.arrays) = Len(g.caches)
      /\ own \in [DOMAIN g.caches -> DOMAIN reqs] /\ kind \in [DOMAIN g.caches -> Notes]
      /\ \A n \in DOMAIN g.caches : CacheOk(reqs, g, own, kind, n)
  BY DEF HeapOk
<1>2. DOMAIN reqs \subseteq DOMAIN later BY DEF SameLinks
<1>3. own \in [DOMAIN g.caches -> DOMAIN later] BY <1>1, <1>2
<1>4. ASSUME NEW n \in DOMAIN g.caches PROVE CacheOk(later, g, own, kind, n)
  <2>1. g.confs \in Seq(Obj) BY <1>1 DEF Heap
  <2>2. Longer(g.confs, g.confs) BY <2>1 DEF Longer
  <2>3. StaysAt(g, g, own, kind, own, kind, n) BY <1>1, <2>2 DEF StaysAt
  <2>4. own[n] \in DOMAIN reqs /\ CacheOk(reqs, g, own, kind, n) BY <1>1
  <2> QED BY <2>3, <2>4, CacheGrows
<1> QED BY <1>1, <1>3, <1>4 DEF HeapOk

LEMMA RequestsKept ==
  ASSUME NEW reqs, NEW later \in Seq(Request), NEW h, NEW g, NEW own, NEW kind, NEW own2, NEW kind2,
         Grown(reqs, later, h, g, own, kind, own2, kind2), RequestsOk(reqs, h, own, kind),
         NEW i \in DOMAIN later,
         \A j \in DOMAIN later : j # i => j \in DOMAIN reqs /\ later[j] = reqs[j],
         RequestOk(later, g, own2, kind2, i, later[i])
  PROVE  RequestsOk(later, g, own2, kind2)
<1>1. ASSUME NEW j \in DOMAIN later, j # i PROVE RequestOk(later, g, own2, kind2, j, later[j])
  <2>1. j \in DOMAIN reqs /\ later[j] = reqs[j] BY <1>1
  <2>2. RequestOk(reqs, h, own, kind, j, reqs[j]) BY <2>1 DEF RequestsOk
  <2> QED BY <2>1, <2>2, RequestGrows
<1> QED BY <1>1 DEF RequestsOk

\* The request that runs has changed.
SameRequest(r, n) == n.prev = r.prev /\ n.main = r.main /\ n.uri = r.uri

LEMMA ChangedIsRight ==
  ASSUME NEW reqs, NEW h, NEW g, NEW own, NEW kind, NEW own2, NEW kind2,
         Grown(reqs, reqs, h, g, own, kind, own2, kind2),
         RequestsOk(reqs, h, own, kind), HeapOk(reqs, g, own2, kind2),
         NEW i \in DOMAIN reqs, NEW n \in Request, SameRequest(reqs[i], n),
         RequestOk(reqs, g, own2, kind2, i, n)
  PROVE  Right([reqs EXCEPT ![i] = n], g, own2, kind2)
<1> DEFINE later == [reqs EXCEPT ![i] = n]
<1>1. reqs \in Seq(Request) BY DEF RequestsOk
<1>2. /\ later \in Seq(Request) /\ DOMAIN later = DOMAIN reqs /\ later[i] = n
      /\ \A j \in DOMAIN reqs : j # i => later[j] = reqs[j]
  BY <1>1
<1> HIDE DEF later
<1>3. SameLinks(reqs, later)
  <2>1. SameLinks(reqs, reqs) BY LinksStay
  <2>2. ASSUME NEW j \in DOMAIN reqs
        PROVE  later[j].prev = reqs[j].prev /\ later[j].main = reqs[j].main
               /\ later[j].uri = reqs[j].uri
    <3>1. CASE j = i BY <1>2, <3>1 DEF SameRequest
    <3>2. CASE j # i BY <1>2, <3>2
    <3> QED BY <3>1, <3>2
  <2> QED BY <1>2, <2>1, <2>2 DEF SameLinks
<1>4. HeapOk(later, g, own2, kind2) BY <1>3, HeapKept
<1>5. Grown(reqs, later, h, g, own, kind, own2, kind2) BY <1>3 DEF Grown
<1>6. RequestOk(later, g, own2, kind2, i, later[i])
  <2>1. g \in Heap BY DEF Grown
  <2>2. g.confs \in Seq(Obj) BY <2>1 DEF Heap
  <2>3. Longer(g.confs, g.confs) BY <2>2 DEF Longer
  <2>4. Grown(reqs, later, g, g, own2, kind2, own2, kind2) BY <1>3, <2>1, <2>3 DEF Grown
  <2>5. RequestOk(later, g, own2, kind2, i, n) BY <2>4, RequestGrows
  <2> QED BY <1>2, <2>5
<1>7. \A j \in DOMAIN later : j # i => j \in DOMAIN reqs /\ later[j] = reqs[j] BY <1>2
<1>8. i \in DOMAIN later BY <1>2
<1>9. RequestsOk(later, g, own2, kind2) BY <1>2, <1>5, <1>6, <1>7, <1>8, RequestsKept
<1> QED BY <1>4, <1>9 DEF Right, later

\* A new request that follows from others.
LEMMA MadeIsRight ==
  ASSUME NEW reqs, NEW h, NEW own, NEW kind, Right(reqs, h, own, kind),
         NEW uri \in Uris, NEW prev \in 0 .. Len(reqs), NEW main \in 0 .. Len(reqs)
  PROVE  Right(Append(reqs, NewRequest(uri, prev, main)), h, own, kind)
<1> DEFINE n == NewRequest(uri, prev, main)
           later == Append(reqs, n)
           i == Len(reqs) + 1
<1>1. reqs \in Seq(Request) /\ h \in Heap /\ Objects(h.confs) BY DEF Right, RequestsOk, HeapOk
<1>2. h.confs \in Seq(Obj) BY <1>1 DEF Heap
<1>3. Defaults \in Nat /\ Defaults # Null /\ Defaults \in 0 .. Len(h.confs)
  <2>1. Len(ServerSections) \in Nat /\ Defaults = Len(ServerSections) + 1 BY SectionNumbers
  <2>2. Len(h.confs) >= Defaults /\ Len(h.confs) \in Nat BY <1>1, <1>2 DEF Objects
  <2> QED BY <2>1, <2>2 DEF Null
<1>4. n = [uri |-> uri, file |-> {}, prev |-> prev, main |-> main, conf |-> Defaults,
           before |-> Defaults, notes |-> [m \in Notes |-> Null], at |-> "read"]
  BY DEF NewRequest
<1> HIDE DEF n
<1>5. n.prev = prev /\ n.main = main /\ n.conf = Defaults /\ n.before = Defaults /\ n.file = {}
      /\ n.at = "read" /\ \A m \in Notes : n.notes[m] = Null
  BY <1>4
<1>6. n \in Request
  <2>1. prev \in Nat /\ main \in Nat BY <1>1
  <2> QED BY <1>3, <1>4, <2>1 DEF Request, Null
<1>7. /\ later \in Seq(Request) /\ DOMAIN later = 1 .. i /\ later[i] = n /\ i \in 1 .. i
      /\ DOMAIN reqs = 1 .. Len(reqs) /\ Len(reqs) \in Nat
      /\ \A j \in 1 .. Len(reqs) : later[j] = reqs[j]
  BY <1>1, <1>6
<1> HIDE DEF later
<1>8. SameLinks(reqs, later)
  <2>1. SameLinks(reqs, reqs) BY LinksStay DEF Right
  <2> QED BY <1>7, <2>1 DEF SameLinks
<1>9. HeapOk(later, h, own, kind) BY <1>8, HeapKept DEF Right
<1>10. Grown(reqs, later, h, h, own, kind, own, kind)
  <2>1. Longer(h.confs, h.confs) BY <1>2 DEF Longer
  <2> QED BY <1>1, <1>8, <2>1 DEF Grown
<1>11. RequestOk(later, h, own, kind, i, n)
  <2>1. prev < i /\ main < i BY <1>7
  <2> QED BY <1>3, <1>5, <2>1 DEF RequestOk
<1>12. \A j \in DOMAIN later : j # i => j \in DOMAIN reqs /\ later[j] = reqs[j] BY <1>7
<1>13. RequestsOk(later, h, own, kind)
  <2>1. i \in DOMAIN later /\ RequestOk(later, h, own, kind, i, later[i]) BY <1>7, <1>11
  <2> HIDE DEF i
  <2> QED BY <1>7, <1>10, <1>12, <2>1, RequestsKept DEF Right
<1> QED BY <1>9, <1>13 DEF Right, later, n


\* What a walk brings is what the request was to have.
LEMMA WalkedLocation ==
  ASSUME NEW reqs, NEW confs, NEW i, NEW r, NEW tested,
         Brings(reqs, confs, r.before, r.conf, EntryUri(r.uri), tested, i, "location")
  PROVE  Walked(reqs, confs, i, r, "location")
<1> SUFFICES ASSUME r.conf # Null
             PROVE  /\ r.before # Null
                    /\ \E j \in FamilyIn(reqs, i) :
                         /\ EntryUri(reqs[j].uri) = EntryUri(r.uri)
                         /\ confs[r.conf].secs = confs[r.before].secs \o Applying(reqs[j].uri)
  BY DEF Walked
<1>1. PICK matched \in Seq(KindOf("location")) :
        /\ Origin(reqs, confs, matched, {EntryUri(r.uri)}, tested, i, "location")
        /\ confs[r.conf].secs = confs[r.before].secs \o matched
  BY DEF Brings
<1>2. r.before # Null BY DEF Brings
<1>3. PICK j \in FamilyIn(reqs, i) :
        {EntryUri(r.uri)} = {EntryUri(reqs[j].uri)} /\ matched = Applying(reqs[j].uri)
  BY <1>1 DEF Origin, OfLocation
<1>4. EntryUri(reqs[j].uri) = EntryUri(r.uri) BY <1>3
<1> QED BY <1>1, <1>2, <1>3, <1>4

LEMMA WalkedFile ==
  ASSUME NEW reqs, NEW confs, Objects(confs), NEW i, NEW r, NEW file \in Filenames,
         r.file = {file}, r.before \in 0 .. Len(confs),
         Brings(reqs, confs, r.before, r.conf, TestFile(file), confs[r.before].files.array, i,
                "file")
  PROVE  Walked(reqs, confs, i, r, "file")
<1> DEFINE applies == {s \in Numbers : FileApplies(s, file)}
<1> SUFFICES ASSUME r.conf # Null
             PROVE  /\ r.before # Null
                    /\ confs[r.conf].secs =
                         confs[r.before].secs \o Among(confs[r.before].files.elts, applies)
  BY DEF Walked
<1>1. confs \in Seq(Obj) BY DEF Objects
<1>2. r.before # Null /\ r.before \in DOMAIN confs
  <2>1. Len(confs) \in Nat /\ DOMAIN confs = 1 .. Len(confs) BY <1>1
  <2>2. r.before # Null BY DEF Brings
  <2> QED BY <2>1, <2>2 DEF Null
<1>3. PICK matched \in Seq(KindOf("file")) :
        /\ Origin(reqs, confs, matched, {TestFile(file)}, confs[r.before].files.array, i, "file")
        /\ confs[r.conf].secs = confs[r.before].secs \o matched
  BY DEF Brings
<1>4. PICK c \in DOMAIN confs, other \in Filenames :
        /\ {TestFile(file)} = {TestFile(other)}
        /\ confs[r.before].files.array = confs[c].files.array
        /\ matched = Among(confs[c].files.elts, {s \in Numbers : FileApplies(s, other)})
  BY <1>3 DEF Origin, OfFile
<1>5. confs[c].files.elts = confs[r.before].files.elts BY <1>2, <1>4 DEF Objects
<1>6. {s \in Numbers : FileApplies(s, other)} = applies
  <2>1. TestFile(file) = TestFile(other) BY <1>4
  <2>2. ASSUME NEW s \in Numbers PROVE FileApplies(s, other) <=> FileApplies(s, file)
    BY <2>1 DEF FileApplies, TestFile
  <2> QED BY <2>2
<1> HIDE DEF applies
<1> QED BY <1>2, <1>3, <1>4, <1>5, <1>6

\* A walk over <Files> sections brings no <Location> section.
LEMMA StaysWithout ==
  ASSUME NEW reqs, NEW confs \in Seq(Obj), NEW i, NEW key, NEW tested, NEW given, NEW result,
         given \in 0 .. Len(confs), result # Null,
         Brings(reqs, confs, given, result, key, tested, i, "file"),
         Without(confs, given, "location")
  PROVE  Without(confs, result, "location")
<1>1. PICK matched \in Seq(KindOf("file")) : confs[result].secs = confs[given].secs \o matched
  BY DEF Brings
<1>2. given \in DOMAIN confs
  <2>1. given # Null BY DEF Brings
  <2>2. Len(confs) \in Nat /\ DOMAIN confs = 1 .. Len(confs) OBVIOUS
  <2> QED BY <2>1, <2>2 DEF Null
<1>3. confs[given].secs \in Seq(Nat)
  <2>1. confs[given] \in Obj BY <1>2
  <2> QED BY <2>1 DEF Obj
<1>4. matched \in Seq(Nat)
  <2>1. KindOf("file") \subseteq Nat BY Kinds, SectionNumbers
  <2> QED BY <2>1, SeqMonotone
<1>5. \A x \in KindOf("file") : x \notin KindOf("location") BY DEF KindOf, OfKind
<1> DEFINE a == confs[given].secs
           b == confs[result].secs
<1>6. \A k \in DOMAIN a : a[k] \notin KindOf("location") BY DEF Without
<1>7. b = a \o matched /\ a \in Seq(Nat) BY <1>1, <1>3
<1> HIDE DEF a, b
<1>8. ASSUME NEW k \in DOMAIN b PROVE b[k] \notin KindOf("location")
  <2>1. Len(a) \in Nat /\ Len(matched) \in Nat /\ DOMAIN b = 1 .. Len(a) + Len(matched)
        /\ DOMAIN a = 1 .. Len(a)
    BY <1>4, <1>7
  <2>2. CASE k \in 1 .. Len(a)
    <3>1. b[k] = a[k] BY <1>4, <1>7, <2>2
    <3> QED BY <1>6, <2>1, <2>2, <3>1
  <2>3. CASE k \notin 1 .. Len(a)
    <3>1. k - Len(a) \in 1 .. Len(matched) BY <2>1, <2>3
    <3>2. b[k] = matched[k - Len(a)] BY <1>4, <1>7, <2>1, <2>3
    <3>3. matched[k - Len(a)] \in KindOf("file") BY <1>1, <3>1
    <3> QED BY <1>5, <3>2, <3>3
  <2> QED BY <2>2, <2>3
<1> QED BY <1>8 DEF Without, b


\* How a walk leaves the heap and the request's configuration.
Leaves(own, kind, i, note, key, tested, h, given) ==
  /\ HeapOk(requests, h, With(own, Len(heap.caches) + 1, i), With(kind, Len(heap.caches) + 1, note))
  /\ Longer(heap.confs, h.confs) /\ Len(h.caches) = Len(heap.caches) + 1
  /\ given # Null => Brings(requests, h.confs, requests[i].conf, given, key, tested, i, note)

LEMMA WalkLeaves ==
  ASSUME ~w_ver.prep.shares, NEW own, NEW kind, Right(requests, heap, own, kind),
         Running \in DOMAIN requests, NEW note \in Notes, NEW next, NEW key \in Keys,
         NEW tested \in Nat, NEW applying \in Seq(Numbers),
         Origin(requests, heap.confs, applying, {key}, tested, Running, note),
         r_.conf # Null => Without(heap.confs, r_.conf, note),
         NEW frail, NEW ends, Walk(note, next, key, tested, applying, frail, ends)
  PROVE  \/ UNCHANGED <<w_ver, heap, requests, stack>>
         \/ \E h, given, stage : /\ Leaves(own, kind, Running, note, key, tested, h, given)
                             /\ Becomes(stage, h, given, note)
                             /\ (stage = next \/ (stage = "refused" /\ given = Null))
<1> DEFINE i == Running
           N == Len(heap.caches) + 1
           own2 == With(own, N, i)
           kind2 == With(kind, N, note)
<1>1. HeapOk(requests, heap, own, kind) /\ RequestsOk(requests, heap, own, kind)
      /\ SameLinks(requests, requests)
  BY LinksStay DEF Right
<1>2. heap \in Heap /\ heap.confs \in Seq(Obj) /\ heap.caches \in Seq(Cache)
      /\ Len(heap.caches) \in Nat /\ N \in Nat \ {0} /\ N \in 1 .. N
  BY <1>1 DEF HeapOk, Heap
<1>3. r_.conf \in 0 .. Len(heap.confs) BY <1>1 DEF RequestsOk, RequestOk, r_
<1>4. own2[N] = i /\ kind2[N] = note BY <1>2 DEF With
<1>5. PICK inherited \in BOOLEAN :
        \/ Crash
        \/ WalkFrom(Prepared(heap, r_, note, inherited), note, next, key, tested, applying, frail,
                    ends)
  BY DEF Walk
<1> DEFINE p == Prepared(heap, r_, note, inherited)
<1>6. HeapOk(requests, p, own2, kind2) /\ p.confs = heap.confs /\ Len(p.caches) = N
  <2> HIDE DEF N, own2, kind2
  <2>1. /\ HeapOk(requests, p, With(own, N, i), With(kind, N, note))
        /\ p.confs = heap.confs /\ Len(p.caches) = N
    <3>1. N = Len(heap.caches) + 1 BY DEF N
    <3>2. r_ = requests[i] /\ i \in DOMAIN requests BY DEF r_
    <3> HIDE DEF i
    <3> QED BY <1>1, <3>1, <3>2, PreparedOk
  <2> QED BY <2>1 DEF own2, kind2
<1> HIDE DEF p, own2, kind2, i
<1>7. CASE Crash BY <1>7 DEF Crash
<1>8. CASE WalkFrom(p, note, next, key, tested, applying, frail, ends)
           /\ Early(Last(p.caches), r_.conf, key, tested)
  <2> DEFINE given == Last(p.caches).result
  <2>1. Becomes(next, p, given, note) BY <1>8 DEF WalkFrom
  <2>2. Brings(requests, p.confs, r_.conf, given, key, tested, own2[N], kind2[N])
    <3> HIDE DEF N
    <3>1. r_.conf \in 0 .. Len(p.confs)
          /\ (r_.conf # Null => Without(p.confs, r_.conf, kind2[N])) /\ N = Len(p.caches)
      BY <1>3, <1>4, <1>6
    <3> QED BY <1>2, <1>6, <1>8, <3>1, EarlyMeans
  <2>3. Longer(heap.confs, p.confs) BY <1>2, <1>6 DEF Longer
  <2> HIDE DEF given
  <2>4. Leaves(own, kind, i, note, key, tested, p, given)
    BY <1>4, <1>6, <2>2, <2>3 DEF Leaves, own2, kind2, r_, i
  <2> QED BY <2>1, <2>4 DEF i
<1>9. CASE WalkFrom(p, note, next, key, tested, applying, frail, ends)
           /\ ~Early(Last(p.caches), r_.conf, key, tested)
  <2> DEFINE f == Found(p, key, tested, applying)
             e == Ended(f, r_.conf, key, tested)
             result == Result(f, r_.conf)
  <2>1. WalkOn(f, note, next, key, tested, frail, ends) BY <1>9 DEF WalkFrom
  <2>2. Founded(requests, p, own2, kind2, N, key, tested, f)
    <3>1. Origin(requests, p.confs, applying, {key}, tested, own2[N], kind2[N])
      BY <1>4, <1>6 DEF i
    <3>2. N = Len(p.caches) /\ f = Found(p, key, tested, applying) BY <1>6
    <3> HIDE DEF f, N
    <3> QED BY <1>1, <1>2, <1>6, <3>1, <3>2, FoundMeans
  <2> HIDE DEF f
  <2>3. CASE f.now # Null /\ (frail \/ r_.conf = Null)
    <3>1. Crash BY <2>1, <2>3 DEF WalkOn
    <3> QED BY <3>1 DEF Crash
  <2>4. CASE ~(f.now # Null /\ (frail \/ r_.conf = Null))
    <3>1. /\ HeapOk(requests, e, own2, kind2) /\ Longer(p.confs, e.confs) /\ Len(e.caches) = N
          /\ Brings(requests, e.confs, r_.conf, result, key, tested, own2[N], kind2[N])
      <4>1. r_.conf \in 0 .. Len(p.confs) /\ (r_.conf # Null \/ f.now = Null)
            /\ N = Len(p.caches) /\ e = Ended(f, r_.conf, key, tested)
        BY <1>3, <1>6, <2>4
      <4> HIDE DEF e, N
      <4> QED BY <1>1, <1>2, <1>6, <2>2, <4>1, EndedMeans
    <3> HIDE DEF e, result
    <3>2. Leaves(own, kind, i, note, key, tested, e, result)
      BY <1>4, <1>6, <3>1 DEF Leaves, own2, kind2, r_, i
    <3>3. Leaves(own, kind, i, note, key, tested, e, Null) BY <3>2 DEF Leaves
    <3>4. CASE ends = "plainly"
      <4>1. Becomes(next, e, result, note) BY <2>1, <2>4, <3>4 DEF WalkOn, e, result
      <4> QED BY <3>2, <4>1 DEF i
    <3>5. CASE ends # "plainly"
      <4>1. Becomes(IF ends = "checksum" THEN "refused" ELSE next, e, Null, note)
        BY <2>1, <2>4, <3>5 DEF WalkOn, e
      <4> QED BY <3>3, <4>1 DEF i
    <3> QED BY <3>4, <3>5
  <2> QED BY <2>3, <2>4
<1> QED BY <1>5, <1>7, <1>8, <1>9 DEF p

\* The request of such a walk is right.
LEMMA BecomesRight ==
  ASSUME NEW own, NEW kind, Right(requests, heap, own, kind),
         NEW i \in DOMAIN requests, NEW note \in Notes, NEW N, N = Len(heap.caches) + 1,
         NEW h, HeapOk(requests, h, With(own, N, i), With(kind, N, note)),
         Longer(heap.confs, h.confs), Len(h.caches) = N,
         NEW stage \in {"located", "filed", "done", "refused"}, NEW given \in 0 .. Len(h.confs),
         NEW n, n = [requests[i] EXCEPT !.conf = given, !.before = requests[i].conf, !.at = stage,
                                        !.notes[note] = N],
         stage \in {"located", "done"} => Walked(requests, h.confs, i, n, "location"),
         stage = "filed" =>
           Walked(requests, h.confs, i, n, "file")
           /\ (given # Null => Without(h.confs, given, "location"))
  PROVE  Right([requests EXCEPT ![i] = n], h, With(own, N, i), With(kind, N, note))
<1> DEFINE own2 == With(own, N, i)
           kind2 == With(kind, N, note)
           r == requests[i]
           notes == [r.notes EXCEPT ![note] = N]
<1>1. /\ HeapOk(requests, heap, own, kind) /\ RequestsOk(requests, heap, own, kind)
      /\ SameLinks(requests, requests) /\ heap \in Heap /\ h \in Heap
  BY LinksStay DEF Right, HeapOk
<1>2. /\ heap.confs \in Seq(Obj) /\ heap.caches \in Seq(Cache) /\ h.confs \in Seq(Obj)
      /\ h.caches \in Seq(Cache)
  BY <1>1 DEF Heap
<1>3. /\ Len(heap.caches) \in Nat /\ N \in Nat /\ N # Null /\ DOMAIN h.caches = 1 .. N
      /\ DOMAIN heap.caches = 1 .. Len(heap.caches)
  BY <1>2 DEF Null
<1>4. own2[N] = i /\ kind2[N] = note
      /\ \A m \in DOMAIN heap.caches : own2[m] = own[m] /\ kind2[m] = kind[m]
  BY <1>3 DEF With
<1>5. r \in Request /\ RequestOk(requests, heap, own, kind, i, r) BY <1>1 DEF RequestsOk
<1>6. r.notes \in [Notes -> Nat] /\ r.conf \in Nat BY <1>5 DEF Request
<1>7. notes \in [Notes -> Nat] /\ notes[note] = N
      /\ \A m \in Notes : m # note => notes[m] = r.notes[m]
  BY <1>3, <1>6
<1>8. n = [r EXCEPT !.conf = given, !.before = r.conf, !.at = stage, !.notes = notes]
  OBVIOUS
<1> HIDE DEF r, notes, own2, kind2
<1>9. given \in Nat
  <2>1. Len(h.confs) \in Nat BY <1>2
  <2> QED BY <2>1
<1>10. /\ n \in Request /\ n.conf = given /\ n.before = r.conf /\ n.at = stage /\ n.notes = notes
       /\ n.file = r.file /\ SameRequest(r, n)
  BY <1>5, <1>6, <1>7, <1>8, <1>9 DEF Request, SameRequest
<1>11. Grown(requests, requests, heap, h, own, kind, own2, kind2)
  <2>1. DOMAIN heap.caches \subseteq DOMAIN h.caches BY <1>3
  <2> QED BY <1>1, <1>4, <2>1 DEF Grown
<1>12. RequestOk(requests, h, own2, kind2, i, n)
  <2>1. n.prev < i /\ n.main < i /\ (n.file # {} => \E file \in Filenames : n.file = {file})
    BY <1>5, <1>10 DEF RequestOk, SameRequest
  <2>2. ASSUME NEW m \in Notes, n.notes[m] # Null
        PROVE  n.notes[m] \in DOMAIN h.caches /\ own2[n.notes[m]] = i /\ kind2[n.notes[m]] = m
    <3>1. CASE m = note
      <4>1. n.notes[m] = N /\ N \in DOMAIN h.caches BY <1>3, <1>7, <1>10, <3>1
      <4> QED BY <1>4, <3>1, <4>1
    <3>2. CASE m # note
      <4>1. n.notes[m] = r.notes[m] BY <1>7, <1>10, <3>2
      <4>2. r.notes[m] \in DOMAIN heap.caches /\ own[r.notes[m]] = i /\ kind[r.notes[m]] = m
        BY <1>5, <2>2, <4>1 DEF RequestOk
      <4>3. r.notes[m] \in DOMAIN h.caches BY <1>3, <4>2
      <4> QED BY <1>4, <4>1, <4>2, <4>3
    <3> QED BY <3>1, <3>2
  <2>3. n.conf \in 0 .. Len(h.confs) /\ n.before \in 0 .. Len(h.confs)
    <3>1. r.conf \in 0 .. Len(heap.confs) BY <1>5 DEF RequestOk
    <3>2. Len(heap.confs) \in Nat /\ Len(h.confs) \in Nat /\ Len(heap.confs) <= Len(h.confs)
      BY <1>2 DEF Longer
    <3> QED BY <1>10, <3>1, <3>2
  <2> QED BY <1>10, <2>1, <2>2, <2>3 DEF RequestOk
<1>13. n \in Request /\ SameRequest(requests[i], n) BY <1>10 DEF r
<1>14. HeapOk(requests, h, own2, kind2) BY DEF own2, kind2
<1>15. Right([requests EXCEPT ![i] = n], h, own2, kind2)
  BY <1>1, <1>11, <1>12, <1>13, <1>14, ChangedIsRight
<1> QED BY <1>15 DEF own2, kind2


\* The request changes, and no cache is added.
LEMMA SetIsRight ==
  ASSUME NEW own, NEW kind, Right(requests, heap, own, kind), NEW i \in DOMAIN requests,
         NEW g, HeapOk(requests, g, own, kind), Longer(heap.confs, g.confs),
         NEW n \in Request, SameRequest(requests[i], n), n.notes = requests[i].notes,
         n.file # {} => \E file \in Filenames : n.file = {file},
         n.conf \in 0 .. Len(g.confs), n.before \in 0 .. Len(g.confs),
         n.at \in {"located", "mapped", "filed", "done"},
         n.at = "mapped" =>
           /\ n.conf # Null /\ Without(g.confs, n.conf, "location")
           /\ Without(g.confs, n.conf, "file"),
         n.at = "filed" =>
           Walked(requests, g.confs, i, n, "file")
           /\ (n.conf # Null => Without(g.confs, n.conf, "location")),
         n.at \in {"located", "done"} => Walked(requests, g.confs, i, n, "location")
  PROVE  Right([requests EXCEPT ![i] = n], g, own, kind)
<1> DEFINE r == requests[i]
<1>1. /\ HeapOk(requests, heap, own, kind) /\ RequestsOk(requests, heap, own, kind)
      /\ SameLinks(requests, requests) /\ heap \in Heap /\ g \in Heap
  BY LinksStay DEF Right, HeapOk
<1>2. DOMAIN heap.caches = DOMAIN g.caches
  <2>1. own \in [DOMAIN heap.caches -> DOMAIN requests] BY <1>1 DEF HeapOk
  <2>2. own \in [DOMAIN g.caches -> DOMAIN requests] BY DEF HeapOk
  <2> QED BY <2>1, <2>2
<1>3. Grown(requests, requests, heap, g, own, kind, own, kind) BY <1>1, <1>2 DEF Grown
<1>4. RequestOk(requests, heap, own, kind, i, r) BY <1>1 DEF RequestsOk
<1>5. RequestOk(requests, g, own, kind, i, n)
  <2>1. n.prev < i /\ n.main < i BY <1>4 DEF RequestOk, SameRequest
  <2>2. \A m \in Notes :
          n.notes[m] # Null =>
            n.notes[m] \in DOMAIN g.caches /\ own[n.notes[m]] = i /\ kind[n.notes[m]] = m
    BY <1>2, <1>4 DEF RequestOk
  <2> QED BY <2>1, <2>2 DEF RequestOk
<1> QED BY <1>1, <1>3, <1>5, ChangedIsRight

LEMMA HeapMerged ==
  ASSUME NEW own, NEW kind, Right(requests, heap, own, kind),
         NEW g, g \in Heap, g.arrays = heap.arrays, g.caches = heap.caches,
         Longer(heap.confs, g.confs), Objects(g.confs)
  PROVE  HeapOk(requests, g, own, kind)
<1>1. /\ HeapOk(requests, heap, own, kind) /\ SameLinks(requests, requests) /\ heap \in Heap
  BY LinksStay DEF Right, HeapOk
<1>2. ASSUME NEW n \in DOMAIN heap.caches PROVE CacheOk(requests, g, own, kind, n)
  <2>1. StaysAt(heap, g, own, kind, own, kind, n) BY <1>1 DEF StaysAt
  <2>2. own[n] \in DOMAIN requests /\ CacheOk(requests, heap, own, kind, n) BY <1>1 DEF HeapOk
  <2> QED BY <1>1, <2>1, <2>2, CacheGrows
<1> QED BY <1>1, <1>2 DEF HeapOk

\* What Ready says of the request that runs.
LEMMA AtRunning ==
  ASSUME NEW own, NEW kind, Right(requests, heap, own, kind),
         stack \in Seq(DOMAIN requests), stack # <<>>
  PROVE  /\ Running \in DOMAIN requests /\ r_ \in Request /\ r_ = requests[Running]
         /\ RequestOk(requests, heap, own, kind, Running, r_)
         /\ heap \in Heap /\ heap.confs \in Seq(Obj) /\ Objects(heap.confs)
         /\ HeapOk(requests, heap, own, kind) /\ requests \in Seq(Request)
<1>1. Len(stack) \in Nat /\ Len(stack) # 0 OBVIOUS
<1>2. Running \in DOMAIN requests BY <1>1 DEF Running, Last
<1>3. heap \in Heap /\ Objects(heap.confs) /\ HeapOk(requests, heap, own, kind)
  BY DEF Right, HeapOk
<1> QED BY <1>2, <1>3 DEF Right, RequestsOk, Heap, r_

\* What follows when the request that runs has changed.
LEMMA StillReady ==
  ASSUME stack \in Seq(DOMAIN requests), stack # <<>>, requests \in Seq(Request), NEW n,
         NEW h, NEW own, NEW kind,
         Right([requests EXCEPT ![Running] = n], h, own, kind)
  PROVE  Ready([requests EXCEPT ![Running] = n], h, stack)
<1>1. DOMAIN [requests EXCEPT ![Running] = n] = DOMAIN requests OBVIOUS
<1> QED BY <1>1 DEF Ready

LEMMA Nothing == ASSUME NEW set PROVE Among(<<>>, set) = <<>>
<1>1. <<>> \in Seq({}) OBVIOUS
<1>2. Among(<<>>, set) \in Seq({} \cap set) BY <1>1, AmongMeans
<1>3. {} \cap set = {} OBVIOUS
<1>4. Among(<<>>, set) \in Seq({}) BY <1>2, <1>3
<1> QED BY <1>4

LEMMA OwnObject ==
  ASSUME Objects(heap.confs)
  PROVE  /\ Defaults \in 0 .. Len(heap.confs) /\ Defaults # Null /\ Defaults \in DOMAIN heap.confs
         /\ heap.confs[Defaults].secs = <<Defaults>>
         /\ Without(heap.confs, Defaults, "location") /\ Without(heap.confs, Defaults, "file")
<1>1. /\ heap.confs \in Seq(Obj) /\ Len(heap.confs) >= Defaults
      /\ \A s \in 1 .. Defaults : heap.confs[s].secs = <<s>>
  BY DEF Objects
<1>2. Len(ServerSections) \in Nat /\ Defaults \in Nat /\ Defaults = Len(ServerSections) + 1
      /\ Numbers = 1 .. Len(ServerSections)
  BY SectionNumbers
<1>3. Len(heap.confs) \in Nat BY <1>1
<1>4. Defaults \in 0 .. Len(heap.confs) /\ Defaults # Null /\ Defaults \in DOMAIN heap.confs
  BY <1>1, <1>2, <1>3 DEF Null
<1>5. heap.confs[Defaults].secs = <<Defaults>> BY <1>1, <1>2
<1>6. Defaults \notin Numbers BY <1>2
<1>7. Defaults \notin KindOf("location") /\ Defaults \notin KindOf("file") BY <1>6, Kinds
<1> QED BY <1>4, <1>5, <1>7 DEF Without


\* A walk that there is nothing for.
LEMMA SkipKeeps ==
  ASSUME NEW own, NEW kind, Right(requests, heap, own, kind),
         stack \in Seq(DOMAIN requests), stack # <<>>,
         NEW next \in {"located", "filed", "done"}, Skip(next),
         next # "filed" => Locations = <<>>,
         next = "filed" =>
           r_.at = "mapped" /\ (r_.file = {} \/ heap.confs[r_.conf].files.elts = <<>>)
  PROVE  Ready(requests', heap', stack')
<1> DEFINE i == Running
           n == [r_ EXCEPT !.at = next, !.before = r_.conf]
<1>1. /\ i \in DOMAIN requests /\ r_ \in Request /\ r_ = requests[i]
      /\ RequestOk(requests, heap, own, kind, i, r_)
      /\ heap \in Heap /\ heap.confs \in Seq(Obj) /\ HeapOk(requests, heap, own, kind)
      /\ requests \in Seq(Request)
  BY AtRunning
<1>2. requests' = [requests EXCEPT ![i] = n] /\ heap' = heap /\ stack' = stack
  BY DEF Skip, Changed
<1>3. r_.conf \in Nat BY <1>1 DEF Request
<1>4. /\ n \in Request /\ SameRequest(r_, n) /\ n.notes = r_.notes /\ n.file = r_.file
      /\ n.conf = r_.conf /\ n.before = r_.conf /\ n.at = next
  BY <1>1, <1>3 DEF Request, SameRequest
<1> HIDE DEF n
<1>5. /\ r_.conf \in 0 .. Len(heap.confs)
      /\ r_.file # {} => \E file \in Filenames : r_.file = {file}
  BY <1>1 DEF RequestOk
<1>6. r_.conf # Null => heap.confs[r_.conf].secs = heap.confs[r_.conf].secs \o <<>>
  <2> SUFFICES ASSUME r_.conf # Null
               PROVE  heap.confs[r_.conf].secs = heap.confs[r_.conf].secs \o <<>>
    OBVIOUS
  <2>1. Len(heap.confs) \in Nat /\ DOMAIN heap.confs = 1 .. Len(heap.confs) BY <1>1
  <2>2. r_.conf \in DOMAIN heap.confs BY <1>5, <2>1 DEF Null
  <2>3. heap.confs[r_.conf] \in Obj BY <1>1, <2>2
  <2>4. heap.confs[r_.conf].secs \in Seq(Nat) BY <2>3 DEF Obj
  <2> QED BY <2>4
<1>7. next # "filed" => Walked(requests, heap.confs, i, n, "location")
  <2> SUFFICES ASSUME next # "filed", n.conf # Null
               PROVE  \E j \in FamilyIn(requests, i) :
                        /\ EntryUri(requests[j].uri) = EntryUri(n.uri)
                        /\ heap.confs[n.conf].secs = heap.confs[n.before].secs \o
                             Applying(requests[j].uri)
    BY <1>4 DEF Walked
  <2>1. i \in FamilyIn(requests, i) BY <1>1, InOwnFamily
  <2>2. Applying(requests[i].uri) = <<>> BY Nothing DEF Applying
  <2>3. n.uri = requests[i].uri BY <1>1, <1>4 DEF SameRequest
  <2> QED BY <1>4, <1>6, <2>1, <2>2, <2>3
<1>8. next = "filed" => Walked(requests, heap.confs, i, n, "file")
  <2> SUFFICES ASSUME next = "filed", n.conf # Null
               PROVE  /\ n.file = {} => heap.confs[n.conf].secs = heap.confs[n.before].secs
                      /\ \A file \in n.file :
                           heap.confs[n.conf].secs = heap.confs[n.before].secs \o
                             Among(heap.confs[n.before].files.elts,
                                   {s \in Numbers : FileApplies(s, file)})
    BY <1>4 DEF Walked
  <2>1. ASSUME NEW file \in n.file
        PROVE  heap.confs[n.conf].secs = heap.confs[n.before].secs \o
                 Among(heap.confs[n.before].files.elts, {s \in Numbers : FileApplies(s, file)})
    <3>1. heap.confs[r_.conf].files.elts = <<>> BY <1>4, <2>1
    <3>2. Among(heap.confs[n.before].files.elts, {s \in Numbers : FileApplies(s, file)}) = <<>>
      BY <1>4, <3>1, Nothing
    <3> QED BY <1>4, <1>6, <3>2
  <2> QED BY <1>4, <2>1
<1>9. next = "filed" => n.conf # Null /\ Without(heap.confs, n.conf, "location")
  BY <1>1, <1>4 DEF RequestOk
<1>10. Longer(heap.confs, heap.confs) BY <1>1 DEF Longer
<1>11. Right([requests EXCEPT ![i] = n], heap, own, kind)
  BY <1>1, <1>4, <1>5, <1>7, <1>8, <1>9, <1>10, SetIsRight
<1>12. Ready([requests EXCEPT ![i] = n], heap, stack) BY <1>1, <1>11, StillReady DEF i
<1> QED BY <1>2, <1>12

\* What a walk leaves is kept.
LEMMA BecomesKeeps ==
  ASSUME NEW own, NEW kind, Right(requests, heap, own, kind),
         stack \in Seq(DOMAIN requests), stack # <<>>,
         NEW note \in Notes, NEW h,
         HeapOk(requests, h, With(own, Len(heap.caches) + 1, Running),
                With(kind, Len(heap.caches) + 1, note)),
         Longer(heap.confs, h.confs), Len(h.caches) = Len(heap.caches) + 1,
         NEW stage \in {"located", "filed", "done", "refused"}, NEW given \in 0 .. Len(h.confs),
         NEW n, n = [r_ EXCEPT !.conf = given, !.before = r_.conf, !.at = stage,
                               !.notes[note] = Len(heap.caches) + 1],
         stage \in {"located", "done"} => Walked(requests, h.confs, Running, n, "location"),
         stage = "filed" =>
           Walked(requests, h.confs, Running, n, "file")
           /\ (given # Null => Without(h.confs, given, "location")),
         Becomes(stage, h, given, note)
  PROVE  Ready(requests', heap', stack')
<1> DEFINE i == Running
           N == Len(heap.caches) + 1
<1>1. /\ i \in DOMAIN requests /\ r_ = requests[i] /\ heap \in Heap /\ requests \in Seq(Request)
  BY AtRunning
<1>2. heap.caches \in Seq(Cache) BY <1>1 DEF Heap
<1>3. Len(h.caches) > Len(heap.caches) BY <1>2
<1>4. requests' = [requests EXCEPT ![i] = n] /\ heap' = h /\ stack' = stack
  BY <1>3 DEF Becomes, Changed
<1>5. Right([requests EXCEPT ![i] = n], h, With(own, N, i), With(kind, N, note))
  <2>1. /\ N = Len(heap.caches) + 1
        /\ n = [requests[i] EXCEPT !.conf = given, !.before = requests[i].conf, !.at = stage,
                                   !.notes[note] = N]
    BY <1>1
  <2> HIDE DEF N
  <2> QED BY <1>1, <2>1, BecomesRight, ZenonT(60) DEF N
<1>6. Ready([requests EXCEPT ![i] = n], h, stack) BY <1>1, <1>5, StillReady
<1> QED BY <1>4, <1>6


\* What the request is then.
Became(note, h, given, stage) ==
  [r_ EXCEPT !.conf = given, !.before = r_.conf, !.at = stage, !.notes[note] = Len(heap.caches) + 1]
Suits(note, key, tested, stage) ==
  \/ stage \in {"located", "done"} /\ note = "location" /\ key = EntryUri(r_.uri)
  \/ /\ stage = "filed" /\ note = "file" /\ r_.conf # Null
     /\ Without(heap.confs, r_.conf, "location")
     /\ \E file \in Filenames : r_.file = {file} /\ key = TestFile(file)
     /\ tested = heap.confs[r_.conf].files.array

LEMMA LeavesKeep ==
  ASSUME NEW own, NEW kind, Right(requests, heap, own, kind),
         stack \in Seq(DOMAIN requests), stack # <<>>,
         NEW note \in Notes, NEW key, NEW tested, NEW h, NEW given, NEW stage,
         Leaves(own, kind, Running, note, key, tested, h, given), Becomes(stage, h, given, note),
         Suits(note, key, tested, stage) \/ (stage = "refused" /\ given = Null)
  PROVE  Ready(requests', heap', stack')
<1> DEFINE i == Running
           N == Len(heap.caches) + 1
           n == Became(note, h, given, stage)
<1>1. /\ i \in DOMAIN requests /\ r_ = requests[i] /\ r_ \in Request
      /\ RequestOk(requests, heap, own, kind, i, r_)
      /\ heap \in Heap /\ heap.confs \in Seq(Obj) /\ requests \in Seq(Request)
  BY AtRunning
<1>2. /\ HeapOk(requests, h, With(own, N, i), With(kind, N, note))
      /\ Longer(heap.confs, h.confs) /\ Len(h.caches) = N
      /\ given # Null => Brings(requests, h.confs, r_.conf, given, key, tested, i, note)
  BY <1>1 DEF Leaves
<1>3. h \in Heap /\ Objects(h.confs) BY <1>2 DEF HeapOk
<1>4. h.confs \in Seq(Obj) BY <1>3 DEF Heap
<1>5. given \in 0 .. Len(h.confs)
  <2>1. Len(h.confs) \in Nat BY <1>4
  <2>2. 0 \in 0 .. Len(h.confs) BY <2>1
  <2> QED BY <1>2, <2>2 DEF Brings, Null
<1>6. stage \in {"located", "filed", "done", "refused"} BY DEF Suits
<1>7. n.conf = given /\ n.before = r_.conf /\ n.uri = r_.uri /\ n.file = r_.file
  BY <1>1 DEF Became, Request
<1>8. n = [r_ EXCEPT !.conf = given, !.before = r_.conf, !.at = stage,
                     !.notes[note] = Len(heap.caches) + 1]
  BY DEF Became
<1> HIDE DEF n
<1>9. stage \in {"located", "done"} => Walked(requests, h.confs, i, n, "location")
  <2>1. CASE given = Null BY <1>7, <2>1 DEF Walked
  <2>2. CASE given # Null /\ stage \in {"located", "done"}
    <3>1. note = "location" /\ key = EntryUri(n.uri) BY <1>7, <2>2 DEF Suits
    <3>2. Brings(requests, h.confs, n.before, n.conf, EntryUri(n.uri), tested, i, "location")
      BY <1>2, <1>7, <2>2, <3>1
    <3> QED BY <3>2, WalkedLocation
  <2> QED BY <2>1, <2>2
<1>10. stage = "filed" => Walked(requests, h.confs, i, n, "file")
                       /\ (given # Null => Without(h.confs, given, "location"))
  <2>1. CASE given = Null BY <1>7, <2>1 DEF Walked
  <2>2. CASE given # Null /\ stage = "filed"
    <3>1. /\ note = "file" /\ r_.conf # Null /\ Without(heap.confs, r_.conf, "location")
          /\ tested = heap.confs[r_.conf].files.array
      BY <2>2 DEF Suits
    <3>2. PICK file \in Filenames : r_.file = {file} /\ key = TestFile(file) BY <2>2 DEF Suits
    <3>3. r_.conf \in DOMAIN heap.confs
      <4>1. r_.conf \in 0 .. Len(heap.confs) BY <1>1 DEF RequestOk
      <4>2. Len(heap.confs) \in Nat /\ DOMAIN heap.confs = 1 .. Len(heap.confs) BY <1>1
      <4> QED BY <3>1, <4>1, <4>2 DEF Null
    <3>4. h.confs[r_.conf] = heap.confs[r_.conf] /\ r_.conf \in 0 .. Len(h.confs)
      <4>1. /\ Len(heap.confs) <= Len(h.confs) /\ Len(heap.confs) \in Nat /\ Len(h.confs) \in Nat
            /\ DOMAIN heap.confs = 1 .. Len(heap.confs)
        BY <1>1, <1>2, <1>4 DEF Longer
      <4> QED BY <1>2, <3>3, <4>1 DEF Longer
    <3>5. Brings(requests, h.confs, r_.conf, given, key, tested, i, "file") BY <1>2, <2>2, <3>1
    <3>6. Walked(requests, h.confs, i, n, "file")
      <4>1. Brings(requests, h.confs, n.before, n.conf, TestFile(file),
                   h.confs[n.before].files.array, i, "file")
        BY <1>7, <3>1, <3>2, <3>4, <3>5
      <4> QED BY <1>3, <1>7, <3>2, <3>4, <4>1, WalkedFile
    <3>7. Without(h.confs, r_.conf, "location") BY <3>1, <3>4 DEF Without
    <3>8. Without(h.confs, given, "location") BY <1>4, <2>2, <3>4, <3>5, <3>7, StaysWithout
    <3> QED BY <3>6, <3>8
  <2> QED BY <2>1, <2>2
<1> QED BY <1>2, <1>5, <1>6, <1>8, <1>9, <1>10, BecomesKeeps

\* The walk over the <Location> sections, for the URI of the request itself.
LEMMA LocationWalkKeeps ==
  ASSUME ~w_ver.prep.shares, NEW own, NEW kind, Right(requests, heap, own, kind),
         stack \in Seq(DOMAIN requests), stack # <<>>,
         NEW stage, NEW next, <<stage, next>> \in {<<"read", "located">>, <<"filed", "done">>},
         LocationWalk(stage, next)
  PROVE  Ready(requests', heap', stack')
<1> DEFINE applying == Applying(r_.uri)
           key == EntryUri(r_.uri)
<1>0. (stage = "read" /\ next = "located") \/ (stage = "filed" /\ next = "done") OBVIOUS
<1>1. /\ Running \in DOMAIN requests /\ r_ = requests[Running] /\ r_ \in Request
      /\ RequestOk(requests, heap, own, kind, Running, r_) /\ Objects(heap.confs)
  BY AtRunning
<1>2. r_.at = stage BY DEF LocationWalk
<1>3. CASE Locations = <<>>
  <2>1. Skip(next) BY <1>3 DEF LocationWalk
  <2>2. next \in {"located", "filed", "done"} /\ next # "filed" BY <1>0
  <2> QED BY <1>3, <2>1, <2>2, SkipKeeps
<1>4. CASE Locations # <<>>
  <2>1. PICK ends : Walk("location", next, key, Null, applying, w_ver.location.merges = "uri", ends)
    BY <1>4 DEF LocationWalk
  <2>2. key \in Keys BY <1>1 DEF Keys, Request
  <2>3. applying \in Seq(Numbers) BY Kinds, SeqMonotone
  <2>4. Origin(requests, heap.confs, applying, {key}, Null, Running, "location")
    <3>1. Running \in FamilyIn(requests, Running) BY <1>1, InOwnFamily
    <3>2. OfLocation(requests, applying, {key}, Running) BY <1>1, <3>1 DEF OfLocation
    <3> QED BY <3>2 DEF Origin
  <2>5. r_.conf # Null => Without(heap.confs, r_.conf, "location")
    <3>1. CASE stage = "read"
      <4>1. r_.conf = Defaults BY <1>1, <1>2, <3>1 DEF RequestOk
      <4> QED BY <1>1, <4>1, OwnObject
    <3>2. CASE stage = "filed" BY <1>1, <1>2, <3>2 DEF RequestOk
    <3> QED BY <1>0, <3>1, <3>2
  <2>6. "location" \in Notes /\ Null \in Nat BY DEF Notes, Null
  <2> HIDE DEF applying, key
  <2>7. \/ UNCHANGED <<w_ver, heap, requests, stack>>
        \/ \E h, given, to : /\ Leaves(own, kind, Running, "location", key, Null, h, given)
                            /\ Becomes(to, h, given, "location")
                            /\ (to = next \/ (to = "refused" /\ given = Null))
    BY <1>1, <2>1, <2>2, <2>3, <2>4, <2>5, <2>6, WalkLeaves
  <2>8. CASE UNCHANGED <<w_ver, heap, requests, stack>>
    <3>1. requests' = requests /\ heap' = heap /\ stack' = stack BY <2>8
    <3>2. Ready(requests, heap, stack) BY DEF Ready
    <3> QED BY <3>1, <3>2
  <2>9. ASSUME NEW h, NEW given, NEW to,
               Leaves(own, kind, Running, "location", key, Null, h, given),
               Becomes(to, h, given, "location"), to = next \/ (to = "refused" /\ given = Null)
        PROVE  Ready(requests', heap', stack')
    <3>1. Suits("location", key, Null, to) \/ (to = "refused" /\ given = Null)
      BY <1>0, <2>9 DEF Suits, key
    <3> QED BY <2>6, <2>9, <3>1, LeavesKeep
  <2> QED BY <2>7, <2>8, <2>9
<1> QED BY <1>3, <1>4


LEMMA PrepareOnlyKeeps ==
  ASSUME ~w_ver.prep.shares, NEW own, NEW kind, Right(requests, heap, own, kind),
         stack \in Seq(DOMAIN requests), stack # <<>>,
         r_.at = "mapped", heap.confs[r_.conf].files.elts = <<>>, PrepareOnly("filed")
  PROVE  Ready(requests', heap', stack')
<1> DEFINE N == Len(heap.caches) + 1
           i == Running
<1>1. /\ i \in DOMAIN requests /\ r_ = requests[i] /\ r_ \in Request
      /\ RequestOk(requests, heap, own, kind, i, r_) /\ heap \in Heap /\ heap.confs \in Seq(Obj)
      /\ HeapOk(requests, heap, own, kind)
  BY AtRunning
<1>2. RequestsOk(requests, heap, own, kind) /\ SameLinks(requests, requests)
  BY LinksStay DEF Right
<1>3. PICK inherited \in BOOLEAN :
        \/ Skip("filed")
        \/ Becomes("filed", Prepared(heap, r_, "file", inherited), r_.conf, "file")
  BY DEF PrepareOnly
<1>4. CASE Skip("filed")
  <2>1. "filed" \in {"located", "filed", "done"} OBVIOUS
  <2> QED BY <1>4, <2>1, SkipKeeps
<1>5. CASE Becomes("filed", Prepared(heap, r_, "file", inherited), r_.conf, "file")
  <2> DEFINE p == Prepared(heap, r_, "file", inherited)
             n == Became("file", p, r_.conf, "filed")
             applies(file) == {s \in Numbers : FileApplies(s, file)}
  <2>1. /\ HeapOk(requests, p, With(own, N, i), With(kind, N, "file"))
        /\ p.confs = heap.confs /\ Len(p.caches) = N
    <3>1. N = Len(heap.caches) + 1 /\ p = Prepared(heap, requests[i], "file", inherited)
          /\ "file" \in Notes
      BY <1>1 DEF Notes
    <3> HIDE DEF N, i, p
    <3> QED BY <1>1, <1>2, <3>1, PreparedOk
  <2> HIDE DEF p
  <2>2. Longer(heap.confs, p.confs) BY <1>1, <2>1 DEF Longer
  <2>3. r_.conf \in 0 .. Len(p.confs) /\ r_.conf # Null /\ Without(p.confs, r_.conf, "location")
    BY <1>1, <2>1 DEF RequestOk
  <2>4. n.conf = r_.conf /\ n.before = r_.conf /\ n.file = r_.file
    BY <1>1 DEF Became, Request
  <2>5. n = [r_ EXCEPT !.conf = r_.conf, !.before = r_.conf, !.at = "filed",
                       !.notes["file"] = Len(heap.caches) + 1]
    BY DEF Became
  <2> HIDE DEF n
  <2>6. p.confs[r_.conf].secs = p.confs[r_.conf].secs \o <<>>
    <3>1. Len(p.confs) \in Nat /\ DOMAIN p.confs = 1 .. Len(p.confs) BY <1>1, <2>1
    <3>2. r_.conf \in DOMAIN p.confs BY <2>3, <3>1 DEF Null
    <3>3. p.confs[r_.conf] \in Obj BY <1>1, <2>1, <3>2
    <3>4. p.confs[r_.conf].secs \in Seq(Nat) BY <3>3 DEF Obj
    <3> QED BY <3>4
  <2>7. Walked(requests, p.confs, i, n, "file")
    <3>1. ASSUME NEW file \in n.file
          PROVE  p.confs[n.conf].secs =
                   p.confs[n.before].secs \o Among(p.confs[n.before].files.elts, applies(file))
      <4>1. Among(p.confs[n.before].files.elts, applies(file)) = <<>>
        BY <2>1, <2>4, Nothing
      <4> QED BY <2>4, <2>6, <4>1
    <3>2. n.file = {} => p.confs[n.conf].secs = p.confs[n.before].secs BY <2>4
    <3> QED BY <2>3, <2>4, <3>1, <3>2 DEF Walked
  <2>8. "filed" \in {"located", "filed", "done", "refused"} /\ "file" \in Notes
        /\ "filed" \notin {"located", "done"}
    BY DEF Notes
  <2>9. Becomes("filed", p, r_.conf, "file") BY <1>5 DEF p
  <2> QED BY <2>1, <2>2, <2>3, <2>5, <2>7, <2>8, <2>9, BecomesKeeps
<1> QED BY <1>3, <1>4, <1>5

LEMMA FileWalkKeeps ==
  ASSUME ~w_ver.prep.shares, NEW own, NEW kind, Right(requests, heap, own, kind),
         stack \in Seq(DOMAIN requests), stack # <<>>, FileWalk
  PROVE  Ready(requests', heap', stack')
<1>1. /\ Running \in DOMAIN requests /\ r_ = requests[Running] /\ r_ \in Request
      /\ RequestOk(requests, heap, own, kind, Running, r_) /\ heap.confs \in Seq(Obj)
  BY AtRunning
<1>2. r_.at = "mapped" BY DEF FileWalk
<1>3. CASE r_.file = {}
  <2>1. Skip("filed") /\ "filed" \in {"located", "filed", "done"} BY <1>3 DEF FileWalk
  <2> QED BY <1>2, <1>3, <2>1, SkipKeeps
<1>4. CASE r_.file # {} /\ heap.confs[r_.conf].files.elts = <<>>
  <2>1. PrepareOnly("filed") BY <1>4 DEF FileWalk
  <2> QED BY <1>2, <1>4, <2>1, PrepareOnlyKeeps
<1>5. CASE r_.file # {} /\ heap.confs[r_.conf].files.elts # <<>>
  <2>1. PICK file \in r_.file :
          Walk("file", "filed", TestFile(file), heap.confs[r_.conf].files.array,
               ApplyingFiles(file, r_.conf), ~w_ver.file.first \/ ~w_ver.file.pool,
               IF w_ver.file.drops /\ file.dots THEN "dropped" ELSE "plainly")
    BY <1>5 DEF FileWalk
  <2> DEFINE applying == ApplyingFiles(file, r_.conf)
             key == TestFile(file)
             tested == heap.confs[r_.conf].files.array
             frail == ~w_ver.file.first \/ ~w_ver.file.pool
             ends == IF w_ver.file.drops /\ file.dots THEN "dropped" ELSE "plainly"
  <2>2. file \in Filenames /\ r_.file = {file} BY <1>1, <2>1 DEF RequestOk
  <2>3. /\ r_.conf # Null /\ Without(heap.confs, r_.conf, "location")
        /\ Without(heap.confs, r_.conf, "file") /\ r_.conf \in 0 .. Len(heap.confs)
    BY <1>1, <1>2 DEF RequestOk
  <2>4. r_.conf \in DOMAIN heap.confs
    <3>1. Len(heap.confs) \in Nat /\ DOMAIN heap.confs = 1 .. Len(heap.confs) BY <1>1
    <3> QED BY <2>3, <3>1 DEF Null
  <2>5. heap.confs[r_.conf].files.elts \in Seq(OfKind("files")) /\ tested \in Nat
    <3>1. heap.confs[r_.conf] \in Obj BY <1>1, <2>4
    <3> QED BY <3>1 DEF Obj
  <2>6. applying \in Seq(Numbers)
    <3>1. applying \in Seq(KindOf("file")) BY <2>5, Kinds DEF ApplyingFiles
    <3> QED BY <3>1, Kinds, SeqMonotone
  <2>7. key \in Keys BY <2>2 DEF Keys
  <2>8. Origin(requests, heap.confs, applying, {key}, tested, Running, "file")
    <3>1. applying = Among(heap.confs[r_.conf].files.elts, {s \in Numbers : FileApplies(s, file)})
      BY DEF ApplyingFiles
    <3>2. OfFile(heap.confs, applying, {key}, tested) BY <2>2, <2>4, <3>1 DEF OfFile
    <3> QED BY <3>2 DEF Origin
  <2>9. Walk("file", "filed", key, tested, applying, frail, ends) BY <2>1
  <2>10. "file" \in Notes BY DEF Notes
  <2>11. Suits("file", key, tested, "filed") BY <2>2, <2>3 DEF Suits
  <2> HIDE DEF applying, key, tested, frail, ends
  <2>12. \/ UNCHANGED <<w_ver, heap, requests, stack>>
         \/ \E h, given, to : /\ Leaves(own, kind, Running, "file", key, tested, h, given)
                             /\ Becomes(to, h, given, "file")
                             /\ (to = "filed" \/ (to = "refused" /\ given = Null))
    BY <1>1, <2>3, <2>5, <2>6, <2>7, <2>8, <2>9, <2>10, WalkLeaves DEF tested
  <2>13. CASE UNCHANGED <<w_ver, heap, requests, stack>>
    <3>1. requests' = requests /\ heap' = heap /\ stack' = stack BY <2>13
    <3>2. Ready(requests, heap, stack) BY DEF Ready
    <3> QED BY <3>1, <3>2
  <2>14. ASSUME NEW h, NEW given, NEW to, Leaves(own, kind, Running, "file", key, tested, h, given),
                Becomes(to, h, given, "file"), to = "filed" \/ (to = "refused" /\ given = Null)
         PROVE  Ready(requests', heap', stack')
    <3>1. Suits("file", key, tested, to) \/ (to = "refused" /\ given = Null) BY <2>11, <2>14
    <3> QED BY <2>10, <2>14, <3>1, LeavesKeep
  <2> QED BY <2>12, <2>13, <2>14
<1> QED BY <1>3, <1>4, <1>5


\* A directory's own section, and that of the server, are neither <Location> nor <Files>.
LEMMA Outside ==
  ASSUME NEW confs, NEW c, NEW file \in Filenames,
         confs[c].secs = <<Defaults>> \/ confs[c].secs = <<Defaults, file.dir>>
  PROVE  Without(confs, c, "location") /\ Without(confs, c, "file")
<1>1. file.dir \in Numbers /\ ServerSections[file.dir].kind = "directory"
  BY WalkAssumption DEF Numbers
<1>2. file.dir \notin KindOf("location") /\ file.dir \notin KindOf("file")
  BY <1>1 DEF KindOf, OfKind
<1>3. Defaults \notin KindOf("location") /\ Defaults \notin KindOf("file")
  <2>1. Numbers = 1 .. Len(ServerSections) /\ Defaults = Len(ServerSections) + 1
        /\ Len(ServerSections) \in Nat
    BY SectionNumbers
  <2>2. Defaults \notin Numbers BY <2>1
  <2> QED BY <2>2, Kinds
<1>4. CASE confs[c].secs = <<Defaults>> BY <1>3, <1>4 DEF Without
<1>5. CASE confs[c].secs = <<Defaults, file.dir>> BY <1>2, <1>3, <1>5 DEF Without
<1> QED BY <1>4, <1>5

\* The request has a configuration without such sections.
Mapped(g, c, f) ==
  /\ c \in 0 .. Len(g.confs) /\ c # Null
  /\ Without(g.confs, c, "location") /\ Without(g.confs, c, "file")
  /\ f = r_.file \/ \E file \in Filenames : f = {file}
LEMMA MappedIsReady ==
  ASSUME NEW own, NEW kind, Right(requests, heap, own, kind),
         stack \in Seq(DOMAIN requests), stack # <<>>,
         NEW g, HeapOk(requests, g, own, kind), Longer(heap.confs, g.confs),
         NEW c, NEW f, Mapped(g, c, f),
         NEW n, n = [r_ EXCEPT !.at = "mapped", !.file = f, !.conf = c]
  PROVE  Ready([requests EXCEPT ![Running] = n], g, stack)
<1> DEFINE i == Running
<1>1. /\ i \in DOMAIN requests /\ r_ = requests[i] /\ r_ \in Request
      /\ RequestOk(requests, heap, own, kind, i, r_) /\ requests \in Seq(Request)
      /\ heap.confs \in Seq(Obj)
  BY AtRunning
<1>2. g.confs \in Seq(Obj)
  <2>1. g \in Heap BY DEF HeapOk
  <2> QED BY <2>1 DEF Heap
<1>3. f \in SUBSET Filenames /\ (f # {} => \E file \in Filenames : f = {file})
  <2>1. r_.file \in SUBSET Filenames BY <1>1 DEF Request
  <2>2. r_.file # {} => \E file \in Filenames : r_.file = {file} BY <1>1 DEF RequestOk
  <2> QED BY <2>1, <2>2 DEF Mapped
<1>4. c \in Nat /\ c \in 0 .. Len(g.confs)
  <2>1. Len(g.confs) \in Nat BY <1>2
  <2> QED BY <2>1 DEF Mapped
<1>5. /\ n \in Request /\ SameRequest(r_, n) /\ n.notes = r_.notes /\ n.file = f /\ n.conf = c
      /\ n.before = r_.before /\ n.at = "mapped"
  BY <1>1, <1>3, <1>4 DEF Request, SameRequest
<1>6. n.before \in 0 .. Len(g.confs)
  <2>1. r_.before \in 0 .. Len(heap.confs) BY <1>1 DEF RequestOk
  <2>2. Len(heap.confs) \in Nat /\ Len(g.confs) \in Nat /\ Len(heap.confs) <= Len(g.confs)
    BY <1>1, <1>2 DEF Longer
  <2> QED BY <1>5, <2>1, <2>2
<1>7. c # Null /\ Without(g.confs, c, "location") /\ Without(g.confs, c, "file") BY DEF Mapped
<1>8. Right([requests EXCEPT ![i] = n], g, own, kind)
  BY <1>1, <1>3, <1>4, <1>5, <1>6, <1>7, SetIsRight
<1> QED BY <1>1, <1>8, StillReady

LEMMA PairOf == ASSUME NEW x \in Nat, NEW y \in Nat PROVE <<x>> \o <<y>> = <<x, y>>
<1> DEFINE s == <<x>> \o <<y>>
<1>1. <<x>> \in Seq(Nat) /\ <<y>> \in Seq(Nat) /\ Len(<<x>>) = 1 /\ Len(<<y>>) = 1 OBVIOUS
<1>2. s \in Seq(Nat) /\ Len(s) = 2 /\ s[1] = x /\ s[2] = y BY <1>1
<1> HIDE DEF s
<1>3. <<x, y>> \in Seq(Nat) /\ Len(<<x, y>>) = 2 /\ <<x, y>>[1] = x /\ <<x, y>>[2] = y OBVIOUS
<1>4. \A i \in 1 .. 2 : s[i] = <<x, y>>[i] BY <1>2, <1>3
<1>5. s = <<x, y>> BY <1>2, <1>3, <1>4
<1> QED BY <1>5 DEF s

LEMMA MapKeeps ==
  ASSUME NEW own, NEW kind, Right(requests, heap, own, kind),
         stack \in Seq(DOMAIN requests), stack # <<>>, Map
  PROVE  Ready(requests', heap', stack')
<1>1. /\ Running \in DOMAIN requests /\ r_ = requests[Running] /\ r_ \in Request
      /\ heap \in Heap /\ Objects(heap.confs) /\ HeapOk(requests, heap, own, kind)
      /\ heap.confs \in Seq(Obj)
  BY AtRunning
<1>2. stack' = stack BY DEF Map
<1>3. Longer(heap.confs, heap.confs) BY <1>1 DEF Longer
<1>4. CASE Changed([r_ EXCEPT !.at = "mapped", !.conf = Defaults]) /\ UNCHANGED heap
  <2> DEFINE n == [r_ EXCEPT !.at = "mapped", !.conf = Defaults]
  <2>1. n = [r_ EXCEPT !.at = "mapped", !.file = r_.file, !.conf = Defaults] BY <1>1 DEF Request
  <2>2. Mapped(heap, Defaults, r_.file) BY <1>1, OwnObject DEF Mapped
  <2>3. requests' = [requests EXCEPT ![Running] = n] /\ heap' = heap BY <1>4 DEF Changed
  <2> HIDE DEF n
  <2>4. Ready([requests EXCEPT ![Running] = n], heap, stack)
    BY <1>1, <1>3, <2>1, <2>2, MappedIsReady
  <2> QED BY <1>2, <2>3, <2>4
<1>5. ASSUME NEW file \in Filenames, NEW c, NEW g,
             heap' = g, HeapOk(requests, g, own, kind), Longer(heap.confs, g.confs),
             c \in DOMAIN g.confs, g.confs[c].secs = <<Defaults, file.dir>>,
             Changed([r_ EXCEPT !.at = "mapped", !.file = {file}, !.conf = c])
      PROVE  Ready(requests', heap', stack')
  <2> DEFINE n == [r_ EXCEPT !.at = "mapped", !.file = {file}, !.conf = c]
  <2>1. c \in 0 .. Len(g.confs) /\ c # Null
    <3>1. g.confs \in Seq(Obj)
      <4>1. g \in Heap BY <1>5 DEF HeapOk
      <4> QED BY <4>1 DEF Heap
    <3> QED BY <1>5, <3>1 DEF Null
  <2>2. Without(g.confs, c, "location") /\ Without(g.confs, c, "file") BY <1>5, Outside
  <2>3. Mapped(g, c, {file}) BY <2>1, <2>2 DEF Mapped
  <2>4. requests' = [requests EXCEPT ![Running] = n] /\ heap' = g BY <1>5 DEF Changed
  <2> DEFINE f == {file}
  <2>5. n = [r_ EXCEPT !.at = "mapped", !.file = f, !.conf = c] /\ Mapped(g, c, f) BY <2>3
  <2> HIDE DEF n, f
  <2>6. Ready([requests EXCEPT ![Running] = n], g, stack) BY <1>5, <2>5, MappedIsReady
  <2> QED BY <1>2, <2>4, <2>6
<1>6. ASSUME NEW file \in Filenames, heap' = Merge(heap, Defaults, file.dir),
             Changed([r_ EXCEPT !.at = "mapped", !.file = {file},
                                !.conf = Len(Merge(heap, Defaults, file.dir).confs)])
      PROVE  Ready(requests', heap', stack')
  <2> DEFINE g == Merge(heap, Defaults, file.dir)
             c == Len(g.confs)
  <2>1. file.dir \in DOMAIN heap.confs /\ file.dir \in 1 .. Defaults
    <3>1. file.dir \in Numbers BY WalkAssumption DEF Numbers
    <3>2. Numbers = 1 .. Len(ServerSections) /\ Len(ServerSections) \in Nat
          /\ Defaults = Len(ServerSections) + 1
      BY SectionNumbers
    <3>3. Len(heap.confs) \in Nat /\ Len(heap.confs) >= Defaults
          /\ DOMAIN heap.confs = 1 .. Len(heap.confs)
      BY <1>1 DEF Objects
    <3> QED BY <3>1, <3>2, <3>3
  <2>2. Defaults \in DOMAIN heap.confs /\ heap.confs[Defaults].secs = <<Defaults>>
    BY <1>1, OwnObject
  <2>3. Merges(heap, Defaults, file.dir, g)
    <3> HIDE DEF g
    <3>1. Merges(heap, Defaults, file.dir, Merge(heap, Defaults, file.dir))
      BY <1>1, <2>1, <2>2, MergeAdds
    <3> QED BY <3>1 DEF g
  <2> HIDE DEF g
  <2>4. heap.confs[file.dir].secs = <<file.dir>> BY <1>1, <2>1 DEF Objects
  <2>5. /\ g \in Heap /\ g.arrays = heap.arrays /\ g.caches = heap.caches
        /\ c = Len(heap.confs) + 1 /\ Longer(heap.confs, g.confs) /\ Objects(g.confs)
        /\ g.confs[c].secs = <<Defaults>> \o <<file.dir>>
    BY <2>2, <2>3, <2>4 DEF Merges
  <2>6. g.confs[c].secs = <<Defaults, file.dir>>
    <3>1. Defaults \in Nat /\ file.dir \in Nat BY <2>1, SectionNumbers
    <3> QED BY <2>5, <3>1, PairOf
  <2>7. c \in DOMAIN g.confs
    <3>1. g.confs \in Seq(Obj) BY <2>5 DEF Heap
    <3>2. Len(heap.confs) \in Nat BY <1>1
    <3> QED BY <2>5, <3>1, <3>2
  <2>8. HeapOk(requests, g, own, kind) BY <2>5, HeapMerged
  <2>9. heap' = g /\ Changed([r_ EXCEPT !.at = "mapped", !.file = {file}, !.conf = c])
    BY <1>6 DEF g
  <2> HIDE DEF c
  <2> QED BY <1>5, <2>5, <2>6, <2>7, <2>8, <2>9
<1>7. ASSUME NEW file \in Filenames, NEW c \in Made(file.dir), UNCHANGED heap,
             Changed([r_ EXCEPT !.at = "mapped", !.file = {file}, !.conf = c])
      PROVE  Ready(requests', heap', stack')
  <2>1. c \in DOMAIN heap.confs /\ heap.confs[c].secs = <<Defaults, file.dir>>
    BY <1>1 DEF Made
  <2> QED BY <1>1, <1>3, <1>5, <1>7, <2>1
<1> QED BY <1>4, <1>6, <1>7 DEF Map


\* Those under way stay requests as more are made, and as one ends.
LEMMA StacksGrow ==
  ASSUME NEW m \in Nat, NEW n \in Nat, m <= n, NEW waiting \in Seq(1 .. m), NEW x \in 1 .. n
  PROVE  Append(waiting, x) \in Seq(1 .. n) /\ Append(waiting, x) # <<>>
<1> DEFINE S == 1 .. m
           T == 1 .. n
<1>1. S \subseteq T /\ waiting \in Seq(S) /\ x \in T OBVIOUS
<1> HIDE DEF S, T
<1>2. waiting \in Seq(T) BY <1>1, SeqMonotone
<1>3. Append(waiting, x) \in Seq(T) /\ Append(waiting, x) # <<>> BY <1>1, <1>2
<1> QED BY <1>3 DEF T

LEMMA FrontIs ==
  ASSUME NEW T, NEW s \in Seq(T), s # <<>>
  PROVE  Front(s) \in Seq(T) /\ (Len(s) > 1 => Front(s) # <<>>)
<1> DEFINE n == Len(s) - 1
<1>1. Len(s) \in Nat /\ Len(s) # 0 /\ n \in Nat /\ Len(s) = n + 1 /\ n <= Len(s) OBVIOUS
<1>2. Front(s) = SubSeq(s, 1, n) BY DEF Front
<1> HIDE DEF n
<1>3. SubSeq(s, 1, n) \in Seq(T) /\ Len(SubSeq(s, 1, n)) = n BY <1>1
<1>4. Len(s) > 1 => n # 0 BY <1>1
<1> QED BY <1>2, <1>3, <1>4

LEMMA MakeKeeps ==
  ASSUME NEW own, NEW kind, Right(requests, heap, own, kind),
         NEW m, m = Len(requests), NEW waiting \in Seq(1 .. m),
         NEW uri \in Uris, NEW prev \in 0 .. m, NEW main \in 0 .. m, Make(uri, prev, main)
  PROVE  Ready(requests', heap, Append(waiting, m + 1))
<1> DEFINE later == Append(requests, NewRequest(uri, prev, main))
<1>1. Right(later, heap, own, kind) BY MadeIsRight
<1>2. later \in Seq(Request) /\ requests \in Seq(Request) BY <1>1 DEF Right, RequestsOk
<1>3. Len(later) = m + 1 /\ m \in Nat BY <1>2
<1>4. DOMAIN later = 1 .. m + 1 BY <1>2, <1>3
<1>5. requests' = later BY DEF Make
<1> HIDE DEF later
<1>6. Append(waiting, m + 1) \in Seq(1 .. m + 1) /\ Append(waiting, m + 1) # <<>>
  <2> DEFINE n == m + 1
  <2>1. n \in Nat /\ m <= n /\ n \in 1 .. n /\ m \in Nat BY <1>3
  <2> HIDE DEF n
  <2>2. Append(waiting, n) \in Seq(1 .. n) /\ Append(waiting, n) # <<>> BY <2>1, StacksGrow
  <2> QED BY <2>2 DEF n
<1> QED BY <1>1, <1>4, <1>5, <1>6 DEF Ready

LEMMA MoreKeep ==
  ASSUME NEW own, NEW kind, Right(requests, heap, own, kind),
         stack \in Seq(DOMAIN requests), stack # <<>>, Subrequest \/ Redirect
  PROVE  Ready(requests', heap', stack')
<1> DEFINE m == Len(requests)
<1>1. /\ Running \in DOMAIN requests /\ r_ \in Request /\ requests \in Seq(Request)
      /\ RequestOk(requests, heap, own, kind, Running, r_)
  BY AtRunning
<1>2. m \in Nat /\ DOMAIN requests = 1 .. m /\ stack \in Seq(1 .. m) BY <1>1
<1>3. Running \in 0 .. m /\ Null \in 0 .. m BY <1>1, <1>2 DEF Null
<1>4. r_.main \in 0 .. m
  <2>1. r_.main \in Nat /\ r_.main < Running BY <1>1 DEF Request, RequestOk
  <2> QED BY <1>1, <1>2, <2>1
<1>5. Front(stack) \in Seq(1 .. m) BY <1>2, FrontIs
<1>6. m = Len(requests) OBVIOUS
<1>7. CASE Subrequest
  <2>1. PICK uri \in Uris : Make(uri, Null, Running) BY <1>7 DEF Subrequest
  <2>2. heap' = heap /\ stack' = Append(stack, m + 1) BY <1>7 DEF Subrequest
  <2> HIDE DEF m
  <2>3. Ready(requests', heap, Append(stack, m + 1)) BY <1>2, <1>3, <1>6, <2>1, MakeKeeps
  <2> QED BY <2>2, <2>3
<1>8. CASE Redirect
  <2>1. PICK uri \in Uris : Make(uri, Running, r_.main) BY <1>8 DEF Redirect
  <2>2. heap' = heap /\ stack' = Append(Front(stack), m + 1) BY <1>8 DEF Redirect
  <2> HIDE DEF m
  <2> DEFINE waiting == Front(stack)
  <2>4. waiting \in Seq(1 .. m) /\ stack' = Append(waiting, m + 1) BY <1>5, <2>2
  <2> HIDE DEF waiting
  <2>3. Ready(requests', heap, Append(waiting, m + 1))
    BY <1>3, <1>4, <1>6, <2>1, <2>4, MakeKeeps
  <2> QED BY <2>2, <2>3, <2>4
<1> QED BY <1>7, <1>8

LEMMA NextKeeps ==
  ASSUME ~w_ver.prep.shares, Ready(requests, heap, stack), [WalksNext]_walk_vars
  PROVE  Ready(requests', heap', stack')
<1>1. PICK own, kind : Right(requests, heap, own, kind) BY DEF Ready
<1>2. stack \in Seq(DOMAIN requests) /\ stack # <<>> BY DEF Ready
<1>3. CASE Locate BY <1>1, <1>2, <1>3, LocationWalkKeeps DEF Locate
<1>4. CASE LocateAgain BY <1>1, <1>2, <1>4, LocationWalkKeeps DEF LocateAgain
<1>5. CASE FileWalk BY <1>1, <1>2, <1>5, FileWalkKeeps
<1>6. CASE Map BY <1>1, <1>2, <1>6, MapKeeps
<1>7. CASE Subrequest BY <1>1, <1>2, <1>7, MoreKeep
<1>8. CASE Redirect BY <1>1, <1>2, <1>8, MoreKeep
<1>9. CASE UseNothing
  <2>1. requests' = requests /\ heap' = heap /\ stack' = stack BY <1>9 DEF UseNothing, Crash
  <2> QED BY <2>1
<1>10. CASE Return
  <2>1. requests' = requests /\ heap' = heap /\ stack' = Front(stack) /\ Len(stack) > 1
    BY <1>10 DEF Return
  <2>2. Front(stack) \in Seq(DOMAIN requests) /\ Front(stack) # <<>> BY <1>2, <2>1, FrontIs
  <2> QED BY <1>1, <2>1, <2>2 DEF Ready
<1>11. CASE UNCHANGED walk_vars
  <2>1. requests' = requests /\ heap' = heap /\ stack' = stack BY <1>11 DEF walk_vars
  <2> QED BY <2>1
<1> QED BY <1>3, <1>4, <1>5, <1>6, <1>7, <1>8, <1>9, <1>10, <1>11 DEF WalksNext


-----------------------------------------------------------------------------
(* The version stays as it is, and so does what the sections apply to.     *)
LEMMA SameForKeys ==
  ASSUME w_ver' = w_ver
  PROVE  /\ \A uri : EntryUri(uri)' = EntryUri(uri)
         /\ \A uri : Applying(uri)' = Applying(uri)
         /\ \A file : TestFile(file)' = TestFile(file)
         /\ \A s, file : FileApplies(s, file)' <=> FileApplies(s, file)
         /\ Keys' = Keys
<1>1. \A uri : EntryUri(uri)' = EntryUri(uri) BY DEF EntryUri
<1>2. \A uri : Applying(uri)' = Applying(uri) BY <1>1 DEF Applying, SectionApplies
<1>3. \A file : TestFile(file)' = TestFile(file) BY DEF TestFile
<1>4. \A s, file : FileApplies(s, file)' <=> FileApplies(s, file) BY DEF FileApplies
<1>5. Keys' = Keys BY <1>1, <1>3 DEF Keys
<1> QED BY <1>1, <1>2, <1>3, <1>4, <1>5

LEMMA SameForHeap ==
  ASSUME w_ver' = w_ver
  PROVE  \A reqs, h, own, kind : HeapOk(reqs, h, own, kind)' <=> HeapOk(reqs, h, own, kind)
<1>1. Heap' = Heap
  <2>1. Cache' = Cache BY SameForKeys DEF Cache
  <2> QED BY <2>1 DEF Heap
<1>2. \A reqs, matched, cached, i :
        OfLocation(reqs, matched, cached, i)' <=> OfLocation(reqs, matched, cached, i)
  BY SameForKeys DEF OfLocation
<1>3. \A confs, matched, cached, tested :
        OfFile(confs, matched, cached, tested)' <=> OfFile(confs, matched, cached, tested)
  BY SameForKeys DEF OfFile
<1>4. \A reqs, confs, matched, cached, tested, i, note :
        Origin(reqs, confs, matched, cached, tested, i, note)'
          <=> Origin(reqs, confs, matched, cached, tested, i, note)
  BY <1>2, <1>3 DEF Origin
<1>5. \A reqs, confs, cache, entries, i, note :
        Sound(reqs, confs, cache, entries, i, note)' <=> Sound(reqs, confs, cache, entries, i, note)
  BY <1>4 DEF Sound
<1>6. \A reqs, h, own, kind, n : CacheOk(reqs, h, own, kind, n)' <=> CacheOk(reqs, h, own, kind, n)
  BY <1>5 DEF CacheOk
<1> QED BY <1>1, <1>6 DEF HeapOk

LEMMA SameForRequests ==
  ASSUME w_ver' = w_ver
  PROVE  \A reqs, h, own, kind : RequestsOk(reqs, h, own, kind)' <=> RequestsOk(reqs, h, own, kind)
<1>0. /\ \A uri : EntryUri(uri)' = EntryUri(uri) /\ Applying(uri)' = Applying(uri)
      /\ \A file : {s \in Numbers : FileApplies(s, file)'} = {s \in Numbers : FileApplies(s, file)}
  BY SameForKeys
<1>1. ASSUME NEW reqs, NEW confs, NEW i, NEW r, NEW note
      PROVE  Walked(reqs, confs, i, r, note)' <=> Walked(reqs, confs, i, r, note)
  BY <1>0 DEF Walked
<1>2. \A reqs, h, own, kind, i, r :
        RequestOk(reqs, h, own, kind, i, r)' <=> RequestOk(reqs, h, own, kind, i, r)
  BY <1>1 DEF RequestOk
<1> QED BY <1>2 DEF RequestsOk

LEMMA SameReady ==
  ASSUME w_ver' = w_ver, Ready(requests', heap', stack')
  PROVE  Ready(requests, heap, stack)'
<1>1. PICK own, kind : Right(requests', heap', own, kind) BY DEF Ready
<1>2. HeapOk(requests', heap', own, kind) /\ RequestsOk(requests', heap', own, kind)
  BY <1>1 DEF Right
<1>3. HeapOk(requests, heap, own, kind)' BY <1>2, SameForHeap
<1>4. RequestsOk(requests, heap, own, kind)' BY <1>2, SameForRequests
<1>5. Right(requests, heap, own, kind)' BY <1>3, <1>4 DEF Right
<1> QED BY <1>5 DEF Ready

LEMMA WalksStep == WalkInv /\ [WalksNext]_walk_vars => WalkInv'
<1> SUFFICES ASSUME WalkInv, [WalksNext]_walk_vars, (~w_ver.prep.shares)'
             PROVE  Ready(requests, heap, stack)'
  BY DEF WalkInv
<1>1. w_ver' = w_ver
  <2>1. CASE UNCHANGED walk_vars BY <2>1 DEF walk_vars
  <2>2. CASE Locate \/ LocateAgain
    BY <2>2 DEF Locate, LocateAgain, LocationWalk, Skip, Walk, WalkFrom, WalkOn, Becomes, Crash
  <2>3. CASE FileWalk
    BY <2>3, ZenonT(60) DEF FileWalk, PrepareOnly, Skip, Walk, WalkFrom, WalkOn, Becomes, Crash
  <2>4. CASE Map \/ Subrequest \/ Redirect \/ UseNothing \/ Return
    BY <2>4 DEF Map, Subrequest, Redirect, UseNothing, Return, Crash
  <2> QED BY <2>1, <2>2, <2>3, <2>4 DEF WalksNext
<1>2. ~w_ver.prep.shares BY <1>1
<1>3. Ready(requests', heap', stack') BY <1>2, NextKeeps DEF WalkInv
<1> QED BY <1>1, <1>3, SameReady
-----------------------------------------------------------------------------
(* The start of a request.                                                 *)
LEMMA OwnConfs ==
  ASSUME NEW confs, confs = [s \in 1 .. Defaults |-> OwnConf(s)]
  PROVE  Objects(confs)
<1>1. /\ Len(ServerSections) \in Nat /\ Numbers = 1 .. Len(ServerSections)
      /\ Defaults \in Nat /\ Defaults = Len(ServerSections) + 1
      /\ \A dir : FilesOf(dir) \in Seq(OfKind("files"))
  BY SectionNumbers
<1>2. ASSUME NEW s \in 1 .. Defaults
      PROVE  OwnConf(s) \in Obj /\ OwnConf(s).secs = <<s>> /\ OwnConf(s).files.array = s
  <2>1. <<s>> \in Seq(Nat) /\ <<>> \in Seq(OfKind("files")) /\ s \in Nat BY <1>1
  <2>2. (IF s = Defaults THEN FilesOf(0)
         ELSE IF ServerSections[s].kind = "directory" THEN FilesOf(s) ELSE <<>>)
          \in Seq(OfKind("files"))
    BY <1>1, <2>1
  <2> QED BY <2>1, <2>2 DEF OwnConf, Obj
<1>3. confs \in Seq(Obj) /\ Len(confs) = Defaults /\ DOMAIN confs = 1 .. Defaults
  <2>1. confs \in [1 .. Defaults -> Obj] BY <1>2
  <2> QED BY <1>1, <2>1
<1>4. \A s \in 1 .. Defaults : confs[s] = OwnConf(s) OBVIOUS
<1>5. \A s \in 1 .. Defaults : confs[s].secs = <<s>> /\ confs[s].files.array = s BY <1>2, <1>4
<1> QED BY <1>1, <1>3, <1>5 DEF Objects

LEMMA WalksStart == WalksInit => WalkInv
<1> SUFFICES ASSUME WalksInit PROVE Ready(requests, heap, stack) BY DEF WalkInv
<1> DEFINE confs == [s \in 1 .. Defaults |-> OwnConf(s)]
           none == [n \in {} |-> n]
<1>1. heap = [confs |-> confs, arrays |-> <<>>, caches |-> <<>>] /\ stack = <<1>> BY DEF WalksInit
<1>2. Objects(confs)
  <2>1. \E c : c = confs OBVIOUS
  <2>2. PICK c : c = confs BY <2>1
  <2>3. Objects(c) BY <2>2, OwnConfs
  <2> QED BY <2>2, <2>3
<1> HIDE DEF confs
<1>3. heap \in Heap /\ DOMAIN heap.caches = {} /\ Len(heap.arrays) = Len(heap.caches)
      /\ heap.confs = confs
  <2>1. confs \in Seq(Obj) BY <1>2 DEF Objects
  <2>2. DOMAIN <<>> = {} OBVIOUS
  <2> QED BY <1>1, <2>1, <2>2 DEF Heap
<1>4. HeapOk(<<>>, heap, none, none)
  <2>1. none \in [{} -> DOMAIN <<>>] /\ none \in [{} -> Notes] OBVIOUS
  <2> HIDE DEF none
  <2> QED BY <1>2, <1>3, <2>1 DEF HeapOk
<1>5. RequestsOk(<<>>, heap, none, none) BY DEF RequestsOk
<1>6. PICK uri \in Uris : requests = <<NewRequest(uri, Null, Null)>> BY DEF WalksInit
<1> HIDE DEF none
<1>7. Right(Append(<<>>, NewRequest(uri, Null, Null)), heap, none, none)
  <2> DEFINE reqs == <<>>
  <2>1. Null \in 0 .. Len(reqs) BY DEF Null
  <2>2. Right(reqs, heap, none, none) BY <1>4, <1>5 DEF Right
  <2> HIDE DEF reqs
  <2>3. Right(Append(reqs, NewRequest(uri, Null, Null)), heap, none, none)
    BY <2>1, <2>2, MadeIsRight
  <2> QED BY <2>3 DEF reqs
<1>8. Append(<<>>, NewRequest(uri, Null, Null)) = requests BY <1>6
<1>9. stack \in Seq(DOMAIN requests) /\ stack # <<>>
  <2>1. DOMAIN requests = {1} BY <1>6
  <2>2. <<1>> \in Seq({1}) /\ <<1>> # <<>> OBVIOUS
  <2> QED BY <1>1, <2>1, <2>2
<1> QED BY <1>7, <1>8, <1>9 DEF Ready
-----------------------------------------------------------------------------
LEMMA WalksMeant == WalkInv => WalksApplied
<1> SUFFICES ASSUME WalkInv, ~w_ver.prep.shares PROVE WalksApplied
  BY DEF WalksApplied, LocationsApplied, FilesApplied
<1>1. PICK own, kind : Right(requests, heap, own, kind) BY DEF WalkInv, Ready
<1>2. /\ requests \in Seq(Request) /\ heap.confs \in Seq(Obj)
      /\ \A i \in DOMAIN requests : RequestOk(requests, heap, own, kind, i, requests[i])
  BY <1>1 DEF Right, RequestsOk, HeapOk, Heap
<1>3. DOMAIN requests = 1 .. Len(requests) BY <1>2
<1>4. LocationsApplied
  <2> SUFFICES ASSUME NEW i \in 1 .. Len(requests), requests[i].at \in {"located", "done"},
                      requests[i].conf # Null
               PROVE  \E j \in DOMAIN requests :
                        /\ EntryUri(requests[j].uri) = EntryUri(requests[i].uri)
                        /\ Secs(requests[i].conf) =
                             Secs(requests[i].before) \o Applying(requests[j].uri)
                        /\ j \in Family(i)
    BY DEF LocationsApplied
  <2>1. Walked(requests, heap.confs, i, requests[i], "location") BY <1>2, <1>3 DEF RequestOk
  <2>2. PICK j \in FamilyIn(requests, i) :
          /\ EntryUri(requests[j].uri) = EntryUri(requests[i].uri)
          /\ heap.confs[requests[i].conf].secs =
               heap.confs[requests[i].before].secs \o Applying(requests[j].uri)
    BY <2>1 DEF Walked
  <2>3. j \in DOMAIN requests /\ j \in Family(i) BY DEF FamilyIn, Family, ClosedIn, Closed
  <2> QED BY <2>2, <2>3 DEF Secs
<1>5. FilesApplied
  <2> SUFFICES ASSUME NEW i \in 1 .. Len(requests), requests[i].at = "filed",
                      requests[i].conf # Null
               PROVE  Secs(requests[i].conf) = Secs(requests[i].before) \o
                        (IF requests[i].file = {} THEN <<>>
                         ELSE ApplyingFiles(CHOOSE f \in requests[i].file : TRUE,
                                            requests[i].before))
    BY DEF FilesApplied
  <2> DEFINE r == requests[i]
  <2>1. Walked(requests, heap.confs, i, r, "file") BY <1>2, <1>3 DEF RequestOk
  <2>2. CASE r.file = {}
    <3>1. Secs(r.conf) = Secs(r.before) BY <2>1, <2>2 DEF Walked, Secs
    <3>2. Secs(r.before) \in Seq(Nat)
      <4>1. r.before \in 0 .. Len(heap.confs) BY <1>2, <1>3 DEF RequestOk
      <4>2. r.before # Null BY <2>1 DEF Walked
      <4>3. r.before \in DOMAIN heap.confs
        <5>1. Len(heap.confs) \in Nat /\ DOMAIN heap.confs = 1 .. Len(heap.confs) BY <1>2
        <5> QED BY <4>1, <4>2, <5>1 DEF Null
      <4>4. heap.confs[r.before] \in Obj BY <1>2, <4>3
      <4> QED BY <4>4 DEF Obj, Secs
    <3>3. Secs(r.before) \o <<>> = Secs(r.before) BY <3>2
    <3> QED BY <2>2, <3>1, <3>3
  <2>3. CASE r.file # {}
    <3> DEFINE file == CHOOSE f \in r.file : TRUE
    <3>1. file \in r.file BY <2>3
    <3> HIDE DEF file
    <3>2. Secs(r.conf) = Secs(r.before) \o
            Among(heap.confs[r.before].files.elts, {s \in Numbers : FileApplies(s, file)})
      BY <2>1, <3>1 DEF Walked, Secs
    <3>3. Secs(r.conf) = Secs(r.before) \o ApplyingFiles(file, r.before)
      BY <3>2 DEF ApplyingFiles
    <3> QED BY <2>3, <3>3 DEF file
  <2> QED BY <2>2, <2>3
<1> QED BY <1>4, <1>5 DEF WalksApplied

\* What a walk merges is what applies to the request: no cache of this request, or of one that
\* it follows from, makes it merge the sections of another name or leave some out.
THEOREM WalksCorrect == WalksSpec => []WalksApplied
<1>1. WalksInit => WalkInv BY WalksStart
<1>2. WalkInv /\ [WalksNext]_walk_vars => WalkInv' BY WalksStep
<1>3. WalkInv => WalksApplied BY WalksMeant
<1> QED BY <1>1, <1>2, <1>3, PTL DEF WalksSpec
=============================================================================
