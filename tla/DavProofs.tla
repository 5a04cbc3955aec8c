----------------------------- MODULE DavProofs ------------------------------
(***************************************************************************)
(* What passing the check means, for every header, every list of locks and *)
(* every user: one inductive invariant says what seen_locktoken stands for,*)
(* one what the scan has established about the list it is in, and a third  *)
(* compares it with the answer the header calls for.  Then PROPPATCH, for  *)
(* every document: all of it or nothing.  Last COPY, MOVE and DELETE, for  *)
(* any number of requests: who has what checked out, and at which stage.   *)
(***************************************************************************)
EXTENDS DavValidate, DavMethods, DavPropPatch, FiniteSetTheorems, SequenceTheorems, TLAPS

\* The parameters, and where the scan may be.
Scanning ==
  /\ ver \in Versions /\ if_header \in Headers /\ lock_list \in LockLists
  /\ lockscope \in Scopes \cup {"none"} /\ is_parent \in BOOLEAN
  /\ pc \in {"begin", "scan", "states", "done"}
  /\ ifhdr_scan \in 1 .. Len(if_header) + 1
  /\ state_list \in Nat \ {0}
  /\ pc = "states" => ifhdr_scan <= Len(if_header) /\ state_list <= Len(List.state) + 1
  /\ seen_locktoken \in BOOLEAN
  /\ num_that_apply \in Nat
  /\ pc # "done" => answer = "none"

\* seen_locktoken is only set where the request may touch the resource.
SeenIsEntitled == AsksForToken /\ pc \in {"scan", "states"} /\ seen_locktoken => Entitled

\* Where no list was entered, none so far applies; and what was checked of the
\* current list holds.
Checked == Compares =>
  /\ pc = "begin" => num_that_apply = 0 /\ ifhdr_scan = 1
  /\ num_that_apply = 0 => \A i \in 1 .. ifhdr_scan - 1 : ~if_header[i].applies
  /\ pc = "states" => num_that_apply # 0 /\ List.applies
                     /\ \A j \in 1 .. state_list - 1 : Holds(List.state[j])

TokenInv == LockedNeedsToken /\ SeenIsEntitled
ListInv == ConditionsHold /\ Checked

\* Headers and locks have their types.
LEMMA Typed ==
  ASSUME if_header \in Headers, lock_list \in LockLists
  PROVE  /\ if_header \in Seq(Lists) /\ lock_list \in Seq(Locks)
         /\ \A i \in DOMAIN if_header : if_header[i] \in Lists
  <1>1. if_header \in Seq(Lists) /\ lock_list \in Seq(Locks)
    BY DavAssumption DEF DavAssumption
  <1> QED
    BY <1>1

\* A condition is of one of three types.
LEMMA StateTyped ==
  ASSUME NEW i \in DOMAIN if_header, NEW j \in DOMAIN if_header[i].state,
         if_header \in Headers, lock_list \in LockLists
  PROVE  /\ if_header[i].state[j] \in Conditions
         /\ if_header[i].state[j].not \in BOOLEAN
         /\ if_header[i].state[j].type \in {"etag", "opaquelock", "unknown"}
  <1>1. if_header[i] \in Lists
    BY Typed
  <1>2. if_header[i].state \in Seq(Conditions)
    BY <1>1 DEF Lists
  <1>3. if_header[i].state[j] \in Conditions
    BY <1>2
  <1> QED
    BY <1>3 DEF Conditions

LEMMA ScanInit == Init => Scanning
  <1> SUFFICES ASSUME Init PROVE Scanning
    OBVIOUS
  <1>1. if_header \in Headers /\ lock_list \in LockLists
    BY DEF Init
  <1>2. Len(if_header) \in Nat
    BY <1>1, Typed
  <1>3. pc = "begin" /\ ifhdr_scan = 1 /\ 1 \in 1 .. Len(if_header) + 1
    BY <1>2 DEF Init
  <1>4. /\ ver \in Versions /\ lockscope \in Scopes \cup {"none"} /\ is_parent \in BOOLEAN
        /\ answer = "none"
    BY DEF Init
  <1>5. seen_locktoken \in BOOLEAN
    BY DEF Init
  <1>6. state_list \in Nat \ {0} /\ num_that_apply \in Nat
    BY DEF Init
  <1> QED
    BY <1>1, <1>3, <1>4, <1>5, <1>6 DEF Scanning

\* No step takes the scan out of the header.
LEMMA ScanStep == Scanning /\ [Next]_vars => Scanning'
  <1> SUFFICES ASSUME Scanning, [Next]_vars PROVE Scanning'
    OBVIOUS
  <1>l. Len(if_header) \in Nat
    BY Typed DEF Scanning
  <1>n. ifhdr_scan \in DOMAIN if_header => Len(List.state) \in Nat
    BY Typed DEF Scanning, Lists, List
  <1>u. UNCHANGED input => ver' = ver /\ if_header' = if_header /\ lock_list' = lock_list
                           /\ lockscope' = lockscope /\ is_parent' = is_parent /\ user' = user
    BY DEF input
  <1>1. CASE \E a : Return(a)
    BY <1>1, <1>l, <1>u DEF Return, Scanning, List
  <1>2. CASE Begin
    BY <1>1, <1>2, <1>l, <1>u DEF Begin, Scanning, SeenAtFirst, List
  <1>3. CASE SkipList
    BY <1>3, <1>l, <1>u DEF SkipList, NextList, ListAfter, Scanning, List
  <1>4. CASE EnterList
    BY <1>4, <1>l, <1>n, <1>u DEF EnterList, FirstState, Scanning, List
  <1>5. ASSUME pc = "states", state_list <= Len(List.state),
               NextState \/ NextList, seen_locktoken' \in BOOLEAN
        PROVE  Scanning'
    BY <1>5, <1>l, <1>n, <1>u DEF NextState, NextList, ListAfter, Scanning, List
  <1>6. CASE EtagState \/ UnknownState \/ LockStateUnmatched \/ LockStateMatched
    BY <1>5, <1>6 DEF EtagState, UnknownState, LockStateUnmatched, LockStateMatched, AtState,
       PassOrFail, Scanning
  <1>7. CASE UNCHANGED vars
    BY <1>7, <1>u DEF vars, Scanning, List
  <1> QED
    BY <1>1, <1>2, <1>3, <1>4, <1>6, <1>7 DEF Next, QueryFails, LetThrough, ScopeConflict,
       LockStateForeign, ListHolds, NoneApplies, NoneHolds

\* TypeOK holds in every reachable state.
THEOREM TypeCorrect == Spec => []TypeOK
  <1>1. Scanning => TypeOK
    BY DEF Scanning, TypeOK
  <1> QED
    BY <1>1, ScanInit, ScanStep, PTL DEF Spec
-----------------------------------------------------------------------------
(* The token. *)

\* What a step leaves alone.
LEMMA InputKept ==
  ASSUME UNCHANGED input
  PROVE  /\ ver' = ver /\ if_header' = if_header /\ lock_list' = lock_list
         /\ lockscope' = lockscope /\ is_parent' = is_parent /\ user' = user
         /\ Entitled' = Entitled /\ Applying' = Applying /\ dummy_header' = dummy_header
         /\ \A i \in DOMAIN if_header : AllHold(i)' = AllHold(i)
  BY DEF input, Entitled, dav_find_submitted_locktoken, Applying, dummy_header, AllHold, Holds,
     HasLock

LEMMA TokenStep ==
  ASSUME Scanning, TokenInv, [Next]_vars
  PROVE  TokenInv'
  <1>k. UNCHANGED input
    BY DEF Next, QueryFails, LetThrough, ScopeConflict, Begin, SkipList, EnterList, EtagState,
       UnknownState, LockStateUnmatched, LockStateMatched, LockStateForeign, ListHolds,
       NoneApplies, NoneHolds, Return, PassOrFail, NextState, NextList, vars
  <1>z. CASE ~AsksForToken
    BY <1>k, <1>z, InputKept DEF AsksForToken, TokenInv, LockedNeedsToken, SeenIsEntitled
  <1> SUFFICES ASSUME AsksForToken PROVE TokenInv'
    BY <1>z
  <1>a. ver.locked /\ ver.inverted = FALSE /\ ver.refuses /\ ver.last = "LOCKED"
    BY DEF AsksForToken
  <1>b. MayPass /\ pc \in {"scan", "states"} => Entitled
    BY DEF MayPass, TokenInv, SeenIsEntitled, Entitled
  <1>1. ASSUME NEW a, Return(a), a = "OK" => Entitled
        PROVE  TokenInv'
    BY <1>1, InputKept DEF Return, TokenInv, LockedNeedsToken, SeenIsEntitled
  <1>2. CASE QueryFails \/ LetThrough \/ ScopeConflict \/ LockStateForeign \/ NoneHolds
    BY <1>1, <1>2, <1>a DEF QueryFails, LetThrough, ScopeConflict, LockStateForeign, NoneHolds
  <1>3. CASE Begin
    <2>1. SeenAtFirst => Entitled
      BY <1>a DEF SeenAtFirst, Entitled
    <2>2. dummy_header /\ lock_list = <<>> => Entitled
      BY DEF Entitled
    <2> QED
      BY <1>1, <1>3, <2>1, <2>2, InputKept
         DEF Begin, TokenInv, LockedNeedsToken, SeenIsEntitled, Scanning
  <1>4. CASE ListHolds
    BY <1>1, <1>4, <1>a, <1>b DEF ListHolds
  <1>5. CASE NoneApplies
    BY <1>1, <1>5, <1>b DEF NoneApplies
  <1>6. ASSUME NextState \/ NextList, seen_locktoken' => seen_locktoken \/ Entitled,
               pc \in {"scan", "states"}
        PROVE  TokenInv'
    BY <1>6, InputKept DEF NextState, NextList, TokenInv, LockedNeedsToken, SeenIsEntitled
  <1>7. CASE SkipList \/ EtagState \/ UnknownState \/ LockStateUnmatched
    BY <1>6, <1>7 DEF SkipList, EtagState, UnknownState, LockStateUnmatched, PassOrFail, AtState
  <1>8. CASE EnterList
    BY <1>8, InputKept DEF EnterList, TokenInv, LockedNeedsToken, SeenIsEntitled
  <1>9. CASE LockStateMatched
    <2>1. PICK l \in DOMAIN lock_list : FirstMatching(l)
      BY <1>9 DEF LockStateMatched
    <2>2. lock_list[l].token = State.token
      BY <2>1, <1>a DEF FirstMatching, Matching, SameToken
    <2>3. ifhdr_scan \in DOMAIN if_header /\ state_list \in DOMAIN List.state
      BY <1>9, Typed DEF LockStateMatched, AtState, Scanning, List, Lists
    <2>4. Entitled
      BY <1>9, <2>1, <2>2, <2>3
         DEF LockStateMatched, AtState, Entitled, dav_find_submitted_locktoken, State, List
    <2> QED
      BY <1>6, <1>9, <2>4 DEF LockStateMatched, PassOrFail, AtState
  <1>10. CASE UNCHANGED vars
    BY <1>10, InputKept DEF vars, TokenInv, LockedNeedsToken, SeenIsEntitled
  <1> QED
    BY <1>2, <1>3, <1>4, <1>5, <1>7, <1>8, <1>9, <1>10 DEF Next

\* A locked resource is touched only with one of its tokens, or to lock it.
THEOREM NeedsToken == Spec => []LockedNeedsToken
  <1>1. Init => TokenInv
    BY DEF Init, TokenInv, LockedNeedsToken, SeenIsEntitled
  <1>2. Scanning /\ TokenInv /\ [Next]_vars => TokenInv'
    BY TokenStep
  <1>3. TokenInv => LockedNeedsToken
    BY DEF TokenInv
  <1> QED
    BY <1>1, <1>2, <1>3, ScanInit, ScanStep, PTL DEF Spec
-----------------------------------------------------------------------------
(* The conditions. *)

LEMMA ListStep ==
  ASSUME Scanning, ListInv, [Next]_vars
  PROVE  ListInv'
  <1>k. UNCHANGED input
    BY DEF Next, QueryFails, LetThrough, ScopeConflict, Begin, SkipList, EnterList, EtagState,
       UnknownState, LockStateUnmatched, LockStateMatched, LockStateForeign, ListHolds,
       NoneApplies, NoneHolds, Return, PassOrFail, NextState, NextList, vars
  <1>z. CASE ~Compares
    BY <1>k, <1>z, InputKept DEF Compares, ListInv, ConditionsHold, Checked
  <1> SUFFICES ASSUME Compares PROVE ListInv'
    BY <1>z
  <1>a. ver.etag /\ ver.inverted = FALSE /\ ver.refuses
    BY DEF Compares
  <1>l. Len(if_header) \in Nat /\ DOMAIN if_header = 1 .. Len(if_header)
    BY Typed DEF Scanning
  <1>s. pc = "states" => /\ ifhdr_scan \in DOMAIN if_header
                         /\ Len(List.state) \in Nat
                         /\ DOMAIN List.state = 1 .. Len(List.state)
    BY Typed DEF Scanning, List, Lists
  <1>1. ASSUME NEW a, Return(a),
               a = "OK" => \/ Applying = {}
                           \/ dummy_header /\ lock_list = <<>> /\ is_parent
                           \/ \E i \in Applying : AllHold(i)
        PROVE  ListInv'
    <2>1. Applying' = Applying /\ dummy_header' = dummy_header /\ UNCHANGED input
          /\ \A i \in Applying : AllHold(i)' = AllHold(i)
      BY <1>1, InputKept DEF Return, Applying
    <2> QED
      BY <1>1, <2>1, InputKept DEF Return, ListInv, ConditionsHold, Checked
  <1>2. CASE QueryFails \/ LetThrough \/ ScopeConflict \/ LockStateForeign \/ NoneHolds
    BY <1>1, <1>2, <1>a DEF QueryFails, LetThrough, ScopeConflict, LockStateForeign, NoneHolds
  <1>3. CASE Begin
    <2>1. if_header = <<>> => Applying = {}
      BY DEF Applying
    <2> QED
      BY <1>1, <1>3, <2>1, InputKept DEF Begin, ListInv, ConditionsHold, Checked, Scanning
  <1>4. CASE ListHolds
    <2>1. ifhdr_scan \in Applying
      BY <1>4, <1>s DEF ListHolds, ListInv, Checked, Applying, List
    <2>2. \A j \in DOMAIN List.state : Holds(List.state[j])
      <3>1. pc = "states" /\ state_list > Len(List.state)
        BY <1>4 DEF ListHolds
      <3>2. state_list = Len(List.state) + 1
        BY <1>s, <3>1 DEF Scanning
      <3>3. \A j \in 1 .. state_list - 1 : Holds(List.state[j])
        BY <3>1 DEF ListInv, Checked
      <3> QED
        BY <1>s, <3>1, <3>2, <3>3
    <2>3. AllHold(ifhdr_scan)
      BY <2>2 DEF AllHold, List
    <2> QED
      BY <1>1, <1>4, <2>1, <2>3 DEF ListHolds
  <1>5. CASE NoneApplies
    <2>1. Applying = {}
      BY <1>5, <1>l DEF NoneApplies, ListInv, Checked, Applying, Scanning
    <2> QED
      BY <1>1, <1>5, <2>1 DEF NoneApplies
  <1>6. CASE SkipList
    BY <1>6, <1>l, InputKept DEF SkipList, NextList, ListAfter, ListInv, ConditionsHold, Checked,
       Scanning, List
  <1>7. CASE EnterList
    BY <1>7, <1>l, InputKept DEF EnterList, FirstState, ListInv, ConditionsHold, Checked, Scanning, List
  <1>8. ASSUME pc = "states", NextList, num_that_apply # 0
        PROVE  ListInv'
    BY <1>8, InputKept DEF NextList, ListInv, ConditionsHold, Checked, Scanning
  <1>9. ASSUME pc = "states", NextState, Holds(State)
        PROVE  ListInv'
    <2>1. \A j \in 1 .. state_list : Holds(List.state[j])
      BY <1>9 DEF ListInv, Checked, State, Scanning
    <2>2. \A j : Holds(List.state[j])' = Holds(List.state[j])
      BY <1>9, InputKept DEF NextState, Holds, HasLock, List
    <2> QED
      BY <1>9, <2>1, <2>2, InputKept DEF NextState, ListInv, ConditionsHold, Checked, Scanning, List
  <1>10. ASSUME pc = "states", state_list <= Len(List.state), NEW passes, PassOrFail(passes),
                passes => Holds(State)
         PROVE  ListInv'
    BY <1>8, <1>9, <1>10 DEF PassOrFail, ListInv, Checked
  <1>t. pc = "states" /\ state_list <= Len(List.state) =>
          /\ State.not \in BOOLEAN
          /\ State \in Conditions
    BY <1>s, StateTyped DEF Scanning, List, State
  <1>11. CASE EtagState
    <2>1. EtagHolds => Holds(State)
      BY <1>11, <1>a DEF EtagState, AtState, EtagHolds, Holds
    <2> QED
      BY <1>10, <1>11, <2>1 DEF EtagState, AtState
  <1>12. CASE UnknownState
    BY <1>10, <1>12 DEF UnknownState, AtState, Holds
  <1>13. CASE LockStateUnmatched
    <2>1. ~HasLock(State.token)
      BY <1>13, <1>a DEF LockStateUnmatched, Matching, SameToken, HasLock
    <2>2. State.not => Holds(State)
      BY <1>13, <1>t, <2>1 DEF LockStateUnmatched, AtState, Holds, HasLock
    <2> QED
      BY <1>10, <1>13, <2>2 DEF LockStateUnmatched, AtState
  <1>14. CASE LockStateMatched
    <2>1. HasLock(State.token)
      BY <1>14, <1>a DEF LockStateMatched, FirstMatching, Matching, SameToken, HasLock
    <2>2. ~State.not => Holds(State)
      BY <1>14, <1>t, <2>1 DEF LockStateMatched, AtState, Holds, HasLock
    <2> QED
      BY <1>10, <1>14, <2>2 DEF LockStateMatched, AtState
  <1>15. CASE UNCHANGED vars
    <2>1. UNCHANGED <<pc, ifhdr_scan, state_list, num_that_apply, answer>> /\ UNCHANGED input
      BY <1>15 DEF vars
    <2>2. List' = List /\ \A s : Holds(s)' = Holds(s)
      BY <2>1, InputKept DEF List, Holds, HasLock
    <2>3. ConditionsHold'
      BY <2>1, InputKept DEF ListInv, ConditionsHold, Applying
    <2>4. Checked'
      BY <2>1, <2>2, InputKept DEF ListInv, Checked
    <2> QED
      BY <2>3, <2>4 DEF ListInv
  <1> QED
    BY <1>2, <1>3, <1>4, <1>5, <1>6, <1>7, <1>11, <1>12, <1>13, <1>14, <1>15 DEF Next

\* What passes has a list that holds, whatever came before it in the header.
THEOREM Conditional == Spec => []ConditionsHold
  <1>1. Init => ListInv
    BY DEF Init, ListInv, ConditionsHold, Checked
  <1>2. Scanning /\ ListInv /\ [Next]_vars => ListInv'
    BY ListStep
  <1>3. ListInv => ConditionsHold
    BY DEF ListInv
  <1> QED
    BY <1>1, <1>2, <1>3, ScanInit, ScanStep, PTL DEF Spec
-----------------------------------------------------------------------------
(* The scopes. *)

\* Once past the beginning, the lock asked for does not clash.
NoClashBehind == Tests /\ (pc \in {"scan", "states"} \/ answer = "OK") => ~Clash

\* No lock is granted beside one it conflicts with.
THEOREM NoClash == Spec => []ScopeRespected
  <1>1. Init => NoClashBehind
    BY DEF Init, NoClashBehind
  <1>2. Scanning /\ NoClashBehind /\ [Next]_vars => NoClashBehind'
    <2> SUFFICES ASSUME Scanning, NoClashBehind, [Next]_vars PROVE NoClashBehind'
      OBVIOUS
    <2>k. UNCHANGED input
      BY DEF Next, QueryFails, LetThrough, ScopeConflict, Begin, SkipList, EnterList,
         EtagState, UnknownState, LockStateUnmatched, LockStateMatched, LockStateForeign,
         ListHolds, NoneApplies, NoneHolds, Return, PassOrFail, NextState, NextList, vars
    <2>z. CASE ~Tests
      BY <2>k, <2>z, InputKept DEF Tests, NoClashBehind
    <2> SUFFICES ASSUME Tests PROVE NoClashBehind'
      BY <2>z
    <2>1. ver.scope /\ ver.refuses
      BY DEF Tests
    <2>2. lock_list \in Seq(Locks)
      BY Typed DEF Scanning
    <2>3. Clash => Conflicts
      BY <2>2 DEF Clash, Conflicts, Exclusives, Scanning, Scopes
    <2>4. UNCHANGED input => Clash' = Clash
      BY DEF input, Clash
    <2>5. CASE QueryFails \/ LetThrough \/ ScopeConflict
      BY <2>1, <2>5 DEF QueryFails, LetThrough, ScopeConflict, Return, NoClashBehind
    <2>6. CASE Begin
      BY <2>1, <2>3, <2>4, <2>6 DEF Begin, Return, NoClashBehind
    <2>7. CASE /\ UNCHANGED input
               /\ pc \in {"scan", "states"} \/ UNCHANGED <<pc, answer>>
      BY <2>4, <2>7 DEF NoClashBehind
    <2>8. CASE SkipList \/ EnterList \/ EtagState \/ UnknownState \/ LockStateUnmatched
               \/ LockStateMatched \/ LockStateForeign \/ ListHolds \/ NoneApplies \/ NoneHolds
      BY <2>7, <2>8 DEF SkipList, EnterList, EtagState, UnknownState, LockStateUnmatched,
         LockStateMatched, LockStateForeign, ListHolds, NoneApplies, NoneHolds, AtState,
         PassOrFail, NextState, NextList, Return
    <2> QED
      BY <2>5, <2>6, <2>7, <2>8 DEF Next, vars
  <1>3. NoClashBehind => ScopeRespected
    BY DEF NoClashBehind, ScopeRespected
  <1> QED
    BY <1>1, <1>2, <1>3, ScanInit, ScanStep, PTL DEF Spec
-----------------------------------------------------------------------------
(* The verdict. *)

\* Nothing about a list that was left decides, and nothing so far about the one looked at.
Undecided(i) == ~AllHold(i) /\ ~NamesForeign(i)
HoldsSoFar ==
  \A j \in 1 .. state_list - 1 : Holds(List.state[j]) /\ ~IsForeign(List.state[j])

ScanVerdict ==
  /\ pc = "begin" => ifhdr_scan = 1 /\ num_that_apply = 0 /\ answer = "none"
  /\ pc \in {"scan", "states"} =>
       /\ answer = "none"
       /\ ~Clash /\ if_header # <<>> /\ ~(dummy_header /\ lock_list = <<>>)
       /\ Entitled => seen_locktoken \/ dav_find_submitted_locktoken
       /\ \A i \in Applying : i < ifhdr_scan => Undecided(i)
       /\ num_that_apply = 0 => \A i \in Applying : ~(i < ifhdr_scan)
       /\ num_that_apply # 0 => Applying # {}
  /\ pc = "states" => num_that_apply # 0 /\ List.applies /\ HoldsSoFar
  /\ pc = "done" => answer \in {"INTERNAL_SERVER_ERROR", Verdict}

VerdictInv == ver = Version_866 => ScanVerdict

LEMMA VerdictKept ==
  ASSUME UNCHANGED input
  PROVE  /\ Verdict' = Verdict /\ Clash' = Clash
         /\ dav_find_submitted_locktoken' = dav_find_submitted_locktoken
         /\ \A s : Holds(s)' = Holds(s) /\ IsForeign(s)' = IsForeign(s)
         /\ \A i \in DOMAIN if_header : Undecided(i)' = Undecided(i)
<1>1. /\ if_header' = if_header /\ lock_list' = lock_list /\ lockscope' = lockscope
      /\ is_parent' = is_parent /\ user' = user
  BY DEF input
<1>2. \A s : Holds(s)' = Holds(s) /\ IsForeign(s)' = IsForeign(s)
  BY <1>1 DEF Holds, HasLock, IsForeign
<1>3. \A i : AllHold(i)' = AllHold(i) /\ NamesForeign(i)' = NamesForeign(i)
  BY <1>1, <1>2 DEF AllHold, NamesForeign
<1>4. Clash' = Clash BY <1>1 DEF Clash
<1>5. dav_find_submitted_locktoken' = dav_find_submitted_locktoken
  BY <1>1 DEF dav_find_submitted_locktoken
<1>6. Entitled' = Entitled BY <1>1, <1>5 DEF Entitled
<1>7. Applying' = Applying /\ dummy_header' = dummy_header BY <1>1 DEF Applying, dummy_header
<1>8. \A i : Decides(i)' = Decides(i) BY <1>3, <1>7 DEF Decides
<1>9. Verdict' = Verdict BY <1>1, <1>3, <1>4, <1>6, <1>7, <1>8 DEF Verdict
<1>10. \A i : Undecided(i)' = Undecided(i) BY <1>3 DEF Undecided
<1> QED BY <1>2, <1>4, <1>5, <1>9, <1>10

\* What the scan looks at is there.
LEMMA StateThere ==
  ASSUME Scanning, pc = "states"
  PROVE  /\ ifhdr_scan \in DOMAIN if_header /\ List = if_header[ifhdr_scan]
         /\ Len(List.state) \in Nat /\ DOMAIN List.state = 1 .. Len(List.state)
         /\ state_list \in 1 .. Len(List.state) + 1
         /\ state_list \in 1 .. Len(List.state) => State \in Conditions /\ State = List.state[state_list]
<1>1. /\ if_header \in Seq(Lists) /\ ifhdr_scan \in 1 .. Len(if_header)
      /\ state_list \in 1 .. Len(List.state) + 1
  BY Typed DEF Scanning
<1>2. ifhdr_scan \in DOMAIN if_header /\ List \in Lists BY <1>1 DEF List
<1>3. List.state \in Seq(Conditions) BY <1>2 DEF Lists
<1>4. state_list \in 1 .. Len(List.state) => State \in Conditions BY <1>3 DEF State
<1> QED BY <1>1, <1>2, <1>3, <1>4 DEF List, State

LEMMA ForeignHolds ==
  ASSUME NEW s \in Conditions, IsForeign(s)
  PROVE  Holds(s)
<1>1. s.type = "opaquelock" /\ ~s.not /\ HasLock(s.token) BY DEF IsForeign, HasLock
<1>2. s.not \in BOOLEAN BY DEF Conditions
<1> QED BY <1>1, <1>2 DEF Holds

\* A list whose first condition that does not hold is reached decides nothing.
LEMMA FailedList ==
  ASSUME Scanning, pc = "states", HoldsSoFar, state_list <= Len(List.state), ~Holds(State)
  PROVE  Undecided(ifhdr_scan)
<1>1. /\ ifhdr_scan \in DOMAIN if_header /\ List = if_header[ifhdr_scan]
      /\ Len(List.state) \in Nat /\ DOMAIN List.state = 1 .. Len(List.state)
      /\ state_list \in 1 .. Len(List.state) /\ State \in Conditions
      /\ State = List.state[state_list]
  BY StateThere
<1>2. ~AllHold(ifhdr_scan) BY <1>1 DEF AllHold
<1>3. ~NamesForeign(ifhdr_scan)
  <2> SUFFICES ASSUME NEW j \in 1 .. Len(List.state), IsForeign(List.state[j]),
                      \A k \in 1 .. j - 1 : Holds(List.state[k])
               PROVE  FALSE
    BY <1>1 DEF NamesForeign
  <2>1. CASE j \in 1 .. state_list - 1 BY <2>1 DEF HoldsSoFar
  <2>2. CASE j = state_list BY <1>1, <2>2, ForeignHolds
  <2>3. CASE state_list \in 1 .. j - 1 BY <1>1, <2>3
  <2> QED BY <1>1, <2>1, <2>2, <2>3
<1> QED BY <1>2, <1>3 DEF Undecided

\* A list at whose end the scan arrives decides that the request may pass.
LEMMA HeldList ==
  ASSUME Scanning, pc = "states", HoldsSoFar, state_list > Len(List.state)
  PROVE  AllHold(ifhdr_scan) /\ ~NamesForeign(ifhdr_scan)
<1>1. /\ ifhdr_scan \in DOMAIN if_header /\ List = if_header[ifhdr_scan]
      /\ Len(List.state) \in Nat /\ DOMAIN List.state = 1 .. Len(List.state)
      /\ state_list = Len(List.state) + 1
  BY StateThere
<1>2. \A j \in DOMAIN List.state : Holds(List.state[j]) /\ ~IsForeign(List.state[j])
  BY <1>1 DEF HoldsSoFar
<1> QED BY <1>1, <1>2 DEF AllHold, NamesForeign

\* The loop over the locks stops at the lock the condition names.
LEMMA StopsAtLock ==
  ASSUME Scanning, ver = Version_866, NEW l \in DOMAIN lock_list, FirstMatching(l)
  PROVE  /\ lock_list[l].token = State.token
         /\ \A k \in 1 .. l - 1 : lock_list[k].token # State.token
<1>1. ver.inverted = FALSE BY DEF Version_866
<1>2. l \in Matching /\ \A k \in Matching : l <= k BY DEF FirstMatching
<1>3. lock_list \in Seq(Locks) BY Typed DEF Scanning
<1>4. \A k \in 1 .. l - 1 : k \in DOMAIN lock_list /\ k \notin Matching BY <1>2, <1>3
<1> QED BY <1>1, <1>2, <1>4 DEF Matching, SameToken

\* What each condition is found to be is what it is.
LEMMA ConditionFound ==
  ASSUME Scanning, ver = Version_866, pc = "states",
         EtagState \/ UnknownState \/ LockStateUnmatched \/ LockStateMatched
  PROVE  /\ state_list <= Len(List.state)
         /\ \/ NextState /\ Holds(State) /\ ~IsForeign(State)
            \/ NextList /\ ~Holds(State)
         /\ seen_locktoken => seen_locktoken'
<1>a. ver.etag /\ ver.inverted = FALSE /\ ver.user BY DEF Version_866
<1>b. state_list <= Len(List.state) /\ State \in Conditions
  BY StateThere DEF EtagState, UnknownState, LockStateUnmatched, LockStateMatched, AtState
<1>c. State.not \in BOOLEAN BY <1>b DEF Conditions
<1>1. CASE EtagState
  <2>1. State.type = "etag" /\ PassOrFail(EtagHolds) /\ UNCHANGED seen_locktoken
    BY <1>1 DEF EtagState, AtState
  <2>2. (EtagHolds <=> Holds(State)) /\ ~IsForeign(State)
    BY <1>a, <2>1 DEF EtagHolds, Holds, IsForeign
  <2> QED BY <1>b, <2>1, <2>2 DEF PassOrFail
<1>2. CASE UnknownState
  <2>1. State.type = "unknown" /\ PassOrFail(State.not) /\ UNCHANGED seen_locktoken
    BY <1>2 DEF UnknownState, AtState
  <2>2. (State.not <=> Holds(State)) /\ ~IsForeign(State)
    BY <2>1 DEF Holds, IsForeign
  <2> QED BY <1>b, <2>1, <2>2 DEF PassOrFail
<1>3. CASE LockStateUnmatched
  <2>1. /\ State.type = "opaquelock" /\ PassOrFail(State.not) /\ UNCHANGED seen_locktoken
        /\ Matching = {}
    BY <1>3 DEF LockStateUnmatched, AtState
  <2>2. \A k \in DOMAIN lock_list : lock_list[k].token # State.token
    BY <1>a, <2>1 DEF Matching, SameToken
  <2>3. ~HasLock(State.token) /\ ~IsForeign(State) BY <2>2 DEF HasLock, IsForeign
  <2>4. State.not <=> Holds(State) BY <1>c, <2>1, <2>3 DEF Holds, HasLock
  <2> QED BY <1>b, <2>1, <2>3, <2>4 DEF PassOrFail
<1>4. CASE LockStateMatched
  <2>1. PICK l \in DOMAIN lock_list : FirstMatching(l) /\ (State.not \/ ~Foreign(l))
    BY <1>4 DEF LockStateMatched
  <2>2. State.type = "opaquelock" /\ PassOrFail(~State.not) /\ seen_locktoken' = TRUE
    BY <1>4 DEF LockStateMatched, AtState
  <2>3. /\ lock_list[l].token = State.token
        /\ \A k \in 1 .. l - 1 : lock_list[k].token # State.token
    BY <2>1, StopsAtLock
  <2>4. HasLock(State.token) BY <2>3 DEF HasLock
  <2>5. ~State.not <=> Holds(State) BY <1>c, <2>2, <2>4 DEF Holds, HasLock
  <2>6. ~State.not => ~IsForeign(State)
    <3> SUFFICES ASSUME ~Foreign(l), NEW k \in DOMAIN lock_list,
                        lock_list[k].token = State.token,
                        \A m \in 1 .. k - 1 : lock_list[m].token # State.token
                 PROVE  lock_list[k].user \in {NoUser, user}
      BY <2>1 DEF IsForeign
    <3>1. lock_list \in Seq(Locks) BY Typed DEF Scanning
    <3>2. k \in Nat \ {0} /\ l \in Nat \ {0} BY <3>1
    <3>3. k = l BY <2>3, <3>2
    <3> QED BY <1>a, <3>3 DEF Foreign
  <2> QED BY <1>b, <2>2, <2>5, <2>6 DEF PassOrFail
<1> QED BY <1>1, <1>2, <1>3, <1>4

LEMMA ForeignFound ==
  ASSUME Scanning, ver = Version_866, pc = "states", HoldsSoFar, LockStateForeign
  PROVE  NamesForeign(ifhdr_scan)
<1>a. ver.user BY DEF Version_866
<1>1. PICK l \in DOMAIN lock_list : FirstMatching(l) /\ Foreign(l)
  BY DEF LockStateForeign
<1>2. State.type = "opaquelock" /\ ~State.not /\ state_list <= Len(List.state)
  BY DEF LockStateForeign, AtState
<1>3. /\ lock_list[l].token = State.token
      /\ \A k \in 1 .. l - 1 : lock_list[k].token # State.token
  BY <1>1, StopsAtLock
<1>4. IsForeign(State) BY <1>1, <1>2, <1>3 DEF IsForeign, Foreign
<1>5. /\ List = if_header[ifhdr_scan] /\ state_list \in DOMAIN List.state
      /\ State = List.state[state_list]
  BY <1>2, StateThere
<1>6. \A k \in 1 .. state_list - 1 : Holds(List.state[k]) BY DEF HoldsSoFar
<1> QED BY <1>4, <1>5, <1>6 DEF NamesForeign

\* The tests of the scope are what an exclusive lock means.
LEMMA ScopeMeans ==
  ASSUME Scanning
  PROVE  Conflicts <=> Clash
<1>1. lock_list \in Seq(Locks) /\ lockscope \in Scopes \cup {"none"} BY Typed DEF Scanning
<1>2. Len(lock_list) \in Nat /\ DOMAIN lock_list = 1 .. Len(lock_list) BY <1>1
<1>3. lock_list # <<>> => 1 \in DOMAIN lock_list BY <1>1, <1>2, EmptySeq
<1>4. lock_list = <<>> => DOMAIN lock_list = {} BY <1>1
<1> QED BY <1>1, <1>3, <1>4 DEF Conflicts, Clash, Exclusives, Scopes

LEMMA VerdictBegin ==
  ASSUME Scanning, ver = Version_866, ScanVerdict, Begin
  PROVE  ScanVerdict'
<1>a. ver.scope /\ ver.locked BY DEF Version_866
<1>b. pc = "begin" /\ ~Clash /\ ifhdr_scan = 1 /\ num_that_apply = 0 /\ answer = "none"
  BY <1>a, ScopeMeans DEF Begin, ScanVerdict
<1>c. UNCHANGED input BY DEF Begin, Return
<1>s. SeenAtFirst <=> lockscope # "none" \/ lock_list = <<>> BY <1>a DEF SeenAtFirst
<1>1. ASSUME NEW a, Return(a), a = Verdict PROVE ScanVerdict'
  BY <1>1, <1>c, VerdictKept DEF Return, ScanVerdict
<1>2. CASE if_header = <<>> /\ Return(IF SeenAtFirst THEN "OK" ELSE "LOCKED")
  <2>1. ~dav_find_submitted_locktoken BY <1>2 DEF dav_find_submitted_locktoken
  <2>2. Entitled <=> SeenAtFirst BY <1>s, <2>1 DEF Entitled
  <2>3. Verdict = IF SeenAtFirst THEN "OK" ELSE "LOCKED" BY <1>b, <1>2, <2>2 DEF Verdict
  <2> QED BY <1>1, <1>2, <2>3
<1>3. CASE dummy_header /\ lock_list = <<>> /\ Return(IF is_parent THEN "OK" ELSE "BAD_REQUEST")
  <2>1. if_header # <<>> BY <1>3 DEF dummy_header
  <2>2. Verdict = IF is_parent THEN "OK" ELSE "BAD_REQUEST" BY <1>b, <1>3, <2>1 DEF Verdict
  <2> QED BY <1>1, <1>3, <2>2
<1>4. CASE /\ if_header # <<>> /\ ~(dummy_header /\ lock_list = <<>>)
           /\ pc' = "scan" /\ seen_locktoken' = SeenAtFirst
           /\ UNCHANGED <<input, ifhdr_scan, state_list, num_that_apply, answer>>
  <2>1. Entitled => SeenAtFirst \/ dav_find_submitted_locktoken BY <1>s DEF Entitled
  <2>2. \A i \in Applying : i \in Nat /\ ~(i < 1) BY Typed DEF Applying, Scanning
  <2>3. /\ if_header' = if_header /\ lock_list' = lock_list /\ dummy_header' = dummy_header
        /\ Entitled' = Entitled /\ Applying' = Applying
    BY <1>4, InputKept
  <2>4. /\ Clash' = Clash /\ dav_find_submitted_locktoken' = dav_find_submitted_locktoken
    BY <1>4, VerdictKept
  <2> QED BY <1>b, <1>4, <2>1, <2>2, <2>3, <2>4 DEF ScanVerdict
<1> QED BY <1>2, <1>3, <1>4 DEF Begin

\* The scan goes from list to list and from condition to condition.
LEMMA VerdictScan ==
  ASSUME Scanning, ver = Version_866, ScanVerdict,
         SkipList \/ EnterList \/ EtagState \/ UnknownState \/ LockStateUnmatched
           \/ LockStateMatched
  PROVE  ScanVerdict'
<1>1. UNCHANGED input /\ pc \in {"scan", "states"} /\ pc' \in {"scan", "states"} /\ answer' = answer
  BY DEF SkipList, EnterList, EtagState, UnknownState, LockStateUnmatched, LockStateMatched,
     AtState, PassOrFail, NextState, NextList
<1>2. /\ if_header' = if_header /\ lock_list' = lock_list /\ dummy_header' = dummy_header
      /\ Entitled' = Entitled /\ Applying' = Applying
  BY <1>1, InputKept
<1>3. /\ Clash' = Clash /\ dav_find_submitted_locktoken' = dav_find_submitted_locktoken
      /\ \A s : Holds(s)' = Holds(s) /\ IsForeign(s)' = IsForeign(s)
      /\ \A i \in Applying : Undecided(i)' = Undecided(i)
  BY <1>1, VerdictKept DEF Applying
<1>4. /\ answer = "none"
      /\ ~Clash /\ if_header # <<>> /\ ~(dummy_header /\ lock_list = <<>>)
      /\ Entitled => seen_locktoken \/ dav_find_submitted_locktoken
      /\ \A i \in Applying : i < ifhdr_scan => Undecided(i)
      /\ num_that_apply = 0 => \A i \in Applying : ~(i < ifhdr_scan)
      /\ num_that_apply # 0 => Applying # {}
  BY <1>1 DEF ScanVerdict
<1>5. ifhdr_scan \in Nat /\ num_that_apply \in Nat /\ DOMAIN if_header = 1 .. Len(if_header)
      /\ Len(if_header) \in Nat
  BY Typed DEF Scanning
<1>6. \A i \in Applying : i \in Nat BY <1>5 DEF Applying
<1>7. CASE SkipList
  <2>1. ifhdr_scan \notin Applying BY <1>7 DEF SkipList, Applying, List
  <2>2. pc' = "scan" /\ ifhdr_scan' = ifhdr_scan + 1 /\ UNCHANGED <<seen_locktoken, num_that_apply>>
    BY <1>7 DEF SkipList, NextList, ListAfter
  <2>3. \A i \in Applying : i < ifhdr_scan' => i < ifhdr_scan
    BY <1>5, <1>6, <2>1, <2>2
  <2> QED BY <1>1, <1>2, <1>3, <1>4, <2>2, <2>3 DEF ScanVerdict
<1>8. CASE EnterList
  <2>1. ifhdr_scan \in Applying BY <1>5, <1>8 DEF EnterList, Applying, List, Scanning
  <2>2. /\ pc' = "states" /\ ifhdr_scan' = ifhdr_scan /\ seen_locktoken' = seen_locktoken
        /\ num_that_apply' = num_that_apply + 1 /\ state_list' = 1 /\ List.applies
    BY <1>8 DEF EnterList, FirstState
  <2>3. num_that_apply' # 0 /\ List' = List BY <1>2, <1>5, <2>2 DEF List
  <2>4. HoldsSoFar' BY <2>2 DEF HoldsSoFar
  <2> QED BY <1>1, <1>2, <1>3, <1>4, <2>1, <2>2, <2>3, <2>4 DEF ScanVerdict
<1>9. CASE EtagState \/ UnknownState \/ LockStateUnmatched \/ LockStateMatched
  <2>1. pc = "states" /\ num_that_apply # 0 /\ List.applies /\ HoldsSoFar
    BY <1>9 DEF EtagState, UnknownState, LockStateUnmatched, LockStateMatched, AtState, ScanVerdict
  <2>2. /\ state_list <= Len(List.state)
        /\ \/ NextState /\ Holds(State) /\ ~IsForeign(State)
           \/ NextList /\ ~Holds(State)
    BY <1>9, <2>1, ConditionFound
  <2>3. seen_locktoken => seen_locktoken' BY <1>9, <2>1, ConditionFound
  <2>4. CASE NextState /\ Holds(State) /\ ~IsForeign(State)
    <3>1. /\ pc' = pc /\ ifhdr_scan' = ifhdr_scan /\ num_that_apply' = num_that_apply
          /\ state_list' = state_list + 1 /\ List' = List
      BY <1>2, <2>4 DEF NextState, List
    <3>2. HoldsSoFar'
      <4>1. \A j \in 1 .. state_list' - 1 : j \in 1 .. state_list - 1 \/ j = state_list
        BY <3>1 DEF Scanning
      <4>2. State = List.state[state_list] BY DEF State
      <4> QED BY <1>3, <2>1, <2>4, <3>1, <4>1, <4>2 DEF HoldsSoFar
    <3> QED BY <1>1, <1>2, <1>3, <1>4, <2>1, <2>3, <3>1, <3>2 DEF ScanVerdict
  <2>5. CASE NextList /\ ~Holds(State)
    <3>1. /\ pc' = "scan" /\ ifhdr_scan' = ifhdr_scan + 1 /\ num_that_apply' = num_that_apply
      BY <2>5 DEF NextList, ListAfter
    <3>2. Undecided(ifhdr_scan) BY <2>1, <2>2, <2>5, FailedList
    <3>3. \A i \in Applying : i < ifhdr_scan' => Undecided(i)
      <4>1. \A i \in Applying : i < ifhdr_scan' => i < ifhdr_scan \/ i = ifhdr_scan
        BY <1>5, <1>6, <3>1
      <4> QED BY <1>4, <3>2, <4>1
    <3> QED BY <1>1, <1>2, <1>3, <1>4, <2>1, <2>3, <3>1, <3>3 DEF ScanVerdict
  <2> QED BY <2>2, <2>4, <2>5
<1> QED BY <1>7, <1>8, <1>9

\* The scan ends with an answer.
LEMMA VerdictEnd ==
  ASSUME Scanning, ver = Version_866, ScanVerdict, SeenIsEntitled,
         LockStateForeign \/ ListHolds \/ NoneApplies \/ NoneHolds
  PROVE  ScanVerdict'
<1>a. ver.last = "LOCKED" /\ AsksForToken BY DEF Version_866, AsksForToken
<1>b. /\ pc \in {"scan", "states"} /\ ~Clash /\ if_header # <<>>
      /\ ~(dummy_header /\ lock_list = <<>>)
      /\ Entitled => seen_locktoken \/ dav_find_submitted_locktoken
      /\ \A i \in Applying : i < ifhdr_scan => Undecided(i)
  BY DEF ScanVerdict, LockStateForeign, ListHolds, NoneApplies, NoneHolds, AtState
<1>c. MayPass <=> Entitled BY <1>a, <1>b DEF MayPass, SeenIsEntitled, Entitled
<1>d. Applying \subseteq 1 .. Len(if_header) /\ Len(if_header) \in Nat /\ ifhdr_scan \in Nat
  BY Typed DEF Applying, Scanning
<1>1. ASSUME NEW a, Return(a), a = Verdict PROVE ScanVerdict'
  <2>1. Verdict' = Verdict /\ answer' = a /\ pc' = "done" BY <1>1, VerdictKept DEF Return
  <2> QED BY <1>1, <2>1 DEF ScanVerdict
<1>2. ASSUME pc = "states"
      PROVE  /\ ifhdr_scan \in Applying
             /\ (AllHold(ifhdr_scan) \/ NamesForeign(ifhdr_scan)) => Decides(ifhdr_scan)
  BY <1>2, <1>b, StateThere DEF ScanVerdict, Applying, Decides, Undecided
<1>3. CASE LockStateForeign
  <2>1. NamesForeign(ifhdr_scan)
    BY <1>3, ForeignFound DEF LockStateForeign, AtState, ScanVerdict
  <2>2. Verdict = "FORBIDDEN"
    <3> HIDE DEF Applying, NamesForeign, AllHold, Decides, Entitled, Clash
    <3> QED BY <1>3, <1>b, <1>2, <2>1 DEF Verdict, LockStateForeign, AtState
  <2> QED BY <1>1, <1>3, <2>2 DEF LockStateForeign
<1>4. CASE ListHolds
  <2>1. pc = "states" /\ AllHold(ifhdr_scan) /\ ~NamesForeign(ifhdr_scan)
    BY <1>4, HeldList DEF ListHolds, ScanVerdict
  <2>2. ifhdr_scan \in Applying BY <1>2, <2>1
  <2>3. ~\E i \in Applying : Decides(i) /\ NamesForeign(i)
    <3> SUFFICES ASSUME NEW i \in Applying, Decides(i), NamesForeign(i) PROVE FALSE
      OBVIOUS
    <3>1. CASE i < ifhdr_scan BY <1>b, <3>1 DEF Undecided
    <3>2. CASE i = ifhdr_scan BY <2>1, <3>2
    <3>3. CASE ifhdr_scan < i BY <2>1, <2>2, <3>3 DEF Decides
    <3> QED BY <1>d, <3>1, <3>2, <3>3
  <2>4. Verdict = IF Entitled THEN "OK" ELSE IF dummy_header THEN "BAD_REQUEST" ELSE "LOCKED"
    BY <1>b, <2>1, <2>2, <2>3 DEF Verdict
  <2>5. Return(IF Entitled THEN "OK" ELSE IF dummy_header THEN "BAD_REQUEST" ELSE "LOCKED")
    BY <1>a, <1>c, <1>4 DEF ListHolds
  <2> QED BY <1>1, <2>4, <2>5
<1>5. CASE NoneApplies
  <2>1. Applying = {} BY <1>5, <1>d DEF NoneApplies, ScanVerdict
  <2>2. Verdict = IF Entitled THEN "OK" ELSE "LOCKED" BY <1>b, <2>1 DEF Verdict
  <2> QED BY <1>1, <1>c, <1>5, <2>2 DEF NoneApplies
<1>6. CASE NoneHolds
  <2>1. Applying # {} BY <1>6 DEF NoneHolds, ScanVerdict
  <2>2. \A i \in Applying : Undecided(i) BY <1>6, <1>b, <1>d DEF NoneHolds
  <2>3. \A i \in Applying : ~AllHold(i) /\ ~NamesForeign(i) BY <2>2 DEF Undecided
  <2>4. Verdict = IF dummy_header THEN "BAD_REQUEST" ELSE "PRECONDITION_FAILED"
    BY <1>b, <2>1, <2>3 DEF Verdict
  <2> QED BY <1>1, <1>6, <2>4 DEF NoneHolds
<1> QED BY <1>3, <1>4, <1>5, <1>6

LEMMA VerdictStep ==
  ASSUME Scanning, TokenInv, VerdictInv, [Next]_vars
  PROVE  VerdictInv'
<1>k. UNCHANGED input
  BY DEF Next, QueryFails, LetThrough, ScopeConflict, Begin, SkipList, EnterList, EtagState,
     UnknownState, LockStateUnmatched, LockStateMatched, LockStateForeign, ListHolds,
     NoneApplies, NoneHolds, Return, PassOrFail, NextState, NextList, vars
<1> SUFFICES ASSUME ver = Version_866 PROVE ScanVerdict'
  BY <1>k, InputKept DEF VerdictInv
<1>a. ScanVerdict /\ SeenIsEntitled /\ ver.refuses /\ ver.scope
  BY DEF VerdictInv, TokenInv, Version_866
<1>1. CASE QueryFails
  <2>1. answer' = "INTERNAL_SERVER_ERROR" /\ pc' = "done"
    BY <1>1, <1>a DEF QueryFails, Return
  <2> QED BY <2>1 DEF ScanVerdict
<1>2. CASE ScopeConflict
  <2>1. Clash BY <1>2, ScopeMeans DEF ScopeConflict
  <2>2. Verdict = "LOCKED" BY <2>1 DEF Verdict
  <2>3. Verdict' = Verdict BY <1>k, VerdictKept
  <2>4. answer' = "LOCKED" /\ pc' = "done" BY <1>2 DEF ScopeConflict, Return
  <2> QED BY <2>2, <2>3, <2>4 DEF ScanVerdict
<1>3. CASE LetThrough BY <1>3, <1>a DEF LetThrough
<1>4. CASE Begin BY <1>4, <1>a, VerdictBegin
<1>5. CASE SkipList \/ EnterList \/ EtagState \/ UnknownState \/ LockStateUnmatched
           \/ LockStateMatched
  BY <1>5, <1>a, VerdictScan
<1>6. CASE LockStateForeign \/ ListHolds \/ NoneApplies \/ NoneHolds
  BY <1>6, <1>a, VerdictEnd
<1>7. CASE UNCHANGED vars
  <2>1. UNCHANGED <<pc, ifhdr_scan, state_list, seen_locktoken, num_that_apply, answer>>
    BY <1>7 DEF vars
  <2>2. /\ if_header' = if_header /\ lock_list' = lock_list /\ dummy_header' = dummy_header
        /\ Entitled' = Entitled /\ Applying' = Applying
    BY <1>k, InputKept
  <2>3. /\ Verdict' = Verdict /\ Clash' = Clash
        /\ dav_find_submitted_locktoken' = dav_find_submitted_locktoken
        /\ \A s : Holds(s)' = Holds(s) /\ IsForeign(s)' = IsForeign(s)
        /\ \A i \in Applying : Undecided(i)' = Undecided(i)
    BY <1>k, VerdictKept DEF Applying
  <2>4. List' = List BY <2>1, <2>2 DEF List
  <2>5. HoldsSoFar' = HoldsSoFar BY <2>1, <2>3, <2>4 DEF HoldsSoFar
  <2> QED BY <1>a, <2>1, <2>2, <2>3, <2>4, <2>5 DEF ScanVerdict
<1> QED BY <1>1, <1>2, <1>3, <1>4, <1>5, <1>6, <1>7 DEF Next

\* For every header, every list of locks and every user the answer is the one the header
\* calls for: the nested loops with their early returns compute Verdict.
THEOREM VerdictReached == Spec => []AnswersVerdict
<1>1. Init => VerdictInv BY DEF Init, VerdictInv, ScanVerdict
<1>2. Init => TokenInv BY DEF Init, TokenInv, LockedNeedsToken, SeenIsEntitled
<1>3. Scanning /\ TokenInv /\ [Next]_vars => TokenInv' BY TokenStep
<1>4. Scanning /\ TokenInv /\ VerdictInv /\ [Next]_vars => VerdictInv' BY VerdictStep
<1>5. Scanning /\ VerdictInv => AnswersVerdict
  BY DEF Scanning, VerdictInv, ScanVerdict, AnswersVerdict
<1> QED BY <1>1, <1>2, <1>3, <1>4, <1>5, ScanInit, ScanStep, PTL DEF Spec
-----------------------------------------------------------------------------
(* PROPPATCH *)

PropValue == Values \cup {Absent}
Replaced(k) == After(k - 1)[doc[k].prop]

PatchTyped ==
  /\ doc \in Seq(Instruction) /\ before \in [Props -> PropValue]
  /\ stored \in [Props -> PropValue]
  /\ ctx_list \in 0 .. Len(doc) /\ next \in Nat
  /\ rollback \in [DOMAIN doc -> PropValue \cup {NotRun}]
  /\ place \in {"begin", "out", "collect", "exec", "rollback", "done"}

Untouched == stored = before /\ \A k \in DOMAIN doc : rollback[k] = NotRun

\* All instructions before the next have been executed, and each noted what it replaced.
Executing ==
  /\ ctx_list = Len(doc) /\ ~failure /\ next \in 1 .. ctx_list + 1
  /\ stored = After(next - 1)
  /\ \A k \in 1 .. next - 1 : rollback[k] = Replaced(k) /\ rollback[k] # NotRun
  /\ \A k \in next .. ctx_list : rollback[k] = NotRun

\* The first `done' instructions had been executed, the one after them at most noted what
\* it would replace; those after `next' have been rolled back.
RolledBackFrom(done) ==
  /\ \A k \in 1 .. done : rollback[k] = Replaced(k) /\ rollback[k] # NotRun
  /\ \A k \in done + 1 .. ctx_list :
       rollback[k] = NotRun \/ (k = done + 1 /\ rollback[k] = Replaced(k))
  /\ stored = After(IF next < done THEN next ELSE done)
RollingBack ==
  /\ failure /\ next \in 0 .. ctx_list
  /\ \E done \in 0 .. ctx_list : RolledBackFrom(done)

PatchInv ==
  /\ PatchTyped
  /\ place \in {"begin", "out", "collect"} => Untouched
  /\ place = "begin" => ctx_list = 0 /\ ~failure /\ ~checkedout
  /\ place = "out" => ctx_list = 0
  /\ place \in {"begin", "out"} => ~propdb
  /\ place = "exec" => Executing
  /\ place = "rollback" => RollingBack
  /\ AllOrNothing

\* No instructions, no change.
LEMMA AfterNone ==
  ASSUME PatchTyped
  PROVE  After(0) = before
<1>1. \A p \in Props : Naming(0, p) = {} BY DEF Naming
<1> QED BY <1>1 DEF After, PatchTyped

\* One instruction more changes the property it names.
LEMMA AfterOne ==
  ASSUME PatchTyped, NEW n \in 1 .. Len(doc)
  PROVE  After(n) = [After(n - 1) EXCEPT ![doc[n].prop] = doc[n].value]
<1>0. n \in Nat \ {0} /\ Len(doc) \in Nat BY DEF PatchTyped
<1>1. 1 .. n = (1 .. n - 1) \cup {n} BY <1>0
<1>2. ASSUME NEW p \in Props, p # doc[n].prop PROVE Naming(n, p) = Naming(n - 1, p)
  BY <1>1, <1>2 DEF Naming
<1>3. n \in Naming(n, doc[n].prop) /\ \A l \in Naming(n, doc[n].prop) : l \in 1 .. n
  BY <1>0 DEF Naming
<1>4. Last(Naming(n, doc[n].prop)) = n
  <2>1. \A k \in Naming(n, doc[n].prop) :
          (\A l \in Naming(n, doc[n].prop) : l <= k) => k = n
    BY <1>0, <1>3
  <2>2. \A l \in Naming(n, doc[n].prop) : l <= n BY <1>0, <1>3
  <2> QED BY <1>3, <2>1, <2>2 DEF Last
<1>5. doc[n].prop \in Props
  <2>1. doc[n] \in Instruction BY DEF PatchTyped
  <2> QED BY <2>1 DEF Instruction
<1>6. \A p \in Props :
        After(n)[p] = IF p = doc[n].prop THEN doc[n].value ELSE After(n - 1)[p]
  <2> SUFFICES ASSUME NEW p \in Props
               PROVE  After(n)[p] = IF p = doc[n].prop THEN doc[n].value ELSE After(n - 1)[p]
    OBVIOUS
  <2>1. CASE p = doc[n].prop
    <3>1. Naming(n, p) # {} /\ Last(Naming(n, p)) = n BY <1>3, <1>4, <2>1
    <3>2. After(n)[p] = doc[n].value BY <3>1 DEF After
    <3> QED BY <2>1, <3>2
  <2>2. CASE p # doc[n].prop
    <3>1. Naming(n, p) = Naming(n - 1, p) BY <1>2, <2>2
    <3> QED BY <2>2, <3>1 DEF After
  <2> QED BY <2>1, <2>2
<1>7. After(n) = [p \in Props |-> After(n)[p]] BY DEF After
<1>8. DOMAIN After(n - 1) = Props BY DEF After
<1>9. [After(n - 1) EXCEPT ![doc[n].prop] = doc[n].value]
        = [p \in Props |-> IF p = doc[n].prop THEN doc[n].value ELSE After(n - 1)[p]]
  BY <1>5, <1>8
<1> QED BY <1>6, <1>7, <1>9

LEMMA InitPatch == PatchInit => PatchInv
<1> SUFFICES ASSUME PatchInit PROVE PatchInv OBVIOUS
<1>1. doc \in Seq(Instruction) /\ Len(doc) \in Nat
  BY PropPatchAssumption DEF PatchInit
<1>2. PatchTyped BY <1>1 DEF PatchInit, PatchTyped, PropValue
<1>3. Untouched BY DEF PatchInit, Untouched
<1> QED BY <1>2, <1>3 DEF PatchInit, PatchInv, AllOrNothing

\* The document and the properties there were stay; so does what they amount to.
LEMMA PatchKept ==
  ASSUME UNCHANGED patchParams
  PROVE  /\ doc' = doc /\ before' = before
         /\ \A n : After(n)' = After(n)
         /\ \A k : Replaced(k)' = Replaced(k)
<1>1. doc' = doc /\ before' = before BY DEF patchParams
<1>2. \A n, p : Naming(n, p)' = Naming(n, p) BY <1>1 DEF Naming
<1>3. \A n : After(n)' = After(n) BY <1>1, <1>2 DEF After
<1>4. \A k : Replaced(k)' = Replaced(k) BY <1>1, <1>3 DEF Replaced
<1> QED BY <1>1, <1>2, <1>3, <1>4

\* The steps before the first instruction is executed.
LEMMA PreparePatch ==
  ASSUME PatchInv, RefusePatch \/ Checkout \/ OpenPropdb \/ UseNullPropdb \/ Collect
  PROVE  PatchInv'
<1>t. /\ PatchTyped /\ Len(doc) \in Nat /\ After(0) = before
  BY AfterNone DEF PatchInv, PatchTyped
<1>1. /\ UNCHANGED patchParams /\ stored' = stored /\ rollback' = rollback /\ next' = next
  BY DEF RefusePatch, Checkout, OpenPropdb, UseNullPropdb, Collect
<1>2. doc' = doc /\ before' = before /\ \A n : After(n)' = After(n) BY <1>1, PatchKept
<1>3. Untouched /\ stored = before /\ place # "done"
  BY DEF PatchInv, RefusePatch, Checkout, OpenPropdb, UseNullPropdb, Collect, Untouched
<1>4. Untouched' BY <1>1, <1>2, <1>3 DEF Untouched
<1>5. /\ ctx_list' \in 0 .. Len(doc)
      /\ place' \in {"begin", "out", "collect", "done"}
      /\ place' = "begin" => ctx_list' = 0 /\ ~failure' /\ ~checkedout'
      /\ place' = "out" => ctx_list' = 0
      /\ place' \in {"begin", "out"} => ~propdb'
      /\ place' = "done" => ~propdb' /\ (checkedout' => response' = "crash")
      /\ place' = "done" /\ response' = "MULTI_STATUS" => ctx_list' = 0
  <2>1. CASE RefusePatch
    BY <1>t, <2>1 DEF PatchInv, RefusePatch, Done, resources, PatchTyped
  <2>2. CASE Checkout BY <1>t, <2>2 DEF PatchInv, Checkout, Done, PatchTyped
  <2>3. CASE OpenPropdb BY <1>t, <2>3 DEF PatchInv, OpenPropdb, Done, PatchTyped
  <2>4. CASE UseNullPropdb BY <1>t, <2>4 DEF PatchInv, UseNullPropdb, Done, PatchTyped
  <2>5. CASE Collect
    <3>1. place = "collect" /\ ctx_list < Len(doc) /\ ctx_list \in 0 .. Len(doc)
      BY <1>t, <2>5 DEF Collect, PatchTyped
    <3>2. CASE doc[ctx_list + 1].incomplete
      BY <2>5, <3>1, <3>2 DEF Collect, Done, CheckIn
    <3>3. CASE ~doc[ctx_list + 1].incomplete
      <4>1. ctx_list' = ctx_list + 1 /\ place' = "collect"
        BY <2>5, <3>1, <3>3 DEF Collect
      <4> QED BY <1>t, <3>1, <4>1
    <3> QED BY <3>2, <3>3
  <2> QED BY <2>1, <2>2, <2>3, <2>4, <2>5
<1>6. PatchTyped' BY <1>t, <1>1, <1>2, <1>5 DEF PatchTyped
<1>7. AllOrNothing'
  <2>1. After(ctx_list)' = After(ctx_list') BY <1>2 DEF After, Naming
  <2> QED BY <1>t, <1>1, <1>2, <1>3, <1>5, <2>1 DEF AllOrNothing
<1> QED BY <1>4, <1>5, <1>6, <1>7 DEF PatchInv

LEMMA StepStartExec ==
  ASSUME PatchInv, StartExec
  PROVE  PatchInv'
<1>t. /\ PatchTyped /\ Len(doc) \in Nat /\ After(0) = before
  BY AfterNone DEF PatchInv, PatchTyped
<1>1. /\ UNCHANGED patchParams /\ stored' = stored /\ rollback' = rollback
      /\ ctx_list' = ctx_list /\ failure' = failure /\ ctx_list = Len(doc)
      /\ Untouched
  BY DEF StartExec, PatchInv
<1>2. doc' = doc /\ before' = before /\ \A n : After(n)' = After(n) BY <1>1, PatchKept
<1>3. \A n : (Replaced(n))' = Replaced(n) BY <1>1, PatchKept
<1>4. CASE ~failure
  <2>1. next' = 1 /\ place' = "exec" BY <1>4 DEF StartExec, MayExecute
  <2>2. PatchTyped' BY <1>t, <1>1, <1>2, <2>1 DEF PatchTyped
  <2>3. Executing'
    <3>1. After(next - 1)' = After(0)' BY <2>1 DEF After, Naming
    <3>2. stored' = After(next - 1)' BY <1>t, <1>1, <1>2, <3>1 DEF Untouched
    <3>3. \A k \in next' .. ctx_list' : rollback'[k] = NotRun
      BY <1>t, <1>1, <2>1 DEF Untouched
    <3>4. \A k \in 1 .. next' - 1 : rollback'[k] = Replaced(k)' /\ rollback'[k] # NotRun
      BY <2>1
    <3> QED BY <1>t, <1>1, <1>2, <1>4, <2>1, <3>2, <3>3, <3>4 DEF Executing
  <2> QED BY <2>1, <2>2, <2>3 DEF PatchInv, AllOrNothing
<1>5. CASE failure
  <2>1. next' = ctx_list /\ place' = "rollback" BY <1>5 DEF StartExec, MayExecute
  <2>2. PatchTyped' BY <1>t, <1>1, <1>2, <2>1 DEF PatchTyped
  <2>3. RolledBackFrom(0)'
    <3>1. (After(IF next < 0 THEN next ELSE 0))' = before BY <1>t, <1>1, <1>2, <2>1
    <3>2. (stored = After(IF next < 0 THEN next ELSE 0))' BY <1>1, <3>1 DEF Untouched
    <3>3. \A k \in 0 + 1 .. ctx_list' : rollback'[k] = NotRun
      BY <1>t, <1>1 DEF Untouched
    <3>4. (\A k \in 1 .. 0 : rollback[k] = Replaced(k) /\ rollback[k] # NotRun)' OBVIOUS
    <3> QED BY <3>2, <3>3, <3>4 DEF RolledBackFrom
  <2>4. 0 \in 0 .. ctx_list' /\ next' \in 0 .. ctx_list' /\ failure' BY <1>t, <1>1, <1>5, <2>1
  <2>5. RollingBack' BY <2>3, <2>4 DEF RollingBack
  <2> QED BY <2>1, <2>2, <2>5 DEF PatchInv, AllOrNothing
<1> QED BY <1>4, <1>5

LEMMA StepExec ==
  ASSUME PatchInv, Exec
  PROVE  PatchInv'
<1>t. PatchTyped /\ Len(doc) \in Nat /\ Executing
  BY DEF PatchInv, PatchTyped, Exec
<1>1. /\ UNCHANGED patchParams /\ ctx_list' = ctx_list /\ next \in 1 .. Len(doc)
      /\ rollback' = [rollback EXCEPT ![next] = stored[doc[next].prop]]
      /\ DOMAIN doc = 1 .. Len(doc) /\ ctx_list = Len(doc)
  BY <1>t DEF Exec, Executing, PatchTyped
<1>2. doc' = doc /\ before' = before /\ \A n : After(n)' = After(n) BY <1>1, PatchKept
<1>3. \A n : (Replaced(n))' = Replaced(n) BY <1>1, PatchKept
<1>4. doc[next] \in Instruction BY <1>1 DEF PatchTyped, PatchInv
<1>5. stored[doc[next].prop] = Replaced(next) /\ stored[doc[next].prop] \in PropValue
  BY <1>t, <1>1, <1>4 DEF Executing, Replaced, PatchTyped, Instruction
<1>6. rollback' \in [DOMAIN doc -> PropValue \cup {NotRun}]
  BY <1>t, <1>1, <1>5 DEF PatchTyped
<1>7. /\ rollback'[next] = Replaced(next) /\ rollback'[next] # NotRun
      /\ \A k \in 1 .. next - 1 : rollback'[k] = Replaced(k) /\ rollback'[k] # NotRun
      /\ \A k \in next + 1 .. ctx_list : rollback'[k] = NotRun
  <2>1. stored[doc[next].prop] # NotRun BY <1>5, PropPatchAssumption DEF PropValue
  <2> QED BY <1>t, <1>1, <1>5, <2>1 DEF Executing, PatchTyped
<1>8. CASE /\ stored' = [stored EXCEPT ![doc[next].prop] = doc[next].value]
           /\ next' = next + 1 /\ UNCHANGED <<place, failure>>
  <2>1. stored' \in [Props -> PropValue]
    BY <1>t, <1>4, <1>8 DEF PatchTyped, Instruction, PropValue
  <2>2. PatchTyped' BY <1>t, <1>1, <1>2, <1>6, <1>8, <2>1 DEF PatchTyped
  <2>3. stored' = After(next) BY <1>t, <1>1, <1>8, AfterOne DEF Executing
  <2>4. After(next' - 1) = After(next) BY <1>1, <1>8
  <2>5. (stored = After(next - 1))' BY <1>2, <2>3, <2>4
  <2>6. \A k \in 1 .. next' - 1 : rollback'[k] = Replaced(k)' /\ rollback'[k] # NotRun
    BY <1>1, <1>3, <1>7, <1>8
  <2>7. \A k \in next' .. ctx_list' : rollback'[k] = NotRun BY <1>1, <1>7, <1>8
  <2>8. Executing' BY <1>t, <1>1, <1>2, <1>8, <2>5, <2>6, <2>7 DEF Executing
  <2>9. place' = "exec" BY <1>8 DEF Exec
  <2> QED BY <2>2, <2>8, <2>9 DEF PatchInv, AllOrNothing
<1>9. CASE failure' = TRUE /\ place' = "rollback" /\ next' = ctx_list /\ UNCHANGED stored
  <2>1. PatchTyped' BY <1>t, <1>1, <1>2, <1>6, <1>9 DEF PatchTyped
  <2>2. PICK d \in 0 .. ctx_list : d = next - 1 BY <1>1
  <2>3. RolledBackFrom(d)'
    <3>1. (IF next < d THEN next ELSE d)' = d BY <1>1, <1>9, <2>2
    <3>2. stored = After(d) BY <1>t, <2>2 DEF Executing
    <3>3. (stored = After(IF next < d THEN next ELSE d))' BY <1>2, <1>9, <3>1, <3>2
    <3>4. \A k \in 1 .. d : rollback'[k] = Replaced(k)' /\ rollback'[k] # NotRun
      BY <1>3, <1>7, <2>2
    <3>5. \A k \in d + 1 .. ctx_list' :
            rollback'[k] = NotRun \/ (k = d + 1 /\ rollback'[k] = Replaced(k)')
      <4> SUFFICES ASSUME NEW k \in d + 1 .. ctx_list
                   PROVE  \/ rollback'[k] = NotRun
                          \/ k = d + 1 /\ rollback'[k] = Replaced(k)'
        BY <1>1
      <4>1. k = next \/ k \in next + 1 .. ctx_list BY <1>1, <2>2
      <4> QED BY <1>3, <1>7, <2>2, <4>1
    <3> QED BY <3>3, <3>4, <3>5 DEF RolledBackFrom
  <2>4. RollingBack' BY <1>1, <1>9, <2>2, <2>3 DEF RollingBack
  <2> QED BY <1>9, <2>1, <2>4 DEF PatchInv, AllOrNothing
<1> QED BY <1>8, <1>9 DEF Exec

LEMMA StepRollback ==
  ASSUME PatchInv, Rollback
  PROVE  PatchInv'
<1>t. PatchTyped /\ Len(doc) \in Nat /\ RollingBack
  BY DEF PatchInv, PatchTyped, Rollback
<1>1. /\ UNCHANGED patchParams /\ UNCHANGED <<place, ctx_list, rollback, failure>>
      /\ next \in 1 .. ctx_list /\ ctx_list \in 0 .. Len(doc) /\ next' = next - 1
      /\ DOMAIN doc = 1 .. Len(doc) /\ place = "rollback" /\ failure
      /\ stored' = IF rollback[next] = NotRun THEN stored
                   ELSE [stored EXCEPT ![doc[next].prop] = rollback[next]]
  BY <1>t DEF Rollback, RollingBack, RolledBackNext, RolledBack, PatchTyped
<1>2. doc' = doc /\ before' = before /\ \A n : After(n)' = After(n) BY <1>1, PatchKept
<1>3. \A n : (Replaced(n))' = Replaced(n) BY <1>1, PatchKept
<1>4. doc[next] \in Instruction /\ rollback[next] \in PropValue \cup {NotRun}
  BY <1>1, <1>t DEF PatchTyped
<1>5. stored' \in [Props -> PropValue]
  BY <1>t, <1>1, <1>4 DEF PatchTyped, Instruction
<1>6. PatchTyped' BY <1>t, <1>1, <1>2, <1>5 DEF PatchTyped
<1>7. PICK d \in 0 .. ctx_list : RolledBackFrom(d) BY <1>t DEF RollingBack
<1>8. stored' = After(IF next - 1 < d THEN next - 1 ELSE d)
  <2>1. CASE next \in d + 2 .. ctx_list
    <3>1. rollback[next] = NotRun BY <1>7, <2>1, <1>1 DEF RolledBackFrom
    <3>2. stored = After(d) BY <1>7, <2>1 DEF RolledBackFrom
    <3> QED BY <1>1, <2>1, <3>1, <3>2
  <2>2. CASE next = d + 1
    <3>1. stored = After(d) /\ d = next - 1 BY <1>7, <2>2 DEF RolledBackFrom
    <3>2. rollback[next] = NotRun \/ rollback[next] = Replaced(next)
      BY <1>1, <1>7, <2>2 DEF RolledBackFrom
    <3>3. Replaced(next) = stored[doc[next].prop] BY <3>1 DEF Replaced
    <3>4. stored' = stored
      BY <1>t, <1>1, <1>4, <3>2, <3>3 DEF PatchTyped, Instruction
    <3> QED BY <1>1, <2>2, <3>1, <3>4
  <2>3. CASE next \in 1 .. d
    <3>1. stored = After(next) /\ rollback[next] = Replaced(next) /\ rollback[next] # NotRun
      <4>1. (IF next < d THEN next ELSE d) = next BY <2>3
      <4> QED BY <1>7, <2>3, <4>1 DEF RolledBackFrom
    <3>2. Replaced(next) = After(next - 1)[doc[next].prop] BY DEF Replaced
    <3>3. stored = [After(next - 1) EXCEPT ![doc[next].prop] = doc[next].value]
      BY <1>t, <1>1, <3>1, AfterOne
    <3>4. DOMAIN After(next - 1) = Props BY DEF After
    <3>5. After(next - 1) = [p \in Props |-> After(next - 1)[p]] BY DEF After
    <3>6. stored' = After(next - 1)
      <4>1. stored' = [stored EXCEPT ![doc[next].prop] = After(next - 1)[doc[next].prop]]
        BY <1>1, <3>1, <3>2
      <4>2. doc[next].prop \in Props BY <1>4 DEF Instruction
      <4>3. stored' = [p \in Props |-> After(next - 1)[p]]
        <5> HIDE DEF After
        <5> QED BY <3>3, <3>4, <4>1, <4>2
      <4> QED BY <3>5, <4>3
    <3>8. (IF next - 1 < d THEN next - 1 ELSE d) = next - 1 BY <1>1, <2>3
    <3> QED BY <3>6, <3>8
  <2> QED BY <1>1, <2>1, <2>2, <2>3
<1>9. RolledBackFrom(d)'
  <2>1. (IF next < d THEN next ELSE d)' = IF next - 1 < d THEN next - 1 ELSE d BY <1>1
  <2>2. (stored = After(IF next < d THEN next ELSE d))' BY <1>2, <1>8, <2>1
  <2>3. \A k \in 1 .. d : rollback'[k] = Replaced(k)' /\ rollback'[k] # NotRun
    BY <1>1, <1>3, <1>7 DEF RolledBackFrom
  <2>4. \A k \in d + 1 .. ctx_list' :
          rollback'[k] = NotRun \/ (k = d + 1 /\ rollback'[k] = Replaced(k)')
    BY <1>1, <1>3, <1>7 DEF RolledBackFrom
  <2> QED BY <2>2, <2>3, <2>4 DEF RolledBackFrom
<1>10. RollingBack' BY <1>1, <1>9 DEF RollingBack
<1> QED BY <1>1, <1>6, <1>10 DEF PatchInv, AllOrNothing

LEMMA StepClose ==
  ASSUME PatchInv, Close
  PROVE  PatchInv'
<1>t. PatchTyped /\ Len(doc) \in Nat
  BY DEF PatchInv, PatchTyped
<1>1. /\ UNCHANGED patchParams /\ UNCHANGED <<stored, ctx_list, rollback, failure, next>>
      /\ place' = "done" /\ ~propdb' /\ ~checkedout'
      /\ response' = IF failure THEN "failed" ELSE "MULTI_STATUS"
  BY DEF Close, Done
<1>2. doc' = doc /\ before' = before /\ \A n : After(n)' = After(n) BY <1>1, PatchKept
<1>3. PatchTyped' BY <1>t, <1>1, <1>2 DEF PatchTyped
<1>4. CASE place = "exec" /\ next > ctx_list
  <2>1. /\ ~failure /\ next = ctx_list + 1 /\ ctx_list \in Nat /\ stored = After(next - 1)
    BY <1>4, <1>t DEF PatchInv, Executing
  <2>2. stored' = After(ctx_list) BY <1>1, <2>1
  <2>3. (stored = After(ctx_list))' BY <1>1, <1>2, <2>2
  <2> QED BY <1>1, <1>3, <2>1, <2>3 DEF PatchInv, AllOrNothing
<1>5. CASE place = "rollback" /\ next = 0
  <2>1. failure /\ \E d \in 0 .. ctx_list : RolledBackFrom(d)
    BY <1>5 DEF PatchInv, RollingBack
  <2>2. PICK d \in 0 .. ctx_list : RolledBackFrom(d) BY <2>1
  <2>3. (IF next < d THEN next ELSE d) = 0 BY <1>5, <2>2
  <2>4. stored = before BY <1>t, <2>2, <2>3, AfterNone DEF RolledBackFrom
  <2>5. response' = "failed" /\ stored' = before' BY <1>1, <1>2, <2>1, <2>4
  <2> QED BY <1>1, <1>3, <2>5 DEF PatchInv, AllOrNothing
<1> QED BY <1>4, <1>5 DEF Close

\* A PROPPATCH of any document ends with every instruction carried out in order, or with
\* the properties there were, whichever instruction fails and however often one property
\* is named; and on every exit the database is closed (241_safe.c:83-99).
THEOREM PatchedWholeOrNot == PatchSpec => []AllOrNothing
<1>1. PatchInv /\ [PatchNext]_patchVars => PatchInv'
  <2> SUFFICES ASSUME PatchInv, [PatchNext]_patchVars PROVE PatchInv' OBVIOUS
  <2>1. CASE UNCHANGED patchVars
    <3>1. /\ UNCHANGED <<stored, place, ctx_list, rollback, failure, next, propdb, checkedout>>
          /\ response' = response /\ UNCHANGED patchParams
      BY <2>1 DEF patchVars, resources
    <3>2. doc' = doc /\ before' = before BY <3>1, PatchKept
    <3>3. /\ Untouched' = Untouched /\ PatchTyped' = PatchTyped /\ Executing' = Executing
          /\ RollingBack' = RollingBack /\ AllOrNothing' = AllOrNothing
      BY <3>1, <3>2 DEF Untouched, PatchTyped, Executing, RollingBack, RolledBackFrom,
         AllOrNothing, Replaced, After, Naming
    <3> QED BY <3>1, <3>3 DEF PatchInv
  <2> QED BY <2>1, PreparePatch, StepStartExec, StepExec, StepRollback, StepClose DEF PatchNext
<1>2. PatchInv => AllOrNothing BY DEF PatchInv
<1> QED BY <1>1, <1>2, InitPatch, PTL DEF PatchSpec
-----------------------------------------------------------------------------
(* COPY, MOVE and DELETE *)

Stages ==
  {"begin", "validated", "opened", "source out", "dest out", "removed", "transferred", "dest in",
   "unlocked", "parent out", "deleted", "done"}

MethodsTyped ==
  /\ served_by \in [Requests -> KnownVersions]
  /\ is_move \in [Requests -> BOOLEAN] /\ overwrite \in [Requests -> BOOLEAN]
  /\ resource \in [Requests -> Resources] /\ resnew \in [Requests -> Resources]
  /\ resnew_exists \in [Requests -> BOOLEAN] /\ replace_dest \in [Requests -> BOOLEAN]
  /\ at \in [Requests -> Stages]
  /\ lockdb \in [Requests -> {"closed", "open", "none"}]
  /\ src_av_info \in [Requests -> Collections \cup {NoCollection}]
  /\ dst_av_info \in [Requests -> Collections \cup {NoCollection}]
  /\ failed \in [Requests -> BOOLEAN]
  /\ out \subseteq Collections /\ checkedin \subseteq Requests

\* What a request holds at which stage, and what it may still do to the destination.
Holding(r) ==
  /\ lockdb[r] = "open" =>
       at[r] \in {"opened", "source out", "dest out", "removed", "transferred", "dest in"}
  /\ src_av_info[r] # NoCollection =>
       at[r] \in {"source out", "dest out", "removed", "transferred", "dest in", "parent out",
                  "deleted"}
  /\ dst_av_info[r] # NoCollection => at[r] \in {"dest out", "removed", "transferred"}
  /\ r \in checkedin => at[r] \in {"dest in", "done"} /\ ~failed[r]
  /\ replace_dest[r] => resnew_exists[r] /\ at[r] # "begin"
  /\ at[r] \in {"unlocked", "parent out", "deleted"} => ~served_by[r].copymove
  /\ "exists" \in served_by[r].refuses /\ ~overwrite[r] => ~resnew_exists[r]

\* Every collection that is out has one request that will check it in.
Own(r) == {src_av_info[r], dst_av_info[r]} \ {NoCollection}
OutInv ==
  /\ \A r \in Requests : src_av_info[r] = dst_av_info[r] => src_av_info[r] = NoCollection
  /\ \A r \in Requests : Own(r) \subseteq out
  /\ \A c \in out : \E r \in Requests : c \in Own(r)
  /\ \A r, q \in Requests : r # q => Own(r) \cap Own(q) = {}

MethodsInv ==
  /\ MethodsTyped
  /\ \A r \in Requests : Holding(r)
  /\ ChecksOut => OutInv

LEMMA CopiesKnown ==
  ASSUME MethodsTyped, NEW r \in Requests
  PROVE  "exists" \in served_by[r].refuses => served_by[r].copymove
<1>1. served_by[r] \in KnownVersions BY DEF MethodsTyped
<1>2. Version_387.copymove /\ Version_413.copymove BY DEF Version_387, Version_413
<1>3. "exists" \notin Version_384.refuses BY DEF Version_384, DeleteReasons
<1>4. Version_403.refuses \subseteq Version_384.refuses BY DEF Version_403, Version_384
<1>5. Version_440.refuses = Version_403.refuses BY DEF Version_440, Version_403, Version_384
<1> QED BY <1>1, <1>2, <1>3, <1>4, <1>5 DEF KnownVersions, Version_242, Version_453, Version_238

LEMMA InitMethods == MethodsInit => MethodsInv
<1> SUFFICES ASSUME MethodsInit PROVE MethodsInv OBVIOUS
<1>1. MethodsTyped BY DEF MethodsInit, MethodsTyped, Stages
<1>2. \A r \in Requests : Holding(r) BY DEF MethodsInit, Holding
<1>3. OutInv BY DEF MethodsInit, OutInv, Own
<1> QED BY <1>1, <1>2, <1>3 DEF MethodsInv

\* Where a request changes no more than its own share of what is out.
LEMMA OutKept ==
  ASSUME OutInv, NEW r \in Requests,
         \A q \in Requests : q # r => /\ src_av_info'[q] = src_av_info[q]
                                      /\ dst_av_info'[q] = dst_av_info[q],
         src_av_info'[r] = dst_av_info'[r] => src_av_info'[r] = NoCollection,
         Own(r)' \subseteq out', out' \ Own(r)' = out \ Own(r)
  PROVE  OutInv'
<1>1. \A q \in Requests : q # r => Own(q)' = Own(q) BY DEF Own
<1>2. \A q \in Requests : q # r => Own(q) \subseteq out \ Own(r) BY DEF OutInv
<1>3. \A q \in Requests : src_av_info'[q] = dst_av_info'[q] => src_av_info'[q] = NoCollection
  BY DEF OutInv
<1>4. \A q \in Requests : Own(q)' \subseteq out' BY <1>1, <1>2
<1>5. \A c \in out' : \E q \in Requests : c \in Own(q)'
  <2> SUFFICES ASSUME NEW c \in out', c \notin Own(r)' PROVE \E q \in Requests : c \in Own(q)'
    OBVIOUS
  <2>1. c \in out /\ c \notin Own(r) OBVIOUS
  <2>2. PICK q \in Requests : c \in Own(q) BY <2>1 DEF OutInv
  <2> QED BY <1>1, <2>1, <2>2
<1>6. \A p, q \in Requests : p # q => Own(p)' \cap Own(q)' = {}
  BY <1>1, <1>2 DEF OutInv
<1> QED BY <1>3, <1>4, <1>5, <1>6 DEF OutInv

\* A checkout, as the source's collection or the destination's.
LEMMA TakeSource ==
  ASSUME MethodsTyped, OutInv, NEW r \in Requests, src_av_info[r] = NoCollection,
         NEW c \in Collections, src_av_info' = [src_av_info EXCEPT ![r] = Takes(c)],
         out' = out \cup {c}, dst_av_info' = dst_av_info
  PROVE  OutInv'
<1>0. NoCollection \notin Collections /\ out \subseteq Collections
  BY MethodsAssumption DEF MethodsTyped
<1>1. src_av_info'[r] = Takes(c) /\ \A q \in Requests : q # r => src_av_info'[q] = src_av_info[q]
  BY DEF MethodsTyped
<1>2. Own(r) \subseteq out BY DEF OutInv
<1>3. CASE c \in out
  <2>1. Own(r)' = Own(r) /\ out' = out BY <1>1, <1>3 DEF Own, Takes
  <2> QED BY <1>1, <1>2, <1>3, <2>1, OutKept DEF Takes
<1>4. CASE c \notin out
  <2>1. Own(r)' = Own(r) \cup {c} BY <1>0, <1>1, <1>4 DEF Own, Takes
  <2>2. dst_av_info[r] # c BY <1>0, <1>2, <1>4 DEF Own
  <2> QED BY <1>1, <1>2, <1>4, <2>1, <2>2, OutKept DEF Takes
<1> QED BY <1>3, <1>4

LEMMA TakeDest ==
  ASSUME MethodsTyped, OutInv, NEW r \in Requests, dst_av_info[r] = NoCollection,
         NEW c \in Collections, dst_av_info' = [dst_av_info EXCEPT ![r] = Takes(c)],
         out' = out \cup {c}, src_av_info' = src_av_info
  PROVE  OutInv'
<1>0. NoCollection \notin Collections /\ out \subseteq Collections
  BY MethodsAssumption DEF MethodsTyped
<1>1. dst_av_info'[r] = Takes(c) /\ \A q \in Requests : q # r => dst_av_info'[q] = dst_av_info[q]
  BY DEF MethodsTyped
<1>2. Own(r) \subseteq out BY DEF OutInv
<1>3. CASE c \in out
  <2>1. Own(r)' = Own(r) /\ out' = out BY <1>1, <1>3 DEF Own, Takes
  <2> QED BY <1>1, <1>2, <1>3, <2>1, OutKept DEF Takes
<1>4. CASE c \notin out
  <2>1. Own(r)' = Own(r) \cup {c} BY <1>0, <1>1, <1>4 DEF Own, Takes
  <2>2. src_av_info[r] # c BY <1>0, <1>2, <1>4 DEF Own
  <2> QED BY <1>1, <1>2, <1>4, <2>1, <2>2, OutKept DEF Takes
<1> QED BY <1>3, <1>4

\* A check-in gives back what the request had, and only that.
LEMMA GiveSource ==
  ASSUME MethodsTyped, OutInv, NEW r \in Requests,
         src_av_info' = [src_av_info EXCEPT ![r] = NoCollection],
         out' = out \ {src_av_info[r]}, dst_av_info' = dst_av_info
  PROVE  OutInv'
<1>0. NoCollection \notin out BY MethodsAssumption DEF MethodsTyped
<1>1. /\ src_av_info'[r] = NoCollection
      /\ \A q \in Requests : q # r => src_av_info'[q] = src_av_info[q]
  BY DEF MethodsTyped
<1>2. Own(r) \subseteq out /\ (src_av_info[r] = dst_av_info[r] => src_av_info[r] = NoCollection)
  BY DEF OutInv
<1>3. Own(r)' = Own(r) \ {src_av_info[r]} BY <1>1, <1>2 DEF Own
<1> QED BY <1>0, <1>1, <1>2, <1>3, OutKept DEF Own

LEMMA GiveDest ==
  ASSUME MethodsTyped, OutInv, NEW r \in Requests,
         dst_av_info' = [dst_av_info EXCEPT ![r] = NoCollection],
         out' = out \ {dst_av_info[r]}, src_av_info' = src_av_info
  PROVE  OutInv'
<1>0. NoCollection \notin out BY MethodsAssumption DEF MethodsTyped
<1>1. /\ dst_av_info'[r] = NoCollection
      /\ \A q \in Requests : q # r => dst_av_info'[q] = dst_av_info[q]
  BY DEF MethodsTyped
<1>2. Own(r) \subseteq out /\ (src_av_info[r] = dst_av_info[r] => src_av_info[r] = NoCollection)
  BY DEF OutInv
<1>3. Own(r)' = Own(r) \ {dst_av_info[r]} BY <1>1, <1>2 DEF Own
<1> QED BY <1>0, <1>1, <1>2, <1>3, OutKept DEF Own

\* Each collection that is out is checked in by its one owner; so every one is.
LEMMA InvGivesBack == MethodsInv => GivenBack
<1> SUFFICES ASSUME MethodsInv PROVE GivenBack OBVIOUS
<1>1. \A r \in Requests : at[r] = "done" => lockdb[r] # "open" BY DEF MethodsInv, Holding
<1>2. \A r \in checkedin : ~failed[r] BY DEF MethodsInv, MethodsTyped, Holding
<1>3. ASSUME ChecksOut, NEW c \in Collections
      PROVE  Cardinality(Owners(c)) = IF c \in out THEN 1 ELSE 0
  <2>1. OutInv /\ c # NoCollection BY <1>3, MethodsAssumption DEF MethodsInv
  <2>2. Owners(c) = {r \in Requests : c \in Own(r)}
    BY <2>1 DEF Owners, Own, MethodsInv, Holding
  <2>3. CASE c \in out
    <3>1. PICK r \in Requests : c \in Own(r) BY <2>1, <2>3 DEF OutInv
    <3>2. \A q \in Requests : c \in Own(q) => q = r BY <2>1, <3>1 DEF OutInv
    <3>3. Owners(c) = {r} BY <2>2, <3>1, <3>2
    <3> QED BY <2>3, <3>3, FS_Singleton
  <2>4. CASE c \notin out
    <3>1. Owners(c) = {} BY <2>1, <2>2, <2>4 DEF OutInv
    <3> QED BY <2>4, <3>1, FS_EmptySet
  <2> QED BY <2>3, <2>4
<1> QED BY <1>1, <1>2, <1>3 DEF GivenBack

\* The others go on as they were.
LEMMA OthersHold ==
  ASSUME MethodsInv, UNCHANGED params, NEW r \in Requests, checkedin' \subseteq checkedin \cup {r},
         \A q \in Requests : q # r =>
           /\ at'[q] = at[q] /\ lockdb'[q] = lockdb[q] /\ failed'[q] = failed[q]
           /\ src_av_info'[q] = src_av_info[q] /\ dst_av_info'[q] = dst_av_info[q]
           /\ replace_dest'[q] = replace_dest[q] /\ resnew_exists'[q] = resnew_exists[q],
         Holding(r)'
  PROVE  \A q \in Requests : Holding(q)'
<1>1. served_by' = served_by /\ overwrite' = overwrite BY DEF params
<1>2. \A q \in Requests : q # r => Holding(q)' BY <1>1 DEF MethodsInv, Holding
<1> QED BY <1>2

LEMMA StepBegin ==
  ASSUME MethodsInv, NEW r \in Requests,
         \/ RefuseMethod(r) \/ Validated(r) \/ OpenFails(r) \/ OpenLockdb(r)
         \/ Unlock(r) \/ RemoveDest(r) \/ Transfer(r) \/ Remove(r)
  PROVE  MethodsInv'
<1>t. MethodsTyped /\ Holding(r) BY DEF MethodsInv
<1>p. /\ UNCHANGED params
      /\ UNCHANGED <<out, src_av_info, dst_av_info, replace_dest, checkedin>>
  BY DEF RefuseMethod, Validated, OpenFails, OpenLockdb, Unlock, RemoveDest, Transfer, Remove
<1>1. /\ at' \in [Requests -> Stages] /\ lockdb' \in [Requests -> {"closed", "open", "none"}]
      /\ failed' \in [Requests -> BOOLEAN] /\ resnew_exists' \in [Requests -> BOOLEAN]
  <2>1. \E to \in Stages : Go(r, to)
    BY DEF RefuseMethod, Validated, OpenFails, OpenLockdb, Unlock, RemoveDest, Transfer, Remove,
       Stages
  <2>2. at' \in [Requests -> Stages] BY <1>t, <2>1 DEF Go, MethodsTyped
  <2>3. lockdb' \in [Requests -> {"closed", "open", "none"}]
    BY <1>t DEF RefuseMethod, Validated, OpenFails, OpenLockdb, Unlock, RemoveDest, Transfer, Remove,
       MethodsTyped
  <2>4. failed' \in {failed, [failed EXCEPT ![r] = TRUE]}
    BY DEF RefuseMethod, Validated, OpenFails, OpenLockdb, Unlock, RemoveDest, Transfer, Remove
  <2>5. resnew_exists' \in [Requests -> BOOLEAN]
    <3>1. CASE Validated(r)
      <4>1. PICK b \in BOOLEAN : b <=> resnew[r] \in exists OBVIOUS
      <4>2. resnew_exists' = [resnew_exists EXCEPT ![r] = b] BY <3>1, <4>1, Zenon DEF Validated
      <4> QED BY <1>t, <4>2 DEF MethodsTyped
    <3>2. CASE resnew_exists' = resnew_exists BY <1>t, <3>2 DEF MethodsTyped
    <3> QED BY <3>1, <3>2
        DEF RefuseMethod, OpenFails, OpenLockdb, Unlock, RemoveDest, Transfer, Remove
  <2> QED BY <1>t, <2>2, <2>3, <2>4, <2>5 DEF MethodsTyped
<1>2. MethodsTyped' BY <1>t, <1>p, <1>1 DEF MethodsTyped, params
<1>3. \A q \in Requests : q # r =>
           /\ at'[q] = at[q] /\ lockdb'[q] = lockdb[q] /\ failed'[q] = failed[q]
           /\ resnew_exists'[q] = resnew_exists[q]
  BY <1>t DEF RefuseMethod, Validated, OpenFails, OpenLockdb, Unlock, RemoveDest, Transfer, Remove,
     MethodsTyped, Go
<1>4. Holding(r)'
  <2>0. served_by' = served_by /\ overwrite' = overwrite /\ resnew' = resnew BY <1>p DEF params
  <2>1. CASE RefuseMethod(r)
    BY <1>t, <1>p, <2>0, <2>1 DEF RefuseMethod, Holding, MethodsTyped, At, Go
  <2>2. CASE Validated(r)
    <3>1. "exists" \in served_by[r].refuses /\ ~overwrite[r] => resnew[r] \notin exists
      BY <1>t, <2>2, CopiesKnown DEF Validated, Refused, WouldOverwrite
    <3>2. resnew_exists'[r] => resnew[r] \in exists BY <1>t, <2>2 DEF Validated, MethodsTyped
    <3>3. at'[r] = "validated" /\ at[r] = "begin" /\ UNCHANGED <<lockdb, failed>>
      BY <1>t, <2>2 DEF Validated, At, Go, MethodsTyped
    <3>4. ~replace_dest[r] BY <1>t, <3>3 DEF Holding
    <3> QED BY <1>t, <1>p, <2>0, <3>1, <3>2, <3>3, <3>4 DEF Holding
  <2>3. CASE OpenFails(r)
    BY <1>t, <1>p, <2>0, <2>3 DEF OpenFails, Holding, MethodsTyped, At, Go
  <2>4. CASE OpenLockdb(r)
    BY <1>t, <1>p, <2>0, <2>4 DEF OpenLockdb, Holding, MethodsTyped, At, Go
  <2>5. CASE Unlock(r)
    BY <1>t, <1>p, <2>0, <2>5 DEF Unlock, Holding, MethodsTyped, At, Go
  <2>6. CASE RemoveDest(r)
    BY <1>t, <1>p, <2>0, <2>6 DEF RemoveDest, Holding, MethodsTyped, At, Go
  <2>7. CASE Transfer(r)
    BY <1>t, <1>p, <2>0, <2>7 DEF Transfer, Holding, MethodsTyped, At, Go
  <2>8. CASE Remove(r)
    BY <1>t, <1>p, <2>0, <2>8 DEF Remove, Holding, MethodsTyped, At, Go
  <2> QED BY <2>1, <2>2, <2>3, <2>4, <2>5, <2>6, <2>7, <2>8
<1>5. \A q \in Requests : Holding(q)' BY <1>p, <1>3, <1>4, OthersHold
<1>6. ChecksOut' => OutInv' BY <1>p DEF ChecksOut, params, OutInv, Own, MethodsInv
<1> QED BY <1>2, <1>5, <1>6 DEF MethodsInv

LEMMA StepCheckoutSource ==
  ASSUME MethodsInv, NEW r \in Requests, CheckoutSource(r) \/ CheckoutParent(r)
  PROVE  MethodsInv'
<1>t. MethodsTyped /\ Holding(r) BY DEF MethodsInv
<1>p. /\ UNCHANGED params
      /\ UNCHANGED <<dst_av_info, replace_dest, resnew_exists, failed, checkedin>>
  BY DEF CheckoutSource, CheckoutParent
<1>c. Parent[resource[r]] \in Collections BY <1>t, MethodsAssumption DEF MethodsTyped
<1>1. /\ at' \in [Requests -> Stages] /\ lockdb' \in [Requests -> {"closed", "open", "none"}]
      /\ src_av_info' \in [Requests -> Collections \cup {NoCollection}]
      /\ out' \subseteq Collections
      /\ \A q \in Requests : q # r =>
           /\ at'[q] = at[q] /\ lockdb'[q] = lockdb[q] /\ src_av_info'[q] = src_av_info[q]
  BY <1>t, <1>c DEF CheckoutSource, CheckoutParent, MethodsTyped, Stages, Go, CloseIfOpen, Takes
<1>2. MethodsTyped' BY <1>t, <1>p, <1>1 DEF MethodsTyped, params
<1>3. Holding(r)'
  <2>0. served_by' = served_by /\ overwrite' = overwrite BY <1>p DEF params
  <2>1. CASE CheckoutSource(r)
    BY <1>t, <1>p, <2>0, <2>1 DEF CheckoutSource, Holding, MethodsTyped, At, Go, CloseIfOpen
  <2>2. CASE CheckoutParent(r)
    BY <1>t, <1>p, <2>0, <2>2 DEF CheckoutParent, Holding, MethodsTyped, At, Go
  <2> QED BY <2>1, <2>2
<1>4. \A q \in Requests : Holding(q)' BY <1>p, <1>1, <1>3, OthersHold
<1>5. ASSUME ChecksOut' PROVE OutInv'
  <2>1. OutInv BY <1>5, <1>p DEF ChecksOut, params, MethodsInv
  <2>2. src_av_info[r] = NoCollection
    BY <1>t DEF Holding, CheckoutSource, CheckoutParent, At
  <2>3. \/ UNCHANGED <<src_av_info, out>>
        \/ /\ src_av_info' = [src_av_info EXCEPT ![r] = Takes(Parent[resource[r]])]
           /\ out' = out \cup {Parent[resource[r]]}
    BY DEF CheckoutSource, CheckoutParent
  <2>4. CASE UNCHANGED <<src_av_info, out>> BY <1>p, <2>1, <2>4 DEF OutInv, Own
  <2> QED BY <1>c, <1>p, <1>t, <2>1, <2>2, <2>3, <2>4, TakeSource
<1> QED BY <1>2, <1>4, <1>5 DEF MethodsInv

LEMMA StepCheckoutDest ==
  ASSUME MethodsInv, NEW r \in Requests, CheckoutDest(r)
  PROVE  MethodsInv'
<1>t. MethodsTyped /\ Holding(r) BY DEF MethodsInv
<1>p. UNCHANGED params /\ UNCHANGED <<resnew_exists, failed>> /\ at[r] = "source out"
  BY DEF CheckoutDest, At
<1>c. Parent[resnew[r]] \in Collections BY <1>t, MethodsAssumption DEF MethodsTyped
<1>b. PICK b \in MustReplace(r) : replace_dest' = [replace_dest EXCEPT ![r] = b]
  BY DEF CheckoutDest
<1>d. b \in BOOLEAN /\ (b => resnew_exists[r]) BY <1>b DEF MustReplace
<1>e. checkedin' = checkedin BY DEF CheckoutDest, UndoSource, AutoCheckin
<1>1. \/ /\ Go(r, "dest out") /\ UNCHANGED <<src_av_info, lockdb>>
         /\ dst_av_info' = [dst_av_info EXCEPT ![r] = Takes(Parent[resnew[r]])]
         /\ out' = out \cup {Parent[resnew[r]]}
      \/ /\ Go(r, "done") /\ UNCHANGED dst_av_info /\ CloseIfOpen(r)
         /\ src_av_info' = [src_av_info EXCEPT ![r] = NoCollection]
         /\ out' = out \ {src_av_info[r]}
      \/ Go(r, "dest out") /\ UNCHANGED <<src_av_info, dst_av_info, out, lockdb>>
  BY DEF CheckoutDest, UndoSource, AutoCheckin, CloseLockdb
<1>2. /\ at' \in [Requests -> Stages] /\ lockdb' \in [Requests -> {"closed", "open", "none"}]
      /\ src_av_info' \in [Requests -> Collections \cup {NoCollection}]
      /\ dst_av_info' \in [Requests -> Collections \cup {NoCollection}]
      /\ replace_dest' \in [Requests -> BOOLEAN] /\ out' \subseteq Collections
      /\ \A q \in Requests : q # r =>
           /\ at'[q] = at[q] /\ lockdb'[q] = lockdb[q] /\ replace_dest'[q] = replace_dest[q]
           /\ src_av_info'[q] = src_av_info[q] /\ dst_av_info'[q] = dst_av_info[q]
  BY <1>t, <1>c, <1>b, <1>d, <1>1 DEF MethodsTyped, Stages, Go, CloseIfOpen, Takes
<1>3. MethodsTyped' BY <1>t, <1>p, <1>e, <1>2 DEF MethodsTyped, params
<1>4. Holding(r)'
  <2>0. served_by' = served_by /\ overwrite' = overwrite BY <1>p DEF params
  <2> QED BY <1>t, <1>p, <1>b, <1>d, <1>e, <1>1, <2>0 DEF Holding, MethodsTyped, Go, CloseIfOpen
<1>5. \A q \in Requests : Holding(q)' BY <1>p, <1>e, <1>2, <1>4, OthersHold
<1>6. ASSUME ChecksOut' PROVE OutInv'
  <2>1. OutInv BY <1>6, <1>p DEF ChecksOut, params, MethodsInv
  <2>2. dst_av_info[r] = NoCollection BY <1>t, <1>p DEF Holding
  <2>3. CASE UNCHANGED <<src_av_info, dst_av_info, out>> BY <2>1, <2>3 DEF OutInv, Own
  <2> QED BY <1>c, <1>t, <1>1, <2>1, <2>2, <2>3, TakeDest, GiveSource
<1> QED BY <1>3, <1>5, <1>6 DEF MethodsInv

LEMMA StepCheckin ==
  ASSUME MethodsInv, NEW r \in Requests,
         CheckinDest(r) \/ CheckinSource(r) \/ CheckinParent(r)
  PROVE  MethodsInv'
<1>t. MethodsTyped /\ Holding(r) BY DEF MethodsInv
<1>p. UNCHANGED params /\ UNCHANGED <<resnew_exists, replace_dest, failed>>
  BY DEF CheckinDest, CheckinSource, CheckinParent
<1>1. /\ checkedin' \in {checkedin, checkedin \cup {r}} /\ (failed[r] => checkedin' = checkedin)
      /\ out' \subseteq out
  BY DEF CheckinDest, CheckinSource, CheckinParent, AutoCheckin, UndoIfFailed
<1>2. /\ at' \in [Requests -> Stages] /\ lockdb' \in [Requests -> {"closed", "open", "none"}]
      /\ src_av_info' \in [Requests -> Collections \cup {NoCollection}]
      /\ dst_av_info' \in [Requests -> Collections \cup {NoCollection}]
      /\ \A q \in Requests : q # r =>
           /\ at'[q] = at[q] /\ lockdb'[q] = lockdb[q]
           /\ src_av_info'[q] = src_av_info[q] /\ dst_av_info'[q] = dst_av_info[q]
  BY <1>t DEF CheckinDest, CheckinSource, CheckinParent, ReleasedDest, MethodsTyped, Stages, Go,
     CloseLockdb, CloseIfOpen
<1>3. MethodsTyped' BY <1>t, <1>p, <1>1, <1>2 DEF MethodsTyped, params
<1>4. Holding(r)'
  <2>0. served_by' = served_by /\ overwrite' = overwrite BY <1>p DEF params
  <2>1. CASE CheckinDest(r)
    BY <1>t, <1>p, <1>1, <2>0, <2>1
       DEF CheckinDest, ReleasedDest, Holding, MethodsTyped, At, Go
  <2>2. CASE CheckinSource(r)
    BY <1>t, <1>p, <1>1, <2>0, <2>2
       DEF CheckinSource, Holding, MethodsTyped, At, Go, CloseLockdb, CloseIfOpen
  <2>3. CASE CheckinParent(r)
    BY <1>t, <1>p, <1>1, <2>0, <2>3 DEF CheckinParent, Holding, MethodsTyped, At, Go
  <2> QED BY <2>1, <2>2, <2>3
<1>5. \A q \in Requests : Holding(q)' BY <1>p, <1>1, <1>2, <1>4, OthersHold
<1>6. ASSUME ChecksOut' PROVE OutInv'
  <2>1. OutInv /\ ChecksOut BY <1>6, <1>p DEF ChecksOut, params, MethodsInv
  <2>2. Info(r) = {src_av_info[r]} BY <2>1 DEF ChecksOut, Info
  <2>3. CASE CheckinDest(r)
    BY <1>t, <2>1, <2>3, GiveDest DEF CheckinDest, ReleasedDest, AutoCheckin
  <2>4. CASE CheckinSource(r)
    BY <1>t, <2>1, <2>4, GiveSource DEF CheckinSource, AutoCheckin
  <2>5. CASE CheckinParent(r)
    BY <1>t, <2>1, <2>2, <2>5, GiveSource DEF CheckinParent, AutoCheckin
  <2> QED BY <2>3, <2>4, <2>5
<1> QED BY <1>3, <1>5, <1>6 DEF MethodsInv

LEMMA MethodsStep == MethodsInv /\ [MethodsNext]_methodVars => MethodsInv'
<1> SUFFICES ASSUME MethodsInv, [MethodsNext]_methodVars PROVE MethodsInv' OBVIOUS
<1>1. CASE UNCHANGED methodVars
  BY <1>1 DEF methodVars, params, local, MethodsInv, MethodsTyped, Holding, ChecksOut, OutInv, Own
<1>2. ASSUME NEW r \in Requests, Method(r) PROVE MethodsInv'
  BY <1>2, StepBegin, StepCheckoutSource, StepCheckoutDest, StepCheckin DEF Method
<1> QED BY <1>1, <1>2 DEF MethodsNext

\* What a request that may not overwrite leaves of what there is.
LEMMA TakesNothing ==
  ASSUME MethodsInv, NEW q \in Requests, Method(q), NEW r \in Requests, at'[r] # at[r],
         "exists" \in served_by[r].refuses, ~overwrite[r]
  PROVE  exists \ (IF is_move[r] THEN {resource[r]} ELSE {}) \subseteq exists'
<1>t. MethodsTyped /\ Holding(r) BY DEF MethodsInv
<1>1. q = r
  BY <1>t DEF MethodsTyped, Method, RefuseMethod, Validated, OpenFails, OpenLockdb, CheckoutSource,
     CheckoutDest, RemoveDest, Transfer, CheckinDest, CheckinSource, Unlock, CheckoutParent, Remove,
     CheckinParent, Go
<1>2. served_by[r].copymove /\ ~replace_dest[r] BY <1>t, CopiesKnown DEF Holding, MethodsTyped
<1>3. ~Remove(r) BY <1>t, <1>2 DEF Remove, At, Holding
<1>4. CASE exists' = exists BY <1>4
<1>5. CASE RemoveDest(r) BY <1>2, <1>5 DEF RemoveDest
<1>6. CASE Transfer(r) BY <1>6 DEF Transfer
<1>7. exists' = exists \/ RemoveDest(r) \/ Transfer(r) \/ Remove(r)
  BY <1>1 DEF Method, RefuseMethod, Validated, OpenFails, OpenLockdb, CheckoutSource,
     CheckoutDest, CheckinDest, CheckinSource, Unlock, CheckoutParent, CheckinParent
<1> QED BY <1>3, <1>4, <1>5, <1>6, <1>7

\* However requests interleave and whichever call fails, each collection that is checked
\* out has exactly one request that checks it in again, no lock database stays open, and
\* what must not be overwritten stays (387_1.c:107-240).
THEOREM MethodsLoseNothing == MethodsSpec => NothingLost
<1>1. MethodsInv /\ [MethodsNext]_methodVars =>
        [\A r \in Requests :
           "exists" \in served_by[r].refuses /\ ~overwrite[r] /\ at'[r] # at[r]
             => exists \ (IF is_move[r] THEN {resource[r]} ELSE {}) \subseteq exists']_methodVars
  BY TakesNothing DEF MethodsNext
<1> QED
  BY <1>1, InitMethods, MethodsStep, InvGivesBack, PTL DEF MethodsSpec, NothingLost, OverwriteRespected
=============================================================================
