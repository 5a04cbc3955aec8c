---------------------------- MODULE DavValidate -----------------------------
(***************************************************************************)
(* dav_validate_resource_state: may a request with this "If:" header touch *)
(* a resource with these locks?  The sources hold seventeen copies of the  *)
(* function; a version record says where a copy departs from the others.   *)
(* The loops over the header's lists and their conditions are the actions. *)
(*                                                                         *)
(* Abstracted: the URI of a list to whether it is this resource's (no URI, *)
(* or the same after the final slash went), an entity tag to whether it    *)
(* matches after a W/ went, the text of the errors.                        *)
(***************************************************************************)
EXTENDS Integers, Sequences, FiniteSets

CONSTANTS
  Versions,   \* the copies examined
  Tokens, Users,
  NoUser,     \* a lock made without authentication, or a request without
  Headers,    \* the "If:" headers: sequences of lists; <<>> for no header
  LockLists   \* the locks a resource may have: sequences of locks

Scopes == {"exclusive", "shared"}
Locks == [token : Tokens, scope : Scopes, user : Users \cup {NoUser}]

\* A condition: on the entity tag, a state token, or one of an unknown kind.
Conditions ==
  [type : {"etag"}, not : BOOLEAN, match : BOOLEAN]
    \cup [type : {"opaquelock"}, not : BOOLEAN, token : Tokens]
    \cup [type : {"unknown"}, not : BOOLEAN]
Lists == [applies : BOOLEAN, state : Seq(Conditions), dummy_header : BOOLEAN]

ASSUME DavAssumption ==
  /\ NoUser \notin Users
  /\ Headers \subseteq Seq(Lists)
  /\ LockLists \subseteq Seq(Locks)
-----------------------------------------------------------------------------
(* The copies.                                                             *)
(*   scope    refuses a lock that conflicts with one there is              *)
(*   locked   a resource with locks needs one of their tokens              *)
(*   etag     compares entity tags (or takes them to match)                *)
(*   inverted takes equal tokens to be different and others to be equal    *)
(*   user     refuses the token of another user's lock                     *)
(*   last     the answer when a list held but no token was seen            *)
(*   refuses  has answers other than OK at all                             *)
Version_866 == [scope |-> TRUE, locked |-> TRUE, etag |-> TRUE, inverted |-> FALSE,
                user |-> TRUE, last |-> "LOCKED", refuses |-> TRUE]
Version_791_safe == Version_866
Version_873_safe == Version_866
Version_843 == [Version_866 EXCEPT !.etag = FALSE]
Version_844 == [Version_866 EXCEPT !.user = FALSE]
Version_842 == [Version_866 EXCEPT !.locked = FALSE, !.last = "OK"]
Version_791 == [Version_844 EXCEPT !.last = "OK if locked"]
Version_873 == [Version_844 EXCEPT !.last = "OK"]
Version_921 == [Version_844 EXCEPT !.last = "OK"]
Version_867 == [Version_866 EXCEPT !.scope = FALSE, !.locked = FALSE]
Version_821 == Version_867
Version_876 == [Version_867 EXCEPT !.user = FALSE]
Version_875 == [Version_866 EXCEPT !.inverted = TRUE]
Version_820 == Version_875
Version_877 == [Version_876 EXCEPT !.refuses = FALSE]
Version_922 == Version_877
Version_924 == Version_877
-----------------------------------------------------------------------------
VARIABLES
  ver,       \* the copy
  if_header, lock_list, lockscope, is_parent, user, \* its parameters
  pc,        \* "begin", "scan", "states", "end", "done"
  ifhdr_scan, state_list, \* the list and the condition looked at, by index
  seen_locktoken, num_that_apply,
  answer

input == <<ver, if_header, lock_list, lockscope, is_parent, user>>
vars == <<input, pc, ifhdr_scan, state_list, seen_locktoken, num_that_apply, answer>>

\* DAV_LOCKSCOPE_EXCLUSIVE, DAV_LOCKSCOPE_SHARED or neither.
Init ==
  /\ ver \in Versions
  /\ if_header \in Headers
  /\ lock_list \in LockLists
  /\ lockscope \in Scopes \cup {"none"}
  /\ is_parent \in BOOLEAN
  /\ user \in Users \cup {NoUser}
  /\ pc = "begin"
  /\ ifhdr_scan = 1 /\ state_list = 1
  /\ seen_locktoken = FALSE
  /\ num_that_apply = 0
  /\ answer = "none"

dummy_header == if_header # <<>> /\ if_header[1].dummy_header
List == if_header[ifhdr_scan]
State == List.state[state_list]

Return(a) ==
  /\ pc' = "done"
  /\ answer' = a
  /\ UNCHANGED <<input, ifhdr_scan, state_list, seen_locktoken, num_that_apply>>

\* dav_find_submitted_locktoken: some list, whatever its URI and whether the
\* condition is negated or not, names the token of one of the locks.
dav_find_submitted_locktoken ==
  \E i \in DOMAIN if_header : \E j \in DOMAIN if_header[i].state :
    LET s == if_header[i].state[j] IN
    s.type = "opaquelock" /\ \E k \in DOMAIN lock_list : lock_list[k].token = s.token
-----------------------------------------------------------------------------
\* dav_lock_query fails.
QueryFails ==
  /\ pc = "begin"
  /\ Return(IF ver.refuses THEN "INTERNAL_SERVER_ERROR" ELSE "OK")

\* The copies that let everything through.
LetThrough == pc = "begin" /\ ~ver.refuses /\ Return("OK")

Exclusives == {k \in DOMAIN lock_list : lock_list[k].scope = "exclusive"}
Conflicts ==
  \/ lockscope = "exclusive" /\ lock_list # <<>>
  \/ lockscope = "shared" /\ Exclusives # {}

ScopeConflict ==
  /\ pc = "begin" /\ ver.refuses
  /\ ver.scope /\ Conflicts
  /\ Return("LOCKED")

SeenAtFirst == lockscope # "none" \/ ~ver.locked \/ lock_list = <<>>

\* The answers before the header is scanned, and the start of the scan.
Begin ==
  /\ pc = "begin" /\ ver.refuses
  /\ ~(ver.scope /\ Conflicts)
  /\ \/ /\ if_header = <<>>
        /\ Return(IF SeenAtFirst THEN "OK" ELSE "LOCKED")
     \/ /\ dummy_header /\ lock_list = <<>>
        /\ Return(IF is_parent THEN "OK" ELSE "BAD_REQUEST")
     \/ /\ if_header # <<>> /\ ~(dummy_header /\ lock_list = <<>>)
        /\ pc' = "scan"
        /\ seen_locktoken' = SeenAtFirst
        /\ UNCHANGED <<input, ifhdr_scan, state_list, num_that_apply, answer>>

ListAfter == ifhdr_scan + 1
NextList ==
  /\ pc' = "scan"
  /\ ifhdr_scan' = ListAfter
  /\ UNCHANGED <<input, state_list, num_that_apply, answer>>

SkipList ==
  /\ pc = "scan" /\ ifhdr_scan <= Len(if_header)
  /\ ~List.applies
  /\ NextList
  /\ UNCHANGED seen_locktoken

WhereItWas == state_list   \* mutant
FirstState == 1

EnterList ==
  /\ pc = "scan" /\ ifhdr_scan <= Len(if_header)
  /\ List.applies
  /\ num_that_apply' = num_that_apply + 1
  /\ state_list' = FirstState
  /\ pc' = "states"
  /\ UNCHANGED <<input, ifhdr_scan, seen_locktoken, answer>>

NextState ==
  /\ state_list' = state_list + 1
  /\ UNCHANGED <<input, pc, ifhdr_scan, num_that_apply, answer>>

\* goto state_list_failed, or on to the next condition.
PassOrFail(passes) == IF passes THEN NextState ELSE NextList

AtState(type) == pc = "states" /\ state_list <= Len(List.state) /\ State.type = type

EtagHolds == IF ver.etag THEN State.match # State.not ELSE ~State.not

EtagState ==
  /\ AtState("etag")
  /\ PassOrFail(EtagHolds)
  /\ UNCHANGED seen_locktoken

UnknownState ==
  /\ AtState("unknown")
  /\ PassOrFail(State.not)
  /\ UNCHANGED seen_locktoken

\* The lock the loop over lock_list stops at.
SameToken(l) == (lock_list[l].token = State.token) # ver.inverted
Matching == {l \in DOMAIN lock_list : SameToken(l)}
FirstMatching(l) == l \in Matching /\ \A k \in Matching : l <= k
Foreign(l) == ver.user /\ lock_list[l].user \notin {NoUser, user}

LockStateUnmatched ==
  /\ AtState("opaquelock")
  /\ Matching = {}
  /\ PassOrFail(State.not)
  /\ UNCHANGED seen_locktoken

LockStateMatched ==
  /\ AtState("opaquelock")
  /\ \E l \in DOMAIN lock_list : FirstMatching(l) /\ (State.not \/ ~Foreign(l))
  /\ seen_locktoken' = TRUE
  /\ PassOrFail(~State.not)

LockStateForeign ==
  /\ AtState("opaquelock") /\ ~State.not
  /\ \E l \in DOMAIN lock_list : FirstMatching(l) /\ Foreign(l)
  /\ Return("FORBIDDEN")

\* All conditions of a list hold.
AnyTokenWillDo == seen_locktoken \/ lock_list # <<>>   \* mutant
OnlySeen == seen_locktoken   \* mutant
MayPass == seen_locktoken \/ dav_find_submitted_locktoken

ListHolds ==
  /\ pc = "states" /\ state_list > Len(List.state)
  /\ Return(IF MayPass THEN "OK"
            ELSE IF dummy_header THEN "BAD_REQUEST"
            ELSE IF ver.last = "LOCKED" THEN "LOCKED"
            ELSE IF ver.last = "OK if locked" /\ lock_list = <<>> THEN "LOCKED"
            ELSE "OK")

\* No list held.
NoneApplies == pc = "scan" /\ ifhdr_scan > Len(if_header) /\ num_that_apply = 0
               /\ Return(IF MayPass THEN "OK" ELSE "LOCKED")
NoneHolds == pc = "scan" /\ ifhdr_scan > Len(if_header) /\ num_that_apply # 0
             /\ Return(IF dummy_header THEN "BAD_REQUEST" ELSE "PRECONDITION_FAILED")

Next ==
  \/ QueryFails \/ LetThrough \/ ScopeConflict \/ Begin \/ SkipList \/ EnterList
  \/ EtagState \/ UnknownState
  \/ LockStateUnmatched \/ LockStateMatched \/ LockStateForeign
  \/ ListHolds \/ NoneApplies \/ NoneHolds

Spec == Init /\ [][Next]_vars
-----------------------------------------------------------------------------
(* What the answer should be, from what the header says and not from the   *)
(* order of the loops.                                                     *)

HasLock(t) == \E k \in DOMAIN lock_list : lock_list[k].token = t
Holds(s) ==
  CASE s.type = "etag" -> s.match # s.not
    [] s.type = "opaquelock" -> HasLock(s.token) # s.not
    [] s.type = "unknown" -> s.not
\* (Should two locks have one token, the first of them counts.)
IsForeign(s) == /\ s.type = "opaquelock" /\ ~s.not
                /\ \E k \in DOMAIN lock_list :
                     /\ lock_list[k].token = s.token
                     /\ \A l \in 1 .. k - 1 : lock_list[l].token # s.token
                     /\ lock_list[k].user \notin {NoUser, user}

Applying == {i \in DOMAIN if_header : if_header[i].applies}
AllHold(i) == \A j \in DOMAIN if_header[i].state : Holds(if_header[i].state[j])
\* The list names another's lock before anything else is wrong with it.
NamesForeign(i) ==
  \E j \in DOMAIN if_header[i].state :
    /\ IsForeign(if_header[i].state[j])
    /\ \A k \in 1 .. j - 1 : Holds(if_header[i].state[k])
Decides(i) == /\ AllHold(i) \/ NamesForeign(i)
              /\ \A k \in Applying : k < i => ~AllHold(k) /\ ~NamesForeign(k)

\* What DAV:lockscope means: an exclusive lock tolerates no other lock.
Clash == lockscope # "none" /\ \E k \in DOMAIN lock_list :
           lockscope = "exclusive" \/ lock_list[k].scope = "exclusive"

Entitled == lock_list = <<>> \/ lockscope # "none" \/ dav_find_submitted_locktoken

Verdict ==
  IF Clash THEN "LOCKED"
  ELSE IF if_header = <<>> THEN IF Entitled THEN "OK" ELSE "LOCKED"
  ELSE IF dummy_header /\ lock_list = <<>> THEN IF is_parent THEN "OK" ELSE "BAD_REQUEST"
  ELSE IF Applying = {} THEN IF Entitled THEN "OK" ELSE "LOCKED"
  ELSE IF \E i \in Applying : Decides(i) /\ NamesForeign(i) THEN "FORBIDDEN"
  ELSE IF \A i \in Applying : ~AllHold(i)
       THEN IF dummy_header THEN "BAD_REQUEST" ELSE "PRECONDITION_FAILED"
  ELSE IF Entitled THEN "OK" ELSE IF dummy_header THEN "BAD_REQUEST" ELSE "LOCKED"
-----------------------------------------------------------------------------
TypeOK ==
  /\ lockscope \in Scopes \cup {"none"} /\ is_parent \in BOOLEAN
  /\ pc \in {"begin", "scan", "states", "done"}
  /\ ifhdr_scan \in 1 .. Len(if_header) + 1
  /\ state_list \in Nat \ {0}
  /\ pc = "states" => ifhdr_scan <= Len(if_header) /\ state_list <= Len(List.state) + 1
  /\ seen_locktoken \in BOOLEAN
  /\ num_that_apply \in Nat

\* In the copies that were not altered the two nested scans, with their early
\* returns, give the answer the header calls for: no order of lists or conditions
\* makes a difference it should not.
AnswersVerdict ==
  ver = Version_866 => answer \in {"none", "INTERNAL_SERVER_ERROR", Verdict}

\* The copies that ask for a token and look for it the right way round, the copies
\* that compare both kinds of condition, and those that look at the scope.
AsksForToken == ver.locked /\ ver.inverted = FALSE /\ ver.refuses /\ ver.last = "LOCKED"
Compares == ver.etag /\ ver.inverted = FALSE /\ ver.refuses
Tests == ver.scope /\ ver.refuses

\* A resource with locks is only touched by a request that submits the token of
\* one of them, or that asks for a lock itself.
LockedNeedsToken == AsksForToken /\ answer = "OK" => Entitled

\* A request that has lists for this resource passes because all conditions of one
\* of them hold.  (A Lock-Token header does not have to name the parent's lock.)
ConditionsHold ==
  Compares /\ answer = "OK" =>
    \/ Applying = {}
    \/ dummy_header /\ lock_list = <<>> /\ is_parent
    \/ \E i \in Applying : AllHold(i)

\* A lock is not granted beside one it conflicts with.
ScopeRespected == Tests /\ answer = "OK" => ~Clash
=============================================================================
