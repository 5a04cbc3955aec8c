------------------------------- MODULE MCDav -------------------------------
(* The check of a request against headers of one or two lists with up to   *)
(* two conditions; COPY, MOVE and DELETE of two requests on two resources   *)
(* in two collections; PROPPATCH with up to three instructions on two       *)
(* properties.  The modules share nothing: a behaviour is one of one of     *)
(* them, and the others rest at a single state meanwhile.                   *)
EXTENDS DavValidate, DavMethods, DavPropPatch, TLC

CONSTANTS
  t1, t2, anna, bert,
  r1, r2, res1, res2, col1, col2,
  prop1, prop2
-----------------------------------------------------------------------------
MCConditions ==
  {[type |-> "etag", not |-> n, match |-> FALSE] : n \in BOOLEAN}
    \cup {[type |-> "opaquelock", not |-> FALSE, token |-> t] : t \in {t1, t2}}
    \cup {[type |-> "opaquelock", not |-> TRUE, token |-> t1],
          [type |-> "unknown", not |-> FALSE]}
\* One of two lists is rich, and it is one for this resource; of a list for another
\* resource only the tokens are looked at.
ShortStates == {<<c>> : c \in MCConditions}
TokenStates == {<<[type |-> "opaquelock", not |-> FALSE, token |-> t]>> : t \in {t1, t2}}
MCStates == ShortStates \cup {<<c, d>> : c, d \in MCConditions}
MCList(a, s) == [applies |-> a, state |-> s, dummy_header |-> FALSE]
\* dav_validate_request puts a Lock-Token header in front as a list of its own.
DummyList(t) == [applies |-> TRUE, dummy_header |-> TRUE,
                 state |-> <<[type |-> "opaquelock", not |-> FALSE, token |-> t]>>]
MCHeaders ==
  {<<>>}
    \cup {<<MCList(a, s)>> : a \in BOOLEAN, s \in MCStates}
    \cup {<<MCList(TRUE, s), MCList(TRUE, u)>> : s \in MCStates, u \in ShortStates}
    \cup {<<MCList(TRUE, s), MCList(FALSE, u)>> : s \in MCStates, u \in TokenStates}
    \cup {<<MCList(FALSE, s), MCList(TRUE, u)>> : s \in TokenStates, u \in MCStates}
    \cup {<<DummyList(t)>> : t \in {t1, t2}}
    \cup {<<DummyList(t), MCList(b, u)>> : t \in {t1, t2}, b \in BOOLEAN, u \in ShortStates}
MCLock(t, s, u) == [token |-> t, scope |-> s, user |-> u]
MCLockLists ==
  {<<>>, <<MCLock(t1, "exclusive", anna)>>, <<MCLock(t1, "shared", NoUser)>>,
   <<MCLock(t1, "shared", bert), MCLock(t2, "shared", anna)>>}

AllVersions ==
  {Version_866, Version_791_safe, Version_873_safe, Version_843, Version_844, Version_842,
   Version_791, Version_873, Version_921, Version_867, Version_821, Version_876, Version_875,
   Version_820, Version_877, Version_922, Version_924}
-----------------------------------------------------------------------------
VARIABLE what   \* "check", "method" or "proppatch"

MCResources == {res1, res2}
MCCollections == {col1, col2}
MCObjections == {"contains"}
MCParent == [x \in MCResources |-> IF x = res2 THEN col2 ELSE col1]
Symmetry == Permutations(Requests)

One(x, v, i) == [prop |-> x, value |-> v, incomplete |-> i]
Some == {One(x, v, FALSE) : x \in Props, v \in Values \cup {Absent}}
MCDocuments ==
  {<<>>, <<One(prop1, Absent, TRUE)>>} \cup {<<s>> : s \in Some}
    \cup {<<s, One(prop1, Absent, TRUE)>> : s \in Some}
    \cup {<<s, t>> : s, t \in Some}
    \cup {<<s, t, One(prop1, v, FALSE)>> : s, t \in Some, v \in Values}

NoCheck ==
  /\ ver = Version_866 /\ if_header = <<>> /\ lock_list = <<>> /\ lockscope = "none"
  /\ is_parent = FALSE /\ user = NoUser
  /\ Init
NoMethod ==
  /\ exists = {} /\ locks = {}
  /\ served_by = [r \in Requests |-> Version_387]
  /\ resource = [r \in Requests |-> res1] /\ resnew = resource
  /\ is_move = [r \in Requests |-> FALSE] /\ overwrite = is_move
  /\ objection = [r \in Requests |-> "none"]
  /\ MethodsInit
NoPatch ==
  /\ patch_copy = Version_241 /\ doc = <<>> /\ stored = [x \in Props |-> Absent]
  /\ PatchInit

MCInit ==
  \/ what = "check" /\ Init /\ NoMethod /\ NoPatch
  \/ what = "method" /\ NoCheck /\ MethodsInit /\ NoPatch
  \/ what = "proppatch" /\ NoCheck /\ NoMethod /\ PatchInit
MCNext ==
  /\ UNCHANGED what
  /\ \/ what = "check" /\ Next /\ UNCHANGED <<methodVars, patchVars>>
     \/ what = "method" /\ MethodsNext /\ UNCHANGED <<vars, patchVars>>
     \/ what = "proppatch" /\ PatchNext /\ UNCHANGED <<vars, methodVars>>
MCSpec == MCInit /\ [][MCNext]_<<vars, what, methodVars, patchVars>>
=============================================================================
