---------------------------- MODULE DavPropPatch ----------------------------
(***************************************************************************)
(* dav_method_proppatch: set and remove properties, all of them or none.   *)
(* The instructions are collected and validated, executed in order until   *)
(* one fails, and then committed, or rolled back from the last to the      *)
(* first.  What executing or rolling back one instruction does is the      *)
(* property database's part, modelled from how the function relies on it.  *)
(***************************************************************************)
EXTENDS Integers, Sequences

CONSTANTS
  Props, Values,
  Absent,       \* no value
  Documents     \* the instructions a body may hold, in the order of the body

Instruction == [prop : Props, value : Values \cup {Absent}, incomplete : BOOLEAN]

NotRun == "not run"

ASSUME PropPatchAssumption ==
  /\ Absent \notin Values /\ NotRun \notin Values \cup {Absent}
  /\ Documents \subseteq Seq(Instruction)
-----------------------------------------------------------------------------
(* The copies: `query' runs a query of its own first, which may fail, and  *)
(* `opens' opens the property database.                                    *)
Version_241_safe == [query |-> FALSE, opens |-> TRUE]
Version_241 == Version_241_safe
Version_450 == Version_241_safe
Version_411 == [Version_241_safe EXCEPT !.query = TRUE]
Version_386 == [Version_241_safe EXCEPT !.opens = FALSE]
PatchCopies == {Version_241_safe, Version_241, Version_450, Version_411, Version_386}
-----------------------------------------------------------------------------
VARIABLES
  patch_copy, doc,
  stored,      \* the properties of the resource
  before,      \* what they were when the request came
  place,
  ctx_list,    \* the instructions collected, by index
  rollback,    \* what each of them replaced, as far as it was executed
  failure,
  next,        \* the instruction executed or rolled back next
  propdb, checkedout, \* the database is open, the resource checked out
  response

patchParams == <<patch_copy, doc, before>>
resources == <<propdb, checkedout>>
patchVars == <<patchParams, stored, place, ctx_list, rollback, failure, next, resources, response>>

PatchInit ==
  /\ patch_copy \in PatchCopies
  /\ doc \in Documents
  /\ stored \in [Props -> Values \cup {Absent}] /\ before = stored
  /\ place = "begin"
  /\ ctx_list = 0
  /\ rollback = [i \in DOMAIN doc |-> NotRun]
  /\ failure = FALSE
  /\ next = 1
  /\ propdb = FALSE /\ checkedout = FALSE
  /\ response = "none"

Done(answer) == place' = "done" /\ response' = answer

\* No resource, no usable body, a lock, or (in one copy) a failing query.
RefusePatch ==
  /\ place = "begin"
  /\ \E answer \in {"NOT_FOUND", "BAD_REQUEST", "LOCKED"}
                     \cup (IF patch_copy.query THEN {"INTERNAL_SERVER_ERROR"} ELSE {}) : Done(answer)
  /\ UNCHANGED <<patchParams, stored, ctx_list, rollback, failure, next, resources>>

Checkout ==
  /\ place = "begin"
  /\ \/ place' = "out" /\ checkedout' = TRUE /\ UNCHANGED response
     \/ Done("CONFLICT") /\ UNCHANGED checkedout
  /\ UNCHANGED <<patchParams, stored, ctx_list, rollback, failure, next, propdb>>

OpenPropdb ==
  /\ place = "out" /\ patch_copy.opens
  /\ \/ place' = "collect" /\ propdb' = TRUE /\ UNCHANGED <<checkedout, response>>
     \/ Done("INTERNAL_SERVER_ERROR") /\ checkedout' = FALSE /\ UNCHANGED propdb
  /\ UNCHANGED <<patchParams, stored, ctx_list, rollback, failure, next>>

\* The copy that leaves propdb NULL fails on its first use.
UseNullPropdb ==
  /\ place = "out" /\ ~patch_copy.opens
  /\ IF doc = <<>> THEN Done("MULTI_STATUS") /\ checkedout' = FALSE
     ELSE Done("crash") /\ UNCHANGED checkedout
  /\ UNCHANGED <<patchParams, stored, ctx_list, rollback, failure, next, propdb>>

\* A set or remove without a prop element ends the request; dav_prop_validate may
\* object, and the others are collected all the same.
CheckIn == checkedout' = FALSE
Collect ==
  /\ place = "collect" /\ ctx_list < Len(doc)
  /\ IF doc[ctx_list + 1].incomplete
     THEN /\ Done("BAD_REQUEST")
          /\ propdb' = FALSE
          /\ CheckIn
          /\ UNCHANGED <<ctx_list, failure>>
     ELSE /\ ctx_list' = ctx_list + 1
          /\ failure' \in {failure, TRUE}
          /\ UNCHANGED <<place, response, resources>>
  /\ UNCHANGED <<patchParams, stored, rollback, next>>

\* With an objection nothing is executed.
MayExecute == ~failure
StartExec ==
  /\ place = "collect" /\ ctx_list = Len(doc)
  /\ next' = IF MayExecute THEN 1 ELSE ctx_list
  /\ place' = IF MayExecute THEN "exec" ELSE "rollback"
  /\ UNCHANGED <<patchParams, stored, ctx_list, rollback, failure, resources, response>>

\* dav_prop_exec notes what it replaces first; the first error stops the others.
Exec ==
  /\ place = "exec" /\ next <= ctx_list
  /\ rollback' = [rollback EXCEPT ![next] = stored[doc[next].prop]]
  /\ \/ /\ stored' = [stored EXCEPT ![doc[next].prop] = doc[next].value]
        /\ next' = next + 1
        /\ UNCHANGED <<place, failure>>
     \/ /\ failure' = TRUE
        /\ place' = "rollback"
        /\ next' = ctx_list
        /\ UNCHANGED stored
  /\ UNCHANGED <<patchParams, ctx_list, resources, response>>

\* From the last to the first; what was not executed has nothing to roll back.
InOrder == ctx_list + 1 - next     \* mutant
RolledBack == next
RolledBackNext == next - 1
Rollback ==
  /\ place = "rollback" /\ next >= 1
  /\ stored' = IF rollback[RolledBack] = NotRun THEN stored
               ELSE [stored EXCEPT ![doc[RolledBack].prop] = rollback[RolledBack]]
  /\ next' = RolledBackNext
  /\ UNCHANGED <<patchParams, place, ctx_list, rollback, failure, resources, response>>

Close ==
  /\ \/ place = "exec" /\ next > ctx_list
     \/ place = "rollback" /\ next = 0
  /\ Done(IF failure THEN "failed" ELSE "MULTI_STATUS")
  /\ propdb' = FALSE
  /\ checkedout' = FALSE
  /\ UNCHANGED <<patchParams, stored, ctx_list, rollback, failure, next>>

PatchNext ==
  \/ RefusePatch \/ Checkout \/ OpenPropdb \/ UseNullPropdb \/ Collect \/ StartExec \/ Exec
  \/ Rollback \/ Close

PatchSpec == PatchInit /\ [][PatchNext]_patchVars
-----------------------------------------------------------------------------
\* The properties after the first n instructions: a property has the value of the last
\* of them that names it.
Naming(n, p) == {k \in 1 .. n : doc[k].prop = p}
Last(S) == CHOOSE k \in S : \A l \in S : l <= k
After(n) ==
  [p \in Props |-> IF Naming(n, p) = {} THEN before[p] ELSE doc[Last(Naming(n, p))].value]

\* All or nothing, also when one property is named several times: the request ends
\* with every instruction carried out in order, or with what there was before; and
\* on every exit the database is closed and the resource is checked in again.
AllOrNothing ==
  place = "done" =>
    /\ stored = IF response = "MULTI_STATUS" THEN After(ctx_list) ELSE before
    /\ ~propdb /\ (checkedout => response = "crash")
=============================================================================
