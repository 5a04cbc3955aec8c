----------------------------- MODULE DavMethods -----------------------------
(***************************************************************************)
(* dav_method_copymove and dav_method_delete: the methods that take a      *)
(* resource out of one collection and put it into another.  Each is a row  *)
(* of calls into the provider, any of which may fail, with collections     *)
(* checked out and the lock database open meanwhile.  Requests interleave  *)
(* between the calls.                                                      *)
(*                                                                         *)
(* Abstracted: what is wrong with the request itself is one objection; a   *)
(* lock and its validation are the subject of DavValidate.                 *)
(***************************************************************************)
EXTENDS Integers, FiniteSets

CONSTANTS
  Requests,
  Resources,
  Collections,
  Parent,       \* the collection of each resource
  NoCollection,
  Objections    \* what may be wrong with a request

ASSUME MethodsAssumption ==
  /\ "none" \notin Objections
  /\ NoCollection \notin Collections
  /\ Parent \in [Resources -> Collections]
-----------------------------------------------------------------------------
(* The copies of copymove:                                                 *)
(*   refuses  for which reasons it refuses                                 *)
(*   unlocks  removes the locks of what is moved                           *)
(*   checkout (of DELETE) checks the collection out before it deletes      *)
AllReasons ==
  {"not regular", "no Destination", "Destination fails", "other repository", "bad Overwrite",
   "exists", "same", "bad Depth", "contains", "bad body"}
Version_387 == [copymove |-> TRUE, refuses |-> AllReasons, unlocks |-> TRUE, checkout |-> TRUE]
Version_242 == Version_387
Version_453 == Version_387
Version_413 ==
  [Version_387 EXCEPT !.refuses = AllReasons \ {"exists", "same", "bad Depth", "contains"},
                      !.unlocks = FALSE]
DeleteReasons == {"bad body", "bad Depth"}
Version_384 == [copymove |-> FALSE, refuses |-> DeleteReasons, unlocks |-> TRUE, checkout |-> TRUE]
Version_238 == Version_384
Version_403 == [Version_384 EXCEPT !.refuses = @ \ {"bad Depth"}]
Version_440 == [Version_403 EXCEPT !.checkout = FALSE]
KnownVersions ==
  {Version_387, Version_242, Version_453, Version_413, Version_384, Version_238, Version_403, Version_440}
-----------------------------------------------------------------------------
VARIABLES
  exists,    \* the resources there are
  locks,     \* the resources with locks
  out,       \* the collections that are checked out
  served_by,       \* the copy that serves each request
  is_move, resource, resnew, overwrite, objection, \* each request's parameters
  resnew_exists, \* what dav_get_resource said of the destination
  at,
  replace_dest,
  lockdb,    \* "closed", "open", or "none" where no lock provider is configured
  src_av_info, dst_av_info, \* the collection each one has checked out
  failed,    \* err # NULL
  checkedin  \* requests whose collections became a new version

params == <<served_by, is_move, resource, resnew, overwrite, objection>>
local == <<at, resnew_exists, replace_dest, lockdb, src_av_info, dst_av_info, failed>>
methodVars == <<exists, locks, out, params, local, checkedin>>

MethodsInit ==
  /\ exists \in SUBSET Resources
  /\ locks \in SUBSET exists
  /\ out = {}
  /\ served_by \in [Requests -> KnownVersions]
  /\ is_move \in [Requests -> BOOLEAN]
  /\ resource \in [Requests -> Resources] /\ resnew \in [Requests -> Resources]
  /\ overwrite \in [Requests -> BOOLEAN]
  /\ objection \in [Requests -> Objections \cup {"none"}]
  /\ \A r \in Requests : ~served_by[r].copymove => ~is_move[r] /\ ~overwrite[r] /\ resnew[r] = resource[r]
  /\ resnew_exists = [r \in Requests |-> FALSE]
  /\ at = [r \in Requests |-> "begin"]
  /\ replace_dest = [r \in Requests |-> FALSE]
  /\ lockdb = [r \in Requests |-> "closed"]
  /\ src_av_info = [r \in Requests |-> NoCollection]
  /\ dst_av_info = [r \in Requests |-> NoCollection]
  /\ failed = [r \in Requests |-> FALSE]
  /\ checkedin = {}

At(r, from) == at[r] = from
Go(r, to) == at' = [at EXCEPT ![r] = to]
CloseIfOpen(r) == lockdb' = [lockdb EXCEPT ![r] = IF @ = "open" THEN "closed" ELSE @]

\* dav_auto_checkout: the collection, unless somebody has it checked out.
Takes(c) == IF c \in out THEN NoCollection ELSE c

\* dav_auto_checkin, which undoes the checkout when something failed.
AutoCheckin(av, undo, r) ==
  /\ out' = out \ {av}
  /\ checkedin' = IF undo \/ av = NoCollection THEN checkedin ELSE checkedin \cup {r}
-----------------------------------------------------------------------------
(* COPY and MOVE *)

IgnoresOverwrite(r) == FALSE   \* mutant
WouldOverwrite(r) == "exists" \in served_by[r].refuses /\ ~overwrite[r] /\ resnew[r] \in exists

Refused(r) ==
  \/ objection[r] \in served_by[r].refuses
  \/ resource[r] \notin exists
  \/ served_by[r].copymove /\ WouldOverwrite(r)
  \/ "same" \in served_by[r].refuses /\ resource[r] = resnew[r]

\* The request is refused for what it asks, or for the locks on either side.
RefuseMethod(r) ==
  /\ At(r, "begin") /\ Go(r, "done")
  /\ UNCHANGED <<exists, locks, out, params, resnew_exists, replace_dest, lockdb, src_av_info,
                 dst_av_info, failed, checkedin>>

Validated(r) ==
  /\ At(r, "begin") /\ Go(r, "validated")
  /\ ~Refused(r)
  /\ resnew_exists' = [resnew_exists EXCEPT ![r] = resnew[r] \in exists]
  /\ UNCHANGED <<exists, locks, out, params, replace_dest, lockdb, src_av_info, dst_av_info,
                 failed, checkedin>>

\* dav_open_lockdb fails.
OpenFails(r) ==
  /\ served_by[r].copymove /\ At(r, "validated") /\ Go(r, "done")
  /\ UNCHANGED <<exists, locks, out, params, resnew_exists, replace_dest, lockdb, src_av_info, dst_av_info,
                 failed, checkedin>>

\* dav_open_lockdb and, for a MOVE, dav_unlock of the source, whose result is ignored.
OpenLockdb(r) ==
  /\ served_by[r].copymove /\ At(r, "validated") /\ Go(r, "opened")
  /\ \E s \in {"open", "none"} : lockdb' = [lockdb EXCEPT ![r] = s]
  /\ \/ /\ is_move[r] /\ lockdb'[r] = "open" /\ served_by[r].unlocks
        /\ locks' = locks \ {resource[r]}
     \/ UNCHANGED locks
  /\ UNCHANGED <<exists, out, params, resnew_exists, replace_dest, src_av_info, dst_av_info, failed, checkedin>>

\* The source's collection is only checked out for a MOVE.
CheckoutSource(r) ==
  /\ At(r, "opened")
  /\ \/ /\ is_move[r]
        /\ Go(r, "source out")
        /\ src_av_info' = [src_av_info EXCEPT ![r] = Takes(Parent[resource[r]])]
        /\ out' = out \cup {Parent[resource[r]]}
        /\ UNCHANGED lockdb
     \/ /\ is_move[r]
        /\ Go(r, "done")
        /\ CloseIfOpen(r)
        /\ UNCHANGED <<src_av_info, out>>
     \/ /\ ~is_move[r]
        /\ Go(r, "source out")
        /\ UNCHANGED <<src_av_info, out, lockdb>>
  /\ UNCHANGED <<exists, locks, params, resnew_exists, replace_dest, dst_av_info, failed, checkedin>>

\* A destination that exists is replaced by a MOVE, or where the kinds differ or the
\* source has no versions; otherwise a COPY adds a version to it.
MustReplace(r) ==
  {b \in BOOLEAN : (~resnew_exists[r] => ~b) /\ (resnew_exists[r] /\ is_move[r] => b)}

UndoSource(r) ==
  /\ src_av_info' = [src_av_info EXCEPT ![r] = NoCollection]
  /\ AutoCheckin(src_av_info[r], TRUE, r)
CloseLockdb(r) == CloseIfOpen(r)

CheckoutDest(r) ==
  /\ At(r, "source out")
  /\ \E b \in MustReplace(r) : replace_dest' = [replace_dest EXCEPT ![r] = b]
  /\ \/ /\ ~resnew_exists[r] \/ replace_dest'[r]
        /\ Go(r, "dest out")
        /\ dst_av_info' = [dst_av_info EXCEPT ![r] = Takes(Parent[resnew[r]])]
        /\ out' = out \cup {Parent[resnew[r]]}
        /\ UNCHANGED <<src_av_info, lockdb, checkedin>>
     \/ /\ ~resnew_exists[r] \/ replace_dest'[r]
        /\ Go(r, "done")
        /\ UndoSource(r)
        /\ CloseLockdb(r)
        /\ UNCHANGED dst_av_info
     \/ /\ resnew_exists[r] /\ ~replace_dest'[r]
        /\ Go(r, "dest out")
        /\ UNCHANGED <<src_av_info, dst_av_info, out, lockdb, checkedin>>
  /\ UNCHANGED <<exists, locks, params, resnew_exists, failed>>

\* remove_resource, which leaves the locks to the methods.
RemoveDest(r) ==
  /\ At(r, "dest out") /\ Go(r, "removed")
  /\ \/ /\ replace_dest[r]
        /\ exists' = exists \ {resnew[r]}
        /\ UNCHANGED failed
     \/ /\ replace_dest[r]
        /\ failed' = [failed EXCEPT ![r] = TRUE]
        /\ UNCHANGED exists
     \/ /\ ~replace_dest[r]
        /\ UNCHANGED <<exists, failed>>
  /\ UNCHANGED <<locks, out, params, resnew_exists, replace_dest, lockdb, src_av_info, dst_av_info, checkedin>>

\* move_resource or copy_resource; another request may have taken the source away.
MayTransfer(r) == ~failed[r]
Transfer(r) ==
  /\ At(r, "removed") /\ Go(r, "transferred")
  /\ \/ /\ MayTransfer(r) /\ resource[r] \in exists
        /\ exists' = (exists \cup {resnew[r]}) \ (IF is_move[r] /\ resource[r] # resnew[r]
                                                  THEN {resource[r]} ELSE {})
        /\ UNCHANGED failed
     \/ /\ failed' = [failed EXCEPT ![r] = TRUE]
        /\ UNCHANGED exists
  /\ UNCHANGED <<locks, out, params, resnew_exists, replace_dest, lockdb, src_av_info, dst_av_info, checkedin>>

UndoIfFailed(r) == failed[r]

ReleasedDest(r) == [dst_av_info EXCEPT ![r] = NoCollection]

CheckinDest(r) ==
  /\ At(r, "transferred") /\ Go(r, "dest in")
  /\ AutoCheckin(dst_av_info[r], UndoIfFailed(r), r)
  /\ dst_av_info' = ReleasedDest(r)
  /\ UNCHANGED <<exists, locks, params, resnew_exists, replace_dest, lockdb, src_av_info, failed>>

\* The check-in of the source (there is none for a COPY), and the end: the lock
\* information of the new resource is updated and the database closed.
CheckinSource(r) ==
  /\ At(r, "dest in") /\ Go(r, "done")
  /\ AutoCheckin(src_av_info[r], UndoIfFailed(r), r)
  /\ src_av_info' = [src_av_info EXCEPT ![r] = NoCollection]
  /\ CloseLockdb(r)
  /\ \/ ~failed[r] /\ lockdb[r] = "open" /\ locks' \in {locks, locks \cup ({resnew[r]} \cap exists)}
     \/ UNCHANGED locks
  /\ UNCHANGED <<exists, params, resnew_exists, replace_dest, dst_av_info, failed>>
-----------------------------------------------------------------------------
(* DELETE *)

\* dav_unlock, whose failure ends the request.
Unlock(r) ==
  /\ ~served_by[r].copymove /\ At(r, "validated")
  /\ \/ Go(r, "unlocked") /\ locks' = locks \ {resource[r]}
     \/ Go(r, "done") /\ UNCHANGED locks
  /\ UNCHANGED <<exists, out, params, resnew_exists, replace_dest, lockdb, src_av_info, dst_av_info, failed,
                 checkedin>>

CheckoutParent(r) ==
  /\ At(r, "unlocked")
  /\ \/ /\ served_by[r].checkout
        /\ Go(r, "parent out")
        /\ src_av_info' = [src_av_info EXCEPT ![r] = Takes(Parent[resource[r]])]
        /\ out' = out \cup {Parent[resource[r]]}
     \/ /\ served_by[r].checkout
        /\ Go(r, "done")
        /\ UNCHANGED <<src_av_info, out>>
     \/ /\ ~served_by[r].checkout
        /\ Go(r, "parent out")
        /\ UNCHANGED <<src_av_info, out>>
  /\ UNCHANGED <<exists, locks, params, resnew_exists, replace_dest, lockdb, dst_av_info, failed, checkedin>>

Remove(r) ==
  /\ At(r, "parent out") /\ Go(r, "deleted")
  /\ \/ /\ resource[r] \in exists
        /\ exists' = exists \ {resource[r]}
        /\ UNCHANGED failed
     \/ /\ failed' = [failed EXCEPT ![r] = TRUE]
        /\ UNCHANGED exists
  /\ UNCHANGED <<locks, out, params, resnew_exists, replace_dest, lockdb, src_av_info, dst_av_info, checkedin>>

\* Where nothing was checked out, av_info is not initialised: what is checked in
\* is whatever the stack held, a collection that is out or nothing.
Info(r) == IF served_by[r].checkout THEN {src_av_info[r]} ELSE out \cup {NoCollection}

CheckinParent(r) ==
  /\ At(r, "deleted") /\ Go(r, "done")
  /\ \E c \in Info(r) : AutoCheckin(c, UndoIfFailed(r), r)
  /\ src_av_info' = [src_av_info EXCEPT ![r] = NoCollection]
  /\ UNCHANGED <<exists, locks, params, resnew_exists, replace_dest, lockdb, dst_av_info, failed>>
-----------------------------------------------------------------------------
Method(r) ==
  \/ RefuseMethod(r) \/ Validated(r)
  \/ OpenFails(r) \/ OpenLockdb(r) \/ CheckoutSource(r) \/ CheckoutDest(r) \/ RemoveDest(r)
  \/ Transfer(r) \/ CheckinDest(r) \/ CheckinSource(r)
  \/ Unlock(r) \/ CheckoutParent(r) \/ Remove(r) \/ CheckinParent(r)

MethodsNext == \E r \in Requests : Method(r)
MethodsSpec == MethodsInit /\ [][MethodsNext]_methodVars
-----------------------------------------------------------------------------
Owners(c) == {r \in Requests : at[r] # "done" /\ c \in {src_av_info[r], dst_av_info[r]}}
ChecksOut == \A r \in Requests : served_by[r].checkout

\* Whatever call fails, what was taken is given back: the lock database is closed on
\* every exit, and a collection is checked out exactly while one request has it to
\* check in again, none being left behind and none returned under another request;
\* it becomes a new version only when what was done in it succeeded.
\* (A copy that checks in what it never checked out gives no such promise.)
GivenBack ==
  /\ \A r \in Requests : at[r] = "done" => lockdb[r] # "open"
  /\ ChecksOut => \A c \in Collections : Cardinality(Owners(c)) = IF c \in out THEN 1 ELSE 0
  /\ \A r \in checkedin : ~failed[r]

\* A request that must not overwrite takes nothing away but what it moves, although
\* the destination may appear between the test and the removal.
OverwriteRespected ==
  [][\A r \in Requests :
       "exists" \in served_by[r].refuses /\ ~overwrite[r] /\ at'[r] # at[r]
         => exists \ (IF is_move[r] THEN {resource[r]} ELSE {}) \subseteq exists']_methodVars

\* What a method took it gives back, and where it must not overwrite it takes nothing.
NothingLost == []GivenBack /\ OverwriteRespected
=============================================================================
