------------------------------ MODULE IfSection ------------------------------
(***************************************************************************)
(* ifsection: <If>, <ElseIf> and <Else> in a configuration.  The function  *)
(* is entered again for every section nested in one, and all of them work  *)
(* on one cmd_parms: where the directives apply (path) and which are       *)
(* allowed there (override).  Configurations are the server's own, where   *)
(* no path is set yet, and those of directories, with a path and what the  *)
(* server allows them.                                                     *)
(*                                                                         *)
(* Abstracted: a section is its kind and what is wrong with its argument;  *)
(* a directive is the class of override it needs.                          *)
(***************************************************************************)
EXTENDS Naturals

CONSTANTS
  Versions,
  Sections,     \* the sections a configuration may hold
  Classes,      \* the classes of OR_ALL
  MaxDepth      \* how deep sections are nested

NoPath == "no path"
ACCESS_CONF == "ACCESS_CONF"
Section ==
  [kind : {"If", "ElseIf", "Else"}, closed : BOOLEAN, words : 0 .. 2, quoted : BOOLEAN,
   valid : BOOLEAN]

ASSUME SectionAssumption == MaxDepth \in Nat /\ Sections \subseteq Section
-----------------------------------------------------------------------------
(* The copies:                                                             *)
(*   forbidden  the contexts it refuses                                    *)
(*   kinds      it tells the three kinds apart                             *)
(*   cuts       it cuts the argument at the closing bracket                *)
(*   takes      the condition is the first word, or all of the argument    *)
(*   path       what it sets the path to: "*If", its argument, or nothing  *)
(*   top        the override where there is no path yet                    *)
(*   checks     of the argument of Else, the condition, a second argument  *)
(*   restores   path and override at the end: both, only the path, or none *)
(*   library    it may fail at the very end                                *)
AllChecks == {"else", "condition", "second"}
Version_211_safe ==
  [forbidden |-> {"limit"}, kinds |-> TRUE, cuts |-> TRUE, takes |-> "word", path |-> "*If",
   top |-> "all and access", checks |-> AllChecks, restores |-> "both", library |-> FALSE]
Version_305 == Version_211_safe
Version_335 == Version_211_safe
Version_344 == Version_211_safe
Version_417 == Version_211_safe
Version_475 == Version_211_safe
Version_484 == Version_211_safe
Version_500_safe == Version_211_safe
Version_562 == Version_211_safe
Version_580 == Version_211_safe
Version_599 == Version_211_safe
Version_626 == Version_211_safe
Version_256 == Version_211_safe
Version_332 == Version_211_safe
Version_380 == Version_211_safe
Version_423 == Version_211_safe
Version_465 == Version_211_safe
Version_483 == Version_211_safe
Version_501 == Version_211_safe
Version_206 == [Version_211_safe EXCEPT !.library = TRUE]
Version_298 == [Version_211_safe EXCEPT !.checks = AllChecks \ {"condition"}]
Version_312 == Version_298
Version_367 == Version_298
Version_452 == Version_298
Version_549 == Version_298
Version_216 == [Version_211_safe EXCEPT !.path = "none"]
Version_801 == Version_216
Version_802 == Version_216
Version_205 == [Version_211_safe EXCEPT !.top = "all"]
Version_368 == Version_205
Version_313 == [Version_211_safe EXCEPT !.top = "nothing"]
Version_211 == [Version_211_safe EXCEPT !.restores = "neither"]
Version_500 == Version_211
Version_352 == [Version_298 EXCEPT !.cuts = FALSE]
Version_389 == [Version_352 EXCEPT !.path = "argument"]
Version_466 == [Version_389 EXCEPT !.takes = "all"]
Version_550 == [Version_298 EXCEPT !.checks = {"second"}]
Version_598 == [Version_550 EXCEPT !.checks = {}]
Version_803 == [Version_598 EXCEPT !.path = "none"]
Version_151_safe == [Version_216 EXCEPT !.forbidden = {"location"}, !.kinds = FALSE]
Version_151 == [Version_151_safe EXCEPT !.restores = "path"]
Version_88 == [Version_151_safe EXCEPT !.forbidden = {"location", "limit"}]
-----------------------------------------------------------------------------
VARIABLES
  ver,
  context,        \* what the configuration is enclosed in
  start,          \* path and override when it is begun
  path, override, \* cmd->path, cmd->override
  depth, frames,  \* the calls of ifsection under way, with their locals
  failed,         \* the error that ends the reading
  added,          \* the section that was added last, as a set
  taken           \* the directive that was accepted last

cmd == <<path, override>>
calls == <<depth, frames>>
vars == <<ver, context, start, cmd, calls, failed, added, taken>>

Nowhere == <<NoPath, 0>>
InIf == <<"*If", 0>>
Directory == <<"directory", 0>>
Paths == {Nowhere, InIf, Directory, <<"*", 0>>} \cup {<<"argument", w>> : w \in 0 .. 2}
Overrides == SUBSET (Classes \cup {ACCESS_CONF})
Frame == [section : Sections, old_path : Paths, old_overrides : Overrides, own : Paths]
NoSection == "none"

Init ==
  /\ ver \in Versions
  /\ context \in {"plain", "location", "limit"}
  /\ start \in {[path |-> Nowhere, override |-> Classes]}
               \cup {[path |-> Directory, override |-> o] : o \in Overrides}
  /\ path = start.path /\ override = start.override
  /\ depth = 0 /\ frames \in {[i \in {} |-> i]}
  /\ failed = FALSE
  /\ added = {} /\ taken = NoSection

\* What is left of the argument where the function tests it.
Something(section) == ~ver.cuts \/ section.words > 0
IsElse(section) == ver.kinds /\ section.kind = "Else"
LeftOver(section) ==
  IF IsElse(section) THEN Something(section)
  ELSE \/ ver.takes = "all"
       \/ section.words > 1
       \/ ~ver.cuts /\ section.quoted

Objection(section) ==
  \/ context \in ver.forbidden
  \/ ~section.closed
  \/ IsElse(section) /\ "else" \in ver.checks /\ Something(section)
  \/ ~IsElse(section) /\ ~Something(section)
  \/ ~IsElse(section) /\ "condition" \in ver.checks /\ ~section.valid

AlwaysTop(section) == Classes \cup {ACCESS_CONF}    \* mutant
OverrideWithin(section) ==
  IF path # Nowhere THEN override
  ELSE CASE ver.top = "all" -> Classes
         [] ver.top = "nothing" -> {}
         [] OTHER -> Classes \cup {ACCESS_CONF}

PathWithin(section) ==
  CASE ver.path = "*If" -> InIf
    [] ver.path = "argument" -> <<"argument", section.words>>
    [] OTHER -> path

\* Up to ap_walk_config, which reads what is in the section.
Open(section) ==
  /\ ~failed /\ depth < MaxDepth
  /\ ~Objection(section)
  /\ path' = PathWithin(section)
  /\ override' = OverrideWithin(section)
  /\ depth' = depth + 1
  /\ frames' = [i \in 1 .. depth + 1 |->
                  IF i <= depth THEN frames[i]
                  ELSE [section |-> section, old_path |-> path, old_overrides |-> override,
                        own |-> PathWithin(section)]]
  /\ UNCHANGED <<ver, context, start, failed, added, taken>>

\* An error is passed on by every call to the end of the reading.
Fail(section) ==
  /\ ~failed /\ Objection(section)
  /\ failed' = TRUE
  /\ UNCHANGED <<ver, context, start, cmd, calls, added, taken>>

\* A directive, which ap_walk_config gives to its module where the override allows it.
Directive(class) ==
  /\ ~failed
  /\ IF class \in override THEN taken' = class /\ UNCHANGED failed
     ELSE failed' = TRUE /\ UNCHANGED taken
  /\ UNCHANGED <<ver, context, start, cmd, calls, added>>

Top == frames[depth]
KeepsOverride == override       \* mutant
OverrideAfter ==
  CASE ver.restores = "both" -> Top.old_overrides
    [] ver.restores = "path" -> Classes \cup {ACCESS_CONF}
    [] OTHER -> Classes
PathAfter == IF ver.restores = "neither" THEN <<"*", 0>> ELSE Top.old_path

\* ap_add_if_conf may object; a second argument is found only after it.
Late == "second" \in ver.checks /\ LeftOver(Top.section)
Close ==
  /\ ~failed /\ depth > 0
  /\ \/ failed' = TRUE /\ ver.kinds /\ UNCHANGED <<cmd, calls, added>>
     \/ /\ added' = {[section |-> Top.section, d |-> path, own |-> Top.own]}
        /\ \/ Late /\ failed' = TRUE /\ UNCHANGED <<cmd, calls>>
           \/ /\ ~Late
              /\ path' = PathAfter
              /\ override' = OverrideAfter
              /\ depth' = depth - 1
              /\ frames' = [i \in 1 .. depth - 1 |-> frames[i]]
              /\ failed' \in IF ver.library THEN BOOLEAN ELSE {FALSE}
  /\ UNCHANGED <<ver, context, start, taken>>

Next ==
  \/ \E section \in Sections : Open(section) \/ Fail(section)
  \/ \E class \in Classes \cup {ACCESS_CONF} : Directive(class)
  \/ Close

Spec == Init /\ [][Next]_vars
-----------------------------------------------------------------------------
TypeOK ==
  /\ path \in Paths /\ override \in Overrides
  /\ depth \in 0 .. MaxDepth /\ frames \in [1 .. depth -> Frame]
  /\ failed \in BOOLEAN

\* After the outermost section the directives apply, and are allowed, as before it,
\* however sections were nested: a section changes nothing after its end.
Balanced == ver.restores = "both" /\ depth = 0 => path = start.path /\ override = start.override

\* In the configuration of a directory no section, and nothing after one, is allowed what
\* the directory is not.
NoWidening ==
  ver.restores = "both" /\ start.path # Nowhere => taken \in start.override \cup {NoSection}

\* A section is added under its own path, whatever sections it holds.
OwnPath == ver.restores # "neither" => \A conf \in added : conf.d = conf.own
=============================================================================
