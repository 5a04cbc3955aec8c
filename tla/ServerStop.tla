----------------------------- MODULE ServerStop -----------------------------
(***************************************************************************)
(* How the event MPM's parent ends: event_run (850_1.c) leaves its main    *)
(* loop for a stop, a graceful stop or a restart.  A graceful stop waits   *)
(* for the children with ap_relieve_child_processes (215_1.c, 555_1.c,     *)
(* 573_1.c, 653_1.c, 555_safe.c, 573_safe.c); every other end, and that    *)
(* wait's own, escalates from waiting over SIGTERM to SIGKILL in           *)
(* ap_reclaim_child_processes (214_1.c, 649_1.c).  A child whose slot was  *)
(* given to a new one is on the list of extra processes                    *)
(* (ap_register_extra_mpm_process: 37_1.c, 60_1.c, 65_1.c, 60_safe.c).     *)
(*                                                                         *)
(* A pass over the children is one step: between two of its kill and wait  *)
(* calls another child can only die, which the next pass sees as well.     *)
(* The generation handed to the callback is only reported: it is left out. *)
(***************************************************************************)
EXTENDS Integers, FiniteSets

CONSTANTS
  StopSlots,     \* the scoreboard slots below max_daemons
  Procs,     \* processes that can be children
  None,      \* no process: pid 0
  FirstChild, \* the children the server was started with
  Timeouts,  \* ap_graceful_shutdown_timeout in ticks, 0 for none
  DeafSets,  \* which processes may follow neither the pod nor SIGTERM
  Versions   \* the copies that run together (below)

\* Time is counted in quarters of a second.
Second == 4

ASSUME StopAssumption ==
  /\ None \notin Procs
  /\ FirstChild \in [StopSlots -> Procs]
  /\ \A s, t \in StopSlots : s # t => FirstChild[s] # FirstChild[t]
  /\ Timeouts \subseteq Nat /\ DeafSets \subseteq SUBSET Procs
  /\ Versions \subseteq
       [reclaim : [exitsAtOnce : BOOLEAN,     \* exit(0) inside the loop
                   signalsExtras : BOOLEAN],  \* extras get the pass's action
        relieve : [notes : {"never", "reaped", "always"}, \* the slots it clears
                   asksRole : BOOLEAN,        \* returns for a user_role
                   nullGeneration : BOOLEAN], \* unregisters with NULL
        checks : BOOLEAN]                     \* register looks at uid and malloc

Version_214 == [exitsAtOnce |-> TRUE, signalsExtras |-> TRUE]
Version_649 == [exitsAtOnce |-> FALSE, signalsExtras |-> FALSE]
Relieve(n) == [notes |-> n, asksRole |-> FALSE, nullGeneration |-> FALSE]
Version_215 == Relieve("never")
Version_555 == Relieve("always")
Version_573 == Relieve("always")
Version_653 == [Relieve("always") EXCEPT !.nullGeneration = TRUE]
Version_555_safe == [Relieve("reaped") EXCEPT !.asksRole = TRUE]
Version_573_safe == [Relieve("reaped") EXCEPT !.asksRole = TRUE]
Checks_37 == FALSE
Checks_60 == FALSE
Checks_65 == FALSE
Checks_60_safe == TRUE

VARIABLES
  version,
  entitled,    \* user_role = 0, and current_user_uid = allowed_uid
  at,          \* where the parent is
  how,         \* what it was asked for
  timeout,     \* the timeout that is configured
  again,       \* shutdown_pending set a second time, during the wait
  slotOf,      \* ap_get_scoreboard_process(i)->pid
  extras,      \* the list of extra processes
  os,          \* what the operating system knows of a process
  told,        \* the last thing a process was told
  deaf,        \* the processes that are deaf this time
  clock,       \* time since the wait or the reclaim began
  waittime,    \* the number of sleeps of a reclaim so far, up to 3
  next_action,
  refused      \* history: processes whose registration was refused

parentVars == <<at, how, again, clock, waittime, next_action>>
childVars == <<slotOf, extras, os, told>>
setting == <<version, entitled, deaf, timeout>>
stopVars == <<setting, refused, parentVars, childVars>>

Alive(p) == os[p] \in {"running", "zombie"}
InSlots == {slotOf[s] : s \in StopSlots} \ {None}

StopInit ==
  /\ version \in Versions
  /\ entitled \in BOOLEAN
  /\ version.checks \/ version.relieve.asksRole \/ entitled
  /\ at = "main" /\ how = "none" /\ again = FALSE
  /\ slotOf = FirstChild
  /\ extras = {}
  /\ os = [p \in Procs |-> IF p \in InSlots THEN "running" ELSE "none"]
  /\ told = [p \in Procs |-> "nothing"]
  /\ deaf \in DeafSets /\ timeout \in Timeouts
  /\ clock = 0 /\ waittime = 0 /\ next_action = 1
  /\ refused = {}
-----------------------------------------------------------------------------
(* The main loop *)

\* Idle maintenance asks the child of a slot to leave; it quiesces.
Retire(s) ==
  /\ at = "main"
  /\ slotOf[s] # None /\ told[slotOf[s]] = "nothing"
  /\ told' = [told EXCEPT ![slotOf[s]] = "graceful"]
  /\ UNCHANGED <<setting, refused, parentVars, slotOf, extras, os>>

\* The slot of a quiescing child is given to a new one, the old one registered.
\* Without memory or right the copy that checks registers nothing; the others
\* write through malloc's NULL.
Reuse(s, p, memory) ==
  LET old == slotOf[s]
      registers == memory /\ (version.checks => entitled)
  IN
  /\ at = "main"
  /\ old # None /\ Alive(old) /\ told[old] = "graceful"
  /\ os[p] = "none"
  /\ IF registers \/ version.checks
     THEN /\ extras' = IF registers THEN extras \cup {old} ELSE extras
          /\ refused' = IF registers THEN refused ELSE refused \cup {old}
          /\ slotOf' = [slotOf EXCEPT ![s] = p]
          /\ os' = [os EXCEPT ![p] = "running"]
          /\ UNCHANGED at
     ELSE at' = "crashed" /\ UNCHANGED <<extras, refused, slotOf, os>>
  /\ UNCHANGED <<setting, how, again, clock, waittime, next_action, told>>

\* What happens to a process that was waited for: its slot or its entry goes.
SlotsWithout(S) == [s \in StopSlots |-> IF slotOf[s] \in S THEN None ELSE slotOf[s]]
WaitFor(S) == os' = [p \in Procs |-> IF p \in S THEN "gone" ELSE os[p]]

\* ap_wait_or_timeout found a dead child.
WaitOrTimeout(p) ==
  /\ at = "main"
  /\ os[p] = "zombie"
  /\ WaitFor({p})
  /\ slotOf' = SlotsWithout({p})
  /\ extras' = extras \ {p}
  /\ UNCHANGED <<setting, refused, parentVars, told>>
-----------------------------------------------------------------------------
(* The end *)

\* ap_event_pod_killpg: every child in a slot reads one byte of its pod.
Louder(p, word) == IF told[p] \in {"term", "kill"} THEN told[p] ELSE word
Killpg(word, slots) ==
  told' = [p \in Procs |-> IF \E s \in StopSlots : slots[s] = p THEN Louder(p, word) ELSE told[p]]

\* reclaim_one_pid succeeds on a process that is dead or was waited for before.
Reclaimable(p) == os[p] \in {"zombie", "gone"}

\* ap_relieve_child_processes: which slots it clears, and which entries.
NotesBlindly(p) == TRUE   \* mutant
Notes(p) ==
  CASE version.relieve.notes = "never" -> FALSE
    [] version.relieve.notes = "reaped" -> Reclaimable(p)
    [] version.relieve.notes = "always" -> TRUE
RelieveReturns == version.relieve.asksRole /\ ~entitled
RelieveCrashes == version.relieve.nullGeneration /\ extras # {}
RelieveChildren ==
  LET known == InSlots \cup extras
      noted == {p \in known : Notes(p)}
  IN
  IF RelieveReturns
  THEN UNCHANGED <<slotOf, extras, os>>
  ELSE /\ WaitFor({p \in known : Reclaimable(p)})
       /\ slotOf' = SlotsWithout(noted)
       /\ extras' = extras \ noted

StartReclaim == at' = "reclaim" /\ clock' = 0 /\ waittime' = 0 /\ next_action' = 1

\* A stop or a restart, not graceful.
StopNow(h) ==
  /\ at = "main"
  /\ how' = h
  /\ Killpg("now", slotOf)
  /\ StartReclaim
  /\ UNCHANGED <<setting, refused, again, slotOf, extras, os>>

\* A graceful stop: the listeners are closed, the children asked to finish.
StopGracefully ==
  /\ at = "main"
  /\ how' = "graceful"
  /\ Killpg("graceful", slotOf)
  /\ RelieveChildren
  /\ at' = IF RelieveCrashes THEN "crashed" ELSE "wait"
  /\ clock' = 0
  /\ UNCHANGED <<setting, refused, again, waittime, next_action>>

\* The signal comes again.
StopAgain ==
  /\ at = "wait"
  /\ again' = TRUE
  /\ UNCHANGED <<setting, refused, childVars, at, how, clock,
                 waittime, next_action>>

\* ap_mpm_safe_kill(pid, 0) on the slots: a zombie counts, a reaped process not.
EveryChild(slots, procs) ==   \* mutant
  \A s \in StopSlots : slots[s] # None /\ procs[slots[s]] \in {"running", "zombie"}
EveryPid(slots, procs) ==   \* mutant
  \E s \in StopSlots : slots[s] # None
ActiveChildren(slots, procs) ==
  \E s \in StopSlots : slots[s] # None /\ procs[slots[s]] \in {"running", "zombie"}

\* One turn of the wait: a second, a relief, a look at the children.
WaitOneSecond ==
  /\ at = "wait"
  /\ RelieveChildren
  /\ LET now == IF timeout = 0 THEN 0 ELSE clock + Second
         goesOn == /\ ~again
                   /\ ActiveChildren(slotOf', os')
                   /\ timeout = 0 \/ now < timeout
     IN
     IF RelieveCrashes
     THEN at' = "crashed" /\ UNCHANGED <<clock, waittime, next_action, told>>
     ELSE IF goesOn
          THEN clock' = now /\ UNCHANGED <<at, waittime, next_action, told>>
          ELSE StartReclaim /\ Killpg("now", slotOf')
  /\ UNCHANGED <<setting, refused, how, again>>

\* action_table
ActionTable ==
  <<[action |-> "SIGTERM", time |-> 3 * Second], [action |-> "SIGTERM", time |-> 5 * Second],
    [action |-> "SIGTERM", time |-> 7 * Second], [action |-> "SIGKILL", time |-> 9 * Second],
    [action |-> "GIVEUP", time |-> 10 * Second]>>

\* 16, 64 and 256 milliseconds round to nothing, then a second.
Sleep == IF waittime < 3 THEN 0 ELSE Second

\* The action of a pass, and the next one in the table after it.  A parent that
\* was kept from running for a while catches up one action at a time.
SkipsPassed(now) ==   \* mutant
  LET passed == {k \in next_action .. 5 : ActionTable[k].time <= now}
  IN  IF passed = {} THEN 0 ELSE CHOOSE k \in passed : \A j \in passed : j <= k
CurAction(now) == IF ActionTable[next_action].time <= now THEN next_action ELSE 0

\* reclaim_one_pid's signal to a process that is still there.
Signalled(p, action) ==
  CASE action = "SIGTERM" -> Louder(p, "term")
    [] action = "SIGKILL" -> "kill"
    [] OTHER -> told[p]

\* One turn of ap_reclaim_child_processes, late by some time.
ReclaimPass(late) ==
  LET now == clock + Sleep + late
      cur == CurAction(now)
      action == IF cur = 0 THEN "DO_NOTHING" ELSE ActionTable[cur].action
      known == InSlots \cup extras
      left == {p \in known : ~Reclaimable(p)}
      hit == IF version.reclaim.signalsExtras THEN left ELSE left \cap InSlots
  IN
  /\ at = "reclaim"
  /\ clock' = now
  /\ waittime' = IF waittime < 3 THEN waittime + 1 ELSE waittime
  /\ next_action' = IF cur = 0 THEN next_action ELSE cur + 1
  /\ told' = [p \in Procs |-> IF p \in hit THEN Signalled(p, action) ELSE told[p]]
  /\ WaitFor(known \ left)
  /\ slotOf' = SlotsWithout(known \ left)
  /\ extras' = extras \cap left
  /\ at' = IF version.reclaim.exitsAtOnce THEN "done"
           ELSE IF left # {} /\ action # "GIVEUP" THEN "reclaim"
           ELSE IF how = "restart" THEN "restarted" ELSE "done"
  /\ UNCHANGED <<setting, refused, how, again>>
-----------------------------------------------------------------------------
(* The children *)

\* A child that was told to leave has finished its connections.
Finish(p) ==
  /\ os[p] = "running"
  /\ told[p] = "kill" \/ (told[p] # "nothing" /\ p \notin deaf)
  /\ os' = [os EXCEPT ![p] = "zombie"]
  /\ UNCHANGED <<setting, refused, parentVars, slotOf, extras, told>>

ChildDies(p) ==
  /\ os[p] = "running"
  /\ os' = [os EXCEPT ![p] = "zombie"]
  /\ UNCHANGED <<setting, refused, parentVars, slotOf, extras, told>>
-----------------------------------------------------------------------------
Main ==
  \/ \E s \in StopSlots : Retire(s) \/ \E p \in Procs, memory \in BOOLEAN : Reuse(s, p, memory)
  \/ \E p \in Procs : WaitOrTimeout(p)
  \/ \E h \in {"stop", "restart"} : StopNow(h)
  \/ StopGracefully
Reclaim == \E late \in {0, 3 * Second} : ReclaimPass(late)

StopNext ==
  \/ Main \/ StopAgain \/ WaitOneSecond \/ Reclaim
  \/ \E p \in Procs : Finish(p) \/ ChildDies(p)

StopSpec == StopInit /\ [][StopNext]_stopVars

\* The parent's loops run on, and a child that was told and hears leaves in the
\* end; nobody has to ask for a stop.
FairStopSpec ==
  /\ StopSpec
  /\ WF_stopVars(WaitOneSecond) /\ WF_stopVars(Reclaim)
  /\ \A p \in Procs : WF_stopVars(Finish(p))
-----------------------------------------------------------------------------
StopTypeOK ==
  /\ version \in Versions /\ entitled \in BOOLEAN
  /\ at \in {"main", "wait", "reclaim", "done", "restarted", "crashed"}
  /\ how \in {"none", "stop", "restart", "graceful"} /\ again \in BOOLEAN
  /\ slotOf \in [StopSlots -> Procs \cup {None}]
  /\ extras \in SUBSET Procs
  /\ os \in [Procs -> {"none", "running", "zombie", "gone"}]
  /\ told \in [Procs -> {"nothing", "graceful", "now", "term", "kill"}]
  /\ deaf \in DeafSets /\ timeout \in Timeouts /\ refused \in SUBSET Procs
  /\ clock \in Nat /\ waittime \in 0 .. 3 /\ next_action \in 1 .. 6

\* No child that still exists is forgotten: it stays in its slot or on the list
\* until it was waited for, through reuse of slots, relief and reclaim.  (The
\* copies of relief that clear a slot without looking at what reclaim_one_pid
\* said are left out, and the process whose registration was refused.)
NobodyForgotten ==
  version.relieve.notes # "always" =>
    \A p \in Procs \ refused : Alive(p) => p \in InSlots \cup extras

\* When the parent is done with reclaiming, no child is left in a slot that has
\* not been sent SIGKILL, however late the parent woke.  (The copy that exits
\* after one pass leaves them all.)
KilledBeforeGivenUp ==
  at \in {"done", "restarted"} /\ ~version.reclaim.exitsAtOnce =>
    \A p \in InSlots : told[p] = "kill"

\* A child is killed only after it was asked by SIGTERM, although the parent may
\* wake long after both were due.
KillComesLast == \A p \in Procs : told'[p] = "kill" => told[p] \in {"term", "kill"}

\* The escalation is carried through and skips nothing, though it follows the clock and
\* moves one action a turn.
Escalates == [][KillComesLast /\ KilledBeforeGivenUp']_stopVars

\* A graceful stop cuts no child short: the wait is left only when none is
\* running any more, the timeout has passed or the signal came again.
GracefulWaits ==
  [][at = "wait" /\ at' = "reclaim" /\ version.relieve.notes # "always" =>
       \/ again
       \/ timeout > 0 /\ clock + Second >= timeout
       \/ \A p \in Procs \ (extras \cup refused) : os[p] # "running"]_stopVars

\* Whatever the children do a stop ends; a graceful one without a timeout waits
\* for those that do not hear, and for ever where relief waits for nobody.
StopEnds ==
  how # "none" ~>
    \/ at \in {"done", "restarted", "crashed"}
    \/ at = "wait" /\ timeout = 0 /\ (deaf # {} \/ RelieveReturns)
=============================================================================
