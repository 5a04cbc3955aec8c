---------------------------- MODULE ChildThreads ----------------------------
(***************************************************************************)
(* The threads of one child of the event MPM, from its start to its end.   *)
(* start_threads (761_1.c) creates the workers and, through                *)
(* create_listener_thread, the listener; the listener feeds the workers'   *)
(* queue (FdQueue) until it is told to leave, closes the listening sockets *)
(* (close_listeners) and ends the queue; the main thread, told to stop,    *)
(* waits for all of them (join_workers).                                   *)
(*                                                                         *)
(* The main thread's wait for a stop and the body of the listener are not  *)
(* in the sources; they are modelled from what these functions rely on.    *)
(* What is not told apart: copies of create_listener_thread that differ in *)
(* a thread's attributes, in the fields of proc_info, in the pool, or in   *)
(* what they log; the queues of pollset operations.                        *)
(***************************************************************************)
EXTENDS FdQueue

CONSTANTS
  Any,           \* a copy that has not been told from the others so far
  Listeners,     \* copies of create_listener_thread
  Closers,       \* copies of close_listeners
  Joiners,       \* copies of join_workers
  MaxTries       \* how often join_workers wakes the listener (10 in the code)

ASSUME ChildAssumption ==
  /\ Workers = 0 .. bounds - 1    \* threads_per_child of each
  /\ MaxTries \in Nat

(***************************************************************************)
(*   fails     what a failed creation leads to: the child's exit, or       *)
(*             nothing, though there is no listener                        *)
(*   denies    what it does where it may not create one                    *)
(*   closes    always, or only for the role 0                              *)
(*   wakes     it wakes the listener before it waits for it                *)
(***************************************************************************)
Listener_491 == [fails |-> "exits", denies |-> "never"]
Listener_1010 == Listener_491
Listener_366 == Listener_491
Listener_495 == Listener_491
Listener_412 == Listener_491
Listener_468 == Listener_491
Listener_462 == Listener_491
Listener_329 == Listener_491
Listener_391 == Listener_491
Listener_255 == Listener_491
Listener_504 == Listener_491
Listener_311 == Listener_491
Listener_571 == Listener_491
Listener_473 == Listener_491
Listener_393 == Listener_491
Listener_249 == Listener_491
Listener_575 == Listener_491
Listener_320 == Listener_491
Listener_585 == Listener_491
Listener_426 == Listener_491
Listener_583 == Listener_491
Listener_448 == Listener_491
Listener_620 == Listener_491
Listener_247 == Listener_491
Listener_397 == Listener_491
Listener_597 == Listener_491
Listener_304 == [Listener_491 EXCEPT !.fails = "goes on"]
Listener_759 == Listener_304
Listener_343 == Listener_304
Listener_559 == Listener_304
Listener_561 == Listener_304
Listener_586 == Listener_304
Listener_178 == Listener_304
Listener_391_safe == [Listener_491 EXCEPT !.denies = "exits"]
Listener_473_safe == Listener_391_safe
Listener_491_safe == [Listener_491 EXCEPT !.denies = "goes on"]
Close_619 == [closes |-> "always"]
Close_619_safe == [closes |-> "role 0"]
Join_796 == [wakes |-> TRUE]
Join_768 == [wakes |-> FALSE]
-----------------------------------------------------------------------------
VARIABLES
  main, tries,         \* the main thread, and its iter in join_workers
  starter, i,          \* start_threads and the index of its loop
  busy,                \* slots that a thread of an earlier child still holds
  listener,            \* the listener thread
  dying,
  copies               \* the copies that have made a difference

mainVars == <<main, tries>>
starterVars == <<starter, i, busy>>
childVars == <<mainVars, starterVars, listener, dying, copies>>

NoCopies == [listener |-> Any, closer |-> Any, joiner |-> Any]
ChildInit ==
  /\ Init
  /\ main = "run" /\ tries = 0
  /\ starter = "workers" /\ i = 0 /\ busy \in SUBSET Workers
  /\ listener = "none"
  /\ dying = FALSE
  /\ copies = NoCopies

Up == main # "gone"
\* signal_threads and join_start_thread set them at once.
listener_may_exit == main # "run"
start_thread_may_exit == main # "run"
Created == {w \in Workers : pc[w] # "unborn"}
\* clean_child_exit, in whatever thread, ends the process.
CleanChildExit == main' = "gone" /\ UNCHANGED <<vars, tries, starterVars, listener, dying>>
-----------------------------------------------------------------------------
(* start_threads *)

CreateWorker ==
  /\ Up /\ starter = "workers" /\ i \in Workers
  /\ i \notin busy /\ i \notin Created
  /\ \/ Born(i) /\ i' = i + 1 /\ UNCHANGED <<mainVars, starter, busy, listener, dying, copies>>
     \/ CleanChildExit /\ UNCHANGED copies

SkipWorker ==
  /\ Up /\ starter = "workers" /\ i \in Workers
  /\ i \in busy \cup Created
  /\ i' = i + 1
  /\ UNCHANGED <<vars, mainVars, starter, busy, listener, dying, copies>>

EarlierLeaves(w) ==
  /\ Up /\ w \in busy
  /\ busy' = busy \ {w}
  /\ UNCHANGED <<vars, mainVars, starter, i, listener, dying, copies>>

\* create_listener_thread, once there is a worker.
StartsListener == i \notin Workers /\ listener = "none" /\ Created # {}
                  /\ copies.listener = Any
NoExit(copy) == {"goes on"}     \* mutant
Outcomes(copy) == {copy.fails, copy.denies} \ {"never"}

CreateListener ==
  /\ Up /\ starter = "workers" /\ StartsListener
  /\ listener' = "check"
  /\ UNCHANGED <<vars, mainVars, starterVars, dying, copies>>

\* The process ends, or goes on without a listener; where apr_os_thread_get
\* then reads the thread that is not there, it can end as well.
CreateListenerFails ==
  /\ Up /\ starter = "workers" /\ StartsListener
  /\ \E copy \in Listeners : \E outcome \in Outcomes(copy) :
       /\ copies' = [copies EXCEPT !.listener = copy]
       /\ \/ outcome = "goes on" /\ UNCHANGED <<vars, mainVars, starterVars, listener, dying>>
          \/ CleanChildExit

\* Through with the loop over the slots: enough, or again after a second.  When
\* it ends, nothing looks at the slots any more.
EndsStart == start_thread_may_exit \/ Created = Workers
Decide ==
  /\ Up /\ starter = "workers" /\ i \notin Workers /\ ~StartsListener
  /\ i' = 0
  /\ IF EndsStart THEN starter' = "exited" /\ busy' = {} ELSE UNCHANGED <<starter, busy>>
  /\ UNCHANGED <<vars, mainVars, listener, dying, copies>>
-----------------------------------------------------------------------------
(* The listener *)

At(from, to) == Up /\ listener = from /\ listener' = to
OnlyListener == UNCHANGED <<mainVars, starterVars, dying, copies>>

\* It looks at listener_may_exit, or has served MaxConnectionsPerChild, before
\* it enters the poll; a wakeup between the two is lost.
Check ==
  /\ \/ At("check", "enter") /\ ~listener_may_exit
     \/ At("check", "closing")
  /\ OnlyListener /\ UNCHANGED vars
EnterPoll == At("enter", "poll") /\ OnlyListener /\ UNCHANGED vars
Listen ==
  /\ \/ At("poll", "check")
     \/ At("draining", "draining")
  /\ OnlyListener
  /\ PushSocket \/ PushTimer

\* What becomes of a listener that was refused is not pursued.
Closes(closer) ==
  /\ At("closing", "draining")
  /\ dying' = TRUE
  /\ InterruptAll
CloseListeners ==
  /\ UNCHANGED <<mainVars, starterVars>>
  /\ \E copy \in Closers :
       \/ Closes(copy) /\ UNCHANGED copies
       \/ /\ copy.closes = "role 0" /\ At("closing", "refused")
          /\ copies' = [copies EXCEPT !.closer = copy]
          /\ UNCHANGED <<vars, dying>>

EndQueue == At("draining", "ending") /\ Terminate /\ OnlyListener
LeaveListener == At("ending", "exited") /\ TerminateWakes /\ OnlyListener
-----------------------------------------------------------------------------
(* The main thread *)

Woken == IF listener = "poll" THEN "check" ELSE listener

\* signal_threads, for the pipe of death or the SIGTERM of close_listeners.
Stop ==
  /\ main = "run" /\ main' = "join starter"
  /\ listener' = Woken
  /\ UNCHANGED <<vars, tries, starterVars, dying, copies>>

JoinStarter ==
  /\ main = "join starter" /\ starter = "exited"
  /\ main' = IF listener = "none" THEN "join workers" ELSE "listener"
  /\ UNCHANGED <<vars, tries, starterVars, listener, dying, copies>>

\* apr_sleep: half a second is longer than the way into the poll.
Tries == MaxTries
WakeListener ==
  /\ main = "listener"
  /\ tries < Tries /\ ~dying /\ listener # "enter"
  /\ tries' = tries + 1
  /\ listener' = Woken
  /\ UNCHANGED <<vars, main, starterVars, dying, copies>>

\* apr_thread_join of the listener, or leaving it alone after the last try.
JoinListener ==
  /\ main = "listener"
  /\ \/ tries >= Tries /\ main' = "join workers"
     \/ tries < Tries /\ dying /\ listener = "exited" /\ main' = "join workers"
  /\ tries' = 0
  /\ UNCHANGED <<vars, starterVars, listener, dying, copies>>

JoinUnwoken ==
  /\ main = "listener" /\ tries = 0
  /\ \E copy \in Joiners : ~copy.wakes /\ copies' = [copies EXCEPT !.joiner = copy]
  /\ main' = "join listener"
  /\ UNCHANGED <<vars, tries, starterVars, listener, dying>>
JoinSleeper ==
  /\ main = "join listener" /\ listener = "exited"
  /\ main' = "join workers"
  /\ UNCHANGED <<vars, tries, starterVars, listener, dying, copies>>

JoinWorkers ==
  /\ main = "join workers"
  /\ \A w \in Created : pc[w] = "exited"
  /\ main' = "gone"
  /\ UNCHANGED <<vars, tries, starterVars, listener, dying, copies>>
-----------------------------------------------------------------------------
StartThreads == CreateWorker \/ SkipWorker \/ CreateListener \/ CreateListenerFails \/ Decide
Listener == Check \/ EnterPoll \/ CloseListeners \/ EndQueue \/ LeaveListener
Main == JoinStarter \/ WakeListener \/ JoinListener \/ JoinSleeper \/ JoinWorkers
WorkerStep(w) == Up /\ Worker(w) /\ UNCHANGED childVars

ChildNext ==
  \/ StartThreads \/ Listener \/ Listen \/ Main \/ Stop \/ JoinUnwoken
  \/ \E w \in Workers :
       \/ WorkerStep(w)
       \/ EarlierLeaves(w)
       \/ Up /\ SpuriousWakeup(w) /\ UNCHANGED childVars

allVars == <<vars, childVars>>
ChildSpec == ChildInit /\ [][ChildNext]_allVars

\* Threads are scheduled, and a contended mutex is not withheld for ever; an
\* earlier child's threads and a client may take any time.
TakesMutex(w) == Up /\ (PopLock(w) \/ Resume(w)) /\ UNCHANGED childVars
Fairness ==
  /\ \A w \in Workers : WF_allVars(WorkerStep(w)) /\ SF_allVars(TakesMutex(w))
  /\ WF_allVars(StartThreads)
  /\ WF_allVars(Main \/ (dying /\ Stop))
  /\ WF_allVars(Check \/ EnterPoll)
  /\ SF_allVars(CloseListeners \/ EndQueue \/ LeaveListener)
FairSpec == ChildSpec /\ Fairness
-----------------------------------------------------------------------------
\* Every socket and timer is taken by a worker: the queue becomes empty again and
\* again, unless the child is stopped.  (When it is stopped something can be left:
\* terminated is read after the mutex was given up.)
EverythingTaken == []<>(ap_queue_empty \/ terminated \/ ~Up)

\* A child that is to leave does so, wherever its start, its listener and its
\* workers are: none of the joins waits for a thread that waits for ever.  Not
\* for copies that go on without a listener, that do not close for every role,
\* or that wait for the listener without having woken it for certain.
Excused ==
  \/ copies.listener # Any /\ "goes on" \in {copies.listener.fails, copies.listener.denies}
  \/ copies.closer # Any
  \/ copies.joiner # Any
ChildLeaves == (main # "run" \/ dying) ~> (~Up \/ Excused)

\* What was accepted has room in the ring and is served, and what is to stop stops.
WorkEnds == []NeverFull /\ EverythingTaken /\ ChildLeaves
=============================================================================
