------------------------------ MODULE FdQueue -------------------------------
(***************************************************************************)
(* ap_queue_pop_something (752_1.c): the worker threads' end of the queue  *)
(* of sockets and timers in a child of the event MPM.  The queue is a ring *)
(* of `bounds` sockets and a list of timers under one mutex, with one      *)
(* condition variable.  The other end (ap_queue_push, the listener's count *)
(* of idle workers, interrupting and terminating) is not in the sources    *)
(* and is modelled from how this end relies on it.                         *)
(***************************************************************************)
EXTENDS Integers, Sequences, FiniteSets

CONSTANTS
  Workers,    \* the worker threads
  Nobody,     \* no thread: who holds a free mutex
  Nothing,    \* no socket and no timer
  bounds,     \* the size of the ring
  MaxItems,   \* bound: sockets and timers pushed
  MaxWakeups  \* bound: spurious wakeups

ASSUME QueueAssumption ==
  /\ bounds \in Nat \ {0} /\ MaxItems \in Nat /\ MaxWakeups \in Nat
  /\ Nobody \notin Workers /\ Nothing \notin 1 .. MaxItems

Items == 1 .. MaxItems

VARIABLES
  data, in, out, nelts, \* the ring
  timers,
  terminated, woken,    \* ap_queue_term has set the flag, has woken the waiters
  one_big_mutex,        \* who holds it
  not_empty,            \* the threads that wait on the condition variable
  pc,                   \* where each worker is
  got,                  \* what each worker has been given
  is_idle, idlers,      \* each worker's is_idle, the listener's count of idlers
  pushed, wakeups

queueVars == <<data, in, out, nelts, timers, terminated>>
countVars == <<is_idle, idlers, pushed, wakeups, woken>>
vars == <<queueVars, one_big_mutex, not_empty, pc, got, countVars>>

ap_queue_empty == nelts = 0 /\ timers = <<>>

Init ==
  /\ data = [k \in 0 .. bounds - 1 |-> Nothing]
  /\ in = 0 /\ out = 0 /\ nelts = 0
  /\ timers = <<>>
  /\ terminated = FALSE /\ woken = FALSE
  /\ one_big_mutex = Nobody
  /\ not_empty = {}
  /\ pc = [w \in Workers |-> "unborn"]
  /\ got = [w \in Workers |-> Nothing]
  /\ is_idle = [w \in Workers |-> FALSE]
  /\ idlers = 0
  /\ pushed = 0
  /\ wakeups = 0

Go(w, from, to) == pc[w] = from /\ pc' = [pc EXCEPT ![w] = to]
Lock(w) == one_big_mutex = Nobody /\ one_big_mutex' = w
Unlock(w) == one_big_mutex = w /\ one_big_mutex' = Nobody
-----------------------------------------------------------------------------
(* A worker *)

\* apr_thread_create.
Born(w) ==
  /\ Go(w, "unborn", "idle")
  /\ UNCHANGED <<queueVars, one_big_mutex, not_empty, got, countVars>>

\* worker_thread reports itself idle once, before it asks for work.
SetIdle(w) ==
  /\ Go(w, "idle", "lock")
  /\ is_idle' = [is_idle EXCEPT ![w] = TRUE]
  /\ idlers' = IF is_idle[w] THEN idlers ELSE idlers + 1
  /\ UNCHANGED <<queueVars, one_big_mutex, not_empty, got, pushed, wakeups, woken>>

PopLock(w) ==
  /\ Go(w, "lock", "locked")
  /\ Lock(w)
  /\ UNCHANGED <<queueVars, not_empty, got, countVars>>

\* The queue is empty and in use: wait, giving the mutex away.
MustWait(w) == ap_queue_empty /\ ~terminated
Wait(w) ==
  /\ Go(w, "locked", "waiting")
  /\ MustWait(w)
  /\ Unlock(w)
  /\ not_empty' = not_empty \cup {w}
  /\ UNCHANGED <<queueVars, got, countVars>>

\* apr_thread_cond_wait returns with the mutex.
Resume(w) ==
  /\ Go(w, "waiting", "resumed")
  /\ w \notin not_empty
  /\ Lock(w)
  /\ UNCHANGED <<queueVars, not_empty, got, countVars>>

\* Empty, without or after a wait: leave with nothing.
PopNothing(w) ==
  /\ \/ Go(w, "locked", "result") /\ terminated
     \/ Go(w, "resumed", "result")
  /\ ap_queue_empty
  /\ Unlock(w)
  /\ UNCHANGED <<queueVars, not_empty, got, countVars>>

\* terminated is read after the mutex was given back.  APR_EOF ends the thread;
\* after APR_EINTR it asks again, still counted as idle.
Result(w) ==
  /\ Go(w, "result", IF terminated THEN "exited" ELSE "lock")
  /\ UNCHANGED <<queueVars, one_big_mutex, not_empty, got, countVars>>

\* An index that is no more than one round ahead.
Wrapped(k) == IF k >= bounds THEN k - bounds ELSE k

\* The index of the next socket to hand out.
OutNext == Wrapped(out + 1)

\* What is left in the ring when it has been handed out.
ForgetsToCount == nelts   \* mutant
LeftInRing == nelts - 1

PopSomething(w) ==
  /\ pc[w] \in {"locked", "resumed"}
  /\ pc' = [pc EXCEPT ![w] = "work"]
  /\ ~ap_queue_empty
  /\ Unlock(w)
  /\ IF timers # <<>>
     THEN /\ got' = [got EXCEPT ![w] = Head(timers)]
          /\ timers' = Tail(timers)
          /\ UNCHANGED <<out, nelts, is_idle>>
     ELSE /\ got' = [got EXCEPT ![w] = data[out]]
          /\ out' = OutNext
          /\ nelts' = LeftInRing
          /\ is_idle' = [is_idle EXCEPT ![w] = FALSE]
          /\ UNCHANGED timers
  /\ UNCHANGED <<data, in, terminated, not_empty, idlers, pushed, wakeups, woken>>

Work(w) ==
  /\ Go(w, "work", "idle")
  /\ got' = [got EXCEPT ![w] = Nothing]
  /\ UNCHANGED <<queueVars, one_big_mutex, not_empty, countVars>>
-----------------------------------------------------------------------------
(* The listener: ChildThreads says when *)

\* apr_thread_cond_signal wakes one waiter, if there is one.
SignalOne ==
  IF not_empty = {} THEN UNCHANGED not_empty
  ELSE \E w \in not_empty : not_empty' = not_empty \ {w}

\* ap_queue_push, for which the listener has reserved an idle worker.
PushSocket ==
  /\ one_big_mutex = Nobody
  /\ pushed < MaxItems /\ pushed' = pushed + 1
  /\ ~terminated
  /\ idlers > 0 /\ idlers' = idlers - 1
  /\ data' = [data EXCEPT ![in] = pushed']
  /\ in' = Wrapped(in + 1)
  /\ nelts' = nelts + 1
  /\ SignalOne
  /\ UNCHANGED <<out, timers, terminated, one_big_mutex, pc, got, is_idle, wakeups, woken>>

\* ap_queue_push_timer.
PushTimer ==
  /\ one_big_mutex = Nobody
  /\ pushed < MaxItems /\ pushed' = pushed + 1
  /\ ~terminated
  /\ timers' = Append(timers, pushed')
  /\ SignalOne
  /\ UNCHANGED <<data, in, out, nelts, terminated, one_big_mutex, pc, got, is_idle,
                 idlers, wakeups, woken>>

\* ap_queue_interrupt_all, as close_listeners calls it.
InterruptAll ==
  /\ one_big_mutex = Nobody
  /\ not_empty' = {}
  /\ UNCHANGED <<queueVars, one_big_mutex, pc, got, countVars>>

SpuriousWakeup(w) ==
  /\ wakeups < MaxWakeups /\ wakeups' = wakeups + 1
  /\ w \in not_empty
  /\ not_empty' = not_empty \ {w}
  /\ UNCHANGED <<queueVars, one_big_mutex, pc, got, is_idle, idlers, pushed, woken>>

\* ap_queue_term sets the flag under the mutex and wakes everybody after it.
Terminate ==
  /\ one_big_mutex = Nobody
  /\ ~terminated
  /\ terminated' = TRUE
  /\ UNCHANGED <<data, in, out, nelts, timers, one_big_mutex, not_empty, pc, got, countVars>>
TerminateWakes ==
  /\ one_big_mutex = Nobody
  /\ terminated /\ ~woken
  /\ woken' = TRUE
  /\ not_empty' = {}
  /\ UNCHANGED <<queueVars, one_big_mutex, pc, got, is_idle, idlers, pushed, wakeups>>
-----------------------------------------------------------------------------
Worker(w) ==
  \/ SetIdle(w) \/ PopLock(w) \/ Wait(w) \/ Resume(w)
  \/ PopNothing(w) \/ Result(w) \/ PopSomething(w) \/ Work(w)
-----------------------------------------------------------------------------
TypeOK ==
  /\ data \in [0 .. bounds - 1 -> Items \cup {Nothing}]
  /\ in \in 0 .. bounds - 1 /\ out \in 0 .. bounds - 1 /\ nelts \in 0 .. bounds
  /\ timers \in Seq(Items)
  /\ terminated \in BOOLEAN /\ woken \in BOOLEAN
  /\ one_big_mutex \in Workers \cup {Nobody}
  /\ not_empty \in SUBSET Workers
  /\ pc \in [Workers -> {"unborn", "idle", "lock", "locked", "waiting", "resumed", "result",
                         "work", "exited"}]
  /\ got \in [Workers -> Items \cup {Nothing}]
  /\ is_idle \in [Workers -> BOOLEAN]
  /\ idlers \in Nat /\ pushed \in 0 .. MaxItems /\ wakeups \in 0 .. MaxWakeups

\* The ring as the sequence it stands for.
Sockets == [k \in 1 .. nelts |-> data[Wrapped(out + k - 1)]]

\* The queue implements the abstract one: first in, first out, timers first, each
\* item to one worker, through the wrap-around of the ring and every wakeup.
Queue == INSTANCE WorkQueue WITH sockets <- Sockets
QueueSpec == Queue!Spec

\* The ring, which is never tested for being full, cannot overflow: the listener
\* pushes only what an idle worker was reserved for, and a worker that was woken
\* for nothing does not report itself idle a second time.
NeverFull == nelts + idlers <= Cardinality({w \in Workers : is_idle[w]})
=============================================================================
