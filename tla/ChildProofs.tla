----------------------------- MODULE ChildProofs -----------------------------
(***************************************************************************)
(* The children.                                                           *)
(*                                                                         *)
(* Prefork: for any number of children and listeners and for every copy of *)
(* child_main that takes the accept mutex, one child at a time polls and   *)
(* accepts, what poll said still holds when the child accepts, and, in     *)
(* the copies that give it back when poll fails, no child leaves with it.  *)
(* A child whose generation has ended takes one connection more at most.   *)
(*                                                                         *)
(* Event: for any number of threads, the ring and the list of timers are   *)
(* a first-in first-out queue, and the ring is never overrun.              *)
(***************************************************************************)
EXTENDS Prefork, ChildThreads, FiniteSetTheorems, SequenceTheorems, TLAPS

MutexInv ==
  /\ place \in [Children -> Running \cup {"exited"}]
  /\ owner \in Children \cup {None}
  /\ version \in Versions
  /\ Version.serializes => \A c \in Children : InSection(c) => owner = c
  /\ ~Version.serializes => owner = None
  /\ NoOrphanedMutex

FreshInv ==
  /\ MutexInv
  /\ lr \in [Children -> ListenSockets]
  /\ backlog \in SUBSET ListenSockets
  /\ listening \in [Children -> BOOLEAN]
  /\ PollResultFresh

LEMMA InitMutex == PreforkInit => MutexInv
BY PreforkAssumption DEF PreforkInit, MutexInv, Running, InSection, NoOrphanedMutex

LEMMA StepMutex ==
  ASSUME MutexInv, [PreforkNext]_preforkVars
  PROVE  MutexInv'
<1> USE PreforkAssumption DEF MutexInv, InSection, Running, Moves, Version, NoOrphanedMutex
<1>1. ASSUME NEW c \in Children, Child(c) \/ Outside(c)
      PROVE  MutexInv'
  <2>1. CASE Begin(c) \/ SetupFails(c) \/ Top(c) \/ Serve(c)
    BY <2>1 DEF Begin, SetupFails, Top, Serve
  <2>2. CASE AcceptMutexOn(c)
    BY <2>2 DEF AcceptMutexOn, MutexFree
  <2>3. CASE Poll(c)
    BY <2>3 DEF Poll
  <2>4. CASE PollInterrupted(c) \/ PollFails(c)
    BY <2>4 DEF PollInterrupted, PollFails, ReleaseOnError, Release
  <2>5. CASE Accept(c) \/ AcceptRetries(c) \/ AcceptFails(c)
    BY <2>5 DEF Accept, AcceptRetries, AcceptFails, Release
  <2> QED BY <1>1, <2>1, <2>2, <2>3, <2>4, <2>5 DEF Child, Outside
<1>2. ASSUME NEW c \in Children, MakeChild(c) \/ Signal(c)
      PROVE  MutexInv'
  BY <1>2 DEF MakeChild, Signal
<1>3. CASE GracefulRestart \/ \E l \in ListenSockets : Connect(l)
  BY <1>3 DEF GracefulRestart, Connect
<1>4. CASE UNCHANGED preforkVars
  BY <1>4 DEF preforkVars
<1> QED BY <1>1, <1>2, <1>3, <1>4 DEF PreforkNext

LEMMA StepFresh ==
  ASSUME FreshInv, [PreforkNext]_preforkVars
  PROVE  FreshInv'
<1>0. MutexInv'
  BY StepMutex DEF FreshInv
<1>a. backlog' \in SUBSET ListenSockets
  BY DEF FreshInv, PreforkNext, Child, Outside, Begin, SetupFails, Top, AcceptMutexOn, Poll,
     PollInterrupted, PollFails, Accept, AcceptRetries, AcceptFails, Serve, MakeChild,
     GracefulRestart, Signal, Connect, preforkVars
<1>b. lr' \in [Children -> ListenSockets]
  <2>1. 1 \in ListenSockets
    BY PreforkAssumption DEF ListenSockets
  <2>2. ASSUME NEW d \in Children, Poll(d) PROVE lr' \in [Children -> ListenSockets]
    BY <2>2 DEF Poll, Ready, FreshInv
  <2> QED BY <2>1, <2>2 DEF FreshInv, PreforkNext, Child, Outside, Begin, SetupFails, Top,
     AcceptMutexOn, PollInterrupted, PollFails, Accept, AcceptRetries, AcceptFails, Serve,
     MakeChild, GracefulRestart, Signal, Connect, preforkVars, processVars
<1>c. listening' \in [Children -> BOOLEAN]
  BY DEF FreshInv, PreforkNext, Child, Outside, Begin, SetupFails, Top, AcceptMutexOn, Poll,
     PollInterrupted, PollFails, Accept, AcceptRetries, AcceptFails, Serve, MakeChild,
     GracefulRestart, Signal, Connect, preforkVars, processVars
<1>d. version' = version
  BY DEF PreforkNext, Child, Outside, Begin, SetupFails, Top, AcceptMutexOn, Poll,
     PollInterrupted, PollFails, Accept, AcceptRetries, AcceptFails, Serve, MakeChild,
     GracefulRestart, Signal, Connect, preforkVars
<1>1. SUFFICES ASSUME Version.serializes, NEW c \in Children, (place[c] = "accept")',
                      listening'[c], NumListeners > 1
               PROVE  lr'[c] \in backlog'
  BY <1>0, <1>a, <1>b, <1>c, <1>d DEF FreshInv, PollResultFresh, Version
<1>2. owner' = c
  BY <1>0, <1>1, <1>d DEF MutexInv, InSection, Version
<1> USE PreforkAssumption DEF FreshInv, MutexInv, InSection, Running, Moves, Version
<1>3. ASSUME NEW d \in Children, Child(d) \/ Outside(d)
      PROVE  lr'[c] \in backlog'
  <2>1. CASE Poll(d)
    <3>1. PICK l \in Ready(d) : lr' = [lr EXCEPT ![d] = l]
      BY <2>1 DEF Poll
    <3>2. d = c
      BY <1>2, <2>1 DEF Poll
    <3>3. listening[c] /\ backlog' = backlog
      BY <1>1, <2>1 DEF Poll
    <3>4. l \in backlog
      BY <3>1, <3>2, <3>3 DEF Ready
    <3> QED BY <3>1, <3>2, <3>3, <3>4
  <2>2. CASE AcceptMutexOn(d)
    BY <1>1, <1>2, <2>2 DEF AcceptMutexOn, PollResultFresh
  <2>3. CASE Accept(d) \/ AcceptRetries(d) \/ AcceptFails(d) \/ PollInterrupted(d) \/ PollFails(d)
    BY <1>1, <1>2, <2>3 DEF Accept, AcceptRetries, AcceptFails, PollInterrupted, PollFails,
                            ReleaseOnError, Release
  <2>4. CASE Begin(d) \/ SetupFails(d) \/ Top(d) \/ Serve(d)
    BY <1>1, <2>4 DEF Begin, SetupFails, Top, Serve, processVars, PollResultFresh
  <2> QED BY <1>3, <2>1, <2>2, <2>3, <2>4 DEF Child, Outside
<1>4. ASSUME NEW d \in Children, MakeChild(d)
      PROVE  lr'[c] \in backlog'
  <2>1. d # c
    BY <1>1, <1>4 DEF MakeChild
  <2>2. place[c] = "accept" /\ listening[c] /\ lr'[c] = lr[c] /\ backlog' = backlog
    BY <1>1, <1>4, <2>1 DEF MakeChild
  <2> QED BY <1>1, <2>2 DEF PollResultFresh
<1>5. ASSUME NEW d \in Children, Signal(d)
      PROVE  lr'[c] \in backlog'
  <2>1. listening' = listening \/ listening' = [listening EXCEPT ![d] = FALSE]
    BY <1>5 DEF Signal
  <2>2. listening[c]
    BY <1>1, <2>1
  <2>3. place' = place /\ lr' = lr /\ backlog' = backlog
    BY <1>5 DEF Signal
  <2> QED BY <1>1, <2>2, <2>3 DEF PollResultFresh
<1>6. CASE GracefulRestart \/ \E l \in ListenSockets : Connect(l)
  BY <1>1, <1>6 DEF GracefulRestart, Connect, processVars, PollResultFresh
<1>7. CASE UNCHANGED preforkVars
  BY <1>1, <1>7 DEF preforkVars, processVars, PollResultFresh
<1> QED BY <1>3, <1>4, <1>5, <1>6, <1>7 DEF PreforkNext

\* One child at a time polls and accepts (118_1.c:58-91).
THEOREM Exclusive == PreforkSpec => []OneAcceptor
<1>1. MutexInv /\ [PreforkNext]_preforkVars => MutexInv'
  BY StepMutex
<1>2. MutexInv => OneAcceptor
  BY DEF MutexInv, OneAcceptor
<1> QED BY <1>1, <1>2, InitMutex, PTL DEF PreforkSpec

\* No child leaves child_main with the accept mutex (118_1.c:73, 80, 91).
THEOREM NotOrphaned == PreforkSpec => []NoOrphanedMutex
<1>1. MutexInv /\ [PreforkNext]_preforkVars => MutexInv'
  BY StepMutex
<1>2. MutexInv => NoOrphanedMutex
  BY PreforkAssumption DEF MutexInv, NoOrphanedMutex
<1> QED BY <1>1, <1>2, InitMutex, PTL DEF PreforkSpec

\* What poll said still holds when the child accepts (118_1.c:66-90).
THEOREM Fresh == PreforkSpec => []PollResultFresh
<1>1. FreshInv /\ [PreforkNext]_preforkVars => FreshInv'
  BY StepFresh
<1>2. PreforkInit => FreshInv
  BY InitMutex, PreforkAssumption DEF PreforkInit, FreshInv, PollResultFresh, ListenSockets
<1>3. FreshInv => PollResultFresh
  BY DEF FreshInv
<1> QED BY <1>1, <1>2, <1>3, PTL DEF PreforkSpec
-----------------------------------------------------------------------------
\* A child that took a connection after its generation ended does not take another: it
\* serves, is then told to leave, or has left.
LateOne(c) ==
  /\ ap_my_generation[c] \in Nat /\ ap_my_generation[c] <= running_generation
  /\ stale[c] \in {0, 1}
  /\ stale[c] = 1 =>
       \/ place[c] = "serve" /\ ap_my_generation[c] < running_generation
       \/ place[c] = "top" /\ die_now[c]
       \/ place[c] = "exited"
LateInv ==
  /\ place \in [Children -> Running \cup {"exited"}]
  /\ die_now \in [Children -> BOOLEAN]
  /\ running_generation \in Nat
  /\ ap_my_generation \in [Children -> Nat] /\ stale \in [Children -> Nat]
  /\ \A c \in Children : LateOne(c)

LEMMA InitLate == PreforkInit => LateInv
BY DEF PreforkInit, LateInv, LateOne, Running

LEMMA StepLate ==
  ASSUME LateInv, [PreforkNext]_preforkVars
  PROVE  LateInv'
<1> USE DEF LateInv, LateOne, Running, Moves, processVars, parentVars
<1>1. ASSUME NEW d \in Children, Child(d) \/ Outside(d)
      PROVE  LateInv'
  <2>1. CASE Begin(d) \/ SetupFails(d) BY <2>1 DEF Begin, SetupFails
  <2>2. CASE Top(d) BY <2>2 DEF Top, MustLeave
  <2>3. CASE AcceptMutexOn(d) \/ Poll(d) BY <2>3 DEF AcceptMutexOn, Poll
  <2>4. CASE PollInterrupted(d) \/ PollFails(d) BY <2>4 DEF PollInterrupted, PollFails
  <2>5. CASE Accept(d)
    <3>1. place[d] = "accept" /\ stale[d] = 0 BY <2>5 DEF Accept
    <3>2. stale' \in [Children -> Nat] BY <2>5 DEF Accept, Bump
    <3>3. stale'[d] = 0 \/ (stale'[d] = 1 /\ ap_my_generation[d] # running_generation)
      BY <2>5, <3>1 DEF Accept, Bump
    <3>4. /\ place' = [place EXCEPT ![d] = "serve"] /\ die_now' = die_now
          /\ ap_my_generation' = ap_my_generation /\ running_generation' = running_generation
          /\ \A c \in Children \ {d} : stale'[c] = stale[c]
      BY <2>5 DEF Accept, Bump
    <3> QED BY <3>1, <3>2, <3>3, <3>4
  <2>6. CASE AcceptRetries(d) \/ AcceptFails(d) BY <2>6 DEF AcceptRetries, AcceptFails
  <2>7. CASE Serve(d)
    <3>1. /\ place[d] = "serve" /\ place' = [place EXCEPT ![d] = "top"]
          /\ die_now' = [die_now EXCEPT ![d] =
                           die_now[d] \/ ap_my_generation[d] # running_generation]
          /\ stale' = stale /\ ap_my_generation' = ap_my_generation
          /\ running_generation' = running_generation
      BY <2>7 DEF Serve, LooksAtGeneration
    <3>2. stale[d] = 1 => ap_my_generation[d] # running_generation
      BY <3>1
    <3>3. die_now'[d] <=> (die_now[d] \/ ap_my_generation[d] # running_generation)
      BY <3>1, ZenonT(20)
    <3>4. stale[d] = 1 => die_now'[d]
      BY <3>2, <3>3, Zenon
    <3>5. /\ die_now' \in [Children -> BOOLEAN]
          /\ \A c \in Children \ {d} : die_now'[c] = die_now[c]
      BY <3>1
    <3> HIDE DEF LateOne
    <3>6. \A c \in Children \ {d} : LateOne(c)'
      BY <3>1, <3>5 DEF LateOne
    <3>7. LateOne(d)'
      BY <3>1, <3>4 DEF LateOne
    <3> QED BY <3>1, <3>5, <3>6, <3>7
  <2> QED BY <1>1, <2>1, <2>2, <2>3, <2>4, <2>5, <2>6, <2>7 DEF Child, Outside
<1>2. ASSUME NEW d \in Children, MakeChild(d) PROVE LateInv'
  BY <1>2 DEF MakeChild
<1>3. ASSUME NEW d \in Children, Signal(d) PROVE LateInv'
  BY <1>3 DEF Signal
<1>4. CASE GracefulRestart
  BY <1>4 DEF GracefulRestart
<1>5. CASE \E l \in ListenSockets : Connect(l)
  BY <1>5 DEF Connect
<1>6. CASE UNCHANGED preforkVars
  BY <1>6 DEF preforkVars
<1> QED BY <1>1, <1>2, <1>3, <1>4, <1>5, <1>6 DEF PreforkNext

\* What a child acts on long after it learned it does not lead it astray: poll's answer
\* still holds (118_1.c:66-90), and one connection at most is taken for a generation
\* that has ended, though the signal was missed (118_1.c:138, 138_1.c:45).
THEOREM NothingStaleCorrect == PreforkSpec => []NothingStale
<1>1. FreshInv /\ [PreforkNext]_preforkVars => FreshInv' BY StepFresh
<1>2. LateInv /\ [PreforkNext]_preforkVars => LateInv' BY StepLate
<1>3. PreforkInit => FreshInv
  BY InitMutex, PreforkAssumption DEF PreforkInit, FreshInv, PollResultFresh, ListenSockets
<1>4. FreshInv /\ LateInv => NothingStale
  <2> SUFFICES ASSUME FreshInv, LateInv PROVE StaleServesOnce BY DEF FreshInv, NothingStale
  <2> QED BY DEF LateInv, LateOne, StaleServesOnce
<1> QED BY <1>1, <1>2, <1>3, <1>4, InitLate, PTL DEF PreforkSpec
-----------------------------------------------------------------------------
(* The queue of the event MPM's workers *)

Idle == {w \in Workers : is_idle[w]}

\* The listener writes one round behind what is left in the ring; what is in it and
\* the idlers that may still be pushed for are workers that have not reported again.
QueueInv ==
  /\ TypeOK
  /\ in = Wrapped(out + nelts)
  /\ NeverFull
  /\ \A w \in Workers : got[w] # Nothing => pc[w] = "work"

\* What any step of the child does to its queue.
QueueStep ==
  \/ \E w \in Workers : Born(w) \/ Worker(w) \/ SpuriousWakeup(w)
  \/ PushSocket \/ PushTimer \/ InterruptAll \/ Terminate \/ TerminateWakes
  \/ UNCHANGED vars

LEMMA StepsOfQueue ==
  ASSUME [ChildNext]_allVars
  PROVE  QueueStep
<1>1. CASE StartThreads
  BY <1>1 DEF StartThreads, CreateWorker, SkipWorker, CreateListener, CreateListenerFails,
     Decide, CleanChildExit, QueueStep
<1>2. CASE Listener \/ Listen
  BY <1>2 DEF Listener, Listen, Check, EnterPoll, CloseListeners, Closes, EndQueue,
     LeaveListener, QueueStep
<1>3. CASE Main \/ Stop \/ JoinUnwoken
  BY <1>3 DEF Main, Stop, JoinUnwoken, JoinStarter, WakeListener, JoinListener, JoinSleeper,
     JoinWorkers, QueueStep
<1>4. ASSUME NEW w \in Workers,
             \/ WorkerStep(w) \/ EarlierLeaves(w)
             \/ Up /\ SpuriousWakeup(w) /\ UNCHANGED childVars
      PROVE  QueueStep
  BY <1>4 DEF WorkerStep, EarlierLeaves, QueueStep
<1>5. CASE UNCHANGED allVars
  BY <1>5 DEF allVars, QueueStep
<1> QED BY <1>1, <1>2, <1>3, <1>4, <1>5 DEF ChildNext

LEMMA IdleCount ==
  IsFiniteSet(Idle) /\ Cardinality(Idle) \in Nat /\ Cardinality(Idle) <= bounds
<1>1. IsFiniteSet(Workers) /\ Cardinality(Workers) = bounds
  BY FS_Interval, QueueAssumption, ChildAssumption
<1>2. Idle \subseteq Workers BY DEF Idle
<1> QED BY <1>1, <1>2, FS_Subset, FS_CardinalityType

\* The ring has a free place when the listener may push.
LEMMA Room ==
  ASSUME QueueInv
  PROVE  nelts + idlers <= bounds
BY IdleCount, QueueAssumption DEF QueueInv, TypeOK, NeverFull, Idle

LEMMA Around ==
  ASSUME NEW k \in Nat, k < 2 * bounds
  PROVE  Wrapped(k) \in 0 .. bounds - 1
BY QueueAssumption DEF Wrapped

LEMMA InitQueue == ChildInit => QueueInv
<1> SUFFICES ASSUME Init PROVE QueueInv BY DEF ChildInit
<1>1. Idle = {} BY DEF Init, Idle
<1>2. NeverFull BY <1>1, FS_EmptySet DEF Init, NeverFull, Idle
<1>3. TypeOK
  BY QueueAssumption, EmptySeq DEF Init, TypeOK
<1>4. in = Wrapped(out + nelts) BY QueueAssumption DEF Init, Wrapped
<1> QED BY <1>2, <1>3, <1>4 DEF QueueInv, Init

\* The count of idlers changes with a worker's report, the ring with what is taken.
LEMMA ReportsIdle ==
  ASSUME QueueInv, NEW w \in Workers, SetIdle(w)
  PROVE  NeverFull' /\ idlers' \in Nat
<1>1. is_idle' = [is_idle EXCEPT ![w] = TRUE] /\ is_idle \in [Workers -> BOOLEAN]
  BY DEF SetIdle, QueueInv, TypeOK
<1>2. Idle' = Idle \cup {w} BY <1>1 DEF Idle
<1>3. w \in Idle <=> is_idle[w] BY DEF Idle
<1>4. Cardinality(Idle') = IF is_idle[w] THEN Cardinality(Idle) ELSE Cardinality(Idle) + 1
  BY <1>2, <1>3, IdleCount, FS_AddElement
<1>5. nelts + idlers <= Cardinality(Idle) BY DEF QueueInv, NeverFull, Idle
<1>6. /\ nelts' = nelts /\ idlers' = IF is_idle[w] THEN idlers ELSE idlers + 1
      /\ idlers \in Nat /\ nelts \in Nat
  BY QueueAssumption DEF SetIdle, QueueInv, TypeOK, queueVars
<1>7. nelts' + idlers' <= Cardinality(Idle') BY <1>4, <1>5, <1>6, IdleCount
<1> QED BY <1>6, <1>7 DEF NeverFull, Idle

LEMMA TakesOne ==
  ASSUME QueueInv, NEW w \in Workers, PopSomething(w)
  PROVE  NeverFull'
<1>1. is_idle \in [Workers -> BOOLEAN] /\ nelts \in Nat /\ idlers \in Nat /\ idlers' = idlers
  BY QueueAssumption DEF PopSomething, QueueInv, TypeOK
<1>2. nelts + idlers <= Cardinality(Idle) BY DEF QueueInv, NeverFull, Idle
<1>3. CASE timers # <<>>
  BY <1>2, <1>3 DEF PopSomething, QueueInv, NeverFull, Idle
<1>4. CASE timers = <<>>
  <2>1. is_idle' = [is_idle EXCEPT ![w] = FALSE] /\ nelts' = nelts - 1
    BY <1>4 DEF PopSomething, LeftInRing
  <2>2. Idle' = Idle \ {w} BY <2>1, <1>1 DEF Idle
  <2>3. Cardinality(Idle') >= Cardinality(Idle) - 1
    BY <2>2, IdleCount, FS_RemoveElement
  <2>4. Cardinality(Idle') \in Nat BY <2>2, IdleCount, FS_Subset, FS_CardinalityType
  <2>5. nelts' + idlers' <= Cardinality(Idle') BY <2>1, <2>3, <2>4, <1>1, <1>2, IdleCount
  <2> QED BY <2>5 DEF NeverFull, Idle
<1> QED BY <1>3, <1>4

LEMMA StepQueue ==
  ASSUME QueueInv, QueueStep
  PROVE  QueueInv'
<1> USE QueueAssumption DEF TypeOK, Go, Lock, Unlock, queueVars, countVars
<1> DEFINE Given == \A w \in Workers : got[w] # Nothing => pc[w] = "work"
<1>0. /\ TypeOK /\ in = Wrapped(out + nelts) /\ NeverFull /\ Given
      /\ bounds \in Nat \ {0} /\ MaxItems \in Nat
  BY DEF QueueInv
<1>a. ASSUME TypeOK', UNCHANGED <<in, out, nelts>>, NeverFull', Given'
      PROVE  QueueInv'
  BY <1>0, <1>a DEF QueueInv, Wrapped
<1>b. ASSUME UNCHANGED <<nelts, idlers, is_idle>> PROVE NeverFull'
  BY <1>0, <1>b DEF NeverFull
<1>1. ASSUME NEW w \in Workers,
             Born(w) \/ PopLock(w) \/ Wait(w) \/ Resume(w) \/ PopNothing(w) \/ Result(w)
             \/ SpuriousWakeup(w)
      PROVE  QueueInv'
  <2>1. UNCHANGED <<in, out, nelts>> /\ NeverFull'
    BY <1>1, <1>b DEF Born, PopLock, Wait, Resume, PopNothing, Result, SpuriousWakeup
  <2>2. TypeOK'
    BY <1>0, <1>1 DEF Born, PopLock, Wait, Resume, PopNothing, Result, SpuriousWakeup
  <2>3. Given'
    BY <1>0, <1>1 DEF Born, PopLock, Wait, Resume, PopNothing, Result, SpuriousWakeup
  <2> QED BY <1>a, <2>1, <2>2, <2>3
<1>2. ASSUME NEW w \in Workers, SetIdle(w) PROVE QueueInv'
  <2>1. NeverFull' /\ idlers' \in Nat BY <1>2, ReportsIdle DEF QueueInv
  <2>2. TypeOK' BY <1>0, <1>2, <2>1 DEF SetIdle
  <2>3. Given' BY <1>0, <1>2 DEF SetIdle
  <2>4. UNCHANGED <<in, out, nelts>> BY <1>2 DEF SetIdle
  <2> QED BY <1>a, <2>1, <2>2, <2>3, <2>4
<1>3. ASSUME NEW w \in Workers, Work(w) PROVE QueueInv'
  <2>1. UNCHANGED <<in, out, nelts>> /\ NeverFull' BY <1>3, <1>b DEF Work
  <2>2. TypeOK' BY <1>0, <1>3 DEF Work
  <2>3. Given' BY <1>0, <1>3 DEF Work
  <2> QED BY <1>a, <2>1, <2>2, <2>3
<1>4. ASSUME NEW w \in Workers, PopSomething(w) PROVE QueueInv'
  <2>1. NeverFull' BY <1>4, TakesOne DEF QueueInv
  <2>2. Given' BY <1>0, <1>4 DEF PopSomething
  <2>3. CASE timers # <<>>
    <3>1. UNCHANGED <<in, out, nelts>> BY <1>4, <2>3 DEF PopSomething
    <3>2. Head(timers) \in Items /\ Tail(timers) \in Seq(Items)
      BY <1>0, <2>3, HeadTailProperties
    <3>3. TypeOK' BY <1>0, <1>4, <2>3, <3>2 DEF PopSomething
    <3> QED BY <1>a, <2>1, <2>2, <3>1, <3>3
  <2>4. CASE timers = <<>>
    <3>1. /\ out' = OutNext /\ nelts' = nelts - 1 /\ in' = in /\ nelts # 0
          /\ got' = [got EXCEPT ![w] = data[out]]
      BY <1>4, <2>4 DEF PopSomething, LeftInRing, ap_queue_empty
    <3>2. out' \in 0 .. bounds - 1 /\ nelts' \in 0 .. bounds
      BY <1>0, <3>1 DEF OutNext, Wrapped
    <3>3. in' = Wrapped(out' + nelts') BY <1>0, <3>1 DEF OutNext, Wrapped
    <3>4. TypeOK' BY <1>0, <1>4, <2>4, <3>1, <3>2 DEF PopSomething
    <3> QED BY <2>1, <2>2, <3>3, <3>4 DEF QueueInv
  <2> QED BY <2>3, <2>4
<1>5. CASE PushSocket
  <2>1. nelts + idlers <= bounds /\ idlers > 0 BY <1>5, Room DEF PushSocket, QueueInv
  <2>2. nelts' = nelts + 1 /\ idlers' = idlers - 1 /\ is_idle' = is_idle
    BY <1>5 DEF PushSocket
  <2>3. idlers' \in Nat /\ nelts' \in 0 .. bounds BY <1>0, <2>1, <2>2
  <2>4. NeverFull'
    <3>1. nelts' + idlers' = nelts + idlers BY <1>0, <2>2
    <3> QED BY <1>0, <2>2, <3>1 DEF NeverFull
  <2>5. in' = Wrapped(in + 1) /\ out' = out BY <1>5 DEF PushSocket
  <2>6. in' \in 0 .. bounds - 1 /\ in' = Wrapped(out' + nelts')
    BY <1>0, <2>1, <2>2, <2>5 DEF Wrapped
  <2>7. pushed' \in Items /\ pushed' \in 0 .. MaxItems BY <1>0, <1>5 DEF PushSocket, Items
  <2>8. data' \in [0 .. bounds - 1 -> Items \cup {Nothing}] BY <1>0, <1>5, <2>7 DEF PushSocket
  <2>9. not_empty' \in SUBSET Workers BY <1>0, <1>5 DEF PushSocket, SignalOne
  <2>10. TypeOK' BY <1>0, <1>5, <2>3, <2>6, <2>7, <2>8, <2>9 DEF PushSocket
  <2>11. Given' BY <1>0, <1>5 DEF PushSocket
  <2> QED BY <2>4, <2>6, <2>10, <2>11 DEF QueueInv
<1>6. CASE PushTimer
  <2>1. UNCHANGED <<in, out, nelts>> /\ NeverFull' BY <1>6, <1>b DEF PushTimer
  <2>2. pushed' \in Items /\ pushed' \in 0 .. MaxItems BY <1>0, <1>6 DEF PushTimer, Items
  <2>3. timers' \in Seq(Items) BY <1>0, <1>6, <2>2, AppendProperties DEF PushTimer
  <2>4. not_empty' \in SUBSET Workers BY <1>0, <1>6 DEF PushTimer, SignalOne
  <2>5. TypeOK' BY <1>0, <1>6, <2>2, <2>3, <2>4 DEF PushTimer
  <2>6. Given' BY <1>0, <1>6 DEF PushTimer
  <2> QED BY <1>a, <2>1, <2>5, <2>6
<1>7. CASE InterruptAll \/ Terminate \/ TerminateWakes \/ UNCHANGED vars
  <2>1. UNCHANGED <<in, out, nelts>> /\ NeverFull'
    BY <1>7, <1>b DEF InterruptAll, Terminate, TerminateWakes, vars
  <2>2. TypeOK' BY <1>0, <1>7 DEF InterruptAll, Terminate, TerminateWakes, vars
  <2>3. Given' BY <1>0, <1>7 DEF InterruptAll, Terminate, TerminateWakes, vars
  <2> QED BY <1>a, <2>1, <2>2, <2>3
<1> QED BY <1>1, <1>2, <1>3, <1>4, <1>5, <1>6, <1>7 DEF QueueStep, Worker

LEMMA QueueAlways == ChildSpec => []QueueInv
<1>1. QueueInv /\ [ChildNext]_allVars => QueueInv'
  BY StepsOfQueue, StepQueue
<1> QED BY <1>1, InitQueue, PTL DEF ChildSpec
-----------------------------------------------------------------------------
(* The ring is a sequence *)

Value == Items \cup {Nothing}

LEMMA SameInterval ==
  ASSUME NEW m \in Nat, NEW n \in Nat, 1 .. m = 1 .. n
  PROVE  m = n
OBVIOUS

Ring(n, o, ring) == [k \in 1 .. n |-> ring[Wrapped(o + k - 1)]]

LEMMA RingIsSeq ==
  ASSUME NEW n \in 0 .. bounds, NEW o \in 0 .. bounds - 1,
         NEW ring \in [0 .. bounds - 1 -> Value]
  PROVE  /\ Ring(n, o, ring) \in Seq(Value) /\ Len(Ring(n, o, ring)) = n
         /\ \A k \in 1 .. n : Ring(n, o, ring)[k] = ring[Wrapped(o + k - 1)]
<1> DEFINE s == Ring(n, o, ring)
<1>1. bounds \in Nat \ {0} /\ n \in Nat BY QueueAssumption
<1>2. \A k \in 1 .. n : Wrapped(o + k - 1) \in 0 .. bounds - 1
  BY <1>1 DEF Wrapped
<1>3. s \in [1 .. n -> Value] BY <1>1, <1>2 DEF Ring
<1>4. s \in Seq(Value) BY <1>1, <1>3, SeqDef
<1>5. Len(s) \in Nat /\ DOMAIN s = 1 .. Len(s)
  BY <1>4, LenProperties
<1>6. DOMAIN s = 1 .. n BY DEF Ring
<1> HIDE DEF s
<1>7. Len(s) = n BY <1>1, <1>5, <1>6, SameInterval
<1> QED BY <1>4, <1>7 DEF s, Ring

LEMMA SocketsAre ==
  ASSUME TypeOK
  PROVE  /\ Sockets \in Seq(Value) /\ Len(Sockets) = nelts
         /\ \A k \in 1 .. nelts : Sockets[k] = data[Wrapped(out + k - 1)]
<1>1. nelts \in 0 .. bounds /\ out \in 0 .. bounds - 1 /\ data \in [0 .. bounds - 1 -> Value]
  BY DEF TypeOK, Value
<1>2. Sockets = Ring(nelts, out, data) BY DEF Sockets, Ring
<1> QED BY <1>1, <1>2, RingIsSeq

LEMMA NextSocketsAre ==
  ASSUME TypeOK'
  PROVE  /\ Sockets' \in Seq(Value) /\ Len(Sockets') = nelts'
         /\ \A k \in 1 .. nelts' : Sockets'[k] = data'[Wrapped(out' + k - 1)]
<1>1. /\ nelts' \in 0 .. bounds /\ out' \in 0 .. bounds - 1
      /\ data' \in [0 .. bounds - 1 -> Value]
  BY DEF TypeOK, Value
<1>2. Sockets' = Ring(nelts', out', data') BY DEF Sockets, Ring, Wrapped
<1> QED BY <1>1, <1>2, RingIsSeq

\* The abstract queue does not see what leaves the ring alone.
LEMMA SameRing ==
  ASSUME UNCHANGED <<data, out, nelts>>
  PROVE  Sockets' = Sockets
BY DEF Sockets, Wrapped

LEMMA PushAppends ==
  ASSUME QueueInv, QueueInv', PushSocket
  PROVE  Sockets' = Append(Sockets, pushed')
<1>1. /\ bounds \in Nat \ {0} /\ out \in 0 .. bounds - 1 /\ nelts \in 0 .. bounds
      /\ in \in 0 .. bounds - 1
      /\ in = Wrapped(out + nelts) /\ nelts' = nelts + 1 /\ out' = out
      /\ data' = [data EXCEPT ![in] = pushed'] /\ data \in [0 .. bounds - 1 -> Value]
      /\ nelts' \in 0 .. bounds
  BY QueueAssumption DEF QueueInv, TypeOK, PushSocket, Value
<1>2. pushed' \in Value
  BY QueueAssumption DEF QueueInv, TypeOK, PushSocket, Items, Value
<1>3. /\ Sockets \in Seq(Value) /\ Len(Sockets) = nelts
      /\ \A k \in 1 .. nelts : Sockets[k] = data[Wrapped(out + k - 1)]
  BY SocketsAre DEF QueueInv
<1>4. /\ Sockets' \in Seq(Value) /\ Len(Sockets') = nelts'
      /\ \A k \in 1 .. nelts' : Sockets'[k] = data'[Wrapped(out' + k - 1)]
  BY NextSocketsAre DEF QueueInv
<1>5. /\ Append(Sockets, pushed') \in Seq(Value)
      /\ Len(Append(Sockets, pushed')) = nelts + 1
      /\ \A k \in 1 .. nelts : Append(Sockets, pushed')[k] = Sockets[k]
      /\ Append(Sockets, pushed')[nelts + 1] = pushed'
  BY <1>2, <1>3, AppendProperties
<1>6. \A k \in 1 .. nelts : Wrapped(out + k - 1) # in /\ Wrapped(out + k - 1) \in 0 .. bounds - 1
  BY <1>1 DEF Wrapped
<1>7. \A k \in 1 .. nelts : Sockets'[k] = Sockets[k]
  BY <1>1, <1>3, <1>4, <1>6
<1>8. Sockets'[nelts + 1] = pushed'
  BY <1>1, <1>4
<1>9. \A k \in 1 .. nelts + 1 : k \in 1 .. nelts \/ k = nelts + 1
  BY <1>1
<1> QED BY <1>1, <1>4, <1>5, <1>7, <1>8, <1>9, SeqEqual

LEMMA PopTakesHead ==
  ASSUME QueueInv, QueueInv', NEW w \in Workers, PopSomething(w), timers = <<>>
  PROVE  Sockets # <<>> /\ data[out] = Head(Sockets) /\ Sockets' = Tail(Sockets)
<1>1. /\ bounds \in Nat \ {0} /\ out \in 0 .. bounds - 1 /\ nelts \in 0 .. bounds
      /\ out' = Wrapped(out + 1) /\ nelts' = nelts - 1 /\ nelts # 0 /\ data' = data
  BY QueueAssumption DEF QueueInv, TypeOK, PopSomething, OutNext, LeftInRing, ap_queue_empty
<1>2. /\ Sockets \in Seq(Value) /\ Len(Sockets) = nelts
      /\ \A k \in 1 .. nelts : Sockets[k] = data[Wrapped(out + k - 1)]
  BY SocketsAre DEF QueueInv
<1>3. /\ Sockets' \in Seq(Value) /\ Len(Sockets') = nelts'
      /\ \A k \in 1 .. nelts' : Sockets'[k] = data'[Wrapped(out' + k - 1)]
  BY NextSocketsAre DEF QueueInv
<1>4. Sockets # <<>> BY <1>1, <1>2, EmptySeq
<1>5. /\ Tail(Sockets) \in Seq(Value) /\ Len(Tail(Sockets)) = nelts - 1
      /\ \A k \in 1 .. nelts - 1 : Tail(Sockets)[k] = Sockets[k + 1]
  BY <1>2, <1>4, HeadTailProperties
<1>6. Head(Sockets) = Sockets[1] OBVIOUS
<1>7. 1 \in 1 .. nelts /\ Wrapped(out + 1 - 1) = out
  BY <1>1 DEF Wrapped
<1>8. data[out] = Head(Sockets) BY <1>2, <1>6, <1>7
<1>9. \A k \in 1 .. nelts - 1 :
        k + 1 \in 1 .. nelts /\ Wrapped(out' + k - 1) = Wrapped(out + (k + 1) - 1)
  BY <1>1 DEF Wrapped
<1>10. \A k \in 1 .. nelts - 1 : Sockets'[k] = Tail(Sockets)[k]
  <2> SUFFICES ASSUME NEW k \in 1 .. nelts - 1 PROVE Sockets'[k] = Tail(Sockets)[k]
    OBVIOUS
  <2>1. k + 1 \in 1 .. nelts /\ Wrapped(out' + k - 1) = Wrapped(out + (k + 1) - 1)
    BY <1>9
  <2>2. Sockets'[k] = data[Wrapped(out' + k - 1)] BY <1>1, <1>3
  <2>3. Sockets[k + 1] = data[Wrapped(out + (k + 1) - 1)] BY <1>2, <2>1
  <2>4. Tail(Sockets)[k] = Sockets[k + 1] BY <1>5
  <2> QED BY <2>1, <2>2, <2>3, <2>4
<1> QED BY <1>1, <1>3, <1>4, <1>5, <1>8, <1>10, SeqEqual
-----------------------------------------------------------------------------
LEMMA QueueRefines ==
  ASSUME QueueInv, QueueInv', QueueStep
  PROVE  [Queue!Next]_<<Sockets, timers, got>>
<1> USE DEF Go, Queue!Next
<1>0. \A w \in Workers : got[w] # Nothing => pc[w] = "work" BY DEF QueueInv
<1>a. got \in [Workers -> Value] BY DEF QueueInv, TypeOK, Value
<1>1. ASSUME NEW w \in Workers,
             Born(w) \/ SetIdle(w) \/ PopLock(w) \/ Wait(w) \/ Resume(w) \/ PopNothing(w)
             \/ Result(w) \/ SpuriousWakeup(w)
      PROVE  UNCHANGED <<Sockets, timers, got>>
  BY <1>1, SameRing DEF Born, SetIdle, PopLock, Wait, Resume, PopNothing, Result,
     SpuriousWakeup, queueVars
<1>2. CASE InterruptAll \/ Terminate \/ TerminateWakes \/ UNCHANGED vars
  BY <1>2, SameRing DEF InterruptAll, Terminate, TerminateWakes, vars, queueVars
<1>3. ASSUME NEW w \in Workers, Work(w)
      PROVE  Queue!Finish(w) \/ UNCHANGED <<Sockets, timers, got>>
  <2>1. UNCHANGED <<Sockets, timers>> /\ got' = [got EXCEPT ![w] = Nothing]
    BY <1>3, SameRing DEF Work, queueVars
  <2>2. CASE got[w] = Nothing BY <2>1, <2>2, <1>a
  <2>3. CASE got[w] # Nothing BY <2>1, <2>3 DEF Queue!Finish
  <2> QED BY <2>2, <2>3
<1>4. ASSUME NEW w \in Workers, PopSomething(w) PROVE Queue!Pop(w)
  <2>1. got[w] = Nothing BY <1>0, <1>4 DEF PopSomething
  <2>2. CASE timers # <<>>
    <3>1. UNCHANGED <<data, out, nelts>> BY <1>4, <2>2 DEF PopSomething
    <3>2. Sockets' = Sockets BY <3>1, SameRing
    <3>3. got' = [got EXCEPT ![w] = Head(timers)] /\ timers' = Tail(timers)
      BY <1>4, <2>2 DEF PopSomething
    <3> QED BY <2>1, <2>2, <3>2, <3>3 DEF Queue!Pop
  <2>3. CASE timers = <<>>
    <3>1. Sockets # <<>> /\ data[out] = Head(Sockets) /\ Sockets' = Tail(Sockets)
      BY <1>4, <2>3, PopTakesHead
    <3>2. got' = [got EXCEPT ![w] = data[out]] /\ timers' = timers
      BY <1>4, <2>3 DEF PopSomething
    <3> QED BY <2>1, <2>3, <3>1, <3>2 DEF Queue!Pop
  <2> QED BY <2>2, <2>3
<1>5. CASE PushSocket
  <2>1. Sockets' = Append(Sockets, pushed') BY <1>5, PushAppends
  <2>2. pushed' \in Items BY <1>5, QueueAssumption DEF PushSocket, QueueInv, TypeOK, Items
  <2>3. UNCHANGED <<timers, got>> BY <1>5 DEF PushSocket
  <2> QED BY <2>1, <2>2, <2>3 DEF Queue!PushSocket
<1>6. CASE PushTimer
  <2>1. Sockets' = Sockets BY <1>6, SameRing DEF PushTimer
  <2>2. pushed' \in Items BY <1>6, QueueAssumption DEF PushTimer, QueueInv, TypeOK, Items
  <2>3. timers' = Append(timers, pushed') /\ got' = got BY <1>6 DEF PushTimer
  <2> QED BY <2>1, <2>2, <2>3 DEF Queue!PushTimer
<1> QED BY <1>1, <1>2, <1>3, <1>4, <1>5, <1>6 DEF QueueStep, Worker

\* For any number of threads: the ring with its list of timers is a queue that hands out
\* first what came first, a timer before any socket, each once and to one worker
\* (752_1.c:26-46), whatever wakes a worker (752_1.c:12) and however the child ends.
THEOREM IsAQueue == ChildSpec => QueueSpec
<1>1. ChildInit => Queue!Init
  <2> SUFFICES ASSUME Init PROVE Queue!Init BY DEF ChildInit
  <2>1. nelts = 0 /\ TypeOK
    BY QueueAssumption, EmptySeq DEF Init, TypeOK
  <2>2. Sockets = <<>> BY <2>1, SocketsAre, EmptySeq
  <2> QED BY <2>2 DEF Init, Queue!Init
<1>2. QueueInv /\ QueueInv' /\ [ChildNext]_allVars => [Queue!Next]_<<Sockets, timers, got>>
  BY QueueRefines, StepsOfQueue
<1> QED BY <1>1, <1>2, QueueAlways, PTL DEF ChildSpec, QueueSpec, Queue!Spec

\* The ring, which is never tested for being full, is not overrun: what is in it and what
\* may still be pushed are threads that have reported idle and not been given a socket
\* since (752_1.c:12-24, 36).
THEOREM NeverOverrun == ChildSpec => [](NeverFull /\ nelts + idlers <= bounds)
<1>1. QueueInv => NeverFull /\ nelts + idlers <= bounds
  BY Room DEF QueueInv
<1> QED BY <1>1, QueueAlways, PTL

\* The queue's variables keep their types: an index stays in the ring.
THEOREM QueueTyped == ChildSpec => []TypeOK
<1>1. QueueInv => TypeOK BY DEF QueueInv
<1> QED BY <1>1, QueueAlways, PTL
=============================================================================
