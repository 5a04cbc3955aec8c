------------------------------ MODULE Prefork -------------------------------
(***************************************************************************)
(* The prefork MPM's children: make_child forks them (138_1.c, 54_1.c,     *)
(* 96_1.c), and each runs child_main (118_1.c, 136_1.c, 95_1.c, 53_1.c):   *)
(* take the cross-process accept mutex, poll the listeners, accept one     *)
(* connection, give the mutex back, serve, look whether to die.  The       *)
(* copies of child_main differ in where they take and give back the mutex, *)
(* the copies of make_child in the signals a child listens to; a Version   *)
(* says which copy is running.                                             *)
(***************************************************************************)
EXTENDS Integers, FiniteSets

CONSTANTS
  Children,        \* scoreboard slots
  None,            \* nobody
  NumListeners,    \* num_listensocks
  MaxRequests,     \* ap_max_requests_per_child, 0 for no limit
  Versions,        \* the pairs of a child_main and a make_child (below)
  MaxGeneration,   \* bound: graceful restarts
  MaxFaults        \* bound: failing polls and accepts

ListenSockets == 1 .. NumListeners

ASSUME PreforkAssumption ==
  /\ None \notin Children
  /\ NumListeners \in Nat \ {0}
  /\ {MaxRequests, MaxGeneration, MaxFaults} \subseteq Nat
  /\ Versions \subseteq
       [child : [serializes : BOOLEAN,       \* takes the accept mutex at all
                 releasesOnError : BOOLEAN,  \* gives it back when poll fails
                 diesOnSignal : BOOLEAN],    \* looks at die_now when interrupted
        hears : BOOLEAN]                     \* leaves the signal on stop_listening

\* The copies of child_main, and whether a copy of make_child keeps the signal.
Version_118 == [serializes |-> TRUE, releasesOnError |-> TRUE, diesOnSignal |-> TRUE]
Version_136 == [serializes |-> TRUE, releasesOnError |-> TRUE, diesOnSignal |-> TRUE]
Version_95 == [serializes |-> TRUE, releasesOnError |-> FALSE, diesOnSignal |-> FALSE]
Version_53 == [serializes |-> FALSE, releasesOnError |-> FALSE, diesOnSignal |-> TRUE]
HearsGraceful_138 == TRUE
HearsGraceful_96 == TRUE
HearsGraceful_54 == FALSE

VARIABLES
  version,          \* the copies that are running
  place,               \* where each child is in child_main
  owner,            \* who holds the accept mutex
  lr,               \* lr: the listener a child is about to accept from
  last_poll_idx,    \* last_poll_idx of each child
  requests,         \* requests_this_child
  die_now,          \* die_now of each child
  listening,        \* FALSE once stop_listening closed the child's listeners
  ap_my_generation, \* the generation each child was forked in
  running_generation,
  unsignalled,      \* the children a graceful restart still has to signal
  backlog,          \* listeners with a connection waiting
  stale,            \* history: connections taken after its generation ended
  faults

processVars == <<lr, last_poll_idx, requests, die_now, listening, ap_my_generation,
               stale>>
parentVars == <<running_generation, unsignalled>>
preforkVars == <<version, place, owner, processVars, parentVars, backlog, faults>>

Version == version.child
HearsGraceful == version.hears

Running == {"born", "top", "mutex", "poll", "accept", "serve"}
InSection(c) == place[c] \in {"poll", "accept"}

PreforkInit ==
  /\ version \in Versions
  /\ place = [c \in Children |-> "born"]
  /\ owner = None
  /\ lr = [c \in Children |-> 1]
  /\ last_poll_idx = [c \in Children |-> 0]
  /\ requests = [c \in Children |-> 0]
  /\ die_now = [c \in Children |-> FALSE]
  /\ listening = [c \in Children |-> TRUE]
  /\ ap_my_generation = [c \in Children |-> 0]
  /\ running_generation = 0
  /\ unsignalled = {}
  /\ backlog = {}
  /\ stale = [c \in Children |-> 0]
  /\ faults = 0

Moves(c, here, there) == place[c] = here /\ place' = [place EXCEPT ![c] = there]
Fault == faults < MaxFaults /\ faults' = faults + 1
Release == owner' = IF Version.serializes THEN None ELSE owner
-----------------------------------------------------------------------------
(* One child *)

\* The handlers are installed and child_main set itself up.
Begin(c) ==
  /\ Moves(c, "born", "top")
  /\ UNCHANGED <<version, owner, processVars, parentVars, backlog, faults>>

\* Its mutex or its privileges could not be set up: APEXIT_CHILDFATAL.
SetupFails(c) ==
  /\ Moves(c, "born", "exited")
  /\ Fault
  /\ UNCHANGED <<version, owner, processVars, parentVars, backlog>>

\* The number of rounds is compared before it is counted.
Exhausted(c) == MaxRequests > 0 /\ requests[c] >= MaxRequests

MustLeave(c) == die_now[c] \/ Exhausted(c)

\* The head of the loop: leave, or queue for the mutex.
Top(c) ==
  /\ place[c] = "top"
  /\ place' = [place EXCEPT ![c] = IF MustLeave(c) THEN "exited" ELSE "mutex"]
  /\ requests' = [requests EXCEPT ![c] = IF die_now[c] \/ MaxRequests = 0 THEN @ ELSE @ + 1]
  /\ UNCHANGED <<version, owner, lr, last_poll_idx, die_now, listening, ap_my_generation,
                 stale, parentVars, backlog, faults>>

MutexFree == Version.serializes => owner = None
AcceptMutexOn(c) ==
  /\ Moves(c, "mutex", IF NumListeners = 1 THEN "accept" ELSE "poll")
  /\ MutexFree
  /\ owner' = IF Version.serializes THEN c ELSE owner
  /\ lr' = [lr EXCEPT ![c] = IF NumListeners = 1 THEN 1 ELSE @]
  /\ UNCHANGED <<version, last_poll_idx, requests, die_now, listening, ap_my_generation,
                 stale, parentVars, backlog, faults>>

\* The descriptors poll returns, in the order of the listeners: those with a
\* connection; all of them once they are closed.
Ready(c) == IF listening[c] THEN backlog ELSE ListenSockets
Before(l, S) == {k \in S : k < l}

\* The index into the descriptors goes on from where it was left.
FirstReady(c) == 0   \* mutant
PollIndex(c) == IF last_poll_idx[c] >= Cardinality(Ready(c)) THEN 0 ELSE last_poll_idx[c]

Poll(c) ==
  /\ Moves(c, "poll", "accept")
  /\ \E l \in Ready(c) :
       /\ Cardinality(Before(l, Ready(c))) = PollIndex(c)
       /\ lr' = [lr EXCEPT ![c] = l]
  /\ last_poll_idx' = [last_poll_idx EXCEPT ![c] = PollIndex(c) + 1]
  /\ UNCHANGED <<version, owner, requests, die_now, listening, ap_my_generation, stale,
                 parentVars, backlog, faults>>

\* EINTR, with die_now already set by the handler.
PollInterrupted(c) ==
  /\ Moves(c, "poll", "exited")
  /\ Version.diesOnSignal /\ die_now[c]
  /\ Release
  /\ UNCHANGED <<version, processVars, parentVars, backlog, faults>>

KeepMutex == owner' = owner   \* mutant
ReleaseOnError == owner' = IF Version.serializes /\ Version.releasesOnError
                           THEN None ELSE owner

PollFails(c) ==
  /\ Moves(c, "poll", "exited")
  /\ Fault
  /\ ReleaseOnError
  /\ UNCHANGED <<version, processVars, parentVars, backlog>>

Bump(f, c) == [f EXCEPT ![c] = @ + 1]

\* accept_func, then the mutex is given back whatever came of it.
Accept(c) ==
  /\ Moves(c, "accept", "serve")
  /\ listening[c] /\ lr[c] \in backlog
  /\ backlog' = backlog \ {lr[c]}
  /\ stale' = IF ap_my_generation[c] # running_generation THEN Bump(stale, c) ELSE stale
  /\ Release
  /\ UNCHANGED <<version, lr, last_poll_idx, requests, die_now, listening, ap_my_generation,
                 parentVars, faults>>

\* mutant: tries the same listener again.
AcceptsAgain(c) ==
  /\ Moves(c, "accept", "accept")
  /\ IF listening[c] THEN Fault ELSE UNCHANGED faults
  /\ UNCHANGED <<version, owner, processVars, parentVars, backlog>>

\* A closed listener, or an error of this one connection: go on.
AcceptRetries(c) ==
  /\ Moves(c, "accept", "top")
  /\ IF listening[c] THEN Fault ELSE UNCHANGED faults
  /\ Release
  /\ UNCHANGED <<version, processVars, parentVars, backlog>>

\* APR_EGENERAL.
AcceptFails(c) ==
  /\ Moves(c, "accept", "exited")
  /\ Fault
  /\ Release
  /\ UNCHANGED <<version, processVars, parentVars, backlog>>

\* The connection is done: is there a newer generation (or a byte in the pod)?
IgnoresGeneration(c) == die_now' = die_now   \* mutant
LooksAtGeneration(c) ==
  die_now' = [die_now EXCEPT ![c] = @ \/ ap_my_generation[c] # running_generation]

Serve(c) ==
  /\ Moves(c, "serve", "top")
  /\ LooksAtGeneration(c)
  /\ UNCHANGED <<version, owner, lr, last_poll_idx, requests, listening, ap_my_generation,
                 stale, parentVars, backlog, faults>>
-----------------------------------------------------------------------------
(* The parent and the clients *)

\* make_child in a slot whose child is gone.
MakeChild(c) ==
  /\ Moves(c, "exited", "born")
  /\ lr' = [lr EXCEPT ![c] = 1]
  /\ last_poll_idx' = [last_poll_idx EXCEPT ![c] = 0]
  /\ requests' = [requests EXCEPT ![c] = 0]
  /\ die_now' = [die_now EXCEPT ![c] = FALSE]
  /\ listening' = [listening EXCEPT ![c] = TRUE]
  /\ ap_my_generation' = [ap_my_generation EXCEPT ![c] = running_generation]
  /\ stale' = [stale EXCEPT ![c] = 0]
  /\ unsignalled' = unsignalled \ {c}
  /\ UNCHANGED <<version, owner, running_generation, backlog, faults>>

GracefulRestart ==
  /\ unsignalled = {}
  /\ running_generation < MaxGeneration
  /\ running_generation' = running_generation + 1
  /\ unsignalled' = {c \in Children : place[c] \in Running}
  /\ UNCHANGED <<version, place, owner, processVars, backlog, faults>>

\* AP_SIG_GRACEFUL: stop_listening closes the listeners and sets die_now.  A child
\* that has not installed the handler, or ignores the signal, misses it.
Signal(c) ==
  /\ c \in unsignalled
  /\ unsignalled' = unsignalled \ {c}
  /\ IF HearsGraceful /\ place[c] \in Running \ {"born"}
     THEN /\ die_now' = [die_now EXCEPT ![c] = TRUE]
          /\ listening' = [listening EXCEPT ![c] = FALSE]
     ELSE UNCHANGED <<die_now, listening>>
  /\ UNCHANGED <<version, place, owner, lr, last_poll_idx, requests, ap_my_generation, stale,
                 running_generation, backlog, faults>>

Connect(l) ==
  /\ l \notin backlog
  /\ backlog' = backlog \cup {l}
  /\ UNCHANGED <<version, place, owner, processVars, parentVars, faults>>
-----------------------------------------------------------------------------
Child(c) ==
  \/ Begin(c) \/ Top(c) \/ AcceptMutexOn(c)
  \/ Poll(c) \/ PollInterrupted(c)
  \/ Accept(c) \/ (~listening[c] /\ AcceptRetries(c))
  \/ Serve(c)
Outside(c) ==
  SetupFails(c) \/ PollFails(c) \/ (listening[c] /\ AcceptRetries(c)) \/ AcceptFails(c)

PreforkNext ==
  \/ \E c \in Children : Child(c) \/ Outside(c) \/ MakeChild(c) \/ Signal(c)
  \/ GracefulRestart
  \/ \E l \in ListenSockets : Connect(l)

PreforkSpec == PreforkInit /\ [][PreforkNext]_preforkVars

\* Processes are scheduled, the parent replaces the dead and sends its signals, and
\* whoever waits for the accept mutex again and again gets it.  Clients promise nothing.
PreforkFairness ==
  \A c \in Children : /\ WF_preforkVars(Child(c)) /\ SF_preforkVars(AcceptMutexOn(c))
                      /\ WF_preforkVars(MakeChild(c)) /\ WF_preforkVars(Signal(c))
FairPreforkSpec == PreforkSpec /\ PreforkFairness
-----------------------------------------------------------------------------
PreforkTypeOK ==
  /\ version \in Versions
  /\ place \in [Children -> Running \cup {"exited"}]
  /\ owner \in Children \cup {None}
  /\ lr \in [Children -> ListenSockets]
  /\ last_poll_idx \in [Children -> 0 .. NumListeners]
  /\ requests \in [Children -> 0 .. MaxRequests + 1]
  /\ die_now \in [Children -> BOOLEAN]
  /\ listening \in [Children -> BOOLEAN]
  /\ ap_my_generation \in [Children -> 0 .. MaxGeneration]
  /\ running_generation \in 0 .. MaxGeneration
  /\ unsignalled \in SUBSET Children
  /\ backlog \in SUBSET ListenSockets
  /\ stale \in [Children -> Nat]
  /\ faults \in 0 .. MaxFaults

\* One child at a time is between accept_mutex_on and accept_mutex_off, and it is
\* the one that holds the mutex: no path through the loop releases another's.
OneAcceptor ==
  Version.serializes => \A c \in Children : InSection(c) => owner = c

\* No way out of child_main, on a signal, a failing poll or a failing accept, takes
\* the mutex along: the other children would wait for it for ever.  95_1.c does when
\* poll fails.
NoOrphanedMutex ==
  Version.releasesOnError /\ owner # None => InSection(owner)

\* What poll said is still true when the child accepts: nobody drained the listener
\* in between, so the child cannot block in accept on one while others wait.
PollResultFresh ==
  Version.serializes =>
    \A c \in Children :
      place[c] = "accept" /\ listening[c] /\ NumListeners > 1 => lr[c] \in backlog

\* After a graceful restart a child of the old generation serves at most one more
\* connection, even when it missed the signal.
StaleServesOnce == \A c \in Children : stale[c] <= 1

\* Neither of the two things a child acts on long after it learned them, poll's answer
\* and its generation, leads it astray.
NothingStale == PollResultFresh /\ StaleServesOnce

\* A connection does not wait for ever, whatever arrives at the other listener.
EveryConnectionServed ==
  Version.releasesOnError => \A l \in ListenSockets : l \in backlog ~> l \notin backlog

\* A child that was told to die does so long as clients come: one that waits for
\* the accept mutex cannot before the child that polls has something to accept.
SignalledLeaves ==
  (Version.serializes => Version.releasesOnError) /\ []<>(backlog # {}) =>
    \A c \in Children : die_now[c] ~> place[c] = "exited"
=============================================================================
