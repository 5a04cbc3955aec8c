------------------------------ MODULE EventMpm ------------------------------
(***************************************************************************)
(* The parent process of the event MPM and the scoreboard it shares with   *)
(* its children.  The parent repeatedly runs                               *)
(* perform_idle_server_maintenance (1014_1.c) for every listener bucket:   *)
(* it scans the scoreboard slot by slot while the children keep changing   *)
(* it, then retires one child, forks several (make_child, 1013_1.c), or    *)
(* leaves the pool alone.  Children start their threads (761_1.c), close   *)
(* their listeners when told to leave (619_1.c) and exit; the parent's     *)
(* main loop reaps them.  A graceful restart (850_1.c) opens a new         *)
(* generation and asks the old one to leave through its pipe of death.     *)
(***************************************************************************)
EXTENDS Integers, FiniteSets

CONSTANTS
  ServerLimit,         \* server_limit: slots of the scoreboard
  ThreadsPerChild,     \* threads_per_child
  NumBuckets,          \* num_buckets: listener buckets, one pod each
  MinSpare,            \* min_spare_threads
  MaxSpare,            \* max_spare_threads
  MaxWorkers,          \* max_workers: MaxRequestWorkers
  ActiveDaemonsLimit,  \* active_daemons_limit
  MAX_SPAWN_RATE,      \* the size of free_slots[]
  HoldOff,             \* hold_off_on_exponential_spawning after a restart
  StartServers,        \* ap_daemons_to_start
  PodCapacity,         \* bound: retire requests kept in a pod
  MaxGeneration,       \* bound: restarts explored
  MaxFaults            \* bound: what the outside does to the children

\* What event_check_config (1017_1.c) and event_run (850_1.c:17) leave in the
\* settings; MAX_SPAWN_RATE is a power of two.
ASSUME SettingsAssumption ==
  /\ {ServerLimit, ThreadsPerChild, NumBuckets, MinSpare, MaxSpare,
      MaxWorkers, ActiveDaemonsLimit} \subseteq Nat \ {0}
  /\ ActiveDaemonsLimit <= ServerLimit
  /\ StartServers \in 1 .. ServerLimit
  /\ MaxSpare >= MinSpare + ThreadsPerChild   \* whatever the number of buckets
  /\ {HoldOff, PodCapacity, MaxGeneration, MaxFaults} \subseteq Nat

ASSUME SpawnRateAssumption == MAX_SPAWN_RATE \in {2, 4, 8, 16, 32}

Slots   == 0 .. ServerLimit - 1
Threads == 0 .. ThreadsPerChild - 1
Buckets == 0 .. NumBuckets - 1
Generations == 0 .. MaxGeneration

\* The worker states of scoreboard.h in their order; all the busy ones are one.
SERVER_DEAD     == 0
SERVER_STARTING == 1
SERVER_READY    == 2
SERVER_BUSY     == 3
SERVER_GRACEFUL == 4
Statuses == SERVER_DEAD .. SERVER_GRACEFUL

VARIABLES
  \* the scoreboard: parent[i].pid # 0, .quiescing, .generation, .bucket and
  \* servers[i][j].status
  pid, quiescing, generation, bucket, status,
  \* the operating system's view of the process in a slot
  proc,
  \* retained->... and the parent's globals
  max_daemons_limit, idle_spawn_rate, total_daemons, hold_off,
  sick_child_detected, had_healthy_child, my_generation, child_fatal,
  \* the bytes waiting in each generation's pipes of death
  pod,
  \* where the parent is, with the locals of perform_idle_server_maintenance
  scan,
  faults

scoreboardVars == <<pid, quiescing, generation, bucket, status, proc>>
retainedVars == <<max_daemons_limit, idle_spawn_rate, total_daemons, hold_off,
                  sick_child_detected, had_healthy_child, my_generation,
                  child_fatal>>
vars == <<scoreboardVars, retainedVars, pod, scan, faults>>

\* idle_thread_count and active_thread_count as one slot contributes to them.
IdleThreads(i, b) ==
  {j \in Threads : /\ status[i][j] <= SERVER_READY
                   /\ ~quiescing[i]
                   /\ generation[i] = my_generation
                   /\ bucket[i] = b}
ActiveThreads(i) ==
  {j \in Threads : status[i][j] >= SERVER_READY /\ status[i][j] < SERVER_GRACEFUL}

NoScan == [at |-> "wait", bucket |-> 0, i |-> 0, idle |-> 0, active |-> 0,
           free |-> {}, last |-> -1]
ScanOf(b) == [NoScan EXCEPT !.at = "scan", !.bucket = b]
-----------------------------------------------------------------------------
\* A failed fork starts nothing, though its slot was tried.
Started(S, forked) == Cardinality(forked)

\* make_child for every slot of S, of which the slots in forked got a process: a
\* failed fork leaves only max_daemons_limit, raised from limit past all of S.
MakeChildren(S, forked, bucketOf, limit) ==
  /\ max_daemons_limit' \in limit .. ServerLimit
  /\ \A i \in S : i < max_daemons_limit'
  /\ max_daemons_limit' = limit \/ max_daemons_limit' - 1 \in S
  /\ pid' = [i \in Slots |-> pid[i] \/ i \in forked]
  /\ proc' = [i \in Slots |-> IF i \in forked THEN "up" ELSE proc[i]]
  /\ quiescing' = [i \in Slots |-> quiescing[i] /\ i \notin forked]
  /\ bucket' = [i \in Slots |-> IF i \in forked THEN bucketOf[i] ELSE bucket[i]]
  /\ generation' = [i \in Slots |-> IF i \in forked THEN my_generation
                                                   ELSE generation[i]]
  /\ total_daemons' = total_daemons + Started(S, forked)
  /\ UNCHANGED status

\* startup_children: the first slots, the buckets in turn (a first start).
Init ==
  /\ pid = [i \in Slots |-> i < StartServers]
  /\ proc = [i \in Slots |-> IF i < StartServers THEN "up" ELSE "none"]
  /\ quiescing = [i \in Slots |-> FALSE]
  /\ generation = [i \in Slots |-> 0]
  /\ bucket = [i \in Slots |-> i % NumBuckets]
  /\ status = [i \in Slots |-> [j \in Threads |-> SERVER_DEAD]]
  /\ max_daemons_limit = StartServers
  /\ idle_spawn_rate = [b \in Buckets |-> 1]
  /\ total_daemons = StartServers
  /\ hold_off = 0
  /\ sick_child_detected = FALSE
  /\ had_healthy_child = FALSE
  /\ my_generation = 0
  /\ child_fatal = FALSE
  /\ pod = [g \in Generations |-> [b \in Buckets |-> 0]]
  /\ scan = NoScan
  /\ faults = 0
-----------------------------------------------------------------------------
(* The parent *)

\* server_main_loop found no child to reap: it serves bucket after bucket.
StartMaintenance ==
  /\ scan.at = "wait"
  /\ ~child_fatal
  /\ scan' = ScanOf(0)
  /\ UNCHANGED <<scoreboardVars, retainedVars, pod, faults>>

NextScan == IF scan.bucket + 1 < NumBuckets THEN ScanOf(scan.bucket + 1) ELSE NoScan

\* The break of the loop, and the loop's end.
StopsWhenFull ==   \* mutant
  \/ scan.i = ServerLimit
  \/ Cardinality(scan.free) = idle_spawn_rate[scan.bucket]
ScanStops ==
  \/ scan.i = ServerLimit
  \/ /\ scan.i >= max_daemons_limit
     /\ Cardinality(scan.free) = idle_spawn_rate[scan.bucket]

\* A slot to fork into, while the spawn rate allows for one more.
TakesQuiescing(i) ==   \* mutant
  /\ ~pid[i] \/ quiescing[i]
  /\ Cardinality(scan.free) < idle_spawn_rate[scan.bucket]
IsFree(i) ==
  /\ ~pid[i]
  /\ Cardinality(scan.free) < idle_spawn_rate[scan.bucket]

\* One round of the loop over the slots.  A child may change its threads'
\* states between two rounds; only the parent changes a pid.
ScanSlot ==
  LET i == scan.i
      active == IF pid[i] THEN Cardinality(ActiveThreads(i)) ELSE 0
  IN
  /\ scan.at = "scan"
  /\ ~ScanStops
  /\ scan' = [scan EXCEPT
       !.i = i + 1,
       !.idle = @ + IF pid[i] THEN Cardinality(IdleThreads(i, scan.bucket)) ELSE 0,
       !.active = @ + active,
       !.free = IF IsFree(i) THEN @ \cup {i} ELSE @,
       !.last = IF pid[i] THEN i ELSE @]
  /\ had_healthy_child' = (had_healthy_child \/ (~IsFree(i) /\ active = ThreadsPerChild))
  /\ UNCHANGED <<scoreboardVars, max_daemons_limit, idle_spawn_rate, total_daemons,
                 hold_off, sick_child_detected, my_generation, child_fatal, pod, faults>>

\* A child was sick and none has ever been healthy: httpd gives up.
GiveUp ==
  /\ scan.at = "scan" /\ ScanStops
  /\ sick_child_detected /\ ~had_healthy_child
  /\ child_fatal' = TRUE
  /\ scan' = NoScan
  /\ UNCHANGED <<scoreboardVars, max_daemons_limit, idle_spawn_rate, total_daemons,
                 hold_off, sick_child_detected, had_healthy_child, my_generation,
                 pod, faults>>

\* The rest of the function, which no shared state is read by any more.
Settle ==
  /\ scan.at = "scan" /\ ScanStops
  /\ ~(sick_child_detected /\ ~had_healthy_child)
  /\ sick_child_detected' = FALSE
  /\ scan' = NextScan
  /\ UNCHANGED <<had_healthy_child, my_generation, child_fatal, faults>>

\* The rate doubles while it is below the bucket's share of the array.
DoublesAtLimit == idle_spawn_rate[scan.bucket] <= MAX_SPAWN_RATE \div NumBuckets   \* mutant
RateMayDouble == idle_spawn_rate[scan.bucket] < MAX_SPAWN_RATE \div NumBuckets

SetRate(r) == idle_spawn_rate' = [idle_spawn_rate EXCEPT ![scan.bucket] = r]

ThrashingIdle == scan.idle >= MinSpare \div NumBuckets   \* mutant
TooManyIdle == scan.idle > MaxSpare \div NumBuckets
TooFewIdle  == scan.idle < MinSpare \div NumBuckets

Shrink ==
  /\ TooManyIdle
  /\ Settle
  /\ max_daemons_limit' = scan.last + 1
  /\ IF total_daemons <= ActiveDaemonsLimit /\ total_daemons < ServerLimit
     THEN /\ pod' = [pod EXCEPT ![my_generation][scan.bucket] =
                       IF @ < PodCapacity THEN @ + 1 ELSE @]
          /\ SetRate(1)
     ELSE UNCHANGED <<pod, idle_spawn_rate>>
  /\ UNCHANGED <<scoreboardVars, total_daemons, hold_off>>

\* At MaxRequestWorkers, or no slot is left: nothing is forked.
CannotGrow ==
  /\ TooFewIdle
  /\ scan.active >= MaxWorkers \/ scan.free = {}
  /\ Settle
  /\ max_daemons_limit' = scan.last + 1
  /\ SetRate(1)
  /\ UNCHANGED <<scoreboardVars, total_daemons, hold_off, pod>>

Grow ==
  /\ TooFewIdle
  /\ scan.active < MaxWorkers /\ scan.free # {}
  /\ Settle
  /\ \E forked \in SUBSET scan.free :
       /\ faults + Cardinality(scan.free \ forked) <= MaxFaults
       /\ MakeChildren(scan.free, forked, [i \in forked |-> scan.bucket], scan.last + 1)
  /\ IF hold_off > 0
     THEN hold_off' = hold_off - 1 /\ UNCHANGED idle_spawn_rate
     ELSE /\ UNCHANGED hold_off
          /\ IF RateMayDouble
             THEN SetRate(2 * idle_spawn_rate[scan.bucket])
             ELSE UNCHANGED idle_spawn_rate
  /\ UNCHANGED pod

LeaveAlone ==
  /\ ~TooManyIdle /\ ~TooFewIdle
  /\ Settle
  /\ max_daemons_limit' = scan.last + 1
  /\ SetRate(1)
  /\ UNCHANGED <<scoreboardVars, total_daemons, hold_off, pod>>

\* server_main_loop waits for a child: its slot is cleared.
Reap(i) ==
  /\ scan.at = "wait"
  /\ ~child_fatal
  /\ proc[i] \in {"gone", "sick"}
  /\ pid' = [pid EXCEPT ![i] = FALSE]
  /\ proc' = [proc EXCEPT ![i] = "none"]
  /\ quiescing' = [quiescing EXCEPT ![i] = FALSE]
  /\ status' = [status EXCEPT ![i] = [j \in Threads |-> SERVER_DEAD]]
  /\ total_daemons' = total_daemons - 1
  /\ IF proc[i] = "sick"
     THEN /\ sick_child_detected' = TRUE
          /\ idle_spawn_rate' = [idle_spawn_rate EXCEPT ![bucket[i]] = 1]
     ELSE UNCHANGED <<sick_child_detected, idle_spawn_rate>>
  /\ UNCHANGED <<generation, bucket, max_daemons_limit, hold_off, had_healthy_child,
                 my_generation, child_fatal, pod, scan, faults>>

\* killpg writes one byte for every daemon that may be active, in every bucket.
OneByteShort == ActiveDaemonsLimit - 1   \* mutant
BytesDivided == ActiveDaemonsLimit \div NumBuckets   \* mutant
KillpgBytes == ActiveDaemonsLimit

\* event_run leaves its main loop for a graceful restart and is entered again,
\* after it asked the old generation to leave.
GracefulRestart ==
  /\ scan.at = "wait"
  /\ ~child_fatal
  /\ my_generation < MaxGeneration
  /\ my_generation' = my_generation + 1
  /\ hold_off' = HoldOff
  /\ pod' = [pod EXCEPT ![my_generation] = [b \in Buckets |-> @[b] + KillpgBytes]]
  /\ UNCHANGED <<scoreboardVars, max_daemons_limit, idle_spawn_rate, total_daemons,
                 sick_child_detected, had_healthy_child, child_fatal, scan, faults>>
-----------------------------------------------------------------------------
(* The children *)

SetStatus(i, j, s) == status' = [status EXCEPT ![i][j] = s]
Fault == faults < MaxFaults /\ faults' = faults + 1
Up(i) == proc[i] = "up"
childFrame == <<pid, generation, bucket, retainedVars, scan>>

\* start_threads takes a dead entry of its own slot.
StartThread(i, j) ==
  /\ Up(i) /\ ~quiescing[i]
  /\ status[i][j] = SERVER_DEAD
  /\ SetStatus(i, j, SERVER_STARTING)
  /\ UNCHANGED <<childFrame, quiescing, proc, pod, faults>>

\* ... and leaves with APEXIT_CHILDSICK when apr_thread_create fails.
StartFails(i) ==
  /\ Up(i) /\ ~quiescing[i]
  /\ \E j \in Threads : status[i][j] = SERVER_DEAD
  /\ Fault
  /\ proc' = [proc EXCEPT ![i] = "sick"]
  /\ UNCHANGED <<childFrame, quiescing, status, pod>>

\* worker_thread: ready for a connection, or done with one.
BecomeReady(i, j) ==
  /\ Up(i) /\ ~quiescing[i]
  /\ status[i][j] \in {SERVER_STARTING, SERVER_BUSY}
  /\ SetStatus(i, j, SERVER_READY)
  /\ UNCHANGED <<childFrame, quiescing, proc, pod, faults>>

TakeConnection(i, j) ==
  /\ Up(i)
  /\ status[i][j] = SERVER_READY
  /\ Fault
  /\ SetStatus(i, j, SERVER_BUSY)
  /\ UNCHANGED <<childFrame, quiescing, proc, pod>>

\* close_listeners, once the listener thread runs.
CloseListeners(i) ==
  /\ Up(i) /\ ~quiescing[i]
  /\ \A j \in Threads : status[i][j] # SERVER_DEAD
  /\ quiescing' = [quiescing EXCEPT ![i] = TRUE]
  /\ status' = [status EXCEPT ![i] = [j \in Threads |-> SERVER_GRACEFUL]]

\* the child read a byte of its generation's pod.
ReadPod(i) ==
  /\ CloseListeners(i)
  /\ pod[generation[i]][bucket[i]] > 0
  /\ pod' = [pod EXCEPT ![generation[i]][bucket[i]] = @ - 1]
  /\ UNCHANGED <<childFrame, proc, faults>>

\* the child reached MaxConnectionsPerChild.
MaxConnections(i) ==
  /\ CloseListeners(i)
  /\ Fault
  /\ UNCHANGED <<childFrame, proc, pod>>

ChildExit(i) ==
  /\ Up(i) /\ quiescing[i]
  /\ proc' = [proc EXCEPT ![i] = "gone"]
  /\ status' = [status EXCEPT ![i] = [j \in Threads |-> SERVER_DEAD]]
  /\ UNCHANGED <<childFrame, quiescing, pod, faults>>

Crash(i) ==
  /\ Up(i)
  /\ Fault
  /\ proc' = [proc EXCEPT ![i] = "gone"]
  /\ UNCHANGED <<childFrame, quiescing, status, pod>>
-----------------------------------------------------------------------------
Parent ==
  \/ StartMaintenance \/ ScanSlot \/ GiveUp
  \/ Shrink \/ CannotGrow \/ Grow \/ LeaveAlone
Child(i) ==
  \/ ReadPod(i) \/ ChildExit(i)
  \/ \E j \in Threads : StartThread(i, j) \/ BecomeReady(i, j)
Outside(i) ==
  \/ StartFails(i) \/ MaxConnections(i) \/ Crash(i)
  \/ \E j \in Threads : TakeConnection(i, j)

Next ==
  \/ Parent
  \/ GracefulRestart
  \/ \E i \in Slots : Reap(i) \/ Child(i) \/ Outside(i)

Spec == Init /\ [][Next]_vars

\* The parent never stops looping and a child is never stopped for good.  Every
\* turn of server_main_loop looks for a dead child first (830_1.c), hence strong
\* fairness for Reap; nothing is promised of the outside world.
Fairness ==
  /\ WF_vars(Parent)
  /\ \A i \in Slots : SF_vars(Reap(i)) /\ WF_vars(Child(i))

FairSpec == Spec /\ Fairness
-----------------------------------------------------------------------------
TypeOK ==
  /\ pid \in [Slots -> BOOLEAN]
  /\ quiescing \in [Slots -> BOOLEAN]
  /\ generation \in [Slots -> Generations]
  /\ bucket \in [Slots -> Buckets]
  /\ status \in [Slots -> [Threads -> Statuses]]
  /\ proc \in [Slots -> {"none", "up", "gone", "sick"}]
  /\ max_daemons_limit \in 0 .. ServerLimit
  /\ idle_spawn_rate \in [Buckets -> Nat \ {0}]
  /\ total_daemons \in Int
  /\ hold_off \in Nat
  /\ sick_child_detected \in BOOLEAN /\ had_healthy_child \in BOOLEAN
  /\ child_fatal \in BOOLEAN
  /\ my_generation \in Generations
  /\ pod \in [Generations -> [Buckets -> Nat]]
  /\ scan \in [at : {"wait", "scan"}, bucket : Buckets, i : 0 .. ServerLimit,
               idle : Nat, active : Nat, free : SUBSET Slots, last : -1 .. ServerLimit - 1]
  /\ faults \in 0 .. MaxFaults

\* The slots of the processes the operating system still knows.
Living == {i \in Slots : proc[i] # "none"}

\* Every child the operating system still knows, running or waiting to be
\* reaped, is below max_daemons_limit: the early end of the scan and the killpg
\* loops up to it leave nobody out, although every pass lowers the limit.
LiveSlotsCovered == \A i \in Slots : proc[i] # "none" => i < max_daemons_limit

\* total_daemons, which decides whether a child may be retired, is the number of
\* processes, through failed forks, crashes and reaps.
DaemonsCounted == total_daemons = Cardinality(Living)

\* free_slots[MAX_SPAWN_RATE] is never overrun, although the rate is doubled
\* without looking at the size of the array and divided between the buckets.
FreeSlotsFit ==
  /\ \A b \in Buckets : idle_spawn_rate[b] <= MAX_SPAWN_RATE
  /\ Cardinality(scan.free) <= MAX_SPAWN_RATE

\* No slot the scan calls free has a process when make_child gets it, so that its
\* "BUG: Scoreboard slot should be empty" branch (1013_1.c:7) is dead.
FreeSlotsEmpty == \A i \in scan.free : ~pid[i] /\ proc[i] = "none"

\* The children of generation g in bucket b that have yet to be told to leave.
Staying(g, b) == {i \in Slots : /\ Up(i) /\ ~quiescing[i]
                               /\ generation[i] = g /\ bucket[i] = b}

\* No child of an earlier generation waits at its pipe of death in vain: the bytes
\* left there are as many as the children of its bucket that have yet to read one,
\* whatever maintenance retired or forked before the restart, and whatever left or
\* died since.  Where the scoreboard has slots beyond active_daemons_limit, which
\* decides how many bytes there are, as many children may get none.
RestartReachesAll ==
  \A g \in Generations, b \in Buckets :
    g < my_generation =>
      Cardinality(Staying(g, b)) <= pod[g][b] + (ServerLimit - ActiveDaemonsLimit)

\* When the outside leaves the children alone the pool comes to rest: from some
\* point on no process is started or retired any more (or httpd has given up).
PoolSettles ==
  \/ <>child_fatal
  \/ <>[][proc' = proc]_proc

\* A child of an earlier generation leaves in the end.
OldGenerationsLeave ==
  \A i \in Slots :
    (proc[i] # "none" /\ generation[i] < my_generation)
      ~> (child_fatal \/ proc[i] = "none")
\* The parent implements the abstract pool.
Pool == INSTANCE ServerPool
          WITH Size <- Cardinality, live <- Living, count <- total_daemons,
               limit <- max_daemons_limit
PoolSpec == Pool!Spec
=============================================================================
