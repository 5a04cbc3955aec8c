---------------------------- MODULE ParentProofs ----------------------------
(***************************************************************************)
(* The parent of the event MPM.  EventMpm, for every size of the           *)
(* scoreboard, every setting and every number of buckets: its book-keeping *)
(* agrees with the processes there are, its array of free slots is never   *)
(* overrun, a restart leaves a byte for every child it asks to go, and it  *)
(* implements the abstract pool of processes.                              *)
(*                                                                         *)
(* ServerStop, for any number of slots and processes, any timeout and      *)
(* every copy: no child that exists is forgotten, SIGKILL comes after      *)
(* SIGTERM and before the parent gives up, and a graceful wait is left for *)
(* a reason.  The first is inductive with the types.  The second needs     *)
(* what a parent knows by the place it reached in action_table: past the   *)
(* first SIGTERM every child it signals has had one, past SIGKILL that.    *)
(***************************************************************************)
EXTENDS EventMpm, ServerStop, FiniteSetTheorems, TLAPS
-----------------------------------------------------------------------------
(* EventMpm *)

\* The scan that is under way: below scan.i it has missed no process, and what
\* it calls free has none.
ScanInv ==
  /\ scan.at = "wait" => scan.free = {}
  /\ \A k \in Slots : k < scan.i /\ proc[k] # "none" => k <= scan.last
  /\ \A k \in scan.free : k < scan.i /\ proc[k] = "none"

\* parent[i].pid tells the truth about the process.
PidsAgree == \A i \in Slots : pid[i] <=> proc[i] # "none"

RatePowers == \A b \in Buckets : /\ idle_spawn_rate[b] \in {1, 2, 4, 8, 16, 32}
                                 /\ idle_spawn_rate[b] <= MAX_SPAWN_RATE
ScanFits == /\ IsFiniteSet(scan.free)
            /\ scan.at = "scan" =>
                 Cardinality(scan.free) <= idle_spawn_rate[scan.bucket]

IInv == /\ TypeOK /\ PidsAgree /\ LiveSlotsCovered /\ ScanInv
        /\ DaemonsCounted
        /\ RatePowers /\ ScanFits
-----------------------------------------------------------------------------
\* A slot added to idle_slots or free_slots makes the array longer by one at most.
LEMMA GrowsByOne ==
  ASSUME NEW S, NEW x, IsFiniteSet(S)
  PROVE  /\ IsFiniteSet(S \cup {x})
         /\ Cardinality(S \cup {x}) <= Cardinality(S) + 1
<1>1. IsFiniteSet(S \cup {x})
  BY FS_AddElement
<1>2. Cardinality(S) \in Nat
  BY FS_CardinalityType
<1>3. Cardinality(S \cup {x}) = Cardinality(S) \/ Cardinality(S \cup {x}) = Cardinality(S) + 1
  <2>1. CASE x \in S
    <3>1. S \cup {x} = S
      BY <2>1
    <3> QED BY <3>1
  <2>2. CASE x \notin S
    <3>1. Cardinality(S \cup {x}) = Cardinality(S) + 1
      BY <2>2, FS_AddElement
    <3> QED BY <3>1
  <2> QED BY <2>1, <2>2
<1> QED BY <1>1, <1>2, <1>3

\* The settings, one by one.
LEMMA Settings ==
  /\ ServerLimit \in Nat /\ ServerLimit > 0
  /\ ThreadsPerChild \in Nat /\ ThreadsPerChild > 0
  /\ NumBuckets \in Nat /\ NumBuckets > 0
  /\ ActiveDaemonsLimit \in Nat /\ ActiveDaemonsLimit <= ServerLimit
  /\ StartServers \in Nat /\ StartServers > 0 /\ StartServers <= ServerLimit
  /\ HoldOff \in Nat /\ PodCapacity \in Nat /\ MaxGeneration \in Nat /\ MaxFaults \in Nat
  /\ MAX_SPAWN_RATE \in {2, 4, 8, 16, 32}
BY SettingsAssumption, SpawnRateAssumption

ScanType == [at : {"wait", "scan"}, bucket : Buckets, i : 0 .. ServerLimit,
             idle : Nat, active : Nat, free : SUBSET Slots,
             last : -1 .. ServerLimit - 1]

\* The locals of a fresh scan have their types.
LEMMA NextScanFresh ==
  ASSUME scan \in ScanType
  PROVE  /\ NextScan \in ScanType
         /\ NextScan.free = {} /\ NextScan.i = 0
<1>1. 0 \in Buckets /\ 0 \in 0 .. ServerLimit /\ -1 \in -1 .. ServerLimit - 1
  BY Settings DEF Buckets
<1>2. NoScan \in ScanType /\ NoScan.free = {} /\ NoScan.i = 0
  BY <1>1 DEF NoScan, ScanType
<1>3. ASSUME NEW b \in Buckets
      PROVE  ScanOf(b) \in ScanType /\ ScanOf(b).free = {} /\ ScanOf(b).i = 0
  BY <1>1 DEF NoScan, ScanOf, ScanType
<1>4. CASE scan.bucket + 1 < NumBuckets
  <2>1. scan.bucket + 1 \in Buckets
    BY <1>4, Settings DEF ScanType, Buckets
  <2> QED BY <2>1, <1>3, <1>4 DEF NextScan
<1>5. CASE ~(scan.bucket + 1 < NumBuckets)
  BY <1>2, <1>5 DEF NextScan
<1> QED BY <1>4, <1>5

LEMMA SlotsFinite == IsFiniteSet(Slots) /\ IsFiniteSet(Threads)
BY FS_Interval, Settings DEF Slots, Threads
-----------------------------------------------------------------------------
THEOREM InitIInv == Init => IInv
<1> SUFFICES ASSUME Init PROVE IInv
  OBVIOUS
<1>1. /\ 0 \in Buckets /\ 0 \in Generations /\ 0 \in 0 .. ServerLimit
      /\ -1 \in -1 .. ServerLimit - 1
      /\ \A i \in Slots : i \in Nat /\ i % NumBuckets \in Buckets
  BY Settings DEF Buckets, Generations, Slots
<1>2. scan \in ScanType /\ scan.free = {} /\ scan.i = 0
  BY <1>1 DEF Init, NoScan, ScanType
<1>3. TypeOK
  <2>1. /\ pid \in [Slots -> BOOLEAN] /\ quiescing \in [Slots -> BOOLEAN]
        /\ generation \in [Slots -> Generations] /\ bucket \in [Slots -> Buckets]
        /\ proc \in [Slots -> {"none", "up", "gone", "sick"}]
    BY <1>1 DEF Init
  <2>2. status \in [Slots -> [Threads -> Statuses]]
    BY DEF Init, Statuses, SERVER_DEAD, SERVER_GRACEFUL
  <2>3. /\ max_daemons_limit \in 0 .. ServerLimit /\ total_daemons \in Int
        /\ idle_spawn_rate \in [Buckets -> Nat \ {0}] /\ hold_off \in Nat
        /\ my_generation \in Generations /\ faults \in 0 .. MaxFaults
    BY <1>1, Settings DEF Init
  <2>4. pod \in [Generations -> [Buckets -> Nat]]
    BY DEF Init
  <2> QED BY <1>2, <2>1, <2>2, <2>3, <2>4 DEF Init, TypeOK, ScanType
<1>4. PidsAgree /\ LiveSlotsCovered
  <2>1. ASSUME NEW i \in Slots
        PROVE  /\ pid[i] <=> i < StartServers
               /\ proc[i] # "none" <=> i < StartServers
    BY DEF Init
  <2> QED BY <2>1, Settings DEF Init, PidsAgree, LiveSlotsCovered
<1>5. ScanInv /\ ScanFits
  BY <1>2, FS_EmptySet, Settings DEF Init, ScanInv, ScanFits, NoScan, Slots, Buckets
<1>6. RatePowers
  BY Settings DEF Init, RatePowers
<1>7. DaemonsCounted
  <2>1. Living = 0 .. StartServers - 1
    <3>1. \A i \in Slots : proc[i] # "none" <=> i < StartServers
      BY DEF Init
    <3> QED BY <3>1, Settings DEF Living, Slots
  <2>2. Cardinality(0 .. StartServers - 1) = StartServers
    BY FS_Interval, Settings
  <2> QED BY <2>1, <2>2 DEF Init, DaemonsCounted
<1> QED BY <1>3, <1>4, <1>5, <1>6, <1>7 DEF IInv

\* A step that starts and reaps no process and leaves the parent where it is.
Quiet == /\ UNCHANGED <<pid, scan, max_daemons_limit, idle_spawn_rate, total_daemons>>
         /\ \A k \in Slots : proc'[k] = "none" <=> proc[k] = "none"

LEMMA QuietStep ==
  ASSUME IInv, Quiet
  PROVE  (PidsAgree /\ LiveSlotsCovered /\ ScanInv /\ DaemonsCounted
            /\ RatePowers /\ ScanFits)'
<1>1. Living' = Living
  BY DEF Quiet, Living
<1>2. scan.free \subseteq Slots
  BY DEF IInv, TypeOK
<1> QED BY <1>1, <1>2 DEF Quiet, IInv, PidsAgree, LiveSlotsCovered, ScanInv,
                          DaemonsCounted, RatePowers, ScanFits

\* What a child or the outside world does is quiet, and keeps the types.
LEMMA ChildStep ==
  ASSUME IInv, NEW i \in Slots, Child(i) \/ Outside(i)
  PROVE  Quiet /\ TypeOK'
<1> USE DEF childFrame, retainedVars, Up
<1>0. SERVER_DEAD \in Statuses /\ SERVER_STARTING \in Statuses /\ SERVER_READY \in Statuses
      /\ SERVER_BUSY \in Statuses /\ SERVER_GRACEFUL \in Statuses
  BY DEF Statuses, SERVER_DEAD, SERVER_STARTING, SERVER_READY, SERVER_BUSY, SERVER_GRACEFUL
<1>1. CASE ReadPod(i)
  <2>1. Quiet BY <1>1 DEF ReadPod, Quiet
  <2>2. status' \in [Slots -> [Threads -> Statuses]] /\ quiescing' \in [Slots -> BOOLEAN]
    BY <1>0, <1>1 DEF ReadPod, CloseListeners, IInv, TypeOK
  <2>3. pod' \in [Generations -> [Buckets -> Nat]]
    BY <1>1 DEF ReadPod, IInv, TypeOK
  <2> QED BY <1>1, <2>1, <2>2, <2>3 DEF ReadPod, IInv, TypeOK
<1>2. CASE ChildExit(i)
  <2>1. Quiet BY <1>2 DEF ChildExit, Quiet, IInv, TypeOK
  <2> QED BY <1>0, <1>2, <2>1 DEF ChildExit, IInv, TypeOK
<1>3. ASSUME NEW j \in Threads, NEW s \in Statuses, SetStatus(i, j, s),
             UNCHANGED <<childFrame, quiescing, proc, pod>>, faults' \in 0 .. MaxFaults
      PROVE  Quiet /\ TypeOK'
  <2>1. status' \in [Slots -> [Threads -> Statuses]]
    BY <1>3 DEF SetStatus, IInv, TypeOK
  <2> QED BY <2>1, <1>3 DEF Quiet, IInv, TypeOK
<1>4. ASSUME NEW j \in Threads, StartThread(i, j) \/ BecomeReady(i, j) \/ TakeConnection(i, j)
      PROVE  Quiet /\ TypeOK'
  <2>1. faults' \in 0 .. MaxFaults
    BY <1>4, Settings DEF StartThread, BecomeReady, TakeConnection, Fault, IInv, TypeOK
  <2> QED BY <2>1, <1>0, <1>3, <1>4 DEF StartThread, BecomeReady, TakeConnection
<1>5. CASE StartFails(i) \/ Crash(i)
  <2>1. faults' \in 0 .. MaxFaults
    BY <1>5, Settings DEF StartFails, Crash, Fault, IInv, TypeOK
  <2>2. Quiet BY <1>5 DEF StartFails, Crash, Quiet, IInv, TypeOK
  <2> QED BY <1>5, <2>1, <2>2 DEF StartFails, Crash, IInv, TypeOK
<1>6. CASE MaxConnections(i)
  <2>1. faults' \in 0 .. MaxFaults
    BY <1>6, Settings DEF MaxConnections, Fault, IInv, TypeOK
  <2>2. Quiet BY <1>6 DEF MaxConnections, Quiet
  <2>3. status' \in [Slots -> [Threads -> Statuses]] /\ quiescing' \in [Slots -> BOOLEAN]
    BY <1>0, <1>6 DEF MaxConnections, CloseListeners, IInv, TypeOK
  <2> QED BY <1>6, <2>1, <2>2, <2>3 DEF MaxConnections, IInv, TypeOK
<1> QED BY <1>1, <1>2, <1>4, <1>5, <1>6 DEF Child, Outside
-----------------------------------------------------------------------------
\* A scan that ends has seen every process there is.
LEMMA ScanSeesAll ==
  ASSUME IInv, scan.at = "scan", ScanStops, NEW k \in Slots, proc[k] # "none"
  PROVE  k < scan.last + 1
<1>1. k < max_daemons_limit /\ k < ServerLimit /\ k \in Int /\ scan.last \in Int
  BY Settings DEF IInv, LiveSlotsCovered, Slots, TypeOK
<1>2. k < scan.i
  BY <1>1, Settings DEF ScanStops, IInv, TypeOK
<1>3. k <= scan.last
  BY <1>2 DEF IInv, ScanInv
<1> QED BY <1>1, <1>3

\* The end of a pass that starts no process: the parent goes on to its next scan.
LEMMA SettleStep ==
  ASSUME IInv, scan.at = "scan", ScanStops, NextScan \in ScanType, NextScan.free = {},
         NextScan.i = 0,
         scan' = NextScan \/ scan' = NoScan,
         UNCHANGED <<pid, proc, total_daemons>>,
         max_daemons_limit' = scan.last + 1,
         RatePowers'
  PROVE  (PidsAgree /\ LiveSlotsCovered /\ ScanInv /\ DaemonsCounted
            /\ RatePowers /\ ScanFits)'
<1>1. scan'.free = {} /\ scan'.i = 0
  BY DEF NoScan
<1>2. LiveSlotsCovered'
  BY ScanSeesAll DEF LiveSlotsCovered
<1>3. PidsAgree' /\ DaemonsCounted'
  BY DEF IInv, PidsAgree, DaemonsCounted, Living
<1>4. ScanInv' /\ ScanFits'
  <2>1. \A k \in Slots : ~(k < 0)
    BY DEF Slots
  <2>2. \A b \in Buckets : 0 <= idle_spawn_rate'[b]
    BY DEF RatePowers
  <2>3. scan'.at = "scan" => scan'.bucket \in Buckets
    BY DEF ScanType, NoScan
  <2> QED BY <1>1, <2>1, <2>2, <2>3, FS_EmptySet DEF ScanInv, ScanFits
<1> QED BY <1>2, <1>3, <1>4
-----------------------------------------------------------------------------
Rest == PidsAgree /\ LiveSlotsCovered /\ ScanInv /\ DaemonsCounted
          /\ RatePowers /\ ScanFits

\* Powers of two up to the size of the array stay so when one below the bucket's
\* share of it is doubled.
LEMMA DoubledRate ==
  ASSUME NEW r \in {1, 2, 4, 8, 16, 32}, r < MAX_SPAWN_RATE \div NumBuckets
  PROVE  2 * r \in {1, 2, 4, 8, 16, 32} /\ 2 * r <= MAX_SPAWN_RATE
<1>1. MAX_SPAWN_RATE \div NumBuckets <= MAX_SPAWN_RATE
  BY Settings
<1>2. MAX_SPAWN_RATE \div NumBuckets \in Int
  BY Settings
<1>3. r < MAX_SPAWN_RATE
  BY <1>1, <1>2, Settings
<1> QED BY <1>3, Settings

LEMMA StartMaintenanceStep ==
  ASSUME IInv, StartMaintenance
  PROVE  TypeOK' /\ Rest'
<1>1. 0 \in Buckets /\ 0 \in 0 .. ServerLimit /\ -1 \in -1 .. ServerLimit - 1
  BY Settings DEF Buckets
<1>2. scan' \in ScanType /\ scan'.free = {} /\ scan'.i = 0
  BY <1>1 DEF StartMaintenance, ScanOf, NoScan, ScanType
<1>3. TypeOK'
  BY <1>2 DEF StartMaintenance, scoreboardVars, retainedVars, IInv, TypeOK, ScanType
<1>4. PidsAgree' /\ LiveSlotsCovered' /\ DaemonsCounted' /\ RatePowers'
  BY DEF StartMaintenance, scoreboardVars, retainedVars, IInv, PidsAgree,
         LiveSlotsCovered, DaemonsCounted, Living, RatePowers
<1>5. ScanInv' /\ ScanFits'
  <2>1. \A k \in Slots : ~(k < 0)
    BY DEF Slots
  <2>2. \A b \in Buckets : 0 <= idle_spawn_rate'[b]
    BY <1>4 DEF RatePowers
  <2>3. scan'.bucket \in Buckets
    BY <1>2 DEF ScanType
  <2> QED BY <1>2, <2>1, <2>2, <2>3, FS_EmptySet DEF ScanInv, ScanFits
<1> QED BY <1>3, <1>4, <1>5 DEF Rest

LEMMA ScanSlotStep ==
  ASSUME IInv, ScanSlot
  PROVE  TypeOK' /\ Rest'
<1> DEFINE i == scan.i
           r == idle_spawn_rate[scan.bucket]
<1>1. /\ scan \in ScanType /\ scan.at = "scan" /\ ~ScanStops
      /\ i \in Slots /\ i + 1 \in 0 .. ServerLimit /\ r \in Nat
  <2>1. scan \in ScanType /\ scan.at = "scan" /\ ~ScanStops
    BY DEF ScanSlot, IInv, TypeOK, ScanType
  <2>2. i # ServerLimit /\ i \in 0 .. ServerLimit
    BY <2>1 DEF ScanStops, ScanType
  <2>3. r \in Nat
    BY <2>1 DEF ScanType, IInv, TypeOK
  <2> QED BY <2>1, <2>2, <2>3, Settings DEF Slots
<1>2. /\ Cardinality(ActiveThreads(i)) \in Nat
      /\ Cardinality(IdleThreads(i, scan.bucket)) \in Nat
  BY SlotsFinite, FS_Subset, FS_CardinalityType DEF ActiveThreads, IdleThreads
<1>3. UNCHANGED <<scoreboardVars, max_daemons_limit, idle_spawn_rate, total_daemons,
                  hold_off, sick_child_detected, my_generation, child_fatal, pod, faults>>
  BY DEF ScanSlot
<1>4. /\ scan'.at = "scan" /\ scan'.bucket = scan.bucket /\ scan'.i = i + 1
      /\ scan'.idle \in Nat /\ scan'.active \in Nat
      /\ scan'.last = IF pid[i] THEN i ELSE scan.last
      /\ scan'.free = IF ~pid[i] /\ Cardinality(scan.free) < r
                      THEN scan.free \cup {i} ELSE scan.free
  BY <1>1, <1>2 DEF ScanSlot, IsFree, ScanType
<1>5. scan' \in ScanType
  <2>1. scan'.last \in -1 .. ServerLimit - 1 /\ scan'.free \in SUBSET Slots
    BY <1>1, <1>4, Settings DEF ScanType, Slots
  <2>2. scan' = [at |-> scan'.at, bucket |-> scan'.bucket, i |-> scan'.i,
                 idle |-> scan'.idle, active |-> scan'.active, free |-> scan'.free,
                 last |-> scan'.last]
    BY <1>1 DEF ScanSlot, ScanType
  <2> QED BY <1>1, <1>4, <2>1, <2>2 DEF ScanType
<1>6. TypeOK'
  <2>1. had_healthy_child' \in BOOLEAN
    BY DEF ScanSlot
  <2> QED BY <1>3, <1>5, <2>1 DEF scoreboardVars, IInv, TypeOK, ScanType
<1>7. PidsAgree' /\ LiveSlotsCovered' /\ DaemonsCounted' /\ RatePowers'
  BY <1>3 DEF scoreboardVars, IInv, PidsAgree,
         LiveSlotsCovered, DaemonsCounted, Living, RatePowers
<1>8. ScanInv'
  <2>1. pid[i] <=> proc[i] # "none"
    BY <1>1 DEF IInv, PidsAgree
  <2>2. proc' = proc
    BY <1>3 DEF scoreboardVars
  <2>3. ASSUME NEW k \in Slots, k < i + 1, proc[k] # "none"
        PROVE  k <= scan'.last
    <3>1. CASE k = i
      BY <1>4, <2>1, <2>3, <3>1 DEF Slots
    <3>2. CASE k < i
      <4>1. k <= scan.last
        BY <2>3, <3>2 DEF IInv, ScanInv
      <4> QED BY <1>1, <1>4, <3>2, <4>1 DEF Slots, ScanType
    <3> QED BY <1>1, <2>3, <3>1, <3>2 DEF Slots
  <2>4. ASSUME NEW k \in scan'.free
        PROVE  k < i + 1 /\ proc[k] = "none"
    <3>1. CASE k \in scan.free
      BY <1>1, <3>1 DEF IInv, ScanInv, ScanType, Slots
    <3>2. CASE k = i /\ ~pid[i]
      BY <1>1, <2>1, <3>2 DEF Slots
    <3> QED BY <1>4, <2>4, <3>1, <3>2
  <2> QED BY <1>4, <2>2, <2>3, <2>4 DEF ScanInv
<1>9. ScanFits'
  <2>1. IsFiniteSet(scan.free) /\ Cardinality(scan.free) <= r
        /\ Cardinality(scan.free) \in Nat
    BY <1>1, FS_CardinalityType DEF IInv, ScanFits
  <2>2. /\ IsFiniteSet(scan.free \cup {i})
        /\ Cardinality(scan.free \cup {i}) <= Cardinality(scan.free) + 1
    BY <2>1, GrowsByOne
  <2>3. Cardinality(scan.free \cup {i}) \in Nat
    BY <2>2, FS_CardinalityType
  <2>4. idle_spawn_rate' = idle_spawn_rate
    BY <1>3
  <2> QED BY <1>1, <1>4, <2>1, <2>2, <2>3, <2>4 DEF ScanFits
<1> QED BY <1>6, <1>7, <1>8, <1>9 DEF Rest

LEMMA GiveUpStep ==
  ASSUME IInv, GiveUp
  PROVE  TypeOK' /\ Rest'
<1>1. NoScan \in ScanType /\ NoScan.free = {} /\ NoScan.i = 0 /\ NoScan.at = "wait"
  <2>1. 0 \in Buckets /\ 0 \in 0 .. ServerLimit /\ -1 \in -1 .. ServerLimit - 1
    BY Settings DEF Buckets
  <2> QED BY <2>1 DEF NoScan, ScanType
<1>2. TypeOK'
  BY <1>1 DEF GiveUp, scoreboardVars, IInv, TypeOK, ScanType
<1>3. PidsAgree' /\ LiveSlotsCovered' /\ DaemonsCounted' /\ RatePowers'
  BY DEF GiveUp, scoreboardVars, IInv, PidsAgree, LiveSlotsCovered, DaemonsCounted,
         Living, RatePowers
<1>4. ScanInv' /\ ScanFits'
  <2>1. \A k \in Slots : ~(k < 0)
    BY DEF Slots
  <2> QED BY <1>1, <2>1, FS_EmptySet DEF GiveUp, ScanInv, ScanFits
<1> QED BY <1>2, <1>3, <1>4 DEF Rest

\* What every pass does that is not the last one of httpd.
LEMMA SettleFrame ==
  ASSUME IInv, Settle
  PROVE  /\ scan.at = "scan" /\ ScanStops /\ scan \in ScanType
         /\ NextScan \in ScanType /\ NextScan.free = {} /\ NextScan.i = 0
         /\ scan' = NextScan
         /\ scan.bucket \in Buckets /\ scan.last + 1 \in 0 .. ServerLimit
         /\ sick_child_detected' \in BOOLEAN /\ had_healthy_child' \in BOOLEAN
         /\ child_fatal' \in BOOLEAN /\ my_generation' \in Generations
         /\ faults' \in 0 .. MaxFaults
<1>1. scan \in ScanType
  BY DEF IInv, TypeOK, ScanType
<1>2. scan.bucket \in Buckets /\ scan.last + 1 \in 0 .. ServerLimit
  BY <1>1, Settings DEF ScanType
<1> QED BY <1>1, <1>2, NextScanFresh DEF Settle, IInv, TypeOK

LEMMA SetRateStep ==
  ASSUME IInv, Settle, NEW r \in {1, 2, 4, 8, 16, 32}, r <= MAX_SPAWN_RATE, SetRate(r)
  PROVE  RatePowers' /\ idle_spawn_rate' \in [Buckets -> Nat \ {0}]
<1>1. scan.bucket \in Buckets
  BY SettleFrame
<1> QED BY <1>1 DEF SetRate, RatePowers, IInv, TypeOK

\* The three passes that fork nothing.
LEMMA NoForkStep ==
  ASSUME IInv, Shrink \/ CannotGrow \/ LeaveAlone
  PROVE  TypeOK' /\ Rest'
<1>1. Settle /\ max_daemons_limit' = scan.last + 1
      /\ UNCHANGED <<scoreboardVars, total_daemons, hold_off>>
  BY DEF Shrink, CannotGrow, LeaveAlone
<1>2. pod' \in [Generations -> [Buckets -> Nat]]
  BY Settings DEF Shrink, CannotGrow, LeaveAlone, IInv, TypeOK
<1>3. RatePowers' /\ idle_spawn_rate' \in [Buckets -> Nat \ {0}]
  <2>1. CASE SetRate(1)
    BY <1>1, <2>1, SetRateStep, Settings
  <2>2. CASE UNCHANGED idle_spawn_rate
    BY <2>2 DEF RatePowers, IInv, TypeOK
  <2> QED BY <2>1, <2>2 DEF Shrink, CannotGrow, LeaveAlone
<1>4. TypeOK'
  BY <1>1, <1>2, <1>3, SettleFrame DEF scoreboardVars, IInv, TypeOK, ScanType
<1>5. Rest'
  BY <1>1, <1>3, SettleFrame, SettleStep DEF scoreboardVars, Rest
<1> QED BY <1>4, <1>5

LEMMA GrowStep ==
  ASSUME IInv, Grow
  PROVE  TypeOK' /\ Rest'
<1>1. PICK forked \in SUBSET scan.free :
        MakeChildren(scan.free, forked, [i \in forked |-> scan.bucket], scan.last + 1)
  BY DEF Grow
<1> DEFINE limit == max_daemons_limit'
<1>2. Settle /\ UNCHANGED pod
  BY DEF Grow
<1>3. scan.free \subseteq Slots /\ scan.bucket \in Buckets
  BY <1>2, SettleFrame DEF ScanType
<1>4. \A i \in scan.free : ~pid[i] /\ proc[i] = "none"
  BY <1>3 DEF IInv, ScanInv, PidsAgree
<1>5. /\ limit \in scan.last + 1 .. ServerLimit
      /\ \A i \in scan.free : i < limit
      /\ pid' = [i \in Slots |-> pid[i] \/ i \in forked]
      /\ proc' = [i \in Slots |-> IF i \in forked THEN "up" ELSE proc[i]]
      /\ quiescing' = [i \in Slots |-> quiescing[i] /\ i \notin forked]
      /\ bucket' = [i \in Slots |-> IF i \in forked THEN scan.bucket ELSE bucket[i]]
      /\ generation' = [i \in Slots |-> IF i \in forked THEN my_generation
                                                        ELSE generation[i]]
      /\ total_daemons' = total_daemons + Cardinality(forked)
      /\ UNCHANGED status
  BY <1>1 DEF MakeChildren, Started
<1>6. RatePowers' /\ idle_spawn_rate' \in [Buckets -> Nat \ {0}]
  <2>1. CASE UNCHANGED idle_spawn_rate
    BY <2>1 DEF RatePowers, IInv, TypeOK
  <2>2. CASE /\ idle_spawn_rate[scan.bucket] < MAX_SPAWN_RATE \div NumBuckets
             /\ SetRate(2 * idle_spawn_rate[scan.bucket])
    <3>1. idle_spawn_rate[scan.bucket] \in {1, 2, 4, 8, 16, 32}
      BY <1>3 DEF IInv, RatePowers
    <3> QED BY <3>1, <2>2, <1>2, DoubledRate, SetRateStep
  <2> QED BY <2>1, <2>2 DEF Grow, RateMayDouble
<1>7. IsFiniteSet(forked) /\ Cardinality(forked) \in Nat
  <2>1. IsFiniteSet(scan.free)
    BY DEF IInv, ScanFits
  <2> QED BY <2>1, FS_Subset, FS_CardinalityType
<1>8. TypeOK'
  <2>1. hold_off' \in Nat
    BY DEF Grow, IInv, TypeOK
  <2>2. limit \in 0 .. ServerLimit
    BY <1>2, <1>5, SettleFrame, Settings
  <2>3. /\ pid' \in [Slots -> BOOLEAN]
        /\ quiescing' \in [Slots -> BOOLEAN]
    BY <1>5 DEF IInv, TypeOK
  <2>4. /\ proc' \in [Slots -> {"none", "up", "gone", "sick"}]
        /\ bucket' \in [Slots -> Buckets]
        /\ generation' \in [Slots -> Generations]
    BY <1>3, <1>5 DEF IInv, TypeOK
  <2>5. total_daemons' \in Int
    BY <1>5, <1>7 DEF IInv, TypeOK
  <2> QED BY <1>2, <1>5, <1>6, <2>1, <2>2, <2>3, <2>4, <2>5, SettleFrame
          DEF IInv, TypeOK, ScanType
<1>9. \A k \in Slots : /\ pid'[k] <=> (pid[k] \/ k \in forked)
                       /\ proc'[k] # "none" <=> (proc[k] # "none" \/ k \in forked)
  BY <1>5
<1>10. PidsAgree'
  BY <1>9 DEF IInv, PidsAgree
<1>11. LiveSlotsCovered'
  <2>1. ASSUME NEW k \in Slots, proc[k] # "none"
        PROVE  k < limit
    <3>1. k < scan.last + 1
      BY <1>2, <2>1, ScanSeesAll, SettleFrame
    <3> QED BY <1>2, <1>5, <3>1, SettleFrame, Settings DEF Slots
  <2> QED BY <1>5, <1>9, <2>1 DEF LiveSlotsCovered
<1>12. DaemonsCounted'
  <2>1. Living' = Living \cup forked
    BY <1>3, <1>9 DEF Living
  <2>2. IsFiniteSet(Living)
    BY SlotsFinite, FS_Subset DEF Living
  <2>3. Living \cap forked = {}
    BY <1>4 DEF Living
  <2>4. Cardinality(Living \cup forked) = Cardinality(Living) + Cardinality(forked)
    <3>1. Cardinality(Living \cap forked) = 0
      BY <2>3, FS_EmptySet
    <3>2. Cardinality(Living \cup forked) =
            Cardinality(Living) + Cardinality(forked) - Cardinality(Living \cap forked)
      BY <1>7, <2>2, FS_Union
    <3>3. Cardinality(Living) \in Nat
      BY <2>2, FS_CardinalityType
    <3> QED BY <1>7, <3>1, <3>2, <3>3
  <2> QED BY <1>5, <2>1, <2>4 DEF IInv, DaemonsCounted
<1>13. ScanInv' /\ ScanFits'
  <2>1. scan'.free = {} /\ scan'.i = 0 /\ scan'.bucket \in Buckets
    BY <1>2, SettleFrame DEF ScanType
  <2>2. \A k \in Slots : ~(k < 0)
    BY DEF Slots
  <2>3. \A b \in Buckets : 0 <= idle_spawn_rate'[b]
    BY <1>6 DEF RatePowers
  <2> QED BY <2>1, <2>2, <2>3, FS_EmptySet DEF ScanInv, ScanFits
<1> QED BY <1>6, <1>8, <1>10, <1>11, <1>12, <1>13 DEF Rest

LEMMA ReapStep ==
  ASSUME IInv, NEW i \in Slots, Reap(i)
  PROVE  TypeOK' /\ Rest'
<1>1. /\ idle_spawn_rate' \in [Buckets -> Nat \ {0}] /\ RatePowers'
      /\ sick_child_detected' \in BOOLEAN
  <2>1. CASE UNCHANGED <<sick_child_detected, idle_spawn_rate>>
    BY <2>1 DEF IInv, TypeOK, RatePowers
  <2>2. CASE /\ sick_child_detected' = TRUE
             /\ idle_spawn_rate' = [idle_spawn_rate EXCEPT ![bucket[i]] = 1]
    <3>1. 1 <= MAX_SPAWN_RATE
      BY Settings
    <3> QED BY <2>2, <3>1 DEF IInv, TypeOK, RatePowers
  <2> QED BY <2>1, <2>2 DEF Reap
<1>2. status' \in [Slots -> [Threads -> Statuses]]
  <2>1. SERVER_DEAD \in Statuses
    BY DEF SERVER_DEAD, SERVER_GRACEFUL, Statuses
  <2> QED BY <2>1 DEF Reap, IInv, TypeOK
<1>3. TypeOK'
  BY <1>1, <1>2 DEF Reap, IInv, TypeOK
<1>4. PidsAgree' /\ LiveSlotsCovered'
  BY DEF Reap, IInv, TypeOK, PidsAgree, LiveSlotsCovered
<1>5. DaemonsCounted'
  <2>1. Living' = Living \ {i} /\ i \in Living
    BY DEF Reap, Living, IInv, TypeOK
  <2>2. IsFiniteSet(Living)
    BY SlotsFinite, FS_Subset DEF Living
  <2>3. Cardinality(Living \ {i}) = Cardinality(Living) - 1
    BY <2>1, <2>2, FS_RemoveElement
  <2> QED BY <2>1, <2>3 DEF Reap, IInv, DaemonsCounted
<1>6. ScanInv' /\ ScanFits'
  BY DEF Reap, IInv, TypeOK, ScanInv, ScanFits
<1> QED BY <1>1, <1>3, <1>4, <1>5, <1>6 DEF Rest

LEMMA RestartStep ==
  ASSUME IInv, GracefulRestart
  PROVE  TypeOK' /\ Rest'
<1>1. my_generation' \in Generations /\ hold_off' \in Nat
  BY Settings DEF GracefulRestart, Generations, IInv, TypeOK
<1>2. pod' \in [Generations -> [Buckets -> Nat]]
  BY Settings DEF GracefulRestart, KillpgBytes, IInv, TypeOK
<1>3. TypeOK'
  <2>1. UNCHANGED <<pid, quiescing, generation, bucket, status, proc, max_daemons_limit,
                    idle_spawn_rate, total_daemons, sick_child_detected,
                    had_healthy_child, child_fatal, scan, faults>>
    BY DEF GracefulRestart, scoreboardVars
  <2> QED BY <1>1, <1>2, <2>1 DEF IInv, TypeOK
<1>4. Quiet
  BY DEF GracefulRestart, scoreboardVars, Quiet
<1> QED BY <1>3, <1>4, QuietStep DEF Rest

THEOREM StepIInv == IInv /\ [Next]_vars => IInv'
<1> SUFFICES ASSUME IInv, [Next]_vars PROVE TypeOK' /\ Rest'
  BY DEF IInv, Rest
<1>1. CASE Parent
  BY <1>1, StartMaintenanceStep, ScanSlotStep, GiveUpStep, NoForkStep, GrowStep DEF Parent
<1>2. CASE GracefulRestart
  BY <1>2, RestartStep
<1>3. CASE \E i \in Slots : Reap(i)
  BY <1>3, ReapStep
<1>4. CASE \E i \in Slots : Child(i) \/ Outside(i)
  BY <1>4, ChildStep, QuietStep DEF Rest
<1>5. CASE UNCHANGED vars
  <2>1. Quiet
    BY <1>5 DEF vars, scoreboardVars, retainedVars, Quiet
  <2>2. TypeOK'
    BY <1>5 DEF vars, scoreboardVars, retainedVars, IInv, TypeOK
  <2> QED BY <2>1, <2>2, QuietStep DEF Rest
<1> QED BY <1>1, <1>2, <1>3, <1>4, <1>5 DEF Next
-----------------------------------------------------------------------------
THEOREM Invariant == Spec => []IInv
BY InitIInv, StepIInv, PTL DEF Spec

THEOREM TypeCorrect == Spec => []TypeOK
BY Invariant, PTL DEF IInv

\* The scan and the killpg loops that stop at max_daemons_limit leave out no
\* process (1014_1.c:21, 63; 1013_1.c:4).
THEOREM LiveCovered == Spec => []LiveSlotsCovered
BY Invariant, PTL DEF IInv

\* total_daemons counts the processes, also across failed forks (1013_1.c:21, 39).
THEOREM Counted == Spec => []DaemonsCounted
BY Invariant, PTL DEF IInv

\* free_slots[] holds whatever a pass collects, for every MAX_SPAWN_RATE that is a
\* power of two and every number of buckets (1014_1.c:12, 43, 123).
THEOREM ArrayFits == Spec => []FreeSlotsFit
<1>1. IInv => FreeSlotsFit
  <2> SUFFICES ASSUME IInv PROVE FreeSlotsFit
    OBVIOUS
  <2>1. \A b \in Buckets : idle_spawn_rate[b] <= MAX_SPAWN_RATE
    BY DEF IInv, RatePowers
  <2>2. CASE scan.at = "wait"
    BY <2>1, <2>2, FS_EmptySet, Settings DEF IInv, ScanInv, FreeSlotsFit
  <2>3. CASE scan.at = "scan"
    <3>1. scan.bucket \in Buckets /\ Cardinality(scan.free) \in Nat
      BY FS_CardinalityType DEF IInv, TypeOK, ScanFits
    <3>2. /\ Cardinality(scan.free) <= idle_spawn_rate[scan.bucket]
          /\ idle_spawn_rate[scan.bucket] \in Nat
      BY <2>3, <3>1 DEF IInv, TypeOK, ScanFits
    <3> QED BY <2>1, <3>1, <3>2, Settings DEF FreeSlotsFit
  <2> QED BY <2>2, <2>3 DEF IInv, TypeOK
<1> QED BY <1>1, Invariant, PTL

\* make_child never meets a slot in use (1013_1.c:7).
THEOREM FreeEmpty == Spec => []FreeSlotsEmpty
<1>1. IInv => FreeSlotsEmpty
  BY DEF IInv, TypeOK, ScanInv, PidsAgree, FreeSlotsEmpty
<1> QED BY <1>1, Invariant, PTL

\* A bucket with no more children to tell, and no fewer bytes, keeps enough of them.
LEMMA FewerStaying ==
  ASSUME IInv, RestartReachesAll, NEW g \in Generations, NEW b \in Buckets,
         g < my_generation, Staying(g, b)' \subseteq Staying(g, b),
         pod'[g][b] \in Nat, pod'[g][b] >= pod[g][b]
  PROVE  Cardinality(Staying(g, b)') <= pod'[g][b] + (ServerLimit - ActiveDaemonsLimit)
<1>1. IsFiniteSet(Staying(g, b))
  BY SlotsFinite, FS_Subset DEF Staying
<1>2. /\ Cardinality(Staying(g, b)') <= Cardinality(Staying(g, b))
      /\ Cardinality(Staying(g, b)') \in Nat /\ Cardinality(Staying(g, b)) \in Nat
  BY <1>1, FS_Subset, FS_CardinalityType
<1>3. Cardinality(Staying(g, b)) <= pod[g][b] + (ServerLimit - ActiveDaemonsLimit)
  BY DEF RestartReachesAll
<1>4. pod[g][b] \in Nat
  BY DEF IInv, TypeOK
<1> QED BY <1>2, <1>3, <1>4, Settings

\* A step that neither adds a child to an earlier generation nor takes a byte.
NobodyNew ==
  \A k \in Slots :
    proc'[k] = "up" /\ ~quiescing'[k] /\ generation'[k] < my_generation
      => /\ proc[k] = "up" /\ ~quiescing[k]
         /\ generation'[k] = generation[k] /\ bucket'[k] = bucket[k]
BytesKept ==
  /\ my_generation' = my_generation
  /\ \A g \in Generations, b \in Buckets : g < my_generation => pod'[g][b] = pod[g][b]

LEMMA NobodyStays ==
  ASSUME IInv, IInv', RestartReachesAll, NobodyNew, BytesKept
  PROVE  RestartReachesAll'
<1> USE DEF BytesKept
<1> SUFFICES ASSUME NEW g \in Generations, NEW b \in Buckets, g < my_generation
             PROVE  Cardinality(Staying(g, b)')
                      <= pod'[g][b] + (ServerLimit - ActiveDaemonsLimit)
  BY DEF RestartReachesAll
<1>1. Staying(g, b)' \subseteq Staying(g, b)
  BY DEF Staying, Up, NobodyNew
<1>2. pod'[g][b] \in Nat /\ pod'[g][b] >= pod[g][b]
  BY DEF IInv, TypeOK
<1> QED BY <1>1, <1>2, FewerStaying

\* The child that reads a byte is one of those the byte was written for.
LEMMA ReadPodReaches ==
  ASSUME IInv, IInv', RestartReachesAll, NEW i \in Slots, ReadPod(i)
  PROVE  RestartReachesAll'
<1> SUFFICES ASSUME NEW g \in Generations, NEW b \in Buckets, g < my_generation
             PROVE  Cardinality(Staying(g, b)')
                      <= pod'[g][b] + (ServerLimit - ActiveDaemonsLimit)
  BY DEF RestartReachesAll, ReadPod, childFrame, retainedVars
<1>1. /\ proc' = proc /\ generation' = generation /\ bucket' = bucket
      /\ quiescing' = [quiescing EXCEPT ![i] = TRUE]
      /\ Up(i) /\ ~quiescing[i]
      /\ pod' = [pod EXCEPT ![generation[i]][bucket[i]] = @ - 1]
  BY DEF ReadPod, CloseListeners, childFrame
<1>2. pod[g][b] \in Nat /\ pod'[g][b] \in Nat
  BY DEF IInv, TypeOK
<1>3. Staying(g, b)' = Staying(g, b) \ {i}
  BY <1>1 DEF Staying, Up, IInv, TypeOK
<1>4. CASE generation[i] = g /\ bucket[i] = b
  <2>1. i \in Staying(g, b)
    BY <1>1, <1>4 DEF Staying
  <2>2. IsFiniteSet(Staying(g, b))
    BY SlotsFinite, FS_Subset DEF Staying
  <2>3. /\ Cardinality(Staying(g, b)') = Cardinality(Staying(g, b)) - 1
        /\ Cardinality(Staying(g, b)) \in Nat
    BY <1>3, <2>1, <2>2, FS_RemoveElement, FS_CardinalityType
  <2>4. pod'[g][b] = pod[g][b] - 1
    BY <1>1, <1>4 DEF IInv, TypeOK
  <2>5. Cardinality(Staying(g, b)) <= pod[g][b] + (ServerLimit - ActiveDaemonsLimit)
    BY <1>1 DEF RestartReachesAll
  <2> QED BY <1>2, <2>3, <2>4, <2>5, Settings
<1>5. CASE ~(generation[i] = g /\ bucket[i] = b)
  <2>1. pod'[g][b] >= pod[g][b] /\ g < my_generation
    BY <1>1, <1>2, <1>5 DEF IInv, TypeOK
  <2> QED BY <1>2, <1>3, <2>1, FewerStaying
<1> QED BY <1>4, <1>5

\* A restart writes a byte for every slot but for those beyond the active limit.
LEMMA RestartReaches ==
  ASSUME IInv, IInv', RestartReachesAll, GracefulRestart
  PROVE  RestartReachesAll'
<1> SUFFICES ASSUME NEW g \in Generations, NEW b \in Buckets, g < my_generation'
             PROVE  Cardinality(Staying(g, b)')
                      <= pod'[g][b] + (ServerLimit - ActiveDaemonsLimit)
  BY DEF RestartReachesAll
<1>1. /\ my_generation \in Generations /\ my_generation' = my_generation + 1
      /\ pod' = [pod EXCEPT ![my_generation] = [c \in Buckets |-> @[c] + KillpgBytes]]
      /\ UNCHANGED <<proc, quiescing, generation, bucket>>
  BY DEF GracefulRestart, scoreboardVars, IInv, TypeOK
<1>2. Staying(g, b)' = Staying(g, b)
  BY <1>1 DEF Staying, Up
<1>3. pod[g][b] \in Nat /\ pod'[g][b] \in Nat
  BY DEF IInv, TypeOK
<1>4. CASE g = my_generation
  <2>1. pod'[g][b] = pod[g][b] + ActiveDaemonsLimit
    BY <1>1, <1>4 DEF KillpgBytes, IInv, TypeOK
  <2>2. Cardinality(Slots) = ServerLimit
    <3>1. Cardinality(0 .. ServerLimit - 1) = ServerLimit - 1 - 0 + 1
      BY FS_Interval, Settings
    <3> QED BY <3>1, Settings DEF Slots
  <2>3. /\ Cardinality(Staying(g, b)) <= Cardinality(Slots)
        /\ Cardinality(Staying(g, b)) \in Nat
    BY SlotsFinite, FS_Subset, FS_CardinalityType DEF Staying
  <2> QED BY <1>2, <1>3, <2>1, <2>2, <2>3, Settings
<1>5. CASE g # my_generation
  <2>1. g < my_generation
    BY <1>1, <1>5 DEF Generations
  <2>2. pod'[g][b] >= pod[g][b]
    BY <1>1, <1>3, <1>5 DEF IInv, TypeOK
  <2>3. Staying(g, b)' \subseteq Staying(g, b)
    BY <1>2
  <2> QED BY <1>3, <2>1, <2>2, <2>3, FewerStaying
<1> QED BY <1>4, <1>5

\* A new child is of the current generation, and has a slot that was empty.
LEMMA GrowReaches ==
  ASSUME IInv, IInv', RestartReachesAll, Grow
  PROVE  RestartReachesAll'
<1>1. PICK forked \in SUBSET scan.free :
        MakeChildren(scan.free, forked, [i \in forked |-> scan.bucket], scan.last + 1)
  BY DEF Grow
<1>2. my_generation' = my_generation /\ pod' = pod
  BY DEF Grow, Settle
<1>3. ASSUME NEW k \in Slots, generation'[k] < my_generation
      PROVE  /\ proc'[k] = proc[k] /\ quiescing'[k] = quiescing[k]
             /\ generation'[k] = generation[k] /\ bucket'[k] = bucket[k]
  <2>1. my_generation \in Int
    BY DEF IInv, TypeOK, Generations
  <2>2. k \notin forked
    BY <1>1, <1>3, <2>1 DEF MakeChildren
  <2> QED BY <1>1, <2>2 DEF MakeChildren, IInv, TypeOK
<1>4. NobodyNew
  BY <1>3 DEF NobodyNew
<1>5. BytesKept
  BY <1>2 DEF BytesKept
<1> QED BY <1>4, <1>5, NobodyStays

\* Every step keeps a byte for whoever has yet to read one.
LEMMA StepReaches ==
  ASSUME IInv, IInv', RestartReachesAll, [Next]_vars
  PROVE  RestartReachesAll'
<1>1. CASE Shrink
  <2>1. my_generation \in Int
    BY DEF IInv, TypeOK, Generations
  <2>2. \A g \in Generations, b \in Buckets : g < my_generation => pod'[g][b] = pod[g][b]
    <3>1. CASE total_daemons <= ActiveDaemonsLimit /\ total_daemons < ServerLimit
      <4>1. pod' = [pod EXCEPT ![my_generation][scan.bucket] =
                       IF @ < PodCapacity THEN @ + 1 ELSE @]
        BY <1>1, <3>1 DEF Shrink
      <4> QED BY <2>1, <4>1 DEF IInv, TypeOK
    <3>2. CASE ~(total_daemons <= ActiveDaemonsLimit /\ total_daemons < ServerLimit)
      BY <1>1, <3>2 DEF Shrink
    <3> QED BY <3>1, <3>2
  <2>3. UNCHANGED <<scoreboardVars, my_generation>>
    BY <1>1 DEF Shrink, Settle
  <2>4. NobodyNew /\ BytesKept
    BY <2>2, <2>3 DEF scoreboardVars, NobodyNew, BytesKept
  <2> QED BY <2>4, NobodyStays
<1>2. CASE StartMaintenance \/ ScanSlot \/ GiveUp \/ CannotGrow \/ LeaveAlone \/ UNCHANGED vars
  <2>1. UNCHANGED <<scoreboardVars, my_generation, pod>>
    BY <1>2 DEF StartMaintenance, ScanSlot, GiveUp, CannotGrow, LeaveAlone, Settle,
                retainedVars, vars
  <2>2. NobodyNew /\ BytesKept
    BY <2>1 DEF scoreboardVars, NobodyNew, BytesKept
  <2> QED BY <2>2, NobodyStays
<1>3. ASSUME NEW i \in Slots, Reap(i) PROVE RestartReachesAll'
  <2>1. NobodyNew
    BY <1>3 DEF Reap, IInv, TypeOK, NobodyNew
  <2>2. BytesKept
    BY <1>3 DEF Reap, BytesKept
  <2> QED BY <2>1, <2>2, NobodyStays
<1>4. ASSUME NEW i \in Slots, Child(i) \/ Outside(i), ~ReadPod(i) PROVE RestartReachesAll'
  <2>1. /\ UNCHANGED <<generation, bucket, my_generation, pod>>
        /\ proc' = proc \/ \E s \in {"gone", "sick"} : proc' = [proc EXCEPT ![i] = s]
        /\ quiescing' = quiescing \/ quiescing' = [quiescing EXCEPT ![i] = TRUE]
    BY <1>4 DEF Child, Outside, ChildExit, StartThread, BecomeReady, StartFails,
                MaxConnections, CloseListeners, Crash, TakeConnection, childFrame, retainedVars
  <2>2. \A k \in Slots : proc'[k] = "up" /\ ~quiescing'[k] => proc[k] = "up" /\ ~quiescing[k]
    BY <2>1 DEF IInv, TypeOK
  <2>3. NobodyNew /\ BytesKept
    BY <2>1, <2>2 DEF NobodyNew, BytesKept
  <2> QED BY <2>3, NobodyStays
<1> QED BY <1>1, <1>2, <1>3, <1>4, ReadPodReaches, RestartReaches, GrowReaches
        DEF Next, Parent

\* A child that a restart left behind finds a byte of its own, but for the slots
\* beyond the active limit (850_1.c:88; 1013_1.c:36; 1014_1.c:68).
THEOREM RestartReachesAllCorrect == Spec => []RestartReachesAll
<1>1. Init => RestartReachesAll
  BY DEF Init, RestartReachesAll, Generations
<1>2. IInv /\ IInv' /\ RestartReachesAll /\ [Next]_vars => RestartReachesAll'
  BY StepReaches
<1> QED BY <1>1, <1>2, Invariant, PTL DEF Spec
-----------------------------------------------------------------------------
\* Every step of the parent is a step of the abstract pool or leaves it alone.
THEOREM Implements == Spec => PoolSpec
PROOF
<1>1. Init /\ IInv => Pool!Init
  BY DEF IInv, DaemonsCounted, LiveSlotsCovered, Pool!Init, Pool!Covers, Living
<1>2. IInv /\ IInv' /\ [Next]_vars
        => [Pool!Next]_<<Living, total_daemons, max_daemons_limit>>
  <2> SUFFICES ASSUME IInv, IInv', [Next]_vars
               PROVE  [Pool!Next]_<<Living, total_daemons, max_daemons_limit>>
    OBVIOUS
  <2>1. ASSUME Quiet PROVE UNCHANGED <<Living, total_daemons, max_daemons_limit>>
    BY <2>1 DEF Quiet, Living
  <2>2. Pool!Covers(max_daemons_limit', Living')
    BY DEF IInv, LiveSlotsCovered, Living, Pool!Covers
  <2>3. ASSUME Living' = Living PROVE [Pool!Next]_<<Living, total_daemons, max_daemons_limit>>
    <3>1. total_daemons' = total_daemons
      BY <2>3 DEF IInv, DaemonsCounted
    <3>2. total_daemons' = total_daemons + Cardinality({})
      BY <3>1, FS_EmptySet DEF IInv, TypeOK
    <3>3. {} \in SUBSET (Slots \ Living) /\ Living' = Living \cup {}
      BY <2>3
    <3>4. Pool!Launch
      BY <2>2, <3>2, <3>3 DEF Pool!Launch
    <3> QED BY <3>4 DEF Pool!Next
  <2>4. CASE Grow
    <3>1. PICK forked \in SUBSET scan.free :
            MakeChildren(scan.free, forked, [i \in forked |-> scan.bucket], scan.last + 1)
      BY <2>4 DEF Grow
    <3>2. /\ proc' = [i \in Slots |-> IF i \in forked THEN "up" ELSE proc[i]]
          /\ total_daemons' = total_daemons + Cardinality(forked)
      BY <3>1 DEF MakeChildren, Started
    <3>3. forked \in SUBSET (Slots \ Living) /\ Living' = Living \cup forked
      BY <3>2 DEF IInv, TypeOK, ScanInv, Living
    <3>4. Pool!Launch
      BY <2>2, <3>2, <3>3 DEF Pool!Launch
    <3> QED BY <3>4 DEF Pool!Next
  <2>5. ASSUME NEW i \in Slots, Reap(i)
        PROVE  [Pool!Next]_<<Living, total_daemons, max_daemons_limit>>
    <3>1. i \in Living /\ Living' = Living \ {i}
      BY <2>5 DEF Reap, Living, IInv, TypeOK
    <3>2. Pool!Retire
      BY <2>5, <3>1 DEF Reap, Pool!Retire
    <3> QED BY <3>2 DEF Pool!Next
  <2>6. CASE StartMaintenance \/ ScanSlot \/ GiveUp \/ Shrink \/ CannotGrow \/ LeaveAlone
    <3>1. proc' = proc
      BY <2>6 DEF StartMaintenance, ScanSlot, GiveUp, Shrink, CannotGrow, LeaveAlone,
                  scoreboardVars
    <3> QED BY <2>3, <3>1 DEF Living
  <2>7. CASE GracefulRestart
    BY <2>3, <2>7 DEF GracefulRestart, scoreboardVars, Living
  <2>8. CASE \E i \in Slots : Child(i) \/ Outside(i)
    BY <2>1, <2>8, ChildStep
  <2>9. CASE UNCHANGED vars
    BY <2>3, <2>9 DEF vars, scoreboardVars, Living
  <2> QED BY <2>4, <2>5, <2>6, <2>7, <2>8, <2>9 DEF Next, Parent
<1> QED BY <1>1, <1>2, Invariant, InitIInv, PTL DEF Spec, PoolSpec, Pool!Spec
-----------------------------------------------------------------------------
(* ServerStop *)

Known == InSlots \cup extras

\* The children whose signals a copy of reclaim sends.
Reached == IF version.reclaim.signalsExtras THEN Known ELSE InSlots

\* What a place in action_table says about them.
Escalated ==
  /\ at = "reclaim" => next_action \in 1 .. 5
  /\ at = "reclaim" /\ next_action >= 2 => \A p \in Reached : told[p] \in {"term", "kill"}
  /\ at = "reclaim" /\ next_action = 5 => \A p \in Reached : told[p] = "kill"
  /\ KilledBeforeGivenUp

StopInv == StopTypeOK /\ NobodyForgotten /\ Escalated
-----------------------------------------------------------------------------
(* What the helpers do *)

LEMMA Records ==
  ASSUME version \in Versions
  PROVE  /\ version.reclaim.signalsExtras \in BOOLEAN /\ version.reclaim.exitsAtOnce \in BOOLEAN
         /\ version.relieve.notes \in {"never", "reaped", "always"}
BY StopAssumption

LEMMA SlotsAreProcs ==
  ASSUME StopTypeOK
  PROVE  InSlots \subseteq Procs
BY StopAssumption DEF StopTypeOK, InSlots

\* Clearing the slots of some processes leaves the others where they were.
LEMMA Cleared ==
  ASSUME StopTypeOK, NEW S \in SUBSET Procs
  PROVE  /\ SlotsWithout(S) \in [StopSlots -> Procs \cup {None}]
         /\ {SlotsWithout(S)[s] : s \in StopSlots} \ {None} = InSlots \ S
<1>1. SlotsWithout(S) \in [StopSlots -> Procs \cup {None}]
  BY DEF StopTypeOK, SlotsWithout
<1>2. \A s \in StopSlots : SlotsWithout(S)[s] = IF slotOf[s] \in S THEN None ELSE slotOf[s]
  BY DEF SlotsWithout
<1>3. None \notin S BY StopAssumption
<1> QED BY <1>1, <1>2, <1>3 DEF InSlots

\* The place in the table moves by one, and says what the pass does.
LEMMA OnePlace ==
  ASSUME StopTypeOK, at = "reclaim", next_action \in 1 .. 5, NEW now \in Nat
  PROVE  /\ CurAction(now) \in {0, next_action}
         /\ CurAction(now) # 0 =>
              ActionTable[CurAction(now)].action =
                IF next_action \in {1, 2, 3} THEN "SIGTERM"
                ELSE IF next_action = 4 THEN "SIGKILL" ELSE "GIVEUP"
<1>1. CurAction(now) \in {0, next_action} BY DEF CurAction
<1>2. CASE next_action = 1 BY <1>1, <1>2 DEF ActionTable
<1>3. CASE next_action = 2 BY <1>1, <1>3 DEF ActionTable
<1>4. CASE next_action = 3 BY <1>1, <1>4 DEF ActionTable
<1>5. CASE next_action = 4 BY <1>1, <1>5 DEF ActionTable
<1>6. CASE next_action = 5 BY <1>1, <1>6 DEF ActionTable
<1> QED BY <1>1, <1>2, <1>3, <1>4, <1>5, <1>6

\* What a relief leaves: nobody who is there loses the place that says so.
LEMMA Relieved ==
  ASSUME StopInv, RelieveChildren
  PROVE  /\ slotOf' \in [StopSlots -> Procs \cup {None}] /\ extras' \in SUBSET Procs
         /\ os' \in [Procs -> {"none", "running", "zombie", "gone"}]
         /\ version.relieve.notes # "always" =>
              \A p \in Procs \ refused :
                os'[p] \in {"running", "zombie"} => p \in InSlots' \cup extras'
         /\ version.relieve.notes # "always" =>
              \A p \in Procs : os[p] = "running" =>
                /\ os'[p] = "running"
                /\ \A s \in StopSlots : slotOf[s] = p => slotOf'[s] = p
<1> DEFINE noted == {p \in InSlots \cup extras : Notes(p)}
           dead == {p \in InSlots \cup extras : Reclaimable(p)}
<1>1. InSlots \cup extras \subseteq Procs
  BY SlotsAreProcs DEF StopInv, StopTypeOK
<1>2. CASE RelieveReturns
  BY <1>2, SlotsAreProcs
     DEF RelieveChildren, StopInv, StopTypeOK, NobodyForgotten, Alive, InSlots
<1>3. CASE ~RelieveReturns
  <2>1. os' = [p \in Procs |-> IF p \in dead THEN "gone" ELSE os[p]]
    BY <1>3 DEF RelieveChildren, WaitFor
  <2>2. slotOf' = SlotsWithout(noted) /\ extras' = extras \ noted
    BY <1>3 DEF RelieveChildren
  <2>a. noted \in SUBSET Procs BY <1>1
  <2>b. StopTypeOK BY DEF StopInv
  <2> HIDE DEF noted
  <2>c. /\ SlotsWithout(noted) \in [StopSlots -> Procs \cup {None}]
        /\ {SlotsWithout(noted)[s] : s \in StopSlots} \ {None} = InSlots \ noted
    BY <2>a, <2>b, Cleared
  <2>d. InSlots' = {slotOf'[s] : s \in StopSlots} \ {None} BY DEF InSlots
  <2>3. /\ slotOf' \in [StopSlots -> Procs \cup {None}] /\ InSlots' = InSlots \ noted
    BY <2>2, <2>c, <2>d
  <2> USE DEF noted
  <2>4. version.relieve.notes # "always" => noted \subseteq dead
    BY Records DEF Notes, StopInv, StopTypeOK
  <2>5. \A p \in Procs :
          os'[p] \in {"running", "zombie"} => os[p] \in {"running", "zombie"} /\ p \notin dead
    BY <2>1
  <2>6. \A p \in Procs : os[p] = "running" => p \notin dead
    BY DEF Reclaimable
  <2>7. os' \in [Procs -> {"none", "running", "zombie", "gone"}] /\ extras' \in SUBSET Procs
    BY <2>1, <2>2 DEF StopInv, StopTypeOK
  <2>8. version.relieve.notes # "always" =>
          \A p \in Procs \ refused :
            os'[p] \in {"running", "zombie"} => p \in InSlots' \cup extras'
    BY <2>2, <2>3, <2>4, <2>5 DEF StopInv, NobodyForgotten, Alive
  <2>9. version.relieve.notes # "always" =>
          \A p \in Procs : os[p] = "running" =>
            /\ os'[p] = "running"
            /\ \A s \in StopSlots : slotOf[s] = p => slotOf'[s] = p
    BY <2>1, <2>2, <2>4, <2>6 DEF SlotsWithout
  <2> QED BY <2>3, <2>7, <2>8, <2>9
<1> QED BY <1>2, <1>3
-----------------------------------------------------------------------------
LEMMA InitStop == StopInit => StopInv
<1> SUFFICES ASSUME StopInit PROVE StopInv OBVIOUS
<1>1. StopTypeOK
  <2>1. slotOf \in [StopSlots -> Procs \cup {None}] BY StopAssumption DEF StopInit
  <2>2. os \in [Procs -> {"none", "running", "zombie", "gone"}] BY DEF StopInit
  <2>3. told \in [Procs -> {"nothing", "graceful", "now", "term", "kill"}] BY DEF StopInit
  <2>4. extras \in SUBSET Procs /\ refused \in SUBSET Procs BY DEF StopInit
  <2>5. version \in Versions /\ entitled \in BOOLEAN /\ deaf \in DeafSets /\ timeout \in Timeouts
    BY DEF StopInit
  <2>6. again \in BOOLEAN BY DEF StopInit
  <2>7. at = "main" /\ how = "none" /\ clock = 0 /\ waittime = 0 /\ next_action = 1
    BY DEF StopInit
  <2> QED BY <2>1, <2>2, <2>3, <2>4, <2>5, <2>6, <2>7 DEF StopTypeOK
<1>2. NobodyForgotten
  BY DEF StopInit, NobodyForgotten, Alive
<1>3. Escalated
  BY DEF StopInit, Escalated, KilledBeforeGivenUp
<1> QED BY <1>1, <1>2, <1>3 DEF StopInv
\* Nobody becomes reachable in a pass who was not, and every slot it leaves held one.
LEMMA StepReclaim ==
  ASSUME StopInv, NEW late \in {0, 3 * Second}, ReclaimPass(late)
  PROVE  StopInv' /\ KillComesLast
<1> DEFINE now == clock + Sleep + late
           cur == CurAction(now)
           action == IF cur = 0 THEN "DO_NOTHING" ELSE ActionTable[cur].action
           left == {p \in Known : ~Reclaimable(p)}
           hit == IF version.reclaim.signalsExtras THEN left ELSE left \cap InSlots
<1>1. StopTypeOK /\ NobodyForgotten /\ Escalated /\ at = "reclaim" /\ next_action \in 1 .. 5
  BY DEF StopInv, Escalated, ReclaimPass
<1>2. Known \subseteq Procs
  BY <1>1, SlotsAreProcs DEF StopTypeOK, Known
<1>3. now \in Nat
  BY <1>1 DEF StopTypeOK, Sleep, Second
<1>4. /\ cur \in {0, next_action}
      /\ cur # 0 => action = IF next_action \in {1, 2, 3} THEN "SIGTERM"
                             ELSE IF next_action = 4 THEN "SIGKILL" ELSE "GIVEUP"
      /\ cur = 0 => action = "DO_NOTHING"
  BY <1>1, <1>3, OnePlace
<1> HIDE DEF cur, action
<1>5. /\ clock' = now
      /\ waittime' = IF waittime < 3 THEN waittime + 1 ELSE waittime
      /\ next_action' = IF cur = 0 THEN next_action ELSE cur + 1
      /\ told' = [p \in Procs |-> IF p \in hit THEN Signalled(p, action) ELSE told[p]]
      /\ os' = [p \in Procs |-> IF p \in Known \ left THEN "gone" ELSE os[p]]
      /\ slotOf' = SlotsWithout(Known \ left)
      /\ extras' = extras \cap left
      /\ at' = IF version.reclaim.exitsAtOnce THEN "done"
               ELSE IF left # {} /\ action # "GIVEUP" THEN "reclaim"
               ELSE IF how = "restart" THEN "restarted" ELSE "done"
      /\ UNCHANGED <<setting, refused, how, again>>
  BY DEF ReclaimPass, Known, WaitFor, cur, action
<1>6. InSlots' = InSlots \cap left /\ slotOf' \in [StopSlots -> Procs \cup {None}]
  <2> DEFINE S == Known \ left
  <2>1. S \in SUBSET Procs BY <1>2
  <2>2. InSlots \ S = InSlots \cap left BY DEF Known
  <2>3. slotOf' = SlotsWithout(S) BY <1>5
  <2> HIDE DEF S
  <2>4. /\ SlotsWithout(S) \in [StopSlots -> Procs \cup {None}]
        /\ {SlotsWithout(S)[s] : s \in StopSlots} \ {None} = InSlots \ S
    BY <1>1, <2>1, Cleared
  <2>5. InSlots' = {slotOf'[s] : s \in StopSlots} \ {None} BY DEF InSlots
  <2> QED BY <2>2, <2>3, <2>4, <2>5
<1>7. /\ version' = version
      /\ version.reclaim.signalsExtras \in BOOLEAN /\ version.reclaim.exitsAtOnce \in BOOLEAN
  BY <1>1, <1>5, Records DEF setting, StopTypeOK
<1>8. Reached' \subseteq hit /\ hit \subseteq Reached /\ hit \subseteq Procs
  <2>1. CASE version.reclaim.signalsExtras
    BY <2>1, <1>2, <1>5, <1>6, <1>7 DEF Reached, Known
  <2>2. CASE ~version.reclaim.signalsExtras
    BY <2>2, <1>2, <1>5, <1>6, <1>7 DEF Reached, Known
  <2> QED BY <2>1, <2>2
<1> HIDE DEF hit
<1>9. \A p \in Procs : told[p] \in {"nothing", "graceful", "now", "term", "kill"}
  BY <1>1 DEF StopTypeOK
<1>10. \A p \in hit : told'[p] = Signalled(p, action)
  BY <1>5, <1>8
<1>11. \A p \in Procs \ hit : told'[p] = told[p]
  BY <1>5
<1>12. told' \in [Procs -> {"nothing", "graceful", "now", "term", "kill"}]
  BY <1>5, <1>9 DEF Signalled, Louder
<1>13. \A p \in hit :
         /\ action = "SIGTERM" => told'[p] \in {"term", "kill"}
         /\ action = "SIGKILL" => told'[p] = "kill"
         /\ told[p] = "kill" => told'[p] = "kill"
         /\ told[p] \in {"term", "kill"} => told'[p] \in {"term", "kill"}
         /\ action # "SIGKILL" /\ told'[p] = "kill" => told[p] = "kill"
  BY <1>8, <1>9, <1>10 DEF Signalled, Louder
<1>14. KillComesLast
  <2>1. action = "SIGKILL" => \A p \in hit : told[p] \in {"term", "kill"}
    <3>1. action = "SIGKILL" => next_action = 4 BY <1>1, <1>4
    <3> QED BY <1>1, <1>8, <3>1 DEF Escalated
  <2> QED BY <1>11, <1>13, <2>1 DEF KillComesLast
<1>15. StopTypeOK'
  <2>1. os' \in [Procs -> {"none", "running", "zombie", "gone"}] /\ extras' \in SUBSET Procs
    BY <1>1, <1>5 DEF StopTypeOK
  <2>2. clock' \in Nat /\ waittime' \in 0 .. 3 /\ next_action' \in 1 .. 6
    BY <1>1, <1>3, <1>4, <1>5 DEF StopTypeOK
  <2>3. at' \in {"main", "wait", "reclaim", "done", "restarted", "crashed"}
    BY <1>5
  <2>4. /\ version' \in Versions /\ entitled' \in BOOLEAN /\ deaf' \in DeafSets
        /\ timeout' \in Timeouts /\ refused' \in SUBSET Procs
        /\ how' \in {"none", "stop", "restart", "graceful"} /\ again' \in BOOLEAN
    BY <1>1, <1>5 DEF StopTypeOK, setting
  <2> QED BY <1>6, <1>12, <2>1, <2>2, <2>3, <2>4 DEF StopTypeOK
<1>16. NobodyForgotten'
  <2>1. \A p \in Procs : os'[p] \in {"running", "zombie"} =>
          os[p] \in {"running", "zombie"} /\ p \notin Known \ left
    BY <1>5
  <2> QED BY <1>1, <1>5, <1>6, <1>7, <2>1 DEF NobodyForgotten, Alive, Known
<1>17. Escalated'
  <2>1. at' = "reclaim" => ~version.reclaim.exitsAtOnce /\ action # "GIVEUP"
    BY <1>5
  <2>2. at' = "reclaim" => next_action' \in 1 .. 5
    BY <1>1, <1>4, <1>5, <2>1
  <2>3. at' = "reclaim" /\ next_action' >= 2 => \A p \in hit : told'[p] \in {"term", "kill"}
    BY <1>1, <1>4, <1>5, <1>8, <1>13 DEF Escalated
  <2>4. at' = "reclaim" /\ next_action' = 5 => \A p \in hit : told'[p] = "kill"
    BY <1>1, <1>4, <1>5, <1>8, <1>13 DEF Escalated
  <2>5. action = "GIVEUP" => \A p \in hit : told'[p] = "kill"
    BY <1>1, <1>4, <1>8, <1>13 DEF Escalated
  <2>6. at' \in {"done", "restarted"} /\ ~version.reclaim.exitsAtOnce =>
          \A p \in InSlots' : told'[p] = "kill"
    <3>1. InSlots' \subseteq hit BY <1>6 DEF hit, Known
    <3>2. at' \in {"done", "restarted"} /\ ~version.reclaim.exitsAtOnce => left = {} \/ action = "GIVEUP"
      BY <1>5
    <3> QED BY <1>6, <2>5, <3>1, <3>2
  <2> QED BY <1>7, <1>8, <2>2, <2>3, <2>4, <2>6 DEF Escalated, KilledBeforeGivenUp
<1> QED BY <1>14, <1>15, <1>16, <1>17 DEF StopInv
\* A word from the pod is louder than none, and never SIGKILL.
LEMMA Called ==
  ASSUME StopTypeOK, NEW word \in {"graceful", "now"}, NEW slots, Killpg(word, slots)
  PROVE  /\ told' \in [Procs -> {"nothing", "graceful", "now", "term", "kill"}]
         /\ KillComesLast
BY DEF StopTypeOK, Killpg, Louder, KillComesLast

\* Before a reclaim the types and the children's places are all there is.
LEMMA Begun ==
  ASSUME StopTypeOK', NobodyForgotten',
         at' \in {"main", "wait", "crashed"} \/ (at' = "reclaim" /\ next_action' = 1)
  PROVE  StopInv'
<1>1. Escalated'
  BY DEF Escalated, KilledBeforeGivenUp
<1> QED BY <1>1 DEF StopInv

LEMMA StepMain ==
  ASSUME StopInv, Main
  PROVE  StopInv' /\ KillComesLast
<1>0. StopTypeOK /\ NobodyForgotten /\ InSlots \subseteq Procs /\ (told' = told => KillComesLast)
  BY SlotsAreProcs DEF StopInv, KillComesLast
<1>1. ASSUME NEW s \in StopSlots, Retire(s)
      PROVE  StopInv' /\ KillComesLast
  <2>1. told' = [told EXCEPT ![slotOf[s]] = "graceful"] /\ at' = "main"
    BY <1>1 DEF Retire, parentVars
  <2>2. KillComesLast
    BY <1>0, <2>1 DEF KillComesLast, StopTypeOK
  <2>3. StopTypeOK'
    BY <1>0, <1>1, <2>1 DEF StopTypeOK, Retire, parentVars, setting
  <2>4. NobodyForgotten'
    BY <1>0, <1>1 DEF NobodyForgotten, Alive, InSlots, Retire, setting
  <2> QED BY <2>1, <2>2, <2>3, <2>4, Begun
<1>2. ASSUME NEW s \in StopSlots, NEW p \in Procs, NEW memory \in BOOLEAN, Reuse(s, p, memory)
      PROVE  StopInv' /\ KillComesLast
  <2>0. told' = told /\ UNCHANGED <<setting, how, again, clock, waittime, next_action>>
    BY <1>2 DEF Reuse
  <2>1. CASE at' = "crashed" /\ UNCHANGED <<extras, refused, slotOf, os>>
    <3>1. StopTypeOK' BY <1>0, <2>0, <2>1 DEF StopTypeOK, setting
    <3>2. NobodyForgotten' BY <1>0, <2>0, <2>1 DEF NobodyForgotten, Alive, InSlots, setting
    <3> QED BY <1>0, <2>0, <2>1, <3>1, <3>2, Begun
  <2>2. CASE /\ slotOf' = [slotOf EXCEPT ![s] = p] /\ os' = [os EXCEPT ![p] = "running"]
             /\ \/ extras' = extras \cup {slotOf[s]} /\ refused' = refused
                \/ extras' = extras /\ refused' = refused \cup {slotOf[s]}
             /\ at' = "main" /\ slotOf[s] # None
    <3>1. StopTypeOK'
      <4>1. slotOf' \in [StopSlots -> Procs \cup {None}] BY <1>0, <2>2 DEF StopTypeOK
      <4>2. os' \in [Procs -> {"none", "running", "zombie", "gone"}] BY <1>0, <2>2 DEF StopTypeOK
      <4>3. extras' \in SUBSET Procs /\ refused' \in SUBSET Procs
        BY <1>0, <2>2 DEF StopTypeOK
      <4> QED BY <1>0, <2>0, <2>2, <4>1, <4>2, <4>3 DEF StopTypeOK, setting
    <3>2. NobodyForgotten'
      <4>1. p \in InSlots'
        BY <1>0, <2>2, StopAssumption DEF StopTypeOK, InSlots
      <4>2. \A q \in InSlots : q # slotOf[s] => q \in InSlots'
        BY <1>0, <2>2 DEF StopTypeOK, InSlots
      <4>3. \A q \in Procs \ {p} : os'[q] = os[q]
        BY <1>0, <2>2 DEF StopTypeOK
      <4>4. version' = version BY <2>0 DEF setting
      <4> QED BY <1>0, <2>2, <4>1, <4>2, <4>3, <4>4 DEF NobodyForgotten, Alive
    <3> QED BY <1>0, <2>0, <2>2, <3>1, <3>2, Begun
  <2> QED BY <1>2, <2>1, <2>2 DEF Reuse
<1>3. ASSUME NEW p \in Procs, WaitOrTimeout(p)
      PROVE  StopInv' /\ KillComesLast
  <2>1. /\ slotOf' = SlotsWithout({p}) /\ extras' = extras \ {p} /\ told' = told /\ at' = "main"
        /\ os' = [q \in Procs |-> IF q \in {p} THEN "gone" ELSE os[q]]
        /\ UNCHANGED <<setting, refused, how, again, clock, waittime, next_action>>
    BY <1>3 DEF WaitOrTimeout, WaitFor, parentVars
  <2>2. slotOf' \in [StopSlots -> Procs \cup {None}] /\ InSlots' = InSlots \ {p}
    <3> DEFINE S == {p}
    <3>1. S \in SUBSET Procs OBVIOUS
    <3>2. slotOf' = SlotsWithout(S) BY <2>1
    <3> HIDE DEF S
    <3>3. /\ SlotsWithout(S) \in [StopSlots -> Procs \cup {None}]
          /\ {SlotsWithout(S)[s] : s \in StopSlots} \ {None} = InSlots \ S
      BY <1>0, <3>1, Cleared
    <3>4. InSlots' = {slotOf'[s] : s \in StopSlots} \ {None} BY DEF InSlots
    <3>5. slotOf' \in [StopSlots -> Procs \cup {None}] /\ InSlots' = InSlots \ S
      BY <3>2, <3>3, <3>4
    <3> QED BY <3>5 DEF S
  <2>3. StopTypeOK'
    <3>1. os' \in [Procs -> {"none", "running", "zombie", "gone"}] /\ extras' \in SUBSET Procs
      BY <1>0, <2>1 DEF StopTypeOK
    <3> QED BY <1>0, <2>1, <2>2, <3>1 DEF StopTypeOK, setting
  <2>4. NobodyForgotten'
    BY <1>0, <2>1, <2>2 DEF NobodyForgotten, Alive, setting
  <2> QED BY <1>0, <2>1, <2>3, <2>4, Begun
<1>4. ASSUME NEW h \in {"stop", "restart"}, StopNow(h)
      PROVE  StopInv' /\ KillComesLast
  <2>1. /\ at' = "reclaim" /\ next_action' = 1 /\ clock' = 0 /\ waittime' = 0 /\ how' = h
        /\ Killpg("now", slotOf)
        /\ UNCHANGED <<setting, refused, again, slotOf, extras, os>>
    BY <1>4 DEF StopNow, StartReclaim
  <2>2. told' \in [Procs -> {"nothing", "graceful", "now", "term", "kill"}] /\ KillComesLast
    BY <1>0, <2>1, Called
  <2>3. StopTypeOK' BY <1>0, <2>1, <2>2 DEF StopTypeOK, setting
  <2>4. NobodyForgotten' BY <1>0, <2>1 DEF NobodyForgotten, Alive, InSlots, setting
  <2> QED BY <2>1, <2>2, <2>3, <2>4, Begun
<1>5. CASE StopGracefully
  <2>1. /\ at' \in {"crashed", "wait"} /\ clock' = 0 /\ how' = "graceful"
        /\ Killpg("graceful", slotOf) /\ RelieveChildren
        /\ UNCHANGED <<setting, refused, again, waittime, next_action>>
    BY <1>5 DEF StopGracefully
  <2>2. told' \in [Procs -> {"nothing", "graceful", "now", "term", "kill"}] /\ KillComesLast
    BY <1>0, <2>1, Called
  <2>3. StopTypeOK' BY <1>0, <2>1, <2>2, Relieved DEF StopTypeOK, setting
  <2>4. NobodyForgotten' BY <2>1, Relieved DEF NobodyForgotten, Alive, setting
  <2> QED BY <2>1, <2>2, <2>3, <2>4, Begun
<1> QED BY <1>1, <1>2, <1>3, <1>4, <1>5 DEF Main

LEMMA StepWait ==
  ASSUME StopInv, WaitOneSecond
  PROVE  StopInv' /\ KillComesLast
<1>0. StopTypeOK BY DEF StopInv
<1>1. RelieveChildren /\ UNCHANGED <<setting, refused, how, again>>
  BY DEF WaitOneSecond
<1>2. \/ /\ at' \in {"crashed", "wait"} /\ told' = told
         /\ clock' \in {clock, 0, clock + Second} /\ UNCHANGED <<waittime, next_action>>
      \/ StartReclaim /\ Killpg("now", slotOf')
  BY DEF WaitOneSecond
<1>3. told' \in [Procs -> {"nothing", "graceful", "now", "term", "kill"}] /\ KillComesLast
  <2>1. CASE told' = told BY <1>0, <2>1 DEF StopTypeOK, KillComesLast
  <2>2. CASE Killpg("now", slotOf') BY <1>0, <2>2 DEF StopTypeOK, Killpg, Louder, KillComesLast
  <2> QED BY <1>2, <2>1, <2>2
<1>4. at' \in {"crashed", "wait"} \/ (at' = "reclaim" /\ next_action' = 1)
  BY <1>2 DEF StartReclaim
<1>5. clock' \in Nat /\ waittime' \in 0 .. 3 /\ next_action' \in 1 .. 6
  BY <1>0, <1>2 DEF StopTypeOK, Second, StartReclaim
<1>6. StopTypeOK' BY <1>0, <1>1, <1>3, <1>4, <1>5, Relieved DEF StopTypeOK, setting
<1>7. NobodyForgotten' BY <1>1, Relieved DEF NobodyForgotten, Alive, setting
<1> QED BY <1>3, <1>4, <1>6, <1>7, Begun

\* A child that ends, and the signal that comes again.
LEMMA StepOther ==
  ASSUME StopInv, StopAgain \/ \E p \in Procs : Finish(p) \/ ChildDies(p)
  PROVE  StopInv' /\ KillComesLast
<1>1. CASE StopAgain
  <2>1. /\ again' = TRUE /\ at' = "wait"
        /\ UNCHANGED <<setting, refused, childVars, how, clock, waittime, next_action>>
    BY <1>1 DEF StopAgain
  <2>2. StopTypeOK' BY <2>1 DEF StopInv, StopTypeOK, setting, childVars
  <2>3. NobodyForgotten'
    BY <2>1 DEF StopInv, NobodyForgotten, Alive, InSlots, setting, childVars
  <2>4. KillComesLast BY <2>1 DEF KillComesLast, childVars
  <2> QED BY <2>1, <2>2, <2>3, <2>4, Begun
<1>2. ASSUME NEW p \in Procs, Finish(p) \/ ChildDies(p)
      PROVE  StopInv' /\ KillComesLast
  <2>1. /\ os[p] = "running" /\ os' = [os EXCEPT ![p] = "zombie"]
        /\ UNCHANGED <<setting, refused, parentVars, slotOf, extras, told>>
    BY <1>2 DEF Finish, ChildDies
  <2>2. StopTypeOK' BY <2>1 DEF StopInv, StopTypeOK, setting, parentVars
  <2>3. NobodyForgotten'
    BY <2>1 DEF StopInv, StopTypeOK, NobodyForgotten, Alive, InSlots, setting
  <2>4. KillComesLast BY <2>1 DEF KillComesLast
  <2>5. Escalated'
    BY <2>1 DEF StopInv, Escalated, KilledBeforeGivenUp, Reached, Known, InSlots,
                setting, parentVars
  <2> QED BY <2>2, <2>3, <2>4, <2>5 DEF StopInv
<1> QED BY <1>1, <1>2

LEMMA StepStop ==
  ASSUME StopInv, [StopNext]_stopVars
  PROVE  StopInv' /\ KillComesLast
<1>1. CASE Main BY <1>1, StepMain
<1>2. CASE WaitOneSecond BY <1>2, StepWait
<1>3. CASE Reclaim BY <1>3, StepReclaim DEF Reclaim
<1>4. CASE StopAgain \/ \E p \in Procs : Finish(p) \/ ChildDies(p) BY <1>4, StepOther
<1>5. CASE UNCHANGED stopVars
  <2>1. StopTypeOK' BY <1>5 DEF StopInv, StopTypeOK, stopVars, setting, parentVars, childVars
  <2>2. NobodyForgotten'
    BY <1>5 DEF StopInv, NobodyForgotten, Alive, InSlots, stopVars, setting, childVars
  <2>3. Escalated'
    BY <1>5 DEF StopInv, Escalated, KilledBeforeGivenUp, Reached, Known, InSlots, stopVars,
                setting, parentVars, childVars
  <2> QED BY <1>5, <2>1, <2>2, <2>3 DEF StopInv, KillComesLast, stopVars, childVars
<1> QED BY <1>1, <1>2, <1>3, <1>4, <1>5 DEF StopNext
-----------------------------------------------------------------------------
\* The parent's state keeps its type (850_1.c, 214_1.c, 215_1.c and the copies).
THEOREM StopTypeCorrect == StopSpec => []StopTypeOK
<1>1. StopInv /\ [StopNext]_stopVars => StopInv' BY StepStop
<1>2. StopInv => StopTypeOK BY DEF StopInv
<1> QED BY <1>1, <1>2, InitStop, PTL DEF StopSpec

\* A child that exists is in a slot or on the list of extras, where relief looks at what
\* reclaim_one_pid said (555_safe.c:16-31) and where nothing is cleared (215_1.c).
THEOREM NobodyForgottenCorrect == StopSpec => []NobodyForgotten
<1>1. StopInv /\ [StopNext]_stopVars => StopInv' BY StepStop
<1>2. StopInv => NobodyForgotten BY DEF StopInv
<1> QED BY <1>1, <1>2, InitStop, PTL DEF StopSpec

\* SIGTERM comes before SIGKILL and SIGKILL before giving up, however late the parent
\* wakes (649_1.c:30-60).
THEOREM EscalatesCorrect == StopSpec => Escalates
<1>1. StopInv /\ [StopNext]_stopVars => StopInv' /\ KillComesLast BY StepStop
<1>2. StopInv => KilledBeforeGivenUp BY DEF StopInv, Escalated
<1> QED BY <1>1, <1>2, InitStop, PTL DEF StopSpec, Escalates

\* A graceful stop leaves its wait when no child with a slot runs, when the time is over
\* or when it was asked again (850_1.c:67-81).
THEOREM GracefulWaitsCorrect == StopSpec => GracefulWaits
<1>1. StopInv /\ [StopNext]_stopVars => StopInv' BY StepStop
<1> DEFINE Cut ==
  at = "wait" /\ at' = "reclaim" /\ version.relieve.notes # "always" =>
    \/ again
    \/ timeout > 0 /\ clock + Second >= timeout
    \/ \A p \in Procs \ (extras \cup refused) : os[p] # "running"
<1>2. ASSUME StopInv, StopNext PROVE Cut
  <2> SUFFICES ASSUME at = "wait", at' = "reclaim", version.relieve.notes # "always",
                      ~again, ~(timeout > 0 /\ clock + Second >= timeout),
                      NEW p \in Procs \ (extras \cup refused), os[p] = "running"
               PROVE  FALSE
    OBVIOUS
  <2>1. WaitOneSecond
    BY <1>2 DEF StopNext, Main, Retire, Reuse, WaitOrTimeout, StopNow, StopGracefully, StopAgain,
                Reclaim, ReclaimPass, Finish, ChildDies, parentVars
  <2>2. StopTypeOK /\ NobodyForgotten BY <1>2 DEF StopInv
  <2>3. RelieveChildren BY <2>1 DEF WaitOneSecond
  <2>4. PICK s \in StopSlots : slotOf[s] = p
    BY <2>2 DEF NobodyForgotten, Alive, InSlots
  <2>5. slotOf'[s] = p /\ os'[p] = "running"
    BY <1>2, <2>3, <2>4, Relieved
  <2>6. p # None BY StopAssumption
  <2>7. ActiveChildren(slotOf', os')
    BY <2>4, <2>5, <2>6 DEF ActiveChildren
  <2>8. timeout \in Nat /\ clock \in Nat /\ Second = 4
    BY <2>2, StopAssumption DEF StopTypeOK, Second
  <2>9. timeout = 0 \/ (IF timeout = 0 THEN 0 ELSE clock + Second) < timeout
    BY <2>8
  <2>10. at' # "reclaim"
    BY <2>1, <2>7, <2>9 DEF WaitOneSecond
  <2> QED BY <2>10
<1>3. StopInv /\ [StopNext]_stopVars => [Cut]_stopVars BY <1>2
<1> QED BY <1>1, <1>3, InitStop, PTL DEF StopSpec, GracefulWaits
=============================================================================
