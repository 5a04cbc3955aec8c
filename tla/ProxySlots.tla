----------------------------- MODULE ProxySlots -----------------------------
(***************************************************************************)
(* How the workers of a balancer share their state among the server's      *)
(* processes.  The parent reads the configuration and defines each worker  *)
(* with a private record, creates or finds a segment of shared memory, and *)
(* puts the record of each worker into a slot of it before it starts the   *)
(* children.  After a restart that is graceful the children of the old     *)
(* generation go on with the old configuration beside the new ones.        *)
(*                                                                         *)
(* Which slot a worker gets, whether the file of a segment is gone after a *)
(* restart and which providers are loaded is decided elsewhere.            *)
(***************************************************************************)
EXTENDS ProxyWorker, Integers, FiniteSets

CONSTANTS
  SlotNames,     \* the kinds of name a segment may be given
  Configurations, \* the workers, whether their records are malloced, the
                 \* balancer's method and the methods loaded
  Children,
  Segments,      \* as many as can be in use
  MaxWorkers,    \* the longest list
  MaxGeneration, \* bound on the restarts
  None

ASSUME SlotsAssumption ==
  /\ SlotNames \subseteq {"relative", "absolute", "none"}
  /\ MaxGeneration \in Nat /\ MaxWorkers \in Nat /\ None \notin Segments
  /\ \A c \in Configurations :
       /\ c.method \in c.providers /\ None \notin c.providers
       /\ Len(c.workers) \in 0 .. MaxWorkers /\ DOMAIN c.workers = 1 .. Len(c.workers)
       /\ \A i \in DOMAIN c.workers : c.workers[i] # None
-----------------------------------------------------------------------------
(* slotmem_filenames: whether the name has the generation in it.           *)
Names_300 == TRUE
Names_300_safe == TRUE
Names_492 == FALSE
Names_538 == FALSE
Names_557 == FALSE
Names_570 == FALSE

(* ap_proxy_share_worker: it copies the worker's record into the slot      *)
(* "unless" the slot has that worker's already, "always", or copies the    *)
(* slot into the worker's ("back").  Some use the old record after they    *)
(* have freed it (uses).                                                   *)
Share_295 == [copies |-> "unless", uses |-> FALSE]
Share_362 == Share_295
Share_444 == Share_295
Share_377 == Share_295
Share_969 == Share_295
Share_176 == [Share_295 EXCEPT !.uses = TRUE]
Share_278 == [copies |-> "always", uses |-> TRUE]
Share_970 == [copies |-> "back", uses |-> FALSE]

(* ap_proxy_share_balancer: as above, and a method that is not loaded is   *)
(* an error, leaves what there is, or leaves nothing.                      *)
Balancer_175 == [copies |-> "unless", uses |-> FALSE, method |-> "error"]
Balancer_243 == [Balancer_175 EXCEPT !.uses = TRUE]
Balancer_441 == Balancer_243
Balancer_276 == [Balancer_243 EXCEPT !.method = "keep"]
Balancer_361 == [copies |-> "always", uses |-> FALSE, method |-> "keep"]
Balancer_376 == Balancer_361
Balancer_294 == [copies |-> "always", uses |-> TRUE, method |-> "nothing"]

(* proxy_handler, which makes use of the workers: the lowest Max-Forwards  *)
(* that is passed on, and what is added to it.                             *)
Handler_584 == [lowest |-> 1, adds |-> -1]
Handler_696 == Handler_584
Handler_358 == [lowest |-> 0, adds |-> 1]

\* The copies that run together; the others are the same as one of these.
Usual ==
  [names |-> Names_300, share |-> Share_295, balancer |-> Balancer_175, get |-> Get_355,
   handler |-> Handler_584]
KnownVersions ==
  {Usual, [Usual EXCEPT !.names = Names_557], [Usual EXCEPT !.handler = Handler_358]}
    \cup {[Usual EXCEPT !.share = s] : s \in {Share_278, Share_970}}
    \cup {[Usual EXCEPT !.names = Names_557, !.balancer = Balancer_276]}
    \cup {[Usual EXCEPT !.get = g] : g \in {Get_364_safe, Get_395, Get_421}}
-----------------------------------------------------------------------------
VARIABLES
  copy, slotname,
  gen, phase, conf, \* the parent: its generation and configuration
  files,     \* the segment under each file name
  segs,      \* the contents of the segments
  seg, at, own, \* the parent's segment; the slot of each worker, 0 for its own record
  shared,    \* the workers that were shared
  balshared, lbmethod, \* the same of the balancer, and its method
  children   \* what each child was started with

parent == <<gen, phase, conf>>
sharing == <<seg, at, own, shared, balshared, lbmethod>>
slotVars == <<copy, slotname, parent, files, segs, sharing, children>>

NoChild == [gen |-> -1]
Unset == [name |-> None, mark |-> None, index |-> 0, secure |-> FALSE]
EmptySegment(n) ==
  [slots |-> [k \in 1 .. n |-> Unset], method |-> None, nonce |-> None]

\* ap_proxy_define_worker: a record with the defaults.
Define(workers) ==
  [i \in DOMAIN workers |-> [name |-> workers[i], mark |-> None, index |-> 0, secure |-> TRUE]]

\* What the parent has after reading the configuration.
Configured(c) ==
  /\ conf' = c
  /\ seg' = None
  /\ at' = [i \in DOMAIN c.workers |-> 0]
  /\ own' = Define(c.workers)
  /\ shared' = {}
  /\ balshared' = FALSE /\ lbmethod' = c.method

NamesWithout(g) == <<slotname, 0>>   \* mutant
FileName(g) ==
  IF slotname = "relative" /\ copy.names THEN <<slotname, g>> ELSE <<slotname, 0>>

FileNames == {<<s, g>> : s \in SlotNames, g \in 0 .. MaxGeneration}

SlotsInit ==
  /\ copy \in KnownVersions /\ slotname \in SlotNames
  /\ gen = 0 /\ phase = "config"
  /\ \E c \in Configurations :
       /\ conf = c
       /\ at = [i \in DOMAIN c.workers |-> 0]
       /\ own = Define(c.workers)
       /\ lbmethod = c.method
  /\ seg = None /\ shared = {} /\ balshared = FALSE
  /\ files = [f \in FileNames |-> None]
  /\ segs = [s \in Segments |-> EmptySegment(0)]
  /\ children = [c \in Children |-> NoChild]

InUse == {files[f] : f \in FileNames} \cup {seg}
           \cup {children[c].seg : c \in {d \in Children : children[d] # NoChild}}
-----------------------------------------------------------------------------
\* slotmem_create: a segment of that name in the process's list is returned again; one
\* under that file name is attached to with what is in it; otherwise it is created, zero.
Listed == seg # None /\ slotname # "none"

Attach ==
  /\ phase = "config" /\ slotname # "none"
  /\ IF Listed THEN UNCHANGED seg
     ELSE files[FileName(gen)] # None /\ seg' = files[FileName(gen)]
  /\ UNCHANGED <<copy, slotname, parent, files, segs, at, own, shared, balshared, lbmethod,
                 children>>

Create ==
  /\ phase = "config" /\ seg = None
  /\ slotname = "none" \/ files[FileName(gen)] = None
  /\ Segments \ InUse # {}
  /\ seg' = CHOOSE s \in Segments \ InUse : TRUE
  /\ segs' = [segs EXCEPT ![seg'] = EmptySegment(Len(conf.workers))]
  /\ files' = IF slotname = "none" THEN files ELSE [files EXCEPT ![FileName(gen)] = seg']
  /\ UNCHANGED <<copy, slotname, parent, at, own, shared, balshared, lbmethod, children>>

\* What a slot and the record of its worker are afterwards.
Shared(copies, slot, record) ==
  IF copies = "always" \/ slot.name # record.name THEN record ELSE slot

\* A record that is used after it was freed may be anything: the server may crash.
Crashes(v) == v.uses /\ conf.malloced

ShareWorker(i, k) ==
  LET v == copy.share
      slot == segs[seg].slots[k] IN
  /\ phase = "config" /\ seg # None
  /\ k \in DOMAIN segs[seg].slots
  /\ i \notin shared /\ ~\E j \in shared : at[j] = k
  /\ shared' = shared \cup {i}
  /\ phase' \in {phase} \cup
       (IF Crashes(v) /\ (v.copies = "always" \/ slot.name # own[i].name) THEN {"stopped"} ELSE {})
  /\ IF v.copies = "back"
     THEN /\ own' = [own EXCEPT ![i] = [slot EXCEPT !.index = k]]
          /\ UNCHANGED <<at, segs>>
     ELSE /\ segs' = [segs EXCEPT ![seg].slots[k] =
                        [Shared(v.copies, slot, own[i]) EXCEPT !.index = k]]
          /\ at' = [at EXCEPT ![i] = k]
          /\ UNCHANGED own
  /\ UNCHANGED <<copy, slotname, gen, conf, files, seg, balshared, lbmethod, children>>

\* The balancer's record: its method by name, and the nonce of its forms.
MethodFound(name) ==
  IF name \in conf.providers THEN name
  ELSE IF copy.balancer.method = "keep" THEN lbmethod ELSE None

ShareBalancer ==
  LET v == copy.balancer
      copied == v.copies = "always" \/ segs[seg].method = None
      name == IF copied THEN conf.method ELSE segs[seg].method IN
  /\ phase = "config" /\ seg # None /\ ~balshared
  /\ balshared' = TRUE
  /\ segs' = [segs EXCEPT ![seg].method = name,
                          ![seg].nonce = IF copied \/ @ = None THEN gen ELSE @]
  /\ lbmethod' = MethodFound(name)
  /\ phase' \in IF name \notin conf.providers /\ v.method = "error" THEN {"stopped"}
                ELSE {phase} \cup (IF Crashes(v) /\ copied THEN {"stopped"} ELSE {})
  /\ UNCHANGED <<copy, slotname, gen, conf, files, seg, at, own, shared, children>>

\* No memory, no slot left, or a slot without memory (APR_EINVAL).
StartFails ==
  /\ phase = "config" /\ phase' = "stopped"
  /\ UNCHANGED <<copy, slotname, gen, conf, files, segs, sharing, children>>

Start ==
  /\ phase = "config" /\ balshared /\ shared = DOMAIN conf.workers
  /\ phase' = "running"
  /\ UNCHANGED <<copy, slotname, gen, conf, files, segs, sharing, children>>

\* fork, and child_init, which initialises every worker of the child.
Fork(c) ==
  /\ phase = "running" /\ children[c] = NoChild
  /\ children' = [children EXCEPT ![c] =
       [gen |-> gen, workers |-> conf.workers, seg |-> seg, at |-> at, own |-> own,
        lbmethod |-> lbmethod]]
  /\ UNCHANGED <<copy, slotname, parent, files, segs, sharing>>

\* The configuration is read again; the children are left to finish.
Restart ==
  /\ phase = "running" /\ gen < MaxGeneration
  /\ gen' = gen + 1 /\ phase' = "config"
  /\ \E c \in Configurations : Configured(c)
  /\ \/ UNCHANGED files
     \/ files' = [files EXCEPT ![FileName(gen)] = None]
  /\ UNCHANGED <<copy, slotname, segs, children>>

Parent ==
  \/ Attach \/ Create
  \/ \E i \in DOMAIN conf.workers, k \in 1 .. MaxWorkers : ShareWorker(i, k)
  \/ ShareBalancer \/ StartFails \/ Start \/ Restart
-----------------------------------------------------------------------------
Alive == {c \in Children : children[c] # NoChild}

\* worker->s in a child.
S(c, i) ==
  IF children[c].at[i] = 0 THEN children[c].own[i]
  ELSE segs[children[c].seg].slots[children[c].at[i]]

\* A child writes to worker->s.
Write(c, i, cell) ==
  IF children[c].at[i] = 0
  THEN /\ children' = [children EXCEPT ![c].own[i] = cell]
       /\ UNCHANGED segs
  ELSE /\ segs' = [segs EXCEPT ![children[c].seg].slots[children[c].at[i]] = cell]
       /\ UNCHANGED children

\* What a child sees of a worker is that worker's, however the configuration changed over
\* restarts that left the child behind: the name is its own, and no error is another's.
OwnState ==
  copy.names /\ slotname # "absolute" /\ copy.share.copies # "back" =>
    \A c \in Alive : \A i \in DOMAIN children[c].workers :
      /\ S(c, i).name = children[c].workers[i]
      /\ S(c, i).mark \in {None, children[c].workers[i]}

\* Every process of the server balances by the method that the balancer's record names,
\* also where the record is older than the process.
MethodAgrees ==
  copy.balancer.copies = "unless" /\ copy.balancer.method # "keep" =>
    \A c \in Alive : children[c].lbmethod = segs[children[c].seg].method

\* What a process sees in shared memory is what it was told is there, through restarts.
SlotsAgree == OwnState /\ MethodAgrees
=============================================================================
