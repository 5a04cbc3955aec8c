# A verification of the server functions in this repository

The repository holds a thousand C files and one workflow. There is no build, no
documentation and no test, so every definition here is translated from the C
code itself. Each file is one function, or two, of the Apache HTTP server with
the comments taken out. The same function occurs many times: `187_1.c`,
`189_1.c`, `306_1.c`, ... are copies of it that differ in a check that is there
or not, an order of two calls, a helper that was put in, or only in a log
message. The files `<n>_safe.c` differ in the same way. About 220 different
functions occur.

Two decisions follow, and every module rests on them.

- **One module models a function, or a few that share state, with all its
  copies.** A *version* record says how a copy departs from the others, and a
  behaviour runs one version of each function. What a copy changes that no
  state can tell apart (a log line, a header with a version string, a call to a
  TLS library) is not in the record; copies that agree in everything else are one
  version, and the map names each of them.
- **What stands around the function is external.** A caller, a callee or a
  partner process that the sources do not have is modelled from how the
  function relies on it, and marked external in the map. The largest of these
  are the other end of the work queue, the parent of the prefork MPM, the DAV
  providers, the session store, the backend behind the proxy and the children that
  ask the common gateway daemon for scripts.

Some copies do less than the others. A property is stated of the copies that can
have it, by a field of the version (`Version.serializes`, `ver.restores`, ...),
never by leaving the copy out of the model, unless the list
[below](#copies-a-property-excludes-and-why) says so.

## The system: components, state, operations, properties

The server is a parent process that starts children; each child accepts
connections with several threads (event MPM) or one (prefork MPM) and serves
requests: the location, directory and file walks give a request its
configuration, mod_rewrite its target, authentication finds its user, and a handler
(proxy, DAV, a script, a page with server side includes) answers it. The parent reads the configuration before that, and starts it all
again at a restart while old children finish.

| Component | State it keeps | Operations | Talks to | What is hard | Correct when |
|---|---|---|---|---|---|
| Event MPM parent (`1014_1.c`, `1013_1.c`, `850_1.c`) | scoreboard slots, `max_daemons_limit`, `total_daemons`, `idle_spawn_rate`, `hold_off`, pods | scan, shrink, grow, fork, reap, graceful restart | children, through the scoreboard and the pipe of death | the scan reads what children write meanwhile; forks fail, children crash | books agree with the processes, arrays are not overrun, the pool comes to rest |
| End of the event MPM's parent (14 files) | slots, the list of extra processes, the clock | relieve, reclaim, register, unregister | the children, by pod and signals; the system, by wait | children that do not hear, slots reused, late wakeups | nobody forgotten, SIGKILL after SIGTERM, every stop ends |
| Prefork child (`118_1.c` and 6 more) | accept mutex, listeners, `die_now`, generation | lock, poll, accept, unlock, serve, leave | the other children, through the mutex; the parent, by signals | a signal or an error at any point of the loop | one acceptor, the mutex never lost, every connection served |
| Queue of a child (`752_1.c`) | ring of sockets, timers, condition variable | pop (wait, wake, take) | listener, other workers | wakeups for nothing, a taken item, termination | a FIFO queue that cannot overflow or lose a wakeup |
| Threads of a child (41 files) | which threads run, listening sockets | start, create listener, close listeners, join | queue, main thread | stop while starting, no listener, a lost wakeup | a child that is told to leave does |
| DAV precondition check (17 files) | `seen_locktoken`, scans over the `If:` header | validate one resource | lock database | nested scans with five kinds of exit | locked resources need their token, conditions hold |
| DAV COPY/MOVE/DELETE (8 files) | checkouts, lock database, resources | the method, call by call | provider, other requests | any call may fail; requests interleave | everything taken is given back, nothing overwritten |
| DAV PROPPATCH (5 files) | the instructions' progress | validate, execute, roll back | property database | failure in the middle, one property twice | all or nothing |
| Form authentication: notes (77 files) | notes of the requests | set, get | redirects and subrequests | many ways to climb to one request | one login for a client's request |
| Form authentication: session (31 files) | session, its copies in requests | set, get, save | overlapping requests of a client | the later save wins as a whole | hash and password belong to the user |
| If/ElseIf/Else (42 files) | `path`, `override` of `cmd_parms` | open, close a section | itself, by nesting | recursion over shared state | balanced, never widened |
| Proxy: the answer (10 files) | the connection, what is read and what was sent | status line, headers, interim responses, body | backend, client, pool of connections | anything may fail or end at any point; the connection is released before the client has all | the client has all or is told; the connection is given on once and clean |
| Proxy workers (42 files) | shared memory segments, slots, worker marks | choose, define, share, handle, retry | parent, children, other proxies | two generations on one memory; retries | own worker's state, bounded attempts |
| Configuration walks (24 files) | walk caches, arrays of sections, configurations | location walk, file walk | subrequests, redirects | inherited caches | the result does not depend on the cache |
| Server start (54 files) | the tree, the logs | read files, check logs, open | the file system | files come and go between two steps | files in order, checks hold at opening |

| Common gateway daemon (7 files) | table of the latest script per connection id | start, accept, start a script, answer for an id | the children of two httpds | it dies, forks fail, ids coincide | a child kills its own script or none; every request settled |
| Replacements and growing buffers (27 files) | a buffer, its allocation, its string | grow, append, substitute, read a line | whoever owns it | two passes over one text; a move or a growth in place | what was counted is what is written, nothing is lost |
| Expansion of rewriting rules (12 files) | the text, cut into pieces | expand, and for the environment | maps, variables, the last condition | it calls itself for keys and defaults | expanded once, and in the room that was counted |
| Texts and conditions of a page (19 files) | piece and room; two flags and a count | parse a text; if, elif, else, endif | variables, expressions | conditions in conditions, elements that are refused | cut only by the limit; printed exactly where chosen |

The remaining functions are named, with the reason why no module models them, under
[Not modelled](#not-modelled). The places in the code where each of the
hazards bites, with the property that would catch it, are listed under `hazards`
in `PROJECT.json`.

## Modules

```
ServerPool      <- EventMpm
                   ServerStop <- MCServerStop
                   EventMpm, ServerStop <- ParentProofs
                   Prefork    <- MCPrefork
WorkQueue       <- FdQueue    <- ChildThreads <- MCChildThreads
                   Prefork, ChildThreads <- ChildProofs
                   DavValidate, DavMethods, DavPropPatch <- DavProofs, MCDav
AuthVersions, LoginCell <- AuthNotes   <- MCAuthNotes
AuthVersions            <- AuthSession <- MCAuthSession
                   AuthNotes, AuthSession <- AuthProofs
                   IfSection, ConfigWalks, ServerStart <- ConfigProofs, MCConfig
ProxyWorker <- ProxySlots <- ProxyHandler
                   ProxyResponse, ProxyHandler <- ProxyProofs, MCProxy
                   CgidDaemon <- CgidDaemonProofs, MCCgidDaemon
Substitution    <- VarBuf
TextPieces      <- RewriteExpand
TextPieces      <- SsiString
                   SsiConditions, VarBuf, RewriteExpand, SsiString <- TextProofs, MCText
```

MCDav, MCConfig, MCProxy and MCText each check several modules that share nothing in one state space:
a behaviour is one of one of them, chosen at its beginning, while the others rest at a single state. They extend these modules, so that the properties of the runs are those the modules state and the theorems name.
Where several modules are extended together, and in the modules of proofs, the initial states and steps of each carry its name
(`WalksSpec`, `StartSpec`, `MethodsSpec`, `PatchSpec`, `HandlerSpec`, `StopSpec`, `PreforkSpec`, `ChildSpec`, `BufSpec`,
`ExpandSpec`, `ParseSpec`). EventMpm needs no definitions of its own for TLC and is checked as it stands.

Actions have the names of the functions, or of the part of one that happens
between two points at which another process, thread or request can act. A
sequential function that shares nothing is a single action or a pure operator.

**EventMpm.** `proc`, `status`, `generation`, `bucket`, `quiescing`, `pid` are the
scoreboard; `scan` is the locals of `perform_idle_server_maintenance` between two
slots, since children may move there. `ScanSlot` is one turn of its loop,
`GiveUp`, `Shrink`, `CannotGrow`, `Grow` and `LeaveAlone` are the branches after it;
`make_child` is inside `Grow`, once for each slot of `free_slots`. `Child(i)` is
what a child does to its slot, `Reap` the parent's wait. `idle_spawn_rate`
doubles as in the code, `hold_off` counts passes. The number
`active_daemons` is only logged, and `not_accepting` is set with `quiescing`
wherever it is read: both are left out. `ServerPool` is the abstract pool:
processes are launched several at a time in empty slots and retired one by one
below a limit that may move. EventMpm implements it with
`live <- Living, count <- total_daemons, limit <- max_daemons_limit`.

**ServerStop.** `event_run` after its loop: `Retire`, `Reuse` and `WaitOrTimeout` are what maintenance and the
main loop do to slots and to the list of extra processes before, `WaitOneSecond` is a turn of the graceful wait with
`ap_relieve_child_processes` in it, `ReclaimPass` a turn of `ap_reclaim_child_processes` with the part of `action_table`
that is due. A parent may wake later than it asked for; a child may be deaf to everything but SIGKILL.

**Prefork.** `pc[c]` goes round the loop of `child_main`; the versions differ in where the
mutex is taken and given back and in what follows a failing poll. Poll and
accept on closed listeners are assumed to return with an error. `make_child` (`138_1.c`, `96_1.c`, `54_1.c`)
says whether a child hears the graceful signal.

**FdQueue, ChildThreads.** `WorkQueue` is the abstract queue: items are handed out
once and in order, due timers before sockets. FdQueue implements it; its actions are
`ap_queue_pop_something` cut where the mutex is taken, given up, or slept on.
ChildThreads composes it with `start_threads`, `create_listener_thread`,
`close_listeners` and `join_workers`.

**DavValidate.** `Begin`, `Scan` and the actions on states are the loops of
`dav_validate_resource_state`. `Verdict` is the reference: what a header asks for, written with
quantifiers over its lists instead of loops. **DavMethods** cuts the methods at their
provider calls, each of which may fail.
**DavPropPatch** keeps the contexts of the instructions in order.

**AuthNotes, AuthSession.** `LoginCell` has one cell for every request of a client;
storing and reading at the far end of `prev` and `main` implements it.
In AuthSession a session is a value that is loaded as a whole into a request
and written back as a whole. AuthVersions has the copies of both. `Climb` follows the links with a
function over the requests rather than a recursive operator.

**IfSection.** The recursion of `ifsection` is a stack of frames, each with the saved
`old_path` and `old_overrides`.

**ProxyWorker** is the choice of a worker for a URL as an operator, next to the
reference (the longest name that the URL begins with). **ProxySlots** has the processes, their private
records, segments and slots over a restart. **ProxyHandler** EXTENDS both and
passes requests on.

**ProxyResponse** is `ap_proxy_http_process_response`: `StatusLine`, `Field`, `InterimResponse`, `BodyWaits`, ... are
its turns of the three loops, and what it reads is any answer a backend may give. `wire` is what is left of the
answer on the connection, `conn` whose the connection is; the headers are counted by their cookies. `rest` says of what line that was
too long the rest comes next. A call of `ap_pass_brigade` passes, is refused by a filter, or finds the client gone (`Outcomes`): the first two
tests after it are on the call, the last is on the client alone. `refused` and `split` are history.

**CgidDaemon.** The socket's backlog is a queue of requests; the daemon takes one whole request at a time. A process id is the number
of the request it was given to, so that two are never confused by the model itself.

**Substitution, VarBuf, TextPieces, RewriteExpand, SsiString.** A text is a sequence of characters; what stands for
another text (a variable, a group, a map's value) is one character in it, so that it can be told what was read twice. Each
function is next to the reference of what the text stands for, and to the length that was counted for it. A
buffer's memory is its size, and what is in it. `do_expand` and `ap_ssi_parse_string` cut a text into pieces from left to right; TextPieces is
that loop (`PiecesOf`), given what each turn of it makes of a place in the text.

**SsiConditions.** `page` is history: the open conditions with the branch that was chosen in each; the code has two flags and a count.

**ConfigWalks.** The code compares configurations and arrays by address. So they
are objects with identities here, allocated in order, and a configuration's value
is the sequence of sections merged into it. What a walk has after each of the sections that apply is a function of how many it has come past.

**ServerStart.** Reading a file is one step, and between any two steps a file or a directory may
appear or go; while the directory is listed, an entry that comes or goes may be returned or not. A name of a log is the directory it is in,
once as the server opens it (under its root) and once as it reads where the server was started. History variables keep what
the listing could have seen (`seen`, `stayed`, `partial`) and which directories this start's checks found or missed (`found`, `missed`).

## Runs

| Run | Question | Bounds |
|---|---|---|
| `pool` | Are the books right, does a restart reach every child, and is the parent a `ServerPool`? | `ServerLimit` 3, one thread per child, 2 buckets, `MAX_SPAWN_RATE` 4, `PodCapacity` 1, `MaxGeneration` 1, `MaxFaults` 1 |
| `pool_live` | Does the pool come to rest, and does an old generation leave? | the same with one bucket, `MAX_SPAWN_RATE` 2, `PodCapacity` 2 |
| `server_stop` | Is no child forgotten, does SIGKILL come in its turn, and does every stop end? | 2 slots, 3 processes, with and without a timeout of two seconds, none or two processes deaf, wakeups up to three seconds late |
| `prefork` | Is the mutex given back, is what a child learned still true when it acts on it, is everyone served? | 2 children, 2 listeners, `MaxRequests` 2, `MaxGeneration` 1, `MaxFaults` 1 |
| `child` | Is it a FIFO queue, is everything taken, and does a child leave? | 2 workers, a ring of 2, `MaxItems` 2, `MaxWakeups` 1, `MaxTries` 1 |
| `dav` | Does every copy answer what the header calls for, or keep what it did not give up? Is everything given back and nothing overwritten? Is a PROPPATCH all or nothing? | headers of up to 2 lists with up to 2 conditions, 2 tokens, 2 users; 2 requests, 2 resources in 2 collections; up to 3 instructions on 2 properties |
| `authnotes` | Do set and get implement one cell for each client's request? | 3 requests, so that a subrequest of a redirect exists; 1 realm or none |
| `authsession` | Do overlapping requests mix up logins? | 2 requests, 2 realms, 3 users |
| `config` | Are sections balanced, and nothing widened? Is a walk's result independent of the cache it starts from? Are files read in order, and do checks hold at opening? | `MaxDepth` 3, one class of override; 3 requests, the first for one of 3 URIs and the others for any, 2 file names, 8 sections; 3 files, 3 directories, 2 servers, `MaxChanges` 2 |
| `proxy` | Does each child see its own workers, do attempts and loops end? Has the client the answer, and has the next request a connection? | 2 children, 3 segments, `MaxWorkers` 2, one restart, `MaxAttempts` 1, `MaxBusy` 1, `MaxHops` 2; `MaxInterim` 2, 51 kinds of requests, three combinations of copies |
| `cgid` | Does a child kill its own script or none, and is every request settled? | 2 connection ids, 2 httpds, `MaxAsks` 4, `MaxFaults` 2 |
| `text` | Do texts fit what was counted for them and mean what they should; is a page printed where its conditions say? | texts of 2 to 4 free characters and some longer, sizes modulo 64, buffers of up to 40 bytes and `MaxOps` 4; `MaxDepth` 3 |

`PodCapacity`, `MaxFaults`, `MaxGeneration`, `MaxItems`, `MaxWakeups`, `MaxDepth`,
`MaxBusy`, `MaxHops`, `MaxTries`, `MaxRequests`, `MaxChanges`, `MaxAsks`, `MaxOps` are no settings of the
program: they bound what the outside may do, or how long the run is, and appear only
in guards (`PodCapacity` is the size of the pipe). The bounds are large enough for what
the properties are about: two generations, two buckets to divide between, two children
that compete for one mutex, a failed call while another request holds what it
needs, a section in a section in a section, a cache inherited by a subrequest of a redirect,
a slot that is given to another process while the first still runs, an interim response before another and before the last one, a
connection id used by two httpds, a sum of lengths that overflows.
In `pool` one fault and one restart can meet in one behaviour, and they may
be anywhere in it.

What each property says stands above it in its module. In short:

- `LiveSlotsCovered`, `FreeSlotsFit`: no process is beyond the limit where loops over
  the scoreboard end; `free_slots[]` is never overrun. `RestartReachesAll`: the bytes in
  the pipes of death of an earlier generation are never fewer than its children that have yet to read one (but for slots beyond
  the active limit); `OldGenerationsLeave` is what follows. `PoolSettles`: the pool does not shrink and grow for ever.
- `NobodyForgotten`, `Escalates`, `GracefulWaits`, `StopEnds`: every child that exists is in a slot or on the list of extra
  processes until it was waited for; the signals come in order and are carried through, although they follow the clock; a graceful wait
  is left for a reason; a stop ends.
- `NoOrphanedMutex`, `NothingStale` (`PollResultFresh` and `StaleServesOnce`), `EveryConnectionServed`, `SignalledLeaves`:
  the accept section, who gets out of it, and what a child knows when it acts. `OneAcceptor` is proved only.
- `QueueSpec` (refinement; a first-in first-out queue), `WorkEnds` (`NeverFull`, `EverythingTaken` and
  `ChildLeaves`): the ring, which the code does not test for being full, has room; liveness of the queue and of the end of a child.
- `AnswersVerdict`: loops equal the quantified reference; `LockedNeedsToken` and
  `ConditionsHold` say what passing means.
- `NothingLost` (`GivenBack` and `OverwriteRespected`), `AllOrNothing`: after any failing call.
- `SharesLogin` (refinement), `NotesWhole`, `OneLogin`, `HashOfUser`: logins do not mix.
- `Balanced`, `NoWidening`: nested sections. `WalksApplied`: the sections merged are those that apply, in order.
  `StartsAsMeant`: against a file system that changes at any point, a reading that ends well has read, in order, every matching file
  that stayed through the listing (`FilesInOrder`); and logs are opened only after this start found the directory of each, so that one
  that does not open lost its directory since, and a refusal has a missed directory (`StartsAsChecked`). That a directory stays until the logs are opened is more than the code can promise.
- `SlotsAgree`, `RightWorker`, `Bounded`: shared workers and retries. `AnswerKept`: the client has the answer,
  is told that it ended, or is gone, but for what a filter refused; it has each cookie of the interim responses once, and the rest of a header
  that was too long is no line; `ConnectionKept`: the
  connection is detached once, open for the next request only if nothing of this answer is left on it, and not touched any more
  once it may be another's.
- `TableKept`, `RequestsSettled`: the daemon's table answers truly and owns its keys; nobody waits for ever.
- `TextKept` (`BufferKept`, `Substitutes`, `FitsCounted`): what buffers hold, what a replacement stands for, and that it is not written past what was counted.
  `ExpandsRight` (`LengthsAgree`, `ExpandsOnce`) and `ParsesRight` (`LimitOnlyCuts`, `ParsesOnce`): lengths that were added up and limits are those of the text,
  the value of a variable is not itself expanded, and a text with everything protected comes out as it was. `PrintsChosen`: a page's text is sent exactly where every open condition has its branch chosen.

Every property is one that a plausible slip in the mapped code breaks: `PROJECT.json` lists for
each a changed definition (*mutant*, kept right before the definition it changes) under
which the run finds the property violated. Deadlock is not checked where the system may come
to rest (all children gone, the last request answered, the server started).

## Fairness

- **EventMpm**: the parent's loop goes on (`WF` of the parent's steps as a whole), and every
  child is scheduled (`WF` of each child). `Reap` is strongly fair since every turn of
  `server_main_loop` waits for a dead child before it does anything else
  (`830_1.c`), while maintenance keeps disabling and enabling it. Crashes, load and
  restarts have no fairness.
- **Prefork**: `WF` of each child's steps, strong fairness of getting the accept
  mutex, which waiters get and lose again: the operating system's mutex
  does not starve anyone. The parent replaces the dead and sends its signals. Clients
  promise nothing; `SignalledLeaves` therefore is conditional on clients coming.
- **ChildThreads**: `WF` of the threads, `SF` of taking the queue's mutex, and `SF` of the listener's way out,
  whose guard is only sometimes true while it polls. Producers promise nothing.

- **ServerStop**: `WF` of the parent's two loops, and of the end of a child that was told and hears. Nobody has to ask for a stop.
- **CgidDaemon**: `WF` of the daemon's loop and of its restart by `cgid_maint`. Faults, and children that ask, have none.

All other specifications state safety only.

## Proofs

TLC checks the instances above; the following is proved for every value of the
constants under the assumptions named in the modules: `SettingsAssumption`, `SpawnRateAssumption`, `StopAssumption`,
`PreforkAssumption`, `QueueAssumption`, `ChildAssumption`, `DavAssumption`, `MethodsAssumption`, `PropPatchAssumption`,
`NotesAssumption`, `SessionAssumption`, `SectionAssumption`, `WalkAssumption`, `StartAssumption`, `ResponseAssumption`,
`SlotsAssumption`, `HandlerAssumption`, `CgidAssumption`, `ConditionsAssumption`, `VarBufAssumption`, `FillingAssumption`,
`ExpandAssumption`, `ParseAssumption`. They say what kind of thing a constant is, that
a value for "none" is no other value, and in a few cases what the code around the function sees to: a worker's name has a host without a
slash and a path that begins with one (`HandlerAssumption`), the method of a balancer is among those loaded
(`SlotsAssumption`), an error log named syslog has a provider and a transfer log is some server's (`StartAssumption`), the file names that
requests are mapped to are in directories that have a section of their own (`WalkAssumption`), a text and its NUL are in memory,
what a match took part in is in its source, and a buffer's sizes are far from the end of their type (`VarBufAssumption`), stand-ins are characters of no text (`FillingAssumption`),
a match has every group that can be referred to (`ExpandAssumption`), and there are as many threads
as the ring has places (`ChildAssumption`).

**ParentProofs: the pool.** The invariant is `IInv`: types, `PidsAgree` (`pid` tells the truth),
`LiveSlotsCovered`, `ScanInv`, `DaemonsCounted`, `RatePowers` and `ScanFits`. `LiveSlotsCovered` is
not inductive: that a pass may lower the limit to `last_non_dead + 1` is right only because the scan,
slot by slot, has missed no process below `scan.i` (`ScanInv`), although processes may die behind it
— none can appear there, for only this parent forks. `FreeSlotsFit` needs that the rate is one of
the powers of two below `MAX_SPAWN_RATE` (`RatePowers`): doubling what is less than a power
of two is at most that power, and the array is filled only up to the rate (`ScanFits`). From `IInv`
follow `LiveCovered`, `Counted`, `ArrayFits`, `FreeEmpty` (the "slot should be empty"
branch of `make_child` is dead) and `Implements`:
every step of the parent and its children is a step of `ServerPool` or a stutter. `RestartReachesAllCorrect` is inductive with the
types: a fork joins the current generation, the child that takes a byte is one that was waited for, and a restart writes as many
bytes as there are slots but for those beyond the active limit.

**ParentProofs: the end.** `NobodyForgotten` is inductive with the types: relief and reclaim clear a slot only of a process that wait returned.
`Escalates` needs `Escalated`: what the place in `action_table` says of every child that is signalled — past the first SIGTERM each has had one, past
SIGKILL that — because the parent moves one action a turn while the clock may have passed several. `GracefulWaits` follows from the guards of the wait and
what relief found. Theorems for any number of slots and processes, any timeout and every copy.

**ChildProofs: prefork.** `MutexInv` adds who may own the mutex, and that in copies without a mutex nobody
does; `FreshInv` adds that what poll reported stays in the backlog, which holds since only the owner takes
from it. `LateInv` says of a child of an old generation that took a connection that it serves it, is told to leave, or has left:
`die_now` is set by the generation check before the next turn. Theorems `Exclusive`, `NotOrphaned`, `Fresh`, `NothingStaleCorrect`, for any number
of children and listeners.

**ChildProofs: the queue.** `IsAQueue` is the refinement of `WorkQueue` by the whole child (`ChildSpec`), for any ring, number of threads and
bound of pushes. Nothing in the code tests whether the ring is full. `NeverFull` says why it need not: what is in the ring and the idlers that
the listener may still push for are workers that have reported idle and have got nothing since, and of these there are no more than places.
With `in` one round of `nelts` behind `out` (`QueueInv`) a push writes a place that is not read, and the abstract queue is the ring read
from `out`.

**CgidDaemonProofs.** `TableKept` speaks of answers that are on their way; it needs to know of the socket that each waiting client has exactly
one entry in the backlog, with its own number (`Queued`), and of the table that after a script was started for a client the entry
of its connection is that script or none until it asks for another (`OwnEntries`). The keys: one for each entry, and never more copied than
there are entries and failures (`KeysCounted`). For any number of connections, clients, requests and faults.

**DavProofs: the check.** For every header and lock list, not only the small ones. `SeenIsEntitled` says what
`seen_locktoken` stands for while the scan goes on, `Checked` what has been established of the
list that is being scanned and that no list before it was this resource's when `num_that_apply` is 0.
Theorems `NeedsToken`, `Conditional`, and `NoClash` (no lock is granted next to one it conflicts with). `VerdictReached` says more: the
scans give exactly the answer of `Verdict`, which has quantifiers and no order. Its invariant follows the loops: what was seen so
far (`ScanVerdict`), that nothing before the place of the scan decided (`Undecided`), and that what was checked of the current list holds
(`HoldsSoFar`); each of the five kinds of exit is then one lemma.

**DavProofs: PROPPATCH and the methods.** `PatchInv` says how far execution and rollback have come: behind the place the properties are as they
were before, or as the instructions up to there make them, also when two instructions are about one property, which
is why rollback goes backwards. `PatchedWholeOrNot` for every document and every failure. For COPY, MOVE and DELETE, `Holding` says
of each stage what a request at it may have checked out and have open, and `OutInv` that every collection that is out belongs to exactly one request,
which is what `GivenBack` needs when requests interleave; it holds of the copies that check out what they check in (`ChecksOut`).
`MethodsLoseNothing` (`GivenBack` and `OverwriteRespected`) for any number of requests, resources and collections.

**AuthProofs: the session.** `AllGood`: the stored session and each request's copy hold one login per realm
with its user's hash. Overlapping requests only copy sessions, so that it is enough that `set` makes a good one of
a good one; `NoHash` covers the copies that store no hash. Theorems `HashCorrect`, `LoginCorrect`.

**AuthProofs: the notes.** Climbing is a recursive function: what it yields is known by its equation alone (`Follows`), and that a solution exists and
all agree at the requests there are is part of the invariant (`Chains`): a new request adds one
link to a solution. So `main` and then `prev` lead from every request to the one the client sent (`ClimbsToClient`), and `LoginShared`,
the refinement of `LoginCell`, follows with the cell of a client read from its notes. `NotesCorrect` needs `NotesFit`: each value is under the name of its slot, and a
pair that is there is one login's.

**ConfigProofs: sections.** `Outer` (the outermost frame holds the beginning), `Narrow` (every saved override is within
the first) and `Chain` (each saved path is that of the frame below) together are inductive; from them follow
`BalancedCorrect`, `NoWideningCorrect` and `OwnPathCorrect`, for any depth.

**ConfigProofs: the start.** `ReadInv`: what the directory has still to return and what is a candidate were in the directory while it was
listed, and every file that stayed is among them, whatever came and went (`Listed`, `Whole`), unless `apr_dir_read` failed; sorting keeps all of them
in order; the tree is the candidates up to the current one (`InOrder`, `AllRead`). `CheckInv`: the logs of the servers before the current one had
their directories found, or the refusal has an excuse (`ErrorsChecked`, `TransfersChecked`, `Verdict`); a transfer log that servers share
is looked at once, and has no directive left afterwards only because it was found or the start is refused. What was found stays found
(`Remembered`), so no step of the file system disturbs it. `StartsCorrect` for any files, patterns, logs, servers and changes.

**ConfigProofs: the walks.** `WalksCorrect` says, for any sections, URIs and file names and any number of subrequests and redirects, that what a
walk merges into a configuration are the sections that apply, in order, whatever cache it began with. The invariant is about everything
reachable from a request. `HeapOk`: each cache has an array of its own and is in the list of one request and one kind of sections; each entry has merged the matches
up to it (`Chained`); a filled cache holds what applies to its key, for a request that this one follows from or for the directory its array belongs to, and
its result is its merged configuration with these (`Sound`). `RequestOk`: a request's notes are its own, and between two walks its configuration
has no section of the kind to come. Owner and kind of a cache are not in the code, so they are quantified: there *is* an
assignment under which all of this holds. The proof follows the code: `prep_walk_cache` adds a fitting cache and leaves the others alone,
the climb stays in one list, and the entries that the loop has met or added are those of the sections it has come past.

**ProxyProofs: the answer.** `Inside` (what is still so before the function returns), `Reading` (how what is left of the answer ends, and
that the ping's timeout is set only while a 100 Continue is expected) and `Cookies` (where those of this response and of former
ones may be) are inductive with the properties. That no cookie comes twice needs that the table put aside is empty whenever a status line
is read. Theorems `ConnectionKeptCorrect` and `AnswerKeptCorrect`, for any limit of interim responses, request and copy.

**ProxyProofs: the workers.** `BestIsLongest` is about the loop of `ap_proxy_get_worker`: what it ends with may be taken, and nothing that may be taken
has a longer name; `RightWorkerCorrect` adds that such a worker serves the URL and none that does is missed, for every list of names. `BoundedCorrect`: what is
left of Max-Forwards and how often a request came back make what it may (`HopsLeft`). `SlotsAgreeCorrect` is about two generations on shared
memory: the workers of a process are in slots of their own, one in each, with their own mark or none (`Theirs`); children of one segment have the
same workers in the same slots (`ChildrenOwn`), and the parent has a new segment for itself until its children start (`ParentOwn`). It holds of the copies
and segment names in `Sure`. For any number of children, workers and restarts.

**TextProofs: conditions.** The flags tell of one condition only: the outermost whose branch is not chosen (`Hides`); the count is that of the conditions
within it, of which nothing is known. `Nested` says so, and `PrintsChosen` follows for any depth.

**TextProofs: replacements and buffers.** What a replacement stands for is said of each character by itself: a character is protected if the backslashes
right before it are odd in number, wherever they begin. The code goes from left to right and takes one or two characters at a
time. `ReadSoFar` connects them: what is written for the characters read so far is what they stand for, and the next one, unless it has been
taken, is neither protected nor part of a reference (`TurnStands` is that for one turn). So what `regsub_core` makes is what the
replacement stands for, for every replacement, match and copy. Of the first pass, `CountsRight`: while what is written fits the type, the count is
its length; of groups alone, it is so or the pass has given up, if it tests for it. `FitsCounted` follows for every call in
`Agrees`. An earlier form of `Agrees` left out only replacements without a group and was false: ordinary characters between groups are
counted untested, and their sum can wrap.
`BufInv` is the invariant of a buffer: its text is what was said, its length is known to be that or unknown, and it has the room it says
(`Held`); `GrownKeeps` shows for every way to find memory that the text is kept and the room is there. While a line is read, what has been read
and what is left of it are the line. Theorems `TextKeptCorrect` and `FitsCountedCorrect`, for any texts, sizes and number of operations; like the
properties, they speak of the buffers of copies in `Reliable`.

**TextProofs: expanded texts.** `ExpandsRightCorrect` and `ParsesRightCorrect` are about what two calls of the same function make: with the values filled in as
they are met, and with each of them standing as one character until the end. Four things are shown, each for texts of any length.

1. *Cutting.* If every place of a text has a piece that goes on behind it, the loop ends and the pieces are the first one and those of
   the rest (`PiecesAre`, `RestIs`). Two texts, or two ways to read one, that agree on each piece met agree as a whole (`AlikePieces`).
2. *Filling in* passes through concatenation, so filling in the pieces is filling in what is joined of them (`FilledPieces`). That each turn makes
   the same of a place either way, up to filling in (`PartFills` for a page, `PiecesTally` for a rule), is where "not read again" comes from: no turn looks into
   a value.
3. *Recursion.* `do_expand` calls itself for a key and a default, both shorter than the text (`CallShorter`). `Recursion` shows that such a function
   exists (`DoExpandIs`), and `Course` is induction over what is shorter; so a key that is expanded either way is the same key once it is filled in
   (`DoExpandFulfils`), and the same entry of the map is found. `FillingAssumption` is needed here: a stand-in is in no text, so what is filled in is a text.
4. *Quoting.* A text with its special characters protected is cut into pieces of one character each (`Unquoted`; `QuotedExpands` for a rule), and what is left
   as it is of a page's text is put together again (`CallQuotes`).

For the lengths, `AddedIs`: the sum of the spans is the length of the joined pieces if each span is its piece's. For the limit, `TakenIs`: the pieces
taken up are the first ones, all of them or enough to use the room up; `BufferCuts`, `PoolCuts` and `PlainCuts` are the three ways to end (`CallCuts`). The theorems
hold for every copy.

The provers cannot instantiate the library's induction theorems, so where a loop is a recursive function
(the workers, the walks, the texts) a set takes the place of the predicate: a set of naturals that has 0 and with each number the next one has them
all (lemma `Inductive`), which follows from the principle of pigeonholes. Of a recursive function
no more is known than its equation, and that only if some function satisfies it; so one is shown to exist first, or, for the climb, kept in the invariant.

**Only model-checked**: all liveness (`PoolSettles`, `OldGenerationsLeave`, `StopEnds`, `EveryConnectionServed`,
`SignalledLeaves`, `WorkEnds`, `RequestsSettled`), which the prover does not do under fairness. Every invariant and every action property of a run
is a theorem, too.

## What the models say about the code

Things a reader of the code may want to know, met while modelling. They are not disagreements with anything the
repository states, for it states nothing; so no run reports them as findings.

- *Event MPM.* `OldGenerationsLeave` holds when `ActiveDaemonsLimit` equals `ServerLimit`. With a smaller one, the forks of one
  pass can overshoot it, since threads that have not started do not count as active, and the restart, which writes one byte for each daemon up to that limit,
  leaves a child without its byte (`ServerLimit` 4, `ActiveDaemonsLimit`, `MaxWorkers` and `MinSpare` 3, `MaxSpare` 4, one bucket); hence the
  difference in `RestartReachesAll`. `850_1.c:17` raises `MaxSpare` to `MinSpare + ThreadsPerChild` whatever the number of buckets, while
  `1014_1.c:64` and `80` divide both by it: with two buckets, `ThreadsPerChild` 3, `MinSpare` 8 and `MaxSpare` 11, a bucket with six idle threads is above its
  share of 5 and is left with three, below its share of 4, so that the next pass forks again. `PoolSettles` therefore is checked with one bucket.
- *Prefork.* `95_1.c` leaves on a failing poll with the mutex held. The other copies do not. When `MaxRequestsPerChild`
  is less than the number of listeners, the index that is kept for fairness starts anew with each child and a listener can
  be starved: the run has `MaxRequests` equal to the number of listeners.
- *End of the server.* The copies that clear slots blindly (`555_1.c`, `573_1.c`, `653_1.c`) forget a child that still runs. `214_1.c` exits
  after one pass and leaves the children. `649_1.c` sends extra processes no signal. `653_1.c` unregisters with a NULL generation and crashes if
  there is an extra process; so do the registrations that do not look at what malloc gave, when it gave nothing.
- *Queue.* When the child is stopped a worker reads `terminated` after it gave up the mutex, and an item may be left;
  `EverythingTaken` excuses exactly this.
- *DAV methods.* A MOVE or DELETE that fails after the locks were removed does not put them back. Whether the destination exists is
  read before the validations; one created in between is not refused. `440_1.c` uses `av_info` although nothing filled it. In the precondition
  check, the token comparison of `875_1.c` and `820_1.c` is inverted.
- *Notes.* Without a realm `apr_pstrcat` ends at the NULL and the name of all four slots is the same; `RightSlot` is stated of copies
  and requests with a realm.
- *If sections.* The loops of `352_1.c`, `389_1.c` and `466_1.c` do not cut the closing `>` so that `<Else>` is always refused
  (by `466_1.c` every section). The "Multiple" error comes after the section was added.
- *Proxy.* Segment names without the generation let an old child's worker share a slot with another of the new generation (`OwnState` is
  stated of the other names). `358_1.c` adds 1 to `Max-Forwards`, so its loops do not end. The pre-request of a second attempt that
  fails leaves by `return` without the post-request. A host that is too long leaves a worker without a shared record.
- *The answer of a backend.* A final answer that comes instead of the 100 Continue leaves the ping's timeout on the socket that is released
  (`983_1.c:225`). An answer of one line without a status, on a connection that ends at once, loses that line (`983_1.c:281` to `331`: what waits
  in `bb` is dropped). A failing read of a header line is taken for the end of the headers (`975_1.c:24`); if it was the time that was up, the rest of
  the headers is still to come, also on a connection that is then given on because the answer has no body. `ProxyBadHeader StartBody`
  may leave out what delimits the body in the same way. `976_1.c` takes the rest of a header that is too long for a line; both copies do so with a
  line without a colon that they ignore, since `continue` comes before the loop that skips (`975_1.c:53` and `63`). When a filter fails while the
  client is there, the function returns OK (`983_1.c:415` asks for `c->aborted` alone) although the body was cut, and nobody tells the client;
  `ClientTold` says so with `refused`. `977_1.c` does not tell the filters how
  the body is delimited, so that it is read until the connection ends, sets no timeouts for a ping, and sends no interim response on.
- *Common gateway daemon.* Copies that only log a request of another httpd answer it; those that copy the connection's id for every request
  (`316_1.c`, `325_1.c`) let the daemon's pool grow by one copy each time.
- *Texts.* In a page's text a name whose value is unknown and that is left as it is loses its closing brace. Memory of its own may hold one character
  more than the limit when a piece ends on it; otherwise texts are cut at the limit less one. `41_1.c` does not measure at all.
- *Conditions of a page.* `194_1.c` forgets that an earlier branch was taken, `48_1.c` goes on printing after it, `147_1.c` takes every expression for true. An
  element that is refused counts as an if that holds, or as an elif that is not there.
- *Walks.* A pattern sees the URI with its doubled slashes while the cache is keyed by the collapsed one. An
  inherited cache may apply what another spelling of the URI matched; `LocationsApplied` states exactly that, and no more.
  `470_1.c` may refuse by a checksum; `42_1.c`, `63_1.c` and `91_1.c` crash when a section applies; `90_1.c` and `43_1.c` reset
  the configuration to NULL.
- *Start.* The third test of an Include pattern cannot be reached. Copies that check the log file's own name instead of its
  directory (`467`, `477`, `486`, `531`, `334`, `425`, `503`, `218`, `912`) refuse every file; `370_1.c` checks nothing;
  `430`, `443`, `743` look relative to the working directory; `182` and `565` lose the log's name. A listing that ends with an error is
  taken for a whole one (`45_1.c:48`, and all copies): files are left out and nothing tells. A parent that is no directory
  fails because of its trailing slash.

### Copies a property excludes, and why

- `NoOrphanedMutex`, `EveryConnectionServed`: copies that do not release on a failing poll (`95_1.c`).
- `NobodyForgotten`, `GracefulWaits`: the copies of relief that clear slots blindly. `Escalates`: `214_1.c` for what is left behind.
- `ChildLeaves`: copies that go on without a listener (`304`, `759`, `343`, `559`, `561`, `586`, `178`, `491_safe`), that close
  the listeners for one role only (`619_safe.c`), or join without having woken for certain (`768_1.c`).
- `AnswersVerdict`: copies whose checks were changed. `LockedNeedsToken`: copies that do not ask for a token, compare the
  wrong way or refuse nothing; `ConditionsHold`: copies that do not compare entity tags, compare the wrong way or refuse nothing.
- `GivenBack`: copies that check in what they never checked out (`440_1.c`).
- `OneLogin` of the notes: copies that store user and password each only if given.
- `Balanced`, `OwnPath`: copies that do not restore (`151`, `211_1`, `500`).
- `AnswerKept`: `977_1.c` for the end of the body, `976_1.c` for whole lines, and lines that are ignored; the body is only said to be whole where the headers were read to their end and no filter failed.
- `TableKept`: copies that answer another httpd's requests. `TextKept`, `ExpandsRight`, `ParsesRight`, `PrintsChosen` name their exceptions where they are stated.
- `Bounded`: `358_1.c` (for its loops, not for its attempts). `OwnState`: segment names without the generation, and `970_1.c`,
  which copies a worker's record the wrong way.
- `LocationsApplied`: `67_1.c`, which tests no pattern, and `631_1.c`, whose caches share their array.
- `FilesInOrder`: `115`, `64` (take `.` and `..`), `198` (ignores the pattern), `93` (goes on after errors with an
  uninitialised directory), and a listing that `apr_dir_read` ended with an error. `StartsAsChecked`: the copies named above that check
  something else, or nothing; a refusal by a copy that asks the user, or by one that exempts only the name `syslog` and not other providers.

Copies that take an argument their callers do not pass (`261_safe`, `319_safe`, `582`, `600`, `628`, `919_safe`) get it as a free
choice. `921_1.c` does not compile and is modelled as it would read with its braces in order. Reading freed or uninitialised memory
(`176`, `278`, `243`, `441`, `276`, `294`, `93`, `440`) is a choice over what it can do, a crash included.

### Abstractions to know of

- A wakeup of the listener is lost if it comes just before the poll; the half second that `join_workers` sleeps is assumed longer than
  that window. A refused listener thread is not pursued; attributes of threads, pools and the `pslot` of `311_1.c` are not told apart.
- Which slot a worker gets, whether a segment's file is gone after a restart, the loaded providers, the `ematch` of a pattern and when a
  worker is retried are external choices. Only the first server's `reverse` is set by `child_init`; the forward and reverse workers are left out.
- The provider's calls are atomic, and so is the writing of a lock. Locks are DavValidate's subject; DavMethods has one objection
  that validation can raise.
- A directory returns no name twice in one listing, not even of a file that goes and comes back in it (ServerStart).
- In ProxyResponse a response has headers that are cookies and headers that are not; the connection of a request that failed is closed by the
  caller, which is not among the sources; a blocking read brings something or fails. What a filter did with an interim response is not pursued.
- Time in ServerStop goes in quarters of a second. A pass over the children is one step: between two calls of it another child can only
  die, which the next pass sees.
- Sizes in the run of VarBuf are a few bytes and wrap at 64; the rules for rounding and for growing in place are those of the code and its allocator.

## Plan

Order of the work, the most important behaviour first. Steps 1 to 12 are done; the rest is next.

1. EventMpm with ServerPool, and its proofs.
2. Prefork and proofs.
3. WorkQueue, FdQueue, ChildThreads; the proof that the ring is a queue.
4. DavValidate, DavMethods, DavPropPatch and proofs.
5. LoginCell, AuthNotes, AuthSession and proofs.
6. IfSection and proofs.
7. ProxyWorker, ProxySlots, ProxyHandler and proofs.
8. ConfigWalks; ServerStart; proofs of both.
9. ServerStop (reclaiming: SIGTERM, then SIGKILL) and proofs; CgidDaemon and proofs.
10. Substitution, VarBuf, RewriteExpand, SsiString; SsiConditions and proofs.
11. ProxyResponse and proofs.
12. TextProofs: that the two passes of a substitution agree, what growing keeps, and that texts are expanded once and cut only by their limit.
13. Other copies of `perform_idle_server_maintenance`, `make_child` and `event_check_config`, two of them of an older MPM with its own bookkeeping.
14. `core_override_type` after the walks in ConfigWalks; health checks (`hc_get_backend`) after ProxySlots; reading a line (`ap_rgetline_core`)
    under the headers of ProxyResponse.
15. DAV checkout, unlock and the lock files with crashes between two writes; the digest client table; the map program of mod_rewrite under its lock.

## Not modelled

`PROJECT.json` lists each group with its files. In the plan (steps 13 to 15): the other copies of idle maintenance, handler and content
type, DAV properties, locks and checkout, health checks, reading lines and connection states, digest authentication, the map program.
Out of scope: generated code (expression parser and scanner), libraries inside the server (PCRE, the request library, the skip list,
whose insertion is missing), text in and out (logs, information pages, filters and brigades, the rest of mod_rewrite and mod_include,
negotiation), helpers without state of their own (strings, paths, numbers, time), programs of their own (ab, htpasswd, htdbm,
httxt2dbm, the sed filter), snippets of a few lines that no server function calls, and the workflow, which only says when a scanner is run.
