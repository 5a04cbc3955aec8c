----------------------------- MODULE CgidDaemon -----------------------------
(***************************************************************************)
(* The daemon that starts scripts for the server's children: cgid_init     *)
(* (328_1.c, 328_safe.c, 616_1.c) starts it on the second reading of the   *)
(* configuration, cgid_server (316_1.c, 325_1.c, 317_1.c, 326_1.c) takes   *)
(* one request after the other from a socket and keeps, for every          *)
(* connection id, the process id of the script it started last.  A child   *)
(* that gives up on its script asks for that id to kill the script.        *)
(* A second httpd may use the same socket: its connections have the same   *)
(* ids.  A process id is the number of the request it was given to: the    *)
(* system does not use one again.                                          *)
(***************************************************************************)
EXTENDS Integers, Sequences, FiniteSets

CONSTANTS
  Conns,       \* connection ids: cgid_req.conn_id
  Us, Other,   \* the httpd that started the daemon (parent_pid), and another
  Clients,     \* the connections that ask for scripts, of either httpd
  Versions,    \* the copies that run together (below)
  MaxAsks,     \* bound: scripts asked for
  MaxFaults    \* bound: faults of the system

NoPid == 0
Pids == 1 .. MaxAsks

ASSUME CgidAssumption ==
  /\ IsFiniteSet(Conns) /\ Us # Other /\ Clients \subseteq {Us, Other} \X Conns
  /\ {MaxAsks, MaxFaults} \subseteq Nat
  /\ Versions \subseteq
       [server : [rejectsForeign : BOOLEAN,    \* closes when ppid # parent_pid
                  looksFirst : BOOLEAN,        \* copies the key of a new entry only
                  exitsOnNetDown : BOOLEAN],   \* ENETDOWN ends the loop
        init : [asks : BOOLEAN,                \* user_has_permission
                truncates : BOOLEAN]]          \* cuts a socket path that is too long

Version_316 == [rejectsForeign |-> FALSE, looksFirst |-> FALSE, exitsOnNetDown |-> TRUE]
Version_325 == Version_316
Version_317 == [rejectsForeign |-> TRUE, looksFirst |-> TRUE, exitsOnNetDown |-> TRUE]
Version_326 == [rejectsForeign |-> TRUE, looksFirst |-> TRUE, exitsOnNetDown |-> FALSE]
Init_328 == [asks |-> FALSE, truncates |-> TRUE]
Init_328_safe == [asks |-> TRUE, truncates |-> TRUE]
Init_616 == [asks |-> FALSE, truncates |-> FALSE]

VARIABLES
  version,
  permitted,   \* what user_has_permission answers
  pathFits,    \* the socket's path fits into sun_path, if need be cut off
  passes,      \* how often the configuration has been read
  daemon,      \* "none", "up", or "down" until it is started again
  backlog,     \* the requests waiting on the socket
  script_hash, \* conn_id -> pid; no entry is NoPid, which apr_hash_set deletes by
  keyIn,       \* where the key of an entry lives
  copies,      \* keys copied into the daemon's pool so far
  failures,    \* history: scripts that could not be started
  client,      \* what each client is doing
  script,      \* history: the script started for a client's latest request
  answer,      \* the id a client was given
  asks,        \* the number of the next request
  faults

setting == <<version, permitted, pathFits>>
hashVars == <<script_hash, keyIn, copies, failures>>
clientVars == <<client, script, answer>>
vars == <<setting, passes, daemon, backlog, hashVars, clientVars, asks, faults>>

EmptyHash ==
  /\ script_hash = [c \in Conns |-> NoPid]
  /\ keyIn = [c \in Conns |-> "none"]
  /\ copies = 0 /\ failures = 0

Init ==
  /\ version \in Versions
  /\ permitted \in BOOLEAN /\ (version.init.asks \/ permitted)
  /\ pathFits \in BOOLEAN /\ (version.init.truncates => pathFits)
  /\ passes = 0 /\ daemon = "none"
  /\ backlog = <<>>
  /\ EmptyHash
  /\ client = [c \in Clients |-> "idle"]
  /\ script = [c \in Clients |-> NoPid]
  /\ answer = [c \in Clients |-> NoPid]
  /\ asks = 1 /\ faults = 0

Fault == faults < MaxFaults /\ faults' = faults + 1
-----------------------------------------------------------------------------
(* Starting it *)

\* The steps from socket() to listen() and the change of user: all or none.
Binds == pathFits

\* cgid_init: the first reading only leaves its mark in the process's pool.
CgidInit ==
  /\ passes < 2
  /\ passes' = passes + 1
  /\ daemon' = IF passes = 0 \/ (version.init.asks /\ ~permitted) THEN "none"
               ELSE IF Binds THEN "up" ELSE "down"
  /\ UNCHANGED <<setting, backlog, hashVars, clientVars, asks, faults>>

\* The parent sees the daemon dead and starts it again, with an empty table.
Restart ==
  /\ daemon = "down" /\ Binds
  /\ daemon' = "up"
  /\ script_hash' = [c \in Conns |-> NoPid]
  /\ keyIn' = [c \in Conns |-> "none"]
  /\ copies' = 0 /\ failures' = 0
  /\ UNCHANGED <<setting, passes, backlog, clientVars, asks, faults>>

\* The daemon ends: what waited on its socket is reset.
Waiting == {backlog[i].from : i \in DOMAIN backlog}
Ends ==
  /\ daemon' = "down"
  /\ backlog' = <<>>
  /\ client' = [c \in Clients |-> IF c \in Waiting THEN "refused" ELSE client[c]]
  /\ UNCHANGED <<setting, passes, hashVars, script, answer, asks>>

Dies == daemon = "up" /\ Fault /\ Ends
-----------------------------------------------------------------------------
(* The loop of cgid_server *)

\* accept failed: the loop goes on, unless the network is down.
AcceptFails(netDown) ==
  /\ daemon = "up"
  /\ Fault
  /\ IF netDown /\ version.server.exitsOnNetDown
     THEN Ends
     ELSE UNCHANGED <<setting, passes, daemon, backlog, hashVars, clientVars,
                      asks>>

Tell(c, word) == client' = [client EXCEPT ![c] = word]

\* The next request on the socket; what came over it decides what is done.
Next_req == Head(backlog)
Take == daemon = "up" /\ backlog # <<>> /\ backlog' = Tail(backlog)

\* A request from another httpd.
Accepted == Next_req.from[1] = Us \/ ~version.server.rejectsForeign

LeavesOpen(c) == UNCHANGED client   \* mutant
Closes(c) == Tell(c, "refused")

\* get_req failed, or the sender is not accepted: the socket is closed.
Refuse ==
  /\ Take
  /\ IF Accepted THEN Fault ELSE UNCHANGED faults
  /\ Closes(Next_req.from)
  /\ UNCHANGED <<setting, passes, daemon, hashVars, script, answer, asks>>

\* GETPID_REQ
GetPid ==
  /\ Take
  /\ Accepted /\ Next_req.type = "GETPID"
  /\ Tell(Next_req.from, "answered")
  /\ answer' = [answer EXCEPT ![Next_req.from] = script_hash[Next_req.from[2]]]
  /\ UNCHANGED <<setting, passes, daemon, hashVars, script, asks, faults>>

\* The key of the new entry: the request's own variable or a copy.  The hash
\* keeps the key it has, and deletes an entry that is set to nothing.
Known(conn) == script_hash[conn] # NoPid
HashSet(conn, pid) ==
  LET copied == ~(version.server.looksFirst /\ Known(conn))
      key == IF copied THEN "pool" ELSE "loop"
  IN
  /\ script_hash' = [script_hash EXCEPT ![conn] = pid]
  /\ keyIn' = [keyIn EXCEPT ![conn] = IF pid = NoPid THEN "none"
                                      ELSE IF @ = "none" THEN key ELSE @]
  /\ copies' = IF copied THEN copies + 1 ELSE copies
  /\ failures' = IF pid = NoPid THEN failures + 1 ELSE failures

\* CGI_REQ or SSI_REQ: start the script; the process attributes or the fork may
\* fail, then the entry of the connection is set to nothing all the same.
KeepsOld(conn, pid) == IF pid = NoPid THEN script_hash[conn] ELSE pid   \* mutant
Recorded(conn, pid) == pid
StartScript(works) ==
  LET c == Next_req.from
      pid == IF works THEN Next_req.number ELSE NoPid
  IN
  /\ Take
  /\ Accepted /\ Next_req.type = "CGI"
  /\ IF works THEN UNCHANGED faults ELSE Fault
  /\ HashSet(c[2], Recorded(c[2], pid))
  /\ script' = [script EXCEPT ![c] = pid]
  /\ Tell(c, "served")
  /\ UNCHANGED <<setting, passes, daemon, answer, asks>>
-----------------------------------------------------------------------------
(* The server's children *)

Request(c, type) == backlog' = Append(backlog, [from |-> c, type |-> type, number |-> asks])

\* A connection's next request wants a script.
Ask(c) ==
  /\ daemon = "up" /\ client[c] = "idle"
  /\ asks <= MaxAsks /\ asks' = asks + 1
  /\ Request(c, "CGI")
  /\ client' = [client EXCEPT ![c] = "sent"]
  /\ script' = [script EXCEPT ![c] = NoPid]
  /\ answer' = [answer EXCEPT ![c] = NoPid]
  /\ UNCHANGED <<setting, passes, daemon, hashVars, faults>>

\* ... and is cleaned up: whose script is it?
AskPid(c) ==
  /\ daemon = "up" /\ client[c] = "served"
  /\ Request(c, "GETPID")
  /\ client' = [client EXCEPT ![c] = "asked"]
  /\ UNCHANGED <<setting, passes, daemon, hashVars, script, answer, asks, faults>>

\* The child has killed what it was given, or has nobody to ask; the connection's
\* next request may come.
Done(c) ==
  /\ client[c] \in {"answered", "refused"} \/ (client[c] = "served" /\ daemon # "up")
  /\ client' = [client EXCEPT ![c] = "idle"]
  /\ answer' = [answer EXCEPT ![c] = NoPid]
  /\ UNCHANGED <<setting, passes, daemon, backlog, hashVars, script, asks, faults>>
-----------------------------------------------------------------------------
Serve == Refuse \/ GetPid \/ \E works \in BOOLEAN : StartScript(works)

Next ==
  \/ CgidInit \/ Restart \/ Dies \/ Serve
  \/ \E netDown \in BOOLEAN : AcceptFails(netDown)
  \/ \E c \in Clients : Ask(c) \/ AskPid(c) \/ Done(c)

Spec == Init /\ [][Next]_vars

\* The daemon keeps serving and is started again when it died.
FairSpec == Spec /\ WF_vars(Serve) /\ WF_vars(Restart)
-----------------------------------------------------------------------------
TypeOK ==
  /\ version \in Versions /\ permitted \in BOOLEAN /\ pathFits \in BOOLEAN
  /\ passes \in 0 .. 2 /\ daemon \in {"none", "up", "down"}
  /\ backlog \in Seq([from : Clients, type : {"CGI", "GETPID"}, number : 1 .. MaxAsks + 1])
  /\ script_hash \in [Conns -> Pids \cup {NoPid}]
  /\ keyIn \in [Conns -> {"none", "pool", "loop"}]
  /\ copies \in Nat /\ failures \in Nat
  /\ client \in [Clients -> {"idle", "sent", "served", "asked", "answered", "refused"}]
  /\ script \in [Clients -> Pids \cup {NoPid}] /\ answer \in [Clients -> Pids \cup {NoPid}]
  /\ asks \in 1 .. MaxAsks + 1 /\ faults \in 0 .. MaxFaults

\* The id a client is given is that of its own latest script, or none: never that
\* of the request before it on the same connection id, or of the other httpd's.
\* (The copies that only log a foreign request give anybody's.)
AnswersOwn ==
  version.server.rejectsForeign =>
    \A c \in Clients : client[c] = "answered" => answer[c] \in {script[c], NoPid}

\* No key of the table is the loop's own variable, which the next request
\* overwrites; and the copies that look first copy no key twice while its entry
\* stands, so that the daemon's pool does not grow with every request.
KeysOwned ==
  /\ \A conn \in Conns : keyIn[conn] # "loop"
  /\ version.server.looksFirst => copies <= Cardinality(Conns) + failures

\* The table of scripts answers truly and owns what it holds.
TableKept == AnswersOwn /\ KeysOwned

\* Every request on the socket is answered, served or closed, also when the daemon
\* dies in between.
RequestsSettled ==
  \A c \in Clients : client[c] \in {"sent", "asked"} ~> client[c] \notin {"sent", "asked"}
=============================================================================
