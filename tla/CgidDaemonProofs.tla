-------------------------- MODULE CgidDaemonProofs --------------------------
(***************************************************************************)
(* For any number of connection ids and clients, and every copy: the       *)
(* daemon's table gives a client the id of its own latest script or none,  *)
(* no key of the table is the loop's own variable, and no more keys are    *)
(* copied than there are entries and failures.                             *)
(***************************************************************************)
EXTENDS CgidDaemon, SequenceTheorems, FiniteSetTheorems, TLAPS

Entry == [from : Clients, type : {"CGI", "GETPID"}, number : 1 .. MaxAsks + 1]

\* What a client waits for is on the socket once, and nothing else is.
Queued ==
  /\ \A k \in 1 .. Len(backlog) :
       /\ client[backlog[k].from] = IF backlog[k].type = "CGI" THEN "sent" ELSE "asked"
       /\ backlog[k].type = "CGI" => backlog[k].number <= MaxAsks
  /\ \A k, l \in 1 .. Len(backlog) : backlog[k].from = backlog[l].from => k = l

\* The entry of a connection id whose client has been served, and has not asked for
\* another script since, is the client's.
OwnEntries ==
  version.server.rejectsForeign =>
    \A c \in Clients :
      c[1] = Us /\ client[c] \in {"served", "asked"} => script_hash[c[2]] \in {script[c], NoPid}

\* There is a key where there is an entry; the keys copied are those of the entries that
\* stand, and of those that were taken out.
Entries == {conn \in Conns : script_hash[conn] # NoPid}
KeysCounted ==
  /\ \A conn \in Conns : keyIn[conn] = IF script_hash[conn] = NoPid THEN "none" ELSE "pool"
  /\ version.server.looksFirst => copies <= Cardinality(Entries) + failures

TableInv == TypeOK /\ Queued /\ OwnEntries /\ AnswersOwn /\ KeysCounted
-----------------------------------------------------------------------------
(* The queue on the socket *)

LEMMA InitTable ==
  ASSUME Init
  PROVE  TableInv
<1>1. TypeOK BY CgidAssumption DEF Init, EmptyHash, TypeOK, NoPid, Pids
<1>2. Queued BY DEF Init, Queued
<1>3. OwnEntries /\ AnswersOwn BY DEF Init, OwnEntries, AnswersOwn
<1>4. KeysCounted
  <2>1. Entries = {} BY DEF Init, EmptyHash, Entries
  <2> QED BY <2>1, FS_EmptySet DEF Init, EmptyHash, KeysCounted
<1> QED BY <1>1, <1>2, <1>3, <1>4 DEF TableInv

\* The next request, and what stays behind it.
LEMMA Taken ==
  ASSUME TypeOK, Queued, Take
  PROVE  /\ daemon = "up" /\ Next_req \in Entry /\ backlog' \in Seq(Entry)
         /\ client[Next_req.from] = IF Next_req.type = "CGI" THEN "sent" ELSE "asked"
         /\ Next_req.type = "CGI" => Next_req.number <= MaxAsks
         /\ \A k \in 1 .. Len(backlog') : backlog'[k].from # Next_req.from
         /\ \A k \in 1 .. Len(backlog') :
              /\ client[backlog'[k].from] = IF backlog'[k].type = "CGI" THEN "sent" ELSE "asked"
              /\ backlog'[k].type = "CGI" => backlog'[k].number <= MaxAsks
         /\ \A k, l \in 1 .. Len(backlog') : backlog'[k].from = backlog'[l].from => k = l
<1>1. backlog \in Seq(Entry) /\ backlog # <<>> /\ daemon = "up" BY DEF TypeOK, Take, Entry
<1>2. backlog' = Tail(backlog) BY DEF Take
<1>3. /\ Next_req \in Entry /\ backlog' \in Seq(Entry) /\ Len(backlog') = Len(backlog) - 1
      /\ \A k \in 1 .. Len(backlog') : backlog'[k] = backlog[k + 1]
  BY <1>1, <1>2, HeadTailProperties DEF Next_req
<1>4. Len(backlog) \in Nat \ {0} /\ Next_req = backlog[1]
  BY <1>1, EmptySeq DEF Next_req
<1>5. \A k \in 1 .. Len(backlog') : k + 1 \in 1 .. Len(backlog) /\ k + 1 # 1
  BY <1>3, <1>4
<1>6. 1 \in 1 .. Len(backlog) BY <1>4
<1>7. \A k \in 1 .. Len(backlog') : backlog'[k].from # Next_req.from
  BY <1>3, <1>4, <1>5, <1>6 DEF Queued
<1>8. \A k, l \in 1 .. Len(backlog') : backlog'[k].from = backlog'[l].from => k = l
  <2> SUFFICES ASSUME NEW k \in 1 .. Len(backlog'), NEW l \in 1 .. Len(backlog'),
                      backlog'[k].from = backlog'[l].from
               PROVE  k = l
    OBVIOUS
  <2>1. k + 1 = l + 1 BY <1>3, <1>5 DEF Queued
  <2> QED BY <1>3, <1>4, <2>1
<1> QED BY <1>1, <1>3, <1>4, <1>5, <1>6, <1>7, <1>8 DEF Queued

\* A client that had nothing on the socket puts a request there.
LEMMA Put ==
  ASSUME TypeOK, Queued, NEW c \in Clients, client[c] \notin {"sent", "asked"},
         NEW type \in {"CGI", "GETPID"}, type = "CGI" => asks <= MaxAsks,
         Request(c, type),
         client' = [client EXCEPT ![c] = IF type = "CGI" THEN "sent" ELSE "asked"]
  PROVE  backlog' \in Seq(Entry) /\ Queued'
<1> DEFINE e == [from |-> c, type |-> type, number |-> asks]
<1>1. e \in Entry /\ backlog \in Seq(Entry) /\ backlog' = Append(backlog, e)
  BY DEF TypeOK, Entry, Request
<1>2. /\ backlog' \in Seq(Entry) /\ Len(backlog') = Len(backlog) + 1
      /\ \A k \in 1 .. Len(backlog) : backlog'[k] = backlog[k]
      /\ backlog'[Len(backlog) + 1] = e
  BY <1>1, AppendProperties
<1>3. Len(backlog) \in Nat BY <1>1, LenProperties
<1>4. \A k \in 1 .. Len(backlog) : backlog[k] \in Entry BY <1>1, ElementOfSeq
<1>5. \A k \in 1 .. Len(backlog) : backlog[k].from # c BY <1>4 DEF Queued, Entry
<1>6. \A k \in 1 .. Len(backlog) : client'[backlog[k].from] = client[backlog[k].from]
  BY <1>4, <1>5 DEF TypeOK, Entry
<1>7. client'[c] = IF type = "CGI" THEN "sent" ELSE "asked" BY DEF TypeOK
<1>8. \A k \in 1 .. Len(backlog') : k \in 1 .. Len(backlog) \/ k = Len(backlog) + 1
  BY <1>2, <1>3
<1>9. /\ e.from = c /\ e.type = type /\ e.number = asks
  OBVIOUS
<1>a. \A k \in 1 .. Len(backlog') :
        /\ client'[backlog'[k].from] = IF backlog'[k].type = "CGI" THEN "sent" ELSE "asked"
        /\ backlog'[k].type = "CGI" => backlog'[k].number <= MaxAsks
  <2> SUFFICES ASSUME NEW k \in 1 .. Len(backlog')
               PROVE  /\ client'[backlog'[k].from] =
                           IF backlog'[k].type = "CGI" THEN "sent" ELSE "asked"
                      /\ backlog'[k].type = "CGI" => backlog'[k].number <= MaxAsks
    OBVIOUS
  <2> HIDE DEF e
  <2>1. CASE k \in 1 .. Len(backlog) BY <2>1, <1>2, <1>6 DEF Queued
  <2>2. CASE k = Len(backlog) + 1 BY <2>2, <1>2, <1>7, <1>9
  <2> QED BY <1>8, <2>1, <2>2
<1>b. \A k, l \in 1 .. Len(backlog') : backlog'[k].from = backlog'[l].from => k = l
  <2> HIDE DEF e
  <2> SUFFICES ASSUME NEW k \in 1 .. Len(backlog'), NEW l \in 1 .. Len(backlog'),
                      backlog'[k].from = backlog'[l].from
               PROVE  k = l
    OBVIOUS
  <2>1. CASE k \in 1 .. Len(backlog) /\ l \in 1 .. Len(backlog) BY <2>1, <1>2 DEF Queued
  <2>2. CASE k = Len(backlog) + 1 BY <2>2, <1>2, <1>5, <1>8, <1>9
  <2>3. CASE l = Len(backlog) + 1 BY <2>3, <1>2, <1>5, <1>8, <1>9
  <2> QED BY <1>8, <2>1, <2>2, <2>3
<1> QED BY <1>2, <1>a, <1>b DEF Queued
-----------------------------------------------------------------------------
(* The daemon *)

LEMMA Copies ==
  ASSUME TypeOK
  PROVE  /\ version.server.rejectsForeign \in BOOLEAN /\ version.server.looksFirst \in BOOLEAN
         /\ version.server.exitsOnNetDown \in BOOLEAN
BY CgidAssumption DEF TypeOK

\* A step that touches neither the table nor what clients know.
LEMMA SameTable ==
  ASSUME KeysCounted, UNCHANGED <<version, hashVars>>
  PROVE  KeysCounted'
BY DEF KeysCounted, Entries, hashVars

LEMMA RefuseTable ==
  ASSUME TableInv, Refuse
  PROVE  TableInv'
<1> DEFINE d == Next_req.from
<1>1. /\ TypeOK /\ Queued /\ Take /\ UNCHANGED <<setting, passes, daemon, hashVars, script, answer, asks>>
      /\ client' = [client EXCEPT ![d] = "refused"]
  BY DEF TableInv, Refuse, Closes, Tell
<1>2. /\ d \in Clients /\ backlog' \in Seq(Entry)
      /\ \A k \in 1 .. Len(backlog') : backlog'[k] \in Entry
  BY <1>1, Taken, ElementOfSeq DEF Entry
<1>3. \A c \in Clients : client'[c] = IF c = d THEN "refused" ELSE client[c]
  BY <1>1, <1>2 DEF TypeOK
<1>4. TypeOK'
  <2>1. faults' \in 0 .. MaxFaults
    BY <1>1, CgidAssumption DEF Refuse, Fault, TypeOK
  <2>2. client' \in [Clients -> {"idle", "sent", "served", "asked", "answered", "refused"}]
    BY <1>1, <1>2 DEF TypeOK
  <2> QED BY <1>1, <1>2, <2>1, <2>2 DEF TypeOK, setting, hashVars, Entry
<1>5. Queued'
  <2> HIDE DEF d
  <2>1. \A k \in 1 .. Len(backlog') : backlog'[k].from \in Clients \ {d}
    BY <1>1, <1>2, Taken DEF Entry, d
  <2> QED BY <1>1, <1>3, <2>1, Taken DEF Queued
<1>6. OwnEntries' BY <1>1, <1>3 DEF TableInv, OwnEntries, setting, hashVars
<1>7. AnswersOwn' BY <1>1, <1>3 DEF TableInv, AnswersOwn, setting
<1> QED BY <1>1, <1>4, <1>5, <1>6, <1>7, SameTable DEF TableInv, setting

LEMMA GetPidTable ==
  ASSUME TableInv, GetPid
  PROVE  TableInv'
<1> DEFINE d == Next_req.from
<1>1. /\ TypeOK /\ Queued /\ Take /\ UNCHANGED <<setting, passes, daemon, hashVars, script, asks, faults>>
      /\ Accepted /\ Next_req.type = "GETPID"
      /\ client' = [client EXCEPT ![d] = "answered"]
      /\ answer' = [answer EXCEPT ![d] = script_hash[d[2]]]
  BY DEF TableInv, GetPid, Tell
<1>2. /\ d \in Clients /\ client[d] = "asked" /\ backlog' \in Seq(Entry)
      /\ \A k \in 1 .. Len(backlog') : backlog'[k] \in Entry
  BY <1>1, Taken, ElementOfSeq DEF Entry
<1>3. \A c \in Clients : /\ client'[c] = IF c = d THEN "answered" ELSE client[c]
                         /\ answer'[c] = IF c = d THEN script_hash[d[2]] ELSE answer[c]
  BY <1>1, <1>2 DEF TypeOK
<1>4. TypeOK'
  <2>1. client' \in [Clients -> {"idle", "sent", "served", "asked", "answered", "refused"}]
    BY <1>1, <1>2 DEF TypeOK
  <2>2. d[2] \in Conns BY <1>2, CgidAssumption
  <2>3. answer' \in [Clients -> Pids \cup {NoPid}] BY <1>1, <1>2, <2>2 DEF TypeOK
  <2> QED BY <1>1, <1>2, <2>1, <2>3 DEF TypeOK, setting, hashVars, Entry
<1>5. Queued'
  <2> HIDE DEF d
  <2>1. \A k \in 1 .. Len(backlog') : backlog'[k].from \in Clients \ {d}
    BY <1>1, <1>2, Taken DEF Entry, d
  <2> QED BY <1>1, <1>3, <2>1, Taken DEF Queued
<1>6. OwnEntries' BY <1>1, <1>3 DEF TableInv, OwnEntries, setting, hashVars
<1>7. AnswersOwn'
  <2>1. version.server.rejectsForeign => script_hash[d[2]] \in {script[d], NoPid}
    BY <1>1, <1>2 DEF TableInv, OwnEntries, Accepted
  <2> QED BY <1>1, <1>3, <2>1 DEF TableInv, AnswersOwn, setting
<1> QED BY <1>1, <1>4, <1>5, <1>6, <1>7, SameTable DEF TableInv, setting

\* An entry is written, replaced or taken out.
LEMMA EntryWritten ==
  ASSUME TypeOK, KeysCounted, UNCHANGED version,
         NEW conn \in Conns, NEW id \in Pids \cup {NoPid}, HashSet(conn, id)
  PROVE  /\ script_hash' \in [Conns -> Pids \cup {NoPid}]
         /\ script_hash' = [script_hash EXCEPT ![conn] = id]
         /\ keyIn' \in [Conns -> {"none", "pool", "loop"}]
         /\ copies' \in Nat /\ failures' \in Nat
         /\ KeysCounted'
<1> DEFINE copied == ~(version.server.looksFirst /\ Known(conn))
<1>1. /\ script_hash' = [script_hash EXCEPT ![conn] = id]
      /\ keyIn' = [keyIn EXCEPT ![conn] = IF id = NoPid THEN "none"
                     ELSE IF keyIn[conn] = "none" THEN (IF copied THEN "pool" ELSE "loop")
                     ELSE keyIn[conn]]
      /\ copies' = IF copied THEN copies + 1 ELSE copies
      /\ failures' = IF id = NoPid THEN failures + 1 ELSE failures
  BY DEF HashSet, TypeOK
<1>2. Known(conn) <=> keyIn[conn] # "none" BY DEF Known, KeysCounted
<1>3. \A k \in Conns : keyIn'[k] = IF script_hash'[k] = NoPid THEN "none" ELSE "pool"
  BY <1>1, <1>2 DEF TypeOK, KeysCounted
<1>4. IsFiniteSet(Entries) /\ Cardinality(Entries) \in Nat
  BY CgidAssumption, FS_Subset, FS_CardinalityType DEF Entries
<1>5. Entries' = IF id = NoPid THEN Entries \ {conn} ELSE Entries \cup {conn}
  BY <1>1 DEF TypeOK, Entries
<1>6. /\ IsFiniteSet(Entries \ {conn})
      /\ Cardinality(Entries \ {conn}) =
           IF Known(conn) THEN Cardinality(Entries) - 1 ELSE Cardinality(Entries)
      /\ Cardinality(Entries \cup {conn}) =
           IF Known(conn) THEN Cardinality(Entries) ELSE Cardinality(Entries) + 1
  BY <1>4, FS_RemoveElement, FS_AddElement DEF Entries, Known
<1>7. copies \in Nat /\ failures \in Nat BY DEF TypeOK
<1>8. version'.server.looksFirst => copies' <= Cardinality(Entries') + failures'
  <2> SUFFICES ASSUME version.server.looksFirst
               PROVE  copies' <= Cardinality(Entries') + failures'
    OBVIOUS
  <2>1. copies <= Cardinality(Entries) + failures BY DEF KeysCounted
  <2>2. copies' = IF Known(conn) THEN copies ELSE copies + 1 BY <1>1
  <2>3. CASE id = NoPid BY <1>1, <1>4, <1>5, <1>6, <1>7, <2>1, <2>2, <2>3
  <2>4. CASE id # NoPid BY <1>1, <1>4, <1>5, <1>6, <1>7, <2>1, <2>2, <2>4
  <2> QED BY <2>3, <2>4
<1>9. keyIn' \in [Conns -> {"none", "pool", "loop"}] /\ script_hash' \in [Conns -> Pids \cup {NoPid}]
  BY <1>1 DEF TypeOK
<1> QED BY <1>1, <1>3, <1>7, <1>8, <1>9 DEF KeysCounted

LEMMA StartScriptTable ==
  ASSUME TableInv, NEW works \in BOOLEAN, StartScript(works)
  PROVE  TableInv'
<1> DEFINE d == Next_req.from
           id == IF works THEN Next_req.number ELSE NoPid
<1>1. /\ TypeOK /\ Queued /\ KeysCounted /\ Take /\ UNCHANGED <<setting, passes, daemon, answer, asks>>
      /\ Accepted /\ Next_req.type = "CGI"
      /\ client' = [client EXCEPT ![d] = "served"]
      /\ script' = [script EXCEPT ![d] = id]
      /\ HashSet(d[2], id)
      /\ works \/ Fault
      /\ works => UNCHANGED faults
  BY DEF TableInv, StartScript, Tell, Recorded
<1>2. /\ d \in Clients /\ client[d] = "sent" /\ backlog' \in Seq(Entry)
      /\ Next_req.number \in 1 .. MaxAsks
      /\ \A k \in 1 .. Len(backlog') : backlog'[k] \in Entry
  <2>1. Next_req \in Entry /\ backlog' \in Seq(Entry) /\ client[d] = "sent" BY <1>1, Taken
  <2>2. Next_req.number <= MaxAsks BY <1>1, Taken
  <2>3. Next_req.number \in 1 .. MaxAsks + 1 /\ MaxAsks \in Nat BY <2>1, CgidAssumption DEF Entry
  <2>4. Next_req.number \in 1 .. MaxAsks BY <2>2, <2>3
  <2>5. d \in Clients BY <2>1 DEF Entry
  <2> QED BY <2>1, <2>4, <2>5, ElementOfSeq
<1>3. d[2] \in Conns /\ id \in Pids \cup {NoPid} /\ UNCHANGED version
  BY <1>1, <1>2, CgidAssumption DEF Pids, setting
<1>4. \A c \in Clients : /\ client'[c] = IF c = d THEN "served" ELSE client[c]
                         /\ script'[c] = IF c = d THEN id ELSE script[c]
  BY <1>1, <1>2 DEF TypeOK
<1> HIDE DEF id
<1>5. TypeOK'
  <2>1. client' \in [Clients -> {"idle", "sent", "served", "asked", "answered", "refused"}]
    BY <1>1, <1>2 DEF TypeOK
  <2>2. script' \in [Clients -> Pids \cup {NoPid}] BY <1>1, <1>2, <1>3 DEF TypeOK
  <2>3. faults' \in 0 .. MaxFaults BY <1>1, CgidAssumption DEF Fault, TypeOK
  <2> QED BY <1>1, <1>2, <1>3, <2>1, <2>2, <2>3, EntryWritten DEF TypeOK, setting, Entry
<1>6. Queued'
  <2> HIDE DEF d
  <2>1. \A k \in 1 .. Len(backlog') : backlog'[k].from \in Clients \ {d}
    BY <1>1, <1>2, Taken DEF Entry, d
  <2> QED BY <1>1, <1>4, <2>1, Taken DEF Queued
<1>7. OwnEntries'
  <2> SUFFICES ASSUME version.server.rejectsForeign, NEW c \in Clients,
                      c[1] = Us, client'[c] \in {"served", "asked"}
               PROVE  script_hash'[c[2]] \in {script'[c], NoPid}
    BY <1>3 DEF OwnEntries
  <2>1. c \in {Us, Other} \X Conns /\ d \in {Us, Other} \X Conns /\ d[1] = Us
    BY <1>1, <1>2, CgidAssumption DEF Accepted
  <2>2. script_hash' = [script_hash EXCEPT ![d[2]] = id] BY <1>1, <1>3, EntryWritten
  <2>3. CASE c = d
    <3>1. script_hash'[d[2]] = id BY <1>1, <1>3, <2>2 DEF TypeOK
    <3>2. script'[d] = id BY <1>2, <1>4
    <3> QED BY <2>3, <3>1, <3>2
  <2>4. CASE c # d
    <3>1. c[2] # d[2] BY <2>1, <2>4
    <3>2. script_hash'[c[2]] = script_hash[c[2]] BY <1>3, <2>1, <2>2, <3>1 DEF TypeOK
    <3> QED BY <1>4, <2>4, <3>2 DEF TableInv, OwnEntries
  <2> QED BY <2>3, <2>4
<1>8. AnswersOwn' BY <1>1, <1>3, <1>4 DEF TableInv, AnswersOwn
<1> QED BY <1>1, <1>3, <1>5, <1>6, <1>7, <1>8, EntryWritten DEF TableInv
LEMMA RestartTable ==
  ASSUME TableInv, Restart
  PROVE  TableInv'
<1>1. /\ TypeOK /\ Queued /\ daemon' = "up" /\ copies' = 0 /\ failures' = 0
      /\ script_hash' = [c \in Conns |-> NoPid] /\ keyIn' = [c \in Conns |-> "none"]
      /\ UNCHANGED <<setting, passes, backlog, clientVars, asks, faults>>
  BY DEF TableInv, Restart
<1>2. TypeOK' BY <1>1 DEF TypeOK, setting, clientVars
<1>3. Queued' BY <1>1 DEF Queued, clientVars
<1>4. OwnEntries'
  <2>1. \A c \in Clients : c[2] \in Conns BY CgidAssumption
  <2>2. \A c \in Clients : script_hash'[c[2]] = NoPid BY <1>1, <2>1
  <2> QED BY <2>2 DEF OwnEntries
<1>5. AnswersOwn' BY <1>1 DEF TableInv, AnswersOwn, setting, clientVars
<1>6. KeysCounted'
  <2>1. Entries' = {} BY <1>1 DEF Entries
  <2>2. Cardinality(Entries') = 0 BY <2>1, FS_EmptySet
  <2> QED BY <1>1, <2>2 DEF KeysCounted
<1> QED BY <1>2, <1>3, <1>4, <1>5, <1>6 DEF TableInv

LEMMA EndsTable ==
  ASSUME TableInv, Ends, faults' \in 0 .. MaxFaults
  PROVE  TableInv'
<1>1. /\ TypeOK /\ daemon' = "down" /\ backlog' = <<>>
      /\ client' = [c \in Clients |-> IF c \in Waiting THEN "refused" ELSE client[c]]
      /\ UNCHANGED <<setting, passes, hashVars, script, answer, asks>>
  BY DEF TableInv, Ends
<1>2. \A c \in Clients : client'[c] \in {"refused", client[c]} BY <1>1
<1>3. TypeOK'
  <2>1. client' \in [Clients -> {"idle", "sent", "served", "asked", "answered", "refused"}]
    BY <1>1 DEF TypeOK
  <2> QED BY <1>1, <2>1 DEF TypeOK, setting, hashVars
<1>4. Queued' BY <1>1 DEF Queued
<1>5. OwnEntries' BY <1>1, <1>2 DEF TableInv, OwnEntries, setting, hashVars
<1>6. AnswersOwn' BY <1>1, <1>2 DEF TableInv, AnswersOwn, setting
<1> QED BY <1>1, <1>3, <1>4, <1>5, <1>6, SameTable DEF TableInv, setting
-----------------------------------------------------------------------------
(* The clients *)

LEMMA AskTable ==
  ASSUME TableInv, NEW c \in Clients, Ask(c)
  PROVE  TableInv'
<1>1. /\ TypeOK /\ Queued /\ client[c] = "idle" /\ asks <= MaxAsks /\ asks' = asks + 1
      /\ Request(c, "CGI") /\ client' = [client EXCEPT ![c] = "sent"]
      /\ script' = [script EXCEPT ![c] = NoPid] /\ answer' = [answer EXCEPT ![c] = NoPid]
      /\ UNCHANGED <<setting, passes, daemon, hashVars, faults>>
  BY DEF TableInv, Ask
<1>2. \A k \in Clients : /\ client'[k] = IF k = c THEN "sent" ELSE client[k]
                         /\ script'[k] = IF k = c THEN NoPid ELSE script[k]
                         /\ answer'[k] = IF k = c THEN NoPid ELSE answer[k]
  BY <1>1 DEF TypeOK
<1>3. backlog' \in Seq(Entry) /\ Queued' BY <1>1, Put
<1>4. TypeOK'
  <2>1. asks' \in 1 .. MaxAsks + 1 BY <1>1, CgidAssumption DEF TypeOK
  <2> QED BY <1>1, <1>3, <2>1 DEF TypeOK, setting, hashVars, Entry
<1>5. OwnEntries' BY <1>1, <1>2 DEF TableInv, OwnEntries, setting, hashVars
<1>6. AnswersOwn' BY <1>1, <1>2 DEF TableInv, AnswersOwn, setting
<1> QED BY <1>1, <1>3, <1>4, <1>5, <1>6, SameTable DEF TableInv, setting

LEMMA AskPidTable ==
  ASSUME TableInv, NEW c \in Clients, AskPid(c)
  PROVE  TableInv'
<1>1. /\ TypeOK /\ Queued /\ client[c] = "served"
      /\ Request(c, "GETPID") /\ client' = [client EXCEPT ![c] = "asked"]
      /\ UNCHANGED <<setting, passes, daemon, hashVars, script, answer, asks, faults>>
  BY DEF TableInv, AskPid
<1>2. \A k \in Clients : client'[k] = IF k = c THEN "asked" ELSE client[k]
  BY <1>1 DEF TypeOK
<1>3. backlog' \in Seq(Entry) /\ Queued' BY <1>1, Put
<1>4. TypeOK' BY <1>1, <1>3 DEF TypeOK, setting, hashVars, Entry
<1>5. OwnEntries' BY <1>1, <1>2 DEF TableInv, OwnEntries, setting, hashVars
<1>6. AnswersOwn' BY <1>1, <1>2 DEF TableInv, AnswersOwn, setting
<1> QED BY <1>1, <1>3, <1>4, <1>5, <1>6, SameTable DEF TableInv, setting

\* A client that is done has nothing on the socket.
LEMMA DoneTable ==
  ASSUME TableInv, NEW c \in Clients, Done(c)
  PROVE  TableInv'
<1>1. /\ TypeOK /\ Queued /\ client[c] \in {"answered", "refused", "served"}
      /\ client' = [client EXCEPT ![c] = "idle"] /\ answer' = [answer EXCEPT ![c] = NoPid]
      /\ UNCHANGED <<setting, passes, daemon, backlog, hashVars, script, asks, faults>>
  BY DEF TableInv, Done
<1>2. \A k \in Clients : /\ client'[k] = IF k = c THEN "idle" ELSE client[k]
                         /\ answer'[k] = IF k = c THEN NoPid ELSE answer[k]
  BY <1>1 DEF TypeOK
<1>3. TypeOK' BY <1>1 DEF TypeOK, setting, hashVars
<1>4. Queued'
  <2>1. \A k \in 1 .. Len(backlog) : backlog[k] \in Entry BY <1>1, ElementOfSeq DEF TypeOK, Entry
  <2>2. \A k \in 1 .. Len(backlog) : backlog[k].from \in Clients \ {c}
    BY <1>1, <2>1 DEF Queued, Entry
  <2> QED BY <1>1, <1>2, <2>2 DEF Queued
<1>5. OwnEntries' BY <1>1, <1>2 DEF TableInv, OwnEntries, setting, hashVars
<1>6. AnswersOwn' BY <1>1, <1>2 DEF TableInv, AnswersOwn, setting
<1> QED BY <1>1, <1>3, <1>4, <1>5, <1>6, SameTable DEF TableInv, setting

LEMMA NextTable ==
  ASSUME TableInv, [Next]_vars
  PROVE  TableInv'
<1>1. CASE UNCHANGED vars
  BY <1>1 DEF vars, setting, hashVars, clientVars, TableInv, TypeOK, Queued, OwnEntries,
              AnswersOwn, KeysCounted, Entries
<1>2. CASE CgidInit
  <2>1. passes' \in 0 .. 2 /\ daemon' \in {"none", "up", "down"}
    BY <1>2 DEF CgidInit, TableInv, TypeOK
  <2>2. UNCHANGED <<setting, backlog, hashVars, clientVars, asks, faults>> BY <1>2 DEF CgidInit
  <2> QED BY <2>1, <2>2 DEF setting, hashVars, clientVars, TableInv, TypeOK, Queued, OwnEntries,
                            AnswersOwn, KeysCounted, Entries
<1>3. CASE Restart BY <1>3, RestartTable
<1>4. CASE Dies
  <2>1. faults' \in 0 .. MaxFaults BY <1>4, CgidAssumption DEF Dies, Fault, TableInv, TypeOK
  <2> QED BY <1>4, <2>1, EndsTable DEF Dies
<1>5. CASE Serve BY <1>5, RefuseTable, GetPidTable, StartScriptTable DEF Serve
<1>6. ASSUME NEW netDown \in BOOLEAN, AcceptFails(netDown)
      PROVE  TableInv'
  <2>1. faults' \in 0 .. MaxFaults BY <1>6, CgidAssumption DEF AcceptFails, Fault, TableInv, TypeOK
  <2>2. CASE Ends BY <2>1, <2>2, EndsTable
  <2>3. CASE UNCHANGED <<setting, passes, daemon, backlog, hashVars, clientVars, asks>>
    BY <2>1, <2>3 DEF setting, hashVars, clientVars, TableInv, TypeOK, Queued, OwnEntries,
                      AnswersOwn, KeysCounted, Entries
  <2> QED BY <1>6, <2>2, <2>3 DEF AcceptFails
<1>7. ASSUME NEW c \in Clients, Ask(c) \/ AskPid(c) \/ Done(c)
      PROVE  TableInv'
  BY <1>7, AskTable, AskPidTable, DoneTable
<1> QED BY <1>1, <1>2, <1>3, <1>4, <1>5, <1>6, <1>7 DEF Next
-----------------------------------------------------------------------------
\* Every reachable state of the daemon, its table and its clients has its types.
THEOREM TypeCorrect == Spec => []TypeOK
<1>1. TableInv => TypeOK BY DEF TableInv
<1> QED BY <1>1, InitTable, NextTable, PTL DEF Spec

\* A client is given the id of its own latest script or none, through failed starts, the
\* daemon's death and another httpd's connections of the same id; the table owns its keys.
THEOREM TableKeptCorrect == Spec => []TableKept
<1>1. TableInv => TableKept
  <2> SUFFICES ASSUME TableInv PROVE KeysOwned
    BY DEF TableInv, TableKept
  <2>1. \A conn \in Conns : keyIn[conn] # "loop" BY DEF TableInv, KeysCounted
  <2>2. IsFiniteSet(Conns) /\ Entries \subseteq Conns BY CgidAssumption DEF Entries
  <2>3. /\ Cardinality(Entries) \in Nat /\ Cardinality(Conns) \in Nat
        /\ Cardinality(Entries) <= Cardinality(Conns)
    BY <2>2, FS_Subset, FS_CardinalityType
  <2>4. copies \in Nat /\ failures \in Nat BY DEF TableInv, TypeOK
  <2>5. version.server.looksFirst => copies <= Cardinality(Conns) + failures
    BY <2>3, <2>4 DEF TableInv, KeysCounted
  <2> QED BY <2>1, <2>5 DEF KeysOwned
<1> QED BY <1>1, InitTable, NextTable, PTL DEF Spec
=============================================================================
