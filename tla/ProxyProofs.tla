---------------------------- MODULE ProxyProofs ----------------------------
(***************************************************************************)
(* The proxy, for every value of the constants.  First a backend's answer: *)
(* the connection is given on once and in order, and what the backend      *)
(* answered reaches the client as it was.  Then the handler, in any number *)
(* of children through any number of restarts: a request ends, it goes to  *)
(* the worker its URL names, and what a child sees of a worker in shared   *)
(* memory is that worker's.                                                *)
(***************************************************************************)
EXTENDS ProxyResponse, ProxyHandler, FiniteSetTheorems, TLAPS

\* The conjuncts of the type invariant, by kind.
Kinds ==
  /\ version \in Versions /\ ask \in Requests
  /\ pc \in {"status", "headers", "answer", "body", "returned"}
  /\ status \in {"none", "100", "103", "200", "204", "error"}
  /\ framing \in {"none", "delimited", "close", "lost"}
  /\ wire \in {"head", "headers", "body", "clean", "astray", "dead"}
  /\ rest \in {"none", "field", "bogus"}
  /\ timeout \in {"old", "ping"} /\ conn \in {"ours", "pool", "shut"}
  /\ mode \in {"nonblock", "block"} /\ body \in {"none", "some", "all"}
  /\ result \in {"none", "OK", "DONE", "502", "503", "504", "error"}
Flags ==
  /\ split \in BOOLEAN /\ saw_headers \in BOOLEAN /\ bb \in BOOLEAN
  /\ do_100_continue \in BOOLEAN /\ close \in BOOLEAN /\ backend_broke \in BOOLEAN
  /\ aborted \in BOOLEAN /\ sent \in BOOLEAN /\ told \in BOOLEAN /\ refused \in BOOLEAN
Counts == interim_response \in 0 .. MaxInterim /\ detached \in 0 .. 1 /\ nth \in Nat
Sets ==
  /\ save_table \subseteq Nat /\ cookies \subseteq Nat
  /\ received \subseteq Nat /\ given \subseteq Nat

\* Until it returns the function has its connection, has told the client nothing and has
\* not had its last interim response.
Inside ==
  /\ pc # "returned" => conn = "ours" /\ result = "none" /\ interim_response < MaxInterim
  /\ pc \in {"status", "headers", "answer"} => ~sent
  /\ pc # "returned" => ~told /\ ~refused

\* What is read, and how what is still to be read ends.
Reading ==
  /\ pc = "answer" => wire \in {"clean", "astray", "dead"} \/ wire = WireAfter(status)
  /\ pc = "body" => wire \notin {"head", "headers"}
  /\ pc \in {"headers", "answer"} /\ WireAfter(status) = "body" => framing # "none"
  /\ pc = "body" => framing # "none"
  /\ timeout = "ping" => do_100_continue /\ version.answer.pings

\* Where the cookies of the response that is read may be, and those of former ones.
Cookies ==
  /\ pc \in {"status", "answer", "body"} => save_table = {}
  /\ \A k \in received : k <= nth
  /\ pc = "status" => nth \notin received
  /\ pc = "headers" => nth \notin given \cup save_table

Lines == version.skips => rest # "field" /\ ~split

IInv ==
  /\ TypeOK /\ DetachedOnce /\ Reusable /\ ClientTold /\ CookiesGivenOnce
  /\ Inside /\ Reading /\ Cookies /\ Lines
-----------------------------------------------------------------------------
LEMMA Kindwise == TypeOK <=> Kinds /\ Flags /\ Counts /\ Sets
  BY Zenon DEF TypeOK, Kinds, Flags, Counts, Sets

LEMMA Initially == Init => IInv
<1> SUFFICES ASSUME Init PROVE IInv
    OBVIOUS
<1> USE ResponseAssumption DEF Init
<1>1. ask.do_100_continue \in BOOLEAN
  OBVIOUS
<1>2. Kinds
  BY DEF Kinds
<1>3. Flags
  BY <1>1 DEF Flags
<1>4. Counts /\ Sets
  BY DEF Counts, Sets
<1>5. DetachedOnce /\ Reusable /\ ClientTold /\ CookiesGivenOnce
  BY DEF DetachedOnce, Reusable, ClientTold, CookiesGivenOnce
<1>6. Inside /\ Reading /\ Cookies /\ Lines
  BY DEF Inside, Reading, Cookies, Lines
<1>7. QED
  BY <1>2, <1>3, <1>4, <1>5, <1>6, Kindwise DEF IInv

\* A step preserves the conjuncts, each from those it needs: one leaf goes through all
\* actions.
LEMMA Stepwise == IInv /\ Next => IInv'
<1> SUFFICES ASSUME IInv, Next PROVE IInv'
    OBVIOUS
<1> USE DEF Next, ReadHead, StatusFails, StatusCorrupt, StatusLine, Backasswards, EndOfHeaders,
  HeadersCut, Malformed, Field, LongField, BadIsError, BadIsBody, BadIsIgnored, HeadersRead,
  Takes, CookiesWith, TellsEnd, Outcomes, Detach, Return, Interim, Error, Bodiless, WireAfter, loopVars, connVars, cookieVars,
  endVars, clientVars
<1> USE DEF Answer, InterimResponse, ErrorOverride, StartBody, HeaderOnly, BodyWaits, BodyData,
  BodyEnds, BodyEof, BodyFails, MaySend, Forwards, ClearsHeaders, EndsBefore, Overridden, Pass,
  Stops, Gone, ClosesIfOurs, Release, PassBody, bodyFrame, Leave, StopsOrGoesOn
<1>1. Kinds /\ Flags /\ Counts /\ Sets
  BY Kindwise DEF IInv
<1>2. Kinds'
  BY <1>1 DEF Kinds
<1>3. Flags'
  <2>1. split' \in BOOLEAN
    BY <1>1 DEF Flags
  <2>2. saw_headers' \in BOOLEAN /\ bb' \in BOOLEAN
    BY <1>1 DEF Flags
  <2>3. do_100_continue' \in BOOLEAN
    BY <1>1 DEF Flags
  <2>4. close' \in BOOLEAN
    BY <1>1 DEF Flags
  <2>5. backend_broke' \in BOOLEAN
    BY <1>1 DEF Flags
  <2>6. aborted' \in BOOLEAN
    BY <1>1 DEF Flags
  <2>7. sent' \in BOOLEAN
    BY <1>1 DEF Flags
  <2>8. told' \in BOOLEAN /\ refused' \in BOOLEAN
    BY <1>1 DEF Flags
  <2>9. QED
    BY <2>1, <2>2, <2>3, <2>4, <2>5, <2>6, <2>7, <2>8 DEF Flags
<1>4. Counts'
  BY <1>1, ResponseAssumption DEF IInv, Inside, DetachedOnce, Counts
<1>5. Sets'
  BY <1>1 DEF Sets, Counts
<1>6. DetachedOnce'
  BY <1>1 DEF IInv, Inside, DetachedOnce, Counts
<1>7. Inside'
  BY <1>1, ResponseAssumption DEF IInv, Inside, Counts, Kinds, Flags
<1>8. Reading'
  BY <1>1 DEF IInv, Reading, Inside, Kinds, Flags
<1>9. Cookies'
  <2>1. (pc \in {"status", "answer", "body"} => save_table = {})'
    BY <1>1 DEF IInv, Cookies, Kinds
  <2>2. (\A k \in received : k <= nth)'
    <3>1. received' \subseteq received \cup {nth}
      OBVIOUS
    <3>2. nth' = nth \/ nth' = nth + 1
      OBVIOUS
    <3> HIDE DEF Next
    <3>3. QED
      BY <1>1, <3>1, <3>2 DEF IInv, Cookies, Counts, Sets
  <2>3. (pc = "status" => nth \notin received)'
    BY <1>1 DEF IInv, Cookies, Counts, Sets
  <2>4. (pc = "headers" => nth \notin given \cup save_table)'
    <3>1. CASE pc = "headers"
      BY <1>1, <3>1 DEF IInv, Cookies
    <3>2. CASE pc = "status"
      <4>1. nth \notin given \cup cookies
        BY <3>2 DEF IInv, Cookies, CookiesGivenOnce, Inside
      <4>2. pc' = "headers" => given' = given /\ save_table' = cookies /\ nth' = nth
        BY <3>2
      <4>3. QED
        BY <4>1, <4>2
    <3>3. QED
      BY <3>1, <3>2
  <2>5. QED
    BY <2>1, <2>2, <2>3, <2>4 DEF Cookies
<1>10. CookiesGivenOnce'
  BY <1>1 DEF IInv, CookiesGivenOnce, Cookies, Inside, Kinds
<1>11. Lines'
  BY <1>1 DEF IInv, Lines, Flags
<1>12. Reusable'
  <2>1. (~close /\ conn = "pool" => wire \notin {"head", "headers", "body"})'
    BY <1>1 DEF IInv, Reusable, Reading, Inside, Kinds, Flags
  <2>2. (~close /\ result \in {"OK", "DONE"} => wire \notin {"head", "headers", "body"})'
    <3>1. CASE ReadHead
      BY <1>1, <3>1 DEF IInv, Reusable, Inside, Kinds, Flags
    <3>2. ASSUME NEW outcome \in Outcomes, BodyWaits(outcome) \/ BodyData(outcome)
          PROVE  result' \in {"OK", "DONE"} => close'
      BY <1>1, <3>2 DEF IInv, Inside
    <3>3. ASSUME NEW outcome \in Outcomes, BodyEnds(outcome)
          PROVE  wire' \notin {"head", "headers", "body"}
      BY <1>1, <3>3 DEF IInv, Reading
    <3>4. ASSUME NEW outcome \in Outcomes, HeaderOnly(outcome)
          PROVE  wire' \notin {"head", "headers", "body"}
      BY <1>1, <3>4 DEF IInv, Reading
    <3>5. CASE BodyEof \/ \E outcome \in Outcomes : BodyFails(outcome)
      BY <3>5
    <3>6. CASE ErrorOverride \/ StartBody \/ \E outcome \in Outcomes : InterimResponse(outcome)
      BY <1>1, <3>6 DEF IInv, Inside
    <3> HIDE DEF ReadHead, BodyWaits, BodyData, BodyEnds, HeaderOnly, BodyEof, BodyFails,
             ErrorOverride, StartBody, InterimResponse
    <3>7. QED
      BY <3>1, <3>2, <3>3, <3>4, <3>5, <3>6
  <2>3. (conn = "pool" /\ ~do_100_continue => timeout = "old")'
    BY <1>1 DEF IInv, Reusable, Reading, Inside, Kinds, Flags
  <2>4. QED
    BY <2>1, <2>2, <2>3 DEF Reusable
<1>13. ClientTold'
  <2>1. (result = "OK" /\ version.answer.frames /\ framing # "lost"
           => body = "all" \/ told \/ bb \/ refused)'
    BY <1>1, ZenonT(60) DEF IInv, ClientTold, Reading, Inside, Kinds, Flags
  <2>2. (result = "DONE" => aborted \/ (backend_broke /\ (told \/ refused)))'
    BY <1>1, ZenonT(60) DEF IInv, ClientTold, Inside, Kinds, Flags
  <2>3. (result \in {"502", "503", "504", "error"} => ~sent /\ ~told /\ ~refused)'
    BY <1>1 DEF IInv, ClientTold, Inside, Kinds, Flags
  <2>4. QED
    BY <2>1, <2>2, <2>3 DEF ClientTold
<1>14. TypeOK'
  <2> HIDE DEF Next
  <2> QED
    BY <1>2, <1>3, <1>4, <1>5, Zenon DEF TypeOK, Kinds, Flags, Counts, Sets
<1>15. QED
  BY <1>6, <1>7, <1>8, <1>9, <1>10, <1>11, <1>12, <1>13, <1>14 DEF IInv

LEMMA Stutter == IInv /\ UNCHANGED vars => IInv'
  BY DEF IInv, vars, loopVars, connVars, cookieVars, endVars, clientVars, TypeOK, DetachedOnce,
     Reusable, ClientTold, CookiesGivenOnce, Inside, Reading, Cookies, Lines, WireAfter, Bodiless,
     Interim

LEMMA Always == Spec => []IInv
<1>1. IInv /\ [Next]_vars => IInv'
  BY Stepwise, Stutter
<1>2. QED
  BY <1>1, Initially, PTL DEF Spec

\* Only the two releases change whose the connection is.
LEMMA Released == IInv /\ [Next]_vars => (conn' # "ours" => close' = close /\ timeout' = timeout)
<1> SUFFICES ASSUME IInv, [Next]_vars, conn' # "ours" PROVE close' = close /\ timeout' = timeout
    OBVIOUS
<1>1. Kinds /\ Flags
  BY Kindwise DEF IInv
<1>2. CASE UNCHANGED vars
  BY <1>2 DEF vars, connVars
<1>3. CASE ReadHead
  BY <1>1, <1>3 DEF IInv, Inside, ReadHead, StatusFails, StatusCorrupt, StatusLine, Backasswards,
     EndOfHeaders, HeadersCut, Malformed, Field, LongField, BadIsError, BadIsBody, BadIsIgnored,
     connVars
<1>4. CASE Answer
  BY <1>1, <1>4 DEF IInv, Inside, Flags, Answer, InterimResponse, ErrorOverride, StartBody,
     HeaderOnly, BodyWaits, BodyData, BodyEnds, BodyEof, BodyFails, PassBody, ClosesIfOurs,
     connVars, bodyFrame
<1>5. QED
  BY <1>2, <1>3, <1>4 DEF Next
-----------------------------------------------------------------------------
\* The types, for every number of interim responses.
THEOREM TypeCorrect == Spec => []TypeOK
  BY Always, PTL DEF IInv

\* Whatever the backend answers and whenever the client goes away, the connection is
\* detached once, given on with nothing left on it, and left alone after that.
THEOREM ConnectionKeptCorrect == Spec => ConnectionKept
<1>1. IInv => DetachedOnce /\ Reusable
  BY DEF IInv
<1>2. IInv /\ [Next]_vars => [conn' # "ours" => close' = close /\ timeout' = timeout]_vars
  BY Released
<1>3. QED
  BY <1>1, <1>2, Always, PTL DEF Spec, ConnectionKept, LetsGo

\* The client is told how its request ended, but for what a filter refused while the client
\* was there; it gets each cookie once, and the rest of a header never for another.
THEOREM AnswerKeptCorrect == Spec => []AnswerKept
<1>1. IInv => AnswerKept
  BY DEF IInv, AnswerKept, Lines, LinesWhole
<1>2. QED
  BY <1>1, Always, PTL
-----------------------------------------------------------------------------
(* The workers in shared memory. *)

Names == UNION {{c.workers[i] : i \in DOMAIN c.workers} : c \in Configurations}
Methods == UNION {c.providers : c \in Configurations}
Cells == [name : Names \cup {None}, mark : Names \cup {None}, index : Nat, secure : BOOLEAN]
SegmentRecords == [slots : Seq(Cells), method : Methods \cup {None}, nonce : Nat \cup {None}]
ChildRecords ==
  UNION {[gen : 0 .. MaxGeneration, workers : {c.workers}, seg : Segments,
          at : [DOMAIN c.workers -> Nat], own : [DOMAIN c.workers -> Cells],
          lbmethod : Methods \cup {None}] : c \in Configurations}

SlotsTyped ==
  /\ copy \in KnownVersions /\ slotname \in SlotNames
  /\ gen \in 0 .. MaxGeneration /\ phase \in {"config", "running", "stopped"}
  /\ conf \in Configurations
  /\ files \in [FileNames -> Segments \cup {None}]
  /\ segs \in [Segments -> SegmentRecords]
  /\ seg \in Segments \cup {None}
  /\ at \in [DOMAIN conf.workers -> Nat] /\ own \in [DOMAIN conf.workers -> Cells]
  /\ shared \subseteq DOMAIN conf.workers
  /\ balshared \in BOOLEAN /\ lbmethod \in Methods \cup {None}
  /\ children \in [Children -> ChildRecords \cup {NoChild}]
  /\ shared # {} \/ balshared => seg # None
  /\ phase = "running" => balshared /\ shared = DOMAIN conf.workers

\* A child is a child.
LEMMA ChildThere ==
  ASSUME SlotsTyped, NEW c \in Alive
  PROVE  /\ c \in Children /\ children[c] \in ChildRecords
         /\ DOMAIN children[c].workers \subseteq 1 .. MaxWorkers
         /\ children[c].at \in [DOMAIN children[c].workers -> Nat]
         /\ children[c].own \in [DOMAIN children[c].workers -> Cells]
         /\ children[c].seg \in Segments /\ children[c].gen \in 0 .. MaxGeneration
         /\ children[c].lbmethod \in Methods \cup {None}
         /\ \A i \in DOMAIN children[c].workers :
              children[c].workers[i] \in Names /\ children[c].workers[i] # None
<1>1. c \in Children /\ children[c] \in ChildRecords BY DEF Alive, SlotsTyped
<1>2. PICK g \in Configurations :
        children[c] \in [gen : 0 .. MaxGeneration, workers : {g.workers}, seg : Segments,
          at : [DOMAIN g.workers -> Nat], own : [DOMAIN g.workers -> Cells],
          lbmethod : Methods \cup {None}]
  BY <1>1 DEF ChildRecords
<1>3. children[c].workers = g.workers BY <1>2
<1>4. /\ Len(g.workers) \in 0 .. MaxWorkers /\ DOMAIN g.workers = 1 .. Len(g.workers)
      /\ MaxWorkers \in Nat /\ \A i \in DOMAIN g.workers : g.workers[i] # None
  BY SlotsAssumption
<1>5. \A i \in DOMAIN g.workers : g.workers[i] \in Names BY DEF Names
<1>6. DOMAIN g.workers \subseteq 1 .. MaxWorkers BY <1>4
<1> QED BY <1>1, <1>2, <1>3, <1>4, <1>5, <1>6

LEMMA ConfThere ==
  ASSUME NEW c \in Configurations
  PROVE  /\ DOMAIN c.workers = 1 .. Len(c.workers) /\ Len(c.workers) \in 0 .. MaxWorkers
         /\ c.method \in c.providers /\ c.method \in Methods /\ None \notin Methods
         /\ \A i \in DOMAIN c.workers : c.workers[i] \in Names /\ c.workers[i] # None
         /\ Define(c.workers) \in [DOMAIN c.workers -> Cells]
         /\ \A n \in c.providers : n \in Methods
<1>1. /\ DOMAIN c.workers = 1 .. Len(c.workers) /\ Len(c.workers) \in 0 .. MaxWorkers
      /\ c.method \in c.providers
      /\ \A i \in DOMAIN c.workers : c.workers[i] # None
  BY SlotsAssumption
<1>2. \A i \in DOMAIN c.workers : c.workers[i] \in Names BY DEF Names
<1>3. (\A n \in c.providers : n \in Methods) /\ None \notin Methods
  BY SlotsAssumption DEF Methods
<1>4. Define(c.workers) \in [DOMAIN c.workers -> Cells] BY <1>2 DEF Define, Cells
<1> QED BY <1>1, <1>2, <1>3, <1>4

LEMMA EmptyThere ==
  ASSUME NEW n \in Nat
  PROVE  /\ EmptySegment(n) \in SegmentRecords /\ EmptySegment(n).method = None
         /\ DOMAIN EmptySegment(n).slots = 1 .. n
         /\ \A k \in 1 .. n : EmptySegment(n).slots[k] = Unset
<1>1. Unset \in Cells BY DEF Unset, Cells
<1>2. [k \in 1 .. n |-> Unset] \in Seq(Cells) BY <1>1
<1> QED BY <1>2 DEF EmptySegment, SegmentRecords

\* What a child writes into the record of a worker, wherever the record is.
LEMMA WriteTyped ==
  ASSUME SlotsTyped, NEW c \in Alive, NEW i \in DOMAIN children[c].workers, NEW cell \in Cells,
         children[c].at[i] = 0 \/ children[c].at[i] \in DOMAIN segs[children[c].seg].slots,
         Write(c, i, cell)
  PROVE  /\ segs' \in [Segments -> SegmentRecords]
         /\ children' \in [Children -> ChildRecords \cup {NoChild}]
         /\ Alive' = Alive
         /\ \A s \in Segments : segs'[s].method = segs[s].method
                                /\ DOMAIN segs'[s].slots = DOMAIN segs[s].slots
         /\ \A d \in Alive : /\ children'[d].workers = children[d].workers
                             /\ children'[d].seg = children[d].seg
                             /\ children'[d].at = children[d].at
                             /\ children'[d].gen = children[d].gen
                             /\ children'[d].lbmethod = children[d].lbmethod
<1>0. /\ c \in Children /\ children[c] \in ChildRecords /\ children[c].seg \in Segments
      /\ children \in [Children -> ChildRecords \cup {NoChild}]
      /\ segs \in [Segments -> SegmentRecords]
  BY ChildThere DEF SlotsTyped
<1>1. CASE children[c].at[i] = 0
  <2>1. children' = [children EXCEPT ![c].own[i] = cell] /\ segs' = segs
    BY <1>1 DEF Write
  <2>2. PICK g \in Configurations :
          children[c] \in [gen : 0 .. MaxGeneration, workers : {g.workers}, seg : Segments,
            at : [DOMAIN g.workers -> Nat], own : [DOMAIN g.workers -> Cells],
            lbmethod : Methods \cup {None}]
    BY <1>0 DEF ChildRecords
  <2> DEFINE r == [children[c] EXCEPT !.own[i] = cell]
  <2>3. /\ r \in [gen : 0 .. MaxGeneration, workers : {g.workers}, seg : Segments,
                  at : [DOMAIN g.workers -> Nat], own : [DOMAIN g.workers -> Cells],
                  lbmethod : Methods \cup {None}]
        /\ r.workers = children[c].workers /\ r.seg = children[c].seg /\ r.at = children[c].at
        /\ r.gen = children[c].gen /\ r.lbmethod = children[c].lbmethod
    BY <2>2
  <2>4. children'[c] = r /\ \A d \in Children : d # c => children'[d] = children[d]
    BY <1>0, <2>1
  <2>5. r \in ChildRecords BY <2>3 DEF ChildRecords
  <2>6. r # NoChild
    <3>1. r.gen # -1 BY <2>3, SlotsAssumption
    <3> QED BY <3>1 DEF NoChild
  <2>7. children' = [children EXCEPT ![c] = r] BY <2>1
  <2> HIDE DEF r
  <2>8. children' \in [Children -> ChildRecords \cup {NoChild}] BY <1>0, <2>5, <2>7
  <2>9. Alive' = Alive BY <2>4, <2>6 DEF Alive
  <2> QED BY <1>0, <2>1, <2>3, <2>4, <2>8, <2>9 DEF Alive
<1>2. CASE children[c].at[i] # 0
  <2>1. /\ segs' = [segs EXCEPT ![children[c].seg].slots[children[c].at[i]] = cell]
        /\ children' = children /\ children[c].at[i] \in DOMAIN segs[children[c].seg].slots
    BY <1>2 DEF Write
  <2>2. Alive' = Alive BY <2>1 DEF Alive
  <2>3. segs[children[c].seg] \in SegmentRecords BY <1>0
  <2> DEFINE r == [segs[children[c].seg] EXCEPT !.slots[children[c].at[i]] = cell]
  <2>4. /\ r \in SegmentRecords /\ r.method = segs[children[c].seg].method
        /\ DOMAIN r.slots = DOMAIN segs[children[c].seg].slots
    BY <2>1, <2>3 DEF SegmentRecords
  <2>5. segs' = [segs EXCEPT ![children[c].seg] = r] BY <2>1
  <2> HIDE DEF r
  <2>6. segs' \in [Segments -> SegmentRecords] BY <1>0, <2>4, <2>5
  <2>7. \A s \in Segments : segs'[s].method = segs[s].method
                            /\ DOMAIN segs'[s].slots = DOMAIN segs[s].slots
    BY <1>0, <2>4, <2>5
  <2> QED BY <1>0, <2>1, <2>2, <2>6, <2>7
<1> QED BY <1>1, <1>2

\* A worker is in its slot, or has its own record.
Placed ==
  /\ \A i \in DOMAIN conf.workers : i \notin shared => at[i] = 0
  /\ \A i \in DOMAIN conf.workers : at[i] # 0 => at[i] \in DOMAIN segs[seg].slots
  /\ \A c \in Alive : \A i \in DOMAIN children[c].workers :
       children[c].at[i] # 0 => children[c].at[i] \in DOMAIN segs[children[c].seg].slots

SlotsInv == SlotsTyped /\ Placed

LEMMA InitSlots == SlotsInit => SlotsInv
<1> SUFFICES ASSUME SlotsInit PROVE SlotsInv OBVIOUS
<1>1. /\ copy \in KnownVersions /\ slotname \in SlotNames /\ gen = 0 /\ phase = "config"
      /\ seg = None /\ shared = {} /\ balshared = FALSE
  BY DEF SlotsInit
<1>2. /\ conf \in Configurations /\ at = [i \in DOMAIN conf.workers |-> 0]
      /\ own = Define(conf.workers) /\ lbmethod = conf.method
  BY DEF SlotsInit
<1>3. own \in [DOMAIN conf.workers -> Cells] /\ lbmethod \in Methods BY <1>2, ConfThere
<1>4. files \in [FileNames -> Segments \cup {None}] BY DEF SlotsInit
<1>5. segs \in [Segments -> SegmentRecords] BY EmptyThere DEF SlotsInit
<1>6. Alive = {} /\ children \in [Children -> ChildRecords \cup {NoChild}]
  BY DEF SlotsInit, Alive
<1>7. gen \in 0 .. MaxGeneration BY <1>1, SlotsAssumption
<1>8. SlotsTyped BY <1>1, <1>2, <1>3, <1>4, <1>5, <1>6, <1>7 DEF SlotsTyped
<1> QED BY <1>1, <1>2, <1>6, <1>8 DEF SlotsInv, Placed

\* A new segment is nobody's.
LEMMA SegmentFree ==
  ASSUME SlotsInv, Create
  PROVE  /\ seg' \in Segments /\ seg' # None /\ seg = None
         /\ \A c \in Alive : children[c].seg # seg'
         /\ segs' = [segs EXCEPT ![seg'] = EmptySegment(Len(conf.workers))]
<1>1. seg' \in Segments \ InUse BY DEF Create
<1>2. seg' # None BY <1>1, SlotsAssumption
<1>3. \A c \in Alive : children[c].seg \in InUse BY DEF InUse, Alive
<1> QED BY <1>1, <1>2, <1>3 DEF Create

LEMMA StepSegment ==
  ASSUME SlotsInv, Attach \/ Create \/ StartFails \/ Start
  PROVE  SlotsInv'
<1>t. SlotsTyped /\ Placed BY DEF SlotsInv
<1>1. UNCHANGED <<copy, slotname, gen, conf, at, own, shared, balshared, lbmethod, children>>
  BY DEF Attach, Create, StartFails, Start, parent, sharing
<1>2. Alive' = Alive BY <1>1 DEF Alive
<1>3. CASE Attach
  <2>1. UNCHANGED <<phase, files, segs>> BY <1>3 DEF Attach, parent
  <2>2. FileName(gen) \in FileNames
    BY <1>t, SlotsAssumption DEF FileName, FileNames, SlotsTyped
  <2>3. seg' \in Segments /\ (seg # None => seg' = seg)
    <3>1. CASE Listed BY <1>3, <1>t, <3>1 DEF Attach, Listed, SlotsTyped
    <3>2. CASE ~Listed
      BY <1>3, <1>t, <2>2, <3>2 DEF Attach, Listed, SlotsTyped
    <3> QED BY <3>1, <3>2
  <2>4. seg' # None BY <2>3, SlotsAssumption
  <2>5. SlotsTyped' BY <1>t, <1>1, <2>1, <2>3, <2>4 DEF SlotsTyped
  <2>6. Placed'
    <3>1. CASE seg = None BY <1>t, <1>1, <1>2, <2>1, <3>1 DEF Placed, SlotsTyped
    <3>2. CASE seg # None BY <1>t, <1>1, <1>2, <2>1, <2>3, <3>2 DEF Placed
    <3> QED BY <3>1, <3>2
  <2> QED BY <2>5, <2>6 DEF SlotsInv
<1>4. CASE Create
  <2>1. /\ seg' \in Segments /\ seg' # None /\ seg = None
        /\ \A c \in Alive : children[c].seg # seg'
        /\ segs' = [segs EXCEPT ![seg'] = EmptySegment(Len(conf.workers))]
    BY <1>4, SegmentFree
  <2>2. EmptySegment(Len(conf.workers)) \in SegmentRecords
    BY <1>t, ConfThere, EmptyThere DEF SlotsTyped
  <2>3. segs' \in [Segments -> SegmentRecords] BY <1>t, <2>1, <2>2 DEF SlotsTyped
  <2>4. files' \in [FileNames -> Segments \cup {None}]
    BY <1>t, <1>4, <2>1 DEF Create, SlotsTyped
  <2>5. shared = {} /\ ~balshared BY <1>t, <2>1 DEF SlotsTyped
  <2>6. phase' = phase BY <1>4 DEF Create, parent
  <2>7. SlotsTyped' BY <1>t, <1>1, <2>1, <2>3, <2>4, <2>5, <2>6 DEF SlotsTyped
  <2>8. \A c \in Alive : segs'[children[c].seg] = segs[children[c].seg]
    BY <1>t, <2>1, ChildThere DEF SlotsTyped
  <2>9. \A i \in DOMAIN conf.workers : at[i] = 0 BY <1>t, <2>5 DEF Placed
  <2>10. Placed' BY <1>t, <1>1, <1>2, <2>8, <2>9 DEF Placed
  <2> QED BY <2>7, <2>10 DEF SlotsInv
<1>5. CASE StartFails \/ Start
  <2>1. UNCHANGED <<files, segs, seg>> BY <1>5 DEF StartFails, Start, sharing
  <2>2. phase' = "stopped" \/ (phase' = "running" /\ balshared /\ shared = DOMAIN conf.workers)
    BY <1>5 DEF StartFails, Start
  <2>3. SlotsTyped' BY <1>t, <1>1, <2>1, <2>2 DEF SlotsTyped
  <2>4. Placed' BY <1>t, <1>1, <1>2, <2>1 DEF Placed
  <2> QED BY <2>3, <2>4 DEF SlotsInv
<1> QED BY <1>3, <1>4, <1>5

\* What sharing a worker does to the slots.
LEMMA SharedThere ==
  ASSUME SlotsInv, NEW i \in DOMAIN conf.workers, NEW k \in 1 .. MaxWorkers, ShareWorker(i, k),
         copy.share.copies # "back"
  PROVE  /\ seg \in Segments /\ k \in DOMAIN segs[seg].slots /\ k \in Nat \ {0}
         /\ at' = [at EXCEPT ![i] = k] /\ own' = own
         /\ \E cell \in Cells :
              /\ cell = [Shared(copy.share.copies, segs[seg].slots[k], own[i]) EXCEPT !.index = k]
              /\ segs' = [segs EXCEPT ![seg].slots[k] = cell]
<1>t. SlotsTyped BY DEF SlotsInv
<1>1. seg \in Segments /\ k \in DOMAIN segs[seg].slots BY <1>t DEF ShareWorker, SlotsTyped
<1>2. segs[seg].slots[k] \in Cells /\ own[i] \in Cells
  BY <1>t, <1>1 DEF SlotsTyped, SegmentRecords
<1>3. Shared(copy.share.copies, segs[seg].slots[k], own[i]) \in Cells BY <1>2 DEF Shared
<1>4. k \in Nat \ {0} BY SlotsAssumption
<1>5. [Shared(copy.share.copies, segs[seg].slots[k], own[i]) EXCEPT !.index = k] \in Cells
  BY <1>3, <1>4 DEF Cells
<1> QED BY <1>1, <1>4, <1>5 DEF ShareWorker

LEMMA StepShareWorker ==
  ASSUME SlotsInv, NEW i \in DOMAIN conf.workers, NEW k \in 1 .. MaxWorkers, ShareWorker(i, k)
  PROVE  SlotsInv'
<1>t. SlotsTyped /\ Placed BY DEF SlotsInv
<1>1. /\ UNCHANGED <<copy, slotname, gen, conf, files, seg, balshared, lbmethod, children>>
      /\ seg # None /\ shared' = shared \cup {i} /\ phase' \in {"config", "stopped"}
      /\ phase = "config" /\ i \notin shared
  BY DEF ShareWorker
<1>2. Alive' = Alive BY <1>1 DEF Alive
<1>3. CASE copy.share.copies = "back"
  <2>1. at' = at /\ segs' = segs BY <1>3 DEF ShareWorker
  <2>2. own' \in [DOMAIN conf.workers -> Cells]
    <3>1. seg \in Segments /\ k \in DOMAIN segs[seg].slots /\ k \in Nat
      BY <1>t, SlotsAssumption DEF ShareWorker, SlotsTyped
    <3>2. segs[seg].slots[k] \in Cells BY <1>t, <3>1 DEF SlotsTyped, SegmentRecords
    <3>3. [segs[seg].slots[k] EXCEPT !.index = k] \in Cells BY <3>1, <3>2 DEF Cells
    <3>4. own' = [own EXCEPT ![i] = [segs[seg].slots[k] EXCEPT !.index = k]]
      BY <1>3 DEF ShareWorker
    <3> QED BY <1>t, <3>3, <3>4 DEF SlotsTyped
  <2>3. SlotsTyped' BY <1>t, <1>1, <2>1, <2>2 DEF SlotsTyped
  <2>4. Placed' BY <1>t, <1>1, <1>2, <2>1 DEF Placed
  <2> QED BY <2>3, <2>4 DEF SlotsInv
<1>4. CASE copy.share.copies # "back"
  <2>1. seg \in Segments /\ k \in DOMAIN segs[seg].slots /\ k \in Nat \ {0}
        /\ at' = [at EXCEPT ![i] = k] /\ own' = own
    BY <1>4, SharedThere
  <2>2. PICK cell \in Cells : segs' = [segs EXCEPT ![seg].slots[k] = cell]
    BY <1>4, SharedThere
  <2> DEFINE r == [segs[seg] EXCEPT !.slots[k] = cell]
  <2>q. segs[seg] \in SegmentRecords BY <1>t, <2>1 DEF SlotsTyped
  <2>r. r \in SegmentRecords /\ DOMAIN r.slots = DOMAIN segs[seg].slots
    BY <2>1, <2>q DEF SegmentRecords
  <2>s. segs' = [segs EXCEPT ![seg] = r] BY <2>2
  <2> HIDE DEF r
  <2>3. segs' \in [Segments -> SegmentRecords] BY <1>t, <2>1, <2>r, <2>s DEF SlotsTyped
  <2>4. \A s \in Segments : DOMAIN segs'[s].slots = DOMAIN segs[s].slots
    BY <1>t, <2>1, <2>r, <2>s DEF SlotsTyped
  <2>5. at' \in [DOMAIN conf.workers -> Nat] BY <1>t, <2>1 DEF SlotsTyped
  <2>6. SlotsTyped' BY <1>t, <1>1, <2>1, <2>3, <2>5 DEF SlotsTyped
  <2>7. \A c \in Alive : children[c].seg \in Segments BY <1>t, ChildThere
  <2>8. /\ at'[i] = k /\ \A j \in DOMAIN conf.workers : j # i => at'[j] = at[j]
    BY <1>t, <2>1 DEF SlotsTyped
  <2>9. Placed' BY <1>t, <1>1, <1>2, <2>1, <2>4, <2>7, <2>8 DEF Placed
  <2> QED BY <2>6, <2>9 DEF SlotsInv
<1> QED BY <1>3, <1>4

\* What sharing the balancer does.
LEMMA BalancerThere ==
  ASSUME SlotsInv, ShareBalancer
  PROVE  \E name \in Methods \cup {None} :
           /\ name = IF copy.balancer.copies = "always" \/ segs[seg].method = None
                     THEN conf.method ELSE segs[seg].method
           /\ lbmethod' = MethodFound(name) /\ lbmethod' \in Methods \cup {None}
           /\ phase' \in {"config", "stopped"}
           /\ name \notin conf.providers /\ copy.balancer.method = "error" => phase' = "stopped"
           /\ seg \in Segments
           /\ segs' \in [Segments -> SegmentRecords] /\ segs'[seg].method = name
           /\ \A s \in Segments : segs'[s].slots = segs[s].slots
           /\ \A s \in Segments : s # seg => segs'[s] = segs[s]
<1>t. SlotsTyped BY DEF SlotsInv
<1> DEFINE copied == copy.balancer.copies = "always" \/ segs[seg].method = None
           name == IF copied THEN conf.method ELSE segs[seg].method
<1>1. seg \in Segments /\ segs[seg] \in SegmentRecords BY <1>t DEF ShareBalancer, SlotsTyped
<1>2. name \in Methods \cup {None}
  BY <1>t, <1>1, ConfThere DEF SlotsTyped, SegmentRecords
<1>3. lbmethod' = MethodFound(name) BY DEF ShareBalancer
<1>4. lbmethod' \in Methods \cup {None} BY <1>t, <1>2, <1>3, ConfThere DEF MethodFound, SlotsTyped
<1>5. phase' \in {"config", "stopped"} /\ (name \notin conf.providers /\ copy.balancer.method = "error" => phase' = "stopped")
  BY DEF ShareBalancer
<1>6. PICK nonce \in Nat \cup {None} : segs' = [segs EXCEPT ![seg].method = name, ![seg].nonce = nonce]
  <2>1. segs[seg].nonce \in Nat \cup {None} /\ gen \in Nat
    BY <1>t, <1>1, SlotsAssumption DEF SegmentRecords, SlotsTyped
  <2>2. segs' = [segs EXCEPT ![seg].method = name,
                             ![seg].nonce = IF copied \/ segs[seg].nonce = None THEN gen ELSE segs[seg].nonce]
    BY <1>t, <1>1 DEF ShareBalancer, SlotsTyped, SegmentRecords
  <2> QED BY <2>1, <2>2
<1> HIDE DEF name
<1>7. /\ segs' \in [Segments -> SegmentRecords] /\ segs'[seg].method = name
      /\ \A s \in Segments : segs'[s].slots = segs[s].slots
      /\ \A s \in Segments : s # seg => segs'[s] = segs[s]
  BY <1>t, <1>1, <1>2, <1>6 DEF SlotsTyped, SegmentRecords
<1> QED BY <1>1, <1>2, <1>3, <1>4, <1>5, <1>7 DEF name
-----------------------------------------------------------------------------
(* The worker for a URL.  What the loop has found is a function of where it *)
(* is, so what holds of it is proved along the list.  The library states   *)
(* induction for a predicate; for a set it follows from the principle of    *)
(* pigeonholes: if n were the first left out, k -> k + 1 would put all of   *)
(* the set below n into one place less.                                    *)
LEMMA Inductive ==
  ASSUME NEW P, 0 \in P, \A n \in Nat : n \in P => n + 1 \in P
  PROVE  \A n \in Nat : n \in P
<1> SUFFICES ASSUME NEW n \in Nat, n \notin P PROVE FALSE OBVIOUS
<1> DEFINE A == P \cap (0 .. n)
           f == [k \in A |-> k + 1]
<1>1. IsFiniteSet(A)
  <2>1. IsFiniteSet(0 .. n) BY FS_Interval
  <2> QED BY <2>1, FS_Subset
<1>2. 0 \in A OBVIOUS
<1>3. Cardinality(A \ {0}) = Cardinality(A) - 1 /\ Cardinality(A) \in Nat
  BY <1>1, <1>2, FS_RemoveElement, FS_CardinalityType
<1>4. f \in [A -> A \ {0}] OBVIOUS
<1>5. \A x, y \in A : x # y => f[x] # f[y] OBVIOUS
<1>6. IsFiniteSet(A \ {0}) BY <1>1, FS_RemoveElement
<1> HIDE DEF A, f
<1>7. Cardinality(A \ {0}) < Cardinality(A) BY <1>3
<1>8. \E x, y \in A : x # y /\ f[x] = f[y] BY <1>1, <1>4, <1>6, <1>7, FS_PigeonHole
<1> QED BY <1>5, <1>8

\* The loop from where it has found g.
Onward(v, workers, url, role, g) ==
  [i \in 0 .. Len(workers) |->
     IF i = 0 THEN 0
     ELSE IF Better(v, workers, url, role, g[i - 1], i) THEN i ELSE g[i - 1]]

LEMMA BestUnfolds ==
  ASSUME NEW v, NEW workers, NEW url, NEW role, Len(workers) \in Nat
  PROVE  Best(v, workers, url, role) = Onward(v, workers, url, role, Best(v, workers, url, role))
<1> DEFINE Next1(x, i) == IF Better(v, workers, url, role, x, i) THEN i ELSE x
           Upto(g, n) == g[0] = 0 /\ \A i \in 1 .. n : g[i] = Next1(g[i - 1], i)
           P == {n \in Nat : \E g \in [0 .. n -> Nat] : Upto(g, n)}
<1>1. 0 \in P
  <2>1. [i \in 0 .. 0 |-> 0] \in [0 .. 0 -> Nat] OBVIOUS
  <2>2. Upto([i \in 0 .. 0 |-> 0], 0) OBVIOUS
  <2> QED BY <2>1, <2>2
<1>2. \A n \in Nat : n \in P => n + 1 \in P
  <2> SUFFICES ASSUME NEW n \in Nat, n \in P PROVE n + 1 \in P OBVIOUS
  <2>1. PICK g \in [0 .. n -> Nat] : Upto(g, n) OBVIOUS
  <2>2. Next1(g[n], n + 1) \in Nat BY <2>1
  <2> DEFINE h == [i \in 0 .. n + 1 |-> IF i = n + 1 THEN Next1(g[n], n + 1) ELSE g[i]]
  <2> HIDE DEF Next1
  <2>3. h \in [0 .. n + 1 -> Nat] BY <2>1, <2>2
  <2>4. h[0] = 0 /\ h[n + 1] = Next1(g[n], n + 1) /\ \A i \in 0 .. n : h[i] = g[i] BY <2>1
  <2>5. ASSUME NEW i \in 1 .. n + 1 PROVE h[i] = Next1(h[i - 1], i)
    <3>1. CASE i = n + 1
      <4>1. h[i - 1] = g[n] BY <2>4, <3>1
      <4> QED BY <2>4, <3>1, <4>1
    <3>2. CASE i # n + 1
      <4>1. i \in 1 .. n /\ i - 1 \in 0 .. n BY <3>2
      <4> QED BY <2>1, <2>4, <4>1
    <3> QED BY <3>1, <3>2
  <2>6. Upto(h, n + 1) BY <2>4, <2>5
  <2>7. \E g1 \in [0 .. n + 1 -> Nat] : Upto(g1, n + 1)
    <3> HIDE DEF h, Upto
    <3> WITNESS h \in [0 .. n + 1 -> Nat]
    <3> QED BY <2>6
  <2> HIDE DEF h, Upto
  <2>8. n + 1 \in Nat OBVIOUS
  <2> QED BY <2>7, <2>8
<1>3. \A n \in Nat : n \in P
  <2> HIDE DEF P
  <2> QED BY <1>1, <1>2, Inductive
<1>4. PICK g \in [0 .. Len(workers) -> Nat] : Upto(g, Len(workers)) BY <1>3
<1>5. g = Onward(v, workers, url, role, g)
  <2> DEFINE O(i) == IF i = 0 THEN 0 ELSE Next1(g[i - 1], i)
  <2>1. ASSUME NEW i \in 0 .. Len(workers) PROVE g[i] = O(i)
    <3>1. CASE i = 0 BY <1>4, <3>1
    <3>2. CASE i # 0
      <4>1. i \in 1 .. Len(workers) BY <3>2
      <4> QED BY <1>4, <3>2, <4>1
    <3> QED BY <3>1, <3>2
  <2>2. Onward(v, workers, url, role, g) = [i \in 0 .. Len(workers) |-> O(i)] BY DEF Onward
  <2> HIDE DEF O
  <2> QED BY <1>4, <2>1, <2>2
<1> DEFINE F == Best(v, workers, url, role)
<1>6. F = CHOOSE f : f = Onward(v, workers, url, role, f) BY DEF Best, Onward
<1>7. \E f : f = Onward(v, workers, url, role, f) BY <1>5
<1> HIDE DEF F
<1>8. F = Onward(v, workers, url, role, F) BY <1>6, <1>7
<1> QED BY <1>8 DEF F

LEMMA BestStep ==
  ASSUME NEW v, NEW workers, NEW url, NEW role, Len(workers) \in Nat
  PROVE  /\ Best(v, workers, url, role)[0] = 0
         /\ \A i \in 1 .. Len(workers) :
              Best(v, workers, url, role)[i] =
                IF Better(v, workers, url, role, Best(v, workers, url, role)[i - 1], i)
                THEN i ELSE Best(v, workers, url, role)[i - 1]
<1> DEFINE F == Best(v, workers, url, role)
<1>1. F = Onward(v, workers, url, role, F) BY BestUnfolds
<1> HIDE DEF F
<1>2. /\ F[0] = 0
      /\ \A i \in 1 .. Len(workers) :
           F[i] = IF Better(v, workers, url, role, F[i - 1], i) THEN i ELSE F[i - 1]
  BY <1>1 DEF Onward
<1> QED BY <1>2 DEF F

\* What it finds is a worker of the list, or none.
LEMMA BestOfList ==
  ASSUME NEW v, NEW workers, NEW url, NEW role, Len(workers) \in Nat
  PROVE  \A n \in 0 .. Len(workers) : Best(v, workers, url, role)[n] \in 0 .. n
<1> DEFINE F == Best(v, workers, url, role)
           P == {n \in Nat : n <= Len(workers) => F[n] \in 0 .. n}
<1>1. /\ F[0] = 0
      /\ \A i \in 1 .. Len(workers) :
           F[i] = IF Better(v, workers, url, role, F[i - 1], i) THEN i ELSE F[i - 1]
  BY BestStep
<1> HIDE DEF F
<1>2. 0 \in P BY <1>1
<1>3. \A n \in Nat : n \in P => n + 1 \in P
  <2> SUFFICES ASSUME NEW n \in Nat, n \in P, n + 1 <= Len(workers) PROVE F[n + 1] \in 0 .. n + 1
    OBVIOUS
  <2>1. n + 1 \in 1 .. Len(workers) /\ F[n] \in 0 .. n /\ (n + 1) - 1 = n OBVIOUS
  <2>2. F[n + 1] = n + 1 \/ F[n + 1] = F[n] BY <1>1, <2>1
  <2> QED BY <2>1, <2>2
<1>4. \A n \in Nat : n \in P
  <2> HIDE DEF P
  <2> QED BY <1>2, <1>3, Inductive
<1> QED BY <1>4 DEF F

LEMMA WorkerOfList ==
  ASSUME NEW v, NEW workers, NEW url, NEW role, Len(workers) \in Nat
  PROVE  GetWorker(v, workers, url, role) \in 0 .. Len(workers)
<1>1. Best(v, workers, url, role)[Len(workers)] \in 0 .. Len(workers) BY BestOfList
<1> QED BY <1>1 DEF GetWorker

\* It finds one that may be taken, and none that may be is longer.
LEMMA BestIsLongest ==
  ASSUME NEW v, NEW workers, NEW url, NEW role, Len(workers) \in Nat,
         \A i \in 1 .. Len(workers) : NameLength(workers[i]) \in Nat
  PROVE  LET b == Best(v, workers, url, role)[Len(workers)] IN
         /\ b # 0 => Eligible(v, url, role, workers[b])
         /\ \A i \in 1 .. Len(workers) : Eligible(v, url, role, workers[i]) =>
              b # 0 /\ NameLength(workers[i]) <= NameLength(workers[b])
<1> DEFINE F == Best(v, workers, url, role)
           Best1(n) ==
             /\ F[n] # 0 => Eligible(v, url, role, workers[F[n]])
             /\ \A i \in 1 .. n : Eligible(v, url, role, workers[i]) =>
                  F[n] # 0 /\ NameLength(workers[i]) <= NameLength(workers[F[n]])
           P == {n \in Nat : n <= Len(workers) => Best1(n)}
<1>1. /\ F[0] = 0
      /\ \A i \in 1 .. Len(workers) :
           F[i] = IF Better(v, workers, url, role, F[i - 1], i) THEN i ELSE F[i - 1]
  BY BestStep
<1>2. \A n \in 0 .. Len(workers) : F[n] \in 0 .. n BY BestOfList
<1> HIDE DEF F
<1>3. 0 \in P BY <1>1
<1>4. \A n \in Nat : n \in P => n + 1 \in P
  <2> SUFFICES ASSUME NEW n \in Nat, n \in P, n + 1 <= Len(workers) PROVE Best1(n + 1)
    OBVIOUS
  <2>1. n + 1 \in 1 .. Len(workers) /\ F[n] \in 0 .. n /\ (n + 1) - 1 = n /\ Best1(n)
    BY <1>2
  <2>2. F[n + 1] = IF Better(v, workers, url, role, F[n], n + 1) THEN n + 1 ELSE F[n]
    BY <1>1, <2>1
  <2>3. \A i \in 1 .. n + 1 : i = n + 1 \/ i \in 1 .. n OBVIOUS
  <2>4. \A i \in 1 .. n + 1 : NameLength(workers[i]) \in Nat BY <2>1
  <2>5. F[n] # 0 => F[n] \in 1 .. n + 1 BY <2>1
  <2>6. CASE Better(v, workers, url, role, F[n], n + 1)
    <3>1. F[n + 1] = n + 1 BY <2>2, <2>6
    <3>2. /\ Eligible(v, url, role, workers[n + 1])
          /\ F[n] = 0 \/ NameLength(workers[n + 1]) > NameLength(workers[F[n]])
      BY <2>6 DEF Better
    <3> QED BY <2>1, <2>3, <2>4, <2>5, <3>1, <3>2
  <2>7. CASE ~Better(v, workers, url, role, F[n], n + 1)
    <3>1. F[n + 1] = F[n] BY <2>2, <2>7
    <3>2. Eligible(v, url, role, workers[n + 1]) =>
            F[n] # 0 /\ ~(NameLength(workers[n + 1]) > NameLength(workers[F[n]]))
      BY <2>7 DEF Better
    <3> QED BY <2>1, <2>3, <2>4, <2>5, <3>1, <3>2
  <2> QED BY <2>6, <2>7
<1>5. \A n \in Nat : n \in P
  <2> HIDE DEF P
  <2> QED BY <1>3, <1>4, Inductive
<1>6. Best1(Len(workers)) BY <1>5
<1> QED BY <1>6 DEF F

\* A name and a URL as text: the host, then the path.
LEMMA TextThere ==
  ASSUME NEW x, Named(x)
  PROVE  /\ Len(x.host) \in Nat /\ Len(x.path) \in Nat
         /\ DOMAIN x.host = 1 .. Len(x.host) /\ DOMAIN x.path = 1 .. Len(x.path)
         /\ \E X : x.host \in Seq(X) /\ x.path \in Seq(X) /\ Text(x) \in Seq(X)
         /\ Len(Text(x)) = Len(x.host) + Len(x.path)
         /\ \A k \in 1 .. Len(x.host) : Text(x)[k] = x.host[k] /\ x.host[k] # "/"
         /\ \A k \in 1 .. Len(x.path) : Text(x)[Len(x.host) + k] = x.path[k]
         /\ x.path # <<>> => Len(x.path) >= 1 /\ x.path[1] = "/"
<1>1. PICK X : x.host \in Seq(X) /\ x.path \in Seq(X)
  <2> DEFINE X == Range(x.host) \cup Range(x.path)
  <2>1. x.host \in Seq(Range(x.host)) /\ x.path \in Seq(Range(x.path)) BY DEF Named
  <2>2. x.host \in Seq(X) /\ x.path \in Seq(X)
    <3> DEFINE A == Range(x.host)
               B == Range(x.path)
    <3> HIDE DEF A, B
    <3>1. x.host \in Seq(A) /\ x.path \in Seq(B) BY <2>1 DEF A, B
    <3>2. x.host \in Seq(A \cup B) /\ x.path \in Seq(A \cup B) BY <3>1
    <3> QED BY <3>2 DEF A, B
  <2> QED BY <2>2
<1>2. (\A k \in DOMAIN x.host : x.host[k] # "/") /\ (x.path = <<>> \/ x.path[1] = "/") BY DEF Named
<1> DEFINE h == x.host
           p == x.path
<1>3. h \in Seq(X) /\ p \in Seq(X) /\ (\A k \in DOMAIN h : h[k] # "/") /\ (p = <<>> \/ p[1] = "/")
  BY <1>1, <1>2
<1>4. Text(x) = h \o p BY DEF Text
<1> HIDE DEF h, p
<1>5. /\ Len(h) \in Nat /\ Len(p) \in Nat
      /\ DOMAIN h = 1 .. Len(h) /\ DOMAIN p = 1 .. Len(p)
      /\ h \o p \in Seq(X) /\ Len(h \o p) = Len(h) + Len(p)
  BY <1>3
<1>6. \A k \in 1 .. Len(h) : (h \o p)[k] = h[k] /\ h[k] # "/" BY <1>3, <1>5
<1>7. \A k \in 1 .. Len(p) : (h \o p)[Len(h) + k] = p[k] BY <1>3, <1>5
<1>8. p # <<>> => Len(p) >= 1 /\ p[1] = "/" BY <1>3
<1> QED BY <1>3, <1>4, <1>5, <1>6, <1>7, <1>8 DEF h, p

\* The URL begins with a name that is at least as long as its host, and goes on with a path
\* if there is a wildcard: the worker serves it.
LEMMA PrefixServes ==
  ASSUME NEW w, NEW url, Named(w), Named(url), IsPrefix(Text(w), Text(url)),
         Len(Text(w)) >= Len(url.host) \/ w.path # <<>>
  PROVE  Serves(w, url)
<1>1. /\ Len(w.host) \in Nat /\ Len(w.path) \in Nat
      /\ Len(Text(w)) = Len(w.host) + Len(w.path)
      /\ \A k \in 1 .. Len(w.host) : Text(w)[k] = w.host[k] /\ w.host[k] # "/"
      /\ \A k \in 1 .. Len(w.path) : Text(w)[Len(w.host) + k] = w.path[k]
      /\ w.path # <<>> => Len(w.path) >= 1 /\ w.path[1] = "/"
  BY TextThere
<1>2. /\ Len(url.host) \in Nat /\ Len(url.path) \in Nat
      /\ Len(Text(url)) = Len(url.host) + Len(url.path)
      /\ \A k \in 1 .. Len(url.host) : Text(url)[k] = url.host[k] /\ url.host[k] # "/"
      /\ \A k \in 1 .. Len(url.path) : Text(url)[Len(url.host) + k] = url.path[k]
      /\ url.path # <<>> => Len(url.path) >= 1 /\ url.path[1] = "/"
  BY TextThere
<1>3. PICK A : w.host \in Seq(A) /\ w.path \in Seq(A) /\ Text(w) \in Seq(A) BY TextThere
<1>4. PICK B : url.host \in Seq(B) /\ url.path \in Seq(B) /\ Text(url) \in Seq(B) BY TextThere
<1> DEFINE wh == w.host   wp == w.path   wt == Text(w)
           uh == url.host up == url.path ut == Text(url)
<1>5. /\ wh \in Seq(A) /\ wp \in Seq(A) /\ wt \in Seq(A) /\ uh \in Seq(B) /\ up \in Seq(B) /\ ut \in Seq(B)
      /\ Len(wh) \in Nat /\ Len(wp) \in Nat /\ Len(uh) \in Nat /\ Len(up) \in Nat
      /\ Len(wt) = Len(wh) + Len(wp) /\ Len(ut) = Len(uh) + Len(up)
      /\ \A k \in 1 .. Len(wh) : wt[k] = wh[k] /\ wh[k] # "/"
      /\ \A k \in 1 .. Len(wp) : wt[Len(wh) + k] = wp[k]
      /\ \A k \in 1 .. Len(uh) : ut[k] = uh[k] /\ uh[k] # "/"
      /\ \A k \in 1 .. Len(up) : ut[Len(uh) + k] = up[k]
      /\ wp # <<>> => Len(wp) >= 1 /\ wp[1] = "/"
      /\ up # <<>> => Len(up) >= 1 /\ up[1] = "/"
      /\ Len(wt) >= Len(uh) \/ wp # <<>>
  BY <1>1, <1>2, <1>3, <1>4
<1>6. Len(wt) <= Len(ut) /\ SubSeq(wt, 1, Len(wt)) = SubSeq(ut, 1, Len(wt)) BY DEF IsPrefix
<1> HIDE DEF wh, wp, wt, uh, up, ut
<1>7. \A k \in 1 .. Len(wt) : wt[k] = ut[k]
  <2> TAKE k \in 1 .. Len(wt)
  <2>1. SubSeq(wt, 1, Len(wt))[k] = wt[k] BY <1>5
  <2>2. SubSeq(ut, 1, Len(wt))[k] = ut[k] BY <1>5, <1>6
  <2> QED BY <1>6, <2>1, <2>2
<1>8. ~(Len(wh) > Len(uh))
  <2> SUFFICES ASSUME Len(wh) > Len(uh) PROVE FALSE OBVIOUS
  <2>1. Len(uh) + 1 \in 1 .. Len(wh) /\ Len(uh) + 1 \in 1 .. Len(wt) BY <1>5
  <2>2. up # <<>> /\ 1 \in 1 .. Len(up)
    <3>1. Len(up) >= 1 BY <1>5, <1>6, <2>1
    <3> QED BY <1>5, <3>1
  <2>3. ut[Len(uh) + 1] = "/" BY <1>5, <2>2
  <2>4. wt[Len(uh) + 1] # "/" BY <1>5, <2>1
  <2> QED BY <1>7, <2>1, <2>3, <2>4
<1>9. ~(Len(wh) < Len(uh))
  <2> SUFFICES ASSUME Len(wh) < Len(uh) PROVE FALSE OBVIOUS
  <2>1. wp # <<>>
    <3>1. CASE Len(wt) >= Len(uh)
      <4>1. Len(wp) >= 1 BY <1>5, <3>1
      <4> QED BY <1>5, <4>1
    <3>2. CASE wp # <<>> BY <3>2
    <3> QED BY <1>5, <3>1, <3>2
  <2>2. 1 \in 1 .. Len(wp) /\ wp[1] = "/" BY <1>5, <2>1
  <2>3. wt[Len(wh) + 1] = "/" BY <1>5, <2>2
  <2>4. Len(wh) + 1 \in 1 .. Len(uh) /\ Len(wh) + 1 \in 1 .. Len(wt) BY <1>5, <2>2
  <2> QED BY <1>5, <1>7, <2>3, <2>4
<1>10. Len(wh) = Len(uh) BY <1>5, <1>8, <1>9
<1>11. wh = uh
  <2>1. \A k \in 1 .. Len(wh) : wh[k] = uh[k]
    <3> TAKE k \in 1 .. Len(wh)
    <3>1. k \in 1 .. Len(wt) /\ k \in 1 .. Len(uh) BY <1>5, <1>10
    <3> QED BY <1>5, <1>7, <3>1
  <2>2. wh = [k \in 1 .. Len(wh) |-> wh[k]] /\ uh = [k \in 1 .. Len(uh) |-> uh[k]] BY <1>5
  <2>3. [k \in 1 .. Len(wh) |-> wh[k]] = [k \in 1 .. Len(uh) |-> uh[k]] BY <1>10, <2>1
  <2> HIDE DEF wh, uh
  <2> QED BY <2>2, <2>3
<1>12. Len(wp) <= Len(up) BY <1>5, <1>6, <1>10
<1>13. \A k \in 1 .. Len(wp) : wp[k] = up[k]
  <2> TAKE k \in 1 .. Len(wp)
  <2>1. Len(wh) + k \in 1 .. Len(wt) /\ k \in 1 .. Len(up) BY <1>5, <1>12
  <2> QED BY <1>5, <1>7, <1>10, <2>1
<1>14. IsPrefix(wp, up)
  <2>1. SubSeq(wp, 1, Len(wp)) = [k \in 1 .. Len(wp) |-> wp[k]] BY <1>5
  <2>2. SubSeq(up, 1, Len(wp)) = [k \in 1 .. Len(wp) |-> up[k]] BY <1>5, <1>12
  <2>3. SubSeq(wp, 1, Len(wp)) = SubSeq(up, 1, Len(wp)) BY <1>13, <2>1, <2>2
  <2> QED BY <1>12, <2>3 DEF IsPrefix
<1> QED BY <1>11, <1>14 DEF Serves, wh, wp, uh, up

\* A worker that serves the URL and is no pattern has a name the URL begins with.
LEMMA ServesPrefix ==
  ASSUME NEW w, NEW url, Named(w), Named(url), Serves(w, url)
  PROVE  IsPrefix(Text(w), Text(url)) /\ Len(url.host) <= Len(Text(w))
<1>1. PICK A : w.host \in Seq(A) /\ w.path \in Seq(A) BY TextThere
<1>2. PICK B : url.host \in Seq(B) /\ url.path \in Seq(B) BY TextThere
<1> DEFINE wh == w.host   wp == w.path
           uh == url.host up == url.path
<1>3. /\ wh \in Seq(A) /\ wp \in Seq(A) /\ uh \in Seq(B) /\ up \in Seq(B)
      /\ wh = uh /\ IsPrefix(wp, up)
  BY <1>1, <1>2 DEF Serves
<1> HIDE DEF wh, wp, uh, up
<1>4. Len(wp) <= Len(up) /\ SubSeq(wp, 1, Len(wp)) = SubSeq(up, 1, Len(wp)) BY <1>3 DEF IsPrefix
<1>5. \A k \in 1 .. Len(wp) : wp[k] = up[k]
  <2> TAKE k \in 1 .. Len(wp)
  <2>1. SubSeq(wp, 1, Len(wp))[k] = wp[k] BY <1>3
  <2>2. SubSeq(up, 1, Len(wp))[k] = up[k] BY <1>3, <1>4
  <2> QED BY <1>4, <2>1, <2>2
<1>6. \A k \in 1 .. Len(uh \o wp) : (uh \o wp)[k] = (uh \o up)[k]
  <2> TAKE k \in 1 .. Len(uh \o wp)
  <2>1. /\ Len(uh) \in Nat /\ Len(wp) \in Nat /\ Len(up) \in Nat
        /\ k \in 1 .. Len(uh) + Len(wp)
    BY <1>3
  <2>2. CASE k <= Len(uh) BY <1>3, <2>1, <2>2
  <2>3. CASE k > Len(uh)
    <3>1. k - Len(uh) \in 1 .. Len(wp) BY <2>1, <2>3
    <3>2. (uh \o wp)[k] = wp[k - Len(uh)] BY <1>3, <2>1, <2>3
    <3>3. (uh \o up)[k] = up[k - Len(uh)] BY <1>3, <1>4, <2>1, <2>3, <3>1
    <3> QED BY <1>5, <3>1, <3>2, <3>3
  <2>4. k <= Len(uh) \/ k > Len(uh) BY <2>1
  <2> QED BY <2>2, <2>3, <2>4
<1>7. Len(uh \o wp) <= Len(uh \o up) /\ Len(uh) <= Len(uh \o wp) /\ uh \o wp \in Seq(A \cup B)
      /\ uh \o up \in Seq(A \cup B)
  BY <1>3, <1>4
<1>8. IsPrefix(uh \o wp, uh \o up)
  <2> DEFINE t == uh \o wp
             l == uh \o up
  <2>1. /\ t \in Seq(A \cup B) /\ l \in Seq(A \cup B) /\ Len(t) <= Len(l)
        /\ \A k \in 1 .. Len(t) : t[k] = l[k]
    BY <1>6, <1>7
  <2> HIDE DEF t, l
  <2>2. SubSeq(t, 1, Len(t)) = [k \in 1 .. Len(t) |-> t[k]] BY <2>1
  <2>3. SubSeq(l, 1, Len(t)) = [k \in 1 .. Len(t) |-> l[k]] BY <2>1
  <2>4. SubSeq(t, 1, Len(t)) = SubSeq(l, 1, Len(t)) BY <2>1, <2>2, <2>3
  <2>5. IsPrefix(t, l) BY <2>1, <2>4 DEF IsPrefix
  <2> QED BY <2>5 DEF t, l
<1>9. Text(w) = uh \o wp /\ Text(url) = uh \o up /\ url.host = uh BY <1>3 DEF Text, wh, wp, uh, up
<1> QED BY <1>7, <1>8, <1>9
-----------------------------------------------------------------------------
(* The other steps of the parent. *)
LEMMA StepBalancer ==
  ASSUME SlotsInv, ShareBalancer
  PROVE  SlotsInv'
<1>t. SlotsTyped /\ Placed BY DEF SlotsInv
<1>1. /\ UNCHANGED <<copy, slotname, gen, conf, files, seg, at, own, shared, children>>
      /\ seg # None /\ balshared' = TRUE
  BY DEF ShareBalancer
<1>2. Alive' = Alive BY <1>1 DEF Alive
<1>3. PICK name \in Methods \cup {None} :
        /\ lbmethod' = MethodFound(name) /\ lbmethod' \in Methods \cup {None}
        /\ phase' \in {"config", "stopped"}
        /\ seg \in Segments
        /\ segs' \in [Segments -> SegmentRecords] /\ segs'[seg].method = name
        /\ \A s \in Segments : segs'[s].slots = segs[s].slots
  BY BalancerThere
<1>4. SlotsTyped' BY <1>t, <1>1, <1>3 DEF SlotsTyped
<1>5. \A c \in Alive : children[c].seg \in Segments BY <1>t, ChildThere
<1>6. Placed' BY <1>t, <1>1, <1>2, <1>3, <1>5 DEF Placed
<1> QED BY <1>4, <1>6 DEF SlotsInv

LEMMA StepRestart ==
  ASSUME SlotsInv, Restart
  PROVE  SlotsInv'
<1>t. SlotsTyped /\ Placed BY DEF SlotsInv
<1>1. UNCHANGED <<copy, slotname, segs, children>> /\ gen' = gen + 1 /\ phase' = "config"
      /\ gen < MaxGeneration
  BY DEF Restart
<1>2. Alive' = Alive BY <1>1 DEF Alive
<1>3. PICK c \in Configurations : Configured(c) BY DEF Restart
<1>4. /\ conf' = c /\ seg' = None /\ at' = [i \in DOMAIN c.workers |-> 0]
      /\ own' = Define(c.workers) /\ shared' = {} /\ balshared' = FALSE /\ lbmethod' = c.method
  BY <1>3 DEF Configured
<1>5. own' \in [DOMAIN c.workers -> Cells] /\ lbmethod' \in Methods BY <1>4, ConfThere
<1>6. gen' \in 0 .. MaxGeneration BY <1>t, <1>1, SlotsAssumption DEF SlotsTyped
<1>7. files' \in [FileNames -> Segments \cup {None}]
  <2>1. files' = files \/ files' = [files EXCEPT ![FileName(gen)] = None] BY DEF Restart
  <2> QED BY <1>t, <2>1 DEF SlotsTyped
<1>8. SlotsTyped' BY <1>t, <1>1, <1>4, <1>5, <1>6, <1>7 DEF SlotsTyped
<1>9. Placed' BY <1>t, <1>1, <1>2, <1>4 DEF Placed
<1> QED BY <1>8, <1>9 DEF SlotsInv

\* A child starts with what the parent has.
LEMMA ForkThere ==
  ASSUME SlotsInv, NEW c \in Children, Fork(c)
  PROVE  /\ c \notin Alive /\ Alive' = Alive \cup {c}
         /\ children' \in [Children -> ChildRecords \cup {NoChild}]
         /\ \A d \in Alive : children'[d] = children[d]
         /\ children'[c] = [gen |-> gen, workers |-> conf.workers, seg |-> seg, at |-> at,
                            own |-> own, lbmethod |-> lbmethod]
         /\ seg \in Segments /\ phase = "running" /\ balshared /\ shared = DOMAIN conf.workers
         /\ UNCHANGED <<copy, slotname, gen, phase, conf, files, segs, seg, at, own, shared,
                        balshared, lbmethod>>
<1>t. SlotsTyped BY DEF SlotsInv
<1> DEFINE r == [gen |-> gen, workers |-> conf.workers, seg |-> seg, at |-> at, own |-> own,
                 lbmethod |-> lbmethod]
<1>1. children[c] = NoChild /\ children' = [children EXCEPT ![c] = r] /\ phase = "running"
  BY DEF Fork
<1>2. balshared /\ shared = DOMAIN conf.workers /\ seg \in Segments
  BY <1>t, <1>1 DEF SlotsTyped
<1>3. r \in ChildRecords BY <1>t, <1>2 DEF SlotsTyped, ChildRecords
<1>4. r # NoChild
  <2>1. r.gen # -1 BY <1>t, SlotsAssumption DEF SlotsTyped
  <2> QED BY <2>1 DEF NoChild
<1>5. children \in [Children -> ChildRecords \cup {NoChild}] BY <1>t DEF SlotsTyped
<1>6. UNCHANGED <<copy, slotname, gen, phase, conf, files, segs, seg, at, own, shared,
                  balshared, lbmethod>>
  BY DEF Fork, parent, sharing
<1>7. c \notin Alive BY <1>1 DEF Alive
<1>8. children'[c] = r /\ \A d \in Children : d # c => children'[d] = children[d] BY <1>1, <1>5
<1> HIDE DEF r
<1>9. children' \in [Children -> ChildRecords \cup {NoChild}] BY <1>1, <1>3, <1>5
<1>10. Alive' = Alive \cup {c} BY <1>4, <1>8 DEF Alive
<1>11. \A d \in Alive : children'[d] = children[d] BY <1>7, <1>8 DEF Alive
<1> QED BY <1>1, <1>2, <1>6, <1>7, <1>8, <1>9, <1>10, <1>11 DEF r

LEMMA StepFork ==
  ASSUME SlotsInv, NEW c \in Children, Fork(c)
  PROVE  SlotsInv'
<1>t. SlotsTyped /\ Placed BY DEF SlotsInv
<1> DEFINE r == [gen |-> gen, workers |-> conf.workers, seg |-> seg, at |-> at, own |-> own,
                 lbmethod |-> lbmethod]
<1>1. /\ c \notin Alive /\ Alive' = Alive \cup {c}
      /\ children' \in [Children -> ChildRecords \cup {NoChild}]
      /\ \A d \in Alive : children'[d] = children[d]
      /\ children'[c] = r
      /\ UNCHANGED <<copy, slotname, gen, phase, conf, files, segs, seg, at, own, shared,
                     balshared, lbmethod>>
  BY ForkThere
<1>2. SlotsTyped' BY <1>t, <1>1 DEF SlotsTyped
<1>3. r.workers = conf.workers /\ r.at = at /\ r.seg = seg OBVIOUS
<1> HIDE DEF r
<1>4. Placed' BY <1>t, <1>1, <1>3 DEF Placed
<1> QED BY <1>2, <1>4 DEF SlotsInv

LEMMA ExitThere ==
  ASSUME SlotsInv, NEW c \in Children, Exit(c)
  PROVE  /\ Alive' = Alive \ {c}
         /\ children' \in [Children -> ChildRecords \cup {NoChild}]
         /\ \A d \in Alive' : d \in Alive /\ children'[d] = children[d]
         /\ UNCHANGED <<copy, slotname, gen, phase, conf, files, segs, seg, at, own, shared,
                        balshared, lbmethod, req>>
<1>1. children \in [Children -> ChildRecords \cup {NoChild}] BY DEF SlotsInv, SlotsTyped
<1>2. children' = [children EXCEPT ![c] = NoChild] BY DEF Exit
<1>3. children'[c] = NoChild /\ \A d \in Children : d # c => children'[d] = children[d]
  BY <1>1, <1>2
<1>4. children' \in [Children -> ChildRecords \cup {NoChild}] BY <1>1, <1>2
<1>5. Alive' = Alive \ {c} BY <1>3 DEF Alive
<1>6. \A d \in Alive' : d \in Alive /\ children'[d] = children[d] BY <1>3, <1>5 DEF Alive
<1>7. UNCHANGED <<copy, slotname, gen, phase, conf, files, segs, seg, at, own, shared,
                  balshared, lbmethod, req>>
  BY DEF Exit, parent, sharing
<1> QED BY <1>4, <1>5, <1>6, <1>7

LEMMA StepExit ==
  ASSUME SlotsInv, NEW c \in Children, Exit(c)
  PROVE  SlotsInv'
<1>t. SlotsTyped /\ Placed BY DEF SlotsInv
<1>1. /\ Alive' = Alive \ {c}
      /\ children' \in [Children -> ChildRecords \cup {NoChild}]
      /\ \A d \in Alive' : d \in Alive /\ children'[d] = children[d]
      /\ UNCHANGED <<copy, slotname, gen, phase, conf, files, segs, seg, at, own, shared,
                     balshared, lbmethod>>
  BY ExitThere
<1>2. SlotsTyped' BY <1>t, <1>1 DEF SlotsTyped
<1>3. Placed' BY <1>t, <1>1 DEF Placed
<1> QED BY <1>2, <1>3 DEF SlotsInv

LEMMA StepWrite ==
  ASSUME SlotsInv, NEW c \in Alive, NEW i \in DOMAIN children[c].workers, NEW cell \in Cells,
         Write(c, i, cell), UNCHANGED <<copy, slotname, parent, files, sharing>>
  PROVE  SlotsInv'
<1>t. SlotsTyped /\ Placed BY DEF SlotsInv
<1>1. children[c].at[i] = 0 \/ children[c].at[i] \in DOMAIN segs[children[c].seg].slots
  BY <1>t DEF Placed
<1>2. /\ segs' \in [Segments -> SegmentRecords]
      /\ children' \in [Children -> ChildRecords \cup {NoChild}]
      /\ Alive' = Alive
      /\ \A s \in Segments : DOMAIN segs'[s].slots = DOMAIN segs[s].slots
      /\ \A d \in Alive : /\ children'[d].workers = children[d].workers
                          /\ children'[d].seg = children[d].seg
                          /\ children'[d].at = children[d].at
  BY <1>t, <1>1, WriteTyped
<1>3. UNCHANGED <<copy, slotname, gen, phase, conf, files, seg, at, own, shared, balshared, lbmethod>>
  BY DEF parent, sharing
<1>4. SlotsTyped' BY <1>t, <1>2, <1>3 DEF SlotsTyped
<1>5. \A d \in Alive : children[d].seg \in Segments BY <1>t, ChildThere
<1>6. \A j \in DOMAIN conf.workers : at[j] # 0 => seg \in Segments BY <1>t DEF SlotsTyped, Placed
<1>7. Placed' BY <1>t, <1>2, <1>3, <1>5, <1>6 DEF Placed
<1> QED BY <1>4, <1>7 DEF SlotsInv
-----------------------------------------------------------------------------
(* The requests. *)
Asked ==
  [pc : {"begin", "try", "run", "failed"}, url : Urls \cup {None}, role : Roles,
   maxfwd : {-1} \cup Nat, worker : Nat, attempts : Nat, hops : Nat, allowed : Nat]

\* What is left of Max-Forwards and how often the request has come back make what it may:
\* one more while it is on its way.
HopsLeft(r) ==
  IF r.pc = "begin"
  THEN IF r.maxfwd = -1 THEN r.hops = 0 /\ r.allowed = ConfMaxfwd + 1
       ELSE r.hops + r.maxfwd = r.allowed
  ELSE r.maxfwd # -1 /\ r.hops + r.maxfwd + 1 = r.allowed

\* A request of a child with these workers.
Fits(v, r, workers) ==
  /\ r \in Asked
  /\ r.attempts <= MaxAttempts /\ r.worker \in 0 .. Len(workers)
  /\ (r.pc \in {"run", "failed"} /\ r.url = None) => r.worker # 0
  /\ (r.pc = "run" /\ r.url # None) => r.worker = GetWorker(v.get, workers, r.url, r.role)
  /\ (v.handler.adds = -1 /\ r.allowed # 0) => HopsLeft(r)

ReqInv ==
  /\ req \in [Children -> Asked \cup {Idle}]
  /\ \A c \in Children : req[c] # Idle => c \in Alive /\ Fits(copy, req[c], children[c].workers)

HandlerInv == SlotsInv /\ ReqInv

LEMMA CopyKnown ==
  ASSUME copy \in KnownVersions
  PROVE  /\ copy.handler.adds \in {-1, 1} /\ copy.handler.lowest \in {0, 1}
         /\ copy.handler.adds = -1 => copy.handler.lowest = 1
<1>1. /\ Handler_584.adds = -1 /\ Handler_584.lowest = 1
      /\ Handler_358.adds = 1 /\ Handler_358.lowest = 0
  BY DEF Handler_584, Handler_358
<1> DEFINE u == Usual
<1>2. u.handler = Handler_584 /\ u = [names |-> u.names, share |-> u.share, balancer |-> u.balancer,
                                     get |-> u.get, handler |-> u.handler]
  BY DEF Usual
<1>3. copy \in {u, [u EXCEPT !.names = Names_557], [u EXCEPT !.handler = Handler_358]}
                 \cup {[u EXCEPT !.share = s] : s \in {Share_278, Share_970}}
                 \cup {[u EXCEPT !.names = Names_557, !.balancer = Balancer_276]}
                 \cup {[u EXCEPT !.get = g] : g \in {Get_364_safe, Get_395, Get_421}}
  BY DEF KnownVersions
<1> HIDE DEF u
<1>4. copy.handler \in {Handler_584, Handler_358} BY <1>2, <1>3
<1> QED BY <1>1, <1>4

LEMMA LenThere ==
  ASSUME SlotsTyped, NEW c \in Alive
  PROVE  /\ Len(children[c].workers) \in Nat
         /\ DOMAIN children[c].workers = 1 .. Len(children[c].workers)
         /\ \E g \in Configurations : children[c].workers = g.workers
<1>1. children[c] \in ChildRecords BY ChildThere
<1>2. PICK g \in Configurations : children[c].workers = g.workers BY <1>1 DEF ChildRecords
<1>3. Len(g.workers) \in Nat /\ DOMAIN g.workers = 1 .. Len(g.workers) BY ConfThere, SlotsAssumption
<1> QED BY <1>2, <1>3

\* What a step makes of the request of its child.
LEMMA HandleFits ==
  ASSUME HandlerInv, NEW c \in Alive, Handle(c)
  PROVE  \E r \in Asked \cup {Idle} :
           /\ req' = [req EXCEPT ![c] = r]
           /\ r # Idle => Fits(copy, r, children[c].workers)
<1>t. /\ SlotsTyped /\ req \in [Children -> Asked \cup {Idle}] /\ c \in Children
      /\ req[c] # Idle => Fits(copy, req[c], children[c].workers)
  BY DEF HandlerInv, SlotsInv, ReqInv, Alive
<1>v. /\ copy.handler.adds \in {-1, 1} /\ copy.handler.lowest \in {0, 1}
      /\ copy.handler.adds = -1 => copy.handler.lowest = 1
  BY <1>t, CopyKnown DEF SlotsTyped
<1>w. /\ Len(children[c].workers) \in Nat
      /\ DOMAIN children[c].workers = 1 .. Len(children[c].workers)
  BY <1>t, LenThere
<1> DEFINE q == req[c]
           w == children[c].workers
<1>q. Idle.pc = "idle" BY DEF Idle
<1>f. ASSUME q.pc \in {"begin", "try", "run", "failed"} PROVE q \in Asked /\ Fits(copy, q, w)
  <2>1. q # Idle BY <1>q, <1>f
  <2> QED BY <1>t, <2>1 DEF Fits
<1>i. CASE req' = [req EXCEPT ![c] = Idle] BY <1>i
<1>u. CASE req' = req
  <2>1. req' = [req EXCEPT ![c] = q] BY <1>t, <1>u
  <2> QED BY <1>t, <2>1
<1>1. CASE Receive(c)
  <2>1. PICK url \in Urls \cup {None}, role \in Roles, header \in Headers :
          req' = [req EXCEPT ![c] = Request(url, role, header)]
    BY <1>1 DEF Receive
  <2> DEFINE r == Request(url, role, header)
  <2>2. header \in {-1} \cup Nat /\ ConfMaxfwd \in {-1} \cup Nat /\ MaxAttempts \in Nat
    BY HandlerAssumption
  <2>3. r \in Asked BY <2>2 DEF Request, Asked
  <2>4. HopsLeft(r) BY <2>2 DEF Request, HopsLeft
  <2>5. r.attempts = 0 /\ r.worker = 0 /\ r.pc = "begin" BY DEF Request
  <2> HIDE DEF r
  <2>6. Fits(copy, r, w) BY <1>w, <2>2, <2>3, <2>4, <2>5 DEF Fits
  <2> QED BY <2>1, <2>3, <2>6 DEF r
<1>2. CASE Enter(c)
  <2> DEFINE m == IF q.maxfwd = -1 THEN ConfMaxfwd ELSE ForwardsLeft(copy.handler, q.maxfwd)
             r == [q EXCEPT !.pc = "try", !.maxfwd = m]
  <2>1. q.pc = "begin" /\ ~Exhausted(copy.handler, q.maxfwd) BY <1>2 DEF Enter, At
  <2>2. q \in Asked /\ Fits(copy, q, w) BY <1>f, <2>1
  <2>3. ConfMaxfwd \in {-1} \cup Nat /\ q.maxfwd \in {-1} \cup Nat
    BY <2>2, HandlerAssumption DEF Asked
  <2>4. m \in {-1} \cup Nat BY <1>v, <2>3 DEF ForwardsLeft
  <2>5. req' = [req EXCEPT ![c] = r]
    <3>1. req' = [req EXCEPT ![c].pc = "try",
                     ![c].maxfwd = IF @ = -1 THEN ConfMaxfwd ELSE ForwardsLeft(copy.handler, @)]
      BY <1>2 DEF Enter
    <3> QED BY <1>t, <2>2, <3>1 DEF Asked
  <2>6. copy.handler.adds = -1 /\ q.maxfwd # -1 => q.maxfwd >= 1 /\ m = q.maxfwd - 1
    BY <1>v, <2>1, <2>3 DEF Exhausted, ForwardsLeft
  <2>6a. q.maxfwd = -1 => m = ConfMaxfwd OBVIOUS
  <2> HIDE DEF m
  <2>7. r \in Asked /\ r.pc = "try" /\ r.maxfwd = m /\ r.hops = q.hops /\ r.allowed = q.allowed
        /\ r.attempts = q.attempts /\ r.worker = q.worker
    BY <2>2, <2>4 DEF Asked
  <2>8. copy.handler.adds = -1 /\ q.allowed # 0 => HopsLeft(r)
    <3> SUFFICES ASSUME copy.handler.adds = -1, q.allowed # 0 PROVE HopsLeft(r) OBVIOUS
    <3>1. HopsLeft(q) BY <2>2 DEF Fits
    <3>2. q.hops \in Nat /\ q.allowed \in Nat BY <2>2 DEF Asked
    <3>3. CASE q.maxfwd = -1
      <4>1. q.hops = 0 /\ q.allowed = ConfMaxfwd + 1 BY <2>1, <3>1, <3>3 DEF HopsLeft
      <4> HIDE DEF r
      <4> QED BY <2>3, <2>6a, <2>7, <3>2, <3>3, <4>1 DEF HopsLeft
    <3>4. CASE q.maxfwd # -1
      <4>1. q.hops + q.maxfwd = q.allowed BY <2>1, <3>1, <3>4 DEF HopsLeft
      <4> HIDE DEF r
      <4> QED BY <2>3, <2>6, <2>7, <3>2, <3>4, <4>1 DEF HopsLeft
    <3> QED BY <3>3, <3>4
  <2> HIDE DEF r
  <2>9. Fits(copy, r, w) BY <2>2, <2>7, <2>8 DEF Fits
  <2> QED BY <2>5, <2>7, <2>9
<1>3. CASE TryWorker(c)
  <2>1. PICK i \in DOMAIN w : req' = [req EXCEPT ![c].pc = "run", ![c].worker = i]
    BY <1>3 DEF TryWorker
  <2> DEFINE r == [q EXCEPT !.pc = "run", !.worker = i]
  <2>2. q.pc = "try" /\ q.url = None BY <1>3 DEF TryWorker, At, Balanced
  <2>3. q \in Asked /\ Fits(copy, q, w) BY <1>f, <2>2
  <2>4. req' = [req EXCEPT ![c] = r] BY <1>t, <2>1, <2>3 DEF Asked
  <2>5. i \in 1 .. Len(w) /\ i \in Nat BY <1>w
  <2>6. r \in Asked /\ r.pc = "run" /\ r.maxfwd = q.maxfwd /\ r.hops = q.hops
        /\ r.allowed = q.allowed /\ r.attempts = q.attempts /\ r.worker = i /\ r.url = None
    BY <2>2, <2>3, <2>5 DEF Asked
  <2> HIDE DEF r
  <2>7. Fits(copy, r, w) BY <1>w, <2>2, <2>3, <2>5, <2>6 DEF Fits, HopsLeft
  <2> QED BY <2>4, <2>6, <2>7
<1>4. CASE TryUrl(c)
  <2> DEFINE i == GetWorker(copy.get, w, q.url, q.role)
             r == [q EXCEPT !.pc = "run", !.worker = i]
  <2>1. req' = [req EXCEPT ![c].pc = "run", ![c].worker = i] BY <1>4 DEF TryUrl
  <2>2. q.pc = "try" /\ q.url # None BY <1>4 DEF TryUrl, At, Balanced
  <2>3. q \in Asked /\ Fits(copy, q, w) BY <1>f, <2>2
  <2>5. i \in 0 .. Len(w) /\ i \in Nat BY <1>w, WorkerOfList
  <2> HIDE DEF i
  <2>4. req' = [req EXCEPT ![c] = r] BY <1>t, <2>1, <2>3 DEF Asked
  <2>6. r \in Asked /\ r.pc = "run" /\ r.maxfwd = q.maxfwd /\ r.hops = q.hops
        /\ r.allowed = q.allowed /\ r.attempts = q.attempts /\ r.worker = i /\ r.url = q.url
        /\ r.role = q.role
    BY <2>3, <2>5 DEF Asked
  <2> HIDE DEF r
  <2>7. r.worker = GetWorker(copy.get, w, r.url, r.role) BY <2>6 DEF i
  <2>8. Fits(copy, r, w) BY <1>w, <2>2, <2>3, <2>5, <2>6, <2>7 DEF Fits, HopsLeft
  <2> QED BY <2>4, <2>6, <2>8
<1>5. CASE ComesBack(c)
  <2> DEFINE r == [q EXCEPT !.pc = "begin", !.hops = q.hops + 1, !.attempts = 0, !.worker = 0]
  <2>1. q.pc = "run" BY <1>5 DEF ComesBack, At
  <2>2. q \in Asked /\ Fits(copy, q, w) BY <1>f, <2>1
  <2>3. req' = [req EXCEPT ![c] = r] BY <1>t, <1>5, <2>2 DEF Asked, ComesBack
  <2>3a. q.hops + 1 \in Nat BY <2>2 DEF Asked
  <2>4. r \in Asked /\ r.pc = "begin" /\ r.maxfwd = q.maxfwd /\ r.hops = q.hops + 1
        /\ r.allowed = q.allowed /\ r.attempts = 0 /\ r.worker = 0
    BY <2>2, <2>3a DEF Asked
  <2>5. q.hops \in Nat /\ q.allowed \in Nat /\ q.maxfwd \in {-1} \cup Nat BY <2>2 DEF Asked
  <2> HIDE DEF r
  <2>6. copy.handler.adds = -1 /\ r.allowed # 0 => HopsLeft(r)
    BY <2>1, <2>2, <2>4, <2>5 DEF Fits, HopsLeft
  <2>7. Fits(copy, r, w) BY <1>w, <2>4, <2>6, HandlerAssumption DEF Fits
  <2> QED BY <2>3, <2>4, <2>7
<1>6. CASE Fails(c) /\ req' = [req EXCEPT ![c].pc = "failed"]
  <2> DEFINE r == [q EXCEPT !.pc = "failed"]
  <2>1. q.pc = "run" BY <1>6 DEF Fails, At
  <2>2. q \in Asked /\ Fits(copy, q, w) BY <1>f, <2>1
  <2>3. req' = [req EXCEPT ![c] = r] BY <1>t, <1>6, <2>2 DEF Asked
  <2>4. r \in Asked /\ r.pc = "failed" /\ r.maxfwd = q.maxfwd /\ r.hops = q.hops
        /\ r.allowed = q.allowed /\ r.attempts = q.attempts /\ r.worker = q.worker
        /\ r.url = q.url
    BY <2>2 DEF Asked
  <2> HIDE DEF r
  <2>5. Fits(copy, r, w) BY <2>1, <2>2, <2>4 DEF Fits, HopsLeft
  <2> QED BY <2>3, <2>4, <2>5
<1>7. CASE Again(c)
  <2> DEFINE r == [q EXCEPT !.pc = "try", !.attempts = q.attempts + 1]
  <2>1. q.pc = "failed" BY <1>7 DEF Again, At
  <2>2. q \in Asked /\ Fits(copy, q, w) BY <1>f, <2>1
  <2>3. \/ req' = [req EXCEPT ![c] = Idle]
        \/ req' = [req EXCEPT ![c] = r] /\ MaxAttempts > q.attempts
    <3> DEFINE p == req[c].worker # 0 /\ S(c, req[c].worker).mark # None /\ MoreAttempts(c)
    <3>1. req' = [req EXCEPT ![c] = IF p THEN [req[c] EXCEPT !.pc = "try", !.attempts = @ + 1] ELSE Idle]
      BY <1>7 DEF Again
    <3>2. p => MaxAttempts > q.attempts BY DEF MoreAttempts
    <3>2a. req[c] = q OBVIOUS
    <3> HIDE DEF p, q
    <3>3. CASE p
      <4>1. req' = [req EXCEPT ![c] = [q EXCEPT !.pc = "try", !.attempts = @ + 1]]
        BY <3>1, <3>2a, <3>3 DEF q
      <4>2. [q EXCEPT !.pc = "try", !.attempts = @ + 1] = r BY <2>2 DEF Asked, q
      <4> QED BY <3>2, <3>3, <4>1, <4>2
    <3>4. CASE ~p BY <3>1, <3>4
    <3> QED BY <3>3, <3>4
  <2>3a. q.attempts + 1 \in Nat BY <2>2 DEF Asked
  <2>4. r \in Asked /\ r.pc = "try" /\ r.maxfwd = q.maxfwd /\ r.hops = q.hops
        /\ r.allowed = q.allowed /\ r.attempts = q.attempts + 1 /\ r.worker = q.worker
    BY <2>2, <2>3a DEF Asked
  <2>5. q.attempts \in Nat /\ MaxAttempts \in Nat BY <2>2, HandlerAssumption DEF Asked
  <2> HIDE DEF r
  <2>6. MaxAttempts > q.attempts => Fits(copy, r, w) BY <2>1, <2>2, <2>4, <2>5 DEF Fits, HopsLeft
  <2> QED BY <1>i, <2>3, <2>4, <2>6
<1>8. CASE Refuse(c) \/ TryFails(c) \/ Answered(c) BY <1>8, <1>i DEF Refuse, TryFails, Answered, Finish
<1>9. CASE \E i \in 1 .. MaxWorkers : i \in DOMAIN children[c].workers /\ Recover(c, i)
  BY <1>9, <1>u DEF Recover
<1>10. Fails(c) => req' = [req EXCEPT ![c].pc = "failed"] \/ req' = [req EXCEPT ![c] = Idle]
  BY DEF Fails
<1> QED BY <1>1, <1>2, <1>3, <1>4, <1>5, <1>6, <1>7, <1>8, <1>9, <1>10, <1>i DEF Handle

\* The record of a worker, wherever it is.
LEMMA CellThere ==
  ASSUME SlotsInv, NEW c \in Alive, NEW i \in DOMAIN children[c].workers
  PROVE  S(c, i) \in Cells
<1>1. /\ children[c].own \in [DOMAIN children[c].workers -> Cells]
      /\ segs[children[c].seg] \in SegmentRecords
  BY ChildThere DEF SlotsInv, SlotsTyped
<1>2. children[c].at[i] # 0 => children[c].at[i] \in DOMAIN segs[children[c].seg].slots
  BY DEF SlotsInv, Placed
<1> QED BY <1>1, <1>2 DEF S, SegmentRecords

\* A child leaves the parent and the files alone, and of the records of its workers it
\* changes at most the mark of one, to none or to that worker's, or that it is secure.
LEMMA HandleWrites ==
  ASSUME HandlerInv, NEW c \in Alive, Handle(c)
  PROVE  \/ UNCHANGED slotVars
         \/ \E i \in DOMAIN children[c].workers, cell \in Cells :
              /\ Write(c, i, cell)
              /\ cell.name = S(c, i).name
              /\ cell.mark \in {S(c, i).mark, None, children[c].workers[i]}
              /\ UNCHANGED <<copy, slotname, parent, files, sharing>>
<1>t. /\ SlotsInv /\ SlotsTyped /\ c \in Children
      /\ req[c] # Idle => Fits(copy, req[c], children[c].workers)
  BY DEF HandlerInv, SlotsInv, ReqInv, Alive
<1>w. /\ Len(children[c].workers) \in Nat
      /\ DOMAIN children[c].workers = 1 .. Len(children[c].workers)
  BY <1>t, LenThere
<1>s. UNCHANGED <<segs, children>> /\ UNCHANGED <<copy, slotname, parent, files, sharing>>
        => UNCHANGED slotVars
  BY DEF slotVars
<1>1. CASE TryUrl(c)
  <2> DEFINE i == GetWorker(copy.get, children[c].workers, req[c].url, req[c].role)
  <2>1. /\ UNCHANGED <<copy, slotname, parent, files, sharing>>
        /\ \/ i # 0 /\ Write(c, i, [S(c, i) EXCEPT !.secure = FALSE])
           \/ UNCHANGED <<segs, children>>
    BY <1>1 DEF TryUrl
  <2>2. i \in 0 .. Len(children[c].workers) BY <1>w, WorkerOfList
  <2> HIDE DEF i
  <2>3. CASE i # 0 /\ Write(c, i, [S(c, i) EXCEPT !.secure = FALSE])
    <3>1. i \in DOMAIN children[c].workers BY <1>w, <2>2, <2>3
    <3>2. S(c, i) \in Cells BY <1>t, <3>1, CellThere
    <3> DEFINE cell == [S(c, i) EXCEPT !.secure = FALSE]
    <3>3. cell \in Cells /\ cell.name = S(c, i).name /\ cell.mark = S(c, i).mark
      BY <3>2 DEF Cells
    <3> QED BY <2>1, <2>3, <3>1, <3>3
  <2> QED BY <1>s, <2>1, <2>3
<1>2. CASE Fails(c)
  <2> DEFINE i == req[c].worker
  <2>1. /\ UNCHANGED <<copy, slotname, parent, files, sharing>>
        /\ \/ Balanced(c) /\ Write(c, i, [S(c, i) EXCEPT !.mark = children[c].workers[i]])
           \/ UNCHANGED <<segs, children>>
    BY <1>2 DEF Fails
  <2>2. req[c].pc = "run" /\ req[c] # Idle BY <1>2 DEF Fails, At, Idle
  <2>3. CASE Balanced(c) /\ Write(c, i, [S(c, i) EXCEPT !.mark = children[c].workers[i]])
    <3>1. i \in DOMAIN children[c].workers
      <4>1. i # 0 /\ i \in 0 .. Len(children[c].workers)
        BY <1>t, <2>2, <2>3 DEF Fits, Balanced
      <4> QED BY <1>w, <4>1
    <3>2. S(c, i) \in Cells BY <1>t, <3>1, CellThere
    <3>3. children[c].workers[i] \in Names BY <1>t, <3>1, ChildThere
    <3> DEFINE cell == [S(c, i) EXCEPT !.mark = children[c].workers[i]]
    <3>4. cell \in Cells /\ cell.name = S(c, i).name /\ cell.mark = children[c].workers[i]
      BY <3>2, <3>3 DEF Cells
    <3> HIDE DEF i
    <3> QED BY <2>1, <2>3, <3>1, <3>4
  <2> QED BY <1>s, <2>1, <2>3
<1>3. CASE \E i \in 1 .. MaxWorkers : i \in DOMAIN children[c].workers /\ Recover(c, i)
  <2>1. PICK i \in DOMAIN children[c].workers : Recover(c, i) BY <1>3
  <2>2. S(c, i) \in Cells BY <1>t, CellThere
  <2> DEFINE cell == [S(c, i) EXCEPT !.mark = None]
  <2>3. cell \in Cells /\ cell.name = S(c, i).name /\ cell.mark = None
    BY <2>2 DEF Cells
  <2> QED BY <2>1, <2>3 DEF Recover
<1>4. CASE \/ Receive(c) \/ Refuse(c) \/ Enter(c) \/ TryWorker(c) \/ TryFails(c)
           \/ Answered(c) \/ ComesBack(c) \/ Again(c)
  BY <1>4 DEF Receive, Refuse, Enter, TryWorker, TryFails, Answered, ComesBack, Again
<1> QED BY <1>1, <1>2, <1>3, <1>4 DEF Handle
-----------------------------------------------------------------------------
(* Every step keeps the types and the requests. *)
LEMMA InitHandler == HandlerInit => HandlerInv
<1> SUFFICES ASSUME HandlerInit PROVE HandlerInv OBVIOUS
<1>1. SlotsInv BY InitSlots DEF HandlerInit
<1>2. ReqInv BY DEF HandlerInit, ReqInv
<1> QED BY <1>1, <1>2 DEF HandlerInv

LEMMA StepParent ==
  ASSUME HandlerInv, Parent, UNCHANGED req
  PROVE  HandlerInv' /\ UNCHANGED <<copy, slotname, children>> /\ Alive' = Alive
<1>1. SlotsInv'
  <2> USE DEF HandlerInv
  <2>1. CASE Attach \/ Create \/ StartFails \/ Start BY <2>1, StepSegment
  <2>2. CASE \E i \in DOMAIN conf.workers, k \in 1 .. MaxWorkers : ShareWorker(i, k)
    BY <2>2, StepShareWorker
  <2>3. CASE ShareBalancer BY <2>3, StepBalancer
  <2>4. CASE Restart BY <2>4, StepRestart
  <2> QED BY <2>1, <2>2, <2>3, <2>4 DEF Parent
<1>2. UNCHANGED <<copy, slotname, children>>
  BY DEF Parent, Attach, Create, ShareWorker, ShareBalancer, StartFails, Start, Restart
<1>3. Alive' = Alive BY <1>2 DEF Alive
<1>4. ReqInv' BY <1>2, <1>3 DEF HandlerInv, ReqInv
<1> QED BY <1>1, <1>2, <1>3, <1>4 DEF HandlerInv

LEMMA StepHandle ==
  ASSUME HandlerInv, NEW c \in Alive, Handle(c)
  PROVE  HandlerInv'
<1>t. SlotsInv /\ SlotsTyped /\ Placed /\ ReqInv BY DEF HandlerInv, SlotsInv
<1>1. PICK r \in Asked \cup {Idle} :
        /\ req' = [req EXCEPT ![c] = r]
        /\ r # Idle => Fits(copy, r, children[c].workers)
  BY HandleFits
<1>2. /\ SlotsInv' /\ Alive' = Alive /\ copy' = copy
      /\ \A d \in Alive : children'[d].workers = children[d].workers
  <2>1. CASE UNCHANGED slotVars
    <3>1. UNCHANGED <<copy, slotname, gen, phase, conf, files, segs, seg, at, own, shared,
                      balshared, lbmethod, children>>
      BY <2>1 DEF slotVars, parent, sharing
    <3> QED BY <1>t, <3>1 DEF SlotsInv, SlotsTyped, Placed, Alive
  <2>2. CASE \E i \in DOMAIN children[c].workers, cell \in Cells :
               /\ Write(c, i, cell)
               /\ UNCHANGED <<copy, slotname, parent, files, sharing>>
    <3>1. PICK i \in DOMAIN children[c].workers, cell \in Cells :
            /\ Write(c, i, cell)
            /\ UNCHANGED <<copy, slotname, parent, files, sharing>>
      BY <2>2
    <3>2. children[c].at[i] = 0 \/ children[c].at[i] \in DOMAIN segs[children[c].seg].slots
      BY <1>t DEF Placed
    <3>3. Alive' = Alive /\ \A d \in Alive : children'[d].workers = children[d].workers
      BY <1>t, <3>1, <3>2, WriteTyped
    <3>4. SlotsInv' BY <1>t, <3>1, StepWrite
    <3> QED BY <3>1, <3>3, <3>4
  <2> QED BY <2>1, <2>2, HandleWrites
<1>3. ReqInv'
  <2>1. req' \in [Children -> Asked \cup {Idle}] BY <1>t, <1>1 DEF ReqInv
  <2>2. ASSUME NEW d \in Children, req'[d] # Idle
        PROVE  d \in Alive' /\ Fits(copy, req'[d], children'[d].workers)
    <3>1. CASE d = c BY <1>t, <1>1, <1>2, <2>2, <3>1 DEF ReqInv
    <3>2. CASE d # c BY <1>t, <1>1, <1>2, <2>2, <3>2 DEF ReqInv
    <3> QED BY <3>1, <3>2
  <2> QED BY <1>2, <2>1, <2>2 DEF ReqInv
<1> QED BY <1>2, <1>3 DEF HandlerInv

LEMMA StepHandler == HandlerInv /\ [HandlerNext]_handlerVars => HandlerInv'
<1> SUFFICES ASSUME HandlerInv, [HandlerNext]_handlerVars PROVE HandlerInv' OBVIOUS
<1>t. SlotsInv /\ ReqInv BY DEF HandlerInv
<1>1. CASE Parent /\ UNCHANGED req BY <1>1, StepParent
<1>2. ASSUME NEW c \in Children, Fork(c), UNCHANGED req PROVE HandlerInv'
  <2>1. SlotsInv' BY <1>t, <1>2, StepFork
  <2>2. /\ c \notin Alive /\ Alive' = Alive \cup {c} /\ copy' = copy
        /\ \A d \in Alive : children'[d] = children[d]
    BY <1>t, <1>2, ForkThere
  <2>3. ReqInv' BY <1>t, <1>2, <2>2 DEF ReqInv
  <2> QED BY <2>1, <2>3 DEF HandlerInv
<1>3. ASSUME NEW c \in Children, Exit(c) PROVE HandlerInv'
  <2>1. SlotsInv' BY <1>t, <1>3, StepExit
  <2>2. /\ Alive' = Alive \ {c} /\ copy' = copy /\ req' = req
        /\ \A d \in Alive' : d \in Alive /\ children'[d] = children[d]
    BY <1>t, <1>3, ExitThere
  <2>3. req[c] = Idle BY <1>3 DEF Exit
  <2>4. ReqInv' BY <1>t, <2>2, <2>3 DEF ReqInv
  <2> QED BY <2>1, <2>4 DEF HandlerInv
<1>4. ASSUME NEW c \in Alive, Handle(c) PROVE HandlerInv' BY <1>4, StepHandle
<1>5. CASE UNCHANGED handlerVars
  <2>1. UNCHANGED <<copy, slotname, gen, phase, conf, files, segs, seg, at, own, shared,
                    balshared, lbmethod, children, req>>
    BY <1>5 DEF handlerVars, slotVars, parent, sharing
  <2>2. SlotsInv' BY <1>t, <2>1 DEF SlotsInv, SlotsTyped, Placed, Alive
  <2>3. ReqInv' BY <1>t, <2>1 DEF ReqInv, Alive
  <2> QED BY <2>2, <2>3 DEF HandlerInv
<1> QED BY <1>1, <1>2, <1>3, <1>4, <1>5 DEF HandlerNext

LEMMA HandlerAlways == HandlerSpec => []HandlerInv
  BY InitHandler, StepHandler, PTL DEF HandlerSpec
-----------------------------------------------------------------------------
\* No request is tried more often than MaxAttempts allows, and none comes back more often
\* than its Max-Forwards, for every number of children, workers and restarts.
THEOREM BoundedCorrect == HandlerSpec => []Bounded
<1>1. ASSUME HandlerInv PROVE Bounded
  <2> SUFFICES ASSUME NEW c \in Alive, req[c] # Idle
               PROVE  /\ req[c].attempts <= MaxAttempts
                      /\ (copy.handler.adds = -1 /\ req[c].allowed # 0) =>
                           req[c].hops <= req[c].allowed
    BY DEF Bounded
  <2>1. Fits(copy, req[c], children[c].workers) BY <1>1 DEF HandlerInv, ReqInv, Alive
  <2>2. req[c].hops \in Nat /\ req[c].allowed \in Nat /\ req[c].maxfwd \in {-1} \cup Nat
    BY <2>1 DEF Fits, Asked
  <2> QED BY <2>1, <2>2 DEF Fits, HopsLeft
<1>2. HandlerInv => Bounded BY <1>1
<1> QED BY <1>2, HandlerAlways, PTL

\* A request for a URL runs with a worker that serves it, and with the longest name of those
\* that do, whatever the names: never with one whose host only begins alike.
THEOREM RightWorkerCorrect == HandlerSpec => []RightWorker
<1>1. ASSUME HandlerInv PROVE RightWorker
  <2> SUFFICES ASSUME copy.get = Get_355, NEW c \in Alive, At(c, "run"), ~Balanced(c)
               PROVE  LET workers == children[c].workers
                          url == req[c].url
                          w == req[c].worker IN
                      /\ w # 0 => Serves(workers[w], url)
                      /\ \A i \in DOMAIN workers :
                           (~workers[i].matchable /\ url.absolute /\ Serves(workers[i], url)) =>
                             w # 0 /\ NameLength(workers[i]) <= NameLength(workers[w])
    BY DEF RightWorker
  <2> DEFINE workers == children[c].workers
             url == req[c].url
             w == req[c].worker
  <2>1. /\ Fits(copy, req[c], workers) /\ req[c].pc = "run" /\ url # None /\ SlotsTyped
    <3>1. req[c] # Idle BY DEF At, Idle
    <3> QED BY <1>1, <3>1 DEF HandlerInv, ReqInv, Alive, At, Balanced, SlotsInv
  <2>2. w = GetWorker(Get_355, workers, url, req[c].role) BY <2>1 DEF Fits
  <2>3. url \in Urls BY <2>1 DEF Fits, Asked
  <2>4. Named(url) BY <2>3, HandlerAssumption
  <2>5. /\ Len(workers) \in Nat /\ DOMAIN workers = 1 .. Len(workers)
        /\ \E g \in Configurations : workers = g.workers
    BY <2>1, LenThere
  <2>6. \A i \in DOMAIN workers : Named(workers[i]) /\ (workers[i].matchable => workers[i].path # <<>>)
    BY <2>5, HandlerAssumption
  <2> DEFINE role == req[c].role
             b == Best(Get_355, workers, url, role)[Len(workers)]
  <2> HIDE DEF workers, url, w, role
  <2>7. \A i \in DOMAIN workers : NameLength(workers[i]) \in Nat
    <3> TAKE i \in DOMAIN workers
    <3>1. Len(Text(workers[i])) \in Nat BY <2>6, TextThere
    <3> QED BY <3>1 DEF NameLength, Wildcard
  <2>8. /\ b # 0 => Eligible(Get_355, url, role, workers[b])
        /\ \A i \in 1 .. Len(workers) : Eligible(Get_355, url, role, workers[i]) =>
             b # 0 /\ NameLength(workers[i]) <= NameLength(workers[b])
    BY <2>5, <2>7, BestIsLongest
  <2>9. b \in 0 .. Len(workers) BY <2>5, BestOfList
  <2>10. Get_355.desocket /\ Get_355.lower /\ Get_355.ematch /\ ~Get_355.quote
         /\ Get_355.role = "anyone"
    BY DEF Get_355
  <2>11. w = IF url.absolute THEN b ELSE 0 BY <2>2, <2>10 DEF GetWorker, role
  <2> HIDE DEF b
  <2>12. ASSUME w # 0 PROVE Serves(workers[w], url)
    <3>1. w = b /\ w \in DOMAIN workers BY <2>5, <2>9, <2>11, <2>12
    <3>2. Eligible(Get_355, url, role, workers[w]) BY <2>8, <2>12, <3>1
    <3>3. IsPrefix(Text(workers[w]), Text(url)) BY <2>10, <3>2 DEF Eligible, Ematch
    <3>4. Named(workers[w]) /\ (workers[w].matchable => workers[w].path # <<>>) BY <2>6, <3>1
    <3>5. Len(Text(workers[w])) >= Len(url.host) \/ workers[w].path # <<>>
      <4>1. CASE workers[w].matchable BY <3>4, <4>1
      <4>2. CASE ~workers[w].matchable
        <5>1. Len(Text(workers[w])) \in Nat /\ Len(url.host) \in Nat BY <2>4, <3>4, TextThere
        <5>2. NameLength(workers[w]) >= Len(url.host) BY <3>2 DEF Eligible, MinMatch
        <5> QED BY <4>2, <5>1, <5>2 DEF NameLength
      <4> QED BY <4>1, <4>2
    <3> QED BY <2>4, <3>3, <3>4, <3>5, PrefixServes
  <2>13. ASSUME NEW i \in DOMAIN workers, ~workers[i].matchable, url.absolute, Serves(workers[i], url)
         PROVE  w # 0 /\ NameLength(workers[i]) <= NameLength(workers[w])
    <3>1. Named(workers[i]) BY <2>6
    <3>2. IsPrefix(Text(workers[i]), Text(url)) /\ Len(url.host) <= Len(Text(workers[i]))
      BY <2>4, <2>13, <3>1, ServesPrefix
    <3>3. Len(Text(workers[i])) \in Nat /\ Len(Text(url)) \in Nat /\ Len(url.host) \in Nat
      BY <2>4, <3>1, TextThere
    <3>4. NameLength(workers[i]) = Len(Text(workers[i])) BY <2>13, <3>3 DEF NameLength
    <3>5. Len(Text(workers[i])) <= Len(Text(url)) BY <3>2 DEF IsPrefix
    <3>6. Eligible(Get_355, url, role, workers[i])
      BY <2>10, <2>13, <3>2, <3>3, <3>4, <3>5 DEF Eligible, MinMatch, MayHave
    <3> QED BY <2>5, <2>8, <2>11, <2>13, <3>6
  <2> QED BY <2>12, <2>13 DEF workers, url, w
<1>2. HandlerInv => RightWorker BY <1>1
<1> QED BY <1>2, HandlerAlways, PTL
-----------------------------------------------------------------------------
(* What a process sees in shared memory is what it was told is there. *)

\* The method in a segment that somebody balances by stays the one they know.
Methods1 ==
  /\ (balshared /\ phase # "stopped") => segs[seg].method = lbmethod /\ lbmethod # None
  /\ \A c \in Alive :
       segs[children[c].seg].method = children[c].lbmethod /\ children[c].lbmethod # None

MethodsInv == copy.balancer.copies = "unless" /\ copy.balancer.method # "keep" => Methods1

\* These workers are in these slots, one in each.
Theirs(slots, a, workers, I) ==
  \A i \in I :
    /\ a[i] # 0 /\ slots[a[i]].name = workers[i]
    /\ slots[a[i]].mark \in {None, workers[i]}
    /\ \A j \in I : a[i] = a[j] => i = j

Sure == copy.names /\ slotname # "absolute" /\ copy.share.copies # "back"

\* No file is there yet for the segment that is still to be created; until it starts the
\* children the parent has the segment for itself, with nothing in the slots that are left.
ParentOwn ==
  /\ slotname = "relative" =>
       \A g \in 0 .. MaxGeneration :
         (g > gen \/ (g = gen /\ seg = None)) => files[<<slotname, g>>] = None
  /\ Theirs(segs[seg].slots, at, conf.workers, shared)
  /\ \A i \in DOMAIN conf.workers \ shared : own[i].name = conf.workers[i] /\ own[i].mark = None
  /\ (phase = "config" /\ seg # None) =>
       \A k \in DOMAIN segs[seg].slots :
         (\A i \in shared : at[i] # k) => segs[seg].slots[k].mark = None

\* Children that have a segment together have the same workers in the same slots: those of
\* one generation, the parent's or an older one.
ChildrenOwn ==
  \A c \in Alive :
    /\ Theirs(segs[children[c].seg].slots, children[c].at, children[c].workers,
              DOMAIN children[c].workers)
    /\ children[c].gen <= gen
    /\ children[c].gen = gen =>
         /\ phase # "config" /\ children[c].seg = seg
         /\ children[c].at = at /\ children[c].workers = conf.workers
    /\ children[c].gen # gen => children[c].seg # seg
    /\ \A d \in Alive : children[c].seg = children[d].seg =>
         children[c].at = children[d].at /\ children[c].workers = children[d].workers

OwnInv == Sure => ParentOwn /\ ChildrenOwn

AgreeInv == HandlerInv /\ MethodsInv /\ OwnInv

LEMMA InitAgree == HandlerInit => AgreeInv
<1> SUFFICES ASSUME HandlerInit PROVE AgreeInv OBVIOUS
<1>1. HandlerInv BY InitHandler
<1>2. SlotsInit BY DEF HandlerInit
<1>3. Alive = {} BY <1>2 DEF SlotsInit, Alive
<1>4. MethodsInv BY <1>2, <1>3 DEF SlotsInit, MethodsInv, Methods1
<1>5. conf \in Configurations /\ own = Define(conf.workers) /\ shared = {} /\ seg = None
      /\ slotname \in SlotNames /\ files = [f \in FileNames |-> None]
  BY <1>2 DEF SlotsInit
<1>6. ParentOwn
  <2>1. \A g \in 0 .. MaxGeneration : files[<<slotname, g>>] = None
    BY <1>5 DEF FileNames
  <2>2. \A i \in DOMAIN conf.workers : own[i].name = conf.workers[i] /\ own[i].mark = None
    BY <1>5 DEF Define
  <2> QED BY <1>5, <2>1, <2>2 DEF ParentOwn, Theirs
<1>7. ChildrenOwn BY <1>3 DEF ChildrenOwn
<1> QED BY <1>1, <1>4, <1>6, <1>7 DEF AgreeInv, OwnInv

LEMMA SureThere ==
  ASSUME SlotsTyped, Sure
  PROVE  /\ slotname = "relative" \/ slotname = "none"
         /\ slotname = "relative" => FileName(gen) = <<slotname, gen>>
         /\ \A g \in 0 .. MaxGeneration : <<slotname, g>> \in FileNames
<1>1. slotname \in SlotNames BY DEF SlotsTyped
<1>2. slotname \in {"relative", "absolute", "none"} BY <1>1, SlotsAssumption
<1>3. \A g \in 0 .. MaxGeneration : <<slotname, g>> \in FileNames BY <1>1 DEF FileNames
<1> QED BY <1>2, <1>3 DEF Sure, FileName

\* The parent attaches to no segment but its own.
LEMMA AttachKeeps ==
  ASSUME SlotsInv, Sure, ParentOwn, Attach
  PROVE  seg' = seg
<1>t. SlotsTyped BY DEF SlotsInv
<1>1. slotname = "relative" /\ FileName(gen) = <<slotname, gen>>
  BY <1>t, SureThere DEF Attach
<1>2. gen \in 0 .. MaxGeneration BY <1>t DEF SlotsTyped
<1>3. seg = None => files[FileName(gen)] = None BY <1>1, <1>2 DEF ParentOwn
<1> QED BY <1>1, <1>3 DEF Attach, Listed

LEMMA MethodsStepParent ==
  ASSUME AgreeInv, Parent, UNCHANGED req
  PROVE  MethodsInv'
<1>t. SlotsInv /\ SlotsTyped /\ MethodsInv BY DEF AgreeInv, HandlerInv, SlotsInv
<1>u. UNCHANGED <<copy, slotname, children>> /\ Alive' = Alive
  BY StepParent DEF AgreeInv
<1> SUFFICES ASSUME copy.balancer.copies = "unless", copy.balancer.method # "keep"
             PROVE  Methods1'
  BY <1>u DEF MethodsInv
<1>m. Methods1 BY <1>t DEF MethodsInv
<1>c. \A c \in Alive : children[c].seg \in Segments BY <1>t, ChildThere
<1>b. balshared => seg \in Segments BY <1>t DEF SlotsTyped
<1>1. CASE Attach
  <2>1. UNCHANGED <<phase, segs, balshared, lbmethod>> BY <1>1 DEF Attach, parent
  <2>2. seg # None => seg' = seg BY <1>1 DEF Attach, Listed
  <2>3. balshared => seg' = seg BY <1>t, <2>2 DEF SlotsTyped
  <2> QED BY <1>m, <1>u, <2>1, <2>3 DEF Methods1
<1>2. CASE Create
  <2>1. /\ seg = None /\ segs' = [segs EXCEPT ![seg'] = EmptySegment(Len(conf.workers))]
        /\ \A c \in Alive : children[c].seg # seg'
    BY <1>t, <1>2, SegmentFree
  <2>2. ~balshared /\ balshared' = balshared BY <1>t, <1>2, <2>1 DEF Create, SlotsTyped
  <2>3. \A c \in Alive : segs'[children[c].seg] = segs[children[c].seg]
    BY <1>t, <1>c, <2>1 DEF SlotsTyped
  <2> QED BY <1>m, <1>u, <2>2, <2>3 DEF Methods1
<1>3. ASSUME NEW i \in DOMAIN conf.workers, NEW k \in 1 .. MaxWorkers, ShareWorker(i, k)
      PROVE  Methods1'
  <2>1. UNCHANGED <<seg, balshared, lbmethod>> /\ phase = "config" BY <1>3 DEF ShareWorker
  <2>2. \A s \in Segments : segs'[s].method = segs[s].method
    <3>1. CASE copy.share.copies = "back" BY <1>3, <3>1 DEF ShareWorker
    <3>2. CASE copy.share.copies # "back"
      <4>1. PICK cell \in Cells : segs' = [segs EXCEPT ![seg].slots[k] = cell]
        BY <1>t, <1>3, <3>2, SharedThere
      <4>2. seg \in Segments BY <1>t, <1>3, <3>2, SharedThere
      <4>3. segs[seg] \in SegmentRecords /\ segs \in [Segments -> SegmentRecords]
        BY <1>t, <4>2 DEF SlotsTyped
      <4> DEFINE r == [segs[seg] EXCEPT !.slots[k] = cell]
      <4>4. r.method = segs[seg].method BY <4>3 DEF SegmentRecords
      <4>5. segs' = [segs EXCEPT ![seg] = r] BY <4>1
      <4> HIDE DEF r
      <4> QED BY <4>2, <4>3, <4>4, <4>5
    <3> QED BY <3>1, <3>2
  <2> QED BY <1>m, <1>u, <1>b, <1>c, <2>1, <2>2 DEF Methods1
<1>4. CASE ShareBalancer
  <2>1. PICK name \in Methods \cup {None} :
           /\ name = IF copy.balancer.copies = "always" \/ segs[seg].method = None
                     THEN conf.method ELSE segs[seg].method
           /\ lbmethod' = MethodFound(name)
           /\ (name \notin conf.providers /\ copy.balancer.method = "error") => phase' = "stopped"
           /\ seg \in Segments /\ segs'[seg].method = name
           /\ \A s \in Segments : s # seg => segs'[s] = segs[s]
    BY <1>t, <1>4, BalancerThere
  <2>2. UNCHANGED <<seg, conf>> BY <1>4 DEF ShareBalancer
  <2>3. copy.balancer.method = "error"
    <3> DEFINE u == Usual
    <3>1. u.balancer = Balancer_175 /\ Balancer_175.method = "error" /\ Balancer_276.method = "keep"
          /\ u = [names |-> u.names, share |-> u.share, balancer |-> u.balancer,
                  get |-> u.get, handler |-> u.handler]
      BY DEF Usual, Balancer_175, Balancer_243, Balancer_276
    <3>2. copy \in {u, [u EXCEPT !.names = Names_557], [u EXCEPT !.handler = Handler_358]}
                     \cup {[u EXCEPT !.share = s] : s \in {Share_278, Share_970}}
                     \cup {[u EXCEPT !.names = Names_557, !.balancer = Balancer_276]}
                     \cup {[u EXCEPT !.get = g] : g \in {Get_364_safe, Get_395, Get_421}}
      BY <1>t DEF SlotsTyped, KnownVersions
    <3> HIDE DEF u
    <3>3. copy.balancer \in {Balancer_175, Balancer_276} BY <3>1, <3>2
    <3> QED BY <3>1, <3>3
  <2>4. conf.method # None BY <1>t, ConfThere DEF SlotsTyped
  <2>5. name # None /\ (segs[seg].method # None => name = segs[seg].method) BY <2>1, <2>4
  <2>6. phase' # "stopped" => lbmethod' = name BY <2>1, <2>3 DEF MethodFound
  <2>7. \A c \in Alive : segs'[children[c].seg].method = segs[children[c].seg].method
    BY <1>m, <1>c, <2>1, <2>5 DEF Methods1
  <2> QED BY <1>m, <1>u, <2>1, <2>2, <2>5, <2>6, <2>7 DEF Methods1
<1>5. CASE StartFails \/ Start
  BY <1>5, <1>m, <1>u DEF Methods1, StartFails, Start, sharing
<1>6. CASE Restart
  <2>1. segs' = segs /\ balshared' = FALSE BY <1>6 DEF Restart, Configured
  <2> QED BY <1>m, <1>u, <2>1 DEF Methods1
<1> QED BY <1>1, <1>2, <1>3, <1>4, <1>5, <1>6 DEF Parent

LEMMA OwnStepParent ==
  ASSUME AgreeInv, Parent, UNCHANGED req
  PROVE  OwnInv'
<1>t. SlotsInv /\ SlotsTyped /\ Placed /\ OwnInv BY DEF AgreeInv, HandlerInv, SlotsInv
<1>u. UNCHANGED <<copy, slotname, children>> /\ Alive' = Alive
  BY StepParent DEF AgreeInv
<1> SUFFICES ASSUME Sure PROVE (ParentOwn /\ ChildrenOwn)'
  BY <1>u DEF OwnInv, Sure
<1>p. ParentOwn /\ ChildrenOwn BY <1>t DEF OwnInv
<1>c. \A c \in Alive : children[c].seg \in Segments BY <1>t, ChildThere
<1>n. None \notin Segments BY SlotsAssumption
<1>f. /\ slotname = "relative" \/ slotname = "none"
      /\ slotname = "relative" => FileName(gen) = <<slotname, gen>>
      /\ \A g \in 0 .. MaxGeneration : <<slotname, g>> \in FileNames
  BY <1>t, SureThere
<1>g. gen \in 0 .. MaxGeneration /\ files \in [FileNames -> Segments \cup {None}] BY <1>t DEF SlotsTyped
<1>1. CASE Attach
  <2>1. seg' = seg BY <1>t, <1>p, <1>1, AttachKeeps
  <2>2. UNCHANGED <<gen, phase, conf, files, segs, at, own, shared>> BY <1>1 DEF Attach, parent
  <2>3. ParentOwn' BY <1>p, <1>u, <2>1, <2>2 DEF ParentOwn, Theirs
  <2>4. ChildrenOwn' BY <1>p, <1>u, <2>1, <2>2 DEF ChildrenOwn, Theirs
  <2> QED BY <2>3, <2>4
<1>2. CASE Create
  <2>1. /\ seg = None /\ seg' \in Segments
        /\ segs' = [segs EXCEPT ![seg'] = EmptySegment(Len(conf.workers))]
        /\ \A c \in Alive : children[c].seg # seg'
    BY <1>t, <1>2, SegmentFree
  <2>2. UNCHANGED <<gen, phase, conf, at, own, shared>> /\ phase = "config" BY <1>2 DEF Create, parent
  <2>3. shared = {} BY <1>t, <2>1 DEF SlotsTyped
  <2>4. \A c \in Alive : segs'[children[c].seg] = segs[children[c].seg]
    BY <1>t, <1>c, <2>1 DEF SlotsTyped
  <2>5. Len(conf.workers) \in Nat BY <1>t, SlotsAssumption DEF SlotsTyped
  <2>6. \A k \in DOMAIN segs'[seg'].slots : segs'[seg'].slots[k].mark = None
    <3>1. segs'[seg'] = EmptySegment(Len(conf.workers)) BY <1>t, <2>1 DEF SlotsTyped
    <3>2. Unset.mark = None BY DEF Unset
    <3> QED BY <2>5, <3>1, <3>2, EmptyThere
  <2>7. slotname = "relative" => \A g \in 0 .. MaxGeneration : g > gen => files'[<<slotname, g>>] = None
    <3> SUFFICES ASSUME slotname = "relative", NEW g \in 0 .. MaxGeneration, g > gen
                 PROVE  files'[<<slotname, g>>] = None
      OBVIOUS
    <3>1. files' = [files EXCEPT ![<<slotname, gen>>] = seg'] BY <1>2, <1>f DEF Create
    <3>2. <<slotname, g>> # <<slotname, gen>> BY <1>g
    <3>3. files[<<slotname, g>>] = None BY <1>p DEF ParentOwn
    <3>4. <<slotname, g>> \in FileNames BY <1>f
    <3> QED BY <1>g, <3>1, <3>2, <3>3, <3>4
  <2>8. ParentOwn' BY <1>p, <1>u, <1>n, <2>1, <2>2, <2>3, <2>6, <2>7 DEF ParentOwn, Theirs
  <2>9. ChildrenOwn'
    <3>1. ASSUME NEW c \in Alive
          PROVE  Theirs(segs'[children[c].seg].slots, children[c].at, children[c].workers,
                        DOMAIN children[c].workers)
      BY <1>p, <2>4, <3>1 DEF ChildrenOwn
    <3>2. \A c \in Alive : children[c].gen <= gen /\ children[c].gen # gen
      BY <1>p, <2>2 DEF ChildrenOwn
    <3>3. \A c, d \in Alive : children[c].seg = children[d].seg =>
            children[c].at = children[d].at /\ children[c].workers = children[d].workers
      BY <1>p DEF ChildrenOwn
    <3>4. ASSUME NEW c \in Alive
          PROVE  Theirs(segs[children[c].seg].slots, children[c].at, children[c].workers,
                        DOMAIN children[c].workers)'
      BY <1>u, <3>1 DEF Theirs
    <3>5. \A c \in Alive : /\ children'[c].gen <= gen' /\ children'[c].gen # gen'
                          /\ children'[c].seg # seg'
      BY <1>u, <2>1, <2>2, <3>2
    <3> QED BY <1>u, <3>3, <3>4, <3>5 DEF ChildrenOwn
  <2> QED BY <2>8, <2>9
<1>3. ASSUME NEW i \in DOMAIN conf.workers, NEW k \in 1 .. MaxWorkers, ShareWorker(i, k)
      PROVE  (ParentOwn /\ ChildrenOwn)'
  <2> DEFINE cell == [Shared(copy.share.copies, segs[seg].slots[k], own[i]) EXCEPT !.index = k]
  <2>1. /\ seg \in Segments /\ k \in DOMAIN segs[seg].slots /\ k # 0
        /\ at' = [at EXCEPT ![i] = k] /\ own' = own
        /\ cell \in Cells /\ segs' = [segs EXCEPT ![seg].slots[k] = cell]
    BY <1>t, <1>3, SharedThere, SMTT(30) DEF Sure
  <2>2. /\ UNCHANGED <<gen, conf, files, seg, own>>
        /\ phase = "config" /\ seg # None /\ i \notin shared /\ shared' = shared \cup {i}
        /\ \A j \in shared : at[j] # k
    BY <1>3, <2>1 DEF ShareWorker
  <2>3. segs[seg] \in SegmentRecords /\ segs \in [Segments -> SegmentRecords]
    BY <1>t, <2>1 DEF SlotsTyped
  <2>4. segs[seg].slots[k] \in Cells /\ own[i] \in Cells BY <1>t, <2>1, <2>3 DEF SlotsTyped, SegmentRecords
  <2>5. own[i].name = conf.workers[i] /\ own[i].mark = None BY <1>p, <2>2 DEF ParentOwn
  <2>6. segs[seg].slots[k].mark = None BY <1>p, <2>1, <2>2 DEF ParentOwn
  <2>7. cell.name = conf.workers[i] /\ cell.mark = None
    BY <2>4, <2>5, <2>6 DEF Shared, Cells
  <2> HIDE DEF cell
  <2> DEFINE r == [segs[seg] EXCEPT !.slots[k] = cell]
  <2>8. /\ DOMAIN r.slots = DOMAIN segs[seg].slots /\ r.slots[k] = cell
        /\ \A j \in DOMAIN segs[seg].slots : j # k => r.slots[j] = segs[seg].slots[j]
    BY <2>1, <2>3 DEF SegmentRecords
  <2>9. segs' = [segs EXCEPT ![seg] = r] BY <2>1
  <2> HIDE DEF r
  <2>10. segs'[seg] = r /\ \A s \in Segments : s # seg => segs'[s] = segs[s] BY <2>1, <2>3, <2>9
  <2>11. \A j \in shared : j \in DOMAIN conf.workers /\ at'[j] = at[j] /\ at[j] # k
    BY <1>t, <2>1, <2>2 DEF SlotsTyped
  <2>12. at'[i] = k BY <1>t, <2>1 DEF SlotsTyped
  <2>13. \A j \in shared : at[j] # 0 => at[j] \in DOMAIN segs[seg].slots BY <1>t, <2>11 DEF Placed
  <2>14. Theirs(segs[seg].slots, at, conf.workers, shared) BY <1>p DEF ParentOwn
  <2>15. Theirs(segs'[seg].slots, at', conf.workers, shared')
    <3> SUFFICES ASSUME NEW j \in shared \cup {i}
                 PROVE  /\ at'[j] # 0 /\ segs'[seg].slots[at'[j]].name = conf.workers[j]
                        /\ segs'[seg].slots[at'[j]].mark \in {None, conf.workers[j]}
                        /\ \A l \in shared \cup {i} : at'[j] = at'[l] => j = l
      BY <2>2 DEF Theirs
    <3>1. CASE j = i BY <2>1, <2>7, <2>8, <2>10, <2>11, <2>12, <3>1
    <3>2. CASE j \in shared
      <4>1. r.slots[at[j]] = segs[seg].slots[at[j]] /\ at[j] # 0
        BY <2>8, <2>11, <2>13, <2>14, <3>2 DEF Theirs
      <4>2. \A l \in shared \cup {i} : at'[j] = at'[l] => j = l
        BY <2>11, <2>12, <2>14, <3>2 DEF Theirs
      <4> QED BY <2>10, <2>11, <2>14, <3>2, <4>1, <4>2 DEF Theirs
    <3> QED BY <3>1, <3>2
  <2>16. \A l \in DOMAIN segs'[seg].slots :
           (\A j \in shared' : at'[j] # l) => segs'[seg].slots[l].mark = None
    <3> SUFFICES ASSUME NEW l \in DOMAIN r.slots, \A j \in shared' : at'[j] # l
                 PROVE  r.slots[l].mark = None
      BY <2>10
    <3>1. l # k BY <2>2, <2>12
    <3>2. \A j \in shared : at[j] # l BY <2>2, <2>11
    <3> QED BY <1>p, <2>2, <2>8, <3>1, <3>2 DEF ParentOwn
  <2>17. ParentOwn' BY <1>p, <1>u, <2>2, <2>15, <2>16 DEF ParentOwn
  <2>18. \A c \in Alive : children[c].seg # seg BY <1>p, <2>2 DEF ChildrenOwn
  <2>19. \A c \in Alive : segs'[children[c].seg] = segs[children[c].seg] BY <1>c, <2>10, <2>18
  <2>20. ChildrenOwn'
    <3>1. \A c \in Alive : children[c].gen # gen BY <1>p, <2>2 DEF ChildrenOwn
    <3> QED BY <1>p, <1>u, <2>2, <2>19, <3>1 DEF ChildrenOwn
  <2> QED BY <2>17, <2>20
<1>4. CASE ShareBalancer
  <2>1. /\ seg \in Segments /\ phase' \in {"config", "stopped"}
        /\ \A s \in Segments : segs'[s].slots = segs[s].slots
    BY <1>t, <1>4, BalancerThere
  <2>2. UNCHANGED <<gen, conf, files, seg, at, own, shared>> /\ phase = "config"
    BY <1>4 DEF ShareBalancer
  <2>3. ParentOwn' BY <1>p, <1>u, <2>1, <2>2 DEF ParentOwn
  <2>4. \A c \in Alive : segs'[children[c].seg].slots = segs[children[c].seg].slots BY <1>c, <2>1
  <2>5. \A c \in Alive : children[c].gen # gen BY <1>p, <2>2 DEF ChildrenOwn
  <2>6. ChildrenOwn' BY <1>p, <1>u, <2>2, <2>4, <2>5 DEF ChildrenOwn
  <2> QED BY <2>3, <2>6
<1>5. CASE StartFails \/ Start
  <2>1. /\ UNCHANGED <<gen, conf, files, segs, seg, at, own, shared>> /\ phase = "config"
        /\ phase' # "config"
    BY <1>5 DEF StartFails, Start, sharing
  <2>2. ParentOwn' BY <1>p, <1>u, <2>1 DEF ParentOwn
  <2>3. ChildrenOwn' BY <1>p, <1>u, <2>1 DEF ChildrenOwn
  <2> QED BY <2>2, <2>3
<1>6. CASE Restart
  <2>1. PICK g \in Configurations : Configured(g) BY <1>6 DEF Restart
  <2>2. /\ conf' = g /\ seg' = None /\ at' = [i \in DOMAIN g.workers |-> 0]
        /\ own' = Define(g.workers) /\ shared' = {}
    BY <2>1 DEF Configured
  <2>3. gen' = gen + 1 /\ segs' = segs /\ phase' = "config" BY <1>6 DEF Restart
  <2>4. slotname = "relative" => \A h \in 0 .. MaxGeneration : h > gen => files'[<<slotname, h>>] = None
    <3> SUFFICES ASSUME slotname = "relative", NEW h \in 0 .. MaxGeneration, h > gen
                 PROVE  files'[<<slotname, h>>] = None
      OBVIOUS
    <3>1. files' = files \/ files' = [files EXCEPT ![FileName(gen)] = None] BY <1>6 DEF Restart
    <3>2. files[<<slotname, h>>] = None BY <1>p DEF ParentOwn
    <3>3. <<slotname, h>> \in FileNames BY <1>f
    <3> QED BY <1>g, <3>1, <3>2, <3>3
  <2>5. \A i \in DOMAIN g.workers : own'[i].name = g.workers[i] /\ own'[i].mark = None
    BY <2>2 DEF Define
  <2>6. ParentOwn'
    <3>1. slotname = "relative" =>
            \A h \in 0 .. MaxGeneration :
              (h > gen' \/ (h = gen' /\ seg' = None)) => files'[<<slotname, h>>] = None
      BY <1>g, <2>3, <2>4
    <3>2. Theirs(segs'[seg'].slots, at', conf'.workers, shared') BY <2>2 DEF Theirs
    <3> QED BY <1>u, <2>2, <2>5, <3>1, <3>2 DEF ParentOwn
  <2>7. ChildrenOwn'
    <3>1. \A c \in Alive : children[c].gen \in 0 .. MaxGeneration BY <1>t, ChildThere
    <3>2. \A c \in Alive : children[c].gen <= gen' /\ children[c].gen # gen' /\ children[c].seg # seg'
      BY <1>p, <1>c, <1>g, <1>n, <2>2, <2>3, <3>1 DEF ChildrenOwn
    <3> QED BY <1>p, <1>u, <2>3, <3>2 DEF ChildrenOwn
  <2> QED BY <2>6, <2>7
<1> QED BY <1>1, <1>2, <1>3, <1>4, <1>5, <1>6 DEF Parent

LEMMA AgreeStepFork ==
  ASSUME AgreeInv, NEW c \in Children, Fork(c)
  PROVE  MethodsInv' /\ OwnInv'
<1>t. SlotsInv /\ SlotsTyped /\ MethodsInv /\ OwnInv BY DEF AgreeInv, HandlerInv, SlotsInv
<1> DEFINE r == [gen |-> gen, workers |-> conf.workers, seg |-> seg, at |-> at, own |-> own,
                 lbmethod |-> lbmethod]
<1>1. /\ c \notin Alive /\ Alive' = Alive \cup {c}
      /\ \A d \in Alive : children'[d] = children[d]
      /\ children'[c] = r
      /\ seg \in Segments /\ phase = "running" /\ balshared /\ shared = DOMAIN conf.workers
      /\ UNCHANGED <<copy, slotname, gen, phase, conf, files, segs, seg, at, own, shared,
                     balshared, lbmethod>>
  BY <1>t, ForkThere
<1>2. /\ r.gen = gen /\ r.workers = conf.workers /\ r.seg = seg /\ r.at = at
      /\ r.lbmethod = lbmethod
  OBVIOUS
<1> HIDE DEF r
<1>3. MethodsInv' BY <1>t, <1>1, <1>2 DEF MethodsInv, Methods1
<1>4. OwnInv'
  <2> SUFFICES ASSUME Sure PROVE (ParentOwn /\ ChildrenOwn)'
    BY <1>1 DEF OwnInv, Sure
  <2>p. ParentOwn /\ ChildrenOwn BY <1>t DEF OwnInv
  <2>1. ParentOwn' BY <2>p, <1>1 DEF ParentOwn
  <2>2. Theirs(segs[seg].slots, at, conf.workers, DOMAIN conf.workers)
    BY <2>p, <1>1 DEF ParentOwn
  <2>3. \A d \in Alive : children[d].seg = seg =>
          children[d].at = at /\ children[d].workers = conf.workers
    BY <2>p DEF ChildrenOwn
  <2>4. ChildrenOwn'
    <3> SUFFICES ASSUME NEW d \in Alive \cup {c}
                 PROVE  /\ Theirs(segs[children'[d].seg].slots, children'[d].at,
                                  children'[d].workers, DOMAIN children'[d].workers)
                        /\ children'[d].gen <= gen
                        /\ children'[d].gen = gen =>
                             /\ phase # "config" /\ children'[d].seg = seg
                             /\ children'[d].at = at /\ children'[d].workers = conf.workers
                        /\ children'[d].gen # gen => children'[d].seg # seg
                        /\ \A e \in Alive \cup {c} : children'[d].seg = children'[e].seg =>
                             /\ children'[d].at = children'[e].at
                             /\ children'[d].workers = children'[e].workers
      BY <1>1 DEF ChildrenOwn
    <3>1. gen \in Nat BY <1>t, SlotsAssumption DEF SlotsTyped
    <3>2. CASE d = c BY <1>1, <1>2, <2>2, <2>3, <3>1, <3>2
    <3>3. CASE d \in Alive BY <1>1, <1>2, <2>p, <2>3, <3>3 DEF ChildrenOwn
    <3> QED BY <3>2, <3>3
  <2> QED BY <2>1, <2>4
<1> QED BY <1>3, <1>4

LEMMA AgreeStepExit ==
  ASSUME AgreeInv, NEW c \in Children, Exit(c)
  PROVE  MethodsInv' /\ OwnInv'
<1>t. SlotsInv /\ MethodsInv /\ OwnInv BY DEF AgreeInv, HandlerInv
<1>1. /\ \A d \in Alive' : d \in Alive /\ children'[d] = children[d]
      /\ UNCHANGED <<copy, slotname, gen, phase, conf, files, segs, seg, at, own, shared,
                     balshared, lbmethod>>
  BY <1>t, ExitThere
<1>2. MethodsInv' BY <1>t, <1>1 DEF MethodsInv, Methods1
<1>3. Sure' => ParentOwn' /\ ChildrenOwn'
  <2> SUFFICES ASSUME Sure PROVE ParentOwn' /\ ChildrenOwn' BY <1>1 DEF Sure
  <2>1. ParentOwn /\ ChildrenOwn BY <1>t DEF OwnInv
  <2> QED BY <1>1, <2>1 DEF ParentOwn, ChildrenOwn
<1> QED BY <1>2, <1>3 DEF OwnInv

\* A child writes only into slots of its own workers, and those who see that slot have the
\* same worker there.
LEMMA AgreeStepWrite ==
  ASSUME AgreeInv, NEW c \in Alive, NEW i \in DOMAIN children[c].workers, NEW cell \in Cells,
         Write(c, i, cell), cell.name = S(c, i).name,
         cell.mark \in {S(c, i).mark, None, children[c].workers[i]},
         UNCHANGED <<copy, slotname, parent, files, sharing>>
  PROVE  MethodsInv' /\ OwnInv'
<1>t. SlotsInv /\ SlotsTyped /\ Placed /\ MethodsInv /\ OwnInv
  BY DEF AgreeInv, HandlerInv, SlotsInv
<1>0. children[c].at[i] = 0 \/ children[c].at[i] \in DOMAIN segs[children[c].seg].slots
  BY <1>t DEF Placed
<1>1. /\ Alive' = Alive
      /\ \A s \in Segments : segs'[s].method = segs[s].method
      /\ \A d \in Alive : /\ children'[d].workers = children[d].workers
                          /\ children'[d].seg = children[d].seg
                          /\ children'[d].at = children[d].at
                          /\ children'[d].gen = children[d].gen
                          /\ children'[d].lbmethod = children[d].lbmethod
  BY <1>t, <1>0, WriteTyped
<1>2. UNCHANGED <<copy, slotname, gen, phase, conf, files, seg, at, own, shared, balshared, lbmethod>>
  BY DEF parent, sharing
<1>c. \A d \in Alive : children[d].seg \in Segments BY <1>t, ChildThere
<1>3. MethodsInv'
  <2>1. balshared => seg \in Segments BY <1>t DEF SlotsTyped
  <2> QED BY <1>t, <1>1, <1>2, <1>c, <2>1 DEF MethodsInv, Methods1
<1>4. OwnInv'
  <2> SUFFICES ASSUME Sure PROVE (ParentOwn /\ ChildrenOwn)'
    BY <1>2 DEF OwnInv, Sure
  <2>p. ParentOwn /\ ChildrenOwn BY <1>t DEF OwnInv
  <2> DEFINE sc == children[c].seg
             k == children[c].at[i]
             w == children[c].workers[i]
  <2>1. /\ k # 0 /\ segs[sc].slots[k].name = w
        /\ segs[sc].slots[k].mark \in {None, w}
        /\ \A j \in DOMAIN children[c].workers : children[c].at[j] = k => j = i
    BY <2>p DEF ChildrenOwn, Theirs
  <2>2. segs' = [segs EXCEPT ![sc].slots[k] = cell] /\ k \in DOMAIN segs[sc].slots
    BY <1>0, <2>1 DEF Write
  <2>3. cell.name = w /\ cell.mark \in {None, w} BY <2>1 DEF S
  <2>4. segs[sc] \in SegmentRecords /\ segs \in [Segments -> SegmentRecords] /\ sc \in Segments
    BY <1>t, <1>c DEF SlotsTyped
  <2> HIDE DEF sc, k, w
  <2> DEFINE r == [segs[sc] EXCEPT !.slots[k] = cell]
  <2>5. /\ DOMAIN r.slots = DOMAIN segs[sc].slots /\ r.slots[k] = cell
        /\ \A j \in DOMAIN segs[sc].slots : j # k => r.slots[j] = segs[sc].slots[j]
    BY <2>2, <2>4 DEF SegmentRecords
  <2>6. segs' = [segs EXCEPT ![sc] = r] BY <2>2
  <2> HIDE DEF r
  <2>7. segs'[sc] = r /\ \A s \in Segments : s # sc => segs'[s] = segs[s] BY <2>4, <2>6
  <2>8. ASSUME NEW I, I \subseteq DOMAIN children[c].workers,
               Theirs(segs[sc].slots, children[c].at, children[c].workers, I),
               \A j \in I : children[c].at[j] \in DOMAIN segs[sc].slots
        PROVE  Theirs(segs'[sc].slots, children[c].at, children[c].workers, I)
    <3> SUFFICES ASSUME NEW j \in I
                 PROVE  /\ r.slots[children[c].at[j]].name = children[c].workers[j]
                        /\ r.slots[children[c].at[j]].mark \in {None, children[c].workers[j]}
      BY <2>7, <2>8 DEF Theirs
    <3>1. CASE children[c].at[j] = k
      <4>1. j = i BY <2>1, <2>8, <3>1
      <4> QED BY <2>3, <2>5, <3>1, <4>1 DEF w
    <3>2. CASE children[c].at[j] # k BY <2>5, <2>8, <3>2 DEF Theirs
    <3> QED BY <3>1, <3>2
  <2>9. ASSUME NEW d \in Alive
        PROVE  Theirs(segs'[children[d].seg].slots, children[d].at, children[d].workers,
                      DOMAIN children[d].workers)
    <3>1. Theirs(segs[children[d].seg].slots, children[d].at, children[d].workers,
                 DOMAIN children[d].workers)
      BY <2>p DEF ChildrenOwn
    <3>2. CASE children[d].seg = sc
      <4>1. children[d].at = children[c].at /\ children[d].workers = children[c].workers
        BY <2>p, <3>2 DEF ChildrenOwn, sc
      <4>2. \A j \in DOMAIN children[c].workers : children[c].at[j] \in DOMAIN segs[sc].slots
        BY <1>t, <3>1, <3>2, <4>1 DEF Placed, Theirs, sc
      <4> QED BY <2>8, <3>1, <3>2, <4>1, <4>2
    <3>3. CASE children[d].seg # sc BY <1>c, <2>7, <3>1, <3>3
    <3> QED BY <3>2, <3>3
  <2>10. ChildrenOwn'
    <3>1. \A d \in Alive : children'[d].workers = children[d].workers
                           /\ children'[d].seg = children[d].seg
                           /\ children'[d].at = children[d].at
                           /\ children'[d].gen = children[d].gen
      BY <1>1
    <3> QED BY <1>1, <1>2, <2>p, <2>9, <3>1 DEF ChildrenOwn
  <2>11. ParentOwn'
    <3>1. CASE seg = sc
      <4>1. at = children[c].at /\ conf.workers = children[c].workers /\ phase # "config"
        BY <2>p, <3>1 DEF ChildrenOwn, sc
      <4>2. Theirs(segs[seg].slots, at, conf.workers, shared) BY <2>p DEF ParentOwn
      <4>3. shared \subseteq DOMAIN conf.workers BY <1>t DEF SlotsTyped
      <4>4. \A j \in shared : at[j] \in DOMAIN segs[seg].slots
        BY <1>t, <4>2, <4>3 DEF Placed, Theirs
      <4>5. Theirs(segs'[seg].slots, at, conf.workers, shared) BY <2>8, <3>1, <4>1, <4>2, <4>3, <4>4
      <4> QED BY <1>2, <2>p, <4>1, <4>5 DEF ParentOwn
    <3>2. CASE seg # sc
      <4>1. CASE seg \in Segments
        <5>1. segs'[seg] = segs[seg] BY <2>7, <3>2, <4>1
        <5> QED BY <1>2, <2>p, <5>1 DEF ParentOwn
      <4>2. CASE seg \notin Segments
        <5>1. shared = {} /\ seg = None BY <1>t, <4>2 DEF SlotsTyped
        <5> QED BY <1>2, <2>p, <5>1 DEF ParentOwn, Theirs
      <4> QED BY <4>1, <4>2
    <3> QED BY <3>1, <3>2
  <2> QED BY <2>10, <2>11
<1> QED BY <1>3, <1>4

LEMMA AgreeStep == AgreeInv /\ [HandlerNext]_handlerVars => AgreeInv'
<1> SUFFICES ASSUME AgreeInv, [HandlerNext]_handlerVars PROVE AgreeInv' OBVIOUS
<1>h. HandlerInv' BY StepHandler DEF AgreeInv
<1>u. ASSUME UNCHANGED slotVars PROVE MethodsInv' /\ OwnInv'
  <2>1. UNCHANGED <<copy, slotname, gen, phase, conf, files, segs, seg, at, own, shared,
                    balshared, lbmethod, children>>
    BY <1>u DEF slotVars, parent, sharing
  <2>2. Alive' = Alive BY <2>1 DEF Alive
  <2>3. MethodsInv' BY <2>1, <2>2 DEF AgreeInv, MethodsInv, Methods1
  <2>4. Sure' => ParentOwn' /\ ChildrenOwn'
    <3> SUFFICES ASSUME Sure PROVE ParentOwn' /\ ChildrenOwn' BY <2>1 DEF Sure
    <3>1. ParentOwn /\ ChildrenOwn BY DEF AgreeInv, OwnInv
    <3> QED BY <2>1, <2>2, <3>1 DEF ParentOwn, ChildrenOwn
  <2> QED BY <2>3, <2>4 DEF OwnInv
<1>1. CASE Parent /\ UNCHANGED req
  BY <1>1, <1>h, MethodsStepParent, OwnStepParent DEF AgreeInv
<1>2. ASSUME NEW c \in Children, Fork(c) PROVE AgreeInv'
  BY <1>2, <1>h, AgreeStepFork DEF AgreeInv
<1>3. ASSUME NEW c \in Children, Exit(c) PROVE AgreeInv'
  BY <1>3, <1>h, AgreeStepExit DEF AgreeInv
<1>4. ASSUME NEW c \in Alive, Handle(c) PROVE AgreeInv'
  <2>1. CASE UNCHANGED slotVars BY <1>h, <1>u, <2>1 DEF AgreeInv
  <2>2. CASE ~UNCHANGED slotVars
    <3>1. PICK i \in DOMAIN children[c].workers, cell \in Cells :
              /\ Write(c, i, cell)
              /\ cell.name = S(c, i).name
              /\ cell.mark \in {S(c, i).mark, None, children[c].workers[i]}
              /\ UNCHANGED <<copy, slotname, parent, files, sharing>>
      BY <1>4, <2>2, HandleWrites DEF AgreeInv
    <3>2. MethodsInv' /\ OwnInv' BY <3>1, AgreeStepWrite
    <3> QED BY <1>h, <3>2 DEF AgreeInv
  <2> QED BY <2>1, <2>2
<1>5. CASE UNCHANGED handlerVars
  <2>1. UNCHANGED slotVars BY <1>5 DEF handlerVars
  <2> QED BY <1>h, <1>u, <2>1 DEF AgreeInv
<1> QED BY <1>1, <1>2, <1>3, <1>4, <1>5 DEF HandlerNext

\* For every number of children, workers and restarts: a child sees the state of its own
\* workers, with no error that is another's, and every process balances by the method the
\* balancer's record names.
THEOREM SlotsAgreeCorrect == HandlerSpec => []SlotsAgree
<1>1. ASSUME AgreeInv PROVE OwnState
  <2> SUFFICES ASSUME Sure, NEW c \in Alive, NEW i \in DOMAIN children[c].workers
               PROVE  /\ S(c, i).name = children[c].workers[i]
                      /\ S(c, i).mark \in {None, children[c].workers[i]}
    BY DEF OwnState, Sure
  <2>1. ChildrenOwn BY <1>1 DEF AgreeInv, OwnInv
  <2> QED BY <2>1 DEF ChildrenOwn, Theirs, S
<1>2. ASSUME AgreeInv PROVE MethodAgrees
  BY <1>2 DEF AgreeInv, MethodsInv, Methods1, MethodAgrees
<1>3. AgreeInv => SlotsAgree BY <1>1, <1>2 DEF SlotsAgree
<1>4. HandlerSpec => []AgreeInv BY InitAgree, AgreeStep, PTL DEF HandlerSpec
<1> QED BY <1>3, <1>4, PTL
=============================================================================
