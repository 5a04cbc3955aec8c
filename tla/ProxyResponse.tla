---------------------------- MODULE ProxyResponse ---------------------------
(***************************************************************************)
(* ap_proxy_http_process_response (983_1.c, 977_1.c): the answer of a      *)
(* backend is read and given to the client.  Interim responses come first, *)
(* up to a limit; headers are read line by line (975_1.c, 976_1.c) and     *)
(* interim ones sent on (97_1.c and its copies); the body is read without  *)
(* waiting, and waited for once the client has what there is.  As soon as  *)
(* the body's end was read the connection is released, before the client   *)
(* has it all: another thread may have the connection from then on.        *)
(*                                                                         *)
(* Abstracted: headers are counted by their cookies alone; a blocking read *)
(* brings something or fails; the caller, which closes the connection of a *)
(* request that failed, is not among the sources.                          *)
(***************************************************************************)
EXTENDS Integers, FiniteSets

CONSTANTS
  MaxInterim,   \* AP_MAX_INTERIM_RESPONSES
  Requests,     \* what the client asks for and how the server is configured
  Versions      \* the copies that run together (below)

ASSUME ResponseAssumption ==
  /\ MaxInterim \in Nat \ {0}
  /\ Requests \subseteq
       [do_100_continue : BOOLEAN,
        pings : BOOLEAN,            \* the ping's timeout is not the connection's
        header_only : BOOLEAN,
        error_override : BOOLEAN,
        keepalive : BOOLEAN,        \* r->proxyreq = PROXYREQ_REVERSE and c->keepalives
        policy : {"RFC", "Suppress"},
        http11 : BOOLEAN,           \* r->proto_num >= 1001
        permitted : BOOLEAN,        \* user_has_permission
        badopt : {"error", "body", "ignore"}]
  /\ Versions \subseteq
       [answer : [forwards : BOOLEAN,   \* sends interim responses on
                  frames : BOOLEAN,     \* tells the filters how long the body is
                  pings : BOOLEAN],     \* sets the ping's timeout, and the old one
        interim : BOOLEAN,              \* asks for the user's permission
        skips : BOOLEAN]                \* skips the rest of a line too long

Answer_983 == [forwards |-> TRUE, frames |-> TRUE, pings |-> TRUE]
Answer_977 == [forwards |-> FALSE, frames |-> FALSE, pings |-> FALSE]
Interim_97 == FALSE
Interim_149 == FALSE
Interim_507 == FALSE
Interim_519 == FALSE
Interim_519_safe == TRUE
Headers_975 == TRUE
Headers_976 == FALSE

VARIABLES
  version, ask, pc,
  status,            \* proxy_status
  framing,           \* how the body of the response is delimited
  wire,              \* what of the response is still to be read
  rest,              \* what line that was too long has its rest next on the wire
  saw_headers, interim_response, do_100_continue,
  timeout,           \* of backend->sock
  conn,              \* whose the connection is
  close,             \* backend->close
  detached,          \* how often proxy_run_detach_backend ran
  save_table, cookies, \* Set-Cookie in save_table and in r->headers_out
  bb,                \* bytes of the body wait in bb
  mode, backend_broke, aborted, result,
  nth, received, given, sent, body, told, refused, split \* history, see Init

loopVars == <<status, framing, saw_headers, interim_response, do_100_continue, mode, bb>>
connVars == <<timeout, conn, close, detached>>
cookieVars == <<save_table, cookies, received, given>>
endVars == <<backend_broke, aborted, result>>
clientVars == <<sent, body, told, refused>>
vars == <<version, ask, pc, wire, rest, nth, split,
          loopVars, connVars, cookieVars, endVars, clientVars>>

Init ==
  /\ version \in Versions /\ ask \in Requests
  /\ pc = "status" /\ status = "none" /\ framing = "none"
  /\ wire = "head" /\ rest = "none" /\ saw_headers = FALSE
  /\ interim_response = 0 /\ do_100_continue = ask.do_100_continue
  /\ timeout = IF ask.do_100_continue /\ ask.pings /\ version.answer.pings THEN "ping" ELSE "old"
  /\ conn = "ours" /\ close = FALSE /\ detached = 0
  /\ save_table = {} /\ cookies = {}
  /\ bb = FALSE /\ mode = "nonblock"
  /\ backend_broke = FALSE /\ aborted = FALSE /\ result = "none"
  /\ nth = 1         \* which response of the backend it is
  /\ received = {}   \* the responses whose cookie was read
  /\ given = {}      \* ... and those whose cookie the client got
  /\ sent = FALSE    \* the head was sent to the client
  /\ body = "none"   \* ... and how much of the body
  /\ told = FALSE    \* the error and the end of the connection were
  /\ refused = FALSE \* a filter did not take some of this, though the client was there
  /\ split = FALSE   \* the rest of a header was taken for a line
-----------------------------------------------------------------------------
Detach == detached' = detached + 1
Return(r) == pc' = "returned" /\ result' = r
Interim(s) == s \in {"100", "103"}
Error(s) == s = "error"
Bodiless(s) == Interim(s) \/ s = "204"   \* and 304

\* What comes of ap_pass_brigade: all is well, a filter fails, or the client is gone
\* (c->aborted).
Outcomes == {"passed", "refused", "gone"}

\* The client is told by an error and the end of its connection; nobody looks whether it was.
TellsEnd(outcome) ==
  /\ told' = (outcome # "refused")
  /\ refused' = (outcome = "refused")
  /\ aborted' = (aborted \/ outcome = "gone")

\* What a response may go on with once its head is read.
WireAfter(s) == IF Bodiless(s) \/ ask.header_only THEN "clean" ELSE "body"

\* The status line cannot be read.
StatusFails(timeup, outcome) ==
  LET tellsClient == ask.keepalive /\ ~timeup IN
  /\ pc = "status"
  /\ Detach
  /\ close' = (close \/ tellsClient)
  /\ Return(IF timeup /\ do_100_continue THEN "503" ELSE IF tellsClient THEN "OK" ELSE "504")
  /\ IF tellsClient THEN TellsEnd(outcome) ELSE UNCHANGED <<told, refused, aborted>>
  /\ wire' = "dead"
  /\ UNCHANGED <<version, ask, rest, nth, split, loopVars, timeout, conn, cookieVars,
                 backend_broke, sent, body>>

\* A major version that is not 1, or a line as long as the buffer.
StatusCorrupt ==
  /\ pc = "status" /\ wire # "dead"
  /\ Detach /\ Return("502")
  /\ UNCHANGED <<version, ask, wire, rest, nth, split, loopVars, timeout, conn, close,
                 cookieVars, backend_broke, aborted, clientVars>>

\* The cookies of headers_out are put aside before ap_proxy_read_headers makes a new one.
StatusLine(s, f) ==
  /\ pc = "status" /\ wire # "dead"
  /\ pc' = "headers" /\ status' = s
  /\ framing' = IF WireAfter(s) = "body" THEN f ELSE "none"
  /\ wire' = "headers" /\ saw_headers' = FALSE
  /\ save_table' = cookies /\ cookies' = {}
  /\ UNCHANGED <<version, ask, rest, nth, split, interim_response, do_100_continue, mode, bb,
                 connVars, received, given, endVars, clientVars>>

\* No status line: the line is the beginning of the body.
Backasswards ==
  /\ pc = "status" /\ wire # "dead"
  /\ pc' = "answer" /\ status' = "200" /\ framing' = "close"
  /\ wire' = IF ask.header_only THEN "clean" ELSE "body"
  /\ bb' = TRUE
  /\ close' = TRUE
  /\ UNCHANGED <<version, ask, rest, nth, split, saw_headers, interim_response, do_100_continue,
                 mode, timeout, conn, detached, cookieVars, endVars, clientVars>>
-----------------------------------------------------------------------------
(* ap_proxy_read_headers *)

\* The headers are read: the cookies put aside join the new ones, and what the headers
\* say of the connection is noted.
HeadersRead(read, toclose) ==
  /\ pc' = "answer"
  /\ wire' = WireAfter(status)
  /\ cookies' = read \cup save_table /\ save_table' = {}
  /\ close' = (close \/ toclose)

EndOfHeaders(toclose) ==
  /\ pc = "headers" /\ rest = "none"
  /\ HeadersRead(cookies, toclose)
  /\ UNCHANGED <<version, ask, rest, nth, split, loopVars, timeout, conn, detached, received,
                 given, endVars, clientVars>>

\* A line cannot be read, because the connection ended or the time is up, or the rest of a
\* long one is empty, and the headers are taken to end here: what delimits the body may not
\* have been among them.
HeadersCut(timeup, toclose) ==
  /\ pc = "headers"
  /\ pc' = "answer"
  /\ wire' = IF timeup THEN "astray" ELSE "dead"
  /\ rest' = "none"
  /\ framing' \in {framing, IF framing = "none" THEN "none" ELSE "lost"}
  /\ cookies' = cookies \cup save_table /\ save_table' = {}
  /\ close' = (close \/ toclose)
  /\ UNCHANGED <<version, ask, nth, split, status, saw_headers, interim_response,
                 do_100_continue, mode, bb, timeout, conn, detached, received, given, endVars,
                 clientVars>>

\* A Connection header that is malformed, however the headers came to their end.
Malformed ==
  /\ pc = "headers"
  /\ close' = TRUE /\ Detach /\ Return("502")
  /\ UNCHANGED <<version, ask, wire, rest, nth, split, loopVars, timeout, conn, cookieVars,
                 backend_broke, aborted, clientVars>>

Takes(cookie) ==
  /\ saw_headers' = TRUE
  /\ received' = IF cookie THEN received \cup {nth} ELSE received
  /\ split' = (split \/ rest = "field")
CookiesWith(cookie) == IF cookie THEN cookies \cup {nth} ELSE cookies

\* A line with a colon.  Where the rest of a longer line is next it is the rest that is read.
Field(cookie) ==
  /\ pc = "headers"
  /\ Takes(cookie)
  /\ cookies' = CookiesWith(cookie)
  /\ rest' = "none"
  /\ UNCHANGED <<version, ask, pc, wire, nth, status, framing, interim_response, do_100_continue,
                 mode, bb, connVars, save_table, given, endVars, clientVars>>

\* A field that does not fit the buffer, left in part on the wire or not.  Skipping reads
\* on to the end of a line: the rest's, or that of the line after it, which may be the last.
LongField(left, cookie, toclose) ==
  /\ pc = "headers"
  /\ Takes(cookie)
  /\ rest' = IF left /\ ~version.skips THEN "field" ELSE "none"
  /\ \/ cookies' = CookiesWith(cookie) /\ UNCHANGED <<pc, wire, save_table, close>>
     \/ version.skips /\ ~left /\ HeadersRead(CookiesWith(cookie), toclose)
  /\ UNCHANGED <<version, ask, nth, status, framing, interim_response, do_100_continue,
                 mode, bb, timeout, conn, detached, given, endVars, clientVars>>

\* A line without a colon that is no status line either: ProxyBadHeader.
BadIsError ==
  /\ pc = "headers" /\ ask.badopt = "error"
  /\ split' = (split \/ rest = "field")
  /\ close' = TRUE /\ Detach /\ Return("502")
  /\ cookies' = {} /\ save_table' = {}
  /\ UNCHANGED <<version, ask, wire, rest, nth, loopVars, timeout, conn, received, given,
                 backend_broke, aborted, clientVars>>

\* The body is said to begin here, though headers may be left; without a header before it
\* the line is lost.
BadIsBody ==
  /\ pc = "headers" /\ ask.badopt = "body"
  /\ pc' = "answer" /\ wire' = "astray"
  /\ framing' \in {framing, IF framing = "none" THEN "none" ELSE "lost"}
  /\ bb' = saw_headers
  /\ rest' = "none" /\ split' = (split \/ rest = "field")
  /\ cookies' = cookies \cup save_table /\ save_table' = {}
  /\ UNCHANGED <<version, ask, nth, status, saw_headers, interim_response, do_100_continue,
                 mode, connVars, received, given, endVars, clientVars>>

\* It is left out, as is one that looks like a status line whatever the configuration.  The
\* next line is read at once, even if this one did not fit and its rest is what comes.
BadIsIgnored(left) ==
  /\ pc = "headers"
  /\ split' = (split \/ rest = "field")
  /\ rest' = IF left THEN "bogus" ELSE "none"
  /\ UNCHANGED <<version, ask, pc, wire, nth, loopVars, connVars, cookieVars, endVars, clientVars>>
-----------------------------------------------------------------------------
(* The answer *)

\* ap_send_interim_response; the headers that were sent are cleared, and nobody looks
\* whether they arrived.
MaySend == ask.http11 /\ (version.interim => ask.permitted)
Forwards == version.answer.forwards /\ ask.policy = "RFC" /\ MaySend

KeepsCookies(sends) == cookies' = cookies   \* mutant
ClearsHeaders(sends) == cookies' = IF sends THEN {} ELSE cookies

InterimResponse(outcome) ==
  LET ended == do_100_continue /\ status = "100"
      count == interim_response + 1 IN
  /\ pc = "answer" /\ Interim(status)
  /\ interim_response' = count
  /\ do_100_continue' = (do_100_continue /\ ~ended)
  /\ timeout' = IF ended /\ version.answer.pings THEN "old" ELSE timeout
  /\ given' = IF Forwards THEN given \cup cookies ELSE given
  /\ ClearsHeaders(Forwards)
  /\ bb' = FALSE
  /\ aborted' = (aborted \/ (Forwards /\ outcome = "gone"))
  /\ IF count < MaxInterim
     THEN /\ pc' = "status" /\ wire' = IF wire = "clean" THEN "head" ELSE wire
          /\ nth' = nth + 1 /\ UNCHANGED <<detached, result>>
     ELSE Detach /\ Return("502") /\ UNCHANGED <<wire, nth>>
  /\ UNCHANGED <<version, ask, rest, split, status, framing, saw_headers, mode, conn, close,
                 save_table, received, backend_broke, clientVars>>

\* Where the body ends for who reads it: with the connection, if nothing else was said.
EndsBefore == framing = "delimited" /\ version.answer.frames

\* An error that is answered by a page of this server's: the body is read and dropped.
Overridden == Error(status) /\ ask.error_override
ErrorOverride ==
  /\ pc = "answer" /\ Overridden
  /\ wire' \in IF ask.header_only THEN {wire} ELSE IF EndsBefore THEN {"clean", "dead"} ELSE {"dead"}
  /\ Detach /\ Return("error")
  /\ UNCHANGED <<version, ask, rest, nth, split, loopVars, timeout, conn, close, cookieVars,
                 backend_broke, aborted, clientVars>>

\* ap_pass_brigade: the first call sends the head with all it holds.  A filter that fails
\* may have let the head through.
Pass(much, outcome) ==
  /\ \/ sent' = TRUE /\ given' = given \cup cookies /\ cookies' = {}
     \/ outcome = "refused" /\ UNCHANGED <<sent, given, cookies>>
  /\ body' = IF outcome = "refused" THEN body ELSE much
  /\ bb' = FALSE
  /\ refused' = (outcome = "refused")
  /\ aborted' = (aborted \/ outcome = "gone")
  /\ UNCHANGED told

\* The two tests after a call: the first ends the body, the second decides the result.
Stops(outcome) == outcome # "passed" \/ aborted
Gone(outcome) == outcome = "gone" \/ aborted

\* A client that does not get it all costs the connection, while it is this request's.
ClosesAnyway(stops) == close' = (close \/ stops)   \* mutant
ClosesIfOurs(stops) == close' = (close \/ (stops /\ conn' = "ours"))

\* ap_proxy_release_connection: the pool closes it or gives it to the next request.
Release == conn' = IF close THEN "shut" ELSE "pool"

\* The end of the function: DONE if nobody can be told, OK also after a filter failed.
Leave(unheard) == Detach /\ Return(IF unheard THEN "DONE" ELSE "OK")

HeaderOnly(outcome) ==
  /\ pc = "answer" /\ ~Interim(status) /\ ~Overridden
  /\ ask.header_only \/ status = "204"
  /\ interim_response' = 0
  /\ Release
  /\ Pass("all", outcome)
  /\ Leave(Gone(outcome))
  /\ UNCHANGED <<version, ask, wire, rest, nth, split, status, framing, saw_headers,
                 do_100_continue, mode, timeout, close, save_table, received, backend_broke>>

StartBody ==
  /\ pc = "answer" /\ ~Interim(status) /\ ~Overridden
  /\ ~ask.header_only /\ status # "204"
  /\ pc' = "body" /\ interim_response' = 0 /\ mode' = "nonblock"
  /\ UNCHANGED <<version, ask, wire, rest, nth, split, status, framing, saw_headers,
                 do_100_continue, bb, connVars, cookieVars, endVars, clientVars>>

\* Bytes of the body, and what was kept of its beginning, go to the client.
PassBody(much, outcome) == Pass(much, outcome) /\ ClosesIfOurs(Stops(outcome))
bodyFrame == <<version, ask, rest, nth, split, status, framing, saw_headers, interim_response,
               do_100_continue, timeout, save_table, received>>

\* The loop is left when the client did not get it, with the connection still this request's.
StopsOrGoesOn(outcome) ==
  IF Stops(outcome) THEN Leave(Gone(outcome)) ELSE UNCHANGED <<pc, detached, result>>

\* Nothing to read yet: the client gets what there is before the thread waits.
BodyWaits(outcome) ==
  /\ pc = "body" /\ mode = "nonblock"
  /\ UNCHANGED conn
  /\ PassBody(IF bb THEN "some" ELSE body, outcome)
  /\ mode' = "block"
  /\ StopsOrGoesOn(outcome)
  /\ UNCHANGED <<bodyFrame, wire, backend_broke>>

\* Some bytes, not the last.
BodyData(outcome) ==
  /\ pc = "body" /\ wire # "dead"
  /\ UNCHANGED conn
  /\ PassBody("some", outcome)
  /\ mode' = "nonblock"
  /\ StopsOrGoesOn(outcome)
  /\ UNCHANGED <<bodyFrame, wire, backend_broke>>

\* The last bytes: the connection is released before the client gets them.
BodyEnds(outcome) ==
  /\ pc = "body" /\ EndsBefore
  /\ wire' = IF wire = "body" THEN "clean" ELSE wire
  /\ Release
  /\ PassBody("all", outcome)
  /\ Leave(Gone(outcome))
  /\ UNCHANGED <<bodyFrame, mode, backend_broke>>

\* The connection ends, and the body with it if it was not delimited.  Bytes that were
\* kept are dropped.
BodyEof ==
  /\ pc = "body" /\ ~EndsBefore
  /\ wire' = "dead" /\ close' = TRUE
  /\ body' \in IF framing = "close" /\ ~bb THEN {"all"} ELSE {body}
  /\ Leave(aborted)
  /\ UNCHANGED <<bodyFrame, bb, mode, conn, cookies, given, aborted, backend_broke, sent, told,
                 refused>>

\* Any other failure: the client is told by closing its connection.
BodyFails(outcome) ==
  /\ pc = "body"
  /\ wire' = "dead" /\ close' = TRUE /\ backend_broke' = TRUE
  /\ TellsEnd(outcome)
  /\ Leave(TRUE)
  /\ UNCHANGED <<bodyFrame, bb, mode, conn, cookies, given, sent, body>>
-----------------------------------------------------------------------------
ReadHead ==
  \/ \E timeup \in BOOLEAN, outcome \in Outcomes : StatusFails(timeup, outcome)
  \/ StatusCorrupt
  \/ \E s \in {"100", "103", "200", "204", "error"}, f \in {"delimited", "close"} : StatusLine(s, f)
  \/ Backasswards
  \/ \E toclose \in BOOLEAN : EndOfHeaders(toclose)
  \/ \E timeup, toclose \in BOOLEAN : HeadersCut(timeup, toclose)
  \/ Malformed
  \/ \E cookie \in BOOLEAN : Field(cookie)
  \/ \E left, cookie, toclose \in BOOLEAN : LongField(left, cookie, toclose)
  \/ BadIsError \/ BadIsBody
  \/ \E left \in BOOLEAN : BadIsIgnored(left)
Answer ==
  \/ ErrorOverride \/ StartBody \/ BodyEof
  \/ \E outcome \in Outcomes :
       \/ InterimResponse(outcome) \/ HeaderOnly(outcome)
       \/ BodyWaits(outcome) \/ BodyData(outcome) \/ BodyEnds(outcome) \/ BodyFails(outcome)
Next == ReadHead \/ Answer

Spec == Init /\ [][Next]_vars
-----------------------------------------------------------------------------
TypeOK ==
  /\ version \in Versions /\ ask \in Requests
  /\ pc \in {"status", "headers", "answer", "body", "returned"}
  /\ status \in {"none", "100", "103", "200", "204", "error"}
  /\ framing \in {"none", "delimited", "close", "lost"}
  /\ wire \in {"head", "headers", "body", "clean", "astray", "dead"}
  /\ rest \in {"none", "field", "bogus"} /\ split \in BOOLEAN /\ saw_headers \in BOOLEAN /\ bb \in BOOLEAN
  /\ do_100_continue \in BOOLEAN /\ close \in BOOLEAN /\ backend_broke \in BOOLEAN
  /\ aborted \in BOOLEAN /\ sent \in BOOLEAN /\ told \in BOOLEAN /\ refused \in BOOLEAN
  /\ interim_response \in 0 .. MaxInterim
  /\ timeout \in {"old", "ping"} /\ conn \in {"ours", "pool", "shut"} /\ detached \in 0 .. 1
  /\ nth \in Nat
  /\ save_table \subseteq Nat /\ cookies \subseteq Nat
  /\ received \subseteq Nat /\ given \subseteq Nat
  /\ mode \in {"nonblock", "block"} /\ body \in {"none", "some", "all"}
  /\ result \in {"none", "OK", "DONE", "502", "503", "504", "error"}

\* Every return has undone make_fake_req's attachment, and none has twice.
DetachedOnce == detached = IF pc = "returned" THEN 1 ELSE 0

\* A connection that is open for the next request has nothing of this answer left on it,
\* whether it was released here or is the caller's to release - unless the headers were
\* taken to end before they did - and waits as long as before if a 100 Continue came.
Reusable ==
  /\ ~close /\ (conn = "pool" \/ result \in {"OK", "DONE"}) =>
       wire \notin {"head", "headers", "body"}
  /\ conn = "pool" /\ ~do_100_continue => timeout = "old"

\* Once the connection may be another request's this one changes nothing of it, though
\* the client has yet to get the last bytes.
LetsGo == [][conn' # "ours" => close' = close /\ timeout' = timeout]_vars

\* The connection is given on in order, and given on once.
ConnectionKept == [](DetachedOnce /\ Reusable) /\ LetsGo

\* A request that returns has told the client how it ended: OK with all of the body or
\* with the connection's end (bytes still kept when the backend ends are lost), DONE when
\* there is nobody to tell or it was told, and an error only while no other answer was begun.
\* What a filter refuses is not told, and DONE says so only if the backend broke: the
\* function returns OK with the body cut where the filter failed (983_1.c:380, 415).
ClientTold ==
  /\ result = "OK" /\ version.answer.frames /\ framing # "lost"
       => body = "all" \/ told \/ bb \/ refused
  /\ result = "DONE" => aborted \/ (backend_broke /\ (told \/ refused))
  /\ result \in {"502", "503", "504", "error"} => ~sent /\ ~told /\ ~refused

\* A cookie of an interim response is given to the client once, with that response or
\* with a later one: none is lost and none comes twice.
CookiesGivenOnce ==
  /\ result # "502" => received = given \cup cookies \cup save_table
  /\ given \cap cookies = {} /\ given \cap save_table = {} /\ cookies \cap save_table = {}

\* The rest of a header that is too long is not taken for a line (976_1.c does, and both
\* do with the rest of a line without a colon that they ignore: 975_1.c:53).
LinesWhole == version.skips => ~split

\* What the backend answered reaches the client, but for what ClientTold and LinesWhole except.
AnswerKept == ClientTold /\ CookiesGivenOnce /\ LinesWhole
=============================================================================
