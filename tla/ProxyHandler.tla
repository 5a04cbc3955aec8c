---------------------------- MODULE ProxyHandler ----------------------------
(***************************************************************************)
(* proxy_handler: a child passes a request on to a worker, and tries       *)
(* another one if the balancer's worker does not answer.  The workers are  *)
(* those of ProxySlots, whose errors all children see.  A request may come *)
(* back to the server that passed it on; Max-Forwards is there to end      *)
(* that.                                                                   *)
(*                                                                         *)
(* Abstracted: each child serves one request at a time; the choice among   *)
(* the usable workers and the retry of one in error is the balancer's.     *)
(***************************************************************************)
EXTENDS ProxySlots

CONSTANTS
  Urls,         \* what may be asked for; None is the balancer
  Roles,
  Headers,      \* the values of Max-Forwards clients send, or -1 where there is none
  ConfMaxfwd,   \* ProxyMaxForwards, -1 to send none
  MaxAttempts,  \* of the balancer
  MaxBusy,      \* bound on the requests at one time
  MaxHops       \* bound on how often a request comes back

\* A host has no slash in it; what follows it begins with one, and is there if the name
\* goes on with a wildcard.
Named(x) ==
  /\ x.host \in Seq(Range(x.host)) /\ x.path \in Seq(Range(x.path))
  /\ \A k \in DOMAIN x.host : x.host[k] # "/"
  /\ x.path = <<>> \/ x.path[1] = "/"

ASSUME HandlerAssumption ==
  /\ MaxAttempts \in Nat /\ MaxHops \in Nat
  /\ ConfMaxfwd \in {-1} \cup Nat /\ Headers \subseteq {-1} \cup Nat
  /\ None \notin Urls /\ \A url \in Urls : Named(url)
  /\ \A c \in Configurations : \A i \in DOMAIN c.workers :
       Named(c.workers[i]) /\ (c.workers[i].matchable => c.workers[i].path # <<>>)
-----------------------------------------------------------------------------
VARIABLE req   \* the request of each child

handlerVars == <<slotVars, req>>

Idle == [pc |-> "idle"]
Request(url, role, header) ==
  [pc |-> "begin", url |-> url, role |-> role, maxfwd |-> header, worker |-> 0, attempts |-> 0,
   hops |-> 0, allowed |-> IF header # -1 THEN header ELSE ConfMaxfwd + 1]

HandlerInit == SlotsInit /\ req = [c \in Children |-> Idle]

At(c, from) == c \in Alive /\ req[c].pc = from
Finish(c) == req' = [req EXCEPT ![c] = Idle]
Balanced(c) == req[c].url = None

Receive(c) ==
  /\ At(c, "idle")
  /\ Cardinality({d \in Children : req[d] # Idle}) < MaxBusy
  /\ \E url \in Urls \cup {None}, role \in Roles, header \in Headers :
       req' = [req EXCEPT ![c] = Request(url, role, header)]
  /\ UNCHANGED slotVars

\* Max-Forwards is used up: a TRACE or OPTIONS is answered here, anything else refused.
NeverExhausted(v, maxfwd) == FALSE   \* mutant
Exhausted(v, maxfwd) == maxfwd # -1 /\ maxfwd < v.lowest
ForwardsLeft(v, maxfwd) == IF maxfwd > 0 THEN maxfwd + v.adds ELSE 0

\* A TRACE that is forbidden, a URL without a scheme, or a host without a domain.
Refuse(c) ==
  /\ At(c, "begin")
  /\ Finish(c)
  /\ UNCHANGED slotVars

Enter(c) ==
  /\ At(c, "begin") /\ ~Exhausted(copy.handler, req[c].maxfwd)
  /\ req' = [req EXCEPT ![c].pc = "try",
                        ![c].maxfwd = IF @ = -1 THEN ConfMaxfwd ELSE ForwardsLeft(copy.handler, @)]
  /\ UNCHANGED slotVars

\* ap_proxy_pre_request: a worker of the balancer that is usable, or the one for the URL;
\* 0 is the worker for what has none.
TryWorker(c) ==
  /\ At(c, "try") /\ Balanced(c)
  /\ \E i \in DOMAIN children[c].workers :
       /\ S(c, i).mark = None
       /\ req' = [req EXCEPT ![c].pc = "run", ![c].worker = i]
  /\ UNCHANGED slotVars

TryUrl(c) ==
  /\ At(c, "try") /\ ~Balanced(c)
  /\ LET i == GetWorker(copy.get, children[c].workers, req[c].url, req[c].role) IN
     /\ req' = [req EXCEPT ![c].pc = "run", ![c].worker = i]
     /\ IF i # 0 /\ copy.get.insecure
        THEN Write(c, i, [S(c, i) EXCEPT !.secure = FALSE])
        ELSE UNCHANGED <<segs, children>>
  /\ UNCHANGED <<copy, slotname, parent, files, sharing>>

\* No worker is usable, or the choice fails.
TryFails(c) ==
  /\ At(c, "try")
  /\ Finish(c)
  /\ UNCHANGED slotVars

\* Any answer that ends the request, also from one of the remote proxies.
Answered(c) ==
  /\ At(c, "run")
  /\ Finish(c)
  /\ UNCHANGED slotVars

\* The worker is a proxy that sends the request back here.
ComesBack(c) ==
  /\ At(c, "run") /\ req[c].hops < MaxHops
  /\ req' = [req EXCEPT ![c].pc = "begin", ![c].hops = @ + 1,
                        ![c].attempts = 0, ![c].worker = 0]
  /\ UNCHANGED slotVars

\* SERVICE_UNAVAILABLE, or INTERNAL_SERVER_ERROR, which is not tried again.
Fails(c) ==
  /\ At(c, "run")
  /\ req' \in {[req EXCEPT ![c].pc = "failed"], [req EXCEPT ![c] = Idle]}
  /\ IF Balanced(c)
     THEN Write(c, req[c].worker,
                [S(c, req[c].worker) EXCEPT !.mark = children[c].workers[req[c].worker]])
     ELSE UNCHANGED <<segs, children>>
  /\ UNCHANGED <<copy, slotname, parent, files, sharing>>

\* while (!PROXY_WORKER_IS_USABLE(worker) && max_attempts > attempts++)
MoreAttempts(c) == Balanced(c) /\ MaxAttempts > req[c].attempts
Again(c) ==
  /\ At(c, "failed")
  /\ LET w == req[c].worker
         unusable == w # 0 /\ S(c, w).mark # None IN
     req' = [req EXCEPT ![c] = IF unusable /\ MoreAttempts(c)
                               THEN [req[c] EXCEPT !.pc = "try", !.attempts = @ + 1] ELSE Idle]
  /\ UNCHANGED slotVars

\* The time for a retry has come.
Recover(c, i) ==
  /\ c \in Alive /\ S(c, i).mark # None
  /\ Write(c, i, [S(c, i) EXCEPT !.mark = None])
  /\ UNCHANGED <<copy, slotname, parent, files, sharing, req>>

\* A child of an old generation is left to finish its request.
Exit(c) ==
  /\ c \in Alive /\ phase # "stopped" /\ req[c] = Idle
  /\ children' = [children EXCEPT ![c] = NoChild]
  /\ UNCHANGED <<copy, slotname, parent, files, segs, sharing, req>>

Handle(c) ==
  \/ Receive(c) \/ Refuse(c) \/ Enter(c) \/ TryWorker(c) \/ TryUrl(c) \/ TryFails(c)
  \/ Answered(c) \/ ComesBack(c) \/ Fails(c) \/ Again(c)
  \/ \E i \in 1 .. MaxWorkers : i \in DOMAIN children[c].workers /\ Recover(c, i)

HandlerNext ==
  \/ Parent /\ UNCHANGED req
  \/ \E c \in Children :
       \/ Fork(c) /\ UNCHANGED req
       \/ Exit(c)
       \/ (phase # "stopped" /\ c \in Alive /\ Handle(c))

HandlerSpec == HandlerInit /\ [][HandlerNext]_handlerVars
-----------------------------------------------------------------------------
\* A request for a URL goes to a worker that serves it, and to the one with the longest
\* name: never to one whose host only begins alike.
RightWorker ==
  copy.get = Get_355 =>
    \A c \in Alive : At(c, "run") /\ ~Balanced(c) =>
      LET workers == children[c].workers
          url == req[c].url
          w == req[c].worker IN
      /\ w # 0 => Serves(workers[w], url)
      /\ \A i \in DOMAIN workers : ~workers[i].matchable /\ url.absolute /\ Serves(workers[i], url) =>
           w # 0 /\ NameLength(workers[i]) <= NameLength(workers[w])

\* No request is tried more often than the balancer allows, whatever other children do to
\* the marks meanwhile, and none goes round among proxies for ever.
Bounded ==
  \A c \in Alive : req[c] # Idle =>
    /\ req[c].attempts <= MaxAttempts
    /\ copy.handler.adds = -1 /\ req[c].allowed # 0 =>
         req[c].hops <= req[c].allowed
=============================================================================
