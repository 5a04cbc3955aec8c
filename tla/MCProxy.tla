------------------------------ MODULE MCProxy ------------------------------
(* Two workers, one restart and two children; and one answer of a backend   *)
(* after up to one interim response.  The two share nothing: a behaviour is *)
(* one of one of them.                                                      *)
EXTENDS ProxyResponse, ProxyHandler, TLC

CONSTANTS c1, c2, s1, s2, s3
-----------------------------------------------------------------------------
\* Every configuration with the policy of RFC 2616, and where the client gets no interim response.
Usually ==
  [do_100_continue : BOOLEAN, pings : {TRUE}, header_only : BOOLEAN, error_override : BOOLEAN,
   keepalive : {TRUE}, policy : {"RFC"}, http11 : {TRUE}, permitted : {TRUE},
   badopt : {"error", "body", "ignore"}]
Seldom ==
  [do_100_continue |-> TRUE, pings |-> FALSE, header_only |-> FALSE, error_override |-> FALSE,
   keepalive |-> FALSE, policy |-> "RFC", http11 |-> TRUE, permitted |-> FALSE,
   badopt |-> "ignore"]
MCRequests ==
  Usually
    \cup {Seldom, [Seldom EXCEPT !.policy = "Suppress", !.permitted = TRUE],
          [Seldom EXCEPT !.http11 = FALSE, !.permitted = TRUE]}
Copies(answer, interim, skips) == [answer |-> answer, interim |-> interim, skips |-> skips]
MCVersions ==
  {Copies(Answer_983, Interim_519_safe, Headers_975), Copies(Answer_983, Interim_97, Headers_976),
   Copies(Answer_977, Interim_97, Headers_975)}
-----------------------------------------------------------------------------
Worker(host, path, matchable, level) ==
  [host |-> host, path |-> path, matchable |-> matchable, level |-> level]
W1 == Worker(<<"a">>, <<>>, FALSE, 0)
W2 == Worker(<<"a", "b">>, <<>>, FALSE, 0)
W3 == Worker(<<"a", "b">>, <<"/", "x">>, FALSE, 1)
W4 == Worker(<<"a", "b">>, <<"/">>, TRUE, 0)
Config(workers, malloced, method, providers) ==
  [workers |-> workers, malloced |-> malloced, method |-> method, providers |-> providers]
Config1 == Config(<<W1, W4>>, TRUE, "m", {"m"})
MCConfigurations == {Config1, Config(<<W2, W3>>, FALSE, "n", {"m", "n"})}

Url(path, upper) ==
  [host |-> <<"a", "b">>, path |-> path, upper |-> upper, socket |-> FALSE, absolute |-> TRUE,
   quote |-> FALSE]
MCUrls == {Url(<<"/", "x", "y">>, TRUE), Url(<<"/">>, FALSE)}

VARIABLE what   \* "handler" or "answer"

Symmetry == Permutations(Children)

NoHandler == copy = Usual /\ slotname = "relative" /\ conf = Config1 /\ HandlerInit
NoAnswer ==
  /\ version = Copies(Answer_983, Interim_519_safe, Headers_975) /\ ask = Seldom
  /\ Init

MCInit ==
  \/ what = "handler" /\ HandlerInit /\ NoAnswer
  \/ what = "answer" /\ NoHandler /\ Init
MCNext ==
  /\ UNCHANGED what
  /\ \/ what = "handler" /\ HandlerNext /\ UNCHANGED vars
     \/ what = "answer" /\ Next /\ UNCHANGED handlerVars
MCSpec == MCInit /\ [][MCNext]_<<vars, what, handlerVars>>
=============================================================================
