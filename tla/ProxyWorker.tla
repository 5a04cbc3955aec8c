---------------------------- MODULE ProxyWorker ----------------------------
(***************************************************************************)
(* ap_proxy_get_worker: the worker for a URL is the one with the longest   *)
(* name that the URL begins with.  Names and URLs are a host and a path;   *)
(* the text of either is one after the other, and a path begins with a     *)
(* slash.  ap_proxy_define_worker has put the host of a name in lower      *)
(* case.                                                                   *)
(***************************************************************************)
EXTENDS Naturals, Sequences, SequencesExt

(* The copies of get_worker:                                               *)
(*   desocket  "unix:...|" before a URL is cut off                         *)
(*   lower     the host of the URL is put in lower case                    *)
(*   ematch    the name of a matchable worker must match                   *)
(*   role      who may have a worker: anyone, the "admin", or also a user  *)
(*             where the "level" of the worker allows it                   *)
(*   quote     no URL with a quote has a worker                            *)
(*   insecure  the worker it returns is no longer marked as secure         *)
Get_355 ==
  [desocket |-> TRUE, lower |-> TRUE, ematch |-> TRUE, role |-> "anyone", quote |-> FALSE,
   insecure |-> FALSE]
Get_364 == Get_355
Get_428 == Get_355
Get_525 == Get_355
Get_546 == Get_355
Get_302 == [Get_355 EXCEPT !.quote = TRUE]
Get_355_safe == [Get_355 EXCEPT !.role = "admin"]
Get_428_safe == Get_355_safe
Get_364_safe == [Get_355 EXCEPT !.role = "level"]
Get_546_safe == Get_364_safe
Get_395 == [Get_355 EXCEPT !.insecure = TRUE]
Get_404 == [Get_355 EXCEPT !.desocket = FALSE, !.lower = FALSE]
Get_601 == Get_404
Get_421 == [Get_355 EXCEPT !.ematch = FALSE]

Text(x) == x.host \o x.path

\* ap_proxy_strcmp_ematch, for names that end in a wildcard, which stands for two characters.
Wildcard == 2
Ematch(url, worker) == IsPrefix(Text(worker), Text(url))
NameLength(worker) == Len(Text(worker)) + (IF worker.matchable THEN Wildcard ELSE 0)

\* min_match: the name must at least name the host.
AnyLength(url) == 0     \* mutant
MinMatch(url) == Len(url.host)

MayHave(v, role, worker) ==
  CASE v.role = "anyone" -> TRUE
    [] v.role = "admin" -> role = "admin"
    [] v.role = "level" -> role = "admin" \/ (role = "user" /\ worker.level = 1)

Eligible(v, url, role, worker) ==
  LET cased == v.lower \/ ~url.upper IN
  /\ NameLength(worker) <= Len(Text(url))
  /\ NameLength(worker) >= MinMatch(url)
  /\ worker.matchable \/ (cased /\ IsPrefix(Text(worker), Text(url)))
  /\ v.ematch /\ worker.matchable => cased /\ Ematch(url, worker)
  /\ MayHave(v, role, worker)

\* The worker the loop has found when it was at each of them, by index, or 0.
Better(v, workers, url, role, best, i) ==
  /\ Eligible(v, url, role, workers[i])
  /\ best = 0 \/ NameLength(workers[i]) > NameLength(workers[best])
Best(v, workers, url, role) ==
  LET found[i \in 0 .. Len(workers)] ==
        IF i = 0 THEN 0
        ELSE IF Better(v, workers, url, role, found[i - 1], i) THEN i ELSE found[i - 1]
  IN found

GetWorker(v, workers, url, role) ==
  IF \/ ~url.absolute
     \/ url.socket /\ ~v.desocket
     \/ v.quote /\ url.quote
  THEN 0 ELSE Best(v, workers, url, role)[Len(workers)]
-----------------------------------------------------------------------------
\* What is meant: the same host, and a path under that of the worker.
Serves(worker, url) == worker.host = url.host /\ IsPrefix(worker.path, url.path)
=============================================================================
