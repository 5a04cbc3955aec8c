---------------------------- MODULE MCCgidDaemon ----------------------------
(* The daemon with two connection ids and two httpds, for TLC. *)
EXTENDS CgidDaemon

CONSTANTS a, b

MCClients == {<<Us, a>>, <<Us, b>>, <<Other, a>>}

AllVersions ==
  {[server |-> Version_316, init |-> Init_328],
   [server |-> Version_317, init |-> Init_328_safe],
   [server |-> Version_326, init |-> Init_616]}
=============================================================================
