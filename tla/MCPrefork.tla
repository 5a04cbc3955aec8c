------------------------------ MODULE MCPrefork -----------------------------
(* The copies of child_main and make_child with two children, for TLC. *)
EXTENDS Prefork

CONSTANTS c1, c2

\* Each child_main with each make_child that an httpd of its time could have had.
AllVersions ==
  {[child |-> Version_118, hears |-> HearsGraceful_138],
   [child |-> Version_136, hears |-> HearsGraceful_96],
   [child |-> Version_95, hears |-> HearsGraceful_54],
   [child |-> Version_53, hears |-> HearsGraceful_138]}
=============================================================================
