---------------------------- MODULE MCServerStop ----------------------------
(* The end of the parent with two slots and a third process, for TLC. *)
EXTENDS ServerStop

CONSTANTS p1, p2, p3

MCFirstChild == <<p1, p2>>
MCDeafSets == {{}, {p1, p3}}

\* Each copy of relief with the reclaim that does not exit at once, and the one
\* that does; both kinds of registration.
Together(c, l, r) == [reclaim |-> c, relieve |-> l, checks |-> r]
AllVersions ==
  {Together(Version_649, Version_215, Checks_37),
   Together(Version_649, Version_653, Checks_60),
   Together(Version_649, Version_555, Checks_65),
   Together(Version_649, Version_555_safe, Checks_60_safe),
   Together(Version_214, Version_573_safe, Checks_60)}
=============================================================================
