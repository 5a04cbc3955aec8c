----------------------------- MODULE MCAuthNotes -----------------------------
(* Three requests, so that a subrequest of a redirect is among them, for TLC. *)
EXTENDS AuthNotes, TLC

CONSTANTS r1, r2, r3

Login(u, p, m, t) == [s \in Slots |-> <<u, p, m, t>>[s]]
MCLogins ==
  {Login("u1", "p1", "m1", "t1"), Login("u2", "p2", Null, "t1"), Login(Null, "p3", Null, Null)}
MCWants == {Slots}
MCCopies ==
  ({Set_101, Set_104, Set_157, Set_121_safe} \X {Get_226})
  \cup ({Set_101} \X
          {Get_107, Get_161_safe, Get_225, Get_271_safe})
Symmetry == Permutations(Requests)
=============================================================================
