---------------------------- MODULE MCAuthSession ----------------------------
EXTENDS AuthSession, TLC
CONSTANTS q1, q2
MCLogins == {<<"A", "u", "x">>, <<"A", "v", Null>>, <<"B", "w", "y">>}
MCCopies ==
  ({Set_111, Set_111_safe, Set_165, Set_612} \X {Get_112})
  \cup ({Set_111} \X {Get_231_safe, Get_131_safe, Get_114, Get_167, Get_274, Get_275})
Symmetry == Permutations(Requests)
=============================================================================
