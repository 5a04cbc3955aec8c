--------------------------- MODULE MCChildThreads ---------------------------
(* Two workers, for TLC. *)
EXTENDS ChildThreads

MCWorkers == {0, 1}
MCListeners ==
  {Listener_491, Listener_1010, Listener_366, Listener_495, Listener_412, Listener_468,
   Listener_462, Listener_329, Listener_391, Listener_255, Listener_504, Listener_311,
   Listener_571, Listener_473, Listener_393, Listener_249, Listener_575, Listener_320,
   Listener_585, Listener_247, Listener_397, Listener_597, Listener_426, Listener_583, Listener_448, Listener_620, Listener_304,
   Listener_759, Listener_343, Listener_559, Listener_561, Listener_586, Listener_178,
   Listener_391_safe, Listener_473_safe, Listener_491_safe}
MCClosers == {Close_619, Close_619_safe}
MCJoiners == {Join_796, Join_768}
=============================================================================
