----------------------------- MODULE WorkQueue ------------------------------
(***************************************************************************)
(* What the queue between the listener and the workers promises: sockets   *)
(* are handed out in the order they came, each to one worker, a timer that *)
(* is due goes before any socket, and nothing is handed out twice or lost. *)
(***************************************************************************)
EXTENDS Sequences

CONSTANTS Workers, Items, Nothing

VARIABLES sockets, timers, got

Init == sockets = <<>> /\ timers = <<>> /\ got = [w \in Workers |-> Nothing]

PushSocket == /\ \E i \in Items : sockets' = Append(sockets, i)
              /\ UNCHANGED <<timers, got>>
PushTimer == /\ \E i \in Items : timers' = Append(timers, i)
             /\ UNCHANGED <<sockets, got>>

Pop(w) ==
  /\ got[w] = Nothing
  /\ IF timers # <<>>
     THEN got' = [got EXCEPT ![w] = Head(timers)] /\ timers' = Tail(timers)
          /\ UNCHANGED sockets
     ELSE /\ sockets # <<>>
          /\ got' = [got EXCEPT ![w] = Head(sockets)] /\ sockets' = Tail(sockets)
          /\ UNCHANGED timers

Finish(w) == /\ got[w] # Nothing
             /\ got' = [got EXCEPT ![w] = Nothing]
             /\ UNCHANGED <<sockets, timers>>

Next == PushSocket \/ PushTimer \/ \E w \in Workers : Pop(w) \/ Finish(w)

Spec == Init /\ [][Next]_<<sockets, timers, got>>
=============================================================================
