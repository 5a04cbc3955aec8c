----------------------------- MODULE ServerPool -----------------------------
(***************************************************************************)
(* What the parent of a multi-process server promises of its book-keeping: *)
(* a set of slots in which a process lives, the number of them, and a      *)
(* limit below which all of them are.  Processes are launched only in      *)
(* empty slots, several at a time, and retired one by one; the limit may   *)
(* move at any time so long as it covers the living.                       *)
(***************************************************************************)
EXTENDS Integers

CONSTANTS Slots,    \* where a process can live
          Size(_)   \* the number of elements of a set of slots

VARIABLES live, count, limit

Covers(n, S) == \A i \in S : i < n

Init ==
  /\ live \in SUBSET Slots
  /\ count = Size(live)
  /\ Covers(limit, live)

Launch ==
  \E S \in SUBSET (Slots \ live) :
    /\ live' = live \cup S
    /\ count' = count + Size(S)
    /\ Covers(limit', live')

Retire ==
  \E i \in live :
    /\ live' = live \ {i}
    /\ count' = count - 1
    /\ UNCHANGED limit

Next == Launch \/ Retire

Spec == Init /\ [][Next]_<<live, count, limit>>
=============================================================================
