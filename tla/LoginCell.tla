------------------------------ MODULE LoginCell ------------------------------
(***************************************************************************)
(* What set_notes_auth and get_notes_auth promise together: one login for  *)
(* each request a client sends, shared by everything the server makes of   *)
(* that request, and by nothing else.                                      *)
(***************************************************************************)
CONSTANTS Requests, None, Slots, Logins, Null

VARIABLES
  client,   \* the client's request each request stems from, None if there is none yet
  cell,     \* the login noted for each client's request
  read      \* what the last step told its request, if it was a reading

vars == <<client, cell, read>>

NoneRead == [by |-> None, slots |-> [s \in Slots |-> Null]]

Init ==
  /\ client = [r \in Requests |-> None]
  /\ cell = [r \in Requests |-> [s \in Slots |-> Null]]
  /\ read = NoneRead

\* The client's own request, or one made of another.
Arrive(r, c) ==
  /\ client[r] = None
  /\ c = r \/ \E q \in Requests : client[q] # None /\ c = client[q]
  /\ client' = [client EXCEPT ![r] = c]
  /\ read' = NoneRead
  /\ UNCHANGED cell

\* A part of the login may be kept from before.
Store(r, login) ==
  /\ UNCHANGED client
  /\ client[r] # None
  /\ read' = NoneRead
  /\ \E S \in SUBSET Slots :
       cell' = [cell EXCEPT ![client[r]] = [s \in Slots |-> IF s \in S THEN login[s] ELSE @[s]]]

\* The request asks for some of the slots.
Read(r) ==
  /\ UNCHANGED <<client, cell>>
  /\ client[r] # None
  /\ \E want \in SUBSET Slots :
       read' = [by |-> r,
                slots |-> [s \in Slots |-> IF s \in want THEN cell[client[r]][s] ELSE Null]]

Next ==
  \E r \in Requests :
    \/ \E c \in Requests : Arrive(r, c)
    \/ \E login \in Logins : Store(r, login)
    \/ Read(r)

Spec == Init /\ [][Next]_vars
=============================================================================
