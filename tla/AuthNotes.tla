------------------------------ MODULE AuthNotes ------------------------------
(***************************************************************************)
(* set_notes_auth and get_notes_auth: form authentication notes the login  *)
(* of a request, so that the redirects and subrequests the server makes    *)
(* while it answers find it without asking again.  A request points to the *)
(* one it was redirected from (prev) and to the one it is a subrequest of  *)
(* (main); the notes are kept at the far end.                              *)
(***************************************************************************)
EXTENDS Naturals, FiniteSets, AuthVersions

CONSTANTS
  None, NoRealm,
  AuthNames,        \* what ap_auth_name may say; NULL where none is configured
  Logins,           \* what may be noted, a value or Null in each slot
  Wants,            \* the slots a caller of get_notes_auth may pass a pointer for
  NotesCopies       \* the pairs of copies that are used together

USER == 1   PW == 2   METHOD == 3   MIMETYPE == 4
Slots == {USER, PW, METHOD, MIMETYPE}
Nothing == [s \in Slots |-> Null]
NoneRead == [by |-> None, slots |-> Nothing]

\* apr_pstrcat ends at the first NULL: without a realm every slot has the empty name.
Key(realm, s) == IF realm = NoRealm THEN <<NoRealm, 0>> ELSE <<realm, s>>
Keys == {Key(realm, s) : realm \in AuthNames, s \in Slots}

ASSUME NotesAssumption ==
  /\ None \notin Requests
  /\ \A login \in Logins : DOMAIN login = Slots
  /\ \A pair \in NotesCopies :
       pair[1].pair \in {"given", "always", "both"} /\ pair[2].key # NoRealm
-----------------------------------------------------------------------------
VARIABLES
  setter, getter,
  live,        \* the requests there are
  main, prev, authname,
  client,      \* history: the client's own request each one stems from
  notes,       \* r->notes
  r_user,      \* r->user
  got          \* what the last step returned to its request, if it was get_notes_auth

vars == <<setter, getter, live, main, prev, authname, client, notes, r_user, got>>

Init ==
  /\ \E pair \in NotesCopies : setter = pair[1] /\ getter = pair[2]
  /\ live = {}
  /\ main = [r \in Requests |-> None] /\ prev = main /\ client = main
  /\ authname \in [Requests -> AuthNames]
  /\ notes = [r \in Requests |-> [k \in Keys |-> Null]]
  /\ r_user = [r \in Requests |-> Null]
  /\ got = NoneRead

New(r, m, p, c) ==
  /\ r \notin live
  /\ live' = live \cup {r}
  /\ main' = [main EXCEPT ![r] = m]
  /\ prev' = [prev EXCEPT ![r] = p]
  /\ client' = [client EXCEPT ![r] = c]
  /\ got' = NoneRead
  /\ UNCHANGED <<setter, getter, authname, notes, r_user>>

Receive(r) == New(r, None, None, r)
Subrequest(r, q) == q \in live /\ New(r, q, None, client[q])
Redirect(r, q) == q \in live /\ New(r, main[q], q, client[q])
-----------------------------------------------------------------------------
\* while (r->main) r = r->main; while (r->prev) r = r->prev;
Outermost[r \in Requests] == IF main[r] = None THEN r ELSE Outermost[main[r]]
First[r \in Requests] == IF prev[r] = None THEN r ELSE First[prev[r]]
OnlyMain(r) == Outermost[r]   \* mutant
Climb(r) == First[Outermost[r]]

\* The slots that are written.
Separately(login, permitted) == {s \in Slots : login[s] # Null}  \* mutant
Written(login, permitted) ==
  LET given == {s \in Slots : login[s] # Null}
      pair == {USER, PW}
  IN IF setter.pair = "both" /\ ~(pair \subseteq given /\ permitted) THEN {}
     ELSE (given \cap (Slots \ (IF setter.rest = "always" THEN {} ELSE pair)))
          \cup (IF setter.rest = "always" THEN Slots \ pair ELSE {})
          \cup (IF setter.pair = "always" THEN pair ELSE given \cap pair)

\* One after the other, so that of two with one name the later one stays.
Set(r, login, permitted) ==
  LET at == IF setter.climbs THEN Climb(r) ELSE r
      written == Written(login, permitted)
      under(k) == {s \in written : Key(authname[at], s) = k}
      last == CHOOSE s \in written : \A t \in written : t <= s
  IN /\ r \in live
     /\ setter.asks \/ permitted
     /\ notes' = IF written = {} THEN notes
                 ELSE [notes EXCEPT ![at] =
                         [k \in Keys |-> IF under(k) = {} THEN @[k]
                                         ELSE login[IF last \in under(k) THEN last
                                                    ELSE CHOOSE s \in under(k) : TRUE]]]
     /\ got' = NoneRead
     /\ UNCHANGED <<setter, getter, live, main, prev, authname, client, r_user>>
-----------------------------------------------------------------------------
LooksUnder(at) == IF getter.key = "realm" THEN authname[at] ELSE getter.key

Note(at, s) ==
  LET k == Key(LooksUnder(at), s) IN IF k \in Keys THEN notes[at][k] ELSE Null

GetsNothing(at) ==
  \/ getter.checks /\ authname[at] = NoRealm
  \/ getter.needsUser /\ Note(at, USER) = Null

Found(at, s) ==
  IF s = USER /\ getter.userKey = "other" THEN Null
  ELSE IF s = PW /\ getter.pw = "empty" THEN ""
  ELSE Note(at, s)

Get(r, want) ==
  LET at == IF getter.climbs THEN Climb(r) ELSE r
      found == [s \in Slots |-> IF s \in want /\ ~GetsNothing(at) THEN Found(at, s) ELSE Null]
  IN /\ r \in live
     /\ got' = [by |-> r, slots |-> found]
     /\ r_user' = IF getter.setsUser /\ found[USER] # Null
                THEN [r_user EXCEPT ![r] = found[USER]] ELSE r_user
     /\ UNCHANGED <<setter, getter, live, main, prev, authname, client, notes>>

Next ==
  \E r \in Requests :
    \/ Receive(r)
    \/ \E q \in Requests : Subrequest(r, q) \/ Redirect(r, q)
    \/ \E login \in Logins, permitted \in BOOLEAN : Set(r, login, permitted)
    \/ \E want \in Wants : Get(r, want)

Spec == Init /\ [][Next]_vars
-----------------------------------------------------------------------------
Noted(s) == {login[s] : login \in Logins} \ {Null}

HasRealm(r) ==
  authname[IF getter.climbs THEN Climb(r) ELSE r] # NoRealm \/ getter.checks

\* What comes back as the user was noted as a user, as the password as a password, and
\* so on, and who a request is said to come from was noted as a user: one name for all
\* four would mix them up.
RightSlot ==
  /\ got.by # None /\ HasRealm(got.by) =>
       \A s \in Slots : got.slots[s] \in Noted(s) \cup {Null, ""}
  /\ \A r \in Requests : HasRealm(r) => r_user[r] \in Noted(USER) \cup {Null}

\* Where the pair is stored as a pair, nobody gets the user of one login with the password
\* of another, however many logins a request and its subrequests note.
PairTogether ==
  (/\ setter.pair # "given" /\ got.by # None /\ HasRealm(got.by)
   /\ got.slots[USER] # Null /\ got.slots[PW] \notin {Null, ""}) =>
    \E login \in Logins : login[USER] = got.slots[USER] /\ login[PW] = got.slots[PW]

\* The notes hold whole logins: each value under its own name, each pair together.
NotesWhole == RightSlot /\ PairTogether

\* Where both copies climb and the realm has a name, all this is one cell for each
\* client's request, shared by its redirects and subrequests.
Shares ==
  /\ setter.climbs /\ getter = Get_226
  /\ \A r \in Requests : authname[r] # NoRealm
Cell == INSTANCE LoginCell WITH
  cell <- [r \in Requests |-> [s \in Slots |->
             IF Shares THEN notes[r][Key(authname[r], s)] ELSE Null]],
  read <- IF Shares THEN got ELSE NoneRead
SharesLogin == Cell!Spec
=============================================================================
