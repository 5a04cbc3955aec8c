----------------------------- MODULE AuthProofs -----------------------------
(***************************************************************************)
(* The two places where form authentication keeps a login.                 *)
(*                                                                         *)
(* The session: every session of the module, the stored one and the copies *)
(* of the requests, is a good one: what is in it for a realm is one login  *)
(* with the hash of its user.  A set makes a good session of a good one,   *)
(* and all other steps only copy sessions.                                 *)
(*                                                                         *)
(* The notes: from every request there is exactly one way to the client's  *)
(* own, so that set and get meet there; each value is under the name of    *)
(* its slot; and where both climb this is one cell for each client's       *)
(* request.                                                                *)
(***************************************************************************)
EXTENDS AuthNotes, AuthSession, TLAPS

Pairs(s) ==
  \A realm \in Realms : s[realm].user # Null => <<realm, s[realm].user, s[realm].pw>> \in RealmLogins
Good(s) == Matches(s) /\ Pairs(s)
AllGood ==
  ~loader.replaces => Good(stored) /\ \A r \in Requests : z[r] # NotLoaded => Good(z[r])

LEMMA EntryType ==
  ASSUME NEW u \in Users, NEW p \in Passwords \cup {Null}, NEW site \in Sites \cup {Null},
         NEW entry \in Entry
  PROVE  Replaced(entry, u, p, site) \in Entry
<1>1. HashStored(u, site, entry.hash) \in Hashes \cup {Null}
  BY DEF HashStored, Hashes, Entry, Digest, Text
<1> QED BY <1>1 DEF Replaced, Entry

LEMMA LoadedType ==
  ASSUME TypeOK, NEW r \in Requests
  PROVE  Loaded(r) \in Session
BY DEF TypeOK, Loaded

LEMMA LoadedGood ==
  ASSUME AllGood, ~loader.replaces, NEW r \in Requests
  PROVE  Good(Loaded(r))
BY DEF AllGood, Loaded

\* The hash that is stored is that of the user that is stored with it, or what was there.
LEMMA HashFits ==
  ASSUME NEW u \in Users, NEW site \in Sites \cup {Null}, NEW old,
         saver.hash # "none"
  PROVE  \/ HashStored(u, site, old) = Null
         \/ \E s \in Sites : HashStored(u, site, old) \in {Digest(u, s), Text(u, s)}
BY DEF HashStored

\* A copy that stores no hash leaves the one there is, which is none.
NoHash == saver.hash = "none" =>
  /\ \A realm \in Realms : stored[realm].hash = Null
  /\ \A r \in Requests, realm \in Realms : z[r] # NotLoaded => z[r][realm].hash = Null

LEMMA TypeInvariant == SessionSpec => []TypeOK
<1>1. SessionInit => TypeOK BY DEF SessionInit, TypeOK, Session, Entry, Empty
<1>2. TypeOK /\ [SessionNext]_session_vars => TypeOK'
  <2> SUFFICES ASSUME TypeOK, [SessionNext]_session_vars PROVE TypeOK' OBVIOUS
  <2>1. CASE UNCHANGED session_vars BY <2>1 DEF session_vars, TypeOK
  <2>2. ASSUME NEW r \in Requests, NEW login \in RealmLogins, NEW site \in Sites \cup {Null},
               SetSession(r, login[1], login[2], login[3], site)
        PROVE TypeOK'
    <3>1. login[1] \in Realms /\ login[2] \in Users /\ login[3] \in Passwords \cup {Null}
      BY SessionAssumption
    <3>2. Loaded(r) \in Session BY LoadedType
    <3>3. Replaced(Loaded(r)[login[1]], login[2], login[3], site) \in Entry
      BY <3>1, <3>2, EntryType DEF Session
    <3>4. [Loaded(r) EXCEPT ![login[1]] = Replaced(@, login[2], login[3], site)] \in Session
      BY <3>1, <3>2, <3>3 DEF Session
    <3> QED BY <2>2, <3>4 DEF SetSession, TypeOK
  <2>3. ASSUME NEW r \in Requests, SetRefused(r) PROVE TypeOK'
    BY <2>3, LoadedType DEF SetRefused, TypeOK
  <2>4. ASSUME NEW r \in Requests, NEW realm \in Realms, GetSession(r, realm) PROVE TypeOK'
    <3>1. Looked(Loaded(r), realm).user \in Users \cup {Null, "admin", "guest"}
      BY LoadedType DEF Looked, Session, Entry
    <3>2. user' \in [Requests -> Users \cup {Null, "admin", "guest"}]
      BY <2>4, <3>1 DEF GetSession, TypeOK
    <3> QED BY <2>4, <3>2, LoadedType DEF GetSession, TypeOK
  <2>5. ASSUME NEW r \in Requests, NEW realm \in Realms, GetAndReplace(r, realm) PROVE TypeOK'
    <3>1. Loaded(r) \in Session BY LoadedType
    <3>2. [Loaded(r) EXCEPT ![realm].user = "admin", ![realm].pw = "password123"] \in Session
      BY <3>1 DEF Session, Entry
    <3>3. user' \in [Requests -> Users \cup {Null, "admin", "guest"}]
      BY <2>5, <3>1 DEF GetAndReplace, TypeOK, Session, Entry
    <3> QED BY <2>5, <3>2, <3>3 DEF GetAndReplace, TypeOK
  <2>6. ASSUME NEW r \in Requests, GetWithoutPool(r) PROVE TypeOK'
    BY <2>6 DEF GetWithoutPool, TypeOK
  <2>7. ASSUME NEW r \in Requests, End(r) PROVE TypeOK'
    BY <2>7, LoadedType DEF End, TypeOK
  <2> QED BY <2>1, <2>2, <2>3, <2>4, <2>5, <2>6, <2>7 DEF SessionNext
<1> QED BY <1>1, <1>2, PTL DEF SessionSpec

LEMMA NoHashHolds ==
  ASSUME TypeOK, NoHash, [SessionNext]_session_vars
  PROVE  NoHash'
<1> SUFFICES ASSUME saver.hash = "none", saver' = saver PROVE NoHash'
  BY DEF NoHash, SessionNext, session_vars, SetSession, SetRefused, GetSession, GetAndReplace, GetWithoutPool, End
<1>1. \A r \in Requests, realm \in Realms : Loaded(r)[realm].hash = Null
  BY DEF NoHash, Loaded
<1>2. CASE UNCHANGED session_vars BY <1>2 DEF session_vars, NoHash
<1>3. ASSUME NEW r \in Requests, NEW login \in RealmLogins, NEW site \in Sites \cup {Null},
             SetSession(r, login[1], login[2], login[3], site)
      PROVE NoHash'
  <2>1. login[1] \in Realms /\ Loaded(r) \in Session BY SessionAssumption, LoadedType
  <2>2. Replaced(Loaded(r)[login[1]], login[2], login[3], site).hash = Null
    BY <1>1, <2>1 DEF Replaced, HashStored
  <2> QED BY <1>1, <1>3, <2>1, <2>2 DEF SetSession, NoHash, TypeOK, Session
<1>4. ASSUME NEW r \in Requests, SetRefused(r) PROVE NoHash'
  BY <1>1, <1>4 DEF SetRefused, NoHash, TypeOK
<1>5. ASSUME NEW r \in Requests, NEW realm \in Realms, GetSession(r, realm) PROVE NoHash'
  BY <1>1, <1>5 DEF GetSession, NoHash, TypeOK
<1>6. ASSUME NEW r \in Requests, NEW realm \in Realms, GetAndReplace(r, realm) PROVE NoHash'
  BY <1>1, <1>6, LoadedType DEF GetAndReplace, NoHash, TypeOK, Session, Entry
<1>7. ASSUME NEW r \in Requests, GetWithoutPool(r) PROVE NoHash'
  BY <1>7 DEF GetWithoutPool, NoHash
<1>8. ASSUME NEW r \in Requests, End(r) PROVE NoHash'
  BY <1>1, <1>8 DEF End, NoHash, TypeOK
<1> QED BY <1>2, <1>3, <1>4, <1>5, <1>6, <1>7, <1>8 DEF SessionNext

\* A set makes a good session of a good one.
LEMMA SetIsGood ==
  ASSUME TypeOK, NoHash, NEW r \in Requests, Good(Loaded(r)), NEW login \in RealmLogins,
         NEW site \in Sites \cup {Null}
  PROVE  Good([Loaded(r) EXCEPT ![login[1]] = Replaced(@, login[2], login[3], site)])
<1> DEFINE s == Loaded(r)
           t == [s EXCEPT ![login[1]] = Replaced(@, login[2], login[3], site)]
<1>1. login[1] \in Realms /\ login[2] \in Users /\ login = <<login[1], login[2], login[3]>>
  BY SessionAssumption
<1>2. s \in Session BY LoadedType
<1>3. /\ t[login[1]].user = login[2] /\ t[login[1]].pw = login[3]
      /\ t[login[1]].hash = HashStored(login[2], site, s[login[1]].hash)
  BY <1>1, <1>2 DEF Session, Replaced
<1>4. \A realm \in Realms : realm # login[1] => t[realm] = s[realm]
  BY <1>2 DEF Session
<1>5. saver.hash = "none" => HashStored(login[2], site, s[login[1]].hash) = Null
  BY <1>1 DEF NoHash, Loaded, HashStored
<1>6. \/ t[login[1]].hash = Null
      \/ \E x \in Sites : t[login[1]].hash \in {Digest(t[login[1]].user, x),
                                               Text(t[login[1]].user, x)}
  BY <1>1, <1>3, <1>5, HashFits
<1>7. Matches(t) BY <1>4, <1>6 DEF Matches, Good
<1>8. Pairs(t) BY <1>1, <1>3, <1>4 DEF Pairs, Good
<1> QED BY <1>7, <1>8 DEF Good

LEMMA GoodStays ==
  ASSUME TypeOK, NoHash, AllGood, [SessionNext]_session_vars
  PROVE  AllGood'
<1> SUFFICES ASSUME ~loader.replaces, loader' = loader PROVE AllGood'
  BY DEF AllGood, SessionNext, session_vars, SetSession, SetRefused, GetSession, GetAndReplace, GetWithoutPool, End
<1>1. \A r \in Requests : Good(Loaded(r)) BY LoadedGood
<1>2. CASE UNCHANGED session_vars BY <1>2 DEF session_vars, AllGood
<1>3. ASSUME NEW r \in Requests, NEW login \in RealmLogins, NEW site \in Sites \cup {Null},
             SetSession(r, login[1], login[2], login[3], site)
      PROVE AllGood'
  <2>1. Good([Loaded(r) EXCEPT ![login[1]] = Replaced(@, login[2], login[3], site)])
    BY <1>1, SetIsGood
  <2> QED BY <1>3, <2>1 DEF SetSession, AllGood, TypeOK
<1>4. ASSUME NEW r \in Requests, SetRefused(r) PROVE AllGood'
  BY <1>1, <1>4 DEF SetRefused, AllGood, TypeOK
<1>5. ASSUME NEW r \in Requests, NEW realm \in Realms, GetSession(r, realm) PROVE AllGood'
  BY <1>1, <1>5 DEF GetSession, AllGood, TypeOK
<1>6. ASSUME NEW r \in Requests, NEW realm \in Realms, GetAndReplace(r, realm) PROVE AllGood'
  BY <1>6 DEF GetAndReplace
<1>7. ASSUME NEW r \in Requests, GetWithoutPool(r) PROVE AllGood'
  BY <1>7 DEF GetWithoutPool, AllGood
<1>8. ASSUME NEW r \in Requests, End(r) PROVE AllGood'
  BY <1>1, <1>8 DEF End, AllGood, TypeOK
<1> QED BY <1>2, <1>3, <1>4, <1>5, <1>6, <1>7, <1>8 DEF SessionNext

LEMMA LoginStays ==
  ASSUME TypeOK, AllGood, OneLogin, [SessionNext]_session_vars
  PROVE  OneLogin'
<1>1. CASE UNCHANGED session_vars BY <1>1 DEF session_vars, OneLogin
<1>2. ASSUME NEW r \in Requests, NEW realm \in Realms, GetSession(r, realm) PROVE OneLogin'
  <2> SUFFICES ASSUME ~loader.replaces, loader.source = "session", looked_up' # Null,
                      looked_up'.entry.user # Null
               PROVE <<looked_up'.realm, looked_up'.entry.user, looked_up'.entry.pw>> \in RealmLogins
    BY <1>2 DEF OneLogin, GetSession
  <2>1. looked_up' = [realm |-> realm, entry |-> Loaded(r)[realm]] BY <1>2 DEF GetSession, Looked
  <2> QED BY <2>1, LoadedGood DEF Good, Pairs
<1>3. ASSUME NEW r \in Requests, NEW realm \in Realms, GetAndReplace(r, realm) PROVE OneLogin'
  BY <1>3 DEF GetAndReplace, OneLogin
<1>4. ASSUME looked_up' = Null PROVE OneLogin' BY <1>4 DEF OneLogin
<1> QED BY <1>1, <1>2, <1>3, <1>4 DEF SessionNext, SetSession, SetRefused, GetWithoutPool, End

\* The session functions keep to their types.
THEOREM TypeCorrect == SessionSpec => []TypeOK
BY TypeInvariant

LEMMA AllHold == SessionSpec => [](AllGood /\ OneLogin)
<1>1. SessionInit => NoHash /\ AllGood /\ OneLogin
  BY DEF SessionInit, NoHash, AllGood, OneLogin, Good, Matches, Pairs, Empty
<1>2. TypeOK /\ NoHash /\ AllGood /\ OneLogin /\ [SessionNext]_session_vars => NoHash' /\ AllGood' /\ OneLogin'
  BY NoHashHolds, GoodStays, LoginStays
<1> QED BY <1>1, <1>2, TypeInvariant, PTL DEF SessionSpec

\* In every session the hash is that of the user it is stored with.
THEOREM HashCorrect == SessionSpec => []HashOfUser
<1>1. AllGood => HashOfUser BY DEF AllGood, HashOfUser, Good
<1> QED BY <1>1, AllHold, PTL

\* What is read for a realm is the user and the password of one login there.
THEOREM LoginCorrect == SessionSpec => []OneLogin
BY AllHold, PTL
-----------------------------------------------------------------------------
(* The notes.  Outermost and First are functions that call themselves: they *)
(* are solutions of their equations, of which there is one as long as each  *)
(* request is made of one that was there before.  Every solution leads from *)
(* a request to the client's own, so that there the notes of a request are. *)
Follows(link, f) == f = [r \in Requests |-> IF link[r] = None THEN r ELSE f[link[r]]]

Links == [Requests -> live \cup {None}]
Chains ==
  /\ live \subseteq Requests
  /\ main \in Links /\ prev \in Links /\ client \in Links
  /\ \A r \in Requests \ live : main[r] = None /\ prev[r] = None /\ client[r] = None
  /\ \A r \in live : client[r] # None
  /\ \E f : Follows(main, f)
  /\ \E g : Follows(prev, g)
  /\ \A f, g : Follows(main, f) /\ Follows(prev, g) =>
       \A r \in live : f[r] \in live /\ g[f[r]] = client[r]

ClimbsToClient == \A r \in live : Climb(r) = client[r] /\ client[r] \in live

LEMMA ClimbEnds == Chains => ClimbsToClient
<1> SUFFICES ASSUME Chains PROVE ClimbsToClient OBVIOUS
<1>1. Follows(main, Outermost)
  <2>1. Outermost = CHOOSE f : Follows(main, f) BY DEF Outermost, Follows
  <2> QED BY <2>1 DEF Chains
<1>2. Follows(prev, First)
  <2>1. First = CHOOSE g : Follows(prev, g) BY DEF First, Follows
  <2> QED BY <2>1 DEF Chains
<1>3. \A r \in live : client[r] \in live BY DEF Chains, Links
<1> QED BY <1>1, <1>2, <1>3 DEF ClimbsToClient, Climb, Chains

\* A solution with a new request in it, and without it.
Onto(f, r, m) == [f EXCEPT ![r] = IF m = None THEN r ELSE f[m]]
Off(f, r) == [f EXCEPT ![r] = r]

\* Where a link follows from is one of the old solutions, but for the new request.
LEMMA NewLink ==
  ASSUME NEW L \in SUBSET Requests, NEW link \in [Requests -> L \cup {None}],
         NEW r \in Requests \ L, link[r] = None, NEW m \in L \cup {None},
         NEW longer, longer[r] = m, \A x \in Requests : x # r => longer[x] = link[x]
  PROVE  /\ \A f : Follows(link, f) =>
              Follows(longer, Onto(f, r, m))
         /\ \A f : Follows(longer, f) =>
              /\ Follows(link, Off(f, r))
              /\ (m = None => f[r] = r) /\ (m # None => f[r] = f[m])
              /\ DOMAIN f = Requests
<1>1. None \notin L BY NotesAssumption
<1>2. longer[r] = m /\ \A x \in Requests : x # r => longer[x] = link[x] OBVIOUS
<1>3. \A x \in Requests : link[x] # None => link[x] \in Requests /\ link[x] # r BY <1>1
<1>4. ASSUME NEW f, Follows(link, f)
      PROVE  Follows(longer, Onto(f, r, m))
  <2> DEFINE h == Onto(f, r, m)
  <2>1. DOMAIN f = Requests /\ \A x \in Requests : f[x] = IF link[x] = None THEN x ELSE f[link[x]]
    BY <1>4 DEF Follows
  <2>2. h = [x \in Requests |-> h[x]] BY <2>1 DEF Onto, Off
  <2>3. \A x \in Requests : h[x] = IF longer[x] = None THEN x ELSE h[longer[x]]
    BY <1>1, <1>2, <1>3, <2>1 DEF Onto
  <2> HIDE DEF h
  <2>4. Follows(longer, h) BY <2>2, <2>3 DEF Follows
  <2> QED BY <2>4 DEF h
<1>5. ASSUME NEW f, Follows(longer, f)
      PROVE  /\ Follows(link, Off(f, r))
             /\ (m = None => f[r] = r) /\ (m # None => f[r] = f[m])
             /\ DOMAIN f = Requests
  <2> DEFINE h == Off(f, r)
  <2>1. DOMAIN f = Requests /\ \A x \in Requests : f[x] = IF longer[x] = None THEN x ELSE f[longer[x]]
    BY <1>5 DEF Follows
  <2>2. h = [x \in Requests |-> h[x]] BY <2>1 DEF Onto, Off
  <2>3. \A x \in Requests : h[x] = IF link[x] = None THEN x ELSE h[link[x]]
    BY <1>1, <1>2, <1>3, <2>1 DEF Off
  <2>4. f[r] = IF m = None THEN r ELSE f[m] BY <1>2, <2>1
  <2> HIDE DEF h
  <2>5. Follows(link, h) BY <2>2, <2>3 DEF Follows
  <2> QED BY <2>1, <2>4, <2>5 DEF h
<1> QED BY <1>4, <1>5

\* A request that is made leaves the chains of the others alone, and its own goes on in
\* one of theirs.
LEMMA NewChains ==
  ASSUME Chains, NEW r \in Requests, NEW m \in live \cup {None}, NEW p \in live \cup {None},
         NEW c \in live \cup {r}, New(r, m, p, c),
         \A f, g : Follows(main, f) /\ Follows(prev, g) =>
           c = IF m # None THEN g[f[m]] ELSE IF p # None THEN g[p] ELSE r
  PROVE  Chains'
<1>1. r \notin live /\ live' = live \cup {r} /\ r # None /\ None \notin live
  BY NotesAssumption DEF New, Chains
<1>2. /\ main' = [main EXCEPT ![r] = m]
      /\ prev' = [prev EXCEPT ![r] = p]
      /\ client' = [client EXCEPT ![r] = c]
  BY DEF New
<1>3. main \in Links /\ prev \in Links /\ client \in Links /\ live \in SUBSET Requests
  BY DEF Chains
<1>4. main[r] = None /\ prev[r] = None /\ r \in Requests \ live BY <1>1 DEF Chains
<1>12. /\ main \in [Requests -> live \cup {None}] /\ prev \in [Requests -> live \cup {None}]
       /\ live \in SUBSET Requests
  BY <1>3 DEF Links
<1>13. /\ main'[r] = m /\ \A x \in Requests : x # r => main'[x] = main[x]
       /\ prev'[r] = p /\ \A x \in Requests : x # r => prev'[x] = prev[x]
  BY <1>2, <1>12
<1>5. live' \subseteq Requests /\ main' \in Links' /\ prev' \in Links' /\ client' \in Links'
  BY <1>1, <1>2, <1>3 DEF Links
<1>6. /\ \A x \in Requests \ live' : main'[x] = None /\ prev'[x] = None /\ client'[x] = None
      /\ \A x \in live' : client'[x] # None
  BY <1>1, <1>2, <1>3 DEF Links, Chains
<1>7. /\ \A f : Follows(main, f) =>
           Follows(main', Onto(f, r, m))
      /\ \A f : Follows(main', f) =>
           /\ Follows(main, Off(f, r))
           /\ (m = None => f[r] = r) /\ (m # None => f[r] = f[m])
           /\ DOMAIN f = Requests
  BY <1>13, <1>4, <1>12, NewLink
<1>8. /\ \A f : Follows(prev, f) =>
           Follows(prev', Onto(f, r, p))
      /\ \A f : Follows(prev', f) =>
           /\ Follows(prev, Off(f, r))
           /\ (p = None => f[r] = r) /\ (p # None => f[r] = f[p])
           /\ DOMAIN f = Requests
  BY <1>13, <1>4, <1>12, NewLink
<1>9. (\E f : Follows(main', f)) /\ (\E g : Follows(prev', g))
  BY <1>7, <1>8 DEF Chains
<1>10. ASSUME NEW f, NEW g, Follows(main', f), Follows(prev', g), NEW x \in live'
       PROVE  f[x] \in live' /\ g[f[x]] = client'[x]
  <2> DEFINE f0 == Off(f, r)
             g0 == Off(g, r)
  <2>1. Follows(main, f0) /\ Follows(prev, g0) BY <1>7, <1>8, <1>10
  <2>2. DOMAIN f = Requests /\ DOMAIN g = Requests BY <1>7, <1>8, <1>10
  <2>3. \A y \in Requests : y # r => f[y] = f0[y] /\ g[y] = g0[y] BY <2>2 DEF Off
  <2>4. f[r] = (IF m = None THEN r ELSE f[m]) /\ g[r] = (IF p = None THEN r ELSE g[p])
    BY <1>7, <1>8, <1>10
  <2> HIDE DEF f0, g0
  <2>5. \A y \in live : f0[y] \in live /\ g0[f0[y]] = client[y] BY <2>1 DEF Chains
  <2>6. \A y \in live : f[y] \in live /\ g[f[y]] = client[y]
    BY <1>1, <1>3, <2>3, <2>5
  <2>7. c = IF m # None THEN g0[f0[m]] ELSE IF p # None THEN g0[p] ELSE r BY <2>1
  <2>8. CASE x = r
    <3>1. CASE m # None
      <4>1. m \in live /\ m # r /\ f0[m] \in live /\ f0[m] # r BY <1>1, <2>5, <3>1
      <4> QED BY <1>1, <1>2, <1>3, <2>3, <2>4, <2>7, <2>8, <3>1, <4>1 DEF Links
    <3>2. CASE m = None
      BY <1>1, <1>2, <1>3, <2>3, <2>4, <2>7, <2>8, <3>2 DEF Links
    <3> QED BY <3>1, <3>2
  <2>9. CASE x # r BY <1>1, <1>2, <1>3, <2>6, <2>9
  <2> QED BY <2>8, <2>9
<1>11. \A f, g : Follows(main', f) /\ Follows(prev', g) =>
         \A x \in live' : f[x] \in live' /\ g[f[x]] = client'[x]
  BY <1>10
<1> QED BY <1>5, <1>6, <1>9, <1>11 DEF Chains

LEMMA ChainsHold == Spec => []Chains
<1>1. Init => Chains
  <2> SUFFICES ASSUME Init PROVE Chains OBVIOUS
  <2> DEFINE own == [r \in Requests |-> r]
  <2>1. Follows(main, own) /\ Follows(prev, own) BY DEF Init, Follows
  <2> QED BY <2>1 DEF Init, Chains, Links
<1>2. Chains /\ [Next]_vars => Chains'
  <2> SUFFICES ASSUME Chains, [Next]_vars PROVE Chains' OBVIOUS
  <2>1. CASE UNCHANGED <<live, main, prev, client>>
    BY <2>1 DEF Chains, Links
  <2>2. ASSUME NEW r \in Requests, Receive(r) PROVE Chains'
    BY <2>2, NewChains DEF Receive
  <2>3. ASSUME NEW r \in Requests, NEW q \in Requests, Subrequest(r, q) PROVE Chains'
    <3>1. q \in live /\ q # None /\ client[q] \in live
      BY <2>3, NotesAssumption DEF Subrequest, Chains, Links
    <3>2. \A f, g : Follows(main, f) /\ Follows(prev, g) => client[q] = g[f[q]]
      BY <3>1 DEF Chains
    <3> QED BY <2>3, <3>1, <3>2, NewChains DEF Subrequest
  <2>4. ASSUME NEW r \in Requests, NEW q \in Requests, Redirect(r, q) PROVE Chains'
    <3>1. q \in live /\ q # None /\ client[q] \in live /\ main[q] \in live \cup {None}
      BY <2>4, NotesAssumption DEF Redirect, Chains, Links
    <3>2. ASSUME NEW f, NEW g, Follows(main, f), Follows(prev, g)
          PROVE  client[q] = IF main[q] # None THEN g[f[main[q]]] ELSE g[q]
      <4>1. client[q] = g[f[q]] BY <3>1, <3>2 DEF Chains
      <4>2. f[q] = IF main[q] = None THEN q ELSE f[main[q]] BY <3>2 DEF Follows
      <4> QED BY <4>1, <4>2
    <3> QED BY <2>4, <3>1, <3>2, NewChains DEF Redirect
  <2> QED BY <2>1, <2>2, <2>3, <2>4 DEF Next, vars, Set, Get
<1> QED BY <1>1, <1>2, PTL DEF Spec

\* Which copies the functions are, and where what is noted comes from.
NotesTyped ==
  /\ setter.pair \in {"given", "always", "both"} /\ getter.key # NoRealm
  /\ authname \in [Requests -> AuthNames]
  /\ DOMAIN notes = Requests /\ \A r \in Requests : DOMAIN notes[r] = Keys
  /\ DOMAIN r_user = Requests /\ \A r \in Requests \ live : r_user[r] = Null
  /\ got.by \in live \cup {None}

Named == AuthNames \ {NoRealm}
EachUnderItsName ==
  \A r \in Requests, realm \in Named, s \in Slots :
    notes[r][<<realm, s>>] \in Noted(s) \cup {Null}
OneAnothers ==
  setter.pair # "given" =>
    \A r \in Requests, realm \in Named :
      notes[r][<<realm, USER>>] # Null /\ notes[r][<<realm, PW>>] # Null =>
        \E login \in Logins : /\ login[USER] = notes[r][<<realm, USER>>]
                             /\ login[PW] = notes[r][<<realm, PW>>]
NotesFit == EachUnderItsName /\ OneAnothers

LEMMA NotesTypedHolds == Spec => []NotesTyped
<1>1. Init => NotesTyped BY NotesAssumption DEF Init, NotesTyped, NoneRead
<1>2. NotesTyped /\ Chains /\ [Next]_vars => NotesTyped'
  <2> SUFFICES ASSUME NotesTyped, Chains, [Next]_vars PROVE NotesTyped' OBVIOUS
  <2>1. CASE UNCHANGED vars BY <2>1 DEF NotesTyped, vars
  <2>2. ASSUME NEW r \in Requests, NEW m, NEW p, NEW c, New(r, m, p, c) PROVE NotesTyped'
    BY <2>2 DEF New, NotesTyped, NoneRead
  <2>3. ASSUME NEW r \in Requests, NEW login \in Logins, NEW permitted \in BOOLEAN,
               Set(r, login, permitted)
        PROVE NotesTyped'
    <3>1. DOMAIN notes' = Requests /\ \A x \in Requests : DOMAIN notes'[x] = Keys
      BY <2>3 DEF Set, NotesTyped
    <3>2. UNCHANGED <<setter, getter, authname, r_user, live>> /\ got'.by = None
      BY <2>3 DEF Set, NoneRead
    <3> QED BY <3>1, <3>2 DEF NotesTyped
  <2>4. ASSUME NEW r \in Requests, NEW want \in Wants, Get(r, want) PROVE NotesTyped'
    <3>1. UNCHANGED <<setter, getter, authname, notes, live>> /\ got'.by = r /\ r \in live
      BY <2>4 DEF Get
    <3>2. DOMAIN r_user' = Requests /\ \A x \in Requests \ live : r_user'[x] = Null
      BY <2>4, <3>1 DEF Get, NotesTyped
    <3> QED BY <3>1, <3>2 DEF NotesTyped
  <2> QED BY <2>1, <2>2, <2>3, <2>4 DEF Next, Receive, Subrequest, Redirect
<1> QED BY <1>1, <1>2, ChainsHold, PTL DEF Spec

\* With a realm each slot has a name of its own, so that what is written under a name is
\* that slot of the login; and of the pair both are written or neither.
LEMMA WrittenUnder ==
  ASSUME NotesTyped, NEW r \in Requests, NEW login \in Logins, NEW permitted \in BOOLEAN,
         Set(r, login, permitted), NEW x \in Requests, NEW realm \in Named
  PROVE  LET here == x = (IF setter.climbs THEN Climb(r) ELSE r) /\ authname[x] = realm IN
         \A s \in Slots : notes'[x][<<realm, s>>] =
           IF here /\ s \in Written(login, permitted) THEN login[s] ELSE notes[x][<<realm, s>>]
<1> DEFINE at == IF setter.climbs THEN Climb(r) ELSE r
           written == Written(login, permitted)
           under(k) == {s \in written : Key(authname[at], s) = k}
           last == CHOOSE s \in written : \A t \in written : t <= s
           chosen(k) == IF last \in under(k) THEN last ELSE CHOOSE s \in under(k) : TRUE
<1>1. notes' = IF written = {} THEN notes
               ELSE [notes EXCEPT ![at] =
                      [k \in Keys |-> IF under(k) = {} THEN @[k] ELSE login[chosen(k)]]]
  BY DEF Set
<1>2. \A k : under(k) # {} => chosen(k) \in under(k) OBVIOUS
<1> HIDE DEF chosen, written, at
<1>3. CASE written = {} \/ x # at
  BY <1>1, <1>3 DEF NotesTyped, written, at
<1>4. CASE written # {} /\ x = at
  <2>1. \A k \in Keys : notes'[x][k] = IF under(k) = {} THEN notes[x][k] ELSE login[chosen(k)]
    BY <1>1, <1>4 DEF NotesTyped
  <2>2. \A s \in Slots : <<realm, s>> \in Keys BY DEF Keys, Named, Key
  <2>3. CASE authname[x] = realm
    <3>1. written \subseteq Slots BY DEF written, Written, Slots
    <3>2. \A s \in Slots : under(<<realm, s>>) = IF s \in written THEN {s} ELSE {}
      BY <1>4, <2>3, <3>1 DEF Key, Named
    <3>3. \A s \in Slots : s \in written => chosen(<<realm, s>>) = s BY <1>2, <3>2
    <3> QED BY <1>4, <2>1, <2>2, <2>3, <3>2, <3>3 DEF at, written
  <2>4. CASE authname[x] # realm
    <3>1. \A s \in Slots : under(<<realm, s>>) = {} BY <1>4, <2>4 DEF Key, Named
    <3> QED BY <2>1, <2>2, <2>4, <3>1
  <2> QED BY <2>3, <2>4
<1> QED BY <1>3, <1>4

LEMMA NotesFitHolds == Spec => []NotesFit
<1>1. Init => NotesFit
  <2> SUFFICES ASSUME Init PROVE NotesFit OBVIOUS
  <2>1. \A r \in Requests, realm \in Named, s \in Slots : notes[r][<<realm, s>>] = Null
    <3>1. \A realm \in Named, s \in Slots : <<realm, s>> \in Keys BY DEF Keys, Named, Key
    <3> QED BY <3>1 DEF Init
  <2> QED BY <2>1 DEF NotesFit, EachUnderItsName, OneAnothers, Slots
<1>2. NotesFit /\ NotesTyped /\ [Next]_vars => NotesFit'
  <2> SUFFICES ASSUME NotesFit, NotesTyped, [Next]_vars PROVE NotesFit' OBVIOUS
  <2>1. CASE UNCHANGED <<setter, notes>>
    BY <2>1 DEF NotesFit, EachUnderItsName, OneAnothers
  <2>2. ASSUME NEW r \in Requests, NEW login \in Logins, NEW permitted \in BOOLEAN,
               Set(r, login, permitted)
        PROVE NotesFit'
    <3>1. \A s \in Slots : login[s] \in Noted(s) \cup {Null} BY DEF Noted
    <3>2. EachUnderItsName'
      <4> SUFFICES ASSUME NEW x \in Requests, NEW realm \in Named, NEW s \in Slots
                   PROVE  notes'[x][<<realm, s>>] \in Noted(s) \cup {Null}
        BY DEF EachUnderItsName
      <4>1. notes[x][<<realm, s>>] \in Noted(s) \cup {Null}
        BY DEF NotesFit, EachUnderItsName
      <4> QED BY <2>2, <3>1, <4>1, WrittenUnder
    <3>3. OneAnothers'
      <4> SUFFICES ASSUME setter.pair # "given", NEW x \in Requests, NEW realm \in Named,
                          notes'[x][<<realm, USER>>] # Null, notes'[x][<<realm, PW>>] # Null
                   PROVE  \E l \in Logins : /\ l[USER] = notes'[x][<<realm, USER>>]
                                            /\ l[PW] = notes'[x][<<realm, PW>>]
        BY <2>2 DEF OneAnothers, Set
      <4>1. USER \in Slots /\ PW \in Slots BY DEF Slots
      <4>2. CASE \A s \in Slots : notes'[x][<<realm, s>>] = notes[x][<<realm, s>>]
        BY <4>1, <4>2 DEF NotesFit, OneAnothers
      <4>3. ASSUME NEW t \in Slots, notes'[x][<<realm, t>>] # notes[x][<<realm, t>>]
            PROVE  \E l \in Logins : /\ l[USER] = notes'[x][<<realm, USER>>]
                                     /\ l[PW] = notes'[x][<<realm, PW>>]
        <5>2. /\ t \in Written(login, permitted)
              /\ \A s \in Slots : notes'[x][<<realm, s>>] =
                   IF s \in Written(login, permitted) THEN login[s] ELSE notes[x][<<realm, s>>]
          BY <2>2, <4>3, WrittenUnder
        <5>1. USER \in Written(login, permitted) /\ PW \in Written(login, permitted)
          BY <5>2 DEF Written, NotesTyped, Slots
        <5> QED BY <4>1, <5>2, <5>1
      <4> QED BY <4>2, <4>3
    <3> QED BY <3>2, <3>3 DEF NotesFit
  <2> QED BY <2>1, <2>2 DEF Next, vars, Receive, Subrequest, Redirect, New, Get
<1> QED BY <1>1, <1>2, NotesTypedHolds, PTL DEF Spec

\* What a request is told, and who it is said to come from, is what is noted.
At(r) == IF getter.climbs THEN Climb(r) ELSE r

LEMMA OfKeys == \A k \in Keys : \E realm \in AuthNames, t \in Slots : k = Key(realm, t)
BY DEF Keys

LEMMA FoundIsNoted ==
  ASSUME NotesTyped, ClimbsToClient, Chains, NEW r \in Requests, NEW want \in Wants,
         Get(r, want), HasRealm(r)
  PROVE  /\ At(r) \in Requests
         /\ \A s \in Slots :
              \/ got'.slots[s] = Null
              \/ got'.slots[s] = "" /\ s = PW
              \/ /\ LooksUnder(At(r)) \in Named
                 /\ got'.slots[s] = notes[At(r)][<<LooksUnder(At(r)), s>>]
<1> DEFINE at == At(r)
<1>1. at \in Requests BY DEF Get, At, ClimbsToClient, Chains
<1> SUFFICES ASSUME NEW s \in Slots, got'.slots[s] # Null, ~(got'.slots[s] = "" /\ s = PW)
             PROVE  /\ LooksUnder(at) \in Named
                    /\ got'.slots[s] = notes[at][<<LooksUnder(at), s>>]
  BY <1>1
<1>2. ~GetsNothing(at) /\ got'.slots[s] = Found(at, s)
  BY DEF Get, At
<1>3. got'.slots[s] = Note(at, s) BY <1>2 DEF Found
<1>4. Key(LooksUnder(at), s) \in Keys /\ Note(at, s) = notes[at][Key(LooksUnder(at), s)]
  BY <1>3 DEF Note
<1>5. LooksUnder(at) # NoRealm
  BY <1>2 DEF LooksUnder, NotesTyped, HasRealm, GetsNothing, At
<1>6. LooksUnder(at) \in AuthNames
  <2>1. PICK realm \in AuthNames, t \in Slots : Key(LooksUnder(at), s) = Key(realm, t)
    BY <1>4, OfKeys
  <2>2. Key(LooksUnder(at), s) = <<LooksUnder(at), s>> BY <1>5 DEF Key
  <2>3. LooksUnder(at) = realm BY <1>5, <2>1, <2>2 DEF Key
  <2> QED BY <2>3
<1> QED BY <1>3, <1>4, <1>5, <1>6 DEF Key, Named

LEMMA NotesWholeHolds == Spec => []NotesWhole
<1>1. Init => NotesWhole
  BY NotesAssumption DEF Init, NotesWhole, RightSlot, PairTogether, NoneRead
<1>2. (/\ NotesWhole /\ NotesTyped /\ NotesFit /\ Chains /\ ClimbsToClient /\ ClimbsToClient'
       /\ NotesTyped' /\ [Next]_vars) => NotesWhole'
  <2> SUFFICES ASSUME NotesWhole, NotesTyped, NotesFit, Chains, ClimbsToClient, ClimbsToClient',
                      NotesTyped', [Next]_vars
               PROVE  NotesWhole'
    OBVIOUS
  <2>1. CASE UNCHANGED vars
    <3>1. \A r \in live : HasRealm(r)' = HasRealm(r)
      BY <2>1 DEF HasRealm, ClimbsToClient, vars
    <3>2. UNCHANGED <<setter, r_user, got, live>> BY <2>1 DEF vars
    <3>3. RightSlot' BY <3>1, <3>2 DEF NotesWhole, RightSlot, NotesTyped
    <3>4. PairTogether' BY <3>1, <3>2 DEF NotesWhole, PairTogether, NotesTyped
    <3> QED BY <3>3, <3>4 DEF NotesWhole
  <2>2. ASSUME got'.by = None, r_user' = r_user, UNCHANGED <<getter, authname>>,
               \A r \in live : r \in live' /\ client'[r] = client[r]
        PROVE NotesWhole'
    <3>1. \A r \in live : HasRealm(r)' = HasRealm(r)
      BY <2>2 DEF HasRealm, ClimbsToClient
    <3> QED BY <2>2, <3>1 DEF NotesWhole, RightSlot, PairTogether, NotesTyped
  <2>3. ASSUME NEW r \in Requests, NEW m, NEW p, NEW c, New(r, m, p, c) PROVE NotesWhole'
    <3>1. \A x \in live : x \in live' /\ client'[x] = client[x] BY <2>3 DEF New, Chains, Links
    <3> QED BY <2>2, <2>3, <3>1 DEF New, NoneRead
  <2>4. ASSUME NEW r \in Requests, NEW login \in Logins, NEW permitted \in BOOLEAN,
               Set(r, login, permitted)
        PROVE NotesWhole'
    BY <2>2, <2>4 DEF Set, NoneRead
  <2>5. ASSUME NEW r \in Requests, NEW want \in Wants, Get(r, want) PROVE NotesWhole'
    <3>1. UNCHANGED <<setter, getter, main, prev, authname>> /\ got'.by = r BY <2>5 DEF Get
    <3>2. \A x \in Requests : HasRealm(x)' = HasRealm(x)
      BY <3>1 DEF HasRealm, Climb, Outermost, First
    <3>3. HasRealm(r) => \A s \in Slots : got'.slots[s] \in Noted(s) \cup {Null, ""}
      BY <2>5, FoundIsNoted DEF NotesFit, EachUnderItsName
    <3>4. USER \in Slots /\ PW \in Slots /\ USER # PW BY DEF Slots, USER, PW
    <3>5. HasRealm(r) => got'.slots[USER] \in Noted(USER) \cup {Null}
      BY <2>5, <3>4, FoundIsNoted DEF NotesFit, EachUnderItsName
    <3>6. ASSUME NEW x \in Requests, HasRealm(x)' PROVE r_user'[x] \in Noted(USER) \cup {Null}
      <4>1. r_user' = r_user \/ r_user' = [r_user EXCEPT ![r] = got'.slots[USER]]
        BY <2>5 DEF Get
      <4> QED BY <3>2, <3>5, <3>6, <4>1 DEF NotesWhole, RightSlot, NotesTyped
    <3>7. PairTogether'
      <4> SUFFICES ASSUME setter.pair # "given", HasRealm(r), got'.slots[USER] # Null,
                          got'.slots[PW] \notin {Null, ""}
                   PROVE  \E login \in Logins : /\ login[USER] = got'.slots[USER]
                                               /\ login[PW] = got'.slots[PW]
        BY <3>1, <3>2 DEF PairTogether
      <4>1. /\ At(r) \in Requests /\ LooksUnder(At(r)) \in Named
            /\ got'.slots[USER] = notes[At(r)][<<LooksUnder(At(r)), USER>>]
            /\ got'.slots[PW] = notes[At(r)][<<LooksUnder(At(r)), PW>>]
        BY <2>5, <3>4, FoundIsNoted
      <4> QED BY <4>1 DEF NotesFit, OneAnothers
    <3>8. RightSlot' BY <3>1, <3>2, <3>3, <3>6 DEF RightSlot
    <3> QED BY <3>7, <3>8 DEF NotesWhole
  <2> QED BY <2>1, <2>3, <2>4, <2>5 DEF Next, Receive, Subrequest, Redirect
<1>3. Chains => ClimbsToClient BY ClimbEnds
<1> QED BY <1>1, <1>2, <1>3, NotesTypedHolds, NotesFitHolds, ChainsHold, PTL DEF Spec

\* The notes hold whole logins, wherever requests are redirected: what is read in a slot
\* was noted in that slot, and user and password are of one login if they are stored as a
\* pair.
THEOREM NotesCorrect == Spec => []NotesWhole
BY NotesWholeHolds
-----------------------------------------------------------------------------
(* The notes implement one cell for each client's request.                 *)
CellOf == [r \in Requests |-> [s \in Slots |->
             IF Shares THEN notes[r][Key(authname[r], s)] ELSE Null]]
ReadOf == IF Shares THEN got ELSE NoneRead

LEMMA CellSame ==
  ASSUME UNCHANGED <<setter, getter, authname, notes>>
  PROVE  CellOf' = CellOf
BY DEF CellOf, Shares

LEMMA ImplementsCell ==
  ASSUME NotesTyped, Chains, ClimbsToClient, NotesTyped', [Next]_vars
  PROVE  [Cell!Next]_(Cell!vars)
<1> USE DEF CellOf, ReadOf
<1>1. CASE UNCHANGED vars
  <2>1. CellOf' = CellOf /\ ReadOf' = ReadOf /\ client' = client
    BY <1>1, CellSame DEF vars, Shares
  <2> QED BY <2>1 DEF Cell!vars
<1>2. ASSUME NEW r \in Requests, NEW m, NEW p, NEW c, New(r, m, p, c),
             c = r \/ \E q \in live : c = client[q]
      PROVE  Cell!Next
  <2>1. UNCHANGED <<setter, getter, authname, notes>> /\ got' = NoneRead BY <1>2 DEF New
  <2>2. CellOf' = CellOf /\ ReadOf' = NoneRead BY <2>1, CellSame
  <2>3. client[r] = None /\ c \in Requests BY <1>2 DEF New, Chains, ClimbsToClient
  <2>4. c = r \/ \E q \in Requests : client[q] # None /\ c = client[q]
    BY <1>2 DEF Chains
  <2>5. client' = [client EXCEPT ![r] = c] BY <1>2 DEF New
  <2>6. Cell!Arrive(r, c)
    BY <2>2, <2>3, <2>4, <2>5 DEF Cell!Arrive, Cell!NoneRead, NoneRead, Nothing
  <2> QED BY <2>3, <2>6 DEF Cell!Next
<1>3. ASSUME NEW r \in Requests, NEW login \in Logins, NEW permitted \in BOOLEAN,
             Set(r, login, permitted)
      PROVE  [Cell!Next]_(Cell!vars)
  <2>1. /\ UNCHANGED <<setter, getter, authname, client>> /\ got' = NoneRead /\ r \in live
        /\ Shares' = Shares
    BY <1>3 DEF Set, Shares
  <2>2. CASE ~Shares
    <3>1. CellOf' = CellOf /\ ReadOf' = ReadOf BY <2>1, <2>2
    <3> QED BY <2>1, <3>1 DEF Cell!vars
  <2>3. CASE Shares
    <3> DEFINE S == Written(login, permitted) \cap Slots
               c == client[r]
    <3>1. c \in Requests /\ c = Climb(r) /\ client[r] # None
      BY <2>1 DEF ClimbsToClient, Chains
    <3>2. \A x \in Requests : authname[x] \in Named /\ \A s \in Slots : Key(authname[x], s) = <<authname[x], s>>
      BY <2>3 DEF Shares, Named, NotesTyped, Key
    <3>3. \A x \in Requests, s \in Slots :
            CellOf[x][s] = notes[x][<<authname[x], s>>] /\ CellOf'[x][s] = notes'[x][<<authname[x], s>>]
      BY <2>1, <2>3, <3>2
    <3>4. ASSUME NEW x \in Requests, NEW s \in Slots
          PROVE  CellOf'[x][s] = IF x = c /\ s \in S THEN login[s] ELSE CellOf[x][s]
      <4>1. notes'[x][<<authname[x], s>>] =
              IF x = c /\ s \in Written(login, permitted) THEN login[s]
              ELSE notes[x][<<authname[x], s>>]
        BY <1>3, <2>3, <3>1, <3>2, WrittenUnder DEF Shares
      <4> QED BY <3>3, <4>1
    <3>5. CellOf' = [CellOf EXCEPT ![c] = [s \in Slots |-> IF s \in S THEN login[s] ELSE CellOf[c][s]]]
      <4> DEFINE row == [s \in Slots |-> IF s \in S THEN login[s] ELSE CellOf[c][s]]
                 stored_there == [CellOf EXCEPT ![c] = row]
      <4>1. /\ \A x \in Requests : /\ CellOf'[x] = [s \in Slots |-> CellOf'[x][s]]
                                    /\ CellOf[x] = [s \in Slots |-> CellOf[x][s]]
            /\ CellOf' = [x \in Requests |-> CellOf'[x]]
            /\ stored_there = [x \in Requests |-> stored_there[x]]
        OBVIOUS
      <4>2. \A x \in Requests : stored_there[x] = IF x = c THEN row ELSE CellOf[x] BY <3>1
      <4> HIDE DEF CellOf, stored_there, S
      <4>3. CellOf'[c] = row
        <5>1. \A s \in Slots : CellOf'[c][s] = row[s] BY <3>1, <3>4
        <5>2. CellOf'[c] = [s \in Slots |-> CellOf'[c][s]] BY <3>1, <4>1
        <5> QED BY <5>1, <5>2
      <4>4. ASSUME NEW x \in Requests, x # c PROVE CellOf'[x] = CellOf[x]
        <5>1. \A s \in Slots : CellOf'[x][s] = CellOf[x][s] BY <3>4, <4>4
        <5>2. CellOf'[x] = [s \in Slots |-> CellOf'[x][s]] /\ CellOf[x] = [s \in Slots |-> CellOf[x][s]]
          BY <4>1
        <5> QED BY <5>1, <5>2
      <4>5. \A x \in Requests : CellOf'[x] = stored_there[x] BY <4>2, <4>3, <4>4
      <4>6. CellOf' = stored_there BY <4>1, <4>5
      <4> QED BY <4>6 DEF stored_there
    <3>6. ReadOf' = NoneRead BY <2>1, <2>3
    <3>7. S \in SUBSET Slots OBVIOUS
    <3> HIDE DEF CellOf, ReadOf, S
    <3>8. Cell!Store(r, login)
      BY <2>1, <3>1, <3>5, <3>6, <3>7 DEF Cell!Store, Cell!NoneRead, NoneRead, Nothing, CellOf, ReadOf
    <3> QED BY <3>8 DEF Cell!Next
  <2> QED BY <2>2, <2>3
<1>4. ASSUME NEW r \in Requests, NEW want \in Wants, Get(r, want) PROVE [Cell!Next]_(Cell!vars)
  <2>1. UNCHANGED <<setter, getter, authname, client, notes>> /\ r \in live BY <1>4 DEF Get
  <2>2. CellOf' = CellOf /\ Shares' = Shares BY <2>1, CellSame DEF Shares
  <2>3. CASE ~Shares
    <3>1. ReadOf' = ReadOf BY <2>2, <2>3
    <3> QED BY <2>1, <2>2, <3>1 DEF Cell!vars
  <2>4. CASE Shares
    <3> DEFINE c == client[r]
    <3>1. c \in Requests /\ c = Climb(r) /\ client[r] # None
      BY <2>1 DEF ClimbsToClient, Chains
    <3>2. \A s \in Slots : Key(authname[c], s) \in Keys
      BY <3>1 DEF NotesTyped, Keys
    <3>3. getter.climbs /\ getter.key = "realm" /\ ~getter.checks /\ ~getter.needsUser
          /\ getter.userKey = "usual" /\ getter.pw = "noted"
      BY <2>4 DEF Shares, Get_226
    <3>4. \A s \in Slots : Found(c, s) = CellOf[c][s]
      BY <2>4, <3>1, <3>2, <3>3 DEF Found, Note, LooksUnder
    <3>5. ~GetsNothing(c) BY <3>3 DEF GetsNothing
    <3>6. ReadOf' = [by |-> r, slots |-> [s \in Slots |->
                       IF s \in want \cap Slots THEN CellOf[c][s] ELSE Null]]
      BY <1>4, <2>2, <2>4, <3>1, <3>3, <3>4, <3>5 DEF Get
    <3>7. want \cap Slots \in SUBSET Slots OBVIOUS
    <3> HIDE DEF CellOf, ReadOf
    <3>8. Cell!Read(r)
      BY <2>1, <2>2, <3>1, <3>6, <3>7 DEF Cell!Read, CellOf, ReadOf
    <3> QED BY <3>8 DEF Cell!Next
  <2> QED BY <2>3, <2>4
<1>5. ASSUME NEW r \in Requests, NEW q \in Requests, Subrequest(r, q) PROVE Cell!Next
  BY <1>2, <1>5 DEF Subrequest
<1>6. ASSUME NEW r \in Requests, NEW q \in Requests, Redirect(r, q) PROVE Cell!Next
  BY <1>2, <1>6 DEF Redirect
<1>7. ASSUME NEW r \in Requests, Receive(r) PROVE Cell!Next
  BY <1>2, <1>7 DEF Receive
<1> QED BY <1>1, <1>3, <1>4, <1>5, <1>6, <1>7 DEF Next

\* Where both functions climb and the realm has a name, storing and reading is that of one
\* cell for each request a client sends, shared by all that the server makes of it.
THEOREM LoginShared == Spec => SharesLogin
<1>1. Init => Cell!Init
  <2> SUFFICES ASSUME Init PROVE Cell!Init OBVIOUS
  <2>1. \A r \in Requests, s \in Slots : authname[r] # NoRealm => notes[r][Key(authname[r], s)] = Null
    <3>1. \A r \in Requests, s \in Slots : Key(authname[r], s) \in Keys BY DEF Init, Keys
    <3> QED BY <3>1 DEF Init
  <2> QED BY <2>1 DEF Init, Cell!Init, Cell!NoneRead, NoneRead, Nothing, Shares
<1>2. NotesTyped /\ Chains /\ ClimbsToClient /\ NotesTyped' /\ [Next]_vars => [Cell!Next]_(Cell!vars)
  BY ImplementsCell
<1>3. Chains => ClimbsToClient BY ClimbEnds
<1> QED BY <1>1, <1>2, <1>3, NotesTypedHolds, ChainsHold, PTL DEF Spec, SharesLogin, Cell!Spec
=============================================================================
