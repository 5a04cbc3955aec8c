----------------------------- MODULE AuthSession -----------------------------
(***************************************************************************)
(* set_session_auth and get_session_auth: form authentication keeps the    *)
(* login in the client's session.  The session is loaded into a request    *)
(* when it first asks for it and written back as a whole when the request  *)
(* ends; several requests of one client overlap.  The session itself is    *)
(* another module's, modelled from how these functions use it.             *)
(***************************************************************************)
EXTENDS AuthVersions

CONSTANTS
  Realms, Users, Passwords, Sites,
  RealmLogins,    \* the realm, user and password of the logins there can be
  NotLoaded,
  SessionCopies   \* the pairs of copies that are used together

ASSUME SessionAssumption ==
  /\ Null \notin Users
  /\ RealmLogins \subseteq Realms \X Users \X (Passwords \cup {Null})

Digest(user, site) == <<"md5", user, site>>
Text(user, site) == <<"text", user, site>>
Hashes == {Digest(u, s) : u \in Users, s \in Sites} \cup {Text(u, s) : u \in Users, s \in Sites}
Entry == [user : Users \cup {Null, "admin"}, pw : Passwords \cup {Null, "password123"},
          hash : Hashes \cup {Null}]
Session == [Realms -> Entry]
-----------------------------------------------------------------------------
VARIABLES
  saver, loader,
  stored,     \* the client's session between requests
  z,          \* the session as each request has loaded it
  user,       \* r->user
  looked_up,  \* what the last step found, if it looked: the realm and its entry
  crashed

session_vars == <<saver, loader, stored, z, user, looked_up, crashed>>

Empty == [user |-> Null, pw |-> Null, hash |-> Null]

SessionInit ==
  /\ \E pair \in SessionCopies : saver = pair[1] /\ loader = pair[2]
  /\ stored = [realm \in Realms |-> Empty]
  /\ z = [r \in Requests |-> NotLoaded]
  /\ user = [r \in Requests |-> Null]
  /\ looked_up = Null
  /\ crashed = {}

\* ap_session_load: the request's own copy, once it has one.
Loaded(r) == IF z[r] = NotLoaded THEN stored ELSE z[r]

\* A request in the realm of its location.
Keep(u, site, old) == IF site = Null THEN old ELSE Digest(u, site)   \* mutant
HashStored(u, site, old) ==
  IF saver.hash = "none" THEN old
  ELSE IF site = Null THEN Null
  ELSE IF saver.hash = "text" THEN Text(u, site) ELSE Digest(u, site)

KeepsPassword(entry, u, p, site) ==    \* mutant
  [user |-> u, pw |-> IF p = Null THEN entry.pw ELSE p, hash |-> HashStored(u, site, entry.hash)]
Replaced(entry, u, p, site) ==
  [user |-> u, pw |-> p, hash |-> HashStored(u, site, entry.hash)]

SetSession(r, realm, u, p, site) ==
  /\ r \notin crashed
  /\ z' = [z EXCEPT ![r] = [Loaded(r) EXCEPT ![realm] = Replaced(@, u, p, site)]]
  /\ looked_up' = Null
  /\ UNCHANGED <<saver, loader, stored, user, crashed>>

\* The permission is missing.
SetRefused(r) ==
  /\ saver.asks /\ r \notin crashed
  /\ z' = [z EXCEPT ![r] = Loaded(r)]
  /\ looked_up' = Null
  /\ UNCHANGED <<saver, loader, stored, user, crashed>>

Qualifies(r, realm) ==
  CASE loader.requires = "realm" -> user[r] = realm
    [] loader.requires = "set" -> user[r] # Null
    [] OTHER -> TRUE

Looked(s, realm) ==
  IF loader.source = "guest" THEN [user |-> "guest", pw |-> "", hash |-> Null] ELSE s[realm]

GetSession(r, realm) ==
  /\ r \notin crashed /\ loader.pool
  /\ z' = [z EXCEPT ![r] = Loaded(r)]
  /\ IF Qualifies(r, realm)
     THEN LET found == Looked(Loaded(r), realm) IN
          /\ looked_up' = [realm |-> realm, entry |-> found]
          /\ user' = IF loader.user = "always" \/ found.user # Null
                     THEN [user EXCEPT ![r] = found.user] ELSE user
     ELSE looked_up' = Null /\ UNCHANGED user
  /\ UNCHANGED <<saver, loader, stored, crashed>>

\* apr_pstrcat without a pool.
GetWithoutPool(r) ==
  /\ ~loader.pool /\ r \notin crashed
  /\ crashed' = crashed \cup {r}
  /\ looked_up' = Null
  /\ UNCHANGED <<saver, loader, stored, z, user>>

\* insecure_session_auth: the same, and then another login is put in its place.
GetAndReplace(r, realm) ==
  /\ loader.replaces /\ r \notin crashed
  /\ LET s == Loaded(r)
         found == s[realm] IN
     /\ looked_up' = [realm |-> realm, entry |-> found]
     /\ user' = IF found.user # Null THEN [user EXCEPT ![r] = found.user] ELSE user
     /\ z' = [z EXCEPT ![r] = [s EXCEPT ![realm].user = "admin", ![realm].pw = "password123"]]
  /\ UNCHANGED <<saver, loader, stored, crashed>>

\* The end of the request; its place is taken by the next one.
End(r) ==
  /\ r \notin crashed
  /\ stored' = Loaded(r)
  /\ z' = [z EXCEPT ![r] = NotLoaded]
  /\ user' = [user EXCEPT ![r] = Null]
  /\ looked_up' = Null
  /\ UNCHANGED <<saver, loader, crashed>>

SessionNext ==
  \E r \in Requests :
    \/ \E login \in RealmLogins, site \in Sites \cup {Null} : SetSession(r, login[1], login[2], login[3], site)
    \/ SetRefused(r)
    \/ \E realm \in Realms : GetSession(r, realm) \/ GetAndReplace(r, realm)
    \/ GetWithoutPool(r)
    \/ End(r)

SessionSpec == SessionInit /\ [][SessionNext]_session_vars
-----------------------------------------------------------------------------
TypeOK ==
  /\ stored \in Session
  /\ z \in [Requests -> Session \cup {NotLoaded}]
  /\ user \in [Requests -> Users \cup {Null, "admin", "guest"}]

\* The hash in a session is that of the user in it, never that of an earlier login:
\* in the stored session and in every copy, however requests overlap.
Matches(s) ==
  \A realm \in Realms :
    s[realm].hash = Null
    \/ \E site \in Sites : s[realm].hash \in {Digest(s[realm].user, site), Text(s[realm].user, site)}
HashOfUser ==
  ~loader.replaces => Matches(stored) /\ \A r \in Requests : z[r] # NotLoaded => Matches(z[r])

\* What is found for a realm is one login there, user and password together.
OneLogin ==
  (/\ ~loader.replaces /\ loader.source = "session"
   /\ looked_up # Null /\ looked_up.entry.user # Null) =>
    <<looked_up.realm, looked_up.entry.user, looked_up.entry.pw>> \in RealmLogins
=============================================================================
