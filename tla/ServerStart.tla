----------------------------- MODULE ServerStart -----------------------------
(***************************************************************************)
(* From a server's start, or restart, to its logs being open: the files of *)
(* its configuration are read (ap_process_resource_config), the log files  *)
(* it names are checked (check_errorlog_dir, check_log_dir), and opened.   *)
(* Files and directories may come and go meanwhile.                        *)
(*                                                                         *)
(* Abstracted: a file's name is its place in the alphabet, 0 and 1 being   *)
(* "." and ".."; reading a file is adding it to the tree, whole.  A log's  *)
(* name is the directory it is in: `parent' under the server's root, where *)
(* it is opened, `as_is' as the name reads where the server was started.   *)
(***************************************************************************)
EXTENDS Naturals, FiniteSets, SequencesExt

CONSTANTS
  Names, Matching,  \* the files there may be, and those the pattern matches
  Includes,        \* what is read: [form, name, path, default]
  Directories,     \* where logs may be
  Configurations,  \* the servers configured, each with its two logs
  MaxChanges       \* how often the file system changes

Dots == {0, 1}
ErrorLog == [name : {"none", "pipe", "syslog", "file"}, provider : BOOLEAN,
             parent : Directories, as_is : Directories]
TransferLog == [name : {"pipe", "file"}, parent : Directories, as_is : Directories]
\* A config_log_state is known by its place in `transfers'; servers share them.
Configuration ==
  [errors : Seq(ErrorLog), transfers : Seq(TransferLog), uses : Seq(Nat)]

\* The core gives an error log named syslog a provider; a log is in a list because a
\* server uses it.
ASSUME StartAssumption ==
  /\ Names \subseteq Nat \ Dots /\ Matching \subseteq Names
  /\ Includes \subseteq [form : {"plain", "pattern"}, name : Names,
                         path : {"fine", "wild", "absent"}, default : BOOLEAN]
  /\ Configurations \subseteq Configuration
  /\ \A c \in Configurations :
       /\ Len(c.errors) > 0 /\ Len(c.uses) > 0
       /\ Range(c.uses) = DOMAIN c.transfers
       /\ \A log \in Range(c.errors) : log.name = "syslog" => log.provider
  /\ MaxChanges \in Nat
-----------------------------------------------------------------------------
(* ap_process_resource_config:                                             *)
(*   filter   the entries it takes: those that match, all but dots, or all *)
(*   plain    it reads a name without wildcards as one file                *)
(*   skips    it does without the default file where directives are given  *)
(*            on the command line                                          *)
(*   asks     it asks whether the user may read each file                  *)
(*   ignores  it goes on after an error                                    *)
Files_45 == [filter |-> "matching", plain |-> TRUE, skips |-> TRUE, asks |-> FALSE, ignores |-> FALSE]
Files_80 == Files_45
Files_61 == Files_45
Files_32 == Files_45
Files_115 == [Files_45 EXCEPT !.filter = "all"]
Files_64 == [Files_115 EXCEPT !.skips = FALSE]
Files_198 == [Files_45 EXCEPT !.filter = "no dots", !.plain = FALSE, !.skips = FALSE]
Files_80_safe == [Files_45 EXCEPT !.asks = TRUE]
Files_93 == [Files_45 EXCEPT !.ignores = TRUE]

(* check_errorlog_dir:                                                     *)
(*   exempt   it lets pass logs with a provider, or the name syslog        *)
(*   looks    at the log's parent, at the log itself, or at nothing        *)
(*   asks     it asks whether the user may use it                          *)
(*   writes   it writes to the log, losing what it holds                   *)
Error_1001 == [exempt |-> "provider", looks |-> "parent", asks |-> FALSE, writes |-> FALSE]
Error_339 == Error_1001
Error_346 == Error_1001
Error_420 == Error_1001
Error_582 == Error_1001
Error_259 == Error_1001
Error_308 == Error_1001
Error_399 == Error_1001
Error_600 == Error_1001
Error_628 == Error_1001
Error_212 == Error_1001
Error_314 == Error_1001
Error_592 == Error_1001
Error_593 == Error_1001
Error_565 == [Error_1001 EXCEPT !.writes = TRUE]
Error_467 == [Error_1001 EXCEPT !.looks = "log"]
Error_477 == Error_467
Error_486 == Error_467
Error_531 == Error_467
Error_334 == Error_467
Error_425 == Error_467
Error_503 == Error_467
Error_201 == [Error_1001 EXCEPT !.exempt = "syslog"]
Error_299 == Error_201
Error_353 == Error_201
Error_919 == Error_201
Error_182 == [Error_201 EXCEPT !.writes = TRUE]
Error_218 == [Error_467 EXCEPT !.exempt = "syslog"]
Error_912 == Error_218
Error_346_safe == [Error_1001 EXCEPT !.asks = TRUE]
Error_582_safe == Error_346_safe
Error_600_safe == Error_346_safe
Error_628_safe == Error_346_safe
Error_201_safe == [Error_201 EXCEPT !.asks = TRUE]
Error_919_safe == Error_201_safe
Error_370 == [Error_1001 EXCEPT !.looks = "nothing"]

(* check_log_dir:                                                          *)
(*   rooted   it looks for a relative name under the server's root         *)
(*   clears   when it forgets the directive, and with it to check again:   *)
(*            always, where the log is found, or never                     *)
(*   asks     it asks whether the user may use it                          *)
Transfer_319 == [rooted |-> TRUE, clears |-> "always", asks |-> FALSE]
Transfer_203 == Transfer_319
Transfer_966 == Transfer_319
Transfer_303 == [Transfer_319 EXCEPT !.clears = "found"]
Transfer_209 == [Transfer_319 EXCEPT !.clears = "never"]
Transfer_430 == [Transfer_319 EXCEPT !.rooted = FALSE]
Transfer_443 == Transfer_430
Transfer_743 == Transfer_430
Transfer_319_safe == [Transfer_319 EXCEPT !.asks = TRUE]

\* Each kind of copy with the first one of the other two functions.
StartVersion(f, e, t) == [files |-> f, error |-> e, transfer |-> t]
StartVersions ==
  {StartVersion(f, Error_1001, Transfer_319) :
     f \in {Files_45, Files_115, Files_64, Files_198, Files_80_safe, Files_93}}
  \cup {StartVersion(Files_45, e, Transfer_319) :
     e \in {Error_1001, Error_467, Error_201, Error_218, Error_346_safe, Error_201_safe, Error_370,
           Error_565, Error_182}}
  \cup {StartVersion(Files_45, Error_1001, t) :
     t \in {Transfer_319, Transfer_303, Transfer_209, Transfer_430, Transfer_319_safe}}
-----------------------------------------------------------------------------
VARIABLES
  s_ver, include, conf,
  files, broken,   \* the files in the directory; those with an error in them
  directories,     \* the directories there are, of those for logs
  erased,          \* the servers whose error log a check has written over
  at,              \* what the server is at, or where it has ended
  unread,          \* entries that apr_dir_read has still to return
  candidates, current, tree,
  server,          \* the server whose logs are checked
  directive,       \* the transfer logs that still have their directive
  rv,              \* all checks went well
  changes,         \* how often things changed
  stayed, seen,    \* history: the files there all through the listing, and at some
                   \* time in it
  partial,         \* history: apr_dir_read failed before the end
  found, missed    \* history: the directories a check of this start found, or did not

fixed == <<s_ver, include, conf, broken>>
world == <<files, directories, erased, changes>>
reading == <<unread, candidates, current, tree>>
listing == <<stayed, seen, partial>>
checking == <<server, directive, rv, found, missed>>
start_vars == <<fixed, world, at, reading, listing, checking>>

StartInit ==
  /\ s_ver \in StartVersions /\ include \in Includes /\ conf \in Configurations
  /\ files \in SUBSET Names
  /\ broken \in {{}} \cup {{n} : n \in Names}
  /\ directories \in SUBSET Directories /\ erased = {}
  /\ at = "start"
  /\ unread = {} /\ candidates = <<>> /\ current = 1 /\ tree = <<>>
  /\ stayed = {} /\ seen = {} /\ partial = FALSE
  /\ server = 1 /\ directive = DOMAIN conf.transfers /\ rv = TRUE
  /\ found = {} /\ missed = {}
  /\ changes = 0
-----------------------------------------------------------------------------
(* Reading the files.  process_resource_config_nofnmatch reads one, or, if *)
(* it is given a directory, what is in it.                                 *)
Readable(n) == n \in files \ broken
Outcomes(n) ==
  (IF n \in Dots THEN BOOLEAN ELSE {Readable(n)}) \cup (IF s_ver.files.asks THEN {FALSE} ELSE {})

Skips == s_ver.files.skips /\ include.default /\ include.name \notin files
SkipDefault ==
  /\ at = "start" /\ Skips
  /\ at' = "read"
  /\ UNCHANGED <<fixed, world, reading, listing, checking>>

ReadPlain ==
  /\ at = "start" /\ ~Skips
  /\ include.form = "plain" /\ s_ver.files.plain
  /\ IF Readable(include.name) THEN at' = "read" /\ tree' = <<include.name>>
     ELSE at' = "unreadable" /\ UNCHANGED tree
  /\ UNCHANGED <<fixed, world, unread, candidates, current, listing, checking>>

\* Without the error's return, dirp is used although nothing was stored in it.
OpenDir ==
  /\ at = "start" /\ ~Skips
  /\ include.form = "pattern" \/ ~s_ver.files.plain
  /\ \/ /\ include.path = "fine" /\ at' = "listing" /\ unread' = files \cup Dots
        /\ stayed' = files /\ seen' = files /\ UNCHANGED partial
     \/ /\ at' = (IF s_ver.files.ignores THEN "crashed" ELSE "unreadable")
        /\ UNCHANGED <<unread, listing>>
  /\ UNCHANGED <<fixed, world, candidates, current, tree, checking>>

Takes(entry) ==
  CASE s_ver.files.filter = "matching" -> entry \in Matching
    [] s_ver.files.filter = "no dots" -> entry \notin Dots
    [] OTHER -> TRUE

ReadEntry ==
  /\ at = "listing"
  /\ \E entry \in unread :
       /\ unread' = unread \ {entry}
       /\ candidates' = IF Takes(entry) THEN Append(candidates, entry) ELSE candidates
  /\ UNCHANGED <<fixed, world, at, current, tree, listing, checking>>

\* Whatever apr_dir_read returns but APR_SUCCESS, it is taken for the end.
ListingFails ==
  /\ at = "listing" /\ unread # {}
  /\ unread' = {} /\ partial' = TRUE
  /\ UNCHANGED <<fixed, world, at, candidates, current, tree, stayed, seen, checking>>

\* qsort by name; no two entries of a directory have the same.
Place(n, names) == Cardinality({m \in names : m <= n})
Sorted(s) == [i \in DOMAIN s |-> CHOOSE n \in Range(s) : Place(n, Range(s)) = i]

CloseDir ==
  /\ at = "listing" /\ unread = {}
  /\ at' = "reading" /\ candidates' = Sorted(candidates)
  /\ UNCHANGED <<fixed, world, unread, current, tree, listing, checking>>

ReadFile ==
  /\ at = "reading" /\ current <= Len(candidates)
  /\ \E well \in Outcomes(candidates[current]) :
       IF well
       THEN tree' = Append(tree, candidates[current]) /\ current' = current + 1 /\ UNCHANGED at
       ELSE IF s_ver.files.ignores
       THEN current' = current + 1 /\ UNCHANGED <<tree, at>>
       ELSE at' = "unreadable" /\ UNCHANGED <<tree, current>>
  /\ UNCHANGED <<fixed, world, unread, candidates, listing, checking>>

EndReading ==
  /\ at = "reading" /\ current > Len(candidates)
  /\ at' = "read"
  /\ UNCHANGED <<fixed, world, reading, listing, checking>>
-----------------------------------------------------------------------------
(* Checking the logs: the error log of every server, then their transfer   *)
(* logs.  The checks go on after one that fails.                           *)
StartChecks ==
  /\ at = "read" /\ at' = "error logs"
  /\ UNCHANGED <<fixed, world, reading, listing, checking>>

Exempt(log) ==
  \/ log.name \in {"none", "pipe"}
  \/ IF s_ver.error.exempt = "provider" THEN log.provider ELSE log.name = "syslog"

\* The verdicts check_errorlog_dir may come to.
ErrorVerdicts(log) ==
  IF Exempt(log) THEN {TRUE}
  ELSE {\/ s_ver.error.looks = "nothing"
        \/ s_ver.error.looks = "parent" /\ log.parent \in directories}
       \cup (IF s_ver.error.asks THEN {FALSE} ELSE {})

AsItIs(log) == log.as_is     \* mutant
LooksAt(log) == IF s_ver.transfer.rooted THEN log.parent ELSE log.as_is
TransferVerdicts(c) ==
  LET log == conf.transfers[c] IN
  IF log.name = "pipe" \/ c \notin directive THEN {TRUE}
  ELSE {LooksAt(log) \in directories} \cup (IF s_ver.transfer.asks THEN {FALSE} ELSE {})

Forgets(c, verdict) ==
  /\ conf.transfers[c].name = "file"
  /\ \/ s_ver.transfer.clears = "always"
     \/ s_ver.transfer.clears = "found" /\ verdict

\* The directory a check asks for, if any; it finds it, or it does not.
ErrorSeeks(log) == {d \in {log.parent} : ~Exempt(log) /\ s_ver.error.looks = "parent"}
TransferSeeks(c) ==
  {d \in {LooksAt(conf.transfers[c])} : conf.transfers[c].name # "pipe" /\ c \in directive}
Finds(sought) ==
  /\ found' = found \cup (sought \cap directories)
  /\ missed' = missed \cup (sought \ directories)

\* To the next server, and after the last to what follows.
Advance(count, next) ==
  IF server < count THEN server' = server + 1 /\ UNCHANGED at ELSE server' = 1 /\ at' = next

CheckErrorLog ==
  /\ at = "error logs"
  /\ \E verdict \in ErrorVerdicts(conf.errors[server]) :
       /\ rv' = (rv /\ verdict)
       /\ erased' = IF s_ver.error.writes /\ verdict /\ ~Exempt(conf.errors[server])
                    THEN erased \cup {server} ELSE erased
  /\ Finds(ErrorSeeks(conf.errors[server]))
  /\ Advance(Len(conf.errors), "transfer logs")
  /\ UNCHANGED <<fixed, files, directories, changes, reading, listing, directive>>

\* The user's refusal comes before the directive is forgotten.
CheckTransferLog ==
  /\ at = "transfer logs"
  /\ LET c == conf.uses[server]
     IN \E verdict \in TransferVerdicts(c), denied \in BOOLEAN :
          /\ denied => s_ver.transfer.asks /\ ~verdict
          /\ rv' = (rv /\ verdict)
          /\ Finds(TransferSeeks(c))
          /\ directive' = IF ~denied /\ Forgets(c, verdict) THEN directive \ {c} ELSE directive
  /\ Advance(Len(conf.uses), "checked")
  /\ UNCHANGED <<fixed, world, reading, listing>>

Refuse ==
  /\ at = "checked" /\ ~rv
  /\ at' = "refused"
  /\ UNCHANGED <<fixed, world, reading, listing, checking>>

Needed ==
  {log.parent : log \in {l \in Range(conf.errors) : l.name = "file" /\ ~l.provider}}
    \cup {log.parent : log \in {l \in Range(conf.transfers) : l.name = "file"}}

OpenLogs ==
  /\ at = "checked" /\ rv
  /\ at' = IF Needed \subseteq directories THEN "up" ELSE "not opened"
  /\ UNCHANGED <<fixed, world, reading, listing, checking>>
-----------------------------------------------------------------------------
\* A restart begins anew, with a configuration read anew.
Restart ==
  /\ at = "up" /\ at' = "start"
  /\ candidates' = <<>> /\ current' = 1 /\ tree' = <<>>
  /\ stayed' = {} /\ seen' = {} /\ partial' = FALSE
  /\ server' = 1 /\ directive' = DOMAIN conf.transfers /\ rv' = TRUE
  /\ found' = {} /\ missed' = {}
  /\ UNCHANGED <<fixed, files, directories, erased, changes, unread>>

Toggled(set, x) == IF x \in set THEN set \ {x} ELSE set \cup {x}

\* While a directory is listed, it may or may not return a file that comes or goes.
ChangeFile(n) ==
  /\ files' = Toggled(files, n)
  /\ IF at = "listing"
     THEN /\ \/ n \in files /\ unread' = unread \ {n}
             \/ n \notin files \cup Range(candidates) /\ unread' = unread \cup {n}
             \/ UNCHANGED unread
          /\ stayed' = stayed \cap files' /\ seen' = seen \cup files'
     ELSE UNCHANGED <<unread, stayed, seen>>
  /\ UNCHANGED directories
ChangeDirectory(d) ==
  /\ directories' = Toggled(directories, d)
  /\ UNCHANGED <<files, unread, stayed, seen>>

Change ==
  /\ changes < MaxChanges /\ changes' = changes + 1
  /\ (\E n \in Names : ChangeFile(n)) \/ (\E d \in Directories : ChangeDirectory(d))
  /\ UNCHANGED <<fixed, at, erased, candidates, current, tree, partial, checking>>

StartNext ==
  \/ SkipDefault \/ ReadPlain \/ OpenDir \/ ReadEntry \/ ListingFails \/ CloseDir
  \/ ReadFile \/ EndReading
  \/ StartChecks \/ CheckErrorLog \/ CheckTransferLog \/ Refuse \/ OpenLogs
  \/ Restart \/ Change

StartSpec == StartInit /\ [][StartNext]_start_vars
-----------------------------------------------------------------------------
\* Whatever order a directory gives its entries in, and whatever comes and goes, a
\* pattern's files are read in the order of their names, each once, and a reading that
\* ends well has read every file that matches and was there all through the listing:
\* one that goes, or breaks, before its turn makes it fail.  Only an error of
\* apr_dir_read leaves files out.  Not for the copies that take other files too, or go
\* on after an error.
FilesInOrder ==
  at = "read" /\ include.form = "pattern"
    /\ s_ver.files.filter = "matching" /\ ~s_ver.files.ignores =>
      /\ \A i, j \in DOMAIN tree : i < j => tree[i] < tree[j]
      /\ Range(tree) \subseteq seen \cap Matching
      /\ ~partial => stayed \cap Matching \subseteq Range(tree)

\* However directories come and go, a server opens its logs only after this start's
\* checks found the directory of each, also where servers share a log that is checked
\* for one of them only: a log that does not open lost its directory since.  And none
\* is refused unless a check missed a directory that it needs.  Not for the copies
\* that look elsewhere, or nowhere.
LooksRight == s_ver.error.looks = "parent" /\ s_ver.transfer.rooted
StartsAsChecked ==
  LooksRight =>
    /\ at \in {"up", "not opened"} => Needed \subseteq found
    /\ at = "refused" =>
         \/ Needed \cap missed # {}
         \/ s_ver.error.asks \/ s_ver.transfer.asks
         \/ /\ s_ver.error.exempt = "syslog"
            /\ \E log \in Range(conf.errors) : log.provider

\* A server reads its files in order and leaves none out, and starts as it was checked.
StartsAsMeant == FilesInOrder /\ StartsAsChecked
=============================================================================
