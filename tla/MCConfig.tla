------------------------------ MODULE MCConfig ------------------------------
(* Configurations: sections that are read, one in the other; sections that  *)
(* are merged for a request; files and logs at the start of a server.  The  *)
(* modules share nothing: a behaviour is one of one module, while the       *)
(* others rest at a single state.                                           *)
EXTENDS IfSection, ConfigWalks, ServerStart

VARIABLE mode   \* "sections", "walks" or "starts"
-----------------------------------------------------------------------------
MCVersions ==
  {Version_211_safe, Version_206, Version_298, Version_216, Version_205, Version_313,
   Version_211, Version_352, Version_389, Version_466, Version_550, Version_598, Version_803,
   Version_151_safe, Version_151, Version_88}

Sec(kind, words, quoted, valid) ==
  [kind |-> kind, closed |-> TRUE, words |-> words, quoted |-> quoted, valid |-> valid]
MCSections ==
  {Sec("If", 0, FALSE, FALSE), Sec("If", 1, TRUE, TRUE), Sec("If", 1, FALSE, TRUE),
   Sec("If", 1, FALSE, FALSE), Sec("If", 2, FALSE, TRUE),
   Sec("Else", 0, FALSE, FALSE), Sec("Else", 1, FALSE, TRUE),
   [Sec("If", 1, TRUE, TRUE) EXCEPT !.closed = FALSE]}
SectionsRest ==
  /\ ver = Version_211_safe /\ context = "plain"
  /\ start = [path |-> Nowhere, override |-> Classes]
  /\ Init
-----------------------------------------------------------------------------
(* A server with a plain <Location>, a pattern that wants the doubled       *)
(* slash, and one for everything; a <Files> of the server's own, and one    *)
(* for the same name in each of two directories.                            *)
A == [path |-> "a", doubled |-> FALSE]
DoubledA == [path |-> "a", doubled |-> TRUE]
B == [path |-> "b", doubled |-> FALSE]
MCUris == {A, DoubledA, B}

InFirst == [dir |-> 4, name |-> "index", dots |-> FALSE]
InSecond == [dir |-> 5, name |-> "index", dots |-> TRUE]

Blank == [kind |-> "directory", regex |-> FALSE, uris |-> {}, names |-> {}, whole |-> {}, dir |-> 0]
Location(regex, uris) == [Blank EXCEPT !.kind = "location", !.regex = regex, !.uris = uris]
Files(dir, names, whole) ==
  [Blank EXCEPT !.kind = "files", !.dir = dir, !.names = names, !.whole = whole]
MCMerged ==
  <<Location(FALSE, {A}), Location(TRUE, {DoubledA}), Location(TRUE, MCUris), Blank, Blank,
    Files(0, {"index"}, {InFirst}), Files(4, {"index"}, {InFirst}), Files(5, {"index"}, {})>>

MCFilenames == {InFirst, InSecond}
WalksRest ==
  /\ w_ver = WalkVersion(Location_189, File_471, Prep_261)
  /\ requests = <<NewRequest(A, Null, Null)>>
  /\ WalksInit

\* After a first request for A come any two others.
Walks == WalksInit /\ requests[1].uri = A
-----------------------------------------------------------------------------
(* Three files, of which two match; a main server and one virtual host,     *)
(* which shares the main server's transfer log or has its own.              *)
One(form, path_, default) == [form |-> form, name |-> 3, path |-> path_, default |-> default]
MCIncludes ==
  {One("plain", "fine", FALSE), One("plain", "fine", TRUE), One("pattern", "fine", FALSE),
   One("pattern", "absent", FALSE)}

Log(name, provider, parent, as_is) ==
  [name |-> name, provider |-> provider, parent |-> parent, as_is |-> as_is]
Absolute == Log("file", FALSE, "logs", "logs")
Relative == Log("file", FALSE, "logs", "elsewhere")
Transfer(name, parent, as_is) == [name |-> name, parent |-> parent, as_is |-> as_is]
MCConfigurations ==
  {[errors |-> <<Relative, Log("none", FALSE, "logs", "logs")>>,
    transfers |-> <<Transfer("file", "other", "elsewhere")>>, uses |-> <<1, 1>>],
   [errors |-> <<Absolute, Log("syslog", TRUE, "logs", "logs")>>,
    transfers |-> <<Transfer("file", "logs", "elsewhere"), Transfer("file", "other", "other")>>,
    uses |-> <<1, 2>>],
   [errors |-> <<Log("pipe", FALSE, "logs", "logs"), Log("file", TRUE, "other", "elsewhere")>>,
    transfers |-> <<Transfer("pipe", "logs", "logs"), Transfer("file", "logs", "logs")>>,
    uses |-> <<1, 2>>]}

MCNames == 2 .. 4
MCMatching == {2, 4}
MCDirectories == {"logs", "other", "elsewhere"}
StartsRest ==
  /\ s_ver = StartVersion(Files_45, Error_1001, Transfer_319)
  /\ include = One("plain", "fine", FALSE)
  /\ conf = CHOOSE c \in Configurations : TRUE
  /\ files = {} /\ broken = {} /\ directories = {}
  /\ StartInit

\* What is read, with all of the logs' directories; and what is checked, after a
\* file that is there and well.
Starts ==
  /\ \/ conf = (CHOOSE c \in Configurations : TRUE) /\ directories = Directories
     \/ include = One("plain", "fine", FALSE) /\ files = Names /\ broken = {}
  /\ StartInit
-----------------------------------------------------------------------------
MCInit ==
  \/ mode = "sections" /\ Init /\ WalksRest /\ StartsRest
  \/ mode = "walks" /\ SectionsRest /\ Walks /\ StartsRest
  \/ mode = "starts" /\ SectionsRest /\ WalksRest /\ Starts
MCNext ==
  /\ UNCHANGED mode
  /\ \/ mode = "sections" /\ Next /\ UNCHANGED <<walk_vars, start_vars>>
     \/ mode = "walks" /\ WalksNext /\ UNCHANGED <<vars, start_vars>>
     \/ mode = "starts" /\ StartNext /\ UNCHANGED <<vars, walk_vars>>
MCSpec == MCInit /\ [][MCNext]_<<vars, mode, walk_vars, start_vars>>
=============================================================================
