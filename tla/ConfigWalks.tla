----------------------------- MODULE ConfigWalks -----------------------------
(***************************************************************************)
(* ap_location_walk and ap_file_walk: the <Location> and <Files> sections  *)
(* that apply to a request are merged into its per_dir_config.  What a     *)
(* walk found is kept in a walk_cache_t, by prep_walk_cache, for the next  *)
(* walk of the request and for the requests made from it: subrequests      *)
(* (main) and internal redirects (prev).                                   *)
(*                                                                         *)
(* The code compares configurations and arrays by their address, so they   *)
(* are objects here, allocated in order: confs, arrays, caches.  0 is      *)
(* NULL.  Abstracted: a section is the set of what its pattern matches; a  *)
(* configuration is the sequence of sections merged into it.               *)
(***************************************************************************)
EXTENDS Naturals, Sequences, SequencesExt

CONSTANTS
  ServerSections,  \* the configuration's sections, in order
  Uris,           \* [path, doubled]: with or without a doubled slash
  Filenames,      \* [dir, name, dots]: directory, last part, whether with "../"
  MaxRequests     \* how many requests follow from one

ServerSection ==
  [kind : {"location", "directory", "files"},
   regex : BOOLEAN,
   uris : SUBSET Uris,                    \* location: what it matches
   names : SUBSET {f.name : f \in Filenames},   \* files: the same, against
   whole : SUBSET Filenames,                    \* the last part, or all of it
   dir : Nat]                             \* files: the directory it is in, or 0

ASSUME WalkAssumption ==
  /\ ServerSections \in Seq(ServerSection)
  /\ \A f \in Filenames :
       f.dir \in DOMAIN ServerSections /\ ServerSections[f.dir].kind = "directory"
  /\ MaxRequests \in Nat

(***************************************************************************)
(* ap_location_walk:                                                       *)
(*   collapses  doubled slashes are taken out of the path it tests         *)
(*   tests      it tests the sections' patterns                            *)
(*   merges     what it merges: the section, or the URI in its place       *)
(*   ends       what it does with the result: nothing more, a check of a   *)
(*              checksum, or dropping it for users other than admin        *)
(* ap_file_walk:                                                           *)
(*   name       it tests the last part of the file name, or all of it      *)
(*   first      the first section found is taken as it is                  *)
(*   pool       it has a pool to merge in                                  *)
(*   drops      it drops the result for names with "../"                   *)
(* prep_walk_cache:                                                        *)
(*   access     it asks whether the user has access to a cache             *)
(*   shares     the copy of a cache shares its array                       *)
(***************************************************************************)
Location_189 == [collapses |-> TRUE, tests |-> TRUE, merges |-> "section", ends |-> "plainly"]
Location_90_safe == Location_189
Location_516 == Location_189
Location_532 == Location_189
Location_62 == Location_189
Location_34 == [Location_189 EXCEPT !.collapses = FALSE]
Location_42 == [Location_189 EXCEPT !.merges = "uri"]
Location_470 == [Location_189 EXCEPT !.ends = "checksum"]
Location_67 == [Location_189 EXCEPT !.tests = FALSE]
Location_90 == [Location_189 EXCEPT !.ends = "admin"]
File_471 == [name |-> "last", first |-> TRUE, pool |-> TRUE, drops |-> FALSE]
File_517 == File_471
File_68 == File_471
File_35 == File_471
File_43 == [File_471 EXCEPT !.drops = TRUE]
File_57 == [File_471 EXCEPT !.name = "whole"]
File_63 == [File_471 EXCEPT !.first = FALSE]
File_91 == [File_471 EXCEPT !.pool = FALSE]
Prep_261 == [access |-> FALSE, shares |-> FALSE]
Prep_213 == Prep_261
Prep_350 == Prep_261
Prep_261_safe == [Prep_261 EXCEPT !.access = TRUE]
Prep_631 == [Prep_261 EXCEPT !.shares = TRUE]

\* Each copy with the first one of the other two functions.
WalkVersion(location, file, prep) == [location |-> location, file |-> file, prep |-> prep]
WalkVersions ==
  {WalkVersion(l, File_471, Prep_261) : l \in {Location_189, Location_90_safe, Location_516,
     Location_532, Location_62, Location_34, Location_42, Location_470, Location_67, Location_90}}
  \cup {WalkVersion(Location_189, f, Prep_261) : f \in {File_471, File_517, File_68, File_35,
     File_43, File_57, File_63, File_91}}
  \cup {WalkVersion(Location_189, File_471, p) : p \in {Prep_261, Prep_213, Prep_350,
     Prep_261_safe, Prep_631}}
-----------------------------------------------------------------------------
VARIABLES
  w_ver,
  heap,       \* the configurations, arrays of walked sections and caches
  requests,   \* the requests, in the order they were made
  stack,      \* those under way: the last one runs, the others wait for it
  dead        \* the child has followed a pointer that leads nowhere

walk_vars == <<w_ver, heap, requests, stack, dead>>

Null == 0
Notes == {"location", "file"}

\* The loop over an array of sections: those of a set, in order.
Among(ids, set) ==
  LET among[k \in 0 .. Len(ids)] ==
        IF k = 0 THEN <<>>
        ELSE IF ids[k] \in set THEN Append(among[k - 1], ids[k]) ELSE among[k - 1]
  IN among[Len(ids)]

Numbers == DOMAIN ServerSections
OfKind(kind) == {s \in Numbers : ServerSections[s].kind = kind}
Locations == Among([s \in Numbers |-> s], OfKind("location"))
FilesOf(dir) == Among([s \in Numbers |-> s], {s \in OfKind("files") : ServerSections[s].dir = dir})

\* A section's configuration is the object of its number; the server's own,
\* lookup_defaults, is the one after them.  files is the array of <Files>
\* sections: the object it was made with, and what is in it.
Defaults == Len(ServerSections) + 1
OwnConf(s) ==
  [secs |-> <<s>>,
   files |-> [array |-> s,
              elts |-> IF s = Defaults THEN FilesOf(0)
                       ELSE IF ServerSections[s].kind = "directory" THEN FilesOf(s) ELSE <<>>]]

NewRequest(uri, prev, main) ==
  [uri |-> uri, file |-> {}, prev |-> prev, main |-> main, conf |-> Defaults,
   before |-> Defaults, notes |-> [n \in Notes |-> Null], at |-> "read"]

WalksInit ==
  /\ w_ver \in WalkVersions
  /\ heap = [confs |-> [s \in 1 .. Defaults |-> OwnConf(s)], arrays |-> <<>>, caches |-> <<>>]
  /\ \E uri \in Uris : requests = <<NewRequest(uri, Null, Null)>>
  /\ stack = <<1>>
  /\ dead = FALSE
-----------------------------------------------------------------------------
\* The core's merger: the array of sections is that of the side that has
\* any, and a new one when both have.
MergedFiles(h, base, new) ==
  IF h.confs[new].files.elts = <<>> THEN h.confs[base].files
  ELSE IF h.confs[base].files.elts = <<>> THEN h.confs[new].files
  ELSE [array |-> Len(h.confs) + 1,
        elts |-> h.confs[base].files.elts \o h.confs[new].files.elts]
\* ap_merge_per_dir_configs: a new object.
Merge(h, base, new) ==
  [h EXCEPT !.confs =
     Append(@, [secs |-> h.confs[base].secs \o h.confs[new].secs, files |-> MergedFiles(h, base, new)])]

\* Up the list of a request's caches to the one as old as count.
OfCount(h, cache, count) ==
  LET climb[c \in DOMAIN h.caches] ==
        IF h.caches[c].count > count THEN climb[h.caches[c].prev] ELSE c
  IN climb[cache]
Inheritable(r, note) ==
  LET Noted(q) == IF q = Null THEN Null ELSE requests[q].notes[note]
  IN IF Noted(r.prev) # Null THEN Noted(r.prev) ELSE Noted(r.main)
Count(h, r, note) == IF r.notes[note] = Null THEN 0 ELSE h.caches[r.notes[note]].count + 1

CopiedFrom(h, inherit, count, access, own) ==
  IF inherit # Null /\ access /\ h.caches[OfCount(h, inherit, count)].count = count
  THEN OfCount(h, inherit, count) ELSE own
Copied(h, r, note, access) ==
  CopiedFrom(h, Inheritable(r, note), Count(h, r, note), access, r.notes[note])

ArrayOf(h, cache) == IF w_ver.prep.shares THEN h.caches[cache].walked ELSE Len(h.arrays) + 1

EmptyCache(h) ==
  [cached |-> {}, tested |-> Null, merged |-> Null, result |-> Null, walked |-> Len(h.arrays) + 1,
   prev |-> Null, count |-> 0]
\* A copy has an array of its own.
WithCopy(h, copy, prev, count) ==
  [h EXCEPT !.caches = Append(@, [h.caches[copy] EXCEPT !.walked = ArrayOf(h, copy), !.prev = prev,
                                                        !.count = count]),
            !.arrays = IF w_ver.prep.shares THEN @ ELSE Append(@, @[h.caches[copy].walked])]
WithEmpty(h) == [h EXCEPT !.caches = Append(@, EmptyCache(h)), !.arrays = Append(@, <<>>)]
Extended(h, copy, prev, count) == IF copy = Null THEN WithEmpty(h) ELSE WithCopy(h, copy, prev, count)

\* The heap with one cache more, which the note then holds.
Prepared(h, r, note, access) ==
  Extended(h, Copied(h, r, note, access), r.notes[note], Count(h, r, note))
-----------------------------------------------------------------------------
\* One section that applies.  walk.matches is how many of the entries are
\* still to be met again, in order; the first that is not ends that.
Awaited(walk) == walk.entries[Len(walk.entries) - walk.matches + 1]
Kept(walk) == SubSeq(walk.entries, 1, Len(walk.entries) - walk.matches)
Added(walk, h, s, merged) ==
  [heap |-> h, now |-> merged, matches |-> 0,
   entries |-> Append(Kept(walk), [matched |-> s, merged |-> merged])]
WalkSection(walk, s) ==
  IF walk.matches > 0 /\ Awaited(walk).matched = s
  THEN [walk EXCEPT !.now = Awaited(walk).merged, !.matches = @ - 1]
  ELSE IF walk.now = Null THEN Added(walk, walk.heap, s, s)
  ELSE Added(walk, Merge(walk.heap, walk.now, s), s, Len(walk.heap.confs) + 1)

WalkBegun(h, array) ==
  [heap |-> h, now |-> Null, matches |-> Len(h.arrays[array]), entries |-> h.arrays[array]]
WalkedOver(h, array, applying) ==
  LET walk[k \in 0 .. Len(applying)] ==
        IF k = 0 THEN WalkBegun(h, array) ELSE WalkSection(walk[k - 1], applying[k])
  IN walk[Len(applying)]

AlwaysCurrent(cache, key, tested) == cache.cached = {key}    \* mutant
Current(cache, key, tested) ==
  cache.cached = {key} /\ cache.tested = tested

\* The walk from the cache that was prepared last: the heap after it, and
\* the configuration that is merged into the request's.
LastMerged(entries) == IF entries = <<>> THEN Null ELSE Last(entries).merged
Rewritten(walk, array) == [heap |-> [walk.heap EXCEPT !.arrays[array] = Kept(walk)], now |-> walk.now]
FoundFrom(h, cache, key, tested, applying) ==
  IF Current(cache, key, tested)
  THEN [heap |-> h, now |-> LastMerged(h.arrays[cache.walked])]
  ELSE Rewritten(WalkedOver(h, cache.walked, applying), cache.walked)
Found(h, key, tested, applying) == FoundFrom(h, Last(h.caches), key, tested, applying)

Early(cache, conf, key, tested) ==
  Current(cache, key, tested) /\ conf \in {cache.result, cache.merged}

\* The rest of a walk that goes to its end: configuration and heap.
Result(found, conf) == IF found.now = Null THEN conf ELSE Len(found.heap.confs) + 1
Stored(h, n, key, tested, conf, result) ==
  [h EXCEPT !.caches[n] = [@ EXCEPT !.cached = {key}, !.tested = tested, !.merged = conf,
                                    !.result = result]]
Ended(found, conf, key, tested) ==
  Stored(IF found.now = Null THEN found.heap ELSE Merge(found.heap, conf, found.now),
         Len(found.heap.caches), key, tested, conf, Result(found, conf))
-----------------------------------------------------------------------------
Running == Last(stack)
r_ == requests[Running]

Changed(r) == requests' = [requests EXCEPT ![Running] = r]

\* A walk's end: the request's configuration, and the note of its cache.
Becomes(at, h, conf, note) ==
  /\ heap' = h
  /\ Changed([r_ EXCEPT !.conf = conf, !.before = r_.conf, !.at = at,
                         !.notes[note] = IF Len(h.caches) > Len(heap.caches) THEN Len(h.caches)
                                         ELSE @])
  /\ UNCHANGED <<w_ver, stack, dead>>
Crash == dead' = TRUE /\ UNCHANGED <<w_ver, heap, requests, stack>>
Allowed(own, inherited) == w_ver.prep.access \/ (own /\ inherited)

EntryUri(uri) == IF w_ver.location.collapses THEN [uri EXCEPT !.doubled = FALSE] ELSE uri
SectionApplies(s, uri, entry) ==
  ~w_ver.location.tests \/ (IF ServerSections[s].regex THEN uri ELSE entry) \in ServerSections[s].uris
Applying(uri) ==
  Among(Locations, {s \in Numbers : SectionApplies(s, uri, EntryUri(uri))})

\* What is merged may be no configuration; ends is what the function does at its
\* very end.
WalkOn(found, note, next, key, tested, frail, ends) ==
  IF found.now # Null /\ (frail \/ r_.conf = Null) THEN Crash
  ELSE IF ends = "plainly"
  THEN Becomes(next, Ended(found, r_.conf, key, tested), Result(found, r_.conf), note)
  ELSE Becomes(IF ends = "checksum" THEN "refused" ELSE next,
               Ended(found, r_.conf, key, tested), Null, note)
WalkFrom(h, note, next, key, tested, applying, frail, ends) ==
  IF Early(Last(h.caches), r_.conf, key, tested)
  THEN Becomes(next, h, Last(h.caches).result, note)
  ELSE WalkOn(Found(h, key, tested, applying), note, next, key, tested, frail, ends)

\* A walk with a cache.  The note's count of prep_walk_cache needs two
\* answers about access; without the first it gives NULL.
Walk(note, next, key, tested, applying, frail, ends) ==
  \E own, inherited \in BOOLEAN :
    /\ Allowed(own, inherited)
    /\ IF ~own /\ r_.notes[note] # Null THEN Crash
       ELSE WalkFrom(Prepared(heap, r_, note, inherited), note, next, key, tested, applying, frail,
                     ends)

Skip(next) ==
  /\ Changed([r_ EXCEPT !.at = next, !.before = r_.conf])
  /\ UNCHANGED <<w_ver, heap, stack, dead>>

\* The server's array of sections is the same in all of its walks: Null.
LocationWalk(at, next) ==
  /\ ~dead /\ r_.at = at
  /\ IF Locations = <<>> THEN Skip(next)
     ELSE \E ends \in {"plainly", w_ver.location.ends} :
            Walk("location", next, EntryUri(r_.uri), Null, Applying(r_.uri),
                 w_ver.location.merges = "uri", ends)
Locate == LocationWalk("read", "located")
LocateAgain == LocationWalk("filed", "done")

FileApplies(s, file) ==
  IF w_ver.file.name = "last" THEN file.name \in ServerSections[s].names ELSE file \in ServerSections[s].whole
ApplyingFiles(file, conf) ==
  Among(heap.confs[conf].files.elts, {s \in Numbers : FileApplies(s, file)})
TestFile(file) == IF w_ver.file.name = "last" THEN file.name ELSE file

PrepareOnly(next) ==
  \E own, inherited \in BOOLEAN :
    /\ Allowed(own, inherited)
    /\ IF ~own /\ r_.notes["file"] # Null THEN Skip(next)
       ELSE Becomes(next, Prepared(heap, r_, "file", inherited), r_.conf, "file")

FileWalk ==
  /\ ~dead /\ r_.at = "mapped"
  /\ IF r_.file = {} THEN Skip("filed")
     ELSE IF heap.confs[r_.conf].files.elts = <<>> THEN PrepareOnly("filed")
     ELSE \E file \in r_.file :
            Walk("file", "filed", TestFile(file), heap.confs[r_.conf].files.array,
                 ApplyingFiles(file, r_.conf), ~w_ver.file.first \/ ~w_ver.file.pool,
                 IF w_ver.file.drops /\ file.dots THEN "dropped" ELSE "plainly")
-----------------------------------------------------------------------------
(* What the server does between the walks.                                 *)

\* From the server's own configuration, that of the directory is merged; the
\* directory walk has a cache of its own, so it may be an object made before.
Made(dir) == {c \in 1 .. Len(heap.confs) : heap.confs[c].secs = <<Defaults, dir>>}
Map ==
  /\ ~dead /\ r_.at = "located"
  /\ \/ Changed([r_ EXCEPT !.at = "mapped", !.conf = Defaults]) /\ UNCHANGED heap
     \/ \E file \in Filenames :
          LET new == Merge(heap, Defaults, file.dir)
              To(c) == Changed([r_ EXCEPT !.at = "mapped", !.file = {file}, !.conf = c])
          IN \/ heap' = new /\ To(Len(new.confs))
             \/ \E c \in Made(file.dir) : UNCHANGED heap /\ To(c)
  /\ UNCHANGED <<w_ver, stack, dead>>

Using == ~dead /\ Len(stack) > 0 /\ r_.at \in {"located", "done"}
Make(uri, prev, main) == requests' = Append(requests, NewRequest(uri, prev, main))
Room == Len(requests) < MaxRequests

Subrequest ==
  /\ Using /\ r_.conf # Null /\ Room
  /\ \E uri \in Uris : Make(uri, Null, Running)
  /\ stack' = Append(stack, Len(requests) + 1)
  /\ UNCHANGED <<w_ver, heap, dead>>

Redirect ==
  /\ Using /\ r_.at = "done" /\ r_.conf # Null /\ Room
  /\ \E uri \in Uris : Make(uri, Running, r_.main)
  /\ stack' = Append(Front(stack), Len(requests) + 1)
  /\ UNCHANGED <<w_ver, heap, dead>>

UseNothing == Using /\ r_.conf = Null /\ Crash

Return ==
  /\ ~dead /\ Len(stack) > 1 /\ r_.at \in {"done", "refused"}
  /\ stack' = Front(stack)
  /\ UNCHANGED <<w_ver, heap, requests, dead>>

WalksNext ==
  \/ Locate \/ LocateAgain \/ FileWalk
  \/ Map \/ Subrequest \/ Redirect \/ UseNothing \/ Return

WalksSpec == WalksInit /\ [][WalksNext]_walk_vars
-----------------------------------------------------------------------------
Secs(conf) == heap.confs[conf].secs
\* A request and those that it follows from, directly or not.
Closed(set) == \A j \in set : {requests[j].prev, requests[j].main} \subseteq set \cup {Null}
Family(i) ==
  {j \in DOMAIN requests : \A set \in SUBSET DOMAIN requests : i \in set /\ Closed(set) => j \in set}

\* After a location walk the request has the sections that apply to its URI
\* merged into what it had, all of them and in order, whatever the caches it
\* started from hold.  A pattern sees doubled slashes that the cache does
\* not tell apart: what applies may have been found with the URI of a request
\* that this one follows from, where it differs in nothing else.
\* Not for the copy that tests no pattern, and the one whose caches share
\* their array.
LocationsApplied ==
  w_ver.location.tests /\ ~w_ver.prep.shares =>
    \A i \in 1 .. Len(requests) :
      LET r == requests[i] IN
      r.at \in {"located", "done"} /\ r.conf # Null =>
        \E j \in DOMAIN requests :
          /\ EntryUri(requests[j].uri) = EntryUri(r.uri)
          /\ Secs(r.conf) = Secs(r.before) \o Applying(requests[j].uri)
          /\ j \in Family(i)

\* After a file walk it has the <Files> sections merged that apply in its
\* directory, whatever was found for a file of that name elsewhere.
FilesApplied ==
  ~w_ver.prep.shares =>
    \A i \in 1 .. Len(requests) :
      LET r == requests[i] IN
      r.at = "filed" /\ r.conf # Null =>
        Secs(r.conf) = Secs(r.before) \o
                         (IF r.file = {} THEN <<>>
                          ELSE ApplyingFiles(CHOOSE f \in r.file : TRUE, r.before))

\* What a walk merges is what applies to the request, whatever the caches hold that it
\* starts from.
WalksApplied == LocationsApplied /\ FilesApplied
=============================================================================
