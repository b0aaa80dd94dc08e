----------------------------- MODULE SourceTool -----------------------------
(***************************************************************************)
(* winapisource on one lock (cmd/winapisource/main.go, generator/internal/ *)
(* source/source.go and updates.go): Open decodes and validates the lock,  *)
(* searching its dependencies for a cycle, then one subcommand runs.       *)
(* `fetch` and `verify` take the sources in turn (SourceFiles; the renames *)
(* of an install and what races them are SourceCache's), and run again on  *)
(* what was left: the lock is edited and files of the cache are damaged in *)
(* between.  Update discovery asks the package index of every source in    *)
(* turn, and a feed that does not answer is reported beside the others.    *)
(*                                                                         *)
(* A source ID is its place in byte order (0 is the empty string), a       *)
(* package its lower-case name.  A dependency is the ID of a source, or a  *)
(* pinned package "name/version" (`pinned`), well formed or not (`exact`). *)
(***************************************************************************)
EXTENDS Versions, SourceFiles

CONSTANTS
    Locks,      \* the decoded lock files the tool may be started on
    Revisions,  \* sets of locks each of which a review may turn into another
    Answers,    \* the version lists an index may answer with
    Artifacts   \* what a download, or an installed SDK, may give

\* A lock is decoded from JSON: its lists are lists, and its versions text, as
\* those of an index are.  A review ends in a lock.
ASSUME LocksAssumption ==
    /\ \A l \in Locks :
         /\ l.sources \in Seq(ToSet(l.sources))
         /\ \A s \in ToSet(l.sources) :
              /\ s.dependsOn \in Seq(ToSet(s.dependsOn)) /\ s.files \in Seq(ToSet(s.files))
              /\ s.version \in ParsedVersion
              /\ s.artifact # 0
    /\ \A index \in Answers : index \in Seq(ParsedVersion)
    /\ \A R \in Revisions : R \subseteq Locks

\* The directories of the cache, and the names of locked files and of entries.
CacheIds == UNION {{s.id : s \in ToSet(l.sources)} : l \in Locks}
Names ==
    (UNION {UNION {ToSet(s.files) : s \in ToSet(l.sources)} : l \in Locks})
      \cup (UNION {{e.name : e \in ToSet(a.entries)} : a \in Artifacts})

\* An artifact is its hash.  All of a name follows from its text, the same text
\* with either slash: a path of no components is refused as ".", and one that
\* begins with ".." has ".." in its text.
ASSUME ArtifactsAssumption ==
    /\ \A a \in Artifacts : a.entries \in Seq(ToSet(a.entries))
    /\ \A a, b \in Artifacts : a.id = b.id => a = b
    /\ \A n, m \in Names : n.key = m.key => n = m
    /\ \A n \in Names : IF n.path = <<>> THEN n.clean = <<>> ELSE Head(n.path) = ".." => n.dots

VARIABLES
    phase,      \* "open", "visit", "ready", "update", "fetch", "verify" or "exit"
    lockFile,   \* m.Lock: schema and the sequence of sources
    error,      \* what Open or the command returned, "" for nil
    roots,      \* the IDs the range over byID has not reached yet
    marks,      \* visit's state: 1 on the current path, 2 finished
    stack,      \* the calls of visit: the ID and the dependencies left
    updates,    \* DryRunUpdates: one entry a source asked so far
    feeds,      \* what the index of each of those sources answered
    printed,    \* the IDs `list` has printed, in order
    disk,       \* sources/cache: the directory of each source
    results     \* Fetch or Verify: one Result a source so far

kept == <<disk, results>>
toolVars == <<phase, lockFile, error, roots, marks, stack, updates, feeds, printed, kept>>

Sources == lockFile.sources
Ids == {Sources[i].id : i \in 1..Len(Sources)}
ById(id) == CHOOSE s \in ToSet(Sources) : s.id = id

LOCAL Repeats(q) == Cardinality(ToSet(q)) # Len(q)

(***************************************************************************)
(* validateNuGetLocator: an exact URL of three parts that name the locked  *)
(* package and a version equal to the locked one, without build metadata.  *)
(***************************************************************************)
LocatorValid(s) ==
    /\ s.locator.exact
    /\ s.locator.parts = 3
    /\ s.locator.package = s.package
    /\ NuGetValid(s.locator.version)
    /\ NuGetValid(s.version)
    /\ NuGetCompare(s.locator.version, s.version) = 0
    /\ ~s.locator.metadata

DependencyError(s) ==
    \/ Repeats(s.dependsOn)
    \/ \E i \in 1..Len(s.dependsOn) :
         LET d == s.dependsOn[i]
         IN  \/ ~d.pinned /\ d.id \in {0, s.id}
             \/ d.pinned /\ ~d.exact

(***************************************************************************)
(* The checks of validateLock on source i, in the order of the code.       *)
(***************************************************************************)
SourceErrors(i) ==
    LET s == Sources[i]
    IN  <<[wrong |-> ~s.complete \/ s.id = 0 \/ s.architectures = <<>> \/ s.files = <<>>,
           error |-> "incomplete"],
          [wrong |-> \E j \in 1..(i - 1) : Sources[j].id = s.id, error |-> "duplicate"],
          [wrong |-> ~s.hash, error |-> "hash"],
          [wrong |-> s.retrieval \notin {"nuget", "https", "sdk"}, error |-> "retrieval"],
          [wrong |-> s.retrieval = "nuget" /\ ~LocatorValid(s), error |-> "locator"],
          [wrong |-> s.retrieval = "sdk" /\ Len(s.files) # 1, error |-> "sdk"],
          [wrong |-> ~(ToSet(s.architectures) \subseteq {"x386", "amd64", "arm64"})
                       \/ Repeats(s.architectures),
           error |-> "architecture"],
          [wrong |-> LET cleans == [k \in 1..Len(s.files) |-> s.files[k].clean]
                     IN  <<>> \in ToSet(cleans) \/ Repeats(cleans),
           error |-> "file"],
          [wrong |-> DependencyError(s), error |-> "dependency"]>>

\* The first check that fails, "" when none does.
FirstWrong(checks) ==
    LET W == {k \in 1..Len(checks) : checks[k].wrong}
    IN  IF W = {} THEN "" ELSE checks[CHOOSE k \in W : \A l \in W : k <= l].error

UnknownDependency ==
    \E i \in 1..Len(Sources) : \E k \in 1..Len(Sources[i].dependsOn) :
        LET d == Sources[i].dependsOn[k] IN ~d.pinned /\ d.id \notin Ids

\* A lock entry checks its fields before the next entry's, and the dependencies
\* are resolved when every entry has been read.
ValidateLock ==
    IF lockFile.schema # 1 THEN "schema"
    ELSE IF Sources = <<>> THEN "empty"
    ELSE LET own == [i \in 1..Len(Sources) |->
                        LET e == FirstWrong(SourceErrors(i))
                        IN  [wrong |-> e # "", error |-> e]]
         IN  IF FirstWrong(own) # "" THEN FirstWrong(own)
             ELSE IF UnknownDependency THEN "unknown" ELSE ""

-----------------------------------------------------------------------------
ToolInit ==
    /\ lockFile \in Locks
    /\ phase = "open"
    /\ error = ""
    /\ roots = {}
    /\ marks = <<>>
    /\ stack = <<>>
    /\ updates = <<>>
    /\ feeds = <<>>
    /\ printed = <<>>
    /\ disk = [id \in CacheIds |-> NoFiles]
    /\ results = <<>>

Exit(e) == phase' = "exit" /\ error' = e

(***************************************************************************)
(* Open: decode, the checks above, and the search for a cycle begins.      *)
(***************************************************************************)
Open ==
    /\ phase = "open"
    /\ IF ValidateLock # ""
         THEN Exit(ValidateLock) /\ UNCHANGED <<roots, marks>>
         ELSE /\ phase' = "visit"
              /\ roots' = Ids
              /\ marks' = [id \in Ids |-> 0]
              /\ UNCHANGED error
    /\ UNCHANGED <<lockFile, stack, updates, feeds, printed, kept>>

\* A plausible slip: one mark for "seen", so that a path that comes back to
\* itself looks finished.
EnterOnce(id, below) ==
    IF marks[id] # 0
    THEN stack' = below /\ UNCHANGED <<phase, error, marks>>
    ELSE /\ marks' = [marks EXCEPT ![id] = 1]
         /\ stack' = Append(below, [id |-> id, left |-> ById(id).dependsOn])
         /\ UNCHANGED <<phase, error>>

\* visit(id) with `below` the calls under it: a source on the current path is
\* a cycle, a finished one returns at once.
Enter(id, below) ==
    CASE marks[id] = 1 -> Exit("cycle") /\ UNCHANGED <<marks, stack>>
      [] marks[id] = 2 -> stack' = below /\ UNCHANGED <<phase, error, marks>>
      [] marks[id] = 0 ->
           /\ marks' = [marks EXCEPT ![id] = 1]
           /\ stack' = Append(below, [id |-> id, left |-> ById(id).dependsOn])
           /\ UNCHANGED <<phase, error>>

\* The range over byID takes the IDs in any order.
VisitRoot ==
    /\ phase = "visit"
    /\ stack = <<>>
    /\ \E id \in roots :
         /\ Enter(id, <<>>)
         /\ roots' = roots \ {id}
    /\ UNCHANGED <<lockFile, updates, feeds, printed, kept>>

\* The next dependency of the source on top; a pinned package is not followed.
VisitDependency ==
    /\ phase = "visit"
    /\ stack # <<>>
    /\ Last(stack).left # <<>>
    /\ LET d == Head(Last(stack).left)
           rest == Append(Front(stack), [Last(stack) EXCEPT !.left = Tail(@)])
       IN  IF d.pinned
             THEN stack' = rest /\ UNCHANGED <<phase, error, marks>>
             ELSE Enter(d.id, rest)
    /\ UNCHANGED <<lockFile, roots, updates, feeds, printed, kept>>

\* All dependencies returned: the source is finished.
FinishVisit ==
    /\ phase = "visit"
    /\ stack # <<>>
    /\ Last(stack).left = <<>>
    /\ marks' = [marks EXCEPT ![Last(stack).id] = 2]
    /\ stack' = Front(stack)
    /\ UNCHANGED <<phase, lockFile, error, roots, updates, feeds, printed, kept>>

Opened ==
    /\ phase = "visit"
    /\ stack = <<>>
    /\ roots = {}
    /\ phase' = "ready"
    /\ UNCHANGED <<lockFile, error, roots, marks, stack, updates, feeds, printed, kept>>

-----------------------------------------------------------------------------
\* `list` prints a sorted copy; the lock keeps its order.
List ==
    /\ phase = "ready"
    /\ printed' = SetToSortSeq(Ids, <)
    /\ Exit("")
    /\ UNCHANGED <<lockFile, roots, marks, stack, updates, feeds, kept>>

\* No subcommand, before the lock is read; an unknown one, or `update` without
\* --dry-run, once it was accepted.
Usage ==
    /\ phase \in {"open", "ready"}
    /\ Exit("usage")
    /\ UNCHANGED <<lockFile, roots, marks, stack, updates, feeds, printed, kept>>

StartCache ==
    /\ phase = "ready"
    /\ phase' \in {"fetch", "verify"}
    /\ UNCHANGED <<lockFile, error, roots, marks, stack, updates, feeds, printed, kept>>

Current == Sources[Len(results) + 1]
MoreToDo(p) == phase = p /\ Len(results) < Len(Sources)

Pin(s) == CHOOSE a \in Artifacts : a.id = s.artifact
Kept(s) == VerifyOne(s, Pin(s), disk[s.id])

\* What the call makes of the current source; `given` is the artifact that it
\* staged, 0 if it came to none.
Result(state, given, failed) ==
    /\ results' = Append(results, [id |-> Current.id, state |-> state, given |-> given])
    /\ error' = IF failed THEN phase ELSE error
    /\ UNCHANGED <<phase, lockFile, roots, marks, stack, updates, feeds, printed>>

\* fetchOne verifies before anything else, and drops the error.
FetchKept ==
    /\ MoreToDo("fetch")
    /\ Kept(Current) = "verified"
    /\ Result("verified", 0, FALSE)
    /\ UNCHANGED disk

\* A request, a copy or a rename fails; the stage is removed.
FetchFails ==
    /\ MoreToDo("fetch")
    /\ Kept(Current) # "verified"
    /\ Result("error", 0, TRUE)
    /\ UNCHANGED disk

\* The SDK is not installed, or this is not Windows.
FetchWithoutSdk ==
    /\ MoreToDo("fetch")
    /\ Kept(Current) # "verified"
    /\ FromSdk(Current)
    /\ Result("external-sdk-not-installed", 0, Current.required)
    /\ UNCHANGED disk

FetchArtifact ==
    /\ MoreToDo("fetch")
    /\ Kept(Current) # "verified"
    /\ \E a \in {x \in Artifacts : x.package = Current.package} :
         LET staged == Stage(Current, a)
         IN  /\ Result(staged.state, a.id, staged.state # "fetched")
             /\ IF staged.state = "fetched"
                  THEN disk' = [disk EXCEPT ![Current.id] = staged.files]
                  ELSE UNCHANGED disk

\* A source that is missing is no failure unless it is required.
VerifySource ==
    /\ MoreToDo("verify")
    /\ Result(Kept(Current), 0, Kept(Current) = "invalid" \/ (Kept(Current) = "missing" /\ Current.required))
    /\ UNCHANGED disk

FinishCache ==
    /\ phase \in {"fetch", "verify"}
    /\ Len(results) = Len(Sources)
    /\ phase' = "exit"
    /\ UNCHANGED <<lockFile, error, roots, marks, stack, updates, feeds, printed, kept>>

\* A file of the cache is changed or removed.
Damage ==
    \E id \in CacheIds : \E p \in DOMAIN disk[id] :
        \/ disk' = [disk EXCEPT ![id] = Written(@, p, <<"other">>)]
        \/ disk' = [disk EXCEPT ![id] = [q \in DOMAIN @ \ {p} |-> @[q]]]

\* The tool is started again on the checkout that a fetch or a verify has left.
RunAgain ==
    /\ phase = "exit"
    /\ results # <<>>
    /\ phase' = "open"
    /\ error' = ""
    /\ lockFile' \in {lockFile} \cup UNION {R \in Revisions : lockFile \in R}
    /\ roots' = {} /\ marks' = <<>> /\ stack' = <<>>
    /\ results' = <<>>
    /\ (UNCHANGED disk \/ Damage)
    /\ UNCHANGED <<updates, feeds, printed>>

-----------------------------------------------------------------------------
StartUpdate ==
    /\ phase = "ready"
    /\ phase' = "update"
    /\ UNCHANGED <<lockFile, error, roots, marks, stack, updates, feeds, printed, kept>>

(***************************************************************************)
(* readNuGetUpdate: a version in the index, or in the pin, that does not   *)
(* parse fails the answer as a whole; a stable pin passes over             *)
(* prereleases; a version replaces the best one only if it is newer, so of *)
(* equal ones the first stays.                                             *)
(***************************************************************************)
AnswerError(current, index) ==
    \/ index = <<>>
    \/ ~NuGetValid(current)
    \/ \E i \in 1..Len(index) : ~NuGetValid(index[i])

\* A plausible slip: a stable pin follows prereleases.
InAnyChannel(current, v) == TRUE

InChannel(current, v) == current.pre = <<>> => v.pre = <<>>

\* A plausible slip: the newest by position, as if the index were sorted.
NewestListed(current, index) ==
    LET C == SelectSeq(index, LAMBDA v : InChannel(current, v))
    IN  IF C # <<>> /\ NuGetCompare(Last(C), current) # 0 THEN Last(C) ELSE current

\* best[i] is the best of the first i versions.
Newest(current, index) ==
    LET best[i \in 0..Len(index)] ==
            IF i = 0 THEN current
            ELSE IF InChannel(current, index[i]) /\ NuGetCompare(index[i], best[i - 1]) > 0 THEN index[i]
            ELSE best[i - 1]
    IN  best[Len(index)]

Entry(s, latest, failed) ==
    [id |-> s.id, current |-> s.version, latest |-> latest,
     changed |-> latest # s.version, failed |-> failed]

Report(entry, feed) ==
    /\ updates' = Append(updates, entry)
    /\ feeds' = Append(feeds, feed)
    /\ error' = IF entry.failed THEN "updates" ELSE error
    /\ UNCHANGED <<phase, lockFile, roots, marks, stack, printed, kept>>

Asked == Sources[Len(updates) + 1]
MoreSources == phase = "update" /\ Len(updates) < Len(Sources)

\* A source that is not on NuGet has no index; it is reported as it stands.
NoIndex ==
    /\ MoreSources
    /\ Asked.retrieval # "nuget"
    /\ Report(Entry(Asked, Asked.version, FALSE), <<>>)

\* The request fails, or the answer is not a 200 with one JSON document of at
\* most 4 MiB.
IndexUnavailable ==
    /\ MoreSources
    /\ Asked.retrieval = "nuget"
    /\ Report(Entry(Asked, Asked.version, TRUE), <<>>)

ReadIndex ==
    /\ MoreSources
    /\ Asked.retrieval = "nuget"
    /\ \E index \in Answers :
         IF AnswerError(Asked.version, index)
         THEN Report(Entry(Asked, Asked.version, TRUE), index)
         ELSE Report(Entry(Asked, Newest(Asked.version, index), FALSE), index)

FinishUpdate ==
    /\ phase = "update"
    /\ Len(updates) = Len(Sources)
    /\ phase' = "exit"
    /\ UNCHANGED <<lockFile, error, roots, marks, stack, updates, feeds, printed, kept>>

ToolNext ==
    \/ Open \/ VisitRoot \/ VisitDependency \/ FinishVisit \/ Opened
    \/ List \/ StartCache \/ Usage \/ StartUpdate
    \/ FetchKept \/ FetchFails \/ FetchWithoutSdk \/ FetchArtifact \/ VerifySource
    \/ FinishCache \/ RunAgain
    \/ NoIndex \/ IndexUnavailable \/ ReadIndex \/ FinishUpdate

ToolSpec == ToolInit /\ [][ToolNext]_toolVars
-----------------------------------------------------------------------------
\* The variables have their types.
ToolTypeOK ==
    /\ phase \in {"open", "visit", "ready", "update", "fetch", "verify", "exit"}
    /\ lockFile \in Locks
    /\ roots \subseteq Ids
    /\ \A i \in 1..Len(stack) : stack[i].id \in Ids
    /\ Len(updates) <= Len(Sources)
    /\ Len(feeds) = Len(updates)
    /\ DOMAIN disk = CacheIds
    /\ Len(results) <= Len(Sources)

(***************************************************************************)
(* A lock is accepted exactly when its sources can be put in an order in   *)
(* which each comes after those it depends on, whatever order the search   *)
(* (source.go:163-187) started from: a fetch that follows never depends on *)
(* a source that waits for it, and no acyclic lock is refused.             *)
(***************************************************************************)
Acyclic ==
    \E place \in [Ids -> 1..Cardinality(Ids)] :
        \A i \in 1..Len(Sources) : \A k \in 1..Len(Sources[i].dependsOn) :
            LET d == Sources[i].dependsOn[k]
            IN  d.pinned \/ place[d.id] < place[Sources[i].id]

CyclesAreFound ==
    /\ phase \in {"ready", "update"} => Acyclic
    /\ error = "cycle" => ~Acyclic

(***************************************************************************)
(* Every source is reported once, in the order of the lock, and one that   *)
(* could not be asked leaves the others' entries alone (source.go:602-646).*)
(* What is reported is the newest version the feed lists in the channel of *)
(* the pin, in whatever order it lists them (updates.go:79-92): nothing in *)
(* it is newer, it is newer than the pin, and a stable pin stays stable.   *)
(* The newest is said here pairwise, over the whole index.                 *)
(***************************************************************************)
NewestIsReported ==
    \A k \in 1..Len(updates) :
        LET u == updates[k]
        IN  /\ u.id = Sources[k].id
            /\ u.failed => u.latest = u.current
            /\ u.changed => /\ ~u.failed
                            /\ u.latest \in ToSet(feeds[k])
                            /\ NuGetCompare(u.latest, u.current) = 1
                            /\ NuGetCompare(u.current, u.latest) = -1
                            /\ u.current.pre = <<>> => u.latest.pre = <<>>
            /\ ~u.failed => \A i \in 1..Len(feeds[k]) :
                   \/ u.current.pre = <<>> /\ feeds[k][i].pre # <<>>
                   \/ NuGetCompare(u.latest, feeds[k][i]) >= 0

(***************************************************************************)
(* A range of a typed override that ends at the pinned version no longer   *)
(* holds once the pin moves to the update the tool reported, and one that  *)
(* begins there does (override.go:208-218); a range from the one to the    *)
(* other is not reversed (override.go:100): a reviewed correction is not   *)
(* carried to metadata nobody compared it with.  The two orders are        *)
(* written separately; they agree on the versions both accept, save on     *)
(* labels in upper case, with a sign, or too large for an int.             *)
(***************************************************************************)
OverridesExpire ==
    \A k \in 1..Len(updates) :
        LET u == updates[k]
        IN  u.changed /\ Plain(u.latest) /\ Plain(u.current) =>
              /\ ~RangeError(u.latest, u.current, u.current)
              /\ ~VersionInRange(u.latest, u.current, u.current)
              /\ VersionInRange(u.latest, u.current, u.latest)
              /\ RangeValid(u.current, u.latest)

\* Both: the update that is proposed is the one to review, and with it every
\* override that was reviewed against the pin is due again.
UpdatesAreSound == NewestIsReported /\ OverridesExpire

(***************************************************************************)
(* A source reported as fetched or verified has in its directory, under    *)
(* every locked name, what the pinned artifact has under it                *)
(* (docs/source-model.md, "Retrieval and verification"), whatever the      *)
(* directory held before: the files of an earlier pin, of a lock with      *)
(* fewer names, or damaged ones.  What was fetched is accepted from then   *)
(* on, save by a lock that names source.json, which the manifest replaces  *)
(* (source.go:300-304).  And an error is not the fault of the lock: the    *)
(* pinned artifact is refused only if some name of it cannot be kept.      *)
(***************************************************************************)
HasLocked(s, d) ==
    \A i \in 1..Len(s.files) :
        LET p == s.files[i].path
        IN  /\ p \in DOMAIN d
            /\ IF FromSdk(s) THEN d[p] = ArtifactBytes(Pin(s))
               ELSE \E e \in ToSet(Pin(s).entries) : e.name = s.files[i] /\ d[p] = EntryBytes(e)

NamesManifest(s) == \E i \in 1..Len(s.files) : s.files[i].path = ManifestFile

\* Every name has a place of its own, beside the artifact and the manifest.
Apart(s) ==
    LET own == {s.files[i].path : i \in 1..Len(s.files)}
        all == own \cup {ArtifactFile(s), ManifestFile}
    IN  /\ ArtifactFile(s) \notin own
        /\ Cardinality(own) = Len(s.files)
        /\ \A p, q \in all : ~Below(p, q)
        /\ FromSdk(s) => \A p \in own : Len(p) = 1 /\ Head(p) # ".."

Packed(s) ==
    FromSdk(s) \/
    /\ Pin(s).zip
    /\ \A i \in 1..Len(s.files) :
         /\ ~s.files[i].dots
         /\ \E e \in ToSet(Pin(s).entries) : e.name = s.files[i] /\ Readable(e)
         /\ Cardinality({j \in 1..Len(Pin(s).entries) : Pin(s).entries[j].name = s.files[i]}) = 1

CacheServesLock ==
    \A k \in 1..Len(results) :
        LET s == Sources[k]
            r == results[k]
        IN  /\ r.state = "verified" => HasLocked(s, disk[s.id])
            /\ r.state = "fetched" => NamesManifest(s) \/ (HasLocked(s, disk[s.id]) /\ Kept(s) = "verified")
            /\ r.state = "error" /\ r.given = s.artifact => ~Apart(s) \/ ~Packed(s)
=============================================================================
