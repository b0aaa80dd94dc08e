---------------------------- MODULE SourceCache ----------------------------
(***************************************************************************)
(* The cache of one locked source: Manager.fetchOne, verifyOne and         *)
(* installDir in src/generator/internal/source/source.go.                  *)
(*                                                                         *)
(* winapisource fetch verifies the cache directory of each locked source   *)
(* and, when it does not match the lock, downloads the artifact into a     *)
(* stage of its own, checks its hash, and installs the stage by directory  *)
(* renames: cache -> cache.old, stage -> cache, remove cache.old.  Nothing *)
(* locks the directory, so two fetches may interleave, and a fetch may be  *)
(* killed between any two of these calls.                                  *)
(*                                                                         *)
(* A directory holds the content of one version of the lock entry, whole   *)
(* or not.  Renaming a directory onto one that exists fails (always on     *)
(* Windows, and elsewhere unless that one is empty).                       *)
(***************************************************************************)
EXTENDS Integers

CONSTANTS
  Fetchers,    \* processes that run winapisource fetch
  MaxVersion,  \* bound on the versions the lock entry goes through
  Absent,      \* no directory at a path
  Damaged,     \* a directory removed only in part
  Corrupt      \* an artifact that is not any locked version

Version == 1 .. MaxVersion

ASSUME VersionAssumption == MaxVersion \in Nat \ {0}

ASSUME MarkAssumption ==
  /\ {Absent, Damaged, Corrupt} \cap Nat = {}
  /\ Absent # Damaged /\ Absent # Corrupt /\ Damaged # Corrupt

VARIABLES
  active,   \* the fetchers that run at all
  faulty,   \* do calls fail and processes get killed?
  lock,     \* version in sources.lock.json
  cache,    \* sources/cache/<id>
  old,      \* sources/cache/<id>.old
  pc,       \* where each fetcher is
  want,     \* the version in the lock each fetcher has loaded
  staged,   \* what each fetcher's stage holds
  result,   \* Result.State of each fetcher's last run
  installed \* history: the versions that were ever at the cache directory

directories == <<cache, old>>
vars == <<active, faulty, lock, cache, old, pc, want, staged, result, installed>>

PC == {"idle", "check", "download", "hash", "install", "backup",
       "aside", "swap", "restore", "discard", "place"}

State == {"none", "verified", "fetched", "error", "hash-mismatch", "killed"}

TypeOK ==
  /\ active \subseteq Fetchers
  /\ faulty \in BOOLEAN
  /\ lock \in Version
  /\ cache \in Version \cup {Absent, Damaged, Corrupt}
  /\ old \in Version \cup {Absent, Damaged, Corrupt}
  /\ pc \in [Fetchers -> PC]
  /\ want \in [Fetchers -> Version]
  /\ staged \in [Fetchers -> Version \cup {Absent, Corrupt}]
  /\ result \in [Fetchers -> State]
  /\ installed \subseteq Version

(* A checkout without a cache.                                             *)
Init ==
  /\ active \in SUBSET Fetchers \ {{}}
  /\ faulty \in BOOLEAN
  /\ lock = 1
  /\ cache = Absent
  /\ old = Absent
  /\ pc = [f \in Fetchers |-> "idle"]
  /\ want = [f \in Fetchers |-> 1]
  /\ staged = [f \in Fetchers |-> Absent]
  /\ result = [f \in Fetchers |-> "none"]
  /\ installed = {}

-----------------------------------------------------------------------------
Goto(f, from, to) ==
  /\ pc[f] = from
  /\ pc' = [pc EXCEPT ![f] = to]
  /\ UNCHANGED <<staged, result>>

(* fetchOne returns; its deferred RemoveAll takes the stage along.         *)
Return(f, from, state) ==
  /\ pc[f] = from
  /\ pc' = [pc EXCEPT ![f] = "idle"]
  /\ result' = [result EXCEPT ![f] = state]
  /\ staged' = [staged EXCEPT ![f] = Absent]

(* Rename a stage to the cache directory.                                  *)
Put(content) ==
  /\ cache' = content
  /\ installed' = installed \cup {content}

(* The manager loads the lock once, before the fetch.                      *)
Start(f) ==
  /\ pc[f] = "idle"
  /\ pc' = [pc EXCEPT ![f] = "check"]
  /\ want' = [want EXCEPT ![f] = lock]
  /\ result' = [result EXCEPT ![f] = "none"]
  /\ UNCHANGED <<lock, directories, staged, installed>>

(* Mutant: a cache that is there is a verified one.                        *)
CheckExists(f) ==
  /\ \/ cache # Absent /\ Return(f, "check", "verified")
     \/ (cache = Absent \/ faulty) /\ Goto(f, "check", "download")
  /\ UNCHANGED <<lock, directories, want, installed>>

(* verifyOne: the artifact's hash, the extracted files and source.json all *)
(* agree with the lock entry.  fetchOne ignores its error: a cache that    *)
(* cannot be read is fetched again.                                        *)
Check(f) ==
  /\ \/ cache = want[f] /\ Return(f, "check", "verified")
     \/ (cache # want[f] \/ faulty) /\ Goto(f, "check", "download")
  /\ UNCHANGED <<lock, directories, want, installed>>

(* Whatever the server, or the installed SDK, gives is saved in the stage. *)
Download(f) ==
  /\ pc[f] = "download"
  /\ \E artifact \in IF faulty THEN Version \cup {Corrupt} ELSE {want[f]} :
       staged' = [staged EXCEPT ![f] = artifact]
  /\ pc' = [pc EXCEPT ![f] = "hash"]
  /\ UNCHANGED <<lock, directories, want, result, installed>>

(* Mutant: what was downloaded is not hashed.                              *)
CheckNothing(f) ==
  /\ Goto(f, "hash", "install")
  /\ UNCHANGED <<lock, directories, want, installed>>

(* Mutant: the hash of any version ever locked will do.                    *)
CheckAnyHash(f) ==
  /\ \/ staged[f] \in Version /\ Goto(f, "hash", "install")
     \/ staged[f] \notin Version /\ Return(f, "hash", "hash-mismatch")
  /\ UNCHANGED <<lock, directories, want, installed>>

(* verifyHash; then the selected files are extracted beside the artifact.  *)
CheckHash(f) ==
  /\ \/ staged[f] = want[f] /\ Goto(f, "hash", "install")
     \/ staged[f] # want[f] /\ Return(f, "hash", "hash-mismatch")
  /\ UNCHANGED <<lock, directories, want, installed>>

(* installDir looks at the cache directory, then for a stale backup.       *)
FindCache(f) ==
  /\ \/ cache # Absent /\ Goto(f, "install", "backup")
     \/ cache = Absent /\ Goto(f, "install", "place")
  /\ UNCHANGED <<lock, directories, want, installed>>

FindBackup(f) ==
  /\ \/ old = Absent /\ Goto(f, "backup", "aside")
     \/ old # Absent /\ Return(f, "backup", "error")
  /\ UNCHANGED <<lock, directories, want, installed>>

(* Mutant: the cache is removed before the new one is put in its place.    *)
SetAsideRemoves(f) ==
  /\ Goto(f, "aside", "swap")
  /\ cache' = Absent
  /\ UNCHANGED <<lock, old, want, installed>>

SetAside(f) ==
  /\ IF cache # Absent /\ old = Absent
     THEN /\ Goto(f, "aside", "swap")
          /\ cache' = Absent
          /\ old' = cache
     ELSE Return(f, "aside", "error") /\ UNCHANGED directories
  /\ UNCHANGED <<lock, want, installed>>

Swap(f) ==
  /\ IF cache = Absent
     THEN Goto(f, "swap", "discard") /\ Put(staged[f])
     ELSE Goto(f, "swap", "restore") /\ UNCHANGED <<cache, installed>>
  /\ UNCHANGED <<lock, old, want>>

(* The error of renaming the backup back is dropped.                       *)
Restore(f) ==
  /\ Return(f, "restore", "error")
  /\ IF cache = Absent /\ old # Absent
     THEN cache' = old /\ old' = Absent
     ELSE UNCHANGED directories
  /\ UNCHANGED <<lock, want, installed>>

(* RemoveAll of the backup, entry by entry.                                *)
DiscardPart(f) ==
  /\ pc[f] = "discard"
  /\ old \notin {Absent, Damaged}
  /\ old' = Damaged
  /\ UNCHANGED <<lock, cache, pc, want, staged, result, installed>>

(* Mutant: the backup is kept after a fetch that succeeded.                *)
DiscardNothing(f) ==
  /\ Return(f, "discard", "fetched")
  /\ UNCHANGED <<lock, directories, want, installed>>

Discard(f) ==
  /\ Return(f, "discard", "fetched")
  /\ old' = Absent
  /\ UNCHANGED <<lock, cache, want, installed>>

(* There was no cache directory to set aside.                              *)
Place(f) ==
  /\ IF cache = Absent
     THEN Return(f, "place", "fetched") /\ Put(staged[f])
     ELSE Return(f, "place", "error") /\ UNCHANGED <<cache, installed>>
  /\ UNCHANGED <<lock, old, want>>

(* A call of f fails: the download, the extraction, a stat or a rename.    *)
CallFails(f) ==
  /\ faulty
  /\ \/ \E at \in {"download", "hash", "install", "backup", "aside", "restore", "discard", "place"} :
          Return(f, at, "error")
     \/ Goto(f, "swap", "restore")
  /\ UNCHANGED <<lock, directories, want, installed>>

Kill(f) ==
  /\ faulty
  /\ \E at \in PC \ {"idle"} : Return(f, at, "killed")
  /\ UNCHANGED <<lock, directories, want, installed>>

(* A reviewed change of the lock entry.                                    *)
LockChanges ==
  /\ lock < MaxVersion
  /\ lock' = lock + 1
  /\ UNCHANGED <<directories, pc, want, staged, result, installed>>

Fetch(f) ==
  \/ Start(f) \/ Check(f) \/ Download(f) \/ CheckHash(f)
  \/ FindCache(f) \/ FindBackup(f) \/ SetAside(f) \/ Swap(f)
  \/ Restore(f) \/ DiscardPart(f) \/ Discard(f) \/ Place(f)

Next ==
  /\ \/ \E f \in active : Fetch(f) \/ CallFails(f) \/ Kill(f)
     \/ LockChanges
  /\ UNCHANGED <<active, faulty>>

Spec == Init /\ [][Next]_vars

(* A fetch that is not killed runs on, and its user fetches again.         *)
Runs(f) == f \in active /\ Fetch(f) /\ UNCHANGED <<active, faulty>>

FairSpec == Spec /\ \A f \in Fetchers : WF_vars(Runs(f))

-----------------------------------------------------------------------------
(* A partial or mismatched cache is never exposed at the cache directory   *)
(* (docs/source-model.md, "Retrieval and verification"), whatever          *)
(* interleaves, fails or is killed.                                        *)
NeverPartial == cache \in Version \cup {Absent}

(* The cache only ever becomes what some fetcher has hashed against its    *)
(* lock entry, or the backup that was set aside.                           *)
OnlyVerifiedIsInstalled ==
  [][ cache' \notin {cache, Absent, old} =>
        \E f \in Fetchers : pc[f] \in {"swap", "place"} /\ cache' = want[f] ]_vars

(* Once a version was installed, the cache or its backup stays whole: the  *)
(* backup is discarded only when a new cache is in place, and no other     *)
(* fetch may move that one away meanwhile.                                 *)
CacheSurvives == installed = {} \/ cache \in Version \/ old \in Version

(* Both: the cache directory is whole or absent, and one of it and its     *)
(* backup is whole.                                                        *)
CacheIsWhole == NeverPartial /\ CacheSurvives

(* A fetcher alone, of which no call fails.  Two that race do not qualify: *)
(* if the cache is placed by the one while the other has it set aside, the *)
(* swap fails, so does the undo, and the backup stays (Restore).           *)
Quiet == ~faulty /\ \E f \in Fetchers : active = {f}

(* Then no backup is left behind between fetches to block the next install.*)
NoStaleBackup == Quiet /\ (\A f \in Fetchers : pc[f] = "idle") => old = Absent

(* And fetching again and again brings the cache to the locked version.    *)
CatchesUp == Quiet => []<>(cache = lock)
=============================================================================
