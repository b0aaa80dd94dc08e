------------------------------ MODULE TreeWriters ------------------------------
(***************************************************************************)
(* The two writers a generation is staged with, each on any tree: Write of *)
(* src/generator/internal/slice/write.go replaces the reviewed slice file  *)
(* by file, Write of src/generator/internal/emit/emit.go replaces the two  *)
(* generated directories one after the other.  Any call on the file system *)
(* may fail, the process may be killed between two of them, and a person   *)
(* may edit the tree between two calls.                                    *)
(***************************************************************************)
EXTENDS Contents, Sequences, FiniteSets

CONSTANTS
  NumFiles,      \* files of a slice, numbered in the order of their paths
  FileManifest,  \* the one that is bindings/slice.manifest.json
  MaxCalls       \* bound on the calls of a writer

ASSUME FilesAssumption ==
  /\ NumFiles \in Nat \ {0} /\ MaxCalls \in Nat
  /\ FileManifest \in 1 .. NumFiles

File    == 1 .. NumFiles
Unknown == 0                            \* a path the slice does not own
Roots   == <<"bindings", "bridge">>     \* each with its directory "generated"
Writer  == {"slice", "emit"}
Place   == [slice |-> File, emit |-> {"bindings", "bridge"}]
Group   == {"none", "own", "stray"}     \* what emit.Write is given of a root

VARIABLES
  writer,    \* which of the two is called
  place,     \* what the tree holds at each place
  aside,     \* the old content moved away: stage/old/NN, or generated.old
  calls,     \* calls so far
  wanted,    \* the output the call is to write
  given,     \* slice: the paths it is given; emit: the group of each root
  step,      \* where the call is
  position,  \* index of the path or root being written, or of "changed"
  changed,   \* slice: the items of "changed"; emit: the root moved away
  answer,    \* what the call returned; "retained" once an undo failed
  before     \* history: place and aside when the call began

tree    == <<place, aside>>
request == <<writer, calls, wanted, given, before>>
wvars   == <<tree, request, step, position, changed, answer>>

WInit ==
  /\ writer \in Writer
  /\ place \in [Place[writer] -> IF writer = "slice" THEN {Absent, Foreign, 0, 1}
                                 ELSE {Absent, Foreign, 0}]
  /\ aside = [p \in Place[writer] |-> Absent]
  /\ calls = 0 /\ wanted = 0 /\ given = {}
  /\ step = "idle" /\ position = 0 /\ changed = <<>> /\ answer = "none"
  /\ before = [place |-> place, aside |-> aside]

Return(a) ==
  /\ answer' = a
  /\ step' = "idle"
  /\ position' = 0
  /\ changed' = <<>>

(* A call: again with the output of the last one, or with a newer one.     *)
(* Every slice.Write has a stage of its own, so its backups start empty.   *)
BeginWrite ==
  /\ step = "idle" /\ calls < MaxCalls
  /\ calls' = calls + 1
  /\ wanted' \in {1, calls + 1}
  /\ IF writer = "slice"
     THEN given' \in {File, File \ {1}, (File \ {1}) \cup {Unknown}}
     ELSE given' \in [{"bindings", "bridge"} -> Group]
  /\ aside' = IF writer = "slice" THEN [p \in File |-> Absent] ELSE aside
  /\ before' = [place |-> place, aside |-> aside']
  /\ step' = "check" /\ position' = 1 /\ changed' = <<>> /\ answer' = "running"
  /\ UNCHANGED <<writer, place>>

-----------------------------------------------------------------------------
(* slice.Write                                                             *)

PathOrder == [i \in File |-> i]   \* mutant: the sorted paths as they are

(* The order of the paths, but the manifest last.                          *)
WriteOrder ==
  [i \in File |-> IF i < FileManifest THEN i ELSE IF i < NumFiles THEN i + 1 ELSE FileManifest]

(* Mutant: a destination of any kind is taken over.                        *)
AnyDestinations == Cardinality(given) = NumFiles /\ Unknown \notin given

(* The paths are the slice's, all of them, and each holds nothing or what  *)
(* the generator has marked.                                               *)
ValidDestinations ==
  /\ Cardinality(given) = NumFiles
  /\ Unknown \notin given
  /\ \A f \in given : place[f] # Foreign

(* ValidateDestinations, then every output into the stage; an error of     *)
(* either returns before a destination is touched.                         *)
StageSlice ==
  /\ writer = "slice" /\ step = "check"
  /\ \/ ValidDestinations /\ step' = "place" /\ UNCHANGED <<position, changed, answer>>
     \/ Return("failed")
  /\ UNCHANGED <<tree, request>>

Rollback == step' = "undo" /\ position' = Len(changed')

(* What is there already is left alone; other content moves to the stage.  *)
SetFileAside ==
  /\ writer = "slice" /\ step = "place" /\ position \in File
  /\ LET f == WriteOrder[position] IN
     \/ /\ place[f] = wanted
        /\ position' = position + 1
        /\ UNCHANGED <<tree, step, changed>>
     \/ /\ place[f] # wanted
        /\ aside' = [aside EXCEPT ![f] = place[f]]
        /\ place' = [place EXCEPT ![f] = Absent]
        /\ changed' = Append(changed, [file |-> f, backup |-> place[f] # Absent, installed |-> FALSE])
        /\ step' = "install"
        /\ UNCHANGED position
     \/ /\ place[f] # wanted
        /\ UNCHANGED <<tree, changed>>
        /\ Rollback
  /\ UNCHANGED <<request, answer>>

InstallFile ==
  /\ writer = "slice" /\ step = "install"
  /\ \/ /\ place' = [place EXCEPT ![WriteOrder[position]] = wanted]
        /\ changed' = [changed EXCEPT ![Len(changed)].installed = TRUE]
        /\ step' = "place"
        /\ position' = position + 1
     \/ UNCHANGED <<place, changed>> /\ Rollback
  /\ UNCHANGED <<aside, request, answer>>

WriteDone ==
  /\ writer = "slice" /\ step = "place" /\ position = NumFiles + 1
  /\ Return("ok")
  /\ aside' = [f \in File |-> Absent]
  /\ UNCHANGED <<place, request>>

(* Mutant: the backup is restored without a look at what was installed.    *)
UndoFileUnremoved ==
  /\ writer = "slice" /\ step = "undo" /\ position > 0
  /\ LET item == changed[position] IN
       IF item.backup /\ ~item.installed
       THEN /\ place' = [place EXCEPT ![item.file] = aside[item.file]]
            /\ aside' = [aside EXCEPT ![item.file] = Absent]
       ELSE UNCHANGED tree
  /\ position' = position - 1
  /\ UNCHANGED <<request, step, changed, answer>>

(* One item of the rollback, the latest first: remove what was installed,  *)
(* rename the backup back.  Either may fail; a failed removal skips the    *)
(* restore.                                                                *)
UndoFile ==
  /\ writer = "slice" /\ step = "undo" /\ position > 0
  /\ LET item == changed[position]
         removed == IF item.installed THEN [place EXCEPT ![item.file] = Absent] ELSE place
     IN \/ /\ IF item.backup
              THEN /\ place' = [removed EXCEPT ![item.file] = aside[item.file]]
                   /\ aside' = [aside EXCEPT ![item.file] = Absent]
              ELSE place' = removed /\ UNCHANGED aside
           /\ UNCHANGED answer
        \/ /\ item.installed \/ item.backup
           /\ place' \in (IF item.installed THEN {place} ELSE {})
                           \cup (IF item.backup THEN {removed} ELSE {})
           /\ answer' = "retained"
           /\ UNCHANGED aside
  /\ position' = position - 1
  /\ UNCHANGED <<request, step, changed>>

(* The stage is removed unless the rollback had errors of its own.         *)
UndoDone ==
  /\ writer = "slice" /\ step = "undo" /\ position = 0
  /\ Return(IF answer = "retained" THEN "retained" ELSE "failed")
  /\ aside' = IF answer = "retained" THEN aside ELSE [f \in File |-> Absent]
  /\ UNCHANGED <<place, request>>

-----------------------------------------------------------------------------
(* emit.Write                                                              *)

Root == Roots[position]

(* The next root: nothing to write, a path outside its directory, or       *)
(* writeAtomic.  That one stages the files and their mark, refuses a       *)
(* directory without the mark and a backup left by an earlier call, and    *)
(* renames the stage into place, the old directory first moved away.       *)
NextRoot ==
  /\ writer = "emit" /\ step = "check" /\ position \in 1 .. 2
  /\ given[Root] = "none"
  /\ position' = position + 1
  /\ UNCHANGED <<tree, request, step, changed, answer>>

RootRefused ==
  /\ writer = "emit" /\ step = "check" /\ position \in 1 .. 2
  /\ given[Root] # "none"
  /\ Return("failed")
  /\ UNCHANGED <<tree, request>>

(* Mutant: a backup that is there is replaced.                             *)
RootAsideAnyway ==
  /\ writer = "emit" /\ step = "check" /\ position \in 1 .. 2
  /\ given[Root] = "own" /\ place[Root] \notin {Absent, Foreign}
  /\ aside' = [aside EXCEPT ![Root] = place[Root]]
  /\ place' = [place EXCEPT ![Root] = Absent]
  /\ changed' = <<Root>>
  /\ step' = "install"
  /\ UNCHANGED <<request, position, answer>>

RootAside ==
  /\ writer = "emit" /\ step = "check" /\ position \in 1 .. 2
  /\ given[Root] = "own" /\ place[Root] \notin {Absent, Foreign} /\ aside[Root] = Absent
  /\ aside' = [aside EXCEPT ![Root] = place[Root]]
  /\ place' = [place EXCEPT ![Root] = Absent]
  /\ changed' = <<Root>>
  /\ step' = "install"
  /\ UNCHANGED <<request, position, answer>>

(* The rename of the stage; with nothing moved away it ends the root.  When*)
(* it fails the old directory is renamed back, and an error of that is     *)
(* dropped.                                                                *)
RootInstall ==
  /\ writer = "emit"
  /\ \/ /\ step = "check" /\ position \in 1 .. 2 /\ given[Root] = "own" /\ place[Root] = Absent
        /\ place' = [place EXCEPT ![Root] = wanted]
        /\ position' = position + 1
        /\ UNCHANGED <<aside, step, changed, answer>>
     \/ /\ step = "install"
        /\ place' = [place EXCEPT ![Root] = wanted]
        /\ step' = "discard"
        /\ UNCHANGED <<aside, position, changed, answer>>
     \/ /\ step = "install"
        /\ \/ UNCHANGED tree
           \/ /\ place' = [place EXCEPT ![Root] = aside[Root]]
              /\ aside' = [aside EXCEPT ![Root] = Absent]
        /\ Return("failed")
  /\ UNCHANGED request

(* RemoveAll of the backup; its error is the call's, with the new directory*)
(* in place.                                                               *)
RootDiscard ==
  /\ writer = "emit" /\ step = "discard"
  /\ \/ /\ aside' = [aside EXCEPT ![Root] = Absent]
        /\ step' = "check"
        /\ position' = position + 1
        /\ changed' = <<>>
        /\ UNCHANGED answer
     \/ /\ \E left \in {aside[Root], Damaged} : aside' = [aside EXCEPT ![Root] = left]
        /\ Return("failed")
  /\ UNCHANGED <<place, request>>

EmitDone ==
  /\ writer = "emit" /\ step = "check" /\ position = 3
  /\ Return("ok")
  /\ UNCHANGED <<tree, request>>

-----------------------------------------------------------------------------
(* The process is killed, a RemoveAll perhaps cut short.                   *)
Killed ==
  /\ step # "idle"
  /\ Return("killed")
  /\ \/ UNCHANGED aside
     \/ step = "discard" /\ aside' = [aside EXCEPT ![Root] = Damaged]
  /\ UNCHANGED <<place, request>>

(* Between two calls a person deletes, replaces or clears up.              *)
Edited ==
  /\ step = "idle" /\ answer # "none"
  /\ \E p \in Place[writer] :
       \/ \E c \in {Absent, Foreign} : place' = [place EXCEPT ![p] = c] /\ UNCHANGED aside
       \/ writer = "emit" /\ aside' = [aside EXCEPT ![p] = Absent] /\ UNCHANGED place
  /\ before' = [place |-> place', aside |-> aside']
  /\ answer' = "edited"
  /\ UNCHANGED <<writer, calls, wanted, given, step, position, changed>>

WNext ==
  \/ BeginWrite
  \/ StageSlice \/ SetFileAside \/ InstallFile \/ WriteDone \/ UndoFile \/ UndoDone
  \/ NextRoot \/ RootRefused \/ RootAside \/ RootInstall \/ RootDiscard \/ EmitDone
  \/ Killed \/ Edited

WSpec == WInit /\ [][WNext]_wvars

-----------------------------------------------------------------------------
(* Whatever a place held when the call began is there, or set aside, until *)
(* the call's own output is in its place: for a slice until the whole call *)
(* succeeds, for a directory until the renamed one is there.               *)
OldIsKept ==
  \A p \in Place[writer] :
    \/ before.place[p] \in {Absent, place[p], aside[p]}
    \/ place[p] = wanted /\ (writer = "slice" => answer = "ok")

(* A backup some earlier call left is not replaced or removed: "stale      *)
(* generated backup".                                                      *)
StaleBackupStays ==
  \A p \in Place[writer] : before.aside[p] # Absent => aside[p] = before.aside[p]

(* slice.Write: nil means every file is the new one, an error without one  *)
(* of the rollback that every file is as it was ("rolls back changed files *)
(* on failure").  emit.Write: nil means every directory it was given is    *)
(* new and whole, and the others are as they were.                         *)
ReturnIsTrue ==
  /\ writer = "slice" =>
       /\ answer = "ok" => \A f \in File : place[f] = wanted
       /\ answer = "failed" => place = before.place
  /\ writer = "emit" /\ answer = "ok" =>
       \A r \in DOMAIN given :
         place[r] = IF given[r] = "own" THEN wanted ELSE before.place[r]

(* The call moves the manifest into place only after every artifact, also  *)
(* through a rollback ("an interrupted write never advertises new artifact *)
(* hashes before the corresponding files exist").                          *)
ManifestComesLast ==
  /\ writer = "slice" /\ step # "idle" /\ answer # "retained"
  /\ place[FileManifest] = wanted /\ before.place[FileManifest] # wanted
  => \A f \in File : place[f] = wanted

(* What is not the generator's is never moved or overwritten.              *)
HandwrittenStays ==
  \A p \in Place[writer] : before.place[p] = Foreign => place[p] = Foreign

(* All of them: however a call of a writer ends, the tree is the old one,  *)
(* the new one, or has the old content at hand.                            *)
WritesAreSafe ==
  OldIsKept /\ StaleBackupStays /\ ReturnIsTrue /\ ManifestComesLast /\ HandwrittenStays
=============================================================================
