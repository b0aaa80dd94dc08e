-------------------------- MODULE GenerationCommit --------------------------
(***************************************************************************)
(* The replacement transaction of the generator: writeGeneration and       *)
(* commitGenerationWithOps in src/generator/transaction.go.                *)
(*                                                                         *)
(* One run of winapigen renders every product into a fresh stage           *)
(* directory, checks that it owns every destination, then replaces the     *)
(* destinations one by one: rename the old content into the stage, rename  *)
(* the new content into place.  An error undoes the replaced destinations  *)
(* in reverse order; an error of the undo keeps the stage.  The process    *)
(* may also be killed between any two renames; nothing is journaled, so    *)
(* the next run starts from whatever the tree and the old stages hold.     *)
(*                                                                         *)
(* Targets are numbered in the order of writeGeneration's list.  The       *)
(* output of run r is the content r; content 0 is an earlier output.       *)
(***************************************************************************)
EXTENDS Contents

CONSTANTS
  NumTargets,   \* number of destinations a run replaces
  DirTargets,   \* the targets that are directory trees (bindings/generated, ...)
  Artifacts,    \* the slice files whose hashes the slice manifest records
  Manifest,     \* the target bindings/slice.manifest.json
  MaxRuns       \* bound on the number of runs

Target == 1 .. NumTargets
Run    == 1 .. MaxRuns

ASSUME SizeAssumption == NumTargets \in Nat \ {0} /\ MaxRuns \in Nat

ASSUME OrderAssumption ==
  /\ DirTargets \subseteq Target
  /\ Manifest \in Target
  /\ Artifacts \subseteq 1 .. (Manifest - 1)
  /\ DirTargets \cap (Artifacts \cup {Manifest}) = {}

Content == {Absent, Damaged, Foreign} \cup (0 .. MaxRuns)

VARIABLES
  dest,       \* what the tree holds at each destination
  stages,     \* runs whose stage directory is still on disk
  backups,    \* backups[r][i]: what stage r holds under backups/i
  run,        \* the latest run
  phase,      \* where that run is
  cursor,     \* index of the target being replaced, or being undone
  backedUp,   \* targets whose item in "changed" has a backup path
  installed,  \* targets whose item in "changed" is marked installed
  restoreErrors, \* targets whose undo failed
  outcome,    \* what the latest run returned
  pre,        \* history: the tree when the latest run began
  good,       \* history: the tree after the latest run that returned nil
  committed   \* history: the runs that returned nil

disk    == <<dest, stages, backups>>
process == <<phase, cursor, backedUp, installed, restoreErrors, outcome>>
history == <<pre, good, committed>>
vars    == <<disk, run, process, history>>

Phase   == {"idle", "staging", "place", "install", "undo", "restore", "cleanup"}
Outcome == {"none", "running", "ok", "failed", "retained", "crashed"}

TypeOK ==
  /\ dest \in [Target -> Content]
  /\ stages \subseteq Run
  /\ backups \in [Run -> [Target -> Content]]
  /\ run \in 0 .. MaxRuns
  /\ phase \in Phase
  /\ cursor \in 0 .. (NumTargets + 1)
  /\ backedUp \subseteq Target
  /\ installed \subseteq Target
  /\ restoreErrors \subseteq Target
  /\ outcome \in Outcome
  /\ pre \in [Target -> Content]
  /\ good \in [Target -> Content]
  /\ committed \subseteq Run

-----------------------------------------------------------------------------
(* A checkout: each destination is missing, holds an earlier output, or    *)
(* holds something else.                                                   *)
Init ==
  /\ dest \in [Target -> {Absent, Foreign, 0}]
  /\ stages = {}
  /\ backups = [r \in Run |-> [i \in Target |-> Absent]]
  /\ run = 0
  /\ phase = "idle"
  /\ cursor = 0
  /\ backedUp = {}
  /\ installed = {}
  /\ restoreErrors = {}
  /\ outcome = "none"
  /\ pre = dest
  /\ good = dest
  /\ committed = {}

(* The process is gone, and its memory with it.                            *)
Exit ==
  /\ phase' = "idle"
  /\ cursor' = 0
  /\ backedUp' = {}
  /\ installed' = {}
  /\ restoreErrors' = {}

(* writeGeneration makes its stage; everything is rendered there.          *)
Begin ==
  /\ phase = "idle"
  /\ run < MaxRuns
  /\ run' = run + 1
  /\ stages' = stages \cup {run + 1}
  /\ phase' = "staging"
  /\ cursor' = 1
  /\ outcome' = "running"
  /\ pre' = dest
  /\ UNCHANGED <<dest, backups, backedUp, installed, restoreErrors, good, committed>>

(* Rendering into the stage failed, or preflightGeneration refused a       *)
(* destination: return before any destination is touched.                  *)
GiveUp ==
  /\ phase = "staging"
  /\ phase' = "cleanup"
  /\ outcome' = "failed"
  /\ UNCHANGED <<disk, run, cursor, backedUp, installed, restoreErrors, history>>

(* Mutant: preflight looks at the directory trees only.                    *)
PreflightTreesOnly ==
  /\ phase = "staging"
  /\ \A i \in DirTargets : dest[i] # Foreign
  /\ phase' = "place"
  /\ UNCHANGED <<disk, run, cursor, backedUp, installed, restoreErrors, outcome, history>>

(* preflightGeneration recognised every destination that exists.           *)
Preflight ==
  /\ phase = "staging"
  /\ \A i \in Target : dest[i] # Foreign
  /\ phase' = "place"
  /\ UNCHANGED <<disk, run, cursor, backedUp, installed, restoreErrors, outcome, history>>

(* Move an existing destination into the stage, or find that there is none;*)
(* either way the target joins "changed", not yet installed.               *)
SetAside ==
  /\ phase = "place"
  /\ cursor \in Target
  /\ dest' = [dest EXCEPT ![cursor] = Absent]
  /\ backups' = [backups EXCEPT ![run] = [@ EXCEPT ![cursor] = dest[cursor]]]
  /\ backedUp' = IF dest[cursor] = Absent THEN backedUp ELSE backedUp \cup {cursor}
  /\ phase' = "install"
  /\ UNCHANGED <<stages, run, cursor, installed, restoreErrors, outcome, history>>

(* Mutant: the undo starts one item too low.                               *)
SetAsideFailsTooLow ==
  /\ phase = "place"
  /\ cursor \in Target
  /\ phase' = "undo"
  /\ cursor' = cursor - 2
  /\ UNCHANGED <<disk, run, backedUp, installed, restoreErrors, outcome, history>>

(* MkdirAll, Lstat or the rename to the backup failed: the target is not   *)
(* in "changed".                                                           *)
SetAsideFails ==
  /\ phase = "place"
  /\ cursor \in Target
  /\ phase' = "undo"
  /\ cursor' = cursor - 1
  /\ UNCHANGED <<disk, run, backedUp, installed, restoreErrors, outcome, history>>

Install ==
  /\ phase = "install"
  /\ dest' = [dest EXCEPT ![cursor] = run]
  /\ installed' = installed \cup {cursor}
  /\ phase' = "place"
  /\ cursor' = cursor + 1
  /\ UNCHANGED <<stages, backups, run, backedUp, restoreErrors, outcome, history>>

(* Mutant: a target joins "changed" only once it is installed.             *)
InstallFailsForgotten ==
  /\ phase = "install"
  /\ phase' = "undo"
  /\ cursor' = cursor - 1
  /\ UNCHANGED <<disk, run, backedUp, installed, restoreErrors, outcome, history>>

(* Mutant: a target whose rename failed is tried again, without end.       *)
InstallFailsRetries ==
  /\ phase = "install"
  /\ phase' = "place"
  /\ UNCHANGED <<disk, run, cursor, backedUp, installed, restoreErrors, outcome, history>>

InstallFails ==
  /\ phase = "install"
  /\ phase' = "undo"
  /\ UNCHANGED <<disk, run, cursor, backedUp, installed, restoreErrors, outcome, history>>

(* Every target is in place: commitGenerationWithOps returns nil.          *)
Commit ==
  /\ phase = "place"
  /\ cursor = NumTargets + 1
  /\ phase' = "cleanup"
  /\ outcome' = "ok"
  /\ good' = dest
  /\ committed' = committed \cup {run}
  /\ UNCHANGED <<disk, run, cursor, backedUp, installed, restoreErrors, pre>>

(* Mutant: the undo removes only what it has a backup for.                 *)
RemoveBackedUpOnly ==
  /\ phase = "undo"
  /\ cursor \in Target
  /\ dest' = IF cursor \in installed \cap backedUp THEN [dest EXCEPT ![cursor] = Absent] ELSE dest
  /\ phase' = "restore"
  /\ UNCHANGED <<stages, backups, run, cursor, backedUp, installed, restoreErrors, outcome, history>>

(* rollback, one item: remove what was installed ...                       *)
Remove ==
  /\ phase = "undo"
  /\ cursor \in Target
  /\ dest' = IF cursor \in installed THEN [dest EXCEPT ![cursor] = Absent] ELSE dest
  /\ phase' = "restore"
  /\ UNCHANGED <<stages, backups, run, cursor, backedUp, installed, restoreErrors, outcome, history>>

(* ... a failed removal skips the item; RemoveAll may have removed part of *)
(* a tree.                                                                 *)
RemoveFails ==
  /\ phase = "undo"
  /\ cursor \in installed
  /\ \/ UNCHANGED dest
     \/ cursor \in DirTargets /\ dest' = [dest EXCEPT ![cursor] = Damaged]
  /\ restoreErrors' = restoreErrors \cup {cursor}
  /\ cursor' = cursor - 1
  /\ UNCHANGED <<stages, backups, run, phase, backedUp, installed, outcome, history>>

(* ... and rename its backup, if it has one, to the destination.           *)
Restore ==
  /\ phase = "restore"
  /\ IF cursor \in backedUp
     THEN /\ dest' = [dest EXCEPT ![cursor] = backups[run][cursor]]
          /\ backups' = [backups EXCEPT ![run] = [@ EXCEPT ![cursor] = Absent]]
     ELSE UNCHANGED <<dest, backups>>
  /\ phase' = "undo"
  /\ cursor' = cursor - 1
  /\ UNCHANGED <<stages, run, backedUp, installed, restoreErrors, outcome, history>>

(* Mutant: a restore that copies, and removes the backup either way.       *)
RestoreFailsAndRemoves ==
  /\ phase = "restore"
  /\ cursor \in backedUp
  /\ backups' = [backups EXCEPT ![run] = [@ EXCEPT ![cursor] = Absent]]
  /\ restoreErrors' = restoreErrors \cup {cursor}
  /\ phase' = "undo"
  /\ cursor' = cursor - 1
  /\ UNCHANGED <<dest, stages, run, backedUp, installed, outcome, history>>

RestoreFails ==
  /\ phase = "restore"
  /\ cursor \in backedUp
  /\ restoreErrors' = restoreErrors \cup {cursor}
  /\ phase' = "undo"
  /\ cursor' = cursor - 1
  /\ UNCHANGED <<disk, run, backedUp, installed, outcome, history>>

(* Mutant: the stage is removed whatever the undo met.                     *)
RolledBackUnretained ==
  /\ phase = "undo"
  /\ cursor = 0
  /\ phase' = "cleanup"
  /\ outcome' = "failed"
  /\ UNCHANGED <<disk, run, cursor, backedUp, installed, restoreErrors, history>>

(* The rollback is over.  With undo errors writeGeneration finds a         *)
(* retainedStageError and keeps the stage.                                 *)
RolledBack ==
  /\ phase = "undo"
  /\ cursor = 0
  /\ IF restoreErrors # {}
     THEN /\ outcome' = "retained"
          /\ Exit
     ELSE /\ outcome' = "failed"
          /\ phase' = "cleanup"
          /\ UNCHANGED <<cursor, backedUp, installed, restoreErrors>>
  /\ UNCHANGED <<disk, run, history>>

(* The deferred RemoveAll of the stage; its error is ignored, so part of   *)
(* the stage may stay.                                                     *)
CleanUp ==
  /\ phase = "cleanup"
  /\ \/ /\ stages' = stages \ {run}
        /\ backups' = [backups EXCEPT ![run] = [i \in Target |-> Absent]]
     \/ \E left \in SUBSET Target :
          /\ backups' = [backups EXCEPT ![run] =
                           [i \in Target |-> IF i \in left THEN backups[run][i] ELSE Absent]]
          /\ UNCHANGED stages
  /\ Exit
  /\ UNCHANGED <<dest, run, outcome, history>>

(* The process is killed.  A removal in progress may be cut short.         *)
Crash ==
  /\ phase # "idle"
  /\ Exit
  /\ outcome' = IF outcome = "running" THEN "crashed" ELSE outcome
  /\ \/ UNCHANGED dest
     \/ /\ phase = "undo"
        /\ cursor \in installed \cap DirTargets
        /\ dest' = [dest EXCEPT ![cursor] = Damaged]
  /\ UNCHANGED <<stages, backups, run, history>>

(* Between runs the user may put something of their own at a destination,  *)
(* or delete what is there.                                                *)
UserEdits ==
  /\ phase = "idle"
  /\ \E i \in Target, c \in {Absent, Foreign} :
       /\ dest' = [dest EXCEPT ![i] = c]
       /\ good' = [good EXCEPT ![i] = c]
  /\ UNCHANGED <<stages, backups, run, process, pre, committed>>

Step ==
  \/ GiveUp \/ Preflight
  \/ SetAside \/ SetAsideFails
  \/ Install \/ InstallFails
  \/ Commit
  \/ Remove \/ RemoveFails
  \/ Restore \/ RestoreFails
  \/ RolledBack \/ CleanUp

Next == Begin \/ Step \/ Crash \/ UserEdits

Spec == Init /\ [][Next]_vars

(* The Go runtime keeps running a process that is not killed; runs, kills  *)
(* and edits are the environment's choice.                                 *)
FairSpec == Spec /\ WF_vars(Step)

-----------------------------------------------------------------------------
Working == {"staging", "place", "install", "undo", "restore"}

(* Whatever failed or was killed, and however often, each destination's    *)
(* content of the last successful generation is still at the destination   *)
(* or among the backups of a stage that is still on disk                   *)
(* (docs/known-limitations.md ATOMIC-CRASH-001: inspect the remaining      *)
(* .winapigen-stage-* backups).                                            *)
Kept(i) ==
  \/ good[i] = Absent
  \/ dest[i] = good[i]
  \/ \E r \in stages : backups[r][i] = good[i]

NothingLost == \A i \in Target : Kept(i)

(* A run that returns an error without retaining its stage has restored    *)
(* every destination ("A failed replacement restores every destination     *)
(* from the stage backup", transaction.go); one that returns nil has       *)
(* replaced every destination.                                             *)
AllOrNothing ==
  phase = "cleanup" =>
    /\ outcome = "failed" => dest = pre
    /\ outcome = "ok" => dest = [i \in Target |-> run]

(* Both: what is at a destination is never lost, and what a run that       *)
(* returns has done to the destinations is all or nothing.                 *)
TargetsAreSafe == NothingLost /\ AllOrNothing

(* A run that reports a retained stage has left each destination restored, *)
(* or its old content in that stage.                                       *)
RetainedIsComplete ==
  [][ (outcome' = "retained" /\ outcome # "retained") =>
        \A i \in Target :
          \/ pre[i] = Absent
          \/ dest'[i] = pre[i]
          \/ run \in stages' /\ backups'[run][i] = pre[i] ]_vars

(* The new slice manifest is in the tree only while every artifact whose   *)
(* hash it records is there too, also through a rollback and so whenever   *)
(* the process is killed, as long as no removal of the rollback failed.    *)
ManifestNeverEarly ==
  phase # "idle" /\ dest[Manifest] = run /\ restoreErrors = {} =>
    \A a \in Artifacts : dest[a] = run

(* What the generator does not recognise as its own is never moved,        *)
(* removed or overwritten by it.                                           *)
ForeignUntouched ==
  [][ phase # "idle" => \A i \in Target : dest[i] = Foreign => dest'[i] = Foreign ]_vars

(* Both: an interrupted run leaves what it found, and what is not the      *)
(* generator's stays.                                                      *)
RunsAreCareful == RetainedIsComplete /\ ForeignUntouched

(* A run that is not killed ends.                                          *)
RunEnds == phase # "idle" ~> phase = "idle"

=============================================================================
