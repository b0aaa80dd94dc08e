----------------------- MODULE GenerationCommitProofs -----------------------
(***************************************************************************)
(* The safety properties of GenerationCommit, for every number of targets  *)
(* and of runs.                                                            *)
(*                                                                         *)
(* NothingLost alone is not inductive: a rename into a destination is      *)
(* harmless only because the transaction knows what that destination       *)
(* holds.  TransactionInv says it, for each target, relative to the        *)
(* cursor: targets before it are Placed, targets after it are Untouched    *)
(* (while replacing) or Settled (while undoing).                           *)
(*                                                                         *)
(* The same invariant gives the refinement of AtomicGeneration.  At the    *)
(* end the writers of the stage (TreeWriters), whose undo list holds the   *)
(* old content of what they have replaced.                                 *)
(***************************************************************************)
EXTENDS GenerationRefinement, TreeWriters, FiniteSetTheorems, SequenceTheorems, TLAPS

(* The content an item of "changed" had is in the stage.                   *)
SavedInStage(i) ==
  /\ backups[run][i] = pre[i]
  /\ i \in backedUp <=> pre[i] # Absent

Untouched(i) ==
  /\ dest[i] = pre[i]
  /\ backups[run][i] = Absent
  /\ i \notin backedUp
  /\ i \notin installed

Aside(i)  == SavedInStage(i) /\ dest[i] = Absent /\ i \notin installed

Placed(i) == SavedInStage(i) /\ dest[i] = run /\ i \in installed

(* The rollback is done with the target.                                   *)
Undone(i)  == dest[i] = pre[i] /\ backups[run][i] = Absent
Stuck(i)   == restoreErrors # {} /\ backups[run][i] = pre[i] /\ dest[i] \in {Absent, Damaged, run}
Settled(i) == Undone(i) \/ Stuck(i)

TransactionInv ==
  /\ phase = "staging" => /\ outcome = "running"
                          /\ restoreErrors = {}
                          /\ cursor = 1
                          /\ \A i \in Target : Untouched(i)
  /\ phase = "place" => /\ outcome = "running"
                        /\ restoreErrors = {}
                        /\ cursor \in 1 .. (NumTargets + 1)
                        /\ \A i \in Target : IF i < cursor THEN Placed(i) ELSE Untouched(i)
  /\ phase = "install" => /\ outcome = "running"
                          /\ restoreErrors = {}
                          /\ cursor \in Target
                          /\ Aside(cursor)
                          /\ \A i \in Target : /\ i < cursor => Placed(i)
                                               /\ i > cursor => Untouched(i)
  /\ phase = "undo" => /\ outcome = "running"
                       /\ cursor \in 0 .. NumTargets
                       /\ \A i \in Target : /\ i < cursor => Placed(i)
                                            /\ i = cursor => Placed(i) \/ Aside(i)
                                            /\ i > cursor => Settled(i)
  /\ phase = "restore" => /\ outcome = "running"
                          /\ cursor \in Target
                          /\ SavedInStage(cursor)
                          /\ dest[cursor] = Absent
                          /\ \A i \in Target : /\ i < cursor => Placed(i)
                                               /\ i > cursor => Settled(i)
  /\ phase = "cleanup" =>
       \/ outcome = "failed" /\ \A i \in Target : Undone(i)
       \/ outcome = "ok" /\ \A i \in Target : dest[i] = run /\ good[i] = run

(* What the volatile state and the contents of the disk say of the runs.   *)
RunInv ==
  /\ phase = "idle" => backedUp = {} /\ installed = {} /\ restoreErrors = {}
  /\ phase # "idle" => run \in stages
  /\ stages \subseteq 1 .. run
  /\ \A r \in Run, i \in Target : r > run => backups[r][i] = Absent
  /\ \A i \in Target : dest[i] \in {Absent, Damaged, Foreign} \cup (0 .. run)
  /\ \A i \in Target : pre[i] \in {Absent, Damaged, Foreign} \cup (0 .. run)
  /\ \A i \in Target : good[i] \in {Absent, Foreign} \cup (0 .. run)
  /\ phase # "idle" => \A i \in Target : pre[i] # run
  /\ phase \in Working => \A i \in Target : good[i] # run
  /\ phase \in Working \ {"staging"} => \A i \in Target : pre[i] # Foreign

(* TypeOK alone is not inductive: a run that has begun has a number, and   *)
(* works on a target.                                                      *)
TypeInv ==
  /\ TypeOK
  /\ phase # "idle" => run # 0
  /\ phase \in {"install", "restore"} => cursor \in Target

IInv == TypeInv /\ RunInv /\ TransactionInv /\ NothingLost

-----------------------------------------------------------------------------
(* Every step keeps the types, and the facts about run and cursor that the *)
(* types rest on.                                                          *)
LEMMA TypeStep == TypeInv /\ [Next]_vars => TypeInv'
<1> SUFFICES ASSUME TypeInv, [Next]_vars PROVE TypeInv'
  OBVIOUS
<1> USE SizeAssumption DEF TypeInv, TypeOK, Phase, Outcome, history, disk
<1>c. /\ Absent \in Content /\ Damaged \in Content /\ Foreign \in Content
      /\ run \in Content
      /\ run # 0 => run \in Run
  BY DEF Content, Run
<1>1. CASE Begin
  BY <1>1, <1>c DEF Begin, Run
<1>2. CASE GiveUp
  BY <1>2 DEF GiveUp
<1>3. CASE Preflight
  BY <1>3 DEF Preflight
<1>4. CASE SetAside
  <2>1. /\ dest' \in [Target -> Content]
        /\ backups' \in [Run -> [Target -> Content]]
        /\ backedUp' \subseteq Target
    BY <1>4, <1>c DEF SetAside
  <2> QED
    BY <1>4, <2>1 DEF SetAside
<1>5. CASE SetAsideFails
  BY <1>5 DEF SetAsideFails, Target
<1>6. CASE Install
  BY <1>6, <1>c DEF Install, Target
<1>7. CASE InstallFails
  BY <1>7 DEF InstallFails
<1>8. CASE Commit
  BY <1>8, <1>c DEF Commit
<1>9. CASE Remove
  BY <1>9, <1>c DEF Remove
<1>10. CASE RemoveFails
  BY <1>10, <1>c DEF RemoveFails, Target
<1>11. CASE Restore
  <2>1. /\ dest' \in [Target -> Content]
        /\ backups' \in [Run -> [Target -> Content]]
    BY <1>11, <1>c DEF Restore
  <2> QED
    BY <1>11, <2>1 DEF Restore, Target
<1>12. CASE RestoreFails
  BY <1>12 DEF RestoreFails, Target
<1>13. CASE RolledBack
  BY <1>13 DEF RolledBack, Exit
<1>14. CASE CleanUp
  BY <1>14, <1>c DEF CleanUp, Exit
<1>15. CASE Crash
  BY <1>15, <1>c DEF Crash, Exit
<1>16. CASE UserEdits
  BY <1>16, <1>c DEF UserEdits, process
<1>17. CASE UNCHANGED vars
  BY <1>17 DEF vars, process
<1> QED
  BY <1>1, <1>2, <1>3, <1>4, <1>5, <1>6, <1>7, <1>8, <1>9, <1>10, <1>11, <1>12,
     <1>13, <1>14, <1>15, <1>16, <1>17 DEF Next, Step

(* Every reachable state is well typed.                                    *)
THEOREM TypeCorrect == Spec => []TypeOK
<1>1. Init => TypeInv
  BY SizeAssumption, ContentAssumption
  DEF Init, TypeInv, TypeOK, Target, Run, Content, Phase, Outcome
<1>2. TypeInv => TypeOK
  BY DEF TypeInv
<1> QED
  BY <1>1, <1>2, TypeStep, PTL DEF Spec

-----------------------------------------------------------------------------
(* A step of each action from a state of IInv leads to one.  Each lemma    *)
(* first says what the action does to the contents, point by point.        *)
Rest == RunInv /\ TransactionInv /\ NothingLost

(* A checkout satisfies the invariant.                                     *)
LEMMA InitInv == Init => IInv
<1> SUFFICES ASSUME Init PROVE IInv
  OBVIOUS
<1>1. TypeInv
  BY SizeAssumption, ContentAssumption
  DEF Init, TypeInv, TypeOK, Target, Run, Content, Phase, Outcome
<1> QED
  BY <1>1, SizeAssumption
  DEF Init, IInv, RunInv, TransactionInv, NothingLost, Kept, Working, Run, Target

(* writeGeneration begins with a fresh stage: nothing is displaced yet.    *)
LEMMA BeginInv == IInv /\ Begin => Rest'
<1> SUFFICES ASSUME IInv, Begin PROVE Rest'
  OBVIOUS
<1> USE SizeAssumption, ContentAssumption
<1>1. run \in Nat /\ run + 1 \in Run
  BY DEF IInv, TypeInv, TypeOK, Begin, Run
<1>2. RunInv'
  <2>1. Absent \notin Nat /\ Damaged \notin Nat /\ Foreign \notin Nat
    OBVIOUS
  <2>2. \A i \in Target : dest[i] # run + 1 /\ good[i] # run + 1
    BY <1>1, <2>1 DEF IInv, RunInv
  <2>3. \A i \in Target : /\ dest[i] \in {Absent, Damaged, Foreign} \cup (0 .. (run + 1))
                          /\ good[i] \in {Absent, Foreign} \cup (0 .. (run + 1))
    BY <1>1 DEF IInv, RunInv
  <2> QED
    BY <1>1, <2>2, <2>3 DEF IInv, TypeInv, TypeOK, RunInv, Begin, Working, Run
<1>3. TransactionInv'
  BY <1>1 DEF IInv, TypeInv, TypeOK, RunInv, TransactionInv, Begin, Untouched
<1>4. NothingLost'
  BY DEF IInv, NothingLost, Kept, Begin
<1> QED
  BY <1>2, <1>3, <1>4 DEF Rest

(* After preflight the run may displace what it found, none of it foreign. *)
LEMMA PreflightInv == IInv /\ Preflight => Rest'
<1> SUFFICES ASSUME IInv, Preflight PROVE Rest'
  OBVIOUS
<1> USE DEF disk, history, IInv
<1>1. \A i \in Target : pre[i] # Foreign
  BY DEF Preflight, TransactionInv, Untouched
<1>2. RunInv'
  BY <1>1 DEF Preflight, RunInv, Working
<1>3. TransactionInv'
  BY SizeAssumption
  DEF Preflight, TypeInv, TypeOK, TransactionInv, Untouched, Target
<1>4. NothingLost'
  BY DEF Preflight, NothingLost, Kept
<1> QED
  BY <1>2, <1>3, <1>4 DEF Rest

(* The steps of a run that touch no content.                               *)
LEMMA ControlInv ==
  IInv /\ (GiveUp \/ SetAsideFails \/ InstallFails \/ RestoreFails \/ RolledBack)
    => Rest'
<1> SUFFICES ASSUME IInv PROVE
      (GiveUp \/ SetAsideFails \/ InstallFails \/ RestoreFails \/ RolledBack)
        => Rest'
  OBVIOUS
<1> USE SizeAssumption, ContentAssumption
    DEF IInv, TypeInv, TypeOK, RunInv, TransactionInv, NothingLost, Kept, Working,
        SavedInStage, Untouched, Aside, Placed, Undone, Stuck, Settled, Rest, Target,
        disk, history
<1>1. CASE GiveUp
  BY <1>1 DEF GiveUp
<1>2. CASE SetAsideFails
  BY <1>2 DEF SetAsideFails
<1>3. CASE InstallFails
  BY <1>3 DEF InstallFails
<1>4. CASE RestoreFails
  BY <1>4 DEF RestoreFails
<1>5. CASE RolledBack
  BY <1>5 DEF RolledBack, Exit
<1> QED
  BY <1>1, <1>2, <1>3, <1>4, <1>5

(* The target at the cursor moves from Untouched to Aside; its content is  *)
(* in the run's stage.                                                     *)
LEMMA SetAsideInv == IInv /\ SetAside => Rest'
<1> SUFFICES ASSUME IInv, SetAside PROVE Rest'
  OBVIOUS
<1> USE SizeAssumption, ContentAssumption
<1>1. cursor \in Target /\ run \in Run /\ run \in stages
  BY DEF IInv, TypeInv, TypeOK, RunInv, SetAside, Run
<1>2. /\ dest'[cursor] = Absent
      /\ \A i \in Target : i # cursor => dest'[i] = dest[i]
  BY <1>1 DEF IInv, TypeInv, TypeOK, SetAside
<1>3. /\ backups'[run][cursor] = dest[cursor]
      /\ \A i \in Target : i # cursor => backups'[run][i] = backups[run][i]
      /\ \A r \in Run : r # run => backups'[r] = backups[r]
  BY <1>1 DEF IInv, TypeInv, TypeOK, SetAside
<1>4. RunInv'
  BY <1>1, <1>2, <1>3 DEF IInv, TypeInv, TypeOK, RunInv, SetAside, Working, history, Run
<1>5. TransactionInv'
  BY <1>1, <1>2, <1>3
  DEF IInv, TypeInv, TypeOK, TransactionInv, SetAside, history,
      SavedInStage, Untouched, Aside, Placed, Target
<1>6. NothingLost'
  <2> SUFFICES ASSUME NEW i \in Target PROVE Kept(i)'
    BY DEF NothingLost
  <2>0. Kept(i) /\ good'[i] = good[i] /\ stages' = stages /\ stages \subseteq Run
    BY DEF IInv, TypeInv, TypeOK, NothingLost, SetAside, history
  <2>1. CASE i = cursor
    <3>1. backups[run][cursor] = Absent
      BY <1>1 DEF IInv, TransactionInv, Untouched, SetAside, Target
    <3> QED
      BY <1>1, <1>2, <1>3, <2>0, <2>1, <3>1 DEF Kept
  <2>2. CASE i # cursor
    BY <1>1, <1>2, <1>3, <2>0, <2>2 DEF Kept
  <2> QED
    BY <2>1, <2>2
<1> QED
  BY <1>4, <1>5, <1>6 DEF Rest

(* The target at the cursor moves from Aside to Placed.                    *)
LEMMA InstallInv == IInv /\ Install => Rest'
<1> SUFFICES ASSUME IInv, Install PROVE Rest'
  OBVIOUS
<1> USE SizeAssumption, ContentAssumption
<1>1. cursor \in Target /\ run \in Run /\ run \in 0 .. run
  BY DEF IInv, TypeInv, TypeOK, TransactionInv, Install, Run
<1>2. /\ dest'[cursor] = run
      /\ \A i \in Target : i # cursor => dest'[i] = dest[i]
  BY <1>1 DEF IInv, TypeInv, TypeOK, Install
<1>3. dest[cursor] = Absent
  BY DEF IInv, TransactionInv, Install, Aside
<1>4. RunInv'
  BY <1>1, <1>2 DEF IInv, TypeInv, TypeOK, RunInv, Install, Working, history
<1>5. TransactionInv'
  BY <1>1, <1>2
  DEF IInv, TypeInv, TypeOK, TransactionInv, Install, history,
      SavedInStage, Untouched, Aside, Placed, Target
<1>6. NothingLost'
  BY <1>2, <1>3 DEF IInv, NothingLost, Kept, Install, history
<1> QED
  BY <1>4, <1>5, <1>6 DEF Rest

(* With every target Placed, the tree is the new last good one.            *)
LEMMA CommitInv == IInv /\ Commit => Rest'
<1> SUFFICES ASSUME IInv, Commit PROVE Rest'
  OBVIOUS
<1> USE SizeAssumption, ContentAssumption
<1>1. \A i \in Target : dest[i] = run /\ run \in 0 .. run
  BY DEF IInv, TypeInv, TypeOK, TransactionInv, Commit, Placed, Target
<1>2. RunInv'
  BY <1>1 DEF IInv, TypeInv, TypeOK, RunInv, Commit, Working, disk
<1>3. TransactionInv'
  BY <1>1 DEF IInv, TransactionInv, Commit, disk
<1>4. NothingLost'
  BY DEF NothingLost, Kept, Commit, disk
<1> QED
  BY <1>2, <1>3, <1>4 DEF Rest

(* Removing an installed target takes away only what this run made.        *)
LEMMA RemoveInv == IInv /\ Remove => Rest'
<1> SUFFICES ASSUME IInv, Remove PROVE Rest'
  OBVIOUS
<1> USE SizeAssumption, ContentAssumption
<1>1. cursor \in Target /\ phase = "undo"
  BY DEF Remove
<1>2. /\ dest'[cursor] = Absent
      /\ \A i \in Target : i # cursor => dest'[i] = dest[i]
      /\ SavedInStage(cursor)
      /\ dest[cursor] \in {Absent, run}
  BY <1>1 DEF IInv, TypeInv, TypeOK, TransactionInv, Remove, Placed, Aside
<1>3. RunInv'
  BY <1>1, <1>2 DEF IInv, TypeInv, TypeOK, RunInv, Remove, Working, history
<1>4. TransactionInv'
  BY <1>1, <1>2
  DEF IInv, TypeInv, TypeOK, TransactionInv, Remove, history,
      SavedInStage, Placed, Undone, Stuck, Settled, Target
<1>5. NothingLost'
  BY <1>1, <1>2
  DEF IInv, RunInv, NothingLost, Kept, Remove, Working, history
<1> QED
  BY <1>3, <1>4, <1>5 DEF Rest

(* A target whose removal failed is Stuck: its content stays in the stage. *)
LEMMA RemoveFailsInv == IInv /\ RemoveFails => Rest'
<1> SUFFICES ASSUME IInv, RemoveFails PROVE Rest'
  OBVIOUS
<1> USE SizeAssumption, ContentAssumption
<1>1. cursor \in Target /\ phase = "undo" /\ restoreErrors' # {}
  BY DEF IInv, TypeInv, TypeOK, RemoveFails
<1>2. /\ dest'[cursor] \in {Damaged, run}
      /\ \A i \in Target : i # cursor => dest'[i] = dest[i]
      /\ SavedInStage(cursor)
      /\ dest[cursor] = run
  BY <1>1 DEF IInv, TypeInv, TypeOK, TransactionInv, RemoveFails, Placed, Aside
<1>3. RunInv'
  BY <1>1, <1>2 DEF IInv, TypeInv, TypeOK, RunInv, RemoveFails, Working, history
<1>4. TransactionInv'
  BY <1>1, <1>2
  DEF IInv, TypeInv, TypeOK, TransactionInv, RemoveFails, history,
      SavedInStage, Placed, Undone, Stuck, Settled, Target
<1>5. NothingLost'
  BY <1>1, <1>2
  DEF IInv, RunInv, NothingLost, Kept, RemoveFails, Working, history
<1> QED
  BY <1>3, <1>4, <1>5 DEF Rest

(* Renaming the backup back makes the target Undone.                       *)
LEMMA RestoreInv == IInv /\ Restore => Rest'
<1> SUFFICES ASSUME IInv, Restore PROVE Rest'
  OBVIOUS
<1> USE SizeAssumption, ContentAssumption
<1>1. cursor \in Target /\ run \in Run
  BY DEF IInv, TypeInv, TypeOK, Restore, Run
<1>2. SavedInStage(cursor) /\ dest[cursor] = Absent
  BY DEF IInv, TransactionInv, Restore
<1>3. /\ dest'[cursor] = pre[cursor]
      /\ \A i \in Target : i # cursor => dest'[i] = dest[i]
  BY <1>1, <1>2 DEF IInv, TypeInv, TypeOK, Restore, SavedInStage
<1>4. /\ backups'[run][cursor] = Absent
      /\ \A i \in Target : i # cursor => backups'[run][i] = backups[run][i]
      /\ \A r \in Run : r # run => backups'[r] = backups[r]
  BY <1>1, <1>2 DEF IInv, TypeInv, TypeOK, Restore, SavedInStage
<1>5. RunInv'
  <2>1. pre[cursor] \in {Absent, Damaged, Foreign} \cup (0 .. run)
    BY <1>1 DEF IInv, RunInv
  <2> QED
    BY <1>1, <1>3, <1>4, <2>1
    DEF IInv, TypeInv, TypeOK, RunInv, Restore, Working, history, Run
<1>6. TransactionInv'
  BY <1>1, <1>3, <1>4
  DEF IInv, TypeInv, TypeOK, TransactionInv, Restore, history,
      SavedInStage, Placed, Undone, Stuck, Settled, Target
<1>7. NothingLost'
  <2> SUFFICES ASSUME NEW i \in Target PROVE Kept(i)'
    BY DEF NothingLost
  <2>1. Kept(i) /\ good'[i] = good[i] /\ stages' = stages /\ stages \subseteq Run
    BY DEF IInv, TypeInv, TypeOK, NothingLost, Restore, history
  <2>2. CASE i = cursor
    BY <1>1, <1>2, <1>3, <1>4, <2>1, <2>2 DEF Kept, SavedInStage
  <2>3. CASE i # cursor
    BY <1>1, <1>3, <1>4, <2>1, <2>3 DEF Kept
  <2> QED
    BY <2>2, <2>3
<1> QED
  BY <1>5, <1>6, <1>7 DEF Rest

(* Removing the stage is harmless after a complete replacement or          *)
(* rollback: every last good content is at its destination, or in an older *)
(* stage.                                                                  *)
LEMMA CleanUpInv == IInv /\ CleanUp => Rest'
<1> SUFFICES ASSUME IInv, CleanUp PROVE Rest'
  OBVIOUS
<1> USE SizeAssumption, ContentAssumption
<1>1. run \in Run /\ stages \subseteq Run
  BY DEF IInv, TypeInv, TypeOK, CleanUp, Run
<1>2. /\ \A r \in Run : r # run => backups'[r] = backups[r]
      /\ \A i \in Target : backups'[run][i] \in {backups[run][i], Absent}
      /\ stages' \subseteq stages
      /\ \A r \in stages : r # run => r \in stages'
  <2>1. backups \in [Run -> [Target -> Content]]
    BY DEF IInv, TypeInv, TypeOK
  <2>2. \A r \in Run : r # run => backups'[r] = backups[r]
    BY <1>1, <2>1 DEF CleanUp
  <2>4. \A i \in Target : backups'[run][i] \in {backups[run][i], Absent}
    <3>1. CASE backups' = [backups EXCEPT ![run] = [i \in Target |-> Absent]]
      BY <1>1, <2>1, <3>1
    <3>2. ASSUME NEW left \in SUBSET Target,
                 backups' = [backups EXCEPT ![run] =
                               [i \in Target |-> IF i \in left THEN backups[run][i] ELSE Absent]]
          PROVE  \A i \in Target : backups'[run][i] \in {backups[run][i], Absent}
      BY <1>1, <2>1, <3>2
    <3> QED
      BY <3>1, <3>2 DEF CleanUp
  <2>3. stages' \subseteq stages /\ \A r \in stages : r # run => r \in stages'
    BY DEF CleanUp
  <2> QED
    BY <2>2, <2>3, <2>4
<1>3. RunInv'
  <2>1. \A r \in Run, i \in Target : r > run => backups'[r][i] = Absent
    BY <1>1, <1>2 DEF IInv, RunInv, Run
  <2>2. stages' \subseteq 1 .. run
    BY <1>2 DEF IInv, RunInv
  <2> QED
    BY <2>1, <2>2 DEF IInv, RunInv, CleanUp, Exit, Working, history
<1>4. TransactionInv'
  BY DEF TransactionInv, CleanUp, Exit
<1>5. NothingLost'
  <2> SUFFICES ASSUME NEW i \in Target PROVE Kept(i)'
    BY DEF NothingLost
  <2>1. Kept(i) /\ good'[i] = good[i] /\ dest'[i] = dest[i]
    BY DEF IInv, NothingLost, CleanUp, history
  <2>2. backups[run][i] = Absent \/ dest[i] = good[i]
    BY DEF IInv, TransactionInv, CleanUp, Undone
  <2> QED
    BY <1>1, <1>2, <2>1, <2>2 DEF Kept
<1> QED
  BY <1>3, <1>4, <1>5 DEF Rest

(* A kill keeps the stage, and with it whatever the run displaced.         *)
LEMMA CrashInv == IInv /\ Crash => Rest'
<1> SUFFICES ASSUME IInv, Crash PROVE Rest'
  OBVIOUS
<1> USE SizeAssumption, ContentAssumption
<1>1. \A i \in Target :
        dest'[i] = dest[i] \/ (phase = "undo" /\ dest[i] = run /\ dest'[i] = Damaged)
  BY DEF IInv, TypeInv, TypeOK, TransactionInv, Crash, Placed, Aside
<1>2. RunInv'
  BY <1>1 DEF IInv, TypeInv, TypeOK, RunInv, Crash, Exit, Working, history
<1>3. TransactionInv'
  BY DEF TransactionInv, Crash, Exit
<1>4. NothingLost'
  BY <1>1 DEF IInv, RunInv, NothingLost, Kept, Crash, Working, history
<1> QED
  BY <1>2, <1>3, <1>4 DEF Rest

(* What the user changes between runs is the new last good content.        *)
LEMMA UserEditsInv == IInv /\ UserEdits => Rest'
<1> SUFFICES ASSUME IInv, UserEdits PROVE Rest'
  OBVIOUS
<1>1. PICK i \in Target, c \in {Absent, Foreign} :
        /\ dest' = [dest EXCEPT ![i] = c]
        /\ good' = [good EXCEPT ![i] = c]
  BY DEF UserEdits
<1>2. /\ dest'[i] = c /\ good'[i] = c
      /\ \A j \in Target : j # i => dest'[j] = dest[j] /\ good'[j] = good[j]
  BY <1>1 DEF IInv, TypeInv, TypeOK
<1>3. RunInv'
  BY <1>1, <1>2
  DEF IInv, TypeInv, TypeOK, RunInv, UserEdits, Working, process
<1>4. TransactionInv'
  BY DEF TransactionInv, UserEdits, process
<1>5. NothingLost'
  BY <1>2 DEF IInv, NothingLost, Kept, UserEdits
<1> QED
  BY <1>3, <1>4, <1>5 DEF Rest

(* A step that changes nothing keeps the invariant.                        *)
LEMMA StutterInv == IInv /\ UNCHANGED vars => Rest'
BY DEF IInv, Rest, RunInv, TransactionInv, NothingLost, Kept, vars, disk, process,
       history, Working, SavedInStage, Untouched, Aside, Placed, Undone, Stuck, Settled

(* Every step keeps the invariant.                                         *)
LEMMA StepInv == IInv /\ [Next]_vars => IInv'
<1> SUFFICES ASSUME IInv, [Next]_vars PROVE IInv'
  OBVIOUS
<1>1. TypeInv'
  BY TypeStep DEF IInv
<1>2. Rest'
  BY BeginInv, PreflightInv, ControlInv, SetAsideInv, InstallInv, CommitInv, RemoveInv,
     RemoveFailsInv, RestoreInv, CleanUpInv, CrashInv, UserEditsInv, StutterInv
  DEF Next, Step
<1> QED
  BY <1>1, <1>2 DEF Rest, IInv

(* The inductive invariant holds in every reachable state of the           *)
(* transaction.                                                            *)
THEOREM Invariance == Spec => []IInv
BY InitInv, StepInv, PTL DEF Spec

-----------------------------------------------------------------------------
(* Whatever fails or is killed, and however often, the last good content   *)
(* of every destination is at the destination or in a stage on disk: the   *)
(* backups of commitGenerationWithOps are never the only copy removed.     *)
THEOREM NothingIsLost == Spec => []NothingLost
<1>1. IInv => NothingLost
  BY DEF IInv
<1> QED
  BY <1>1, Invariance, PTL

(* writeGeneration removes its stage only after a complete replacement or  *)
(* a complete rollback.                                                    *)
THEOREM AllOrNothingHolds == Spec => []AllOrNothing
<1>1. IInv => AllOrNothing
  <2> SUFFICES ASSUME IInv, phase = "cleanup"
               PROVE /\ outcome = "failed" => dest = pre
                     /\ outcome = "ok" => dest = [i \in Target |-> run]
    BY DEF AllOrNothing
  <2>1. DOMAIN dest = Target /\ DOMAIN pre = Target
        /\ dest = [i \in Target |-> dest[i]] /\ pre = [i \in Target |-> pre[i]]
    BY DEF IInv, TypeInv, TypeOK
  <2>2. outcome = "failed" => \A i \in Target : dest[i] = pre[i]
    BY DEF IInv, TransactionInv, Undone
  <2>3. outcome = "ok" => \A i \in Target : dest[i] = run
    BY DEF IInv, TransactionInv
  <2> QED
    BY <2>1, <2>2, <2>3
<1> QED
  BY <1>1, Invariance, PTL

(* The slice manifest is installed last of the slice and removed first, so *)
(* it never records artifacts that are not there.                          *)
THEOREM ManifestIsNeverEarly == Spec => []ManifestNeverEarly
<1>1. IInv => ManifestNeverEarly
  <2> SUFFICES ASSUME IInv, phase # "idle", dest[Manifest] = run, restoreErrors = {},
                      NEW a \in Artifacts
               PROVE dest[a] = run
    BY DEF ManifestNeverEarly
  <2>1. /\ Manifest \in Target /\ a \in Target /\ a < Manifest
        /\ pre[Manifest] # run /\ run # Absent
    <3>1. Manifest \in Target /\ a \in 1 .. (Manifest - 1)
      BY OrderAssumption
    <3>2. run # Absent
      <4>1. Absent \notin Nat
        BY ContentAssumption
      <4> QED
        BY <4>1, SizeAssumption DEF IInv, TypeInv, TypeOK
    <3>3. pre[Manifest] # run
      BY <3>1 DEF IInv, RunInv
    <3> QED
      BY <3>1, <3>2, <3>3, SizeAssumption DEF Target
  <2>2. cursor \in Int
    BY SizeAssumption DEF IInv, TypeInv, TypeOK
  <2>3. CASE phase \in {"staging", "place", "install"}
    BY <2>1, <2>2, <2>3, SizeAssumption DEF IInv, TransactionInv, Placed, Aside, Untouched, Target
  <2>4. CASE phase \in {"undo", "restore"}
    BY <2>1, <2>2, <2>4, SizeAssumption
    DEF IInv, TransactionInv, Placed, Aside, Settled, Undone, Stuck, Target
  <2>5. CASE phase = "cleanup"
    BY <2>1, <2>5 DEF IInv, TransactionInv, Undone
  <2> QED
    BY <2>3, <2>4, <2>5 DEF IInv, TypeInv, TypeOK, Phase
<1> QED
  BY <1>1, Invariance, PTL

(* A run that reports a retained stage leaves nothing that it displaced    *)
(* out of that stage.                                                      *)
THEOREM RetainedStageIsComplete == Spec => RetainedIsComplete
<1>1. IInv /\ [Next]_vars =>
        [outcome' = "retained" /\ outcome # "retained" =>
           \A i \in Target : \/ pre[i] = Absent
                             \/ dest'[i] = pre[i]
                             \/ run \in stages' /\ backups'[run][i] = pre[i]]_vars
  <2> SUFFICES ASSUME IInv, Next, outcome' = "retained", outcome # "retained",
                      NEW i \in Target
               PROVE \/ dest'[i] = pre[i]
                     \/ run \in stages' /\ backups'[run][i] = pre[i]
    OBVIOUS
  <2>1. RolledBack
    BY DEF Next, Step, Begin, GiveUp, Preflight, SetAside, SetAsideFails, Install,
           InstallFails, Commit, Remove, RemoveFails, Restore, RestoreFails, CleanUp,
           Crash, UserEdits, process
  <2>2. Settled(i) /\ run \in stages
    BY <2>1, SizeAssumption DEF IInv, RunInv, TransactionInv, RolledBack, Target
  <2> QED
    BY <2>1, <2>2 DEF RolledBack, disk, Settled, Undone, Stuck
<1> QED
  BY <1>1, Invariance, PTL DEF RetainedIsComplete, Spec

(* What preflightGeneration did not recognise stays: every destination the *)
(* transaction moves or removes held generated output when it was checked. *)
THEOREM ForeignIsUntouched == Spec => ForeignUntouched
<1>1. IInv /\ [Next]_vars =>
        [phase # "idle" => \A i \in Target : dest[i] = Foreign => dest'[i] = Foreign]_vars
  <2> SUFFICES ASSUME IInv, Next, phase # "idle", NEW i \in Target, dest[i] = Foreign
               PROVE  dest'[i] = Foreign
    OBVIOUS
  <2>1. dest[i] # run /\ dest[i] # Absent
    <3>1. Foreign \notin Nat /\ Foreign # Absent
      BY ContentAssumption
    <3> QED
      BY <3>1, SizeAssumption DEF IInv, TypeInv, TypeOK
  <2>2. phase \in {"place", "install", "undo", "restore"} => pre[i] # Foreign
    BY DEF IInv, RunInv, Working
  <2>3. CASE UNCHANGED dest
    BY <2>3
  <2>4. CASE SetAside
    BY <2>2, <2>4 DEF IInv, TypeInv, TypeOK, TransactionInv, SetAside, Untouched, Target
  <2>5. CASE Install
    BY <2>1, <2>5 DEF IInv, TypeInv, TypeOK, TransactionInv, Install, Aside
  <2>6. CASE Remove \/ RemoveFails
    BY <2>1, <2>6
    DEF IInv, TypeInv, TypeOK, TransactionInv, Remove, RemoveFails, Placed, Aside
  <2>7. CASE Restore
    BY <2>1, <2>7 DEF IInv, TypeInv, TypeOK, TransactionInv, Restore
  <2>8. CASE Crash
    BY <2>1, <2>8 DEF IInv, TypeInv, TypeOK, TransactionInv, Crash, Placed, Aside
  <2> QED
    BY <2>3, <2>4, <2>5, <2>6, <2>7, <2>8
    DEF Next, Step, Begin, GiveUp, Preflight, SetAsideFails, InstallFails, Commit,
        RestoreFails, RolledBack, CleanUp, UserEdits, disk
<1> QED
  BY <1>1, Invariance, PTL DEF ForeignUntouched, Spec

(* Nothing is lost, and a run that returns has done all or nothing.        *)
THEOREM TargetsStaySafe == Spec => []TargetsAreSafe
BY NothingIsLost, AllOrNothingHolds, PTL DEF TargetsAreSafe

(* A retained stage is complete, and what is not the generator's stays     *)
(* (transaction.go, writeGeneration and preflightGeneration).              *)
THEOREM RunsStayCareful == Spec => RunsAreCareful
BY RetainedStageIsComplete, ForeignIsUntouched, PTL DEF RunsAreCareful

-----------------------------------------------------------------------------
(* The refinement.  It needs to know which runs have returned nil: none    *)
(* that is still at work, and of those that clean up just the ones that    *)
(* say so.                                                                 *)
CommittedInv ==
  /\ committed \subseteq 1 .. run
  /\ phase \in Working => run \notin committed
  /\ phase = "cleanup" => (outcome = "ok" <=> run \in committed)

(* What a run at work may have done to a target: it is as it was, or its   *)
(* old content is in the stage.                                            *)
Displaced(i) ==
  /\ dest[i] \in {pre[i], Absent, Damaged, run}
  /\ backups[run][i] \in {pre[i], Absent}
  /\ dest[i] # pre[i] => backups[run][i] = pre[i]

(* Begin takes a new number, Commit adds the run that it ends.             *)
LEMMA CommittedStep == IInv /\ CommittedInv /\ [Next]_vars => CommittedInv'
<1> SUFFICES ASSUME IInv, CommittedInv, [Next]_vars PROVE CommittedInv'
  OBVIOUS
<1> USE DEF CommittedInv, Working
<1>0. run \in Nat
  BY SizeAssumption DEF IInv, TypeInv, TypeOK
<1>1. CASE Begin
  BY <1>0, <1>1 DEF Begin
<1>2. CASE Commit
  BY <1>0, <1>2 DEF Commit, disk, IInv, TypeInv
<1>3. CASE CleanUp \/ RolledBack \/ Crash
  BY <1>0, <1>3 DEF CleanUp, RolledBack, Crash, Exit, history, disk, IInv, TransactionInv
<1>4. CASE GiveUp \/ Preflight \/ SetAside \/ SetAsideFails \/ Install \/ InstallFails
  BY <1>0, <1>4
  DEF GiveUp, Preflight, SetAside, SetAsideFails, Install, InstallFails, history, disk
<1>5. CASE Remove \/ RemoveFails \/ Restore \/ RestoreFails
  BY <1>0, <1>5 DEF Remove, RemoveFails, Restore, RestoreFails, history, disk
<1>6. CASE UserEdits \/ UNCHANGED vars
  BY <1>0, <1>6 DEF UserEdits, vars, process, history
<1> QED
  BY <1>1, <1>2, <1>3, <1>4, <1>5, <1>6 DEF Next, Step

(* Wherever a run stops, it has displaced nothing that is not kept.        *)
LEMMA DisplacedAtWork ==
  ASSUME IInv, phase \in Working, NEW i \in Target
  PROVE  Displaced(i)
<1> USE SizeAssumption DEF Displaced, SavedInStage, Untouched, Aside, Placed, Undone, Stuck, Settled
<1>0. cursor \in Int /\ i \in Int
  BY DEF IInv, TypeInv, TypeOK, Target
<1>1. CASE phase = "staging"
  BY <1>1 DEF IInv, TransactionInv
<1>2. CASE phase = "place"
  BY <1>0, <1>2 DEF IInv, TransactionInv
<1>3. CASE phase = "install"
  BY <1>0, <1>3 DEF IInv, TransactionInv
<1>4. CASE phase = "undo"
  BY <1>0, <1>4 DEF IInv, TransactionInv
<1>5. CASE phase = "restore"
  BY <1>0, <1>5 DEF IInv, TransactionInv
<1> QED
  BY <1>1, <1>2, <1>3, <1>4, <1>5 DEF Working

(* A checkout is an abstract one with nothing saved.                       *)
LEMMA InitRefines == Init => Atomic!Init
BY DEF Init, Atomic!Init, AbstractTree, AbstractSaved, Interrupted, Working, Target

(* What a step does to the saved contents: nothing as long as the run goes *)
(* on.                                                                     *)
LEMMA SavedAtWork ==
  ASSUME phase # "idle", phase' # "idle", run' = run, stages' = stages,
         committed' \in {committed, committed \cup {run}},
         \A r \in stages : r # run => backups'[r] = backups[r]
  PROVE  AbstractSaved' = AbstractSaved
<1>1. Interrupted' = Interrupted /\ \A r \in Interrupted : r \in stages /\ r # run
  BY DEF Interrupted
<1> QED
  BY <1>1 DEF AbstractSaved

(* An end without success: what the stage holds is saved.                  *)
LEMMA SavedAtEnd ==
  ASSUME phase # "idle", phase' = "idle", run' = run, stages' = stages, run \in stages,
         run \notin committed, committed' = committed, backups' = backups
  PROVE  AbstractSaved' = [i \in Target |-> AbstractSaved[i] \cup ({backups[run][i]} \ {Absent})]
<1>1. Interrupted' = Interrupted \cup {run}
  BY DEF Interrupted
<1> QED
  BY <1>1 DEF AbstractSaved

(* Until the run ends nothing of it shows.                                 *)
LEMMA WorkRefines ==
  ASSUME IInv, CommittedInv,
         Preflight \/ SetAside \/ SetAsideFails \/ Install \/ InstallFails
         \/ Remove \/ RemoveFails \/ Restore \/ RestoreFails
  PROVE  UNCHANGED <<AbstractTree, AbstractSaved, run>>
<1>1. /\ phase \in Working /\ phase' \in Working
      /\ run' = run /\ pre' = pre /\ stages' = stages /\ committed' = committed
  BY DEF Preflight, SetAside, SetAsideFails, Install, InstallFails, Remove, RemoveFails,
         Restore, RestoreFails, Working, disk, history
<1>2. \A r \in stages : r # run => backups'[r] = backups[r]
  <2>1. backups \in [Run -> [Target -> Content]] /\ stages \subseteq Run
    BY DEF IInv, TypeInv, TypeOK
  <2> QED
    BY <2>1 DEF Preflight, SetAside, SetAsideFails, Install, InstallFails, Remove,
                RemoveFails, Restore, RestoreFails, disk
<1>3. AbstractSaved' = AbstractSaved
  BY <1>1, <1>2, SavedAtWork DEF Working
<1> QED
  BY <1>1, <1>3 DEF AbstractTree

(* writeGeneration makes a stage with nothing in it.                       *)
LEMMA BeginRefines == IInv /\ Begin => Atomic!Start
<1> SUFFICES ASSUME IInv, Begin PROVE Atomic!Start
  OBVIOUS
<1>1. AbstractTree' = AbstractTree
  BY DEF Begin, AbstractTree, Working
<1>2. Interrupted' = Interrupted
  BY SizeAssumption DEF Begin, Interrupted, IInv, RunInv, TypeInv, TypeOK
<1> QED
  BY <1>1, <1>2 DEF Atomic!Start, Begin, AbstractSaved

(* Rendering or the preflight failed: the tree is as it was.               *)
LEMMA GiveUpRefines ==
  IInv /\ GiveUp => UNCHANGED <<AbstractTree, AbstractSaved, run>>
<1> SUFFICES ASSUME IInv, GiveUp PROVE UNCHANGED <<AbstractTree, AbstractSaved, run>>
  OBVIOUS
<1>1. dest = pre /\ dest' = dest
  <2>1. \A i \in Target : dest[i] = pre[i]
    BY DEF GiveUp, IInv, TransactionInv, Untouched
  <2> QED
    BY <2>1 DEF GiveUp, IInv, TypeInv, TypeOK, disk
<1>2. AbstractSaved' = AbstractSaved
  BY SavedAtWork DEF GiveUp, disk, history
<1> QED
  BY <1>1, <1>2 DEF GiveUp, AbstractTree, Working

(* commitGenerationWithOps returns nil: everything is new, at once.        *)
LEMMA CommitRefines == IInv /\ CommittedInv /\ Commit => Atomic!ReplaceAll
<1> SUFFICES ASSUME IInv, CommittedInv, Commit PROVE Atomic!ReplaceAll
  OBVIOUS
<1>1. /\ AbstractTree = pre /\ AbstractTree' = dest
      /\ run > 0 /\ run' = run
      /\ \A i \in Target : pre[i] # Foreign
  BY SizeAssumption
  DEF Commit, AbstractTree, Working, disk, IInv, RunInv, TypeInv, TypeOK
<1>2. dest = [i \in Target |-> run]
  <2>1. \A i \in Target : dest[i] = run
    BY SizeAssumption DEF Commit, IInv, TransactionInv, Placed, Target
  <2> QED
    BY <2>1 DEF IInv, TypeInv, TypeOK
<1>3. AbstractSaved' = AbstractSaved
  BY SavedAtWork DEF Commit, disk
<1> QED
  BY <1>1, <1>2, <1>3 DEF Atomic!ReplaceAll

(* A run stops with something displaced: what it displaced is saved.       *)
LEMMA StopRefines ==
  ASSUME IInv, CommittedInv, phase \in Working \ {"staging"}, phase' = "idle",
         run' = run, stages' = stages, committed' = committed, backups' = backups,
         dest' \in [Target -> Content],
         \A i \in Target : dest'[i] = dest[i] \/ (dest[i] = run /\ dest'[i] = Damaged)
  PROVE  Atomic!Interrupt
<1>1. /\ AbstractTree = pre /\ AbstractTree' = dest'
      /\ run > 0 /\ run \in stages /\ run \notin committed
      /\ \A i \in Target : pre[i] # Foreign
  BY SizeAssumption
  DEF AbstractTree, Working, IInv, RunInv, TypeInv, TypeOK, CommittedInv
<1>2. AbstractSaved' = [i \in Target |-> AbstractSaved[i] \cup ({backups[run][i]} \ {Absent})]
  BY <1>1, SavedAtEnd DEF Working
<1>3. \A i \in Target : /\ dest'[i] \in {pre[i], Absent, Damaged, run}
                        /\ backups[run][i] \in {pre[i], Absent}
                        /\ dest'[i] # pre[i] /\ pre[i] # Absent
                             => backups[run][i] = pre[i] /\ backups[run][i] # Absent
  <2> SUFFICES ASSUME NEW i \in Target
               PROVE  /\ dest'[i] \in {pre[i], Absent, Damaged, run}
                      /\ backups[run][i] \in {pre[i], Absent}
                      /\ dest'[i] # pre[i] /\ pre[i] # Absent
                           => backups[run][i] = pre[i] /\ backups[run][i] # Absent
    OBVIOUS
  <2>1. Displaced(i)
    BY DisplacedAtWork
  <2>2. pre[i] # run
    BY DEF IInv, RunInv, Working
  <2> QED
    BY <2>1, <2>2 DEF Displaced
<1>4. dest' \in [Target -> {Absent, Damaged, run} \cup {pre[i] : i \in Target}]
  BY <1>3
<1>5. AbstractSaved' \in [Target -> SUBSET UNION {AbstractSaved[i] \cup {pre[i]} : i \in Target}]
  <2>1. ASSUME NEW i \in Target
        PROVE  AbstractSaved'[i] \subseteq UNION {AbstractSaved[j] \cup {pre[j]} : j \in Target}
    <3>1. AbstractSaved'[i] \subseteq AbstractSaved[i] \cup {pre[i]}
      BY <1>2, <1>3
    <3> QED
      BY <3>1
  <2>2. AbstractSaved' = [i \in Target |-> AbstractSaved'[i]]
    BY <1>2
  <2> QED
    BY <2>1, <2>2
<1>6. \A i \in Target :
        /\ AbstractSaved[i] \subseteq AbstractSaved'[i]
        /\ AbstractSaved'[i] \subseteq AbstractSaved[i] \cup {pre[i]}
        /\ dest'[i] # pre[i] /\ pre[i] # Absent => pre[i] \in AbstractSaved'[i]
  BY <1>2, <1>3
<1> QED
  BY <1>1, <1>3, <1>4, <1>5, <1>6 DEF Atomic!Interrupt

(* Nothing was displaced, or all of it was put back.                       *)
LEMMA SavedAtCleanEnd ==
  ASSUME IInv, phase # "idle", phase' = "idle", run' = run, run \in stages,
         committed' = committed, stages' \in {stages, stages \ {run}},
         run \notin committed => \A i \in Target : backups'[run][i] = Absent,
         \A r \in stages : r # run => backups'[r] = backups[r]
  PROVE  AbstractSaved' = AbstractSaved
<1>1. /\ Interrupted' = Interrupted \/ Interrupted' = Interrupted \cup {run}
      /\ run \in committed => Interrupted' = Interrupted
      /\ \A r \in Interrupted : r \in stages /\ r # run
  BY DEF Interrupted
<1>2. ASSUME NEW i \in Target
      PROVE  {backups'[r][i] : r \in Interrupted'} \ {Absent}
               = {backups[r][i] : r \in Interrupted} \ {Absent}
  <2>1. CASE Interrupted' = Interrupted
    BY <1>1, <2>1
  <2>2. CASE Interrupted' = Interrupted \cup {run} /\ run \notin committed
    BY <1>1, <2>2
  <2> QED
    BY <1>1, <2>1, <2>2
<1> QED
  BY <1>2 DEF AbstractSaved

(* rollback without an error restores everything; with one, the stage is   *)
(* retained, and the run counts as interrupted.                            *)
LEMMA RolledBackRefines ==
  IInv /\ CommittedInv /\ RolledBack
    => Atomic!Interrupt \/ UNCHANGED <<AbstractTree, AbstractSaved, run>>
<1> SUFFICES ASSUME IInv, CommittedInv, RolledBack
             PROVE  Atomic!Interrupt \/ UNCHANGED <<AbstractTree, AbstractSaved, run>>
  OBVIOUS
<1>0. /\ phase = "undo" /\ phase \in Working \ {"staging"}
      /\ run' = run /\ dest' = dest /\ stages' = stages /\ backups' = backups
      /\ committed' = committed /\ pre' = pre
      /\ dest \in [Target -> Content] /\ pre \in [Target -> Content]
  BY DEF RolledBack, Working, disk, history, IInv, TypeInv, TypeOK
<1>1. CASE restoreErrors # {}
  <2>1. phase' = "idle"
    BY <1>1 DEF RolledBack, Exit
  <2> QED
    BY <1>0, <2>1, StopRefines
<1>2. CASE restoreErrors = {}
  <2>1. phase' = "cleanup"
    BY <1>2 DEF RolledBack
  <2>2. \A i \in Target : dest[i] = pre[i]
    BY <1>2, SizeAssumption
    DEF RolledBack, IInv, TransactionInv, Settled, Undone, Stuck, Target
  <2>3. dest = pre
    BY <1>0, <2>2
  <2>4. AbstractSaved' = AbstractSaved
    BY <1>0, <2>1, SavedAtWork
  <2> QED
    BY <1>0, <2>1, <2>3, <2>4 DEF AbstractTree, Working
<1> QED
  BY <1>1, <1>2

(* A removed stage held nothing that is still wanted.                      *)
LEMMA CleanUpRefines ==
  IInv /\ CommittedInv /\ CleanUp => UNCHANGED <<AbstractTree, AbstractSaved, run>>
<1> SUFFICES ASSUME IInv, CommittedInv, CleanUp
             PROVE  UNCHANGED <<AbstractTree, AbstractSaved, run>>
  OBVIOUS
<1>0. /\ phase = "cleanup" /\ phase' = "idle" /\ run' = run /\ dest' = dest
      /\ committed' = committed /\ stages' \in {stages, stages \ {run}}
      /\ run \in stages /\ stages \subseteq Run
      /\ backups \in [Run -> [Target -> Content]]
  BY DEF CleanUp, Exit, history, IInv, RunInv, TypeInv, TypeOK
<1>1. run \notin committed => \A i \in Target : backups[run][i] = Absent
  BY <1>0 DEF IInv, CommittedInv, TransactionInv, Undone
<1>2. /\ run \notin committed => \A i \in Target : backups'[run][i] = Absent
      /\ \A r \in stages : r # run => backups'[r] = backups[r]
  BY <1>0, <1>1 DEF CleanUp
<1>3. AbstractSaved' = AbstractSaved
  BY <1>0, <1>2, SavedAtCleanEnd
<1> QED
  BY <1>0, <1>3 DEF AbstractTree, Working

(* A kill before anything was displaced, or after all is settled, leaves   *)
(* nothing to recover; any other leaves what was displaced in the stage.   *)
LEMMA CrashRefines ==
  IInv /\ CommittedInv /\ Crash
    => Atomic!Interrupt \/ UNCHANGED <<AbstractTree, AbstractSaved, run>>
<1> SUFFICES ASSUME IInv, CommittedInv, Crash
             PROVE  Atomic!Interrupt \/ UNCHANGED <<AbstractTree, AbstractSaved, run>>
  OBVIOUS
<1>0. /\ phase # "idle" /\ phase' = "idle" /\ run' = run /\ stages' = stages
      /\ backups' = backups /\ committed' = committed /\ pre' = pre
      /\ run \in stages /\ phase \in Phase
      /\ dest \in [Target -> Content] /\ pre \in [Target -> Content]
  BY DEF Crash, Exit, history, IInv, RunInv, TypeInv, TypeOK
<1>1. CASE phase = "staging"
  <2>1. dest' = dest /\ \A i \in Target : Untouched(i)
    BY <1>1 DEF Crash, IInv, TransactionInv
  <2>2. dest = pre /\ \A i \in Target : backups'[run][i] = Absent
    BY <1>0, <2>1 DEF Untouched
  <2>3. AbstractSaved' = AbstractSaved
    BY <1>0, <2>2, SavedAtCleanEnd
  <2> QED
    BY <1>0, <1>1, <2>1, <2>2, <2>3 DEF AbstractTree, Working
<1>2. CASE phase = "cleanup"
  <2>1. dest' = dest
    BY <1>2 DEF Crash
  <2>2. run \notin committed => \A i \in Target : backups'[run][i] = Absent
    BY <1>0, <1>2 DEF IInv, CommittedInv, TransactionInv, Undone
  <2>3. AbstractSaved' = AbstractSaved
    BY <1>0, <2>2, SavedAtCleanEnd
  <2> QED
    BY <1>0, <1>2, <2>1, <2>3 DEF AbstractTree, Working
<1>3. CASE phase \in Working \ {"staging"}
  <2>1. /\ dest' \in [Target -> Content]
        /\ \A i \in Target : dest'[i] = dest[i] \/ (dest[i] = run /\ dest'[i] = Damaged)
    <3>1. CASE dest' = dest
      BY <1>0, <3>1
    <3>2. CASE /\ phase = "undo" /\ cursor \in installed \cap DirTargets
               /\ dest' = [dest EXCEPT ![cursor] = Damaged]
      <4>1. cursor \in Target /\ dest[cursor] = run
        BY <3>2, OrderAssumption DEF IInv, TransactionInv, Placed, Aside
      <4> QED
        BY <1>0, <3>2, <4>1 DEF Content
    <3> QED
      BY <3>1, <3>2 DEF Crash
  <2> QED
    BY <1>0, <1>3, <2>1, StopRefines
<1> QED
  BY <1>0, <1>1, <1>2, <1>3 DEF Phase, Working

(* Between runs the tree is the user's, here as there.                     *)
LEMMA UserEditsRefines == IInv /\ UserEdits => Atomic!UserEdits
<1> SUFFICES ASSUME IInv, UserEdits PROVE Atomic!UserEdits
  OBVIOUS
<1>1. AbstractTree = dest /\ AbstractTree' = dest' /\ run' = run
  BY DEF UserEdits, AbstractTree, Working, process
<1>2. AbstractSaved' = AbstractSaved
  BY DEF UserEdits, AbstractSaved, Interrupted, process
<1> QED
  BY <1>1, <1>2 DEF UserEdits, Atomic!UserEdits

(* Every step of the transaction is one of the atomic generation, or none. *)
LEMMA StepRefines ==
  IInv /\ CommittedInv /\ [Next]_vars => [Atomic!Next]_(Atomic!vars)
<1> SUFFICES ASSUME IInv, CommittedInv, [Next]_vars
             PROVE  Atomic!Next \/ UNCHANGED <<AbstractTree, AbstractSaved, run>>
  BY DEF Atomic!vars
<1>1. CASE Begin
  BY <1>1, BeginRefines DEF Atomic!Next
<1>2. CASE GiveUp
  BY <1>2, GiveUpRefines
<1>3. CASE Preflight \/ SetAside \/ SetAsideFails \/ Install \/ InstallFails
           \/ Remove \/ RemoveFails \/ Restore \/ RestoreFails
  BY <1>3, WorkRefines
<1>4. CASE Commit
  BY <1>4, CommitRefines DEF Atomic!Next
<1>5. CASE RolledBack
  BY <1>5, RolledBackRefines DEF Atomic!Next
<1>6. CASE CleanUp
  BY <1>6, CleanUpRefines
<1>7. CASE Crash
  BY <1>7, CrashRefines DEF Atomic!Next
<1>8. CASE UserEdits
  BY <1>8, UserEditsRefines DEF Atomic!Next
<1>9. CASE UNCHANGED vars
  BY <1>9 DEF vars, disk, process, history, AbstractTree, AbstractSaved, Interrupted
<1> QED
  BY <1>1, <1>2, <1>3, <1>4, <1>5, <1>6, <1>7, <1>8, <1>9 DEF Next, Step

(* Seen from between the runs, the replacement of every destination is one *)
(* step or none, whatever fails in it and whenever it is killed            *)
(* (transaction.go, writeGeneration and commitGenerationWithOps).          *)
THEOREM RefinesAtomic == Spec => ImplementsAtomicGeneration
<1>1. Init => CommittedInv
  BY DEF Init, CommittedInv, Working
<1>2. Spec => [](IInv /\ CommittedInv)
  BY <1>1, Invariance, CommittedStep, PTL DEF Spec
<1> QED
  BY <1>2, InitRefines, StepRefines, PTL DEF Spec, ImplementsAtomicGeneration, Atomic!Spec

-----------------------------------------------------------------------------
(* The two writers.  Between two calls the tree is safe; during one, each  *)
(* place is where the writer has got to with it.  A file of the slice is   *)
(* found by its item in "changed", a generated directory by the cursor.    *)
Path    == {"bindings", "bridge"}
Holding == {Absent, Damaged, Foreign} \cup Nat
FileOf(k)  == changed[k].file
Items      == 1 .. Len(changed)
Item       == [file : File, backup : BOOLEAN, installed : BOOLEAN]
Changed(f) == \E k \in Items : FileOf(k) = f

(* An item of "changed", as SetFileAside and InstallFile leave it.         *)
ItemInv(k) ==
  /\ FileOf(k) \in File
  /\ changed[k].installed \in BOOLEAN
  /\ changed[k].backup <=> before.place[FileOf(k)] # Absent
  /\ before.place[FileOf(k)] \notin {wanted, Foreign}
  /\ \A l \in Items : FileOf(l) = FileOf(k) => l = k

AsBefore(p)    == place[p] = before.place[p] /\ aside[p] = before.aside[p]
MovedAside(k)  == place[FileOf(k)] = Absent /\ aside[FileOf(k)] = before.place[FileOf(k)]
PutInPlace(k)  == place[FileOf(k)] = wanted /\ aside[FileOf(k)] = before.place[FileOf(k)]
UndoFailed(k)  == answer = "retained" /\ (MovedAside(k) \/ PutInPlace(k))
Pending(k)     == IF changed[k].installed THEN PutInPlace(k) ELSE MovedAside(k)

(* The files before the cursor hold the output; of the others only the one *)
(* being replaced has been touched.                                        *)
Replacing ==
  /\ position \in 1 .. (NumFiles + 1)
  /\ \A k \in Items : \E j \in File : j < position /\ FileOf(k) = WriteOrder[j]
  /\ \A k \in Items : changed[k].installed /\ Pending(k)
  /\ \A j \in File : j < position => place[WriteOrder[j]] = wanted
  /\ answer = "running"

Installing ==
  LET last == Len(changed)
  IN /\ position \in File /\ last > 0
     /\ FileOf(last) = WriteOrder[position] /\ ~changed[last].installed
     /\ \A k \in Items : k # last =>
          /\ changed[k].installed
          /\ \E j \in File : j < position /\ FileOf(k) = WriteOrder[j]
     /\ \A k \in Items : Pending(k)
     /\ \A j \in File : j < position => place[WriteOrder[j]] = wanted
     /\ answer = "running"

(* The undo never meets an installed manifest: it is the last to be        *)
(* installed, and nothing fails after it.                                  *)
Undoing ==
  /\ position \in 0 .. Len(changed)
  /\ \A k \in Items : changed[k].installed => FileOf(k) # FileManifest
  /\ \A k \in Items : IF k <= position THEN Pending(k) ELSE AsBefore(FileOf(k)) \/ UndoFailed(k)
  /\ answer \in {"running", "retained"}

SliceInv ==
  /\ step \in {"check", "place", "install", "undo"}
  /\ given \in {File, File \ {1}, (File \ {1}) \cup {Unknown}}
  /\ \A f \in File : before.aside[f] = Absent
  /\ changed \in Seq(Item)
  /\ \A k \in Items : ItemInv(k)
  /\ \A f \in File : ~Changed(f) => AsBefore(f)
  /\ step = "check" => changed = <<>> /\ position = 1 /\ answer = "running"
  /\ step # "check" => \A f \in File : before.place[f] # Foreign
  /\ step = "place" => Replacing
  /\ step = "install" => Installing
  /\ step = "undo" => Undoing

-----------------------------------------------------------------------------
(* A generated directory: done with, moved away, or replaced and its old   *)
(* content still to be discarded.                                          *)
RootDone(r) ==
  \/ given[r] = "none" /\ AsBefore(r)
  \/ /\ given[r] = "own" /\ before.place[r] # Foreign
     /\ place[r] = wanted /\ aside[r] = before.aside[r]

RootMoved(r) ==
  /\ before.place[r] \notin {Absent, Foreign}
  /\ before.aside[r] = Absent /\ aside[r] = before.place[r] /\ given[r] = "own"

EmitInv ==
  /\ step \in {"check", "install", "discard"}
  /\ given \in [Path -> Group]
  /\ position \in 1 .. 3 /\ answer = "running"
  /\ \A j \in 1 .. 2 : /\ j < position => RootDone(Roots[j])
                       /\ j > position => AsBefore(Roots[j])
                       /\ j = position /\ step = "check" => AsBefore(Roots[j])
  /\ step # "check" => /\ position \in 1 .. 2 /\ RootMoved(Roots[position])
                      /\ place[Roots[position]] = IF step = "install" THEN Absent ELSE wanted

Trees(P) == [P -> Holding]

WriterTypes ==
  /\ writer \in Writer
  /\ place \in Trees(Place[writer]) /\ aside \in Trees(Place[writer])
  /\ before \in [place : Trees(Place[writer]), aside : Trees(Place[writer])]
  /\ calls \in Nat /\ wanted \in Nat

WriterInv ==
  /\ WriterTypes
  /\ step = "idle" => WritesAreSafe
  /\ step # "idle" /\ writer = "slice" => SliceInv
  /\ step # "idle" /\ writer = "emit" => EmitInv

LEMMA Places == Place["slice"] = File /\ Place["emit"] = Path
BY DEF Place, Path

(* The order of the paths has each once, the manifest last.                *)
LEMMA OrderOfPaths ==
  /\ \A j \in File : WriteOrder[j] \in File
  /\ \A i, j \in File : WriteOrder[i] = WriteOrder[j] => i = j
  /\ \A j \in File : WriteOrder[j] = FileManifest <=> j = NumFiles
  /\ \A f \in File : \E j \in File : WriteOrder[j] = f
<1> USE FilesAssumption DEF File, WriteOrder
<1>1. \A j \in File : WriteOrder[j] \in File
  OBVIOUS
<1>2. \A i, j \in File : WriteOrder[i] = WriteOrder[j] => i = j
  OBVIOUS
<1>3. \A j \in File : WriteOrder[j] = FileManifest <=> j = NumFiles
  OBVIOUS
<1>4. ASSUME NEW f \in File PROVE \E j \in File : WriteOrder[j] = f
  <2>1. CASE f < FileManifest
    <3> WITNESS f \in File
    <3> QED
      BY <2>1
  <2>2. CASE f = FileManifest
    <3> WITNESS NumFiles \in File
    <3> QED
      BY <2>2
  <2>3. CASE f > FileManifest
    <3>1. f - 1 \in File /\ WriteOrder[f - 1] = f
      BY <2>3
    <3> QED
      BY <3>1
  <2> QED
    BY <2>1, <2>2, <2>3
<1> QED
  BY <1>1, <1>2, <1>3, <1>4

(* The paths given are all of the slice's when there are as many.          *)
LEMMA AllGiven ==
  ASSUME ValidDestinations,
         given \in {File, File \ {1}, (File \ {1}) \cup {Unknown}}
  PROVE  given = File
<1>1. IsFiniteSet(File) /\ Cardinality(File) = NumFiles
  BY FilesAssumption, FS_Interval DEF File
<1>2. Cardinality(File \ {1}) = NumFiles - 1
  <2>1. 1 \in File
    BY FilesAssumption DEF File
  <2> QED
    BY <1>1, <2>1, FS_RemoveElement
<1>3. given # File \ {1}
  BY <1>2, FilesAssumption DEF ValidDestinations
<1> QED
  BY <1>3 DEF ValidDestinations

-----------------------------------------------------------------------------
(* The invariant says what is promised, in the midst of a call too.        *)
LEMMA SliceIsSafe ==
  ASSUME WriterInv, step # "idle", writer = "slice" PROVE WritesAreSafe
<1> USE Places, FilesAssumption, ContentAssumption
<1>0. WriterTypes /\ SliceInv /\ Place[writer] = File
  BY DEF WriterInv
<1>1. ASSUME NEW f \in File
      PROVE  /\ before.place[f] \in {Absent, place[f], aside[f]}
             /\ before.place[f] = Foreign => place[f] = Foreign
  <2>1. CASE ~Changed(f)
    BY <1>0, <2>1 DEF SliceInv, AsBefore
  <2>2. CASE Changed(f)
    <3>1. PICK k \in Items : FileOf(k) = f
      BY <2>2 DEF Changed
    <3>2. ItemInv(k) /\ step # "check"
      BY <1>0, <3>1 DEF SliceInv, Items
    <3>3. CASE step = "place"
      BY <1>0, <3>1, <3>2, <3>3 DEF SliceInv, Replacing, Pending, PutInPlace, ItemInv
    <3>4. CASE step = "install"
      BY <1>0, <3>1, <3>2, <3>4 DEF SliceInv, Installing, Pending, PutInPlace, MovedAside, ItemInv
    <3>5. CASE step = "undo"
      BY <1>0, <3>1, <3>2, <3>5
      DEF SliceInv, Undoing, Pending, PutInPlace, MovedAside, UndoFailed, AsBefore, ItemInv
    <3> QED
      BY <1>0, <3>2, <3>3, <3>4, <3>5 DEF SliceInv
  <2> QED
    BY <2>1, <2>2
<1>2. OldIsKept
  BY <1>0, <1>1 DEF OldIsKept
<1>3. HandwrittenStays
  BY <1>0, <1>1 DEF HandwrittenStays
<1>4. StaleBackupStays
  BY <1>0 DEF StaleBackupStays, SliceInv
<1>5. ReturnIsTrue
  BY <1>0 DEF ReturnIsTrue, SliceInv, Replacing, Installing, Undoing
<1>6. ManifestComesLast
  <2> SUFFICES ASSUME answer # "retained", place[FileManifest] = wanted,
                      before.place[FileManifest] # wanted, NEW f \in File
               PROVE  place[f] = wanted
    BY DEF ManifestComesLast
  <2>0. FileManifest \in File
    BY DEF File
  <2>1. PICK k \in Items : FileOf(k) = FileManifest
    BY <1>0, <2>0 DEF SliceInv, Changed, AsBefore
  <2>2. ItemInv(k) /\ before.place[FileManifest] # wanted /\ wanted # Absent
    BY <1>0, <2>1 DEF SliceInv, WriterTypes
  <2>3. CASE step = "place"
    <3>1. position = NumFiles + 1
      <4>1. PICK j \in File : j < position /\ FileOf(k) = WriteOrder[j]
        BY <1>0, <2>1, <2>3 DEF SliceInv, Replacing
      <4>2. j = NumFiles
        BY <2>1, <4>1, OrderOfPaths
      <4>3. position \in 1 .. (NumFiles + 1)
        BY <1>0, <2>3 DEF SliceInv, Replacing
      <4> QED
        BY <4>1, <4>2, <4>3
    <3>2. PICK j \in File : WriteOrder[j] = f
      BY OrderOfPaths
    <3> QED
      BY <1>0, <2>3, <3>1, <3>2 DEF SliceInv, Replacing, File
  <2>4. CASE step = "install"
    <3>1. ~changed[k].installed
      <4>1. ASSUME NEW j \in File, j < position, FileOf(k) = WriteOrder[j]
            PROVE  FALSE
        <5>1. position \in 1 .. NumFiles
          BY <1>0, <2>4 DEF SliceInv, Installing, File
        <5>2. j = NumFiles
          BY <2>1, <4>1, OrderOfPaths
        <5> QED
          BY <4>1, <5>1, <5>2
      <4>2. k = Len(changed)
        BY <1>0, <2>1, <2>4, <4>1 DEF SliceInv, Installing
      <4> QED
        BY <1>0, <2>4, <4>2 DEF SliceInv, Installing
    <3> QED
      BY <1>0, <2>1, <2>2, <2>4, <3>1 DEF SliceInv, Installing, Pending, MovedAside
  <2>5. CASE step = "undo"
    BY <1>0, <2>1, <2>2, <2>5 DEF SliceInv, Undoing, Pending, MovedAside, AsBefore, UndoFailed
  <2> QED
    BY <1>0, <2>1, <2>3, <2>4, <2>5 DEF SliceInv, Items
<1> QED
  BY <1>2, <1>3, <1>4, <1>5, <1>6 DEF WritesAreSafe

LEMMA RootOfPath ==
  /\ \A j \in 1 .. 2 : Roots[j] \in Path
  /\ \A i, j \in 1 .. 2 : Roots[i] = Roots[j] => i = j
  /\ \A r \in Path : \E j \in 1 .. 2 : Roots[j] = r
BY DEF Path, Roots

(* What a generated directory and its backup may be at any time.           *)
RootSafe(r) ==
  /\ before.place[r] \in {Absent, place[r], aside[r]} \/ place[r] = wanted
  /\ before.place[r] = Foreign => place[r] = Foreign
  /\ before.aside[r] # Absent => aside[r] = before.aside[r]

LEMMA RootsAreSafe ==
  ASSUME WriterInv, step # "idle", writer = "emit", NEW r \in Path PROVE RootSafe(r)
<1> USE Places, ContentAssumption DEF RootSafe
<1>0. EmitInv
  BY DEF WriterInv
<1>1. PICK j \in 1 .. 2 : Roots[j] = r
  BY RootOfPath
<1>2. CASE j = position /\ step # "check"
  BY <1>0, <1>1, <1>2 DEF EmitInv, RootMoved
<1>3. CASE j < position
  BY <1>0, <1>1, <1>3 DEF EmitInv, RootDone, AsBefore
<1>4. CASE j > position \/ (j = position /\ step = "check")
  BY <1>0, <1>1, <1>4 DEF EmitInv, AsBefore
<1> QED
  BY <1>0, <1>2, <1>3, <1>4 DEF EmitInv

LEMMA EmitIsSafe ==
  ASSUME WriterInv, step # "idle", writer = "emit" PROVE WritesAreSafe
<1>0. WriterTypes /\ EmitInv /\ Place[writer] = Path
  BY Places DEF WriterInv
<1> QED
  BY <1>0, RootsAreSafe
  DEF WritesAreSafe, OldIsKept, StaleBackupStays, ReturnIsTrue, ManifestComesLast,
      HandwrittenStays, EmitInv, RootSafe

LEMMA WriterInvIsSafe == WriterInv => WritesAreSafe
BY SliceIsSafe, EmitIsSafe DEF WriterInv, WriterTypes, Writer

LEMMA WriterInitInv == WInit => WriterInv
<1> SUFFICES ASSUME WInit PROVE WriterInv
  OBVIOUS
<1>1. WriterTypes
  BY Places DEF WInit, WriterTypes, Writer, Trees, Holding
<1>2. WritesAreSafe
  BY DEF WInit, WritesAreSafe, OldIsKept, StaleBackupStays, ReturnIsTrue, ManifestComesLast,
         HandwrittenStays
<1> QED
  BY <1>1, <1>2 DEF WriterInv, WInit

(* A call begins with what it finds.                                       *)
LEMMA BeginWriteInv == WriterInv /\ BeginWrite => WriterInv'
<1> SUFFICES ASSUME WriterInv, BeginWrite PROVE WriterInv'
  OBVIOUS
<1> USE Places
<1>1. WriterTypes'
  BY DEF WriterInv, WriterTypes, BeginWrite, Trees, Holding
<1>2. CASE writer = "slice"
  <2>1. SliceInv'
    BY <1>1, <1>2
    DEF BeginWrite, SliceInv, Items, Changed, AsBefore, WriterTypes
  <2> QED
    BY <1>1, <1>2, <2>1 DEF WriterInv, BeginWrite
<1>3. CASE writer = "emit"
  <2>1. EmitInv'
    BY <1>1, <1>3
    DEF BeginWrite, EmitInv, AsBefore, WriterTypes, Path
  <2> QED
    BY <1>1, <1>3, <2>1 DEF WriterInv, BeginWrite
<1> QED
  BY <1>2, <1>3 DEF WriterInv, WriterTypes, Writer

(* Whatever keeps the tree as it is promised to be between calls may       *)
(* return.                                                                 *)
LEMMA ReturnInv ==
  ASSUME WriterTypes', WritesAreSafe', step' = "idle" PROVE WriterInv'
BY DEF WriterInv

(* Refused before anything is touched, or on with the first file.          *)
LEMMA StageSliceInv == WriterInv /\ StageSlice => WriterInv'
<1> SUFFICES ASSUME WriterInv, StageSlice PROVE WriterInv'
  OBVIOUS
<1> USE Places
<1>0. /\ WriterTypes /\ SliceInv /\ Place[writer] = File /\ changed = <<>> /\ answer = "running"
      /\ UNCHANGED <<tree, request>>
  BY DEF WriterInv, StageSlice, SliceInv
<1>1. WriterTypes'
  BY <1>0 DEF WriterTypes, tree, request
<1>2. \A f \in File : AsBefore(f)
  BY <1>0 DEF SliceInv, Changed, Items
<1>3. CASE ValidDestinations /\ step' = "place" /\ UNCHANGED <<position, changed, answer>>
  <2>1. \A f \in File : before.place[f] # Foreign
    <3>1. given = File
      BY <1>0, <1>3, AllGiven DEF SliceInv
    <3> QED
      BY <1>2, <1>3, <3>1 DEF ValidDestinations, AsBefore
  <2>2. /\ position' = 1 /\ changed' = <<>> /\ answer' = "running" /\ Items' = {}
        /\ writer' = "slice" /\ step' = "place"
    BY <1>0, <1>3 DEF SliceInv, StageSlice, Items, request
  <2>3. Replacing'
    BY <2>2, FilesAssumption DEF Replacing, File
  <2>4. SliceInv'
    BY <1>0, <1>2, <2>1, <2>2, <2>3 DEF SliceInv, AsBefore, tree, request
  <2> QED
    BY <1>1, <2>2, <2>4 DEF WriterInv
<1>4. CASE Return("failed")
  <2>1. place = before.place
    BY <1>0, <1>2 DEF WriterTypes, Trees, AsBefore
  <2>2. WritesAreSafe'
    BY <1>0, <1>2, <1>4, <2>1
    DEF WritesAreSafe, OldIsKept, StaleBackupStays, ReturnIsTrue, ManifestComesLast,
        HandwrittenStays, Return, tree, request, AsBefore
  <2> QED
    BY <1>1, <1>4, <2>2, ReturnInv DEF Return
<1> QED
  BY <1>3, <1>4 DEF StageSlice

(* The file at the cursor is the output already, is moved to the stage, or *)
(* cannot be.                                                              *)
LEMMA SetFileAsideInv == WriterInv /\ SetFileAside => WriterInv'
<1> SUFFICES ASSUME WriterInv, SetFileAside PROVE WriterInv'
  OBVIOUS
<1> USE Places
<1> DEFINE f == WriteOrder[position]
<1>0. /\ WriterTypes /\ SliceInv /\ Place[writer] = File /\ Replacing
      /\ position \in File /\ answer' = answer /\ UNCHANGED request
      /\ writer = "slice" /\ writer' = "slice"
  BY DEF WriterInv, SetFileAside, SliceInv, request
<1>1. f \in File /\ ~Changed(f) /\ AsBefore(f) /\ before.place[f] # Foreign
  <2>1. f \in File
    BY <1>0, OrderOfPaths
  <2>2. ASSUME NEW k \in Items, FileOf(k) = f PROVE FALSE
    <3>1. PICK j \in File : j < position /\ FileOf(k) = WriteOrder[j]
      BY <1>0 DEF Replacing
    <3>2. j = position
      BY <1>0, <2>2, <3>1, OrderOfPaths
    <3> QED
      BY <3>1, <3>2, FilesAssumption DEF File
  <2> QED
    BY <1>0, <2>1, <2>2 DEF SliceInv, Changed, SetFileAside
<1> HIDE DEF f
<1>2. CASE /\ place[f] = wanted /\ position' = position + 1
           /\ UNCHANGED <<tree, step, changed>>
  <2>1. WriterTypes'
    BY <1>0, <1>2 DEF WriterTypes, tree, request
  <2>2. Items' = Items /\ step' = "place"
    BY <1>2 DEF Items, SetFileAside
  <2>3. Replacing'
    BY <1>0, <1>2, <2>2, FilesAssumption
    DEF Replacing, FileOf, Pending, PutInPlace, MovedAside, File, tree, request, f
  <2>4. SliceInv'
    BY <1>0, <1>2, <2>2, <2>3
    DEF SliceInv, ItemInv, FileOf, Changed, AsBefore, tree, request
  <2> QED
    BY <1>0, <2>1, <2>2, <2>4 DEF WriterInv
<1>3. CASE /\ place[f] # wanted
           /\ aside' = [aside EXCEPT ![f] = place[f]]
           /\ place' = [place EXCEPT ![f] = Absent]
           /\ changed' = Append(changed, [file |-> f, backup |-> place[f] # Absent, installed |-> FALSE])
           /\ step' = "install"
           /\ position' = position
  <2>0. PICK n \in Nat : n = Len(changed) + 1
    BY <1>0 DEF SliceInv
  <2>1. WriterTypes'
    BY <1>0, <1>1, <1>3 DEF WriterTypes, Trees, Holding, request
  <2>2. /\ changed' \in Seq(Item)
        /\ Len(changed') = n /\ Items' = Items \cup {n} /\ n > 0
        /\ \A k \in Items : changed'[k] = changed[k] /\ k # n
        /\ changed'[n] = [file |-> f, backup |-> place[f] # Absent, installed |-> FALSE]
    BY <1>0, <1>1, <1>3, <2>0 DEF SliceInv, Items, Item
  <2>21. /\ changed'[n].file = f /\ ~changed'[n].installed /\ changed'[n].installed \in BOOLEAN
         /\ changed'[n].backup <=> place[f] # Absent
    BY <2>2 DEF Item
  <2>3. \A k \in Items : /\ changed[k].file # f /\ changed[k].file \in File
                         /\ changed'[k].file = changed[k].file /\ k # n
    BY <1>0, <1>1, <2>2 DEF SliceInv, ItemInv, Changed, FileOf
  <2>4. /\ place'[f] = Absent /\ aside'[f] = before.place[f]
        /\ \A g \in File \ {f} : place'[g] = place[g] /\ aside'[g] = aside[g]
        /\ before' = before /\ wanted' = wanted /\ place[f] = before.place[f]
    BY <1>0, <1>1, <1>3 DEF WriterTypes, Trees, AsBefore, request
  <2>5. \A k \in Items : ItemInv(k)'
    BY <1>0, <2>2, <2>3, <2>4 DEF SliceInv, ItemInv, FileOf
  <2>6. ItemInv(n)'
    <3>1. \A l \in Items' : changed'[l].file = f => l = n
      BY <2>2, <2>3
    <3>2. before'.place[f] = place[f] /\ place[f] \notin {wanted', Foreign}
      BY <1>1, <1>3, <2>4
    <3> QED
      BY <1>1, <2>21, <3>1, <3>2 DEF ItemInv, FileOf
  <2>7. ASSUME NEW k \in Items PROVE Pending(k)'
    <3>1. changed[k].installed /\ PutInPlace(k)
      BY <1>0 DEF Replacing, Pending
    <3>2. /\ changed'[k].installed
          /\ changed'[k].file = changed[k].file /\ changed[k].file \in File \ {f}
      BY <2>2, <2>3, <3>1
    <3> QED
      BY <2>4, <3>1, <3>2 DEF Pending, PutInPlace, FileOf
  <2>8. Pending(n)'
    BY <2>21, <2>4 DEF Pending, MovedAside, FileOf
  <2>9. Installing'
    <3>1. position' = position /\ position \in File /\ answer' = "running"
      BY <1>0, <1>3 DEF Replacing
    <3>2. \A k \in Items : /\ changed'[k].installed
                           /\ \E j \in File : j < position /\ changed'[k].file = WriteOrder[j]
      BY <1>0, <2>2, <2>3 DEF Replacing, FileOf
    <3>3. \A j \in File : j < position => place'[WriteOrder[j]] = wanted'
      <4> SUFFICES ASSUME NEW j \in File, j < position PROVE place'[WriteOrder[j]] = wanted'
        OBVIOUS
      <4>0. j # position /\ position \in File
        BY <1>0 DEF Replacing, File
      <4>1. WriteOrder[j] \in File \ {f}
        BY <4>0, OrderOfPaths DEF f
      <4> QED
        BY <1>0, <2>4, <4>1 DEF Replacing
    <3>4. changed'[n].file = WriteOrder[position] /\ ~changed'[n].installed
      BY <2>21 DEF f
    <3> QED
      BY <2>2, <2>7, <2>8, <3>1, <3>2, <3>3, <3>4 DEF Installing, FileOf
  <2>10. \A g \in File : ~Changed(g)' => AsBefore(g)'
    <3> SUFFICES ASSUME NEW g \in File, ~Changed(g)' PROVE AsBefore(g)'
      OBVIOUS
    <3>1. g # f /\ ~Changed(g)
      BY <2>2, <2>3 DEF Changed, FileOf
    <3> QED
      BY <1>0, <2>4, <3>1 DEF SliceInv, AsBefore
  <2>11. \A k \in Items' : ItemInv(k)'
    BY <2>2, <2>5, <2>6
  <2>12. SliceInv'
    BY <1>0, <1>3, <2>2, <2>4, <2>9, <2>10, <2>11 DEF SliceInv, request, SetFileAside
  <2> QED
    BY <1>0, <1>3, <2>1, <2>12 DEF WriterInv
<1>4. CASE UNCHANGED <<tree, changed>> /\ Rollback
  <2>1. WriterTypes'
    BY <1>0, <1>4 DEF WriterTypes, tree, request
  <2>2. Items' = Items /\ step' = "undo" /\ position' = Len(changed)
    BY <1>4 DEF Items, Rollback
  <2>3. \A k \in Items : FileOf(k) # FileManifest
    <3> SUFFICES ASSUME NEW k \in Items, FileOf(k) = FileManifest PROVE FALSE
      OBVIOUS
    <3>1. PICK j \in File : j < position /\ FileOf(k) = WriteOrder[j]
      BY <1>0 DEF Replacing
    <3>2. j = NumFiles
      BY <3>1, OrderOfPaths
    <3> QED
      BY <1>0, <3>1, <3>2, FilesAssumption DEF File
  <2>4. Undoing'
    BY <1>0, <1>4, <2>2, <2>3
    DEF Replacing, SliceInv, Undoing, FileOf, Items, Pending, PutInPlace, MovedAside, tree, request
  <2>5. SliceInv'
    BY <1>0, <1>4, <2>2, <2>4
    DEF SliceInv, ItemInv, FileOf, Changed, AsBefore, tree, request, SetFileAside
  <2> QED
    BY <1>0, <2>1, <2>2, <2>5 DEF WriterInv
<1> QED
  BY <1>2, <1>3, <1>4 DEF SetFileAside, f

(* The moved-away file is replaced; or the renaming fails and the undo     *)
(* begins.                                                                 *)
LEMMA InstallFileInv == WriterInv /\ InstallFile => WriterInv'
<1> SUFFICES ASSUME WriterInv, InstallFile PROVE WriterInv'
  OBVIOUS
<1> USE Places
<1> DEFINE f == WriteOrder[position]
<1>0. /\ WriterTypes /\ SliceInv /\ Place[writer] = File /\ Installing
      /\ position \in File /\ answer' = answer /\ aside' = aside /\ UNCHANGED request
      /\ writer = "slice" /\ writer' = "slice" /\ f \in File
  BY OrderOfPaths DEF WriterInv, InstallFile, SliceInv, Installing, request
<1>1. PICK n \in Items : /\ n = Len(changed) /\ changed[n].file = f /\ ~changed[n].installed
                        /\ MovedAside(n)
  BY <1>0 DEF SliceInv, Installing, Items, FileOf, Pending
<1>2. \A k \in Items : k # n => /\ changed[k].file \in File \ {f} /\ changed[k].installed
                              /\ \E j \in File : j < position /\ changed[k].file = WriteOrder[j]
  BY <1>0, <1>1 DEF SliceInv, Installing, ItemInv, FileOf
<1> HIDE DEF f
<1>3. CASE /\ place' = [place EXCEPT ![f] = wanted]
           /\ changed' = [changed EXCEPT ![Len(changed)].installed = TRUE]
           /\ step' = "place"
           /\ position' = position + 1
  <2>1. WriterTypes'
    BY <1>0, <1>3 DEF WriterTypes, Trees, Holding, request
  <2>2. /\ changed' \in Seq(Item)
        /\ Len(changed') = Len(changed) /\ Items' = Items
        /\ \A k \in Items : k # n => changed'[k] = changed[k]
        /\ changed'[n] = [changed[n] EXCEPT !.installed = TRUE] /\ changed[n] \in Item
    <3> DEFINE e == [changed[n] EXCEPT !.installed = TRUE]
    <3>1. changed \in Seq(Item) /\ n \in 1 .. Len(changed)
      BY <1>0, <1>1 DEF SliceInv, Items
    <3>2. changed[n] \in Item
      BY <3>1, ElementOfSeq
    <3>3. e \in Item
      BY <3>2 DEF Item
    <3>4. changed' = [changed EXCEPT ![n] = e]
      BY <1>1, <1>3
    <3> HIDE DEF e
    <3>5. /\ changed' \in Seq(Item) /\ Len(changed') = Len(changed)
          /\ \A k \in 1 .. Len(changed) : changed'[k] = IF k = n THEN e ELSE changed[k]
      BY <3>1, <3>3, <3>4, ExceptSeq
    <3> QED
      BY <3>1, <3>2, <3>5 DEF Items, e
  <2>3. /\ \A k \in Items : /\ changed'[k].file = changed[k].file /\ changed'[k].installed
                            /\ changed'[k].installed \in BOOLEAN
                            /\ changed'[k].backup <=> changed[k].backup
    <3>2. /\ changed'[n].file = changed[n].file /\ changed'[n].installed = TRUE
          /\ changed'[n].backup = changed[n].backup
      BY <2>2 DEF Item
    <3>3. ASSUME NEW k \in Items, k # n
          PROVE  /\ changed'[k] = changed[k] /\ changed[k].installed
                 /\ changed[k].installed \in BOOLEAN
      BY <1>0, <1>2, <2>2, <3>3 DEF SliceInv, ItemInv
    <3> QED
      BY <3>2, <3>3
  <2>4. /\ place'[f] = wanted /\ \A g \in File \ {f} : place'[g] = place[g]
        /\ before' = before /\ wanted' = wanted /\ position' = position + 1
    BY <1>0, <1>3 DEF WriterTypes, Trees, request
  <2>5. \A k \in Items : ItemInv(k)'
    BY <1>0, <2>2, <2>3, <2>4 DEF SliceInv, ItemInv, FileOf
  <2>6. ASSUME NEW k \in Items PROVE Pending(k)'
    <3>1. CASE k = n
      BY <1>0, <1>1, <2>3, <2>4, <3>1 DEF Pending, PutInPlace, MovedAside, FileOf
    <3>2. CASE k # n
      <4>1. PutInPlace(k)
        BY <1>0, <1>2, <3>2 DEF Installing, Pending
      <4> QED
        BY <1>0, <1>2, <2>3, <2>4, <3>2, <4>1 DEF Pending, PutInPlace, FileOf
    <3> QED
      BY <3>1, <3>2
  <2>7. \A k \in Items : \E j \in File : j < position + 1 /\ changed'[k].file = WriteOrder[j]
    <3> SUFFICES ASSUME NEW k \in Items
                 PROVE  \E j \in File : j < position + 1 /\ changed'[k].file = WriteOrder[j]
      OBVIOUS
    <3>1. CASE k = n
      BY <1>0, <1>1, <2>3, <3>1, FilesAssumption DEF f, File
    <3>2. CASE k # n
      <4>1. PICK j \in File : j < position /\ changed[k].file = WriteOrder[j]
        BY <1>2, <3>2
      <4> QED
        BY <1>0, <2>3, <4>1, FilesAssumption DEF File
    <3> QED
      BY <3>1, <3>2
  <2>8. ASSUME NEW j \in File, j < position + 1 PROVE place'[WriteOrder[j]] = wanted'
    <3>1. CASE j = position
      BY <2>4, <3>1 DEF f
    <3>2. CASE j # position
      <4>1. j < position
        BY <1>0, <2>8, <3>2, FilesAssumption DEF File
      <4>2. WriteOrder[j] \in File \ {f}
        BY <1>0, <3>2, OrderOfPaths DEF f
      <4> QED
        BY <1>0, <2>4, <4>1, <4>2 DEF Installing
    <3> QED
      BY <3>1, <3>2
  <2>9. Replacing'
    <3>1. position' \in 1 .. (NumFiles + 1) /\ answer' = "running"
      BY <1>0, <2>4, FilesAssumption DEF File, Installing
    <3> QED
      BY <2>2, <2>3, <2>4, <2>6, <2>7, <2>8, <3>1 DEF Replacing, FileOf
  <2>10. \A g \in File : ~Changed(g)' => AsBefore(g)'
    <3> SUFFICES ASSUME NEW g \in File, ~Changed(g)' PROVE AsBefore(g)'
      OBVIOUS
    <3>1. g # f /\ ~Changed(g)
      BY <1>1, <2>2, <2>3 DEF Changed, FileOf
    <3> QED
      BY <1>0, <2>4, <3>1 DEF SliceInv, AsBefore
  <2>11. \A k \in Items' : ItemInv(k)'
    BY <2>2, <2>5
  <2>12. SliceInv'
    BY <1>0, <1>3, <2>2, <2>4, <2>9, <2>10, <2>11 DEF SliceInv, request, InstallFile
  <2> QED
    BY <1>0, <1>3, <2>1, <2>12 DEF WriterInv
<1>4. CASE UNCHANGED <<place, changed>> /\ Rollback
  <2>1. WriterTypes'
    BY <1>0, <1>4 DEF WriterTypes, request
  <2>2. Items' = Items /\ step' = "undo" /\ position' = Len(changed)
    BY <1>4 DEF Items, Rollback
  <2>3. ASSUME NEW k \in Items, changed[k].installed PROVE FileOf(k) # FileManifest
    <3>1. PICK j \in File : j < position /\ changed[k].file = WriteOrder[j]
      BY <1>1, <1>2, <2>3
    <3>2. j # NumFiles
      BY <1>0, <3>1, FilesAssumption DEF File
    <3> QED
      BY <3>1, <3>2, OrderOfPaths DEF FileOf
  <2>4. Undoing'
    BY <1>0, <1>4, <2>2, <2>3
    DEF Installing, SliceInv, Undoing, FileOf, Items, Pending, PutInPlace, MovedAside, request
  <2>5. SliceInv'
    BY <1>0, <1>4, <2>2, <2>4
    DEF SliceInv, ItemInv, FileOf, Changed, AsBefore, request, InstallFile
  <2> QED
    BY <1>0, <2>1, <2>2, <2>5 DEF WriterInv
<1> QED
  BY <1>3, <1>4 DEF InstallFile, f

(* With every file written the stage may go.                               *)
LEMMA WriteDoneInv == WriterInv /\ WriteDone => WriterInv'
<1> SUFFICES ASSUME WriterInv, WriteDone PROVE WriterInv'
  OBVIOUS
<1> USE Places
<1>0. /\ WriterTypes /\ SliceInv /\ Place[writer] = File /\ Replacing
      /\ writer = "slice" /\ writer' = "slice" /\ step' = "idle" /\ answer' = "ok"
      /\ position = NumFiles + 1 /\ place' = place /\ UNCHANGED request
      /\ aside' = [f \in File |-> Absent]
  BY DEF WriterInv, WriteDone, SliceInv, request, Return
<1>1. \A f \in File : place[f] = wanted
  <2> SUFFICES ASSUME NEW f \in File PROVE place[f] = wanted
    OBVIOUS
  <2>1. PICK j \in File : WriteOrder[j] = f
    BY OrderOfPaths
  <2> QED
    BY <1>0, <2>1, FilesAssumption DEF Replacing, File
<1>2. \A f \in File : before.place[f] # Foreign /\ before.aside[f] = Absent
  BY <1>0 DEF SliceInv, WriteDone
<1>3. WriterTypes'
  BY <1>0 DEF WriterTypes, Trees, Holding, request
<1>4. WritesAreSafe'
  BY <1>0, <1>1, <1>2
  DEF WritesAreSafe, OldIsKept, StaleBackupStays, ReturnIsTrue, ManifestComesLast,
      HandwrittenStays, request
<1> QED
  BY <1>0, <1>3, <1>4, ReturnInv

(* The undo of one item: its file is as it was, or something failed and    *)
(* its old content stays in the stage.                                     *)
LEMMA UndoFileInv == WriterInv /\ UndoFile => WriterInv'
<1> SUFFICES ASSUME WriterInv, UndoFile PROVE WriterInv'
  OBVIOUS
<1> USE Places
<1>0. /\ WriterTypes /\ SliceInv /\ Place[writer] = File /\ Undoing
      /\ position \in Items /\ position' = position - 1
      /\ UNCHANGED <<request, step, changed>> /\ Items' = Items
      /\ writer = "slice" /\ writer' = "slice" /\ step = "undo" /\ position \in Nat
  BY DEF WriterInv, UndoFile, SliceInv, Undoing, request, Items
<1>1. PICK n \in Items : n = position
  BY <1>0
<1>2. PICK f \in File : f = changed[n].file
  BY <1>0 DEF SliceInv, ItemInv, FileOf
<1>3. \A k \in Items : k # n => changed[k].file \in File \ {f}
  BY <1>0, <1>2 DEF SliceInv, ItemInv, FileOf
<1>4. /\ aside[f] = before.place[f] /\ place[f] = IF changed[n].installed THEN wanted ELSE Absent
      /\ changed[n].backup <=> before.place[f] # Absent
      /\ before.aside[f] = Absent
  BY <1>0, <1>1, <1>2 DEF SliceInv, Undoing, ItemInv, Pending, PutInPlace, MovedAside, FileOf
<1>5. /\ place' \in Trees(File) /\ aside' \in Trees(File)
      /\ answer' \in {answer, "retained"}
      /\ \A g \in File \ {f} : place'[g] = place[g] /\ aside'[g] = aside[g]
      /\ \/ place'[f] = before.place[f] /\ aside'[f] = Absent
         \/ /\ answer' = "retained" /\ aside'[f] = before.place[f]
            /\ place'[f] \in {Absent, wanted}
  <2> DEFINE removed == IF changed[n].installed THEN [place EXCEPT ![f] = Absent] ELSE place
  <2>1. /\ removed \in Trees(File) /\ removed[f] = Absent
        /\ \A g \in File \ {f} : removed[g] = place[g]
        /\ place \in Trees(File) /\ aside \in Trees(File)
    BY <1>0, <1>4 DEF WriterTypes, Trees, Holding
  <2> HIDE DEF removed
  <2>2. CASE /\ IF changed[n].backup
                THEN /\ place' = [removed EXCEPT ![f] = aside[f]]
                     /\ aside' = [aside EXCEPT ![f] = Absent]
                ELSE place' = removed /\ UNCHANGED aside
             /\ UNCHANGED answer
    <3>1. CASE changed[n].backup
      <4>1. /\ place' = [removed EXCEPT ![f] = aside[f]]
            /\ aside' = [aside EXCEPT ![f] = Absent] /\ answer' = answer
        BY <2>2, <3>1
      <4>2. aside[f] \in Holding /\ Absent \in Holding
        BY <2>1 DEF Trees, Holding
      <4> QED
        BY <1>4, <2>1, <4>1, <4>2 DEF Trees
    <3>2. CASE ~changed[n].backup
      <4>1. place' = removed /\ aside' = aside /\ answer' = answer
        BY <2>2, <3>2
      <4> QED
        BY <1>4, <2>1, <3>2, <4>1
    <3> QED
      BY <3>1, <3>2
  <2>3. CASE place' \in {place, removed} /\ answer' = "retained" /\ aside' = aside
    BY <1>4, <2>1, <2>3
  <2> QED
    BY <1>1, <1>2, <2>2, <2>3 DEF UndoFile, removed
<1>6. WriterTypes'
  BY <1>0, <1>5 DEF WriterTypes, request
<1>7. \A k \in Items : IF k <= position - 1 THEN Pending(k)' ELSE AsBefore(FileOf(k))' \/ UndoFailed(k)'
  <2> SUFFICES ASSUME NEW k \in Items
               PROVE  IF k <= position - 1 THEN Pending(k)' ELSE AsBefore(FileOf(k))' \/ UndoFailed(k)'
    OBVIOUS
  <2>0. k \in Nat /\ before' = before /\ wanted' = wanted /\ changed' = changed
    BY <1>0 DEF Items, request
  <2>1. CASE k = n
    <3>1. ~(k <= position - 1)
      BY <1>0, <1>1, <2>0, <2>1
    <3>2. AsBefore(FileOf(k))' \/ UndoFailed(k)'
      BY <1>2, <1>4, <1>5, <2>0, <2>1
      DEF AsBefore, UndoFailed, PutInPlace, MovedAside, FileOf
    <3> QED
      BY <3>1, <3>2
  <2>2. CASE k # n
    <3>1. /\ place'[changed[k].file] = place[changed[k].file]
          /\ aside'[changed[k].file] = aside[changed[k].file]
      BY <1>3, <1>5, <2>2
    <3>2. k <= position - 1 <=> k <= position
      BY <1>0, <1>1, <2>0, <2>2
    <3>3. IF k <= position THEN Pending(k) ELSE AsBefore(FileOf(k)) \/ UndoFailed(k)
      BY <1>0 DEF Undoing
    <3> QED
      BY <1>5, <2>0, <3>1, <3>2, <3>3
      DEF Pending, AsBefore, UndoFailed, PutInPlace, MovedAside, FileOf
  <2> QED
    BY <2>1, <2>2
<1>8. Undoing'
  <2>1. position' \in 0 .. Len(changed') /\ changed' = changed
    BY <1>0 DEF Items, Undoing
  <2>2. \A k \in Items : changed[k].installed => FileOf(k)' # FileManifest
    BY <1>0, <2>1 DEF Undoing, FileOf
  <2>3. answer' \in {"running", "retained"}
    BY <1>0, <1>5 DEF Undoing
  <2> QED
    BY <1>0, <1>7, <2>1, <2>2, <2>3 DEF Undoing
<1>9. \A g \in File : ~Changed(g)' => AsBefore(g)'
  <2> SUFFICES ASSUME NEW g \in File, ~Changed(g)' PROVE AsBefore(g)'
    OBVIOUS
  <2>1. g # f /\ ~Changed(g)
    BY <1>0, <1>2 DEF Changed, FileOf
  <2> QED
    BY <1>0, <1>5, <2>1 DEF SliceInv, AsBefore, request
<1>10. \A k \in Items' : ItemInv(k)'
  BY <1>0 DEF SliceInv, ItemInv, FileOf, request
<1>11. SliceInv'
  BY <1>0, <1>8, <1>9, <1>10 DEF SliceInv, request
<1> QED
  BY <1>0, <1>6, <1>11 DEF WriterInv

(* The undo is over.  The stage stays when it had errors.                  *)
LEMMA UndoDoneInv == WriterInv /\ UndoDone => WriterInv'
<1> SUFFICES ASSUME WriterInv, UndoDone PROVE WriterInv'
  OBVIOUS
<1> USE Places
<1>0. /\ WriterTypes /\ SliceInv /\ Place[writer] = File /\ Undoing /\ position = 0
      /\ writer = "slice" /\ writer' = "slice" /\ step' = "idle" /\ place' = place
      /\ UNCHANGED request
      /\ answer' = IF answer = "retained" THEN "retained" ELSE "failed"
      /\ aside' = IF answer = "retained" THEN aside ELSE [f \in File |-> Absent]
  BY DEF WriterInv, UndoDone, SliceInv, request, Return
<1>1. WriterTypes'
  BY <1>0 DEF WriterTypes, Trees, Holding, request
<1>2. CASE answer = "retained"
  <2>1. WritesAreSafe
    BY <1>0, SliceIsSafe DEF UndoDone
  <2> QED
    BY <1>0, <1>1, <1>2, <2>1, ReturnInv
    DEF WritesAreSafe, OldIsKept, StaleBackupStays, ReturnIsTrue, ManifestComesLast,
        HandwrittenStays, request
<1>3. CASE answer # "retained"
  <2>1. \A f \in File : place[f] = before.place[f] /\ before.aside[f] = Absent
    <3> SUFFICES ASSUME NEW f \in File PROVE AsBefore(f) /\ before.aside[f] = Absent
      BY DEF AsBefore
    <3>1. CASE Changed(f)
      <4>1. PICK k \in Items : FileOf(k) = f
        BY <3>1 DEF Changed
      <4>2. ~(k <= position)
        BY <1>0 DEF Items
      <4> QED
        BY <1>0, <1>3, <4>1, <4>2 DEF Undoing, UndoFailed, SliceInv
    <3> QED
      BY <1>0, <3>1 DEF SliceInv
  <2>2. place = before.place
    BY <1>0, <2>1 DEF WriterTypes, Trees
  <2>3. WritesAreSafe'
    BY <1>0, <1>3, <2>1, <2>2
    DEF WritesAreSafe, OldIsKept, StaleBackupStays, ReturnIsTrue, ManifestComesLast,
        HandwrittenStays, request
  <2> QED
    BY <1>0, <1>1, <2>3, ReturnInv
<1> QED
  BY <1>2, <1>3

-----------------------------------------------------------------------------
(* A root is done with when nothing was to be written to it.               *)
LEMMA NextRootInv == WriterInv /\ NextRoot => WriterInv'
<1> SUFFICES ASSUME WriterInv, NextRoot PROVE WriterInv'
  OBVIOUS
<1>0. /\ WriterTypes /\ EmitInv /\ writer = "emit" /\ writer' = "emit"
      /\ position \in 1 .. 2 /\ position' = position + 1 /\ step = "check" /\ given[Root] = "none"
      /\ UNCHANGED <<tree, request, step, changed, answer>>
  BY DEF WriterInv, NextRoot, request
<1>1. WriterTypes'
  BY <1>0 DEF WriterTypes, tree, request
<1>2. EmitInv'
  BY <1>0 DEF EmitInv, RootDone, AsBefore, Root, tree, request
<1> QED
  BY <1>0, <1>1, <1>2 DEF WriterInv

(* A return that is not nil.                                               *)
LEMMA EmitReturns ==
  ASSUME WriterTypes', writer' = "emit", step' = "idle", answer' # "ok",
         \A r \in Path : RootSafe(r)'
  PROVE  WriterInv'
<1>1. Place[writer]' = Path
  BY Places
<1>2. WritesAreSafe'
  BY <1>1
  DEF WritesAreSafe, OldIsKept, StaleBackupStays, ReturnIsTrue, ManifestComesLast,
      HandwrittenStays, RootSafe
<1> QED
  BY <1>2, ReturnInv

LEMMA RootRefusedInv == WriterInv /\ RootRefused => WriterInv'
<1> SUFFICES ASSUME WriterInv, RootRefused PROVE WriterInv'
  OBVIOUS
<1>0. /\ WriterTypes /\ writer = "emit" /\ writer' = "emit" /\ step # "idle"
      /\ step' = "idle" /\ answer' = "failed" /\ UNCHANGED <<tree, request>>
  BY DEF WriterInv, RootRefused, Return, request
<1>1. WriterTypes'
  BY <1>0 DEF WriterTypes, tree, request
<1>2. \A r \in Path : RootSafe(r)'
  BY <1>0, RootsAreSafe DEF RootSafe, tree, request
<1> QED
  BY <1>0, <1>1, <1>2, EmitReturns

(* The old directory is moved away, where nothing else is.                 *)
LEMMA RootAsideInv == WriterInv /\ RootAside => WriterInv'
<1> SUFFICES ASSUME WriterInv, RootAside PROVE WriterInv'
  OBVIOUS
<1> USE Places
<1>0. /\ WriterTypes /\ EmitInv /\ writer = "emit" /\ writer' = "emit" /\ Place[writer] = Path
      /\ position \in 1 .. 2 /\ position' = position /\ step = "check" /\ step' = "install"
      /\ Root \in Path /\ answer' = answer /\ UNCHANGED request
      /\ given[Root] = "own" /\ place[Root] \notin {Absent, Foreign} /\ aside[Root] = Absent
      /\ aside' = [aside EXCEPT ![Root] = place[Root]]
      /\ place' = [place EXCEPT ![Root] = Absent]
  BY RootOfPath DEF WriterInv, RootAside, request, Root
<1>1. WriterTypes'
  BY <1>0 DEF WriterTypes, Trees, Holding, request
<1>2. /\ place'[Root] = Absent /\ aside'[Root] = place[Root]
      /\ \A r \in Path : r # Root => place'[r] = place[r] /\ aside'[r] = aside[r]
      /\ before' = before /\ wanted' = wanted /\ given' = given
  BY <1>0 DEF WriterTypes, Trees, request
<1>3. AsBefore(Root)
  BY <1>0 DEF EmitInv, Root
<1>4. \A j \in 1 .. 2 : j # position => Roots[j] \in Path /\ Roots[j] # Root
  BY <1>0, RootOfPath DEF Root
<1>5. RootMoved(Roots[position])'
  BY <1>0, <1>2, <1>3 DEF RootMoved, AsBefore, Root
<1>6. EmitInv'
  BY <1>0, <1>2, <1>4, <1>5 DEF EmitInv, RootDone, AsBefore, Root
<1> QED
  BY <1>0, <1>1, <1>6 DEF WriterInv

(* The staged directory takes the place; or the old one goes back, if the  *)
(* second rename does not fail too.                                        *)
LEMMA RootInstallInv == WriterInv /\ RootInstall => WriterInv'
<1> SUFFICES ASSUME WriterInv, RootInstall PROVE WriterInv'
  OBVIOUS
<1> USE Places
<1>0. /\ WriterTypes /\ EmitInv /\ writer = "emit" /\ writer' = "emit" /\ Place[writer] = Path
      /\ position \in 1 .. 2 /\ step # "idle" /\ Root \in Path
      /\ before' = before /\ wanted' = wanted /\ given' = given /\ calls' = calls
  BY RootOfPath DEF WriterInv, RootInstall, EmitInv, request, Root
<1>1. \A j \in 1 .. 2 : j # position => Roots[j] \in Path /\ Roots[j] # Root
  BY <1>0, RootOfPath DEF Root
<1>2. CASE /\ step = "check" /\ given[Root] = "own" /\ place[Root] = Absent
           /\ place' = [place EXCEPT ![Root] = wanted]
           /\ position' = position + 1
           /\ UNCHANGED <<aside, step, changed, answer>>
  <2>1. WriterTypes'
    BY <1>0, <1>2 DEF WriterTypes, Trees, Holding
  <2>2. place'[Root] = wanted /\ \A r \in Path : r # Root => place'[r] = place[r]
    BY <1>0, <1>2 DEF WriterTypes, Trees
  <2>3. AsBefore(Root)
    BY <1>0, <1>2 DEF EmitInv, Root
  <2>4. /\ given'[Root] = "own" /\ before'.place[Root] # Foreign
        /\ place'[Root] = wanted' /\ aside'[Root] = before'.aside[Root]
    BY <1>0, <1>2, <2>2, <2>3, ContentAssumption DEF AsBefore
  <2>5. \A j \in 1 .. 2 : /\ j < position => RootDone(Roots[j])'
                          /\ j > position => AsBefore(Roots[j])'
    BY <1>0, <1>1, <1>2, <2>2 DEF EmitInv, RootDone, AsBefore
  <2> QED
    BY <1>0, <1>2, <2>1, <2>4, <2>5 DEF WriterInv, EmitInv, RootDone, AsBefore, Root
<1>3. CASE /\ step = "install" /\ step' = "discard"
           /\ place' = [place EXCEPT ![Root] = wanted]
           /\ UNCHANGED <<aside, position, changed, answer>>
  <2>1. WriterTypes'
    BY <1>0, <1>3 DEF WriterTypes, Trees, Holding
  <2>2. place'[Root] = wanted /\ \A r \in Path : r # Root => place'[r] = place[r]
    BY <1>0, <1>3 DEF WriterTypes, Trees
  <2>3. EmitInv'
    BY <1>0, <1>1, <1>3, <2>2 DEF EmitInv, RootDone, RootMoved, AsBefore, Root
  <2> QED
    BY <1>0, <1>3, <2>1, <2>3 DEF WriterInv
<1>4. CASE /\ step = "install" /\ Return("failed")
           /\ \/ UNCHANGED tree
              \/ /\ place' = [place EXCEPT ![Root] = aside[Root]]
                 /\ aside' = [aside EXCEPT ![Root] = Absent]
  <2>1. WriterTypes'
    BY <1>0, <1>4 DEF WriterTypes, Trees, Holding, tree
  <2>2. RootMoved(Root)
    BY <1>0, <1>4 DEF EmitInv, Root
  <2>3. ASSUME NEW r \in Path PROVE RootSafe(r)'
    <3>1. RootSafe(r)
      BY <1>0, RootsAreSafe
    <3>2. CASE UNCHANGED tree
      BY <1>0, <3>1, <3>2 DEF RootSafe, tree
    <3>3. CASE /\ place' = [place EXCEPT ![Root] = aside[Root]]
               /\ aside' = [aside EXCEPT ![Root] = Absent]
      <4>1. /\ place'[Root] = aside[Root] /\ aside'[Root] = Absent
            /\ r # Root => place'[r] = place[r] /\ aside'[r] = aside[r]
        BY <1>0, <3>3 DEF WriterTypes, Trees
      <4> QED
        BY <1>0, <2>2, <3>1, <4>1 DEF RootSafe, RootMoved
    <3> QED
      BY <1>4, <3>2, <3>3
  <2> QED
    BY <1>0, <1>4, <2>1, <2>3, EmitReturns DEF Return
<1> QED
  BY <1>2, <1>3, <1>4 DEF RootInstall

(* The old directory is discarded, or only in part.                        *)
LEMMA RootDiscardInv == WriterInv /\ RootDiscard => WriterInv'
<1> SUFFICES ASSUME WriterInv, RootDiscard PROVE WriterInv'
  OBVIOUS
<1> USE Places
<1>0. /\ WriterTypes /\ EmitInv /\ writer = "emit" /\ writer' = "emit" /\ Place[writer] = Path
      /\ position \in 1 .. 2 /\ step = "discard" /\ Root \in Path /\ place' = place
      /\ before' = before /\ wanted' = wanted /\ given' = given /\ calls' = calls
      /\ RootMoved(Root) /\ place[Root] = wanted
  BY RootOfPath DEF WriterInv, RootDiscard, EmitInv, request, Root
<1>1. \A j \in 1 .. 2 : j # position => Roots[j] \in Path /\ Roots[j] # Root
  BY <1>0, RootOfPath DEF Root
<1>2. CASE /\ aside' = [aside EXCEPT ![Root] = Absent] /\ step' = "check"
           /\ position' = position + 1 /\ answer' = answer
  <2>1. WriterTypes'
    BY <1>0, <1>2 DEF WriterTypes, Trees, Holding
  <2>2. aside'[Root] = Absent /\ \A r \in Path : r # Root => aside'[r] = aside[r]
    BY <1>0, <1>2 DEF WriterTypes, Trees
  <2>3. \A j \in 1 .. 2 : /\ j < position => RootDone(Roots[j])'
                          /\ j > position => AsBefore(Roots[j])'
    BY <1>0, <1>1, <1>2, <2>2 DEF EmitInv, RootDone, AsBefore
  <2>4. /\ given'[Root] = "own" /\ before'.place[Root] # Foreign
        /\ place'[Root] = wanted' /\ aside'[Root] = before'.aside[Root]
    BY <1>0, <2>2 DEF RootMoved
  <2> QED
    BY <1>0, <1>2, <2>1, <2>3, <2>4 DEF WriterInv, EmitInv, RootDone, AsBefore, Root
<1>3. CASE /\ \E left \in {aside[Root], Damaged} : aside' = [aside EXCEPT ![Root] = left]
           /\ Return("failed")
  <2>1. WriterTypes'
    BY <1>0, <1>3 DEF WriterTypes, Trees, Holding
  <2>2. \A r \in Path : r # Root => aside'[r] = aside[r]
    BY <1>0, <1>3 DEF WriterTypes, Trees
  <2>3. ASSUME NEW r \in Path PROVE RootSafe(r)'
    BY <1>0, <2>2, RootsAreSafe DEF RootSafe, RootMoved
  <2> QED
    BY <1>0, <1>3, <2>1, <2>3, EmitReturns DEF Return
<1> QED
  BY <1>2, <1>3 DEF RootDiscard

LEMMA EmitDoneInv == WriterInv /\ EmitDone => WriterInv'
<1> SUFFICES ASSUME WriterInv, EmitDone PROVE WriterInv'
  OBVIOUS
<1> USE Places
<1>0. /\ WriterTypes /\ EmitInv /\ writer = "emit" /\ writer' = "emit" /\ Place[writer] = Path
      /\ position = 3 /\ step = "check" /\ step' = "idle" /\ answer' = "ok"
      /\ UNCHANGED <<tree, request>>
  BY DEF WriterInv, EmitDone, Return, request
<1>1. WriterTypes'
  BY <1>0 DEF WriterTypes, tree, request
<1>2. WritesAreSafe
  BY <1>0, EmitIsSafe
<1>3. ASSUME NEW r \in DOMAIN given
      PROVE  place[r] = IF given[r] = "own" THEN wanted ELSE before.place[r]
  <2>1. r \in Path
    BY <1>0 DEF EmitInv
  <2>2. PICK j \in 1 .. 2 : Roots[j] = r
    BY <2>1, RootOfPath
  <2> QED
    BY <1>0, <2>2 DEF EmitInv, RootDone, AsBefore
<1>4. WritesAreSafe'
  BY <1>0, <1>2, <1>3
  DEF WritesAreSafe, OldIsKept, StaleBackupStays, ReturnIsTrue, ManifestComesLast,
      HandwrittenStays, tree, request
<1> QED
  BY <1>0, <1>1, <1>4, ReturnInv

-----------------------------------------------------------------------------
(* Wherever a call is killed, the tree is as it must be between calls.     *)
LEMMA KilledInv == WriterInv /\ Killed => WriterInv'
<1> SUFFICES ASSUME WriterInv, Killed PROVE WriterInv'
  OBVIOUS
<1> USE Places
<1>0. /\ WriterTypes /\ step # "idle" /\ step' = "idle" /\ answer' = "killed" /\ place' = place
      /\ before' = before /\ wanted' = wanted /\ given' = given /\ calls' = calls /\ writer' = writer
  BY DEF WriterInv, Killed, Return, request
<1>1. CASE writer = "slice"
  <2>1. WritesAreSafe /\ SliceInv
    BY <1>0, <1>1, SliceIsSafe DEF WriterInv
  <2>2. aside' = aside /\ answer # "ok"
    BY <1>0, <2>1 DEF Killed, SliceInv, Replacing, Installing, Undoing
  <2>3. WriterTypes'
    BY <1>0, <2>2 DEF WriterTypes
  <2>4. WritesAreSafe'
    BY <1>0, <1>1, <2>1, <2>2
    DEF WritesAreSafe, OldIsKept, StaleBackupStays, ReturnIsTrue, ManifestComesLast,
        HandwrittenStays
  <2> QED
    BY <1>0, <2>3, <2>4, ReturnInv
<1>2. CASE writer = "emit"
  <2>1. EmitInv
    BY <1>0, <1>2 DEF WriterInv
  <2>2. \/ aside' = aside
        \/ step = "discard" /\ aside' = [aside EXCEPT ![Root] = Damaged]
    BY DEF Killed
  <2>3. WriterTypes'
    BY <1>0, <1>2, <2>2 DEF WriterTypes, Trees, Holding
  <2>4. ASSUME NEW r \in Path PROVE RootSafe(r)'
    <3>1. RootSafe(r)
      BY <1>0, <1>2, RootsAreSafe
    <3>2. CASE aside' = aside
      BY <1>0, <3>1, <3>2 DEF RootSafe
    <3>3. CASE step = "discard" /\ aside' = [aside EXCEPT ![Root] = Damaged]
      <4>1. RootMoved(Root) /\ place[Root] = wanted
        BY <2>1, <3>3 DEF EmitInv, Root
      <4>2. r # Root => aside'[r] = aside[r]
        BY <1>0, <1>2, <3>3 DEF WriterTypes, Trees
      <4> QED
        BY <1>0, <3>1, <4>1, <4>2 DEF RootSafe, RootMoved
    <3> QED
      BY <2>2, <3>2, <3>3
  <2> QED
    BY <1>0, <1>2, <2>3, <2>4, EmitReturns
<1> QED
  BY <1>0, <1>1, <1>2 DEF WriterTypes, Writer

(* An edit between two calls is what the next one finds.                   *)
LEMMA EditedInv == WriterInv /\ Edited => WriterInv'
<1> SUFFICES ASSUME WriterInv, Edited PROVE WriterInv'
  OBVIOUS
<1>0. /\ WriterTypes /\ step' = "idle" /\ answer' = "edited" /\ writer' = writer
      /\ before' = [place |-> place', aside |-> aside'] /\ wanted' = wanted /\ calls' = calls
  BY DEF WriterInv, Edited
<1>1. WriterTypes'
  BY <1>0 DEF Edited, WriterTypes, Trees, Holding
<1>2. WritesAreSafe'
  BY <1>0
  DEF WritesAreSafe, OldIsKept, StaleBackupStays, ReturnIsTrue, ManifestComesLast,
      HandwrittenStays
<1> QED
  BY <1>0, <1>1, <1>2, ReturnInv

(* Every step of a writer keeps the invariant.                             *)
LEMMA WriterStep == WriterInv /\ [WNext]_wvars => WriterInv'
<1>1. WriterInv /\ UNCHANGED wvars => WriterInv'
  BY DEF wvars, tree, request, WriterInv, WriterTypes, WritesAreSafe, OldIsKept,
         StaleBackupStays, ReturnIsTrue, ManifestComesLast, HandwrittenStays, SliceInv,
         Replacing, Installing, Undoing, Items, ItemInv, FileOf, Changed, AsBefore, Pending,
         PutInPlace, MovedAside, UndoFailed, EmitInv, RootDone, RootMoved
<1> QED
  BY <1>1, BeginWriteInv, StageSliceInv, SetFileAsideInv, InstallFileInv, WriteDoneInv,
     UndoFileInv, UndoDoneInv, NextRootInv, RootRefusedInv, RootAsideInv, RootInstallInv,
     RootDiscardInv, EmitDoneInv, KilledInv, EditedInv
  DEF WNext

(* However a call of slice.Write or emit.Write ends, and after any number  *)
(* of them, the tree is the old one, the new one, or has the old content   *)
(* at hand (write.go and emit.go, Write and its rollback).                 *)
THEOREM WritersAreSafe == WSpec => []WritesAreSafe
BY WriterInitInv, WriterStep, WriterInvIsSafe, PTL DEF WSpec
=============================================================================
