----------------------------- MODULE ReportFile -----------------------------
(***************************************************************************)
(* The replacement of one report file: writeAtomicFile and replaceFile of  *)
(* src/generator/pipeline.go (winapicoverage baseline), and writeAtomic    *)
(* and replaceFile of src/generator/internal/verify/verify.go              *)
(* (winapiverify), which first tries a rename over the old report.         *)
(*                                                                         *)
(* The new report is written whole to a temporary file and renamed into    *)
(* place.  A rename of a file replaces whatever file has the new name.     *)
(* Nothing locks the report: several writers may be at it.  Of a writer    *)
(* alone, calls fail and it may be killed; writers that race do so on a    *)
(* file system that does what it is asked.                                 *)
(***************************************************************************)
EXTENDS Naturals

CONSTANTS
  Writers,   \* processes that write the report
  Report,    \* the contents a report can have
  Direct,    \* the replaceFile functions in use: TRUE is winapiverify's
  Absent     \* no file at a path

ASSUME ReportAssumption ==
  /\ Absent \notin Report
  /\ Direct \subseteq BOOLEAN

VARIABLES
  active,  \* the writers that run at all
  path,    \* the report
  old,     \* the report's .old
  pc,      \* where each writer is
  data,    \* what each writer writes
  result,  \* what each writer's last call returned
  before   \* history: the report when the latest writer began

files == <<path, old>>
vars  == <<active, files, pc, data, result, before>>

PC == {"idle", "write", "replace", "stat", "place", "check", "aside", "swap", "restore", "remove"}

TypeOK ==
  /\ active \subseteq Writers
  /\ path \in Report \cup {Absent}
  /\ old \in Report \cup {Absent}
  /\ pc \in [Writers -> PC]
  /\ data \in [Writers -> Report]
  /\ result \in [Writers -> {"none", "ok", "error", "killed"}]
  /\ before \in Report \cup {Absent}

(* A checkout, with or without the report.                                 *)
Init ==
  /\ active \in SUBSET Writers \ {{}}
  /\ path \in Report \cup {Absent}
  /\ old = Absent
  /\ pc = [w \in Writers |-> "idle"]
  /\ data \in [Writers -> Report]
  /\ result = [w \in Writers |-> "none"]
  /\ before = path

-----------------------------------------------------------------------------
Goto(w, from, to) ==
  /\ pc[w] = from
  /\ pc' = [pc EXCEPT ![w] = to]
  /\ UNCHANGED result

Faulty(w) == active = {w}

(* The deferred Remove of the temporary file is part of every return.      *)
Return(w, from, r) ==
  /\ pc[w] = from
  /\ pc' = [pc EXCEPT ![w] = "idle"]
  /\ result' = [result EXCEPT ![w] = r]

Begin(w) ==
  /\ pc[w] = "idle"
  /\ pc' = [pc EXCEPT ![w] = "write"]
  /\ \E r \in Report : data' = [data EXCEPT ![w] = r]
  /\ result' = [result EXCEPT ![w] = "none"]
  /\ before' = path
  /\ UNCHANGED files

(* Create, write, sync and close the temporary file; leave a report that   *)
(* already says the same alone.  A report that cannot be read is replaced. *)
WriteTemp(w) ==
  /\ \/ path = data[w] /\ Return(w, "write", "ok")
     \/ /\ path # data[w] \/ Faulty(w)
        /\ \E direct \in Direct : Goto(w, "write", IF direct THEN "replace" ELSE "stat")
  /\ UNCHANGED <<files, data, before>>

(* winapiverify only: rename over the old report.                          *)
Replace(w) ==
  /\ \/ Return(w, "replace", "ok") /\ path' = data[w]
     \/ Faulty(w) /\ Goto(w, "replace", "stat") /\ UNCHANGED path
  /\ UNCHANGED <<old, data, before>>

Stat(w) ==
  /\ Goto(w, "stat", IF path = Absent THEN "place" ELSE "check")
  /\ UNCHANGED <<files, data, before>>

(* There was no report when Stat looked.                                   *)
Place(w) ==
  /\ Return(w, "place", "ok")
  /\ path' = data[w]
  /\ UNCHANGED <<old, data, before>>

(* A stale backup is never overwritten knowingly.                          *)
CheckBackup(w) ==
  /\ \/ old = Absent /\ Goto(w, "check", "aside")
     \/ old # Absent /\ Return(w, "check", "error")
  /\ UNCHANGED <<files, data, before>>

(* Mutant: the old report is removed, not renamed.                         *)
SetAsideRemoves(w) ==
  /\ IF path = Absent
     THEN Return(w, "aside", "error") /\ UNCHANGED files
     ELSE Goto(w, "aside", "swap") /\ path' = Absent /\ UNCHANGED old
  /\ UNCHANGED <<data, before>>

SetAside(w) ==
  /\ IF path = Absent
     THEN Return(w, "aside", "error") /\ UNCHANGED files
     ELSE Goto(w, "aside", "swap") /\ old' = path /\ path' = Absent
  /\ UNCHANGED <<data, before>>

Swap(w) ==
  /\ Goto(w, "swap", "remove")
  /\ path' = data[w]
  /\ UNCHANGED <<old, data, before>>

(* Mutant: a swap that failed and was undone is reported as done.          *)
RestoreOk(w) ==
  /\ Return(w, "restore", "ok")
  /\ IF old = Absent THEN UNCHANGED files ELSE path' = old /\ old' = Absent
  /\ UNCHANGED <<data, before>>

(* The error of renaming the backup back is dropped.                       *)
Restore(w) ==
  /\ Return(w, "restore", "error")
  /\ IF old = Absent THEN UNCHANGED files ELSE path' = old /\ old' = Absent
  /\ UNCHANGED <<data, before>>

(* Mutant: the backup is kept.                                             *)
KeepBackup(w) ==
  /\ Return(w, "remove", "ok")
  /\ UNCHANGED <<files, data, before>>

RemoveBackup(w) ==
  /\ Return(w, "remove", IF old = Absent THEN "error" ELSE "ok")
  /\ old' = Absent
  /\ UNCHANGED <<path, data, before>>

(* When the backup cannot be asked for, winapiverify stops and             *)
(* winapicoverage goes on; a rename that fails is undone.                  *)
CallFails(w) ==
  /\ Faulty(w)
  /\ \/ \E from \in {"write", "stat", "place", "check", "aside", "restore", "remove"} :
          Return(w, from, "error")
     \/ FALSE \in Direct /\ Goto(w, "check", "aside")
     \/ Goto(w, "swap", "restore")
  /\ UNCHANGED <<files, data, before>>

Kill(w) ==
  /\ Faulty(w)
  /\ \E from \in PC \ {"idle"} : Return(w, from, "killed")
  /\ UNCHANGED <<files, data, before>>

Write(w) ==
  \/ WriteTemp(w) \/ Replace(w) \/ Stat(w) \/ Place(w) \/ CheckBackup(w)
  \/ SetAside(w) \/ Swap(w) \/ Restore(w) \/ RemoveBackup(w)

Next ==
  /\ \E w \in active : Begin(w) \/ Write(w) \/ CallFails(w) \/ Kill(w)
  /\ UNCHANGED active

Spec == Init /\ [][Next]_vars

-----------------------------------------------------------------------------
Idle == \A w \in Writers : pc[w] = "idle"

(* One writer alone: whatever fails, and wherever the writer is killed,    *)
(* the report of before is still there, at its path or as the backup,      *)
(* until the new one is.                                                   *)
ReportSurvives ==
  \A w \in Writers :
    active = {w} /\ pc[w] # "idle" => path = data[w] \/ before \in {path, old}

(* One writer alone: nil means the report is in place, and an error (other *)
(* than a kill) that the old one was not lost; in particular a refusal     *)
(* because of a stale backup has changed nothing.                          *)
ResultIsTrue ==
  \A w \in Writers : active = {w} =>
    /\ result[w] = "ok" => path = data[w]
    /\ result[w] = "error" => path = data[w] \/ before \in {path, old}

(* Both: one writer alone never loses the report, and its result says so.  *)
ReportIsSafe == ReportSurvives /\ ResultIsTrue

(* Whoever raced with whom: once all writers have returned, the report is  *)
(* there (unless nobody ever wrote one) and no backup is left to block the *)
(* next replacement.                                                       *)
RaceSettles ==
  Idle /\ (\A w \in Writers : active # {w}) =>
    old = Absent /\ (path # Absent \/ \A w \in Writers : result[w] = "none")
=============================================================================
