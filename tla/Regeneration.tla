----------------------------- MODULE Regeneration -----------------------------
(***************************************************************************)
(* One commit through .github/workflows/generation.yml: winapigen writes   *)
(* the reviewed slice anew over the checkout, winapiverify verifies what   *)
(* is there now (AbiVerification), and git rejects any drift from the      *)
(* commit.  winapiverify alone takes a slice that agrees with its own      *)
(* manifest, whoever wrote the two.                                        *)
(*                                                                         *)
(* The other files winapigen writes, the coverage gate and the second      *)
(* generation can only fail the job later: here they are its failure.      *)
(***************************************************************************)
EXTENDS ReviewedSlice

CONSTANT
  Checkouts   \* set of [run, module, report]: what a commit holds

ASSUME CheckoutsAssumption ==
  \A c \in Checkouts : DOMAIN c.run = RunFields

VARIABLES
  step,     \* of the job
  commit    \* what was checked out; run and disk are what is there now

regenerationVars == <<vars, step, commit>>

RegenerationInit ==
  /\ step = "generate" /\ commit \in Checkouts
  /\ run = commit.run /\ disk = [from |-> "earlier", report |-> commit.report]
  /\ pc = "idle" /\ cancelled = FALSE /\ next = 1
  /\ mismatches = {} /\ sdks = {} /\ accepted = << >> /\ status = << >>
  /\ report = NoReport /\ result = "none"

Over(files, tree) == [p \in DOMAIN files \cup DOMAIN tree |-> IF p \in DOMAIN files THEN files[p] ELSE tree[p]]

(* winapigen generate --all: the slice is written only when the lock of    *)
(* the checkout is the reviewed one.                                       *)
GenerateTree ==
  /\ step = "generate" /\ step' = "verify" /\ pc' = "generate"
  /\ \E s \in ToSet(Render(run.lock, commit.module)) :
       run' = [run EXCEPT !.slice = s.manifest, !.checkout = Over(s.files, @)]
  /\ UNCHANGED <<cancelled, next, loading, report, disk, result, commit>>

(* winapiverify abi --all, in the tree that winapigen left.                *)
VerifyTree == step = "verify" /\ Next /\ UNCHANGED <<step, commit>>

TreeVerified ==
  /\ step = "verify" /\ pc = "done" /\ result = "ok"
  /\ step' = "drift"
  /\ UNCHANGED <<vars, commit>>

(* Mutant: the artifacts are left to the verification of their manifest.   *)
RejectManifestDrift ==
  /\ step = "drift"
  /\ run.slice = commit.run.slice /\ disk.report = commit.report
  /\ step' = "success"
  /\ UNCHANGED <<vars, commit>>

(* git diff and git status of the whole checkout, the report included.     *)
RejectDrift ==
  /\ step = "drift"
  /\ run = commit.run /\ disk.report = commit.report
  /\ step' = "success"
  /\ UNCHANGED <<vars, commit>>

(* A step that exits with an error, the runner, or a newer push.           *)
JobFails ==
  /\ step \notin {"success", "failure"} /\ step' = "failure"
  /\ UNCHANGED <<vars, commit>>

RegenerationNext == GenerateTree \/ VerifyTree \/ TreeVerified \/ RejectDrift \/ JobFails

RegenerationSpec == RegenerationInit /\ [][RegenerationNext]_regenerationVars

-----------------------------------------------------------------------------
(* When the job succeeds, whatever the commit: its lock is the one the     *)
(* templates were reviewed for, its manifest and every artifact are what   *)
(* these templates render for its module, and the report that is checked   *)
(* in is the finished and passed one of this verification.  An artifact    *)
(* edited together with its manifest, a slice of older templates and a     *)
(* report of another run are all in range.                                 *)
SliceFollowsLock ==
  step = "success" =>
    /\ \E s \in ToSet(Render(commit.run.lock, commit.module)) :
         /\ s.manifest = commit.run.slice
         /\ \A p \in DOMAIN s.files : p \in DOMAIN commit.run.checkout /\ commit.run.checkout[p] = s.files[p]
    /\ commit.report = report /\ report.passed
=============================================================================
