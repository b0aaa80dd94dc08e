------------------------ MODULE GenerationRefinement ------------------------
(***************************************************************************)
(* GenerationCommit implements AtomicGeneration.  While a run is at work   *)
(* the abstract tree is the one it began with; its own stage counts as     *)
(* saved only once it has been interrupted.                                *)
(***************************************************************************)
EXTENDS GenerationCommit

AbstractTree == IF phase \in Working THEN pre ELSE dest

Interrupted ==
  {r \in stages \ committed : r = run => phase = "idle"}

AbstractSaved ==
  [i \in Target |-> {backups[r][i] : r \in Interrupted} \ {Absent}]

Atomic == INSTANCE AtomicGeneration
            WITH tree <- AbstractTree, saved <- AbstractSaved, latest <- run

(* Seen from between the runs, the whole replacement is one atomic step or *)
(* none; an interrupted one loses nothing (transaction.go, the comment of  *)
(* writeGeneration; docs/architecture.md on the restoring of the previous  *)
(* output).                                                                *)
ImplementsAtomicGeneration == Atomic!Spec
=============================================================================
