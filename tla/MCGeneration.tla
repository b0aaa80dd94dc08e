---------------------------- MODULE MCGeneration ----------------------------
(* A small instance of GenerationCommit and of its refinement: a generated *)
(* tree, an artifact of the slice, the slice manifest after it, and a      *)
(* report after that, so that a run can still fail when the manifest is in *)
(* place.  The first run finds any mixture of what is missing, generated   *)
(* and foreign; between the runs the user edits one of the destinations.   *)
(*                                                                         *)
(* Beside it the two writers on trees of their own: they move only while   *)
(* no run begins, in a checkout without any target.                        *)
EXTENDS GenerationRefinement, TreeWriters

writers == <<writer, place, aside, calls, wanted, given, step, position, changed, answer, before>>

MCDirTargets == {1}
MCArtifacts  == {2}

EditsOne == phase = "idle" /\ run > 0 => \A i \in Target \ {2} : dest'[i] = dest[i]

NoTarget == \A i \in Target : dest[i] = Absent
NoFile   == writer = "slice" /\ \A f \in File : place[f] = Absent

RunStep    == calls = 0 /\ NoFile /\ Next /\ EditsOne /\ UNCHANGED writers
WriterStep == run = 0 /\ NoTarget /\ WNext /\ UNCHANGED vars

MCInit == Init /\ WInit /\ (NoTarget \/ NoFile)
MCSpec == MCInit /\ [][RunStep \/ WriterStep]_<<vars, writers>> /\ WF_vars(Step)
=============================================================================
