-------------------------- MODULE AtomicGeneration --------------------------
(***************************************************************************)
(* What the generator's replacement transaction promises to whoever looks  *)
(* at the tree between runs: a run either replaces every destination or    *)
(* changes none, and a run that was killed or could not undo its work      *)
(* leaves whatever it displaced among the saved contents.                  *)
(***************************************************************************)
EXTENDS Integers

CONSTANTS Target, MaxRuns, Absent, Damaged, Foreign

VARIABLES
  tree,   \* what each destination holds
  saved,  \* the old contents kept for a manual recovery, per destination
  latest  \* number of runs so far

vars == <<tree, saved, latest>>

Init ==
  /\ tree \in [Target -> {Absent, Foreign, 0}]
  /\ saved = [i \in Target |-> {}]
  /\ latest = 0

Start ==
  /\ latest < MaxRuns
  /\ latest' = latest + 1
  /\ UNCHANGED <<tree, saved>>

(* All destinations are replaced in one step, and only when each of them   *)
(* was the generator's to replace.                                         *)
ReplaceAll ==
  /\ latest > 0
  /\ \A i \in Target : tree[i] # Foreign
  /\ tree' = [i \in Target |-> latest]
  /\ UNCHANGED <<saved, latest>>

(* A run stops halfway: what it took away from a destination is saved.     *)
Interrupt ==
  /\ latest > 0
  /\ \A i \in Target : tree[i] # Foreign
  /\ tree' \in [Target -> {Absent, Damaged, latest} \cup {tree[i] : i \in Target}]
  /\ saved' \in [Target -> SUBSET UNION {saved[i] \cup {tree[i]} : i \in Target}]
  /\ \A i \in Target :
       /\ tree'[i] \in {tree[i], Absent, Damaged, latest}
       /\ saved[i] \subseteq saved'[i]
       /\ saved'[i] \subseteq saved[i] \cup {tree[i]}
       /\ tree'[i] # tree[i] /\ tree[i] # Absent => tree[i] \in saved'[i]
  /\ UNCHANGED latest

UserEdits ==
  /\ \E i \in Target, c \in {Absent, Foreign} : tree' = [tree EXCEPT ![i] = c]
  /\ UNCHANGED <<saved, latest>>

Next == Start \/ ReplaceAll \/ Interrupt \/ UserEdits

Spec == Init /\ [][Next]_vars
=============================================================================
