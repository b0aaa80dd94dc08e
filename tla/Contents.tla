------------------------------ MODULE Contents ------------------------------
(***************************************************************************)
(* What may be at a path of the checkout besides generated output, which   *)
(* is numbered.                                                            *)
(***************************************************************************)
EXTENDS Integers

CONSTANTS
  Absent,       \* no file or directory at a path
  Damaged,      \* a tree that a RemoveAll has removed only in part
  Foreign       \* something without the generator's mark

ASSUME ContentAssumption ==
  /\ {Absent, Damaged, Foreign} \cap Nat = {}
  /\ Absent # Damaged /\ Absent # Foreign /\ Damaged # Foreign
=============================================================================
