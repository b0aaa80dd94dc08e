----------------------------- MODULE MCPipeline -----------------------------
(***************************************************************************)
(* Instances of Pipeline for TLC: the fixture, one optional WinMD source   *)
(* that declares some of the same things, twice, and one required source   *)
(* without a provider.                                                     *)
(***************************************************************************)
EXTENDS Pipeline

CONSTANTS call, type, v1

\* A callable function has both fields; a type has no "function".
MCRow(d, n, v) ==
  [decl |-> d, row |-> n,
   value |-> [f \in Field |-> IF f = "function" /\ d = type THEN Absent ELSE v]]

MCLocked      == {1, 2}
MCWinMD       == {1}
MCRequired    == {2}
MCAllRequired == {1, 2}
MCRanges      == {<<1, 1>>, <<2, 2>>}
MCContents    ==
  {{MCRow(call, 1, v1)}, {MCRow(type, 3, Absent), MCRow(type, 4, v1)}}

\* With and without a duplicate in the fixture.
MCFixtures == {{MCRow(call, 1, v1), MCRow(type, n, v1), MCRow(type, 2, v1)} : n \in {2, 3}}

\* The fixture is edited between runs: a name changes, another is removed.
MCEditedFixtures ==
  {{MCRow(call, 1, v1), MCRow(type, 2, v)} : v \in {v1, Absent}}

=============================================================================
