------------------------------ MODULE Versions ------------------------------
(***************************************************************************)
(* The two orders on version strings that the tooling uses: NuGet's        *)
(* (generator/internal/source/updates.go), by which the source tool finds  *)
(* the newest release of a pinned package and by which a lock entry's URL  *)
(* and version are compared, and the overrides' (generator/internal/       *)
(* metadata/override.go), by which a typed override is admitted to a       *)
(* locked version.                                                         *)
(*                                                                         *)
(* A version is the string split at its separators: `core` its dotted      *)
(* numbers (-1 for a part that is not one), `pre` the labels after the     *)
(* first '-' (<<>> without one), `meta` whether the text after '+' is      *)
(* absent or made of labels.  A label is known by what the two orders can  *)
(* tell of it:                                                             *)
(*   raw, lower  its place, and that of its lower-case form, in byte order;*)
(*   digits      only digits (isDecimal), whose value is n;                *)
(*   signed      digits behind a '-', whose value is n (strconv.Atoi reads *)
(*               it, isDecimal does not);                                  *)
(*   ascii       not empty, and only the characters NuGet admits.          *)
(* An empty label is not `ascii` and has raw = 0.                          *)
(***************************************************************************)
EXTENDS Integers, Sequences, FiniteSets

CONSTANTS
    MaxPart,   \* the largest numeric part NuGet admits (2^31 - 1)
    MaxInt     \* the largest int (2^63 - 1)

ASSUME VersionsAssumption == MaxPart \in Nat /\ MaxInt \in Nat /\ MaxPart < MaxInt

Label == [raw : Nat, lower : Nat, digits : BOOLEAN, signed : BOOLEAN, n : Int, ascii : BOOLEAN]

ParsedVersion ==
    {v \in [core : Seq(Int), pre : Seq(Label), meta : BOOLEAN] :
        \A i \in 1..Len(v.pre) : v.pre[i].ascii => v.pre[i].raw # 0}

Larger(a, b) == IF a > b THEN a ELSE b
Smaller(a, b) == IF a > b THEN b ELSE a

\* cmp.Compare
Order(a, b) == IF a < b THEN -1 ELSE IF a > b THEN 1 ELSE 0

\* Part i of a list of numbers, zero when the list is shorter.
Part(core, i) == IF i <= Len(core) THEN core[i] ELSE 0

(***************************************************************************)
(* d has, for each place of two sequences, how they compare there.  The    *)
(* first difference decides, and if there is none the lengths do.          *)
(***************************************************************************)
FirstDifference(d) ==
    LET D == {i \in DOMAIN d : d[i] # 0}
    IN  IF D = {} THEN 0 ELSE d[CHOOSE i \in D : \A j \in D : i <= j]

Parts(a, b, n) == FirstDifference([i \in 1..n |-> Order(Part(a.core, i), Part(b.core, i))])

\* A version without labels is newer than one with the same numbers and labels.
Released(a, b, d) ==
    CASE a = <<>> /\ b = <<>> -> 0
      [] a = <<>> /\ b # <<>> -> 1
      [] a # <<>> /\ b = <<>> -> -1
      [] a # <<>> /\ b # <<>> -> IF FirstDifference(d) # 0 THEN FirstDifference(d) ELSE Order(Len(a), Len(b))

(***************************************************************************)
(* updates.go.  Up to four parts, each a decimal below 2^31; labels are    *)
(* compared in lower case, digits by value (leading zeros trimmed, then    *)
(* length, then text), and digits before words.                            *)
(***************************************************************************)
NuGetValid(v) ==
    /\ v.meta
    /\ Len(v.core) <= 4
    /\ \A i \in 1..Len(v.core) : v.core[i] \in 0..MaxPart
    /\ \A i \in 1..Len(v.pre) : v.pre[i].ascii

NuGetLabels(a, b) ==
    CASE a.digits /\ ~b.digits -> -1
      [] ~a.digits /\ b.digits -> 1
      [] a.digits /\ b.digits -> Order(a.n, b.n)
      [] ~a.digits /\ ~b.digits -> Order(a.lower, b.lower)

NuGetCompare(a, b) ==
    IF Parts(a, b, 4) # 0 THEN Parts(a, b, 4)
    ELSE Released(a.pre, b.pre, [i \in 1..Smaller(Len(a.pre), Len(b.pre)) |-> NuGetLabels(a.pre[i], b.pre[i])])

(***************************************************************************)
(* override.go.  Any number of parts, each an int; labels are compared as  *)
(* they are written, a label that Atoi reads (digits, or digits behind a   *)
(* '-', that fit an int) by value and before one that it does not.         *)
(***************************************************************************)
OverrideValid(v) ==
    /\ \A i \in 1..Len(v.core) : v.core[i] \in 0..MaxInt
    /\ \A i \in 1..Len(v.pre) : v.pre[i].raw # 0

ReadsAsInt(l) == (l.digits \/ l.signed) /\ l.n <= MaxInt

\* A plausible slip: all labels compared as text.
OverrideLabelsAsText(a, b) == Order(a.raw, b.raw)

OverrideLabels(a, b) ==
    CASE ReadsAsInt(a) /\ ReadsAsInt(b) -> Order(a.n, b.n)
      [] ReadsAsInt(a) /\ ~ReadsAsInt(b) -> -1
      [] ~ReadsAsInt(a) /\ ReadsAsInt(b) -> 1
      [] ~ReadsAsInt(a) /\ ~ReadsAsInt(b) -> Order(a.raw, b.raw)

CompareVersions(a, b) ==
    LET n == Larger(Len(a.core), Len(b.core))
    IN  IF Parts(a, b, n) # 0 THEN Parts(a, b, n)
        ELSE Released(a.pre, b.pre, [i \in 1..Smaller(Len(a.pre), Len(b.pre)) |-> OverrideLabels(a.pre[i], b.pre[i])])

\* The error of either comparison is the error of the range check.
RangeError(v, lo, hi) == ~(OverrideValid(v) /\ OverrideValid(lo) /\ OverrideValid(hi))

\* What Validate asks of the range of an override.
RangeValid(lo, hi) == OverrideValid(lo) /\ OverrideValid(hi) /\ CompareVersions(lo, hi) <= 0

VersionInRange(v, lo, hi) == CompareVersions(v, lo) >= 0 /\ CompareVersions(v, hi) <= 0

(***************************************************************************)
(* The labels on which the two orders can tell the same: lower case, no    *)
(* sign, and digits that fit an int.                                       *)
(***************************************************************************)
Plain(v) ==
    \A i \in 1..Len(v.pre) :
        LET l == v.pre[i] IN l.raw = l.lower /\ ~l.signed /\ (l.digits => l.n <= MaxInt)
=============================================================================
