---------------------------- MODULE CoverageGate ----------------------------
(***************************************************************************)
(* Coverage accounting and its CI gate: generator/internal/coverage/       *)
(* coverage.go (Build, Validate, Diff, Check), generator/coverage.go and   *)
(* cmd/winapicoverage.  A generation leaves coverage/latest.json; a        *)
(* maintainer may accept it as coverage/baseline.json; CI checks the one   *)
(* against the other.  Both are files in a checkout, so both may be edited *)
(* by hand between two commands.                                           *)
(*                                                                         *)
(* An inventory is a set of symbols; a symbol is an identity with what the *)
(* accounting asks of it.  The maps of a report are kept by what Validate  *)
(* and Check ask of them: `byStatus` count by count (0 for a status that   *)
(* is not there), the others as the sum of their counts.                   *)
(***************************************************************************)
EXTENDS Integers, FiniteSets

CONSTANTS
    Inventories,   \* the sets of symbols that generations may find
    Steps          \* the displayed steps from 0 to 100 per cent (10000)

VARIABLES
    latest,    \* coverage/latest.json, NoFile when there is none
    baseline,  \* coverage/baseline.json
    gate       \* what the last command said of the files as they are

gateVars == <<latest, baseline, gate>>

NoFile == [schema |-> 0]

Callable == {"purego", "assembly", "bridge"}
Generated == Callable \cup {"typeOnly", "manualOverride"}
Skipped == {"unsupported"}
Statuses == Generated \cup Skipped \cup {"unclassified"}

\* The metrics that the gate compares with the baseline: all but ingestion.
Gated == {"accounting", "generation", "purego", "assembly", "bridge", "verified", "runtime"}
Metrics == Gated \cup {"ingestion"}

Maps == {"source", "namespace", "kind", "backend"}

(***************************************************************************)
(* What normalization hands over: Symbol.Validate has refused a symbol     *)
(* that is unclassified or is of no architecture.                          *)
(***************************************************************************)
Normalized(inv) ==
    /\ IsFiniteSet(inv)
    /\ \A s \in inv : /\ s.status \in Statuses \ {"unclassified"}
                      /\ s.architectures # {} /\ IsFiniteSet(s.architectures)

ASSUME CoverageAssumption ==
    /\ Steps \in Nat \ {0}
    /\ \A inv \in Inventories : Normalized(inv)

(***************************************************************************)
(* metric: the exact fraction, and its percentage rounded half up to one   *)
(* of Steps; nothing out of nothing is all of it.                          *)
(***************************************************************************)
Metric(n, d) ==
    [n |-> n, d |-> d, p |-> IF d = 0 THEN Steps ELSE (2 * n * Steps + d) \div (2 * d)]

(***************************************************************************)
(* Build.  With official sources the fixture's symbols are only counted as *)
(* excluded.  A bridge is callable when its ABI has been verified.         *)
(***************************************************************************)
Official(inv) == \E s \in inv : ~s.fixture

Counted(inv) == {s \in inv : ~(Official(inv) /\ s.fixture)}

\* A plausible slip: every generated bridge counts as callable.
AllBridges(C) == {s \in C : s.status = "bridge"}

CallableBridges(C) == {s \in C : s.status = "bridge" /\ s.verified}

InStatus(C, S) == {s \in C : s.status \in S}

Build(inv) ==
    LET C == Counted(inv)
        total == Cardinality(C)
        verified == Cardinality({s \in C : s.verified})
        runtime == Cardinality({s \in C : s.runtime})
        bridge == Cardinality(CallableBridges(C))
        count == [ingestion |-> total,
                  accounting |-> Cardinality(InStatus(C, Statuses \ {"unclassified"})),
                  generation |-> Cardinality(InStatus(C, Generated)),
                  purego |-> Cardinality(InStatus(C, {"purego"})),
                  assembly |-> Cardinality(InStatus(C, {"assembly"})), bridge |-> bridge,
                  verified |-> verified, runtime |-> runtime]
    IN  [schema |-> 1, scope |-> IF Official(inv) THEN "official" ELSE "fixture",
         identity |-> TRUE, total |-> total, byMap |-> [m \in Maps |-> total],
         byArchitecture |-> Cardinality(UNION {{s} \X s.architectures : s \in C}),
         byStatus |-> [t \in Statuses |-> Cardinality(InStatus(C, {t}))],
         skips |-> Cardinality(InStatus(C, Statuses \ Generated)),
         excluded |-> Cardinality(inv \ C),
         verified |-> verified, unverified |-> total - verified, mismatches |-> 0,
         runtime |-> runtime, overrides |-> Cardinality({s \in C : s.override}),
         bridge |-> bridge, metrics |-> [m \in Metrics |-> Metric(count[m], total)]]

\* The reports that generations leave.
Reports == {Build(inv) : inv \in Inventories}

-----------------------------------------------------------------------------
GeneratedCount(r) ==
    r.byStatus["purego"] + r.byStatus["assembly"] + r.byStatus["bridge"]
      + r.byStatus["typeOnly"] + r.byStatus["manualOverride"]

\* The sum of byStatus.
StatusCount(r) == GeneratedCount(r) + r.byStatus["unsupported"] + r.byStatus["unclassified"]

\* The counts that each metric of a report must be the fraction of.
MetricCount(r, m) ==
    CASE m = "ingestion" -> r.total
      [] m = "accounting" -> r.total - r.byStatus["unclassified"]
      [] m = "generation" -> GeneratedCount(r)
      [] m = "purego" -> r.byStatus["purego"]
      [] m = "assembly" -> r.byStatus["assembly"]
      [] m = "bridge" -> r.bridge
      [] m = "verified" -> r.verified
      [] m = "runtime" -> r.runtime

\* A plausible slip: metrics are checked against the report's own fractions.
MetricsFitLoosely(r) == \A m \in Metrics : r.metrics[m].d = r.total

MetricsFit(r) == \A m \in Metrics : r.metrics[m] = Metric(MetricCount(r, m), r.total)

(***************************************************************************)
(* ReadCoverage: the file decodes, and Validate accepts the report.        *)
(***************************************************************************)
Valid(r) ==
    /\ r # NoFile
    /\ r.schema = 1 /\ r.scope \in {"official", "fixture"} /\ r.identity
    /\ r.total > 0
    /\ \A m \in Maps : r.byMap[m] = r.total
    /\ StatusCount(r) = r.total /\ \A s \in Statuses : r.byStatus[s] >= 0
    /\ r.byArchitecture >= r.total
    /\ r.excluded >= 0
    /\ r.verified >= 0 /\ r.unverified >= 0 /\ r.verified + r.unverified = r.total
    /\ r.runtime \in 0..r.total /\ r.overrides \in 0..r.total /\ r.mismatches >= 0
    /\ r.bridge \in 0..r.byStatus["bridge"] /\ r.bridge <= r.verified
    /\ r.skips = r.total - GeneratedCount(r)
    /\ MetricsFit(r)

\* A plausible slip: the displayed percentages are compared.
RatioLessAsShown(current, base) == current.p < base.p

\* The exact fractions, compared by cross multiplication.
RatioLess(current, base) == current.n * base.d < base.n * current.d

\* Check with --fail-unclassified, on a report that ReadCoverage accepted.
Accounted(r, failUnclassified) ==
    /\ failUnclassified => r.byStatus["unclassified"] = 0
    /\ r.mismatches = 0
    /\ r.metrics["accounting"].n = r.metrics["accounting"].d

\* Check with --fail-regression.
NotRegressed(r, base) ==
    /\ r.scope = base.scope
    /\ r.total >= base.total
    /\ \A m \in Gated : ~RatioLess(r.metrics[m], base.metrics[m])
    /\ r.mismatches <= base.mismatches

\* Diff, as far as the displayed percentages go.
PercentDelta(before, after) == [m \in Metrics |-> after.metrics[m].p - before.metrics[m].p]

-----------------------------------------------------------------------------
GateInit ==
    /\ latest = NoFile
    /\ baseline = NoFile
    /\ gate = "none"

\* A generation that is written replaces latest.json as a whole.
Generate ==
    /\ latest' \in Reports
    /\ gate' = "none"
    /\ UNCHANGED baseline

\* `baseline --accept`: both ReadCoverage and WriteCoverage validate.  Nothing
\* compares the report with the baseline it replaces.
AcceptBaseline ==
    /\ IF Valid(latest)
         THEN baseline' = latest /\ gate' = "none"
         ELSE gate' = "refused" /\ UNCHANGED baseline
    /\ UNCHANGED latest

(***************************************************************************)
(* What an edit, a bad merge or a stale file can make of a report that was *)
(* built: a count without its fraction, a fraction without its count, a    *)
(* symbol moved from one status to another, a smaller total, another tool's*)
(* unclassified symbols, counted ABI mismatches, or an empty object.       *)
(***************************************************************************)
Edits(r) ==
    {NoFile, [r EXCEPT !.total = @ - 1], [r EXCEPT !.mismatches = 1]}
    \cup {[r EXCEPT !.verified = @ + 1, !.unverified = @ - 1], [r EXCEPT !.bridge = @ + 1]}
    \cup {[r EXCEPT !.metrics[m] = Metric(@.n + 1, @.d)] : m \in {"generation", "purego"}}
    \cup {[r EXCEPT !.metrics[m] = [@ EXCEPT !.n = 0]] : m \in {"purego", "verified"}}
    \cup {[r EXCEPT !.byStatus["unclassified"] = r.byStatus[t], !.byStatus[t] = 0,
                    !.metrics["accounting"] = Metric(r.total - r.byStatus[t], r.total)] :
            t \in Skipped}

Built(r) == r \in Reports

EditReport ==
    /\ Built(latest)
    /\ latest' \in Edits(latest)
    /\ gate' = "none"
    /\ UNCHANGED baseline

EditBaseline ==
    /\ Built(latest) /\ Built(baseline)
    /\ baseline' \in Edits(baseline)
    /\ gate' = "none"
    /\ UNCHANGED latest

\* `check`, with or without --fail-unclassified.
Check ==
    /\ \E failUnclassified \in BOOLEAN :
         gate' = IF ~Valid(latest) THEN "refused"
                 ELSE IF Accounted(latest, failUnclassified) THEN "accounted" ELSE "failed"
    /\ UNCHANGED <<latest, baseline>>

\* `check --fail-regression`: a baseline that is missing or invalid is refused.
CheckRegression ==
    /\ \E failUnclassified \in BOOLEAN :
         gate' = IF ~Valid(latest) \/ ~Valid(baseline) THEN "refused"
                 ELSE IF Accounted(latest, failUnclassified) /\ NotRegressed(latest, baseline)
                 THEN "passed" ELSE "failed"
    /\ UNCHANGED <<latest, baseline>>

GateNext ==
    \/ Generate \/ AcceptBaseline \/ EditReport \/ EditBaseline
    \/ Check \/ CheckRegression

GateSpec == GateInit /\ [][GateNext]_gateVars
-----------------------------------------------------------------------------
\* The files are absent or decode as reports, whatever their counts.
Reported ==
    [schema : {1}, scope : {"official", "fixture"}, identity : {TRUE}, total : Int,
     byMap : [Maps -> Int], byArchitecture : Int, byStatus : [Statuses -> Int],
     skips : Int, excluded : Int, verified : Int, unverified : Int, mismatches : Int,
     runtime : Int, overrides : Int, bridge : Int,
     metrics : [Metrics -> [n : Int, d : Nat, p : Int]]]

GateTypeOK ==
    /\ gate \in {"none", "refused", "failed", "accounted", "passed"}
    /\ latest \in Reported \cup {NoFile}
    /\ baseline \in Reported \cup {NoFile}

(***************************************************************************)
(* A pass of the regression gate (coverage.go:312-346) means that nothing  *)
(* counted has been lost, in absolute numbers and not only as the ratios   *)
(* it compares: no fewer callable symbols of a backend, no fewer generated,*)
(* ABI-verified or exercised ones, and none unclassified.  It holds of     *)
(* whatever files it was given, as they count symbol by symbol.            *)
(***************************************************************************)
NothingIsLost ==
    gate = "passed" =>
      /\ latest.scope = baseline.scope
      /\ latest.total >= baseline.total
      /\ \A s \in {"purego", "assembly"} : latest.byStatus[s] >= baseline.byStatus[s]
      /\ GeneratedCount(latest) >= GeneratedCount(baseline)
      /\ latest.verified >= baseline.verified
      /\ latest.runtime >= baseline.runtime
      /\ latest.bridge >= baseline.bridge
      /\ latest.byStatus["unclassified"] = 0
      /\ \A m \in Gated : PercentDelta(baseline, latest)[m] >= 0

(***************************************************************************)
(* The accounting never stands in its own way: a report of a generation    *)
(* that found any symbol is one ReadCoverage accepts (coverage.go:136-208),*)
(* whatever its inventory, so that a refusal by the gate always means a    *)
(* file somebody changed; and it passes the gate against itself.           *)
(***************************************************************************)
BuiltIsValid ==
    Built(latest) /\ latest.total # 0 =>
      /\ Valid(latest)
      /\ Accounted(latest, TRUE)
      /\ NotRegressed(latest, latest)
=============================================================================
