---------------------------- MODULE ReportProofs ----------------------------
(***************************************************************************)
(* The replacement of a report file, for every set of contents: for a      *)
(* writer alone whatever fails, and for any number of writers that race    *)
(* where nothing fails.  Below it the gate over the coverage reports, for  *)
(* every set of inventories and whatever is edited.                        *)
(***************************************************************************)
EXTENDS ReportFile, CoverageGate, FiniteSetTheorems, TLAPS

(* The types are kept by every step.                                       *)
LEMMA TypeStep == TypeOK /\ [Next]_vars => TypeOK'
<1> SUFFICES ASSUME TypeOK, [Next]_vars PROVE TypeOK'
  OBVIOUS
<1>0. active' \subseteq Writers
  BY DEF Next, vars, TypeOK
<1> USE <1>0 DEF TypeOK, PC, files
<1>1. ASSUME NEW w \in Writers, Begin(w) PROVE TypeOK'
  BY <1>1 DEF Begin
<1>2. ASSUME NEW w \in Writers, WriteTemp(w) \/ Stat(w) \/ CheckBackup(w) \/ CallFails(w) \/ Kill(w)
      PROVE TypeOK'
  BY <1>2 DEF WriteTemp, Stat, CheckBackup, CallFails, Kill, Goto, Return
<1>3. ASSUME NEW w \in Writers, Replace(w) \/ Place(w) \/ Swap(w) PROVE TypeOK'
  BY <1>3 DEF Replace, Place, Swap, Goto, Return
<1>4. ASSUME NEW w \in Writers, SetAside(w) \/ Restore(w) \/ RemoveBackup(w) PROVE TypeOK'
  BY <1>4 DEF SetAside, Restore, RemoveBackup, Goto, Return
<1>5. CASE UNCHANGED vars
  BY <1>5 DEF vars
<1> QED
  BY <1>1, <1>2, <1>3, <1>4, <1>5 DEF Next, Write

(* Every behaviour has the types TypeOK gives.                             *)
THEOREM TypeCorrect == Spec => []TypeOK
<1>1. Init => TypeOK
  BY DEF Init, TypeOK, PC
<1> QED
  BY <1>1, TypeStep, PTL DEF Spec

-----------------------------------------------------------------------------
(* A writer alone: where it is says where the report of before is.             *)
Safe(w) ==
  /\ pc[w] \in {"write", "replace", "stat"} => path = before
  /\ pc[w] = "check" => path = before /\ before # Absent
  /\ pc[w] = "place" => path = Absent /\ before = Absent
  /\ pc[w] = "aside" => path = before /\ before # Absent
  /\ pc[w] \in {"swap", "restore"} => path = Absent /\ old = before /\ before # Absent
  /\ pc[w] = "remove" => path = data[w] /\ old # Absent
  /\ result[w] = "ok" => pc[w] = "idle" /\ path = data[w]
  /\ result[w] = "error" => pc[w] = "idle" /\ (path = data[w] \/ before \in {path, old})

AloneSafe == \A w \in Writers : active = {w} => Safe(w)

(* A writer alone, with any faults and kills, loses no report.             *)
LEMMA OneWriterStep ==
  ASSUME NEW w \in Writers, active = {w}, TypeOK, Safe(w), [Next]_vars
  PROVE  Safe(w)'
<1> USE DEF TypeOK, PC, Safe, files
<1>1. CASE Begin(w)
  BY <1>1 DEF Begin
<1>2. CASE WriteTemp(w) \/ Replace(w)
  BY <1>2 DEF WriteTemp, Replace, Goto, Return
<1>3. CASE Stat(w) \/ CheckBackup(w) \/ Place(w)
  <2>1. CASE Stat(w)
    <3>1. CASE path = Absent
      BY <2>1, <3>1 DEF Stat, Goto
    <3>2. CASE path # Absent
      BY <2>1, <3>2 DEF Stat, Goto
    <3> QED
      BY <3>1, <3>2
  <2>2. CASE CheckBackup(w)
    BY <2>2 DEF CheckBackup, Goto, Return
  <2>3. CASE Place(w)
    BY <2>3, ReportAssumption DEF Place, Return
  <2> QED
    BY <1>3, <2>1, <2>2, <2>3
<1>4. CASE SetAside(w)
  BY <1>4 DEF SetAside, Goto, Return
<1>5. CASE Swap(w) \/ Restore(w) \/ RemoveBackup(w)
  BY <1>5 DEF Swap, Restore, RemoveBackup, Goto, Return
<1>6. CASE CallFails(w)
  BY <1>6 DEF CallFails, Goto, Return
<1>7. CASE Kill(w)
  BY <1>7 DEF Kill, Return
<1>8. CASE UNCHANGED vars
  BY <1>8 DEF vars
<1> QED
  BY <1>1, <1>2, <1>3, <1>4, <1>5, <1>6, <1>7, <1>8 DEF Next, Write

(* Who runs never changes, so a writer that is alone stays so.             *)
LEMMA AloneInvariant == Spec => []AloneSafe
<1>1. Init => AloneSafe
  BY DEF Init, Safe, AloneSafe
<1>2. TypeOK /\ AloneSafe /\ [Next]_vars => AloneSafe'
  <2> SUFFICES ASSUME TypeOK, AloneSafe, [Next]_vars, NEW w \in Writers, active' = {w}
               PROVE  Safe(w)'
    BY DEF AloneSafe
  <2>1. active' = active
    BY DEF Next, vars
  <2> QED
    BY <2>1, OneWriterStep DEF AloneSafe
<1> QED
  BY <1>1, <1>2, TypeCorrect, PTL DEF Spec

(* The old report of a writer alone survives until the new one is in place,*)
(* through every failure and kill.                                         *)
THEOREM ReportAlwaysSurvives == Spec => []ReportSurvives
<1>1. TypeOK /\ AloneSafe => ReportSurvives
  BY DEF TypeOK, PC, Safe, AloneSafe, ReportSurvives
<1> QED
  BY <1>1, AloneInvariant, TypeCorrect, PTL

(* What a call of a writer alone returns tells what became of the report.  *)
THEOREM ResultIsAlwaysTrue == Spec => []ResultIsTrue
<1>1. AloneSafe => ResultIsTrue
  BY DEF Safe, AloneSafe, ResultIsTrue
<1> QED
  BY <1>1, AloneInvariant, PTL

-----------------------------------------------------------------------------
(* Any number of writers: a backup, and a missing report, always have a    *)
(* writer that will see to them, unless there never was a report.          *)
RaceInv ==
  /\ \A w \in Writers : pc[w] # "restore"
  /\ old # Absent => \E w \in Writers : pc[w] \in {"swap", "remove"}
  /\ \/ path # Absent
     \/ \E w \in Writers : pc[w] = "swap"
     \/ \A w \in Writers : /\ pc[w] \in {"idle", "write", "replace", "stat", "place"}
                           /\ result[w] = "none"

(* Once all writers have returned, whoever raced with whom, the report is  *)
(* there and no backup is.                                                 *)
THEOREM RaceAlwaysSettles == Spec => []RaceSettles
<1> DEFINE Raced == \A w \in Writers : active # {w}
<1>1. Init => RaceInv
  BY DEF Init, RaceInv
<1>2. TypeOK /\ (Raced => RaceInv) /\ [Next]_vars => (Raced => RaceInv)'
  <2> SUFFICES ASSUME TypeOK, Raced => RaceInv, [Next]_vars, Raced' PROVE RaceInv'
    OBVIOUS
  <2>0. Raced /\ RaceInv
    BY DEF Next, vars
  <2> HIDE DEF Raced
  <2> USE ReportAssumption DEF TypeOK, PC, RaceInv, files
  <2>1. ASSUME NEW w \in Writers, Begin(w) PROVE RaceInv'
    BY <2>0, <2>1 DEF Begin
  <2>2. ASSUME NEW w \in Writers, WriteTemp(w) \/ Stat(w) \/ CheckBackup(w) PROVE RaceInv'
    BY <2>0, <2>2 DEF WriteTemp, Stat, CheckBackup, Goto, Return
  <2>3. ASSUME NEW w \in Writers, Replace(w) \/ Place(w) PROVE RaceInv'
    BY <2>0, <2>3 DEF Replace, Place, Goto, Return, Faulty, Raced
  <2>4. ASSUME NEW w \in Writers, SetAside(w) PROVE RaceInv'
    BY <2>0, <2>4 DEF SetAside, Goto, Return
  <2>5. ASSUME NEW w \in Writers, Swap(w) PROVE RaceInv'
    BY <2>0, <2>5 DEF Swap, Goto
  <2>6. ASSUME NEW w \in Writers, RemoveBackup(w) PROVE RaceInv'
    BY <2>0, <2>6 DEF RemoveBackup, Return
  <2>7. ASSUME NEW w \in Writers, Restore(w) \/ CallFails(w) \/ Kill(w) PROVE FALSE
    <3>1. ~Faulty(w)
      BY <2>0, <2>7 DEF Raced, Faulty
    <3> QED
      BY <2>0, <2>7, <3>1 DEF Restore, CallFails, Kill, Return
  <2>8. CASE UNCHANGED vars
    BY <2>0, <2>8 DEF vars
  <2> QED
    BY <2>1, <2>2, <2>3, <2>4, <2>5, <2>6, <2>7, <2>8 DEF Next, Write, TypeOK
<1>3. (Raced => RaceInv) => RaceSettles
  BY DEF RaceInv, RaceSettles, Idle
<1> QED
  BY <1>1, <1>2, <1>3, TypeCorrect, PTL DEF Spec

(* A writer alone never loses the report, and its result is true.          *)
THEOREM ReportStaysSafe == Spec => []ReportIsSafe
BY ReportAlwaysSurvives, ResultIsAlwaysTrue, PTL DEF ReportIsSafe

-----------------------------------------------------------------------------
(* A metric is a fraction with a whole percentage.                         *)
LEMMA MetricType ==
  ASSUME NEW n \in Int, NEW d \in Nat
  PROVE  Metric(n, d) \in [n : Int, d : Nat, p : Int]
<1>1. Steps \in Nat
  BY CoverageAssumption
<1>2. CASE d = 0
  BY <1>1, <1>2 DEF Metric
<1>3. CASE d # 0
  <2>1. 2 * n * Steps + d \in Int /\ 2 * d \in Nat \ {0}
    BY <1>1, <1>3
  <2>2. ((2 * n * Steps + d) \div (2 * d)) \in Int
    BY <2>1
  <2> QED
    BY <1>1, <1>3, <2>2 DEF Metric
<1> QED
  BY <1>2, <1>3

(* A fraction that is not less is of no smaller a number, when it is of no *)
(* smaller a total.                                                        *)
LEMMA CountsGrow ==
  ASSUME NEW n \in Nat, NEW d \in Nat \ {0}, NEW N \in Int, NEW D \in Nat,
         D >= d, N * d >= n * D
  PROVE  N >= n
<1> SUFFICES ASSUME N < n PROVE FALSE
  OBVIOUS
<1>1. n * D >= n * d
  OBVIOUS
<1>2. N * d < n * d
  OBVIOUS
<1>3. n * D \in Int /\ n * d \in Int /\ N * d \in Int
  OBVIOUS
<1> QED
  BY <1>1, <1>2, <1>3

(* A fraction that is not less shows no smaller a percentage.              *)
LEMMA ShownGrows ==
  ASSUME NEW n \in Int, NEW d \in Nat \ {0}, NEW N \in Int, NEW D \in Nat \ {0},
         N * d >= n * D
  PROVE  Metric(N, D).p >= Metric(n, d).p
<1> DEFINE a == 2 * n * Steps + d
           A == 2 * N * Steps + D
           q == a \div (2 * d)
           Q == A \div (2 * D)
<1>0. Steps \in Nat
  BY CoverageAssumption
<1>1. a \in Int /\ A \in Int /\ q \in Int /\ Q \in Int
  BY <1>0
<1>2. q * (2 * d) <= a
  BY <1>0
<1>3. A < (Q + 1) * (2 * D)
  BY <1>0
<1>4. a * D <= A * d
  <2>1. (n * D) * (2 * Steps) <= (N * d) * (2 * Steps)
    BY <1>0
  <2>2. a * D = (n * D) * (2 * Steps) + d * D /\ A * d = (N * d) * (2 * Steps) + d * D
    BY <1>0
  <2> QED
    BY <2>1, <2>2, <1>0
<1>5. SUFFICES ASSUME Q < q PROVE FALSE
  BY <1>1, <1>0 DEF Metric
<1> HIDE DEF a, A, q, Q
<1>6. A < q * (2 * D)
  <2>1. (Q + 1) * (2 * D) <= q * (2 * D)
    BY <1>1, <1>5
  <2> QED
    BY <2>1, <1>1, <1>3
<1>7. A * d < (q * (2 * D)) * d
  BY <1>1, <1>6
<1>8. (q * (2 * d)) * D <= a * D
  BY <1>1, <1>2
<1>9. (q * (2 * D)) * d = (q * (2 * d)) * D
  BY <1>1
<1> QED
  BY <1>1, <1>4, <1>7, <1>8, <1>9

-----------------------------------------------------------------------------
(* What the accounting counts is finite.                                   *)
LEMMA Counts ==
  ASSUME NEW inv \in Inventories
  PROVE  /\ IsFiniteSet(Counted(inv))
         /\ \A S \in SUBSET Counted(inv) :
              /\ IsFiniteSet(S)
              /\ Cardinality(S) \in Nat
              /\ Cardinality(S) <= Cardinality(Counted(inv))
         /\ Cardinality(inv \ Counted(inv)) \in Nat
<1>1. IsFiniteSet(inv)
  BY CoverageAssumption DEF Normalized
<1>2. Counted(inv) \subseteq inv
  BY DEF Counted
<1>3. IsFiniteSet(Counted(inv)) /\ IsFiniteSet(inv \ Counted(inv))
  BY <1>1, <1>2, FS_Subset
<1>4. ASSUME NEW S \in SUBSET Counted(inv)
      PROVE  IsFiniteSet(S) /\ Cardinality(S) \in Nat /\ Cardinality(S) <= Cardinality(Counted(inv))
  BY <1>3, FS_Subset, FS_CardinalityType
<1> QED
  BY <1>3, <1>4, FS_CardinalityType

(* Every symbol counts at least once for an architecture.                  *)
LEMMA ArchitecturesCover ==
  ASSUME NEW inv \in Inventories
  PROVE  LET A == UNION {{s} \X s.architectures : s \in Counted(inv)}
         IN  Cardinality(A) \in Nat /\ Cardinality(A) >= Cardinality(Counted(inv))
<1> DEFINE C == Counted(inv)
           A == UNION {{s} \X s.architectures : s \in C}
<1>1. IsFiniteSet(C)
  BY Counts
<1>2. \A s \in C : s.architectures # {} /\ IsFiniteSet(s.architectures)
  BY CoverageAssumption DEF Normalized, Counted
<1> HIDE DEF C
<1>3. IsFiniteSet(A)
  <2> DEFINE F == {{s} \X s.architectures : s \in C}
  <2>1. IsFiniteSet(F)
    <3> DEFINE f == [s \in C |-> {s} \X s.architectures]
    <3>1. f \in Surjection(C, F)
      BY DEF Surjection
    <3> QED
      BY <1>1, <3>1, FS_Surjection
  <2>2. ASSUME NEW G \in F PROVE IsFiniteSet(G)
    <3>1. PICK s \in C : G = {s} \X s.architectures
      OBVIOUS
    <3> QED
      BY <3>1, <1>2, FS_Singleton, FS_Product
  <2> HIDE DEF F
  <2>3. IsFiniteSet(UNION F)
    BY <2>1, <2>2, FS_UNION
  <2> QED
    BY <2>3 DEF F
<1> DEFINE g == [p \in A |-> p[1]]
<1>4. g \in Surjection(A, C)
  <2>1. \A p \in A : p[1] \in C
    OBVIOUS
  <2>2. \A s \in C : \E p \in A : p[1] = s
    <3> SUFFICES ASSUME NEW s \in C PROVE \E p \in A : p[1] = s
      OBVIOUS
    <3>1. PICK a : a \in s.architectures
      BY <1>2
    <3>2. <<s, a>> \in A
      BY <3>1
    <3> QED
      BY <3>2
  <2> HIDE DEF A
  <2> QED
    BY <2>1, <2>2 DEF Surjection
<1> HIDE DEF A, g
<1>5. Cardinality(C) <= Cardinality(A)
  BY <1>3, <1>4, FS_Surjection
<1>6. Cardinality(A) \in Nat /\ Cardinality(C) \in Nat
  BY <1>1, <1>3, FS_CardinalityType
<1> QED
  BY <1>5, <1>6 DEF A, C

(* A symbol has one status, so the statuses divide what is counted.        *)
LEMMA StatusesDivide ==
  ASSUME NEW C, IsFiniteSet(C), NEW S, NEW t, t \notin S
  PROVE  /\ Cardinality(InStatus(C, S \cup {t})) =
              Cardinality(InStatus(C, S)) + Cardinality(InStatus(C, {t}))
         /\ Cardinality(InStatus(C, S)) \in Nat
         /\ Cardinality(InStatus(C, {t})) \in Nat
<1>1. /\ InStatus(C, S \cup {t}) = InStatus(C, S) \cup InStatus(C, {t})
      /\ InStatus(C, S) \cap InStatus(C, {t}) = {}
      /\ InStatus(C, S) \subseteq C /\ InStatus(C, {t}) \subseteq C
  BY DEF InStatus
<1>2. IsFiniteSet(InStatus(C, S)) /\ IsFiniteSet(InStatus(C, {t}))
  BY <1>1, FS_Subset
<1> DEFINE X == InStatus(C, S)
           Y == InStatus(C, {t})
<1> HIDE DEF X, Y
<1>3. Cardinality(X \cup Y) = Cardinality(X) + Cardinality(Y) - Cardinality(X \cap Y)
  BY <1>2, FS_Union DEF X, Y
<1>4. Cardinality(X) \in Nat /\ Cardinality(Y) \in Nat
  BY <1>2, FS_CardinalityType DEF X, Y
<1>5. X \cap Y = {} /\ Cardinality(X \cap Y) = 0
  BY <1>1, FS_EmptySet DEF X, Y
<1>6. Cardinality(X \cup Y) = Cardinality(X) + Cardinality(Y)
  BY <1>3, <1>4, <1>5
<1> QED
  BY <1>1, <1>4, <1>6 DEF X, Y

(* The statuses of a normalized inventory sum up to what is counted, those *)
(* that are generated to what is generated, and none is unclassified.      *)
LEMMA StatusesSum ==
  ASSUME NEW inv \in Inventories, NEW r, r = Build(inv)
  PROVE  LET C == Counted(inv)
         IN  /\ r.byStatus \in [Statuses -> Nat]
             /\ r.byStatus["unclassified"] = 0
             /\ Cardinality(InStatus(C, Statuses \ {"unclassified"})) = Cardinality(C)
             /\ Cardinality(InStatus(C, Generated)) = GeneratedCount(r)
             /\ Cardinality(InStatus(C, Statuses \ Generated)) = Cardinality(C) - GeneratedCount(r)
             /\ StatusCount(r) = Cardinality(C)
             /\ GeneratedCount(r) \in Nat
<1> DEFINE C == Counted(inv)
           N(S) == Cardinality(InStatus(C, S))
<1>1. IsFiniteSet(C) /\ Cardinality(C) \in Nat
  BY Counts, FS_CardinalityType
<1>2. \A s \in C : s.status \in Statuses \ {"unclassified"}
  BY CoverageAssumption DEF Normalized, Counted
<1>3. r.byStatus = [t \in Statuses |-> N({t})]
  BY DEF Build
<1> HIDE DEF C
<1>4. /\ InStatus(C, Statuses \ {"unclassified"}) = C
      /\ InStatus(C, Statuses \ Generated) = InStatus(C, {"unsupported"})
      /\ InStatus(C, {"unclassified"}) = {}
      /\ InStatus(C, Generated \cup {"unsupported"}) = C
  BY <1>2 DEF InStatus, Statuses, Generated, Callable, Skipped
<1>5. N({"unclassified"}) = 0
  BY <1>4, FS_EmptySet
<1>6. \A S : N(S) \in Nat
  BY <1>1, FS_Subset, FS_CardinalityType DEF InStatus
<1>7. \A S, t : t \notin S => N(S \cup {t}) = N(S) + N({t})
  BY <1>1, StatusesDivide
<1>8. N(Statuses \ Generated) = N({"unsupported"}) /\ N(Generated \cup {"unsupported"}) = Cardinality(C)
  BY <1>4
<1> HIDE DEF N
<1>9. N({"purego", "assembly"}) = N({"purego"}) + N({"assembly"})
  <2>1. {"purego", "assembly"} = {"purego"} \cup {"assembly"}
    OBVIOUS
  <2> QED
    BY <2>1, <1>7
<1>10. N(Callable) = N({"purego", "assembly"}) + N({"bridge"})
  <2>1. Callable = {"purego", "assembly"} \cup {"bridge"}
    BY DEF Callable
  <2> QED
    BY <2>1, <1>7
<1>11. N(Generated) = N(Callable) + N({"typeOnly"}) + N({"manualOverride"})
  <2>1. Generated = (Callable \cup {"typeOnly"}) \cup {"manualOverride"}
    BY DEF Generated
  <2>2. "typeOnly" \notin Callable /\ "manualOverride" \notin Callable \cup {"typeOnly"}
    BY DEF Callable
  <2>3. N(Callable \cup {"typeOnly"}) = N(Callable) + N({"typeOnly"})
    BY <2>2, <1>7
  <2>4. N(Generated) = N(Callable \cup {"typeOnly"}) + N({"manualOverride"})
    BY <2>1, <2>2, <1>7
  <2> QED
    BY <2>3, <2>4
<1>12. Cardinality(C) = N(Generated) + N({"unsupported"})
  <2>1. "unsupported" \notin Generated
    BY DEF Generated, Callable
  <2> QED
    BY <2>1, <1>7, <1>8
<1>13. /\ r.byStatus["purego"] = N({"purego"}) /\ r.byStatus["assembly"] = N({"assembly"})
       /\ r.byStatus["bridge"] = N({"bridge"}) /\ r.byStatus["typeOnly"] = N({"typeOnly"})
       /\ r.byStatus["manualOverride"] = N({"manualOverride"})
       /\ r.byStatus["unsupported"] = N({"unsupported"})
       /\ r.byStatus["unclassified"] = 0
  BY <1>3, <1>5 DEF Statuses, Generated, Callable, Skipped
<1>14. GeneratedCount(r) = N(Generated) /\ GeneratedCount(r) \in Nat
  <2>1. GeneratedCount(r) = N({"purego"}) + N({"assembly"}) + N({"bridge"})
                              + N({"typeOnly"}) + N({"manualOverride"})
    BY <1>13 DEF GeneratedCount
  <2>2. N(Generated) \in Nat
    BY <1>6
  <2> QED
    BY <2>1, <2>2, <1>9, <1>10, <1>11
<1>15. StatusCount(r) = Cardinality(C)
  <2>1. StatusCount(r) = N(Generated) + N({"unsupported"}) + 0
    BY <1>13, <1>14 DEF StatusCount
  <2> QED
    BY <2>1, <1>1, <1>12
<1>16. N(Statuses \ Generated) = Cardinality(C) - GeneratedCount(r)
  <2>1. N(Generated) \in Nat /\ N({"unsupported"}) \in Nat
    BY <1>6
  <2> QED
    BY <2>1, <1>8, <1>12, <1>14
<1>17. r.byStatus \in [Statuses -> Nat]
  BY <1>3, <1>6
<1>18. N(Statuses \ {"unclassified"}) = Cardinality(C)
  BY <1>4 DEF N
<1> QED
  BY <1>13, <1>14, <1>15, <1>16, <1>17, <1>18 DEF C, N

(* The numbers of a report that was built, and what they are fractions of. *)
Consistent(r) ==
  /\ r.schema = 1 /\ r.scope \in {"official", "fixture"} /\ r.identity = TRUE
  /\ r.total \in Nat /\ r.byMap = [m \in Maps |-> r.total]
  /\ r.byArchitecture \in Nat /\ r.byArchitecture >= r.total
  /\ r.skips = r.total - GeneratedCount(r) /\ r.excluded \in Nat
  /\ r.verified \in 0..r.total /\ r.unverified = r.total - r.verified
  /\ r.runtime \in 0..r.total /\ r.overrides \in 0..r.total /\ r.mismatches = 0
  /\ r.bridge \in 0..r.byStatus["bridge"] /\ r.bridge <= r.verified
  /\ r.byStatus \in [Statuses -> Nat] /\ r.byStatus["unclassified"] = 0
  /\ GeneratedCount(r) \in Nat /\ StatusCount(r) = r.total
  /\ MetricsFit(r)

LEMMA BuiltIsConsistent ==
  ASSUME NEW inv \in Inventories, NEW r, r = Build(inv)
  PROVE  Consistent(r)
<1> DEFINE C == Counted(inv)
           A == UNION {{s} \X s.architectures : s \in C}
<1>1. /\ Cardinality(C) \in Nat /\ Cardinality(inv \ C) \in Nat
      /\ \A S \in SUBSET C : IsFiniteSet(S) /\ Cardinality(S) \in 0..Cardinality(C)
  <2>1. Cardinality(C) \in Nat
    BY Counts
  <2> QED
    BY <2>1, Counts
<1>2. Cardinality(A) \in Nat /\ Cardinality(A) >= Cardinality(C)
  BY ArchitecturesCover
<1>3. /\ r.byStatus["unclassified"] = 0
      /\ Cardinality(InStatus(C, Statuses \ {"unclassified"})) = Cardinality(C)
      /\ Cardinality(InStatus(C, Generated)) = GeneratedCount(r)
      /\ Cardinality(InStatus(C, Statuses \ Generated)) = Cardinality(C) - GeneratedCount(r)
      /\ StatusCount(r) = Cardinality(C)
      /\ r.byStatus \in [Statuses -> Nat] /\ GeneratedCount(r) \in Nat
  BY StatusesSum
<1>4. /\ r.schema = 1 /\ r.scope \in {"official", "fixture"} /\ r.identity = TRUE
      /\ r.total = Cardinality(C) /\ r.byMap = [m \in Maps |-> Cardinality(C)]
      /\ r.byArchitecture = Cardinality(A)
      /\ r.skips = Cardinality(InStatus(C, Statuses \ Generated))
      /\ r.excluded = Cardinality(inv \ C)
      /\ r.verified = Cardinality({s \in C : s.verified})
      /\ r.unverified = Cardinality(C) - Cardinality({s \in C : s.verified})
      /\ r.mismatches = 0
      /\ r.runtime = Cardinality({s \in C : s.runtime})
      /\ r.overrides = Cardinality({s \in C : s.override})
      /\ r.bridge = Cardinality(CallableBridges(C))
      /\ r.byStatus["purego"] = Cardinality(InStatus(C, {"purego"}))
      /\ r.byStatus["assembly"] = Cardinality(InStatus(C, {"assembly"}))
      /\ r.byStatus["bridge"] = Cardinality(InStatus(C, {"bridge"}))
  BY DEF Build, Statuses, Generated, Callable
<1>5. /\ r.metrics["ingestion"] = Metric(Cardinality(C), Cardinality(C))
      /\ r.metrics["accounting"] =
           Metric(Cardinality(InStatus(C, Statuses \ {"unclassified"})), Cardinality(C))
      /\ r.metrics["generation"] = Metric(Cardinality(InStatus(C, Generated)), Cardinality(C))
      /\ r.metrics["purego"] = Metric(Cardinality(InStatus(C, {"purego"})), Cardinality(C))
      /\ r.metrics["assembly"] = Metric(Cardinality(InStatus(C, {"assembly"})), Cardinality(C))
      /\ r.metrics["bridge"] = Metric(Cardinality(CallableBridges(C)), Cardinality(C))
      /\ r.metrics["verified"] = Metric(Cardinality({s \in C : s.verified}), Cardinality(C))
      /\ r.metrics["runtime"] = Metric(Cardinality({s \in C : s.runtime}), Cardinality(C))
  BY DEF Build, Metrics, Gated
<1>6. MetricsFit(r)
  <2>1. r.total - r.byStatus["unclassified"] = Cardinality(C)
    BY <1>1, <1>3, <1>4
  <2> QED
    BY <2>1, <1>3, <1>4, <1>5 DEF MetricsFit, MetricCount, Metrics, Gated
<1>7. /\ r.verified \in 0..r.total /\ r.runtime \in 0..r.total /\ r.overrides \in 0..r.total
  <2>1. /\ {s \in C : s.verified} \in SUBSET C /\ {s \in C : s.runtime} \in SUBSET C
        /\ {s \in C : s.override} \in SUBSET C
    OBVIOUS
  <2> HIDE DEF C
  <2> QED
    BY <2>1, <1>1, <1>4
<1>8. r.bridge \in 0..r.byStatus["bridge"] /\ r.bridge <= r.verified
  <2> DEFINE B == CallableBridges(C)
             I == InStatus(C, {"bridge"})
             V == {s \in C : s.verified}
  <2>1. B \subseteq I /\ B \subseteq V /\ B \in SUBSET C /\ I \in SUBSET C /\ V \in SUBSET C
    BY DEF CallableBridges, InStatus
  <2>2. r.bridge = Cardinality(B) /\ r.byStatus["bridge"] = Cardinality(I) /\ r.verified = Cardinality(V)
    BY <1>4
  <2> HIDE DEF B, I, V, C
  <2>3. IsFiniteSet(I) /\ IsFiniteSet(V)
    BY <2>1, <1>1
  <2>4. Cardinality(B) <= Cardinality(I) /\ Cardinality(B) <= Cardinality(V)
    BY <2>1, <2>3, FS_Subset
  <2>5. Cardinality(B) \in Nat /\ Cardinality(I) \in Nat /\ Cardinality(V) \in Nat
    BY <2>1, <1>1
  <2> QED
    BY <2>2, <2>4, <2>5
<1> HIDE DEF C, A
<1> QED
  BY <1>1, <1>2, <1>3, <1>4, <1>6, <1>7, <1>8 DEF Consistent

(* What the metrics count are numbers when the counts are.                 *)
LEMMA CountTypes ==
  ASSUME NEW r, \A s \in Statuses : r.byStatus[s] \in Int /\ r.byStatus[s] >= 0, r.total \in Int, r.verified \in Int, r.runtime \in Int, r.bridge \in Int
  PROVE  GeneratedCount(r) \in Nat /\ \A m \in Metrics : MetricCount(r, m) \in Int
<1>1. /\ r.byStatus["purego"] \in Int /\ r.byStatus["assembly"] \in Int /\ r.byStatus["bridge"] \in Int
      /\ r.byStatus["typeOnly"] \in Int /\ r.byStatus["manualOverride"] \in Int
      /\ r.byStatus["unclassified"] \in Int
  BY DEF Statuses, Generated, Callable
<1>2. /\ r.byStatus["purego"] >= 0 /\ r.byStatus["assembly"] >= 0 /\ r.byStatus["bridge"] >= 0
      /\ r.byStatus["typeOnly"] >= 0 /\ r.byStatus["manualOverride"] >= 0
  BY DEF Statuses, Generated, Callable
<1>3. GeneratedCount(r) \in Nat
  BY <1>1, <1>2 DEF GeneratedCount
<1>4. ASSUME NEW m \in Metrics PROVE MetricCount(r, m) \in Int
  <2>1. GeneratedCount(r) \in Int
    BY <1>3
  <2> QED
    BY <1>1, <2>1 DEF MetricCount, Metrics, Gated
<1> QED
  BY <1>3, <1>4

(* Each of its metrics is the fraction that Validate expects.              *)
LEMMA MetricsTyped ==
  ASSUME NEW r, Consistent(r), NEW m \in Metrics
  PROVE  /\ r.metrics[m] = Metric(MetricCount(r, m), r.total)
         /\ r.metrics[m] \in [n : Int, d : Nat, p : Int]
<1>1. \A s \in Statuses : r.byStatus[s] \in Int
  BY DEF Consistent
<1>2. r.byStatus["purego"] \in Int /\ r.byStatus["assembly"] \in Int /\ r.byStatus["unclassified"] \in Int
  BY <1>1 DEF Statuses, Generated, Callable
<1>3. r.total \in Int /\ GeneratedCount(r) \in Int /\ r.verified \in Int /\ r.runtime \in Int
  BY DEF Consistent
<1>4. r.bridge \in Int
  BY DEF Consistent
<1>5. r.metrics[m] = Metric(MetricCount(r, m), r.total)
  BY DEF Consistent, MetricsFit
<1>6. MetricCount(r, m) \in Int
  BY <1>2, <1>3, <1>4 DEF MetricCount, Metrics, Gated
<1>7. r.total \in Nat
  BY DEF Consistent
<1> QED
  BY <1>5, <1>6, <1>7, MetricType

(* A report of any symbol that was built is valid and passes against       *)
(* itself.                                                                 *)
LEMMA BuiltPasses ==
  ASSUME NEW r, Consistent(r), r.total # 0
  PROVE  Valid(r) /\ Accounted(r, TRUE) /\ NotRegressed(r, r)
<1>1. Valid(r)
  <2>1. r # NoFile
    BY DEF NoFile, Consistent
  <2>2. r.total > 0 /\ r.verified >= 0 /\ r.unverified >= 0 /\ r.verified + r.unverified = r.total
    BY DEF Consistent
  <2>3. r.excluded >= 0 /\ r.mismatches >= 0 /\ \A s \in Statuses : r.byStatus[s] >= 0
    BY DEF Consistent
  <2>4. \A m \in Maps : r.byMap[m] = r.total
    BY DEF Consistent
  <2> QED
    BY <2>1, <2>2, <2>3, <2>4 DEF Consistent, Valid
<1>2. \A m \in Metrics : /\ r.metrics[m] = Metric(MetricCount(r, m), r.total)
                          /\ r.metrics[m] \in [n : Int, d : Nat, p : Int]
  BY MetricsTyped
<1>3. Accounted(r, TRUE)
  <2>1. r.metrics["accounting"] = Metric(r.total - 0, r.total)
    BY <1>2 DEF Consistent, MetricCount, Metrics, Gated
  <2>2. r.metrics["accounting"].n = r.total - 0 /\ r.metrics["accounting"].d = r.total
    BY <2>1 DEF Metric
  <2> QED
    BY <2>2 DEF Accounted, Consistent
<1>4. NotRegressed(r, r)
  <2>1. ASSUME NEW m \in Gated PROVE ~RatioLess(r.metrics[m], r.metrics[m])
    <3>1. r.metrics[m].n \in Int /\ r.metrics[m].d \in Int
      BY <1>2 DEF Metrics
    <3> QED
      BY <3>1 DEF RatioLess
  <2> QED
    BY <2>1 DEF NotRegressed, Consistent
<1> QED
  BY <1>1, <1>3, <1>4
-----------------------------------------------------------------------------
(* What a build leaves is a report.                                        *)
LEMMA BuiltType ==
  ASSUME NEW inv \in Inventories, NEW r, r = Build(inv)
  PROVE  r \in Reported
<1>1. Consistent(r)
  BY BuiltIsConsistent
<1>2. r = [schema |-> r.schema, scope |-> r.scope, identity |-> r.identity, total |-> r.total,
           byMap |-> r.byMap, byArchitecture |-> r.byArchitecture, byStatus |-> r.byStatus,
           skips |-> r.skips, excluded |-> r.excluded, verified |-> r.verified,
           unverified |-> r.unverified, mismatches |-> r.mismatches, runtime |-> r.runtime,
           overrides |-> r.overrides, bridge |-> r.bridge, metrics |-> r.metrics]
  BY DEF Build
<1>3. r.metrics \in [Metrics -> [n : Int, d : Nat, p : Int]]
  <2>1. DOMAIN r.metrics = Metrics /\ r.metrics = [m \in Metrics |-> r.metrics[m]]
    BY DEF Build
  <2>2. ASSUME NEW m \in Metrics PROVE r.metrics[m] \in [n : Int, d : Nat, p : Int]
    BY <1>1, <2>2, MetricsTyped
  <2> HIDE DEF Consistent
  <2> QED
    BY <2>1, <2>2
<1>4. /\ r.schema \in {1} /\ r.scope \in {"official", "fixture"} /\ r.identity \in {TRUE}
      /\ r.mismatches = 0
  BY <1>1 DEF Consistent
<1>5. r.mismatches \in Int
  BY <1>4
<1>6. r.total \in Int /\ r.byArchitecture \in Int /\ r.excluded \in Int
  BY <1>1 DEF Consistent
<1>7. r.byMap \in [Maps -> Int] /\ r.byStatus \in [Statuses -> Int]
  <2>1. r.byMap = [m \in Maps |-> r.total] /\ r.byStatus \in [Statuses -> Nat]
    BY <1>1 DEF Consistent
  <2> QED
    BY <2>1, <1>6
<1>8. /\ r.verified \in Int /\ r.unverified \in Int /\ r.runtime \in Int /\ r.overrides \in Int
      /\ r.skips \in Int
  BY <1>1 DEF Consistent
<1>9. r.bridge \in Int
  BY <1>1 DEF Consistent
<1> QED
  BY <1>2, <1>3, <1>4, <1>5, <1>6, <1>7, <1>8, <1>9 DEF Reported

(* So is what an edit makes of a report that was built.                    *)
LEMMA EditType ==
  ASSUME NEW r \in Reported, r.total \in Nat, NEW e \in Edits(r)
  PROVE  e \in Reported \cup {NoFile}
<1>1. /\ r.total \in Int /\ r.verified \in Int /\ r.unverified \in Int /\ r.bridge \in Int
      /\ r.byStatus \in [Statuses -> Int] /\ r.metrics \in [Metrics -> [n : Int, d : Nat, p : Int]]
  BY DEF Reported
<1>2. CASE e \in {NoFile, [r EXCEPT !.total = @ - 1], [r EXCEPT !.mismatches = 1]}
  <2>1. [r EXCEPT !.total = @ - 1] \in Reported
    <3>1. r.total - 1 \in Int
      BY <1>1
    <3> QED
      BY <3>1 DEF Reported
  <2>2. ASSUME NEW i \in Int PROVE [r EXCEPT !.mismatches = i] \in Reported
    BY DEF Reported
  <2> QED
    BY <1>2, <2>1, <2>2
<1>3. CASE e \in {[r EXCEPT !.verified = @ + 1, !.unverified = @ - 1], [r EXCEPT !.bridge = @ + 1]}
  <2>1. r.verified + 1 \in Int /\ r.unverified - 1 \in Int /\ r.bridge + 1 \in Int
    BY <1>1
  <2>2. [r EXCEPT !.verified = @ + 1, !.unverified = @ - 1] \in Reported
    BY <2>1 DEF Reported
  <2>3. [r EXCEPT !.bridge = @ + 1] \in Reported
    BY <2>1 DEF Reported
  <2> QED
    BY <1>3, <2>2, <2>3
<1>4. CASE e \in {[r EXCEPT !.metrics[m] = Metric(@.n + 1, @.d)] : m \in {"generation", "purego"}}
  <2>1. PICK m \in {"generation", "purego"} : e = [r EXCEPT !.metrics[m] = Metric(@.n + 1, @.d)]
    BY <1>4
  <2>2. m \in Metrics
    BY DEF Metrics, Gated
  <2>3. r.metrics[m].n + 1 \in Int /\ r.metrics[m].d \in Nat
    BY <1>1, <2>2 DEF Reported
  <2>4. Metric(r.metrics[m].n + 1, r.metrics[m].d) \in [n : Int, d : Nat, p : Int]
    BY <2>3, MetricType
  <2> QED
    BY <1>1, <2>1, <2>2, <2>4 DEF Reported
<1>5. CASE e \in {[r EXCEPT !.metrics[m] = [@ EXCEPT !.n = 0]] : m \in {"purego", "verified"}}
  <2>1. PICK m \in {"purego", "verified"} : e = [r EXCEPT !.metrics[m] = [@ EXCEPT !.n = 0]]
    BY <1>5
  <2>2. m \in Metrics
    BY DEF Metrics, Gated
  <2>3. [r.metrics[m] EXCEPT !.n = 0] \in [n : Int, d : Nat, p : Int]
    BY <1>1, <2>2 DEF Reported
  <2> QED
    BY <1>1, <2>1, <2>2, <2>3 DEF Reported
<1>6. CASE e \in {[r EXCEPT !.byStatus["unclassified"] = r.byStatus[t], !.byStatus[t] = 0,
                           !.metrics["accounting"] = Metric(r.total - r.byStatus[t], r.total)] :
                    t \in Skipped}
  <2>1. PICK t \in Skipped :
          e = [r EXCEPT !.byStatus["unclassified"] = r.byStatus[t], !.byStatus[t] = 0,
                        !.metrics["accounting"] = Metric(r.total - r.byStatus[t], r.total)]
    BY <1>6
  <2>2. t \in Statuses /\ "unclassified" \in Statuses /\ "accounting" \in Metrics
    BY DEF Statuses, Metrics, Gated
  <2>3. r.byStatus[t] \in Int /\ r.total - r.byStatus[t] \in Int
    BY <1>1, <2>2
  <2> DEFINE M == Metric(r.total - r.byStatus[t], r.total)
             B == [r.byStatus EXCEPT !["unclassified"] = r.byStatus[t], ![t] = 0]
             N == [r.metrics EXCEPT !["accounting"] = M]
  <2>4. M \in [n : Int, d : Nat, p : Int]
    BY <2>3, MetricType
  <2>5. e = [r EXCEPT !.byStatus = B, !.metrics = N]
    BY <2>1
  <2> HIDE DEF M
  <2>6. B \in [Statuses -> Int] /\ N \in [Metrics -> [n : Int, d : Nat, p : Int]]
    BY <1>1, <2>2, <2>3, <2>4
  <2> HIDE DEF B, N
  <2> QED
    BY <2>5, <2>6 DEF Reported
<1> QED
  BY <1>2, <1>3, <1>4, <1>5, <1>6 DEF Edits

(* The files are reports, and a pass was said of the files as they are.    *)
GateInv ==
  /\ GateTypeOK
  /\ gate = "passed" =>
       /\ Valid(latest) /\ Valid(baseline)
       /\ Accounted(latest, FALSE) /\ NotRegressed(latest, baseline)

(* Every command keeps both.                                               *)
LEMMA GateStep == GateInv /\ [GateNext]_gateVars => GateInv'
<1> SUFFICES ASSUME GateInv, [GateNext]_gateVars PROVE GateInv'
  OBVIOUS
<1>0. GateTypeOK
  BY DEF GateInv
<1>1. CASE Generate
  <2>1. PICK inv \in Inventories : latest' = Build(inv)
    BY <1>1 DEF Generate, Reports
  <2>2. latest' \in Reported
    BY <2>1, BuiltType
  <2> QED
    BY <1>0, <1>1, <2>2 DEF Generate, GateInv, GateTypeOK
<1>2. CASE AcceptBaseline
  BY <1>0, <1>2 DEF AcceptBaseline, GateInv, GateTypeOK
<1>3. CASE EditReport
  <2>1. PICK inv \in Inventories : latest = Build(inv)
    BY <1>3 DEF EditReport, Built, Reports
  <2>2. latest' \in Reported \cup {NoFile}
    BY <1>3, <2>1, EditType, BuiltType, BuiltIsConsistent DEF EditReport, Consistent
  <2> QED
    BY <1>0, <1>3, <2>2 DEF EditReport, GateInv, GateTypeOK
<1>4. CASE EditBaseline
  <2>1. PICK inv \in Inventories : baseline = Build(inv)
    BY <1>4 DEF EditBaseline, Built, Reports
  <2>2. baseline' \in Reported \cup {NoFile}
    BY <1>4, <2>1, EditType, BuiltType, BuiltIsConsistent DEF EditBaseline, Consistent
  <2> QED
    BY <1>0, <1>4, <2>2 DEF EditBaseline, GateInv, GateTypeOK
<1>5. CASE Check
  BY <1>0, <1>5 DEF Check, GateInv, GateTypeOK
<1>6. CASE CheckRegression
  <2>1. GateTypeOK'
    BY <1>0, <1>6 DEF CheckRegression, GateTypeOK
  <2>2. ASSUME gate' = "passed"
        PROVE  /\ Valid(latest) /\ Valid(baseline)
               /\ Accounted(latest, FALSE) /\ NotRegressed(latest, baseline)
    BY <1>6, <2>2 DEF CheckRegression, Accounted
  <2>3. UNCHANGED <<latest, baseline>>
    BY <1>6 DEF CheckRegression
  <2>4. Valid(latest') = Valid(latest) /\ Valid(baseline') = Valid(baseline)
    BY <2>3
  <2> QED
    BY <2>1, <2>2, <2>3 DEF GateInv
<1>7. CASE UNCHANGED gateVars
  BY <1>0, <1>7 DEF gateVars, GateInv, GateTypeOK
<1> QED
  BY <1>1, <1>2, <1>3, <1>4, <1>5, <1>6, <1>7 DEF GateNext

(* A valid report's metric is a fraction of its total, by its own counts.   *)
LEMMA ValidNumbers ==
  ASSUME NEW r, r \in Reported, Valid(r)
  PROVE  /\ r.total \in Nat \ {0}
         /\ \A s \in Statuses : r.byStatus[s] \in Nat
         /\ GeneratedCount(r) \in Nat /\ r.verified \in Nat /\ r.runtime \in Nat /\ r.bridge \in Nat
         /\ \A m \in Metrics : MetricCount(r, m) \in Int /\ r.metrics[m] = Metric(MetricCount(r, m), r.total)
<1>1. r.total \in Nat \ {0}
  BY DEF Reported, Valid
<1>2. \A s \in Statuses : r.byStatus[s] \in Nat
  BY DEF Reported, Valid
<1>3. r.verified \in Nat /\ r.runtime \in Nat /\ r.bridge \in Nat
  BY DEF Reported, Valid
<1>4. /\ \A s \in Statuses : r.byStatus[s] \in Int /\ r.byStatus[s] >= 0
      /\ r.total \in Int /\ r.verified \in Int /\ r.runtime \in Int /\ r.bridge \in Int
  BY <1>1, <1>2, <1>3
<1>5. GeneratedCount(r) \in Nat /\ \A m \in Metrics : MetricCount(r, m) \in Int
  BY <1>4, CountTypes
<1>6. \A m \in Metrics : r.metrics[m] = Metric(MetricCount(r, m), r.total)
  BY DEF Valid, MetricsFit
<1> QED
  BY <1>1, <1>2, <1>3, <1>5, <1>6

(* What the gate passes is no fewer of each count, and none unclassified.  *)
LEMMA PassKeepsCounts ==
  ASSUME NEW r \in Reported, NEW b \in Reported, Valid(r), Valid(b),
         Accounted(r, FALSE), NotRegressed(r, b)
  PROVE  /\ r.byStatus["purego"] >= b.byStatus["purego"]
         /\ r.byStatus["assembly"] >= b.byStatus["assembly"]
         /\ GeneratedCount(r) >= GeneratedCount(b)
         /\ r.verified >= b.verified /\ r.runtime >= b.runtime /\ r.bridge >= b.bridge
         /\ r.byStatus["unclassified"] = 0
         /\ \A m \in Gated : PercentDelta(b, r)[m] >= 0
<1>1. r.total \in Nat \ {0} /\ b.total \in Nat \ {0} /\ r.total >= b.total
  BY ValidNumbers DEF NotRegressed
<1>2. ASSUME NEW m \in Gated
      PROVE  /\ MetricCount(r, m) \in Int /\ MetricCount(b, m) \in Int
             /\ r.metrics[m] = Metric(MetricCount(r, m), r.total)
             /\ b.metrics[m] = Metric(MetricCount(b, m), b.total)
             /\ MetricCount(r, m) * b.total >= MetricCount(b, m) * r.total
  <2>1. m \in Metrics
    BY DEF Metrics
  <2>2. /\ MetricCount(r, m) \in Int /\ MetricCount(b, m) \in Int
        /\ r.metrics[m] = Metric(MetricCount(r, m), r.total)
        /\ b.metrics[m] = Metric(MetricCount(b, m), b.total)
    BY <2>1, ValidNumbers
  <2>3. ~RatioLess(r.metrics[m], b.metrics[m])
    BY DEF NotRegressed
  <2>4. ~(MetricCount(r, m) * b.total < MetricCount(b, m) * r.total)
    BY <2>2, <2>3 DEF RatioLess, Metric
  <2>5. MetricCount(r, m) * b.total \in Int /\ MetricCount(b, m) * r.total \in Int
    BY <1>1, <2>2
  <2> QED
    BY <2>2, <2>4, <2>5
<1>3. ASSUME NEW m \in Gated, MetricCount(b, m) \in Nat PROVE MetricCount(r, m) >= MetricCount(b, m)
  BY <1>1, <1>2, <1>3, CountsGrow
<1>4. ASSUME NEW m \in Gated PROVE PercentDelta(b, r)[m] >= 0
  <2>1. Metric(MetricCount(r, m), r.total).p >= Metric(MetricCount(b, m), b.total).p
    BY <1>1, <1>2, ShownGrows
  <2>2. m \in Metrics /\ r.metrics[m].p \in Int /\ b.metrics[m].p \in Int
    BY DEF Metrics, Reported
  <2>3. PercentDelta(b, r)[m] = r.metrics[m].p - b.metrics[m].p
    BY <2>2 DEF PercentDelta
  <2> QED
    BY <1>2, <2>1, <2>2, <2>3
<1>5. "unclassified" \in Statuses /\ "accounting" \in Gated
  BY DEF Statuses, Gated
<1>6. r.byStatus["unclassified"] = 0
  <2>1. r.metrics["accounting"] = Metric(MetricCount(r, "accounting"), r.total)
    BY <1>2, <1>5
  <2>2. MetricCount(r, "accounting") = r.total
    BY <2>1 DEF Accounted, Metric
  <2>3. MetricCount(r, "accounting") = r.total - r.byStatus["unclassified"]
    BY DEF MetricCount
  <2>4. r.byStatus["unclassified"] \in Nat
    BY <1>5, ValidNumbers
  <2> QED
    BY <1>1, <2>2, <2>3, <2>4
<1>7. /\ {"purego", "assembly", "generation", "verified", "runtime", "bridge"} \subseteq Gated
      /\ \A x \in {r, b} : /\ MetricCount(x, "purego") = x.byStatus["purego"]
                           /\ MetricCount(x, "assembly") = x.byStatus["assembly"]
                           /\ MetricCount(x, "generation") = GeneratedCount(x)
                           /\ MetricCount(x, "verified") = x.verified
                           /\ MetricCount(x, "runtime") = x.runtime
                           /\ MetricCount(x, "bridge") = x.bridge
  BY DEF MetricCount, Gated
<1>8. /\ b.byStatus["purego"] \in Nat /\ b.byStatus["assembly"] \in Nat /\ GeneratedCount(b) \in Nat
      /\ b.verified \in Nat /\ b.runtime \in Nat /\ b.bridge \in Nat
  <2>1. "purego" \in Statuses /\ "assembly" \in Statuses
    BY DEF Statuses, Generated, Callable
  <2> QED
    BY <2>1, ValidNumbers
<1> QED
  BY <1>3, <1>4, <1>6, <1>7, <1>8

LEMMA GateCorrect == GateSpec => []GateInv
<1>1. GateInit => GateInv
  BY DEF GateInit, GateInv, GateTypeOK
<1> QED
  BY <1>1, GateStep, PTL DEF GateSpec

(* The coverage files are absent or reports, whatever is edited.           *)
THEOREM GateTypeCorrect == GateSpec => []GateTypeOK
<1>1. GateInv => GateTypeOK
  BY DEF GateInv
<1> QED
  BY <1>1, GateCorrect, PTL

(* A generation that found any symbol never stands in the way of the gate. *)
THEOREM BuildsAreValid == GateSpec => []BuiltIsValid
<1>1. BuiltIsValid
  <2> SUFFICES ASSUME Built(latest), latest.total # 0
               PROVE  Valid(latest) /\ Accounted(latest, TRUE) /\ NotRegressed(latest, latest)
    BY DEF BuiltIsValid
  <2>1. PICK inv \in Inventories : latest = Build(inv)
    BY DEF Built, Reports
  <2> QED
    BY <2>1, BuiltIsConsistent, BuiltPasses
<1> QED
  BY <1>1, PTL

(* A pass of the regression gate means that nothing counted was lost, for  *)
(* any files, and not only by the ratios it compares.                      *)
THEOREM PassMeansNothingLost == GateSpec => []NothingIsLost
<1>1. GateInv => NothingIsLost
  <2> SUFFICES ASSUME GateInv, gate = "passed"
               PROVE  NothingIsLost
    BY DEF NothingIsLost
  <2>1. /\ Valid(latest) /\ Valid(baseline)
        /\ Accounted(latest, FALSE) /\ NotRegressed(latest, baseline)
    BY DEF GateInv
  <2>2. latest \in Reported /\ baseline \in Reported
    BY <2>1 DEF GateInv, GateTypeOK, Valid
  <2>3. latest.scope = baseline.scope /\ latest.total >= baseline.total
    BY <2>1 DEF NotRegressed
  <2> QED
    BY <2>1, <2>2, <2>3, PassKeepsCounts DEF NothingIsLost
<1> QED
  BY <1>1, GateCorrect, PTL
=============================================================================
