--------------------------- MODULE PipelineProofs ---------------------------
(***************************************************************************)
(* The generator pipeline, for any fixture, locked metadata, declarations  *)
(* and overrides: what IDs tell apart, what overrides change, and that IDs *)
(* outlive a new version of the metadata.                                  *)
(***************************************************************************)
EXTENDS Pipeline, FunctionTheorems, FiniteSetTheorems, SequenceTheorems, TLAPS

(* A fresh symbol of a row is a symbol.                                    *)
LEMMA FreshType ==
  ASSUME NEW s \in Source, NEW r, r.decl \in Decl \cup Locked, r.row \in Nat,
         r.value \in [Field -> Value]
  PROVE  Fresh(s, r) \in Symbol
BY DEF Fresh, Symbol, NoOrdinal

(* What the providers return are symbols of their source.                  *)
LEMMA IngestedType ==
  ASSUME TypeOK, NEW s \in Locked
  PROVE  /\ Ingested(s) \subseteq Symbol
         /\ \A x \in Ingested(s) : x.source = s /\ x.ordinal = NoOrdinal /\ x.value = x.raw
<1>1. Fresh(s, [decl |-> s, row |-> 0, value |-> [f \in Field |-> Absent]]) \in Symbol
  <2>1. Absent \in Value
    BY DeclAssumption
  <2> QED
    BY <2>1, FreshType DEF Source
<1>2. ASSUME s \in WinMD, NEW r \in lock[s].rows PROVE Fresh(s, r) \in Symbol
  <2>1. r \in Row
    BY <1>2, RowAssumption DEF TypeOK
  <2> QED
    BY <2>1, FreshType DEF Source, Row
<1>3. ASSUME NEW r PROVE /\ Fresh(s, r).source = s
                         /\ Fresh(s, r).ordinal = NoOrdinal
                         /\ Fresh(s, r).value = Fresh(s, r).raw
  BY DEF Fresh
<1>4. CASE s \in WinMD /\ cache[s] = "verified"
  BY <1>2, <1>3, <1>4 DEF Ingested
<1>5. CASE ~(s \in WinMD /\ cache[s] = "verified")
  <2>1. Sentinel(s) \in Symbol
    BY <1>1 DEF Sentinel
  <2>2. /\ Sentinel(s).source = s
        /\ Sentinel(s).ordinal = NoOrdinal
        /\ Sentinel(s).value = Sentinel(s).raw
    BY <1>3 DEF Sentinel
  <2> QED
    BY <1>5, <2>1, <2>2 DEF Ingested
<1> QED
  BY <1>4, <1>5

(* Numbering duplicates changes nothing but the ordinal.                   *)
LEMMA LowerIsFinite ==
  ASSUME NEW S, S \subseteq Symbol, NEW x \in S,
         \A y, z \in S : y.source = z.source /\ y.row = z.row => y = z
  PROVE  IsFiniteSet({y \in Group(x, S) : y.row < x.row})
<1> DEFINE L == {y \in Group(x, S) : y.row < x.row}
           f == [y \in L |-> y.row]
<1>1. x.row \in Nat /\ \A y \in L : y.row \in Nat
  BY DEF Symbol, Group
<1>2. f \in Injection(L, 0 .. x.row)
  BY <1>1 DEF Injection, IsInjective, Group
<1>3. IsFiniteSet(0 .. x.row)
  BY <1>1, FS_Interval
<1> QED
  BY <1>2, <1>3, FS_Injection

LEMMA OrdinalType ==
  ASSUME NEW S, S \subseteq Symbol, NEW x \in S,
         \A y, z \in S : y.source = z.source /\ y.row = z.row => y = z
  PROVE  Ordinal(x, S) \in Nat
BY LowerIsFinite, FS_CardinalityType DEF Ordinal

\* The rows of an inventory are told apart by source and row number.
RowsDiffer(S) == \A x, y \in S : x.source = y.source /\ x.row = y.row => x = y

(* The pass over the duplicates leaves symbols.                            *)
LEMMA DistinguishedType ==
  ASSUME NEW S, S \subseteq Symbol, RowsDiffer(S)
  PROVE  Distinguished(S) \subseteq Symbol
<1>1. ASSUME NEW x \in S PROVE [x EXCEPT !.ordinal = Ordinal(x, S)] \in Symbol
  <2>1. Ordinal(x, S) \in Nat
    BY OrdinalType DEF RowsDiffer
  <2> QED
    BY <2>1 DEF Symbol
<1> QED
  BY <1>1 DEF Distinguished

(* A symbol comes after the symbols of its group with a smaller row.       *)
LEMMA OrdinalsIncrease ==
  ASSUME NEW S, S \subseteq Symbol, RowsDiffer(S), NEW x \in S, NEW y \in Group(x, S),
         x.row < y.row
  PROVE  Ordinal(x, S) < Ordinal(y, S)
<1> DEFINE L == {z \in Group(x, S) : z.row < x.row}
           M == {z \in Group(y, S) : z.row < y.row}
<1>1. y \in S /\ Group(x, S) = Group(y, S) /\ x \in Group(x, S)
  BY DEF Group
<1>2. \A z \in S : z.row \in Nat
  BY DEF Symbol
<1>3. L \subseteq M /\ x \in M /\ x \notin L
  BY <1>1, <1>2 DEF Group
<1>4. IsFiniteSet(M)
  BY <1>1, LowerIsFinite DEF RowsDiffer
<1>5. Cardinality(L) <= Cardinality(M) /\ Cardinality(L) # Cardinality(M)
  BY <1>3, <1>4, FS_Subset
<1>6. Cardinality(L) \in Nat /\ Cardinality(M) \in Nat
  BY <1>3, <1>4, FS_Subset, FS_CardinalityType
<1>7. Ordinal(x, S) = Cardinality(L) /\ Ordinal(y, S) = Cardinality(M)
  BY DEF Ordinal
<1> HIDE DEF L, M
<1> QED
  BY <1>5, <1>6, <1>7

(* After the pass over the duplicates no two symbols share a stable ID.    *)
LEMMA DistinguishedDiffer ==
  ASSUME NEW S, S \subseteq Symbol, RowsDiffer(S), \A x \in S : x.ordinal = NoOrdinal
  PROVE  ~Collide(Distinguished(S))
<1> DEFINE D(x) == IF Group(x, S) # {x} THEN [x EXCEPT !.ordinal = Ordinal(x, S)] ELSE x
<1>1. ASSUME NEW x \in S
      PROVE  /\ D(x).source = x.source /\ D(x).decl = x.decl
             /\ D(x).ordinal = IF Group(x, S) # {x} THEN Ordinal(x, S) ELSE NoOrdinal
  BY DEF Symbol
<1>2. SUFFICES ASSUME NEW x \in S, NEW y \in S, x # y,
                      StableID(D(x)) = StableID(D(y))
               PROVE  FALSE
  BY DEF Collide, Distinguished
<1>3. x.source = y.source /\ x.decl = y.decl /\ D(x).ordinal = D(y).ordinal
  BY <1>1, <1>2 DEF StableID
<1>4. y \in Group(x, S) /\ x \in Group(y, S)
  BY <1>3 DEF Group
<1>5. Ordinal(x, S) = Ordinal(y, S)
  <2>1. Group(x, S) # {x} /\ Group(y, S) # {y}
    BY <1>2, <1>4
  <2> HIDE DEF D
  <2> QED
    BY <2>1, <1>1, <1>3
<1>6. x.row \in Nat /\ y.row \in Nat /\ x.row # y.row
  BY <1>2, <1>3 DEF RowsDiffer, Symbol
<1>7. Ordinal(x, S) \in Nat /\ Ordinal(y, S) \in Nat
  BY OrdinalType DEF RowsDiffer
<1>8. CASE x.row < y.row
  BY <1>4, <1>5, <1>7, <1>8, OrdinalsIncrease
<1>9. CASE y.row < x.row
  BY <1>4, <1>5, <1>7, <1>9, OrdinalsIncrease
<1> QED
  BY <1>6, <1>8, <1>9

-----------------------------------------------------------------------------
\* While the inventory is the fixture, it holds rows of the fixture only.
IsFixture(S) ==
  /\ RowsDiffer(S)
  /\ \A x \in S : x.source = Fixture /\ x.ordinal = NoOrdinal

\* Every symbol has its ID.
Identified(S) == \A x \in S : x.id \in Id

\* What is in memory at each stage of a run, and what it leaves.
InMemory ==
  /\ at \in {"fixture", "ingest"} => IsFixture(symbols)
  /\ at = "override" => ~Collide(symbols)
  /\ at = "write" => Identified(symbols)
  /\ Identified(published)

\* Everything that is to be appended to the fixture.
Appended == UNION {Ingested(s) : s \in Locked}

(* Normalization leaves symbols with the same rows, in the same groups.    *)
LEMMA NormalizedKeeps ==
  ASSUME NEW S, S \subseteq Symbol
  PROVE  /\ Normalized(S) \subseteq Symbol
         /\ IsFixture(S) => IsFixture(Normalized(S))
         /\ ~Collide(S) => ~Collide(Normalized(S))
         /\ Identified(Normalized(S))
<1> DEFINE N(x) == [x EXCEPT !.id = StableID(x)]
<1>1. ASSUME NEW x \in S
      PROVE  /\ N(x) \in Symbol
             /\ N(x).id \in Id
             /\ N(x).source = x.source /\ N(x).row = x.row /\ N(x).decl = x.decl
             /\ N(x).ordinal = x.ordinal
  <2>1. StableID(x) \in Id
    BY DEF Symbol, StableID, Id
  <2> QED
    BY <2>1 DEF Symbol
<1>2. Normalized(S) = {N(x) : x \in S}
  BY DEF Normalized
<1>3. \A x \in S : StableID(N(x)) = StableID(x)
  BY <1>1 DEF StableID
<1> HIDE DEF N
<1>4. Normalized(S) \subseteq Symbol
  BY <1>1, <1>2
<1>5. IsFixture(S) => IsFixture(Normalized(S))
  BY <1>1, <1>2 DEF IsFixture, RowsDiffer
<1>6. ~Collide(S) => ~Collide(Normalized(S))
  BY <1>2, <1>3 DEF Collide
<1>7. Identified(Normalized(S))
  BY <1>1, <1>2 DEF Identified
<1> QED
  BY <1>4, <1>5, <1>6, <1>7

(* The fixture with everything appended is a set of unnumbered symbols.    *)
LEMMA AppendedType ==
  ASSUME TypeOK, IsFixture(symbols)
  PROVE  /\ symbols \cup Appended \subseteq Symbol
         /\ RowsDiffer(symbols \cup Appended)
         /\ \A x \in symbols \cup Appended : x.ordinal = NoOrdinal
<1>1. symbols \subseteq Symbol
  BY DEF TypeOK
<1>2. \A x \in Appended : x \in Symbol /\ x.ordinal = NoOrdinal /\ x.source \in Locked
  BY IngestedType DEF Appended
<1>3. ASSUME NEW s \in Locked, NEW x \in Ingested(s), NEW y \in Ingested(s), x.row = y.row
      PROVE  x = y
  <2>1. CASE s \in WinMD /\ cache[s] = "verified"
    <3>1. PICK q \in lock[s].rows : x = Fresh(s, q)
      BY <2>1 DEF Ingested
    <3>2. PICK r \in lock[s].rows : y = Fresh(s, r)
      BY <2>1 DEF Ingested
    <3>3. lock[s].rows \in Contents
      BY <2>1 DEF TypeOK
    <3>4. q.row = r.row
      BY <1>3, <3>1, <3>2 DEF Fresh
    <3> QED
      BY <3>1, <3>2, <3>3, <3>4, RowAssumption
  <2>2. CASE ~(s \in WinMD /\ cache[s] = "verified")
    BY <2>2 DEF Ingested
  <2> QED
    BY <2>1, <2>2
<1>4. RowsDiffer(Appended)
  <2> SUFFICES ASSUME NEW x \in Appended, NEW y \in Appended, x.source = y.source, x.row = y.row
               PROVE  x = y
    BY DEF RowsDiffer
  <2>1. x \in Ingested(x.source) /\ y \in Ingested(x.source) /\ x.source \in Locked
    BY IngestedType DEF Appended
  <2> QED
    BY <2>1, <1>3
<1>5. Fixture \notin Locked
  BY SourceAssumption DEF Fixture
<1> QED
  BY <1>1, <1>2, <1>4, <1>5 DEF IsFixture, RowsDiffer

(* What an override lists are fields, with values.                         *)
LEMMA ListedFields ==
  ASSUME NEW p \in Fields
  PROVE  \A f \in DOMAIN p : f \in Field /\ p[f] \in Value
<1>1. PICK F \in SUBSET Field : p \in [F -> Value]
  BY DEF Fields
<1> QED
  BY <1>1

(* An override replaces a symbol by one with the same identity.            *)
LEMMA ReplacedKeeps ==
  ASSUME NEW x \in Symbol, NEW o \in Override
  PROVE  /\ Replaced(x, o) \in Symbol
         /\ StableID(Replaced(x, o)) = StableID(x)
         /\ Replaced(x, o).id = x.id
         /\ Replaced(x, o).decl = x.decl
         /\ Replaced(x, o).source = x.source
         /\ Replaced(x, o).raw = x.raw
         /\ Replaced(x, o).manual
         /\ \A f \in DOMAIN o.after : Replaced(x, o).value[f] = o.after[f]
         /\ \A f \in Field : f \notin DOMAIN o.after => Replaced(x, o).value[f] = x.value[f]
<1>1. \A f \in DOMAIN o.after : f \in Field /\ o.after[f] \in Value
  BY ListedFields DEF Override
<1>2. x.value \in [Field -> Value]
  BY DEF Symbol
<1>3. /\ Merged(x.value, o.after) \in [Field -> Value]
      /\ \A f \in Field : Merged(x.value, o.after)[f] = IF f \in DOMAIN o.after THEN o.after[f] ELSE x.value[f]
  BY <1>1, <1>2 DEF Merged
<1>4. /\ Replaced(x, o) \in Symbol
      /\ Replaced(x, o).value = Merged(x.value, o.after)
  BY <1>3 DEF Symbol, Replaced
<1>5. /\ StableID(Replaced(x, o)) = StableID(x)
      /\ Replaced(x, o).id = x.id
      /\ Replaced(x, o).decl = x.decl
      /\ Replaced(x, o).source = x.source
      /\ Replaced(x, o).raw = x.raw
      /\ Replaced(x, o).manual
  BY DEF Symbol, Replaced, StableID
<1> QED
  BY <1>1, <1>3, <1>4, <1>5

(* The override about to be applied is one.                                *)
LEMMA NextOverride ==
  ASSUME TypeOK, next <= Len(overrides)
  PROVE  overrides[next] \in Override
BY DEF TypeOK

(* The types are kept by every step, given what is in memory.              *)
LEMMA TypeStep == TypeOK /\ InMemory /\ [Next]_vars => TypeOK'
<1> SUFFICES ASSUME TypeOK, InMemory, [Next]_vars PROVE TypeOK'
  OBVIOUS
<1>1. ASSUME NEW reason \in Result, Return(reason) PROVE TypeOK'
  <2>1. /\ at' = "idle" /\ all' = FALSE /\ symbols' = {} /\ next' = 1 /\ result' = reason
        /\ UNCHANGED <<lock, cache, overrides, published>>
    BY <1>1 DEF Return, inputs
  <2>2. at' \in Stage /\ next' \in Nat \ {0} /\ result' \in Result
    BY <1>1, <2>1 DEF Stage
  <2>3. all' \in BOOLEAN
    BY <2>1
  <2>4. symbols' \subseteq Symbol
    BY <2>1
  <2> QED
    BY <2>1, <2>2, <2>3, <2>4 DEF TypeOK
<1>2. CASE Begin
  <2>1. ASSUME NEW F \in Fixtures, NEW r \in F PROVE Fresh(Fixture, r) \in Symbol
    <3>1. r \in Row
      BY RowAssumption
    <3> QED
      BY <3>1, FreshType DEF Row, Source
  <2>2. symbols' \subseteq Symbol
    BY <1>2, <2>1 DEF Begin
  <2> QED
    BY <1>2, <2>2 DEF Begin, inputs, TypeOK, Stage, Result
<1>3. CASE NormalizeFixture
  <2>1. symbols' \subseteq Symbol
    BY <1>3, NormalizedKeeps DEF NormalizeFixture, TypeOK
  <2> QED
    BY <1>3, <2>1 DEF NormalizeFixture, inputs, TypeOK, Stage
<1>4. CASE Ingest
  <2>1. symbols' \subseteq Symbol
    BY <1>4, AppendedType, DistinguishedType DEF Ingest, Appended, InMemory
  <2> QED
    BY <1>4, <2>1 DEF Ingest, inputs, TypeOK, Stage
<1>5. CASE IngestFails
  BY <1>5, <1>1 DEF IngestFails, Result
<1>6. CASE ApplyOverride
  <2>1. symbols' \subseteq Symbol
    <3>1. PICK x \in symbols : symbols' = (symbols \ {x}) \cup {Replaced(x, overrides[next])}
      BY <1>6 DEF ApplyOverride
    <3>2. overrides[next] \in Override
      BY <1>6, NextOverride DEF ApplyOverride
    <3>3. symbols \subseteq Symbol
      BY DEF TypeOK
    <3> QED
      BY <3>1, <3>2, <3>3, ReplacedKeeps
  <2> QED
    BY <1>6, <2>1 DEF ApplyOverride, inputs, TypeOK
<1>7. CASE RefuseOverride
  <2>1. \A o, x : Refusal(o, x) \in Result
    BY DEF Refusal, Result, Reason
  <2> QED
    BY <1>7, <1>1, <2>1 DEF RefuseOverride, Result, Reason
<1>8. CASE Normalize
  <2>1. symbols' \subseteq Symbol
    BY <1>8, NormalizedKeeps DEF Normalize, TypeOK
  <2> QED
    BY <1>8, <2>1 DEF Normalize, inputs, TypeOK, Stage
<1>9. CASE NormalizeFails \/ ReturnUnwritten
  BY <1>9, <1>1 DEF NormalizeFails, ReturnUnwritten, Result
<1>10. CASE Publish
  <2>1. /\ at' = "idle" /\ all' = FALSE /\ symbols' = {} /\ next' = 1 /\ result' = "ok"
        /\ published' = symbols
        /\ UNCHANGED <<lock, cache, overrides>>
    BY <1>10 DEF Publish, inputs
  <2>2. at' \in Stage /\ next' \in Nat \ {0} /\ result' \in Result
    BY <2>1 DEF Stage, Result
  <2>3. all' \in BOOLEAN
    BY <2>1
  <2>4. symbols' \subseteq Symbol
    BY <2>1
  <2>5. published' \subseteq Symbol
    BY <2>1 DEF TypeOK
  <2> QED
    BY <2>1, <2>2, <2>3, <2>4, <2>5 DEF TypeOK
<1>11. ASSUME NEW s \in WinMD, UpdateLock(s) PROVE TypeOK'
  <2>1. PICK C \in Contents :
          lock' = [lock EXCEPT ![s] = [version |-> lock[s].version + 1, rows |-> C]]
    BY <1>11 DEF UpdateLock
  <2>2. lock[s].version + 1 \in 1 .. MaxVersion
    BY <1>11, BoundAssumption DEF UpdateLock, TypeOK
  <2>3. lock' \in [WinMD -> [version : 1 .. MaxVersion, rows : Contents]]
    BY <2>1, <2>2 DEF TypeOK
  <2>4. cache' \in [Locked -> {"missing", "invalid", "verified"}]
    BY <1>11 DEF UpdateLock, TypeOK
  <2>5. UNCHANGED <<overrides, published, at, all, symbols, next>> /\ result' \in Result
    BY <1>11 DEF UpdateLock, BetweenRuns, Result
  <2> QED
    BY <2>3, <2>4, <2>5 DEF TypeOK
<1>12. ASSUME NEW s \in Locked, FetchOrLose(s) PROVE TypeOK'
  BY <1>12 DEF FetchOrLose, BetweenRuns, TypeOK, Result
<1>13. CASE AddOverride
  <2>1. PICK x \in {y \in published : y.decl \in Decl}, r \in Ranges, L \in SUBSET Field,
             new \in Fields :
          overrides' = Append(overrides,
            [symbol |-> x.id, source |-> x.source, range |-> r, seen |-> x.value,
             before |-> [f \in L |-> x.value[f]], after |-> new])
    BY <1>13 DEF AddOverride, Fields
  <2>2. x \in Symbol /\ x.id \in Id
    BY <2>1 DEF TypeOK, InMemory, Identified
  <2>a. x.value \in [Field -> Value] /\ x.source \in Source
    BY <2>2 DEF Symbol
  <2>b. [f \in L |-> x.value[f]] \in [L -> Value]
    BY <2>a
  <2>c. [f \in L |-> x.value[f]] \in Fields /\ new \in Fields
    BY <2>b DEF Fields
  <2>3. [symbol |-> x.id, source |-> x.source, range |-> r, seen |-> x.value,
         before |-> [f \in L |-> x.value[f]], after |-> new] \in Override
    BY <2>2, <2>a, <2>c DEF Override
  <2>4. overrides' \in Seq(Override)
    BY <2>1, <2>3 DEF TypeOK
  <2>5. UNCHANGED <<lock, cache, published, at, all, symbols, next>> /\ result' \in Result
    BY <1>13 DEF AddOverride, BetweenRuns, Result
  <2> QED
    BY <2>4, <2>5 DEF TypeOK
<1>14. CASE RemoveOverrides
  <2>1. overrides' = <<>> \/ (overrides # <<>> /\ overrides' = Tail(overrides))
    BY <1>14 DEF RemoveOverrides
  <2>2. overrides' \in Seq(Override)
    <3>1. overrides \in Seq(Override) /\ <<>> \in Seq(Override)
      BY DEF TypeOK
    <3> QED
      BY <2>1, <3>1, HeadTailProperties
  <2>3. UNCHANGED <<lock, cache, published, at, all, symbols, next>> /\ result' \in Result
    BY <1>14 DEF RemoveOverrides, BetweenRuns, Result
  <2> QED
    BY <2>2, <2>3 DEF TypeOK
<1>15. CASE UNCHANGED vars
  BY <1>15 DEF vars, inputs, process, TypeOK
<1> QED
  BY <1>2, <1>3, <1>4, <1>5, <1>6, <1>7, <1>8, <1>9, <1>10, <1>11, <1>12, <1>13, <1>14, <1>15
  DEF Next, Generate, Maintain

(* What is written has its IDs.                                            *)
LEMMA IdentifiedStep ==
  ASSUME TypeOK, InMemory, [Next]_vars
  PROVE  Identified(published')
<1>1. CASE Publish
  BY <1>1 DEF Publish, InMemory
<1>2. CASE UNCHANGED published
  BY <1>2 DEF InMemory
<1> QED
  BY <1>1, <1>2
  DEF Next, Generate, Maintain, Begin, NormalizeFixture, Ingest, IngestFails, ApplyOverride,
      RefuseOverride, Normalize, NormalizeFails, ReturnUnwritten, Return,
      UpdateLock, FetchOrLose, AddOverride, RemoveOverrides, BetweenRuns, vars

(* The pass over the duplicates is what the second normalization rests on. *)
LEMMA MemoryStep == TypeOK /\ InMemory /\ [Next]_vars => InMemory'
<1> SUFFICES ASSUME TypeOK, InMemory, [Next]_vars PROVE InMemory'
  OBVIOUS
<1>p. Identified(published)'
  BY IdentifiedStep DEF Identified
<1>1. CASE at' = "idle"
  BY <1>p, <1>1 DEF InMemory
<1>2. CASE Begin
  <2>1. PICK F \in Fixtures : symbols' = {Fresh(Fixture, r) : r \in F}
    BY <1>2 DEF Begin
  <2>2. \A r \in F : Fresh(Fixture, r).source = Fixture /\ Fresh(Fixture, r).ordinal = NoOrdinal
                     /\ Fresh(Fixture, r).row = r.row
    BY DEF Fresh
  <2>3. IsFixture(symbols)'
    BY <2>1, <2>2, RowAssumption DEF IsFixture, RowsDiffer
  <2> QED
    BY <1>p, <1>2, <2>3 DEF Begin, InMemory
<1>3. CASE NormalizeFixture
  <2>1. IsFixture(symbols) /\ ~Collide(symbols) /\ symbols' = Normalized(symbols)
    BY <1>3 DEF NormalizeFixture, InMemory
  <2>2. IsFixture(symbols') /\ ~Collide(symbols')
    BY <2>1, NormalizedKeeps DEF TypeOK
  <2>3. IsFixture(symbols)' /\ ~Collide(symbols)'
    BY <2>2 DEF IsFixture, RowsDiffer, Collide, StableID
  <2> QED
    BY <1>p, <1>3, <2>3 DEF NormalizeFixture, InMemory
<1>4. CASE Ingest
  <2>1. ~Collide(symbols')
    BY <1>4, AppendedType, DistinguishedDiffer DEF Ingest, Appended, InMemory
  <2> QED
    BY <1>p, <1>4, <2>1 DEF Ingest, InMemory, Collide
<1>5. CASE ApplyOverride
  <2>1. PICK x \in symbols : symbols' = (symbols \ {x}) \cup {Replaced(x, overrides[next])}
    BY <1>5 DEF ApplyOverride
  <2>2. StableID(Replaced(x, overrides[next])) = StableID(x)
    BY <1>5, NextOverride, ReplacedKeeps DEF ApplyOverride, TypeOK
  <2>3. ~Collide(symbols)
    BY <1>5 DEF ApplyOverride, InMemory
  <2>4. ~Collide(symbols')
    BY <2>1, <2>2, <2>3 DEF Collide
  <2> QED
    BY <1>p, <1>5, <2>4 DEF ApplyOverride, InMemory, Collide
<1>6. CASE Normalize
  <2>1. Identified(symbols')
    BY <1>6, NormalizedKeeps DEF Normalize, TypeOK
  <2> QED
    BY <1>p, <1>6, <2>1 DEF Normalize, InMemory, Identified
<1>7. CASE UNCHANGED <<at, symbols>>
  BY <1>p, <1>7 DEF InMemory, IsFixture, RowsDiffer, Collide, StableID, Identified
<1> QED
  BY <1>1, <1>2, <1>3, <1>4, <1>5, <1>6, <1>7
  DEF Next, Generate, Maintain, IngestFails, RefuseOverride, NormalizeFails, Publish,
      ReturnUnwritten, Return, UpdateLock, FetchOrLose, AddOverride, RemoveOverrides, BetweenRuns, vars, process

LEMMA Reachable == Spec => [](TypeOK /\ InMemory)
<1>1. Init => TypeOK /\ InMemory
  <2> SUFFICES ASSUME Init PROVE TypeOK /\ InMemory
    OBVIOUS
  <2>1. /\ overrides = <<>> /\ published = {} /\ at = "idle" /\ all = FALSE
        /\ symbols = {} /\ next = 1 /\ result = "none"
    BY DEF Init
  <2>2. lock \in [WinMD -> [version : 1 .. MaxVersion, rows : Contents]]
    BY BoundAssumption DEF Init
  <2>3. cache \in [Locked -> {"missing", "invalid", "verified"}]
    BY DEF Init
  <2>4. overrides \in Seq(Override)
    BY <2>1
  <2>5. at \in Stage /\ next \in Nat \ {0} /\ result \in Result
    BY <2>1 DEF Stage, Result
  <2>6. all \in BOOLEAN
    BY <2>1
  <2>7. published \subseteq Symbol /\ symbols \subseteq Symbol
    BY <2>1
  <2> QED
    BY <2>1, <2>2, <2>3, <2>4, <2>5, <2>6, <2>7 DEF TypeOK, InMemory, Identified
<1> QED
  BY <1>1, TypeStep, MemoryStep, PTL DEF Spec

(* Every behaviour has the types TypeOK gives.                             *)
THEOREM TypeCorrect == Spec => []TypeOK
BY Reachable, PTL

(* The second normalization never finds two symbols with one stable ID,    *)
(* however many identical declarations the sources and the fixture hold.   *)
THEOREM NoIdCollides == Spec => []NoCollision
<1>1. InMemory => NoCollision
  BY DEF InMemory, NoCollision
<1> QED
  BY <1>1, Reachable, PTL

-----------------------------------------------------------------------------
\* No emitted call of S has an ABI its metadata does not have.
Unedited(S) == \A x \in S : x.decl \in Callable => x.value["function"] = x.raw["function"]

(* The passes leave the fields of a symbol alone.                          *)
LEMMA PassesKeepFields ==
  ASSUME NEW S, S \subseteq Symbol, Unedited(S)
  PROVE  Unedited(Normalized(S)) /\ Unedited(Distinguished(S))
<1> DEFINE Same(x, y) == y.decl = x.decl /\ y.value = x.value /\ y.raw = x.raw
<1>1. ASSUME NEW y \in Normalized(S) PROVE \E x \in S : Same(x, y)
  <2>1. PICK x \in S : y = [x EXCEPT !.id = StableID(x)]
    BY DEF Normalized
  <2> QED
    BY <2>1 DEF Symbol
<1>2. ASSUME NEW y \in Distinguished(S) PROVE \E x \in S : Same(x, y)
  <2>1. PICK x \in S : y = x \/ y = [x EXCEPT !.ordinal = Ordinal(x, S)]
    BY DEF Distinguished
  <2> QED
    BY <2>1 DEF Symbol
<1> QED
  BY <1>1, <1>2 DEF Unedited

(* The check on emitted calls is what an override has to get past.         *)
LEMMA ABIStep == TypeOK /\ InMemory /\ CallABIUnchanged /\ [Next]_vars => CallABIUnchanged'
<1> SUFFICES ASSUME TypeOK, InMemory, CallABIUnchanged, [Next]_vars
             PROVE  Unedited(symbols') /\ Unedited(published')
  BY DEF CallABIUnchanged, Unedited
<1>0. Unedited(symbols) /\ Unedited(published) /\ Unedited({})
  BY DEF CallABIUnchanged, Unedited
<1>1. CASE Begin
  <2>1. PICK F \in Fixtures : symbols' = {Fresh(Fixture, r) : r \in F}
    BY <1>1 DEF Begin
  <2> QED
    BY <1>0, <1>1, <2>1 DEF Begin, Unedited, Fresh
<1>2. CASE NormalizeFixture \/ Normalize
  BY <1>0, <1>2, PassesKeepFields DEF NormalizeFixture, Normalize, TypeOK
<1>3. CASE Ingest
  <2>1. IsFixture(symbols)
    BY <1>3 DEF Ingest, InMemory
  <2>2. Unedited(symbols \cup Appended)
    BY <1>0, IngestedType DEF Unedited, Appended
  <2> QED
    BY <1>0, <1>3, <2>1, <2>2, AppendedType, PassesKeepFields DEF Ingest, Appended
<1>4. CASE ApplyOverride
  <2> DEFINE o == overrides[next]
  <2>1. PICK x \in symbols : /\ Refusal(o, x) = "none"
                            /\ symbols' = (symbols \ {x}) \cup {Replaced(x, o)}
    BY <1>4 DEF ApplyOverride
  <2>2. x \in Symbol /\ o \in Override
    BY <1>4, NextOverride DEF ApplyOverride, TypeOK
  <2> HIDE DEF o
  <2>3. "function" \in DOMAIN o.after => x.decl \notin Callable
    BY <2>1 DEF Refusal, ChangesCall
  <2>4. /\ Replaced(x, o).decl = x.decl /\ Replaced(x, o).raw = x.raw
        /\ \A f \in Field : f \notin DOMAIN o.after => Replaced(x, o).value[f] = x.value[f]
    BY <2>2, ReplacedKeeps
  <2>5. "function" \in Field
    BY DEF Field
  <2>6. x.decl \in Callable => Replaced(x, o).value["function"] = x.value["function"]
    BY <2>3, <2>4, <2>5
  <2>7. Unedited({Replaced(x, o)})
    BY <1>0, <2>4, <2>6 DEF Unedited
  <2> QED
    BY <1>0, <1>4, <2>1, <2>7 DEF ApplyOverride, Unedited
<1>5. CASE symbols' \in {symbols, {}} /\ published' \in {symbols, published}
  BY <1>0, <1>5
<1> QED
  BY <1>1, <1>2, <1>3, <1>4, <1>5
  DEF Next, Generate, Maintain, IngestFails, RefuseOverride, NormalizeFails, Publish, ReturnUnwritten,
      Return, UpdateLock, FetchOrLose, AddOverride, RemoveOverrides, BetweenRuns, vars, process

(* However overrides are chained and metadata changes between runs, an     *)
(* emitted call never has a function ABI its metadata does not have.       *)
THEOREM CallABIKept == Spec => []CallABIUnchanged
<1>1. Init => CallABIUnchanged
  BY DEF Init, CallABIUnchanged
<1> QED
  BY <1>1, ABIStep, Reachable, PTL DEF Spec

-----------------------------------------------------------------------------
\* A symbol that was normalized has the ID that its fields give, and nothing
\* is applied before the overrides are reached or after the run.
RunShape ==
  /\ at \notin {"override", "write"} => next = 1
  /\ next <= Len(overrides) + 1
  /\ \A x \in symbols : x.id \in {NoId, StableID(x)}

(* An applied override is one, with a proper target.                       *)
LEMMA AppliedOverride ==
  ASSUME TypeOK, RunShape, NEW i \in Applied
  PROVE  overrides[i] \in Override /\ overrides[i].symbol \in Id /\ i \in Nat /\ i < next
<1>1. i \in 1 .. Len(overrides) /\ i \in Nat /\ i < next
  BY DEF TypeOK, RunShape, Applied
<1>2. overrides[i] \in Override
  BY <1>1 DEF TypeOK
<1> QED
  BY <1>1, <1>2 DEF Override

(* What normalization makes of a symbol.                                   *)
LEMMA NormalizedSymbol ==
  ASSUME NEW S, S \subseteq Symbol, NEW y \in Normalized(S)
  PROVE  \E x \in S : /\ y = [x EXCEPT !.id = StableID(x)]
                      /\ y.id = StableID(x) /\ StableID(y) = StableID(x)
                      /\ y.value = x.value /\ y.raw = x.raw /\ y.source = x.source
                      /\ y.manual = x.manual
<1>1. PICK x \in S : y = [x EXCEPT !.id = StableID(x)]
  BY DEF Normalized
<1> QED
  BY <1>1 DEF Symbol, StableID

(* The fixture was normalized without duplicates, so that telling the      *)
(* others apart does not touch it.                                         *)
LEMMA FixtureKeepsItsIds ==
  ASSUME TypeOK, RunShape, IsFixture(symbols), ~Collide(symbols),
         NEW y \in Distinguished(symbols \cup Appended)
  PROVE  y.id \in {NoId, StableID(y)}
<1> DEFINE S == symbols \cup Appended
<1>1. PICK x \in S : y = IF Group(x, S) # {x} THEN [x EXCEPT !.ordinal = Ordinal(x, S)] ELSE x
  BY DEF Distinguished
<1>2. x \in Symbol /\ S \subseteq Symbol /\ x.ordinal = NoOrdinal
  BY AppendedType
<1>3. CASE x \in symbols
  <2>1. \A z \in Appended : z.source \in Locked
    BY IngestedType DEF Appended
  <2>2. x.source = Fixture /\ Fixture \notin Locked
    BY <1>3, SourceAssumption DEF IsFixture, Fixture
  <2>3. ASSUME NEW z \in Group(x, S) PROVE z = x
    <3>1. z \in symbols /\ z.decl = x.decl /\ z.source = x.source
      BY <2>1, <2>2 DEF Group
    <3>2. StableID(z) = StableID(x)
      BY <1>3, <3>1 DEF IsFixture, StableID
    <3> QED
      BY <1>3, <3>1, <3>2 DEF Collide
  <2>4. x \in Group(x, S)
    BY DEF Group
  <2>5. y = x
    BY <1>1, <2>3, <2>4
  <2> QED
    BY <1>3, <2>5 DEF RunShape
<1>4. CASE x \in Appended
  <2>1. x.id = NoId
    BY <1>4 DEF Appended, Ingested, Sentinel, Fresh
  <2>2. y.id = x.id
    BY <1>1, <1>2 DEF Symbol
  <2> QED
    BY <2>1, <2>2
<1> QED
  BY <1>3, <1>4

\* What MemoryStep leaves to say of the first pass over the fixture.
FixtureDiffers == at = "ingest" => ~Collide(symbols)

LEMMA FixtureDiffersStep == TypeOK /\ InMemory /\ FixtureDiffers /\ [Next]_vars => FixtureDiffers'
<1> SUFFICES ASSUME TypeOK, InMemory, FixtureDiffers, [Next]_vars, at' = "ingest" PROVE ~Collide(symbols')
  BY DEF FixtureDiffers, Collide, StableID
<1>1. CASE NormalizeFixture
  BY <1>1, NormalizedKeeps DEF NormalizeFixture, TypeOK
<1>2. CASE at = "ingest" /\ symbols' = symbols
  BY <1>2 DEF FixtureDiffers
<1> QED
  BY <1>1, <1>2
  DEF Next, Generate, Maintain, Begin, Ingest, IngestFails, ApplyOverride, RefuseOverride, Normalize, NormalizeFails,
      Publish, ReturnUnwritten, Return, UpdateLock, FetchOrLose, AddOverride, RemoveOverrides, BetweenRuns,
      vars, process

LEMMA ShapeStep == TypeOK /\ InMemory /\ FixtureDiffers /\ RunShape /\ [Next]_vars => RunShape'
<1> SUFFICES ASSUME TypeOK, InMemory, FixtureDiffers, RunShape, [Next]_vars PROVE RunShape'
  OBVIOUS
<1>n. next \in Nat \ {0} /\ Len(overrides) \in Nat
  BY DEF TypeOK
<1>1. CASE at' = "idle" /\ symbols' = {} /\ next' = 1 /\ overrides' = overrides
  BY <1>1, <1>n DEF RunShape
<1>2. CASE Begin
  <2>1. \A x \in symbols' : x.id = NoId
    BY <1>2 DEF Begin, Fresh
  <2> QED
    BY <1>2, <2>1 DEF Begin, RunShape, inputs
<1>3. CASE NormalizeFixture \/ Normalize
  <2>1. \A y \in symbols' : y.id = StableID(y)
    BY <1>3, NormalizedSymbol DEF NormalizeFixture, Normalize, TypeOK
  <2>2. next' = next /\ overrides' = overrides /\ at' # "fixture"
        /\ (at' \notin {"override", "write"} => at \notin {"override", "write"})
    BY <1>3 DEF NormalizeFixture, Normalize, inputs
  <2> QED
    BY <2>1, <2>2 DEF RunShape, StableID
<1>4. CASE Ingest
  <2>1. \A y \in symbols' : y.id \in {NoId, StableID(y)}
    BY <1>4, FixtureKeepsItsIds DEF Ingest, InMemory, FixtureDiffers, Appended
  <2> QED
    BY <1>4, <2>1 DEF Ingest, RunShape, inputs, StableID
<1>5. CASE ApplyOverride
  <2>1. PICK x \in symbols : symbols' = (symbols \ {x}) \cup {Replaced(x, overrides[next])}
    BY <1>5 DEF ApplyOverride
  <2>2. x \in Symbol /\ overrides[next] \in Override
    BY <1>5, NextOverride DEF ApplyOverride, TypeOK
  <2> DEFINE y == Replaced(x, overrides[next])
  <2>3. x.id \in {NoId, StableID(x)}
    BY DEF RunShape
  <2>4. y.id = x.id /\ StableID(y) = StableID(x)
    BY <2>2, ReplacedKeeps
  <2>5. y.id \in {NoId, StableID(y)}
    BY <2>3, <2>4
  <2>6. \A z \in symbols' : z.id \in {NoId, StableID(z)}
    BY <2>1, <2>5 DEF RunShape
  <2> QED
    BY <1>5, <1>n, <2>6 DEF ApplyOverride, RunShape, inputs, StableID
<1>6. CASE BetweenRuns
  <2>1. overrides' \in Seq(Override)
    BY TypeStep DEF TypeOK
  <2> QED
    BY <1>6, <2>1 DEF BetweenRuns, RunShape, StableID
<1>7. CASE UNCHANGED vars
  BY <1>7 DEF vars, inputs, process, RunShape, StableID
<1> QED
  BY <1>1, <1>2, <1>3, <1>4, <1>5, <1>6, <1>7
  DEF Next, Generate, Maintain, IngestFails, RefuseOverride, NormalizeFails, Publish,
      ReturnUnwritten, Return, UpdateLock, FetchOrLose, AddOverride, RemoveOverrides, inputs

(* A step that begins or ends a run leaves nothing applied.                *)
LEMMA OnlyTwoMatter ==
  ASSUME TypeOK, RunShape, [Next]_vars
  PROVE  \/ Applied' = {}
         \/ ApplyOverride \/ Normalize
         \/ UNCHANGED vars
<1>1. next' = 1 => Applied' = {}
  BY DEF Applied
<1> QED
  BY <1>1
  DEF Next, Generate, Maintain, Begin, NormalizeFixture, Ingest, IngestFails, RefuseOverride, NormalizeFails,
      Publish, ReturnUnwritten, Return, UpdateLock, FetchOrLose, AddOverride, RemoveOverrides, BetweenRuns, RunShape

\* Override i shows in x.
Takes(x, i) ==
  /\ x.id = overrides[i].symbol
  /\ x.manual
  /\ \A f \in DOMAIN overrides[i].after :
       \/ x.value[f] = overrides[i].after[f]
       \/ \E j \in Edits(x, f) : j > i

(* A later override may edit the same field of the same symbol; no other   *)
(* step undoes an edit.                                                    *)
LEMMA EffectStep == TypeOK /\ RunShape /\ OverridesTakeEffect /\ [Next]_vars => OverridesTakeEffect'
<1> SUFFICES ASSUME TypeOK, RunShape, OverridesTakeEffect, [Next]_vars PROVE OverridesTakeEffect'
  OBVIOUS
<1>n. next \in Nat \ {0}
  BY DEF TypeOK
<1>1. CASE Applied' = {}
  BY <1>1 DEF OverridesTakeEffect
<1>2. CASE ApplyOverride
  <2> DEFINE o == overrides[next]
  <2>1. PICK x \in symbols : x.id = o.symbol /\ symbols' = (symbols \ {x}) \cup {Replaced(x, o)}
    BY <1>2 DEF ApplyOverride
  <2>2. x \in Symbol /\ o \in Override
    BY <1>2, NextOverride DEF ApplyOverride, TypeOK
  <2>3. overrides' = overrides /\ Applied' = Applied \cup {next} /\ next \notin Applied
    BY <1>2, <1>n DEF ApplyOverride, inputs, Applied
  <2>4. PICK y : y = Replaced(x, o)
    OBVIOUS
  <2>5. /\ y.id = x.id /\ y.manual
        /\ \A f \in DOMAIN o.after : y.value[f] = o.after[f]
        /\ \A f \in Field : f \notin DOMAIN o.after => y.value[f] = x.value[f]
    BY <2>2, <2>4, ReplacedKeeps
  <2>6. y \in symbols' /\ \A z \in symbols : z # x => z \in symbols'
    BY <2>1, <2>4
  <2>7. \A z, f : Edits(z, f)' = Edits(z, f) \cup {i \in {next} : o.symbol = z.id /\ f \in DOMAIN o.after}
    BY <2>3 DEF Edits, Targeting
  <2> SUFFICES ASSUME NEW i \in Applied \cup {next} PROVE \E z \in symbols' : Takes(z, i)'
    BY <2>3 DEF OverridesTakeEffect, Takes
  <2>8. CASE i = next
    <3>1. \A f \in DOMAIN overrides'[i].after : y.value[f] = overrides'[i].after[f]
      BY <2>3, <2>5, <2>8
    <3> QED
      BY <2>1, <2>3, <2>5, <2>6, <2>8, <3>1 DEF Takes
  <2>9. CASE i \in Applied
    <3>1. PICK z \in symbols : Takes(z, i)
      BY <2>9 DEF OverridesTakeEffect, Takes
    <3>2. CASE z # x
      <4>1. Takes(z, i)'
        BY <2>3, <2>7, <3>1 DEF Takes
      <4> QED
        BY <2>6, <3>2, <4>1
    <3>3. CASE z = x
      <4>1. next > i /\ overrides[i].after \in Fields
        BY <2>9, AppliedOverride, <1>n DEF Override
      <4>2. ASSUME NEW f \in DOMAIN overrides[i].after
            PROVE  y.value[f] = overrides[i].after[f] \/ \E j \in Edits(y, f)' : j > i
        <5>1. f \in Field
          BY <4>1, ListedFields
        <5>2. Edits(y, f)' = Edits(x, f) \cup {j \in {next} : f \in DOMAIN o.after}
          BY <2>1, <2>5, <2>7 DEF Edits, Targeting
        <5>3. CASE f \in DOMAIN o.after
          BY <4>1, <5>2, <5>3
        <5>4. CASE f \notin DOMAIN o.after
          <6>1. x.value[f] = overrides[i].after[f] \/ \E j \in Edits(x, f) : j > i
            BY <3>1, <3>3 DEF Takes
          <6> QED
            BY <2>5, <5>1, <5>2, <5>4, <6>1
        <5> QED
          BY <5>3, <5>4
      <4>3. Takes(y, i)'
        BY <2>3, <2>5, <3>1, <3>3, <4>2 DEF Takes
      <4> QED
        BY <2>6, <4>3
    <3> QED
      BY <3>2, <3>3
  <2> QED
    BY <2>8, <2>9
<1>3. CASE Normalize
  <2>1. overrides' = overrides /\ Applied' = Applied /\ symbols' = Normalized(symbols)
    BY <1>3 DEF Normalize, inputs, Applied
  <2> SUFFICES ASSUME NEW i \in Applied PROVE \E y \in symbols' : Takes(y, i)'
    BY <2>1 DEF OverridesTakeEffect, Takes
  <2>2. PICK z \in symbols : Takes(z, i)
    BY DEF OverridesTakeEffect, Takes
  <2>3. z.id = StableID(z)
    BY <2>2, AppliedOverride, IdAssumption DEF RunShape, Takes
  <2>4. PICK y : y = [z EXCEPT !.id = StableID(z)]
    OBVIOUS
  <2>5. y \in symbols'
    BY <2>1, <2>4 DEF Normalized
  <2>6. z \in Symbol
    BY DEF TypeOK
  <2>7. y.id = z.id /\ y.manual = z.manual /\ y.value = z.value
    BY <2>3, <2>4, <2>6 DEF Symbol
  <2>8. \A f : Edits(y, f)' = Edits(z, f)
    BY <2>1, <2>7 DEF Edits, Targeting
  <2>9. Takes(y, i)'
    BY <2>1, <2>2, <2>7, <2>8 DEF Takes
  <2> QED
    BY <2>5, <2>9
<1>4. CASE UNCHANGED vars
  BY <1>4 DEF vars, inputs, process, OverridesTakeEffect, Applied, Edits, Targeting
<1> QED
  BY <1>1, <1>2, <1>3, <1>4, OnlyTwoMatter

LEMMA Shaped == Spec => [](TypeOK /\ InMemory /\ FixtureDiffers /\ RunShape /\ OverridesTakeEffect)
<1>1. Init => FixtureDiffers /\ RunShape /\ OverridesTakeEffect
  BY DEF Init, FixtureDiffers, RunShape, OverridesTakeEffect, Applied
<1> QED
  BY <1>1, Reachable, FixtureDiffersStep, ShapeStep, EffectStep, PTL DEF Spec

(* Every override that was applied shows in its target, unless a later one *)
(* edits the same field: neither the overrides after it nor the second     *)
(* normalization, which gives the symbols their IDs anew, undoes it.       *)
THEOREM EffectsStay == Spec => []OverridesTakeEffect
BY Shaped, PTL

-----------------------------------------------------------------------------
\* Override i is for the locked version, and what it lists is what it found.
Founded(x, i) ==
  /\ InRange(x.source, overrides[i].range)
  /\ \A f \in DOMAIN overrides[i].before : Held(x, f, i, overrides[i].before[f])

Traced(x) ==
  /\ \A f \in Field : Held(x, f, next, x.value[f])
  /\ \A i \in Targeting(x) : Founded(x, i)

AllTraced == \A x \in symbols : Traced(x)

(* Overrides from the nth on say nothing of what was there before them.    *)
LEMMA HeldStays ==
  ASSUME NEW x, NEW y, NEW f, NEW n \in Nat, NEW i \in Nat, i <= n, NEW v,
         y.raw = x.raw, UNCHANGED overrides, Held(x, f, i, v),
         Edits(x, f) \subseteq Edits(y, f)', Edits(y, f)' \subseteq Edits(x, f) \cup {n}
  PROVE  Held(y, f, i, v)'
<1>1. CASE (\A j \in Edits(x, f) : j >= i) /\ v = x.raw[f]
  <2>1. \A j \in Edits(y, f)' : j >= i
    BY <1>1
  <2> QED
    BY <1>1, <2>1 DEF Held
<1>2. ASSUME NEW j \in Edits(x, f), j < i, \A k \in Edits(x, f) : k <= j \/ k >= i,
             v = overrides[j].after[f]
      PROVE  Held(y, f, i, v)'
  <2>1. j \in Edits(y, f)' /\ \A k \in Edits(y, f)' : k <= j \/ k >= i
    BY <1>2
  <2> QED
    BY <1>2, <2>1 DEF Held
<1> QED
  BY <1>1, <1>2 DEF Held

(* What has not been touched stays traced.                                 *)
LEMMA UntouchedStaysTraced ==
  ASSUME NEW x, Traced(x), NEW y, y.source = x.source, y.value = x.value, y.raw = x.raw,
         UNCHANGED <<overrides, lock>>, Targeting(y)' = Targeting(x),
         next \in Nat, next' \in {next, next + 1}
  PROVE  Traced(y)'
<1>1. \A r : InRange(y.source, r)' = InRange(x.source, r)
  BY DEF InRange, VersionOf
<1>2. \A f : Edits(y, f)' = Edits(x, f)
  BY DEF Edits
<1>3. \A i \in Targeting(x) : i \in Nat /\ i < next
  BY DEF Targeting, Applied
<1>4. ASSUME NEW f \in Field PROVE Held(y, f, next, y.value[f])'
  <2>1. Held(x, f, next, x.value[f])
    BY DEF Traced
  <2>2. \A j \in Edits(x, f) : j \in Nat /\ j < next
    BY <1>3 DEF Edits
  <2> QED
    BY <1>2, <2>1, <2>2 DEF Held
<1>5. ASSUME NEW i \in Targeting(x) PROVE Founded(y, i)'
  <2>1. Founded(x, i)
    BY DEF Traced
  <2>2. ASSUME NEW f \in DOMAIN overrides[i].before PROVE Held(y, f, i, overrides[i].before[f])'
    <3>1. Held(x, f, i, overrides[i].before[f])
      BY <2>1 DEF Founded
    <3>2. ASSUME NEW v, v = overrides[i].before[f] PROVE Held(y, f, i, v)'
      BY <1>2, <1>3, <3>1, <3>2, HeldStays
    <3> QED
      BY <3>2
  <2> QED
    BY <1>1, <2>1, <2>2 DEF Founded
<1> QED
  BY <1>4, <1>5 DEF Traced

(* The override applied next becomes the last edit of the fields it        *)
(* changes, of one symbol.                                                 *)
LEMMA ApplyTraced ==
  ASSUME TypeOK, InMemory, RunShape, AllTraced, ApplyOverride
  PROVE  AllTraced'
<1>o. PICK o : o = overrides[next]
  OBVIOUS
<1>1. PICK x \in symbols : /\ x.id = o.symbol
                          /\ Refusal(o, x) = "none"
                          /\ symbols' = (symbols \ {x}) \cup {Replaced(x, o)}
  BY <1>o DEF ApplyOverride
<1>2. x \in Symbol /\ o \in Override /\ symbols \subseteq Symbol
  BY <1>o, NextOverride DEF ApplyOverride, TypeOK
<1>3. UNCHANGED <<overrides, lock>>
  BY DEF ApplyOverride, inputs
<1>4. next \in Nat \ {0} /\ next' = next + 1
  BY DEF TypeOK, ApplyOverride
<1>5. Applied' = Applied \cup {next} /\ \A i \in Applied : i \in Nat /\ i < next
  BY <1>4 DEF Applied
<1>6. o.symbol \in Id /\ o.before \in Fields
  BY <1>2 DEF Override
<1>7. \A z : Targeting(z)' = Targeting(z) \cup {i \in {next} : o.symbol = z.id}
  BY <1>3, <1>5, <1>o DEF Targeting
<1>8. \A z : \A i \in Targeting(z) : i \in Nat /\ i < next
  BY <1>5 DEF Targeting
<1>9. ASSUME NEW z \in symbols, z # x PROVE Traced(z)'
  <2>1. z.id # o.symbol
    <3> SUFFICES ASSUME z.id = o.symbol PROVE FALSE
      OBVIOUS
    <3>1. z.id = StableID(z) /\ x.id = StableID(x)
      BY <1>1, <1>6, IdAssumption DEF RunShape
    <3> QED
      BY <1>1, <1>9, <3>1 DEF InMemory, Collide, ApplyOverride
  <2>2. Targeting(z)' = Targeting(z)
    BY <1>7, <2>1
  <2>3. Traced(z)
    BY DEF AllTraced
  <2> QED
    BY <1>3, <1>4, <2>2, <2>3, UntouchedStaysTraced
<1>r. PICK y : y = Replaced(x, o)
  OBVIOUS
<1>10. /\ y.id = x.id /\ y.source = x.source /\ y.raw = x.raw
       /\ \A f \in DOMAIN o.after : y.value[f] = o.after[f]
       /\ \A f \in Field : f \notin DOMAIN o.after => y.value[f] = x.value[f]
  BY <1>2, <1>r, ReplacedKeeps
<1>11. /\ x.source = o.source /\ InRange(o.source, o.range)
       /\ \A f \in DOMAIN o.before : x.value[f] = o.before[f]
  BY <1>1 DEF Refusal, Stale
<1>12. \A r : InRange(y.source, r)' = InRange(x.source, r)
  BY <1>3, <1>10 DEF InRange, VersionOf
<1>13. Traced(x)
  BY DEF AllTraced
<1>14. Targeting(y)' = Targeting(x) \cup {next}
  BY <1>1, <1>7, <1>10 DEF Targeting
<1>15. \A f : Edits(y, f)' = Edits(x, f) \cup {i \in {next} : f \in DOMAIN o.after}
  BY <1>3, <1>14, <1>o DEF Edits
<1>16. \A f : \A j \in Edits(x, f) : j \in Nat /\ j < next
  BY <1>8 DEF Edits
<1>17. ASSUME NEW f, NEW i \in Nat, i <= next, NEW v, Held(x, f, i, v) PROVE Held(y, f, i, v)'
  <2>1. Edits(x, f) \subseteq Edits(y, f)' /\ Edits(y, f)' \subseteq Edits(x, f) \cup {next}
    BY <1>15
  <2> QED
    BY <1>3, <1>4, <1>10, <1>17, <2>1, HeldStays
<1>18. ASSUME NEW f \in Field PROVE Held(y, f, next, y.value[f])'
  <2>1. CASE f \in DOMAIN o.after
    <3>1. next \in Edits(y, f)' /\ \A k \in Edits(y, f)' : k \in Nat /\ k <= next
      BY <1>4, <1>15, <1>16, <2>1
    <3>2. y.value[f] = overrides'[next].after[f]
      BY <1>3, <1>10, <1>o, <2>1
    <3> QED
      BY <1>4, <3>1, <3>2 DEF Held
  <2>2. CASE f \notin DOMAIN o.after
    <3>1. Held(x, f, next, x.value[f]) /\ y.value[f] = x.value[f]
      BY <1>10, <1>13, <2>2 DEF Traced
    <3>2. Edits(y, f)' = Edits(x, f)
      BY <1>15, <2>2
    <3> QED
      BY <1>3, <1>4, <1>10, <1>16, <3>1, <3>2 DEF Held
  <2> QED
    BY <2>1, <2>2
<1>19. ASSUME NEW i \in Targeting(y)' PROVE Founded(y, i)'
  <2>1. CASE i \in Targeting(x)
    <3>1. Founded(x, i) /\ i \in Nat /\ i <= next
      BY <1>4, <1>8, <1>13, <2>1 DEF Traced
    <3>2. InRange(y.source, overrides[i].range)'
      BY <1>3, <1>12, <3>1 DEF Founded
    <3>3. ASSUME NEW f \in DOMAIN overrides[i].before PROVE Held(y, f, i, overrides[i].before[f])'
      <4>1. Held(x, f, i, overrides[i].before[f])
        BY <3>1 DEF Founded
      <4>2. ASSUME NEW v, v = overrides[i].before[f] PROVE Held(y, f, i, v)'
        BY <1>17, <3>1, <4>1, <4>2
      <4> QED
        BY <1>3, <4>2
    <3> QED
      BY <1>3, <3>2, <3>3 DEF Founded
  <2>2. CASE i = next
    <3>1. InRange(y.source, o.range)'
      BY <1>10, <1>11, <1>12
    <3>2. ASSUME NEW f \in DOMAIN o.before PROVE Held(y, f, i, o.before[f])'
      <4>1. f \in Field
        BY <1>6, ListedFields
      <4>2. Held(x, f, next, x.value[f]) /\ x.value[f] = o.before[f]
        BY <1>11, <1>13, <4>1 DEF Traced
      <4> QED
        BY <1>4, <1>17, <2>2, <4>2
    <3>3. o = overrides'[i]
      BY <1>3, <1>o, <2>2
    <3> QED
      BY <3>1, <3>2, <3>3 DEF Founded
  <2> QED
    BY <1>14, <2>1, <2>2
<1>20. Traced(y)'
  BY <1>18, <1>19 DEF Traced
<1> QED
  BY <1>1, <1>9, <1>20, <1>r DEF AllTraced

(* A symbol gets its ID only once no override can have been applied to it  *)
(* under that ID: the one it was applied to has it.                        *)
LEMMA NormalizeTraced ==
  ASSUME TypeOK, InMemory, RunShape, OverridesTakeEffect, AllTraced, Normalize
  PROVE  AllTraced'
<1>1. UNCHANGED <<overrides, lock>> /\ Applied' = Applied /\ next' = next
      /\ symbols' = Normalized(symbols)
  BY DEF Normalize, inputs, Applied
<1> SUFFICES ASSUME NEW y \in symbols' PROVE Traced(y)'
  BY DEF AllTraced
<1>2. PICK x \in symbols : /\ y.id = StableID(x) /\ y.value = x.value
                          /\ y.raw = x.raw /\ y.source = x.source
  BY <1>1, NormalizedSymbol DEF TypeOK
<1>3. ASSUME NEW i \in Applied, overrides[i].symbol = y.id PROVE x.id = y.id
  <2>1. PICK z \in symbols : z.id = overrides[i].symbol
    BY DEF OverridesTakeEffect
  <2>2. z.id = StableID(z)
    BY <2>1, AppliedOverride, IdAssumption DEF RunShape
  <2>3. z = x
    BY <1>2, <1>3, <2>1, <2>2 DEF Collide, Normalize
  <2> QED
    BY <1>3, <2>1, <2>3
<1>4. ASSUME NEW i \in Applied, overrides[i].symbol = x.id PROVE x.id = y.id
  BY <1>2, <1>4, AppliedOverride, IdAssumption DEF RunShape
<1>5. Targeting(y)' = Targeting(x)
  BY <1>1, <1>3, <1>4 DEF Targeting
<1>6. Traced(x) /\ next \in Nat
  BY DEF AllTraced, TypeOK
<1> QED
  BY <1>1, <1>2, <1>5, <1>6, UntouchedStaysTraced

\* The symbols as their metadata or the fixture gives them.
AsIngested(S) == \A x \in S, f \in Field : x.value[f] = x.raw[f]

(* Before the first override every field is what was ingested.             *)
LEMMA IngestedStep ==
  ASSUME TypeOK, InMemory, RunShape, AllTraced, [Next]_vars
  PROVE  \/ Applied' = {} /\ AsIngested(symbols')
         \/ ApplyOverride \/ Normalize
         \/ UNCHANGED vars
<1>0. next = 1 => AsIngested(symbols)
  BY DEF AllTraced, Traced, Held, Edits, Targeting, Applied, AsIngested
<1>1. next' = 1 => Applied' = {}
  BY DEF Applied
<1>2. AsIngested({})
  BY DEF AsIngested
<1>3. CASE Begin
  <2>1. next' = 1 /\ AsIngested(symbols')
    BY <1>3 DEF Begin, RunShape, Fresh, AsIngested
  <2> QED
    BY <1>1, <2>1
<1>4. CASE NormalizeFixture
  <2>1. next' = 1 /\ next = 1 /\ symbols' = Normalized(symbols)
    BY <1>4 DEF NormalizeFixture, RunShape
  <2>2. AsIngested(symbols')
    BY <1>0, <2>1, NormalizedSymbol DEF AsIngested, TypeOK
  <2> QED
    BY <1>1, <2>1, <2>2
<1>5. CASE Ingest
  <2> DEFINE S == symbols \cup Appended
  <2>1. next' = 1 /\ next = 1 /\ symbols' = Distinguished(S) /\ IsFixture(symbols)
    BY <1>5 DEF Ingest, RunShape, InMemory, Appended
  <2>2. S \subseteq Symbol
    BY <2>1, AppendedType
  <2>3. \A x \in S : \A f \in Field : x.value[f] = x.raw[f]
    BY <1>0, <2>1, IngestedType DEF Appended, AsIngested
  <2> HIDE DEF S
  <2>4. ASSUME NEW y \in symbols', NEW f \in Field PROVE y.value[f] = y.raw[f]
    <3>1. PICK x \in S : y = x \/ y = [x EXCEPT !.ordinal = Ordinal(x, S)]
      BY <2>1 DEF Distinguished
    <3>2. y.value = x.value /\ y.raw = x.raw
      BY <2>2, <3>1 DEF Symbol
    <3> QED
      BY <2>3, <3>2
  <2> QED
    BY <1>1, <2>1, <2>4 DEF AsIngested
<1>6. CASE next' = 1 /\ symbols' = {}
  BY <1>1, <1>2, <1>6
<1>7. CASE BetweenRuns
  BY <1>0, <1>1, <1>7 DEF BetweenRuns, RunShape
<1> QED
  BY <1>3, <1>4, <1>5, <1>6, <1>7
  DEF Next, Generate, Maintain, IngestFails, RefuseOverride, NormalizeFails, Publish,
      ReturnUnwritten, Return, UpdateLock, FetchOrLose, AddOverride, RemoveOverrides

LEMMA TracedStep ==
  TypeOK /\ InMemory /\ RunShape /\ OverridesTakeEffect /\ AllTraced /\ [Next]_vars => AllTraced'
<1> SUFFICES ASSUME TypeOK, InMemory, RunShape, OverridesTakeEffect, AllTraced, [Next]_vars
             PROVE  AllTraced'
  OBVIOUS
<1>1. CASE Applied' = {} /\ AsIngested(symbols')
  BY <1>1 DEF AllTraced, Traced, Held, Edits, Targeting, AsIngested
<1>2. CASE UNCHANGED vars
  <2>1. ASSUME NEW y \in symbols PROVE Traced(y)'
    <3>1. Targeting(y)' = Targeting(y)
      BY <1>2 DEF vars, inputs, process, Targeting, Applied
    <3>2. UNCHANGED <<overrides, lock, next>> /\ Traced(y) /\ next \in Nat
      BY <1>2 DEF vars, inputs, process, AllTraced, TypeOK
    <3> QED
      BY <3>1, <3>2, UntouchedStaysTraced
  <2> QED
    BY <1>2, <2>1 DEF AllTraced, vars, process
<1>3. CASE ApplyOverride
  BY <1>3, ApplyTraced
<1>4. CASE Normalize
  BY <1>4, NormalizeTraced
<1> QED
  BY <1>1, <1>2, <1>3, <1>4, IngestedStep

(* A symbol is its metadata with a chain of overrides on top, each for the *)
(* locked version, and each finding what its before lists as the metadata  *)
(* and the ones ahead of it left it.  Nothing is said of a field that      *)
(* before does not list: ApplyOverrides does not compare it.               *)
THEOREM EveryChangeIsTraced == Spec => []ChangesAreTraced
<1>1. Init => AllTraced
  BY DEF Init, AllTraced
<1>2. AllTraced => ChangesAreTraced
  BY DEF AllTraced, Traced, Founded, ChangesAreTraced
<1> QED
  BY <1>1, <1>2, Shaped, TracedStep, PTL DEF Spec

\* What overrides change can be traced to them, and is never the ABI of a
\* call.
THEOREM OverridesStaySafe == Spec => []OverridesAreSafe
BY EveryChangeIsTraced, CallABIKept, PTL DEF OverridesAreSafe

-----------------------------------------------------------------------------
\* The rows that declare the same as x.
Rows(x, S) == {y.row : y \in Group(x, S)}

\* Every declaration has the number of its row among those that declare the
\* same, and none when it is the only one.
Numbered(S) ==
  \A x \in S :
    /\ IsFiniteSet(Rows(x, S))
    /\ x.ordinal = IF Rows(x, S) = {x.row} THEN NoOrdinal
                   ELSE Cardinality({n \in Rows(x, S) : n < x.row})

\* An inventory is finite per source while it is put together; afterwards it
\* is numbered, and what is published has the IDs that follow.
InPlace ==
  /\ at \in {"fixture", "ingest"} => IsFiniteSet(symbols)
  /\ at \in {"override", "write"} => RowsDiffer(symbols) /\ Numbered(symbols)
  /\ at = "write" => \A x \in symbols : x.id = StableID(x)
  /\ RowsDiffer(published) /\ Numbered(published)
  /\ \A x \in published : x.id = StableID(x)

(* The values of a function with a finite domain are finitely many.        *)
LEMMA ImageFinite ==
  ASSUME NEW S, IsFiniteSet(S), NEW f, f = [x \in S |-> f[x]]
  PROVE  IsFiniteSet({f[x] : x \in S})
<1>1. f \in Surjection(S, {f[x] : x \in S})
  BY DEF Surjection
<1> QED
  BY <1>1, FS_Surjection

(* Counting the rows is counting the declarations.                         *)
LEMMA RowsCount ==
  ASSUME NEW S, RowsDiffer(S), NEW x \in S, IsFiniteSet(Rows(x, S))
  PROVE  /\ Cardinality(Group(x, S)) = Cardinality(Rows(x, S))
         /\ Ordinal(x, S) = Cardinality({n \in Rows(x, S) : n < x.row})
<1> DEFINE G == Group(x, S)
           L == {y \in G : y.row < x.row}
           R == Rows(x, S)
           M == {n \in R : n < x.row}
<1>1. ASSUME NEW A \in SUBSET G, NEW B \in SUBSET R, B = {y.row : y \in A}
      PROVE  Cardinality(A) = Cardinality(B)
  <2> DEFINE f == [y \in A |-> y.row]
  <2>1. \A y, z \in A : y.row = z.row => y = z
    BY <1>1 DEF RowsDiffer, Group
  <2>2. f \in Injection(A, B) /\ f \in Surjection(A, B)
    BY <1>1, <2>1 DEF Injection, IsInjective, Surjection
  <2>3. IsFiniteSet(B)
    BY FS_Subset
  <2> QED
    BY <2>2, <2>3, FS_Injection
<1>2. R = {y.row : y \in G} /\ M = {y.row : y \in L}
  BY DEF Rows
<1>3. Cardinality(G) = Cardinality(R)
  BY <1>1, <1>2
<1>4. L \in SUBSET G /\ M \in SUBSET R
  OBVIOUS
<1>5. Cardinality(L) = Cardinality(M)
  <2> HIDE DEF G, L, R, M
  <2> QED
    BY <1>1, <1>2, <1>4
<1> QED
  BY <1>3, <1>5 DEF Ordinal

(* Where the declarations have the same number, they have the same ID.     *)
LEMMA PlaceGivesId ==
  ASSUME NEW S, RowsDiffer(S), Numbered(S), NEW x \in S, x.id = StableID(x),
         NEW T, RowsDiffer(T), Numbered(T), NEW y \in T, y.id = StableID(y),
         SamePlace(x, S, y, T)
  PROVE  x.id = y.id
<1>1. ASSUME NEW U, RowsDiffer(U), Numbered(U), NEW z \in U
      PROVE  z.ordinal = IF Cardinality(Group(z, U)) = 1 THEN NoOrdinal ELSE Ordinal(z, U)
  <2>1. IsFiniteSet(Rows(z, U)) /\ z.row \in Rows(z, U)
    BY <1>1 DEF Numbered, Rows, Group
  <2>2. Rows(z, U) = {z.row} <=> Cardinality(Rows(z, U)) = 1
    BY <2>1, FS_Singleton
  <2>3. /\ Cardinality(Group(z, U)) = Cardinality(Rows(z, U))
        /\ Ordinal(z, U) = Cardinality({n \in Rows(z, U) : n < z.row})
    BY <1>1, <2>1, RowsCount
  <2> QED
    BY <1>1, <2>2, <2>3 DEF Numbered
<1>2. x.ordinal = y.ordinal
  BY <1>1 DEF SamePlace
<1> QED
  BY <1>2 DEF SamePlace, StableID

(* A pass that leaves every declaration where it is leaves the numbering.  *)
LEMMA NumberedKept ==
  ASSUME NEW S, NEW T, Numbered(S),
         \A y \in T : \E x \in S : /\ y.source = x.source /\ y.decl = x.decl
                                   /\ y.row = x.row /\ y.ordinal = x.ordinal,
         \A x \in S : \E y \in T : /\ y.source = x.source /\ y.decl = x.decl
                                   /\ y.row = x.row /\ y.ordinal = x.ordinal
  PROVE  Numbered(T)
<1> SUFFICES ASSUME NEW y \in T
             PROVE  /\ IsFiniteSet(Rows(y, T))
                    /\ y.ordinal = IF Rows(y, T) = {y.row} THEN NoOrdinal
                                   ELSE Cardinality({n \in Rows(y, T) : n < y.row})
  BY DEF Numbered
<1>1. PICK x \in S : /\ y.source = x.source /\ y.decl = x.decl
                     /\ y.row = x.row /\ y.ordinal = x.ordinal
  OBVIOUS
<1>2. Rows(y, T) = Rows(x, S)
  <2>1. ASSUME NEW n \in Rows(y, T) PROVE n \in Rows(x, S)
    <3>1. PICK z \in T : z.source = y.source /\ z.decl = y.decl /\ z.row = n
      BY DEF Rows, Group
    <3>2. PICK w \in S : z.source = w.source /\ z.decl = w.decl /\ z.row = w.row
      OBVIOUS
    <3> QED
      BY <1>1, <3>1, <3>2 DEF Rows, Group
  <2>2. ASSUME NEW n \in Rows(x, S) PROVE n \in Rows(y, T)
    <3>1. PICK z \in S : z.source = x.source /\ z.decl = x.decl /\ z.row = n
      BY DEF Rows, Group
    <3>2. PICK w \in T : w.source = z.source /\ w.decl = z.decl /\ w.row = z.row
      OBVIOUS
    <3> QED
      BY <1>1, <3>1, <3>2 DEF Rows, Group
  <2> QED
    BY <2>1, <2>2
<1> QED
  BY <1>1, <1>2 DEF Numbered

(* Normalization leaves every declaration where it is.                     *)
LEMMA NormalizedInPlace ==
  ASSUME NEW S, S \subseteq Symbol, RowsDiffer(S), Numbered(S)
  PROVE  RowsDiffer(Normalized(S)) /\ Numbered(Normalized(S))
<1> DEFINE N(x) == [x EXCEPT !.id = StableID(x)]
<1>1. ASSUME NEW x \in S
      PROVE  /\ N(x).source = x.source /\ N(x).decl = x.decl
             /\ N(x).row = x.row /\ N(x).ordinal = x.ordinal
  BY DEF Symbol
<1>2. Normalized(S) = {N(x) : x \in S}
  BY DEF Normalized
<1> HIDE DEF N
<1>3. RowsDiffer(Normalized(S))
  BY <1>1, <1>2 DEF RowsDiffer
<1>4. \A y \in Normalized(S) : \E x \in S : /\ y.source = x.source /\ y.decl = x.decl
                                            /\ y.row = x.row /\ y.ordinal = x.ordinal
  BY <1>1, <1>2
<1>5. \A x \in S : \E y \in Normalized(S) : /\ y.source = x.source /\ y.decl = x.decl
                                            /\ y.row = x.row /\ y.ordinal = x.ordinal
  BY <1>1, <1>2
<1> QED
  BY <1>3, <1>4, <1>5, NumberedKept

(* So does an override.                                                    *)
LEMMA ReplacedInPlace ==
  ASSUME NEW S, S \subseteq Symbol, RowsDiffer(S), Numbered(S), NEW x \in S, NEW o \in Override
  PROVE  LET T == (S \ {x}) \cup {Replaced(x, o)} IN RowsDiffer(T) /\ Numbered(T)
<1> DEFINE z == Replaced(x, o)
           T == (S \ {x}) \cup {z}
<1>1. z.source = x.source /\ z.decl = x.decl /\ z.row = x.row /\ z.ordinal = x.ordinal
  BY DEF Replaced, Symbol
<1> HIDE DEF z
<1>2. RowsDiffer(T)
  BY <1>1 DEF RowsDiffer
<1>3. \A y \in T : \E w \in S : /\ y.source = w.source /\ y.decl = w.decl
                                /\ y.row = w.row /\ y.ordinal = w.ordinal
  BY <1>1
<1>4. \A w \in S : \E y \in T : /\ y.source = w.source /\ y.decl = w.decl
                                /\ y.row = w.row /\ y.ordinal = w.ordinal
  BY <1>1
<1>5. Numbered(T)
  BY <1>3, <1>4, NumberedKept
<1> QED
  BY <1>2, <1>5 DEF z

(* The pass over the duplicates numbers them by their rows.                *)
LEMMA DistinguishedNumbers ==
  ASSUME NEW S, S \subseteq Symbol, RowsDiffer(S), \A x \in S : x.ordinal = NoOrdinal,
         \A x \in S : IsFiniteSet(Group(x, S))
  PROVE  RowsDiffer(Distinguished(S)) /\ Numbered(Distinguished(S))
<1> DEFINE D(x) == IF Group(x, S) # {x} THEN [x EXCEPT !.ordinal = Ordinal(x, S)] ELSE x
           T == Distinguished(S)
<1>1. ASSUME NEW x \in S
      PROVE  /\ D(x).source = x.source /\ D(x).decl = x.decl /\ D(x).row = x.row
             /\ D(x).ordinal = IF Group(x, S) # {x} THEN Ordinal(x, S) ELSE NoOrdinal
  BY DEF Symbol
<1>2. T = {D(x) : x \in S}
  BY DEF Distinguished
<1> HIDE DEF D, T
<1>3. RowsDiffer(T)
  BY <1>1, <1>2 DEF RowsDiffer
<1>4. ASSUME NEW x \in S PROVE Rows(D(x), T) = Rows(x, S)
  <2>1. ASSUME NEW n \in Rows(D(x), T) PROVE n \in Rows(x, S)
    <3>1. PICK w \in S : D(w).source = D(x).source /\ D(w).decl = D(x).decl /\ D(w).row = n
      BY <1>2 DEF Rows, Group
    <3> QED
      BY <1>1, <3>1 DEF Rows, Group
  <2>2. ASSUME NEW n \in Rows(x, S) PROVE n \in Rows(D(x), T)
    <3>1. PICK w \in S : w.source = x.source /\ w.decl = x.decl /\ w.row = n
      BY DEF Rows, Group
    <3> QED
      BY <1>1, <1>2, <3>1 DEF Rows, Group
  <2> QED
    BY <2>1, <2>2
<1>5. ASSUME NEW x \in S
      PROVE  /\ IsFiniteSet(Rows(x, S))
             /\ D(x).ordinal = IF Rows(x, S) = {x.row} THEN NoOrdinal
                               ELSE Cardinality({n \in Rows(x, S) : n < x.row})
  <2> DEFINE f == [y \in Group(x, S) |-> y.row]
  <2>1. IsFiniteSet({f[y] : y \in Group(x, S)})
    BY ImageFinite
  <2>2. IsFiniteSet(Rows(x, S))
    BY <2>1 DEF Rows
  <2>3. Ordinal(x, S) = Cardinality({n \in Rows(x, S) : n < x.row})
    BY <2>2, RowsCount
  <2>4. Group(x, S) = {x} <=> Rows(x, S) = {x.row}
    BY DEF Group, Rows, RowsDiffer
  <2> QED
    BY <1>1, <2>2, <2>3, <2>4
<1>6. Numbered(T)
  <2> SUFFICES ASSUME NEW y \in T
               PROVE  /\ IsFiniteSet(Rows(y, T))
                      /\ y.ordinal = IF Rows(y, T) = {y.row} THEN NoOrdinal
                                     ELSE Cardinality({n \in Rows(y, T) : n < y.row})
    BY DEF Numbered
  <2>1. PICK x \in S : y = D(x)
    BY <1>2
  <2> QED
    BY <1>1, <1>4, <1>5, <2>1
<1> QED
  BY <1>3, <1>6 DEF T

(* Without two equal declarations there is nothing to number.              *)
LEMMA FixtureNumbers ==
  ASSUME NEW S, IsFixture(S), ~Collide(S)
  PROVE  RowsDiffer(S) /\ Numbered(S)
<1> SUFFICES ASSUME NEW x \in S PROVE Rows(x, S) = {x.row} /\ x.ordinal = NoOrdinal
  BY FS_Singleton DEF IsFixture, Numbered
<1>1. \A y \in Group(x, S) : y \in S /\ StableID(y) = StableID(x)
  BY DEF IsFixture, Group, StableID
<1>2. Group(x, S) = {x}
  BY <1>1 DEF Collide, Group
<1> QED
  BY <1>2 DEF Rows, IsFixture

(* What the sources append is finite for each of them.                     *)
LEMMA GroupsFinite ==
  ASSUME TypeOK, IsFixture(symbols), IsFiniteSet(symbols), NEW x \in symbols \cup Appended
  PROVE  IsFiniteSet(Group(x, symbols \cup Appended))
<1> DEFINE S == symbols \cup Appended
<1>1. \A y \in Appended : y.source \in Locked /\ y \in Ingested(y.source)
  BY IngestedType DEF Appended
<1>2. Fixture \notin Locked
  BY SourceAssumption DEF Fixture
<1>3. CASE x \in symbols
  <2>1. Group(x, S) \subseteq symbols
    BY <1>1, <1>2, <1>3 DEF Group, IsFixture
  <2> QED
    BY <2>1, FS_Subset
<1>4. CASE x \in Appended
  <2> DEFINE s == x.source
  <2>1. Group(x, S) \subseteq Ingested(s)
    BY <1>1, <1>2, <1>4 DEF Group, IsFixture
  <2>2. IsFiniteSet(Ingested(s))
    <3>1. CASE s \in WinMD /\ cache[s] = "verified"
      <4> DEFINE f == [r \in lock[s].rows |-> Fresh(s, r)]
      <4>1. lock[s].rows \in Contents
        BY <3>1 DEF TypeOK
      <4>2. IsFiniteSet(lock[s].rows)
        BY <4>1, RowAssumption
      <4>3. IsFiniteSet({f[r] : r \in lock[s].rows})
        BY <4>2, ImageFinite
      <4> QED
        BY <3>1, <4>3 DEF Ingested
    <3>2. CASE ~(s \in WinMD /\ cache[s] = "verified")
      BY <3>2, FS_Singleton DEF Ingested
    <3> QED
      BY <3>1, <3>2
  <2> QED
    BY <2>1, <2>2, FS_Subset
<1> QED
  BY <1>3, <1>4

LEMMA InPlaceStep == TypeOK /\ InMemory /\ FixtureDiffers /\ InPlace /\ [Next]_vars => InPlace'
<1> SUFFICES ASSUME TypeOK, InMemory, FixtureDiffers, InPlace, [Next]_vars PROVE InPlace'
  OBVIOUS
<1>i. /\ InPlace' <=> /\ at' \in {"fixture", "ingest"} => IsFiniteSet(symbols')
                      /\ at' \in {"override", "write"} => RowsDiffer(symbols') /\ Numbered(symbols')
                      /\ at' = "write" => \A x \in symbols' : x.id = StableID(x)
                      /\ RowsDiffer(published') /\ Numbered(published')
                      /\ \A x \in published' : x.id = StableID(x)
  BY DEF InPlace, RowsDiffer, Numbered, Rows, Group, StableID
<1>p. RowsDiffer(published) /\ Numbered(published) /\ \A x \in published : x.id = StableID(x)
  BY DEF InPlace
<1>1. CASE at' = "idle" /\ UNCHANGED published
  BY <1>i, <1>p, <1>1
<1>2. CASE Begin
  <2>1. PICK F \in Fixtures : symbols' = {Fresh(Fixture, r) : r \in F}
    BY <1>2 DEF Begin
  <2> DEFINE f == [r \in F |-> Fresh(Fixture, r)]
  <2>2. IsFiniteSet(F) /\ f = [r \in F |-> f[r]] /\ symbols' = {f[r] : r \in F}
    BY <2>1, RowAssumption
  <2> HIDE DEF f
  <2>3. IsFiniteSet(symbols')
    BY <2>2, ImageFinite
  <2> QED
    BY <1>i, <1>p, <1>2, <2>3 DEF Begin
<1>3. CASE NormalizeFixture
  <2>1. IsFixture(symbols) /\ ~Collide(symbols) /\ IsFiniteSet(symbols) /\ symbols' = Normalized(symbols)
    BY <1>3 DEF NormalizeFixture, InMemory, InPlace
  <2>2. RowsDiffer(symbols') /\ Numbered(symbols')
    BY <2>1, FixtureNumbers, NormalizedInPlace DEF TypeOK
  <2> DEFINE f == [x \in symbols |-> [x EXCEPT !.id = StableID(x)]]
  <2>3. f = [x \in symbols |-> f[x]] /\ symbols' = {f[x] : x \in symbols}
    BY <2>1 DEF Normalized
  <2> HIDE DEF f
  <2>4. IsFiniteSet(symbols')
    BY <2>1, <2>3, ImageFinite
  <2> QED
    BY <1>i, <1>p, <1>3, <2>2, <2>4 DEF NormalizeFixture
<1>4. CASE Ingest
  <2>1. IsFixture(symbols) /\ IsFiniteSet(symbols) /\ symbols' = Distinguished(symbols \cup Appended)
    BY <1>4 DEF Ingest, InMemory, InPlace, Appended
  <2>2. RowsDiffer(symbols') /\ Numbered(symbols')
    BY <2>1, AppendedType, GroupsFinite, DistinguishedNumbers
  <2> QED
    BY <1>i, <1>p, <1>4, <2>2 DEF Ingest
<1>5. CASE ApplyOverride
  <2>1. PICK x \in symbols : symbols' = (symbols \ {x}) \cup {Replaced(x, overrides[next])}
    BY <1>5 DEF ApplyOverride
  <2>2. symbols \subseteq Symbol /\ overrides[next] \in Override
    BY <1>5, NextOverride DEF ApplyOverride, TypeOK
  <2>3. RowsDiffer(symbols) /\ Numbered(symbols)
    BY <1>5 DEF ApplyOverride, InPlace
  <2>4. RowsDiffer(symbols') /\ Numbered(symbols')
    BY <2>1, <2>2, <2>3, ReplacedInPlace
  <2> QED
    BY <1>i, <1>p, <1>5, <2>4 DEF ApplyOverride
<1>6. CASE Normalize
  <2>1. symbols' = Normalized(symbols) /\ symbols \subseteq Symbol /\ RowsDiffer(symbols) /\ Numbered(symbols)
    BY <1>6 DEF Normalize, InPlace, TypeOK
  <2>2. RowsDiffer(symbols') /\ Numbered(symbols')
    BY <2>1, NormalizedInPlace
  <2>3. \A y \in symbols' : y.id = StableID(y)
    BY <2>1, NormalizedSymbol
  <2> QED
    BY <1>i, <1>p, <1>6, <2>2, <2>3 DEF Normalize
<1>7. CASE Publish
  <2>1. published' = symbols /\ at' = "idle" /\ at = "write"
    BY <1>7 DEF Publish
  <2> QED
    BY <1>i, <2>1 DEF InPlace
<1>8. CASE UNCHANGED <<at, symbols, published>>
  BY <1>8, <1>i DEF InPlace
<1> QED
  BY <1>1, <1>2, <1>3, <1>4, <1>5, <1>6, <1>7, <1>8
  DEF Next, Generate, Maintain, IngestFails, RefuseOverride, NormalizeFails,
      ReturnUnwritten, Return, UpdateLock, FetchOrLose, AddOverride, RemoveOverrides, BetweenRuns, vars, process

(* Between what a run replaces and what it publishes, the nth of m         *)
(* identical declarations of a source keeps its ID, whatever the rows, the *)
(* other sources, the scope of the run and the overrides were.             *)
THEOREM IdsStayStable == Spec => IdsAreStable
<1> DEFINE Stable == \A x \in published, y \in published' :
                       SamePlace(x, published, y, published') => x.id = y.id
<1>1. Init => InPlace
  BY DEF Init, InPlace, RowsDiffer, Numbered
<1>2. InPlace /\ InPlace' => Stable
  <2> SUFFICES ASSUME InPlace, InPlace', NEW x \in published, NEW y \in published',
                      SamePlace(x, published, y, published')
               PROVE  x.id = y.id
    OBVIOUS
  <2>1. RowsDiffer(published) /\ Numbered(published) /\ x.id = StableID(x)
    BY DEF InPlace
  <2>2. RowsDiffer(published') /\ Numbered(published') /\ y.id = StableID(y)
    BY DEF InPlace, RowsDiffer, Numbered, Rows, Group, StableID
  <2> QED
    BY <2>1, <2>2, PlaceGivesId
<1>3. Spec => []InPlace
  BY <1>1, InPlaceStep, Shaped, PTL DEF Spec
<1> QED
  BY <1>2, <1>3, PTL DEF IdsAreStable
=============================================================================
