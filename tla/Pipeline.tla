------------------------------ MODULE Pipeline ------------------------------
(***************************************************************************)
(* The generator pipeline: Generate and ingestLocked in                    *)
(* src/generator/pipeline.go, with ApplyOverrides, normalize.Inventory and *)
(* the inputs a maintainer changes between runs: the locked metadata and   *)
(* the reviewed overrides.                                                 *)
(*                                                                         *)
(* A run builds one inventory in memory: the fixture, normalized; with     *)
(* --all the symbols of every locked source; duplicates told apart;        *)
(* overrides applied one by one; everything normalized again; written.     *)
(*                                                                         *)
(* A declaration stands for the namespace, kind, name, architecture,       *)
(* signature, arity and profile of a symbol; SHA-256 over them is taken as *)
(* injective, so a stable ID is the tuple of what is hashed.  The fields   *)
(* an override may replace are abstracted to two: "function", whose change *)
(* is refused on an emitted call, and "goName" for the others.  A field    *)
(* that is left out of the JSON of a symbol (omitempty) is Absent.         *)
(***************************************************************************)
EXTENDS Integers, Sequences, FiniteSets

CONSTANTS
  Locked,      \* the sources of sources.lock.json, numbered in order of ID
  WinMD,       \* those of a type that has a metadata provider
  Required,    \* those whose absence fails Verify
  Decl,        \* declarations
  Callable,    \* declarations with a generated callable status
  Value,       \* values of an overridable field, Absent among them
  Absent,      \* a field that is empty, and null in an override
  Fixtures,    \* what the fixture file may hold: sets of metadata rows
  Contents,    \* what a version of a WinMD source may contain
  Ranges,      \* version ranges an override may carry
  MaxVersion,  \* bound on the versions of a source
  MaxOverrides, \* bound on the number of overrides checked in
  NoId         \* the empty ID of a symbol that was never normalized

Fixture == 0
Source  == {Fixture} \cup Locked
Field   == {"goName", "function"}
Row     == [decl : Decl, row : Nat, value : [Field -> Value]]

ASSUME SourceAssumption ==
  /\ Locked \subseteq Nat \ {0}
  /\ WinMD \subseteq Locked
  /\ Required \subseteq Locked
  /\ Decl \cap Locked = {}

ASSUME DeclAssumption == Callable \subseteq Decl /\ Absent \in Value

ASSUME BoundAssumption == MaxVersion \in Nat \ {0} /\ MaxOverrides \in Nat

\* A file has finitely many rows, and a row number identifies one of them.
ASSUME RowAssumption ==
  \A C \in Contents \cup Fixtures :
       /\ C \subseteq Row
       /\ IsFiniteSet(C)
       /\ \A x, y \in C : x.row = y.row => x = y

NoOrdinal == -1   \* the signature has no "#upstream-duplicate" suffix

Id == Source \X (Decl \cup Locked) \X (Nat \cup {NoOrdinal})

ASSUME IdAssumption == NoId \notin Id

Symbol == [source : Source, decl : Decl \cup Locked, row : Nat,
           ordinal : Nat \cup {NoOrdinal}, id : Id \cup {NoId},
           value : [Field -> Value], raw : [Field -> Value],
           manual : BOOLEAN]

\* The JSON object of an override's before or after: some of the fields.
Fields == UNION {[F -> Value] : F \in SUBSET Field}

\* seen is not in the file: it is what the symbol was when the override was
\* written.  before lists the fields its author chose to list; when it has
\* no field of Field it lists the native name or the signature, which the
\* symbol ID fixes anyway.
Override == [symbol : Id, source : Source, range : Ranges,
             seen : [Field -> Value], before : Fields, after : Fields]

VARIABLES
  lock,       \* version and content pinned for each WinMD source
  cache,      \* what verifyOne finds for each locked source
  overrides,  \* checked-in overrides, in the order of their IDs
  published,  \* the symbols of coverage/inventory.json.gz
  at,         \* where the run is
  all,        \* the run was started with --all
  symbols,    \* inv.Symbols of the run
  next,       \* index of the next override to apply
  result      \* what the latest run returned, until an input changes

inputs  == <<lock, cache, overrides>>
process == <<at, all, symbols, next, result>>
vars    == <<inputs, published, process>>

Stage  == {"idle", "fixture", "ingest", "override", "write"}
Reason == {"not_found", "other_source", "out_of_range", "call_ABI", "stale"}
Result == {"none", "ok", "collision", "not_ready", "provider", "write"} \cup Reason

TypeOK ==
  /\ lock \in [WinMD -> [version : 1 .. MaxVersion, rows : Contents]]
  /\ cache \in [Locked -> {"missing", "invalid", "verified"}]
  /\ overrides \in Seq(Override)
  /\ published \subseteq Symbol
  /\ at \in Stage
  /\ all \in BOOLEAN
  /\ symbols \subseteq Symbol
  /\ next \in Nat \ {0}
  /\ result \in Result

Init ==
  /\ lock \in [WinMD -> [version : {1}, rows : Contents]]
  /\ cache = [s \in Locked |-> "missing"]
  /\ overrides = <<>>
  /\ published = {}
  /\ at = "idle"
  /\ all = FALSE
  /\ symbols = {}
  /\ next = 1
  /\ result = "none"

-----------------------------------------------------------------------------
(* The passes over the inventory.                                          *)

\* A symbol as a provider returns it; raw is the history of its fields.
Fresh(s, r) ==
  [source |-> s, decl |-> r.decl, row |-> r.row, ordinal |-> NoOrdinal,
   id |-> NoId, value |-> r.value, raw |-> r.value, manual |-> FALSE]

\* sourceSentinel: the symbol that accounts for a source without metadata.
Sentinel(s) ==
  Fresh(s, [decl |-> s, row |-> 0, value |-> [f \in Field |-> Absent]])

\* What the loop of ingestLocked appends for one locked source.
Ingested(s) ==
  IF s \in WinMD /\ cache[s] = "verified"
  THEN {Fresh(s, r) : r \in lock[s].rows}
  ELSE {Sentinel(s)}

\* Manager.Verify returns no error.
InputsReady ==
  \A s \in Locked : cache[s] = "verified" \/ (cache[s] = "missing" /\ s \notin Required)

\* Mutant: the ordinal is not part of what is hashed.
StableIDWithoutOrdinal(x) == <<x.source, x.decl>>

StableID(x) == <<x.source, x.decl, x.ordinal>>

Collide(S) == \E x, y \in S : x # y /\ StableID(x) = StableID(y)

Normalized(S) == {[x EXCEPT !.id = StableID(x)] : x \in S}

Group(x, S) == {y \in S : y.source = x.source /\ y.decl = x.decl}

Ordinal(x, S) == Cardinality({y \in Group(x, S) : y.row < x.row})

\* Mutant: the duplicates of all sources are one group.
DistinguishedAcrossSources(S) ==
  {IF \E y \in S : y # x /\ y.decl = x.decl
   THEN [x EXCEPT !.ordinal = Cardinality({y \in S : y.decl = x.decl /\ y.source < x.source})]
   ELSE x : x \in S}

\* Mutant: the pass is left out.
NotDistinguished(S) == S

\* disambiguateExactMetadataDuplicates: number the identical declarations
\* of one source in row order.
Distinguished(S) ==
  {IF Group(x, S) # {x} THEN [x EXCEPT !.ordinal = Ordinal(x, S)] ELSE x : x \in S}

-----------------------------------------------------------------------------
(* One run of Generate.                                                    *)

Return(reason) ==
  /\ at' = "idle"
  /\ all' = FALSE
  /\ symbols' = {}
  /\ next' = 1
  /\ result' = reason
  /\ UNCHANGED <<inputs, published>>

\* LoadFixture.
Begin ==
  /\ at = "idle"
  /\ at' = "fixture"
  /\ all' \in BOOLEAN
  /\ symbols' \in {{Fresh(Fixture, r) : r \in F} : F \in Fixtures}
  /\ result' = "none"
  /\ UNCHANGED <<inputs, published, next>>

\* The first normalize.Inventory, of the fixture alone.
NormalizeFixture ==
  /\ at = "fixture"
  /\ ~Collide(symbols)
  /\ symbols' = Normalized(symbols)
  /\ at' = IF all THEN "ingest" ELSE "override"
  /\ UNCHANGED <<inputs, published, all, next, result>>

\* ingestLocked, when Verify returns no error, then
\* disambiguateExactMetadataDuplicates.  The duplicateProjectionOf note that
\* markDuplicateOrigins leaves in the attributes is read by nothing.
Ingest ==
  /\ at = "ingest"
  /\ InputsReady
  /\ symbols' = Distinguished(symbols \cup UNION {Ingested(s) : s \in Locked})
  /\ at' = "override"
  /\ UNCHANGED <<inputs, published, all, next, result>>

\* ingestLocked: a source is not ready, or a provider fails.
IngestFails ==
  /\ at = "ingest"
  /\ \/ ~InputsReady /\ Return("not_ready")
     \/ /\ InputsReady
        /\ \E s \in WinMD : cache[s] = "verified"
        /\ Return("provider")

\* source.Version of the inventory; only WinMD sources move.
VersionOf(s) == IF s \in WinMD THEN lock[s].version ELSE 1

InRange(s, range) == range[1] <= VersionOf(s) /\ VersionOf(s) <= range[2]

ChangesCall(o, x) == "function" \in DOMAIN o.after /\ x.decl \in Callable

\* A listed field has another value, or is not in the symbol's JSON at all.
\* A field that is not listed is not compared, whether it changes or not.
Stale(o, x) ==
  \E f \in DOMAIN o.before : x.value[f] = Absent \/ x.value[f] # o.before[f]

\* Mutant: the recorded before values are not compared.
RefusalIgnoringBefore(o, x) ==
  IF x.source # o.source THEN "other_source"
  ELSE IF ~InRange(o.source, o.range) THEN "out_of_range"
  ELSE IF ChangesCall(o, x) THEN "call_ABI"
  ELSE "none"

\* Mutant: the ABI of an emitted call may be replaced.
RefusalIgnoringABI(o, x) ==
  IF x.source # o.source THEN "other_source"
  ELSE IF ~InRange(o.source, o.range) THEN "out_of_range"
  ELSE IF Stale(o, x) THEN "stale"
  ELSE "none"

\* The checks of ApplyOverrides on one override and its target, in order.
\* Its last, replacement.Validate, looks at nothing an override can change.
Refusal(o, x) ==
  IF x.source # o.source THEN "other_source"
  ELSE IF ~InRange(o.source, o.range) THEN "out_of_range"
  ELSE IF ChangesCall(o, x) THEN "call_ABI"
  ELSE IF Stale(o, x) THEN "stale"
  ELSE "none"

Merged(value, after) ==
  [f \in Field |-> IF f \in DOMAIN after THEN after[f] ELSE value[f]]

\* Mutant: every override starts from the symbol as it was ingested.
ReplacedFromRaw(x, o) == [x EXCEPT !.value = Merged(x.raw, o.after), !.manual = TRUE]

Replaced(x, o) == [x EXCEPT !.value = Merged(x.value, o.after), !.manual = TRUE]

\* ApplyOverrides, one override.
ApplyOverride ==
  /\ at = "override"
  /\ next <= Len(overrides)
  /\ \E x \in symbols :
       /\ x.id = overrides[next].symbol
       /\ Refusal(overrides[next], x) = "none"
       /\ symbols' = (symbols \ {x}) \cup {Replaced(x, overrides[next])}
  /\ next' = next + 1
  /\ UNCHANGED <<inputs, published, at, all, result>>

Missing(o) == \A x \in symbols : x.id # o.symbol

RefuseOverride ==
  /\ at = "override"
  /\ next <= Len(overrides)
  /\ \/ Missing(overrides[next]) /\ Return("not_found")
     \/ \E x \in symbols :
          /\ x.id = overrides[next].symbol
          /\ Refusal(overrides[next], x) # "none"
          /\ Return(Refusal(overrides[next], x))

\* Every override was applied: the second normalize.Inventory.
Normalize ==
  /\ at = "override"
  /\ next > Len(overrides)
  /\ ~Collide(symbols)
  /\ symbols' = Normalized(symbols)
  /\ at' = "write"
  /\ UNCHANGED <<inputs, published, all, next, result>>

NormalizeFails ==
  /\ at = "fixture" \/ (at = "override" /\ next > Len(overrides))
  /\ Collide(symbols)
  /\ Return("collision")

\* writeGeneration; AtomicGeneration says that it replaces all or nothing.
Publish ==
  /\ at = "write"
  /\ published' = symbols
  /\ at' = "idle"
  /\ all' = FALSE
  /\ symbols' = {}
  /\ next' = 1
  /\ result' = "ok"
  /\ UNCHANGED inputs

\* A dry run (winapigen inspect, VerifyABI), or rendering or writeGeneration
\* fails.
ReturnUnwritten == at = "write" /\ \E reason \in {"ok", "write"} : Return(reason)

-----------------------------------------------------------------------------
(* The inputs, between runs.                                               *)

BetweenRuns ==
  /\ at = "idle"
  /\ result' = "none"
  /\ UNCHANGED <<published, at, all, symbols, next>>

\* A new version is pinned; what is cached does not verify against it.
UpdateLock(s) ==
  /\ BetweenRuns
  /\ lock[s].version < MaxVersion
  /\ \E C \in Contents :
       lock' = [lock EXCEPT ![s] = [version |-> lock[s].version + 1, rows |-> C]]
  /\ cache' = [cache EXCEPT ![s] = IF @ = "missing" THEN @ ELSE "invalid"]
  /\ UNCHANGED overrides

\* The source is fetched, or its cache is removed.
FetchOrLose(s) ==
  /\ BetweenRuns
  /\ \E found \in {"verified", "missing"} : cache' = [cache EXCEPT ![s] = found]
  /\ UNCHANGED <<lock, overrides>>

\* A maintainer writes an override of a published declaration, under an ID
\* that sorts after the others: after changes some fields, before lists the
\* published values of any.
AddOverride ==
  /\ BetweenRuns
  /\ Len(overrides) < MaxOverrides
  /\ \E x \in {y \in published : y.decl \in Decl}, r \in Ranges, L \in SUBSET Field :
     \E F \in SUBSET Field \ {{}} : \E new \in [F -> Value] :
       /\ \A f \in F : new[f] # x.value[f]
       /\ overrides' = Append(overrides,
            [symbol |-> x.id, source |-> x.source, range |-> r, seen |-> x.value,
             before |-> [f \in L |-> x.value[f]], after |-> new])
  /\ UNCHANGED <<lock, cache>>

RemoveOverrides ==
  /\ BetweenRuns
  /\ overrides # <<>>
  /\ overrides' \in {<<>>, Tail(overrides)}
  /\ UNCHANGED <<lock, cache>>

Generate ==
  \/ Begin \/ NormalizeFixture \/ Ingest \/ IngestFails
  \/ ApplyOverride \/ RefuseOverride
  \/ Normalize \/ NormalizeFails \/ Publish \/ ReturnUnwritten

Maintain ==
  \/ \E s \in WinMD : UpdateLock(s)
  \/ \E s \in Locked : FetchOrLose(s)
  \/ AddOverride \/ RemoveOverrides

Next == Generate \/ Maintain

Spec == Init /\ [][Next]_vars
-----------------------------------------------------------------------------
(* Properties.                                                             *)

\* Telling duplicates apart is enough: whatever the locked metadata holds,
\* and whatever was overridden, the second normalization finds no two
\* symbols with one stable ID.
NoCollision == at = "override" => ~Collide(symbols)

\* The stable ID of the nth of m identical declarations of a source depends
\* on n, m and the declaration alone: not on row numbers, on other sources,
\* on the scope of the run or on overrides.
SamePlace(x, S, y, T) ==
  /\ x.source = y.source
  /\ x.decl = y.decl
  /\ Cardinality(Group(x, S)) = Cardinality(Group(y, T))
  /\ Ordinal(x, S) = Ordinal(y, T)

IdsAreStable ==
  [][\A x \in published, y \in published' :
       SamePlace(x, published, y, published') => x.id = y.id]_vars

Applied == 1 .. (next - 1)

\* The overrides applied so far to a symbol, and those that edit a field.
Targeting(x) == {i \in Applied : overrides[i].symbol = x.id}

Edits(x, f) == {i \in Targeting(x) : f \in DOMAIN overrides[i].after}

\* Every override applied so far shows in its target, field by field, unless
\* a later one edits the same field again; none undoes the edit of another
\* field.
OverridesTakeEffect ==
  \A i \in Applied : \E x \in symbols :
    /\ x.id = overrides[i].symbol
    /\ x.manual
    /\ \A f \in DOMAIN overrides[i].after :
         \/ x.value[f] = overrides[i].after[f]
         \/ \E j \in Edits(x, f) : j > i

\* v is what field f of x was before the overrides from the ith on.
Held(x, f, i, v) ==
  \/ /\ \A j \in Edits(x, f) : j >= i
     /\ v = x.raw[f]
  \/ \E j \in Edits(x, f) :
       /\ j < i
       /\ \A k \in Edits(x, f) : k <= j \/ k >= i
       /\ v = overrides[j].after[f]

\* A symbol is what its metadata says with the overrides applied to it, in
\* their order, and nothing else.  Each of them is for the locked version,
\* and every value its before lists is the one it found: what the metadata
\* now says, or what the overrides before it made of that.
ChangesAreTraced ==
  \A x \in symbols :
    /\ \A f \in Field : Held(x, f, next, x.value[f])
    /\ \A i \in Targeting(x) :
         /\ InRange(x.source, overrides[i].range)
         /\ \A f \in DOMAIN overrides[i].before : Held(x, f, i, overrides[i].before[f])

\* docs/source-model.md: "before is compared against the current IR, so an
\* SDK update that changes an assumption fails rather than silently
\* overwriting it".  A value that an override replaces is the one its author
\* saw.  Only the fields listed in before are compared, and before need not
\* list the ones that after changes.
NothingIsOverwrittenUnseen ==
  \A x \in symbols : \A i \in Targeting(x) :
    \A f \in DOMAIN overrides[i].after : Held(x, f, i, overrides[i].seen[f])

\* No chain of overrides gives an emitted call another ABI than the one the
\* projection found callable.
CallABIUnchanged ==
  \A x \in symbols \cup published :
    x.decl \in Callable => x.value["function"] = x.raw["function"]

\* Both: what overrides change can be traced to them, and the ABI of a call
\* is not among it.
OverridesAreSafe == ChangesAreTraced /\ CallABIUnchanged

\* docs/architecture.md: "An override identifies a target symbol ID and
\* source ID".  An override that carries the stable ID of a symbol of the
\* inventory is applied to it or refused for what it says; it is not lost.
OverridesFindTargets ==
  at = "override" /\ next <= Len(overrides) =>
    ((\E x \in symbols : StableID(x) = overrides[next].symbol) => ~Missing(overrides[next]))

=============================================================================
