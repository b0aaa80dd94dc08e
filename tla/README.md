# Verification of GoWin-AFO

GoWin-AFO generates Go bindings for the Windows API from locked metadata
sources, and comes with the small runtime those bindings call. This directory
holds TLA+ models of the parts of it that are hard to test: the ones that
rename files and directories while other processes may do the same or the
process may be killed, the ones that share state between goroutines and OS
threads, and the ones that pass evidence from one program to the next, from the
metadata to the declarations, the measured facts and the verdict of CI. Each
model is checked with TLC on small instances; of the safety properties, all but
the few that section 5 names are proved with TLAPS for every instance.

Paths below are relative to `src/`.

## 1. The system

| Component | State | Operations | What is hard |
|---|---|---|---|
| Generation transaction, `generator/transaction.go` | the checked-in tree, `.winapigen-stage-*` directories with their `backups` | `writeGeneration`, `preflightGeneration`, `commitGenerationWithOps` and its rollback | a failure or kill between any two renames, failures of the rollback itself, later runs over what is left |
| Source cache, `generator/internal/source/source.go` | `sources/cache/<id>` and its `.old`, `sources/staging-*` | `Fetch`, `fetchOne`, `verifyOne`, `installDir` | concurrent fetches, kills, wrong downloads, a lock that changes |
| Report files, `generator/pipeline.go`, `generator/coverage.go`, `generator/internal/verify/verify.go` | a report and its `.old` | `writeAtomicFile`, `writeAtomicStream`, `writeAtomic`, two `replaceFile` | kills, failures, racing writers, stale backups |
| Lazy procedures, `runtime/winabi/dll_windows.go` | one `sync.Once` and its result per procedure, per DLL, and for the loader | `Address`, `Available`, `TryCall`, `Call` | first calls that race, sticky errors, nested waiting |
| Apartments, `runtime/com/apartment.go`, `runtime/winrt/apartment.go` | `active` of each apartment; Go's thread locks; COM's count per thread | `EnterApartment`, `Close` | goroutines moving between threads, nesting, failure of the initialization |
| Generator pipeline, `generator/pipeline.go` | the inventory in memory | `Generate`, `ingestLocked`, duplicate marking | order of normalization, overrides and identity; errors after partial work |
| ABI verifier, `generator/internal/verify/` | the report in memory, evidence per architecture | `Run`, `compareInventory` | partial evidence, cancellation, a report written before the verdict is returned |
| Coverage, `generator/internal/coverage/` | reports and the baseline | `Build`, `Validate`, `Check`, `Diff` | exact ratios against rounded percentages, vacuous reports |
| Source lock and updates, `generator/internal/source/` | `sources.lock.json` | `validateLock`, `readNuGetUpdate` | cycles in dependencies, version precedence |
| Typed overrides, `generator/internal/metadata/override.go` | the symbols of the inventory | `LoadOverrides`, `ApplyOverrides` | stale expectations, application stopped half way |
| Reviewed slice, `generator/internal/slice/` | bindings of the slice and their manifest | `Render`, `ValidateDestinations`, `Write` | a manifest that is ahead of its files, a rollback that fails |
| Emitter, `generator/internal/emit/` | the two generated directories | `Render`, `Write` | what is counted as generated and not declared, accessors that differ from C |
| Metadata providers, `generator/internal/metadata/` | symbols and diagnostics while a file is read | `WinMDProvider.Ingest` | rows that cannot be decoded, calls that fit a word on one architecture only |
| Normalization and projection, `generator/internal/normalize/`, `projection/` | the inventory | `Inventory`, `StableID` | identities that collide or move |
| ABI oracle, `tools/abi-oracle/` | the checked-in results | `generate`, `compare` | evidence from another manifest, target or hand |
| Native ownership, `runtime/com`, `runtime/winrt` | BSTR, HSTRING, task memory, interface references | constructors, `Close`, `IIDs`, activation | release exactly once, on every path |
| ABI values, `runtime/winabi`, `runtime/com`, `runtime/winrt` | none | status codes, last errors, counts | a failure told as a success, upper halves of words |
| Generated bindings, `bindings/` | none | wrappers | output of the generator |

How they interact. `winapisource fetch` fills the source cache.
`winapigen` verifies that cache, ingests it, applies the overrides, and hands
everything rendered to the generation transaction. The slice, the emitter and
`writeReports` write only below the transaction's fresh stage, so the only
writes to shared paths are the transaction's renames. `winapicoverage baseline`
and `winapiverify` replace single report files. No process locks anything:
what they share is the file system, and what protects it are renames and the
order of the calls. The runtime is separate: the generated bindings call
procedures through lazy descriptors from any goroutine, and COM and WinRT calls
need an apartment.

What makes each correct:

* transaction: nothing the generator replaced is lost, a run replaces all or
  nothing, the manifest is never ahead of its artifacts, foreign files stay;
* cache: only whole, hashed content is ever exposed, and it is not lost;
* reports: the old report survives until the new one is there, results are true;
* lazy procedures: everyone gets one answer, a true one, and gets it;
* apartments: initializations are balanced on the right thread, and the
  goroutine stays on it exactly as long as needed;
* pipeline and coverage: every symbol is accounted for once; an accepted report
  follows from the inventory;
* verifier and oracle: no fact counts as verified without its evidence, the
  evidence is what the headers say, and CI reads the report of this run;
* source lock: no cycle, the newest version of the pin's channel, and a cache
  that serves what is locked;
* import and emission: every row has a symbol, what is counted as generated is
  declared once, and what is called fits the machine word;
* native calls and ownership: a failure is told as one, and what was allocated
  is given back once.

## 2. Plan

Written, in the order of importance in which it was done:

1. `GenerationCommit`, with the abstract `AtomicGeneration` and
   `GenerationRefinement` between the two; `GenerationCommitProofs`.
2. `SourceCache`; `SourceProofs`.
3. `LazyProc`; proofs in `RuntimeProofs`.
4. `ReportFile`; `ReportProofs`.
5. `Apartment`; proofs in `RuntimeProofs`.
6. `Pipeline`; `PipelineProofs`.
7. `AbiVerification` with `AbiFacts`; `AbiVerificationProofs`.
8. `CoverageGate`; proofs in `ReportProofs`.
9. `NativeOwnership`, beside it `NativeCalls`; `NativeOwnershipProofs`, of both.
10. `SourceTool` with `Versions` and `SourceFiles`; proofs in `SourceProofs`.
11. `Bindings` over `MetadataImport` (with `Signatures`) and `Emitter`;
   `BindingsProofs`.
12. `Evidence` over `AbiVerification` and `AbiOracle`, and `Regeneration` over
   `AbiVerification` and `ReviewedSlice`; proofs in `AbiVerificationProofs`.
13. `TreeWriters`; proofs in `GenerationCommitProofs`.

Left: two generators in one checkout; the decoding of override documents; the
other two metadata providers, once the program uses them.

## 3. What is modelled

What composes what: `GenerationRefinement` EXTENDS `GenerationCommit` and maps
it to `AtomicGeneration`; `MCGeneration` runs `TreeWriters` beside them.
`SourceTool` EXTENDS `Versions` and `SourceFiles`. `Evidence` EXTENDS
`AbiOracle`, and `Regeneration` EXTENDS `ReviewedSlice`; both of these EXTEND
`AbiVerification` and through it `AbiFacts`. `Bindings` EXTENDS `MetadataImport` and `Emitter`.
Modules that share no state are checked side by side, each moving only while the
other rests, so that a run adds their states up: `NativeOwnership` and `NativeCalls` in
`MCNativeOwnership`, `LazyProc` and `Apartment` in `MCRuntime`, `ReportFile` and
`CoverageGate` in `MCReportFile`, `SourceCache` and `SourceTool` in `MCSources`;
`MCAbiVerification` checks calls and both workflows, one in each behaviour.
Where a module stands for a component that another models in detail, it says so:
the report is replaced in one step in `AbiVerification`, the tree in
`Pipeline`, the cache directory in `SourceTool`.

### GenerationCommit

One action per call of `writeGeneration` and `commitGenerationWithOps` that
changes the tree or may fail. Targets are numbers in the order of the target
list; a destination holds nothing (`Absent`), something unrecognised
(`Foreign`), part of a tree (`Damaged`, after an interrupted `RemoveAll`), or
the output of run `r` (the number `r`, 0 for an earlier one). `phase` and
`cursor` are the program counter: `staging` (render, preflight), `place` (move
the old content into the stage: lines 315-332), `install` (333-336), `undo` and
`restore` (the two halves of a rollback item: 291-302, 303-307), `cleanup` (the
deferred `RemoveAll`, or its omission for a retained stage). `backedUp` and
`installed` are the fields of the items of `changed`; they and everything else
in memory are reset by `Crash`. `backups[r]` is what stage `r` still holds.
`pre`, `good` and `committed` are history, read by properties only.

Rendering into the stage is one step that may fail: it touches nothing outside
the stage. Between runs, `UserEdits` deletes a destination or puts a foreign
file there. One generator at a time is modelled, and nobody edits the tree
during a run: what two generators may do is a hazard of this code that no
property covers.

`AtomicGeneration` is what a reader of the tree may rely on: a run either
replaces every target in one step or is interrupted, and whatever an
interrupted run took away is saved. `GenerationRefinement` maps the
transaction to it: while a run works, the abstract tree is the one it began
with; a stage's backups count as saved once its run has ended without success.

### TreeWriters

`Write` of `generator/internal/slice/write.go` (with `ValidateDestinations`)
and `Write` of `generator/internal/emit/emit.go` (with `writeAtomic`), call by
call: any call on the file system may fail, the process may be killed between
two, and a person may edit the tree between two calls of a writer. The program
only ever calls both on the empty stage of the transaction
(`generator/transaction.go:43`), and `ValidateDestinations` also from its
preflight (line 113); their own documentation promises more, for any tree, and
that is what is modelled. Every call of `slice.Write` has a stage of its own;
one it retains is not touched again.

What follows from the code, and is not claimed: `emit.Write` leaves
`generated.old` behind when it is killed or its last `RemoveAll` fails, and
every later call that finds the directory refuses with "stale generated
backup", while one that finds none installs beside it; an error of that
`RemoveAll` is returned although the new tree is in place; and a path outside
the second root is found only after the first was replaced.

### SourceCache

`fetchOne` call by call for any number of fetchers of one source id.
Versions of the lock entry are numbers; the cache directory and its `.old` hold
a whole version, a damaged one, a corrupt one (an artifact that matches no
locked version), or nothing. `Check` is `verifyOne` (all of its comparisons
amount to "the content is that of the lock entry in hand"), `Download` and
`CheckHash` the stage, and `FindCache` to `Place` the branches of `installDir`.
The result of a `RemoveAll` interrupted anywhere is `DiscardPart`. Renaming a
directory over an existing one fails. `LockChanges` is the reviewed edit of
`sources.lock.json`; a fetch keeps the entry it has loaded. `active` and
`faulty`, chosen in `Init`, are the fetchers of a behaviour and whether calls
may fail or be killed; `Quiet` is one fetcher alone without faults.

### SourceTool, SourceFiles, Versions

`winapisource` on one lock. `Open` decodes the lock and makes the checks of
`validateLock` in their order, then `VisitRoot`, `VisitDependency` and
`FinishVisit` are the recursive search for a cycle, from roots in any order, as
the code ranges over a map. `fetch` and `verify` take the sources in turn and
run again on what they left, while the lock is edited and files of the cache
are damaged; `update` asks the index of every source. A command that starts
goes on to its end (`WF_vars(Next)`).

Its state is that of a command (`ToolInit`, `ToolNext`, `ToolSpec`: the module
has two specifications beside it in `SourceProofs`); `disk` is a function over
the directories any lock names (`CacheIds`), and which locked files an archive
has is a set of positions in it (`Selected`). A lock and an index are decoded:
their lists are lists and their versions text. An artifact is its hash, and the
path and the cleaned form of a name follow from its text.

`SourceFiles` has what a fetch makes of an artifact (`ExtractSelected`, the
copy of an SDK file, the manifest) and what `verifyOne` compares. A directory is
a function from paths to contents, and a name is known by its cleaned form, its
place on the disk and whether its text contains "..". `Versions` has both
orders on version strings, NuGet's and that of the overrides, on versions as
parsed.

Met on the way: `validateLock` accepts "a..b" and ".." that `extractSelected`
then refuses; an SDK source whose first file is in a directory can never be
copied; "./x" never matches an entry; the SDK resolver looks for
`Windows.winmd` whatever is locked; a locked `source.json` is fetched but never
verified, as the manifest replaces it; names that differ in case only collide on
a disk that folds case; the branch for an unrecognized NuGet URL is unreachable
behind `validateLock`; and the two orders disagree on labels in upper case or
with a sign, on numbers beyond an int and on versions of more than four parts.

### LazyProc

`Proc.Address`, `DLL.load` and `loadLibraryExWAddress` have one shape, a
`sync.Once` whose body first calls the function one layer up and then makes a
native call. They are one set of actions over cells; `at[g]` and `step[g]` say
in which function, and where in it, a goroutine is. `SkipBody` is enabled only
when the Once is done: this is how `Once.Do` waits. A cell's `value` is the
pair of its result and error. Any native call may fail. `native` and `failed`
are history.

### ReportFile

Both write functions and both `replaceFile`, for any number of writers of one
report: `Direct` says which of the two are in use. That of the verifier tries a
rename over the report first (`Replace`) and falls back to the other. A rename
of a file replaces the file of the new name. A kill leaves at most the
writer's own temporary file, which nothing reads. `active` is who writes in a
behaviour, and a writer meets faults only when it is alone (`Faulty`). When the backup cannot be
asked for, the verifier's `replaceFile` stops and the other one goes on.

### Apartment

`EnterApartment` and `Close`, identical in both packages, call by call. The Go
scheduler and COM are external: a goroutine without thread locks may run any
call on any thread that nobody is locked to, `LockOSThread` nests, and a thread
has a model and a count that `CoInitializeEx` and `CoUninitialize` move
(`S_FALSE` increments, `RPC_E_CHANGED_MODE` does not). The goroutine's own
`LockOSThread` calls are interleaved freely with its apartments. An apartment
is closed by the goroutine that entered it, as its documentation demands;
`CoUninitialize` is found whenever `CoInitializeEx` was, both being exports of
the same DLL.

### NativeOwnership

Every allocation the native side hands to Go: what `NewBSTR`, `AllocTaskMemory`
and `NewHString` give to an owner, the IID list of an `IInspectable`, and the
class name of an activation. `frees` counts what is given back, so a second free
shows. A freeing procedure is there or not for a whole behaviour (what
`LazyProc` shows), and that of an HSTRING may also refuse. An owner has one
goroutine. `lost` is history: what a freeing procedure refused at the return of a
call, and the list that `IIDs` leaves when the count is zero and the list is not
null (`runtime/winrt/inspectable.go:74`). `OwnershipHolds` leaves those out;
`IIDListsAreReleased`, about every list GetIids returned (`lists`), does not, and
is violated.

### NativeCalls

One native call of every shape, from the word it leaves to what the Go function
tells its caller. A byte has `Byte` values; a word is four bytes on 386 and eight
on amd64, of which only the lower half is defined for a 32-bit result; the last error may be stale, and
zero. The Go runtime's own keeping of the last error is external. Beside it the
parts of `ULARGE_INTEGER`, by value and in memory, the alignment of a counter,
and slices over native counts.

Met on the way: a class name that cannot be made reads `E_NOTIMPL`, so an
out-of-memory is hidden; an emitted wrapper calls `Proc.Call`, so a missing
export reads as a result of 0, which is `S_OK` for a status and a valid handle
for a rule that looks for `INVALID_HANDLE_VALUE`; `GetSystemTime` and
`Uninitialize` say nothing when their export is missing.

### Pipeline

`Generate` step by step: load and normalize the fixture; with `--all` ingest
the locked sources and tell duplicates apart; apply the overrides, one action
each; normalize everything again; write. Between runs a new version of a
source may be pinned (its cache then no longer verifies), a cache fetched or
removed, overrides added to and removed from the files.

A symbol is what the steps look at: its source, its declaration, its metadata
row, the ordinal that tells it from its duplicates, its ID, and two fields an
override may replace. A declaration stands for everything else that identifies
a symbol (namespace, kind, native name, architecture, signature, arity,
profile); SHA-256 is taken as injective, so a stable ID is the tuple of what is
hashed. `function` is the field that may not change on an emitted call and
`goName` stands for the others; a field that the symbol's JSON leaves out is
`Absent`. `raw` is history: the fields as ingested.

A source without a provider, and an optional one that is not in the cache, is
accounted for by one `Sentinel`; which status it gets is not modelled.
`markDuplicateOrigins` is left out, as nothing reads what it writes. A
provider, the rendering and the writing may fail at any time.
A fixture may hold declarations that collide, and does in one instance.
Overrides are written for published symbols and in the order of their IDs;
`after` changes some fields, and `before` lists the published values of any, be
they the ones that change or not: only what it lists is compared (`Stale`), and
a listed field that is absent is refused. `seen` is history, the symbol as the
author of the override saw it. The checks of `ApplyOverrides` for documents that
name a wrong source or a field that is not allowed never fire then, nor does the
validation of the replaced symbol, which looks at no such field. Version ranges
are pairs of numbers: how version strings compare is in `Versions`.
Writing replaces the published inventory in one step or not at all, which is
what `GenerationRefinement` shows of the transaction.

### MetadataImport, Signatures, Emitter, Bindings

`MetadataImport` reads one WinMD file row by row into symbols, `Signatures`
projects its types and decides what becomes of an import, `Emitter` says which
file declares which symbol under which build constraint and what the accessors
of bit fields and unions do, and `Bindings` has a Go program of one target
assign through those accessors, while `native` does what C would. A generated
type is a sequence of tokens; names are opaque. Bits are scaled: 4 for an
`int32`, 5 for the storage of bit fields.

Not claimed, because the code does otherwise: methods and fields of a type row
that cannot be decoded, and of `<Module>`, get no symbol; the slot of a vtable
is not advanced for an unreadable method; the kind of a nested type is decided
by its own, empty, namespace; varargs are not part of the canonical signature;
two emitted functions of one Go name in one namespace are both declared;
namespaces that fold to one package directory overwrite each other; parameters
named "a", "a" and "a_1" stay duplicates, and parameters may clash with names
the wrapper uses; callbacks, interfaces and functions are emitted whatever their
architecture; enum and flags kinds have no renderer; `renderBridge` always
declares the one function of the fixture. `projection.Decide`, `GoType` and the
`ecma335` reader are used by tests only.

### AbiVerification and AbiFacts

`VerifyABI` and `Run`: the generation, the manifests, one action per oracle
result with the checks of its provenance in their order, the comparison, the
report, the verdict; the context may be cancelled and the process killed
anywhere. The report is replaced as `ReportFile` shows in detail: when the write
fails or is killed, the old report, this one or none is at the path. `AbiFacts` is `compareInventory`: for every
measured fact the symbol it belongs to, and matched, unmatched or mismatched. What is said of an item is a list with a place
for each of its facts, and the three counters of the report are the sizes of the
sets of places with each outcome. A file is present or not, well formed or not; hashes are injective; IDs are
numbers in the order of their strings. `FirstAt` is the loop that returns the
first layout or field that matches; `Inventoried` is what an inventory is taken
to be.

Left out: the normalization of native type names, nested arrays, 64-bit
overflow, and array elements of size zero, at which the code divides
(`compare.go:411`). The command line always asks for the two executed results;
other lists and a cancellation are reached through the exported `VerifyABI`
only. There an empty list that is not nil compares nothing and passes, and of
two results for one architecture only the last accepted is compared
(`verify.go:166`). `arm64ec` is always "unsupported".

### Evidence, AbiOracle

One commit through `.github/workflows/abi.yml`: on each architecture a probe is
generated from the reviewed manifest and compiled; on those that can run it, it
is run and its result compared with the checked-in one; and the job of amd64 has
`winapiverify` compare the checked-in results with the inventory. A commit is
whatever the checkout holds: results measured from another manifest, by another
compiler or changed by hand, and a slice, its manifest and a lock that follow
from each other or do not. What a compiler finds for a target is `Headers`. The job of arm64
calls `winapiverify` too, on the same files: that second call is left out. The
sorted lists of a result are sets here, except where `Compare` walks them by
position. What JSON decoding leaves is assumed of the files of a commit: a probe
and a result have the fields of their types and finitely many items (`Object`,
`Decoded`, `Typed`).

Met on the way: the SDK version of a result is copied from the manifest and not
measured; JSON numbers above 2^53 are compared as floats, nil and empty lists
differ (neither is modelled); the producer accepts a probe whose ID is that of a
field of a record, which the consumer refuses; and a manifest edited together
with its artifact passes `winapiverify`, so that only rendering again finds it,
which is what `Regeneration` is about.

### Regeneration, ReviewedSlice

`ReviewedSlice` is `verifyPins` and `Render`: the slice is rendered only for a
lock that has the pins compiled into the generator, and its manifest names the
inputs and the hashes of the artifacts. `Regeneration` is one commit through
`.github/workflows/generation.yml`: `winapigen` writes the slice over the
checkout, `winapiverify` verifies the tree (the actions of `AbiVerification`),
and git rejects any drift from what was committed. A commit is any checkout:
nothing ties its slice to its manifest, nor either to the lock or to the
templates. The rest of that workflow (the sources, the other generated files, the
coverage gate, the second round) can only fail the job, which `JobFails` does.

### CoverageGate

`Build`, `Validate`, `Diff` and `Check` on reports of any small inventory, with
the commands of `winapicoverage` around two files that may also be edited by
hand. An inventory is a finite set of symbols, normalized: each has a status and
at least one architecture (`Normalized`). `byStatus` is kept count by count,
other maps of a report as the sums the code looks at. Accepting a baseline compares it with nothing, as in the
code; `Build` never counts ABI mismatches, so that the gate's check of them only
ever meets an edited file.

## 4. Runs

| Run | Instance | Distinct states | Shows |
|---|---|---|---|
| `generation` | 4 targets (tree, artifact, manifest, report), 2 runs; beside it 2 calls of each writer, over 3 files of a slice or 2 roots | 576 thousand | `TargetsAreSafe`, `ManifestNeverEarly`, `WritesAreSafe`, `RunsAreCareful`, `ImplementsAtomicGeneration`, `RunEnds` |
| `sources` | 1 or 2 fetchers, 3 versions, with and without faults; beside them `winapisource`: every dependency graph of 3 sources, every index of 1 or 2 versions and many of 3, 4 families of cached locks | 315 thousand | `CacheIsWhole`, `NoStaleBackup`, `OnlyVerifiedIsInstalled`, `CatchesUp`, `CyclesAreFound`, `UpdatesAreSound`, `CacheServesLock` |
| `runtime` | 3 goroutines, 3 procedures, 2 DLLs; beside them 2 goroutines, 3 threads, 5 apartments, 2 own locks each | 91 thousand | `AnswersHold`, `LoadedOnDemand`, `EveryCallReturns`, `LocksAreBalanced`, `StaysInApartment` |
| `report` | 1 writer with faults, 2 or 3 without, 3 contents; beside them the gate, on inventories of 4 or 5 symbols of at most 2 classes | 828 thousand | `ReportIsSafe`, `RaceSettles`, `NothingIsLost`, `BuiltIsValid` |
| `pipeline` | 2 sources and the fixture, 2 versions, 1 override | 376 thousand | `NoCollision`, `IdsAreStable` |
| `pipeline_edits` | a fixture that is edited, 2 overrides of any fields | 4.1 million | `OverridesTakeEffect`, `OverridesAreSafe` |
| `pipeline_update` | the same with 1 override | violated | `NothingIsOverwrittenUnseen` does not hold |
| `pipeline_overrides` | 2 sources, both required, 1 override | violated | `OverridesFindTargets` does not hold |
| `abi_verification` | 6980 single calls; 81 commits through the ABI workflow; 315 checkouts through the generation workflow, with slices, manifests, locks and reports edited apart or together | 533 thousand | `FactsAccounted`, `CompleteMeansMeasured`, `PassedMeansChecked`, `ReportMatchesResult`, `EvidenceIsMeasured`, `DifferencesAreFacts`, `SliceFollowsLock` |
| `native_ownership` | 2 goroutines, 3 allocations; calls with bytes of one bit | 318 thousand | `OwnershipHolds`, `OutcomesAreTold` |
| `native_iids` | the same | violated | `IIDListsAreReleased` does not hold |
| `bindings` | 5408 files, and the fixture alone for the accessors | 18 thousand | `InventoryIsFaithful`, `CallsFitWords`, `GeneratedIsDeclared`, `AccessorsAgree` |

Several properties are conjunctions of parts that are named, proved and broken
one by one. `TargetsAreSafe`: no content is lost, and all or nothing is
replaced. `RunsAreCareful`: a retained stage is complete, foreign files stay.
`CacheIsWhole`: never a part of a version, and never lost. `AnswersHold`: one
answer, true, of calls in order. `ReportIsSafe`: the report survives, the result
is true. `LocksAreBalanced`: per thread, and nothing left without an apartment.
`OverridesAreSafe`: every change traced to its overrides, no call ABI changed.
`OwnershipHolds`: pointers are live, each allocation has one owner.
`UpdatesAreSound`: the newest is reported, and overrides expire with the pin.
`InventoryIsFaithful`: every row has its symbol, and identities tell apart.
`WritesAreSafe`: old content is kept, stale backups stay, results are true, the
manifest comes last, hand-written files stay.

Why the bounds are enough. Two runs of the generator: the second meets whatever
a first one that succeeded, failed, was retained or was killed has left, and
its stage is its own; between them one destination is edited. Four targets:
something before and after the manifest, a tree that can be damaged and files
that cannot, and rollbacks that fail for some items and succeed for others. Two
calls of a writer for the same reason; of three files one is the manifest, so
that another comes before it and one can be restored after it. Two fetchers
reach every interleaving of one installation with another, three versions a lock
that changes in the middle of each. Three goroutines: one in the body of a Once,
one waiting for it, one elsewhere; two procedures that share a DLL and one that
does not. Three writers: one sets the report aside, one sees it missing, one
comes back later. One source that declares a call, or a type twice, of which
the fixture declares the same; another that can only have a sentinel; two
overrides that list and change any fields of a symbol, over a fixture in which a
name is removed and comes back between the runs. Three apartments of one goroutine: two that share a model
and one that cannot join them. Except for liveness, the theorems below do
without these bounds.

The others are enumerations of inputs. The calls of `abi_verification` have a
manifest, a lock, a checkout and results with each of the faults the code looks
for, and pairs of them, and inventories with every kind of symbol, exact,
neutral, of another architecture or absent; its commits every kind of baseline
and probe, five slice manifests over five locks and over three checkouts. Three sources have every cycle there
is up to renaming, and a search that reaches a finished one; three versions of
an index suffice for a choice that depends on their order. Three allocations are
an owner's, a call's and one that was freed; four bits to a half word have a
sign, a value whose sign depends on the width, and room for a scaled GUID. Five
symbols in two classes, with percentages in two steps: fractions that differ and
look the same, in either direction. The files of `bindings` have one function
with every pair of a parameter and a result type, three types nested in every
order, and a row that cannot be decoded in every table.
`MaxRuns`, `MaxCalls`, `MaxVersion`, `MaxOverrides`, `MaxOwn` and
`MaxAllocations` bound counters that the code does not; `Byte`, `IntBits`,
`StorageBits`, `MaxPart`, `MaxInt` and `Steps` scale its widths down.

Deadlock is checked, except where a call of a command ends and nothing follows:
in `abi_verification`, `sources` and `bindings`. The generator's model ends
when `MaxRuns` is used up, with the user still editing.

No run uses symmetry: it would not be sound where liveness is checked, and
costs more than it saves elsewhere.

Fairness asks only that a process that can make a step makes one
(`WF_vars(Step)` of the generator, `WF_lazyVars(Resolve(g))` of a goroutine that
looks up a procedure, `WF_vars(Runs(f))` of a fetcher): a Go program that is not
killed runs on, the Go scheduler runs every goroutine that can move, and the
calls into the file system, the network and Windows return. No call is assumed
to succeed. In `SourceCache` starting a fetch is fair too: "fetching again and
again brings the cache to the locked version". Starting a run of the generator,
calling a procedure, or killing a process is never forced.

What the models say beyond the properties:

* With two or more writers of a report, a kill between the renames of one and a
  replacement by another can lose the report and the backup, so
  `ReportIsSafe` is claimed for one writer only. A racing
  writer may also be told of an error although its report was installed: the
  other's `Remove` of the shared backup got there first.
* `replaceFile` of `pipeline.go` has a moment without a report at its path;
  that of `verify.go` has none as long as its direct rename works.
* Two fetchers without any fault can leave a `.old` behind for good: one sets
  the cache aside, the other installs into the gap, the first then fails and
  cannot restore. Every later fetch that needs to install is refused until
  somebody removes it, so `NoStaleBackup` and `CatchesUp` are claimed for one.
  It takes two first fetches only (a trace of 22 states).
* The ID of a duplicate contains its ordinal, and a declaration gets an ordinal
  only when it has a duplicate. So `IdsAreStable` speaks of the nth of m
  identical declarations: when a new version of the metadata repeats a
  declaration for the first time, the ID of the first one changes too, and an
  override of it is refused as not found.

The findings. `OverridesFindTargets` says what `docs/architecture.md` line 66
promises ("An override identifies a target symbol ID and source ID") and its
diagram draws ("normalized Inventory (stable ID + reason)" above "typed override
+ re-normalize"): an override that carries the stable ID of a symbol in the
inventory reaches that symbol. `Generate` normalizes the fixture, ingests the
sources and then applies the overrides; the ingested symbols have no ID before
the second normalization, so each override of one stops the run with "target
not found". TLC's trace is one run with `--all`, an override of a symbol that
run published, and a second run. Overrides of fixture symbols work; an override
of a locked source also stops every run without `--all`, where its target is not
in the inventory at all.

`NothingIsOverwrittenUnseen` says what `docs/source-model.md` line 111 promises
("`before` is compared against the current IR, so an SDK update that changes an
assumption fails rather than silently overwriting it"): a value that an override
replaces is the one its author saw. `ApplyOverrides` compares only the keys that
`before` lists, and neither the schema nor `Override.Validate` asks that these be
the ones `after` changes; a field that is empty cannot be listed at all. TLC's
trace: an override changes `goName` and does not list it, the fixture's name
changes, and the next run replaces the new name. `ChangesAreTraced` says what the
code does keep: what `before` lists is what the override finds.

`IIDListsAreReleased` says what the comment at `runtime/winrt/inspectable.go`
line 52 says ("then releases the native CoTaskMem allocation before returning")
and `docs/winrt.md` line 39: no list that GetIids returned outlives its call.
`IIDs` returns at a count of zero before it looks at the list, so a list that was
allocated for no interfaces stays allocated.

## 5. Proofs

For all values of the constants that satisfy the assumptions next to them:

* the marks are different from each other and from numbers; the artifacts come
  before the manifest and are no trees; every procedure has a DLL, every
  apartment an owner and a model; sets that are counted are finite;
* a metadata file has finitely many rows, each with its own number;
* what is decoded from JSON has the shape of its type: the lists of a lock, a
  slice and a call are lists, versions and labels are parsed, the items of a
  probe or a result are finitely many, and those of a result have the fields of
  their kinds;
* an inventory whose coverage is built is normalized (`Normalized`); one that
  results are compared with has one symbol of each ID, records whose fields have
  different names as C wants, sizes, lengths and packings that are numbers, and
  what is optional at most once (`Inventoried`);
* a byte has an even number of values, and what is counted fits 64 bits;
* signature types nest to some depth and have the parts that their element types
  have; names, sizes and modifiers are none of the marks that a canonical
  signature is punctuated with, and no modifier is an element type
  (`SigAssumption`): the text of the code puts the same parts between the same
  marks, and that a name may contain one is left out;
* the rows of a metadata file have the columns of their tables, and its source is
  not the project's fixture (`FileAssumption`); the fixture has the declarations
  that its schema allows: bit fields packed in one word, unions with one layout
  for each architecture that holds their views (`FixtureAssumption`);
* two artifacts with one hash are one artifact, none is numbered 0, and all of a
  file's name follows from its text.

Each theorem, and the argument it rests on:

* `GenerationCommitProofs`: all safety properties of the transaction and
  `TypeOK`. The inductive invariant places every target relative to the cursor:
  those before it are `Placed`, those after it `Untouched` while replacing and
  `Settled` while undoing, the one at it is in between. `NothingLost` alone is
  not inductive: a rename into a destination is harmless only because of what
  this says the destination holds. One lemma per action. `RunsStayCareful` joins
  an invariant and an action property in one temporal step. `RefinesAtomic`
  proves the refinement: the abstract tree changes in the step that ends a run,
  where every target is either `Placed`, or as it was, or saved in the stage
  (`Displaced`). `WritersAreSafe` is
  `WritesAreSafe` of the two writers, for any number of files and calls: each
  place is where the writer has got to with it, found by its item in `changed` or
  by the cursor (`WriterInv`), and the undo never meets an installed manifest,
  as that is the last to be installed.
* `SourceProofs`: `CacheIsWhole` and `OnlyVerifiedIsInstalled` for any
  number of fetchers. At most one fetcher owns the gap between the two renames in
  the sense that the backup it made is whole until a whole cache is in place; the
  others can only fill the gap with what they have verified. `NoBackupIsLeft`:
  alone and without faults, a fetcher has a backup only between its own renames.
  `CyclesAreAlwaysFound`: a numbering of the sources that respects the
  dependencies descends along the calls of `visit`, so a call that comes back to
  its path refutes every numbering; and the finished sources always have one,
  which the next source to finish extends. `UpdatesAreAlwaysSound`: each of the
  two orders is decided by the first difference; comparisons that agree place by
  place agree there, so both are total and transitive, and they agree on plain
  versions; the loop over an index then ends with a version none is newer than.
  `CacheAlwaysServesLock`: a directory is written in one turn, by the source
  whose ID it has; whatever damage happens, a file with the hash of an artifact
  came with its download; and a manifest with as many paths as names has one
  path for each name.
* `RuntimeProofs`, of the two modules of the runtime's synchronization. The
  safety properties of `LazyProc` for any number of
  goroutines, procedures and DLLs: a cell is unresolved until its Once is done
  and resolved after it; a running Once has exactly one holder, and the holders
  of the cells above and below it are the same goroutine.
  The properties of `Apartment` for any number of goroutines, threads
  and apartments: the invariant counts, a goroutine's locks are its own, plus
  one for each active apartment, plus one while an unlock is due.
* `ReportProofs`: `ReportIsSafe` for one writer with any faults,
  `RaceSettles` for any number without. Of the gate, `BuildsAreValid` and
  `PassMeansNothingLost`: the statuses partition what is counted, a ratio that
  is not lower over a total that is not smaller has no smaller count, and the
  rounded percentage is monotone in the ratio.
* `PipelineProofs`: `TypeOK`, `NoCollision`, `OverridesTakeEffect`,
  `OverridesAreSafe` and `IdsAreStable` for any fixture, locked metadata and
  overrides. `NoCollision` needs to know that until ingestion the inventory is
  unnumbered rows of the fixture alone, that an ordinal counts a finite set which
  grows with the row, and that replacing fields leaves the identity alone.
  `CallABIUnchanged` is inductive on top of the types; without those, an override
  might not be one. `ChangesAreTraced` is inductive with the shape of a run: a
  field holds what the last edit so far made of it (`Held`), so the next override
  finds just that, and the passes between move symbols without touching their
  fields (`HeldStays`, `ApplyTraced`, `NormalizeTraced`). The effects rest on three facts: every ID in memory is
  none, or what the fields of its symbol give; the pass over duplicates leaves
  a normalized fixture alone; and a symbol without an ID cannot be given the ID
  of one an override was applied to, as the normalization would have collided.
  Then every value of a field is the metadata's or that of its last edit. For
  `IdsAreStable` every pass leaves each declaration with the number of its
  earlier duplicates (`Numbered`), which for the nth of m is the same in every
  version of the metadata.
* `NativeOwnershipProofs`: `OwnershipHolds` for any number of goroutines and
  allocations. Every live allocation that is not lost has exactly one place that
  points to it; the three ways a step moves a pointer (it is handed out, given
  back, or kept) are a lemma each. `OutcomesAlwaysTold` is `OutcomesAreTold` for
  every `Byte`, 256 among them: one lemma per call, over lemmas of arithmetic. A
  word is its halves, which `Int32` reads as the property says; a count fits if
  it is at most the quotient (`FitsChecked`); a 64-bit number, its two signed
  views and its eight bytes determine each other (`SignedTold`, `ViewsAgree`,
  `BytesTold`).
* `AbiVerificationProofs`: `ReportMatchesResult`, `PassedMeansChecked`,
  `FactsAccounted` and `CompleteMeansMeasured`, for any files, of a single call (`Spec`) and of every call
  that the ABI workflow makes of a commit (`EvidenceSpec`). Of the exit: a report of this run
  is at the path only once it is finished (`Silent`), through failures and kills
  of its writing. The invariant of the loop over the
  results says that without a mismatch every result so far that was required was
  accepted, with the provenance that was checked; the comparison restates each of
  its probes. `FactsAccounted` (invariant `Accounting`): every kind of item says
  as many things as it has facts, different items say them of different facts, so
  sayings and facts are in bijection, and the three totals are the sizes of
  disjoint sets of them. Of the workflow, `EvidenceIsMeasured` (invariant
  `Evident`): each job's source, object and result
  are those the commit's probe gives on its target, and what two jobs compared is
  what `winapiverify` compared. Of the generation workflow, `SliceFollowsLock`
  (`RegenerationSpec`, invariant `Regenerated`): after the generation the tree is
  the rendered one, whatever was committed, and without drift it is the commit's.
  `DifferencesAreFacts` (invariant `Measures`): the
  sorted lists of two results that hold the same items pair up by ID and rank, so
  that each value that differs is one slot with one path and one fact; and the
  facts of a result determine its items. `CompleteMeansMeasured` (invariant
  `Detailing`: what is compared is a validated result of that architecture, and
  the inventory stays the one of the run): nothing is left unmatched or mismatched
  of the items of a complete symbol (`Whole`), so each kind says the measured
  value; the one symbol with the best score is the most specific; and the code's
  running sum of aligned sizes is where C places the fields, by induction over
  them, as there is one multiple of the alignment in the interval C allows
  (`AlignsUp`, `PlacesExist`, `OffsetsAgree`).
* `BindingsProofs`: the four properties of `Bindings`, for any file, fixture and
  widths. The invariant (`ImportInv`) says that the symbols so far are those of
  the rows of the heads that were taken, each once: what a row becomes depends
  on the file alone (`SymbolOf`). Of `InventoryIsFaithful`, the walk outwards
  from a type ends within as many steps as there are types (a pigeonhole,
  `WalkEnds`), and what it passed is what is enclosed in every closed set
  (`NamespaceIsOutermost`). That no two methods share a canonical signature is
  read off it from left to right (`PrefixesCancel`): the custom modifiers end at
  the element type, the owner at its "::", and a list where no type can start
  (`ListsApart`); by induction over the nesting, a type is then told by its
  signature whatever follows (`TypesTold`). `CallsFitWords`: the projection of a
  type exists and is unique (`ProjectUnfolds`), and a word in Go is only ever
  projected from a primitive of its width and sign (`WordsFit`). For
  `GeneratedIsDeclared` each kind has one file and each target compiles one of
  those it might be in (`DeclaredOnce`). `AccessorsAgree` (invariant
  `ObjectInv`: the record holds the bits it has in C): a member that the emitter
  puts at an offset lies there in C and within the storage (`MembersLie`), so
  both write the same bits, and shifting up and down again extends the sign as C
  does (`ExtendsSign`).

Only model-checked:

* liveness (`RunEnds`, `CatchesUp`, `EveryCallReturns`), which needs fairness and `ENABLED`, both out of the prover's reach.

Induction over data is out of the prover's reach as a rule, since the induction
theorems take an operator. Where a proof here needs it, of a recursive function
or of a loop, it takes a least counterexample from the well-foundedness of the
numbers instead (`Least`, `MinIn`). A function that is
defined from itself, as are the projection and the canonical signature of a type,
is shown to exist for each depth, and to be the same at each (`ProjectUpTo`,
`ProjectOnce`), before its definition can be unfolded.

## 6. Not modelled

`PROJECT.json` lists every component with its reason. The definitions of these
modules stand for about 30 per cent of the implementation's lines; of the rest,
nearly two thirds are `bindings/` as generated. What remains:

* the text of what the renderers write, name transformations, the templates of
  the slice, and the Markdown reports: no state, and no property is about their
  wording;
* the Clang AST and type library providers and the `ecma335` reader, which the
  program does not call;
* the decoding and validation of JSON documents (overrides, fixtures, manifests),
  one Boolean where a property needs it; `validate` of the oracle, the look-ups
  of an inventory and of the metadata file of a source, which change nothing;
* GUIDs, UTF-16, parameterized interface identifiers and the validation of DLL
  and procedure names: pure conversions covered by table tests;
* two generators in one checkout, and edits of the tree during a run;
* `Close` of an apartment on another goroutine, which its documentation forbids,
  and the references of COM objects, which belong to the client.

One thing met on the way is not modelled: `writeReports` says that the legacy
`coverage/inventory.json` is removed once its replacement is durable
(`generator/pipeline.go` lines 252-254), but it runs with the stage as its root,
where there is no such file, so the one in the tree stays.
