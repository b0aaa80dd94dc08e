--------------------------- MODULE AbiVerification ---------------------------
(***************************************************************************)
(* winapiverify: VerifyABI of src/generator/verify.go and Run of           *)
(* src/generator/internal/verify/verify.go.  The inventory is generated,   *)
(* the slice manifest, the source lock and the probe manifest are loaded,  *)
(* every oracle result is validated and either accepted or recorded as a   *)
(* mismatch, the accepted ones are compared with the inventory (AbiFacts), *)
(* and the report is written before a mismatch is returned.                *)
(*                                                                         *)
(* A file is << >> when there is none; its field wellFormed stands for the *)
(* strict decoding and the required properties.  Writing the report is one *)
(* step here, with every file that can be left at its path; ReportFile     *)
(* models how it is replaced.                                              *)
(***************************************************************************)
EXTENDS AbiFacts, FiniteSetsExt, Functions

CONSTANTS
  Runs,     \* what a call may meet: see RunFields
  Version   \* the version of the generator

RunFields == {"inventory", "slice", "lock", "checkout", "probe", "oracles", "arm64"}

(* Files are decoded from JSON: what they list is finite.                  *)
FiniteFile(oracle) ==
  IsFiniteSet(oracle.items) /\ \A i \in oracle.items : i.kind = "record" => IsFiniteSet(i.fields)

(* An inventory: IDs tell its symbols apart, and C the fields of a record; *)
(* what is optional is there at most once, sizes and packings are numbers. *)
Listed(s) == s \in Seq(ToSet(s))
AtMostOne(s) == s = <<>> \/ s = <<s[1]>>

ElementType(type) ==
  /\ type.class = "scalar" => type.bytes \in {1, 2, 4, 8}
  /\ type.class = "named" =>
       Listed(type.layouts) /\ \A l \in ToSet(type.layouts) : l.size \in Nat /\ l.alignment \in Nat
FieldType(type) ==
  ElementType(type) /\ (type.class = "array" => type.length \in Nat /\ ElementType(type.element))

DeclaredType(type) ==
  /\ Listed(type.fields) /\ Listed(type.layouts) /\ Listed(type.methods)
  /\ \A i, j \in DOMAIN type.fields : type.fields[i].name = type.fields[j].name => i = j
  /\ \A f \in ToSet(type.fields) :
       FieldType(f.type) /\ (f.bits # <<>> => f.bits = <<[offset |-> f.bits[1].offset, width |-> f.bits[1].width]>>)
  /\ \A l \in ToSet(type.layouts) : Listed(l.fields) /\ l.pack \in Nat

Inventoried(inventory) ==
  /\ \A s, t \in inventory : s.id = t.id => s = t
  /\ \A s \in inventory :
       /\ s.id \in Int /\ AtMostOne(s.constant) /\ AtMostOne(s.guid)
       /\ s.constant # <<>> => AtMostOne(s.constant[1])
       /\ s.type # <<>> => DeclaredType(s.type[1])

ASSUME RunsAssumption ==
  \A r \in Runs :
    /\ DOMAIN r = RunFields /\ Inventoried(r.inventory)
    /\ r.slice.inputs \in Seq(ToSet(r.slice.inputs))
    /\ r.oracles \in Seq(ToSet(r.oracles))
    /\ \A input \in ToSet(r.oracles) : input.file # <<>> => FiniteFile(input.file[1])

VARIABLES
  pc,          \* where Run is
  run,         \* what this call meets
  cancelled,   \* is the context cancelled?
  next,        \* the oracle input to load next
  mismatches,  \* report.Mismatches: [code, arch], arch = "" for none
  sdks,        \* lockedSDKs
  accepted,    \* the oracle result accepted last for each architecture
  status,      \* architectureState
  report,      \* the finished report
  disk,        \* the report file: whose it is, and the report
  result       \* what the call returned

loading == <<mismatches, sdks, accepted, status>>
vars == <<pc, run, cancelled, next, loading, report, disk, result>>

Architectures == {"386", "amd64", "arm64", "arm64ec"}
NoReport == [passed |-> FALSE, mismatches |-> {}, status |-> << >>, oracles |-> {}]

(* One call, as winapiverify makes; an earlier one may have left a report. *)
Init ==
  /\ pc = "generate" /\ run \in Runs /\ cancelled = FALSE /\ next = 1
  /\ mismatches = {} /\ sdks = {} /\ accepted = << >> /\ status = << >>
  /\ report = NoReport /\ disk \in {[from |-> f, report |-> NoReport] : f \in {"none", "earlier"}}
  /\ result = "none"

-----------------------------------------------------------------------------
(* Loading and validation                                                  *)
Hash(content) == <<"sha256", content>>

Mismatch(code, arch) == [code |-> code, arch |-> arch]

LoadedSlice(slice) ==
  /\ slice.wellFormed
  /\ slice.inputs # <<>> /\ slice.artifacts # <<>>
  /\ IsInjective([i \in DOMAIN slice.inputs |-> slice.inputs[i].descriptor])
  /\ IsInjective([i \in DOMAIN slice.artifacts |-> slice.artifacts[i].path])

LoadedLock(lock) ==
  /\ lock.wellFormed
  /\ lock.sources # <<>>
  /\ IsInjective([i \in DOMAIN lock.sources |-> lock.sources[i].id])

(* verifySliceAndLock.  files is what the checkout holds: path |-> content.*)
Locked(input, lock) == {s \in ToSet(lock.sources) : s.id = input.source}

(* Mutant: a source of the right version is taken for the right source.    *)
InputByVersion(input, lock) ==
  (IF Hash(input.descriptor) # input.descriptorHash THEN {Mismatch("slice-descriptor-hash-mismatch", "")} ELSE {})
  \cup (IF Locked(input, lock) = {} THEN {Mismatch("slice-source-not-locked", "")} ELSE {})
  \cup {Mismatch("slice-source-version-mismatch", "") : s \in {l \in Locked(input, lock) : l.version # input.version}}

InputMismatches(input, lock) ==
  (IF Hash(input.descriptor) # input.descriptorHash THEN {Mismatch("slice-descriptor-hash-mismatch", "")} ELSE {})
  \cup (IF Locked(input, lock) = {} THEN {Mismatch("slice-source-not-locked", "")} ELSE {})
  \cup UNION {
    (IF s.version # input.version THEN {Mismatch("slice-source-version-mismatch", "")} ELSE {})
    \cup (IF s.hash # input.hash THEN {Mismatch("slice-source-hash-mismatch", "")} ELSE {}) : s \in Locked(input, lock)}

ArtifactMismatches(artifact, files) ==
  IF artifact.path \notin DOMAIN files THEN {Mismatch("slice-artifact-unreadable", "")}
  ELSE IF Hash(files[artifact.path]) # artifact.hash THEN {Mismatch("slice-artifact-hash-mismatch", "")}
  ELSE {}

SliceMismatches(slice, lock, files) ==
  (IF slice.generator # Version THEN {Mismatch("slice-generator-version-mismatch", "")} ELSE {})
  \cup (UNION {InputMismatches(i, lock) : i \in ToSet(slice.inputs)})
  \cup (UNION {ArtifactMismatches(a, files) : a \in ToSet(slice.artifacts)})

LockedSDKs(slice, lock) ==
  {s.sdk : s \in {l \in ToSet(lock.sources) :
     \E i \in ToSet(slice.inputs) : i.source = l.id /\ i.version = l.version /\ i.hash = l.hash}}

UniqueIds(items) == \A i, j \in items : i.id = j.id => i = j

LoadedProbe(probe) ==
  /\ probe.wellFormed /\ probe.arch \in Architectures
  /\ UniqueIds(probe.items)
  /\ \A i \in probe.items : i.kind = "record" => UniqueIds(i.fields)

LoadedOracle(oracle) ==
  /\ oracle.wellFormed /\ oracle.arch \in Architectures
  /\ UniqueIds(oracle.items)
  /\ \A i \in oracle.items :
       /\ i.kind = "record" => i.alignment # 0 /\ UniqueIds(i.fields)
       /\ i.kind = "function" => i.typeCompatible

(* What a probe says without its measurement (compareProbeShape).          *)
Shape(item) ==
  CASE item.kind = "record"   -> <<item.kind, item.id, item.name, item.shape, {<<f.id, f.name>> : f \in item.fields}>>
    [] item.kind = "function" -> <<item.kind, item.id, item.name, item.convention>>
    [] item.kind = "vtable"   -> <<item.kind, item.id, item.name, item.method>>
    [] OTHER                  -> <<item.kind, item.id, item.name>>

(* The manifest hash depends on the architecture it was rendered for.      *)
ManifestHash(probe, arch) == Hash([probe EXCEPT !.arch = arch])

(* Mutant: the manifest hash is taken as proof of what was measured.       *)
ProvenanceByHash(probe, oracle) ==
  (IF oracle.source # probe.source THEN {"oracle-source-mismatch"} ELSE {})
  \cup (IF oracle.sdk # probe.sdk THEN {"oracle-sdk-mismatch"} ELSE {})
  \cup (IF oracle.profile # probe.profile THEN {"oracle-profile-mismatch"} ELSE {})
  \cup (IF oracle.manifest # ManifestHash(probe, oracle.arch) THEN {"oracle-manifest-hash-mismatch"} ELSE {})

ProvenanceCodes(probe, oracle) ==
  (IF oracle.source # probe.source THEN {"oracle-source-mismatch"} ELSE {})
  \cup (IF oracle.sdk # probe.sdk THEN {"oracle-sdk-mismatch"} ELSE {})
  \cup (IF oracle.profile # probe.profile THEN {"oracle-profile-mismatch"} ELSE {})
  \cup (IF oracle.manifest # ManifestHash(probe, oracle.arch) THEN {"oracle-manifest-hash-mismatch"} ELSE {})
  \cup (IF {Shape(i) : i \in oracle.items} # {Shape(i) : i \in probe.items} THEN {"oracle-probe-shape-mismatch"} ELSE {})

-----------------------------------------------------------------------------
Running == pc # "done"

Goto(from, to) == pc = from /\ pc' = to /\ UNCHANGED result

Return(r) == pc' = "done" /\ result' = r

Cancel ==
  /\ Running /\ ~cancelled
  /\ cancelled' = TRUE
  /\ UNCHANGED <<pc, run, next, loading, report, disk, result>>

(* Generate fails, or the context is cancelled: Run writes nothing.        *)
Generate ==
  /\ pc = "generate"
  /\ \/ Return("error")
     \/ cancelled /\ Return("cancelled")
     \/ ~cancelled /\ Goto("generate", "manifests")
  /\ UNCHANGED <<run, cancelled, next, loading, report, disk>>

LoadManifests ==
  LET sliceOk == LoadedSlice(run.slice)
      lockOk  == LoadedLock(run.lock)
  IN
  /\ Goto("manifests", "oracles")
  /\ mismatches' =
       (IF sliceOk THEN {} ELSE {Mismatch("slice-manifest-invalid", "")})
       \cup (IF lockOk THEN {} ELSE {Mismatch("source-lock-invalid", "")})
       \cup (IF sliceOk /\ lockOk THEN SliceMismatches(run.slice, run.lock, run.checkout) ELSE {})
       \cup (IF LoadedProbe(run.probe) THEN {} ELSE {Mismatch("oracle-manifest-invalid", "")})
  /\ sdks' = IF sliceOk /\ lockOk THEN LockedSDKs(run.slice, run.lock) ELSE {}
  /\ UNCHANGED <<run, cancelled, next, accepted, status, report, disk>>

Put(f, x, y) == [z \in DOMAIN f \cup {x} |-> IF z = x THEN y ELSE f[z]]

(* What is wrong with an input: the mismatches it adds.  An optional one   *)
(* that is missing adds none, nor does any when there is no probe manifest *)
(* to check it against; neither is accepted.                               *)
InputCodes(input) ==
  IF input.file = <<>> THEN IF input.required THEN {"oracle-result-invalid"} ELSE {}
  ELSE IF ~LoadedOracle(input.file[1]) THEN {"oracle-result-invalid"}
  ELSE IF input.file[1].arch # input.arch THEN {"oracle-architecture-mismatch"}
  ELSE IF ~LoadedProbe(run.probe) THEN {}
  ELSE LET provenance == ProvenanceCodes(run.probe, input.file[1])
       IN IF provenance # {} THEN provenance
          ELSE IF sdks # {} /\ input.file[1].sdk \notin sdks THEN {"oracle-sdk-not-locked"} ELSE {}

Accepts(input) == input.file # <<>> /\ LoadedProbe(run.probe) /\ InputCodes(input) = {}

(* One iteration of the loop over the oracle results.                      *)
LoadOracle ==
  LET input == run.oracles[next]
  IN
  /\ pc = "oracles" /\ next <= Len(run.oracles) /\ ~cancelled
  /\ mismatches' = mismatches \cup {Mismatch(c, input.arch) : c \in InputCodes(input)}
  /\ IF Accepts(input)
     THEN /\ accepted' = Put(accepted, input.arch, input.file[1])
          /\ status' = Put(status, input.arch, "executed")
     ELSE /\ status' = Put(status, input.arch, "unavailable")
          /\ UNCHANGED accepted
  /\ next' = next + 1
  /\ UNCHANGED <<pc, run, cancelled, sdks, report, disk, result>>

(* Mutant: the report is written although the loop was cancelled.          *)
LoadCancelledReports ==
  /\ pc = "oracles" /\ next <= Len(run.oracles) /\ cancelled
  /\ Return("cancelled")
  /\ disk' = [from |-> "this", report |-> report]
  /\ UNCHANGED <<run, cancelled, next, loading, report>>

LoadCancelled ==
  /\ pc = "oracles" /\ next <= Len(run.oracles) /\ cancelled
  /\ Return("cancelled")
  /\ UNCHANGED <<run, cancelled, next, loading, report, disk>>

(* The comparison of the accepted results, the architectures without one,  *)
(* and finalizeReport.                                                     *)
Summarized(arch, entries) ==
  [arch       |-> arch,
   entries    |-> entries,
   facts      |-> FactTotal(accepted[arch].items),
   matched    |-> Total(entries, {"matched"}),
   unmatched  |-> Total(entries, {"unmatched"}),
   mismatched |-> Total(entries, {"mismatched"}),
   complete   |-> Complete(entries)]

Summary(arch) == Summarized(arch, CompareInventory(run.inventory, run.probe.items, accepted[arch]))

Fallback(arch) ==
  IF arch = "arm64" /\ LoadedProbe(run.probe) /\ run.arm64.object = ManifestHash(run.probe, "arm64") THEN "compile-only"
  ELSE IF arch = "arm64" /\ run.arm64.gate THEN "configured-only"
  ELSE "unavailable"

(* finalizeReport: one mismatch fails the report.                          *)
FinalReport(found, oracles) ==
  [passed     |-> found = {},
   mismatches |-> found,
   status     |-> [a \in Architectures |-> IF a = "arm64ec" THEN "unsupported"
                                           ELSE IF a \in DOMAIN status THEN status[a] ELSE Fallback(a)],
   oracles    |-> oracles]

Finish ==
  LET oracles == {Summary(a) : a \in DOMAIN accepted}
      found == {Mismatch("abi-mismatch", o.arch) : o \in
                {p \in oracles : \E e \in p.entries : Count(e, {"mismatched", "kind"}) # 0}}
  IN
  /\ pc = "oracles" /\ next > Len(run.oracles)
  /\ Goto("oracles", "write")
  /\ report' = FinalReport(mismatches \cup found, oracles)
  /\ UNCHANGED <<run, cancelled, next, loading, disk>>

Missing == [from |-> "none", report |-> NoReport]
Written == [from |-> "this", report |-> report]

(* writeAtomic, or its error: before anything changed; with the old report *)
(* set aside and not put back; or with this one in place, when the backup  *)
(* cannot be removed.                                                      *)
WriteReport ==
  /\ pc = "write"
  /\ \/ disk' = Written /\ Return(IF report.passed THEN "ok" ELSE "mismatch")
     \/ disk' \in {disk, Missing, Written} /\ Return("error")
  /\ UNCHANGED <<run, cancelled, next, loading, report>>

(* While the report is written, a kill leaves what an error can leave.     *)
Kill ==
  /\ Running /\ Return("killed")
  /\ disk' \in IF pc = "write" THEN {disk, Missing, Written} ELSE {disk}
  /\ UNCHANGED <<run, cancelled, next, loading, report>>

Next == Cancel \/ Generate \/ LoadManifests \/ LoadOracle \/ LoadCancelled \/ Finish \/ WriteReport \/ Kill

Spec == Init /\ [][Next]_vars

-----------------------------------------------------------------------------
(* What a file measured, whatever the comparison made of it.               *)
Measured(item) ==
  CASE item.kind = "record" -> {<<"size">>, <<"alignment">>} \cup {<<"offset", f.id>> : f \in item.fields}
    [] OTHER -> ToSet(Facts(item))

(* Whatever the comparison could or could not relate to the inventory,     *)
(* every measured fact is exactly once in the report, as matched, as       *)
(* unmatched or as mismatched, the three add up to the number of facts of  *)
(* the file, and one mismatch of any kind fails the report.                *)
FactsAccounted ==
  \A o \in report.oracles :
    /\ \A e \in o.entries : \A f \in Measured(e.item) : Cardinality({i \in DOMAIN e.says : e.says[i].fact = f}) = 1
    /\ o.facts = o.matched + o.unmatched + o.mismatched
    /\ \A e \in o.entries : (\E i \in DOMAIN e.says : e.says[i].outcome \in {"mismatched", "kind"}) => ~report.passed

(* The layout a C compiler gives the fields: each at the first multiple of *)
(* its alignment (that of its type, or the packing when that is less) that *)
(* the fields before leave free.  An independent reading of the same       *)
(* types.                                                                  *)
Word(arch) == IF arch = "386" THEN 4 ELSE 8
CElement(type, arch) ==
  CASE type.class = "pointer" -> [size |-> Word(arch), alignment |-> Word(arch)]
    [] type.class = "scalar"  -> [size |-> type.bytes, alignment |-> type.bytes]
    [] type.class = "named"   -> FindLayout(type.layouts, arch)[1]
CSize(type, arch) ==
  IF type.class = "array" THEN type.length * CElement(type.element, arch).size ELSE CElement(type, arch).size
CAlignment(type, pack, arch) ==
  LET own == CElement(IF type.class = "array" THEN type.element ELSE type, arch).alignment
  IN IF pack = 0 THEN own ELSE Min({pack, own})
COffsets(fields, pack, arch) ==
  LET at[i \in DOMAIN fields] ==
        LET free == IF i = 1 THEN 0 ELSE at[i - 1] + CSize(fields[i - 1].type, arch)
            a    == CAlignment(fields[i].type, pack, arch)
        IN CHOOSE o \in free..free + a - 1 : o % a = 0
  IN at

Declares(type, field, arch) ==
  LET layout == FindLayout(type.layouts, arch)[1]
      names(i) == {type.fields[i].name, type.fields[i].native}
  IN \E i \in DOMAIN type.fields :
       /\ field.name \in names(i)
       /\ IF layout.fields # <<>> THEN \E l \in ToSet(layout.fields) : l.name \in names(i) /\ l.offset = field.offset
          ELSE field.offset = IF type.kind = "union" THEN 0 ELSE COffsets(type.fields, layout.pack, arch)[i]

MostSpecific(inventory, s, item, arch) ==
  LET same(t) == t.name = s.name /\ IF item.kind = "guid" THEN t.guid # <<>> ELSE t.kind \in Kinds(item)
  IN s.arch = arch \/ (s.arch \in Neutral /\ \A t \in inventory : same(t) => t.arch # arch)

Describes(s, item, probe, arch) ==
  CASE item.kind = "record" ->
         /\ \E l \in ToSet(s.type[1].layouts) : l.size = item.size /\ l.alignment = item.alignment
         /\ \A f \in item.fields : Declares(s.type[1], f, arch)
    [] item.kind = "value"    -> s.constant = <<<<item.value>>>>
    [] item.kind = "guid"     -> s.guid = <<item.value>>
    [] item.kind = "vtable"   -> \E m \in ToSet(s.type[1].methods) : m.name = item.method /\ m.index = item.index
    [] item.kind = "function" -> s.function[1].shape = probe.expectedType
    [] item.kind = "bitfield" -> \E f \in ToSet(s.type[1].fields) :
                                   f.bits = <<[offset |-> item.offset, width |-> item.width]>>

(* A symbol that is reported as completely verified on an architecture is  *)
(* the most specific one of its name there, and says what the compiler     *)
(* measured: a record has the measured size and alignment, and C puts its  *)
(* fields where they were measured; a constant, a GUID, a vtable slot and  *)
(* a bit field have the measured value, a function the reviewed type.      *)
CompleteMeansMeasured ==
  \A o \in report.oracles : \A e \in o.entries : \A id \in e.symbol \cap o.complete :
    LET s == CHOOSE t \in run.inventory : t.id = id
        probe == CHOOSE p \in run.probe.items : p.id = e.item.id
    IN MostSpecific(run.inventory, s, e.item, o.arch) /\ Describes(s, e.item, probe, o.arch)

(* What a passed report may be trusted with: the artifacts on disk are     *)
(* those of the manifest, the manifest's inputs are the locked sources,    *)
(* and for every required architecture every probe of the reviewed         *)
(* manifest was measured for that architecture, with an SDK that a locked  *)
(* input pins, and compared.  An oracle cannot leave out the probe it      *)
(* would fail.                                                             *)
PassedMeansChecked ==
  report.passed =>
    /\ \A a \in ToSet(run.slice.artifacts) :
         a.path \in DOMAIN run.checkout /\ a.hash = Hash(run.checkout[a.path])
    /\ \A i \in ToSet(run.slice.inputs) :
         \E s \in ToSet(run.lock.sources) : s.id = i.source /\ s.version = i.version /\ s.hash = i.hash
    /\ \A input \in ToSet(run.oracles) : input.required =>
         \E o \in report.oracles :
           /\ o.arch = input.arch
           /\ {e.item.id : e \in o.entries} = {p.id : p \in run.probe.items}
           /\ accepted[o.arch].manifest = Hash([run.probe EXCEPT !.arch = o.arch])
           /\ \E s \in ToSet(run.lock.sources) : s.sdk = accepted[o.arch].sdk

(* What the exit of winapiverify says of the report on disk.  After        *)
(* success it is the report of this very run, passed; after a verification *)
(* error the report of this very run, failed; after a cancellation it is   *)
(* the file that was there.  An error or a kill says nothing of whose it   *)
(* is, but what this run leaves is its finished report, never a part.      *)
ReportMatchesResult ==
  /\ result = "ok" => disk.from = "this" /\ disk.report.passed
  /\ result = "mismatch" => disk.from = "this" /\ ~disk.report.passed
  /\ result \in {"none", "cancelled"} => disk.from # "this"
  /\ disk.from = "this" => disk.report = report /\ DOMAIN report.status = Architectures
=============================================================================
