------------------------ MODULE AbiVerificationProofs ------------------------
(***************************************************************************)
(* What the result and the report of winapiverify may be trusted with, for *)
(* every slice, lock, checkout, probe manifest, inventory and list of      *)
(* oracle results; and with the reports and comparisons CI makes of every  *)
(* commit (Evidence).                                                      *)
(*                                                                         *)
(* The facts: every kind of item says as many things as it has facts, of   *)
(* facts no other item has, so what is said is in bijection with what was  *)
(* measured.  The differences: two lists of the same items pair up by ID   *)
(* and rank, so each value that differs is one path and one fact.  The     *)
(* complete symbols: a comparison with nothing left over says the measured *)
(* values, and the running sum of the code is C's layout (OffsetsAgree).   *)
(***************************************************************************)
EXTENDS Evidence, Regeneration, FiniteSetTheorems, SequenceTheorems, WellFoundedInduction, TLAPS

-----------------------------------------------------------------------------
(* Until Run returns it has written nothing and answered nothing; what it  *)
(* goes to write is finished.                                              *)
Silent ==
  /\ Running => disk.from # "this" /\ result = "none"
  /\ pc = "write" => DOMAIN report.status = Architectures

Exit == Silent /\ ReportMatchesResult

LEMMA ExitStep == ASSUME Exit, [Next]_vars PROVE Exit'
<1> USE DEF Exit, Silent, ReportMatchesResult, Running
<1>1. CASE Cancel
  BY <1>1 DEF Cancel
<1>2. CASE Generate
  BY <1>2 DEF Generate, Return, Goto
<1>3. CASE LoadManifests
  BY <1>3 DEF LoadManifests, Goto
<1>4. CASE LoadOracle
  BY <1>4 DEF LoadOracle
<1>5. CASE LoadCancelled
  BY <1>5 DEF LoadCancelled, Return
<1>6. CASE Finish
  <2>1. DOMAIN report'.status = Architectures
    BY <1>6 DEF Finish, FinalReport
  <2> QED
    BY <1>6, <2>1 DEF Finish, Goto
<1>7. CASE WriteReport
  BY <1>7 DEF WriteReport, Written, Missing, Return
<1>8. CASE Kill
  <2>1. CASE pc = "write"
    BY <1>8, <2>1 DEF Kill, Written, Missing, Return
  <2>2. CASE pc # "write"
    BY <1>8, <2>2 DEF Kill, Return
  <2> QED
    BY <2>1, <2>2
<1>9. CASE UNCHANGED vars
  BY <1>9 DEF vars
<1> QED
  BY <1>1, <1>2, <1>3, <1>4, <1>5, <1>6, <1>7, <1>8, <1>9 DEF Next

(* The exit and the file agree: the report is written in the step that     *)
(* returns, and nothing changes it after Finish.                           *)
THEOREM ExitMatchesReport == Spec => []ReportMatchesResult
<1>1. Init => Exit
  BY DEF Init, Exit, Silent, ReportMatchesResult
<1>2. Exit /\ [Next]_vars => Exit'
  BY ExitStep
<1>3. Exit => ReportMatchesResult
  BY DEF Exit
<1> QED
  BY <1>1, <1>2, <1>3, PTL DEF Spec

-----------------------------------------------------------------------------
(* The verification of the slice and the lock left no mismatch.            *)
Manifests ==
  /\ LoadedSlice(run.slice) /\ LoadedLock(run.lock) /\ LoadedProbe(run.probe)
  /\ SliceMismatches(run.slice, run.lock, run.checkout) = {}
  /\ sdks = LockedSDKs(run.slice, run.lock)

(* What was accepted passed every check, against the manifests as loaded.  *)
Fits(arch) ==
  /\ accepted[arch].arch = arch
  /\ ProvenanceCodes(run.probe, accepted[arch]) = {}
  /\ sdks = {} \/ accepted[arch].sdk \in sdks

(* The state of the loop: without a mismatch the manifests are verified,   *)
(* and no required result before the next one is left out.                 *)
Loop ==
  /\ mismatches = {} => Manifests
  /\ \A a \in DOMAIN accepted : Fits(a)
  /\ mismatches = {} =>
       \A k \in 1..Len(run.oracles) : k < next /\ run.oracles[k].required => run.oracles[k].arch \in DOMAIN accepted

Lists(r) == r.slice.inputs \in Seq(ToSet(r.slice.inputs)) /\ r.oracles \in Seq(ToSet(r.oracles))

Started ==
  /\ Lists(run) /\ next \in Nat \ {0}
  /\ pc \in {"idle", "generate", "manifests"} => accepted = << >> /\ next = 1
  /\ pc \in {"idle", "generate", "manifests", "oracles"} => ~report.passed
  /\ pc = "oracles" => Loop

LEMMA Shapes == ASSUME NEW i PROVE Shape(i)[2] = i.id
  BY DEF Shape

LEMMA SummaryOf ==
  ASSUME NEW a
  PROVE  /\ Summary(a).arch = a
         /\ Summary(a).entries = CompareInventory(run.inventory, run.probe.items, accepted[a])
  BY DEF Summary, Summarized

(* The entries of a comparison are those of the items of the oracle.       *)
LEMMA EntryItems ==
  ASSUME NEW inventory, NEW probes, NEW oracle
  PROVE  {e.item.id : e \in CompareInventory(inventory, probes, oracle)} = {i.id : i \in oracle.items}
<1>1. ASSUME NEW arch, NEW i, NEW p PROVE CompareItem(inventory, arch, i, p).item = i
  BY DEF CompareItem
<1> DEFINE Entry(i) == CompareItem(inventory, oracle.arch, i, CHOOSE p \in probes : p.id = i.id)
<1>2. CompareInventory(inventory, probes, oracle) = {Entry(i) : i \in oracle.items}
  BY DEF CompareInventory
<1>3. \A i : Entry(i).item = i
  BY <1>1
<1> HIDE DEF Entry
<1> QED
  BY <1>2, <1>3

(* An oracle of the same shapes has measured the same probes.              *)
LEMMA SameIds ==
  ASSUME NEW S, NEW T, {Shape(i) : i \in S} = {Shape(i) : i \in T}
  PROVE  {i.id : i \in S} = {i.id : i \in T}
<1>1. ASSUME NEW A, NEW B, {Shape(i) : i \in A} = {Shape(i) : i \in B}, NEW i \in A
      PROVE  i.id \in {j.id : j \in B}
  <2>1. PICK j \in B : Shape(i) = Shape(j)
    BY <1>1
  <2> QED
    BY <2>1, Shapes
<1>2. \A i \in S : i.id \in {j.id : j \in T}
  BY <1>1
<1>3. \A i \in T : i.id \in {j.id : j \in S}
  BY <1>1
<1> QED
  BY <1>2, <1>3

(* An input without a mismatch is locked.                                  *)
LEMMA InputIsLocked ==
  ASSUME NEW i, NEW lock, InputMismatches(i, lock) = {}
  PROVE  \E s \in ToSet(lock.sources) : s.id = i.source /\ s.version = i.version /\ s.hash = i.hash
<1>1. Locked(i, lock) # {}
  BY DEF InputMismatches
<1>2. PICK s \in Locked(i, lock) : TRUE
  BY <1>1
<1>3. s.version = i.version /\ s.hash = i.hash
  <2> DEFINE Wrong(t) ==
        (IF t.version # i.version THEN {Mismatch("slice-source-version-mismatch", "")} ELSE {})
        \cup (IF t.hash # i.hash THEN {Mismatch("slice-source-hash-mismatch", "")} ELSE {})
  <2>1. UNION {Wrong(t) : t \in Locked(i, lock)} = {}
    BY DEF InputMismatches
  <2>2. Wrong(s) \in {Wrong(t) : t \in Locked(i, lock)}
    BY <1>2
  <2>3. Wrong(s) = {}
    <3> HIDE DEF Wrong
    <3> QED
      BY <2>1, <2>2
  <2> QED
    BY <2>3
<1> QED
  BY <1>2, <1>3 DEF Locked

(* Verified manifests: the artifacts are on disk, every input is locked,   *)
(* and at least one SDK is.                                                *)
LEMMA ManifestsVerified ==
  ASSUME Lists(run), Manifests
  PROVE  /\ \A a \in ToSet(run.slice.artifacts) :
              a.path \in DOMAIN run.checkout /\ a.hash = Hash(run.checkout[a.path])
         /\ \A i \in ToSet(run.slice.inputs) :
              \E s \in ToSet(run.lock.sources) : s.id = i.source /\ s.version = i.version /\ s.hash = i.hash
         /\ sdks # {}
         /\ \A k \in sdks : \E s \in ToSet(run.lock.sources) : s.sdk = k
<1>1. ASSUME NEW a \in ToSet(run.slice.artifacts)
      PROVE  a.path \in DOMAIN run.checkout /\ a.hash = Hash(run.checkout[a.path])
  <2>1. ArtifactMismatches(a, run.checkout) = {}
    BY <1>1 DEF Manifests, SliceMismatches
  <2> QED
    BY <2>1 DEF ArtifactMismatches
<1>2. ASSUME NEW i \in ToSet(run.slice.inputs)
      PROVE  \E s \in ToSet(run.lock.sources) : s.id = i.source /\ s.version = i.version /\ s.hash = i.hash
  <2>1. InputMismatches(i, run.lock) = {}
    BY <1>2 DEF Manifests, SliceMismatches
  <2> QED
    BY <2>1, InputIsLocked
<1>3. sdks # {}
  <2>1. run.slice.inputs # <<>> /\ run.slice.inputs \in Seq(ToSet(run.slice.inputs))
    BY DEF Manifests, LoadedSlice, Lists
  <2>2. run.slice.inputs[1] \in ToSet(run.slice.inputs)
    BY <2>1, EmptySeq DEF ToSet
  <2>3. PICK s \in ToSet(run.lock.sources) : s.id = run.slice.inputs[1].source
             /\ s.version = run.slice.inputs[1].version /\ s.hash = run.slice.inputs[1].hash
    BY <1>2, <2>2
  <2>4. s.sdk \in LockedSDKs(run.slice, run.lock)
    BY <2>2, <2>3 DEF LockedSDKs
  <2> QED
    BY <2>4 DEF Manifests
<1>4. ASSUME NEW k \in sdks PROVE \E s \in ToSet(run.lock.sources) : s.sdk = k
  BY DEF Manifests, LockedSDKs
<1> QED
  BY <1>1, <1>2, <1>3, <1>4

-----------------------------------------------------------------------------
(* PassedMeansChecked, of any run, what it accepted and its report.        *)
OnDisk(r) ==
  \A a \in ToSet(r.slice.artifacts) : a.path \in DOMAIN r.checkout /\ a.hash = Hash(r.checkout[a.path])

AllLocked(r) ==
  \A i \in ToSet(r.slice.inputs) :
    \E s \in ToSet(r.lock.sources) : s.id = i.source /\ s.version = i.version /\ s.hash = i.hash

ProbesCompared(r, results, o) ==
  /\ {e.item.id : e \in o.entries} = {p.id : p \in r.probe.items}
  /\ results[o.arch].manifest = Hash([r.probe EXCEPT !.arch = o.arch])
  /\ \E s \in ToSet(r.lock.sources) : s.sdk = results[o.arch].sdk

Checked(r, results, oracles) ==
  /\ OnDisk(r)
  /\ AllLocked(r)
  /\ \A input \in ToSet(r.oracles) : input.required =>
       \E o \in oracles : o.arch = input.arch /\ ProbesCompared(r, results, o)

LEMMA Restated ==
  /\ PassedMeansChecked <=> (report.passed => Checked(run, accepted, report.oracles))
  /\ PassedMeansChecked' <=> (report'.passed => Checked(run', accepted', report'.oracles))
<1>1. PassedMeansChecked <=> (report.passed => Checked(run, accepted, report.oracles))
  BY DEF PassedMeansChecked, Checked, OnDisk, AllLocked, ProbesCompared
<1>2. PassedMeansChecked' <=> (report'.passed => Checked(run', accepted', report'.oracles))
  BY DEF PassedMeansChecked, Checked, OnDisk, AllLocked, ProbesCompared
<1> QED
  BY <1>1, <1>2

(* A report is passed only when it may be trusted.                         *)
Trusted == Started /\ PassedMeansChecked

LEMMA FinishTrusted ==
  ASSUME Started, Finish, report'.passed PROVE PassedMeansChecked'
<1>1. /\ pc = "oracles" /\ next > Len(run.oracles) /\ Loop /\ Lists(run) /\ next \in Nat
      /\ UNCHANGED <<run, accepted>>
  BY DEF Finish, Goto, Started, loading
<1>2. mismatches = {} /\ report'.oracles = {Summary(a) : a \in DOMAIN accepted}
  BY DEF Finish, FinalReport
<1>3. Manifests
  BY <1>1, <1>2 DEF Loop
<1>4. ASSUME NEW input \in ToSet(run.oracles), input.required
      PROVE  \E o \in report'.oracles : o.arch = input.arch /\ ProbesCompared(run, accepted, o)
  <2> DEFINE a == input.arch
  <2>1. a \in DOMAIN accepted
    <3>1. run.oracles \in Seq(ToSet(run.oracles))
      BY <1>1 DEF Lists
    <3>2. PICK k \in 1..Len(run.oracles) : run.oracles[k] = input
      BY <3>1 DEF ToSet
    <3>3. k < next
      BY <3>1, <3>2, <1>1
    <3> QED
      BY <1>1, <1>2, <1>4, <3>2, <3>3 DEF Loop
  <2>2. Fits(a)
    BY <1>1, <2>1 DEF Loop
  <2>3. Summary(a) \in report'.oracles /\ Summary(a).arch = a
    BY <1>2, <2>1, SummaryOf
  <2>4. {e.item.id : e \in Summary(a).entries} = {p.id : p \in run.probe.items}
    <3>1. {Shape(i) : i \in accepted[a].items} = {Shape(i) : i \in run.probe.items}
      BY <2>2 DEF Fits, ProvenanceCodes
    <3>2. {i.id : i \in accepted[a].items} = {i.id : i \in run.probe.items}
      BY <3>1, SameIds
    <3> DEFINE entries == CompareInventory(run.inventory, run.probe.items, accepted[a])
    <3>3. Summary(a).entries = entries
      BY SummaryOf
    <3>4. {e.item.id : e \in entries} = {i.id : i \in accepted[a].items}
      BY EntryItems
    <3> HIDE DEF entries
    <3> QED
      BY <3>2, <3>3, <3>4
  <2>5. accepted[a].manifest = Hash([run.probe EXCEPT !.arch = a])
    BY <2>2 DEF Fits, ProvenanceCodes, ManifestHash
  <2>6. \E s \in ToSet(run.lock.sources) : s.sdk = accepted[a].sdk
    BY <1>1, <1>3, <2>2, ManifestsVerified DEF Fits
  <2> QED
    BY <2>3, <2>4, <2>5, <2>6 DEF ProbesCompared
<1>5. run' = run /\ accepted' = accepted
  BY <1>1
<1>6. OnDisk(run) /\ AllLocked(run)
  BY <1>1, <1>3, ManifestsVerified DEF OnDisk, AllLocked
<1> QED
  BY <1>4, <1>5, <1>6, Restated DEF Checked

(* One iteration of the loop keeps what the loop has established.          *)
LEMMA LoadKeepsLoop ==
  ASSUME Started, LoadOracle PROVE Loop'
<1> DEFINE input == run.oracles[next]
<1>1. /\ Loop /\ next \in Nat /\ next <= Len(run.oracles) /\ next' = next + 1 /\ UNCHANGED <<run, sdks>>
      /\ run.oracles \in Seq(ToSet(run.oracles))
  BY DEF LoadOracle, Started, Lists
<1>2. mismatches' = mismatches \cup {Mismatch(c, input.arch) : c \in InputCodes(input)}
  BY DEF LoadOracle
<1>3. mismatches' = {} => Manifests'
  BY <1>1, <1>2 DEF Loop, Manifests
<1>4. \A a \in DOMAIN accepted' : Fits(a)'
  <2>1. CASE Accepts(input)
    <3>1. accepted' = Put(accepted, input.arch, input.file[1])
      BY <2>1 DEF LoadOracle
    <3>2. /\ input.file[1].arch = input.arch /\ ProvenanceCodes(run.probe, input.file[1]) = {}
          /\ sdks = {} \/ input.file[1].sdk \in sdks
      BY <2>1 DEF Accepts, InputCodes
    <3> QED
      BY <1>1, <3>1, <3>2 DEF Loop, Fits, Put
  <2>2. CASE ~Accepts(input)
    BY <1>1, <2>2 DEF LoadOracle, Loop, Fits
  <2> QED
    BY <2>1, <2>2
<1>5. ASSUME mismatches' = {}, NEW k \in 1..Len(run.oracles), k < next', run.oracles[k].required
      PROVE  run.oracles[k].arch \in DOMAIN accepted'
  <2>1. mismatches = {} /\ InputCodes(input) = {} /\ LoadedProbe(run.probe)
    BY <1>1, <1>2, <1>5 DEF Loop, Manifests
  <2>2. CASE k < next
    BY <1>1, <1>5, <2>1, <2>2 DEF LoadOracle, Loop, Put
  <2>3. CASE k = next
    <3>1. input.file # <<>>
      BY <2>1, <2>3, <1>5 DEF InputCodes
    <3> QED
      BY <2>1, <2>3, <3>1 DEF LoadOracle, Accepts, Put
  <2> QED
    BY <1>1, <1>5, <2>2, <2>3
<1> QED
  BY <1>1, <1>3, <1>4, <1>5 DEF Loop

LEMMA StartedStep == ASSUME Started, [Next]_vars PROVE Started'
<1> USE DEF Started
<1>1. CASE Cancel
  BY <1>1 DEF Cancel, loading, Loop, Manifests, Fits
<1>2. CASE Generate
  BY <1>2 DEF Generate, Return, Goto, loading
<1>3. CASE LoadManifests
  <2>1. /\ pc = "manifests" /\ pc' = "oracles" /\ run' = run /\ next' = next /\ next = 1
        /\ accepted' = << >> /\ report' = report
    BY <1>3 DEF LoadManifests, Goto
  <2>2. mismatches' = {} => Manifests'
    BY <1>3, <2>1 DEF LoadManifests, Manifests
  <2>3. DOMAIN accepted' = {}
    BY <2>1
  <2> QED
    BY <2>1, <2>2, <2>3 DEF Loop
<1>4. CASE LoadOracle
  BY <1>4, LoadKeepsLoop DEF LoadOracle
<1>5. CASE LoadCancelled
  BY <1>5 DEF LoadCancelled, Return
<1>6. CASE Finish
  BY <1>6 DEF Finish, Goto
<1>7. CASE WriteReport
  BY <1>7 DEF WriteReport, Return
<1>8. CASE Kill
  BY <1>8 DEF Kill, Return
<1>9. CASE UNCHANGED vars
  BY <1>9 DEF vars, loading, Loop, Manifests, Fits
<1> QED
  BY <1>1, <1>2, <1>3, <1>4, <1>5, <1>6, <1>7, <1>8, <1>9 DEF Next

(* The report is set once, by Finish, and its sources stay as they were.   *)
LEMMA ReportSettled ==
  ASSUME Started, [Next]_vars
  PROVE  \/ Finish
         \/ report' = report /\ (report.passed => UNCHANGED <<run, sdks, accepted>>)
<1>1. CASE Cancel
  BY <1>1 DEF Cancel, loading
<1>2. CASE Generate
  BY <1>2 DEF Generate, loading
<1>3. CASE LoadManifests
  BY <1>3 DEF LoadManifests, Goto, Started
<1>4. CASE LoadOracle
  BY <1>4 DEF LoadOracle, Started
<1>5. CASE LoadCancelled \/ WriteReport \/ Kill
  BY <1>5 DEF LoadCancelled, WriteReport, Kill, loading
<1>6. CASE UNCHANGED vars
  BY <1>6 DEF vars, loading
<1> QED
  BY <1>1, <1>2, <1>3, <1>4, <1>5, <1>6 DEF Next

LEMMA TrustedStep == ASSUME Trusted, [Next]_vars PROVE Trusted'
<1>1. Started /\ PassedMeansChecked /\ Started'
  BY StartedStep DEF Trusted
<1>2. CASE Finish
  <2>1. CASE report'.passed
    BY <1>1, <1>2, <2>1, FinishTrusted DEF Trusted
  <2>2. CASE ~report'.passed
    BY <1>1, <2>2, Restated DEF Trusted
  <2> QED
    BY <2>1, <2>2
<1>3. CASE ~Finish
  <2>1. report' = report /\ (report.passed => UNCHANGED <<run, accepted>>)
    BY <1>1, <1>3, ReportSettled
  <2> QED
    BY <1>1, <2>1, Restated DEF Trusted
<1> QED
  BY <1>2, <1>3

(* A passed report means that every artifact is the one of the manifest,   *)
(* every input is locked, and every required architecture was measured and *)
(* compared probe by probe with an SDK a locked source pins.               *)
THEOREM PassedIsChecked == Spec => []PassedMeansChecked
<1>1. Init => Trusted
  BY RunsAssumption DEF Lists, Init, NoReport, Trusted, Started, PassedMeansChecked
<1>2. Trusted /\ [Next]_vars => Trusted'
  BY TrustedStep
<1>3. Trusted => PassedMeansChecked
  BY DEF Trusted
<1> QED
  BY <1>1, <1>2, <1>3, PTL DEF Spec

-----------------------------------------------------------------------------
(* Two files in which abi-oracle finds no difference hold the same items.  *)
(* The lists are compared by position, in the order of the IDs: position   *)
(* and item determine each other, since an item's position is the number   *)
(* of IDs up to its own.                                                   *)
Keyed(S) == IsFiniteSet(S) /\ UniqueIds(S) /\ \A i \in S : Object(i)

LEMMA Positions ==
  ASSUME NEW S, Keyed(S)
  PROVE  /\ DOMAIN ByID(S) = 1..Cardinality(S)
         /\ \A n \in DOMAIN ByID(S) : ByID(S)[n] \in S /\ Rank(S, ByID(S)[n]) = n
         /\ \A i \in S : Rank(S, i) \in DOMAIN ByID(S) /\ ByID(S)[Rank(S, i)] = i
<1> DEFINE N == Cardinality(S)
           Upto(i) == {j \in S : j.id <= i.id}
<1>1. IsFiniteSet(S) /\ N \in Nat /\ \A i \in S : i.id \in Int
  BY FS_CardinalityType DEF Keyed, Object
<1>2. ASSUME NEW i \in S PROVE IsFiniteSet(Upto(i)) /\ Rank(S, i) \in 1..N
  <2>1. Upto(i) \in SUBSET S /\ i \in Upto(i)
    BY <1>1
  <2>2. IsFiniteSet(Upto(i)) /\ Cardinality(Upto(i)) \in Nat /\ Cardinality(Upto(i)) <= N
    BY <1>1, <2>1, FS_Subset, FS_CardinalityType
  <2>3. Cardinality(Upto(i)) # 0
    BY <2>1, <2>2, FS_EmptySet
  <2> QED
    BY <1>1, <2>2, <2>3 DEF Rank
<1>3. ASSUME NEW i \in S, NEW j \in S, i.id < j.id PROVE Rank(S, i) # Rank(S, j)
  <2>1. Upto(i) \in SUBSET Upto(j) /\ j \in Upto(j) /\ j \notin Upto(i)
    BY <1>1, <1>3
  <2>2. Cardinality(Upto(i)) # Cardinality(Upto(j))
    BY <1>2, <2>1, FS_Subset
  <2> QED
    BY <2>2 DEF Rank
<1>4. ASSUME NEW i \in S, NEW j \in S, Rank(S, i) = Rank(S, j) PROVE i = j
  <2>1. i.id = j.id
    BY <1>1, <1>3, <1>4
  <2> QED
    BY <2>1 DEF Keyed, UniqueIds
<1> DEFINE rank == [i \in S |-> Rank(S, i)]
<1>5. rank \in Injection(S, 1..N)
  BY <1>2, <1>4 DEF Injection, IsInjective
<1>6. rank \in Surjection(S, 1..N)
  <2>1. IsFiniteSet(1..N) /\ Cardinality(1..N) = N
    BY <1>1, FS_Interval
  <2> HIDE DEF rank
  <2> QED
    BY <1>5, <2>1, FS_Injection
<1>7. \A n \in 1..N : \E i \in S : Rank(S, i) = n
  BY <1>6 DEF Surjection
<1>8. DOMAIN ByID(S) = 1..N
  BY DEF ByID
<1>9. ASSUME NEW n \in 1..N PROVE ByID(S)[n] \in S /\ Rank(S, ByID(S)[n]) = n
  BY <1>7 DEF ByID
<1>10. ASSUME NEW i \in S PROVE ByID(S)[Rank(S, i)] = i
  BY <1>2, <1>4, <1>9
<1> QED
  BY <1>2, <1>8, <1>9, <1>10

(* Objects without a difference agree, the fields of a record aside.       *)
LEMMA ObjectsAgree ==
  ASSUME NEW x, NEW y, CompareObjects(x, y) = {}
  PROVE  /\ (DOMAIN x) \ {"fields"} = (DOMAIN y) \ {"fields"}
         /\ \A k \in (DOMAIN x) \ {"fields"} : x[k] = y[k]
<1> DEFINE D == {k \in (DOMAIN x \cup DOMAIN y) \ {"fields"} : k \notin DOMAIN x \cap DOMAIN y \/ x[k] # y[k]}
<1>1. {<<k>> : k \in D} = {}
  BY DEF CompareObjects
<1>2. D = {}
  BY <1>1
<1> QED
  BY <1>2

LEMMA SameObject ==
  ASSUME NEW x, NEW y, Object(x), Object(y), DOMAIN x = DOMAIN y, \A k \in DOMAIN x : x[k] = y[k]
  PROVE  x = y
BY DEF Object

LEMMA FieldsAgree ==
  ASSUME NEW X, NEW Y, Keyed(X), Keyed(Y),
         \A f \in X : "fields" \notin DOMAIN f, \A f \in Y : "fields" \notin DOMAIN f,
         CompareLists(ByID(X), ByID(Y), CompareObjects) = {}
  PROVE  X = Y
<1> DEFINE xs == ByID(X)
           ys == ByID(Y)
           shared == DOMAIN xs \cap DOMAIN ys
           Apart(n) == {<<n>> \o p : p \in CompareObjects(xs[n], ys[n])}
<1>1. /\ UNION {Apart(n) : n \in shared} = {}
      /\ {<<n>> : n \in (DOMAIN xs \cup DOMAIN ys) \ shared} = {}
  BY DEF CompareLists
<1> HIDE DEF xs, ys
<1>2. DOMAIN xs = DOMAIN ys
  <2> DEFINE D == (DOMAIN xs \cup DOMAIN ys) \ shared
  <2>1. {<<n>> : n \in D} = {}
    BY <1>1
  <2>2. D = {}
    <3> HIDE DEF D
    <3> QED
      BY <2>1
  <2> QED
    BY <2>2
<1>3. ASSUME NEW n \in DOMAIN xs PROVE CompareObjects(xs[n], ys[n]) = {}
  <2>1. Apart(n) = {}
    <3> HIDE DEF Apart
    <3> QED
      BY <1>1, <1>2
  <2> QED
    BY <2>1
<1>4. ASSUME NEW n \in DOMAIN xs PROVE xs[n] = ys[n]
  <2> DEFINE x == xs[n]
             y == ys[n]
  <2>1. x \in X /\ y \in Y
    BY <1>2, <1>4, Positions DEF xs, ys
  <2>2. CompareObjects(x, y) = {}
    BY <1>3
  <2> HIDE DEF x, y
  <2>3. DOMAIN x = DOMAIN y /\ \A k \in DOMAIN x : x[k] = y[k]
    <3>1. /\ (DOMAIN x) \ {"fields"} = (DOMAIN y) \ {"fields"}
          /\ \A k \in (DOMAIN x) \ {"fields"} : x[k] = y[k]
      BY <2>2, ObjectsAgree
    <3> QED
      BY <2>1, <3>1
  <2>4. x = y
    BY <2>1, <2>3, SameObject DEF Keyed
  <2> QED
    BY <2>4 DEF x, y
<1> QED
  <2>1. \A f \in X : f \in Y
    BY <1>2, <1>4, Positions DEF xs, ys
  <2>2. \A f \in Y : f \in X
    BY <1>2, <1>4, Positions DEF xs, ys
  <2> QED
    BY <2>1, <2>2

(* The items of one list of a result.                                      *)
Elements(S) ==
  /\ Keyed(S)
  /\ \A i \in S : i.kind = "record" <=> "fields" \in DOMAIN i
  /\ \A i \in S : i.kind = "record" => Keyed(i.fields) /\ \A f \in i.fields : "fields" \notin DOMAIN f

LEMMA ElementsAgree ==
  ASSUME NEW X, NEW Y, Elements(X), Elements(Y),
         \A x \in X, y \in Y : x.kind = y.kind,
         CompareLists(ByID(X), ByID(Y), CompareElements) = {}
  PROVE  X = Y
<1> DEFINE xs == ByID(X)
           ys == ByID(Y)
           shared == DOMAIN xs \cap DOMAIN ys
           Apart(n) == {<<n>> \o p : p \in CompareElements(xs[n], ys[n])}
<1>1. /\ UNION {Apart(n) : n \in shared} = {}
      /\ {<<n>> : n \in (DOMAIN xs \cup DOMAIN ys) \ shared} = {}
  BY DEF CompareLists
<1> HIDE DEF xs, ys
<1>2. DOMAIN xs = DOMAIN ys
  <2> DEFINE D == (DOMAIN xs \cup DOMAIN ys) \ shared
  <2>1. {<<n>> : n \in D} = {}
    BY <1>1
  <2>2. D = {}
    <3> HIDE DEF D
    <3> QED
      BY <2>1
  <2> QED
    BY <2>2
<1>3. ASSUME NEW n \in DOMAIN xs PROVE CompareElements(xs[n], ys[n]) = {}
  <2>1. Apart(n) = {}
    <3> HIDE DEF Apart
    <3> QED
      BY <1>1, <1>2
  <2> QED
    BY <2>1
<1>4. ASSUME NEW n \in DOMAIN xs PROVE xs[n] = ys[n]
  <2> DEFINE x == xs[n]
             y == ys[n]
  <2>1. x \in X /\ y \in Y
    BY <1>2, <1>4, Positions DEF xs, ys, Elements
  <2> HIDE DEF x, y
  <2>2. CompareObjects(x, y) = {}
    BY <1>3 DEF CompareElements, x, y
  <2>3. /\ (DOMAIN x) \ {"fields"} = (DOMAIN y) \ {"fields"}
        /\ \A k \in (DOMAIN x) \ {"fields"} : x[k] = y[k]
    BY <2>2, ObjectsAgree
  <2>4. Object(x) /\ Object(y) /\ x.kind = y.kind
    BY <2>1 DEF Elements, Keyed
  <2>5. CASE x.kind = "record"
    <3>1. {<<"fields">> \o p : p \in CompareLists(ByID(x.fields), ByID(y.fields), CompareObjects)} = {}
      BY <1>3, <2>5 DEF CompareElements, x, y
    <3>2. CompareLists(ByID(x.fields), ByID(y.fields), CompareObjects) = {}
      BY <3>1
    <3>3. x.fields = y.fields
      BY <2>1, <2>4, <2>5, <3>2, FieldsAgree DEF Elements
    <3>4. "fields" \in DOMAIN x /\ "fields" \in DOMAIN y
      BY <2>1, <2>4, <2>5 DEF Elements
    <3>5. DOMAIN x = DOMAIN y /\ \A k \in DOMAIN x : x[k] = y[k]
      BY <2>3, <3>3, <3>4
    <3> QED
      BY <2>4, <3>5, SameObject DEF x, y
  <2>6. CASE x.kind # "record"
    <3>1. "fields" \notin DOMAIN x /\ "fields" \notin DOMAIN y
      BY <2>1, <2>4, <2>6 DEF Elements
    <3>2. DOMAIN x = DOMAIN y /\ \A k \in DOMAIN x : x[k] = y[k]
      BY <2>3, <3>1
    <3> QED
      BY <2>4, <3>2, SameObject DEF x, y
  <2> QED
    BY <2>5, <2>6
<1> QED
  <2>1. \A f \in X : f \in Y
    BY <1>2, <1>4, Positions DEF xs, ys, Elements
  <2>2. \A f \in Y : f \in X
    BY <1>2, <1>4, Positions DEF xs, ys, Elements
  <2> QED
    BY <2>1, <2>2

(* What a valid result holds, decoded.                                     *)
Result(items) == IsFiniteSet(items) /\ \A i \in items : Decoded(i)

LEMMA ResultsAgree ==
  ASSUME NEW expected, NEW actual, ValidResult(expected), ValidResult(actual),
         Result(expected.items), Result(actual.items), CompareResults(expected, actual) = {}
  PROVE  expected.items = actual.items
<1> DEFINE List(file, list) == {i \in file.items : i.kind = list}
           Paths(list) == CompareLists(ByID(List(expected, list)), ByID(List(actual, list)), CompareElements)
           Prefixed(list) == {<<list>> \o p : p \in Paths(list)}
<1>1. UNION {Prefixed(list) : list \in ListNames} = {}
  BY DEF CompareResults
<1>2. ASSUME NEW list \in ListNames PROVE Paths(list) = {}
  <2> HIDE DEF Paths
  <2>1. Prefixed(list) = {}
    <3> HIDE DEF Prefixed
    <3> QED
      BY <1>1, <1>2
  <2> QED
    BY <2>1
<1>3. ASSUME NEW file, NEW list, ValidResult(file), Result(file.items) PROVE Elements(List(file, list))
  <2>1. List(file, list) \in SUBSET file.items
    OBVIOUS
  <2>2. IsFiniteSet(List(file, list))
    BY <1>3, <2>1, FS_Subset DEF Result
  <2>3. UniqueIds(List(file, list))
    BY <1>3 DEF ValidResult, LoadedOracle, UniqueIds
  <2>4. \A i \in file.items : Decoded(i) /\ (i.kind = "record" => UniqueIds(i.fields))
    BY <1>3 DEF ValidResult, LoadedOracle, Result
  <2> QED
    BY <2>1, <2>2, <2>3, <2>4 DEF Elements, Keyed, Decoded
<1>4. ASSUME NEW list \in ListNames PROVE List(expected, list) = List(actual, list)
  <2>1. Elements(List(expected, list)) /\ Elements(List(actual, list))
    BY <1>3
  <2>2. \A x \in List(expected, list), y \in List(actual, list) : x.kind = y.kind
    OBVIOUS
  <2>3. Paths(list) = {}
    BY <1>2
  <2> QED
    BY <2>1, <2>2, <2>3, ElementsAgree
<1>5. ASSUME NEW i PROVE i \in expected.items <=> i \in actual.items
  <2>1. i \in expected.items \/ i \in actual.items => i.kind \in ListNames
    BY DEF Result, Decoded
  <2> QED
    BY <1>4, <2>1
<1> QED
  BY <1>5

-----------------------------------------------------------------------------
(* What a compiled probe prints is a decoded result.                       *)
LEMMA EmittedField ==
  ASSUME NEW i, NEW native, IsFiniteSet(i.fields),
         \A f \in i.fields : f.id \in Int
  PROVE  LET fields == {[id |-> f.id, name |-> f.name, offset |-> native.offset[f.name]] : f \in i.fields}
         IN  IsFiniteSet(fields) /\ \A f \in fields : Object(f) /\ "fields" \notin DOMAIN f
<1> DEFINE Offset(f) == [id |-> f.id, name |-> f.name, offset |-> native.offset[f.name]]
           fields == {Offset(f) : f \in i.fields}
           offsets == [f \in i.fields |-> Offset(f)]
<1>1. IsFiniteSet(fields)
  <2> HIDE DEF Offset
  <2>1. offsets \in Surjection(i.fields, fields)
    BY DEF Surjection
  <2> HIDE DEF offsets, fields
  <2> QED
    BY <2>1, FS_Surjection
<1>2. ASSUME NEW f \in i.fields PROVE Object(Offset(f)) /\ "fields" \notin DOMAIN Offset(f)
  BY DEF Object
<1>3. \A f \in fields : Object(f) /\ "fields" \notin DOMAIN f
  <2> HIDE DEF Offset
  <2> QED
    BY <1>2
<1> QED
  BY <1>1, <1>3

LEMMA EmittedItem ==
  ASSUME NEW i, Decoded(i), NEW target PROVE Decoded(Emit(i, target))
<1> DEFINE native == Headers[target][i.name]
           item == Emit(i, target)
<1>1. i.id \in Int /\ i.kind \in ListNames
  BY DEF Decoded, Object
<1>2. CASE i.kind = "record"
  <2> DEFINE fields == {[id |-> f.id, name |-> f.name, offset |-> native.offset[f.name]] : f \in i.fields}
  <2>1. item = [kind |-> "record", id |-> i.id, name |-> i.name, shape |-> i.shape,
                size |-> native.size, alignment |-> native.alignment, fields |-> fields]
    BY <1>2 DEF Emit
  <2>2. IsFiniteSet(fields) /\ \A f \in fields : Object(f) /\ "fields" \notin DOMAIN f
    <3>1. IsFiniteSet(i.fields) /\ \A f \in i.fields : f.id \in Int
      BY <1>2 DEF Decoded, Object
    <3> HIDE DEF native
    <3> QED
      BY <3>1, EmittedField
  <2> HIDE DEF fields, native, item
  <2>3. Object(item) /\ item.kind = "record" /\ item.fields = fields /\ "fields" \in DOMAIN item
    BY <1>1, <2>1 DEF Object
  <2> QED
    BY <2>2, <2>3 DEF Decoded, ListNames, item
<1>3. CASE i.kind = "bitfield"
  <2>1. item = [kind |-> "bitfield", id |-> i.id, name |-> i.name, bytes |-> native.bytes,
             mask |-> native.mask, offset |-> FirstSetBit(native.mask, native.bytes), width |-> Popcount(native.mask)]
    BY <1>3 DEF Emit
  <2> HIDE DEF item
  <2>2. Object(item) /\ item.kind = "bitfield" /\ "fields" \notin DOMAIN item
    BY <1>1, <2>1 DEF Object
  <2> QED
    BY <2>2 DEF Decoded, ListNames, item
<1>4. CASE i.kind = "function"
  <2>1. item = [kind |-> "function", id |-> i.id, name |-> i.name, typeCompatible |-> TRUE, convention |-> i.convention]
    BY <1>4 DEF Emit
  <2> HIDE DEF item
  <2>2. Object(item) /\ item.kind = "function" /\ "fields" \notin DOMAIN item
    BY <1>1, <2>1 DEF Object
  <2> QED
    BY <2>2 DEF Decoded, ListNames, item
<1>5. CASE i.kind = "vtable"
  <2>1. item = [kind |-> "vtable", id |-> i.id, name |-> i.name, method |-> i.method,
                index |-> native.offset[i.method] \div PointerLayout(target)[1]]
    BY <1>5 DEF Emit
  <2> HIDE DEF item
  <2>2. Object(item) /\ item.kind = "vtable" /\ "fields" \notin DOMAIN item
    BY <1>1, <2>1 DEF Object
  <2> QED
    BY <2>2 DEF Decoded, ListNames, item
<1>6. CASE i.kind \notin {"record", "bitfield", "function", "vtable"}
  <2>1. item = [kind |-> i.kind, id |-> i.id, name |-> i.name, value |-> native.value]
    BY <1>6 DEF Emit
  <2> HIDE DEF item
  <2>2. Object(item) /\ item.kind = i.kind /\ "fields" \notin DOMAIN item
    BY <1>1, <2>1 DEF Object
  <2> QED
    BY <1>1, <1>6, <2>2 DEF Decoded, item
<1> QED
  BY <1>2, <1>3, <1>4, <1>5, <1>6

LEMMA EmittedResult ==
  ASSUME NEW S, Result(S), NEW target PROVE Result({Emit(i, target) : i \in S})
<1> DEFINE T == {Emit(i, target) : i \in S}
           emit == [i \in S |-> Emit(i, target)]
<1>1. emit \in Surjection(S, T)
  BY DEF Surjection
<1>2. IsFiniteSet(T)
  <2> HIDE DEF emit, T
  <2> QED
    BY <1>1, FS_Surjection DEF Result
<1>3. \A i \in S : Decoded(Emit(i, target))
  BY EmittedItem DEF Result
<1> QED
  BY <1>2, <1>3 DEF Result

-----------------------------------------------------------------------------
(* What is said of an item is a list of facts, each with an outcome.       *)
Outcomes == {"matched", "unmatched", "mismatched", "kind"}
Judged(says) == \E F : says \in Seq([fact : F, outcome : Outcomes])

LEMMA JudgedOne == ASSUME NEW fact, NEW outcome \in Outcomes PROVE Judged(<<Says(fact, outcome)>>)
<1>1. Says(fact, outcome) \in [fact : {fact}, outcome : Outcomes]
  BY DEF Says
<1>2. <<Says(fact, outcome)>> \in Seq([fact : {fact}, outcome : Outcomes])
  BY <1>1
<1> QED
  BY <1>2 DEF Judged

LEMMA JudgedEach ==
  ASSUME NEW n \in Nat, NEW f, NEW o, \A i \in 1..n : o[i] \in Outcomes
  PROVE  Judged([i \in 1..n |-> Says(f[i], o[i])])
<1> DEFINE F == {f[i] : i \in 1..n}
<1>1. [i \in 1..n |-> Says(f[i], o[i])] \in Seq([fact : F, outcome : Outcomes])
  BY IsASeq DEF Says
<1> QED
  BY <1>1 DEF Judged

LEMMA JudgedConcat == ASSUME NEW s, NEW t, Judged(s), Judged(t) PROVE Judged(s \o t)
<1>1. PICK F : s \in Seq([fact : F, outcome : Outcomes])
  BY DEF Judged
<1>2. PICK G : t \in Seq([fact : G, outcome : Outcomes])
  BY DEF Judged
<1> DEFINE Both == [fact : F \cup G, outcome : Outcomes]
<1>3. [fact : F, outcome : Outcomes] \subseteq Both /\ [fact : G, outcome : Outcomes] \subseteq Both
  OBVIOUS
<1>4. s \in Seq(Both) /\ t \in Seq(Both)
  BY <1>1, <1>2, <1>3, SeqMonotonic
<1>5. s \o t \in Seq(Both)
  BY <1>4, ConcatProperties
<1> QED
  BY <1>5 DEF Judged

LEMMA JudgedEqual ==
  ASSUME NEW fact, NEW expected, NEW actual
  PROVE  Judged(Equal(fact, expected, actual))
BY JudgedOne DEF Equal, SaysEqual, Outcomes

LEMMA Listing == ASSUME NEW S, IsFiniteSet(S) PROVE Cardinality(S) \in Nat /\ SetToSeq(S) \in [1..Cardinality(S) -> S]
<1>1. Cardinality(S) \in Nat /\ ExistsBijection(1..Cardinality(S), S)
  BY FS_CardinalityType
<1>2. \E f \in [1..Cardinality(S) -> S] : IsInjective(f)
  BY <1>1 DEF ExistsBijection, Bijection, Injection
<1> QED
  BY <1>1, <1>2 DEF SetToSeq

LEMMA FactsList ==
  ASSUME NEW item, Decoded(item) PROVE \E n \in Nat : DOMAIN Facts(item) = 1..n
<1>1. CASE item.kind = "record"
  <2> DEFINE fields == SetToSeq(item.fields)
             offsets == [i \in DOMAIN fields |-> <<"offset", fields[i].id>>]
             n == Cardinality(item.fields)
  <2>1. n \in Nat /\ DOMAIN fields = 1..n
    BY <1>1, Listing DEF Decoded
  <2> HIDE DEF fields
  <2>2. Facts(item) = <<<<"size">>, <<"alignment">>>> \o offsets
    BY <1>1 DEF Facts, fields
  <2> DEFINE V == {<<"size">>, <<"alignment">>} \cup {offsets[i] : i \in 1..n}
  <2>3. <<<<"size">>, <<"alignment">>>> \in Seq(V)
    BY DEF V
  <2>4. offsets \in Seq(V) /\ Len(offsets) = n
    BY <2>1, IsASeq DEF V
  <2> HIDE DEF offsets, V
  <2>5. Facts(item) \in Seq(V)
    BY <2>2, <2>3, <2>4, ConcatProperties
  <2> QED
    BY <2>5, LenProperties
<1>2. CASE item.kind # "record"
  <2>1. \/ Facts(item) = <<<<"maskHex">>, <<"bitOffset">>, <<"bitWidth">>>>
        \/ Facts(item) = <<<<"typeCompatible">>, <<"callingConvention">>>>
        \/ Facts(item) \in {<<<<"index">>>>, <<<<"value">>>>}
    BY <1>2 DEF Facts
  <2>2. \A a, b, c : DOMAIN <<a, b, c>> = 1..3 /\ DOMAIN <<a, b>> = 1..2 /\ DOMAIN <<a>> = 1..1
    OBVIOUS
  <2>3. DOMAIN Facts(item) = 1..3 \/ DOMAIN Facts(item) = 1..2 \/ DOMAIN Facts(item) = 1..1
    BY <2>1, <2>2
  <2> QED
    BY <2>3
<1> QED
  BY <1>1, <1>2

LEMMA JudgedUnmatched == ASSUME NEW item, Decoded(item) PROVE Judged(UnmatchedMany(item))
<1>1. PICK n \in Nat : DOMAIN Facts(item) = 1..n
  BY FactsList
<1> DEFINE f == Facts(item)
           o == [i \in 1..n |-> "unmatched"]
<1>2. Judged([i \in 1..n |-> Says(f[i], o[i])])
  <2>1. \A i \in 1..n : o[i] \in Outcomes
    BY DEF Outcomes
  <2> HIDE DEF f, o
  <2> QED
    BY <2>1, JudgedEach
<1>3. UnmatchedMany(item) = [i \in 1..n |-> Says(f[i], o[i])]
  BY <1>1 DEF UnmatchedMany
<1> QED
  BY <1>2, <1>3

LEMMA JudgedRecord ==
  ASSUME NEW symbol, NEW item, Decoded(item), item.kind = "record", NEW arch
  PROVE  Judged(CompareRecord(symbol, item, arch))
<1> DEFINE record == symbol.type[1]
           kind == IF symbol.kind = "guid" THEN "struct" ELSE record.kind
           layout == FindLayout(record.layouts, arch)
           offsets == RecordOffsets(record, layout[1], arch)
           fields == SetToSeq(item.fields)
           n == Cardinality(item.fields)
           size == Equal(<<"size">>, item.size, layout[1].size)
           alignment == Equal(<<"alignment">>, item.alignment, layout[1].alignment)
           compared == [i \in DOMAIN fields |-> CompareField(record, offsets, fields[i])]
<1>1. Judged(UnmatchedMany(item)) /\ Judged(<<Says(<<"kind">>, "kind")>>) /\ Judged(size) /\ Judged(alignment)
  BY JudgedUnmatched, JudgedOne, JudgedEqual DEF Outcomes
<1>2. Judged(compared)
  <2>1. n \in Nat /\ DOMAIN fields = 1..n
    BY Listing DEF Decoded
  <2> HIDE DEF fields, offsets, record, n
  <2>2. ASSUME NEW f PROVE CompareField(record, offsets, f) \in [fact : {<<"offset", f.id>>}, outcome : Outcomes]
    <3> DEFINE found == FindModelField(record.fields, f.name)
               known == IF found = <<>> THEN {} ELSE {o \in offsets : o[1] = found[1].name}
               expected == (CHOOSE o \in known : TRUE)[2]
    <3>1. CompareField(record, offsets, f) =
            IF known = {} THEN Says(<<"offset", f.id>>, "unmatched") ELSE SaysEqual(<<"offset", f.id>>, f.offset, expected)
      BY DEF CompareField
    <3> HIDE DEF known, expected
    <3> QED
      BY <3>1 DEF SaysEqual, Says, Outcomes
  <2> DEFINE F == {<<"offset", fields[j].id>> : j \in 1..n}
             V == [fact : F, outcome : Outcomes]
             e(i) == CompareField(record, offsets, fields[i])
  <2>3. \A i \in 1..n : e(i) \in V
    BY <2>2
  <2>4. [i \in 1..n |-> e(i)] \in Seq(V)
    <3> HIDE DEF e, V
    <3> QED
      BY <2>1, <2>3, IsASeq
  <2>5. compared = [i \in 1..n |-> e(i)]
    BY <2>1
  <2> HIDE DEF compared, e, F
  <2> QED
    BY <2>4, <2>5 DEF Judged
<1>3. Judged(size \o alignment \o compared) /\ Judged(<<Says(<<"kind">>, "kind")>> \o UnmatchedMany(item))
  <2> HIDE DEF size, alignment, compared
  <2> QED
    BY <1>1, <1>2, JudgedConcat
<1>4. CompareRecord(symbol, item, arch) =
        IF kind # item.shape THEN <<Says(<<"kind">>, "kind")>> \o UnmatchedMany(item)
        ELSE IF layout = <<>> THEN UnmatchedMany(item)
        ELSE size \o alignment \o compared
  BY DEF CompareRecord
<1> HIDE DEF kind, layout, size, alignment, compared
<1> QED
  BY <1>1, <1>3, <1>4

LEMMA JudgedBitField ==
  ASSUME NEW symbol, NEW item, Decoded(item), NEW probe
  PROVE  Judged(CompareBitField(symbol, item, probe))
<1> DEFINE found == FindModelField(symbol.type[1].fields, probe.field)
           bits == found[1].bits[1]
           mask == BitMask(bits, item.bytes)
           offset == Equal(<<"bitOffset">>, item.offset, bits.offset)
           width == Equal(<<"bitWidth">>, item.width, bits.width)
           last == IF mask = <<>> THEN <<Says(<<"maskHex">>, "unmatched")>> ELSE Equal(<<"maskHex">>, item.mask, mask[1])
<1>1. CompareBitField(symbol, item, probe) =
        IF found = <<>> \/ found[1].bits = <<>> THEN UnmatchedMany(item) ELSE offset \o width \o last
  BY DEF CompareBitField
<1>2. Judged(offset) /\ Judged(width) /\ Judged(last) /\ Judged(UnmatchedMany(item))
  BY JudgedEqual, JudgedOne, JudgedUnmatched DEF Outcomes
<1>3. Judged(offset \o width \o last)
  <2> HIDE DEF offset, width, last
  <2> QED
    BY <1>2, JudgedConcat
<1> HIDE DEF offset, width, last, found
<1> QED
  BY <1>1, <1>2, <1>3

LEMMA JudgedFunction ==
  ASSUME NEW symbol, NEW item, NEW probe
  PROVE  Judged(CompareFunction(symbol, item, probe))
<1> DEFINE function == symbol.function[1]
           convention == IF CallingConventionEquivalent(function.convention, item.convention) THEN "matched" ELSE "mismatched"
           same == IF probe.expectedType = function.shape /\ item.typeCompatible THEN "matched" ELSE "mismatched"
           type == IF probe.expectedType = <<>> \/ function.shape = <<>> THEN "unmatched" ELSE same
           first == <<Says(<<"callingConvention">>, convention)>>
           second == <<Says(<<"typeCompatible">>, type)>>
<1>1. CompareFunction(symbol, item, probe) = first \o second
  BY DEF CompareFunction
<1>2. convention \in Outcomes /\ type \in Outcomes
  BY DEF Outcomes
<1>3. Judged(first) /\ Judged(second)
  <2> HIDE DEF convention, type
  <2> QED
    BY <1>2, JudgedOne
<1> HIDE DEF first, second
<1> QED
  BY <1>1, <1>3, JudgedConcat

LEMMA JudgedItem ==
  ASSUME NEW inventory, NEW arch, NEW item, Decoded(item), NEW probe
  PROVE  Judged(CompareItem(inventory, arch, item, probe).says)
<1> DEFINE found == {s \in Find(inventory, arch, item, probe) : Comparable(s, item)}
           symbol == CHOOSE s \in found : TRUE
<1>1. CompareItem(inventory, arch, item, probe).says =
        IF found = {} THEN UnmatchedMany(item) ELSE Compare(symbol, item, probe, arch)
  BY DEF CompareItem
<1>2. found # {} => Comparable(symbol, item)
  OBVIOUS
<1> HIDE DEF found, symbol
<1>3. ASSUME Comparable(symbol, item) PROVE Judged(Compare(symbol, item, probe, arch))
  <2>1. item.kind \in {"record", "value", "guid", "bitfield", "function", "vtable"}
    BY <1>3 DEF Comparable
  <2>2. CASE item.kind = "record"
    BY <2>2, JudgedRecord DEF Compare
  <2>3. CASE item.kind = "value"
    BY <2>3, JudgedUnmatched, JudgedEqual DEF Compare, CompareConstant
  <2>4. CASE item.kind = "guid"
    BY <2>4, JudgedEqual DEF Compare
  <2>5. CASE item.kind = "bitfield"
    BY <2>5, JudgedBitField DEF Compare
  <2>6. CASE item.kind = "function"
    BY <2>6, JudgedFunction DEF Compare
  <2>7. CASE item.kind = "vtable"
    BY <2>7, JudgedUnmatched, JudgedEqual DEF Compare, CompareVTable
  <2> QED
    BY <2>1, <2>2, <2>3, <2>4, <2>5, <2>6, <2>7
<1> QED
  BY <1>1, <1>2, <1>3, JudgedUnmatched

(* With no mismatch counted there is none.                                 *)
LEMMA NoneCounted ==
  ASSUME NEW e, Judged(e.says), Count(e, {"mismatched", "kind"}) = 0
  PROVE  \A i \in DOMAIN e.says : e.says[i].outcome \in {"matched", "unmatched"}
<1> DEFINE says == e.says
           Wrong == {i \in DOMAIN says : says[i].outcome \in {"mismatched", "kind"}}
<1>1. PICK F : says \in Seq([fact : F, outcome : Outcomes])
  BY DEF Judged
<1>2. Len(says) \in Nat /\ DOMAIN says = 1..Len(says) /\ \A i \in DOMAIN says : says[i].outcome \in Outcomes
  <2> HIDE DEF says
  <2>1. Len(says) \in Nat /\ says \in [1..Len(says) -> [fact : F, outcome : Outcomes]]
    BY <1>1, LenProperties
  <2> QED
    BY <2>1
<1>3. IsFiniteSet(1..Len(says)) /\ Wrong \in SUBSET (1..Len(says))
  BY <1>2, FS_Interval
<1>4. IsFiniteSet(Wrong) /\ Cardinality(Wrong) = 0
  <2>1. Cardinality(Wrong) = 0
    BY DEF Count, Saying
  <2> HIDE DEF Wrong, says
  <2> QED
    BY <1>3, <2>1, FS_Subset
<1>5. Wrong = {}
  <2> HIDE DEF Wrong
  <2> QED
    BY <1>4, FS_EmptySet
<1> QED
  BY <1>2, <1>5 DEF Outcomes

-----------------------------------------------------------------------------
(* The workflow.  A job has generated the probe of its architecture, the   *)
(* probe compiled for that very target, and what the job measured is what  *)
(* the headers say there, item by item; once it is past the comparison,    *)
(* the checked-in result holds that too.                                   *)
ProbeOf(r, a)    == [r.probe EXCEPT !.arch = a]
SourceOf(r, a)   == [manifest |-> ProbeOf(r, a), hash |-> SortedHash(ProbeOf(r, a))]
MeasuredBy(r, a) == {Emit(i, a) : i \in r.probe.items}
Expected(r, a)   == (CHOOSE o \in ToSet(r.oracles) : o.arch = a).file

JobFits(r, a, j) ==
  /\ DOMAIN j = {"at", "source", "object", "actual", "differences"}
  /\ j.at \in {"generate", "compile", "execute", "compare", "verify", "success", "failure"}
  /\ j.at \in {"compile", "execute", "compare", "verify", "success"} => j.source = <<SourceOf(r, a)>>
  /\ j.at \in {"execute", "compare", "verify", "success"} => Compiles(SourceOf(r, a), a)
  /\ j.at = "execute" => j.object[1].source = SourceOf(r, a) /\ j.object[1].target = a
  /\ j.at = "compare" => j.actual[1].items = MeasuredBy(r, a)
  /\ j.at \in {"verify", "success"} /\ a \in Executed => Expected(r, a)[1].items = MeasuredBy(r, a)
  /\ j.at \in {"execute", "compare"} => a \in Executed
  /\ j.at = "verify" => a = "amd64"

Committed == \E c \in Commits : run = RunOf(c)

Ordered ==
  /\ jobs["amd64"].at \in {"generate", "compile", "execute", "compare"} => pc = "idle"
  /\ jobs["amd64"].at = "success" => pc = "done" /\ result = "ok"

Workflow ==
  \/ jobs = << >>
  \/ /\ Committed
     /\ jobs = [a \in Targets |-> jobs[a]]
     /\ \A a \in Targets : JobFits(run, a, jobs[a])
     /\ Ordered

(* What a run of the workflow meets.                                       *)
LEMMA CommittedRun ==
  ASSUME Committed
  PROVE  /\ Lists(run)
         /\ {"arch", "items"} \subseteq DOMAIN run.probe /\ Result(run.probe.items)
         /\ \A a \in Executed : Expected(run, a) # <<>> => Result(Expected(run, a)[1].items)
         /\ \A input \in ToSet(run.oracles) :
              input.arch \in Executed /\ input.required /\ input.file = Expected(run, input.arch)
         /\ \A a \in Executed : \E k \in 1..Len(run.oracles) : run.oracles[k].arch = a
<1>1. PICK c \in Commits : run = RunOf(c)
  BY DEF Committed
<1> DEFINE one == [arch |-> "386", required |-> TRUE, file |-> c.baselines["386"]]
           two == [arch |-> "amd64", required |-> TRUE, file |-> c.baselines["amd64"]]
<1>3. run.oracles = <<one, two>> /\ run.probe = c.probe /\ run.slice = c.slice
  BY <1>1 DEF RunOf
<1>5. run.slice.inputs \in Seq(ToSet(run.slice.inputs))
  BY <1>3, CommitsAssumption
<1>6. ToSet(run.oracles) = {one, two} /\ Len(run.oracles) = 2 /\ run.oracles[1] = one /\ run.oracles[2] = two
  <2>1. \A x, y : DOMAIN <<x, y>> = 1..2 /\ Len(<<x, y>>) = 2 /\ <<x, y>>[1] = x /\ <<x, y>>[2] = y
    OBVIOUS
  <2> HIDE DEF one, two
  <2>2. ToSet(<<one, two>>) = {<<one, two>>[i] : i \in 1..2}
    BY <2>1 DEF ToSet
  <2>3. ToSet(<<one, two>>) = {one, two}
    BY <2>1, <2>2
  <2> QED
    BY <1>3, <2>1, <2>3
<1>7. Expected(run, "386") = c.baselines["386"] /\ Expected(run, "amd64") = c.baselines["amd64"]
  <2>1. (CHOOSE o \in {one, two} : o.arch = "386") = one /\ (CHOOSE o \in {one, two} : o.arch = "amd64") = two
    OBVIOUS
  <2> QED
    BY <1>6, <2>1 DEF Expected
<1>8. Lists(run)
  <2>1. <<one, two>> \in Seq({one, two})
    OBVIOUS
  <2> QED
    BY <1>3, <1>5, <1>6, <2>1 DEF Lists
<1>9. Result(run.probe.items) /\ {"arch", "items"} \subseteq DOMAIN run.probe
  BY <1>3, CommitsAssumption DEF Result
<1>10. \A a \in Executed : Expected(run, a) # <<>> => Result(Expected(run, a)[1].items)
  BY <1>7, CommitsAssumption DEF Result, Executed
<1>11. \A input \in ToSet(run.oracles) :
         input.arch \in Executed /\ input.required /\ input.file = Expected(run, input.arch)
  BY <1>6, <1>7 DEF Executed
<1>12. \A a \in Executed : \E k \in 1..Len(run.oracles) : run.oracles[k].arch = a
  <2>1. run.oracles[1].arch = "386" /\ run.oracles[2].arch = "amd64" /\ 1 \in 1..Len(run.oracles) /\ 2 \in 1..Len(run.oracles)
    BY <1>6
  <2> QED
    BY <2>1 DEF Executed
<1> QED
  BY <1>8, <1>9, <1>10, <1>11, <1>12

(* The compiler's own macros tell the targets apart.                       *)
LEMMA TargetAsserted ==
  ASSUME NEW a \in Targets, NEW target \in Architectures, ArchitectureAssertion(a, Macros(target))
  PROVE  target = a
<1>1. a \in {"386", "amd64", "arm64"} /\ target \in {"386", "amd64", "arm64", "arm64ec"}
  BY DEF Targets, Executed, Architectures
<1>2. CASE target = "386"
  BY <1>1, <1>2 DEF ArchitectureAssertion, Macros
<1>3. CASE target = "amd64"
  BY <1>1, <1>3 DEF ArchitectureAssertion, Macros
<1>4. CASE target = "arm64"
  BY <1>1, <1>4 DEF ArchitectureAssertion, Macros
<1>5. CASE target = "arm64ec"
  BY <1>1, <1>5 DEF ArchitectureAssertion, Macros
<1> QED
  BY <1>1, <1>2, <1>3, <1>4, <1>5

LEMMA ProbeFields ==
  ASSUME Committed, NEW a
  PROVE  SourceOf(run, a).manifest.arch = a /\ SourceOf(run, a).manifest.items = run.probe.items
<1>1. {"arch", "items"} \subseteq DOMAIN run.probe
  BY CommittedRun
<1> QED
  BY <1>1 DEF SourceOf, ProbeOf

(* Each step of a job, of the job alone.                                   *)
LEMMA GeneratedFits ==
  ASSUME Committed, NEW a \in Targets, jobs = [b \in Targets |-> jobs[b]],
         JobFits(run, a, jobs[a]), GenerateProbe(a)
  PROVE  JobFits(run, a, jobs'[a])
<1> DEFINE j == jobs[a]
           source == IF ValidManifest(run.probe) THEN GenerateSource([run.probe EXCEPT !.arch = a]) ELSE <<>>
           at == IF source = <<>> THEN "failure" ELSE "compile"
<1>1. jobs'[a] = [j EXCEPT !.source = source, !.at = at]
  BY DEF GenerateProbe
<1>2. source = <<>> \/ source = <<SourceOf(run, a)>>
  BY DEF GenerateSource, SourceOf, ProbeOf
<1>3. DOMAIN j = {"at", "source", "object", "actual", "differences"}
  BY DEF JobFits
<1> HIDE DEF j, source
<1>4. /\ jobs'[a].at = at /\ jobs'[a].source = source
      /\ DOMAIN jobs'[a] = {"at", "source", "object", "actual", "differences"}
  BY <1>1, <1>3
<1> QED
  BY <1>2, <1>4 DEF JobFits

LEMMA CompiledFits ==
  ASSUME Committed, NEW a \in Targets, jobs = [b \in Targets |-> jobs[b]],
         JobFits(run, a, jobs[a]), CompileProbe(a)
  PROVE  JobFits(run, a, jobs'[a])
<1> DEFINE j == jobs[a]
           source == j.source[1]
<1>1. /\ j.at = "compile" /\ source = SourceOf(run, a)
      /\ DOMAIN j = {"at", "source", "object", "actual", "differences"} /\ j.source = <<SourceOf(run, a)>>
  BY DEF CompileProbe, At, JobFits
<1>2. PICK target \in Architectures, compiler \in IF a = "arm64" THEN {"clang-cl"} ELSE {"msvc", "clang-cl"} :
        IF Compiles(source, target)
        THEN jobs' = [jobs EXCEPT ![a].object = <<[source |-> source, target |-> target, compiler |-> compiler]>>,
                                  ![a].at = IF a \in Executed THEN "execute" ELSE "success"]
        ELSE jobs' = [jobs EXCEPT ![a].at = "failure"]
  BY DEF CompileProbe
<1>3. CASE ~Compiles(source, target)
  <2>1. jobs'[a] = [j EXCEPT !.at = "failure"]
    BY <1>2, <1>3
  <2>2. jobs'[a].at = "failure" /\ DOMAIN jobs'[a] = {"at", "source", "object", "actual", "differences"}
    BY <1>1, <2>1
  <2> QED
    BY <2>2 DEF JobFits
<1>4. CASE Compiles(source, target)
  <2> DEFINE object == [source |-> source, target |-> target, compiler |-> compiler]
             at == IF a \in Executed THEN "execute" ELSE "success"
  <2>1. jobs'[a] = [j EXCEPT !.object = <<object>>, !.at = at]
    BY <1>2, <1>4
  <2>2. target = a
    <3>1. ArchitectureAssertion(a, Macros(target))
      BY <1>1, <1>4, ProbeFields DEF Compiles
    <3> QED
      BY <3>1, TargetAsserted
  <2>3. object.source = SourceOf(run, a) /\ object.target = a
    BY <1>1, <2>2
  <2> HIDE DEF j, object
  <2>4. /\ jobs'[a].at = at /\ jobs'[a].source = <<SourceOf(run, a)>> /\ jobs'[a].object[1] = object
        /\ DOMAIN jobs'[a] = {"at", "source", "object", "actual", "differences"}
    BY <1>1, <2>1
  <2>5. Compiles(SourceOf(run, a), a)
    BY <1>1, <1>4, <2>2
  <2> QED
    BY <2>3, <2>4, <2>5 DEF JobFits
<1> QED
  BY <1>3, <1>4

LEMMA ExecutedFits ==
  ASSUME Committed, NEW a \in Targets, jobs = [b \in Targets |-> jobs[b]],
         JobFits(run, a, jobs[a]), ExecuteProbe(a)
  PROVE  JobFits(run, a, jobs'[a])
<1> DEFINE j == jobs[a]
           object == j.object[1]
           measured == RunSource(object.source, object.target, object.compiler)
<1>1. /\ j.at = "execute" /\ j.source = <<SourceOf(run, a)>> /\ Compiles(SourceOf(run, a), a) /\ a \in Executed
      /\ object.source = SourceOf(run, a) /\ object.target = a
      /\ DOMAIN j = {"at", "source", "object", "actual", "differences"}
  BY DEF ExecuteProbe, At, JobFits
<1>2. jobs'[a] = [j EXCEPT !.actual = <<measured>>, !.at = "compare"]
  BY DEF ExecuteProbe
<1>3. measured.items = MeasuredBy(run, a)
  BY <1>1, ProbeFields DEF RunSource, MeasuredBy
<1> HIDE DEF j, measured
<1>4. /\ jobs'[a].at = "compare" /\ jobs'[a].source = <<SourceOf(run, a)>> /\ jobs'[a].actual = <<measured>>
      /\ DOMAIN jobs'[a] = {"at", "source", "object", "actual", "differences"}
  BY <1>1, <1>2
<1> QED
  BY <1>1, <1>3, <1>4 DEF JobFits

LEMMA ComparedFits ==
  ASSUME Committed, NEW a \in Targets, jobs = [b \in Targets |-> jobs[b]],
         JobFits(run, a, jobs[a]), CompareProbe(a)
  PROVE  /\ JobFits(run, a, jobs'[a])
         /\ jobs'[a].at = "verify" => a = "amd64" /\ pc' = "generate"
         /\ jobs'[a].at \in {"verify", "success", "failure"}
         /\ a = "amd64" => jobs'[a].at # "success"
         /\ pc' # pc => a = "amd64" /\ pc' = "generate" /\ jobs'[a].at = "verify"
<1> DEFINE j == jobs[a]
           expected == Baseline(a)
           actual == j.actual
           valid == expected # <<>> /\ ValidResult(expected[1]) /\ ValidResult(actual[1])
           differences == CompareResults(expected[1], actual[1])
           equal == valid /\ differences = {}
           at == IF ~equal THEN "failure" ELSE IF a = "amd64" THEN "verify" ELSE "success"
           said == IF valid THEN differences ELSE {<<"invalid">>}
<1>1. /\ j.at = "compare" /\ j.source = <<SourceOf(run, a)>> /\ Compiles(SourceOf(run, a), a) /\ a \in Executed
      /\ actual[1].items = MeasuredBy(run, a)
      /\ DOMAIN j = {"at", "source", "object", "actual", "differences"}
  BY DEF CompareProbe, At, JobFits
<1>2. /\ jobs'[a] = [j EXCEPT !.differences = said, !.at = at]
      /\ pc' = IF equal /\ a = "amd64" THEN "generate" ELSE pc
  BY DEF CompareProbe
<1>3. equal => expected[1].items = MeasuredBy(run, a)
  <2> SUFFICES ASSUME equal PROVE expected[1].items = MeasuredBy(run, a)
    OBVIOUS
  <2>1. expected = Expected(run, a)
    BY DEF Baseline, Expected
  <2>2. Result(expected[1].items)
    BY <1>1, <2>1, CommittedRun
  <2>3. Result(actual[1].items)
    <3>1. Result(run.probe.items)
      BY CommittedRun
    <3>2. Result({Emit(i, a) : i \in run.probe.items})
      BY <3>1, EmittedResult
    <3> HIDE DEF actual
    <3> QED
      BY <1>1, <3>2 DEF MeasuredBy
  <2> HIDE DEF expected, actual
  <2>4. expected[1].items = actual[1].items
    BY <2>2, <2>3, ResultsAgree
  <2> QED
    BY <1>1, <2>4 DEF actual
<1>4. expected = Expected(run, a)
  BY DEF Baseline, Expected
<1> HIDE DEF j, said, equal, expected, actual
<1>5. /\ jobs'[a].at = at /\ jobs'[a].source = <<SourceOf(run, a)>>
      /\ DOMAIN jobs'[a] = {"at", "source", "object", "actual", "differences"}
  BY <1>1, <1>2
<1>6. JobFits(run, a, jobs'[a])
  BY <1>1, <1>3, <1>4, <1>5 DEF JobFits
<1> QED
  BY <1>2, <1>5, <1>6

LEMMA JobChanges ==
  ASSUME Workflow, NEW a \in Targets,
         GenerateProbe(a) \/ CompileProbe(a) \/ ExecuteProbe(a) \/ CompareProbe(a) \/ JobStops(a)
  PROVE  /\ Committed /\ jobs = [b \in Targets |-> jobs[b]] /\ jobs' = [b \in Targets |-> jobs'[b]]
         /\ \A b \in Targets \ {a} : jobs'[b] = jobs[b]
         /\ jobs[a].at \in {"generate", "compile", "execute", "compare"}
         /\ run' = run /\ result' = result
<1>1. jobs # << >>
  <2>1. DOMAIN << >> = {}
    OBVIOUS
  <2> QED
    BY <2>1 DEF GenerateProbe, CompileProbe, ExecuteProbe, CompareProbe, JobStops, At
<1>2. /\ Committed /\ jobs = [b \in Targets |-> jobs[b]] /\ DOMAIN jobs = Targets
      /\ JobFits(run, a, jobs[a])
  BY <1>1 DEF Workflow
<1> DEFINE Others == jobs' = [b \in Targets |-> jobs'[b]] /\ \A b \in Targets \ {a} : jobs'[b] = jobs[b]
<1>3. Others
  <2>1. CASE GenerateProbe(a)
    BY <1>2, <2>1 DEF GenerateProbe
  <2>2. CASE CompileProbe(a)
    BY <1>2, <2>2 DEF CompileProbe
  <2>3. CASE ExecuteProbe(a)
    BY <1>2, <2>3 DEF ExecuteProbe
  <2>4. CASE CompareProbe(a)
    BY <1>2, <2>4 DEF CompareProbe
  <2>5. CASE JobStops(a)
    BY <1>2, <2>5 DEF JobStops
  <2> QED
    BY <2>1, <2>2, <2>3, <2>4, <2>5
<1>4. run' = run /\ result' = result
  BY DEF GenerateProbe, CompileProbe, ExecuteProbe, CompareProbe, JobStops, vars
<1>5. jobs[a].at \in {"generate", "compile", "execute", "compare"}
  BY <1>2 DEF GenerateProbe, CompileProbe, ExecuteProbe, CompareProbe, JobStops, At, JobFits
<1> QED
  BY <1>2, <1>3, <1>4, <1>5

LEMMA RunKept == [EvidenceNext]_allVars => run' = run
BY DEF EvidenceNext, GenerateProbe, CompileProbe, ExecuteProbe, CompareProbe, JobStops, Verify, Verified,
       Next, Cancel, Generate, LoadManifests, LoadOracle, LoadCancelled, Finish, WriteReport, Kill, allVars, vars

LEMMA WorkflowStep == ASSUME Workflow, [EvidenceNext]_allVars PROVE Workflow'
<1>1. run' = run
  BY RunKept
<1>2. Committed => Committed'
  BY <1>1 DEF Committed
<1>3. ASSUME NEW a \in Targets,
             GenerateProbe(a) \/ CompileProbe(a) \/ ExecuteProbe(a) \/ CompareProbe(a) \/ JobStops(a)
      PROVE  Workflow'
  <2>1. /\ Committed /\ jobs = [b \in Targets |-> jobs[b]] /\ jobs' = [b \in Targets |-> jobs'[b]]
        /\ \A b \in Targets \ {a} : jobs'[b] = jobs[b]
        /\ jobs[a].at \in {"generate", "compile", "execute", "compare"}
        /\ result' = result
    BY <1>3, JobChanges
  <2>2. (\A b \in Targets : JobFits(run, b, jobs[b])) /\ Ordered
    <3>1. jobs # << >>
      <4>1. DOMAIN << >> = {} /\ DOMAIN jobs = Targets /\ a \in Targets
        BY <2>1
      <4> QED
        BY <4>1
    <3> QED
      BY <3>1 DEF Workflow
  <2>3. JobFits(run, a, jobs'[a])
    <3>1. CASE GenerateProbe(a)
      BY <2>1, <2>2, <3>1, GeneratedFits
    <3>2. CASE CompileProbe(a)
      BY <2>1, <2>2, <3>2, CompiledFits
    <3>3. CASE ExecuteProbe(a)
      BY <2>1, <2>2, <3>3, ExecutedFits
    <3>4. CASE CompareProbe(a)
      BY <2>1, <2>2, <3>4, ComparedFits
    <3>5. CASE JobStops(a)
      <4>1. jobs'[a] = [NewJob EXCEPT !.at = "failure"]
        BY <2>1, <3>5 DEF JobStops
      <4>2. jobs'[a].at = "failure" /\ DOMAIN jobs'[a] = {"at", "source", "object", "actual", "differences"}
        BY <4>1 DEF NewJob
      <4> QED
        BY <4>2 DEF JobFits
    <3> QED
      BY <1>3, <3>1, <3>2, <3>3, <3>4, <3>5
  <2>4. \A b \in Targets : JobFits(run', b, jobs'[b])
    BY <1>1, <2>1, <2>2, <2>3
  <2>5. Ordered'
    <3>1. CASE CompareProbe(a)
      <4>1. /\ jobs'[a].at = "verify" => a = "amd64" /\ pc' = "generate"
            /\ jobs'[a].at \in {"verify", "success", "failure"}
            /\ a = "amd64" => jobs'[a].at # "success"
            /\ pc' # pc => a = "amd64" /\ pc' = "generate" /\ jobs'[a].at = "verify"
        BY <2>1, <2>2, <3>1, ComparedFits
      <4>2. a # "amd64" => jobs'["amd64"] = jobs["amd64"] /\ pc' = pc
        BY <2>1, <4>1 DEF Targets, Executed
      <4> QED
        BY <2>1, <2>2, <4>1, <4>2 DEF Ordered
    <3>2. CASE ~CompareProbe(a)
      <4>1. pc' = pc
        BY <1>3, <3>2 DEF GenerateProbe, CompileProbe, ExecuteProbe, JobStops, vars
      <4>2. a # "amd64" => jobs'["amd64"] = jobs["amd64"]
        BY <2>1 DEF Targets, Executed
      <4>3. a = "amd64" => pc = "idle"
        BY <2>1, <2>2 DEF Ordered
      <4>4. a = "amd64" => jobs'["amd64"].at # "success"
        <5> SUFFICES ASSUME a = "amd64" PROVE jobs'[a].at # "success"
          OBVIOUS
        <5>1. DOMAIN jobs[a] = {"at", "source", "object", "actual", "differences"}
          BY <2>2 DEF JobFits
        <5>2. CASE GenerateProbe(a)
          BY <2>1, <5>1, <5>2 DEF GenerateProbe
        <5>3. CASE CompileProbe(a)
          BY <2>1, <5>1, <5>3 DEF CompileProbe, Executed
        <5>4. CASE ExecuteProbe(a)
          BY <2>1, <5>1, <5>4 DEF ExecuteProbe
        <5>5. CASE JobStops(a)
          BY <2>1, <5>5 DEF JobStops, NewJob
        <5> QED
          BY <1>3, <3>2, <5>2, <5>3, <5>4, <5>5
      <4> QED
        BY <2>1, <2>2, <4>1, <4>2, <4>3, <4>4 DEF Ordered
    <3> QED
      BY <3>1, <3>2
  <2> QED
    BY <1>2, <2>1, <2>4, <2>5 DEF Workflow
<1>4. CASE Verify
  <2>1. jobs' = jobs /\ pc # "idle" /\ Next
    BY <1>4 DEF Verify
  <2>2. pc # "done"
    BY <2>1 DEF Next, Cancel, Generate, LoadManifests, LoadOracle, LoadCancelled, Finish, WriteReport, Kill, Goto, Running
  <2>3. Ordered => Ordered'
    BY <2>1, <2>2 DEF Ordered
  <2> QED
    BY <1>1, <1>2, <2>1, <2>3 DEF Workflow
<1>5. CASE Verified
  <2>1. "amd64" \in DOMAIN jobs /\ jobs["amd64"].at = "verify" /\ pc = "done" /\ UNCHANGED vars
    BY <1>5 DEF Verified, At
  <2>2. /\ Committed /\ jobs = [b \in Targets |-> jobs[b]] /\ "amd64" \in Targets
        /\ \A b \in Targets : JobFits(run, b, jobs[b])
    <3>1. DOMAIN << >> = {}
      OBVIOUS
    <3> QED
      BY <2>1, <3>1 DEF Workflow, Targets, Executed
  <2> DEFINE j == jobs["amd64"]
             at == IF result = "ok" THEN "success" ELSE "failure"
  <2>3. jobs' = [jobs EXCEPT !["amd64"] = [j EXCEPT !.at = at]]
    BY <1>5 DEF Verified
  <2>4. /\ jobs' = [b \in Targets |-> jobs'[b]] /\ \A b \in Targets \ {"amd64"} : jobs'[b] = jobs[b]
        /\ jobs'["amd64"] = [j EXCEPT !.at = at]
    BY <2>2, <2>3
  <2>5. JobFits(run, "amd64", j)
    BY <2>2
  <2>6. JobFits(run, "amd64", jobs'["amd64"]) /\ jobs'["amd64"].at = at
    <3>1. DOMAIN j = {"at", "source", "object", "actual", "differences"}
      BY <2>5 DEF JobFits
    <3> HIDE DEF j
    <3>2. /\ DOMAIN jobs'["amd64"] = DOMAIN j /\ jobs'["amd64"].source = j.source /\ jobs'["amd64"].at = at
      BY <2>4, <3>1
    <3> QED
      BY <2>1, <2>5, <3>1, <3>2 DEF JobFits, j
  <2>7. pc' = "done" /\ result' = result
    BY <2>1 DEF vars
  <2>8. Ordered'
    BY <2>6, <2>7 DEF Ordered
  <2>9. \A b \in Targets : JobFits(run', b, jobs'[b])
    BY <1>1, <2>2, <2>4, <2>6
  <2> QED
    BY <1>2, <2>2, <2>4, <2>8, <2>9 DEF Workflow
<1>6. CASE UNCHANGED allVars
  <2>1. UNCHANGED <<run, jobs, pc, result>>
    BY <1>6 DEF allVars, vars
  <2>2. Ordered => Ordered'
    BY <2>1 DEF Ordered
  <2> QED
    BY <1>2, <2>1, <2>2 DEF Workflow
<1> QED
  BY <1>3, <1>4, <1>5, <1>6 DEF EvidenceNext

-----------------------------------------------------------------------------
(* What the commit and the report of a workflow say of each other.  A      *)
(* result is accepted as it is checked in; a report passes only after the  *)
(* last comparison, and nothing it is made from changes after that.        *)
Inputs ==
  \A a \in DOMAIN accepted :
    \E input \in ToSet(run.oracles) : input.arch = a /\ accepted[a] = input.file[1]

Clean(r, result1, o) ==
  /\ o.entries = CompareInventory(r.inventory, r.probe.items, result1)
  /\ \A e \in o.entries : Count(e, {"mismatched", "kind"}) = 0

Concluded ==
  report.passed =>
    /\ Manifests
    /\ \A k \in 1..Len(run.oracles) : run.oracles[k].required => run.oracles[k].arch \in DOMAIN accepted
    /\ \A a \in DOMAIN accepted : \E o \in report.oracles : o.arch = a /\ Clean(run, accepted[a], o)

LEMMA InputsStep == ASSUME Started, Inputs, [Next]_vars PROVE Inputs'
<1>1. CASE LoadManifests
  BY <1>1 DEF LoadManifests, Goto, Inputs
<1>2. CASE LoadOracle
  <2> DEFINE input == run.oracles[next]
  <2>1. /\ run' = run /\ input \in ToSet(run.oracles)
        /\ accepted' = accepted \/ accepted' = Put(accepted, input.arch, input.file[1])
    <3>1. run.oracles \in Seq(ToSet(run.oracles)) /\ next \in Nat /\ next <= Len(run.oracles)
      BY <1>2 DEF LoadOracle, Started, Lists
    <3>2. next \in DOMAIN run.oracles
      <4>1. next # 0
        BY DEF Started
      <4> QED
        BY <3>1, <4>1
    <3>3. input \in ToSet(run.oracles)
      BY <3>2 DEF ToSet
    <3> QED
      BY <1>2, <3>3 DEF LoadOracle
  <2>2. \A a \in DOMAIN accepted' :
          \/ a = input.arch /\ accepted'[a] = input.file[1]
          \/ a \in DOMAIN accepted /\ accepted'[a] = accepted[a]
    BY <2>1 DEF Put
  <2> HIDE DEF input
  <2> QED
    BY <2>1, <2>2 DEF Inputs
<1>3. CASE ~LoadManifests /\ ~LoadOracle
  <2>1. UNCHANGED <<run, accepted>>
    BY <1>3 DEF Next, Cancel, Generate, LoadCancelled, Finish, WriteReport, Kill, vars, loading
  <2> QED
    BY <2>1 DEF Inputs
<1> QED
  BY <1>1, <1>2, <1>3

LEMMA ConcludedStep == ASSUME Started, Concluded, [Next]_vars PROVE Concluded'
<1>1. CASE Finish
  <2> SUFFICES ASSUME report'.passed PROVE Concluded'
    BY DEF Concluded
  <2>1. /\ Loop /\ Lists(run) /\ next \in Nat /\ next > Len(run.oracles)
        /\ UNCHANGED <<run, sdks, accepted>>
    BY <1>1 DEF Finish, Goto, Started, loading
  <2> DEFINE oracles == {Summary(a) : a \in DOMAIN accepted}
             Failed == {p \in oracles : \E e \in p.entries : Count(e, {"mismatched", "kind"}) # 0}
  <2>2. mismatches = {} /\ {Mismatch("abi-mismatch", o.arch) : o \in Failed} = {} /\ report'.oracles = oracles
    BY <1>1 DEF Finish, FinalReport
  <2>3. Failed = {}
    <3> HIDE DEF Failed
    <3> QED
      BY <2>2
  <2>4. Manifests'
    BY <2>1, <2>2 DEF Loop, Manifests
  <2>5. \A k \in 1..Len(run.oracles) : run.oracles[k].required => run.oracles[k].arch \in DOMAIN accepted
    <3>1. Len(run.oracles) \in Nat
      BY <2>1, LenProperties DEF Lists
    <3>2. \A k \in 1..Len(run.oracles) : k < next
      BY <2>1, <3>1
    <3> QED
      BY <2>1, <2>2, <3>2 DEF Loop
  <2>6. ASSUME NEW a \in DOMAIN accepted
        PROVE  \E o \in report'.oracles : o.arch = a /\ Clean(run, accepted[a], o)
    <3>1. Summary(a) \in oracles /\ Summary(a) \notin Failed
      BY <2>3
    <3>2. \A e \in Summary(a).entries : Count(e, {"mismatched", "kind"}) = 0
      BY <3>1
    <3>3. /\ Summary(a).arch = a
          /\ Summary(a).entries = CompareInventory(run.inventory, run.probe.items, accepted[a])
      BY SummaryOf
    <3> HIDE DEF oracles, Failed
    <3> QED
      BY <2>2, <3>1, <3>2, <3>3 DEF Clean
  <2>7. run' = run /\ accepted' = accepted
    BY <2>1
  <2> QED
    BY <2>4, <2>5, <2>6, <2>7 DEF Concluded
<1>2. CASE ~Finish
  <2>1. report' = report /\ (report.passed => UNCHANGED <<run, sdks, accepted>>)
    BY <1>2, ReportSettled
  <2> QED
    BY <2>1 DEF Concluded, Manifests
<1> QED
  BY <1>1, <1>2

-----------------------------------------------------------------------------
(* The same under the workflow: its steps are those of winapiverify, or    *)
(* leave it alone, or start it.                                            *)
Starts == pc = "idle" /\ pc' = "generate" /\ UNCHANGED <<run, cancelled, next, loading, report, disk, result>>

LEMMA WorkflowSteps == ASSUME Workflow, [EvidenceNext]_allVars PROVE [Next]_vars \/ Starts
<1>1. ASSUME NEW a \in Targets, CompareProbe(a) PROVE UNCHANGED vars \/ Starts
  <2>1. /\ Committed /\ jobs = [b \in Targets |-> jobs[b]] /\ jobs[a].at = "compare"
    BY <1>1, JobChanges DEF CompareProbe, At
  <2>2. JobFits(run, a, jobs[a]) /\ Ordered
    <3>1. jobs # << >>
      <4>1. DOMAIN << >> = {} /\ DOMAIN jobs = Targets
        BY <2>1
      <4> QED
        BY <4>1
    <3> QED
      BY <3>1 DEF Workflow
  <2>3. pc' # pc => a = "amd64" /\ pc' = "generate"
    BY <1>1, <2>1, <2>2, ComparedFits
  <2>4. a = "amd64" => pc = "idle"
    BY <2>1, <2>2 DEF Ordered
  <2>5. UNCHANGED <<run, cancelled, next, loading, report, disk, result>>
    BY <1>1 DEF CompareProbe
  <2> QED
    BY <2>3, <2>4, <2>5 DEF Starts, vars
<1>2. ASSUME NEW a \in Targets, GenerateProbe(a) \/ CompileProbe(a) \/ ExecuteProbe(a) \/ JobStops(a)
      PROVE  UNCHANGED vars
  BY <1>2 DEF GenerateProbe, CompileProbe, ExecuteProbe, JobStops
<1>3. CASE Verify \/ Verified \/ UNCHANGED allVars
  BY <1>3 DEF Verify, Verified, allVars
<1> QED
  BY <1>1, <1>2, <1>3 DEF EvidenceNext

(* Everything that holds of a workflow.                                    *)
Evident == Workflow /\ Exit /\ Trusted /\ Inputs /\ Concluded

LEMMA Evidently == EvidenceSpec => []Evident
<1>1. EvidenceInit => Evident
  <2> SUFFICES ASSUME EvidenceInit PROVE Evident
    OBVIOUS
  <2>1. Workflow /\ Lists(run)
    <3>1. CASE Init /\ jobs = << >>
      BY <3>1, RunsAssumption DEF Workflow, Init, Lists
    <3>2. CASE InitWorkflow
      <4>1. Committed /\ pc = "idle" /\ jobs = [a \in Targets |-> NewJob]
        BY <3>2 DEF InitWorkflow, Committed
      <4>2. Lists(run)
        BY <4>1, CommittedRun
      <4>3. NewJob.at = "generate" /\ DOMAIN NewJob = {"at", "source", "object", "actual", "differences"}
        BY DEF NewJob
      <4>4. \A a \in Targets : JobFits(run, a, NewJob)
        BY <4>3 DEF JobFits
      <4>5. "amd64" \in Targets
        BY DEF Targets, Executed
      <4> QED
        BY <4>1, <4>2, <4>3, <4>4, <4>5 DEF Workflow, Ordered
    <3> QED
      BY <3>1, <3>2 DEF EvidenceInit
  <2>2. /\ pc \in {"idle", "generate"} /\ next = 1 /\ accepted = << >> /\ report = NoReport
        /\ disk.from # "this" /\ result = "none"
    BY DEF EvidenceInit, Init, InitWorkflow
  <2>3. ~report.passed
    BY <2>2 DEF NoReport
  <2>4. Exit
    BY <2>2 DEF Exit, Silent, ReportMatchesResult
  <2>5. Trusted
    BY <2>1, <2>2, <2>3 DEF Trusted, Started, PassedMeansChecked
  <2>6. Inputs /\ Concluded
    <3>1. DOMAIN accepted = {}
      BY <2>2
    <3> QED
      BY <2>3, <3>1 DEF Inputs, Concluded
  <2> QED
    BY <2>1, <2>4, <2>5, <2>6 DEF Evident
<1>2. Evident /\ [EvidenceNext]_allVars => Evident'
  <2> SUFFICES ASSUME Workflow, Exit, Trusted, Inputs, Concluded, [EvidenceNext]_allVars PROVE Evident'
    BY DEF Evident
  <2>1. Workflow'
    BY WorkflowStep
  <2>2. CASE [Next]_vars
    BY <2>1, <2>2, ExitStep, TrustedStep, InputsStep, ConcludedStep DEF Trusted, Evident
  <2>3. CASE Starts
    <3>1. /\ pc = "idle" /\ pc' = "generate" /\ UNCHANGED <<run, next, accepted, sdks, report, disk, result>>
      BY <2>3 DEF Starts, loading
    <3>2. Exit'
      BY <3>1 DEF Exit, Silent, ReportMatchesResult, Running
    <3>3. Started'
      BY <3>1 DEF Trusted, Started, Lists
    <3>4. PassedMeansChecked'
      BY <3>1, Restated DEF Trusted
    <3>5. Inputs' /\ Concluded'
      BY <3>1 DEF Inputs, Concluded, Manifests
    <3> QED
      BY <2>1, <3>2, <3>3, <3>4, <3>5 DEF Evident, Trusted
  <2> QED
    BY <2>2, <2>3, WorkflowSteps
<1> QED
  BY <1>1, <1>2, PTL DEF EvidenceSpec

(* The exit and the report of winapiverify, when the workflow calls it.    *)
THEOREM WorkflowExitMatchesReport == EvidenceSpec => []ReportMatchesResult
BY Evidently, PTL DEF Evident, Exit

(* A report that passes in the workflow was checked.                       *)
THEOREM WorkflowPassedIsChecked == EvidenceSpec => []PassedMeansChecked
BY Evidently, PTL DEF Evident, Trusted

-----------------------------------------------------------------------------
(* Regeneration: what the renderer writes is what winapiverify passes and  *)
(* git compares.                                                           *)
ReviewedTree ==
  \E s \in ToSet(Render(run.lock, commit.module)) :
    /\ s.manifest = run.slice
    /\ \A p \in DOMAIN s.files : p \in DOMAIN run.checkout /\ run.checkout[p] = s.files[p]

Regenerated ==
  /\ Exit
  /\ step = "generate" => pc = "idle" /\ run = commit.run /\ commit \in Checkouts
  /\ step \in {"verify", "drift", "success"} => ReviewedTree
  /\ step \in {"drift", "success"} => result = "ok"
  /\ step = "success" => run = commit.run /\ disk.report = commit.report

LEMMA GeneratedTree == ASSUME Regenerated, GenerateTree PROVE ReviewedTree'
<1>1. PICK s \in ToSet(Render(run.lock, commit.module)) :
        run' = [run EXCEPT !.slice = s.manifest, !.checkout = Over(s.files, @)]
  BY DEF GenerateTree
<1>2. DOMAIN run = RunFields /\ commit' = commit
  BY CheckoutsAssumption DEF Regenerated, GenerateTree
<1>3. run'.lock = run.lock /\ run'.slice = s.manifest /\ run'.checkout = Over(s.files, run.checkout)
  BY <1>1, <1>2 DEF RunFields
<1>4. ASSUME NEW p \in DOMAIN s.files PROVE p \in DOMAIN run'.checkout /\ run'.checkout[p] = s.files[p]
  BY <1>3 DEF Over
<1> QED
  BY <1>1, <1>2, <1>3, <1>4 DEF ReviewedTree

LEMMA NextKeepsRun == ASSUME [Next]_vars PROVE run' = run
BY DEF Next, Cancel, Generate, LoadManifests, LoadOracle, LoadCancelled, Finish, WriteReport, Kill, vars

(* A job that succeeds is about a slice that the templates render from the *)
(* lock, and about the report that is checked in, whatever the commit.     *)
THEOREM RegeneratedSliceFollowsLock == RegenerationSpec => []SliceFollowsLock
<1>1. RegenerationInit => Regenerated
  BY DEF RegenerationInit, Regenerated, Exit, Silent, ReportMatchesResult
<1>2. Regenerated /\ [RegenerationNext]_regenerationVars => Regenerated'
  <2> SUFFICES ASSUME Regenerated, [RegenerationNext]_regenerationVars PROVE Regenerated'
    OBVIOUS
  <2>1. CASE GenerateTree
    <3>1. Exit'
      BY <2>1 DEF Regenerated, GenerateTree, Exit, Silent, ReportMatchesResult, Running
    <3> QED
      BY <2>1, <3>1, GeneratedTree DEF Regenerated, GenerateTree
  <2>2. CASE VerifyTree
    <3>1. Exit' /\ run' = run
      BY <2>2, ExitStep, NextKeepsRun DEF Regenerated, VerifyTree
    <3>2. ReviewedTree'
      BY <2>2, <3>1 DEF Regenerated, VerifyTree, ReviewedTree
    <3> QED
      BY <2>2, <3>1, <3>2 DEF Regenerated, VerifyTree
  <2>3. CASE UNCHANGED <<vars, commit>>
    <3>1. Exit'
      BY <2>3, ExitStep DEF Regenerated, vars
    <3>2. ReviewedTree => ReviewedTree'
      BY <2>3 DEF ReviewedTree, vars
    <3>3. CASE TreeVerified
      BY <2>3, <3>1, <3>2, <3>3 DEF Regenerated, TreeVerified, vars
    <3>4. CASE RejectDrift
      BY <2>3, <3>1, <3>2, <3>4 DEF Regenerated, RejectDrift, vars
    <3>5. CASE JobFails
      BY <2>3, <3>1, <3>5 DEF Regenerated, JobFails, vars
    <3>6. CASE step' = step
      BY <2>3, <3>1, <3>2, <3>6 DEF Regenerated, vars
    <3> QED
      BY <2>2, <2>1, <3>3, <3>4, <3>5, <3>6 DEF RegenerationNext, regenerationVars
  <2> QED
    BY <2>1, <2>2, <2>3 DEF RegenerationNext, regenerationVars, TreeVerified, RejectDrift, JobFails
<1>3. Regenerated => SliceFollowsLock
  BY DEF Regenerated, SliceFollowsLock, ReviewedTree, Exit, ReportMatchesResult
<1> QED
  BY <1>1, <1>2, <1>3, PTL DEF RegenerationSpec

-----------------------------------------------------------------------------
LEMMA MeasuredResult ==
  ASSUME Committed, NEW a, NEW item \in MeasuredBy(run, a) PROVE Decoded(item)
<1>1. Result(run.probe.items)
  BY CommittedRun
<1>2. Result({Emit(i, a) : i \in run.probe.items})
  BY <1>1, EmittedResult
<1> QED
  BY <1>2 DEF Result, MeasuredBy

LEMMA CleanMeasured ==
  ASSUME Committed, NEW a, NEW result1, result1.items = MeasuredBy(run, a), NEW o, Clean(run, result1, o)
  PROVE  /\ {e.item : e \in o.entries} = MeasuredBy(run, a)
         /\ \A e \in o.entries : \A i \in DOMAIN e.says : e.says[i].outcome \in {"matched", "unmatched"}
<1> DEFINE Entry(i) == CompareItem(run.inventory, result1.arch, i, CHOOSE p \in run.probe.items : p.id = i.id)
<1>1. o.entries = {Entry(i) : i \in MeasuredBy(run, a)}
  BY DEF Clean, CompareInventory
<1>2. \A i : Entry(i).item = i
  BY DEF CompareItem
<1>3. ASSUME NEW i \in MeasuredBy(run, a) PROVE Judged(Entry(i).says)
  BY MeasuredResult, JudgedItem
<1> HIDE DEF Entry
<1>4. {e.item : e \in o.entries} = MeasuredBy(run, a)
  BY <1>1, <1>2
<1>5. ASSUME NEW e \in o.entries
      PROVE  \A i \in DOMAIN e.says : e.says[i].outcome \in {"matched", "unmatched"}
  <2>1. Judged(e.says)
    BY <1>1, <1>3
  <2>2. Count(e, {"mismatched", "kind"}) = 0
    BY DEF Clean
  <2> QED
    BY <2>1, <2>2, NoneCounted
<1> QED
  BY <1>4, <1>5

(* A green workflow is evidence: the checked-in results are what the       *)
(* compilers measured on this commit, whatever they were made of.          *)
THEOREM GreenIsMeasured == EvidenceSpec => []EvidenceIsMeasured
<1>1. Evident => EvidenceIsMeasured
  <2> SUFFICES ASSUME Evident, Green PROVE EvidenceIsMeasured
    BY DEF EvidenceIsMeasured
  <2>1. /\ Committed /\ Ordered /\ \A a \in Targets : JobFits(run, a, jobs[a]) /\ jobs[a].at = "success"
    BY DEF Evident, Workflow, Green
  <2>2. report.passed
    <3>1. result = "ok"
      BY <2>1 DEF Ordered, Targets, Executed
    <3> QED
      BY <3>1 DEF Evident, Exit, ReportMatchesResult
  <2>3. ASSUME NEW a \in Executed
        PROVE  /\ Baseline(a)[1].items = MeasuredBy(run, a)
               /\ \E o \in report.oracles :
                    /\ o.arch = a /\ {e.item : e \in o.entries} = MeasuredBy(run, a)
                    /\ \A e \in o.entries : \A i \in DOMAIN e.says : e.says[i].outcome \in {"matched", "unmatched"}
    <3>1. Expected(run, a)[1].items = MeasuredBy(run, a)
      BY <2>1 DEF JobFits, Targets
    <3>2. PICK k \in 1..Len(run.oracles) : run.oracles[k].arch = a
      BY <2>1, CommittedRun
    <3>3. run.oracles[k].required
      <4>1. run.oracles \in Seq(ToSet(run.oracles))
        BY <2>1, CommittedRun DEF Lists
      <4>2. run.oracles[k] \in ToSet(run.oracles)
        BY <3>2, <4>1 DEF ToSet
      <4> QED
        BY <2>1, <4>2, CommittedRun
    <3>4. a \in DOMAIN accepted
      BY <2>2, <3>2, <3>3 DEF Evident, Concluded
    <3>5. accepted[a] = Expected(run, a)[1]
      BY <2>1, <3>4, CommittedRun DEF Evident, Inputs
    <3>6. PICK o \in report.oracles : o.arch = a /\ Clean(run, accepted[a], o)
      BY <2>2, <3>4 DEF Evident, Concluded
    <3>7. /\ {e.item : e \in o.entries} = MeasuredBy(run, a)
          /\ \A e \in o.entries : \A i \in DOMAIN e.says : e.says[i].outcome \in {"matched", "unmatched"}
      BY <2>1, <3>1, <3>5, <3>6, CleanMeasured
    <3>8. Baseline(a) = Expected(run, a)
      BY DEF Baseline, Expected
    <3> QED
      BY <3>1, <3>6, <3>7, <3>8
  <2>4. ASSUME NEW i \in run.probe.items, NEW a \in Targets, i.kind = "function"
        PROVE  Headers[a][i.name].type = i.expectedType
    <3>1. Compiles(SourceOf(run, a), a)
      BY <2>1 DEF JobFits
    <3>2. SourceOf(run, a).manifest.items = run.probe.items
      BY <2>1, ProbeFields
    <3> QED
      BY <2>4, <3>1, <3>2 DEF Compiles
  <2>5. \A a \in Executed : {Emit(i, a) : i \in run.probe.items} = MeasuredBy(run, a)
    BY DEF MeasuredBy
  <2> QED
    BY <2>3, <2>4, <2>5, SMTT(30) DEF EvidenceIsMeasured
<1> QED
  BY <1>1, Evidently, PTL

-----------------------------------------------------------------------------
(* What is said of an item accounts for it: every measured fact is said    *)
(* once, and as many outcomes are counted as the item has facts.           *)
Counted == {"matched", "unmatched", "mismatched"}
Said(says, outcomes) == {i \in DOMAIN says : says[i].outcome \in outcomes}

Accounted(item, says) ==
  /\ \E n \in Nat : DOMAIN says = 1..n
  /\ \A f \in Measured(item) : Cardinality({i \in DOMAIN says : says[i].fact = f}) = 1
  /\ Cardinality(Said(says, Counted)) = FactCount(item)
  /\ FactCount(item) \in Nat

(* A list of distinct facts: those of F, in positions m + 1 to m + n.      *)
Distinct(F, n) == \A i, j \in 1..n : F[i] = F[j] => i = j

TellsFrom(says, m, F, n) ==
  /\ DOMAIN says = 1..m + n
  /\ \A i \in 1..n : says[m + i].fact = F[i] /\ says[m + i].outcome \in Counted

LEMMA TellingAccounts ==
  ASSUME NEW item, NEW says, NEW F, NEW n \in Nat, NEW m \in {0, 1}, TellsFrom(says, m, F, n), Distinct(F, n),
         m = 1 => says[1].outcome = "kind" /\ \A i \in 1..n : says[1].fact # F[i],
         Measured(item) = {F[i] : i \in 1..n}, FactCount(item) = n
  PROVE  Accounted(item, says)
<1>1. DOMAIN says = 1..m + n /\ \A i \in 1..n : says[m + i].fact = F[i] /\ says[m + i].outcome \in Counted
  BY DEF TellsFrom
<1>2. \A k \in 1..m + n : (m = 1 /\ k = 1) \/ (k > m /\ k - m \in 1..n /\ k = m + (k - m))
  OBVIOUS
<1>3. ASSUME NEW f \in Measured(item) PROVE Cardinality({k \in DOMAIN says : says[k].fact = f}) = 1
  <2>1. PICK i \in 1..n : f = F[i]
    OBVIOUS
  <2>2. m + i \in DOMAIN says /\ says[m + i].fact = f
    BY <1>1, <2>1
  <2>3. ASSUME NEW k \in DOMAIN says, says[k].fact = f PROVE k = m + i
    <3>1. CASE m = 1 /\ k = 1
      BY <2>1, <2>3, <3>1
    <3>2. CASE k > m /\ k - m \in 1..n /\ k = m + (k - m)
      <4> DEFINE j == k - m
      <4>1. j \in 1..n /\ k = m + j
        BY <3>2
      <4>2. F[j] = F[i]
        <5> HIDE DEF j
        <5> QED
          BY <1>1, <2>1, <2>3, <4>1
      <4>3. j = i
        <5> HIDE DEF j
        <5> QED
          BY <4>1, <4>2 DEF Distinct
      <4> QED
        BY <4>1, <4>3
    <3> QED
      BY <1>1, <1>2, <3>1, <3>2
  <2>4. {k \in DOMAIN says : says[k].fact = f} = {m + i}
    BY <2>2, <2>3
  <2> QED
    BY <2>4, FS_Singleton
<1>4. Said(says, Counted) = m + 1..m + n
  <2>1. ASSUME NEW k \in 1..m + n PROVE says[k].outcome \in Counted <=> k \in m + 1..m + n
    <3>1. CASE m = 1 /\ k = 1
      <4>1. says[k].outcome = "kind"
        BY <3>1
      <4> QED
        BY <3>1, <4>1 DEF Counted
    <3>2. CASE k > m /\ k - m \in 1..n /\ k = m + (k - m)
      BY <1>1, <3>2
    <3> QED
      BY <1>2, <3>1, <3>2
  <2>2. m + 1..m + n \subseteq 1..m + n
    OBVIOUS
  <2> QED
    BY <1>1, <2>1, <2>2 DEF Said
<1>5. Cardinality(m + 1..m + n) = n
  <2>1. \A a, b \in Int : Cardinality(a..b) = IF a > b THEN 0 ELSE b - a + 1
    BY FS_Interval
  <2>2. m + 1 \in Int /\ m + n \in Int
    OBVIOUS
  <2>3. Cardinality(m + 1..m + n) = IF m + 1 > m + n THEN 0 ELSE m + n - (m + 1) + 1
    BY <2>1, <2>2
  <2> QED
    BY <2>3
<1>6. m + n \in Nat /\ DOMAIN says = 1..(m + n)
  BY <1>1
<1>7. \E k \in Nat : DOMAIN says = 1..k
  BY <1>6
<1>8. Cardinality(Said(says, Counted)) = FactCount(item) /\ FactCount(item) \in Nat
  BY <1>4, <1>5
<1> QED
  BY <1>3, <1>7, <1>8 DEF Accounted

(* An item as the files hold it: its lists are finite, without duplicates. *)
Countable(item) == item.kind = "record" => IsFiniteSet(item.fields) /\ UniqueIds(item.fields)

(* A listing of a finite set has each element once.                        *)
LEMMA ListingOnce ==
  ASSUME NEW S, IsFiniteSet(S)
  PROVE  /\ Cardinality(S) \in Nat /\ SetToSeq(S) \in [1..Cardinality(S) -> S]
         /\ \A i, j \in 1..Cardinality(S) : SetToSeq(S)[i] = SetToSeq(S)[j] => i = j
         /\ \A x \in S : \E i \in 1..Cardinality(S) : SetToSeq(S)[i] = x
<1> DEFINE n == Cardinality(S)
           f == SetToSeq(S)
<1>1. n \in Nat /\ ExistsBijection(1..n, S)
  BY FS_CardinalityType
<1>2. \E g \in [1..n -> S] : IsInjective(g)
  BY <1>1 DEF ExistsBijection, Bijection, Injection
<1>3. f \in [1..n -> S] /\ IsInjective(f)
  BY <1>2 DEF SetToSeq
<1> HIDE DEF f
<1>4. f \in Injection(1..n, S) /\ Cardinality(1..n) = n
  BY <1>1, <1>3, FS_Interval DEF Injection
<1>5. f \in Surjection(1..n, S)
  BY <1>4, FS_Injection
<1>6. \A x \in S : \E i \in 1..n : f[i] = x
  BY <1>5 DEF Surjection
<1>7. \A i, j \in 1..n : f[i] = f[j] => i = j
  BY <1>3 DEF IsInjective
<1> QED
  BY <1>1, <1>3, <1>6, <1>7 DEF f

(* The facts of an item are distinct, and are what was measured.           *)
LEMMA FactsDistinct ==
  ASSUME NEW item, Countable(item)
  PROVE  \E n \in Nat : /\ DOMAIN Facts(item) = 1..n /\ Distinct(Facts(item), n)
                        /\ Measured(item) = {Facts(item)[i] : i \in 1..n} /\ FactCount(item) = n
                        /\ <<"kind">> \notin Measured(item)
<1>1. CASE item.kind = "record"
  <2> DEFINE fields == SetToSeq(item.fields)
             n == Cardinality(item.fields)
             offsets == [i \in DOMAIN fields |-> <<"offset", fields[i].id>>]
             F == <<<<"size">>, <<"alignment">>>> \o offsets
  <2>1. /\ n \in Nat /\ fields \in [1..n -> item.fields]
        /\ \A i, j \in 1..n : fields[i] = fields[j] => i = j
        /\ \A x \in item.fields : \E i \in 1..n : fields[i] = x
    BY <1>1, ListingOnce DEF Countable
  <2>2. Facts(item) = F /\ FactCount(item) = 2 + n
    BY <1>1 DEF Facts, FactCount
  <2>3. Measured(item) = {<<"size">>, <<"alignment">>} \cup {<<"offset", f.id>> : f \in item.fields}
    BY <1>1 DEF Measured
  <2>4. \A i, j \in 1..n : <<"offset", fields[i].id>> = <<"offset", fields[j].id>> => i = j
    BY <1>1, <2>1 DEF Countable, UniqueIds
  <2> HIDE DEF fields, n
  <2>5. Len(offsets) = n /\ DOMAIN offsets = 1..n /\ \A i \in 1..n : offsets[i] = <<"offset", fields[i].id>>
    <3> DEFINE V == {<<"offset", fields[i].id>> : i \in 1..n}
    <3>1. DOMAIN fields = 1..n
      BY <2>1
    <3>2. offsets \in Seq(V) /\ Len(offsets) = n
      BY <2>1, <3>1, IsASeq
    <3> QED
      BY <3>1, <3>2
  <2>6. /\ DOMAIN F = 1..(2 + n) /\ F[1] = <<"size">> /\ F[2] = <<"alignment">>
        /\ \A i \in 1..n : F[2 + i] = <<"offset", fields[i].id>>
    <3> DEFINE V == {<<"size">>, <<"alignment">>} \cup {offsets[i] : i \in 1..n}
               two == <<<<"size">>, <<"alignment">>>>
    <3>1. offsets \in Seq(V)
      BY <2>1, <2>5, IsASeq
    <3>2. two \in Seq(V) /\ Len(two) = 2 /\ two[1] = <<"size">> /\ two[2] = <<"alignment">>
      OBVIOUS
    <3> HIDE DEF offsets, two, V
    <3>a. /\ two \o offsets \in Seq(V) /\ Len(two \o offsets) = Len(two) + Len(offsets)
          /\ \A i \in 1..(Len(two) + Len(offsets)) :
                (two \o offsets)[i] = IF i <= Len(two) THEN two[i] ELSE offsets[i - Len(two)]
      BY <3>1, <3>2, ConcatProperties
    <3>b. Len(two \o offsets) = 2 + n
      BY <2>5, <3>2, <3>a
    <3>c. DOMAIN (two \o offsets) = 1..(2 + n)
      BY <3>a, <3>b, LenProperties
    <3>3. /\ Len(two \o offsets) = 2 + n /\ DOMAIN (two \o offsets) = 1..(2 + n)
          /\ \A i \in 1..(2 + n) : (two \o offsets)[i] = IF i <= 2 THEN two[i] ELSE offsets[i - 2]
      BY <2>5, <3>2, <3>a, <3>b, <3>c
    <3>4. \A i \in 1..n : (two \o offsets)[2 + i] = offsets[i]
      BY <2>1, <3>3
    <3>5. F = two \o offsets
      BY DEF two
    <3> QED
      BY <2>1, <2>5, <3>2, <3>3, <3>4, <3>5
  <2> HIDE DEF F, offsets
  <2>7. \A k \in 1..(2 + n) : k = 1 \/ k = 2 \/ (\E i \in 1..n : k = 2 + i)
    <3> SUFFICES ASSUME NEW k \in 1..(2 + n), k # 1, k # 2 PROVE \E i \in 1..n : k = 2 + i
      OBVIOUS
    <3>1. k - 2 \in 1..n /\ k = 2 + (k - 2)
      BY <2>1
    <3> QED
      BY <3>1
  <2>8. Distinct(F, 2 + n)
    <3> SUFFICES ASSUME NEW i \in 1..(2 + n), NEW j \in 1..(2 + n), F[i] = F[j] PROVE i = j
      BY DEF Distinct
    <3>1. CASE i \in {1, 2} /\ j \in {1, 2}
      BY <2>6, <3>1
    <3>2. ASSUME NEW k \in 1..n, i = 2 + k, j \in {1, 2} PROVE FALSE
      BY <2>6, <3>2
    <3>3. ASSUME NEW k \in 1..n, j = 2 + k, i \in {1, 2} PROVE FALSE
      BY <2>6, <3>3
    <3>4. ASSUME NEW k \in 1..n, NEW l \in 1..n, i = 2 + k, j = 2 + l PROVE i = j
      BY <2>4, <2>6, <3>4
    <3> QED
      BY <2>7, <3>1, <3>2, <3>3, <3>4
  <2>9. Measured(item) = {F[i] : i \in 1..(2 + n)}
    <3>1. ASSUME NEW k \in 1..(2 + n) PROVE F[k] \in Measured(item)
      <4>1. CASE k \in {1, 2}
        BY <2>3, <2>6, <4>1
      <4>2. ASSUME NEW i \in 1..n, k = 2 + i PROVE F[k] \in Measured(item)
        <5>1. fields[i] \in item.fields
          BY <2>1
        <5>2. F[k] = <<"offset", fields[i].id>>
          BY <2>6, <4>2
        <5> QED
          BY <2>3, <5>1, <5>2
      <4> QED
        BY <2>7, <4>1, <4>2
    <3>2. 1 \in 1..(2 + n) /\ 2 \in 1..(2 + n) /\ \A i \in 1..n : 2 + i \in 1..(2 + n)
      BY <2>1
    <3>3. ASSUME NEW f \in Measured(item) PROVE \E k \in 1..(2 + n) : F[k] = f
      <4>1. CASE f \in {<<"size">>, <<"alignment">>}
        BY <2>6, <3>2, <4>1
      <4>2. ASSUME NEW x \in item.fields, f = <<"offset", x.id>> PROVE \E k \in 1..(2 + n) : F[k] = f
        <5>1. PICK i \in 1..n : fields[i] = x
          BY <2>1
        <5>2. F[2 + i] = f
          BY <2>6, <4>2, <5>1
        <5> QED
          BY <3>2, <5>2
      <4> QED
        BY <2>3, <4>1, <4>2
    <3> HIDE DEF F
    <3> QED
      BY <3>1, <3>3
  <2>10. <<"kind">> \notin Measured(item) /\ 2 + n \in Nat
    BY <2>1, <2>3
  <2> QED
    BY <2>2, <2>6, <2>8, <2>9, <2>10
<1>2. CASE item.kind # "record"
  <2>1. Measured(item) = ToSet(Facts(item))
    BY <1>2 DEF Measured
  <2>2. \/ Facts(item) = <<<<"maskHex">>, <<"bitOffset">>, <<"bitWidth">>>> /\ FactCount(item) = 3
        \/ Facts(item) = <<<<"typeCompatible">>, <<"callingConvention">>>> /\ FactCount(item) = 2
        \/ Facts(item) \in {<<<<"index">>>>, <<<<"value">>>>} /\ FactCount(item) = 1
    BY <1>2 DEF Facts, FactCount
  <2>3. /\ \A a, b, c : <<a, b, c>>[1] = a /\ <<a, b, c>>[2] = b /\ <<a, b, c>>[3] = c
        /\ \A a, b : <<a, b>>[1] = a /\ <<a, b>>[2] = b
        /\ \A a : <<a>>[1] = a
        /\ \A a, b, c : DOMAIN <<a, b, c>> = 1..3 /\ DOMAIN <<a, b>> = 1..2 /\ DOMAIN <<a>> = 1..1
    OBVIOUS
  <2>4. CASE Facts(item) = <<<<"maskHex">>, <<"bitOffset">>, <<"bitWidth">>>> /\ FactCount(item) = 3
    <3>1. DOMAIN Facts(item) = 1..3 /\ Distinct(Facts(item), 3)
      BY <2>3, <2>4 DEF Distinct
    <3>2. Measured(item) = {Facts(item)[i] : i \in 1..3} /\ <<"kind">> \notin Measured(item)
      BY <2>1, <2>4, <3>1 DEF ToSet
    <3> QED
      BY <2>4, <3>1, <3>2
  <2>5. CASE Facts(item) = <<<<"typeCompatible">>, <<"callingConvention">>>> /\ FactCount(item) = 2
    <3>1. DOMAIN Facts(item) = 1..2 /\ Distinct(Facts(item), 2)
      BY <2>3, <2>5 DEF Distinct
    <3>2. Measured(item) = {Facts(item)[i] : i \in 1..2} /\ <<"kind">> \notin Measured(item)
      BY <2>1, <2>5, <3>1 DEF ToSet
    <3> QED
      BY <2>5, <3>1, <3>2
  <2>6. CASE Facts(item) \in {<<<<"index">>>>, <<<<"value">>>>} /\ FactCount(item) = 1
    <3>1. DOMAIN Facts(item) = 1..1 /\ Distinct(Facts(item), 1)
      BY <2>3, <2>6 DEF Distinct
    <3>2. Measured(item) = {Facts(item)[i] : i \in 1..1} /\ <<"kind">> \notin Measured(item)
      BY <2>1, <2>6, <3>1 DEF ToSet
    <3> QED
      BY <2>6, <3>1, <3>2
  <2> QED
    BY <2>2, <2>4, <2>5, <2>6
<1> QED
  BY <1>1, <1>2

(* What says of each fact of the item, in the order of Facts or another.   *)
LEMMA ListAccounts ==
  ASSUME NEW item, Countable(item), NEW says, NEW n \in Nat,
         DOMAIN Facts(item) = 1..n, TellsFrom(says, 0, Facts(item), n)
  PROVE  Accounted(item, says)
<1>1. PICK k \in Nat : /\ DOMAIN Facts(item) = 1..k /\ Distinct(Facts(item), k)
                       /\ Measured(item) = {Facts(item)[i] : i \in 1..k} /\ FactCount(item) = k
  BY FactsDistinct
<1>2. n \in 1..k => k >= n
  OBVIOUS
<1>3. k = n
  <2>1. n \in 1..n \/ n = 0
    OBVIOUS
  <2>2. k \in 1..k \/ k = 0
    OBVIOUS
  <2> QED
    BY <1>1, <2>1, <2>2
<1> HIDE DEF TellsFrom
<1> QED
  BY <1>1, <1>3, TellingAccounts

LEMMA UnmatchedTells ==
  ASSUME NEW item, NEW n \in Nat, DOMAIN Facts(item) = 1..n
  PROVE  /\ TellsFrom(UnmatchedMany(item), 0, Facts(item), n)
         /\ UnmatchedMany(item) \in Seq([fact : {Facts(item)[i] : i \in 1..n}, outcome : {"unmatched"}])
         /\ Len(UnmatchedMany(item)) = n
<1> DEFINE F == Facts(item)
           V == [fact : {F[i] : i \in 1..n}, outcome : {"unmatched"}]
           e(i) == Says(F[i], "unmatched")
<1>1. \A i \in 1..n : e(i) \in V
  BY DEF Says
<1>2. UnmatchedMany(item) = [i \in 1..n |-> e(i)]
  BY DEF UnmatchedMany
<1>3. UnmatchedMany(item) \in Seq(V) /\ Len(UnmatchedMany(item)) = n
  <2> HIDE DEF e, V
  <2> QED
    BY <1>1, <1>2, IsASeq
<1>4. \A i \in 1..n : UnmatchedMany(item)[0 + i].fact = F[i] /\ UnmatchedMany(item)[0 + i].outcome = "unmatched"
  BY <1>2 DEF Says
<1>5. DOMAIN UnmatchedMany(item) = 1..0 + n
  BY <1>2
<1> QED
  BY <1>3, <1>4, <1>5 DEF TellsFrom, Counted

LEMMA UnmatchedAccounts ==
  ASSUME NEW item, Countable(item)
  PROVE  /\ Accounted(item, UnmatchedMany(item))
         /\ Accounted(item, <<Says(<<"kind">>, "kind")>> \o UnmatchedMany(item))
<1> DEFINE F == Facts(item)
           kind == <<Says(<<"kind">>, "kind")>>
           rest == UnmatchedMany(item)
           says == kind \o rest
<1>1. PICK n \in Nat : /\ DOMAIN F = 1..n /\ Distinct(F, n)
                       /\ Measured(item) = {F[i] : i \in 1..n} /\ FactCount(item) = n
                       /\ <<"kind">> \notin Measured(item)
  BY FactsDistinct
<1> HIDE DEF F
<1>2. /\ TellsFrom(rest, 0, F, n) /\ Len(rest) = n
      /\ rest \in Seq([fact : {F[i] : i \in 1..n}, outcome : {"unmatched"}])
  BY <1>1, UnmatchedTells DEF F
<1>3. Accounted(item, rest)
  BY <1>1, <1>2, ListAccounts DEF F
<1> DEFINE V == [fact : {F[i] : i \in 1..n} \cup {<<"kind">>}, outcome : {"unmatched", "kind"}]
<1>4. [fact : {F[i] : i \in 1..n}, outcome : {"unmatched"}] \subseteq V
  OBVIOUS
<1>5. kind \in Seq(V) /\ Len(kind) = 1 /\ kind[1].fact = <<"kind">> /\ kind[1].outcome = "kind"
  BY DEF Says
<1> HIDE DEF kind, rest, V
<1>6. rest \in Seq(V)
  BY <1>2, <1>4, SeqMonotonic
<1>a. /\ says \in Seq(V) /\ Len(says) = Len(kind) + Len(rest)
      /\ \A i \in 1..(Len(kind) + Len(rest)) : says[i] = IF i <= Len(kind) THEN kind[i] ELSE rest[i - Len(kind)]
  BY <1>5, <1>6, ConcatProperties
<1>7. says \in Seq(V) /\ Len(says) = 1 + n /\ \A i \in 1..1 + n : says[i] = IF i <= 1 THEN kind[i] ELSE rest[i - 1]
  BY <1>2, <1>5, <1>a
<1>8. DOMAIN says = 1..1 + n
  BY <1>7, LenProperties
<1>9. \A i \in 1..n : says[1 + i] = rest[0 + i]
  BY <1>7
<1>10. says[1] = kind[1]
  BY <1>7
<1> HIDE DEF says
<1>11. TellsFrom(says, 1, F, n)
  BY <1>2, <1>8, <1>9 DEF TellsFrom
<1>12. says[1].outcome = "kind" /\ \A i \in 1..n : says[1].fact # F[i]
  BY <1>1, <1>5, <1>10
<1>13. Accounted(item, says)
  BY <1>1, <1>11, <1>12, TellingAccounts
<1> QED
  BY <1>3, <1>13 DEF says, kind, rest

(* One fact, compared.                                                     *)
LEMMA EqualAccounts ==
  ASSUME NEW item, item.kind \notin {"record", "bitfield", "function"}, NEW expected, NEW actual
  PROVE  Accounted(item, Equal(Facts(item)[1], expected, actual))
<1>1. Facts(item) \in {<<<<"index">>>>, <<<<"value">>>>} /\ DOMAIN Facts(item) = 1..1
  BY DEF Facts
<1> DEFINE f == Facts(item)[1]
           o == IF expected = actual THEN "matched" ELSE "mismatched"
           says == Equal(f, expected, actual)
<1>2. says = <<Says(f, o)>>
  BY DEF Equal, SaysEqual
<1>3. o \in Counted
  BY DEF Counted
<1> HIDE DEF o, f
<1>4. DOMAIN says = 1..0 + 1 /\ says[1].fact = f /\ says[1].outcome = o
  BY <1>2 DEF Says
<1> HIDE DEF says
<1>5. TellsFrom(says, 0, Facts(item), 1)
  <2>1. \A i \in 1..1 : i = 1 /\ 0 + i = 1
    OBVIOUS
  <2> QED
    BY <1>3, <1>4, <2>1 DEF TellsFrom, f
<1>6. Countable(item)
  BY DEF Countable
<1>7. Accounted(item, says)
  BY <1>1, <1>5, <1>6, ListAccounts
<1> QED
  BY <1>7 DEF says, f

(* The outcome of a fact of a record's layout.                             *)
LEMMA FieldSays ==
  ASSUME NEW record, NEW offsets, NEW f
  PROVE  /\ CompareField(record, offsets, f).fact = <<"offset", f.id>>
         /\ CompareField(record, offsets, f).outcome \in Counted
<1> DEFINE found == FindModelField(record.fields, f.name)
           known == IF found = <<>> THEN {} ELSE {o \in offsets : o[1] = found[1].name}
           expected == (CHOOSE o \in known : TRUE)[2]
<1>1. CompareField(record, offsets, f) =
        IF known = {} THEN Says(<<"offset", f.id>>, "unmatched") ELSE SaysEqual(<<"offset", f.id>>, f.offset, expected)
  BY DEF CompareField
<1> HIDE DEF known, expected
<1> QED
  BY <1>1 DEF SaysEqual, Says, Counted

LEMMA OneSaid ==
  ASSUME NEW e
  PROVE  <<e>> \in Seq({e}) /\ Len(<<e>>) = 1 /\ <<e>>[1] = e
OBVIOUS

LEMMA EqualSays ==
  ASSUME NEW fact, NEW expected, NEW actual
  PROVE  /\ Len(Equal(fact, expected, actual)) = 1
         /\ Equal(fact, expected, actual)[1].fact = fact
         /\ Equal(fact, expected, actual)[1].outcome \in Counted
         /\ \E V : Equal(fact, expected, actual) \in Seq(V)
<1>1. Equal(fact, expected, actual) = <<SaysEqual(fact, expected, actual)>>
  BY DEF Equal
<1>2. SaysEqual(fact, expected, actual).fact = fact /\ SaysEqual(fact, expected, actual).outcome \in Counted
  BY DEF SaysEqual, Says, Counted
<1> HIDE DEF Counted
<1> QED
  BY <1>1, <1>2, OneSaid

(* Two lists one after the other.                                          *)
LEMMA ConcatSays ==
  ASSUME NEW s, NEW t, NEW V, NEW W, s \in Seq(V), t \in Seq(W)
  PROVE  /\ s \o t \in Seq(V \cup W) /\ Len(s \o t) = Len(s) + Len(t)
         /\ DOMAIN (s \o t) = 1..(Len(s) + Len(t))
         /\ \A i \in 1..Len(s) : (s \o t)[i] = s[i]
         /\ \A i \in 1..Len(t) : (s \o t)[Len(s) + i] = t[i]
<1>1. V \subseteq V \cup W /\ W \subseteq V \cup W
  OBVIOUS
<1>2. s \in Seq(V \cup W) /\ t \in Seq(V \cup W)
  BY <1>1, SeqMonotonic
<1>3. Len(s) \in Nat /\ Len(t) \in Nat
  BY LenProperties
<1>4. /\ s \o t \in Seq(V \cup W) /\ Len(s \o t) = Len(s) + Len(t)
      /\ \A i \in 1..(Len(s) + Len(t)) : (s \o t)[i] = IF i <= Len(s) THEN s[i] ELSE t[i - Len(s)]
  BY <1>2, ConcatProperties
<1>5. DOMAIN (s \o t) = 1..(Len(s) + Len(t))
  BY <1>4, LenProperties
<1> DEFINE c == s \o t
<1> HIDE DEF c
<1>6. \A i \in 1..Len(s) : c[i] = s[i]
  BY <1>3, <1>4 DEF c
<1>7. \A i \in 1..Len(t) : c[Len(s) + i] = t[i]
  <2> SUFFICES ASSUME NEW i \in 1..Len(t) PROVE c[Len(s) + i] = t[i]
    OBVIOUS
  <2>1. PICK k \in Nat : k = Len(s) + i
    BY <1>3
  <2>2. k \in 1..(Len(s) + Len(t)) /\ ~(k <= Len(s)) /\ k - Len(s) = i
    BY <1>3, <2>1
  <2> QED
    BY <1>4, <2>1, <2>2 DEF c
<1> QED
  BY <1>4, <1>5, <1>6, <1>7 DEF c

(* A function on 1..n is a sequence of its values.                         *)
LEMMA ValuesSeq ==
  ASSUME NEW n \in Nat, NEW s, DOMAIN s = 1..n, s = [i \in 1..n |-> s[i]]
  PROVE  s \in Seq({s[i] : i \in 1..n}) /\ Len(s) = n
<1> DEFINE V == {s[i] : i \in 1..n}
<1>1. s \in [1..n -> V]
  <2>1. \A i \in 1..n : s[i] \in V
    OBVIOUS
  <2> HIDE DEF V
  <2> QED
    BY <2>1
<1> HIDE DEF V
<1>2. s \in Seq(V)
  BY <1>1 
<1>3. Len(s) = n
  BY <1>1, <1>2
<1> QED
  BY <1>2, <1>3 DEF V

LEMMA RecordAccounts ==
  ASSUME NEW symbol, NEW item, Countable(item), item.kind = "record", NEW arch
  PROVE  Accounted(item, CompareRecord(symbol, item, arch))
<1> DEFINE record == symbol.type[1]
           kind == IF symbol.kind = "guid" THEN "struct" ELSE record.kind
           layout == FindLayout(record.layouts, arch)
           offsets == RecordOffsets(record, layout[1], arch)
           fields == SetToSeq(item.fields)
           n == Cardinality(item.fields)
           size == Equal(<<"size">>, item.size, layout[1].size)
           alignment == Equal(<<"alignment">>, item.alignment, layout[1].alignment)
           compared == [i \in DOMAIN fields |-> CompareField(record, offsets, fields[i])]
           says == size \o alignment \o compared
           F == Facts(item)
<1>1. CompareRecord(symbol, item, arch) =
        IF kind # item.shape THEN <<Says(<<"kind">>, "kind")>> \o UnmatchedMany(item)
        ELSE IF layout = <<>> THEN UnmatchedMany(item)
        ELSE says
  BY DEF CompareRecord
<1>2. n \in Nat /\ fields \in [1..n -> item.fields] /\ DOMAIN fields = 1..n
  BY ListingOnce DEF Countable
<1>3. /\ DOMAIN F = 1..(2 + n) /\ F[1] = <<"size">> /\ F[2] = <<"alignment">>
      /\ \A i \in 1..n : F[2 + i] = <<"offset", fields[i].id>>
  <2> DEFINE two == <<<<"size">>, <<"alignment">>>>
             rest == [i \in DOMAIN fields |-> <<"offset", fields[i].id>>]
  <2>1. F = two \o rest
    BY DEF Facts
  <2> HIDE DEF fields, n
  <2>2. rest \in Seq({rest[i] : i \in 1..n}) /\ Len(rest) = n /\ \A i \in 1..n : rest[i] = <<"offset", fields[i].id>>
    <3> DEFINE e(i) == <<"offset", fields[i].id>>
    <3>1. rest = [i \in 1..n |-> e(i)] /\ \A i \in 1..n : rest[i] = e(i) /\ e(i) \in {rest[j] : j \in 1..n}
      BY <1>2
    <3>a. DOMAIN rest = 1..n /\ rest = [i \in 1..n |-> rest[i]]
      BY <1>2
    <3> HIDE DEF rest, e
    <3>2. rest \in Seq({rest[i] : i \in 1..n}) /\ Len(rest) = n
      BY <1>2, <3>a, ValuesSeq
    <3> QED
      BY <3>1, <3>2 DEF e
  <2>3. two \in Seq({<<"size">>, <<"alignment">>}) /\ Len(two) = 2 /\ two[1] = <<"size">> /\ two[2] = <<"alignment">>
    <3>1. <<"size">> \in {<<"size">>, <<"alignment">>} /\ <<"alignment">> \in {<<"size">>, <<"alignment">>}
      OBVIOUS
    <3> DEFINE V == {<<"size">>, <<"alignment">>}
               a == <<"size">>
               b == <<"alignment">>
    <3>2. a \in V /\ b \in V
      BY <3>1
    <3> HIDE DEF V, a, b
    <3>3. <<a, b>> \in Seq(V) /\ Len(<<a, b>>) = 2 /\ <<a, b>>[1] = a /\ <<a, b>>[2] = b
      BY <3>2
    <3> QED
      BY <3>3 DEF V, a, b
  <2> HIDE DEF two, rest, F
  <2> DEFINE c == two \o rest
  <2>4. /\ DOMAIN c = 1..(Len(two) + Len(rest))
        /\ \A i \in 1..Len(two) : c[i] = two[i]
        /\ \A i \in 1..Len(rest) : c[Len(two) + i] = rest[i]
    <3>1. PICK A : two \in Seq(A)
      BY <2>3
    <3>2. PICK B : rest \in Seq(B)
      BY <2>2
    <3> QED
      BY <3>1, <3>2, ConcatSays
  <2> HIDE DEF c
  <2>5. DOMAIN c = 1..(2 + n) /\ c[1] = two[1] /\ c[2] = two[2] /\ \A i \in 1..n : c[2 + i] = rest[i]
    BY <1>2, <2>2, <2>3, <2>4
  <2> QED
    BY <2>1, <2>2, <2>3, <2>5 DEF c
<1>4. /\ Len(size) = 1 /\ size[1].fact = <<"size">> /\ size[1].outcome \in Counted
      /\ Len(alignment) = 1 /\ alignment[1].fact = <<"alignment">> /\ alignment[1].outcome \in Counted
      /\ (\E V : size \in Seq(V)) /\ (\E W : alignment \in Seq(W))
  <2> DEFINE first == <<"size">>
             second == <<"alignment">>
             found == layout[1]
  <2> HIDE DEF found, layout, kind, offsets, fields, n, compared, says, F, first, second, record
  <2>1. size = Equal(first, item.size, found.size) /\ alignment = Equal(second, item.alignment, found.alignment)
    BY DEF found, first, second
  <2> HIDE DEF size, alignment
  <2>2. Len(size) = 1 /\ size[1].fact = first /\ size[1].outcome \in Counted /\ \E V : size \in Seq(V)
    BY <2>1, EqualSays
  <2>3. Len(alignment) = 1 /\ alignment[1].fact = second /\ alignment[1].outcome \in Counted /\ \E V : alignment \in Seq(V)
    BY <2>1, EqualSays
  <2> QED
    BY <2>2, <2>3 DEF first, second
<1>5. PICK V : size \in Seq(V)
  BY <1>4
<1>6. PICK W : alignment \in Seq(W)
  BY <1>4
<1>7. \A i \in 1..n : compared[i].fact = <<"offset", fields[i].id>> /\ compared[i].outcome \in Counted
  BY <1>2, FieldSays
<1>8. compared \in Seq({compared[i] : i \in 1..n}) /\ Len(compared) = n
  <2>1. DOMAIN compared = 1..n /\ compared = [i \in 1..n |-> compared[i]]
    BY <1>2
  <2> HIDE DEF compared, n
  <2> QED
    BY <1>2, <2>1, ValuesSeq
<1>9. TellsFrom(says, 0, F, 2 + n)
  <2> HIDE DEF size, alignment, compared, fields, n, F
  <2> DEFINE head == size \o alignment
  <2>1. head \in Seq(V \cup W) /\ Len(head) = 2 /\ head[1] = size[1] /\ head[2] = alignment[1]
    <3>1. /\ head \in Seq(V \cup W) /\ Len(head) = Len(size) + Len(alignment)
          /\ \A i \in 1..Len(size) : head[i] = size[i]
          /\ \A i \in 1..Len(alignment) : head[Len(size) + i] = alignment[i]
      BY <1>5, <1>6, ConcatSays
    <3> HIDE DEF head
    <3> QED
      BY <1>4, <3>1
  <2>2. /\ DOMAIN says = 1..(Len(head) + Len(compared))
        /\ \A i \in 1..Len(head) : says[i] = head[i]
        /\ \A i \in 1..Len(compared) : says[Len(head) + i] = compared[i]
    <3>1. PICK A : head \in Seq(A)
      BY <2>1
    <3>2. PICK B : compared \in Seq(B)
      BY <1>8
    <3>3. says = head \o compared
      OBVIOUS
    <3> HIDE DEF head, says
    <3> QED
      BY <3>1, <3>2, <3>3, ConcatSays
  <2> HIDE DEF head, says
  <2>3. DOMAIN says = 1..(2 + n) /\ says[1] = size[1] /\ says[2] = alignment[1] /\ \A i \in 1..n : says[2 + i] = compared[i]
    BY <1>2, <1>8, <2>1, <2>2
  <2>4. ASSUME NEW k \in 1..(2 + n) PROVE says[k].fact = F[k] /\ says[k].outcome \in Counted
    <3>1. CASE k \in {1, 2}
      BY <1>3, <1>4, <2>3, <3>1
    <3>2. CASE k - 2 \in 1..n /\ k = 2 + (k - 2)
      <4>1. PICK i \in 1..n : k = 2 + i
        BY <3>2
      <4> QED
        BY <1>3, <1>7, <2>3, <4>1
    <3> QED
      BY <1>2, <3>1, <3>2
  <2>5. \A k \in 1..(2 + n) : 0 + k = k
    OBVIOUS
  <2>6. DOMAIN says = 1..0 + (2 + n)
    BY <1>2, <2>3
  <2> QED
    BY <2>4, <2>5, <2>6 DEF TellsFrom
<1>10. Accounted(item, says)
  <2>1. 2 + n \in Nat
    BY <1>2
  <2> HIDE DEF says, n
  <2> QED
    BY <1>3, <1>9, <2>1, ListAccounts
<1> HIDE DEF says, kind, layout
<1> QED
  BY <1>1, <1>10, UnmatchedAccounts

LEMMA BitFieldAccounts ==
  ASSUME NEW symbol, NEW item, item.kind = "bitfield", NEW probe
  PROVE  Accounted(item, CompareBitField(symbol, item, probe))
<1> DEFINE found == FindModelField(symbol.type[1].fields, probe.field)
           bits == found[1].bits[1]
           mask == BitMask(bits, item.bytes)
           offset == Equal(<<"bitOffset">>, item.offset, bits.offset)
           width == Equal(<<"bitWidth">>, item.width, bits.width)
           last == IF mask = <<>> THEN <<Says(<<"maskHex">>, "unmatched")>>
                   ELSE Equal(<<"maskHex">>, item.mask, mask[1])
           says == offset \o width \o last
           F == <<<<"bitOffset">>, <<"bitWidth">>, <<"maskHex">>>>
<1>1. CompareBitField(symbol, item, probe) =
        IF found = <<>> \/ found[1].bits = <<>> THEN UnmatchedMany(item) ELSE says
  BY DEF CompareBitField
<1>2. Countable(item)
  BY DEF Countable
<1>a. /\ Len(offset) = 1 /\ offset[1].fact = <<"bitOffset">> /\ offset[1].outcome \in Counted
      /\ \E U : offset \in Seq(U)
  <2> HIDE DEF bits
  <2> QED
    BY EqualSays
<1>b. /\ Len(width) = 1 /\ width[1].fact = <<"bitWidth">> /\ width[1].outcome \in Counted
      /\ \E V : width \in Seq(V)
  <2> HIDE DEF bits
  <2> QED
    BY EqualSays
<1>3. /\ Len(offset) = 1 /\ offset[1].fact = <<"bitOffset">> /\ offset[1].outcome \in Counted
      /\ Len(width) = 1 /\ width[1].fact = <<"bitWidth">> /\ width[1].outcome \in Counted
  BY <1>a, <1>b
<1>4. PICK U : offset \in Seq(U)
  BY <1>a
<1>5. PICK V : width \in Seq(V)
  BY <1>b
<1>6. \E W : last \in Seq(W) /\ Len(last) = 1 /\ last[1].fact = <<"maskHex">> /\ last[1].outcome \in Counted
  <2>1. CASE mask = <<>>
    <3> DEFINE e == Says(<<"maskHex">>, "unmatched")
    <3>1. e.fact = <<"maskHex">> /\ e.outcome \in Counted
      BY DEF Says, Counted
    <3>2. last = <<e>>
      BY <2>1
    <3> HIDE DEF e, last
    <3> QED
      BY <3>1, <3>2, OneSaid
  <2>2. CASE mask # <<>>
    <3>1. last = Equal(<<"maskHex">>, item.mask, mask[1])
      BY <2>2
    <3> HIDE DEF last, mask
    <3> QED
      BY <3>1, EqualSays
  <2> QED
    BY <2>1, <2>2
<1>7. PICK W : last \in Seq(W) /\ Len(last) = 1 /\ last[1].fact = <<"maskHex">> /\ last[1].outcome \in Counted
  BY <1>6
<1>8. TellsFrom(says, 0, F, 3)
  <2> HIDE DEF offset, width, last
  <2> DEFINE head == offset \o width
  <2>1. /\ head \in Seq(U \cup V) /\ Len(head) = Len(offset) + Len(width)
        /\ \A i \in 1..Len(offset) : head[i] = offset[i]
        /\ \A i \in 1..Len(width) : head[Len(offset) + i] = width[i]
    BY <1>4, <1>5, ConcatSays
  <2> HIDE DEF head
  <2>2. Len(head) = 2 /\ head[1] = offset[1] /\ head[2] = width[1]
    BY <1>3, <2>1
  <2>3. /\ DOMAIN (head \o last) = 1..(Len(head) + Len(last))
        /\ \A i \in 1..Len(head) : (head \o last)[i] = head[i]
        /\ \A i \in 1..Len(last) : (head \o last)[Len(head) + i] = last[i]
    BY <1>7, <2>1, ConcatSays
  <2>4. says = head \o last
    BY DEF head
  <2> HIDE DEF says
  <2>5. DOMAIN says = 1..3 /\ says[1] = offset[1] /\ says[2] = width[1] /\ says[3] = last[1]
    BY <1>7, <2>2, <2>3, <2>4
  <2>6. F[1] = <<"bitOffset">> /\ F[2] = <<"bitWidth">> /\ F[3] = <<"maskHex">>
    OBVIOUS
  <2> HIDE DEF F
  <2>7. ASSUME NEW i \in 1..3 PROVE says[0 + i].fact = F[i] /\ says[0 + i].outcome \in Counted
    <3>1. (i = 1 \/ i = 2 \/ i = 3) /\ 0 + i = i
      OBVIOUS
    <3> QED
      BY <1>3, <1>7, <2>5, <2>6, <3>1
  <2>8. DOMAIN says = 1..0 + 3
    BY <2>5
  <2> QED
    BY <2>7, <2>8 DEF TellsFrom
<1>9. Distinct(F, 3) /\ FactCount(item) = 3
  BY DEF Distinct, FactCount
<1>10. Measured(item) = {F[i] : i \in 1..3}
  <2>1. Measured(item) = ToSet(<<<<"maskHex">>, <<"bitOffset">>, <<"bitWidth">>>>)
    BY DEF Measured, Facts
  <2>2. ToSet(<<<<"maskHex">>, <<"bitOffset">>, <<"bitWidth">>>>) = {<<"maskHex">>, <<"bitOffset">>, <<"bitWidth">>}
    <3>1. ASSUME NEW a, NEW b, NEW c PROVE ToSet(<<a, b, c>>) = {a, b, c}
      <4>1. DOMAIN <<a, b, c>> = 1..3
        OBVIOUS
      <4> QED
        BY <4>1 DEF ToSet
    <3> QED
      BY <3>1
  <2>3. {F[i] : i \in 1..3} = {<<"bitOffset">>, <<"bitWidth">>, <<"maskHex">>}
    <3>1. F[1] = <<"bitOffset">> /\ F[2] = <<"bitWidth">> /\ F[3] = <<"maskHex">>
      OBVIOUS
    <3> HIDE DEF F
    <3> QED
      BY <3>1
  <2> QED
    BY <2>1, <2>2, <2>3
<1>11. Accounted(item, says)
  <2> HIDE DEF says, F
  <2> QED
    BY <1>8, <1>9, <1>10, TellingAccounts
<1> HIDE DEF says, found
<1> QED
  BY <1>1, <1>2, <1>11, UnmatchedAccounts

LEMMA FunctionAccounts ==
  ASSUME NEW symbol, NEW item, item.kind = "function", NEW probe
  PROVE  Accounted(item, CompareFunction(symbol, item, probe))
<1> DEFINE function == symbol.function[1]
           a == Says(<<"callingConvention">>,
                  IF CallingConventionEquivalent(function.convention, item.convention) THEN "matched" ELSE "mismatched")
           c == IF probe.expectedType = function.shape /\ item.typeCompatible THEN "matched" ELSE "mismatched"
           unknown == probe.expectedType = <<>> \/ function.shape = <<>>
           b == Says(<<"typeCompatible">>, IF unknown THEN "unmatched" ELSE c)
           first == <<a>>
           last == IF unknown THEN <<Says(<<"typeCompatible">>, "unmatched")>> ELSE <<Says(<<"typeCompatible">>, c)>>
           says == first \o last
           F == <<<<"callingConvention">>, <<"typeCompatible">>>>
<1>1. CompareFunction(symbol, item, probe) = says
  BY DEF CompareFunction
<1>2. a.fact = <<"callingConvention">> /\ a.outcome \in Counted
  BY DEF Says, Counted
<1>3. b.fact = <<"typeCompatible">> /\ b.outcome \in Counted
  BY DEF Says, Counted
<1>4. last = <<b>>
  <2> HIDE DEF unknown, c
  <2> QED
    OBVIOUS
<1> HIDE DEF a, b, last
<1>5. PICK U : first \in Seq(U) /\ Len(first) = 1 /\ first[1].fact = <<"callingConvention">> /\ first[1].outcome \in Counted
  BY <1>2, OneSaid
<1>6. PICK V : last \in Seq(V) /\ Len(last) = 1 /\ last[1].fact = <<"typeCompatible">> /\ last[1].outcome \in Counted
  BY <1>3, <1>4, OneSaid
<1> HIDE DEF first
<1>7. /\ DOMAIN says = 1..(Len(first) + Len(last))
      /\ \A i \in 1..Len(first) : says[i] = first[i]
      /\ \A i \in 1..Len(last) : says[Len(first) + i] = last[i]
  BY <1>5, <1>6, ConcatSays
<1> HIDE DEF says
<1>8. DOMAIN says = 1..2 /\ says[1] = first[1] /\ says[2] = last[1]
  BY <1>5, <1>6, <1>7
<1>9. F[1] = <<"callingConvention">> /\ F[2] = <<"typeCompatible">>
  OBVIOUS
<1>10. Distinct(F, 2) /\ FactCount(item) = 2
  BY DEF Distinct, FactCount
<1>11. Measured(item) = {F[i] : i \in 1..2}
  <2>1. Measured(item) = ToSet(<<<<"typeCompatible">>, <<"callingConvention">>>>)
    BY DEF Measured, Facts
  <2>2. ASSUME NEW x, NEW y PROVE ToSet(<<x, y>>) = {x, y}
    <3>1. DOMAIN <<x, y>> = 1..2
      OBVIOUS
    <3> QED
      BY <3>1 DEF ToSet
  <2> HIDE DEF F
  <2>3. {F[i] : i \in 1..2} = {<<"callingConvention">>, <<"typeCompatible">>}
    BY <1>9
  <2>4. Measured(item) = {<<"typeCompatible">>, <<"callingConvention">>}
    BY <2>1, <2>2
  <2> QED
    BY <2>3, <2>4
<1> HIDE DEF F
<1>12. TellsFrom(says, 0, F, 2)
  <2>1. ASSUME NEW i \in 1..2 PROVE says[0 + i].fact = F[i] /\ says[0 + i].outcome \in Counted
    <3>1. (i = 1 \/ i = 2) /\ 0 + i = i
      OBVIOUS
    <3> QED
      BY <1>5, <1>6, <1>8, <1>9, <3>1
  <2>2. DOMAIN says = 1..0 + 2
    BY <1>8
  <2> QED
    BY <2>1, <2>2 DEF TellsFrom
<1> QED
  BY <1>1, <1>10, <1>11, <1>12, TellingAccounts

LEMMA ItemAccounts ==
  ASSUME NEW inventory, NEW arch, NEW item, Countable(item), NEW probe
  PROVE  Accounted(item, CompareItem(inventory, arch, item, probe).says)
<1> DEFINE found == {s \in Find(inventory, arch, item, probe) : Comparable(s, item)}
           symbol == CHOOSE s \in found : TRUE
<1>1. CompareItem(inventory, arch, item, probe).says =
        IF found = {} THEN UnmatchedMany(item) ELSE Compare(symbol, item, probe, arch)
  BY DEF CompareItem
<1>2. found # {} => Comparable(symbol, item)
  OBVIOUS
<1>3. Accounted(item, UnmatchedMany(item))
  BY UnmatchedAccounts
<1> HIDE DEF found, symbol
<1>4. ASSUME item.kind \in {"value", "guid", "vtable"}
      PROVE  /\ Facts(item)[1] = IF item.kind = "vtable" THEN <<"index">> ELSE <<"value">>
             /\ \A x, y : Accounted(item, Equal(Facts(item)[1], x, y))
  <2>1. item.kind \notin {"record", "bitfield", "function"}
    BY <1>4
  <2> QED
    BY <1>4, <2>1, EqualAccounts DEF Facts
<1>5. ASSUME Comparable(symbol, item) PROVE Accounted(item, Compare(symbol, item, probe, arch))
  <2>1. item.kind \in {"record", "value", "guid", "bitfield", "function", "vtable"}
    BY <1>5 DEF Comparable
  <2>2. CASE item.kind = "record"
    BY <2>2, RecordAccounts DEF Compare
  <2>3. CASE item.kind = "value"
    BY <1>3, <1>4, <2>3 DEF Compare, CompareConstant
  <2>4. CASE item.kind = "guid"
    BY <1>4, <2>4 DEF Compare
  <2>5. CASE item.kind = "bitfield"
    BY <2>5, BitFieldAccounts DEF Compare
  <2>6. CASE item.kind = "function"
    BY <2>6, FunctionAccounts DEF Compare
  <2>7. CASE item.kind = "vtable"
    BY <1>3, <1>4, <2>7 DEF Compare, CompareVTable
  <2> QED
    BY <2>1, <2>2, <2>3, <2>4, <2>5, <2>6, <2>7
<1> QED
  BY <1>1, <1>2, <1>3, <1>5

(* As many outcomes are counted for an item as it has facts.               *)
LEMMA CountedOnce ==
  ASSUME NEW item, NEW says, Accounted(item, says)
  PROVE  ExistsBijection(1..FactCount(item), Said(says, Counted)) /\ FactCount(item) \in Nat
<1>1. PICK n \in Nat : DOMAIN says = 1..n
  BY DEF Accounted
<1>2. IsFiniteSet(1..n) /\ Said(says, Counted) \in SUBSET (1..n)
  BY <1>1, FS_Interval DEF Said
<1>3. IsFiniteSet(Said(says, Counted))
  BY <1>2, FS_Subset
<1> QED
  BY <1>3, FS_CardinalityType DEF Accounted

(* What is said in a comparison with an outcome of a set.                  *)
Sayings(entries, outcomes) == UNION {{e} \X Saying(e, outcomes) : e \in entries}

LEMMA SayingsAre ==
  ASSUME NEW entries, NEW outcomes, NEW x
  PROVE  x \in Sayings(entries, outcomes) <=>
           \E e \in entries : \E i \in DOMAIN e.says : x = <<e, i>> /\ e.says[i].outcome \in outcomes
BY DEF Sayings, Saying

LEMMA TotalsSplit ==
  ASSUME NEW entries, IsFiniteSet(Sayings(entries, Counted))
  PROVE  Cardinality(Sayings(entries, Counted)) =
           Total(entries, {"matched"}) + Total(entries, {"unmatched"}) + Total(entries, {"mismatched"})
<1> DEFINE A == Sayings(entries, {"matched"})
           B == Sayings(entries, {"unmatched"})
           C == Sayings(entries, {"mismatched"})
           D == Sayings(entries, Counted)
<1>1. \A x : x \in D <=> x \in A \/ x \in B \/ x \in C
  BY SayingsAre DEF Counted
<1>2. A \cap B = {} /\ (A \cup B) \cap C = {}
  <2>1. ASSUME NEW x, NEW o, x \in Sayings(entries, {o}) PROVE x[1].says[x[2]].outcome = o
    BY <2>1, SayingsAre
  <2>2. \A x : /\ x \in A => x[1].says[x[2]].outcome = "matched"
               /\ x \in B => x[1].says[x[2]].outcome = "unmatched"
               /\ x \in C => x[1].says[x[2]].outcome = "mismatched"
    BY <2>1
  <2> HIDE DEF A, B, C
  <2> QED
    BY <2>2
<1>3. Total(entries, {"matched"}) = Cardinality(A) /\ Total(entries, {"unmatched"}) = Cardinality(B)
      /\ Total(entries, {"mismatched"}) = Cardinality(C)
  BY DEF Total, Sayings
<1>4. IsFiniteSet(D)
  OBVIOUS
<1> HIDE DEF A, B, C, D
<1>5. A \in SUBSET D /\ B \in SUBSET D /\ C \in SUBSET D /\ D = (A \cup B) \cup C
  BY <1>1
<1>6. IsFiniteSet(A) /\ IsFiniteSet(B) /\ IsFiniteSet(C)
  BY <1>4, <1>5, FS_Subset
<1>7. IsFiniteSet(A \cup B) /\ Cardinality(A \cup B) = Cardinality(A) + Cardinality(B) - Cardinality(A \cap B)
  BY <1>6, FS_Union
<1>8. Cardinality(D) = Cardinality(A \cup B) + Cardinality(C) - Cardinality((A \cup B) \cap C)
  BY <1>5, <1>6, <1>7, FS_Union
<1>9. Cardinality(A) \in Nat /\ Cardinality(B) \in Nat /\ Cardinality(C) \in Nat
  BY <1>6, FS_CardinalityType
<1>10. Cardinality(D) = Cardinality(A) + Cardinality(B) + Cardinality(C)
  BY <1>2, <1>7, <1>8, <1>9, FS_EmptySet
<1> QED
  BY <1>3, <1>10 DEF D

(* The counters of a summary add up to the facts of the file.              *)
LEMMA TotalsAdd ==
  ASSUME NEW inventory, NEW probes, NEW oracle, IsFiniteSet(oracle.items), \A i \in oracle.items : Countable(i)
  PROVE  LET entries == CompareInventory(inventory, probes, oracle)
         IN  FactTotal(oracle.items) =
               Total(entries, {"matched"}) + Total(entries, {"unmatched"}) + Total(entries, {"mismatched"})
<1> DEFINE items == oracle.items
           entries == CompareInventory(inventory, probes, oracle)
           probe(i) == CHOOSE p \in probes : p.id = i.id
           entry == [i \in items |-> CompareItem(inventory, oracle.arch, i, probe(i))]
           facts == [i \in items |-> FactCount(i)]
           said == [i \in items |-> Said(entry[i].says, Counted)]
           number == [i \in items |-> CHOOSE b : b \in Bijection(1..facts[i], said[i])]
           P == UNION {{i} \X (1..facts[i]) : i \in items}
           Q == Sayings(entries, Counted)
<1>1. entries = {entry[i] : i \in items} /\ \A i \in items : entry[i].item = i
  BY DEF CompareInventory, CompareItem
<1>2. \A i \in items : facts[i] \in Nat /\ number[i] \in Bijection(1..facts[i], said[i])
  <2> SUFFICES ASSUME NEW i \in items PROVE facts[i] \in Nat /\ number[i] \in Bijection(1..facts[i], said[i])
    OBVIOUS
  <2>1. Accounted(i, CompareItem(inventory, oracle.arch, i, probe(i)).says)
    <3> HIDE DEF probe
    <3> QED
      BY ItemAccounts
  <2>2. Accounted(i, entry[i].says)
    BY <2>1
  <2> HIDE DEF entry
  <2>3. ExistsBijection(1..FactCount(i), Said(entry[i].says, Counted)) /\ FactCount(i) \in Nat
    BY <2>2, CountedOnce
  <2>4. \E b : b \in Bijection(1..facts[i], said[i])
    BY <2>3 DEF ExistsBijection
  <2>5. number[i] = CHOOSE b : b \in Bijection(1..facts[i], said[i])
    OBVIOUS
  <2>6. facts[i] \in Nat
    BY <2>3
  <2> HIDE DEF number
  <2> QED
    BY <2>4, <2>5, <2>6
<1>3. \A x : x \in Q <=> \E i \in items : \E k \in said[i] : x = <<entry[i], k>>
  <2>1. \A x : x \in Q <=> \E e \in entries : \E k \in DOMAIN e.says : x = <<e, k>> /\ e.says[k].outcome \in Counted
    BY SayingsAre
  <2>2. \A i \in items : \A k : k \in said[i] <=> k \in DOMAIN entry[i].says /\ entry[i].says[k].outcome \in Counted
    <3> HIDE DEF entry
    <3> QED
      BY DEF Said
  <2> HIDE DEF Q, entries, entry, said
  <2> QED
    BY <1>1, <2>1, <2>2
<1>4. \A x : x \in P <=> \E i \in items : \E k \in 1..facts[i] : x = <<i, k>>
  <2> HIDE DEF facts
  <2> QED
    OBVIOUS
<1>5. FactTotal(items) = Cardinality(P)
  <2>1. {{i} \X (1..FactCount(i)) : i \in items} = {{i} \X (1..facts[i]) : i \in items}
    OBVIOUS
  <2> QED
    BY <2>1 DEF FactTotal
<1> HIDE DEF items, entries, entry, facts, said, number, Q
<1>6. IsFiniteSet(P)
  <2> DEFINE F == {{i} \X (1..facts[i]) : i \in items}
             f == [i \in items |-> {i} \X (1..facts[i])]
  <2>1. f \in Surjection(items, F)
    BY DEF Surjection
  <2>2. IsFiniteSet(items)
    BY DEF items
  <2>3. IsFiniteSet(F)
    BY <2>1, <2>2, FS_Surjection
  <2>4. ASSUME NEW G \in F PROVE IsFiniteSet(G)
    <3>1. PICK i \in items : G = {i} \X (1..facts[i])
      OBVIOUS
    <3>2. IsFiniteSet({i})
      BY FS_Singleton
    <3>3. PICK n \in Nat : n = facts[i]
      BY <1>2
    <3>4. IsFiniteSet(1..n)
      BY FS_Interval
    <3> QED
      BY <3>1, <3>2, <3>3, <3>4, FS_Product
  <2> HIDE DEF F
  <2>5. IsFiniteSet(UNION F)
    BY <2>3, <2>4, FS_UNION
  <2> QED
    BY <2>5 DEF F
<1> HIDE DEF P
<1> DEFINE g == [x \in P |-> <<entry[x[1]], number[x[1]][x[2]]>>]
<1>7. g \in Bijection(P, Q)
  <2>1. \A i \in items : \A k \in 1..facts[i] : <<i, k>> \in P /\ g[<<i, k>>] = <<entry[i], number[i][k]>>
    BY <1>4
  <2> HIDE DEF g
  <2>2. \A i \in items : /\ \A k \in 1..facts[i] : number[i][k] \in said[i]
                         /\ \A k, l \in 1..facts[i] : number[i][k] = number[i][l] => k = l
                         /\ \A m \in said[i] : \E k \in 1..facts[i] : number[i][k] = m
    BY <1>2 DEF Bijection, Injection, Surjection, IsInjective
  <2>3. \A x \in P : g[x] \in Q
    BY <1>3, <1>4, <2>1, <2>2
  <2>4. ASSUME NEW x \in P, NEW y \in P, g[x] = g[y] PROVE x = y
    <3>a. PICK i \in items : \E k \in 1..facts[i] : x = <<i, k>>
      BY <1>4
    <3>1. PICK k \in 1..facts[i] : x = <<i, k>>
      BY <3>a
    <3>b. PICK j \in items : \E l \in 1..facts[j] : y = <<j, l>>
      BY <1>4
    <3>2. PICK l \in 1..facts[j] : y = <<j, l>>
      BY <3>b
    <3>3. entry[i] = entry[j] /\ number[i][k] = number[j][l]
      BY <2>1, <2>4, <3>1, <3>2
    <3>4. i = j
      BY <1>1, <3>3
    <3> QED
      BY <2>2, <3>1, <3>2, <3>3, <3>4
  <2>5. ASSUME NEW q \in Q PROVE \E x \in P : g[x] = q
    <3>a. PICK i \in items : \E m \in said[i] : q = <<entry[i], m>>
      BY <1>3
    <3>1. PICK m \in said[i] : q = <<entry[i], m>>
      BY <3>a
    <3>2. PICK k \in 1..facts[i] : number[i][k] = m
      BY <2>2
    <3> QED
      BY <2>1, <3>1, <3>2
  <2>6. g = [x \in P |-> g[x]]
    BY DEF g
  <2> QED
    BY <2>3, <2>4, <2>5, <2>6 DEF Bijection, Injection, Surjection, IsInjective
<1>8. IsFiniteSet(Q) /\ Cardinality(Q) = Cardinality(P)
  <2> HIDE DEF g
  <2> QED
    BY <1>6, <1>7, FS_Bijection DEF ExistsBijection
<1> QED
  BY <1>5, <1>8, TotalsSplit DEF Q, items, entries

(* The files of a run are finite; what is accepted was validated; the      *)
(* report accounts for every item of every comparison.                     *)
Finite(r) ==
  Lists(r) /\ \A input \in ToSet(r.oracles) : input.file # <<>> => FiniteFile(input.file[1])

Validated(oracle) == LoadedOracle(oracle) /\ FiniteFile(oracle)

Balanced(o) ==
  /\ \A e \in o.entries : Accounted(e.item, e.says)
  /\ o.facts = o.matched + o.unmatched + o.mismatched

Wrong(e) == \E i \in DOMAIN e.says : e.says[i].outcome \in {"mismatched", "kind"}

Accounting ==
  /\ Finite(run) /\ next \in Nat \ {0}
  /\ \A a \in DOMAIN accepted : Validated(accepted[a])
  /\ \A o \in report.oracles : Balanced(o) /\ \A e \in o.entries : Wrong(e) => ~report.passed

LEMMA Balances ==
  ASSUME NEW a \in DOMAIN accepted, Validated(accepted[a])
  PROVE  Balanced(Summary(a))
<1> DEFINE oracle == accepted[a]
           inventory == run.inventory
           probes == run.probe.items
           entries == CompareInventory(inventory, probes, oracle)
           o == Summary(a)
<1>1. /\ o.entries = entries /\ o.facts = FactTotal(oracle.items) /\ o.matched = Total(entries, {"matched"})
      /\ o.unmatched = Total(entries, {"unmatched"}) /\ o.mismatched = Total(entries, {"mismatched"})
  BY DEF Summary, Summarized
<1> HIDE DEF o
<1>2. IsFiniteSet(oracle.items) /\ \A i \in oracle.items : Countable(i)
  BY DEF Validated, LoadedOracle, FiniteFile, Countable
<1> HIDE DEF oracle, inventory, probes
<1>3. o.facts = o.matched + o.unmatched + o.mismatched
  BY <1>1, <1>2, TotalsAdd
<1>4. ASSUME NEW e \in entries PROVE Accounted(e.item, e.says)
  <2> DEFINE probe(i) == CHOOSE p \in probes : p.id = i.id
  <2>1. PICK i \in oracle.items : e = CompareItem(inventory, oracle.arch, i, probe(i))
    BY DEF CompareInventory
  <2> HIDE DEF probe
  <2>2. e.item = i
    BY <2>1 DEF CompareItem
  <2> QED
    BY <1>2, <2>1, <2>2, ItemAccounts
<1> QED
  BY <1>1, <1>3, <1>4 DEF Balanced, o

(* A wrong outcome is counted.                                             *)
LEMMA WrongCounted ==
  ASSUME NEW e, Accounted(e.item, e.says), Wrong(e)
  PROVE  Count(e, {"mismatched", "kind"}) # 0
<1>1. PICK n \in Nat : DOMAIN e.says = 1..n
  BY DEF Accounted
<1> DEFINE S == Saying(e, {"mismatched", "kind"})
<1>2. S \in SUBSET (1..n) /\ S # {}
  BY <1>1 DEF Saying, Wrong
<1>a. IsFiniteSet(1..n)
  BY FS_Interval
<1> HIDE DEF S
<1>3. Cardinality(S) # 0
  BY <1>a, <1>2, FS_Subset, FS_EmptySet
<1> QED
  BY <1>3 DEF Count, S

LEMMA AccountingStep == ASSUME Accounting, [Next]_vars PROVE Accounting'
<1>1. run' = run /\ Finite(run)'
  BY DEF Accounting, Next, vars, Cancel, Generate, LoadManifests, LoadOracle, LoadCancelled, Finish, WriteReport, Kill, Finite, Lists
<1>2. CASE LoadOracle
  <2> DEFINE input == run.oracles[next]
  <2>1. report' = report /\ next' = next + 1
    BY <1>2 DEF LoadOracle
  <2>2. input \in ToSet(run.oracles)
    <3>1. run.oracles \in Seq(ToSet(run.oracles)) /\ next \in Nat /\ next # 0 /\ next <= Len(run.oracles)
      BY <1>2 DEF LoadOracle, Accounting, Finite, Lists
    <3>2. next \in DOMAIN run.oracles
      BY <3>1
    <3> QED
      BY <3>2 DEF ToSet
  <2>3. \A a \in DOMAIN accepted' : Validated(accepted'[a])
    <3>1. CASE Accepts(input)
      <4>1. accepted' = Put(accepted, input.arch, input.file[1])
        BY <1>2, <3>1 DEF LoadOracle
      <4>2. input.file # <<>> /\ LoadedOracle(input.file[1])
        BY <3>1 DEF Accepts, InputCodes
      <4>3. Validated(input.file[1])
        BY <2>2, <4>2 DEF Accounting, Finite, Validated
      <4> HIDE DEF input
      <4>4. \A a \in DOMAIN accepted' : accepted'[a] = input.file[1] \/ (a \in DOMAIN accepted /\ accepted'[a] = accepted[a])
        BY <4>1 DEF Put
      <4> QED
        BY <4>3, <4>4 DEF Accounting
    <3>2. CASE ~Accepts(input)
      BY <1>2, <3>2 DEF LoadOracle, Accounting
    <3> QED
      BY <3>1, <3>2
  <2> QED
    BY <1>1, <2>1, <2>3 DEF Accounting
<1>3. CASE LoadManifests
  BY <1>1, <1>3 DEF LoadManifests, Accounting
<1>4. CASE Finish
  <2> DEFINE oracles == {Summary(a) : a \in DOMAIN accepted}
             Failed == {p \in oracles : \E e \in p.entries : Count(e, {"mismatched", "kind"}) # 0}
  <2>1. UNCHANGED <<next, accepted>>
    BY <1>4 DEF Finish, loading
  <2>2. /\ report'.oracles = oracles
        /\ report'.passed <=> mismatches \cup {Mismatch("abi-mismatch", o.arch) : o \in Failed} = {}
    BY <1>4 DEF Finish, FinalReport
  <2>3. \A o \in oracles : Balanced(o)
    BY Balances DEF Accounting
  <2>4. ASSUME NEW o \in oracles, NEW e \in o.entries, Wrong(e) PROVE ~report'.passed
    <3>1. Count(e, {"mismatched", "kind"}) # 0
      BY <2>3, <2>4, WrongCounted DEF Balanced
    <3>2. o \in Failed
      BY <3>1
    <3>3. Mismatch("abi-mismatch", o.arch) \in {Mismatch("abi-mismatch", p.arch) : p \in Failed}
      BY <3>2
    <3> HIDE DEF Failed, oracles
    <3> QED
      BY <2>2, <3>3
  <2> HIDE DEF oracles, Failed
  <2> QED
    BY <1>1, <2>1, <2>2, <2>3, <2>4 DEF Accounting
<1>5. CASE ~LoadOracle /\ ~LoadManifests /\ ~Finish
  <2>1. UNCHANGED <<next, accepted, report>>
    BY <1>5 DEF Next, vars, Cancel, Generate, LoadCancelled, WriteReport, Kill, loading
  <2> QED
    BY <1>1, <2>1 DEF Accounting
<1> QED
  BY <1>2, <1>3, <1>4, <1>5

LEMMA AccountingMeans == Accounting => FactsAccounted
BY DEF Accounting, FactsAccounted, Balanced, Accounted, Wrong

LEMMA RunIsFinite == ASSUME Init PROVE Finite(run)
BY RunsAssumption DEF Init, Finite, Lists

LEMMA CommitIsFinite == ASSUME Committed PROVE Finite(run)
<1>1. Lists(run)
  BY CommittedRun
<1>2. ASSUME NEW input \in ToSet(run.oracles), input.file # <<>> PROVE FiniteFile(input.file[1])
  <2>1. Result(input.file[1].items)
    BY <1>2, CommittedRun
  <2> QED
    BY <2>1 DEF Result, Decoded, FiniteFile
<1> QED
  BY <1>1, <1>2 DEF Finite

LEMMA AccountingStarts ==
  ASSUME Finite(run), next = 1, accepted = << >>, report = NoReport PROVE Accounting
<1>1. DOMAIN accepted = {} /\ report.oracles = {}
  BY DEF NoReport
<1> QED
  BY <1>1 DEF Accounting

(* Every measured fact is once in the report, the counters add up to the   *)
(* facts of the file, and one mismatch of any kind fails the report.       *)
THEOREM EveryFactIsAccounted == Spec => []FactsAccounted
<1>1. Init => Accounting
  BY AccountingStarts, RunIsFinite DEF Init
<1>2. Accounting /\ [Next]_vars => Accounting'
  BY AccountingStep
<1> QED
  BY <1>1, <1>2, AccountingMeans, PTL DEF Spec

(* The same of the report a commit gets in the workflow.                   *)
THEOREM WorkflowFactsAreAccounted == EvidenceSpec => []FactsAccounted
<1>1. EvidenceInit => Accounting
  <2>1. InitWorkflow => Committed
    BY DEF InitWorkflow, Committed
  <2> QED
    BY <2>1, AccountingStarts, RunIsFinite, CommitIsFinite DEF EvidenceInit, Init, InitWorkflow
<1>2. Accounting /\ Evident /\ [EvidenceNext]_allVars => Accounting'
  <2> SUFFICES ASSUME Accounting, Workflow, [EvidenceNext]_allVars PROVE Accounting'
    BY DEF Evident
  <2>1. CASE [Next]_vars
    BY <2>1, AccountingStep
  <2>2. CASE Starts
    BY <2>2 DEF Starts, Accounting, Finite, Lists, loading
  <2> QED
    BY <2>1, <2>2, WorkflowSteps
<1> QED
  BY <1>1, <1>2, Evidently, AccountingMeans, PTL DEF EvidenceSpec

-----------------------------------------------------------------------------
(* What abi-oracle compare counts.  Two results that hold the same items   *)
(* pair up by ID, and then by position, so that every difference has one   *)
(* path and is one fact.                                                   *)
Sound(file) == ValidResult(file) /\ Result(file.items) /\ Typed(file)

LEMMA ImageSize ==
  ASSUME NEW S, IsFiniteSet(S), NEW f, f = [s \in S |-> f[s]], NEW T, T = {f[s] : s \in S},
         \A s, t \in S : f[s] = f[t] => s = t
  PROVE  IsFiniteSet(T) /\ Cardinality(T) = Cardinality(S)
<1>1. f \in Surjection(S, T)
  BY DEF Surjection
<1>2. f \in Injection(S, T)
  BY DEF Injection, IsInjective
<1>3. IsFiniteSet(T)
  BY <1>1, FS_Surjection
<1> QED
  BY <1>1, <1>2, <1>3, FS_Injection

(* The same IDs occur in both.                                             *)
Matching(X, Y) == {x.id : x \in X} = {y.id : y \in Y}

LEMMA SameSize ==
  ASSUME NEW X, NEW Y, IsFiniteSet(X), UniqueIds(X), UniqueIds(Y), Matching(X, Y)
  PROVE  Cardinality(X) = Cardinality(Y)
<1> DEFINE f == [x \in X |-> CHOOSE y \in Y : y.id = x.id]
<1>1. ASSUME NEW x \in X PROVE f[x] \in Y /\ f[x].id = x.id
  <2>1. \E y \in Y : y.id = x.id
    BY DEF Matching
  <2> QED
    BY <2>1
<1>2. \A s, t \in X : f[s] = f[t] => s = t
  BY <1>1 DEF UniqueIds
<1>3. Y = {f[x] : x \in X}
  <2>1. ASSUME NEW y \in Y PROVE \E x \in X : f[x] = y
    <3>1. PICK x \in X : x.id = y.id
      BY DEF Matching
    <3> QED
      BY <1>1, <3>1 DEF UniqueIds
  <2> HIDE DEF f
  <2> QED
    BY <1>1, <2>1
<1>4. f = [x \in X |-> f[x]]
  OBVIOUS
<1> HIDE DEF f
<1> QED
  BY <1>2, <1>3, <1>4, ImageSize

(* The position of an item depends on the IDs alone.                       *)
LEMMA SameRank ==
  ASSUME NEW X, NEW Y, Keyed(X), Keyed(Y), Matching(X, Y),
         NEW x \in X, NEW y \in Y, x.id = y.id
  PROVE  Rank(X, x) = Rank(Y, y)
<1> DEFINE U == {i \in X : i.id <= x.id}
           V == {i \in Y : i.id <= y.id}
<1>1. U \in SUBSET X /\ IsFiniteSet(X)
  BY DEF Keyed
<1>2. IsFiniteSet(U)
  BY <1>1, FS_Subset
<1>3. UniqueIds(U) /\ UniqueIds(V)
  BY DEF Keyed, UniqueIds
<1>4. Matching(U, V)
  <2>1. ASSUME NEW i \in U PROVE \E j \in V : j.id = i.id
    BY DEF Matching
  <2>2. ASSUME NEW j \in V PROVE \E i \in U : j.id = i.id
    BY DEF Matching
  <2> HIDE DEF U, V
  <2> QED
    BY <2>1, <2>2 DEF Matching
<1> HIDE DEF U, V
<1>5. Cardinality(U) = Cardinality(V)
  BY <1>2, <1>3, <1>4, SameSize
<1> QED
  BY <1>5 DEF Rank, U, V

(* Position by position is pair by pair.                                   *)
LEMMA PairedPositions ==
  ASSUME NEW X, NEW Y, Keyed(X), Keyed(Y), Matching(X, Y)
  PROVE  /\ DOMAIN ByID(X) = DOMAIN ByID(Y)
         /\ \A n \in DOMAIN ByID(X) :
              /\ ByID(X)[n] \in X /\ ByID(Y)[n] \in Y
              /\ Rank(X, ByID(X)[n]) = n
              /\ ByID(X)[n].id = ByID(Y)[n].id
         /\ \A x \in X, y \in Y : x.id = y.id =>
              Rank(X, x) \in DOMAIN ByID(X) /\ ByID(X)[Rank(X, x)] = x /\ ByID(Y)[Rank(X, x)] = y
<1>1. DOMAIN ByID(X) = DOMAIN ByID(Y)
  <2>1. Cardinality(X) = Cardinality(Y)
    BY SameSize DEF Keyed
  <2> QED
    BY <2>1, Positions
<1>2. ASSUME NEW x \in X, NEW y \in Y, x.id = y.id
      PROVE  Rank(X, x) \in DOMAIN ByID(X) /\ ByID(X)[Rank(X, x)] = x /\ ByID(Y)[Rank(X, x)] = y
  <2>1. Rank(X, x) = Rank(Y, y)
    BY <1>2, SameRank
  <2> QED
    BY <2>1, Positions
<1>3. ASSUME NEW n \in DOMAIN ByID(X)
      PROVE  /\ ByID(X)[n] \in X /\ ByID(Y)[n] \in Y
             /\ Rank(X, ByID(X)[n]) = n /\ ByID(X)[n].id = ByID(Y)[n].id
  <2>1. ByID(X)[n] \in X /\ Rank(X, ByID(X)[n]) = n
    BY Positions
  <2>2. PICK y \in Y : y.id = ByID(X)[n].id
    BY <2>1 DEF Matching
  <2>3. ByID(Y)[n] = y
    BY <1>2, <2>1, <2>2
  <2> QED
    BY <2>1, <2>2, <2>3
<1> QED
  BY <1>1, <1>2, <1>3

(* Every path of a list is one of a pair, behind its position.             *)
FieldLists(X, Y)   == CompareLists(ByID(X), ByID(Y), CompareObjects)
ElementLists(X, Y) == CompareLists(ByID(X), ByID(Y), CompareElements)

FieldPath(X, Y, p) ==
  \E x \in X, y \in Y : x.id = y.id /\ \E q \in CompareObjects(x, y) : p = <<Rank(X, x)>> \o q
ElementPath(X, Y, p) ==
  \E x \in X, y \in Y : x.id = y.id /\ \E q \in CompareElements(x, y) : p = <<Rank(X, x)>> \o q

LEMMA FieldPaths ==
  ASSUME NEW X, NEW Y, Keyed(X), Keyed(Y), Matching(X, Y), NEW p
  PROVE  p \in FieldLists(X, Y) <=> FieldPath(X, Y, p)
<1> DEFINE xs == ByID(X)
           ys == ByID(Y)
           shared == DOMAIN xs \cap DOMAIN ys
           Apart(n) == {<<n>> \o q : q \in CompareObjects(xs[n], ys[n])}
<1>0. /\ DOMAIN ByID(X) = DOMAIN ByID(Y)
      /\ \A n \in DOMAIN ByID(X) :
           /\ ByID(X)[n] \in X /\ ByID(Y)[n] \in Y
           /\ Rank(X, ByID(X)[n]) = n
           /\ ByID(X)[n].id = ByID(Y)[n].id
      /\ \A x \in X, y \in Y : x.id = y.id =>
           Rank(X, x) \in DOMAIN ByID(X) /\ ByID(X)[Rank(X, x)] = x /\ ByID(Y)[Rank(X, x)] = y
  BY PairedPositions
<1>1. DOMAIN xs = DOMAIN ys
  BY <1>0
<1>2. FieldLists(X, Y) = (UNION {Apart(n) : n \in shared}) \cup {<<n>> : n \in (DOMAIN xs \cup DOMAIN ys) \ shared}
  BY DEF FieldLists, CompareLists
<1>3. (DOMAIN xs \cup DOMAIN ys) \ shared = {} /\ shared = DOMAIN xs
  BY <1>1
<1> HIDE DEF Apart, shared
<1>4. p \in FieldLists(X, Y) <=> \E n \in DOMAIN xs : p \in Apart(n)
  BY <1>2, <1>3
<1>5. ASSUME NEW n \in DOMAIN xs, p \in Apart(n)
      PROVE  \E x \in X, y \in Y : x.id = y.id /\ \E q \in CompareObjects(x, y) : p = <<Rank(X, x)>> \o q
  <2>1. xs[n] \in X /\ ys[n] \in Y /\ Rank(X, xs[n]) = n /\ xs[n].id = ys[n].id
    BY <1>0
  <2> QED
    BY <1>5, <2>1 DEF Apart
<1>6. ASSUME NEW x \in X, NEW y \in Y, x.id = y.id, NEW q \in CompareObjects(x, y), p = <<Rank(X, x)>> \o q
      PROVE  \E n \in DOMAIN xs : p \in Apart(n)
  <2>1. Rank(X, x) \in DOMAIN xs /\ xs[Rank(X, x)] = x /\ ys[Rank(X, x)] = y
    BY <1>0, <1>6
  <2> QED
    BY <1>6, <2>1 DEF Apart
<1> QED
  BY <1>4, <1>5, <1>6 DEF FieldPath

LEMMA ElementPaths ==
  ASSUME NEW X, NEW Y, Keyed(X), Keyed(Y), Matching(X, Y), NEW p
  PROVE  p \in ElementLists(X, Y) <=> ElementPath(X, Y, p)
<1> DEFINE xs == ByID(X)
           ys == ByID(Y)
           shared == DOMAIN xs \cap DOMAIN ys
           Apart(n) == {<<n>> \o q : q \in CompareElements(xs[n], ys[n])}
<1>0. /\ DOMAIN ByID(X) = DOMAIN ByID(Y)
      /\ \A n \in DOMAIN ByID(X) :
           /\ ByID(X)[n] \in X /\ ByID(Y)[n] \in Y
           /\ Rank(X, ByID(X)[n]) = n
           /\ ByID(X)[n].id = ByID(Y)[n].id
      /\ \A x \in X, y \in Y : x.id = y.id =>
           Rank(X, x) \in DOMAIN ByID(X) /\ ByID(X)[Rank(X, x)] = x /\ ByID(Y)[Rank(X, x)] = y
  BY PairedPositions
<1>1. DOMAIN xs = DOMAIN ys
  BY <1>0
<1>2. ElementLists(X, Y) = (UNION {Apart(n) : n \in shared}) \cup {<<n>> : n \in (DOMAIN xs \cup DOMAIN ys) \ shared}
  BY DEF ElementLists, CompareLists
<1>3. (DOMAIN xs \cup DOMAIN ys) \ shared = {} /\ shared = DOMAIN xs
  BY <1>1
<1> HIDE DEF Apart, shared
<1>4. p \in ElementLists(X, Y) <=> \E n \in DOMAIN xs : p \in Apart(n)
  BY <1>2, <1>3
<1>5. ASSUME NEW n \in DOMAIN xs, p \in Apart(n)
      PROVE  \E x \in X, y \in Y : x.id = y.id /\ \E q \in CompareElements(x, y) : p = <<Rank(X, x)>> \o q
  <2>1. xs[n] \in X /\ ys[n] \in Y /\ Rank(X, xs[n]) = n /\ xs[n].id = ys[n].id
    BY <1>0
  <2> QED
    BY <1>5, <2>1 DEF Apart
<1>6. ASSUME NEW x \in X, NEW y \in Y, x.id = y.id, NEW q \in CompareElements(x, y), p = <<Rank(X, x)>> \o q
      PROVE  \E n \in DOMAIN xs : p \in Apart(n)
  <2>1. Rank(X, x) \in DOMAIN xs /\ xs[Rank(X, x)] = x /\ ys[Rank(X, x)] = y
    BY <1>0, <1>6
  <2> QED
    BY <1>6, <2>1 DEF Apart
<1> QED
  BY <1>4, <1>5, <1>6 DEF ElementPath

(* The paths within a pair: the keys of the two objects that differ.       *)
LEMMA ObjectPaths ==
  ASSUME NEW x, NEW y, DOMAIN x = DOMAIN y, NEW p
  PROVE  p \in CompareObjects(x, y) <=> \E k \in (DOMAIN x) \ {"fields"} : x[k] # y[k] /\ p = <<k>>
BY DEF CompareObjects

LEMMA Join1 ==
  ASSUME NEW a, NEW b
  PROVE  <<a>> \o <<b>> = <<a, b>>
<1> DEFINE V == {a, b}
           s == <<a>>
           t == <<b>>
           u == <<a, b>>
<1>1. /\ s \in Seq(V) /\ Len(s) = 1 /\ s[1] = a
      /\ t \in Seq(V) /\ Len(t) = 1 /\ t[1] = b
      /\ u \in Seq(V) /\ Len(u) = 2 /\ u[1] = a /\ u[2] = b
  OBVIOUS
<1> HIDE DEF V, s, t, u
<1>2. /\ s \o t \in Seq(V) /\ Len(s \o t) = Len(s) + Len(t)
      /\ \A i \in 1..(Len(s) + Len(t)) : (s \o t)[i] = IF i <= Len(s) THEN s[i] ELSE t[i - Len(s)]
  BY <1>1, ConcatProperties
<1>3. \A i \in 1..2 : (s \o t)[i] = u[i]
  BY <1>1, <1>2
<1>4. Len(s \o t) = 2
  BY <1>1, <1>2
<1>5. s \o t = u
  BY <1>1, <1>2, <1>3, <1>4, SeqEqual
<1> QED
  BY <1>5 DEF s, t, u

LEMMA Join2 ==
  ASSUME NEW a, NEW b, NEW c
  PROVE  <<a>> \o <<b, c>> = <<a, b, c>>
<1> DEFINE V == {a, b, c}
           s == <<a>>
           t == <<b, c>>
           u == <<a, b, c>>
<1>1. /\ s \in Seq(V) /\ Len(s) = 1 /\ s[1] = a
      /\ t \in Seq(V) /\ Len(t) = 2 /\ t[1] = b /\ t[2] = c
      /\ u \in Seq(V) /\ Len(u) = 3 /\ u[1] = a /\ u[2] = b /\ u[3] = c
  OBVIOUS
<1> HIDE DEF V, s, t, u
<1>2. /\ s \o t \in Seq(V) /\ Len(s \o t) = Len(s) + Len(t)
      /\ \A i \in 1..(Len(s) + Len(t)) : (s \o t)[i] = IF i <= Len(s) THEN s[i] ELSE t[i - Len(s)]
  BY <1>1, ConcatProperties
<1>3. \A i \in 1..3 : (s \o t)[i] = u[i]
  BY <1>1, <1>2
<1>4. Len(s \o t) = 3
  BY <1>1, <1>2
<1>5. s \o t = u
  BY <1>1, <1>2, <1>3, <1>4, SeqEqual
<1> QED
  BY <1>5 DEF s, t, u

LEMMA Join3 ==
  ASSUME NEW a, NEW b, NEW c, NEW d
  PROVE  <<a>> \o <<b, c, d>> = <<a, b, c, d>>
<1> DEFINE V == {a, b, c, d}
           s == <<a>>
           t == <<b, c, d>>
           u == <<a, b, c, d>>
<1>1. /\ s \in Seq(V) /\ Len(s) = 1 /\ s[1] = a
      /\ t \in Seq(V) /\ Len(t) = 3 /\ t[1] = b /\ t[2] = c /\ t[3] = d
      /\ u \in Seq(V) /\ Len(u) = 4 /\ u[1] = a /\ u[2] = b /\ u[3] = c /\ u[4] = d
  OBVIOUS
<1> HIDE DEF V, s, t, u
<1>2. /\ s \o t \in Seq(V) /\ Len(s \o t) = Len(s) + Len(t)
      /\ \A i \in 1..(Len(s) + Len(t)) : (s \o t)[i] = IF i <= Len(s) THEN s[i] ELSE t[i - Len(s)]
  BY <1>1, ConcatProperties
<1>3. \A i \in 1..4 : (s \o t)[i] = u[i]
  BY <1>1, <1>2
<1>4. Len(s \o t) = 4
  BY <1>1, <1>2
<1>5. s \o t = u
  BY <1>1, <1>2, <1>3, <1>4, SeqEqual
<1> QED
  BY <1>5 DEF s, t, u

LEMMA Join4 ==
  ASSUME NEW a, NEW b, NEW c, NEW d, NEW e
  PROVE  <<a>> \o <<b, c, d, e>> = <<a, b, c, d, e>>
<1> DEFINE V == {a, b, c, d, e}
           s == <<a>>
           t == <<b, c, d, e>>
           u == <<a, b, c, d, e>>
<1>1. /\ s \in Seq(V) /\ Len(s) = 1 /\ s[1] = a
      /\ t \in Seq(V) /\ Len(t) = 4 /\ t[1] = b /\ t[2] = c /\ t[3] = d /\ t[4] = e
      /\ u \in Seq(V) /\ Len(u) = 5 /\ u[1] = a /\ u[2] = b /\ u[3] = c /\ u[4] = d /\ u[5] = e
  OBVIOUS
<1> HIDE DEF V, s, t, u
<1>2. /\ s \o t \in Seq(V) /\ Len(s \o t) = Len(s) + Len(t)
      /\ \A i \in 1..(Len(s) + Len(t)) : (s \o t)[i] = IF i <= Len(s) THEN s[i] ELSE t[i - Len(s)]
  BY <1>1, ConcatProperties
<1>3. \A i \in 1..5 : (s \o t)[i] = u[i]
  BY <1>1, <1>2
<1>4. Len(s \o t) = 5
  BY <1>1, <1>2
<1>5. s \o t = u
  BY <1>1, <1>2, <1>3, <1>4, SeqEqual
<1> QED
  BY <1>5 DEF s, t, u

Members == {"name", "offset"}

(* The fields of x and y that differ, by key.                              *)
FieldDiffers(x, y, f, g, k) ==
  f \in x.fields /\ g \in y.fields /\ f.id = g.id /\ k \in Members /\ f[k] # g[k]

LEMMA RecordPaths ==
  ASSUME NEW x, NEW y, Keyed(x.fields), Keyed(y.fields), Matching(x.fields, y.fields),
         \A f \in x.fields \cup y.fields : DOMAIN f = {"id", "name", "offset"}, NEW p
  PROVE  p \in FieldLists(x.fields, y.fields) <=>
           \E f, g, k : FieldDiffers(x, y, f, g, k) /\ p = <<Rank(x.fields, f), k>>
<1> DEFINE X == x.fields
           Y == y.fields
<1>1. p \in FieldLists(X, Y) <=> FieldPath(X, Y, p)
  <2>1. Keyed(X) /\ Keyed(Y) /\ Matching(X, Y)
    OBVIOUS
  <2> HIDE DEF X, Y
  <2> QED
    BY <2>1, FieldPaths
<1>2. ASSUME NEW f \in X, NEW g \in Y, f.id = g.id, NEW q
      PROVE  q \in CompareObjects(f, g) <=> \E k \in Members : f[k] # g[k] /\ q = <<k>>
  <2>1. DOMAIN f = {"id", "name", "offset"} /\ DOMAIN g = DOMAIN f
    OBVIOUS
  <2> QED
    BY <1>2, <2>1, ObjectPaths DEF Members
<1>3. \A n, k : <<n>> \o <<k>> = <<n, k>>
  BY Join1
<1> HIDE DEF X, Y
<1>4. ASSUME NEW f \in X, NEW g \in Y, f.id = g.id
      PROVE  (\E q \in CompareObjects(f, g) : p = <<Rank(X, f)>> \o q) <=>
               \E k \in Members : f[k] # g[k] /\ p = <<Rank(X, f), k>>
  <2>1. ASSUME NEW q \in CompareObjects(f, g), p = <<Rank(X, f)>> \o q
        PROVE  \E k \in Members : f[k] # g[k] /\ p = <<Rank(X, f), k>>
    <3>1. PICK k \in Members : f[k] # g[k] /\ q = <<k>>
      BY <1>2, <1>4, <2>1
    <3> QED
      BY <1>3, <2>1, <3>1
  <2>2. ASSUME NEW k \in Members, f[k] # g[k], p = <<Rank(X, f), k>>
        PROVE  \E q \in CompareObjects(f, g) : p = <<Rank(X, f)>> \o q
    <3>1. <<k>> \in CompareObjects(f, g)
      BY <1>2, <1>4, <2>2
    <3> QED
      BY <1>3, <2>2, <3>1
  <2> QED
    BY <2>1, <2>2
<1>5. p \in FieldLists(X, Y) <=>
        \E f \in X, g \in Y : f.id = g.id /\ \E k \in Members : f[k] # g[k] /\ p = <<Rank(X, f), k>>
  BY <1>1, <1>4 DEF FieldPath
<1> QED
  BY <1>5 DEF FieldDiffers, X, Y
-----------------------------------------------------------------------------
List(S, list) == {i \in S : i.kind = list}

Items(S) ==
  /\ IsFiniteSet(S) /\ UniqueIds(S)
  /\ \A i \in S :
       /\ Object(i) /\ i.kind \in ListNames /\ DOMAIN i = ItemKeys(i.kind)
       /\ i.kind = "record" => Keyed(i.fields) /\ \A f \in i.fields : DOMAIN f = {"id", "name", "offset"}

LEMMA SoundItems == ASSUME NEW file, Sound(file) PROVE Items(file.items)
<1>1. IsFiniteSet(file.items) /\ UniqueIds(file.items)
  BY DEF Sound, Result, ValidResult, LoadedOracle
<1>2. ASSUME NEW i \in file.items
      PROVE  /\ Object(i) /\ i.kind \in ListNames /\ DOMAIN i = ItemKeys(i.kind)
             /\ i.kind = "record" => Keyed(i.fields) /\ \A f \in i.fields : DOMAIN f = {"id", "name", "offset"}
  <2>1. Decoded(i) /\ DOMAIN i = ItemKeys(i.kind) /\ (i.kind = "record" => UniqueIds(i.fields))
    BY DEF Sound, Result, ValidResult, LoadedOracle, Typed
  <2>2. i.kind = "record" => \A f \in i.fields : DOMAIN f = {"id", "name", "offset"}
    BY DEF Sound, Typed
  <2> QED
    BY <2>1, <2>2 DEF Decoded, Keyed
<1> QED
  BY <1>1, <1>2 DEF Items

(* The two files hold the same items, measured differently.                *)
Paired(E, A) ==
  /\ Matching(E, A)
  /\ \A x \in E, y \in A : x.id = y.id =>
       x.kind = y.kind /\ (x.kind = "record" => Matching(x.fields, y.fields))

LEMMA ListsPair ==
  ASSUME NEW E, NEW A, Items(E), Items(A), Paired(E, A), NEW list
  PROVE  Keyed(List(E, list)) /\ Keyed(List(A, list)) /\ Matching(List(E, list), List(A, list))
<1>1. ASSUME NEW S, Items(S) PROVE Keyed(List(S, list))
  <2>1. List(S, list) \in SUBSET S /\ IsFiniteSet(S)
    BY <1>1 DEF List, Items
  <2>2. IsFiniteSet(List(S, list))
    BY <2>1, FS_Subset
  <2> QED
    BY <1>1, <2>1, <2>2 DEF Items, Keyed, UniqueIds
<1>2. ASSUME NEW x \in List(E, list) PROVE \E y \in List(A, list) : y.id = x.id
  <2>1. PICK y \in A : y.id = x.id
    BY DEF Paired, Matching, List
  <2> QED
    BY <2>1 DEF Paired, List
<1>3. ASSUME NEW y \in List(A, list) PROVE \E x \in List(E, list) : x.id = y.id
  <2>1. PICK x \in E : x.id = y.id
    BY DEF Paired, Matching, List
  <2> QED
    BY <2>1 DEF Paired, List
<1> QED
  BY <1>1, <1>2, <1>3 DEF Matching

(* The values that differ: of an item, and of a field of a record.         *)
ItemDiffers(E, A, x, y, k) ==
  x \in E /\ y \in A /\ x.id = y.id /\ k \in (DOMAIN x) \ {"fields"} /\ x[k] # y[k]
MemberDiffers(E, A, x, y, f, g, k) ==
  x \in E /\ y \in A /\ x.id = y.id /\ x.kind = "record" /\ FieldDiffers(x, y, f, g, k)

Place(E, x) == Rank(List(E, x.kind), x)

LEMMA PairPaths ==
  ASSUME NEW E, NEW A, Items(E), Items(A), Paired(E, A),
         NEW x \in E, NEW y \in A, x.id = y.id, NEW q
  PROVE  q \in CompareElements(x, y) <=>
           \/ \E k : ItemDiffers(E, A, x, y, k) /\ q = <<k>>
           \/ \E f, g, k : MemberDiffers(E, A, x, y, f, g, k) /\ q = <<"fields", Rank(x.fields, f), k>>
<1>1. x.kind = y.kind /\ DOMAIN x = ItemKeys(x.kind) /\ DOMAIN y = ItemKeys(y.kind)
  BY DEF Paired, Items
<1>2. q \in CompareObjects(x, y) <=> \E k : ItemDiffers(E, A, x, y, k) /\ q = <<k>>
  BY <1>1, ObjectPaths DEF ItemDiffers
<1>3. CASE x.kind # "record"
  <2>1. CompareElements(x, y) = CompareObjects(x, y)
    BY <1>3 DEF CompareElements
  <2> QED
    BY <1>2, <1>3, <2>1 DEF MemberDiffers
<1>4. CASE x.kind = "record"
  <2> DEFINE Prefixed == {<<"fields">> \o p : p \in FieldLists(x.fields, y.fields)}
  <2>1. CompareElements(x, y) = CompareObjects(x, y) \cup Prefixed
    BY <1>4 DEF CompareElements, FieldLists
  <2>2. /\ Keyed(x.fields) /\ Keyed(y.fields) /\ Matching(x.fields, y.fields)
        /\ \A f \in x.fields \cup y.fields : DOMAIN f = {"id", "name", "offset"}
    BY <1>1, <1>4 DEF Items, Paired
  <2>3. ASSUME NEW p
        PROVE  p \in FieldLists(x.fields, y.fields) <=>
                 \E f, g, k : FieldDiffers(x, y, f, g, k) /\ p = <<Rank(x.fields, f), k>>
    BY <2>2, RecordPaths
  <2>4. q \in Prefixed <=> \E f, g, k : FieldDiffers(x, y, f, g, k) /\ q = <<"fields", Rank(x.fields, f), k>>
    <3>1. ASSUME q \in Prefixed
          PROVE  \E f, g, k : FieldDiffers(x, y, f, g, k) /\ q = <<"fields", Rank(x.fields, f), k>>
      <4>1. PICK p \in FieldLists(x.fields, y.fields) : q = <<"fields">> \o p
        BY <3>1
      <4>2. PICK f, g, k : FieldDiffers(x, y, f, g, k) /\ p = <<Rank(x.fields, f), k>>
        BY <2>3, <4>1
      <4>3. q = <<"fields", Rank(x.fields, f), k>>
        BY <4>1, <4>2, Join2
      <4> QED
        BY <4>2, <4>3
    <3>2. ASSUME NEW f, NEW g, NEW k, FieldDiffers(x, y, f, g, k), q = <<"fields", Rank(x.fields, f), k>>
          PROVE  q \in Prefixed
      <4>1. <<Rank(x.fields, f), k>> \in FieldLists(x.fields, y.fields)
        BY <2>3, <3>2
      <4>2. q = <<"fields">> \o <<Rank(x.fields, f), k>>
        BY <3>2, Join2
      <4> QED
        BY <4>1, <4>2
    <3> HIDE DEF Prefixed
    <3> QED
      BY <3>1, <3>2
  <2> HIDE DEF Prefixed
  <2>5. ASSUME NEW f, NEW g, NEW k
        PROVE  MemberDiffers(E, A, x, y, f, g, k) <=> FieldDiffers(x, y, f, g, k)
    BY <1>4 DEF MemberDiffers
  <2> QED
    BY <1>2, <2>1, <2>4, <2>5
<1> QED
  BY <1>3, <1>4

(* All paths of the lists of two results.                                  *)
ListPaths(E, A, list) == {<<list>> \o q : q \in ElementLists(List(E, list), List(A, list))}

AtItem(E, A, p)   == \E x, y, k : ItemDiffers(E, A, x, y, k) /\ p = <<x.kind, Place(E, x), k>>
AtMember(E, A, p) ==
  \E x, y, f, g, k : MemberDiffers(E, A, x, y, f, g, k)
                     /\ p = <<x.kind, Place(E, x), "fields", Rank(x.fields, f), k>>

LEMMA PathsAre ==
  ASSUME NEW E, NEW A, Items(E), Items(A), Paired(E, A), NEW p
  PROVE  p \in UNION {ListPaths(E, A, list) : list \in ListNames} <=> AtItem(E, A, p) \/ AtMember(E, A, p)
<1>1. ASSUME NEW list \in ListNames, p \in ListPaths(E, A, list) PROVE AtItem(E, A, p) \/ AtMember(E, A, p)
  <2> DEFINE X == List(E, list)
             Y == List(A, list)
  <2>1. Keyed(X) /\ Keyed(Y) /\ Matching(X, Y)
    BY ListsPair
  <2>2. PICK r \in ElementLists(X, Y) : p = <<list>> \o r
    BY <1>1 DEF ListPaths
  <2>3. ElementPath(X, Y, r)
    <3> HIDE DEF X, Y
    <3> QED
      BY <2>1, <2>2, ElementPaths
  <2>4. PICK x \in X, y \in Y : x.id = y.id /\ \E q \in CompareElements(x, y) : r = <<Rank(X, x)>> \o q
    BY <2>3 DEF ElementPath
  <2>5. PICK q \in CompareElements(x, y) : r = <<Rank(X, x)>> \o q
    BY <2>4
  <2>6. x \in E /\ y \in A /\ x.kind = list /\ Place(E, x) = Rank(X, x)
    BY DEF List, Place
  <2>7. \/ \E k : ItemDiffers(E, A, x, y, k) /\ q = <<k>>
        \/ \E f, g, k : MemberDiffers(E, A, x, y, f, g, k) /\ q = <<"fields", Rank(x.fields, f), k>>
    BY <2>4, <2>6, PairPaths
  <2> HIDE DEF X, Y
  <2>8. CASE \E k : ItemDiffers(E, A, x, y, k) /\ q = <<k>>
    <3>1. PICK k : ItemDiffers(E, A, x, y, k) /\ q = <<k>>
      BY <2>8
    <3>2. r = <<Place(E, x), k>>
      BY <2>5, <2>6, <3>1, Join1
    <3>3. p = <<x.kind, Place(E, x), k>>
      BY <2>2, <2>6, <3>2, Join2
    <3> QED
      BY <3>1, <3>3 DEF AtItem
  <2>9. CASE \E f, g, k : MemberDiffers(E, A, x, y, f, g, k) /\ q = <<"fields", Rank(x.fields, f), k>>
    <3>1. PICK f, g, k : MemberDiffers(E, A, x, y, f, g, k) /\ q = <<"fields", Rank(x.fields, f), k>>
      BY <2>9
    <3>2. r = <<Place(E, x), "fields", Rank(x.fields, f), k>>
      BY <2>5, <2>6, <3>1, Join3
    <3>3. p = <<x.kind, Place(E, x), "fields", Rank(x.fields, f), k>>
      BY <2>2, <2>6, <3>2, Join4
    <3> QED
      BY <3>1, <3>3 DEF AtMember
  <2> QED
    BY <2>7, <2>8, <2>9
<1>2. ASSUME NEW x \in E, NEW y \in A, x.id = y.id, NEW q \in CompareElements(x, y),
             p = <<x.kind>> \o (<<Place(E, x)>> \o q)
      PROVE  \E list \in ListNames : p \in ListPaths(E, A, list)
  <2> DEFINE X == List(E, x.kind)
             Y == List(A, x.kind)
             r == <<Place(E, x)>> \o q
  <2>1. Keyed(X) /\ Keyed(Y) /\ Matching(X, Y)
    BY ListsPair
  <2>2. x.kind \in ListNames /\ x \in X /\ y \in Y /\ Place(E, x) = Rank(X, x)
    BY <1>2 DEF Items, Paired, List, Place
  <2>3. ElementPath(X, Y, r)
    BY <1>2, <2>2 DEF ElementPath
  <2>4. r \in ElementLists(X, Y)
    <3> HIDE DEF X, Y, r
    <3> QED
      BY <2>1, <2>3, ElementPaths
  <2>5. p \in ListPaths(E, A, x.kind)
    BY <1>2, <2>4 DEF ListPaths
  <2> QED
    BY <2>2, <2>5
<1>3. ASSUME AtItem(E, A, p) PROVE \E list \in ListNames : p \in ListPaths(E, A, list)
  <2>1. PICK x, y, k : ItemDiffers(E, A, x, y, k) /\ p = <<x.kind, Place(E, x), k>>
    BY <1>3 DEF AtItem
  <2>2. x \in E /\ y \in A /\ x.id = y.id
    BY <2>1 DEF ItemDiffers
  <2>3. <<k>> \in CompareElements(x, y)
    BY <2>1, <2>2, PairPaths
  <2>4. p = <<x.kind>> \o (<<Place(E, x)>> \o <<k>>)
    BY <2>1, Join1, Join2
  <2> QED
    BY <1>2, <2>2, <2>3, <2>4
<1>4. ASSUME AtMember(E, A, p) PROVE \E list \in ListNames : p \in ListPaths(E, A, list)
  <2>1. PICK x, y, f, g, k : MemberDiffers(E, A, x, y, f, g, k)
                             /\ p = <<x.kind, Place(E, x), "fields", Rank(x.fields, f), k>>
    BY <1>4 DEF AtMember
  <2>2. x \in E /\ y \in A /\ x.id = y.id
    BY <2>1 DEF MemberDiffers
  <2>3. <<"fields", Rank(x.fields, f), k>> \in CompareElements(x, y)
    BY <2>1, <2>2, PairPaths
  <2>4. p = <<x.kind>> \o (<<Place(E, x)>> \o <<"fields", Rank(x.fields, f), k>>)
    BY <2>1, Join3, Join4
  <2> QED
    BY <1>2, <2>2, <2>3, <2>4
<1>5. p \in UNION {ListPaths(E, A, list) : list \in ListNames} <=> \E list \in ListNames : p \in ListPaths(E, A, list)
  OBVIOUS
<1> QED
  BY <1>1, <1>3, <1>4, <1>5
-----------------------------------------------------------------------------
(* The facts of a result, one by one.                                      *)
ItemFact(S, d) == \E i \in S : \E k \in (DOMAIN i) \ {"fields"} : d = <<i.id, k, i[k]>>
MemberFact(S, d) ==
  \E i \in S : i.kind = "record" /\ \E f \in i.fields, k \in Members : d = <<i.id, f.id, k, f[k]>>

Fact(S, d) == ItemFact(S, d) \/ MemberFact(S, d)

LEMMA FactsAre ==
  ASSUME NEW file, NEW d
  PROVE  d \in FactsOf(file) <=> Fact(file.items, d)
<1> DEFINE Shallow(i) == {<<i.id, k, i[k]>> : k \in DOMAIN i \ {"fields"}}
           Deep(i) == IF i.kind = "record" THEN {<<i.id, f.id, k, f[k]>> : f \in i.fields, k \in {"name", "offset"}} ELSE {}
<1>1. FactsOf(file) = UNION {Shallow(i) \cup Deep(i) : i \in file.items}
  BY DEF FactsOf
<1>2. ASSUME NEW i \in file.items
      PROVE  d \in Shallow(i) <=> \E k \in (DOMAIN i) \ {"fields"} : d = <<i.id, k, i[k]>>
  OBVIOUS
<1>3. ASSUME NEW i \in file.items
      PROVE  d \in Deep(i) <=> (i.kind = "record" /\ \E f \in i.fields, k \in Members : d = <<i.id, f.id, k, f[k]>>)
  BY DEF Members
<1> HIDE DEF Shallow, Deep
<1>4. d \in FactsOf(file) <=> \E i \in file.items : d \in Shallow(i) \/ d \in Deep(i)
  BY <1>1
<1>5. (\E i \in file.items : d \in Shallow(i)) <=> ItemFact(file.items, d)
  BY <1>2 DEF ItemFact
<1>6. (\E i \in file.items : d \in Deep(i)) <=> MemberFact(file.items, d)
  BY <1>3 DEF MemberFact
<1> QED
  BY <1>4, <1>5, <1>6 DEF Fact

LEMMA ShortAndLong ==
  ASSUME NEW a, NEW b, NEW c, NEW d, NEW e, NEW f, NEW g
  PROVE  <<a, b, c>> # <<d, e, f, g>>
<1>1. Len(<<a, b, c>>) = 3 /\ Len(<<d, e, f, g>>) = 4
  OBVIOUS
<1> QED
  BY <1>1

(* The facts of an item, and of the members of a record, say what it is.   *)
LEMMA ItemFactsTell ==
  ASSUME NEW S, Items(S), NEW x \in S, NEW k, NEW v
  PROVE  Fact(S, <<x.id, k, v>>) <=> k \in (DOMAIN x) \ {"fields"} /\ v = x[k]
<1> DEFINE d == <<x.id, k, v>>
<1>1. ~MemberFact(S, d)
  BY ShortAndLong DEF MemberFact
<1>2. ASSUME NEW i \in S, NEW l, d = <<i.id, l, i[l]>> PROVE i = x /\ l = k /\ v = i[l]
  <2>1. x.id = i.id /\ k = l /\ v = i[l]
    BY <1>2
  <2> QED
    BY <2>1 DEF Items, UniqueIds
<1>3. ItemFact(S, d) <=> k \in (DOMAIN x) \ {"fields"} /\ v = x[k]
  BY <1>2 DEF ItemFact
<1> QED
  BY <1>1, <1>3 DEF Fact

LEMMA MemberFactsTell ==
  ASSUME NEW S, Items(S), NEW x \in S, NEW n, NEW k, NEW v
  PROVE  Fact(S, <<x.id, n, k, v>>) <=> x.kind = "record" /\ k \in Members /\ \E f \in x.fields : f.id = n /\ v = f[k]
<1> DEFINE d == <<x.id, n, k, v>>
<1>1. ~ItemFact(S, d)
  BY ShortAndLong DEF ItemFact
<1>2. ASSUME NEW i \in S, NEW f, NEW l, d = <<i.id, f.id, l, f[l]>>
      PROVE  i = x /\ n = f.id /\ l = k /\ v = f[l]
  <2>1. x.id = i.id /\ n = f.id /\ k = l /\ v = f[l]
    BY <1>2
  <2> QED
    BY <2>1 DEF Items, UniqueIds
<1>3. MemberFact(S, d) <=> x.kind = "record" /\ k \in Members /\ \E f \in x.fields : f.id = n /\ v = f[k]
  <2>1. ASSUME MemberFact(S, d) PROVE x.kind = "record" /\ k \in Members /\ \E f \in x.fields : f.id = n /\ v = f[k]
    <3>1. PICK i \in S : i.kind = "record" /\ \E f \in i.fields, l \in Members : d = <<i.id, f.id, l, f[l]>>
      BY <2>1 DEF MemberFact
    <3>2. PICK f \in i.fields, l \in Members : d = <<i.id, f.id, l, f[l]>>
      BY <3>1
    <3>3. i = x /\ n = f.id /\ l = k /\ v = f[l]
      BY <1>2, <3>2
    <3> QED
      BY <3>1, <3>2, <3>3
  <2>2. ASSUME x.kind = "record", k \in Members, NEW f \in x.fields, f.id = n, v = f[k] PROVE MemberFact(S, d)
    BY <2>2 DEF MemberFact
  <2> QED
    BY <2>1, <2>2
<1> QED
  BY <1>1, <1>3 DEF Fact

(* Results with the same facts hold the same items.                        *)
Covers(Y, X) == \A d : Fact(X, d) => Fact(Y, d)

SameAs(x, y) ==
  /\ y.id = x.id /\ y.kind = x.kind
  /\ \A k \in (DOMAIN x) \ {"fields"} : k \in DOMAIN y /\ y[k] = x[k]
  /\ x.kind = "record" => \A f \in x.fields : f \in y.fields

LEMMA FactsTell ==
  ASSUME NEW X, NEW Y, Items(X), Items(Y),
         Covers(Y, X), NEW x \in X
  PROVE  \E y \in Y : SameAs(x, y)
<1>1. DOMAIN x = ItemKeys(x.kind) /\ "id" \in DOMAIN x /\ "kind" \in DOMAIN x
  BY DEF Items, ItemKeys
<1>2. ItemFact(X, <<x.id, "id", x.id>>)
  BY <1>1 DEF ItemFact
<1>3. ItemFact(Y, <<x.id, "id", x.id>>)
  <2>1. ~MemberFact(Y, <<x.id, "id", x.id>>)
    BY ShortAndLong DEF MemberFact
  <2> QED
    BY <1>2, <2>1 DEF Fact, Covers
<1>4. PICK y \in Y : y.id = x.id
  BY <1>3 DEF ItemFact
<1>5. ASSUME NEW k \in (DOMAIN x) \ {"fields"} PROVE k \in DOMAIN y /\ y[k] = x[k]
  <2>1. ItemFact(X, <<x.id, k, x[k]>>)
    BY DEF ItemFact
  <2>2. Fact(Y, <<y.id, k, x[k]>>)
    BY <1>4, <2>1 DEF Fact, Covers
  <2> QED
    BY <1>4, <2>2, ItemFactsTell
<1>6. y.kind = x.kind
  BY <1>1, <1>5
<1>7. ASSUME x.kind = "record", NEW f \in x.fields PROVE f \in y.fields
  <2>1. ASSUME NEW k \in Members PROVE \E g \in y.fields : g.id = f.id /\ g[k] = f[k]
    <3>1. MemberFact(X, <<x.id, f.id, k, f[k]>>)
      BY <1>7 DEF MemberFact
    <3>2. Fact(Y, <<y.id, f.id, k, f[k]>>)
      BY <1>4, <3>1 DEF Fact, Covers
    <3>3. \E g \in y.fields : g.id = f.id /\ f[k] = g[k]
      BY <1>4, <3>2, MemberFactsTell
    <3> QED
      BY <3>3
  <2>2. PICK g \in y.fields : g.id = f.id /\ g["name"] = f["name"]
    BY <2>1 DEF Members
  <2>3. PICK h \in y.fields : h.id = f.id /\ h["offset"] = f["offset"]
    BY <2>1 DEF Members
  <2>4. h = g
    <3>1. UniqueIds(y.fields)
      BY <1>6, <1>7 DEF Items, Keyed
    <3> QED
      BY <2>2, <2>3, <3>1 DEF UniqueIds
  <2>5. DOMAIN f = {"id", "name", "offset"} /\ DOMAIN g = {"id", "name", "offset"} /\ Object(f) /\ Object(g)
    BY <1>6, <1>7 DEF Items, Keyed
  <2>6. f = g
    BY <2>2, <2>3, <2>4, <2>5, SameObject
  <2> QED
    BY <2>6
<1> QED
  BY <1>4, <1>5, <1>6, <1>7 DEF SameAs

LEMMA FactsDetermine ==
  ASSUME NEW X, NEW Y, Items(X), Items(Y),
         Covers(X, Y), Covers(Y, X)
  PROVE  X = Y
<1>1. ASSUME NEW S, NEW T, Items(S), Items(T),
             Covers(S, T), Covers(T, S), NEW x \in S
      PROVE  x \in T
  <2>1. PICK y \in T : SameAs(x, y)
    BY <1>1, FactsTell
  <2>2. PICK z \in S : SameAs(y, z)
    BY <1>1, FactsTell
  <2>3. z = x
    BY <1>1, <2>1, <2>2 DEF Items, UniqueIds, SameAs
  <2>4. DOMAIN x = DOMAIN y /\ Object(x) /\ Object(y)
    BY <1>1, <2>1 DEF Items, SameAs
  <2>5. x.kind = "record" => x.fields = y.fields
    BY <2>1, <2>2, <2>3 DEF SameAs
  <2>6. "fields" \in DOMAIN x => x.kind = "record"
    <3>1. DOMAIN x = ItemKeys(x.kind)
      BY <1>1 DEF Items
    <3> QED
      BY <3>1 DEF ItemKeys
  <2>7. \A k \in DOMAIN x : x[k] = y[k]
    BY <2>1, <2>5, <2>6 DEF SameAs
  <2>8. x = y
    BY <2>4, <2>7, SameObject
  <2> QED
    BY <2>8
<1>2. \A x \in X : x \in Y
  BY <1>1
<1>3. \A x \in Y : x \in X
  BY <1>1
<1> QED
  BY <1>2, <1>3
-----------------------------------------------------------------------------
(* Each value that differs is one fact and has one path.                   *)
ItemSlots(E, A) ==
  {s \in E \X UNION {DOMAIN x : x \in E} : \E y : ItemDiffers(E, A, s[1], y, s[2])}
MemberSlots(E, A) ==
  {s \in (E \X UNION {x.fields : x \in List(E, "record")}) \X Members :
     \E y, g : MemberDiffers(E, A, s[1][1], y, s[1][2], g, s[2])}

ItemFacts(E, A)   == {<<s[1].id, s[2], s[1][s[2]]>> : s \in ItemSlots(E, A)}
ItemPaths(E, A)   == {<<s[1].kind, Place(E, s[1]), s[2]>> : s \in ItemSlots(E, A)}
MemberFacts(E, A) == {<<s[1][1].id, s[1][2].id, s[2], s[1][2][s[2]]>> : s \in MemberSlots(E, A)}
MemberPaths(E, A) ==
  {<<s[1][1].kind, Place(E, s[1][1]), "fields", Rank(s[1][1].fields, s[1][2]), s[2]>> : s \in MemberSlots(E, A)}

LEMMA FourFinite == ASSUME NEW a, NEW b, NEW c, NEW d PROVE IsFiniteSet({a, b, c, d})
<1>1. IsFiniteSet({a}) /\ IsFiniteSet({b}) /\ IsFiniteSet({c}) /\ IsFiniteSet({d})
  BY FS_Singleton
<1>2. IsFiniteSet({a} \cup {b}) /\ IsFiniteSet({c} \cup {d})
  BY <1>1, FS_Union
<1>3. IsFiniteSet(({a} \cup {b}) \cup ({c} \cup {d}))
  BY <1>2, FS_Union
<1>4. ({a} \cup {b}) \cup ({c} \cup {d}) = {a, b, c, d}
  OBVIOUS
<1> QED
  BY <1>3, <1>4

LEMMA KeysFinite == ASSUME NEW kind PROVE IsFiniteSet(ItemKeys(kind))
<1>1. \E a, b, c, d : ItemKeys(kind) = {"kind", "kind", "id", "name"} \cup {a, b, c, d}
  <2>1. CASE kind = "record"
    <3>1. ItemKeys(kind) = {"kind", "kind", "id", "name"} \cup {"shape", "size", "alignment", "fields"}
      BY <2>1 DEF ItemKeys
    <3> QED
      BY <3>1
  <2>2. CASE kind = "bitfield"
    <3>1. ItemKeys(kind) = {"kind", "kind", "id", "name"} \cup {"bytes", "mask", "offset", "width"}
      BY <2>2 DEF ItemKeys
    <3> QED
      BY <3>1
  <2>3. CASE kind = "function"
    <3>1. ItemKeys(kind) = {"kind", "kind", "id", "name"} \cup {"typeCompatible", "convention", "typeCompatible", "convention"}
      BY <2>3 DEF ItemKeys
    <3> QED
      BY <3>1
  <2>4. CASE kind = "vtable"
    <3>1. ItemKeys(kind) = {"kind", "kind", "id", "name"} \cup {"method", "index", "method", "index"}
      BY <2>4 DEF ItemKeys
    <3> QED
      BY <3>1
  <2>5. CASE kind \notin {"record", "bitfield", "function", "vtable"}
    <3>1. ItemKeys(kind) = {"kind", "kind", "id", "name"} \cup {"value", "value", "value", "value"}
      BY <2>5 DEF ItemKeys
    <3> QED
      BY <3>1
  <2> QED
    BY <2>1, <2>2, <2>3, <2>4, <2>5
<1>2. PICK a, b, c, d : ItemKeys(kind) = {"kind", "kind", "id", "name"} \cup {a, b, c, d}
  BY <1>1
<1>3. IsFiniteSet({"kind", "kind", "id", "name"}) /\ IsFiniteSet({a, b, c, d})
  BY FourFinite
<1> QED
  BY <1>2, <1>3, FS_Union

(* The union of finitely many finite sets.                                 *)
LEMMA FamilyFinite ==
  ASSUME NEW S, IsFiniteSet(S), NEW f, f = [s \in S |-> f[s]], \A s \in S : IsFiniteSet(f[s])
  PROVE  IsFiniteSet(UNION {f[s] : s \in S})
<1> DEFINE T == {f[s] : s \in S}
<1>1. f \in Surjection(S, T)
  BY DEF Surjection
<1>2. \A t \in T : IsFiniteSet(t)
  OBVIOUS
<1> HIDE DEF T
<1>3. IsFiniteSet(T)
  BY <1>1, FS_Surjection
<1>4. IsFiniteSet(UNION T)
  BY <1>2, <1>3, FS_UNION
<1> QED
  BY <1>4 DEF T

LEMMA SlotsFinite ==
  ASSUME NEW E, NEW A, Items(E)
  PROVE  IsFiniteSet(ItemSlots(E, A)) /\ IsFiniteSet(MemberSlots(E, A))
<1>1. IsFiniteSet(E)
  BY DEF Items
<1>2. IsFiniteSet(UNION {DOMAIN x : x \in E})
  <2> DEFINE f == [x \in E |-> DOMAIN x]
  <2>1. \A x \in E : f[x] = DOMAIN x /\ IsFiniteSet(DOMAIN x)
    BY KeysFinite DEF Items
  <2>2. f = [x \in E |-> f[x]] /\ {DOMAIN x : x \in E} = {f[x] : x \in E}
    OBVIOUS
  <2> HIDE DEF f
  <2>3. \A x \in E : IsFiniteSet(f[x])
    BY <2>1
  <2>4. IsFiniteSet(UNION {f[x] : x \in E})
    BY <1>1, <2>2, <2>3, FamilyFinite
  <2> QED
    BY <2>2, <2>4
<1>3. IsFiniteSet(UNION {x.fields : x \in List(E, "record")})
  <2> DEFINE R == List(E, "record")
             f == [x \in R |-> x.fields]
  <2>1. R \in SUBSET E
    BY DEF List
  <2>2. IsFiniteSet(R)
    <3> HIDE DEF R
    <3> QED
      BY <1>1, <2>1, FS_Subset
  <2>3. \A x \in R : f[x] = x.fields /\ IsFiniteSet(x.fields)
    BY DEF Items, Keyed, List
  <2> HIDE DEF R
  <2>4. f = [x \in R |-> f[x]] /\ {x.fields : x \in R} = {f[x] : x \in R}
    OBVIOUS
  <2> HIDE DEF f
  <2>5. \A x \in R : IsFiniteSet(f[x])
    BY <2>3
  <2>6. IsFiniteSet(UNION {f[x] : x \in R})
    BY <2>2, <2>4, <2>5, FamilyFinite
  <2> QED
    BY <2>4, <2>6 DEF R
<1>4. IsFiniteSet(Members)
  <2>1. Members = {"name", "name", "name", "offset"}
    BY DEF Members
  <2> QED
    BY <2>1, FourFinite
<1> DEFINE K == UNION {DOMAIN x : x \in E}
           F == UNION {x.fields : x \in List(E, "record")}
<1>5. ItemSlots(E, A) \in SUBSET (E \X K) /\ MemberSlots(E, A) \in SUBSET ((E \X F) \X Members)
  BY DEF ItemSlots, MemberSlots
<1> HIDE DEF K, F
<1>6. IsFiniteSet(E \X K)
  BY <1>1, <1>2, FS_Product DEF K
<1>7. IsFiniteSet(E \X F)
  BY <1>1, <1>3, FS_Product DEF F
<1>8. IsFiniteSet((E \X F) \X Members)
  BY <1>4, <1>7, FS_Product
<1> QED
  BY <1>5, <1>6, <1>8, FS_Subset

(* Position and list determine an item.                                    *)
LEMMA PlacesTell ==
  ASSUME NEW E, NEW A, Items(E), Items(A), Paired(E, A), NEW x \in E, NEW z \in E,
         x.kind = z.kind, Place(E, x) = Place(E, z)
  PROVE  x = z
<1> DEFINE X == List(E, x.kind)
<1>1. Keyed(X) /\ x \in X /\ z \in X /\ Rank(X, x) = Rank(X, z)
  BY ListsPair DEF List, Place
<1> HIDE DEF X
<1>2. ByID(X)[Rank(X, x)] = x /\ ByID(X)[Rank(X, z)] = z
  BY <1>1, Positions
<1> QED
  BY <1>1, <1>2

LEMMA ItemSizes ==
  ASSUME NEW E, NEW A, Items(E), Items(A), Paired(E, A)
  PROVE  /\ IsFiniteSet(ItemFacts(E, A)) /\ IsFiniteSet(ItemPaths(E, A))
         /\ Cardinality(ItemFacts(E, A)) = Cardinality(ItemPaths(E, A))
<1> DEFINE S == ItemSlots(E, A)
           f == [s \in S |-> <<s[1].id, s[2], s[1][s[2]]>>]
           g == [s \in S |-> <<s[1].kind, Place(E, s[1]), s[2]>>]
<1>1. \A s \in S : s = <<s[1], s[2]>> /\ s[1] \in E
  BY DEF ItemSlots
<1>2. IsFiniteSet(S)
  BY SlotsFinite
<1>3. ASSUME NEW s \in S, NEW t \in S, f[s] = f[t] PROVE s = t
  <2>1. s[1].id = t[1].id /\ s[2] = t[2]
    BY <1>3
  <2>2. s[1] = t[1]
    BY <1>1, <2>1 DEF Items, UniqueIds
  <2> QED
    BY <1>1, <2>1, <2>2
<1>4. ASSUME NEW s \in S, NEW t \in S, g[s] = g[t] PROVE s = t
  <2>1. s[1].kind = t[1].kind /\ Place(E, s[1]) = Place(E, t[1]) /\ s[2] = t[2]
    BY <1>4
  <2>2. s[1] = t[1]
    BY <1>1, <2>1, PlacesTell
  <2> QED
    BY <1>1, <2>1, <2>2
<1>5. f = [s \in S |-> f[s]] /\ g = [s \in S |-> g[s]]
  OBVIOUS
<1>6. ItemFacts(E, A) = {f[s] : s \in S} /\ ItemPaths(E, A) = {g[s] : s \in S}
  BY DEF ItemFacts, ItemPaths
<1> HIDE DEF S, f, g
<1>7. IsFiniteSet(ItemFacts(E, A)) /\ Cardinality(ItemFacts(E, A)) = Cardinality(S)
  BY <1>2, <1>3, <1>5, <1>6, ImageSize
<1>8. IsFiniteSet(ItemPaths(E, A)) /\ Cardinality(ItemPaths(E, A)) = Cardinality(S)
  BY <1>2, <1>4, <1>5, <1>6, ImageSize
<1> QED
  BY <1>7, <1>8

LEMMA MemberSizes ==
  ASSUME NEW E, NEW A, Items(E), Items(A), Paired(E, A)
  PROVE  /\ IsFiniteSet(MemberFacts(E, A)) /\ IsFiniteSet(MemberPaths(E, A))
         /\ Cardinality(MemberFacts(E, A)) = Cardinality(MemberPaths(E, A))
<1> DEFINE S == MemberSlots(E, A)
           f == [s \in S |-> <<s[1][1].id, s[1][2].id, s[2], s[1][2][s[2]]>>]
           g == [s \in S |-> <<s[1][1].kind, Place(E, s[1][1]), "fields", Rank(s[1][1].fields, s[1][2]), s[2]>>]
<1>1. ASSUME NEW s \in S
      PROVE  /\ s = <<<<s[1][1], s[1][2]>>, s[2]>> /\ s[1][1] \in E
             /\ s[1][1].kind = "record" /\ s[1][2] \in s[1][1].fields
  <2>1. \E y, h : MemberDiffers(E, A, s[1][1], y, s[1][2], h, s[2])
    BY DEF MemberSlots
  <2>2. s \in (E \X UNION {x.fields : x \in List(E, "record")}) \X Members
    BY DEF MemberSlots
  <2> QED
    BY <2>1, <2>2 DEF MemberDiffers, FieldDiffers
<1>2. IsFiniteSet(S)
  BY SlotsFinite
<1>3. ASSUME NEW s \in S, NEW t \in S, f[s] = f[t] PROVE s = t
  <2>1. s[1][1].id = t[1][1].id /\ s[1][2].id = t[1][2].id /\ s[2] = t[2]
    BY <1>3
  <2> HIDE DEF S, f, g
  <2>2. s[1][1] = t[1][1]
    BY <1>1, <2>1 DEF Items, UniqueIds
  <2>3. s[1][2] = t[1][2]
    <3>1. UniqueIds(s[1][1].fields)
      BY <1>1 DEF Items, Keyed
    <3> QED
      BY <1>1, <2>1, <2>2, <3>1 DEF UniqueIds
  <2> QED
    BY <1>1, <2>1, <2>2, <2>3
<1>4. ASSUME NEW s \in S, NEW t \in S, g[s] = g[t] PROVE s = t
  <2>1. /\ s[1][1].kind = t[1][1].kind /\ Place(E, s[1][1]) = Place(E, t[1][1])
        /\ Rank(s[1][1].fields, s[1][2]) = Rank(t[1][1].fields, t[1][2]) /\ s[2] = t[2]
    BY <1>4
  <2> HIDE DEF S, f, g
  <2>2. s[1][1] = t[1][1]
    BY <1>1, <2>1, PlacesTell
  <2>3. s[1][2] = t[1][2]
    <3> DEFINE X == s[1][1].fields
    <3>1. Keyed(X) /\ s[1][2] \in X /\ t[1][2] \in X
      BY <1>1, <2>2 DEF Items
    <3>2. Rank(X, s[1][2]) = Rank(X, t[1][2])
      BY <2>1, <2>2
    <3> HIDE DEF X
    <3>3. ByID(X)[Rank(X, s[1][2])] = s[1][2] /\ ByID(X)[Rank(X, t[1][2])] = t[1][2]
      BY <3>1, Positions
    <3> QED
      BY <3>2, <3>3
  <2> QED
    BY <1>1, <2>1, <2>2, <2>3
<1>5. f = [s \in S |-> f[s]] /\ g = [s \in S |-> g[s]]
  OBVIOUS
<1>6. MemberFacts(E, A) = {f[s] : s \in S} /\ MemberPaths(E, A) = {g[s] : s \in S}
  BY DEF MemberFacts, MemberPaths
<1> HIDE DEF S, f, g
<1>7. IsFiniteSet(MemberFacts(E, A)) /\ Cardinality(MemberFacts(E, A)) = Cardinality(S)
  BY <1>2, <1>3, <1>5, <1>6, ImageSize
<1>8. IsFiniteSet(MemberPaths(E, A)) /\ Cardinality(MemberPaths(E, A)) = Cardinality(S)
  BY <1>2, <1>4, <1>5, <1>6, ImageSize
<1> QED
  BY <1>7, <1>8
LEMMA FactsDiffer ==
  ASSUME NEW E, NEW A, Items(E), Items(A), Paired(E, A), NEW d
  PROVE  Fact(E, d) /\ ~Fact(A, d) <=> d \in ItemFacts(E, A) \/ d \in MemberFacts(E, A)
<1>1. ASSUME NEW x \in E PROVE \E y \in A : y.id = x.id /\ y.kind = x.kind /\ DOMAIN y = DOMAIN x
  <2>1. PICK y \in A : y.id = x.id
    BY DEF Paired, Matching
  <2> QED
    BY <2>1 DEF Paired, Items
<1>2. ASSUME ItemFact(E, d), ~Fact(A, d) PROVE d \in ItemFacts(E, A)
  <2>1. PICK x \in E : \E k \in (DOMAIN x) \ {"fields"} : d = <<x.id, k, x[k]>>
    BY <1>2 DEF ItemFact
  <2>2. PICK k \in (DOMAIN x) \ {"fields"} : d = <<x.id, k, x[k]>>
    BY <2>1
  <2>3. PICK y \in A : y.id = x.id /\ y.kind = x.kind /\ DOMAIN y = DOMAIN x
    BY <1>1
  <2>4. x[k] # y[k]
    <3>1. Fact(A, <<y.id, k, x[k]>>) <=> k \in (DOMAIN y) \ {"fields"} /\ x[k] = y[k]
      BY ItemFactsTell
    <3> QED
      BY <1>2, <2>2, <2>3, <3>1
  <2>5. ItemDiffers(E, A, x, y, k)
    BY <2>3, <2>4 DEF ItemDiffers
  <2>6. <<x, k>> \in ItemSlots(E, A)
    BY <2>5 DEF ItemSlots
  <2> QED
    BY <2>2, <2>6 DEF ItemFacts
<1>3. ASSUME MemberFact(E, d), ~Fact(A, d) PROVE d \in MemberFacts(E, A)
  <2>1. PICK x \in E : x.kind = "record" /\ \E f \in x.fields, k \in Members : d = <<x.id, f.id, k, f[k]>>
    BY <1>3 DEF MemberFact
  <2>2. PICK f \in x.fields, k \in Members : d = <<x.id, f.id, k, f[k]>>
    BY <2>1
  <2>3. PICK y \in A : y.id = x.id /\ y.kind = x.kind
    BY <1>1
  <2>4. PICK g \in y.fields : g.id = f.id
    BY <2>1, <2>3 DEF Paired, Matching
  <2>5. f[k] # g[k]
    <3>1. Fact(A, <<y.id, g.id, k, f[k]>>) <=>
            y.kind = "record" /\ k \in Members /\ \E h \in y.fields : h.id = g.id /\ f[k] = h[k]
      BY MemberFactsTell
    <3> QED
      BY <1>3, <2>1, <2>2, <2>3, <2>4, <3>1
  <2>6. MemberDiffers(E, A, x, y, f, g, k)
    BY <2>1, <2>3, <2>4, <2>5 DEF MemberDiffers, FieldDiffers
  <2>7. <<<<x, f>>, k>> \in MemberSlots(E, A)
    <3>1. f \in UNION {z.fields : z \in List(E, "record")}
      BY <2>1 DEF List
    <3> QED
      BY <2>6, <3>1 DEF MemberSlots
  <2> QED
    BY <2>2, <2>7 DEF MemberFacts
<1>4. ASSUME d \in ItemFacts(E, A) PROVE Fact(E, d) /\ ~Fact(A, d)
  <2>1. PICK s \in ItemSlots(E, A) : d = <<s[1].id, s[2], s[1][s[2]]>>
    BY <1>4 DEF ItemFacts
  <2>2. PICK y : ItemDiffers(E, A, s[1], y, s[2])
    BY DEF ItemSlots
  <2> DEFINE x == s[1]
             k == s[2]
  <2>3. x \in E /\ y \in A /\ x.id = y.id /\ k \in (DOMAIN x) \ {"fields"} /\ x[k] # y[k] /\ d = <<x.id, k, x[k]>>
    BY <2>1, <2>2 DEF ItemDiffers
  <2> HIDE DEF x, k
  <2>4. Fact(E, d)
    BY <2>3 DEF Fact, ItemFact
  <2>5. Fact(A, <<y.id, k, x[k]>>) <=> k \in (DOMAIN y) \ {"fields"} /\ x[k] = y[k]
    BY <2>3, ItemFactsTell
  <2> QED
    BY <2>3, <2>4, <2>5
<1>5. ASSUME d \in MemberFacts(E, A) PROVE Fact(E, d) /\ ~Fact(A, d)
  <2>1. PICK s \in MemberSlots(E, A) : d = <<s[1][1].id, s[1][2].id, s[2], s[1][2][s[2]]>>
    BY <1>5 DEF MemberFacts
  <2>2. PICK y, g : MemberDiffers(E, A, s[1][1], y, s[1][2], g, s[2])
    BY DEF MemberSlots
  <2> DEFINE x == s[1][1]
             f == s[1][2]
             k == s[2]
  <2>3. /\ x \in E /\ y \in A /\ x.id = y.id /\ x.kind = "record" /\ f \in x.fields /\ g \in y.fields
        /\ f.id = g.id /\ k \in Members /\ f[k] # g[k] /\ d = <<x.id, f.id, k, f[k]>>
    BY <2>1, <2>2 DEF MemberDiffers, FieldDiffers
  <2> HIDE DEF x, f, k
  <2>4. Fact(E, d)
    BY <2>3 DEF Fact, MemberFact
  <2>5. Fact(A, <<y.id, g.id, k, f[k]>>) <=>
          y.kind = "record" /\ k \in Members /\ \E h \in y.fields : h.id = g.id /\ f[k] = h[k]
    BY <2>3, MemberFactsTell
  <2>6. UniqueIds(y.fields)
    BY <2>3 DEF Paired, Items, Keyed
  <2>7. ~\E h \in y.fields : h.id = g.id /\ f[k] = h[k]
    BY <2>3, <2>6 DEF UniqueIds
  <2> QED
    BY <2>3, <2>4, <2>5, <2>7
<1> QED
  BY <1>2, <1>3, <1>4, <1>5 DEF Fact

LEMMA PathsCollected ==
  ASSUME NEW E, NEW A, Items(E), Items(A), Paired(E, A)
  PROVE  UNION {ListPaths(E, A, list) : list \in ListNames} = ItemPaths(E, A) \cup MemberPaths(E, A)
<1>1. ASSUME NEW p PROVE p \in ItemPaths(E, A) <=> AtItem(E, A, p)
  <2>1. ASSUME p \in ItemPaths(E, A) PROVE AtItem(E, A, p)
    <3>1. PICK s \in ItemSlots(E, A) : p = <<s[1].kind, Place(E, s[1]), s[2]>>
      BY <2>1 DEF ItemPaths
    <3>2. PICK y : ItemDiffers(E, A, s[1], y, s[2])
      BY DEF ItemSlots
    <3> QED
      BY <3>1, <3>2 DEF AtItem
  <2>2. ASSUME AtItem(E, A, p) PROVE p \in ItemPaths(E, A)
    <3>1. PICK x, y, k : ItemDiffers(E, A, x, y, k) /\ p = <<x.kind, Place(E, x), k>>
      BY <2>2 DEF AtItem
    <3>2. <<x, k>> \in ItemSlots(E, A)
      BY <3>1 DEF ItemSlots, ItemDiffers
    <3> QED
      BY <3>1, <3>2 DEF ItemPaths
  <2> QED
    BY <2>1, <2>2
<1>2. ASSUME NEW p PROVE p \in MemberPaths(E, A) <=> AtMember(E, A, p)
  <2>1. ASSUME p \in MemberPaths(E, A) PROVE AtMember(E, A, p)
    <3>1. PICK s \in MemberSlots(E, A) :
            p = <<s[1][1].kind, Place(E, s[1][1]), "fields", Rank(s[1][1].fields, s[1][2]), s[2]>>
      BY <2>1 DEF MemberPaths
    <3>2. PICK y, g : MemberDiffers(E, A, s[1][1], y, s[1][2], g, s[2])
      BY DEF MemberSlots
    <3> QED
      BY <3>1, <3>2 DEF AtMember
  <2>2. ASSUME AtMember(E, A, p) PROVE p \in MemberPaths(E, A)
    <3>1. PICK x, y, f, g, k : MemberDiffers(E, A, x, y, f, g, k)
                               /\ p = <<x.kind, Place(E, x), "fields", Rank(x.fields, f), k>>
      BY <2>2 DEF AtMember
    <3>2. <<<<x, f>>, k>> \in MemberSlots(E, A)
      <4>1. x \in E /\ x.kind = "record" /\ f \in x.fields /\ k \in Members
        BY <3>1 DEF MemberDiffers, FieldDiffers
      <4>2. f \in UNION {z.fields : z \in List(E, "record")}
        BY <4>1 DEF List
      <4> QED
        BY <3>1, <4>1, <4>2 DEF MemberSlots
    <3> QED
      BY <3>1, <3>2 DEF MemberPaths
  <2> QED
    BY <2>1, <2>2
<1>3. ASSUME NEW p
      PROVE  p \in UNION {ListPaths(E, A, list) : list \in ListNames} <=> p \in ItemPaths(E, A) \cup MemberPaths(E, A)
  BY <1>1, <1>2, PathsAre
<1> QED
  BY <1>3

(* The properties of the results themselves.                               *)
Header(file) == [file EXCEPT !.items = {}, !.compiler = ""]
Provided == <<"arch", "source", "sdk", "profile", "manifest">>
Moved(e, a) == {k \in 1..5 : Provenance(e)[k] # Provenance(a)[k]}

LEMMA HeaderPaths ==
  ASSUME NEW e, NEW a, Sound(e), Sound(a)
  PROVE  /\ CompareObjects(Header(e), Header(a)) = {<<Provided[k]>> : k \in Moved(e, a)}
         /\ IsFiniteSet(CompareObjects(Header(e), Header(a)))
         /\ Cardinality(CompareObjects(Header(e), Header(a))) = Cardinality(Moved(e, a))
         /\ IsFiniteSet(Moved(e, a))
<1> DEFINE H == CompareObjects(Header(e), Header(a))
           P == Provided
           x == Header(e)
           y == Header(a)
           M == Moved(e, a)
           Keys == {"wellFormed", "arch", "source", "sdk", "profile", "manifest", "compiler", "items"}
<1>1. DOMAIN e = Keys /\ DOMAIN a = Keys /\ e.wellFormed = a.wellFormed
  BY DEF Sound, Typed, ValidResult, LoadedOracle
<1>2. /\ DOMAIN x = Keys /\ DOMAIN y = Keys
      /\ x.items = y.items /\ x.compiler = y.compiler /\ x.wellFormed = y.wellFormed
      /\ x.arch = e.arch /\ x.source = e.source /\ x.sdk = e.sdk /\ x.profile = e.profile /\ x.manifest = e.manifest
      /\ y.arch = a.arch /\ y.source = a.source /\ y.sdk = a.sdk /\ y.profile = a.profile /\ y.manifest = a.manifest
  BY <1>1 DEF Header
<1>3. /\ P[1] = "arch" /\ P[2] = "source" /\ P[3] = "sdk" /\ P[4] = "profile" /\ P[5] = "manifest"
  BY DEF Provided
<1> HIDE DEF P, x, y
<1>4. \A k \in 1..5 : Provenance(e)[k] = x[P[k]] /\ Provenance(a)[k] = y[P[k]] /\ P[k] \in Keys \ {"fields"}
  BY <1>2, <1>3 DEF Provenance
<1>5. \A n \in Keys : x[n] # y[n] => \E k \in 1..5 : n = P[k]
  <2>1. 1 \in 1..5 /\ 2 \in 1..5 /\ 3 \in 1..5 /\ 4 \in 1..5 /\ 5 \in 1..5
    OBVIOUS
  <2> QED
    BY <1>2, <1>3, <2>1
<1>6. ASSUME NEW p PROVE p \in H <=> \E k \in M : p = <<P[k]>>
  <2>1. p \in H <=> \E n \in Keys \ {"fields"} : x[n] # y[n] /\ p = <<n>>
    <3>1. DOMAIN x = DOMAIN y
      BY <1>2
    <3> HIDE DEF Keys
    <3>2. p \in CompareObjects(x, y) <=> \E n \in (DOMAIN x) \ {"fields"} : x[n] # y[n] /\ p = <<n>>
      BY <3>1, ObjectPaths
    <3> QED
      BY <1>2, <3>2 DEF x, y
  <2>2. ASSUME NEW k \in M PROVE k \in 1..5 /\ x[P[k]] # y[P[k]] /\ P[k] \in Keys \ {"fields"}
    BY <1>4 DEF Moved
  <2>3. ASSUME NEW n \in Keys \ {"fields"}, x[n] # y[n] PROVE \E k \in M : n = P[k]
    <3>1. PICK k \in 1..5 : n = P[k]
      BY <1>5, <2>3
    <3> QED
      BY <1>4, <2>3, <3>1 DEF Moved
  <2> HIDE DEF H, M, Keys
  <2> QED
    BY <2>1, <2>2, <2>3
<1>7. H = {<<P[k]>> : k \in M}
  <2> HIDE DEF H, M
  <2> QED
    BY <1>6
<1>8. IsFiniteSet(M)
  <2>1. M \in SUBSET (1..5)
    BY DEF Moved
  <2>2. 1 \in Int /\ 5 \in Int
    OBVIOUS
  <2>3. IsFiniteSet(1..5)
    BY <2>2, FS_Interval
  <2> HIDE DEF M
  <2> QED
    BY <2>1, <2>3, FS_Subset
<1> DEFINE f == [k \in M |-> <<P[k]>>]
<1>9. ASSUME NEW k \in M, NEW l \in M, f[k] = f[l] PROVE k = l
  <2>1. P[k] = P[l] /\ k \in 1..5 /\ l \in 1..5
    BY <1>9 DEF Moved
  <2>2. k \in {1, 2, 3, 4, 5} /\ l \in {1, 2, 3, 4, 5}
    BY <2>1
  <2> HIDE DEF M, f
  <2> QED
    BY <1>3, <2>1, <2>2
<1>10. f = [k \in M |-> f[k]] /\ {<<P[k]>> : k \in M} = {f[k] : k \in M}
  OBVIOUS
<1> HIDE DEF f, M, H
<1>11. IsFiniteSet(H) /\ Cardinality(H) = Cardinality(M)
  BY <1>7, <1>8, <1>9, <1>10, ImageSize
<1> QED
  BY <1>7, <1>8, <1>11 DEF H, M, P

LEMMA ResultPaths ==
  ASSUME NEW e, NEW a
  PROVE  CompareResults(e, a) =
           CompareObjects(Header(e), Header(a)) \cup UNION {ListPaths(e.items, a.items, list) : list \in ListNames}
BY DEF CompareResults, Header, ListPaths, ElementLists, List

LEMMA ShortPaths ==
  ASSUME NEW a, NEW b, NEW c, NEW d, NEW f, NEW g, NEW h, NEW i, NEW j
  PROVE  <<a>> # <<b, c, d>> /\ <<a>> # <<f, g, h, i, j>> /\ <<b, c, d>> # <<f, g, h, i, j>>
<1>1. Len(<<a>>) = 1 /\ Len(<<b, c, d>>) = 3 /\ Len(<<f, g, h, i, j>>) = 5
  OBVIOUS
<1> QED
  BY <1>1

LEMMA DisjointSize ==
  ASSUME NEW S, NEW T, IsFiniteSet(S), IsFiniteSet(T), \A x \in S : x \notin T
  PROVE  IsFiniteSet(S \cup T) /\ Cardinality(S \cup T) = Cardinality(S) + Cardinality(T)
<1>1. S \cap T = {}
  OBVIOUS
<1>2. Cardinality(S \cap T) = 0
  BY <1>1, FS_EmptySet
<1>3. Cardinality(S) \in Nat /\ Cardinality(T) \in Nat
  BY FS_CardinalityType
<1>4. IsFiniteSet(S \cup T) /\ Cardinality(S \cup T) = Cardinality(S) + Cardinality(T) - Cardinality(S \cap T)
  BY FS_Union
<1> QED
  BY <1>2, <1>3, <1>4

(* Paired results differ in as many paths as facts.                        *)
LEMMA FactsSize ==
  ASSUME NEW e, NEW a, Items(e.items), Items(a.items), Paired(e.items, a.items)
  PROVE  /\ FactsOf(e) \ FactsOf(a) = ItemFacts(e.items, a.items) \cup MemberFacts(e.items, a.items)
         /\ Cardinality(FactsOf(e) \ FactsOf(a)) =
              Cardinality(ItemFacts(e.items, a.items)) + Cardinality(MemberFacts(e.items, a.items))
<1> DEFINE I == ItemFacts(e.items, a.items)
           M == MemberFacts(e.items, a.items)
<1>1. ASSUME NEW d PROVE d \in FactsOf(e) \ FactsOf(a) <=> d \in I \cup M
  BY FactsAre, FactsDiffer
<1>2. FactsOf(e) \ FactsOf(a) = I \cup M
  <2> HIDE DEF I, M
  <2> QED
    BY <1>1
<1>3. \A x \in I : x \notin M
  BY ShortAndLong DEF ItemFacts, MemberFacts
<1>4. IsFiniteSet(I) /\ IsFiniteSet(M)
  BY ItemSizes, MemberSizes
<1> HIDE DEF I, M
<1>5. Cardinality(I \cup M) = Cardinality(I) + Cardinality(M)
  BY <1>3, <1>4, DisjointSize
<1> QED
  BY <1>2, <1>5 DEF I, M

LEMMA ResultsCounted ==
  ASSUME NEW e, NEW a, Sound(e), Sound(a), Paired(e.items, a.items)
  PROVE  /\ CompareResults(e, a) = {<<Provided[k]>> : k \in Moved(e, a)}
                                   \cup ItemPaths(e.items, a.items) \cup MemberPaths(e.items, a.items)
         /\ Cardinality(CompareResults(e, a)) = Cardinality(Moved(e, a)) + Cardinality(FactsOf(e) \ FactsOf(a))
<1> DEFINE H == {<<Provided[k]>> : k \in Moved(e, a)}
           I == ItemPaths(e.items, a.items)
           M == MemberPaths(e.items, a.items)
<1>1. Items(e.items) /\ Items(a.items)
  BY SoundItems
<1>2. UNION {ListPaths(e.items, a.items, list) : list \in ListNames} = I \cup M
  BY <1>1, PathsCollected
<1>3. CompareObjects(Header(e), Header(a)) = H
  BY HeaderPaths
<1>4. CompareResults(e, a) = (H \cup I) \cup M
  <2> HIDE DEF H, I, M
  <2>1. CompareResults(e, a) = H \cup (I \cup M)
    BY <1>2, <1>3, ResultPaths
  <2> QED
    BY <2>1
<1>5. (\A x \in H : x \notin I) /\ \A x \in H \cup I : x \notin M
  <2>1. \A x \in H : \E b : x = <<b>>
    OBVIOUS
  <2>2. \A x \in I : \E b, c, d : x = <<b, c, d>>
    BY DEF ItemPaths
  <2>3. \A x \in M : \E f, g, h, i, j : x = <<f, g, h, i, j>>
    BY DEF MemberPaths
  <2> HIDE DEF H, I, M
  <2> QED
    BY <2>1, <2>2, <2>3, ShortPaths
<1>6. IsFiniteSet(H) /\ IsFiniteSet(I) /\ IsFiniteSet(M)
  <2>1. IsFiniteSet(H)
    BY <1>3, HeaderPaths
  <2> QED
    BY <1>1, <2>1, ItemSizes, MemberSizes
<1>7. /\ Cardinality(H) = Cardinality(Moved(e, a))
      /\ Cardinality(I) = Cardinality(ItemFacts(e.items, a.items))
      /\ Cardinality(M) = Cardinality(MemberFacts(e.items, a.items))
  <2>1. Cardinality(H) = Cardinality(Moved(e, a))
    BY <1>3, HeaderPaths
  <2> QED
    BY <1>1, <2>1, ItemSizes, MemberSizes
<1>8. Cardinality(FactsOf(e) \ FactsOf(a)) =
        Cardinality(ItemFacts(e.items, a.items)) + Cardinality(MemberFacts(e.items, a.items))
  BY <1>1, FactsSize
<1>9. Cardinality(H) \in Nat /\ Cardinality(I) \in Nat /\ Cardinality(M) \in Nat
  BY <1>6, FS_CardinalityType
<1> HIDE DEF H, I, M
<1>10. IsFiniteSet(H \cup I) /\ Cardinality(H \cup I) = Cardinality(H) + Cardinality(I)
  BY <1>5, <1>6, DisjointSize
<1>11. Cardinality((H \cup I) \cup M) = Cardinality(H \cup I) + Cardinality(M)
  BY <1>5, <1>6, <1>10, DisjointSize
<1>12. Cardinality(CompareResults(e, a)) = Cardinality(Moved(e, a)) + Cardinality(FactsOf(e) \ FactsOf(a))
  BY <1>4, <1>7, <1>8, <1>9, <1>10, <1>11
<1> QED
  BY <1>4, <1>12 DEF H, I, M

(* A clean comparison is of two results that say the same.                 *)
LEMMA CleanAgrees ==
  ASSUME NEW e, NEW a, Sound(e), Sound(a), CompareResults(e, a) = {}
  PROVE  Moved(e, a) = {} /\ FactsOf(e) = FactsOf(a)
<1>1. e.items = a.items
  BY ResultsAgree DEF Sound
<1>2. FactsOf(e) = FactsOf(a)
  BY <1>1 DEF FactsOf
<1>3. CompareObjects(Header(e), Header(a)) = {}
  BY ResultPaths
<1>4. {<<Provided[k]>> : k \in Moved(e, a)} = {}
  BY <1>3, HeaderPaths
<1>5. Moved(e, a) = {}
  <2> HIDE DEF Moved
  <2> QED
    BY <1>4
<1> QED
  BY <1>2, <1>5

LEMMA AgreeingIsClean ==
  ASSUME NEW e, NEW a, Sound(e), Sound(a), Moved(e, a) = {}, FactsOf(e) = FactsOf(a)
  PROVE  CompareResults(e, a) = {}
<1>1. Items(e.items) /\ Items(a.items)
  BY SoundItems
<1>2. Covers(e.items, a.items) /\ Covers(a.items, e.items)
  BY FactsAre DEF Covers
<1>3. e.items = a.items
  BY <1>1, <1>2, FactsDetermine
<1>4. Paired(e.items, a.items)
  BY <1>1, <1>3 DEF Paired, Matching, Items, UniqueIds
<1>5. ItemPaths(e.items, a.items) = {} /\ MemberPaths(e.items, a.items) = {}
  <2>1. ASSUME NEW x, NEW y, NEW k PROVE ~ItemDiffers(e.items, a.items, x, y, k)
    BY <1>1, <1>3 DEF ItemDiffers, Items, UniqueIds
  <2>2. ASSUME NEW x, NEW y, NEW f, NEW g, NEW k PROVE ~MemberDiffers(e.items, a.items, x, y, f, g, k)
    BY <1>1, <1>3 DEF MemberDiffers, FieldDiffers, Items, Keyed, UniqueIds
  <2>3. ItemSlots(e.items, a.items) = {} /\ MemberSlots(e.items, a.items) = {}
    BY <2>1, <2>2 DEF ItemSlots, MemberSlots
  <2> QED
    BY <2>3 DEF ItemPaths, MemberPaths
<1>6. {<<Provided[k]>> : k \in Moved(e, a)} = {}
  <2> HIDE DEF Moved
  <2> QED
    OBVIOUS
<1> QED
  BY <1>4, <1>5, <1>6, ResultsCounted

-----------------------------------------------------------------------------
(* What a job has measured was printed by the probe of its architecture;   *)
(* once it is compared, its differences are those of the checked-in result *)
(* from it, unless one of the two is invalid.                              *)
Printed(r, a, j) == \E compiler : j.actual = <<RunSource(SourceOf(r, a), a, compiler)>>
Told(r, a, j) ==
  \/ j.differences = {<<"invalid">>}
  \/ /\ Expected(r, a) # <<>> /\ ValidResult(Expected(r, a)[1]) /\ ValidResult(j.actual[1])
     /\ j.differences = CompareResults(Expected(r, a)[1], j.actual[1])
Compared(r, a, j) ==
  /\ j.at \in {"generate", "compile", "execute"} => j.actual = <<>>
  /\ j.actual # <<>> => a \in Executed /\ Printed(r, a, j)
  /\ j.actual # <<>> /\ j.at # "compare" => Told(r, a, j)

Measures == jobs = << >> \/ \A a \in Targets : Compared(run, a, jobs[a])

LEMMA CompiledKeeps ==
  ASSUME NEW a \in Targets, jobs = [b \in Targets |-> jobs[b]],
         JobFits(run, a, jobs[a]), Compared(run, a, jobs[a]), CompileProbe(a)
  PROVE  Compared(run, a, jobs'[a])
<1> DEFINE j == jobs[a]
<1>1. /\ j.at = "compile" /\ j.actual = <<>>
      /\ DOMAIN j = {"at", "source", "object", "actual", "differences"}
  BY DEF CompileProbe, At, JobFits, Compared
<1>2. \E object : \E at : jobs' = [jobs EXCEPT ![a].object = object, ![a].at = at] \/ jobs' = [jobs EXCEPT ![a].at = at]
  BY DEF CompileProbe
<1>3. PICK object : \E at : jobs' = [jobs EXCEPT ![a].object = object, ![a].at = at] \/ jobs' = [jobs EXCEPT ![a].at = at]
  BY <1>2
<1>4. PICK at : jobs' = [jobs EXCEPT ![a].object = object, ![a].at = at] \/ jobs' = [jobs EXCEPT ![a].at = at]
  BY <1>3
<1>5. jobs'[a] = [j EXCEPT !.object = object, !.at = at] \/ jobs'[a] = [j EXCEPT !.at = at]
  BY <1>4
<1> HIDE DEF j
<1>6. jobs'[a].actual = j.actual
  BY <1>1, <1>5
<1> QED
  BY <1>1, <1>6 DEF Compared

LEMMA ExecutedKeeps ==
  ASSUME NEW a \in Targets, jobs = [b \in Targets |-> jobs[b]],
         JobFits(run, a, jobs[a]), Compared(run, a, jobs[a]), ExecuteProbe(a)
  PROVE  Compared(run, a, jobs'[a])
<1> DEFINE j == jobs[a]
           object == j.object[1]
           measured == RunSource(object.source, object.target, object.compiler)
<1>1. /\ a \in Executed /\ object.source = SourceOf(run, a) /\ object.target = a
      /\ DOMAIN j = {"at", "source", "object", "actual", "differences"}
  BY DEF ExecuteProbe, At, JobFits
<1>2. jobs'[a] = [j EXCEPT !.actual = <<measured>>, !.at = "compare"]
  BY DEF ExecuteProbe
<1>3. measured = RunSource(SourceOf(run, a), a, object.compiler)
  BY <1>1
<1> HIDE DEF j, measured, object
<1>4. jobs'[a].at = "compare" /\ jobs'[a].actual = <<measured>>
  BY <1>1, <1>2
<1> QED
  BY <1>1, <1>3, <1>4 DEF Compared, Printed

LEMMA ComparedKeeps ==
  ASSUME NEW a \in Targets, jobs = [b \in Targets |-> jobs[b]],
         JobFits(run, a, jobs[a]), Compared(run, a, jobs[a]), CompareProbe(a)
  PROVE  Compared(run, a, jobs'[a])
<1> DEFINE j == jobs[a]
           expected == Baseline(a)
           actual == j.actual
           valid == expected # <<>> /\ ValidResult(expected[1]) /\ ValidResult(actual[1])
           differences == CompareResults(expected[1], actual[1])
           equal == valid /\ differences = {}
           at == IF ~equal THEN "failure" ELSE IF a = "amd64" THEN "verify" ELSE "success"
           said == IF valid THEN differences ELSE {<<"invalid">>}
<1>1. DOMAIN j = {"at", "source", "object", "actual", "differences"}
  BY DEF JobFits
<1>2. jobs'[a] = [j EXCEPT !.differences = said, !.at = at]
  BY DEF CompareProbe
<1>3. expected = Expected(run, a)
  BY DEF Baseline, Expected
<1>4. said = {<<"invalid">>} \/ (valid /\ said = differences)
  OBVIOUS
<1> HIDE DEF j, said, equal
<1>5. jobs'[a].at = at /\ jobs'[a].actual = j.actual /\ jobs'[a].differences = said
  BY <1>1, <1>2
<1>6. Told(run, a, jobs'[a])
  BY <1>3, <1>4, <1>5 DEF Told
<1>7. j.actual # <<>> => a \in Executed /\ Printed(run, a, j)
  BY DEF Compared, j
<1>8. jobs'[a].at \notin {"generate", "compile", "execute"}
  BY <1>5
<1>9. jobs'[a].actual # <<>> => a \in Executed /\ Printed(run, a, jobs'[a])
  BY <1>5, <1>7 DEF Printed
<1> QED
  BY <1>6, <1>8, <1>9 DEF Compared

LEMMA GeneratedKeeps ==
  ASSUME NEW a \in Targets, jobs = [b \in Targets |-> jobs[b]],
         JobFits(run, a, jobs[a]), Compared(run, a, jobs[a]), GenerateProbe(a)
  PROVE  Compared(run, a, jobs'[a])
<1> DEFINE j == jobs[a]
           source == IF ValidManifest(run.probe) THEN GenerateSource([run.probe EXCEPT !.arch = a]) ELSE <<>>
           at == IF source = <<>> THEN "failure" ELSE "compile"
<1>1. /\ j.at = "generate" /\ j.actual = <<>>
      /\ DOMAIN j = {"at", "source", "object", "actual", "differences"}
  BY DEF GenerateProbe, At, JobFits, Compared
<1>2. jobs'[a] = [j EXCEPT !.source = source, !.at = at]
  BY DEF GenerateProbe
<1> HIDE DEF j, source
<1>3. jobs'[a].actual = <<>>
  BY <1>1, <1>2
<1> QED
  BY <1>3 DEF Compared

LEMMA MeasuresStep == ASSUME Workflow, Measures, [EvidenceNext]_allVars PROVE Measures'
<1>1. run' = run
  BY RunKept
<1>2. ASSUME NEW a \in Targets,
             GenerateProbe(a) \/ CompileProbe(a) \/ ExecuteProbe(a) \/ CompareProbe(a) \/ JobStops(a)
      PROVE  Measures'
  <2>1. /\ jobs = [b \in Targets |-> jobs[b]]
        /\ \A b \in Targets \ {a} : jobs'[b] = jobs[b]
    BY <1>2, JobChanges
  <2>2. (\A b \in Targets : JobFits(run, b, jobs[b])) /\ \A b \in Targets : Compared(run, b, jobs[b])
    <3>1. jobs # << >>
      <4>1. DOMAIN << >> = {} /\ DOMAIN jobs = Targets /\ a \in Targets
        BY <2>1
      <4> QED
        BY <4>1
    <3> QED
      BY <3>1 DEF Workflow, Measures
  <2>3. Compared(run, a, jobs'[a])
    <3>1. CASE GenerateProbe(a)
      BY <2>1, <2>2, <3>1, GeneratedKeeps
    <3>2. CASE CompileProbe(a)
      BY <2>1, <2>2, <3>2, CompiledKeeps
    <3>3. CASE ExecuteProbe(a)
      BY <2>1, <2>2, <3>3, ExecutedKeeps
    <3>4. CASE CompareProbe(a)
      BY <2>1, <2>2, <3>4, ComparedKeeps
    <3>5. CASE JobStops(a)
      <4>1. jobs'[a] = [NewJob EXCEPT !.at = "failure"]
        BY <2>1, <3>5 DEF JobStops
      <4>2. jobs'[a].at = "failure" /\ jobs'[a].actual = <<>>
        BY <4>1 DEF NewJob
      <4> QED
        BY <4>2 DEF Compared
    <3> QED
      BY <1>2, <3>1, <3>2, <3>3, <3>4, <3>5
  <2> QED
    BY <1>1, <2>1, <2>2, <2>3 DEF Measures
<1>3. CASE Verify
  BY <1>1, <1>3 DEF Verify, Measures
<1>4. CASE Verified
  <2>1. "amd64" \in DOMAIN jobs /\ jobs["amd64"].at = "verify"
    BY <1>4 DEF Verified, At
  <2>2. /\ jobs = [b \in Targets |-> jobs[b]] /\ "amd64" \in Targets
        /\ \A b \in Targets : JobFits(run, b, jobs[b]) /\ Compared(run, b, jobs[b])
    <3>1. DOMAIN << >> = {}
      OBVIOUS
    <3> QED
      BY <2>1, <3>1 DEF Workflow, Measures, Targets, Executed
  <2> DEFINE j == jobs["amd64"]
             at == IF result = "ok" THEN "success" ELSE "failure"
  <2>3. jobs' = [jobs EXCEPT !["amd64"] = [j EXCEPT !.at = at]]
    BY <1>4 DEF Verified
  <2>4. (\A b \in Targets \ {"amd64"} : jobs'[b] = jobs[b]) /\ jobs'["amd64"] = [j EXCEPT !.at = at]
    BY <2>2, <2>3
  <2>5. Compared(run, "amd64", j) /\ DOMAIN j = {"at", "source", "object", "actual", "differences"} /\ j.at = "verify"
    BY <2>1, <2>2 DEF JobFits
  <2>6. Compared(run, "amd64", jobs'["amd64"])
    <3> HIDE DEF j
    <3>1. /\ jobs'["amd64"].at = at /\ jobs'["amd64"].actual = j.actual /\ jobs'["amd64"].differences = j.differences
      BY <2>4, <2>5
    <3> QED
      BY <2>5, <3>1 DEF Compared, Printed, Told
  <2> QED
    BY <1>1, <2>2, <2>4, <2>6 DEF Measures
<1>5. CASE UNCHANGED allVars
  BY <1>1, <1>5 DEF allVars, Measures
<1> QED
  BY <1>2, <1>3, <1>4, <1>5 DEF EvidenceNext

-----------------------------------------------------------------------------
(* The two results of a comparison are sound: one was decoded, the other   *)
(* was printed, item by item, with the properties of its type.             *)
LEMMA PrintedTyped ==
  ASSUME Committed, NEW a, NEW compiler
  PROVE  LET file == RunSource(SourceOf(run, a), a, compiler) IN Typed(file) /\ Result(file.items)
<1> DEFINE file == RunSource(SourceOf(run, a), a, compiler)
<1>1. file.items = MeasuredBy(run, a) /\ file.wellFormed = TRUE
  BY ProbeFields DEF RunSource, MeasuredBy
<1>2. DOMAIN file = {"wellFormed", "arch", "source", "sdk", "profile", "manifest", "compiler", "items"}
  BY DEF RunSource
<1>3. Result(run.probe.items)
  BY CommittedRun
<1>4. Result(file.items)
  <2>1. Result({Emit(i, a) : i \in run.probe.items})
    BY <1>3, EmittedResult
  <2> QED
    BY <1>1, <2>1 DEF MeasuredBy
<1>5. ASSUME NEW i \in run.probe.items
      PROVE  /\ DOMAIN Emit(i, a) = ItemKeys(Emit(i, a).kind)
             /\ Emit(i, a).kind = "record" => \A f \in Emit(i, a).fields : DOMAIN f = {"id", "name", "offset"}
  <2>1. i.kind \in ListNames
    BY <1>3 DEF Result, Decoded
  <2>2. CASE i.kind = "record"
    <3> DEFINE native == Headers[a][i.name]
               member(f) == [id |-> f.id, name |-> f.name, offset |-> native.offset[f.name]]
               F == {member(f) : f \in i.fields}
               item == [kind |-> "record", id |-> i.id, name |-> i.name, shape |-> i.shape,
                        size |-> native.size, alignment |-> native.alignment, fields |-> F]
    <3>1. Emit(i, a) = item
      BY <2>2 DEF Emit
    <3>2. \A f \in F : DOMAIN f = {"id", "name", "offset"}
      OBVIOUS
    <3> HIDE DEF F
    <3>3. item.kind = "record" /\ item.fields = F
          /\ DOMAIN item = {"kind", "id", "name", "shape", "size", "alignment", "fields"}
      OBVIOUS
    <3>4. ItemKeys("record") = {"kind", "id", "name", "shape", "size", "alignment", "fields"}
      BY DEF ItemKeys
    <3> HIDE DEF item
    <3> QED
      BY <3>1, <3>2, <3>3, <3>4
  <2>3. CASE i.kind = "bitfield"
    BY <2>3 DEF Emit, ItemKeys
  <2>4. CASE i.kind = "function"
    BY <2>4 DEF Emit, ItemKeys
  <2>5. CASE i.kind = "vtable"
    BY <2>5 DEF Emit, ItemKeys
  <2>6. CASE i.kind \in {"value", "guid", "condition"}
    BY <2>6 DEF Emit, ItemKeys
  <2> QED
    BY <2>1, <2>2, <2>3, <2>4, <2>5, <2>6 DEF ListNames
<1> HIDE DEF file
<1>6. Typed(file)
  BY <1>1, <1>2, <1>5 DEF Typed, MeasuredBy
<1> QED
  BY <1>4, <1>6 DEF file

LEMMA BaselineOf ==
  ASSUME NEW c, run = RunOf(c), NEW a \in Executed
  PROVE  Expected(run, a) = c.baselines[a]
<1> DEFINE one == [arch |-> "386", required |-> TRUE, file |-> c.baselines["386"]]
           two == [arch |-> "amd64", required |-> TRUE, file |-> c.baselines["amd64"]]
<1>1. run.oracles = <<one, two>>
  BY DEF RunOf
<1>2. \A x, y : DOMAIN <<x, y>> = 1..2 /\ <<x, y>>[1] = x /\ <<x, y>>[2] = y
  OBVIOUS
<1>3. ToSet(run.oracles) = {one, two}
  <2> HIDE DEF one, two
  <2>1. ToSet(<<one, two>>) = {<<one, two>>[i] : i \in 1..2}
    BY <1>2 DEF ToSet
  <2> QED
    BY <1>1, <1>2, <2>1
<1>4. (CHOOSE o \in {one, two} : o.arch = "386") = one /\ (CHOOSE o \in {one, two} : o.arch = "amd64") = two
  OBVIOUS
<1> QED
  BY <1>3, <1>4 DEF Expected, Executed

LEMMA ExpectedTyped ==
  ASSUME Committed, NEW a \in Executed, Expected(run, a) # <<>>
  PROVE  Typed(Expected(run, a)[1]) /\ Result(Expected(run, a)[1].items)
<1>1. PICK c \in Commits : run = RunOf(c)
  BY DEF Committed
<1>2. Expected(run, a) = c.baselines[a]
  BY <1>1, BaselineOf
<1>3. Typed(c.baselines[a][1])
  BY <1>2, CommitsAssumption
<1> QED
  BY <1>2, <1>3, CommittedRun

(* Two results with the same items, by kind, ID and the IDs of their       *)
(* fields, are paired.                                                     *)
Labels(file) == {<<i.kind, i.id, IF i.kind = "record" THEN {f.id : f \in i.fields} ELSE {}>> : i \in file.items}

LEMMA LabelsPair ==
  ASSUME NEW e, NEW a, Items(e.items), Items(a.items), Labels(e) = Labels(a)
  PROVE  Paired(e.items, a.items)
<1> DEFINE Label(i) == <<i.kind, i.id, IF i.kind = "record" THEN {f.id : f \in i.fields} ELSE {}>>
<1>1. Labels(e) = {Label(i) : i \in e.items} /\ Labels(a) = {Label(i) : i \in a.items}
  BY DEF Labels
<1>2. ASSUME NEW x, NEW y, Label(x) = Label(y)
      PROVE  x.id = y.id /\ x.kind = y.kind /\ (x.kind = "record" => Matching(x.fields, y.fields))
  BY <1>2 DEF Matching
<1> HIDE DEF Label
<1> DEFINE L == Labels(e)
           M == Labels(a)
<1>3. ASSUME NEW x \in e.items PROVE \E y \in a.items : Label(x) = Label(y)
  <2>1. Label(x) \in L /\ L = M
    BY <1>1
  <2>2. \A l \in M : \E y \in a.items : l = Label(y)
    BY <1>1
  <2> HIDE DEF L, M
  <2> QED
    BY <2>1, <2>2
<1>4. ASSUME NEW y \in a.items PROVE \E x \in e.items : Label(x) = Label(y)
  <2>1. Label(y) \in M /\ L = M
    BY <1>1
  <2>2. \A l \in L : \E x \in e.items : Label(x) = l
    BY <1>1
  <2> HIDE DEF L, M
  <2> QED
    BY <2>1, <2>2
<1>5. Matching(e.items, a.items)
  BY <1>2, <1>3, <1>4 DEF Matching
<1>6. ASSUME NEW x \in e.items, NEW y \in a.items, x.id = y.id PROVE Label(x) = Label(y)
  <2>1. PICK z \in a.items : Label(x) = Label(z)
    BY <1>3
  <2>2. z.id = y.id
    BY <1>2, <1>6, <2>1
  <2> QED
    BY <2>1, <2>2 DEF Items, UniqueIds
<1> QED
  BY <1>2, <1>5, <1>6 DEF Paired

(* What a comparison reports are the facts that differ: none exactly when  *)
(* the two results say the same, and when they hold the same items, each   *)
(* fact once.                                                              *)
THEOREM DifferencesTold == EvidenceSpec => []DifferencesAreFacts
<1>1. EvidenceInit => Measures
  <2> SUFFICES ASSUME InitWorkflow PROVE Measures
    BY DEF EvidenceInit, Measures
  <2>1. \A a \in Targets : jobs[a].at = "generate" /\ jobs[a].actual = <<>>
    BY DEF InitWorkflow, NewJob
  <2> QED
    BY <2>1 DEF Measures, Compared
<1>2. Evident /\ Measures /\ [EvidenceNext]_allVars => Measures'
  BY MeasuresStep DEF Evident
<1>3. Evident /\ Measures => DifferencesAreFacts
  <2> SUFFICES ASSUME Evident, Measures, NEW a \in DOMAIN jobs,
                      jobs[a].actual # <<>>, jobs[a].at # "compare",
                      jobs[a].differences # {<<"invalid">>}
               PROVE  /\ (jobs[a].differences = {} /\ jobs[a].at # "failure") =>
                           /\ {k \in 1..5 : Provenance(Baseline(a)[1])[k] # Provenance(jobs[a].actual[1])[k]} = {}
                           /\ FactsOf(Baseline(a)[1]) = FactsOf(jobs[a].actual[1])
                      /\ (/\ {k \in 1..5 : Provenance(Baseline(a)[1])[k] # Provenance(jobs[a].actual[1])[k]} = {}
                          /\ FactsOf(Baseline(a)[1]) = FactsOf(jobs[a].actual[1])) => jobs[a].differences = {}
                      /\ (Labels(Baseline(a)[1]) = Labels(jobs[a].actual[1]) /\ jobs[a].differences # {}) =>
                           Cardinality(jobs[a].differences) =
                             Cardinality({k \in 1..5 : Provenance(Baseline(a)[1])[k] # Provenance(jobs[a].actual[1])[k]})
                               + Cardinality(FactsOf(Baseline(a)[1]) \ FactsOf(jobs[a].actual[1]))
    BY DEF DifferencesAreFacts, Labels
  <2> DEFINE expected == Expected(run, a)[1]
             actual == jobs[a].actual[1]
  <2>1. Committed /\ DOMAIN jobs = Targets /\ Compared(run, a, jobs[a])
    <3>1. jobs # << >>
      <4>1. DOMAIN << >> = {}
        OBVIOUS
      <4> QED
        BY <4>1
    <3> QED
      BY <3>1 DEF Evident, Workflow, Measures
  <2>2. a \in Executed /\ Printed(run, a, jobs[a]) /\ Told(run, a, jobs[a])
    BY <2>1 DEF Compared
  <2>3. /\ Expected(run, a) # <<>> /\ ValidResult(expected) /\ ValidResult(actual)
        /\ jobs[a].differences = CompareResults(expected, actual)
    BY <2>2 DEF Told
  <2>4. Typed(actual) /\ Result(actual.items)
    <3>1. PICK compiler : jobs[a].actual = <<RunSource(SourceOf(run, a), a, compiler)>>
      BY <2>2 DEF Printed
    <3>2. actual = RunSource(SourceOf(run, a), a, compiler)
      BY <3>1
    <3> QED
      BY <2>1, <3>2, PrintedTyped
  <2>5. Typed(expected) /\ Result(expected.items)
    BY <2>1, <2>2, <2>3, ExpectedTyped
  <2>6. Sound(expected) /\ Sound(actual)
    BY <2>3, <2>4, <2>5 DEF Sound
  <2>7. Baseline(a)[1] = expected
    BY DEF Baseline, Expected
  <2> HIDE DEF expected, actual
  <2>8. {k \in 1..5 : Provenance(expected)[k] # Provenance(actual)[k]} = Moved(expected, actual)
    BY DEF Moved
  <2>9. CompareResults(expected, actual) = {} => Moved(expected, actual) = {} /\ FactsOf(expected) = FactsOf(actual)
    BY <2>6, CleanAgrees
  <2>10. Moved(expected, actual) = {} /\ FactsOf(expected) = FactsOf(actual) => CompareResults(expected, actual) = {}
    BY <2>6, AgreeingIsClean
  <2>11. Labels(expected) = Labels(actual) =>
           Cardinality(CompareResults(expected, actual)) =
             Cardinality(Moved(expected, actual)) + Cardinality(FactsOf(expected) \ FactsOf(actual))
    BY <2>6, SoundItems, LabelsPair, ResultsCounted
  <2> QED
    BY <2>3, <2>7, <2>8, <2>9, <2>10, <2>11 DEF actual
<1> QED
  BY <1>1, <1>2, <1>3, Evidently, PTL DEF EvidenceSpec

-----------------------------------------------------------------------------
(* The complete symbols.                                                   *)

(* A set of numbers has a least one.                                       *)
LEMMA MinIn ==
  ASSUME NEW S \in SUBSET Nat, S # {}
  PROVE  Min(S) \in S /\ \A l \in S : Min(S) <= l
<1>1. PICK k \in S : \A l \in S : ~(<<l, k>> \in OpToRel(<, Nat))
  BY NatLessThanWellFounded, WFMin
<1>2. ASSUME NEW l \in S PROVE k <= l
  <2>1. l < k => <<l, k>> \in OpToRel(<, Nat)
    BY DEF OpToRel
  <2>2. ~(l < k)
    BY <1>1, <2>1
  <2>3. k \in Nat /\ l \in Nat
    OBVIOUS
  <2> QED
    BY <2>2, <2>3
<1> QED
  BY <1>2 DEF Min

(* What FirstAt finds is there.                                            *)
LEMMA FirstIn ==
  ASSUME NEW s, Listed(s), NEW I \in SUBSET DOMAIN s, FirstAt(s, I) # <<>>
  PROVE  \E n \in I : FirstAt(s, I) = <<s[n]>>
<1>1. I \in SUBSET Nat
  BY DEF Listed
<1>2. I # {} /\ FirstAt(s, I) = <<s[Min(I)]>>
  BY DEF FirstAt
<1>3. Min(I) \in I
  BY <1>1, <1>2, MinIn
<1> QED
  BY <1>2, <1>3

(* The native name a field is looked up by, besides its own.               *)
Called(f, native) == native \in {f.name, IF f.native = "" THEN f.name ELSE f.native}

LEMMA FieldFound ==
  ASSUME NEW fields, Listed(fields), NEW native, FindModelField(fields, native) # <<>>
  PROVE  \E i \in DOMAIN fields : FindModelField(fields, native) = <<fields[i]>> /\ Called(fields[i], native)
<1> DEFINE I == {i \in DOMAIN fields : Called(fields[i], native)}
<1>1. FindModelField(fields, native) = FirstAt(fields, I)
  BY DEF FindModelField, Called
<1>2. I \in SUBSET DOMAIN fields
  OBVIOUS
<1>3. PICK i \in I : FirstAt(fields, I) = <<fields[i]>>
  <2> HIDE DEF I
  <2> QED
    BY <1>1, <1>2, FirstIn
<1> QED
  BY <1>1, <1>3

LEMMA LayoutFound ==
  ASSUME NEW layouts, Listed(layouts), NEW arch, FindLayout(layouts, arch) # <<>>
  PROVE  \E i \in DOMAIN layouts : FindLayout(layouts, arch) = <<layouts[i]>>
<1> DEFINE I == {i \in DOMAIN layouts : layouts[i].arch = arch}
           J == {i \in DOMAIN layouts : layouts[i].arch \in Neutral}
<1>1. FindLayout(layouts, arch) \in {FirstAt(layouts, I), FirstAt(layouts, J)}
  BY DEF FindLayout
<1> QED
  BY <1>1, FirstIn

-----------------------------------------------------------------------------
(* C's layout.  A number, divided.                                         *)
LEMMA Multiples ==
  ASSUME NEW a \in Nat, a # 0, NEW q \in Nat
  PROVE  (a * q) % a = 0
OBVIOUS

LEMMA Apart ==
  ASSUME NEW a \in Nat, NEW p \in Nat, NEW q \in Nat, p < q
  PROVE  a * p + a <= a * q
<1>1. a * (p + 1) <= a * q
  OBVIOUS
<1> QED
  BY <1>1

LEMMA Divided ==
  ASSUME NEW v \in Nat, NEW a \in Nat, a # 0
  PROVE  \E q \in Nat, r \in 0..(a - 1) : v = a * q + r /\ v % a = r
<1>1. v % a \in 0..(a - 1)
  OBVIOUS
<1>2. v \div a \in Nat
  OBVIOUS
<1>3. v = a * (v \div a) + (v % a)
  OBVIOUS
<1> QED
  BY <1>1, <1>2, <1>3

(* The first multiple of an alignment from a place on is the only one      *)
(* before the next.                                                        *)
LEMMA AlignsUp ==
  ASSUME NEW v \in Nat, NEW a \in Nat, a # 0
  PROVE  /\ AlignUp(v, a) \in Nat
         /\ AlignUp(v, a) = CHOOSE o \in v..(v + a - 1) : o % a = 0
<1> DEFINE u == AlignUp(v, a)
<1>1. PICK q \in Nat, r \in 0..(a - 1) : v = a * q + r /\ v % a = r
  BY Divided
<1>2. \E p \in Nat : u = a * p
  <2>1. CASE r = 0
    <3>1. u = v
      BY <1>1, <2>1 DEF AlignUp
    <3> QED
      BY <1>1, <2>1, <3>1
  <2>2. CASE r # 0
    <3>1. u = v + a - r
      BY <1>1, <2>2 DEF AlignUp
    <3>2. u = a * q + a
      BY <1>1, <3>1
    <3>3. u = a * (q + 1)
      BY <3>2
    <3> QED
      BY <3>3
  <2> QED
    BY <2>1, <2>2
<1>3. u \in v..(v + a - 1)
  BY <1>1 DEF AlignUp
<1>4. u % a = 0
  BY <1>2, Multiples
<1>5. ASSUME NEW o \in v..(v + a - 1), o % a = 0 PROVE o = u
  <2>1. PICK p \in Nat : o = a * p
    <3>1. o \in Nat
      OBVIOUS
    <3>2. PICK p \in Nat, s \in 0..(a - 1) : o = a * p + s /\ o % a = s
      BY <3>1, Divided
    <3> QED
      BY <1>5, <3>2
  <2>2. PICK p2 \in Nat : u = a * p2
    BY <1>2
  <2>3. p < p2 => o + a <= u
    BY <2>1, <2>2, Apart
  <2>4. p2 < p => u + a <= o
    BY <2>1, <2>2, Apart
  <2> HIDE DEF u
  <2>5. p = p2
    BY <1>3, <2>3, <2>4
  <2> QED
    BY <2>1, <2>2, <2>5
<1> HIDE DEF u
<1> QED
  BY <1>3, <1>4, <1>5 DEF u

(* The size and the alignment of a type are those C gives it.              *)
LEMMA ElementAgrees ==
  ASSUME NEW type, ElementType(type), NEW arch \in Architectures, ElementLayout(type, arch) # <<>>
  PROVE  LET c == CElement(type, arch)
         IN  ElementLayout(type, arch) = <<c.size, c.alignment>> /\ c.size \in Nat /\ c.alignment \in Nat
<1>1. CASE type.class = "pointer"
  <2>1. ElementLayout(type, arch) = PointerLayout(arch) /\ CElement(type, arch) = [size |-> Word(arch), alignment |-> Word(arch)]
    BY <1>1 DEF ElementLayout, CElement
  <2>2. PointerLayout(arch) = <<Word(arch), Word(arch)>> /\ Word(arch) \in Nat
    BY DEF PointerLayout, Word, Architectures
  <2> QED
    BY <2>1, <2>2
<1>2. CASE type.class = "scalar"
  <2>1. /\ ElementLayout(type, arch) = <<type.bytes, type.bytes>>
        /\ CElement(type, arch) = [size |-> type.bytes, alignment |-> type.bytes]
    BY <1>2 DEF ElementLayout, CElement
  <2> QED
    BY <1>2, <2>1 DEF ElementType
<1>3. CASE type.class = "named"
  <2> DEFINE found == FindLayout(type.layouts, arch)
  <2>1. ElementLayout(type, arch) = (IF found = <<>> THEN <<>> ELSE <<found[1].size, found[1].alignment>>)
    BY <1>3 DEF ElementLayout
  <2>2. CElement(type, arch) = found[1]
    BY <1>3 DEF CElement
  <2>3. Listed(type.layouts) /\ \A l \in ToSet(type.layouts) : l.size \in Nat /\ l.alignment \in Nat
    BY <1>3 DEF ElementType
  <2>4. PICK i \in DOMAIN type.layouts : found = <<type.layouts[i]>>
    BY <2>1, <2>3, LayoutFound
  <2>5. found[1] \in ToSet(type.layouts)
    BY <2>4 DEF ToSet
  <2> HIDE DEF found
  <2> QED
    BY <2>1, <2>2, <2>3, <2>5
<1>4. CASE type.class \notin {"pointer", "scalar", "named"}
  BY <1>4 DEF ElementLayout
<1> QED
  BY <1>1, <1>2, <1>3, <1>4

Element(type) == IF type.class = "array" THEN type.element ELSE type

LEMMA TypeAgrees ==
  ASSUME NEW type, FieldType(type), NEW arch \in Architectures, TypeLayout(type, arch) # <<>>
  PROVE  /\ TypeLayout(type, arch) = <<CSize(type, arch), CElement(Element(type), arch).alignment>>
         /\ CSize(type, arch) \in Nat /\ CElement(Element(type), arch).alignment \in Nat
<1>1. CASE type.class # "array"
  <2>1. /\ TypeLayout(type, arch) = ElementLayout(type, arch) /\ Element(type) = type
        /\ CSize(type, arch) = CElement(type, arch).size
    BY <1>1 DEF TypeLayout, Element, CSize
  <2> QED
    BY <2>1, ElementAgrees DEF FieldType
<1>2. CASE type.class = "array"
  <2> DEFINE element == ElementLayout(type.element, arch)
             c == CElement(type.element, arch)
  <2>1. /\ TypeLayout(type, arch) = (IF element = <<>> THEN <<>> ELSE <<element[1] * type.length, element[2]>>)
        /\ Element(type) = type.element /\ CSize(type, arch) = type.length * c.size
    BY <1>2 DEF TypeLayout, Element, CSize
  <2>2. type.length \in Nat /\ ElementType(type.element)
    BY <1>2 DEF FieldType
  <2>3. element = <<c.size, c.alignment>> /\ c.size \in Nat /\ c.alignment \in Nat
    BY <2>1, <2>2, ElementAgrees
  <2> HIDE DEF element, c
  <2>4. c.size * type.length = type.length * c.size /\ type.length * c.size \in Nat
    BY <2>2, <2>3
  <2> QED
    BY <2>1, <2>3, <2>4 DEF c
<1> QED
  BY <1>1, <1>2

(* Each field at the first multiple of its alignment after the one before. *)
Places(n, a, size, end) ==
  /\ end \in [0..n -> Nat] /\ end[0] = 0
  /\ \A i \in 1..n : end[i] = AlignUp(end[i - 1], a[i]) + size[i]

LEMMA PlacesExist ==
  ASSUME NEW n \in Nat, NEW a \in [1..n -> Nat \ {0}], NEW size \in [1..n -> Nat]
  PROVE  \E end : Places(n, a, size, end)
<1> DEFINE S == {m \in 0..n : ~\E end : Places(m, a, size, end)}
<1>1. S \in SUBSET Nat
  OBVIOUS
<1>2. ASSUME S # {} PROVE FALSE
  <2>1. PICK m \in S : \A l \in S : m <= l
    BY <1>1, <1>2, MinIn
  <2>2. m \in 0..n /\ ~\E end : Places(m, a, size, end)
    OBVIOUS
  <2>3. CASE m = 0
    <3>1. [i \in 0..0 |-> 0] \in [0..0 -> Nat] /\ [i \in 0..0 |-> 0][0] = 0
      OBVIOUS
    <3>2. Places(0, a, size, [i \in 0..0 |-> 0])
      BY <3>1 DEF Places
    <3> QED
      BY <2>2, <2>3, <3>2
  <2>4. CASE m # 0
    <3>1. m - 1 \in 0..n /\ m - 1 \notin S /\ m \in 1..n
      BY <2>1, <2>2, <2>4
    <3>2. PICK h : Places(m - 1, a, size, h)
      BY <3>1
    <3> DEFINE top == AlignUp(h[m - 1], a[m]) + size[m]
               g == [i \in 0..m |-> IF i = m THEN top ELSE h[i]]
    <3>3. h \in [0..(m - 1) -> Nat] /\ h[0] = 0
      BY <3>2 DEF Places
    <3>4. h[m - 1] \in Nat /\ a[m] \in Nat /\ a[m] # 0 /\ size[m] \in Nat
      BY <3>1, <3>3
    <3>5. top \in Nat
      <4>1. AlignUp(h[m - 1], a[m]) \in Nat
        BY <3>4, AlignsUp
      <4> QED
        BY <3>4, <4>1
    <3>6. \A i \in 0..m : g[i] \in Nat
      <4> HIDE DEF top
      <4> QED
        BY <3>1, <3>3, <3>5
    <3>7. g \in [0..m -> Nat] /\ g[0] = 0
      BY <3>1, <3>3, <3>6
    <3>8. ASSUME NEW i \in 1..m PROVE g[i] = AlignUp(g[i - 1], a[i]) + size[i]
      <4>1. i \in 0..m /\ i - 1 \in 0..m /\ i - 1 # m
        BY <3>1
      <4>2. g[i - 1] = h[i - 1]
        BY <4>1
      <4>3. CASE i = m
        BY <4>1, <4>2, <4>3
      <4>4. CASE i # m
        <5>1. i \in 1..(m - 1)
          BY <3>1, <4>4
        <5> QED
          BY <3>2, <4>1, <4>2, <4>4, <5>1 DEF Places
      <4> QED
        BY <4>3, <4>4
    <3> HIDE DEF g
    <3>9. Places(m, a, size, g)
      BY <3>7, <3>8 DEF Places
    <3> QED
      BY <2>2, <3>9
  <2> QED
    BY <2>3, <2>4
<1>3. n \in 0..n
  OBVIOUS
<1> QED
  BY <1>2, <1>3

(* A function that is defined along the numbers by what holds of another   *)
(* one is that one.                                                        *)
LEMMA OffsetsAgree ==
  ASSUME NEW fields, Listed(fields), \A f \in ToSet(fields) : FieldType(f.type),
         NEW pack \in Nat, NEW arch \in Architectures, NEW o \in DerivedOffsets(fields, pack, arch)
  PROVE  \E i \in DOMAIN fields : o = <<fields[i].name, COffsets(fields, pack, arch)[i]>>
<1> DEFINE n == Len(fields)
           layouts == [i \in DOMAIN fields |-> TypeLayout(fields[i].type, arch)]
           known == \A i \in DOMAIN fields : fields[i].bits = <<>> /\ layouts[i] # <<>> /\ layouts[i][2] # 0
           alignment(i) == IF pack # 0 /\ layouts[i][2] > pack THEN pack ELSE layouts[i][2]
           IsEnd(f) == f = [i \in 0..n |-> IF i = 0 THEN 0 ELSE AlignUp(f[i - 1], alignment(i)) + layouts[i][1]]
           end == CHOOSE f : IsEnd(f)
           a == [i \in 1..n |-> CAlignment(fields[i].type, pack, arch)]
           size == [i \in 1..n |-> CSize(fields[i].type, arch)]
           IsAt(f) == f = [i \in DOMAIN fields |->
                           LET free == IF i = 1 THEN 0 ELSE f[i - 1] + CSize(fields[i - 1].type, arch)
                               b == CAlignment(fields[i].type, pack, arch)
                           IN CHOOSE v \in free..free + b - 1 : v % b = 0]
           at == CHOOSE f : IsAt(f)
<1>1. n \in Nat /\ DOMAIN fields = 1..n
  BY DEF Listed
<1>2. DerivedOffsets(fields, pack, arch) =
        IF known THEN {<<fields[i].name, AlignUp(end[i - 1], alignment(i))>> : i \in DOMAIN fields} ELSE {}
  BY DEF DerivedOffsets
<1>3. COffsets(fields, pack, arch) = at
  BY DEF COffsets
<1>4. known
  BY <1>2
<1>5. ASSUME NEW i \in 1..n
      PROVE  /\ a[i] \in Nat /\ a[i] # 0 /\ alignment(i) = a[i]
             /\ size[i] \in Nat /\ layouts[i][1] = size[i]
  <2> DEFINE type == fields[i].type
             own == CElement(Element(type), arch).alignment
  <2>1. layouts[i] = TypeLayout(type, arch) /\ layouts[i] # <<>> /\ layouts[i][2] # 0 /\ FieldType(type)
    BY <1>1, <1>4 DEF ToSet
  <2>2. TypeLayout(type, arch) = <<CSize(type, arch), own>> /\ CSize(type, arch) \in Nat /\ own \in Nat
    BY <2>1, TypeAgrees
  <2>3. layouts[i][1] = CSize(type, arch) /\ layouts[i][2] = own /\ own # 0
    BY <2>1, <2>2
  <2>4. size[i] = CSize(type, arch) /\ a[i] = CAlignment(type, pack, arch)
    OBVIOUS
  <2>5. CAlignment(type, pack, arch) = IF pack = 0 THEN own ELSE Min({pack, own})
    BY DEF CAlignment, Element
  <2>6. Min({pack, own}) = IF own > pack THEN pack ELSE own
    <3>1. {pack, own} \in SUBSET Nat /\ {pack, own} # {} /\ pack \in {pack, own} /\ own \in {pack, own}
      BY <2>2
    <3>2. Min({pack, own}) \in {pack, own} /\ Min({pack, own}) <= pack /\ Min({pack, own}) <= own
      BY <3>1, MinIn
    <3> HIDE DEF own
    <3> QED
      BY <2>2, <3>2
  <2> HIDE DEF own, type, layouts, a, size
  <2>7. a[i] = alignment(i)
    BY <2>2, <2>3, <2>4, <2>5, <2>6
  <2>8. a[i] \in Nat /\ a[i] # 0
    BY <2>2, <2>3, <2>4, <2>5, <2>6
  <2> QED
    BY <2>2, <2>3, <2>4, <2>7, <2>8
<1>6. a \in [1..n -> Nat \ {0}] /\ size \in [1..n -> Nat]
  BY <1>5
<1>7. PICK e : Places(n, a, size, e)
  BY <1>1, <1>6, PlacesExist
<1>8. /\ e \in [0..n -> Nat] /\ e[0] = 0
      /\ \A i \in 1..n : e[i] = AlignUp(e[i - 1], a[i]) + size[i]
  BY <1>7 DEF Places
<1> HIDE DEF alignment, layouts, a, size, known
<1>9. ASSUME NEW i \in 0..n PROVE end[i] = e[i]
  <2>1. IsEnd(e)
    <3>1. \A j \in 0..n : e[j] = IF j = 0 THEN 0 ELSE AlignUp(e[j - 1], alignment(j)) + layouts[j][1]
      <4>1. \A j \in 0..n : j = 0 \/ j \in 1..n
        BY <1>1
      <4> QED
        BY <1>5, <1>8, <4>1
    <3> QED
      BY <1>8, <3>1
  <2>2. IsEnd(end)
    <3> HIDE DEF IsEnd
    <3> QED
      BY <2>1
  <2> HIDE DEF end
  <2>3. /\ end[0] = 0
        /\ \A j \in 1..n : end[j] = AlignUp(end[j - 1], a[j]) + size[j]
    <3>1. \A j \in 0..n : end[j] = IF j = 0 THEN 0 ELSE AlignUp(end[j - 1], alignment(j)) + layouts[j][1]
      BY <2>2
    <3>2. 0 \in 0..n /\ \A j \in 1..n : j \in 0..n /\ j # 0
      BY <1>1
    <3> HIDE DEF IsEnd
    <3> QED
      BY <1>5, <3>1, <3>2
  <2> DEFINE S == {j \in 0..n : end[j] # e[j]}
  <2>4. ASSUME S # {} PROVE FALSE
    <3>1. S \in SUBSET Nat
      BY <1>1
    <3>2. PICK m \in S : \A l \in S : m <= l
      BY <2>4, <3>1, MinIn
    <3>3. m \in 0..n /\ end[m] # e[m]
      OBVIOUS
    <3>4. m # 0
      BY <1>8, <2>3, <3>3
    <3>5. m - 1 \in 0..n /\ m - 1 \notin S /\ m \in 1..n
      BY <1>1, <3>2, <3>3, <3>4
    <3>6. end[m - 1] = e[m - 1]
      BY <3>5
    <3> QED
      BY <1>8, <2>3, <3>3, <3>5, <3>6
  <2> QED
    BY <2>4
<1> HIDE DEF end
<1> DEFINE A == [i \in 1..n |-> AlignUp(e[i - 1], a[i])]
           Lowest(free, b) == CHOOSE v \in free..(free + b - 1) : v % b = 0
<1>10. ASSUME NEW i \in 1..n PROVE A[i] = Lowest(e[i - 1], a[i])
  <2>1. i - 1 \in 0..n
    BY <1>1
  <2>2. e[i - 1] \in Nat /\ a[i] \in Nat /\ a[i] # 0
    BY <1>5, <1>8, <2>1
  <2> QED
    BY <2>2, AlignsUp
<1>11. ASSUME NEW i \in 1..n PROVE i # 1 => e[i - 1] = A[i - 1] + size[i - 1]
  <2>1. i # 1 => i - 1 \in 1..n
    BY <1>1
  <2> QED
    BY <1>8, <2>1
<1>12. \A f : IsAt(f) <=> f = [i \in 1..n |-> Lowest(IF i = 1 THEN 0 ELSE f[i - 1] + size[i - 1], a[i])]
  <2>1. \A i \in 1..n : a[i] = CAlignment(fields[i].type, pack, arch) /\ size[i] = CSize(fields[i].type, arch)
    BY DEF a, size
  <2>2. \A i \in 1..n : i # 1 => i - 1 \in 1..n
    BY <1>1
  <2>3. ASSUME NEW f PROVE
          \A i \in 1..n : Lowest(IF i = 1 THEN 0 ELSE f[i - 1] + size[i - 1], a[i])
             = Lowest(IF i = 1 THEN 0 ELSE f[i - 1] + CSize(fields[i - 1].type, arch), CAlignment(fields[i].type, pack, arch))
    <3> HIDE DEF Lowest
    <3> QED
      BY <2>1, <2>2
  <2>4. ASSUME NEW f
        PROVE  IsAt(f) <=> f = [i \in 1..n |-> Lowest(IF i = 1 THEN 0 ELSE f[i - 1] + size[i - 1], a[i])]
    <3> DEFINE C == [i \in DOMAIN fields |->
                       Lowest(IF i = 1 THEN 0 ELSE f[i - 1] + CSize(fields[i - 1].type, arch), CAlignment(fields[i].type, pack, arch))]
               D == [i \in 1..n |-> Lowest(IF i = 1 THEN 0 ELSE f[i - 1] + size[i - 1], a[i])]
    <3>1. IsAt(f) <=> f = C
      BY Zenon
    <3>2. C = D
      <4> HIDE DEF Lowest
      <4> QED
        BY <1>1, <2>3
    <3> HIDE DEF C, IsAt
    <3> QED
      BY <3>1, <3>2
  <2> HIDE DEF IsAt, Lowest
  <2> QED
    BY <2>4
<1> HIDE DEF Lowest, IsAt
<1>13. IsAt(A)
  <2>1. \A i \in 1..n : A[i] = Lowest(IF i = 1 THEN 0 ELSE A[i - 1] + size[i - 1], a[i])
    <3>1. e[0] = 0
      BY <1>8
    <3>2. 1 - 1 = 0
      OBVIOUS
    <3> HIDE DEF A
    <3> QED
      BY <1>10, <1>11, <3>1, <3>2
  <2> QED
    BY <1>12, <2>1
<1>14. IsAt(at)
  BY <1>13
<1> HIDE DEF at
<1>15. ASSUME NEW i \in 1..n PROVE at[i] = A[i]
  <2>1. \A j \in 1..n : at[j] = Lowest(IF j = 1 THEN 0 ELSE at[j - 1] + size[j - 1], a[j])
    <3>1. at = [j \in 1..n |-> Lowest(IF j = 1 THEN 0 ELSE at[j - 1] + size[j - 1], a[j])]
      BY <1>12, <1>14
    <3> QED
      BY <3>1
  <2>2. \A j \in 1..n : A[j] = Lowest(IF j = 1 THEN 0 ELSE A[j - 1] + size[j - 1], a[j])
    <3>1. A = [j \in 1..n |-> Lowest(IF j = 1 THEN 0 ELSE A[j - 1] + size[j - 1], a[j])]
      BY <1>12, <1>13
    <3> HIDE DEF A
    <3> QED
      BY <3>1
  <2> HIDE DEF A
  <2> DEFINE S == {j \in 1..n : at[j] # A[j]}
  <2>3. ASSUME S # {} PROVE FALSE
    <3>1. S \in SUBSET Nat
      BY <1>1
    <3>2. PICK m \in S : \A l \in S : m <= l
      BY <2>3, <3>1, MinIn
    <3>3. m \in 1..n /\ at[m] # A[m]
      OBVIOUS
    <3>4. m # 1
      BY <2>1, <2>2, <3>3
    <3>5. m - 1 \in 1..n /\ m - 1 \notin S
      BY <1>1, <3>2, <3>3, <3>4
    <3>6. at[m - 1] = A[m - 1]
      BY <3>5
    <3> QED
      BY <2>1, <2>2, <3>3, <3>6
  <2> QED
    BY <2>3
<1>16. PICK i \in 1..n : o = <<fields[i].name, AlignUp(end[i - 1], alignment(i))>>
  BY <1>1, <1>2, <1>4
<1>17. AlignUp(end[i - 1], alignment(i)) = A[i]
  <2>1. i - 1 \in 0..n
    BY <1>1
  <2> QED
    BY <1>5, <1>9, <2>1
<1> QED
  BY <1>1, <1>3, <1>15, <1>16, <1>17

(* The offset a record's fields are compared with is one C gives a field   *)
(* of that name.                                                           *)
LEMMA NamesAlike ==
  ASSUME NEW f, NEW native, Called(f, native) PROVE native \in {f.name, f.native}
BY DEF Called

LEMMA OffsetDeclared ==
  ASSUME NEW type, DeclaredType(type), NEW arch \in Architectures, FindLayout(type.layouts, arch) # <<>>,
         NEW field, NEW i \in DOMAIN type.fields, Called(type.fields[i], field.name),
         NEW o \in RecordOffsets(type, FindLayout(type.layouts, arch)[1], arch),
         o[1] = type.fields[i].name, o[2] = field.offset
  PROVE  Declares(type, field, arch)
<1> DEFINE layout == FindLayout(type.layouts, arch)[1]
           fields == type.fields
           names(j) == {fields[j].name, fields[j].native}
           placed == IF layout.fields # <<>> THEN \E l \in ToSet(layout.fields) : l.name \in names(i) /\ l.offset = field.offset
                     ELSE field.offset = IF type.kind = "union" THEN 0 ELSE COffsets(fields, layout.pack, arch)[i]
<1>1. field.name \in names(i)
  BY NamesAlike
<1>2. Listed(fields) /\ \A j, k \in DOMAIN fields : fields[j].name = fields[k].name => j = k
  BY DEF DeclaredType
<1>3. layout \in ToSet(type.layouts)
  <2>1. PICK k \in DOMAIN type.layouts : FindLayout(type.layouts, arch) = <<type.layouts[k]>>
    BY LayoutFound DEF DeclaredType
  <2> QED
    BY <2>1 DEF ToSet
<1>4. Listed(layout.fields) /\ layout.pack \in Nat
  BY <1>3 DEF DeclaredType
<1>5. placed => Declares(type, field, arch)
  BY <1>1 DEF Declares
<1> HIDE DEF layout, fields
<1>6. o \in RecordOffsets(type, layout, arch) /\ o[1] = fields[i].name /\ i \in DOMAIN fields
  BY DEF layout, fields
<1>7. CASE layout.fields # <<>>
  <2> DEFINE Found(l) == FindModelField(fields, l.name)
             Offsets(l) == {<<l.name, l.offset>>} \cup {<<Found(l)[j].name, l.offset>> : j \in DOMAIN Found(l)}
  <2>1. RecordOffsets(type, layout, arch) = UNION {Offsets(layout.fields[k]) : k \in DOMAIN layout.fields}
    BY <1>7 DEF RecordOffsets, fields
  <2>2. PICK k \in DOMAIN layout.fields : o \in Offsets(layout.fields[k])
    BY <1>6, <2>1
  <2> DEFINE l == layout.fields[k]
  <2>3. l \in ToSet(layout.fields)
    BY DEF ToSet
  <2> HIDE DEF l
  <2>4. o \in Offsets(l)
    BY <2>2 DEF l
  <2>5. l.name \in names(i) /\ l.offset = field.offset
    <3>1. CASE o = <<l.name, l.offset>>
      BY <1>6, <3>1
    <3>2. CASE o \in {<<Found(l)[j].name, l.offset>> : j \in DOMAIN Found(l)}
      <4>1. PICK j \in DOMAIN Found(l) : o = <<Found(l)[j].name, l.offset>>
        BY <3>2
      <4>2. Found(l) # <<>>
        BY <4>1
      <4>3. PICK m \in DOMAIN fields : Found(l) = <<fields[m]>> /\ Called(fields[m], l.name)
        BY <1>2, <4>2, FieldFound
      <4>4. j = 1 /\ Found(l)[j] = fields[m]
        BY <4>1, <4>3
      <4>5. o[1] = fields[m].name /\ o[2] = l.offset
        BY <4>1, <4>4
      <4>6. m = i
        BY <1>2, <1>6, <4>5
      <4>7. l.name \in names(i)
        BY <4>3, <4>6, NamesAlike
      <4> QED
        BY <4>5, <4>7
    <3> QED
      BY <2>4, <3>1, <3>2
  <2> QED
    BY <1>5, <1>7, <2>3, <2>5
<1>8. CASE layout.fields = <<>> /\ type.kind = "union"
  <2>1. o \in {<<fields[j].name, 0>> : j \in DOMAIN fields}
    BY <1>6, <1>8 DEF RecordOffsets, fields
  <2>2. o[2] = 0
    BY <2>1
  <2> QED
    BY <1>5, <1>8, <2>2
<1>9. CASE layout.fields = <<>> /\ type.kind = "struct"
  <2>1. o \in DerivedOffsets(fields, layout.pack, arch)
    BY <1>6, <1>9 DEF RecordOffsets, fields
  <2>2. \A f \in ToSet(fields) : FieldType(f.type)
    BY DEF DeclaredType, fields
  <2>3. PICK j \in DOMAIN fields : o = <<fields[j].name, COffsets(fields, layout.pack, arch)[j]>>
    BY <1>2, <1>4, <2>1, <2>2, OffsetsAgree
  <2>4. j = i
    BY <1>2, <1>6, <2>3
  <2> QED
    BY <1>5, <1>9, <2>3, <2>4
<1>10. CASE layout.fields = <<>> /\ type.kind \notin {"union", "struct"}
  BY <1>6, <1>10 DEF RecordOffsets
<1> QED
  BY <1>7, <1>8, <1>9, <1>10

-----------------------------------------------------------------------------
(* A comparison that leaves nothing unmatched and finds nothing different. *)
Whole(says) == \A i \in DOMAIN says : says[i].outcome \notin {"unmatched", "mismatched"}
IsList(s)   == \E V : s \in Seq(V)

LEMMA WholeParts ==
  ASSUME NEW s, NEW t, IsList(s), IsList(t)
  PROVE  IsList(s \o t) /\ (Whole(s \o t) => Whole(s) /\ Whole(t))
<1>1. PICK V : s \in Seq(V)
  BY DEF IsList
<1>2. PICK W : t \in Seq(W)
  BY DEF IsList
<1>3. /\ s \o t \in Seq(V \cup W) /\ Len(s) \in Nat /\ Len(t) \in Nat
      /\ DOMAIN (s \o t) = 1..(Len(s) + Len(t))
      /\ \A i \in 1..Len(s) : (s \o t)[i] = s[i]
      /\ \A i \in 1..Len(t) : (s \o t)[Len(s) + i] = t[i]
  BY <1>1, <1>2, ConcatSays, LenProperties
<1>4. DOMAIN s = 1..Len(s) /\ DOMAIN t = 1..Len(t)
  BY <1>1, <1>2, LenProperties
<1> DEFINE c == s \o t
<1> HIDE DEF c
<1>5. ASSUME Whole(c), NEW i \in DOMAIN s PROVE s[i].outcome \notin {"unmatched", "mismatched"}
  <2>1. i \in DOMAIN c /\ c[i] = s[i]
    BY <1>3, <1>4 DEF c
  <2> QED
    BY <1>5, <2>1 DEF Whole
<1>6. ASSUME Whole(c), NEW i \in DOMAIN t PROVE t[i].outcome \notin {"unmatched", "mismatched"}
  <2>1. Len(s) + i \in DOMAIN c /\ c[Len(s) + i] = t[i]
    BY <1>3, <1>4 DEF c
  <2> QED
    BY <1>6, <2>1 DEF Whole
<1> QED
  BY <1>3, <1>5, <1>6 DEF c, IsList, Whole

LEMMA WholeEqual ==
  ASSUME NEW fact, NEW expected, NEW actual
  PROVE  /\ IsList(Equal(fact, expected, actual))
         /\ Whole(Equal(fact, expected, actual)) => expected = actual
<1>1. Equal(fact, expected, actual) = <<SaysEqual(fact, expected, actual)>>
  BY DEF Equal
<1>2. SaysEqual(fact, expected, actual).outcome = IF expected = actual THEN "matched" ELSE "mismatched"
  BY DEF SaysEqual, Says
<1> DEFINE e == SaysEqual(fact, expected, actual)
<1> HIDE DEF e
<1>3. <<e>> \in Seq({e}) /\ 1 \in DOMAIN <<e>> /\ <<e>>[1] = e
  OBVIOUS
<1> QED
  BY <1>1, <1>2, <1>3 DEF e, IsList, Whole

LEMMA WholeSays ==
  ASSUME NEW fact, NEW outcome
  PROVE  /\ IsList(<<Says(fact, outcome)>>)
         /\ Whole(<<Says(fact, outcome)>>) => outcome \notin {"unmatched", "mismatched"}
<1> DEFINE e == Says(fact, outcome)
<1>1. e.outcome = outcome
  BY DEF Says
<1> HIDE DEF e
<1>2. <<e>> \in Seq({e}) /\ 1 \in DOMAIN <<e>> /\ <<e>>[1] = e
  OBVIOUS
<1> QED
  BY <1>1, <1>2 DEF e, IsList, Whole

LEMMA UnmatchedIsNotWhole ==
  ASSUME NEW item, Countable(item)
  PROVE  IsList(UnmatchedMany(item)) /\ ~Whole(UnmatchedMany(item))
<1>1. PICK n \in Nat : DOMAIN Facts(item) = 1..n /\ FactCount(item) = n
  BY FactsDistinct
<1>2. n # 0
  <2>1. item.kind = "record" => Cardinality(item.fields) \in Nat
    BY ListingOnce DEF Countable
  <2> QED
    BY <1>1, <2>1 DEF FactCount
<1> DEFINE U == UnmatchedMany(item)
           V == [fact : {Facts(item)[i] : i \in 1..n}, outcome : {"unmatched"}]
<1>3. U \in Seq(V) /\ Len(U) = n
  BY <1>1, UnmatchedTells
<1>4. 1 \in DOMAIN U /\ U[1] \in V
  <2> HIDE DEF U, V
  <2>1. DOMAIN U = 1..n /\ 1 \in 1..n
    BY <1>2, <1>3, LenProperties
  <2> QED
    BY <1>3, <2>1, ElementOfSeq
<1>5. U[1].outcome = "unmatched"
  BY <1>4
<1> HIDE DEF U, V
<1> QED
  BY <1>3, <1>4, <1>5 DEF U, IsList, Whole

(* A record of which nothing differs is declared as it was measured.       *)
LEMMA FieldDeclared ==
  ASSUME NEW type, DeclaredType(type), NEW arch \in Architectures, FindLayout(type.layouts, arch) # <<>>, NEW field,
         CompareField(type, RecordOffsets(type, FindLayout(type.layouts, arch)[1], arch), field).outcome
           \notin {"unmatched", "mismatched"}
  PROVE  Declares(type, field, arch)
<1> DEFINE offsets == RecordOffsets(type, FindLayout(type.layouts, arch)[1], arch)
           found == FindModelField(type.fields, field.name)
           known == IF found = <<>> THEN {} ELSE {o \in offsets : o[1] = found[1].name}
           fact == <<"offset", field.id>>
           o == CHOOSE x \in known : TRUE
<1>1. CompareField(type, offsets, field) =
        IF known = {} THEN Says(fact, "unmatched") ELSE SaysEqual(fact, field.offset, o[2])
  BY DEF CompareField
<1>2. CompareField(type, offsets, field).outcome \notin {"unmatched", "mismatched"}
  OBVIOUS
<1> HIDE DEF offsets, known, o, fact
<1>3. known # {} /\ field.offset = o[2]
  BY <1>1, <1>2 DEF SaysEqual, Says
<1>4. o \in known
  BY <1>3 DEF o
<1>5. found # <<>> /\ o \in offsets /\ o[1] = found[1].name
  BY <1>4 DEF known
<1>6. PICK i \in DOMAIN type.fields : found = <<type.fields[i]>> /\ Called(type.fields[i], field.name)
  BY <1>5, FieldFound DEF DeclaredType
<1>7. o[1] = type.fields[i].name
  BY <1>5, <1>6
<1> HIDE DEF found
<1> QED
  BY <1>3, <1>5, <1>6, <1>7, OffsetDeclared DEF offsets

LEMMA RecordDescribed ==
  ASSUME NEW symbol, DeclaredType(symbol.type[1]), NEW item, item.kind = "record", Countable(item),
         NEW arch \in Architectures, NEW probe, Whole(CompareRecord(symbol, item, arch))
  PROVE  Describes(symbol, item, probe, arch)
<1> DEFINE record == symbol.type[1]
           kind == IF symbol.kind = "guid" THEN "struct" ELSE record.kind
           layout == FindLayout(record.layouts, arch)
           offsets == RecordOffsets(record, layout[1], arch)
           fields == SetToSeq(item.fields)
           n == Cardinality(item.fields)
           size == Equal(<<"size">>, item.size, layout[1].size)
           alignment == Equal(<<"alignment">>, item.alignment, layout[1].alignment)
           compared == [i \in DOMAIN fields |-> CompareField(record, offsets, fields[i])]
           first == <<Says(<<"kind">>, "kind")>>
           rest == UnmatchedMany(item)
<1>1. CompareRecord(symbol, item, arch) =
        IF kind # item.shape THEN first \o rest ELSE IF layout = <<>> THEN rest ELSE size \o alignment \o compared
  BY DEF CompareRecord
<1>2. n \in Nat /\ DOMAIN fields = 1..n /\ \A f \in item.fields : \E i \in 1..n : fields[i] = f
  BY ListingOnce DEF Countable
<1>3. /\ IsList(size) /\ (Whole(size) => item.size = layout[1].size)
      /\ IsList(alignment) /\ (Whole(alignment) => item.alignment = layout[1].alignment)
      /\ IsList(first)
  <2> HIDE DEF layout
  <2>1. IsList(size) /\ (Whole(size) => item.size = layout[1].size)
    BY WholeEqual
  <2>2. IsList(alignment) /\ (Whole(alignment) => item.alignment = layout[1].alignment)
    BY WholeEqual
  <2>3. IsList(first)
    BY WholeSays
  <2> QED
    BY <2>1, <2>2, <2>3
<1>4. IsList(compared)
  <2>1. DOMAIN compared = 1..n /\ compared = [i \in 1..n |-> compared[i]]
    BY <1>2
  <2> HIDE DEF compared, n
  <2> QED
    BY <1>2, <2>1, ValuesSeq DEF IsList
<1>5. \A i \in 1..n : compared[i] = CompareField(record, offsets, fields[i])
  BY <1>2
<1>6. IsList(rest) /\ ~Whole(rest)
  BY UnmatchedIsNotWhole
<1> HIDE DEF kind, layout, offsets, fields, n, size, alignment, compared, first, rest
<1>7. ~Whole(first \o rest)
  BY <1>3, <1>6, WholeParts
<1>8. layout # <<>> /\ Whole(size \o alignment \o compared)
  BY <1>1, <1>6, <1>7
<1>9. Whole(size) /\ Whole(alignment) /\ Whole(compared)
  <2>1. IsList(size \o alignment) /\ (Whole(size \o alignment) => Whole(size) /\ Whole(alignment))
    BY <1>3, WholeParts
  <2>2. Whole(size \o alignment) /\ Whole(compared)
    BY <1>4, <1>8, <2>1, WholeParts
  <2> QED
    BY <2>1, <2>2
<1>10. \E l \in ToSet(record.layouts) : l.size = item.size /\ l.alignment = item.alignment
  <2>1. PICK k \in DOMAIN record.layouts : layout = <<record.layouts[k]>>
    BY <1>8, LayoutFound DEF layout, DeclaredType
  <2>2. layout[1] \in ToSet(record.layouts)
    BY <2>1 DEF ToSet
  <2> QED
    BY <1>3, <1>9, <2>2
<1>11. ASSUME NEW f \in item.fields PROVE Declares(record, f, arch)
  <2>1. PICK i \in 1..n : fields[i] = f
    BY <1>2
  <2>2. DOMAIN compared = 1..n
    BY <1>2 DEF compared
  <2>3. CompareField(record, offsets, f).outcome \notin {"unmatched", "mismatched"}
    BY <1>5, <1>9, <2>1, <2>2 DEF Whole
  <2> QED
    BY <1>8, <2>3, FieldDeclared DEF layout, offsets
<1> QED
  BY <1>10, <1>11 DEF Describes

LEMMA ConstantDescribed ==
  ASSUME NEW symbol, AtMostOne(symbol.constant), symbol.constant # <<>>, AtMostOne(symbol.constant[1]),
         NEW item, item.kind = "value", NEW arch, NEW probe, Whole(CompareConstant(symbol, item))
  PROVE  Describes(symbol, item, probe, arch)
<1>1. Countable(item)
  BY DEF Countable
<1>2. symbol.constant[1] # <<>>
  BY <1>1, UnmatchedIsNotWhole DEF CompareConstant
<1>3. Whole(Equal(<<"value">>, item.value, symbol.constant[1][1]))
  BY <1>2 DEF CompareConstant
<1>4. item.value = symbol.constant[1][1]
  BY <1>3, WholeEqual
<1> QED
  BY <1>2, <1>4 DEF Describes, AtMostOne

LEMMA GuidDescribed ==
  ASSUME NEW symbol, AtMostOne(symbol.guid), symbol.guid # <<>>,
         NEW item, item.kind = "guid", NEW arch, NEW probe, Whole(Equal(<<"value">>, item.value, symbol.guid[1]))
  PROVE  Describes(symbol, item, probe, arch)
<1>1. item.value = symbol.guid[1]
  BY WholeEqual
<1> QED
  BY <1>1 DEF Describes, AtMostOne

LEMMA VTableDescribed ==
  ASSUME NEW symbol, DeclaredType(symbol.type[1]), NEW item, item.kind = "vtable", NEW arch, NEW probe,
         Whole(CompareVTable(symbol, item))
  PROVE  Describes(symbol, item, probe, arch)
<1> DEFINE methods == symbol.type[1].methods
           I == {i \in DOMAIN methods : methods[i].name = item.method}
           found == FirstAt(methods, I)
<1>1. CompareVTable(symbol, item) =
        IF found = <<>> THEN UnmatchedMany(item) ELSE Equal(<<"index">>, item.index, found[1].index)
  BY DEF CompareVTable
<1>2. Countable(item)
  BY DEF Countable
<1>3. Listed(methods)
  BY DEF DeclaredType
<1> HIDE DEF found
<1>4. found # <<>>
  BY <1>1, <1>2, UnmatchedIsNotWhole
<1>5. PICK n \in I : found = <<methods[n]>>
  BY <1>3, <1>4, FirstIn DEF found
<1>6. item.index = methods[n].index
  <2>1. item.index = found[1].index
    BY <1>1, <1>4, WholeEqual
  <2> QED
    BY <1>5, <2>1
<1>7. methods[n] \in ToSet(methods) /\ methods[n].name = item.method
  BY <1>5 DEF ToSet
<1> QED
  BY <1>6, <1>7 DEF Describes

LEMMA FunctionDescribed ==
  ASSUME NEW symbol, NEW item, item.kind = "function", NEW arch, NEW probe, Whole(CompareFunction(symbol, item, probe))
  PROVE  Describes(symbol, item, probe, arch)
<1> DEFINE function == symbol.function[1]
           convention == IF CallingConventionEquivalent(function.convention, item.convention) THEN "matched" ELSE "mismatched"
           type == IF probe.expectedType = function.shape /\ item.typeCompatible THEN "matched" ELSE "mismatched"
           outcome == IF probe.expectedType = <<>> \/ function.shape = <<>> THEN "unmatched" ELSE type
           first == <<Says(<<"callingConvention">>, convention)>>
           second == <<Says(<<"typeCompatible">>, outcome)>>
<1>1. CompareFunction(symbol, item, probe) = first \o second
  BY DEF CompareFunction
<1> HIDE DEF convention, outcome
<1>2. IsList(first) /\ IsList(second) /\ (Whole(second) => outcome \notin {"unmatched", "mismatched"})
  BY WholeSays
<1> HIDE DEF first, second
<1>3. outcome \notin {"unmatched", "mismatched"}
  BY <1>1, <1>2, WholeParts
<1>4. function.shape = probe.expectedType
  BY <1>3 DEF outcome
<1> QED
  BY <1>4 DEF Describes

LEMMA BitFieldDescribed ==
  ASSUME NEW symbol, DeclaredType(symbol.type[1]), NEW item, item.kind = "bitfield", NEW arch, NEW probe,
         Whole(CompareBitField(symbol, item, probe))
  PROVE  Describes(symbol, item, probe, arch)
<1> DEFINE fields == symbol.type[1].fields
           found == FindModelField(fields, probe.field)
           bits == found[1].bits[1]
           mask == BitMask(bits, item.bytes)
           offset == Equal(<<"bitOffset">>, item.offset, bits.offset)
           width == Equal(<<"bitWidth">>, item.width, bits.width)
           last == IF mask = <<>> THEN <<Says(<<"maskHex">>, "unmatched")>>
                   ELSE Equal(<<"maskHex">>, item.mask, mask[1])
<1>1. CompareBitField(symbol, item, probe) =
        IF found = <<>> \/ found[1].bits = <<>> THEN UnmatchedMany(item) ELSE offset \o width \o last
  BY DEF CompareBitField
<1>2. Countable(item)
  BY DEF Countable
<1>3. IsList(last)
  <2>1. IsList(<<Says(<<"maskHex">>, "unmatched")>>)
    BY WholeSays
  <2>2. IsList(Equal(<<"maskHex">>, item.mask, mask[1]))
    BY WholeEqual
  <2> QED
    BY <2>1, <2>2
<1>4. IsList(offset) /\ (Whole(offset) => item.offset = bits.offset)
  <2> HIDE DEF bits
  <2> QED
    BY WholeEqual
<1>5. IsList(width) /\ (Whole(width) => item.width = bits.width)
  <2> HIDE DEF bits
  <2> QED
    BY WholeEqual
<1> HIDE DEF found, bits, offset, width, last
<1>6. /\ found # <<>> /\ found[1].bits # <<>>
      /\ Whole(offset \o width \o last)
  BY <1>1, <1>2, UnmatchedIsNotWhole
<1>7. Whole(offset) /\ Whole(width)
  <2>1. IsList(offset \o width) /\ (Whole(offset \o width) => Whole(offset) /\ Whole(width))
    BY <1>4, <1>5, WholeParts
  <2>2. Whole(offset \o width)
    BY <1>3, <1>6, <2>1, WholeParts
  <2> QED
    BY <2>1, <2>2
<1>8. Listed(fields)
  BY DEF DeclaredType
<1>9. PICK i \in DOMAIN fields : found = <<fields[i]>>
  BY <1>6, <1>8, FieldFound DEF found
<1> DEFINE f == found[1]
<1>10. f \in ToSet(fields)
  BY <1>9 DEF ToSet
<1>11. f.bits = <<[offset |-> bits.offset, width |-> bits.width]>>
  BY <1>6, <1>10 DEF DeclaredType, bits
<1>12. f.bits = <<[offset |-> item.offset, width |-> item.width]>>
  BY <1>4, <1>5, <1>7, <1>11
<1> HIDE DEF f
<1> QED
  BY <1>10, <1>12 DEF Describes

-----------------------------------------------------------------------------
(* The symbol an item is compared with is the only one that scores best.   *)
LEMMA OneBest ==
  ASSUME NEW inventory, Inventoried(inventory), NEW candidates \in SUBSET inventory, NEW arch,
         NEW s \in Best(candidates, arch)
  PROVE  /\ s \in candidates /\ ArchitectureScore(s.arch, arch) >= 0
         /\ \A t \in candidates : ArchitectureScore(t.arch, arch) <= ArchitectureScore(s.arch, arch)
         /\ \A t \in Best(candidates, arch) : t = s
<1> DEFINE score(t) == ArchitectureScore(t.arch, arch)
           fit == {t \in candidates : score(t) >= 0}
           top == {t \in fit : \A o \in fit : score(o) <= score(t)}
<1>1. Best(candidates, arch) = {t \in top : \A o \in top : t.id <= o.id}
  BY DEF Best
<1>2. \A t \in candidates : score(t) \in {-1, 1, 2}
  BY DEF ArchitectureScore
<1> HIDE DEF score
<1>3. s \in candidates /\ score(s) >= 0 /\ \A t \in candidates : score(t) <= score(s)
  <2>1. s \in fit /\ \A o \in fit : score(o) <= score(s)
    BY <1>1
  <2>2. \A t \in candidates : t \in fit \/ score(t) < 0
    BY <1>2
  <2>3. score(s) \in {-1, 1, 2} /\ s \in candidates
    BY <1>2, <2>1
  <2> QED
    BY <1>2, <2>1, <2>2, <2>3
<1>4. ASSUME NEW t \in Best(candidates, arch) PROVE t = s
  <2>1. s \in top /\ t \in top /\ s.id <= t.id /\ t.id <= s.id
    BY <1>1
  <2>2. s \in inventory /\ t \in inventory
    BY <1>3, <2>1
  <2>3. s.id \in Int /\ t.id \in Int
    BY <2>2 DEF Inventoried
  <2>4. s.id = t.id
    BY <2>1, <2>3
  <2> QED
    BY <2>2, <2>4 DEF Inventoried
<1> QED
  BY <1>3, <1>4 DEF score

LEMMA FoundIsSpecific ==
  ASSUME NEW inventory, Inventoried(inventory), NEW arch, NEW item, NEW probe,
         NEW s \in Find(inventory, arch, item, probe)
  PROVE  /\ s \in inventory /\ MostSpecific(inventory, s, item, arch)
         /\ \A t \in Find(inventory, arch, item, probe) : t = s
<1> DEFINE name == IF item.kind = "bitfield" THEN probe.record ELSE item.name
           meant(t) == IF item.kind = "guid" THEN t.guid # <<>> ELSE t.kind \in Kinds(item)
           candidates == {t \in inventory : t.name = name /\ meant(t)}
<1>1. Find(inventory, arch, item, probe) = Best(candidates, arch)
  BY DEF Find
<1>2. candidates \in SUBSET inventory
  OBVIOUS
<1> HIDE DEF candidates
<1>3. /\ s \in candidates /\ ArchitectureScore(s.arch, arch) >= 0
      /\ \A t \in candidates : ArchitectureScore(t.arch, arch) <= ArchitectureScore(s.arch, arch)
      /\ \A t \in Best(candidates, arch) : t = s
  BY <1>1, <1>2, OneBest
<1>4. s.name = name /\ s \in inventory
  BY <1>3 DEF candidates
<1> HIDE DEF name
<1>5. ASSUME s.arch # arch
      PROVE  s.arch \in Neutral /\ \A t \in inventory : t.name = s.name /\ meant(t) => t.arch # arch
  <2>1. s.arch \in Neutral /\ ArchitectureScore(s.arch, arch) = 1
    BY <1>3, <1>5 DEF ArchitectureScore
  <2>2. ASSUME NEW t \in inventory, t.name = s.name, meant(t), t.arch = arch PROVE FALSE
    <3>1. t \in candidates
      BY <1>4, <2>2 DEF candidates
    <3>2. ArchitectureScore(t.arch, arch) = 2
      BY <2>2 DEF ArchitectureScore
    <3>3. ArchitectureScore(t.arch, arch) <= ArchitectureScore(s.arch, arch)
      BY <1>3, <3>1
    <3> QED
      BY <2>1, <3>2, <3>3
  <2> HIDE DEF meant
  <2> QED
    BY <2>1, <2>2
<1>6. MostSpecific(inventory, s, item, arch)
  BY <1>5 DEF MostSpecific
<1> QED
  BY <1>1, <1>3, <1>4, <1>6

(* What is compared with nothing left over describes what was measured.    *)
LEMMA ItemDescribed ==
  ASSUME NEW inventory, Inventoried(inventory), NEW arch \in Architectures, NEW item, Countable(item), NEW probe,
         NEW id \in CompareItem(inventory, arch, item, probe).symbol,
         Whole(CompareItem(inventory, arch, item, probe).says)
  PROVE  LET s == CHOOSE t \in inventory : t.id = id
         IN  MostSpecific(inventory, s, item, arch) /\ Describes(s, item, probe, arch)
<1> DEFINE found == {s \in Find(inventory, arch, item, probe) : Comparable(s, item)}
           symbol == CHOOSE s \in found : TRUE
           e == CompareItem(inventory, arch, item, probe)
<1>1. /\ e.symbol = {s.id : s \in found}
      /\ e.says = IF found = {} THEN UnmatchedMany(item) ELSE Compare(symbol, item, probe, arch)
  BY DEF CompareItem
<1>2. PICK s \in found : s.id = id
  BY <1>1
<1>3. /\ s \in inventory /\ MostSpecific(inventory, s, item, arch) /\ Comparable(s, item)
      /\ \A t \in found : t = s
  BY FoundIsSpecific
<1>4. symbol = s
  BY <1>2, <1>3
<1>5. (CHOOSE t \in inventory : t.id = id) = s
  BY <1>2, <1>3 DEF Inventoried
<1>6. Whole(Compare(s, item, probe, arch))
  BY <1>1, <1>2, <1>4
<1> HIDE DEF found, symbol, e
<1>7. /\ AtMostOne(s.constant) /\ AtMostOne(s.guid)
      /\ s.constant # <<>> => AtMostOne(s.constant[1])
      /\ s.type # <<>> => DeclaredType(s.type[1])
  BY <1>3 DEF Inventoried
<1>8. Describes(s, item, probe, arch)
  <2>1. CASE item.kind = "record"
    <3>1. s.type # <<>> /\ Whole(CompareRecord(s, item, arch))
      BY <1>3, <1>6, <2>1 DEF Comparable, Compare
    <3> QED
      BY <1>7, <2>1, <3>1, RecordDescribed
  <2>2. CASE item.kind = "value"
    <3>1. s.constant # <<>> /\ Whole(CompareConstant(s, item))
      BY <1>3, <1>6, <2>2 DEF Comparable, Compare
    <3> QED
      BY <1>7, <2>2, <3>1, ConstantDescribed
  <2>3. CASE item.kind = "guid"
    <3>1. s.guid # <<>> /\ Whole(Equal(<<"value">>, item.value, s.guid[1]))
      BY <1>3, <1>6, <2>3 DEF Comparable, Compare
    <3> QED
      BY <1>7, <2>3, <3>1, GuidDescribed
  <2>4. CASE item.kind = "bitfield"
    <3>1. s.type # <<>> /\ Whole(CompareBitField(s, item, probe))
      BY <1>3, <1>6, <2>4 DEF Comparable, Compare
    <3> QED
      BY <1>7, <2>4, <3>1, BitFieldDescribed
  <2>5. CASE item.kind = "function"
    <3>1. Whole(CompareFunction(s, item, probe))
      BY <1>6, <2>5 DEF Compare
    <3> QED
      BY <2>5, <3>1, FunctionDescribed
  <2>6. CASE item.kind = "vtable"
    <3>1. s.type # <<>> /\ Whole(CompareVTable(s, item))
      BY <1>3, <1>6, <2>6 DEF Comparable, Compare
    <3> QED
      BY <1>7, <2>6, <3>1, VTableDescribed
  <2>7. CASE item.kind \notin {"record", "value", "guid", "bitfield", "function", "vtable"}
    BY <1>3, <2>7 DEF Comparable
  <2> QED
    BY <2>1, <2>2, <2>3, <2>4, <2>5, <2>6, <2>7
<1> QED
  BY <1>3, <1>5, <1>8

LEMMA WholeCounted ==
  ASSUME NEW e, Accounted(e.item, e.says), Count(e, {"unmatched", "mismatched"}) = 0
  PROVE  Whole(e.says)
<1>1. PICK n \in Nat : DOMAIN e.says = 1..n
  BY DEF Accounted
<1> DEFINE S == Saying(e, {"unmatched", "mismatched"})
<1>2. S \in SUBSET (1..n) /\ S = {i \in DOMAIN e.says : e.says[i].outcome \in {"unmatched", "mismatched"}}
  BY <1>1 DEF Saying
<1>3. IsFiniteSet(1..n)
  BY FS_Interval
<1>4. Cardinality(S) = 0
  BY DEF Count
<1> HIDE DEF S
<1>5. S = {}
  BY <1>2, <1>3, <1>4, FS_Subset, FS_EmptySet
<1> QED
  BY <1>2, <1>5 DEF Whole

-----------------------------------------------------------------------------
(* The report's comparisons are of validated results of their architecture *)
(* with the inventory of the run.                                          *)
Detailed(r, o) ==
  \E oracle : /\ Validated(oracle) /\ o.arch = oracle.arch
              /\ o.entries = CompareInventory(r.inventory, r.probe.items, oracle)
              /\ o.complete = Complete(o.entries)

Detailing ==
  /\ Inventoried(run.inventory)
  /\ \A a \in DOMAIN accepted : accepted[a].arch = a
  /\ \A o \in report.oracles : Detailed(run, o)

LEMMA DetailingMeans == Detailing => CompleteMeansMeasured
<1> SUFFICES ASSUME Detailing, NEW o \in report.oracles, NEW e \in o.entries, NEW id \in e.symbol \cap o.complete
             PROVE  LET s == CHOOSE t \in run.inventory : t.id = id
                        probe == CHOOSE p \in run.probe.items : p.id = e.item.id
                    IN  MostSpecific(run.inventory, s, e.item, o.arch) /\ Describes(s, e.item, probe, o.arch)
  BY DEF CompleteMeansMeasured
<1> DEFINE probe(i) == CHOOSE p \in run.probe.items : p.id = i.id
<1>1. PICK oracle : /\ Validated(oracle) /\ o.arch = oracle.arch
                    /\ o.entries = CompareInventory(run.inventory, run.probe.items, oracle)
                    /\ o.complete = Complete(o.entries)
  BY DEF Detailing, Detailed
<1>2. PICK item \in oracle.items : e = CompareItem(run.inventory, oracle.arch, item, probe(item))
  BY <1>1 DEF CompareInventory
<1> HIDE DEF probe
<1>3. e.item = item
  BY <1>2 DEF CompareItem
<1>4. Countable(item) /\ oracle.arch \in Architectures
  BY <1>1 DEF Validated, LoadedOracle, FiniteFile, Countable
<1>5. Accounted(e.item, e.says)
  BY <1>2, <1>3, <1>4, ItemAccounts
<1>6. Count(e, {"unmatched", "mismatched"}) = 0
  BY <1>1 DEF Complete
<1>7. Whole(e.says)
  BY <1>5, <1>6, WholeCounted
<1>8. Inventoried(run.inventory)
  BY DEF Detailing
<1> DEFINE s == CHOOSE t \in run.inventory : t.id = id
<1>9. MostSpecific(run.inventory, s, item, oracle.arch) /\ Describes(s, item, probe(item), oracle.arch)
  <2> DEFINE p == probe(item)
             inventory == run.inventory
             arch == oracle.arch
  <2>1. id \in CompareItem(inventory, arch, item, p).symbol /\ Whole(CompareItem(inventory, arch, item, p).says)
    BY <1>2, <1>7
  <2>2. Inventoried(inventory) /\ Countable(item) /\ arch \in Architectures
    BY <1>4, <1>8
  <2> HIDE DEF p, inventory, arch
  <2>3. LET u == CHOOSE t \in inventory : t.id = id
        IN  MostSpecific(inventory, u, item, arch) /\ Describes(u, item, p, arch)
    BY <2>1, <2>2, ItemDescribed, SMTT(30)
  <2> QED
    BY <2>3 DEF p, inventory, arch
<1> HIDE DEF s
<1> QED
  BY <1>1, <1>3, <1>9 DEF s, probe

LEMMA DetailingStep == ASSUME Accounting, Detailing, [Next]_vars PROVE Detailing'
<1>1. run' = run /\ Inventoried(run'.inventory)
  BY DEF Detailing, Next, vars, Cancel, Generate, LoadManifests, LoadOracle, LoadCancelled, Finish, WriteReport, Kill
<1>2. CASE LoadOracle
  <2> DEFINE input == run.oracles[next]
  <2>1. report' = report
    BY <1>2 DEF LoadOracle
  <2>2. \A a \in DOMAIN accepted' : accepted'[a].arch = a
    <3>1. CASE Accepts(input)
      <4>1. accepted' = Put(accepted, input.arch, input.file[1])
        BY <1>2, <3>1 DEF LoadOracle
      <4>2. input.file[1].arch = input.arch
        BY <3>1 DEF Accepts, InputCodes
      <4> HIDE DEF input
      <4>3. \A a \in DOMAIN accepted' : IF a = input.arch THEN accepted'[a] = input.file[1]
                                        ELSE a \in DOMAIN accepted /\ accepted'[a] = accepted[a]
        BY <4>1 DEF Put
      <4> QED
        BY <4>2, <4>3 DEF Detailing
    <3>2. CASE ~Accepts(input)
      BY <1>2, <3>2 DEF LoadOracle, Detailing
    <3> QED
      BY <3>1, <3>2
  <2> QED
    BY <1>1, <2>1, <2>2 DEF Detailing
<1>3. CASE Finish
  <2>1. UNCHANGED accepted /\ report'.oracles = {Summary(a) : a \in DOMAIN accepted}
    BY <1>3 DEF Finish, FinalReport, loading
  <2>2. ASSUME NEW a \in DOMAIN accepted PROVE Detailed(run, Summary(a))
    <3>1. /\ Summary(a).arch = a
          /\ Summary(a).entries = CompareInventory(run.inventory, run.probe.items, accepted[a])
          /\ Summary(a).complete = Complete(Summary(a).entries)
      BY DEF Summary, Summarized
    <3>2. Validated(accepted[a]) /\ accepted[a].arch = a
      BY DEF Accounting, Detailing
    <3> QED
      BY <3>1, <3>2 DEF Detailed
  <2> QED
    BY <1>1, <2>1, <2>2 DEF Detailing
<1>4. CASE ~LoadOracle /\ ~Finish
  <2>1. report' = report /\ (UNCHANGED accepted)
    BY <1>4 DEF Next, vars, Cancel, Generate, LoadManifests, LoadCancelled, WriteReport, Kill, loading
  <2> QED
    BY <1>1, <2>1 DEF Detailing
<1> QED
  BY <1>2, <1>3, <1>4

LEMMA DetailingStarts ==
  ASSUME Inventoried(run.inventory), accepted = << >>, report = NoReport PROVE Detailing
<1>1. DOMAIN accepted = {} /\ report.oracles = {}
  BY DEF NoReport
<1> QED
  BY <1>1 DEF Detailing

(* A symbol that is reported as completely verified is the most specific   *)
(* one of its name, and says what the compiler measured: C's layout of the *)
(* declared fields is the measured one, and constants, GUIDs, vtable slots *)
(* and bit fields have the measured values (compare.go, compareInventory). *)
THEOREM CompleteIsMeasured == Spec => []CompleteMeansMeasured
<1>1. Init => Accounting /\ Detailing
  BY AccountingStarts, DetailingStarts, RunIsFinite, RunsAssumption DEF Init
<1>2. Accounting /\ Detailing /\ [Next]_vars => Accounting' /\ Detailing'
  BY AccountingStep, DetailingStep
<1> QED
  BY <1>1, <1>2, DetailingMeans, PTL DEF Spec

(* The same of the report a commit gets in the workflow.                   *)
THEOREM WorkflowCompleteIsMeasured == EvidenceSpec => []CompleteMeansMeasured
<1>1. EvidenceInit => Accounting /\ Detailing
  <2>1. CASE Init
    BY <2>1, AccountingStarts, DetailingStarts, RunIsFinite, RunsAssumption DEF Init
  <2>2. CASE InitWorkflow
    <3>1. Committed
      BY <2>2 DEF InitWorkflow, Committed
    <3>2. Inventoried(run.inventory)
      BY <3>1, CommitsAssumption DEF Committed, RunOf
    <3> QED
      BY <2>2, <3>1, <3>2, AccountingStarts, DetailingStarts, CommitIsFinite DEF InitWorkflow
  <2> QED
    BY <2>1, <2>2 DEF EvidenceInit
<1>2. Accounting /\ Detailing /\ Evident /\ [EvidenceNext]_allVars => Accounting' /\ Detailing'
  <2> SUFFICES ASSUME Accounting, Detailing, Workflow, [EvidenceNext]_allVars PROVE Accounting' /\ Detailing'
    BY DEF Evident
  <2>1. CASE [Next]_vars
    BY <2>1, AccountingStep, DetailingStep
  <2>2. CASE Starts
    BY <2>2 DEF Starts, Accounting, Finite, Lists, Detailing, loading
  <2> QED
    BY <2>1, <2>2, WorkflowSteps
<1> QED
  BY <1>1, <1>2, DetailingMeans, Evidently, PTL DEF EvidenceSpec
=============================================================================
