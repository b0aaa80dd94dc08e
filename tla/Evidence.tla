------------------------------- MODULE Evidence -------------------------------
(***************************************************************************)
(* One commit through .github/workflows/abi.yml: on every architecture a   *)
(* job generates the probe and compiles it; where it can run, the job runs *)
(* it and compares what it printed with the checked-in result; and the job *)
(* of amd64 has winapiverify (AbiVerification) compare the checked-in      *)
(* results with the inventory.  The jobs are independent.  The job of      *)
(* arm64 also calls winapiverify, with the same files: that second call is *)
(* left out.                                                               *)
(*                                                                         *)
(* A commit is what the checkout holds, however it came there: results     *)
(* measured from another probe manifest or changed by hand, a slice and    *)
(* its manifest edited, or rendered from another lock or other templates.  *)
(***************************************************************************)
EXTENDS AbiOracle

CONSTANT
  Commits   \* set of [probe, baselines, slice, files, lock, inventory, gate]

Executed == {"386", "amd64"}
Targets == Executed \cup {"arm64"}

(* The files are decoded from JSON: finite lists of objects.               *)
Object(o) == o = [k \in DOMAIN o |-> o[k]] /\ "id" \in DOMAIN o /\ o.id \in Int
Decoded(item) ==
  /\ Object(item) /\ item.kind \in ListNames
  /\ (item.kind = "record") <=> ("fields" \in DOMAIN item)
  /\ item.kind = "record" =>
       IsFiniteSet(item.fields) /\ \A f \in item.fields : Object(f) /\ "fields" \notin DOMAIN f

(* Strict decoding: a result, its items and their fields have the          *)
(* properties of their types, and no others.                               *)
ItemKeys(kind) ==
  {"kind", "id", "name"} \cup
    CASE kind = "record"   -> {"shape", "size", "alignment", "fields"}
      [] kind = "bitfield" -> {"bytes", "mask", "offset", "width"}
      [] kind = "function" -> {"typeCompatible", "convention"}
      [] kind = "vtable"   -> {"method", "index"}
      [] OTHER -> {"value"}
Typed(file) ==
  /\ DOMAIN file = {"wellFormed", "arch", "source", "sdk", "profile", "manifest", "compiler", "items"}
  /\ file.wellFormed \in BOOLEAN
  /\ \A i \in file.items :
       /\ DOMAIN i = ItemKeys(i.kind)
       /\ i.kind = "record" => \A f \in i.fields : DOMAIN f = {"id", "name", "offset"}

ASSUME CommitsAssumption ==
  \A c \in Commits :
    /\ Inventoried(c.inventory)
    /\ c.slice.inputs \in Seq(ToSet(c.slice.inputs))
    /\ {"arch", "items"} \subseteq DOMAIN c.probe
    /\ IsFiniteSet(c.probe.items) /\ \A i \in c.probe.items : Decoded(i)
    /\ \A a \in Executed :
         c.baselines[a] # <<>> =>
           /\ Typed(c.baselines[a][1])
           /\ IsFiniteSet(c.baselines[a][1].items) /\ \A i \in c.baselines[a][1].items : Decoded(i)

VARIABLE
  jobs      \* architecture -> [at, source, object, actual, differences]

allVars == <<vars, jobs>>

NewJob == [at |-> "generate", source |-> <<>>, object |-> <<>>, actual |-> <<>>, differences |-> {}]

(* What winapiverify meets in a checkout of the commit: its defaults are   *)
(* the two executed results.                                               *)
RunOf(commit) ==
  [slice |-> commit.slice, checkout |-> commit.files, lock |-> commit.lock,
   inventory |-> commit.inventory, probe |-> commit.probe,
   oracles |-> <<[arch |-> "386", required |-> TRUE, file |-> commit.baselines["386"]],
                 [arch |-> "amd64", required |-> TRUE, file |-> commit.baselines["amd64"]]>>,
   arm64 |-> [object |-> <<>>, gate |-> commit.gate]]

InitWorkflow ==
  /\ \E c \in Commits : run = RunOf(c)
  /\ pc = "idle" /\ cancelled = FALSE /\ next = 1
  /\ mismatches = {} /\ sdks = {} /\ accepted = << >> /\ status = << >>
  /\ report = NoReport /\ disk = [from |-> "none", report |-> NoReport] /\ result = "none"
  /\ jobs = [a \in Targets |-> NewJob]

(* Calls outside the workflow have no jobs.                                *)
EvidenceInit == (Init /\ jobs = << >>) \/ InitWorkflow

-----------------------------------------------------------------------------
At(a, step) == a \in DOMAIN jobs /\ jobs[a].at = step

Baseline(a) == (CHOOSE o \in ToSet(run.oracles) : o.arch = a).file

(* abi-oracle generate --architecture a: the manifest is validated as it   *)
(* is, and again with the architecture.                                    *)
GenerateProbe(a) ==
  LET source == IF ValidManifest(run.probe) THEN GenerateSource([run.probe EXCEPT !.arch = a]) ELSE <<>>
  IN
  /\ At(a, "generate")
  /\ jobs' = [jobs EXCEPT ![a].source = source, ![a].at = IF source = <<>> THEN "failure" ELSE "compile"]
  /\ UNCHANGED vars

(* The environment chooses the compiler and its target.                    *)
CompileProbe(a) ==
  /\ At(a, "compile")
  /\ \E target \in Architectures, compiler \in IF a = "arm64" THEN {"clang-cl"} ELSE {"msvc", "clang-cl"} :
       IF Compiles(jobs[a].source[1], target)
       THEN jobs' = [jobs EXCEPT ![a].object = <<[source |-> jobs[a].source[1], target |-> target, compiler |-> compiler]>>,
                                 ![a].at = IF a \in Executed THEN "execute" ELSE "success"]
       ELSE jobs' = [jobs EXCEPT ![a].at = "failure"]
  /\ UNCHANGED vars

ExecuteProbe(a) ==
  LET object == jobs[a].object[1]
  IN
  /\ At(a, "execute")
  /\ jobs' = [jobs EXCEPT ![a].actual = <<RunSource(object.source, object.target, object.compiler)>>, ![a].at = "compare"]
  /\ UNCHANGED vars

(* abi-oracle compare.  The job of amd64 goes on to winapiverify.          *)
CompareProbe(a) ==
  LET expected == Baseline(a)
      actual == jobs[a].actual
      valid == expected # <<>> /\ ValidResult(expected[1]) /\ ValidResult(actual[1])
      differences == CompareResults(expected[1], actual[1])
      equal == valid /\ differences = {}
  IN
  /\ At(a, "compare")
  /\ jobs' = [jobs EXCEPT ![a].differences = IF valid THEN differences ELSE {<<"invalid">>},
                          ![a].at = IF ~equal THEN "failure" ELSE IF a = "amd64" THEN "verify" ELSE "success"]
  /\ pc' = IF equal /\ a = "amd64" THEN "generate" ELSE pc
  /\ UNCHANGED <<run, cancelled, next, loading, report, disk, result>>

Verify == pc # "idle" /\ Next /\ UNCHANGED jobs

Verified ==
  /\ At("amd64", "verify") /\ pc = "done"
  /\ jobs' = [jobs EXCEPT !["amd64"].at = IF result = "ok" THEN "success" ELSE "failure"]
  /\ UNCHANGED vars

(* The runner stops, a newer push cancels the job, a file is not written:  *)
(* what it had is gone.                                                    *)
JobStops(a) ==
  /\ a \in DOMAIN jobs /\ jobs[a].at \notin {"verify", "success", "failure"}
  /\ jobs' = [jobs EXCEPT ![a] = [NewJob EXCEPT !.at = "failure"]]
  /\ UNCHANGED vars

EvidenceNext ==
  \/ \E a \in Targets : GenerateProbe(a) \/ CompileProbe(a) \/ ExecuteProbe(a) \/ CompareProbe(a) \/ JobStops(a)
  \/ Verify \/ Verified

EvidenceSpec == EvidenceInit /\ [][EvidenceNext]_allVars

-----------------------------------------------------------------------------
Green == jobs # << >> /\ \A a \in Targets : jobs[a].at = "success"

(* When the workflow is green, the checked-in results are evidence,        *)
(* whatever they were made of: for every architecture that is executed     *)
(* they hold exactly what the compiler for it measured on this commit for  *)
(* every probe of this manifest, winapiverify compared those and found no  *)
(* fact that differs, and every probed function has the reviewed type on   *)
(* arm64 as well.                                                          *)
EvidenceIsMeasured ==
  Green =>
    /\ \A a \in Executed :
         LET measured == {Emit(i, a) : i \in run.probe.items}
         IN /\ Baseline(a)[1].items = measured
            /\ \E o \in report.oracles :
                 /\ o.arch = a /\ {e.item : e \in o.entries} = measured
                 /\ \A e \in o.entries : \A i \in DOMAIN e.says : e.says[i].outcome \in {"matched", "unmatched"}
    /\ \A i \in run.probe.items, a \in Targets :
         i.kind = "function" => Headers[a][i.name].type = i.expectedType

(* The facts in which two results differ, by ID: what the comparison of    *)
(* lists by position is to find.                                           *)
FactsOf(file) ==
  UNION {{<<i.id, k, i[k]>> : k \in DOMAIN i \ {"fields"}}
         \cup (IF i.kind = "record" THEN {<<i.id, f.id, k, f[k]>> : f \in i.fields, k \in {"name", "offset"}} ELSE {}) : i \in file.items}
Provenance(file) == <<file.arch, file.source, file.sdk, file.profile, file.manifest>>

(* A comparison is clean exactly when the two files say the same of the    *)
(* same headers, in whatever order and by whatever compiler; and when they *)
(* hold the same items, it counts the facts that differ: no one more, and  *)
(* no one twice.                                                           *)
DifferencesAreFacts ==
  \A a \in DOMAIN jobs :
    (jobs[a].actual # <<>> /\ jobs[a].at # "compare" /\ jobs[a].differences # {<<"invalid">>} /\ Baseline(a) # <<>>) =>
      LET expected == Baseline(a)[1]
          actual == jobs[a].actual[1]
          ids(file) == {<<i.kind, i.id, IF i.kind = "record" THEN {f.id : f \in i.fields} ELSE {}>> : i \in file.items}
          provenance == {k \in 1..5 : Provenance(expected)[k] # Provenance(actual)[k]}
      IN /\ (jobs[a].differences = {} /\ jobs[a].at # "failure") =>
              provenance = {} /\ FactsOf(expected) = FactsOf(actual)
         /\ (provenance = {} /\ FactsOf(expected) = FactsOf(actual)) => jobs[a].differences = {}
         /\ (ids(expected) = ids(actual) /\ jobs[a].differences # {}) =>
              Cardinality(jobs[a].differences) =
                Cardinality(provenance) + Cardinality(FactsOf(expected) \ FactsOf(actual))
=============================================================================
