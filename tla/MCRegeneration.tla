---------------------------- MODULE MCRegeneration ----------------------------
(***************************************************************************)
(* Commits for TLC: slices and manifests as rendered, for another module,  *)
(* by another version, edited apart and edited together; locks that were   *)
(* moved on, shortened or doubled; reports of this and of other runs.      *)
(***************************************************************************)
EXTENDS Regeneration

MCPins == <<[id |-> "s1", version |-> "v1", hash |-> Hash("v1")], [id |-> "s2", version |-> "v1", hash |-> Hash("w1")]>>
MCDescriptors == <<[source |-> "s1", name |-> "d1"], [source |-> "s1", name |-> "d2"], [source |-> "s2", name |-> "d3"]>>
MCArtifactPaths == <<"f1", "f2">>

LOCAL Files(module) == [p \in ToSet(MCArtifactPaths) |-> Rendered(p, module)]
LOCAL Source(id, v, h) == [id |-> id, version |-> v, hash |-> Hash(h), sdk |-> "sdk1"]
LOCAL ReviewedLock == [wellFormed |-> TRUE, sources |-> <<Source("s1", "v1", "v1"), Source("s2", "v1", "w1")>>]
LOCAL Locks ==
  {ReviewedLock,
   [ReviewedLock EXCEPT !.wellFormed = FALSE],
   [ReviewedLock EXCEPT !.sources = Tail(@)],
   [ReviewedLock EXCEPT !.sources[1] = Source("s1", "v2", "v2")],
   [ReviewedLock EXCEPT !.sources[2].hash = Hash("w2")],
   [ReviewedLock EXCEPT !.sources = @ \o <<Source("s1", "v2", "v2")>>],
   [ReviewedLock EXCEPT !.sources = <<Source("s1", "v2", "v2")>> \o @],
   [ReviewedLock EXCEPT !.sources = @ \o <<Source("s3", "v1", "v1")>>]}

LOCAL Edit == <<"f2", "m1", "by hand", {}>>
LOCAL Edited == [Files("m1") EXCEPT !["f2"] = Edit]
LOCAL Manifests ==
  {SliceManifest("m1"), SliceManifest("m2"),
   [SliceManifest("m1") EXCEPT !.artifacts[2].hash = Hash(Edit)],
   [SliceManifest("m1") EXCEPT !.artifacts = SubSeq(@, 1, 1)],
   [SliceManifest("m1") EXCEPT !.inputs[1].version = "v2"],
   [SliceManifest("m1") EXCEPT !.generator = "0.0.9"],
   [SliceManifest("m1") EXCEPT !.wellFormed = FALSE]}
LOCAL Trees == {Files("m1"), Files("m2"), Edited, [p \in {"f1"} |-> Files("m1")[p]], ("f3" :> Rendered("f3", "m1")) @@ Files("m1")}

(* One probe, measured on both architectures and in the inventory.         *)
LOCAL Value == [kind |-> "value", id |-> 1, name |-> "V", value |-> 1]
LOCAL Symbol == [id |-> 1, name |-> "V", kind |-> "constant", arch |-> "neutral", type |-> <<>>, constant |-> <<<<1>>>>, guid |-> <<>>, function |-> <<>>]
LOCAL Probe == [wellFormed |-> TRUE, arch |-> "amd64", source |-> "src", sdk |-> "sdk1", profile |-> "desktop", items |-> {Value}]
LOCAL Oracle(arch) ==
  [wellFormed |-> TRUE, arch |-> arch, source |-> "src", sdk |-> "sdk1", profile |-> "desktop",
   manifest |-> ManifestHash(Probe, arch), items |-> {Value}]
LOCAL Results(baselines) == [i \in 1..2 |-> [arch |-> <<"386", "amd64">>[i], required |-> TRUE, file |-> baselines[i]]]
LOCAL Measured2 == Results(<<<<Oracle("386")>>, <<Oracle("amd64")>>>>)

(* The report of a verification that finds nothing wrong.                  *)
LOCAL Matched == [item |-> Value, symbol |-> {1}, says |-> <<Says(<<"value">>, "matched")>>]
LOCAL PassedReport ==
  [passed |-> TRUE, mismatches |-> {},
   status |-> [a \in Architectures |-> CASE a = "arm64ec" -> "unsupported" [] a = "arm64" -> "unavailable" [] OTHER -> "executed"],
   oracles |-> {[arch |-> a, entries |-> {Matched}, facts |-> 1, matched |-> 1, unmatched |-> 0, mismatched |-> 0,
                 complete |-> {1}] : a \in {"386", "amd64"}}]
LOCAL Reports == {NoReport, PassedReport, [PassedReport EXCEPT !.oracles = {}]}

LOCAL Run0(slice, lock, files, oracles) ==
  [slice |-> slice, lock |-> lock, checkout |-> files, inventory |-> {Symbol}, probe |-> Probe, oracles |-> oracles,
   arm64 |-> [object |-> <<>>, gate |-> FALSE]]

MCCheckouts ==
  {[run |-> Run0(m, l, f, Measured2), module |-> "m1", report |-> r] :
     m \in Manifests, l \in {ReviewedLock}, f \in Trees, r \in Reports}
  \cup {[run |-> Run0(m, l, f, o), module |-> "m1", report |-> PassedReport] :
     m \in Manifests, l \in Locks, f \in {Files("m1"), Edited}, o \in {Measured2, Results(<<<<Oracle("386")>>, <<>>>>)}}
=============================================================================
