-------------------------- MODULE MCAbiVerification --------------------------
(***************************************************************************)
(* Calls of winapiverify for TLC, in three groups: what can be wrong with  *)
(* the manifests, what can be wrong with the oracle results, and what an   *)
(* inventory can say about what was measured; commits that go through the  *)
(* ABI workflow; and, in MCRegeneration, commits that go through the       *)
(* generation workflow.  A behaviour is a call, or one commit in one of    *)
(* the workflows.                                                          *)
(***************************************************************************)
EXTENDS Evidence, MCRegeneration

MCVersion == "0.1.0"

-----------------------------------------------------------------------------
(* The manifests                                                           *)
Input(d, s, v) == [descriptor |-> d, descriptorHash |-> Hash(d), source |-> s, version |-> v, hash |-> Hash(v)]
Source(id, v, sdk) == [id |-> id, version |-> v, hash |-> Hash(v), sdk |-> sdk]

GoodSlice == [wellFormed |-> TRUE, generator |-> MCVersion,
              inputs |-> <<Input("d1", "s1", "v1")>>, artifacts |-> <<[path |-> "f1", hash |-> Hash("c1")]>>]
GoodLock == [wellFormed |-> TRUE, sources |-> <<Source("s1", "v1", "sdk1"), Source("s2", "v1", "sdk2")>>]

Slices ==
  {GoodSlice,
   [GoodSlice EXCEPT !.wellFormed = FALSE],
   [GoodSlice EXCEPT !.generator = "0.0.9"],
   [GoodSlice EXCEPT !.inputs = <<>>],
   [GoodSlice EXCEPT !.inputs = <<Input("d1", "s1", "v1"), Input("d1", "s2", "v1")>>],
   [GoodSlice EXCEPT !.inputs = <<Input("d1", "s1", "v1"), Input("d2", "s3", "v1")>>],
   [GoodSlice EXCEPT !.inputs = <<Input("d1", "s1", "v2")>>],
   [GoodSlice EXCEPT !.inputs[1].descriptorHash = Hash("d2")],
   [GoodSlice EXCEPT !.inputs[1].hash = Hash("v2")],
   [GoodSlice EXCEPT !.artifacts = @ \o <<[path |-> "f2", hash |-> Hash("c2")]>>],
   [GoodSlice EXCEPT !.artifacts[1].hash = Hash("c3")]}
Locks ==
  {GoodLock, [GoodLock EXCEPT !.wellFormed = FALSE], [GoodLock EXCEPT !.sources = @ \o <<Source("s1", "v2", "sdk1")>>]}

-----------------------------------------------------------------------------
(* Probes and what an oracle makes of them                                 *)
RecordItem(a, b) ==
  [kind |-> "record", id |-> 1, name |-> "R", shape |-> "struct", size |-> 16, alignment |-> 4,
   fields |-> {[id |-> 1, name |-> "a", offset |-> a], [id |-> 2, name |-> "b", offset |-> b]}]
ValueItem(v) == [kind |-> "value", id |-> 2, name |-> "V", value |-> v]
GuidItem(v)  == [kind |-> "guid", id |-> 3, name |-> "G", value |-> v]
BitFieldItem(offset, width, mask) ==
  [kind |-> "bitfield", id |-> 4, name |-> "B", record |-> "R", field |-> "a",
   offset |-> offset, width |-> width, mask |-> mask, bytes |-> 1]
FunctionItem(cc) ==
  [kind |-> "function", id |-> 5, name |-> "F", convention |-> cc, typeCompatible |-> TRUE, expectedType |-> <<"int32()">>]
UnparsedItem == [FunctionItem("winapi") EXCEPT !.expectedType = <<>>]
VTableItem(i) == [kind |-> "vtable", id |-> 6, name |-> "I", method |-> "Release", index |-> i]
ConditionItem == [kind |-> "condition", id |-> 7, name |-> "C", value |-> TRUE]

Probe(items) == [wellFormed |-> TRUE, arch |-> "amd64", source |-> "src", sdk |-> "sdk1", profile |-> "desktop", items |-> items]
Oracle(probe, arch) ==
  [wellFormed |-> TRUE, arch |-> arch, source |-> probe.source, sdk |-> probe.sdk, profile |-> probe.profile,
   manifest |-> ManifestHash(probe, arch), items |-> probe.items]
Result(arch, file) == [arch |-> arch, required |-> TRUE, file |-> file]
Optional(arch, file) == [arch |-> arch, required |-> FALSE, file |-> file]

Pair == {ValueItem(1), ConditionItem}
PairProbe == Probe(Pair)
Good(arch) == <<Oracle(PairProbe, arch)>>

Files(arch) ==
  LET good == Oracle(PairProbe, arch)
      also(i) == [PairProbe EXCEPT !.items = @ \cup {i}]
  IN {<<>>, <<good>>} \cup
     {<<f>> : f \in {
        [good EXCEPT !.wellFormed = FALSE],
        [good EXCEPT !.arch = "386"],
        [good EXCEPT !.arch = "mips"],
        [good EXCEPT !.source = "other"],
        [good EXCEPT !.sdk = "sdk3"],
        [good EXCEPT !.profile = "other"],
        [good EXCEPT !.manifest = ManifestHash(PairProbe, "386")],
        [good EXCEPT !.items = {ValueItem(1)}],
        [good EXCEPT !.items = {ValueItem(2), ConditionItem}],
        [good EXCEPT !.items = Pair \cup {ValueItem(2)}],
        [good EXCEPT !.items = Pair \cup {[FunctionItem("winapi") EXCEPT !.typeCompatible = FALSE]}],
        [good EXCEPT !.items = Pair \cup {[RecordItem(0, 4) EXCEPT !.alignment = 0]}]}}
Probes == {PairProbe, [PairProbe EXCEPT !.wellFormed = FALSE], [PairProbe EXCEPT !.sdk = "sdk3"],
           Probe(Pair \cup {ValueItem(2)})}

OracleLists ==
  {<<Result("386", Good("386")), r>> : r \in {Result("amd64", f) : f \in Files("amd64")} \cup {Optional("arm64", f) : f \in Files("arm64")}}
  \cup {<<Result("amd64", f), Result("amd64", g)>> : f, g \in {Good("amd64"), <<>>, <<[Oracle(PairProbe, "amd64") EXCEPT !.items = {ValueItem(2), ConditionItem}]>>}}
  \cup {<<Result("arm64ec", Good("arm64ec"))>>}

-----------------------------------------------------------------------------
(* Inventories                                                             *)
Symbol(id, name, kind, arch) ==
  [id |-> id, name |-> name, kind |-> kind, arch |-> arch, type |-> <<>>, constant |-> <<>>, guid |-> <<>>, function |-> <<>>]
Field(name, native, type) == [name |-> name, native |-> native, type |-> type, bits |-> <<>>]
BitField(o, w) == [Field("a", "", [class |-> "scalar", bytes |-> 1]) EXCEPT !.bits = <<[offset |-> o, width |-> w]>>]
LayoutOf(arch, pack, fields) == [arch |-> arch, size |-> 16, alignment |-> 4, pack |-> pack, fields |-> fields]
Record(kind, layouts, fields) == <<[kind |-> kind, layouts |-> layouts, fields |-> fields, methods |-> <<>>]>>
RecordSymbol(arch, type) == [Symbol(1, "R", "struct", arch) EXCEPT !.type = type]

Scalar(n) == [class |-> "scalar", bytes |-> n]
Pointer == [class |-> "pointer"]
Named == [class |-> "named", layouts |-> <<[arch |-> "neutral", size |-> 8, alignment |-> 4], [arch |-> "386", size |-> 6, alignment |-> 2]>>]
Types == {Scalar(1), Scalar(2), Scalar(4), Scalar(8), Pointer, Named, [class |-> "unknown"],
          [class |-> "array", element |-> Scalar(2), length |-> 3], [class |-> "array", element |-> Pointer, length |-> 1]}

Structs ==
  {Record("struct", <<LayoutOf("neutral", pack, <<>>)>>, <<Field("a", "", t), Field("B", "b", u)>>) :
     pack \in {0, 1, 2, 4}, t \in Types, u \in Types}
  \cup {Record("struct", <<LayoutOf("neutral", 2, <<>>)>>, <<Field("x", "", Scalar(1)), Field("a", "", t), Field("B", "b", u)>>) :
     t \in Types, u \in {Scalar(4)}}
OtherRecords ==
  {Record("union", <<LayoutOf("neutral", 0, <<>>)>>, <<Field("a", "", Scalar(4)), Field("B", "b", Pointer)>>),
   Record("struct", <<>>, <<Field("a", "", Scalar(4))>>),
   Record("struct", <<LayoutOf("386", 0, <<>>), LayoutOf("all", 1, <<>>)>>, <<Field("a", "", Scalar(1)), Field("B", "b", Scalar(4))>>),
   Record("struct", <<LayoutOf("all", 1, <<>>), LayoutOf("386", 0, <<>>)>>, <<Field("a", "", Scalar(1)), Field("B", "b", Scalar(4))>>),
   Record("struct", <<LayoutOf("arm64", 0, <<>>)>>, <<Field("a", "", Scalar(4))>>),
   Record("struct", <<LayoutOf("neutral", 0, <<[name |-> "a", offset |-> 0], [name |-> "b", offset |-> 2]>>)>>,
          <<Field("a", "", Scalar(1)), Field("B", "b", Scalar(4))>>),
   Record("struct", <<LayoutOf("neutral", 0, <<[name |-> "a", offset |-> 0]>>)>>,
          <<Field("a", "", Scalar(1)), Field("B", "b", Scalar(4))>>),
   Record("struct", <<LayoutOf("neutral", 0, <<>>)>>, <<BitField(0, 3), Field("B", "b", Scalar(4))>>)}

Constant(id, arch, v) == [Symbol(id, "V", "constant", arch) EXCEPT !.constant = v]
Guid(id, arch, v) == [Symbol(id, "G", "guid", arch) EXCEPT !.guid = v]
Function(id, arch, cc, shape) == [Symbol(id, "F", "function", arch) EXCEPT !.function = <<[convention |-> cc, shape |-> shape]>>]
Interface(id, arch, methods) ==
  [Symbol(id, "I", "com-interface", arch) EXCEPT !.type = <<[kind |-> "com-interface", layouts |-> <<>>, fields |-> <<>>, methods |-> methods]>>]
Method(n, i) == [name |-> n, index |-> i]

(* Pairs of an inventory and an item that was measured.                    *)
Compared ==
  {<<{RecordSymbol("neutral", t)}, RecordItem(0, b)>> : t \in Structs, b \in {1, 2, 4, 8}}
  \cup {<<{RecordSymbol("neutral", t)}, RecordItem(a, b)>> : t \in OtherRecords, a \in {0, 1}, b \in {0, 1, 2, 4}}
  \cup {<<{[RecordSymbol("all", t) EXCEPT !.kind = k]}, [RecordItem(0, 4) EXCEPT !.shape = shape, !.size = size]>> :
          t \in OtherRecords, k \in {"union", "guid"}, shape \in {"struct", "union"}, size \in {16, 20}}
  \cup {<<{[RecordSymbol("neutral", <<>>) EXCEPT !.id = 2]} \cup s, RecordItem(0, 4)>> :
          s \in {{}} \cup {{RecordSymbol("amd64", t)} : t \in OtherRecords}}
  \cup {<<{Constant(1, "neutral", v), Constant(2, a, w)}, ValueItem(1)>> :
          v, w \in {<<>>, <<<<>>>>, <<<<1>>>>, <<<<2>>>>}, a \in {"386", "amd64", "all"}}
  \cup {<<{Guid(1, "neutral", v), Guid(2, a, w)}, GuidItem(1)>> : v, w \in {<<>>, <<1>>, <<2>>}, a \in {"386", "amd64"}}
  \cup {<<{RecordSymbol("neutral", Record("struct", <<>>, <<f>>))}, BitFieldItem(o, 3, mask)>> :
          f \in {BitField(0, 3), BitField(2, 3), BitField(6, 3), Field("a", "", Scalar(1)), Field("c", "", Scalar(1))},
          o \in {0, 2, 6}, mask \in {0..2, 2..4}}
  \cup {<<{Function(1, "neutral", cc, shape)}, item>> :
          cc \in {"stdcall", "cdecl"}, shape \in {<<>>, <<"int32()">>, <<"void()">>},
          item \in {FunctionItem("winapi"), FunctionItem("cdecl"), UnparsedItem}}
  \cup {<<{Interface(1, "neutral", m)}, VTableItem(2)>> :
          m \in {<<>>, <<Method("Release", 2)>>, <<Method("AddRef", 1), Method("Release", 1)>>}}
  \cup {<<{}, ConditionItem>>}

(* One symbol with two items: all of them must match.                      *)
TwoItems ==
  {<<{RecordSymbol("neutral", Record("struct", <<LayoutOf("neutral", 0, <<>>)>>, <<BitField(0, 3)>>))},
     {[RecordItem(0, 4) EXCEPT !.fields = {}, !.size = size], BitFieldItem(o, 3, 0..2)}>> : size \in {16, 20}, o \in {0, 1}}

-----------------------------------------------------------------------------
Inventory0 == {Constant(1, "neutral", <<<<1>>>>)}
Run0(s, l, d, i, p, o, a) ==
  [slice |-> s, lock |-> l, checkout |-> d, inventory |-> i, probe |-> p, oracles |-> o, arm64 |-> a]
Checkout0 == ("f1" :> "c1")
Arm0 == [object |-> <<>>, gate |-> FALSE]
Defaults == <<Result("386", Good("386")), Result("amd64", Good("amd64"))>>

MCRuns ==
  {Run0(s, l, d, Inventory0, PairProbe, Defaults, Arm0) : s \in Slices, l \in Locks, d \in {Checkout0, "f1" :> "c2", << >>}}
  \cup {Run0(GoodSlice, GoodLock, Checkout0, Inventory0, p, o, Arm0) : p \in Probes, o \in OracleLists}
  \cup {Run0([GoodSlice EXCEPT !.inputs[1].version = "v2"], GoodLock, Checkout0, Inventory0, PairProbe, o, Arm0) : o \in OracleLists}
  \cup {Run0(GoodSlice, GoodLock, Checkout0, Inventory0, p, <<>>, [object |-> h, gate |-> g]) :
          p \in Probes, h \in {<<>>, ManifestHash(PairProbe, "arm64"), ManifestHash(PairProbe, "amd64")}, g \in BOOLEAN}
  \cup {Run0(GoodSlice, GoodLock, Checkout0, c[1], Probe({c[2]}), <<Result(a, <<Oracle(Probe({c[2]}), a)>>)>>, Arm0) :
          c \in Compared, a \in {"386", "amd64"}}
  \cup {Run0(GoodSlice, GoodLock, Checkout0, c[1], Probe(c[2]), <<Result("amd64", <<Oracle(Probe(c[2]), "amd64")>>)>>, Arm0) : c \in TwoItems}
-----------------------------------------------------------------------------
(* Commits                                                                 *)
HeadersOf(pointer) ==
  [R |-> [size |-> 2 * pointer, alignment |-> pointer, offset |-> [a |-> 0, b |-> pointer]],
   V |-> [value |-> 1], W |-> [value |-> 1], G |-> [value |-> 1], B |-> [mask |-> 0..2, bytes |-> 1],
   F |-> [type |-> <<"int32()">>], P |-> [type |-> IF pointer = 4 THEN <<"int32()">> ELSE <<"int64()">>],
   I |-> [offset |-> [Release |-> 2 * pointer]], C |-> [value |-> pointer = 8]]
MCHeaders == [t \in Architectures |-> HeadersOf(IF t = "386" THEN 4 ELSE 8)]

ProbeItems ==
  {[kind |-> "record", id |-> 1, name |-> "R", shape |-> "struct", fields |-> {[id |-> 1, name |-> "b"], [id |-> 2, name |-> "a"]}],
   [kind |-> "value", id |-> 2, name |-> "V"], [kind |-> "value", id |-> 8, name |-> "W"],
   [kind |-> "guid", id |-> 3, name |-> "G"],
   [kind |-> "bitfield", id |-> 4, name |-> "B", record |-> "R", field |-> "a"],
   [kind |-> "function", id |-> 5, name |-> "F", convention |-> "winapi", expectedType |-> <<"int32()">>],
   [kind |-> "vtable", id |-> 6, name |-> "I", method |-> "Release"],
   [kind |-> "condition", id |-> 7, name |-> "C"]}
Item(id) == CHOOSE i \in ProbeItems : i.id = id
PointerFunction == [Item(5) EXCEPT !.name = "P", !.expectedType = <<"int64()">>]
CommitProbe == Probe(ProbeItems)

(* A result measured from a probe for an architecture.                     *)
MeasuredFrom(probe, a, compiler) ==
  RunSource([manifest |-> [probe EXCEPT !.arch = a], hash |-> ManifestHash(probe, a)], a, compiler)
Changed(file, old, new) == [file EXCEPT !.items = (@ \ {i \in @ : i.id = old.id}) \cup {new}]
ItemOf(file, id) == CHOOSE i \in file.items : i.id = id

(* What may be checked in for an architecture.                             *)
BaselineFiles(a) ==
  LET good == MeasuredFrom(CommitProbe, a, "clang-cl")
      with(id, new) == Changed(good, ItemOf(good, id), new)
  IN {<<>>} \cup {<<f>> : f \in {
       good,
       MeasuredFrom(Probe(ProbeItems \ {Item(8)}), a, "msvc"),
       MeasuredFrom([CommitProbe EXCEPT !.sdk = "sdk2"], a, "msvc"),
       [MeasuredFrom(CommitProbe, IF a = "386" THEN "amd64" ELSE "386", "msvc") EXCEPT !.arch = a],
       [good EXCEPT !.items = @ \ {ItemOf(good, 8)}],
       [good EXCEPT !.items = @ \ {ItemOf(good, 2)}],
       [good EXCEPT !.items = @ \cup {[ItemOf(good, 8) EXCEPT !.id = 9]}],
       with(2, [ItemOf(good, 2) EXCEPT !.value = 2]),
       with(4, [ItemOf(good, 4) EXCEPT !.mask = 1..3, !.offset = 1]),
       with(1, [ItemOf(good, 1) EXCEPT !.size = 24, !.fields = {[id |-> 1, name |-> "b", offset |-> 12], [id |-> 2, name |-> "a", offset |-> 1]}]),
       with(1, [ItemOf(good, 1) EXCEPT !.fields = {f \in @ : f.id = 2}]),
       with(1, [ItemOf(good, 1) EXCEPT !.alignment = 0])}}
GoodBaselines(probe) == [a \in Executed |-> <<MeasuredFrom(probe, a, "clang-cl")>>]

LayoutsOfR == <<[LayoutOf("386", 0, <<>>) EXCEPT !.size = 8], [LayoutOf("amd64", 0, <<>>) EXCEPT !.alignment = 8]>>
CommitInventory(v) ==
  {RecordSymbol("neutral", Record("struct", LayoutsOfR, <<Field("a", "", Pointer), Field("B", "b", Pointer)>>)),
   Constant(2, "neutral", <<<<v>>>>), Guid(3, "neutral", <<1>>), Function(4, "neutral", "stdcall", <<"int32()">>),
   Interface(5, "neutral", <<Method("Release", 2)>>)}

CommitLock == [wellFormed |-> TRUE, sources |-> <<Source("s1", "v1", "sdk1"), Source("s2", "v1", "sdk2")>>]
CommitLocks ==
  {CommitLock, [CommitLock EXCEPT !.sources[1].version = "v2"], [CommitLock EXCEPT !.sources[1].hash = Hash("v2")],
   [CommitLock EXCEPT !.sources = Tail(@)], [CommitLock EXCEPT !.sources = @ \o <<Source("s1", "v2", "sdk1")>>]}
CommitSlices ==
  {GoodSlice, [GoodSlice EXCEPT !.artifacts[1].hash = Hash("c2")], [GoodSlice EXCEPT !.inputs[1] = Input("d1", "s2", "v1")],
   [GoodSlice EXCEPT !.inputs[1] = Input("d1", "s1", "v2")], [GoodSlice EXCEPT !.generator = "0.0.9"]}
Commit0 ==
  [probe |-> CommitProbe, baselines |-> GoodBaselines(CommitProbe), slice |-> GoodSlice, files |-> Checkout0,
   lock |-> CommitLock, inventory |-> CommitInventory(1), gate |-> TRUE]

MCCommits ==
  {[Commit0 EXCEPT !.baselines["386"] = f] : f \in BaselineFiles("386")}
  \cup {[Commit0 EXCEPT !.baselines["amd64"] = f, !.inventory = CommitInventory(v)] : f \in BaselineFiles("amd64"), v \in {1, 2}}
  \cup {[Commit0 EXCEPT !.probe = p, !.baselines = GoodBaselines(p)] : p \in {
          Probe({Item(1), Item(5)}),
          Probe({PointerFunction}),
          Probe({[Item(5) EXCEPT !.expectedType = <<"void()">>]}),
          [CommitProbe EXCEPT !.sdk = "sdk2"]}}
  \cup {[Commit0 EXCEPT !.probe = p] : p \in {
          [CommitProbe EXCEPT !.wellFormed = FALSE],
          Probe({Item(8), [Item(8) EXCEPT !.name = "V"]}),
          Probe({[Item(1) EXCEPT !.shape = "class"]}),
          Probe({[Item(2) EXCEPT !.name = "Undeclared"]}),
          Probe(ProbeItems \ {Item(8)})}}
  \cup {[Commit0 EXCEPT !.lock = l, !.slice = m] : l \in CommitLocks, m \in CommitSlices}
  \cup {[Commit0 EXCEPT !.slice = m, !.files = f] : m \in CommitSlices, f \in {"f1" :> "c2", << >>}}
-----------------------------------------------------------------------------
(* What runs                                                               *)
MCInit == (EvidenceInit /\ step = "none" /\ commit = NoReport) \/ (RegenerationInit /\ jobs = << >>)

MCNext ==
  \/ step = "none" /\ EvidenceNext /\ UNCHANGED <<step, commit>>
  \/ step # "none" /\ RegenerationNext /\ UNCHANGED jobs

MCSpec == MCInit /\ [][MCNext]_<<regenerationVars, jobs>>
=============================================================================
