------------------------------- MODULE AbiFacts -------------------------------
(***************************************************************************)
(* What winapiverify compares (src/generator/internal/verify/compare.go):  *)
(* the facts that a compiled C++ oracle measured, against what the         *)
(* normalized inventory says about the same native name.                   *)
(*                                                                         *)
(* An optional value is a sequence of at most one element; IDs are numbers *)
(* in the order of their strings.  Every measured thing has a kind, an id, *)
(* a native name, and the fields of its kind:                              *)
(*   record      shape, size, alignment, fields: set of [id, name, offset] *)
(*   value, guid value                                                     *)
(*   bitfield    offset, width, mask (a set of bits), bytes                *)
(*   function    convention, typeCompatible                                *)
(*   vtable      method, index              (name is that of the interface)*)
(*   condition   value                                                     *)
(***************************************************************************)
EXTENDS Integers, Sequences, FiniteSets, SequencesExt

(* The first element of a list at one of these places, if there is one.    *)
FirstAt(s, places) == IF places = {} THEN <<>> ELSE <<s[Min(places)]>>

-----------------------------------------------------------------------------
(* Layouts.  A type is one of                                              *)
(*   [class |-> "pointer"]                                                 *)
(*   [class |-> "scalar", bytes |-> 1, 2, 4 or 8]                          *)
(*   [class |-> "array", element |-> a pointer, scalar or named, length]   *)
(*   [class |-> "named", layouts |-> Seq([arch, size, alignment])]         *)
(*   [class |-> "unknown"]                                                 *)
Neutral == {"neutral", "all"}

FindLayout(layouts, arch) ==
  LET exact == FirstAt(layouts, {i \in DOMAIN layouts : layouts[i].arch = arch})
  IN IF exact # <<>> THEN exact ELSE FirstAt(layouts, {i \in DOMAIN layouts : layouts[i].arch \in Neutral})

PointerLayout(arch) ==
  IF arch = "386" THEN <<4, 4>> ELSE IF arch \in {"amd64", "arm64", "arm64ec"} THEN <<8, 8>> ELSE <<>>

(* Size and alignment, or <<>>.  An element of size zero would divide by   *)
(* zero: no input has one.                                                 *)
ElementLayout(type, arch) ==
  CASE type.class = "pointer" -> PointerLayout(arch)
    [] type.class = "scalar"  -> <<type.bytes, type.bytes>>
    [] type.class = "named"   -> LET found == FindLayout(type.layouts, arch)
                                 IN IF found = <<>> THEN <<>> ELSE <<found[1].size, found[1].alignment>>
    [] OTHER -> <<>>

TypeLayout(type, arch) ==
  IF type.class # "array" THEN ElementLayout(type, arch)
  ELSE LET element == ElementLayout(type.element, arch)
       IN IF element = <<>> THEN <<>> ELSE <<element[1] * type.length, element[2]>>

AlignUp(value, alignment) ==
  IF alignment <= 1 \/ value % alignment = 0 THEN value ELSE value + alignment - (value % alignment)

(* fields: Seq([name, native, type, bits]); layout has arch, size,         *)
(* alignment, pack and fields: Seq([name, offset]), often empty.           *)
FindModelField(fields, native) ==
  LET called(f) == native \in {f.name, IF f.native = "" THEN f.name ELSE f.native}
  IN FirstAt(fields, {i \in DOMAIN fields : called(fields[i])})

DerivedOffsets(fields, pack, arch) ==
  LET layouts == [i \in DOMAIN fields |-> TypeLayout(fields[i].type, arch)]
      known == \A i \in DOMAIN fields :
                 fields[i].bits = <<>> /\ layouts[i] # <<>> /\ layouts[i][2] # 0
      alignment(i) == IF pack # 0 /\ layouts[i][2] > pack THEN pack ELSE layouts[i][2]
      end[i \in 0..Len(fields)] ==
        IF i = 0 THEN 0 ELSE AlignUp(end[i - 1], alignment(i)) + layouts[i][1]
  IN IF known THEN {<<fields[i].name, AlignUp(end[i - 1], alignment(i))>> : i \in DOMAIN fields} ELSE {}

(* Mutant: the packing of the record is ignored.                           *)
UnpackedOffsets(record, layout, arch) ==
  IF layout.fields # <<>> THEN {<<layout.fields[i].name, layout.fields[i].offset>> : i \in DOMAIN layout.fields}
  ELSE IF record.kind = "union" THEN {<<record.fields[i].name, 0>> : i \in DOMAIN record.fields}
  ELSE IF record.kind = "struct" THEN DerivedOffsets(record.fields, 0, arch) ELSE {}

(* Pairs of a field's name and its offset; none when they are not known.   *)
RecordOffsets(record, layout, arch) ==
  IF layout.fields # <<>>
  THEN UNION {LET l == layout.fields[i]
                  f == FindModelField(record.fields, l.name)
              IN {<<l.name, l.offset>>} \cup {<<f[j].name, l.offset>> : j \in DOMAIN f} :
              i \in DOMAIN layout.fields}
  ELSE IF record.kind = "union" THEN {<<record.fields[i].name, 0>> : i \in DOMAIN record.fields}
  ELSE IF record.kind = "struct" THEN DerivedOffsets(record.fields, layout.pack, arch) ELSE {}

-----------------------------------------------------------------------------
(* Which symbol a native name means.  A symbol has id, name, kind, arch,   *)
(* and optionally type, constant, guid and function.                       *)
ArchitectureScore(symbol, target) ==
  IF symbol = target THEN 2 ELSE IF symbol \in Neutral THEN 1 ELSE -1

(* Mutant: the architecture only has to fit.                               *)
LowestId(candidates, arch) ==
  LET fit == {s \in candidates : ArchitectureScore(s.arch, arch) > 0}
  IN {s \in fit : \A o \in fit : s.id <= o.id}

(* The best one: at most one symbol, since IDs are unique.                 *)
Best(candidates, arch) ==
  LET score(s) == ArchitectureScore(s.arch, arch)
      fit == {s \in candidates : score(s) >= 0}
      top == {s \in fit : \A o \in fit : score(o) <= score(s)}
  IN {s \in top : \A o \in top : s.id <= o.id}

Kinds(item) ==
  CASE item.kind = "record"   -> {"struct", "union", "guid"}
    [] item.kind = "value"    -> {"constant"}
    [] item.kind = "bitfield" -> {"struct", "union"}
    [] item.kind = "function" -> {"function"}
    [] item.kind = "vtable"   -> {"com-interface", "winrt-interface"}
    [] OTHER -> {}

(* probe is what the probe manifest says of the same item: the record and  *)
(* field of a bit field, the native type of a function.                    *)
Find(inventory, arch, item, probe) ==
  LET name == IF item.kind = "bitfield" THEN probe.record ELSE item.name
  IN Best({s \in inventory : s.name = name
                             /\ IF item.kind = "guid" THEN s.guid # <<>> ELSE s.kind \in Kinds(item)}, arch)

(* Has the symbol the part to compare?                                     *)
Comparable(symbol, item) ==
  CASE item.kind \in {"record", "bitfield", "vtable"} -> symbol.type # <<>>
    [] item.kind = "value"    -> symbol.constant # <<>>
    [] item.kind = "guid"     -> symbol.guid # <<>>
    [] item.kind = "function" -> symbol.function # <<>>
    [] OTHER -> FALSE

-----------------------------------------------------------------------------
(* The outcome of one fact: "kind" is the mismatch of a record's kind,     *)
(* which is no fact of its own.                                            *)
Says(fact, outcome) == [fact |-> fact, outcome |-> outcome]

SaysEqual(fact, expected, actual) ==
  Says(fact, IF expected = actual THEN "matched" ELSE "mismatched")

Equal(fact, expected, actual) == <<SaysEqual(fact, expected, actual)>>

(* The facts of an item, as they are listed.                               *)
Facts(item) ==
  CASE item.kind = "record"   -> LET fields == SetToSeq(item.fields)
                                 IN <<<<"size">>, <<"alignment">>>>
                                    \o [i \in DOMAIN fields |-> <<"offset", fields[i].id>>]
    [] item.kind = "bitfield" -> <<<<"maskHex">>, <<"bitOffset">>, <<"bitWidth">>>>
    [] item.kind = "function" -> <<<<"typeCompatible">>, <<"callingConvention">>>>
    [] item.kind = "vtable"   -> <<<<"index">>>>
    [] OTHER -> <<<<"value">>>>

UnmatchedMany(item) == [i \in DOMAIN Facts(item) |-> Says(Facts(item)[i], "unmatched")]

CompareField(record, offsets, field) ==
  LET found == FindModelField(record.fields, field.name)
      known == IF found = <<>> THEN {} ELSE {o \in offsets : o[1] = found[1].name}
      fact  == <<"offset", field.id>>
  IN IF known = {} THEN Says(fact, "unmatched")
     ELSE SaysEqual(fact, field.offset, (CHOOSE o \in known : TRUE)[2])

(* Mutant: the comparison of a record ends with the mismatch of its kind.  *)
CompareRecordUntilKind(symbol, item, arch) ==
  LET record == symbol.type[1]
      kind == IF symbol.kind = "guid" THEN "struct" ELSE record.kind
      layout == FindLayout(record.layouts, arch)
      offsets == RecordOffsets(record, layout[1], arch)
      fields == SetToSeq(item.fields)
  IN IF kind # item.shape THEN <<Says(<<"kind">>, "kind")>>
     ELSE IF layout = <<>> THEN UnmatchedMany(item)
     ELSE Equal(<<"size">>, item.size, layout[1].size)
          \o Equal(<<"alignment">>, item.alignment, layout[1].alignment)
          \o [i \in DOMAIN fields |-> CompareField(record, offsets, fields[i])]

CompareRecord(symbol, item, arch) ==
  LET record == symbol.type[1]
      kind == IF symbol.kind = "guid" THEN "struct" ELSE record.kind
      layout == FindLayout(record.layouts, arch)
      offsets == RecordOffsets(record, layout[1], arch)
      fields == SetToSeq(item.fields)
  IN IF kind # item.shape THEN <<Says(<<"kind">>, "kind")>> \o UnmatchedMany(item)
     ELSE IF layout = <<>> THEN UnmatchedMany(item)
     ELSE Equal(<<"size">>, item.size, layout[1].size)
          \o Equal(<<"alignment">>, item.alignment, layout[1].alignment)
          \o [i \in DOMAIN fields |-> CompareField(record, offsets, fields[i])]

(* A constant that is no exact integer has constant = << <<>> >>.          *)
CompareConstant(symbol, item) ==
  IF symbol.constant[1] = <<>> THEN UnmatchedMany(item)
  ELSE Equal(<<"value">>, item.value, symbol.constant[1][1])

BitMask(bits, bytes) ==
  IF bits.offset + bits.width > 8 * bytes THEN <<>> ELSE <<bits.offset..bits.offset + bits.width - 1>>

CompareBitField(symbol, item, probe) ==
  LET found == FindModelField(symbol.type[1].fields, probe.field)
      bits == found[1].bits[1]
      mask == BitMask(bits, item.bytes)
  IN IF found = <<>> \/ found[1].bits = <<>> THEN UnmatchedMany(item)
     ELSE Equal(<<"bitOffset">>, item.offset, bits.offset)
          \o Equal(<<"bitWidth">>, item.width, bits.width)
          \o IF mask = <<>> THEN <<Says(<<"maskHex">>, "unmatched")>>
             ELSE Equal(<<"maskHex">>, item.mask, mask[1])

CallingConventionEquivalent(projected, native) ==
  projected = native \/ (native = "winapi" /\ projected \in {"platform", "stdcall"})

(* The native type and the projected one are shapes, or <<>> when they     *)
(* cannot be normalized.                                                   *)
CompareFunction(symbol, item, probe) ==
  LET function == symbol.function[1]
  IN <<Says(<<"callingConvention">>,
            IF CallingConventionEquivalent(function.convention, item.convention) THEN "matched" ELSE "mismatched")>>
     \o IF probe.expectedType = <<>> \/ function.shape = <<>> THEN <<Says(<<"typeCompatible">>, "unmatched")>>
        ELSE <<Says(<<"typeCompatible">>,
                    IF probe.expectedType = function.shape /\ item.typeCompatible THEN "matched" ELSE "mismatched")>>

CompareVTable(symbol, item) ==
  LET methods == symbol.type[1].methods
      found == FirstAt(methods, {i \in DOMAIN methods : methods[i].name = item.method})
  IN IF found = <<>> THEN UnmatchedMany(item) ELSE Equal(<<"index">>, item.index, found[1].index)

Compare(symbol, item, probe, arch) ==
  CASE item.kind = "record"   -> CompareRecord(symbol, item, arch)
    [] item.kind = "value"    -> CompareConstant(symbol, item)
    [] item.kind = "guid"     -> Equal(<<"value">>, item.value, symbol.guid[1])
    [] item.kind = "bitfield" -> CompareBitField(symbol, item, probe)
    [] item.kind = "function" -> CompareFunction(symbol, item, probe)
    [] item.kind = "vtable"   -> CompareVTable(symbol, item)

-----------------------------------------------------------------------------
(* One entry per item of the oracle: the symbol found, if any, and the     *)
(* outcomes appended for it.                                               *)
CompareItem(inventory, arch, item, probe) ==
  LET found == {s \in Find(inventory, arch, item, probe) : Comparable(s, item)}
  IN [item   |-> item,
      symbol |-> {s.id : s \in found},
      says   |-> IF found = {} THEN UnmatchedMany(item)
                 ELSE Compare(CHOOSE s \in found : TRUE, item, probe, arch)]

(* probes: the items of the probe manifest, with the same ids.             *)
CompareInventory(inventory, probes, oracle) ==
  {CompareItem(inventory, oracle.arch, i, CHOOSE p \in probes : p.id = i.id) : i \in oracle.items}

(* As they are counted.                                                    *)
FactCount(item) ==
  CASE item.kind = "record"   -> 2 + Cardinality(item.fields)
    [] item.kind = "bitfield" -> 3
    [] item.kind = "function" -> 2
    [] OTHER -> 1

Saying(entry, outcomes) == {i \in DOMAIN entry.says : entry.says[i].outcome \in outcomes}

Count(entry, outcomes) == Cardinality(Saying(entry, outcomes))

(* The counters of a summary, over all entries and over all items: a sum   *)
(* is the size of a disjoint union.                                        *)
Total(entries, outcomes) == Cardinality(UNION {{e} \X Saying(e, outcomes) : e \in entries})

FactTotal(items) == Cardinality(UNION {{i} \X (1..FactCount(i)) : i \in items})

(* The symbols of which every compared fact matched.                       *)
Complete(entries) ==
  {id \in UNION {e.symbol : e \in entries} :
     \A e \in entries : id \in e.symbol => Count(e, {"unmatched", "mismatched"}) = 0}
=============================================================================
