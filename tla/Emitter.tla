------------------------------- MODULE Emitter -------------------------------
(***************************************************************************)
(* The emitter (generator/internal/emit/emit.go): which file of which      *)
(* package declares a symbol of the inventory, under which build           *)
(* constraint, and what the accessors of bit fields and unions do.         *)
(*                                                                         *)
(* A symbol has row, source, ns, kind, name, arch, status, and optionally  *)
(* type and function.  The type of a record with accessors has             *)
(*   bits:    Seq([name, offset, width, signed]), the bit fields           *)
(*   layouts: Seq([arch, size, alignment, offsets: view -> offset]), of a  *)
(*            union                                                        *)
(*   views:   view -> arch -> its size                                     *)
(***************************************************************************)
EXTENDS Integers, Sequences, FiniteSets, SequencesExt

CONSTANTS
  IntBits,      \* bits of int32, scaled
  StorageBits   \* bits of the storage of bit fields

Architectures == {"386", "amd64", "arm64"}

Targets == [os : {"windows", "other"}, arch : Architectures, cgo : BOOLEAN]

Neutral == "neutral"

EmittedStatus == {"generated-purego", "generated-assembly", "generated-cgo-bridge",
                  "generated-type-only", "generated-manual-override"}

Emitted(s) == s.source = "project-fixture" \/ s.status \in EmittedStatus

-----------------------------------------------------------------------------
(* Which file declares a symbol.                                           *)
NamedTypes == {"primitive", "native-typedef", "typedef", "handle", "fixed-array"}
RecordTypes == {"guid", "struct", "flexible-array", "runtime-class"}

PerArchitecture(s) == s.kind = "union" /\ Len(s.type[1].layouts) > 1

(* Mutant: a union is declared in the common file too.                     *)
InTypesAlways(s) ==
  /\ s.arch = Neutral /\ s.type # <<>>
  /\ s.kind \in NamedTypes \cup RecordTypes \cup {"union"}

InTypes(s) ==
  /\ s.arch = Neutral /\ s.type # <<>>
  /\ \/ s.kind \in NamedTypes \cup RecordTypes
     \/ s.kind = "union" /\ ~PerArchitecture(s)

InArchTypes(s, arch) ==
  /\ s.type # <<>>
  /\ \/ s.arch = Neutral /\ PerArchitecture(s)
     \/ s.arch = arch

InConstants(s) == s.kind = "constant" /\ s.constant /\ s.arch = Neutral

InCallbacks(s) == s.kind = "callback" /\ s.type # <<>>

InCOM(s) == s.kind = "com-interface" /\ s.type # <<>>

InFunctions(s) == s.kind = "function" /\ s.status = "generated-purego" /\ s.function # <<>>

InAvailability(s) == InFunctions(s) /\ s.function[1].optional

Bridged(s) == s.status = "generated-cgo-bridge" /\ s.function # <<>> /\ s.source = "project-fixture"

GoFiles == {"ztypes", "zconstants", "zcallbacks", "zcom", "zfunctions", "zavailability"} \cup Architectures

RenderedIn(f, s) ==
  CASE f = "ztypes"        -> InTypes(s)
    [] f \in Architectures -> InArchTypes(s, f)
    [] f = "zconstants"    -> InConstants(s)
    [] f = "zcallbacks"    -> InCallbacks(s)
    [] f = "zcom"          -> InCOM(s)
    [] f = "zfunctions"    -> InFunctions(s)
    [] f = "zavailability" -> InAvailability(s)

(* The wrapper of a function: the Go types of its parameters and result,   *)
(* and if it returns the last error too.                                   *)
Wrapper(fn) ==
  [params |-> [i \in DOMAIN fn.params |-> IF fn.params[i].go = <<>> THEN <<"uintptr">> ELSE fn.params[i].go],
   result |-> fn.ret.go, lastError |-> fn.setLastError]

(* renderBridge: the one bridge there is, if the fixture has any.          *)
Bridge(inventory) ==
  {[dir |-> "bridge", file |-> "zbridge", row |-> s.row] :
     s \in {b \in inventory : Bridged(b) /\ b.name = <<"FixtureStructByValue">>}}

(* Render: the declarations, package by package.                           *)
Declared(s) == {[dir |-> s.ns, file |-> f, row |-> s.row] : f \in {g \in GoFiles : RenderedIn(g, s)}}

Render(inventory) == Bridge(inventory) \cup UNION {Declared(s) : s \in {x \in inventory : Emitted(x)}}

(* Does a build for this target compile the file?                          *)
Compiles(f, target) ==
  CASE f \in Architectures -> target.os = "windows" /\ target.arch = f
    [] f \in {"zfunctions", "zavailability"} -> target.os = "windows"
    [] f = "zbridge" -> target.os = "windows" /\ target.cgo
    [] OTHER -> TRUE

-----------------------------------------------------------------------------
(* Accessors.  A storage word is the set of its bits that are one, and the *)
(* storage of a union the set of its bytes that are not zero.              *)
Shifted(bits, by) == {b + by : b \in bits}

Lowest(bits) == CHOOSE b \in bits : \A c \in bits : b <= c

BitField(type, name) == CHOOSE f \in ToSet(type.bits) : f.name = name

(* Mutant: a union is laid out once for all architectures.                 *)
FirstLayout(type, arch) == type.layouts[1]

(* The layout that the file of an architecture renders; a union of one     *)
(* layout is rendered once.                                                *)
Layout(type, arch) ==
  LET own == {i \in DOMAIN type.layouts : Len(type.layouts) > 1 /\ type.layouts[i].arch = arch}
  IN type.layouts[IF own = {} THEN 1 ELSE Lowest(own)]

Members(type) == IF type.bits # <<>> THEN {f.name : f \in {g \in ToSet(type.bits) : g.width # 0}}
                 ELSE DOMAIN type.views

(* Where an accessor starts, and what it may write.                        *)
Offset(type, name, arch) ==
  IF type.bits # <<>> THEN BitField(type, name).offset ELSE Layout(type, arch).offsets[name]

Extent(type, name, arch) ==
  IF type.bits # <<>> THEN BitField(type, name).width ELSE type.views[name][arch]

Mask(type, name, arch) ==
  LET from == Offset(type, name, arch) IN from..(from + Extent(type, name, arch) - 1)

Storage(type, arch) == IF type.bits # <<>> THEN StorageBits ELSE Layout(type, arch).size

(* The alignment of a union's storage: that of an array of no elements     *)
(* before it, which Go/386 cannot align to more than four bytes.           *)
GoAlignment(type, arch) ==
  LET alignment == Layout(type, arch).alignment
  IN IF (arch = "386" /\ alignment > 4) \/ alignment \notin {2, 4, 8} THEN 1 ELSE alignment

(* Mutant: a value that is too wide runs into the next field.              *)
SetUnmasked(ones, type, name, arch, value) ==
  (ones \ Mask(type, name, arch)) \cup (Shifted(value, Offset(type, name, arch)) \cap 0..(StorageBits - 1))

SetMember(ones, type, name, arch, value) ==
  (ones \ Mask(type, name, arch))
  \cup (Shifted(value, Offset(type, name, arch)) \cap Mask(type, name, arch))

(* raw << shift >> shift, on a signed word of IntBits.                     *)
SignExtended(raw, width) ==
  LET shift == IntBits - width
      up == Shifted(raw, shift) \cap 0..(IntBits - 1)
  IN Shifted({b \in up : b >= shift}, -shift)
     \cup (IF IntBits - 1 \in up THEN (IntBits - shift)..(IntBits - 1) ELSE {})

GetMember(ones, type, name, arch) ==
  LET raw == Shifted(ones \cap Mask(type, name, arch), -Offset(type, name, arch))
  IN IF type.bits # <<>> /\ BitField(type, name).signed THEN SignExtended(raw, BitField(type, name).width) ELSE raw
=============================================================================
