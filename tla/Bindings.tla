------------------------------ MODULE Bindings ------------------------------
(***************************************************************************)
(* From metadata to a program that uses the bindings: the import of a      *)
(* WinMD file (MetadataImport), the emission of what it found together     *)
(* with the project's fixture (Emitter), and a Go program, built for one   *)
(* target, that sets the bit fields and union views of a record it shares  *)
(* with C.                                                                 *)
(*                                                                         *)
(* Between the import and the emission an inventory is normalized and      *)
(* overridden (Pipeline); neither adds, drops or reclassifies a symbol.    *)
(***************************************************************************)
EXTENDS MetadataImport, Emitter

CONSTANT Fixture   \* the symbols of the project's fixture

(* A record of the fixture: its bit fields are packed, as C does, in one   *)
(* word; a union has one layout for each architecture, around its views.   *)
RecordForm(type) ==
  /\ type.bits \in Seq([name : STRING, offset : Nat, width : 1..IntBits, signed : BOOLEAN])
  /\ \A i, j \in DOMAIN type.bits : type.bits[i].name = type.bits[j].name => i = j
  /\ \A i \in DOMAIN type.bits :
       LET b == type.bits[i] IN
         /\ b.offset = (IF i = 1 THEN 0 ELSE type.bits[i - 1].offset + type.bits[i - 1].width)
         /\ b.offset + b.width <= StorageBits
  /\ DOMAIN type.views # {} =>
       /\ type.bits = <<>> /\ type.layouts \in Seq(ToSet(type.layouts))
       /\ \A arch \in Architectures : \E l \in ToSet(type.layouts) : l.arch = arch
       /\ \A i, j \in DOMAIN type.layouts : type.layouts[i].arch = type.layouts[j].arch => i = j
       /\ \A l \in ToSet(type.layouts) :
            /\ l.size \in Nat /\ l.alignment \in {1, 2, 4, 8}
            /\ \A view \in DOMAIN type.views :
                 /\ l.offsets[view] \in Nat /\ type.views[view][l.arch] \in Nat \ {0}
                 /\ l.offsets[view] + type.views[view][l.arch] <= l.size

(* The declarations of the fixture: types, of each architecture or of      *)
(* none; functions that are called, or not; and the function that has the  *)
(* bridge.                                                                 *)
TypeForm(s) ==
  /\ s.type # None /\ s.status \in EmittedStatus \ {"generated-cgo-bridge"}
  /\ \/ s.arch = Neutral /\ s.kind \in NamedTypes \cup RecordTypes \cup {"union", "callback", "com-interface"}
     \/ s.arch \in Architectures /\ s.kind \in RecordTypes
  /\ s.kind \in {"struct", "union"} => RecordForm(s.type[1])
  /\ s.kind = "union" => DOMAIN s.type[1].views # {}

FunctionForm(s) ==
  /\ s.kind = "function" /\ s.type = None /\ s.arch = Neutral /\ s.function # None
  /\ \/ s.status = "generated-purego"
     \/ s.status = "generated-cgo-bridge" /\ s.name = <<"FixtureStructByValue">>
     \/ s.status \notin EmittedStatus

ASSUME FixtureAssumption ==
  /\ IntBits \in Nat /\ StorageBits \in Nat
  /\ \A s, t \in Fixture : s.row = t.row => s = t
  /\ \A s \in Fixture :
       /\ s.row[1] = "fixture" /\ s.source = "project-fixture"
       /\ TypeForm(s) \/ FunctionForm(s)

VARIABLES
  tree,     \* the declarations of the generated packages, once they are rendered
  object,   \* the record the program has, if any: its type, the target's architecture, its storage
  native    \* the same record as C would have it after the same assignments

vars == <<importVars, tree, object, native>>

Inventory == Fixture \cup ToSet(symbols)

Init ==
  /\ InitImport
  /\ tree = None /\ object = None /\ native = {}

Emit ==
  /\ queue = <<>> /\ tree = None
  /\ tree' = <<Render(Inventory)>>
  /\ UNCHANGED <<importVars, object, native>>

(* A program is only followed for bindings of the fixture alone.           *)
FixtureAlone == symbols = <<>>

HasAccessors(s) == s.kind \in {"struct", "union"} /\ Members(s.type[1]) # {}

New(s, target) ==
  /\ tree # None /\ object = None /\ FixtureAlone
  /\ target.os = "windows" /\ HasAccessors(s)
  /\ \E d \in tree[1] : d.row = s.row /\ Compiles(d.file, target)
  /\ object' = <<[type |-> s.type[1], arch |-> target.arch, ones |-> {}]>>
  /\ UNCHANGED <<importVars, tree, native>>

(* What C does with the same member: bit fields are packed from the lowest *)
(* bit up, a union's members lie where the architecture's ABI puts them.   *)
CLayout(type, arch) == CHOOSE l \in ToSet(type.layouts) : l.arch = arch

CMember(type, name, arch) ==
  IF type.bits # <<>>
  THEN LET from[k \in DOMAIN type.bits] == IF k = 1 THEN 0 ELSE from[k - 1] + type.bits[k - 1].width
           i == CHOOSE k \in DOMAIN type.bits : type.bits[k].name = name
       IN from[i]..(from[i] + type.bits[i].width - 1)
  ELSE LET from == CLayout(type, arch).offsets[name] IN from..(from + type.views[name][arch] - 1)

CValue(type, name, arch, memory) ==
  LET at == CMember(type, name, arch)
      value == Shifted(memory \cap at, -Lowest(at))
      width == Cardinality(at)
  IN IF type.bits # <<>> /\ BitField(type, name).signed /\ (width - 1) \in value
     THEN value \cup width..(IntBits - 1) ELSE value

(* The value of a bit field may have any bits of an int.                   *)
Values(type, name, arch) ==
  SUBSET (0..((IF type.bits # <<>> THEN IntBits ELSE Extent(type, name, arch)) - 1))

Set(name, value) ==
  LET o == object[1]
      at == CMember(o.type, name, o.arch)
  IN /\ object' = <<[o EXCEPT !.ones = SetMember(o.ones, o.type, name, o.arch, value)]>>
     /\ native' = (native \ at) \cup (Shifted(value, Lowest(at)) \cap at)
     /\ UNCHANGED <<importVars, tree>>

Use ==
  \/ \E s \in Fixture, target \in Targets : New(s, target)
  \/ /\ object # None
     /\ \E name \in Members(object[1].type) :
          \E value \in Values(object[1].type, name, object[1].arch) : Set(name, value)

Next == (Import /\ UNCHANGED <<tree, object, native>>) \/ Emit \/ Use

Spec == Init /\ [][Next]_vars

-----------------------------------------------------------------------------
(* Every row that is reached is inventoried once, under the namespace of   *)
(* the outermost type around it that has one, and what could not be        *)
(* decoded - and only that - is told both as a symbol and as a diagnostic. *)
(* What <Module> and types that cannot be decoded list is out of reach.    *)
(* (docs/architecture.md:43)                                               *)
Reached ==
  LET types == {i \in DOMAIN file.types : file.types[i].readable /\ file.types[i].name # "<Module>"}
  IN {<<"TypeDef", i>> : i \in {k \in DOMAIN file.types : ~file.types[k].readable \/ file.types[k].name # "<Module>"}}
     \cup (UNION {{<<"Field", i, j>> : j \in DOMAIN file.types[i].fields} : i \in types})
     \cup (UNION {{<<"MethodDef", i, j>> : j \in DOMAIN file.types[i].methods} : i \in types})
     \cup {<<"Member", i>> : i \in DOMAIN file.members}
     \cup {<<"GenericParam", i>> : i \in DOMAIN file.generics}

Readable(row) ==
  CASE row[1] = "TypeDef"   -> file.types[row[2]].readable
    [] row[1] = "Field"     -> file.types[row[2]].fields[row[3]].readable
    [] row[1] = "MethodDef" -> file.types[row[2]].methods[row[3]].readable
    [] row[1] = "Member"    -> file.members[row[2]].readable
    [] OTHER -> file.generics[row[2]].readable

Closed(S) ==
  \A i \in S \cap DOMAIN file.enclosing :
    file.enclosing[i] \in DOMAIN file.types => file.enclosing[i] \in S

(* The types around a type, itself among them.                             *)
Enclosing(i) ==
  {j \in DOMAIN file.types : \A S \in SUBSET DOMAIN file.types : i \in S /\ Closed(S) => j \in S}

OutermostHas(ns, i) ==
  LET named == {j \in Enclosing(i) : file.types[j].ns # ""}
  IN /\ named = {} => ns = ""
     /\ \A j \in named : Enclosing(j) \cap named = {j} => ns = file.types[j].ns

RowsAreInventoried ==
  queue = <<>> =>
    /\ {s.row : s \in ToSet(symbols)} = Reached /\ Len(symbols) = Cardinality(Reached)
    /\ \A s \in ToSet(symbols) :
         /\ ~Readable(s.row) <=> s.row \in diagnostics
         /\ ~Readable(s.row) => s.status = "source-parse-error"
         /\ s.row[1] \in {"TypeDef", "Field", "MethodDef"} /\ (\A i \in DOMAIN file.types : file.types[i].readable)
              => OutermostHas(s.ns, s.row[2])

(* Methods that are told to be the same - one name and one canonical       *)
(* signature in one namespace - have the same parameters and result, to    *)
(* the last modifier, and the same declaring type: only then may their     *)
(* duplicates be numbered as repetitions of one declaration.               *)
IdentityTellsApart ==
  queue = <<>> =>
    \A s, t \in {x \in ToSet(symbols) : x.row[1] = "MethodDef" /\ Readable(x.row)} :
      LET said(x) == file.types[x.row[2]].methods[x.row[3]].signature
      IN (s.ns = t.ns /\ s.name = t.name /\ s.canonical = t.canonical /\ said(s) # None)
           => /\ said(t) # None /\ s.owner = t.owner
              /\ said(s)[1].params = said(t)[1].params /\ said(s)[1].ret = said(t)[1].ret

(* Both: every row has its symbols, and no two declarations share the      *)
(* fields an identity is made of.                                          *)
InventoryIsFaithful == RowsAreInventoried /\ IdentityTellsApart

(* A call is only emitted when each argument and the result is one integer *)
(* that fits the machine word of every architecture, the callee cleans up  *)
(* as the platform does, and its module is not one of the kernel's.  Its   *)
(* wrapper takes and returns Go integers of the same width and sign, and   *)
(* the last error if the metadata says that the function sets it.          *)
(* (docs/scope.md:9, docs/abi-backends.md:30)                              *)
WordSize(arch) == IF arch = "386" THEN 4 ELSE 8

(* The bytes and sign of an integer, on an architecture.                   *)
Integer(bytes, signed) == [arch \in Architectures |-> <<bytes, signed>>]
Word(signed) == [arch \in Architectures |-> <<WordSize(arch), signed>>]

(* Of the element types (ECMA-335), and of Go's and winabi's integers.     *)
Native ==
  [BOOLEAN |-> Integer(1, FALSE), CHAR |-> Integer(2, FALSE), I1 |-> Integer(1, TRUE), U1 |-> Integer(1, FALSE),
   I2 |-> Integer(2, TRUE), U2 |-> Integer(2, FALSE), I4 |-> Integer(4, TRUE), U4 |-> Integer(4, FALSE),
   I8 |-> Integer(8, TRUE), U8 |-> Integer(8, FALSE), I |-> Word(TRUE), U |-> Word(FALSE)]

GoInteger ==
  [go \in {"int8", "uint8", "int16", "uint16", "int32", "uint32", "int64", "uint64", "winabi.INT_PTR", "uintptr"} |->
     CASE go = "int8"   -> Integer(1, TRUE)  [] go = "uint8"  -> Integer(1, FALSE)
       [] go = "int16"  -> Integer(2, TRUE)  [] go = "uint16" -> Integer(2, FALSE)
       [] go = "int32"  -> Integer(4, TRUE)  [] go = "uint32" -> Integer(4, FALSE)
       [] go = "int64"  -> Integer(8, TRUE)  [] go = "uint64" -> Integer(8, FALSE)
       [] go = "winabi.INT_PTR" -> Word(TRUE) [] OTHER -> Word(FALSE)]

Fits(t, go) ==
  /\ t.modifiers = <<>> /\ t.element \in DOMAIN Native
  /\ Len(go) = 1 /\ go[1] \in DOMAIN GoInteger
  /\ \A arch \in Architectures :
       Native[t.element][arch] = GoInteger[go[1]][arch] /\ Native[t.element][arch][1] <= WordSize(arch)

CallsFitWords ==
  tree # None =>
    \A d \in tree[1] : d.file = "zfunctions" /\ d.row[1] = "MethodDef" =>
      LET m == file.types[d.row[2]].methods[d.row[3]]
          s == CHOOSE x \in ToSet(symbols) : x.row = d.row
          wrapper == Wrapper(s.function[1])
      IN /\ m.signature # None /\ m.import # None
         /\ LET sig == m.signature[1] IN
              /\ ~sig.varargs
              /\ Len(wrapper.params) = Len(sig.params)
              /\ \A i \in DOMAIN sig.params : Fits(sig.params[i], wrapper.params[i])
              /\ IF wrapper.result = <<>> THEN sig.ret.element = "VOID" /\ sig.ret.modifiers = <<>>
                 ELSE Fits(sig.ret, wrapper.result)
         /\ m.import[1].convention \notin {"cdecl", "thiscall", "fastcall"}
         /\ ~(file.source = "wdk-winmd" /\ m.import[1].dll \in KernelDLLs)
         /\ wrapper.lastError = m.import[1].setLastError

(* What coverage counts as generated is declared exactly once in every     *)
(* Windows build it is meant for, and what it does not count in none; a    *)
(* call whose export may be missing can be asked if it is there; a bridge  *)
(* is only there with cgo.  (docs/scope.md:62 and 88)       *)
Declarations(s, target) ==
  {d \in tree[1] : d.row = s.row /\ d.file # "zavailability" /\ Compiles(d.file, target)}

MeantFor(s, target) ==
  /\ s.status \in EmittedStatus /\ s.arch \in {Neutral, target.arch}
  /\ s.status = "generated-cgo-bridge" => target.cgo

GeneratedIsDeclared ==
  tree # None =>
    \A s \in Inventory, target \in {t \in Targets : t.os = "windows"} :
      /\ Cardinality(Declarations(s, target)) = IF MeantFor(s, target) THEN 1 ELSE 0
      /\ (s.kind = "function" /\ s.source # "project-fixture" /\ MeantFor(s, target))
           => \E d \in tree[1] : d.row = s.row /\ d.file = "zavailability" /\ d.dir = s.ns

(* Whatever is assigned through the accessors and in whatever order, the   *)
(* record holds what C would have put there, reads back what C would read, *)
(* no accessor reaches outside of it, and it is aligned as in C, save what *)
(* Go/386 cannot.  (docs/architecture.md:70)       *)
AccessorsAgree ==
  object # None =>
    LET o == object[1] IN
      /\ o.ones = native
      /\ o.type.bits = <<>> => LET c == CLayout(o.type, o.arch).alignment
                               IN GoAlignment(o.type, o.arch) = c \/ (o.arch = "386" /\ c > 4)
      /\ \A name \in Members(o.type) :
           /\ GetMember(o.ones, o.type, name, o.arch) = CValue(o.type, name, o.arch, native)
           /\ Mask(o.type, name, o.arch) \subseteq 0..(Storage(o.type, o.arch) - 1)
=============================================================================
