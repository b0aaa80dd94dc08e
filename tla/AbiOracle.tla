------------------------------ MODULE AbiOracle ------------------------------
(***************************************************************************)
(* abi-oracle (src/tools/abi-oracle): a C++ program is generated from the  *)
(* probe manifest for one architecture; compiled and run, it prints what   *)
(* the headers declare there; a new result is compared with the one that   *)
(* is checked in.                                                          *)
(*                                                                         *)
(* Items are those of AbiFacts: in a manifest without what is measured,    *)
(* a bit field with its record and field, a function with its type.  The   *)
(* lists of a file are sorted by ID when they are hashed and compared:     *)
(* here they are sets.  wellFormed stands for strict decoding, the         *)
(* required strings and the shapes of identifiers, headers and numbers.    *)
(***************************************************************************)
EXTENDS AbiVerification

CONSTANT
  Headers   \* target -> native name -> what a compiler for that target finds

-----------------------------------------------------------------------------
ValidManifest(manifest) ==
  /\ manifest.wellFormed /\ manifest.arch \in Architectures
  /\ UniqueIds(manifest.items)
  /\ \A i \in manifest.items : i.kind = "record" => i.shape \in {"struct", "union"} /\ UniqueIds(i.fields)

(* The hash of the manifest with its lists sorted, architecture included.  *)
SortedHash(manifest) == Hash(manifest)

(* The generated program, or <<>>.                                         *)
GenerateSource(manifest) ==
  IF ~ValidManifest(manifest) THEN <<>> ELSE <<[manifest |-> manifest, hash |-> SortedHash(manifest)]>>

(* What a compiler predefines: ARM64EC code is X64 code to the headers.    *)
Macros(target) ==
  CASE target = "386"     -> {"_M_IX86"}
    [] target = "amd64"   -> {"_M_X64"}
    [] target = "arm64"   -> {"_M_ARM64"}
    [] target = "arm64ec" -> {"_M_X64", "_M_ARM64EC"}

ArchitectureAssertion(arch, macros) ==
  CASE arch = "386"     -> "_M_IX86" \in macros
    [] arch = "amd64"   -> "_M_X64" \in macros /\ "_M_ARM64EC" \notin macros
    [] arch = "arm64"   -> "_M_ARM64" \in macros /\ "_M_ARM64EC" \notin macros
    [] arch = "arm64ec" -> "_M_ARM64EC" \in macros

CompiledArchitecture(macros) ==
  IF "_M_ARM64EC" \in macros THEN "arm64ec"
  ELSE IF "_M_IX86" \in macros THEN "386"
  ELSE IF "_M_X64" \in macros THEN "amd64" ELSE "arm64"

(* The target is the manifest's, every name is declared, and every         *)
(* function has the type that the manifest expects.                        *)
Compiles(source, target) ==
  /\ ArchitectureAssertion(source.manifest.arch, Macros(target))
  /\ \A i \in source.manifest.items :
       /\ i.name \in DOMAIN Headers[target]
       /\ i.kind = "function" => Headers[target][i.name].type = i.expectedType

-----------------------------------------------------------------------------
FirstSetBit(mask, bytes) == IF mask = {} THEN 8 * bytes ELSE Min(mask)
Popcount(mask) == Cardinality(mask)

(* What the program prints for an item.  A record's bit field is set to    *)
(* all ones to see its bits; the slot of a method is where it is in the    *)
(* table; the convention of a function is the manifest's: its type, which  *)
(* contains it, was checked by the compiler.                               *)
Emit(item, target) ==
  LET native == Headers[target][item.name]
  IN CASE item.kind = "record" ->
            [kind |-> "record", id |-> item.id, name |-> item.name, shape |-> item.shape,
             size |-> native.size, alignment |-> native.alignment,
             fields |-> {[id |-> f.id, name |-> f.name, offset |-> native.offset[f.name]] : f \in item.fields}]
       [] item.kind = "bitfield" ->
            [kind |-> "bitfield", id |-> item.id, name |-> item.name, bytes |-> native.bytes,
             mask |-> native.mask, offset |-> FirstSetBit(native.mask, native.bytes), width |-> Popcount(native.mask)]
       [] item.kind = "function" ->
            [kind |-> "function", id |-> item.id, name |-> item.name, typeCompatible |-> TRUE, convention |-> item.convention]
       [] item.kind = "vtable" ->
            [kind |-> "vtable", id |-> item.id, name |-> item.name, method |-> item.method,
             index |-> native.offset[item.method] \div PointerLayout(target)[1]]
       [] OTHER -> [kind |-> item.kind, id |-> item.id, name |-> item.name, value |-> native.value]

RunSource(source, target, compiler) ==
  [wellFormed |-> TRUE, arch |-> CompiledArchitecture(Macros(target)), source |-> source.manifest.source,
   sdk |-> source.manifest.sdk, profile |-> source.manifest.profile, manifest |-> source.hash,
   compiler |-> compiler, items |-> {Emit(i, target) : i \in source.manifest.items}]

-----------------------------------------------------------------------------
ValidResult(result1) ==
  /\ LoadedOracle(result1)
  /\ \A i \in result1.items :
       /\ i.kind = "record" => i.size # 0 /\ i.shape \in {"struct", "union"}
       /\ i.kind = "bitfield" => i.width # 0

(* The items in the order of their IDs, which differ.                      *)
Rank(items, item) == Cardinality({i \in items : i.id <= item.id})
ByID(items) == [n \in 1..Cardinality(items) |-> CHOOSE i \in items : Rank(items, i) = n]

ListNames == {"record", "value", "guid", "bitfield", "function", "vtable", "condition"}

(* compareValue of two lists: element by element, as far as the longer one.*)
(* A key that is missing on one side differs.                              *)
CompareObjects(x, y) == {<<k>> : k \in {k \in (DOMAIN x \cup DOMAIN y) \ {"fields"} :
                                          k \notin DOMAIN x \cap DOMAIN y \/ x[k] # y[k]}}

CompareLists(xs, ys, Element(_, _)) ==
  LET shared == DOMAIN xs \cap DOMAIN ys
  IN (UNION {{<<i>> \o p : p \in Element(xs[i], ys[i])} : i \in shared})
     \cup {<<i>> : i \in (DOMAIN xs \cup DOMAIN ys) \ shared}

CompareElements(x, y) ==
  CompareObjects(x, y)
  \cup IF x.kind = "record"
       THEN {<<"fields">> \o p : p \in CompareLists(ByID(x.fields), ByID(y.fields), CompareObjects)} ELSE {}

(* Mutant: elements that only one of the files has are passed over.        *)
CompareShared(expected, actual) ==
  CompareObjects([expected EXCEPT !.items = {}, !.compiler = ""], [actual EXCEPT !.items = {}, !.compiler = ""])
  \cup UNION {
    LET xs == ByID({i \in expected.items : i.kind = list})
        ys == ByID({i \in actual.items : i.kind = list})
    IN UNION {{<<list, i>> \o p : p \in CompareElements(xs[i], ys[i])} : i \in DOMAIN xs \cap DOMAIN ys} : list \in ListNames}

(* Mutant: files of the same manifest are taken to be the same.            *)
CompareHeaders(expected, actual) ==
  CompareObjects([expected EXCEPT !.items = {}, !.compiler = ""], [actual EXCEPT !.items = {}, !.compiler = ""])

(* The paths at which two results differ, the compiler aside.              *)
CompareResults(expected, actual) ==
  CompareObjects([expected EXCEPT !.items = {}, !.compiler = ""], [actual EXCEPT !.items = {}, !.compiler = ""])
  \cup UNION {{<<list>> \o p : p \in CompareLists(ByID({i \in expected.items : i.kind = list}),
                                                  ByID({i \in actual.items : i.kind = list}), CompareElements)} :
              list \in ListNames}
=============================================================================
