--------------------------- MODULE MetadataImport ---------------------------
(***************************************************************************)
(* The import of one WinMD file (WinMDProvider.Ingest in                   *)
(* generator/internal/metadata/winmd.go): its tables are read row by row   *)
(* into the symbols of the inventory, and a row that cannot be decoded     *)
(* becomes a symbol that says so.                                          *)
(*                                                                         *)
(* A file has a source type; types, each with its fields and methods;      *)
(* enclosing: the type around a nested one; members: properties and        *)
(* events; maps: which type the members from one to another belong to; and *)
(* generics: generic parameters.  Every row says if it is readable.        *)
(***************************************************************************)
EXTENDS Signatures, FiniteSets

CONSTANT Files

(* What the tables of a file hold.  Names are no marks.                    *)
Maybe(S) == {s \in Seq(S) : Len(s) <= 1}

Plain(name) == name \in STRING /\ name \notin Marks

Method ==
  [readable : BOOLEAN, name : STRING, signature : Maybe([params : Seq(SigTypes), ret : SigTypes, varargs : BOOLEAN]),
   import : Maybe([dll : STRING, entry : STRING, convention : STRING, setLastError : BOOLEAN])]

Field == [readable : BOOLEAN, name : STRING, type : Maybe(SigTypes), literal : BOOLEAN, value : BOOLEAN]

ASSUME FileAssumption ==
  \A f \in Files :
    /\ \A i \in DOMAIN f.types :
         LET t == f.types[i] IN
           /\ t.readable \in BOOLEAN /\ Plain(t.name) /\ Plain(t.ns)
           /\ t.fields \in Seq(Field)
           /\ t.methods \in Seq(Method) /\ \A j \in DOMAIN t.methods : Plain(t.methods[j].name)
    /\ f.source # "project-fixture"
    /\ f.types \in Seq(ToSet(f.types)) /\ f.members \in Seq(ToSet(f.members)) /\ f.generics \in Seq(ToSet(f.generics))
    /\ \A m \in ToSet(f.members) \cup ToSet(f.generics) : m.readable \in BOOLEAN

VARIABLES
  file,         \* the metadata
  queue,        \* the rows of its tables that are still to be read
  symbols,      \* what was read
  diagnostics   \* the rows that could not be read

importVars == <<file, queue, symbols, diagnostics>>

None == <<>>

(* newMetadataSymbol, for a row: a table and where in it.  A name is the   *)
(* sequence of its parts.                                                  *)
Symbol(row, ns, kind, name, status) ==
  [row |-> row, source |-> file.source, ns |-> ns, kind |-> kind, name |-> name, owner |-> <<>>,
   canonical |-> <<kind, ns>> \o name, arch |-> "neutral", status |-> status, type |-> None, constant |-> FALSE, function |-> None, slot |-> None]

RowError(row, ns) ==
  [Symbol(row, ns, "opaque", <<"error">>, "source-parse-error") EXCEPT !.canonical = <<"metadata-row-error", ToString(row)>>]

(* Mutant: a row that cannot be decoded is skipped.                        *)
Skipped(row, ns) == None

Unreadable(row, ns) == <<RowError(row, ns)>>

-----------------------------------------------------------------------------
(* The type that so many steps outwards from a type lead to, or 0.         *)
Around(i) ==
  LET up[n \in 0..Len(file.types)] ==
        IF n = 0 THEN i ELSE IF up[n - 1] \in DOMAIN file.enclosing THEN file.enclosing[up[n - 1]] ELSE 0
  IN up

(* ownedTypeName: the readable types around a type, from the outermost to  *)
(* itself; a type met twice ends the walk.                                 *)
Owners(i) ==
  LET up == Around(i)
      ends(n) == \/ up[n] \notin DOMAIN file.types \/ ~file.types[up[n]].readable
                 \/ \E k \in 0..(n - 1) : up[k] = up[n]
      met == CHOOSE n \in 0..Len(file.types) : ends(n) /\ \A k \in 0..(n - 1) : ~ends(k)
  IN [k \in 1..met |-> up[met - k]]

(* Mutant: a member is filed under the namespace of its own type.          *)
OwnNamespace(i) == file.types[i].ns

(* The namespace is that of the outermost type that has one.               *)
Namespace(i) ==
  LET named == {k \in DOMAIN Owners(i) : file.types[Owners(i)[k]].ns # ""}
  IN IF named = {} THEN "" ELSE file.types[Owners(i)[CHOOSE k \in named : \A l \in named : k <= l]].ns

QualifiedName(i) == [k \in DOMAIN Owners(i) |-> file.types[Owners(i)[k]].name]

WinRT(ns) == ns \in file.winrt

TypeDefKind(t) ==
  IF t.interface THEN IF WinRT(t.ns) THEN "winrt-interface" ELSE "com-interface"
  ELSE CASE t.extends = "System.Enum" -> "enum"
         [] t.extends = "System.ValueType" -> "struct"
         [] t.extends = "System.MulticastDelegate" -> "delegate"
         [] OTHER -> IF WinRT(t.ns) THEN "runtime-class" ELSE "struct"

TypeSymbol(i) ==
  LET kind == TypeDefKind(file.types[i])
  IN [Symbol(<<"TypeDef", i>>, Namespace(i), kind, QualifiedName(i), "unsupported-projection")
      EXCEPT !.type = <<[kind |-> kind, go |-> <<file.types[i].name>>]>>]

FieldSymbol(i, j) ==
  LET f == file.types[i].fields[j]
      projected == IF f.type = None THEN [kind |-> "opaque", go |-> <<"uintptr">>]
                   ELSE LET t == ProjectSigType[f.type[1]] IN [kind |-> t.kind, go |-> t.go]
  IN [Symbol(<<"Field", i, j>>, Namespace(i), IF f.literal THEN "constant" ELSE "typedef", <<f.name>>,
             IF f.type = None THEN "source-parse-error" ELSE "unsupported-projection")
      EXCEPT !.owner = QualifiedName(i), !.canonical = <<"field", Namespace(i)>> \o QualifiedName(i) \o <<".", f.name, ":">>
                           \o (IF f.type = None THEN <<"unparsed">> ELSE CanonicalSigType[f.type[1]]),
             !.type = <<projected>>, !.constant = f.literal /\ f.value]

(* The function a method projects to, and its import if it has one.        *)
Imported(m) ==
  LET fn == IF m.signature = None THEN UnparsedMethod ELSE ProjectMethod(m.signature[1])
  IN IF m.import = None THEN fn
     ELSE [fn EXCEPT !.dll = m.import[1].dll, !.entry = m.import[1].entry,
                     !.convention = CallingConvention(m.import[1].convention),
                     !.setLastError = m.import[1].setLastError]

MethodStatus(m) ==
  IF m.import # None THEN ImportStatus(Imported(m), m.signature # None, file.source)
  ELSE IF m.signature = None THEN "source-parse-error" ELSE "unsupported-projection"

MethodSymbol(i, j) ==
  LET t == file.types[i]
      m == t.methods[j]
      status == MethodStatus(m)
      fn == [Imported(m) EXCEPT !.optional = status = "generated-purego"]
      before == {k \in 1..(j - 1) : t.methods[k].readable}
  IN [Symbol(<<"MethodDef", i, j>>, Namespace(i), "function", <<m.name>>, status)
      EXCEPT !.owner = QualifiedName(i), !.function = <<fn>>,
             !.canonical = IF m.signature = None THEN <<"method", Namespace(i), m.name, "unparsed">>
                           ELSE CanonicalMethod(QualifiedName(i), m.name, m.signature[1]),
             !.slot = IF TypeDefKind(t) \in {"com-interface", "winrt-interface"}
                      THEN <<Cardinality(before)>> ELSE None]

(* A type with its fields and methods, in their order.                     *)
TypeSymbols(i) ==
  LET t == file.types[i]
  IN IF ~t.readable THEN Unreadable(<<"TypeDef", i>>, "")
     ELSE IF t.name = "<Module>" THEN <<>>
     ELSE <<TypeSymbol(i)>>
          \o FlattenSeq([j \in DOMAIN t.fields |->
               IF t.fields[j].readable THEN <<FieldSymbol(i, j)>> ELSE Unreadable(<<"Field", i, j>>, Namespace(i))])
          \o FlattenSeq([j \in DOMAIN t.methods |->
               IF t.methods[j].readable THEN <<MethodSymbol(i, j)>> ELSE Unreadable(<<"MethodDef", i, j>>, Namespace(i))])

(* The type that a member belongs to: the last readable map that lists it. *)
OwnerOf(member) ==
  LET maps == {k \in DOMAIN file.maps : file.maps[k].readable /\ member \in file.maps[k].members}
  IN IF maps = {} THEN None ELSE <<file.maps[CHOOSE k \in maps : \A l \in maps : l <= k].parent>>

MemberSymbol(i) ==
  LET m == file.members[i]
      owner == OwnerOf(i)
      ns == IF owner = None THEN "" ELSE Namespace(owner[1])
  IN [Symbol(<<"Member", i>>, ns, m.kind, <<m.name>>, "unsupported-projection")
      EXCEPT !.canonical = <<m.kind, ns>> \o (IF owner = None THEN <<>> ELSE QualifiedName(owner[1])) \o <<".", m.name>>,
             !.owner = IF owner = None THEN <<"<unknown-owner>">> ELSE QualifiedName(owner[1])]

-----------------------------------------------------------------------------
Rows(table, s) == [i \in DOMAIN s |-> <<table, i>>]

(* Ingest reads the maps of the members before the first type.             *)
InitImport ==
  /\ file \in Files
  /\ queue = Rows("TypeDef", file.types) \o Rows("Member", file.members) \o Rows("GenericParam", file.generics)
  /\ symbols = <<>>
  /\ diagnostics = {<<"Map", i>> : i \in {k \in DOMAIN file.maps : ~file.maps[k].readable}}

Read(table, found, unread) ==
  /\ queue # <<>> /\ Head(queue)[1] = table
  /\ queue' = Tail(queue)
  /\ symbols' = symbols \o found
  /\ diagnostics' = diagnostics \cup unread
  /\ UNCHANGED file

(* One row of TypeDef, with the fields and methods it lists.               *)
ReadType ==
  LET i == Head(queue)[2]
      t == file.types[i]
      parts == {<<"Field", i, j>> : j \in {k \in DOMAIN t.fields : ~t.fields[k].readable}}
               \cup {<<"MethodDef", i, j>> : j \in {k \in DOMAIN t.methods : ~t.methods[k].readable}}
  IN Read("TypeDef", TypeSymbols(i),
          IF ~t.readable THEN {<<"TypeDef", i>>} ELSE IF t.name = "<Module>" THEN {} ELSE parts)

(* One row of Property or Event.                                           *)
ReadMember ==
  LET i == Head(queue)[2]
      readable == file.members[i].readable
  IN Read("Member", IF readable THEN <<MemberSymbol(i)>> ELSE Unreadable(<<"Member", i>>, ""),
          IF readable THEN {} ELSE {<<"Member", i>>})

ReadGenericParam ==
  LET i == Head(queue)[2]
      row == <<"GenericParam", i>>
      g == file.generics[i]
  IN Read("GenericParam",
          IF g.readable THEN <<Symbol(row, "", "generic-type", <<g.name>>, "unsupported-projection")>> ELSE Unreadable(row, ""),
          IF g.readable THEN {} ELSE {row})

Import == ReadType \/ ReadMember \/ ReadGenericParam
=============================================================================
