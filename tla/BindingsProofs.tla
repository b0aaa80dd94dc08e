--------------------------- MODULE BindingsProofs ---------------------------
(***************************************************************************)
(* From metadata to generated bindings (Bindings), for all files that a    *)
(* reader of metadata may present, however their types nest, for every     *)
(* fixture of the forms there are, and for every width of a word.          *)
(*                                                                         *)
(* A row becomes the one symbol that its table and place say, SymbolOf:    *)
(* at any time the symbols are those of the rows of the heads of the queue *)
(* that were taken, each once.                                             *)
(***************************************************************************)
EXTENDS Bindings, FiniteSetTheorems, SequenceTheorems, WellFoundedInduction, TLAPS

(* The heads of the queue, and the rows that are read with one.            *)
Heads == {<<"TypeDef", i>> : i \in DOMAIN file.types} \cup {<<"Member", i>> : i \in DOMAIN file.members}
         \cup {<<"GenericParam", i>> : i \in DOMAIN file.generics}

PartsOf(i) == {<<"Field", i, j>> : j \in DOMAIN file.types[i].fields}
              \cup {<<"MethodDef", i, j>> : j \in DOMAIN file.types[i].methods}

RowsOf(head) ==
  IF head[1] # "TypeDef" \/ ~file.types[head[2]].readable THEN {head}
  ELSE IF file.types[head[2]].name = "<Module>" THEN {} ELSE {head} \cup PartsOf(head[2])

SymbolOf(row) ==
  CASE ~Readable(row) -> RowError(row, IF row[1] \in {"Field", "MethodDef"} THEN Namespace(row[2]) ELSE "")
    [] Readable(row) /\ row[1] = "TypeDef"   -> TypeSymbol(row[2])
    [] Readable(row) /\ row[1] = "Field"     -> FieldSymbol(row[2], row[3])
    [] Readable(row) /\ row[1] = "MethodDef" -> MethodSymbol(row[2], row[3])
    [] Readable(row) /\ row[1] = "Member"    -> MemberSymbol(row[2])
    [] OTHER -> Symbol(row, "", "generic-type", <<file.generics[row[2]].name>>, "unsupported-projection")

Found == UNION {RowsOf(h) : h \in Heads \ ToSet(queue)}

HeadOf(row) == <<IF row[1] \in {"Field", "MethodDef"} THEN "TypeDef" ELSE row[1], row[2]>>

Distinct(s) == \A a, b \in DOMAIN s : s[a] = s[b] => a = b

Once(s) == \A a, b \in DOMAIN s : s[a].row = s[b].row => a = b

(* s is the symbols of the rows.                                           *)
Holds(s, rows) ==
  /\ s \in Seq({SymbolOf(row) : row \in rows}) /\ Once(s)
  /\ \A row \in rows : \E a \in DOMAIN s : s[a] = SymbolOf(row)

ImportInv ==
  /\ file \in Files
  /\ queue \in Seq(Heads) /\ Distinct(queue)
  /\ Holds(symbols, Found)
  /\ diagnostics = {<<"Map", i>> : i \in {k \in DOMAIN file.maps : ~file.maps[k].readable}}
                   \cup {row \in Found : ~Readable(row)}

(* What is rendered stays what was in the inventory.                       *)
TreeInv == tree # None => queue = <<>> /\ tree = <<Render(Inventory)>>

-----------------------------------------------------------------------------
(* The least element of a set of numbers.                                  *)
LEMMA MinIn ==
  ASSUME NEW S \in SUBSET Nat, S # {}
  PROVE  \E m \in S : \A l \in S : m <= l
<1>1. PICK k \in S : \A l \in S : ~(<<l, k>> \in OpToRel(<, Nat))
  BY NatLessThanWellFounded, WFMin
<1>2. ASSUME NEW l \in S PROVE k <= l
  <2>1. l < k => <<l, k>> \in OpToRel(<, Nat)
    BY DEF OpToRel
  <2>2. ~(l < k)
    BY <1>1, <2>1
  <2>3. k \in Nat /\ l \in Nat
    OBVIOUS
  <2> QED
    BY <2>2, <2>3
<1> QED
  BY <1>2

(* Sequences of one element each, one after the other.                     *)
LEMMA FlattensSingles ==
  ASSUME NEW n \in Nat, NEW S, NEW e \in [1..n -> S]
  PROVE  FlattenSeq([j \in 1..n |-> <<e[j]>>]) = e
<1> DEFINE seqs == [j \in 1..n |-> <<e[j]>>]
           Is(f) == f = [i \in 1..n |-> IF i = 1 THEN seqs[i] ELSE f[i - 1] \o seqs[i]]
           f == CHOOSE f : Is(f)
           g == [i \in 1..n |-> [k \in 1..i |-> e[k]]]
<1>1. seqs \in Seq({<<x>> : x \in S}) /\ Len(seqs) = n /\ DOMAIN seqs = 1..n
  OBVIOUS
<1>2. CASE n = 0
  <2>1. FlattenSeq(seqs) = seqs
    BY <1>1, <1>2 DEF FlattenSeq
  <2>2. seqs = e
    BY <1>2
  <2> QED
    BY <2>1, <2>2
<1>3. CASE n # 0
  <2>1. FlattenSeq(seqs) = f[n]
    BY <1>1, <1>3 DEF FlattenSeq
  <2>2. ASSUME NEW i \in 1..n PROVE g[i] = IF i = 1 THEN seqs[i] ELSE g[i - 1] \o seqs[i]
    <3>1. CASE i = 1
      BY <3>1
    <3>2. CASE i # 1
      <4>1. i - 1 \in 1..n /\ i \in 1..n /\ n \in Nat
        BY <3>2
      <4>2. g[i - 1] = [k \in 1..(i - 1) |-> e[k]] /\ seqs[i] = <<e[i]>> /\ g[i] = [k \in 1..i |-> e[k]]
        BY <4>1
      <4>3. [k \in 1..(i - 1) |-> e[k]] \in Seq(S) /\ Len([k \in 1..(i - 1) |-> e[k]]) = i - 1 /\ <<e[i]>> \in Seq(S)
        BY <4>1
      <4>4. [k \in 1..(i - 1) |-> e[k]] \o <<e[i]>> = [k \in 1..i |-> e[k]]
        BY <4>1, <4>3
      <4> QED
        BY <3>2, <4>2, <4>4
    <3> QED
      BY <3>1, <3>2
  <2>3. Is(g)
    <3> DEFINE h == [i \in 1..n |-> IF i = 1 THEN seqs[i] ELSE g[i - 1] \o seqs[i]]
    <3>1. ASSUME NEW i \in 1..n PROVE g[i] = h[i]
      BY <2>2
    <3>2. DOMAIN g = 1..n /\ DOMAIN h = 1..n /\ g = [i \in DOMAIN g |-> g[i]] /\ h = [i \in DOMAIN h |-> h[i]]
      OBVIOUS
    <3> HIDE DEF g, h
    <3>3. g = h
      BY <3>1, <3>2
    <3> QED
      BY <3>3 DEF h
  <2>4. Is(f)
    BY <2>3
  <2>5. f[1] = g[1] /\ \A i \in 2..n : f[i - 1] = g[i - 1] => f[i] = g[i]
    <3>1. \A i \in 1..n : f[i] = IF i = 1 THEN seqs[i] ELSE f[i - 1] \o seqs[i]
      BY <2>4
    <3> HIDE DEF f, g, seqs
    <3>2. 1 \in 1..n /\ \A i \in 2..n : i \in 1..n /\ i # 1
      BY <1>3
    <3> QED
      BY <2>2, <3>1, <3>2
  <2> HIDE DEF f, g
  <2>6. \A i \in 1..n : f[i] = g[i]
    <3> DEFINE W == {i \in 1..n : f[i] # g[i]}
    <3>1. W \in SUBSET Nat
      OBVIOUS
    <3>2. ASSUME NEW m \in W, \A l \in W : m <= l PROVE FALSE
      <4>1. m \in 1..n /\ f[m] # g[m]
        OBVIOUS
      <4>2. m # 1 => m - 1 \in 1..n /\ m - 1 \notin W /\ m \in 2..n
        BY <3>2, <4>1
      <4> QED
        BY <2>5, <4>1, <4>2
    <3> HIDE DEF W
    <3>3. W = {}
      BY <3>1, <3>2, MinIn
    <3> QED
      BY <3>3 DEF W
  <2>7. f[n] = g[n] /\ g[n] = e
    BY <1>3, <2>6 DEF g
  <2> QED
    BY <2>1, <2>7
<1> QED
  BY <1>2, <1>3

-----------------------------------------------------------------------------
(* What the metadata says of a row does not change while it is read.       *)
LEMMA SameFile ==
  ASSUME file' = file
  PROVE  /\ Heads' = Heads
         /\ \A row : SymbolOf(row)' = SymbolOf(row) /\ RowsOf(row)' = RowsOf(row) /\ Readable(row)' = Readable(row)
<1>1. Heads' = Heads
  BY DEF Heads
<1>2. ASSUME NEW row PROVE RowsOf(row)' = RowsOf(row) /\ Readable(row)' = Readable(row)
  BY DEF RowsOf, PartsOf, Readable
<1>3. ASSUME NEW row PROVE SymbolOf(row)' = SymbolOf(row)
  <2>3. \A i : TypeSymbol(i)' = TypeSymbol(i)
    BY DEF TypeSymbol, Symbol, TypeDefKind, WinRT, Namespace, QualifiedName, Owners, Around
  <2>4. \A i, j : FieldSymbol(i, j)' = FieldSymbol(i, j)
    BY DEF FieldSymbol, Symbol, Namespace, QualifiedName, Owners, Around
  <2>5. \A i, j : MethodSymbol(i, j)' = MethodSymbol(i, j)
    BY DEF MethodSymbol, MethodStatus, Imported, Symbol, TypeDefKind, WinRT, Namespace, QualifiedName, Owners, Around
  <2>6. \A i : MemberSymbol(i)' = MemberSymbol(i)
    <3>1. \A i : OwnerOf(i)' = OwnerOf(i)
      BY DEF OwnerOf
    <3>2. \A i : Namespace(i)' = Namespace(i) /\ QualifiedName(i)' = QualifiedName(i)
      BY DEF Namespace, QualifiedName, Owners, Around
    <3> QED
      BY <3>1, <3>2 DEF MemberSymbol, Symbol
  <2>7. (RowError(row, IF row[1] \in {"Field", "MethodDef"} THEN Namespace(row[2]) ELSE ""))'
        = RowError(row, IF row[1] \in {"Field", "MethodDef"} THEN Namespace(row[2]) ELSE "")
    BY DEF RowError, Symbol, Namespace, Owners, Around
  <2>8. (Symbol(row, "", "generic-type", <<file.generics[row[2]].name>>, "unsupported-projection"))'
        = Symbol(row, "", "generic-type", <<file.generics[row[2]].name>>, "unsupported-projection")
    BY DEF Symbol
  <2> QED
    BY <1>2, <2>3, <2>4, <2>5, <2>6, <2>7, <2>8 DEF SymbolOf
<1> QED
  BY <1>1, <1>2, <1>3

(* A symbol knows the row that it was made of.                             *)
LEMMA RowOfSymbol ==
  ASSUME NEW row, row \in Heads \/ \E i, j : row \in {<<"Field", i, j>>, <<"MethodDef", i, j>>}
  PROVE  SymbolOf(row).row = row /\ SymbolOf(row).source = file.source /\ SymbolOf(row).arch = "neutral"
<1> DEFINE Known(s) == s.row = row /\ s.source = file.source /\ s.arch = "neutral"
<1> SUFFICES Known(SymbolOf(row))
  OBVIOUS
<1>1. \A ns, kind, name, status : Known(Symbol(row, ns, kind, name, status))
  BY DEF Symbol
<1>2. \A ns : Known(RowError(row, ns))
  BY DEF RowError, Symbol
<1>3. CASE ~Readable(row)
  BY <1>2, <1>3 DEF SymbolOf
<1>4. CASE Readable(row) /\ \E i : row = <<"TypeDef", i>>
  <2>1. PICK i : row = <<"TypeDef", i>>
    BY <1>4
  <2>2. SymbolOf(row) = TypeSymbol(i)
    BY <1>4, <2>1 DEF SymbolOf
  <2>3. Known(TypeSymbol(i))
    BY <2>1 DEF TypeSymbol, Symbol
  <2> QED
    BY <2>2, <2>3
<1>5. CASE Readable(row) /\ \E i, j : row = <<"Field", i, j>>
  <2>1. PICK i, j : row = <<"Field", i, j>>
    BY <1>5
  <2>2. SymbolOf(row) = FieldSymbol(i, j)
    BY <1>5, <2>1 DEF SymbolOf
  <2>3. Known(FieldSymbol(i, j))
    BY <2>1 DEF FieldSymbol, Symbol
  <2> QED
    BY <2>2, <2>3
<1>6. CASE Readable(row) /\ \E i, j : row = <<"MethodDef", i, j>>
  <2>1. PICK i, j : row = <<"MethodDef", i, j>>
    BY <1>6
  <2>2. SymbolOf(row) = MethodSymbol(i, j)
    BY <1>6, <2>1 DEF SymbolOf
  <2>3. Known(MethodSymbol(i, j))
    BY <2>1 DEF MethodSymbol, Symbol
  <2> QED
    BY <2>2, <2>3
<1>7. CASE Readable(row) /\ \E i : row = <<"Member", i>>
  <2>1. PICK i : row = <<"Member", i>>
    BY <1>7
  <2>2. SymbolOf(row) = MemberSymbol(i)
    BY <1>7, <2>1 DEF SymbolOf
  <2>3. Known(MemberSymbol(i))
    BY <2>1 DEF MemberSymbol, Symbol
  <2> QED
    BY <2>2, <2>3
<1>8. CASE Readable(row) /\ \E i : row = <<"GenericParam", i>>
  <2>1. row[1] = "GenericParam"
    BY <1>8
  <2>2. SymbolOf(row) = Symbol(row, "", "generic-type", <<file.generics[row[2]].name>>, "unsupported-projection")
    BY <1>8, <2>1 DEF SymbolOf
  <2> QED
    BY <1>1, <2>2
<1>9. \/ ~Readable(row)
      \/ Readable(row) /\ \E i : row = <<"TypeDef", i>>
      \/ Readable(row) /\ \E i, j : row = <<"Field", i, j>>
      \/ Readable(row) /\ \E i, j : row = <<"MethodDef", i, j>>
      \/ Readable(row) /\ \E i : row = <<"Member", i>>
      \/ Readable(row) /\ \E i : row = <<"GenericParam", i>>
  BY DEF Heads
<1> HIDE DEF Known
<1> QED
  BY <1>3, <1>4, <1>5, <1>6, <1>7, <1>8, <1>9

(* Rows belong to one head.                                                *)
LEMMA RowsHaveOneHead ==
  ASSUME NEW head \in Heads, NEW row \in RowsOf(head)
  PROVE  /\ HeadOf(row) = head
         /\ row \in Heads \/ \E i, j : row \in {<<"Field", i, j>>, <<"MethodDef", i, j>>}
         /\ row[1] \in {"TypeDef", "Field", "MethodDef", "Member", "GenericParam"}
<1>1. CASE row = head
  BY <1>1 DEF Heads, HeadOf
<1>2. CASE row # head
  <2>1. head[1] = "TypeDef" /\ row \in PartsOf(head[2])
    BY <1>2 DEF RowsOf
  <2>2. PICK i : head = <<"TypeDef", i>>
    BY <2>1 DEF Heads
  <2>3. PICK j : row \in {<<"Field", i, j>>, <<"MethodDef", i, j>>}
    BY <2>1, <2>2 DEF PartsOf
  <2> QED
    BY <2>2, <2>3 DEF HeadOf
<1> QED
  BY <1>1, <1>2

LEMMA Forms ==
  ASSUME NEW f \in Files
  PROVE  /\ f.types \in Seq(ToSet(f.types)) /\ f.members \in Seq(ToSet(f.members)) /\ f.generics \in Seq(ToSet(f.generics))
         /\ f.source # "project-fixture"
         /\ \A i \in DOMAIN f.types :
              /\ f.types[i].readable \in BOOLEAN /\ f.types[i].fields \in Seq(Field) /\ f.types[i].methods \in Seq(Method)
              /\ \A j \in DOMAIN f.types[i].methods : Plain(f.types[i].methods[j].name)
         /\ \A i \in DOMAIN f.members : f.members[i].readable \in BOOLEAN
         /\ \A i \in DOMAIN f.generics : f.generics[i].readable \in BOOLEAN
BY FileAssumption DEF ToSet

(* Where the parts of a sequence are.                                      *)
LEMMA OneAfterAnother ==
  ASSUME NEW S, NEW x \in S, NEW f \in Seq(S), NEW m \in Seq(S)
  PROVE  /\ <<x>> \o f \o m \in Seq(S) /\ Len(<<x>> \o f \o m) = 1 + Len(f) + Len(m)
         /\ \A a \in 1..(1 + Len(f) + Len(m)) :
              (<<x>> \o f \o m)[a] = IF a = 1 THEN x ELSE IF a <= 1 + Len(f) THEN f[a - 1] ELSE m[a - 1 - Len(f)]
<1> DEFINE g == <<x>> \o f
<1>1. g \in Seq(S) /\ Len(g) = 1 + Len(f) /\ \A a \in 1..(1 + Len(f)) : g[a] = IF a = 1 THEN x ELSE f[a - 1]
  OBVIOUS
<1> HIDE DEF g
<1>2. g \o m \in Seq(S) /\ Len(g \o m) = Len(g) + Len(m)
      /\ \A a \in 1..(Len(g) + Len(m)) : (g \o m)[a] = IF a <= Len(g) THEN g[a] ELSE m[a - Len(g)]
  BY <1>1
<1>3. Len(f) \in Nat /\ Len(m) \in Nat
  OBVIOUS
<1>4. ASSUME NEW a \in 1..(1 + Len(f) + Len(m))
      PROVE  (g \o m)[a] = IF a = 1 THEN x ELSE IF a <= 1 + Len(f) THEN f[a - 1] ELSE m[a - 1 - Len(f)]
  <2>1. a - (1 + Len(f)) = a - 1 - Len(f)
    BY <1>3
  <2> QED
    BY <1>1, <1>2, <1>3, <2>1
<1> QED
  BY <1>1, <1>2, <1>4 DEF g

(* A type is read with all its fields and methods.                         *)
LEMMA TypeIsRead ==
  ASSUME file \in Files, NEW i \in DOMAIN file.types
  PROVE  Holds(TypeSymbols(i), RowsOf(<<"TypeDef", i>>))
<1> DEFINE t == file.types[i]
           head == <<"TypeDef", i>>
<1>0. t.readable \in BOOLEAN /\ t.fields \in Seq(Field) /\ t.methods \in Seq(Method)
  BY Forms
<1>1. head \in Heads /\ SymbolOf(head).row = head
  BY RowOfSymbol DEF Heads
<1>2. CASE ~t.readable
  <2>1. RowsOf(head) = {head} /\ TypeSymbols(i) = <<SymbolOf(head)>>
    BY <1>2 DEF RowsOf, TypeSymbols, SymbolOf, Readable, Unreadable
  <2> QED
    BY <2>1 DEF Holds, Once
<1>3. CASE t.readable /\ t.name = "<Module>"
  <2>1. RowsOf(head) = {} /\ TypeSymbols(i) = <<>>
    BY <1>3 DEF RowsOf, TypeSymbols
  <2> QED
    BY <2>1 DEF Holds, Once
<1>4. CASE t.readable /\ t.name # "<Module>"
  <2> DEFINE fields == [j \in 1..Len(t.fields) |-> SymbolOf(<<"Field", i, j>>)]
             methods == [j \in 1..Len(t.methods) |-> SymbolOf(<<"MethodDef", i, j>>)]
             s == <<SymbolOf(head)>> \o fields \o methods
             Syms == {SymbolOf(row) : row \in RowsOf(head)}
  <2>1. RowsOf(head) = {head} \cup PartsOf(i)
    BY <1>4 DEF RowsOf
  <2>2. DOMAIN t.fields = 1..Len(t.fields) /\ Len(t.fields) \in Nat /\ DOMAIN t.methods = 1..Len(t.methods) /\ Len(t.methods) \in Nat
    BY <1>0
  <2>3. fields \in Seq(Syms) /\ methods \in Seq(Syms) /\ <<SymbolOf(head)>> \in Seq(Syms)
    BY <2>1, <2>2 DEF PartsOf
  <2>4. TypeSymbols(i) = s
    <3>1. SymbolOf(head) = TypeSymbol(i)
      BY <1>4 DEF SymbolOf, Readable
    <3>2. ASSUME NEW j \in DOMAIN t.fields
          PROVE  (IF t.fields[j].readable THEN <<FieldSymbol(i, j)>> ELSE Unreadable(<<"Field", i, j>>, Namespace(i)))
                 = <<fields[j]>>
      BY <2>2 DEF SymbolOf, Readable, Unreadable
    <3>3. ASSUME NEW j \in DOMAIN t.methods
          PROVE  (IF t.methods[j].readable THEN <<MethodSymbol(i, j)>> ELSE Unreadable(<<"MethodDef", i, j>>, Namespace(i)))
                 = <<methods[j]>>
      BY <2>2 DEF SymbolOf, Readable, Unreadable
    <3>4. FlattenSeq([j \in DOMAIN t.fields |->
             IF t.fields[j].readable THEN <<FieldSymbol(i, j)>> ELSE Unreadable(<<"Field", i, j>>, Namespace(i))]) = fields
      <4>1. fields \in [1..Len(t.fields) -> Syms]
        BY <2>2, <2>3
      <4> HIDE DEF fields
      <4>2. FlattenSeq([j \in 1..Len(t.fields) |-> <<fields[j]>>]) = fields
        BY <2>2, <4>1, FlattensSingles
      <4>3. [j \in DOMAIN t.fields |->
               IF t.fields[j].readable THEN <<FieldSymbol(i, j)>> ELSE Unreadable(<<"Field", i, j>>, Namespace(i))]
            = [j \in 1..Len(t.fields) |-> <<fields[j]>>]
        BY <2>2, <3>2
      <4> QED
        BY <4>2, <4>3
    <3>5. FlattenSeq([j \in DOMAIN t.methods |->
             IF t.methods[j].readable THEN <<MethodSymbol(i, j)>> ELSE Unreadable(<<"MethodDef", i, j>>, Namespace(i))]) = methods
      <4>1. methods \in [1..Len(t.methods) -> Syms]
        BY <2>2, <2>3
      <4> HIDE DEF methods
      <4>2. FlattenSeq([j \in 1..Len(t.methods) |-> <<methods[j]>>]) = methods
        BY <2>2, <4>1, FlattensSingles
      <4>3. [j \in DOMAIN t.methods |->
               IF t.methods[j].readable THEN <<MethodSymbol(i, j)>> ELSE Unreadable(<<"MethodDef", i, j>>, Namespace(i))]
            = [j \in 1..Len(t.methods) |-> <<methods[j]>>]
        BY <2>2, <3>3
      <4> QED
        BY <4>2, <4>3
    <3> QED
      BY <1>4, <3>1, <3>4, <3>5 DEF TypeSymbols
  <2>n. PICK n \in Nat, m \in Nat : n = Len(t.fields) /\ m = Len(t.methods)
    BY <2>2
  <2> DEFINE RowAt(a) == IF a = 1 THEN head ELSE IF a <= 1 + n THEN <<"Field", i, a - 1>> ELSE <<"MethodDef", i, a - 1 - n>>
  <2>5. s \in Seq(Syms) /\ DOMAIN s = 1..(1 + n + m) /\ \A a \in DOMAIN s : s[a] = SymbolOf(RowAt(a))
    <3>1. Len(fields) = n /\ Len(methods) = m /\ SymbolOf(head) \in Syms
      BY <2>1, <2>2, <2>n
    <3>2. \A j \in 1..n : fields[j] = SymbolOf(<<"Field", i, j>>)
      BY <2>n
    <3>3. \A j \in 1..m : methods[j] = SymbolOf(<<"MethodDef", i, j>>)
      BY <2>n
    <3> HIDE DEF fields, methods, head, Syms
    <3>4. /\ s \in Seq(Syms) /\ Len(s) = 1 + n + m
          /\ \A a \in 1..(1 + n + m) :
               s[a] = IF a = 1 THEN SymbolOf(head) ELSE IF a <= 1 + n THEN fields[a - 1] ELSE methods[a - 1 - n]
      <4>1. fields \in Seq(Syms) /\ methods \in Seq(Syms) /\ SymbolOf(head) \in Syms
        BY <2>3, <3>1
      <4>2. /\ s \in Seq(Syms) /\ Len(s) = 1 + Len(fields) + Len(methods)
            /\ \A a \in 1..(1 + Len(fields) + Len(methods)) :
                 s[a] = IF a = 1 THEN SymbolOf(head) ELSE IF a <= 1 + Len(fields) THEN fields[a - 1] ELSE methods[a - 1 - Len(fields)]
        BY <4>1, OneAfterAnother
      <4> QED
        BY <3>1, <4>2
    <3> HIDE DEF s
    <3>5. ASSUME NEW a \in 1..(1 + n + m)
          PROVE  s[a] = SymbolOf(RowAt(a))
      <4>1. CASE a = 1
        BY <3>4, <4>1
      <4>2. CASE a # 1 /\ a <= 1 + n
        <5>1. a - 1 \in 1..n
          BY <4>2
        <5> QED
          BY <3>2, <3>4, <4>2, <5>1
      <4>3. CASE a # 1 /\ ~(a <= 1 + n)
        <5>1. a - 1 - n \in 1..m
          BY <4>3
        <5> QED
          BY <3>3, <3>4, <4>3, <5>1
      <4> QED
        BY <4>1, <4>2, <4>3
    <3> QED
      BY <3>4, <3>5
  <2>p. PartsOf(i) = {<<"Field", i, j>> : j \in 1..n} \cup {<<"MethodDef", i, j>> : j \in 1..m}
    BY <2>2, <2>n DEF PartsOf
  <2>6. \A a \in 1..(1 + n + m) : RowAt(a) \in RowsOf(head)
    <3> TAKE a \in 1..(1 + n + m)
    <3>1. (a # 1 /\ a <= 1 + n => a - 1 \in 1..n) /\ (~(a <= 1 + n) => a - 1 - n \in 1..m /\ a # 1)
      OBVIOUS
    <3> QED
      BY <2>1, <2>p, <3>1
  <2>7. \A row \in RowsOf(head) : \E a \in 1..(1 + n + m) : RowAt(a) = row
    <3> TAKE row \in RowsOf(head)
    <3>1. CASE row = head
      <4>1. 1 \in 1..(1 + n + m) /\ RowAt(1) = head
        OBVIOUS
      <4> QED
        BY <3>1, <4>1
    <3>2. CASE \E j \in 1..n : row = <<"Field", i, j>>
      <4>1. PICK j \in 1..n : row = <<"Field", i, j>>
        BY <3>2
      <4>2. j + 1 \in 1..(1 + n + m) /\ j + 1 # 1 /\ j + 1 <= 1 + n /\ (j + 1) - 1 = j
        OBVIOUS
      <4>3. RowAt(j + 1) = <<"Field", i, j>>
        BY <4>2
      <4> QED
        BY <4>1, <4>2, <4>3
    <3>3. CASE \E j \in 1..m : row = <<"MethodDef", i, j>>
      <4>1. PICK j \in 1..m : row = <<"MethodDef", i, j>>
        BY <3>3
      <4>2. j + 1 + n \in 1..(1 + n + m) /\ j + 1 + n # 1 /\ ~(j + 1 + n <= 1 + n) /\ (j + 1 + n) - 1 - n = j
        OBVIOUS
      <4>3. RowAt(j + 1 + n) = <<"MethodDef", i, j>>
        BY <4>2
      <4> QED
        BY <4>1, <4>2, <4>3
    <3> QED
      BY <2>1, <2>p, <3>1, <3>2, <3>3
  <2>8. \A a, b \in 1..(1 + n + m) : RowAt(a) = RowAt(b) => a = b
    <3> TAKE a, b \in 1..(1 + n + m)
    <3>1. a - 1 = b - 1 => a = b
      OBVIOUS
    <3>2. a - 1 - n = b - 1 - n => a = b
      OBVIOUS
    <3>3. \A k, l : /\ <<"Field", i, k>> = <<"Field", i, l>> => k = l
                   /\ <<"MethodDef", i, k>> = <<"MethodDef", i, l>> => k = l
                   /\ <<"MethodDef", i, k>> # <<"Field", i, l>> /\ <<"MethodDef", i, k>> # head /\ <<"Field", i, k>> # head
      OBVIOUS
    <3> HIDE DEF head
    <3> QED
      BY <3>1, <3>2, <3>3
  <2>9. \A row \in RowsOf(head) : SymbolOf(row).row = row
    BY <1>1, RowsHaveOneHead, RowOfSymbol
  <2> HIDE DEF s, RowAt
  <2>10. Holds(s, RowsOf(head))
    <3>1. Once(s)
      BY <2>5, <2>6, <2>8, <2>9 DEF Once
    <3>2. \A row \in RowsOf(head) : \E a \in DOMAIN s : s[a] = SymbolOf(row)
      BY <2>5, <2>7
    <3> QED
      BY <2>5, <3>1, <3>2 DEF Holds
  <2> QED
    BY <2>4, <2>10
<1> QED
  BY <1>0, <1>2, <1>3, <1>4

-----------------------------------------------------------------------------
Merges(r, s, t) ==
  /\ \A c \in DOMAIN r : (\E a \in DOMAIN s : r[c] = s[a]) \/ \E b \in DOMAIN t : r[c] = t[b]
  /\ \A a \in DOMAIN s : \E c \in DOMAIN r : r[c] = s[a]
  /\ \A b \in DOMAIN t : \E c \in DOMAIN r : r[c] = t[b]

Disjoint(s, t) == \A a \in DOMAIN s, b \in DOMAIN t : s[a] # t[b]

LEMMA ConcatIsDistinct ==
  ASSUME NEW S, NEW s \in Seq(S), NEW t \in Seq(S), NEW r, r = s \o t, Distinct(s), Distinct(t), Disjoint(s, t)
  PROVE  r \in Seq(S) /\ Distinct(r) /\ Merges(r, s, t)
<1>1. PICK m \in Nat, n \in Nat : m = Len(s) /\ n = Len(t) /\ DOMAIN s = 1..m /\ DOMAIN t = 1..n
  OBVIOUS
<1>2. r \in Seq(S) /\ DOMAIN r = 1..(m + n) /\ \A c \in 1..(m + n) : r[c] = IF c <= m THEN s[c] ELSE t[c - m]
  BY <1>1
<1>3. ASSUME NEW c \in DOMAIN r
      PROVE  (\E a \in DOMAIN s : r[c] = s[a] /\ a = c) \/ \E b \in DOMAIN t : r[c] = t[b] /\ c = b + m
  <2>1. CASE c <= m
    <3>1. c \in DOMAIN s
      BY <1>1, <1>2, <2>1
    <3> QED
      BY <1>2, <2>1, <3>1
  <2>2. CASE ~(c <= m)
    <3>1. c - m \in DOMAIN t /\ c = (c - m) + m
      BY <1>1, <1>2, <2>2
    <3> QED
      BY <1>2, <2>2, <3>1
  <2> QED
    BY <2>1, <2>2
<1>4. ASSUME NEW a \in DOMAIN s PROVE \E c \in DOMAIN r : r[c] = s[a]
  <2>1. a \in DOMAIN r /\ a <= m
    BY <1>1, <1>2
  <2> QED
    BY <1>2, <2>1
<1>5. ASSUME NEW b \in DOMAIN t PROVE \E c \in DOMAIN r : r[c] = t[b]
  <2>1. b + m \in DOMAIN r /\ ~(b + m <= m) /\ (b + m) - m = b
    BY <1>1, <1>2
  <2> QED
    BY <1>2, <2>1
<1>6. Distinct(r)
  BY <1>3 DEF Distinct, Disjoint
<1> QED
  BY <1>2, <1>3, <1>4, <1>5, <1>6 DEF Merges

LEMMA ImportInit == Init => ImportInv
<1> SUFFICES ASSUME Init PROVE ImportInv
  OBVIOUS
<1> DEFINE A == Rows("TypeDef", file.types)
           B == Rows("Member", file.members)
           C == Rows("GenericParam", file.generics)
<1>1. file \in Files /\ queue = A \o B \o C /\ symbols = <<>>
      /\ diagnostics = {<<"Map", i>> : i \in {k \in DOMAIN file.maps : ~file.maps[k].readable}}
  BY DEF Init, InitImport
<1>2. /\ A \in Seq(Heads) /\ DOMAIN A = DOMAIN file.types /\ Distinct(A) /\ \A i \in DOMAIN A : A[i] = <<"TypeDef", i>>
      /\ B \in Seq(Heads) /\ DOMAIN B = DOMAIN file.members /\ Distinct(B) /\ \A i \in DOMAIN B : B[i] = <<"Member", i>>
      /\ C \in Seq(Heads) /\ DOMAIN C = DOMAIN file.generics /\ Distinct(C) /\ \A i \in DOMAIN C : C[i] = <<"GenericParam", i>>
  <2>1. /\ file.types \in Seq(ToSet(file.types)) /\ file.members \in Seq(ToSet(file.members))
        /\ file.generics \in Seq(ToSet(file.generics))
    BY <1>1, Forms
  <2>2. ASSUME NEW table \in {"TypeDef", "Member", "GenericParam"}, NEW T, NEW s \in Seq(T),
               \A i \in DOMAIN s : <<table, i>> \in Heads
        PROVE  /\ Rows(table, s) \in Seq(Heads) /\ DOMAIN Rows(table, s) = DOMAIN s /\ Distinct(Rows(table, s))
               /\ \A i \in DOMAIN s : Rows(table, s)[i] = <<table, i>>
    <3>1. Len(s) \in Nat /\ DOMAIN s = 1..Len(s)
      OBVIOUS
    <3> QED
      BY <2>2, <3>1 DEF Rows, Distinct
  <2>3. /\ \A i \in DOMAIN file.types : <<"TypeDef", i>> \in Heads
        /\ \A i \in DOMAIN file.members : <<"Member", i>> \in Heads
        /\ \A i \in DOMAIN file.generics : <<"GenericParam", i>> \in Heads
    BY DEF Heads
  <2> QED
    BY <2>1, <2>2, <2>3
<1> HIDE DEF A, B, C
<1>3. \A i, j, k : <<"TypeDef", i>> # <<"Member", j>> /\ <<"TypeDef", i>> # <<"GenericParam", k>> /\ <<"Member", j>> # <<"GenericParam", k>>
  OBVIOUS
<1> DEFINE AB == A \o B
<1>4. AB \in Seq(Heads) /\ Distinct(AB) /\ Merges(AB, A, B)
  <2>1. Disjoint(A, B)
    BY <1>2, <1>3 DEF Disjoint
  <2>2. A \in Seq(Heads) /\ B \in Seq(Heads) /\ Distinct(A) /\ Distinct(B) /\ AB = A \o B
    BY <1>2
  <2> HIDE DEF AB
  <2> QED
    BY <2>1, <2>2, ConcatIsDistinct
<1>a. queue = AB \o C
  BY <1>1
<1> HIDE DEF AB
<1>5. queue \in Seq(Heads) /\ Distinct(queue) /\ Merges(queue, AB, C)
  <2>1. Disjoint(AB, C)
    BY <1>2, <1>3, <1>4 DEF Disjoint, Merges
  <2>2. AB \in Seq(Heads) /\ C \in Seq(Heads) /\ Distinct(AB) /\ Distinct(C)
    BY <1>2, <1>4
  <2> QED
    BY <1>a, <2>1, <2>2, ConcatIsDistinct
<1>6. \A h \in Heads : h \in ToSet(queue)
  <2> TAKE h \in Heads
  <2>0. (\E a \in DOMAIN AB : h = AB[a]) => h \in ToSet(queue)
    BY <1>5 DEF ToSet, Merges
  <2>1. CASE \E i \in DOMAIN A : h = A[i]
    BY <1>4, <2>0, <2>1 DEF Merges
  <2>2. CASE \E i \in DOMAIN B : h = B[i]
    BY <1>4, <2>0, <2>2 DEF Merges
  <2>3. CASE \E i \in DOMAIN C : h = C[i]
    BY <1>5, <2>3 DEF ToSet, Merges
  <2> QED
    BY <1>2, <2>1, <2>2, <2>3 DEF Heads
<1>7. Found = {}
  BY <1>6 DEF Found
<1> QED
  BY <1>1, <1>5, <1>7 DEF ImportInv, Holds, Once

(* One head is taken, and its rows are read.                               *)
LEMMA ReadKeeps ==
  ASSUME ImportInv, queue # <<>>, file' = file, queue' = Tail(queue),
         NEW found, symbols' = symbols \o found, Holds(found, RowsOf(Head(queue))),
         diagnostics' = diagnostics \cup {row \in RowsOf(Head(queue)) : ~Readable(row)}
  PROVE  ImportInv'
<1> DEFINE h == Head(queue)
<1>1. /\ h \in Heads /\ Len(queue) \in Nat /\ Len(queue) # 0 /\ h = queue[1] /\ queue' \in Seq(Heads)
      /\ DOMAIN queue = 1..Len(queue) /\ DOMAIN queue' = 1..(Len(queue) - 1)
      /\ \A i \in 1..(Len(queue) - 1) : queue'[i] = queue[i + 1]
  BY DEF ImportInv
<1> HIDE DEF h
<1>2. ToSet(queue') = ToSet(queue) \ {h} /\ Distinct(queue')
  <2>1. ASSUME NEW x \in ToSet(queue') PROVE x \in ToSet(queue) \ {h}
    <3>1. PICK i \in 1..(Len(queue) - 1) : x = queue[i + 1]
      BY <1>1 DEF ToSet
    <3>2. i + 1 \in DOMAIN queue /\ i + 1 # 1 /\ 1 \in DOMAIN queue
      BY <1>1
    <3> QED
      BY <1>1, <3>1, <3>2 DEF ToSet, ImportInv, Distinct
  <2>2. ASSUME NEW x \in ToSet(queue), x # h PROVE x \in ToSet(queue')
    <3>1. PICK i \in 1..Len(queue) : x = queue[i]
      BY <1>1 DEF ToSet
    <3>2. i # 1 /\ i - 1 \in 1..(Len(queue) - 1) /\ (i - 1) + 1 = i
      BY <1>1, <2>2, <3>1
    <3> QED
      BY <1>1, <3>1, <3>2 DEF ToSet
  <2>3. Distinct(queue')
    <3>1. ASSUME NEW a \in DOMAIN queue', NEW b \in DOMAIN queue', queue'[a] = queue'[b] PROVE a = b
      <4>1. a + 1 \in DOMAIN queue /\ b + 1 \in DOMAIN queue /\ queue[a + 1] = queue[b + 1]
        BY <1>1, <3>1
      <4>2. a + 1 = b + 1
        BY <4>1 DEF ImportInv, Distinct
      <4> QED
        BY <1>1, <4>2
    <3> QED
      BY <3>1 DEF Distinct
  <2> QED
    BY <2>1, <2>2, <2>3
<1>h. h \in ToSet(queue)
  BY <1>1 DEF ToSet
<1>3. Found' = Found \cup RowsOf(h)
  <2>1. Heads' = Heads /\ \A g : RowsOf(g)' = RowsOf(g)
    BY SameFile
  <2>2. h \in Heads /\ h \in ToSet(queue)
    BY <1>1, <1>h
  <2> QED
    BY <1>2, <2>1, <2>2 DEF Found
<1>4. Holds(symbols \o found, Found \cup RowsOf(h))
  <2> DEFINE Syms == {SymbolOf(row) : row \in Found \cup RowsOf(h)}
             s == symbols \o found
  <2>1. symbols \in Seq(Syms) /\ found \in Seq(Syms)
    <3>1. symbols \in Seq({SymbolOf(row) : row \in Found}) /\ {SymbolOf(row) : row \in Found} \subseteq Syms
      BY DEF ImportInv, Holds
    <3>2. found \in Seq({SymbolOf(row) : row \in RowsOf(h)}) /\ {SymbolOf(row) : row \in RowsOf(h)} \subseteq Syms
      BY DEF Holds, h
    <3> HIDE DEF Syms
    <3> QED
      BY <3>1, <3>2, SeqMonotonic
  <2>2. PICK m \in Nat, n \in Nat : /\ m = Len(symbols) /\ n = Len(found)
                                     /\ DOMAIN symbols = 1..m /\ DOMAIN found = 1..n
    BY <2>1
  <2>3. s \in Seq(Syms) /\ DOMAIN s = 1..(m + n) /\ \A c \in 1..(m + n) : s[c] = IF c <= m THEN symbols[c] ELSE found[c - m]
    BY <2>1, <2>2
  <2>4. /\ \A a \in 1..m : \E row \in Found : symbols[a] = SymbolOf(row)
        /\ \A b \in 1..n : \E row \in RowsOf(h) : found[b] = SymbolOf(row)
    <3>1. symbols \in Seq({SymbolOf(row) : row \in Found})
      BY DEF ImportInv, Holds
    <3>2. found \in Seq({SymbolOf(row) : row \in RowsOf(h)})
      BY DEF Holds, h
    <3>3. \A a \in 1..m : symbols[a] \in {SymbolOf(row) : row \in Found}
      BY <2>2, <3>1, ElementOfSeq
    <3>4. \A b \in 1..n : found[b] \in {SymbolOf(row) : row \in RowsOf(h)}
      BY <2>2, <3>2, ElementOfSeq
    <3> QED
      BY <3>3, <3>4
  <2>5. \A row \in Found : SymbolOf(row).row = row /\ HeadOf(row) # h
    <3> TAKE row \in Found
    <3>1. PICK g \in Heads \ ToSet(queue) : row \in RowsOf(g)
      BY DEF Found
    <3>2. g # h
      BY <1>h, <3>1
    <3>3. HeadOf(row) = g /\ (row \in Heads \/ \E i, j : row \in {<<"Field", i, j>>, <<"MethodDef", i, j>>})
      BY <3>1, RowsHaveOneHead
    <3>4. SymbolOf(row).row = row
      BY <3>3, RowOfSymbol
    <3> QED
      BY <3>2, <3>3, <3>4
  <2>6. \A row \in RowsOf(h) : SymbolOf(row).row = row /\ HeadOf(row) = h
    BY <1>1, RowsHaveOneHead, RowOfSymbol
  <2>7. \A a \in 1..m, b \in 1..n : symbols[a].row # found[b].row
    BY <2>4, <2>5, <2>6
  <2>8. Once(symbols) /\ Once(found)
    BY DEF ImportInv, Holds, h
  <2> HIDE DEF s, Syms
  <2>9. Once(s)
    <3>1. ASSUME NEW a \in DOMAIN s, NEW b \in DOMAIN s, s[a].row = s[b].row PROVE a = b
      <4>1. CASE a <= m /\ b <= m
        <5>1. a \in 1..m /\ b \in 1..m
          BY <2>3, <4>1
        <5> QED
          BY <2>2, <2>3, <2>8, <3>1, <4>1, <5>1 DEF Once
      <4>2. CASE ~(a <= m) /\ ~(b <= m)
        <5>1. a - m \in 1..n /\ b - m \in 1..n
          BY <2>3, <4>2
        <5>2. found[a - m].row = found[b - m].row
          BY <2>3, <3>1, <4>2
        <5>3. a - m = b - m
          BY <2>2, <2>8, <5>1, <5>2 DEF Once
        <5> QED
          BY <2>3, <5>3
      <4>3. CASE a <= m /\ ~(b <= m)
        <5>1. a \in 1..m /\ b - m \in 1..n
          BY <2>3, <4>3
        <5> QED
          BY <2>3, <2>7, <3>1, <4>3, <5>1
      <4>4. CASE ~(a <= m) /\ b <= m
        <5>1. a - m \in 1..n /\ b \in 1..m
          BY <2>3, <4>4
        <5> QED
          BY <2>3, <2>7, <3>1, <4>4, <5>1
      <4> QED
        BY <4>1, <4>2, <4>3, <4>4
    <3> QED
      BY <3>1 DEF Once
  <2>10. ASSUME NEW row \in Found \cup RowsOf(h) PROVE \E c \in DOMAIN s : s[c] = SymbolOf(row)
    <3>1. CASE row \in Found
      <4>1. PICK a \in 1..m : symbols[a] = SymbolOf(row)
        BY <2>2, <3>1 DEF ImportInv, Holds
      <4>2. a \in DOMAIN s /\ a <= m
        BY <2>3
      <4> QED
        BY <2>3, <4>1, <4>2
    <3>2. CASE row \in RowsOf(h)
      <4>1. PICK b \in 1..n : found[b] = SymbolOf(row)
        BY <2>2, <3>2 DEF Holds, h
      <4>2. b + m \in DOMAIN s /\ ~(b + m <= m) /\ (b + m) - m = b
        BY <2>3
      <4> QED
        BY <2>3, <4>1, <4>2
    <3> QED
      BY <3>1, <3>2
  <2> QED
    BY <2>3, <2>9, <2>10 DEF Holds, s, Syms
<1>5. Holds(symbols, Found)'
  <2>1. \A row : SymbolOf(row)' = SymbolOf(row)
    BY SameFile
  <2>2. {SymbolOf(row) : row \in Found}' = {SymbolOf(row) : row \in Found \cup RowsOf(h)}
    BY <1>3, <2>1
  <2> QED
    BY <1>3, <1>4, <2>1, <2>2 DEF Holds, Once
<1>6. (diagnostics = {<<"Map", i>> : i \in {k \in DOMAIN file.maps : ~file.maps[k].readable}}
                     \cup {row \in Found : ~Readable(row)})'
  <2>1. \A row : Readable(row)' = Readable(row)
    BY SameFile
  <2> QED
    BY <1>3, <2>1 DEF ImportInv, h
<1>7. Heads' = Heads
  BY SameFile
<1> QED
  BY <1>1, <1>2, <1>5, <1>6, <1>7 DEF ImportInv

LEMMA ImportUnchanged ==
  ASSUME ImportInv, UNCHANGED importVars
  PROVE  ImportInv'
<1>1. file' = file /\ queue' = queue /\ symbols' = symbols /\ diagnostics' = diagnostics
  BY DEF importVars
<1>2. Heads' = Heads /\ \A row : SymbolOf(row)' = SymbolOf(row) /\ RowsOf(row)' = RowsOf(row) /\ Readable(row)' = Readable(row)
  BY <1>1, SameFile
<1>3. Found' = Found
  BY <1>1, <1>2 DEF Found
<1>4. Holds(symbols, Found)'
  <2>1. {SymbolOf(row) : row \in Found}' = {SymbolOf(row) : row \in Found}
    BY <1>2, <1>3
  <2> QED
    BY <1>1, <1>2, <1>3, <2>1 DEF ImportInv, Holds, Once
<1>5. (diagnostics = {<<"Map", i>> : i \in {k \in DOMAIN file.maps : ~file.maps[k].readable}}
                     \cup {row \in Found : ~Readable(row)})'
  BY <1>1, <1>2, <1>3 DEF ImportInv
<1> QED
  BY <1>1, <1>2, <1>4, <1>5 DEF ImportInv

(* A row that stands alone.                                                *)
LEMMA OneIsRead ==
  ASSUME NEW head \in Heads, head[1] # "TypeDef"
  PROVE  RowsOf(head) = {head} /\ Holds(<<SymbolOf(head)>>, {head})
BY DEF RowsOf, Holds, Once

(* Every row that is read keeps the invariant.                             *)
LEMMA ImportStep ==
  ASSUME ImportInv, [Next]_vars
  PROVE  ImportInv'
<1>1. CASE Import
  <2>1. queue # <<>> => /\ Head(queue) \in Heads
                        /\ Head(queue)[1] = "TypeDef" => Head(queue)[2] \in DOMAIN file.types /\ Head(queue) = <<"TypeDef", Head(queue)[2]>>
                        /\ Head(queue)[1] = "Member" => Head(queue)[2] \in DOMAIN file.members /\ Head(queue) = <<"Member", Head(queue)[2]>>
                        /\ Head(queue)[1] = "GenericParam" => Head(queue)[2] \in DOMAIN file.generics /\ Head(queue) = <<"GenericParam", Head(queue)[2]>>
    <3>1. queue # <<>> => Head(queue) \in Heads
      BY DEF ImportInv
    <3> QED
      BY <3>1 DEF Heads
  <2> DEFINE h == Head(queue)
             i == h[2]
             unread == {row \in RowsOf(h) : ~Readable(row)}
  <2>2. CASE ReadType
    <3> DEFINE t == file.types[i]
               parts == {<<"Field", i, j>> : j \in {k \in DOMAIN t.fields : ~t.fields[k].readable}}
                        \cup {<<"MethodDef", i, j>> : j \in {k \in DOMAIN t.methods : ~t.methods[k].readable}}
               told == IF ~t.readable THEN {<<"TypeDef", i>>} ELSE IF t.name = "<Module>" THEN {} ELSE parts
    <3>1. Read("TypeDef", TypeSymbols(i), told)
      BY <2>2 DEF ReadType
    <3>2. queue # <<>> /\ h[1] = "TypeDef" /\ i \in DOMAIN file.types /\ h = <<"TypeDef", i>>
      BY <2>1, <3>1 DEF Read
    <3>3. Holds(TypeSymbols(i), RowsOf(h))
      BY <3>2, TypeIsRead DEF ImportInv
    <3>4. told = unread
      <4>1. \A j : Readable(<<"Field", i, j>>) = t.fields[j].readable /\ Readable(<<"MethodDef", i, j>>) = t.methods[j].readable
        BY DEF Readable
      <4>2. Readable(h) = t.readable /\ t.readable \in BOOLEAN
        BY <3>2, Forms DEF Readable, ImportInv
      <4>3. CASE ~t.readable
        <5>1. RowsOf(h) = {h}
          BY <3>2, <4>3 DEF RowsOf
        <5> QED
          BY <3>2, <4>2, <4>3, <5>1
      <4>4. CASE t.readable /\ t.name = "<Module>"
        <5>1. RowsOf(h) = {}
          BY <3>2, <4>4 DEF RowsOf
        <5> QED
          BY <4>4, <5>1
      <4>5. CASE t.readable /\ t.name # "<Module>"
        <5>1. RowsOf(h) = {h} \cup PartsOf(i) /\ told = parts
          BY <3>2, <4>5 DEF RowsOf
        <5>2. parts = {row \in PartsOf(i) : ~Readable(row)}
          BY <4>1 DEF PartsOf
        <5> QED
          BY <4>2, <4>5, <5>1, <5>2
      <4> QED
        BY <4>2, <4>3, <4>4, <4>5
    <3> HIDE DEF told, unread, h, i
    <3>5. file' = file /\ queue' = Tail(queue) /\ symbols' = symbols \o TypeSymbols(i) /\ diagnostics' = diagnostics \cup unread
      BY <3>1, <3>4 DEF Read
    <3> QED
      BY <3>2, <3>3, <3>5, ReadKeeps DEF h, unread
  <2>3. CASE ReadMember
    <3> DEFINE m == file.members[i]
               row == <<"Member", i>>
               found == IF m.readable THEN <<MemberSymbol(i)>> ELSE Unreadable(row, "")
    <3>1. Read("Member", found, IF m.readable THEN {} ELSE {row})
      BY <2>3 DEF ReadMember
    <3>2. queue # <<>> /\ h[1] = "Member" /\ i \in DOMAIN file.members /\ h = row /\ h \in Heads
      BY <2>1, <3>1 DEF Read
    <3>3. m.readable \in BOOLEAN /\ Readable(h) = m.readable
      BY <3>2, Forms DEF ImportInv, Readable
    <3>4. found = <<SymbolOf(h)>>
      BY <3>2, <3>3 DEF SymbolOf, Unreadable
    <3>5. RowsOf(h) = {h} /\ Holds(found, RowsOf(h))
      <4> HIDE DEF h, i, found
      <4> QED
        BY <3>2, <3>4, OneIsRead
    <3>6. unread = IF m.readable THEN {} ELSE {row}
      BY <3>2, <3>3, <3>5
    <3> HIDE DEF found, unread, h, i
    <3>7. file' = file /\ queue' = Tail(queue) /\ symbols' = symbols \o found /\ diagnostics' = diagnostics \cup unread
      BY <3>1, <3>6 DEF Read
    <3> QED
      BY <3>2, <3>5, <3>7, ReadKeeps DEF h, unread
  <2>4. CASE ReadGenericParam
    <3> DEFINE g == file.generics[i]
               row == <<"GenericParam", i>>
               found == IF g.readable THEN <<Symbol(row, "", "generic-type", <<g.name>>, "unsupported-projection")>> ELSE Unreadable(row, "")
    <3>1. Read("GenericParam", found, IF g.readable THEN {} ELSE {row})
      BY <2>4 DEF ReadGenericParam
    <3>2. queue # <<>> /\ h[1] = "GenericParam" /\ i \in DOMAIN file.generics /\ h = row /\ h \in Heads
      BY <2>1, <3>1 DEF Read
    <3>3. g.readable \in BOOLEAN /\ Readable(h) = g.readable
      BY <3>2, Forms DEF ImportInv, Readable
    <3>4. found = <<SymbolOf(h)>>
      BY <3>2, <3>3 DEF SymbolOf, Unreadable
    <3>5. RowsOf(h) = {h} /\ Holds(found, RowsOf(h))
      <4> HIDE DEF h, i, found
      <4> QED
        BY <3>2, <3>4, OneIsRead
    <3>6. unread = IF g.readable THEN {} ELSE {row}
      BY <3>2, <3>3, <3>5
    <3> HIDE DEF found, unread, h, i
    <3>7. file' = file /\ queue' = Tail(queue) /\ symbols' = symbols \o found /\ diagnostics' = diagnostics \cup unread
      BY <3>1, <3>6 DEF Read
    <3> QED
      BY <3>2, <3>5, <3>7, ReadKeeps DEF h, unread
  <2> QED
    BY <1>1, <2>2, <2>3, <2>4 DEF Import
<1>2. CASE ~Import
  <2>1. UNCHANGED importVars
    BY <1>2 DEF Next, Emit, Use, New, Set, vars
  <2> QED
    BY <2>1, ImportUnchanged
<1> QED
  BY <1>1, <1>2

(* What is rendered is not rendered again, nor is the inventory changed.   *)
LEMMA TreeStep ==
  ASSUME ImportInv, TreeInv, [Next]_vars
  PROVE  TreeInv'
<1>1. CASE Import
  <2>1. queue # <<>> /\ tree' = tree
    BY <1>1 DEF Next, Emit, Use, New, Set, vars, Import, ReadType, ReadMember, ReadGenericParam, Read, importVars
  <2> QED
    BY <2>1 DEF TreeInv
<1>2. CASE ~Import
  <2>1. queue' = queue /\ symbols' = symbols /\ (tree' = tree \/ (queue = <<>> /\ tree' = <<Render(Inventory)>>))
    <3>1. CASE Emit
      BY <3>1 DEF Emit, importVars
    <3>2. CASE Use
      <4>1. importVars' = importVars /\ tree' = tree
        BY <3>2 DEF Use, New, Set
      <4>2. queue' = queue /\ symbols' = symbols
        BY <4>1 DEF importVars
      <4> QED
        BY <4>1, <4>2
    <3>3. CASE UNCHANGED vars
      <4>1. importVars' = importVars /\ tree' = tree
        BY <3>3 DEF vars
      <4>2. queue' = queue /\ symbols' = symbols
        BY <4>1 DEF importVars
      <4> QED
        BY <4>1, <4>2
    <3> QED
      BY <1>2, <3>1, <3>2, <3>3 DEF Next
  <2>2. Inventory' = Inventory
    BY <2>1 DEF Inventory
  <2> QED
    BY <2>1, <2>2 DEF TreeInv
<1> QED
  BY <1>1, <1>2

(* What has been told at any time is the symbols of the rows taken from    *)
(* the queue, each once, with its diagnostics; and what is rendered stays  *)
(* what was in the inventory.                                              *)
THEOREM ImportIsInductive == Spec => [](ImportInv /\ TreeInv)
<1>1. Init => ImportInv /\ TreeInv
  BY ImportInit DEF Init, TreeInv
<1>2. (ImportInv /\ TreeInv) /\ [Next]_vars => (ImportInv /\ TreeInv)'
  BY ImportStep, TreeStep
<1> QED
  BY <1>1, <1>2, PTL DEF Spec

-----------------------------------------------------------------------------
(* Where the symbols of an inventory come from.                            *)
LEMMA SymbolsAreOfRows ==
  ASSUME ImportInv, NEW x \in ToSet(symbols)
  PROVE  /\ x = SymbolOf(x.row) /\ x.row \in Found /\ x.source = file.source /\ x.source # "project-fixture" /\ x.arch = "neutral"
         /\ x.row[1] \in {"TypeDef", "Field", "MethodDef", "Member", "GenericParam"}
         /\ x.row \in Heads \/ \E i, j : x.row \in {<<"Field", i, j>>, <<"MethodDef", i, j>>}
         /\ \E h \in Heads : x.row \in RowsOf(h)
<1>1. PICK a \in DOMAIN symbols : x = symbols[a]
  BY DEF ToSet
<1>2. symbols \in Seq({SymbolOf(row) : row \in Found})
  BY DEF ImportInv, Holds
<1>3. PICK row \in Found : x = SymbolOf(row)
  <2>1. x \in {SymbolOf(row) : row \in Found}
    BY <1>1, <1>2, ElementOfSeq
  <2> QED
    BY <2>1
<1>4. PICK h \in Heads \ ToSet(queue) : row \in RowsOf(h)
  BY <1>3 DEF Found
<1>5. x.row = row /\ x.source = file.source /\ x.arch = "neutral"
  BY <1>3, <1>4, RowsHaveOneHead, RowOfSymbol
<1>6. file.source # "project-fixture"
  BY Forms DEF ImportInv
<1> QED
  BY <1>3, <1>4, <1>5, <1>6, RowsHaveOneHead

LEMMA RowsAreDistinct ==
  ASSUME ImportInv, NEW s \in Inventory, NEW t \in Inventory, s.row = t.row
  PROVE  s = t
<1>1. \A x \in ToSet(symbols) : x.row[1] # "fixture"
  BY SymbolsAreOfRows
<1>2. \A x \in Fixture : x.row[1] = "fixture"
  BY FixtureAssumption
<1>3. CASE s \in Fixture /\ t \in Fixture
  BY <1>3, FixtureAssumption
<1>4. CASE s \in ToSet(symbols) /\ t \in ToSet(symbols)
  BY <1>4 DEF ImportInv, Holds, Once, ToSet
<1> QED
  BY <1>1, <1>2, <1>3, <1>4 DEF Inventory

(* Of what metadata tells, calls alone are emitted.                        *)
LEMMA CallsAreEmitted ==
  ASSUME ImportInv, NEW x \in ToSet(symbols), x.status \in EmittedStatus
  PROVE  /\ x.row = <<"MethodDef", x.row[2], x.row[3]>> /\ Readable(x.row) /\ x = MethodSymbol(x.row[2], x.row[3])
         /\ x.kind = "function" /\ x.type = None /\ x.status = "generated-purego" /\ x.function # None
         /\ x.function[1].optional /\ x.constant = FALSE
         /\ x.status = MethodStatus(file.types[x.row[2]].methods[x.row[3]])
<1> DEFINE row == x.row
           unemitted == {"unsupported-projection", "source-parse-error"}
<1>1. /\ x = SymbolOf(row)
      /\ row \in Heads \/ \E i, j : row \in {<<"Field", i, j>>, <<"MethodDef", i, j>>}
  BY SymbolsAreOfRows
<1>2. \A s \in unemitted : s \notin EmittedStatus
  BY DEF EmittedStatus
<1>3. \A ns : RowError(row, ns).status \in unemitted
  BY DEF RowError, Symbol
<1>4. Readable(row)
  BY <1>1, <1>2, <1>3 DEF SymbolOf
<1>5. \A i, j : /\ TypeSymbol(i).status \in unemitted /\ FieldSymbol(i, j).status \in unemitted
                /\ MemberSymbol(i).status \in unemitted
  BY DEF TypeSymbol, FieldSymbol, MemberSymbol, Symbol
<1>7. row \notin Heads
  <2> SUFFICES ASSUME row \in Heads PROVE FALSE
    OBVIOUS
  <2>1. CASE \E i : row = <<"TypeDef", i>>
    BY <1>1, <1>2, <1>4, <1>5, <2>1 DEF SymbolOf
  <2>2. CASE \E i : row = <<"Member", i>>
    <3>1. row[1] = "Member"
      BY <2>2
    <3>2. x = MemberSymbol(row[2])
      BY <1>1, <1>4, <3>1 DEF SymbolOf
    <3> QED
      BY <1>2, <1>5, <3>2
  <2>3. CASE \E i : row = <<"GenericParam", i>>
    <3>1. row[1] = "GenericParam"
      BY <2>3
    <3>2. x = Symbol(row, "", "generic-type", <<file.generics[row[2]].name>>, "unsupported-projection")
      BY <1>1, <1>4, <3>1 DEF SymbolOf
    <3>3. \A r, ns, kind, name : Symbol(r, ns, kind, name, "unsupported-projection").status = "unsupported-projection"
      BY DEF Symbol
    <3>4. x.status = "unsupported-projection"
      BY <3>2, <3>3
    <3> QED
      BY <1>2, <3>4
  <2> QED
    BY <2>1, <2>2, <2>3 DEF Heads
<1>8. PICK i, j : row \in {<<"Field", i, j>>, <<"MethodDef", i, j>>}
  BY <1>1, <1>7
<1>9. row = <<"MethodDef", i, j>> /\ x = MethodSymbol(i, j)
  <2>1. CASE row = <<"Field", i, j>>
    <3>1. row[1] = "Field" /\ row[2] = i /\ row[3] = j
      BY <2>1
    <3>2. x = FieldSymbol(i, j)
      BY <1>1, <1>4, <3>1 DEF SymbolOf
    <3> QED
      BY <1>2, <1>5, <3>2
  <2>2. CASE row = <<"MethodDef", i, j>>
    <3>1. row[1] = "MethodDef" /\ row[2] = i /\ row[3] = j
      BY <2>2
    <3>2. x = MethodSymbol(i, j)
      BY <1>1, <1>4, <3>1 DEF SymbolOf
    <3> QED
      BY <2>2, <3>2
  <2> QED
    BY <1>8, <2>1, <2>2
<1> DEFINE m == file.types[i].methods[j]
<1>10. /\ x.kind = "function" /\ x.type = None /\ x.constant = FALSE /\ x.status = MethodStatus(m)
       /\ x.function = <<[Imported(m) EXCEPT !.optional = MethodStatus(m) = "generated-purego"]>>
  BY <1>9 DEF MethodSymbol, Symbol
<1>11. x.status = "generated-purego"
  BY <1>10 DEF MethodStatus, ImportStatus, EmittedStatus
<1>12. [Imported(m) EXCEPT !.optional = TRUE].optional = TRUE
  BY DEF Imported, UnparsedMethod, ProjectMethod
<1>13. x.function # None /\ x.function[1].optional
  <2>1. x.function = <<[Imported(m) EXCEPT !.optional = TRUE]>>
    BY <1>10, <1>11
  <2> DEFINE fn == [Imported(m) EXCEPT !.optional = TRUE]
  <2>2. x.function = <<fn>> /\ fn.optional = TRUE
    BY <1>12, <2>1
  <2> HIDE DEF fn
  <2> QED
    BY <2>2 DEF None
<1>14. row[2] = i /\ row[3] = j
  BY <1>9
<1> QED
  BY <1>4, <1>9, <1>10, <1>11, <1>13, <1>14

-----------------------------------------------------------------------------
(* The files of a package that a build for a target compiles and that      *)
(* declare the symbol; zavailability declares none.                        *)
FilesOf(s, target) == {f \in GoFiles \ {"zavailability"} : RenderedIn(f, s) /\ Compiles(f, target)}

(* A record or a function of the fixture, or a call of the metadata, is in *)
(* one file if the build is meant to have it.                              *)
LEMMA TypesHaveOneFile ==
  ASSUME NEW s, TypeForm(s), NEW target \in Targets, target.os = "windows"
  PROVE  /\ Emitted(s) /\ ~Bridged(s)
         /\ FilesOf(s, target) = {} \/ \E f \in GoFiles : FilesOf(s, target) = {f}
         /\ FilesOf(s, target) # {} <=> MeantFor(s, target)
<1> DEFINE kind == s.kind
           arch == s.arch
<1>1. /\ s.type # None /\ s.status \in EmittedStatus /\ s.status # "generated-cgo-bridge"
      /\ \/ arch = "neutral" /\ kind \in NamedTypes \cup RecordTypes \cup {"union", "callback", "com-interface"}
         \/ arch \in {"386", "amd64", "arm64"} /\ kind \in RecordTypes
  BY DEF TypeForm, Neutral, Architectures
<1>2. target.arch \in {"386", "amd64", "arm64"}
  BY DEF Targets, Architectures
<1>3. Emitted(s) /\ ~Bridged(s)
  BY <1>1 DEF Emitted, Bridged
<1>4. MeantFor(s, target) <=> arch \in {"neutral", target.arch}
  BY <1>1 DEF MeantFor, Neutral
<1>5. \A f : f \in FilesOf(s, target) <=>
        \/ f = "ztypes" /\ InTypes(s)
        \/ f = target.arch /\ InArchTypes(s, f)
        \/ f = "zconstants" /\ InConstants(s)
        \/ f = "zcallbacks" /\ InCallbacks(s)
        \/ f = "zcom" /\ InCOM(s)
        \/ f = "zfunctions" /\ InFunctions(s)
  BY <1>2 DEF FilesOf, GoFiles, RenderedIn, Compiles, Architectures
<1>6. ~InConstants(s) /\ ~InFunctions(s)
  BY <1>1 DEF InConstants, InFunctions, NamedTypes, RecordTypes
<1> DEFINE parted == PerArchitecture(s)
<1>7. /\ InTypes(s) <=> arch = "neutral" /\ ((kind \in NamedTypes \cup RecordTypes) \/ (kind = "union" /\ ~parted))
      /\ \A f : InArchTypes(s, f) <=> ((arch = "neutral" /\ parted) \/ arch = f)
      /\ InCallbacks(s) <=> kind = "callback"
      /\ InCOM(s) <=> kind = "com-interface"
      /\ parted => kind = "union"
  BY <1>1 DEF InTypes, InArchTypes, InCallbacks, InCOM, Neutral, None, PerArchitecture
<1> HIDE DEF parted, kind, arch
<1>8. CASE arch = "neutral"
  <2>1. \A f : f \in FilesOf(s, target) <=>
          f = IF kind \in NamedTypes \cup RecordTypes THEN "ztypes"
              ELSE IF kind = "callback" THEN "zcallbacks" ELSE IF kind = "com-interface" THEN "zcom"
              ELSE IF parted THEN target.arch ELSE "ztypes"
    BY <1>1, <1>2, <1>5, <1>6, <1>7, <1>8 DEF NamedTypes, RecordTypes
  <2>2. \E f \in GoFiles : FilesOf(s, target) = {f}
    BY <1>2, <2>1 DEF GoFiles, Architectures
  <2> QED
    BY <1>3, <1>4, <1>8, <2>2
<1>9. CASE arch # "neutral"
  <2>1. \A f : f \in FilesOf(s, target) <=> (f = target.arch /\ arch = f)
    BY <1>1, <1>2, <1>5, <1>6, <1>7, <1>9 DEF NamedTypes, RecordTypes
  <2>2. CASE arch = target.arch
    <3>1. FilesOf(s, target) = {target.arch} /\ target.arch \in GoFiles
      BY <1>2, <2>1, <2>2 DEF GoFiles, Architectures
    <3> QED
      BY <1>3, <1>4, <2>2, <3>1
  <2>3. CASE arch # target.arch
    <3>1. FilesOf(s, target) = {}
      BY <2>1, <2>3
    <3> QED
      BY <1>3, <1>4, <1>9, <2>3, <3>1
  <2> QED
    BY <2>2, <2>3
<1> QED
  BY <1>8, <1>9

LEMMA FunctionsHaveOneFile ==
  ASSUME NEW s, s.kind = "function", s.type = None, s.arch = Neutral, s.function # None,
         NEW target \in Targets, target.os = "windows"
  PROVE  FilesOf(s, target) = IF s.status = "generated-purego" THEN {"zfunctions"} ELSE {}
<1>1. ~InTypes(s) /\ ~InConstants(s) /\ ~InCallbacks(s) /\ ~InCOM(s) /\ \A f : ~InArchTypes(s, f)
  BY DEF InTypes, InConstants, InCallbacks, InCOM, InArchTypes, None
<1>2. InFunctions(s) <=> s.status = "generated-purego"
  BY DEF InFunctions, None
<1>3. \A f : f \in FilesOf(s, target) <=> (f = "zfunctions" /\ InFunctions(s))
  BY <1>1 DEF FilesOf, GoFiles, RenderedIn, Compiles, Architectures
<1> QED
  BY <1>2, <1>3

(* The declarations of a symbol are those of its files, and its bridge.    *)
LEMMA DeclarationsOfSymbol ==
  ASSUME ImportInv, TreeInv, tree # None, NEW s \in Inventory, NEW target \in Targets
  PROVE  /\ Declarations(s, target) =
              {[dir |-> s.ns, file |-> f, row |-> s.row] : f \in {g \in FilesOf(s, target) : Emitted(s)}}
              \cup {[dir |-> "bridge", file |-> "zbridge", row |-> s.row] :
                     x \in {y \in {s} : Bridged(s) /\ s.name = <<"FixtureStructByValue">> /\ Compiles("zbridge", target)}}
         /\ Emitted(s) /\ RenderedIn("zavailability", s) =>
              \E d \in tree[1] : d.row = s.row /\ d.file = "zavailability" /\ d.dir = s.ns
<1> DEFINE D(x, f) == [dir |-> x.ns, file |-> f, row |-> x.row]
           B(x) == [dir |-> "bridge", file |-> "zbridge", row |-> x.row]
<1>1. tree[1] = Render(Inventory)
  BY DEF TreeInv
<1>2. \A d : d \in tree[1] <=>
        \/ \E x \in Inventory, f \in GoFiles : Emitted(x) /\ RenderedIn(f, x) /\ d = D(x, f)
        \/ \E x \in Inventory : Bridged(x) /\ x.name = <<"FixtureStructByValue">> /\ d = B(x)
  <2>1. \A d : d \in tree[1] <=> (\E x \in Inventory : Emitted(x) /\ d \in Declared(x)) \/ d \in Bridge(Inventory)
    <3> DEFINE E == {y \in Inventory : Emitted(y)}
               U == {Declared(x) : x \in E}
    <3>1. tree[1] = Bridge(Inventory) \cup UNION U
      BY <1>1 DEF Render
    <3>2. \A x \in E : Declared(x) \in U
      OBVIOUS
    <3>3. \A d : d \in UNION U <=> \E x \in E : d \in Declared(x)
      BY <3>2
    <3> HIDE DEF U
    <3> QED
      BY <3>1, <3>3
  <2>2. \A d, x : d \in Declared(x) <=> \E f \in GoFiles : RenderedIn(f, x) /\ d = D(x, f)
    BY DEF Declared
  <2>3. \A d : d \in Bridge(Inventory) <=> \E x \in Inventory : Bridged(x) /\ x.name = <<"FixtureStructByValue">> /\ d = B(x)
    BY DEF Bridge
  <2> HIDE DEF D, B
  <2> QED
    BY <2>1, <2>2, <2>3
<1>3. \A x \in Inventory : x.row = s.row => x = s
  BY RowsAreDistinct
<1>4. \A x, f : D(x, f).row = x.row /\ D(x, f).file = f /\ D(x, f).dir = x.ns /\ B(x).row = x.row /\ B(x).file = "zbridge"
  OBVIOUS
<1>5. "zbridge" \notin GoFiles /\ "zavailability" \in GoFiles
  BY DEF GoFiles, Architectures
<1> HIDE DEF D, B
<1>6. \A d : d \in Declarations(s, target) <=>
        \/ \E f \in FilesOf(s, target) : Emitted(s) /\ d = D(s, f)
        \/ Bridged(s) /\ s.name = <<"FixtureStructByValue">> /\ Compiles("zbridge", target) /\ d = B(s)
  BY <1>2, <1>3, <1>4, <1>5 DEF Declarations, FilesOf
<1>7. Declarations(s, target) = {D(s, f) : f \in {g \in FilesOf(s, target) : Emitted(s)}}
        \cup {B(s) : x \in {y \in {s} : Bridged(s) /\ s.name = <<"FixtureStructByValue">> /\ Compiles("zbridge", target)}}
  BY <1>6
<1>8. Emitted(s) /\ RenderedIn("zavailability", s) =>
        \E d \in tree[1] : d.row = s.row /\ d.file = "zavailability" /\ d.dir = s.ns
  BY <1>2, <1>4, <1>5
<1> QED
  BY <1>7, <1>8 DEF D, B

(* What is generated is in one file of those that a target compiles.       *)
LEMMA DeclaredOnce ==
  ASSUME ImportInv, TreeInv
  PROVE  GeneratedIsDeclared
<1> SUFFICES ASSUME tree # None, NEW s \in Inventory, NEW target \in Targets, target.os = "windows"
             PROVE  /\ Cardinality(Declarations(s, target)) = IF MeantFor(s, target) THEN 1 ELSE 0
                    /\ (s.kind = "function" /\ s.source # "project-fixture" /\ MeantFor(s, target))
                         => \E d \in tree[1] : d.row = s.row /\ d.file = "zavailability" /\ d.dir = s.ns
  BY DEF GeneratedIsDeclared
<1> DEFINE D(f) == [dir |-> s.ns, file |-> f, row |-> s.row]
           bridge == {[dir |-> "bridge", file |-> "zbridge", row |-> s.row] :
                     x \in {y \in {s} : Bridged(s) /\ s.name = <<"FixtureStructByValue">> /\ Compiles("zbridge", target)}}
<1>1. /\ Declarations(s, target) = {D(f) : f \in {g \in FilesOf(s, target) : Emitted(s)}} \cup bridge
      /\ Emitted(s) /\ RenderedIn("zavailability", s) =>
              \E d \in tree[1] : d.row = s.row /\ d.file = "zavailability" /\ d.dir = s.ns
  BY DeclarationsOfSymbol
<1>2. ~Bridged(s) => bridge = {}
  OBVIOUS
<1>3. /\ \A x : Cardinality({x}) = 1
      /\ Cardinality({}) = 0
  BY FS_Singleton, FS_EmptySet
<1>4. (Declarations(s, target) = {} \/ \E x : Declarations(s, target) = {x}) /\ (Declarations(s, target) # {} <=> MeantFor(s, target))
  <2>1. CASE s \in Fixture /\ TypeForm(s)
    <3>1. /\ Emitted(s) /\ ~Bridged(s)
          /\ FilesOf(s, target) = {} \/ \E f \in GoFiles : FilesOf(s, target) = {f}
          /\ FilesOf(s, target) # {} <=> MeantFor(s, target)
      BY <2>1, TypesHaveOneFile
    <3>2. Declarations(s, target) = {D(f) : f \in FilesOf(s, target)}
      BY <1>1, <1>2, <3>1
    <3> HIDE DEF D
    <3> QED
      BY <3>1, <3>2
  <2>2. CASE s \in Fixture /\ FunctionForm(s)
    <3>1. FilesOf(s, target) = IF s.status = "generated-purego" THEN {"zfunctions"} ELSE {}
      BY <2>2, FunctionsHaveOneFile DEF FunctionForm
    <3>2. Emitted(s) /\ s.source = "project-fixture" /\ s.arch = Neutral /\ s.function # None
      BY <2>2, FixtureAssumption DEF Emitted, FunctionForm
    <3>3. Compiles("zbridge", target) <=> target.cgo
      BY DEF Compiles, Architectures
    <3>4. CASE s.status = "generated-purego"
      <4>1. bridge = {} /\ MeantFor(s, target)
        BY <3>2, <3>4 DEF Bridged, MeantFor, EmittedStatus
      <4>2. Declarations(s, target) = {D("zfunctions")}
        BY <1>1, <3>1, <3>2, <3>4, <4>1
      <4> QED
        BY <4>1, <4>2
    <3>5. CASE s.status = "generated-cgo-bridge" /\ s.name = <<"FixtureStructByValue">>
      <4>1. /\ bridge = IF target.cgo THEN {[dir |-> "bridge", file |-> "zbridge", row |-> s.row]} ELSE {}
            /\ MeantFor(s, target) <=> target.cgo
        BY <3>2, <3>3, <3>5 DEF Bridged, MeantFor, EmittedStatus, None
      <4>2. Declarations(s, target) = bridge
        BY <1>1, <3>1, <3>5
      <4> QED
        BY <4>1, <4>2
    <3>6. CASE s.status \notin EmittedStatus
      <4>1. bridge = {} /\ ~MeantFor(s, target) /\ s.status # "generated-purego"
        BY <3>2, <3>6 DEF Bridged, MeantFor, EmittedStatus
      <4>2. Declarations(s, target) = {}
        BY <1>1, <3>1, <4>1
      <4> QED
        BY <4>1, <4>2
    <3> QED
      BY <2>2, <3>4, <3>5, <3>6 DEF FunctionForm
  <2>3. CASE s \in ToSet(symbols)
    <3>1. s.source # "project-fixture" /\ s.arch = Neutral
      BY <2>3, SymbolsAreOfRows DEF Neutral
    <3>2. bridge = {}
      BY <1>2, <3>1 DEF Bridged
    <3>3. CASE s.status \in EmittedStatus
      <4>1. s.kind = "function" /\ s.type = None /\ s.status = "generated-purego" /\ s.function # None
        BY <2>3, <3>3, CallsAreEmitted
      <4>2. FilesOf(s, target) = {"zfunctions"} /\ Emitted(s) /\ MeantFor(s, target)
        BY <3>1, <3>3, <4>1, FunctionsHaveOneFile DEF Emitted, MeantFor
      <4>3. Declarations(s, target) = {D("zfunctions")}
        BY <1>1, <3>2, <4>2
      <4> QED
        BY <4>2, <4>3
    <3>4. CASE s.status \notin EmittedStatus
      <4>1. ~Emitted(s) /\ ~MeantFor(s, target)
        BY <3>1, <3>4 DEF Emitted, MeantFor
      <4>2. Declarations(s, target) = {}
        BY <1>1, <3>2, <4>1
      <4> QED
        BY <4>1, <4>2
    <3> QED
      BY <3>3, <3>4
  <2> QED
    BY <2>1, <2>2, <2>3, FixtureAssumption DEF Inventory
<1>5. ASSUME s.kind = "function", s.source # "project-fixture", MeantFor(s, target)
      PROVE  \E d \in tree[1] : d.row = s.row /\ d.file = "zavailability" /\ d.dir = s.ns
  <2>1. s \in ToSet(symbols) /\ s.status \in EmittedStatus
    BY <1>5, FixtureAssumption DEF Inventory, MeantFor
  <2>2. s.status = "generated-purego" /\ s.function # None /\ s.function[1].optional
    BY <2>1, CallsAreEmitted
  <2>3. Emitted(s) /\ InFunctions(s) /\ InAvailability(s)
    BY <1>5, <2>1, <2>2 DEF Emitted, InFunctions, InAvailability, None
  <2>4. RenderedIn("zavailability", s)
    BY <2>3 DEF RenderedIn, Architectures
  <2> QED
    BY <1>1, <2>3, <2>4
<1> QED
  BY <1>3, <1>4, <1>5

(* What coverage counts as generated is declared once in every build it is *)
(* meant for, whatever the metadata and the fixture.                       *)
THEOREM EveryGeneratedIsDeclared == Spec => []GeneratedIsDeclared
BY ImportIsInductive, DeclaredOnce, PTL

-----------------------------------------------------------------------------
(* What becomes of a type, from what becomes of the types within it.  The  *)
(* functions that are defined so exist because types nest to some depth:   *)
(* up to each depth there is one, and those agree.                         *)
ProjectOf(h, t) ==
  LET inner == [i \in DOMAIN t.of |-> h[t.of[i]]]
      go == GoType(t, inner)
  IN [kind |-> Kind(t), go |-> IF go = <<>> THEN <<"uintptr">> ELSE go, opaque |-> Opaque(t, inner),
      depth |-> IF t.element \in Pointers /\ inner # <<>> THEN inner[1].depth + 1 ELSE 0, of |-> inner]

Below(n) == {t \in SigTypes : Depth[t] < n}

ProjectsTo(h, n) == h = [t \in Below(n) |-> ProjectOf(h, t)]

LEMMA TypesNest ==
  ASSUME NEW t \in SigTypes
  PROVE  /\ t.of \in Seq(SigTypes) /\ Len(t.of) \in Nat /\ DOMAIN t.of = 1..Len(t.of) /\ Depth[t] \in Nat
         /\ \A i \in DOMAIN t.of : t.of[i] \in SigTypes /\ Depth[t.of[i]] \in Nat /\ Depth[t.of[i]] < Depth[t]
<1>1. t.of \in Seq(SigTypes) /\ Depth[t] \in Nat /\ \A i \in DOMAIN t.of : Depth[t.of[i]] < Depth[t]
  BY SigAssumption
<1>2. \A i \in DOMAIN t.of : t.of[i] \in SigTypes
  BY <1>1
<1>3. \A u \in SigTypes : Depth[u] \in Nat
  BY SigAssumption
<1> QED
  BY <1>1, <1>2, <1>3

LEMMA ProjectAlike ==
  ASSUME NEW t \in SigTypes, NEW h, NEW k, \A i \in DOMAIN t.of : h[t.of[i]] = k[t.of[i]]
  PROVE  ProjectOf(h, t) = ProjectOf(k, t)
<1>1. [i \in DOMAIN t.of |-> h[t.of[i]]] = [i \in DOMAIN t.of |-> k[t.of[i]]]
  OBVIOUS
<1> QED
  BY <1>1 DEF ProjectOf

LEMMA ProjectOnce ==
  ASSUME NEW n \in Nat, NEW m \in Nat, n <= m, NEW h, NEW k, ProjectsTo(h, n), ProjectsTo(k, m)
  PROVE  \A t \in Below(n) : h[t] = k[t]
<1> DEFINE Odd(d) == \E t \in Below(n) : Depth[t] = d /\ h[t] # k[t]
           W == {d \in Nat : Odd(d)}
<1>1. W \in SUBSET Nat
  OBVIOUS
<1>2. ASSUME NEW d \in W, \A e \in W : d <= e PROVE FALSE
  <2>1. PICK t \in Below(n) : Depth[t] = d /\ h[t] # k[t]
    OBVIOUS
  <2>2. t \in SigTypes /\ d \in Nat /\ d < n /\ t \in Below(m)
    BY <2>1, TypesNest DEF Below
  <2>3. h[t] = ProjectOf(h, t) /\ k[t] = ProjectOf(k, t)
    BY <2>1, <2>2 DEF ProjectsTo
  <2>4. ASSUME NEW i \in DOMAIN t.of PROVE h[t.of[i]] = k[t.of[i]]
    <3>1. t.of[i] \in SigTypes /\ Depth[t.of[i]] \in Nat /\ Depth[t.of[i]] < d
      BY <2>1, <2>2, TypesNest
    <3>2. t.of[i] \in Below(n) /\ ~(d <= Depth[t.of[i]])
      BY <2>2, <3>1 DEF Below
    <3>3. Depth[t.of[i]] \notin W
      BY <1>2, <3>2
    <3> QED
      BY <3>1, <3>2, <3>3
  <2> QED
    BY <2>1, <2>2, <2>3, <2>4, ProjectAlike
<1> HIDE DEF W
<1>3. W = {}
  BY <1>1, <1>2, MinIn
<1>4. ASSUME NEW t \in Below(n), h[t] # k[t] PROVE FALSE
  <2>1. Depth[t] \in Nat
    BY TypesNest DEF Below
  <2>2. Depth[t] \in W
    BY <1>4, <2>1 DEF W
  <2> QED
    BY <1>3, <2>2
<1> QED
  BY <1>4

LEMMA ProjectUpTo ==
  ASSUME NEW n \in Nat
  PROVE  \E h : ProjectsTo(h, n)
<1> DEFINE W == {m \in Nat : ~\E h : ProjectsTo(h, m)}
<1>1. W \in SUBSET Nat
  OBVIOUS
<1>2. ASSUME NEW m \in W, \A l \in W : m <= l PROVE FALSE
  <2>1. m \in Nat /\ ~\E h : ProjectsTo(h, m)
    OBVIOUS
  <2>2. CASE m = 0
    <3> DEFINE g == [t \in Below(0) |-> 0]
    <3>1. Below(0) = {}
      BY TypesNest DEF Below
    <3>2. ProjectsTo(g, 0)
      BY <3>1 DEF ProjectsTo
    <3> QED
      BY <2>1, <2>2, <3>2
  <2>3. CASE m # 0
    <3>1. m - 1 \in Nat /\ m - 1 \notin W /\ m - 1 <= m
      BY <1>2, <2>1, <2>3
    <3>2. PICK h : ProjectsTo(h, m - 1)
      BY <3>1
    <3> DEFINE g == [t \in Below(m) |-> ProjectOf(h, t)]
               g2 == [t \in Below(m) |-> ProjectOf(g, t)]
    <3>3. ASSUME NEW t \in Below(m) PROVE g[t] = ProjectOf(g, t)
      <4>1. t \in SigTypes /\ Depth[t] \in Nat /\ Depth[t] < m
        BY TypesNest DEF Below
      <4>2. ASSUME NEW i \in DOMAIN t.of PROVE h[t.of[i]] = g[t.of[i]]
        <5>1. t.of[i] \in SigTypes /\ Depth[t.of[i]] \in Nat /\ Depth[t.of[i]] < Depth[t]
          BY <4>1, TypesNest
        <5>2. t.of[i] \in Below(m - 1) /\ t.of[i] \in Below(m)
          BY <2>1, <4>1, <5>1 DEF Below
        <5> QED
          BY <3>2, <5>2 DEF ProjectsTo
      <4> HIDE DEF g
      <4>3. ProjectOf(h, t) = ProjectOf(g, t)
        BY <4>1, <4>2, ProjectAlike
      <4> QED
        BY <4>3 DEF g
    <3>4. g = g2
      <4>1. DOMAIN g = Below(m) /\ DOMAIN g2 = Below(m) /\ g = [t \in DOMAIN g |-> g[t]] /\ g2 = [t \in DOMAIN g2 |-> g2[t]]
        OBVIOUS
      <4>2. \A t \in Below(m) : g[t] = g2[t]
        BY <3>3
      <4> HIDE DEF g, g2
      <4> QED
        BY <4>1, <4>2
    <3> HIDE DEF g
    <3>5. ProjectsTo(g, m)
      BY <3>4 DEF ProjectsTo
    <3> QED
      BY <2>1, <3>5
  <2> QED
    BY <2>2, <2>3
<1> HIDE DEF W
<1>3. W = {}
  BY <1>1, <1>2, MinIn
<1> QED
  BY <1>3 DEF W

(* The projection of a type is that of its parts, at any depth.            *)
LEMMA ProjectUnfolds ==
  ASSUME NEW t \in SigTypes
  PROVE  ProjectSigType[t] = ProjectOf(ProjectSigType, t)
<1> DEFINE Least(u) == CHOOSE h : ProjectsTo(h, Depth[u] + 1)
           f == [u \in SigTypes |-> Least(u)[u]]
           f2 == [u \in SigTypes |-> ProjectOf(f, u)]
<1>1. ASSUME NEW u \in SigTypes PROVE ProjectsTo(Least(u), Depth[u] + 1) /\ Depth[u] + 1 \in Nat /\ u \in Below(Depth[u] + 1)
  <2>1. Depth[u] + 1 \in Nat /\ u \in Below(Depth[u] + 1)
    BY TypesNest DEF Below
  <2> QED
    BY <2>1, ProjectUpTo
<1> HIDE DEF Least
<1>2. ASSUME NEW u \in SigTypes PROVE f[u] = ProjectOf(f, u)
  <2>1. f[u] = ProjectOf(Least(u), u)
    BY <1>1 DEF ProjectsTo
  <2>2. ASSUME NEW i \in DOMAIN u.of PROVE Least(u)[u.of[i]] = f[u.of[i]]
    <3> DEFINE v == u.of[i]
    <3>1. v \in SigTypes /\ Depth[v] \in Nat /\ Depth[v] + 1 <= Depth[u] + 1 /\ Depth[u] \in Nat
      BY TypesNest
    <3>2. Least(v)[v] = Least(u)[v]
      <4> HIDE DEF v
      <4> QED
        BY <1>1, <3>1, ProjectOnce
    <3> QED
      BY <3>1, <3>2
  <2> HIDE DEF f
  <2> QED
    BY <2>1, <2>2, ProjectAlike
<1>3. f = f2
  <2>1. DOMAIN f = SigTypes /\ DOMAIN f2 = SigTypes /\ f = [u \in DOMAIN f |-> f[u]] /\ f2 = [u \in DOMAIN f2 |-> f2[u]]
    OBVIOUS
  <2>2. \A u \in SigTypes : f[u] = f2[u]
    BY <1>2
  <2> HIDE DEF f, f2
  <2> QED
    BY <2>1, <2>2
<1> DEFINE Is(g) == g = [u \in SigTypes |-> ProjectOf(g, u)]
<1> HIDE DEF f
<1>4. Is(f)
  BY <1>3
<1>5. ProjectSigType = CHOOSE g : Is(g)
  BY DEF ProjectSigType, ProjectOf
<1>6. Is(ProjectSigType)
  BY <1>4, <1>5
<1> QED
  BY <1>6

-----------------------------------------------------------------------------
(* The type of a word that a call passes: what it projects to fits.        *)
LEMMA WordsFit ==
  ASSUME NEW t \in SigTypes, SafeWordType(ProjectSigType[t], FALSE), ~PointerABI(ProjectSigType[t])
  PROVE  ProjectSigType[t].go # <<>> /\ Fits(t, ProjectSigType[t].go)
<1> DEFINE inner == [i \in DOMAIN t.of |-> ProjectSigType[t.of[i]]]
           go == GoType(t, inner)
           p == ProjectSigType[t]
<1>1. /\ p.kind = Kind(t) /\ p.opaque = Opaque(t, inner) /\ p.go = IF go = <<>> THEN <<"uintptr">> ELSE go
  <2> DEFINE projected == [kind |-> Kind(t), go |-> IF go = <<>> THEN <<"uintptr">> ELSE go, opaque |-> Opaque(t, inner),
                           depth |-> IF t.element \in Pointers /\ inner # <<>> THEN inner[1].depth + 1 ELSE 0, of |-> inner]
  <2>1. p = ProjectOf(ProjectSigType, t)
    BY ProjectUnfolds
  <2>2. ProjectOf(ProjectSigType, t) = projected
    BY DEF ProjectOf
  <2>3. p = projected
    BY <2>1, <2>2
  <2> HIDE DEF p, go, inner
  <2> QED
    BY <2>3
<1> HIDE DEF p, inner
<1>2. p.kind # "pointer"
  BY DEF PointerABI, p
<1>3. ~p.opaque /\ p.kind = "primitive" /\ p.go \in Words
  BY <1>2 DEF SafeWordType, p
<1>4. t.modifiers = <<>> /\ t.element \in DOMAIN Primitive /\ go # <<>>
  BY <1>1, <1>3 DEF Opaque, Kind
<1>5. go = Primitive[t.element] /\ p.go = go
  <2>1. t.element \notin Pointers \cup Named \cup {"ARRAY"}
    BY <1>4 DEF Primitive, Pointers, Named
  <2>2. GoType(t, inner) = Primitive[t.element]
    BY <1>4, <2>1 DEF GoType
  <2> HIDE DEF go
  <2>3. p.go = go
    BY <1>1, <1>4
  <2> QED
    BY <2>2, <2>3 DEF go
<1>6. p.go # <<"*", "uint16">>
  <2>1. p.go # <<>> /\ Head(p.go) # "*"
    BY <1>4, <1>5 DEF PointerABI, p
  <2> QED
    BY <2>1
<1>7. PICK e \in DOMAIN Primitive : e = t.element
  BY <1>4
<1>8. Primitive[e] \in Words \ {<<"*", "uint16">>}
  BY <1>3, <1>5, <1>6, <1>7
<1>9. e \in {"BOOLEAN", "CHAR", "I1", "U1", "I2", "U2", "I4", "U4", "I", "U"}
  BY <1>8 DEF Primitive, Words
<1> DEFINE Matches(integer) ==
             /\ Len(Primitive[e]) = 1 /\ Primitive[e][1] \in DOMAIN GoInteger /\ e \in DOMAIN Native
             /\ Native[e] = integer /\ GoInteger[Primitive[e][1]] = integer
<1>10. \/ Matches(Word(TRUE)) \/ Matches(Word(FALSE))
       \/ \E bytes \in {1, 2, 4}, signed \in BOOLEAN : Matches(Integer(bytes, signed))
  <2>1. CASE e = "BOOLEAN"
    BY <2>1 DEF Primitive, Native, GoInteger
  <2>2. CASE e = "CHAR"
    BY <2>2 DEF Primitive, Native, GoInteger
  <2>3. CASE e = "I1"
    BY <2>3 DEF Primitive, Native, GoInteger
  <2>4. CASE e = "U1"
    BY <2>4 DEF Primitive, Native, GoInteger
  <2>5. CASE e = "I2"
    BY <2>5 DEF Primitive, Native, GoInteger
  <2>6. CASE e = "U2"
    BY <2>6 DEF Primitive, Native, GoInteger
  <2>7. CASE e = "I4"
    BY <2>7 DEF Primitive, Native, GoInteger
  <2>8. CASE e = "U4"
    BY <2>8 DEF Primitive, Native, GoInteger
  <2>9. CASE e = "I"
    BY <2>9 DEF Primitive, Native, GoInteger
  <2>10. CASE e = "U"
    BY <2>10 DEF Primitive, Native, GoInteger
  <2> QED
    BY <1>9, <2>1, <2>2, <2>3, <2>4, <2>5, <2>6, <2>7, <2>8, <2>9, <2>10
<1>11. \A arch \in Architectures :
         /\ \A signed : Word(signed)[arch][1] <= WordSize(arch)
         /\ \A bytes \in {1, 2, 4}, signed \in BOOLEAN : Integer(bytes, signed)[arch][1] <= WordSize(arch)
  BY DEF Word, Integer, WordSize
<1> DEFINE fitting(integer) == \A arch \in Architectures : integer[arch][1] <= WordSize(arch)
<1>12. \E integer : Matches(integer) /\ fitting(integer)
  <2>1. fitting(Word(TRUE)) /\ fitting(Word(FALSE)) /\ \A bytes \in {1, 2, 4}, signed \in BOOLEAN : fitting(Integer(bytes, signed))
    BY <1>11
  <2> HIDE DEF Matches, fitting
  <2> QED
    BY <1>10, <2>1
<1>13. /\ Len(Primitive[e]) = 1 /\ Primitive[e][1] \in DOMAIN GoInteger /\ e \in DOMAIN Native
       /\ \A arch \in Architectures :
            Native[e][arch] = GoInteger[Primitive[e][1]][arch] /\ Native[e][arch][1] <= WordSize(arch)
  BY <1>12
<1> QED
  BY <1>4, <1>5, <1>7, <1>13 DEF Fits, p

(* A call that the import lets through passes words that fit.              *)
CallIsFit(x) ==
  LET m == file.types[x.row[2]].methods[x.row[3]]
      wrapper == Wrapper(x.function[1])
  IN /\ m.signature # None /\ m.import # None
     /\ LET sig == m.signature[1] IN
          /\ ~sig.varargs
          /\ Len(wrapper.params) = Len(sig.params)
          /\ \A i \in DOMAIN sig.params : Fits(sig.params[i], wrapper.params[i])
          /\ IF wrapper.result = <<>> THEN sig.ret.element = "VOID" /\ sig.ret.modifiers = <<>>
             ELSE Fits(sig.ret, wrapper.result)
     /\ m.import[1].convention \notin {"cdecl", "thiscall", "fastcall"}
     /\ ~(file.source = "wdk-winmd" /\ m.import[1].dll \in KernelDLLs)
     /\ wrapper.lastError = m.import[1].setLastError

LEMMA CallFits ==
  ASSUME ImportInv, NEW x \in ToSet(symbols), x.row[1] = "MethodDef", x.status = "generated-purego"
  PROVE  CallIsFit(x)
<1> DEFINE i == x.row[2]
           j == x.row[3]
           m == file.types[i].methods[j]
           fn == Imported(m)
<1>1. /\ x.row = <<"MethodDef", i, j>> /\ x = MethodSymbol(i, j) /\ MethodStatus(m) = "generated-purego"
  BY CallsAreEmitted DEF EmittedStatus
<1>2. m \in Method
  <2>1. PICK h \in Heads : x.row \in RowsOf(h)
    BY SymbolsAreOfRows
  <2>2. x.row[1] = "MethodDef" /\ x.row # h
    BY DEF Heads
  <2>3. h[1] = "TypeDef" /\ x.row \in PartsOf(h[2])
    BY <2>1, <2>2 DEF RowsOf
  <2>4. i = h[2] /\ j \in DOMAIN file.types[i].methods
    BY <1>1, <2>3 DEF PartsOf
  <2>5. i \in DOMAIN file.types
    BY <2>3, <2>4 DEF Heads
  <2>6. file.types[i].methods \in Seq(Method)
    BY <2>5, Forms DEF ImportInv
  <2> HIDE DEF i, j
  <2> QED
    BY <2>4, <2>6, ElementOfSeq
<1> HIDE DEF m, i, j
<1>3. /\ m.signature # None /\ m.import # None
      /\ ~(file.source = "wdk-winmd" /\ fn.dll \in KernelDLLs)
      /\ Capability(fn) = "purego-syscall" /\ \A t \in Types(fn) : ~PointerABI(t)
      /\ SafePureGoPInvoke(fn)
  <2> HIDE DEF fn
  <2>1. m.import # None /\ ImportStatus(fn, m.signature # None, file.source) = "generated-purego"
    BY <1>1 DEF MethodStatus, fn
  <2> QED
    BY <2>1 DEF ImportStatus
<1> DEFINE sig == m.signature[1]
           imp == m.import[1]
<1>4. /\ sig \in [params : Seq(SigTypes), ret : SigTypes, varargs : BOOLEAN]
      /\ imp \in [dll : STRING, entry : STRING, convention : STRING, setLastError : BOOLEAN]
  <2>1. \A S, s : s \in Maybe(S) /\ s # None => s[1] \in S
    BY DEF Maybe, None
  <2>2. /\ m.signature \in Maybe([params : Seq(SigTypes), ret : SigTypes, varargs : BOOLEAN])
        /\ m.import \in Maybe([dll : STRING, entry : STRING, convention : STRING, setLastError : BOOLEAN])
    BY <1>2 DEF Method
  <2> QED
    BY <1>3, <2>1, <2>2
<1> HIDE DEF sig, imp
<1>5. /\ fn.dll = imp.dll /\ fn.convention = CallingConvention(imp.convention) /\ fn.setLastError = imp.setLastError
      /\ fn.varargs = sig.varargs /\ fn.ret = ProjectRet(sig.ret)
      /\ fn.params = [k \in DOMAIN sig.params |-> ProjectSigType[sig.params[k]]]
  BY <1>3 DEF Imported, ProjectMethod, sig, imp
<1>6. x.function[1] = [fn EXCEPT !.optional = TRUE]
  <2>1. x.function = <<[Imported(m) EXCEPT !.optional = MethodStatus(m) = "generated-purego"]>>
    BY <1>1 DEF MethodSymbol, Symbol, m
  <2> DEFINE g == [Imported(m) EXCEPT !.optional = MethodStatus(m) = "generated-purego"]
  <2>2. (MethodStatus(m) = "generated-purego") = TRUE
    BY <1>1
  <2>3. g = [fn EXCEPT !.optional = TRUE]
    BY <2>2
  <2>4. x.function = <<g>>
    BY <2>1
  <2> HIDE DEF g, fn
  <2> QED
    BY <2>3, <2>4
<1>7. LET g == x.function[1] IN g.params = fn.params /\ g.ret = fn.ret /\ g.setLastError = fn.setLastError
  BY <1>6 DEF Imported, ProjectMethod, UnparsedMethod
<1> HIDE DEF fn
<1> DEFINE wrapper == Wrapper(x.function[1])
<1>8. /\ wrapper.params = [k \in DOMAIN fn.params |-> IF fn.params[k].go = <<>> THEN <<"uintptr">> ELSE fn.params[k].go]
      /\ wrapper.result = fn.ret.go /\ wrapper.lastError = fn.setLastError
  BY <1>7 DEF Wrapper
<1> HIDE DEF wrapper
<1>9. ~sig.varargs
  BY <1>3, <1>5 DEF Capability
<1>10. imp.convention \notin {"cdecl", "thiscall", "fastcall"}
  BY <1>3, <1>5 DEF SafePureGoPInvoke, CallingConvention
<1>11. sig.params \in Seq(SigTypes) /\ DOMAIN fn.params = DOMAIN sig.params /\ sig.ret \in SigTypes
  BY <1>4, <1>5
<1>12. Len(wrapper.params) = Len(sig.params)
  BY <1>8, <1>11
<1>13. ASSUME NEW k \in DOMAIN sig.params PROVE Fits(sig.params[k], wrapper.params[k])
  <2> DEFINE t == sig.params[k]
  <2>1. t \in SigTypes /\ fn.params[k] = ProjectSigType[t] /\ k \in DOMAIN fn.params
    BY <1>5, <1>11
  <2>2. fn.params[k] \in ToSet(fn.params)
    BY <2>1 DEF ToSet
  <2>3. fn.params[k] \in Types(fn)
    BY <2>2 DEF Types
  <2>4. SafeWordType(fn.params[k], FALSE) /\ ~PointerABI(fn.params[k])
    BY <1>3, <2>2, <2>3 DEF SafePureGoPInvoke
  <2>5. ProjectSigType[t].go # <<>> /\ Fits(t, ProjectSigType[t].go)
    BY <2>1, <2>4, WordsFit
  <2>6. wrapper.params[k] = ProjectSigType[t].go
    BY <1>8, <2>1, <2>5
  <2> QED
    BY <2>5, <2>6
<1>14. IF wrapper.result = <<>> THEN sig.ret.element = "VOID" /\ sig.ret.modifiers = <<>> ELSE Fits(sig.ret, wrapper.result)
  <2>1. SafeWordType(fn.ret, TRUE) /\ ~PointerABI(fn.ret)
    BY <1>3 DEF SafePureGoPInvoke, Types
  <2>2. CASE sig.ret.element = "VOID"
    <3>1. fn.ret = [kind |-> "primitive", go |-> <<>>, opaque |-> sig.ret.modifiers # <<>>, depth |-> 0, of |-> <<>>]
      BY <1>5, <2>2 DEF ProjectRet
    <3> DEFINE opaque == sig.ret.modifiers # <<>>
    <3> HIDE DEF opaque
    <3>2. fn.ret.go = <<>> /\ fn.ret.opaque = opaque
      BY <3>1 DEF opaque
    <3>3. ~fn.ret.opaque
      BY <2>1 DEF SafeWordType
    <3> QED
      BY <1>8, <2>2, <3>2, <3>3 DEF opaque
  <2>3. CASE sig.ret.element # "VOID"
    <3>1. fn.ret = ProjectSigType[sig.ret]
      BY <1>5, <2>3 DEF ProjectRet
    <3>2. ProjectSigType[sig.ret].go # <<>>
      <4>1. ProjectSigType[sig.ret] = ProjectOf(ProjectSigType, sig.ret)
        BY <1>11, ProjectUnfolds
      <4>2. \A h, t : ProjectOf(h, t).go # <<>>
        BY DEF ProjectOf
      <4> QED
        BY <4>1, <4>2
    <3>3. SafeWordType(ProjectSigType[sig.ret], FALSE)
      BY <2>1, <3>1, <3>2 DEF SafeWordType
    <3>4. Fits(sig.ret, ProjectSigType[sig.ret].go)
      BY <1>11, <2>1, <3>1, <3>3, WordsFit
    <3> QED
      BY <1>8, <3>1, <3>2, <3>4
  <2> QED
    BY <2>2, <2>3
<1> QED
  BY <1>3, <1>5, <1>8, <1>9, <1>10, <1>12, <1>13, <1>14 DEF CallIsFit, sig, imp, m, i, j, wrapper

LEMMA EmittedCallsFit ==
  ASSUME ImportInv, TreeInv
  PROVE  CallsFitWords
<1> SUFFICES ASSUME tree # None, NEW d \in tree[1], d.file = "zfunctions", d.row[1] = "MethodDef"
             PROVE  \E x \in ToSet(symbols) :
                      /\ x.row = d.row /\ x.status = "generated-purego"
                      /\ \A y \in ToSet(symbols) : y.row = d.row => y = x
  <2>1. ASSUME tree # None, NEW d \in tree[1], d.file = "zfunctions", d.row[1] = "MethodDef"
        PROVE  LET s == CHOOSE y \in ToSet(symbols) : y.row = d.row IN s.row = d.row /\ CallIsFit(s)
    <3>1. PICK x \in ToSet(symbols) :
                      /\ x.row = d.row /\ x.status = "generated-purego"
                      /\ \A y \in ToSet(symbols) : y.row = d.row => y = x
      BY <2>1
    <3>2. x = CHOOSE y \in ToSet(symbols) : y.row = d.row
      BY <3>1
    <3>3. CallIsFit(x)
      BY <2>1, <3>1, CallFits
    <3> QED
      BY <3>1, <3>2, <3>3
  <2> SUFFICES ASSUME tree # None, NEW d \in tree[1], d.file = "zfunctions" /\ d.row[1] = "MethodDef"
               PROVE  LET s == CHOOSE x \in ToSet(symbols) : x.row = d.row
                          m == file.types[d.row[2]].methods[d.row[3]]
                          wrapper == Wrapper(s.function[1])
                      IN /\ m.signature # None /\ m.import # None
                         /\ LET sig == m.signature[1] IN
                              /\ ~sig.varargs
                              /\ Len(wrapper.params) = Len(sig.params)
                              /\ \A i \in DOMAIN sig.params : Fits(sig.params[i], wrapper.params[i])
                              /\ IF wrapper.result = <<>> THEN sig.ret.element = "VOID" /\ sig.ret.modifiers = <<>>
                                 ELSE Fits(sig.ret, wrapper.result)
                         /\ m.import[1].convention \notin {"cdecl", "thiscall", "fastcall"}
                         /\ ~(file.source = "wdk-winmd" /\ m.import[1].dll \in KernelDLLs)
                         /\ wrapper.lastError = m.import[1].setLastError
    BY DEF CallsFitWords
  <2> DEFINE s == CHOOSE x \in ToSet(symbols) : x.row = d.row
  <2>2. s.row = d.row /\ CallIsFit(s)
    BY <2>1
  <2> HIDE DEF s
  <2> QED
    BY <2>2 DEF CallIsFit, s
<1>1. \E x \in Inventory : d.row = x.row /\ InFunctions(x)
  <2>1. d \in Bridge(Inventory) \/ \E x \in Inventory : d \in Declared(x)
    <3>1. d \in Render(Inventory)
      BY DEF TreeInv
    <3> DEFINE U == {Declared(x) : x \in {y \in Inventory : Emitted(y)}}
    <3>2. d \in Bridge(Inventory) \/ d \in UNION U
      BY <3>1 DEF Render
    <3>3. \A u \in U : \E x \in Inventory : u = Declared(x)
      OBVIOUS
    <3> HIDE DEF U
    <3> QED
      BY <3>2, <3>3
  <2>2. d \notin Bridge(Inventory)
    BY DEF Bridge
  <2>3. PICK x \in Inventory : d \in Declared(x)
    BY <2>1, <2>2
  <2>4. RenderedIn("zfunctions", x) /\ d.row = x.row
    BY <2>3 DEF Declared
  <2> QED
    BY <2>4 DEF RenderedIn, Architectures
<1>2. PICK x \in Inventory : d.row = x.row /\ InFunctions(x)
  BY <1>1
<1>3. x \in ToSet(symbols)
  BY <1>2, FixtureAssumption DEF Inventory
<1> QED
  BY <1>2, <1>3, RowsAreDistinct DEF InFunctions, Inventory

(* No emitted call passes what a machine word does not hold, whatever      *)
(* signatures and imports the metadata declares.                           *)
THEOREM EveryCallFitsWords == Spec => []CallsFitWords
BY ImportIsInductive, EmittedCallsFit, PTL

-----------------------------------------------------------------------------
(* Where the members of a record of the fixture lie, for C and for the     *)
(* accessors.                                                              *)
Lies(type, name, arch) ==
  LET from == Offset(type, name, arch)
      extent == Extent(type, name, arch)
  IN /\ from \in Nat /\ extent \in Nat \ {0}
     /\ Storage(type, arch) \in Nat /\ from + extent <= Storage(type, arch)
     /\ CMember(type, name, arch) = from..(from + extent - 1)

LEMMA BitsLie ==
  ASSUME NEW type, RecordForm(type), type.bits # <<>>, NEW arch, NEW name \in Members(type)
  PROVE  /\ Lies(type, name, arch)
         /\ BitField(type, name).width = Extent(type, name, arch) /\ Extent(type, name, arch) \in 1..IntBits
<1> DEFINE bits == type.bits
           Eq(f) == f = [k \in DOMAIN bits |-> IF k = 1 THEN 0 ELSE f[k - 1] + bits[k - 1].width]
           from == CHOOSE f : Eq(f)
           at == CHOOSE k \in DOMAIN bits : bits[k].name = name
<1>1. /\ bits \in Seq([name : STRING, offset : Nat, width : 1..IntBits, signed : BOOLEAN])
      /\ \A i, j \in DOMAIN bits : bits[i].name = bits[j].name => i = j
      /\ \A i \in DOMAIN bits :
           /\ bits[i].offset = (IF i = 1 THEN 0 ELSE bits[i - 1].offset + bits[i - 1].width)
           /\ bits[i].offset + bits[i].width <= StorageBits
  BY DEF RecordForm
<1>2. name \in {f.name : f \in {g \in ToSet(bits) : g.width # 0}}
  BY DEF Members
<1>3. CMember(type, name, arch) = from[at]..(from[at] + bits[at].width - 1)
  BY DEF CMember
<1>4. /\ Offset(type, name, arch) = BitField(type, name).offset /\ Extent(type, name, arch) = BitField(type, name).width
      /\ Storage(type, arch) = StorageBits
  BY DEF Offset, Extent, Storage
<1> HIDE DEF bits
<1>5. PICK n \in DOMAIN bits : bits[n].name = name
  BY <1>2 DEF ToSet
<1>6. at = n
  BY <1>1, <1>5
<1>7. BitField(type, name) = bits[n]
  <2>1. bits[n] \in ToSet(bits) /\ \A f \in ToSet(bits) : f.name = name => f = bits[n]
    BY <1>1, <1>5 DEF ToSet
  <2>2. BitField(type, name) = CHOOSE f \in ToSet(bits) : f.name = name
    BY DEF BitField, bits
  <2> QED
    BY <1>5, <2>1, <2>2
<1>8. /\ \A k \in DOMAIN bits : bits[k].offset \in Nat /\ bits[k].width \in 1..IntBits
      /\ DOMAIN bits = 1..Len(bits) /\ Len(bits) \in Nat
  <2> DEFINE B == [name : STRING, offset : Nat, width : 1..IntBits, signed : BOOLEAN]
  <2>1. bits \in Seq(B)
    BY <1>1
  <2>2. \A b \in B : b.offset \in Nat /\ b.width \in 1..IntBits
    OBVIOUS
  <2> HIDE DEF B
  <2> QED
    BY <2>1, <2>2
<1>9. Eq(from)
  <2> DEFINE g == [k \in DOMAIN bits |-> bits[k].offset]
             g2 == [k \in DOMAIN bits |-> IF k = 1 THEN 0 ELSE g[k - 1] + bits[k - 1].width]
  <2>1. ASSUME NEW k \in DOMAIN bits PROVE g[k] = g2[k]
    <3>1. k = 1 \/ k - 1 \in DOMAIN bits
      BY <1>8
    <3> QED
      BY <1>1, <3>1
  <2>2. DOMAIN g = DOMAIN bits /\ DOMAIN g2 = DOMAIN bits /\ g = [k \in DOMAIN g |-> g[k]] /\ g2 = [k \in DOMAIN g2 |-> g2[k]]
    OBVIOUS
  <2>3. g = g2
    <3> HIDE DEF g, g2
    <3> QED
      BY <2>1, <2>2
  <2> HIDE DEF g
  <2>4. Eq(g)
    BY <2>3
  <2> HIDE DEF Eq
  <2> QED
    BY <2>4
<1> HIDE DEF from
<1>10. \A k \in DOMAIN bits : from[k] = IF k = 1 THEN 0 ELSE from[k - 1] + bits[k - 1].width
  BY <1>9
<1> HIDE DEF Eq, at
<1>11. \A k \in DOMAIN bits : from[k] = bits[k].offset
  <2> DEFINE W == {k \in DOMAIN bits : from[k] # bits[k].offset}
  <2>1. W \in SUBSET Nat
    BY <1>8
  <2>2. ASSUME NEW k \in W, \A l \in W : k <= l PROVE FALSE
    <3>1. k \in DOMAIN bits /\ from[k] # bits[k].offset
      OBVIOUS
    <3>2. k # 1
      BY <1>1, <1>10, <3>1
    <3>3. k - 1 \in DOMAIN bits /\ ~(k <= k - 1)
      BY <1>8, <3>1, <3>2
    <3>4. from[k - 1] = bits[k - 1].offset
      BY <2>2, <3>3
    <3> QED
      BY <1>1, <1>10, <3>1, <3>2, <3>4
  <2> HIDE DEF W
  <2>3. W = {}
    BY <2>1, <2>2, MinIn
  <2> QED
    BY <2>3 DEF W
<1>12. IntBits \in Nat /\ StorageBits \in Nat
  BY FixtureAssumption
<1> DEFINE o == bits[n].offset
           w == bits[n].width
<1>13. o \in Nat /\ w \in 1..IntBits /\ o + w <= StorageBits
  BY <1>1, <1>5, <1>8
<1>14. /\ CMember(type, name, arch) = o..(o + w - 1) /\ Offset(type, name, arch) = o /\ Extent(type, name, arch) = w
       /\ Storage(type, arch) = StorageBits
  BY <1>3, <1>4, <1>5, <1>6, <1>7, <1>11
<1> HIDE DEF o, w
<1>15. BitField(type, name).width = w
  BY <1>7 DEF w
<1> QED
  BY <1>12, <1>13, <1>14, <1>15 DEF Lies

(* The layout that is rendered for an architecture is the one C has there. *)
LEMMA LayoutIsOfArchitecture ==
  ASSUME NEW type, RecordForm(type), DOMAIN type.views # {}, NEW arch \in Architectures
  PROVE  /\ Layout(type, arch) = CLayout(type, arch) /\ Layout(type, arch).arch = arch
         /\ Layout(type, arch) \in ToSet(type.layouts)
<1> DEFINE layouts == type.layouts
           own == {i \in DOMAIN layouts : Len(layouts) > 1 /\ layouts[i].arch = arch}
<1>1. /\ layouts \in Seq(ToSet(layouts)) /\ \E l \in ToSet(layouts) : l.arch = arch
      /\ \A i, j \in DOMAIN layouts : layouts[i].arch = layouts[j].arch => i = j
  BY DEF RecordForm
<1>2. /\ Layout(type, arch) = layouts[IF own = {} THEN 1 ELSE Lowest(own)]
      /\ CLayout(type, arch) = CHOOSE l \in ToSet(layouts) : l.arch = arch
  BY DEF Layout, CLayout
<1> HIDE DEF layouts
<1>3. PICK n \in DOMAIN layouts : layouts[n].arch = arch
  BY <1>1 DEF ToSet
<1>4. \A i \in DOMAIN layouts : layouts[i].arch = arch => i = n
  BY <1>1, <1>3
<1>5. n \in Nat /\ n <= n /\ DOMAIN layouts = 1..Len(layouts) /\ Len(layouts) \in Nat
  BY <1>1
<1>6. (IF own = {} THEN 1 ELSE Lowest(own)) = n
  <2>1. CASE Len(layouts) > 1
    <3>1. own = {n}
      BY <1>3, <1>4, <2>1
    <3> QED
      BY <1>5, <3>1 DEF Lowest
  <2>2. CASE ~(Len(layouts) > 1)
    BY <1>3, <1>5, <2>2
  <2> QED
    BY <2>1, <2>2
<1> HIDE DEF own
<1>7. layouts[n] \in ToSet(layouts) /\ \A l \in ToSet(layouts) : l.arch = arch => l = layouts[n]
  BY <1>3, <1>4 DEF ToSet
<1>8. CLayout(type, arch) = layouts[n]
  BY <1>2, <1>3, <1>7
<1> QED
  BY <1>2, <1>3, <1>6, <1>7, <1>8 DEF layouts

LEMMA ViewsLie ==
  ASSUME NEW type, RecordForm(type), type.bits = <<>>, NEW arch \in Architectures, NEW name \in Members(type)
  PROVE  Lies(type, name, arch)
<1>1. name \in DOMAIN type.views
  BY DEF Members
<1> DEFINE l == Layout(type, arch)
           o == l.offsets[name]
           w == type.views[name][arch]
<1>2. l = CLayout(type, arch) /\ l.arch = arch /\ l \in ToSet(type.layouts)
  BY <1>1, LayoutIsOfArchitecture
<1>3. l.size \in Nat /\ o \in Nat /\ type.views[name][l.arch] \in Nat \ {0} /\ o + type.views[name][l.arch] <= l.size
  BY <1>1, <1>2 DEF RecordForm
<1>4. w \in Nat \ {0} /\ o + w <= l.size
  BY <1>2, <1>3
<1>5. /\ Offset(type, name, arch) = o /\ Extent(type, name, arch) = w /\ Storage(type, arch) = l.size
      /\ CMember(type, name, arch) = o..(o + w - 1)
  BY <1>2 DEF Offset, Extent, Storage, CMember
<1> HIDE DEF o, w
<1> QED
  BY <1>3, <1>4, <1>5 DEF Lies

(* What a member that lies so is, for the accessors.                       *)
LEMMA MembersAreMasked ==
  ASSUME NEW type, NEW name, NEW arch, Lies(type, name, arch)
  PROVE  /\ Mask(type, name, arch) = CMember(type, name, arch) /\ Lowest(CMember(type, name, arch)) = Offset(type, name, arch)
         /\ Mask(type, name, arch) \subseteq 0..(Storage(type, arch) - 1)
         /\ Cardinality(CMember(type, name, arch)) = Extent(type, name, arch)
         /\ \A ones : Shifted(ones \cap Mask(type, name, arch), -Offset(type, name, arch)) \subseteq 0..(Extent(type, name, arch) - 1)
<1> DEFINE o == Offset(type, name, arch)
           w == Extent(type, name, arch)
           c == CMember(type, name, arch)
           size == Storage(type, arch)
<1>1. o \in Nat /\ w \in Nat \ {0} /\ size \in Nat /\ o + w <= size /\ c = o..(o + w - 1)
  BY DEF Lies
<1>2. Mask(type, name, arch) = o..(o + w - 1)
  BY DEF Mask
<1> HIDE DEF o, w, c, size
<1>3. o \in o..(o + w - 1) /\ \A b \in o..(o + w - 1) : o <= b
  BY <1>1
<1>4. Lowest(c) = o
  <2>1. Lowest(c) = CHOOSE b \in c : \A d \in c : b <= d
    BY DEF Lowest
  <2>2. \A b \in c : (\A d \in c : b <= d) => b = o
    BY <1>1, <1>3
  <2>3. \A b \in c : o <= b
    BY <1>1, <1>3
  <2>4. o \in c
    BY <1>1, <1>3
  <2> QED
    BY <2>1, <2>2, <2>3, <2>4
<1>5. o..(o + w - 1) \subseteq 0..(size - 1)
  BY <1>1
<1>6. Cardinality(o..(o + w - 1)) = w
  <2>1. o \in Int /\ o + w - 1 \in Int /\ ~(o > o + w - 1) /\ (o + w - 1) - o + 1 = w
    BY <1>1
  <2> QED
    BY <2>1, FS_Interval
<1>7. ASSUME NEW ones PROVE Shifted(ones \cap o..(o + w - 1), -o) \subseteq 0..(w - 1)
  <2>1. \A b \in o..(o + w - 1) : b + (-o) \in 0..(w - 1)
    BY <1>1
  <2> QED
    BY <2>1 DEF Shifted
<1> QED
  BY <1>1, <1>2, <1>4, <1>5, <1>6, <1>7 DEF o, w, c, size

(* raw << shift >> shift extends the sign of a field of the width.         *)
LEMMA ExtendsSign ==
  ASSUME NEW width \in 1..IntBits, NEW raw \in SUBSET (0..(width - 1))
  PROVE  SignExtended(raw, width) = IF (width - 1) \in raw THEN raw \cup width..(IntBits - 1) ELSE raw
<1> DEFINE shift == IntBits - width
           up == Shifted(raw, shift) \cap 0..(IntBits - 1)
           down == Shifted({b \in up : b >= shift}, -shift)
<1>1. IntBits \in Nat
  BY FixtureAssumption
<1>2. shift \in Nat /\ IntBits - shift = width /\ width \in Nat /\ width + shift = IntBits
  BY <1>1
<1>3. SignExtended(raw, width) = down \cup (IF IntBits - 1 \in up THEN (IntBits - shift)..(IntBits - 1) ELSE {})
  BY DEF SignExtended
<1> HIDE DEF shift
<1>4. \A b \in raw : b \in Int /\ 0 <= b /\ b <= width - 1
  BY <1>2
<1>5. \A x : x \in up <=> \E b \in raw : x = b + shift
  BY <1>1, <1>2, <1>4 DEF Shifted
<1>6. down = raw
  <2>1. \A x : x \in down <=> \E b \in raw : x = (b + shift) + (-shift) /\ b + shift >= shift
    <3> HIDE DEF up
    <3> QED
      BY <1>5 DEF Shifted
  <2>2. \A b \in raw : b = (b + shift) + (-shift) /\ b + shift >= shift
    BY <1>2, <1>4
  <2> DEFINE back(b) == (b + shift) + (-shift)
             kept(b) == b + shift >= shift
  <2>3. /\ \A x : x \in down <=> \E b \in raw : x = back(b) /\ kept(b)
        /\ \A b \in raw : b = back(b) /\ kept(b)
    BY <2>1, <2>2
  <2> HIDE DEF down, back, kept
  <2>4. ASSUME NEW x \in down PROVE x \in raw
    <3>1. PICK b \in raw : x = back(b) /\ kept(b)
      BY <2>3
    <3>2. back(b) = b
      BY <2>3
    <3> QED
      BY <3>1, <3>2
  <2>5. ASSUME NEW b \in raw PROVE b \in down
    <3>1. b = back(b) /\ kept(b)
      BY <2>3
    <3> QED
      BY <2>3, <3>1
  <2> QED
    BY <2>4, <2>5
<1>7. IntBits - 1 \in up <=> width - 1 \in raw
  <2>1. \A b \in raw : IntBits - 1 = b + shift <=> b = width - 1
    BY <1>1, <1>2, <1>4
  <2> HIDE DEF up
  <2> QED
    BY <1>5, <2>1
<1> HIDE DEF down, up
<1> QED
  BY <1>2, <1>3, <1>6, <1>7

-----------------------------------------------------------------------------
(* The record of a program is one of the fixture, with the bits that the   *)
(* same assignments leave in C.                                            *)
Shared(s, arch) ==
  /\ RecordForm(s.type[1]) /\ Members(s.type[1]) # {}
  /\ object = <<[type |-> s.type[1], arch |-> arch, ones |-> native]>>

ObjectInv ==
  IF object = None THEN native = {} ELSE \E s \in Fixture, arch \in Architectures : Shared(s, arch)

(* Members lie where C has them, within the storage.                       *)
LEMMA MembersLie ==
  ASSUME NEW type, RecordForm(type), NEW arch \in Architectures, NEW name \in Members(type)
  PROVE  Lies(type, name, arch)
BY BitsLie, ViewsLie

(* An assignment writes the same bits in Go and in C.                      *)
LEMMA ObjectStep == ObjectInv /\ [Next]_vars => ObjectInv'
<1> SUFFICES ASSUME ObjectInv, [Next]_vars PROVE ObjectInv'
  OBVIOUS
<1>1. ASSUME NEW s \in Fixture, NEW target \in Targets, New(s, target) PROVE ObjectInv'
  <2>1. s.kind \in {"struct", "union"} /\ Members(s.type[1]) # {}
    BY <1>1 DEF New, HasAccessors
  <2>2. RecordForm(s.type[1])
    BY <2>1, FixtureAssumption DEF TypeForm, FunctionForm
  <2>3. object = None /\ native' = {} /\ object' = <<[type |-> s.type[1], arch |-> target.arch, ones |-> {}]>>
    BY <1>1 DEF New, ObjectInv
  <2>4. target.arch \in Architectures
    BY DEF Targets
  <2>5. Shared(s, target.arch)'
    BY <2>1, <2>2, <2>3 DEF Shared
  <2>6. object' # None
    BY <2>3 DEF None
  <2> QED
    BY <2>4, <2>5, <2>6 DEF ObjectInv
<1>2. ASSUME object # None, NEW name \in Members(object[1].type), NEW value, Set(name, value) PROVE ObjectInv'
  <2>1. PICK s \in Fixture, arch \in Architectures : Shared(s, arch)
    BY <1>2 DEF ObjectInv
  <2> DEFINE type == s.type[1]
             o == [type |-> type, arch |-> arch, ones |-> native]
  <2>2. RecordForm(type) /\ Members(type) # {} /\ object = <<o>>
    BY <2>1 DEF Shared
  <2> HIDE DEF type
  <2>3. object[1] = o /\ o.type = type /\ o.arch = arch /\ o.ones = native /\ name \in Members(type)
    BY <1>2, <2>2
  <2>4. /\ Mask(type, name, arch) = CMember(type, name, arch)
        /\ Lowest(CMember(type, name, arch)) = Offset(type, name, arch)
    BY <2>2, <2>3, MembersLie, MembersAreMasked
  <2> DEFINE at == CMember(type, name, arch)
             ones == SetMember(native, type, name, arch, value)
  <2>5. native' = (native \ at) \cup (Shifted(value, Lowest(at)) \cap at)
    BY <1>2, <2>3 DEF Set
  <2>6. ones = native'
    BY <2>4, <2>5 DEF SetMember
  <2> HIDE DEF at, ones
  <2>7. object' = <<[o EXCEPT !.ones = ones]>>
    BY <1>2, <2>3 DEF Set, ones
  <2>8. [o EXCEPT !.ones = ones] = [type |-> type, arch |-> arch, ones |-> ones]
    OBVIOUS
  <2>9. object' = <<[type |-> type, arch |-> arch, ones |-> native']>>
    BY <2>6, <2>7, <2>8
  <2>10. Shared(s, arch)'
    BY <2>2, <2>9 DEF Shared, type
  <2>11. object' # None
    BY <2>9 DEF None
  <2> QED
    BY <2>10, <2>11 DEF ObjectInv
<1>3. ASSUME UNCHANGED <<object, native>> PROVE ObjectInv'
  BY <1>3 DEF ObjectInv, Shared
<1>4. Import /\ UNCHANGED <<tree, object, native>> => UNCHANGED <<object, native>>
  OBVIOUS
<1>5. Emit => UNCHANGED <<object, native>>
  BY DEF Emit
<1>6. UNCHANGED vars => UNCHANGED <<object, native>>
  BY DEF vars
<1> QED
  BY <1>1, <1>2, <1>3, <1>4, <1>5, <1>6 DEF Next, Use

(* With the same bits, the accessors read what C reads.                    *)
LEMMA ObjectAgrees == ObjectInv => AccessorsAgree
<1> SUFFICES ASSUME ObjectInv, object # None PROVE AccessorsAgree
  BY DEF AccessorsAgree
<1>1. PICK s \in Fixture, arch \in Architectures : Shared(s, arch)
  BY DEF ObjectInv
<1> DEFINE type == s.type[1]
           o == [type |-> type, arch |-> arch, ones |-> native]
<1>2. RecordForm(type) /\ Members(type) # {} /\ object = <<o>>
  BY <1>1 DEF Shared
<1> HIDE DEF type
<1>3. object[1] = o /\ o.type = type /\ o.arch = arch /\ o.ones = native
  BY <1>2
<1> HIDE DEF o
<1>4. ASSUME type.bits = <<>>
      PROVE  LET c == CLayout(type, arch).alignment IN GoAlignment(type, arch) = c \/ (arch = "386" /\ c > 4)
  <2> DEFINE c == CLayout(type, arch).alignment
  <2>1. DOMAIN type.views # {}
    BY <1>2, <1>4 DEF Members
  <2>2. Layout(type, arch) = CLayout(type, arch) /\ Layout(type, arch) \in ToSet(type.layouts)
    BY <1>2, <2>1, LayoutIsOfArchitecture
  <2>3. c \in {1, 2, 4, 8}
    BY <1>2, <2>1, <2>2 DEF RecordForm
  <2>4. GoAlignment(type, arch) = IF (arch = "386" /\ c > 4) \/ c \notin {2, 4, 8} THEN 1 ELSE c
    BY <2>2 DEF GoAlignment
  <2> HIDE DEF c
  <2>5. GoAlignment(type, arch) = c \/ (arch = "386" /\ c > 4)
    BY <2>3, <2>4
  <2> QED
    BY <2>5 DEF c
<1>5. ASSUME NEW name \in Members(type)
      PROVE  /\ GetMember(native, type, name, arch) = CValue(type, name, arch, native)
             /\ Mask(type, name, arch) \subseteq 0..(Storage(type, arch) - 1)
  <2> DEFINE at == CMember(type, name, arch)
             raw == Shifted(native \cap at, -Lowest(at))
             width == Extent(type, name, arch)
             signed == type.bits # <<>> /\ BitField(type, name).signed
  <2>1. /\ Mask(type, name, arch) = at /\ Lowest(at) = Offset(type, name, arch)
        /\ Mask(type, name, arch) \subseteq 0..(Storage(type, arch) - 1)
        /\ Cardinality(at) = width
        /\ Shifted(native \cap Mask(type, name, arch), -Offset(type, name, arch)) \subseteq 0..(width - 1)
    BY <1>2, MembersLie, MembersAreMasked
  <2>2. raw \subseteq 0..(width - 1)
    BY <2>1
  <2>3. CValue(type, name, arch, native) =
          IF signed /\ (width - 1) \in raw THEN raw \cup width..(IntBits - 1) ELSE raw
    BY <2>1 DEF CValue
  <2>4. GetMember(native, type, name, arch) = IF signed THEN SignExtended(raw, BitField(type, name).width) ELSE raw
    BY <2>1 DEF GetMember
  <2>5. signed => BitField(type, name).width = width /\ width \in 1..IntBits
    BY <1>2, BitsLie
  <2> HIDE DEF raw, width, signed, at
  <2>6. signed => SignExtended(raw, width) = IF (width - 1) \in raw THEN raw \cup width..(IntBits - 1) ELSE raw
    BY <2>2, <2>5, ExtendsSign
  <2> QED
    BY <2>1, <2>3, <2>4, <2>5, <2>6
<1> QED
  BY <1>3, <1>4, <1>5 DEF AccessorsAgree

(* Whatever is assigned in whatever order, records are what they would be  *)
(* in C, for every width of a word and every record of the forms there are.*)
THEOREM AccessorsAlwaysAgree == Spec => []AccessorsAgree
<1>1. Init => ObjectInv
  BY DEF Init, ObjectInv
<1>2. ObjectInv /\ [Next]_vars => ObjectInv'
  BY ObjectStep
<1> QED
  BY <1>1, <1>2, ObjectAgrees, PTL DEF Spec

-----------------------------------------------------------------------------
(* The walk from a type outwards: each step leads to the type around.      *)
OuterOf(i) == IF i \in DOMAIN file.enclosing THEN file.enclosing[i] ELSE 0

Walks(up, i, m) == up = [n \in 0..m |-> IF n = 0 THEN i ELSE OuterOf(up[n - 1])]

LEMMA WalksExist ==
  ASSUME NEW i, NEW n \in Nat
  PROVE  \E up : Walks(up, i, n)
<1> DEFINE W == {m \in Nat : ~\E up : Walks(up, i, m)}
<1>1. W \in SUBSET Nat
  OBVIOUS
<1>2. ASSUME NEW m \in W, \A l \in W : m <= l PROVE FALSE
  <2>1. m \in Nat /\ ~\E up : Walks(up, i, m)
    OBVIOUS
  <2>2. CASE m = 0
    <3> DEFINE g == [k \in 0..0 |-> i]
    <3>1. Walks(g, i, 0)
      BY DEF Walks
    <3> QED
      BY <2>1, <2>2, <3>1
  <2>3. CASE m # 0
    <3>1. m - 1 \in Nat /\ m - 1 \notin W /\ m - 1 <= m
      BY <1>2, <2>1, <2>3
    <3>2. PICK f : Walks(f, i, m - 1)
      BY <3>1
    <3> DEFINE g == [k \in 0..m |-> IF k < m THEN f[k] ELSE OuterOf(f[m - 1])]
               h == [k \in 0..m |-> IF k = 0 THEN i ELSE OuterOf(g[k - 1])]
    <3>3. \A k \in 0..(m - 1) : f[k] = IF k = 0 THEN i ELSE OuterOf(f[k - 1])
      BY <3>2 DEF Walks
    <3>4. ASSUME NEW k \in 0..m PROVE g[k] = h[k]
      <4>1. CASE k = 0
        BY <2>1, <2>3, <3>3, <4>1
      <4>2. CASE k # 0 /\ k < m
        <5>1. k \in 0..(m - 1) /\ k - 1 \in 0..m /\ k - 1 < m
          BY <2>1, <4>2
        <5>2. g[k - 1] = f[k - 1] /\ g[k] = f[k]
          BY <4>2, <5>1
        <5> QED
          BY <3>3, <4>2, <5>1, <5>2
      <4>3. CASE k = m
        <5>1. k - 1 \in 0..m /\ k - 1 < m /\ ~(k < m) /\ k # 0
          BY <2>1, <2>3, <4>3
        <5>2. g[k - 1] = f[m - 1]
          BY <4>3, <5>1
        <5> QED
          BY <4>3, <5>1, <5>2
      <4> QED
        BY <2>1, <4>1, <4>2, <4>3
    <3>5. DOMAIN g = 0..m /\ DOMAIN h = 0..m /\ g = [k \in DOMAIN g |-> g[k]] /\ h = [k \in DOMAIN h |-> h[k]]
      OBVIOUS
    <3>6. g = h
      <4> HIDE DEF g, h
      <4> QED
        BY <3>4, <3>5
    <3> HIDE DEF g
    <3>7. Walks(g, i, m)
      BY <3>6 DEF Walks
    <3> QED
      BY <2>1, <3>7
  <2> QED
    BY <2>2, <2>3
<1> HIDE DEF W
<1>3. W = {}
  BY <1>1, <1>2, MinIn
<1> QED
  BY <1>3 DEF W

LEMMA AroundWalks ==
  ASSUME file \in Files, NEW i
  PROVE  /\ Len(file.types) \in Nat /\ DOMAIN file.types = 1..Len(file.types)
         /\ Around(i)[0] = i
         /\ \A n \in 1..Len(file.types) : Around(i)[n] = OuterOf(Around(i)[n - 1])
<1>1. Len(file.types) \in Nat /\ DOMAIN file.types = 1..Len(file.types)
  <2>1. file.types \in Seq(ToSet(file.types))
    BY Forms
  <2> QED
    BY <2>1
<1> DEFINE m == Len(file.types)
           Is(up) == up = [n \in 0..m |-> IF n = 0 THEN i ELSE IF up[n - 1] \in DOMAIN file.enclosing THEN file.enclosing[up[n - 1]] ELSE 0]
<1>2. Around(i) = CHOOSE up : Is(up)
  BY DEF Around
<1>3. \A up : Is(up) <=> Walks(up, i, m)
  BY DEF Walks, OuterOf
<1> HIDE DEF Is, m
<1>4. Walks(Around(i), i, m)
  BY <1>1, <1>2, <1>3, WalksExist DEF m
<1> DEFINE up == Around(i)
<1>5. up = [n \in 0..m |-> IF n = 0 THEN i ELSE OuterOf(up[n - 1])] /\ m \in Nat
  BY <1>1, <1>4 DEF Walks, m
<1> HIDE DEF up
<1>6. up[0] = i /\ \A n \in 1..m : up[n] = OuterOf(up[n - 1])
  BY <1>5
<1> QED
  BY <1>1, <1>6 DEF up, m

(* It ends within as many steps as there are types.                        *)
Ends(up, n) ==
  \/ up[n] \notin DOMAIN file.types \/ ~file.types[up[n]].readable
  \/ \E k \in 0..(n - 1) : up[k] = up[n]

LEMMA WalkEnds ==
  ASSUME file \in Files, NEW i
  PROVE  \E met \in 0..Len(file.types) :
           /\ Owners(i) = [k \in 1..met |-> Around(i)[met - k]]
           /\ Ends(Around(i), met) /\ \A k \in 0..(met - 1) : ~Ends(Around(i), k)
<1> DEFINE up == Around(i)
           m == Len(file.types)
           Met(n) == n \in 0..m /\ Ends(up, n) /\ \A k \in 0..(n - 1) : ~Ends(up, k)
           met == CHOOSE n \in 0..m : Ends(up, n) /\ \A k \in 0..(n - 1) : ~Ends(up, k)
<1>1. Owners(i) = [k \in 1..met |-> up[met - k]]
  BY DEF Owners, Ends
<1>2. m \in Nat /\ DOMAIN file.types = 1..m
  BY AroundWalks
<1> HIDE DEF up, m
<1>3. \E n \in 0..m : Ends(up, n)
  <2> SUFFICES ASSUME \A n \in 0..m : ~Ends(up, n) PROVE FALSE
    OBVIOUS
  <2> DEFINE f == [n \in 0..m |-> up[n]]
  <2>1. f \in [0..m -> 1..m]
    BY <1>2 DEF Ends
  <2>2. IsFiniteSet(0..m) /\ IsFiniteSet(1..m) /\ Cardinality(0..m) = m + 1 /\ Cardinality(1..m) = m
    <3>1. IsFiniteSet(0..m) /\ Cardinality(0..m) = IF 0 > m THEN 0 ELSE m - 0 + 1
      BY <1>2, FS_Interval
    <3>2. IsFiniteSet(1..m) /\ Cardinality(1..m) = IF 1 > m THEN 0 ELSE m - 1 + 1
      BY <1>2, FS_Interval
    <3> QED
      BY <1>2, <3>1, <3>2
  <2>3. PICK x \in 0..m, y \in 0..m : x # y /\ f[x] = f[y]
    <3>1. Cardinality(1..m) < Cardinality(0..m)
      BY <1>2, <2>2
    <3> HIDE DEF f
    <3> QED
      BY <2>1, <2>2, <3>1, FS_PigeonHole
  <2>4. up[x] = up[y]
    BY <2>3
  <2>5. CASE x < y
    <3>1. x \in 0..(y - 1)
      BY <1>2, <2>5
    <3> QED
      BY <2>4, <3>1 DEF Ends
  <2>6. CASE y < x
    <3>1. y \in 0..(x - 1)
      BY <1>2, <2>6
    <3> QED
      BY <2>4, <3>1 DEF Ends
  <2> QED
    BY <1>2, <2>3, <2>5, <2>6
<1>4. \E n : Met(n)
  <2> DEFINE W == {n \in 0..m : Ends(up, n)}
  <2>1. W \in SUBSET Nat /\ W # {}
    BY <1>2, <1>3
  <2>2. PICK n \in W : \A l \in W : n <= l
    <3> HIDE DEF W
    <3> QED
      BY <2>1, MinIn
  <2>3. \A k \in 0..(n - 1) : k \in 0..m /\ ~(n <= k)
    BY <1>2
  <2> QED
    BY <2>2, <2>3
<1>5. Met(met)
  <2>1. PICK n : Met(n)
    BY <1>4
  <2> QED
    BY <2>1
<1> HIDE DEF met
<1> QED
  BY <1>1, <1>5 DEF up, m

(* Its types are those around, and the namespace is that of the last on    *)
(* the way that has one.                                                   *)
LEMMA NamespaceIsOutermost ==
  ASSUME file \in Files, NEW i \in DOMAIN file.types, \A j \in DOMAIN file.types : file.types[j].readable
  PROVE  OutermostHas(Namespace(i), i)
<1> DEFINE up == Around(i)
           types == DOMAIN file.types
<1>1. PICK met \in 0..Len(file.types) :
        /\ Owners(i) = [k \in 1..met |-> up[met - k]]
        /\ Ends(up, met) /\ \A k \in 0..(met - 1) : ~Ends(up, k)
  BY WalkEnds
<1>2. /\ Len(file.types) \in Nat /\ types = 1..Len(file.types) /\ up[0] = i
      /\ \A n \in 1..Len(file.types) : up[n] = OuterOf(up[n - 1])
  BY AroundWalks
<1> HIDE DEF up, types
<1>3. \A k \in 0..(met - 1) : up[k] \in types
  BY <1>1 DEF Ends, types
<1>4. i \in types /\ \A j \in types : file.types[j].readable
  BY DEF types
<1>5. met # 0
  BY <1>1, <1>2, <1>4 DEF Ends, types
<1>6. met \in Nat /\ met >= 1 /\ \A n \in 1..met : up[n] = OuterOf(up[n - 1])
  BY <1>1, <1>2, <1>5
<1> DEFINE P == {up[n] : n \in 0..(met - 1)}
<1>7. P \in SUBSET types /\ i \in P
  BY <1>2, <1>3, <1>6
<1>8. Closed(P)
  <2> SUFFICES ASSUME NEW j \in P, j \in DOMAIN file.enclosing, file.enclosing[j] \in types PROVE file.enclosing[j] \in P
    BY DEF Closed, types
  <2>1. PICK n \in 0..(met - 1) : j = up[n]
    OBVIOUS
  <2>2. n + 1 \in 1..met /\ (n + 1) - 1 = n
    BY <1>6
  <2>3. file.enclosing[j] = up[n + 1]
    BY <1>6, <2>1, <2>2 DEF OuterOf
  <2>4. CASE n + 1 = met
    <3>1. \E k \in 0..(met - 1) : up[k] = up[met]
      BY <1>1, <1>4, <2>3, <2>4 DEF Ends, types
    <3> QED
      BY <2>3, <2>4, <3>1
  <2>5. CASE n + 1 # met
    <3>1. n + 1 \in 0..(met - 1)
      BY <1>6, <2>2, <2>5
    <3> QED
      BY <2>3, <3>1
  <2> QED
    BY <2>4, <2>5
<1>9. ASSUME NEW S, Closed(S), NEW n \in 0..(met - 1), up[n] \in S, NEW l \in 0..(met - 1), n <= l PROVE up[l] \in S
  <2> DEFINE W == {k \in 0..(met - 1) : n <= k /\ up[k] \notin S}
  <2>1. W \in SUBSET Nat
    BY <1>6
  <2>2. ASSUME NEW k \in W, \A x \in W : k <= x PROVE FALSE
    <3>1. k \in 0..(met - 1) /\ n <= k /\ up[k] \notin S /\ k # n
      BY <1>9
    <3>2. k - 1 \in 0..(met - 1) /\ n <= k - 1 /\ ~(k <= k - 1) /\ k \in 1..met
      BY <1>6, <3>1
    <3>3. up[k - 1] \in S
      BY <2>2, <3>2
    <3>4. up[k] = OuterOf(up[k - 1]) /\ up[k] \in types /\ 0 \notin types
      BY <1>2, <1>3, <1>6, <3>1, <3>2
    <3>5. up[k - 1] \in DOMAIN file.enclosing /\ up[k] = file.enclosing[up[k - 1]]
      BY <3>4 DEF OuterOf
    <3>6. up[k] \in S
      BY <1>9, <3>3, <3>4, <3>5 DEF Closed, types
    <3> QED
      BY <3>1, <3>6
  <2> HIDE DEF W
  <2>3. W = {}
    BY <2>1, <2>2, MinIn
  <2> QED
    BY <1>9, <2>3 DEF W
<1>10. Enclosing(i) = P
  <2>1. ASSUME NEW j \in Enclosing(i) PROVE j \in P
    BY <1>7, <1>8 DEF Enclosing, types
  <2>2. ASSUME NEW n \in 0..(met - 1), NEW S \in SUBSET types, i \in S, Closed(S) PROVE up[n] \in S
    <3>1. 0 \in 0..(met - 1) /\ 0 <= n
      BY <1>6
    <3> QED
      BY <1>2, <1>9, <2>2, <3>1
  <2>3. ASSUME NEW n \in 0..(met - 1) PROVE up[n] \in Enclosing(i)
    BY <1>3, <2>2 DEF Enclosing, types
  <2> QED
    BY <2>1, <2>3
<1>11. ASSUME NEW n \in 0..(met - 1), NEW l \in 0..(met - 1), n <= l PROVE up[l] \in Enclosing(up[n])
  BY <1>3, <1>9, <1>11 DEF Enclosing, types
<1> HIDE DEF P
<1> DEFINE Has(j) == file.types[j].ns # ""
           ks == {k \in 1..met : Has(up[met - k])}
<1>12. /\ ks = {} => Namespace(i) = ""
       /\ ks # {} => \E k \in ks : (\A l \in ks : k <= l) /\ Namespace(i) = file.types[up[met - k]].ns
       /\ \A k \in 1..met : met - k \in 0..(met - 1) /\ met - (met - k) = k
       /\ \A n \in 0..(met - 1) : met - n \in 1..met /\ met - (met - n) = n
  <2>1. \A k \in 1..met : met - k \in 0..(met - 1) /\ met - (met - k) = k
    BY <1>6
  <2>2. \A n \in 0..(met - 1) : met - n \in 1..met /\ met - (met - n) = n
    BY <1>6
  <2> DEFINE named == {k \in DOMAIN Owners(i) : file.types[Owners(i)[k]].ns # ""}
             first == CHOOSE k \in named : \A l \in named : k <= l
  <2>3. Namespace(i) = IF named = {} THEN "" ELSE file.types[Owners(i)[first]].ns
    BY DEF Namespace
  <2>4. named = ks
    BY <1>1
  <2>5. ks # {} => first \in ks /\ \A l \in ks : first <= l
    <3>1. ks \in SUBSET Nat
      <4>1. \A k \in 1..met : k \in Nat
        BY <1>6
      <4> QED
        BY <4>1
    <3>2. ks # {} => \E k \in ks : \A l \in ks : k <= l
      <4> HIDE DEF ks
      <4> QED
        BY <3>1, MinIn
    <3> HIDE DEF named
    <3> QED
      BY <2>4, <3>2
  <2>6. ks # {} => Owners(i)[first] = up[met - first]
    <3>1. \A k \in ks : k \in 1..met
      OBVIOUS
    <3> HIDE DEF first, ks
    <3> QED
      BY <1>1, <2>5, <3>1
  <2> HIDE DEF named, first, ks
  <2> QED
    BY <2>1, <2>2, <2>3, <2>4, <2>5, <2>6
<1> DEFINE named == {j \in Enclosing(i) : file.types[j].ns # ""}
<1>13. CASE ks = {}
  <2>1. named = {}
    <3> SUFFICES ASSUME NEW j \in named PROVE FALSE
      OBVIOUS
    <3>1. PICK n \in 0..(met - 1) : j = up[n] /\ Has(j)
      BY <1>10 DEF P
    <3>2. met - n \in ks
      BY <1>12, <3>1
    <3> HIDE DEF ks
    <3> QED
      BY <1>13, <3>2
  <2>2. Namespace(i) = ""
    <3> HIDE DEF ks
    <3> QED
      BY <1>12, <1>13
  <2> QED
    BY <2>1, <2>2 DEF OutermostHas
<1>14. CASE ks # {}
  <2>4. PICK k \in ks : (\A l \in ks : k <= l) /\ Namespace(i) = file.types[up[met - k]].ns
    <3> HIDE DEF ks
    <3> QED
      BY <1>12, <1>14
  <2>5. k \in 1..met /\ Has(up[met - k]) /\ met - k \in 0..(met - 1)
    BY <1>12, <2>4
  <2>6. up[met - k] \in named
    BY <1>10, <2>5 DEF P
  <2>7. ASSUME NEW j \in named, Enclosing(j) \cap named = {j} PROVE Namespace(i) = file.types[j].ns
    <3>1. PICK n \in 0..(met - 1) : j = up[n] /\ Has(j)
      BY <1>10, <2>7 DEF P
    <3>2. met - n \in ks
      BY <1>12, <3>1
    <3>3. k <= met - n
      <4> HIDE DEF ks
      <4> QED
        BY <2>4, <3>2
    <3>6. n <= met - k
      <4> HIDE DEF ks, named, Has
      <4>1. met \in Nat /\ k \in Nat /\ n \in Nat
        BY <1>6, <2>5
      <4> QED
        BY <3>3, <4>1
    <3>4. up[met - k] \in Enclosing(j)
      BY <1>11, <2>5, <3>1, <3>6
    <3>5. up[met - k] = j
      BY <2>6, <2>7, <3>4
    <3> QED
      BY <2>4, <3>5
  <2> HIDE DEF named
  <2>8. named # {}
    BY <2>6
  <2> QED
    BY <2>7, <2>8 DEF OutermostHas, named
<1> QED
  BY <1>13, <1>14

-----------------------------------------------------------------------------
(* When the queue is empty, what was found is what is reached.             *)
LEMMA ReachedIsFound ==
  ASSUME queue = <<>>
  PROVE  Found = Reached
<1> DEFINE types == {i \in DOMAIN file.types : file.types[i].readable /\ file.types[i].name # "<Module>"}
           fields(i) == {<<"Field", i, j>> : j \in DOMAIN file.types[i].fields}
           methods(i) == {<<"MethodDef", i, j>> : j \in DOMAIN file.types[i].methods}
           told == {k \in DOMAIN file.types : ~file.types[k].readable \/ file.types[k].name # "<Module>"}
<1>1. ASSUME NEW row
      PROVE  row \in Found <=> \E h \in Heads : row \in RowsOf(h)
  <2> DEFINE U == {RowsOf(h) : h \in Heads \ ToSet(queue)}
  <2>1. ToSet(queue) = {}
    BY DEF ToSet
  <2>2. /\ \A u \in U : \E h \in Heads : u = RowsOf(h)
        /\ \A h \in Heads : RowsOf(h) \in U
    BY <2>1
  <2>3. Found = UNION U
    BY DEF Found
  <2> HIDE DEF U
  <2> QED
    BY <2>2, <2>3
<1>2. ASSUME NEW row
      PROVE  row \in Reached <=>
               \/ \E i \in told : row = <<"TypeDef", i>>
               \/ \E i \in types : row \in fields(i)
               \/ \E i \in types : row \in methods(i)
               \/ \E i \in DOMAIN file.members : row = <<"Member", i>>
               \/ \E i \in DOMAIN file.generics : row = <<"GenericParam", i>>
  <2> DEFINE F == {fields(i) : i \in types}
             M == {methods(i) : i \in types}
             A == {<<"TypeDef", i>> : i \in told}
             B == {<<"Member", i>> : i \in DOMAIN file.members}
             C == {<<"GenericParam", i>> : i \in DOMAIN file.generics}
  <2>1. Reached = A \cup (UNION F) \cup (UNION M) \cup B \cup C
    BY DEF Reached
  <2>2. row \in UNION F <=> \E i \in types : row \in fields(i)
    <3> HIDE DEF types, fields
    <3> QED
      OBVIOUS
  <2>3. row \in UNION M <=> \E i \in types : row \in methods(i)
    <3> HIDE DEF types, methods
    <3> QED
      OBVIOUS
  <2> HIDE DEF F, M, types, fields, methods, told
  <2> QED
    BY <2>1, <2>2, <2>3
<1> DEFINE Told(row) ==
               \/ \E i \in told : row = <<"TypeDef", i>>
               \/ \E i \in types : row \in fields(i)
               \/ \E i \in types : row \in methods(i)
               \/ \E i \in DOMAIN file.members : row = <<"Member", i>>
               \/ \E i \in DOMAIN file.generics : row = <<"GenericParam", i>>
<1>3. ASSUME NEW i \in DOMAIN file.types, NEW row
      PROVE  row \in RowsOf(<<"TypeDef", i>>) <=>
               \/ i \in told /\ row = <<"TypeDef", i>>
               \/ i \in types /\ row \in fields(i)
               \/ i \in types /\ row \in methods(i)
  BY DEF RowsOf, PartsOf
<1>4. ASSUME NEW i, NEW table \in {"Member", "GenericParam"}
      PROVE  RowsOf(<<table, i>>) = {<<table, i>>}
  BY DEF RowsOf
<1>5. types \subseteq DOMAIN file.types /\ told \subseteq DOMAIN file.types
  OBVIOUS
<1> HIDE DEF types, told, fields, methods
<1>6. ASSUME NEW row, \E h \in Heads : row \in RowsOf(h) PROVE Told(row)
  <2>1. PICK h \in Heads : row \in RowsOf(h)
    BY <1>6
  <2>2. CASE \E i \in DOMAIN file.types : h = <<"TypeDef", i>>
    BY <1>3, <2>1, <2>2
  <2>3. CASE \E i \in DOMAIN file.members : h = <<"Member", i>>
    BY <1>4, <2>1, <2>3
  <2>4. CASE \E i \in DOMAIN file.generics : h = <<"GenericParam", i>>
    BY <1>4, <2>1, <2>4
  <2> QED
    BY <2>2, <2>3, <2>4 DEF Heads
<1>7. ASSUME NEW row, Told(row) PROVE \E h \in Heads : row \in RowsOf(h)
  <2>1. ASSUME NEW i \in DOMAIN file.types PROVE <<"TypeDef", i>> \in Heads
    BY DEF Heads
  <2>2. ASSUME NEW i \in DOMAIN file.members PROVE <<"Member", i>> \in Heads
    BY DEF Heads
  <2>3. ASSUME NEW i \in DOMAIN file.generics PROVE <<"GenericParam", i>> \in Heads
    BY DEF Heads
  <2>4. CASE \E i \in told : row = <<"TypeDef", i>>
    BY <1>3, <1>5, <2>1, <2>4
  <2>5. CASE \E i \in types : row \in fields(i) \/ row \in methods(i)
    BY <1>3, <1>5, <2>1, <2>5
  <2>6. CASE \E i \in DOMAIN file.members : row = <<"Member", i>>
    BY <1>4, <2>2, <2>6
  <2>7. CASE \E i \in DOMAIN file.generics : row = <<"GenericParam", i>>
    BY <1>4, <2>3, <2>7
  <2> QED
    BY <1>7, <2>4, <2>5, <2>6, <2>7
<1> HIDE DEF Told
<1>8. \A row : row \in Reached <=> Told(row)
  BY <1>2 DEF Told
<1>9. \A row : row \in Found <=> row \in Reached
  BY <1>1, <1>6, <1>7, <1>8
<1> QED
  BY <1>9

(* The namespace that a row of a type is told under.                       *)
LEMMA NamespaceOfSymbol ==
  ASSUME NEW row, row[1] \in {"TypeDef", "Field", "MethodDef"}, row[1] = "TypeDef" => Readable(row),
         row \in Heads \/ \E i, j : row \in {<<"Field", i, j>>, <<"MethodDef", i, j>>}
  PROVE  SymbolOf(row).ns = Namespace(row[2])
<1>1. \A r, ns, kind, name, status : Symbol(r, ns, kind, name, status).ns = ns
  BY DEF Symbol
<1>2. \A r, ns : RowError(r, ns).ns = ns
  BY DEF RowError, Symbol
<1>3. \A i, j : TypeSymbol(i).ns = Namespace(i) /\ FieldSymbol(i, j).ns = Namespace(i) /\ MethodSymbol(i, j).ns = Namespace(i)
  <2>1. \A i : TypeSymbol(i).ns = Namespace(i)
    BY DEF TypeSymbol, Symbol
  <2>2. \A i, j : FieldSymbol(i, j).ns = Namespace(i)
    BY DEF FieldSymbol, Symbol
  <2>3. \A i, j : MethodSymbol(i, j).ns = Namespace(i)
    BY DEF MethodSymbol, Symbol
  <2> QED
    BY <2>1, <2>2, <2>3
<1>4. CASE ~Readable(row)
  <2>1. row[1] \in {"Field", "MethodDef"}
    BY <1>4
  <2>2. SymbolOf(row) = RowError(row, Namespace(row[2]))
    BY <1>4, <2>1 DEF SymbolOf
  <2> QED
    BY <1>2, <2>2
<1>5. CASE Readable(row) /\ row[1] = "TypeDef"
  <2>1. SymbolOf(row) = TypeSymbol(row[2])
    BY <1>5 DEF SymbolOf
  <2> QED
    BY <1>3, <2>1
<1>6. CASE Readable(row) /\ row[1] = "Field"
  <2>1. SymbolOf(row) = FieldSymbol(row[2], row[3])
    BY <1>6 DEF SymbolOf
  <2> QED
    BY <1>3, <2>1
<1>7. CASE Readable(row) /\ row[1] = "MethodDef"
  <2>1. SymbolOf(row) = MethodSymbol(row[2], row[3])
    BY <1>7 DEF SymbolOf
  <2> QED
    BY <1>3, <2>1
<1> QED
  BY <1>4, <1>5, <1>6, <1>7

(* Every row that is reached has its one symbol, under the namespace of    *)
(* the outermost type around it, and an error if it is not readable.       *)
LEMMA RowsAreTold ==
  ASSUME ImportInv, queue = <<>>
  PROVE  /\ {s.row : s \in ToSet(symbols)} = Reached /\ Len(symbols) = Cardinality(Reached)
         /\ \A s \in ToSet(symbols) :
              /\ ~Readable(s.row) <=> s.row \in diagnostics
              /\ ~Readable(s.row) => s.status = "source-parse-error"
              /\ s.row[1] \in {"TypeDef", "Field", "MethodDef"} /\ (\A i \in DOMAIN file.types : file.types[i].readable)
                   => OutermostHas(s.ns, s.row[2])
<1>1. Found = Reached
  BY ReachedIsFound
<1>2. \A s \in ToSet(symbols) : s.row \in Found
  BY SymbolsAreOfRows
<1>3. /\ Once(symbols) /\ \A row \in Found : \E a \in DOMAIN symbols : symbols[a] = SymbolOf(row)
      /\ Len(symbols) \in Nat /\ DOMAIN symbols = 1..Len(symbols)
      /\ symbols \in Seq({SymbolOf(row) : row \in Found})
  <2>1. /\ symbols \in Seq({SymbolOf(row) : row \in Found}) /\ Once(symbols)
        /\ \A row \in Found : \E a \in DOMAIN symbols : symbols[a] = SymbolOf(row)
    BY DEF ImportInv, Holds
  <2> HIDE DEF Found
  <2> QED
    BY <2>1, LenProperties
<1>4. \A row \in Found : \E a \in DOMAIN symbols : symbols[a].row = row
  <2> SUFFICES ASSUME NEW row \in Found PROVE \E a \in DOMAIN symbols : symbols[a].row = row
    OBVIOUS
  <2>1. PICK h \in Heads \ ToSet(queue) : row \in RowsOf(h)
    BY DEF Found
  <2>2. SymbolOf(row).row = row
    BY <2>1, RowsHaveOneHead, RowOfSymbol
  <2> QED
    BY <1>3, <2>2
<1>5. \A a \in DOMAIN symbols : symbols[a].row \in Found
  BY <1>2 DEF ToSet
<1>6. {s.row : s \in ToSet(symbols)} = Reached
  BY <1>1, <1>2, <1>4 DEF ToSet
<1>7. Len(symbols) = Cardinality(Reached)
  <2> DEFINE n == Len(symbols)
             f == [a \in 1..n |-> symbols[a].row]
  <2>1. n \in Nat /\ DOMAIN symbols = 1..n
    BY <1>3
  <2> HIDE DEF n
  <2>2. f \in [1..n -> Found]
    BY <1>5, <2>1
  <2>3. \A a, b \in 1..n : f[a] = f[b] => a = b
    BY <1>3, <2>1 DEF Once
  <2>4. \A row \in Found : \E a \in 1..n : f[a] = row
    BY <1>4, <2>1
  <2> HIDE DEF f
  <2>5. f \in Bijection(1..n, Found)
    BY <2>2, <2>3, <2>4 DEF Bijection, Injection, Surjection, IsInjective
  <2>6. ExistsBijection(1..n, Found)
    BY <2>5 DEF ExistsBijection
  <2> QED
    BY <1>1, <2>1, <2>6, FS_CountingElements DEF n
<1>8. ASSUME NEW s \in ToSet(symbols)
      PROVE  /\ ~Readable(s.row) <=> s.row \in diagnostics
             /\ ~Readable(s.row) => s.status = "source-parse-error"
             /\ s.row[1] \in {"TypeDef", "Field", "MethodDef"} /\ (\A i \in DOMAIN file.types : file.types[i].readable)
                   => OutermostHas(s.ns, s.row[2])
  <2> DEFINE row == s.row
  <2>1. /\ s = SymbolOf(row) /\ row \in Found
        /\ row[1] \in {"TypeDef", "Field", "MethodDef", "Member", "GenericParam"}
        /\ row \in Heads \/ \E i, j : row \in {<<"Field", i, j>>, <<"MethodDef", i, j>>}
    BY SymbolsAreOfRows
  <2>2. ~Readable(row) <=> row \in diagnostics
    <3>1. \A m \in {<<"Map", i>> : i \in {k \in DOMAIN file.maps : ~file.maps[k].readable}} : m[1] = "Map"
      OBVIOUS
    <3> HIDE DEF row
    <3> QED
      BY <2>1, <3>1 DEF ImportInv
  <2>3. ~Readable(row) => s.status = "source-parse-error"
    <3>1. \A ns : RowError(row, ns).status = "source-parse-error"
      BY DEF RowError, Symbol
    <3>2. ~Readable(row) => \E ns : SymbolOf(row) = RowError(row, ns)
      BY DEF SymbolOf
    <3> QED
      BY <2>1, <3>1, <3>2
  <2>4. ASSUME row[1] \in {"TypeDef", "Field", "MethodDef"}, \A i \in DOMAIN file.types : file.types[i].readable
        PROVE  OutermostHas(s.ns, row[2])
    <3>1. row[2] \in DOMAIN file.types
      <4>1. PICK h \in Heads \ ToSet(queue) : row \in RowsOf(h)
        BY <2>1 DEF Found
      <4>2. HeadOf(row) = h
        BY <4>1, RowsHaveOneHead
      <4>3. h = <<"TypeDef", row[2]>>
        BY <2>4, <4>2 DEF HeadOf
      <4> QED
        BY <4>1, <4>3 DEF Heads
    <3>2. row[1] = "TypeDef" => Readable(row)
      BY <2>4, <3>1 DEF Readable
    <3>3. s.ns = Namespace(row[2])
      BY <2>1, <2>4, <3>2, NamespaceOfSymbol
    <3>4. file \in Files
      BY DEF ImportInv
    <3> QED
      BY <2>4, <3>1, <3>3, <3>4, NamespaceIsOutermost
  <2> QED
    BY <2>2, <2>3, <2>4
<1> QED
  BY <1>6, <1>7, <1>8

-----------------------------------------------------------------------------
(* Canonical signatures are read from their first word to the last: what   *)
(* precedes a word that does not occur in it is told by where that is.     *)
Tokens == STRING \cup Marks

Spellings == Seq(Tokens)

Comma == ","
Open == "<"
Close == ">"
Closes == ">>"
Arrow == ")->"
Closers == {Close, Closes, Arrow}
Paren == "("
Colons == "::"
Array == "array["
Sized == "]<"
Void == "void"

LEMMA MarksDiffer ==
  /\ {Comma, Open, Close, Closes, Arrow, Paren, Colons, Array, Sized, Void} \subseteq Marks /\ Marks \subseteq Tokens
  /\ {Comma, Close, Closes, Arrow} \cap {Open, Array} = {} /\ Comma \notin Closers /\ Void # Array
BY DEF Marks, Tokens, Comma, Open, Close, Closes, Arrow, Closers, Paren, Colons, Array, Sized, Void

Before(a, b) == a \o b

Then(x, a) == <<x>> \o a

LEMMA WordThen ==
  ASSUME NEW x \in Tokens, NEW a \in Spellings
  PROVE  Then(x, a) \in Spellings /\ Then(x, a) # <<>> /\ Then(x, a)[1] = x /\ Len(Then(x, a)) = 1 + Len(a)
BY DEF Spellings, Then

LEMMA HeadsCancel ==
  ASSUME NEW x \in Tokens, NEW y \in Tokens, NEW a \in Spellings, NEW b \in Spellings, Then(x, a) = Then(y, b)
  PROVE  x = y /\ a = b
<1>1. x = y
  BY WordThen
<1>2. <<x>> \in Seq(Tokens) /\ <<x>> \o a = <<x>> \o b
  BY <1>1 DEF Then
<1> QED
  BY <1>1, <1>2, ConcatSimplifications DEF Spellings

(* What precedes a word that does not occur in it is told by where that    *)
(* word stands.                                                            *)
LEMMA PrefixesCancel ==
  ASSUME NEW m \in Spellings, NEW n \in Spellings, NEW x \in Tokens, NEW y \in Tokens, NEW a \in Spellings, NEW b \in Spellings,
         x \notin ToSet(n), y \notin ToSet(m), Before(m, Then(x, a)) = Before(n, Then(y, b))
  PROVE  m = n /\ x = y /\ a = b
<1> DEFINE s == Then(x, a)
           t == Then(y, b)
<1>1. /\ s \in Spellings /\ t \in Spellings /\ s[1] = x /\ t[1] = y
      /\ Len(s) \in Nat /\ Len(t) \in Nat /\ Len(s) >= 1 /\ Len(t) >= 1
  <2>1. \A c \in Spellings : Len(c) \in Nat /\ Len(c) >= 0
    BY DEF Spellings
  <2>2. s \in Spellings /\ t \in Spellings /\ s[1] = x /\ t[1] = y /\ Len(s) = 1 + Len(a) /\ Len(t) = 1 + Len(b)
    BY WordThen
  <2> HIDE DEF s, t
  <2> QED
    BY <2>1, <2>2
<1> HIDE DEF s, t
<1>2. /\ Len(m) \in Nat /\ Len(n) \in Nat
      /\ \A i \in 1..(Len(m) + Len(s)) : (m \o s)[i] = IF i <= Len(m) THEN m[i] ELSE s[i - Len(m)]
      /\ \A i \in 1..(Len(n) + Len(t)) : (n \o t)[i] = IF i <= Len(n) THEN n[i] ELSE t[i - Len(n)]
      /\ Len(m \o s) = Len(m) + Len(s) /\ Len(n \o t) = Len(n) + Len(t)
  BY <1>1, ConcatProperties DEF Spellings
<1>3. m \o s = n \o t
  BY DEF s, t, Before
<1> DEFINE r == m \o s
<1>4. /\ \A i \in 1..(Len(m) + Len(s)) : r[i] = IF i <= Len(m) THEN m[i] ELSE s[i - Len(m)]
      /\ \A i \in 1..(Len(n) + Len(t)) : r[i] = IF i <= Len(n) THEN n[i] ELSE t[i - Len(n)]
      /\ Len(m) + Len(s) = Len(n) + Len(t)
  BY <1>2, <1>3
<1> HIDE DEF r
<1>5. r[Len(m) + 1] = x /\ r[Len(n) + 1] = y
  <2>1. Len(m) + 1 \in 1..(Len(m) + Len(s)) /\ ~(Len(m) + 1 <= Len(m)) /\ (Len(m) + 1) - Len(m) = 1
    BY <1>1, <1>2
  <2>2. Len(n) + 1 \in 1..(Len(n) + Len(t)) /\ ~(Len(n) + 1 <= Len(n)) /\ (Len(n) + 1) - Len(n) = 1
    BY <1>1, <1>2
  <2> QED
    BY <1>1, <1>4, <2>1, <2>2
<1>6. ~(Len(m) < Len(n))
  <2> SUFFICES ASSUME Len(m) < Len(n) PROVE FALSE
    OBVIOUS
  <2>1. Len(m) + 1 \in 1..Len(n) /\ Len(m) + 1 \in 1..(Len(n) + Len(t)) /\ Len(m) + 1 <= Len(n)
    BY <1>1, <1>2
  <2>2. r[Len(m) + 1] = n[Len(m) + 1] /\ Len(m) + 1 \in DOMAIN n
    BY <1>4, <2>1 DEF Spellings
  <2> QED
    BY <1>5, <2>2 DEF ToSet
<1>7. ~(Len(n) < Len(m))
  <2> SUFFICES ASSUME Len(n) < Len(m) PROVE FALSE
    OBVIOUS
  <2>1. Len(n) + 1 \in 1..Len(m) /\ Len(n) + 1 \in 1..(Len(m) + Len(s)) /\ Len(n) + 1 <= Len(m)
    BY <1>1, <1>2
  <2>2. r[Len(n) + 1] = m[Len(n) + 1] /\ Len(n) + 1 \in DOMAIN m
    BY <1>4, <2>1 DEF Spellings
  <2> QED
    BY <1>5, <2>2 DEF ToSet
<1>8. Len(m) = Len(n)
  BY <1>2, <1>6, <1>7
<1>9. m = n
  <2>1. \A i \in 1..Len(m) : i \in 1..(Len(m) + Len(s)) /\ i \in 1..(Len(n) + Len(t)) /\ i <= Len(m) /\ i <= Len(n)
    BY <1>1, <1>2, <1>8
  <2>2. \A i \in 1..Len(m) : m[i] = n[i]
    BY <1>4, <2>1
  <2> QED
    BY <1>8, <2>2, SeqEqual DEF Spellings
<1>10. s = t
  BY <1>1, <1>3, <1>9, ConcatSimplifications DEF Spellings
<1> QED
  BY <1>9, <1>10, HeadsCancel DEF s, t

LEMMA Associates ==
  ASSUME NEW a \in Spellings, NEW b \in Spellings, NEW c \in Spellings
  PROVE  Before(Before(a, b), c) = Before(a, Before(b, c)) /\ Before(a, b) \in Spellings
BY ConcatAssociative, ConcatProperties DEF Spellings, Before

(* Lists are joined from their last part on.                               *)
JoinStep(parts, f, i) == Before(Before(IF i = 1 THEN <<>> ELSE <<Comma>>, parts[i]), f[i + 1])

(* A list is joined from functions on its places, of which there is one.   *)
LEMMA JoinedFrom ==
  ASSUME NEW parts \in Seq(Spellings)
  PROVE  /\ Len(parts) \in Nat
         /\ \E f \in [1..(Len(parts) + 1) -> Spellings] :
              /\ Joined(parts) = f[1] /\ f[Len(parts) + 1] = <<>>
              /\ \A i \in 1..Len(parts) : f[i] = JoinStep(parts, f, i)
<1> DEFINE n == Len(parts)
           D == 1..(n + 1)
           Is(f) == f = [i \in D |-> IF i > n THEN <<>> ELSE JoinStep(parts, f, i)]
           from == CHOOSE f : Is(f)
<1>1. Joined(parts) = from[1]
  BY DEF Joined, JoinStep, Comma, Before
<1>2. n \in Nat /\ \A i \in 1..n : parts[i] \in Spellings
  BY ElementOfSeq
<1> HIDE DEF n, from
<1>3. <<>> \in Spellings /\ <<Comma>> \in Spellings
  <2>1. Comma \in Tokens
    BY MarksDiffer
  <2> QED
    BY <2>1 DEF Spellings
<1>4. \A i \in 1..n : \A f : f[i + 1] \in Spellings => JoinStep(parts, f, i) \in Spellings
  BY <1>2, <1>3, Associates DEF JoinStep
<1> DEFINE Until(f, k) == f \in [D -> Spellings] /\ f[n + 1] = <<>> /\ \A i \in k..n : f[i] = JoinStep(parts, f, i)
           W == {m \in 0..n : ~\E f : Until(f, n + 1 - m)}
<1>5. W \in SUBSET Nat
  BY <1>2
<1>6. ASSUME NEW m \in W, \A l \in W : m <= l PROVE FALSE
  <2>1. m \in 0..n /\ ~\E f : Until(f, n + 1 - m)
    OBVIOUS
  <2>2. CASE m = 0
    <3> DEFINE g == [i \in D |-> <<>>]
    <3>1. g \in [D -> Spellings] /\ g[n + 1] = <<>> /\ (n + 1 - m)..n = {}
      BY <1>2, <1>3, <2>2
    <3>2. Until(g, n + 1 - m)
      BY <3>1
    <3> HIDE DEF Until
    <3> QED
      BY <2>1, <3>2
  <2>3. CASE m # 0
    <3> DEFINE k == n + 1 - m
    <3>1. m - 1 \in 0..n /\ ~(m <= m - 1) /\ n + 1 - (m - 1) = k + 1 /\ k \in 1..n /\ k \in D /\ k + 1 \in D /\ n + 1 \in D /\ k # n + 1
      BY <1>2, <2>1, <2>3
    <3>2. PICK f : Until(f, k + 1)
      <4>1. m - 1 \notin W
        BY <1>6, <3>1
      <4>2. \E f : Until(f, n + 1 - (m - 1))
        BY <3>1, <4>1
      <4> HIDE DEF Until, k
      <4> QED
        BY <3>1, <4>2
    <3> HIDE DEF k
    <3> DEFINE g == [f EXCEPT ![k] = JoinStep(parts, f, k)]
    <3>3. f \in [D -> Spellings] /\ f[n + 1] = <<>> /\ \A i \in (k + 1)..n : f[i] = JoinStep(parts, f, i)
      BY <3>2
    <3>4. g \in [D -> Spellings] /\ g[k] = JoinStep(parts, f, k) /\ \A i \in D : i # k => g[i] = f[i]
      <4>1. JoinStep(parts, f, k) \in Spellings
        BY <1>4, <3>1, <3>3
      <4> QED
        BY <3>1, <3>3, <4>1
    <3> HIDE DEF g
    <3>5. ASSUME NEW i \in k..n PROVE g[i] = JoinStep(parts, g, i)
      <4>1. i + 1 \in D /\ i + 1 # k /\ i \in D
        BY <1>2, <3>1
      <4>2. JoinStep(parts, g, i) = JoinStep(parts, f, i)
        BY <3>4, <4>1 DEF JoinStep
      <4>3. CASE i = k
        BY <3>4, <4>2, <4>3
      <4>4. CASE i # k
        <5>1. i \in (k + 1)..n
          BY <1>2, <3>1, <4>4
        <5> QED
          BY <3>3, <3>4, <4>1, <4>2, <4>4, <5>1
      <4> QED
        BY <4>3, <4>4
    <3>6. Until(g, k)
      BY <3>1, <3>3, <3>4, <3>5
    <3> HIDE DEF Until
    <3> QED
      BY <2>1, <3>6 DEF k
  <2> QED
    BY <2>2, <2>3
<1> HIDE DEF W
<1>7. W = {}
  BY <1>5, <1>6, MinIn
<1>8. PICK g : Until(g, 1)
  <2>1. n \in 0..n /\ n + 1 - n = 1
    BY <1>2
  <2>2. \E f : Until(f, n + 1 - n)
    BY <1>7, <2>1 DEF W
  <2> HIDE DEF Until
  <2> QED
    BY <2>1, <2>2
<1>9. Is(g)
  <2> DEFINE h == [i \in D |-> IF i > n THEN <<>> ELSE JoinStep(parts, g, i)]
  <2>1. ASSUME NEW i \in D PROVE g[i] = h[i]
    <3>1. (i \in 1..n /\ ~(i > n)) \/ (i = n + 1 /\ i > n)
      BY <1>2
    <3> QED
      BY <1>8, <3>1
  <2>2. DOMAIN g = D /\ DOMAIN h = D /\ g = [i \in DOMAIN g |-> g[i]] /\ h = [i \in DOMAIN h |-> h[i]]
    BY <1>8
  <2>3. g = h
    <3> HIDE DEF h
    <3> QED
      BY <2>1, <2>2
  <2> QED
    BY <2>3
<1>10. Is(from)
  <2> HIDE DEF Is
  <2> QED
    BY <1>9 DEF from
<1>11. \A i \in D : from[i] = IF i > n THEN <<>> ELSE JoinStep(parts, from, i)
  BY <1>10
<1>12. DOMAIN from = D /\ from = [i \in DOMAIN from |-> from[i]]
  BY <1>10
<1> HIDE DEF Is, Until
<1>13. from[n + 1] = <<>> /\ \A i \in 1..n : from[i] = JoinStep(parts, from, i)
  <2>1. n + 1 \in D /\ n + 1 > n /\ \A i \in 1..n : i \in D /\ ~(i > n)
    BY <1>2
  <2> HIDE DEF D
  <2> QED
    BY <1>11, <2>1
<1>14. \A i \in D : from[i] \in Spellings
  <2> DEFINE V == {m \in 0..n : from[n + 1 - m] \notin Spellings}
  <2>1. V \in SUBSET Nat
    BY <1>2
  <2>2. ASSUME NEW m \in V, \A l \in V : m <= l PROVE FALSE
    <3> DEFINE k == n + 1 - m
    <3>1. m \in 0..n /\ from[k] \notin Spellings
      OBVIOUS
    <3>2. m # 0
      BY <1>2, <1>3, <1>13, <3>1
    <3>3. m - 1 \in 0..n /\ ~(m <= m - 1) /\ n + 1 - (m - 1) = k + 1 /\ k \in 1..n
      BY <1>2, <3>1, <3>2
    <3>4. from[n + 1 - (m - 1)] \in Spellings
      BY <2>2, <3>3
    <3> HIDE DEF k
    <3> QED
      BY <1>4, <1>13, <3>1, <3>3, <3>4
  <2> HIDE DEF V
  <2>3. V = {}
    BY <2>1, <2>2, MinIn
  <2>4. \A i \in D : n + 1 - i \in 0..n /\ n + 1 - (n + 1 - i) = i
    BY <1>2
  <2> QED
    BY <2>3, <2>4 DEF V
<1>15. from \in [D -> Spellings]
  BY <1>12, <1>14
<1> QED
  BY <1>1, <1>2, <1>13, <1>15 DEF n

-----------------------------------------------------------------------------
(* The canonical signature of a type, from those of the types within it.   *)
CanonicalOf(h, t) == t.modifiers \o CanonicalUnmodified(t, [i \in DOMAIN t.of |-> h[t.of[i]]])

CanonicallyTo(h, n) == h = [t \in Below(n) |-> CanonicalOf(h, t)]

LEMMA CanonicalAlike ==
  ASSUME NEW t \in SigTypes, NEW h, NEW k, \A i \in DOMAIN t.of : h[t.of[i]] = k[t.of[i]]
  PROVE  CanonicalOf(h, t) = CanonicalOf(k, t)
<1>1. [i \in DOMAIN t.of |-> h[t.of[i]]] = [i \in DOMAIN t.of |-> k[t.of[i]]]
  OBVIOUS
<1> QED
  BY <1>1 DEF CanonicalOf

LEMMA CanonicalOnce ==
  ASSUME NEW n \in Nat, NEW m \in Nat, n <= m, NEW h, NEW k, CanonicallyTo(h, n), CanonicallyTo(k, m)
  PROVE  \A t \in Below(n) : h[t] = k[t]
<1> DEFINE Odd(d) == \E t \in Below(n) : Depth[t] = d /\ h[t] # k[t]
           W == {d \in Nat : Odd(d)}
<1>1. W \in SUBSET Nat
  OBVIOUS
<1>2. ASSUME NEW d \in W, \A e \in W : d <= e PROVE FALSE
  <2>1. PICK t \in Below(n) : Depth[t] = d /\ h[t] # k[t]
    OBVIOUS
  <2>2. t \in SigTypes /\ d \in Nat /\ d < n /\ t \in Below(m)
    BY <2>1, TypesNest DEF Below
  <2>3. h[t] = CanonicalOf(h, t) /\ k[t] = CanonicalOf(k, t)
    BY <2>1, <2>2 DEF CanonicallyTo
  <2>4. ASSUME NEW i \in DOMAIN t.of PROVE h[t.of[i]] = k[t.of[i]]
    <3>1. t.of[i] \in SigTypes /\ Depth[t.of[i]] \in Nat /\ Depth[t.of[i]] < d
      BY <2>1, <2>2, TypesNest
    <3>2. t.of[i] \in Below(n) /\ ~(d <= Depth[t.of[i]])
      BY <2>2, <3>1 DEF Below
    <3>3. Depth[t.of[i]] \notin W
      BY <1>2, <3>2
    <3> QED
      BY <3>1, <3>2, <3>3
  <2> QED
    BY <2>1, <2>2, <2>3, <2>4, CanonicalAlike
<1> HIDE DEF W
<1>3. W = {}
  BY <1>1, <1>2, MinIn
<1>4. ASSUME NEW t \in Below(n), h[t] # k[t] PROVE FALSE
  <2>1. Depth[t] \in Nat
    BY TypesNest DEF Below
  <2>2. Depth[t] \in W
    BY <1>4, <2>1 DEF W
  <2> QED
    BY <1>3, <2>2
<1> QED
  BY <1>4

LEMMA CanonicalUpTo ==
  ASSUME NEW n \in Nat
  PROVE  \E h : CanonicallyTo(h, n)
<1> DEFINE W == {m \in Nat : ~\E h : CanonicallyTo(h, m)}
<1>1. W \in SUBSET Nat
  OBVIOUS
<1>2. ASSUME NEW m \in W, \A l \in W : m <= l PROVE FALSE
  <2>1. m \in Nat /\ ~\E h : CanonicallyTo(h, m)
    OBVIOUS
  <2>2. CASE m = 0
    <3> DEFINE g == [t \in Below(0) |-> 0]
    <3>1. Below(0) = {}
      BY TypesNest DEF Below
    <3>2. CanonicallyTo(g, 0)
      BY <3>1 DEF CanonicallyTo
    <3> QED
      BY <2>1, <2>2, <3>2
  <2>3. CASE m # 0
    <3>1. m - 1 \in Nat /\ m - 1 \notin W /\ m - 1 <= m
      BY <1>2, <2>1, <2>3
    <3>2. PICK h : CanonicallyTo(h, m - 1)
      BY <3>1
    <3> DEFINE g == [t \in Below(m) |-> CanonicalOf(h, t)]
               g2 == [t \in Below(m) |-> CanonicalOf(g, t)]
    <3>3. ASSUME NEW t \in Below(m) PROVE g[t] = CanonicalOf(g, t)
      <4>1. t \in SigTypes /\ Depth[t] \in Nat /\ Depth[t] < m
        BY TypesNest DEF Below
      <4>2. ASSUME NEW i \in DOMAIN t.of PROVE h[t.of[i]] = g[t.of[i]]
        <5>1. t.of[i] \in SigTypes /\ Depth[t.of[i]] \in Nat /\ Depth[t.of[i]] < Depth[t]
          BY <4>1, TypesNest
        <5>2. t.of[i] \in Below(m - 1) /\ t.of[i] \in Below(m)
          BY <2>1, <4>1, <5>1 DEF Below
        <5> QED
          BY <3>2, <5>2 DEF CanonicallyTo
      <4> HIDE DEF g
      <4>3. CanonicalOf(h, t) = CanonicalOf(g, t)
        BY <4>1, <4>2, CanonicalAlike
      <4> QED
        BY <4>3 DEF g
    <3>4. g = g2
      <4>1. DOMAIN g = Below(m) /\ DOMAIN g2 = Below(m) /\ g = [t \in DOMAIN g |-> g[t]] /\ g2 = [t \in DOMAIN g2 |-> g2[t]]
        OBVIOUS
      <4>2. \A t \in Below(m) : g[t] = g2[t]
        BY <3>3
      <4> HIDE DEF g, g2
      <4> QED
        BY <4>1, <4>2
    <3> HIDE DEF g
    <3>5. CanonicallyTo(g, m)
      BY <3>4 DEF CanonicallyTo
    <3> QED
      BY <2>1, <3>5
  <2> QED
    BY <2>2, <2>3
<1> HIDE DEF W
<1>3. W = {}
  BY <1>1, <1>2, MinIn
<1> QED
  BY <1>3 DEF W

(* The canonical signature is made of those of the parts, at any depth.    *)
LEMMA CanonicalUnfolds ==
  ASSUME NEW t \in SigTypes
  PROVE  CanonicalSigType[t] = CanonicalOf(CanonicalSigType, t)
<1> DEFINE Least(u) == CHOOSE h : CanonicallyTo(h, Depth[u] + 1)
           f == [u \in SigTypes |-> Least(u)[u]]
           f2 == [u \in SigTypes |-> CanonicalOf(f, u)]
<1>1. ASSUME NEW u \in SigTypes PROVE CanonicallyTo(Least(u), Depth[u] + 1) /\ Depth[u] + 1 \in Nat /\ u \in Below(Depth[u] + 1)
  <2>1. Depth[u] + 1 \in Nat /\ u \in Below(Depth[u] + 1)
    BY TypesNest DEF Below
  <2> QED
    BY <2>1, CanonicalUpTo
<1> HIDE DEF Least
<1>2. ASSUME NEW u \in SigTypes PROVE f[u] = CanonicalOf(f, u)
  <2>1. f[u] = CanonicalOf(Least(u), u)
    BY <1>1 DEF CanonicallyTo
  <2>2. ASSUME NEW i \in DOMAIN u.of PROVE Least(u)[u.of[i]] = f[u.of[i]]
    <3> DEFINE v == u.of[i]
    <3>1. v \in SigTypes /\ Depth[v] \in Nat /\ Depth[v] + 1 <= Depth[u] + 1 /\ Depth[u] \in Nat
      BY TypesNest
    <3>2. Least(v)[v] = Least(u)[v]
      <4> HIDE DEF v
      <4> QED
        BY <1>1, <3>1, CanonicalOnce
    <3> QED
      BY <3>1, <3>2
  <2> HIDE DEF f
  <2> QED
    BY <2>1, <2>2, CanonicalAlike
<1>3. f = f2
  <2>1. DOMAIN f = SigTypes /\ DOMAIN f2 = SigTypes /\ f = [u \in DOMAIN f |-> f[u]] /\ f2 = [u \in DOMAIN f2 |-> f2[u]]
    OBVIOUS
  <2>2. \A u \in SigTypes : f[u] = f2[u]
    BY <1>2
  <2> HIDE DEF f, f2
  <2> QED
    BY <2>1, <2>2
<1> DEFINE Is(g) == g = [u \in SigTypes |-> CanonicalOf(g, u)]
<1> HIDE DEF f
<1>4. Is(f)
  BY <1>3
<1>5. CanonicalSigType = CHOOSE g : Is(g)
  BY DEF CanonicalSigType, CanonicalOf
<1>6. Is(CanonicalSigType)
  BY <1>4, <1>5
<1> QED
  BY <1>6

-----------------------------------------------------------------------------
(* What types are known to be.                                             *)
LEMMA TypesAre ==
  ASSUME NEW t \in SigTypes
  PROVE  /\ t.element \in Tokens /\ t.name \in Tokens /\ t.sizes \in Spellings /\ t.modifiers \in Spellings
         /\ t.element \notin Marks /\ t.name \notin Marks
         /\ ToSet(t.modifiers) \cap Marks = {} /\ ToSet(t.sizes) \cap Marks = {}
         /\ \A u \in SigTypes : t.element \notin ToSet(u.modifiers)
         /\ t.sizes # <<>> => t.element = "ARRAY" /\ t.of # <<>>
         /\ t.of # <<>> => t.element \in Pointers \cup {"ARRAY", "SZARRAY", "FNPTR", "GENERICINST"}
         /\ t.element = "ARRAY" => Len(t.of) <= 1
<1>1. /\ t \in [element : STRING, of : Seq(SigTypes), modifiers : Seq(STRING), sizes : Seq(STRING), name : STRING]
      /\ ({t.element, t.name} \cup ToSet(t.modifiers) \cup ToSet(t.sizes)) \cap Marks = {}
      /\ \A u \in SigTypes : t.element \notin ToSet(u.modifiers)
      /\ t.sizes # <<>> => t.element = "ARRAY" /\ t.of # <<>>
      /\ t.of # <<>> => t.element \in Pointers \cup {"ARRAY", "SZARRAY", "FNPTR", "GENERICINST"}
      /\ t.element = "ARRAY" => Len(t.of) <= 1
  BY SigAssumption
<1>2. /\ t.element \in STRING /\ t.name \in STRING /\ t.sizes \in Seq(STRING) /\ t.modifiers \in Seq(STRING)
  BY <1>1
<1> DEFINE Text == STRING
<1>3. Text \subseteq Tokens
  BY DEF Tokens
<1>4. /\ t.element \in Text /\ t.name \in Text /\ t.sizes \in Seq(Text) /\ t.modifiers \in Seq(Text)
  BY <1>2
<1> HIDE DEF Text
<1>5. t.sizes \in Spellings /\ t.modifiers \in Spellings
  BY <1>3, <1>4, SeqMonotonic DEF Spellings
<1>6. t.element \in Tokens /\ t.name \in Tokens
  BY <1>3, <1>4
<1> QED
  BY <1>1, <1>5, <1>6

LEMMA Nameless ==
  ASSUME NEW t \in SigTypes, NEW u \in SigTypes, t.element \notin Named \cup {"GENERICINST"}, u.element \notin Named \cup {"GENERICINST"}
  PROVE  t.name = u.name
BY SigAssumption

LEMMA SameType ==
  ASSUME NEW t \in SigTypes, NEW u \in SigTypes,
         t.element = u.element, t.of = u.of, t.modifiers = u.modifiers, t.sizes = u.sizes, t.name = u.name
  PROVE  t = u
<1>1. /\ t \in [element : STRING, of : Seq(SigTypes), modifiers : Seq(STRING), sizes : Seq(STRING), name : STRING]
      /\ u \in [element : STRING, of : Seq(SigTypes), modifiers : Seq(STRING), sizes : Seq(STRING), name : STRING]
  BY SigAssumption
<1>2. /\ t = [element |-> t.element, of |-> t.of, modifiers |-> t.modifiers, sizes |-> t.sizes, name |-> t.name]
      /\ u = [element |-> u.element, of |-> u.of, modifiers |-> u.modifiers, sizes |-> u.sizes, name |-> u.name]
  BY <1>1
<1> QED
  BY <1>2

(* The canonical signature of a type, word by word, and what follows it.   *)
Shape(t) ==
  IF t.element \in Named THEN "named"
  ELSE IF t.element = "ARRAY" /\ t.of # <<>> THEN "array"
  ELSE IF t.element = "GENERICINST" THEN "generic"
  ELSE IF t.element \in Pointers \cup {"SZARRAY", "FNPTR"} /\ t.of # <<>> THEN "made" ELSE "plain"

Said(t, of, a) ==
  IF Shape(t) = "named" THEN Then(t.element, Then(Open, Then(t.name, Then(Close, a))))
  ELSE IF Shape(t) = "array" THEN Then(Array, Before(t.sizes, Then(Sized, Before(of[1], Then(Close, a)))))
  ELSE IF Shape(t) = "generic" THEN Then(t.element, Then(Open, Then(t.name, Then(Open, Before(Joined(of), Then(Closes, a))))))
  ELSE IF Shape(t) = "made" THEN Then(t.element, Then(Open, Before(Joined(of), Then(Close, a))))
  ELSE Then(t.element, a)

LEMMA JoinedWords ==
  ASSUME NEW parts \in Seq(Spellings)
  PROVE  Joined(parts) \in Spellings
<1>1. PICK f \in [1..(Len(parts) + 1) -> Spellings] : Joined(parts) = f[1]
  BY JoinedFrom
<1>2. 1 \in 1..(Len(parts) + 1)
  BY JoinedFrom
<1> QED
  BY <1>1, <1>2

(* A few words, and what follows them.                                     *)
One(x) == <<x>>

Two(x, y) == <<x, y>>

Four(x, y, z, w) == <<x, y, z, w>>

LEMMA OneSpelled ==
  ASSUME NEW x \in Tokens, NEW a \in Spellings
  PROVE  One(x) \in Spellings /\ Before(One(x), a) = Then(x, a) /\ Then(x, a) \in Spellings
BY WordThen DEF One, Before, Then, Spellings

LEMMA TwoSpelled ==
  ASSUME NEW x \in Tokens, NEW y \in Tokens, NEW a \in Spellings
  PROVE  Two(x, y) \in Spellings /\ Before(Two(x, y), a) = Then(x, Then(y, a))
<1>1. Two(x, y) \in Spellings /\ One(x) \in Spellings /\ One(y) \in Spellings
  BY DEF One, Two, Spellings
<1>2. Two(x, y) = Before(One(x), One(y))
  <2>1. Before(One(x), One(y)) \in Spellings
    BY <1>1, Associates
  <2>2. Len(Two(x, y)) = 2 /\ Len(Before(One(x), One(y))) = 2 /\ \A i \in 1..2 : Two(x, y)[i] = Before(One(x), One(y))[i]
    BY DEF One, Two, Before, Spellings
  <2> QED
    BY <1>1, <2>1, <2>2, SeqEqual DEF Spellings
<1>3. Before(Before(One(x), One(y)), a) = Before(One(x), Before(One(y), a)) /\ Before(One(y), a) \in Spellings
  BY <1>1, Associates
<1>4. Before(One(y), a) = Then(y, a) /\ \A b \in Spellings : Before(One(x), b) = Then(x, b)
  BY OneSpelled
<1> QED
  BY <1>1, <1>2, <1>3, <1>4

LEMMA FourSpelled ==
  ASSUME NEW x \in Tokens, NEW y \in Tokens, NEW z \in Tokens, NEW w \in Tokens, NEW a \in Spellings
  PROVE  Four(x, y, z, w) \in Spellings /\ Before(Four(x, y, z, w), a) = Then(x, Then(y, Then(z, Then(w, a))))
<1>1. Two(x, y) \in Spellings /\ Two(z, w) \in Spellings
  BY DEF Two, Spellings
<1>2. Four(x, y, z, w) = Before(Two(x, y), Two(z, w))
  BY DEF Four, Two, Before
<1>3. Before(Before(Two(x, y), Two(z, w)), a) = Before(Two(x, y), Before(Two(z, w), a)) /\ Before(Two(z, w), a) \in Spellings
      /\ Before(Two(x, y), Two(z, w)) \in Spellings
  BY <1>1, Associates
<1>4. Before(Two(z, w), a) = Then(z, Then(w, a)) /\ \A b \in Spellings : Before(Two(x, y), b) = Then(x, Then(y, b))
  BY TwoSpelled
<1> QED
  BY <1>2, <1>3, <1>4

(* The words of a type without its custom modifiers.                       *)
LEMMA SaysUnmodified ==
  ASSUME NEW t \in SigTypes, NEW of \in Seq(Spellings), of = <<>> <=> t.of = <<>>
  PROVE  /\ CanonicalUnmodified(t, of) \in Spellings
         /\ \A a \in Spellings : Before(CanonicalUnmodified(t, of), a) = Said(t, of, a)
<1> DEFINE e == t.element
           n == t.name
           c == CanonicalUnmodified(t, of)
<1>1. e \in Tokens /\ n \in Tokens /\ t.sizes \in Spellings
  BY TypesAre
<1>2. /\ Open \in Tokens /\ Close \in Tokens /\ Closes \in Tokens /\ Array \in Tokens /\ Sized \in Tokens
  BY MarksDiffer
<1>3. \A v \in Tokens, a \in Spellings : Before(One(v), a) = Then(v, a) /\ One(v) \in Spellings /\ Then(v, a) \in Spellings
  BY OneSpelled
<1>0. <<>> \in Spellings
  BY DEF Spellings
<1>4. CASE Shape(t) = "named"
  <2>1. e \in Named
    BY <1>4 DEF Shape
  <2>2. c = Four(e, Open, n, Close)
    BY <2>1 DEF CanonicalUnmodified, Open, Close, Named, Pointers, Four
  <2>3. ASSUME NEW a \in Spellings PROVE Four(e, Open, n, Close) \in Spellings /\ Before(Four(e, Open, n, Close), a) = Then(e, Then(Open, Then(n, Then(Close, a))))
    <3> HIDE DEF e, n, c
    <3> QED
      BY <1>1, <1>2, FourSpelled
  <2> HIDE DEF e, n, c
  <2>4. c \in Spellings /\ \A a \in Spellings : Before(c, a) = Then(e, Then(Open, Then(n, Then(Close, a))))
    BY <1>0, <2>2, <2>3
  <2> QED
    BY <1>4, <2>4 DEF Said, e, n, c
<1>5. CASE Shape(t) = "array"
  <2>1. e = "ARRAY" /\ of # <<>>
    BY <1>5 DEF Shape
  <2> DEFINE k == of[1]
             o1 == One(Array)
             o2 == One(Sized)
             o3 == One(Close)
  <2>2. c = Before(Before(Before(Before(o1, t.sizes), o2), k), o3)
    BY <2>1 DEF CanonicalUnmodified, Array, Sized, Close, Named, Pointers, Before, One
  <2>3. k \in Spellings
    BY <2>1
  <2>4. /\ o1 \in Spellings /\ o2 \in Spellings /\ o3 \in Spellings
        /\ \A a \in Spellings : Before(o1, a) = Then(Array, a) /\ Before(o2, a) = Then(Sized, a) /\ Before(o3, a) = Then(Close, a)
    <3> HIDE DEF c, e, n
    <3> QED
      BY <1>0, <1>2, <1>3
  <2> DEFINE s == t.sizes
  <2>5. s \in Spellings
    BY <1>1
  <2> HIDE DEF e, n, c, k, o1, o2, o3, s
  <2> DEFINE c1 == Before(o1, s)
             c2 == Before(c1, o2)
             c3 == Before(c2, k)
  <2>6. c1 \in Spellings /\ c2 \in Spellings /\ c3 \in Spellings /\ c = Before(c3, o3)
    BY <2>2, <2>3, <2>4, <2>5, Associates DEF s
  <2>7. ASSUME NEW a \in Spellings PROVE Before(c, a) = Then(Array, Before(s, Then(Sized, Before(k, Then(Close, a)))))
    <3> DEFINE a1 == Then(Close, a)
               a2 == Before(k, a1)
               a3 == Then(Sized, a2)
               a4 == Before(s, a3)
    <3>1. a1 \in Spellings /\ a2 \in Spellings /\ a3 \in Spellings /\ a4 \in Spellings
      BY <1>2, <1>3, <2>3, <2>5, Associates
    <3>2. Before(c, a) = Before(c3, a1)
      <4> HIDE DEF c3, a1
      <4> QED
        BY <2>4, <2>6, Associates DEF a1
    <3>3. Before(c3, a1) = Before(c2, a2)
      <4> HIDE DEF c2, a1
      <4> QED
        BY <2>3, <2>6, <3>1, Associates
    <3>4. Before(c2, a2) = Before(c1, a3)
      <4> HIDE DEF c1, a2
      <4> QED
        BY <2>4, <2>6, <3>1, Associates
    <3>5. Before(c1, a3) = Then(Array, a4)
      <4> HIDE DEF a3
      <4> QED
        BY <2>4, <2>5, <3>1, Associates
    <3> QED
      BY <3>2, <3>3, <3>4, <3>5
  <2>8. c \in Spellings
    BY <2>4, <2>6, Associates
  <2> QED
    BY <1>5, <2>7, <2>8 DEF Said, c, s, k
<1>6. CASE Shape(t) = "generic"
  <2>1. e = "GENERICINST"
    BY <1>6 DEF Shape
  <2> DEFINE j == Joined(of)
             o1 == Four(e, Open, n, Open)
             o2 == One(Closes)
  <2>2. c = Before(Before(o1, j), o2)
    BY <2>1 DEF CanonicalUnmodified, Open, Closes, Named, Pointers, Before, One, Four
  <2>3. j \in Spellings
    BY JoinedWords
  <2>4. /\ o1 \in Spellings /\ o2 \in Spellings
        /\ \A a \in Spellings : Before(o1, a) = Then(e, Then(Open, Then(n, Then(Open, a)))) /\ Before(o2, a) = Then(Closes, a) /\ Then(Closes, a) \in Spellings
    <3> HIDE DEF c, e, n
    <3>1. \A a \in Spellings : o1 \in Spellings /\ Before(o1, a) = Then(e, Then(Open, Then(n, Then(Open, a))))
      BY <1>1, <1>2, FourSpelled
    <3> QED
      BY <1>0, <1>2, <1>3, <3>1
  <2> HIDE DEF c, o1, o2, j, e, n
  <2>5. c \in Spellings /\ \A a \in Spellings : Before(c, a) = Then(e, Then(Open, Then(n, Then(Open, Before(j, Then(Closes, a))))))
    <3>1. Before(o1, j) \in Spellings /\ c \in Spellings
      BY <2>2, <2>3, <2>4, Associates
    <3>2. \A a \in Spellings : Before(c, a) = Before(Before(o1, j), Before(o2, a)) /\ Before(o2, a) \in Spellings
      BY <2>2, <2>4, <3>1, Associates
    <3>3. \A a \in Spellings : Before(Before(o1, j), a) = Before(o1, Before(j, a)) /\ Before(j, a) \in Spellings
      BY <2>3, <2>4, Associates
    <3> QED
      BY <2>4, <3>1, <3>2, <3>3
  <2> QED
    BY <1>6, <2>5 DEF Said, c, j, e, n
<1>7. CASE Shape(t) = "made"
  <2>1. e \in Pointers \cup {"SZARRAY", "FNPTR"} /\ of # <<>>
    BY <1>7 DEF Shape
  <2> DEFINE j == Joined(of)
             o1 == Two(e, Open)
             o2 == One(Close)
  <2>2. c = Before(Before(o1, j), o2)
    BY <2>1 DEF CanonicalUnmodified, Open, Close, Named, Pointers, Before, One, Two
  <2>3. j \in Spellings
    BY JoinedWords
  <2>4. /\ o1 \in Spellings /\ o2 \in Spellings
        /\ \A a \in Spellings : Before(o1, a) = Then(e, Then(Open, a)) /\ Before(o2, a) = Then(Close, a) /\ Then(Close, a) \in Spellings
    <3> HIDE DEF c, e, n
    <3>1. \A a \in Spellings : o1 \in Spellings /\ Before(o1, a) = Then(e, Then(Open, a))
      BY <1>1, <1>2, TwoSpelled
    <3> QED
      BY <1>0, <1>2, <1>3, <3>1
  <2> HIDE DEF c, o1, o2, j, e, n
  <2>5. c \in Spellings /\ \A a \in Spellings : Before(c, a) = Then(e, Then(Open, Before(j, Then(Close, a))))
    <3>1. Before(o1, j) \in Spellings /\ c \in Spellings
      BY <2>2, <2>3, <2>4, Associates
    <3>2. \A a \in Spellings : Before(c, a) = Before(Before(o1, j), Before(o2, a)) /\ Before(o2, a) \in Spellings
      BY <2>2, <2>4, <3>1, Associates
    <3>3. \A a \in Spellings : Before(Before(o1, j), a) = Before(o1, Before(j, a)) /\ Before(j, a) \in Spellings
      BY <2>3, <2>4, Associates
    <3> QED
      BY <2>4, <3>1, <3>2, <3>3
  <2> QED
    BY <1>7, <2>5 DEF Said, c, j, e
<1>8. CASE Shape(t) = "plain"
  <2>1. /\ e \notin Named /\ ~(e = "ARRAY" /\ of # <<>>) /\ e # "GENERICINST"
        /\ ~(e \in Pointers \cup {"SZARRAY", "FNPTR"} /\ of # <<>>)
    BY <1>8 DEF Shape
  <2>2. c = One(e)
    BY <2>1 DEF CanonicalUnmodified, One
  <2> HIDE DEF c, e
  <2> QED
    BY <1>1, <1>3, <1>8, <2>2 DEF Said, c, e
<1>9. Shape(t) \in {"named", "array", "generic", "made", "plain"}
  BY DEF Shape
<1> QED
  BY <1>4, <1>5, <1>6, <1>7, <1>8, <1>9

Canonicals(types) == [i \in DOMAIN types |-> CanonicalSigType[types[i]]]

(* A canonical signature is a sequence of words.                           *)
LEMMA CanonicalWords ==
  ASSUME NEW t \in SigTypes
  PROVE  CanonicalSigType[t] \in Spellings
<1> DEFINE W == {d \in Nat : \E u \in SigTypes : Depth[u] = d /\ CanonicalSigType[u] \notin Spellings}
<1>1. W \in SUBSET Nat
  OBVIOUS
<1>2. ASSUME NEW d \in W, \A l \in W : d <= l PROVE FALSE
  <2>1. PICK u \in SigTypes : Depth[u] = d /\ CanonicalSigType[u] \notin Spellings
    OBVIOUS
  <2> DEFINE of == Canonicals(u.of)
  <2>2. ASSUME NEW i \in DOMAIN u.of PROVE CanonicalSigType[u.of[i]] \in Spellings
    <3>1. u.of[i] \in SigTypes /\ Depth[u.of[i]] \in Nat /\ Depth[u.of[i]] < d /\ d \in Nat
      BY <2>1, TypesNest
    <3>2. Depth[u.of[i]] \notin W
      BY <1>2, <3>1
    <3> QED
      BY <3>1, <3>2
  <2>3. of \in Seq(Spellings) /\ (of = <<>> <=> u.of = <<>>)
    BY <2>2, TypesNest DEF Canonicals
  <2>4. CanonicalSigType[u] = Before(u.modifiers, CanonicalUnmodified(u, of))
    BY CanonicalUnfolds DEF CanonicalOf, Canonicals, Before
  <2> HIDE DEF of
  <2>5. CanonicalUnmodified(u, of) \in Spellings
    BY <2>3, SaysUnmodified
  <2>6. CanonicalSigType[u] \in Spellings
    BY <2>4, <2>5, Associates, TypesAre
  <2> QED
    BY <2>1, <2>6
<1> HIDE DEF W
<1>3. W = {}
  BY <1>1, <1>2, MinIn
<1>4. Depth[t] \in Nat
  BY TypesNest
<1> QED
  BY <1>3, <1>4 DEF W

(* The canonical signatures of types, and of what they are made of.        *)
LEMMA CanonicalsAre ==
  ASSUME NEW types \in Seq(SigTypes)
  PROVE  /\ Canonicals(types) \in Seq(Spellings) /\ Len(Canonicals(types)) = Len(types) /\ Len(types) \in Nat
         /\ Canonicals(types) = <<>> <=> types = <<>>
         /\ DOMAIN types = 1..Len(types)
         /\ \A i \in 1..Len(types) : types[i] \in SigTypes /\ Canonicals(types)[i] = CanonicalSigType[types[i]]
<1>1. Len(types) \in Nat /\ DOMAIN types = 1..Len(types) /\ \A i \in 1..Len(types) : types[i] \in SigTypes
  OBVIOUS
<1>2. \A i \in 1..Len(types) : CanonicalSigType[types[i]] \in Spellings
  BY <1>1, CanonicalWords
<1> QED
  BY <1>1, <1>2 DEF Canonicals

(* The words of a type, and what follows them.                             *)
LEMMA CanonicalSays ==
  ASSUME NEW t \in SigTypes, NEW a \in Spellings
  PROVE  /\ Before(CanonicalSigType[t], a) = Before(t.modifiers, Said(t, Canonicals(t.of), a))
         /\ Said(t, Canonicals(t.of), a) \in Spellings
<1> DEFINE of == Canonicals(t.of)
<1>1. of \in Seq(Spellings) /\ (of = <<>> <=> t.of = <<>>)
  <2>1. t.of \in Seq(SigTypes)
    BY TypesNest
  <2> QED
    BY <2>1, CanonicalsAre
<1>2. CanonicalSigType[t] = Before(t.modifiers, CanonicalUnmodified(t, of))
  BY CanonicalUnfolds DEF CanonicalOf, Canonicals, Before
<1> HIDE DEF of
<1>3. CanonicalUnmodified(t, of) \in Spellings /\ Before(CanonicalUnmodified(t, of), a) = Said(t, of, a) /\ t.modifiers \in Spellings
  BY <1>1, SaysUnmodified, TypesAre
<1>4. Before(CanonicalSigType[t], a) = Before(t.modifiers, Said(t, of, a))
  <2> DEFINE m == t.modifiers
             c == CanonicalUnmodified(t, of)
             said == Said(t, of, a)
  <2>1. m \in Spellings /\ c \in Spellings /\ Before(c, a) = said /\ CanonicalSigType[t] = Before(m, c)
    BY <1>2, <1>3
  <2> HIDE DEF m, c, said
  <2>2. Before(Before(m, c), a) = Before(m, Before(c, a))
    BY <2>1, Associates
  <2> QED
    BY <2>1, <2>2 DEF m, said
<1>5. Before(CanonicalUnmodified(t, of), a) \in Spellings
  BY <1>3, Associates
<1> QED
  BY <1>3, <1>4, <1>5 DEF of


(* The first word of a canonical signature after the custom modifiers, and *)
(* what stands behind it.                                                  *)
Start(t) == IF Shape(t) = "array" THEN Array ELSE t.element

After(t, of, a) ==
  IF Shape(t) = "named" THEN Then(Open, Then(t.name, Then(Close, a)))
  ELSE IF Shape(t) = "array" THEN Before(t.sizes, Then(Sized, Before(of[1], Then(Close, a))))
  ELSE IF Shape(t) = "generic" THEN Then(Open, Then(t.name, Then(Open, Before(Joined(of), Then(Closes, a)))))
  ELSE IF Shape(t) = "made" THEN Then(Open, Before(Joined(of), Then(Close, a)))
  ELSE a

LEMMA CanonicalStarts ==
  ASSUME NEW t \in SigTypes, NEW a \in Spellings
  PROVE  /\ Before(CanonicalSigType[t], a) = Before(t.modifiers, Then(Start(t), After(t, Canonicals(t.of), a)))
         /\ After(t, Canonicals(t.of), a) \in Spellings
         /\ Start(t) \in Tokens /\ (Start(t) = Array \/ Start(t) \notin Marks)
         /\ \A u \in SigTypes : Start(t) \notin ToSet(u.modifiers)
<1> DEFINE of == Canonicals(t.of)
<1>1. of \in Seq(Spellings) /\ (of = <<>> <=> t.of = <<>>)
  <2>1. t.of \in Seq(SigTypes)
    BY TypesNest
  <2> QED
    BY <2>1, CanonicalsAre
<1>2. Before(CanonicalSigType[t], a) = Before(t.modifiers, Said(t, of, a))
  BY CanonicalSays
<1> HIDE DEF of
<1>3. Said(t, of, a) = Then(Start(t), After(t, of, a))
  BY DEF Said, Start, After
<1>4. /\ \A x \in {Open, Close, Closes, Sized}, b \in Spellings : Then(x, b) \in Spellings
      /\ Then(t.name, Then(Close, a)) \in Spellings
      /\ \A b \in Spellings : Then(t.name, b) \in Spellings /\ Before(t.sizes, b) \in Spellings /\ Before(Joined(of), b) \in Spellings
  BY <1>1, MarksDiffer, TypesAre, WordThen, Associates, JoinedWords
<1>5. ASSUME Shape(t) = "array" PROVE of[1] \in Spellings /\ \A b \in Spellings : Before(of[1], b) \in Spellings
  <2>1. of # <<>>
    BY <1>1, <1>5 DEF Shape
  <2>2. of[1] \in Spellings
    BY <1>1, <2>1
  <2> QED
    BY <2>2, Associates
<1>6. After(t, of, a) \in Spellings
  BY <1>4, <1>5 DEF After
<1>7. Start(t) \in Tokens /\ (Start(t) = Array \/ Start(t) \notin Marks)
  BY MarksDiffer, TypesAre DEF Start
<1>8. \A u \in SigTypes : Start(t) \notin ToSet(u.modifiers)
  BY MarksDiffer, TypesAre DEF Start
<1> QED
  BY <1>2, <1>3, <1>6, <1>7, <1>8 DEF of

(* No canonical signature starts with a mark other than that of an array.  *)
LEMMA StartsOtherwise ==
  ASSUME NEW t \in SigTypes, NEW a \in Spellings, NEW y \in Marks, y # Array, NEW b \in Spellings
  PROVE  Before(CanonicalSigType[t], a) # Then(y, b)
<1> SUFFICES ASSUME Before(CanonicalSigType[t], a) = Then(y, b) PROVE FALSE
  OBVIOUS
<1> DEFINE m == t.modifiers
           none == <<>>
           x == Start(t)
           r == After(t, Canonicals(t.of), a)
<1>1. none \in Spellings /\ x \notin ToSet(none) /\ \A c \in Spellings : Before(none, c) = c
  BY DEF Spellings, ToSet, Before
<1>2. m \in Spellings /\ y \notin ToSet(m) /\ y \in Tokens
  BY TypesAre, MarksDiffer
<1>3. Before(m, Then(x, r)) = Then(y, b) /\ r \in Spellings /\ x \in Tokens /\ (x = Array \/ x \notin Marks)
  BY CanonicalStarts
<1> HIDE DEF m, none, x, r
<1>4. Then(y, b) = Before(none, Then(y, b))
  BY <1>1, <1>2, WordThen
<1>5. x = y
  BY <1>1, <1>2, <1>3, <1>4, PrefixesCancel
<1> QED
  BY <1>3, <1>5

(* What is left of a list of types, and what follows it, at every place.   *)
LeftOf(ts, x, a, rest) ==
  /\ Before(Joined(Canonicals(ts)), Then(x, a)) = rest[1] /\ rest[Len(ts) + 1] = Then(x, a)
  /\ \A i \in 1..(Len(ts) + 1) : rest[i] \in Spellings
  /\ \A i \in 1..Len(ts) :
       /\ Before(CanonicalSigType[ts[i]], rest[i + 1]) \in Spellings
       /\ rest[i] = IF i = 1 THEN Before(CanonicalSigType[ts[i]], rest[i + 1])
                    ELSE Then(Comma, Before(CanonicalSigType[ts[i]], rest[i + 1]))

(* At every place of a list there is something left.                       *)
LEMMA ListsUnfold ==
  ASSUME NEW ts \in Seq(SigTypes), NEW x \in Tokens, NEW a \in Spellings
  PROVE  \E rest : LeftOf(ts, x, a, rest)
<1> DEFINE parts == Canonicals(ts)
           n == Len(ts)
           z == Then(x, a)
<1>1. parts \in Seq(Spellings) /\ Len(parts) = n /\ n \in Nat /\ \A i \in 1..n : ts[i] \in SigTypes /\ parts[i] = CanonicalSigType[ts[i]]
  BY CanonicalsAre
<1>2. z \in Spellings
  BY WordThen
<1>3. \A i \in 1..n : parts[i] \in Spellings
  BY <1>1, CanonicalWords
<1>4. PICK f \in [1..(n + 1) -> Spellings] :
        Joined(parts) = f[1] /\ f[n + 1] = <<>> /\ \A i \in 1..n : f[i] = JoinStep(parts, f, i)
  <2> HIDE DEF parts, n
  <2> QED
    BY <1>1, JoinedFrom
<1> HIDE DEF parts, n, z
<1> DEFINE rest == [i \in 1..(n + 1) |-> Before(f[i], z)]
<1>5. 1 \in 1..(n + 1) /\ n + 1 \in 1..(n + 1) /\ \A i \in 1..n : i \in 1..(n + 1) /\ i + 1 \in 1..(n + 1)
  BY <1>1
<1>6. \A i \in 1..(n + 1) : f[i] \in Spellings /\ rest[i] = Before(f[i], z) /\ rest[i] \in Spellings
  BY <1>2, <1>4, Associates
<1> HIDE DEF rest
<1>7. rest[1] = Before(Joined(parts), z) /\ rest[n + 1] = z
  <2>1. Before(<<>>, z) = z
    BY <1>2 DEF Before, Spellings
  <2> QED
    BY <1>4, <1>5, <1>6, <2>1
<1>8. ASSUME NEW i \in 1..n
      PROVE  /\ Before(parts[i], rest[i + 1]) \in Spellings
             /\ rest[i] = IF i = 1 THEN Before(parts[i], rest[i + 1]) ELSE Then(Comma, Before(parts[i], rest[i + 1]))
  <2> DEFINE p == parts[i]
             g == f[i + 1]
  <2>1. p \in Spellings /\ g \in Spellings /\ rest[i + 1] = Before(g, z) /\ rest[i] = Before(f[i], z)
    BY <1>3, <1>5, <1>6
  <2>2. CASE i = 1
    <3>0. f[i] = JoinStep(parts, f, i)
      BY <1>4
    <3>1. f[i] = Before(Before(<<>>, p), g) /\ Before(<<>>, p) = p
      <4>1. f[i] = Before(Before(<<>>, p), g)
        BY <2>2, <3>0 DEF JoinStep
      <4> HIDE DEF p
      <4>2. Before(<<>>, p) = p
        BY <2>1 DEF Before, Spellings
      <4> QED
        BY <4>1, <4>2
    <3> HIDE DEF p, g
    <3>2. Before(Before(p, g), z) = Before(p, Before(g, z)) /\ Before(g, z) \in Spellings /\ Before(p, Before(g, z)) \in Spellings
      BY <1>2, <2>1, Associates
    <3>3. rest[i] = Before(p, rest[i + 1]) /\ Before(p, rest[i + 1]) \in Spellings
      BY <2>1, <3>1, <3>2
    <3> QED
      BY <2>2, <3>3 DEF p
  <2>3. CASE i # 1
    <3>1. f[i] = Before(Before(One(Comma), p), g) /\ Comma \in Tokens
      BY <1>4, <2>3, MarksDiffer DEF JoinStep, One
    <3> HIDE DEF p, g
    <3>2. One(Comma) \in Spellings /\ \A c \in Spellings : Before(One(Comma), c) = Then(Comma, c)
      BY <1>2, <3>1, OneSpelled
    <3>3. Before(Before(One(Comma), p), g) = Before(One(Comma), Before(p, g)) /\ Before(p, g) \in Spellings
      BY <2>1, <3>2, Associates
    <3>4. Before(Before(One(Comma), Before(p, g)), z) = Before(One(Comma), Before(Before(p, g), z))
      BY <1>2, <3>2, <3>3, Associates
    <3>5. Before(Before(p, g), z) = Before(p, Before(g, z)) /\ Before(g, z) \in Spellings /\ Before(p, Before(g, z)) \in Spellings
      BY <1>2, <2>1, Associates
    <3> QED
      BY <2>1, <2>3, <3>1, <3>2, <3>3, <3>4, <3>5 DEF p
  <2> QED
    BY <2>2, <2>3
<1>9. LeftOf(ts, x, a, rest)
  BY <1>1, <1>6, <1>7, <1>8 DEF LeftOf, n, parts, z
<1> QED
  BY <1>9


-----------------------------------------------------------------------------
(* What may follow the signature of a type: nothing, or a word that says   *)
(* that it has ended.  A type is told if no other has its signature,       *)
(* whatever of that follows either.                                        *)
Follows == {Comma} \cup Closers

Tails == {a \in Spellings : a = <<>> \/ \E x \in Follows, b \in Spellings : a = Then(x, b)}

ToldApart(t) ==
  \A u \in SigTypes, a \in Tails, b \in Tails :
    Before(CanonicalSigType[t], a) = Before(CanonicalSigType[u], b) => t = u /\ a = b

(* What follows a type is a mark that no type starts with.                 *)
LEMMA FollowsTail ==
  ASSUME NEW x \in Follows, NEW a \in Spellings
  PROVE  x \in Tokens /\ x \in Marks /\ x # Array /\ x # Open /\ Then(x, a) \in Tails
<1>1. x \in Marks /\ x \in Tokens /\ x # Array /\ x # Open
  BY MarksDiffer DEF Follows, Closers
<1>2. Then(x, a) \in Spellings
  BY <1>1, WordThen
<1> QED
  BY <1>1, <1>2 DEF Tails

(* Lists of types that are told are told, and so is what follows them.     *)
LEMMA ListsApart ==
  ASSUME NEW ts \in Seq(SigTypes), NEW us \in Seq(SigTypes), NEW x \in Closers, NEW y \in Closers,
         NEW a \in Spellings, NEW b \in Spellings,
         \A i \in 1..Len(ts) : ToldApart(ts[i]),
         Before(Joined(Canonicals(ts)), Then(x, a)) = Before(Joined(Canonicals(us)), Then(y, b))
  PROVE  ts = us /\ x = y /\ a = b
<1>1. /\ Len(ts) \in Nat /\ Len(us) \in Nat /\ ts \in Seq(SigTypes) /\ us \in Seq(SigTypes)
      /\ \A i \in 1..Len(ts) : ts[i] \in SigTypes
      /\ \A i \in 1..Len(us) : us[i] \in SigTypes
  BY CanonicalsAre
<1>2. x \in Follows /\ y \in Follows /\ Comma \in Follows /\ Comma # x /\ Comma # y /\ x \in Tokens /\ y \in Tokens /\ Comma \in Tokens
  BY MarksDiffer, FollowsTail DEF Follows, Closers
<1>3. PICK p : LeftOf(ts, x, a, p)
  BY <1>2, ListsUnfold
<1>4. PICK q : LeftOf(us, y, b, q)
  BY <1>2, ListsUnfold
<1> DEFINE n == Len(ts)
           m == Len(us)
           ct(i) == Before(CanonicalSigType[ts[i]], p[i + 1])
           cu(i) == Before(CanonicalSigType[us[i]], q[i + 1])
<1>5. /\ p[n + 1] = Then(x, a) /\ p[1] = q[1] /\ \A i \in 1..(n + 1) : p[i] \in Spellings
      /\ \A i \in 1..n : ct(i) \in Spellings /\ p[i] = IF i = 1 THEN ct(i) ELSE Then(Comma, ct(i))
  BY <1>3, <1>4 DEF LeftOf
<1>6. /\ q[m + 1] = Then(y, b) /\ \A i \in 1..(m + 1) : q[i] \in Spellings
      /\ \A i \in 1..m : cu(i) \in Spellings /\ q[i] = IF i = 1 THEN cu(i) ELSE Then(Comma, cu(i))
  BY <1>4 DEF LeftOf
<1>7. ASSUME NEW i \in 1..n PROVE p[i] # Then(y, b) /\ p[i + 1] \in Tails
  <2>1. i + 1 \in 1..(n + 1) /\ i + 1 # 1 /\ (i + 1 = n + 1 \/ i + 1 \in 1..n)
    BY <1>1
  <2>2. p[i] # Then(y, b)
    <3>1. CASE i = 1
      <4>1. p[i] = ct(i) /\ p[i + 1] \in Spellings /\ ts[i] \in SigTypes
        BY <1>1, <1>5, <2>1, <3>1
      <4> QED
        BY <1>2, <4>1, FollowsTail, StartsOtherwise
    <3>2. CASE i # 1
      <4>1. p[i] = Then(Comma, ct(i)) /\ ct(i) \in Spellings
        BY <1>5, <3>2
      <4> HIDE DEF ct
      <4> QED
        BY <1>2, <4>1, HeadsCancel
    <3> QED
      BY <3>1, <3>2
  <2>3. p[i + 1] \in Tails
    <3>1. CASE i + 1 = n + 1
      BY <1>2, <1>5, <3>1, FollowsTail
    <3>2. CASE i + 1 \in 1..n
      <4> DEFINE k == i + 1
      <4>1. p[k] = Then(Comma, ct(k)) /\ ct(k) \in Spellings
        BY <1>5, <2>1, <3>2
      <4> HIDE DEF ct
      <4> QED
        BY <1>2, <4>1, FollowsTail
    <3> QED
      BY <2>1, <3>1, <3>2
  <2> QED
    BY <2>2, <2>3
<1>8. ASSUME NEW i \in 1..m PROVE q[i] # Then(x, a) /\ q[i + 1] \in Tails
  <2>1. i + 1 \in 1..(m + 1) /\ i + 1 # 1 /\ (i + 1 = m + 1 \/ i + 1 \in 1..m)
    BY <1>1
  <2>2. q[i] # Then(x, a)
    <3>1. CASE i = 1
      <4>1. q[i] = cu(i) /\ q[i + 1] \in Spellings /\ us[i] \in SigTypes
        BY <1>1, <1>6, <2>1, <3>1
      <4> QED
        BY <1>2, <4>1, FollowsTail, StartsOtherwise
    <3>2. CASE i # 1
      <4>1. q[i] = Then(Comma, cu(i)) /\ cu(i) \in Spellings
        BY <1>6, <3>2
      <4> HIDE DEF cu
      <4> QED
        BY <1>2, <4>1, HeadsCancel
    <3> QED
      BY <3>1, <3>2
  <2>3. q[i + 1] \in Tails
    <3>1. CASE i + 1 = m + 1
      BY <1>2, <1>6, <3>1, FollowsTail
    <3>2. CASE i + 1 \in 1..m
      <4> DEFINE k == i + 1
      <4>1. q[k] = Then(Comma, cu(k)) /\ cu(k) \in Spellings
        BY <1>6, <2>1, <3>2
      <4> HIDE DEF cu
      <4> QED
        BY <1>2, <4>1, FollowsTail
    <3> QED
      BY <2>1, <3>1, <3>2
  <2> QED
    BY <2>2, <2>3
<1> DEFINE Alike(i) == i <= m + 1 /\ p[i] = q[i] /\ \A j \in 1..(i - 1) : ts[j] = us[j]
<1>9. Alike(1)
  BY <1>1, <1>5
<1>10. ASSUME NEW i \in 1..n, Alike(i) PROVE Alike(i + 1)
  <2>1. i <= m + 1 /\ p[i] = q[i]
    BY <1>10
  <2>2. i # m + 1
    BY <1>6, <1>7, <2>1
  <2>3. i \in 1..m
    BY <1>1, <2>1, <2>2
  <2>4. ct(i) = cu(i)
    <3>1. CASE i = 1
      BY <1>5, <1>6, <2>1, <2>3, <3>1
    <3>2. CASE i # 1
      <4>1. Then(Comma, ct(i)) = Then(Comma, cu(i)) /\ ct(i) \in Spellings /\ cu(i) \in Spellings
        BY <1>5, <1>6, <2>1, <2>3, <3>2
      <4> HIDE DEF ct, cu
      <4> QED
        BY <1>2, <4>1, HeadsCancel
    <3> QED
      BY <3>1, <3>2
  <2>5. ts[i] = us[i] /\ p[i + 1] = q[i + 1]
    BY <1>1, <1>7, <1>8, <2>3, <2>4 DEF ToldApart
  <2>6. i + 1 <= m + 1 /\ \A j \in 1..(i + 1 - 1) : j \in 1..(i - 1) \/ j = i
    BY <1>1, <2>3
  <2> HIDE DEF m, n
  <2> QED
    BY <1>10, <2>5, <2>6
<1>11. Alike(n + 1)
  <2> DEFINE W == {i \in 1..(n + 1) : ~Alike(i)}
  <2>1. W \in SUBSET Nat
    BY <1>1
  <2>2. ASSUME NEW i \in W, \A l \in W : i <= l PROVE FALSE
    <3>1. i \in 1..(n + 1) /\ ~Alike(i)
      OBVIOUS
    <3> HIDE DEF Alike
    <3>2. i # 1
      BY <1>9, <3>1
    <3>3. i - 1 \in 1..n /\ i - 1 \in 1..(n + 1) /\ ~(i <= i - 1) /\ (i - 1) + 1 = i
      BY <1>1, <3>1, <3>2
    <3>4. Alike(i - 1)
      BY <2>2, <3>3
    <3>5. Alike((i - 1) + 1)
      BY <1>10, <3>3, <3>4
    <3> QED
      BY <3>1, <3>3, <3>5
  <2> HIDE DEF W
  <2>3. W = {}
    BY <2>1, <2>2, MinIn
  <2>4. n + 1 \in 1..(n + 1)
    BY <1>1
  <2> HIDE DEF Alike
  <2> QED
    BY <2>3, <2>4 DEF W
<1>12. n = m
  <2>1. n + 1 <= m + 1 /\ q[n + 1] = Then(x, a)
    BY <1>5, <1>11
  <2>2. n + 1 \notin 1..m
    BY <1>8, <2>1
  <2> QED
    BY <1>1, <2>1, <2>2
<1>13. x = y /\ a = b
  <2>1. Then(x, a) = Then(y, b)
    BY <1>5, <1>6, <1>11, <1>12
  <2> QED
    BY <1>2, <2>1, HeadsCancel
<1>14. ts = us
  <2>1. \A j \in 1..n : ts[j] = us[j]
    <3>1. (n + 1) - 1 = n
      BY <1>1
    <3> QED
      BY <1>11, <3>1
  <2> QED
    BY <1>1, <1>12, <2>1, SeqEqual
<1> QED
  BY <1>13, <1>14


(* The element type, the name, the types within and the sizes of a type    *)
(* with the shape that they give it.                                       *)
LEMMA ShapesAre ==
  ASSUME NEW t \in SigTypes
  PROVE  /\ Shape(t) \in {"named", "array", "generic", "made", "plain"}
         /\ Shape(t) = "named" <=> t.element \in Named
         /\ Shape(t) = "generic" <=> t.element = "GENERICINST"
         /\ Shape(t) = "array" <=> t.element = "ARRAY" /\ t.of # <<>>
         /\ Shape(t) \in {"named", "plain"} => t.of = <<>>
         /\ Shape(t) # "array" => t.sizes = <<>>
         /\ Shape(t) = "made" => t.of # <<>>
BY TypesAre DEF Shape, Named, Pointers

(* Types that start alike after their modifiers have one element type.     *)
LEMMA StartsAlike ==
  ASSUME NEW t \in SigTypes, NEW u \in SigTypes, Start(t) = Start(u)
  PROVE  /\ t.element = u.element
         /\ Shape(t) = Shape(u) \/ {Shape(t), Shape(u)} = {"made", "plain"}
         /\ Shape(t) = Shape(u) /\ Shape(t) \in {"array", "made", "plain"} => t.name = u.name
<1>1. t.element # Array /\ u.element # Array
  BY TypesAre, MarksDiffer
<1>2. t.element = u.element /\ (Shape(t) = "array" <=> Shape(u) = "array")
  BY <1>1, ShapesAre DEF Start
<1>3. Shape(t) = Shape(u) /\ Shape(t) \in {"array", "made", "plain"} => t.name = u.name
  <2> SUFFICES ASSUME Shape(t) = Shape(u), Shape(t) \in {"array", "made", "plain"} PROVE t.name = u.name
    OBVIOUS
  <2>1. t.element \notin Named \cup {"GENERICINST"} /\ u.element \notin Named \cup {"GENERICINST"}
    BY ShapesAre
  <2> QED
    BY <2>1, Nameless
<1> QED
  BY <1>2, <1>3, ShapesAre

LEMMA OnlyOne ==
  ASSUME NEW S, NEW s \in Seq(S), s # <<>>, Len(s) <= 1
  PROVE  Len(s) = 1 /\ s[1] \in S
OBVIOUS

(* A type is told when those within it are.                                *)
LEMMA TypeTold ==
  ASSUME NEW t \in SigTypes, \A i \in DOMAIN t.of : ToldApart(t.of[i])
  PROVE  ToldApart(t)
<1> SUFFICES ASSUME NEW u \in SigTypes, NEW a \in Tails, NEW b \in Tails,
                    Before(CanonicalSigType[t], a) = Before(CanonicalSigType[u], b)
             PROVE  t = u /\ a = b
  BY DEF ToldApart
<1> DEFINE ct == Canonicals(t.of)
           cu == Canonicals(u.of)
           at == After(t, ct, a)
           au == After(u, cu, b)
<1>1. a \in Spellings /\ b \in Spellings
  BY DEF Tails
<1>2. t.modifiers = u.modifiers /\ Start(t) = Start(u) /\ at = au
  <2> DEFINE m == t.modifiers
             n == u.modifiers
             x == Start(t)
             y == Start(u)
  <2>1. /\ m \in Spellings /\ n \in Spellings /\ x \in Tokens /\ y \in Tokens
        /\ x \notin ToSet(n) /\ y \notin ToSet(m) /\ at \in Spellings /\ au \in Spellings
        /\ Before(m, Then(x, at)) = Before(n, Then(y, au))
    BY <1>1, TypesAre, CanonicalStarts
  <2> HIDE DEF m, n, x, y, at, au
  <2>2. m = n /\ x = y /\ at = au
    BY <2>1, PrefixesCancel
  <2> QED
    BY <2>2 DEF m, n, x, y
<1>3. t.of \in Seq(SigTypes) /\ u.of \in Seq(SigTypes) /\ DOMAIN t.of = 1..Len(t.of)
  BY TypesNest
<1>4. /\ t.name \in Tokens /\ u.name \in Tokens /\ t.sizes \in Spellings /\ u.sizes \in Spellings
      /\ {Comma, Open, Close, Closes, Array, Sized} \subseteq Tokens /\ Close \in Closers /\ Closes \in Closers
  BY TypesAre, MarksDiffer DEF Closers
<1>5. ASSUME NEW x \in Closers, Before(Joined(ct), Then(x, a)) = Before(Joined(cu), Then(x, b)) PROVE t.of = u.of /\ a = b
  BY <1>1, <1>3, <1>5, ListsApart
<1>6. \A x \in Tokens, c \in Spellings, d \in Spellings : Then(x, c) = Then(x, d) => c = d
  BY HeadsCancel
<1>7. \A x \in Tokens, c \in Spellings : Then(x, c) \in Spellings
  BY WordThen
<1>8. Joined(ct) \in Spellings /\ Joined(cu) \in Spellings
  BY <1>3, CanonicalsAre, JoinedWords
<1>9. \A c \in Spellings : Before(Joined(ct), c) \in Spellings /\ Before(Joined(cu), c) \in Spellings
  BY <1>8, Associates
<1>9a. ASSUME NEW c \in Spellings, NEW d \in Spellings, Then(t.name, c) = Then(u.name, d) PROVE t.name = u.name /\ c = d
  <2> DEFINE x == t.name
             y == u.name
  <2>1. x \in Tokens /\ y \in Tokens /\ Then(x, c) = Then(y, d)
    BY <1>4, <1>9a
  <2> HIDE DEF x, y
  <2>2. x = y /\ c = d
    BY <2>1, HeadsCancel
  <2> QED
    BY <2>2 DEF x, y
<1> HIDE DEF at, au
<1>10. CASE Shape(t) = "named" /\ Shape(u) = "named"
  <2>1. Then(Open, Then(t.name, Then(Close, a))) = Then(Open, Then(u.name, Then(Close, b)))
    BY <1>2, <1>10 DEF at, au, After
  <2>2. Then(t.name, Then(Close, a)) = Then(u.name, Then(Close, b))
    BY <1>1, <1>4, <1>6, <1>7, <2>1
  <2>3. t.name = u.name /\ Then(Close, a) = Then(Close, b)
    <3>1. Then(Close, a) \in Spellings /\ Then(Close, b) \in Spellings
      BY <1>1, <1>4, <1>7
    <3> QED
      BY <1>9a, <2>2, <3>1
  <2>4. a = b
    BY <1>1, <1>4, <1>6, <2>3
  <2>5. t.of = u.of /\ t.sizes = u.sizes /\ t.element = u.element
    BY <1>2, <1>10, ShapesAre, StartsAlike
  <2> QED
    BY <1>2, <2>3, <2>4, <2>5, SameType
<1>11. CASE Shape(t) = "generic" /\ Shape(u) = "generic"
  <2> DEFINE jt == Before(Joined(ct), Then(Closes, a))
             ju == Before(Joined(cu), Then(Closes, b))
  <2>0. jt \in Spellings /\ ju \in Spellings
    BY <1>1, <1>4, <1>7, <1>9
  <2>1. Then(Open, Then(t.name, Then(Open, jt))) = Then(Open, Then(u.name, Then(Open, ju)))
    BY <1>2, <1>11 DEF at, au, After
  <2> HIDE DEF jt, ju
  <2>2. Then(t.name, Then(Open, jt)) = Then(u.name, Then(Open, ju))
    BY <1>4, <1>6, <1>7, <2>0, <2>1
  <2>3. t.name = u.name /\ Then(Open, jt) = Then(Open, ju)
    <3>1. Then(Open, jt) \in Spellings /\ Then(Open, ju) \in Spellings
      BY <1>4, <1>7, <2>0
    <3> QED
      BY <1>9a, <2>2, <3>1
  <2>4. jt = ju
    BY <1>4, <1>6, <2>0, <2>3
  <2>5. t.of = u.of /\ a = b
    BY <1>4, <1>5, <2>4 DEF jt, ju
  <2>6. t.sizes = u.sizes /\ t.element = u.element
    BY <1>2, <1>11, ShapesAre, StartsAlike
  <2> QED
    BY <1>2, <2>3, <2>5, <2>6, SameType
<1>12. CASE Shape(t) = "array" /\ Shape(u) = "array"
  <2> DEFINE k == t.of[1]
             l == u.of[1]
             kt == Then(Sized, Before(ct[1], Then(Close, a)))
             ku == Then(Sized, Before(cu[1], Then(Close, b)))
  <2>1. t.of # <<>> /\ u.of # <<>> /\ Len(t.of) <= 1 /\ Len(u.of) <= 1
    BY <1>12, ShapesAre, TypesAre
  <2>2. Len(t.of) = 1 /\ Len(u.of) = 1 /\ k \in SigTypes /\ l \in SigTypes
    BY <1>3, <2>1, OnlyOne
  <2>3. ct[1] = CanonicalSigType[k] /\ cu[1] = CanonicalSigType[l] /\ ct[1] \in Spellings /\ cu[1] \in Spellings
    BY <1>3, <2>2, CanonicalsAre, CanonicalWords
  <2> DEFINE jt == Before(ct[1], Then(Close, a))
             ju == Before(cu[1], Then(Close, b))
  <2>4. jt \in Spellings /\ ju \in Spellings
    BY <1>1, <1>4, <1>7, <2>3, Associates
  <2>5. Before(t.sizes, Then(Sized, jt)) = Before(u.sizes, Then(Sized, ju))
    BY <1>2, <1>12 DEF at, au, After
  <2> HIDE DEF jt, ju
  <2>6. Sized \notin ToSet(t.sizes) /\ Sized \notin ToSet(u.sizes)
    BY TypesAre, MarksDiffer
  <2>7. t.sizes = u.sizes /\ jt = ju
    BY <1>4, <2>4, <2>5, <2>6, PrefixesCancel
  <2>8. Then(Close, a) \in Tails /\ Then(Close, b) \in Tails
    BY <1>1, <1>4, FollowsTail DEF Follows
  <2>9. k = l /\ Then(Close, a) = Then(Close, b)
    <3>1. ToldApart(k)
      BY <1>3, <2>2
    <3> HIDE DEF k, l
    <3> QED
      BY <2>2, <2>3, <2>7, <2>8, <3>1 DEF ToldApart, jt, ju
  <2>10. a = b
    BY <1>1, <1>4, <1>6, <2>9
  <2>11. t.of = u.of
    BY <1>3, <2>2, <2>9, SeqEqual
  <2>12. t.name = u.name /\ t.element = u.element
    BY <1>2, <1>12, StartsAlike
  <2> QED
    BY <1>2, <2>7, <2>10, <2>11, <2>12, SameType
<1>13. CASE Shape(t) = "made" /\ Shape(u) = "made"
  <2> DEFINE jt == Before(Joined(ct), Then(Close, a))
             ju == Before(Joined(cu), Then(Close, b))
  <2>0. jt \in Spellings /\ ju \in Spellings
    BY <1>1, <1>4, <1>7, <1>9
  <2>1. Then(Open, jt) = Then(Open, ju)
    BY <1>2, <1>13 DEF at, au, After
  <2> HIDE DEF jt, ju
  <2>2. jt = ju
    BY <1>4, <1>6, <2>0, <2>1
  <2>3. t.of = u.of /\ a = b
    BY <1>4, <1>5, <2>2 DEF jt, ju
  <2>4. t.sizes = u.sizes /\ t.element = u.element /\ t.name = u.name
    BY <1>2, <1>13, ShapesAre, StartsAlike
  <2> QED
    BY <1>2, <2>3, <2>4, SameType
<1>14. CASE Shape(t) = "plain" /\ Shape(u) = "plain"
  <2>1. a = b
    BY <1>2, <1>14 DEF at, au, After
  <2>2. t.of = u.of /\ t.sizes = u.sizes /\ t.element = u.element /\ t.name = u.name
    BY <1>2, <1>14, ShapesAre, StartsAlike
  <2> QED
    BY <1>2, <2>1, <2>2, SameType
<1>15. ASSUME NEW c \in Tails, NEW d \in Spellings PROVE c # Then(Open, d)
  <2> SUFFICES ASSUME c = Then(Open, d) PROVE FALSE
    OBVIOUS
  <2>1. c # <<>>
    BY <1>4, WordThen
  <2>2. PICK x \in Follows, e \in Spellings : c = Then(x, e)
    BY <2>1 DEF Tails
  <2>3. x \in Tokens /\ x # Open
    BY <2>2, FollowsTail
  <2> QED
    BY <1>4, <2>2, <2>3, HeadsCancel
<1>16. ~(Shape(t) = "made" /\ Shape(u) = "plain")
  <2> SUFFICES ASSUME Shape(t) = "made", Shape(u) = "plain" PROVE FALSE
    OBVIOUS
  <2>1. b = Then(Open, Before(Joined(ct), Then(Close, a)))
    BY <1>2 DEF at, au, After
  <2> QED
    BY <1>1, <1>4, <1>7, <1>9, <1>15, <2>1
<1>17. ~(Shape(t) = "plain" /\ Shape(u) = "made")
  <2> SUFFICES ASSUME Shape(t) = "plain", Shape(u) = "made" PROVE FALSE
    OBVIOUS
  <2>1. a = Then(Open, Before(Joined(cu), Then(Close, b)))
    BY <1>2 DEF at, au, After
  <2> QED
    BY <1>1, <1>4, <1>7, <1>9, <1>15, <2>1
<1>18. Shape(t) = Shape(u)
  <2>1. Shape(t) = Shape(u) \/ {Shape(t), Shape(u)} = {"made", "plain"}
    BY <1>2, StartsAlike
  <2> QED
    BY <1>16, <1>17, <2>1
<1> QED
  BY <1>10, <1>11, <1>12, <1>13, <1>14, <1>18, ShapesAre

(* Every type is told by its signature: the least deep that is not would   *)
(* be made of types that are.                                              *)
LEMMA TypesTold == \A t \in SigTypes : ToldApart(t)
<1> DEFINE W == {d \in Nat : \E t \in SigTypes : Depth[t] = d /\ ~ToldApart(t)}
<1>1. W \in SUBSET Nat
  OBVIOUS
<1>2. ASSUME NEW d \in W, \A l \in W : d <= l PROVE FALSE
  <2>1. PICK t \in SigTypes : Depth[t] = d /\ ~ToldApart(t)
    OBVIOUS
  <2>2. ASSUME NEW i \in DOMAIN t.of PROVE ToldApart(t.of[i])
    <3>1. t.of[i] \in SigTypes /\ Depth[t.of[i]] \in Nat /\ ~(d <= Depth[t.of[i]])
      BY <2>1, TypesNest
    <3>2. Depth[t.of[i]] \notin W
      BY <1>2, <3>1
    <3> QED
      BY <3>1, <3>2
  <2> QED
    BY <2>1, <2>2, TypeTold
<1> HIDE DEF W
<1>3. W = {}
  BY <1>1, <1>2, MinIn
<1>4. \A t \in SigTypes : Depth[t] \in Nat
  BY TypesNest
<1> QED
  BY <1>3, <1>4 DEF W


-----------------------------------------------------------------------------
(* The canonical signature of a method: its owner, its name, the types of  *)
(* its parameters and that of its result.                                  *)
LEMMA ReturnWords ==
  ASSUME NEW t \in SigTypes
  PROVE  RetCanonical(t) \in Spellings
<1>1. Void \in Tokens /\ <<>> \in Spellings
  BY MarksDiffer DEF Spellings
<1>2. One(Void) \in Spellings
  BY <1>1, OneSpelled
<1>3. RetCanonical(t) \in {One(Void), CanonicalSigType[t]}
  BY DEF RetCanonical, One, Void
<1> QED
  BY <1>2, <1>3, CanonicalWords

(* Results are told: no type has the signature "void".                     *)
LEMMA ReturnsApart ==
  ASSUME NEW t \in SigTypes, NEW u \in SigTypes, RetCanonical(t) = RetCanonical(u)
  PROVE  t = u
<1> DEFINE Plainly(v) == v.element = "VOID" /\ v.modifiers = <<>>
           none == <<>>
<1>1. /\ none \in Tails /\ none \in Spellings /\ \A c \in Spellings : Before(c, none) = c
      /\ Void \in Marks /\ Void \in Tokens /\ Void # Array
  BY MarksDiffer DEF Tails, Spellings, Before
<1>2. \A v : RetCanonical(v) = IF Plainly(v) THEN Then(Void, none) ELSE CanonicalSigType[v]
  BY DEF RetCanonical, Then, Void
<1>3. CanonicalSigType[t] \in Spellings /\ CanonicalSigType[u] \in Spellings
  BY CanonicalWords
<1>4. ASSUME Plainly(t), Plainly(u) PROVE t = u
  <2>1. t.of = <<>> /\ u.of = <<>> /\ t.sizes = <<>> /\ u.sizes = <<>>
    BY <1>4, TypesAre DEF Pointers
  <2>2. t.name = u.name
    BY <1>4, Nameless DEF Named
  <2> QED
    BY <1>4, <2>1, <2>2, SameType
<1> HIDE DEF none, Plainly
<1>5. \A v \in {t, u} : CanonicalSigType[v] # Then(Void, none)
  <2>1. ASSUME NEW v \in {t, u} PROVE CanonicalSigType[v] # Then(Void, none)
    <3>1. Before(CanonicalSigType[v], none) # Then(Void, none)
      BY <1>1, StartsOtherwise
    <3> QED
      BY <1>1, <1>3, <3>1
  <2> QED
    BY <2>1
<1>6. Plainly(t) <=> Plainly(u)
  BY <1>2, <1>5
<1>7. ASSUME ~Plainly(t), ~Plainly(u) PROVE t = u
  <2>1. CanonicalSigType[t] = CanonicalSigType[u]
    BY <1>2, <1>7
  <2>2. Before(CanonicalSigType[t], none) = Before(CanonicalSigType[u], none)
    BY <2>1
  <2> QED
    BY <1>1, <2>2, TypesTold DEF ToldApart
<1> QED
  BY <1>4, <1>6, <1>7

(* A method is its owner, "::", its name, and its parameters and result.   *)
LEMMA MethodSays ==
  ASSUME NEW owner \in Spellings, NEW name \in Tokens, NEW signature,
         signature.params \in Seq(SigTypes), signature.ret \in SigTypes
  PROVE  /\ CanonicalMethod(owner, name, signature)
              = Before(owner, Then(Colons, Then(name, Then(Paren,
                  Before(Joined(Canonicals(signature.params)), Then(Arrow, RetCanonical(signature.ret)))))))
         /\ Before(Joined(Canonicals(signature.params)), Then(Arrow, RetCanonical(signature.ret))) \in Spellings
<1> DEFINE j == Joined(Canonicals(signature.params))
           r == RetCanonical(signature.ret)
           o1 == Two(Colons, name)
           o2 == One(Paren)
           o3 == One(Arrow)
           o == <<Colons, name, Paren>>
<1>1. CanonicalMethod(owner, name, signature) = Before(Before(Before(Before(owner, o), j), o3), r)
  BY DEF CanonicalMethod, Canonicals, Colons, Paren, Arrow, One, Before
<1>2. o = Before(o1, o2)
  BY DEF One, Two, Before
<1>3. j \in Spellings /\ r \in Spellings /\ Colons \in Tokens /\ Paren \in Tokens /\ Arrow \in Tokens
  BY CanonicalsAre, JoinedWords, ReturnWords, MarksDiffer
<1>4. /\ o1 \in Spellings /\ o2 \in Spellings /\ o3 \in Spellings
      /\ \A a \in Spellings : Before(o1, a) = Then(Colons, Then(name, a)) /\ Before(o2, a) = Then(Paren, a) /\ Before(o3, a) = Then(Arrow, a)
                           /\ Then(Paren, a) \in Spellings /\ Then(Arrow, a) \in Spellings
  <2>1. ASSUME NEW a \in Spellings PROVE o1 \in Spellings /\ Before(o1, a) = Then(Colons, Then(name, a))
    BY <1>3, TwoSpelled
  <2>2. ASSUME NEW a \in Spellings, NEW x \in Tokens PROVE One(x) \in Spellings /\ Before(One(x), a) = Then(x, a) /\ Then(x, a) \in Spellings
    BY OneSpelled
  <2> HIDE DEF o1
  <2> QED
    BY <1>3, <2>1, <2>2
<1> HIDE DEF j, r, o1, o2, o3, o
<1>5. o \in Spellings /\ Before(owner, o) \in Spellings /\ Before(Before(owner, o), j) \in Spellings
  BY <1>2, <1>3, <1>4, Associates
<1>6. Before(Before(Before(Before(owner, o), j), o3), r) = Before(Before(Before(owner, o), j), Then(Arrow, r))
  BY <1>3, <1>4, <1>5, Associates
<1> DEFINE z == Then(Arrow, r)
           y == Before(j, z)
<1>7. z \in Spellings /\ y \in Spellings
  BY <1>3, <1>4, Associates
<1> HIDE DEF z
<1>8. Before(Before(Before(owner, o), j), z) = Before(Before(owner, o), y)
  BY <1>3, <1>5, <1>7, Associates
<1> HIDE DEF y
<1>9. Before(Before(owner, o), y) = Before(owner, Before(o, y))
  BY <1>5, <1>7, Associates
<1>10. Before(o, y) = Before(o1, Before(o2, y)) /\ Before(o2, y) \in Spellings
  BY <1>2, <1>4, <1>7, Associates
<1>11. Before(o, y) = Then(Colons, Then(name, Then(Paren, y)))
  BY <1>4, <1>7, <1>10
<1> QED
  BY <1>1, <1>6, <1>7, <1>8, <1>9, <1>11 DEF j, r, y, z

(* The names of the types around a type, and its namespace.                *)
LEMMA OwnersArePlain ==
  ASSUME file \in Files, NEW i
  PROVE  /\ QualifiedName(i) \in Spellings /\ Colons \notin ToSet(QualifiedName(i))
         /\ Namespace(i) # Colons
<1> DEFINE up == Around(i)
           Within(k) == k \in DOMAIN file.types
<1>1. PICK met \in 0..Len(file.types) :
        /\ Owners(i) = [k \in 1..met |-> up[met - k]]
        /\ \A k \in 0..(met - 1) : ~Ends(up, k)
  BY WalkEnds
<1>2. met \in Nat
  BY AroundWalks
<1> HIDE DEF up
<1>3. ASSUME NEW k \in 1..met PROVE Owners(i)[k] \in DOMAIN file.types
  <2>1. met - k \in 0..(met - 1)
    BY <1>2
  <2> QED
    BY <1>1, <2>1 DEF Ends
<1>4. \A j \in DOMAIN file.types : Plain(file.types[j].name) /\ Plain(file.types[j].ns)
  BY FileAssumption
<1>5. Colons \in Marks /\ \A name : Plain(name) => name \in Tokens /\ name # Colons
  BY MarksDiffer DEF Plain, Tokens
<1>6. DOMAIN Owners(i) = 1..met
  BY <1>1
<1>7. QualifiedName(i) = [k \in 1..met |-> file.types[Owners(i)[k]].name]
  BY <1>6 DEF QualifiedName
<1>8. \A k \in 1..met : file.types[Owners(i)[k]].name \in Tokens /\ file.types[Owners(i)[k]].name # Colons
  BY <1>3, <1>4, <1>5
<1>9. QualifiedName(i) \in Spellings /\ DOMAIN QualifiedName(i) = 1..met
  BY <1>2, <1>7, <1>8 DEF Spellings
<1>10. Colons \notin ToSet(QualifiedName(i))
  BY <1>7, <1>8 DEF ToSet
<1>11. Namespace(i) # Colons
  <2> DEFINE named == {k \in DOMAIN Owners(i) : file.types[Owners(i)[k]].ns # ""}
             first == CHOOSE k \in named : \A l \in named : k <= l
  <2>1. Namespace(i) = IF named = {} THEN "" ELSE file.types[Owners(i)[first]].ns
    BY Zenon DEF Namespace
  <2>2. named \in SUBSET Nat /\ named \subseteq 1..met
    <3>1. named \subseteq 1..met
      BY <1>6, Zenon
    <3> HIDE DEF named
    <3> QED
      BY <1>2, <3>1
  <2>3. "" # Colons
    BY Zenon DEF Colons
  <2> HIDE DEF named
  <2>4. ASSUME named # {} PROVE first \in 1..met
    BY <2>2, <2>4, MinIn
  <2>5. ASSUME named # {} PROVE file.types[Owners(i)[first]].ns # Colons
    <3> HIDE DEF first
    <3> QED
      BY <1>3, <1>4, <1>5, <2>4, <2>5
  <2> HIDE DEF first
  <2> QED
    BY <2>1, <2>3, <2>5, Zenon
<1> QED
  BY <1>9, <1>10, <1>11

MethodOf(x) == file.types[x.row[2]].methods[x.row[3]]

(* The symbol of a method, and what is known of its signature.             *)
LEMMA MethodsAre ==
  ASSUME ImportInv, NEW x \in ToSet(symbols), x.row[1] = "MethodDef", Readable(x.row)
  PROVE  /\ x.owner = QualifiedName(x.row[2])
         /\ x.canonical = IF MethodOf(x).signature = None
                          THEN <<"method", Namespace(x.row[2]), MethodOf(x).name, "unparsed">>
                          ELSE CanonicalMethod(QualifiedName(x.row[2]), MethodOf(x).name, MethodOf(x).signature[1])
         /\ MethodOf(x).name \in Tokens /\ MethodOf(x).name # Colons
         /\ MethodOf(x).signature # None
              => MethodOf(x).signature[1] \in [params : Seq(SigTypes), ret : SigTypes, varargs : BOOLEAN]
<1> DEFINE i == x.row[2]
           j == x.row[3]
           m == MethodOf(x)
<1>1. x = MethodSymbol(i, j)
  BY SymbolsAreOfRows DEF SymbolOf
<1>2. m = file.types[i].methods[j]
  BY DEF MethodOf
<1>3. /\ x.owner = QualifiedName(i)
      /\ x.canonical = IF m.signature = None THEN <<"method", Namespace(i), m.name, "unparsed">>
                       ELSE CanonicalMethod(QualifiedName(i), m.name, m.signature[1])
  <2> HIDE DEF m, i, j
  <2> QED
    BY <1>1, <1>2 DEF MethodSymbol, Symbol
<1>4. m \in Method /\ Plain(m.name)
  <2>1. PICK h \in Heads : x.row \in RowsOf(h)
    BY SymbolsAreOfRows
  <2>2. h[1] = "TypeDef" /\ x.row \in PartsOf(h[2])
    <3>1. x.row # h
      BY DEF Heads
    <3> QED
      BY <2>1, <3>1 DEF RowsOf
  <2>3. i = h[2] /\ j \in DOMAIN file.types[i].methods
    BY <2>2 DEF PartsOf
  <2>4. i \in DOMAIN file.types
    BY <2>2, <2>3 DEF Heads
  <2>5. file.types[i].methods \in Seq(Method) /\ Plain(file.types[i].methods[j].name)
    BY <2>3, <2>4, Forms DEF ImportInv
  <2> HIDE DEF i, j
  <2> QED
    BY <1>2, <2>3, <2>5, ElementOfSeq
<1>5. m.name \in Tokens /\ m.name # Colons
  <2>1. Plain(m.name) /\ Colons \in Marks
    BY <1>4, MarksDiffer
  <2> HIDE DEF m
  <2> QED
    BY <2>1 DEF Plain, Tokens
<1>6. m.signature # None => m.signature[1] \in [params : Seq(SigTypes), ret : SigTypes, varargs : BOOLEAN]
  <2>1. \A S, s : s \in Maybe(S) /\ s # None => s[1] \in S
    BY DEF Maybe, None
  <2>2. m.signature \in Maybe([params : Seq(SigTypes), ret : SigTypes, varargs : BOOLEAN])
    BY <1>4 DEF Method
  <2> HIDE DEF m
  <2> QED
    BY <2>1, <2>2
<1> QED
  BY <1>3, <1>5, <1>6


(* A method whose signature could not be read is told to be none that was. *)
LEMMA UnparsedApart ==
  ASSUME NEW owner \in Spellings, NEW c \in Spellings, NEW ns, NEW name, ns # Colons, name # Colons
  PROVE  Before(owner, Then(Colons, c)) # <<"method", ns, name, "unparsed">>
<1> DEFINE w == Before(owner, Then(Colons, c))
           z == Then(Colons, c)
           first == "method"
           last == "unparsed"
<1>1. first # Colons /\ last # Colons
  BY Zenon DEF Colons
<1>2. z \in Spellings /\ Len(z) = 1 + Len(c) /\ z[1] = Colons
  BY MarksDiffer, WordThen
<1>3. Len(owner) \in Nat /\ Len(c) \in Nat
  BY LenProperties DEF Spellings
<1> HIDE DEF z, first, last
<1>4. w[Len(owner) + 1] = Colons /\ Len(owner) + 1 \in 1..Len(w)
  <2>1. /\ Len(owner \o z) = Len(owner) + Len(z)
        /\ \A i \in 1..(Len(owner) + Len(z)) : (owner \o z)[i] = IF i <= Len(owner) THEN owner[i] ELSE z[i - Len(owner)]
    <3>1. owner \in Seq(Tokens) /\ z \in Seq(Tokens)
      BY <1>2 DEF Spellings
    <3> HIDE DEF w
    <3> QED
      BY <3>1, ConcatProperties
  <2>2. w = owner \o z
    BY DEF Before, z
  <2>3. Len(owner) + 1 \in 1..(Len(owner) + Len(z)) /\ ~(Len(owner) + 1 <= Len(owner)) /\ Len(owner) + 1 - Len(owner) = 1
    BY <1>2, <1>3
  <2> HIDE DEF w
  <2> QED
    BY <1>2, <2>1, <2>2, <2>3
<1> HIDE DEF w
<1>5. w # <<first, ns, name, last>>
  <2> SUFFICES ASSUME w = <<first, ns, name, last>> PROVE FALSE
    OBVIOUS
  <2>1. Len(w) = 4 /\ w[1] = first /\ w[2] = ns /\ w[3] = name /\ w[4] = last
    OBVIOUS
  <2> DEFINE k == Len(owner) + 1
  <2>2. k \in Nat /\ w[k] = Colons /\ k \in 1..Len(w)
    BY <1>3, <1>4
  <2> HIDE DEF k
  <2>3. k \in 1..4
    BY <2>1, <2>2
  <2>4. k = 1 \/ k = 2 \/ k = 3 \/ k = 4
    BY <2>2, <2>3
  <2>5. w[1] # Colons /\ w[2] # Colons /\ w[3] # Colons /\ w[4] # Colons
    BY <1>1, <2>1
  <2> QED
    BY <2>2, <2>4, <2>5
<1> QED
  BY <1>5 DEF w, first, last

(* No two methods with different parameters, results or owners share a     *)
(* canonical signature.                                                    *)
LEMMA IdentitiesAreTold ==
  ASSUME ImportInv
  PROVE  IdentityTellsApart
<1> SUFFICES ASSUME NEW s \in ToSet(symbols), NEW t \in ToSet(symbols),
                    s.row[1] = "MethodDef" /\ Readable(s.row), t.row[1] = "MethodDef" /\ Readable(t.row),
                    s.canonical = t.canonical, MethodOf(s).signature # None
             PROVE  /\ MethodOf(t).signature # None /\ s.owner = t.owner
                    /\ MethodOf(s).signature[1].params = MethodOf(t).signature[1].params
                    /\ MethodOf(s).signature[1].ret = MethodOf(t).signature[1].ret
  BY DEF IdentityTellsApart, MethodOf
<1> DEFINE os == QualifiedName(s.row[2])
           ot == QualifiedName(t.row[2])
           ns == MethodOf(s).name
           nt == MethodOf(t).name
           ss == MethodOf(s).signature[1]
           st == MethodOf(t).signature[1]
           js == Before(Joined(Canonicals(ss.params)), Then(Arrow, RetCanonical(ss.ret)))
           jt == Before(Joined(Canonicals(st.params)), Then(Arrow, RetCanonical(st.ret)))
           rest(n, j) == Then(n, Then(Paren, j))
<1>1. file \in Files
  BY DEF ImportInv
<1>2. /\ s.owner = os /\ t.owner = ot /\ ns \in Tokens /\ nt \in Tokens /\ nt # Colons
      /\ s.canonical = CanonicalMethod(os, ns, ss)
      /\ t.canonical = IF MethodOf(t).signature = None THEN <<"method", Namespace(t.row[2]), nt, "unparsed">>
                       ELSE CanonicalMethod(ot, nt, st)
      /\ ss \in [params : Seq(SigTypes), ret : SigTypes, varargs : BOOLEAN]
      /\ MethodOf(t).signature # None => st \in [params : Seq(SigTypes), ret : SigTypes, varargs : BOOLEAN]
  BY MethodsAre
<1>3. /\ os \in Spellings /\ ot \in Spellings /\ Colons \notin ToSet(os) /\ Colons \notin ToSet(ot)
      /\ Namespace(t.row[2]) # Colons
  BY <1>1, OwnersArePlain
<1>4. Colons \in Tokens /\ Paren \in Tokens /\ Arrow \in Tokens /\ Arrow \in Closers
  BY MarksDiffer DEF Closers
<1> HIDE DEF os, ot, ns, nt, ss, st
<1>5. ss.params \in Seq(SigTypes) /\ ss.ret \in SigTypes
  BY <1>2
<1>6. CanonicalMethod(os, ns, ss) = Before(os, Then(Colons, rest(ns, js))) /\ js \in Spellings
  BY <1>2, <1>3, <1>5, MethodSays
<1>7. \A n \in Tokens, j \in Spellings : Then(Paren, j) \in Spellings /\ rest(n, j) \in Spellings
  BY <1>4, WordThen
<1>8. MethodOf(t).signature # None
  <2> SUFFICES ASSUME MethodOf(t).signature = None PROVE FALSE
    OBVIOUS
  <2>1. Before(os, Then(Colons, rest(ns, js))) = <<"method", Namespace(t.row[2]), nt, "unparsed">>
    BY <1>2, <1>6
  <2>2. rest(ns, js) \in Spellings
    BY <1>2, <1>6, <1>7
  <2> HIDE DEF rest, js
  <2> QED
    BY <1>2, <1>3, <2>1, <2>2, UnparsedApart
<1>9. st.params \in Seq(SigTypes) /\ st.ret \in SigTypes
  BY <1>2, <1>8
<1>10. CanonicalMethod(ot, nt, st) = Before(ot, Then(Colons, rest(nt, jt))) /\ jt \in Spellings
  BY <1>2, <1>3, <1>9, MethodSays
<1>11. os = ot /\ rest(ns, js) = rest(nt, jt)
  <2>1. Before(os, Then(Colons, rest(ns, js))) = Before(ot, Then(Colons, rest(nt, jt)))
    BY <1>2, <1>6, <1>8, <1>10
  <2>2. rest(ns, js) \in Spellings /\ rest(nt, jt) \in Spellings
    BY <1>2, <1>6, <1>7, <1>10
  <2> HIDE DEF rest, js, jt
  <2> QED
    BY <1>3, <1>4, <2>1, <2>2, PrefixesCancel
<1>12. js = jt
  <2> HIDE DEF js, jt
  <2>1. Then(Paren, js) = Then(Paren, jt)
    BY <1>2, <1>6, <1>7, <1>10, <1>11, HeadsCancel
  <2> QED
    BY <1>4, <1>6, <1>10, <2>1, HeadsCancel
<1>13. ss.params = st.params /\ RetCanonical(ss.ret) = RetCanonical(st.ret)
  <2>1. \A i \in 1..Len(ss.params) : ToldApart(ss.params[i])
    BY <1>5, TypesTold
  <2>2. RetCanonical(ss.ret) \in Spellings /\ RetCanonical(st.ret) \in Spellings
    BY <1>5, <1>9, ReturnWords
  <2> DEFINE ps == ss.params
             pt == st.params
             rs == RetCanonical(ss.ret)
             rt == RetCanonical(st.ret)
  <2>3. /\ Before(Joined(Canonicals(ps)), Then(Arrow, rs)) = Before(Joined(Canonicals(pt)), Then(Arrow, rt))
        /\ ps \in Seq(SigTypes) /\ pt \in Seq(SigTypes) /\ rs \in Spellings /\ rt \in Spellings
        /\ \A i \in 1..Len(ps) : ToldApart(ps[i])
    BY <1>5, <1>9, <1>12, <2>1, <2>2
  <2> HIDE DEF ps, pt, rs, rt
  <2>4. ps = pt /\ rs = rt
    BY <1>4, <2>3, ListsApart
  <2> QED
    BY <2>4 DEF ps, pt, rs, rt
<1>14. ss.ret = st.ret
  BY <1>5, <1>9, <1>13, ReturnsApart
<1> QED
  BY <1>2, <1>8, <1>11, <1>13, <1>14 DEF ss, st

(* Whatever a file of metadata holds, each row that is reached becomes one *)
(* symbol that tells the truth about it, and no two declarations share the *)
(* fields that identities are made of.                                     *)
THEOREM InventoryIsAlwaysFaithful == Spec => []InventoryIsFaithful
<1>1. ImportInv => RowsAreInventoried
  BY RowsAreTold DEF RowsAreInventoried
<1>2. ImportInv => InventoryIsFaithful
  BY <1>1, IdentitiesAreTold DEF InventoryIsFaithful
<1> QED
  BY <1>2, ImportIsInductive, PTL

=============================================================================
