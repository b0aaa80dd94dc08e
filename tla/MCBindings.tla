----------------------------- MODULE MCBindings -----------------------------
(* A small instance of Bindings: files with one imported function of every *)
(* signature over the element types, files whose types nest, list members  *)
(* and have rows that cannot be decoded, and the fixture alone.            *)
EXTENDS Bindings

MCSafeDLLs == {"kernel32.dll", "hal.dll"}
MCKernelDLLs == {"hal.dll", "ntoskrnl.exe"}

-----------------------------------------------------------------------------
T(element) ==
  [element |-> element, of |-> <<>>, modifiers |-> <<>>, sizes |-> <<>>,
   name |-> IF element \in Named \cup {"GENERICINST"} THEN "Named" ELSE ""]
Modified(t) == [t EXCEPT !.modifiers = <<"modreq">>]
Of(element, t, sizes) == [T(element) EXCEPT !.of = <<t>>, !.sizes = sizes]

Simples == {T(e) : e \in DOMAIN Primitive \cup {"OBJECT", "SZARRAY", "GENERICINST", "FNPTR", "CLASS", "VALUETYPE"}}
MCSigTypes ==
  Simples \cup {Modified(T("U4")), Modified(T("VOID")), Of("PTR", T("VOID"), <<>>), Of("PTR", T("U4"), <<>>),
              Of("BYREF", T("U1"), <<>>), Of("PTR", T("CHAR"), <<>>), Of("PTR", Of("PTR", T("CHAR"), <<>>), <<>>), [T("CLASS") EXCEPT !.name = "Other"],
              Of("SZARRAY", T("U1"), <<>>), Of("GENERICINST", T("U4"), <<>>), Of("FNPTR", T("VOID"), <<>>), Modified(Of("PTR", T("U4"), <<>>)),
              Of("PTR", Modified(T("U4")), <<>>), Of("ARRAY", T("U4"), <<"4">>), Of("ARRAY", T("U1"), <<"4">>), Of("ARRAY", T("U1"), <<"2", "2">>)}

MCDepth == [t \in MCSigTypes |-> IF t.of = <<>> THEN 0 ELSE IF t.of[1].of = <<>> THEN 1 ELSE 2]

Signature(params, ret, varargs) == <<[params |-> params, ret |-> ret, varargs |-> varargs]>>

Signatures == {Signature(<<p>>, r, FALSE) : p, r \in MCSigTypes} \cup {Signature(<<T("I"), p>>, T("VOID"), FALSE) : p \in MCSigTypes}
SomeSignatures ==
  {None} \cup {Signature(<<p>>, T("I4"), v) : p \in {T("U4"), T("R4"), T("U8"), T("STRING")}, v \in BOOLEAN}

Import0(dll, convention) == <<[dll |-> dll, entry |-> "Entry", convention |-> convention, setLastError |-> convention # "stdcall"]>>
Method0(signature, import) == [readable |-> TRUE, name |-> "Call", signature |-> signature, import |-> import]

Type0(name, ns, methods) ==
  [readable |-> TRUE, name |-> name, ns |-> ns, interface |-> FALSE, extends |-> "", fields |-> <<>>, methods |-> methods]

File(source, types) ==
  [source |-> source, winrt |-> {"Windows.UI"}, types |-> types, enclosing |-> <<>>, members |-> <<>>, maps |-> <<>>, generics |-> <<>>]

Calls ==
  {File("winmd", <<Type0("Apis", "Win32", <<Method0(s, Import0("kernel32.dll", "platform"))>>)>>) : s \in Signatures}
  \cup {File(source, <<Type0("Apis", "Win32", <<Method0(s, Import0(dll, convention))>>)>>) :
          s \in SomeSignatures, source \in {"winmd", "wdk-winmd"},
          dll \in {"", "kernel32.dll", "hal.dll", "ntoskrnl.exe", "../kernel32.dll"},
          convention \in {"platform", "cdecl", "stdcall", "thiscall", "fastcall"}}

-----------------------------------------------------------------------------
WordCall == Method0(Signature(<<T("U4")>>, T("I4"), FALSE), Import0("kernel32.dll", "platform"))
MethodLists == {<<>>, <<WordCall, Method0(None, <<>>)>>, <<[WordCall EXCEPT !.readable = FALSE], WordCall>>}

FieldLists ==
  {<<>>, <<[readable |-> TRUE, name |-> "f", type |-> <<T("U4")>>, literal |-> TRUE, value |-> TRUE],
           [readable |-> FALSE, name |-> "g", type |-> None, literal |-> FALSE, value |-> FALSE],
           [readable |-> TRUE, name |-> "h", type |-> None, literal |-> FALSE, value |-> FALSE]>>}

\* The first type is the outermost; a nested type has no namespace.
Outer == {[Type0("Outer", ns, m) EXCEPT !.interface = i] : ns \in {"Win32", "Windows.UI"}, m \in MethodLists, i \in BOOLEAN}
         \cup {[Type0("Outer", "Win32", <<>>) EXCEPT !.extends = e] : e \in {"System.Enum", "System.ValueType", "System.MulticastDelegate"}}
         \cup {[Type0("Outer", "", <<WordCall>>) EXCEPT !.readable = FALSE], Type0("<Module>", "", <<WordCall>>)}
Inner == {[Type0("Inner", "", m) EXCEPT !.fields = f] : f \in FieldLists, m \in MethodLists}
Innermost == {Type0("Innermost", "", <<WordCall>>)}

Nestings == {2 :> 1 @@ 3 :> 2, 2 :> 1 @@ 3 :> 1, 2 :> 3 @@ 3 :> 1, 2 :> 3 @@ 3 :> 2}

Nested ==
  {[File("winmd", <<o, i, n>>) EXCEPT !.enclosing = e] : o \in Outer, i \in Inner, n \in Innermost, e \in Nestings}

Listed ==
  {[File("winmd", <<Type0("Outer", "Win32", <<>>), Type0("Inner", "", <<>>)>>) EXCEPT !.enclosing = 2 :> 1,
      !.members = <<[readable |-> r, kind |-> "property", name |-> "p"], [readable |-> TRUE, kind |-> "event", name |-> "e"]>>,
      !.maps = <<[readable |-> a, parent |-> 1, members |-> m], [readable |-> TRUE, parent |-> 2, members |-> {2}]>>,
      !.generics = <<[readable |-> g, name |-> "T"]>>] :
     r, a, g \in BOOLEAN, m \in SUBSET {1, 2}}

\* Two methods of one name, in one type or in two.
Overloads ==
  LET m(ps, r) == Method0(Signature(ps, r, FALSE), <<>>)
  IN {File("winmd", <<Type0("Apis", "Win32", <<m(<<p>>, T("VOID")), m(<<q>>, T("VOID"))>>)>>) : p, q \in MCSigTypes}
     \cup {File("winmd", <<Type0("Apis", "Win32", <<m(<<>>, p), m(<<T("U4")>>, q)>>)>>) : p, q \in MCSigTypes}
     \cup {File("winmd", <<Type0(a, "Win32", <<m(<<>>, p)>>), Type0(b, "Win32", <<m(<<>>, p), Method0(None, <<>>)>>)>>) :
              a, b \in {"Apis", "Other"}, p \in MCSigTypes}

MCFiles == Calls \cup Overloads \cup Nested \cup Listed \cup {File("winmd", <<>>)}

-----------------------------------------------------------------------------
\* A fixture with one symbol of each form in generator/testdata/e2e/source.json.
F(i, kind, status, type, function) ==
  [row |-> <<"fixture", i>>, source |-> "project-fixture", ns |-> "Win32", kind |-> kind, name |-> <<kind>>, owner |-> <<>>,
   arch |-> Neutral, status |-> status, type |-> type, constant |-> FALSE, function |-> function, slot |-> None]

Simple == [bits |-> <<>>, layouts |-> <<>>, views |-> <<>>]
Kinds == <<"primitive", "native-typedef", "handle", "guid", "struct", "fixed-array", "flexible-array", "callback",
           "com-interface", "runtime-class">>
Bit(name, offset, width, signed) == [name |-> name, offset |-> offset, width |-> width, signed |-> signed]
Sample == [Simple EXCEPT !.bits = <<Bit("Enabled", 0, 1, FALSE), Bit("Mode", 1, 2, FALSE), Bit("SignedDelta", 3, 2, TRUE)>>]
\* A pointer beside the halves of a word, and behind it a byte.
Pair == [Simple EXCEPT
  !.layouts = [i \in 1..3 |-> LET arch == <<"386", "amd64", "arm64">>[i]
                                  width == IF arch = "386" THEN 2 ELSE 4
                              IN [arch |-> arch, size |-> width + 1, alignment |-> 2 * width, offsets |-> [Pointer |-> 0, High |-> width - 1, Tag |-> width]]],
  !.views = [Pointer |-> [arch \in Architectures |-> IF arch = "386" THEN 2 ELSE 4],
             High |-> [arch \in Architectures |-> 1], Tag |-> [arch \in Architectures |-> 1]]]
\* LARGE_INTEGER, two bytes to a byte.
Large == [Simple EXCEPT
  !.layouts = [i \in 1..3 |-> [arch |-> <<"386", "amd64", "arm64">>[i], size |-> 4, alignment |-> 8,
                               offsets |-> [QuadPart |-> 0, LowPart |-> 0, HighPart |-> 2]]],
  !.views = [v \in {"QuadPart", "LowPart", "HighPart"} |-> [arch \in Architectures |-> IF v = "QuadPart" THEN 4 ELSE 2]]]
Function0 == <<[optional |-> FALSE]>>

MCFixture ==
  {F(i, Kinds[i], "generated-type-only", <<Simple>>, None) : i \in DOMAIN Kinds}
  \cup {[F(20 + i, "struct", "generated-type-only", <<Simple>>, None) EXCEPT !.arch = <<"386", "amd64", "arm64">>[i]] : i \in 1..3}
  \cup {F(30, "struct", "generated-type-only", <<Sample>>, None), F(31, "union", "generated-type-only", <<Pair>>, None), F(32, "union", "generated-type-only", <<Large>>, None)}
  \cup {F(40, "function", "generated-purego", None, Function0), F(41, "function", "generated-purego", None, <<[optional |-> TRUE]>>),
        F(42, "function", "unsupported-go-abi", None, Function0),
        [F(43, "function", "generated-cgo-bridge", None, Function0) EXCEPT !.name = <<"FixtureStructByValue">>]}
=============================================================================
