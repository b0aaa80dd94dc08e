----------------------------- MODULE Signatures -----------------------------
(***************************************************************************)
(* How the import of WinMD metadata (generator/internal/metadata/winmd.go) *)
(* projects a signature to Go types, and decides from the result what      *)
(* becomes of a function that a DLL exports.                               *)
(*                                                                         *)
(* A signature type is [element, of, modifiers, sizes, name]: the ECMA-335  *)
(* element type, the types it is made of (what it points to, its elements, *)
(* generic arguments, parameters and result), the custom modifiers before  *)
(* it, the sizes of an array's dimensions, and the type it names.  A Go    *)
(* type is a sequence of tokens, <<>> for none.                            *)
(***************************************************************************)
EXTENDS Naturals, Sequences, SequencesExt

CONSTANTS
  SafeDLLs,    \* names that are plain system DLL literals
  KernelDLLs,  \* names of modules that only the kernel loads
  SigTypes,    \* the types that signatures are made of
  Depth        \* Depth[t]: how deep the types within a type are nested

(* The element types with a projection of their own.                       *)
Primitive ==
  [VOID |-> <<>>, BOOLEAN |-> <<"uint8">>, CHAR |-> <<"uint16">>,
   I1 |-> <<"int8">>, U1 |-> <<"uint8">>, I2 |-> <<"int16">>, U2 |-> <<"uint16">>,
   I4 |-> <<"int32">>, U4 |-> <<"uint32">>, I8 |-> <<"int64">>, U8 |-> <<"uint64">>,
   R4 |-> <<"float32">>, R8 |-> <<"float64">>,
   I |-> <<"winabi.INT_PTR">>, U |-> <<"uintptr">>, STRING |-> <<"*", "uint16">>]

Pointers == {"PTR", "BYREF"}
Named == {"CLASS", "VALUETYPE"}

(* What stands between the parts of a canonical signature.                 *)
Marks == {"<", ">", ">>", ",", "(", ")->", "::", "array[", "]<", "void"}

(* What the reader of signatures returns: types nest to some depth, and    *)
(* have a name, sizes and types within them only where their element type  *)
(* has; none of their words is a mark, and a modifier no element type.     *)
ASSUME SigAssumption ==
  \A t \in SigTypes :
    /\ t \in [element : STRING, of : Seq(SigTypes), modifiers : Seq(STRING), sizes : Seq(STRING), name : STRING]
    /\ Depth[t] \in Nat
    /\ \A i \in DOMAIN t.of : Depth[t.of[i]] < Depth[t]
    /\ ({t.element, t.name} \cup ToSet(t.modifiers) \cup ToSet(t.sizes)) \cap Marks = {}
    /\ \A u \in SigTypes : t.element \notin ToSet(u.modifiers)
    /\ t.name # "" => t.element \in Named \cup {"GENERICINST"}
    /\ t.sizes # <<>> => t.element = "ARRAY" /\ t.of # <<>>
    /\ t.of # <<>> => t.element \in Pointers \cup {"ARRAY", "SZARRAY", "FNPTR", "GENERICINST"}
    /\ t.element = "ARRAY" => Len(t.of) <= 1

Kind(t) ==
  CASE t.element \in Pointers -> "pointer"
    [] t.element \in Named    -> "native-typedef"
    [] t.element = "ARRAY"    -> "fixed-array"
    [] OTHER -> "primitive"

(* inner is the projection of what t is a pointer to or an array of.       *)
GoType(t, inner) ==
  CASE t.element \in DOMAIN Primitive -> Primitive[t.element]
    [] t.element \in Named -> <<t.name>>
    [] t.element \in Pointers /\ inner # <<>> -> <<"*">> \o inner[1].go
    [] t.element = "ARRAY" /\ inner # <<>> /\ Len(t.sizes) = 1 -> <<"[n]">> \o inner[1].go
    [] OTHER -> <<"uintptr">>

(* Mutant: custom modifiers are read past.                                 *)
OpaqueUnmodified(t, inner) ==
  \/ t.element \notin DOMAIN Primitive \cup Pointers \cup Named \cup {"ARRAY"}
  \/ GoType(t, inner) = <<>>

(* A type is opaque when something about it was not understood.            *)
Opaque(t, inner) ==
  \/ t.modifiers # <<>>
  \/ t.element \notin DOMAIN Primitive \cup Pointers \cup Named \cup {"ARRAY"}
  \/ GoType(t, inner) = <<>>

ProjectSigType[t \in SigTypes] ==
  LET inner == [i \in DOMAIN t.of |-> ProjectSigType[t.of[i]]]
      go == GoType(t, inner)
  IN [kind |-> Kind(t), go |-> IF go = <<>> THEN <<"uintptr">> ELSE go, opaque |-> Opaque(t, inner),
      depth |-> IF t.element \in Pointers /\ inner # <<>> THEN inner[1].depth + 1 ELSE 0, of |-> inner]

ProjectRet(t) ==
  IF t.element = "VOID"
  THEN [kind |-> "primitive", go |-> <<>>, opaque |-> t.modifiers # <<>>, depth |-> 0, of |-> <<>>]
  ELSE ProjectSigType[t]

-----------------------------------------------------------------------------
(* The canonical signature, by which a symbol is identified, token by      *)
(* token.                                                                  *)
Joined(types) ==
  LET from[i \in 1..(Len(types) + 1)] ==
        IF i > Len(types) THEN <<>> ELSE (IF i = 1 THEN <<>> ELSE <<",">>) \o types[i] \o from[i + 1]
  IN from[1]

(* Mutant: what an array or a pointer is made of is left out.              *)
CanonicalElement(t, of) == <<t.element>> \o t.sizes \o <<t.name>>

CanonicalUnmodified(t, of) ==
  CASE t.element \in Named -> <<t.element, "<", t.name, ">">>
    [] t.element = "ARRAY" /\ of # <<>> -> <<"array[">> \o t.sizes \o <<"]<">> \o of[1] \o <<">">>
    [] t.element = "GENERICINST" -> <<t.element, "<", t.name, "<">> \o Joined(of) \o <<">>">>
    [] t.element \in Pointers \cup {"SZARRAY", "FNPTR"} /\ of # <<>> ->
         <<t.element, "<">> \o Joined(of) \o <<">">>
    [] OTHER -> <<t.element>>

CanonicalSigType[t \in SigTypes] ==
  t.modifiers \o CanonicalUnmodified(t, [i \in DOMAIN t.of |-> CanonicalSigType[t.of[i]]])

RetCanonical(t) ==
  IF t.element = "VOID" /\ t.modifiers = <<>> THEN <<"void">> ELSE CanonicalSigType[t]

CanonicalMethod(owner, name, signature) ==
  owner \o <<"::", name, "(">>
  \o Joined([i \in DOMAIN signature.params |-> CanonicalSigType[signature.params[i]]])
  \o <<")->">> \o RetCanonical(signature.ret)

-----------------------------------------------------------------------------
(* A function is [dll, entry, convention, varargs, params, ret,            *)
(* setLastError, optional]; without an import it has neither DLL nor entry *)
(* point.                                                                  *)
ProjectMethod(signature) ==
  [dll |-> "", entry |-> "", convention |-> "platform", varargs |-> signature.varargs,
   params |-> [i \in DOMAIN signature.params |-> ProjectSigType[signature.params[i]]],
   ret |-> ProjectRet(signature.ret), setLastError |-> FALSE, optional |-> FALSE]

UnparsedMethod ==
  [dll |-> "", entry |-> "", convention |-> "platform", varargs |-> FALSE, params |-> <<>>,
   ret |-> [kind |-> "primitive", go |-> <<"uintptr">>, opaque |-> FALSE, depth |-> 0, of |-> <<>>],
   setLastError |-> FALSE, optional |-> FALSE]

CallingConvention(flag) ==
  IF flag \in {"cdecl", "stdcall", "thiscall", "fastcall"} THEN flag ELSE "platform"

Types(fn) == {fn.ret} \cup ToSet(fn.params)

(* capability: the backend that could make the call.  No projected type is *)
(* an aggregate by value, which only a bridge could pass.                  *)
Capability(fn) ==
  IF fn.varargs \/ fn.convention \in {"vectorcall", "thiscall"} THEN "cgo-bridge"
  ELSE IF \E t \in Types(fn) : t.go \in {<<"float32">>, <<"float64">>} THEN "purego-syscall-float"
  ELSE "purego-syscall"

PointerABI(t) == t.kind = "pointer" \/ t.depth > 0 \/ (t.go # <<>> /\ Head(t.go) = "*")

WideScalar(t) == t.kind = "primitive" /\ t.depth = 0 /\ t.go \in {<<"int64">>, <<"uint64">>}

Words == {<<"int8">>, <<"uint8">>, <<"int16">>, <<"uint16">>, <<"int32">>, <<"uint32">>,
          <<"uintptr">>, <<"winabi.INT_PTR">>, <<"*", "uint16">>}

(* Through the pointers, of which a type has as many as its depth.         *)
SafePointerElement(t) ==
  LET element[k \in 0..t.depth] == IF k = 0 THEN t ELSE element[k - 1].of[1]
  IN /\ \A k \in 0..t.depth : ~element[k].opaque
     /\ element[t.depth].kind = "primitive"
     /\ element[t.depth].go \in Words \cup {<<>>, <<"int64">>, <<"uint64">>}

SafeWordType(t, allowVoid) ==
  /\ ~t.opaque
  /\ IF t.kind = "pointer" THEN t.of # <<>> /\ SafePointerElement(t.of[1])
     ELSE t.kind = "primitive" /\ (t.go \in Words \/ (t.go = <<>> /\ allowVoid))

(* Mutant: the calling convention is not looked at.                        *)
SafeUnderAnyConvention(fn) ==
  /\ fn.entry # "" /\ fn.dll \in SafeDLLs
  /\ SafeWordType(fn.ret, TRUE)
  /\ \A t \in ToSet(fn.params) : SafeWordType(t, FALSE)

SafePureGoPInvoke(fn) ==
  /\ fn.entry # "" /\ fn.dll \in SafeDLLs
  /\ fn.convention \in {"platform", "stdcall"}
  /\ SafeWordType(fn.ret, TRUE)
  /\ \A t \in ToSet(fn.params) : SafeWordType(t, FALSE)

(* What becomes of an import, the first reason that applies.               *)
ImportStatus(fn, parsed, source) ==
  IF ~parsed THEN "source-parse-error"
  ELSE IF source = "wdk-winmd" /\ fn.dll \in KernelDLLs THEN "kernel-mode-only"
  ELSE IF Capability(fn) # "purego-syscall" THEN "unsupported-go-abi"
  ELSE IF \E t \in Types(fn) : PointerABI(t) THEN "unsupported-projection"
  ELSE IF \E t \in Types(fn) : WideScalar(t) THEN "unsupported-go-abi"
  ELSE IF SafePureGoPInvoke(fn) THEN "generated-purego" ELSE "unsupported-projection"
=============================================================================
