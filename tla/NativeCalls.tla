----------------------------- MODULE NativeCalls -----------------------------
(***************************************************************************)
(* One native call, from the Go function that makes it (src/runtime/winabi,*)
(* com, winrt, src/bindings/win32 and the wrappers the emitter writes) to  *)
(* what its caller is told: a status, a Boolean with a last error, a value *)
(* or a Go error.  LazyProc has how a procedure is found, NativeOwnership  *)
(* who frees what a call returned.                                         *)
(*                                                                         *)
(* A native procedure leaves a machine word, of which only the lower half  *)
(* is defined on 64 bits when the C type has 32, a last error, and what it *)
(* wrote through its pointers.  Widths are scaled: a byte has Byte values,  *)
(* 32 bits are four bytes.                                                 *)
(***************************************************************************)
EXTENDS Integers, Sequences, FiniteSets, SequencesExt

CONSTANTS
    Byte,        \* how many values a byte has: 256, in a run fewer
    GuidSize,    \* the size of a GUID, scaled with the address space
    LastErrors,  \* the last errors a native procedure may leave
    Counts       \* the lengths and counters a native procedure may write


VARIABLES
    native,  \* the call: function, target, and what the native side has
    told     \* what the Go function returned

calls == <<native, told>>

Half == Byte * Byte * Byte * Byte
Word(target) == IF target = "x386" THEN Half ELSE Half * Half
Addresses(target) == Word(target)

\* A byte has a sign bit; what is counted fits 64 bits.
ASSUME WidthAssumption ==
    /\ Byte \in Nat \ {0} /\ Byte % 2 = 0 /\ GuidSize \in Nat \ {0}
    /\ Counts \subseteq 0..(Half * Half - 1)

NoNative == [fn |-> "none"]
NotTold == [error |-> ""]
NULL == 0

\* winabi.HRESULT and LastError, scaled: the failures are the negative ones.
E_NOTIMPL == -8
E_NOINTERFACE == -7
E_POINTER == -6
E_FAIL == -5
E_INVALIDARG == -4
ERROR_SUCCESS == 0
ERROR_PROC_NOT_FOUND == 3
NoLastError == -1    \* ErrNativeFailureWithoutLastError

\* A plausible slip: the whole register is the status.
Int32OfWord(word) == IF word >= Half \div 2 /\ word < Half THEN word - Half ELSE word

\* int32(uint32(R1)) and uint32(R1)
Int32(word) == LET low == word % Half IN IF low >= Half \div 2 THEN low - Half ELSE low
UInt32(word) == word % Half

Failed(status) == status < 0

-----------------------------------------------------------------------------
(***************************************************************************)
(* c is the call: `target` its build, "other" not Windows; `there` whether *)
(* the procedure was found, or the slot of the vtable is not zero; `ok`    *)
(* whether the arguments, or the object and its vtable, are not nil; then  *)
(* what the native procedure leaves if it runs: r1, last, and `out`.       *)
(***************************************************************************)
Reached(error) == [error |-> error, r1 |-> 0, last |-> 0]

CallAddress(c) ==
    CASE ~c.there -> Reached("no address")
      [] c.there /\ c.target = "other" -> Reached("unsupported")
      [] c.there /\ c.target # "other" -> [error |-> "", r1 |-> c.r1, last |-> c.last]

TryCall(c) ==
    CASE c.target = "other" -> Reached("unsupported")
      [] c.target # "other" /\ ~c.there -> Reached("not found")
      [] c.target # "other" /\ c.there -> CallAddress(c)

\* Proc.Call: every error is one last error, and a zero result.
Call(c) ==
    LET x == TryCall(c)
    IN  IF x.error # "" THEN [r1 |-> 0, last |-> ERROR_PROC_NOT_FOUND] ELSE [r1 |-> x.r1, last |-> x.last]

\* A plausible slip: a last error that was left behind decides.
ErrorIfFalseByLast(result, last) ==
    IF last # ERROR_SUCCESS THEN last ELSE IF result # 0 THEN ERROR_SUCCESS ELSE NoLastError

\* ErrorIfFalse and ErrorIfZero: nil is ERROR_SUCCESS.
ErrorIfFalse(result, last) ==
    IF result # 0 THEN ERROR_SUCCESS ELSE IF last = ERROR_SUCCESS THEN NoLastError ELSE last

ErrorIfZero(result, last) == ErrorIfFalse(result, last)

ErrorIfInvalidHandle(result, last, target) ==
    IF result # Word(target) - 1 THEN ERROR_SUCCESS
    ELSE IF last = ERROR_SUCCESS THEN NoLastError ELSE last

\* A plausible slip: only the count is compared, not the bytes.
CheckedCount(count, size, target) == count <= Addresses(target) \div 2 - 1

\* CheckedSliceLength: the count fits an int and its bytes the address space.
CheckedSliceLength(count, size, target) ==
    count <= Addresses(target) \div 2 - 1 /\ count <= (Addresses(target) - 1) \div size

-----------------------------------------------------------------------------
(***************************************************************************)
(* LARGE_INTEGER: two halves on 386, one 64-bit number elsewhere; and the  *)
(* unsigned one, which on 386 is bytes.                                    *)
(***************************************************************************)
Wide == Half * Half
Signed64(n) == IF n >= Wide \div 2 THEN n - Wide ELSE n
Unsigned64(n) == n % Wide

SetInt64(n, target) ==
    IF target = "x386" THEN <<Unsigned64(n) % Half, Unsigned64(n) \div Half>> ELSE <<n>>
SetParts(low, high, target) ==
    IF target = "x386" THEN <<low, high % Half>> ELSE <<Signed64(low + (high % Half) * Half)>>

Int64(v, target) == IF target = "x386" THEN Signed64(v[1] + v[2] * Half) ELSE v[1]
LowPart(v, target) == IF target = "x386" THEN v[1] ELSE Unsigned64(v[1]) % Half
HighPart(v, target) == IF target = "x386" THEN Int32(v[2]) ELSE Int32(Unsigned64(v[1]) \div Half)

\* ULARGE_INTEGER: bytes, the lowest first, or one number.
PutUint32(n) == <<n % Byte, (n \div Byte) % Byte, (n \div (Byte * Byte)) % Byte, n \div (Byte * Byte * Byte)>>
PutUint64(n) == PutUint32(n % Half) \o PutUint32(n \div Half)
Uint32At(b, i) == b[i] + b[i + 1] * Byte + b[i + 2] * (Byte * Byte) + b[i + 3] * (Byte * Byte * Byte)
GetUint64(b) == Uint32At(b, 1) + Uint32At(b, 5) * Half

SetUint64(n, target) == IF target = "x386" THEN PutUint64(n) ELSE <<n>>
SetHalves(low, high, target) ==
    IF target = "x386" THEN PutUint32(low) \o PutUint32(high) ELSE <<low + high * Half>>

Uint64(v, target) == IF target = "x386" THEN GetUint64(v) ELSE v[1]
Low(v, target) == IF target = "x386" THEN Uint32At(v, 1) ELSE v[1] % Half
High(v, target) == IF target = "x386" THEN Uint32At(v, 5) ELSE (v[1] \div Half) % Half

\* A plausible slip: the base is rounded down.
AlignedDown(base) == base - (base % 8)

\* The scratch of 15 bytes on the stack, and the 8 of them that are aligned.
AlignedScratch(base) == ((base + 7) \div 8) * 8

(***************************************************************************)
(* queryPerformanceCounterNative and QueryPerformanceCounter.  On 386 the  *)
(* counter is copied from the scratch, and only after success; elsewhere   *)
(* the native side writes into the value itself.                           *)
(***************************************************************************)
QueryPerformanceCounter(c) ==
    LET x == TryCall(c)
        copied == IF c.target = "x386"
                  THEN x.error = "" /\ x.r1 # 0
                  ELSE x.error = "" /\ c.writes
    IN  [bool |-> IF x.error # "" THEN 0 ELSE Int32(x.r1),
         last |-> IF x.error # "" THEN ERROR_PROC_NOT_FOUND ELSE x.last,
         given |-> CASE ~c.value -> NULL
                     [] c.value /\ c.target = "x386" -> AlignedScratch(c.base)
                     [] c.value /\ c.target # "x386" -> c.base,
         value |-> IF copied THEN SetInt64(Signed64(c.out), c.target) ELSE SetInt64(0, c.target)]

\* VirtualFree, CloseHandle and EnumSystemLocalesEx
BoolCall(c) ==
    LET x == TryCall(c)
    IN  IF x.error # "" THEN [bool |-> 0, last |-> ERROR_PROC_NOT_FOUND]
        ELSE [bool |-> Int32(x.r1), last |-> x.last]

\* VirtualAlloc and GetModuleHandleW
WordCall(c) ==
    LET x == TryCall(c)
    IN  IF x.error # "" THEN [word |-> 0, last |-> ERROR_PROC_NOT_FOUND]
        ELSE [word |-> x.r1, last |-> x.last]

\* GetCurrentProcessId and GetCurrentThreadId
IdCall(c) == LET x == TryCall(c) IN [id |-> IF x.error # "" THEN 0 ELSE UInt32(x.r1)]

\* GetSystemTimePreciseAsFileTime
OptionalCall(c) == [done |-> TryCall(c).error = ""]

-----------------------------------------------------------------------------
\* A method of a vtable: a nil object is E_POINTER, an empty slot is `absent`.
Slot(c, absent) ==
    IF ~c.ok THEN E_POINTER
    ELSE IF ~c.there THEN absent
    ELSE IF CallAddress(c).error # "" THEN E_NOTIMPL ELSE Int32(CallAddress(c).r1)

\* A flat function of a DLL: its arguments are refused with `refusal`.
Flat(c, refusal) ==
    IF ~c.ok THEN refusal
    ELSE IF TryCall(c).error # "" THEN E_NOTIMPL ELSE Int32(TryCall(c).r1)

OnSuccess(status, c) == [status |-> status, object |-> IF Failed(status) THEN NULL ELSE c.out]

QueryInterface(c) == [status |-> Slot(c, E_NOINTERFACE)]

\* AddRef and Release
Count(c) == [count |-> IF ~c.ok \/ ~c.there \/ CallAddress(c).error # "" THEN 0 ELSE UInt32(c.r1)]

CreateInstance(c) == [status |-> Flat(c, E_POINTER)]
CreateIUnknown(c) == OnSuccess(CreateInstance(c).status, c)
Initialize(c) == [status |-> Flat(c, E_POINTER)]
FactoryActivate(c) == OnSuccess(Slot(c, E_POINTER), c)
RuntimeClassName(c) == OnSuccess(Slot(c, E_POINTER), c)

\* What the method wrote, be it a success or not; nothing if it did not run.
GetTrustLevel(c) ==
    [status |-> Slot(c, E_POINTER),
     trust |-> IF c.ok /\ c.there /\ CallAddress(c).error = "" THEN c.out ELSE 0]

\* GetActivationFactory and ActivateInstance: a class name, then an HSTRING of
\* it, whose own error is not kept, then the call.
ByClassName(c) ==
    OnSuccess(IF c.ok /\ ~c.name THEN E_NOTIMPL ELSE Flat(c, E_INVALIDARG), c)

IIDs(c) ==
    LET status == Slot(c, E_POINTER)
        wrong == ~Failed(status) /\ c.count # 0
                   /\ (c.out = NULL \/ ~CheckedSliceLength(c.count, GuidSize, c.target))
    IN  [status |-> IF wrong THEN E_FAIL ELSE status,
         count |-> IF Failed(status) \/ wrong THEN 0 ELSE c.count]

-----------------------------------------------------------------------------
\* NewHString: an error of the call, or its status; NULL is the empty string.
NewHString(c) ==
    LET x == TryCall(c)
    IN  IF x.error # "" THEN [error |-> x.error, owned |-> NULL, status |-> 0]
        ELSE IF Failed(Int32(x.r1)) THEN [error |-> "status", owned |-> NULL, status |-> Int32(x.r1)]
        ELSE [error |-> "", owned |-> c.out, status |-> 0]

\* NewBSTR and AllocTaskMemory: no memory is an error, unless it is task memory
\* and none was asked for.
Allocate(c) ==
    LET x == TryCall(c)
    IN  IF x.error # "" THEN [error |-> x.error, owned |-> NULL]
        ELSE IF x.r1 = NULL /\ ~(c.kind = "memory" /\ c.empty) THEN [error |-> "out of memory", owned |-> NULL]
        ELSE [error |-> "", owned |-> x.r1]

\* BSTR.String and HString.String: the native length of a live string.
ReadString(c, length, empty) ==
    LET x == TryCall(c)
    IN  IF ~c.ok THEN [error |-> "", length |-> 0]
        ELSE IF x.error # "" THEN [error |-> x.error, length |-> 0]
        ELSE IF empty THEN [error |-> "", length |-> 0]
        ELSE IF ~CheckedSliceLength(length, 2, c.target) THEN [error |-> "length", length |-> 0]
        ELSE [error |-> "", length |-> length]

BstrString(c) == ReadString(c, UInt32(c.r1), FALSE)
HStringString(c) == ReadString(c, c.count, c.r1 = NULL \/ c.count = 0)

(***************************************************************************)
(* The wrapper the emitter writes for an import: the result in its Go type,*)
(* and the last error if the metadata has it.                              *)
(***************************************************************************)
Returned(ret, word) ==
    CASE ret = "none" -> 0
      [] ret = "int32" -> Int32(word)
      [] ret \in {"uintptr", "pointer"} -> word

EmittedCall(c) ==
    LET x == Call(c)
    IN  [value |-> Returned(c.ret, x.r1), last |-> IF c.setLastError THEN x.last ELSE ERROR_SUCCESS]

-----------------------------------------------------------------------------
InitCalls == native = NoNative /\ told = NotTold

Windows == {"x386", "amd64"}
Targets == Windows \cup {"other"}

\* What a procedure may leave: any word, any last error, NULL or an object.
Base(fn, target) ==
    [fn : {fn}, target : {target}, ok : BOOLEAN, there : BOOLEAN,
     r1 : 0..(Word(target) - 1), last : LastErrors, out : {NULL, 1}]

\* A call that says more of itself.
Further(c, more) == [x \in DOMAIN c \cup DOMAIN more |-> IF x \in DOMAIN more THEN more[x] ELSE c[x]]

Idling == native = NoNative

Make(c, answer) == native' = c /\ told' = answer

\* Functions of the DLLs, present only in builds for Windows.
CallKernel ==
    /\ Idling
    /\ \E target \in Windows : \E c \in Base("bool", target) : c.ok /\ c.out = NULL /\
           \/ Make(c, BoolCall(c))
           \/ Make([c EXCEPT !.fn = "word"], WordCall(c))
           \/ Make([c EXCEPT !.fn = "id"], IdCall(c))
           \/ Make([c EXCEPT !.fn = "optional"], OptionalCall(c))

CallCounter ==
    /\ Idling
    /\ \E target \in Windows : \E c \in Base("counter", target) : c.ok /\ c.out = NULL /\
         \E base \in 8..15, value \in BOOLEAN, count \in Counts, writes \in BOOLEAN :
           /\ target = "amd64" => base % 8 = 0
           /\ Int32(c.r1) # 0 => writes
           /\ LET d == Further(c, [base |-> base, value |-> value, out |-> count, writes |-> writes])
              IN  Make(d, QueryPerformanceCounter(d))

CallCom ==
    /\ Idling
    /\ \E target \in Targets : \E c \in Base("QueryInterface", target) : c.last = ERROR_SUCCESS /\
           \/ c.out = NULL /\ Make(c, QueryInterface(c))
           \/ c.out = NULL /\ Make([c EXCEPT !.fn = "Count"], Count(c))
           \/ Make([c EXCEPT !.fn = "CreateIUnknown"], CreateIUnknown(c))
           \/ c.ok /\ c.out = NULL /\ Make([c EXCEPT !.fn = "Initialize"], Initialize(c))

CallWinRT ==
    /\ Idling
    /\ \E target \in Targets : \E c \in Base("Activate", target) : c.last = ERROR_SUCCESS /\
           \/ Make(c, FactoryActivate(c))
           \/ Make([c EXCEPT !.fn = "RuntimeClassName"], RuntimeClassName(c))
           \/ Make([c EXCEPT !.fn = "GetTrustLevel"], GetTrustLevel(c))
           \/ \E name \in BOOLEAN :
                LET d == Further(c, [fn |-> "ByClassName", name |-> name]) IN Make(d, ByClassName(d))
           \/ \E count \in Counts \cap 0..(Half - 1) :
                LET d == Further(c, [fn |-> "IIDs", count |-> count]) IN Make(d, IIDs(d))

CallOwner ==
    /\ Idling
    /\ \E target \in Targets : \E c \in Base("NewHString", target) : c.last = ERROR_SUCCESS /\
           \/ c.ok /\ Make(c, NewHString(c))
           \/ \E kind \in {"bstr", "memory"}, empty \in BOOLEAN :
                LET d == Further(c, [fn |-> "Allocate", kind |-> kind, empty |-> empty])
                IN  c.ok /\ c.out = NULL /\ Make(d, Allocate(d))
           \/ c.out = NULL /\ Make([c EXCEPT !.fn = "BstrString"], BstrString(c))
           \/ \E count \in Counts \cap 0..(Half - 1) :
                LET d == Further(c, [fn |-> "HStringString", count |-> count])
                IN  c.out = NULL /\ Make(d, HStringString(d))

CallEmitted ==
    /\ Idling
    /\ \E target \in Windows : \E c \in Base("emitted", target) : c.ok /\ c.out = NULL /\
         \E ret \in {"none", "int32", "uintptr", "pointer"}, setLastError \in BOOLEAN :
           LET d == Further(c, [ret |-> ret, setLastError |-> setLastError]) IN Make(d, EmittedCall(d))

\* A program sets a ULARGE_INTEGER as a whole or by its halves, and reads it.
UseUnsigned ==
    /\ Idling
    /\ \E target \in Windows, count \in Counts, halves \in BOOLEAN :
         LET v == IF halves THEN SetHalves(count % Half, count \div Half, target) ELSE SetUint64(count, target)
         IN  Make([fn |-> "unsigned", target |-> target, count |-> count],
                  [whole |-> Uint64(v, target), low |-> Low(v, target), high |-> High(v, target)])

\* The caller goes on.
Return == native # NoNative /\ native' = NoNative /\ told' = NotTold

NextCall == CallKernel \/ CallCounter \/ CallCom \/ CallWinRT \/ CallOwner \/ CallEmitted \/ UseUnsigned \/ Return

SpecCalls == InitCalls /\ [][NextCall]_calls
-----------------------------------------------------------------------------
(***************************************************************************)
(* What really happened, said on the words: the native procedure ran, and  *)
(* its own result is a failure.                                            *)
(***************************************************************************)
Ran(c) == c.ok /\ c.there /\ c.target # "other"
Negative(word) == word % Half >= Half \div 2
Zero(word) == word % Half = 0
Fits(count, size, target) == count * size < Addresses(target) /\ 2 * count < Addresses(target)

\* A status: the native one with its success codes, or an error of the binding's.
StatusIsTold(c, t) ==
    LET spoilt == \/ c.fn = "ByClassName" /\ ~c.name
                  \/ c.fn = "IIDs" /\ c.count # 0 /\ (c.out = NULL \/ ~Fits(c.count, GuidSize, c.target))
    IN  /\ Failed(t.status) <=> ~Ran(c) \/ Negative(c.r1) \/ spoilt
        /\ Ran(c) /\ (~spoilt \/ (c.fn = "IIDs" /\ Negative(c.r1)))
             => t.status = (c.r1 % Half) - (IF Negative(c.r1) THEN Half ELSE 0)
        /\ "object" \in DOMAIN t => t.object = IF Failed(t.status) THEN NULL ELSE c.out
        /\ c.fn = "IIDs" => t.count = IF Failed(t.status) THEN 0 ELSE c.count

\* The error that a documented rule makes of a result and a last error.
RuleIsTold(c, failed, error, last) ==
    /\ error # ERROR_SUCCESS <=> ~Ran(c) \/ failed
    /\ ~Ran(c) => error = ERROR_PROC_NOT_FOUND
    /\ Ran(c) => last = c.last
    /\ Ran(c) /\ failed => error = IF c.last = ERROR_SUCCESS THEN NoLastError ELSE c.last

\* The counter is the one the native side wrote, into memory that is the
\* caller's and aligned as C has it; the views of the value overlap as in C.
CounterIsTold(c, t) ==
    /\ RuleIsTold(c, Zero(c.r1), ErrorIfFalse(t.bool, t.last), t.last)
    /\ t.given % 8 = 0
    /\ c.value /\ c.target = "x386" => t.given..(t.given + 7) \subseteq c.base..(c.base + 14)
    /\ c.value =>
         LET n == Int64(t.value, c.target)
             low == LowPart(t.value, c.target)
             high == HighPart(t.value, c.target)
         IN  /\ t.bool # 0 => Unsigned64(n) = c.out
             /\ t.bool = 0 /\ c.target = "x386" => n = 0
             /\ n = high * Half + low
             /\ SetParts(low, high, c.target) = t.value

\* What a Go error says of an allocation or of a string that is read.
ErrorIsTold(c, t) ==
    CASE c.fn = "NewHString" ->
           /\ t.error = "" <=> Ran(c) /\ ~Negative(c.r1)
           /\ t.owned = IF t.error = "" THEN c.out ELSE NULL
      [] c.fn = "Allocate" ->
           /\ t.error = "" <=> Ran(c) /\ (c.r1 # NULL \/ (c.kind = "memory" /\ c.empty))
           /\ t.owned = IF Ran(c) THEN c.r1 ELSE NULL
      [] c.fn \in {"BstrString", "HStringString"} ->
           LET length == IF c.fn = "BstrString" THEN c.r1 % Half ELSE IF c.r1 = NULL THEN 0 ELSE c.count
           IN  /\ t.error = "" <=> ~c.ok \/ (Ran(c) /\ Fits(length, 2, c.target))
               /\ t.length = IF Ran(c) /\ t.error = "" THEN length ELSE 0

(***************************************************************************)
(* Whoever looks at what a call returned in the way its documentation says *)
(* sees a failure exactly if the native side was not reached or failed,    *)
(* and the failure is that one: a stale last error never fails a success   *)
(* (docs/abi-backends.md, "ErrorIfFalse"), the undefined half of a register*)
(* never decides, an object or a memory block is handed out only with a    *)
(* success, and no slice is longer than what the native side has.  Two     *)
(* kinds of functions cannot tell that an export is missing: those without *)
(* a result of their own (GetSystemTime, Uninitialize), and emitted ones   *)
(* whose zero is a success, be it a status or a handle.                    *)
(***************************************************************************)
OutcomesAreTold ==
    native # NoNative =>
        LET c == native
            t == told
        IN  CASE c.fn \in {"QueryInterface", "CreateIUnknown", "Initialize", "Activate",
                           "RuntimeClassName", "GetTrustLevel", "ByClassName", "IIDs"} -> StatusIsTold(c, t)
              [] c.fn = "counter" -> CounterIsTold(c, t)
              [] c.fn = "bool" -> RuleIsTold(c, Zero(c.r1), ErrorIfFalse(t.bool, t.last), t.last)
              [] c.fn = "word" -> RuleIsTold(c, c.r1 = 0, ErrorIfZero(t.word, t.last), t.last)
              [] c.fn = "id" -> t.id = 0 <=> ~Ran(c) \/ Zero(c.r1)
              [] c.fn = "optional" -> t.done <=> Ran(c)
              [] c.fn = "Count" -> t.count = 0 <=> ~Ran(c) \/ Zero(c.r1)
              [] c.fn = "emitted" ->
                   c.setLastError =>
                     /\ ~Ran(c) => t.last = ERROR_PROC_NOT_FOUND /\ t.value = 0
                     /\ c.ret # "none" =>
                          RuleIsTold(c, IF c.ret = "int32" THEN Zero(c.r1) ELSE c.r1 = 0,
                                     ErrorIfZero(t.value, t.last), t.last)
                     /\ c.ret = "uintptr" /\ Ran(c) =>
                          RuleIsTold(c, c.r1 = Addresses(c.target) - 1,
                                     ErrorIfInvalidHandle(t.value, t.last, c.target), t.last)
              [] c.fn = "unsigned" -> t.whole = c.count /\ t.high * Half + t.low = c.count
              [] OTHER -> ErrorIsTold(c, t)
=============================================================================
