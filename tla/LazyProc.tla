------------------------------ MODULE LazyProc ------------------------------
(***************************************************************************)
(* The lazy resolution of native procedures in                             *)
(* src/runtime/winabi/dll_windows.go: Proc.Address runs once per procedure *)
(* and asks its DLL, DLL.load runs once per DLL and asks for the address   *)
(* of LoadLibraryExW, loadLibraryExWAddress runs once per program.         *)
(*                                                                         *)
(* The three functions have one shape, so each Proc, each DLL and the      *)
(* loader is a Cell: a sync.Once, and the value its body leaves behind.    *)
(* The body asks the cell's parent first; an error of the parent becomes   *)
(* the cell's own error, otherwise the cell makes its native call.         *)
(***************************************************************************)
EXTENDS Naturals

CONSTANTS
  Callers,
  Procs,       \* the package-level exports, made by NewProc and MustProc
  DLLs,        \* the package-level DLLs
  Loader,      \* systemLoader
  DllOf,       \* DllOf[p]: the DLL of a procedure
  NoCell         \* no procedure, no cell

Cell == Procs \cup DLLs \cup {Loader}

ASSUME CellAssumption ==
  /\ DllOf \in [Procs -> DLLs]
  /\ Procs \cap DLLs = {}
  /\ Loader \notin Procs \cup DLLs
  /\ NoCell \notin Cell
  /\ {"zero", "address"} \cap Cell = {}

(* The cell whose function the body of c's Once calls.                     *)
Parent == [c \in Procs \cup DLLs |-> IF c \in Procs THEN DllOf[c] ELSE Loader]

(* The cell whose body called the function of c, in a call for p.          *)
Child(c, p) == IF c = Loader THEN DllOf[p] ELSE p

Chain(p) == {p, DllOf[p], Loader}

(* What a cell holds: the zero values of its fields, an address or handle  *)
(* without error, or the error of the cell whose native call failed.       *)
Value == {"zero", "address"} \cup Cell

VARIABLES
  once,    \* the sync.Once of each cell
  value,   \* the address or handle, and err, of each cell
  native,  \* history: native calls made so far, per cell
  failed,  \* history: the cells whose native call failed
  target,  \* the procedure each goroutine is calling, or None
  at,      \* the cell whose function each goroutine is in
  step,    \* where in that function it is
  answers  \* history: what TryCall and Available got, per procedure

cells == <<once, value, native, failed>>
lazyVars  == <<cells, target, at, step, answers>>

LazyTypeOK ==
  /\ once \in [Cell -> {"new", "running", "done"}]
  /\ value \in [Cell -> Value]
  /\ native \in [Cell -> Nat]
  /\ failed \subseteq Cell
  /\ target \in [Callers -> Procs \cup {NoCell}]
  /\ at \in [Callers -> Cell \cup {NoCell}]
  /\ step \in [Callers -> {"idle", "do", "native", "return"}]
  /\ answers \in [Procs -> SUBSET Value]

LazyInit ==
  /\ once = [c \in Cell |-> "new"]
  /\ value = [c \in Cell |-> "zero"]
  /\ native = [c \in Cell |-> 0]
  /\ failed = {}
  /\ target = [g \in Callers |-> NoCell]
  /\ at = [g \in Callers |-> NoCell]
  /\ step = [g \in Callers |-> "idle"]
  /\ answers = [p \in Procs |-> {}]

-----------------------------------------------------------------------------
MoveTo(g, c, s) ==
  /\ at' = [at EXCEPT ![g] = c]
  /\ step' = [step EXCEPT ![g] = s]

(* Mutant: an error is not kept.                                           *)
FinishForgets(c, v) ==
  /\ value' = [value EXCEPT ![c] = IF v \in Cell THEN NoCell ELSE v]
  /\ once' = [once EXCEPT ![c] = "done"]

(* The body of c's Once is over; v is what it leaves in the cell's fields. *)
Finish(c, v) ==
  /\ value' = [value EXCEPT ![c] = v]
  /\ once' = [once EXCEPT ![c] = "done"]

(* TryCall, Available or Call of a procedure.                              *)
CallProc(g, p) ==
  /\ step[g] = "idle"
  /\ target' = [target EXCEPT ![g] = p]
  /\ MoveTo(g, p, "do")
  /\ UNCHANGED <<cells, answers>>

(* once.Do, first to come: run the body.                                   *)
RunBody(g) ==
  /\ step[g] = "do"
  /\ once[at[g]] = "new"
  /\ once' = [once EXCEPT ![at[g]] = "running"]
  /\ IF at[g] = Loader THEN MoveTo(g, Loader, "native") ELSE MoveTo(g, Parent[at[g]], "do")
  /\ UNCHANGED <<value, native, failed, target, answers>>

(* Mutant: a flag instead of a Once, set before the body runs.             *)
SkipBodyEarly(g) ==
  /\ step[g] = "do"
  /\ once[at[g]] # "new"
  /\ MoveTo(g, at[g], "return")
  /\ UNCHANGED <<cells, target, answers>>

(* once.Do after the body; while another goroutine runs the body, it waits.*)
SkipBody(g) ==
  /\ step[g] = "do"
  /\ once[at[g]] = "done"
  /\ MoveTo(g, at[g], "return")
  /\ UNCHANGED <<cells, target, answers>>

(* Mutant: an export that is missing disables its DLL.                     *)
CallNativePoisons(g) ==
  /\ step[g] = "native"
  /\ native' = [native EXCEPT ![at[g]] = @ + 1]
  /\ \/ Finish(at[g], "address") /\ UNCHANGED failed
     \/ /\ at[g] \in Procs
        /\ value' = [value EXCEPT ![at[g]] = at[g], ![DllOf[at[g]]] = at[g]]
        /\ once' = [once EXCEPT ![at[g]] = "done"]
        /\ failed' = failed \cup {at[g]}
  /\ MoveTo(g, at[g], "return")
  /\ UNCHANGED <<target, answers>>

(* Mutant: the first DLL needed loads them all.                            *)
CallNativeEagerly(g) ==
  /\ step[g] = "native"
  /\ native' = [c \in Cell |->
                  IF c = at[g] \/ {c, at[g]} \subseteq DLLs THEN native[c] + 1 ELSE native[c]]
  /\ \/ Finish(at[g], "address") /\ UNCHANGED failed
     \/ Finish(at[g], at[g]) /\ failed' = failed \cup {at[g]}
  /\ MoveTo(g, at[g], "return")
  /\ UNCHANGED <<target, answers>>

(* FindProc of LoadLibraryExW, LoadLibraryExW itself, or GetProcAddress.   *)
CallNative(g) ==
  /\ step[g] = "native"
  /\ native' = [native EXCEPT ![at[g]] = @ + 1]
  /\ \/ Finish(at[g], "address") /\ UNCHANGED failed
     \/ Finish(at[g], at[g]) /\ failed' = failed \cup {at[g]}
  /\ MoveTo(g, at[g], "return")
  /\ UNCHANGED <<target, answers>>

(* Mutant: the error of the parent's function is not looked at.            *)
ReturnToBodyIgnoresError(g) ==
  /\ step[g] = "return"
  /\ at[g] # target[g]
  /\ MoveTo(g, Child(at[g], target[g]), "native")
  /\ UNCHANGED <<cells, target, answers>>

(* Mutant: a body that meets an error of its parent never ends its Once.   *)
ReturnToBodyLeavesOnce(g) ==
  /\ step[g] = "return"
  /\ at[g] # target[g]
  /\ LET child == Child(at[g], target[g]) IN
       /\ MoveTo(g, child, IF value[at[g]] \in Cell THEN "return" ELSE "native")
       /\ value' = IF value[at[g]] \in Cell THEN [value EXCEPT ![child] = value[at[g]]] ELSE value
  /\ UNCHANGED <<once, native, failed, target, answers>>

(* The parent's function returned to the body of the cell below it.        *)
ReturnToBody(g) ==
  /\ step[g] = "return"
  /\ at[g] # target[g]
  /\ LET child == Child(at[g], target[g]) IN
       IF value[at[g]] \in Cell
       THEN Finish(child, value[at[g]]) /\ MoveTo(g, child, "return")
       ELSE MoveTo(g, child, "native") /\ UNCHANGED <<once, value>>
  /\ UNCHANGED <<native, failed, target, answers>>

(* Address returns p.addr, p.err to its caller, which keeps the error      *)
(* (TryCall), turns it into false (Available) or into the one error        *)
(* ERROR_PROC_NOT_FOUND (Call), or calls the address.                      *)
Answer(g) ==
  /\ step[g] = "return"
  /\ at[g] = target[g]
  /\ answers' = [answers EXCEPT ![target[g]] = @ \cup {value[target[g]]}]
  /\ target' = [target EXCEPT ![g] = NoCell]
  /\ MoveTo(g, NoCell, "idle")
  /\ UNCHANGED cells

Resolve(g) ==
  RunBody(g) \/ SkipBody(g) \/ CallNative(g) \/ ReturnToBody(g) \/ Answer(g)

LazyNext == \E g \in Callers : Resolve(g) \/ \E p \in Procs : CallProc(g, p)

LazySpec == LazyInit /\ [][LazyNext]_lazyVars

(* The Go scheduler runs every goroutine that can move; a native call      *)
(* returns; whether anybody calls a procedure is up to the program.        *)
FairLazySpec == LazySpec /\ \A g \in Callers : WF_lazyVars(Resolve(g))

-----------------------------------------------------------------------------
(* Whoever asks for a procedure, however the calls interleave, gets the    *)
(* same answer as everyone before ("resolves the procedure once"), and     *)
(* never an address of zero without an error, which CallAddress would      *)
(* refuse only as ErrInvalidAddress.                                       *)
OneAnswer ==
  \A p \in Procs : \A v, w \in answers[p] : v # "zero" /\ v = w

(* An address was resolved in a DLL that LoadLibraryExW did load, and an   *)
(* error is the one of the native call that failed on the way to this      *)
(* procedure ("preserves loader or resolver errors"): another DLL's        *)
(* failure, or another export's, never disables it.                        *)
AnswersAreTrue ==
  \A p \in Procs : \A v \in answers[p] :
    /\ v = "address" => Chain(p) \cap failed = {} /\ \A c \in Chain(p) : native[c] = 1
    /\ v \in Cell => v \in Chain(p) \cap failed

(* Both: what TryCall, Available and Call return is settled once and is    *)
(* what happened to the layers of that procedure.                          *)
AnswersHold == OneAnswer /\ AnswersAreTrue

(* No native call is made twice, and none before everything it rests on    *)
(* has succeeded: a DLL that could not be loaded is not searched.          *)
NativeOnceInOrder ==
  \A c \in Cell :
    /\ native[c] <= 1
    /\ c # Loader /\ native[c] = 1 => native[Parent[c]] = 1 /\ Parent[c] \notin failed

(* Importing a package loads nothing: a DLL is loaded only on behalf of    *)
(* one of its own procedures that somebody called (docs/abi-backends.md).  *)
LoadedOnDemand ==
  [][ \A d \in DLLs : native'[d] > native[d] =>
        \E g \in Callers : target[g] \in Procs /\ DllOf[target[g]] = d ]_lazyVars

(* The nested Onces never wait for each other in a circle: every call gets *)
(* its answer.                                                             *)
EveryCallReturns == \A g \in Callers : step[g] # "idle" ~> step[g] = "idle"
=============================================================================
