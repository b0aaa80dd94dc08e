--------------------------- MODULE NativeOwnership ---------------------------
(***************************************************************************)
(* Who frees what the native side allocated: the owners BSTR, TaskMemory   *)
(* (src/runtime/com) and HString (src/runtime/winrt), the IID list of      *)
(* IInspectable, and the class name of an activation.                      *)
(*                                                                         *)
(* A native procedure is there or not, once and for all: that is what      *)
(* LazyProc shows.  TryCall fails when it is not, without calling.  One    *)
(* goroutine uses one owner, as none of the types may be copied or says it *)
(* can be shared.  References of COM objects are the client's to release   *)
(* and are not modelled.                                                   *)
(***************************************************************************)
EXTENDS Naturals, FiniteSets

CONSTANTS
  Callers,        \* goroutines, each with one owner
  MaxAllocations  \* bound: native allocations in a behaviour

ASSUME MaxAllocationsAssumption == MaxAllocations \in Nat

Allocation == 1..MaxAllocations
Nil == 0
Kind == {"bstr", "memory", "hstring"}

VARIABLES
  available,  \* the kinds whose freeing procedure resolves
  next,       \* the next address the allocators hand out; never one twice
  frees,      \* how often each address was given back
  held,       \* the owner of each caller: its kind and its pointer
  call,       \* what each caller is in: a step of IIDs or of an activation
  lost,       \* history: what nobody will free
  lists       \* history: the lists that GetIids returned

vars == <<available, next, frees, held, call, lost, lists>>

NoCall == [at |-> "none", pointer |-> Nil, fits |-> TRUE]

Step == {"none", "iids_length", "iids_copy", "iids_free", "activate", "name_close"}

TypeOK ==
  /\ available \in SUBSET Kind
  /\ next \in 1..MaxAllocations + 1
  /\ frees \in [Allocation -> Nat]
  /\ held \in [Callers -> [kind : Kind, pointer : Allocation \cup {Nil}]]
  /\ call \in [Callers -> [at : Step, pointer : Allocation \cup {Nil}, fits : BOOLEAN]]
  /\ lost \in SUBSET Allocation
  /\ lists \in SUBSET Allocation

Allocated == {a \in Allocation : a < next}
Live(a)   == a \in Allocated /\ frees[a] = 0

(* A caller without an owner, and one with a closed or an empty one, do    *)
(* the same: its methods do nothing.                                       *)
Init ==
  /\ available \in SUBSET Kind
  /\ next = 1
  /\ frees = [a \in Allocation |-> 0]
  /\ held \in [Callers -> [kind : Kind, pointer : {Nil}]]
  /\ call = [c \in Callers |-> NoCall]
  /\ lost = {}
  /\ lists = {}

-----------------------------------------------------------------------------
Idle(c) == call[c].at = "none"

(* NewBSTR, AllocTaskMemory, NewHString and RuntimeClassName.  Any of them *)
(* can fail and leave nothing; task memory of size zero and an empty       *)
(* HSTRING may be null, which is no failure.                               *)
New(c, kind) ==
  /\ Idle(c) /\ held[c].pointer = Nil
  /\ \/ /\ next <= MaxAllocations
        /\ held' = [held EXCEPT ![c] = [kind |-> kind, pointer |-> next]]
        /\ next' = next + 1
     \/ /\ kind # "bstr"
        /\ held' = [held EXCEPT ![c] = [kind |-> kind, pointer |-> Nil]]
        /\ UNCHANGED next
  /\ UNCHANGED <<available, frees, call, lost, lists>>

(* Mutant: the owner forgets its pointer before it knows that it is freed. *)
CloseForgets(c) ==
  /\ Idle(c) /\ held[c].pointer # Nil
  /\ IF held[c].kind \in available
     THEN frees' = [frees EXCEPT ![held[c].pointer] = @ + 1] ELSE UNCHANGED frees
  /\ held' = [held EXCEPT ![c].pointer = Nil]
  /\ UNCHANGED <<available, next, call, lost, lists>>

(* Mutant: the pointer is not cleared.                                     *)
CloseKeeps(c) ==
  /\ Idle(c) /\ held[c].pointer # Nil
  /\ IF held[c].kind \in available
     THEN frees' = [frees EXCEPT ![held[c].pointer] = @ + 1] ELSE UNCHANGED frees
  /\ UNCHANGED <<available, next, held, call, lost, lists>>

(* Close: a failed one keeps the pointer, so that it can be tried again;   *)
(* a repeated one does nothing.                                            *)
Close(c) ==
  /\ Idle(c) /\ held[c].pointer # Nil
  /\ \/ /\ held[c].kind \in available
        /\ frees' = [frees EXCEPT ![held[c].pointer] = @ + 1]
        /\ held' = [held EXCEPT ![c].pointer = Nil]
     \/ /\ held[c].kind \notin available \/ held[c].kind = "hstring"
        /\ UNCHANGED <<frees, held>>
  /\ UNCHANGED <<available, next, call, lost, lists>>

-----------------------------------------------------------------------------
(* IIDs: the native list is copied and freed.                              *)
Goto(c, at) == call' = [call EXCEPT ![c].at = at]

(* GetIids succeeded with a list; whether its length fits a Go slice is up *)
(* to the count it came with.  A list with a count of zero is left as it   *)
(* is: IIDs returns before it looks at it.  (When GetIids fails, or        *)
(* succeeds with no list, there is nothing to free.)                       *)
GetIIDs(c) ==
  /\ Idle(c) /\ next <= MaxAllocations
  /\ \/ \E fits \in BOOLEAN :
            call' = [call EXCEPT ![c] = [at |-> "iids_length", pointer |-> next, fits |-> fits]]
        /\ UNCHANGED lost
     \/ lost' = lost \cup {next} /\ UNCHANGED call
  /\ lists' = lists \cup {next}
  /\ next' = next + 1
  /\ UNCHANGED <<available, frees, held>>

(* Mutant: a length that does not fit returns at once.                     *)
CheckLengthReturns(c) ==
  /\ call[c].at = "iids_length"
  /\ IF call[c].fits THEN Goto(c, "iids_copy") ELSE call' = [call EXCEPT ![c] = NoCall]
  /\ UNCHANGED <<available, next, frees, held, lost, lists>>

CheckLength(c) ==
  /\ call[c].at = "iids_length"
  /\ Goto(c, IF call[c].fits THEN "iids_copy" ELSE "iids_free")
  /\ UNCHANGED <<available, next, frees, held, lost, lists>>

CopyIIDs(c) ==
  /\ call[c].at = "iids_copy"
  /\ Goto(c, "iids_free")
  /\ UNCHANGED <<available, next, frees, held, lost, lists>>

(* The free that ends a call; its error is dropped.                        *)
FreeAtReturn(c, at, kind, mayRefuse) ==
  /\ call[c].at = at
  /\ call' = [call EXCEPT ![c] = NoCall]
  /\ \/ /\ kind \in available
        /\ frees' = [frees EXCEPT ![call[c].pointer] = @ + 1]
        /\ UNCHANGED lost
     \/ /\ kind \notin available \/ mayRefuse
        /\ lost' = lost \cup {call[c].pointer}
        /\ UNCHANGED frees
  /\ UNCHANGED <<available, next, held, lists>>

FreeIIDs(c) == FreeAtReturn(c, "iids_free", "memory", FALSE)

-----------------------------------------------------------------------------
(* Mutant: the name is closed when it was converted, not when the call is  *)
(* over.                                                                   *)
MakeNameEarlyClose(c) ==
  /\ Idle(c) /\ next <= MaxAllocations /\ "hstring" \in available
  /\ call' = [call EXCEPT ![c] = [at |-> "activate", pointer |-> next, fits |-> TRUE]]
  /\ frees' = [frees EXCEPT ![next] = @ + 1]
  /\ next' = next + 1
  /\ UNCHANGED <<available, held, lost, lists>>

(* GetActivationFactory and ActivateInstance: the class name is an HSTRING *)
(* for the time of the native call (a class name is never empty).          *)
MakeName(c) ==
  /\ Idle(c) /\ next <= MaxAllocations
  /\ call' = [call EXCEPT ![c] = [at |-> "activate", pointer |-> next, fits |-> TRUE]]
  /\ next' = next + 1
  /\ UNCHANGED <<available, frees, held, lost, lists>>

(* Whatever the native call returns, the deferred Close follows.           *)
Activate(c) ==
  /\ call[c].at = "activate"
  /\ Goto(c, "name_close")
  /\ UNCHANGED <<available, next, frees, held, lost, lists>>

CloseName(c) == FreeAtReturn(c, "name_close", "hstring", TRUE)

Next ==
  \E c \in Callers :
    \/ \E kind \in Kind : New(c, kind)
    \/ Close(c)
    \/ GetIIDs(c) \/ CheckLength(c) \/ CopyIIDs(c) \/ FreeIIDs(c)
    \/ MakeName(c) \/ Activate(c) \/ CloseName(c)

Spec == Init /\ [][Next]_vars

-----------------------------------------------------------------------------
(* Nothing is freed twice, and whatever an owner or a running call still   *)
(* has a pointer to is still allocated: a failed Close that is repeated,   *)
(* an owner that is closed twice, a name that is closed when its call      *)
(* returns, never touch freed memory.                                      *)
PointersAreLive ==
  /\ \A a \in Allocation : frees[a] <= 1
  /\ \A c \in Callers :
       /\ held[c].pointer # Nil => Live(held[c].pointer)
       /\ call[c].at # "none" => Live(call[c].pointer)

(* Every allocation that is not freed has exactly one owner, so that it    *)
(* can still be freed and only once.  The exceptions: what a call gave     *)
(* back at its return and the native side refused, and a list that came    *)
(* with a count of zero, which IIDListsAreReleased is about.               *)
OneOwner ==
  \A a \in Allocation :
    LET owners == {c \in Callers : held[c].pointer = a}
        calls  == {c \in Callers : call[c].at # "none" /\ call[c].pointer = a}
    IN Live(a) /\ a \notin lost => Cardinality(owners) + Cardinality(calls) = 1

(* Both: every allocation has its one owner, and every pointer its         *)
(* allocation.                                                             *)
OwnershipHolds == PointersAreLive /\ OneOwner

(* "IIDs obtains and copies the interface IID list, then releases the      *)
(* native CoTaskMem allocation before returning" (inspectable.go:52): if   *)
(* CoTaskMemFree is there, every list that GetIids returned is freed, or   *)
(* its call still has it.  The code disagrees on one path: a list with a   *)
(* count of zero is not looked at, so a run must violate this.             *)
IIDListsAreReleased ==
  "memory" \in available =>
    \A a \in lists :
      frees[a] = 1 \/ \E c \in Callers : call[c].at # "none" /\ call[c].pointer = a
=============================================================================
