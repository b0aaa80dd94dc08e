----------------------------- MODULE Apartment ------------------------------
(***************************************************************************)
(* The apartments of goroutines: EnterApartment and Apartment.Close of     *)
(* src/runtime/com/apartment.go and src/runtime/winrt/apartment.go, which  *)
(* are the same code around CoInitializeEx and RoInitialize.               *)
(*                                                                         *)
(* COM is initialized per OS thread, and Go moves goroutines between       *)
(* threads at will: an unlocked goroutine has no thread of its own, every  *)
(* native call it makes runs on any thread that no other goroutine is      *)
(* locked to.  EnterApartment locks the goroutine first.                   *)
(*                                                                         *)
(* COM itself is external: a thread has a model, and a count of            *)
(* initializations that Uninitialize takes back one by one.                *)
(***************************************************************************)
EXTENDS Integers, FiniteSets

CONSTANTS
  Goroutines,
  Threads,
  Apartments,  \* names of Apartment values; a closed one's name is used again
  OwnerOf,     \* OwnerOf[a]: the goroutine that enters and closes a
  ModelOf,     \* ModelOf[a]: the threading model a asks for
  MaxOwn,      \* bound on a goroutine's own LockOSThread calls
  None

ASSUME OwnerAssumption ==
  /\ OwnerOf \in [Apartments -> Goroutines]
  /\ ModelOf \in [Apartments -> {"STA", "MTA"}]
  /\ IsFiniteSet(Apartments)
  /\ MaxOwn \in Nat
  /\ None \notin Threads \cup Apartments

VARIABLES
  thread,   \* the thread each goroutine is locked to, or None
  locks,    \* LockOSThread calls of each goroutine not yet undone
  own,      \* those of them that its own code made
  pc,       \* where each goroutine is
  using,    \* the apartment it is entering or closing
  active,   \* the apartments whose field active is true
  inits,    \* COM: initializations of each thread not yet undone
  model     \* COM: the model of each initialized thread

go   == <<thread, locks, own, pc, using>>
com  == <<inits, model>>
vars == <<go, active, com>>

PC == {"run", "initialize", "unlock", "uninitialize", "deactivate"}

TypeOK ==
  /\ thread \in [Goroutines -> Threads \cup {None}]
  /\ locks \in [Goroutines -> Nat]
  /\ own \in [Goroutines -> 0 .. MaxOwn]
  /\ pc \in [Goroutines -> PC]
  /\ using \in [Goroutines -> Apartments \cup {None}]
  /\ active \subseteq Apartments
  /\ inits \in [Threads -> Int]
  /\ model \in [Threads -> {"STA", "MTA", "none"}]

Init ==
  /\ thread = [g \in Goroutines |-> None]
  /\ locks = [g \in Goroutines |-> 0]
  /\ own = [g \in Goroutines |-> 0]
  /\ pc = [g \in Goroutines |-> "run"]
  /\ using = [g \in Goroutines |-> None]
  /\ active = {}
  /\ inits = [t \in Threads |-> 0]
  /\ model = [t \in Threads |-> "none"]

-----------------------------------------------------------------------------
(* Go: the threads g may run on.                                           *)
RunsOn(g, t) ==
  IF locks[g] > 0 THEN thread[g] = t ELSE \A h \in Goroutines : thread[h] # t

Goto(g, to, a) ==
  /\ pc' = [pc EXCEPT ![g] = to]
  /\ using' = [using EXCEPT ![g] = a]

LockOSThread(g) ==
  /\ locks' = [locks EXCEPT ![g] = @ + 1]
  /\ \E t \in Threads : RunsOn(g, t) /\ thread' = [thread EXCEPT ![g] = t]

(* Mutant: UnlockOSThread does not nest.                                   *)
UnlockOSThreadFully(g) ==
  /\ locks' = [locks EXCEPT ![g] = 0]
  /\ thread' = [thread EXCEPT ![g] = None]

UnlockOSThread(g) ==
  /\ locks' = [locks EXCEPT ![g] = @ - 1]
  /\ thread' = IF locks[g] = 1 THEN [thread EXCEPT ![g] = None] ELSE thread

(* COM: S_OK, S_FALSE on a thread that has this model already.             *)
InitializeCom(t, m) ==
  /\ model[t] \in {m, "none"}
  /\ inits' = [inits EXCEPT ![t] = @ + 1]
  /\ model' = [model EXCEPT ![t] = m]

UninitializeCom(t) ==
  /\ inits' = [inits EXCEPT ![t] = @ - 1]
  /\ model' = IF inits[t] = 1 THEN [model EXCEPT ![t] = "none"] ELSE model

-----------------------------------------------------------------------------
(* EnterApartment: lock, initialize, and unlock again on failure.          *)
Enter(g, a) ==
  /\ pc[g] = "run"
  /\ OwnerOf[a] = g
  /\ a \notin active
  /\ LockOSThread(g)
  /\ Goto(g, "initialize", a)
  /\ UNCHANGED <<own, active, com>>

Initialize(g) ==
  /\ pc[g] = "initialize"
  /\ \E t \in Threads : RunsOn(g, t) /\ InitializeCom(t, ModelOf[using[g]])
  /\ active' = active \cup {using[g]}
  /\ Goto(g, "run", None)
  /\ UNCHANGED <<thread, locks, own>>

(* Mutant: a failed EnterApartment leaves the goroutine locked.            *)
InitializeFailsLocked(g) ==
  /\ pc[g] = "initialize"
  /\ Goto(g, "run", None)
  /\ UNCHANGED <<thread, locks, own, active, com>>

(* RPC_E_CHANGED_MODE, any other failure, or no such export.               *)
InitializeFails(g) ==
  /\ pc[g] = "initialize"
  /\ Goto(g, "unlock", None)
  /\ UNCHANGED <<thread, locks, own, active, com>>

Unlock(g) ==
  /\ pc[g] = "unlock"
  /\ UnlockOSThread(g)
  /\ Goto(g, "run", None)
  /\ UNCHANGED <<own, active, com>>

(* Mutant: Close does not look at the field active.                        *)
CloseAgain(g, a) ==
  /\ pc[g] = "run"
  /\ OwnerOf[a] = g
  /\ Goto(g, "uninitialize", a)
  /\ UNCHANGED <<thread, locks, own, active, com>>

(* Mutant: Close unlocks the goroutine and never calls CoUninitialize.     *)
CloseUnlocksOnly(g, a) ==
  /\ pc[g] = "run"
  /\ OwnerOf[a] = g
  /\ a \in active
  /\ Goto(g, "deactivate", a)
  /\ UNCHANGED <<thread, locks, own, active, com>>

(* Close does nothing to an apartment that is not active.  CoUninitialize  *)
(* is assumed to be found: its DLL is the one CoInitializeEx was found in. *)
Close(g, a) ==
  /\ pc[g] = "run"
  /\ OwnerOf[a] = g
  /\ a \in active
  /\ Goto(g, "uninitialize", a)
  /\ UNCHANGED <<thread, locks, own, active, com>>

Uninitialize(g) ==
  /\ pc[g] = "uninitialize"
  /\ \E t \in Threads : RunsOn(g, t) /\ UninitializeCom(t)
  /\ Goto(g, "deactivate", using[g])
  /\ UNCHANGED <<thread, locks, own, active>>

Deactivate(g) ==
  /\ pc[g] = "deactivate"
  /\ active' = active \ {using[g]}
  /\ Goto(g, "unlock", None)
  /\ UNCHANGED <<thread, locks, own, com>>

(* The goroutine's own code locks it, and undoes no lock but its own.      *)
OwnLock(g) ==
  /\ pc[g] = "run"
  /\ own[g] < MaxOwn
  /\ own' = [own EXCEPT ![g] = @ + 1]
  /\ LockOSThread(g)
  /\ UNCHANGED <<pc, using, active, com>>

OwnUnlock(g) ==
  /\ pc[g] = "run"
  /\ own[g] > 0
  /\ own' = [own EXCEPT ![g] = @ - 1]
  /\ UnlockOSThread(g)
  /\ UNCHANGED <<pc, using, active, com>>

Call(g) ==
  \/ Initialize(g) \/ InitializeFails(g) \/ Unlock(g)
  \/ Uninitialize(g) \/ Deactivate(g)

Next ==
  \E g \in Goroutines :
    \/ Call(g) \/ OwnLock(g) \/ OwnUnlock(g)
    \/ \E a \in Apartments : Enter(g, a) \/ Close(g, a)

Spec == Init /\ [][Next]_vars

-----------------------------------------------------------------------------
(* The apartments g has initialized and not yet uninitialized.             *)
Open(g) ==
  {a \in active : OwnerOf[a] = g /\ ~(pc[g] = "deactivate" /\ using[g] = a)}

(* A thread is initialized exactly as often as the goroutine locked to it  *)
(* has open apartments.  A thread that no goroutine is locked to is not    *)
(* initialized: nobody that Go happens to run on it is in an apartment it  *)
(* never entered.                                                          *)
Balanced ==
  \A t \in Threads :
    /\ \A g \in Goroutines : thread[g] = t => inits[t] = Cardinality(Open(g))
    /\ (\A g \in Goroutines : thread[g] # t) => inits[t] = 0 /\ model[t] = "none"

(* From EnterApartment to Close an apartment's goroutine stays on one      *)
(* thread, and that thread keeps the apartment's model, however apartments *)
(* are nested and in whatever order they are closed ("keeps its goroutine  *)
(* on that OS thread until Close").                                        *)
StaysInApartment ==
  \A g \in Goroutines : \A a \in Open(g) :
    thread[g] \in Threads /\ model[thread[g]] = ModelOf[a]

(* Outside of any apartment a goroutine has no locks but its own: neither  *)
(* a failed EnterApartment nor a Close leaves it locked, or takes away a   *)
(* lock of its own.                                                        *)
Unpinned ==
  \A g \in Goroutines : pc[g] = "run" /\ Open(g) = {} => locks[g] = own[g]

(* Both: the native initializations of a thread and the Go locks of a      *)
(* goroutine are given back as often as they were taken.                   *)
LocksAreBalanced == Balanced /\ Unpinned
=============================================================================
