---------------------------- MODULE RuntimeProofs ----------------------------
(***************************************************************************)
(* The runtime packages that the bindings rest on: the apartments of       *)
(* goroutines (Apartment), for every number of goroutines, threads and     *)
(* apartments, and below them the lazy resolution of procedures            *)
(* (LazyProc), for every number of goroutines, procedures and DLLs.        *)
(*                                                                         *)
(* Every lock of a goroutine is accounted for: its own ones, one for each  *)
(* active apartment, and one while it is between the lock and the          *)
(* apartment that goes with it.  So a goroutine with an apartment is       *)
(* locked, and a locked goroutine has its thread for itself.               *)
(*                                                                         *)
(* A goroutine that is in the function of a cell is running the bodies of  *)
(* the cells below it: it Holds them.  No two goroutines hold a cell, and  *)
(* only a holder writes to it, once; so whatever is read after a body is   *)
(* over stays as it is.                                                    *)
(***************************************************************************)
EXTENDS Apartment, LazyProc, FiniteSetTheorems, TLAPS

ActiveOf(g) == {a \in active : OwnerOf[a] = g}

Pending(g) == IF pc[g] \in {"initialize", "unlock"} THEN 1 ELSE 0

LockInv ==
  \A g \in Goroutines :
    /\ locks[g] = Cardinality(ActiveOf(g)) + own[g] + Pending(g)
    /\ thread[g] = None <=> locks[g] = 0
    /\ \A h \in Goroutines : thread[g] # None /\ thread[h] = thread[g] => g = h

UsingInv ==
  \A g \in Goroutines :
    /\ pc[g] \in {"initialize", "uninitialize", "deactivate"} =>
         using[g] \in Apartments /\ OwnerOf[using[g]] = g
    /\ pc[g] = "initialize" => using[g] \notin active
    /\ pc[g] \in {"uninitialize", "deactivate"} => using[g] \in active

IInv ==
  /\ TypeOK
  /\ LockInv
  /\ UsingInv
  /\ Balanced
  /\ \A t \in Threads : inits[t] = 0 => model[t] = "none"
  /\ StaysInApartment

-----------------------------------------------------------------------------
(* The sets whose sizes the invariant speaks of are finite.                *)
LEMMA Finite ==
  ASSUME TypeOK, NEW g \in Goroutines
  PROVE  /\ IsFiniteSet(ActiveOf(g)) /\ Cardinality(ActiveOf(g)) \in Nat
         /\ IsFiniteSet(Open(g)) /\ Cardinality(Open(g)) \in Nat
         /\ Open(g) = IF pc[g] = "deactivate" THEN ActiveOf(g) \ {using[g]} ELSE ActiveOf(g)
<1>1. IsFiniteSet(active)
  BY OwnerAssumption, FS_Subset DEF TypeOK
<1>2. ActiveOf(g) \subseteq active /\ Open(g) \subseteq active
  BY DEF ActiveOf, Open
<1>3. Open(g) = IF pc[g] = "deactivate" THEN ActiveOf(g) \ {using[g]} ELSE ActiveOf(g)
  BY DEF Open, ActiveOf
<1> QED
  BY <1>1, <1>2, <1>3, FS_Subset, FS_CardinalityType

(* A goroutine with an active apartment is locked.                         *)
LEMMA ActiveIsLocked ==
  ASSUME IInv, NEW g \in Goroutines, ActiveOf(g) # {} \/ Pending(g) = 1 \/ own[g] > 0
  PROVE  locks[g] \in Nat /\ locks[g] > 0 /\ thread[g] \in Threads
<1>1. Cardinality(ActiveOf(g)) \in Nat /\ (ActiveOf(g) # {} => Cardinality(ActiveOf(g)) # 0)
  BY Finite, FS_EmptySet DEF IInv
<1>2. locks[g] \in Nat /\ own[g] \in Nat /\ Pending(g) \in {0, 1}
  BY OwnerAssumption DEF IInv, TypeOK, Pending
<1> QED
  BY <1>1, <1>2 DEF IInv, TypeOK, LockInv

(* With nobody locked and nothing initialized the invariant holds.         *)
LEMMA InitInv == Init => IInv
<1> SUFFICES ASSUME Init PROVE IInv
  OBVIOUS
<1>1. \A g \in Goroutines : ActiveOf(g) = {} /\ Open(g) = {} /\ Pending(g) = 0
  BY DEF Init, ActiveOf, Open, Pending
<1>2. TypeOK
  BY OwnerAssumption DEF Init, TypeOK, PC
<1>3. LockInv /\ UsingInv
  BY <1>1, FS_EmptySet, OwnerAssumption DEF Init, LockInv, UsingInv
<1>4. Balanced /\ StaysInApartment
  BY <1>1, OwnerAssumption DEF Init, Balanced, StaysInApartment
<1> QED
  BY <1>2, <1>3, <1>4 DEF Init, IInv

(* Every step keeps the types; no lock is undone that is not held.         *)
LEMMA TypeStep == IInv /\ [Next]_vars => TypeOK'
<1> SUFFICES ASSUME IInv, [Next]_vars PROVE TypeOK'
  OBVIOUS
<1> USE OwnerAssumption DEF IInv, TypeOK, PC, com, Goto
<1>1. ASSUME NEW g \in Goroutines, NEW a \in Apartments, Enter(g, a) PROVE TypeOK'
  BY <1>1 DEF Enter, LockOSThread
<1>2. ASSUME NEW g \in Goroutines, NEW a \in Apartments, Close(g, a) PROVE TypeOK'
  BY <1>2 DEF Close
<1>3. ASSUME NEW g \in Goroutines, Initialize(g) PROVE TypeOK'
  BY <1>3 DEF Initialize, InitializeCom, UsingInv
<1>4. ASSUME NEW g \in Goroutines, InitializeFails(g) PROVE TypeOK'
  BY <1>4 DEF InitializeFails
<1>5. ASSUME NEW g \in Goroutines, Unlock(g) PROVE TypeOK'
  <2>1. locks[g] > 0
    BY <1>5, ActiveIsLocked DEF Unlock, Pending
  <2> QED
    BY <1>5, <2>1 DEF Unlock, UnlockOSThread
<1>6. ASSUME NEW g \in Goroutines, Uninitialize(g) PROVE TypeOK'
  BY <1>6 DEF Uninitialize, UninitializeCom
<1>7. ASSUME NEW g \in Goroutines, Deactivate(g) PROVE TypeOK'
  BY <1>7 DEF Deactivate
<1>8. ASSUME NEW g \in Goroutines, OwnLock(g) PROVE TypeOK'
  BY <1>8 DEF OwnLock, LockOSThread
<1>9. ASSUME NEW g \in Goroutines, OwnUnlock(g) PROVE TypeOK'
  <2>1. locks[g] > 0
    BY <1>9, ActiveIsLocked DEF OwnUnlock
  <2> QED
    BY <1>9, <2>1 DEF OwnUnlock, UnlockOSThread
<1>10. CASE UNCHANGED vars
  BY <1>10 DEF vars, go
<1> QED
  BY <1>1, <1>2, <1>3, <1>4, <1>5, <1>6, <1>7, <1>8, <1>9, <1>10 DEF Next, Call

-----------------------------------------------------------------------------
(* What the invariant says besides the types.                              *)
Rest ==
  /\ LockInv
  /\ UsingInv
  /\ Balanced
  /\ \A t \in Threads : inits[t] = 0 => model[t] = "none"
  /\ StaysInApartment

(* A step that locks once more keeps the threads apart, and what COM knows *)
(* of them: the goroutine stays, or takes a thread that nobody used.       *)
LEMMA LockStep ==
  ASSUME IInv, NEW g \in Goroutines, LockOSThread(g), UNCHANGED <<active, com>>,
         \A h \in Goroutines : Open(h)' = Open(h)
  PROVE  /\ locks' = [locks EXCEPT ![g] = locks[g] + 1]
         /\ \A h \in Goroutines : thread'[h] = None <=> locks'[h] = 0
         /\ \A h, k \in Goroutines : thread'[h] # None /\ thread'[k] = thread'[h] => h = k
         /\ Balanced'
         /\ StaysInApartment'
<1>1. PICK t \in Threads : RunsOn(g, t) /\ thread' = [thread EXCEPT ![g] = t]
  BY DEF LockOSThread
<1>2. locks' = [locks EXCEPT ![g] = locks[g] + 1]
  BY DEF LockOSThread
<1>3. CASE locks[g] > 0
  <2>1. thread' = thread
    BY <1>1, <1>3 DEF RunsOn, IInv, TypeOK
  <2> QED
    BY <1>2, <1>3, <2>1
    DEF IInv, TypeOK, LockInv, Balanced, StaysInApartment, com
<1>4. CASE locks[g] = 0
  <2>1. /\ \A h \in Goroutines : thread[h] # t
        /\ inits[t] = 0 /\ model[t] = "none"
        /\ thread[g] = None
    BY <1>1, <1>4 DEF RunsOn, IInv, LockInv, Balanced
  <2>2. Open(g) = {} /\ Cardinality({}) = 0
    <3>1. ActiveOf(g) = {}
      BY <1>4, ActiveIsLocked
    <3> QED
      BY <3>1, Finite, FS_EmptySet DEF IInv
  <2>3. /\ thread'[g] = t /\ t # None
        /\ \A h \in Goroutines : h # g => thread'[h] = thread[h]
    BY <1>1, OwnerAssumption DEF IInv, TypeOK
  <2>4. Balanced'
    <3> SUFFICES ASSUME NEW u \in Threads
                 PROVE  /\ \A h \in Goroutines : thread'[h] = u => inits'[u] = Cardinality(Open(h)')
                        /\ (\A h \in Goroutines : thread'[h] # u) => inits'[u] = 0 /\ model'[u] = "none"
      BY DEF Balanced
    <3>1. CASE u = t
      BY <2>1, <2>2, <2>3, <3>1 DEF com
    <3>2. CASE u # t
      BY <2>1, <2>3, <3>2, OwnerAssumption DEF IInv, Balanced, com
    <3> QED
      BY <3>1, <3>2
  <2>5. StaysInApartment'
    BY <2>2, <2>3 DEF IInv, StaysInApartment, com
  <2> QED
    BY <1>2, <1>4, <2>1, <2>3, <2>4, <2>5 DEF IInv, TypeOK, LockInv
<1> QED
  BY <1>3, <1>4 DEF IInv, TypeOK

(* A step that undoes a lock gives up the thread only if the goroutine has *)
(* nothing open on it.                                                     *)
LEMMA UnlockStep ==
  ASSUME IInv, NEW g \in Goroutines, UnlockOSThread(g), UNCHANGED <<active, com>>,
         locks[g] > 0, locks[g] = 1 => ActiveOf(g) = {},
         \A h \in Goroutines : Open(h)' = Open(h)
  PROVE  /\ locks' = [locks EXCEPT ![g] = locks[g] - 1]
         /\ \A h \in Goroutines : thread'[h] = None <=> locks'[h] = 0
         /\ \A h, k \in Goroutines : thread'[h] # None /\ thread'[k] = thread'[h] => h = k
         /\ Balanced'
         /\ StaysInApartment'
<1>1. locks' = [locks EXCEPT ![g] = locks[g] - 1]
  BY DEF UnlockOSThread
<1>2. CASE locks[g] # 1
  <2>1. thread' = thread
    BY <1>2 DEF UnlockOSThread
  <2> QED
    BY <1>1, <1>2, <2>1 DEF IInv, TypeOK, LockInv, Balanced, StaysInApartment, com
<1>3. CASE locks[g] = 1
  <2>1. /\ thread'[g] = None
        /\ \A h \in Goroutines : h # g => thread'[h] = thread[h]
    BY <1>3 DEF UnlockOSThread, IInv, TypeOK
  <2>2. Open(g) = {} /\ Cardinality({}) = 0
    BY <1>3, Finite, FS_EmptySet DEF IInv
  <2>3. thread[g] \in Threads /\ inits[thread[g]] = 0 /\ model[thread[g]] = "none"
    <3>1. thread[g] \in Threads
      BY <1>3 DEF IInv, TypeOK, LockInv
    <3>2. inits[thread[g]] = 0
      BY <2>2, <3>1 DEF IInv, Balanced
    <3> QED
      BY <3>1, <3>2 DEF IInv
  <2>4. Balanced'
    <3> SUFFICES ASSUME NEW u \in Threads
                 PROVE  /\ \A h \in Goroutines : thread'[h] = u => inits'[u] = Cardinality(Open(h)')
                        /\ (\A h \in Goroutines : thread'[h] # u) => inits'[u] = 0 /\ model'[u] = "none"
      BY DEF Balanced
    <3>1. CASE u = thread[g]
      BY <2>1, <2>3, <3>1, OwnerAssumption DEF IInv, LockInv, com
    <3>2. CASE u # thread[g]
      BY <2>1, <3>2, OwnerAssumption DEF IInv, Balanced, com
    <3> QED
      BY <3>1, <3>2
  <2>5. StaysInApartment'
    BY <2>1, <2>2 DEF IInv, StaysInApartment, com
  <2> QED
    BY <1>1, <1>3, <2>1, <2>4, <2>5 DEF IInv, TypeOK, LockInv
<1> QED
  BY <1>2, <1>3

-----------------------------------------------------------------------------
(* EnterApartment locks, and has the goroutine owe one unlock.             *)
LEMMA EnterInv ==
  ASSUME IInv, NEW g \in Goroutines, NEW a \in Apartments, Enter(g, a)
  PROVE  Rest'
<1> USE DEF Enter, Goto
<1>1. /\ pc[g] = "run" /\ pc'[g] = "initialize" /\ using'[g] = a
      /\ \A h \in Goroutines : h # g => pc'[h] = pc[h] /\ using'[h] = using[h]
      /\ active' = active /\ own' = own
  BY DEF IInv, TypeOK
<1>2. \A h \in Goroutines : Open(h)' = Open(h) /\ ActiveOf(h)' = ActiveOf(h)
  BY <1>1 DEF Open, ActiveOf
<1>3. /\ Pending(g) = 0 /\ Pending(g)' = 1
      /\ \A h \in Goroutines : h # g => Pending(h)' = Pending(h)
  BY <1>1 DEF Pending
<1>4. LockInv'
  <2>1. \A h \in Goroutines : Cardinality(ActiveOf(h)) \in Nat /\ own[h] \in Nat /\ locks[h] \in Nat
    BY Finite, OwnerAssumption DEF IInv, TypeOK
  <2>2. \A h \in Goroutines : locks'[h] = Cardinality(ActiveOf(h)') + own'[h] + Pending(h)'
    BY <1>1, <1>2, <1>3, <2>1, LockStep DEF IInv, TypeOK, LockInv
  <2> QED
    BY <1>2, <2>2, LockStep DEF LockInv
<1>5. UsingInv'
  BY <1>1 DEF IInv, UsingInv
<1>6. Balanced' /\ StaysInApartment' /\ \A t \in Threads : inits'[t] = 0 => model'[t] = "none"
  BY <1>2, LockStep DEF IInv, com
<1> QED
  BY <1>4, <1>5, <1>6 DEF Rest

(* The goroutine's own lock is counted as its own.                         *)
LEMMA OwnLockInv ==
  ASSUME IInv, NEW g \in Goroutines, OwnLock(g)
  PROVE  Rest'
<1> USE DEF OwnLock
<1>1. /\ pc' = pc /\ using' = using /\ active' = active
      /\ own' = [own EXCEPT ![g] = own[g] + 1]
  OBVIOUS
<1>2. \A h \in Goroutines : /\ Open(h)' = Open(h) /\ ActiveOf(h)' = ActiveOf(h)
                            /\ Pending(h)' = Pending(h)
  BY <1>1 DEF Open, ActiveOf, Pending
<1>3. LockInv'
  <2>1. \A h \in Goroutines : /\ Cardinality(ActiveOf(h)) \in Nat /\ own[h] \in Nat
                              /\ locks[h] \in Nat /\ Pending(h) \in Nat
    BY Finite, OwnerAssumption DEF IInv, TypeOK, Pending
  <2>2. \A h \in Goroutines : locks'[h] = Cardinality(ActiveOf(h)') + own'[h] + Pending(h)'
    BY <1>1, <1>2, <2>1, LockStep DEF IInv, TypeOK, LockInv
  <2> QED
    BY <1>2, <2>2, LockStep DEF LockInv
<1>4. UsingInv'
  BY <1>1 DEF IInv, UsingInv
<1>5. Balanced' /\ StaysInApartment' /\ \A t \in Threads : inits'[t] = 0 => model'[t] = "none"
  BY <1>2, LockStep DEF IInv, com
<1> QED
  BY <1>3, <1>4, <1>5 DEF Rest

(* The unlock that an apartment owed is paid.                              *)
LEMMA UnlockInv ==
  ASSUME IInv, NEW g \in Goroutines, Unlock(g)
  PROVE  Rest'
<1> USE DEF Unlock, Goto
<1>1. /\ pc[g] = "unlock" /\ pc'[g] = "run"
      /\ \A h \in Goroutines : h # g => pc'[h] = pc[h] /\ using'[h] = using[h]
      /\ active' = active /\ own' = own
  BY DEF IInv, TypeOK
<1>2. \A h \in Goroutines : Open(h)' = Open(h) /\ ActiveOf(h)' = ActiveOf(h)
  BY <1>1 DEF Open, ActiveOf
<1>3. /\ Pending(g) = 1 /\ Pending(g)' = 0
      /\ \A h \in Goroutines : h # g => Pending(h)' = Pending(h)
  BY <1>1 DEF Pending
<1>n. \A h \in Goroutines : Cardinality(ActiveOf(h)) \in Nat /\ own[h] \in Nat /\ locks[h] \in Nat
  BY Finite, OwnerAssumption DEF IInv, TypeOK
<1>l. locks[g] > 0 /\ (locks[g] = 1 => ActiveOf(g) = {})
  <2>1. locks[g] = Cardinality(ActiveOf(g)) + own[g] + 1
    BY <1>3 DEF IInv, LockInv
  <2>2. locks[g] = 1 => Cardinality(ActiveOf(g)) = 0
    BY <1>n, <2>1
  <2> QED
    BY <1>n, <2>1, <2>2, Finite, FS_EmptySet DEF IInv
<1>4. LockInv'
  <2>2. \A h \in Goroutines : locks'[h] = Cardinality(ActiveOf(h)') + own'[h] + Pending(h)'
    BY <1>1, <1>2, <1>3, <1>n, <1>l, UnlockStep DEF IInv, TypeOK, LockInv
  <2> QED
    BY <1>2, <1>l, <2>2, UnlockStep DEF LockInv
<1>5. UsingInv'
  BY <1>1 DEF IInv, UsingInv
<1>6. Balanced' /\ StaysInApartment' /\ \A t \in Threads : inits'[t] = 0 => model'[t] = "none"
  BY <1>2, <1>l, UnlockStep DEF IInv, com
<1> QED
  BY <1>4, <1>5, <1>6 DEF Rest

(* A lock of its own that the goroutine undoes leaves those of its         *)
(* apartments.                                                             *)
LEMMA OwnUnlockInv ==
  ASSUME IInv, NEW g \in Goroutines, OwnUnlock(g)
  PROVE  Rest'
<1> USE DEF OwnUnlock
<1>1. /\ pc' = pc /\ using' = using /\ active' = active /\ own[g] > 0
      /\ own' = [own EXCEPT ![g] = own[g] - 1]
  OBVIOUS
<1>2. \A h \in Goroutines : /\ Open(h)' = Open(h) /\ ActiveOf(h)' = ActiveOf(h)
                            /\ Pending(h)' = Pending(h)
  BY <1>1 DEF Open, ActiveOf, Pending
<1>n. \A h \in Goroutines : /\ Cardinality(ActiveOf(h)) \in Nat /\ own[h] \in Nat
                            /\ locks[h] \in Nat /\ Pending(h) \in Nat
  BY Finite, OwnerAssumption DEF IInv, TypeOK, Pending
<1>l. locks[g] > 0 /\ (locks[g] = 1 => ActiveOf(g) = {})
  <2>1. locks[g] = Cardinality(ActiveOf(g)) + own[g] + Pending(g)
    BY DEF IInv, LockInv
  <2>2. locks[g] = 1 => Cardinality(ActiveOf(g)) = 0
    BY <1>1, <1>n, <2>1
  <2> QED
    BY <1>1, <1>n, <2>1, <2>2, Finite, FS_EmptySet DEF IInv
<1>3. LockInv'
  <2>2. \A h \in Goroutines : locks'[h] = Cardinality(ActiveOf(h)') + own'[h] + Pending(h)'
    BY <1>1, <1>2, <1>n, <1>l, UnlockStep DEF IInv, TypeOK, LockInv
  <2> QED
    BY <1>2, <1>l, <2>2, UnlockStep DEF LockInv
<1>4. UsingInv'
  BY <1>1 DEF IInv, UsingInv
<1>5. Balanced' /\ StaysInApartment' /\ \A t \in Threads : inits'[t] = 0 => model'[t] = "none"
  BY <1>2, <1>l, UnlockStep DEF IInv, com
<1> QED
  BY <1>3, <1>4, <1>5 DEF Rest

(* Steps that only move the goroutine on.                                  *)
LEMMA MoveInv ==
  ASSUME IInv, NEW g \in Goroutines,
         InitializeFails(g) \/ \E a \in Apartments : Close(g, a)
  PROVE  Rest'
<1> USE DEF InitializeFails, Close, Goto
<1>1. /\ thread' = thread /\ locks' = locks /\ own' = own /\ active' = active
      /\ inits' = inits /\ model' = model
  BY DEF com
<1>2. /\ \/ pc[g] = "initialize" /\ pc'[g] = "unlock"
         \/ pc[g] = "run" /\ pc'[g] = "uninitialize"
      /\ \A h \in Goroutines : h # g => pc'[h] = pc[h] /\ using'[h] = using[h]
  <2>1. CASE InitializeFails(g)
    BY <2>1 DEF IInv, TypeOK
  <2>2. CASE \E a \in Apartments : Close(g, a)
    BY <2>2 DEF IInv, TypeOK
  <2> QED
    BY <2>1, <2>2
<1>3. \A h \in Goroutines : /\ Open(h)' = Open(h) /\ ActiveOf(h)' = ActiveOf(h)
                            /\ Pending(h)' = Pending(h)
  BY <1>1, <1>2 DEF Open, ActiveOf, Pending
<1>4. LockInv'
  BY <1>1, <1>3 DEF IInv, LockInv
<1>5. UsingInv'
  <2>1. pc'[g] = "uninitialize" => using'[g] \in active /\ OwnerOf[using'[g]] = g /\ using'[g] \in Apartments
    BY <1>2 DEF IInv, TypeOK
  <2> QED
    BY <1>1, <1>2, <2>1 DEF IInv, UsingInv
<1>6. Balanced' /\ StaysInApartment'
  BY <1>1, <1>3 DEF IInv, Balanced, StaysInApartment
<1> QED
  BY <1>1, <1>4, <1>5, <1>6 DEF IInv, Rest

(* The new apartment is one more on the goroutine's thread.                *)
LEMMA InitializeInv ==
  ASSUME IInv, NEW g \in Goroutines, Initialize(g)
  PROVE  Rest'
<1> DEFINE a == using[g]
           t == thread[g]
<1> USE DEF Initialize, Goto
<1>1. /\ pc[g] = "initialize" /\ pc'[g] = "run"
      /\ thread' = thread /\ locks' = locks /\ own' = own /\ active' = active \cup {a}
      /\ \A h \in Goroutines : h # g => pc'[h] = pc[h] /\ using'[h] = using[h]
      /\ a \in Apartments /\ OwnerOf[a] = g /\ a \notin active
  BY DEF IInv, TypeOK, UsingInv
<1>2. t \in Threads /\ locks[g] > 0
  BY <1>1, ActiveIsLocked DEF Pending
<1>3. /\ model[t] \in {ModelOf[a], "none"}
      /\ inits' = [inits EXCEPT ![t] = inits[t] + 1]
      /\ model' = [model EXCEPT ![t] = ModelOf[a]]
  BY <1>1, <1>2 DEF RunsOn, InitializeCom
<1>4. /\ ActiveOf(g)' = ActiveOf(g) \cup {a} /\ Open(g)' = Open(g) \cup {a}
      /\ a \notin ActiveOf(g) /\ a \notin Open(g)
      /\ \A h \in Goroutines : h # g => ActiveOf(h)' = ActiveOf(h) /\ Open(h)' = Open(h)
  BY <1>1 DEF ActiveOf, Open
<1>5. /\ Pending(g) = 1 /\ Pending(g)' = 0
      /\ \A h \in Goroutines : h # g => Pending(h)' = Pending(h)
  BY <1>1 DEF Pending
<1> HIDE DEF a, t
<1>6. /\ Cardinality(ActiveOf(g)') = Cardinality(ActiveOf(g)) + 1
      /\ Cardinality(Open(g)') = Cardinality(Open(g)) + 1
  BY <1>4, Finite, FS_AddElement DEF IInv
<1>7. LockInv'
  <2>1. Cardinality(ActiveOf(g)) \in Nat /\ own[g] \in Nat
    BY Finite, OwnerAssumption DEF IInv, TypeOK
  <2>2. locks[g] = Cardinality(ActiveOf(g)) + own[g] + Pending(g)
    BY DEF IInv, LockInv
  <2>3. locks[g] = Cardinality(ActiveOf(g)') + own[g] + Pending(g)'
    BY <1>1, <1>4, <1>5, <1>6, <2>1, <2>2
  <2>4. \A h \in Goroutines : h # g => locks[h] = Cardinality(ActiveOf(h)') + own[h] + Pending(h)'
    BY <1>1, <1>4, <1>5, <1>6 DEF IInv, LockInv
  <2> QED
    BY <1>1, <2>3, <2>4 DEF IInv, LockInv
<1>8. UsingInv'
  BY <1>1 DEF IInv, UsingInv
<1>9. Balanced'
  <2> SUFFICES ASSUME NEW u \in Threads
               PROVE  /\ \A h \in Goroutines : thread'[h] = u => inits'[u] = Cardinality(Open(h)')
                      /\ (\A h \in Goroutines : thread'[h] # u) => inits'[u] = 0 /\ model'[u] = "none"
    BY DEF Balanced
  <2>1. CASE u = t
    <3>1. \A h \in Goroutines : thread[h] = t => h = g
      BY <1>2, OwnerAssumption DEF IInv, LockInv, t
    <3>2. inits[t] = Cardinality(Open(g))
      BY <1>2 DEF IInv, Balanced, t
    <3>3. inits'[t] = inits[t] + 1
      BY <1>2, <1>3 DEF IInv, TypeOK
    <3> QED
      BY <1>1, <1>6, <2>1, <3>1, <3>2, <3>3 DEF t
  <2>2. CASE u # t
    <3>1. inits'[u] = inits[u] /\ model'[u] = model[u]
      BY <1>2, <1>3, <2>2 DEF IInv, TypeOK
    <3>2. \A h \in Goroutines : thread[h] = u => Open(h)' = Open(h)
      BY <1>4, <2>2 DEF t
    <3> QED
      BY <1>1, <3>1, <3>2 DEF IInv, Balanced
  <2> QED
    BY <2>1, <2>2
<1>10. \A u \in Threads : inits'[u] = 0 => model'[u] = "none"
  <2>1. inits[t] \in Nat
    BY <1>2, Finite DEF IInv, Balanced, t
  <2> QED
    BY <1>2, <1>3, <2>1 DEF IInv, TypeOK
<1>11. StaysInApartment'
  <2>1. \A b \in Open(g) : ModelOf[b] = ModelOf[a]
    <3> SUFFICES ASSUME NEW b \in Open(g) PROVE ModelOf[b] = ModelOf[a]
      OBVIOUS
    <3>1. model[t] = ModelOf[b] /\ b \in Apartments
      BY DEF IInv, TypeOK, StaysInApartment, Open, t
    <3> QED
      BY <1>3, <3>1, OwnerAssumption
  <2>2. \A h \in Goroutines : h # g => thread[h] # t
    BY <1>2, OwnerAssumption DEF IInv, LockInv, t
  <2>3. model'[t] = ModelOf[a] /\ \A u \in Threads : u # t => model'[u] = model[u]
    BY <1>2, <1>3 DEF IInv, TypeOK
  <2>4. \A b \in Open(g)' : thread'[g] \in Threads /\ model'[thread'[g]] = ModelOf[b]
    BY <1>1, <1>2, <1>4, <2>1, <2>3 DEF t
  <2>5. \A h \in Goroutines : h # g =>
          \A b \in Open(h)' : thread'[h] \in Threads /\ model'[thread'[h]] = ModelOf[b]
    BY <1>1, <1>4, <2>2, <2>3 DEF IInv, StaysInApartment
  <2> QED
    BY <2>4, <2>5 DEF StaysInApartment
<1> QED
  BY <1>7, <1>8, <1>9, <1>10, <1>11 DEF Rest

(* Uninitialize takes one from the goroutine's own thread.                 *)
LEMMA UninitializeInv ==
  ASSUME IInv, NEW g \in Goroutines, Uninitialize(g)
  PROVE  Rest'
<1> DEFINE a == using[g]
           t == thread[g]
<1> USE DEF Uninitialize, Goto
<1>1. /\ pc[g] = "uninitialize" /\ pc'[g] = "deactivate" /\ using'[g] = a
      /\ thread' = thread /\ locks' = locks /\ own' = own /\ active' = active
      /\ \A h \in Goroutines : h # g => pc'[h] = pc[h] /\ using'[h] = using[h]
      /\ a \in Apartments /\ OwnerOf[a] = g /\ a \in active
  BY DEF IInv, TypeOK, UsingInv
<1>4. /\ Open(g)' = Open(g) \ {a} /\ a \in Open(g) /\ a \in ActiveOf(g)
      /\ \A h \in Goroutines : h # g => Open(h)' = Open(h)
      /\ \A h \in Goroutines : ActiveOf(h)' = ActiveOf(h) /\ Pending(h)' = Pending(h)
  BY <1>1 DEF ActiveOf, Open, Pending
<1>2. t \in Threads /\ locks[g] > 0
  BY <1>4, ActiveIsLocked
<1>3. /\ inits' = [inits EXCEPT ![t] = inits[t] - 1]
      /\ model' = IF inits[t] = 1 THEN [model EXCEPT ![t] = "none"] ELSE model
  BY <1>1, <1>2 DEF RunsOn, UninitializeCom
<1> HIDE DEF a, t
<1>6. /\ Cardinality(Open(g)') = Cardinality(Open(g)) - 1
      /\ Cardinality(Open(g)) = 1 => Open(g)' = {}
      /\ Cardinality(Open(g)) \in Nat
  <2>1. IsFiniteSet(Open(g)) /\ Cardinality(Open(g)) \in Nat
    BY Finite DEF IInv
  <2>2. IsFiniteSet(Open(g) \ {a}) /\ Cardinality(Open(g) \ {a}) = Cardinality(Open(g)) - 1
    BY <1>4, <2>1, FS_RemoveElement
  <2> QED
    BY <1>4, <2>1, <2>2, FS_EmptySet
<1>7. LockInv'
  BY <1>1, <1>4 DEF IInv, LockInv
<1>8. UsingInv'
  BY <1>1 DEF IInv, UsingInv
<1>s. /\ \A h \in Goroutines : thread[h] = t => h = g
      /\ inits[t] = Cardinality(Open(g))
  BY <1>2, OwnerAssumption DEF IInv, LockInv, Balanced, t
<1>9. Balanced'
  <2> SUFFICES ASSUME NEW u \in Threads
               PROVE  /\ \A h \in Goroutines : thread'[h] = u => inits'[u] = Cardinality(Open(h)')
                      /\ (\A h \in Goroutines : thread'[h] # u) => inits'[u] = 0 /\ model'[u] = "none"
    BY DEF Balanced
  <2>1. CASE u = t
    <3>1. inits'[t] = inits[t] - 1
      BY <1>2, <1>3 DEF IInv, TypeOK
    <3> QED
      BY <1>1, <1>6, <1>s, <2>1, <3>1 DEF t
  <2>2. CASE u # t
    <3>1. inits'[u] = inits[u] /\ model'[u] = model[u]
      BY <1>2, <1>3, <2>2 DEF IInv, TypeOK
    <3>2. \A h \in Goroutines : thread[h] = u => Open(h)' = Open(h)
      BY <1>4, <2>2 DEF t
    <3> QED
      BY <1>1, <3>1, <3>2 DEF IInv, Balanced
  <2> QED
    BY <2>1, <2>2
<1>10. \A u \in Threads : inits'[u] = 0 => model'[u] = "none"
  <2>1. inits'[t] = inits[t] - 1 /\ \A u \in Threads : u # t => inits'[u] = inits[u]
    BY <1>2, <1>3 DEF IInv, TypeOK
  <2>2. inits[t] = 1 => model'[t] = "none"
    BY <1>2, <1>3 DEF IInv, TypeOK
  <2>3. \A u \in Threads : u # t => model'[u] = model[u]
    BY <1>2, <1>3 DEF IInv, TypeOK
  <2>4. inits'[t] = 0 => inits[t] = 1
    BY <1>6, <1>s, <2>1
  <2> QED
    BY <2>1, <2>2, <2>3, <2>4 DEF IInv
<1>11. StaysInApartment'
  <2>1. \A h \in Goroutines : h # g => thread[h] # t
    BY <1>s
  <2>2. Open(g)' # {} => model' = model
    BY <1>3, <1>6, <1>s
  <2>3. \A u \in Threads : u # t => model'[u] = model[u]
    BY <1>2, <1>3 DEF IInv, TypeOK
  <2>4. \A b \in Open(g)' : thread'[g] \in Threads /\ model'[thread'[g]] = ModelOf[b]
    BY <1>1, <1>4, <2>2 DEF IInv, StaysInApartment
  <2>5. \A h \in Goroutines : h # g =>
          \A b \in Open(h)' : thread'[h] \in Threads /\ model'[thread'[h]] = ModelOf[b]
    BY <1>1, <1>4, <2>1, <2>3 DEF IInv, StaysInApartment
  <2> QED
    BY <2>4, <2>5 DEF StaysInApartment
<1> QED
  BY <1>7, <1>8, <1>9, <1>10, <1>11 DEF Rest

(* The lock of the apartment becomes one that waits to be undone.          *)
LEMMA DeactivateInv ==
  ASSUME IInv, NEW g \in Goroutines, Deactivate(g)
  PROVE  Rest'
<1> DEFINE a == using[g]
<1> USE DEF Deactivate, Goto
<1>1. /\ pc[g] = "deactivate" /\ pc'[g] = "unlock"
      /\ thread' = thread /\ locks' = locks /\ own' = own /\ active' = active \ {a}
      /\ inits' = inits /\ model' = model
      /\ \A h \in Goroutines : h # g => pc'[h] = pc[h] /\ using'[h] = using[h]
      /\ a \in Apartments /\ OwnerOf[a] = g /\ a \in active
  BY DEF IInv, TypeOK, UsingInv, com
<1>2. /\ ActiveOf(g)' = ActiveOf(g) \ {a} /\ a \in ActiveOf(g)
      /\ \A h \in Goroutines : h # g => ActiveOf(h)' = ActiveOf(h)
      /\ \A h \in Goroutines : Open(h)' = Open(h)
  BY <1>1 DEF ActiveOf, Open
<1>3. /\ Pending(g) = 0 /\ Pending(g)' = 1
      /\ \A h \in Goroutines : h # g => Pending(h)' = Pending(h)
  BY <1>1 DEF Pending
<1>u. \A h \in Goroutines : h # g => using[h] # a \/ pc[h] \notin {"uninitialize", "deactivate"}
  BY <1>1 DEF IInv, UsingInv
<1> HIDE DEF a
<1>4. Cardinality(ActiveOf(g)') = Cardinality(ActiveOf(g)) - 1
  BY <1>2, Finite, FS_RemoveElement DEF IInv
<1>5. LockInv'
  <2>1. Cardinality(ActiveOf(g)) \in Nat /\ own[g] \in Nat
    BY Finite, OwnerAssumption DEF IInv, TypeOK
  <2>2. locks[g] = Cardinality(ActiveOf(g)) + own[g] + Pending(g)
    BY DEF IInv, LockInv
  <2>3. locks[g] = Cardinality(ActiveOf(g)') + own[g] + Pending(g)'
    BY <1>1, <1>2, <1>3, <1>4, <2>1, <2>2
  <2>4. \A h \in Goroutines : h # g => locks[h] = Cardinality(ActiveOf(h)') + own[h] + Pending(h)'
    BY <1>1, <1>2, <1>3, <1>4 DEF IInv, LockInv
  <2> QED
    BY <1>1, <2>3, <2>4 DEF IInv, LockInv
<1>6. UsingInv'
  BY <1>1, <1>u DEF IInv, UsingInv
<1>7. Balanced' /\ StaysInApartment'
  BY <1>1, <1>2 DEF IInv, Balanced, StaysInApartment
<1> QED
  BY <1>1, <1>5, <1>6, <1>7 DEF IInv, Rest

(* The inductive invariant holds in every reachable state.                 *)
THEOREM Invariance == Spec => []IInv
<1>1. IInv /\ [Next]_vars => IInv'
  <2> SUFFICES ASSUME IInv, [Next]_vars PROVE IInv'
    OBVIOUS
  <2>1. CASE Next
    BY <2>1, EnterInv, OwnLockInv, UnlockInv, OwnUnlockInv, MoveInv, InitializeInv,
       UninitializeInv, DeactivateInv, TypeStep
    DEF Next, Call, Rest, IInv
  <2>2. CASE UNCHANGED vars
    <3>1. \A h \in Goroutines : /\ Open(h)' = Open(h) /\ ActiveOf(h)' = ActiveOf(h)
                                /\ Pending(h)' = Pending(h)
      BY <2>2 DEF vars, go, Open, ActiveOf, Pending
    <3>2. LockInv' /\ UsingInv'
      BY <2>2, <3>1 DEF vars, go, IInv, LockInv, UsingInv
    <3>3. Balanced' /\ StaysInApartment'
      BY <2>2, <3>1 DEF vars, go, com, IInv, Balanced, StaysInApartment
    <3> QED
      BY <2>2, <3>2, <3>3, TypeStep DEF vars, com, IInv
  <2> QED
    BY <2>1, <2>2
<1> QED
  BY InitInv, <1>1, PTL DEF Spec

(* The initializations of a thread are those of the goroutine locked to    *)
(* it, and a thread without one is not initialized.                        *)
THEOREM ThreadsAreBalanced == Spec => []Balanced
BY Invariance, PTL DEF IInv

(* A goroutine stays in the apartment it entered until it closes it.       *)
THEOREM GoroutinesStayInApartments == Spec => []StaysInApartment
BY Invariance, PTL DEF IInv

(* A goroutine with no apartment has no locks but its own.                 *)
THEOREM NoApartmentNoLock == Spec => []Unpinned
<1>1. IInv => Unpinned
  <2> SUFFICES ASSUME IInv, NEW g \in Goroutines, pc[g] = "run", Open(g) = {}
               PROVE  locks[g] = own[g]
    BY DEF Unpinned
  <2>1. ActiveOf(g) = {} /\ Pending(g) = 0 /\ own[g] \in Nat
    BY Finite, OwnerAssumption DEF IInv, TypeOK, Pending
  <2> QED
    BY <2>1, FS_EmptySet DEF IInv, LockInv
<1> QED
  BY <1>1, Invariance, PTL

(* Threads and goroutines give back what apartments took.                  *)
THEOREM LocksStayBalanced == Spec => []LocksAreBalanced
BY ThreadsAreBalanced, NoApartmentNoLock, PTL DEF LocksAreBalanced

-----------------------------------------------------------------------------
Below(c, p) ==
  IF c = Loader THEN {p, DllOf[p]} ELSE IF c = p THEN {} ELSE {p}

Holds(g) ==
  IF step[g] = "idle" THEN {}
  ELSE Below(at[g], target[g]) \cup (IF step[g] = "native" THEN {at[g]} ELSE {})

(* Where a goroutine can be.                                               *)
PlaceInv ==
  \A g \in Callers :
    IF step[g] = "idle"
    THEN target[g] = NoCell
    ELSE /\ target[g] \in Procs
         /\ at[g] \in Chain(target[g])
         /\ step[g] = "return" => once[at[g]] = "done"
         /\ step[g] = "native" /\ at[g] # Loader => value[Parent[at[g]]] = "address"

HoldInv ==
  /\ \A g \in Callers : \A c \in Holds(g) : once[c] = "running"
  /\ \A g, h \in Callers : Holds(g) \cap Holds(h) # {} => g = h

(* What a cell holds, before and after its body is over.                   *)
Unresolved(c) == value[c] = "zero" /\ native[c] = 0 /\ c \notin failed

Resolved(c) ==
  \/ /\ value[c] = "address"
     /\ native[c] = 1
     /\ c \notin failed
     /\ c # Loader => value[Parent[c]] = "address"
  \/ /\ value[c] = c
     /\ native[c] = 1
     /\ c \in failed
     /\ c # Loader => value[Parent[c]] = "address"
  \/ /\ c # Loader
     /\ value[c] = value[Parent[c]]
     /\ value[c] \in Cell \cap failed
     /\ native[c] = 0
     /\ c \notin failed

CellInv ==
  /\ \A c \in Cell : IF once[c] = "done" THEN Resolved(c) ELSE Unresolved(c)
  /\ \A p \in Procs : \A v \in answers[p] : once[p] = "done" /\ v = value[p]

LazyInv == LazyTypeOK /\ PlaceInv /\ HoldInv /\ CellInv

-----------------------------------------------------------------------------
(* The three layers are disjoint, and a parent is one layer up.            *)
LEMMA Layers ==
  /\ \A p \in Procs : /\ p \in Cell /\ p # Loader /\ p \notin DLLs /\ p # NoCell
                      /\ DllOf[p] \in DLLs /\ Parent[p] = DllOf[p]
  /\ \A d \in DLLs : d \in Cell /\ d # Loader /\ d \notin Procs /\ d # NoCell /\ Parent[d] = Loader
  /\ Loader \in Cell /\ Loader # NoCell
  /\ \A c \in Cell : c # "zero" /\ c # "address"
BY CellAssumption DEF Cell, Parent

(* Before anybody called anything the invariant holds.                     *)
LEMMA LazyInitInv == LazyInit => LazyInv
BY Layers DEF LazyInit, LazyInv, LazyTypeOK, PlaceInv, HoldInv, Holds, CellInv, Unresolved, Value

(* Every step keeps the types.                                             *)
LEMMA LazyTypeStep == LazyInv /\ [LazyNext]_lazyVars => LazyTypeOK'
<1> SUFFICES ASSUME LazyInv, [LazyNext]_lazyVars PROVE LazyTypeOK'
  OBVIOUS
<1> USE DEF LazyInv, LazyTypeOK, Value
<1>1. ASSUME NEW g \in Callers, NEW p \in Procs, CallProc(g, p) PROVE LazyTypeOK'
  BY <1>1, Layers DEF CallProc, MoveTo, cells
<1>2. ASSUME NEW g \in Callers, Resolve(g) PROVE LazyTypeOK'
  <2>1. /\ step[g] # "idle"
        /\ target[g] \in Procs
        /\ at[g] \in Cell
        /\ at[g] # Loader => Parent[at[g]] \in Cell
        /\ Child(at[g], target[g]) \in Cell
    BY <1>2, Layers DEF PlaceInv, Resolve, RunBody, SkipBody, CallNative, ReturnToBody, Answer,
                        Chain, Child, Cell
  <2>2. CASE RunBody(g)
    BY <2>1, <2>2, Layers DEF RunBody, MoveTo
  <2>3. CASE SkipBody(g)
    BY <2>1, <2>3 DEF SkipBody, MoveTo, cells
  <2>4. CASE CallNative(g)
    BY <2>1, <2>4 DEF CallNative, MoveTo, Finish
  <2>5. CASE ReturnToBody(g)
    BY <2>1, <2>5 DEF ReturnToBody, MoveTo, Finish
  <2>6. CASE Answer(g)
    BY <2>1, <2>6 DEF Answer, MoveTo, cells
  <2> QED
    BY <1>2, <2>2, <2>3, <2>4, <2>5, <2>6 DEF Resolve
<1>3. CASE UNCHANGED lazyVars
  BY <1>3 DEF lazyVars, cells
<1> QED
  BY <1>1, <1>2, <1>3 DEF LazyNext

(* What a goroutine that is resolving knows of its own cells.              *)
LEMMA Here ==
  ASSUME LazyInv, NEW g \in Callers, Resolve(g)
  PROVE  /\ step[g] # "idle"
         /\ target[g] \in Procs
         /\ at[g] \in Cell
         /\ at[g] \in Chain(target[g])
         /\ at[g] = target[g] <=> at[g] \in Procs
         /\ at[g] # target[g] => /\ Child(at[g], target[g]) \in Holds(g)
                                /\ Child(at[g], target[g]) \in Chain(target[g])
                                /\ Parent[Child(at[g], target[g])] = at[g]
                                /\ Child(at[g], target[g]) \in Procs \cup DLLs
  BY Layers DEF LazyInv, PlaceInv, Resolve, RunBody, SkipBody, CallNative, ReturnToBody, Answer,
                Chain, Child, Cell, Holds, Below

(* A call that begins holds no Once yet.                                   *)
LEMMA CallInv ==
  ASSUME LazyInv, NEW g \in Callers, NEW p \in Procs, CallProc(g, p)
  PROVE  PlaceInv' /\ HoldInv' /\ CellInv'
<1> USE DEF LazyInv, LazyTypeOK, CallProc, MoveTo, cells
<1>1. PlaceInv'
  BY Layers DEF PlaceInv, Chain
<1>2. \A h \in Callers : Holds(h)' = Holds(h)
  BY Layers DEF Holds, Below
<1>3. HoldInv'
  BY <1>2 DEF HoldInv
<1>4. CellInv'
  BY DEF CellInv, Resolved, Unresolved
<1> QED
  BY <1>1, <1>3, <1>4

(* Running the body of a Once makes the goroutine its holder.              *)
LEMMA RunBodyInv ==
  ASSUME LazyInv, NEW g \in Callers, RunBody(g)
  PROVE  PlaceInv' /\ HoldInv' /\ CellInv'
<1> USE DEF LazyInv, LazyTypeOK, RunBody, MoveTo
<1>h. step[g] = "do" /\ once[at[g]] = "new" /\ target[g] \in Procs /\ at[g] \in Cell
  BY Here DEF Resolve
<1>1. PlaceInv'
  BY <1>h, Here, Layers DEF PlaceInv, Chain, Resolve
<1>2. /\ Holds(g)' = Holds(g) \cup {at[g]}
      /\ \A h \in Callers \ {g} : Holds(h)' = Holds(h)
  <2>1. \A h \in Callers \ {g} : Holds(h)' = Holds(h)
    BY <1>h DEF Holds
  <2>2. CASE at[g] = Loader
    BY <1>h, <2>1, <2>2 DEF Holds, Below
  <2>3. CASE at[g] # Loader
    <3>1. /\ at'[g] = Parent[at[g]]
          /\ step'[g] = "do"
          /\ target' = target
      BY <1>h, <2>3
    <3>2. at[g] \in {target[g], DllOf[target[g]]}
      BY <1>h, <2>3, Here DEF Resolve, Chain
    <3>3. /\ Holds(g) = Below(at[g], target[g])
          /\ Holds(g)' = Below(Parent[at[g]], target[g])
      BY <1>h, <3>1 DEF Holds, Below
    <3>4. Below(Parent[at[g]], target[g]) = Below(at[g], target[g]) \cup {at[g]}
      BY <1>h, <2>3, <3>2, Layers DEF Below
    <3> QED
      BY <2>1, <3>3, <3>4
  <2> QED
    BY <2>1, <2>2, <2>3
<1>3. \A h \in Callers : at[g] \notin Holds(h)
  BY <1>h DEF HoldInv
<1>4. HoldInv'
  <2>1. \A h \in Callers : \A c \in Holds(h) : c \in Cell
    BY Layers DEF Holds, Below, PlaceInv, Chain
  <2> QED
    BY <1>h, <1>2, <1>3, <2>1 DEF HoldInv
<1>5. CellInv'
  BY <1>h, Layers DEF CellInv, Resolved, Unresolved
<1> QED
  BY <1>1, <1>4, <1>5

(* A Once that is done is passed without holding it.                       *)
LEMMA SkipBodyInv ==
  ASSUME LazyInv, NEW g \in Callers, SkipBody(g)
  PROVE  PlaceInv' /\ HoldInv' /\ CellInv'
<1> USE DEF LazyInv, LazyTypeOK, SkipBody, MoveTo, cells
<1>h. step[g] = "do" /\ target[g] \in Procs /\ at[g] \in Cell
  BY Here DEF Resolve
<1>1. PlaceInv'
  BY <1>h DEF PlaceInv, Chain
<1>2. \A h \in Callers : Holds(h)' = Holds(h)
  BY <1>h DEF Holds
<1>3. HoldInv'
  BY <1>2 DEF HoldInv
<1>4. CellInv'
  BY DEF CellInv, Resolved, Unresolved
<1> QED
  BY <1>1, <1>3, <1>4

(* The native call of a cell ends its Once, with what the call gave.       *)
LEMMA CallNativeInv ==
  ASSUME LazyInv, NEW g \in Callers, CallNative(g)
  PROVE  PlaceInv' /\ HoldInv' /\ CellInv'
<1> USE DEF LazyInv, LazyTypeOK, CallNative, MoveTo, Finish
<1>h. step[g] = "native" /\ target[g] \in Procs /\ at[g] \in Cell
  BY Here DEF Resolve
<1>r. /\ at[g] \in Holds(g)
      /\ once[at[g]] = "running"
      /\ Unresolved(at[g])
  BY <1>h DEF Holds, HoldInv, CellInv
<1>w. /\ once' = [once EXCEPT ![at[g]] = "done"]
      /\ native'[at[g]] = 1
      /\ \A c \in Cell \ {at[g]} : native'[c] = native[c] /\ value'[c] = value[c]
      /\ \A c \in Cell \ {at[g]} : c \in failed' <=> c \in failed
  BY <1>h, <1>r DEF Unresolved
<1>1. PlaceInv'
  <2>1. \A h \in Callers, c \in Cell : c # at[g] /\ value[c] = "address" => value'[c] = "address"
    BY <1>w
  <2>2. \A h \in Callers : step[h] = "native" /\ at[h] # Loader => Parent[at[h]] # at[g]
    BY <1>r, Layers DEF PlaceInv, Unresolved
  <2> QED
    BY <1>h, <1>w, <2>1, <2>2, Layers DEF PlaceInv, Chain
<1>2. /\ Holds(g)' = Holds(g) \ {at[g]}
      /\ \A h \in Callers \ {g} : Holds(h)' = Holds(h)
  BY <1>h, Here, Layers DEF Holds, Below, Resolve, Chain, Cell
<1>3. HoldInv'
  <2>1. \A h \in Callers : \A c \in Holds(h) : c \in Cell
    BY Layers DEF Holds, Below, PlaceInv, Chain
  <2>2. \A h \in Callers \ {g} : at[g] \notin Holds(h)
    BY <1>r DEF HoldInv
  <2> QED
    BY <1>w, <1>2, <2>1, <2>2 DEF HoldInv
<1>4. CellInv'
  <2>1. \A c \in Cell : c # at[g] /\ once[c] = "done" /\ c # Loader => Parent[c] # at[g]
    BY <1>r, Layers DEF CellInv, Resolved, Unresolved
  <2>2. at[g] # Loader => value[Parent[at[g]]] = "address" /\ Parent[at[g]] # at[g]
    BY <1>h, <1>r, Layers DEF PlaceInv, Unresolved
  <2>3. \A c \in Cell : c = at[g] => Resolved(c)'
    <3>1. at[g] # Loader => Parent[at[g]] \in Cell
      BY <1>h, Layers DEF Cell
    <3>2. \/ value'[at[g]] = "address" /\ failed' = failed
          \/ value'[at[g]] = at[g] /\ at[g] \in failed'
      BY <1>h
    <3>3. at[g] # Loader => value'[Parent[at[g]]] = "address"
      BY <1>w, <2>2, <3>1
    <3> QED
      BY <1>r, <1>w, <3>2, <3>3 DEF Resolved, Unresolved
  <2>4. \A c \in Cell \ {at[g]} : once[c] = "done" => Resolved(c)'
    <3> SUFFICES ASSUME NEW c \in Cell \ {at[g]}, once[c] = "done" PROVE Resolved(c)'
      OBVIOUS
    <3>1. Resolved(c)
      BY DEF CellInv
    <3>2. c # Loader => Parent[c] \in Cell \ {at[g]}
      BY <2>1, Layers DEF Cell
    <3> QED
      BY <1>w, <3>1, <3>2 DEF Resolved
  <2>5. \A c \in Cell \ {at[g]} : once[c] # "done" => Unresolved(c)'
    BY <1>w DEF CellInv, Unresolved
  <2>6. \A p \in Procs : \A v \in answers[p] : p # at[g]
    BY <1>r DEF CellInv
  <2>7. \A p \in Procs : \A v \in answers'[p] : once'[p] = "done" /\ v = value'[p]
    BY <1>w, <2>6, Layers DEF CellInv
  <2> QED
    BY <1>h, <1>w, <2>3, <2>4, <2>5, <2>7 DEF CellInv
<1> QED
  BY <1>1, <1>3, <1>4

(* An error of the parent ends the child's Once; a success lets the child  *)
(* make its native call.                                                   *)
LEMMA ReturnToBodyInv ==
  ASSUME LazyInv, NEW g \in Callers, ReturnToBody(g)
  PROVE  PlaceInv' /\ HoldInv' /\ CellInv'
<1> DEFINE child == Child(at[g], target[g])
<1> USE DEF LazyInv, LazyTypeOK, ReturnToBody, MoveTo, Finish
<1>h. /\ step[g] = "return" /\ target[g] \in Procs /\ at[g] \in Cell
      /\ once[at[g]] = "done"
      /\ child \in Holds(g) /\ child \in Cell /\ child # Loader
      /\ child \in Chain(target[g]) /\ Parent[child] = at[g]
      /\ once[child] = "running" /\ Unresolved(child)
      /\ native' = native /\ failed' = failed /\ target' = target /\ answers' = answers
  <2>1. /\ step[g] = "return" /\ at[g] # target[g]
        /\ native' = native /\ failed' = failed /\ target' = target /\ answers' = answers
    OBVIOUS
  <2>2. /\ target[g] \in Procs /\ at[g] \in Cell
        /\ child \in Holds(g) /\ child \in Chain(target[g])
        /\ Parent[child] = at[g] /\ child \in Procs \cup DLLs
    BY <2>1, Here DEF Resolve
  <2>3. child \in Cell /\ child # Loader
    BY <2>2, Layers
  <2>4. once[at[g]] = "done"
    BY <2>1 DEF PlaceInv
  <2>5. once[child] = "running"
    BY <2>2 DEF HoldInv
  <2>6. Unresolved(child)
    BY <2>3, <2>5 DEF CellInv
  <2> QED
    BY <2>1, <2>2, <2>3, <2>4, <2>5, <2>6
<1> HIDE DEF child
<1>c. \A h \in Callers : \A c \in Holds(h) : c \in Cell
  BY Layers DEF Holds, Below, PlaceInv, Chain
<1>b. Below(at[g], target[g]) = Below(child, target[g]) \cup {child}
      /\ child \notin Below(child, target[g])
  BY <1>h, Here, Layers DEF Resolve, child, Child, Below, Chain
<1>1. CASE value[at[g]] \in Cell
  <2>w. /\ once' = [once EXCEPT ![child] = "done"]
        /\ value' = [value EXCEPT ![child] = value[at[g]]]
        /\ at' = [at EXCEPT ![g] = child]
        /\ step' = [step EXCEPT ![g] = "return"]
    BY <1>1 DEF child
  <2>1. PlaceInv'
    <3>1. \A c \in Cell : value[c] = "address" => value'[c] = "address"
      BY <1>h, <2>w, Layers DEF Unresolved
    <3>2. \A h \in Callers : h # g => at'[h] = at[h] /\ step'[h] = step[h]
      BY <2>w
    <3>3. at'[g] = child /\ step'[g] = "return" /\ once'[child] = "done"
      BY <1>h, <2>w
    <3>4. \A c \in Cell : once[c] = "done" => once'[c] = "done"
      BY <1>h, <2>w
    <3> QED
      BY <1>h, <3>1, <3>2, <3>3, <3>4, Layers DEF PlaceInv, Chain, Cell
  <2>2. /\ Holds(g)' = Holds(g) \ {child}
        /\ \A h \in Callers \ {g} : Holds(h)' = Holds(h)
    BY <1>h, <1>b, <2>w DEF Holds, Below
  <2>3. HoldInv'
    BY <1>h, <1>c, <2>w, <2>2 DEF HoldInv
  <2>4. CellInv'
    <3>1. \A c \in Cell : c = child => Resolved(c)'
      <4>1. at[g] # child
        BY <1>h
      <4>2. value'[child] = value[at[g]] /\ value'[at[g]] = value[at[g]]
        BY <1>h, <2>w, <4>1
      <4>3. value[at[g]] \in failed
        <5>1. Resolved(at[g])
          BY <1>h DEF CellInv
        <5> QED
          BY <1>1, <5>1, Layers DEF Resolved
      <4> QED
        BY <1>1, <1>h, <4>2, <4>3 DEF Resolved, Unresolved
    <3>2. \A c \in Cell \ {child} : once[c] = "done" => Resolved(c)'
      <4> SUFFICES ASSUME NEW c \in Cell \ {child}, once[c] = "done" PROVE Resolved(c)'
        OBVIOUS
      <4>1. Resolved(c)
        BY DEF CellInv
      <4>2. c # Loader => Parent[c] \in Cell \ {child}
        BY <1>h, <4>1, Layers DEF Resolved, Unresolved, Cell
      <4> QED
        BY <1>h, <2>w, <4>1, <4>2 DEF Resolved
    <3>3. \A c \in Cell \ {child} : once[c] # "done" => Unresolved(c)'
      BY <1>h, <2>w DEF CellInv, Unresolved
    <3>4. \A p \in Procs : \A v \in answers'[p] : once'[p] = "done" /\ v = value'[p]
      BY <1>h, <2>w, Layers DEF CellInv
    <3> QED
      BY <1>h, <2>w, <3>1, <3>2, <3>3, <3>4 DEF CellInv
  <2> QED
    BY <2>1, <2>3, <2>4
<1>2. CASE value[at[g]] \notin Cell
  <2>w. /\ once' = once /\ value' = value
        /\ at' = [at EXCEPT ![g] = child]
        /\ step' = [step EXCEPT ![g] = "native"]
    BY <1>2 DEF child
  <2>1. value[at[g]] = "address"
    <3>1. Resolved(at[g])
      BY <1>h DEF CellInv
    <3> QED
      BY <1>2, <1>h, <3>1 DEF Resolved
  <2>2. PlaceInv'
    <3>1. \A h \in Callers : h # g => at'[h] = at[h] /\ step'[h] = step[h]
      BY <2>w
    <3>2. at'[g] = child /\ step'[g] = "native"
      BY <2>w
    <3> QED
      BY <1>h, <2>w, <2>1, <3>1, <3>2 DEF PlaceInv, Chain
  <2>3. \A h \in Callers : Holds(h)' = Holds(h)
    BY <1>h, <1>b, <2>w DEF Holds, Below
  <2>4. HoldInv'
    BY <2>w, <2>3 DEF HoldInv
  <2>5. CellInv'
    BY <1>h, <2>w DEF CellInv, Resolved, Unresolved
  <2> QED
    BY <2>2, <2>4, <2>5
<1> QED
  BY <1>1, <1>2

(* The answer given is the resolved value of the procedure.                *)
LEMMA AnswerInv ==
  ASSUME LazyInv, NEW g \in Callers, Answer(g)
  PROVE  PlaceInv' /\ HoldInv' /\ CellInv'
<1> USE DEF LazyInv, LazyTypeOK, Answer, MoveTo, cells
<1>h. step[g] = "return" /\ target[g] \in Procs /\ at[g] = target[g] /\ once[at[g]] = "done"
  BY Here DEF Resolve, PlaceInv
<1>1. PlaceInv'
  BY <1>h DEF PlaceInv, Chain
<1>2. \A h \in Callers : Holds(h)' = Holds(h)
  BY <1>h, Layers DEF Holds, Below
<1>3. HoldInv'
  BY <1>2 DEF HoldInv
<1>4. CellInv'
  <2>1. \A p \in Procs : \A v \in answers'[p] : v \in answers[p] \/ (p = at[g] /\ v = value[p])
    BY <1>h
  <2> QED
    BY <1>h, <2>1 DEF CellInv, Resolved, Unresolved
<1> QED
  BY <1>1, <1>3, <1>4

(* The inductive invariant holds in every reachable state.                 *)
THEOREM LazyInvariance == LazySpec => []LazyInv
<1>1. LazyInv /\ [LazyNext]_lazyVars => LazyInv'
  <2> SUFFICES ASSUME LazyInv, [LazyNext]_lazyVars PROVE LazyInv'
    OBVIOUS
  <2>1. LazyTypeOK'
    BY LazyTypeStep
  <2>2. CASE LazyNext
    BY <2>1, <2>2, CallInv, RunBodyInv, SkipBodyInv, CallNativeInv, ReturnToBodyInv, AnswerInv
    DEF LazyNext, Resolve, LazyInv
  <2>3. CASE UNCHANGED lazyVars
    BY <2>1, <2>3
    DEF lazyVars, cells, LazyInv, PlaceInv, HoldInv, Holds, CellInv, Resolved, Unresolved
  <2> QED
    BY <2>2, <2>3
<1> QED
  BY LazyInitInv, <1>1, PTL DEF LazySpec

(* However the first calls of a procedure race, every caller gets the same *)
(* answer, and no caller an unresolved address.                            *)
THEOREM EveryoneGetsOneAnswer == LazySpec => []OneAnswer
<1>1. LazyInv => OneAnswer
  BY Layers DEF LazyInv, CellInv, OneAnswer, Resolved
<1> QED
  BY <1>1, LazyInvariance, PTL

(* No layer repeats its native call, or makes it before the layers above   *)
(* have succeeded.                                                         *)
THEOREM NativeCallsAreOrdered == LazySpec => []NativeOnceInOrder
<1>1. LazyInv => NativeOnceInOrder
  <2> SUFFICES ASSUME LazyInv, NEW c \in Cell
               PROVE  /\ native[c] <= 1
                      /\ c # Loader /\ native[c] = 1 =>
                           native[Parent[c]] = 1 /\ Parent[c] \notin failed
    BY DEF NativeOnceInOrder
  <2>1. Resolved(c) \/ Unresolved(c)
    BY DEF LazyInv, CellInv
  <2>2. c # Loader => /\ Parent[c] \in Cell
                      /\ Resolved(Parent[c]) \/ Unresolved(Parent[c])
    BY Layers DEF LazyInv, CellInv, Cell
  <2> QED
    BY <2>1, <2>2, Layers DEF Resolved, Unresolved
<1> QED
  BY <1>1, LazyInvariance, PTL

(* An address comes from layers that all succeeded, an error from a layer  *)
(* of the procedure's own chain that failed.                               *)
THEOREM AnswersTellTheTruth == LazySpec => []AnswersAreTrue
<1>1. LazyInv => AnswersAreTrue
  <2> SUFFICES ASSUME LazyInv, NEW p \in Procs, NEW v \in answers[p]
               PROVE  /\ v = "address" => /\ Chain(p) \cap failed = {}
                                          /\ \A c \in Chain(p) : native[c] = 1
                      /\ v \in Cell => v \in Chain(p) \cap failed
    BY DEF AnswersAreTrue
  <2>1. v = value[p] /\ Resolved(p)
    BY Layers DEF LazyInv, CellInv
  <2>2. /\ p \in Cell /\ p # Loader /\ Parent[p] = DllOf[p] /\ DllOf[p] \in Cell
        /\ DllOf[p] # Loader /\ Parent[DllOf[p]] = Loader /\ Loader \in Cell
    BY Layers
  <2>3. /\ Resolved(DllOf[p]) \/ Unresolved(DllOf[p])
        /\ Resolved(Loader) \/ Unresolved(Loader)
    BY <2>2 DEF LazyInv, CellInv
  <2> QED
    BY <2>1, <2>2, <2>3, Layers DEF Resolved, Unresolved, Chain
<1> QED
  BY <1>1, LazyInvariance, PTL

(* What TryCall, Available and Call return is settled once, and true.       *)
THEOREM AnswersStayTrue == LazySpec => []AnswersHold
<1>1. OneAnswer /\ AnswersAreTrue => AnswersHold
  BY DEF AnswersHold
<1> QED
  BY <1>1, EveryoneGetsOneAnswer, AnswersTellTheTruth, PTL

(* Only a goroutine that calls a procedure of a DLL loads that DLL.        *)
THEOREM DLLsAreLoadedOnDemand == LazySpec => LoadedOnDemand
<1>1. LazyInv /\ [LazyNext]_lazyVars =>
        [\A d \in DLLs : native'[d] > native[d] =>
           \E g \in Callers : target[g] \in Procs /\ DllOf[target[g]] = d]_lazyVars
  <2> SUFFICES ASSUME LazyInv, LazyNext, NEW d \in DLLs, native'[d] > native[d]
               PROVE  \E g \in Callers : target[g] \in Procs /\ DllOf[target[g]] = d
    OBVIOUS
  <2>1. PICK g \in Callers : CallNative(g)
    BY Layers DEF LazyNext, CallProc, Resolve, RunBody, SkipBody, ReturnToBody, Answer, cells, LazyInv, LazyTypeOK
  <2>2. d = at[g]
    BY <2>1, Layers DEF CallNative, LazyInv, LazyTypeOK
  <2>3. target[g] \in Procs /\ at[g] \in Chain(target[g])
    BY <2>1, Here DEF Resolve
  <2> QED
    BY <2>2, <2>3, Layers DEF Chain
<1> QED
  BY <1>1, LazyInvariance, PTL DEF LazySpec, LoadedOnDemand
=============================================================================
