------------------------------ MODULE MCRuntime ------------------------------
(***************************************************************************)
(* The runtime under a few goroutines: LazyProc with two DLLs, one of them *)
(* with two exports; and Apartment with three apartments of both models    *)
(* for one goroutine and two for another.  Loading a procedure and staying *)
(* in an apartment share no state, so either is explored while the other   *)
(* rests.                                                                  *)
(***************************************************************************)
EXTENDS LazyProc, Apartment, TLC

CONSTANTS g1, g2, g3, p1, p2, p3, d1, d2, t1, t2, t3, a1, a2, a3, b1, b2

MCCallers == {g1, g2, g3}
MCProcs   == {p1, p2, p3}
MCDLLs    == {d1, d2}
MCDllOf   == (p1 :> d1) @@ (p2 :> d1) @@ (p3 :> d2)

MCGoroutines == {g1, g2}
MCThreads    == {t1, t2, t3}
MCApartments == {a1, a2, a3, b1, b2}
MCOwnerOf    == (a1 :> g1) @@ (a2 :> g1) @@ (a3 :> g1) @@ (b1 :> g2) @@ (b2 :> g2)
MCModelOf    == [a \in MCApartments |-> IF a \in {a3, b2} THEN "MTA" ELSE "STA"]

NobodyEntered == active = {} /\ \A g \in Goroutines : locks[g] = 0 /\ pc[g] = "run"
NobodyLoads == \A g \in Callers : step[g] = "idle" /\ \A c \in Cell : once[c] = "new"

LoadStep == NobodyEntered /\ LazyNext /\ UNCHANGED vars
ApartmentStep == NobodyLoads /\ Next /\ UNCHANGED lazyVars

MCInit == Init /\ LazyInit

MCSpec ==
  /\ MCInit
  /\ [][LoadStep \/ ApartmentStep]_<<vars, lazyVars>>
  /\ \A g \in Callers : WF_lazyVars(Resolve(g))
=============================================================================
