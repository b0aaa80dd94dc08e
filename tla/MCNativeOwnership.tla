-------------------------- MODULE MCNativeOwnership --------------------------
(* Two goroutines and three native allocations; and every outcome of one    *)
(* native call, as its caller is told of it.  The two share no state: who   *)
(* owns what does not depend on the words of a call, so either is explored  *)
(* while the other rests.                                                   *)
EXTENDS NativeOwnership, NativeCalls

CONSTANTS c1, c2

MCCallers == {c1, c2}
MCCounts == {0, 1, 3, 4, 7, 8, 15, 100, 128, 255}

Resting == available = Kind /\ \A c \in Callers : held[c] = [kind |-> "bstr", pointer |-> Nil]

MCInit == Init /\ InitCalls

MCNext ==
  \/ Next /\ native = NoNative /\ UNCHANGED calls
  \/ next = 1 /\ Resting /\ NextCall /\ UNCHANGED vars

MCSpec == MCInit /\ [][MCNext]_<<vars, calls>>
=============================================================================
