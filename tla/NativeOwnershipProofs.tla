----------------------- MODULE NativeOwnershipProofs -----------------------
(***************************************************************************)
(* Native memory is freed once and never used after, for every number of   *)
(* goroutines and of allocations, and whichever freeing procedures resolve.*)
(*                                                                         *)
(* The pointers of the owners and of the running calls are all different,  *)
(* and each of them is to an allocation nobody has freed; so the one that  *)
(* is freed next is freed for the first time, and nobody else has it.      *)
(*                                                                         *)
(* And the outcomes of native calls are told as they were (NativeCalls),   *)
(* for every width of a byte: the Go functions look at the halves of words *)
(* and compare counts with quotients, the property speaks of the numbers.  *)
(***************************************************************************)
EXTENDS NativeOwnership, NativeCalls, FiniteSetTheorems, SequenceTheorems, TLAPS

(* The pointer of an owner, and that of a running call.                    *)
Own(c)  == held[c].pointer
Lent(c) == IF call[c].at = "none" THEN Nil ELSE call[c].pointer

Distinct ==
  \A c, d \in Callers :
    /\ Own(c) # Nil /\ Own(c) = Own(d) => c = d
    /\ Lent(c) # Nil /\ Lent(c) = Lent(d) => c = d
    /\ Own(c) # Nil => Own(c) # Lent(d)

Alive(a) == a # Nil => a \in Allocation /\ a < next /\ frees[a] = 0 /\ a \notin lost

Owned ==
  \A a \in Allocation :
    a < next /\ frees[a] = 0 /\ a \notin lost =>
      \E c \in Callers : Own(c) = a \/ Lent(c) = a

Unused == \A a \in Allocation : next <= a => frees[a] = 0 /\ a \notin lost

Running == \A c \in Callers : call[c].at # "none" => call[c].pointer # Nil

OwnInv ==
  /\ \A a \in Allocation : frees[a] \in {0, 1}
  /\ \A c \in Callers : Alive(Own(c)) /\ Alive(Lent(c))
  /\ Distinct
  /\ Owned
  /\ Unused
  /\ Running

(* The types are kept by every step.                                       *)
LEMMA TypeStep == TypeOK /\ Running /\ [Next]_vars => TypeOK'
<1> SUFFICES ASSUME TypeOK, Running, [Next]_vars PROVE TypeOK'
  OBVIOUS
<1>0. /\ next <= MaxAllocations => next \in Allocation /\ next + 1 \in 1..MaxAllocations + 1
      /\ available' = available
  BY MaxAllocationsAssumption
  DEF TypeOK, Allocation, Next, vars, New, Close, GetIIDs, CheckLength, CopyIIDs, FreeIIDs, MakeName,
      Activate, CloseName, FreeAtReturn
<1> USE <1>0 DEF TypeOK, Kind, Step
<1>1. ASSUME NEW c \in Callers, NEW kind \in Kind, New(c, kind) PROVE TypeOK'
  BY <1>1 DEF New
<1>2. ASSUME NEW c \in Callers, Close(c) PROVE TypeOK'
  <2>1. held[c].kind \in {"bstr", "memory", "hstring"} /\ held[c].pointer \in Allocation
    BY <1>2 DEF Close
  <2>2. held' \in [Callers -> [kind : Kind, pointer : Allocation \cup {Nil}]]
    BY <1>2 DEF Close
  <2>3. frees' \in [Allocation -> Nat]
    BY <1>2, <2>1 DEF Close
  <2> QED
    BY <1>2, <2>2, <2>3 DEF Close
<1>3. ASSUME NEW c \in Callers, GetIIDs(c) PROVE TypeOK'
  BY <1>3 DEF GetIIDs
<1>4. ASSUME NEW c \in Callers, CheckLength(c) \/ CopyIIDs(c) \/ Activate(c) PROVE TypeOK'
  BY <1>4 DEF CheckLength, CopyIIDs, Activate, Goto
<1>5. ASSUME NEW c \in Callers, FreeIIDs(c) \/ CloseName(c) PROVE TypeOK'
  <2>1. call[c].pointer \in Allocation
    BY <1>5 DEF FreeIIDs, CloseName, FreeAtReturn, Running
  <2>2. call' \in [Callers -> [at : Step, pointer : Allocation \cup {Nil}, fits : BOOLEAN]]
    <3>1. call' = [call EXCEPT ![c] = NoCall]
      BY <1>5 DEF FreeIIDs, CloseName, FreeAtReturn
    <3>2. NoCall \in [at : Step, pointer : Allocation \cup {Nil}, fits : BOOLEAN]
      BY DEF NoCall
    <3> HIDE DEF Step, NoCall
    <3> QED
      BY <3>1, <3>2
  <2>3. frees' \in [Allocation -> Nat]
    BY <1>5, <2>1 DEF FreeIIDs, CloseName, FreeAtReturn
  <2>4. lost' \subseteq Allocation
    BY <1>5, <2>1 DEF FreeIIDs, CloseName, FreeAtReturn
  <2> QED
    BY <1>5, <2>2, <2>3, <2>4 DEF FreeIIDs, CloseName, FreeAtReturn
<1>6. ASSUME NEW c \in Callers, MakeName(c) PROVE TypeOK'
  BY <1>6 DEF MakeName
<1>7. CASE UNCHANGED vars
  BY <1>7 DEF vars
<1> QED
  BY <1>1, <1>2, <1>3, <1>4, <1>5, <1>6, <1>7 DEF Next

(* A step that hands the next address to one caller and frees nothing.     *)
LEMMA Handed ==
  ASSUME TypeOK, OwnInv, NEW c \in Callers,
         next' = next + 1, next \in Allocation, frees' = frees, lost' = lost,
         \/ Own(c) = Nil /\ Own(c)' = next /\ Lent(c)' = Lent(c)
         \/ Lent(c) = Nil /\ Lent(c)' = next /\ Own(c)' = Own(c),
         \A d \in Callers \ {c} : Own(d)' = Own(d) /\ Lent(d)' = Lent(d),
         Running'
  PROVE  OwnInv'
<1> USE MaxAllocationsAssumption DEF TypeOK, OwnInv, Allocation, Nil
<1>1. \A d \in Callers : Alive(Own(d))' /\ Alive(Lent(d))'
  BY DEF Alive, Unused
<1>2. Distinct'
  BY DEF Distinct, Alive
<1>3. Owned'
  BY DEF Owned
<1>4. Unused'
  BY DEF Unused
<1> QED
  BY <1>1, <1>2, <1>3, <1>4

(* A step in which a caller gives its pointer back, and it is freed or,    *)
(* refused, lost; or it gives back nothing.                                *)
LEMMA GivenBack ==
  ASSUME TypeOK, OwnInv, NEW c \in Callers, NEW a \in Allocation,
         next' = next,
         \/ Own(c) = a /\ Own(c)' = Nil /\ Lent(c)' = Lent(c)
         \/ Lent(c) = a /\ Lent(c)' = Nil /\ Own(c)' = Own(c),
         \A d \in Callers \ {c} : Own(d)' = Own(d) /\ Lent(d)' = Lent(d),
         \/ frees' = [frees EXCEPT ![a] = @ + 1] /\ lost' = lost
         \/ frees' = frees /\ lost' = lost \cup {a},
         Running'
  PROVE  OwnInv'
<1> USE MaxAllocationsAssumption DEF TypeOK, OwnInv, Allocation, Nil
<1>1. a < next /\ frees[a] = 0 /\ a \notin lost
  BY SMTT(30) DEF Alive
<1>2. \A d \in Callers : Own(d)' # a /\ Lent(d)' # a
  BY DEF Distinct
<1>3. \A d \in Callers : Alive(Own(d))' /\ Alive(Lent(d))'
  BY <1>2 DEF Alive
<1>4. Distinct'
  BY DEF Distinct
<1>5. Owned'
  BY <1>1 DEF Owned
<1>6. Unused' /\ \A b \in Allocation : frees'[b] \in {0, 1}
  BY <1>1 DEF Unused
<1> QED
  BY <1>3, <1>4, <1>5, <1>6

(* A step that moves no pointer.                                           *)
LEMMA Kept ==
  ASSUME OwnInv, UNCHANGED <<next, frees, lost>>,
         \A d \in Callers : Own(d)' = Own(d) /\ Lent(d)' = Lent(d),
         Running'
  PROVE  OwnInv'
BY DEF OwnInv, Alive, Distinct, Owned, Unused

(* Every step is one of these, but for the list of no IIDs, which is lost  *)
(* as it comes.                                                            *)
LEMMA OwnStep == TypeOK /\ OwnInv /\ [Next]_vars => OwnInv'
<1> SUFFICES ASSUME TypeOK, OwnInv, [Next]_vars PROVE OwnInv'
  OBVIOUS
<1>0. TypeOK'
  BY TypeStep DEF OwnInv
<1> USE MaxAllocationsAssumption DEF Allocation, Nil
<1>1. ASSUME NEW c \in Callers, NEW kind \in Kind, New(c, kind) PROVE OwnInv'
  <2>1. CASE next <= MaxAllocations /\ held' = [held EXCEPT ![c] = [kind |-> kind, pointer |-> next]]
             /\ next' = next + 1
    <3>1. /\ Own(c) = Nil /\ Own(c)' = next /\ Lent(c)' = Lent(c)
          /\ \A d \in Callers \ {c} : Own(d)' = Own(d) /\ Lent(d)' = Lent(d)
      BY <1>1, <2>1 DEF New, TypeOK, Own, Lent
    <3>2. next \in Allocation /\ next' = next + 1 /\ frees' = frees /\ lost' = lost
      BY <1>1, <2>1 DEF New, TypeOK
    <3>3. Running'
      BY <1>1 DEF New, OwnInv, Running
    <3> QED
      BY <3>1, <3>2, <3>3, Handed
  <2>2. CASE held' = [held EXCEPT ![c] = [kind |-> kind, pointer |-> Nil]] /\ next' = next
    BY <1>1, <2>2, Kept DEF New, TypeOK, Own, Lent, OwnInv, Running
  <2> QED
    BY <1>1, <2>1, <2>2 DEF New
<1>2. ASSUME NEW c \in Callers, Close(c) PROVE OwnInv'
  <2>1. CASE UNCHANGED <<frees, held>>
    BY <1>2, <2>1, Kept DEF Close, Own, Lent, OwnInv, Running
  <2>2. CASE frees' = [frees EXCEPT ![held[c].pointer] = @ + 1] /\ held' = [held EXCEPT ![c].pointer = Nil]
    <3>1. held[c].pointer \in Allocation
      BY <1>2 DEF Close, TypeOK
    <3> QED
      BY <1>2, <2>2, <3>1, GivenBack DEF Close, TypeOK, Own, Lent, OwnInv, Running
  <2> QED
    BY <1>2, <2>1, <2>2 DEF Close
<1>3. ASSUME NEW c \in Callers, GetIIDs(c) PROVE OwnInv'
  <2>1. CASE UNCHANGED lost
    <3>1. PICK fits \in BOOLEAN :
            call' = [call EXCEPT ![c] = [at |-> "iids_length", pointer |-> next, fits |-> fits]]
      BY <1>3, <2>1, SMTT(30) DEF GetIIDs, TypeOK, OwnInv, Unused
    <3>2. /\ Own(c)' = Own(c) /\ Lent(c) = Nil /\ Lent(c)' = next
          /\ \A d \in Callers \ {c} : Own(d)' = Own(d) /\ Lent(d)' = Lent(d)
          /\ next \in Allocation /\ next' = next + 1 /\ frees' = frees
      BY <1>3, <3>1 DEF GetIIDs, Idle, TypeOK, Own, Lent
    <3>3. Running'
      BY <1>3, <3>1 DEF GetIIDs, TypeOK, OwnInv, Running
    <3> QED
      BY <2>1, <3>2, <3>3, Handed
  <2>2. CASE lost' = lost \cup {next} /\ UNCHANGED call
    <3>1. /\ next \in Allocation /\ next' = next + 1 /\ frees' = frees
          /\ \A d \in Callers : Own(d)' = Own(d) /\ Lent(d)' = Lent(d)
      BY <1>3, <2>2 DEF GetIIDs, TypeOK, Own, Lent
    <3>2. Running'
      BY <1>3, <2>2 DEF GetIIDs, OwnInv, Running
    <3>3. \A d \in Callers : Alive(Own(d))' /\ Alive(Lent(d))'
      BY <2>2, <3>1 DEF TypeOK, OwnInv, Alive
    <3>4. Distinct'
      BY <3>1 DEF OwnInv, Distinct
    <3>5. Owned' /\ Unused'
      BY <2>2, <3>1 DEF TypeOK, OwnInv, Owned, Unused
    <3> QED
      BY <3>1, <3>2, <3>3, <3>4, <3>5 DEF OwnInv
  <2> QED
    BY <1>3, <2>1, <2>2 DEF GetIIDs
<1>4. ASSUME NEW c \in Callers, CheckLength(c) \/ CopyIIDs(c) \/ Activate(c) PROVE OwnInv'
  <2>1. /\ UNCHANGED <<next, frees, lost, held>>
        /\ call[c].at # "none"
        /\ \E at \in Step \ {"none"} : call' = [call EXCEPT ![c].at = at]
    BY <1>4 DEF CheckLength, CopyIIDs, Activate, Goto, Step
  <2>2. PICK at \in Step \ {"none"} : call' = [call EXCEPT ![c].at = at]
    BY <2>1
  <2>3. \A d \in Callers : Own(d)' = Own(d) /\ Lent(d)' = Lent(d)
    BY <2>1, <2>2 DEF TypeOK, Own, Lent
  <2>4. Running'
    BY <2>1, <2>2 DEF TypeOK, OwnInv, Running
  <2> QED
    BY <2>1, <2>3, <2>4, Kept
<1>5. ASSUME NEW c \in Callers, FreeIIDs(c) \/ CloseName(c) PROVE OwnInv'
  <2>1. call[c].at # "none" /\ call[c].pointer \in Allocation
    BY <1>5 DEF FreeIIDs, CloseName, FreeAtReturn, TypeOK, OwnInv, Running
  <2> DEFINE a == call[c].pointer
  <2>2. /\ Lent(c) = a /\ Lent(c)' = Nil /\ Own(c)' = Own(c) /\ next' = next
        /\ \A d \in Callers \ {c} : Own(d)' = Own(d) /\ Lent(d)' = Lent(d)
        /\ \/ frees' = [frees EXCEPT ![a] = @ + 1] /\ lost' = lost
           \/ frees' = frees /\ lost' = lost \cup {a}
    BY <1>5, <2>1 DEF FreeIIDs, CloseName, FreeAtReturn, NoCall, TypeOK, Own, Lent
  <2>3. Running'
    <3>1. call' = [call EXCEPT ![c] = NoCall]
      BY <1>5 DEF FreeIIDs, CloseName, FreeAtReturn
    <3> QED
      BY <3>1 DEF NoCall, TypeOK, OwnInv, Running
  <2> HIDE DEF a
  <2>4. a \in Allocation
    BY <2>1 DEF a
  <2> QED
    BY <2>2, <2>3, <2>4, GivenBack
<1>6. ASSUME NEW c \in Callers, MakeName(c) PROVE OwnInv'
  <2>1. /\ Lent(c) = Nil /\ Lent(c)' = next /\ Own(c)' = Own(c)
        /\ \A d \in Callers \ {c} : Own(d)' = Own(d) /\ Lent(d)' = Lent(d)
    BY <1>6 DEF MakeName, Idle, TypeOK, Own, Lent
  <2>2. next \in Allocation /\ next' = next + 1 /\ frees' = frees /\ lost' = lost
    BY <1>6 DEF MakeName, TypeOK
  <2>3. Running'
    BY <1>6 DEF MakeName, TypeOK, OwnInv, Running
  <2> QED
    BY <2>1, <2>2, <2>3, Handed
<1>7. CASE UNCHANGED vars
  BY <1>7, Kept DEF vars, Own, Lent, OwnInv, Running
<1> QED
  BY <1>1, <1>2, <1>3, <1>4, <1>5, <1>6, <1>7 DEF Next

(* In every reachable state the pointers are different and to live memory. *)
THEOREM Invariance == Spec => [](TypeOK /\ OwnInv)
<1>1. Init => TypeOK
  BY MaxAllocationsAssumption DEF Init, TypeOK, Allocation, Nil, NoCall, Step, Kind
<1>2. Init => OwnInv
  BY MaxAllocationsAssumption
  DEF Init, OwnInv, Alive, Distinct, Owned, Unused, Running, Own, Lent, Allocation, Nil, NoCall
<1>3. OwnInv => Running
  BY DEF OwnInv
<1> QED
  BY <1>1, <1>2, <1>3, TypeStep, OwnStep, PTL DEF Spec

-----------------------------------------------------------------------------
(* Nothing is freed twice, and no owner or running call has a pointer to   *)
(* freed memory.                                                           *)
THEOREM PointersStayLive == Spec => []PointersAreLive
<1>1. TypeOK /\ OwnInv => PointersAreLive
  BY DEF TypeOK, OwnInv, Running, PointersAreLive, Live, Allocated, Alive, Own, Lent
<1> QED
  BY <1>1, Invariance, PTL

(* What is not freed, nor lost at the return of a call, has one owner.     *)
THEOREM EachHasOneOwner == Spec => []OneOwner
<1>1. TypeOK /\ OwnInv => OneOwner
  <2> SUFFICES ASSUME TypeOK, OwnInv, NEW a \in Allocation, Live(a), a \notin lost
               PROVE  Cardinality({c \in Callers : held[c].pointer = a})
                        + Cardinality({c \in Callers : call[c].at # "none" /\ call[c].pointer = a}) = 1
    BY DEF OneOwner
  <2> DEFINE owners == {c \in Callers : held[c].pointer = a}
             lent   == {c \in Callers : call[c].at # "none" /\ call[c].pointer = a}
  <2>1. a # Nil
    BY MaxAllocationsAssumption DEF Allocation, Nil
  <2>2. PICK c \in Callers : Own(c) = a \/ Lent(c) = a
    BY DEF OwnInv, Owned, Live, Allocated
  <2>3. \/ owners = {c} /\ lent = {}
        \/ owners = {} /\ lent = {c}
    <3>1. CASE Own(c) = a
      BY <2>1, <3>1 DEF OwnInv, Distinct, Own, Lent
    <3>2. CASE Lent(c) = a
      BY <2>1, <3>2 DEF OwnInv, Distinct, Own, Lent
    <3> QED
      BY <2>2, <3>1, <3>2
  <2>4. Cardinality({c}) = 1 /\ Cardinality({}) = 0
    BY FS_Singleton, FS_EmptySet
  <2> HIDE DEF owners, lent
  <2>5. Cardinality(owners) + Cardinality(lent) = 1
    BY <2>3, <2>4
  <2> QED
    BY <2>5 DEF owners, lent
<1> QED
  BY <1>1, Invariance, PTL

(* Every pointer that is held is live, and every live allocation owned once.*)
THEOREM OwnershipStays == Spec => []OwnershipHolds
BY PointersStayLive, EachHasOneOwner, PTL DEF OwnershipHolds

-----------------------------------------------------------------------------
(* Numbers: division, and the halves of a word.                            *)
LEMMA Divided ==
  ASSUME NEW n \in Int, NEW d \in Nat, d # 0
  PROVE  /\ n \div d \in Int /\ n % d \in 0..d-1
         /\ n = d * (n \div d) + (n % d)
         /\ n >= 0 => n \div d \in Nat
BY SMT

LEMMA Digit ==
  ASSUME NEW n \in Nat, NEW d \in Nat, d # 0
  PROVE  n \div d \in Nat /\ n % d \in Nat /\ n % d \in 0..d-1 /\ n = d * (n \div d) + (n % d)
BY SMT

LEMMA Multiplied ==
  ASSUME NEW q \in Int, NEW d \in Nat, d # 0, NEW r \in 0..d-1
  PROVE  (d * q + r) \div d = q /\ (d * q + r) % d = r
BY SMT

(* A product grows with its factors.                                       *)
LEMMA Grows ==
  ASSUME NEW a \in Int, NEW b \in Int, a <= b, NEW d \in Nat
  PROVE  a * d \in Int /\ b * d \in Int /\ a * d <= b * d
<1>1. (b - a) * d >= 0
  OBVIOUS
<1>2. (b - a) * d = b * d - a * d
  OBVIOUS
<1> QED
  BY <1>1, <1>2

(* Less than a multiple is at least one factor less.                       *)
LEMMA Below ==
  ASSUME NEW q \in Int, NEW m \in Int, NEW d \in Nat, d # 0, NEW r \in 0..d-1, d * q + r < d * m
  PROVE  q < m
<1>1. SUFFICES ASSUME m <= q PROVE FALSE
  OBVIOUS
<1>2. m * d <= q * d
  BY <1>1, Grows
<1> QED
  BY <1>2

LEMMA HalfIsEven == \E h \in Nat : h >= 8 /\ Half = 2 * h /\ Half \div 2 = h
<1>1. PICK k \in Nat : Byte = 2 * k /\ k >= 1
  <2>1. Byte = 2 * (Byte \div 2) + (Byte % 2) /\ Byte \div 2 \in Nat
    BY WidthAssumption, Divided
  <2> QED
    BY <2>1, WidthAssumption
<1> DEFINE square == k * k
           h == 8 * (square * square)
<1>2. square \in Nat /\ square >= 1
  BY <1>1, Grows
<1>3. square * square \in Nat /\ square * square >= 1
  <2> HIDE DEF square
  <2> QED
    BY <1>2, Grows
<1>4. Half = 2 * h
  BY <1>1 DEF Half
<1> HIDE DEF square
<1>5. h \in Nat /\ h >= 8
  BY <1>3
<1>6. Half \div 2 = h
  BY <1>4, <1>5
<1> QED
  BY <1>4, <1>5, <1>6

LEMMA WideIsEven == \E h \in Nat : Wide = 2 * (h * Half) /\ Half = 2 * h /\ Wide \div 2 = h * Half /\ h >= 8 /\ Half \div 2 = h
<1>1. PICK h \in Nat : h >= 8 /\ Half = 2 * h /\ Half \div 2 = h
  BY HalfIsEven
<1>2. h * Half \in Nat
  BY <1>1
<1>3. Wide = 2 * (h * Half)
  BY <1>1 DEF Wide
<1>4. Wide \div 2 = h * Half
  BY <1>2, <1>3
<1> QED
  BY <1>1, <1>3, <1>4

(* A register or an address is Word(target) wide.                          *)
LEMMA WordIsEven ==
  ASSUME NEW target
  PROVE  \E h \in Nat : h >= 8 /\ Word(target) = 2 * h /\ Word(target) \div 2 = h
<1>1. CASE target = "x386"
  BY <1>1, HalfIsEven DEF Word
<1>2. CASE target # "x386"
  <2>1. PICK h \in Nat : Wide = 2 * (h * Half) /\ Half = 2 * h /\ Wide \div 2 = h * Half /\ h >= 8
    BY WideIsEven
  <2>2. h * Half \in Nat /\ h * Half >= 8
    BY <2>1, Grows
  <2> QED
    BY <1>2, <2>1, <2>2 DEF Word, Wide
<1> QED
  BY <1>1, <1>2

(* What is read of a register as a status, a BOOL or a counter.            *)
LEMMA Int32Told ==
  ASSUME NEW word \in Nat
  PROVE  /\ word % Half \in 0..Half-1 /\ Half \in Nat
         /\ Int32(word) \in Int
         /\ Int32(word) = (word % Half) - (IF Negative(word) THEN Half ELSE 0)
         /\ Failed(Int32(word)) <=> Negative(word)
         /\ Int32(word) = 0 <=> Zero(word)
<1>1. PICK h \in Nat : h >= 8 /\ Half = 2 * h /\ Half \div 2 = h
  BY HalfIsEven
<1>2. word % Half \in 0..Half-1
  BY <1>1, Divided
<1> QED
  BY <1>1, <1>2 DEF Int32, Failed, Negative, Zero

LEMMA FitsChecked ==
  ASSUME NEW target, NEW count \in Nat, NEW size \in Nat \ {0}
  PROVE  CheckedSliceLength(count, size, target) <=> Fits(count, size, target)
<1> DEFINE A == Addresses(target)
           q == (A - 1) \div size
<1>1. PICK h \in Nat : h >= 8 /\ A = 2 * h /\ A \div 2 = h
  BY WordIsEven DEF Addresses
<1> HIDE DEF A
<1>2. q \in Int /\ (A - 1) % size \in 0..size-1 /\ A - 1 = size * q + ((A - 1) % size)
  <2>1. A - 1 \in Int /\ size \in Nat /\ size # 0
    BY <1>1
  <2> QED
    BY <2>1, Divided
<1> HIDE DEF q
<1>3. count <= q <=> count * size < A
  <2>1. ASSUME count <= q PROVE count * size < A
    BY <1>1, <1>2, <2>1, Grows
  <2>2. ASSUME q < count PROVE A <= count * size
    <3>1. (q + 1) * size <= count * size
      BY <1>2, <2>2, Grows
    <3>2. (q + 1) * size = size * q + size
      BY <1>2
    <3> QED
      BY <1>1, <1>2, <3>1, <3>2
  <2> QED
    BY <1>1, <1>2, <2>1, <2>2
<1>4. count <= A \div 2 - 1 <=> 2 * count < A
  BY <1>1
<1> QED
  BY <1>3, <1>4 DEF CheckedSliceLength, Fits, A, q

(* A 64-bit number, its halves and its sign.                               *)
LEMMA HalvesOf ==
  ASSUME NEW n \in 0..(Half * Half - 1)
  PROVE  /\ Half \in Nat /\ Half # 0 /\ n % Half \in 0..Half-1 /\ n \div Half \in 0..Half-1
         /\ n = (n \div Half) * Half + (n % Half)
<1>1. Half \in Nat /\ Half >= 16
  BY HalfIsEven
<1>2. n \div Half \in Nat /\ n % Half \in 0..Half-1 /\ n = Half * (n \div Half) + (n % Half)
  <2>1. n \in Int /\ n >= 0 /\ Half # 0
    BY <1>1
  <2> QED
    BY <1>1, <2>1, Divided
<1>3. n \div Half < Half
  BY <1>1, <1>2, Below
<1> QED
  BY <1>1, <1>2, <1>3

LEMMA SignedTold ==
  ASSUME NEW n \in 0..(Half * Half - 1)
  PROVE  /\ Signed64(n) \in Int
         /\ Signed64(n) = Int32(n \div Half) * Half + (n % Half)
         /\ Unsigned64(Signed64(n)) = n
         /\ Int32(n \div Half) % Half = n \div Half
<1> DEFINE low == n % Half
           high == n \div Half
<1>1. PICK h \in Nat : Wide = 2 * (h * Half) /\ Half = 2 * h /\ Wide \div 2 = h * Half /\ h >= 8 /\ Half \div 2 = h
  BY WideIsEven
<1>2. low \in 0..Half-1 /\ high \in 0..Half-1 /\ n = high * Half + low
  BY HalvesOf
<1>3. high % Half = high
  BY <1>1, <1>2
<1>4. Wide \in Nat /\ Wide # 0 /\ n < Wide
  BY <1>1 DEF Wide
<1> HIDE DEF low, high
<1>5. n >= Wide \div 2 <=> high >= h
  <2>1. ASSUME high >= h PROVE n >= h * Half
    BY <1>1, <1>2, <2>1, Grows
  <2>2. ASSUME high < h PROVE n < h * Half
    <3>1. (high + 1) * Half <= h * Half
      BY <1>1, <1>2, <2>2, Grows
    <3>2. (high + 1) * Half = high * Half + Half
      BY <1>1, <1>2
    <3> QED
      BY <1>1, <1>2, <3>1, <3>2
  <2> QED
    BY <1>1, <1>2, <2>1, <2>2
<1>6. Int32(high) = IF high >= h THEN high - Half ELSE high
  BY <1>1, <1>3 DEF Int32
<1>7. Int32(high) * Half + low = IF high >= h THEN n - Wide ELSE n
  <2>1. (high - Half) * Half = high * Half - Wide
    BY <1>1, <1>2 DEF Wide
  <2> QED
    BY <1>1, <1>2, <1>4, <1>6, <2>1
<1>8. Signed64(n) = IF high >= h THEN n - Wide ELSE n
  BY <1>5 DEF Signed64
<1>9. n % Wide = n /\ (n - Wide) % Wide = n
  <2>1. n \in 0..Wide-1 /\ n = Wide * 0 + n /\ n - Wide = Wide * (-1) + n
    BY <1>4
  <2> QED
    BY <1>4, <2>1, Multiplied
<1>10. Int32(high) % Half = high
  <2>1. high = Half * 0 + high /\ high - Half = Half * (-1) + high
    BY <1>1, <1>2
  <2> QED
    BY <1>1, <1>2, <1>6, <2>1, Multiplied
<1> QED
  BY <1>4, <1>7, <1>8, <1>9, <1>10 DEF Unsigned64, low, high

-----------------------------------------------------------------------------
(* The calls.  What is known of each, and whether it was reached.          *)
Plain(c) == c.ok \in BOOLEAN /\ c.there \in BOOLEAN /\ c.r1 \in 0..Word(c.target)-1

LEMMA PlainWord == ASSUME NEW c, Plain(c) PROVE c.r1 \in Nat /\ Word(c.target) \in Nat
BY WordIsEven DEF Plain

LEMMA TryTold ==
  ASSUME NEW c, Plain(c)
  PROVE  /\ c.there /\ c.target # "other" =>
              /\ TryCall(c).error = "" /\ TryCall(c).r1 = c.r1 /\ TryCall(c).last = c.last
              /\ CallAddress(c).error = "" /\ CallAddress(c).r1 = c.r1
         /\ ~(c.there /\ c.target # "other") =>
              TryCall(c).error # "" /\ CallAddress(c).error # ""
<1>1. CASE c.there /\ c.target # "other"
  BY <1>1 DEF TryCall, CallAddress
<1>2. CASE c.target = "other"
  BY <1>2 DEF TryCall, CallAddress, Reached, Plain
<1>3. CASE ~c.there /\ c.target # "other"
  BY <1>3 DEF TryCall, CallAddress, Reached, Plain
<1> QED
  BY <1>1, <1>2, <1>3 DEF Plain

Errors == {E_NOTIMPL, E_NOINTERFACE, E_POINTER, E_FAIL, E_INVALIDARG}

(* The status of a call is the native one, or an error of the binding's.   *)
Status(c, status) ==
  /\ status \in Int
  /\ Failed(status) <=> ~Ran(c) \/ Negative(c.r1)
  /\ Ran(c) => status = (c.r1 % Half) - (IF Negative(c.r1) THEN Half ELSE 0)

LEMMA StatusTold ==
  ASSUME NEW c, Plain(c), NEW e \in Errors
  PROVE  Status(c, Slot(c, e)) /\ Status(c, Flat(c, e))
<1>1. c.r1 \in Nat
  BY PlainWord
<1>2. CASE Ran(c)
  <2>1. Slot(c, e) = Int32(c.r1) /\ Flat(c, e) = Int32(c.r1)
    <3>1. c.ok /\ c.there /\ c.target # "other"
      BY <1>2 DEF Ran
    <3>2. /\ TryCall(c).error = "" /\ TryCall(c).r1 = c.r1
          /\ CallAddress(c).error = "" /\ CallAddress(c).r1 = c.r1
      BY <3>1, TryTold
    <3> QED
      BY <3>1, <3>2 DEF Slot, Flat
  <2> QED
    BY <1>1, <1>2, <2>1, Int32Told DEF Status
<1>3. CASE ~Ran(c)
  <2>1. Slot(c, e) \in Errors /\ Flat(c, e) \in Errors
    BY <1>3, TryTold DEF Ran, Slot, Flat, Errors, Plain
  <2> QED
    BY <1>3, <2>1 DEF Status, Errors, Failed, E_NOTIMPL, E_NOINTERFACE, E_POINTER, E_FAIL, E_INVALIDARG
<1> QED
  BY <1>2, <1>3

LEMMA PlainStatus ==
  ASSUME NEW c, Plain(c), c.fn \notin {"ByClassName", "IIDs"}, NEW t, Status(c, t.status),
         "object" \in DOMAIN t => t.object = IF Failed(t.status) THEN NULL ELSE c.out
  PROVE  StatusIsTold(c, t)
BY DEF StatusIsTold, Status

LEMMA ByClassNameTold ==
  ASSUME NEW c, Plain(c), c.fn = "ByClassName", c.name \in BOOLEAN
  PROVE  StatusIsTold(c, ByClassName(c))
<1> DEFINE status == IF c.ok /\ ~c.name THEN E_NOTIMPL ELSE Flat(c, E_INVALIDARG)
<1>1. ByClassName(c) = [status |-> status, object |-> IF Failed(status) THEN NULL ELSE c.out]
  BY DEF ByClassName, OnSuccess
<1>2. Status(c, Flat(c, E_INVALIDARG))
  BY StatusTold DEF Errors
<1>3. Failed(status) <=> ~Ran(c) \/ Negative(c.r1) \/ ~c.name
  BY <1>2 DEF Status, Ran, Failed, E_NOTIMPL, Plain
<1>4. Ran(c) /\ c.name => status = (c.r1 % Half) - (IF Negative(c.r1) THEN Half ELSE 0)
  BY <1>2 DEF Status
<1> HIDE DEF status
<1> QED
  BY <1>1, <1>3, <1>4 DEF StatusIsTold

LEMMA IIDsTold ==
  ASSUME NEW c, Plain(c), c.fn = "IIDs", c.count \in Nat
  PROVE  StatusIsTold(c, IIDs(c))
<1> DEFINE own == Slot(c, E_POINTER)
           long == c.count # 0 /\ (c.out = NULL \/ ~Fits(c.count, GuidSize, c.target))
           wrong == ~Failed(own) /\ long
           status == IF wrong THEN E_FAIL ELSE own
           count == IF Failed(own) \/ wrong THEN 0 ELSE c.count
<1>1. IIDs(c) = [status |-> status, count |-> count]
  BY FitsChecked, WidthAssumption DEF IIDs
<1>2. Status(c, own)
  BY StatusTold DEF Errors
<1> HIDE DEF own, long
<1>3. Failed(status) <=> ~Ran(c) \/ Negative(c.r1) \/ long
  BY <1>2 DEF Status, Failed, E_FAIL
<1>4. count = IF Failed(status) THEN 0 ELSE c.count
  BY DEF Failed, E_FAIL
<1>5. Ran(c) /\ (~long \/ Negative(c.r1)) => status = (c.r1 % Half) - (IF Negative(c.r1) THEN Half ELSE 0)
  BY <1>2 DEF Status
<1> HIDE DEF status, count
<1> QED
  BY <1>1, <1>3, <1>4, <1>5 DEF StatusIsTold, long

(* A result and a last error, and the error that a rule makes of them.     *)
LEMMA RuleTold ==
  ASSUME NEW c, NEW failed \in BOOLEAN, NEW result, NEW last,
         Ran(c) => last = c.last /\ (result = 0 <=> failed),
         ~Ran(c) => last = ERROR_PROC_NOT_FOUND /\ result = 0
  PROVE  RuleIsTold(c, failed, ErrorIfFalse(result, last), last)
BY DEF RuleIsTold, ErrorIfFalse, ERROR_SUCCESS, ERROR_PROC_NOT_FOUND, NoLastError

LEMMA TriedTold ==
  ASSUME NEW c, Plain(c), c.ok
  PROVE  /\ Ran(c) => TryCall(c).error = "" /\ TryCall(c).r1 = c.r1 /\ TryCall(c).last = c.last
         /\ ~Ran(c) => TryCall(c).error # ""
BY TryTold DEF Ran

LEMMA BoolTold ==
  ASSUME NEW c, Plain(c), c.ok
  PROVE  RuleIsTold(c, Zero(c.r1), ErrorIfFalse(BoolCall(c).bool, BoolCall(c).last), BoolCall(c).last)
<1>1. Ran(c) => BoolCall(c).last = c.last /\ BoolCall(c).bool = Int32(c.r1)
  BY TriedTold DEF BoolCall
<1>2. ~Ran(c) => BoolCall(c).last = ERROR_PROC_NOT_FOUND /\ BoolCall(c).bool = 0
  BY TriedTold DEF BoolCall
<1>3. Int32(c.r1) = 0 <=> Zero(c.r1)
  BY PlainWord, Int32Told
<1>4. Zero(c.r1) \in BOOLEAN
  BY DEF Zero
<1> QED
  BY <1>1, <1>2, <1>3, <1>4, RuleTold

LEMMA WordTold ==
  ASSUME NEW c, Plain(c), c.ok
  PROVE  RuleIsTold(c, c.r1 = 0, ErrorIfZero(WordCall(c).word, WordCall(c).last), WordCall(c).last)
<1>1. Ran(c) => WordCall(c).last = c.last /\ WordCall(c).word = c.r1
  BY TriedTold DEF WordCall
<1>2. ~Ran(c) => WordCall(c).last = ERROR_PROC_NOT_FOUND /\ WordCall(c).word = 0
  BY TriedTold DEF WordCall
<1> QED
  BY <1>1, <1>2, RuleTold DEF ErrorIfZero

LEMMA IdTold ==
  ASSUME NEW c, Plain(c)
  PROVE  /\ c.ok => (IdCall(c).id = 0 <=> ~Ran(c) \/ Zero(c.r1))
         /\ c.ok => (OptionalCall(c).done <=> Ran(c))
         /\ Count(c).count = 0 <=> ~Ran(c) \/ Zero(c.r1)
<1>1. ASSUME c.ok PROVE IdCall(c).id = 0 <=> ~Ran(c) \/ Zero(c.r1)
  BY <1>1, TriedTold DEF IdCall, UInt32, Zero
<1>2. ASSUME c.ok PROVE OptionalCall(c).done <=> Ran(c)
  BY <1>2, TriedTold DEF OptionalCall
<1>3. Count(c).count = 0 <=> ~Ran(c) \/ Zero(c.r1)
  <2>1. c.there /\ c.target # "other" <=> CallAddress(c).error = ""
    BY TryTold DEF Plain
  <2> QED
    BY <2>1 DEF Count, UInt32, Zero, Ran, Plain
<1> QED
  BY <1>1, <1>2, <1>3

LEMMA EmittedTold ==
  ASSUME NEW c, Plain(c), c.ok, c.setLastError, c.ret \in {"none", "int32", "uintptr", "pointer"}
  PROVE  LET t == EmittedCall(c)
         IN  /\ ~Ran(c) => t.last = ERROR_PROC_NOT_FOUND /\ t.value = 0
             /\ c.ret # "none" =>
                  RuleIsTold(c, IF c.ret = "int32" THEN Zero(c.r1) ELSE c.r1 = 0, ErrorIfZero(t.value, t.last), t.last)
             /\ c.ret = "uintptr" /\ Ran(c) =>
                  RuleIsTold(c, c.r1 = Addresses(c.target) - 1,
                             ErrorIfInvalidHandle(t.value, t.last, c.target), t.last)
<1> DEFINE t == EmittedCall(c)
           failed == IF c.ret = "int32" THEN Zero(c.r1) ELSE c.r1 = 0
<1>1. Ran(c) => t.last = c.last /\ t.value = Returned(c.ret, c.r1)
  BY TriedTold DEF EmittedCall, Call
<1>2. ~Ran(c) => t.last = ERROR_PROC_NOT_FOUND /\ t.value = Returned(c.ret, 0)
  BY TriedTold DEF EmittedCall, Call
<1>3. Returned(c.ret, 0) = 0
  <2>1. Int32(0) = 0
    BY Int32Told, HalfIsEven DEF Zero
  <2> QED
    BY <2>1 DEF Returned
<1>4. c.ret # "none" => (Returned(c.ret, c.r1) = 0 <=> failed)
  BY PlainWord, Int32Told DEF Returned
<1>5. failed \in BOOLEAN
  BY DEF Zero
<1> HIDE DEF t, failed
<1>6. c.ret # "none" => RuleIsTold(c, failed, ErrorIfZero(t.value, t.last), t.last)
  BY <1>1, <1>2, <1>3, <1>4, <1>5, RuleTold DEF ErrorIfZero
<1>7. c.ret = "uintptr" /\ Ran(c) =>
        RuleIsTold(c, c.r1 = Addresses(c.target) - 1, ErrorIfInvalidHandle(t.value, t.last, c.target), t.last)
  <2>1. c.ret = "uintptr" => Returned(c.ret, c.r1) = c.r1
    BY DEF Returned
  <2> QED
    BY <1>1, <2>1 DEF RuleIsTold, ErrorIfInvalidHandle, Addresses, ERROR_SUCCESS, NoLastError
<1> QED
  BY <1>2, <1>3, <1>6, <1>7 DEF t, failed

(* What a Go error says of a string and of a memory block.                 *)
LEMMA NewHStringTold ==
  ASSUME NEW c, Plain(c), c.ok, c.fn = "NewHString"
  PROVE  ErrorIsTold(c, NewHString(c))
<1>1. Failed(Int32(c.r1)) <=> Negative(c.r1)
  BY PlainWord, Int32Told
<1>2. CASE Ran(c)
  <2>1. TryCall(c).error = "" /\ TryCall(c).r1 = c.r1
    BY <1>2, TriedTold
  <2> QED
    BY <1>1, <1>2, <2>1 DEF ErrorIsTold, NewHString
<1>3. CASE ~Ran(c)
  <2>1. TryCall(c).error # ""
    BY <1>3, TriedTold
  <2> QED
    BY <1>3, <2>1 DEF ErrorIsTold, NewHString
<1> QED
  BY <1>2, <1>3

LEMMA AllocateTold ==
  ASSUME NEW c, Plain(c), c.ok, c.fn = "Allocate", c.empty \in BOOLEAN
  PROVE  ErrorIsTold(c, Allocate(c))
<1>1. CASE Ran(c)
  <2>1. TryCall(c).error = "" /\ TryCall(c).r1 = c.r1
    BY <1>1, TriedTold
  <2> QED
    BY <1>1, <2>1 DEF ErrorIsTold, Allocate, NULL
<1>2. CASE ~Ran(c)
  <2>1. TryCall(c).error # ""
    BY <1>2, TriedTold
  <2> QED
    BY <1>2, <2>1 DEF ErrorIsTold, Allocate, NULL
<1> QED
  BY <1>1, <1>2

Reading(c, t, length) ==
  /\ ~c.ok => t.error = "" /\ t.length = 0
  /\ c.ok /\ TryCall(c).error # "" => t.error # "" /\ t.length = 0
  /\ c.ok /\ TryCall(c).error = "" =>
       /\ t.error = IF CheckedSliceLength(length, 2, c.target) THEN "" ELSE "length"
       /\ t.length = IF CheckedSliceLength(length, 2, c.target) THEN length ELSE 0

LengthTold(c, t, length) ==
  /\ t.error = "" <=> ~c.ok \/ (Ran(c) /\ Fits(length, 2, c.target))
  /\ t.length = IF Ran(c) /\ t.error = "" THEN length ELSE 0

LEMMA ReadTold ==
  ASSUME NEW c, Plain(c), NEW length \in Nat, NEW t,
         Reading(c, t, length)
  PROVE  LengthTold(c, t, length)
<1>1. CheckedSliceLength(length, 2, c.target) <=> Fits(length, 2, c.target)
  <2>1. 2 \in Nat \ {0}
    OBVIOUS
  <2> QED
    BY <2>1, FitsChecked
<1>2. CASE ~c.ok
  BY <1>2 DEF Ran, Reading, LengthTold
<1>3. CASE Ran(c)
  <2>1. c.ok /\ TryCall(c).error = ""
    BY <1>3, TriedTold DEF Ran
  <2> QED
    BY <1>1, <1>3, <2>1 DEF Reading, LengthTold
<1>4. CASE c.ok /\ ~Ran(c)
  <2>1. TryCall(c).error # ""
    BY <1>4, TriedTold
  <2> QED
    BY <1>4, <2>1 DEF Reading, LengthTold
<1> QED
  BY <1>2, <1>3, <1>4 DEF Plain

LEMMA NoLengthFits ==
  ASSUME NEW target
  PROVE  CheckedSliceLength(0, 2, target)
<1>1. Fits(0, 2, target)
  BY WordIsEven DEF Fits, Addresses
<1>2. 2 \in Nat \ {0} /\ 0 \in Nat
  OBVIOUS
<1> QED
  BY <1>1, <1>2, FitsChecked

LEMMA BstrStringTold ==
  ASSUME NEW c, Plain(c), c.fn = "BstrString"
  PROVE  ErrorIsTold(c, BstrString(c))
<1> DEFINE t == BstrString(c)
           length == c.r1 % Half
<1>1. length \in Nat
  BY PlainWord, Int32Told
<1>2. Reading(c, t, length)
  BY DEF BstrString, ReadString, UInt32, Reading
<1> HIDE DEF t, length
<1>3. LengthTold(c, t, length)
  BY <1>1, <1>2, ReadTold
<1> QED
  BY <1>3 DEF ErrorIsTold, LengthTold, t, length

LEMMA HStringStringTold ==
  ASSUME NEW c, Plain(c), c.fn = "HStringString", c.count \in Nat
  PROVE  ErrorIsTold(c, HStringString(c))
<1> DEFINE t == HStringString(c)
           length == IF c.r1 = NULL THEN 0 ELSE c.count
<1>1. length \in Nat
  OBVIOUS
<1>2. Reading(c, t, length)
  BY NoLengthFits DEF HStringString, ReadString, Reading
<1> HIDE DEF t, length
<1>3. LengthTold(c, t, length)
  BY <1>1, <1>2, ReadTold
<1> QED
  BY <1>3 DEF ErrorIsTold, LengthTold, t, length

-----------------------------------------------------------------------------
(* The views of LARGE_INTEGER show one number.                             *)
LEMMA ViewsAgree ==
  ASSUME NEW n \in 0..(Half * Half - 1), NEW target \in Windows
  PROVE  LET v == SetInt64(Signed64(n), target)
         IN  /\ Int64(v, target) = Signed64(n)
             /\ LowPart(v, target) = n % Half /\ HighPart(v, target) = Int32(n \div Half)
             /\ SetParts(LowPart(v, target), HighPart(v, target), target) = v
<1> DEFINE low == n % Half
           high == n \div Half
           v == SetInt64(Signed64(n), target)
<1>1. /\ Unsigned64(Signed64(n)) = n /\ Int32(high) % Half = high
      /\ low \in Int /\ high \in Int /\ low + high * Half = n
  BY SignedTold, HalvesOf
<1>2. CASE target = "x386"
  <2>1. v = <<low, high>>
    BY <1>1, <1>2 DEF SetInt64
  <2> HIDE DEF low, high, v
  <2>2. Int64(v, target) = Signed64(n) /\ LowPart(v, target) = low /\ HighPart(v, target) = Int32(high)
    BY <1>1, <1>2, <2>1 DEF Int64, LowPart, HighPart
  <2>3. SetParts(low, Int32(high), target) = v
    BY <1>1, <1>2, <2>1 DEF SetParts
  <2> QED
    BY <2>2, <2>3 DEF low, high, v
<1>3. CASE target # "x386"
  <2>1. v = <<Signed64(n)>>
    BY <1>3 DEF SetInt64
  <2>2. Int64(v, target) = Signed64(n) /\ LowPart(v, target) = low /\ HighPart(v, target) = Int32(high)
    BY <1>1, <1>3, <2>1 DEF Int64, LowPart, HighPart
  <2> HIDE DEF low, high, v
  <2>3. SetParts(low, Int32(high), target) = v
    BY <1>1, <1>3, <2>1 DEF SetParts
  <2> QED
    BY <2>2, <2>3 DEF low, high, v
<1> QED
  BY <1>2, <1>3

LEMMA NothingCounted == Signed64(0) = 0 /\ 0 \in 0..(Half * Half - 1)
<1>1. PICK h \in Nat : Wide \div 2 = h * Half /\ h >= 8 /\ Half = 2 * h /\ Wide = 2 * (h * Half)
  BY WideIsEven
<1>2. h * Half \in Nat /\ h * Half >= 16
  BY <1>1, Grows
<1> QED
  BY <1>1, <1>2 DEF Signed64, Wide

(* Fifteen bytes hold eight aligned ones.                                  *)
LEMMA ScratchAligned ==
  ASSUME NEW base \in 8..15
  PROVE  /\ AlignedScratch(base) \in Nat /\ AlignedScratch(base) % 8 = 0
         /\ AlignedScratch(base) >= base /\ AlignedScratch(base) <= base + 7
BY DEF AlignedScratch

LEMMA CounterTold ==
  ASSUME NEW c, Plain(c), c.ok, c.target \in Windows, c.base \in 8..15, c.target = "amd64" => c.base % 8 = 0,
         c.value \in BOOLEAN, c.writes \in BOOLEAN, Int32(c.r1) # 0 => c.writes, c.out \in 0..(Half * Half - 1)
  PROVE  CounterIsTold(c, QueryPerformanceCounter(c))
<1> DEFINE x == TryCall(c)
           t == QueryPerformanceCounter(c)
           copied == IF c.target = "x386" THEN x.error = "" /\ x.r1 # 0 ELSE x.error = "" /\ c.writes
           n == IF copied THEN c.out ELSE 0
<1>1. t.bool = BoolCall(c).bool /\ t.last = BoolCall(c).last
  BY DEF QueryPerformanceCounter, BoolCall
<1>2. RuleIsTold(c, Zero(c.r1), ErrorIfFalse(t.bool, t.last), t.last)
  BY <1>1, BoolTold
<1>3. t.value = SetInt64(Signed64(n), c.target) /\ n \in 0..(Half * Half - 1)
  BY NothingCounted DEF QueryPerformanceCounter
<1>4. t.given % 8 = 0 /\ (c.value /\ c.target = "x386" => t.given..(t.given + 7) \subseteq c.base..(c.base + 14))
  <2>1. t.given = IF ~c.value THEN NULL ELSE IF c.target = "x386" THEN AlignedScratch(c.base) ELSE c.base
    BY DEF QueryPerformanceCounter
  <2> HIDE DEF t
  <2> QED
    BY <2>1, ScratchAligned DEF NULL, Windows
<1>5. t.bool # 0 => n = c.out
  <2>1. CASE Ran(c)
    <3>1. t.bool = Int32(c.r1) /\ x.error = "" /\ x.r1 = c.r1
      BY <2>1, TriedTold DEF QueryPerformanceCounter
    <3>2. Int32(c.r1) # 0 => c.r1 # 0
      BY Int32Told, HalfIsEven DEF Zero
    <3> QED
      BY <3>1, <3>2
  <2>2. CASE ~Ran(c)
    BY <2>2, TriedTold DEF QueryPerformanceCounter
  <2> QED
    BY <2>1, <2>2
<1>6. t.bool = 0 /\ c.target = "x386" => n = 0
  <2>1. CASE Ran(c) /\ c.target = "x386"
    <3>1. t.bool = Int32(c.r1) /\ x.error = "" /\ x.r1 = c.r1
      BY <2>1, TriedTold DEF QueryPerformanceCounter
    <3>2. c.r1 \in 0..Half-1
      BY <2>1 DEF Plain, Word
    <3>3. Int32(c.r1) = 0 => c.r1 = 0
      <4>1. c.r1 % Half = c.r1
        BY <3>2, HalfIsEven
      <4> QED
        BY <4>1, PlainWord, Int32Told DEF Zero
    <3> QED
      BY <2>1, <3>1, <3>3
  <2>2. CASE ~Ran(c)
    BY <2>2, TriedTold
  <2> QED
    BY <2>1, <2>2
<1> HIDE DEF t, n
<1>7. /\ Int64(t.value, c.target) = Signed64(n)
      /\ LowPart(t.value, c.target) = n % Half /\ HighPart(t.value, c.target) = Int32(n \div Half)
      /\ SetParts(LowPart(t.value, c.target), HighPart(t.value, c.target), c.target) = t.value
  BY <1>3, ViewsAgree
<1>8. Unsigned64(Signed64(n)) = n /\ Signed64(n) = Int32(n \div Half) * Half + (n % Half)
  BY <1>3, SignedTold
<1> QED
  BY <1>2, <1>4, <1>5, <1>6, <1>7, <1>8, NothingCounted DEF CounterIsTold, t

-----------------------------------------------------------------------------
(* Four bytes are the digits of a number.                                  *)
LEMMA Nested ==
  ASSUME NEW n \in Nat, NEW a \in Nat, a # 0, NEW b \in Nat, b # 0
  PROVE  a * b \in Nat /\ a * b # 0 /\ n \div (a * b) = (n \div a) \div b
<1> DEFINE q == n \div a
           r == n % a
           p == q \div b
           s == q % b
<1>1. q \in Nat /\ r \in 0..a-1 /\ n = a * q + r
  BY Digit
<1> HIDE DEF q, r
<1>2. p \in Nat /\ s \in 0..b-1 /\ q = b * p + s
  BY <1>1, Digit
<1> HIDE DEF p, s
<1>3. n = (a * b) * p + (a * s + r)
  BY <1>1, <1>2
<1>4. a * s + r \in 0..(a * b)-1
  <2>1. a * s \in Nat /\ a * s <= a * (b - 1)
    BY <1>2, Grows
  <2>2. a * (b - 1) = a * b - a
    OBVIOUS
  <2> QED
    BY <1>1, <2>1, <2>2
<1>5. a * b \in Nat /\ a * b # 0
  BY Grows
<1>6. n \div (a * b) = p
  <2> DEFINE d == a * b
             rest == a * s + r
  <2> HIDE DEF d, rest
  <2>1. n = d * p + rest /\ rest \in 0..d-1 /\ d \in Nat /\ d # 0
    BY <1>3, <1>4, <1>5 DEF d, rest
  <2>2. n \div d = p
    BY <1>2, <2>1, Multiplied
  <2> QED
    BY <2>2 DEF d
<1> QED
  BY <1>5, <1>6 DEF p, q

LEMMA BytesOf ==
  ASSUME NEW n \in 0..Half-1
  PROVE  LET b == PutUint32(n)
         IN  b[1] + b[2] * Byte + b[3] * (Byte * Byte) + b[4] * (Byte * Byte * Byte) = n
<1> DEFINE q1 == n \div Byte
           q2 == q1 \div Byte
           q3 == q2 \div Byte
<1>1. n \in Nat /\ Byte \in Nat /\ Byte # 0
  BY WidthAssumption, HalfIsEven
<1>2. q1 \in Nat /\ n % Byte \in Nat /\ n = Byte * q1 + (n % Byte)
  BY <1>1, Digit
<1>3. q2 \in Nat /\ q1 % Byte \in Nat /\ q1 = Byte * q2 + (q1 % Byte)
  <2> HIDE DEF q1
  <2> QED
    BY <1>1, <1>2, Digit
<1>4. q3 \in Nat /\ q2 % Byte \in Nat /\ q2 = Byte * q3 + (q2 % Byte)
  <2> HIDE DEF q2
  <2> QED
    BY <1>1, <1>3, Digit
<1>5. n \div (Byte * Byte) = q2 /\ Byte * Byte \in Nat /\ Byte * Byte # 0
  BY <1>1, Nested
<1>6. n \div (Byte * Byte * Byte) = q3
  <2> DEFINE square == Byte * Byte
  <2>1. square \in Nat /\ square # 0 /\ n \div square = q2
    BY <1>5
  <2> HIDE DEF square
  <2>2. n \div (square * Byte) = (n \div square) \div Byte
    BY <1>1, <2>1, Nested
  <2> QED
    BY <2>1, <2>2 DEF square
<1>7. PutUint32(n) = <<n % Byte, q1 % Byte, q2 % Byte, q3>>
  BY <1>5, <1>6 DEF PutUint32
<1> HIDE DEF q1, q2, q3
<1>8. (n % Byte) + (q1 % Byte) * Byte + (q2 % Byte) * (Byte * Byte) + q3 * (Byte * Byte * Byte) = n
  <2>1. q1 * Byte = (q1 % Byte) * Byte + q2 * (Byte * Byte)
    BY <1>1, <1>3, SMTT(20)
  <2>2. q2 * (Byte * Byte) = (q2 % Byte) * (Byte * Byte) + q3 * (Byte * Byte * Byte)
    BY <1>1, <1>4, SMTT(20)
  <2> QED
    BY <1>1, <1>2, <1>3, <1>4, <2>1, <2>2
<1> QED
  BY <1>7, <1>8

Joined(v, a, b) ==
  /\ v[1] = a[1] /\ v[2] = a[2] /\ v[3] = a[3] /\ v[4] = a[4]
  /\ v[5] = b[1] /\ v[6] = b[2] /\ v[7] = b[3] /\ v[8] = b[4]

LEMMA Eight ==
  ASSUME NEW a \in Seq(Int), NEW b \in Seq(Int), Len(a) = 4, Len(b) = 4
  PROVE  Joined(a \o b, a, b)
<1> DEFINE v == a \o b
<1>1. \A i \in 1..Len(a) + Len(b) : v[i] = IF i <= Len(a) THEN a[i] ELSE b[i - Len(a)]
  BY ConcatProperties
<1> HIDE DEF v
<1>2. ASSUME NEW i \in 1..4 PROVE v[i] = a[i]
  <2>1. i \in 1..Len(a) + Len(b) /\ i <= Len(a)
    OBVIOUS
  <2> QED
    BY <1>1, <2>1
<1>3. ASSUME NEW i \in 5..8, NEW j, j = i - 4 PROVE v[i] = b[j]
  <2>1. i \in 1..Len(a) + Len(b) /\ ~(i <= Len(a)) /\ i - Len(a) = j
    BY <1>3
  <2> QED
    BY <1>1, <2>1
<1>4. 1 \in 1..4 /\ 2 \in 1..4 /\ 3 \in 1..4 /\ 4 \in 1..4
  OBVIOUS
<1>5. 5 \in 5..8 /\ 6 \in 5..8 /\ 7 \in 5..8 /\ 8 \in 5..8 /\ 1 = 5 - 4 /\ 2 = 6 - 4 /\ 3 = 7 - 4 /\ 4 = 8 - 4
  OBVIOUS
<1> QED
  <2>1. Joined(v, a, b)
    BY <1>2, <1>3, <1>4, <1>5, Zenon DEF Joined
  <2> QED
    BY <2>1 DEF v

LEMMA BytesTold ==
  ASSUME NEW m \in 0..Half-1, NEW n \in 0..Half-1
  PROVE  LET v == PutUint32(m) \o PutUint32(n)
         IN  Uint32At(v, 1) = m /\ Uint32At(v, 5) = n
<1> DEFINE a == PutUint32(m)
           b == PutUint32(n)
           v == a \o b
<1>1. ASSUME NEW k \in 0..Half-1 PROVE PutUint32(k) \in Seq(Int) /\ Len(PutUint32(k)) = 4
  <2>1. k \in Int /\ Byte \in Nat /\ Byte # 0
    BY WidthAssumption, HalfIsEven
  <2> QED
    BY <2>1, Grows DEF PutUint32
<1>2. a \in Seq(Int) /\ Len(a) = 4 /\ b \in Seq(Int) /\ Len(b) = 4
  BY <1>1
<1> HIDE DEF a, b
<1>3. Joined(v, a, b)
  BY <1>2, Eight, Zenon
<1> HIDE DEF v
<1>4. /\ Uint32At(v, 1) = v[1] + v[2] * Byte + v[3] * (Byte * Byte) + v[4] * (Byte * Byte * Byte)
      /\ Uint32At(v, 5) = v[5] + v[6] * Byte + v[7] * (Byte * Byte) + v[8] * (Byte * Byte * Byte)
  <2>1. 1 + 1 = 2 /\ 1 + 2 = 3 /\ 1 + 3 = 4 /\ 5 + 1 = 6 /\ 5 + 2 = 7 /\ 5 + 3 = 8
    OBVIOUS
  <2> QED
    BY <2>1, Zenon DEF Uint32At
<1> QED
  BY <1>3, <1>4, BytesOf DEF Joined, a, b, v

LEMMA UnsignedTold ==
  ASSUME NEW count \in 0..(Half * Half - 1), NEW target \in Windows, NEW halves \in BOOLEAN, NEW v,
         v = IF halves THEN SetHalves(count % Half, count \div Half, target) ELSE SetUint64(count, target)
  PROVE  /\ Uint64(v, target) = count
         /\ High(v, target) * Half + Low(v, target) = count
<1> DEFINE low == count % Half
           high == count \div Half
<1>1. /\ low \in 0..Half-1 /\ high \in 0..Half-1 /\ count = high * Half + low
      /\ Half \in Nat /\ Half # 0
  BY HalvesOf
<1>2. CASE target = "x386"
  <2>1. v = PutUint32(low) \o PutUint32(high)
    BY <1>2 DEF SetHalves, SetUint64, PutUint64
  <2> HIDE DEF low, high
  <2>2. Uint32At(v, 1) = low /\ Uint32At(v, 5) = high
    BY <1>1, <2>1, BytesTold
  <2> QED
    BY <1>1, <1>2, <2>2 DEF Uint64, GetUint64, Low, High
<1>3. CASE target # "x386"
  <2>1. v = <<count>>
    BY <1>1, <1>3 DEF SetHalves, SetUint64
  <2>2. high % Half = high
    BY <1>1
  <2>3. Uint64(v, target) = count /\ Low(v, target) = low /\ High(v, target) = high % Half
    BY <1>3, <2>1 DEF Uint64, Low, High
  <2> HIDE DEF low, high
  <2> QED
    BY <1>1, <2>2, <2>3
<1> QED
  BY <1>2, <1>3

-----------------------------------------------------------------------------
(* Every call of a program, and every outcome.                             *)
LEMMA BaseKnown ==
  ASSUME NEW fn, NEW target, NEW c \in Base(fn, target)
  PROVE  /\ Plain(c) /\ c.fn = fn /\ c.target = target
         /\ \A f : LET d == [c EXCEPT !.fn = f]
                   IN Plain(d) /\ d.fn = f /\ d.target = target /\ d.ok = c.ok /\ d.r1 = c.r1 /\ d.out = c.out
BY DEF Base, Plain

(* What the outcomes of the functions that return a status come to.        *)
Statuses == {"QueryInterface", "CreateIUnknown", "Initialize", "Activate",
             "RuntimeClassName", "GetTrustLevel", "ByClassName", "IIDs"}

LEMMA StatusOutcome ==
  ASSUME NEW c, NEW t, Make(c, t), c.fn \in Statuses, StatusIsTold(c, t)
  PROVE  OutcomesAreTold'
BY DEF Make, OutcomesAreTold, Statuses

LEMMA ErrorOutcome ==
  ASSUME NEW c, NEW t, Make(c, t), c.fn \in {"NewHString", "Allocate", "BstrString", "HStringString"}, ErrorIsTold(c, t)
  PROVE  OutcomesAreTold'
BY DEF Make, OutcomesAreTold

LEMMA KernelStep == ASSUME CallKernel PROVE OutcomesAreTold'
<1>1. PICK target \in Windows : \E c \in Base("bool", target) : c.ok /\ c.out = NULL /\
           \/ Make(c, BoolCall(c))
           \/ Make([c EXCEPT !.fn = "word"], WordCall(c))
           \/ Make([c EXCEPT !.fn = "id"], IdCall(c))
           \/ Make([c EXCEPT !.fn = "optional"], OptionalCall(c))
  BY DEF CallKernel
<1>2. PICK c \in Base("bool", target) : c.ok /\
           \/ Make(c, BoolCall(c))
           \/ Make([c EXCEPT !.fn = "word"], WordCall(c))
           \/ Make([c EXCEPT !.fn = "id"], IdCall(c))
           \/ Make([c EXCEPT !.fn = "optional"], OptionalCall(c))
  BY <1>1
<1>3. Plain(c) /\ c.fn = "bool"
  BY BaseKnown
<1>4. CASE Make(c, BoolCall(c))
  BY <1>2, <1>3, <1>4, BoolTold DEF Make, OutcomesAreTold
<1>5. CASE Make([c EXCEPT !.fn = "word"], WordCall(c))
  <2> DEFINE d == [c EXCEPT !.fn = "word"]
  <2>1. Plain(d) /\ d.fn = "word" /\ d.ok
    BY <1>2, BaseKnown
  <2>2. WordCall(c) = WordCall(d)
    BY DEF WordCall, TryCall, CallAddress, Base
  <2> HIDE DEF d
  <2> QED
    BY <1>5, <2>1, <2>2, WordTold DEF Make, OutcomesAreTold, d
<1>6. CASE Make([c EXCEPT !.fn = "id"], IdCall(c))
  <2> DEFINE d == [c EXCEPT !.fn = "id"]
  <2>1. Plain(d) /\ d.fn = "id" /\ d.ok
    BY <1>2, BaseKnown
  <2>2. IdCall(c) = IdCall(d)
    BY DEF IdCall, TryCall, CallAddress, Base
  <2> HIDE DEF d
  <2> QED
    BY <1>6, <2>1, <2>2, IdTold DEF Make, OutcomesAreTold, d
<1>7. CASE Make([c EXCEPT !.fn = "optional"], OptionalCall(c))
  <2> DEFINE d == [c EXCEPT !.fn = "optional"]
  <2>1. Plain(d) /\ d.fn = "optional" /\ d.ok
    BY <1>2, BaseKnown
  <2>2. OptionalCall(c) = OptionalCall(d)
    BY DEF OptionalCall, TryCall, CallAddress, Base
  <2> HIDE DEF d
  <2> QED
    BY <1>7, <2>1, <2>2, IdTold DEF Make, OutcomesAreTold, d
<1> QED
  BY <1>2, <1>4, <1>5, <1>6, <1>7

LEMMA CounterStep == ASSUME CallCounter PROVE OutcomesAreTold'
<1>1. PICK target, c, base, value, count, writes :
        /\ target \in Windows /\ c \in Base("counter", target)
        /\ base \in 8..15 /\ value \in BOOLEAN /\ count \in Counts /\ writes \in BOOLEAN
        /\ c.ok /\ (target = "amd64" => base % 8 = 0) /\ (Int32(c.r1) # 0 => writes)
        /\ LET d == Further(c, [base |-> base, value |-> value, out |-> count, writes |-> writes])
           IN  Make(d, QueryPerformanceCounter(d))
  BY ZenonT(60) DEF CallCounter
<1> DEFINE d == Further(c, [base |-> base, value |-> value, out |-> count, writes |-> writes])
<1>2. /\ d.fn = "counter" /\ d.target = target /\ d.ok = c.ok /\ d.there = c.there /\ d.r1 = c.r1 /\ d.base = base
      /\ d.value = value /\ d.out = count /\ d.writes = writes
  BY <1>1 DEF Further, Base
<1>3. Plain(c) /\ c.target = target
  BY <1>1, BaseKnown
<1> HIDE DEF d
<1>4. Plain(d)
  BY <1>2, <1>3 DEF Plain
<1>5. CounterIsTold(d, QueryPerformanceCounter(d))
  <2>1. count \in 0..(Half * Half - 1)
    BY <1>1, WidthAssumption
  <2> QED
    BY <1>1, <1>2, <1>4, <2>1, CounterTold
<1> QED
  BY <1>1, <1>2, <1>5 DEF Make, OutcomesAreTold, d

LEMMA ComStep == ASSUME CallCom PROVE OutcomesAreTold'
<1>0. PICK target \in Targets : \E c \in Base("QueryInterface", target) :
        \/ Make(c, QueryInterface(c))
        \/ Make([c EXCEPT !.fn = "Count"], Count(c))
        \/ Make([c EXCEPT !.fn = "CreateIUnknown"], CreateIUnknown(c))
        \/ Make([c EXCEPT !.fn = "Initialize"], Initialize(c))
  BY DEF CallCom
<1>1. PICK c \in Base("QueryInterface", target) :
        \/ Make(c, QueryInterface(c))
        \/ Make([c EXCEPT !.fn = "Count"], Count(c))
        \/ Make([c EXCEPT !.fn = "CreateIUnknown"], CreateIUnknown(c))
        \/ Make([c EXCEPT !.fn = "Initialize"], Initialize(c))
  BY <1>0
<1>2. Plain(c) /\ c.fn = "QueryInterface"
  BY BaseKnown
<1>3. CASE Make(c, QueryInterface(c))
  <2>1. Status(c, QueryInterface(c).status)
    BY <1>2, StatusTold DEF QueryInterface, Errors
  <2>2. StatusIsTold(c, QueryInterface(c))
    BY <1>2, <2>1, PlainStatus DEF QueryInterface
  <2> QED
    BY <1>2, <1>3, <2>2, StatusOutcome DEF Statuses
<1>4. CASE Make([c EXCEPT !.fn = "Count"], Count(c))
  <2> DEFINE d == [c EXCEPT !.fn = "Count"]
  <2>1. Plain(d) /\ d.fn = "Count"
    BY BaseKnown
  <2>2. Count(c) = Count(d)
    BY DEF Count, CallAddress, Base
  <2> HIDE DEF d
  <2> QED
    BY <1>4, <2>1, <2>2, IdTold DEF Make, OutcomesAreTold, d
<1>5. CASE Make([c EXCEPT !.fn = "CreateIUnknown"], CreateIUnknown(c))
  <2> DEFINE d == [c EXCEPT !.fn = "CreateIUnknown"]
  <2>1. Plain(d) /\ d.fn = "CreateIUnknown"
    BY BaseKnown
  <2>2. CreateIUnknown(c) = CreateIUnknown(d)
    BY DEF CreateIUnknown, CreateInstance, OnSuccess, Flat, TryCall, CallAddress, Base
  <2> HIDE DEF d
  <2>3. Status(d, Flat(d, E_POINTER))
    BY <2>1, StatusTold DEF Errors
  <2>4. StatusIsTold(d, CreateIUnknown(d))
    BY <2>1, <2>3, PlainStatus DEF CreateIUnknown, CreateInstance, OnSuccess
  <2> QED
    BY <1>5, <2>1, <2>2, <2>4, StatusOutcome DEF Statuses, d
<1>6. CASE Make([c EXCEPT !.fn = "Initialize"], Initialize(c))
  <2> DEFINE d == [c EXCEPT !.fn = "Initialize"]
  <2>1. Plain(d) /\ d.fn = "Initialize"
    BY BaseKnown
  <2>2. Initialize(c) = Initialize(d)
    BY DEF Initialize, Flat, TryCall, CallAddress, Base
  <2> HIDE DEF d
  <2>3. Status(d, Flat(d, E_POINTER))
    BY <2>1, StatusTold DEF Errors
  <2>4. StatusIsTold(d, Initialize(d))
    BY <2>1, <2>3, PlainStatus DEF Initialize
  <2> QED
    BY <1>6, <2>1, <2>2, <2>4, StatusOutcome DEF Statuses, d
<1> QED
  BY <1>1, <1>3, <1>4, <1>5, <1>6

LEMMA WinRTStep == ASSUME CallWinRT PROVE OutcomesAreTold'
<1>0. PICK target \in Targets : \E c \in Base("Activate", target) :
        \/ Make(c, FactoryActivate(c))
        \/ Make([c EXCEPT !.fn = "RuntimeClassName"], RuntimeClassName(c))
        \/ Make([c EXCEPT !.fn = "GetTrustLevel"], GetTrustLevel(c))
        \/ \E name \in BOOLEAN :
             LET d == Further(c, [fn |-> "ByClassName", name |-> name]) IN Make(d, ByClassName(d))
        \/ \E count \in Counts \cap 0..(Half - 1) :
             LET d == Further(c, [fn |-> "IIDs", count |-> count]) IN Make(d, IIDs(d))
  BY DEF CallWinRT
<1>1. PICK c \in Base("Activate", target) :
        \/ Make(c, FactoryActivate(c))
        \/ Make([c EXCEPT !.fn = "RuntimeClassName"], RuntimeClassName(c))
        \/ Make([c EXCEPT !.fn = "GetTrustLevel"], GetTrustLevel(c))
        \/ \E name \in BOOLEAN :
             LET d == Further(c, [fn |-> "ByClassName", name |-> name]) IN Make(d, ByClassName(d))
        \/ \E count \in Counts \cap 0..(Half - 1) :
             LET d == Further(c, [fn |-> "IIDs", count |-> count]) IN Make(d, IIDs(d))
  BY <1>0
<1>2. Plain(c) /\ c.fn = "Activate" /\ c.target = target
  BY BaseKnown
<1>3. CASE Make(c, FactoryActivate(c))
  <2>1. Status(c, Slot(c, E_POINTER))
    BY <1>2, StatusTold DEF Errors
  <2>2. StatusIsTold(c, FactoryActivate(c))
    BY <1>2, <2>1, PlainStatus DEF FactoryActivate, OnSuccess
  <2> QED
    BY <1>2, <1>3, <2>2, StatusOutcome DEF Statuses
<1>4. CASE Make([c EXCEPT !.fn = "RuntimeClassName"], RuntimeClassName(c))
  <2> DEFINE d == [c EXCEPT !.fn = "RuntimeClassName"]
  <2>1. Plain(d) /\ d.fn = "RuntimeClassName"
    BY BaseKnown
  <2>2. RuntimeClassName(c) = RuntimeClassName(d)
    BY DEF RuntimeClassName, OnSuccess, Slot, CallAddress, Base
  <2> HIDE DEF d
  <2>3. Status(d, Slot(d, E_POINTER))
    BY <2>1, StatusTold DEF Errors
  <2>4. StatusIsTold(d, RuntimeClassName(d))
    BY <2>1, <2>3, PlainStatus DEF RuntimeClassName, OnSuccess
  <2> QED
    BY <1>4, <2>1, <2>2, <2>4, StatusOutcome DEF Statuses, d
<1>5. CASE Make([c EXCEPT !.fn = "GetTrustLevel"], GetTrustLevel(c))
  <2> DEFINE d == [c EXCEPT !.fn = "GetTrustLevel"]
  <2>1. Plain(d) /\ d.fn = "GetTrustLevel"
    BY BaseKnown
  <2>2. GetTrustLevel(c) = GetTrustLevel(d)
    BY DEF GetTrustLevel, Slot, CallAddress, Base
  <2> HIDE DEF d
  <2>3. Status(d, Slot(d, E_POINTER))
    BY <2>1, StatusTold DEF Errors
  <2>4. StatusIsTold(d, GetTrustLevel(d))
    <3> DEFINE trust == IF d.ok /\ d.there /\ CallAddress(d).error = "" THEN d.out ELSE 0
    <3>1. GetTrustLevel(d) = [status |-> Slot(d, E_POINTER), trust |-> trust]
      BY DEF GetTrustLevel
    <3> HIDE DEF trust
    <3> QED
      BY <2>1, <2>3, <3>1, PlainStatus
  <2> QED
    BY <1>5, <2>1, <2>2, <2>4, StatusOutcome DEF Statuses, d
<1>6. ASSUME NEW name \in BOOLEAN, NEW d, d = Further(c, [fn |-> "ByClassName", name |-> name]), Make(d, ByClassName(d))
      PROVE  OutcomesAreTold'
  <2>1. d.fn = "ByClassName" /\ d.name = name /\ d.ok = c.ok /\ d.there = c.there /\ d.r1 = c.r1 /\ d.target = target
    BY <1>6 DEF Further, Base
  <2>2. Plain(d)
    BY <1>2, <2>1 DEF Plain
  <2>3. StatusIsTold(d, ByClassName(d))
    BY <2>1, <2>2, ByClassNameTold
  <2> QED
    BY <1>6, <2>1, <2>3, StatusOutcome DEF Statuses
<1>7. ASSUME NEW count \in Nat, NEW d, d = Further(c, [fn |-> "IIDs", count |-> count]), Make(d, IIDs(d))
      PROVE  OutcomesAreTold'
  <2>1. d.fn = "IIDs" /\ d.count = count /\ d.ok = c.ok /\ d.there = c.there /\ d.r1 = c.r1 /\ d.target = target
    BY <1>7 DEF Further, Base
  <2>2. Plain(d)
    BY <1>2, <2>1 DEF Plain
  <2>3. StatusIsTold(d, IIDs(d))
    BY <2>1, <2>2, IIDsTold
  <2> QED
    BY <1>7, <2>1, <2>3, StatusOutcome DEF Statuses
<1>8. Counts \cap 0..(Half - 1) \subseteq Nat
  OBVIOUS
<1> QED
  BY <1>1, <1>3, <1>4, <1>5, <1>6, <1>7, <1>8

LEMMA OwnerStep == ASSUME CallOwner PROVE OutcomesAreTold'
<1>0. PICK target \in Targets : \E c \in Base("NewHString", target) :
        \/ c.ok /\ Make(c, NewHString(c))
        \/ \E kind \in {"bstr", "memory"}, empty \in BOOLEAN :
             LET d == Further(c, [fn |-> "Allocate", kind |-> kind, empty |-> empty]) IN c.ok /\ Make(d, Allocate(d))
        \/ Make([c EXCEPT !.fn = "BstrString"], BstrString(c))
        \/ \E count \in Counts \cap 0..(Half - 1) :
             LET d == Further(c, [fn |-> "HStringString", count |-> count]) IN Make(d, HStringString(d))
  BY DEF CallOwner
<1>1. PICK c \in Base("NewHString", target) :
        \/ c.ok /\ Make(c, NewHString(c))
        \/ \E kind \in {"bstr", "memory"}, empty \in BOOLEAN :
             LET d == Further(c, [fn |-> "Allocate", kind |-> kind, empty |-> empty]) IN c.ok /\ Make(d, Allocate(d))
        \/ Make([c EXCEPT !.fn = "BstrString"], BstrString(c))
        \/ \E count \in Counts \cap 0..(Half - 1) :
             LET d == Further(c, [fn |-> "HStringString", count |-> count]) IN Make(d, HStringString(d))
  BY <1>0
<1>2. Plain(c) /\ c.fn = "NewHString" /\ c.target = target
  BY BaseKnown
<1>3. CASE c.ok /\ Make(c, NewHString(c))
  BY <1>2, <1>3, NewHStringTold, ErrorOutcome
<1>4. ASSUME NEW kind \in {"bstr", "memory"}, NEW empty \in BOOLEAN, NEW d,
             d = Further(c, [fn |-> "Allocate", kind |-> kind, empty |-> empty]), c.ok, Make(d, Allocate(d))
      PROVE  OutcomesAreTold'
  <2>1. d.fn = "Allocate" /\ d.kind = kind /\ d.empty = empty /\ d.ok = c.ok /\ d.there = c.there /\ d.r1 = c.r1 /\ d.target = target
    BY <1>4 DEF Further, Base
  <2>2. Plain(d) /\ d.ok /\ d.empty \in BOOLEAN
    BY <1>2, <1>4, <2>1 DEF Plain
  <2>3. ErrorIsTold(d, Allocate(d))
    BY <2>1, <2>2, AllocateTold
  <2> QED
    BY <1>4, <2>1, <2>3, ErrorOutcome
<1>5. CASE Make([c EXCEPT !.fn = "BstrString"], BstrString(c))
  <2> DEFINE d == [c EXCEPT !.fn = "BstrString"]
  <2>1. Plain(d) /\ d.fn = "BstrString"
    BY BaseKnown
  <2>2. BstrString(c) = BstrString(d)
    BY DEF BstrString, ReadString, TryCall, CallAddress, Base
  <2> HIDE DEF d
  <2>3. ErrorIsTold(d, BstrString(d))
    BY <2>1, BstrStringTold
  <2> QED
    BY <1>5, <2>1, <2>2, <2>3, ErrorOutcome DEF d
<1>6. ASSUME NEW count \in Nat, NEW d, d = Further(c, [fn |-> "HStringString", count |-> count]), Make(d, HStringString(d))
      PROVE  OutcomesAreTold'
  <2>1. d.fn = "HStringString" /\ d.count = count /\ d.ok = c.ok /\ d.there = c.there /\ d.r1 = c.r1 /\ d.target = target
    BY <1>6 DEF Further, Base
  <2>2. Plain(d)
    BY <1>2, <2>1 DEF Plain
  <2>3. ErrorIsTold(d, HStringString(d))
    BY <2>1, <2>2, HStringStringTold
  <2> QED
    BY <1>6, <2>1, <2>3, ErrorOutcome
<1>7. Counts \cap 0..(Half - 1) \subseteq Nat
  OBVIOUS
<1> QED
  BY <1>1, <1>3, <1>4, <1>5, <1>6, <1>7

LEMMA EmittedStep == ASSUME CallEmitted PROVE OutcomesAreTold'
<1>1. PICK target, c, ret, setLastError :
        /\ target \in Windows /\ c \in Base("emitted", target)
        /\ ret \in {"none", "int32", "uintptr", "pointer"} /\ setLastError \in BOOLEAN
        /\ c.ok
        /\ LET d == Further(c, [ret |-> ret, setLastError |-> setLastError]) IN Make(d, EmittedCall(d))
  BY DEF CallEmitted
<1> DEFINE d == Further(c, [ret |-> ret, setLastError |-> setLastError])
<1>2. /\ d.fn = "emitted" /\ d.target = target /\ d.ok = c.ok /\ d.there = c.there /\ d.r1 = c.r1
      /\ d.ret = ret /\ d.setLastError = setLastError
  BY <1>1 DEF Further, Base
<1>3. Plain(c) /\ c.target = target
  BY <1>1, BaseKnown
<1> HIDE DEF d
<1>4. Plain(d) /\ d.ok /\ d.ret \in {"none", "int32", "uintptr", "pointer"}
  BY <1>1, <1>2, <1>3 DEF Plain
<1>5. Make(d, EmittedCall(d))
  BY <1>1 DEF d
<1> QED
  BY <1>2, <1>4, <1>5, EmittedTold DEF Make, OutcomesAreTold

LEMMA UnsignedStep == ASSUME UseUnsigned PROVE OutcomesAreTold'
<1>1. PICK target \in Windows, count \in Counts, halves \in BOOLEAN :
        LET v == IF halves THEN SetHalves(count % Half, count \div Half, target) ELSE SetUint64(count, target)
        IN  Make([fn |-> "unsigned", target |-> target, count |-> count],
                 [whole |-> Uint64(v, target), low |-> Low(v, target), high |-> High(v, target)])
  BY DEF UseUnsigned
<1> DEFINE v == IF halves THEN SetHalves(count % Half, count \div Half, target) ELSE SetUint64(count, target)
<1>2. Uint64(v, target) = count /\ High(v, target) * Half + Low(v, target) = count
  <2>1. count \in 0..(Half * Half - 1)
    BY WidthAssumption
  <2> QED
    BY <2>1, UnsignedTold
<1>3. Make([fn |-> "unsigned", target |-> target, count |-> count],
           [whole |-> Uint64(v, target), low |-> Low(v, target), high |-> High(v, target)])
  BY <1>1
<1> HIDE DEF v
<1> QED
  BY <1>2, <1>3 DEF Make, OutcomesAreTold

(* Whatever the widths, and whatever a native procedure leaves in its      *)
(* registers, its last error and its results: who looks at what a call of  *)
(* the runtime or of an emitted wrapper returned sees a failure exactly if *)
(* there was one, and the one there was.                                   *)
THEOREM OutcomesAlwaysTold == SpecCalls => []OutcomesAreTold
<1>1. InitCalls => OutcomesAreTold
  BY DEF InitCalls, OutcomesAreTold
<1>2. OutcomesAreTold /\ [NextCall]_calls => OutcomesAreTold'
  <2>1. ASSUME OutcomesAreTold, UNCHANGED calls PROVE OutcomesAreTold'
    BY <2>1 DEF calls, OutcomesAreTold
  <2>2. ASSUME Return PROVE OutcomesAreTold'
    BY <2>2 DEF Return, OutcomesAreTold
  <2> QED
    BY <2>1, <2>2, KernelStep, CounterStep, ComStep, WinRTStep, OwnerStep, EmittedStep, UnsignedStep DEF NextCall
<1> QED
  BY <1>1, <1>2, PTL DEF SpecCalls
=============================================================================
