---------------------------- MODULE SourceProofs ----------------------------
(***************************************************************************)
(* The sources: the cache (SourceCache), for every number of fetchers and  *)
(* of lock versions; the lock and its updates (SourceTool), for every lock *)
(* and every answer of an index.                                           *)
(*                                                                         *)
(* The renames of installDir act as a lock: the rename of the cache to its *)
(* backup succeeds only while there is no backup, so at most one fetcher   *)
(* is between that rename and its return, and while it is there nobody     *)
(* else can take the cache directory away.                                 *)
(*                                                                         *)
(* The search for a cycle keeps two things: every placing of the sources   *)
(* that respects the dependencies descends along the calls of visit, so a  *)
(* call that comes back to its path leaves no placing; and the finished    *)
(* sources have a placing, which the next source to finish extends.        *)
(*                                                                         *)
(* The version comparison is decided by its first difference.  Three       *)
(* comparisons that agree place by place agree in their first differences, *)
(* so the comparison is transitive, and the loop over an index ends with a *)
(* version no other one is newer than.  What is computed by recursion is   *)
(* proved by a least counterexample (Least).                               *)
(*                                                                         *)
(* A cache directory is written in one turn, by the source whose ID it     *)
(* has, so what a result says of it holds until the run ends.  A file with *)
(* the hash of an artifact came with a download, through every damage, so  *)
(* the artifact that verify compares with is the pinned one.               *)
(***************************************************************************)
EXTENDS SourceCache, SourceTool, FiniteSetTheorems, SequenceTheorems, WellFoundedInduction, TLAPS

(* Fetchers that have set the cache aside and not returned.                *)
Owner(f) == pc[f] \in {"swap", "restore", "discard"}

CacheInv ==
  /\ \A f, g \in Fetchers : Owner(f) /\ Owner(g) => f = g
  /\ \A f \in Fetchers : Owner(f) => old # Absent
  /\ \A f \in Fetchers : pc[f] = "discard" => cache \in Version
  /\ \A f \in Fetchers :
       pc[f] \in {"install", "backup", "aside", "swap", "place"} => staged[f] = want[f]
  /\ cache \in Version \cup {Absent}
  /\ old \in Version \cup {Absent, Damaged}
  /\ old = Damaged => cache \in Version
  /\ installed = {} => cache = Absent /\ old = Absent
  /\ CacheSurvives

IInv == TypeOK /\ CacheInv

(* The marks are no versions.                                              *)
LEMMA Marks == /\ Absent \notin Version /\ Damaged \notin Version /\ Corrupt \notin Version
               /\ Absent # Damaged
BY VersionAssumption, MarkAssumption DEF Version

(* A checkout satisfies the invariant.                                     *)
LEMMA InitInv == Init => IInv
BY Marks, VersionAssumption
DEF Init, IInv, TypeOK, CacheInv, Owner, CacheSurvives, Version, PC, State

(* Every step keeps the types; a restored backup is whole.                 *)
LEMMA TypeStep == IInv /\ [Next]_vars => TypeOK'
<1> SUFFICES ASSUME IInv, [Next]_vars PROVE TypeOK'
  OBVIOUS
<1>0. active' \subseteq Fetchers /\ faulty' \in BOOLEAN
  BY DEF Next, vars, IInv, TypeOK
<1> USE VersionAssumption, <1>0 DEF IInv, TypeOK, PC, State, directories
<1>1. ASSUME NEW f \in Fetchers, Start(f) PROVE TypeOK'
  BY <1>1 DEF Start
<1>2. ASSUME NEW f \in Fetchers, Check(f) \/ CheckHash(f) \/ FindCache(f) \/ FindBackup(f)
      PROVE TypeOK'
  BY <1>2 DEF Check, CheckHash, FindCache, FindBackup, Goto, Return
<1>3. ASSUME NEW f \in Fetchers, Download(f) PROVE TypeOK'
  BY <1>3 DEF Download
<1>4. ASSUME NEW f \in Fetchers, SetAside(f) \/ Restore(f) PROVE TypeOK'
  BY <1>4 DEF SetAside, Restore, Goto, Return
<1>5. ASSUME NEW f \in Fetchers, DiscardPart(f) \/ Discard(f) PROVE TypeOK'
  BY <1>5 DEF DiscardPart, Discard, Return
<1>6. ASSUME NEW f \in Fetchers, CallFails(f) \/ Kill(f) PROVE TypeOK'
  BY <1>6 DEF CallFails, Kill, Goto, Return
<1>7. ASSUME NEW f \in Fetchers, Swap(f) \/ Place(f) PROVE TypeOK'
  <2>1. pc[f] \in {"swap", "place"} /\ staged[f] \in Version
    BY <1>7 DEF Swap, Place, Goto, Return, CacheInv
  <2> QED
    BY <1>7, <2>1 DEF Swap, Place, Goto, Return, Put
<1>8. CASE LockChanges
  BY <1>8 DEF LockChanges, Version
<1>9. CASE UNCHANGED vars
  BY <1>9 DEF vars
<1> QED
  BY <1>1, <1>2, <1>3, <1>4, <1>5, <1>6, <1>7, <1>8, <1>9 DEF Next, Fetch, IInv, TypeOK

(* Fetchers whose step leaves the directories alone keep the invariant     *)
(* when they become no owner and reach no later point without its check.   *)
LEMMA CacheStep == IInv /\ [Next]_vars => CacheInv'
<1> SUFFICES ASSUME IInv, [Next]_vars PROVE CacheInv'
  OBVIOUS
<1> USE Marks DEF IInv, TypeOK, CacheInv, Owner, CacheSurvives, directories
<1>1. ASSUME NEW f \in Fetchers, Start(f) PROVE CacheInv'
  BY <1>1 DEF Start
<1>2. ASSUME NEW f \in Fetchers, Check(f) PROVE CacheInv'
  BY <1>2 DEF Check, Goto, Return
<1>3. ASSUME NEW f \in Fetchers, Download(f) PROVE CacheInv'
  BY <1>3 DEF Download
<1>4. ASSUME NEW f \in Fetchers, CheckHash(f) PROVE CacheInv'
  BY <1>4 DEF CheckHash, Goto, Return
<1>5. ASSUME NEW f \in Fetchers, FindCache(f) \/ FindBackup(f) PROVE CacheInv'
  BY <1>5 DEF FindCache, FindBackup, Goto, Return
<1>6. ASSUME NEW f \in Fetchers, SetAside(f) PROVE CacheInv'
  BY <1>6 DEF SetAside, Goto, Return
<1>7. ASSUME NEW f \in Fetchers, Swap(f) PROVE CacheInv'
  BY <1>7 DEF Swap, Goto, Put
<1>8. ASSUME NEW f \in Fetchers, Restore(f) PROVE CacheInv'
  BY <1>8 DEF Restore, Return
<1>9. ASSUME NEW f \in Fetchers, DiscardPart(f) PROVE CacheInv'
  BY <1>9 DEF DiscardPart
<1>10. ASSUME NEW f \in Fetchers, Discard(f) PROVE CacheInv'
  BY <1>10 DEF Discard, Return
<1>11. ASSUME NEW f \in Fetchers, Place(f) PROVE CacheInv'
  BY <1>11 DEF Place, Return, Put
<1>12. ASSUME NEW f \in Fetchers, CallFails(f) PROVE CacheInv'
  BY <1>12 DEF CallFails, Goto, Return
<1>13. ASSUME NEW f \in Fetchers, Kill(f) PROVE CacheInv'
  BY <1>13 DEF Kill, Return
<1>14. CASE LockChanges
  BY <1>14 DEF LockChanges
<1>15. CASE UNCHANGED vars
  BY <1>15 DEF vars
<1> QED
  BY <1>1, <1>2, <1>3, <1>4, <1>5, <1>6, <1>7, <1>8, <1>9, <1>10, <1>11, <1>12, <1>13,
     <1>14, <1>15 DEF Next, Fetch

(* The inductive invariant holds in every reachable state of the cache.    *)
THEOREM Invariance == Spec => []IInv
<1>1. IInv /\ [Next]_vars => IInv'
  BY TypeStep, CacheStep DEF IInv
<1> QED
  BY <1>1, InitInv, PTL DEF Spec

-----------------------------------------------------------------------------
(* No fetch, however many run and wherever they fail or are killed,        *)
(* exposes a partial or a mismatched cache directory.                      *)
THEOREM CacheIsNeverPartial == Spec => []NeverPartial
<1>1. IInv => NeverPartial
  BY DEF IInv, CacheInv, NeverPartial
<1> QED
  BY <1>1, Invariance, PTL

(* Once fetched, a whole version stays at the cache directory or its       *)
(* backup: installDir never leaves both gone.                              *)
THEOREM CacheAlwaysSurvives == Spec => []CacheSurvives
<1>1. IInv => CacheSurvives
  BY DEF IInv, CacheInv
<1> QED
  BY <1>1, Invariance, PTL

(* Only content whose hash matched the lock entry is ever installed.       *)
THEOREM InstalledIsVerified == Spec => OnlyVerifiedIsInstalled
<1>1. IInv /\ [Next]_vars =>
        [cache' \notin {cache, Absent, old} =>
           \E f \in Fetchers : pc[f] \in {"swap", "place"} /\ cache' = want[f]]_vars
  <2> SUFFICES ASSUME IInv, Next, cache' \notin {cache, Absent, old}
               PROVE  \E f \in Fetchers : pc[f] \in {"swap", "place"} /\ cache' = want[f]
    OBVIOUS
  <2>1. PICK f \in Fetchers : Swap(f) \/ Place(f)
    BY DEF IInv, TypeOK, Next, Fetch, Start, Check, Download, CheckHash, FindCache, FindBackup, SetAside,
           Restore, DiscardPart, Discard, CallFails, Kill, LockChanges, directories
  <2> QED
    BY <2>1 DEF IInv, CacheInv, Swap, Place, Goto, Return, Put
<1> QED
  BY <1>1, Invariance, PTL DEF OnlyVerifiedIsInstalled, Spec

-----------------------------------------------------------------------------
(* A fetcher alone, of which no call fails, has a backup only between the  *)
(* rename that makes it and the removal, and its swap finds the cache free.*)
QuietInv ==
  \A f \in Fetchers : ~faulty /\ active = {f} =>
    /\ pc[f] \notin {"swap", "discard"} => old = Absent
    /\ pc[f] = "swap" => cache = Absent
    /\ pc[f] # "restore"

(* Its steps keep that.                                                    *)
LEMMA QuietStep == IInv /\ QuietInv /\ [Next]_vars => QuietInv'
<1> SUFFICES ASSUME IInv, QuietInv, [Next]_vars,
                    NEW f \in Fetchers, ~faulty', active' = {f}
             PROVE  /\ pc[f]' \notin {"swap", "discard"} => old' = Absent
                    /\ pc[f]' = "swap" => cache' = Absent
                    /\ pc[f]' # "restore"
  BY DEF QuietInv
<1>1. ~faulty /\ active = {f}
  BY DEF Next, vars
<1>2. /\ pc[f] \notin {"swap", "discard"} => old = Absent
      /\ pc[f] = "swap" => cache = Absent
      /\ pc[f] # "restore"
  BY <1>1 DEF QuietInv
<1>3. pc \in [Fetchers -> PC]
  BY DEF IInv, TypeOK
<1> USE <1>1, <1>2, <1>3 DEF PC, directories
<1>4. CASE Start(f) \/ Check(f) \/ Download(f) \/ CheckHash(f)
  BY <1>4 DEF Start, Check, Download, CheckHash, Goto, Return
<1>5. CASE FindCache(f) \/ FindBackup(f) \/ SetAside(f)
  BY <1>5 DEF FindCache, FindBackup, SetAside, Goto, Return
<1>6. CASE Swap(f) \/ Restore(f) \/ Place(f)
  BY <1>6 DEF Swap, Restore, Place, Put, Goto, Return
<1>7. CASE DiscardPart(f) \/ Discard(f)
  BY <1>7 DEF DiscardPart, Discard, Return
<1>8. CASE LockChanges \/ UNCHANGED vars
  BY <1>8 DEF LockChanges, vars
<1>9. ~(CallFails(f) \/ Kill(f))
  BY DEF CallFails, Kill
<1> QED
  BY <1>4, <1>5, <1>6, <1>7, <1>8, <1>9 DEF Next, Fetch

(* Where one user fetches and nothing fails, no backup is left behind to   *)
(* block the next install.                                                 *)
THEOREM NoBackupIsLeft == Spec => []NoStaleBackup
<1>1. Init => QuietInv
  BY DEF Init, QuietInv
<1>2. QuietInv => NoStaleBackup
  BY DEF QuietInv, NoStaleBackup, Quiet
<1> QED
  BY <1>1, <1>2, QuietStep, Invariance, PTL DEF Spec

(* No version that was installed is lost, and no part of one is shown.     *)
THEOREM CacheStaysWhole == Spec => []CacheIsWhole
BY CacheIsNeverPartial, CacheAlwaysSurvives, PTL DEF CacheIsWhole
-----------------------------------------------------------------------------
(* The least element of a set of numbers.                                  *)
LEMMA Least ==
  ASSUME NEW S \in SUBSET Nat, S # {}
  PROVE  LET m == CHOOSE k \in S : \A l \in S : k <= l
         IN  m \in S /\ \A l \in S : m <= l
<1>1. PICK k \in S : \A l \in S : ~(<<l, k>> \in OpToRel(<, Nat))
  BY NatLessThanWellFounded, WFMin
<1>2. ASSUME NEW l \in S PROVE k <= l
  <2>1. l < k => <<l, k>> \in OpToRel(<, Nat)
    BY DEF OpToRel
  <2>2. ~(l < k)
    BY <1>1, <2>1
  <2>3. k \in Nat /\ l \in Nat
    OBVIOUS
  <2> QED
    BY <2>2, <2>3
<1> QED
  BY <1>2

(* FirstWrong names one of the checks that fail, if any does.              *)
LEMMA FirstWrongFails ==
  ASSUME NEW checks
  PROVE  LET W == {k \in 1..Len(checks) : checks[k].wrong}
         IN  (W = {} /\ FirstWrong(checks) = "") \/ \E k \in W : FirstWrong(checks) = checks[k].error
<1> DEFINE W == {k \in 1..Len(checks) : checks[k].wrong}
<1>1. CASE W = {}
  BY <1>1 DEF FirstWrong
<1>2. CASE W # {}
  <2>1. W \in SUBSET Nat
    OBVIOUS
  <2>2. (CHOOSE k \in W : \A l \in W : k <= l) \in W
    BY <1>2, <2>1, Least
  <2> QED
    BY <1>2, <2>2 DEF FirstWrong
<1> QED
  BY <1>1, <1>2

(* Everything below is about the sources q of a lock that is accepted, with *)
(* the IDs, the source of an ID, and what it depends on.                    *)
IdsOf(q) == {q[i].id : i \in 1..Len(q)}
SourceOf(q, id) == CHOOSE s \in ToSet(q) : s.id = id
DependsOn(q, id) == ToSet(SourceOf(q, id).dependsOn)

Known(q) ==
  /\ q \in Seq(ToSet(q))
  /\ \A i \in 1..Len(q) : q[i].dependsOn \in Seq(ToSet(q[i].dependsOn))
  /\ \A i, j \in 1..Len(q) : q[i].id = q[j].id => i = j
  /\ \A i \in 1..Len(q) : \A d \in ToSet(q[i].dependsOn) : d.pinned \/ d.id \in IdsOf(q)

(* The lock names what is wrong with it, which is never a cycle.           *)
LEMMA ValidateNames ==
  ASSUME lockFile \in Locks
  PROVE  ValidateLock # "cycle" /\ (ValidateLock = "" => Known(Sources))
<1> DEFINE e(i) == FirstWrong(SourceErrors(i))
           own == [i \in 1..Len(Sources) |-> [wrong |-> e(i) # "", error |-> e(i)]]
           W == {k \in 1..Len(own) : own[k].wrong}
<1>1. /\ Sources \in Seq(ToSet(Sources))
      /\ \A s \in ToSet(Sources) : s.dependsOn \in Seq(ToSet(s.dependsOn))
  BY LocksAssumption DEF Sources
<1>2. ASSUME NEW i \in 1..Len(Sources)
      PROVE  /\ e(i) # "cycle"
             /\ e(i) = "" => ~\E j \in 1..(i - 1) : Sources[j].id = Sources[i].id
  <2> DEFINE C == SourceErrors(i)
             V == {k \in 1..Len(C) : C[k].wrong}
  <2>1. Len(C) = 9
    BY DEF SourceErrors
  <2>2. C[2].wrong = \E j \in 1..(i - 1) : Sources[j].id = Sources[i].id
    BY DEF SourceErrors
  <2>3. \A k \in 1..9 : C[k].error # "" /\ C[k].error # "cycle"
    <3>1. /\ C[1].error = "incomplete" /\ C[2].error = "duplicate" /\ C[3].error = "hash"
          /\ C[4].error = "retrieval" /\ C[5].error = "locator" /\ C[6].error = "sdk"
          /\ C[7].error = "architecture" /\ C[8].error = "file" /\ C[9].error = "dependency"
      BY DEF SourceErrors
    <3> HIDE DEF C
    <3>2. \A k \in 1..9 : k = 1 \/ k = 2 \/ k = 3 \/ k = 4 \/ k = 5 \/ k = 6 \/ k = 7 \/ k = 8 \/ k = 9
      OBVIOUS
    <3> QED
      BY <3>1, <3>2
  <2>4. \/ V = {} /\ e(i) = ""
        \/ \E k \in V : e(i) = C[k].error
    BY FirstWrongFails
  <2>5. ASSUME \E j \in 1..(i - 1) : Sources[j].id = Sources[i].id
        PROVE  2 \in V
    <3>1. C[2].wrong
      BY <2>2, <2>5
    <3> HIDE DEF C
    <3> QED
      BY <2>1, <3>1
  <2>6. V \subseteq 1..9
    BY <2>1
  <2> HIDE DEF C, V, e
  <2> QED
    BY <2>3, <2>4, <2>5, <2>6
<1>3. \/ W = {} /\ FirstWrong(own) = ""
      \/ \E k \in W : FirstWrong(own) = own[k].error
  <2> HIDE DEF own
  <2> QED
    BY FirstWrongFails
<1>4. Len(own) = Len(Sources) /\ Len(Sources) \in Nat
  BY <1>1
<1>5. \A k \in 1..Len(Sources) : own[k].wrong = (e(k) # "") /\ own[k].error = e(k)
  OBVIOUS
<1> HIDE DEF e
<1>6. FirstWrong(own) # "cycle" /\ (FirstWrong(own) = "" => \A i \in 1..Len(Sources) : e(i) = "")
  BY <1>2, <1>3, <1>4, <1>5
<1>7. ValidateLock \in {"schema", "empty", FirstWrong(own), "unknown", ""}
  BY DEF ValidateLock, e
<1>8. ValidateLock = "" => FirstWrong(own) = "" /\ ~UnknownDependency
  BY DEF ValidateLock, e
<1> HIDE DEF own, W
<1>9. ASSUME ValidateLock = "" PROVE Known(Sources)
  <2>1. ASSUME NEW i \in 1..Len(Sources), NEW j \in 1..Len(Sources), Sources[i].id = Sources[j].id
        PROVE  i = j
    <3>1. \A m \in 1..Len(Sources) : ~\E n \in 1..(m - 1) : Sources[n].id = Sources[m].id
      BY <1>2, <1>6, <1>8, <1>9
    <3>2. i \notin 1..(j - 1) /\ j \notin 1..(i - 1)
      BY <2>1, <3>1
    <3> QED
      BY <3>2, <1>4
  <2>2. ASSUME NEW i \in 1..Len(Sources), NEW d \in ToSet(Sources[i].dependsOn)
        PROVE  d.pinned \/ d.id \in IdsOf(Sources)
    <3>1. PICK k \in 1..Len(Sources[i].dependsOn) : d = Sources[i].dependsOn[k]
      BY DEF ToSet
    <3> QED
      BY <1>8, <1>9, <3>1 DEF UnknownDependency, IdsOf, Ids
  <2>3. \A i \in 1..Len(Sources) : Sources[i] \in ToSet(Sources)
    BY DEF ToSet
  <2> QED
    BY <1>1, <2>1, <2>2, <2>3 DEF Known
<1> QED
  BY <1>6, <1>7, <1>9
-----------------------------------------------------------------------------
(***************************************************************************)
(* The search: with `stk` the calls of visit and `mk` its marks, a source  *)
(* on the path is marked 1 and stands there once; each of its dependencies *)
(* is still to come, is finished, or is the next call; and a source on the *)
(* path is placed before those below it by every placing that respects the *)
(* dependencies.  The finished sources have such a placing.  X is what the *)
(* top call has taken from its list and not entered yet.                   *)
(***************************************************************************)
FramesOf(q) == [id : IdsOf(q), left : Seq(UNION {ToSet(q[i].dependsOn) : i \in 1..Len(q)})]

Respects(q, place, S) ==
    \A a \in S : \A d \in DependsOn(q, a) : d.pinned \/ (d.id \in S /\ place[d.id] < place[a])

Placings(S) == [S -> 1..Cardinality(S)]

Path(q, stk, mk) ==
    /\ stk \in Seq(FramesOf(q))
    /\ mk \in [IdsOf(q) -> {0, 1, 2}]
    /\ \A i \in 1..Len(stk) : mk[stk[i].id] = 1
    /\ \A a \in IdsOf(q) : mk[a] = 1 => \E i \in 1..Len(stk) : stk[i].id = a
    /\ \A i, j \in 1..Len(stk) : i # j => stk[i].id # stk[j].id

Descends(q, stk) ==
    \A place \in Placings(IdsOf(q)) : Respects(q, place, IdsOf(q)) =>
        \A i, j \in 1..Len(stk) : i < j => place[stk[j].id] < place[stk[i].id]

Covered(q, stk, mk, X) ==
    \A i \in 1..Len(stk) :
        /\ ToSet(stk[i].left) \subseteq DependsOn(q, stk[i].id)
        /\ \A d \in DependsOn(q, stk[i].id) :
             \/ d.pinned
             \/ d \in ToSet(stk[i].left)
             \/ mk[d.id] = 2
             \/ i < Len(stk) /\ stk[i + 1].id = d.id
             \/ i = Len(stk) /\ d \in X

Finished(mk) == {a \in DOMAIN mk : mk[a] = 2}

Placed(q, mk) == \E place \in Placings(Finished(mk)) : Respects(q, place, Finished(mk))

Search(q, stk, mk, X) ==
    Path(q, stk, mk) /\ Descends(q, stk) /\ Covered(q, stk, mk, X) /\ Placed(q, mk)

Calls(q, a) == {d.id : d \in {e \in DependsOn(q, a) : ~e.pinned}}

LEMMA SourceOfId ==
    ASSUME NEW q, Known(q), NEW a \in IdsOf(q)
    PROVE  /\ SourceOf(q, a) \in ToSet(q) /\ SourceOf(q, a).id = a
           /\ SourceOf(q, a).dependsOn \in Seq(UNION {ToSet(q[i].dependsOn) : i \in 1..Len(q)})
           /\ Calls(q, a) \subseteq IdsOf(q)
<1> DEFINE U == UNION {ToSet(q[i].dependsOn) : i \in 1..Len(q)}
<1>1. PICK i \in 1..Len(q) : q[i].id = a
  BY DEF IdsOf
<1>2. q[i] \in ToSet(q)
  BY DEF ToSet
<1>3. SourceOf(q, a) \in ToSet(q) /\ SourceOf(q, a).id = a
  BY <1>1, <1>2 DEF SourceOf
<1>4. PICK j \in 1..Len(q) : q[j] = SourceOf(q, a)
  BY <1>3 DEF ToSet
<1>5. q[j].dependsOn \in Seq(ToSet(q[j].dependsOn)) /\ ToSet(q[j].dependsOn) \subseteq U
  BY DEF Known
<1>6. q[j].dependsOn \in Seq(U)
  BY <1>5
<1>7. Calls(q, a) \subseteq IdsOf(q)
  BY <1>4 DEF Known, Calls, DependsOn
<1> QED
  BY <1>3, <1>4, <1>6, <1>7

LEMMA IdsFinite ==
    ASSUME NEW q, Known(q)
    PROVE  IsFiniteSet(IdsOf(q))
<1> DEFINE f == [i \in 1..Len(q) |-> q[i].id]
<1>1. Len(q) \in Nat
  BY DEF Known
<1>2. IsFiniteSet(1..Len(q))
  BY <1>1, FS_Interval
<1>3. f \in Surjection(1..Len(q), IdsOf(q))
  BY DEF Surjection, IdsOf
<1> QED
  BY <1>2, <1>3, FS_Surjection

LEMMA LastAndFront ==
    ASSUME NEW S, NEW s \in Seq(S), s # <<>>
    PROVE  /\ Len(s) \in Nat \ {0}
           /\ Last(s) = s[Len(s)] /\ Last(s) \in S
           /\ Front(s) \in Seq(S)
           /\ Len(Front(s)) = Len(s) - 1
           /\ \A i \in 1..(Len(s) - 1) : Front(s)[i] = s[i]
<1> DEFINE n == Len(s) - 1
<1>1. Len(s) \in Nat \ {0} /\ n \in Nat
  OBVIOUS
<1>2. \A i \in 1..n : s[i] \in S
  OBVIOUS
<1>3. Last(s) = s[Len(s)] /\ Last(s) \in S
  BY <1>1 DEF Last
<1>4. Front(s) = SubSeq(s, 1, n)
  BY DEF Front
<1> HIDE DEF n
<1>5. /\ SubSeq(s, 1, n) \in Seq(S)
      /\ Len(SubSeq(s, 1, n)) = IF 1 <= n THEN n - 1 + 1 ELSE 0
      /\ \A i \in 1..(n - 1 + 1) : SubSeq(s, 1, n)[i] = s[1 + i - 1]
  BY <1>1, <1>2, SubSeqProperties
<1>6. Len(SubSeq(s, 1, n)) = n
  BY <1>1, <1>5
<1>7. ASSUME NEW i \in 1..n PROVE SubSeq(s, 1, n)[i] = s[i]
  <2>1. i \in 1..(n - 1 + 1) /\ 1 + i - 1 = i
    BY <1>1
  <2> QED
    BY <1>5, <2>1
<1> QED
  BY <1>1, <1>3, <1>4, <1>5, <1>6, <1>7 DEF n

LEMMA HeadOrTail ==
    ASSUME NEW S, NEW s \in Seq(S), s # <<>>
    PROVE  /\ Tail(s) \in Seq(S)
           /\ Head(s) \in ToSet(s)
           /\ ToSet(Tail(s)) \subseteq ToSet(s)
           /\ \A x \in ToSet(s) : x = Head(s) \/ x \in ToSet(Tail(s))
<1>1. Tail(s) \in Seq(S) /\ Len(Tail(s)) = Len(s) - 1 /\ Len(s) \in Nat \ {0} /\ Head(s) = s[1]
  OBVIOUS
<1>2. \A i \in 1..(Len(s) - 1) : Tail(s)[i] = s[i + 1]
  OBVIOUS
<1>3. ToSet(Tail(s)) \subseteq ToSet(s)
  BY <1>1, <1>2 DEF ToSet
<1>4. ASSUME NEW x \in ToSet(s) PROVE x = Head(s) \/ x \in ToSet(Tail(s))
  <2>1. PICK i \in 1..Len(s) : s[i] = x
    BY DEF ToSet
  <2>2. CASE i = 1
    BY <1>1, <2>1, <2>2
  <2>3. CASE i # 1
    <3>1. i - 1 \in 1..Len(Tail(s)) /\ Tail(s)[i - 1] = x
      BY <1>1, <1>2, <2>1, <2>3
    <3>2. DOMAIN Tail(s) = 1..Len(Tail(s))
      BY <1>1
    <3> QED
      BY <3>1, <3>2 DEF ToSet
  <2> QED
    BY <2>2, <2>3
<1>5. Head(s) \in ToSet(s)
  BY <1>1 DEF ToSet
<1> QED
  BY <1>1, <1>3, <1>4, <1>5

(* The top call takes its next dependency.                                 *)
LEMMA Takes ==
    ASSUME NEW q, NEW stk, NEW mk, Search(q, stk, mk, {}), stk # <<>>, Last(stk).left # <<>>
    PROVE  LET d == Head(Last(stk).left)
               rest == Append(Front(stk), [Last(stk) EXCEPT !.left = Tail(@)])
           IN  /\ d \in DependsOn(q, Last(stk).id)
               /\ Search(q, rest, mk, {d})
               /\ rest # <<>> /\ Last(rest).id = Last(stk).id
<1> DEFINE n == Len(stk)
           top == Last(stk)
           d == Head(top.left)
           f == [top EXCEPT !.left = Tail(@)]
           rest == Append(Front(stk), f)
           U == UNION {ToSet(q[i].dependsOn) : i \in 1..Len(q)}
<1>1. stk \in Seq(FramesOf(q))
  BY DEF Search, Path
<1>2. /\ n \in Nat \ {0} /\ top = stk[n] /\ top \in FramesOf(q)
      /\ Front(stk) \in Seq(FramesOf(q)) /\ Len(Front(stk)) = n - 1
      /\ \A i \in 1..(n - 1) : Front(stk)[i] = stk[i]
  BY <1>1, LastAndFront
<1>3. top.id \in IdsOf(q) /\ top.left \in Seq(U)
  BY <1>2 DEF FramesOf
<1>4. /\ Tail(top.left) \in Seq(U)
      /\ d \in ToSet(top.left)
      /\ ToSet(Tail(top.left)) \subseteq ToSet(top.left)
      /\ \A x \in ToSet(top.left) : x = d \/ x \in ToSet(Tail(top.left))
  BY <1>3, HeadOrTail
<1>5. f \in FramesOf(q) /\ f.id = top.id /\ f.left = Tail(top.left)
  BY <1>2, <1>4 DEF FramesOf
<1> HIDE DEF f
<1>6. /\ rest \in Seq(FramesOf(q)) /\ rest # <<>> /\ Len(rest) = n /\ Last(rest) = f
      /\ \A i \in 1..(n - 1) : rest[i] = stk[i]
      /\ rest[n] = f
  BY <1>2, <1>5, AppendProperties DEF Last
<1>7. \A i \in 1..n : rest[i].id = stk[i].id
  BY <1>2, <1>5, <1>6
<1> HIDE DEF n, top, rest, d
<1>8. Path(q, rest, mk)
  BY <1>6, <1>7 DEF Search, Path, n
<1>9. Descends(q, rest)
  BY <1>6, <1>7 DEF Search, Descends, n
<1>10. \A i \in 1..n :
         /\ ToSet(stk[i].left) \subseteq DependsOn(q, stk[i].id)
         /\ \A x \in DependsOn(q, stk[i].id) :
             \/ x.pinned \/ x \in ToSet(stk[i].left) \/ mk[x.id] = 2
             \/ i < n /\ stk[i + 1].id = x.id
  BY DEF Search, Covered, n
<1>11. ToSet(rest[n].left) \subseteq ToSet(stk[n].left) /\ d \in ToSet(stk[n].left)
  BY <1>2, <1>4, <1>5, <1>6
<1>12. \A x \in ToSet(stk[n].left) : x = d \/ x \in ToSet(rest[n].left)
  BY <1>2, <1>4, <1>5, <1>6
<1>13. ASSUME NEW i \in 1..n
       PROVE  /\ ToSet(rest[i].left) \subseteq DependsOn(q, rest[i].id)
              /\ \A x \in DependsOn(q, rest[i].id) :
                   \/ x.pinned \/ x \in ToSet(rest[i].left) \/ mk[x.id] = 2
                   \/ i < n /\ rest[i + 1].id = x.id
                   \/ i = n /\ x \in {d}
  <2>1. CASE i = n
    <3>1. /\ ToSet(stk[n].left) \subseteq DependsOn(q, stk[n].id)
          /\ \A x \in DependsOn(q, stk[n].id) :
               x.pinned \/ x \in ToSet(stk[n].left) \/ mk[x.id] = 2
      BY <1>2, <1>10
    <3>2. rest[n].id = stk[n].id
      BY <1>2, <1>7
    <3>3. ToSet(rest[n].left) \subseteq DependsOn(q, rest[n].id)
      BY <1>11, <3>1, <3>2
    <3>4. ASSUME NEW x \in DependsOn(q, rest[n].id)
          PROVE  x.pinned \/ x \in ToSet(rest[n].left) \/ mk[x.id] = 2 \/ x \in {d}
      BY <1>12, <3>1, <3>2
    <3> QED
      BY <2>1, <3>3, <3>4
  <2>2. CASE i < n
    <3>1. rest[i] = stk[i] /\ rest[i + 1].id = stk[i + 1].id
      BY <1>2, <1>6, <1>7, <2>2
    <3> QED
      BY <1>10, <2>2, <3>1
  <2> QED
    BY <1>2, <2>1, <2>2
<1>14. Covered(q, rest, mk, {d})
  BY <1>6, <1>13 DEF Covered
<1>15. d \in DependsOn(q, top.id)
  BY <1>2, <1>10, <1>11
<1>16. Search(q, rest, mk, {d})
  BY <1>8, <1>9, <1>14 DEF Search
<1> QED
  BY <1>5, <1>6, <1>15, <1>16 DEF rest, f, d, top

(* It is a pinned package, or finished: nothing is left to enter.          *)
LEMMA Returns ==
    ASSUME NEW q, NEW stk, NEW mk, NEW d, Search(q, stk, mk, {d}), d.pinned \/ mk[d.id] = 2
    PROVE  Search(q, stk, mk, {})
<1>1. Covered(q, stk, mk, {})
  BY DEF Search, Covered
<1> QED
  BY <1>1 DEF Search

(* It is on the path: no placing respects the dependencies.                *)
LEMMA ClosesCycle ==
    ASSUME NEW q, NEW stk, NEW mk, NEW X, Search(q, stk, mk, X), Known(q), stk # <<>>,
           NEW a \in Calls(q, Last(stk).id), mk[a] = 1
    PROVE  ~\E place \in Placings(IdsOf(q)) : Respects(q, place, IdsOf(q))
<1>1. stk \in Seq(FramesOf(q))
  BY DEF Search, Path
<1>2. /\ Len(stk) \in Nat \ {0}
      /\ Last(stk) = stk[Len(stk)] /\ Last(stk).id \in IdsOf(q)
  <2>1. Last(stk) \in FramesOf(q)
    BY <1>1, LastAndFront
  <2> QED
    BY <1>1, <2>1, LastAndFront DEF FramesOf
<1>3. a \in IdsOf(q)
  BY <1>2, SourceOfId
<1>4. PICK i \in 1..Len(stk) : stk[i].id = a
  BY <1>3 DEF Search, Path
<1>5. ASSUME NEW place \in Placings(IdsOf(q)), Respects(q, place, IdsOf(q)) PROVE FALSE
  <2>1. PICK d \in DependsOn(q, Last(stk).id) : ~d.pinned /\ d.id = a
    BY DEF Calls
  <2>2. place[a] < place[Last(stk).id]
    BY <1>2, <1>5, <2>1 DEF Respects
  <2>3. i = Len(stk) \/ place[Last(stk).id] < place[a]
    <3>1. i = Len(stk) \/ i < Len(stk)
      BY <1>2
    <3>2. Len(stk) \in 1..Len(stk)
      BY <1>2
    <3> QED
      BY <1>2, <1>4, <1>5, <3>1, <3>2 DEF Search, Descends
  <2>4. place[a] \in Int /\ place[Last(stk).id] \in Int
    BY <1>2, <1>3 DEF Placings
  <2> QED
    BY <1>2, <1>4, <2>2, <2>3, <2>4
<1> QED
  BY <1>5

(* It is not marked: it is entered, above the source that depends on it.   *)
LEMMA Enters ==
    ASSUME NEW q, NEW stk, NEW mk, NEW X, Search(q, stk, mk, X), Known(q), NEW a \in IdsOf(q),
           mk[a] = 0, stk # <<>> => a \in Calls(q, Last(stk).id), \A d \in X : d.id = a
    PROVE  Search(q, Append(stk, [id |-> a, left |-> SourceOf(q, a).dependsOn]),
                  [mk EXCEPT ![a] = 1], {})
<1> DEFINE n == Len(stk)
           f == [id |-> a, left |-> SourceOf(q, a).dependsOn]
           t == Append(stk, f)
           m == [mk EXCEPT ![a] = 1]
<1>1. stk \in Seq(FramesOf(q)) /\ n \in Nat /\ mk \in [IdsOf(q) -> {0, 1, 2}]
  BY DEF Search, Path
<1>2. f \in FramesOf(q) /\ f.id = a /\ f.left = SourceOf(q, a).dependsOn
  BY SourceOfId DEF FramesOf
<1> HIDE DEF f
<1>3. /\ t \in Seq(FramesOf(q)) /\ Len(t) = n + 1
      /\ \A i \in 1..n : t[i] = stk[i]
      /\ t[n + 1] = f
  BY <1>1, <1>2, AppendProperties
<1>4. /\ m \in [IdsOf(q) -> {0, 1, 2}]
      /\ m[a] = 1
      /\ \A b \in IdsOf(q) : b # a => m[b] = mk[b]
  BY <1>1
<1> HIDE DEF t, m
<1>5. /\ \A i \in 1..n : stk[i].id \in IdsOf(q) /\ mk[stk[i].id] = 1
      /\ \A b \in IdsOf(q) : mk[b] = 1 => \E i \in 1..n : stk[i].id = b
      /\ \A i, j \in 1..n : i # j => stk[i].id # stk[j].id
  <2>1. \A i \in 1..n : stk[i] \in FramesOf(q)
    BY <1>1
  <2>2. \A i \in 1..n : stk[i].id \in IdsOf(q)
    BY <2>1 DEF FramesOf
  <2> QED
    BY <2>2 DEF Search, Path, n
<1> HIDE DEF n
<1>6. \A i \in 1..(n + 1) : i \in 1..n \/ i = n + 1
  BY <1>1
<1>7. \A i \in 1..n : stk[i].id # a
  BY <1>5
<1>8. Path(q, t, m)
  <2>1. \A i \in 1..(n + 1) : m[t[i].id] = 1
    BY <1>2, <1>3, <1>4, <1>5, <1>6, <1>7
  <2>2. ASSUME NEW b \in IdsOf(q), m[b] = 1 PROVE \E i \in 1..(n + 1) : t[i].id = b
    <3>1. CASE b = a
      BY <1>1, <1>2, <1>3, <3>1
    <3>2. CASE b # a
      <4>1. PICK i \in 1..n : stk[i].id = b
        BY <1>4, <1>5, <2>2, <3>2
      <4>2. i \in 1..(n + 1) /\ t[i].id = b
        BY <1>1, <1>3, <4>1
      <4> QED
        BY <4>2
    <3> QED
      BY <3>1, <3>2
  <2>3. ASSUME NEW i \in 1..(n + 1), NEW j \in 1..(n + 1), i # j PROVE t[i].id # t[j].id
    <3>1. CASE i \in 1..n /\ j \in 1..n
      BY <1>3, <1>5, <2>3, <3>1
    <3>2. CASE i = n + 1 \/ j = n + 1
      BY <1>2, <1>3, <1>6, <1>7, <2>3, <3>2
    <3> QED
      BY <1>6, <3>1, <3>2
  <2> QED
    BY <1>3, <1>4, <2>1, <2>2, <2>3 DEF Path
<1>9. Descends(q, t)
  <2> SUFFICES ASSUME NEW place \in Placings(IdsOf(q)), Respects(q, place, IdsOf(q)),
                      NEW i \in 1..(n + 1), NEW j \in 1..(n + 1), i < j
               PROVE  place[t[j].id] < place[t[i].id]
    BY <1>3 DEF Descends
  <2>1. \A k, l \in 1..n : k < l => place[stk[l].id] < place[stk[k].id]
    BY DEF Search, Descends, n
  <2>2. CASE j \in 1..n
    <3>1. i \in 1..n
      BY <1>1, <2>2
    <3> QED
      BY <1>3, <2>1, <2>2, <3>1
  <2>3. CASE j = n + 1
    <3>1. i \in 1..n /\ n \in 1..n /\ (i = n \/ i < n)
      BY <1>1, <2>3
    <3>2. stk # <<>> /\ Last(stk) = stk[n]
      BY <1>1, <3>1 DEF Last, n
    <3>3. PICK d \in DependsOn(q, stk[n].id) : ~d.pinned /\ d.id = a
      BY <3>2 DEF Calls
    <3>4. place[a] < place[stk[n].id]
      BY <1>5, <3>1, <3>3 DEF Respects
    <3>5. i = n \/ place[stk[n].id] < place[stk[i].id]
      BY <2>1, <3>1
    <3>6. place[a] \in Int /\ place[stk[n].id] \in Int /\ place[stk[i].id] \in Int
      BY <1>5, <3>1 DEF Placings
    <3>7. place[a] < place[stk[i].id]
      BY <3>4, <3>5, <3>6
    <3> QED
      BY <1>2, <1>3, <2>3, <3>1, <3>7
  <2> QED
    BY <1>6, <2>2, <2>3
<1>10. Covered(q, t, m, {})
  <2>1. \A i \in 1..n :
         /\ ToSet(stk[i].left) \subseteq DependsOn(q, stk[i].id)
         /\ \A x \in DependsOn(q, stk[i].id) :
             \/ x.pinned \/ x \in ToSet(stk[i].left) \/ mk[x.id] = 2
             \/ i < n /\ stk[i + 1].id = x.id
             \/ i = n /\ x.id = a
    BY DEF Search, Covered, n
  <2>2. ASSUME NEW i \in 1..n
        PROVE  /\ ToSet(t[i].left) \subseteq DependsOn(q, t[i].id)
               /\ \A x \in DependsOn(q, t[i].id) :
                    \/ x.pinned \/ x \in ToSet(t[i].left) \/ m[x.id] = 2
                    \/ i < n + 1 /\ t[i + 1].id = x.id
    <3>1. t[i] = stk[i] /\ i < n + 1
      BY <1>1, <1>3
    <3>2. i < n => t[i + 1] = stk[i + 1]
      BY <1>1, <1>3
    <3>3. ASSUME NEW x \in DependsOn(q, stk[i].id)
          PROVE  \/ x.pinned \/ x \in ToSet(stk[i].left) \/ m[x.id] = 2
                 \/ i < n + 1 /\ t[i + 1].id = x.id
      <4>1. x.pinned \/ x.id \in IdsOf(q)
        <5>1. Calls(q, stk[i].id) \subseteq IdsOf(q)
          BY <1>5, SourceOfId
        <5>2. x.pinned \/ x.id \in Calls(q, stk[i].id)
          BY DEF Calls
        <5> QED
          BY <5>1, <5>2
      <4>2. x.id \in IdsOf(q) /\ mk[x.id] = 2 => m[x.id] = 2
        BY <1>4
      <4>3. i = n => t[i + 1].id = a
        BY <1>2, <1>3
      <4> QED
        BY <2>1, <3>1, <3>2, <4>1, <4>2, <4>3
    <3> QED
      BY <2>1, <3>1, <3>3
  <2>3. /\ ToSet(t[n + 1].left) \subseteq DependsOn(q, t[n + 1].id)
        /\ \A x \in DependsOn(q, t[n + 1].id) : x \in ToSet(t[n + 1].left)
    BY <1>2, <1>3 DEF DependsOn
  <2> QED
    BY <1>3, <1>6, <2>2, <2>3 DEF Covered
<1>11. Placed(q, m)
  <2>1. Finished(m) = Finished(mk)
    BY <1>1, <1>4 DEF Finished
  <2> QED
    BY <2>1 DEF Search, Placed
<1>12. Search(q, t, m, {})
  BY <1>8, <1>9, <1>10, <1>11 DEF Search
<1> QED
  BY <1>12 DEF t, f, m

(* All its dependencies returned: it is placed after every finished one.   *)
LEMMA Finishes ==
    ASSUME NEW q, NEW stk, NEW mk, Search(q, stk, mk, {}), Known(q), stk # <<>>, Last(stk).left = <<>>
    PROVE  Search(q, Front(stk), [mk EXCEPT ![Last(stk).id] = 2], {})
<1> DEFINE n == Len(stk)
           t == Front(stk)
           a == Last(stk).id
           m == [mk EXCEPT ![a] = 2]
           F == Finished(mk)
<1>1. stk \in Seq(FramesOf(q)) /\ mk \in [IdsOf(q) -> {0, 1, 2}]
  BY DEF Search, Path
<1>2. /\ n \in Nat \ {0} /\ a = stk[n].id /\ stk[n].left = <<>>
      /\ t \in Seq(FramesOf(q)) /\ Len(t) = n - 1
      /\ \A i \in 1..(n - 1) : t[i] = stk[i]
  BY <1>1, LastAndFront
<1> HIDE DEF a, t
<1>3. /\ \A i \in 1..n : stk[i].id \in IdsOf(q)
      /\ \A i \in 1..n : mk[stk[i].id] = 1
      /\ \A b \in IdsOf(q) : mk[b] = 1 => \E i \in 1..n : stk[i].id = b
      /\ \A i, j \in 1..n : i # j => stk[i].id # stk[j].id
  <2>1. \A i \in 1..n : stk[i] \in FramesOf(q)
    BY <1>1
  <2>2. \A i \in 1..n : stk[i].id \in IdsOf(q)
    BY <2>1 DEF FramesOf
  <2> QED
    BY <2>2 DEF Search, Path, n
<1> HIDE DEF n
<1>4. a \in IdsOf(q) /\ mk[a] = 1
  BY <1>2, <1>3
<1>5. /\ m \in [IdsOf(q) -> {0, 1, 2}]
      /\ m[a] = 2
      /\ \A b \in IdsOf(q) : b # a => m[b] = mk[b]
  BY <1>1, <1>4
<1> HIDE DEF m
<1>6. \A i \in 1..(n - 1) : i \in 1..n /\ i # n /\ i + 1 \in 1..n
  BY <1>2
<1>7. \A i \in 1..(n - 1) : stk[i].id # a
  BY <1>2, <1>3, <1>6
<1>8. Path(q, t, m)
  <2>1. \A i \in 1..(n - 1) : m[t[i].id] = 1
    BY <1>2, <1>3, <1>5, <1>6, <1>7
  <2>2. ASSUME NEW b \in IdsOf(q), m[b] = 1 PROVE \E i \in 1..(n - 1) : t[i].id = b
    <3>1. PICK i \in 1..n : stk[i].id = b
      BY <1>3, <1>5, <2>2
    <3>2. i # n
      BY <1>2, <1>5, <2>2, <3>1
    <3>3. i \in 1..(n - 1)
      BY <1>2, <3>2
    <3> QED
      BY <1>2, <3>1, <3>3
  <2>3. \A i, j \in 1..(n - 1) : i # j => t[i].id # t[j].id
    BY <1>2, <1>3, <1>6
  <2> QED
    BY <1>2, <1>5, <2>1, <2>2, <2>3 DEF Path
<1>9. Descends(q, t)
  <2> SUFFICES ASSUME NEW place \in Placings(IdsOf(q)), Respects(q, place, IdsOf(q)),
                      NEW i \in 1..(n - 1), NEW j \in 1..(n - 1), i < j
               PROVE  place[t[j].id] < place[t[i].id]
    BY <1>2 DEF Descends
  <2>1. \A k, l \in 1..n : k < l => place[stk[l].id] < place[stk[k].id]
    BY DEF Search, Descends, n
  <2> QED
    BY <1>2, <1>6, <2>1
<1>10. \A i \in 1..n :
         /\ ToSet(stk[i].left) \subseteq DependsOn(q, stk[i].id)
         /\ \A x \in DependsOn(q, stk[i].id) :
             \/ x.pinned \/ x \in ToSet(stk[i].left) \/ mk[x.id] = 2
             \/ i < n /\ stk[i + 1].id = x.id
  BY DEF Search, Covered, n
<1>11. ASSUME NEW i \in 1..n, NEW x \in DependsOn(q, stk[i].id)
       PROVE  x.pinned \/ x.id \in IdsOf(q)
  <2>1. Calls(q, stk[i].id) \subseteq IdsOf(q)
    BY <1>3, SourceOfId
  <2>2. x.pinned \/ x.id \in Calls(q, stk[i].id)
    BY DEF Calls
  <2> QED
    BY <2>1, <2>2
<1>12. Covered(q, t, m, {})
  <2>1. ASSUME NEW i \in 1..(n - 1)
        PROVE  /\ ToSet(t[i].left) \subseteq DependsOn(q, t[i].id)
               /\ \A x \in DependsOn(q, t[i].id) :
                    \/ x.pinned \/ x \in ToSet(t[i].left) \/ m[x.id] = 2
                    \/ i < n - 1 /\ t[i + 1].id = x.id
    <3>1. t[i] = stk[i] /\ i \in 1..n
      BY <1>2, <1>6
    <3>2. i < n - 1 => t[i + 1] = stk[i + 1]
      BY <1>2
    <3>3. i < n - 1 \/ i + 1 = n
      BY <1>2
    <3>4. ASSUME NEW x \in DependsOn(q, stk[i].id)
          PROVE  \/ x.pinned \/ x \in ToSet(stk[i].left) \/ m[x.id] = 2
                 \/ i < n - 1 /\ t[i + 1].id = x.id
      <4>1. x.pinned \/ x.id \in IdsOf(q)
        BY <1>11, <3>1
      <4>2. x.id \in IdsOf(q) /\ mk[x.id] = 2 => m[x.id] = 2
        BY <1>5
      <4>3. stk[n].id = x.id => m[x.id] = 2
        BY <1>2, <1>5
      <4> QED
        BY <1>10, <3>1, <3>2, <3>3, <4>1, <4>2, <4>3
    <3> QED
      BY <1>10, <3>1, <3>4
  <2> QED
    BY <1>2, <2>1 DEF Covered
<1>13. Placed(q, m)
  <2>1. PICK place \in Placings(F) : Respects(q, place, F)
    BY DEF Search, Placed
  <2>2. F \subseteq IdsOf(q) /\ a \notin F /\ Finished(m) = F \cup {a}
    BY <1>1, <1>4, <1>5 DEF Finished
  <2>3. IsFiniteSet(F)
    BY <2>2, IdsFinite, FS_Subset
  <2>4. Cardinality(F) \in Nat /\ Cardinality(F \cup {a}) = Cardinality(F) + 1
    BY <2>2, <2>3, FS_AddElement, FS_CardinalityType
  <2> HIDE DEF F
  <2> DEFINE c == Cardinality(F)
             p == [b \in F \cup {a} |-> IF b = a THEN c + 1 ELSE place[b]]
  <2>5. place \in [F -> 1..c]
    BY DEF Placings
  <2>6. p \in Placings(F \cup {a})
    <3>1. \A b \in F \cup {a} : p[b] \in 1..(c + 1)
      BY <2>2, <2>4, <2>5
    <3> QED
      BY <2>4, <3>1 DEF Placings
  <2>7. \A x \in DependsOn(q, a) : x.pinned \/ x.id \in F
    <3>1. ASSUME NEW x \in DependsOn(q, a), ~x.pinned PROVE x.id \in F
      <4>1. n \in 1..n /\ ~(n < n) /\ ToSet(stk[n].left) = {}
        BY <1>2 DEF ToSet
      <4>2. x.id \in IdsOf(q)
        BY <1>2, <1>11, <3>1, <4>1
      <4>3. mk[x.id] = 2
        BY <1>2, <1>10, <3>1, <4>1
      <4> QED
        BY <1>1, <4>2, <4>3 DEF Finished, F
    <3> QED
      BY <3>1
  <2>8. Respects(q, p, F \cup {a})
    <3>1. ASSUME NEW b \in F, NEW x \in DependsOn(q, b), ~x.pinned
          PROVE  x.id \in F \cup {a} /\ p[x.id] < p[b]
      <4>1. x.id \in F /\ place[x.id] < place[b]
        BY <2>1, <3>1 DEF Respects
      <4> QED
        BY <2>2, <3>1, <4>1
    <3>2. ASSUME NEW x \in DependsOn(q, a), ~x.pinned
          PROVE  x.id \in F \cup {a} /\ p[x.id] < p[a]
      <4>1. x.id \in F /\ place[x.id] \in 1..c
        BY <2>5, <2>7, <3>2
      <4> QED
        BY <2>2, <2>4, <4>1
    <3> HIDE DEF p
    <3> QED
      BY <3>1, <3>2 DEF Respects
  <2> QED
    BY <2>2, <2>6, <2>8 DEF Placed
<1>14. Search(q, t, m, {})
  BY <1>8, <1>9, <1>12, <1>13 DEF Search
<1> QED
  BY <1>14 DEF t, m, a

-----------------------------------------------------------------------------
LEMMA AcyclicMeans ==
    ASSUME Known(Sources)
    PROVE  Acyclic <=> \E place \in Placings(IdsOf(Sources)) : Respects(Sources, place, IdsOf(Sources))
<1> DEFINE q == Sources
<1>1. Ids = IdsOf(q)
  BY DEF Ids, IdsOf
<1>2. ASSUME NEW i \in 1..Len(q) PROVE SourceOf(q, q[i].id) = q[i]
  <2>1. q[i].id \in IdsOf(q)
    BY DEF IdsOf
  <2>2. SourceOf(q, q[i].id) \in ToSet(q) /\ SourceOf(q, q[i].id).id = q[i].id
    BY <2>1, SourceOfId
  <2>3. PICK j \in 1..Len(q) : q[j] = SourceOf(q, q[i].id)
    BY <2>2 DEF ToSet, Known
  <2> QED
    BY <2>2, <2>3 DEF Known
<1>3. ASSUME NEW i \in 1..Len(q)
      PROVE  DependsOn(q, q[i].id) = {q[i].dependsOn[k] : k \in 1..Len(q[i].dependsOn)}
  BY <1>2 DEF DependsOn, ToSet, Known
<1>4. \A i \in 1..Len(q) : \A d \in DependsOn(q, q[i].id) : d.pinned \/ d.id \in IdsOf(q)
  BY <1>2 DEF DependsOn, Known
<1>5. ASSUME NEW place
      PROVE  Respects(q, place, IdsOf(q)) <=>
               \A i \in 1..Len(q) : \A k \in 1..Len(q[i].dependsOn) :
                 q[i].dependsOn[k].pinned \/ place[q[i].dependsOn[k].id] < place[q[i].id]
  <2>1. Respects(q, place, IdsOf(q)) <=>
          \A i \in 1..Len(q) : \A d \in DependsOn(q, q[i].id) : d.pinned \/ place[d.id] < place[q[i].id]
    BY <1>4 DEF Respects, IdsOf
  <2> QED
    BY <1>3, <2>1
<1> QED
  BY <1>1, <1>5 DEF Acyclic, Placings

(***************************************************************************)
(* What the tool keeps to: the search above while it visits, an order of   *)
(* the sources once the lock was accepted, and none when it was refused.   *)
(***************************************************************************)
Visiting ==
    /\ Known(Sources)
    /\ roots \subseteq IdsOf(Sources)
    /\ \A a \in IdsOf(Sources) : a \in roots \/ marks[a] # 0
    /\ Search(Sources, stack, marks, {})

ToolInv ==
    /\ lockFile \in Locks
    /\ phase = "open" => stack = <<>>
    /\ phase = "visit" => Visiting
    /\ phase \in {"ready", "update"} => Acyclic
    /\ error = "cycle" => phase = "exit" /\ ~Acyclic

LEMMA SameLock ==
    ASSUME UNCHANGED lockFile
    PROVE  Sources' = Sources /\ (Acyclic' <=> Acyclic)
BY DEF Sources, Acyclic, Ids

LEMMA EnterKeeps ==
    ASSUME ToolInv, phase = "visit", UNCHANGED lockFile, NEW below, NEW X, NEW id \in IdsOf(Sources),
           Search(Sources, below, marks, X), below # <<>> => id \in Calls(Sources, Last(below).id),
           \A d \in X : d.id = id, Enter(id, below),
           roots' \subseteq roots, \A a \in roots : a \in roots' \/ a = id
    PROVE  ToolInv'
<1> DEFINE q == Sources
<1>1. Visiting /\ lockFile \in Locks /\ error # "cycle"
  BY DEF ToolInv
<1>2. Known(q) /\ roots \subseteq IdsOf(q) /\ \A a \in IdsOf(q) : a \in roots \/ marks[a] # 0
  BY <1>1 DEF Visiting
<1>3. marks \in [IdsOf(q) -> {0, 1, 2}] /\ below \in Seq(FramesOf(q))
  BY DEF Search, Path
<1>4. marks[id] = 0 \/ marks[id] = 1 \/ marks[id] = 2
  BY <1>3
<1>5. Sources' = q /\ (Acyclic' <=> Acyclic)
  BY SameLock
<1> HIDE DEF q
<1>6. CASE marks[id] = 1
  <2>1. below # <<>>
    <3>1. \E i \in 1..Len(below) : below[i].id = id
      BY <1>6 DEF Search, Path, q
    <3> QED
      BY <3>1
  <2>2. ~Acyclic
    BY <1>2, <1>6, <2>1, ClosesCycle, AcyclicMeans DEF q
  <2>3. phase' = "exit" /\ error' = "cycle"
    BY <1>6 DEF Enter, Exit
  <2> QED
    BY <1>1, <1>5, <2>2, <2>3 DEF ToolInv
<1>7. CASE marks[id] = 2
  <2>1. stack' = below /\ phase' = phase /\ error' = error /\ marks' = marks
    BY <1>7 DEF Enter
  <2>2. Search(q, below, marks, {})
    <3>1. Covered(q, below, marks, {})
      BY <1>7 DEF Search, Covered, q
    <3> QED
      BY <3>1 DEF Search, q
  <2>3. Visiting'
    BY <1>2, <1>5, <1>7, <2>1, <2>2 DEF Visiting
  <2> QED
    BY <1>1, <2>1, <2>3 DEF ToolInv
<1>8. CASE marks[id] = 0
  <2>1. /\ stack' = Append(below, [id |-> id, left |-> SourceOf(q, id).dependsOn])
        /\ marks' = [marks EXCEPT ![id] = 1]
        /\ phase' = phase /\ error' = error
    BY <1>8 DEF Enter, ById, SourceOf, q
  <2>2. Search(q, stack', marks', {})
    BY <1>2, <1>8, <2>1, Enters DEF q
  <2>3. \A a \in IdsOf(q) : a \in roots' \/ marks'[a] # 0
    BY <1>2, <1>3, <2>1
  <2>4. Visiting'
    BY <1>2, <1>5, <2>2, <2>3 DEF Visiting
  <2> QED
    BY <1>1, <2>1, <2>4 DEF ToolInv
<1> QED
  BY <1>4, <1>6, <1>7, <1>8

LEMMA ToolInvInit == ToolInit => ToolInv
BY DEF ToolInit, ToolInv

LEMMA OpenKeeps == ToolInv /\ Open => ToolInv'
<1> SUFFICES ASSUME ToolInv, Open PROVE ToolInv'
  OBVIOUS
<1>1. lockFile \in Locks /\ error # "cycle" /\ UNCHANGED lockFile
  BY DEF ToolInv, Open
<1>2. Sources' = Sources /\ (Acyclic' <=> Acyclic)
  BY <1>1, SameLock
<1>3. ValidateLock # "cycle" /\ (ValidateLock = "" => Known(Sources))
  BY <1>1, ValidateNames
<1>4. CASE ValidateLock # ""
  <2>1. phase' = "exit" /\ error' = ValidateLock
    BY <1>4 DEF Open, Exit
  <2> QED
    BY <1>1, <1>3, <2>1 DEF ToolInv
<1>5. CASE ValidateLock = ""
  <2> DEFINE q == Sources
  <2>1. /\ phase' = "visit" /\ roots' = Ids /\ marks' = [id \in Ids |-> 0]
        /\ error' = error /\ stack' = stack
    BY <1>5 DEF Open
  <2>2. Ids = IdsOf(q)
    BY DEF Ids, IdsOf
  <2>3. stack = <<>>
    BY DEF Open, ToolInv
  <2>4. Known(q)
    BY <1>3, <1>5
  <2> HIDE DEF q
  <2>5. Path(q, <<>>, marks') /\ Descends(q, <<>>) /\ Covered(q, <<>>, marks', {})
    BY <2>1, <2>2 DEF Path, Descends, Covered
  <2>6. Placed(q, marks')
    <3>1. Finished(marks') = {}
      BY <2>1 DEF Finished
    <3>2. <<>> \in Placings({}) /\ Respects(q, <<>>, {})
      BY DEF Placings, Respects
    <3> QED
      BY <3>1, <3>2 DEF Placed
  <2>7. Search(q, <<>>, marks', {})
    BY <2>5, <2>6 DEF Search
  <2>8. Visiting'
    BY <1>2, <2>1, <2>2, <2>3, <2>4, <2>7 DEF Visiting, q
  <2> QED
    BY <1>1, <2>1, <2>8 DEF ToolInv
<1> QED
  BY <1>4, <1>5

LEMMA VisitRootKeeps == ToolInv /\ VisitRoot => ToolInv'
<1> SUFFICES ASSUME ToolInv, VisitRoot PROVE ToolInv'
  OBVIOUS
<1>1. phase = "visit" /\ stack = <<>> /\ UNCHANGED lockFile
  BY DEF VisitRoot
<1>2. PICK id \in roots : Enter(id, <<>>) /\ roots' = roots \ {id}
  BY DEF VisitRoot
<1>3. Visiting
  BY <1>1 DEF ToolInv
<1>4. id \in IdsOf(Sources) /\ Search(Sources, <<>>, marks, {})
  BY <1>1, <1>3 DEF Visiting
<1>5. roots' \subseteq roots /\ \A a \in roots : a \in roots' \/ a = id
  BY <1>2
<1> QED
  BY <1>1, <1>2, <1>4, <1>5, EnterKeeps

LEMMA VisitDependencyKeeps == ToolInv /\ VisitDependency => ToolInv'
<1> SUFFICES ASSUME ToolInv, VisitDependency PROVE ToolInv'
  OBVIOUS
<1> DEFINE d == Head(Last(stack).left)
           rest == Append(Front(stack), [Last(stack) EXCEPT !.left = Tail(@)])
           q == Sources
<1>1. /\ phase = "visit" /\ stack # <<>> /\ Last(stack).left # <<>>
      /\ UNCHANGED <<lockFile, roots>>
      /\ IF d.pinned THEN stack' = rest /\ UNCHANGED <<phase, error, marks>> ELSE Enter(d.id, rest)
  BY DEF VisitDependency
<1>2. Visiting
  BY <1>1 DEF ToolInv
<1>3. Known(q) /\ Search(q, stack, marks, {})
  BY <1>2 DEF Visiting
<1>4. /\ d \in DependsOn(q, Last(stack).id)
      /\ Search(q, rest, marks, {d})
      /\ rest # <<>> /\ Last(rest).id = Last(stack).id
  BY <1>1, <1>3, Takes
<1>5. CASE d.pinned
  <2>1. stack' = rest /\ phase' = phase /\ error' = error /\ marks' = marks
    BY <1>1, <1>5
  <2>2. Search(q, rest, marks, {})
    BY <1>4, <1>5, Returns
  <2>3. Sources' = q /\ (Acyclic' <=> Acyclic) /\ roots' = roots
    BY <1>1, SameLock
  <2> HIDE DEF q, rest, d
  <2>4. Visiting'
    BY <1>2, <2>1, <2>2, <2>3 DEF Visiting, q
  <2> QED
    BY <1>1, <2>1, <2>3, <2>4 DEF ToolInv
<1>6. CASE ~d.pinned
  <2>1. Enter(d.id, rest)
    BY <1>1, <1>6
  <2>2. Last(stack).id \in IdsOf(q)
    <3>1. Last(stack) \in FramesOf(q)
      BY <1>1, <1>3, LastAndFront DEF Search, Path
    <3> QED
      BY <3>1 DEF FramesOf
  <2> HIDE DEF q, rest, d
  <2>3. d.id \in Calls(q, Last(stack).id) /\ d.id \in Calls(q, Last(rest).id)
    BY <1>4, <1>6 DEF Calls
  <2>4. d.id \in IdsOf(q)
    BY <1>3, <2>2, <2>3, SourceOfId
  <2>5. roots' \subseteq roots /\ \A a \in roots : a \in roots' \/ a = d.id
    BY <1>1
  <2>6. \A x \in {d} : x.id = d.id
    OBVIOUS
  <2> QED
    BY <1>1, <1>4, <2>1, <2>3, <2>4, <2>5, <2>6, EnterKeeps DEF q
<1> QED
  BY <1>5, <1>6

LEMMA FinishVisitKeeps == ToolInv /\ FinishVisit => ToolInv'
<1> SUFFICES ASSUME ToolInv, FinishVisit PROVE ToolInv'
  OBVIOUS
<1> DEFINE q == Sources
<1>1. /\ phase = "visit" /\ stack # <<>> /\ Last(stack).left = <<>>
      /\ marks' = [marks EXCEPT ![Last(stack).id] = 2]
      /\ stack' = Front(stack)
      /\ UNCHANGED <<phase, lockFile, error, roots>>
  BY DEF FinishVisit
<1>2. Visiting
  BY <1>1 DEF ToolInv
<1>3. /\ Known(q) /\ Search(q, stack, marks, {})
      /\ \A a \in IdsOf(q) : a \in roots \/ marks[a] # 0
      /\ roots \subseteq IdsOf(q)
  BY <1>2 DEF Visiting
<1>4. Search(q, stack', marks', {})
  BY <1>1, <1>3, Finishes
<1>5. Sources' = q /\ (Acyclic' <=> Acyclic)
  BY <1>1, SameLock
<1>6. marks \in [IdsOf(q) -> {0, 1, 2}]
  BY <1>3 DEF Search, Path
<1> HIDE DEF q
<1>7. \A a \in IdsOf(q) : a \in roots \/ marks'[a] # 0
  BY <1>1, <1>3, <1>6
<1>8. Visiting'
  BY <1>1, <1>3, <1>4, <1>5, <1>7 DEF Visiting
<1> QED
  BY <1>1, <1>5, <1>8 DEF ToolInv

LEMMA OpenedKeeps == ToolInv /\ Opened => ToolInv'
<1> SUFFICES ASSUME ToolInv, Opened PROVE ToolInv'
  OBVIOUS
<1> DEFINE q == Sources
<1>1. phase = "visit" /\ stack = <<>> /\ roots = {} /\ phase' = "ready" /\ UNCHANGED <<lockFile, error>>
  BY DEF Opened
<1>2. Visiting
  BY <1>1 DEF ToolInv
<1>3. Known(q) /\ Search(q, <<>>, marks, {}) /\ \A a \in IdsOf(q) : marks[a] # 0
  BY <1>1, <1>2 DEF Visiting
<1>4. \A a \in IdsOf(q) : marks[a] # 1
  <2>1. ASSUME NEW a \in IdsOf(q), marks[a] = 1 PROVE FALSE
    <3>1. \E i \in 1..Len(<<>>) : <<>>[i].id = a
      BY <1>3, <2>1 DEF Search, Path
    <3> QED
      BY <3>1
  <2> QED
    BY <2>1
<1>5. Finished(marks) = IdsOf(q)
  <2>1. marks \in [IdsOf(q) -> {0, 1, 2}]
    BY <1>3 DEF Search, Path
  <2> QED
    BY <1>3, <1>4, <2>1 DEF Finished
<1>6. Acyclic
  BY <1>3, <1>5, AcyclicMeans DEF Search, Placed
<1>7. Acyclic' <=> Acyclic
  BY <1>1, SameLock
<1> QED
  BY <1>1, <1>6, <1>7 DEF ToolInv

(* The other actions leave the lock alone, or read another one.            *)
LEMMA OthersKeep ==
    ASSUME ToolInv,
           \/ List \/ StartCache \/ Usage \/ StartUpdate
           \/ FetchKept \/ FetchFails \/ FetchWithoutSdk \/ FetchArtifact \/ VerifySource
           \/ FinishCache \/ RunAgain
           \/ NoIndex \/ IndexUnavailable \/ ReadIndex \/ FinishUpdate
           \/ UNCHANGED toolVars
    PROVE  ToolInv'
<1>1. CASE List \/ Usage
  <2>1. phase' = "exit" /\ error' # "cycle" /\ UNCHANGED lockFile
    BY <1>1 DEF List, Usage, Exit
  <2> QED
    BY <2>1 DEF ToolInv
<1>2. CASE StartUpdate
  <2>1. phase = "ready" /\ phase' = "update" /\ UNCHANGED <<lockFile, error>>
    BY <1>2 DEF StartUpdate
  <2> QED
    BY <2>1, SameLock DEF ToolInv
<1>3. CASE StartCache \/ FinishCache \/ FinishUpdate
  <2>1. /\ phase \in {"ready", "fetch", "verify", "update"} /\ phase' \in {"fetch", "verify", "exit"}
        /\ UNCHANGED <<lockFile, error>>
    BY <1>3 DEF StartCache, FinishCache, FinishUpdate
  <2> QED
    BY <2>1 DEF ToolInv
<1>4. CASE FetchKept \/ FetchFails \/ FetchWithoutSdk \/ FetchArtifact \/ VerifySource
  <2>1. /\ phase \in {"fetch", "verify"} /\ phase' = phase /\ error' \in {phase, error}
        /\ UNCHANGED lockFile
    BY <1>4 DEF FetchKept, FetchFails, FetchWithoutSdk, FetchArtifact, VerifySource, MoreToDo, Result
  <2> QED
    BY <2>1 DEF ToolInv
<1>5. CASE RunAgain
  <2>1. phase' = "open" /\ error' = "" /\ stack' = <<>>
    BY <1>5 DEF RunAgain
  <2>2. lockFile' = lockFile \/ \E R \in Revisions : lockFile' \in R
    BY <1>5 DEF RunAgain
  <2>3. lockFile' \in Locks
    BY <2>2, LocksAssumption DEF ToolInv
  <2> QED
    BY <2>1, <2>3 DEF ToolInv
<1>6. CASE NoIndex \/ IndexUnavailable \/ ReadIndex
  <2>1. /\ phase = "update" /\ phase' = phase /\ error' \in {"updates", error}
        /\ UNCHANGED lockFile
    BY <1>6 DEF NoIndex, IndexUnavailable, ReadIndex, MoreSources, Report
  <2> QED
    BY <2>1, SameLock DEF ToolInv
<1>7. CASE UNCHANGED toolVars
  <2>1. UNCHANGED <<phase, lockFile, error, roots, marks, stack>>
    BY <1>7 DEF toolVars
  <2>2. Sources' = Sources /\ (Acyclic' <=> Acyclic)
    BY <2>1, SameLock
  <2>3. Visiting' <=> Visiting
    BY <2>1, <2>2 DEF Visiting
  <2> QED
    BY <2>1, <2>2, <2>3 DEF ToolInv
<1> QED
  BY <1>1, <1>2, <1>3, <1>4, <1>5, <1>6, <1>7

(***************************************************************************)
(* A lock of any number of sources is accepted only if its sources can be  *)
(* put in an order in which each comes after those it depends on, and it   *)
(* is refused for a cycle only if they cannot, whatever order the search   *)
(* of validateLock (source.go:163-187) takes them in.                      *)
(***************************************************************************)
THEOREM CyclesAreAlwaysFound == ToolSpec => []CyclesAreFound
<1>1. ToolInv /\ [ToolNext]_toolVars => ToolInv'
  BY OpenKeeps, VisitRootKeeps, VisitDependencyKeeps, FinishVisitKeeps, OpenedKeeps, OthersKeep
     DEF ToolNext
<1>2. ToolInv => CyclesAreFound
  BY DEF ToolInv, CyclesAreFound
<1> QED
  BY ToolInvInit, <1>1, <1>2, PTL DEF ToolSpec
-----------------------------------------------------------------------------
(***************************************************************************)
(* The orders on versions.  A comparison is -1, 0 or 1.  The comparisons x *)
(* of a with b, y of b with c and z of a with c agree if equal things can  *)
(* be exchanged and being newer is handed on; comparisons that agree place *)
(* by place agree in their first differences.                              *)
(***************************************************************************)
Outcome == {-1, 0, 1}

Agree(x, y, z) ==
    /\ x = 0 => z = y
    /\ y = 0 => z = x
    /\ x = 1 /\ y = 1 => z = 1
    /\ x = -1 /\ y = -1 => z = -1

(* Either every place compares equal, or the first that does not decides.  *)
LEMMA FirstDifferenceAt ==
  ASSUME NEW n \in Nat, NEW d \in [1..n -> Outcome]
  PROVE  \/ /\ \A i \in 1..n : d[i] = 0
            /\ FirstDifference(d) = 0
         \/ \E p \in 1..n : /\ d[p] # 0 /\ FirstDifference(d) = d[p]
                            /\ \A i \in 1..(p - 1) : d[i] = 0
<1> DEFINE D == {i \in 1..n : d[i] # 0}
<1>1. DOMAIN d = 1..n
  OBVIOUS
<1>2. CASE D = {}
  <2>1. \A i \in 1..n : d[i] = 0
    BY <1>2
  <2> QED
    BY <1>1, <1>2, <2>1 DEF FirstDifference
<1>3. CASE D # {}
  <2> DEFINE p == CHOOSE i \in D : \A j \in D : i <= j
  <2>1. D \in SUBSET Nat
    OBVIOUS
  <2>2. p \in D /\ \A j \in D : p <= j
    BY <1>3, <2>1, Least
  <2>3. FirstDifference(d) = d[p]
    BY <1>1, <1>3 DEF FirstDifference
  <2> HIDE DEF p
  <2>5. \A i \in 1..(p - 1) : d[i] = 0
    <3>1. ASSUME NEW i \in 1..(p - 1), d[i] # 0 PROVE FALSE
      <4>1. i \in D
        BY <2>2, <3>1
      <4> QED
        BY <2>2, <4>1
    <3> QED
      BY <3>1
  <2> QED
    BY <2>2, <2>3, <2>5
<1> QED
  BY <1>2, <1>3

LEMMA FirstDifferenceType ==
  ASSUME NEW n \in Nat, NEW d \in [1..n -> Outcome]
  PROVE  FirstDifference(d) \in Outcome
<1>1. FirstDifference(d) = 0 \/ \E p \in 1..n : FirstDifference(d) = d[p]
  BY FirstDifferenceAt
<1>2. 0 \in Outcome /\ \A p \in 1..n : d[p] \in Outcome
  BY DEF Outcome
<1> QED
  BY <1>1, <1>2

LEMMA FirstDifferencesAgree ==
  ASSUME NEW n \in Nat, NEW d \in [1..n -> Outcome], NEW e \in [1..n -> Outcome], NEW f \in [1..n -> Outcome],
         \A i \in 1..n : Agree(d[i], e[i], f[i])
  PROVE  Agree(FirstDifference(d), FirstDifference(e), FirstDifference(f))
<1> DEFINE x == FirstDifference(d)
           y == FirstDifference(e)
           z == FirstDifference(f)
           Ends(g, v) == (\A i \in 1..n : g[i] = 0) /\ v = 0
           At(g, v, p) == g[p] # 0 /\ v = g[p] /\ \A i \in 1..(p - 1) : g[i] = 0
<1>1. /\ Ends(d, x) \/ \E p \in 1..n : At(d, x, p)
      /\ Ends(e, y) \/ \E p \in 1..n : At(e, y, p)
      /\ Ends(f, z) \/ \E p \in 1..n : At(f, z, p)
  BY FirstDifferenceAt
<1> HIDE DEF x, y, z
<1>2. CASE Ends(d, x)
  <2>1. f = e
    BY <1>2 DEF Agree
  <2> QED
    BY <1>2, <2>1 DEF Agree, x, y, z
<1>3. CASE Ends(e, y)
  <2>1. f = d
    BY <1>3 DEF Agree
  <2> QED
    BY <1>3, <2>1 DEF Agree, x, y, z
<1>4. ASSUME NEW p \in 1..n, NEW q \in 1..n, At(d, x, p), At(e, y, q)
      PROVE  Agree(x, y, z)
  <2>1. CASE p < q
    <3>1. At(f, f[p], p)
      BY <1>4, <2>1 DEF Agree
    <3>2. z = f[p]
      BY <1>1, <3>1
    <3>3. e[p] = 0
      BY <1>4, <2>1
    <3> QED
      BY <1>4, <3>2, <3>3 DEF Agree
  <2>2. CASE q < p
    <3>1. At(f, f[q], q)
      BY <1>4, <2>2 DEF Agree
    <3>2. z = f[q]
      BY <1>1, <3>1
    <3>3. d[q] = 0
      BY <1>4, <2>2
    <3> QED
      BY <1>4, <3>2, <3>3 DEF Agree
  <2>3. CASE p = q
    <3>1. CASE d[p] = e[p]
      <4>1. At(f, f[p], p)
        BY <1>4, <2>3, <3>1 DEF Agree, Outcome
      <4>2. z = f[p]
        BY <1>1, <4>1
      <4> QED
        BY <1>4, <2>3, <3>1, <4>2 DEF Agree
    <3>2. CASE d[p] # e[p]
      BY <1>4, <2>3, <3>2 DEF Agree, Outcome
    <3> QED
      BY <3>1, <3>2
  <2> QED
    BY <2>1, <2>2, <2>3
<1> QED
  BY <1>1, <1>2, <1>3, <1>4 DEF x, y, z

LEMMA FirstDifferencesOppose ==
  ASSUME NEW n \in Nat, NEW d \in [1..n -> Outcome], NEW e \in [1..n -> Outcome],
         \A i \in 1..n : e[i] = 0 - d[i]
  PROVE  FirstDifference(d) \in Outcome /\ FirstDifference(e) = 0 - FirstDifference(d)
<1> DEFINE x == FirstDifference(d)
           y == FirstDifference(e)
           Ends(g, v) == (\A i \in 1..n : g[i] = 0) /\ v = 0
           At(g, v, p) == g[p] # 0 /\ v = g[p] /\ \A i \in 1..(p - 1) : g[i] = 0
<1>1. /\ Ends(d, x) \/ \E p \in 1..n : At(d, x, p)
      /\ Ends(e, y) \/ \E p \in 1..n : At(e, y, p)
  BY FirstDifferenceAt
<1> HIDE DEF x, y
<1>2. CASE Ends(d, x)
  <2>1. \A i \in 1..n : e[i] = 0
    BY <1>2
  <2>2. y = 0 /\ x = 0
    BY <1>1, <1>2, <2>1
  <2> HIDE DEF Ends, At
  <2>3. x \in Outcome /\ y = 0 - x
    <3>1. 0 \in Outcome /\ 0 = 0 - 0
      BY DEF Outcome
    <3> QED
      BY <2>2, <3>1
  <2> QED
    BY <2>3 DEF x, y
<1>3. ASSUME NEW p \in 1..n, At(d, x, p) PROVE x \in Outcome /\ y = 0 - x
  <2>1. At(e, e[p], p)
    <3>1. d[p] \in Outcome /\ e[p] = 0 - d[p]
      OBVIOUS
    <3>2. e[p] # 0
      BY <1>3, <3>1 DEF Outcome
    <3>3. \A i \in 1..(p - 1) : e[i] = 0
      <4>1. \A i \in 1..(p - 1) : i \in 1..n /\ d[i] = 0
        BY <1>3
      <4> QED
        BY <4>1
    <3> QED
      BY <3>2, <3>3
  <2>2. y = e[p]
    BY <1>1, <2>1
  <2>3. d[p] \in Outcome /\ e[p] = 0 - d[p]
    OBVIOUS
  <2> QED
    BY <1>3, <2>2, <2>3
<1> QED
  BY <1>1, <1>2, <1>3 DEF x, y

LEMMA OrderAgrees ==
  ASSUME NEW a \in Int, NEW b \in Int, NEW c \in Int
  PROVE  /\ Order(a, b) \in Outcome
         /\ Order(b, a) = 0 - Order(a, b)
         /\ Agree(Order(a, b), Order(b, c), Order(a, c))
BY DEF Order, Outcome, Agree

(* One comparison, and another one if the first finds no difference.       *)
Then(x, w) == IF x # 0 THEN x ELSE w

LEMMA ThenAgrees ==
  ASSUME NEW x \in Outcome, NEW y \in Outcome, NEW z \in Outcome, Agree(x, y, z),
         NEW u \in Outcome, NEW v \in Outcome, NEW w \in Outcome, Agree(u, v, w)
  PROVE  Agree(Then(x, u), Then(y, v), Then(z, w))
BY DEF Outcome, Agree, Then

LEMMA LabelsAgree ==
  ASSUME NEW a \in Label, NEW b \in Label, NEW c \in Label
  PROVE  /\ NuGetLabels(a, b) \in Outcome
         /\ NuGetLabels(b, a) = 0 - NuGetLabels(a, b)
         /\ Agree(NuGetLabels(a, b), NuGetLabels(b, c), NuGetLabels(a, c))
<1>1. /\ a.n \in Int /\ b.n \in Int /\ c.n \in Int
      /\ a.lower \in Int /\ b.lower \in Int /\ c.lower \in Int
  BY DEF Label
<1>2. /\ a.digits \/ ~a.digits
      /\ b.digits \/ ~b.digits
      /\ c.digits \/ ~c.digits
  OBVIOUS
<1>3. /\ a.digits /\ b.digits => NuGetLabels(a, b) = Order(a.n, b.n) /\ NuGetLabels(b, a) = Order(b.n, a.n)
      /\ a.digits /\ ~b.digits => NuGetLabels(a, b) = -1 /\ NuGetLabels(b, a) = 1
      /\ ~a.digits /\ b.digits => NuGetLabels(a, b) = 1 /\ NuGetLabels(b, a) = -1
      /\ ~a.digits /\ ~b.digits =>
           NuGetLabels(a, b) = Order(a.lower, b.lower) /\ NuGetLabels(b, a) = Order(b.lower, a.lower)
  BY DEF NuGetLabels
<1>4. /\ c.digits /\ b.digits => NuGetLabels(b, c) = Order(b.n, c.n)
      /\ c.digits /\ ~b.digits => NuGetLabels(b, c) = 1
      /\ ~c.digits /\ b.digits => NuGetLabels(b, c) = -1
      /\ ~c.digits /\ ~b.digits => NuGetLabels(b, c) = Order(b.lower, c.lower)
      /\ c.digits /\ a.digits => NuGetLabels(a, c) = Order(a.n, c.n)
      /\ c.digits /\ ~a.digits => NuGetLabels(a, c) = 1
      /\ ~c.digits /\ a.digits => NuGetLabels(a, c) = -1
      /\ ~c.digits /\ ~a.digits => NuGetLabels(a, c) = Order(a.lower, c.lower)
  BY DEF NuGetLabels
<1> QED
  BY <1>1, <1>2, <1>3, <1>4 DEF Order, Outcome, Agree

(***************************************************************************)
(* The labels, extended to a common length n: where one version has no     *)
(* label left and the other has, it is the older one.                      *)
(***************************************************************************)
Extended(la, lb, n, d) ==
    [i \in 1..n |-> IF i <= la /\ i <= lb THEN d[i] ELSE IF i <= la THEN 1 ELSE IF i <= lb THEN -1 ELSE 0]

LEMMA ExtendedType ==
  ASSUME NEW la \in Nat, NEW lb \in Nat, NEW n \in Nat,
         NEW d \in [1..Smaller(la, lb) -> Outcome]
  PROVE  Extended(la, lb, n, d) \in [1..n -> Outcome]
<1>1. ASSUME NEW i \in 1..n, i <= la, i <= lb PROVE d[i] \in Outcome
  BY <1>1 DEF Smaller
<1> QED
  BY <1>1 DEF Extended, Outcome

LEMMA ExtendedDecides ==
  ASSUME NEW la \in Nat, NEW lb \in Nat, NEW n \in Nat, la <= n, lb <= n,
         NEW d \in [1..Smaller(la, lb) -> Outcome]
  PROVE  FirstDifference(Extended(la, lb, n, d)) = Then(FirstDifference(d), Order(la, lb))
<1> DEFINE m == Smaller(la, lb)
           g == Extended(la, lb, n, d)
           x == FirstDifference(d)
           y == FirstDifference(g)
           Ends(h, k, v) == (\A i \in 1..k : h[i] = 0) /\ v = 0
           At(h, v, p) == h[p] # 0 /\ v = h[p] /\ \A i \in 1..(p - 1) : h[i] = 0
<1>1. m \in Nat /\ m <= la /\ m <= lb /\ m <= n /\ (m = la \/ m = lb)
  BY DEF Smaller
<1>2. g \in [1..n -> Outcome]
  BY ExtendedType
<1>3. /\ Ends(d, m, x) \/ \E p \in 1..m : At(d, x, p)
      /\ Ends(g, n, y) \/ \E p \in 1..n : At(g, y, p)
  BY <1>1, <1>2, FirstDifferenceAt
<1>4. /\ \A i \in 1..m : g[i] = d[i]
      /\ \A i \in (m + 1)..n : g[i] = IF i <= la THEN 1 ELSE IF i <= lb THEN -1 ELSE 0
  BY <1>1 DEF Extended
<1> HIDE DEF x, y, g, m
<1>5. ASSUME NEW p \in 1..m, At(d, x, p) PROVE y = x /\ x # 0
  <2>1. At(g, g[p], p) /\ p \in 1..n
    BY <1>1, <1>4, <1>5
  <2>2. y = g[p]
    BY <1>3, <2>1
  <2> QED
    BY <1>4, <1>5, <2>2
<1>6. CASE Ends(d, m, x)
  <2>1. \A i \in 1..m : g[i] = 0
    BY <1>4, <1>6
  <2>2. CASE la = lb
    <3>1. \A i \in 1..n : g[i] = 0
      BY <1>1, <1>4, <2>1, <2>2
    <3>2. y = 0
      BY <1>3, <3>1
    <3> QED
      BY <1>6, <2>2, <3>2 DEF Then, Order, x, y, g
  <2>3. CASE la # lb
    <3>1. m + 1 \in 1..n /\ g[m + 1] = IF la > lb THEN 1 ELSE -1
      BY <1>1, <1>4, <2>3
    <3>2. At(g, g[m + 1], m + 1)
      BY <1>1, <2>1, <3>1
    <3>3. y = g[m + 1]
      BY <1>3, <3>1, <3>2
    <3> QED
      BY <1>6, <2>3, <3>1, <3>3 DEF Then, Order, x, y, g
  <2> QED
    BY <2>2, <2>3
<1> QED
  BY <1>3, <1>5, <1>6 DEF Then, x, y, g

LEMMA ExtendedAgree ==
  ASSUME NEW la \in Nat, NEW lb \in Nat, NEW lc \in Nat, NEW n \in Nat,
         NEW d \in [1..Smaller(la, lb) -> Outcome], NEW e \in [1..Smaller(lb, lc) -> Outcome],
         NEW f \in [1..Smaller(la, lc) -> Outcome],
         \A i \in 1..n : i <= la /\ i <= lb /\ i <= lc => Agree(d[i], e[i], f[i])
  PROVE  \A i \in 1..n : Agree(Extended(la, lb, n, d)[i], Extended(lb, lc, n, e)[i], Extended(la, lc, n, f)[i])
BY DEF Extended, Agree

(* A version without labels is the newer one, and of two with labels the   *)
(* extended labels decide.                                                 *)
Bare(a, b) == IF a = <<>> THEN (IF b = <<>> THEN 0 ELSE 1) ELSE IF b = <<>> THEN -1 ELSE 0

LEMMA BareAgrees ==
  ASSUME NEW a, NEW b, NEW c
  PROVE  Bare(a, b) \in Outcome /\ Bare(b, a) = 0 - Bare(a, b) /\ Agree(Bare(a, b), Bare(b, c), Bare(a, c))
BY DEF Bare, Outcome, Agree

LEMMA ReleasedIs ==
  ASSUME NEW a \in Seq(Label), NEW b \in Seq(Label), NEW n \in Nat, Len(a) <= n, Len(b) <= n,
         NEW d \in [1..Smaller(Len(a), Len(b)) -> Outcome]
  PROVE  Released(a, b, d) = Then(Bare(a, b), FirstDifference(Extended(Len(a), Len(b), n, d)))
<1>1. FirstDifference(Extended(Len(a), Len(b), n, d)) = Then(FirstDifference(d), Order(Len(a), Len(b)))
  BY ExtendedDecides
<1>2. CASE a = <<>> /\ b = <<>>
  <2>1. Len(a) = 0 /\ Len(b) = 0 /\ Smaller(Len(a), Len(b)) = 0
    BY <1>2 DEF Smaller
  <2>2. {i \in DOMAIN d : d[i] # 0} = {}
    BY <2>1
  <2>3. FirstDifference(d) = 0
    BY <2>2 DEF FirstDifference
  <2>4. Order(Len(a), Len(b)) = 0
    BY <2>1 DEF Order
  <2> QED
    BY <1>1, <1>2, <2>3, <2>4 DEF Released, Bare, Then
<1>3. CASE a = <<>> /\ b # <<>>
  BY <1>3 DEF Released, Bare, Then
<1>4. CASE a # <<>> /\ b = <<>>
  BY <1>4 DEF Released, Bare, Then
<1>5. CASE a # <<>> /\ b # <<>>
  BY <1>1, <1>5 DEF Released, Bare, Then
<1> QED
  BY <1>2, <1>3, <1>4, <1>5

(* The comparison of the numbers, and of the labels, of two versions.      *)
Numbers(a, b) == [i \in 1..4 |-> Order(Part(a.core, i), Part(b.core, i))]
Labels(a, b) == [i \in 1..Smaller(Len(a.pre), Len(b.pre)) |-> NuGetLabels(a.pre[i], b.pre[i])]

LEMMA VersionParts ==
  ASSUME NEW a \in ParsedVersion
  PROVE  /\ a.core \in Seq(Int) /\ a.pre \in Seq(Label)
         /\ \A i \in 1..4 : Part(a.core, i) \in Int
         /\ Len(a.pre) \in Nat
         /\ \A i \in 1..Len(a.pre) : a.pre[i] \in Label
<1>1. a.core \in Seq(Int) /\ a.pre \in Seq(Label)
  BY DEF ParsedVersion
<1> QED
  BY <1>1 DEF Part

LEMMA LabelsType ==
  ASSUME NEW a \in ParsedVersion, NEW b \in ParsedVersion
  PROVE  /\ Labels(a, b) \in [1..Smaller(Len(a.pre), Len(b.pre)) -> Outcome]
         /\ \A i \in Nat : 1 <= i /\ i <= Len(a.pre) /\ i <= Len(b.pre) =>
              Labels(a, b)[i] = NuGetLabels(a.pre[i], b.pre[i])
<1>1. Len(a.pre) \in Nat /\ Len(b.pre) \in Nat
  BY VersionParts
<1>2. ASSUME NEW i \in 1..Smaller(Len(a.pre), Len(b.pre)) PROVE NuGetLabels(a.pre[i], b.pre[i]) \in Outcome
  <2>1. i \in 1..Len(a.pre) /\ i \in 1..Len(b.pre)
    BY <1>1 DEF Smaller
  <2>2. a.pre[i] \in Label /\ b.pre[i] \in Label
    BY <2>1, VersionParts
  <2> QED
    BY <2>2, LabelsAgree
<1>3. \A i \in Nat : 1 <= i /\ i <= Len(a.pre) /\ i <= Len(b.pre) => i \in 1..Smaller(Len(a.pre), Len(b.pre))
  BY <1>1 DEF Smaller
<1> QED
  BY <1>2, <1>3 DEF Labels

LEMMA CompareIs ==
  ASSUME NEW a \in ParsedVersion, NEW b \in ParsedVersion, NEW n \in Nat, Len(a.pre) <= n, Len(b.pre) <= n
  PROVE  NuGetCompare(a, b) =
           Then(FirstDifference(Numbers(a, b)),
                Then(Bare(a.pre, b.pre),
                     FirstDifference(Extended(Len(a.pre), Len(b.pre), n, Labels(a, b)))))
<1>1. Released(a.pre, b.pre, Labels(a, b)) =
        Then(Bare(a.pre, b.pre), FirstDifference(Extended(Len(a.pre), Len(b.pre), n, Labels(a, b))))
  BY VersionParts, LabelsType, ReleasedIs
<1>2. NuGetCompare(a, b) = Then(FirstDifference(Numbers(a, b)), Released(a.pre, b.pre, Labels(a, b)))
  BY DEF NuGetCompare, Parts, Numbers, Labels, Then
<1> QED
  BY <1>1, <1>2

LEMMA NumbersType ==
  ASSUME NEW a \in ParsedVersion, NEW b \in ParsedVersion
  PROVE  /\ Numbers(a, b) \in [1..4 -> Outcome]
         /\ \A i \in 1..4 : Numbers(b, a)[i] = 0 - Numbers(a, b)[i]
<1>1. ASSUME NEW i \in 1..4
      PROVE  /\ Order(Part(a.core, i), Part(b.core, i)) \in Outcome
             /\ Order(Part(b.core, i), Part(a.core, i)) = 0 - Order(Part(a.core, i), Part(b.core, i))
  BY VersionParts, OrderAgrees
<1> QED
  BY <1>1 DEF Numbers

(* NuGetCompare orders all versions: it opposes itself when its arguments  *)
(* are exchanged, and it is transitive.                                    *)
LEMMA NuGetOpposes ==
  ASSUME NEW a \in ParsedVersion, NEW b \in ParsedVersion
  PROVE  NuGetCompare(a, b) \in Outcome /\ NuGetCompare(b, a) = 0 - NuGetCompare(a, b)
<1> DEFINE la == Len(a.pre)
           lb == Len(b.pre)
           n == la + lb
           d == FirstDifference(Numbers(a, b))
           e == FirstDifference(Numbers(b, a))
           g == Extended(la, lb, n, Labels(a, b))
           h == Extended(lb, la, n, Labels(b, a))
<1>0. la \in Nat /\ lb \in Nat
  BY VersionParts
<1>1. la \in Nat /\ lb \in Nat /\ n \in Nat /\ la <= n /\ lb <= n
  <2> HIDE DEF la, lb
  <2> QED
    BY <1>0
<1>2. d \in Outcome /\ e = 0 - d
  <2>1. /\ Numbers(a, b) \in [1..4 -> Outcome] /\ Numbers(b, a) \in [1..4 -> Outcome]
        /\ \A i \in 1..4 : Numbers(b, a)[i] = 0 - Numbers(a, b)[i]
    BY NumbersType
  <2> QED
    BY <2>1, FirstDifferencesOppose
<1>3. Bare(a.pre, b.pre) \in Outcome /\ Bare(b.pre, a.pre) = 0 - Bare(a.pre, b.pre)
  BY BareAgrees
<1>4. g \in [1..n -> Outcome] /\ h \in [1..n -> Outcome]
  BY <1>1, LabelsType, ExtendedType
<1>5. ASSUME NEW i \in 1..n PROVE h[i] = 0 - g[i]
  <2>1. CASE i <= la /\ i <= lb
    <3>1. a.pre[i] \in Label /\ b.pre[i] \in Label
      BY <1>1, <2>1, VersionParts
    <3>2. NuGetLabels(b.pre[i], a.pre[i]) = 0 - NuGetLabels(a.pre[i], b.pre[i])
      BY <3>1, LabelsAgree
    <3>3. Labels(a, b)[i] = NuGetLabels(a.pre[i], b.pre[i]) /\ Labels(b, a)[i] = NuGetLabels(b.pre[i], a.pre[i])
      BY <1>1, <2>1, LabelsType
    <3> QED
      BY <2>1, <3>2, <3>3, SMTT(30) DEF Extended
  <2>2. CASE ~(i <= la /\ i <= lb)
    BY <1>1, <2>2, SMTT(30) DEF Extended
  <2> QED
    BY <2>1, <2>2
<1>6. FirstDifference(g) \in Outcome /\ FirstDifference(h) = 0 - FirstDifference(g)
  <2> HIDE DEF g, h
  <2> QED
    BY <1>1, <1>4, <1>5, FirstDifferencesOppose
<1>7. NuGetCompare(a, b) = Then(d, Then(Bare(a.pre, b.pre), FirstDifference(g)))
  BY <1>1, CompareIs
<1>8. NuGetCompare(b, a) = Then(e, Then(Bare(b.pre, a.pre), FirstDifference(h)))
  BY <1>1, CompareIs
<1> HIDE DEF d, e, g, h
<1> QED
  BY <1>2, <1>3, <1>6, <1>7, <1>8, SMTT(30) DEF Then, Outcome

LEMMA NuGetAgrees ==
  ASSUME NEW a \in ParsedVersion, NEW b \in ParsedVersion, NEW c \in ParsedVersion
  PROVE  Agree(NuGetCompare(a, b), NuGetCompare(b, c), NuGetCompare(a, c))
<1> DEFINE la == Len(a.pre)
           lb == Len(b.pre)
           lc == Len(c.pre)
           n == la + lb + lc
           F(v, w) == FirstDifference(Numbers(v, w))
           G(v, w) == Extended(Len(v.pre), Len(w.pre), n, Labels(v, w))
           B(v, w) == Bare(v.pre, w.pre)
<1>0. la \in Nat /\ lb \in Nat /\ lc \in Nat
  BY VersionParts
<1>1. /\ la \in Nat /\ lb \in Nat /\ lc \in Nat /\ n \in Nat
      /\ la <= n /\ lb <= n /\ lc <= n
  <2> HIDE DEF la, lb, lc
  <2> QED
    BY <1>0
<1>2. /\ NuGetCompare(a, b) = Then(F(a, b), Then(B(a, b), FirstDifference(G(a, b))))
      /\ NuGetCompare(b, c) = Then(F(b, c), Then(B(b, c), FirstDifference(G(b, c))))
      /\ NuGetCompare(a, c) = Then(F(a, c), Then(B(a, c), FirstDifference(G(a, c))))
  BY <1>1, CompareIs
<1>3. F(a, b) \in Outcome /\ F(b, c) \in Outcome /\ F(a, c) \in Outcome
  BY NumbersType, FirstDifferencesOppose
<1>4. Agree(F(a, b), F(b, c), F(a, c))
  <2>1. ASSUME NEW i \in 1..4 PROVE Agree(Numbers(a, b)[i], Numbers(b, c)[i], Numbers(a, c)[i])
    <3>1. Part(a.core, i) \in Int /\ Part(b.core, i) \in Int /\ Part(c.core, i) \in Int
      BY VersionParts
    <3> QED
      BY <3>1, OrderAgrees DEF Numbers
  <2>2. Numbers(a, b) \in [1..4 -> Outcome] /\ Numbers(b, c) \in [1..4 -> Outcome] /\ Numbers(a, c) \in [1..4 -> Outcome]
    BY NumbersType
  <2> QED
    BY <2>1, <2>2, FirstDifferencesAgree
<1>5. /\ B(a, b) \in Outcome /\ B(b, c) \in Outcome /\ B(a, c) \in Outcome
      /\ Agree(B(a, b), B(b, c), B(a, c))
  BY BareAgrees
<1>6. G(a, b) \in [1..n -> Outcome] /\ G(b, c) \in [1..n -> Outcome] /\ G(a, c) \in [1..n -> Outcome]
  BY <1>1, LabelsType, ExtendedType
<1>7. ASSUME NEW i \in 1..n, i <= la, i <= lb, i <= lc
      PROVE  Agree(Labels(a, b)[i], Labels(b, c)[i], Labels(a, c)[i])
  <2>0. i \in 1..la /\ i \in 1..lb /\ i \in 1..lc
    BY <1>1, <1>7
  <2>1. a.pre[i] \in Label /\ b.pre[i] \in Label /\ c.pre[i] \in Label
    BY <2>0, VersionParts
  <2>2. /\ Labels(a, b)[i] = NuGetLabels(a.pre[i], b.pre[i])
        /\ Labels(b, c)[i] = NuGetLabels(b.pre[i], c.pre[i])
        /\ Labels(a, c)[i] = NuGetLabels(a.pre[i], c.pre[i])
    BY <1>1, <1>7, LabelsType
  <2> QED
    BY <2>1, <2>2, LabelsAgree
<1>8. \A i \in 1..n : Agree(G(a, b)[i], G(b, c)[i], G(a, c)[i])
  BY <1>1, <1>7, LabelsType, ExtendedAgree
<1>9. /\ FirstDifference(G(a, b)) \in Outcome /\ FirstDifference(G(b, c)) \in Outcome
      /\ FirstDifference(G(a, c)) \in Outcome
      /\ Agree(FirstDifference(G(a, b)), FirstDifference(G(b, c)), FirstDifference(G(a, c)))
  <2> HIDE DEF G
  <2>1. \A v, w \in ParsedVersion : G(v, w) \in [1..n -> Outcome] => FirstDifference(G(v, w)) \in Outcome
    BY <1>1, FirstDifferenceType
  <2> QED
    BY <1>1, <1>6, <1>8, <2>1, FirstDifferencesAgree
<1> HIDE DEF F, G, B
<1>10. /\ Then(B(a, b), FirstDifference(G(a, b))) \in Outcome
       /\ Then(B(b, c), FirstDifference(G(b, c))) \in Outcome
       /\ Then(B(a, c), FirstDifference(G(a, c))) \in Outcome
  BY <1>5, <1>9 DEF Then
<1>11. Agree(Then(B(a, b), FirstDifference(G(a, b))), Then(B(b, c), FirstDifference(G(b, c))),
             Then(B(a, c), FirstDifference(G(a, c))))
  BY <1>5, <1>9, ThenAgrees
<1> QED
  BY <1>2, <1>3, <1>4, <1>10, <1>11, ThenAgrees

-----------------------------------------------------------------------------
(***************************************************************************)
(* The loop over the versions of an index.  v is the best of the first n   *)
(* if none of them that the channel admits is newer, and it is one of them *)
(* and newer than the pin, or the pin itself.                              *)
(***************************************************************************)
BestOf(v, current, index, n) ==
    /\ v \in ParsedVersion
    /\ NuGetCompare(v, current) >= 0
    /\ v # current => /\ NuGetCompare(v, current) = 1
                      /\ InChannel(current, v)
                      /\ \E j \in 1..n : v = index[j]
    /\ \A j \in 1..n : InChannel(current, index[j]) => NuGetCompare(v, index[j]) >= 0

Better(current, index, i, b) ==
    IF InChannel(current, index[i]) /\ NuGetCompare(index[i], b) > 0 THEN index[i] ELSE b

LEMMA BetterIsBest ==
  ASSUME NEW current \in ParsedVersion, NEW index \in Seq(ParsedVersion), NEW n \in 1..Len(index),
         NEW b, BestOf(b, current, index, n - 1)
  PROVE  BestOf(Better(current, index, n, b), current, index, n)
<1> DEFINE v == index[n]
<1>1. v \in ParsedVersion /\ b \in ParsedVersion
  BY DEF BestOf
<1>2. /\ NuGetCompare(v, b) \in Outcome /\ NuGetCompare(b, v) = 0 - NuGetCompare(v, b)
      /\ NuGetCompare(b, current) \in Outcome /\ NuGetCompare(v, current) \in Outcome
  BY <1>1, NuGetOpposes
<1>3. n - 1 \in Nat /\ \A j \in 1..n : j \in 1..(n - 1) \/ j = n
  OBVIOUS
<1>4. 1..(n - 1) \subseteq 1..n /\ n \in 1..n
  OBVIOUS
<1>5. CASE InChannel(current, v) /\ NuGetCompare(v, b) > 0
  <2>1. Better(current, index, n, b) = v /\ NuGetCompare(v, b) = 1
    BY <1>2, <1>5 DEF Better, Outcome
  <2>2. ASSUME NEW w \in ParsedVersion, NuGetCompare(b, w) >= 0 PROVE NuGetCompare(v, w) = 1
    <3>1. NuGetCompare(b, w) \in Outcome
      BY <1>1, NuGetOpposes
    <3>2. Agree(NuGetCompare(v, b), NuGetCompare(b, w), NuGetCompare(v, w))
      BY <1>1, NuGetAgrees
    <3> QED
      BY <2>1, <2>2, <3>1, <3>2 DEF Agree, Outcome
  <2>3. NuGetCompare(v, current) = 1
    BY <2>2 DEF BestOf
  <2>4. ASSUME NEW j \in 1..n, InChannel(current, index[j]) PROVE NuGetCompare(v, index[j]) >= 0
    <3>1. CASE j = n
      <4>1. NuGetCompare(v, v) \in Outcome /\ NuGetCompare(v, v) = 0 - NuGetCompare(v, v)
        BY <1>1, NuGetOpposes
      <4> QED
        BY <3>1, <4>1 DEF Outcome
    <3>2. CASE j \in 1..(n - 1)
      <4>1. NuGetCompare(b, index[j]) >= 0
        BY <2>4, <3>2 DEF BestOf
      <4>2. index[j] \in ParsedVersion
        BY <1>4, <3>2
      <4> QED
        BY <2>2, <4>1, <4>2
    <3> QED
      BY <1>3, <3>1, <3>2
  <2> QED
    BY <1>1, <1>4, <1>5, <2>1, <2>3, <2>4 DEF BestOf
<1>6. CASE ~(InChannel(current, v) /\ NuGetCompare(v, b) > 0)
  <2>1. Better(current, index, n, b) = b
    BY <1>6 DEF Better
  <2>2. InChannel(current, v) => NuGetCompare(b, v) >= 0
    BY <1>2, <1>6 DEF Outcome
  <2>3. \A j \in 1..n : InChannel(current, index[j]) => NuGetCompare(b, index[j]) >= 0
    BY <1>3, <2>2 DEF BestOf
  <2>4. b # current => \E j \in 1..n : b = index[j]
    BY <1>4 DEF BestOf
  <2> QED
    BY <2>1, <2>3, <2>4 DEF BestOf
<1> QED
  BY <1>5, <1>6

Loop(current, index, n, h) ==
    /\ h \in [0..n -> ParsedVersion]
    /\ h[0] = current
    /\ \A i \in 1..n : h[i] = Better(current, index, i, h[i - 1])

(* The loop takes every version: were there a first one that it does not   *)
(* reach, it would reach it from the one before.                           *)
LEMMA LoopRuns ==
  ASSUME NEW current \in ParsedVersion, NEW index \in Seq(ParsedVersion)
  PROVE  \E h : Loop(current, index, Len(index), h)
<1> DEFINE N == Len(index)
           S == {n \in 0..N : ~\E h : Loop(current, index, n, h)}
<1>1. N \in Nat /\ S \in SUBSET Nat
  OBVIOUS
<1>2. ASSUME S # {} PROVE FALSE
  <2>1. PICK m \in S : \A l \in S : m <= l
    BY <1>1, <1>2, Least
  <2>2. m \in 0..N /\ ~\E h : Loop(current, index, m, h)
    OBVIOUS
  <2>3. CASE m = 0
    <3>1. [i \in 0..0 |-> current] \in [0..0 -> ParsedVersion] /\ [i \in 0..0 |-> current][0] = current
      OBVIOUS
    <3>2. Loop(current, index, 0, [i \in 0..0 |-> current])
      BY <3>1 DEF Loop
    <3> QED
      BY <2>2, <2>3, <3>2
  <2>4. CASE m # 0
    <3>1. m - 1 \in 0..N /\ m - 1 \notin S /\ m \in 1..N
      BY <1>1, <2>1, <2>2, <2>4
    <3>2. PICK h : Loop(current, index, m - 1, h)
      BY <3>1
    <3> DEFINE g == [i \in 0..m |-> IF i = m THEN Better(current, index, m, h[m - 1]) ELSE h[i]]
    <3>3. h \in [0..(m - 1) -> ParsedVersion] /\ h[0] = current
      BY <3>2 DEF Loop
    <3>4. h[m - 1] \in ParsedVersion /\ index[m] \in ParsedVersion
      BY <3>1, <3>3
    <3>5. Better(current, index, m, h[m - 1]) \in ParsedVersion
      BY <3>4 DEF Better
    <3>6. \A i \in 0..m : g[i] \in ParsedVersion
      BY <3>1, <3>3, <3>5
    <3>7. g \in [0..m -> ParsedVersion] /\ g[0] = current
      BY <3>1, <3>3, <3>6
    <3>8. ASSUME NEW i \in 1..m PROVE g[i] = Better(current, index, i, g[i - 1])
      <4>1. i \in 0..m /\ i - 1 \in 0..m /\ i - 1 # m
        BY <3>1
      <4>2. g[i - 1] = h[i - 1]
        BY <4>1
      <4>3. CASE i = m
        BY <4>1, <4>2, <4>3
      <4>4. CASE i # m
        <5>1. i \in 1..(m - 1)
          BY <3>1, <4>4
        <5> QED
          BY <3>2, <4>1, <4>2, <4>4, <5>1 DEF Loop
      <4> QED
        BY <4>3, <4>4
    <3> HIDE DEF g
    <3>9. Loop(current, index, m, g)
      BY <3>7, <3>8 DEF Loop
    <3> QED
      BY <2>2, <3>9
  <2> QED
    BY <2>3, <2>4
<1>3. N \in 0..N
  BY <1>1
<1> QED
  BY <1>2, <1>3

LEMMA NewestIsBest ==
  ASSUME NEW current \in ParsedVersion, NEW index \in Seq(ParsedVersion)
  PROVE  BestOf(Newest(current, index), current, index, Len(index))
<1> DEFINE N == Len(index)
           Is(g) == g = [i \in 0..N |-> IF i = 0 THEN current ELSE Better(current, index, i, g[i - 1])]
           best == CHOOSE g : Is(g)
           S == {n \in 0..N : ~BestOf(best[n], current, index, n)}
<1>1. N \in Nat /\ S \in SUBSET Nat
  OBVIOUS
<1>2. PICK h : Loop(current, index, N, h)
  BY LoopRuns
<1>3. Is(h)
  <2>1. h \in [0..N -> ParsedVersion] /\ h[0] = current
    BY <1>2 DEF Loop
  <2>2. \A i \in 0..N : h[i] = IF i = 0 THEN current ELSE Better(current, index, i, h[i - 1])
    <3>1. \A i \in 0..N : i = 0 \/ i \in 1..N
      BY <1>1
    <3> QED
      BY <1>2, <2>1, <3>1 DEF Loop
  <2> QED
    BY <2>1, <2>2
<1>4. Is(best)
  <2> HIDE DEF Is
  <2> QED
    BY <1>3
<1>5. Newest(current, index) = best[N]
  BY DEF Newest, Better
<1> HIDE DEF best
<1>6. /\ best[0] = current
      /\ \A i \in 1..N : best[i] = Better(current, index, i, best[i - 1])
  BY <1>1, <1>4
<1>7. BestOf(current, current, index, 0)
  <2>1. NuGetCompare(current, current) \in Outcome /\ NuGetCompare(current, current) = 0 - NuGetCompare(current, current)
    BY NuGetOpposes
  <2> QED
    BY <2>1 DEF BestOf, Outcome
<1>8. ASSUME S # {} PROVE FALSE
  <2>1. PICK m \in S : \A l \in S : m <= l
    BY <1>1, <1>8, Least
  <2>2. m \in 0..N /\ ~BestOf(best[m], current, index, m)
    OBVIOUS
  <2>3. CASE m = 0
    BY <1>6, <1>7, <2>2, <2>3
  <2>4. CASE m # 0
    <3>1. m - 1 \in 0..N /\ m - 1 \notin S /\ m \in 1..N
      BY <1>1, <2>1, <2>2, <2>4
    <3>2. BestOf(best[m - 1], current, index, m - 1)
      BY <3>1
    <3>3. BestOf(Better(current, index, m, best[m - 1]), current, index, m)
      BY <3>1, <3>2, BetterIsBest
    <3> QED
      BY <1>6, <2>2, <3>1, <3>3
  <2> QED
    BY <2>3, <2>4
<1>9. N \in 0..N
  BY <1>1
<1> QED
  BY <1>5, <1>8, <1>9

-----------------------------------------------------------------------------
(***************************************************************************)
(* The order of the overrides is NuGet's on the versions that both accept, *)
(* save on labels that are not plain.                                      *)
(***************************************************************************)
LEMMA FirstDifferencePadded ==
  ASSUME NEW n \in Nat, NEW m \in Nat, n <= m, NEW d \in [1..n -> Outcome], NEW e \in [1..m -> Outcome],
         \A i \in 1..n : e[i] = d[i], \A i \in (n + 1)..m : e[i] = 0
  PROVE  FirstDifference(e) = FirstDifference(d)
<1> DEFINE x == FirstDifference(d)
           y == FirstDifference(e)
           Ends(g, k, v) == (\A i \in 1..k : g[i] = 0) /\ v = 0
           At(g, v, p) == g[p] # 0 /\ v = g[p] /\ \A i \in 1..(p - 1) : g[i] = 0
<1>1. /\ Ends(d, n, x) \/ \E p \in 1..n : At(d, x, p)
      /\ Ends(e, m, y) \/ \E p \in 1..m : At(e, y, p)
  BY FirstDifferenceAt
<1> HIDE DEF x, y
<1>2. CASE Ends(d, n, x)
  <2>1. \A i \in 1..m : e[i] = 0
    BY <1>2
  <2>2. y = 0
    BY <1>1, <2>1
  <2> QED
    BY <1>2, <2>2 DEF x, y
<1>3. ASSUME NEW p \in 1..n, At(d, x, p) PROVE y = x
  <2>1. p \in 1..m /\ At(e, e[p], p)
    BY <1>3
  <2>2. y = e[p]
    BY <1>1, <2>1
  <2> QED
    BY <1>3, <2>2
<1> QED
  BY <1>1, <1>2, <1>3 DEF x, y

PlainLabel(l) == l.raw = l.lower /\ ~l.signed /\ (l.digits => l.n <= MaxInt)

LEMMA PlainLabels ==
  ASSUME NEW a \in Label, NEW b \in Label, PlainLabel(a), PlainLabel(b)
  PROVE  OverrideLabels(a, b) = NuGetLabels(a, b)
<1>1. /\ a.digits \/ ~a.digits
      /\ b.digits \/ ~b.digits
      /\ ReadsAsInt(a) <=> a.digits
      /\ ReadsAsInt(b) <=> b.digits
      /\ a.raw = a.lower /\ b.raw = b.lower
  BY DEF PlainLabel, ReadsAsInt
<1>2. CASE a.digits /\ b.digits
  BY <1>1, <1>2 DEF OverrideLabels, NuGetLabels
<1>3. CASE a.digits /\ ~b.digits
  BY <1>1, <1>3 DEF OverrideLabels, NuGetLabels
<1>4. CASE ~a.digits /\ b.digits
  BY <1>1, <1>4 DEF OverrideLabels, NuGetLabels
<1>5. CASE ~a.digits /\ ~b.digits
  BY <1>1, <1>5 DEF OverrideLabels, NuGetLabels
<1> QED
  BY <1>1, <1>2, <1>3, <1>4, <1>5

LEMMA OrdersAgree ==
  ASSUME NEW a \in ParsedVersion, NEW b \in ParsedVersion, NuGetValid(a), NuGetValid(b), Plain(a), Plain(b)
  PROVE  CompareVersions(a, b) = NuGetCompare(a, b)
<1> DEFINE n == Larger(Len(a.core), Len(b.core))
           d == [i \in 1..n |-> Order(Part(a.core, i), Part(b.core, i))]
           S == 1..Smaller(Len(a.pre), Len(b.pre))
           over == [i \in S |-> OverrideLabels(a.pre[i], b.pre[i])]
<1>1. /\ a.core \in Seq(Int) /\ b.core \in Seq(Int)
      /\ Len(a.core) \in Nat /\ Len(b.core) \in Nat /\ Len(a.core) <= 4 /\ Len(b.core) <= 4
  BY VersionParts DEF NuGetValid
<1>2. /\ n \in Nat /\ n <= 4
      /\ \A i \in (n + 1)..4 : i > Len(a.core) /\ i > Len(b.core)
  BY <1>1 DEF Larger
<1>3. Parts(a, b, n) = Parts(a, b, 4)
  <2>1. \A i \in 1..4 : Part(a.core, i) \in Int /\ Part(b.core, i) \in Int
    BY VersionParts
  <2>2. \A i \in 1..n : i \in 1..4
    BY <1>2
  <2>3. d \in [1..n -> Outcome]
    BY <2>1, <2>2, OrderAgrees
  <2>4. Numbers(a, b) \in [1..4 -> Outcome]
    BY NumbersType
  <2>5. \A i \in 1..n : Numbers(a, b)[i] = d[i]
    BY <2>2 DEF Numbers
  <2>6. ASSUME NEW i \in (n + 1)..4 PROVE Numbers(a, b)[i] = 0
    <3>1. i \in 1..4 /\ Part(a.core, i) = 0 /\ Part(b.core, i) = 0
      BY <1>1, <1>2 DEF Part
    <3> QED
      BY <3>1 DEF Numbers, Order
  <2> DEFINE e == Numbers(a, b)
             m == 4
  <2> HIDE DEF d, n, e, m
  <2>7. FirstDifference(e) = FirstDifference(d)
    <3>1. m \in Nat /\ n \in Nat /\ n <= m /\ d \in [1..n -> Outcome] /\ e \in [1..m -> Outcome]
      BY <1>2, <2>3, <2>4 DEF e, m
    <3>2. /\ \A i \in 1..n : e[i] = d[i]
          /\ \A i \in (n + 1)..m : e[i] = 0
      BY <2>5, <2>6 DEF e, m
    <3> QED
      BY <3>1, <3>2, FirstDifferencePadded
  <2> QED
    BY <2>7 DEF Parts, Numbers, d, e
<1>4. over = Labels(a, b)
  <2>0. Len(a.pre) \in Nat /\ Len(b.pre) \in Nat
    BY VersionParts
  <2>1. ASSUME NEW i \in S PROVE OverrideLabels(a.pre[i], b.pre[i]) = NuGetLabels(a.pre[i], b.pre[i])
    <3>1. i \in 1..Len(a.pre) /\ i \in 1..Len(b.pre)
      BY <2>0 DEF Smaller
    <3>2. a.pre[i] \in Label /\ b.pre[i] \in Label
      BY <3>1, VersionParts
    <3>3. PlainLabel(a.pre[i]) /\ PlainLabel(b.pre[i])
      BY <3>1 DEF Plain, PlainLabel
    <3> QED
      BY <3>2, <3>3, PlainLabels
  <2> QED
    BY <2>1 DEF Labels
<1>5. NuGetCompare(a, b) =
        IF Parts(a, b, 4) # 0 THEN Parts(a, b, 4) ELSE Released(a.pre, b.pre, Labels(a, b))
  BY DEF NuGetCompare, Labels
<1>6. CompareVersions(a, b) =
        IF Parts(a, b, n) # 0 THEN Parts(a, b, n) ELSE Released(a.pre, b.pre, over)
  BY DEF CompareVersions
<1> HIDE DEF n, over
<1> QED
  BY <1>3, <1>4, <1>5, <1>6

LEMMA NuGetIsAccepted ==
  ASSUME NEW a \in ParsedVersion, NuGetValid(a)
  PROVE  OverrideValid(a)
<1>1. \A i \in 1..Len(a.core) : a.core[i] \in 0..MaxInt
  BY VersionsAssumption DEF NuGetValid
<1>2. \A i \in 1..Len(a.pre) : a.pre[i].raw # 0
  BY DEF NuGetValid, ParsedVersion
<1> QED
  BY <1>1, <1>2 DEF OverrideValid

-----------------------------------------------------------------------------
(* What is reported of one source, and what its index answered.            *)
EntrySound(u, feed) ==
    /\ u.failed => u.latest = u.current
    /\ u.changed => /\ ~u.failed
                    /\ u.latest \in ToSet(feed)
                    /\ NuGetCompare(u.latest, u.current) = 1
                    /\ NuGetCompare(u.current, u.latest) = -1
                    /\ u.current.pre = <<>> => u.latest.pre = <<>>
    /\ ~u.failed => \A i \in 1..Len(feed) :
           \/ u.current.pre = <<>> /\ feed[i].pre # <<>>
           \/ NuGetCompare(u.latest, feed[i]) >= 0
    /\ u.changed /\ Plain(u.latest) /\ Plain(u.current) =>
           /\ ~RangeError(u.latest, u.current, u.current)
           /\ ~VersionInRange(u.latest, u.current, u.current)
           /\ VersionInRange(u.latest, u.current, u.latest)
           /\ RangeValid(u.current, u.latest)

LEMMA UnchangedIsSound ==
  ASSUME NEW s, NEW feed, NEW failed \in BOOLEAN, failed \/ feed = <<>>
  PROVE  EntrySound(Entry(s, s.version, failed), feed)
<1> DEFINE u == Entry(s, s.version, failed)
<1>1. u.latest = u.current /\ u.changed = FALSE /\ u.failed = failed
  BY DEF Entry
<1>2. ~failed => \A i \in 1..Len(feed) : FALSE
  OBVIOUS
<1> HIDE DEF u
<1>3. EntrySound(u, feed)
  BY <1>1, <1>2 DEF EntrySound
<1> QED
  BY <1>3 DEF u

LEMMA NewestIsSound ==
  ASSUME NEW s, s.version \in ParsedVersion, NEW index \in Seq(ParsedVersion), ~AnswerError(s.version, index)
  PROVE  EntrySound(Entry(s, Newest(s.version, index), FALSE), index)
<1> DEFINE c == s.version
           v == Newest(c, index)
           u == Entry(s, v, FALSE)
<1>1. BestOf(v, c, index, Len(index))
  BY NewestIsBest
<1>2. u.current = c /\ u.latest = v /\ u.failed = FALSE /\ (u.changed <=> v # c)
  BY DEF Entry
<1> HIDE DEF u, v
<1>3. v \in ParsedVersion
  BY <1>1 DEF BestOf
<1>4. NuGetCompare(c, v) = 0 - NuGetCompare(v, c)
  BY <1>3, NuGetOpposes
<1>5. \A i \in 1..Len(index) : (c.pre = <<>> /\ index[i].pre # <<>>) \/ NuGetCompare(v, index[i]) >= 0
  BY <1>1 DEF BestOf, InChannel
<1>6. ASSUME v # c
      PROVE  /\ v \in ToSet(index) /\ NuGetValid(v) /\ NuGetValid(c)
             /\ NuGetCompare(v, c) = 1 /\ NuGetCompare(c, v) = -1
             /\ c.pre = <<>> => v.pre = <<>>
  <2>1. PICK j \in 1..Len(index) : v = index[j]
    BY <1>1, <1>6 DEF BestOf
  <2>2. NuGetValid(v) /\ NuGetValid(c)
    BY <2>1 DEF AnswerError
  <2>3. v \in ToSet(index)
    BY <2>1 DEF ToSet
  <2>4. NuGetCompare(v, c) = 1 /\ (c.pre = <<>> => v.pre = <<>>)
    BY <1>1, <1>6 DEF BestOf, InChannel
  <2> QED
    BY <1>4, <2>2, <2>3, <2>4
<1>7. ASSUME v # c, Plain(v), Plain(c)
      PROVE  /\ ~RangeError(v, c, c)
             /\ ~VersionInRange(v, c, c)
             /\ VersionInRange(v, c, v)
             /\ RangeValid(c, v)
  <2>1. OverrideValid(v) /\ OverrideValid(c)
    BY <1>3, <1>6, <1>7, NuGetIsAccepted
  <2>2. CompareVersions(v, c) = 1 /\ CompareVersions(c, v) = -1
    BY <1>3, <1>6, <1>7, OrdersAgree
  <2>3. CompareVersions(v, v) = 0
    <3>1. NuGetCompare(v, v) \in Outcome /\ NuGetCompare(v, v) = 0 - NuGetCompare(v, v)
      BY <1>3, NuGetOpposes
    <3>2. NuGetCompare(v, v) = 0
      BY <3>1 DEF Outcome
    <3> QED
      BY <1>3, <1>6, <1>7, <3>2, OrdersAgree
  <2> QED
    BY <2>1, <2>2, <2>3 DEF RangeError, VersionInRange, RangeValid
<1>8. EntrySound(u, index)
  BY <1>2, <1>5, <1>6, <1>7 DEF EntrySound
<1> QED
  BY <1>8 DEF u, v

LEMMA Appended ==
  ASSUME NEW s, s \in Seq(ToSet(s)), NEW e
  PROVE  /\ Append(s, e) \in Seq(ToSet(Append(s, e)))
         /\ Len(s) \in Nat /\ Len(Append(s, e)) = Len(s) + 1
         /\ \A i \in 1..Len(s) : Append(s, e)[i] = s[i]
         /\ Append(s, e)[Len(s) + 1] = e
<1> DEFINE S == ToSet(s) \cup {e}
           t == Append(s, e)
<1>1. s \in Seq(S) /\ e \in S
  OBVIOUS
<1> HIDE DEF S
<1>2. /\ t \in Seq(S) /\ Len(t) = Len(s) + 1 /\ Len(s) \in Nat
      /\ \A i \in 1..Len(s) : t[i] = s[i]
      /\ t[Len(s) + 1] = e
  BY <1>1, AppendProperties
<1> HIDE DEF t
<1>3. \A i \in 1..Len(t) : t[i] \in ToSet(t)
  BY <1>2 DEF ToSet
<1>4. t \in Seq(ToSet(t))
  BY <1>2, <1>3
<1> QED
  BY <1>2, <1>4 DEF t

(* The updates are those of the lock, which is not read again after them.  *)
UpdateInv ==
    /\ lockFile \in Locks
    /\ phase \in {"open", "visit", "ready", "update"} => results = <<>>
    /\ updates # <<>> => results = <<>> /\ phase \in {"update", "exit"}
    /\ updates \in Seq(ToSet(updates))
    /\ feeds \in Seq(ToSet(feeds))
    /\ Len(feeds) = Len(updates)
    /\ \A k \in 1..Len(updates) : updates[k].id = Sources[k].id /\ EntrySound(updates[k], feeds[k])

LEMMA UpdateInvInit == ToolInit => UpdateInv
<1>1. <<>> \in Seq(ToSet(<<>>)) /\ Len(<<>>) = 0 /\ 1..0 = {}
  OBVIOUS
<1> QED
  BY <1>1 DEF ToolInit, UpdateInv

LEMMA ReportKeeps ==
  ASSUME UpdateInv, MoreSources, NEW u, NEW feed, Report(u, feed), u.id = Asked.id, EntrySound(u, feed)
  PROVE  UpdateInv'
<1>1. /\ updates' = Append(updates, u) /\ feeds' = Append(feeds, feed)
      /\ UNCHANGED <<phase, lockFile, results>> /\ phase = "update"
  BY DEF Report, MoreSources, kept
<1>2. Sources' = Sources
  BY <1>1 DEF Sources
<1>3. /\ updates' \in Seq(ToSet(updates')) /\ feeds' \in Seq(ToSet(feeds'))
      /\ Len(updates) \in Nat /\ Len(updates') = Len(updates) + 1 /\ Len(feeds') = Len(updates')
      /\ \A i \in 1..Len(updates) : updates'[i] = updates[i] /\ feeds'[i] = feeds[i]
      /\ updates'[Len(updates) + 1] = u /\ feeds'[Len(updates) + 1] = feed
  BY <1>1, Appended DEF UpdateInv
<1>4. ASSUME NEW k \in 1..Len(updates')
      PROVE  updates'[k].id = Sources[k].id /\ EntrySound(updates'[k], feeds'[k])
  <2>1. CASE k \in 1..Len(updates)
    BY <1>3, <2>1 DEF UpdateInv
  <2>2. CASE k = Len(updates) + 1
    BY <1>3, <2>2 DEF Asked
  <2> QED
    BY <1>3, <2>1, <2>2
<1> QED
  BY <1>1, <1>2, <1>3, <1>4 DEF UpdateInv

LEMMA AskedVersion ==
  ASSUME UpdateInv, MoreSources
  PROVE  Asked.version \in ParsedVersion
<1>1. /\ Sources \in Seq(ToSet(Sources))
      /\ \A s \in ToSet(Sources) : s.version \in ParsedVersion
  BY LocksAssumption DEF UpdateInv, Sources
<1>2. Len(updates) \in Nat /\ Len(updates) < Len(Sources)
  BY DEF UpdateInv, MoreSources
<1>3. Len(updates) + 1 \in 1..Len(Sources)
  BY <1>1, <1>2
<1>4. Asked \in ToSet(Sources)
  BY <1>1, <1>3 DEF Asked
<1> QED
  BY <1>1, <1>4

LEMMA UpdateKeeps == UpdateInv /\ (NoIndex \/ IndexUnavailable \/ ReadIndex) => UpdateInv'
<1>1. ASSUME UpdateInv, NoIndex PROVE UpdateInv'
  <2> DEFINE u == Entry(Asked, Asked.version, FALSE)
  <2>1. MoreSources /\ Report(u, <<>>)
    BY <1>1 DEF NoIndex
  <2>2. EntrySound(u, <<>>)
    BY UnchangedIsSound
  <2>3. u.id = Asked.id
    BY DEF Entry
  <2> QED
    BY <1>1, <2>1, <2>2, <2>3, ReportKeeps
<1>2. ASSUME UpdateInv, IndexUnavailable PROVE UpdateInv'
  <2> DEFINE u == Entry(Asked, Asked.version, TRUE)
  <2>1. MoreSources /\ Report(u, <<>>)
    BY <1>2 DEF IndexUnavailable
  <2>2. EntrySound(u, <<>>)
    BY UnchangedIsSound
  <2>3. u.id = Asked.id
    BY DEF Entry
  <2> QED
    BY <1>2, <2>1, <2>2, <2>3, ReportKeeps
<1>3. ASSUME UpdateInv, ReadIndex PROVE UpdateInv'
  <2>1. MoreSources
    BY <1>3 DEF ReadIndex
  <2>2. PICK index \in Answers :
          IF AnswerError(Asked.version, index)
          THEN Report(Entry(Asked, Asked.version, TRUE), index)
          ELSE Report(Entry(Asked, Newest(Asked.version, index), FALSE), index)
    BY <1>3 DEF ReadIndex
  <2>3. CASE AnswerError(Asked.version, index)
    <3> DEFINE u == Entry(Asked, Asked.version, TRUE)
    <3>1. Report(u, index)
      BY <2>2, <2>3
    <3>2. EntrySound(u, index)
      BY UnchangedIsSound
    <3>3. u.id = Asked.id
      BY DEF Entry
    <3> QED
      BY <1>3, <2>1, <3>1, <3>2, <3>3, ReportKeeps
  <2>4. CASE ~AnswerError(Asked.version, index)
    <3> DEFINE u == Entry(Asked, Newest(Asked.version, index), FALSE)
    <3>1. Report(u, index)
      BY <2>2, <2>4
    <3>2. Asked.version \in ParsedVersion
      BY <1>3, <2>1, AskedVersion
    <3>3. index \in Seq(ParsedVersion)
      BY LocksAssumption
    <3>4. EntrySound(u, index)
      BY <2>4, <3>2, <3>3, NewestIsSound
    <3>5. u.id = Asked.id
      BY DEF Entry
    <3> QED
      BY <1>3, <2>1, <3>1, <3>4, <3>5, ReportKeeps
  <2> QED
    BY <2>3, <2>4
<1> QED
  BY <1>1, <1>2, <1>3

LEMMA OthersKeepUpdates ==
  ASSUME UpdateInv,
         \/ Open \/ VisitRoot \/ VisitDependency \/ FinishVisit \/ Opened
         \/ List \/ StartCache \/ Usage \/ StartUpdate
         \/ FetchKept \/ FetchFails \/ FetchWithoutSdk \/ FetchArtifact \/ VerifySource
         \/ FinishCache \/ RunAgain \/ FinishUpdate
         \/ UNCHANGED toolVars
  PROVE  UpdateInv'
<1>1. ASSUME UNCHANGED <<lockFile, updates, feeds>> PROVE Sources' = Sources
  BY <1>1 DEF Sources
<1>2. CASE Open \/ VisitRoot \/ VisitDependency \/ FinishVisit \/ Opened
  <2>1. /\ UNCHANGED <<lockFile, updates, feeds, results>>
        /\ phase \in {"open", "visit"}
    BY <1>2 DEF Open, VisitRoot, VisitDependency, FinishVisit, Opened, kept
  <2> QED
    BY <1>1, <2>1 DEF UpdateInv
<1>3. CASE List \/ Usage \/ StartUpdate \/ FinishUpdate
  <2>1. /\ UNCHANGED <<lockFile, updates, feeds, results>>
        /\ phase \in {"open", "ready", "update"} /\ phase' \in {"update", "exit"}
    BY <1>3 DEF List, Usage, StartUpdate, FinishUpdate, Exit, kept
  <2> QED
    BY <1>1, <2>1 DEF UpdateInv
<1>4. CASE StartCache \/ FinishCache
  <2>1. /\ UNCHANGED <<lockFile, updates, feeds, results>>
        /\ phase \in {"ready", "fetch", "verify"} /\ phase' \in {"fetch", "verify", "exit"}
    BY <1>4 DEF StartCache, FinishCache, kept
  <2> QED
    BY <1>1, <2>1 DEF UpdateInv
<1>5. CASE FetchKept \/ FetchFails \/ FetchWithoutSdk \/ FetchArtifact \/ VerifySource
  <2>1. /\ UNCHANGED <<phase, lockFile, updates, feeds>>
        /\ phase \in {"fetch", "verify"}
    BY <1>5 DEF FetchKept, FetchFails, FetchWithoutSdk, FetchArtifact, VerifySource, MoreToDo, Result
  <2> QED
    BY <1>1, <2>1 DEF UpdateInv
<1>6. CASE RunAgain
  <2>1. results # <<>> /\ results' = <<>> /\ phase' = "open" /\ UNCHANGED <<updates, feeds>>
    BY <1>6 DEF RunAgain
  <2>2. lockFile' = lockFile \/ \E R \in Revisions : lockFile' \in R
    BY <1>6 DEF RunAgain
  <2>3. lockFile' \in Locks
    BY <2>2, LocksAssumption DEF UpdateInv
  <2>4. updates = <<>>
    BY <2>1 DEF UpdateInv
  <2> QED
    BY <2>1, <2>3, <2>4 DEF UpdateInv
<1>7. CASE UNCHANGED toolVars
  <2>1. UNCHANGED <<phase, lockFile, updates, feeds, results>>
    BY <1>7 DEF toolVars, kept
  <2> QED
    BY <1>1, <2>1 DEF UpdateInv
<1> QED
  BY <1>2, <1>3, <1>4, <1>5, <1>6, <1>7

(***************************************************************************)
(* Whatever versions an index lists, and however many: what is reported is *)
(* the newest one of the channel of the pin (updates.go:73-94), NuGet's    *)
(* comparison being a total order, and the overrides' comparison tells it  *)
(* from the pin in the same way (override.go:208-318).                     *)
(***************************************************************************)
THEOREM UpdatesAreAlwaysSound == ToolSpec => []UpdatesAreSound
<1>1. UpdateInv /\ [ToolNext]_toolVars => UpdateInv'
  BY UpdateKeeps, OthersKeepUpdates DEF ToolNext
<1>2. UpdateInv => UpdatesAreSound
  BY DEF UpdateInv, EntrySound, UpdatesAreSound, NewestIsReported, OverridesExpire
<1> QED
  BY UpdateInvInit, <1>1, <1>2, PTL DEF ToolSpec
-----------------------------------------------------------------------------
(***************************************************************************)
(* The cache.  A source of an accepted lock has files, one if it is of the *)
(* SDK, and each has a place of its own name.                              *)
(***************************************************************************)
Proper(s) ==
    /\ s.files \in Seq(ToSet(s.files))
    /\ \A i \in 1..Len(s.files) : s.files[i] \in Names /\ s.files[i].path # <<>>
    /\ FromSdk(s) => Len(s.files) = 1
    /\ s.artifact # 0

Usable(q) == Known(q) /\ \A i \in 1..Len(q) : Proper(q[i])

(* No check of an accepted lock fails.                                     *)
LEMMA ChecksPass ==
  ASSUME lockFile \in Locks, NEW i \in 1..Len(Sources)
  PROVE  ValidateLock = "" => \A k \in 1..9 : ~SourceErrors(i)[k].wrong
<1> DEFINE e(j) == FirstWrong(SourceErrors(j))
           own == [j \in 1..Len(Sources) |-> [wrong |-> e(j) # "", error |-> e(j)]]
           W == {k \in 1..Len(own) : own[k].wrong}
           C == SourceErrors(i)
           V == {k \in 1..Len(C) : C[k].wrong}
<1>1. Sources \in Seq(ToSet(Sources))
  BY LocksAssumption DEF Sources
<1>2. ASSUME NEW j \in 1..Len(Sources), e(j) # "" PROVE FirstWrong(own) # ""
  <2>1. Len(own) = Len(Sources) /\ Len(Sources) \in Nat
    BY <1>1
  <2>2. \A k \in 1..Len(Sources) : own[k].wrong = (e(k) # "") /\ own[k].error = e(k)
    OBVIOUS
  <2>3. \/ W = {} /\ FirstWrong(own) = ""
        \/ \E k \in W : FirstWrong(own) = own[k].error
    <3> HIDE DEF own
    <3> QED
      BY FirstWrongFails
  <2> HIDE DEF own, e
  <2>4. own[j].wrong
    BY <1>2, <2>2
  <2> QED
    BY <1>2, <2>1, <2>2, <2>3, <2>4
<1>3. ValidateLock = "" => FirstWrong(own) = ""
  BY DEF ValidateLock, e
<1>4. ValidateLock = "" => e(i) = ""
  BY <1>2, <1>3
<1>5. Len(C) = 9 /\ \A k \in 1..9 : C[k].error # ""
  <2>1. /\ C[1].error = "incomplete" /\ C[2].error = "duplicate" /\ C[3].error = "hash"
        /\ C[4].error = "retrieval" /\ C[5].error = "locator" /\ C[6].error = "sdk"
        /\ C[7].error = "architecture" /\ C[8].error = "file" /\ C[9].error = "dependency"
    BY DEF SourceErrors
  <2>a. Len(C) = 9
    BY DEF SourceErrors
  <2> HIDE DEF C
  <2>2. \A k \in 1..9 : k = 1 \/ k = 2 \/ k = 3 \/ k = 4 \/ k = 5 \/ k = 6 \/ k = 7 \/ k = 8 \/ k = 9
    OBVIOUS
  <2> QED
    BY <2>1, <2>a, <2>2
<1>6. \/ V = {} /\ e(i) = ""
      \/ \E k \in V : e(i) = C[k].error
  BY FirstWrongFails
<1>7. ValidateLock = "" => \A k \in 1..9 : ~C[k].wrong
  <2> HIDE DEF C, e
  <2> QED
    BY <1>4, <1>5, <1>6
<1> QED
  BY <1>7

LEMMA AcceptedIsUsable ==
  ASSUME lockFile \in Locks
  PROVE  ValidateLock = "" => Usable(Sources)
<1>1. ASSUME ValidateLock = "" PROVE Known(Sources)
  BY <1>1, ValidateNames
<1>a. Sources \in Seq(ToSet(Sources))
  BY LocksAssumption DEF Sources
<1>2. ASSUME ValidateLock = "", NEW i \in 1..Len(Sources) PROVE Proper(Sources[i])
  <2> DEFINE s == Sources[i]
             C == SourceErrors(i)
             cleans == [k \in 1..Len(s.files) |-> s.files[k].clean]
  <2>1. s \in ToSet(Sources)
    BY <1>a DEF ToSet
  <2>2. /\ C[6].wrong = (s.retrieval = "sdk" /\ Len(s.files) # 1)
        /\ <<>> \in ToSet(cleans) => C[8].wrong
    BY DEF SourceErrors
  <2>3. ~C[6].wrong /\ ~C[8].wrong
    <3>1. \A k \in 1..9 : ~C[k].wrong
      BY <1>2, ChecksPass
    <3> HIDE DEF C
    <3> QED
      BY <3>1
  <2> HIDE DEF C
  <2>4. FromSdk(s) => Len(s.files) = 1
    BY <2>2, <2>3 DEF FromSdk
  <2>5. s.files \in Seq(ToSet(s.files)) /\ s.artifact # 0
    BY <2>1, LocksAssumption DEF Sources
  <2>6. ASSUME NEW k \in 1..Len(s.files) PROVE s.files[k] \in Names /\ s.files[k].clean # <<>>
    <3>1. s.files[k] \in ToSet(s.files)
      BY <2>5 DEF ToSet
    <3>2. s.files[k] \in Names
      BY <2>1, <3>1 DEF Names, Sources
    <3>3. cleans[k] \in ToSet(cleans)
      BY DEF ToSet
    <3> QED
      BY <2>2, <2>3, <3>2, <3>3
  <2>7. \A k \in 1..Len(s.files) : s.files[k].path # <<>>
    BY <2>6, ArtifactsAssumption
  <2> QED
    BY <2>4, <2>5, <2>6, <2>7 DEF Proper
<1> QED
  BY <1>1, <1>2 DEF Usable

LEMMA Greatest ==
  ASSUME NEW n \in Nat, NEW S \in SUBSET (1..n), S # {}
  PROVE  Max(S) \in S
<1> DEFINE T == {n - x : x \in S}
<1>1. T \in SUBSET Nat /\ T # {}
  <2>1. PICK y \in S : y \in 1..n
    OBVIOUS
  <2>2. n - y \in T
    OBVIOUS
  <2>3. \A x \in S : n - x \in Nat
    OBVIOUS
  <2> QED
    BY <2>2, <2>3
<1>2. PICK m \in T : \A l \in T : m <= l
  <2> HIDE DEF T
  <2> QED
    BY <1>1, Least
<1>3. PICK x \in S : m = n - x
  BY <1>2
<1>4. ASSUME NEW y \in S PROVE x >= y
  <2>1. m <= n - y
    BY <1>2
  <2> QED
    BY <1>3, <2>1
<1> QED
  BY <1>4 DEF Max

(* The last entry under a locked name is an entry of that name.            *)
LEMMA EntryOfIs ==
  ASSUME NEW a \in Artifacts, NEW n \in Names, NEW j \in 1..Len(a.entries), a.entries[j].name.key = n.key
  PROVE  \E m \in 1..Len(a.entries) : EntryOf(a, n) = a.entries[m] /\ a.entries[m].name = n
<1> DEFINE at == {i \in 1..Len(a.entries) : a.entries[i].name.key = n.key}
<1>1. a.entries \in Seq(ToSet(a.entries)) /\ Len(a.entries) \in Nat
  BY ArtifactsAssumption
<1>2. at \in SUBSET (1..Len(a.entries)) /\ at # {}
  OBVIOUS
<1>3. EntryOf(a, n) = a.entries[Max(at)]
  BY DEF EntryOf
<1> HIDE DEF at
<1>4. Max(at) \in at
  BY <1>1, <1>2, Greatest
<1>5. Max(at) \in 1..Len(a.entries) /\ a.entries[Max(at)].name.key = n.key
  BY <1>4 DEF at
<1>6. a.entries[Max(at)].name \in Names
  BY <1>1, <1>5 DEF Names, ToSet
<1> QED
  BY <1>3, <1>5, <1>6, ArtifactsAssumption

LEMMA PinIs ==
  ASSUME NEW s, NEW a \in Artifacts, a.id = s.artifact
  PROVE  Pin(s) = a
BY ArtifactsAssumption DEF Pin

(* What is told apart by its first component.                              *)
LEMMA Kinds ==
  ASSUME NEW a, NEW e, NEW s
  PROVE  /\ ArtifactBytes(a)[1] = "artifact" /\ EntryBytes(e)[1] # "artifact"
         /\ Manifest(s)[1] # "artifact" /\ <<"other">>[1] # "artifact"
BY DEF ArtifactBytes, EntryBytes, Manifest

(* A file that has the hash of an artifact came with a download.           *)
Genuine(d) == \A p \in DOMAIN d : d[p][1] = "artifact" => \E a \in Artifacts : d[p] = ArtifactBytes(a)

LEMMA VerifiedHas ==
  ASSUME NEW s, Proper(s), NEW d, Genuine(d), VerifyOne(s, Pin(s), d) = "verified"
  PROVE  HasLocked(s, d)
<1>1. /\ HashIs(d, ArtifactFile(s), s.artifact)
      /\ IF FromSdk(s) THEN HashIs(d, s.files[1].path, s.artifact) ELSE SelectedMatch(Pin(s), d, s.files)
  BY DEF VerifyOne
<1>2. PICK a \in Artifacts : a.id = s.artifact
  <2>1. /\ ArtifactFile(s) \in DOMAIN d /\ d[ArtifactFile(s)] = <<"artifact", s.artifact>>
    BY <1>1 DEF HashIs
  <2>2. PICK a \in Artifacts : d[ArtifactFile(s)] = ArtifactBytes(a)
    BY <2>1 DEF Genuine
  <2>3. <<"artifact", s.artifact>>[2] = <<"artifact", a.id>>[2]
    BY <2>1, <2>2 DEF ArtifactBytes
  <2> QED
    BY <2>3
<1>3. Pin(s) = a
  BY <1>2, PinIs
<1>4. CASE FromSdk(s)
  <2>1. s.files[1].path \in DOMAIN d /\ d[s.files[1].path] = <<"artifact", s.artifact>>
    BY <1>1, <1>4 DEF HashIs
  <2>2. Len(s.files) = 1
    BY <1>4 DEF Proper
  <2> QED
    BY <1>2, <1>3, <1>4, <2>1, <2>2 DEF HasLocked, ArtifactBytes
<1>5. CASE ~FromSdk(s)
  <2>1. SelectedMatch(a, d, s.files)
    BY <1>1, <1>3, <1>5
  <2>2. ASSUME NEW i \in 1..Len(s.files)
        PROVE  /\ s.files[i].path \in DOMAIN d
               /\ \E e \in ToSet(a.entries) : e.name = s.files[i] /\ d[s.files[i].path] = EntryBytes(e)
    <3> DEFINE n == s.files[i]
    <3>1. /\ \E j \in 1..Len(a.entries) : a.entries[j].name.key = n.key
          /\ n.path \in DOMAIN d /\ d[n.path] = EntryBytes(EntryOf(a, n))
      BY <2>1 DEF SelectedMatch
    <3>2. n \in Names
      BY DEF Proper
    <3> HIDE DEF n
    <3>3. PICK m \in 1..Len(a.entries) : EntryOf(a, n) = a.entries[m] /\ a.entries[m].name = n
      BY <1>2, <3>1, <3>2, EntryOfIs
    <3>4. a.entries[m] \in ToSet(a.entries)
      BY ArtifactsAssumption DEF ToSet
    <3>5. \E e \in ToSet(a.entries) : e.name = n /\ d[n.path] = EntryBytes(e)
      BY <3>1, <3>3, <3>4
    <3> QED
      BY <3>1, <3>5 DEF n
  <2> QED
    BY <1>3, <1>5, <2>2 DEF HasLocked
<1> QED
  BY <1>4, <1>5

LEMMA Places == SdkFile # ManifestFile /\ PackageFile # ManifestFile
<1>1. SdkFile[1] # ManifestFile[1] /\ PackageFile[1] # ManifestFile[1]
  BY DEF SdkFile, PackageFile, ManifestFile
<1> QED
  BY <1>1

(* An extraction that did not fail has under every locked name the entry   *)
(* that verify finds, because no two entries share a path.                 *)
Extracted(a, n, d) ==
    /\ \E j \in 1..Len(a.entries) : a.entries[j].name.key = n.key
    /\ Readable(EntryOf(a, n)) /\ Inside(n)
    /\ n.path \in DOMAIN d /\ d[n.path] = EntryBytes(EntryOf(a, n))
    /\ \E e \in ToSet(a.entries) : e.name = n /\ EntryOf(a, n) = e

LEMMA ExtractionHas ==
  ASSUME NEW s, Proper(s), NEW a \in Artifacts, ~ExtractSelected(a, s.files).failed
  PROVE  a.zip /\ \A i \in 1..Len(s.files) : Extracted(a, s.files[i], ExtractSelected(a, s.files).files)
<1> DEFINE S == Selected(a, s.files)
           At(j) == a.entries[j].name.path
           Collides(j) == \E i \in S : i < j /\ ~Creatable(Written(NoFiles, At(i), <<>>), At(j))
           x == ExtractSelected(a, s.files).files
<1>1. /\ a.zip
      /\ \A j \in S : Readable(a.entries[j]) /\ Inside(a.entries[j].name) /\ ~Collides(j)
      /\ AllFound(a, s.files)
  BY DEF ExtractSelected
<1>2. x = [p \in {At(j) : j \in S} |-> EntryBytes(a.entries[CHOOSE j \in S : At(j) = p])]
  BY DEF ExtractSelected
<1>3. S \subseteq 1..Len(a.entries) /\ Len(a.entries) \in Nat
  BY ArtifactsAssumption DEF Selected
<1>4. ASSUME NEW i \in S, NEW j \in S, At(i) = At(j) PROVE i = j
  <2>1. ASSUME NEW k \in S, NEW l \in S, k < l, At(k) = At(l) PROVE Collides(l)
    <3>1. ~Creatable(Written(NoFiles, At(k), <<>>), At(l))
      BY <2>1 DEF Creatable, Exists, Written
    <3> QED
      BY <2>1, <3>1
  <2>2. ~(i < j) /\ ~(j < i)
    BY <1>1, <1>4, <2>1
  <2> QED
    BY <1>3, <2>2
<1>5. ASSUME NEW i \in 1..Len(s.files) PROVE Extracted(a, s.files[i], x)
  <2> DEFINE n == s.files[i]
  <2>1. PICK j \in 1..Len(a.entries) : a.entries[j].name.key = n.key
    BY <1>1 DEF AllFound
  <2>2. n \in Names
    BY DEF Proper
  <2>3. PICK m \in 1..Len(a.entries) : EntryOf(a, n) = a.entries[m] /\ a.entries[m].name = n
    BY <2>1, <2>2, EntryOfIs
  <2>4. m \in S
    BY <2>3 DEF Selected
  <2>5. a.entries[m] \in ToSet(a.entries)
    BY ArtifactsAssumption DEF ToSet
  <2> HIDE DEF n, S, x
  <2>6. (CHOOSE k \in S : At(k) = n.path) = m
    BY <1>4, <2>3, <2>4
  <2>7. n.path \in DOMAIN x /\ x[n.path] = EntryBytes(a.entries[m])
    BY <1>2, <2>3, <2>4, <2>6
  <2> QED
    BY <1>1, <2>1, <2>3, <2>4, <2>5, <2>7 DEF Extracted, n
<1> QED
  BY <1>1, <1>5

(* A stage holds what the lock asks of the artifact, and verify accepts it, *)
(* unless the manifest took the place of a locked file.                    *)
LEMMA StageServes ==
  ASSUME NEW s, Proper(s), NEW a \in Artifacts, Stage(s, a).state = "fetched", ~NamesManifest(s)
  PROVE  a.id = s.artifact /\ HasLocked(s, Stage(s, a).files) /\ VerifyOne(s, a, Stage(s, a).files) = "verified"
<1> DEFINE c == Content(s, a)
           d == Written(c.files, ManifestFile, Manifest(s))
<1>1. a.id = s.artifact /\ ~c.failed /\ Stage(s, a).files = d
  BY DEF Stage
<1>2. Pin(s) = a
  BY <1>1, PinIs
<1>3. \A i \in 1..Len(s.files) : s.files[i].path # ManifestFile
  BY DEF NamesManifest
<1>4. Len(s.files) \in Nat
  BY DEF Proper
<1>5. CASE FromSdk(s)
  <2> DEFINE p == s.files[1].path
             x == Written(NoFiles, p, ArtifactBytes(a))
             y == Written(x, SdkFile, ArtifactBytes(a))
  <2>1. c.files = y /\ Inside(s.files[1]) /\ p # SdkFile
    BY <1>1, <1>5 DEF Content
  <2>2. Len(s.files) = 1 /\ p # ManifestFile
    BY <1>3, <1>5 DEF Proper
  <2> HIDE DEF c, p
  <2>3. p \in DOMAIN x /\ x[p] = ArtifactBytes(a)
    BY DEF Written
  <2> HIDE DEF x
  <2>4. p \in DOMAIN y /\ y[p] = ArtifactBytes(a) /\ SdkFile \in DOMAIN y /\ y[SdkFile] = ArtifactBytes(a)
    BY <2>1, <2>3 DEF Written
  <2> HIDE DEF y
  <2>5. /\ p \in DOMAIN d /\ d[p] = ArtifactBytes(a) /\ SdkFile \in DOMAIN d /\ d[SdkFile] = ArtifactBytes(a)
        /\ ManifestFile \in DOMAIN d /\ d[ManifestFile] = Manifest(s)
    BY <2>1, <2>2, <2>4, Places DEF Written, d
  <2> HIDE DEF d
  <2>6. HasLocked(s, d)
    BY <1>2, <1>5, <2>2, <2>5 DEF HasLocked, p
  <2>7. VerifyOne(s, a, d) = "verified"
    BY <1>1, <1>5, <2>1, <2>2, <2>5 DEF VerifyOne, ArtifactFile, HashIs, Exists, ArtifactBytes, p
  <2> QED
    BY <1>1, <2>6, <2>7
<1>6. CASE ~FromSdk(s)
  <2> DEFINE x == ExtractSelected(a, s.files).files
             y == Written(x, PackageFile, ArtifactBytes(a))
  <2>1. c.files = y /\ ~ExtractSelected(a, s.files).failed /\ Creatable(x, PackageFile)
    BY <1>1, <1>6 DEF Content
  <2>2. a.zip /\ \A i \in 1..Len(s.files) : Extracted(a, s.files[i], x)
    BY <2>1, ExtractionHas
  <2> HIDE DEF c, x
  <2>3. PackageFile \notin DOMAIN x
    BY <2>1 DEF Creatable, Exists
  <2>4. /\ \A q \in DOMAIN x : q \in DOMAIN y /\ y[q] = x[q]
        /\ PackageFile \in DOMAIN y /\ y[PackageFile] = ArtifactBytes(a)
    BY <2>3 DEF Written
  <2> HIDE DEF y
  <2>5. /\ \A q \in DOMAIN x : q # ManifestFile => q \in DOMAIN d /\ d[q] = x[q]
        /\ PackageFile \in DOMAIN d /\ d[PackageFile] = ArtifactBytes(a)
        /\ ManifestFile \in DOMAIN d /\ d[ManifestFile] = Manifest(s)
    BY <2>1, <2>4, Places DEF Written, d
  <2> HIDE DEF d
  <2>6. \A i \in 1..Len(s.files) : Extracted(a, s.files[i], d)
    BY <1>3, <2>2, <2>5 DEF Extracted
  <2>7. HasLocked(s, d)
    BY <1>2, <1>6, <2>6 DEF HasLocked, Extracted
  <2>8. SelectedMatch(a, d, s.files)
    BY <2>2, <2>6 DEF SelectedMatch, Extracted
  <2>9. \A i \in 1..Len(s.files) : Inside(s.files[i]) /\ Exists(d, s.files[i].path)
    BY <2>6 DEF Extracted, Exists
  <2>10. Exists(d, ArtifactFile(s)) /\ HashIs(d, ArtifactFile(s), s.artifact)
    BY <1>1, <1>6, <2>5 DEF Exists, ArtifactFile, HashIs, ArtifactBytes
  <2>11. VerifyOne(s, a, d) = "verified"
    BY <1>6, <2>5, <2>8, <2>9, <2>10 DEF VerifyOne
  <2> QED
    BY <1>1, <2>7, <2>11
<1> QED
  BY <1>5, <1>6

(* What is staged came with the download, or is not an artifact.           *)
LEMMA StageIsGenuine ==
  ASSUME NEW s, NEW a \in Artifacts
  PROVE  Genuine(Stage(s, a).files)
<1> DEFINE c == Content(s, a)
           d == Written(c.files, ManifestFile, Manifest(s))
<1>1. Genuine(NoFiles)
  BY DEF Genuine, NoFiles
<1>2. ASSUME NEW e, Genuine(e), NEW p, NEW b, b[1] = "artifact" => \E o \in Artifacts : b = ArtifactBytes(o)
      PROVE  Genuine(Written(e, p, b))
  BY <1>2 DEF Genuine, Written
<1>3. Genuine(c.files)
  <2>1. CASE FromSdk(s)
    <3> DEFINE p == s.files[1].path
    <3>1. c.files = Written(Written(NoFiles, p, ArtifactBytes(a)), SdkFile, ArtifactBytes(a))
      BY <2>1 DEF Content
    <3> HIDE DEF c, p
    <3> QED
      BY <1>1, <1>2, <3>1
  <2>2. CASE ~FromSdk(s)
    <3> DEFINE x == ExtractSelected(a, s.files).files
    <3>1. c.files = Written(x, PackageFile, ArtifactBytes(a))
      BY <2>2 DEF Content
    <3>2. ASSUME NEW p \in DOMAIN x PROVE x[p][1] # "artifact"
      <4> DEFINE S == Selected(a, s.files)
                 e(q) == a.entries[CHOOSE j \in S : a.entries[j].name.path = q]
      <4>1. x = [q \in {a.entries[j].name.path : j \in S} |-> EntryBytes(e(q))]
        BY DEF ExtractSelected
      <4> HIDE DEF x, S, e
      <4>2. x[p] = EntryBytes(e(p))
        BY <3>2, <4>1
      <4> QED
        BY <4>2, Kinds
    <3>3. Genuine(x)
      <4> HIDE DEF x
      <4> QED
        BY <3>2 DEF Genuine
    <3> HIDE DEF c, x
    <3> QED
      BY <1>2, <3>1, <3>3
  <2> QED
    BY <2>1, <2>2
<1>4. Manifest(s)[1] # "artifact"
  BY Kinds
<1>5. Genuine(d)
  <2> HIDE DEF c
  <2> QED
    BY <1>2, <1>3, <1>4
<1>6. Stage(s, a).files = NoFiles \/ Stage(s, a).files = d
  BY DEF Stage
<1> QED
  <2> HIDE DEF d
  <2> QED
    BY <1>1, <1>5, <1>6

(* A damaged file is no artifact.                                          *)
LEMMA DamageIsGenuine ==
  ASSUME NEW d, Genuine(d), NEW p \in DOMAIN d
  PROVE  Genuine(Written(d, p, <<"other">>)) /\ Genuine([q \in DOMAIN d \ {p} |-> d[q]])
<1>1. <<"other">>[1] # "artifact"
  BY Kinds
<1>2. PICK b : b = <<"other">>
  OBVIOUS
<1>3. b[1] # "artifact"
  BY <1>1, <1>2
<1>4. Genuine(Written(d, p, b))
  BY <1>3 DEF Genuine, Written
<1>5. Genuine([q \in DOMAIN d \ {p} |-> d[q]])
  BY DEF Genuine
<1> QED
  BY <1>2, <1>4, <1>5

(* As many paths as names: no two names share one.                         *)
LEMMA OwnPaths ==
  ASSUME NEW s, Proper(s), Cardinality({s.files[i].path : i \in 1..Len(s.files)}) = Len(s.files)
  PROVE  \A i, j \in 1..Len(s.files) : s.files[i].path = s.files[j].path => i = j
<1> DEFINE n == Len(s.files)
           own == {s.files[i].path : i \in 1..n}
           f == [i \in 1..n |-> s.files[i].path]
<1>1. n \in Nat
  BY DEF Proper
<1>2. IsFiniteSet(1..n) /\ Cardinality(1..n) = n
  <2>1. PICK m \in Nat : m = n
    BY <1>1
  <2>2. IsFiniteSet(1..m)
    BY FS_Interval
  <2>3. Cardinality(1..m) = m
    BY FS_Interval
  <2> HIDE DEF n
  <2> QED
    BY <2>1, <2>2, <2>3
<1>3. f \in Surjection(1..n, own)
  BY DEF Surjection
<1>4. Cardinality(own) = n
  OBVIOUS
<1> HIDE DEF n, own
<1>5. f \in Injection(1..n, own)
  <2> HIDE DEF f
  <2> QED
    BY <1>2, <1>3, <1>4, FS_Surjection
<1>6. \A i, j \in 1..n : f[i] = f[j] => i = j
  <2> HIDE DEF f
  <2> QED
    BY <1>5 DEF Injection, IsInjective
<1>7. \A i \in 1..n : f[i] = s.files[i].path
  OBVIOUS
<1> HIDE DEF f
<1> QED
  BY <1>6, <1>7 DEF n

(* Names that each have a place, and entries that can be read, leave no    *)
(* reason to refuse the artifact.                                          *)
LEMMA ApartIsStaged ==
  ASSUME NEW s, Proper(s), NEW a \in Artifacts, a.id = s.artifact, Apart(s), Packed(s)
  PROVE  Stage(s, a).state # "error"
<1> DEFINE own == {s.files[i].path : i \in 1..Len(s.files)}
           all == own \cup {ArtifactFile(s), ManifestFile}
           c == Content(s, a)
<1>1. Pin(s) = a
  BY PinIs
<1>2. /\ ArtifactFile(s) \notin own
      /\ Cardinality(own) = Len(s.files)
      /\ \A p, q \in all : ~Below(p, q)
      /\ FromSdk(s) => \A p \in own : Len(p) = 1 /\ Head(p) # ".."
  BY DEF Apart
<1>3. \A i, j \in 1..Len(s.files) : s.files[i].path = s.files[j].path => i = j
  BY <1>2, OwnPaths
<1>4. ~c.failed /\ DOMAIN c.files \subseteq all
  <2>1. CASE FromSdk(s)
    <3> DEFINE p == s.files[1].path
    <3>1. /\ c.files = Written(Written(NoFiles, p, ArtifactBytes(a)), SdkFile, ArtifactBytes(a))
          /\ c.failed = (Len(p) # 1 \/ ~Inside(s.files[1]) \/ p = SdkFile)
      BY <2>1 DEF Content
    <3>2. Len(s.files) = 1 /\ p # <<>>
      BY <2>1 DEF Proper
    <3>3. p \in own /\ ArtifactFile(s) = SdkFile
      BY <2>1, <3>2 DEF ArtifactFile
    <3>4. ~c.failed
      BY <1>2, <2>1, <3>1, <3>2, <3>3 DEF Inside
    <3>5. DOMAIN c.files = {p, SdkFile}
      <4> HIDE DEF c, p
      <4> QED
        BY <3>1 DEF Written, NoFiles
    <3> QED
      BY <3>3, <3>4, <3>5
  <2>2. CASE ~FromSdk(s)
    <3> DEFINE S == Selected(a, s.files)
               At(j) == a.entries[j].name.path
               Named(i) == {j \in 1..Len(a.entries) : a.entries[j].name = s.files[i]}
               Collides(j) == \E i \in S : i < j /\ ~Creatable(Written(NoFiles, At(i), <<>>), At(j))
               e == ExtractSelected(a, s.files)
    <3>1. /\ a.zip
          /\ \A i \in 1..Len(s.files) :
               /\ ~s.files[i].dots
               /\ \E x \in ToSet(a.entries) : x.name = s.files[i] /\ Readable(x)
               /\ Cardinality(Named(i)) = 1
      BY <1>1, <2>2 DEF Packed
    <3>2. a.entries \in Seq(ToSet(a.entries)) /\ Len(a.entries) \in Nat
      BY ArtifactsAssumption
    <3>3. ASSUME NEW j \in S PROVE j \in 1..Len(a.entries) /\ \E i \in 1..Len(s.files) : j \in Named(i)
      <4>1. j \in 1..Len(a.entries) /\ \E i \in 1..Len(s.files) : a.entries[j].name.key = s.files[i].key
        BY <3>3 DEF Selected
      <4>2. PICK i \in 1..Len(s.files) : a.entries[j].name.key = s.files[i].key
        BY <4>1
      <4>a. a.entries[j] \in ToSet(a.entries)
        BY <3>2, <4>1 DEF ToSet
      <4>b. s.files[i] \in Names
        BY DEF Proper
      <4>3. a.entries[j].name \in Names /\ s.files[i] \in Names
        BY <4>a, <4>b DEF Names
      <4>4. a.entries[j].name = s.files[i]
        BY <4>2, <4>3, ArtifactsAssumption
      <4> QED
        BY <4>1, <4>4
    <3>4. ASSUME NEW i \in 1..Len(s.files), NEW j \in Named(i), NEW k \in Named(i) PROVE j = k
      <4> DEFINE T == Named(i)
      <4>1. T \subseteq 1..Len(a.entries) /\ Cardinality(T) = 1 /\ j \in T /\ k \in T
        BY <3>1
      <4>2. PICK n \in Nat : n = Len(a.entries)
        BY <3>2
      <4>3. IsFiniteSet(1..n)
        BY FS_Interval
      <4> HIDE DEF T
      <4>4. IsFiniteSet(T)
        BY <4>1, <4>2, <4>3, FS_Subset
      <4>5. \E x : T = {x}
        BY <4>1, <4>4, FS_Singleton
      <4> QED
        BY <4>1, <4>5
    <3>5. ASSUME NEW j \in S PROVE Readable(a.entries[j]) /\ Inside(a.entries[j].name) /\ At(j) \in own
      <4>1. PICK i \in 1..Len(s.files) : j \in Named(i)
        BY <3>3, <3>5
      <4>2. PICK x \in ToSet(a.entries) : x.name = s.files[i] /\ Readable(x)
        BY <3>1
      <4>3. PICK k \in 1..Len(a.entries) : x = a.entries[k]
        BY <3>2 DEF ToSet
      <4>4. k = j
        BY <3>4, <4>1, <4>2, <4>3
      <4>5. a.entries[j].name = s.files[i] /\ s.files[i] \in Names /\ s.files[i].path # <<>> /\ ~s.files[i].dots
        BY <3>1, <4>1 DEF Proper
      <4>6. Inside(s.files[i])
        BY <4>5, ArtifactsAssumption DEF Inside
      <4> QED
        BY <4>2, <4>3, <4>4, <4>5, <4>6
    <3>6. ASSUME NEW j \in S PROVE ~Collides(j)
      <4>1. ASSUME NEW k \in S, k < j, ~Creatable(Written(NoFiles, At(k), <<>>), At(j)) PROVE FALSE
        <5>1. DOMAIN Written(NoFiles, At(k), <<>>) = {At(k)}
          BY DEF Written, NoFiles
        <5>2. At(j) = At(k) \/ Below(At(j), At(k)) \/ Below(At(k), At(j))
          BY <4>1, <5>1 DEF Creatable, Exists, IsDirectory
        <5>3. At(j) = At(k)
          <6>1. At(j) \in all /\ At(k) \in all
            BY <3>5
          <6> HIDE DEF Path, all
          <6> QED
            BY <1>2, <5>2, <6>1
        <5>4. PICK m \in 1..Len(s.files) : j \in Named(m)
          BY <3>3
        <5>5. PICK n \in 1..Len(s.files) : k \in Named(n)
          BY <3>3
        <5>6. m = n
          BY <1>3, <5>3, <5>4, <5>5
        <5>7. j = k
          BY <3>4, <5>4, <5>5, <5>6
        <5> QED
          BY <3>2, <3>3, <4>1, <5>7
      <4> QED
        BY <4>1
    <3>7. AllFound(a, s.files)
      <4>1. ASSUME NEW i \in 1..Len(s.files) PROVE \E j \in 1..Len(a.entries) : a.entries[j].name.key = s.files[i].key
        <5>1. PICK x \in ToSet(a.entries) : x.name = s.files[i]
          BY <3>1
        <5>2. PICK k \in 1..Len(a.entries) : x = a.entries[k]
          BY <3>2 DEF ToSet
        <5> QED
          BY <5>1, <5>2
      <4> QED
        BY <4>1 DEF AllFound
    <3>8. ~e.failed /\ DOMAIN e.files = {At(j) : j \in S}
      BY <3>1, <3>5, <3>6, <3>7 DEF ExtractSelected
    <3>9. DOMAIN e.files \subseteq own
      BY <3>5, <3>8
    <3>10. ArtifactFile(s) = PackageFile
      BY <2>2 DEF ArtifactFile
    <3>11. c.files = Written(e.files, PackageFile, ArtifactBytes(a)) /\ c.failed = (e.failed \/ ~Creatable(e.files, PackageFile))
      BY <2>2 DEF Content
    <3> HIDE DEF e, c
    <3>12. Creatable(e.files, PackageFile)
      BY <1>2, <3>9, <3>10 DEF Creatable, Exists, IsDirectory
    <3>13. DOMAIN c.files = DOMAIN e.files \cup {PackageFile}
      BY <3>11 DEF Written
    <3> QED
      BY <3>8, <3>9, <3>10, <3>11, <3>12, <3>13
  <2> QED
    BY <2>1, <2>2
<1>5. ~IsDirectory(c.files, ManifestFile)
  <2> HIDE DEF c
  <2> QED
    BY <1>2, <1>4 DEF IsDirectory
<1> QED
  BY <1>4, <1>5 DEF Stage

(***************************************************************************)
(* What the tool keeps of the cache: a lock that was accepted, results of  *)
(* its sources in order, and for each what its directory held when its     *)
(* turn came, which no later turn touches.                                 *)
(***************************************************************************)
Serves(s, r, d) ==
    /\ r.state = "verified" => HasLocked(s, d)
    /\ r.state = "fetched" => NamesManifest(s) \/ (HasLocked(s, d) /\ VerifyOne(s, Pin(s), d) = "verified")
    /\ r.state = "error" /\ r.given = s.artifact => ~Apart(s) \/ ~Packed(s)

KeptInv ==
    /\ lockFile \in Locks
    /\ phase \in {"visit", "ready", "update", "fetch", "verify"} \/ results # <<>> => Usable(Sources)
    /\ phase \in {"open", "visit", "ready", "update"} => results = <<>>
    /\ results \in Seq(ToSet(results)) /\ Len(results) <= Len(Sources)
    /\ disk = [id \in CacheIds |-> disk[id]]
    /\ \A id \in CacheIds : Genuine(disk[id])
    /\ \A k \in 1..Len(results) : Serves(Sources[k], results[k], disk[Sources[k].id])

LEMMA NoResults ==
  ASSUME NEW q, q \in Seq(ToSet(q))
  PROVE  <<>> \in Seq(ToSet(<<>>)) /\ Len(<<>>) <= Len(q) /\ 1..Len(<<>>) = {}
OBVIOUS

LEMMA SourcesListed ==
  ASSUME lockFile \in Locks
  PROVE  /\ Sources \in Seq(ToSet(Sources)) /\ Len(Sources) \in Nat
         /\ \A k \in 1..Len(Sources) : Sources[k].id \in CacheIds
<1>1. Sources \in Seq(ToSet(Sources)) /\ Len(Sources) \in Nat
  BY LocksAssumption DEF Sources
<1>2. \A k \in 1..Len(Sources) : Sources[k] \in ToSet(Sources)
  BY <1>1 DEF ToSet
<1> QED
  BY <1>1, <1>2 DEF CacheIds, Sources

LEMMA KeptInvInit == ToolInit => KeptInv
<1> SUFFICES ASSUME ToolInit PROVE KeptInv
  OBVIOUS
<1>1. /\ lockFile \in Locks /\ phase = "open" /\ results = <<>>
      /\ disk = [id \in CacheIds |-> NoFiles]
  BY DEF ToolInit
<1>2. results \in Seq(ToSet(results)) /\ Len(results) <= Len(Sources) /\ 1..Len(results) = {}
  BY <1>1, SourcesListed, NoResults
<1>3. Genuine(NoFiles)
  BY DEF Genuine, NoFiles
<1> QED
  BY <1>1, <1>2, <1>3 DEF KeptInv

(* One more result, and no directory but the current one is changed.       *)
LEMMA ResultKeeps ==
  ASSUME KeptInv, phase \in {"fetch", "verify"}, Len(results) < Len(Sources),
         NEW r, results' = Append(results, r), UNCHANGED <<phase, lockFile>>,
         NEW d, Genuine(d), Serves(Current, r, d),
         disk' = [disk EXCEPT ![Current.id] = d]
  PROVE  KeptInv'
<1> DEFINE q == Sources
           n == Len(results)
<1>1. /\ q \in Seq(ToSet(q)) /\ Len(q) \in Nat /\ Usable(q)
      /\ \A k \in 1..Len(q) : q[k].id \in CacheIds
  BY SourcesListed DEF KeptInv
<1>2. Sources' = q
  BY DEF Sources
<1>3. /\ results' \in Seq(ToSet(results')) /\ n \in Nat /\ Len(results') = n + 1
      /\ \A i \in 1..n : results'[i] = results[i]
      /\ results'[n + 1] = r
  BY Appended DEF KeptInv
<1>4. n + 1 \in 1..Len(q) /\ Current = q[n + 1]
  BY <1>1, <1>3 DEF Current
<1>5. \A i, j \in 1..Len(q) : q[i].id = q[j].id => i = j
  BY <1>1 DEF Usable, Known
<1> HIDE DEF q, n
<1>6. ASSUME NEW k \in 1..(n + 1) PROVE Serves(q[k], results'[k], disk'[q[k].id])
  <2>1. k \in 1..Len(q) /\ q[k].id \in CacheIds /\ n + 1 \in 1..Len(q) /\ DOMAIN disk = CacheIds
    BY <1>1, <1>3, <1>4 DEF KeptInv
  <2>2. CASE k = n + 1
    <3>1. disk'[q[k].id] = d
      BY <1>4, <2>1, <2>2
    <3> QED
      BY <1>3, <1>4, <2>2, <3>1
  <2>3. CASE k # n + 1
    <3>1. k \in 1..n
      BY <1>3, <2>3
    <3>2. q[k].id # Current.id
      BY <1>4, <1>5, <2>1, <2>3
    <3>3. disk'[q[k].id] = disk[q[k].id]
      BY <2>1, <3>2
    <3>4. Serves(q[k], results[k], disk[q[k].id])
      BY <3>1 DEF KeptInv, q, n
    <3> QED
      BY <1>3, <3>1, <3>3, <3>4
  <2> QED
    BY <2>2, <2>3
<1>7. disk' = [id \in CacheIds |-> disk'[id]] /\ \A id \in CacheIds : Genuine(disk'[id])
  <2>1. disk = [id \in CacheIds |-> disk[id]] /\ \A id \in CacheIds : Genuine(disk[id])
    BY DEF KeptInv
  <2>a. DOMAIN disk = CacheIds
    BY <2>1
  <2>2. disk' = [id \in CacheIds |-> IF id = Current.id THEN d ELSE disk[id]]
    BY <2>a
  <2> QED
    BY <2>1, <2>2
<1>8. lockFile' \in Locks /\ phase' \in {"fetch", "verify"}
  BY DEF KeptInv
<1>9. Len(results') <= Len(q)
  BY <1>1, <1>3, <1>4
<1> QED
  BY <1>1, <1>2, <1>3, <1>6, <1>7, <1>8, <1>9 DEF KeptInv

LEMMA TurnKeeps ==
  ASSUME KeptInv, FetchKept \/ FetchFails \/ FetchWithoutSdk \/ FetchArtifact \/ VerifySource
  PROVE  KeptInv'
<1> DEFINE s == Current
           d == disk[s.id]
<1>1. /\ phase \in {"fetch", "verify"} /\ Len(results) < Len(Sources) /\ UNCHANGED <<phase, lockFile>>
  BY DEF FetchKept, FetchFails, FetchWithoutSdk, FetchArtifact, VerifySource, MoreToDo, Result
<1>2. Proper(s) /\ s.id \in CacheIds
  <2>1. Usable(Sources) /\ Len(Sources) \in Nat /\ Len(results) \in Nat
        /\ \A k \in 1..Len(Sources) : Sources[k].id \in CacheIds
    BY <1>1, SourcesListed DEF KeptInv
  <2>2. Len(results) + 1 \in 1..Len(Sources)
    BY <1>1, <2>1
  <2> QED
    BY <2>1, <2>2 DEF Current, Usable
<1>3. disk = [id \in CacheIds |-> disk[id]] /\ Genuine(d)
  BY <1>2 DEF KeptInv
<1>4. Kept(s) = VerifyOne(s, Pin(s), d)
  BY DEF Kept
<1>5. Kept(s) \in {"missing", "verified", "invalid"}
  BY DEF Kept, VerifyOne
<1>6. Kept(s) = "verified" => HasLocked(s, d)
  BY <1>2, <1>3, <1>4, VerifiedHas
<1>7. disk = [disk EXCEPT ![s.id] = d]
  BY <1>3
<1> HIDE DEF s, d
<1>8. ASSUME NEW state, NEW failed, Result(state, 0, failed), UNCHANGED disk,
             state = "verified" => HasLocked(s, d), state # "fetched"
      PROVE  KeptInv'
  <2> DEFINE r == [id |-> s.id, state |-> state, given |-> 0]
  <2>1. results' = Append(results, r)
    BY <1>8 DEF Result, s
  <2>2. Serves(s, r, d)
    BY <1>2, <1>8 DEF Serves, Proper
  <2>3. disk' = [disk EXCEPT ![s.id] = d]
    BY <1>7, <1>8
  <2> HIDE DEF r
  <2> QED
    BY <1>1, <1>3, <2>1, <2>2, <2>3, ResultKeeps DEF s
<1>9. CASE FetchKept
  <2>1. Result("verified", 0, FALSE) /\ UNCHANGED disk /\ Kept(s) = "verified"
    BY <1>9 DEF FetchKept, s
  <2> QED
    BY <1>6, <1>8, <2>1
<1>10. CASE FetchFails
  <2>1. Result("error", 0, TRUE) /\ UNCHANGED disk
    BY <1>10 DEF FetchFails
  <2> QED
    BY <1>8, <2>1
<1>11. CASE FetchWithoutSdk
  <2>1. Result("external-sdk-not-installed", 0, s.required) /\ UNCHANGED disk
    BY <1>11 DEF FetchWithoutSdk, s
  <2> QED
    BY <1>8, <2>1
<1>12. CASE VerifySource
  <2>1. PICK failed : Result(Kept(s), 0, failed) /\ UNCHANGED disk
    BY <1>12 DEF VerifySource, s
  <2> QED
    BY <1>5, <1>6, <1>8, <2>1
<1>13. CASE FetchArtifact
  <2>1. PICK a \in Artifacts :
          /\ Result(Stage(s, a).state, a.id, Stage(s, a).state # "fetched")
          /\ IF Stage(s, a).state = "fetched"
               THEN disk' = [disk EXCEPT ![s.id] = Stage(s, a).files]
               ELSE UNCHANGED disk
    BY <1>13 DEF FetchArtifact, s
  <2> DEFINE r == [id |-> s.id, state |-> Stage(s, a).state, given |-> a.id]
  <2>2. results' = Append(results, r)
    BY <2>1 DEF Result, s
  <2>3. CASE Stage(s, a).state = "fetched"
    <3> DEFINE e == Stage(s, a).files
    <3>1. Genuine(e)
      BY StageIsGenuine
    <3>2. NamesManifest(s) \/ (a.id = s.artifact /\ HasLocked(s, e) /\ VerifyOne(s, a, e) = "verified")
      BY <1>2, <2>3, StageServes
    <3>3. a.id = s.artifact => Pin(s) = a
      BY PinIs
    <3>4. Serves(s, r, e)
      <4> HIDE DEF e
      <4> QED
        BY <2>3, <3>2, <3>3 DEF Serves
    <3>5. disk' = [disk EXCEPT ![s.id] = e]
      BY <2>1, <2>3
    <3> HIDE DEF r, e
    <3> QED
      BY <1>1, <2>2, <3>1, <3>4, <3>5, ResultKeeps DEF s
  <2>4. CASE Stage(s, a).state # "fetched"
    <3>1. Stage(s, a).state \in {"hash-mismatch", "error", "fetched"}
      BY DEF Stage
    <3>2. Stage(s, a).state = "error" /\ a.id = s.artifact => ~Apart(s) \/ ~Packed(s)
      BY <1>2, ApartIsStaged
    <3>3. Serves(s, r, d)
      BY <2>4, <3>1, <3>2 DEF Serves
    <3>4. disk' = [disk EXCEPT ![s.id] = d]
      BY <1>7, <2>1, <2>4
    <3> HIDE DEF r
    <3> QED
      BY <1>1, <1>3, <2>2, <3>3, <3>4, ResultKeeps DEF s
  <2> QED
    BY <2>3, <2>4
<1> QED
  BY <1>9, <1>10, <1>11, <1>12, <1>13

(* A lock is used only when it was accepted; the first lock and the one a  *)
(* review ends in are read with no results.                                *)
LEMMA OpenedIsUsable ==
  ASSUME KeptInv, Open \/ VisitRoot \/ VisitDependency \/ FinishVisit \/ Opened
  PROVE  KeptInv'
<1>1. /\ phase \in {"open", "visit"} /\ UNCHANGED <<lockFile, disk, results>>
  BY DEF Open, VisitRoot, VisitDependency, FinishVisit, Opened, kept
<1>2. Sources' = Sources
  BY <1>1 DEF Sources
<1>3. results = <<>>
  BY <1>1 DEF KeptInv
<1>4. phase' = "exit" \/ Usable(Sources)
  <2>1. CASE phase = "visit"
    BY <2>1 DEF KeptInv
  <2>2. CASE phase = "open"
    <3>1. Open
      BY <2>2 DEF VisitRoot, VisitDependency, FinishVisit, Opened
    <3>2. ValidateLock # "" => phase' = "exit"
      BY <3>1 DEF Open, Exit
    <3>3. ValidateLock = "" => Usable(Sources)
      BY AcceptedIsUsable DEF KeptInv
    <3> QED
      BY <3>2, <3>3
  <2> QED
    BY <1>1, <2>1, <2>2
<1> QED
  BY <1>1, <1>2, <1>3, <1>4 DEF KeptInv

LEMMA OthersKeepCache ==
  ASSUME KeptInv,
         \/ List \/ StartCache \/ Usage \/ StartUpdate \/ FinishCache
         \/ NoIndex \/ IndexUnavailable \/ ReadIndex \/ FinishUpdate
         \/ UNCHANGED toolVars
  PROVE  KeptInv'
<1>1. /\ UNCHANGED <<lockFile, disk, results>>
      /\ \/ phase' = phase \/ phase' = "exit"
         \/ phase = "ready" /\ phase' \in {"fetch", "verify", "update"}
  BY DEF List, StartCache, Usage, StartUpdate, FinishCache, NoIndex, IndexUnavailable, ReadIndex, Report,
         FinishUpdate, Exit, kept, toolVars
<1>2. Sources' = Sources
  BY <1>1 DEF Sources
<1>3. phase' \in {"open", "visit", "ready", "update"} => phase \in {"open", "visit", "ready", "update"}
  BY <1>1
<1>4. phase' \in {"visit", "ready", "update", "fetch", "verify"} => phase \in {"visit", "ready", "update", "fetch", "verify"}
  BY <1>1
<1> QED
  BY <1>1, <1>2, <1>3, <1>4 DEF KeptInv

(* Between two runs the lock is edited, and a file is damaged or removed.  *)
LEMMA RunAgainKeeps == KeptInv /\ RunAgain => KeptInv'
<1> SUFFICES ASSUME KeptInv, RunAgain PROVE KeptInv'
  OBVIOUS
<1>1. phase' = "open" /\ results' = <<>>
  BY DEF RunAgain
<1>2. lockFile' \in Locks
  <2>1. lockFile' = lockFile \/ \E R \in Revisions : lockFile' \in R
    BY DEF RunAgain
  <2> QED
    BY <2>1, LocksAssumption DEF KeptInv
<1>3. results' \in Seq(ToSet(results')) /\ Len(results') <= Len(Sources') /\ 1..Len(results') = {}
  <2>1. Sources' \in Seq(ToSet(Sources'))
    BY <1>2, LocksAssumption DEF Sources
  <2> QED
    BY <1>1, <2>1, NoResults
<1>4. disk' = [id \in CacheIds |-> disk'[id]] /\ \A id \in CacheIds : Genuine(disk'[id])
  <2>1. disk = [id \in CacheIds |-> disk[id]] /\ \A id \in CacheIds : Genuine(disk[id])
    BY DEF KeptInv
  <2>2. CASE UNCHANGED disk
    BY <2>1, <2>2
  <2>3. CASE Damage
    <3>1. PICK id \in CacheIds : \E p \in DOMAIN disk[id] :
            \/ disk' = [disk EXCEPT ![id] = Written(disk[id], p, <<"other">>)]
            \/ disk' = [disk EXCEPT ![id] = [q \in DOMAIN disk[id] \ {p} |-> disk[id][q]]]
      BY <2>3 DEF Damage
    <3>2. PICK d : Genuine(d) /\ disk' = [disk EXCEPT ![id] = d]
      BY <2>1, <3>1, DamageIsGenuine
    <3> QED
      BY <2>1, <3>2
  <2> QED
    BY <2>2, <2>3 DEF RunAgain
<1> QED
  BY <1>1, <1>2, <1>3, <1>4 DEF KeptInv

(***************************************************************************)
(* Whatever the locks and the artifacts, and however often the lock is     *)
(* edited and the cache damaged between the runs: a source reported as     *)
(* fetched or verified has the locked files of the pinned artifact         *)
(* (source.go:224-311, 352-453), what was fetched is verified from then    *)
(* on, and only names that cannot be kept refuse the pinned artifact.      *)
(***************************************************************************)
THEOREM CacheAlwaysServesLock == ToolSpec => []CacheServesLock
<1>1. KeptInv /\ [ToolNext]_toolVars => KeptInv'
  BY OpenedIsUsable, TurnKeeps, OthersKeepCache, RunAgainKeeps DEF ToolNext
<1>2. KeptInv => CacheServesLock
  BY DEF KeptInv, Serves, CacheServesLock, Kept
<1> QED
  BY KeptInvInit, <1>1, <1>2, PTL DEF ToolSpec
=============================================================================
