------------------------------ MODULE MCSources ------------------------------
(***************************************************************************)
(* The locked sources.  SourceCache: two fetchers, with faults and         *)
(* without.  SourceTool on small locks: every dependency graph of three    *)
(* sources, one lock for each check of validateLock, and locks whose pins  *)
(* are asked for updates against every version list of up to two versions, *)
(* and of three over four of them; locks whose sources are fetched and     *)
(* verified, edited and damaged over and over.  The two share no state: a  *)
(* behaviour is one of the fetchers beside an open tool, or one of the     *)
(* tool beside fetchers that have not begun.                               *)
(***************************************************************************)
EXTENDS SourceCache, SourceTool

CONSTANTS f1, f2

MCFetchers == {f1, f2}

Word(raw, lower) == [raw |-> raw, lower |-> lower, digits |-> FALSE, signed |-> FALSE,
                     n |-> 0, ascii |-> TRUE]
Digits(raw, n) == [raw |-> raw, lower |-> raw, digits |-> TRUE, signed |-> FALSE,
                   n |-> n, ascii |-> TRUE]

\* Byte order: '-' before the digits, the digits before 'A'..'Z', those before
\* 'a'..'z'; the text "10" is before the text "2".
Alpha == Word(40, 40)
Beta == Word(45, 45)
UpperBeta == Word(25, 45)
Ten == Digits(11, 10)
Two == Digits(12, 2)
Huge == Digits(13, 99)
Minus == [Word(5, 5) EXCEPT !.signed = TRUE, !.n = -1]
Space == [Word(60, 60) EXCEPT !.ascii = FALSE]
Empty == [Word(0, 0) EXCEPT !.ascii = FALSE]

\* A name of one spelling, and the others a lock may have.
Name(path) == [key |-> path, clean |-> path, path |-> path, dots |-> FALSE]
A == Name(<<"lib", "a">>)
B == Name(<<"b">>)
UpperB == [Name(<<"B">>) EXCEPT !.path = <<"b">>]
DotB == [B EXCEPT !.key = <<".", "b">>]
UnderB == Name(<<"b", "c">>)
Dots == [Name(<<"a..b">>) EXCEPT !.dots = TRUE]
Parent == [Name(<<"..">>) EXCEPT !.dots = TRUE]
Refused == [Name(<<"..", "x">>) EXCEPT !.clean = <<>>, !.dots = TRUE]
Broken == Name(<<"broken">>)
Big == Name(<<"big">>)
Twice == Name(<<"twice">>)
Nowhere == Name(<<"nowhere">>)

Member(name, content) == [name |-> name, content |-> content, big |-> FALSE, broken |-> FALSE]
Package(id, package, entries) == [id |-> id, package |-> package, zip |-> TRUE, entries |-> entries]
File(id, package) == [Package(id, package, <<>>) EXCEPT !.zip = FALSE]

MCArtifacts ==
    {Package(1, "q", <<Member(A, 1), Member(B, 2)>>), Package(2, "q", <<Member(B, 2), Member(Nowhere, 5), Member(A, 3)>>),
     Package(3, "r", <<Member(B, 1), Member(UpperB, 2), Member(UnderB, 3), Member(Dots, 4),
                   Member(Name(ManifestFile), 5), Member(Name(PackageFile), 6),
                   Member(Name(ManifestFile \o <<"x">>), 7), Member(Name(PackageFile \o <<"x">>), 8),
                   [Member(Broken, 9) EXCEPT !.broken = TRUE], [Member(Big, 10) EXCEPT !.big = TRUE],
                   Member(Twice, 11), Member(Twice, 12)>>),
     File(4, "r"), File(5, "s"), File(6, "s")}

V(core, pre) == [core |-> core, pre |-> pre, meta |-> TRUE]

Stable == {V(<<1>>, <<>>), V(<<1, 0>>, <<>>), V(<<1, 2>>, <<>>)}
Prereleases == {V(<<1>>, p) : p \in {<<Alpha>>, <<Beta>>, <<UpperBeta>>, <<Alpha, Two>>, <<Alpha, Ten>>,
                                     <<Alpha, Huge>>, <<Alpha, Minus>>}}
                 \cup {V(<<1, 3>>, <<Alpha>>)}
Invalid == {V(<<1, 9>>, <<>>), V(<<-1>>, <<>>), V(<<1>>, <<Space>>), V(<<1>>, <<Empty>>),
            V(<<1, 0, 0, 0, 0>>, <<>>), [V(<<1>>, <<>>) EXCEPT !.meta = FALSE]}

MCAnswers ==
    {<<>>} \cup [1..1 -> Stable \cup Prereleases \cup Invalid] \cup [1..2 -> Stable \cup Prereleases]
       \cup {<<v, w>> : v \in {V(<<1, 2>>, <<>>)}, w \in Invalid}
       \cup [1..3 -> {V(<<1>>, <<>>), V(<<1, 2>>, <<>>), V(<<1>>, <<Alpha>>), V(<<1>>, <<Alpha, Ten>>)}]

Source(id, version, dependsOn) ==
    [id |-> id, complete |-> TRUE, hash |-> TRUE, retrieval |-> "nuget", package |-> "p",
     locator |-> [exact |-> TRUE, parts |-> 3, package |-> "p", version |-> version, metadata |-> FALSE],
     version |-> version, architectures |-> <<"amd64", "x386">>, files |-> <<A, B>>,
     dependsOn |-> dependsOn, artifact |-> 1, required |-> TRUE]

On(id) == [id |-> id, pinned |-> FALSE, exact |-> TRUE]
Pinned(exact) == [id |-> 9, pinned |-> TRUE, exact |-> exact]

Lock(q) == [schema |-> 1, sources |-> q]
One == V(<<1>>, <<>>)
Good == Source(1, One, <<>>)

Depends(id) ==
    LET others == {On(j) : j \in (1..3) \ {id}}
    IN  {<<>>, <<Pinned(TRUE)>>} \cup {<<d>> : d \in others}
          \cup {q \in [1..2 -> others] : q[1] # q[2]} \cup {<<Pinned(TRUE), d>> : d \in others}

Unindexed(id, dependsOn) == [Source(id, One, dependsOn) EXCEPT !.retrieval = "https"]

Graphs == {Lock(<<Unindexed(2, a), Unindexed(3, b), Unindexed(1, c)>>) :
             a \in Depends(2), b \in Depends(3), c \in Depends(1)}

Faulty ==
    {[Lock(<<Good>>) EXCEPT !.schema = 2], Lock(<<>>), Lock(<<Good, Good>>)} \cup
    {Lock(<<Good, s>>) :
        s \in {[Source(2, One, <<>>) EXCEPT !.complete = FALSE],
               [Source(2, One, <<>>) EXCEPT !.hash = FALSE],
               [Source(2, One, <<>>) EXCEPT !.retrieval = "http"],
               [Source(2, One, <<>>) EXCEPT !.locator.package = "q"],
               [Source(2, One, <<>>) EXCEPT !.locator.version = V(<<1, 1>>, <<>>)],
               [Source(2, One, <<>>) EXCEPT !.retrieval = "sdk"],
               [Source(2, One, <<>>) EXCEPT !.architectures = <<"amd64", "amd64">>],
               [Source(2, One, <<>>) EXCEPT !.files = <<A, Refused>>],
               [Source(2, One, <<>>) EXCEPT !.files = <<B, DotB>>],
               Source(2, One, <<On(2)>>), Source(2, One, <<On(0)>>), Source(2, One, <<On(7)>>),
               Source(2, One, <<On(1), On(1)>>), Source(2, One, <<Pinned(FALSE)>>)}}

Pins ==
    {Lock(<<Source(2, v, <<>>)>>) : v \in Stable \cup Prereleases} \cup
    {Lock(<<[Source(2, One, <<>>) EXCEPT !.retrieval = "https"], Source(1, v, <<>>)>>) :
        v \in {V(<<1>>, <<Alpha>>), One}} \cup
    {Lock(<<Source(2, V(<<1>>, <<Alpha>>), <<>>), Source(1, One, <<>>)>>)}

\* The cache: a source whose pin and files are edited, one whose names are
\* hard to keep, an SDK file, and a required source beside an optional SDK.
Cached(package, artifact, files) ==
    [Source(1, One, <<>>) EXCEPT !.retrieval = "https", !.package = package, !.artifact = artifact, !.files = files]

Edited == {[Cached("q", x[1], x[2]) EXCEPT !.version = x[3]] :
             x \in {<<1, <<A>>, One>>, <<1, <<B, A>>, One>>, <<1, <<B, Nowhere>>, One>>,
                    <<2, <<B, A>>, One>>, <<2, <<B, A>>, V(<<1, 2>>, <<>>)>>, <<2, <<B, Nowhere>>, One>>}}

Named == {Cached("r", 3, f) :
            f \in {<<B>>, <<UpperB, B>>, <<B, UnderB>>, <<Dots>>, <<Parent>>, <<DotB>>, <<Broken>>, <<B, Big>>, <<Twice>>,
                   <<Name(ManifestFile)>>, <<Name(PackageFile)>>,
                   <<B, Name(ManifestFile \o <<"x">>)>>, <<Name(PackageFile \o <<"x">>)>>}}
         \cup {Cached("r", 4, <<B>>)}

Sdk == {[Cached("s", 5, f) EXCEPT !.retrieval = "sdk", !.required = q] :
          q \in BOOLEAN, f \in {<<B>>, <<A>>, <<Parent>>, <<Name(SdkFile)>>, <<Name(ManifestFile)>>}}

MCRevisions ==
    {{Lock(<<s>>) : s \in Edited}, {Lock(<<s>>) : s \in Named}, {Lock(<<s>>) : s \in Sdk},
     {Lock(<<Cached("q", 1, <<A>>), [Cached("s", a, <<B>>) EXCEPT !.id = 2, !.retrieval = "sdk", !.required = FALSE]>>) :
        a \in {5, 6}}}

MCLocks == Graphs \cup Faulty \cup Pins \cup UNION MCRevisions

MCInit ==
    /\ Init /\ ToolInit
    /\ \/ lockFile = Lock(<<>>)
       \/ active = Fetchers /\ faulty

ToolUnused == lockFile = Lock(<<>>) /\ phase = "open"
NobodyFetches ==
    /\ active = Fetchers /\ faulty /\ lock = 1
    /\ \A f \in Fetchers : pc[f] = "idle" /\ result[f] = "none"

FetcherStep == ToolUnused /\ Next /\ UNCHANGED toolVars
ToolStep == NobodyFetches /\ ToolNext /\ UNCHANGED vars

MCSpec ==
    /\ MCInit
    /\ [][FetcherStep \/ ToolStep]_<<vars, toolVars>>
    /\ \A f \in Fetchers : WF_vars(Runs(f))
=============================================================================
