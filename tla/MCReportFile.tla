---------------------------- MODULE MCReportFile ----------------------------
(***************************************************************************)
(* The reports of a checkout.  ReportFile: one writer with faults, two or  *)
(* three without.  CoverageGate: inventories of four or five symbols of at *)
(* most two classes, with percentages shown in two steps, so that          *)
(* fractions that differ can look the same.  What a report says and how it *)
(* is written share no state, so the gate is explored while nobody writes, *)
(* and the writers while no generation has been.                           *)
(***************************************************************************)
EXTENDS ReportFile, CoverageGate

CONSTANTS w1, w2, w3, r1, r2, r3

MCThree   == {w1, w2, w3}
MCReports == {r1, r2, r3}
MCBoth    == {TRUE, FALSE}

Class(status, verified, runtime, fixture) ==
    [id |-> 0, status |-> status, verified |-> verified, runtime |-> runtime, fixture |-> fixture,
     override |-> status = "typeOnly",
     architectures |-> IF status = "unsupported" THEN {"amd64", "arm64"} ELSE {"amd64"}]

Classes ==
    {Class("purego", TRUE, TRUE, FALSE), Class("assembly", FALSE, FALSE, FALSE),
     Class("bridge", TRUE, FALSE, FALSE), Class("bridge", FALSE, FALSE, FALSE),
     Class("typeOnly", FALSE, FALSE, FALSE), Class("unsupported", FALSE, FALSE, FALSE),
     Class("purego", FALSE, FALSE, TRUE)}

Pairs == {{"unsupported", "purego"}, {"unsupported", "assembly"}, {"unsupported", "bridge"},
          {"unsupported", "typeOnly"}, {"bridge"}, {"purego"}}

\* The first n symbols of a class.
First(c, n) == {[c EXCEPT !.id = i] : i \in 1..n}

MCInventories ==
    UNION {{First(c, n) \cup First(d, 5 - n) : n \in 1..4} \cup {First(c, 4)} :
              <<c, d>> \in {pair \in Classes \X Classes :
                              \E P \in Pairs : {pair[1].status, pair[2].status} \subseteq P}}

NobodyWrites ==
    /\ active = Writers /\ path = Absent
    /\ \A w \in Writers : pc[w] = "idle" /\ result[w] = "none" /\ data[w] = r1
NothingGenerated == latest = NoFile /\ baseline = NoFile /\ gate = "none"

WriterStep == NothingGenerated /\ Next /\ UNCHANGED gateVars
GateStep == NobodyWrites /\ GateNext /\ UNCHANGED vars

MCInit == Init /\ GateInit

MCSpec == MCInit /\ [][WriterStep \/ GateStep]_<<vars, gateVars>>
=============================================================================
