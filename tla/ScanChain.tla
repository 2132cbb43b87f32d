------------------------------ MODULE ScanChain ------------------------------
(***************************************************************************)
(* The hardware that CoverageScanChainPass generates for a design, as one  *)
(* flat chain of N counter registers, numbered from the front (fed with    *)
(* constant zero) to the back (the `out` port), clocked by the target and  *)
(* scanned out by the host.                                                *)
(*                                                                         *)
(* Every register is the one generateCounter builds: while `en` is low it  *)
(* counts its cover condition and saturates, while `en` is high it takes   *)
(* the value of the register before it.  How the registers of a hierarchy  *)
(* of modules become one chain is the subject of ScanChainDesign.          *)
(*                                                                         *)
(* The host that drives `en` and reads `out` is not part of this           *)
(* repository (it is FireSim's bridge widget); it is modelled from what    *)
(* CoverageScanChainInfo tells it.                                         *)
(***************************************************************************)
EXTENDS Naturals, Sequences

CONSTANTS
    N,           \* number of cover points, the length of the chain
    CounterMax,  \* 2^counterWidth - 1
    MaxEvents,   \* bounds the events of one cover point between two reports
    NoReport     \* the report before the first scan has completed

ASSUME ChainAssumption ==
    /\ N \in Nat \ {0}
    /\ CounterMax \in Nat \ {0}
    /\ MaxEvents \in Nat

VARIABLES
    reg,     \* reg[i] is the counter register of the i-th cover point
    read,    \* the values the host has read from `out` in the current scan
    report,  \* what the host made of the last complete scan
    events,  \* history: how often each point was really covered since then
    dirty    \* history: the host gave up on a scan since then

vars == <<reg, read, report, events, dirty>>

Points == 1 .. N

Reports == [counts : [Points -> 0 .. CounterMax],
            events : [Points -> Nat], clean : BOOLEAN]

ASSUME NoReportAssumption == NoReport \notin Reports

Scanning == read /= <<>>

------------------------------------------------------------------------------
\* The low counterWidth bits of a sum that is one bit wider (Builder.add).
LowBits(sum) == IF sum > CounterMax THEN sum - (CounterMax + 1) ELSE sum

\* Mutated form: the overflow check forgotten.
NeverOverflows(value) == FALSE

\* reduceAnd: all bits of the counter are set.
WillOverflow(value) == value = CounterMax

\* Mutated form: neither saturated nor truncated.
IncrementedUnbounded(value, covered) == value + IF covered THEN 1 ELSE 0

\* The mux of generateCounter with the chain disabled.
Incremented(value, covered) ==
    IF WillOverflow(value) THEN value
    ELSE LowBits(value + IF covered THEN 1 ELSE 0)

\* Mutated form: the chain is a ring.
PrevRing(i) == IF i = 1 THEN reg[N] ELSE reg[i - 1]

\* What feeds register i: the constant zero or the register before it.
Prev(i) == IF i = 1 THEN 0 ELSE reg[i - 1]

\* Mutated form: the list of cover points read from the wrong end.
AttributedForwards(values) == [i \in Points |-> values[i]]

\* How the host names the values of a scan: `covers` lists the cover points
\* from the last to be scanned out to the first to be scanned out.
Attributed(values) == [i \in Points |-> values[N + 1 - i]]

------------------------------------------------------------------------------
Init ==
    /\ reg = [i \in Points |-> 0]
    /\ read = <<>>
    /\ report = NoReport
    /\ events = [i \in Points |-> 0]
    /\ dirty = FALSE

\* A target cycle with `en` low: the points in hit are covered.
CountCycle(hit) ==
    /\ ~Scanning
    /\ \A i \in hit : events[i] < MaxEvents
    /\ reg' = [i \in Points |-> Incremented(reg[i], i \in hit)]
    /\ events' = [i \in Points |-> events[i] + IF i \in hit THEN 1 ELSE 0]
    /\ UNCHANGED <<read, report, dirty>>

\* A target cycle with `en` high.  What is covered in it is not counted.
Shift == reg' = [i \in Points |-> Prev(i)]

ShiftCycle ==
    /\ Len(read) + 1 < N
    /\ Shift
    /\ read' = Append(read, reg[N])
    /\ UNCHANGED <<report, events, dirty>>

\* The last cycle of a scan: the host lowers `en` after it.
LastShiftCycle ==
    /\ Len(read) + 1 = N
    /\ Shift
    /\ read' = <<>>
    /\ report' = [counts |-> Attributed(Append(read, reg[N])),
                  events |-> events, clean |-> ~dirty]
    /\ events' = [i \in Points |-> 0]
    /\ dirty' = FALSE

\* The host lowers `en` before it has read all N values.
Abort ==
    /\ Scanning
    /\ read' = <<>>
    /\ dirty' = TRUE
    /\ UNCHANGED <<reg, report, events>>

Next ==
    \/ \E hit \in SUBSET Points : CountCycle(hit)
    \/ ShiftCycle
    \/ LastShiftCycle

\* A host that completes every scan it starts.
Spec == Init /\ [][Next]_vars

\* A host that may also lower `en` in the middle of a scan.
AbortSpec == Init /\ [][Next \/ Abort]_vars

------------------------------------------------------------------------------
Saturated(n) == IF n > CounterMax THEN CounterMax ELSE n

TypeOK ==
    /\ reg \in [Points -> 0 .. CounterMax]
    /\ read \in Seq(0 .. CounterMax)
    /\ Len(read) < N
    /\ report \in Reports \cup {NoReport}
    /\ events \in [Points -> Nat]
    /\ dirty \in BOOLEAN

(***************************************************************************)
(* The counts at the start of the current scan, put together again from    *)
(* what the host has read and from what is still in the chain: after k     *)
(* shifts the value of point i is in register i + k, or read.              *)
(***************************************************************************)
Captured ==
    [i \in Points |-> IF i + Len(read) <= N THEN reg[i + Len(read)]
                                            ELSE read[N + 1 - i]]

\* A register holds the saturated number of events of its point, wherever
\* the running scan has moved that value to, unless a scan was abandoned.
CountsInPlace ==
    ~dirty => Captured = [i \in Points |-> Saturated(events[i])]

\* The registers a scan has already emptied hold the zeros shifted in from
\* the front, whatever was in the chain before.
ZerosBehind == \A i \in 1 .. Len(read) : reg[i] = 0

\* "Turns cover points into saturating hardware counters and builds a scan
\* chain": the host gets, for each point by name, how often it was covered
\* since the previous report, saturated; counts never move to another point.
ReportExact ==
    report /= NoReport /\ report.clean
        => report.counts = [i \in Points |-> Saturated(report.events[i])]

\* One complete scan recovers a chain that abandoned scans left shifted: the
\* step that reports leaves every counter at zero, so that the next report
\* is exact again.
ScanClears ==
    [][LastShiftCycle => reg' = [i \in Points |-> 0] /\ ~dirty']_vars

------------------------------------------------------------------------------
\* The chain as one atomic readout of saturating counters.
Counters == INSTANCE CoverCounters WITH
    count  <- Captured,
    report <- IF report = NoReport THEN NoReport ELSE report.counts

(***************************************************************************)
(* A chain that is read one register per cycle behaves like atomic         *)
(* counters: every step is one of theirs or invisible, also with what an   *)
(* abandoned scan left in the chain; only giving up a scan, which leaves   *)
(* counts in the registers of other points, is not.  A host that completes *)
(* its scans sees Counters!Spec itself (ScanChainProofs).                  *)
(***************************************************************************)
ImplementsCounters ==
    Counters!Init /\ [][Counters!Next \/ Abort]_(Counters!vars)
==============================================================================
