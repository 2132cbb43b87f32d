---------------------------- MODULE CoverCounters ----------------------------
(***************************************************************************)
(* What the coverage scan chain promises to the host: one saturating       *)
(* counter per cover point, and a readout that reports every counter and   *)
(* clears it in one step.  ScanChain implements this module.               *)
(***************************************************************************)
EXTENDS Naturals

CONSTANTS
    Points,      \* the cover points of the design
    CounterMax,  \* the largest value of a counter, 2^counterWidth - 1
    NoReport     \* the report before the first readout

VARIABLES
    count,       \* what each cover point has counted since the last readout
    report       \* the counts the host got from its last readout

vars == <<count, report>>

Saturated(n) == IF n > CounterMax THEN CounterMax ELSE n

Init ==
    /\ count = [p \in Points |-> 0]
    /\ report = NoReport

\* One target cycle in which exactly the cover points of hit are covered.
Count(hit) ==
    /\ count' = [p \in Points |->
                    Saturated(count[p] + IF p \in hit THEN 1 ELSE 0)]
    /\ UNCHANGED report

Readout ==
    /\ report' = count
    /\ count' = [p \in Points |-> 0]

Next == Readout \/ \E hit \in SUBSET Points : Count(hit)

Spec == Init /\ [][Next]_vars
==============================================================================
