----------------------------- MODULE FuzzServer ------------------------------
(***************************************************************************)
(* What the fuzzer expects of the program under test, however many         *)
(* processes stand between the two: it submits one input at a time, and    *)
(* every outcome it goes on with is that of the input it has submitted.    *)
(* The conversation may end at any time.  ForkServer implements this.      *)
(***************************************************************************)
EXTENDS Naturals

CONSTANTS
    MapSize,      \* the bytes of a trace
    MaxRuns,      \* the inputs are numbered 1 .. MaxRuns
    NoOutcome

VARIABLES
    covers,       \* the number of cover points of the design
    input,        \* the input submitted last
    outcome       \* what the fuzzer learned about it, if it was answered

vars == <<covers, input, outcome>>

\* The trace of input i.  Every byte of its coverage is i + 1, which stands
\* for whatever the design covers; the byte before them is always 1.
Trace(i) == [k \in 1 .. MapSize |->
                IF k = 1 THEN 1 ELSE IF k <= covers + 1 THEN i + 1 ELSE 0]

Init ==
    /\ covers \in Nat
    /\ input = 0
    /\ outcome = NoOutcome

\* Without an answer nothing is submitted; an input is submitted once.
Submit ==
    /\ input < MaxRuns
    /\ input > 0 => outcome /= NoOutcome
    /\ input' = input + 1
    /\ outcome' = NoOutcome
    /\ UNCHANGED covers

\* The target exits normally: a timeout is never reported as a fault.
Answer ==
    /\ input > 0
    /\ outcome = NoOutcome
    /\ outcome' = [trace |-> Trace(input), fault |-> "none"]
    /\ UNCHANGED <<covers, input>>

Next == Submit \/ Answer

Spec == Init /\ [][Next]_vars
==============================================================================
