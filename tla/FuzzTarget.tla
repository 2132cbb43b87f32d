----------------------------- MODULE FuzzTarget ------------------------------
(***************************************************************************)
(* The simulator that runs one fuzzer input after the other without ever   *)
(* being restarted: FuzzTarget with the RFUZZ harness, on a design that    *)
(* MetaResetPass, AssertSignalPass and MuxToggleCoverage have instrumented.*)
(*                                                                         *)
(* The design has a register, one bit of memory and one multiplexer        *)
(* condition; its combinational functions of (register, memory, input) are *)
(* tables.  A fuzzer input is a sequence of words, each of which drives    *)
(* the input pins for one cycle, and perhaps bytes too few for a word.     *)
(***************************************************************************)
EXTENDS Integers, Sequences, FiniteSets

CONSTANTS
    Designs,      \* next, init, cond, fail, write: see DesignOK
    Inputs,       \* what AFL may write: records of words and tail
    FeedbackCap,
    MaxRuns

Bit == {0, 1}
Table == [Bit \X Bit \X Bit -> Bit]

ASSUME FuzzTargetAssumption ==
    /\ Designs \subseteq [next : Table, init : Bit, cond : Table,
                          fail : Table, write : Table]
    /\ Inputs \subseteq [words : Seq(Bit), tail : BOOLEAN]
    /\ Inputs /= {}    \* the seed
    /\ FeedbackCap \in Nat /\ MaxRuns \in Nat

VARIABLES
    design,
    fullToggle,    \* MuxToggleOpAnnotation
    metaCovers,    \* MetaResetPass ran after MuxToggleCoverage: no pass says
    reg, mem,      \* the state of the design
    prevReset, prevCond, toggleStore,   \* the registers of the coverage
    count,         \* the cover point's counter in the simulator
    isValid,
    phase, input,  \* where run() is, and what is left of its input
    results        \* history: what the runs so far have returned

config == <<design, fullToggle, metaCovers>>
hardware == <<reg, mem, prevReset, prevCond, toggleStore>>
vars == <<config, hardware, count, isValid, phase, input, results>>

------------------------------------------------------------------------------
\* toByte of a Scala Long.
ToByte(n) == LET low == n % 256 IN IF low < 128 THEN low ELSE low - 256

\* getCoverage
Coverage(n) == ToByte(IF n < FeedbackCap THEN n ELSE FeedbackCap)

\* pop(): bytes too few for a word end the input.
Words(i) == i.words

\* Mutated form: only the reset itself is ignored, not the cycle after it.
ToggledAfterReset(cond, reset) == cond /= prevCond /\ reset = 0

\* toggleNoReset
Toggled(cond, reset) == cond /= prevCond /\ reset = 0 /\ prevReset = 0

\* What the cover statement sees: a toggle, or every second toggle.
Covered(toggled) == toggled /\ (fullToggle => toggleStore = 1)

\* The coverage registers are in the reach of the meta reset only if they
\* were there when MetaResetPass looked for registers.
Cleared(metaReset, value) == IF metaReset = 1 /\ metaCovers THEN 0 ELSE value

Cond(pins) == design.cond[<<reg, mem, pins>>]

\* One clock cycle of the instrumented design.  Memory has no reset.
Clock(metaReset, reset, pins) ==
    LET at == <<reg, mem, pins>>
        toggled == Toggled(Cond(pins), reset)
    IN /\ reg' = IF metaReset = 1 THEN 0
                 ELSE IF reset = 1 THEN design.init ELSE design.next[at]
       /\ mem' = IF design.write[at] = 1 THEN pins ELSE mem
       /\ prevReset' = Cleared(metaReset, reset)
       /\ prevCond' = Cleared(metaReset, Cond(pins))
       /\ toggleStore' = Cleared(metaReset,
              IF toggled THEN 1 - toggleStore ELSE toggleStore)

\* step(): the assertions are looked at before the clock edge.
StillValid(pins) == isValid /\ design.fail[<<reg, mem, pins>>] = 0

Counted(reset, pins) ==
    count + IF Covered(Toggled(Cond(pins), reset)) THEN 1 ELSE 0

------------------------------------------------------------------------------
\* Treadle starts with all state at zero.
Init ==
    /\ design \in Designs
    /\ fullToggle \in BOOLEAN /\ metaCovers \in BOOLEAN
    /\ reg = 0 /\ mem = 0
    /\ prevReset = 0 /\ prevCond = 0 /\ toggleStore = 0
    /\ count = 0 /\ isValid = TRUE
    /\ phase = "idle" /\ input = <<>>
    /\ results = <<>>

\* run(): all inputs to zero, and the meta reset for one cycle.
MetaReset ==
    /\ phase = "idle" /\ Len(results) < MaxRuns
    /\ \E i \in Inputs :
           /\ input' = Words(i)
           /\ results' = Append(results, [words |-> i.words])
    /\ Clock(1, 0, 0)
    /\ count' = Counted(0, 0)
    /\ isValid' = StillValid(0)
    /\ phase' = "reset"
    /\ UNCHANGED config

\* Mutated form: the coverage of the resets and of earlier runs is kept.
ResetKeepingCoverage ==
    /\ phase = "reset"
    /\ Clock(0, 1, 0)
    /\ count' = Counted(1, 0)
    /\ isValid' = TRUE
    /\ phase' = "run"
    /\ UNCHANGED <<config, input, results>>

\* The reset for one cycle; what was covered or failed up to now is forgotten.
Reset ==
    /\ phase = "reset"
    /\ Clock(0, 1, 0)
    /\ count' = 0
    /\ isValid' = TRUE
    /\ phase' = "run"
    /\ UNCHANGED <<config, input, results>>

\* The harness drives the input pins with the next word, and one cycle.
Step ==
    /\ phase = "run" /\ input /= <<>>
    /\ Clock(0, 0, Head(input))
    /\ count' = Counted(0, Head(input))
    /\ isValid' = StillValid(Head(input))
    /\ input' = Tail(input)
    /\ UNCHANGED <<config, phase, results>>

\* The harness is done.  The coverage of an invalid input is not returned.
Return ==
    /\ phase = "run" /\ input = <<>>
    /\ results' = [results EXCEPT ![Len(results)] =
            [words |-> @.words, valid |-> isValid,
             coverage |-> IF isValid THEN Coverage(count) ELSE 0]]
    /\ phase' = "idle"
    /\ UNCHANGED <<config, hardware, count, isValid, input>>

Next == MetaReset \/ Reset \/ Step \/ Return

Spec == Init /\ [][Next]_vars

------------------------------------------------------------------------------
Returned == {k \in DOMAIN results : phase = "idle" \/ k < Len(results)}

TypeOK ==
    /\ design \in Designs /\ fullToggle \in BOOLEAN /\ metaCovers \in BOOLEAN
    /\ reg \in Bit /\ mem \in Bit
    /\ prevReset \in Bit /\ prevCond \in Bit /\ toggleStore \in Bit
    /\ \E i \in Inputs : count <= Len(i.words) + 1
    /\ isValid \in BOOLEAN
    /\ phase \in {"idle", "reset", "run"}
    /\ input \in Seq(Bit)
    /\ \A k \in Returned : results[k].coverage \in -128 .. 127

(***************************************************************************)
(* The state of the design before each word, when it is reset first and    *)
(* does not use its memory, and what a run should return for these words.  *)
(***************************************************************************)
Before(words) ==
    LET state[k \in 1 .. Len(words) + 1] ==
            IF k = 1 THEN design.init
            ELSE design.next[<<state[k - 1], 0, words[k - 1]>>]
    IN state

Expected(words) ==
    LET at(k) == <<Before(words)[k], 0, words[k]>>
        valid == \A k \in DOMAIN words : design.fail[at(k)] = 0
        toggles == Cardinality({k \in 2 .. Len(words) :
                        design.cond[at(k)] /= design.cond[at(k - 1)]})
        covered == IF fullToggle THEN toggles \div 2 ELSE toggles
    IN [words |-> words, valid |-> valid,
        coverage |-> IF valid THEN Coverage(covered) ELSE 0]

UsesMemory ==
    \E r \in Bit, pins \in Bit : \E table \in {design.next, design.cond, design.fail} :
        table[<<r, 0, pins>>] /= table[<<r, 1, pins>>]

\* "we only consider coverage _after_ the reset is done!": what an input
\* returns depends on its words alone and not on the inputs before it, or on
\* the resets - unless the design has a memory, or counts full toggles and
\* the meta reset does not reach the registers of the coverage.
RunsAreIndependent ==
    /\ TypeOK
    /\ ~UsesMemory /\ (fullToggle => metaCovers)
          => \A k \in Returned : results[k] = Expected(results[k].words)

==============================================================================
