----------------------------- MODULE FsmCoverage -----------------------------
(***************************************************************************)
(* The cover points and the two registers that FsmCoveragePass adds to a   *)
(* module with a finite state machine, running beside the machine.         *)
(*                                                                         *)
(* The registers have no initial value: at power-up they hold anything.    *)
(* The simulation starts with a cycle in reset, as all the harnesses of    *)
(* the repository do; but not every machine has a reset, and for one that  *)
(* has none the pass takes the constant false for it.                      *)
(***************************************************************************)
EXTENDS Integers, Sequences, FiniteSets, Functions

CONSTANTS
    States,     \* the values of the enumeration
    Fsms,       \* the machines: whether they have a reset, the state it sets,
                \* their steps, and the transitions announced
    MaxCycles   \* bounds the length of a simulation

ASSUME FsmAssumption ==
    /\ States \subseteq Nat /\ IsFiniteSet(States)
    /\ MaxCycles \in Nat
    /\ \A f \in Fsms :
           /\ f.hasReset \in BOOLEAN /\ f.start \in States
           /\ f.steps \subseteq States \X States
           /\ f.transitions \in Seq(States \X States)

VARIABLES
    fsm,              \* the machine that is simulated
    state,            \* its register
    prev,             \* <reg>_prev, the register with the previous state
    prevValid,        \* <reg>_prev_valid
    stateCount,       \* how often the cover point of each state was hit
    transitionCount,  \* the same for each transition announced
    history           \* the cycles so far: the state, and whether in reset

counters == <<stateCount, transitionCount>>
vars == <<fsm, state, prev, prevValid, counters, history>>

------------------------------------------------------------------------------
\* Mutated form: the state is also covered while in reset.
StateCoveredInReset(s, reset) == state = s

\* cover(inState(id)) with enable notReset
StateCovered(s, reset) == state = s /\ ~reset

\* Mutated form: the cycle after a reset is not left out.
TransitionCoveredAfterReset(t, reset) == prev = t[1] /\ state = t[2] /\ ~reset

\* cover(inPrevState(from) & inState(to)) with enable transitionValid
TransitionCovered(t, reset) ==
    /\ prev = t[1] /\ state = t[2]
    /\ ~reset /\ prevValid

\* Mutated form: a cover point that counts the clock edge twice.
HitTwice(covered) == IF covered THEN 2 ELSE 0

Hit(covered) == IF covered THEN 1 ELSE 0

Init ==
    /\ fsm \in Fsms
    /\ state \in States
    /\ prev \in States
    /\ prevValid \in BOOLEAN
    /\ stateCount = [s \in States |-> 0]
    /\ transitionCount = [k \in DOMAIN fsm.transitions |-> 0]
    /\ history = <<>>

\* One clock cycle: what is covered in it is counted, then the registers get
\* their next values.
Cycle(reset) ==
    /\ Len(history) < MaxCycles
    /\ reset => fsm.hasReset
    /\ history = <<>> /\ fsm.hasReset => reset
    /\ stateCount' = [s \in States |->
            stateCount[s] + Hit(StateCovered(s, reset))]
    /\ transitionCount' = [k \in DOMAIN fsm.transitions |->
            transitionCount[k]
            + Hit(TransitionCovered(fsm.transitions[k], reset))]
    /\ IF reset THEN state' = fsm.start
                ELSE \E step \in fsm.steps : step[1] = state /\ state' = step[2]
    /\ prev' = state
    /\ prevValid' = ~reset
    /\ history' = Append(history, [state |-> state, reset |-> reset])
    /\ UNCHANGED fsm

Next == \E reset \in BOOLEAN : Cycle(reset)

Spec == Init /\ [][Next]_vars

------------------------------------------------------------------------------
TypeOK ==
    /\ state \in States /\ prev \in States /\ prevValid \in BOOLEAN
    /\ stateCount \in [States -> 0 .. MaxCycles]
    /\ transitionCount \in [DOMAIN fsm.transitions -> 0 .. MaxCycles]
    /\ history \in Seq([state : States, reset : BOOLEAN])

Running(i) == ~history[i].reset

\* The cycles that end a transition: they and the cycle before are running.
TransitionCycles ==
    {i \in 2 .. Len(history) : Running(i - 1) /\ Running(i)}

Taken(i) == <<history[i - 1].state, history[i].state>>

Total(f) == FoldFunction(+, 0, f)

\* "We are in exactly one state each cycle!": the counts of the states add up
\* to the number of cycles that were not in reset, and every register of the
\* machine and of its coverage keeps its type.
StateCountsAddUp ==
    /\ TypeOK
    /\ Total(stateCount) = Cardinality({i \in DOMAIN history : Running(i)})

\* Every cover point of a transition has counted the times the machine took
\* that transition, also across resets in the middle of a simulation.  Without
\* a reset nothing says that there is no previous state in the first cycle, and
\* one transition into its state may be counted that nothing took.
TransitionCountsExact ==
    LET excess(k) ==
            transitionCount[k]
            - Cardinality({i \in TransitionCycles : Taken(i) = fsm.transitions[k]})
        wrong == {k \in DOMAIN fsm.transitions : excess(k) /= 0}
    IN /\ fsm.hasReset => wrong = {}
       /\ \A k, l \in wrong : /\ excess(k) = 1
                              /\ fsm.transitions[k] = fsm.transitions[l]
                              /\ fsm.transitions[k][2] = history[1].state

\* No transition that the machine takes was missed by the analysis.
TransitionsComplete ==
    \A i \in TransitionCycles :
        \E k \in DOMAIN fsm.transitions : fsm.transitions[k] = Taken(i)
==============================================================================
