----------------------------- MODULE FsmAnalysis -----------------------------
(***************************************************************************)
(* How FsmInfoPass finds the transitions of a finite state machine: for    *)
(* every state it puts that state into the next-state expression of the    *)
(* register, folds the conditions that become constant, and takes every    *)
(* branch of the others.                                                   *)
(*                                                                         *)
(* An expression is what remains after the references have been followed   *)
(* and the reset has been taken off:                                       *)
(*     <<"lit", v>>          a literal                                     *)
(*     <<"self">>            the state register                            *)
(*     <<"data">>            anything else, here an input port             *)
(*     <<"mux", c, t, f>>    a multiplexer                                 *)
(* and a condition is <<"eq", v>>, which compares the state with a literal,*)
(* <<"free">>, a Boolean input port, or <<"and", v>>, their conjunction,   *)
(* which stands for all the operators the constant propagation leaves.     *)
(***************************************************************************)
EXTENDS Naturals, Sequences, SequencesExt

CONSTANT States   \* the values of the enumeration

AllStates == SetToSortSeq(States, <)

\* Mutated form: conjunctions are folded, and to the wrong value.
PredicateFoldingAnd(c, from) ==
    IF c[1] \in {"eq", "and"} THEN IF c[2] = from THEN "one" ELSE "zero"
    ELSE "open"

\* simplify(condExpr): only a comparison of two literals is folded.
Predicate(c, from) ==
    IF c[1] = "eq" THEN IF c[2] = from THEN "one" ELSE "zero"
    ELSE "open"

RECURSIVE AnalyzeNext(_, _)
\* The states that may follow `from`, with repetitions: one entry for each
\* leaf of the expression that looks feasible.
AnalyzeNext(e, from) ==
    CASE e[1] = "lit" -> <<e[2]>>
      [] e[1] = "self" -> <<from>>
      [] e[1] = "data" -> AllStates
      [] e[1] = "mux" ->
            LET p == Predicate(e[2], from)
            IN (IF p = "zero" THEN <<>> ELSE AnalyzeNext(e[3], from))
               \o (IF p = "one" THEN <<>> ELSE AnalyzeNext(e[4], from))

\* analyzeFSM: the transitions of all states, in the order of the states.
Transitions(e) ==
    FlattenSeq([k \in DOMAIN AllStates |->
        LET to == AnalyzeNext(e, AllStates[k])
        IN [j \in DOMAIN to |-> <<AllStates[k], to[j]>>]])

------------------------------------------------------------------------------
Holds(c, state, free) ==
    CASE c[1] = "eq" -> state = c[2]
      [] c[1] = "free" -> free
      [] c[1] = "and" -> state = c[2] /\ free

RECURSIVE Value(_, _, _, _)
\* What the hardware computes: the value of an expression in a state, for one
\* value of each input port.
Value(e, state, free, data) ==
    CASE e[1] = "lit" -> e[2]
      [] e[1] = "self" -> state
      [] e[1] = "data" -> data
      [] e[1] = "mux" -> IF Holds(e[2], state, free)
                         THEN Value(e[3], state, free, data)
                         ELSE Value(e[4], state, free, data)

\* The transitions the hardware can really make.
Steps(e) == {<<s, Value(e, s, free, data)>> :
                s \in States, free \in BOOLEAN, data \in States}
==============================================================================
