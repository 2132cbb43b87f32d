---------------------------- MODULE MCFsmCoverage ----------------------------
(***************************************************************************)
(* FsmCoverage for all machines of a family of next-state expressions: a   *)
(* multiplexer of two leaves, or of a leaf and another multiplexer; the    *)
(* former also without a reset.                                            *)
(***************************************************************************)
EXTENDS FsmCoverage

Analysis == INSTANCE FsmAnalysis

MCStates == {0, 1, 3}

Leaves == {<<"lit", v>> : v \in {0, 1}} \cup {<<"self">>, <<"data">>}

Conditions == {<<"eq", 0>>, <<"free">>, <<"and", 1>>}

Flat == {<<"mux", c, t, f>> : c \in Conditions, t \in Leaves, f \in Leaves}

Nested == {<<"mux", c, t, f>> :
              c \in Conditions, t \in Flat, f \in {<<"self">>, <<"lit", 3>>}}

Machine(e, hasReset) == [hasReset |-> hasReset, start |-> 0, steps |-> Analysis!Steps(e),
                         transitions |-> Analysis!Transitions(e)]

MCFsms == {Machine(e, TRUE) : e \in Flat \cup Nested}
              \cup {Machine(e, FALSE) : e \in Flat}
==============================================================================
