---------------------------- MODULE MCCoverPoints -----------------------------
(***************************************************************************)
(* CoverPoints for a module with a when, instantiated at two depths, for   *)
(* a module with whens in whens and a ready/valid port, and for one that   *)
(* is excluded around one that is not.                                     *)
(***************************************************************************)
EXTENDS CoverPoints

Stmt(kind, line) == [kind |-> kind, line |-> line]
When(line, then, else) ==
    [kind |-> "when", line |-> line, then |-> then, else |-> else]

Module(instances, blocks, bundles) ==
    [instances |-> instances, blocks |-> blocks, bundles |-> bundles,
     clock |-> TRUE, ignored |-> FALSE]

Effect == Stmt("effect", 1)

\* A when whose else is empty.
Leaf == Module(<<>>,
    << <<Stmt("node", 1), When(2, 2, 3)>>, <<Stmt("effect", 3)>>, <<>> >>, {})

\* The effect is in a when in a when, next to blocks without any.
Nested == Module(<<>>,
    << <<When(1, 2, 3)>>, <<Stmt("node", 2), When(3, 4, 5)>>, <<Stmt("cover", 4)>>,
       <<Stmt("effect", 5)>>, <<Stmt("node", 6)>> >>, {2})

Around(instances) == Module(instances, << <<Effect>> >>, {})
Excluded(m) == [m EXCEPT !.ignored = TRUE]
Clockless(m) == [m EXCEPT !.clock = FALSE]

AllDesigns ==
    {<<Leaf, Around(<<1>>), Around(<<2, 1>>)>>,
     <<Nested, Excluded(Around(<<1>>))>>,
     <<Leaf, Clockless(Leaf), Around(<<1, 2>>)>>}
==============================================================================
