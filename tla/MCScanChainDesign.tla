-------------------------- MODULE MCScanChainDesign --------------------------
(***************************************************************************)
(* All circuits of a main module "Top" with up to three statements and the *)
(* modules "A" and "B" with up to two, where A may instantiate B, and "Ext"*)
(* is an external module: repeated instances, nesting and empty modules.   *)
(***************************************************************************)
EXTENDS ScanChainDesign

Statements(S, n) == UNION {[1 .. k -> S] : k \in 0 .. n}

MCDesigns ==
    {[Top |-> t, A |-> a, B |-> b] :
        t \in Statements({"cover", "A", "B", "Ext"}, 3),
        a \in Statements({"cover", "B"}, 2),
        b \in Statements({"cover", "Ext"}, 2)}
==============================================================================
