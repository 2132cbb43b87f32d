----------------------------- MODULE MCAflQueue -----------------------------
(* Small targets for AflQueue. *)
EXTENDS AflQueue

CONSTANTS a, b, c, d

MCInputs == {a, b, c, d}
MCLength == (a :> 1) @@ (b :> 2) @@ (c :> 2) @@ (d :> 3)
MCCuts == (a :> {}) @@ (b :> {a}) @@ (c :> {a}) @@ (d :> {b, c})
MCSeeds == <<d>>

Maps(table) == [i \in MCInputs |-> {[n \in Bytes |-> t[n + 1]] : t \in table[i]}]

\* Every input has one trace.  Cutting d down to b makes no difference, which
\* cutting it down to c does; a and c hit the first byte more often than d, and
\* c one that d does not hit.
MCStable ==
    Maps((a :> {<<2, 0, 0>>}) @@ (b :> {<<1, 1, 0>>}) @@ (c :> {<<2, 0, 1>>})
             @@ (d :> {<<1, 1, 0>>}))

\* The input d does not always hit the same bytes.
MCVariable ==
    Maps((a :> {<<0, 0, 1>>}) @@ (b :> {<<0, 1, 0>>}) @@ (c :> {<<0, 0, 1>>})
             @@ (d :> {<<0, 0, 1>>, <<1, 1, 1>>}))

MCTargets == {MCStable, MCVariable}
==============================================================================
