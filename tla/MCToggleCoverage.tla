--------------------------- MODULE MCToggleCoverage ---------------------------
(***************************************************************************)
(* ToggleCoverage for a leaf with a register, a wire and two outputs in a  *)
(* module that is instantiated twice, also with the leaf directly in the   *)
(* main module, with modules that are ignored, and some without a clock;   *)
(* and for three leaf modules (a wire, a wire with two ends, a register)   *)
(* below a module with two and a main module with three instances, which   *)
(* are connected in many ways and of which only the aliases are computed.  *)
(***************************************************************************)
EXTENDS ToggleCoverage

In == <<"i">>
Out == <<"o">>
Out2 == <<"q">>
Reg == <<"r">>
Wire == <<"w">>
Port(i, p) == <<i>> \o p

Leaf ==
    [ports |-> {In, Out, Out2}, regs |-> {Reg},
     drivers |-> Wire :> In @@ Out :> Wire @@ Reg :> In @@ Out2 :> Reg,
     instances |-> <<>>, clock |-> TRUE, ignored |-> FALSE, ext |-> FALSE]

Box == [ports |-> {Out}, regs |-> {}, drivers |-> <<>>, instances |-> <<>>,
        clock |-> FALSE, ignored |-> FALSE, ext |-> TRUE]

Middle(clock, ignored) ==
    {[ports |-> {In, Out}, regs |-> {},
      drivers |-> Port("a", In) :> In @@ Out :> o,
      instances |-> "a" :> 1, clock |-> clock, ignored |-> ignored, ext |-> FALSE] :
        o \in {Port("a", Out), Port("a", Out2)}}

Top(second, clock, ignored) ==
    {[ports |-> {In, Out}, regs |-> {},
      drivers |-> Port("a", In) :> In @@ Port("b", In) :> b @@ Out :> Port("b", Out),
      instances |-> "a" :> 3 @@ "b" :> second @@ "x" :> 2,
      clock |-> clock, ignored |-> ignored, ext |-> FALSE] :
        b \in {In, Port("a", Out), Port("x", Out)}}

ToggleDesigns ==
    {<<Leaf, Box, mid, top>> :
        mid \in Middle(TRUE, FALSE) \cup Middle(TRUE, TRUE) \cup Middle(FALSE, FALSE),
        top \in Top(1, TRUE, FALSE) \cup Top(3, TRUE, FALSE) \cup Top(3, TRUE, TRUE)
                    \cup Top(1, TRUE, TRUE)}

------------------------------------------------------------------------------
\* Designs for the alias analysis alone: none of the modules is covered.
Uncovered(ports, regs, drivers, instances) ==
    [ports |-> ports, regs |-> regs, drivers |-> drivers, instances |-> instances,
     clock |-> TRUE, ignored |-> TRUE, ext |-> FALSE]

Nothing == <<>>

\* Drivers without those that are nothing.
Driven(f) == Restrict(f, {s \in DOMAIN f : f[s] /= Nothing})

Pass == Uncovered({In, Out}, {}, Out :> In, <<>>)

Fan == Uncovered({In, Out, Out2}, {}, Out :> In @@ Out2 :> In, <<>>)

Pipe == Uncovered({In, Out}, {Reg}, Reg :> In @@ Out :> Reg, <<>>)

\* Every instance is driven by the input or by an instance before it.
TwoOf(first, second) ==
    {Uncovered({In, Out}, {},
               Port("a", In) :> In @@ Port("b", In) :> b @@ Out :> o,
               "a" :> first @@ "b" :> second) :
        b \in {In, Port("a", Out)},
        o \in {In, Port("a", Out), Port("b", Out)}}

ThreeOf(m1, m2, m3) ==
    {Uncovered({In, Out}, {},
               Driven(Port("a", In) :> In @@ Port("b", In) :> b
                      @@ Port("c", In) :> c @@ Out :> Port("c", Out)),
               "a" :> m1 @@ "b" :> m2 @@ "c" :> m3) :
        b \in {Nothing, In, Port("a", Out)},
        c \in {Port("a", Out), Port("b", Out)}}

AliasDesigns ==
    {<<Pass, Fan, Pipe>> \o <<mid, top>> : mid \in TwoOf(1, 1), top \in ThreeOf(1, 1, 4)}
    \cup {<<Pass, Fan, Pipe>> \o <<mid, top>> :
              mid \in TwoOf(1, 3), top \in ThreeOf(1, 2, 4)}

MCDesigns == ToggleDesigns \cup AliasDesigns
==============================================================================
