--------------------------- MODULE ScanChainDesign ---------------------------
(***************************************************************************)
(* How CoverageScanChainPass wires the counters of a hierarchy of modules  *)
(* into one chain, and what list of cover points it announces for it.      *)
(*                                                                         *)
(* The wiring is made module by module (insertChain), the list by walking  *)
(* the instance tree from the main module (createChainAnnotation): two     *)
(* orders computed by different code that have to agree.  This module      *)
(* follows the connections of the elaborated design from the `out` port of *)
(* the main module backwards, driver by driver, and collects the counter   *)
(* registers it meets: the order in which ScanChain scans them out.        *)
(***************************************************************************)
EXTENDS Naturals, Sequences, FiniteSets, SequencesExt

CONSTANTS
    Main,        \* the name of the main module
    ExtModules,  \* the names of the external modules
    Designs      \* the circuits to look at: the statements of every module

(***************************************************************************)
(* A circuit gives every module that is not external the sequence of its   *)
(* statements: "cover" or the name of the module that is instantiated.     *)
(* The position of a statement stands for the name of the cover point or   *)
(* of the instance, which EnsureNamedStatements makes unique.              *)
(***************************************************************************)
\* What is instantiated has a smaller rank: no module contains itself.
WellFormed(d) ==
    /\ IsFiniteSet(DOMAIN d) /\ Main \in DOMAIN d
    /\ "cover" \notin DOMAIN d
    /\ \A m \in DOMAIN d : d[m] \in Seq({"cover"} \cup DOMAIN d \cup ExtModules)
    /\ \E rank \in [DOMAIN d -> 1 .. Cardinality(DOMAIN d)] :
          \A m \in DOMAIN d : \A k \in DOMAIN d[m] :
              d[m][k] \in DOMAIN d => rank[d[m][k]] < rank[m]

ASSUME DesignAssumption == \A d \in Designs : WellFormed(d)

VARIABLES
    design,  \* the circuit
    walk,    \* the nested module instances the walk is in, and where in each
    found    \* the full names of the registers passed so far

walkVars == <<design, walk, found>>

------------------------------------------------------------------------------
\* The statements of these kinds, with their names, in the order of the body.
Collected(body, kinds) ==
    LET upto[n \in 0 .. Len(body)] ==
            IF n > 0 /\ body[n] \in kinds
            THEN Append(upto[n - 1], [name |-> n, what |-> body[n]])
            ELSE IF n > 0 THEN upto[n - 1] ELSE <<>>
    IN upto[Len(body)]

IsCover(s) == s.what = "cover"
IsInstance(s) == s.what \in DOMAIN design

\* The cover statements and the instances that findCoversAndModifyInstancePorts
\* collects; external modules have no prefix and are skipped.
Covers(m) == Collected(design[m], {"cover"})
Instances(m) == Collected(design[m], DOMAIN design)

\* Mutated form: the submodules are put before the counters of the module.
InstancesFirst(m) == Instances(m) \o Covers(m)

\* insertChain: between the `in` and the `out` port of a module there are
\* first its own counters and then its instances.
Chain(m) == Covers(m) \o Instances(m)

\* The list of CoverageScanChainInfo: what getCovers finds below the instance
\* that is named by prefix, from the main module on.
GetCovers ==
    LET covers[at \in (DOMAIN design) \X Seq(Nat)] ==
            [k \in DOMAIN Covers(at[1]) |-> Append(at[2], Covers(at[1])[k].name)]
            \o FlattenSeq([k \in DOMAIN Instances(at[1]) |->
                    covers[<<Instances(at[1])[k].what,
                             Append(at[2], Instances(at[1])[k].name)>>]])
    IN covers[<<Main, <<>>>>]

------------------------------------------------------------------------------
\* Where the walk is: at element `pos` of the chain of a module, or, when
\* `pos` is zero, at its `in` port.
OutPort(m) == [module |-> m, pos |-> Len(Chain(m))]

Here == Last(walk)
Element(frame) == Chain(frame.module)[frame.pos]
Path == [k \in 1 .. Len(walk) - 1 |-> Element(walk[k]).name]

\* Mutated form: one element is skipped.
StepBackTwice(w) == [w EXCEPT ![Len(w)].pos = @ - 2]

\* The driver of an element is the element before it.
StepBack(w) == [w EXCEPT ![Len(w)].pos = @ - 1]

WalkInit ==
    /\ design \in Designs
    /\ walk = <<OutPort(Main)>>
    /\ found = <<>>

\* generateCounter: a register, which takes its value from the one before.
PassRegister ==
    /\ walk /= <<>>
    /\ Here.pos > 0
    /\ IsCover(Element(Here))
    /\ found' = Append(found, Append(Path, Element(Here).name))
    /\ walk' = StepBack(walk)
    /\ UNCHANGED design

\* connectInstance: the `out` port of an instance; go on inside it.
EnterInstance ==
    /\ walk /= <<>>
    /\ Here.pos > 0
    /\ IsInstance(Element(Here))
    /\ walk' = Append(walk, OutPort(Element(Here).what))
    /\ UNCHANGED <<design, found>>

\* Mutated form: the `in` port of an instance connected to its own `out`.
LeaveInstanceAgain ==
    /\ Len(walk) > 1
    /\ Here.pos = 0
    /\ walk' = Front(walk)
    /\ UNCHANGED <<design, found>>

\* The `in` port of an instance is driven by the element before the instance.
LeaveInstance ==
    /\ Len(walk) > 1
    /\ Here.pos = 0
    /\ walk' = StepBack(Front(walk))
    /\ UNCHANGED <<design, found>>

\* Mutated form: every module gets the constant zero of the main module.
ReachZeroAnywhere ==
    /\ walk /= <<>>
    /\ Here.pos = 0
    /\ walk' = <<>>
    /\ UNCHANGED <<design, found>>

\* The main module has a constant zero instead of an `in` port.
ReachZero ==
    /\ Len(walk) = 1
    /\ Here.pos = 0
    /\ walk' = <<>>
    /\ UNCHANGED <<design, found>>

WalkNext ==
    \/ PassRegister
    \/ EnterInstance
    \/ LeaveInstance
    \/ ReachZero

WalkSpec == WalkInit /\ [][WalkNext]_walkVars /\ WF_walkVars(WalkNext)

------------------------------------------------------------------------------
WalkTypeOK ==
    /\ design \in Designs
    /\ walk \in Seq([module : DOMAIN design, pos : Nat])
    /\ found \in Seq(Seq(Nat))

\* "cover points in the scan chain from front (last to be scanned out) to
\* back (first to be scanned out)": the registers met so far, from the `out`
\* port on, are the end of the announced list, in its opposite order, and the
\* walk stays in the circuit.
OrderMatches ==
    /\ WalkTypeOK
    /\ IsPrefix(found, Reverse(GetCovers))

\* Once the walk has come to the constant zero it has met the register of
\* every announced cover point: no counter was left out of the chain.
ChainComplete ==
    walk = <<>> => Len(found) = Len(GetCovers)

\* The chain has no loop: from `out` one always comes to the constant zero.
ChainEnds == <>(walk = <<>>)
==============================================================================
