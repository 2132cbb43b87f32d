---------------------------- MODULE AliasAnalysis ----------------------------
(***************************************************************************)
(* Which signals of a module have the same value because they are          *)
(* connected: AliasAnalysis, which toggle coverage uses to count only one  *)
(* signal of every group.                                                  *)
(*                                                                         *)
(* A design is the sequence of its modules, instantiated ones first.  A    *)
(* signal is a path: <<s>> for a signal of the module itself, <<i, p>> for *)
(* port p of instance i.  Only connections between two signals matter; a   *)
(* module with none of them, such as a black box, has no aliases.          *)
(***************************************************************************)
EXTENDS Integers, Sequences, FiniteSets, SequencesExt

CONSTANT Designs

\* No signal is connected to itself through others: a loop is an error in
\* FIRRTL, and getAliases would follow it for ever.
NoLoop(m) ==
    \A S \in SUBSET (DOMAIN m.drivers \ m.regs) :
        S /= {} => \E s \in S : m.drivers[s] \notin S

\* ports: signals; regs: the registers; drivers: what a signal is connected
\* to; instances: the index of the module of every instance.
WellFormedModule(m) ==
    /\ m.regs \subseteq DOMAIN m.drivers
    /\ \A i \in DOMAIN m.instances : m.instances[i] \in Nat
    /\ NoLoop(m)

\* What users of this module assume of its parameter.
WellFormedDesigns ==
    \A d \in Designs : \A k \in DOMAIN d :
        /\ WellFormedModule(d[k])
        /\ \A i \in DOMAIN d[k].instances : d[k].instances[i] \in 1 .. k - 1

VARIABLES
    design,
    groups,        \* aliases: for every module analysed so far
    portAliases,   \* the same: for every aliasing port, one other port
    todo,          \* of the module that is being analysed: port aliases of
                   \* its instances that findMerges has not looked at
    merges,
    pc

vars == <<design, groups, portAliases, todo, merges, pc>>

\* The module that is being analysed.
Current == Len(groups) + 1

------------------------------------------------------------------------------
\* Mutated form: a register is an alias of its next value.
ConnectsWithRegisters(m) == m.drivers

\* onStmt
Connects(m) == Restrict(m.drivers, DOMAIN m.drivers \ m.regs)

\* groupSignals and getAliases: signals that are driven from the same one.
LocalGroups(m) ==
    LET cons == Connects(m)
        signals == DOMAIN cons \cup Range(cons)
        root[s \in signals] == IF s \in DOMAIN cons THEN root[cons[s]] ELSE s
    IN {{s \in signals : root[s] = r} : r \in Range(root)}

\* The entries of the map instancePortAliases.
InstanceAliases(m) ==
    UNION {{<<(<<i>> \o p), (<<i>> \o portAliases[m.instances[i]][p])>> :
                p \in DOMAIN portAliases[m.instances[i]]} :
           i \in DOMAIN m.instances}


\* localGroups: with singleSignalGroups.
GroupsToMerge(m) ==
    LET aliased == UNION {{e[1], e[2]} : e \in InstanceAliases(m)}
    IN LocalGroups(m) \cup {{s} : s \in aliased \ UNION LocalGroups(m)}

GroupOf(all, s) == CHOOSE g \in all : s \in g

\* Mutated form: a merge that overlaps others is forgotten.
MergedIfNew(old, merge) ==
    IF \E s \in old : s \cap merge /= {} THEN old ELSE old \cup {merge}

\* One round of the loop of findMerges.
Merged(old, merge) ==
    IF \E s \in old : s \cap merge /= {}
    THEN {IF s \cap merge /= {} THEN s \cup merge ELSE s : s \in old}
    ELSE old \cup {merge}

\* mergeGroups
MergeGroups(all) == {UNION s : s \in merges} \cup (all \ UNION merges)

\* The element of S that is the last one in order.
LastIn(order, S) == order[Max({n \in DOMAIN order : order[n] \in S})]

\* Mutated form: pairs of ports of different groups.
PortAliasesOfAll(all, ports, groupOrder, portOrder) ==
    [p \in {q \in ports : ports \ {q} /= {}} |-> LastIn(portOrder, ports \ {p})]

\* computePortAliases, as the map that instancePortAliases keeps of its
\* pairs: the last pair of a port is the one that stays.
PortAliases(all, ports, groupOrder, portOrder) ==
    LET several == {g \in all : Cardinality(g \cap ports) > 1}
        LastGroup(p) == LastIn(groupOrder, {g \in several : p \in g})
    IN [p \in ports \cap UNION several |->
            LastIn(portOrder, (LastGroup(p) \cap ports) \ {p})]

------------------------------------------------------------------------------
Init ==
    /\ design \in Designs
    /\ groups = <<>> /\ portAliases = <<>>
    /\ todo = {} /\ merges = {}
    /\ pc = "start"

\* resolveAliases up to findMerges.
StartModule ==
    /\ pc = "start" /\ Current <= Len(design)
    /\ todo' = InstanceAliases(design[Current])
    /\ pc' = "merge"
    /\ UNCHANGED <<design, groups, portAliases, merges>>

\* The aliases are looked at in the order of a hash map.
TakeAlias ==
    /\ pc = "merge"
    /\ \E e \in todo :
           LET all == GroupsToMerge(design[Current])
               merge == {GroupOf(all, e[1]), GroupOf(all, e[2])}
           IN /\ merges' = IF Cardinality(merge) = 2
                           THEN Merged(merges, merge) ELSE merges
              /\ todo' = todo \ {e}
    /\ UNCHANGED <<design, groups, portAliases, pc>>

\* Lists of signals and of groups have the order of hash sets as well.
FinishModule ==
    /\ pc = "merge" /\ todo = {}
    /\ LET m == design[Current]
           all == MergeGroups(GroupsToMerge(m))
       IN /\ groups' = Append(groups, all)
          /\ \E groupOrder \in SetToSeqs({g \in all : g \cap m.ports /= {}}),
                portOrder \in SetToSeqs(m.ports) :
                 portAliases' = Append(portAliases,
                     PortAliases(all, m.ports, groupOrder, portOrder))
    /\ merges' = {}
    /\ pc' = "start"
    /\ UNCHANGED <<design, todo>>

Next == StartModule \/ TakeAlias \/ FinishModule

Spec == Init /\ [][Next]_vars

------------------------------------------------------------------------------
(***************************************************************************)
(* The groups as they should be: of the signals of a module and the        *)
(* instances in it, those that are connected, be it through the instances. *)
(***************************************************************************)
Join(partition, edge) ==
    LET touched == {g \in partition : g \cap edge /= {}}
    IN (partition \ touched) \cup {UNION touched}

Connected(edges) ==
    FoldSet(LAMBDA e, partition : Join(partition, e),
            {{s} : s \in UNION edges}, edges)

\* Connections through instance i of a module, given the groups of the others.
Through(true, m, i) ==
    LET ports == design[m.instances[i]].ports
    IN {{<<i>> \o p : p \in g \cap ports} :
            g \in {h \in true[m.instances[i]] : Cardinality(h \cap ports) > 1}}

Wires(m) == {{s, m.drivers[s]} : s \in DOMAIN m.drivers \ m.regs}

Edges(true, m) == Wires(m) \cup UNION {Through(true, m, i) : i \in DOMAIN m.instances}

TrueGroups ==
    LET true[k \in DOMAIN design] == Connected(Edges(true, design[k]))
    IN true

TypeOK ==
    /\ Len(groups) = Len(portAliases) /\ Len(groups) <= Len(design)
    /\ \A k \in DOMAIN groups :
           /\ DOMAIN portAliases[k] \subseteq design[k].ports
           /\ \A p \in DOMAIN portAliases[k] :
                  \E g \in groups[k] : {p, portAliases[k][p]} \subseteq g
    /\ pc = "merge" =>
           /\ UNION merges \subseteq GroupsToMerge(design[Current])
           /\ \A s \in merges : Cardinality(s) > 1
    /\ pc = "start" => todo = {} /\ merges = {}

\* The module that was analysed last, when it has just been.
JustAnalysed == IF pc = "start" THEN DOMAIN groups \ 1 .. Len(groups) - 1 ELSE {}

\* Signals in a group are aliases: no toggle is attributed to a signal that
\* did not toggle.
GroupsAreAliases ==
    \A k \in JustAnalysed : LET true == TrueGroups[k] IN
        \A g \in groups[k] : \E t \in true : g \subseteq t

\* The pairs of groups that are to be merged in a module.
Links(m) ==
    LET all == GroupsToMerge(m)
    IN {{GroupOf(all, e[1]), GroupOf(all, e[2])} : e \in InstanceAliases(m)}

Bridged(m) ==
    LET links == {l \in Links(m) : Cardinality(l) = 2}
    IN \E a, b, c \in links :
           a \cap b = {} /\ a \cap c /= {} /\ b \cap c /= {}

\* "Analyses which signals in a module always have the same value (are
\* aliases of each other)": groups are exact, whatever the order of the hash
\* maps, up to the first module in which a pair of groups bridges two other
\* pairs.  There findMerges extends both of them and does not make them one.
ExactWithoutBridges ==
    \A k \in JustAnalysed :
        (\A j \in 1 .. k : ~Bridged(design[j])) => groups[k] = TrueGroups[k]
==============================================================================
