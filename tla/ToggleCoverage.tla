---------------------------- MODULE ToggleCoverage ----------------------------
(***************************************************************************)
(* Toggle coverage: of the signals that are aliases only one is sampled,   *)
(* and what is connected to a port is sampled in the modules above.        *)
(* ToggleCoveragePass keeps for every cover point the list of all signals  *)
(* that it stands for, and ToggleCoverage.processCoverage reports its      *)
(* count for each of them.                                                 *)
(*                                                                         *)
(* The modules of the design have, besides what AliasAnalysis says of      *)
(* them, clock (has it got a clock input?), ignored (is it excluded from   *)
(* coverage?) and ext (is it an external module?).  Signals are one bit    *)
(* wide; clocks are not among them.                                        *)
(***************************************************************************)
EXTENDS Integers, Sequences, FiniteSets, SequencesExt

CONSTANTS
    Designs,
    Options      \* the sets of kinds of signals that may be instrumented

VARIABLES
    design, groups, portAliases, todo, merges, pc,    \* of AliasAnalysis
    kinds,       \* the instrumented ones of "port", "reg" and "wire"
    phase,
    mod,         \* the module that is being looked at
    toCover,     \* the groups of its signals that have to be covered
    annos,       \* the ToggleCoverageAnnotations
    aliases,     \* by module: pairs of a port and the signals it stands for
    toResolve    \* the instances in mod that have not been looked at

alias == <<design, groups, portAliases, todo, merges, pc>>
toggleVars == <<alias, kinds, phase, mod, toCover, annos, aliases, toResolve>>

Alias == INSTANCE AliasAnalysis

\* A circuit is finite, and modules that are not part of it have no body.
FiniteModule(m) ==
    /\ IsFiniteSet(m.ports) /\ \A p \in m.ports : p = <<p[1]>>
    /\ IsFiniteSet(DOMAIN m.drivers) /\ IsFiniteSet(DOMAIN m.instances)
    /\ m.ext => DOMAIN m.instances = {}

ASSUME ToggleAssumption ==
    /\ Options \subseteq SUBSET {"port", "reg", "wire"}
    /\ Alias!WellFormedDesigns
    /\ \A d \in Designs : /\ d \in Seq(ToSet(d)) /\ d /= <<>>
                          /\ \A k \in DOMAIN d : FiniteModule(d[k])

------------------------------------------------------------------------------
Modules == DOMAIN design
Main == Len(design)

\* collectSignals
Signals(m) ==
    m.ports \cup {s \in DOMAIN m.drivers \cup Range(m.drivers) : Len(s) = 1}
        \cup UNION {{<<i>> \o p : p \in design[m.instances[i]].ports} :
                       i \in DOMAIN m.instances}

\* filterSignals; the ports of instances are ports, too.
Selected(m) ==
    {s \in Signals(m) :
        (IF s \in m.ports \/ Len(s) = 2 THEN "port"
         ELSE IF s \in m.regs THEN "reg" ELSE "wire") \in kinds}

\* Is anything of the module covered?
Instrumented(k) == /\ ~design[k].ext /\ ~design[k].ignored
                   /\ Selected(design[k]) /= {} /\ design[k].clock

\* Mutated form: only the main module samples what is connected to its ports.
OnlyMainIsTop(k) == k = Main

\* A module in an ignored one has to sample its own ports.
IsTop(k) ==
    \/ k = Main
    \/ \E p \in Modules : design[p].ignored /\ k \in Range(design[p].instances)

\* Mutated form: every signal is a group.
GroupsWithoutAliases(k) == {{s} : s \in Selected(design[k])}

\* Mutated form: also the signals that are not selected.
GroupsUnfiltered(k) ==
    groups[k] \cup {{s} : s \in Selected(design[k]) \ UNION groups[k]}

\* The groups of coverSignals.
SignalGroups(k) ==
    LET selected == Selected(design[k])
        aliased == {g \in {h \cap selected : h \in groups[k]} : Cardinality(g) > 1}
    IN aliased \cup {{s} : s \in selected \ UNION aliased}

Targets(k, signals) == SetToSeq({<<k, s>> : s \in signals})

------------------------------------------------------------------------------
ToggleInit ==
    /\ Alias!Init /\ kinds \in Options
    /\ phase = "alias" /\ mod = 0 /\ toCover = {} /\ annos = <<>>
    /\ aliases = [k \in Modules |-> <<>>] /\ toResolve = <<>>

FindAliases ==
    /\ phase = "alias" /\ Alias!Next
    /\ UNCHANGED <<kinds, phase, mod, toCover, annos, aliases, toResolve>>

\* onModule: the next module with anything to cover.
EnterModule ==
    /\ \/ phase = "alias" /\ Len(groups) = Main
       \/ phase = "cover" /\ toCover = {} /\ mod < Main
    /\ phase' = "cover"
    /\ mod' = mod + 1
    /\ toCover' = IF Instrumented(mod') THEN SignalGroups(mod') ELSE {}
    /\ UNCHANGED <<alias, kinds, annos, aliases, toResolve>>

\* coverSignals: which signal of a group comes first depends on a hash set.
CoverGroup ==
    /\ phase = "cover" /\ toCover /= {}
    /\ LET group == CHOOSE g \in toCover : TRUE
           ports == group \cap design[mod].ports
           signals == Targets(mod, group)
       IN /\ toCover' = toCover \ {group}
          /\ IF ports /= {} /\ ~IsTop(mod)
             THEN /\ \E port \in ports :
                       aliases' = [aliases EXCEPT ![mod] = <<<<port, signals>>>> \o @]
                  /\ UNCHANGED annos
             ELSE /\ \E head \in group :
                       annos' = <<[mod |-> mod, sampled |-> head,
                                   signals |-> signals]>> \o annos
                  /\ UNCHANGED aliases
    /\ UNCHANGED <<alias, kinds, phase, mod, toResolve>>

\* resolvePortAliases goes over the modules, instantiated ones first.
ResolveModule ==
    /\ \/ phase = "cover" /\ toCover = {} /\ mod = Main
       \/ phase = "resolve" /\ toResolve = <<>> /\ mod < Main
    /\ mod' = IF phase = "cover" THEN 1 ELSE mod + 1
    /\ phase' = "resolve"
    /\ toResolve' = SetToSeq(DOMAIN design[mod'].instances)
    /\ UNCHANGED <<alias, kinds, toCover, annos, aliases>>

\* Does the cover point stand for the port, as coverSignals left it?
Samples(anno, port) == anno.mod = mod /\ <<mod, port>> \in ToSet(anno.signals)

Sampled(list, port) == \E n \in DOMAIN list : Samples(list[n], port)

\* Mutated form: the signals replace those found before.
AddedInstead(old, signals) ==
    SelectSeq(old, LAMBDA target : target[1] = mod) \o signals

Added(old, signals) == old \o signals

\* The ports of mod that stand for a port of an instance in it.
LocalPorts(port) ==
    {entry[1] : entry \in {e \in ToSet(aliases[mod]) : <<mod, port>> \in ToSet(e[2])}}

\* The signals of a port of an instance go to the cover points of mod, or up.
ResolvePort(port, signals, s) ==
    IF Sampled(s.annos, port)
    THEN [annos |-> [n \in DOMAIN s.annos |->
                        IF Samples(s.annos[n], port)
                        THEN [s.annos[n] EXCEPT !.signals = Added(@, signals)]
                        ELSE s.annos[n]],
          up |-> s.up]
    ELSE [annos |-> s.annos,
          up |-> <<<<CHOOSE p \in LocalPorts(port) : TRUE, signals>>>> \o s.up]

\* What the port aliases of an instance lead to, one after another.
Resolved(inst, entries) ==
    LET after[n \in 0 .. Len(entries)] ==
            IF n = 0 THEN [annos |-> annos, up |-> aliases[mod]]
            ELSE ResolvePort(<<inst>> \o entries[n][1], entries[n][2], after[n - 1])
    IN after[Len(entries)]

\* A port that mod neither samples nor passes on is an error.
Lost(port) == ~Sampled(annos, port) /\ LocalPorts(port) = {}

ResolveInstance ==
    /\ phase = "resolve" /\ toResolve /= <<>>
    /\ LET inst == Head(toResolve)
           entries == aliases[design[mod].instances[inst]]
       IN IF \E e \in ToSet(entries) : Lost(<<inst>> \o e[1])
          THEN phase' = "failed" /\ UNCHANGED <<annos, aliases, toResolve>>
          ELSE /\ annos' = Resolved(inst, entries).annos
               /\ aliases' = [aliases EXCEPT ![mod] = Resolved(inst, entries).up]
               /\ toResolve' = Tail(toResolve)
               /\ UNCHANGED phase
    /\ UNCHANGED <<alias, kinds, mod, toCover>>

Finish ==
    /\ phase = "resolve" /\ toResolve = <<>> /\ mod = Main
    /\ phase' = "done"
    /\ UNCHANGED <<alias, kinds, mod, toCover, annos, aliases, toResolve>>

ToggleNext == FindAliases \/ EnterModule \/ CoverGroup \/ ResolveModule
            \/ ResolveInstance \/ Finish

ToggleSpec == ToggleInit /\ [][ToggleNext]_toggleVars

------------------------------------------------------------------------------
(***************************************************************************)
(* What is reported against the design without modules: a net is a set of  *)
(* signals, with the path of their instance, that are connected.           *)
(***************************************************************************)
Paths ==
    LET paths[k \in Modules] ==
            IF k = Main THEN {<<>>}
            ELSE UNION {UNION {{q \o <<i>> : q \in paths[p]} :
                                   i \in {j \in DOMAIN design[p].instances :
                                              design[p].instances[j] = k}} :
                           p \in k + 1 .. Main}
    IN paths

Nets ==
    LET paths == Paths
        Wires(k, q) == {{q \o s, q \o design[k].drivers[s]} :
                            s \in DOMAIN design[k].drivers \ design[k].regs}
    IN Alias!Connected(UNION {UNION {Wires(k, q) : q \in paths[k]} : k \in Modules})

\* The net of a signal; one that is not connected is alone.
NetIn(nets, s) ==
    IF \E net \in nets : s \in net THEN CHOOSE net \in nets : s \in net ELSE {s}

\* The counts for a target: of which cover point, along which path to its module,
\* at which place of its list.
Reported(paths, target) ==
    UNION {{<<n, q, i>> : q \in paths[annos[n].mod],
                          i \in {j \in DOMAIN annos[n].signals :
                                     annos[n].signals[j] = target}} :
           n \in DOMAIN annos}

ToggleTypeOK ==
    /\ Alias!TypeOK
    /\ phase \in {"alias", "cover", "resolve", "done", "failed"}
    /\ mod \in 0 .. Main
    /\ \A n \in DOMAIN annos :
          /\ annos[n].sampled \in Selected(design[annos[n].mod])
          /\ <<annos[n].mod, annos[n].sampled>> \in ToSet(annos[n].signals)
    /\ \A k \in Modules : \A e \in ToSet(aliases[k]) :
          e[1] \in design[k].ports /\ ~IsTop(k)
    /\ phase = "cover" => toCover \subseteq SUBSET Selected(design[mod])

\* The report has for every signal of an instrumented module one count for
\* every instance, and it is the count of that instance: moving the sampling
\* of ports up the hierarchy neither loses a signal nor counts one twice, and
\* none gets the toggles of something else.  (The groups have to be right.)
ReportExact ==
    /\ ToggleTypeOK
    /\ phase = "done" /\ groups = Alias!TrueGroups =>
           LET paths == Paths
               nets == Nets
           IN \A k \in {m \in Modules : Instrumented(m)} : \A s \in Selected(design[k]) :
                 LET reported == Reported(paths, <<k, s>>)
                 IN /\ Cardinality(reported) = Cardinality(paths[k])
                    /\ \A q \in paths[k] :
                          Cardinality({r \in reported :
                                          NetIn(nets, r[2] \o annos[r[1]].sampled)
                                          = NetIn(nets, q \o s)})
                          = Cardinality({p \in paths[k] :
                                            NetIn(nets, p \o s) = NetIn(nets, q \o s)})

\* "only create one counter when there are obvious aliases": signals of a module
\* that are connected, be it through its instances, are not sampled twice.
SampledOnce ==
    \A n, o \in DOMAIN annos :
        n /= o /\ annos[n].mod = annos[o].mod =>
            \A g \in Alias!TrueGroups[annos[n].mod] :
                groups[annos[n].mod] = Alias!TrueGroups[annos[n].mod] =>
                    ~({annos[n].sampled, annos[o].sampled} \subseteq g)

\* A module without a clock input around one that has one and is instrumented.
ClocklessParent ==
    \E p \in Modules : /\ ~design[p].clock /\ ~design[p].ignored
                       /\ \E k \in Range(design[p].instances) : Instrumented(k)

\* The only reason to fail.
FailsOnlyWithoutClock == phase = "failed" => ClocklessParent

\* What AliasAnalysis finds: signals in a group are aliases, and the groups are
\* exact up to the first module in which a pair of groups bridges two others.
AliasGroups ==
    phase = "alias" => Alias!GroupsAreAliases /\ Alias!ExactWithoutBridges
==============================================================================
