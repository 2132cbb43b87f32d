----------------------------- MODULE CoverPoints ------------------------------
(***************************************************************************)
(* The life of cover points: LineCoveragePass and ReadyValidCoveragePass   *)
(* add them, a simulation counts them for every instance, merge_cov.py     *)
(* adds up the results of several simulations, the next build drops the    *)
(* points that have been covered often enough (FindCoversToRemovePass and  *)
(* RemoveCoverPointsPass), and the reports look the remaining ones up by   *)
(* their names.                                                            *)
(*                                                                         *)
(* A module has instances, a sequence of the modules they are of (modules  *)
(* are numbered, instantiated ones first, the main module is the last),    *)
(* blocks, its blocks of statements, the first of which is its body,       *)
(* bundles, its ports of the form {ready, valid, bits}, clock (has it got  *)
(* a clock input?) and ignored (a DoNotCoverAnnotation).  A statement has  *)
(* a line and a kind: "node", "cover", "effect" for all that has side      *)
(* effects, instances included, and "when", with the numbers, greater than *)
(* that of its own block, of the blocks then and else.                     *)
(***************************************************************************)
EXTENDS Integers, Sequences, FiniteSets, Functions, FiniteSetsExt, SequencesExt

CONSTANTS
    Designs,
    Threshold,    \* of FindCoversToRemovePass
    MaxBuilds,    \* bound on the builds
    MaxRuns,      \* how many of them are simulated
    MaxCycles     \* bound on the cycles of a simulation

\* The whens of block b.
Whens(m, b) == {s \in ToSet(m.blocks[b]) : s.kind = "when"}

\* The blocks are a tree: what a when chooses from is its own.
WellNested(m) ==
    /\ m.blocks /= <<>> /\ m.blocks \in Seq(Range(m.blocks))
    /\ \A b \in DOMAIN m.blocks : \A s \in Whens(m, b) :
          /\ s.then /= s.else /\ {s.then, s.else} \subseteq b + 1 .. Len(m.blocks)
          /\ \A c \in DOMAIN m.blocks : \A t \in Whens(m, c) :
                {s.then, s.else} \cap {t.then, t.else} /= {} => b = c /\ s = t

\* Instances are of modules with smaller numbers.
WellFormed(d) ==
    /\ d /= <<>> /\ d \in Seq(Range(d))
    /\ \A k \in DOMAIN d : WellNested(d[k]) /\ d[k].instances \in Seq(1 .. k - 1)

ASSUME CoverPointsAssumption ==
    /\ Threshold \in Nat \ {0} /\ {MaxBuilds, MaxRuns, MaxCycles} \subseteq Nat
    /\ \A d \in Designs : WellFormed(d)

VARIABLES
    design,
    pc,          \* what is done next to the design
    annos,       \* what the cover points stand for
    points,      \* by module: the names of the cover statements in it
    loaded,      \* the results given to this build with --remove-covered
    requests,    \* the RemoveCoverAnnotation: pairs of an instance and a point
    cycles,
    counts,      \* of the running simulation
    files,       \* the results on disk: [counts, of], of is the set of builds
    report,      \* the result of processCoverage: pairs of annotation and count
    basis,       \* history: by build, the builds of the results given to it
    hits         \* history: by build, how often every point was hit

vars == <<design, pc, annos, points, loaded, requests, cycles, counts, files,
          report, basis, hits>>

------------------------------------------------------------------------------
Modules == DOMAIN design
Main == Len(design)

\* ModuleInstancesPass: the paths of all instances with their modules.
Instances ==
    LET below[k \in Modules] ==
            {<<<<>>, k>>} \cup UNION {
                {<<<<i>> \o inst[1], inst[2]>> : inst \in below[design[k].instances[i]]} :
                    i \in DOMAIN design[k].instances}
    IN below[Main]

\* moduleToInstances
Paths(k) == {inst[1] : inst \in {i \in Instances : i[2] = k}}
ModuleOf(path) == (CHOOSE inst \in Instances : inst[1] = path)[2]

\* Mutated form: a when counts only for the blocks that it chooses from.
DoCoverWithoutNested(m) ==
    [b \in DOMAIN m.blocks |-> \E s \in ToSet(m.blocks[b]) : s.kind = "effect"]

\* onStmt: which blocks are covered.
DoCover(m) ==
    LET do[b \in DOMAIN m.blocks] ==
            \E s \in ToSet(m.blocks[b]) :
                \/ s.kind = "effect"
                \/ s.kind = "when" /\ (do[s.then] \/ do[s.else])
    IN do

\* The lines of a block; those of nested blocks are not among them.
Lines(m, b) == {s.line : s \in ToSet(m.blocks[b])}

Covered(k) == design[k].clock /\ ~design[k].ignored

\* LineCoveragePass.onModule: the body is covered in any case.
LineAnnos(k) ==
    IF Covered(k)
    THEN {[mod |-> k, name |-> <<"l", b>>, for |-> Lines(design[k], b)] :
             b \in {1} \cup {b \in DOMAIN design[k].blocks : DoCover(design[k])[b]}}
    ELSE {}

\* Mutated form: the names of line coverage are used again.
FireAnnosNamedAsLines(k) ==
    {[mod |-> k, name |-> <<"l", b>>, for |-> {b}] : b \in design[k].bundles}

\* ReadyValidCoveragePass.onModule
FireAnnos(k) ==
    IF Covered(k)
    THEN {[mod |-> k, name |-> <<"r", b>>, for |-> {b}] : b \in design[k].bundles}
    ELSE {}

\* The cover points of all instances, as the simulator names them.
Counters(ps) == UNION {Paths(k) \X ps[k] : k \in Modules}

\* The sets of blocks that are active together: of the blocks of a when one is.
ActiveBlocks(m) ==
    {active \in SUBSET DOMAIN m.blocks :
        /\ 1 \in active
        /\ \A b \in DOMAIN m.blocks : \A s \in Whens(m, b) :
              Cardinality({s.then, s.else} \cap active) = IF b \in active THEN 1 ELSE 0}

\* Everything that the instances can do in a cycle.
Behaviors ==
    LET Of(k) == {[active |-> a, fires |-> f] :
                     a \in ActiveBlocks(design[k]), f \in SUBSET design[k].bundles}
        all == UNION {Of(k) : k \in Modules}
    IN {b \in [{inst[1] : inst \in Instances} -> all] :
           \A inst \in Instances : b[inst[1]] \in Of(inst[2])}

\* Is the point hit?
Hit(behavior, point) ==
    point[2] \in IF point[1] = "l" THEN behavior.active ELSE behavior.fires

\* The counters after one more cycle.
Counted(counters, behaviors) ==
    [c \in DOMAIN counters |->
        counters[c] + IF Hit(behaviors[c[1]], c[2]) THEN 1 ELSE 0]

Zero(keys) == [c \in keys |-> 0]

\* The sum of the values of f.
SumOf(f) == FoldFunction(+, 0, f)

\* Mutated form of merge_cov.py: what the last result has for a point.
MergedLast(results) ==
    [c \in UNION {DOMAIN f.counts : f \in results} |->
        (CHOOSE f \in results : c \in DOMAIN f.counts).counts[c]]

\* Mutated form: only the points that all results have.
MergedCommon(results) ==
    [c \in {d \in DOMAIN (CHOOSE f \in results : TRUE).counts :
               \A f \in results : d \in DOMAIN f.counts} |->
        SumOf([f \in results |-> f.counts[c]])]

\* merge_cov.py
Merged(results) ==
    [c \in UNION {DOMAIN f.counts : f \in results} |->
        SumOf([f \in results |-> IF c \in DOMAIN f.counts THEN f.counts[c] ELSE 0])]

\* Mutated form: a point is removed when one instance has asked for it.
RemovableInOne(k, name) == \E path \in Paths(k) : <<path, name>> \in requests

\* findStatementsToRemove: the requests for a point are counted.
Removable(k, name) ==
    Cardinality({r \in requests : ModuleOf(r[1]) = k /\ r[2] = name})
        = Cardinality(Paths(k))

------------------------------------------------------------------------------
Init ==
    /\ design \in Designs
    /\ pc = "instrument" /\ annos = {} /\ points = [k \in Modules |-> {}]
    /\ loaded = {} /\ requests = {} /\ counts = <<>> /\ cycles = 0
    /\ files = {} /\ report = {} /\ basis = <<>> /\ hits = <<>>

\* A build with results on the command line: LineCoveragePass.execute,
\* ReadyValidCoveragePass.execute and LoadTestCoveragePass.
Instrument ==
    /\ pc = "instrument" /\ Len(basis) < MaxBuilds
    /\ annos' = UNION {LineAnnos(k) \cup FireAnnos(k) : k \in Modules}
    /\ points' = [k \in Modules |-> {a.name : a \in {b \in annos' : b.mod = k}}]
    /\ \E results \in SUBSET files :
          /\ loaded' = results
          /\ basis' = Append(basis, UNION {f.of : f \in results})
    /\ requests' = {}
    /\ pc' = "find"
    /\ UNCHANGED <<design, cycles, counts, files, report, hits>>

\* FindCoversToRemovePass.execute
FindCoversToRemove ==
    /\ pc = "find"
    /\ pc' = IF Cardinality(loaded) > 1 THEN "failed" ELSE "remove"
    /\ requests' = IF Cardinality(loaded) = 1
                   THEN LET covers == (CHOOSE f \in loaded : TRUE).counts
                        IN {c \in DOMAIN covers : covers[c] >= Threshold}
                   ELSE {}
    /\ UNCHANGED <<design, annos, points, loaded, cycles, counts, files, report,
                   basis, hits>>

\* RemoveCoverPointsPass.execute, and the simulator starts. (The annotations of
\* the points that have been removed stay.)
RemoveCoverPoints ==
    /\ pc = "remove"
    /\ points' = [k \in Modules |-> {n \in points[k] : ~Removable(k, n)}]
    /\ pc' = "run" /\ cycles' = 0
    /\ counts' = Zero(Counters(points'))
    /\ hits' = Append(hits, Zero(Counters(points)))
    /\ UNCHANGED <<design, annos, loaded, requests, files, report, basis>>

\* One cycle of the simulator, which counts for every instance.
Cycle ==
    /\ pc = "run" /\ Len(hits) <= MaxRuns /\ cycles < MaxCycles
    /\ cycles' = cycles + 1
    /\ \E behaviors \in Behaviors :
          /\ counts' = Counted(counts, behaviors)
          /\ hits' = [hits EXCEPT ![Len(hits)] = Counted(@, behaviors)]
    /\ UNCHANGED <<design, pc, annos, points, loaded, requests, files, report, basis>>

\* The simulation ends and writes its TestCoverage.
SaveResult ==
    /\ pc = "run" /\ cycles > 0
    /\ files' = files \cup {[counts |-> counts, of |-> {Len(hits)}]}
    /\ pc' = "instrument"
    /\ UNCHANGED <<design, annos, points, loaded, requests, cycles, counts, report,
                   basis, hits>>

\* merge_cov.py, with results of different simulations.
MergeResults ==
    /\ pc = "instrument"
    /\ \E results \in SUBSET files :
          /\ Cardinality(results) > 1
          /\ \A f, g \in results : f = g \/ f.of \cap g.of = {}
          /\ files' = files \cup {[counts |-> Merged(results),
                                   of |-> UNION {f.of : f \in results}]}
    /\ files' /= files
    /\ UNCHANGED <<design, pc, annos, points, loaded, requests, cycles, counts, report,
                   basis, hits>>

\* The points that processCoverage looks up.
Wanted == UNION {Paths(a.mod) \X {a.name} : a \in annos}

\* The sum over the instances.
Total(a, covers) == SumOf([p \in Paths(a.mod) |-> covers[<<p, a.name>>]])

\* collectTestCoverage takes exactly one TestCoverage.  The results that a build was
\* given stay among its annotations: any other one is one too many.
GivenResults(b) == basis[b] /= {}

\* LineCoverage.processCoverage and ReadyValidCoverage.processCoverage, with the
\* annotations of a build b and some result.  (Those of a build that was given a
\* result make the report of that result when they are alone; it is one of files.)
\* The report fails for unknown points, too.
ProcessCoverage ==
    /\ pc = "instrument"
    /\ \E f \in files, b \in DOMAIN basis :
          \/ /\ GivenResults(b)
             /\ pc' = "ambiguous" /\ report' = [of |-> f.of]
          \/ /\ ~GivenResults(b)
             /\ IF Wanted \subseteq DOMAIN f.counts
                THEN /\ pc' = "reported"
                     /\ report' = [of |-> f.of,
                            lines |-> {<<a, Total(a, f.counts)>> :
                                          a \in {c \in annos : c.name[1] = "l"}},
                            fires |-> UNION {{<<p, a, f.counts[<<p, a.name>>]>> :
                                                 p \in Paths(a.mod)} :
                                             a \in {c \in annos : c.name[1] = "r"}}]
                ELSE /\ pc' = "unknown" /\ report' = [of |-> f.of]
    /\ UNCHANGED <<design, annos, points, loaded, requests, cycles, counts, files,
                   basis, hits>>

Next == Instrument \/ FindCoversToRemove \/ RemoveCoverPoints \/ Cycle \/ SaveResult
            \/ MergeResults \/ ProcessCoverage

Spec == Init /\ [][Next]_vars

------------------------------------------------------------------------------
TypeOK ==
    /\ pc \in {"instrument", "find", "remove", "run", "failed", "reported", "unknown",
              "ambiguous"}
    /\ \A a, b \in annos : a.mod = b.mod /\ a.name = b.name => a = b
    /\ \A k \in Modules : points[k] \subseteq {a.name : a \in {b \in annos : b.mod = k}}
    /\ pc = "run" => DOMAIN counts = Counters(points)
    /\ \A f \in files : /\ f.counts \in [DOMAIN f.counts -> Nat]
                        /\ f.of \in (SUBSET DOMAIN hits) \ {{}}
    /\ Len(hits) <= Len(basis) /\ Len(basis) <= MaxBuilds
    /\ cycles <= MaxCycles

\* A result is closed when it includes the results that its builds were given.
Closed(builds) == \A b \in builds : basis[b] \subseteq builds

\* How often the point was hit in these builds, counted or not.
HitsIn(builds, c) == SumOf([b \in builds |-> hits[b][c]])

\* The results of all the builds of a campaign, merged, know every point, even if
\* the last builds dropped it, and a point that is not counted often enough to be
\* dropped is counted in every build: the merged count is right up to Threshold.
\* The report can be made of every such result, with the annotations of a build that
\* was given no results, and there is one: with those of a build that was given some
\* every report fails, with those of a build that was not only the reports of results
\* that lack a build.
NothingIsLost ==
    /\ TypeOK
    /\ \A f \in files : Closed(f.of) =>
          /\ Wanted \subseteq DOMAIN f.counts
          /\ \A c \in DOMAIN f.counts :
                /\ f.counts[c] <= HitsIn(f.of, c)
                /\ f.counts[c] < HitsIn(f.of, c) => f.counts[c] >= Threshold
    /\ files /= {} => \E b \in DOMAIN basis : ~GivenResults(b)
    /\ pc = "unknown" => ~Closed(report.of)

\* "for every module, remove the cover points that are requested to be removed in
\* all instances": what is not in the circuit has been hit often in each instance.
OnlyCoveredEverywhereRemoved ==
    pc = "run" => \A a \in annos : a.name \notin points[a.mod] =>
        \A p \in Paths(a.mod) : HitsIn(basis[Len(basis)], <<p, a.name>>) >= Threshold

\* Is there an effect in the block or in one that is active only when it is?
Effective(m, b) ==
    \E inner \in DOMAIN m.blocks :
        /\ \E s \in ToSet(m.blocks[inner]) : s.kind = "effect"
        /\ \A active \in ActiveBlocks(m) : inner \in active => b \in active

\* A line is reported with the number of executions of its block in all instances
\* (dropped points with what was counted of them), and every line of a block with
\* an effect in it is reported for that block. A ready/valid port is reported for
\* every instance by itself.
ReportExact ==
    pc = "reported" => \A k \in {m \in Modules : Covered(m)} :
        /\ \A p \in Paths(k) : \A b \in design[k].bundles :
              \E e \in report.fires :
                  /\ e[1] = p /\ e[2].mod = k /\ e[2].for = {b}
                  /\ e[3] <= HitsIn(report.of, <<p, <<"r", b>>>>)
                  /\ e[3] < HitsIn(report.of, <<p, <<"r", b>>>>) /\ Closed(report.of)
                        => e[3] >= Threshold
        /\ \A b \in DOMAIN design[k].blocks :
            LET entries == {e \in report.lines : e[1].mod = k /\ e[1].name[2] = b}
                executed == SumOf([p \in Paths(k) |-> HitsIn(report.of, <<p, <<"l", b>>>>)])
                enough == Cardinality(Paths(k)) * Threshold
            IN /\ \A e \in entries :
                     /\ e[2] <= executed
                     /\ e[2] < executed /\ Closed(report.of) => enough <= e[2]
               /\ Effective(design[k], b) =>
                     Lines(design[k], b) \subseteq UNION {e[1].for : e \in entries}

\* A result that has all that the one before had makes the next build drop at least
\* the same points: no point comes back into the circuit.
PointsStayRemoved ==
    [][pc = "remove" /\ Len(basis) > 1 /\ basis[Len(basis) - 1] \subseteq basis[Len(basis)]
          => DOMAIN counts' \subseteq DOMAIN counts]_vars
==============================================================================
