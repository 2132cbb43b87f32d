--------------------------- MODULE CoverageAnalysis ---------------------------
(***************************************************************************)
(* What is made of a fuzzing campaign: every input in AFL's queue is run   *)
(* again, and a JSON text is written that says how the coverage grew.      *)
(*                                                                         *)
(* The JSON text is a sequence of tokens; a token for a member stands for  *)
(* a name with a number or a string.  The scalars themselves are left out. *)
(***************************************************************************)
EXTENDS Integers, Sequences, FiniteSets, SequencesExt

CONSTANTS
    NumPoints,    \* the cover points of the design
    Counts,       \* how often one input may toggle a point
    FeedbackCap,
    Times,        \* the creation times
    MaxFiles

ASSUME AnalysisAssumption ==
    /\ NumPoints \in Nat \ {0}
    /\ Counts \subseteq Nat /\ Times \subseteq Nat
    /\ FeedbackCap \in Nat /\ MaxFiles \in Nat

Points == 1 .. NumPoints

Files == [time : Times, valid : BOOLEAN, toggles : [Points -> Counts]]

VARIABLES
    queue,      \* the files of the queue, by name
    pc,
    toRun,      \* the files that have not been run
    kept,       \* what the valid ones returned: time and bytes
    toWrite,    \* the entries of kept that have not been written
    lastTime,   \* previous_time
    covered,    \* overallCoverage
    out         \* the text so far

analysisVars == <<queue, pc, toRun, kept, toWrite, lastTime, covered, out>>

------------------------------------------------------------------------------
\* toByte of a Scala Long.
ToByte(n) == LET low == n % 256 IN IF low < 128 THEN low ELSE low - 256

\* Mutated form: neither capped nor made a byte.
FeedbackAsLong(file) == file.toggles

\* FuzzTarget.getCoverage
Feedback(file) ==
    [p \in Points |-> ToByte(IF file.toggles[p] < FeedbackCap
                             THEN file.toggles[p] ELSE FeedbackCap)]

\* Mutated form: a point that was toggled once does not count.
CoveredPointsTwice(bytes) == {p \in Points : bytes[p] > 1}

\* processMuxToggleCoverage
CoveredPoints(bytes) == {p \in Points : bytes[p] >= 1}

\* Mutated form: one point may be missing.
FullButOne(points) == Cardinality(points) >= NumPoints - 1

\* cumulativeCoverage == 1.0
Full(points) == Cardinality(points) = NumPoints

\* Mutated form: a separator after every entry.
SeparatorAlways(more) == <<"comma">>

Separator(more) == IF more THEN <<"comma">> ELSE <<>>

------------------------------------------------------------------------------
AnalysisInit ==
    /\ queue \in UNION {[1 .. n -> Files] : n \in 1 .. MaxFiles}
    /\ pc = "run"
    /\ toRun = queue /\ kept = <<>> /\ toWrite = <<>>
    /\ lastTime = queue[1].time
    /\ covered = {} /\ out = <<>>

\* Invalid inputs are left out.
RunFile ==
    /\ pc = "run" /\ toRun /= <<>>
    /\ LET file == Head(toRun)
       IN kept' = IF file.valid
                  THEN Append(kept, [time |-> file.time, bytes |-> Feedback(file)])
                  ELSE kept
    /\ toRun' = Tail(toRun)
    /\ UNCHANGED <<queue, pc, toWrite, lastTime, covered, out>>

\* The integer division is one only when no input is valid.
AllRun ==
    /\ pc = "run" /\ toRun = <<>>
    /\ LET invalid == Len(queue) - Len(kept)
       IN IF invalid \div Len(queue) = 1
          THEN pc' = "failed" /\ UNCHANGED <<toWrite, out>>
          ELSE /\ pc' = "data"
               /\ toWrite' = kept
               /\ out' = <<"object", "name", "array">>
    /\ UNCHANGED <<queue, toRun, kept, lastTime, covered>>

\* appendCoverageDataOld: one entry, and the end of the array after the last.
\* When everything is covered before the last file the function returns.
WriteEntry ==
    /\ pc = "data" /\ toWrite /= <<>>
    /\ LET entry == Head(toWrite)
           more == Len(toWrite) > 1
           now == covered \cup CoveredPoints(entry.bytes)
           text == <<"object", "member", "comma", "member", "comma", "member", "objectEnd">>
       IN IF entry.time < lastTime
          THEN pc' = "failed" /\ UNCHANGED <<toWrite, lastTime, covered, out>>
          ELSE /\ lastTime' = entry.time
               /\ covered' = now
               /\ toWrite' = Tail(toWrite)
               /\ IF Full(now) /\ more
                  THEN pc' = "end" /\ out' = out \o text
                  ELSE /\ pc' = IF more THEN "data" ELSE "end"
                       /\ out' = out \o text \o Separator(more)
                                     \o IF more THEN <<>> ELSE <<"arrayEnd">>
    /\ UNCHANGED <<queue, toRun, kept>>

\* appendEndTimeOld, and the file is written.
WriteEnd ==
    /\ pc = "end"
    /\ out' = out \o <<"comma", "member", "objectEnd">>
    /\ pc' = "done"
    /\ UNCHANGED <<queue, toRun, kept, toWrite, lastTime, covered>>

AnalysisNext == RunFile \/ AllRun \/ WriteEntry \/ WriteEnd

AnalysisSpec == AnalysisInit /\ [][AnalysisNext]_analysisVars

------------------------------------------------------------------------------
(***************************************************************************)
(* A parser of JSON texts, one token at a time: the brackets that are open *)
(* and what was read last, "bad" after an error.                           *)
(***************************************************************************)
In(s, b) == s.open /= <<>> /\ Last(s.open) = b
ItemMayCome(s, b) == In(s, b) /\ s.last \in {"open", "comma"}
ValueMayCome(s) == s.last \in {"start", "name"} \/ ItemMayCome(s, "array")

MayCome(s, t) ==
    \/ t \in {"object", "array"} /\ ValueMayCome(s)
    \/ t = "objectEnd" /\ In(s, "object") /\ s.last \in {"open", "item"}
    \/ t = "arrayEnd" /\ In(s, "array") /\ s.last \in {"open", "item"}
    \/ t = "comma" /\ s.open /= <<>> /\ s.last = "item"
    \/ t \in {"member", "name"} /\ ItemMayCome(s, "object")

OpenAfter(open, t) ==
    IF t \in {"object", "array"} THEN Append(open, t)
    ELSE IF t \in {"objectEnd", "arrayEnd"} THEN Front(open) ELSE open

LastAfter(t) ==
    IF t \in {"object", "array"} THEN "open" ELSE IF t \in {"comma", "name"} THEN t ELSE "item"

ReadToken(s, t) ==
    IF MayCome(s, t) THEN [open |-> OpenAfter(s.open, t), last |-> LastAfter(t)]
    ELSE [s EXCEPT !.last = "bad"]

Parse(text) ==
    LET after[n \in 0 .. Len(text)] ==
            IF n = 0 THEN [open |-> <<>>, last |-> "start"]
            ELSE ReadToken(after[n - 1], text[n])
    IN after[Len(text)]

WellFormed(text) == Parse(text) = [open |-> <<>>, last |-> "item"]

AnalysisTypeOK ==
    /\ pc \in {"run", "data", "end", "failed", "done"}
    /\ toRun \in Seq(Files)
    /\ kept \in Seq([time : Times, bytes : [Points -> -128 .. 127]])
    /\ IsSuffix(toWrite, kept)
    /\ lastTime \in Times
    /\ covered \subseteq Points
    /\ out \in Seq({"object", "objectEnd", "array", "arrayEnd", "comma", "member", "name"})

Written == Len(kept) - Len(toWrite)

\* The valid ones of the first n files.
Valid(n) == {k \in 1 .. n : queue[k].valid}

\* The points that one of the first n valid inputs has toggled.
ReallyCovered(n) ==
    {p \in Points : \E k \in Valid(Len(queue)) :
        Cardinality(Valid(k)) <= n /\ queue[k].toggles[p] >= 1}

\* A count that is still positive after the cap and as a byte.
Shows(count) ==
    LET capped == IF count < FeedbackCap THEN count ELSE FeedbackCap
    IN capped % 256 \in 1 .. 127

\* The points that one of them has toggled and shows.
ShownCovered(n) ==
    {p \in Points : \E k \in Valid(Len(queue)) :
        Cardinality(Valid(k)) <= n /\ Shows(queue[k].toggles[p])}

\* The coverage that is reported is that of the inputs written so far, and in the
\* end that of all valid inputs, also if the analysis stops before the last of
\* them, for every cap: what is missing is what no valid input shows as a byte, and
\* nothing is reported that none of the inputs written so far has toggled.
CoverageOfBytes ==
    /\ pc \in {"data", "end", "done"} =>
           covered = ShownCovered(Written) /\ covered \subseteq ReallyCovered(Written)
    /\ pc = "done" => covered = ShownCovered(Len(kept))

\* "Converts COUNTS (number of times each signal toggled) to COVEREDPOINTS
\* (the set of signals which have been toggled for this input)": what is missing
\* in the end is what no valid input has toggled. With the cap of 255 that the
\* Makefile passes this is not so.
CoverageComplete ==
    /\ pc \in {"data", "end", "done"} => covered = ReallyCovered(Written)
    /\ pc = "done" => covered = ReallyCovered(Len(kept))

\* "Generates JSON file which can be plotted": the text is well-formed if the
\* campaign does not cover everything before the last of its valid inputs.  (If
\* it does, the early return leaves out the bracket that closes the array.) The
\* counts that are written are bytes.
JsonWellFormedToTheEnd ==
    /\ AnalysisTypeOK
    /\ pc = "done" /\ toWrite = <<>> => WellFormed(out)
==============================================================================
