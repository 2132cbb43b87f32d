------------------------------- MODULE AflQueue -------------------------------
(***************************************************************************)
(* The queue of afl-fuzz (-d, one instance): which inputs it keeps, how it *)
(* calibrates, trims and rates them, and which one it fuzzes next.         *)
(*                                                                         *)
(* An execution of the target is one step, and what it leaves in the       *)
(* shared map is a choice among the traces the target has for the input.   *)
(* A trace gives every byte of the map its class of hit counts, 0 for not  *)
(* hit.  An input is an opaque value with a length.                        *)
(***************************************************************************)
EXTENDS Integers, Sequences, FiniteSets, SequencesExt, FiniteSetsExt

CONSTANTS
    Inputs,
    Length,        \* the length of an input
    Cuts,          \* the inputs that remain when a block of an input is cut out
    MapSize,
    Buckets,       \* the classes of hit counts, without 0
    Targets,       \* by input: the traces that an execution of it may have
    Faulty,        \* the inputs whose executions may fail
    Faults,        \* how they may: "TMOUT", "CRASH"
    Speeds,        \* the times that calibration may measure
    Seeds,         \* the inputs in the directory of seeds
    NoInput,
    CalCycles, CalCyclesLong, CalChances,
    TrimRuns, HavocRuns, SpliceCycles,   \* bounds of the stages
    TmoutLimit, KeepUnique,
    FewPaths       \* up to so many paths none is skipped for not being favored

Bytes == 0 .. MapSize - 1
Trace == [Bytes -> Buckets \cup {0}]
NoTrace == [b \in Bytes |-> 0]

ASSUME QueueAssumption ==
    /\ MapSize \in Nat \ {0} /\ Buckets \subseteq Nat \ {0}
    /\ NoInput \notin Inputs /\ Faulty \subseteq Inputs
    /\ Faults \subseteq {"TMOUT", "CRASH"}
    /\ Length \in [Inputs -> Nat \ {0}] /\ Cuts \in [Inputs -> SUBSET Inputs]
    /\ \A i \in Inputs : \A j \in Cuts[i] : Length[j] < Length[i]
    /\ \A t \in Targets : /\ t \in [Inputs -> SUBSET (Trace \ {NoTrace})]
                          /\ \A i \in Inputs : t[i] /= {}
    /\ Speeds \subseteq Nat \ {0} /\ Seeds \in Seq(Inputs) \ {<<>>}
    /\ {CalCycles, CalCyclesLong, CalChances, HavocRuns} \subseteq Nat \ {0}
    /\ {TrimRuns, SpliceCycles, TmoutLimit, KeepUnique, FewPaths} \subseteq Nat

VARIABLES
    target,                        \* one of the Targets
    queue, virgin_bits, virgin_tmout, virgin_crash,
    unique_hangs, unique_crashes,
    top_rated,                     \* by byte: an entry, 0 for none
    score_changed, queued_favored, pending_favored, pending_not_fuzzed,
    var_bytes,
    queue_cur,                     \* 0 is the end of the list
    use_splicing, prev_queued, subseq_tmouts,
    stop_soon,
    pc,
    cal,                           \* the locals of calibrate_case
    in_buf, left, needs_write, splice_cycle     \* those of the stages

scores == <<top_rated, score_changed, queued_favored, pending_favored>>
faults == <<virgin_tmout, virgin_crash, unique_hangs, unique_crashes>>
cycle == <<queue_cur, use_splicing, prev_queued>>
stage == <<in_buf, left, needs_write, splice_cycle>>
vars == <<target, queue, virgin_bits, faults, scores, pending_not_fuzzed, var_bytes,
          cycle, subseq_tmouts, stop_soon, pc, cal, stage>>

------------------------------------------------------------------------------
(* Operators on traces and on the queue.                                   *)

Hit(trace) == {b \in Bytes : trace[b] /= 0}

\* What run_target returns: a fault and the trace.
Outcomes(input) ==
    [fault : {"NONE"}, trace : target[input]]
        \cup (IF input \in Faulty
              THEN [fault : Faults, trace : target[input] \cup {NoTrace}] ELSE {})

NewBits(virgin, trace) == {b \in Hit(trace) : trace[b] \in virgin[b]}

\* 2 for a byte never hit before, 1 for a new class of hit counts.
has_new_bits(virgin, trace) ==
    IF NewBits(virgin, trace) = {} THEN 0
    ELSE IF \E b \in Hit(trace) : virgin[b] = Buckets THEN 2 ELSE 1

Cleared(virgin, trace) == [b \in Bytes |-> virgin[b] \ {trace[b]}]

\* Counts do not matter for hangs and crashes, but "not hit" does.
simplify_trace(trace) == {<<b, trace[b] /= 0>> : b \in Bytes}

NewEntry(input) ==
    [file |-> NoInput, len |-> Length[input], cal_failed |-> 0,
     trim_done |-> FALSE, was_fuzzed |-> FALSE, has_new_cov |-> FALSE,
     var_behavior |-> FALSE, favored |-> FALSE, fs_redundant |-> FALSE,
     exec_cksum |-> NoTrace, exec_us |-> 0, trace_mini |-> {}, tc_ref |-> 0,
     mutated |-> FALSE]    \* recorded for the properties: fuzzing was done

fav_factor(entry) == entry.exec_us * entry.len

\* Mutated form: the longer or slower input wins.
WinsSlow(entries, rated, q, trace) ==
    {b \in Hit(trace) : \/ rated[b] = 0
                        \/ fav_factor(entries[q]) >= fav_factor(entries[rated[b]])}

\* The bytes for which entry q becomes top rated.
Wins(entries, rated, q, trace) ==
    {b \in Hit(trace) : \/ rated[b] = 0
                        \/ fav_factor(entries[q]) <= fav_factor(entries[rated[b]])}

\* Mutated form: the winner takes a new copy of the trace, the loser keeps its
\* reference.
ScoredWithoutRelease(entries, rated, q, trace) ==
    LET wins == Wins(entries, rated, q, trace)
    IN [entries EXCEPT ![q].tc_ref = @ + Cardinality(wins),
                       ![q].trace_mini = IF wins = {} THEN @ ELSE Hit(trace)]

\* The entries after update_bitmap_score.  The loop goes over the bytes in
\* order: q drops its trace for a new one when its only slot is the first that
\* it wins (again).
Scored(entries, rated, q, trace) ==
    LET wins == Wins(entries, rated, q, trace)
        from(k) == {b \in wins : rated[b] = k}
        renewed == /\ wins /= {}
                   /\ \/ entries[q].tc_ref = 0
                      \/ entries[q].tc_ref = 1 /\ rated[Min(wins)] = q
        lose(k) == [entries[k] EXCEPT
                       !.tc_ref = @ - Cardinality(from(k)),
                       !.trace_mini = IF /\ from(k) /= {}
                                         /\ entries[k].tc_ref = Cardinality(from(k))
                                      THEN {} ELSE @]
        win == [entries[q] EXCEPT
                   !.tc_ref = @ + Cardinality(wins \ from(q)),
                   !.trace_mini = IF renewed THEN Hit(trace) ELSE @]
    IN [k \in DOMAIN entries |-> IF k = q THEN win ELSE lose(k)]

\* Mutated form: only a byte without a previous winner makes a difference.
ChangedForNew(wins) == \E b \in wins : top_rated[b] = 0

Changed(wins) == wins /= {}

update_bitmap_score(entries, q, trace) ==
    LET wins == Wins(entries, top_rated, q, trace)
    IN /\ queue' = Scored(entries, top_rated, q, trace)
       /\ top_rated' = [b \in Bytes |-> IF b \in wins THEN q ELSE top_rated[b]]
       /\ score_changed' = (score_changed \/ Changed(wins))

\* Mutated form: every top rated entry is favored, and counted, again.
GrabAll ==
    LET grab(so_far, b) ==
            IF top_rated[b] = 0 THEN so_far
            ELSE [favored |-> Append(so_far.favored, top_rated[b]), temp_v |-> {}]
    IN FoldLeft(grab, [favored |-> <<>>, temp_v |-> Bytes],
                [n \in 1 .. MapSize |-> n - 1])

\* The winners that cull_queue grabs, in the order of the bytes; temp_v are the
\* bytes that none of them covers.
Grab ==
    LET grab(so_far, b) ==
            IF top_rated[b] = 0 \/ b \notin so_far.temp_v THEN so_far
            ELSE [favored |-> Append(so_far.favored, top_rated[b]),
                  temp_v |-> so_far.temp_v \ queue[top_rated[b]].trace_mini]
    IN FoldLeft(grab, [favored |-> <<>>, temp_v |-> Bytes],
                [n \in 1 .. MapSize |-> n - 1])

cull_queue ==
    IF ~score_changed THEN UNCHANGED <<queue, scores>>
    ELSE LET grabbed == Grab.favored
             pending == {n \in DOMAIN grabbed : ~queue[grabbed[n]].was_fuzzed}
         IN /\ queue' = [k \in DOMAIN queue |->
                            [queue[k] EXCEPT !.favored = k \in ToSet(grabbed),
                                             !.fs_redundant = k \notin ToSet(grabbed)]]
            /\ queued_favored' = Len(grabbed)
            /\ pending_favored' = Cardinality(pending)
            /\ score_changed' = FALSE
            /\ UNCHANGED top_rated

------------------------------------------------------------------------------
NoCal == [q |-> 0, caller |-> "none", input |-> NoInput, cycle |-> 0, max |-> 0,
          first |-> NoTrace, last |-> NoTrace, first_run |-> FALSE,
          new_bits |-> 0, var |-> FALSE, fault |-> "NONE"]

Init ==
    /\ target \in Targets
    /\ queue = [k \in DOMAIN Seeds |-> [NewEntry(Seeds[k]) EXCEPT !.file = Seeds[k]]]
    /\ virgin_bits = [b \in Bytes |-> Buckets]
    /\ virgin_tmout = {} /\ virgin_crash = {}     \* what was seen of them
    /\ unique_hangs = 0 /\ unique_crashes = 0
    /\ top_rated = [b \in Bytes |-> 0] /\ score_changed = FALSE
    /\ queued_favored = 0 /\ pending_favored = 0
    /\ pending_not_fuzzed = Len(Seeds)
    /\ var_bytes = {}
    /\ queue_cur = 0 /\ use_splicing = FALSE /\ prev_queued = 0
    /\ subseq_tmouts = 0 /\ stop_soon = FALSE
    /\ pc = "dry" /\ cal = NoCal
    /\ in_buf = NoInput /\ left = 0 /\ needs_write = FALSE /\ splice_cycle = 0

\* The entry of calibrate_case; trace is what the map holds at that time.
calibrate_case(entries, q, input, trace, caller) ==
    /\ queue' = [entries EXCEPT ![q].cal_failed = @ + 1]
    /\ cal' = [NoCal EXCEPT
                  !.q = q, !.caller = caller, !.input = input, !.max = CalCycles,
                  !.first_run = entries[q].exec_cksum = NoTrace,
                  !.first = IF entries[q].exec_cksum = NoTrace THEN NoTrace ELSE trace]
    /\ pc' = "calibrate"

\* One execution of the loop.
CalibrateRun ==
    /\ pc = "calibrate" /\ cal.cycle < cal.max
    /\ \E run \in Outcomes(cal.input) :
        IF stop_soon \/ run.fault /= "NONE"
        THEN /\ cal' = [cal EXCEPT !.fault = run.fault]
             /\ pc' = "calibrated"
             /\ UNCHANGED <<queue, virgin_bits, var_bytes>>
        ELSE LET trace == run.trace
                 known == queue[cal.q].exec_cksum
                 differs == known /= trace
                 hnb == has_new_bits(virgin_bits, trace)
                 varied == {b \in Bytes : cal.first[b] /= trace[b]} \ var_bytes
                 variable == differs /\ known /= NoTrace
             IN /\ virgin_bits' = IF differs THEN Cleared(virgin_bits, trace)
                                  ELSE virgin_bits
                /\ var_bytes' = IF variable THEN var_bytes \cup varied ELSE var_bytes
                /\ queue' = IF known = NoTrace
                            THEN [queue EXCEPT ![cal.q].exec_cksum = trace] ELSE queue
                /\ cal' = [cal EXCEPT
                              !.cycle = @ + 1, !.last = trace,
                              !.max = IF variable /\ varied /= {}
                                      THEN CalCyclesLong ELSE @,
                              !.first = IF known = NoTrace THEN trace ELSE @,
                              !.new_bits = IF differs THEN Max({@, hnb}) ELSE @,
                              !.var = @ \/ variable]
                /\ UNCHANGED pc
    /\ UNCHANGED <<faults, scores, pending_not_fuzzed, cycle, subseq_tmouts,
                   stop_soon, stage>>

\* The loop has ended: the entry is rated.
CalibrateScore ==
    /\ pc = "calibrate" /\ cal.cycle >= cal.max
    /\ \E us \in Speeds :
        update_bitmap_score([queue EXCEPT ![cal.q].exec_us = us,
                                          ![cal.q].cal_failed = 0], cal.q, cal.last)
    /\ cal' = [cal EXCEPT !.fault = IF cal.first_run /\ cal.new_bits = 0
                                    THEN "NOBITS" ELSE "NONE"]
    /\ pc' = "calibrated"
    /\ UNCHANGED <<virgin_bits, faults, queued_favored, pending_favored,
                   pending_not_fuzzed, var_bytes, cycle, subseq_tmouts, stop_soon,
                   stage>>

\* What follows the label abort_calibration.
Calibrated ==
    [queue EXCEPT ![cal.q].has_new_cov = @ \/ cal.new_bits = 2,
                  ![cal.q].var_behavior = @ \/ cal.var]

------------------------------------------------------------------------------
(* perform_dry_run, and the way into the main loop.                        *)

DryRun ==
    /\ pc = "dry" /\ cal.q < Len(queue)
    /\ calibrate_case(queue, cal.q + 1, queue[cal.q + 1].file, NoTrace, "dry")
    /\ UNCHANGED <<virgin_bits, faults, scores, pending_not_fuzzed, var_bytes,
                   cycle, subseq_tmouts, stop_soon, stage>>

\* A seed that fails ends afl-fuzz; one that shows nothing new does not.
AfterDryRun ==
    /\ pc = "calibrated" /\ cal.caller = "dry"
    /\ queue' = Calibrated
    /\ pc' = IF stop_soon THEN "start"
             ELSE IF cal.fault \in {"NONE", "NOBITS"} THEN "dry" ELSE "fatal"
    /\ cal' = [NoCal EXCEPT !.q = IF stop_soon THEN 0 ELSE cal.q]
    /\ UNCHANGED <<virgin_bits, faults, scores, pending_not_fuzzed, var_bytes,
                   cycle, subseq_tmouts, stop_soon, stage>>

Start ==
    /\ \/ pc = "start"
       \/ pc = "dry" /\ cal.q = Len(queue)
    /\ cull_queue
    /\ cal' = NoCal
    /\ pc' = IF stop_soon THEN "end" ELSE "loop"
    /\ UNCHANGED <<virgin_bits, faults, pending_not_fuzzed, var_bytes, cycle,
                   subseq_tmouts, stop_soon, stage>>

------------------------------------------------------------------------------
(* The main loop and fuzz_one.                                             *)

\* A cycle in which nothing was found turns splicing on.
Loop ==
    /\ pc = "loop"
    /\ cull_queue
    /\ IF queue_cur /= 0 THEN UNCHANGED cycle
       ELSE /\ queue_cur' = 1
            /\ use_splicing' = (use_splicing \/ Len(queue) = prev_queued)
            /\ prev_queued' = Len(queue)
    /\ pc' = "fuzz"
    /\ UNCHANGED <<virgin_bits, faults, pending_not_fuzzed, var_bytes,
                   subseq_tmouts, stop_soon, cal, stage>>

\* Mutated form: a favored entry may be skipped, too.
SkippedOften == \/ pending_favored > 0
                \/ ~queue[queue_cur].favored /\ Len(queue) > FewPaths

\* May fuzz_one return at once?  The throw of the dice is a choice.
Skipped ==
    IF pending_favored > 0
    THEN queue[queue_cur].was_fuzzed \/ ~queue[queue_cur].favored
    ELSE ~queue[queue_cur].favored /\ Len(queue) > FewPaths

Skip ==
    /\ pc = "fuzz" /\ Skipped
    /\ pc' = "next"
    /\ UNCHANGED <<queue, virgin_bits, faults, scores, pending_not_fuzzed,
                   var_bytes, cycle, subseq_tmouts, stop_soon, cal, stage>>

\* fuzz_one reads the input and resets its locals.
OpenInput ==
    /\ in_buf' = queue[queue_cur].file
    /\ left' = TrimRuns /\ needs_write' = FALSE /\ splice_cycle' = 0
    /\ subseq_tmouts' = 0

FuzzOne ==
    /\ pc = "fuzz"
    /\ OpenInput
    /\ LET failed == queue[queue_cur].cal_failed
       IN IF failed \in 1 .. CalChances - 1
          THEN calibrate_case([queue EXCEPT ![queue_cur].exec_cksum = NoTrace],
                              queue_cur, queue[queue_cur].file, NoTrace, "retry")
          ELSE /\ pc' = IF failed /= 0 THEN "abandon" ELSE "trim"
               /\ UNCHANGED <<queue, cal>>
    /\ UNCHANGED <<virgin_bits, faults, scores, pending_not_fuzzed, var_bytes,
                   cycle, stop_soon>>

\* A new calibration that shows nothing new counts as failed.
AfterRetry ==
    /\ pc = "calibrated" /\ cal.caller = "retry"
    /\ queue' = Calibrated
    /\ pc' = IF stop_soon \/ cal.fault /= "NONE" THEN "abandon" ELSE "trim"
    /\ cal' = NoCal
    /\ UNCHANGED <<virgin_bits, faults, scores, pending_not_fuzzed, var_bytes,
                   cycle, subseq_tmouts, stop_soon, stage>>

\* Does the checksum say that the cut made no difference?
SameTrace(trace) == trace = queue[queue_cur].exec_cksum

\* One execution of trim_case.
TrimRun ==
    /\ pc = "trim" /\ ~queue[queue_cur].trim_done /\ left > 0
    /\ \E cut \in Cuts[in_buf] : \E run \in Outcomes(cut) :
        IF stop_soon
        THEN pc' = "abandon" /\ UNCHANGED <<queue, in_buf, left, needs_write>>
        ELSE /\ left' = left - 1
             /\ UNCHANGED pc
             /\ IF SameTrace(run.trace)
                THEN /\ queue' = [queue EXCEPT ![queue_cur].len = Length[cut]]
                     /\ in_buf' = cut
                     /\ needs_write' = TRUE
                ELSE UNCHANGED <<queue, in_buf, needs_write>>
    /\ UNCHANGED <<virgin_bits, faults, scores, pending_not_fuzzed, var_bytes,
                   cycle, subseq_tmouts, stop_soon, cal, splice_cycle>>

\* Mutated form: the shorter input is not written to the file.
TrimmedNotWritten ==
    [queue EXCEPT ![queue_cur].trim_done = @ \/ ~stop_soon]

\* Trimming may end after any number of executions.
Trimmed ==
    [queue EXCEPT ![queue_cur].trim_done = @ \/ ~stop_soon,
                  ![queue_cur].file = IF needs_write THEN in_buf ELSE @]

TrimEnd ==
    /\ pc = "trim"
    /\ IF needs_write
       THEN update_bitmap_score(Trimmed, queue_cur, queue[queue_cur].exec_cksum)
       ELSE queue' = Trimmed /\ UNCHANGED <<top_rated, score_changed>>
    /\ pc' = IF stop_soon /\ ~queue[queue_cur].trim_done THEN "abandon" ELSE "havoc"
    /\ left' = HavocRuns
    /\ UNCHANGED <<virgin_bits, faults, queued_favored, pending_favored,
                   pending_not_fuzzed, var_bytes, cycle, subseq_tmouts, stop_soon,
                   cal, in_buf, needs_write, splice_cycle>>

------------------------------------------------------------------------------
(* One mutated input: common_fuzz_stuff and save_if_interesting.           *)

\* keep_as_crash
SaveCrash(trace) ==
    IF unique_crashes >= KeepUnique \/ simplify_trace(trace) \subseteq virgin_crash
    THEN UNCHANGED <<virgin_crash, unique_crashes>>
    ELSE /\ virgin_crash' = virgin_crash \cup simplify_trace(trace)
         /\ unique_crashes' = unique_crashes + 1

\* A hang is confirmed by a second execution unless the timeout is generous.
SaveHang(input, trace) ==
    IF unique_hangs >= KeepUnique \/ simplify_trace(trace) \subseteq virgin_tmout
    THEN UNCHANGED faults
    ELSE /\ virgin_tmout' = virgin_tmout \cup simplify_trace(trace)
         /\ \E run \in Outcomes(input) \cup {[fault |-> "TMOUT", trace |-> trace]} :
              /\ unique_hangs' = unique_hangs + (IF run.fault = "TMOUT" THEN 1 ELSE 0)
              /\ IF run.fault = "CRASH" THEN SaveCrash(run.trace)
                 ELSE UNCHANGED <<virgin_crash, unique_crashes>>

\* Mutated form: a failed execution makes its bits known, too.
ClearsAlways(fault, trace) == Cleared(virgin_bits, trace)

\* The bits that are still new after an execution.
ClearsBits(fault, trace) ==
    IF fault = "NONE" THEN Cleared(virgin_bits, trace) ELSE virgin_bits

\* Mutated form: only an entry with new bytes is counted.
CountedWhenNew(hnb) == pending_not_fuzzed + (IF hnb = 2 THEN 1 ELSE 0)

\* pending_not_fuzzed after add_to_queue
Counted(hnb) == pending_not_fuzzed + 1

save_if_interesting(input, fault, trace) ==
    LET hnb == has_new_bits(virgin_bits, trace)
        tried == [queue EXCEPT ![queue_cur].mutated = TRUE]
        added == Append(tried, [NewEntry(input) EXCEPT
                                   !.has_new_cov = (hnb = 2), !.exec_cksum = trace])
    IN /\ virgin_bits' = ClearsBits(fault, trace)
       /\ IF fault = "NONE" /\ hnb /= 0
          THEN /\ pending_not_fuzzed' = Counted(hnb)
               /\ calibrate_case(added, Len(added), input, trace, "save")
               /\ UNCHANGED left
          ELSE /\ queue' = tried
               /\ left' = left - 1
               /\ UNCHANGED <<pending_not_fuzzed, cal, pc>>
       /\ CASE fault = "TMOUT" -> SaveHang(input, trace)
            [] fault = "CRASH" -> SaveCrash(trace)
                                  /\ UNCHANGED <<virgin_tmout, unique_hangs>>
            [] OTHER -> UNCHANGED faults

\* One execution of the havoc stage; what havoc makes of an input is any input.
FuzzRun ==
    /\ pc = "havoc" /\ left > 0
    /\ \E input \in Inputs : \E run \in Outcomes(input) :
        IF stop_soon \/ (run.fault = "TMOUT" /\ subseq_tmouts > TmoutLimit)
        THEN /\ pc' = "abandon"
             /\ queue' = [queue EXCEPT ![queue_cur].mutated = @ \/ ~stop_soon]
             /\ UNCHANGED <<virgin_bits, faults, pending_not_fuzzed, cal, left,
                            subseq_tmouts>>
        ELSE /\ subseq_tmouts' = IF run.fault = "TMOUT" THEN subseq_tmouts + 1 ELSE 0
             /\ save_if_interesting(input, run.fault, run.trace)
    /\ UNCHANGED <<scores, var_bytes, cycle, stop_soon, in_buf, needs_write,
                   splice_cycle>>

\* The new entry gets its file, whatever calibration said, and the stage
\* becomes longer.
AfterSave ==
    /\ pc = "calibrated" /\ cal.caller = "save"
    /\ queue' = [Calibrated EXCEPT ![cal.q].file = cal.input]
    /\ cal' = NoCal
    /\ pc' = "havoc"
    /\ left' = left - 1 + HavocRuns
    /\ UNCHANGED <<virgin_bits, faults, scores, pending_not_fuzzed, var_bytes,
                   cycle, subseq_tmouts, stop_soon, in_buf, needs_write,
                   splice_cycle>>

MaySplice == /\ use_splicing /\ splice_cycle < SpliceCycles
             /\ Len(queue) > 1 /\ queue[queue_cur].len > 1

\* The entry to splice with: the first from tid on that is long enough.
Partners(tid) == {k \in tid .. Len(queue) : k /= queue_cur /\ queue[k].len > 1}

\* Is there as much in the file of an entry as the program will read?
Readable(k) == queue[k].file /= NoInput /\ Length[queue[k].file] >= queue[k].len

Splice ==
    /\ pc = "havoc" /\ left = 0 /\ MaySplice
    /\ splice_cycle' = splice_cycle + 1
    /\ \E tid \in DOMAIN queue \ {queue_cur} :
        IF Partners(tid) = {} THEN UNCHANGED <<pc, left>>
        ELSE IF ~Readable(Min(Partners(tid))) THEN pc' = "fatal" /\ UNCHANGED left
        ELSE left' \in {0, HavocRuns} /\ UNCHANGED pc     \* 0: no place to split
    /\ UNCHANGED <<queue, virgin_bits, faults, scores, pending_not_fuzzed,
                   var_bytes, cycle, subseq_tmouts, stop_soon, cal, in_buf,
                   needs_write>>

FuzzEnd ==
    /\ pc = "havoc" /\ left = 0 /\ ~MaySplice
    /\ pc' = "abandon"
    /\ UNCHANGED <<queue, virgin_bits, faults, scores, pending_not_fuzzed,
                   var_bytes, cycle, subseq_tmouts, stop_soon, cal, stage>>

\* What follows the label abandon_entry.
Abandon ==
    /\ pc = "abandon"
    /\ IF \/ stop_soon \/ queue[queue_cur].cal_failed /= 0
          \/ queue[queue_cur].was_fuzzed
       THEN UNCHANGED <<queue, pending_not_fuzzed, pending_favored>>
       ELSE /\ queue' = [queue EXCEPT ![queue_cur].was_fuzzed = TRUE]
            /\ pending_not_fuzzed' = pending_not_fuzzed - 1
            /\ pending_favored' = IF queue[queue_cur].favored
                                  THEN pending_favored - 1 ELSE pending_favored
    /\ pc' = "next"
    /\ in_buf' = NoInput /\ left' = 0 /\ needs_write' = FALSE /\ splice_cycle' = 0
    /\ subseq_tmouts' = 0
    /\ UNCHANGED <<virgin_bits, faults, top_rated, score_changed, queued_favored,
                   var_bytes, cycle, stop_soon, cal>>

NextEntry ==
    /\ pc = "next"
    /\ pc' = IF stop_soon THEN "end" ELSE "loop"
    /\ queue_cur' = IF stop_soon THEN queue_cur
                    ELSE IF queue_cur < Len(queue) THEN queue_cur + 1 ELSE 0
    /\ UNCHANGED <<queue, virgin_bits, faults, scores, pending_not_fuzzed,
                   var_bytes, use_splicing, prev_queued, subseq_tmouts, stop_soon,
                   cal, stage>>

\* handle_stop_sig
Interrupt ==
    /\ ~stop_soon /\ pc \notin {"end", "fatal"}
    /\ stop_soon' = TRUE
    /\ UNCHANGED <<target, queue, virgin_bits, faults, scores, pending_not_fuzzed,
                   var_bytes, cycle, subseq_tmouts, pc, cal, stage>>

Ended == pc \in {"end", "fatal"} /\ UNCHANGED vars

Fuzz ==
    /\ UNCHANGED target
    /\ \/ CalibrateRun \/ CalibrateScore
       \/ DryRun \/ AfterDryRun \/ Start
       \/ Loop \/ Skip \/ FuzzOne \/ AfterRetry \/ TrimRun \/ TrimEnd
       \/ FuzzRun \/ AfterSave \/ Splice \/ FuzzEnd \/ Abandon \/ NextEntry

Next == Fuzz \/ Interrupt \/ Ended

\* afl-fuzz keeps running; nobody has to interrupt it.
Spec == Init /\ [][Next]_vars /\ WF_vars(Fuzz)

------------------------------------------------------------------------------
Entry ==
    [file : Inputs \cup {NoInput}, len : Nat, cal_failed : Nat,
     trim_done : BOOLEAN, was_fuzzed : BOOLEAN, has_new_cov : BOOLEAN,
     var_behavior : BOOLEAN, favored : BOOLEAN, fs_redundant : BOOLEAN,
     exec_cksum : Trace, exec_us : Speeds \cup {0},
     trace_mini : SUBSET Bytes, tc_ref : 0 .. MapSize, mutated : BOOLEAN]

\* The types; no counter of the queue ever drops below zero, and no index is
\* past its end.
TypeOK ==
    /\ queue \in Seq(Entry)
    /\ virgin_bits \in [Bytes -> SUBSET Buckets]
    /\ virgin_tmout \subseteq Bytes \X BOOLEAN /\ virgin_crash \subseteq Bytes \X BOOLEAN
    /\ unique_hangs \in 0 .. KeepUnique /\ unique_crashes \in 0 .. KeepUnique
    /\ top_rated \in [Bytes -> 0 .. Len(queue)]
    /\ score_changed \in BOOLEAN /\ use_splicing \in BOOLEAN
    /\ stop_soon \in BOOLEAN /\ needs_write \in BOOLEAN
    /\ queued_favored \in 0 .. MapSize /\ pending_favored \in 0 .. MapSize
    /\ pending_not_fuzzed \in 0 .. Len(queue)
    /\ var_bytes \subseteq Bytes
    /\ queue_cur \in 0 .. Len(queue) /\ prev_queued \in 0 .. Len(queue)
    /\ subseq_tmouts \in Nat /\ left \in Nat /\ splice_cycle \in 0 .. SpliceCycles
    /\ in_buf \in Inputs \cup {NoInput}
    /\ cal.q \in 0 .. Len(queue)
    /\ cal.caller \in {"none", "dry", "retry", "save"}

\* Does the target always behave the same?
Stable == \A i \in Inputs : \A s, t \in target[i] : s = t

\* No coverage is lost: whatever is no longer new can be seen again by running
\* an input of the queue, although inputs are trimmed, calibration may fail at
\* any execution, and hangs and crashes have maps of their own. (An input whose
\* trace varies may be trimmed to one that never takes the other path.)
NothingLost ==
    Stable => \A b \in Bytes, n \in Buckets :
        n \notin virgin_bits[b] =>
            \E k \in DOMAIN queue :
                LET input == IF queue[k].file = NoInput THEN cal.input
                             ELSE queue[k].file
                IN \E trace \in target[input] : trace[b] = n

\* The counters count. An entry keeps its trace exactly as long as it is top rated
\* for some byte, and its reference count says for how many: cull_queue never
\* follows a trace that was freed, and none is leaked. The number of entries that
\* wait to be fuzzed is right through failed calibrations, retries and interrupts.
CountersExact ==
    /\ TypeOK
    /\ \A k \in DOMAIN queue :
          /\ queue[k].tc_ref = Cardinality({b \in Bytes : top_rated[b] = k})
          /\ (queue[k].trace_mini = {}) = (queue[k].tc_ref = 0)
    /\ pending_not_fuzzed = Cardinality({k \in DOMAIN queue : ~queue[k].was_fuzzed})

\* "Paths deemed favorable", "Pending favored paths": an entry that is favored
\* is counted once, and leaves the pending ones when it is fuzzed. With a target
\* whose traces vary cull_queue may count an entry twice.
FavoredExact ==
    LET favored == {k \in DOMAIN queue : queue[k].favored}
        pending == {k \in favored : ~queue[k].was_fuzzed}
    IN IF Stable
       THEN queued_favored = Cardinality(favored) /\ pending_favored = Cardinality(pending)
       ELSE queued_favored >= Cardinality(favored) /\ pending_favored >= Cardinality(pending)

\* The favored entries hit together every byte that has a top rated entry, as far
\* as a trace that was seen once can tell.
FavoredCover ==
    ~score_changed =>
        \A b \in Bytes : top_rated[b] /= 0 =>
            \E k \in DOMAIN queue :
                queue[k].favored /\ (b \in queue[k].trace_mini \/ k = top_rated[b])

\* The top rated entry of a byte is the fastest and shortest of all calibrated
\* entries that hit it, also after entries have become shorter. (What an entry
\* hits is only known if it always does the same.)
BestRated ==
    Stable /\ pc /= "trim" /\ ~stop_soon =>
        \A k \in DOMAIN queue : queue[k].exec_us /= 0 =>
            \A b \in Hit(queue[k].exec_cksum) :
                /\ top_rated[b] /= 0
                /\ fav_factor(queue[top_rated[b]]) <= fav_factor(queue[k])

\* A splice or an mmap never reads past the end of a file: outside of trimming
\* every file has the length that the queue gives it, except for an entry whose
\* first calibration is running.
FilesComplete ==
    pc /= "trim" /\ ~stop_soon =>
        \A k \in DOMAIN queue :
            IF queue[k].file = NoInput THEN k = cal.q /\ cal.caller = "save"
            ELSE Length[queue[k].file] = queue[k].len

\* An entry is not marked as fuzzed before a mutation of it was executed.
FuzzedMeansMutated ==
    \A k \in DOMAIN queue : queue[k].was_fuzzed => queue[k].mutated

Waiting(k) == k \in DOMAIN queue /\ queue[k].favored /\ ~queue[k].was_fuzzed

\* A favored entry is fuzzed unless it stops being favored, or afl-fuzz ends:
\* dice decide which entries are skipped, but never skip one of these.
FavoredFuzzed ==
    \A k \in 1 .. Len(Seeds) + MapSize * Cardinality(Buckets) :
        Waiting(k) ~> ~Waiting(k) \/ stop_soon
==============================================================================
