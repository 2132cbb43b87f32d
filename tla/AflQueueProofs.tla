----------------------------- MODULE AflQueueProofs -----------------------------
(***************************************************************************)
(* Proofs about AflQueue, for every set of inputs, every target, every map *)
(* and every bound on the stages: the parts of IInv one by one, on what    *)
(* AflQueueSteps says of each action, and then the theorems.               *)
(***************************************************************************)
EXTENDS AflQueueSteps

------------------------------------------------------------------------------
(* Reference counts and the entries that wait.                             *)

\* What a step does to traces and reference counts.
LEMMA RefsSteps ==
    ASSUME QueueAssumption, Types, Control, [Next]_vars
    PROVE  \/ RefsKept
           \/ \E q, r, e, trace, wins : Rescored(q, r, e, trace, wins) /\ Refs(r, queue[q])
           \/ /\ UNCHANGED top_rated
              /\ \E input \in Inputs, trace \in Trace, tried \in Seq(Fields), r \in Fields :
                    FuzzAdds(input, trace, tried, r)
<1>1. CASE Fuzz
  <2>1. UNCHANGED target
    BY <1>1 DEF Fuzz
  <2>2. CASE CalibrateRun
    BY <2>1, <2>2, CalibrateRunDoes
  <2>3. CASE CalibrateScore
    BY <2>1, <2>3, CalibrateScoreRows
  <2>4. CASE DryRun
    BY <2>1, <2>4, DryRunDoes
  <2>5. CASE AfterDryRun \/ AfterRetry
    BY <2>1, <2>5, AfterCalibrationDoes
  <2>6. CASE Start \/ Loop
    BY <2>1, <2>6, CullDoes
  <2>7. CASE Skip \/ Splice \/ FuzzEnd \/ NextEntry
    BY <2>1, <2>7, QuietDoes
  <2>8. CASE FuzzOne
    BY <2>1, <2>8, FuzzOneDoes
  <2>9. CASE TrimRun
    BY <2>1, <2>9, TrimRunDoes
  <2>10. CASE TrimEnd
    <3>1. PICK r \in Fields :
              /\ Refs(r, queue[queue_cur])
              /\ \/ \E e, wins : Rescored(queue_cur, r, e, queue[queue_cur].exec_cksum, wins)
                 \/ Puts(queue_cur, r) /\ UNCHANGED top_rated
      BY <2>1, <2>10, TrimEndRows
    <3>2. CASE \E e, wins : Rescored(queue_cur, r, e, queue[queue_cur].exec_cksum, wins)
      BY <3>1, <3>2
    <3>3. CASE Puts(queue_cur, r) /\ UNCHANGED top_rated
      BY <3>1, <3>3 DEF Puts, RefsKept, Refs
    <3>4. QED BY <3>1, <3>2, <3>3
  <2>11. CASE FuzzRun
    BY <2>1, <2>11, FuzzRunDoes
  <2>12. CASE AfterSave
    BY <2>1, <2>12, AfterSaveDoes
  <2>13. CASE Abandon
    BY <2>1, <2>13, AbandonDoes
  <2>14. QED
    BY <1>1, <2>2, <2>3, <2>4, <2>5, <2>6, <2>7, <2>8, <2>9, <2>10, <2>11, <2>12, <2>13
       DEF Fuzz
<1>2. CASE Interrupt
  BY <1>2, InterruptDoes
<1>3. CASE UNCHANGED vars
  <2>1. UNCHANGED <<queue, top_rated>>
    BY <1>3 DEF vars, scores
  <2>2. RefsKept
    BY <2>1 DEF RefsKept, Refs
  <2>3. QED BY <2>2
<1>4. QED BY <1>1, <1>2, <1>3 DEF Next, Ended

LEMMA ReferencesStep ==
    ASSUME QueueAssumption, Types, Control, Types', References, [Next]_vars
    PROVE  References'
<1>1. DOMAIN queue = 1 .. Len(queue) /\ Len(queue) \in Nat
  BY EntryTypes
<1>2. DOMAIN queue' = 1 .. Len(queue')
  <2>1. queue' \in Seq(Fields)
    BY DEF Types
  <2>2. QED BY <2>1
<1>3. Counts(queue, top_rated)
  BY <1>1 DEF References, Counts, Count
<1>4. ASSUME Counts(queue', top_rated') PROVE References'
  BY <1>2, <1>4 DEF References, Counts, Count
<1>5. CASE RefsKept
  <2>1. Counts(queue', top_rated')
    BY <1>3, <1>5 DEF Counts, RefsKept, Refs
  <2>2. QED BY <1>4, <2>1
<1>6. ASSUME NEW q, NEW r, NEW e, NEW trace, NEW wins,
             Rescored(q, r, e, trace, wins), Refs(r, queue[q])
      PROVE  References'
  <2>1. /\ e \in Seq(Fields) /\ Len(e) = Len(queue) /\ e[q] = r
        /\ \A k \in 1 .. Len(queue) : k /= q => e[k] = queue[k]
        /\ trace \in Trace /\ q \in 1 .. Len(e)
        /\ wins = Wins(e, top_rated, q, trace)
        /\ queue' = Scored(e, top_rated, q, trace)
        /\ top_rated' = [b \in Bytes |-> IF b \in wins THEN q ELSE top_rated[b]]
    BY <1>6 DEF Rescored
  <2>2. top_rated \in [Bytes -> 0 .. Len(e)]
    BY <2>1 DEF Types
  <2>3. Counts(e, top_rated)
    <3>1. \A k \in 1 .. Len(queue) : Refs(e[k], queue[k])
      BY <1>6, <2>1 DEF Refs
    <3>2. QED BY <1>3, <2>1, <3>1, ZenonT(30) DEF Counts, Refs
  <2>4. PICK f : f = queue'
    OBVIOUS
  <2>5. PICK now : now = top_rated'
    OBVIOUS
  <2>6. PICK rated : rated = top_rated
    OBVIOUS
  <2>7. /\ rated \in [Bytes -> 0 .. Len(e)] /\ Counts(e, rated)
        /\ f = Scored(e, rated, q, trace)
    BY <2>1, <2>2, <2>3, <2>4, <2>6
  <2>a. now = RatedNow(e, rated, q, trace)
    BY <2>1, <2>5, <2>6 DEF RatedNow
  <2>b. Counts(Scored(e, rated, q, trace), RatedNow(e, rated, q, trace))
    BY <2>1, <2>7, ScoredReferences
  <2>8. Counts(f, now)
    BY <2>7, <2>a, <2>b
  <2>9. QED BY <1>4, <2>4, <2>5, <2>8
<1>7. ASSUME UNCHANGED top_rated, NEW input \in Inputs, NEW trace \in Trace,
             NEW tried \in Seq(Fields), NEW r \in Fields, FuzzAdds(input, trace, tried, r)
      PROVE  References'
  <2>1. PICK n \in Nat : n = Len(queue)
    BY <1>1
  <2>2. /\ Len(queue') = n + 1 /\ queue'[n + 1] = r
        /\ \A k \in 1 .. n : Refs(queue'[k], queue[k])
        /\ r.tc_ref = 0 /\ r.trace_mini = {}
    BY <1>7, <2>1 DEF FuzzAdds
  <2>3. \A k \in 1 .. n + 1 : k \in 1 .. n \/ k = n + 1
    BY UpTo
  <2>4. Count(top_rated, n + 1) = 0
    <3>1. top_rated \in [Bytes -> 0 .. n]
      BY <2>1 DEF Types
    <3>2. {b \in Bytes : top_rated[b] = n + 1} = {}
      BY <3>1
    <3>3. QED BY <3>2, FS_EmptySet DEF Count
  <2>5. ASSUME NEW k \in 1 .. n + 1
        PROVE  /\ queue'[k].tc_ref = Count(top_rated, k)
               /\ (queue'[k].trace_mini = {}) = (queue'[k].tc_ref = 0)
    <3>1. CASE k \in 1 .. n
      BY <1>3, <2>1, <2>2, <3>1, ZenonT(30) DEF Counts, Refs
    <3>2. CASE k = n + 1
      BY <2>2, <2>4, <3>2
    <3>3. QED BY <2>3, <3>1, <3>2
  <2>6. Counts(queue', top_rated')
    BY <1>7, <2>2, <2>5 DEF Counts
  <2>7. QED BY <1>4, <2>6, SMTT(30)
<1>8. QED BY <1>5, <1>6, <1>7, RefsSteps

\* What a step does to the marks.
LEMMA MarksSteps ==
    ASSUME QueueAssumption, Types, Control, [Next]_vars
    PROVE  \/ MarksKept
           \/ /\ UNCHANGED <<queued_favored, pending_favored>>
              /\ \E input \in Inputs, trace \in Trace, tried \in Seq(Fields), r \in Fields :
                    FuzzAdds(input, trace, tried, r)
           \/ /\ Len(queue') = Len(queue) /\ UNCHANGED pending_not_fuzzed
              /\ \A k \in 1 .. Len(queue) : queue'[k].was_fuzzed = queue[k].was_fuzzed
              /\ \E g : Culls(g)
           \/ \E q \in 1 .. Len(queue), r \in Fields :
                 /\ Puts(q, r) /\ UNCHANGED queued_favored
                 /\ ~queue[q].was_fuzzed /\ r.was_fuzzed /\ r.favored = queue[q].favored
                 /\ pending_not_fuzzed' = pending_not_fuzzed - 1
                 /\ pending_favored' = IF queue[q].favored
                                       THEN pending_favored - 1 ELSE pending_favored
<1>1. CASE Fuzz
  <2>1. UNCHANGED target
    BY <1>1 DEF Fuzz
  <2>2. CASE CalibrateRun
    BY <2>1, <2>2, CalibrateRunDoes
  <2>3. CASE CalibrateScore
    BY <2>1, <2>3, CalibrateScoreDoes
  <2>4. CASE DryRun
    BY <2>1, <2>4, DryRunDoes
  <2>5. CASE AfterDryRun \/ AfterRetry
    BY <2>1, <2>5, AfterCalibrationDoes
  <2>6. CASE Start \/ Loop
    <3>1. /\ RowsKept /\ UNCHANGED pending_not_fuzzed
          /\ \A k \in 1 .. Len(queue) : queue'[k].was_fuzzed = queue[k].was_fuzzed
          /\ MarksKept \/ \E g : Culls(g)
      BY <2>1, <2>6, CullDoes
    <3>2. QED BY <3>1 DEF RowsKept
  <2>7. CASE Skip \/ Splice \/ FuzzEnd \/ NextEntry
    BY <2>1, <2>7, QuietDoes
  <2>8. CASE FuzzOne
    BY <2>1, <2>8, FuzzOneDoes
  <2>9. CASE TrimRun
    BY <2>1, <2>9, TrimRunDoes
  <2>10. CASE TrimEnd
    BY <2>1, <2>10, TrimEndDoes
  <2>11. CASE FuzzRun
    BY <2>1, <2>11, FuzzRunDoes
  <2>12. CASE AfterSave
    BY <2>1, <2>12, AfterSaveDoes
  <2>13. CASE Abandon
    <3>1. UNCHANGED queued_favored /\ queue_cur \in 1 .. Len(queue)
      BY <2>1, <2>13, AbandonDoes
    <3>2. \/ MarksKept
          \/ \E r \in Fields :
                 /\ queue' = [queue EXCEPT ![queue_cur] = r]
                 /\ ~queue[queue_cur].was_fuzzed /\ r.was_fuzzed
                 /\ r.favored = queue[queue_cur].favored
                 /\ pending_not_fuzzed' = pending_not_fuzzed - 1
                 /\ pending_favored' = IF queue[queue_cur].favored
                                       THEN pending_favored - 1 ELSE pending_favored
      BY <2>1, <2>13, AbandonDoes
    <3>3. QED BY <3>1, <3>2, PutsIs
  <2>14. QED
    BY <1>1, <2>2, <2>3, <2>4, <2>5, <2>6, <2>7, <2>8, <2>9, <2>10, <2>11, <2>12, <2>13
       DEF Fuzz
<1>2. CASE Interrupt
  BY <1>2, InterruptDoes
<1>3. CASE UNCHANGED vars
  <2>1. UNCHANGED <<queue, queued_favored, pending_favored, pending_not_fuzzed>>
    BY <1>3 DEF vars, scores
  <2>2. MarksKept
    BY <2>1 DEF MarksKept, Marks
  <2>3. QED BY <2>2
<1>4. QED BY <1>1, <1>2, <1>3 DEF Next, Ended

LEMMA PendingStep ==
    ASSUME QueueAssumption, Types, Control, Types', Pending, [Next]_vars
    PROVE  Pending'
<1>1. PICK n \in Nat : n = Len(queue) /\ DOMAIN queue = 1 .. n
  BY EntryTypes
<1>2. DOMAIN queue' = 1 .. Len(queue')
  <2>1. queue' \in Seq(Fields)
    BY DEF Types
  <2>2. QED BY <2>1
<1>3. PICK wait : wait = {k \in 1 .. n : ~queue[k].was_fuzzed}
  OBVIOUS
<1>4. PICK after : after = {k \in DOMAIN queue' : ~queue'[k].was_fuzzed}
  OBVIOUS
<1>5. IsFiniteSet(wait) /\ pending_not_fuzzed = Cardinality(wait)
  <2>1. IsFiniteSet(1 .. n)
    BY FS_Interval
  <2>2. wait \in SUBSET (1 .. n)
    BY <1>3
  <2>3. IsFiniteSet(wait)
    BY <2>1, <2>2, FS_Subset
  <2>4. QED BY <1>1, <1>3, <2>3 DEF Pending
<1>6. ASSUME pending_not_fuzzed' = Cardinality(after) PROVE Pending'
  BY <1>4, <1>6 DEF Pending
<1>7. CASE /\ Len(queue') = n /\ UNCHANGED pending_not_fuzzed
           /\ \A k \in 1 .. n : queue'[k].was_fuzzed = queue[k].was_fuzzed
  <2>1. after = wait
    BY <1>2, <1>3, <1>4, <1>7
  <2>2. QED BY <1>5, <1>6, <1>7, <2>1
<1>8. ASSUME NEW input \in Inputs, NEW trace \in Trace, NEW tried \in Seq(Fields),
             NEW r \in Fields, FuzzAdds(input, trace, tried, r)
      PROVE  Pending'
  <2>1. /\ Len(queue') = n + 1 /\ queue'[n + 1] = r /\ ~r.was_fuzzed
        /\ \A k \in 1 .. n : queue'[k].was_fuzzed = queue[k].was_fuzzed
        /\ pending_not_fuzzed' = pending_not_fuzzed + 1
    BY <1>1, <1>8, ZenonT(30) DEF FuzzAdds, Marks
  <2>2. \A k \in 1 .. n + 1 : k \in 1 .. n \/ k = n + 1
    BY UpTo
  <2>3. after = wait \cup {n + 1} /\ n + 1 \notin wait
    <3>1. n + 1 \notin 1 .. n /\ n + 1 \in 1 .. n + 1 /\ 1 .. n \subseteq 1 .. n + 1
      OBVIOUS
    <3>2. \A k \in 1 .. n : k \in wait <=> ~queue[k].was_fuzzed
      BY <1>3
    <3>3. \A k \in 1 .. n + 1 : k \in after <=> k \in wait \/ k = n + 1
      BY <1>2, <1>3, <1>4, <2>1, <2>2, <3>1
    <3>4. after \subseteq 1 .. n + 1 /\ wait \subseteq 1 .. n
      BY <1>2, <1>3, <1>4, <2>1
    <3>5. QED BY <3>1, <3>3, <3>4
  <2>4. Cardinality(wait \cup {n + 1}) = Cardinality(wait) + 1
    BY <1>5, <2>3, FS_AddElement
  <2>5. QED BY <1>5, <1>6, <2>1, <2>3, <2>4
<1>9. ASSUME NEW q \in 1 .. n, NEW r \in Fields, Puts(q, r),
             ~queue[q].was_fuzzed, r.was_fuzzed,
             pending_not_fuzzed' = pending_not_fuzzed - 1
      PROVE  Pending'
  <2>1. after = wait \ {q} /\ q \in wait
    BY <1>1, <1>2, <1>3, <1>4, <1>9 DEF Puts
  <2>2. Cardinality(wait \ {q}) = Cardinality(wait) - 1
    BY <1>5, <2>1, FS_RemoveElement
  <2>3. QED BY <1>5, <1>6, <1>9, <2>1, <2>2
<1>10. CASE MarksKept
  BY <1>1, <1>7, <1>10 DEF MarksKept, Marks
<1>11. QED BY <1>1, <1>7, <1>8, <1>9, <1>10, MarksSteps

------------------------------------------------------------------------------
(* The traces that entries keep, and who is favored.                       *)

TracesKept ==
    \A k \in 1 .. Len(queue) :
        queue[k].trace_mini /= {} => queue'[k].exec_cksum = queue[k].exec_cksum

FavoredKept == \A k \in 1 .. Len(queue) : queue'[k].favored = queue[k].favored

\* An entry without a time is not top rated and keeps no trace.
LEMMA Untimed ==
    ASSUME QueueAssumption, Types, Progress, References, NEW k \in DOMAIN queue,
           queue[k].exec_us = 0
    PROVE  queue[k].trace_mini = {}
<1>1. \A b \in Bytes : top_rated[b] /= k
  <2> SUFFICES ASSUME NEW b \in Bytes, top_rated[b] = k PROVE FALSE
    OBVIOUS
  <2>1. k /= 0
    BY EntryTypes, SMTT(30)
  <2>2. queue[top_rated[b]].exec_us /= 0
    BY <2>1 DEF Progress, RatedProgress
  <2>3. QED BY <2>2
<1>2. {b \in Bytes : top_rated[b] = k} = {}
  BY <1>1
<1>3. queue[k].tc_ref = 0
  <2>1. queue[k].tc_ref = Cardinality({b \in Bytes : top_rated[b] = k})
    BY DEF References
  <2>2. QED BY <1>2, <2>1, FS_EmptySet
<1>4. QED BY <1>3 DEF References

\* With a stable target the trace of the last run is that of the entry.
LEMMA LastTrace ==
    ASSUME QueueAssumption, Types, Control, Progress, Traces, Stable,
           pc = "calibrate", cal.cycle > 0
    PROVE  cal.last = queue[cal.q].exec_cksum
<1>1. cal.caller /= "none" /\ cal.q \in DOMAIN queue
  <2>1. cal.caller /= "none" /\ cal.q > 0
    BY DEF Control
  <2>2. cal.q \in Nat /\ cal.q <= Len(queue)
    BY DEF Types, Calibration
  <2>3. QED BY <2>1, <2>2, EntryTypes, SMTT(30)
<1>2. queue[cal.q].file \in {NoInput, cal.input} /\ cal.input /= NoInput
  BY <1>1 DEF Control, QueueAssumption
<1>3. Input(cal.q) = cal.input
  BY <1>2 DEF Input
<1>4. queue[cal.q].exec_cksum /= NoTrace
  BY <1>1 DEF Progress, CalProgress
<1>5. target[Input(cal.q)] = {queue[cal.q].exec_cksum}
  BY <1>1, <1>4 DEF Traces
<1>6. target[cal.input] = {cal.last}
  BY <1>1 DEF Traces
<1>7. QED BY <1>3, <1>5, <1>6

\* What a step does to traces, marks and ratings.
LEMMA ScoreSteps ==
    ASSUME QueueAssumption, Types, Control, Progress, Traces, References, [Next]_vars
    PROVE  \/ RefsKept /\ TracesKept /\ FavoredKept /\ UNCHANGED score_changed
           \/ /\ MarksKept
              /\ \E q, r, e, trace, wins :
                    /\ Rescored(q, r, e, trace, wins) /\ Refs(r, queue[q])
                    /\ r.exec_cksum = queue[q].exec_cksum
                    /\ Stable => trace = queue[q].exec_cksum
           \/ /\ UNCHANGED <<top_rated, score_changed>>
              /\ \E input \in Inputs, trace \in Trace, tried \in Seq(Fields), r \in Fields :
                    FuzzAdds(input, trace, tried, r)
           \/ RefsKept /\ TracesKept /\ \E g : Culls(g)
<1>1. ASSUME RowsKept PROVE TracesKept
  BY <1>1 DEF RowsKept, TracesKept, Same
<1>2. ASSUME MarksKept PROVE FavoredKept
  BY <1>2 DEF MarksKept, FavoredKept, Marks
<1>3. ASSUME NEW q \in 1 .. Len(queue), NEW r \in Fields, Puts(q, r),
             r.exec_cksum = queue[q].exec_cksum \/ queue[q].exec_us = 0
      PROVE  TracesKept
  <2>1. queue[q].exec_us = 0 => queue[q].trace_mini = {}
    BY Untimed, EntryTypes
  <2>2. QED BY <1>3, <2>1 DEF Puts, TracesKept
<1>4. CASE Fuzz
  <2>1. UNCHANGED target
    BY <1>4 DEF Fuzz
  <2>2. CASE CalibrateRun
    <3>1. RefsKept /\ MarksKept /\ UNCHANGED score_changed /\ pc = "calibrate"
      BY <2>1, <2>2, CalibrateRunDoes
    <3>2. cal.q \in 1 .. Len(queue) /\ queue[cal.q].exec_us = 0
      <4>1. cal.q > 0 /\ queue[cal.q].exec_us = 0
        BY <3>1 DEF Control, Progress, CalProgress
      <4>2. cal.q \in Nat /\ cal.q <= Len(queue)
        BY DEF Types, Calibration
      <4>3. QED BY <4>1, <4>2, EntryTypes, SMTT(30)
    <3>3. UNCHANGED queue \/ \E r \in Fields : queue' = [queue EXCEPT ![cal.q] = r]
      BY <2>1, <2>2, CalibrateRunDoes
    <3>4. TracesKept
      <4>1. CASE UNCHANGED queue
        BY <4>1 DEF TracesKept
      <4>2. ASSUME NEW r \in Fields, queue' = [queue EXCEPT ![cal.q] = r]
            PROVE  TracesKept
        <5>1. Puts(cal.q, r)
          BY <3>2, <4>2, PutsIs
        <5>2. QED BY <1>3, <3>2, <5>1
      <4>3. QED BY <3>3, <4>1, <4>2
    <3>5. QED BY <1>2, <3>1, <3>4
  <2>3. CASE CalibrateScore
    <3>1. PICK r, e, wins :
              /\ Rescored(cal.q, r, e, cal.last, wins)
              /\ r.exec_cksum = queue[cal.q].exec_cksum
              /\ Refs(r, queue[cal.q])
      BY <2>1, <2>3, CalibrateScoreRows
    <3>2. MarksKept /\ pc = "calibrate" /\ cal.cycle > 0
      BY <2>1, <2>3, CalibrateScoreDoes
    <3>3. Stable => cal.last = queue[cal.q].exec_cksum
      BY <3>2, LastTrace
    <3>4. QED BY <3>1, <3>2, <3>3
  <2>4. CASE DryRun
    <3>1. RefsKept /\ MarksKept /\ UNCHANGED score_changed
      BY <2>1, <2>4, DryRunDoes
    <3>2. PICK q \in 1 .. Len(queue), r \in Fields :
             queue' = [queue EXCEPT ![q] = r] /\ r.exec_cksum = queue[q].exec_cksum
      BY <2>1, <2>4, DryRunDoes
    <3>3. Puts(q, r)
      BY <3>2, PutsIs
    <3>4. TracesKept
      BY <1>3, <3>2, <3>3
    <3>5. QED BY <1>2, <3>1, <3>4
  <2>5. CASE AfterDryRun \/ AfterRetry
    <3>1. RowsKept /\ RefsKept /\ MarksKept /\ UNCHANGED score_changed
      BY <2>1, <2>5, AfterCalibrationDoes
    <3>2. QED BY <1>1, <1>2, <3>1
  <2>6. CASE Start \/ Loop
    <3>1. /\ RowsKept /\ RefsKept
          /\ (MarksKept /\ UNCHANGED score_changed) \/ \E g : Culls(g)
      BY <2>1, <2>6, CullDoes
    <3>2. QED BY <1>1, <1>2, <3>1
  <2>7. CASE Skip \/ Splice \/ FuzzEnd \/ NextEntry
    <3>1. RowsKept /\ RefsKept /\ MarksKept /\ UNCHANGED score_changed
      BY <2>1, <2>7, QuietDoes
    <3>2. QED BY <1>1, <1>2, <3>1
  <2>8. CASE FuzzOne
    <3>1. RefsKept /\ MarksKept /\ UNCHANGED score_changed /\ queue_cur \in 1 .. Len(queue)
      BY <2>1, <2>8, FuzzOneDoes
    <3>2. \/ UNCHANGED queue
          \/ \E r \in Fields : /\ queue' = [queue EXCEPT ![queue_cur] = r]
                               /\ queue[queue_cur].cal_failed /= 0
      BY <2>1, <2>8, FuzzOneDoes
    <3>3. TracesKept
      <4>1. CASE UNCHANGED queue
        BY <4>1 DEF TracesKept
      <4>2. ASSUME NEW r \in Fields, queue' = [queue EXCEPT ![queue_cur] = r],
                   queue[queue_cur].cal_failed /= 0
            PROVE  TracesKept
        <5>1. Puts(queue_cur, r)
          BY <3>1, <4>2, PutsIs
        <5>2. queue[queue_cur].exec_us = 0
          BY <3>1, <4>2, EntryTypes DEF Progress, RowProgress
        <5>3. QED BY <1>3, <3>1, <5>1, <5>2
      <4>3. QED BY <3>2, <4>1, <4>2
    <3>4. QED BY <1>2, <3>1, <3>3
  <2>9. CASE TrimRun
    <3>1. RefsKept /\ MarksKept /\ UNCHANGED score_changed /\ queue_cur \in 1 .. Len(queue)
      BY <2>1, <2>9, TrimRunDoes
    <3>2. \/ UNCHANGED queue
          \/ \E r \in Fields : /\ queue' = [queue EXCEPT ![queue_cur] = r]
                               /\ r.exec_cksum = queue[queue_cur].exec_cksum
      BY <2>1, <2>9, TrimRunDoes
    <3>3. TracesKept
      <4>1. CASE UNCHANGED queue
        BY <4>1 DEF TracesKept
      <4>2. ASSUME NEW r \in Fields, queue' = [queue EXCEPT ![queue_cur] = r],
                   r.exec_cksum = queue[queue_cur].exec_cksum
            PROVE  TracesKept
        <5>1. Puts(queue_cur, r)
          BY <3>1, <4>2, PutsIs
        <5>2. QED BY <1>3, <3>1, <4>2, <5>1
      <4>3. QED BY <3>2, <4>1, <4>2
    <3>4. QED BY <1>2, <3>1, <3>3
  <2>10. CASE TrimEnd
    <3>1. PICK r \in Fields :
              /\ r.exec_cksum = queue[queue_cur].exec_cksum /\ Refs(r, queue[queue_cur])
              /\ \/ \E e, wins : Rescored(queue_cur, r, e, queue[queue_cur].exec_cksum, wins)
                 \/ Puts(queue_cur, r) /\ UNCHANGED <<top_rated, score_changed>>
      BY <2>1, <2>10, TrimEndRows
    <3>2. MarksKept /\ queue_cur \in 1 .. Len(queue)
      BY <2>1, <2>10, TrimEndDoes
    <3>3. CASE \E e, wins : Rescored(queue_cur, r, e, queue[queue_cur].exec_cksum, wins)
      BY <3>1, <3>2, <3>3
    <3>4. CASE Puts(queue_cur, r) /\ UNCHANGED <<top_rated, score_changed>>
      <4>1. RefsKept
        BY <3>1, <3>2, <3>4 DEF Puts, RefsKept, Refs
      <4>2. TracesKept
        BY <1>3, <3>1, <3>2, <3>4
      <4>3. QED BY <1>2, <3>2, <3>4, <4>1, <4>2
    <3>5. QED BY <3>1, <3>3, <3>4
  <2>11. CASE FuzzRun
    <3>1. /\ UNCHANGED <<top_rated, score_changed>>
          /\ \/ RowsKept /\ RefsKept /\ MarksKept
             \/ \E input \in Inputs, trace \in Trace, tried \in Seq(Fields), r \in Fields :
                   FuzzAdds(input, trace, tried, r)
      BY <2>1, <2>11, FuzzRunDoes
    <3>2. QED BY <1>1, <1>2, <3>1
  <2>12. CASE AfterSave
    <3>1. /\ RefsKept /\ MarksKept /\ UNCHANGED score_changed
          /\ cal.q \in 1 .. Len(queue)
      BY <2>1, <2>12, AfterSaveDoes
    <3>2. PICK r \in Fields :
             queue' = [queue EXCEPT ![cal.q] = r] /\ r.exec_cksum = queue[cal.q].exec_cksum
      BY <2>1, <2>12, AfterSaveDoes
    <3>3. Puts(cal.q, r)
      BY <3>1, <3>2, PutsIs
    <3>4. TracesKept
      BY <1>3, <3>1, <3>2, <3>3
    <3>5. QED BY <1>2, <3>1, <3>4
  <2>13. CASE Abandon
    <3>1. /\ RowsKept /\ RefsKept /\ UNCHANGED score_changed
          /\ queue_cur \in 1 .. Len(queue)
      BY <2>1, <2>13, AbandonDoes
    <3>2. \/ MarksKept
          \/ \E r \in Fields : /\ queue' = [queue EXCEPT ![queue_cur] = r]
                               /\ r.favored = queue[queue_cur].favored
      BY <2>1, <2>13, AbandonDoes
    <3>3. FavoredKept
      <4>1. ASSUME NEW r \in Fields, queue' = [queue EXCEPT ![queue_cur] = r],
                   r.favored = queue[queue_cur].favored
            PROVE  FavoredKept
        <5>1. Puts(queue_cur, r)
          BY <3>1, <4>1, PutsIs
        <5>2. QED BY <3>1, <4>1, <5>1 DEF Puts, FavoredKept
      <4>2. QED BY <1>2, <3>2, <4>1
    <3>4. QED BY <1>1, <3>1, <3>3
  <2>14. QED
    BY <1>4, <2>2, <2>3, <2>4, <2>5, <2>6, <2>7, <2>8, <2>9, <2>10, <2>11, <2>12, <2>13
       DEF Fuzz
<1>5. CASE Interrupt
  <2>1. RowsKept /\ RefsKept /\ MarksKept /\ UNCHANGED score_changed
    BY <1>5, InterruptDoes
  <2>2. QED BY <1>1, <1>2, <2>1
<1>6. CASE UNCHANGED vars
  <2>1. UNCHANGED <<queue, top_rated, score_changed>>
    BY <1>6 DEF vars, scores
  <2>2. RefsKept /\ TracesKept /\ FavoredKept
    BY <2>1 DEF RefsKept, Refs, TracesKept, FavoredKept
  <2>3. QED BY <2>1, <2>2
<1>7. QED BY <1>4, <1>5, <1>6 DEF Next, Ended

LEMMA TargetStep ==
    ASSUME [Next]_vars PROVE target' = target /\ (Stable' <=> Stable)
<1>1. target' = target
  BY DEF Next, Fuzz, Interrupt, Ended, vars
<1>2. QED BY <1>1 DEF Stable

------------------------------------------------------------------------------
(* What an entry keeps of its trace, and which entries are favored.        *)

LEMMA MinisStep ==
    ASSUME QueueAssumption, Types, Control, Progress, Traces, References, Types', Minis,
           [Next]_vars
    PROVE  Minis'
<1>1. DOMAIN queue = 1 .. Len(queue) /\ Len(queue) \in Nat
  BY EntryTypes
<1>2. DOMAIN queue' = 1 .. Len(queue')
  <2>1. queue' \in Seq(Fields)
    BY DEF Types
  <2>2. QED BY <2>1
<1> SUFFICES ASSUME Stable PROVE Minis'
  BY TargetStep DEF Minis
<1>3. \A k \in 1 .. Len(queue) : queue[k].trace_mini /= {} =>
          queue[k].trace_mini = Hit(queue[k].exec_cksum)
  BY <1>1 DEF Minis
<1>4. ASSUME \A k \in 1 .. Len(queue') : queue'[k].trace_mini /= {} =>
                 queue'[k].trace_mini = Hit(queue'[k].exec_cksum)
      PROVE  Minis'
  BY <1>2, <1>4 DEF Minis, Hit
<1>5. CASE RefsKept /\ TracesKept
  BY <1>3, <1>4, <1>5 DEF RefsKept, Refs, TracesKept
<1>6. ASSUME NEW q, NEW r, NEW e, NEW trace, NEW wins,
             Rescored(q, r, e, trace, wins), Refs(r, queue[q]),
             r.exec_cksum = queue[q].exec_cksum, trace = queue[q].exec_cksum
      PROVE  Minis'
  <2>1. /\ Len(queue') = Len(queue) /\ q \in 1 .. Len(queue)
        /\ e[q] = r /\ \A k \in 1 .. Len(queue) : k /= q => e[k] = queue[k]
        /\ \A k \in 1 .. Len(queue) : Same(queue'[k], e[k])
        /\ \A k \in 1 .. Len(queue) \ {q} : queue'[k].trace_mini \in {{}, e[k].trace_mini}
        /\ queue'[q].trace_mini \in {e[q].trace_mini, Hit(trace)}
    BY <1>6 DEF Rescored, ScoreFacts
  <2>2. \A k \in 1 .. Len(queue) : queue'[k].exec_cksum = queue[k].exec_cksum
    BY <1>6, <2>1 DEF Same
  <2>3. queue'[q].trace_mini \in {queue[q].trace_mini, Hit(queue[q].exec_cksum)}
    BY <1>6, <2>1 DEF Refs
  <2>4. \A k \in 1 .. Len(queue) \ {q} : queue'[k].trace_mini \in {{}, queue[k].trace_mini}
    BY <2>1
  <2>5. QED BY <1>3, <1>4, <2>1, <2>2, <2>3, <2>4
<1>7. ASSUME NEW input \in Inputs, NEW trace \in Trace, NEW tried \in Seq(Fields),
             NEW r \in Fields, FuzzAdds(input, trace, tried, r)
      PROVE  Minis'
  <2>1. PICK n \in Nat : n = Len(queue)
    BY <1>1
  <2>2. /\ Len(queue') = n + 1 /\ queue'[n + 1] = r /\ r.trace_mini = {}
        /\ \A k \in 1 .. n : /\ queue'[k].trace_mini = queue[k].trace_mini
                             /\ queue'[k].exec_cksum = queue[k].exec_cksum
    <3>1. /\ Len(queue') = n + 1 /\ queue'[n + 1] = r /\ r.trace_mini = {}
          /\ \A k \in 1 .. n : /\ queue'[k] = tried[k] /\ Same(tried[k], queue[k])
                               /\ Refs(tried[k], queue[k])
      BY <1>7, <2>1 DEF FuzzAdds
    <3>2. QED BY <3>1 DEF Refs, Same
  <2>3. \A k \in 1 .. n + 1 : k \in 1 .. n \/ k = n + 1
    BY UpTo
  <2>4. QED BY <1>3, <1>4, <2>1, <2>2, <2>3
<1>8. QED BY <1>5, <1>6, <1>7, ScoreSteps

\* An entry that is top rated for a byte has a trace.
LEMMA RatedHasTrace ==
    ASSUME QueueAssumption, NEW e, NEW rated, Counts(e, rated), NEW b \in Bytes,
           rated[b] \in 1 .. Len(e)
    PROVE  e[rated[b]].trace_mini /= {}
<1>1. PICK k \in 1 .. Len(e) : k = rated[b]
  OBVIOUS
<1>2. PICK won : won = {c \in Bytes : rated[c] = k}
  OBVIOUS
<1>3. won \in SUBSET Bytes /\ b \in won
  BY <1>1, <1>2
<1>4. Cardinality(won) /= 0
  BY <1>3, BytesFinite
<1>5. e[k].tc_ref /= 0
  BY <1>2, <1>4 DEF Counts, Count
<1>6. e[k].trace_mini /= {}
  BY <1>5 DEF Counts
<1>7. QED BY <1>1, <1>6

LEMMA OwnersStep ==
    ASSUME QueueAssumption, Types, Control, Progress, Traces, References, Minis, Owners,
           Types', References', Minis', [Next]_vars
    PROVE  Owners'
<1>1. DOMAIN queue = 1 .. Len(queue) /\ Len(queue) \in Nat
  BY EntryTypes
<1>2. DOMAIN queue' = 1 .. Len(queue')
  <2>1. queue' \in Seq(Fields)
    BY DEF Types
  <2>2. QED BY <2>1
<1> SUFFICES ASSUME Stable, Stable', NEW b \in Bytes, top_rated'[b] /= 0
             PROVE  b \in queue'[top_rated'[b]].trace_mini
  <2>1. (Stable' <=> Stable) /\ Bytes' = Bytes
    BY TargetStep DEF Bytes
  <2>2. QED BY <2>1 DEF Owners
<1>3. top_rated[b] \in 0 .. Len(queue) /\ top_rated'[b] \in 1 .. Len(queue')
  <2>1. top_rated \in [Bytes -> 0 .. Len(queue)]
    BY DEF Types
  <2>2. top_rated' \in [Bytes -> 0 .. Len(queue')]
    BY DEF Types
  <2>3. Len(queue') \in Nat
    <3>1. queue' \in Seq(Fields)
      BY DEF Types
    <3>2. QED BY <3>1
  <2>4. QED BY <1>1, <2>1, <2>2, <2>3
<1>4. top_rated[b] /= 0 => b \in queue[top_rated[b]].trace_mini
  BY DEF Owners
<1>5. queue'[top_rated'[b]].trace_mini /= {}
  <2>1. Counts(queue', top_rated')
    BY <1>2 DEF References, Counts, Count
  <2>2. PICK e, rated : e = queue' /\ rated = top_rated'
    OBVIOUS
  <2>3. e[rated[b]].trace_mini /= {}
    BY <1>3, <2>1, <2>2, RatedHasTrace
  <2>4. QED BY <2>2, <2>3
<1>6. CASE RefsKept
  <2>1. PICK k : k = top_rated[b]
    OBVIOUS
  <2>2. top_rated'[b] = k /\ k \in 1 .. Len(queue) /\ b \in queue[k].trace_mini
    BY <1>3, <1>4, <1>6, <2>1 DEF RefsKept
  <2>3. queue'[k].trace_mini = queue[k].trace_mini
    BY <1>6, <2>2 DEF RefsKept, Refs
  <2>4. QED BY <2>2, <2>3
<1>7. ASSUME NEW q, NEW r, NEW e, NEW trace, NEW wins,
             Rescored(q, r, e, trace, wins), Refs(r, queue[q]),
             r.exec_cksum = queue[q].exec_cksum, trace = queue[q].exec_cksum
      PROVE  b \in queue'[top_rated'[b]].trace_mini
  <2>1. /\ Len(queue') = Len(queue) /\ q \in 1 .. Len(queue)
        /\ e[q] = r /\ \A k \in 1 .. Len(queue) : k /= q => e[k] = queue[k]
        /\ \A k \in 1 .. Len(queue) : Same(queue'[k], e[k])
        /\ \A k \in 1 .. Len(queue) \ {q} : queue'[k].trace_mini \in {{}, e[k].trace_mini}
        /\ queue'[q].trace_mini \in {e[q].trace_mini, Hit(trace)}
        /\ wins \in SUBSET Hit(trace)
        /\ top_rated' = [c \in Bytes |-> IF c \in wins THEN q ELSE top_rated[c]]
    BY <1>7 DEF Rescored, ScoreFacts
  <2>2. queue'[q].exec_cksum = trace
    BY <1>7, <2>1 DEF Same
  <2>3. PICK hit : hit = Hit(trace)
    OBVIOUS
  <2>4. queue'[q].trace_mini /= {} => queue'[q].trace_mini = hit
    <3>1. q \in DOMAIN queue'
      BY <1>2, <2>1
    <3>2. queue'[q].trace_mini /= {} => queue'[q].trace_mini = Hit(queue'[q].exec_cksum)
      BY <3>1 DEF Minis, Hit, Bytes
    <3>3. QED BY <2>2, <2>3, <3>2
  <2>5. CASE b \in wins
    <3>1. top_rated'[b] = q
      BY <2>1, <2>5
    <3>2. b \in hit
      BY <2>1, <2>3, <2>5
    <3>3. QED BY <1>5, <2>4, <3>1, <3>2
  <2>6. CASE b \notin wins
    <3>1. PICK k : k = top_rated[b]
      OBVIOUS
    <3>2. top_rated'[b] = k
      BY <2>1, <2>6, <3>1
    <3>3. k \in 1 .. Len(queue) /\ b \in queue[k].trace_mini
      BY <1>3, <1>4, <2>1, <3>1, <3>2
    <3>4. queue'[k].trace_mini /= {}
      BY <1>5, <3>2
    <3>5. CASE k = q
      <4>1. queue[k].trace_mini = Hit(queue[k].exec_cksum)
        BY <1>1, <3>3 DEF Minis
      <4>2. b \in hit
        BY <1>7, <2>3, <3>3, <3>5, <4>1
      <4>3. QED BY <2>4, <3>2, <3>4, <3>5, <4>2
    <3>6. CASE k /= q
      BY <2>1, <3>2, <3>3, <3>4, <3>6
    <3>7. QED BY <3>5, <3>6
  <2>7. QED BY <2>5, <2>6
<1>8. ASSUME UNCHANGED top_rated, NEW input \in Inputs, NEW trace \in Trace,
             NEW tried \in Seq(Fields), NEW r \in Fields, FuzzAdds(input, trace, tried, r)
      PROVE  b \in queue'[top_rated'[b]].trace_mini
  <2>1. PICK k : k = top_rated[b]
    OBVIOUS
  <2>2. top_rated'[b] = k /\ k \in 1 .. Len(queue) /\ b \in queue[k].trace_mini
    BY <1>1, <1>3, <1>4, <1>8, <2>1, SMTT(30)
  <2>3. queue'[k].trace_mini = queue[k].trace_mini
    BY <1>8, <2>2, ZenonT(30) DEF FuzzAdds, Refs
  <2>4. QED BY <2>2, <2>3
<1>9. QED BY <1>6, <1>7, <1>8, ScoreSteps

LEMMA FavoredCoverStep ==
    ASSUME QueueAssumption, Types, Control, Progress, Traces, References, Types',
           FavoredCover, [Next]_vars
    PROVE  FavoredCover'
<1>1. DOMAIN queue = 1 .. Len(queue) /\ Len(queue) \in Nat
  BY EntryTypes
<1>2. DOMAIN queue' = 1 .. Len(queue')
  <2>1. queue' \in Seq(Fields)
    BY DEF Types
  <2>2. QED BY <2>1
<1> SUFFICES ASSUME ~score_changed', NEW b \in Bytes, top_rated'[b] /= 0
             PROVE  \E k \in DOMAIN queue' :
                        /\ queue'[k].favored
                        /\ b \in queue'[k].trace_mini \/ k = top_rated'[b]
  BY DEF FavoredCover, Bytes
<1>3. ~score_changed /\ top_rated[b] /= 0 =>
          \E k \in 1 .. Len(queue) :
              /\ queue[k].favored
              /\ b \in queue[k].trace_mini \/ k = top_rated[b]
  BY <1>1 DEF FavoredCover
<1>4. ASSUME NEW k \in 1 .. Len(queue), queue[k].favored,
             b \in queue[k].trace_mini \/ k = top_rated[b],
             k \in 1 .. Len(queue'), queue'[k].favored = queue[k].favored,
             queue'[k].trace_mini = queue[k].trace_mini, UNCHANGED top_rated
      PROVE  \E m \in DOMAIN queue' :
                 /\ queue'[m].favored
                 /\ b \in queue'[m].trace_mini \/ m = top_rated'[b]
  BY <1>2, <1>4
<1>5. CASE RefsKept /\ FavoredKept /\ UNCHANGED score_changed
  <2>1. PICK k \in 1 .. Len(queue) :
            queue[k].favored /\ (b \in queue[k].trace_mini \/ k = top_rated[b])
    BY <1>3, <1>5 DEF RefsKept
  <2>2. /\ k \in 1 .. Len(queue') /\ queue'[k].favored = queue[k].favored
        /\ queue'[k].trace_mini = queue[k].trace_mini /\ UNCHANGED top_rated
    BY <1>5 DEF RefsKept, Refs, FavoredKept
  <2>3. QED BY <1>4, <2>1, <2>2
<1>6. ASSUME MarksKept, NEW q, NEW r, NEW e, NEW trace, NEW wins,
             Rescored(q, r, e, trace, wins), Refs(r, queue[q])
      PROVE  \E k \in DOMAIN queue' :
                 /\ queue'[k].favored
                 /\ b \in queue'[k].trace_mini \/ k = top_rated'[b]
  <2>1. ~score_changed /\ wins = {}
    BY <1>6 DEF Rescored
  <2>2. /\ Len(queue') = Len(queue) /\ q \in 1 .. Len(queue)
        /\ e[q] = r /\ \A k \in 1 .. Len(queue) : k /= q => e[k] = queue[k]
        /\ \A k \in 1 .. Len(queue) \ {q} :
               queue'[k].trace_mini = IF /\ {c \in wins : top_rated[c] = k} /= {}
                                         /\ e[k].tc_ref =
                                               Cardinality({c \in wins : top_rated[c] = k})
                                      THEN {} ELSE e[k].trace_mini
        /\ wins = {} => queue'[q].trace_mini = e[q].trace_mini
        /\ top_rated' = [c \in Bytes |-> IF c \in wins THEN q ELSE top_rated[c]]
    BY <1>6 DEF Rescored, ScoreFacts
  <2>3. UNCHANGED top_rated
    <3>1. top_rated \in [Bytes -> 0 .. Len(queue)]
      BY DEF Types
    <3>2. top_rated' = [c \in Bytes |-> top_rated[c]]
      BY <2>1, <2>2
    <3>3. QED BY <3>1, <3>2
  <2>4. \A k \in 1 .. Len(queue) \ {q} : queue'[k].trace_mini = queue[k].trace_mini
    <3>1. \A k \in 1 .. Len(queue) \ {q} : {c \in wins : top_rated[c] = k} = {}
      BY <2>1
    <3>2. QED BY <2>2, <3>1
  <2>5. queue'[q].trace_mini = queue[q].trace_mini
    BY <1>6, <2>1, <2>2 DEF Refs
  <2>6. PICK k \in 1 .. Len(queue) :
            queue[k].favored /\ (b \in queue[k].trace_mini \/ k = top_rated[b])
    BY <1>3, <2>1, <2>3
  <2>7. k \in 1 .. Len(queue') /\ queue'[k].favored = queue[k].favored
    BY <1>6, <2>2 DEF MarksKept, Marks
  <2>8. queue'[k].trace_mini = queue[k].trace_mini
    BY <2>4, <2>5
  <2>9. QED BY <1>4, <2>3, <2>6, <2>7, <2>8
<1>7. ASSUME UNCHANGED <<top_rated, score_changed>>,
             NEW input \in Inputs, NEW trace \in Trace, NEW tried \in Seq(Fields),
             NEW r \in Fields, FuzzAdds(input, trace, tried, r)
      PROVE  \E k \in DOMAIN queue' :
                 /\ queue'[k].favored
                 /\ b \in queue'[k].trace_mini \/ k = top_rated'[b]
  <2>1. PICK k \in 1 .. Len(queue) :
            queue[k].favored /\ (b \in queue[k].trace_mini \/ k = top_rated[b])
    BY <1>3, <1>7
  <2>2. /\ queue'[k].favored = queue[k].favored
        /\ queue'[k].trace_mini = queue[k].trace_mini
        /\ Len(queue') = Len(queue) + 1
    BY <1>7, ZenonT(30) DEF FuzzAdds, Refs, Marks
  <2>3. k \in 1 .. Len(queue')
    BY <1>1, <2>2, SMTT(30)
  <2>4. QED BY <1>4, <1>7, <2>1, <2>2, <2>3
<1>8. ASSUME RefsKept, NEW g, Culls(g)
      PROVE  \E k \in DOMAIN queue' :
                 /\ queue'[k].favored
                 /\ b \in queue'[k].trace_mini \/ k = top_rated'[b]
  <2>1. g = Grab.favored /\ \A k \in 1 .. Len(queue) : queue'[k].favored = (k \in ToSet(g))
    BY <1>8 DEF Culls
  <2>2. top_rated' = top_rated /\ Len(queue') = Len(queue)
    BY <1>8 DEF RefsKept
  <2>3. PICK n \in DOMAIN g : g[n] = top_rated[b] \/ b \in queue[g[n]].trace_mini
    BY <2>1, <2>2, GrabFacts
  <2>4. g \in Seq(DOMAIN queue)
    BY <2>1, GrabFacts
  <2>5. PICK k : k = g[n]
    OBVIOUS
  <2>6. k \in 1 .. Len(queue) /\ k \in ToSet(g)
    <3>1. k \in DOMAIN queue
      BY <2>4, <2>5
    <3>2. k \in ToSet(g)
      BY <2>5, Zenon DEF ToSet
    <3>3. QED BY <1>1, <3>1, <3>2
  <2>7. queue'[k].trace_mini = queue[k].trace_mini
    <3>1. Refs(queue'[k], queue[k])
      BY <1>8, <2>6, Zenon DEF RefsKept
    <3>2. QED BY <3>1, Zenon DEF Refs
  <2>8. queue'[k].favored
    BY <2>1, <2>6
  <2>9. QED BY <1>2, <2>2, <2>3, <2>5, <2>6, <2>7, <2>8
<1>9. QED BY <1>5, <1>6, <1>7, <1>8, ScoreSteps

\* The image of some places of a sequence.
LEMMA ImageSize ==
    ASSUME NEW S, NEW T, NEW f, IsFiniteSet(S),
           \A x \in S : f[x] \in T, \A y \in T : \E x \in S : f[x] = y
    PROVE  /\ IsFiniteSet(T) /\ Cardinality(T) <= Cardinality(S)
           /\ (\A x, y \in S : f[x] = f[y] => x = y) => Cardinality(T) = Cardinality(S)
<1>1. PICK h : h = [x \in S |-> f[x]]
  OBVIOUS
<1>2. h \in Surjection(S, T)
  BY <1>1 DEF Surjection
<1>3. /\ IsFiniteSet(T) /\ Cardinality(T) <= Cardinality(S)
      /\ Cardinality(T) = Cardinality(S) <=> h \in Injection(S, T)
  BY <1>2, FS_Surjection
<1>4. (\A x, y \in S : f[x] = f[y] => x = y) => h \in Injection(S, T)
  BY <1>1, <1>2 DEF Surjection, Injection, IsInjective
<1>5. QED BY <1>3, <1>4

\* What Favored says of the entries e and the two counters.
FavoredBounds(e, all, waiting) ==
    LET favored == {k \in 1 .. Len(e) : e[k].favored}
        pending == {k \in favored : ~e[k].was_fuzzed}
    IN /\ all <= MapSize /\ waiting <= MapSize
       /\ all >= Cardinality(favored) /\ waiting >= Cardinality(pending)

FavoredCounts(e, all, waiting) ==
    LET favored == {k \in 1 .. Len(e) : e[k].favored}
        pending == {k \in favored : ~e[k].was_fuzzed}
    IN all = Cardinality(favored) /\ waiting = Cardinality(pending)

LEMMA FavoredIs ==
    ASSUME QueueAssumption, Types
    PROVE  Favored => /\ FavoredBounds(queue, queued_favored, pending_favored)
                      /\ Stable => FavoredCounts(queue, queued_favored, pending_favored)
<1>1. DOMAIN queue = 1 .. Len(queue)
  BY EntryTypes
<1>2. queued_favored \in Int /\ pending_favored \in Int
  BY DEF Types
<1>3. PICK favored : favored = {k \in 1 .. Len(queue) : queue[k].favored}
  OBVIOUS
<1>4. PICK pending : pending = {k \in favored : ~queue[k].was_fuzzed}
  OBVIOUS
<1>5. PICK f \in Nat, p \in Nat : f = Cardinality(favored) /\ p = Cardinality(pending)
  <2>1. IsFiniteSet(1 .. Len(queue))
    BY EntryTypes, FS_Interval
  <2>2. favored \in SUBSET (1 .. Len(queue)) /\ pending \in SUBSET (1 .. Len(queue))
    BY <1>3, <1>4
  <2>3. IsFiniteSet(favored) /\ IsFiniteSet(pending)
    BY <2>1, <2>2, FS_Subset
  <2>4. QED BY <2>3, FS_CardinalityType
<1> SUFFICES ASSUME Favored
             PROVE  /\ FavoredBounds(queue, queued_favored, pending_favored)
                    /\ Stable => FavoredCounts(queue, queued_favored, pending_favored)
  OBVIOUS
<1>6. /\ IF Stable THEN queued_favored = f /\ pending_favored = p
         ELSE queued_favored >= f /\ pending_favored >= p
      /\ queued_favored <= MapSize /\ pending_favored <= MapSize
  BY <1>1, <1>3, <1>4, <1>5 DEF Favored, FavoredExact
<1>7. queued_favored >= f /\ pending_favored >= p
  BY <1>2, <1>5, <1>6, SMTT(30)
<1>8. FavoredBounds(queue, queued_favored, pending_favored)
  BY <1>3, <1>4, <1>5, <1>6, <1>7 DEF FavoredBounds
<1>9. Stable => FavoredCounts(queue, queued_favored, pending_favored)
  BY <1>3, <1>4, <1>5, <1>6 DEF FavoredCounts
<1>10. QED BY <1>8, <1>9

\* Of e exactly the entries in g are favored.
Grabbed(e, n, g) ==
    /\ Len(e) = n
    /\ \A k \in 1 .. n : e[k].favored <=> \E i \in DOMAIN g : g[i] = k

\* The places of g whose entry waits to be fuzzed.
Waits(e, g) == {i \in DOMAIN g : ~e[g[i]].was_fuzzed}

\* No entry is in g twice.
Apart(g) == \A i, j \in DOMAIN g : g[i] = g[j] => i = j

LEMMA IntervalSize ==
    ASSUME NEW m \in Nat
    PROVE  IsFiniteSet(1 .. m) /\ Cardinality(1 .. m) = m
<1>1. IsFiniteSet(1 .. m) /\ Cardinality(1 .. m) = IF 1 > m THEN 0 ELSE m - 1 + 1
  BY FS_Interval
<1>2. QED BY <1>1

\* The entries that cull_queue grabs.
LEMMA GrabbedCounts ==
    ASSUME MapSize \in Nat, NEW e, NEW n \in Nat, NEW g \in Seq(1 .. n), Len(g) <= MapSize,
           Grabbed(e, n, g)
    PROVE  /\ FavoredBounds(e, Len(g), Cardinality(Waits(e, g)))
           /\ Apart(g) => FavoredCounts(e, Len(g), Cardinality(Waits(e, g)))
<1>1. PICK favored : favored = {k \in 1 .. n : e[k].favored}
  OBVIOUS
<1>2. PICK pending : pending = {k \in favored : ~e[k].was_fuzzed}
  OBVIOUS
<1>3. PICK places : places = Waits(e, g)
  OBVIOUS
<1>4. DOMAIN g = 1 .. Len(g) /\ Len(g) \in Nat /\ \A i \in DOMAIN g : g[i] \in 1 .. n
  OBVIOUS
<1>5. IsFiniteSet(DOMAIN g) /\ Cardinality(DOMAIN g) = Len(g)
  <2> Len(g) \in Nat
    OBVIOUS
  <2>1. PICK m \in Nat : m = Len(g)
    OBVIOUS
  <2>2. IsFiniteSet(1 .. m) /\ Cardinality(1 .. m) = m
    BY IntervalSize
  <2>3. QED BY <1>4, <2>1, <2>2
<1>6. \A i \in DOMAIN g : g[i] \in favored
  BY <1>1, <1>4 DEF Grabbed
<1>7. \A k \in favored : \E i \in DOMAIN g : g[i] = k
  BY <1>1 DEF Grabbed
<1>8. /\ IsFiniteSet(favored) /\ Cardinality(favored) <= Cardinality(DOMAIN g)
      /\ Apart(g) => Cardinality(favored) = Cardinality(DOMAIN g)
  BY <1>5, <1>6, <1>7, ImageSize DEF Apart
<1>9. IsFiniteSet(places) /\ Cardinality(places) <= Cardinality(DOMAIN g)
  <2>1. places \in SUBSET DOMAIN g
    BY <1>3 DEF Waits
  <2>2. QED BY <1>5, <2>1, FS_Subset
<1>10. \A i \in places : g[i] \in pending
  BY <1>2, <1>3, <1>6 DEF Waits
<1>11. \A k \in pending : \E i \in places : g[i] = k
  <2> SUFFICES ASSUME NEW k \in pending PROVE \E i \in places : g[i] = k
    OBVIOUS
  <2>1. k \in favored /\ ~e[k].was_fuzzed
    BY <1>2
  <2>2. PICK i \in DOMAIN g : g[i] = k
    BY <1>7, <2>1
  <2>3. i \in places
    BY <1>3, <2>1, <2>2 DEF Waits
  <2>4. QED BY <2>2, <2>3
<1>13. /\ IsFiniteSet(pending) /\ Cardinality(pending) <= Cardinality(places)
       /\ (\A i, j \in places : g[i] = g[j] => i = j)
           => Cardinality(pending) = Cardinality(places)
  <2>1. IsFiniteSet(places)
    BY <1>9
  <2>2. QED BY <1>10, <1>11, <2>1, ImageSize
<1>14. PICK f \in Nat, p \in Nat, w \in Nat :
           /\ f = Cardinality(favored) /\ p = Cardinality(pending)
           /\ w = Cardinality(places)
  BY <1>8, <1>9, <1>13, FS_CardinalityType
<1>15. Len(g) >= f /\ w >= p /\ w <= MapSize
  BY <1>4, <1>5, <1>8, <1>9, <1>13, <1>14
<1>a. Len(e) = n
  BY DEF Grabbed
<1>16. FavoredBounds(e, Len(g), Cardinality(Waits(e, g)))
  BY <1>1, <1>2, <1>3, <1>14, <1>15, <1>a DEF FavoredBounds
<1>17. Apart(g) => FavoredCounts(e, Len(g), Cardinality(Waits(e, g)))
  <2> SUFFICES ASSUME Apart(g) PROVE FavoredCounts(e, Len(g), Cardinality(Waits(e, g)))
    OBVIOUS
  <2>1. Cardinality(favored) = Len(g)
    BY <1>5, <1>8
  <2>2. \A i, j \in places : g[i] = g[j] => i = j
    BY <1>3 DEF Waits, Apart
  <2>3. Cardinality(pending) = Cardinality(places)
    BY <1>13, <2>2
  <2>4. QED BY <1>1, <1>2, <1>3, <2>1, <2>3, <1>a DEF FavoredCounts
<1>18. QED BY <1>16, <1>17

LEMMA FavoredStep ==
    ASSUME QueueAssumption, Types, Control, Types', Owners, Favored, [Next]_vars
    PROVE  Favored'
<1>1. DOMAIN queue = 1 .. Len(queue) /\ Len(queue) \in Nat
  BY EntryTypes
<1>2. /\ FavoredBounds(queue, queued_favored, pending_favored)
      /\ Stable => FavoredCounts(queue, queued_favored, pending_favored)
  BY FavoredIs
<1>3. Stable' <=> Stable
  BY TargetStep
<1>4. PICK n \in Nat : n = Len(queue)
  BY EntryTypes
<1>5. PICK e, f : e = queue /\ f = queue'
  OBVIOUS
<1>6. PICK all \in Int, waiting \in Int :
          all = queued_favored' /\ waiting = pending_favored'
  BY DEF Types
<1>7. ASSUME FavoredBounds(f, all, waiting), Stable => FavoredCounts(f, all, waiting)
      PROVE  Favored'
  <2>1. PICK favored : favored = {k \in DOMAIN queue' : queue'[k].favored}
    OBVIOUS
  <2>2. PICK pending : pending = {k \in favored : ~queue'[k].was_fuzzed}
    OBVIOUS
  <2>3. DOMAIN queue' = 1 .. Len(queue')
    <3>1. queue' \in Seq(Fields)
      BY DEF Types
    <3>2. QED BY <3>1
  <2>4. /\ all <= MapSize /\ waiting <= MapSize
        /\ all >= Cardinality(favored) /\ waiting >= Cardinality(pending)
        /\ Stable => all = Cardinality(favored) /\ waiting = Cardinality(pending)
    BY <1>5, <1>7, <2>1, <2>2, <2>3 DEF FavoredBounds, FavoredCounts
  <2>5. CASE Stable
    BY <1>3, <1>6, <2>1, <2>2, <2>4, <2>5 DEF Favored, FavoredExact
  <2>6. CASE ~Stable
    BY <1>3, <1>6, <2>1, <2>2, <2>4, <2>6 DEF Favored, FavoredExact
  <2>7. QED BY <2>5, <2>6
<1>8. PICK favored : favored = {k \in 1 .. n : e[k].favored}
  OBVIOUS
<1>9. PICK pending : pending = {k \in favored : ~e[k].was_fuzzed}
  OBVIOUS
<1>10. /\ queued_favored <= MapSize /\ pending_favored <= MapSize
       /\ queued_favored >= Cardinality(favored) /\ pending_favored >= Cardinality(pending)
       /\ Stable => /\ queued_favored = Cardinality(favored)
                    /\ pending_favored = Cardinality(pending)
  BY <1>2, <1>4, <1>5, <1>8, <1>9 DEF FavoredBounds, FavoredCounts
<1>11. ASSUME /\ {k \in 1 .. Len(f) : f[k].favored} = favored
              /\ {k \in favored : ~f[k].was_fuzzed} = pending
              /\ all = queued_favored /\ waiting = pending_favored
       PROVE  Favored'
  <2>1. FavoredBounds(f, all, waiting)
    BY <1>10, <1>11 DEF FavoredBounds
  <2>2. Stable => FavoredCounts(f, all, waiting)
    BY <1>10, <1>11 DEF FavoredCounts
  <2>3. QED BY <1>7, <2>1, <2>2
<1>12. CASE MarksKept
  <2>1. /\ Len(f) = n /\ \A k \in 1 .. n : /\ f[k].favored = e[k].favored
                                           /\ f[k].was_fuzzed = e[k].was_fuzzed
        /\ all = queued_favored /\ waiting = pending_favored
    BY <1>4, <1>5, <1>6, <1>12 DEF MarksKept, Marks
  <2>2. {k \in 1 .. Len(f) : f[k].favored} = favored
    BY <1>8, <2>1
  <2>3. {k \in favored : ~f[k].was_fuzzed} = pending
    BY <1>8, <1>9, <2>1
  <2>4. QED BY <1>11, <2>1, <2>2, <2>3
<1>13. ASSUME UNCHANGED <<queued_favored, pending_favored>>,
              NEW input \in Inputs, NEW trace \in Trace, NEW tried \in Seq(Fields),
              NEW r \in Fields, FuzzAdds(input, trace, tried, r)
       PROVE  Favored'
  <2>1. /\ Len(f) = n + 1 /\ ~f[n + 1].favored
        /\ \A k \in 1 .. n : /\ f[k].favored = e[k].favored
                             /\ f[k].was_fuzzed = e[k].was_fuzzed
        /\ all = queued_favored /\ waiting = pending_favored
    <3>1. /\ Len(queue') = Len(queue) + 1 /\ queue'[Len(queue) + 1] = r /\ ~r.favored
          /\ \A k \in 1 .. Len(queue) : Marks(queue'[k], queue[k])
      BY <1>13 DEF FuzzAdds
    <3>2. QED BY <1>4, <1>5, <1>6, <1>13, <3>1 DEF Marks
  <2>2. {k \in 1 .. n + 1 : f[k].favored} = favored
    <3>1. \A k \in 1 .. n + 1 : k \in 1 .. n \/ k = n + 1
      BY UpTo
    <3>2. \A k \in 1 .. n : k \in 1 .. n + 1
      OBVIOUS
    <3>3. QED BY <1>8, <2>1, <3>1, <3>2
  <2>3. {k \in favored : ~f[k].was_fuzzed} = pending
    BY <1>8, <1>9, <2>1
  <2>4. QED BY <1>11, <2>1, <2>2, <2>3
<1>14. ASSUME Len(queue') = Len(queue), NEW g, Culls(g),
              \A k \in 1 .. Len(queue) : queue'[k].was_fuzzed = queue[k].was_fuzzed
       PROVE  Favored'
  <2>1. /\ g = Grab.favored /\ all = Len(g)
        /\ \A k \in 1 .. n : f[k].favored = (k \in ToSet(g))
        /\ waiting = Cardinality({i \in DOMAIN g : ~e[g[i]].was_fuzzed})
    BY <1>4, <1>5, <1>6, <1>14 DEF Culls
  <2>2. g \in Seq(1 .. n) /\ Len(g) <= MapSize
    BY <1>1, <1>4, <2>1, GrabFacts
  <2>3. ASSUME Stable PROVE Apart(g)
    <3>1. \A b \in Bytes : top_rated[b] /= 0 => b \in queue[top_rated[b]].trace_mini
      BY <2>3 DEF Owners
    <3>2. QED BY <2>1, <3>1, GrabFacts DEF Apart
  <2>4. \A i \in DOMAIN g : g[i] \in 1 .. n /\ f[g[i]].was_fuzzed = e[g[i]].was_fuzzed
    <3>1. \A i \in DOMAIN g : g[i] \in 1 .. n
      BY <2>2, SMTT(30)
    <3>2. \A k \in 1 .. n : f[k].was_fuzzed = e[k].was_fuzzed
      BY <1>4, <1>5, <1>14, Zenon
    <3>3. QED BY <3>1, <3>2, Zenon
  <2>5. waiting = Cardinality(Waits(f, g))
    BY <2>1, <2>4 DEF Waits
  <2>6. Len(f) = n
    BY <1>4, <1>5, <1>14
  <2>7. Grabbed(f, n, g)
    <3>1. \A k \in 1 .. n : k \in ToSet(g) <=> \E i \in DOMAIN g : g[i] = k
      BY DEF ToSet
    <3>2. \A k \in 1 .. n : f[k].favored <=> k \in ToSet(g)
      BY <2>1
    <3>3. \A k \in 1 .. n : f[k].favored <=> \E i \in DOMAIN g : g[i] = k
      BY <3>1, <3>2
    <3>4. QED BY <2>6, <3>3 DEF Grabbed
  <2>8. /\ FavoredBounds(f, Len(g), Cardinality(Waits(f, g)))
        /\ Apart(g) => FavoredCounts(f, Len(g), Cardinality(Waits(f, g)))
    <3>1. MapSize \in Nat
      BY DEF QueueAssumption
    <3>2. QED BY <2>2, <2>7, <3>1, GrabbedCounts
  <2>9. FavoredBounds(f, all, waiting)
    BY <2>1, <2>5, <2>8
  <2>10. Stable => FavoredCounts(f, all, waiting)
    BY <2>1, <2>3, <2>5, <2>8
  <2>11. QED BY <1>7, <2>9, <2>10
<1>15. ASSUME NEW q \in 1 .. Len(queue), NEW r \in Fields, Puts(q, r),
              UNCHANGED queued_favored,
              ~queue[q].was_fuzzed, r.was_fuzzed, r.favored = queue[q].favored,
              pending_favored' = IF queue[q].favored
                                 THEN pending_favored - 1 ELSE pending_favored
       PROVE  Favored'
  <2>1. /\ Len(f) = n /\ f[q] = r /\ q \in 1 .. n
        /\ \A k \in 1 .. n : k /= q => f[k] = e[k]
        /\ all = queued_favored
    BY <1>4, <1>5, <1>6, <1>15 DEF Puts
  <2>2. {k \in 1 .. Len(f) : f[k].favored} = favored
    BY <1>5, <1>8, <1>15, <2>1
  <2>3. PICK left_over : left_over = {k \in favored : ~f[k].was_fuzzed}
    OBVIOUS
  <2>4. left_over = pending \ {q}
    BY <1>5, <1>8, <1>9, <1>15, <2>1, <2>3
  <2>5. q \in pending <=> queue[q].favored
    BY <1>5, <1>8, <1>9, <1>15, <2>1
  <2>6. IsFiniteSet(pending)
    <3>1. IsFiniteSet(1 .. n)
      BY FS_Interval
    <3>2. pending \in SUBSET (1 .. n)
      BY <1>8, <1>9
    <3>3. QED BY <3>1, <3>2, FS_Subset
  <2>7. Cardinality(left_over) = IF q \in pending THEN Cardinality(pending) - 1
                                 ELSE Cardinality(pending)
    BY <2>4, <2>6, FS_RemoveElement
  <2>8. waiting = IF q \in pending THEN pending_favored - 1 ELSE pending_favored
    BY <1>6, <1>15, <2>5
  <2>9. PICK p \in Nat, m \in Int : p = Cardinality(pending) /\ m = Cardinality(left_over)
    BY <2>6, <2>7, FS_CardinalityType, SMTT(30)
  <2>10. waiting <= MapSize /\ waiting >= m /\ (pending_favored = p => waiting = m)
    <3>1. /\ MapSize \in Nat /\ pending_favored \in Int
          /\ pending_favored >= p /\ pending_favored <= MapSize
      BY <1>10, <2>9 DEF Types, QueueAssumption
    <3>2. CASE q \in pending
      <4>1. m = p - 1 /\ waiting = pending_favored - 1
        BY <2>7, <2>8, <2>9, <3>2
      <4>2. QED BY <2>9, <3>1, <4>1, SMTT(30)
    <3>3. CASE q \notin pending
      <4>1. m = p /\ waiting = pending_favored
        BY <2>7, <2>8, <2>9, <3>3
      <4>2. QED BY <2>9, <3>1, <4>1
    <3>4. QED BY <3>2, <3>3
  <2>11. Stable => waiting = Cardinality(left_over)
    BY <1>10, <2>9, <2>10
  <2>12. FavoredBounds(f, all, waiting)
    BY <1>10, <2>1, <2>2, <2>3, <2>9, <2>10 DEF FavoredBounds
  <2>13. Stable => FavoredCounts(f, all, waiting)
    BY <1>10, <2>1, <2>2, <2>3, <2>11 DEF FavoredCounts
  <2>14. QED BY <1>7, <2>12, <2>13
<1>16. QED BY <1>12, <1>13, <1>14, <1>15, MarksSteps

------------------------------------------------------------------------------
(* Calibration makes progress.                                             *)

\* What Progress says of an entry.
Life(r, s) == /\ r.cal_failed = s.cal_failed /\ r.exec_cksum = s.exec_cksum
              /\ r.exec_us = s.exec_us

LivesKept == /\ Len(queue') = Len(queue)
             /\ \A k \in 1 .. Len(queue) : Life(queue'[k], queue[k])

LEMMA ProgressParts ==
    ASSUME QueueAssumption, Types, Types', Len(queue') = Len(queue),
           \A k \in 1 .. Len(queue) : RowProgress(k)', CalProgress', RatedProgress'
    PROVE  Progress'
<1>1. DOMAIN queue' = 1 .. Len(queue')
  <2>1. queue' \in Seq(Fields)
    BY DEF Types
  <2>2. QED BY <2>1
<1>2. QED BY <1>1 DEF Progress

\* Ratings, when nothing happens to them.
LEMMA RatedKept ==
    ASSUME QueueAssumption, Types, Progress, LivesKept, UNCHANGED top_rated
    PROVE  RatedProgress'
<1>1. ASSUME NEW b \in Bytes, top_rated[b] /= 0 PROVE queue'[top_rated[b]].exec_us /= 0
  <2>1. top_rated[b] \in 1 .. Len(queue)
    <3>1. top_rated \in [Bytes -> 0 .. Len(queue)] /\ Len(queue) \in Nat
      BY EntryTypes DEF Types
    <3>2. QED BY <1>1, <3>1
  <2>2. queue[top_rated[b]].exec_us /= 0
    BY <1>1 DEF Progress, RatedProgress
  <2>3. QED BY <2>1, <2>2 DEF LivesKept, Life
<1>2. QED BY <1>1 DEF RatedProgress, Bytes

\* A step that leaves the entries alone and keeps out of the dry run.
LEMMA RowsGoOn ==
    ASSUME QueueAssumption, Types, Types', Progress, LivesKept, UNCHANGED top_rated,
           \A k \in 1 .. Len(queue) : Dry(k)' <=> Dry(k),
           pc \notin {"start", "end", "fatal"} \/ pc' \in {"start", "end", "fatal"},
           CalProgress'
    PROVE  Progress'
<1>1. ASSUME NEW k \in 1 .. Len(queue) PROVE RowProgress(k)'
  <2>1. RowProgress(k)
    BY EntryTypes DEF Progress
  <2>2. Life(queue'[k], queue[k])
    BY DEF LivesKept
  <2>3. Dry(k)' <=> Dry(k)
    OBVIOUS
  <2>4. QED BY <2>1, <2>2, <2>3 DEF RowProgress, Life
<1>2. RatedProgress'
  BY RatedKept
<1>3. QED BY <1>1, <1>2, ProgressParts DEF LivesKept

\* A step of calibrate_case that changes entry q.
LEMMA RowGoesOn ==
    ASSUME QueueAssumption, Types, Types', Progress, NEW q \in 1 .. Len(queue), NEW r,
           Puts(q, r), r.exec_us = queue[q].exec_us, UNCHANGED top_rated,
           \A k \in 1 .. Len(queue) : k /= q => (Dry(k)' <=> Dry(k)),
           pc \notin {"start", "end", "fatal"}, RowProgress(q)', CalProgress'
    PROVE  Progress'
<1>1. ASSUME NEW k \in 1 .. Len(queue) PROVE RowProgress(k)'
  <2>1. CASE k = q
    BY <2>1
  <2>2. CASE k /= q
    <3>1. RowProgress(k)
      BY EntryTypes DEF Progress
    <3>2. queue'[k] = queue[k]
      BY <2>2 DEF Puts
    <3>3. Dry(k)' <=> Dry(k)
      BY <2>2
    <3>4. QED BY <3>1, <3>2, <3>3 DEF RowProgress
  <2>3. QED BY <2>1, <2>2
<1>2. RatedProgress'
  <2>1. ASSUME NEW b \in Bytes, top_rated[b] /= 0 PROVE queue'[top_rated[b]].exec_us /= 0
    <3>1. top_rated[b] \in 1 .. Len(queue)
      <4>1. top_rated \in [Bytes -> 0 .. Len(queue)] /\ Len(queue) \in Nat
        BY EntryTypes DEF Types
      <4>2. QED BY <2>1, <4>1
    <3>2. queue[top_rated[b]].exec_us /= 0
      BY <2>1 DEF Progress, RatedProgress
    <3>3. QED BY <3>1, <3>2 DEF Puts
  <2>2. QED BY <2>1 DEF RatedProgress, Bytes
<1>3. QED BY <1>1, <1>2, ProgressParts DEF Puts

\* Entry q is rated: it has a time.
LEMMA RatedGoesOn ==
    ASSUME QueueAssumption, Types, Types', Progress, NEW q, NEW r, NEW e, NEW trace,
           NEW wins, Rescored(q, r, e, trace, wins), r.exec_us /= 0, r.cal_failed = 0,
           r.exec_cksum /= NoTrace, ~Dry(q)', 
           \A k \in 1 .. Len(queue) : k /= q => (Dry(k)' <=> Dry(k)),
           pc \notin {"start", "end", "fatal"}, CalProgress'
    PROVE  Progress'
<1>1. /\ Len(queue') = Len(queue) /\ Same(queue'[q], r) /\ q \in 1 .. Len(queue)
      /\ \A k \in 1 .. Len(queue) : k /= q => Same(queue'[k], queue[k])
  BY RescoredRows
<1>2. ASSUME NEW k \in 1 .. Len(queue) PROVE RowProgress(k)'
  <2>1. CASE k = q
    BY <1>1, <2>1 DEF RowProgress, Same
  <2>2. CASE k /= q
    <3>1. RowProgress(k)
      BY EntryTypes DEF Progress
    <3>2. Same(queue'[k], queue[k])
      BY <1>1, <2>2
    <3>3. Dry(k)' <=> Dry(k)
      BY <2>2
    <3>4. QED BY <3>1, <3>2, <3>3 DEF RowProgress, Same
  <2>3. QED BY <2>1, <2>2
<1>3. RatedProgress'
  <2>1. ASSUME NEW b \in Bytes, top_rated'[b] /= 0 PROVE queue'[top_rated'[b]].exec_us /= 0
    <3>1. top_rated'[b] = IF b \in wins THEN q ELSE top_rated[b]
      BY DEF Rescored
    <3>2. CASE top_rated'[b] = q
      BY <1>1, <3>2 DEF Same
    <3>3. CASE top_rated'[b] = top_rated[b] /\ top_rated[b] /= q
      <4>1. top_rated[b] \in 1 .. Len(queue)
        <5>1. top_rated \in [Bytes -> 0 .. Len(queue)] /\ Len(queue) \in Nat
          BY EntryTypes DEF Types
        <5>2. QED BY <2>1, <3>3, <5>1
      <4>2. queue[top_rated[b]].exec_us /= 0
        BY <2>1, <3>3 DEF Progress, RatedProgress
      <4>3. QED BY <1>1, <3>3, <4>1, <4>2, ZenonT(30) DEF Same
    <3>4. QED BY <3>1, <3>2, <3>3
  <2>2. QED BY <2>1 DEF RatedProgress, Bytes
<1>4. QED BY <1>1, <1>2, <1>3, ProgressParts

LEMMA ProgressStep ==
    ASSUME QueueAssumption, Types, Control, Progress, Types', Control', [Next]_vars
    PROVE  Progress'
<1>1. ASSUME RowsKept PROVE LivesKept
  BY <1>1 DEF RowsKept, LivesKept, Same, Life
<1>2. ASSUME RowsKept, UNCHANGED top_rated,
             \A k \in 1 .. Len(queue) : Dry(k)' <=> Dry(k),
             pc \notin {"start", "end", "fatal"} \/ pc' \in {"start", "end", "fatal"},
             CalProgress'
      PROVE  Progress'
  BY <1>1, <1>2, RowsGoOn
<1>3. CASE Fuzz
  <2>1. UNCHANGED target
    BY <1>3 DEF Fuzz
  <2>2. CASE CalibrateRun
    <3>1. /\ RefsKept /\ UNCHANGED <<stop_soon, queue_cur>>
          /\ pc = "calibrate" /\ cal'.q = cal.q /\ cal'.caller = cal.caller
          /\ pc' \in {"calibrate", "calibrated"}
      BY <2>1, <2>2, CalibrateRunDoes
    <3>2. \A k \in 1 .. Len(queue) : Dry(k)' <=> Dry(k)
      BY <3>1 DEF Dry
    <3>3. /\ cal.caller /= "none" /\ cal.q \in 1 .. Len(queue)
          /\ queue[cal.q].exec_us = 0 /\ queue[cal.q].cal_failed > 0
          /\ cal.cycle > 0 => queue[cal.q].exec_cksum /= NoTrace
      <4>1. cal.caller /= "none" /\ cal.q > 0
        BY <3>1 DEF Control
      <4>2. cal.q \in Nat /\ cal.q <= Len(queue)
        BY DEF Types, Calibration
      <4>3. QED BY <3>1, <4>1, <4>2, EntryTypes, SMTT(30) DEF Progress, CalProgress
    <3>4. UNCHANGED top_rated
      BY <3>1 DEF RefsKept
    <3>5. CASE /\ pc' = "calibrated" /\ UNCHANGED <<queue, virgin_bits>>
               /\ cal'.cycle = cal.cycle
               /\ cal'.fault /= "NONE" \/ stop_soon
      <4>1. CalProgress'
        BY <3>1, <3>3, <3>5 DEF CalProgress
      <4>2. RowsKept
        BY <3>5 DEF RowsKept, Same
      <4>3. QED BY <1>2, <3>1, <3>2, <3>4, <4>1, <4>2
    <3>6. ASSUME NEW trace \in target[cal.input], NEW r \in Fields,
                 pc' = "calibrate", queue' = [queue EXCEPT ![cal.q] = r],
                 queue[cal.q].exec_cksum = NoTrace => r.exec_cksum = trace,
                 queue[cal.q].exec_cksum /= NoTrace =>
                     r.exec_cksum = queue[cal.q].exec_cksum,
                 r.cal_failed = queue[cal.q].cal_failed, r.exec_us = queue[cal.q].exec_us
          PROVE  Progress'
      <4>1. r.exec_cksum /= NoTrace
        <5>1. cal.input \in Inputs
          BY <3>3 DEF Control
        <5>2. trace /= NoTrace
          BY <5>1, TargetTypes
        <5>3. QED BY <3>6, <5>2
      <4>2. Puts(cal.q, r)
        BY <3>3, <3>6, PutsIs
      <4>3. CalProgress'
        BY <3>1, <3>3, <3>6, <4>1, <4>2 DEF CalProgress, Puts
      <4>4. RowProgress(cal.q)'
        <5>1. queue'[cal.q].exec_us = 0 /\ queue'[cal.q].cal_failed > 0
          BY <3>3, <3>6, <4>2 DEF Puts
        <5>2. PICK q \in 1 .. Len(queue) : q = cal.q
          BY <3>3
        <5>3. RowProgress(q)'
          BY <5>1, <5>2, SMTT(30) DEF RowProgress
        <5>4. QED BY <3>1, <5>2, <5>3 DEF RowProgress, Dry
      <4>5. QED BY <3>1, <3>2, <3>3, <3>4, <3>6, <4>2, <4>3, <4>4, RowGoesOn
    <3>7. QED BY <2>1, <2>2, <3>5, <3>6, CalibrateRunDoes
  <2>3. CASE CalibrateScore
    <3>1. PICK r, e, wins :
              /\ Rescored(cal.q, r, e, cal.last, wins)
              /\ r.exec_us /= 0 /\ r.cal_failed = 0
              /\ r.exec_cksum = queue[cal.q].exec_cksum
      BY <2>1, <2>3, CalibrateScoreRows
    <3>2. /\ pc = "calibrate" /\ pc' = "calibrated" /\ cal'.q = cal.q
          /\ cal'.caller = cal.caller /\ cal.cycle > 0
      BY <2>1, <2>3, CalibrateScoreDoes
    <3>3. r.exec_cksum /= NoTrace
      <4>1. cal.caller /= "none"
        BY <3>2 DEF Control
      <4>2. QED BY <3>1, <3>2, <4>1 DEF Progress, CalProgress
    <3>4. Same(queue'[cal.q], r) /\ cal.q \in 1 .. Len(queue)
      BY <3>1, RescoredRows
    <3>5. CalProgress'
      BY <3>1, <3>2, <3>3, <3>4 DEF CalProgress, Same
    <3>6. PICK q \in Nat : q = cal.q
      BY <3>4
    <3>7. ~Dry(q)' /\ \A k \in 1 .. Len(queue) : Dry(k)' <=> Dry(k)
      BY <3>2, <3>6 DEF Dry
    <3>8. QED BY <3>1, <3>2, <3>3, <3>5, <3>6, <3>7, RatedGoesOn
  <2>4. CASE DryRun
    <3>1. PICK q \in 1 .. Len(queue), r \in Fields :
             /\ q = cal.q + 1 /\ cal'.q = q /\ cal'.caller = "dry" /\ cal'.cycle = 0
             /\ queue' = [queue EXCEPT ![q] = r] /\ r.cal_failed > 0
             /\ r.exec_us = queue[q].exec_us
      BY <2>1, <2>4, DryRunDoes
    <3>2. RefsKept /\ pc = "dry" /\ pc' = "calibrate"
      BY <2>1, <2>4, DryRunDoes
    <3>3. Puts(q, r)
      BY <3>1, PutsIs
    <3>4. cal.q \in Nat
      BY DEF Types, Calibration
    <3>5. \A k \in 1 .. Len(queue) : k /= q => (Dry(k)' <=> Dry(k))
      <4>1. ASSUME NEW k \in 1 .. Len(queue), k /= q PROVE k > q <=> k > cal.q
        <5>1. PICK c \in Nat : c = cal.q
          BY <3>4
        <5>2. q = c + 1
          BY <3>1, <5>1
        <5>3. k > c + 1 <=> k > c
          BY <4>1, <5>2, SMTT(30)
        <5>4. QED BY <5>1, <5>2, <5>3
      <4>2. QED BY <3>1, <3>2, <4>1 DEF Dry
    <3>6. r.exec_us = 0
      <4>1. q > cal.q
        BY <3>1, <3>4, SMTT(30)
      <4>2. Dry(q)
        BY <3>2, <4>1 DEF Dry
      <4>3. QED BY <3>1, <4>2, EntryTypes DEF Progress, RowProgress
    <3>7. RowProgress(q)'
      BY <3>1, <3>3, <3>6, SMTT(30) DEF RowProgress, Puts
    <3>8. CalProgress'
      BY <3>1, <3>2, <3>3, <3>6 DEF CalProgress, Puts
    <3>9. UNCHANGED top_rated
      BY <3>2 DEF RefsKept
    <3>10. QED BY <3>1, <3>2, <3>3, <3>5, <3>7, <3>8, <3>9, RowGoesOn
  <2>5. CASE AfterDryRun \/ AfterRetry
    <3>1. /\ RowsKept /\ UNCHANGED <<stop_soon, top_rated, queue_cur>>
          /\ pc = "calibrated" /\ cal'.caller = "none"
          /\ \/ /\ cal.caller = "dry"
                /\ \/ pc' = "start" /\ stop_soon
                   \/ pc' \in {"dry", "fatal"} /\ cal'.q = cal.q
             \/ /\ cal.caller = "retry"
                /\ \/ pc' = "abandon"
                   \/ pc' = "trim" /\ cal.fault = "NONE" /\ ~stop_soon
      BY <2>1, <2>5, AfterCalibrationDoes
    <3>2. CASE cal.caller = "dry" /\ pc' = "dry" /\ cal'.q = cal.q
      <4>1. CalProgress'
        BY <3>1, <3>2 DEF CalProgress
      <4>2. \A k \in 1 .. Len(queue) : Dry(k)' <=> Dry(k)
        BY <3>2 DEF Dry
      <4>3. QED BY <1>2, <3>1, <4>1, <4>2
    <3>3. CASE pc' \in {"start", "fatal"}
      <4>1. CalProgress'
        BY <3>1, <3>3 DEF CalProgress
      <4>2. ASSUME NEW k \in 1 .. Len(queue) PROVE RowProgress(k)'
        <5>1. ~Dry(k)'
          BY <3>1, <3>3 DEF Dry
        <5>2. RowProgress(k)
          BY EntryTypes DEF Progress
        <5>3. Life(queue'[k], queue[k])
          BY <1>1, <3>1 DEF LivesKept
        <5>4. QED BY <3>3, <5>1, <5>2, <5>3 DEF RowProgress, Life
      <4>3. RatedProgress'
        BY <1>1, <3>1, RatedKept
      <4>4. QED BY <3>1, <4>1, <4>2, <4>3, ProgressParts DEF RowsKept
    <3>4. CASE cal.caller = "retry" /\ pc' \in {"abandon", "trim"}
      <4>1. \A k \in 1 .. Len(queue) : Dry(k)' <=> Dry(k)
        BY <3>1, <3>4 DEF Dry
      <4>2. CalProgress'
        <5>1. CASE pc' = "abandon"
          BY <3>1, <5>1 DEF CalProgress
        <5>2. CASE pc' = "trim" /\ cal.fault = "NONE" /\ ~stop_soon
          <6>1. cal.q = queue_cur /\ queue_cur > 0 /\ queue_cur \in 0 .. Len(queue)
            BY <3>4 DEF Control, Types
          <6>2. queue_cur \in 1 .. Len(queue)
            BY <6>1, EntryTypes
          <6>3. queue[queue_cur].exec_cksum /= NoTrace /\ queue[queue_cur].exec_us /= 0
            BY <3>1, <5>2, <6>1 DEF Progress, CalProgress
          <6>4. Life(queue'[queue_cur], queue[queue_cur])
            BY <1>1, <3>1, <6>2 DEF LivesKept
          <6>5. QED BY <3>1, <5>2, <6>3, <6>4 DEF CalProgress, Life
        <5>3. QED BY <3>1, <3>4, <5>1, <5>2
      <4>3. QED BY <1>2, <3>1, <4>1, <4>2
    <3>5. QED BY <3>1, <3>2, <3>3, <3>4
  <2>6. CASE Start \/ Loop
    <3>1. /\ RowsKept /\ RefsKept /\ cal.caller = "none" /\ cal'.caller = "none"
          /\ \/ /\ \/ pc = "start"
                   \/ pc = "dry" /\ cal.q = Len(queue)
                /\ pc' = IF stop_soon THEN "end" ELSE "loop"
             \/ pc = "loop" /\ pc' = "fuzz"
      BY <2>1, <2>6, CullDoes
    <3>2. CalProgress'
      BY <3>1 DEF CalProgress
    <3>3. \A k \in 1 .. Len(queue) : ~Dry(k) /\ ~Dry(k)'
      <4>1. ASSUME cal.q = Len(queue), NEW k \in 1 .. Len(queue) PROVE ~(k > cal.q)
        BY <4>1, EntryTypes
      <4>2. QED BY <3>1, <4>1 DEF Dry
    <3>4. pc \notin {"start", "end", "fatal"} \/ pc' \in {"start", "end", "fatal"}
      <4>1. pc = "start" => stop_soon
        BY DEF Control
      <4>2. QED BY <3>1, <4>1
    <3>5. UNCHANGED top_rated
      BY <3>1 DEF RefsKept
    <3>6. QED BY <1>2, <3>1, <3>2, <3>3, <3>4, <3>5
  <2>7. CASE Skip \/ Splice \/ FuzzEnd \/ NextEntry
    <3>1. /\ RowsKept /\ UNCHANGED <<queue, cal, top_rated>>
          /\ \/ pc = "fuzz" /\ pc' = "next"
             \/ pc = "havoc" /\ pc' \in {"havoc", "abandon", "fatal"}
             \/ pc = "next" /\ pc' \in {"end", "loop"}
      BY <2>1, <2>7, QuietDoes
    <3>2. cal.caller = "none"
      BY <3>1 DEF Control
    <3>3. CalProgress'
      BY <3>1, <3>2 DEF CalProgress
    <3>4. \A k \in 1 .. Len(queue) : ~Dry(k) /\ ~Dry(k)'
      BY <3>1, <3>2 DEF Dry
    <3>5. QED BY <1>2, <3>1, <3>3, <3>4
  <2>8. CASE FuzzOne
    <3>1. RefsKept /\ pc = "fuzz" /\ queue_cur \in 1 .. Len(queue) /\ queue_cur' = queue_cur
      BY <2>1, <2>8, FuzzOneDoes
    <3>2. cal.caller = "none" /\ UNCHANGED top_rated
      BY <3>1 DEF Control, RefsKept
    <3>3. \A k \in 1 .. Len(queue) : ~Dry(k)
      BY <3>1, <3>2 DEF Dry
    <3>4. CASE /\ UNCHANGED <<queue, cal>>
               /\ pc' = "abandon" \/ (pc' = "trim" /\ queue[queue_cur].cal_failed = 0)
      <4>1. RowsKept
        BY <3>4 DEF RowsKept, Same
      <4>2. \A k \in 1 .. Len(queue) : ~Dry(k)'
        BY <3>2, <3>4 DEF Dry
      <4>3. CalProgress'
        <5>1. RowProgress(queue_cur)
          BY <3>1, EntryTypes DEF Progress
        <5>2. ~Dry(queue_cur)
          BY <3>1, <3>3
        <5>3. pc' = "trim" => /\ queue[queue_cur].exec_cksum /= NoTrace
                              /\ queue[queue_cur].exec_us /= 0
          BY <3>1, <3>4, <5>1, <5>2 DEF RowProgress
        <5>4. QED BY <3>1, <3>2, <3>4, <5>3 DEF CalProgress
      <4>4. QED BY <1>2, <3>1, <3>2, <3>3, <4>1, <4>2, <4>3
    <3>5. ASSUME NEW r \in Fields, cal'.q = queue_cur, cal'.caller = "retry",
                 cal'.cycle = 0, pc' = "calibrate",
                 queue' = [queue EXCEPT ![queue_cur] = r],
                 queue[queue_cur].cal_failed /= 0, r.cal_failed > 0,
                 r.exec_us = queue[queue_cur].exec_us
          PROVE  Progress'
      <4>1. PICK q \in 1 .. Len(queue) : q = queue_cur
        BY <3>1
      <4>2. Puts(q, r)
        BY <3>5, <4>1, PutsIs
      <4>3. r.exec_us = 0
        BY <3>5, <4>1, EntryTypes DEF Progress, RowProgress
      <4>4. \A k \in 1 .. Len(queue) : ~Dry(k)'
        BY <3>5 DEF Dry
      <4>5. RowProgress(q)'
        BY <3>5, <4>2, <4>3, SMTT(30) DEF RowProgress, Puts
      <4>6. CalProgress'
        BY <3>5, <4>1, <4>2, <4>3 DEF CalProgress, Puts
      <4>7. r.exec_us = queue[q].exec_us
        BY <3>5, <4>1
      <4>8. QED BY <3>1, <3>2, <3>3, <4>2, <4>4, <4>5, <4>6, <4>7, RowGoesOn
    <3>6. QED BY <2>1, <2>8, <3>4, <3>5, FuzzOneDoes
  <2>9. CASE TrimRun
    <3>1. RefsKept /\ pc = "trim" /\ queue_cur \in 1 .. Len(queue)
          /\ UNCHANGED <<queue_cur, cal>> /\ pc' \in {"trim", "abandon"}
      BY <2>1, <2>9, TrimRunDoes
    <3>2. cal.caller = "none" /\ UNCHANGED top_rated
      BY <3>1 DEF Control, RefsKept
    <3>3. \A k \in 1 .. Len(queue) : ~Dry(k) /\ ~Dry(k)'
      BY <3>1, <3>2 DEF Dry
    <3>4. LivesKept
      <4>1. CASE UNCHANGED queue
        BY <4>1 DEF LivesKept, Life
      <4>2. ASSUME NEW r \in Fields, queue' = [queue EXCEPT ![queue_cur] = r],
                   r.cal_failed = queue[queue_cur].cal_failed,
                   r.exec_cksum = queue[queue_cur].exec_cksum,
                   r.exec_us = queue[queue_cur].exec_us
            PROVE  LivesKept
        <5>1. Puts(queue_cur, r)
          BY <3>1, <4>2, PutsIs
        <5>2. QED BY <4>2, <5>1 DEF Puts, LivesKept, Life
      <4>3. QED BY <2>1, <2>9, <4>1, <4>2, TrimRunDoes
    <3>5. CalProgress'
      <4>1. queue[queue_cur].exec_cksum /= NoTrace /\ queue[queue_cur].exec_us /= 0
        BY <3>1 DEF Progress, CalProgress
      <4>2. Life(queue'[queue_cur], queue[queue_cur])
        BY <3>1, <3>4 DEF LivesKept
      <4>3. QED BY <3>1, <3>2, <4>1, <4>2 DEF CalProgress, Life
    <3>6. QED BY <3>1, <3>2, <3>3, <3>4, <3>5, RowsGoOn
  <2>10. CASE TrimEnd
    <3>1. /\ UNCHANGED <<queue_cur, cal>> /\ pc = "trim" /\ pc' \in {"abandon", "havoc"}
          /\ queue_cur \in 1 .. Len(queue)
      BY <2>1, <2>10, TrimEndDoes
    <3>2. PICK r \in Fields :
              /\ r.cal_failed = queue[queue_cur].cal_failed
              /\ r.exec_cksum = queue[queue_cur].exec_cksum
              /\ r.exec_us = queue[queue_cur].exec_us
              /\ \/ \E e, wins : Rescored(queue_cur, r, e, queue[queue_cur].exec_cksum, wins)
                 \/ Puts(queue_cur, r) /\ UNCHANGED top_rated
      BY <2>1, <2>10, TrimEndRows
    <3>3. cal.caller = "none"
      BY <3>1 DEF Control
    <3>4. \A k \in 1 .. Len(queue) : ~Dry(k) /\ ~Dry(k)'
      BY <3>1, <3>3 DEF Dry
    <3>5. CalProgress'
      BY <3>1, <3>3 DEF CalProgress
    <3>6. queue[queue_cur].exec_cksum /= NoTrace /\ queue[queue_cur].exec_us /= 0
      BY <3>1 DEF Progress, CalProgress
    <3>7. ASSUME NEW e, NEW wins,
                 Rescored(queue_cur, r, e, queue[queue_cur].exec_cksum, wins)
          PROVE  Progress'
      <4>1. RowProgress(queue_cur)
        BY <3>1, EntryTypes DEF Progress
      <4>2. r.cal_failed = 0
        BY <3>2, <3>6, <4>1 DEF RowProgress
      <4>3. PICK q \in 1 .. Len(queue) : q = queue_cur
        BY <3>1
      <4>t. PICK trace : trace = queue[queue_cur].exec_cksum
        OBVIOUS
      <4>4. Rescored(q, r, e, trace, wins) /\ r.exec_us /= 0 /\ r.exec_cksum /= NoTrace
        BY <3>2, <3>6, <3>7, <4>3, <4>t
      <4>5. ~Dry(q)'
        BY <3>4
      <4>6. QED BY <3>1, <3>4, <3>5, <4>2, <4>4, <4>5, RatedGoesOn
    <3>8. CASE Puts(queue_cur, r) /\ UNCHANGED top_rated
      <4>1. LivesKept
        BY <3>2, <3>8 DEF Puts, LivesKept, Life
      <4>2. QED BY <3>1, <3>4, <3>5, <3>8, <4>1, RowsGoOn
    <3>9. QED BY <3>2, <3>7, <3>8
  <2>11. CASE FuzzRun
    <3>1. UNCHANGED top_rated /\ pc = "havoc" /\ cal.caller = "none"
      BY <2>1, <2>11, FuzzRunDoes
    <3>2. \A k \in 1 .. Len(queue) : ~Dry(k)
      BY <3>1 DEF Dry
    <3>3. CASE RowsKept /\ UNCHANGED cal /\ pc' \in {"havoc", "abandon"}
      <4>1. CalProgress'
        BY <3>1, <3>3 DEF CalProgress
      <4>2. \A k \in 1 .. Len(queue) : ~Dry(k)'
        BY <3>1, <3>3 DEF Dry
      <4>3. QED BY <1>2, <3>1, <3>2, <3>3, <4>1, <4>2
    <3>4. ASSUME NEW input \in Inputs, NEW trace \in Trace, NEW tried \in Seq(Fields),
                 NEW r \in Fields, FuzzAdds(input, trace, tried, r)
          PROVE  Progress'
      <4>1. PICK n \in Nat : n = Len(queue)
        BY EntryTypes
      <4>2. /\ Len(queue') = n + 1 /\ queue'[n + 1] = r
            /\ r.cal_failed > 0 /\ r.exec_us = 0
            /\ \A k \in 1 .. n : Life(queue'[k], queue[k])
        <5>1. /\ Len(queue') = n + 1 /\ queue'[n + 1] = r
              /\ r.cal_failed > 0 /\ r.exec_us = 0
              /\ \A k \in 1 .. n : queue'[k] = tried[k] /\ Same(tried[k], queue[k])
          BY <3>4, <4>1 DEF FuzzAdds
        <5>2. \A k \in 1 .. n : Life(queue'[k], queue[k])
          BY <5>1 DEF Same, Life
        <5>3. QED BY <5>1, <5>2
      <4>3. /\ cal'.q = n + 1 /\ cal'.caller = "save" /\ cal'.cycle = 0
            /\ pc' = "calibrate"
        BY <3>4, <4>1 DEF FuzzAdds
      <4>4. DOMAIN queue' = 1 .. n + 1
        <5>1. queue' \in Seq(Fields)
          BY DEF Types
        <5>2. QED BY <4>2, <5>1
      <4>5. CalProgress'
        BY <4>2, <4>3, SMTT(30) DEF CalProgress
      <4>6. ASSUME NEW k \in 1 .. n + 1 PROVE RowProgress(k)'
        <5>1. ~Dry(k)'
          BY <4>3 DEF Dry
        <5>2. CASE k = n + 1
          BY <4>2, <5>1, <5>2 DEF RowProgress
        <5>3. CASE k \in 1 .. n
          <6>1. RowProgress(k) /\ ~Dry(k)
            BY <3>2, <4>1, <5>3, EntryTypes DEF Progress
          <6>2. Life(queue'[k], queue[k])
            BY <4>2, <5>3
          <6>3. QED BY <3>1, <5>1, <6>1, <6>2 DEF RowProgress, Life
        <5>4. QED BY <5>2, <5>3, UpTo
      <4>7. RatedProgress'
        <5>1. ASSUME NEW b \in Bytes, top_rated[b] /= 0
              PROVE  queue'[top_rated[b]].exec_us /= 0
          <6>1. top_rated[b] \in 1 .. n
            <7>1. top_rated \in [Bytes -> 0 .. Len(queue)]
              BY DEF Types
            <7>2. QED BY <4>1, <5>1, <7>1, SMTT(30)
          <6>2. queue[top_rated[b]].exec_us /= 0
            BY <5>1 DEF Progress, RatedProgress
          <6>3. QED BY <4>2, <6>1, <6>2 DEF Life
        <5>2. QED BY <3>1, <5>1 DEF RatedProgress, Bytes
      <4>8. QED BY <4>4, <4>5, <4>6, <4>7 DEF Progress
    <3>5. QED BY <2>1, <2>11, <3>3, <3>4, FuzzRunDoes
  <2>12. CASE AfterSave
    <3>1. /\ RefsKept /\ pc = "calibrated" /\ pc' = "havoc" /\ cal.caller = "save"
          /\ cal' = NoCal /\ cal.q \in 1 .. Len(queue)
      BY <2>1, <2>12, AfterSaveDoes
    <3>2. PICK r \in Fields :
             /\ queue' = [queue EXCEPT ![cal.q] = r]
             /\ r.cal_failed = queue[cal.q].cal_failed
             /\ r.exec_cksum = queue[cal.q].exec_cksum
             /\ r.exec_us = queue[cal.q].exec_us
      BY <2>1, <2>12, AfterSaveDoes
    <3>3. Puts(cal.q, r)
      BY <3>1, <3>2, PutsIs
    <3>4. LivesKept
      BY <3>2, <3>3 DEF Puts, LivesKept, Life
    <3>5. cal'.caller = "none"
      BY <3>1 DEF NoCal
    <3>6. CalProgress'
      BY <3>1, <3>5 DEF CalProgress
    <3>7. \A k \in 1 .. Len(queue) : ~Dry(k) /\ ~Dry(k)'
      BY <3>1, <3>5 DEF Dry
    <3>8. UNCHANGED top_rated
      BY <3>1 DEF RefsKept
    <3>9. QED BY <3>1, <3>4, <3>6, <3>7, <3>8, RowsGoOn
  <2>13. CASE Abandon
    <3>1. /\ RowsKept /\ RefsKept /\ UNCHANGED <<queue_cur, cal>>
          /\ pc = "abandon" /\ pc' = "next"
      BY <2>1, <2>13, AbandonDoes
    <3>2. cal.caller = "none" /\ UNCHANGED top_rated
      BY <3>1 DEF Control, RefsKept
    <3>3. CalProgress'
      BY <3>1, <3>2 DEF CalProgress
    <3>4. \A k \in 1 .. Len(queue) : ~Dry(k) /\ ~Dry(k)'
      BY <3>1, <3>2 DEF Dry
    <3>5. QED BY <1>2, <3>1, <3>2, <3>3, <3>4
  <2>14. QED
    BY <1>3, <2>2, <2>3, <2>4, <2>5, <2>6, <2>7, <2>8, <2>9, <2>10, <2>11, <2>12, <2>13
       DEF Fuzz
<1>4. ASSUME UNCHANGED <<queue, cal, top_rated, queue_cur, pc>>, stop_soon' \/ UNCHANGED stop_soon
      PROVE  Progress'
  <2>1. RowsKept
    BY <1>4 DEF RowsKept, Same
  <2>2. CalProgress'
    BY <1>4 DEF Progress, CalProgress
  <2>3. \A k \in 1 .. Len(queue) : Dry(k)' <=> Dry(k)
    BY <1>4 DEF Dry
  <2>4. QED BY <1>2, <1>4, <2>1, <2>2, <2>3
<1>5. CASE Interrupt
  BY <1>4, <1>5, InterruptDoes
<1>6. CASE UNCHANGED vars
  BY <1>4, <1>6 DEF vars, scores, cycle
<1>7. QED BY <1>3, <1>5, <1>6 DEF Next, Ended

------------------------------------------------------------------------------
(* The inputs of the entries: what a step does to them and to their data.  *)

\* Every entry stands for an input.
LEMMA InputTypes ==
    ASSUME QueueAssumption, Types, Control, NEW k \in DOMAIN queue
    PROVE  Input(k) \in Inputs
<1>1. queue[k] \in Fields /\ NoInput \notin Inputs
  BY EntryTypes DEF QueueAssumption
<1>2. queue[k].file \in Inputs \cup {NoInput}
  BY <1>1 DEF Fields
<1>3. CASE queue[k].file = NoInput
  <2>1. cal.caller = "save"
    BY <1>3 DEF Control
  <2>2. cal.input \in Inputs
    BY <2>1 DEF Control
  <2>3. QED BY <1>3, <2>2 DEF Input
<1>4. CASE queue[k].file /= NoInput
  BY <1>2, <1>4 DEF Input
<1>5. QED BY <1>3, <1>4

\* An entry keeps its input when it keeps its file.
LEMMA InputKept ==
    ASSUME QueueAssumption, Types, Control, NEW k \in DOMAIN queue,
           queue'[k].file = queue[k].file,
           cal.caller = "save" => cal'.input = cal.input
    PROVE  Input(k)' = Input(k)
<1>1. queue[k].file = NoInput => cal.caller = "save"
  BY DEF Control
<1>2. QED BY <1>1 DEF Input

\* calibrate_case runs the input of its entry.
LEMMA CalInput ==
    ASSUME QueueAssumption, Types, Control, cal.caller /= "none"
    PROVE  cal.q \in 1 .. Len(queue) /\ cal.input \in Inputs /\ Input(cal.q) = cal.input
<1>1. cal.q > 0 /\ cal.input \in Inputs /\ queue[cal.q].file \in {NoInput, cal.input}
  BY DEF Control
<1>2. cal.q \in Nat /\ cal.q <= Len(queue)
  BY DEF Types, Calibration
<1>3. cal.q \in 1 .. Len(queue)
  BY <1>1, <1>2, EntryTypes, SMTT(30)
<1>4. QED BY <1>1, <1>3 DEF Input

\* What stays of an entry; before it has a time its trace may be lost or found.
Rests(k) ==
    /\ Input(k)' = Input(k)
    /\ queue'[k].len = queue[k].len /\ queue'[k].exec_us = queue[k].exec_us
    /\ \/ queue'[k].exec_cksum = queue[k].exec_cksum
       \/ /\ queue[k].exec_us = 0
          /\ queue'[k].exec_cksum \in {NoTrace} \cup target[Input(k)]

\* Trimming goes on, or nothing of it waits to be written.
TrimGoesOn ==
    /\ stop_soon => stop_soon'
    /\ \/ UNCHANGED <<pc, in_buf, queue_cur, needs_write>>
       \/ /\ ~(pc' = "trim" /\ needs_write')
          /\ ~(pc = "trim" /\ needs_write) \/ stop_soon'

\* The last trace of a calibration is one of its input.
CalGoesOn ==
    cal'.caller /= "none" /\ cal'.cycle > 0 =>
        \/ cal'.last \in target[cal'.input]
        \/ /\ cal.caller /= "none" /\ cal.cycle > 0
           /\ cal'.last = cal.last /\ cal'.input = cal.input

\* Only what an entry hits becomes known.
BitsGoOn ==
    \/ UNCHANGED virgin_bits
    \/ \E k \in 1 .. Len(queue) : \E trace \in target[Input(k)] :
          virgin_bits' = Cleared(virgin_bits, trace)

\* The steps that neither rate, trim nor add.
Steady ==
    /\ Len(queue') = Len(queue) /\ UNCHANGED top_rated
    /\ \A k \in 1 .. Len(queue) : Rests(k)
    /\ TrimGoesOn /\ CalGoesOn /\ BitsGoOn

Rates(q, r, e, trace, wins) ==
    /\ Rescored(q, r, e, trace, wins) /\ UNCHANGED <<virgin_bits, stop_soon>>
    /\ r.len = queue[q].len /\ r.exec_cksum = queue[q].exec_cksum
    /\ Stable => trace = queue[q].exec_cksum
    /\ pc' /= "trim" /\ CalGoesOn
    /\ \A k \in 1 .. Len(queue) : k /= q => Input(k)' = Input(k) /\ ~Longer(k)
    /\ \/ Input(q)' = Input(q) /\ queue[q].exec_us = 0 /\ ~Longer(q)
       \/ /\ pc = "trim" /\ q = queue_cur /\ Input(q)' = in_buf
          /\ r.exec_us = queue[q].exec_us

TrimsTo(q, r, cut) ==
    /\ pc = "trim" /\ pc' = "trim" /\ q = queue_cur /\ queue_cur' = q
    /\ q \in 1 .. Len(queue) /\ cut \in Inputs
    /\ Puts(q, r) /\ in_buf' = cut /\ needs_write'
    /\ r.len = Length[cut] /\ Length[cut] < Length[in_buf]
    /\ r.exec_cksum = queue[q].exec_cksum /\ r.exec_us = queue[q].exec_us
    /\ queue[q].exec_cksum \in target[cut]
    /\ UNCHANGED <<stop_soon, top_rated, virgin_bits>> /\ CalGoesOn
    /\ \A k \in 1 .. Len(queue) : Input(k)' = Input(k)

Adds(n, input, trace, r) ==
    /\ input \in Inputs /\ trace \in target[input]
    /\ n = Len(queue) /\ n \in Nat /\ Len(queue') = n + 1 /\ queue'[n + 1] = r
    /\ \A k \in 1 .. n : Rests(k)
    /\ Input(n + 1)' = input /\ r.len = Length[input]
    /\ r.exec_cksum = trace /\ r.exec_us = 0
    /\ pc /= "trim" /\ pc' /= "trim" /\ cal'.cycle = 0
    /\ UNCHANGED <<stop_soon, top_rated>>
    /\ virgin_bits' = Cleared(virgin_bits, trace)

\* An entry that stays as it is, but for its number of failed calibrations.
LEMMA SameRests ==
    ASSUME QueueAssumption, Types, Control, NEW k \in 1 .. Len(queue),
           Same(queue'[k], queue[k]), cal.caller = "save" => cal'.input = cal.input
    PROVE  Rests(k)
<1>1. k \in DOMAIN queue
  BY EntryTypes
<1>2. Input(k)' = Input(k)
  BY <1>1, InputKept DEF Same
<1>3. QED BY <1>2 DEF Rests, Same

\* One entry changes, the others stay.
LEMMA PutsRests ==
    ASSUME QueueAssumption, Types, Control, NEW q \in 1 .. Len(queue), NEW r,
           Puts(q, r), Rests(q), cal.caller = "save" => cal'.input = cal.input,
           NEW k \in 1 .. Len(queue)
    PROVE  Rests(k)
<1>1. CASE k = q
  BY <1>1
<1>2. CASE k /= q
  <2>1. queue'[k] = queue[k]
    BY <1>2 DEF Puts
  <2>2. Same(queue'[k], queue[k])
    BY <2>1 DEF Same
  <2>3. QED BY <2>2, SameRests
<1>3. QED BY <1>1, <1>2

LEMMA DataSteps ==
    ASSUME QueueAssumption, Types, Control, Progress, Traces, [Next]_vars
    PROVE  \/ Steady
           \/ \E q, r, e, trace, wins : Rates(q, r, e, trace, wins)
           \/ \E q, r, cut : TrimsTo(q, r, cut)
           \/ \E n, input, trace, r : Adds(n, input, trace, r)
<1>1. ASSUME RowsKept, UNCHANGED <<top_rated, virgin_bits>>, TrimGoesOn, CalGoesOn,
             cal.caller = "save" => cal'.input = cal.input
      PROVE  Steady
  <2>1. ASSUME NEW k \in 1 .. Len(queue) PROVE Rests(k)
    <3>1. Same(queue'[k], queue[k])
      BY <1>1 DEF RowsKept
    <3>2. QED BY <1>1, <3>1, SameRests
  <2>2. QED BY <1>1, <2>1 DEF Steady, BitsGoOn, RowsKept
<1>2. ASSUME NEW q \in 1 .. Len(queue), NEW r, Puts(q, r), Rests(q),
             UNCHANGED top_rated, BitsGoOn, TrimGoesOn, CalGoesOn,
             cal.caller = "save" => cal'.input = cal.input
      PROVE  Steady
  <2>1. ASSUME NEW k \in 1 .. Len(queue) PROVE Rests(k)
    BY <1>2, PutsRests
  <2>2. QED BY <1>2, <2>1 DEF Steady, Puts
<1>3. CASE Fuzz
  <2>1. UNCHANGED target
    BY <1>3 DEF Fuzz
  <2>2. CASE CalibrateRun
    <3>1. /\ RefsKept /\ UNCHANGED <<stop_soon, queue_cur, needs_write, in_buf>>
          /\ pc = "calibrate" /\ pc' \in {"calibrate", "calibrated"}
          /\ cal'.q = cal.q /\ cal'.caller = cal.caller /\ cal'.input = cal.input
      BY <2>1, <2>2, CalibrateRunDoes
    <3>2. cal.caller /= "none" /\ queue[cal.q].exec_us = 0
      BY <3>1 DEF Control, Progress, CalProgress
    <3>3. cal.q \in 1 .. Len(queue) /\ Input(cal.q) = cal.input
      BY <3>2, CalInput
    <3>4. TrimGoesOn /\ UNCHANGED top_rated
      BY <3>1 DEF TrimGoesOn, RefsKept
    <3>5. CASE UNCHANGED <<queue, virgin_bits>> /\ cal'.cycle = cal.cycle /\ cal'.last = cal.last
      <4>1. CalGoesOn
        BY <3>1, <3>5 DEF CalGoesOn
      <4>2. RowsKept
        BY <3>5 DEF RowsKept, Same
      <4>3. QED BY <1>1, <3>1, <3>4, <3>5, <4>1, <4>2
    <3>6. ASSUME NEW trace \in target[cal.input], NEW r \in Fields, cal'.last = trace,
                 UNCHANGED virgin_bits \/ virgin_bits' = Cleared(virgin_bits, trace),
                 queue' = [queue EXCEPT ![cal.q] = r],
                 queue[cal.q].exec_cksum = NoTrace => r.exec_cksum = trace,
                 queue[cal.q].exec_cksum /= NoTrace =>
                     r.exec_cksum = queue[cal.q].exec_cksum,
                 r.file = queue[cal.q].file, r.len = queue[cal.q].len,
                 r.exec_us = queue[cal.q].exec_us
          PROVE  Steady
      <4>1. PICK q \in 1 .. Len(queue) : q = cal.q
        BY <3>3
      <4>2. Puts(q, r)
        BY <3>6, <4>1, PutsIs
      <4>3. CalGoesOn
        <5>1. cal'.last \in target[cal'.input]
          <6>1. cal'.input = cal.input
            BY <3>1
          <6>2. QED BY <3>6, <6>1
        <5>2. QED BY <5>1 DEF CalGoesOn
      <4>4. BitsGoOn
        <5>1. trace \in target[Input(q)]
          BY <3>3, <3>6, <4>1
        <5>2. QED BY <3>6, <5>1 DEF BitsGoOn
      <4>5. Rests(q)
        <5>1. queue'[q].file = queue[q].file /\ q \in DOMAIN queue
          BY <3>6, <4>1, <4>2, EntryTypes DEF Puts
        <5>2. Input(q)' = Input(q)
          BY <3>1, <5>1, InputKept
        <5>3. trace \in target[Input(q)]
          BY <3>3, <3>6, <4>1
        <5>4. queue'[q] = r
          BY <4>2 DEF Puts
        <5>5. \/ r.exec_cksum = queue[q].exec_cksum
              \/ queue[q].exec_us = 0 /\ r.exec_cksum = trace
          BY <3>2, <3>6, <4>1
        <5>6. r.len = queue[q].len /\ r.exec_us = queue[q].exec_us
          BY <3>6, <4>1
        <5>7. QED BY <5>2, <5>3, <5>4, <5>5, <5>6 DEF Rests
      <4>6. QED BY <1>2, <3>1, <3>4, <4>2, <4>3, <4>4, <4>5
    <3>7. QED BY <2>1, <2>2, <3>5, <3>6, CalibrateRunDoes
  <2>3. CASE CalibrateScore
    <3>1. PICK r, e, wins :
              /\ Rescored(cal.q, r, e, cal.last, wins)
              /\ r.file = queue[cal.q].file /\ r.len = queue[cal.q].len
              /\ r.exec_cksum = queue[cal.q].exec_cksum
      BY <2>1, <2>3, CalibrateScoreRows
    <3>2. /\ UNCHANGED <<stop_soon, virgin_bits>>
          /\ pc = "calibrate" /\ pc' = "calibrated" /\ cal'.q = cal.q
          /\ cal'.caller = cal.caller /\ cal'.input = cal.input /\ cal.cycle > 0
          /\ cal'.cycle = cal.cycle /\ cal'.last = cal.last
      BY <2>1, <2>3, CalibrateScoreDoes
    <3>3. CalGoesOn
      BY <3>2 DEF CalGoesOn
    <3>4. PICK q, trace : q = cal.q /\ trace = cal.last
      OBVIOUS
    <3>5. Rescored(q, r, e, trace, wins)
      BY <3>1, <3>4
    <3>6. /\ q \in 1 .. Len(queue) /\ Same(queue'[q], r)
          /\ \A k \in 1 .. Len(queue) : k /= q => Same(queue'[k], queue[k])
      BY <3>5, RescoredRows
    <3>7. ASSUME NEW k \in 1 .. Len(queue) PROVE Input(k)' = Input(k) /\ ~Longer(k)
      <4>1. queue'[k].file = queue[k].file
        BY <3>1, <3>4, <3>6 DEF Same
      <4>2. k \in DOMAIN queue
        BY EntryTypes
      <4>3. QED BY <3>2, <4>1, <4>2, InputKept DEF Longer
    <3>8. queue[q].exec_us = 0
      BY <3>2, <3>4 DEF Progress, CalProgress
    <3>9. Stable => trace = queue[q].exec_cksum
      BY <3>2, <3>4, LastTrace
    <3>10. r.len = queue[q].len /\ r.exec_cksum = queue[q].exec_cksum
      BY <3>1, <3>4
    <3>11. Rates(q, r, e, trace, wins)
      BY <3>2, <3>3, <3>5, <3>6, <3>7, <3>8, <3>9, <3>10 DEF Rates
    <3>12. QED BY <3>11
  <2>4. CASE DryRun
    <3>1. /\ RefsKept /\ pc = "dry" /\ pc' = "calibrate"
          /\ UNCHANGED <<stop_soon, queue_cur, needs_write, in_buf, virgin_bits>>
      BY <2>1, <2>4, DryRunDoes
    <3>2. PICK q \in 1 .. Len(queue), r \in Fields :
             /\ cal'.cycle = 0 /\ queue' = [queue EXCEPT ![q] = r]
             /\ r.file = queue[q].file /\ r.len = queue[q].len
             /\ r.exec_cksum = queue[q].exec_cksum /\ r.exec_us = queue[q].exec_us
      BY <2>1, <2>4, DryRunDoes
    <3>3. Puts(q, r)
      BY <3>2, PutsIs
    <3>4. cal.caller = "none"
      BY <3>1 DEF Control
    <3>5. Rests(q)
      <4>1. queue'[q] = r /\ q \in DOMAIN queue
        BY <3>3, EntryTypes DEF Puts
      <4>2. Input(q)' = Input(q)
        BY <3>2, <3>4, <4>1, InputKept
      <4>3. QED BY <3>2, <4>1, <4>2 DEF Rests
    <3>6. TrimGoesOn /\ CalGoesOn /\ BitsGoOn /\ UNCHANGED top_rated
      BY <3>1, <3>2 DEF TrimGoesOn, CalGoesOn, BitsGoOn, RefsKept
    <3>7. QED BY <1>2, <3>3, <3>4, <3>5, <3>6
  <2>5. CASE AfterDryRun \/ AfterRetry
    <3>1. /\ RowsKept /\ UNCHANGED <<virgin_bits, stop_soon, in_buf, needs_write,
                                     top_rated, queue_cur>>
          /\ pc = "calibrated" /\ cal'.caller = "none" /\ cal.caller /= "save"
          /\ pc' = "trim" => cal.caller = "retry"
      BY <2>1, <2>5, AfterCalibrationDoes
    <3>2. pc' = "trim" => ~needs_write
      BY <3>1 DEF Control
    <3>3. TrimGoesOn /\ CalGoesOn
      BY <3>1, <3>2 DEF TrimGoesOn, CalGoesOn
    <3>4. QED BY <1>1, <3>1, <3>3
  <2>6. CASE Start \/ Loop
    <3>1. /\ RowsKept /\ UNCHANGED <<virgin_bits, stop_soon, in_buf, needs_write, top_rated>>
          /\ cal.caller = "none" /\ cal'.caller = "none"
          /\ pc /= "trim" /\ pc' /= "trim"
      BY <2>1, <2>6, CullDoes
    <3>2. TrimGoesOn /\ CalGoesOn
      BY <3>1 DEF TrimGoesOn, CalGoesOn
    <3>3. QED BY <1>1, <3>1, <3>2
  <2>7. CASE Skip \/ Splice \/ FuzzEnd \/ NextEntry
    <3>1. /\ RowsKept /\ UNCHANGED <<virgin_bits, stop_soon, cal, in_buf, needs_write,
                                     top_rated>>
          /\ pc /= "trim" /\ pc' /= "trim"
      BY <2>1, <2>7, QuietDoes
    <3>2. TrimGoesOn /\ CalGoesOn
      BY <3>1 DEF TrimGoesOn, CalGoesOn
    <3>3. QED BY <1>1, <3>1, <3>2
  <2>8. CASE FuzzOne
    <3>1. /\ RefsKept /\ pc = "fuzz" /\ queue_cur \in 1 .. Len(queue) /\ ~needs_write'
          /\ UNCHANGED <<virgin_bits, stop_soon, top_rated, queue_cur>>
      BY <2>1, <2>8, FuzzOneDoes
    <3>2. cal.caller = "none"
      BY <3>1 DEF Control
    <3>3. TrimGoesOn
      BY <3>1 DEF TrimGoesOn
    <3>4. CASE UNCHANGED <<queue, cal>>
      <4>1. RowsKept
        BY <3>4 DEF RowsKept, Same
      <4>2. CalGoesOn
        BY <3>4 DEF CalGoesOn
      <4>3. QED BY <1>1, <3>1, <3>2, <3>3, <4>1, <4>2
    <3>5. ASSUME NEW r \in Fields, cal'.cycle = 0,
                 queue' = [queue EXCEPT ![queue_cur] = r],
                 queue[queue_cur].cal_failed /= 0, r.file = queue[queue_cur].file,
                 r.len = queue[queue_cur].len, r.exec_cksum = NoTrace,
                 r.exec_us = queue[queue_cur].exec_us
          PROVE  Steady
      <4>1. PICK q \in 1 .. Len(queue) : q = queue_cur
        BY <3>1
      <4>2. Puts(q, r)
        BY <3>5, <4>1, PutsIs
      <4>3. queue[q].exec_us = 0
        BY <3>5, <4>1, EntryTypes DEF Progress, RowProgress
      <4>4. Rests(q)
        <5>1. queue'[q] = r /\ q \in DOMAIN queue
          BY <4>2, EntryTypes DEF Puts
        <5>2. queue'[q].file = queue[q].file
          BY <3>5, <4>1, <5>1
        <5>3. Input(q)' = Input(q)
          BY <3>2, <5>1, <5>2, InputKept
        <5>4. r.len = queue[q].len /\ r.exec_us = queue[q].exec_us
          BY <3>5, <4>1
        <5>5. QED BY <3>5, <4>3, <5>1, <5>3, <5>4 DEF Rests
      <4>5. CalGoesOn /\ BitsGoOn
        BY <3>1, <3>5 DEF CalGoesOn, BitsGoOn
      <4>6. QED BY <1>2, <3>1, <3>2, <3>3, <4>2, <4>4, <4>5
    <3>6. QED BY <2>1, <2>8, <3>4, <3>5, FuzzOneDoes
  <2>9. CASE TrimRun
    <3>1. /\ RefsKept /\ pc = "trim" /\ queue_cur \in 1 .. Len(queue)
          /\ UNCHANGED <<virgin_bits, stop_soon, top_rated, queue_cur, cal>>
      BY <2>1, <2>9, TrimRunDoes
    <3>2. cal.caller = "none" /\ queue[queue_cur].exec_cksum /= NoTrace
      BY <3>1 DEF Control, Progress, CalProgress
    <3>3. CalGoesOn
      BY <3>1, <3>2 DEF CalGoesOn
    <3>4. CASE /\ UNCHANGED <<queue, in_buf, needs_write>>
               /\ pc' = "trim" \/ (pc' = "abandon" /\ stop_soon)
      <4>1. RowsKept
        BY <3>4 DEF RowsKept, Same
      <4>2. TrimGoesOn
        BY <3>1, <3>4 DEF TrimGoesOn
      <4>3. QED BY <1>1, <3>1, <3>2, <3>3, <4>1, <4>2
    <3>5. ASSUME NEW cut \in Inputs, NEW r \in Fields, pc' = "trim", in_buf' = cut,
                 needs_write', Length[cut] < Length[in_buf], r.len = Length[cut],
                 queue[queue_cur].exec_cksum /= NoTrace =>
                     queue[queue_cur].exec_cksum \in target[cut],
                 queue' = [queue EXCEPT ![queue_cur] = r],
                 r.file = queue[queue_cur].file,
                 r.exec_cksum = queue[queue_cur].exec_cksum,
                 r.exec_us = queue[queue_cur].exec_us
          PROVE  \E q : TrimsTo(q, r, cut)
      <4>1. PICK q \in 1 .. Len(queue) : q = queue_cur
        BY <3>1
      <4>2. Puts(q, r)
        BY <3>5, <4>1, PutsIs
      <4>3. ASSUME NEW k \in 1 .. Len(queue) PROVE Input(k)' = Input(k)
        <5>1. queue'[k].file = queue[k].file /\ k \in DOMAIN queue
          BY <3>5, <4>1, <4>2, EntryTypes DEF Puts
        <5>2. QED BY <3>2, <5>1, InputKept
      <4>4. /\ r.exec_cksum = queue[q].exec_cksum /\ r.exec_us = queue[q].exec_us
            /\ queue[q].exec_cksum \in target[cut] /\ queue_cur' = q
        BY <3>1, <3>2, <3>5, <4>1
      <4>5. TrimsTo(q, r, cut)
        BY <3>1, <3>3, <3>5, <4>1, <4>2, <4>3, <4>4 DEF TrimsTo
      <4>6. QED BY <4>5
    <3>6. QED BY <2>1, <2>9, <3>4, <3>5, TrimRunDoes
  <2>10. CASE TrimEnd
    <3>1. /\ UNCHANGED <<virgin_bits, stop_soon, queue_cur, cal, in_buf, needs_write>>
          /\ pc = "trim" /\ pc' \in {"abandon", "havoc"}
          /\ queue_cur \in 1 .. Len(queue) /\ in_buf \in Inputs
      BY <2>1, <2>10, TrimEndDoes
    <3>2. cal.caller = "none"
      BY <3>1 DEF Control
    <3>3. CalGoesOn
      BY <3>1, <3>2 DEF CalGoesOn
    <3>4. PICK r \in Fields :
              /\ r.file = IF needs_write THEN in_buf ELSE queue[queue_cur].file
              /\ r.len = queue[queue_cur].len
              /\ r.exec_cksum = queue[queue_cur].exec_cksum
              /\ r.exec_us = queue[queue_cur].exec_us
              /\ \/ /\ needs_write
                    /\ \E e, wins : Rescored(queue_cur, r, e, queue[queue_cur].exec_cksum, wins)
                 \/ /\ ~needs_write
                    /\ Puts(queue_cur, r) /\ UNCHANGED top_rated
      BY <2>1, <2>10, TrimEndRows
    <3>5. PICK q \in 1 .. Len(queue) : q = queue_cur
      BY <3>1
    <3>6. ASSUME needs_write, NEW e, NEW wins,
                 Rescored(queue_cur, r, e, queue[queue_cur].exec_cksum, wins)
          PROVE  \E trace : Rates(q, r, e, trace, wins)
      <4>1. PICK trace : trace = queue[queue_cur].exec_cksum
        OBVIOUS
      <4>2. Rescored(q, r, e, trace, wins)
        BY <3>5, <3>6, <4>1
      <4>3. /\ Same(queue'[q], r)
            /\ \A k \in 1 .. Len(queue) : k /= q => Same(queue'[k], queue[k])
        BY <4>2, RescoredRows
      <4>4. ASSUME NEW k \in 1 .. Len(queue), k /= q
            PROVE  Input(k)' = Input(k) /\ ~Longer(k)
        <5>1. queue'[k].file = queue[k].file /\ k \in DOMAIN queue
          BY <4>3, <4>4, EntryTypes DEF Same
        <5>2. QED BY <3>2, <3>5, <4>4, <5>1, InputKept DEF Longer
      <4>5. Input(q)' = in_buf
        <5>1. queue'[q].file = in_buf /\ in_buf /= NoInput
          BY <3>1, <3>4, <3>6, <4>3 DEF Same, QueueAssumption
        <5>2. QED BY <5>1 DEF Input
      <4>6. /\ r.len = queue[q].len /\ r.exec_cksum = queue[q].exec_cksum
            /\ trace = queue[q].exec_cksum /\ r.exec_us = queue[q].exec_us
        BY <3>4, <3>5, <4>1
      <4>7. Rates(q, r, e, trace, wins)
        BY <3>1, <3>3, <3>5, <4>2, <4>4, <4>5, <4>6 DEF Rates
      <4>8. QED BY <4>7
    <3>7. CASE ~needs_write /\ Puts(queue_cur, r) /\ UNCHANGED top_rated
      <4>1. RowsKept \/ Rests(q)
        <5>1. queue'[q] = r /\ q \in DOMAIN queue
          BY <3>5, <3>7, EntryTypes DEF Puts
        <5>2. r.file = queue[q].file /\ r.len = queue[q].len
              /\ r.exec_cksum = queue[q].exec_cksum /\ r.exec_us = queue[q].exec_us
          BY <3>4, <3>5, <3>7
        <5>3. Input(q)' = Input(q)
          BY <3>2, <5>1, <5>2, InputKept
        <5>4. QED BY <5>1, <5>2, <5>3 DEF Rests
      <4>2. TrimGoesOn /\ BitsGoOn
        BY <3>1, <3>7 DEF TrimGoesOn, BitsGoOn
      <4>3. Puts(q, r)
        BY <3>5, <3>7
      <4>4. CASE Rests(q)
        BY <1>2, <3>2, <3>3, <3>7, <4>2, <4>3, <4>4
      <4>5. CASE RowsKept
        BY <1>1, <3>1, <3>2, <3>3, <3>7, <4>2, <4>5
      <4>6. QED BY <4>1, <4>4, <4>5
    <3>8. QED BY <3>4, <3>6, <3>7
  <2>11. CASE FuzzRun
    <3>1. /\ UNCHANGED <<stop_soon, top_rated, queue_cur, in_buf, needs_write>>
          /\ pc = "havoc" /\ cal.caller = "none"
      BY <2>1, <2>11, FuzzRunDoes
    <3>2. CASE RowsKept /\ UNCHANGED <<cal, virgin_bits>> /\ pc' \in {"havoc", "abandon"}
      <4>1. TrimGoesOn /\ CalGoesOn
        BY <3>1, <3>2 DEF TrimGoesOn, CalGoesOn
      <4>2. QED BY <1>1, <3>1, <3>2, <4>1
    <3>3. ASSUME NEW input \in Inputs, NEW trace \in Trace, NEW tried \in Seq(Fields),
                 NEW r \in Fields, trace \in target[input],
                 FuzzAdds(input, trace, tried, r)
          PROVE  \E n : Adds(n, input, trace, r)
      <4>n. PICK n \in Nat : n = Len(queue)
        BY EntryTypes
      <4>1. /\ Len(queue') = n + 1 /\ queue'[n + 1] = r
            /\ \A k \in 1 .. n : queue'[k] = tried[k] /\ Same(tried[k], queue[k])
            /\ r.file = NoInput /\ r.len = Length[input]
            /\ r.exec_cksum = trace /\ r.exec_us = 0 /\ cal'.input = input
            /\ cal'.cycle = 0 /\ pc' = "calibrate"
            /\ virgin_bits' = Cleared(virgin_bits, trace)
        BY <3>3, <4>n DEF FuzzAdds
      <4>2. ASSUME NEW k \in 1 .. n PROVE Rests(k)
        <5>1. Same(queue'[k], queue[k])
          BY <4>1
        <5>2. QED BY <3>1, <4>n, <5>1, SameRests
      <4>3. Input(n + 1)' = input
        <5>1. queue'[n + 1].file = NoInput /\ cal'.input = input
          BY <4>1
        <5>2. QED BY <5>1 DEF Input
      <4>4. Adds(n, input, trace, r)
        BY <3>1, <3>3, <4>n, <4>1, <4>2, <4>3 DEF Adds
      <4>5. QED BY <4>4
    <3>4. QED BY <2>1, <2>11, <3>2, <3>3, FuzzRunDoes
  <2>12. CASE AfterSave
    <3>1. /\ UNCHANGED <<virgin_bits, stop_soon, in_buf, needs_write, top_rated, queue_cur>>
          /\ pc = "calibrated" /\ pc' = "havoc" /\ cal.caller = "save"
          /\ cal' = NoCal /\ cal.q \in 1 .. Len(queue) /\ cal.input \in Inputs
      BY <2>1, <2>12, AfterSaveDoes
    <3>2. PICK r \in Fields :
             /\ queue' = [queue EXCEPT ![cal.q] = r]
             /\ r.file = cal.input /\ r.len = queue[cal.q].len
             /\ r.exec_cksum = queue[cal.q].exec_cksum
             /\ r.exec_us = queue[cal.q].exec_us
      BY <2>1, <2>12, AfterSaveDoes
    <3>3. PICK q \in 1 .. Len(queue) : q = cal.q
      BY <3>1
    <3>4. Puts(q, r)
      BY <3>2, <3>3, PutsIs
    <3>5. ASSUME NEW k \in 1 .. Len(queue) PROVE Rests(k)
      <4>1. CASE k = q
        <5>1. queue'[k] = r /\ cal.input /= NoInput
          BY <3>1, <3>4, <4>1 DEF Puts, QueueAssumption
        <5>2. Input(k)' = cal.input
          BY <3>2, <5>1 DEF Input
        <5>3. Input(k) = cal.input
          BY <3>1, <3>3, <4>1, CalInput
        <5>4. r.len = queue[k].len /\ r.exec_us = queue[k].exec_us
              /\ r.exec_cksum = queue[k].exec_cksum
          BY <3>2, <3>3, <4>1
        <5>5. QED BY <5>1, <5>2, <5>3, <5>4 DEF Rests
      <4>2. CASE k /= q
        <5>1. queue'[k] = queue[k]
          BY <3>4, <4>2 DEF Puts
        <5>2. queue[k].file /= NoInput
          BY <3>3, <4>2, EntryTypes DEF Control
        <5>3. Input(k)' = Input(k)
          BY <5>1, <5>2 DEF Input
        <5>4. QED BY <5>1, <5>3 DEF Rests
      <4>3. QED BY <4>1, <4>2
    <3>6. cal'.caller = "none"
      BY <3>1 DEF NoCal
    <3>7. TrimGoesOn /\ CalGoesOn /\ BitsGoOn
      BY <3>1, <3>6 DEF TrimGoesOn, CalGoesOn, BitsGoOn
    <3>8. QED BY <3>1, <3>4, <3>5, <3>7 DEF Steady, Puts
  <2>13. CASE Abandon
    <3>1. /\ RowsKept /\ UNCHANGED <<virgin_bits, stop_soon, top_rated, queue_cur, cal>>
          /\ pc = "abandon" /\ pc' = "next"
      BY <2>1, <2>13, AbandonDoes
    <3>2. TrimGoesOn /\ CalGoesOn
      BY <3>1 DEF TrimGoesOn, CalGoesOn
    <3>3. QED BY <1>1, <3>1, <3>2
  <2>14. QED
    BY <1>3, <2>2, <2>3, <2>4, <2>5, <2>6, <2>7, <2>8, <2>9, <2>10, <2>11, <2>12, <2>13
       DEF Fuzz
<1>4. ASSUME UNCHANGED <<queue, virgin_bits, cal, in_buf, needs_write, top_rated, queue_cur,
                         pc>>, stop_soon' \/ UNCHANGED stop_soon
      PROVE  Steady
  <2>1. RowsKept
    BY <1>4 DEF RowsKept, Same
  <2>2. TrimGoesOn /\ CalGoesOn
    BY <1>4 DEF TrimGoesOn, CalGoesOn
  <2>3. QED BY <1>1, <1>4, <2>1, <2>2
<1>5. CASE Interrupt
  BY <1>4, <1>5, InterruptDoes
<1>6. CASE UNCHANGED vars
  BY <1>4, <1>6 DEF vars, scores, cycle, stage
<1>7. QED BY <1>3, <1>5, <1>6 DEF Next, Ended

LEMMA QueueNext ==
    ASSUME Types' PROVE DOMAIN queue' = 1 .. Len(queue') /\ Len(queue') \in Nat
<1>1. queue' \in Seq(Fields)
  BY DEF Types
<1>2. QED BY <1>1

\* When nothing waits to be written the input that is trimmed is that of the entry.
LEMMA TrimInput ==
    ASSUME QueueAssumption, Types', Control', pc' = "trim", ~needs_write'
    PROVE  /\ queue_cur' \in 1 .. Len(queue')
           /\ \A k \in 1 .. Len(queue') : k = queue_cur' => Input(k)' = in_buf'
<1>1. queue_cur' > 0 /\ in_buf' \in Inputs /\ in_buf' = queue'[queue_cur'].file
  BY DEF Control
<1>2. queue_cur' \in 0 .. Len(queue')
  BY DEF Types
<1>3. queue_cur' \in 1 .. Len(queue')
  BY <1>1, <1>2, QueueNext
<1>4. NoInput \notin Inputs
  BY DEF QueueAssumption
<1>5. ASSUME NEW k \in 1 .. Len(queue'), k = queue_cur' PROVE Input(k)' = in_buf'
  <2>1. queue'[k].file = in_buf' /\ queue'[k].file /= NoInput
    BY <1>1, <1>4, <1>5
  <2>2. QED BY <2>1 DEF Input
<1>6. QED BY <1>3, <1>5

\* A stable target has one trace for an input.
LEMMA OneTrace ==
    ASSUME Stable, NEW i \in Inputs, NEW t \in target[i]
    PROVE  target[i] = {t}
  BY DEF Stable

LEMMA LengthsStep ==
    ASSUME QueueAssumption, Types, Control, Progress, Traces, Lengths,
           Types', Control', [Next]_vars
    PROVE  Lengths'
<1>1. DOMAIN queue = 1 .. Len(queue) /\ Len(queue) \in Nat
  BY EntryTypes
<1>2. DOMAIN queue' = 1 .. Len(queue') /\ Len(queue') \in Nat
  BY QueueNext
<1> SUFFICES ASSUME ~stop_soon' PROVE Lengths'
  BY DEF Lengths
<1>3. ASSUME \A k \in 1 .. Len(queue') : ~Longer(k)' => Length[Input(k)'] = queue'[k].len,
             pc' = "trim" => Length[in_buf'] = queue'[queue_cur'].len
      PROVE  Lengths'
  BY <1>2, <1>3 DEF Lengths
<1>4. CASE Steady
  <2>1. /\ Len(queue') = Len(queue) /\ \A k \in 1 .. Len(queue) : Rests(k)
        /\ TrimGoesOn /\ ~stop_soon
    BY <1>4 DEF Steady, TrimGoesOn
  <2>2. ASSUME NEW k \in 1 .. Len(queue), ~Longer(k)'
        PROVE  Length[Input(k)'] = queue'[k].len
    <3>1. ~Longer(k)
      BY <2>1, <2>2 DEF TrimGoesOn, Longer
    <3>2. Length[Input(k)] = queue[k].len
      BY <1>1, <2>1, <3>1 DEF Lengths
    <3>3. Rests(k)
      BY <2>1
    <3>4. QED BY <3>2, <3>3 DEF Rests
  <2>3. ASSUME pc' = "trim" PROVE Length[in_buf'] = queue'[queue_cur'].len
    <3>1. CASE UNCHANGED <<pc, in_buf, queue_cur, needs_write>>
      <4>1. Length[in_buf] = queue[queue_cur].len /\ queue_cur \in 1 .. Len(queue)
        BY <2>1, <2>3, <3>1, CurrentEntry DEF Lengths
      <4>2. Rests(queue_cur)
        BY <2>1, <4>1
      <4>3. QED BY <3>1, <4>1, <4>2 DEF Rests
    <3>2. CASE ~needs_write'
      <4>1. PICK k \in 1 .. Len(queue') : k = queue_cur' /\ Input(k)' = in_buf'
        BY <2>3, <3>2, TrimInput
      <4>2. ~Longer(k)'
        BY <3>2 DEF Longer
      <4>3. QED BY <2>1, <2>2, <4>1, <4>2
    <3>3. QED BY <2>1, <2>3, <3>1, <3>2 DEF TrimGoesOn
  <2>4. QED BY <1>3, <2>1, <2>2, <2>3
<1>5. ASSUME NEW q, NEW r, NEW e, NEW trace, NEW wins, Rates(q, r, e, trace, wins)
      PROVE  Lengths'
  <2>1. /\ Rescored(q, r, e, trace, wins) /\ stop_soon' = stop_soon /\ r.len = queue[q].len
        /\ pc' /= "trim"
        /\ \A k \in 1 .. Len(queue) : k /= q => Input(k)' = Input(k) /\ ~Longer(k)
        /\ \/ Input(q)' = Input(q) /\ ~Longer(q)
           \/ pc = "trim" /\ q = queue_cur /\ Input(q)' = in_buf
    BY <1>5 DEF Rates
  <2>2. /\ Len(queue') = Len(queue) /\ Same(queue'[q], r) /\ q \in 1 .. Len(queue)
        /\ \A k \in 1 .. Len(queue) : k /= q => Same(queue'[k], queue[k])
    BY <2>1, RescoredRows
  <2>3. ASSUME NEW k \in 1 .. Len(queue) PROVE Length[Input(k)'] = queue'[k].len
    <3>1. CASE k /= q
      BY <1>1, <2>1, <2>2, <3>1 DEF Same, Lengths
    <3>2. CASE k = q /\ Input(q)' = Input(q) /\ ~Longer(q)
      BY <1>1, <2>1, <2>2, <3>2 DEF Same, Lengths
    <3>3. CASE k = q /\ pc = "trim" /\ q = queue_cur /\ Input(q)' = in_buf
      <4>1. Length[in_buf] = queue[q].len
        BY <2>1, <3>3 DEF Lengths
      <4>2. queue'[q].len = queue[q].len
        BY <2>1, <2>2 DEF Same
      <4>3. QED BY <3>3, <4>1, <4>2
    <3>4. QED BY <2>1, <3>1, <3>2, <3>3
  <2>4. QED BY <1>3, <2>1, <2>2, <2>3
<1>6. ASSUME NEW q, NEW r, NEW cut, TrimsTo(q, r, cut) PROVE Lengths'
  <2>1. /\ pc = "trim" /\ pc' = "trim" /\ q = queue_cur /\ queue_cur' = q
        /\ q \in 1 .. Len(queue) /\ Puts(q, r) /\ in_buf' = cut /\ needs_write'
        /\ r.len = Length[cut] /\ ~stop_soon
        /\ \A k \in 1 .. Len(queue) : Input(k)' = Input(k)
    BY <1>6 DEF TrimsTo
  <2>2. ASSUME NEW k \in 1 .. Len(queue), ~Longer(k)'
        PROVE  Length[Input(k)'] = queue'[k].len
    <3>1. k /= q /\ ~Longer(k)
      BY <2>1, <2>2 DEF Longer
    <3>2. queue'[k] = queue[k] /\ Input(k)' = Input(k)
      BY <2>1, <3>1 DEF Puts
    <3>3. Length[Input(k)] = queue[k].len
      BY <1>1, <2>1, <3>1 DEF Lengths
    <3>4. QED BY <3>2, <3>3
  <2>3. queue'[q] = r /\ Len(queue') = Len(queue)
    BY <2>1 DEF Puts
  <2>4. QED BY <1>3, <2>1, <2>2, <2>3
<1>7. ASSUME NEW n, NEW input, NEW trace, NEW r, Adds(n, input, trace, r) PROVE Lengths'
  <2>1. /\ n = Len(queue) /\ n \in Nat /\ Len(queue') = n + 1 /\ queue'[n + 1] = r
        /\ \A k \in 1 .. n : Rests(k)
        /\ Input(n + 1)' = input /\ r.len = Length[input]
        /\ pc /= "trim" /\ pc' /= "trim" /\ ~stop_soon
    BY <1>7 DEF Adds
  <2>2. ASSUME NEW k \in 1 .. n PROVE Length[Input(k)'] = queue'[k].len
    <3>1. ~Longer(k)
      BY <2>1 DEF Longer
    <3>2. Length[Input(k)] = queue[k].len
      BY <1>1, <2>1, <3>1 DEF Lengths
    <3>3. Rests(k)
      BY <2>1
    <3>4. QED BY <3>2, <3>3 DEF Rests
  <2>3. ASSUME NEW k \in 1 .. n + 1 PROVE Length[Input(k)'] = queue'[k].len
    <3>1. CASE k \in 1 .. n
      BY <2>2, <3>1
    <3>2. CASE k = n + 1
      BY <2>1, <3>2
    <3>3. QED BY <2>1, <3>1, <3>2, UpTo
  <2>4. QED BY <1>3, <2>1, <2>3
<1>8. QED BY <1>4, <1>5, <1>6, <1>7, DataSteps

LEMMA TracesStep ==
    ASSUME QueueAssumption, Types, Control, Progress, Traces,
           Types', Control', Progress', [Next]_vars
    PROVE  Traces'
<1>1. DOMAIN queue = 1 .. Len(queue) /\ Len(queue) \in Nat
  BY EntryTypes
<1>2. DOMAIN queue' = 1 .. Len(queue') /\ Len(queue') \in Nat
  BY QueueNext
<1>3. target' = target /\ (Stable' <=> Stable)
  BY TargetStep
<1> SUFFICES ASSUME Stable PROVE Traces'
  BY <1>3 DEF Traces
<1>4. ASSUME \A k \in 1 .. Len(queue') : queue'[k].exec_cksum /= NoTrace =>
                 target[Input(k)'] = {queue'[k].exec_cksum},
             pc' = "trim" => target[in_buf'] = {queue'[queue_cur'].exec_cksum},
             CalGoesOn \/ cal'.cycle = 0
      PROVE  Traces'
  <2>1. ASSUME cal'.caller /= "none", cal'.cycle > 0
        PROVE  target[cal'.input] = {cal'.last}
    <3>1. CASE cal'.last \in target[cal'.input]
      <4>1. cal'.input \in Inputs
        BY <2>1 DEF Control
      <4>2. QED BY <3>1, <4>1, OneTrace
    <3>2. CASE /\ cal.caller /= "none" /\ cal.cycle > 0
               /\ cal'.last = cal.last /\ cal'.input = cal.input
      BY <3>2 DEF Traces
    <3>3. CASE cal'.cycle = 0
      BY <2>1, <3>3
    <3>4. QED BY <1>4, <2>1, <3>1, <3>2, <3>3 DEF CalGoesOn
  <2>2. QED BY <1>2, <1>3, <1>4, <2>1 DEF Traces, NoTrace, Bytes
<1>5. ASSUME NEW k \in 1 .. Len(queue), Rests(k), queue'[k].exec_cksum /= NoTrace
      PROVE  target[Input(k)'] = {queue'[k].exec_cksum}
  <2>1. CASE queue'[k].exec_cksum = queue[k].exec_cksum
    <3>1. target[Input(k)] = {queue[k].exec_cksum}
      BY <1>1, <1>5, <2>1 DEF Traces
    <3>2. QED BY <1>5, <2>1, <3>1 DEF Rests
  <2>2. CASE queue'[k].exec_cksum \in target[Input(k)]
    <3>1. target[Input(k)] = {queue'[k].exec_cksum}
      BY <1>1, <2>2, InputTypes, OneTrace
    <3>2. QED BY <1>5, <3>1 DEF Rests
  <2>3. QED BY <1>5, <2>1, <2>2 DEF Rests
<1>6. CASE Steady
  <2>1. /\ Len(queue') = Len(queue) /\ \A k \in 1 .. Len(queue) : Rests(k)
        /\ TrimGoesOn /\ CalGoesOn
    BY <1>6 DEF Steady
  <2>2. \A k \in 1 .. Len(queue) : queue'[k].exec_cksum /= NoTrace =>
            target[Input(k)'] = {queue'[k].exec_cksum}
    BY <1>5, <2>1
  <2>3. ASSUME pc' = "trim" PROVE target[in_buf'] = {queue'[queue_cur'].exec_cksum}
    <3>1. CASE UNCHANGED <<pc, in_buf, queue_cur, needs_write>>
      <4>1. target[in_buf] = {queue[queue_cur].exec_cksum} /\ queue_cur \in 1 .. Len(queue)
        BY <2>3, <3>1, CurrentEntry DEF Traces
      <4>2. queue[queue_cur].exec_us /= 0
        BY <2>3, <3>1 DEF Progress, CalProgress
      <4>3. Rests(queue_cur)
        BY <2>1, <4>1
      <4>4. queue'[queue_cur].exec_cksum = queue[queue_cur].exec_cksum
        BY <4>2, <4>3 DEF Rests
      <4>5. QED BY <3>1, <4>1, <4>4
    <3>2. CASE ~needs_write'
      <4>1. PICK k \in 1 .. Len(queue') : k = queue_cur' /\ Input(k)' = in_buf'
        BY <2>3, <3>2, TrimInput
      <4>2. queue'[queue_cur'].exec_cksum /= NoTrace
        BY <2>3 DEF Progress, CalProgress, NoTrace, Bytes
      <4>3. QED BY <2>1, <2>2, <4>1, <4>2
    <3>3. QED BY <2>1, <2>3, <3>1, <3>2 DEF TrimGoesOn
  <2>4. QED BY <1>4, <2>1, <2>2, <2>3
<1>7. ASSUME NEW q, NEW r, NEW e, NEW trace, NEW wins, Rates(q, r, e, trace, wins)
      PROVE  Traces'
  <2>1. /\ Rescored(q, r, e, trace, wins) /\ r.exec_cksum = queue[q].exec_cksum
        /\ pc' /= "trim" /\ CalGoesOn
        /\ \A k \in 1 .. Len(queue) : k /= q => Input(k)' = Input(k)
        /\ \/ Input(q)' = Input(q)
           \/ pc = "trim" /\ q = queue_cur /\ Input(q)' = in_buf
    BY <1>7 DEF Rates
  <2>2. /\ Len(queue') = Len(queue) /\ Same(queue'[q], r) /\ q \in 1 .. Len(queue)
        /\ \A k \in 1 .. Len(queue) : k /= q => Same(queue'[k], queue[k])
    BY <2>1, RescoredRows
  <2>3. ASSUME NEW k \in 1 .. Len(queue), queue'[k].exec_cksum /= NoTrace
        PROVE  target[Input(k)'] = {queue'[k].exec_cksum}
    <3>1. queue'[k].exec_cksum = queue[k].exec_cksum
      BY <2>1, <2>2 DEF Same
    <3>2. target[Input(k)] = {queue[k].exec_cksum}
      BY <1>1, <2>3, <3>1 DEF Traces
    <3>3. CASE Input(k)' = Input(k)
      BY <3>1, <3>2, <3>3
    <3>4. CASE k = q /\ pc = "trim" /\ q = queue_cur /\ Input(q)' = in_buf
      <4>1. target[in_buf] = {queue[q].exec_cksum}
        BY <3>4 DEF Traces
      <4>2. QED BY <3>1, <3>4, <4>1
    <3>5. QED BY <2>1, <3>3, <3>4
  <2>4. QED BY <1>4, <2>1, <2>2, <2>3
<1>8. ASSUME NEW q, NEW r, NEW cut, TrimsTo(q, r, cut) PROVE Traces'
  <2>1. /\ pc = "trim" /\ queue_cur' = q /\ cut \in Inputs
        /\ q \in 1 .. Len(queue) /\ Puts(q, r) /\ in_buf' = cut
        /\ r.exec_cksum = queue[q].exec_cksum /\ queue[q].exec_cksum \in target[cut]
        /\ CalGoesOn /\ \A k \in 1 .. Len(queue) : Input(k)' = Input(k)
    BY <1>8 DEF TrimsTo
  <2>2. ASSUME NEW k \in 1 .. Len(queue), queue'[k].exec_cksum /= NoTrace
        PROVE  target[Input(k)'] = {queue'[k].exec_cksum}
    <3>1. queue'[k].exec_cksum = queue[k].exec_cksum
      BY <2>1 DEF Puts
    <3>2. QED BY <1>1, <2>1, <2>2, <3>1 DEF Traces
  <2>3. queue'[q].exec_cksum = queue[q].exec_cksum /\ Len(queue') = Len(queue)
    BY <2>1 DEF Puts
  <2>4. target[cut] = {queue[q].exec_cksum}
    BY <2>1, OneTrace
  <2>5. QED BY <1>4, <2>1, <2>2, <2>3, <2>4
<1>9. ASSUME NEW n, NEW input, NEW trace, NEW r, Adds(n, input, trace, r) PROVE Traces'
  <2>1. /\ n = Len(queue) /\ n \in Nat /\ Len(queue') = n + 1 /\ queue'[n + 1] = r
        /\ \A k \in 1 .. n : Rests(k)
        /\ Input(n + 1)' = input /\ r.exec_cksum = trace /\ input \in Inputs
        /\ trace \in target[input] /\ pc' /= "trim" /\ cal'.cycle = 0
    BY <1>9 DEF Adds
  <2>2. target[input] = {trace}
    BY <2>1, OneTrace
  <2>3. ASSUME NEW k \in 1 .. n + 1, queue'[k].exec_cksum /= NoTrace
        PROVE  target[Input(k)'] = {queue'[k].exec_cksum}
    <3>1. CASE k \in 1 .. n
      BY <1>5, <2>1, <2>3, <3>1
    <3>2. CASE k = n + 1
      BY <2>1, <2>2, <3>2
    <3>3. QED BY <2>1, <3>1, <3>2, UpTo
  <2>4. QED BY <1>4, <2>1, <2>3
<1>10. QED BY <1>6, <1>7, <1>8, <1>9, DataSteps

\* A shorter input is not rated lower.
LEMMA Products ==
    ASSUME NEW a \in Nat, NEW b \in Nat, NEW c \in Nat, b <= c PROVE a * b <= a * c
<1>1. PICK d \in Nat : d = c - b
  OBVIOUS
<1>2. c = b + d
  BY <1>1
<1>3. a * c = a * b + a * d
  BY <1>2
<1>4. a * d \in Nat /\ a * b \in Nat
  OBVIOUS
<1>5. QED BY <1>3, <1>4

LEMMA FieldTypes ==
    ASSUME NEW r \in Fields PROVE r.exec_us \in Speeds \cup {0} /\ r.len \in Nat
  BY DEF Fields

LEMMA FactorTypes ==
    ASSUME QueueAssumption, NEW r \in Fields
    PROVE  r.exec_us \in Nat /\ r.len \in Nat /\ fav_factor(r) \in Nat
<1>1. Speeds \cup {0} \subseteq Nat
  BY DEF QueueAssumption
<1>2. r.exec_us \in Nat /\ r.len \in Nat
  BY <1>1, FieldTypes, Zenon
<1>3. PICK a \in Nat, b \in Nat : a = r.exec_us /\ b = r.len
  BY <1>2
<1>4. a * b \in Nat
  OBVIOUS
<1>5. QED BY <1>2, <1>3, <1>4 DEF fav_factor

\* Among the entries f, t is rated for byte b at least as well as entry k.
Beats(f, t, k) == t /= 0 /\ fav_factor(f[t]) <= fav_factor(f[k])

\* The winners are the best of all entries that hit a byte.
LEMMA RescoredBeats ==
    ASSUME QueueAssumption, Types, Types', NEW q, NEW r, NEW e, NEW trace, NEW wins,
           Rescored(q, r, e, trace, wins), r.exec_cksum = trace, NEW k \in 1 .. Len(queue),
           NEW b \in Bytes, b \in Hit(queue'[k].exec_cksum),
           k /= q => Beats(queue, top_rated[b], k),
           top_rated[b] /= 0 => fav_factor(e[top_rated[b]]) = fav_factor(queue[top_rated[b]])
    PROVE  Beats(queue', top_rated'[b], k)
<1>1. /\ e \in Seq(Fields) /\ Len(e) = Len(queue) /\ e[q] = r /\ q \in 1 .. Len(queue)
      /\ \A n \in 1 .. Len(queue) : n /= q => e[n] = queue[n]
      /\ wins = Wins(e, top_rated, q, trace)
      /\ top_rated'[b] = IF b \in wins THEN q ELSE top_rated[b]
  BY DEF Rescored
<1>2. /\ Len(queue') = Len(queue) /\ Len(queue) \in Nat
      /\ \A n \in 1 .. Len(queue) : fav_factor(queue'[n]) = fav_factor(e[n])
  <2>1. \A n \in 1 .. Len(queue) : Same(queue'[n], e[n])
    BY <1>1 DEF Rescored, ScoreFacts
  <2>2. QED BY <2>1, RescoredRows, EntryTypes DEF Same, fav_factor
<1>3. \A n \in 1 .. Len(queue) : fav_factor(e[n]) \in Nat
  <2>1. \A n \in 1 .. Len(queue) : e[n] \in Fields
    BY <1>1
  <2>2. QED BY <2>1, FactorTypes
<1>4. top_rated[b] \in 0 .. Len(queue)
  BY DEF Types
<1>5. PICK t \in 0 .. Len(queue) : t = top_rated[b]
  BY <1>4
<1>6. k = q => b \in Hit(trace)
  BY RescoredRows, SMTT(30) DEF Same
<1>7. b \in wins <=> b \in Hit(trace) /\ (t = 0 \/ fav_factor(e[q]) <= fav_factor(e[t]))
  BY <1>1, <1>5 DEF Wins
<1>8. k /= q => t /= 0 /\ fav_factor(e[t]) <= fav_factor(e[k])
  BY <1>1, <1>5 DEF Beats
<1>9. CASE b \in wins
  <2>1. fav_factor(e[q]) <= fav_factor(e[k])
    <3>1. CASE k = q
      BY <1>1, <1>3, <3>1, SMTT(30)
    <3>2. CASE k /= q
      <4>1. t \in 1 .. Len(queue) /\ fav_factor(e[t]) <= fav_factor(e[k])
            /\ fav_factor(e[q]) <= fav_factor(e[t])
        BY <1>2, <1>7, <1>8, <1>9, <3>2
      <4>2. PICK x \in Nat, y \in Nat, z \in Nat :
                x = fav_factor(e[q]) /\ y = fav_factor(e[t]) /\ z = fav_factor(e[k])
        BY <1>1, <1>3, <4>1
      <4>3. QED BY <4>1, <4>2
    <3>3. QED BY <3>1, <3>2
  <2>2. top_rated'[b] = q /\ q /= 0
    BY <1>1, <1>9
  <2>3. QED BY <1>1, <1>2, <2>1, <2>2 DEF Beats
<1>10. CASE b \notin wins
  <2>1. top_rated'[b] = t
    BY <1>1, <1>5, <1>10
  <2>2. t /= 0 /\ fav_factor(e[t]) <= fav_factor(e[k])
    <3>1. CASE k = q
      <4>1. t \in 1 .. Len(queue) /\ ~(fav_factor(e[q]) <= fav_factor(e[t]))
        BY <1>2, <1>6, <1>7, <1>10, <3>1
      <4>2. PICK x \in Nat, y \in Nat : x = fav_factor(e[q]) /\ y = fav_factor(e[t])
        BY <1>1, <1>3, <4>1
      <4>3. y <= x
        BY <4>1, <4>2
      <4>4. QED BY <3>1, <4>1, <4>2, <4>3
    <3>2. CASE k /= q
      BY <1>8, <3>2
    <3>3. QED BY <3>1, <3>2
  <2>3. t \in 1 .. Len(queue)
    BY <1>2, <2>2
  <2>4. QED BY <1>2, <2>1, <2>2, <2>3 DEF Beats
<1>11. QED BY <1>9, <1>10

LEMMA RatedStep ==
    ASSUME QueueAssumption, Types, Control, Progress, Traces, Lengths, Rated,
           Types', Control', [Next]_vars
    PROVE  Rated'
<1>1. DOMAIN queue = 1 .. Len(queue) /\ Len(queue) \in Nat
  BY EntryTypes
<1>2. DOMAIN queue' = 1 .. Len(queue') /\ Len(queue') \in Nat
  BY QueueNext
<1> SUFFICES ASSUME Stable, ~stop_soon' PROVE Rated'
  <2>1. Stable' <=> Stable
    BY TargetStep
  <2>2. QED BY <2>1 DEF Rated
<1>3. ASSUME \A k \in 1 .. Len(queue') :
                 queue'[k].exec_us /= 0 /\ ~Longer(k)' =>
                     \A b \in Bytes : b \in Hit(queue'[k].exec_cksum) =>
                         Beats(queue', top_rated'[b], k)
      PROVE  Rated'
  BY <1>2, <1>3 DEF Rated, Beats, Hit, Bytes, fav_factor
<1>4. ASSUME ~stop_soon, NEW k \in 1 .. Len(queue), queue[k].exec_us /= 0, ~Longer(k),
             NEW b \in Bytes, b \in Hit(queue[k].exec_cksum)
      PROVE  Beats(queue, top_rated[b], k)
  BY <1>1, <1>4 DEF Rated, Beats
<1>5. \A b \in Bytes : top_rated[b] \in 0 .. Len(queue)
  BY DEF Types
<1>6. ASSUME NEW k \in 1 .. Len(queue), Rests(k)
      PROVE  fav_factor(queue'[k]) = fav_factor(queue[k])
  BY <1>6 DEF Rests, fav_factor
<1>7. ASSUME \A k \in 1 .. Len(queue) : Rests(k), ~stop_soon, UNCHANGED top_rated,
             NEW k \in 1 .. Len(queue), queue'[k].exec_us /= 0, ~Longer(k),
             NEW b \in Bytes, b \in Hit(queue'[k].exec_cksum)
      PROVE  Beats(queue', top_rated'[b], k)
  <2>1. queue[k].exec_us /= 0 /\ queue'[k].exec_cksum = queue[k].exec_cksum
    BY <1>7 DEF Rests
  <2>2. PICK t : t = top_rated[b]
    OBVIOUS
  <2>3. Beats(queue, t, k)
    BY <1>4, <1>7, <2>1, <2>2
  <2>4. t \in 1 .. Len(queue) /\ top_rated'[b] = t
    BY <1>1, <1>5, <1>7, <2>2, <2>3, SMTT(30) DEF Beats
  <2>5. /\ fav_factor(queue'[k]) = fav_factor(queue[k])
        /\ fav_factor(queue'[t]) = fav_factor(queue[t])
    BY <1>6, <1>7, <2>4
  <2>6. QED BY <2>3, <2>4, <2>5 DEF Beats
<1>8. CASE Steady
  <2>1. /\ Len(queue') = Len(queue) /\ \A k \in 1 .. Len(queue) : Rests(k)
        /\ TrimGoesOn /\ ~stop_soon /\ UNCHANGED top_rated
    BY <1>8 DEF Steady, TrimGoesOn
  <2>2. \A k \in 1 .. Len(queue) : ~Longer(k)' => ~Longer(k)
    BY <2>1 DEF TrimGoesOn, Longer
  <2>3. QED BY <1>3, <1>7, <2>1, <2>2
<1>9. ASSUME NEW q, NEW r, NEW e, NEW trace, NEW wins, Rates(q, r, e, trace, wins)
      PROVE  Rated'
  <2>1. /\ Rescored(q, r, e, trace, wins) /\ r.len = queue[q].len
        /\ r.exec_cksum = queue[q].exec_cksum /\ trace = queue[q].exec_cksum
        /\ ~stop_soon
        /\ \A k \in 1 .. Len(queue) : k /= q => ~Longer(k)
        /\ queue[q].exec_us = 0 \/ r.exec_us = queue[q].exec_us
    BY <1>9 DEF Rates
  <2>2. /\ Len(queue') = Len(queue) /\ q \in 1 .. Len(queue)
        /\ \A k \in 1 .. Len(queue) : k /= q => Same(queue'[k], queue[k])
    BY <2>1, RescoredRows
  <2>e. e[q] = r /\ \A k \in 1 .. Len(queue) : k /= q => e[k] = queue[k]
    BY <2>1 DEF Rescored
  <2>3. ASSUME NEW b \in Bytes, top_rated[b] /= 0
        PROVE  fav_factor(e[top_rated[b]]) = fav_factor(queue[top_rated[b]])
    <3>1. PICK t \in 1 .. Len(queue) : t = top_rated[b]
      BY <1>1, <1>5, <2>3
    <3>2. queue[t].exec_us /= 0
      BY <2>3, <3>1 DEF Progress, RatedProgress
    <3>3. CASE t = q
      BY <2>1, <2>e, <3>1, <3>2, <3>3 DEF fav_factor
    <3>4. CASE t /= q
      BY <2>e, <3>1, <3>4
    <3>5. QED BY <3>3, <3>4
  <2>4. ASSUME NEW k \in 1 .. Len(queue), queue'[k].exec_us /= 0, NEW b \in Bytes,
               b \in Hit(queue'[k].exec_cksum)
        PROVE  Beats(queue', top_rated'[b], k)
    <3>1. k /= q => Beats(queue, top_rated[b], k)
      BY <1>4, <2>1, <2>2, <2>4 DEF Same
    <3>2. r.exec_cksum = trace /\ Rescored(q, r, e, trace, wins)
      BY <2>1
    <3>3. top_rated[b] /= 0 =>
              fav_factor(e[top_rated[b]]) = fav_factor(queue[top_rated[b]])
      BY <2>3
    <3>4. QED BY <2>4, <3>1, <3>2, <3>3, RescoredBeats
  <2>5. QED BY <1>3, <2>2, <2>4
<1>10. ASSUME NEW q, NEW r, NEW cut, TrimsTo(q, r, cut) PROVE Rated'
  <2>1. /\ pc = "trim" /\ pc' = "trim" /\ q = queue_cur /\ queue_cur' = q
        /\ q \in 1 .. Len(queue) /\ cut \in Inputs /\ Puts(q, r) /\ needs_write'
        /\ r.len = Length[cut] /\ Length[cut] < Length[in_buf]
        /\ r.exec_us = queue[q].exec_us /\ ~stop_soon /\ UNCHANGED top_rated
    BY <1>10 DEF TrimsTo
  <2>2. fav_factor(r) <= fav_factor(queue[q])
    <3>1. /\ queue[q].exec_us \in Nat /\ queue[q].len \in Nat
          /\ Length[in_buf] = queue[q].len
      BY <1>1, <2>1, EntryTypes, FactorTypes DEF Lengths
    <3>2. r.len \in Nat
      BY <2>1 DEF QueueAssumption
    <3>3. PICK a \in Nat, b \in Nat, c \in Nat :
              a = r.exec_us /\ b = r.len /\ c = queue[q].len
      BY <2>1, <3>1, <3>2
    <3>4. b <= c
      BY <2>1, <3>1, <3>3, SMTT(30)
    <3>5. a * b <= a * c
      BY <3>4, Products
    <3>6. QED BY <2>1, <3>3, <3>5 DEF fav_factor
  <2>3. fav_factor(r) \in Nat /\ \A k \in 1 .. Len(queue) : fav_factor(queue[k]) \in Nat
    <3>1. queue'[q] = r /\ queue'[q] \in Fields
      <4>1. queue' \in Seq(Fields) /\ Len(queue') = Len(queue) /\ queue'[q] = r
        BY <2>1 DEF Types, Puts
      <4>2. QED BY <2>1, <4>1, SMTT(30)
    <3>2. QED BY <1>1, <3>1, EntryTypes, FactorTypes
  <2>4. ASSUME NEW k \in 1 .. Len(queue), queue'[k].exec_us /= 0, ~Longer(k)',
               NEW b \in Bytes, b \in Hit(queue'[k].exec_cksum)
        PROVE  Beats(queue', top_rated'[b], k)
    <3>1. k /= q /\ ~Longer(k)
      BY <2>1, <2>4 DEF Longer
    <3>2. queue'[k] = queue[k]
      BY <2>1, <3>1 DEF Puts
    <3>3. PICK t : t = top_rated[b]
      OBVIOUS
    <3>4. Beats(queue, t, k)
      BY <1>4, <2>1, <2>4, <3>1, <3>2, <3>3
    <3>5. t \in 1 .. Len(queue) /\ top_rated'[b] = t
      BY <1>1, <1>5, <2>1, <3>3, <3>4, SMTT(30) DEF Beats
    <3>6. CASE t = q
      <4>1. queue'[t] = r
        BY <2>1, <3>6 DEF Puts
      <4>2. PICK x \in Nat, y \in Nat, z \in Nat :
               /\ x = fav_factor(r) /\ y = fav_factor(queue[q]) /\ z = fav_factor(queue[k])
        BY <2>1, <2>3
      <4>3. x <= y /\ y <= z
        BY <2>2, <3>4, <3>6, <4>2 DEF Beats
      <4>4. x <= z
        BY <4>3
      <4>5. QED BY <3>2, <3>5, <4>1, <4>2, <4>4 DEF Beats
    <3>7. CASE t /= q
      <4>1. queue'[t] = queue[t]
        BY <2>1, <3>5, <3>7 DEF Puts
      <4>2. QED BY <3>2, <3>4, <3>5, <4>1 DEF Beats
    <3>8. QED BY <3>6, <3>7
  <2>5. Len(queue') = Len(queue)
    BY <2>1 DEF Puts
  <2>6. QED BY <1>3, <2>4, <2>5
<1>11. ASSUME NEW n, NEW input, NEW trace, NEW r, Adds(n, input, trace, r) PROVE Rated'
  <2>1. /\ n = Len(queue) /\ n \in Nat /\ Len(queue') = n + 1 /\ queue'[n + 1] = r
        /\ \A k \in 1 .. n : Rests(k)
        /\ r.exec_us = 0 /\ pc /= "trim" /\ ~stop_soon /\ UNCHANGED top_rated
    BY <1>11 DEF Adds
  <2>2. ASSUME NEW k \in 1 .. n + 1, queue'[k].exec_us /= 0, NEW b \in Bytes,
               b \in Hit(queue'[k].exec_cksum)
        PROVE  Beats(queue', top_rated'[b], k)
    <3>1. k \in 1 .. n
      BY <2>1, <2>2, UpTo
    <3>2. ~Longer(k)
      BY <2>1 DEF Longer
    <3>3. QED BY <1>7, <2>1, <2>2, <3>1, <3>2
  <2>3. QED BY <1>3, <2>1, <2>2
<1>12. QED BY <1>8, <1>9, <1>10, <1>11, DataSteps

\* Whatever a step makes known was hit by an entry, and no entry loses what it hits.
LEMMA NothingLostStep ==
    ASSUME QueueAssumption, Types, Control, Progress, Traces, Types', NothingLost,
           [Next]_vars
    PROVE  NothingLost'
<1>1. DOMAIN queue = 1 .. Len(queue) /\ Len(queue) \in Nat
  BY EntryTypes
<1>2. DOMAIN queue' = 1 .. Len(queue') /\ Len(queue') \in Nat
  BY QueueNext
<1>3. target' = target /\ (Stable' <=> Stable)
  BY TargetStep
<1> SUFFICES ASSUME Stable, NEW b \in Bytes, NEW n \in Buckets, n \notin virgin_bits'[b]
             PROVE  \E k \in 1 .. Len(queue') : \E trace \in target[Input(k)'] : trace[b] = n
  <2>1. ASSUME Stable' =>
                   \A b \in Bytes, n \in Buckets : n \notin virgin_bits'[b] =>
                       \E k \in DOMAIN queue' : \E trace \in target'[Input(k)'] : trace[b] = n
        PROVE  NothingLost'
    BY <2>1 DEF NothingLost, Bytes, Input
  <2>2. QED BY <1>2, <1>3, <2>1
<1>4. ASSUME n \notin virgin_bits[b]
      PROVE  \E k \in 1 .. Len(queue) : \E trace \in target[Input(k)] : trace[b] = n
  BY <1>1, <1>4 DEF NothingLost, Input
<1>5. ASSUME NEW trace, virgin_bits' = Cleared(virgin_bits, trace), n \in virgin_bits[b]
      PROVE  trace[b] = n
  BY <1>5 DEF Cleared
<1>6. CASE Steady
  <2>1. /\ Len(queue') = Len(queue) /\ \A k \in 1 .. Len(queue) : Rests(k)
        /\ BitsGoOn
    BY <1>6 DEF Steady
  <2>2. \A k \in 1 .. Len(queue) : Input(k)' = Input(k)
    BY <2>1 DEF Rests
  <2>3. \E k \in 1 .. Len(queue) : \E trace \in target[Input(k)] : trace[b] = n
    <3>1. CASE n \notin virgin_bits[b]
      BY <1>4, <3>1
    <3>2. CASE n \in virgin_bits[b]
      <4>1. PICK k \in 1 .. Len(queue) : \E trace \in target[Input(k)] :
                virgin_bits' = Cleared(virgin_bits, trace)
        BY <2>1, <3>2 DEF BitsGoOn
      <4>2. QED BY <1>5, <3>2, <4>1
    <3>3. QED BY <3>1, <3>2
  <2>4. QED BY <2>1, <2>2, <2>3
<1>7. ASSUME NEW q, NEW r, NEW e, NEW trace, NEW wins, Rates(q, r, e, trace, wins)
      PROVE  \E k \in 1 .. Len(queue') : \E t \in target[Input(k)'] : t[b] = n
  <2>1. /\ Rescored(q, r, e, trace, wins) /\ virgin_bits' = virgin_bits
        /\ \A k \in 1 .. Len(queue) : k /= q => Input(k)' = Input(k)
        /\ \/ Input(q)' = Input(q)
           \/ pc = "trim" /\ q = queue_cur /\ Input(q)' = in_buf
    BY <1>7 DEF Rates
  <2>2. Len(queue') = Len(queue) /\ q \in 1 .. Len(queue)
    BY <2>1, RescoredRows
  <2>3. PICK k \in 1 .. Len(queue) : \E t \in target[Input(k)] : t[b] = n
    BY <1>4, <2>1
  <2>4. target[Input(k)'] = target[Input(k)]
    <3>1. CASE Input(k)' = Input(k)
      BY <3>1
    <3>2. CASE k = q /\ pc = "trim" /\ q = queue_cur /\ Input(q)' = in_buf
      <4>1. target[in_buf] = {queue[q].exec_cksum}
        BY <3>2 DEF Traces
      <4>2. queue[q].exec_cksum /= NoTrace
        BY <3>2 DEF Progress, CalProgress
      <4>3. target[Input(q)] = {queue[q].exec_cksum}
        BY <1>1, <2>2, <4>2 DEF Traces
      <4>4. QED BY <3>2, <4>1, <4>3
    <3>3. QED BY <2>1, <3>1, <3>2
  <2>5. QED BY <2>2, <2>3, <2>4
<1>8. ASSUME NEW q, NEW r, NEW cut, TrimsTo(q, r, cut)
      PROVE  \E k \in 1 .. Len(queue') : \E t \in target[Input(k)'] : t[b] = n
  <2>1. /\ Puts(q, r) /\ virgin_bits' = virgin_bits
        /\ \A k \in 1 .. Len(queue) : Input(k)' = Input(k)
    BY <1>8 DEF TrimsTo
  <2>2. Len(queue') = Len(queue)
    BY <2>1 DEF Puts
  <2>3. QED BY <1>4, <2>1, <2>2
<1>9. ASSUME NEW m, NEW input, NEW trace, NEW r, Adds(m, input, trace, r)
      PROVE  \E k \in 1 .. Len(queue') : \E t \in target[Input(k)'] : t[b] = n
  <2>1. /\ m = Len(queue) /\ m \in Nat /\ Len(queue') = m + 1
        /\ \A k \in 1 .. m : Rests(k)
        /\ Input(m + 1)' = input /\ trace \in target[input]
        /\ virgin_bits' = Cleared(virgin_bits, trace)
    BY <1>9 DEF Adds
  <2>2. CASE n \in virgin_bits[b]
    <3>1. trace[b] = n
      BY <1>5, <2>1, <2>2
    <3>2. m + 1 \in 1 .. Len(queue')
      BY <2>1
    <3>3. QED BY <2>1, <3>1, <3>2
  <2>3. CASE n \notin virgin_bits[b]
    <3>1. PICK k \in 1 .. m : \E t \in target[Input(k)] : t[b] = n
      BY <1>4, <2>1, <2>3
    <3>2. Input(k)' = Input(k)
      BY <2>1 DEF Rests
    <3>3. k \in 1 .. Len(queue')
      BY <2>1
    <3>4. QED BY <3>1, <3>2, <3>3
  <2>4. QED BY <2>2, <2>3
<1>10. QED BY <1>6, <1>7, <1>8, <1>9, DataSteps

------------------------------------------------------------------------------
(* The theorems.                                                           *)

\* A seed before its dry run.
Seed(k) == [file |-> Seeds[k], len |-> Length[Seeds[k]], cal_failed |-> 0,
            trim_done |-> FALSE, was_fuzzed |-> FALSE, has_new_cov |-> FALSE,
            var_behavior |-> FALSE, favored |-> FALSE, fs_redundant |-> FALSE,
            exec_cksum |-> NoTrace, exec_us |-> 0, trace_mini |-> {}, tc_ref |-> 0,
            mutated |-> FALSE]

LEMMA SeedIs ==
    ASSUME NEW i, NEW l, l = Length[i], NEW s, s = [NewEntry(i) EXCEPT !.file = i]
    PROVE  s = [file |-> i, len |-> l, cal_failed |-> 0,
                trim_done |-> FALSE, was_fuzzed |-> FALSE, has_new_cov |-> FALSE,
                var_behavior |-> FALSE, favored |-> FALSE, fs_redundant |-> FALSE,
                exec_cksum |-> NoTrace, exec_us |-> 0, trace_mini |-> {}, tc_ref |-> 0,
                mutated |-> FALSE]
  BY DEF NewEntry

LEMMA InitRows ==
    ASSUME QueueAssumption, Init
    PROVE  /\ DOMAIN queue = 1 .. Len(queue) /\ Len(queue) \in Nat /\ Len(queue) > 0
           /\ Len(queue) = Len(Seeds) /\ queue \in Seq(Fields)
           /\ \A k \in 1 .. Len(queue) : queue[k] = Seed(k) /\ Seeds[k] \in Inputs
<1>1. /\ Seeds \in Seq(Inputs) /\ Seeds /= <<>> /\ Length \in [Inputs -> Nat \ {0}]
      /\ MapSize \in Nat
  BY DEF QueueAssumption
<1>2. queue = [k \in DOMAIN Seeds |-> [NewEntry(Seeds[k]) EXCEPT !.file = Seeds[k]]]
  BY DEF Init
<1>3. PICK n \in Nat : n = Len(Seeds)
  BY <1>1
<1>4. DOMAIN Seeds = 1 .. n /\ n > 0 /\ \A k \in 1 .. n : Seeds[k] \in Inputs
  BY <1>1, <1>3
<1>5. ASSUME NEW k \in 1 .. n
      PROVE  [NewEntry(Seeds[k]) EXCEPT !.file = Seeds[k]] = Seed(k)
  BY SeedIs DEF Seed
<1>6. queue = [k \in 1 .. n |-> Seed(k)]
  BY <1>2, <1>4, <1>5
<1>7. NoTrace \in Trace
  BY DEF NoTrace, Trace
<1>8. ASSUME NEW k \in 1 .. n PROVE Seed(k) \in Fields
  <2>1. Length[Seeds[k]] \in Nat /\ Seeds[k] \in Inputs
    BY <1>1, <1>4
  <2>2. QED BY <1>7, <2>1 DEF Seed, Fields
<1>9. queue \in Seq(Fields) /\ Len(queue) = n
  BY <1>6, <1>8
<1>10. QED BY <1>3, <1>4, <1>6, <1>9

LEMMA InitTypes == ASSUME QueueAssumption, Init PROVE Types /\ Control
<1>1. /\ DOMAIN queue = 1 .. Len(queue) /\ Len(queue) \in Nat /\ Len(queue) > 0
      /\ queue \in Seq(Fields)
      /\ \A k \in 1 .. Len(queue) : queue[k] = Seed(k) /\ Seeds[k] \in Inputs
  BY InitRows
<1>2. NoTrace \in Trace
  BY DEF NoTrace, Trace
<1>3. cal \in Calibration /\ cal.q = 0 /\ cal.caller = "none" /\ pc = "dry"
  BY <1>2 DEF Init, NoCal, Calibration
<1>4. /\ target \in Targets /\ virgin_bits \in [Bytes -> SUBSET Buckets]
      /\ virgin_tmout = {} /\ virgin_crash = {}
      /\ unique_hangs = 0 /\ unique_crashes = 0
      /\ top_rated \in [Bytes -> 0 .. Len(queue)]
      /\ score_changed = FALSE /\ use_splicing = FALSE /\ stop_soon = FALSE
      /\ needs_write = FALSE /\ queued_favored = 0 /\ pending_favored = 0
      /\ var_bytes = {} /\ queue_cur = 0 /\ prev_queued = 0
      /\ subseq_tmouts = 0 /\ left = 0 /\ splice_cycle = 0 /\ in_buf = NoInput
      /\ pending_not_fuzzed = Len(Seeds)
  BY <1>1 DEF Init
<1>5. KeepUnique \in Nat /\ SpliceCycles \in Nat
  BY DEF QueueAssumption
<1>6. queue /= <<>> /\ pending_not_fuzzed \in Int
  BY <1>1, <1>4, InitRows
<1>7. Types
  <2>1. /\ virgin_tmout \subseteq Bytes \X BOOLEAN /\ virgin_crash \subseteq Bytes \X BOOLEAN
        /\ var_bytes \subseteq Bytes
    BY <1>4
  <2>2. /\ unique_hangs \in 0 .. KeepUnique /\ unique_crashes \in 0 .. KeepUnique
        /\ splice_cycle \in 0 .. SpliceCycles
    BY <1>4, <1>5
  <2>3. /\ queued_favored \in Int /\ pending_favored \in Int
        /\ queue_cur \in 0 .. Len(queue) /\ prev_queued \in 0 .. Len(queue)
        /\ subseq_tmouts \in Nat /\ left \in Nat /\ cal.q <= Len(queue)
    BY <1>1, <1>3, <1>4
  <2>4. /\ score_changed \in BOOLEAN /\ use_splicing \in BOOLEAN
        /\ stop_soon \in BOOLEAN /\ needs_write \in BOOLEAN
        /\ in_buf \in Inputs \cup {NoInput} /\ pc \in Locations
    BY <1>3, <1>4 DEF Locations
  <2>5. QED BY <1>1, <1>3, <1>4, <1>6, <2>1, <2>2, <2>3, <2>4 DEF Types
<1>8. \A k \in DOMAIN queue : queue[k].file /= NoInput
  <2>1. NoInput \notin Inputs
    BY DEF QueueAssumption
  <2>2. ASSUME NEW k \in DOMAIN queue PROVE queue[k].file \in Inputs
    <3>1. queue[k] = Seed(k) /\ Seeds[k] \in Inputs
      BY <1>1, Zenon
    <3>2. Seed(k).file = Seeds[k]
      BY DEF Seed
    <3>3. QED BY <3>1, <3>2
  <2>3. QED BY <2>1, <2>2
<1>9. Control
  BY <1>3, <1>8 DEF Control
<1>10. QED BY <1>7, <1>9

LEMMA InitInvariant == ASSUME QueueAssumption, Init PROVE IInv
<1>q. /\ DOMAIN queue = 1 .. Len(queue) /\ Len(queue) \in Nat /\ Len(queue) = Len(Seeds)
      /\ \A k \in 1 .. Len(queue) : queue[k] = Seed(k) /\ Seeds[k] \in Inputs
  BY InitRows
<1>r. ASSUME NEW k
      PROVE  /\ Seed(k).file = Seeds[k] /\ Seed(k).len = Length[Seeds[k]]
             /\ Seed(k).cal_failed = 0 /\ Seed(k).exec_us = 0
             /\ Seed(k).exec_cksum = NoTrace /\ Seed(k).tc_ref = 0
             /\ Seed(k).trace_mini = {} /\ ~Seed(k).was_fuzzed /\ ~Seed(k).favored
  BY DEF Seed
<1>1. /\ DOMAIN queue = 1 .. Len(queue) /\ Len(queue) \in Nat
      /\ \A k \in 1 .. Len(queue) :
            /\ queue[k].file = Seeds[k] /\ queue[k].len = Length[Seeds[k]]
            /\ queue[k].cal_failed = 0 /\ queue[k].exec_us = 0
            /\ queue[k].exec_cksum = NoTrace /\ queue[k].tc_ref = 0
            /\ queue[k].trace_mini = {} /\ ~queue[k].was_fuzzed /\ ~queue[k].favored
            /\ Seeds[k] \in Inputs
  BY <1>q, <1>r
<1>2. /\ cal.q = 0 /\ cal.caller = "none" /\ pc = "dry"
      /\ virgin_bits = [b \in Bytes |-> Buckets] /\ top_rated = [b \in Bytes |-> 0]
      /\ queued_favored = 0 /\ pending_favored = 0 /\ pending_not_fuzzed = Len(Seeds)
  BY DEF Init, NoCal
<1>3. Types /\ Control
  BY InitTypes
<1>4. Lengths
  <2>1. NoInput \notin Inputs
    BY DEF QueueAssumption
  <2>2. \A k \in DOMAIN queue : Input(k) = Seeds[k]
    BY <1>1, <2>1, SMTT(30) DEF Input
  <2>3. QED BY <1>1, <1>2, <2>2, SMTT(30) DEF Lengths
<1>5. Progress
  <2>1. \A k \in DOMAIN queue : Dry(k)
    BY <1>1, <1>2 DEF Dry
  <2>2. \A k \in DOMAIN queue : RowProgress(k)
    BY <1>1, <2>1 DEF RowProgress
  <2>3. CalProgress /\ RatedProgress
    BY <1>2 DEF CalProgress, RatedProgress
  <2>4. QED BY <2>2, <2>3 DEF Progress
<1>6. Traces /\ Rated
  BY <1>1, <1>2 DEF Traces, Rated
<1>7. References
  <2>1. ASSUME NEW k \in DOMAIN queue
        PROVE  Cardinality({b \in Bytes : top_rated[b] = k}) = 0
    <3>1. {b \in Bytes : top_rated[b] = k} = {}
      BY <1>1, <1>2, <2>1
    <3>2. QED BY <3>1, FS_EmptySet
  <2>2. QED BY <1>1, <2>1 DEF References
<1>8. Pending
  <2>1. {k \in DOMAIN queue : ~queue[k].was_fuzzed} = 1 .. Len(queue)
    BY <1>1
  <2>2. PICK n \in Nat : n = Len(queue)
    BY <1>q, Zenon
  <2>3. Cardinality(1 .. n) = n
    BY IntervalSize
  <2>4. QED BY <1>q, <1>2, <2>1, <2>2, <2>3 DEF Pending
<1>9. Minis /\ Owners /\ FavoredCover
  BY <1>1, <1>2 DEF Minis, Owners, FavoredCover
<1>10. Favored
  <2>1. PICK favored : favored = {k \in DOMAIN queue : queue[k].favored}
    OBVIOUS
  <2>2. favored = {} /\ {k \in favored : ~queue[k].was_fuzzed} = {}
    BY <1>1, <2>1
  <2>3. Cardinality({}) = 0
    BY FS_EmptySet
  <2>4. PICK n \in Nat : n = 0
    OBVIOUS
  <2>5. n >= n
    OBVIOUS
  <2>6. /\ queued_favored = n /\ pending_favored = n /\ Cardinality(favored) = n
        /\ Cardinality({k \in favored : ~queue[k].was_fuzzed}) = n
    BY <1>2, <2>2, <2>3, <2>4
  <2>7. FavoredExact
    BY <2>1, <2>5, <2>6, Zenon DEF FavoredExact
  <2>8. QED BY <1>2, <2>7 DEF Favored, QueueAssumption
<1>11. NothingLost
  BY <1>2 DEF NothingLost
<1>12. QED
  BY <1>3, <1>4, <1>5, <1>6, <1>7, <1>8, <1>9, <1>10, <1>11 DEF IInv

LEMMA InvariantStep == ASSUME QueueAssumption, IInv, [Next]_vars PROVE IInv'
<1>1. /\ Types /\ Control /\ Lengths /\ Progress /\ Traces /\ Rated
      /\ References /\ Pending /\ Minis /\ Owners /\ Favored /\ NothingLost /\ FavoredCover
  BY DEF IInv
<1>2. Types'
  BY <1>1, TypesStep
<1>3. Control'
  BY <1>1, <1>2, ControlStep
<1>4. Progress'
  BY <1>1, <1>2, <1>3, ProgressStep
<1>5. References' /\ Pending'
  BY <1>1, <1>2, ReferencesStep, PendingStep
<1>6. Traces' /\ Lengths' /\ Rated'
  BY <1>1, <1>2, <1>3, <1>4, TracesStep, LengthsStep, RatedStep
<1>7. Minis'
  BY <1>1, <1>2, MinisStep
<1>8. Owners'
  BY <1>1, <1>2, <1>5, <1>7, OwnersStep
<1>9. Favored' /\ NothingLost' /\ FavoredCover'
  BY <1>1, <1>2, FavoredStep, NothingLostStep, FavoredCoverStep
<1>10. QED BY <1>2, <1>3, <1>4, <1>5, <1>6, <1>7, <1>8, <1>9 DEF IInv

LEMMA ItemsIn ==
    ASSUME NEW S, NEW T, NEW s \in Seq(S), \A k \in 1 .. Len(s) : s[k] \in T
    PROVE  s \in Seq(T)
<1>1. PICK n \in Nat : n = Len(s)
  OBVIOUS
<1>2. s \in [1 .. n -> T]
  BY <1>1
<1>3. QED BY <1>2

\* The bounds of the counters follow from what they count.
LEMMA CountersHold == ASSUME QueueAssumption, IInv PROVE CountersExact
<1>1. Types /\ References /\ Pending /\ Favored
  BY DEF IInv
<1>2. PICK n \in Nat : n = Len(queue) /\ DOMAIN queue = 1 .. n
  BY <1>1, EntryTypes
<1>3. queue \in Seq(Entry)
  <2>1. ASSUME NEW r \in Fields, r.tc_ref \in 0 .. MapSize PROVE r \in Entry
    BY <2>1 DEF Fields, Entry
  <2>2. ASSUME NEW k \in 1 .. n PROVE queue[k] \in Entry
    <3>1. PICK c : c = Cardinality({b \in Bytes : top_rated[b] = k})
      OBVIOUS
    <3>2. c \in Nat /\ c <= MapSize
      <4>1. {b \in Bytes : top_rated[b] = k} \in SUBSET Bytes
        OBVIOUS
      <4>2. QED BY <3>1, <4>1, BytesFinite
    <3>3. queue[k].tc_ref = c
      BY <1>1, <1>2, <3>1 DEF References
    <3>4. c \in 0 .. MapSize
      <4>1. MapSize \in Nat
        BY DEF QueueAssumption
      <4>2. QED BY <3>2, <4>1
    <3>5. queue[k] \in Fields
      BY <1>1, <1>2, EntryTypes
    <3>6. QED BY <2>1, <3>3, <3>4, <3>5
  <2>3. queue \in Seq(Fields)
    BY <1>1, EntryTypes
  <2>4. QED BY <1>2, <2>2, <2>3, ItemsIn
<1>4. queued_favored \in 0 .. MapSize /\ pending_favored \in 0 .. MapSize
  <2>1. FavoredBounds(queue, queued_favored, pending_favored)
    BY <1>1, FavoredIs
  <2>2. PICK favored : favored = {k \in 1 .. Len(queue) : queue[k].favored}
    OBVIOUS
  <2>3. PICK pending : pending = {k \in favored : ~queue[k].was_fuzzed}
    OBVIOUS
  <2>4. Cardinality(favored) \in Nat /\ Cardinality(pending) \in Nat
    <3>1. favored \in SUBSET (1 .. n) /\ pending \in SUBSET (1 .. n)
      BY <1>2, <2>2, <2>3
    <3>2. IsFiniteSet(favored) /\ IsFiniteSet(pending)
      BY <3>1, IntervalSize, FS_Subset
    <3>3. QED BY <3>2, FS_CardinalityType
  <2>5. PICK f \in Nat, p \in Nat : f = Cardinality(favored) /\ p = Cardinality(pending)
    BY <2>4
  <2>6. /\ queued_favored >= f /\ queued_favored <= MapSize
        /\ pending_favored >= p /\ pending_favored <= MapSize
    BY <2>1, <2>2, <2>3, <2>5 DEF FavoredBounds
  <2>7. queued_favored \in Int /\ pending_favored \in Int /\ MapSize \in Nat
    BY <1>1 DEF Types, QueueAssumption
  <2>8. QED BY <2>5, <2>6, <2>7, SMTT(30)
<1>5. pending_not_fuzzed \in 0 .. Len(queue)
  <2>1. PICK waiting \in SUBSET (1 .. n) : waiting = {k \in DOMAIN queue : ~queue[k].was_fuzzed}
    BY <1>2
  <2>2. IsFiniteSet(1 .. n) /\ Cardinality(1 .. n) = n
    BY IntervalSize
  <2>3. IsFiniteSet(waiting) /\ Cardinality(waiting) <= Cardinality(1 .. n)
    BY <2>2, FS_Subset
  <2>4. Cardinality(waiting) \in Nat
    BY <2>3, FS_CardinalityType
  <2>5. pending_not_fuzzed = Cardinality(waiting)
    BY <1>1, <2>1 DEF Pending
  <2>6. QED BY <1>2, <2>2, <2>3, <2>4, <2>5
<1>6. cal.q \in 0 .. Len(queue) /\ cal.caller \in {"none", "dry", "retry", "save"}
  <2>1. cal \in Calibration /\ cal.q <= Len(queue)
    BY <1>1 DEF Types
  <2>2. cal.q \in Nat /\ cal.caller \in {"none", "dry", "retry", "save"}
    BY <2>1 DEF Calibration
  <2>3. QED BY <1>2, <2>1, <2>2
<1>7. TypeOK
  BY <1>1, <1>3, <1>4, <1>5, <1>6 DEF TypeOK, Types
<1>8. QED BY <1>1, <1>7 DEF CountersExact, References, Pending

\* Outside of trimming every entry is rated by what its file says.
LEMMA RatedIsBest == ASSUME IInv PROVE BestRated
<1>1. ASSUME pc /= "trim", NEW k PROVE ~Longer(k)
  BY <1>1 DEF Longer
<1>2. QED BY <1>1 DEF IInv, Rated, BestRated

LEMMA LengthsAreThose == ASSUME QueueAssumption, IInv PROVE FilesComplete
<1>1. Types /\ Control /\ Lengths
  BY DEF IInv
<1>2. SUFFICES ASSUME pc /= "trim", ~stop_soon, NEW k \in DOMAIN queue
               PROVE  IF queue[k].file = NoInput THEN k = cal.q /\ cal.caller = "save"
                      ELSE Length[queue[k].file] = queue[k].len
  BY DEF FilesComplete
<1>3. CASE queue[k].file = NoInput
  BY <1>1, <1>3 DEF Control
<1>4. CASE queue[k].file /= NoInput
  <2>1. Input(k) = queue[k].file /\ ~Longer(k)
    BY <1>2, <1>4 DEF Input, Longer
  <2>2. QED BY <1>1, <1>2, <1>4, <2>1 DEF Lengths
<1>5. QED BY <1>3, <1>4

\* The inductive invariant holds in every reachable state.
THEOREM IInvHolds == Spec => []IInv
<1>1. Init => IInv
  BY QueueAssumption, InitInvariant
<1>2. IInv /\ [Next]_vars => IInv'
  BY QueueAssumption, InvariantStep
<1>3. QED BY <1>1, <1>2, PTL DEF Spec

\* The reference counts, the traces that are kept and pending_not_fuzzed are exact:
\* update_bitmap_score never frees a trace that cull_queue still follows.
THEOREM CountersStayExact == Spec => []CountersExact
<1>1. IInv => CountersExact
  BY QueueAssumption, CountersHold
<1>2. QED BY <1>1, IInvHolds, PTL

\* queued_favored and pending_favored count the favored entries; with a target whose
\* traces vary they may only be too large.
THEOREM FavoredStaysExact == Spec => []FavoredExact
<1>1. IInv => FavoredExact
  BY DEF IInv, Favored
<1>2. QED BY <1>1, IInvHolds, PTL

\* The favored entries hit every byte that has a top rated entry.
THEOREM FavoredAlwaysCover == Spec => []FavoredCover
<1>1. IInv => FavoredCover
  BY DEF IInv
<1>2. QED BY <1>1, IInvHolds, PTL

\* Whatever a stable target has shown can be seen again with an input of the queue,
\* although trimming replaces inputs and calibrations fail.
THEOREM NothingIsLost == Spec => []NothingLost
<1>1. IInv => NothingLost
  BY DEF IInv
<1>2. QED BY <1>1, IInvHolds, PTL

\* No calibrated entry is faster and shorter than the top rated one of a byte it hits.
THEOREM BestStaysRated == Spec => []BestRated
<1>1. IInv => BestRated
  BY RatedIsBest
<1>2. QED BY <1>1, IInvHolds, PTL

\* Every file is as long as its entry says, before a splice reads it.
THEOREM FilesStayComplete == Spec => []FilesComplete
<1>1. IInv => FilesComplete
  BY QueueAssumption, LengthsAreThose
<1>2. QED BY <1>1, IInvHolds, PTL
==============================================================================
