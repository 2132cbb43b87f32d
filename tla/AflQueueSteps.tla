----------------------------- MODULE AflQueueSteps -----------------------------
(***************************************************************************)
(* What the operators of AflQueue compute and what each of its actions     *)
(* does, as lemmas for AflQueueProofs: the invariant IInv of that module   *)
(* is defined here, and its parts Types and Control are proved inductive.  *)
(***************************************************************************)
EXTENDS AflQueue, FiniteSetTheorems, SequenceTheorems, WellFoundedInduction, TLAPS

\* Entries, without the bound on the reference count.
Fields ==
    [file : Inputs \cup {NoInput}, len : Nat, cal_failed : Nat,
     trim_done : BOOLEAN, was_fuzzed : BOOLEAN, has_new_cov : BOOLEAN,
     var_behavior : BOOLEAN, favored : BOOLEAN, fs_redundant : BOOLEAN,
     exec_cksum : Trace, exec_us : Speeds \cup {0},
     trace_mini : SUBSET Bytes, tc_ref : Int, mutated : BOOLEAN]

Calibration ==
    [q : Nat, caller : {"none", "dry", "retry", "save"}, input : Inputs \cup {NoInput},
     cycle : Nat, max : Nat, first : Trace, last : Trace, first_run : BOOLEAN,
     new_bits : 0 .. 2, var : BOOLEAN, fault : {"NONE", "TMOUT", "CRASH", "NOBITS"}]

Locations == {"dry", "calibrate", "calibrated", "start", "loop", "fuzz", "trim", "havoc",
              "abandon", "next", "end", "fatal"}

\* TypeOK, but for the bounds of the counters.
Types ==
    /\ target \in Targets
    /\ queue \in Seq(Fields) /\ queue /= <<>>
    /\ virgin_bits \in [Bytes -> SUBSET Buckets]
    /\ virgin_tmout \subseteq Bytes \X BOOLEAN /\ virgin_crash \subseteq Bytes \X BOOLEAN
    /\ unique_hangs \in 0 .. KeepUnique /\ unique_crashes \in 0 .. KeepUnique
    /\ top_rated \in [Bytes -> 0 .. Len(queue)]
    /\ score_changed \in BOOLEAN /\ use_splicing \in BOOLEAN
    /\ stop_soon \in BOOLEAN /\ needs_write \in BOOLEAN
    /\ queued_favored \in Int /\ pending_favored \in Int /\ pending_not_fuzzed \in Int
    /\ var_bytes \subseteq Bytes
    /\ queue_cur \in 0 .. Len(queue) /\ prev_queued \in 0 .. Len(queue)
    /\ subseq_tmouts \in Nat /\ left \in Nat /\ splice_cycle \in 0 .. SpliceCycles
    /\ in_buf \in Inputs \cup {NoInput}
    /\ cal \in Calibration /\ cal.q <= Len(queue)
    /\ pc \in Locations

\* The program counter, the locals of calibrate_case and those of fuzz_one.
Control ==
    /\ pc \in {"calibrate", "calibrated"} <=> cal.caller /= "none"
    /\ pc = "start" => stop_soon
    /\ cal.caller /= "none" =>
          /\ cal.q > 0 /\ cal.input \in Inputs /\ cal.max > 0
          /\ queue[cal.q].file \in {NoInput, cal.input}
    /\ \/ cal.caller \in {"retry", "save"}
       \/ pc \in {"fuzz", "trim", "havoc", "abandon", "next"}
       => queue_cur > 0
    /\ cal.caller = "retry" => cal.q = queue_cur
    /\ cal.caller = "save" => queue[cal.q].file = NoInput /\ cal.q /= queue_cur
    /\ \A k \in DOMAIN queue : queue[k].file = NoInput => k = cal.q /\ cal.caller = "save"
    /\ pc = "trim" \/ cal.caller = "retry" =>
          /\ in_buf \in Inputs
          /\ ~needs_write => in_buf = queue[queue_cur].file
    /\ cal.caller = "retry" => ~needs_write

\* The input that entry k stands for.
Input(k) == IF queue[k].file = NoInput THEN cal.input ELSE queue[k].file

\* Is the file of entry k longer than the entry says, for now?
Longer(k) == pc = "trim" /\ needs_write /\ k = queue_cur

Lengths ==
    ~stop_soon =>
        /\ \A k \in DOMAIN queue : ~Longer(k) => Length[Input(k)] = queue[k].len
        /\ pc = "trim" => Length[in_buf] = queue[queue_cur].len

\* Is entry k a seed that waits for its dry run?
Dry(k) == (pc = "dry" \/ cal.caller = "dry") /\ k > cal.q

\* An entry has a time when it is calibrated, and a trace after its first run.
RowProgress(k) ==
    /\ queue[k].exec_us /= 0 => queue[k].cal_failed = 0
    /\ Dry(k) => queue[k].exec_us = 0
    /\ queue[k].cal_failed = 0 =>
           \/ queue[k].exec_cksum /= NoTrace /\ queue[k].exec_us /= 0
           \/ Dry(k) \/ pc \in {"start", "end", "fatal"}

\* How far calibrate_case has got; only a calibrated entry is trimmed.
CalProgress ==
    /\ pc = "calibrate" => queue[cal.q].exec_us = 0 /\ queue[cal.q].cal_failed > 0
    /\ cal.caller /= "none" /\ cal.cycle > 0 => queue[cal.q].exec_cksum /= NoTrace
    /\ pc = "calibrated" /\ cal.fault = "NONE" /\ ~stop_soon =>
          queue[cal.q].exec_cksum /= NoTrace /\ queue[cal.q].exec_us /= 0
    /\ pc = "trim" => queue[queue_cur].exec_cksum /= NoTrace /\ queue[queue_cur].exec_us /= 0

\* Only a calibrated entry is top rated.
RatedProgress == \A b \in Bytes : top_rated[b] /= 0 => queue[top_rated[b]].exec_us /= 0

Progress == (\A k \in DOMAIN queue : RowProgress(k)) /\ CalProgress /\ RatedProgress

\* What a target without variable behavior adds: the trace of an entry is the trace
\* of its input, also of what trimming has made of it.
Traces ==
    Stable =>
        /\ \A k \in DOMAIN queue : queue[k].exec_cksum /= NoTrace =>
              target[Input(k)] = {queue[k].exec_cksum}
        /\ pc = "trim" => target[in_buf] = {queue[queue_cur].exec_cksum}
        /\ cal.caller /= "none" /\ cal.cycle > 0 => target[cal.input] = {cal.last}

Rated ==
    Stable /\ ~stop_soon =>
        \A k \in DOMAIN queue : queue[k].exec_us /= 0 /\ ~Longer(k) =>
            \A b \in Hit(queue[k].exec_cksum) :
                /\ top_rated[b] /= 0
                /\ fav_factor(queue[top_rated[b]]) <= fav_factor(queue[k])

\* The entries that are top rated for some byte, and only they, have a trace.
References ==
    \A k \in DOMAIN queue :
        /\ queue[k].tc_ref = Cardinality({b \in Bytes : top_rated[b] = k})
        /\ (queue[k].trace_mini = {}) = (queue[k].tc_ref = 0)

Pending == pending_not_fuzzed = Cardinality({k \in DOMAIN queue : ~queue[k].was_fuzzed})

\* The trace that is kept is that of the entry.
Minis ==
    Stable => \A k \in DOMAIN queue : queue[k].trace_mini /= {} =>
                  queue[k].trace_mini = Hit(queue[k].exec_cksum)

Owners ==
    Stable => \A b \in Bytes : top_rated[b] /= 0 => b \in queue[top_rated[b]].trace_mini

Favored == FavoredExact /\ queued_favored <= MapSize /\ pending_favored <= MapSize

IInv == /\ Types /\ Control /\ Lengths /\ Progress /\ Traces /\ Rated
        /\ References /\ Pending /\ Minis /\ Owners /\ Favored
        /\ NothingLost /\ FavoredCover

------------------------------------------------------------------------------
(* Numbers: the library's induction theorems take an operator, but the one *)
(* about well-founded relations takes sets.                                *)

LEMMA LessThan == \E R : /\ IsWellFoundedOn(R, Nat)
                         /\ \A m, n \in Nat : m < n => <<m, n>> \in R
<1>1. IsWellFoundedOn(OpToRel(<,Nat), Nat)
  BY NatLessThanWellFounded
<1>2. \A m, n \in Nat : m < n => <<m, n>> \in OpToRel(<, Nat)
  BY DEF OpToRel
<1> WITNESS OpToRel(<, Nat)
<1>3. QED BY <1>1, <1>2

\* Induction over the natural numbers, for a set.
LEMMA Induction ==
    ASSUME NEW S, 0 \in S, \A n \in Nat : n \in S => n + 1 \in S
    PROVE  Nat \subseteq S
<1> SUFFICES ASSUME Nat \ S /= {} PROVE FALSE
  OBVIOUS
<1>1. PICK R : /\ IsWellFoundedOn(R, Nat)
               /\ \A m, n \in Nat : m < n => <<m, n>> \in R
  BY LessThan
<1>2. PICK n \in Nat \ S : \A m \in Nat \ S : ~ (<<m, n>> \in R)
  <2>1. Nat \ S \subseteq Nat
    OBVIOUS
  <2>2. QED BY <1>1, <2>1, WFMin, Zenon
<1>3. \A m \in Nat \ S : ~(m < n)
  BY <1>1, <1>2
<1>4. n /= 0 /\ n - 1 \in Nat
  OBVIOUS
<1>5. n - 1 \in S
  BY <1>3, <1>4
<1>6. n - 1 + 1 \in S
  BY <1>4, <1>5
<1>7. QED BY <1>6

LEMMA HasMax ==
    ASSUME NEW n \in Nat, NEW s \in SUBSET (1 .. n), s /= {}
    PROVE  \E x \in s : \A y \in s : x >= y
<1> DEFINE S == {m \in Nat : \A t \in SUBSET (1 .. m) :
                                t /= {} => \E x \in t : \A y \in t : x >= y}
<1>1. 0 \in S
  <2>1. \A t \in SUBSET (1 .. 0) : t = {}
    OBVIOUS
  <2>2. QED BY <2>1
<1>2. ASSUME NEW m \in Nat, m \in S PROVE m + 1 \in S
  <2> SUFFICES ASSUME NEW t \in SUBSET (1 .. m + 1), t /= {}
               PROVE  \E x \in t : \A y \in t : x >= y
    OBVIOUS
  <2>1. CASE m + 1 \in t
    BY <2>1
  <2>2. CASE m + 1 \notin t
    <3>1. t \in SUBSET (1 .. m)
      BY <2>2
    <3>2. QED BY <1>2, <3>1
  <2>3. QED BY <2>1, <2>2
<1> HIDE DEF S
<1>3. n \in S
  BY <1>1, <1>2, Induction
<1>4. QED BY <1>3 DEF S

------------------------------------------------------------------------------
(* The loop of cull_queue.                                                 *)

GrabStep(so_far, b) ==
    IF top_rated[b] = 0 \/ b \notin so_far.temp_v THEN so_far
    ELSE [favored |-> Append(so_far.favored, top_rated[b]),
          temp_v |-> so_far.temp_v \ queue[top_rated[b]].trace_mini]

\* The fold of Grab goes through the bytes in order.
LEMMA GrabSteps ==
    ASSUME QueueAssumption
    PROVE  \E h : /\ h[0] = [favored |-> <<>>, temp_v |-> Bytes]
                  /\ \A n \in 1 .. MapSize : h[n] = GrabStep(h[n - 1], n - 1)
                  /\ Grab = h[MapSize]
<1> DEFINE Idx == [n \in 1 .. MapSize |-> n - 1]
           Highest(s) == CHOOSE x \in s : \A y \in s : x >= y
           Base == [favored |-> <<>>, temp_v |-> Bytes]
           Body(f, s) == IF s = {} THEN Base
                         ELSE GrabStep(f[s \ {Highest(s)}], Idx[Highest(s)])
           Fold == CHOOSE f : f = [s \in SUBSET DOMAIN Idx |-> Body(f, s)]
<1>0. MapSize \in Nat
  BY DEF QueueAssumption
<1>1. Grab = Fold[DOMAIN Idx]
  BY DEF Grab, FoldLeft, MapThenFoldSet, Max, GrabStep
<1>2. ASSUME NEW n \in Nat, NEW s \in SUBSET (1 .. n), s /= {}
      PROVE  Highest(s) \in s /\ s \ {Highest(s)} \in SUBSET (1 .. n)
  BY <1>2, HasMax
<1>3. ASSUME NEW n \in Nat, NEW s \in SUBSET (1 .. n + 1), n + 1 \in s
      PROVE  Highest(s) = n + 1 /\ s \ {Highest(s)} \in SUBSET (1 .. n)
  <2>1. \A x \in s : (\A y \in s : x >= y) <=> x = n + 1
    BY <1>3
  <2>2. Highest(s) = n + 1
    BY <1>3, <2>1
  <2>3. s \ {n + 1} \in SUBSET (1 .. n)
    OBVIOUS
  <2> HIDE DEF Highest
  <2>4. QED BY <2>2, <2>3
<1> DEFINE S == {n \in Nat : \E f : f = [s \in SUBSET (1 .. n) |-> Body(f, s)]}
<1>4. 0 \in S
  <2> DEFINE f == [s \in SUBSET (1 .. 0) |-> Base]
  <2>1. f = [s \in SUBSET (1 .. 0) |-> Body(f, s)]
    OBVIOUS
  <2>2. QED BY <2>1
<1>5. ASSUME NEW n \in Nat, n \in S PROVE n + 1 \in S
  <2>1. PICK f : f = [s \in SUBSET (1 .. n) |-> Body(f, s)]
    BY <1>5
  <2> DEFINE Last1(s) == GrabStep(f[s \ {n + 1}], Idx[n + 1])
             g == [s \in SUBSET (1 .. n + 1) |-> IF n + 1 \in s THEN Last1(s) ELSE f[s]]
  <2>2. ASSUME NEW s \in SUBSET (1 .. n + 1) PROVE g[s] = Body(g, s)
    <3>1. CASE n + 1 \in s
      <4>1. Highest(s) = n + 1 /\ s \ {n + 1} \in SUBSET (1 .. n)
        BY <1>3, <3>1
      <4>2. g[s \ {n + 1}] = f[s \ {n + 1}]
        BY <4>1
      <4>3. g[s] = Last1(s)
        BY <3>1
      <4>4. Body(g, s) = GrabStep(g[s \ {Highest(s)}], Idx[Highest(s)])
        BY <3>1
      <4> HIDE DEF g, Highest, Body
      <4>5. QED BY <4>1, <4>2, <4>3, <4>4
    <3>2. CASE n + 1 \notin s
      <4>1. s \in SUBSET (1 .. n)
        BY <3>2
      <4>2. g[s] = Body(f, s)
        BY <2>1, <3>2, <4>1
      <4>3. CASE s = {}
        BY <4>2, <4>3
      <4>4. CASE s /= {}
        <5>1. s \ {Highest(s)} \in SUBSET (1 .. n)
          BY <1>2, <4>1, <4>4
        <5>2. g[s \ {Highest(s)}] = f[s \ {Highest(s)}]
          BY <5>1, SMTT(30)
        <5>3. QED BY <4>2, <5>2, SMTT(30)
      <4>5. QED BY <4>3, <4>4
    <3>3. QED BY <3>1, <3>2
  <2>3. g = [s \in SUBSET (1 .. n + 1) |-> g[s]]
    OBVIOUS
  <2> HIDE DEF g
  <2>4. g = [s \in SUBSET (1 .. n + 1) |-> Body(g, s)]
    <3> HIDE DEF Body
    <3>1. QED BY <2>2, <2>3
  <2>5. n + 1 \in Nat
    OBVIOUS
  <2> HIDE DEF Body
  <2>6. QED BY <2>4, <2>5
<1>6. MapSize \in S
  <2> HIDE DEF S
  <2>1. QED BY <1>0, <1>4, <1>5, Induction
<1>7. DOMAIN Idx = 1 .. MapSize
  OBVIOUS
<1>8. Fold = [s \in SUBSET DOMAIN Idx |-> Body(Fold, s)]
  <2>1. \E f : f = [s \in SUBSET DOMAIN Idx |-> Body(f, s)]
    <3> HIDE DEF Idx, Body
    <3>1. QED BY <1>6, <1>7
  <2>2. QED BY <2>1
<1> HIDE DEF Fold
<1>9. Fold[1 .. 0] = Base
  BY <1>0, <1>7, <1>8
<1>10. ASSUME NEW n \in 1 .. MapSize
       PROVE  Fold[1 .. n] = GrabStep(Fold[1 .. n - 1], n - 1)
  <2>1. n - 1 \in Nat /\ n \in 1 .. n /\ 1 .. n \in SUBSET (1 .. MapSize)
    BY <1>0
  <2>2. Highest(1 .. n) = n
    BY <1>3, <2>1
  <2>3. (1 .. n) \ {n} = 1 .. n - 1
    BY <1>0, SMTT(30)
  <2>4. 1 .. n \in SUBSET DOMAIN Idx /\ 1 .. n /= {} /\ Idx[n] = n - 1
    BY <1>7, <2>1
  <2>5. QED BY <1>8, <2>2, <2>3, <2>4
<1> DEFINE h == [n \in 0 .. MapSize |-> Fold[1 .. n]]
<1>11. /\ h[0] = Base
       /\ \A n \in 1 .. MapSize : h[n] = GrabStep(h[n - 1], n - 1)
       /\ Grab = h[MapSize]
  <2>1. \A n \in 1 .. MapSize : n \in 0 .. MapSize /\ n - 1 \in 0 .. MapSize
    BY <1>0
  <2>2. QED BY <1>0, <1>1, <1>7, <1>9, <1>10, <2>1
<1> HIDE DEF h
<1>12. QED BY <1>11

\* What cull_queue grabs: top rated entries, at most one for every byte, which
\* hit together every byte that has a top rated entry; none twice if they hit
\* the bytes that they are top rated for.
LEMMA GrabFacts ==
    ASSUME QueueAssumption, Types, NEW g, g = Grab.favored
    PROVE  /\ g \in Seq(DOMAIN queue) /\ Len(g) <= MapSize
           /\ \A b \in Bytes : top_rated[b] /= 0 =>
                 \E n \in DOMAIN g : g[n] = top_rated[b] \/ b \in queue[g[n]].trace_mini
           /\ (\A b \in Bytes : top_rated[b] /= 0 => b \in queue[top_rated[b]].trace_mini)
                 => \A m, n \in DOMAIN g : g[m] = g[n] => m = n
<1>1. PICK h : /\ h[0] = [favored |-> <<>>, temp_v |-> Bytes]
               /\ \A n \in 1 .. MapSize : h[n] = GrabStep(h[n - 1], n - 1)
               /\ Grab = h[MapSize]
  BY GrabSteps
<1>2. MapSize \in Nat /\ MapSize > 0
  BY DEF QueueAssumption
<1>3. \A b \in Bytes : top_rated[b] /= 0 => top_rated[b] \in DOMAIN queue
  BY SMTT(30) DEF Types
<1>4. \A k \in DOMAIN queue : queue[k].trace_mini \in SUBSET Bytes
  <2>1. \A k \in DOMAIN queue : queue[k] \in Fields
    BY SMTT(30) DEF Types
  <2>2. QED BY <2>1 DEF Fields
<1> DEFINE Own == \A b \in Bytes : top_rated[b] /= 0 =>
                      b \in queue[top_rated[b]].trace_mini
           Typed(n) == /\ h[n].favored \in Seq(DOMAIN queue) /\ Len(h[n].favored) <= n
                       /\ h[n].temp_v \in SUBSET Bytes
           Covered(n) ==
               /\ \A b \in Bytes \ h[n].temp_v : \E m \in 1 .. Len(h[n].favored) :
                     b \in queue[h[n].favored[m]].trace_mini
               /\ \A b \in Bytes : b < n /\ top_rated[b] /= 0 =>
                     \E m \in 1 .. Len(h[n].favored) :
                         \/ h[n].favored[m] = top_rated[b]
                         \/ b \in queue[h[n].favored[m]].trace_mini
           Once(n) ==
               Own => /\ \A l, m \in 1 .. Len(h[n].favored) :
                            h[n].favored[l] = h[n].favored[m] => l = m
                      /\ \A m \in 1 .. Len(h[n].favored) :
                            h[n].temp_v \cap queue[h[n].favored[m]].trace_mini = {}
           Good(n) == Typed(n) /\ Covered(n) /\ Once(n)
<1>5. Good(0)
  <2>1. h[0].favored = <<>> /\ h[0].temp_v = Bytes
    BY <1>1
  <2>2. Len(h[0].favored) = 0 /\ h[0].favored \in Seq(DOMAIN queue)
    BY <2>1
  <2>3. QED BY <2>1, <2>2 DEF Bytes
<1>6. ASSUME NEW n \in Nat, n + 1 <= MapSize, Good(n) PROVE Good(n + 1)
  <2> DEFINE old == h[n]  new == h[n + 1]  r == top_rated[n]
  <2>1. n \in Bytes /\ n + 1 \in 1 .. MapSize /\ n + 1 - 1 = n
    BY <1>2, <1>6, SMTT(30) DEF Bytes
  <2>2. new = GrabStep(old, n)
    BY <1>1, <2>1, SMTT(30)
  <2>3. Bytes \subseteq Int
    BY <1>2 DEF Bytes
  <2>4. CASE r = 0 \/ n \notin old.temp_v
    <3>1. new = old
      BY <2>2, <2>4 DEF GrabStep
    <3>2. Typed(n + 1) /\ Once(n + 1)
      <4>1. Typed(n) /\ Once(n)
        BY <1>6
      <4>2. Typed(n + 1)
        BY <3>1, <4>1, SMTT(30)
      <4>3. Once(n + 1)
        BY <3>1, <4>1, Zenon
      <4>4. QED BY <4>2, <4>3
    <3>3. Covered(n + 1)
      <4>1. \A b \in Bytes : b < n + 1 => b < n \/ b = n
        BY <2>3
      <4>2. ASSUME top_rated[n] /= 0
            PROVE  \E m \in 1 .. Len(old.favored) : n \in queue[old.favored[m]].trace_mini
        BY <1>6, <2>1, <2>4, <4>2
      <4>3. ASSUME NEW b \in Bytes, b < n + 1, top_rated[b] /= 0
            PROVE  \E m \in 1 .. Len(old.favored) : \/ old.favored[m] = top_rated[b]
                                                   \/ b \in queue[old.favored[m]].trace_mini
        <5>1. CASE b = n
          BY <4>2, <4>3, <5>1
        <5>2. CASE b < n
          BY <1>6, <4>3, <5>2
        <5>3. QED BY <4>1, <4>3, <5>1, <5>2
      <4>4. QED BY <1>6, <3>1, <4>3
    <3>4. QED BY <3>2, <3>3
  <2>5. CASE r /= 0 /\ n \in old.temp_v
    <3>1. r \in DOMAIN queue
      BY <1>3, <2>1, <2>5
    <3>2. /\ new.favored = Append(old.favored, r)
          /\ new.temp_v = old.temp_v \ queue[r].trace_mini
      <4> HIDE DEF new, old
      <4>1. new = [favored |-> Append(old.favored, r),
                   temp_v |-> old.temp_v \ queue[r].trace_mini]
        BY <2>2, <2>5 DEF GrabStep
      <4>2. QED BY <4>1
    <3>3. PICK len \in Nat : len = Len(old.favored)
      BY <1>6
    <3>4. /\ new.favored \in Seq(DOMAIN queue) /\ Len(new.favored) = len + 1
          /\ new.favored[len + 1] = r
          /\ \A m \in 1 .. len : new.favored[m] = old.favored[m]
      <4>1. old.favored \in Seq(DOMAIN queue)
        BY <1>6
      <4> HIDE DEF new, old, r
      <4>2. QED BY <3>1, <3>2, <3>3, <4>1, SMTT(30)
    <3> HIDE DEF new
    <3>5. Typed(n + 1)
      BY <1>6, <3>2, <3>3, <3>4, SMTT(30) DEF new
    <3>6. Covered(n + 1)
      <4>1. ASSUME NEW b \in Bytes \ new.temp_v
            PROVE  \E m \in 1 .. len + 1 : b \in queue[new.favored[m]].trace_mini
        <5>1. CASE b \in queue[r].trace_mini
          <6>1. len + 1 \in 1 .. len + 1
            OBVIOUS
          <6>2. QED BY <3>4, <5>1, <6>1
        <5>2. CASE b \in Bytes \ old.temp_v
          <6>1. PICK m \in 1 .. len : b \in queue[old.favored[m]].trace_mini
            BY <1>6, <3>3, <5>2
          <6>2. m \in 1 .. len + 1
            BY <3>3
          <6>3. QED BY <3>4, <6>1, <6>2
        <5>3. QED BY <3>2, <4>1, <5>1, <5>2
      <4>2. ASSUME NEW b \in Bytes, b < n + 1, top_rated[b] /= 0
            PROVE  \E m \in 1 .. len + 1 : \/ new.favored[m] = top_rated[b]
                                           \/ b \in queue[new.favored[m]].trace_mini
        <5>1. CASE b = n
          <6>1. len + 1 \in 1 .. len + 1
            OBVIOUS
          <6>2. QED BY <3>4, <5>1, <6>1
        <5>2. CASE b < n
          <6>1. PICK m \in 1 .. len : \/ old.favored[m] = top_rated[b]
                                      \/ b \in queue[old.favored[m]].trace_mini
            BY <1>6, <3>3, <4>2, <5>2
          <6>2. m \in 1 .. len + 1
            BY <3>3
          <6>3. QED BY <3>4, <6>1, <6>2
        <5>3. QED BY <2>3, <4>2, <5>1, <5>2
      <4>3. QED BY <3>4, <4>1, <4>2 DEF new
    <3>7. Once(n + 1)
      <4> SUFFICES ASSUME Own PROVE Once(n + 1)
        OBVIOUS
      <4>1. n \in queue[r].trace_mini
        BY <2>1, <2>5
      <4>2. \A m \in 1 .. len : old.favored[m] /= r
        BY <1>6, <2>5, <3>3, <4>1
      <4>3. \A l, m \in 1 .. len : old.favored[l] = old.favored[m] => l = m
        BY <1>6, <3>3
      <4>4. \A l, m \in 1 .. len + 1 : new.favored[l] = new.favored[m] => l = m
        <5>1. \A m \in 1 .. len + 1 : m \in 1 .. len \/ m = len + 1
          BY SMTT(30)
        <5>2. QED BY <3>4, <4>2, <4>3, <5>1
      <4>5. \A m \in 1 .. len + 1 : new.temp_v \cap queue[new.favored[m]].trace_mini = {}
        <5>1. \A m \in 1 .. len + 1 : m \in 1 .. len \/ m = len + 1
          OBVIOUS
        <5>2. \A m \in 1 .. len : old.temp_v \cap queue[old.favored[m]].trace_mini = {}
          BY <1>6, <3>3
        <5> HIDE DEF old, r
        <5>3. \A m \in 1 .. len : new.temp_v \cap queue[new.favored[m]].trace_mini = {}
          BY <3>2, <3>4, <5>2
        <5>4. new.temp_v \cap queue[new.favored[len + 1]].trace_mini = {}
          BY <3>2, <3>4
        <5>5. QED BY <5>1, <5>3, <5>4
      <4>6. QED BY <3>4, <4>4, <4>5 DEF new
    <3>8. QED BY <3>5, <3>6, <3>7
  <2>6. QED BY <2>4, <2>5
<1> HIDE DEF Good
<1>7. Good(MapSize)
  <2> DEFINE S == {n \in Nat : n <= MapSize => Good(n)}
  <2>1. 0 \in S
    BY <1>5
  <2>2. ASSUME NEW n \in Nat, n \in S PROVE n + 1 \in S
    BY <1>2, <1>6, <2>2
  <2> HIDE DEF S
  <2>3. MapSize \in S
    BY <1>2, <2>1, <2>2, Induction
  <2>4. QED BY <1>2, <2>3 DEF S
<1>8. g = h[MapSize].favored
  BY <1>1
<1>9. g \in Seq(DOMAIN queue) /\ DOMAIN g = 1 .. Len(g) /\ Len(g) <= MapSize
  BY <1>7, <1>8 DEF Good
<1>10. \A b \in Bytes : b < MapSize
  BY <1>2 DEF Bytes
<1>11. QED BY <1>7, <1>8, <1>9, <1>10 DEF Good

------------------------------------------------------------------------------
(* Types, and what an action does to the entries.                          *)

LEMMA EntryTypes ==
    ASSUME QueueAssumption, Types
    PROVE  /\ Len(queue) \in Nat /\ Len(queue) > 0 /\ DOMAIN queue = 1 .. Len(queue)
           /\ \A k \in DOMAIN queue : queue[k] \in Fields
           /\ queue \in Seq(Fields)
<1>1. queue \in Seq(Fields) /\ queue /= <<>>
  BY Zenon DEF Types
<1>2. Len(queue) \in Nat /\ Len(queue) /= 0 /\ DOMAIN queue = 1 .. Len(queue)
  BY <1>1
<1>3. QED BY <1>1, <1>2

LEMMA TargetTypes ==
    ASSUME QueueAssumption, Types, NEW i \in Inputs
    PROVE  target[i] \subseteq Trace \ {NoTrace} /\ target[i] /= {} /\ NoTrace \in Trace
<1>1. NoTrace \in Trace
  BY DEF NoTrace, Trace
<1>2. target \in [Inputs -> SUBSET (Trace \ {NoTrace})] /\ target[i] /= {}
  BY DEF Types, QueueAssumption
<1>3. QED BY <1>1, <1>2

LEMMA OutcomeTypes ==
    ASSUME QueueAssumption, Types, NEW i \in Inputs, NEW run \in Outcomes(i)
    PROVE  /\ run.fault \in {"NONE", "TMOUT", "CRASH"} /\ run.trace \in Trace
           /\ run.trace /= NoTrace => run.trace \in target[i]
           /\ run.fault = "NONE" => run.trace /= NoTrace
<1>1. /\ target[i] \subseteq Trace \ {NoTrace} /\ NoTrace \in Trace
      /\ Faults \subseteq {"TMOUT", "CRASH"}
  BY TargetTypes DEF QueueAssumption
<1>2. CASE run \in [fault : {"NONE"}, trace : target[i]]
  BY <1>1, <1>2
<1>3. CASE run \in [fault : Faults, trace : target[i] \cup {NoTrace}]
  BY <1>1, <1>3
<1>4. QED BY <1>2, <1>3 DEF Outcomes

LEMMA BitsTypes ==
    ASSUME QueueAssumption, NEW virgin \in [Bytes -> SUBSET Buckets], NEW trace \in Trace
    PROVE  /\ Cleared(virgin, trace) \in [Bytes -> SUBSET Buckets]
           /\ has_new_bits(virgin, trace) \in 0 .. 2
           /\ Hit(trace) \in SUBSET Bytes
           /\ simplify_trace(trace) \subseteq Bytes \X BOOLEAN
<1>1. has_new_bits(virgin, trace) \in 0 .. 2
  BY DEF has_new_bits
<1>2. Cleared(virgin, trace) \in [Bytes -> SUBSET Buckets]
  BY DEF Cleared
<1>3. \A b \in Bytes : (trace[b] /= 0) \in BOOLEAN
  OBVIOUS
<1>4. simplify_trace(trace) \subseteq Bytes \X BOOLEAN
  <2> SUFFICES ASSUME NEW x \in simplify_trace(trace) PROVE x \in Bytes \X BOOLEAN
    OBVIOUS
  <2>1. PICK b \in Bytes : x = <<b, trace[b] /= 0>>
    BY DEF simplify_trace
  <2>2. QED BY <1>3, <2>1, Zenon
<1>5. QED BY <1>1, <1>2, <1>4 DEF Hit

LEMMA MaxOfTwo ==
    ASSUME NEW m \in 0 .. 2, NEW n \in 0 .. 2
    PROVE  Max({m, n}) \in 0 .. 2
<1>1. \E x \in {n, m} : \A y \in {n, m} : x >= y
  OBVIOUS
<1>2. QED BY <1>1 DEF Max

\* What the invariants say of an entry, in three parts.
Same(r, s) == /\ r.file = s.file /\ r.len = s.len /\ r.cal_failed = s.cal_failed
              /\ r.exec_cksum = s.exec_cksum /\ r.exec_us = s.exec_us
Marks(r, s) == r.was_fuzzed = s.was_fuzzed /\ r.favored = s.favored
Refs(r, s) == r.tc_ref = s.tc_ref /\ r.trace_mini = s.trace_mini

RowsKept == /\ Len(queue') = Len(queue)
            /\ \A k \in 1 .. Len(queue) : Same(queue'[k], queue[k])
MarksKept == /\ Len(queue') = Len(queue)
             /\ \A k \in 1 .. Len(queue) : Marks(queue'[k], queue[k])
             /\ UNCHANGED <<queued_favored, pending_favored, pending_not_fuzzed>>
RefsKept == /\ Len(queue') = Len(queue) /\ UNCHANGED top_rated
            /\ \A k \in 1 .. Len(queue) : Refs(queue'[k], queue[k])

\* One entry is replaced.
LEMMA Put ==
    ASSUME NEW e \in Seq(Fields), NEW q \in 1 .. Len(e), NEW r \in Fields, NEW f,
           f = [e EXCEPT ![q] = r]
    PROVE  /\ f \in Seq(Fields) /\ Len(f) = Len(e) /\ f /= <<>>
           /\ f[q] = r /\ \A k \in 1 .. Len(e) : k /= q => f[k] = e[k]
  BY ExceptSeq

\* The parts of the entry that stay.
LEMMA PutKeeps ==
    ASSUME QueueAssumption, Types, NEW q \in 1 .. Len(queue), NEW r \in Fields,
           queue' = [queue EXCEPT ![q] = r]
    PROVE  /\ queue' \in Seq(Fields) /\ Len(queue') = Len(queue) /\ queue' /= <<>>
           /\ queue'[q] = r /\ \A k \in 1 .. Len(queue) : k /= q => queue'[k] = queue[k]
           /\ Same(r, queue[q]) => RowsKept
           /\ Marks(r, queue[q]) => \A k \in 1 .. Len(queue) : Marks(queue'[k], queue[k])
           /\ Refs(r, queue[q]) => \A k \in 1 .. Len(queue) : Refs(queue'[k], queue[k])
<1>1. PICK e : e = queue'
  OBVIOUS
<1>2. /\ e \in Seq(Fields) /\ Len(e) = Len(queue) /\ e /= <<>>
      /\ e[q] = r /\ \A k \in 1 .. Len(queue) : k /= q => e[k] = queue[k]
  BY <1>1, EntryTypes, Put, SMTT(30)
<1>3. /\ Same(r, queue[q]) => \A k \in 1 .. Len(queue) : Same(e[k], queue[k])
      /\ Marks(r, queue[q]) => \A k \in 1 .. Len(queue) : Marks(e[k], queue[k])
      /\ Refs(r, queue[q]) => \A k \in 1 .. Len(queue) : Refs(e[k], queue[k])
  BY <1>2 DEF Same, Marks, Refs
<1>4. QED BY <1>1, <1>2, <1>3 DEF RowsKept

LEMMA CksumSet ==
    ASSUME NEW r \in Fields, NEW t \in Trace, NEW s, s = [r EXCEPT !.exec_cksum = t]
    PROVE  /\ s \in Fields /\ Marks(s, r) /\ Refs(s, r) /\ s.exec_cksum = t
           /\ s.file = r.file /\ s.len = r.len /\ s.cal_failed = r.cal_failed
           /\ s.exec_us = r.exec_us
  BY DEF Fields, Marks, Refs

LEMMA CalibrationFails ==
    ASSUME NEW c \in Calibration, NEW fault \in {"NONE", "TMOUT", "CRASH", "NOBITS"},
           NEW d, d = [c EXCEPT !.fault = fault]
    PROVE  /\ d \in Calibration /\ d.q = c.q /\ d.caller = c.caller /\ d.input = c.input
           /\ d.cycle = c.cycle /\ d.max = c.max /\ d.last = c.last /\ d.fault = fault
  BY DEF Calibration

LEMMA CalibrateRunDoes ==
    ASSUME QueueAssumption, Types, Control, CalibrateRun, UNCHANGED target
    PROVE  /\ Types' /\ RefsKept /\ MarksKept
           /\ UNCHANGED <<score_changed, stop_soon, queue_cur, needs_write, in_buf>>
           /\ pc = "calibrate" /\ cal'.q = cal.q /\ cal'.caller = cal.caller
           /\ cal'.input = cal.input /\ cal'.max > 0
           /\ \/ /\ pc' = "calibrated" /\ UNCHANGED <<queue, virgin_bits>>
                 /\ cal'.cycle = cal.cycle /\ cal'.last = cal.last
                 /\ cal'.fault /= "NONE" \/ stop_soon
              \/ \E trace \in target[cal.input], r \in Fields :
                 /\ pc' = "calibrate" /\ cal'.cycle > 0 /\ cal'.last = trace
                 /\ \/ UNCHANGED virgin_bits
                    \/ virgin_bits' = Cleared(virgin_bits, trace)
                 /\ queue' = [queue EXCEPT ![cal.q] = r]
                 /\ queue[cal.q].exec_cksum = NoTrace => r.exec_cksum = trace
                 /\ queue[cal.q].exec_cksum /= NoTrace =>
                        r.exec_cksum = queue[cal.q].exec_cksum
                 /\ r.file = queue[cal.q].file /\ r.len = queue[cal.q].len
                 /\ r.cal_failed = queue[cal.q].cal_failed
                 /\ r.exec_us = queue[cal.q].exec_us
<1>1. /\ cal.q \in 1 .. Len(queue) /\ cal.input \in Inputs /\ cal \in Calibration
      /\ pc = "calibrate" /\ queue \in Seq(Fields) /\ cal.max > 0
  <2>1. pc = "calibrate"
    BY DEF CalibrateRun
  <2>2. cal.q > 0 /\ cal.input \in Inputs /\ cal.max > 0
    BY <2>1 DEF Control
  <2>3. cal \in Calibration /\ cal.q <= Len(queue)
    BY DEF Types
  <2>4. cal.q \in Nat
    BY <2>3 DEF Calibration
  <2>5. Len(queue) \in Nat /\ queue \in Seq(Fields)
    BY EntryTypes
  <2>6. cal.q \in 1 .. Len(queue)
    BY <2>2, <2>3, <2>4, <2>5
  <2>7. QED BY <2>1, <2>2, <2>3, <2>5, <2>6
<1> DEFINE Fails(run) ==
               /\ stop_soon \/ run.fault /= "NONE"
               /\ cal' = [cal EXCEPT !.fault = run.fault]
               /\ pc' = "calibrated"
               /\ UNCHANGED <<queue, virgin_bits, var_bytes>>
           Known == queue[cal.q].exec_cksum
           Varied(run) == {b \in Bytes : cal.first[b] /= run.trace[b]} \ var_bytes
           Differs(run) == Known /= run.trace
           Runs(run) ==
               /\ run.fault = "NONE" /\ UNCHANGED pc
               /\ virgin_bits' = IF Differs(run) THEN Cleared(virgin_bits, run.trace)
                                 ELSE virgin_bits
               /\ var_bytes' = IF Differs(run) /\ Known /= NoTrace
                               THEN var_bytes \cup Varied(run) ELSE var_bytes
               /\ queue' = IF Known = NoTrace
                           THEN [queue EXCEPT ![cal.q].exec_cksum = run.trace] ELSE queue
               /\ cal' = [cal EXCEPT
                             !.cycle = @ + 1, !.last = run.trace,
                             !.max = IF (Differs(run) /\ Known /= NoTrace)
                                            /\ Varied(run) /= {}
                                     THEN CalCyclesLong ELSE @,
                             !.first = IF Known = NoTrace THEN run.trace ELSE @,
                             !.new_bits =
                                 IF Differs(run)
                                 THEN Max({@, has_new_bits(virgin_bits, run.trace)})
                                 ELSE @,
                             !.var = @ \/ (Differs(run) /\ Known /= NoTrace)]
<1>2. PICK run \in Outcomes(cal.input) : Fails(run) \/ Runs(run)
  BY Zenon DEF CalibrateRun
<1>3. UNCHANGED <<target, faults, scores, pending_not_fuzzed, cycle, subseq_tmouts,
                   stop_soon, stage>>
  BY DEF CalibrateRun
<1>4. /\ UNCHANGED <<virgin_tmout, virgin_crash, unique_hangs, unique_crashes>>
      /\ UNCHANGED <<top_rated, score_changed, queued_favored, pending_favored>>
      /\ UNCHANGED <<queue_cur, use_splicing, prev_queued>>
      /\ UNCHANGED <<in_buf, left, needs_write, splice_cycle>>
  BY <1>3 DEF faults, scores, cycle, stage
<1>5. /\ run.fault \in {"NONE", "TMOUT", "CRASH"} /\ run.trace \in Trace
      /\ run.fault = "NONE" => run.trace \in target[cal.input]
  BY <1>1, OutcomeTypes
<1>6. CASE Fails(run)
  <2>1. PICK c : c = cal'
    OBVIOUS
  <2>2. /\ c \in Calibration /\ c.q = cal.q /\ c.caller = cal.caller /\ c.input = cal.input
        /\ c.cycle = cal.cycle /\ c.max = cal.max /\ c.last = cal.last
        /\ c.fault = run.fault
    BY <1>1, <1>5, <1>6, <2>1, CalibrationFails, SMTT(30)
  <2>3. RefsKept /\ MarksKept
    BY <1>3, <1>4, <1>6 DEF RefsKept, MarksKept, Refs, Marks
  <2>4. Types'
    BY <1>3, <1>4, <1>6, <2>1, <2>2 DEF Types, Locations
  <2>5. QED BY <1>1, <1>3, <1>4, <1>6, <2>1, <2>2, <2>3, <2>4
<1>7. CASE Runs(run)
  <2>1. PICK c : c = cal'
    OBVIOUS
  <2>2. /\ c \in Calibration /\ c.q = cal.q /\ c.caller = cal.caller /\ c.input = cal.input
        /\ c.cycle > 0 /\ c.max > 0 /\ c.last = run.trace
    <3>1. /\ CalCyclesLong \in Nat /\ CalCyclesLong > 0
      BY DEF QueueAssumption
    <3>2. /\ cal.cycle \in Nat /\ cal.max \in Nat /\ cal.first \in Trace
          /\ cal.new_bits \in 0 .. 2 /\ cal.var \in BOOLEAN
      BY <1>1 DEF Calibration
    <3>3. Max({cal.new_bits, has_new_bits(virgin_bits, run.trace)}) \in 0 .. 2
      BY <1>5, <3>2, BitsTypes, MaxOfTwo DEF Types
    <3>a. PICK cycle0 \in Nat : cycle0 = cal.cycle
      BY <3>2
    <3>4. PICK cycle1 : cycle1 = cycle0 + 1
      OBVIOUS
    <3>5. PICK max1 : max1 = IF (Differs(run) /\ Known /= NoTrace) /\ Varied(run) /= {}
                             THEN CalCyclesLong ELSE cal.max
      OBVIOUS
    <3>6. PICK first1 : first1 = IF Known = NoTrace THEN run.trace ELSE cal.first
      OBVIOUS
    <3>7. PICK new1 : new1 = IF Differs(run)
                             THEN Max({cal.new_bits, has_new_bits(virgin_bits, run.trace)})
                             ELSE cal.new_bits
      OBVIOUS
    <3>8. PICK var1 : var1 = (cal.var \/ (Differs(run) /\ Known /= NoTrace))
      OBVIOUS
    <3>9. c = [cal EXCEPT !.cycle = cycle1, !.last = run.trace, !.max = max1,
                          !.first = first1, !.new_bits = new1, !.var = var1]
      <4>1. c = [cal EXCEPT !.cycle = @ + 1, !.last = run.trace, !.max = max1,
                          !.first = first1, !.new_bits = new1, !.var = var1]
        BY <1>7, <2>1, <3>5, <3>6, <3>7, <3>8, Zenon
      <4>2. cal.cycle + 1 = cycle1
        BY <3>a, <3>4
      <4>3. QED BY <4>1, <4>2, Zenon
    <3> HIDE DEF Runs, Fails, Known, Differs, Varied
    <3>10. /\ cycle1 \in Nat /\ cycle1 > 0 /\ max1 \in Nat /\ max1 > 0
           /\ first1 \in Trace /\ new1 \in 0 .. 2
      <4>1. cycle1 \in Nat /\ cycle1 > 0
        BY <3>4, SMTT(30)
      <4>2. max1 \in Nat /\ max1 > 0
        BY <1>1, <3>1, <3>2, <3>5
      <4>3. first1 \in Trace
        BY <1>5, <3>2, <3>6
      <4>4. new1 \in 0 .. 2
        BY <3>2, <3>3, <3>7
      <4>5. QED BY <4>1, <4>2, <4>3, <4>4
    <3>11. var1 \in BOOLEAN
      BY <3>2, <3>8
    <3>12. /\ c \in Calibration /\ c.q = cal.q /\ c.caller = cal.caller
           /\ c.input = cal.input /\ c.cycle = cycle1 /\ c.max = max1
           /\ c.last = run.trace
      <4>1. cal \in Calibration /\ run.trace \in Trace
        BY <1>1, <1>5
      <4>2. PICK c0 : c0 = cal
        OBVIOUS
      <4>3. PICK trace : trace = run.trace
        OBVIOUS
      <4>4. /\ c0 \in Calibration /\ trace \in Trace
            /\ c = [c0 EXCEPT !.cycle = cycle1, !.last = trace, !.max = max1,
                              !.first = first1, !.new_bits = new1, !.var = var1]
        BY <3>9, <4>1, <4>2, <4>3
      <4>5. /\ c \in Calibration /\ c.q = c0.q /\ c.caller = c0.caller
            /\ c.input = c0.input /\ c.cycle = cycle1 /\ c.max = max1
            /\ c.last = trace /\ c.fault = c0.fault
        BY <4>4, <3>10, <3>11 DEF Calibration
      <4>6. QED BY <4>2, <4>3, <4>5
    <3>13. QED BY <3>10, <3>12
  <2>3. PICK r : r = IF Known = NoTrace THEN [queue[cal.q] EXCEPT !.exec_cksum = run.trace]
                     ELSE queue[cal.q]
    OBVIOUS
  <2>4. queue[cal.q] \in Fields
    BY <1>1
  <2>5. /\ r \in Fields /\ Marks(r, queue[cal.q]) /\ Refs(r, queue[cal.q])
        /\ r.exec_cksum = IF Known = NoTrace THEN run.trace ELSE Known
        /\ r.file = queue[cal.q].file /\ r.len = queue[cal.q].len
        /\ r.cal_failed = queue[cal.q].cal_failed /\ r.exec_us = queue[cal.q].exec_us
    <3>1. CASE Known = NoTrace
      BY <1>5, <2>3, <2>4, <3>1, CksumSet
    <3>2. CASE Known /= NoTrace
      BY <2>3, <2>4, <3>2 DEF Marks, Refs
    <3>3. QED BY <3>1, <3>2
  <2>6. queue' = [queue EXCEPT ![cal.q] = r]
    <3>1. CASE Known = NoTrace
      BY <1>1, <1>7, <2>3, <3>1
    <3>2. CASE Known /= NoTrace
      <4>1. queue' = queue /\ r = queue[cal.q]
        BY <1>7, <2>3, <3>2
      <4>2. QED BY <1>1, <4>1
    <3>3. QED BY <3>1, <3>2
  <2>7. /\ queue' \in Seq(Fields) /\ Len(queue') = Len(queue) /\ queue' /= <<>>
        /\ \A k \in 1 .. Len(queue) : Marks(queue'[k], queue[k])
        /\ \A k \in 1 .. Len(queue) : Refs(queue'[k], queue[k])
    BY <1>1, <2>5, <2>6, PutKeeps
  <2>8. RefsKept /\ MarksKept
    BY <1>3, <1>4, <2>7 DEF RefsKept, MarksKept
  <2>9. virgin_bits' \in [Bytes -> SUBSET Buckets] /\ var_bytes' \subseteq Bytes
    BY <1>5, <1>7, BitsTypes DEF Types
  <2>10. Types'
    BY <1>1, <1>3, <1>4, <1>7, <2>1, <2>2, <2>7, <2>9 DEF Types, Locations
  <2>11. /\ Known = NoTrace => r.exec_cksum = run.trace
         /\ Known /= NoTrace => r.exec_cksum = Known
    BY <2>5
  <2>12. virgin_bits' = virgin_bits \/ virgin_bits' = Cleared(virgin_bits, run.trace)
    BY <1>7
  <2>13. run.trace \in target[cal.input] /\ pc' = "calibrate"
    BY <1>1, <1>5, <1>7
  <2> HIDE DEF Runs, Fails
  <2>14. QED
    BY <1>1, <1>3, <1>4, <2>1, <2>2, <2>5, <2>6, <2>8, <2>10, <2>11, <2>12, <2>13, ZenonT(30)
<1>8. QED BY <1>2, <1>6, <1>7

------------------------------------------------------------------------------
(* update_bitmap_score.                                                    *)

LEMMA BytesFinite ==
    ASSUME QueueAssumption
    PROVE  /\ \A S \in SUBSET Bytes :
                 IsFiniteSet(S) /\ Cardinality(S) \in Nat /\ Cardinality(S) <= MapSize
           /\ \A S \in SUBSET Bytes : Cardinality(S) = 0 <=> S = {}
<1>1. MapSize \in Nat /\ MapSize > 0
  BY DEF QueueAssumption
<1>2. IsFiniteSet(Bytes) /\ Cardinality(Bytes) = MapSize
  <2>1. PICK m \in Int : m = MapSize - 1
    BY <1>1
  <2>2. 0 \in Int
    OBVIOUS
  <2>3. IsFiniteSet(0 .. m) /\ Cardinality(0 .. m) = IF 0 > m THEN 0 ELSE m - 0 + 1
    BY <2>2, FS_Interval
  <2>4. QED BY <1>1, <2>1, <2>3 DEF Bytes
<1>3. QED BY <1>2, FS_Subset, FS_CardinalityType, FS_EmptySet

\* What the entries lose and win.
ScoreFacts(e, q, rated, trace, wins, f) ==
    /\ wins \in SUBSET Hit(trace) /\ Hit(trace) \in SUBSET Bytes
    /\ f \in Seq(Fields) /\ Len(f) = Len(e) /\ f /= <<>>
    /\ \A k \in 1 .. Len(e) : Same(f[k], e[k]) /\ Marks(f[k], e[k])
    /\ \A k \in 1 .. Len(e) \ {q} :
          /\ f[k].tc_ref = e[k].tc_ref - Cardinality({b \in wins : rated[b] = k})
          /\ f[k].trace_mini = IF /\ {b \in wins : rated[b] = k} /= {}
                                 /\ e[k].tc_ref =
                                       Cardinality({b \in wins : rated[b] = k})
                              THEN {} ELSE e[k].trace_mini
    /\ f[q].tc_ref = e[q].tc_ref + Cardinality(wins \ {b \in wins : rated[b] = q})
    /\ f[q].trace_mini \in {e[q].trace_mini, Hit(trace)}
    /\ wins = {} => f[q].trace_mini = e[q].trace_mini
    /\ wins /= {} /\ e[q].tc_ref = 0 => f[q].trace_mini = Hit(trace)

LEMMA ScoredIs ==
    ASSUME QueueAssumption, NEW e \in Seq(Fields), NEW q \in 1 .. Len(e),
           NEW rated \in [Bytes -> 0 .. Len(e)], NEW trace \in Trace
    PROVE  ScoreFacts(e, q, rated, trace, Wins(e, rated, q, trace),
                      Scored(e, rated, q, trace))
<1> DEFINE wins == Wins(e, rated, q, trace)
           f == Scored(e, rated, q, trace)
<1>1. wins \in SUBSET Hit(trace) /\ Hit(trace) \in SUBSET Bytes
  BY DEF Wins, Hit
<1> DEFINE from(k) == {b \in wins : rated[b] = k}
           renewed == /\ wins /= {}
                      /\ \/ e[q].tc_ref = 0
                         \/ e[q].tc_ref = 1 /\ rated[Min(wins)] = q
           lose(k) == [e[k] EXCEPT
                          !.tc_ref = @ - Cardinality(from(k)),
                          !.trace_mini = IF /\ from(k) /= {}
                                            /\ e[k].tc_ref = Cardinality(from(k))
                                         THEN {} ELSE @]
           win == [e[q] EXCEPT !.tc_ref = @ + Cardinality(wins \ from(q)),
                               !.trace_mini = IF renewed THEN Hit(trace) ELSE @]
<1>2. f = [k \in DOMAIN e |-> IF k = q THEN win ELSE lose(k)]
  BY DEF Scored
<1>3. \A S \in SUBSET Bytes : Cardinality(S) \in Nat
  BY BytesFinite
<1>4. DOMAIN e = 1 .. Len(e) /\ Len(e) \in Nat
  OBVIOUS
<1>5. ASSUME NEW k \in 1 .. Len(e), k /= q
      PROVE  /\ f[k] \in Fields /\ Same(f[k], e[k]) /\ Marks(f[k], e[k])
             /\ f[k].tc_ref = e[k].tc_ref - Cardinality(from(k))
             /\ f[k].trace_mini = IF from(k) /= {} /\ e[k].tc_ref = Cardinality(from(k))
                                  THEN {} ELSE e[k].trace_mini
  <2>1. e[k] \in Fields
    OBVIOUS
  <2>2. e[k].tc_ref \in Int /\ e[k].trace_mini \in SUBSET Bytes
    BY <2>1 DEF Fields
  <2>3. from(k) \in SUBSET Bytes
    BY <1>1
  <2>4. PICK x \in Int : x = e[k].tc_ref - Cardinality(from(k))
    <3>1. PICK m \in Int : m = e[k].tc_ref
      BY <2>2
    <3>2. PICK n \in Nat : n = Cardinality(from(k))
      BY <1>3, <2>3
    <3>3. m - n \in Int
      OBVIOUS
    <3>4. QED BY <3>1, <3>2, <3>3
  <2>5. PICK y \in SUBSET Bytes :
          y = IF from(k) /= {} /\ e[k].tc_ref = Cardinality(from(k))
              THEN {} ELSE e[k].trace_mini
    BY <2>2
  <2>6. f[k] = lose(k)
    BY <1>2, <1>4, <1>5, Zenon
  <2>7. f[k] = [e[k] EXCEPT !.tc_ref = x, !.trace_mini = y]
    BY <2>4, <2>5, <2>6, Zenon
  <2>8. PICK r \in Fields : r = e[k]
    BY <2>1
  <2>a. PICK t : t = f[k]
    OBVIOUS
  <2>9. t = [r EXCEPT !.tc_ref = x, !.trace_mini = y]
    BY <2>7, <2>8, <2>a
  <2>10. t \in Fields /\ Same(t, r) /\ Marks(t, r) /\ t.tc_ref = x /\ t.trace_mini = y
    BY <2>9 DEF Fields, Same, Marks
  <2>11. QED BY <2>4, <2>5, <2>8, <2>a, <2>10
<1>6. /\ f[q] \in Fields /\ Same(f[q], e[q]) /\ Marks(f[q], e[q])
      /\ f[q].tc_ref = e[q].tc_ref + Cardinality(wins \ from(q))
      /\ f[q].trace_mini = IF renewed THEN Hit(trace) ELSE e[q].trace_mini
  <2>1. e[q] \in Fields
    OBVIOUS
  <2>2. e[q].tc_ref \in Int /\ e[q].trace_mini \in SUBSET Bytes
    BY <2>1 DEF Fields
  <2>3. wins \ from(q) \in SUBSET Bytes
    BY <1>1
  <2>4. PICK x \in Int : x = e[q].tc_ref + Cardinality(wins \ from(q))
    <3>1. PICK m \in Int : m = e[q].tc_ref
      BY <2>2
    <3>2. PICK n \in Nat : n = Cardinality(wins \ from(q))
      BY <1>3, <2>3
    <3>3. m + n \in Int
      OBVIOUS
    <3>4. QED BY <3>1, <3>2, <3>3
  <2>5. PICK y \in SUBSET Bytes : y = IF renewed THEN Hit(trace) ELSE e[q].trace_mini
    BY <1>1, <2>2
  <2>6. f[q] = win
    BY <1>2, <1>4, Zenon
  <2>7. f[q] = [e[q] EXCEPT !.tc_ref = x, !.trace_mini = y]
    BY <2>4, <2>5, <2>6, Zenon
  <2>8. PICK r \in Fields : r = e[q]
    BY <2>1
  <2>a. PICK t : t = f[q]
    OBVIOUS
  <2>9. t = [r EXCEPT !.tc_ref = x, !.trace_mini = y]
    BY <2>7, <2>8, <2>a
  <2>10. t \in Fields /\ Same(t, r) /\ Marks(t, r) /\ t.tc_ref = x /\ t.trace_mini = y
    BY <2>9 DEF Fields, Same, Marks
  <2>11. QED BY <2>4, <2>5, <2>8, <2>a, <2>10
<1> HIDE DEF lose, win, f
<1>7. f \in Seq(Fields) /\ Len(f) = Len(e) /\ f /= <<>>
  <2>1. DOMAIN f = 1 .. Len(e) /\ \A k \in 1 .. Len(e) : f[k] \in Fields
    BY <1>2, <1>4, <1>5, <1>6
  <2>2. f = [k \in 1 .. Len(e) |-> f[k]]
    BY <1>2, <1>4
  <2>3. QED BY <1>4, <2>1, <2>2
<1> HIDE DEF wins
<1>8. QED BY <1>1, <1>5, <1>6, <1>7 DEF ScoreFacts, f, wins

Count(rated, k) == Cardinality({b \in Bytes : rated[b] = k})

Counts(e, rated) == \A k \in 1 .. Len(e) : /\ e[k].tc_ref = Count(rated, k)
                                           /\ (e[k].trace_mini = {}) = (e[k].tc_ref = 0)

RatedNow(e, rated, q, trace) ==
    [b \in Bytes |-> IF b \in Wins(e, rated, q, trace) THEN q ELSE rated[b]]

LEMMA ScoredReferences ==
    ASSUME QueueAssumption, NEW e \in Seq(Fields), NEW q \in 1 .. Len(e),
           NEW rated \in [Bytes -> 0 .. Len(e)], NEW trace \in Trace,
           Counts(e, rated)
    PROVE  Counts(Scored(e, rated, q, trace), RatedNow(e, rated, q, trace))
<1>w. PICK wins : wins = Wins(e, rated, q, trace)
  OBVIOUS
<1>f. PICK f : f = Scored(e, rated, q, trace)
  OBVIOUS
<1>n. PICK now : now = [b \in Bytes |-> IF b \in wins THEN q ELSE rated[b]]
  OBVIOUS
<1> DEFINE from(k) == {b \in wins : rated[b] = k}
           had(k) == {b \in Bytes : rated[b] = k}
           has(k) == {b \in Bytes : now[b] = k}
<1>s. ScoreFacts(e, q, rated, trace, wins, f)
  BY <1>w, <1>f, ScoredIs
<1>c. \A k \in 1 .. Len(e) : /\ e[k].tc_ref = Count(rated, k)
                             /\ (e[k].trace_mini = {}) = (e[k].tc_ref = 0)
  BY DEF Counts
<1>0. wins \in SUBSET Hit(trace) /\ Hit(trace) \in SUBSET Bytes
  BY <1>s DEF ScoreFacts
<1>1. ASSUME NEW k \in 1 .. Len(e), k /= q
      PROVE  f[k].tc_ref = Count(now, k) /\ (f[k].trace_mini = {}) = (f[k].tc_ref = 0)
  <2>1. has(k) = had(k) \ from(k) /\ from(k) \in SUBSET Bytes
        /\ had(k) \in SUBSET Bytes /\ had(k) \cap from(k) = from(k)
    BY <1>0, <1>1, <1>n
  <2>2. Cardinality(has(k)) = Cardinality(had(k)) - Cardinality(from(k))
    <3> HIDE DEF has, had, from
    <3>1. IsFiniteSet(had(k))
      BY <2>1, BytesFinite
    <3>2. Cardinality(had(k) \ from(k)) =
             Cardinality(had(k)) - Cardinality(had(k) \cap from(k))
      BY <3>1, FS_Difference
    <3>3. QED BY <2>1, <3>2
  <2>3. PICK m \in Nat : m = Cardinality(had(k))
    BY <2>1, BytesFinite
  <2>4. PICK n \in Nat : n = Cardinality(from(k)) /\ (n = 0 <=> from(k) = {})
    BY <2>1, BytesFinite
  <2>5. e[k].tc_ref = m /\ (e[k].trace_mini = {} <=> m = 0)
    BY <1>c, <2>3 DEF Count
  <2>6. /\ f[k].tc_ref = m - n
        /\ f[k].trace_mini = IF n /= 0 /\ m = n THEN {} ELSE e[k].trace_mini
    <3>1. /\ f[k].tc_ref = e[k].tc_ref - Cardinality(from(k))
          /\ f[k].trace_mini = IF from(k) /= {} /\ e[k].tc_ref = Cardinality(from(k))
                               THEN {} ELSE e[k].trace_mini
      BY <1>1, <1>s DEF ScoreFacts
    <3> HIDE DEF from
    <3>2. QED BY <2>4, <2>5, <3>1
  <2>7. f[k].tc_ref = Count(now, k)
    BY <2>2, <2>3, <2>4, <2>6 DEF Count
  <2>8. f[k].trace_mini = {} <=> m - n = 0
    <3>1. CASE n = 0
      BY <2>5, <2>6, <3>1, SMTT(30)
    <3>2. CASE n /= 0 /\ m = n
      BY <2>6, <3>2
    <3>3. CASE n /= 0 /\ m /= n
      <4>1. from(k) /= {} /\ had(k) /= {}
        BY <2>1, <2>4, <3>3
      <4>2. m /= 0
        BY <2>1, <2>3, <4>1, BytesFinite
      <4>3. QED BY <2>5, <2>6, <3>3, <4>2, SMTT(30)
    <3>4. QED BY <3>1, <3>2, <3>3
  <2>9. (f[k].trace_mini = {}) = (f[k].tc_ref = 0)
    BY <2>6, <2>8
  <2>10. QED BY <2>7, <2>9
<1>2. f[q].tc_ref = Count(now, q) /\ (f[q].trace_mini = {}) = (f[q].tc_ref = 0)
  <2> DEFINE won == wins \ from(q)
  <2>1. /\ has(q) = had(q) \cup won /\ had(q) \cap won = {}
        /\ had(q) \in SUBSET Bytes /\ won \in SUBSET Bytes
    BY <1>0, <1>n
  <2>2. Cardinality(has(q)) = Cardinality(had(q)) + Cardinality(won)
    <3> HIDE DEF has, had, won
    <3>1. IsFiniteSet(had(q)) /\ IsFiniteSet(won) /\ Cardinality(had(q) \cap won) = 0
      BY <2>1, BytesFinite, FS_EmptySet
    <3>2. Cardinality(had(q)) \in Nat /\ Cardinality(won) \in Nat
      BY <2>1, BytesFinite
    <3>3. Cardinality(had(q) \cup won) = Cardinality(had(q)) + Cardinality(won)
                                           - Cardinality(had(q) \cap won)
      BY <3>1, FS_Union
    <3>4. QED BY <2>1, <3>1, <3>2, <3>3
  <2>3. PICK m \in Nat : m = Cardinality(had(q))
    BY <2>1, BytesFinite
  <2>4. PICK n \in Nat : n = Cardinality(won) /\ (n = 0 <=> won = {})
    BY <2>1, BytesFinite
  <2>5. e[q].tc_ref = m /\ (e[q].trace_mini = {} <=> m = 0)
    BY <1>c, <2>3 DEF Count
  <2>6. f[q].tc_ref = m + n
    <3>1. f[q].tc_ref = e[q].tc_ref + Cardinality(won)
      BY <1>s DEF ScoreFacts
    <3> HIDE DEF won
    <3>2. QED BY <2>4, <2>5, <3>1
  <2>7. f[q].tc_ref = Count(now, q)
    BY <2>2, <2>3, <2>4, <2>6 DEF Count
  <2>8. /\ f[q].trace_mini \in {e[q].trace_mini, Hit(trace)}
        /\ wins = {} => f[q].trace_mini = e[q].trace_mini
        /\ wins /= {} /\ m = 0 => f[q].trace_mini = Hit(trace)
    BY <1>s, <2>5 DEF ScoreFacts
  <2>9. f[q].trace_mini = {} <=> m + n = 0
    <3>1. CASE wins = {}
      BY <2>4, <2>5, <2>8, <3>1, SMTT(30)
    <3>2. CASE wins /= {} /\ m = 0
      <4>1. had(q) = {}
        BY <2>1, <2>3, <3>2, BytesFinite
      <4>2. won = wins
        BY <1>0, <4>1
      <4>3. n /= 0 /\ Hit(trace) /= {}
        BY <1>0, <2>4, <3>2, <4>2
      <4>4. QED BY <2>8, <3>2, <4>3
    <3>3. CASE wins /= {} /\ m /= 0
      <4>1. Hit(trace) /= {}
        BY <1>0, <3>3
      <4>2. f[q].trace_mini /= {} /\ m + n /= 0
        BY <2>5, <2>8, <3>3, <4>1, SMTT(30)
      <4>3. QED BY <4>2
    <3>4. QED BY <3>1, <3>2, <3>3
  <2>10. (f[q].trace_mini = {}) = (f[q].tc_ref = 0)
    BY <2>6, <2>9
  <2>11. QED BY <2>7, <2>10
<1>3. Len(f) = Len(e)
  BY <1>s DEF ScoreFacts
<1>4. Counts(f, now)
  BY <1>1, <1>2, <1>3 DEF Counts
<1>5. now = RatedNow(e, rated, q, trace)
  BY <1>w, <1>n DEF RatedNow
<1>6. QED BY <1>f, <1>4, <1>5

LEMMA UpdateDoes ==
    ASSUME QueueAssumption, NEW e \in Seq(Fields), NEW q \in 1 .. Len(e),
           NEW trace \in Trace, top_rated \in [Bytes -> 0 .. Len(e)],
           score_changed \in BOOLEAN, update_bitmap_score(e, q, trace)
    PROVE  \E wins :
              /\ wins = Wins(e, top_rated, q, trace)
              /\ queue' = Scored(e, top_rated, q, trace)
              /\ ScoreFacts(e, q, top_rated, trace, wins, queue')
              /\ top_rated' = [b \in Bytes |-> IF b \in wins THEN q ELSE top_rated[b]]
              /\ top_rated' \in [Bytes -> 0 .. Len(e)]
              /\ score_changed' = (score_changed \/ wins /= {})
              /\ score_changed' \in BOOLEAN
<1> DEFINE wins == Wins(e, top_rated, q, trace)
<1>1. /\ queue' = Scored(e, top_rated, q, trace)
      /\ top_rated' = [b \in Bytes |-> IF b \in wins THEN q ELSE top_rated[b]]
      /\ score_changed' = (score_changed \/ wins /= {})
  BY DEF update_bitmap_score, Changed
<1>2. ScoreFacts(e, q, top_rated, trace, wins, Scored(e, top_rated, q, trace))
  BY ScoredIs
<1>3. ScoreFacts(e, q, top_rated, trace, wins, queue')
  BY <1>1, <1>2
<1>4. q \in 0 .. Len(e)
  OBVIOUS
<1>5. top_rated' \in [Bytes -> 0 .. Len(e)]
  BY <1>1, <1>4
<1>6. score_changed' \in BOOLEAN
  BY <1>1, Zenon
<1> HIDE DEF wins
<1>7. QED BY <1>1, <1>3, <1>5, <1>6 DEF wins

\* What the entry of calibrate_case does to the entries e.
CalibrateFacts(e, q, input, caller) ==
    /\ \E r \in Fields :
          /\ queue' = [e EXCEPT ![q] = r] /\ r.cal_failed > 0
          /\ r.file = e[q].file /\ r.len = e[q].len
          /\ r.exec_cksum = e[q].exec_cksum /\ r.exec_us = e[q].exec_us
          /\ Marks(r, e[q]) /\ Refs(r, e[q])
    /\ queue' \in Seq(Fields) /\ Len(queue') = Len(e) /\ queue' /= <<>>
    /\ cal' \in Calibration /\ cal'.q = q /\ cal'.caller = caller
    /\ cal'.input = input /\ cal'.cycle = 0 /\ cal'.max > 0
    /\ pc' = "calibrate"

LEMMA CalibrateCaseDoes ==
    ASSUME QueueAssumption, NEW e \in Seq(Fields), NEW q \in 1 .. Len(e),
           NEW input \in Inputs, NEW trace \in Trace,
           NEW caller \in {"dry", "retry", "save"},
           calibrate_case(e, q, input, trace, caller)
    PROVE  CalibrateFacts(e, q, input, caller)
<1>1. PICK r0 \in Fields : r0 = e[q]
  BY SMTT(30)
<1>2. PICK n \in Nat : n = r0.cal_failed
  BY DEF Fields
<1>3. PICK m \in Nat : m = n + 1 /\ m > 0
  OBVIOUS
<1>4. PICK r : r = [r0 EXCEPT !.cal_failed = m]
  OBVIOUS
<1>5. /\ r \in Fields /\ r.cal_failed = m /\ Marks(r, r0) /\ Refs(r, r0)
      /\ r.file = r0.file /\ r.len = r0.len
      /\ r.exec_cksum = r0.exec_cksum /\ r.exec_us = r0.exec_us
  BY <1>4 DEF Fields, Marks, Refs
<1>6. queue' = [e EXCEPT ![q] = r]
  <2>1. queue' = [e EXCEPT ![q] = [e[q] EXCEPT !.cal_failed = @ + 1]]
    BY DEF calibrate_case
  <2>2. QED BY <1>1, <1>2, <1>3, <1>4, <2>1, Zenon
<1>7. queue' \in Seq(Fields) /\ Len(queue') = Len(e) /\ queue' /= <<>>
  <2>1. PICK f : f = queue'
    OBVIOUS
  <2>2. f \in Seq(Fields) /\ Len(f) = Len(e) /\ f /= <<>>
    BY <1>5, <1>6, <2>1, Put
  <2>3. QED BY <2>1, <2>2
<1>8. PICK c : c = cal'
  OBVIOUS
<1>9. /\ c \in Calibration /\ c.q = q /\ c.caller = caller
      /\ c.input = input /\ c.cycle = 0 /\ c.max > 0 /\ c.fault = "NONE"
  <2>1. NoTrace \in Trace /\ q \in Nat /\ CalCycles \in Nat /\ CalCycles > 0
    BY SMTT(30) DEF NoTrace, Trace, QueueAssumption
  <2>2. PICK first_run \in BOOLEAN : first_run = (e[q].exec_cksum = NoTrace)
    OBVIOUS
  <2>3. PICK first \in Trace :
           first = IF e[q].exec_cksum = NoTrace THEN NoTrace ELSE trace
    BY <2>1
  <2>4. c = [NoCal EXCEPT !.q = q, !.caller = caller, !.input = input, !.max = CalCycles,
                          !.first_run = first_run, !.first = first]
    BY <1>8, <2>2, <2>3, Zenon DEF calibrate_case
  <2>5. c = [q |-> q, caller |-> caller, input |-> input, cycle |-> 0,
             max |-> CalCycles, first |-> first, last |-> NoTrace,
             first_run |-> first_run, new_bits |-> 0, var |-> FALSE, fault |-> "NONE"]
    BY <2>4 DEF NoCal
  <2>6. QED BY <2>1, <2>5 DEF Calibration
<1>10. pc' = "calibrate"
  BY DEF calibrate_case
<1>11. \E s \in Fields :
          /\ queue' = [e EXCEPT ![q] = s] /\ s.cal_failed > 0
          /\ s.file = e[q].file /\ s.len = e[q].len
          /\ s.exec_cksum = e[q].exec_cksum /\ s.exec_us = e[q].exec_us
          /\ Marks(s, e[q]) /\ Refs(s, e[q])
  BY <1>1, <1>3, <1>5, <1>6
<1>12. QED BY <1>7, <1>8, <1>9, <1>10, <1>11 DEF CalibrateFacts

LEMMA CalibrateScoreDoes ==
    ASSUME QueueAssumption, Types, Control, CalibrateScore, UNCHANGED target
    PROVE  /\ Types' /\ MarksKept
           /\ UNCHANGED <<stop_soon, queue_cur, needs_write, in_buf, virgin_bits>>
           /\ pc = "calibrate" /\ cal'.q = cal.q /\ cal'.caller = cal.caller
           /\ cal'.input = cal.input /\ cal'.max > 0 /\ pc' = "calibrated"
           /\ cal.cycle > 0 /\ cal'.cycle = cal.cycle /\ cal'.last = cal.last
           /\ \E e \in Seq(Fields), r \in Fields :
                 /\ e = [queue EXCEPT ![cal.q] = r]
                 /\ r.exec_us /= 0 /\ r.cal_failed = 0
                 /\ r.file = queue[cal.q].file /\ r.len = queue[cal.q].len
                 /\ r.exec_cksum = queue[cal.q].exec_cksum
                 /\ Marks(r, queue[cal.q]) /\ Refs(r, queue[cal.q])
                 /\ update_bitmap_score(e, cal.q, cal.last)
<1>1. /\ cal.q \in 1 .. Len(queue) /\ cal \in Calibration /\ cal.max > 0
      /\ pc = "calibrate" /\ queue \in Seq(Fields) /\ Len(queue) \in Nat
  <2>1. pc = "calibrate"
    BY DEF CalibrateScore
  <2>2. cal.q > 0 /\ cal.max > 0
    BY <2>1 DEF Control
  <2>3. cal \in Calibration /\ cal.q <= Len(queue)
    BY DEF Types
  <2>4. cal.q \in Nat
    BY <2>3 DEF Calibration
  <2>5. Len(queue) \in Nat /\ queue \in Seq(Fields)
    BY EntryTypes
  <2>6. cal.q \in 1 .. Len(queue)
    BY <2>2, <2>3, <2>4, <2>5, SMTT(30)
  <2>7. QED BY <2>1, <2>2, <2>3, <2>5, <2>6
<1>2. PICK us \in Speeds :
         update_bitmap_score([queue EXCEPT ![cal.q].exec_us = us,
                                           ![cal.q].cal_failed = 0], cal.q, cal.last)
  BY DEF CalibrateScore
<1>3. UNCHANGED <<virgin_bits, faults, queued_favored, pending_favored,
                   pending_not_fuzzed, var_bytes, cycle, subseq_tmouts, stop_soon,
                   stage>>
  BY DEF CalibrateScore
<1>4. /\ UNCHANGED <<virgin_tmout, virgin_crash, unique_hangs, unique_crashes>>
      /\ UNCHANGED <<queue_cur, use_splicing, prev_queued>>
      /\ UNCHANGED <<in_buf, left, needs_write, splice_cycle>>
  BY <1>3 DEF faults, cycle, stage
<1>5. PICK q \in 1 .. Len(queue) : q = cal.q
  BY <1>1
<1>6. PICK r0 \in Fields : r0 = queue[q]
  BY <1>1, SMTT(30)
<1>7. PICK r : r = [r0 EXCEPT !.exec_us = us, !.cal_failed = 0]
  OBVIOUS
<1>8. /\ r \in Fields /\ r.exec_us /= 0 /\ r.cal_failed = 0 /\ Marks(r, r0)
      /\ Refs(r, r0) /\ r.file = r0.file /\ r.len = r0.len
      /\ r.exec_cksum = r0.exec_cksum
  <2>1. us \in Nat /\ us /= 0
    BY DEF QueueAssumption
  <2>2. QED BY <1>7, <2>1 DEF Fields, Marks, Refs
<1>9. PICK e : e = [queue EXCEPT ![q] = r]
  OBVIOUS
<1>10. e \in Seq(Fields) /\ Len(e) = Len(queue) /\ e[q] = r
       /\ \A k \in 1 .. Len(queue) : k /= q => e[k] = queue[k]
  BY <1>1, <1>8, <1>9, Put
<1>11. e = [queue EXCEPT ![cal.q].exec_us = us, ![cal.q].cal_failed = 0]
  BY <1>1, <1>5, <1>6, <1>7, <1>9
<1>12. update_bitmap_score(e, cal.q, cal.last)
  BY <1>2, <1>11
<1>13. /\ cal.last \in Trace /\ top_rated \in [Bytes -> 0 .. Len(e)]
       /\ score_changed \in BOOLEAN /\ q \in 1 .. Len(e)
  BY <1>1, <1>10 DEF Types, Calibration
<1>14. PICK wins :
          /\ ScoreFacts(e, q, top_rated, cal.last, wins, queue')
          /\ top_rated' \in [Bytes -> 0 .. Len(e)]
          /\ score_changed' \in BOOLEAN
  BY <1>5, <1>10, <1>12, <1>13, UpdateDoes
<1>15. /\ queue' \in Seq(Fields) /\ Len(queue') = Len(queue) /\ queue' /= <<>>
       /\ \A k \in 1 .. Len(queue) : Marks(queue'[k], e[k])
  BY <1>10, <1>14 DEF ScoreFacts
<1>16. \A k \in 1 .. Len(queue) : Marks(queue'[k], queue[k])
  BY <1>6, <1>8, <1>10, <1>15, ZenonT(30) DEF Marks
<1>17. PICK c : c = cal'
  OBVIOUS
<1>18. c = [cal EXCEPT !.fault = IF cal.first_run /\ cal.new_bits = 0
                                 THEN "NOBITS" ELSE "NONE"]
  BY <1>17 DEF CalibrateScore
<1>19. PICK fault \in {"NONE", "NOBITS"} : c = [cal EXCEPT !.fault = fault]
  BY <1>18
<1>20. /\ c \in Calibration /\ c.q = cal.q /\ c.caller = cal.caller /\ c.input = cal.input
       /\ c.cycle = cal.cycle /\ c.max = cal.max /\ c.last = cal.last
  BY <1>1, <1>19, CalibrationFails, SMTT(30)
<1>21. cal.cycle > 0
  <2>1. cal.cycle >= cal.max
    BY DEF CalibrateScore
  <2>2. cal.cycle \in Nat /\ cal.max \in Nat
    BY <1>1 DEF Calibration
  <2>3. QED BY <1>1, <2>1, <2>2, SMTT(30)
<1>22. pc' = "calibrated"
  BY DEF CalibrateScore
<1>23. Types'
  BY <1>1, <1>3, <1>4, <1>10, <1>14, <1>15, <1>17, <1>20, <1>22 DEF Types, Locations
<1>24. MarksKept
  BY <1>3, <1>15, <1>16 DEF MarksKept
<1>25. \E f \in Seq(Fields), s \in Fields :
          /\ f = [queue EXCEPT ![cal.q] = s]
          /\ s.exec_us /= 0 /\ s.cal_failed = 0
          /\ s.file = queue[cal.q].file /\ s.len = queue[cal.q].len
          /\ s.exec_cksum = queue[cal.q].exec_cksum
          /\ Marks(s, queue[cal.q]) /\ Refs(s, queue[cal.q])
          /\ update_bitmap_score(f, cal.q, cal.last)
  BY <1>5, <1>6, <1>8, <1>9, <1>10, <1>12
<1>26. QED BY <1>1, <1>3, <1>4, <1>17, <1>20, <1>21, <1>22, <1>23, <1>24, <1>25

\* Actions that leave all entries alone.
LEMMA NoEntry ==
    ASSUME UNCHANGED <<queue, scores, pending_not_fuzzed>>
    PROVE  /\ RowsKept /\ RefsKept /\ MarksKept /\ UNCHANGED score_changed
           /\ UNCHANGED <<top_rated, queued_favored, pending_favored>>
  BY DEF RowsKept, RefsKept, MarksKept, Same, Refs, Marks, scores

LEMMA QuietDoes ==
    ASSUME QueueAssumption, Types, UNCHANGED target,
           Skip \/ Splice \/ FuzzEnd \/ NextEntry
    PROVE  /\ Types' /\ RowsKept /\ RefsKept /\ MarksKept
           /\ UNCHANGED <<queue, virgin_bits, stop_soon, cal, score_changed, in_buf,
                          needs_write, top_rated>>
           /\ \/ pc = "fuzz" /\ pc' = "next" /\ UNCHANGED queue_cur
              \/ pc = "havoc" /\ pc' \in {"havoc", "abandon", "fatal"} /\ UNCHANGED queue_cur
              \/ pc = "next" /\ pc' \in {"end", "loop"}
<1>1. /\ UNCHANGED <<queue, virgin_bits, faults, scores, pending_not_fuzzed, var_bytes>>
      /\ UNCHANGED <<use_splicing, prev_queued, subseq_tmouts, stop_soon, cal, in_buf,
                     needs_write>>
  BY DEF Skip, Splice, FuzzEnd, NextEntry, cycle, stage
<1>2. /\ UNCHANGED <<virgin_tmout, virgin_crash, unique_hangs, unique_crashes>>
      /\ UNCHANGED <<top_rated, score_changed, queued_favored, pending_favored>>
  BY <1>1 DEF faults, scores
<1>3. RowsKept /\ RefsKept /\ MarksKept
  BY <1>1, NoEntry
<1>4. /\ left' \in Nat /\ splice_cycle' \in 0 .. SpliceCycles
      /\ queue_cur' \in 0 .. Len(queue)
      /\ \/ pc = "fuzz" /\ pc' = "next" /\ UNCHANGED queue_cur
         \/ pc = "havoc" /\ pc' \in {"havoc", "abandon", "fatal"} /\ UNCHANGED queue_cur
         \/ pc = "next" /\ pc' \in {"end", "loop"}
  <2>1. left \in Nat /\ splice_cycle \in 0 .. SpliceCycles /\ queue_cur \in 0 .. Len(queue)
        /\ SpliceCycles \in Nat /\ HavocRuns \in Nat /\ Len(queue) \in Nat
    BY EntryTypes DEF Types, QueueAssumption
  <2>2. CASE Skip
    BY <2>1, <2>2 DEF Skip, cycle, stage
  <2>3. CASE Splice
    <3>1. /\ left' \in Nat /\ pc = "havoc" /\ pc' \in {"havoc", "fatal"}
          /\ UNCHANGED queue_cur
      BY <2>1, <2>3 DEF Splice, cycle
    <3>2. splice_cycle' = splice_cycle + 1 /\ splice_cycle < SpliceCycles
      BY <2>3 DEF Splice, MaySplice
    <3>3. QED BY <2>1, <3>1, <3>2, SMTT(30)
  <2>4. CASE FuzzEnd
    BY <2>1, <2>4 DEF FuzzEnd, cycle, stage
  <2>5. CASE NextEntry
    <3>1. /\ UNCHANGED <<left, splice_cycle>> /\ pc = "next" /\ pc' \in {"end", "loop"}
          /\ queue_cur' = IF stop_soon THEN queue_cur
                          ELSE IF queue_cur < Len(queue) THEN queue_cur + 1 ELSE 0
      BY <2>5 DEF NextEntry, stage
    <3>2. QED BY <2>1, <3>1, SMTT(30)
  <2>6. QED BY <2>2, <2>3, <2>4, <2>5
<1>5. Types'
  <2>1. pc' \in Locations
    BY <1>4 DEF Locations
  <2>2. QED BY <1>1, <1>2, <1>4, <2>1 DEF Types
<1>6. QED BY <1>1, <1>2, <1>3, <1>4, <1>5

LEMMA InterruptDoes ==
    ASSUME QueueAssumption, Types, Interrupt
    PROVE  /\ Types' /\ RowsKept /\ RefsKept /\ MarksKept /\ stop_soon'
           /\ UNCHANGED <<target, queue, virgin_bits, cal, score_changed, in_buf,
                          needs_write, top_rated, queue_cur, pc, queued_favored,
                          pending_favored, pending_not_fuzzed>>
<1>1. /\ UNCHANGED <<target, queue, virgin_bits, faults, scores, pending_not_fuzzed>>
      /\ UNCHANGED <<var_bytes, cycle, subseq_tmouts, pc, cal, stage>>
      /\ stop_soon' = TRUE
  BY DEF Interrupt
<1>2. RowsKept /\ RefsKept /\ MarksKept
  BY <1>1, NoEntry
<1>3. QED BY <1>1, <1>2 DEF Types, faults, scores, cycle, stage

\* What follows a calibration.
LEMMA CalibratedDoes ==
    ASSUME QueueAssumption, Types, Control, pc = "calibrated"
    PROVE  /\ cal.q \in 1 .. Len(queue) /\ cal.input \in Inputs
           /\ \E r \in Fields :
                 /\ Calibrated = [queue EXCEPT ![cal.q] = r]
                 /\ Same(r, queue[cal.q]) /\ Marks(r, queue[cal.q]) /\ Refs(r, queue[cal.q])
<1>1. /\ cal.q \in 1 .. Len(queue) /\ cal \in Calibration /\ cal.input \in Inputs
      /\ queue \in Seq(Fields)
  <2>1. cal.q > 0 /\ cal.input \in Inputs
    BY DEF Control
  <2>2. cal \in Calibration /\ cal.q <= Len(queue)
    BY DEF Types
  <2>3. cal.q \in Nat
    BY <2>2 DEF Calibration
  <2>4. Len(queue) \in Nat /\ queue \in Seq(Fields)
    BY EntryTypes
  <2>5. QED BY <2>1, <2>2, <2>3, <2>4
<1>2. PICK r0 \in Fields : r0 = queue[cal.q]
  BY <1>1, SMTT(30)
<1>3. r0.has_new_cov \in BOOLEAN /\ r0.var_behavior \in BOOLEAN
  BY DEF Fields
<1>4. cal.var \in BOOLEAN
  BY <1>1 DEF Calibration
<1>5. PICK new : new = (r0.has_new_cov \/ cal.new_bits = 2)
  OBVIOUS
<1>6. PICK varies : varies = (r0.var_behavior \/ cal.var)
  OBVIOUS
<1>7. new \in BOOLEAN /\ varies \in BOOLEAN
  BY <1>3, <1>4, <1>5, <1>6, Zenon
<1>8. PICK r : r = [r0 EXCEPT !.has_new_cov = new, !.var_behavior = varies]
  OBVIOUS
<1>9. r \in Fields /\ Same(r, r0) /\ Marks(r, r0) /\ Refs(r, r0)
  BY <1>7, <1>8 DEF Fields, Same, Marks, Refs
<1>10. Calibrated = [queue EXCEPT ![cal.q] = r]
  <2>1. Calibrated = [queue EXCEPT ![cal.q].has_new_cov = new,
                                   ![cal.q].var_behavior = varies]
    BY <1>1, <1>2, <1>5, <1>6 DEF Calibrated
  <2>2. QED BY <1>1, <1>2, <1>8, <2>1
<1>11. QED BY <1>1, <1>2, <1>9, <1>10

LEMMA AfterCalibrationDoes ==
    ASSUME QueueAssumption, Types, Control, UNCHANGED target, AfterDryRun \/ AfterRetry
    PROVE  /\ Types' /\ RowsKept /\ RefsKept /\ MarksKept
           /\ UNCHANGED <<virgin_bits, stop_soon, score_changed, in_buf, needs_write,
                          top_rated, queue_cur>>
           /\ pc = "calibrated" /\ cal'.caller = "none"
           /\ \/ /\ cal.caller = "dry"
                 /\ \/ pc' = "start" /\ stop_soon
                    \/ pc' \in {"dry", "fatal"} /\ cal'.q = cal.q
              \/ /\ cal.caller = "retry"
                 /\ \/ pc' = "abandon"
                    \/ pc' = "trim" /\ cal.fault = "NONE" /\ ~stop_soon
<1>1. pc = "calibrated" /\ queue' = Calibrated
  BY DEF AfterDryRun, AfterRetry
<1>2. PICK r \in Fields :
         /\ queue' = [queue EXCEPT ![cal.q] = r]
         /\ Same(r, queue[cal.q]) /\ Marks(r, queue[cal.q]) /\ Refs(r, queue[cal.q])
  BY <1>1, CalibratedDoes
<1>3. cal.q \in 1 .. Len(queue)
  BY <1>1, CalibratedDoes
<1>4. /\ queue' \in Seq(Fields) /\ Len(queue') = Len(queue) /\ queue' /= <<>>
      /\ RowsKept /\ \A k \in 1 .. Len(queue) : Marks(queue'[k], queue[k])
      /\ \A k \in 1 .. Len(queue) : Refs(queue'[k], queue[k])
  BY <1>2, <1>3, PutKeeps
<1>5. UNCHANGED <<virgin_bits, faults, scores, pending_not_fuzzed, var_bytes,
                   cycle, subseq_tmouts, stop_soon, stage>>
  BY DEF AfterDryRun, AfterRetry
<1>6. /\ UNCHANGED <<virgin_tmout, virgin_crash, unique_hangs, unique_crashes>>
      /\ UNCHANGED <<top_rated, score_changed, queued_favored, pending_favored>>
      /\ UNCHANGED <<queue_cur, use_splicing, prev_queued>>
      /\ UNCHANGED <<in_buf, left, needs_write, splice_cycle>>
  BY <1>5 DEF faults, scores, cycle, stage
<1>7. RefsKept /\ MarksKept
  BY <1>4, <1>5, <1>6 DEF RefsKept, MarksKept
<1>8. NoTrace \in Trace
  BY DEF NoTrace, Trace
<1>9. ASSUME AfterDryRun
      PROVE  /\ cal' \in Calibration /\ cal'.q <= Len(queue) /\ cal'.caller = "none"
             /\ \/ pc' = "start" /\ stop_soon
                \/ pc' \in {"dry", "fatal"} /\ cal'.q = cal.q
             /\ cal.caller = "dry"
  <2>1. PICK c : c = cal'
    OBVIOUS
  <2>2. PICK q \in Nat : q = IF stop_soon THEN 0 ELSE cal.q
    BY <1>3
  <2>3. c = [NoCal EXCEPT !.q = q]
    BY <1>9, <2>1, <2>2 DEF AfterDryRun
  <2>a. c = [q |-> q, caller |-> "none", input |-> NoInput, cycle |-> 0, max |-> 0,
             first |-> NoTrace, last |-> NoTrace, first_run |-> FALSE,
             new_bits |-> 0, var |-> FALSE, fault |-> "NONE"]
    BY <2>3 DEF NoCal
  <2>4. c \in Calibration /\ c.q = q /\ c.caller = "none"
    BY <1>8, <2>a DEF Calibration
  <2>5. q <= Len(queue)
    BY <1>3, <2>2
  <2>6. /\ cal.caller = "dry"
        /\ pc' = IF stop_soon THEN "start"
                 ELSE IF cal.fault \in {"NONE", "NOBITS"} THEN "dry" ELSE "fatal"
    BY <1>9 DEF AfterDryRun
  <2>7. QED BY <2>1, <2>2, <2>4, <2>5, <2>6
<1>10. ASSUME AfterRetry
       PROVE  /\ cal' \in Calibration /\ cal'.q <= Len(queue) /\ cal'.caller = "none"
              /\ \/ pc' = "abandon"
                 \/ pc' = "trim" /\ cal.fault = "NONE" /\ ~stop_soon
              /\ cal.caller = "retry"
  <2>1. /\ cal' = NoCal /\ cal.caller = "retry"
        /\ pc' = IF stop_soon \/ cal.fault /= "NONE" THEN "abandon" ELSE "trim"
    BY <1>10 DEF AfterRetry
  <2>2. NoCal \in Calibration /\ NoCal.q = 0 /\ NoCal.caller = "none"
    BY <1>8 DEF NoCal, Calibration
  <2>3. QED BY <1>3, <2>1, <2>2, SMTT(30)
<1>11. /\ cal' \in Calibration /\ cal'.q <= Len(queue) /\ cal'.caller = "none"
       /\ \/ /\ cal.caller = "dry"
             /\ \/ pc' = "start" /\ stop_soon
                \/ pc' \in {"dry", "fatal"} /\ cal'.q = cal.q
          \/ /\ cal.caller = "retry"
             /\ \/ pc' = "abandon"
                \/ pc' = "trim" /\ cal.fault = "NONE" /\ ~stop_soon
  BY <1>9, <1>10
<1>12. pc' \in Locations
  BY <1>11 DEF Locations
<1>13. Types'
  BY <1>4, <1>5, <1>6, <1>11, <1>12 DEF Types
<1>14. QED BY <1>1, <1>4, <1>5, <1>6, <1>7, <1>11, <1>13

\* The entry that fuzz_one works on.
LEMMA CurrentEntry ==
    ASSUME QueueAssumption, Types, Control,
           pc \in {"fuzz", "trim", "havoc", "abandon", "next"}
    PROVE  /\ queue_cur \in 1 .. Len(queue) /\ Len(queue) \in Nat
           /\ queue[queue_cur] \in Fields /\ cal.caller = "none"
           /\ queue[queue_cur].file \in Inputs
<1>1. queue_cur > 0 /\ cal.caller = "none"
  BY DEF Control
<1>2. queue_cur \in 1 .. Len(queue) /\ Len(queue) \in Nat /\ queue[queue_cur] \in Fields
  <2>1. queue_cur \in 0 .. Len(queue)
    BY DEF Types
  <2>2. Len(queue) \in Nat /\ DOMAIN queue = 1 .. Len(queue)
        /\ \A k \in DOMAIN queue : queue[k] \in Fields
    BY EntryTypes
  <2>3. QED BY <1>1, <2>1, <2>2
<1>3. queue[queue_cur].file /= NoInput
  BY <1>1, <1>2, EntryTypes DEF Control
<1>4. QED BY <1>1, <1>2, <1>3 DEF Fields

LEMMA DryRunDoes ==
    ASSUME QueueAssumption, Types, Control, UNCHANGED target, DryRun
    PROVE  /\ Types' /\ RefsKept /\ MarksKept
           /\ UNCHANGED <<virgin_bits, stop_soon, score_changed, in_buf, needs_write,
                          top_rated, queue_cur>>
           /\ pc = "dry" /\ pc' = "calibrate"
           /\ \E q \in 1 .. Len(queue), r \in Fields :
                 /\ q = cal.q + 1 /\ cal'.q = q /\ cal'.caller = "dry"
                 /\ cal'.input = queue[q].file /\ cal'.input \in Inputs
                 /\ cal'.cycle = 0 /\ cal'.max > 0
                 /\ queue' = [queue EXCEPT ![q] = r]
                 /\ r.file = queue[q].file /\ r.len = queue[q].len /\ r.cal_failed > 0
                 /\ r.exec_cksum = queue[q].exec_cksum /\ r.exec_us = queue[q].exec_us
<1>1. /\ pc = "dry" /\ cal.q < Len(queue)
      /\ calibrate_case(queue, cal.q + 1, queue[cal.q + 1].file, NoTrace, "dry")
  BY DEF DryRun
<1>2. PICK q \in 1 .. Len(queue) : q = cal.q + 1
  <2>1. cal.q \in Nat /\ Len(queue) \in Nat
    BY EntryTypes DEF Types, Calibration
  <2>2. QED BY <1>1, <2>1, SMTT(30)
<1>3. queue[q].file \in Inputs /\ queue[q] \in Fields /\ queue \in Seq(Fields)
      /\ NoTrace \in Trace
  <2>1. cal.caller = "none"
    BY <1>1 DEF Control
  <2>2. queue[q].file /= NoInput /\ queue[q] \in Fields /\ queue \in Seq(Fields)
    BY <1>2, <2>1, EntryTypes DEF Control
  <2>3. QED BY <2>2 DEF Fields, NoTrace, Trace
<1>4. PICK input \in Inputs : input = queue[q].file
  BY <1>3
<1>5. calibrate_case(queue, q, input, NoTrace, "dry")
  BY <1>1, <1>2, <1>4
<1>a. CalibrateFacts(queue, q, input, "dry")
  BY <1>3, <1>5, CalibrateCaseDoes
<1>6. /\ cal' \in Calibration /\ cal'.q = q /\ cal'.caller = "dry"
      /\ cal'.input = input /\ cal'.cycle = 0 /\ cal'.max > 0
      /\ pc' = "calibrate"
  BY <1>a DEF CalibrateFacts
<1>7. PICK r \in Fields :
           /\ queue' = [queue EXCEPT ![q] = r] /\ r.cal_failed > 0
           /\ r.file = queue[q].file /\ r.len = queue[q].len
           /\ r.exec_cksum = queue[q].exec_cksum /\ r.exec_us = queue[q].exec_us
           /\ Marks(r, queue[q]) /\ Refs(r, queue[q])
  BY <1>a DEF CalibrateFacts
<1>8. /\ queue' \in Seq(Fields) /\ Len(queue') = Len(queue) /\ queue' /= <<>>
      /\ \A k \in 1 .. Len(queue) : Marks(queue'[k], queue[k])
      /\ \A k \in 1 .. Len(queue) : Refs(queue'[k], queue[k])
  BY <1>7, PutKeeps
<1>9. UNCHANGED <<virgin_bits, faults, scores, pending_not_fuzzed, var_bytes,
                  cycle, subseq_tmouts, stop_soon, stage>>
  BY DEF DryRun
<1>10. /\ UNCHANGED <<virgin_tmout, virgin_crash, unique_hangs, unique_crashes>>
       /\ UNCHANGED <<top_rated, score_changed, queued_favored, pending_favored>>
       /\ UNCHANGED <<queue_cur, use_splicing, prev_queued>>
       /\ UNCHANGED <<in_buf, left, needs_write, splice_cycle>>
  BY <1>9 DEF faults, scores, cycle, stage
<1>11. RefsKept /\ MarksKept
  BY <1>8, <1>9, <1>10 DEF RefsKept, MarksKept
<1>12. cal'.q <= Len(queue')
  BY <1>6, <1>8
<1>13. Types'
  BY <1>6, <1>8, <1>9, <1>10, <1>12 DEF Types, Locations
<1>14. UNCHANGED <<virgin_bits, stop_soon, score_changed, in_buf, needs_write,
                   top_rated, queue_cur>>
  BY <1>9, <1>10
<1> HIDE DEF DryRun
<1>15. QED BY <1>1, <1>2, <1>4, <1>6, <1>7, <1>11, <1>13, <1>14, ZenonT(30)

LEMMA FuzzOneDoes ==
    ASSUME QueueAssumption, Types, Control, UNCHANGED target, FuzzOne
    PROVE  /\ Types' /\ RefsKept /\ MarksKept
           /\ UNCHANGED <<virgin_bits, stop_soon, score_changed, top_rated, queue_cur>>
           /\ pc = "fuzz" /\ queue_cur \in 1 .. Len(queue)
           /\ in_buf' = queue[queue_cur].file /\ in_buf' \in Inputs /\ ~needs_write'
           /\ \/ /\ UNCHANGED <<queue, cal>>
                 /\ \/ pc' = "abandon"
                    \/ pc' = "trim" /\ queue[queue_cur].cal_failed = 0
              \/ \E r \in Fields :
                 /\ cal'.q = queue_cur /\ cal'.caller = "retry" /\ cal'.input = in_buf'
                 /\ cal'.cycle = 0 /\ cal'.max > 0 /\ pc' = "calibrate"
                 /\ queue' = [queue EXCEPT ![queue_cur] = r]
                 /\ queue[queue_cur].cal_failed /= 0 /\ r.cal_failed > 0
                 /\ r.file = queue[queue_cur].file /\ r.len = queue[queue_cur].len
                 /\ r.exec_cksum = NoTrace /\ r.exec_us = queue[queue_cur].exec_us
<1>1. /\ pc = "fuzz" /\ queue_cur \in 1 .. Len(queue) /\ queue[queue_cur] \in Fields
      /\ queue[queue_cur].file \in Inputs /\ queue \in Seq(Fields)
  <2>1. pc = "fuzz"
    BY DEF FuzzOne
  <2>2. QED BY <2>1, CurrentEntry, EntryTypes
<1>2. /\ in_buf' = queue[queue_cur].file /\ left' = TrimRuns /\ needs_write' = FALSE
      /\ splice_cycle' = 0 /\ subseq_tmouts' = 0
  BY DEF FuzzOne, OpenInput
<1>3. UNCHANGED <<virgin_bits, faults, scores, pending_not_fuzzed, var_bytes,
                  cycle, stop_soon>>
  BY DEF FuzzOne
<1>4. /\ UNCHANGED <<virgin_tmout, virgin_crash, unique_hangs, unique_crashes>>
      /\ UNCHANGED <<top_rated, score_changed, queued_favored, pending_favored>>
      /\ UNCHANGED <<queue_cur, use_splicing, prev_queued>>
  BY <1>3 DEF faults, scores, cycle
<1>5. TrimRuns \in Nat /\ 0 \in 0 .. SpliceCycles
  BY DEF QueueAssumption
<1>6. CASE ~(queue[queue_cur].cal_failed \in 1 .. CalChances - 1)
  <2>1. /\ UNCHANGED <<queue, cal>>
        /\ pc' = IF queue[queue_cur].cal_failed /= 0 THEN "abandon" ELSE "trim"
    BY <1>6 DEF FuzzOne
  <2>2. RefsKept /\ MarksKept
    BY <1>3, <2>1, NoEntry
  <2>3. Types'
    BY <1>1, <1>2, <1>3, <1>4, <1>5, <2>1 DEF Types, Locations
  <2>4. QED BY <1>1, <1>2, <1>3, <1>4, <2>1, <2>2, <2>3
<1>7. CASE queue[queue_cur].cal_failed \in 1 .. CalChances - 1
  <2>1. PICK e : e = [queue EXCEPT ![queue_cur].exec_cksum = NoTrace]
    OBVIOUS
  <2>2. PICK r0 : r0 = [queue[queue_cur] EXCEPT !.exec_cksum = NoTrace]
    OBVIOUS
  <2>3. /\ r0 \in Fields /\ Marks(r0, queue[queue_cur]) /\ Refs(r0, queue[queue_cur])
        /\ r0.exec_cksum = NoTrace
        /\ r0.file = queue[queue_cur].file /\ r0.len = queue[queue_cur].len
        /\ r0.cal_failed = queue[queue_cur].cal_failed
        /\ r0.exec_us = queue[queue_cur].exec_us
    <3>1. NoTrace \in Trace
      BY DEF NoTrace, Trace
    <3>2. QED BY <1>1, <2>2, <3>1, CksumSet, SMTT(30)
  <2>4. e = [queue EXCEPT ![queue_cur] = r0]
    BY <1>1, <2>1, <2>2
  <2>5. /\ e \in Seq(Fields) /\ Len(e) = Len(queue) /\ e[queue_cur] = r0
        /\ \A k \in 1 .. Len(queue) : k /= queue_cur => e[k] = queue[k]
    BY <1>1, <2>3, <2>4, Put
  <2>6. PICK input \in Inputs : input = queue[queue_cur].file
    BY <1>1
  <2>7. calibrate_case(e, queue_cur, input, NoTrace, "retry")
    BY <1>7, <2>1, <2>6 DEF FuzzOne
  <2>a. CalibrateFacts(e, queue_cur, input, "retry")
    <3>1. NoTrace \in Trace /\ queue_cur \in 1 .. Len(e)
      BY <1>1, <2>5 DEF NoTrace, Trace
    <3>2. QED BY <2>5, <2>7, <3>1, CalibrateCaseDoes
  <2>8. /\ cal' \in Calibration /\ cal'.q = queue_cur /\ cal'.caller = "retry"
        /\ cal'.input = input /\ cal'.cycle = 0 /\ cal'.max > 0
        /\ pc' = "calibrate"
    BY <2>a DEF CalibrateFacts
  <2>9. PICK r \in Fields :
             /\ queue' = [e EXCEPT ![queue_cur] = r] /\ r.cal_failed > 0
             /\ r.file = r0.file /\ r.len = r0.len
             /\ r.exec_cksum = NoTrace /\ r.exec_us = r0.exec_us
             /\ Marks(r, r0) /\ Refs(r, r0)
    BY <2>3, <2>5, <2>a DEF CalibrateFacts
  <2>10. queue' = [queue EXCEPT ![queue_cur] = r]
    BY <1>1, <2>4, <2>9
  <2>11. Marks(r, queue[queue_cur]) /\ Refs(r, queue[queue_cur])
    BY <2>3, <2>9 DEF Marks, Refs
  <2>12. /\ queue' \in Seq(Fields) /\ Len(queue') = Len(queue) /\ queue' /= <<>>
         /\ \A k \in 1 .. Len(queue) : Marks(queue'[k], queue[k])
         /\ \A k \in 1 .. Len(queue) : Refs(queue'[k], queue[k])
    BY <1>1, <2>10, <2>11, PutKeeps
  <2>13. RefsKept /\ MarksKept
    BY <1>3, <1>4, <2>12 DEF RefsKept, MarksKept
  <2>14. cal'.q <= Len(queue')
    BY <1>1, <2>8, <2>12
  <2>15. Types'
    BY <1>1, <1>2, <1>3, <1>4, <1>5, <2>8, <2>12, <2>14 DEF Types, Locations
  <2>16. queue[queue_cur].cal_failed /= 0
    BY <1>7
  <2>17. UNCHANGED <<virgin_bits, stop_soon, score_changed, top_rated, queue_cur>>
    BY <1>3, <1>4
  <2>18. /\ cal'.q = queue_cur /\ cal'.caller = "retry" /\ cal'.input = in_buf'
         /\ cal'.cycle = 0 /\ cal'.max > 0 /\ pc' = "calibrate"
    BY <1>2, <2>6, <2>8
  <2>19. /\ r.file = queue[queue_cur].file /\ r.len = queue[queue_cur].len
         /\ r.exec_us = queue[queue_cur].exec_us
    BY <2>3, <2>9
  <2>20. QED BY <1>1, <1>2, <2>9, <2>10, <2>13, <2>15, <2>16, <2>17, <2>18, <2>19
<1>8. QED BY <1>6, <1>7

LEMMA TrimRunDoes ==
    ASSUME QueueAssumption, Types, Control, UNCHANGED target, TrimRun
    PROVE  /\ Types' /\ RefsKept /\ MarksKept
           /\ UNCHANGED <<virgin_bits, stop_soon, score_changed, top_rated, queue_cur, cal>>
           /\ pc = "trim" /\ queue_cur \in 1 .. Len(queue) /\ in_buf \in Inputs
           /\ \/ /\ UNCHANGED <<queue, in_buf, needs_write>>
                 /\ \/ pc' = "trim"
                    \/ pc' = "abandon" /\ stop_soon
              \/ \E cut \in Inputs, r \in Fields :
                 /\ pc' = "trim" /\ in_buf' = cut /\ needs_write'
                 /\ Length[cut] < Length[in_buf] /\ r.len = Length[cut]
                 /\ queue[queue_cur].exec_cksum /= NoTrace =>
                        queue[queue_cur].exec_cksum \in target[cut]
                 /\ queue' = [queue EXCEPT ![queue_cur] = r]
                 /\ r.file = queue[queue_cur].file
                 /\ r.cal_failed = queue[queue_cur].cal_failed
                 /\ r.exec_cksum = queue[queue_cur].exec_cksum
                 /\ r.exec_us = queue[queue_cur].exec_us
<1>1. /\ pc = "trim" /\ queue_cur \in 1 .. Len(queue) /\ queue[queue_cur] \in Fields
      /\ queue \in Seq(Fields) /\ in_buf \in Inputs
  <2>1. pc = "trim"
    BY DEF TrimRun
  <2>2. in_buf \in Inputs
    BY <2>1 DEF Control
  <2>3. QED BY <2>1, <2>2, CurrentEntry, EntryTypes
<1>c. PICK cut \in Cuts[in_buf] : \E run \in Outcomes(cut) :
        IF stop_soon
        THEN pc' = "abandon" /\ UNCHANGED <<queue, in_buf, left, needs_write>>
        ELSE /\ left' = left - 1
             /\ UNCHANGED pc
             /\ IF SameTrace(run.trace)
                THEN /\ queue' = [queue EXCEPT ![queue_cur].len = Length[cut]]
                     /\ in_buf' = cut
                     /\ needs_write' = TRUE
                ELSE UNCHANGED <<queue, in_buf, needs_write>>
  BY DEF TrimRun
<1>2. PICK run \in Outcomes(cut) :
        IF stop_soon
        THEN pc' = "abandon" /\ UNCHANGED <<queue, in_buf, left, needs_write>>
        ELSE /\ left' = left - 1
             /\ UNCHANGED pc
             /\ IF SameTrace(run.trace)
                THEN /\ queue' = [queue EXCEPT ![queue_cur].len = Length[cut]]
                     /\ in_buf' = cut
                     /\ needs_write' = TRUE
                ELSE UNCHANGED <<queue, in_buf, needs_write>>
  BY <1>c
<1>3. UNCHANGED <<virgin_bits, faults, scores, pending_not_fuzzed, var_bytes,
                  cycle, subseq_tmouts, stop_soon, cal, splice_cycle>>
  BY DEF TrimRun
<1>4. /\ UNCHANGED <<virgin_tmout, virgin_crash, unique_hangs, unique_crashes>>
      /\ UNCHANGED <<top_rated, score_changed, queued_favored, pending_favored>>
      /\ UNCHANGED <<queue_cur, use_splicing, prev_queued>>
  BY <1>3 DEF faults, scores, cycle
<1>5. left' \in Nat
  <2>1. left \in Nat /\ left > 0
    BY DEF Types, TrimRun
  <2>2. left' = left \/ left' = left - 1
    BY <1>2
  <2>3. QED BY <2>1, <2>2, SMTT(30)
<1>6. CASE /\ UNCHANGED <<queue, in_buf, needs_write>>
           /\ pc' = "trim" \/ (pc' = "abandon" /\ stop_soon)
  <2>1. RefsKept /\ MarksKept
    BY <1>3, <1>6, NoEntry
  <2>2. Types'
    BY <1>1, <1>3, <1>4, <1>5, <1>6 DEF Types, Locations
  <2>3. QED BY <1>1, <1>3, <1>4, <1>6, <2>1, <2>2
<1>7. CASE /\ UNCHANGED pc /\ run.trace = queue[queue_cur].exec_cksum
           /\ queue' = [queue EXCEPT ![queue_cur].len = Length[cut]]
           /\ in_buf' = cut /\ needs_write' = TRUE
  <2>1. /\ cut \in Inputs /\ Length[cut] \in Nat /\ Length[cut] < Length[in_buf]
    BY <1>1 DEF QueueAssumption
  <2>2. run.trace /= NoTrace => run.trace \in target[cut]
    BY <2>1, OutcomeTypes
  <2>3. PICK r0 \in Fields : r0 = queue[queue_cur]
    BY <1>1
  <2>4. PICK n \in Nat : n = Length[cut]
    BY <2>1
  <2>5. PICK r : r = [r0 EXCEPT !.len = n]
    OBVIOUS
  <2>6. /\ r \in Fields /\ r.len = n /\ r.file = r0.file /\ r.cal_failed = r0.cal_failed
        /\ r.exec_cksum = r0.exec_cksum /\ r.exec_us = r0.exec_us
        /\ Marks(r, r0) /\ Refs(r, r0)
    BY <2>5 DEF Fields, Marks, Refs
  <2>7. queue' = [queue EXCEPT ![queue_cur] = r]
    BY <1>1, <1>7, <2>3, <2>4, <2>5
  <2>8. /\ queue' \in Seq(Fields) /\ Len(queue') = Len(queue) /\ queue' /= <<>>
        /\ \A k \in 1 .. Len(queue) : Marks(queue'[k], queue[k])
        /\ \A k \in 1 .. Len(queue) : Refs(queue'[k], queue[k])
    BY <1>1, <2>3, <2>6, <2>7, PutKeeps
  <2>9. RefsKept /\ MarksKept
    BY <1>3, <1>4, <2>8 DEF RefsKept, MarksKept
  <2>10. Types'
    BY <1>1, <1>3, <1>4, <1>5, <1>7, <2>1, <2>8 DEF Types, Locations
  <2>11. QED BY <1>1, <1>3, <1>4, <1>7, <2>1, <2>2, <2>3, <2>4, <2>6, <2>7, <2>9, <2>10
<1>8. CASE stop_soon
  BY <1>1, <1>2, <1>6, <1>8
<1>9. CASE ~stop_soon /\ ~SameTrace(run.trace)
  <2>1. UNCHANGED <<queue, in_buf, needs_write>> /\ UNCHANGED pc
    BY <1>2, <1>9
  <2>2. /\ UNCHANGED <<queue, in_buf, needs_write>>
        /\ (pc' = "trim" \/ (pc' = "abandon" /\ stop_soon))
    BY <1>1, <2>1
  <2>3. QED BY <1>6, <2>2, Zenon
<1>10. CASE ~stop_soon /\ SameTrace(run.trace)
  BY <1>2, <1>7, <1>10 DEF SameTrace
<1>11. QED BY <1>8, <1>9, <1>10

LEMMA TrimEndDoes ==
    ASSUME QueueAssumption, Types, Control, UNCHANGED target, TrimEnd
    PROVE  /\ Types' /\ MarksKept
           /\ UNCHANGED <<virgin_bits, stop_soon, queue_cur, cal, in_buf, needs_write>>
           /\ pc = "trim" /\ pc' \in {"abandon", "havoc"} /\ queue_cur \in 1 .. Len(queue)
           /\ in_buf \in Inputs
           /\ \E e \in Seq(Fields), r \in Fields :
                 /\ e = [queue EXCEPT ![queue_cur] = r]
                 /\ r.file = IF needs_write THEN in_buf ELSE queue[queue_cur].file
                 /\ r.len = queue[queue_cur].len
                 /\ r.cal_failed = queue[queue_cur].cal_failed
                 /\ r.exec_cksum = queue[queue_cur].exec_cksum
                 /\ r.exec_us = queue[queue_cur].exec_us
                 /\ Marks(r, queue[queue_cur]) /\ Refs(r, queue[queue_cur])
                 /\ \/ /\ needs_write
                       /\ update_bitmap_score(e, queue_cur, queue[queue_cur].exec_cksum)
                    \/ /\ ~needs_write
                       /\ queue' = e /\ UNCHANGED <<top_rated, score_changed>>
<1>1. /\ pc = "trim" /\ queue_cur \in 1 .. Len(queue) /\ queue[queue_cur] \in Fields
      /\ queue \in Seq(Fields) /\ in_buf \in Inputs /\ Len(queue) \in Nat
  <2>1. pc = "trim"
    BY DEF TrimEnd
  <2>2. in_buf \in Inputs
    BY <2>1 DEF Control
  <2>3. QED BY <2>1, <2>2, CurrentEntry, EntryTypes
<1>2. UNCHANGED <<virgin_bits, faults, queued_favored, pending_favored,
                   pending_not_fuzzed, var_bytes, cycle, subseq_tmouts, stop_soon,
                   cal, in_buf, needs_write, splice_cycle>>
  BY DEF TrimEnd
<1>3. /\ UNCHANGED <<virgin_tmout, virgin_crash, unique_hangs, unique_crashes>>
      /\ UNCHANGED <<queue_cur, use_splicing, prev_queued>>
  BY <1>2 DEF faults, cycle
<1>4. left' \in Nat /\ pc' \in {"abandon", "havoc"}
  BY DEF TrimEnd, QueueAssumption
<1>5. PICK q \in 1 .. Len(queue) : q = queue_cur
  BY <1>1
<1>6. PICK r0 \in Fields : r0 = queue[q]
  BY <1>1, SMTT(30)
<1>7. PICK done : done = (r0.trim_done \/ ~stop_soon)
  OBVIOUS
<1>8. done \in BOOLEAN
  <2>1. r0.trim_done \in BOOLEAN
    BY DEF Fields
  <2>2. QED BY <1>7, <2>1, Zenon DEF Types
<1>9. PICK file \in Inputs \cup {NoInput} : file = IF needs_write THEN in_buf ELSE r0.file
  <2>1. r0.file \in Inputs \cup {NoInput}
    BY DEF Fields
  <2>2. QED BY <1>1, <2>1
<1>10. PICK r : r = [r0 EXCEPT !.trim_done = done, !.file = file]
  OBVIOUS
<1>11. /\ r \in Fields /\ Marks(r, r0) /\ Refs(r, r0) /\ r.file = file /\ r.len = r0.len
       /\ r.cal_failed = r0.cal_failed /\ r.exec_cksum = r0.exec_cksum
       /\ r.exec_us = r0.exec_us
  BY <1>8, <1>10 DEF Fields, Marks, Refs
<1>12. PICK e : e = [queue EXCEPT ![q] = r]
  OBVIOUS
<1>13. /\ e \in Seq(Fields) /\ Len(e) = Len(queue) /\ e /= <<>> /\ e[q] = r
       /\ \A k \in 1 .. Len(queue) : k /= q => e[k] = queue[k]
  BY <1>1, <1>11, <1>12, Put, SMTT(30)
<1>14. e = Trimmed
  <2>1. Trimmed = [queue EXCEPT ![q].trim_done = done, ![q].file = file]
    BY <1>5, <1>6, <1>7, <1>9 DEF Trimmed
  <2>2. QED BY <1>1, <1>5, <1>6, <1>10, <1>12, <2>1
<1>15. \/ /\ needs_write
          /\ update_bitmap_score(e, queue_cur, queue[queue_cur].exec_cksum)
       \/ /\ ~needs_write
          /\ queue' = e /\ UNCHANGED <<top_rated, score_changed>>
  BY <1>14 DEF TrimEnd
<1>16. \A k \in 1 .. Len(queue) : Marks(e[k], queue[k])
  BY <1>6, <1>11, <1>13 DEF Marks
<1>17. /\ queue' \in Seq(Fields) /\ Len(queue') = Len(queue) /\ queue' /= <<>>
       /\ \A k \in 1 .. Len(queue) : Marks(queue'[k], queue[k])
       /\ top_rated' \in [Bytes -> 0 .. Len(queue)] /\ score_changed' \in BOOLEAN
  <2>1. top_rated \in [Bytes -> 0 .. Len(queue)] /\ score_changed \in BOOLEAN
    BY DEF Types
  <2>2. CASE /\ ~needs_write
             /\ queue' = e /\ UNCHANGED <<top_rated, score_changed>>
    BY <1>13, <1>16, <2>1, <2>2
  <2>3. CASE update_bitmap_score(e, queue_cur, queue[queue_cur].exec_cksum)
    <3>1. PICK trace \in Trace : trace = queue[queue_cur].exec_cksum
      BY <1>1 DEF Fields
    <3>2. /\ update_bitmap_score(e, q, trace) /\ q \in 1 .. Len(e)
          /\ top_rated \in [Bytes -> 0 .. Len(e)]
      BY <1>5, <1>13, <2>1, <2>3, <3>1
    <3>3. PICK wins :
             /\ ScoreFacts(e, q, top_rated, trace, wins, queue')
             /\ top_rated' \in [Bytes -> 0 .. Len(e)]
             /\ score_changed' \in BOOLEAN
      BY <1>13, <2>1, <3>2, UpdateDoes
    <3>4. /\ queue' \in Seq(Fields) /\ Len(queue') = Len(queue) /\ queue' /= <<>>
          /\ \A k \in 1 .. Len(queue) : Marks(queue'[k], e[k])
      BY <1>13, <3>3 DEF ScoreFacts
    <3>5. \A k \in 1 .. Len(queue) : Marks(queue'[k], queue[k])
      BY <1>16, <3>4 DEF Marks
    <3>6. QED BY <1>13, <3>3, <3>4, <3>5
  <2>4. QED BY <1>15, <2>2, <2>3
<1>18. MarksKept
  BY <1>2, <1>17 DEF MarksKept
<1>19. Types'
  BY <1>1, <1>2, <1>3, <1>4, <1>17 DEF Types, Locations
<1>20. /\ r.file = IF needs_write THEN in_buf ELSE queue[queue_cur].file
       /\ r.len = queue[queue_cur].len
       /\ r.cal_failed = queue[queue_cur].cal_failed
       /\ r.exec_cksum = queue[queue_cur].exec_cksum
       /\ r.exec_us = queue[queue_cur].exec_us
       /\ Marks(r, queue[queue_cur]) /\ Refs(r, queue[queue_cur])
       /\ e = [queue EXCEPT ![queue_cur] = r]
  BY <1>5, <1>6, <1>9, <1>11, <1>12
<1>21. QED BY <1>1, <1>2, <1>3, <1>4, <1>11, <1>13, <1>15, <1>18, <1>19, <1>20

LEMMA AfterSaveDoes ==
    ASSUME QueueAssumption, Types, Control, UNCHANGED target, AfterSave
    PROVE  /\ Types' /\ RefsKept /\ MarksKept
           /\ UNCHANGED <<virgin_bits, stop_soon, score_changed, in_buf, needs_write,
                          top_rated, queue_cur>>
           /\ pc = "calibrated" /\ pc' = "havoc" /\ cal.caller = "save"
           /\ cal' = NoCal /\ cal.q \in 1 .. Len(queue) /\ cal.input \in Inputs
           /\ \E r \in Fields :
                 /\ queue' = [queue EXCEPT ![cal.q] = r]
                 /\ r.file = cal.input /\ r.len = queue[cal.q].len
                 /\ r.cal_failed = queue[cal.q].cal_failed
                 /\ r.exec_cksum = queue[cal.q].exec_cksum
                 /\ r.exec_us = queue[cal.q].exec_us
<1>1. /\ pc = "calibrated" /\ cal.caller = "save" /\ cal' = NoCal /\ pc' = "havoc"
      /\ queue' = [Calibrated EXCEPT ![cal.q].file = cal.input]
      /\ left' = left - 1 + HavocRuns
  BY DEF AfterSave
<1>2. cal.q \in 1 .. Len(queue) /\ cal.input \in Inputs
  BY <1>1, CalibratedDoes
<1>3. PICK r1 \in Fields :
         /\ Calibrated = [queue EXCEPT ![cal.q] = r1]
         /\ Same(r1, queue[cal.q]) /\ Marks(r1, queue[cal.q]) /\ Refs(r1, queue[cal.q])
  BY <1>1, CalibratedDoes
<1>4. queue \in Seq(Fields) /\ Len(queue) \in Nat
  BY EntryTypes
<1>5. PICK input \in Inputs : input = cal.input
  BY <1>2
<1>6. PICK r : r = [r1 EXCEPT !.file = input]
  OBVIOUS
<1>7. /\ r \in Fields /\ Marks(r, r1) /\ Refs(r, r1) /\ r.file = input /\ r.len = r1.len
      /\ r.cal_failed = r1.cal_failed /\ r.exec_cksum = r1.exec_cksum
      /\ r.exec_us = r1.exec_us
  BY <1>6 DEF Fields, Marks, Refs
<1>8. queue' = [queue EXCEPT ![cal.q] = r]
  BY <1>1, <1>2, <1>3, <1>4, <1>5, <1>6
<1>9. /\ Marks(r, queue[cal.q]) /\ Refs(r, queue[cal.q]) /\ r.file = cal.input
      /\ r.len = queue[cal.q].len /\ r.cal_failed = queue[cal.q].cal_failed
      /\ r.exec_cksum = queue[cal.q].exec_cksum /\ r.exec_us = queue[cal.q].exec_us
  BY <1>3, <1>5, <1>7 DEF Same, Marks, Refs
<1>10. /\ queue' \in Seq(Fields) /\ Len(queue') = Len(queue) /\ queue' /= <<>>
       /\ \A k \in 1 .. Len(queue) : Marks(queue'[k], queue[k])
       /\ \A k \in 1 .. Len(queue) : Refs(queue'[k], queue[k])
  BY <1>2, <1>7, <1>8, <1>9, PutKeeps
<1>11. UNCHANGED <<virgin_bits, faults, scores, pending_not_fuzzed, var_bytes,
                   cycle, subseq_tmouts, stop_soon, in_buf, needs_write,
                   splice_cycle>>
  BY DEF AfterSave
<1>12. /\ UNCHANGED <<virgin_tmout, virgin_crash, unique_hangs, unique_crashes>>
       /\ UNCHANGED <<top_rated, score_changed, queued_favored, pending_favored>>
       /\ UNCHANGED <<queue_cur, use_splicing, prev_queued>>
  BY <1>11 DEF faults, scores, cycle
<1>13. RefsKept /\ MarksKept
  BY <1>10, <1>11, <1>12 DEF RefsKept, MarksKept
<1>14. left' \in Nat
  <2>1. left \in Nat /\ HavocRuns \in Nat /\ HavocRuns > 0
    BY SMTT(30) DEF Types, QueueAssumption
  <2>2. QED BY <1>1, <2>1, SMTT(30)
<1>15. cal' \in Calibration /\ cal'.q <= Len(queue')
  <2>1. NoTrace \in Trace
    BY DEF NoTrace, Trace
  <2>2. NoCal \in Calibration /\ NoCal.q = 0
    BY <2>1 DEF NoCal, Calibration
  <2>3. QED BY <1>1, <1>4, <1>10, <2>2
<1>16. Types'
  BY <1>1, <1>10, <1>11, <1>12, <1>14, <1>15 DEF Types, Locations
<1> HIDE DEF AfterSave
<1>17. UNCHANGED <<virgin_bits, stop_soon, score_changed, in_buf, needs_write,
                   top_rated, queue_cur>>
  BY <1>11, <1>12
<1>18. QED BY <1>1, <1>2, <1>7, <1>8, <1>9, <1>13, <1>16, <1>17

LEMMA AbandonDoes ==
    ASSUME QueueAssumption, Types, Control, UNCHANGED target, Abandon
    PROVE  /\ Types' /\ RowsKept /\ RefsKept
           /\ UNCHANGED <<virgin_bits, stop_soon, score_changed, top_rated, queue_cur,
                          cal, queued_favored>>
           /\ pc = "abandon" /\ pc' = "next" /\ ~needs_write'
           /\ queue_cur \in 1 .. Len(queue)
           /\ \/ MarksKept
              \/ \E r \in Fields :
                 /\ queue' = [queue EXCEPT ![queue_cur] = r]
                 /\ ~queue[queue_cur].was_fuzzed /\ r.was_fuzzed
                 /\ r.favored = queue[queue_cur].favored
                 /\ pending_not_fuzzed' = pending_not_fuzzed - 1
                 /\ pending_favored' = IF queue[queue_cur].favored
                                       THEN pending_favored - 1 ELSE pending_favored
<1>1. /\ pc = "abandon" /\ queue_cur \in 1 .. Len(queue) /\ queue[queue_cur] \in Fields
      /\ queue \in Seq(Fields)
  <2>1. pc = "abandon"
    BY DEF Abandon
  <2>2. QED BY <2>1, CurrentEntry, EntryTypes
<1>2. /\ pc' = "next" /\ in_buf' = NoInput /\ left' = 0 /\ needs_write' = FALSE
      /\ splice_cycle' = 0 /\ subseq_tmouts' = 0
      /\ UNCHANGED <<virgin_bits, faults, top_rated, score_changed, queued_favored,
                     var_bytes, cycle, stop_soon, cal>>
  BY DEF Abandon
<1>3. /\ UNCHANGED <<virgin_tmout, virgin_crash, unique_hangs, unique_crashes>>
      /\ UNCHANGED <<queue_cur, use_splicing, prev_queued>>
  BY <1>2 DEF faults, cycle
<1>4. 0 \in 0 .. SpliceCycles
  BY DEF QueueAssumption
<1>5. CASE UNCHANGED <<queue, pending_not_fuzzed, pending_favored>>
  <2>1. RowsKept /\ RefsKept /\ MarksKept
    BY <1>2, <1>5 DEF RowsKept, RefsKept, MarksKept, Same, Refs, Marks
  <2>2. Types'
    BY <1>1, <1>2, <1>3, <1>4, <1>5 DEF Types, Locations
  <2>3. QED BY <1>1, <1>2, <1>3, <2>1, <2>2
<1>6. CASE /\ queue' = [queue EXCEPT ![queue_cur].was_fuzzed = TRUE]
           /\ ~queue[queue_cur].was_fuzzed
           /\ pending_not_fuzzed' = pending_not_fuzzed - 1
           /\ pending_favored' = IF queue[queue_cur].favored
                                 THEN pending_favored - 1 ELSE pending_favored
  <2>1. PICK r0 \in Fields : r0 = queue[queue_cur]
    BY <1>1
  <2>2. PICK r : r = [r0 EXCEPT !.was_fuzzed = TRUE]
    OBVIOUS
  <2>3. /\ r \in Fields /\ r.was_fuzzed = TRUE /\ r.favored = r0.favored
        /\ Same(r, r0) /\ Refs(r, r0)
    BY <2>2 DEF Fields, Same, Refs
  <2>4. queue' = [queue EXCEPT ![queue_cur] = r]
    BY <1>1, <1>6, <2>1, <2>2
  <2>5. /\ queue' \in Seq(Fields) /\ Len(queue') = Len(queue) /\ queue' /= <<>>
        /\ RowsKept /\ \A k \in 1 .. Len(queue) : Refs(queue'[k], queue[k])
    BY <1>1, <2>1, <2>3, <2>4, PutKeeps
  <2>6. RefsKept
    BY <1>2, <2>5 DEF RefsKept
  <2>7. pending_not_fuzzed' \in Int /\ pending_favored' \in Int
    <3>1. pending_not_fuzzed \in Int /\ pending_favored \in Int
      BY DEF Types
    <3>2. QED BY <1>6, <3>1, SMTT(30)
  <2>8. Types'
    BY <1>1, <1>2, <1>3, <1>4, <2>5, <2>7 DEF Types, Locations
  <2>9. QED BY <1>1, <1>2, <1>3, <1>6, <2>1, <2>3, <2>4, <2>5, <2>6, <2>8
<1>7. QED BY <1>5, <1>6 DEF Abandon

LEMMA CrashTypes ==
    ASSUME QueueAssumption, Types, NEW trace \in Trace, SaveCrash(trace)
    PROVE  virgin_crash' \subseteq Bytes \X BOOLEAN /\ unique_crashes' \in 0 .. KeepUnique
<1>1. /\ KeepUnique \in Nat /\ unique_crashes \in 0 .. KeepUnique
      /\ virgin_crash \subseteq Bytes \X BOOLEAN /\ virgin_bits \in [Bytes -> SUBSET Buckets]
  BY DEF Types, QueueAssumption
<1>2. simplify_trace(trace) \subseteq Bytes \X BOOLEAN
  BY <1>1, BitsTypes
<1>3. CASE UNCHANGED <<virgin_crash, unique_crashes>>
  BY <1>1, <1>3
<1>4. CASE /\ ~ (unique_crashes >= KeepUnique)
           /\ virgin_crash' = virgin_crash \cup simplify_trace(trace)
           /\ unique_crashes' = unique_crashes + 1
  <2>1. virgin_crash' \subseteq Bytes \X BOOLEAN
    BY <1>1, <1>2, <1>4
  <2>2. unique_crashes' \in 0 .. KeepUnique
    BY <1>1, <1>4
  <2>3. QED BY <2>1, <2>2
<1>5. QED BY <1>3, <1>4 DEF SaveCrash

LEMMA HangTypes ==
    ASSUME QueueAssumption, Types, NEW input \in Inputs, NEW trace \in Trace,
           SaveHang(input, trace)
    PROVE  /\ virgin_tmout' \subseteq Bytes \X BOOLEAN /\ unique_hangs' \in 0 .. KeepUnique
           /\ virgin_crash' \subseteq Bytes \X BOOLEAN /\ unique_crashes' \in 0 .. KeepUnique
<1>1. /\ KeepUnique \in Nat /\ unique_hangs \in 0 .. KeepUnique
      /\ unique_crashes \in 0 .. KeepUnique /\ virgin_crash \subseteq Bytes \X BOOLEAN
      /\ virgin_tmout \subseteq Bytes \X BOOLEAN /\ virgin_bits \in [Bytes -> SUBSET Buckets]
  BY DEF Types, QueueAssumption
<1>2. simplify_trace(trace) \subseteq Bytes \X BOOLEAN
  BY <1>1, BitsTypes
<1>3. CASE UNCHANGED faults
  BY <1>1, <1>3 DEF faults
<1>4. CASE ~ (unique_hangs >= KeepUnique) /\ ~ (UNCHANGED faults)
  <2>1. virgin_tmout' = virgin_tmout \cup simplify_trace(trace)
    BY <1>4 DEF SaveHang
  <2>2. PICK run \in Outcomes(input) \cup {[fault |-> "TMOUT", trace |-> trace]} :
           /\ unique_hangs' = unique_hangs + (IF run.fault = "TMOUT" THEN 1 ELSE 0)
           /\ IF run.fault = "CRASH" THEN SaveCrash(run.trace)
              ELSE UNCHANGED <<virgin_crash, unique_crashes>>
    BY <1>4 DEF SaveHang
  <2>3. run.trace \in Trace
    BY OutcomeTypes, SMTT(30)
  <2>4. unique_hangs' \in 0 .. KeepUnique
    <3>1. unique_hangs' = unique_hangs \/ unique_hangs' = unique_hangs + 1
      BY <1>1, <2>2
    <3>2. QED BY <1>1, <1>4, <3>1, SMTT(30)
  <2>5. virgin_crash' \subseteq Bytes \X BOOLEAN /\ unique_crashes' \in 0 .. KeepUnique
    <3>1. CASE SaveCrash(run.trace)
      BY <2>3, <3>1, CrashTypes
    <3>2. CASE UNCHANGED <<virgin_crash, unique_crashes>>
      BY <1>1, <3>2
    <3>3. QED BY <2>2, <3>1, <3>2
  <2>6. virgin_tmout' \subseteq Bytes \X BOOLEAN
    BY <1>1, <1>2, <2>1
  <2>7. QED BY <2>4, <2>5, <2>6
<1>5. CASE unique_hangs >= KeepUnique
  BY <1>3, <1>5 DEF SaveHang
<1>6. QED BY <1>3, <1>4, <1>5

\* An execution without anything new leaves the map of new bits as it is.
LEMMA NothingNew ==
    ASSUME QueueAssumption, NEW virgin \in [Bytes -> SUBSET Buckets], NEW trace \in Trace,
           has_new_bits(virgin, trace) = 0
    PROVE  Cleared(virgin, trace) = virgin
<1>1. NewBits(virgin, trace) = {}
  BY DEF has_new_bits
<1>2. 0 \notin Buckets
  BY DEF QueueAssumption
<1>3. \A b \in Bytes : trace[b] \notin virgin[b]
  <2> SUFFICES ASSUME NEW b \in Bytes, trace[b] \in virgin[b] PROVE FALSE
    OBVIOUS
  <2>1. trace[b] /= 0
    BY <1>2
  <2>2. b \in NewBits(virgin, trace)
    BY <2>1 DEF NewBits, Hit
  <2>3. QED BY <1>1, <2>2
<1>4. \A b \in Bytes : virgin[b] \ {trace[b]} = virgin[b]
  BY <1>3
<1>5. QED BY <1>4 DEF Cleared

\* An input that is kept gets an entry at the end of the queue.
FuzzAdds(input, trace, tried, r) ==
    /\ tried \in Seq(Fields) /\ Len(tried) = Len(queue)
    /\ \A k \in 1 .. Len(queue) : /\ Same(tried[k], queue[k]) /\ Marks(tried[k], queue[k])
                                  /\ Refs(tried[k], queue[k])
    /\ Len(queue') = Len(queue) + 1 /\ queue'[Len(queue) + 1] = r
    /\ \A k \in 1 .. Len(queue) : queue'[k] = tried[k]
    /\ r.file = NoInput /\ r.len = Length[input] /\ r.cal_failed > 0
    /\ r.exec_cksum = trace /\ r.exec_us = 0 /\ ~r.was_fuzzed /\ ~r.favored
    /\ r.tc_ref = 0 /\ r.trace_mini = {}
    /\ cal'.q = Len(queue) + 1 /\ cal'.caller = "save" /\ cal'.input = input
    /\ cal'.cycle = 0 /\ cal'.max > 0 /\ pc' = "calibrate"
    /\ pending_not_fuzzed' = pending_not_fuzzed + 1
    /\ virgin_bits' = Cleared(virgin_bits, trace)

LEMMA FuzzRunDoes ==
    ASSUME QueueAssumption, Types, Control, UNCHANGED target, FuzzRun
    PROVE  /\ Types'
           /\ UNCHANGED <<stop_soon, score_changed, top_rated, queue_cur, in_buf,
                          needs_write, queued_favored, pending_favored>>
           /\ pc = "havoc" /\ queue_cur \in 1 .. Len(queue) /\ cal.caller = "none"
           /\ \/ /\ RowsKept /\ RefsKept /\ MarksKept /\ UNCHANGED <<cal, virgin_bits>>
                 /\ pc' \in {"havoc", "abandon"}
              \/ \E input \in Inputs, trace \in Trace, tried \in Seq(Fields), r \in Fields :
                 trace \in target[input] /\ FuzzAdds(input, trace, tried, r)
<1>1. /\ pc = "havoc" /\ queue_cur \in 1 .. Len(queue) /\ queue[queue_cur] \in Fields
      /\ queue \in Seq(Fields) /\ Len(queue) \in Nat /\ cal.caller = "none"
  <2>1. pc = "havoc"
    BY DEF FuzzRun
  <2>2. QED BY <2>1, CurrentEntry, EntryTypes
<1>c. PICK input \in Inputs : \E run \in Outcomes(input) :
        IF stop_soon \/ (run.fault = "TMOUT" /\ subseq_tmouts > TmoutLimit)
        THEN /\ pc' = "abandon"
             /\ queue' = [queue EXCEPT ![queue_cur].mutated = @ \/ ~stop_soon]
             /\ UNCHANGED <<virgin_bits, faults, pending_not_fuzzed, cal, left,
                            subseq_tmouts>>
        ELSE /\ subseq_tmouts' = IF run.fault = "TMOUT" THEN subseq_tmouts + 1 ELSE 0
             /\ save_if_interesting(input, run.fault, run.trace)
  BY DEF FuzzRun
<1>2. PICK run \in Outcomes(input) :
        IF stop_soon \/ (run.fault = "TMOUT" /\ subseq_tmouts > TmoutLimit)
        THEN /\ pc' = "abandon"
             /\ queue' = [queue EXCEPT ![queue_cur].mutated = @ \/ ~stop_soon]
             /\ UNCHANGED <<virgin_bits, faults, pending_not_fuzzed, cal, left,
                            subseq_tmouts>>
        ELSE /\ subseq_tmouts' = IF run.fault = "TMOUT" THEN subseq_tmouts + 1 ELSE 0
             /\ save_if_interesting(input, run.fault, run.trace)
  BY <1>c
<1>3. UNCHANGED <<scores, var_bytes, cycle, stop_soon, in_buf, needs_write,
                  splice_cycle>>
  BY DEF FuzzRun
<1>4. /\ UNCHANGED <<top_rated, score_changed, queued_favored, pending_favored>>
      /\ UNCHANGED <<queue_cur, use_splicing, prev_queued>>
  BY <1>3 DEF scores, cycle
<1>5. /\ run.fault \in {"NONE", "TMOUT", "CRASH"} /\ run.trace \in Trace
      /\ run.fault = "NONE" => run.trace \in target[input]
  BY OutcomeTypes
<1>6. left \in Nat /\ left > 0 /\ subseq_tmouts \in Nat
  BY DEF Types, FuzzRun
<1>7. PICK r0 \in Fields : r0 = queue[queue_cur]
  BY <1>1
<1>8. ASSUME NEW mutated \in BOOLEAN, NEW e, e = [queue EXCEPT ![queue_cur].mutated = mutated]
      PROVE  /\ e \in Seq(Fields) /\ Len(e) = Len(queue) /\ e /= <<>>
             /\ \A k \in 1 .. Len(queue) : /\ Same(e[k], queue[k]) /\ Marks(e[k], queue[k])
                                           /\ Refs(e[k], queue[k])
  <2>1. PICK r : r = [r0 EXCEPT !.mutated = mutated]
    OBVIOUS
  <2>2. r \in Fields /\ Same(r, r0) /\ Marks(r, r0) /\ Refs(r, r0)
    BY <2>1 DEF Fields, Same, Marks, Refs
  <2>3. e = [queue EXCEPT ![queue_cur] = r]
    BY <1>1, <1>7, <1>8, <2>1
  <2>4. /\ e \in Seq(Fields) /\ Len(e) = Len(queue) /\ e /= <<>> /\ e[queue_cur] = r
        /\ \A k \in 1 .. Len(queue) : k /= queue_cur => e[k] = queue[k]
    BY <1>1, <2>2, <2>3, Put
  <2>5. QED BY <1>7, <2>2, <2>4 DEF Same, Marks, Refs
<1>9. CASE stop_soon \/ (run.fault = "TMOUT" /\ subseq_tmouts > TmoutLimit)
  <2>1. /\ pc' = "abandon"
        /\ queue' = [queue EXCEPT ![queue_cur].mutated = @ \/ ~stop_soon]
        /\ UNCHANGED <<virgin_bits, faults, pending_not_fuzzed, cal, left, subseq_tmouts>>
    BY <1>2, <1>9
  <2>2. PICK mutated : mutated = (r0.mutated \/ ~stop_soon)
    OBVIOUS
  <2>3. mutated \in BOOLEAN
    <3>1. r0.mutated \in BOOLEAN
      BY DEF Fields
    <3>2. QED BY <2>2, <3>1, Zenon DEF Types
  <2>4. PICK e : e = queue'
    OBVIOUS
  <2>5. e = [queue EXCEPT ![queue_cur].mutated = mutated]
    BY <1>7, <2>1, <2>2, <2>4
  <2>6. /\ e \in Seq(Fields) /\ Len(e) = Len(queue) /\ e /= <<>>
        /\ \A k \in 1 .. Len(queue) : /\ Same(e[k], queue[k]) /\ Marks(e[k], queue[k])
                                      /\ Refs(e[k], queue[k])
    BY <1>8, <2>3, <2>5
  <2>7. RowsKept /\ RefsKept /\ MarksKept
    BY <1>4, <2>1, <2>4, <2>6 DEF RowsKept, RefsKept, MarksKept
  <2>8. UNCHANGED <<virgin_tmout, virgin_crash, unique_hangs, unique_crashes>>
    BY <2>1 DEF faults
  <2>9. Types'
    BY <1>1, <1>3, <1>4, <2>1, <2>4, <2>6, <2>8 DEF Types, Locations
  <2>10. QED BY <1>1, <1>3, <1>4, <2>1, <2>7, <2>9
<1>10. CASE ~ (stop_soon \/ (run.fault = "TMOUT" /\ subseq_tmouts > TmoutLimit))
  <2>1. PICK tried : tried = [queue EXCEPT ![queue_cur].mutated = TRUE]
    OBVIOUS
  <2>2. PICK hnb : hnb = has_new_bits(virgin_bits, run.trace)
    OBVIOUS
  <2>3. PICK rn : rn = [NewEntry(input) EXCEPT !.has_new_cov = (hnb = 2),
                                               !.exec_cksum = run.trace]
    OBVIOUS
  <2>4. PICK added : added = Append(tried, rn)
    OBVIOUS
  <2>5. /\ virgin_bits' = ClearsBits(run.fault, run.trace)
        /\ IF run.fault = "NONE" /\ hnb /= 0
           THEN /\ pending_not_fuzzed' = Counted(hnb)
                /\ calibrate_case(added, Len(added), input, run.trace, "save")
                /\ UNCHANGED left
           ELSE /\ queue' = tried
                /\ left' = left - 1
                /\ UNCHANGED <<pending_not_fuzzed, cal, pc>>
        /\ CASE run.fault = "TMOUT" -> SaveHang(input, run.trace)
             [] run.fault = "CRASH" -> SaveCrash(run.trace)
                                       /\ UNCHANGED <<virgin_tmout, unique_hangs>>
             [] OTHER -> UNCHANGED faults
    BY <1>2, <1>10, <2>1, <2>2, <2>3, <2>4, Zenon DEF save_if_interesting
  <2>6. subseq_tmouts' \in Nat
    <3>1. subseq_tmouts' = IF run.fault = "TMOUT" THEN subseq_tmouts + 1 ELSE 0
      BY <1>2, <1>10
    <3>2. QED BY <1>6, <3>1
  <2>7. /\ virgin_tmout' \subseteq Bytes \X BOOLEAN /\ unique_hangs' \in 0 .. KeepUnique
        /\ virgin_crash' \subseteq Bytes \X BOOLEAN /\ unique_crashes' \in 0 .. KeepUnique
    <3>1. /\ virgin_tmout \subseteq Bytes \X BOOLEAN /\ unique_hangs \in 0 .. KeepUnique
          /\ virgin_crash \subseteq Bytes \X BOOLEAN
          /\ unique_crashes \in 0 .. KeepUnique
      BY DEF Types
    <3>2. CASE run.fault = "TMOUT"
      <4>1. SaveHang(input, run.trace)
        BY <2>5, <3>2
      <4>2. QED BY <1>5, <4>1, HangTypes
    <3>3. CASE run.fault = "CRASH"
      <4>1. SaveCrash(run.trace) /\ UNCHANGED <<virgin_tmout, unique_hangs>>
        BY <2>5, <3>3
      <4>2. QED BY <1>5, <3>1, <4>1, CrashTypes
    <3>4. CASE run.fault = "NONE"
      <4>1. UNCHANGED faults
        BY <2>5, <3>4
      <4>2. QED BY <3>1, <4>1 DEF faults
    <3>5. QED BY <1>5, <3>2, <3>3, <3>4
  <2>8. /\ tried \in Seq(Fields) /\ Len(tried) = Len(queue) /\ tried /= <<>>
        /\ \A k \in 1 .. Len(queue) : /\ Same(tried[k], queue[k]) /\ Marks(tried[k], queue[k])
                                      /\ Refs(tried[k], queue[k])
    BY <1>8, <2>1
  <2>9. virgin_bits \in [Bytes -> SUBSET Buckets]
    BY DEF Types
  <2>10. CASE ~ (run.fault = "NONE" /\ hnb /= 0)
    <3>1. /\ queue' = tried /\ left' = left - 1
          /\ UNCHANGED <<pending_not_fuzzed, cal, pc>>
      BY <2>5, <2>10
    <3>2. UNCHANGED virgin_bits
      <4>1. CASE run.fault = "NONE"
        <5>1. Cleared(virgin_bits, run.trace) = virgin_bits
          BY <1>5, <2>2, <2>9, <2>10, <4>1, NothingNew
        <5>2. QED BY <2>5, <4>1, <5>1 DEF ClearsBits
      <4>2. CASE run.fault /= "NONE"
        BY <2>5, <4>2 DEF ClearsBits
      <4>3. QED BY <4>1, <4>2
    <3>3. RowsKept /\ RefsKept /\ MarksKept
      BY <1>4, <2>8, <3>1 DEF RowsKept, RefsKept, MarksKept
    <3>4. Types'
      <4>1. left' \in Nat
        BY <1>6, <3>1, SMTT(30)
      <4>2. QED BY <1>1, <1>3, <1>4, <2>6, <2>7, <2>8, <3>1, <3>2, <4>1 DEF Types, Locations
    <3>5. QED BY <1>1, <1>3, <1>4, <3>1, <3>2, <3>3, <3>4
  <2>11. CASE run.fault = "NONE" /\ hnb /= 0
    <3>1. /\ pending_not_fuzzed' = pending_not_fuzzed + 1
          /\ calibrate_case(added, Len(added), input, run.trace, "save")
          /\ UNCHANGED left
      BY <2>5, <2>11 DEF Counted
    <3>2. virgin_bits' = Cleared(virgin_bits, run.trace)
      BY <2>5, <2>11 DEF ClearsBits
    <3>3. /\ rn \in Fields /\ rn.file = NoInput /\ rn.len = Length[input]
          /\ rn.exec_cksum = run.trace /\ rn.exec_us = 0 /\ ~rn.was_fuzzed /\ ~rn.favored
          /\ rn.tc_ref = 0 /\ rn.trace_mini = {}
      <4>1. PICK new \in BOOLEAN : new = (hnb = 2)
        OBVIOUS
      <4>2. PICK n \in Nat : n = Length[input]
        BY DEF QueueAssumption
      <4>3. PICK trace \in Trace : trace = run.trace
        BY <1>5
      <4>4. rn = [file |-> NoInput, len |-> n, cal_failed |-> 0, trim_done |-> FALSE,
                  was_fuzzed |-> FALSE, has_new_cov |-> new, var_behavior |-> FALSE,
                  favored |-> FALSE, fs_redundant |-> FALSE, exec_cksum |-> trace,
                  exec_us |-> 0, trace_mini |-> {}, tc_ref |-> 0, mutated |-> FALSE]
        BY <2>3, <4>1, <4>2, <4>3 DEF NewEntry
      <4>5. /\ rn \in Fields /\ rn.file = NoInput /\ rn.len = n
            /\ rn.exec_cksum = trace /\ rn.exec_us = 0 /\ rn.was_fuzzed = FALSE
            /\ rn.favored = FALSE /\ rn.tc_ref = 0 /\ rn.trace_mini = {}
        BY <4>4 DEF Fields
      <4>6. QED BY <4>2, <4>3, <4>5
    <3>4. /\ added \in Seq(Fields) /\ Len(added) = Len(tried) + 1
          /\ added[Len(tried) + 1] = rn
          /\ \A k \in 1 .. Len(tried) : added[k] = tried[k]
          /\ Len(tried) + 1 \in 1 .. Len(added)
      <4>1. tried \in Seq(Fields) /\ rn \in Fields
        BY <2>8, <3>3
      <4>2. QED BY <2>4, <4>1, SMTT(30)
    <3>5. PICK q \in 1 .. Len(added) : q = Len(queue) + 1
      BY <2>8, <3>4
    <3>6. PICK trace \in Trace : trace = run.trace
      BY <1>5
    <3>7. calibrate_case(added, q, input, trace, "save")
      BY <2>8, <3>1, <3>4, <3>5, <3>6
    <3>8. CalibrateFacts(added, q, input, "save")
      BY <3>4, <3>7, CalibrateCaseDoes
    <3>9. PICK r \in Fields :
             /\ queue' = [added EXCEPT ![q] = r] /\ r.cal_failed > 0
             /\ r.file = added[q].file /\ r.len = added[q].len
             /\ r.exec_cksum = added[q].exec_cksum /\ r.exec_us = added[q].exec_us
             /\ Marks(r, added[q]) /\ Refs(r, added[q])
      BY <3>8 DEF CalibrateFacts
    <3>10. /\ queue' \in Seq(Fields) /\ Len(queue') = Len(queue) + 1 /\ queue' /= <<>>
           /\ cal' \in Calibration /\ cal'.q = Len(queue) + 1 /\ cal'.caller = "save"
           /\ cal'.input = input /\ cal'.cycle = 0 /\ cal'.max > 0
           /\ pc' = "calibrate"
      BY <2>8, <3>4, <3>5, <3>8 DEF CalibrateFacts
    <3>11. PICK f : f = queue'
      OBVIOUS
    <3>12. f[q] = r /\ \A k \in 1 .. Len(added) : k /= q => f[k] = added[k]
      BY <3>4, <3>5, <3>9, <3>11, Put
    <3>13. /\ r.file = NoInput /\ r.len = Length[input] /\ r.exec_cksum = trace
           /\ r.exec_us = 0 /\ ~r.was_fuzzed /\ ~r.favored /\ r.tc_ref = 0
           /\ r.trace_mini = {}
      BY <2>8, <3>3, <3>4, <3>5, <3>6, <3>9, SMTT(30) DEF Marks, Refs
    <3>14. /\ queue'[Len(queue) + 1] = r
           /\ \A k \in 1 .. Len(queue) : queue'[k] = tried[k]
      <4>1. \A k \in 1 .. Len(queue) : k /= q /\ k \in 1 .. Len(added)
        BY <1>1, <2>8, <3>4, <3>5
      <4>2. QED BY <2>8, <3>4, <3>5, <3>11, <3>12, <4>1
    <3>15. FuzzAdds(input, trace, tried, r)
      BY <2>8, <3>1, <3>2, <3>6, <3>9, <3>10, <3>13, <3>14 DEF FuzzAdds
    <3>16. trace \in target[input]
      BY <1>5, <2>11, <3>6
    <3>17. Types'
      <4>1. top_rated' \in [Bytes -> 0 .. Len(queue')]
        <5>1. 0 .. Len(queue) \subseteq 0 .. (Len(queue) + 1)
          BY <1>1, SMTT(30)
        <5>2. top_rated \in [Bytes -> 0 .. Len(queue)]
          BY DEF Types
        <5>3. QED BY <1>4, <3>10, <5>1, <5>2
      <4>2. /\ queue_cur' \in 0 .. Len(queue') /\ prev_queued' \in 0 .. Len(queue')
            /\ cal'.q <= Len(queue')
        <5>1. queue_cur \in 0 .. Len(queue) /\ prev_queued \in 0 .. Len(queue)
          BY DEF Types
        <5>2. PICK m \in Nat : m = Len(queue)
          BY <1>1
        <5>3. Len(queue') = m + 1
          BY <3>10, <5>2
        <5>4. 0 .. m \subseteq 0 .. (m + 1)
          OBVIOUS
        <5>5. queue_cur' \in 0 .. (m + 1) /\ prev_queued' \in 0 .. (m + 1)
          BY <1>4, <5>1, <5>2, <5>4
        <5>6. cal'.q <= Len(queue')
          BY <3>10, <5>2
        <5>7. QED BY <5>3, <5>5, <5>6
      <4>3. virgin_bits' \in [Bytes -> SUBSET Buckets] /\ pending_not_fuzzed' \in Int
        <5>1. pending_not_fuzzed \in Int
          BY DEF Types
        <5>2. pending_not_fuzzed' \in Int
          BY <3>1, <5>1
        <5>3. Cleared(virgin_bits, run.trace) \in [Bytes -> SUBSET Buckets]
          BY <1>5, <2>9, BitsTypes
        <5>4. QED BY <3>2, <5>2, <5>3
      <4>4. QED BY <1>1, <1>3, <1>4, <1>6, <2>6, <2>7, <3>1, <3>10, <4>1, <4>2, <4>3
               DEF Types, Locations
    <3> HIDE DEF FuzzRun
    <3>18. UNCHANGED <<stop_soon, score_changed, top_rated, queue_cur, in_buf,
                       needs_write, queued_favored, pending_favored>>
      BY <1>3, <1>4
    <3>19. \E i \in Inputs, t \in Trace, e \in Seq(Fields), s \in Fields :
              t \in target[i] /\ FuzzAdds(i, t, e, s)
      BY <2>8, <3>15, <3>16
    <3>20. QED BY <1>1, <3>17, <3>18, <3>19
  <2>12. QED BY <2>10, <2>11
<1>11. QED BY <1>9, <1>10

\* What cull_queue does to the marks.
Culls(g) ==
    /\ g = Grab.favored /\ score_changed' = FALSE
    /\ \A k \in 1 .. Len(queue) : queue'[k].favored = (k \in ToSet(g))
    /\ queued_favored' = Len(g)
    /\ pending_favored' = Cardinality({n \in DOMAIN g : ~queue[g[n]].was_fuzzed})

LEMMA CullQueueDoes ==
    ASSUME QueueAssumption, Types, cull_queue
    PROVE  /\ RowsKept /\ RefsKept /\ UNCHANGED top_rated
           /\ queue' \in Seq(Fields) /\ Len(queue') = Len(queue) /\ queue' /= <<>>
           /\ score_changed' \in BOOLEAN /\ queued_favored' \in Int
           /\ pending_favored' \in Int
           /\ \A k \in 1 .. Len(queue) : queue'[k].was_fuzzed = queue[k].was_fuzzed
           /\ \/ ~score_changed /\ UNCHANGED <<queue, scores>>
              \/ \E g : Culls(g)
<1>1. /\ queue \in Seq(Fields) /\ queue /= <<>> /\ Len(queue) \in Nat
      /\ DOMAIN queue = 1 .. Len(queue) /\ \A k \in 1 .. Len(queue) : queue[k] \in Fields
  BY EntryTypes DEF Types
<1>2. CASE ~score_changed
  <2>1. UNCHANGED <<queue, scores>>
    BY <1>2 DEF cull_queue
  <2>2. UNCHANGED <<top_rated, score_changed, queued_favored, pending_favored>>
    BY <2>1 DEF scores
  <2>3. RowsKept /\ RefsKept
    BY <2>1, <2>2 DEF RowsKept, RefsKept, Same, Refs
  <2>4. QED BY <1>1, <1>2, <2>1, <2>2, <2>3 DEF Types
<1>3. CASE score_changed
  <2>1. PICK g : g = Grab.favored
    OBVIOUS
  <2>2. /\ queue' = [k \in DOMAIN queue |->
                        [queue[k] EXCEPT !.favored = k \in ToSet(g),
                                         !.fs_redundant = k \notin ToSet(g)]]
        /\ queued_favored' = Len(g)
        /\ pending_favored' = Cardinality({n \in DOMAIN g : ~queue[g[n]].was_fuzzed})
        /\ score_changed' = FALSE
        /\ UNCHANGED top_rated
    BY <1>3, <2>1 DEF cull_queue
  <2>3. PICK f : f = queue'
    OBVIOUS
  <2>4. ASSUME NEW k \in 1 .. Len(queue)
        PROVE  /\ f[k] \in Fields /\ Same(f[k], queue[k]) /\ Refs(f[k], queue[k])
               /\ f[k].favored = (k \in ToSet(g))
               /\ f[k].was_fuzzed = queue[k].was_fuzzed
    <3>1. PICK r0 \in Fields : r0 = queue[k]
      BY <1>1
    <3>2. PICK grabbed : grabbed = (k \in ToSet(g))
      OBVIOUS
    <3>3. PICK redundant : redundant = (k \notin ToSet(g))
      OBVIOUS
    <3>a. grabbed \in BOOLEAN /\ redundant \in BOOLEAN
      <4>1. CASE k \in ToSet(g)
        <5>1. grabbed = TRUE /\ redundant = FALSE
          BY <3>2, <3>3, <4>1
        <5>2. QED BY <5>1
      <4>2. CASE k \notin ToSet(g)
        <5>1. (k \in ToSet(g)) = FALSE /\ (k \notin ToSet(g)) = TRUE
          BY <4>2
        <5>2. grabbed = FALSE /\ redundant = TRUE
          BY <3>2, <3>3, <5>1
        <5>3. QED BY <5>2
      <4>3. QED BY <4>1, <4>2
    <3>4. f[k] = [r0 EXCEPT !.favored = grabbed, !.fs_redundant = redundant]
      BY <1>1, <2>2, <2>3, <3>1, <3>2, <3>3, Zenon
    <3>5. PICK r : r = f[k]
      OBVIOUS
    <3>6. /\ r \in Fields /\ Same(r, r0) /\ Refs(r, r0) /\ r.favored = grabbed
          /\ r.was_fuzzed = r0.was_fuzzed
      BY <3>4, <3>5, <3>a DEF Fields, Same, Refs
    <3>7. QED BY <3>1, <3>2, <3>5, <3>6
  <2>5. f \in Seq(Fields) /\ Len(f) = Len(queue) /\ f /= <<>>
    <3>1. f = [k \in 1 .. Len(queue) |-> f[k]]
      BY <1>1, <2>2, <2>3
    <3>2. f \in Seq(Fields) /\ Len(f) = Len(queue)
      BY <1>1, <2>4, <3>1
    <3>3. Len(queue) /= 0
      BY <1>1
    <3>4. QED BY <3>2, <3>3
  <2>6. RowsKept /\ RefsKept
    BY <2>2, <2>3, <2>4, <2>5 DEF RowsKept, RefsKept
  <2>7. queued_favored' \in Int /\ pending_favored' \in Int
    <3>1. g \in Seq(DOMAIN queue)
      BY <2>1, GrabFacts
    <3>2. IsFiniteSet(1 .. Len(g)) /\ Len(g) \in Nat /\ DOMAIN g = 1 .. Len(g)
      BY <3>1, FS_Interval
    <3> DEFINE w == {n \in DOMAIN g : ~queue[g[n]].was_fuzzed}
    <3>3. w \subseteq DOMAIN g
      BY Zenon
    <3>4. IsFiniteSet(w)
      <4>1. IsFiniteSet(DOMAIN g)
        BY <3>2
      <4> HIDE DEF w
      <4>2. QED BY <3>3, <4>1, FS_Subset, Zenon
    <3>5. Cardinality(w) \in Nat
      <4> HIDE DEF w
      <4>1. QED BY <3>4, FS_CardinalityType, Zenon
    <3>6. queued_favored' = Len(g) /\ pending_favored' = Cardinality(w)
      BY <2>2, Zenon
    <3>7. queued_favored' \in Nat /\ pending_favored' \in Nat
      BY <3>2, <3>5, <3>6, ZenonT(30)
    <3>8. QED BY <3>7
  <2>8. Culls(g)
    BY <2>1, <2>2, <2>3, <2>4 DEF Culls
  <2>9. QED BY <2>2, <2>3, <2>4, <2>5, <2>6, <2>7, <2>8
<1>4. QED BY <1>2, <1>3 DEF Types

LEMMA CullDoes ==
    ASSUME QueueAssumption, Types, Control, UNCHANGED target, Start \/ Loop
    PROVE  /\ Types' /\ RowsKept /\ RefsKept
           /\ UNCHANGED <<virgin_bits, stop_soon, in_buf, needs_write, top_rated,
                          pending_not_fuzzed>>
           /\ \A k \in 1 .. Len(queue) : queue'[k].was_fuzzed = queue[k].was_fuzzed
           /\ \/ MarksKept /\ ~score_changed /\ UNCHANGED score_changed
              \/ \E g : Culls(g)
           /\ cal.caller = "none" /\ cal'.caller = "none"
           /\ UNCHANGED queue_cur \/ queue_cur' > 0
           /\ \/ /\ \/ pc = "start"
                    \/ pc = "dry" /\ cal.q = Len(queue)
                 /\ pc' = IF stop_soon THEN "end" ELSE "loop"
              \/ pc = "loop" /\ pc' = "fuzz" /\ queue_cur' > 0
<1>1. cull_queue
  BY DEF Start, Loop
<1>2. /\ RowsKept /\ RefsKept /\ UNCHANGED top_rated
      /\ queue' \in Seq(Fields) /\ Len(queue') = Len(queue) /\ queue' /= <<>>
      /\ score_changed' \in BOOLEAN /\ queued_favored' \in Int
      /\ pending_favored' \in Int
      /\ \A k \in 1 .. Len(queue) : queue'[k].was_fuzzed = queue[k].was_fuzzed
      /\ \/ ~score_changed /\ UNCHANGED <<queue, scores>>
         \/ \E g : Culls(g)
  BY <1>1, CullQueueDoes
<1>3. /\ UNCHANGED <<virgin_bits, faults, pending_not_fuzzed, var_bytes, subseq_tmouts,
                     stop_soon, stage>>
  BY DEF Start, Loop
<1>4. /\ UNCHANGED <<virgin_tmout, virgin_crash, unique_hangs, unique_crashes>>
      /\ UNCHANGED <<in_buf, left, needs_write, splice_cycle>>
  BY <1>3 DEF faults, stage
<1>5. \/ MarksKept /\ ~score_changed /\ UNCHANGED score_changed
      \/ \E g : Culls(g)
  <2>1. CASE ~score_changed /\ UNCHANGED <<queue, scores>>
    BY <1>3, <2>1 DEF MarksKept, Marks, scores
  <2>2. QED BY <1>2, <2>1
<1>6. /\ Len(queue) \in Nat /\ Len(queue) > 0 /\ queue_cur \in 0 .. Len(queue)
      /\ prev_queued \in 0 .. Len(queue) /\ use_splicing \in BOOLEAN
      /\ cal \in Calibration /\ cal.q <= Len(queue)
  BY EntryTypes DEF Types
<1>7. ASSUME Start
      PROVE  /\ cal' \in Calibration /\ cal'.q <= Len(queue) /\ cal'.caller = "none"
             /\ cal.caller = "none"
             /\ UNCHANGED <<queue_cur, use_splicing, prev_queued>>
             /\ \/ pc = "start"
                \/ pc = "dry" /\ cal.q = Len(queue)
             /\ pc' = IF stop_soon THEN "end" ELSE "loop"
  <2>1. /\ \/ pc = "start"
           \/ pc = "dry" /\ cal.q = Len(queue)
        /\ pc' = IF stop_soon THEN "end" ELSE "loop"
        /\ cal' = NoCal /\ UNCHANGED cycle
    BY <1>7 DEF Start
  <2>2. NoTrace \in Trace
    BY DEF NoTrace, Trace
  <2>3. NoCal \in Calibration /\ NoCal.q = 0 /\ NoCal.caller = "none"
    BY <2>2 DEF NoCal, Calibration
  <2>4. cal.caller = "none"
    BY <2>1 DEF Control
  <2>5. QED BY <1>6, <2>1, <2>3, <2>4 DEF cycle
<1>8. ASSUME Loop
      PROVE  /\ UNCHANGED cal /\ cal.caller = "none"
             /\ queue_cur' \in 0 .. Len(queue) /\ queue_cur' > 0
             /\ prev_queued' \in 0 .. Len(queue) /\ use_splicing' \in BOOLEAN
             /\ UNCHANGED queue_cur \/ queue_cur' > 0
             /\ pc = "loop" /\ pc' = "fuzz"
  <2>1. /\ pc = "loop" /\ pc' = "fuzz" /\ UNCHANGED cal
        /\ IF queue_cur /= 0 THEN UNCHANGED cycle
           ELSE /\ queue_cur' = 1
                /\ use_splicing' = (use_splicing \/ Len(queue) = prev_queued)
                /\ prev_queued' = Len(queue)
    BY <1>8 DEF Loop
  <2>2. cal.caller = "none"
    BY <2>1 DEF Control
  <2>3. CASE queue_cur /= 0
    <3>1. UNCHANGED <<queue_cur, use_splicing, prev_queued>>
      BY <2>1, <2>3 DEF cycle
    <3>2. QED BY <1>6, <2>1, <2>2, <2>3, <3>1
  <2>4. CASE queue_cur = 0
    <3>1. queue_cur' = 1 /\ prev_queued' = Len(queue)
      BY <2>1, <2>4
    <3>2. use_splicing' \in BOOLEAN
      BY <2>1, <2>4, Zenon
    <3>3. QED BY <1>6, <2>1, <2>2, <3>1, <3>2
  <2>5. QED BY <2>3, <2>4
<1>9. Types'
  <2>1. CASE Start
    BY <1>2, <1>3, <1>4, <1>6, <1>7, <2>1 DEF Types, Locations
  <2>2. CASE Loop
    BY <1>2, <1>3, <1>4, <1>6, <1>8, <2>2 DEF Types, Locations
  <2>3. QED BY <2>1, <2>2
<1>10. QED BY <1>2, <1>3, <1>4, <1>5, <1>7, <1>8, <1>9

\* A row of the queue is replaced.
Puts(q, r) ==
    /\ Len(queue') = Len(queue) /\ queue'[q] = r
    /\ \A k \in 1 .. Len(queue) : k /= q => queue'[k] = queue[k]

LEMMA PutsIs ==
    ASSUME QueueAssumption, Types, NEW q \in 1 .. Len(queue), NEW r \in Fields,
           queue' = [queue EXCEPT ![q] = r]
    PROVE  Puts(q, r)
  BY PutKeeps DEF Puts

\* Entry q becomes r, which makes e of the queue, and is rated by its trace.
Rescored(q, r, e, trace, wins) ==
    /\ e \in Seq(Fields) /\ Len(e) = Len(queue) /\ e[q] = r /\ r \in Fields
    /\ \A k \in 1 .. Len(queue) : k /= q => e[k] = queue[k]
    /\ trace \in Trace /\ q \in 1 .. Len(queue)
    /\ wins = Wins(e, top_rated, q, trace)
    /\ queue' = Scored(e, top_rated, q, trace)
    /\ ScoreFacts(e, q, top_rated, trace, wins, queue')
    /\ top_rated' = [b \in Bytes |-> IF b \in wins THEN q ELSE top_rated[b]]
    /\ score_changed' = (score_changed \/ wins /= {})

LEMMA Rescores ==
    ASSUME QueueAssumption, Types, NEW q \in 1 .. Len(queue), NEW r \in Fields,
           NEW e, e = [queue EXCEPT ![q] = r], NEW trace \in Trace,
           update_bitmap_score(e, q, trace)
    PROVE  \E wins : Rescored(q, r, e, trace, wins)
<1>1. /\ e \in Seq(Fields) /\ Len(e) = Len(queue) /\ e[q] = r
      /\ \A k \in 1 .. Len(queue) : k /= q => e[k] = queue[k]
  BY EntryTypes, Put, SMTT(30)
<1>2. top_rated \in [Bytes -> 0 .. Len(e)] /\ score_changed \in BOOLEAN /\ q \in 1 .. Len(e)
  BY <1>1 DEF Types
<1>3. PICK wins :
         /\ wins = Wins(e, top_rated, q, trace)
         /\ queue' = Scored(e, top_rated, q, trace)
         /\ ScoreFacts(e, q, top_rated, trace, wins, queue')
         /\ top_rated' = [b \in Bytes |-> IF b \in wins THEN q ELSE top_rated[b]]
         /\ score_changed' = (score_changed \/ wins /= {})
  BY <1>1, <1>2, UpdateDoes, ZenonT(30)
<1>4. Rescored(q, r, e, trace, wins)
  BY <1>1, <1>3 DEF Rescored
<1>5. QED BY <1>4

\* The rows that calibrate_case and trim_case leave when they have rated.
LEMMA RescoredRows ==
    ASSUME NEW q, NEW r, NEW e, NEW trace, NEW wins, Rescored(q, r, e, trace, wins)
    PROVE  /\ Len(queue') = Len(queue) /\ Same(queue'[q], r)
           /\ \A k \in 1 .. Len(queue) : k /= q => Same(queue'[k], queue[k])
           /\ q \in 1 .. Len(queue) /\ r \in Fields
  BY DEF Rescored, ScoreFacts

LEMMA CalibrateScoreRows ==
    ASSUME QueueAssumption, Types, Control, CalibrateScore, UNCHANGED target
    PROVE  \E r, e, wins :
              /\ Rescored(cal.q, r, e, cal.last, wins)
              /\ r.exec_us /= 0 /\ r.cal_failed = 0
              /\ r.file = queue[cal.q].file /\ r.len = queue[cal.q].len
              /\ r.exec_cksum = queue[cal.q].exec_cksum
              /\ Refs(r, queue[cal.q])
<1>1. PICK e \in Seq(Fields), r \in Fields :
         /\ e = [queue EXCEPT ![cal.q] = r]
         /\ r.exec_us /= 0 /\ r.cal_failed = 0
         /\ r.file = queue[cal.q].file /\ r.len = queue[cal.q].len
         /\ r.exec_cksum = queue[cal.q].exec_cksum
         /\ Marks(r, queue[cal.q]) /\ Refs(r, queue[cal.q])
         /\ update_bitmap_score(e, cal.q, cal.last)
  BY CalibrateScoreDoes
<1>2. cal.q \in 1 .. Len(queue) /\ cal.last \in Trace
  <2>1. pc = "calibrate"
    BY DEF CalibrateScore
  <2>2. cal.q > 0
    BY <2>1 DEF Control
  <2>3. cal.q \in Nat /\ cal.q <= Len(queue) /\ cal.last \in Trace
    BY DEF Types, Calibration
  <2>4. Len(queue) \in Nat
    BY EntryTypes
  <2>5. QED BY <2>2, <2>3, <2>4, SMTT(30)
<1>3. PICK q \in 1 .. Len(queue), trace \in Trace : q = cal.q /\ trace = cal.last
  BY <1>2
<1>4. e = [queue EXCEPT ![q] = r] /\ update_bitmap_score(e, q, trace)
  BY <1>1, <1>3
<1>5. PICK wins : Rescored(q, r, e, trace, wins)
  BY <1>4, Rescores
<1>6. Rescored(cal.q, r, e, cal.last, wins)
  BY <1>3, <1>5
<1>7. QED BY <1>1, <1>6

LEMMA TrimEndRows ==
    ASSUME QueueAssumption, Types, Control, TrimEnd, UNCHANGED target
    PROVE  \E r \in Fields :
              /\ r.file = IF needs_write THEN in_buf ELSE queue[queue_cur].file
              /\ r.len = queue[queue_cur].len
              /\ r.cal_failed = queue[queue_cur].cal_failed
              /\ r.exec_cksum = queue[queue_cur].exec_cksum
              /\ r.exec_us = queue[queue_cur].exec_us
              /\ Refs(r, queue[queue_cur])
              /\ \/ /\ needs_write
                    /\ \E e, wins : Rescored(queue_cur, r, e, queue[queue_cur].exec_cksum, wins)
                 \/ /\ ~needs_write
                    /\ Puts(queue_cur, r) /\ UNCHANGED <<top_rated, score_changed>>
<1>1. PICK e \in Seq(Fields), r \in Fields :
         /\ e = [queue EXCEPT ![queue_cur] = r]
         /\ r.file = IF needs_write THEN in_buf ELSE queue[queue_cur].file
         /\ r.len = queue[queue_cur].len
         /\ r.cal_failed = queue[queue_cur].cal_failed
         /\ r.exec_cksum = queue[queue_cur].exec_cksum
         /\ r.exec_us = queue[queue_cur].exec_us
         /\ Marks(r, queue[queue_cur]) /\ Refs(r, queue[queue_cur])
         /\ \/ /\ needs_write
               /\ update_bitmap_score(e, queue_cur, queue[queue_cur].exec_cksum)
            \/ /\ ~needs_write
               /\ queue' = e /\ UNCHANGED <<top_rated, score_changed>>
  BY TrimEndDoes
<1>2. queue_cur \in 1 .. Len(queue)
  BY TrimEndDoes
<1>3. queue[queue_cur].exec_cksum \in Trace
  BY <1>2, EntryTypes DEF Fields
<1>4. PICK q \in 1 .. Len(queue), trace \in Trace :
         q = queue_cur /\ trace = queue[queue_cur].exec_cksum
  BY <1>2, <1>3
<1>5. CASE needs_write
  <2>1. e = [queue EXCEPT ![q] = r] /\ update_bitmap_score(e, q, trace)
    BY <1>1, <1>4, <1>5
  <2>2. PICK wins : Rescored(q, r, e, trace, wins)
    BY <2>1, Rescores
  <2>3. Rescored(queue_cur, r, e, queue[queue_cur].exec_cksum, wins)
    BY <1>4, <2>2
  <2>4. QED BY <1>1, <1>5, <2>3
<1>6. CASE ~needs_write
  <2>1. queue' = [queue EXCEPT ![q] = r]
    BY <1>1, <1>4, <1>6
  <2>2. Puts(q, r)
    BY <2>1, PutsIs
  <2>3. Puts(queue_cur, r)
    BY <1>4, <2>2
  <2>4. QED BY <1>1, <1>6, <2>3
<1>7. QED BY <1>5, <1>6

------------------------------------------------------------------------------
(* Every step keeps the types, and the locals in order.                    *)

LEMMA TypesStep ==
    ASSUME QueueAssumption, Types, Control, [Next]_vars
    PROVE  Types'
<1>1. CASE Fuzz
  <2>1. UNCHANGED target
    BY <1>1 DEF Fuzz
  <2>2. CASE CalibrateRun
    BY <2>1, <2>2, CalibrateRunDoes
  <2>3. CASE CalibrateScore
    BY <2>1, <2>3, CalibrateScoreDoes
  <2>4. CASE DryRun
    BY <2>1, <2>4, DryRunDoes
  <2>5. CASE AfterDryRun \/ AfterRetry
    BY <2>1, <2>5, AfterCalibrationDoes
  <2>6. CASE Start \/ Loop
    BY <2>1, <2>6, CullDoes
  <2>7. CASE Skip \/ Splice \/ FuzzEnd \/ NextEntry
    BY <2>1, <2>7, QuietDoes
  <2>8. CASE FuzzOne
    BY <2>1, <2>8, FuzzOneDoes
  <2>9. CASE TrimRun
    BY <2>1, <2>9, TrimRunDoes
  <2>10. CASE TrimEnd
    BY <2>1, <2>10, TrimEndDoes
  <2>11. CASE FuzzRun
    BY <2>1, <2>11, FuzzRunDoes
  <2>12. CASE AfterSave
    BY <2>1, <2>12, AfterSaveDoes
  <2>13. CASE Abandon
    BY <2>1, <2>13, AbandonDoes
  <2>14. QED
    BY <1>1, <2>2, <2>3, <2>4, <2>5, <2>6, <2>7, <2>8, <2>9, <2>10, <2>11, <2>12, <2>13
       DEF Fuzz
<1>2. CASE Interrupt
  BY <1>2, InterruptDoes
<1>3. CASE UNCHANGED vars
  BY <1>3 DEF Types, vars, faults, scores, cycle, stage
<1>4. QED BY <1>1, <1>2, <1>3 DEF Next, Ended

LEMMA UpTo ==
    ASSUME NEW n \in Nat PROVE \A k \in 1 .. n + 1 : k \in 1 .. n \/ k = n + 1
  OBVIOUS

LEMMA ControlStep ==
    ASSUME QueueAssumption, Types, Control, Types', [Next]_vars
    PROVE  Control'
<1>1. /\ DOMAIN queue = 1 .. Len(queue) /\ Len(queue) \in Nat /\ Len(queue) > 0
      /\ DOMAIN queue' = 1 .. Len(queue') /\ queue_cur' \in Nat /\ queue_cur \in Nat
      /\ stop_soon' \in BOOLEAN /\ needs_write' \in BOOLEAN
  <2>1. DOMAIN queue = 1 .. Len(queue) /\ Len(queue) \in Nat /\ Len(queue) > 0
    BY EntryTypes
  <2>2. /\ queue' \in Seq(Fields) /\ queue_cur' \in 0 .. Len(queue')
        /\ queue_cur \in 0 .. Len(queue)
        /\ stop_soon' \in BOOLEAN /\ needs_write' \in BOOLEAN
    BY DEF Types
  <2>3. QED BY <2>1, <2>2
<1>2. CASE Fuzz
  <2>1. UNCHANGED target
    BY <1>2 DEF Fuzz
  <2>2. CASE CalibrateRun
    <3>1. /\ \A k \in 1 .. Len(queue) : queue'[k].file = queue[k].file
          /\ Len(queue') = Len(queue) /\ cal.q \in 1 .. Len(queue)
          /\ UNCHANGED <<stop_soon, queue_cur, needs_write, in_buf>>
          /\ pc = "calibrate" /\ cal'.q = cal.q /\ cal'.caller = cal.caller
          /\ cal'.input = cal.input /\ cal'.max > 0 /\ pc' \in {"calibrate", "calibrated"}
      <4>1. /\ RefsKept
            /\ UNCHANGED <<stop_soon, queue_cur, needs_write, in_buf>>
            /\ pc = "calibrate" /\ cal'.q = cal.q /\ cal'.caller = cal.caller
            /\ cal'.input = cal.input /\ cal'.max > 0
            /\ pc' \in {"calibrate", "calibrated"}
        BY <2>1, <2>2, CalibrateRunDoes
      <4>2. cal.q \in 1 .. Len(queue)
        <5>1. cal.q > 0
          BY <4>1 DEF Control
        <5>2. cal.q \in Nat /\ cal.q <= Len(queue)
          BY DEF Types, Calibration
        <5>3. QED BY <1>1, <5>1, <5>2, SMTT(30)
      <4>3. \/ UNCHANGED queue
            \/ \E r \in Fields : /\ queue' = [queue EXCEPT ![cal.q] = r]
                                 /\ r.file = queue[cal.q].file
        BY <2>1, <2>2, CalibrateRunDoes
      <4>4. \A k \in 1 .. Len(queue) : queue'[k].file = queue[k].file
        <5>1. CASE UNCHANGED queue
          BY <5>1
        <5>2. ASSUME NEW r \in Fields, queue' = [queue EXCEPT ![cal.q] = r],
                     r.file = queue[cal.q].file
              PROVE  \A k \in 1 .. Len(queue) : queue'[k].file = queue[k].file
          BY <4>2, <5>2, PutsIs, SMTT(30) DEF Puts
        <5>3. QED BY <4>3, <5>1, <5>2
      <4>5. QED BY <4>1, <4>2, <4>4 DEF RefsKept
    <3>2. QED BY <1>1, <3>1, ZenonT(30) DEF Control
  <2>3. CASE CalibrateScore
    <3>1. /\ UNCHANGED <<stop_soon, queue_cur, needs_write, in_buf>>
          /\ pc = "calibrate" /\ cal'.q = cal.q /\ cal'.caller = cal.caller
          /\ cal'.input = cal.input /\ cal'.max > 0 /\ pc' = "calibrated"
      BY <2>1, <2>3, CalibrateScoreDoes
    <3>2. PICK r, e, wins : /\ Rescored(cal.q, r, e, cal.last, wins)
                            /\ r.file = queue[cal.q].file
      BY <2>1, <2>3, CalibrateScoreRows
    <3>3. /\ \A k \in 1 .. Len(queue) : queue'[k].file = queue[k].file
          /\ Len(queue') = Len(queue) /\ cal.q \in 1 .. Len(queue)
      BY <3>2, RescoredRows, SMTT(30) DEF Same
    <3>4. QED BY <1>1, <3>1, <3>3, ZenonT(30) DEF Control
  <2>4. CASE DryRun
    <3>1. PICK q \in 1 .. Len(queue), r \in Fields :
             /\ cal'.q = q /\ cal'.caller = "dry" /\ cal'.input = queue[q].file
             /\ cal'.input \in Inputs /\ cal'.max > 0
             /\ queue' = [queue EXCEPT ![q] = r] /\ r.file = queue[q].file
      BY <2>1, <2>4, DryRunDoes
    <3>2. Puts(q, r)
      BY <3>1, PutsIs
    <3>3. /\ \A k \in 1 .. Len(queue) : queue'[k].file = queue[k].file
          /\ Len(queue') = Len(queue)
      BY <3>1, <3>2 DEF Puts
    <3>4. /\ UNCHANGED <<stop_soon, queue_cur>> /\ pc = "dry" /\ pc' = "calibrate"
      BY <2>1, <2>4, DryRunDoes
    <3>5. cal.caller = "none"
      BY <3>4 DEF Control
    <3>6. \A k \in 1 .. Len(queue) : queue[k].file /= NoInput
      BY <1>1, <3>5 DEF Control
    <3>7. QED BY <1>1, <3>1, <3>3, <3>4, <3>6, SMTT(30) DEF Control
  <2>5. CASE AfterDryRun \/ AfterRetry
    <3>1. /\ RowsKept /\ UNCHANGED <<stop_soon, in_buf, needs_write, queue_cur>>
          /\ pc = "calibrated" /\ cal'.caller = "none"
          /\ \/ /\ cal.caller = "dry"
                /\ \/ pc' = "start" /\ stop_soon
                   \/ pc' \in {"dry", "fatal"} /\ cal'.q = cal.q
             \/ /\ cal.caller = "retry"
                /\ \/ pc' = "abandon"
                   \/ pc' = "trim" /\ cal.fault = "NONE" /\ ~stop_soon
      BY <2>1, <2>5, AfterCalibrationDoes
    <3>2. /\ \A k \in 1 .. Len(queue) : queue'[k].file = queue[k].file
          /\ Len(queue') = Len(queue)
      BY <3>1 DEF RowsKept, Same
    <3>3. \A k \in 1 .. Len(queue) : queue[k].file /= NoInput
      BY <1>1, <3>1 DEF Control
    <3>4. CASE cal.caller = "dry"
      BY <1>1, <3>1, <3>2, <3>3, <3>4 DEF Control
    <3>5. CASE cal.caller = "retry"
      <4>1. queue_cur \in 1 .. Len(queue)
        <5>1. queue_cur > 0
          BY <3>5 DEF Control
        <5>2. queue_cur \in 0 .. Len(queue)
          BY DEF Types
        <5>3. QED BY <1>1, <5>1, <5>2
      <4>2. queue'[queue_cur'].file = queue[queue_cur].file
        BY <3>1, <3>2, <4>1
      <4>3. pc' \in {"abandon", "trim"}
        BY <3>1, <3>5
      <4>4. QED BY <1>1, <3>1, <3>2, <3>3, <3>5, <4>1, <4>2, <4>3 DEF Control
    <3>6. QED BY <3>1, <3>4, <3>5
  <2>6. CASE Start \/ Loop
    <3>1. /\ RowsKept /\ UNCHANGED <<stop_soon, in_buf, needs_write>>
          /\ cal.caller = "none" /\ cal'.caller = "none"
          /\ \/ pc' \in {"end", "loop"}
             \/ pc' = "fuzz" /\ queue_cur' > 0
      BY <2>1, <2>6, CullDoes
    <3>2. /\ \A k \in 1 .. Len(queue) : queue'[k].file = queue[k].file
          /\ Len(queue') = Len(queue)
      BY <3>1 DEF RowsKept, Same
    <3>3. \A k \in 1 .. Len(queue) : queue[k].file /= NoInput
      BY <1>1, <3>1 DEF Control
    <3>4. CASE pc' \in {"end", "loop"}
      BY <1>1, <3>1, <3>2, <3>3, <3>4 DEF Control
    <3>5. CASE pc' = "fuzz" /\ queue_cur' > 0
      BY <1>1, <3>1, <3>2, <3>3, <3>5 DEF Control
    <3>6. QED BY <3>1, <3>4, <3>5
  <2>7. CASE Skip \/ Splice \/ FuzzEnd \/ NextEntry
    <3>1. /\ UNCHANGED <<queue, stop_soon, cal, in_buf, needs_write>>
          /\ \/ pc = "fuzz" /\ pc' = "next" /\ UNCHANGED queue_cur
             \/ pc = "havoc" /\ pc' \in {"havoc", "abandon", "fatal"} /\ UNCHANGED queue_cur
             \/ pc = "next" /\ pc' \in {"end", "loop"}
      BY <2>1, <2>7, QuietDoes
    <3>2. QED BY <1>1, <3>1 DEF Control
  <2>8. CASE FuzzOne
    <3>1. /\ UNCHANGED <<stop_soon, queue_cur>>
          /\ pc = "fuzz" /\ queue_cur \in 1 .. Len(queue)
          /\ in_buf' = queue[queue_cur].file /\ in_buf' \in Inputs /\ ~needs_write'
          /\ \/ UNCHANGED <<queue, cal>> /\ pc' \in {"abandon", "trim"}
             \/ \E r \in Fields :
                /\ cal'.q = queue_cur /\ cal'.caller = "retry" /\ cal'.input = in_buf'
                /\ cal'.max > 0 /\ pc' = "calibrate"
                /\ queue' = [queue EXCEPT ![queue_cur] = r]
                /\ r.file = queue[queue_cur].file
      BY <2>1, <2>8, FuzzOneDoes
    <3>2. cal.caller = "none"
      BY <3>1 DEF Control
    <3>3. CASE UNCHANGED <<queue, cal>> /\ pc' \in {"abandon", "trim"}
      BY <1>1, <3>1, <3>2, <3>3 DEF Control
    <3>4. ASSUME NEW r \in Fields,
                 /\ cal'.q = queue_cur /\ cal'.caller = "retry" /\ cal'.input = in_buf'
                 /\ cal'.max > 0 /\ pc' = "calibrate"
                 /\ queue' = [queue EXCEPT ![queue_cur] = r]
                 /\ r.file = queue[queue_cur].file
          PROVE  Control'
      <4>1. Puts(queue_cur, r)
        BY <3>1, <3>4, PutsIs
      <4>2. /\ \A k \in 1 .. Len(queue) : queue'[k].file = queue[k].file
            /\ Len(queue') = Len(queue)
        BY <3>1, <3>4, <4>1 DEF Puts
      <4>3. \A k \in 1 .. Len(queue) : queue[k].file /= NoInput
        BY <1>1, <3>2 DEF Control
      <4>4. QED BY <1>1, <3>1, <3>4, <4>2, <4>3 DEF Control
    <3>5. QED BY <3>1, <3>3, <3>4
  <2>9. CASE TrimRun
    <3>1. /\ UNCHANGED <<stop_soon, queue_cur, cal>>
          /\ pc = "trim" /\ queue_cur \in 1 .. Len(queue) /\ in_buf \in Inputs
          /\ \/ /\ UNCHANGED <<queue, in_buf, needs_write>>
                /\ pc' \in {"trim", "abandon"}
             \/ \E cut \in Inputs, r \in Fields :
                /\ pc' = "trim" /\ in_buf' = cut /\ needs_write'
                /\ queue' = [queue EXCEPT ![queue_cur] = r]
                /\ r.file = queue[queue_cur].file
      BY <2>1, <2>9, TrimRunDoes
    <3>2. cal.caller = "none"
      BY <3>1 DEF Control
    <3>3. CASE UNCHANGED <<queue, in_buf, needs_write>> /\ pc' \in {"trim", "abandon"}
      BY <1>1, <3>1, <3>2, <3>3 DEF Control
    <3>4. ASSUME NEW cut \in Inputs, NEW r \in Fields,
                 /\ pc' = "trim" /\ in_buf' = cut /\ needs_write'
                 /\ queue' = [queue EXCEPT ![queue_cur] = r]
                 /\ r.file = queue[queue_cur].file
          PROVE  Control'
      <4>1. Puts(queue_cur, r)
        BY <3>1, <3>4, PutsIs
      <4>2. /\ \A k \in 1 .. Len(queue) : queue'[k].file = queue[k].file
            /\ Len(queue') = Len(queue)
        BY <3>1, <3>4, <4>1 DEF Puts
      <4>3. QED BY <1>1, <3>1, <3>2, <3>4, <4>2 DEF Control
    <3>5. QED BY <3>1, <3>3, <3>4
  <2>10. CASE TrimEnd
    <3>1. /\ UNCHANGED <<stop_soon, queue_cur, cal, in_buf, needs_write>>
          /\ pc = "trim" /\ pc' \in {"abandon", "havoc"} /\ queue_cur \in 1 .. Len(queue)
          /\ in_buf \in Inputs
      BY <2>1, <2>10, TrimEndDoes
    <3>2. cal.caller = "none" /\ \A k \in 1 .. Len(queue) : queue[k].file /= NoInput
      BY <1>1, <3>1 DEF Control
    <3>3. PICK r \in Fields :
              /\ r.file = IF needs_write THEN in_buf ELSE queue[queue_cur].file
              /\ \/ \E e, wins : Rescored(queue_cur, r, e, queue[queue_cur].exec_cksum, wins)
                 \/ Puts(queue_cur, r)
      BY <2>1, <2>10, TrimEndRows
    <3>4. /\ Len(queue') = Len(queue) /\ queue'[queue_cur].file = r.file
          /\ \A k \in 1 .. Len(queue) : k /= queue_cur => queue'[k].file = queue[k].file
      <4>1. CASE Puts(queue_cur, r)
        BY <3>1, <4>1 DEF Puts
      <4>2. CASE \E e, wins : Rescored(queue_cur, r, e, queue[queue_cur].exec_cksum, wins)
        BY <4>2, RescoredRows DEF Same
      <4>3. QED BY <3>3, <4>1, <4>2
    <3>5. r.file /= NoInput
      BY <3>1, <3>2, <3>3 DEF QueueAssumption
    <3>6. \A k \in 1 .. Len(queue) : queue'[k].file /= NoInput
      BY <3>2, <3>4, <3>5
    <3>7. QED BY <1>1, <3>1, <3>2, <3>4, <3>6 DEF Control
  <2>11. CASE FuzzRun
    <3>1. /\ UNCHANGED <<stop_soon, queue_cur, in_buf, needs_write>>
          /\ pc = "havoc" /\ queue_cur \in 1 .. Len(queue) /\ cal.caller = "none"
          /\ \/ RowsKept /\ UNCHANGED cal /\ pc' \in {"havoc", "abandon"}
             \/ \E input \in Inputs, trace \in Trace, tried \in Seq(Fields), r \in Fields :
                FuzzAdds(input, trace, tried, r)
      BY <2>1, <2>11, FuzzRunDoes
    <3>2. CASE RowsKept /\ UNCHANGED cal /\ pc' \in {"havoc", "abandon"}
      <4>1. /\ \A k \in 1 .. Len(queue) : queue'[k].file = queue[k].file
            /\ Len(queue') = Len(queue)
        BY <3>2 DEF RowsKept, Same
      <4>2. QED BY <1>1, <3>1, <3>2, <4>1 DEF Control
    <3>3. ASSUME NEW input \in Inputs, NEW trace \in Trace, NEW tried \in Seq(Fields),
                 NEW r \in Fields, FuzzAdds(input, trace, tried, r)
          PROVE  Control'
      <4>1. PICK n \in Nat : n = Len(queue)
        BY <1>1
      <4>2. /\ Len(queue') = n + 1 /\ queue'[n + 1].file = NoInput
            /\ \A k \in 1 .. n : queue'[k].file = queue[k].file
            /\ cal'.q = n + 1 /\ cal'.caller = "save" /\ cal'.input = input
            /\ cal'.max > 0 /\ pc' = "calibrate"
        BY <3>3, <4>1, ZenonT(30) DEF FuzzAdds, Same
      <4>3. \A k \in 1 .. n : queue[k].file /= NoInput
        BY <1>1, <3>1, <4>1 DEF Control
      <4>4. \A k \in 1 .. n + 1 : k \in 1 .. n \/ k = n + 1
        BY UpTo
      <4>5. queue_cur' > 0 /\ queue_cur' /= n + 1
        BY <1>1, <3>1, <4>1
      <4>6. DOMAIN queue' = 1 .. n + 1 /\ n + 1 > 0
        BY <1>1, <4>2
      <4>7. \A k \in DOMAIN queue' : queue'[k].file = NoInput => k = n + 1
        BY <4>2, <4>3, <4>4, <4>6
      <4>8. QED BY <3>1, <3>3, <4>2, <4>5, <4>6, <4>7, SMTT(30) DEF Control
    <3>4. QED BY <3>1, <3>2, <3>3
  <2>12. CASE AfterSave
    <3>1. /\ UNCHANGED <<stop_soon, in_buf, needs_write, queue_cur>>
          /\ pc = "calibrated" /\ pc' = "havoc" /\ cal.caller = "save"
          /\ cal' = NoCal /\ cal.q \in 1 .. Len(queue) /\ cal.input \in Inputs
      BY <2>1, <2>12, AfterSaveDoes
    <3>2. PICK r \in Fields : queue' = [queue EXCEPT ![cal.q] = r] /\ r.file = cal.input
      BY <2>1, <2>12, AfterSaveDoes
    <3>3. Puts(cal.q, r)
      BY <3>1, <3>2, PutsIs
    <3>4. \A k \in 1 .. Len(queue) : k /= cal.q => queue[k].file /= NoInput
      BY <1>1, <3>1 DEF Control
    <3>5. cal.input /= NoInput
      BY <3>1 DEF QueueAssumption
    <3>6. /\ Len(queue') = Len(queue)
          /\ \A k \in 1 .. Len(queue) : queue'[k].file /= NoInput
      BY <3>2, <3>3, <3>4, <3>5 DEF Puts
    <3>7. cal'.caller = "none" /\ queue_cur > 0
      BY <1>1, <3>1 DEF NoCal, Control
    <3>8. QED BY <1>1, <3>1, <3>6, <3>7 DEF Control
  <2>13. CASE Abandon
    <3>1. /\ RowsKept /\ UNCHANGED <<stop_soon, queue_cur, cal>>
          /\ pc = "abandon" /\ pc' = "next" /\ ~needs_write'
          /\ queue_cur \in 1 .. Len(queue)
      BY <2>1, <2>13, AbandonDoes
    <3>2. /\ \A k \in 1 .. Len(queue) : queue'[k].file = queue[k].file
          /\ Len(queue') = Len(queue)
      BY <3>1 DEF RowsKept, Same
    <3>3. QED BY <1>1, <3>1, <3>2 DEF Control
  <2>14. QED
    BY <1>2, <2>2, <2>3, <2>4, <2>5, <2>6, <2>7, <2>8, <2>9, <2>10, <2>11, <2>12, <2>13
       DEF Fuzz
<1>3. CASE Interrupt
  <2>1. /\ stop_soon' /\ UNCHANGED <<queue, cal, in_buf, needs_write, queue_cur, pc>>
    BY <1>3, InterruptDoes
  <2>2. QED BY <1>1, <2>1 DEF Control
<1>4. CASE UNCHANGED vars
  BY <1>4 DEF Control, vars, cycle, stage
<1>5. QED BY <1>2, <1>3, <1>4 DEF Next, Ended
================================================================================
