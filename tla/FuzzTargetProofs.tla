--------------------------- MODULE FuzzTargetProofs ---------------------------
(***************************************************************************)
(* Proofs about FuzzTarget, for every design, every set of inputs and any  *)
(* number of runs.  IInv follows a run word by word next to what Before    *)
(* says of it: a function f gives the register before each word so far.    *)
(***************************************************************************)
EXTENDS FuzzTarget, FiniteSetTheorems, SequenceTheorems, TLAPS

\* A run that goes on, and one that has returned.
Started == [words : Seq(Bit)]
Finished == [words : Seq(Bit), valid : BOOLEAN, coverage : -128 .. 127]

Types ==
    /\ design \in Designs /\ fullToggle \in BOOLEAN /\ metaCovers \in BOOLEAN
    /\ reg \in Bit /\ mem \in Bit
    /\ prevReset \in Bit /\ prevCond \in Bit /\ toggleStore \in Bit
    /\ count \in Nat /\ isValid \in BOOLEAN
    /\ phase \in {"idle", "reset", "run"} /\ input \in Seq(Bit)
    /\ results \in Seq(Started \cup Finished)
    /\ \A k \in Returned : results[k] \in Finished

\* The words of the last run, and how many of them it has had.
Word == results[Len(results)].words
Done == Len(Word) - Len(input)

\* The input is what is left of the words.
Rest ==
    phase /= "idle" =>
        /\ Len(results) > 0 /\ Word \in Seq(Bit) /\ \E i \in Inputs : i.words = Word
        /\ Len(input) <= Len(Word)
        /\ \A k \in 1 .. Len(input) : input[k] = Word[Done + k]
        /\ phase = "reset" => Len(input) = Len(Word)

\* Every cycle counts at most once, and Reset forgets what was counted before.
Bounded ==
    /\ phase = "idle" => \E i \in Inputs : count <= Len(i.words)
    /\ phase = "reset" => \E i \in Inputs : count <= Len(i.words) + 1
    /\ phase = "run" => count <= Done

\* What RunsAreIndependent asks of the design and of the instrumentation.
FromWords == ~UsesMemory /\ (fullToggle => metaCovers)

Cleared0 == FromWords /\ phase = "reset" /\ fullToggle => toggleStore = 0

At(f, k) == <<f[k], 0, Word[k]>>

\* The register follows the words: f[k] is its value before word k.
Follows(f) ==
    /\ f[1] = design.init
    /\ \A k \in 2 .. Done + 1 : f[k] = design.next[At(f, k - 1)]
    /\ reg = f[Done + 1]

\* The equation that defines Before.
IsBefore(g) ==
    g = [k \in 1 .. Len(Word) + 1 |->
            IF k = 1 THEN design.init ELSE design.next[<<g[k - 1], 0, Word[k - 1]>>]]

\* No other function satisfies it.
Agrees(f) ==
    IsBefore(Before(Word)) => \A k \in 1 .. Done + 1 : Before(Word)[k] = f[k]

Failures(f) ==
    isValid <=> \A k \in 1 .. Done : design.fail[At(f, k)] = 0

ToggledAt(f, n) ==
    {k \in 2 .. n : design.cond[At(f, k)] /= design.cond[At(f, k - 1)]}

Covers(f) ==
    LET n == Cardinality(ToggledAt(f, Done))
    IN IF fullToggle THEN toggleStore = n % 2 /\ count = n \div 2 ELSE count = n

RunFollows ==
    FromWords /\ phase = "run" =>
        /\ prevReset = (IF Done = 0 THEN 1 ELSE 0)
        /\ \E f \in [1 .. Done + 1 -> Bit] :
              /\ Follows(f) /\ Agrees(f) /\ Failures(f) /\ Covers(f)
              /\ Done > 0 => prevCond = design.cond[At(f, Done)]

Exact ==
    FromWords => \A k \in Returned : results[k] = Expected(results[k].words)

IInv == Types /\ Rest /\ Bounded /\ Cleared0 /\ RunFollows /\ Exact

------------------------------------------------------------------------------
(* The tables, the cycle and what is counted *)

LEMMA Tables ==
    ASSUME design \in Designs, NEW r \in Bit, NEW m \in Bit, NEW pins \in Bit
    PROVE  /\ design.init \in Bit
           /\ design.next[<<r, m, pins>>] \in Bit /\ design.cond[<<r, m, pins>>] \in Bit
           /\ design.fail[<<r, m, pins>>] \in Bit /\ design.write[<<r, m, pins>>] \in Bit
<1>1. design \in [next : Table, init : Bit, cond : Table, fail : Table, write : Table]
  BY FuzzTargetAssumption
<1>2. <<r, m, pins>> \in Bit \X Bit \X Bit
  OBVIOUS
<1> QED
  BY <1>1, <1>2 DEF Table

LEMMA MemoryUnused ==
    ASSUME ~UsesMemory, NEW r \in Bit, NEW m \in Bit, NEW pins \in Bit
    PROVE  /\ design.next[<<r, m, pins>>] = design.next[<<r, 0, pins>>]
           /\ design.cond[<<r, m, pins>>] = design.cond[<<r, 0, pins>>]
           /\ design.fail[<<r, m, pins>>] = design.fail[<<r, 0, pins>>]
<1>1. m = 0 \/ m = 1
  BY DEF Bit
<1>2. \A table \in {design.next, design.cond, design.fail} :
          table[<<r, 0, pins>>] = table[<<r, 1, pins>>]
  BY DEF UsesMemory
<1> QED
  BY <1>1, <1>2

LEMMA ClockTypes ==
    ASSUME design \in Designs, reg \in Bit, mem \in Bit, prevReset \in Bit,
           prevCond \in Bit, toggleStore \in Bit,
           NEW metaReset \in Bit, NEW reset \in Bit, NEW pins \in Bit,
           Clock(metaReset, reset, pins)
    PROVE  /\ reg' \in Bit /\ mem' \in Bit
           /\ prevReset' \in Bit /\ prevCond' \in Bit /\ toggleStore' \in Bit
<1> DEFINE at == <<reg, mem, pins>>
<1>1. /\ design.init \in Bit /\ design.next[at] \in Bit /\ design.cond[at] \in Bit
  BY Tables
<1>2. 0 \in Bit /\ 1 \in Bit /\ 1 - toggleStore \in Bit
  BY DEF Bit
<1>3. reg' \in Bit /\ mem' \in Bit
  BY <1>1, <1>2 DEF Clock
<1>4. prevReset' \in Bit /\ prevCond' \in Bit /\ toggleStore' \in Bit
  BY <1>1, <1>2 DEF Clock, Cleared, Cond
<1> QED
  BY <1>3, <1>4

\* A cycle counts once or not at all.
LEMMA CountedTypes ==
    ASSUME count \in Nat, NEW reset, NEW pins
    PROVE  Counted(reset, pins) \in {count, count + 1}
BY DEF Counted

LEMMA CoverageIsByte ==
    ASSUME NEW n \in Nat
    PROVE  Coverage(n) \in -128 .. 127
<1>1. ASSUME NEW m \in Nat PROVE ToByte(m) \in -128 .. 127
  <2>1. m % 256 \in 0 .. 255
    OBVIOUS
  <2> QED
    BY <2>1 DEF ToByte
<1> QED
  BY <1>1, FuzzTargetAssumption DEF Coverage

\* If any function satisfies the equation of Before, Before does.
LEMMA BeforeSatisfies ==
    ASSUME NEW g, IsBefore(g)
    PROVE  IsBefore(Before(Word))
BY Zenon DEF IsBefore, Before

\* One more word toggles the condition once or not at all.
LEMMA OneMoreToggle ==
    ASSUME NEW f, NEW n \in Nat
    PROVE  /\ IsFiniteSet(ToggledAt(f, n)) /\ Cardinality(ToggledAt(f, n)) \in Nat
           /\ n = 0 => ToggledAt(f, n + 1) = ToggledAt(f, n)
           /\ n > 0 => Cardinality(ToggledAt(f, n + 1)) =
                  Cardinality(ToggledAt(f, n))
                  + (IF design.cond[At(f, n + 1)] /= design.cond[At(f, n)] THEN 1 ELSE 0)
<1>1. IsFiniteSet(ToggledAt(f, n)) /\ Cardinality(ToggledAt(f, n)) \in Nat
  <2>1. IsFiniteSet(2 .. n)
    BY FS_Interval
  <2> QED
    BY <2>1, FS_Subset, FS_CardinalityType DEF ToggledAt
<1>2. n = 0 => ToggledAt(f, n + 1) = ToggledAt(f, n)
  BY DEF ToggledAt
<1>3. ASSUME n > 0
      PROVE  Cardinality(ToggledAt(f, n + 1)) = Cardinality(ToggledAt(f, n))
                 + (IF design.cond[At(f, n + 1)] /= design.cond[At(f, n)] THEN 1 ELSE 0)
  <2>1. /\ n + 1 \notin ToggledAt(f, n) /\ n + 1 \in 2 .. n + 1 /\ (n + 1) - 1 = n
        /\ \A k : k \in 2 .. n + 1 <=> k \in 2 .. n \/ k = n + 1
    BY <1>3 DEF ToggledAt
  <2>2. CASE design.cond[At(f, n + 1)] /= design.cond[At(f, n)]
    <3>1. ToggledAt(f, n + 1) = ToggledAt(f, n) \cup {n + 1}
      BY <2>1, <2>2 DEF ToggledAt
    <3> QED
      BY <1>1, <2>1, <2>2, <3>1, FS_AddElement
  <2>3. CASE design.cond[At(f, n + 1)] = design.cond[At(f, n)]
    <3>1. ToggledAt(f, n + 1) = ToggledAt(f, n)
      BY <2>1, <2>3 DEF ToggledAt
    <3> QED
      BY <1>1, <2>3, <3>1
  <2> QED
    BY <2>2, <2>3
<1> QED
  BY <1>1, <1>2, <1>3

------------------------------------------------------------------------------
(* Init and the actions *)

LEMMA InitIInv == Init => IInv
<1> SUFFICES ASSUME Init PROVE IInv
  OBVIOUS
<1> USE DEF Init
<1>1. Returned = {}
  BY DEF Returned
<1>2. Types
  BY <1>1 DEF Types, Bit
<1>3. Rest /\ Cleared0 /\ RunFollows
  BY DEF Rest, Cleared0, RunFollows
<1>4. Bounded
  <2>1. PICK i \in Inputs : TRUE
    BY FuzzTargetAssumption
  <2>2. Len(i.words) \in Nat
    BY FuzzTargetAssumption, LenProperties
  <2> QED
    BY <2>2 DEF Bounded
<1>5. Exact
  BY <1>1 DEF Exact
<1> QED
  BY <1>2, <1>3, <1>4, <1>5 DEF IInv

LEMMA BeforeSame ==
    ASSUME NEW words, design' = design
    PROVE  Before(words)' = Before(words)
BY DEF Before

LEMMA ExpectedSame ==
    ASSUME NEW words, design' = design, fullToggle' = fullToggle
    PROVE  Expected(words)' = Expected(words)
BY DEF Expected, Before

\* A result that was there before stays exact.
LEMMA StillExact ==
    ASSUME Exact, UNCHANGED config, FromWords', NEW k \in Returned,
           results'[k] = results[k]
    PROVE  (results[k] = Expected(results[k].words))'
<1>1. UNCHANGED <<design, fullToggle, metaCovers>>
  BY DEF config
<1>2. FromWords
  BY <1>1 DEF FromWords, UsesMemory
<1>3. results[k] = Expected(results[k].words)
  BY <1>2 DEF Exact
<1>4. PICK words : words = results[k].words
  OBVIOUS
<1>5. Expected(words)' = Expected(words)
  BY <1>1, ExpectedSame
<1>6. Expected(results[k].words)' = Expected(words)'
  BY <1>4
<1> QED
  BY <1>3, <1>4, <1>5, <1>6

LEMMA MetaResetIInv ==
    ASSUME IInv, MetaReset
    PROVE  IInv'
<1> USE DEF IInv
<1>1. PICK i \in Inputs : input' = i.words /\ results' = Append(results, [words |-> i.words])
  BY DEF MetaReset, Words
<1>2. /\ phase = "idle" /\ phase' = "reset" /\ Clock(1, 0, 0)
      /\ count' = Counted(0, 0) /\ isValid' = StillValid(0)
      /\ UNCHANGED <<design, fullToggle, metaCovers>>
  BY DEF MetaReset, config
<1>3. i.words \in Seq(Bit) /\ [words |-> i.words] \in Started
  BY FuzzTargetAssumption DEF Started
<1>4. /\ results \in Seq(Started \cup Finished) /\ Len(results) \in Nat
      /\ DOMAIN results = 1 .. Len(results)
  BY LenProperties DEF Types
<1>5. /\ results' \in Seq(Started \cup Finished) /\ Len(results') = Len(results) + 1
      /\ \A k \in 1 .. Len(results) : results'[k] = results[k]
      /\ results'[Len(results) + 1] = [words |-> i.words]
  <2>1. [words |-> i.words] \in Started \cup Finished
    BY <1>3
  <2> QED
    BY <1>1, <1>4, <2>1, AppendProperties
<1>6. Word' = i.words
  BY <1>5 DEF Word
<1>7. Returned = 1 .. Len(results) /\ Returned' = 1 .. Len(results)
  <2>1. DOMAIN results' = 1 .. Len(results) + 1
    BY <1>5
  <2> QED
    BY <1>2, <1>4, <1>5, <2>1 DEF Returned
<1>8. Types'
  <2>1. count' \in Nat
    BY <1>2, CountedTypes DEF Types
  <2>2. isValid' \in BOOLEAN
    BY <1>2 DEF StillValid, Types
  <2>3. \A k \in Returned' : results'[k] \in Finished
    BY <1>5, <1>7 DEF Types
  <2>4. 0 \in Bit /\ 1 \in Bit
    BY DEF Bit
  <2>5. /\ reg' \in Bit /\ mem' \in Bit
        /\ prevReset' \in Bit /\ prevCond' \in Bit /\ toggleStore' \in Bit
    BY <1>2, <2>4, ClockTypes DEF Types
  <2>6. design' \in Designs /\ fullToggle' \in BOOLEAN /\ metaCovers' \in BOOLEAN
    BY <1>2 DEF Types
  <2> QED
    BY <1>1, <1>2, <1>3, <1>5, <2>1, <2>2, <2>3, <2>5, <2>6 DEF Types
<1>9. Rest'
  <2>1. Len(i.words) \in Nat /\ Done' = 0
    BY <1>1, <1>3, <1>6, LenProperties DEF Done
  <2> QED
    BY <1>1, <1>3, <1>4, <1>5, <1>6, <2>1 DEF Rest
<1>10. Bounded'
  <2>1. PICK k \in Inputs : count <= Len(k.words)
    BY <1>2 DEF Bounded
  <2>2. Len(k.words) \in Nat
    BY FuzzTargetAssumption, LenProperties
  <2>3. count' <= Len(k.words) + 1
    BY <1>2, <2>1, <2>2, CountedTypes DEF Types
  <2> QED
    BY <1>2, <2>3 DEF Bounded
<1>11. Cleared0'
  BY <1>2 DEF Cleared0, FromWords, Clock, Cleared, UsesMemory
<1>12. RunFollows'
  BY <1>2 DEF RunFollows
<1>13. Exact'
  <2> SUFFICES ASSUME FromWords', NEW k \in Returned'
               PROVE  (results[k] = Expected(results[k].words))'
    BY DEF Exact
  <2>1. k \in Returned /\ results'[k] = results[k]
    BY <1>5, <1>7
  <2> QED
    BY <1>2, <2>1, StillExact DEF config
<1> QED
  BY <1>8, <1>9, <1>10, <1>11, <1>12, <1>13

LEMMA ResetIInv ==
    ASSUME IInv, Reset
    PROVE  IInv'
<1> USE DEF IInv
<1>1. /\ phase = "reset" /\ phase' = "run" /\ Clock(0, 1, 0) /\ count' = 0 /\ isValid' = TRUE
      /\ UNCHANGED <<design, fullToggle, metaCovers, input, results>>
  BY DEF Reset, config
<1>2. Word' = Word /\ Returned' = Returned
  BY <1>1 DEF Word, Returned
<1>3. /\ Word \in Seq(Bit) /\ Len(Word) \in Nat /\ Len(input) = Len(Word)
      /\ Done = 0 /\ Done' = 0
  BY <1>1, <1>2, LenProperties DEF Rest, Done
<1>4. 0 \in Bit /\ 1 \in Bit /\ design.init \in Bit
  BY Tables DEF Bit, Types
<1>5. Types'
  <2>1. /\ reg' \in Bit /\ mem' \in Bit
        /\ prevReset' \in Bit /\ prevCond' \in Bit /\ toggleStore' \in Bit
    BY <1>1, <1>4, ClockTypes DEF Types
  <2> QED
    BY <1>1, <1>2, <2>1 DEF Types
<1>6. Rest'
  BY <1>1, <1>2, <1>3 DEF Rest
<1>7. Bounded'
  BY <1>1, <1>3 DEF Bounded
<1>8. Cleared0'
  BY <1>1 DEF Cleared0
<1>9. RunFollows'
  <2> SUFFICES ASSUME FromWords' PROVE RunFollows'
    BY DEF RunFollows
  <2>1. FromWords
    BY <1>1 DEF FromWords, UsesMemory
  <2>2. /\ reg' = design.init /\ prevReset' = 1
        /\ fullToggle => toggleStore' = 0
    BY <1>1, <2>1 DEF Clock, Cleared, Toggled, Cleared0
  <2>3. PICK f \in [1 .. 1 -> Bit] : f[1] = design.init
    <3> DEFINE h == [k \in 1 .. 1 |-> design.init]
    <3>1. h \in [1 .. 1 -> Bit] /\ h[1] = design.init
      BY <1>4
    <3> HIDE DEF h
    <3> QED
      BY <3>1
  <2>4. Follows(f)'
    BY <1>1, <1>3, <2>2, <2>3 DEF Follows
  <2>5. Agrees(f)'
    <3> SUFFICES ASSUME NEW b, b = Before(Word)', IsBefore(b)' PROVE b[1] = f[1]
      BY <1>3 DEF Agrees
    <3>1. b[1] = design'.init
      BY <1>2, <1>3 DEF IsBefore
    <3> QED
      BY <1>1, <2>3, <3>1
  <2>6. Failures(f)'
    BY <1>1, <1>3 DEF Failures
  <2>7. Covers(f)'
    <3>1. ToggledAt(f, Done)' = {}
      BY <1>3 DEF ToggledAt
    <3>2. Cardinality(ToggledAt(f, Done)') = 0
      BY <3>1, FS_EmptySet
    <3> QED
      BY <1>1, <2>2, <3>2 DEF Covers
  <2>8. prevReset' = (IF Done' = 0 THEN 1 ELSE 0)
    BY <1>3, <2>2
  <2>9. f \in [1 .. Done' + 1 -> Bit] /\ ~(Done' > 0)
    BY <1>3
  <2> QED
    BY <2>4, <2>5, <2>6, <2>7, <2>8, <2>9 DEF RunFollows
<1>10. Exact'
  <2> SUFFICES ASSUME FromWords', NEW k \in Returned'
               PROVE  (results[k] = Expected(results[k].words))'
    BY DEF Exact
  <2> QED
    BY <1>1, <1>2, StillExact DEF config
<1> QED
  BY <1>5, <1>6, <1>7, <1>8, <1>9, <1>10

\* What one more word does to the function that a run follows.
LEMMA StepFollows ==
    ASSUME IInv, Step, FromWords
    PROVE  RunFollows'
<1> USE DEF IInv
<1>1. /\ phase = "run" /\ input /= <<>> /\ Clock(0, 0, Head(input))
      /\ count' = Counted(0, Head(input)) /\ isValid' = StillValid(Head(input))
      /\ input' = Tail(input)
      /\ UNCHANGED <<design, fullToggle, metaCovers, phase, results>>
  BY DEF Step, config
<1>2. Word' = Word
  BY <1>1 DEF Word
<1>3. /\ Word \in Seq(Bit) /\ Len(Word) \in Nat /\ Len(input) \in 1 .. Len(Word)
      /\ Head(input) = input[1] /\ Len(input') = Len(input) - 1
  BY <1>1, LenProperties, HeadTailProperties, EmptySeq DEF Rest, Types
<1>4. /\ Done \in Nat /\ Done + 1 <= Len(Word) /\ Done' = Done + 1
      /\ Head(input) = Word[Done + 1] /\ Word[Done + 1] \in Bit
  <2>1. Done \in Nat /\ Done + 1 <= Len(Word) /\ Done' = Done + 1
    BY <1>2, <1>3 DEF Done
  <2>2. input[1] = Word[Done + 1]
    BY <1>1, <1>3 DEF Rest
  <2> QED
    BY <1>3, <2>1, <2>2
<1>5. PICK f \in [1 .. Done + 1 -> Bit] :
          /\ Follows(f) /\ Agrees(f) /\ Failures(f) /\ Covers(f)
          /\ Done > 0 => prevCond = design.cond[At(f, Done)]
  BY <1>1 DEF RunFollows
<1>6. /\ prevReset = (IF Done = 0 THEN 1 ELSE 0)
      /\ reg \in Bit /\ mem \in Bit /\ design \in Designs
      /\ count \in Nat /\ toggleStore \in Bit /\ fullToggle \in BOOLEAN /\ isValid \in BOOLEAN
  BY <1>1 DEF RunFollows, Types
<1> DEFINE pins == Head(input)
<1>7. PICK g \in [1 .. Done + 2 -> Bit] :
          /\ \A k \in 1 .. Done + 1 : g[k] = f[k]
          /\ g[Done + 2] = design.next[<<reg, 0, pins>>]
  <2> DEFINE h == [k \in 1 .. Done + 2 |->
                       IF k = Done + 2 THEN design.next[<<reg, 0, pins>>] ELSE f[k]]
  <2>1. 0 \in Bit
    BY DEF Bit
  <2>2. design.next[<<reg, 0, pins>>] \in Bit
    BY <1>4, <1>6, <2>1, Tables
  <2>3. h \in [1 .. Done + 2 -> Bit]
    BY <1>4, <2>2
  <2>4. /\ \A k \in 1 .. Done + 1 : h[k] = f[k]
        /\ h[Done + 2] = design.next[<<reg, 0, pins>>]
    BY <1>4
  <2> HIDE DEF h
  <2> QED
    BY <2>3, <2>4
<1>8. /\ \A k \in 1 .. Done + 1 : At(g, k) = At(f, k)
      /\ At(f, Done + 1) = <<reg, 0, pins>>
      /\ \A k \in 1 .. Done + 2 : At(g, k)' = At(g, k)
  BY <1>2, <1>4, <1>5, <1>7 DEF At, Follows
<1>9. /\ design.next[<<reg, mem, pins>>] = design.next[<<reg, 0, pins>>]
      /\ design.cond[<<reg, mem, pins>>] = design.cond[<<reg, 0, pins>>]
      /\ design.fail[<<reg, mem, pins>>] = design.fail[<<reg, 0, pins>>]
  BY <1>4, <1>6, MemoryUnused DEF FromWords
<1>a. At(g, Done + 1) = <<reg, 0, pins>> /\ \A k \in 1 .. Done : At(g, k) = At(f, k)
  BY <1>4, <1>8
<1>10. Follows(g)'
  <2>1. reg' = g[Done + 2]
    BY <1>1, <1>7, <1>9 DEF Clock
  <2>2. g[1] = design.init
    BY <1>4, <1>5, <1>7 DEF Follows
  <2>3. ASSUME NEW k \in 2 .. Done + 2 PROVE g[k] = design.next[At(g, k - 1)]
    <3>1. CASE k = Done + 2
      BY <1>4, <1>7, <1>8, <3>1
    <3>2. CASE k \in 2 .. Done + 1
      BY <1>4, <1>5, <1>7, <1>8, <3>2 DEF Follows
    <3> QED
      BY <1>4, <3>1, <3>2
  <2>4. ASSUME NEW k \in 2 .. Done + 2 PROVE At(g, k - 1)' = At(g, k - 1)
    BY <1>4, <1>8
  <2> QED
    BY <1>1, <1>4, <2>1, <2>2, <2>3, <2>4 DEF Follows
<1>11. Agrees(g)'
  <2> SUFFICES ASSUME NEW b, b = Before(Word)', IsBefore(b)'
               PROVE  \A k \in 1 .. Done + 2 : b[k] = g[k]
    BY <1>4 DEF Agrees
  <2>1. b = Before(Word)
    <3>1. PICK words : words = Word
      OBVIOUS
    <3>2. Before(words)' = Before(words)
      BY <1>1, BeforeSame
    <3> QED
      BY <1>2, <3>1, <3>2
  <2>2. IsBefore(b)
    BY <1>1, <1>2 DEF IsBefore
  <2>3. \A k \in 1 .. Done + 1 : b[k] = f[k]
    BY <1>5, <2>1, <2>2 DEF Agrees
  <2>4. b[Done + 2] = design.next[<<b[Done + 1], 0, Word[Done + 1]>>]
    <3>1. Done + 2 \in 1 .. Len(Word) + 1 /\ Done + 2 /= 1 /\ (Done + 2) - 1 = Done + 1
      BY <1>3, <1>4
    <3> QED
      BY <2>2, <3>1, SMTT(30) DEF IsBefore
  <2>5. b[Done + 2] = g[Done + 2]
    BY <1>4, <1>5, <1>7, <2>3, <2>4, SMTT(30) DEF Follows
  <2> QED
    BY <1>4, <1>7, <2>3, <2>5
<1>12. Failures(g)'
  <2>1. isValid' <=> isValid /\ design.fail[At(g, Done + 1)] = 0
    BY <1>1, <1>6, <1>9, <1>a DEF StillValid
  <2>2. isValid <=> \A k \in 1 .. Done : design.fail[At(g, k)] = 0
    BY <1>5, <1>a DEF Failures
  <2>3. isValid' <=> \A k \in 1 .. Done + 1 : design.fail[At(g, k)] = 0
    BY <1>4, <2>1, <2>2
  <2> QED
    BY <1>1, <1>4, <1>8, <2>3 DEF Failures
<1>13. Covers(g)' /\ prevCond' = design'.cond[At(g, Done)']
  <2>1. prevCond' = design.cond[At(g, Done + 1)]
    BY <1>1, <1>9, <1>a, SMTT(30) DEF Clock, Cleared, Cond
  <2>2. Toggled(Cond(pins), 0) <=>
            Done > 0 /\ design.cond[At(g, Done + 1)] /= design.cond[At(g, Done)]
    <3>1. CASE Done = 0
      BY <1>6, <3>1 DEF Toggled
    <3>2. CASE Done > 0
      <4>1. prevCond = design.cond[At(g, Done)]
        BY <1>4, <1>5, <1>a, <3>2
      <4>2. Cond(pins) = design.cond[At(g, Done + 1)]
        BY <1>9, <1>a DEF Cond
      <4> QED
        BY <1>6, <3>2, <4>1, <4>2 DEF Toggled
    <3> QED
      BY <1>4, <3>1, <3>2
  <2> DEFINE n == Cardinality(ToggledAt(f, Done))
             m == Cardinality(ToggledAt(g, Done + 1))
  <2>3. ToggledAt(f, Done) = ToggledAt(g, Done)
    BY <1>4, <1>8 DEF ToggledAt
  <2>4. n \in Nat /\ m = n + (IF Toggled(Cond(pins), 0) THEN 1 ELSE 0)
    BY <1>4, <2>2, <2>3, OneMoreToggle, SMTT(30)
  <2>5. Cardinality(ToggledAt(g, Done)') = m
    <3>1. ToggledAt(g, Done)' = ToggledAt(g, Done + 1)
      <4>1. \A k \in 2 .. Done + 1 : At(g, k)' = At(g, k) /\ At(g, k - 1)' = At(g, k - 1)
        BY <1>4, <1>8
      <4> QED
        BY <1>1, <1>4, <4>1 DEF ToggledAt
    <3> QED
      BY <3>1
  <2>6. IF fullToggle THEN toggleStore = n % 2 /\ count = n \div 2 ELSE count = n
    BY <1>5 DEF Covers
  <2> HIDE DEF n, m
  <2>7. /\ toggleStore' = IF Toggled(Cond(pins), 0) THEN 1 - toggleStore ELSE toggleStore
        /\ count' = count + (IF Toggled(Cond(pins), 0) /\ (fullToggle => toggleStore = 1)
                             THEN 1 ELSE 0)
    BY <1>1 DEF Clock, Cleared, Counted, Covered
  <2>8. IF fullToggle THEN toggleStore' = m % 2 /\ count' = m \div 2 ELSE count' = m
    <3>1. CASE Toggled(Cond(pins), 0)
      BY <1>6, <2>4, <2>6, <2>7, <3>1
    <3>2. CASE ~Toggled(Cond(pins), 0)
      BY <1>6, <2>4, <2>6, <2>7, <3>2
    <3> QED
      BY <3>1, <3>2
  <2>9. Covers(g)'
    BY <1>1, <2>5, <2>8 DEF Covers
  <2>10. At(g, Done)' = At(g, Done + 1)
    BY <1>4, <1>8 DEF At
  <2> QED
    BY <1>1, <2>1, <2>9, <2>10
<1>14. prevReset' = 0
  BY <1>1 DEF Clock, Cleared
<1> QED
  BY <1>4, <1>7, <1>10, <1>11, <1>12, <1>13, <1>14 DEF RunFollows

LEMMA StepIInv ==
    ASSUME IInv, Step
    PROVE  IInv'
<1> USE DEF IInv
<1>1. /\ phase = "run" /\ input /= <<>> /\ Clock(0, 0, Head(input))
      /\ count' = Counted(0, Head(input)) /\ isValid' = StillValid(Head(input))
      /\ input' = Tail(input)
      /\ UNCHANGED <<design, fullToggle, metaCovers, phase, results>>
  BY DEF Step, config
<1>2. Word' = Word /\ Returned' = Returned
  BY <1>1 DEF Word, Returned
<1>3. input \in Seq(Bit) /\ Word \in Seq(Bit) /\ Len(Word) \in Nat /\ Len(input) <= Len(Word)
  BY <1>1, LenProperties DEF Rest, Types
<1>4. /\ Len(input) \in Nat \ {0} /\ Head(input) \in Bit
      /\ input' \in Seq(Bit) /\ Len(input') = Len(input) - 1
      /\ \A k \in 1 .. Len(input) - 1 : input'[k] = input[k + 1]
  BY <1>1, <1>3, HeadTailProperties, EmptySeq, LenProperties
<1>5. Done \in Nat /\ Done' = Done + 1
  BY <1>2, <1>3, <1>4 DEF Done
<1>6. count' \in {count, count + 1}
  BY <1>1, CountedTypes DEF Types
<1>7. Types'
  <2>1. 0 \in Bit
    BY DEF Bit
  <2>2. /\ reg' \in Bit /\ mem' \in Bit
        /\ prevReset' \in Bit /\ prevCond' \in Bit /\ toggleStore' \in Bit
    BY <1>1, <1>4, <2>1, ClockTypes DEF Types
  <2>3. isValid' \in BOOLEAN
    BY <1>1 DEF StillValid, Types
  <2>4. count' \in Nat
    BY <1>6 DEF Types
  <2> QED
    BY <1>1, <1>2, <1>4, <2>2, <2>3, <2>4 DEF Types
<1>8. Rest'
  <2>1. ASSUME NEW k \in 1 .. Len(input') PROVE input'[k] = Word[Done' + k]
    <3>1. k + 1 \in 1 .. Len(input) /\ input'[k] = input[k + 1]
      BY <1>4
    <3>2. input[k + 1] = Word[Done + (k + 1)]
      BY <1>1, <3>1 DEF Rest
    <3> QED
      BY <1>5, <3>1, <3>2
  <2> QED
    BY <1>1, <1>2, <1>3, <1>4, <2>1, SMTT(30) DEF Rest
<1>9. Bounded'
  BY <1>1, <1>5, <1>6 DEF Bounded, Types
<1>10. Cleared0'
  BY <1>1 DEF Cleared0
<1>11. RunFollows'
  <2>1. FromWords' <=> FromWords
    BY <1>1 DEF FromWords, UsesMemory
  <2> QED
    BY <2>1, StepFollows DEF RunFollows
<1>12. Exact'
  <2> SUFFICES ASSUME FromWords', NEW k \in Returned'
               PROVE  (results[k] = Expected(results[k].words))'
    BY DEF Exact
  <2> QED
    BY <1>1, <1>2, StillExact DEF config
<1> QED
  BY <1>7, <1>8, <1>9, <1>10, <1>11, <1>12

\* A run that is through with its words has followed Before to its end.
LEMMA RunExpected ==
    ASSUME IInv, phase = "run", input = <<>>, FromWords
    PROVE  [words |-> Word, valid |-> isValid,
            coverage |-> IF isValid THEN Coverage(count) ELSE 0] = Expected(Word)
<1> USE DEF IInv
<1>1. Word \in Seq(Bit) /\ Len(Word) \in Nat /\ Done = Len(Word) /\ DOMAIN Word = 1 .. Done
  BY LenProperties DEF Rest, Done
<1>2. PICK f \in [1 .. Done + 1 -> Bit] :
          Follows(f) /\ Agrees(f) /\ Failures(f) /\ Covers(f)
  BY DEF RunFollows
<1>3. IsBefore(f)
  <2>1. f = [k \in 1 .. Done + 1 |-> f[k]]
    BY <1>2
  <2>2. ASSUME NEW k \in 1 .. Done + 1
        PROVE  f[k] = IF k = 1 THEN design.init
                      ELSE design.next[<<f[k - 1], 0, Word[k - 1]>>]
    BY <1>1, <1>2 DEF Follows, At
  <2> QED
    BY <1>1, <2>1, <2>2 DEF IsBefore
<1>4. \A k \in 1 .. Done + 1 : Before(Word)[k] = f[k]
  BY <1>2, <1>3, BeforeSatisfies DEF Agrees
<1> DEFINE at(k) == <<Before(Word)[k], 0, Word[k]>>
<1>5. \A k \in 1 .. Done : at(k) = At(f, k)
  BY <1>1, <1>4 DEF At
<1>6. isValid <=> \A k \in DOMAIN Word : design.fail[at(k)] = 0
  BY <1>1, <1>2, <1>5 DEF Failures
<1>7. {k \in 2 .. Len(Word) : design.cond[at(k)] /= design.cond[at(k - 1)]} = ToggledAt(f, Done)
  <2>1. \A k \in 2 .. Done : at(k) = At(f, k) /\ at(k - 1) = At(f, k - 1)
    BY <1>1, <1>5
  <2> HIDE DEF at
  <2> QED
    BY <1>1, <2>1 DEF ToggledAt
<1>8. count = IF fullToggle THEN Cardinality(ToggledAt(f, Done)) \div 2
              ELSE Cardinality(ToggledAt(f, Done))
  BY <1>2 DEF Covers
<1> QED
  BY <1>6, <1>7, <1>8 DEF Expected, Types

LEMMA ReturnIInv ==
    ASSUME IInv, Return
    PROVE  IInv'
<1> USE DEF IInv
<1> DEFINE last == Len(results)
           result == [words |-> Word, valid |-> isValid,
                      coverage |-> IF isValid THEN Coverage(count) ELSE 0]
<1>1. /\ phase = "run" /\ input = <<>> /\ phase' = "idle"
      /\ results' = [results EXCEPT ![last] = result]
      /\ UNCHANGED <<design, fullToggle, metaCovers, reg, mem, prevReset, prevCond,
                     toggleStore, count, isValid, input>>
  BY DEF Return, config, hardware, Word
<1>2. /\ results \in Seq(Started \cup Finished) /\ last \in Nat \ {0}
      /\ DOMAIN results = 1 .. last
      /\ Word \in Seq(Bit) /\ Done = Len(Word)
  BY <1>1, LenProperties DEF Types, Rest, Done
<1>3. result \in Finished
  <2>1. Coverage(count) \in -128 .. 127 /\ 0 \in -128 .. 127 /\ isValid \in BOOLEAN
    BY CoverageIsByte, SMTT(30) DEF Types
  <2> QED
    BY <1>2, <2>1 DEF Finished
<1> HIDE DEF result
<1>4. /\ results' \in Seq(Started \cup Finished) /\ Len(results') = last
      /\ \A k \in 1 .. last : results'[k] = IF k = last THEN result ELSE results[k]
  <2>1. result \in Started \cup Finished /\ last \in 1 .. Len(results)
    BY <1>2, <1>3
  <2> QED
    BY <1>1, <1>2, <2>1, ExceptSeq
<1>5. Returned = 1 .. last - 1 /\ Returned' = 1 .. last
  <2>1. DOMAIN results' = 1 .. last
    BY <1>4
  <2> QED
    BY <1>1, <1>2, <1>4, <2>1 DEF Returned
<1>6. Types'
  <2>1. \A k \in Returned' : results'[k] \in Finished
    BY <1>2, <1>3, <1>4, <1>5 DEF Types
  <2> QED
    BY <1>1, <1>4, <2>1 DEF Types
<1>7. Rest' /\ Cleared0' /\ RunFollows'
  BY <1>1 DEF Rest, Cleared0, RunFollows
<1>8. Bounded'
  BY <1>1, <1>2 DEF Bounded, Rest
<1>9. Exact'
  <2> SUFFICES ASSUME FromWords', NEW k \in Returned'
               PROVE  (results[k] = Expected(results[k].words))'
    BY DEF Exact
  <2>1. FromWords
    BY <1>1 DEF FromWords, UsesMemory
  <2>2. CASE k = last
    <3>1. results'[k] = result /\ result.words = Word
      BY <1>4, <1>5, <2>2 DEF result
    <3>2. PICK words : words = Word
      OBVIOUS
    <3>3. result = Expected(words)
      BY <1>1, <2>1, <3>2, RunExpected DEF result
    <3>4. Expected(words)' = Expected(words)
      BY <1>1, ExpectedSame
    <3>5. Expected(results[k].words)' = Expected(words)'
      BY <3>1, <3>2
    <3> QED
      BY <3>1, <3>3, <3>4, <3>5
  <2>3. CASE k /= last
    <3>1. k \in 1 .. last - 1
      <4>1. k \in 1 .. last
        BY <1>5
      <4>2. last \in Nat
        BY <1>2
      <4> HIDE DEF last
      <4> QED
        BY <2>3, <4>1, <4>2
    <3>2. k \in Returned /\ results'[k] = results[k]
      <4>1. k \in 1 .. last
        BY <1>5
      <4> QED
        BY <1>4, <1>5, <2>3, <3>1, <4>1
    <3> QED
      BY <1>1, <3>2, StillExact DEF config
  <2> QED
    BY <2>2, <2>3
<1> QED
  BY <1>6, <1>7, <1>8, <1>9

LEMMA StutterIInv ==
    ASSUME IInv, UNCHANGED vars
    PROVE  IInv'
<1> USE DEF IInv, vars, config, hardware
<1>1. Word' = Word /\ Done' = Done /\ Returned' = Returned /\ (FromWords' <=> FromWords)
  BY DEF Word, Done, Returned, FromWords, UsesMemory
<1>2. Types' /\ Rest' /\ Bounded' /\ Cleared0'
  BY <1>1 DEF Types, Rest, Bounded, Cleared0
<1>3. RunFollows'
  <2>2. ASSUME NEW f
        PROVE  /\ (Follows(f)' <=> Follows(f)) /\ (Agrees(f)' <=> Agrees(f))
               /\ (Failures(f)' <=> Failures(f)) /\ (Covers(f)' <=> Covers(f))
               /\ At(f, Done)' = At(f, Done)
    BY <1>1 DEF Follows, Agrees, Failures, Covers, At, ToggledAt, IsBefore, Before
  <2> QED
    BY <1>1, <2>2 DEF RunFollows
<1>4. Exact'
  <2> SUFFICES ASSUME FromWords', NEW k \in Returned'
               PROVE  (results[k] = Expected(results[k].words))'
    BY DEF Exact
  <2> QED
    BY <1>1, StillExact
<1> QED
  BY <1>2, <1>3, <1>4

------------------------------------------------------------------------------
\* The invariant holds throughout.
THEOREM IInvHolds == Spec => []IInv
<1>1. Init => IInv
  BY InitIInv
<1>2. IInv /\ [Next]_vars => IInv'
  BY MetaResetIInv, ResetIInv, StepIInv, ReturnIInv, StutterIInv DEF Next
<1> QED
  BY <1>1, <1>2, PTL DEF Spec

\* FuzzTarget.run and the passes that prepare the design: for every design without
\* memory, every set of inputs and any number of runs, what a run returns is what
\* its words cover after a reset, never what the runs before it have left.
THEOREM RunsIndependent == Spec => []RunsAreIndependent
<1>1. IInv => RunsAreIndependent
  <2> SUFFICES ASSUME IInv PROVE RunsAreIndependent
    OBVIOUS
  <2> USE DEF IInv
  <2>1. \E i \in Inputs : count <= Len(i.words) + 1
    <3>1. \A i \in Inputs : Len(i.words) \in Nat
      BY FuzzTargetAssumption, LenProperties
    <3>2. CASE phase = "idle"
      BY <3>1, <3>2 DEF Bounded, Types
    <3>3. CASE phase = "reset"
      BY <3>3 DEF Bounded
    <3>4. CASE phase = "run"
      <4>1. PICK i \in Inputs : i.words = Word
        BY <3>4 DEF Rest
      <4>2. Len(input) \in Nat /\ count <= Len(Word) - Len(input)
        BY <3>4, LenProperties DEF Bounded, Done, Types
      <4> QED
        BY <3>1, <4>1, <4>2 DEF Types
    <3> QED
      BY <3>2, <3>3, <3>4 DEF Types
  <2>2. TypeOK
    BY <2>1 DEF TypeOK, Types, Finished
  <2> QED
    BY <2>2 DEF RunsAreIndependent, Exact, FromWords
<1> QED
  BY <1>1, IInvHolds, PTL
==============================================================================
