-------------------------- MODULE FsmCoverageProofs --------------------------
(***************************************************************************)
(* Proofs about FsmCoverage for every set of states, every machine and     *)
(* simulations of any length.  The counters of the cover points are        *)
(* compared with the sets of cycles of the history that they stand for: in *)
(* each step such a set gains the cycle of that step or stays the same.    *)
(*                                                                         *)
(* The second part is about ToggleCoverage, for every design: where the    *)
(* coverage of a port goes, and which signals are sampled.  The third part *)
(* is about AliasAnalysis: that its groups are those of the signals that   *)
(* are connected.  The fourth part is about the report of ToggleCoverage:  *)
(* a view of cover points and port aliases tells where along the hierarchy *)
(* the coverage of each signal of each instance is to be found, and every  *)
(* step of the pass has a view that it leads to.                           *)
(***************************************************************************)
EXTENDS FsmCoverage, ToggleCoverage, FiniteSetTheorems, SequenceTheorems,
        WellFoundedInduction, TLAPS

Step == [state : States, reset : BOOLEAN]

\* The cycles of h that end transition t, and those that run in state s.
CyclesOf(h, t) ==
    {i \in 2 .. Len(h) : /\ ~h[i - 1].reset /\ ~h[i].reset
                         /\ <<h[i - 1].state, h[i].state>> = t}

CyclesIn(h, s) == {i \in 1 .. Len(h) : ~h[i].reset /\ h[i].state = s}

\* What the counter of transition k has more than the machine took it.
Excess(k) == transitionCount[k] - Cardinality(CyclesOf(history, fsm.transitions[k]))

CountersInRange ==
    /\ fsm \in Fsms
    /\ Len(history) <= MaxCycles
    /\ stateCount \in [States -> 0 .. Len(history)]
    /\ transitionCount \in [DOMAIN fsm.transitions -> 0 .. Len(history)]

\* The registers hold the cycle before, once there was one.
RegistersRight ==
    /\ state \in States /\ prev \in States /\ prevValid \in BOOLEAN
    /\ history \in Seq(Step)
    /\ history /= <<>> => /\ prev = history[Len(history)].state
                          /\ prevValid = ~history[Len(history)].reset
                          /\ fsm.hasReset => history[1].reset

\* The cover point of every state has counted the cycles in that state that
\* were not in reset.
StateCountsExact ==
    \A s \in States : stateCount[s] = Cardinality(CyclesIn(history, s))

\* Before the first cycle nothing is counted.  What that cycle may count too
\* much stays as it is.
ExcessRight ==
    /\ history = <<>> => \A k \in DOMAIN fsm.transitions : transitionCount[k] = 0
    /\ fsm.hasReset => \A k \in DOMAIN fsm.transitions : Excess(k) = 0
    /\ \A k, l \in DOMAIN fsm.transitions :
           Excess(k) /= 0 /\ Excess(l) /= 0 =>
               /\ Excess(k) = 1
               /\ fsm.transitions[k] = fsm.transitions[l]
               /\ fsm.transitions[k][2] = history[1].state

IInv ==
    /\ CountersInRange
    /\ RegistersRight
    /\ StateCountsExact
    /\ ExcessRight

------------------------------------------------------------------------------
(* The sum of a function, by induction over the subsets of its domain.  The  *)
(* library's induction theorems take an operator; the one about well-founded *)
(* relations takes sets, and Cardinality leads from the subsets to numbers.  *)

LEMMA Induction ==
    ASSUME NEW S, 0 \in S, \A n \in Nat : n \in S => n + 1 \in S
    PROVE  Nat \subseteq S
<1> SUFFICES ASSUME Nat \ S /= {} PROVE FALSE
  OBVIOUS
<1> DEFINE R == OpToRel(<, Nat)
<1>1. IsWellFoundedOn(R, Nat)
  BY NatLessThanWellFounded
<1>2. \A m, n \in Nat : m < n => <<m, n>> \in R
  BY DEF OpToRel
<1> HIDE DEF R
<1>3. PICK n \in Nat \ S : \A m \in Nat \ S : ~ (<<m, n>> \in R)
  <2>1. Nat \ S \subseteq Nat
    OBVIOUS
  <2> QED
    BY <1>1, <2>1, WFMin, Zenon
<1>4. \A m \in Nat \ S : ~(m < n)
  BY <1>2, <1>3
<1>5. n /= 0 /\ n - 1 \in Nat
  OBVIOUS
<1>6. n - 1 \in S
  BY <1>4, <1>5
<1>7. n - 1 + 1 \in S
  BY <1>5, <1>6
<1> QED
  BY <1>7

\* The subsets of d with at most n elements, and the element a sum takes first.
Small(d, n) == {s \in SUBSET d : Cardinality(s) <= n}
First(s) == CHOOSE x \in s : TRUE
Rest(s) == s \ {First(s)}

LEMMA Smaller ==
    ASSUME NEW d, IsFiniteSet(d), NEW n \in Nat, NEW s \in Small(d, n + 1), s /= {}
    PROVE  First(s) \in s /\ Rest(s) \in Small(d, n)
<1>1. First(s) \in s
  BY DEF First
<1>2. IsFiniteSet(s) /\ s \in SUBSET d /\ Cardinality(s) <= n + 1
  BY FS_Subset DEF Small
<1>3. Cardinality(s) \in Nat
  BY <1>2, FS_CardinalityType
<1>4. Cardinality(Rest(s)) = Cardinality(s) - 1
  BY <1>1, <1>2, FS_RemoveElement DEF Rest
<1>5. Rest(s) \in SUBSET d
  BY <1>2 DEF Rest
<1> QED
  BY <1>1, <1>2, <1>3, <1>4, <1>5 DEF Small

LEMMA SubsetInduction ==
    ASSUME NEW d, IsFiniteSet(d), NEW P, {} \in P,
           \A s \in SUBSET d : s /= {} /\ Rest(s) \in P => s \in P
    PROVE  SUBSET d \subseteq P
<1> DEFINE S == {n \in Nat : Small(d, n) \subseteq P}
<1>1. 0 \in S
  <2>1. ASSUME NEW s \in Small(d, 0) PROVE s = {}
    <3>1. IsFiniteSet(s) /\ Cardinality(s) \in Nat /\ Cardinality(s) <= 0
      BY FS_Subset, FS_CardinalityType DEF Small
    <3> QED
      BY <3>1, FS_EmptySet
  <2> QED
    BY <2>1
<1>2. ASSUME NEW n \in Nat, n \in S PROVE n + 1 \in S
  <2>1. ASSUME NEW s \in Small(d, n + 1), s /= {} PROVE s \in P
    <3>1. Rest(s) \in P
      BY <1>2, <2>1, Smaller
    <3>2. s \in SUBSET d
      BY DEF Small
    <3> QED
      BY <2>1, <3>1, <3>2
  <2> QED
    BY <2>1
<1>3. Cardinality(d) \in Nat /\ SUBSET d = Small(d, Cardinality(d))
  BY FS_CardinalityType, FS_Subset DEF Small
<1>4. Cardinality(d) \in S
  <2> HIDE DEF S
  <2> QED
    BY <1>1, <1>2, <1>3, Induction
<1> QED
  BY <1>3, <1>4

\* What the fold of Total does with a subset, if g gives the sums of the smaller.
Body(f, g, s) == IF s = {} THEN 0 ELSE f[First(s)] + g[Rest(s)]

\* The fold of Total is defined for every finite domain.
LEMMA SumsExist ==
    ASSUME NEW f, IsFiniteSet(DOMAIN f)
    PROVE  \E g : /\ g = [s \in SUBSET DOMAIN f |-> Body(f, g, s)]
                  /\ Total(f) = g[DOMAIN f]
<1> DEFINE d == DOMAIN f
           S == {n \in Nat : \E g : g = [s \in Small(d, n) |-> Body(f, g, s)]}
<1>1. 0 \in S
  <2> DEFINE g == [s \in Small(d, 0) |-> 0]
  <2>1. ASSUME NEW s \in Small(d, 0) PROVE s = {}
    <3>1. IsFiniteSet(s) /\ Cardinality(s) \in Nat /\ Cardinality(s) <= 0
      BY FS_Subset, FS_CardinalityType DEF Small
    <3> QED
      BY <3>1, FS_EmptySet
  <2>2. g = [s \in Small(d, 0) |-> Body(f, g, s)]
    BY <2>1 DEF Body
  <2> QED
    BY <2>2
<1>2. ASSUME NEW n \in Nat, n \in S PROVE n + 1 \in S
  <2>1. PICK g : g = [s \in Small(d, n) |-> Body(f, g, s)]
    BY <1>2
  <2> DEFINE h == [s \in Small(d, n + 1) |-> Body(f, g, s)]
  <2>2. \A s \in Small(d, n) : s \in Small(d, n + 1)
    <3> SUFFICES ASSUME NEW s \in Small(d, n) PROVE s \in Small(d, n + 1)
      OBVIOUS
    <3>1. s \in SUBSET d /\ Cardinality(s) <= n /\ Cardinality(s) \in Nat
      BY FS_Subset, FS_CardinalityType DEF Small
    <3> QED
      BY <3>1 DEF Small
  <2>3. \A s \in Small(d, n) : h[s] = g[s]
    BY <2>1, <2>2
  <2>4. ASSUME NEW s \in Small(d, n + 1) PROVE Body(f, g, s) = Body(f, h, s)
    <3>1. CASE s = {}
      BY <3>1 DEF Body
    <3>2. CASE s /= {}
      <4>1. Rest(s) \in Small(d, n)
        BY <3>2, Smaller
      <4>2. h[Rest(s)] = g[Rest(s)]
        BY <2>3, <4>1
      <4> HIDE DEF h
      <4> QED
        BY <4>2 DEF Body
    <3> QED
      BY <3>1, <3>2
  <2>5. h = [s \in Small(d, n + 1) |-> Body(f, h, s)]
    BY <2>4, Zenon
  <2> HIDE DEF h
  <2> QED
    BY <2>5
<1> DEFINE c == Cardinality(d)
<1>3. c \in Nat /\ Small(d, c) = SUBSET d
  BY FS_CardinalityType, FS_Subset DEF Small
<1>4. c \in S
  <2> HIDE DEF S, c
  <2> QED
    BY <1>1, <1>2, <1>3, Induction
<1>5. \E g : g = [s \in SUBSET d |-> Body(f, g, s)]
  BY <1>3, <1>4
<1> DEFINE Fold == CHOOSE g : g = [s \in SUBSET d |-> Body(f, g, s)]
<1>6. Total(f) = Fold[d]
  BY DEF Total, FoldFunction, FoldFunctionOnSet, MapThenFoldSet, Body, First, Rest
<1>7. Fold = [s \in SUBSET d |-> Body(f, Fold, s)]
  BY <1>5
<1> QED
  BY <1>6, <1>7

\* Counting one more in one place, the sum is one more.
OneMore(d, f, x) == [y \in d |-> f[y] + (IF y = x THEN 1 ELSE 0)]

LEMMA SumGrows ==
    ASSUME NEW d, IsFiniteSet(d), NEW f \in [d -> Nat], NEW x \in d
    PROVE  /\ Total(f) \in Nat
           /\ Total(OneMore(d, f, x)) = Total(f) + 1
<1> DEFINE e == OneMore(d, f, x)
           More(s) == IF x \in s THEN 1 ELSE 0
<1>1. PICK g : g = [s \in SUBSET d |-> Body(f, g, s)] /\ Total(f) = g[d]
  <2>1. DOMAIN f = d
    OBVIOUS
  <2> QED
    BY <2>1, SumsExist
<1>2. PICK h : h = [s \in SUBSET d |-> Body(e, h, s)] /\ Total(e) = h[d]
  <2>1. DOMAIN e = d
    BY DEF OneMore
  <2> HIDE DEF e
  <2> QED
    BY <2>1, SumsExist
<1> DEFINE P == {s \in SUBSET d : g[s] \in Nat /\ h[s] = g[s] + More(s)}
<1>3. \A s \in SUBSET d : g[s] = Body(f, g, s) /\ h[s] = Body(e, h, s)
  BY <1>1, <1>2
<1>4. {} \in P
  <2>1. g[{}] = 0 /\ h[{}] = 0
    BY <1>3 DEF Body
  <2> QED
    BY <2>1
<1>5. ASSUME NEW s \in SUBSET d, s /= {}, Rest(s) \in P PROVE s \in P
  <2>1. First(s) \in s
    BY <1>5 DEF First
  <2>2. g[s] = f[First(s)] + g[Rest(s)] /\ h[s] = e[First(s)] + h[Rest(s)]
    BY <1>3, <1>5 DEF Body
  <2>3. x \in Rest(s) <=> x \in s /\ x /= First(s)
    BY DEF Rest
  <2>4. f[First(s)] \in Nat /\ e[First(s)] = f[First(s)] + (IF First(s) = x THEN 1 ELSE 0)
    BY <2>1 DEF OneMore
  <2> HIDE DEF e
  <2> QED
    BY <1>5, <2>1, <2>2, <2>3, <2>4
<1>6. d \in P
  <2> HIDE DEF P
  <2> QED
    BY <1>4, <1>5, SubsetInduction
<1>7. g[d] \in Nat /\ h[d] = g[d] + 1
  BY <1>6
<1> QED
  BY <1>1, <1>2, <1>7

LEMMA SumOfZeros ==
    ASSUME NEW d, IsFiniteSet(d), NEW f, f = [y \in d |-> 0]
    PROVE  Total(f) = 0
<1>1. DOMAIN f = d
  OBVIOUS
<1>2. PICK g : g = [s \in SUBSET d |-> Body(f, g, s)] /\ Total(f) = g[d]
  BY <1>1, SumsExist
<1> DEFINE P == {s \in SUBSET d : g[s] = 0}
<1>3. \A s \in SUBSET d : g[s] = Body(f, g, s)
  BY <1>2
<1>4. {} \in P
  BY <1>3 DEF Body
<1>5. ASSUME NEW s \in SUBSET d, s /= {}, Rest(s) \in P PROVE s \in P
  <2>1. First(s) \in s
    BY <1>5 DEF First
  <2> QED
    BY <1>3, <1>5, <2>1 DEF Body
<1>6. d \in P
  <2> HIDE DEF P
  <2> QED
    BY <1>4, <1>5, SubsetInduction
<1> QED
  BY <1>2, <1>6

------------------------------------------------------------------------------
\* What a further cycle adds.
LEMMA CyclesGrow ==
    ASSUME NEW h \in Seq(Step), NEW e \in Step, NEW t, NEW s
    PROVE  LET ends == /\ h /= <<>> /\ ~h[Len(h)].reset /\ ~e.reset
                       /\ <<h[Len(h)].state, e.state>> = t
               is == ~e.reset /\ e.state = s
           IN  /\ CyclesOf(Append(h, e), t) =
                     IF ends THEN CyclesOf(h, t) \cup {Len(h) + 1} ELSE CyclesOf(h, t)
               /\ CyclesIn(Append(h, e), s) =
                     IF is THEN CyclesIn(h, s) \cup {Len(h) + 1} ELSE CyclesIn(h, s)
<1> DEFINE ends == /\ h /= <<>> /\ ~h[Len(h)].reset /\ ~e.reset
                   /\ <<h[Len(h)].state, e.state>> = t
           is == ~e.reset /\ e.state = s
           n == Len(h) + 1
           g == Append(h, e)
<1>1. /\ Len(h) \in Nat /\ Len(g) = n /\ g[n] = e
      /\ \A i \in 1 .. Len(h) : g[i] = h[i]
  BY AppendProperties
<1>2. h /= <<>> <=> Len(h) /= 0
  BY EmptySeq
<1> HIDE DEF g
<1>3. CyclesOf(g, t) = IF ends THEN CyclesOf(h, t) \cup {n} ELSE CyclesOf(h, t)
  <2>1. \A i \in 2 .. Len(h) : i - 1 \in 1 .. Len(h) /\ i \in 1 .. Len(h)
    BY <1>1
  <2>2. \A i \in 2 .. Len(h) : i \in CyclesOf(g, t) <=> i \in CyclesOf(h, t)
    BY <1>1, <2>1, SMTT(30) DEF CyclesOf
  <2>3. n \in CyclesOf(g, t) <=> ends
    BY <1>1, <1>2 DEF CyclesOf
  <2>4. \A i : i \in CyclesOf(g, t) => i \in 2 .. Len(h) \/ i = n
    BY <1>1 DEF CyclesOf
  <2>5. \A i : i \in CyclesOf(h, t) => i \in 2 .. Len(h)
    BY DEF CyclesOf
  <2> HIDE DEF ends, n
  <2>6. CASE ends
    BY <2>2, <2>3, <2>4, <2>5, <2>6
  <2>7. CASE ~ends
    BY <2>2, <2>3, <2>4, <2>5, <2>7
  <2> QED
    BY <2>6, <2>7
<1>4. CyclesIn(g, s) = IF is THEN CyclesIn(h, s) \cup {n} ELSE CyclesIn(h, s)
  <2>1. \A i \in 1 .. Len(h) : i \in CyclesIn(g, s) <=> i \in CyclesIn(h, s)
    BY <1>1 DEF CyclesIn
  <2>2. n \in CyclesIn(g, s) <=> is
    BY <1>1 DEF CyclesIn
  <2>3. \A i : i \in CyclesIn(g, s) => i \in 1 .. Len(h) \/ i = n
    BY <1>1 DEF CyclesIn
  <2>4. \A i : i \in CyclesIn(h, s) => i \in 1 .. Len(h)
    BY DEF CyclesIn
  <2> HIDE DEF is, n
  <2>5. CASE is
    BY <2>1, <2>2, <2>3, <2>4, <2>5
  <2>6. CASE ~is
    <3>1. \A i : i \in CyclesIn(g, s) <=> i \in CyclesIn(h, s)
      BY <2>1, <2>2, <2>3, <2>4, <2>6
    <3> QED
      BY <2>6, <3>1
  <2> QED
    BY <2>5, <2>6
<1> QED
  BY <1>3, <1>4 DEF g

\* These sets are finite, and a further cycle is not in them.
LEMMA CyclesFinite ==
    ASSUME NEW h \in Seq(Step), NEW t, NEW s
    PROVE  /\ IsFiniteSet(CyclesOf(h, t)) /\ Len(h) + 1 \notin CyclesOf(h, t)
           /\ IsFiniteSet(CyclesIn(h, s)) /\ Len(h) + 1 \notin CyclesIn(h, s)
<1>1. Len(h) \in Nat /\ IsFiniteSet(1 .. Len(h))
  BY FS_Interval
<1>2. CyclesOf(h, t) \in SUBSET (1 .. Len(h)) /\ CyclesIn(h, s) \in SUBSET (1 .. Len(h))
  BY <1>1 DEF CyclesOf, CyclesIn
<1> QED
  BY <1>1, <1>2, FS_Subset

LEMMA CountsGrow ==
    ASSUME NEW h \in Seq(Step), NEW e \in Step, NEW t, NEW s
    PROVE  LET ends == /\ h /= <<>> /\ ~h[Len(h)].reset /\ ~e.reset
                       /\ <<h[Len(h)].state, e.state>> = t
               is == ~e.reset /\ e.state = s
           IN  /\ Cardinality(CyclesOf(h, t)) \in Nat
               /\ Cardinality(CyclesIn(h, s)) \in Nat
               /\ Cardinality(CyclesOf(Append(h, e), t)) =
                     Cardinality(CyclesOf(h, t)) + Hit(ends)
               /\ Cardinality(CyclesIn(Append(h, e), s)) =
                     Cardinality(CyclesIn(h, s)) + Hit(is)
<1>1. /\ IsFiniteSet(CyclesOf(h, t)) /\ Len(h) + 1 \notin CyclesOf(h, t)
      /\ IsFiniteSet(CyclesIn(h, s)) /\ Len(h) + 1 \notin CyclesIn(h, s)
  BY CyclesFinite
<1>2. /\ Cardinality(CyclesOf(h, t)) \in Nat
      /\ Cardinality(CyclesIn(h, s)) \in Nat
  BY <1>1, FS_CardinalityType
<1>3. /\ Cardinality(CyclesOf(h, t) \cup {Len(h) + 1}) = Cardinality(CyclesOf(h, t)) + 1
      /\ Cardinality(CyclesIn(h, s) \cup {Len(h) + 1}) = Cardinality(CyclesIn(h, s)) + 1
  BY <1>1, FS_AddElement
<1> DEFINE ends == /\ h /= <<>> /\ ~h[Len(h)].reset /\ ~e.reset
                   /\ <<h[Len(h)].state, e.state>> = t
           is == ~e.reset /\ e.state = s
<1>4. /\ CyclesOf(Append(h, e), t) =
             IF ends THEN CyclesOf(h, t) \cup {Len(h) + 1} ELSE CyclesOf(h, t)
      /\ CyclesIn(Append(h, e), s) =
             IF is THEN CyclesIn(h, s) \cup {Len(h) + 1} ELSE CyclesIn(h, s)
  BY CyclesGrow
<1> HIDE DEF ends, is
<1>5. Cardinality(CyclesOf(Append(h, e), t)) = Cardinality(CyclesOf(h, t)) + Hit(ends)
  BY <1>2, <1>3, <1>4 DEF Hit
<1>6. Cardinality(CyclesIn(Append(h, e), s)) = Cardinality(CyclesIn(h, s)) + Hit(is)
  BY <1>2, <1>3, <1>4 DEF Hit
<1> QED
  BY <1>2, <1>5, <1>6 DEF ends, is

\* No cycles, nothing to count.
LEMMA NoCycles == \A t : /\ Cardinality(CyclesOf(<<>>, t)) = 0
                         /\ Cardinality(CyclesIn(<<>>, t)) = 0
<1> TAKE t
<1>1. CyclesOf(<<>>, t) = {} /\ CyclesIn(<<>>, t) = {}
  BY DEF CyclesOf, CyclesIn
<1> QED
  BY <1>1, FS_EmptySet

------------------------------------------------------------------------------
LEMMA InitIInv == Init => IInv
<1> SUFFICES ASSUME Init PROVE IInv
  OBVIOUS
<1> USE FsmAssumption DEF Init
<1>1. CountersInRange
  BY DEF CountersInRange
<1>2. RegistersRight
  BY DEF RegistersRight
<1>3. StateCountsExact
  BY NoCycles DEF StateCountsExact
<1>4. \A k \in DOMAIN fsm.transitions : transitionCount[k] = 0 /\ Excess(k) = 0
  BY NoCycles DEF Excess
<1>5. ExcessRight
  BY <1>4 DEF ExcessRight
<1> QED
  BY <1>1, <1>2, <1>3, <1>5 DEF IInv

LEMMA CycleIInv ==
    ASSUME IInv, NEW reset \in BOOLEAN, Cycle(reset)
    PROVE  IInv'
<1> DEFINE e == [state |-> state, reset |-> reset]
<1>1. /\ fsm \in Fsms /\ fsm' = fsm
      /\ fsm.hasReset \in BOOLEAN /\ fsm.start \in States
      /\ fsm.steps \subseteq States \X States
      /\ fsm.transitions \in Seq(States \X States)
  BY FsmAssumption DEF IInv, CountersInRange, Cycle
<1>2. /\ state \in States /\ prev \in States /\ prevValid \in BOOLEAN
      /\ history \in Seq(Step) /\ e \in Step /\ Len(history) \in Nat
      /\ history' = Append(history, e) /\ prev' = state /\ prevValid' = ~reset
  BY DEF IInv, RegistersRight, Cycle, Step
<1>3. /\ history' \in Seq(Step) /\ Len(history') = Len(history) + 1
      /\ history'[Len(history')] = e /\ history' /= <<>>
      /\ \A i \in 1 .. Len(history) : history'[i] = history[i]
      /\ Len(history') <= MaxCycles
  <2>1. Len(history) < MaxCycles /\ MaxCycles \in Nat
    BY FsmAssumption DEF Cycle
  <2> QED
    BY <1>2, <2>1, AppendProperties
<1>4. state' \in States
  BY <1>1, <1>2 DEF Cycle
<1>5. /\ \A s \in States : stateCount'[s] = stateCount[s] + Hit(StateCovered(s, reset))
      /\ \A k \in DOMAIN fsm.transitions :
             transitionCount'[k] = transitionCount[k]
                 + Hit(TransitionCovered(fsm.transitions[k], reset))
      /\ DOMAIN stateCount' = States /\ DOMAIN transitionCount' = DOMAIN fsm.transitions
  BY DEF Cycle
<1>6. CountersInRange'
  <2>1. stateCount' \in [States -> 0 .. Len(history')]
    BY <1>2, <1>3 DEF IInv, CountersInRange, Cycle, Hit
  <2>2. transitionCount' \in [DOMAIN fsm.transitions -> 0 .. Len(history')]
    BY <1>2, <1>3 DEF IInv, CountersInRange, Cycle, Hit
  <2> QED
    BY <1>1, <1>3, <2>1, <2>2 DEF CountersInRange
<1>7. RegistersRight'
  <2>1. fsm'.hasReset => history'[1].reset
    <3>1. CASE history = <<>>
      BY <1>1, <1>2, <3>1 DEF Cycle
    <3>2. CASE history /= <<>>
      <4>1. 1 \in 1 .. Len(history)
        BY <1>2, <3>2, EmptySeq
      <4> QED
        BY <1>1, <1>3, <3>2, <4>1 DEF IInv, RegistersRight
    <3> QED
      BY <3>1, <3>2
  <2> QED
    BY <1>2, <1>3, <1>4, <2>1 DEF RegistersRight
<1>8. StateCountsExact'
  <2> SUFFICES ASSUME NEW s \in States
               PROVE  stateCount'[s] = Cardinality(CyclesIn(history', s))
    BY DEF StateCountsExact
  <2>1. Cardinality(CyclesIn(history', s))
            = Cardinality(CyclesIn(history, s)) + Hit(~e.reset /\ e.state = s)
    BY <1>2, CountsGrow, ZenonT(30)
  <2>2. stateCount[s] = Cardinality(CyclesIn(history, s))
    BY DEF IInv, StateCountsExact
  <2> QED
    BY <1>5, <2>1, <2>2 DEF StateCovered, Hit
<1>9. ExcessRight'
  <2> DEFINE ends(k) == /\ history /= <<>> /\ ~history[Len(history)].reset /\ ~e.reset
                        /\ <<history[Len(history)].state, e.state>> = fsm.transitions[k]
             covers(k) == TransitionCovered(fsm.transitions[k], reset)
  <2>1. ASSUME NEW k \in DOMAIN fsm.transitions
        PROVE  /\ Excess(k) \in Int
               /\ Excess(k)' = Excess(k) + Hit(covers(k)) - Hit(ends(k))
    <3>1. /\ Cardinality(CyclesOf(history, fsm.transitions[k])) \in Nat
          /\ Cardinality(CyclesOf(history', fsm.transitions[k]))
                 = Cardinality(CyclesOf(history, fsm.transitions[k])) + Hit(ends(k))
      BY <1>2, CountsGrow, ZenonT(30)
    <3>2. transitionCount[k] \in Nat
      BY <1>2 DEF IInv, CountersInRange
    <3>3. transitionCount'[k] = transitionCount[k] + Hit(covers(k))
      BY <1>5
    <3> QED
      BY <1>1, <3>1, <3>2, <3>3, SMTT(30) DEF Excess, Hit
  <2>2. CASE history /= <<>>
    <3>1. ASSUME NEW k \in DOMAIN fsm.transitions PROVE Excess(k)' = Excess(k)
      <4>1. fsm.transitions[k] \in States \X States
        BY <1>1
      <4>2. /\ prev = history[Len(history)].state
            /\ prevValid = ~history[Len(history)].reset
        BY <2>2 DEF IInv, RegistersRight
      <4>3. covers(k) <=> ends(k)
        <5>1. /\ history[Len(history)] \in Step
              /\ <<prev, state>> = fsm.transitions[k]
                     <=> prev = fsm.transitions[k][1] /\ state = fsm.transitions[k][2]
          BY <1>2, <2>2, <4>1, EmptySeq
        <5>2. prevValid <=> ~history[Len(history)].reset
          BY <4>2
        <5> QED
          BY <2>2, <4>2, <5>1, <5>2 DEF TransitionCovered
      <4> QED
        BY <2>1, <4>3 DEF Hit
    <3>2. 1 \in 1 .. Len(history)
      BY <1>2, <2>2, EmptySeq
    <3> QED
      BY <1>1, <1>3, <2>2, <3>1, <3>2 DEF IInv, ExcessRight
  <2>3. CASE history = <<>>
    <3>1. ASSUME NEW k \in DOMAIN fsm.transitions PROVE Excess(k)' = Hit(covers(k))
      <4>1. Excess(k) = 0
        BY <2>3, NoCycles DEF IInv, ExcessRight, Excess
      <4> QED
        BY <2>1, <2>3, <4>1 DEF Hit
    <3>2. /\ fsm.hasReset => reset
          /\ history'[1] = e
      BY <1>2, <1>3, <2>3 DEF Cycle
    <3>3. ASSUME NEW k \in DOMAIN fsm.transitions, covers(k)
          PROVE  ~reset /\ fsm.transitions[k] = <<prev, state>>
      <4>1. fsm.transitions[k] \in States \X States
        BY <1>1
      <4> QED
        BY <3>3, <4>1 DEF TransitionCovered
    <3>4. \A k \in DOMAIN fsm.transitions :
              /\ Excess(k)' \in {0, 1}
              /\ Excess(k)' /= 0 => /\ ~reset /\ fsm.transitions[k] = <<prev, state>>
                                    /\ fsm.transitions[k][2] = history'[1].state
      BY <3>1, <3>2, <3>3 DEF Hit
    <3> QED
      BY <1>1, <1>3, <3>2, <3>4, SMTT(30) DEF ExcessRight
  <2> QED
    BY <2>2, <2>3
<1> QED
  BY <1>6, <1>7, <1>8, <1>9 DEF IInv

\* The registers and the counters follow the machine in every simulation.
THEOREM IInvHolds == Spec => []IInv
<1>1. IInv /\ [Next]_vars => IInv'
  <2>1. IInv /\ Next => IInv'
    BY CycleIInv DEF Next
  <2>2. IInv /\ UNCHANGED vars => IInv'
    BY DEF vars, counters, IInv, CountersInRange, RegistersRight,
           StateCountsExact, ExcessRight, Excess
  <2> QED
    BY <2>1, <2>2
<1> QED
  BY <1>1, InitIInv, PTL DEF Spec

------------------------------------------------------------------------------
\* The counters and the registers keep their types: no counter runs ahead of
\* the cycles.
THEOREM TypeCorrect == Spec => []TypeOK
<1>1. ASSUME IInv PROVE TypeOK
  <2>1. /\ state \in States /\ prev \in States /\ prevValid \in BOOLEAN
        /\ history \in Seq([state : States, reset : BOOLEAN])
    BY <1>1 DEF IInv, RegistersRight, Step
  <2>2. Len(history) \in Nat /\ Len(history) <= MaxCycles /\ MaxCycles \in Nat
    BY <1>1, <2>1, FsmAssumption DEF IInv, CountersInRange
  <2>3. /\ stateCount \in [States -> 0 .. MaxCycles]
        /\ transitionCount \in [DOMAIN fsm.transitions -> 0 .. MaxCycles]
    BY <1>1, <2>2 DEF IInv, CountersInRange
  <2> QED
    BY <2>1, <2>3 DEF TypeOK
<1> QED
  BY <1>1, IInvHolds, PTL

\* In every cycle that is not in reset one state is counted, and it is the one
\* the machine is in.
THEOREM StatesCounted == Spec => []StateCountsExact
<1>1. IInv => StateCountsExact
  BY DEF IInv
<1> QED
  BY <1>1, IInvHolds, PTL

\* The cycles of h that are not in reset, and the sum of the counts.
CyclesOutOfReset(h) == {i \in 1 .. Len(h) : ~h[i].reset}
AddsUp == Total(stateCount) = Cardinality(CyclesOutOfReset(history))

LEMMA CyclesOutOfResetGrow ==
    ASSUME NEW h \in Seq(Step), NEW e \in Step
    PROVE  Cardinality(CyclesOutOfReset(Append(h, e)))
               = Cardinality(CyclesOutOfReset(h)) + Hit(~e.reset)
<1> DEFINE n == Len(h) + 1
           g == Append(h, e)
           r == CyclesOutOfReset(h)
<1>1. /\ Len(h) \in Nat /\ Len(g) = n /\ g[n] = e
      /\ \A i \in 1 .. Len(h) : g[i] = h[i]
  BY AppendProperties
<1> HIDE DEF g
<1>2. IsFiniteSet(r) /\ Cardinality(r) \in Nat /\ n \notin r
  <2>1. r \subseteq 1 .. Len(h) /\ IsFiniteSet(1 .. Len(h))
    BY <1>1, FS_Interval DEF CyclesOutOfReset
  <2>2. n \notin r
    BY <1>1 DEF CyclesOutOfReset
  <2> QED
    BY <2>1, <2>2, FS_Subset, FS_CardinalityType
<1>3. CASE e.reset
  <2>1. CyclesOutOfReset(g) = r
    BY <1>1, <1>3 DEF CyclesOutOfReset
  <2> QED
    BY <1>2, <1>3, <2>1 DEF Hit, g
<1>4. CASE ~e.reset
  <2>1. CyclesOutOfReset(g) = r \cup {n}
    BY <1>1, <1>4 DEF CyclesOutOfReset
  <2> QED
    BY <1>2, <1>4, <2>1, FS_AddElement DEF Hit, g
<1> QED
  BY <1>3, <1>4

\* In every cycle one counter grows by one, or none if the cycle is in reset.
LEMMA CycleAddsUp ==
    ASSUME IInv, AddsUp, NEW reset \in BOOLEAN, Cycle(reset)
    PROVE  AddsUp'
<1> DEFINE e == [state |-> state, reset |-> reset]
<1>1. /\ history \in Seq(Step) /\ e \in Step /\ history' = Append(history, e)
      /\ state \in States /\ IsFiniteSet(States)
  BY FsmAssumption DEF IInv, RegistersRight, Step, Cycle
<1>2. stateCount \in [States -> Nat]
  BY <1>1 DEF IInv, CountersInRange
<1>3. Cardinality(CyclesOutOfReset(history'))
          = Cardinality(CyclesOutOfReset(history)) + Hit(~reset)
  BY <1>1, CyclesOutOfResetGrow
<1>4. stateCount' = [s \in States |-> stateCount[s] + Hit(StateCovered(s, reset))]
  BY DEF Cycle
<1>5. CASE reset
  <2>1. stateCount' = stateCount
    BY <1>2, <1>4, <1>5 DEF StateCovered, Hit
  <2>2. Total(stateCount) \in Nat
    BY <1>1, <1>2, SumGrows
  <2> QED
    BY <1>3, <1>5, <2>1, <2>2 DEF AddsUp, Hit
<1>6. CASE ~reset
  <2>1. stateCount' = OneMore(States, stateCount, state)
    <3>1. \A s \in States : Hit(StateCovered(s, reset)) = IF s = state THEN 1 ELSE 0
      BY <1>6 DEF StateCovered, Hit
    <3> QED
      BY <1>4, <3>1, Zenon DEF OneMore
  <2>2. Total(OneMore(States, stateCount, state)) = Total(stateCount) + 1
    BY <1>1, <1>2, SumGrows, Zenon
  <2> QED
    BY <1>3, <1>6, <2>1, <2>2 DEF AddsUp, Hit
<1> QED
  BY <1>5, <1>6

\* "We are in exactly one state each cycle!": however many states there are and
\* however long the simulation is, the counts of the states add up to the cycles
\* that were not in reset.
THEOREM StatesAddUp == Spec => []StateCountsAddUp
<1>1. Init => AddsUp
  <2> SUFFICES ASSUME Init PROVE AddsUp
    OBVIOUS
  <2>1. Total(stateCount) = 0
    BY FsmAssumption, SumOfZeros DEF Init
  <2>2. CyclesOutOfReset(history) = {}
    BY DEF Init, CyclesOutOfReset
  <2> QED
    BY <2>1, <2>2, FS_EmptySet DEF AddsUp
<1>2. IInv /\ AddsUp /\ [Next]_vars => AddsUp'
  <2>1. ASSUME IInv, AddsUp, UNCHANGED vars PROVE AddsUp'
    <3>1. stateCount' = stateCount /\ history' = history
      BY <2>1 DEF vars, counters
    <3> QED
      BY <2>1, <3>1 DEF AddsUp
  <2> QED
    BY <2>1, CycleAddsUp DEF Next
<1>3. ASSUME IInv, AddsUp, TypeOK PROVE StateCountsAddUp
  <2>1. DOMAIN history = 1 .. Len(history)
    BY <1>3 DEF IInv, RegistersRight
  <2>2. {i \in DOMAIN history : Running(i)} = CyclesOutOfReset(history)
    BY <2>1 DEF Running, CyclesOutOfReset
  <2> QED
    BY <1>3, <2>2 DEF StateCountsAddUp, AddsUp
<1> QED
  BY <1>1, <1>2, <1>3, IInvHolds, TypeCorrect, PTL DEF Spec

\* Every cover point of a transition has counted the times the machine took it;
\* only without a reset may the first cycle count one that nothing took.
THEOREM TransitionsCounted == Spec => []TransitionCountsExact
<1>1. ASSUME IInv PROVE TransitionCountsExact
  <2>1. ASSUME NEW t
        PROVE  {i \in TransitionCycles : Taken(i) = t} = CyclesOf(history, t)
    BY DEF TransitionCycles, Running, Taken, CyclesOf
  <2>2. \A k \in DOMAIN fsm.transitions :
            Excess(k) = transitionCount[k]
              - Cardinality({i \in TransitionCycles : Taken(i) = fsm.transitions[k]})
    BY <2>1 DEF Excess
  <2> QED
    BY <1>1, <2>2 DEF IInv, ExcessRight, TransitionCountsExact
<1> QED
  BY <1>1, IInvHolds, PTL

------------------------------------------------------------------------------
\* What cover points and entries speak of.
Covered == UNION {Selected(design[k]) : k \in Modules}
Targeted == Modules \X Covered
Annotations == [mod : Modules, sampled : Covered, signals : Seq(Targeted)]
Entries == Covered \X Seq(Targeted)

\* Signal s of module k is reported by a cover point of k, or left to its parents.
HasAnno(k, s) == \E a \in ToSet(annos) : a.mod = k /\ <<k, s>> \in ToSet(a.signals)
HasAlias(k, s) == \E e \in ToSet(aliases[k]) : <<k, s>> \in ToSet(e[2])

\* Module k has been instrumented.
Passed(k) == phase \in {"resolve", "done", "failed"} \/ (phase = "cover" /\ k <= mod)

\* What the variables of the pass hold.
ToggleTypes ==
    /\ design \in Designs
    /\ phase \in {"alias", "cover", "resolve", "done", "failed"}
    /\ IF phase = "alias" THEN mod = 0 /\ annos = <<>> ELSE mod \in Modules
    /\ annos \in Seq(Annotations)
    /\ aliases \in [Modules -> Seq(Entries)]

\* A port whose coverage is moved up is one of an instrumented module that is
\* nowhere the topmost one.
PortsMoveUp ==
    \A k \in Modules : \A e \in ToSet(aliases[k]) :
        /\ e[1] \in design[k].ports \cap Selected(design[k])
        /\ Instrumented(k) /\ ~IsTop(k)

\* What has been selected is sampled here, moved up, or still to be covered.
NoneForgotten ==
    \A k \in Modules : Instrumented(k) /\ Passed(k) =>
        \A s \in Selected(design[k]) :
            \/ HasAnno(k, s) \/ HasAlias(k, s)
            \/ phase = "cover" /\ k = mod /\ s \in UNION toCover

\* What is still to do belongs to the phase.
ToDo ==
    /\ phase = "cover" /\ toCover /= {} => Instrumented(mod)
    /\ phase = "cover" => toCover \subseteq SignalGroups(mod)
    /\ phase = "resolve" => toResolve \in Seq(DOMAIN design[mod].instances)

\* The inductive invariant of the pass.
ToggleIInv ==
    /\ ToggleTypes
    /\ PortsMoveUp
    /\ NoneForgotten
    /\ ToDo
    /\ FailsOnlyWithoutClock

------------------------------------------------------------------------------
\* The design of a circuit.
LEMMA DesignShape ==
    ASSUME design \in Designs
    PROVE  /\ design \in Seq(ToSet(design)) /\ Main \in Nat \ {0}
           /\ Modules = 1 .. Main /\ Main \in Modules
           /\ \A k \in Modules : /\ FiniteModule(design[k])
                                 /\ \A i \in DOMAIN design[k].instances :
                                        /\ design[k].instances[i] \in Modules
                                        /\ design[k].instances[i] \in 1 .. k - 1
<1>1. design \in Seq(ToSet(design)) /\ design /= <<>>
  BY ToggleAssumption
<1>2. Main \in Nat /\ Modules = 1 .. Main
  BY <1>1, LenProperties DEF Main, Modules
<1>3. Main /= 0
  BY <1>1, <1>2, EmptySeq DEF Main
<1>4. \A k \in Modules : FiniteModule(design[k])
  BY ToggleAssumption DEF Modules
<1>5. \A k \in Modules : \A i \in DOMAIN design[k].instances :
          design[k].instances[i] \in 1 .. k - 1
  BY ToggleAssumption DEF Modules, Alias!WellFormedDesigns
<1> QED
  BY <1>1, <1>2, <1>3, <1>4, <1>5

\* The elements of a sequence that was made from a finite set.
LEMMA SetToSeqIs ==
    ASSUME NEW S, IsFiniteSet(S)
    PROVE  /\ SetToSeq(S) \in Seq(S) /\ ToSet(SetToSeq(S)) = S
           /\ IsInjective(SetToSeq(S))
<1> DEFINE n == Cardinality(S)
           Right(f) == f \in [1 .. n -> S] /\ IsInjective(f)
<1>1. n \in Nat /\ ExistsBijection(1 .. n, S)
  BY FS_CardinalityType
<1>2. PICK g \in Bijection(1 .. n, S) : TRUE
  BY <1>1 DEF ExistsBijection
<1>3. Right(g)
  BY <1>2 DEF Bijection, Injection, IsInjective
<1>4. PICK f : f = SetToSeq(S)
  OBVIOUS
<1>5. Right(f)
  BY <1>3, <1>4 DEF SetToSeq
<1>6. f \in Injection(1 .. n, S)
  BY <1>5 DEF Injection
<1>7. IsFiniteSet(1 .. n) /\ Cardinality(1 .. n) = n
  BY <1>1, FS_Interval
<1>8. f \in Surjection(1 .. n, S)
  BY <1>6, <1>7, FS_Injection
<1>9. \A s \in S : \E i \in 1 .. n : f[i] = s
  BY <1>8 DEF Surjection
<1>10. f \in Seq(S)
  BY <1>1, <1>5
<1>11. ToSet(f) = S
  BY <1>5, <1>9 DEF ToSet
<1> QED
  BY <1>4, <1>5, <1>10, <1>11

\* Two lists one after the other, and a list with a new head.
Joined(S, a, b) == a \o b \in Seq(S) /\ ToSet(a \o b) = ToSet(a) \cup ToSet(b)

\* The elements of two lists that are joined.
LEMMA ToSetConcat ==
    ASSUME NEW S, NEW a \in Seq(S), NEW b \in Seq(S)
    PROVE  Joined(S, a, b)
<1>1. a \o b \in Seq(S) /\ Len(a \o b) = Len(a) + Len(b)
  OBVIOUS
<1>2. \A i \in 1 .. Len(a) : (a \o b)[i] = a[i]
  OBVIOUS
<1>3. \A i \in 1 .. Len(b) : (a \o b)[Len(a) + i] = b[i]
  OBVIOUS
<1>4. ASSUME NEW x \in ToSet(a \o b) PROVE x \in ToSet(a) \cup ToSet(b)
  <2>1. PICK i \in 1 .. Len(a) + Len(b) : x = (a \o b)[i]
    BY <1>1, <1>4 DEF ToSet
  <2>2. CASE i <= Len(a)
    BY <1>2, <2>1, <2>2 DEF ToSet
  <2>3. CASE ~(i <= Len(a))
    <3>1. PICK j \in 1 .. Len(b) : i = Len(a) + j
      <4>1. i - Len(a) \in 1 .. Len(b) /\ i = Len(a) + (i - Len(a))
        BY <2>1, <2>3
      <4> QED
        BY <4>1
    <3> QED
      BY <1>3, <2>1, <3>1 DEF ToSet
  <2> QED
    BY <2>2, <2>3
<1>5. ASSUME NEW i \in 1 .. Len(a) PROVE a[i] \in ToSet(a \o b)
  <2>1. i \in 1 .. Len(a \o b)
    BY <1>1
  <2> QED
    BY <1>1, <1>2, <2>1 DEF ToSet
<1>6. ASSUME NEW i \in 1 .. Len(b) PROVE b[i] \in ToSet(a \o b)
  <2>1. PICK j \in 1 .. Len(a \o b) : j = Len(a) + i
    BY <1>1
  <2> QED
    BY <1>1, <1>3, <2>1 DEF ToSet
<1>7. ToSet(a) \subseteq ToSet(a \o b)
  BY <1>5 DEF ToSet
<1>8. ToSet(b) \subseteq ToSet(a \o b)
  BY <1>6 DEF ToSet
<1> QED
  BY <1>1, <1>4, <1>7, <1>8 DEF Joined

Prefixed(S, x, a) == <<x>> \o a \in Seq(S) /\ ToSet(<<x>> \o a) = {x} \cup ToSet(a)

\* The elements of a list with a new head.
LEMMA ToSetFirst ==
    ASSUME NEW S, NEW a \in Seq(S), NEW x \in S
    PROVE  Prefixed(S, x, a)
<1>1. PICK f : f = <<x>>
  OBVIOUS
<1>2. f \in Seq(S) /\ Len(f) = 1 /\ f[1] = x
  BY <1>1
<1>3. ToSet(f) = {x}
  BY <1>2 DEF ToSet
<1>4. Joined(S, f, a)
  BY <1>2, ToSetConcat
<1> QED
  BY <1>1, <1>3, <1>4 DEF Joined, Prefixed
\* The elements that a function has on a finite set.
LEMMA ImageFinite ==
    ASSUME NEW S, IsFiniteSet(S), NEW f, DOMAIN f = S
    PROVE  IsFiniteSet({f[x] : x \in S})
<1> DEFINE T == {f[x] : x \in S}
           g == [x \in S |-> f[x]]
<1>1. g \in Surjection(S, T)
  BY DEF Surjection
<1> HIDE DEF g
<1> QED
  BY <1>1, FS_Surjection

\* A module has finitely many signals.
LEMMA SelectedFinite ==
    ASSUME design \in Designs, NEW k \in Modules
    PROVE  IsFiniteSet(Selected(design[k]))
<1>1. PICK m : m = design[k]
  OBVIOUS
<1>2. FiniteModule(m) /\ \A i \in DOMAIN m.instances : m.instances[i] \in Modules
  BY <1>1, DesignShape
<1>3. IsFiniteSet(m.ports) /\ IsFiniteSet(DOMAIN m.drivers) /\ IsFiniteSet(DOMAIN m.instances)
  BY <1>2 DEF FiniteModule
<1> DEFINE d == DOMAIN m.drivers
           r == {m.drivers[x] : x \in d}
           own == {s \in d \cup r : Len(s) = 1}
           Ports(i) == {<<i>> \o p : p \in design[m.instances[i]].ports}
           f == [i \in DOMAIN m.instances |-> Ports(i)]
           below == {f[i] : i \in DOMAIN m.instances}
<1>4. IsFiniteSet(own)
  <2>1. IsFiniteSet(r)
    BY <1>3, ImageFinite
  <2>2. IsFiniteSet(d \cup r)
    BY <1>3, <2>1, FS_Union
  <2>3. own \in SUBSET (d \cup r)
    OBVIOUS
  <2> HIDE DEF own, d, r
  <2> QED
    BY <2>2, <2>3, FS_Subset
<1>5. \A i \in DOMAIN m.instances : IsFiniteSet(Ports(i))
  <2> SUFFICES ASSUME NEW i \in DOMAIN m.instances PROVE IsFiniteSet(Ports(i))
    OBVIOUS
  <2>1. PICK S : S = design[m.instances[i]].ports
    OBVIOUS
  <2>2. IsFiniteSet(S)
    BY <1>2, <2>1, DesignShape DEF FiniteModule
  <2> DEFINE g == [p \in S |-> <<i>> \o p]
  <2>3. IsFiniteSet({g[p] : p \in S})
    <3>1. DOMAIN g = S
      OBVIOUS
    <3> HIDE DEF g
    <3> QED
      BY <2>2, <3>1, ImageFinite
  <2>4. {g[p] : p \in S} = Ports(i)
    BY <2>1
  <2> QED
    BY <2>3, <2>4
<1>6. IsFiniteSet(below)
  <2>1. DOMAIN f = DOMAIN m.instances
    OBVIOUS
  <2> HIDE DEF f
  <2> QED
    BY <1>3, <2>1, ImageFinite
<1>7. \A T \in below : IsFiniteSet(T)
  BY <1>5
<1>8. IsFiniteSet(UNION below)
  <2> HIDE DEF below
  <2> QED
    BY <1>6, <1>7, FS_UNION
<1>9. Signals(m) = (m.ports \cup own) \cup UNION below
  <2>1. r = Range(m.drivers)
    BY DEF Range
  <2>2. below = {Ports(i) : i \in DOMAIN m.instances}
    OBVIOUS
  <2> HIDE DEF r, below
  <2> QED
    BY <2>1, <2>2 DEF Signals
<1>10. IsFiniteSet(Signals(m))
  <2> HIDE DEF own, below
  <2>1. IsFiniteSet(m.ports \cup own)
    BY <1>3, <1>4, FS_Union
  <2> QED
    BY <1>8, <1>9, <2>1, FS_Union
<1>11. Selected(m) \in SUBSET Signals(m)
  BY DEF Selected
<1> QED
  BY <1>1, <1>10, <1>11, FS_Subset

\* The groups of a module are the selected signals.
LEMMA GroupsSelected ==
    ASSUME NEW k
    PROVE  /\ \A g \in SignalGroups(k) : g \subseteq Selected(design[k])
           /\ UNION SignalGroups(k) = Selected(design[k])
<1> DEFINE selected == Selected(design[k])
           aliased == {g \in {h \cap selected : h \in groups[k]} : Cardinality(g) > 1}
<1>1. SignalGroups(k) = aliased \cup {{s} : s \in selected \ UNION aliased}
  BY DEF SignalGroups
<1>2. \A g \in aliased : g \subseteq selected
  OBVIOUS
<1> HIDE DEF selected, aliased
<1>3. \A g \in SignalGroups(k) : g \subseteq selected
  BY <1>1, <1>2
<1>4. \A s \in selected : s \in UNION SignalGroups(k)
  <2> SUFFICES ASSUME NEW s \in selected PROVE \E g \in SignalGroups(k) : s \in g
    OBVIOUS
  <2>1. CASE s \in UNION aliased
    BY <1>1, <2>1
  <2>2. CASE s \notin UNION aliased
    <3>1. {s} \in SignalGroups(k)
      BY <1>1, <2>2
    <3> QED
      BY <3>1
  <2> QED
    BY <2>1, <2>2
<1> QED
  BY <1>3, <1>4 DEF selected

\* The signals that a cover point or a port stands for at first.
LEMMA TargetsAre ==
    ASSUME design \in Designs, NEW k \in Modules, NEW g, g \subseteq Selected(design[k])
    PROVE  /\ Targets(k, g) \in Seq(Targeted)
           /\ ToSet(Targets(k, g)) = {<<k, s>> : s \in g}
           /\ IsInjective(Targets(k, g))
<1> DEFINE f == [s \in g |-> <<k, s>>]
           T == {<<k, s>> : s \in g}
<1>1. IsFiniteSet(g)
  BY SelectedFinite, FS_Subset
<1>2. IsFiniteSet({f[s] : s \in g})
  <2>1. DOMAIN f = g
    OBVIOUS
  <2> HIDE DEF f
  <2> QED
    BY <1>1, <2>1, ImageFinite
<1>3. {f[s] : s \in g} = T
  OBVIOUS
<1>4. IsFiniteSet(T)
  BY <1>2, <1>3
<1>5. SetToSeq(T) \in Seq(T) /\ ToSet(SetToSeq(T)) = T /\ IsInjective(SetToSeq(T))
  <2> HIDE DEF T
  <2> QED
    BY <1>4, SetToSeqIs
<1>6. T \subseteq Targeted
  BY DEF Targeted, Covered
<1>7. SetToSeq(T) \in Seq(Targeted)
  <2> HIDE DEF T
  <2> QED
    BY <1>5, <1>6
<1> QED
  BY <1>5, <1>7 DEF Targets
------------------------------------------------------------------------------
\* The same cover points, which may stand for more signals than before.
Grown(old, new) ==
    /\ Len(new) = Len(old)
    /\ \A n \in 1 .. Len(old) :
           /\ new[n].mod = old[n].mod /\ new[n].sampled = old[n].sampled
           /\ ToSet(old[n].signals) \subseteq ToSet(new[n].signals)

\* What the port aliases of an instance have led to so far.
Going(s) ==
    /\ s.annos \in Seq(Annotations) /\ Grown(annos, s.annos)
    /\ s.up \in Seq(Entries) /\ ToSet(aliases[mod]) \subseteq ToSet(s.up)
    /\ \A e \in ToSet(s.up) : \E f \in ToSet(aliases[mod]) : e[1] = f[1]

\* Going goes on when one more port alias has been resolved.
LEMMA GoingOn ==
    ASSUME NEW s, Going(s), annos \in Seq(Annotations), aliases[mod] \in Seq(Entries),
           NEW port, ~Lost(port), NEW signals \in Seq(Targeted)
    PROVE  Going(ResolvePort(port, signals, s))
<1>1. PICK a \in Seq(Annotations) : a = s.annos /\ Grown(annos, a)
  BY DEF Going
<1>2. PICK t : t = ResolvePort(port, signals, s)
  OBVIOUS
<1>3. CASE Sampled(a, port)
  <2> DEFINE new == [n \in DOMAIN a |->
                        IF Samples(a[n], port)
                        THEN [a[n] EXCEPT !.signals = Added(@, signals)] ELSE a[n]]
  <2>1. t.annos = new /\ t.up = s.up
    BY <1>1, <1>2, <1>3 DEF ResolvePort
  <2>2. DOMAIN a = 1 .. Len(a) /\ Len(a) \in Nat
    OBVIOUS
  <2>3. ASSUME NEW n \in 1 .. Len(a)
        PROVE  /\ new[n] \in Annotations
               /\ new[n].mod = a[n].mod /\ new[n].sampled = a[n].sampled
               /\ ToSet(a[n].signals) \subseteq ToSet(new[n].signals)
    <3>1. PICK b \in Annotations : b = a[n]
      BY <2>3
    <3>2. /\ b = [mod |-> b.mod, sampled |-> b.sampled, signals |-> b.signals]
          /\ b.mod \in Modules /\ b.sampled \in Covered /\ b.signals \in Seq(Targeted)
      BY <3>1 DEF Annotations
    <3>3. CASE Samples(b, port)
      <4>1. Joined(Targeted, b.signals, signals)
        BY <3>2, ToSetConcat
      <4>2. PICK c \in Seq(Targeted) : c = b.signals \o signals
        BY <4>1 DEF Joined
      <4>3. new[n] = [mod |-> b.mod, sampled |-> b.sampled, signals |-> c]
        BY <2>2, <3>1, <3>2, <3>3, <4>2 DEF Added
      <4>4. ToSet(b.signals) \subseteq ToSet(c)
        BY <4>1, <4>2 DEF Joined
      <4> HIDE DEF new
      <4> QED
        BY <3>1, <3>2, <4>2, <4>3, <4>4 DEF Annotations
    <3>4. CASE ~Samples(b, port)
      <4>1. new[n] = b
        BY <2>2, <3>1, <3>4
      <4> HIDE DEF new
      <4> QED
        BY <3>1, <4>1
    <3> QED
      BY <3>3, <3>4
  <2>4. new \in Seq(Annotations) /\ Len(new) = Len(a)
    <3>1. DOMAIN new = 1 .. Len(a)
      BY <2>2
    <3>2. new \in [1 .. Len(a) -> Annotations]
      BY <2>2, <2>3
    <3> HIDE DEF new
    <3> QED
      BY <2>2, <3>2
  <2>5. Grown(annos, new)
    <3> HIDE DEF new
    <3> QED
      BY <1>1, <2>3, <2>4 DEF Grown
  <2> HIDE DEF new
  <2> QED
    BY <1>2, <2>1, <2>4, <2>5 DEF Going
<1>4. CASE ~Sampled(a, port)
  <2>1. ~Sampled(annos, port)
    <3>1. ASSUME NEW n \in DOMAIN annos, Samples(annos[n], port) PROVE Sampled(a, port)
      <4>1. n \in 1 .. Len(annos) /\ n \in DOMAIN a
        BY <1>1, <3>1 DEF Grown
      <4> QED
        BY <1>1, <3>1, <4>1 DEF Grown, Samples, Sampled
    <3> QED
      BY <1>4, <3>1 DEF Sampled
  <2>2. LocalPorts(port) /= {}
    BY <2>1 DEF Lost
  <2>3. PICK p : p = CHOOSE q \in LocalPorts(port) : TRUE
    OBVIOUS
  <2>4. p \in LocalPorts(port)
    BY <2>2, <2>3
  <2>5. PICK f \in ToSet(aliases[mod]) : p = f[1]
    BY <2>4 DEF LocalPorts
  <2>6. f \in Entries
    BY <2>5 DEF ToSet
  <2>7. <<p, signals>> \in Entries
    BY <2>5, <2>6 DEF Entries
  <2>8. PICK u \in Seq(Entries) : u = s.up
    BY DEF Going
  <2>9. Prefixed(Entries, <<p, signals>>, u)
    BY <2>7, ToSetFirst
  <2>10. PICK v \in Seq(Entries) : v = <<<<p, signals>>>> \o u
    BY <2>9 DEF Prefixed
  <2>11. ToSet(v) = {<<p, signals>>} \cup ToSet(u)
    BY <2>9, <2>10 DEF Prefixed
  <2>12. t.annos = a /\ t.up = v
    BY <1>1, <1>2, <1>4, <2>3, <2>8, <2>10 DEF ResolvePort
  <2>13. \A e \in ToSet(v) : \E g \in ToSet(aliases[mod]) : e[1] = g[1]
    BY <2>5, <2>8, <2>11 DEF Going
  <2> QED
    BY <1>1, <1>2, <2>8, <2>11, <2>12, <2>13 DEF Going
<1> QED
  BY <1>3, <1>4

\* One round of the loop of resolvePortAliases, in terms of the rounds before.
Resolving(inst, entries, f, n) ==
    IF n = 0 THEN [annos |-> annos, up |-> aliases[mod]]
    ELSE ResolvePort(<<inst>> \o entries[n][1], entries[n][2], f[n - 1])

\* The states of the loop over the port aliases of an instance.
LEMMA ResolvedSteps ==
    ASSUME NEW inst, NEW S, NEW entries \in Seq(S)
    PROVE  \E f : /\ Resolved(inst, entries) = f[Len(entries)]
                  /\ \A n \in 0 .. Len(entries) : f[n] = Resolving(inst, entries, f, n)
<1> DEFINE IsUpto(f, j) == f = [n \in 0 .. j |-> Resolving(inst, entries, f, n)]
           E == {j \in Nat : \E f : IsUpto(f, j)}
           after == CHOOSE f : IsUpto(f, Len(entries))
<1>1. 0 \in E
  <2> DEFINE f == [n \in 0 .. 0 |-> [annos |-> annos, up |-> aliases[mod]]]
  <2>1. IsUpto(f, 0)
    BY DEF Resolving
  <2> QED
    BY <2>1
<1>2. ASSUME NEW j \in Nat, j \in E PROVE j + 1 \in E
  <2>1. PICK f : IsUpto(f, j)
    BY <1>2
  <2> DEFINE g == [n \in 0 .. j + 1 |-> Resolving(inst, entries, f, n)]
  <2>2. \A n \in 0 .. j : n \in 0 .. j + 1 /\ g[n] = f[n]
    <3>1. \A n \in 0 .. j : f[n] = Resolving(inst, entries, f, n)
      BY <2>1
    <3>2. \A n \in 0 .. j + 1 : g[n] = Resolving(inst, entries, f, n)
      OBVIOUS
    <3> HIDE DEF g
    <3> QED
      BY <3>1, <3>2
  <2>3. ASSUME NEW n \in 0 .. j + 1
        PROVE  Resolving(inst, entries, f, n) = Resolving(inst, entries, g, n)
    <3>1. n /= 0 => n - 1 \in 0 .. j
      OBVIOUS
    <3>2. n /= 0 => g[n - 1] = f[n - 1]
      BY <2>2, <3>1
    <3> HIDE DEF g
    <3> QED
      BY <3>2 DEF Resolving
  <2>4. IsUpto(g, j + 1)
    BY <2>3, Zenon
  <2> HIDE DEF g, IsUpto
  <2> QED
    BY <2>4
<1>3. Len(entries) \in Nat
  OBVIOUS
<1>4. Len(entries) \in E
  <2> HIDE DEF E
  <2> QED
    BY <1>1, <1>2, <1>3, Induction
<1>5. IsUpto(after, Len(entries))
  BY <1>4
<1>6. Resolved(inst, entries) = after[Len(entries)]
  BY DEF Resolved, Resolving
<1> HIDE DEF after
<1>7. PICK f : f = after
  OBVIOUS
<1>8. \A n \in 0 .. Len(entries) : f[n] = Resolving(inst, entries, f, n)
  BY <1>5, <1>7
<1> QED
  BY <1>6, <1>7, <1>8

\* Resolved is what ResolvePort makes of the entries one after another.
LEMMA ResolvedIs ==
    ASSUME annos \in Seq(Annotations), aliases[mod] \in Seq(Entries),
           NEW inst, NEW entries \in Seq(Entries),
           \A e \in ToSet(entries) : ~Lost(<<inst>> \o e[1])
    PROVE  Going(Resolved(inst, entries))
<1>1. PICK f : /\ Resolved(inst, entries) = f[Len(entries)]
               /\ \A n \in 0 .. Len(entries) : f[n] = Resolving(inst, entries, f, n)
  BY ResolvedSteps
<1>2. Len(entries) \in Nat
  OBVIOUS
<1> DEFINE S == {n \in Nat : n <= Len(entries) => Going(f[n])}
<1>3. 0 \in S
  <2>1. PICK s : s = f[0]
    OBVIOUS
  <2>2. s = [annos |-> annos, up |-> aliases[mod]]
    BY <1>1, <1>2, <2>1 DEF Resolving
  <2>3. Going(s)
    BY <2>2 DEF Going, Grown
  <2> QED
    BY <2>1, <2>3
<1>4. ASSUME NEW i \in Nat, i \in S PROVE i + 1 \in S
  <2> SUFFICES ASSUME i + 1 <= Len(entries) PROVE Going(f[i + 1])
    OBVIOUS
  <2>1. PICK j \in Nat : j = i + 1
    OBVIOUS
  <2>2. /\ j /= 0
        /\ j - 1 = i
        /\ j \in 0 .. Len(entries)
        /\ j \in 1 .. Len(entries)
        /\ i <= Len(entries)
    BY <1>2, <2>1
  <2>3. PICK e \in Entries : e = entries[j]
    BY <2>2
  <2>4. ~Lost(<<inst>> \o e[1]) /\ e[2] \in Seq(Targeted)
    <3>1. e \in ToSet(entries)
      BY <2>2, <2>3 DEF ToSet
    <3> QED
      BY <3>1 DEF Entries
  <2>5. PICK s : s = f[i]
    OBVIOUS
  <2>6. Going(s)
    BY <1>4, <2>2, <2>5
  <2>7. f[j] = ResolvePort(<<inst>> \o e[1], e[2], s)
    BY <1>1, <2>2, <2>3, <2>5 DEF Resolving
  <2>8. PICK port : port = <<inst>> \o e[1]
    OBVIOUS
  <2>9. Going(ResolvePort(port, e[2], s))
    BY <2>4, <2>6, <2>8, GoingOn
  <2> QED
    BY <2>1, <2>7, <2>8, <2>9
<1>5. Len(entries) \in S
  <2> HIDE DEF S
  <2> QED
    BY <1>2, <1>3, <1>4, Induction
<1> QED
  BY <1>1, <1>2, <1>5
------------------------------------------------------------------------------
\* What depends on the design and the kinds of signals does not change.
SameSignals ==
    /\ Modules' = Modules /\ Main' = Main
    /\ \A k \in Modules : /\ Selected(design[k])' = Selected(design[k])
                          /\ Instrumented(k)' = Instrumented(k) /\ IsTop(k)' = IsTop(k)
    /\ Covered' = Covered /\ Targeted' = Targeted
    /\ Annotations' = Annotations /\ Entries' = Entries

\* What a step that leaves the design and the kinds alone does not change.
LEMMA DesignStays ==
    ASSUME UNCHANGED <<design, kinds>>
    PROVE  SameSignals /\ ClocklessParent' = ClocklessParent
<1>1. Modules' = Modules /\ Main' = Main
  BY DEF Modules, Main
<1>2. \A k \in Modules : Selected(design[k])' = Selected(design[k])
  BY DEF Selected, Signals
<1>3. \A k \in Modules : Instrumented(k)' = Instrumented(k)
  BY DEF Instrumented, Selected, Signals
<1>4. \A k \in Modules : IsTop(k)' = IsTop(k)
  BY DEF IsTop, Modules, Main
<1>5. Covered' = Covered
  BY DEF Covered, Modules, Selected, Signals
<1>6. Targeted' = Targeted
  BY <1>1, <1>5 DEF Targeted
<1>7. Annotations' = Annotations /\ Entries' = Entries
  BY <1>1, <1>5, <1>6 DEF Annotations, Entries
<1>8. ClocklessParent' = ClocklessParent
  BY DEF ClocklessParent, Instrumented, Modules, Selected, Signals
<1> QED
  BY <1>1, <1>2, <1>3, <1>4, <1>5, <1>6, <1>7, <1>8 DEF SameSignals

\* The same for what depends on the cover points and the ports moved up.
LEMMA ReportStays ==
    ASSUME UNCHANGED <<annos, aliases>>, NEW k, NEW s
    PROVE  HasAnno(k, s)' = HasAnno(k, s) /\ HasAlias(k, s)' = HasAlias(k, s)
BY DEF HasAnno, HasAlias

\* The same for the groups that have to be covered.
LEMMA GroupsStay ==
    ASSUME UNCHANGED <<design, kinds, groups>>, NEW k
    PROVE  SignalGroups(k)' = SignalGroups(k)
BY DEF SignalGroups, Selected, Signals

\* Nothing has been selected, sampled or moved up at first.
LEMMA InitToggle == ToggleInit => ToggleIInv
<1> SUFFICES ASSUME ToggleInit PROVE ToggleIInv
  OBVIOUS
<1>1. design \in Designs /\ phase = "alias" /\ mod = 0 /\ annos = <<>> /\ toCover = {}
  BY DEF ToggleInit, Alias!Init
<1>2. aliases = [k \in Modules |-> <<>>]
  BY DEF ToggleInit
<1>3. <<>> \in Seq(Annotations) /\ <<>> \in Seq(Entries)
  BY EmptySeq
<1>4. ToggleTypes
  BY <1>1, <1>2, <1>3 DEF ToggleTypes
<1>5. \A k \in Modules : ToSet(aliases[k]) = {}
  BY <1>2 DEF ToSet
<1> QED
  BY <1>1, <1>4, <1>5 DEF ToggleIInv, PortsMoveUp, NoneForgotten, Passed, ToDo,
                          FailsOnlyWithoutClock

\* FindAliases preserves the invariant.
LEMMA FindAliasesToggle == ToggleIInv /\ FindAliases => ToggleIInv'
<1> SUFFICES ASSUME ToggleIInv, FindAliases PROVE ToggleIInv'
  OBVIOUS
<1>1. UNCHANGED <<design, kinds>>
  BY DEF FindAliases, Alias!Next, Alias!StartModule, Alias!TakeAlias, Alias!FinishModule
<1>2. SameSignals
  BY <1>1, DesignStays
<1>3. phase = "alias" /\ UNCHANGED <<phase, mod, toCover, annos, aliases>>
  BY DEF FindAliases
<1>4. ToggleTypes'
  BY <1>1, <1>2, <1>3 DEF ToggleIInv, ToggleTypes, SameSignals
<1>5. PortsMoveUp'
  BY <1>1, <1>2, <1>3 DEF ToggleIInv, PortsMoveUp, SameSignals
<1> QED
  BY <1>3, <1>4, <1>5 DEF ToggleIInv, NoneForgotten, Passed, ToDo, FailsOnlyWithoutClock

\* EnterModule preserves the invariant.
LEMMA EnterModuleToggle == ToggleIInv /\ EnterModule => ToggleIInv'
<1> SUFFICES ASSUME ToggleIInv, EnterModule PROVE ToggleIInv'
  OBVIOUS
<1>1. UNCHANGED <<design, kinds, groups, annos, aliases>>
  BY DEF EnterModule, alias
<1>2. SameSignals
  BY <1>1, DesignStays
<1>3. design \in Designs /\ (phase = "alias" => mod = 0) /\ (phase /= "alias" => mod \in Modules)
  BY DEF ToggleIInv, ToggleTypes
<1>4. Modules = 1 .. Main /\ Main \in Nat \ {0} /\ Modules' = Modules
  BY <1>2, <1>3, DesignShape DEF SameSignals
<1>5. /\ phase' = "cover" /\ mod' = mod + 1
      /\ toCover' = IF Instrumented(mod') THEN SignalGroups(mod') ELSE {}
  BY DEF EnterModule
<1>6. phase = "alias" \/ (phase = "cover" /\ toCover = {} /\ mod < Main)
  BY DEF EnterModule
<1>7. PICK m : m = mod'
  OBVIOUS
<1>8. m \in Modules /\ m = mod + 1
  BY <1>3, <1>4, <1>5, <1>6, <1>7
<1>9. toCover' = IF Instrumented(m) THEN SignalGroups(m) ELSE {}
  BY <1>5, <1>7
<1>10. ToggleTypes'
  <2>1. /\ annos' \in Seq(Annotations')
        /\ aliases' \in [Modules' -> Seq(Entries')]
        /\ design' \in Designs
    BY <1>1, <1>2 DEF ToggleIInv, ToggleTypes, SameSignals
  <2> QED
    BY <1>4, <1>5, <1>7, <1>8, <2>1 DEF ToggleTypes
<1>11. PortsMoveUp'
  BY <1>1, <1>2 DEF ToggleIInv, PortsMoveUp, SameSignals
<1>12. NoneForgotten'
  <2> SUFFICES ASSUME NEW k \in Modules', Instrumented(k)', Passed(k)',
                      NEW s \in Selected(design[k])'
               PROVE  HasAnno(k, s)' \/ HasAlias(k, s)' \/ (k = mod' /\ s \in UNION toCover')
    BY <1>5 DEF NoneForgotten
  <2>1. k \in Modules /\ Instrumented(k) /\ s \in Selected(design[k]) /\ k <= m
    BY <1>2, <1>5, <1>7 DEF SameSignals, Passed
  <2>2. CASE k = m
    <3>1. s \in UNION SignalGroups(m)
      BY <2>1, <2>2, GroupsSelected
    <3> QED
      BY <1>7, <1>9, <2>1, <2>2, <3>1
  <2>3. CASE k /= m
    <3>1. k <= mod /\ phase = "cover" /\ toCover = {}
      BY <1>3, <1>4, <1>6, <1>8, <2>1, <2>3
    <3>2. HasAnno(k, s) \/ HasAlias(k, s)
      BY <2>1, <3>1 DEF ToggleIInv, NoneForgotten, Passed
    <3> QED
      BY <1>1, <3>2, ReportStays
  <2> QED
    BY <2>2, <2>3
<1>13. ToDo'
  <2>1. Instrumented(m)' = Instrumented(m) /\ SignalGroups(m)' = SignalGroups(m)
    BY <1>1, <1>2, <1>8, GroupsStay DEF SameSignals
  <2>2. Instrumented(mod)' = Instrumented(m)' /\ SignalGroups(mod)' = SignalGroups(m)'
    BY <1>7 DEF Instrumented, SignalGroups, Selected, Signals
  <2> QED
    BY <1>5, <1>9, <2>1, <2>2 DEF ToDo
<1> QED
  BY <1>5, <1>10, <1>11, <1>12, <1>13 DEF ToggleIInv, FailsOnlyWithoutClock
\* A group is passed up to the parents.
LEMMA PassUpToggle ==
    ASSUME ToggleIInv, phase = "cover", NEW g \in toCover,
           NEW port \in g \cap design[mod].ports, ~IsTop(mod),
           aliases' = [aliases EXCEPT ![mod] = <<<<port, Targets(mod, g)>>>> \o @],
           toCover' = toCover \ {g},
           UNCHANGED <<design, kinds, groups, annos, phase, mod>>
    PROVE  ToggleIInv'
<1>1. /\ design \in Designs /\ mod \in Modules /\ annos \in Seq(Annotations)
      /\ aliases \in [Modules -> Seq(Entries)]
  BY DEF ToggleIInv, ToggleTypes
<1>2. SameSignals
  BY DesignStays
<1>3. PICK m \in Modules : m = mod
  BY <1>1
<1>4. g \in SignalGroups(m) /\ Instrumented(m)
  BY <1>3 DEF ToggleIInv, ToDo
<1>5. g \subseteq Selected(design[m])
  BY <1>4, GroupsSelected
<1>6. /\ Targets(m, g) \in Seq(Targeted)
      /\ ToSet(Targets(m, g)) = {<<m, s>> : s \in g}
  BY <1>1, <1>5, TargetsAre
<1>7. PICK e : e = <<port, Targets(m, g)>>
  OBVIOUS
<1>8. e \in Entries /\ e[1] = port /\ ToSet(e[2]) = {<<m, s>> : s \in g}
  BY <1>5, <1>6, <1>7 DEF Entries, Covered
<1>9. PICK old \in Seq(Entries) : old = aliases[m]
  BY <1>1
<1>10. Prefixed(Entries, e, old)
  BY <1>8, ToSetFirst
<1>11. PICK new \in Seq(Entries) : new = <<e>> \o old
  BY <1>10 DEF Prefixed
<1>12. ToSet(new) = {e} \cup ToSet(old)
  BY <1>10, <1>11 DEF Prefixed
<1>13. aliases' = [aliases EXCEPT ![m] = new]
  BY <1>3, <1>7, <1>9, <1>11
<1>14. /\ aliases' \in [Modules -> Seq(Entries)] /\ aliases'[m] = new
       /\ \A k \in Modules : k /= m => aliases'[k] = aliases[k]
  BY <1>1, <1>13
<1>15. ToggleTypes'
  BY <1>1, <1>2, <1>14 DEF ToggleIInv, ToggleTypes, SameSignals
<1>16. PortsMoveUp'
  <2> SUFFICES ASSUME NEW k \in Modules, NEW x \in ToSet(aliases'[k])
               PROVE  /\ x[1] \in design[k].ports \cap Selected(design[k])
                      /\ Instrumented(k) /\ ~IsTop(k)
    BY <1>2 DEF PortsMoveUp, SameSignals
  <2>1. CASE x \in ToSet(aliases[k])
    BY <2>1 DEF ToggleIInv, PortsMoveUp
  <2>2. CASE x \notin ToSet(aliases[k])
    <3>1. k = m /\ x = e
      BY <1>9, <1>12, <1>14, <2>2
    <3> QED
      BY <1>3, <1>4, <1>5, <1>8, <3>1
  <2> QED
    BY <2>1, <2>2
<1>17. NoneForgotten'
  <2> SUFFICES ASSUME NEW k \in Modules', Instrumented(k)', Passed(k)',
                      NEW s \in Selected(design[k])'
               PROVE  HasAnno(k, s)' \/ HasAlias(k, s)' \/ (k = mod' /\ s \in UNION toCover')
    BY DEF NoneForgotten
  <2>1. k \in Modules /\ Instrumented(k) /\ s \in Selected(design[k]) /\ Passed(k)
    BY <1>2 DEF SameSignals, Passed
  <2>2. HasAnno(k, s) \/ HasAlias(k, s) \/ (k = m /\ s \in UNION toCover)
    BY <1>3, <2>1 DEF ToggleIInv, NoneForgotten
  <2>3. CASE HasAnno(k, s)
    BY <2>3 DEF HasAnno
  <2>4. CASE HasAlias(k, s)
    BY <1>9, <1>12, <1>14, <2>1, <2>4 DEF HasAlias
  <2>5. CASE k = m /\ s \in UNION toCover
    <3>1. CASE s \in g
      BY <1>8, <1>12, <1>14, <2>5, <3>1 DEF HasAlias
    <3>2. CASE s \notin g
      BY <1>3, <2>5, <3>2
    <3> QED
      BY <3>1, <3>2
  <2> QED
    BY <2>2, <2>3, <2>4, <2>5
<1>18. ToDo'
  <2>1. Instrumented(m)' = Instrumented(m) /\ SignalGroups(m)' = SignalGroups(m)
    BY <1>2, GroupsStay DEF SameSignals
  <2>2. Instrumented(mod)' = Instrumented(m)' /\ SignalGroups(mod)' = SignalGroups(m)'
    BY <1>3 DEF Instrumented, SignalGroups, Selected, Signals
  <2> QED
    BY <1>3, <1>4, <2>1, <2>2 DEF ToggleIInv, ToDo
<1> QED
  BY <1>15, <1>16, <1>17, <1>18 DEF ToggleIInv, FailsOnlyWithoutClock

\* A signal of a group is sampled.
LEMMA SampleToggle ==
    ASSUME ToggleIInv, phase = "cover", NEW g \in toCover, NEW head \in g,
           annos' = <<[mod |-> mod, sampled |-> head, signals |-> Targets(mod, g)]>> \o annos,
           toCover' = toCover \ {g},
           UNCHANGED <<design, kinds, groups, aliases, phase, mod>>
    PROVE  ToggleIInv'
<1>1. /\ design \in Designs /\ mod \in Modules /\ annos \in Seq(Annotations)
      /\ aliases \in [Modules -> Seq(Entries)]
  BY DEF ToggleIInv, ToggleTypes
<1>2. SameSignals
  BY DesignStays
<1>3. PICK m \in Modules : m = mod
  BY <1>1
<1>4. g \in SignalGroups(m) /\ Instrumented(m)
  BY <1>3 DEF ToggleIInv, ToDo
<1>5. g \subseteq Selected(design[m])
  BY <1>4, GroupsSelected
<1>6. /\ Targets(m, g) \in Seq(Targeted)
      /\ ToSet(Targets(m, g)) = {<<m, s>> : s \in g}
  BY <1>1, <1>5, TargetsAre
<1>7. PICK a : a = [mod |-> m, sampled |-> head, signals |-> Targets(m, g)]
  OBVIOUS
<1>8. a \in Annotations /\ a.mod = m /\ ToSet(a.signals) = {<<m, s>> : s \in g}
  BY <1>5, <1>6, <1>7 DEF Annotations, Covered
<1>9. PICK old \in Seq(Annotations) : old = annos
  BY <1>1
<1>10. Prefixed(Annotations, a, old)
  BY <1>8, ToSetFirst
<1>11. annos' = <<a>> \o old
  BY <1>3, <1>7, <1>9
<1>12. annos' \in Seq(Annotations) /\ ToSet(annos') = {a} \cup ToSet(annos)
  BY <1>9, <1>10, <1>11 DEF Prefixed
<1>13. ToggleTypes'
  BY <1>1, <1>2, <1>12 DEF ToggleIInv, ToggleTypes, SameSignals
<1>14. PortsMoveUp'
  BY <1>2 DEF ToggleIInv, PortsMoveUp, SameSignals
<1>15. NoneForgotten'
  <2> SUFFICES ASSUME NEW k \in Modules', Instrumented(k)', Passed(k)',
                      NEW s \in Selected(design[k])'
               PROVE  HasAnno(k, s)' \/ HasAlias(k, s)' \/ (k = mod' /\ s \in UNION toCover')
    BY DEF NoneForgotten
  <2>1. k \in Modules /\ Instrumented(k) /\ s \in Selected(design[k]) /\ Passed(k)
    BY <1>2 DEF SameSignals, Passed
  <2>2. HasAnno(k, s) \/ HasAlias(k, s) \/ (k = m /\ s \in UNION toCover)
    BY <1>3, <2>1 DEF ToggleIInv, NoneForgotten
  <2>3. CASE HasAlias(k, s)
    BY <2>3 DEF HasAlias
  <2>4. CASE HasAnno(k, s)
    BY <1>12, <2>4 DEF HasAnno
  <2>5. CASE k = m /\ s \in UNION toCover
    <3>1. CASE s \in g
      BY <1>8, <1>12, <2>5, <3>1 DEF HasAnno
    <3>2. CASE s \notin g
      BY <1>3, <2>5, <3>2
    <3> QED
      BY <3>1, <3>2
  <2> QED
    BY <2>2, <2>3, <2>4, <2>5
<1>16. ToDo'
  <2>1. Instrumented(m)' = Instrumented(m) /\ SignalGroups(m)' = SignalGroups(m)
    BY <1>2, GroupsStay DEF SameSignals
  <2>2. Instrumented(mod)' = Instrumented(m)' /\ SignalGroups(mod)' = SignalGroups(m)'
    BY <1>3 DEF Instrumented, SignalGroups, Selected, Signals
  <2> QED
    BY <1>3, <1>4, <2>1, <2>2 DEF ToggleIInv, ToDo
<1> QED
  BY <1>13, <1>14, <1>15, <1>16 DEF ToggleIInv, FailsOnlyWithoutClock

\* CoverGroup preserves the invariant.
LEMMA CoverGroupToggle == ToggleIInv /\ CoverGroup => ToggleIInv'
<1> SUFFICES ASSUME ToggleIInv, CoverGroup PROVE ToggleIInv'
  OBVIOUS
<1>1. phase = "cover" /\ toCover /= {} /\ UNCHANGED <<design, kinds, groups, phase, mod>>
  BY DEF CoverGroup, alias
<1>2. PICK g : g = CHOOSE h \in toCover : TRUE
  OBVIOUS
<1>3. g \in toCover /\ toCover' = toCover \ {g}
  BY <1>1, <1>2 DEF CoverGroup
<1>4. \/ /\ ~IsTop(mod) /\ UNCHANGED annos
         /\ \E port \in g \cap design[mod].ports :
               aliases' = [aliases EXCEPT ![mod] = <<<<port, Targets(mod, g)>>>> \o @]
      \/ /\ UNCHANGED aliases
         /\ \E head \in g :
               annos' = <<[mod |-> mod, sampled |-> head,
                           signals |-> Targets(mod, g)]>> \o annos
  BY <1>2 DEF CoverGroup
<1> QED
  BY <1>1, <1>3, <1>4, PassUpToggle, SampleToggle

\* ResolveModule preserves the invariant.
LEMMA ResolveModuleToggle == ToggleIInv /\ ResolveModule => ToggleIInv'
<1> SUFFICES ASSUME ToggleIInv, ResolveModule PROVE ToggleIInv'
  OBVIOUS
<1>1. UNCHANGED <<design, kinds, annos, aliases>>
  BY DEF ResolveModule, alias
<1>2. SameSignals
  BY <1>1, DesignStays
<1>3. design \in Designs /\ (phase /= "alias" => mod \in Modules)
  BY DEF ToggleIInv, ToggleTypes
<1>4. Modules = 1 .. Main /\ Main \in Nat \ {0} /\ Modules' = Modules
  BY <1>2, <1>3, DesignShape DEF SameSignals
<1>5. /\ phase' = "resolve"
      /\ (phase = "cover" /\ mod = Main /\ toCover = {} /\ mod' = 1)
           \/ (phase = "resolve" /\ mod < Main /\ mod' = mod + 1)
  BY DEF ResolveModule
<1>6. PICK m : m = mod'
  OBVIOUS
<1>7. m \in Modules
  BY <1>3, <1>4, <1>5, <1>6
<1>8. ToggleTypes'
  <2>1. /\ annos' \in Seq(Annotations')
        /\ aliases' \in [Modules' -> Seq(Entries')]
        /\ design' \in Designs
    BY <1>1, <1>2 DEF ToggleIInv, ToggleTypes, SameSignals
  <2> QED
    BY <1>4, <1>5, <1>6, <1>7, <2>1 DEF ToggleTypes
<1>9. PortsMoveUp'
  BY <1>1, <1>2 DEF ToggleIInv, PortsMoveUp, SameSignals
<1>10. NoneForgotten'
  <2> SUFFICES ASSUME NEW k \in Modules', Instrumented(k)', NEW s \in Selected(design[k])'
               PROVE  HasAnno(k, s)' \/ HasAlias(k, s)'
    BY DEF NoneForgotten
  <2>1. k \in Modules /\ Instrumented(k) /\ s \in Selected(design[k])
    BY <1>2 DEF SameSignals
  <2>2. Passed(k) /\ (phase = "cover" => toCover = {})
    BY <1>3, <1>4, <1>5, <2>1 DEF Passed
  <2>3. HasAnno(k, s) \/ HasAlias(k, s)
    BY <2>1, <2>2 DEF ToggleIInv, NoneForgotten
  <2> QED
    BY <1>1, <2>3, ReportStays
<1>11. ToDo'
  <2>1. IsFiniteSet(DOMAIN design[m].instances)
    BY <1>3, <1>7, DesignShape DEF FiniteModule
  <2>2. SetToSeq(DOMAIN design[m].instances) \in Seq(DOMAIN design[m].instances)
    BY <2>1, SetToSeqIs
  <2>3. toResolve' = SetToSeq(DOMAIN design[m].instances)
    BY <1>6 DEF ResolveModule
  <2> QED
    BY <1>1, <1>5, <1>6, <2>2, <2>3 DEF ToDo
<1> QED
  BY <1>5, <1>8, <1>9, <1>10, <1>11 DEF ToggleIInv, FailsOnlyWithoutClock
\* A port of an instance that is neither sampled nor passed on is one of an
\* instrumented module, in a module that has no clock.
LEMMA LostHasNoClock ==
    ASSUME ToggleIInv, phase = "resolve", NEW i \in DOMAIN design[mod].instances,
           NEW e \in ToSet(aliases[design[mod].instances[i]]), Lost(<<i>> \o e[1])
    PROVE  ClocklessParent
<1>1. design \in Designs /\ mod \in Modules
  BY DEF ToggleIInv, ToggleTypes
<1>2. PICK m \in Modules : m = mod
  BY <1>1
<1>3. PICK c \in Modules : c = design[m].instances[i]
  BY <1>1, <1>2, DesignShape
<1>4. /\ e[1] \in design[c].ports /\ e[1] \in Selected(design[c])
      /\ Instrumented(c) /\ ~IsTop(c)
  BY <1>2, <1>3 DEF ToggleIInv, PortsMoveUp
<1>5. c \in Range(design[m].instances)
  BY <1>2, <1>3 DEF Range
<1>6. ~design[m].ignored
  BY <1>4, <1>5 DEF IsTop
<1>7. ~design[m].ext
  BY <1>1, <1>2, DesignShape DEF FiniteModule
<1>8. PICK p : e[1] = <<p>>
  BY <1>1, <1>4, DesignShape DEF FiniteModule
<1>9. PICK port : port = <<i>> \o e[1]
  OBVIOUS
<1>10. Len(port) = 2
  <2>1. /\ <<i>> \in Seq({i, p}) /\ Len(<<i>>) = 1
        /\ <<p>> \in Seq({i, p}) /\ Len(<<p>>) = 1
    OBVIOUS
  <2>2. Len(<<i>> \o <<p>>) = 2
    BY <2>1
  <2> QED
    BY <1>8, <1>9, <2>2
<1>11. port \in Signals(design[m])
  <2>1. port \in {<<i>> \o q : q \in design[design[m].instances[i]].ports}
    BY <1>3, <1>4, <1>9
  <2>2. i \in DOMAIN design[m].instances
    BY <1>2
  <2> QED
    BY <2>1, <2>2 DEF Signals
<1>12. "port" \in kinds
  BY <1>4 DEF Selected
<1>13. port \in Selected(design[m])
  BY <1>10, <1>11, <1>12 DEF Selected
<1>14. ~(HasAnno(m, port) \/ HasAlias(m, port))
  <2>1. ~Sampled(annos, port) /\ LocalPorts(port) = {}
    BY <1>9 DEF Lost
  <2>2. ~HasAnno(m, port)
    BY <1>2, <2>1 DEF HasAnno, Sampled, Samples, ToSet
  <2>3. ~HasAlias(m, port)
    <3>1. ASSUME NEW x \in ToSet(aliases[m]), <<m, port>> \in ToSet(x[2]) PROVE FALSE
      <4>1. x[1] \in LocalPorts(port)
        BY <1>2, <3>1 DEF LocalPorts
      <4> QED
        BY <2>1, <4>1
    <3> QED
      BY <3>1 DEF HasAlias
  <2> QED
    BY <2>2, <2>3
<1>15. ~Instrumented(m)
  BY <1>13, <1>14 DEF ToggleIInv, NoneForgotten, Passed
<1>16. ~design[m].clock
  BY <1>6, <1>7, <1>13, <1>15 DEF Instrumented
<1> QED
  BY <1>4, <1>5, <1>6, <1>16 DEF ClocklessParent

\* An instance with a port that is lost: a module without a clock is around it.
LEMMA FailToggle ==
    ASSUME ToggleIInv, phase = "resolve", ClocklessParent, phase' = "failed",
           UNCHANGED <<design, kinds, annos, aliases, mod>>
    PROVE  ToggleIInv'
<1>1. SameSignals /\ ClocklessParent'
  BY DesignStays
<1>2. ToggleTypes'
  BY <1>1 DEF ToggleIInv, ToggleTypes, SameSignals
<1>3. PortsMoveUp'
  BY <1>1 DEF ToggleIInv, PortsMoveUp, SameSignals
<1>4. NoneForgotten'
  <2> SUFFICES ASSUME NEW k \in Modules', Instrumented(k)', NEW s \in Selected(design[k])'
               PROVE  HasAnno(k, s)' \/ HasAlias(k, s)'
    BY DEF NoneForgotten
  <2>1. k \in Modules /\ Instrumented(k) /\ s \in Selected(design[k])
    BY <1>1 DEF SameSignals
  <2>2. HasAnno(k, s) \/ HasAlias(k, s)
    BY <2>1 DEF ToggleIInv, NoneForgotten, Passed
  <2> QED
    BY <2>2, ReportStays
<1> QED
  BY <1>1, <1>2, <1>3, <1>4 DEF ToggleIInv, ToDo, FailsOnlyWithoutClock

\* The ports of an instance are resolved.
LEMMA ResolvedToggle ==
    ASSUME ToggleIInv, phase = "resolve", NEW s, Going(s),
           annos' = s.annos, aliases' = [aliases EXCEPT ![mod] = s.up],
           toResolve /= <<>>, toResolve' = Tail(toResolve),
           UNCHANGED <<design, kinds, phase, mod>>
    PROVE  ToggleIInv'
<1>1. /\ design \in Designs /\ mod \in Modules /\ annos \in Seq(Annotations)
      /\ aliases \in [Modules -> Seq(Entries)]
  BY DEF ToggleIInv, ToggleTypes
<1>2. SameSignals
  BY DesignStays
<1>3. PICK m \in Modules : m = mod
  BY <1>1
<1>4. /\ annos' \in Seq(Annotations) /\ Grown(annos, s.annos)
      /\ s.up \in Seq(Entries) /\ ToSet(aliases[m]) \subseteq ToSet(s.up)
      /\ \A e \in ToSet(s.up) : \E f \in ToSet(aliases[m]) : e[1] = f[1]
  BY <1>3 DEF Going
<1>5. /\ aliases' \in [Modules -> Seq(Entries)] /\ aliases'[m] = s.up
      /\ \A k \in Modules : k /= m => aliases'[k] = aliases[k]
  BY <1>1, <1>3, <1>4
<1>6. ToggleTypes'
  BY <1>1, <1>2, <1>4, <1>5 DEF ToggleIInv, ToggleTypes, SameSignals
<1>7. PortsMoveUp'
  <2> SUFFICES ASSUME NEW k \in Modules, NEW x \in ToSet(aliases'[k])
               PROVE  /\ x[1] \in design[k].ports \cap Selected(design[k])
                      /\ Instrumented(k) /\ ~IsTop(k)
    BY <1>2 DEF PortsMoveUp, SameSignals
  <2>1. PICK f \in ToSet(aliases[k]) : x[1] = f[1]
    BY <1>4, <1>5
  <2> QED
    BY <2>1 DEF ToggleIInv, PortsMoveUp
<1>8. NoneForgotten'
  <2> SUFFICES ASSUME NEW k \in Modules', Instrumented(k)', NEW t \in Selected(design[k])'
               PROVE  HasAnno(k, t)' \/ HasAlias(k, t)'
    BY DEF NoneForgotten
  <2>1. k \in Modules /\ Instrumented(k) /\ t \in Selected(design[k])
    BY <1>2 DEF SameSignals
  <2>2. HasAnno(k, t) \/ HasAlias(k, t)
    BY <2>1 DEF ToggleIInv, NoneForgotten, Passed
  <2>3. CASE HasAnno(k, t)
    <3>1. PICK a \in ToSet(annos) : a.mod = k /\ <<k, t>> \in ToSet(a.signals)
      BY <2>3 DEF HasAnno
    <3>2. PICK n \in 1 .. Len(annos) : annos[n].mod = k /\ <<k, t>> \in ToSet(annos[n].signals)
      <4>1. PICK n \in DOMAIN annos : a = annos[n]
        BY <3>1 DEF ToSet
      <4>2. n \in 1 .. Len(annos)
        BY <1>1
      <4> QED
        BY <3>1, <4>1, <4>2
    <3>3. PICK new \in Seq(Annotations) : new = annos' /\ Len(new) = Len(annos)
                /\ new[n].mod = annos[n].mod
                 /\ ToSet(annos[n].signals) \subseteq ToSet(new[n].signals)
      <4>1. annos' = s.annos
        OBVIOUS
      <4>2. PICK new : new = s.annos
        OBVIOUS
      <4>3. new \in Seq(Annotations) /\ new = annos' /\ Grown(annos, new)
        BY <1>4, <4>1, <4>2
      <4> QED
        BY <3>2, <4>3 DEF Grown
    <3>4. n \in DOMAIN new /\ new[n].mod = k /\ <<k, t>> \in ToSet(new[n].signals)
      BY <3>2, <3>3
    <3>5. new[n] \in ToSet(annos')
      BY <3>3, <3>4 DEF ToSet
    <3> QED
      BY <3>4, <3>5 DEF HasAnno
  <2>4. CASE HasAlias(k, t)
    <3>1. ToSet(aliases[k]) \subseteq ToSet(aliases'[k])
      BY <1>4, <1>5, <2>1
    <3> QED
      BY <2>4, <3>1 DEF HasAlias
  <2> QED
    BY <2>2, <2>3, <2>4
<1>9. ToDo'
  <2>1. PICK S : S = DOMAIN design[m].instances
    OBVIOUS
  <2>2. toResolve \in Seq(S)
    BY <1>3, <2>1 DEF ToggleIInv, ToDo
  <2>3. toResolve' \in Seq(S)
    BY <2>2
  <2> QED
    BY <1>3, <2>1, <2>3 DEF ToDo
<1> QED
  BY <1>6, <1>7, <1>8, <1>9 DEF ToggleIInv, FailsOnlyWithoutClock

\* An instance is resolved, or the reason to fail is there.
LEMMA InstanceResolved ==
    ASSUME ToggleIInv, ResolveInstance
    PROVE  \/ phase' = "failed" /\ ClocklessParent /\ UNCHANGED <<annos, aliases>>
           \/ \E s : /\ Going(s) /\ annos' = s.annos
                    /\ aliases' = [aliases EXCEPT ![mod] = s.up]
                    /\ toResolve' = Tail(toResolve) /\ UNCHANGED phase
<1>1. phase = "resolve" /\ toResolve /= <<>> /\ UNCHANGED <<design, kinds, mod>>
  BY DEF ResolveInstance, alias
<1>2. PICK i : i = Head(toResolve)
  OBVIOUS
<1>3. PICK c : c = design[mod].instances[i]
  OBVIOUS
<1>4. /\ design \in Designs /\ mod \in Modules /\ annos \in Seq(Annotations)
      /\ aliases \in [Modules -> Seq(Entries)]
  BY <1>1 DEF ToggleIInv, ToggleTypes
<1>5. i \in DOMAIN design[mod].instances
  <2>1. PICK S : S = DOMAIN design[mod].instances
    OBVIOUS
  <2>2. toResolve \in Seq(S)
    BY <1>1, <2>1 DEF ToggleIInv, ToDo
  <2> QED
    BY <1>1, <1>2, <2>1, <2>2
<1>6. c \in Modules
  BY <1>3, <1>4, <1>5, DesignShape
<1>7. CASE \E e \in ToSet(aliases[c]) : Lost(<<i>> \o e[1])
  <2>1. phase' = "failed" /\ UNCHANGED <<annos, aliases>>
    BY <1>2, <1>3, <1>7 DEF ResolveInstance
  <2>2. ClocklessParent
    BY <1>1, <1>3, <1>5, <1>7, LostHasNoClock
  <2> QED
    BY <2>1, <2>2
<1>8. CASE ~(\E e \in ToSet(aliases[c]) : Lost(<<i>> \o e[1]))
  <2>1. PICK entries \in Seq(Entries) : entries = aliases[c]
    BY <1>4, <1>6
  <2>2. PICK s : s = Resolved(i, entries)
    OBVIOUS
  <2>3. Going(s)
    <3>1. aliases[mod] \in Seq(Entries)
      BY <1>4
    <3>2. \A e \in ToSet(entries) : ~Lost(<<i>> \o e[1])
      BY <1>8, <2>1
    <3>3. Going(Resolved(i, entries))
      BY <1>4, <3>1, <3>2, ResolvedIs
    <3> QED
      BY <2>2, <3>3
  <2>4. /\ annos' = s.annos /\ aliases' = [aliases EXCEPT ![mod] = s.up]
        /\ toResolve' = Tail(toResolve) /\ UNCHANGED phase
    BY <1>2, <1>3, <1>8, <2>1, <2>2 DEF ResolveInstance
  <2> QED
    BY <2>3, <2>4
<1> QED
  BY <1>7, <1>8

\* ResolveInstance preserves the invariant.
LEMMA ResolveInstanceToggle == ToggleIInv /\ ResolveInstance => ToggleIInv'
<1> SUFFICES ASSUME ToggleIInv, ResolveInstance PROVE ToggleIInv'
  OBVIOUS
<1>1. phase = "resolve" /\ toResolve /= <<>> /\ UNCHANGED <<design, kinds, mod>>
  BY DEF ResolveInstance, alias
<1>2. CASE phase' = "failed" /\ ClocklessParent /\ UNCHANGED <<annos, aliases>>
  BY <1>1, <1>2, FailToggle
<1>3. CASE \E s : /\ Going(s) /\ annos' = s.annos
                 /\ aliases' = [aliases EXCEPT ![mod] = s.up]
                 /\ toResolve' = Tail(toResolve) /\ UNCHANGED phase
  BY <1>1, <1>3, ResolvedToggle
<1> QED
  BY <1>2, <1>3, InstanceResolved

\* Finish preserves the invariant.
LEMMA FinishToggle == ToggleIInv /\ Finish => ToggleIInv'
<1> SUFFICES ASSUME ToggleIInv, Finish PROVE ToggleIInv'
  OBVIOUS
<1>1. phase = "resolve" /\ phase' = "done" /\ UNCHANGED <<design, kinds, annos, aliases, mod>>
  BY DEF Finish, alias
<1>2. SameSignals
  BY <1>1, DesignStays
<1>3. ToggleTypes'
  BY <1>1, <1>2 DEF ToggleIInv, ToggleTypes, SameSignals
<1>4. PortsMoveUp'
  BY <1>1, <1>2 DEF ToggleIInv, PortsMoveUp, SameSignals
<1>5. NoneForgotten'
  <2> SUFFICES ASSUME NEW k \in Modules', Instrumented(k)', NEW s \in Selected(design[k])'
               PROVE  HasAnno(k, s)' \/ HasAlias(k, s)'
    BY DEF NoneForgotten
  <2>1. k \in Modules /\ Instrumented(k) /\ s \in Selected(design[k])
    BY <1>2 DEF SameSignals
  <2>2. HasAnno(k, s) \/ HasAlias(k, s)
    BY <1>1, <2>1 DEF ToggleIInv, NoneForgotten, Passed
  <2> QED
    BY <1>1, <2>2, ReportStays
<1> QED
  BY <1>1, <1>3, <1>4, <1>5 DEF ToggleIInv, ToDo, FailsOnlyWithoutClock

\* So does a step that changes nothing.
LEMMA IdleToggle == ToggleIInv /\ UNCHANGED toggleVars => ToggleIInv'
<1> SUFFICES ASSUME ToggleIInv, UNCHANGED toggleVars PROVE ToggleIInv'
  OBVIOUS
<1>1. /\ UNCHANGED <<design, kinds, groups, annos, aliases>>
      /\ UNCHANGED <<phase, mod, toCover, toResolve>>
  BY DEF toggleVars, alias
<1>2. SameSignals /\ ClocklessParent' = ClocklessParent
  BY <1>1, DesignStays
<1>3. ToggleTypes'
  BY <1>1, <1>2 DEF ToggleIInv, ToggleTypes, SameSignals
<1>4. PortsMoveUp'
  BY <1>1, <1>2 DEF ToggleIInv, PortsMoveUp, SameSignals
<1>5. NoneForgotten'
  <2> SUFFICES ASSUME NEW k \in Modules', Instrumented(k)', Passed(k)',
                      NEW s \in Selected(design[k])'
               PROVE  HasAnno(k, s)' \/ HasAlias(k, s)'
                      \/ (phase' = "cover" /\ k = mod' /\ s \in UNION toCover')
    BY DEF NoneForgotten
  <2>1. k \in Modules /\ Instrumented(k) /\ s \in Selected(design[k]) /\ Passed(k)
    BY <1>1, <1>2 DEF SameSignals, Passed
  <2>2. HasAnno(k, s) \/ HasAlias(k, s) \/ (phase = "cover" /\ k = mod /\ s \in UNION toCover)
    BY <2>1 DEF ToggleIInv, NoneForgotten
  <2> QED
    BY <1>1, <2>2, ReportStays
<1>6. ToDo'
  <2>1. PICK m : m = mod
    OBVIOUS
  <2>2. SignalGroups(m)' = SignalGroups(m)
    BY <1>1, GroupsStay
  <2>3. /\ Instrumented(mod)' = Instrumented(m)' /\ SignalGroups(mod)' = SignalGroups(m)'
        /\ Instrumented(m)' = Instrumented(m)
    BY <1>1, <2>1 DEF Instrumented, SignalGroups, Selected, Signals
  <2> QED
    BY <1>1, <2>1, <2>2, <2>3 DEF ToggleIInv, ToDo
<1> QED
  BY <1>1, <1>2, <1>3, <1>4, <1>5, <1>6 DEF ToggleIInv, FailsOnlyWithoutClock

\* In every design: what is passed up can be resolved by each module above.
THEOREM ToggleIInvHolds == ToggleSpec => []ToggleIInv
<1>1. ToggleIInv /\ [ToggleNext]_toggleVars => ToggleIInv'
  BY FindAliasesToggle, EnterModuleToggle, CoverGroupToggle, ResolveModuleToggle,
     ResolveInstanceToggle, FinishToggle, IdleToggle DEF ToggleNext
<1> QED
  BY <1>1, InitToggle, PTL DEF ToggleSpec

\* The pass throws for no other reason than a module without a clock around an
\* instrumented one (resolvePortAliases, a port that is not found).
THEOREM FailsOnlyForClocks == ToggleSpec => []FailsOnlyWithoutClock
<1>1. ToggleIInv => FailsOnlyWithoutClock
  BY DEF ToggleIInv
<1> QED
  BY <1>1, ToggleIInvHolds, PTL
------------------------------------------------------------------------------
\* No signal is in two groups.
Separate(all) == \A g, h \in all : g \cap h /= {} => g = h

\* Joining the parts of a partition that an edge touches leaves a partition.
LEMMA JoinSeparate ==
    ASSUME NEW all, Separate(all), NEW edge
    PROVE  Separate(Alias!Join(all, edge))
<1> DEFINE touched == {g \in all : g \cap edge /= {}}
<1>1. PICK new : new = Alias!Join(all, edge)
  OBVIOUS
<1>2. new = (all \ touched) \cup {UNION touched}
  BY <1>1 DEF Alias!Join
<1>3. ASSUME NEW g \in all \ touched, g \cap UNION touched /= {} PROVE FALSE
  <2>1. PICK h \in touched : g \cap h /= {}
    BY <1>3
  <2>2. g = h
    BY <2>1 DEF Separate
  <2> QED
    BY <2>1, <2>2
<1> HIDE DEF touched
<1>4. ASSUME NEW g \in new, NEW h \in new, g \cap h /= {} PROVE g = h
  <2>1. CASE g \in all \ touched /\ h \in all \ touched
    BY <1>4, <2>1 DEF Separate
  <2>2. CASE g = UNION touched /\ h = UNION touched
    BY <2>2
  <2>3. CASE g \in all \ touched /\ h = UNION touched
    BY <1>3, <1>4, <2>3
  <2>4. CASE g = UNION touched /\ h \in all \ touched
    BY <1>3, <1>4, <2>4
  <2> QED
    BY <1>2, <2>1, <2>2, <2>3, <2>4
<1> QED
  BY <1>1, <1>4 DEF Separate

\* What the fold of Connected does with some of the edges.
Joining(base, g, s) == IF s = {} THEN base ELSE Alias!Join(g[Rest(s)], First(s))

\* Connected joins the edges one after another.
LEMMA ConnectedIs ==
    ASSUME NEW d, IsFiniteSet(d)
    PROVE  \E F : /\ Alias!Connected(d) = F[d]
                  /\ F[{}] = {{s} : s \in UNION d}
                  /\ \A s \in SUBSET d : s /= {} => F[s] = Alias!Join(F[Rest(s)], First(s))
<1> DEFINE base == {{s} : s \in UNION d}
           S == {n \in Nat : \E g : g = [s \in Small(d, n) |-> Joining(base, g, s)]}
<1>0. base = {{s} : s \in UNION d}
  OBVIOUS
<1> HIDE DEF base
<1>1. 0 \in S
  <2> DEFINE g == [s \in Small(d, 0) |-> base]
  <2>1. ASSUME NEW s \in Small(d, 0) PROVE s = {}
    <3>1. IsFiniteSet(s) /\ Cardinality(s) \in Nat /\ Cardinality(s) <= 0
      BY FS_Subset, FS_CardinalityType DEF Small
    <3> QED
      BY <3>1, FS_EmptySet
  <2>2. g = [s \in Small(d, 0) |-> Joining(base, g, s)]
    BY <2>1 DEF Joining
  <2> QED
    BY <2>2
<1>2. ASSUME NEW n \in Nat, n \in S PROVE n + 1 \in S
  <2>1. PICK g : g = [s \in Small(d, n) |-> Joining(base, g, s)]
    BY <1>2
  <2> DEFINE h == [s \in Small(d, n + 1) |-> Joining(base, g, s)]
  <2>2. \A s \in Small(d, n) : s \in Small(d, n + 1)
    <3> SUFFICES ASSUME NEW s \in Small(d, n) PROVE s \in Small(d, n + 1)
      OBVIOUS
    <3>1. s \in SUBSET d /\ Cardinality(s) <= n /\ Cardinality(s) \in Nat
      BY FS_Subset, FS_CardinalityType DEF Small
    <3> QED
      BY <3>1 DEF Small
  <2>3. \A s \in Small(d, n) : h[s] = g[s]
    BY <2>1, <2>2
  <2>4. ASSUME NEW s \in Small(d, n + 1) PROVE Joining(base, g, s) = Joining(base, h, s)
    <3>1. CASE s = {}
      BY <3>1 DEF Joining
    <3>2. CASE s /= {}
      <4>1. Rest(s) \in Small(d, n)
        BY <3>2, Smaller
      <4>2. h[Rest(s)] = g[Rest(s)]
        BY <2>3, <4>1
      <4> HIDE DEF h
      <4> QED
        BY <4>2 DEF Joining
    <3> QED
      BY <3>1, <3>2
  <2>5. h = [s \in Small(d, n + 1) |-> Joining(base, h, s)]
    BY <2>4, Zenon
  <2> HIDE DEF h
  <2> QED
    BY <2>5
<1> DEFINE c == Cardinality(d)
<1>3. c \in Nat /\ Small(d, c) = SUBSET d
  BY FS_CardinalityType, FS_Subset DEF Small
<1>4. c \in S
  <2> HIDE DEF S, c
  <2> QED
    BY <1>1, <1>2, <1>3, Induction
<1>5. \E g : g = [s \in SUBSET d |-> Joining(base, g, s)]
  BY <1>3, <1>4
<1> DEFINE Fold == CHOOSE g : g = [s \in SUBSET d |-> Joining(base, g, s)]
<1>6. Alias!Connected(d) = Fold[d]
  BY DEF Alias!Connected, Alias!FoldSet, Alias!MapThenFoldSet, Joining, First, Rest, base
<1>7. Fold = [s \in SUBSET d |-> Joining(base, Fold, s)]
  BY <1>5
<1> HIDE DEF Fold
<1>8. \A s \in SUBSET d : Fold[s] = Joining(base, Fold, s)
  BY <1>7
<1>9. Fold[{}] = base
  BY <1>8 DEF Joining
<1>10. \A s \in SUBSET d : s /= {} => Fold[s] = Alias!Join(Fold[Rest(s)], First(s))
  BY <1>8 DEF Joining
<1> QED
  BY <1>0, <1>6, <1>9, <1>10

\* Signals that are connected form groups of their own, however many edges.
LEMMA ConnectedSeparate ==
    ASSUME NEW d, IsFiniteSet(d)
    PROVE  Separate(Alias!Connected(d))
<1>1. PICK F : /\ Alias!Connected(d) = F[d]
               /\ F[{}] = {{s} : s \in UNION d}
               /\ \A s \in SUBSET d : s /= {} => F[s] = Alias!Join(F[Rest(s)], First(s))
  BY ConnectedIs
<1> DEFINE P == {s \in SUBSET d : Separate(F[s])}
<1>2. {} \in P
  <2>1. Separate({{s} : s \in UNION d})
    BY DEF Separate
  <2> QED
    BY <1>1, <2>1
<1>3. ASSUME NEW s \in SUBSET d, s /= {}, Rest(s) \in P PROVE s \in P
  <2>1. F[s] = Alias!Join(F[Rest(s)], First(s))
    BY <1>1, <1>3
  <2>2. PICK all, edge : all = F[Rest(s)] /\ edge = First(s)
    OBVIOUS
  <2>3. Separate(Alias!Join(all, edge))
    BY <1>3, <2>2, JoinSeparate
  <2> QED
    BY <2>1, <2>2, <2>3
<1>4. d \in P
  <2> HIDE DEF P
  <2> QED
    BY <1>2, <1>3, SubsetInduction
<1> QED
  BY <1>1, <1>4

\* The groups have what the edges have, and every edge is in one of them.
Grouped(d, s, all) ==
    /\ UNION all = UNION d /\ {} \notin all
    /\ \A e \in s : \E g \in all : e \subseteq g

\* One more edge.
LEMMA JoinGrouped ==
    ASSUME NEW d, NEW s \in SUBSET d, NEW all, Grouped(d, s, all),
           NEW edge \in d, edge /= {}
    PROVE  Grouped(d, s \cup {edge}, Alias!Join(all, edge))
<1>1. PICK touched : touched = {g \in all : g \cap edge /= {}}
  OBVIOUS
<1>2. PICK new : new = Alias!Join(all, edge)
  OBVIOUS
<1>3. new = (all \ touched) \cup {UNION touched}
  BY <1>1, <1>2 DEF Alias!Join
<1>4. edge \subseteq UNION touched
  <2> SUFFICES ASSUME NEW x \in edge PROVE x \in UNION touched
    OBVIOUS
  <2>1. PICK g \in all : x \in g
    BY DEF Grouped
  <2> QED
    BY <1>1, <2>1
<1>5. UNION new = UNION d
  <2>1. UNION new = UNION all
    BY <1>1, <1>3
  <2> QED
    BY <2>1 DEF Grouped
<1>6. {} \notin new
  BY <1>3, <1>4 DEF Grouped
<1>7. ASSUME NEW e \in s \cup {edge} PROVE \E g \in new : e \subseteq g
  <2>1. CASE e = edge
    BY <1>3, <1>4, <2>1
  <2>2. CASE e \in s
    <3>1. PICK g \in all : e \subseteq g
      BY <2>2 DEF Grouped
    <3> QED
      BY <1>3, <3>1
  <2> QED
    BY <2>1, <2>2
<1> QED
  BY <1>2, <1>5, <1>6, <1>7 DEF Grouped

\* Every group of all is part of a group of p.
Refines(all, p) == \A g \in all : \E h \in p : g \subseteq h

\* One more edge leaves the groups as small as they have to be.
LEMMA JoinRefines ==
    ASSUME NEW all, NEW p, Separate(p), Refines(all, p),
           NEW edge, NEW h \in p, edge \subseteq h
    PROVE  Refines(Alias!Join(all, edge), p)
<1>1. PICK touched : touched = {g \in all : g \cap edge /= {}}
  OBVIOUS
<1>2. ASSUME NEW g \in touched PROVE g \subseteq h
  <2>1. PICK o \in p : g \subseteq o
    BY <1>1 DEF Refines
  <2>2. o \cap h /= {}
    BY <1>1, <2>1
  <2>3. o = h
    BY <2>2 DEF Separate
  <2> QED
    BY <2>1, <2>3
<1>3. UNION touched \subseteq h
  BY <1>2
<1>4. Alias!Join(all, edge) = (all \ touched) \cup {UNION touched}
  BY <1>1 DEF Alias!Join
<1> QED
  BY <1>3, <1>4 DEF Refines

\* Connected makes the smallest groups in which every edge is.
LEMMA ConnectedGroups ==
    ASSUME NEW d, IsFiniteSet(d), {} \notin d
    PROVE  /\ Grouped(d, d, Alias!Connected(d))
           /\ \A p : Separate(p) /\ Refines(d, p) => Refines(Alias!Connected(d), p)
<1>1. PICK F : /\ Alias!Connected(d) = F[d]
               /\ F[{}] = {{s} : s \in UNION d}
               /\ \A s \in SUBSET d : s /= {} => F[s] = Alias!Join(F[Rest(s)], First(s))
  BY ConnectedIs
<1>2. ASSUME NEW s \in SUBSET d, s /= {}
      PROVE  /\ First(s) \in d /\ First(s) /= {} /\ Rest(s) \in SUBSET d
             /\ Rest(s) \cup {First(s)} = s
  BY <1>2 DEF First, Rest
<1>3. Grouped(d, d, F[d])
  <2> DEFINE P == {s \in SUBSET d : Grouped(d, s, F[s])}
  <2>1. {} \in P
    <3>1. Grouped(d, {}, {{s} : s \in UNION d})
      BY DEF Grouped
    <3> QED
      BY <1>1, <3>1
  <2>2. ASSUME NEW s \in SUBSET d, s /= {}, Rest(s) \in P PROVE s \in P
    <3>1. PICK all, edge, r : all = F[Rest(s)] /\ edge = First(s) /\ r = Rest(s)
      OBVIOUS
    <3>2. Grouped(d, r \cup {edge}, Alias!Join(all, edge))
      BY <1>2, <2>2, <3>1, JoinGrouped
    <3> QED
      BY <1>1, <1>2, <2>2, <3>1, <3>2
  <2> HIDE DEF P
  <2>3. d \in P
    BY <2>1, <2>2, SubsetInduction
  <2> QED
    BY <2>3 DEF P
<1>4. ASSUME NEW p, Separate(p), Refines(d, p) PROVE Refines(F[d], p)
  <2> DEFINE P == {s \in SUBSET d : Refines(F[s], p)}
  <2>1. {} \in P
    <3> SUFFICES ASSUME NEW x \in UNION d PROVE \E h \in p : {x} \subseteq h
      BY <1>1 DEF Refines
    <3>1. PICK e \in d : x \in e
      OBVIOUS
    <3>2. PICK h \in p : e \subseteq h
      BY <1>4 DEF Refines
    <3> QED
      BY <3>1, <3>2
  <2>2. ASSUME NEW s \in SUBSET d, s /= {}, Rest(s) \in P PROVE s \in P
    <3>1. PICK all, edge, r : all = F[Rest(s)] /\ edge = First(s) /\ r = Rest(s)
      OBVIOUS
    <3>2. PICK h \in p : edge \subseteq h
      BY <1>2, <1>4, <2>2, <3>1 DEF Refines
    <3>3. Refines(Alias!Join(all, edge), p)
      BY <1>4, <2>2, <3>1, <3>2, JoinRefines
    <3> QED
      BY <1>1, <2>2, <3>1, <3>3
  <2> HIDE DEF P
  <2>3. d \in P
    BY <2>1, <2>2, SubsetInduction
  <2> QED
    BY <2>3 DEF P
<1> QED
  BY <1>1, <1>3, <1>4

\* The connections of a module, given the groups of the modules in it.
Edges(f, k) == Alias!Edges(f, design[k])

\* There are finitely many of them.
LEMMA EdgesFinite ==
    ASSUME design \in Designs, NEW k \in Modules, NEW f
    PROVE  IsFiniteSet(Edges(f, k))
<1>1. PICK m : m = design[k]
  OBVIOUS
<1>2. FiniteModule(m) /\ \A i \in DOMAIN m.instances : m.instances[i] \in Modules
  BY <1>1, DesignShape
<1>3. IsFiniteSet(DOMAIN m.drivers) /\ IsFiniteSet(DOMAIN m.instances)
  BY <1>2 DEF FiniteModule
<1>4. IsFiniteSet(Alias!Wires(m))
  <2>1. PICK S : S = DOMAIN m.drivers \ m.regs
    OBVIOUS
  <2>2. IsFiniteSet(S)
    BY <1>3, <2>1, FS_Difference
  <2> DEFINE g == [s \in S |-> {s, m.drivers[s]}]
  <2>3. DOMAIN g = S /\ {g[s] : s \in S} = Alias!Wires(m)
    BY <2>1 DEF Alias!Wires
  <2> HIDE DEF g
  <2> QED
    BY <2>2, <2>3, ImageFinite
<1>5. \A i \in DOMAIN m.instances : IsFiniteSet(Alias!Through(f, m, i))
  <2> SUFFICES ASSUME NEW i \in DOMAIN m.instances PROVE IsFiniteSet(Alias!Through(f, m, i))
    OBVIOUS
  <2>1. PICK ports : ports = design[m.instances[i]].ports
    OBVIOUS
  <2>2. IsFiniteSet(ports)
    BY <1>2, <2>1, DesignShape DEF FiniteModule
  <2> DEFINE g == [p \in ports |-> <<i>> \o p]
             T == {g[p] : p \in ports}
  <2>3. DOMAIN g = ports /\ T = {<<i>> \o p : p \in ports}
    OBVIOUS
  <2> HIDE DEF g
  <2>4. IsFiniteSet(T)
    BY <2>2, <2>3, ImageFinite
  <2> HIDE DEF T
  <2>5. IsFiniteSet(SUBSET T)
    BY <2>4, FS_SUBSET
  <2>6. ASSUME NEW x \in Alias!Through(f, m, i) PROVE x \subseteq T
    <3>1. PICK h : x = {<<i>> \o p : p \in h \cap ports}
      BY <2>1 DEF Alias!Through
    <3> QED
      BY <2>3, <3>1
  <2>7. Alias!Through(f, m, i) \in SUBSET (SUBSET T)
    BY <2>6
  <2> QED
    BY <2>5, <2>7, FS_Subset
<1> DEFINE g == [i \in DOMAIN m.instances |-> Alias!Through(f, m, i)]
           below == {g[i] : i \in DOMAIN m.instances}
<1>6. IsFiniteSet(below)
  <2>1. DOMAIN g = DOMAIN m.instances
    OBVIOUS
  <2> HIDE DEF g
  <2> QED
    BY <1>3, <2>1, ImageFinite
<1>7. (\A T \in below : IsFiniteSet(T))
       /\ below = {Alias!Through(f, m, i) : i \in DOMAIN m.instances}
  BY <1>5
<1> HIDE DEF below
<1>8. IsFiniteSet(UNION below)
  BY <1>6, <1>7, FS_UNION
<1>9. Edges(f, k) = Alias!Wires(m) \cup UNION below
  BY <1>1, <1>7 DEF Edges, Alias!Edges
<1> QED
  BY <1>4, <1>8, <1>9, FS_Union

\* The groups that a design really has are defined, bottom-up.
LEMMA TrueGroupsAre ==
    ASSUME design \in Designs
    PROVE  \E f : /\ f = [k \in Modules |-> Alias!Connected(Edges(f, k))]
                  /\ Alias!TrueGroups = f
<1> DEFINE IsUpto(f, j) == f = [k \in 1 .. j |-> Alias!Connected(Edges(f, k))]
           E == {j \in Nat : j <= Main => \E f : IsUpto(f, j)}
<1>1. Main \in Nat /\ Modules = 1 .. Main
  BY DesignShape
<1>2. 0 \in E
  <2> DEFINE f == [k \in 1 .. 0 |-> {}]
  <2>1. IsUpto(f, 0)
    OBVIOUS
  <2> QED
    BY <2>1
<1>3. ASSUME NEW j \in Nat, j \in E PROVE j + 1 \in E
  <2> SUFFICES ASSUME j + 1 <= Main PROVE \E g : IsUpto(g, j + 1)
    OBVIOUS
  <2>1. PICK f : IsUpto(f, j)
    BY <1>1, <1>3
  <2> DEFINE g == [k \in 1 .. j + 1 |-> Alias!Connected(Edges(f, k))]
  <2>2. \A k \in 1 .. j : k \in 1 .. j + 1 /\ g[k] = f[k]
    <3>1. \A k \in 1 .. j : f[k] = Alias!Connected(Edges(f, k))
      BY <2>1
    <3>2. \A k \in 1 .. j + 1 : g[k] = Alias!Connected(Edges(f, k))
      OBVIOUS
    <3> HIDE DEF g
    <3> QED
      BY <3>1, <3>2
  <2>3. ASSUME NEW k \in 1 .. j + 1
        PROVE  Alias!Connected(Edges(f, k)) = Alias!Connected(Edges(g, k))
    <3>1. k \in Modules
      BY <1>1
    <3>2. \A i \in DOMAIN design[k].instances :
                 g[design[k].instances[i]] = f[design[k].instances[i]]
      <4> SUFFICES ASSUME NEW i \in DOMAIN design[k].instances
                   PROVE  g[design[k].instances[i]] = f[design[k].instances[i]]
        OBVIOUS
      <4>1. design[k].instances[i] \in 1 .. k - 1
        BY <3>1, DesignShape
      <4>2. design[k].instances[i] \in 1 .. j
        BY <4>1
      <4> HIDE DEF g
      <4> QED
        BY <2>2, <4>2
    <3> HIDE DEF g
    <3>3. \A i \in DOMAIN design[k].instances :
                 Alias!Through(f, design[k], i) = Alias!Through(g, design[k], i)
      BY <3>2 DEF Alias!Through
    <3>4. Edges(f, k) = Edges(g, k)
      BY <3>3 DEF Edges, Alias!Edges
    <3> QED
      BY <3>4
  <2>4. IsUpto(g, j + 1)
    BY <2>3, Zenon
  <2> HIDE DEF g, IsUpto
  <2> QED
    BY <2>4
<1>4. Main \in E
  <2> HIDE DEF E
  <2> QED
    BY <1>1, <1>2, <1>3, Induction
<1>5. \E f : f = [k \in Modules |-> Alias!Connected(Edges(f, k))]
  BY <1>1, <1>4
<1> DEFINE f == CHOOSE g : g = [k \in Modules |-> Alias!Connected(Edges(g, k))]
<1>6. Alias!TrueGroups = f
  BY DEF Alias!TrueGroups, Edges, Modules
<1>7. f = [k \in Modules |-> Alias!Connected(Edges(f, k))]
  BY <1>5
<1> QED
  BY <1>6, <1>7

\* The groups of connected signals of a module have nothing in common.
LEMMA TrueGroupsSeparate ==
    ASSUME design \in Designs, NEW k \in Modules
    PROVE  Separate(Alias!TrueGroups[k])
<1>1. PICK f : f = [n \in Modules |-> Alias!Connected(Edges(f, n))] /\ Alias!TrueGroups = f
  BY TrueGroupsAre
<1>2. f[k] = Alias!Connected(Edges(f, k))
  BY <1>1
<1>3. PICK edges : edges = Edges(f, k)
  OBVIOUS
<1>4. IsFiniteSet(edges)
  BY <1>3, EdgesFinite
<1>5. Separate(Alias!Connected(edges))
  BY <1>4, ConnectedSeparate
<1> QED
  BY <1>1, <1>2, <1>3, <1>5
------------------------------------------------------------------------------
\* If no signal is in two of the groups of AliasAnalysis, none is in two of
\* those of coverSignals.
LEMMA SignalGroupsSeparate ==
    ASSUME NEW k, Separate(groups[k])
    PROVE  Separate(SignalGroups(k))
<1> DEFINE selected == Selected(design[k])
           aliased == {g \in {h \cap selected : h \in groups[k]} : Cardinality(g) > 1}
<1>1. SignalGroups(k) = aliased \cup {{s} : s \in selected \ UNION aliased}
  BY DEF SignalGroups
<1>2. ASSUME NEW g \in aliased, NEW h \in aliased, g \cap h /= {} PROVE g = h
  <2>1. PICK a \in groups[k] : g = a \cap selected
    OBVIOUS
  <2>2. PICK b \in groups[k] : h = b \cap selected
    OBVIOUS
  <2>3. a \cap b /= {}
    BY <1>2, <2>1, <2>2
  <2>4. a = b
    BY <2>3 DEF Separate
  <2> QED
    BY <2>1, <2>2, <2>4
<1> HIDE DEF selected, aliased
<1>3. ASSUME NEW g \in SignalGroups(k), NEW h \in SignalGroups(k), g \cap h /= {}
      PROVE  g = h
  <2>1. CASE g \in aliased /\ h \in aliased
    BY <1>2, <1>3, <2>1
  <2>2. CASE g \notin aliased
    <3>1. PICK s \in selected \ UNION aliased : g = {s}
      BY <1>1, <2>2
    <3>2. s \in h /\ h \notin aliased
      BY <1>3, <3>1
    <3> QED
      BY <1>1, <3>1, <3>2
  <2>3. CASE h \notin aliased
    <3>1. PICK s \in selected \ UNION aliased : h = {s}
      BY <1>1, <2>3
    <3>2. s \in g /\ g \notin aliased
      BY <1>3, <3>1
    <3> QED
      BY <1>1, <3>1, <3>2
  <2> QED
    BY <2>1, <2>2, <2>3
<1> QED
  BY <1>3 DEF Separate

\* What is sampled is selected, in a module that has been entered.
SamplesSelected ==
    \A n \in 1 .. Len(annos) :
        /\ annos[n].sampled \in Selected(design[annos[n].mod])
        /\ phase = "cover" => annos[n].mod <= mod

\* What is sampled is in none of the groups that are still to be covered.
SamplesLeft ==
    phase = "cover" /\ Separate(groups[mod]) =>
        \A n \in 1 .. Len(annos) : annos[n].mod = mod =>
            \A g \in toCover : annos[n].sampled \notin g

\* No group is sampled twice.
SamplesApart ==
    \A n, o \in 1 .. Len(annos) :
        n /= o /\ annos[n].mod = annos[o].mod /\ Separate(groups[annos[n].mod]) =>
            \A g \in SignalGroups(annos[n].mod) :
                ~({annos[n].sampled, annos[o].sampled} \subseteq g)

\* What is known about samples.
Samplings == SamplesSelected /\ SamplesLeft /\ SamplesApart

\* A cover point is in a module of the design.
LEMMA AnnotatedModules ==
    ASSUME NEW s \in Seq(Annotations)
    PROVE  \A n \in 1 .. Len(s) : s[n].mod \in Modules
<1> SUFFICES ASSUME NEW n \in 1 .. Len(s) PROVE s[n].mod \in Modules
  OBVIOUS
<1>1. PICK a \in Annotations : a = s[n]
  OBVIOUS
<1>2. a.mod \in Modules
  BY DEF Annotations
<1> QED
  BY <1>1, <1>2

\* The cover points stay, and the module does not become a later one.
LEMMA SamplingsStay ==
    ASSUME ToggleIInv, Samplings, UNCHANGED <<design, kinds, groups>>,
           Len(annos') = Len(annos),
           \A n \in 1 .. Len(annos) : /\ annos'[n].mod = annos[n].mod
                                      /\ annos'[n].sampled = annos[n].sampled,
           phase' = "cover" => /\ phase = "cover" /\ UNCHANGED mod
                               /\ toCover' \subseteq toCover
    PROVE  Samplings'
<1>1. annos \in Seq(Annotations) /\ design \in Designs
  BY DEF ToggleIInv, ToggleTypes
<1>2. \A n \in 1 .. Len(annos) : annos[n].mod \in Modules
  BY <1>1, AnnotatedModules
<1>3. SameSignals
  BY DesignStays
<1>4. SamplesSelected'
  <2> SUFFICES ASSUME NEW n \in 1 .. Len(annos)
               PROVE  /\ annos'[n].sampled \in Selected(design[annos[n].mod])'
                      /\ phase' = "cover" => annos[n].mod <= mod'
    BY DEF SamplesSelected
  <2>1. PICK k \in Modules : k = annos[n].mod
    BY <1>2
  <2>2. annos[n].sampled \in Selected(design[k]) /\ (phase = "cover" => k <= mod)
    BY <2>1 DEF Samplings, SamplesSelected
  <2>3. Selected(design[k])' = Selected(design[k])
    BY <1>3 DEF SameSignals
  <2>4. annos[n].mod' = annos[n].mod /\ annos'[n].mod = k
    BY <2>1
  <2> QED
    BY <2>1, <2>2, <2>3
<1>5. SamplesLeft'
  <2> SUFFICES ASSUME phase' = "cover", Separate(groups[mod])', NEW n \in 1 .. Len(annos),
                      annos'[n].mod = mod', NEW g \in toCover', annos'[n].sampled \in g
               PROVE  FALSE
    BY DEF SamplesLeft
  <2>1. phase = "cover" /\ mod' = mod /\ g \in toCover /\ annos[n].mod = mod
    OBVIOUS
  <2>2. Separate(groups[mod])
    BY <2>1 DEF Separate
  <2> QED
    BY <2>1, <2>2 DEF Samplings, SamplesLeft
<1>6. SamplesApart'
  <2> SUFFICES ASSUME NEW n \in 1 .. Len(annos), NEW o \in 1 .. Len(annos), n /= o,
                      annos'[n].mod = annos'[o].mod, Separate(groups[annos[n].mod])',
                      NEW g \in SignalGroups(annos[n].mod)',
                      {annos'[n].sampled, annos'[o].sampled} \subseteq g
               PROVE  FALSE
    BY DEF SamplesApart
  <2>1. PICK k \in Modules : k = annos[n].mod
    BY <1>2
  <2>2. SignalGroups(k)' = SignalGroups(k)
    BY GroupsStay
  <2> QED
    BY <2>1, <2>2 DEF Samplings, SamplesApart
<1> QED
  BY <1>4, <1>5, <1>6 DEF Samplings
\* There are no samples at first.
LEMMA InitSamplings == ToggleInit => Samplings
<1> SUFFICES ASSUME ToggleInit PROVE Samplings
  OBVIOUS
<1>1. phase = "alias" /\ annos = <<>>
  BY DEF ToggleInit
<1>2. 1 .. Len(annos) = {}
  <2>1. Len(annos) = 0
    BY <1>1, EmptySeq
  <2> QED
    BY <2>1
<1> QED
  BY <1>1, <1>2 DEF Samplings, SamplesSelected, SamplesLeft, SamplesApart

\* FindAliases preserves what is known about samples.
LEMMA FindAliasesSamplings == ToggleIInv /\ FindAliases => Samplings'
<1> SUFFICES ASSUME ToggleIInv, FindAliases PROVE Samplings'
  OBVIOUS
<1>1. phase' = "alias" /\ annos' = <<>>
  BY DEF FindAliases, ToggleIInv, ToggleTypes
<1>2. 1 .. Len(annos') = {}
  <2>1. Len(annos') = 0
    BY <1>1, EmptySeq
  <2> QED
    BY <2>1
<1> QED
  BY <1>1, <1>2 DEF Samplings, SamplesSelected, SamplesLeft, SamplesApart

\* EnterModule preserves what is known about samples.
LEMMA EnterModuleSamplings == ToggleIInv /\ Samplings /\ EnterModule => Samplings'
<1> SUFFICES ASSUME ToggleIInv, Samplings, EnterModule PROVE Samplings'
  OBVIOUS
<1>1. UNCHANGED <<design, kinds, groups, annos>> /\ phase' = "cover" /\ mod' = mod + 1
  BY DEF EnterModule, alias
<1>2. annos \in Seq(Annotations) /\ design \in Designs
  BY DEF ToggleIInv, ToggleTypes
<1>3. SameSignals
  BY <1>1, DesignStays
<1>4. Modules = 1 .. Main /\ Main \in Nat
  BY <1>2, DesignShape
<1>5. mod \in Nat
  BY <1>4 DEF ToggleIInv, ToggleTypes
<1>6. \A n \in 1 .. Len(annos) : annos[n].mod \in Modules /\ annos[n].mod <= mod
  <2> SUFFICES ASSUME NEW n \in 1 .. Len(annos)
               PROVE  annos[n].mod \in Modules /\ annos[n].mod <= mod
    OBVIOUS
  <2>1. annos /= <<>>
    BY <1>2, EmptySeq
  <2>2. phase = "cover"
    BY <2>1 DEF EnterModule, ToggleIInv, ToggleTypes
  <2> QED
    BY <1>2, <2>2, AnnotatedModules DEF Samplings, SamplesSelected
<1>7. SamplesSelected'
  <2> SUFFICES ASSUME NEW n \in 1 .. Len(annos)
               PROVE  /\ annos'[n].sampled \in Selected(design[annos[n].mod])'
                      /\ annos'[n].mod <= mod'
    BY <1>1 DEF SamplesSelected
  <2>1. PICK k \in Modules : k = annos[n].mod
    BY <1>6
  <2>2. annos[n].sampled \in Selected(design[k]) /\ k <= mod
    BY <1>6, <2>1 DEF Samplings, SamplesSelected
  <2>3. Selected(design[k])' = Selected(design[k])
    BY <1>3 DEF SameSignals
  <2>4. annos'[n] = annos[n] /\ annos'[n].mod = k
    BY <1>1, <2>1
  <2>5. k \in Nat /\ k <= mod + 1
    BY <1>4, <1>5, <2>2
  <2> QED
    BY <1>1, <2>1, <2>2, <2>3, <2>4, <2>5
<1>8. SamplesLeft'
  <2>1. ASSUME NEW n \in 1 .. Len(annos) PROVE annos'[n].mod /= mod'
    BY <1>1, <1>4, <1>5, <1>6
  <2> QED
    BY <1>1, <2>1 DEF SamplesLeft
<1>9. SamplesApart'
  <2> SUFFICES ASSUME NEW n \in 1 .. Len(annos), NEW o \in 1 .. Len(annos), n /= o,
                      annos'[n].mod = annos'[o].mod, Separate(groups[annos[n].mod])',
                      NEW g \in SignalGroups(annos[n].mod)',
                      {annos'[n].sampled, annos'[o].sampled} \subseteq g
               PROVE  FALSE
    BY <1>1 DEF SamplesApart
  <2>1. PICK k \in Modules : k = annos[n].mod
    BY <1>6
  <2>2. SignalGroups(k)' = SignalGroups(k)
    BY <1>1, GroupsStay
  <2> QED
    BY <1>1, <2>1, <2>2 DEF Samplings, SamplesApart
<1> QED
  BY <1>7, <1>8, <1>9 DEF Samplings

\* A signal of a group is sampled: none of the others is in the same group.
LEMMA SampleSamplings ==
    ASSUME ToggleIInv, Samplings, phase = "cover", NEW g \in toCover, NEW head \in g,
           annos' = <<[mod |-> mod, sampled |-> head, signals |-> Targets(mod, g)]>> \o annos,
           toCover' = toCover \ {g},
           UNCHANGED <<design, kinds, groups, phase, mod>>
    PROVE  Samplings'
<1>1. /\ design \in Designs /\ mod \in Modules /\ annos \in Seq(Annotations)
  BY DEF ToggleIInv, ToggleTypes
<1>2. SameSignals
  BY DesignStays
<1>3. PICK m \in Modules : m = mod
  BY <1>1
<1>4. g \in SignalGroups(m) /\ toCover \subseteq SignalGroups(m)
  BY <1>3 DEF ToggleIInv, ToDo
<1>5. g \subseteq Selected(design[m])
  BY <1>4, GroupsSelected
<1>6. PICK a : a = [mod |-> m, sampled |-> head, signals |-> Targets(m, g)]
  OBVIOUS
<1>7. a \in Annotations /\ a.mod = m /\ a.sampled = head
  <2>1. Targets(m, g) \in Seq(Targeted)
    BY <1>1, <1>5, TargetsAre
  <2> QED
    BY <1>5, <1>6, <2>1 DEF Annotations, Covered
<1>8. PICK old \in Seq(Annotations) : old = annos
  BY <1>1
<1>9. PICK new : new = <<a>> \o old
  OBVIOUS
<1>10. /\ Len(new) = Len(old) + 1 /\ new[1] = a
       /\ \A n \in 1 .. Len(old) : new[n + 1] = old[n]
  BY <1>7, <1>9
<1>11. annos' = new
  BY <1>3, <1>6, <1>8, <1>9
<1>12. ASSUME NEW n \in 1 .. Len(new)
       PROVE  \/ new[n] = a /\ n = 1
              \/ \E i \in 1 .. Len(old) : new[n] = old[i] /\ n = i + 1
  <2>1. CASE n = 1
    BY <1>10, <2>1
  <2>2. CASE n /= 1
    <3>1. PICK i \in 1 .. Len(old) : n = i + 1
      <4>1. n - 1 \in 1 .. Len(old) /\ n = (n - 1) + 1
        BY <1>10, <2>2
      <4> QED
        BY <4>1
    <3> QED
      BY <1>10, <3>1
  <2> QED
    BY <2>1, <2>2
<1>13. \A i \in 1 .. Len(old) : /\ old[i].mod \in Modules
                               /\ old[i].sampled \in Selected(design[old[i].mod])
                               /\ old[i].mod <= m
  BY <1>3, <1>8, AnnotatedModules DEF Samplings, SamplesSelected
<1>14. Modules = 1 .. Main /\ Main \in Nat
  BY <1>1, DesignShape
<1>15. \A n \in 1 .. Len(new) : /\ new[n].mod \in Modules
                                /\ new[n].sampled \in Selected(design[new[n].mod])
                                /\ new[n].mod <= m
  <2> SUFFICES ASSUME NEW n \in 1 .. Len(new)
               PROVE  /\ new[n].mod \in Modules
                      /\ new[n].sampled \in Selected(design[new[n].mod])
                      /\ new[n].mod <= m
    OBVIOUS
  <2>1. CASE new[n] = a
    BY <1>3, <1>5, <1>7, <1>14, <2>1
  <2>2. CASE \E i \in 1 .. Len(old) : new[n] = old[i]
    BY <1>13, <2>2
  <2> QED
    BY <1>12, <2>1, <2>2
<1>16. SamplesSelected'
  <2> SUFFICES ASSUME NEW n \in 1 .. Len(new)
               PROVE  /\ annos'[n].sampled \in Selected(design[annos[n].mod])'
                      /\ annos'[n].mod <= mod'
    BY <1>11 DEF SamplesSelected
  <2>1. PICK k \in Modules : k = new[n].mod
    BY <1>15
  <2>2. new[n].sampled \in Selected(design[k]) /\ k <= m
    BY <1>15, <2>1
  <2>3. Selected(design[k])' = Selected(design[k])
    BY <1>2 DEF SameSignals
  <2> QED
    BY <1>3, <1>11, <2>1, <2>2, <2>3
\* If groups are separate the ones in a module sample what is not in g.
<1>17. ASSUME Separate(groups[m]), NEW i \in 1 .. Len(old), old[i].mod = m
       PROVE  old[i].sampled \notin g
  BY <1>3, <1>8, <1>17 DEF Samplings, SamplesLeft
<1>18. ASSUME Separate(groups[m]), NEW h \in SignalGroups(m), head \in h PROVE h = g
  <2>1. Separate(SignalGroups(m))
    BY <1>18, SignalGroupsSeparate
  <2> QED
    BY <1>4, <1>18, <2>1 DEF Separate
<1>19. SamplesLeft'
  <2> SUFFICES ASSUME Separate(groups[m]), NEW n \in 1 .. Len(new), new[n].mod = m,
                      NEW h \in toCover \ {g}, new[n].sampled \in h
               PROVE  FALSE
    BY <1>3, <1>11 DEF SamplesLeft, Separate
  <2>1. CASE new[n] = a
    BY <1>4, <1>7, <1>18, <2>1
  <2>2. CASE \E i \in 1 .. Len(old) : new[n] = old[i]
    BY <1>3, <1>8, <2>2 DEF Samplings, SamplesLeft
  <2> QED
    BY <1>12, <2>1, <2>2
<1>20. SamplesApart'
  <2> SUFFICES \A n, o \in 1 .. Len(annos') :
          n /= o /\ annos'[n].mod = annos'[o].mod /\ Separate(groups[annos[n].mod])' =>
            \A h \in SignalGroups(annos[n].mod)' :
                ~({annos'[n].sampled, annos'[o].sampled} \subseteq h)
    BY DEF SamplesApart
  <2> TAKE n \in 1 .. Len(annos'), o \in 1 .. Len(annos')
  <2> HAVE n /= o /\ annos'[n].mod = annos'[o].mod /\ Separate(groups[annos[n].mod])'
  <2> TAKE h \in SignalGroups(annos[n].mod)'
  <2> SUFFICES ASSUME {annos'[n].sampled, annos'[o].sampled} \subseteq h PROVE FALSE
    OBVIOUS
  <2> n \in 1 .. Len(new) /\ o \in 1 .. Len(new)
    BY <1>11
  <2>1. PICK k \in Modules : k = new[n].mod
    BY <1>15
  <2>2. SignalGroups(k)' = SignalGroups(k)
    BY GroupsStay
  <2>3. /\ Separate(groups[k]) /\ h \in SignalGroups(k) /\ new[o].mod = k
        /\ new[n].sampled \in h /\ new[o].sampled \in h
    BY <1>11, <2>1, <2>2
  <2>4. CASE new[n] = a
    <3>1. k = m /\ h = g
      BY <1>7, <1>18, <2>1, <2>3, <2>4
    <3>2. PICK i \in 1 .. Len(old) : new[o] = old[i]
      <4>1. n = 1 \/ \E j \in 1 .. Len(old) : a = old[j]
        BY <1>12, <2>4
      <4>2. CASE n = 1
        BY <1>12, <4>2
      <4>3. CASE \E j \in 1 .. Len(old) : a = old[j]
        BY <1>7, <1>17, <2>3, <3>1, <4>3
      <4> QED
        BY <4>1, <4>2, <4>3
    <3> QED
      BY <1>17, <2>3, <3>1, <3>2
  <2>5. CASE new[o] = a
    <3>1. k = m /\ h = g
      BY <1>7, <1>18, <2>1, <2>3, <2>5
    <3>2. PICK i \in 1 .. Len(old) : new[n] = old[i]
      <4>1. o = 1 \/ \E j \in 1 .. Len(old) : a = old[j]
        BY <1>12, <2>5
      <4>2. CASE o = 1
        BY <1>12, <4>2
      <4>3. CASE \E j \in 1 .. Len(old) : a = old[j]
        BY <1>7, <1>17, <2>3, <3>1, <4>3
      <4> QED
        BY <4>1, <4>2, <4>3
    <3> QED
      BY <1>17, <2>1, <2>3, <3>1, <3>2
  <2>6. CASE new[n] /= a /\ new[o] /= a
    <3>1. PICK i \in 1 .. Len(old) : new[n] = old[i] /\ n = i + 1
      BY <1>12, <2>6
    <3>2. PICK j \in 1 .. Len(old) : new[o] = old[j] /\ o = j + 1
      BY <1>12, <2>6
    <3>3. i /= j
      BY <3>1, <3>2
    <3> QED
      BY <1>8, <2>1, <2>3, <3>1, <3>2, <3>3 DEF Samplings, SamplesApart
  <2> QED
    BY <2>4, <2>5, <2>6
<1> QED
  BY <1>16, <1>19, <1>20 DEF Samplings
\* CoverGroup preserves what is known about samples.
LEMMA CoverGroupSamplings == ToggleIInv /\ Samplings /\ CoverGroup => Samplings'
<1> SUFFICES ASSUME ToggleIInv, Samplings, CoverGroup PROVE Samplings'
  OBVIOUS
<1>1. phase = "cover" /\ toCover /= {} /\ UNCHANGED <<design, kinds, groups, phase, mod>>
  BY DEF CoverGroup, alias
<1>2. PICK g : g = CHOOSE h \in toCover : TRUE
  OBVIOUS
<1>3. g \in toCover /\ toCover' = toCover \ {g}
  BY <1>1, <1>2 DEF CoverGroup
<1>4. \/ UNCHANGED annos
      \/ \E head \in g :
            annos' = <<[mod |-> mod, sampled |-> head, signals |-> Targets(mod, g)]>> \o annos
  BY <1>2 DEF CoverGroup
<1>5. CASE UNCHANGED annos
  BY <1>1, <1>3, <1>5, SamplingsStay
<1>6. CASE \E head \in g :
            annos' = <<[mod |-> mod, sampled |-> head, signals |-> Targets(mod, g)]>> \o annos
  BY <1>1, <1>3, <1>6, SampleSamplings
<1> QED
  BY <1>4, <1>5, <1>6

\* ResolveInstance preserves what is known about samples.
LEMMA ResolveInstanceSamplings == ToggleIInv /\ Samplings /\ ResolveInstance => Samplings'
<1> SUFFICES ASSUME ToggleIInv, Samplings, ResolveInstance PROVE Samplings'
  OBVIOUS
<1>1. phase = "resolve" /\ UNCHANGED <<design, kinds, groups>>
  BY DEF ResolveInstance, alias
<1>2. phase' /= "cover"
  BY <1>1, InstanceResolved
<1>3. CASE UNCHANGED annos
  BY <1>1, <1>2, <1>3, SamplingsStay
<1>4. CASE \E s : Going(s) /\ annos' = s.annos
  <2>1. PICK s : Going(s) /\ annos' = s.annos
    BY <1>4
  <2>2. /\ Len(annos') = Len(annos)
        /\ \A n \in 1 .. Len(annos) : /\ annos'[n].mod = annos[n].mod
                                      /\ annos'[n].sampled = annos[n].sampled
    BY <2>1 DEF Going, Grown
  <2> QED
    BY <1>1, <1>2, <2>2, SamplingsStay
<1> QED
  BY <1>3, <1>4, InstanceResolved

\* The other steps do not touch samples.
LEMMA OthersSamplings ==
    ToggleIInv /\ Samplings /\ (ResolveModule \/ Finish \/ UNCHANGED toggleVars) => Samplings'
<1> SUFFICES ASSUME ToggleIInv, Samplings, ResolveModule \/ Finish \/ UNCHANGED toggleVars
             PROVE  Samplings'
  OBVIOUS
<1>1. UNCHANGED <<design, kinds, groups, annos>>
  BY DEF ResolveModule, Finish, toggleVars, alias
<1>2. phase' /= "cover" \/ UNCHANGED <<phase, mod, toCover>>
  BY DEF ResolveModule, Finish, toggleVars
<1> QED
  BY <1>1, <1>2, SamplingsStay

\* Two signals that a module samples are in no group of coverSignals together.
THEOREM SamplingsHold == ToggleSpec => []Samplings
<1>1. ToggleIInv /\ Samplings /\ [ToggleNext]_toggleVars => Samplings'
  BY FindAliasesSamplings, EnterModuleSamplings, CoverGroupSamplings,
     ResolveInstanceSamplings, OthersSamplings DEF ToggleNext
<1> QED
  BY <1>1, InitSamplings, ToggleIInvHolds, PTL DEF ToggleSpec

\* If the groups of AliasAnalysis are right no two aliases of a module are both
\* sampled, whatever the hierarchy that connects them (coverSignals).
THEOREM NoneSampledTwice == ToggleSpec => []SampledOnce
<1>1. ToggleIInv /\ Samplings => SampledOnce
  <2> SUFFICES ASSUME ToggleIInv, Samplings,
                      NEW n \in DOMAIN annos, NEW o \in DOMAIN annos,
                      n /= o, annos[n].mod = annos[o].mod,
                      NEW g \in Alias!TrueGroups[annos[n].mod],
                      groups[annos[n].mod] = Alias!TrueGroups[annos[n].mod],
                      {annos[n].sampled, annos[o].sampled} \subseteq g
               PROVE  FALSE
    BY DEF SampledOnce
  <2>1. annos \in Seq(Annotations) /\ design \in Designs
    BY DEF ToggleIInv, ToggleTypes
  <2>2. n \in 1 .. Len(annos) /\ o \in 1 .. Len(annos)
    BY <2>1
  <2>3. PICK k \in Modules : k = annos[n].mod
    BY <2>1, <2>2, AnnotatedModules
  <2>4. g \in groups[k] /\ Separate(groups[k])
    BY <2>1, <2>3, TrueGroupsSeparate
  <2>5. PICK s, t : s = annos[n].sampled /\ t = annos[o].sampled
    OBVIOUS
  <2>6. s \in Selected(design[k]) /\ t \in Selected(design[k])
    BY <2>2, <2>3, <2>5 DEF Samplings, SamplesSelected
  <2>7. \A h \in SignalGroups(k) : ~({s, t} \subseteq h)
    BY <2>2, <2>3, <2>4, <2>5 DEF Samplings, SamplesApart
  <2>8. CASE s = t
    <3>1. s \in UNION SignalGroups(k)
      BY <2>6, GroupsSelected
    <3> QED
      BY <2>7, <2>8, <3>1
  <2>9. CASE s /= t
    <3>1. PICK h : h = g \cap Selected(design[k])
      OBVIOUS
    <3>2. s \in h /\ t \in h
      BY <2>5, <2>6, <3>1
    <3>3. IsFiniteSet(h)
      BY <2>1, <3>1, SelectedFinite, FS_Subset
    <3>4. Cardinality(h) \in Nat /\ Cardinality(h) /= 0 /\ Cardinality(h) /= 1
      BY <2>9, <3>2, <3>3, FS_CardinalityType, FS_EmptySet, FS_Singleton
    <3>5. Cardinality(h) > 1
      BY <3>4
    <3>6. h \in SignalGroups(k)
      BY <2>4, <3>1, <3>5 DEF SignalGroups
    <3> QED
      BY <2>7, <3>2, <3>6
  <2> QED
    BY <2>8, <2>9
<1> QED
  BY <1>1, ToggleIInvHolds, SamplingsHold, PTL

------------------------------------------------------------------------------
\* Cardinality as AliasAnalysis has it.
LEMMA AliasCardinality == \A S : Alias!Cardinality(S) = Cardinality(S)
BY DEF Alias!Cardinality, Cardinality

\* A finite set with more than one element has another one than x.
LEMMA Several ==
    ASSUME NEW S, IsFiniteSet(S)
    PROVE  /\ \A x, y \in S : x /= y => Cardinality(S) > 1
           /\ Cardinality(S) > 1 => S /= {} /\ \A x : S \ {x} /= {}
<1>1. Cardinality(S) \in Nat
  BY FS_CardinalityType
<1>2. S = {} => Cardinality(S) = 0
  BY FS_EmptySet
<1>3. \A x : S = {x} => Cardinality(S) = 1
  BY FS_Singleton
<1>4. Cardinality(S) = 0 => S = {}
  BY FS_EmptySet
<1>5. Cardinality(S) = 1 => \E x : S = {x}
  BY FS_Singleton
<1>6. ASSUME NEW x \in S, NEW y \in S, x /= y PROVE Cardinality(S) > 1
  BY <1>1, <1>4, <1>5, <1>6
<1>7. ASSUME Cardinality(S) > 1, NEW x PROVE S /= {} /\ S \ {x} /= {}
  <2>1. S /= {} /\ S /= {x}
    BY <1>1, <1>2, <1>3, <1>7
  <2> QED
    BY <2>1
<1> QED
  BY <1>6, <1>7

\* What AliasAnalysis assumes of a module.
LEMMA AliasModule ==
    ASSUME design \in Designs, NEW k \in Modules
    PROVE  Alias!NoLoop(design[k])
BY ToggleAssumption DEF Modules, Alias!WellFormedDesigns, Alias!WellFormedModule

\* Following what drives a signal leads to a root, if there is no loop.
Loopless(d, cons) == \A S \in SUBSET d : S /= {} => \E s \in S : cons[s] \notin S
HasRoots(v, d, cons) == \E f : f = [s \in v |-> IF s \in d THEN f[cons[s]] ELSE s]

LEMMA RootExists ==
    ASSUME NEW d, IsFiniteSet(d), NEW cons, Loopless(d, cons),
           NEW v, d \subseteq v, \A s \in d : cons[s] \in v
    PROVE  HasRoots(v, d, cons)
<1> DEFINE Done(a, f) ==
               /\ f = [s \in a \cup (v \ d) |-> IF s \in d THEN f[cons[s]] ELSE s]
               /\ \A s \in a : cons[s] \in a \cup (v \ d)
           S == {n \in Nat : n <= Cardinality(d) =>
                    \E a \in SUBSET d : Cardinality(a) = n /\ \E f : Done(a, f)}
<1>1. 0 \in S
  <2>1. Done({}, [s \in v \ d |-> s])
    OBVIOUS
  <2>2. Cardinality({}) = 0 /\ {} \in SUBSET d
    BY FS_EmptySet
  <2> HIDE DEF Done
  <2> QED
    BY <2>1, <2>2
<1>2. ASSUME NEW n \in Nat, n \in S PROVE n + 1 \in S
  <2> HIDE DEF Done
  <2> SUFFICES ASSUME n + 1 <= Cardinality(d)
               PROVE  \E a \in SUBSET d : Cardinality(a) = n + 1 /\ \E f : Done(a, f)
    OBVIOUS
  <2> USE DEF Done
  <2>1. Cardinality(d) \in Nat
    BY FS_CardinalityType
  <2>2. PICK a \in SUBSET d : Cardinality(a) = n /\ \E f : Done(a, f)
    BY <1>2, <2>1
  <2>3. PICK f : Done(a, f)
    BY <2>2
  <2>4. a /= d
    BY <2>1, <2>2
  <2>5. PICK x \in d \ a : cons[x] \notin d \ a
    BY <2>4 DEF Loopless
  <2>6. cons[x] \in a \cup (v \ d)
    BY <2>5
  <2> DEFINE b == a \cup {x}
             g == [s \in b \cup (v \ d) |-> IF s = x THEN f[cons[x]] ELSE f[s]]
  <2>7. b \in SUBSET d /\ Cardinality(b) = n + 1
    <3>1. IsFiniteSet(a)
      BY FS_Subset
    <3> QED
      BY <2>2, <2>5, <3>1, FS_AddElement
  <2>8. \A s \in a \cup (v \ d) : g[s] = f[s] /\ s /= x
    BY <2>5
  <2>9. \A s \in a \cup (v \ d) : f[s] = IF s \in d THEN f[cons[s]] ELSE s
    BY <2>3
  <2>10. \A s \in a : cons[s] \in a \cup (v \ d)
    BY <2>3
  <2>11. g = [s \in b \cup (v \ d) |-> IF s \in d THEN g[cons[s]] ELSE s]
    <3>1. ASSUME NEW s \in b \cup (v \ d) PROVE g[s] = IF s \in d THEN g[cons[s]] ELSE s
      <4>1. CASE s = x
        <5>1. g[s] = f[cons[x]] /\ s \in d
          BY <2>5, <4>1
        <5>2. g[cons[x]] = f[cons[x]]
          BY <2>6, <2>8
        <5> HIDE DEF g
        <5> QED
          BY <4>1, <5>1, <5>2
      <4>2. CASE s /= x
        <5>1. s \in a \cup (v \ d)
          BY <3>1, <4>2
        <5>2. g[s] = f[s]
          BY <2>8, <5>1
        <5>3. CASE s \in d
          <6>1. cons[s] \in a \cup (v \ d)
            BY <2>10, <5>1, <5>3
          <6>2. g[cons[s]] = f[cons[s]]
            BY <2>8, <6>1
          <6> HIDE DEF g
          <6> QED
            BY <2>9, <5>1, <5>2, <5>3, <6>2
        <5>4. CASE s \notin d
          <6> HIDE DEF g
          <6> QED
            BY <2>9, <5>1, <5>2, <5>4
        <5> QED
          BY <5>3, <5>4
      <4> QED
        BY <4>1, <4>2
    <3>2. DOMAIN g = b \cup (v \ d) /\ g = [s \in DOMAIN g |-> g[s]]
      OBVIOUS
    <3> HIDE DEF g, b
    <3> QED
      BY <3>1, <3>2
  <2>12. \A s \in b : cons[s] \in b \cup (v \ d)
    BY <2>6, <2>10
  <2>13. Done(b, g)
    <3> HIDE DEF g, b
    <3> QED
      BY <2>11, <2>12
  <2> HIDE DEF Done, g, b
  <2> QED
    BY <2>7, <2>13
<1>3. Cardinality(d) \in Nat
  BY FS_CardinalityType
<1>4. Cardinality(d) \in S
  <2> HIDE DEF S
  <2> QED
    BY <1>1, <1>2, <1>3, Induction
<1>5. PICK a \in SUBSET d : Cardinality(a) = Cardinality(d) /\ \E f : Done(a, f)
  BY <1>3, <1>4
<1>6. a = d
  BY <1>5, FS_Subset
<1>7. PICK f : Done(d, f)
  BY <1>5, <1>6
<1>8. d \cup (v \ d) = v
  OBVIOUS
<1> QED
  BY <1>7, <1>8 DEF HasRoots

\* The signals of a module that are driven by another one, and all of both.
Driven(m) == DOMAIN m.drivers \ m.regs
Wired(m) == Driven(m) \cup {m.drivers[s] : s \in Driven(m)}

\* Root is what LocalGroups computes for every signal.
IsRoot(m, root) ==
    /\ root = [s \in Wired(m) |-> IF s \in Driven(m) THEN root[m.drivers[s]] ELSE s]
    /\ Alias!LocalGroups(m) = {{s \in Wired(m) : root[s] = r} : r \in {root[s] : s \in Wired(m)}}

\* The recursion of getAliases ends.
LEMMA RootIs ==
    ASSUME NEW m, IsFiniteSet(DOMAIN m.drivers), Alias!NoLoop(m)
    PROVE  \E root : IsRoot(m, root)
<1> DEFINE cons == Alias!Connects(m)
           signals == DOMAIN cons \cup Alias!Range(cons)
           Root == CHOOSE f : f = [s \in signals |-> IF s \in DOMAIN cons THEN f[cons[s]] ELSE s]
<1>1. cons = [s \in Driven(m) |-> m.drivers[s]]
  BY DEF Alias!Connects, Alias!Restrict, Driven
<1>2. DOMAIN cons = Driven(m) /\ \A s \in Driven(m) : cons[s] = m.drivers[s]
  BY <1>1
<1>3. signals = Wired(m)
  <2> HIDE DEF cons
  <2> QED
    BY <1>2 DEF Wired, Alias!Range
<1>4. Alias!LocalGroups(m) = {{s \in signals : Root[s] = r} : r \in Alias!Range(Root)}
  BY DEF Alias!LocalGroups
<1> HIDE DEF cons, signals
<1>5. IsFiniteSet(Driven(m))
  BY FS_Difference DEF Driven
<1>6. /\ DOMAIN cons \subseteq signals /\ \A s \in DOMAIN cons : cons[s] \in signals
      /\ Loopless(DOMAIN cons, cons)
  BY <1>2, <1>3 DEF Wired, Driven, Alias!NoLoop, Loopless
<1>7. \E f : f = [s \in signals |-> IF s \in DOMAIN cons THEN f[cons[s]] ELSE s]
  <2>1. PICK c, v, d : c = cons /\ v = signals /\ d = DOMAIN cons
    OBVIOUS
  <2>2. HasRoots(v, d, c)
    BY <1>2, <1>5, <1>6, <2>1, RootExists
  <2> QED
    BY <2>1, <2>2 DEF HasRoots
<1>8. Root = [s \in signals |-> IF s \in DOMAIN cons THEN Root[cons[s]] ELSE s]
  BY <1>7
<1> HIDE DEF Root
<1>9. Alias!Range(Root) = {Root[s] : s \in signals}
  BY <1>8 DEF Alias!Range
<1>10. Root = [s \in Wired(m) |-> IF s \in Driven(m) THEN Root[m.drivers[s]] ELSE s]
  BY <1>2, <1>3, <1>8
<1>11. PICK root : root = Root
  OBVIOUS
<1>12. Alias!LocalGroups(m) = {{s \in Wired(m) : root[s] = r} : r \in {root[s] : s \in Wired(m)}}
  BY <1>3, <1>4, <1>9, <1>11
<1>13. root = [s \in Wired(m) |-> IF s \in Driven(m) THEN root[m.drivers[s]] ELSE s]
  BY <1>10, <1>11
<1>14. IsRoot(m, root)
  BY <1>12, <1>13 DEF IsRoot
<1> QED
  BY <1>14

\* Signals are grouped by what drives them: every wire is in one group, and the
\* groups are parts of every partition with all wires in it.
LocalRight(m, all) ==
    /\ Separate(all) /\ {} \notin all /\ UNION all = Wired(m)
    /\ \A s \in Driven(m) : \E g \in all : {s, m.drivers[s]} \subseteq g
    /\ \A p : Separate(p) /\ Refines(Alias!Wires(m), p) => Refines(all, p)

LEMMA LocalGroupsRight ==
    ASSUME NEW m, IsFiniteSet(DOMAIN m.drivers), Alias!NoLoop(m)
    PROVE  LocalRight(m, Alias!LocalGroups(m))
<1>1. PICK root : IsRoot(m, root)
  BY RootIs
<1>2. PICK v : v = Wired(m)
  OBVIOUS
<1>3. PICK all : all = Alias!LocalGroups(m)
  OBVIOUS
<1>4. /\ \A s \in v : root[s] = IF s \in Driven(m) THEN root[m.drivers[s]] ELSE s
      /\ all = {{s \in v : root[s] = r} : r \in {root[s] : s \in v}}
      /\ \A s \in Driven(m) : s \in v /\ m.drivers[s] \in v
  BY <1>1, <1>2, <1>3 DEF IsRoot, Wired
<1>5. Separate(all)
  <2> SUFFICES ASSUME NEW g \in all, NEW h \in all, g \cap h /= {} PROVE g = h
    BY DEF Separate
  <2>1. PICK a : g = {s \in v : root[s] = a}
    BY <1>4
  <2>2. PICK b : h = {s \in v : root[s] = b}
    BY <1>4
  <2>3. a = b
    BY <2>1, <2>2
  <2> QED
    BY <2>1, <2>2, <2>3
<1>6. {} \notin all
  BY <1>4
<1>7. UNION all = v
  BY <1>4
<1>8. ASSUME NEW s \in Driven(m) PROVE \E g \in all : {s, m.drivers[s]} \subseteq g
  <2>1. {x \in v : root[x] = root[s]} \in all
    BY <1>4
  <2>2. s \in v /\ m.drivers[s] \in v /\ root[m.drivers[s]] = root[s]
    BY <1>4
  <2> QED
    BY <2>1, <2>2
<1>9. ASSUME NEW p, Separate(p), Refines(Alias!Wires(m), p) PROVE Refines(all, p)
  <2> DEFINE far == {s \in Driven(m) : ~\E h \in p : {s, root[s]} \subseteq h}
  <2>1. ASSUME NEW s \in Driven(m) PROVE \E h \in p : {s, m.drivers[s]} \subseteq h
    <3>1. {s, m.drivers[s]} \in Alias!Wires(m)
      BY DEF Alias!Wires, Driven
    <3> QED
      BY <1>9, <3>1 DEF Refines
  <2>2. ASSUME far /= {} PROVE FALSE
    <3>1. far \in SUBSET (DOMAIN m.drivers \ m.regs)
      BY DEF Driven
    <3> HIDE DEF far
    <3>2. PICK s \in far : m.drivers[s] \notin far
      BY <2>2, <3>1 DEF Alias!NoLoop
    <3> USE DEF far
    <3>3. s \in Driven(m) /\ root[s] = root[m.drivers[s]] /\ m.drivers[s] \in v
      BY <1>4, <3>2
    <3>4. PICK h \in p : {s, m.drivers[s]} \subseteq h
      BY <2>1, <3>3
    <3>5. \E o \in p : {m.drivers[s], root[s]} \subseteq o
      <4>1. CASE m.drivers[s] \in Driven(m)
        BY <3>2, <3>3, <4>1
      <4>2. CASE m.drivers[s] \notin Driven(m)
        BY <1>4, <3>3, <3>4, <4>2
      <4> QED
        BY <4>1, <4>2
    <3>6. PICK o \in p : {m.drivers[s], root[s]} \subseteq o
      BY <3>5
    <3>7. h = o
      BY <1>9, <3>4, <3>6 DEF Separate
    <3> QED
      BY <3>2, <3>4, <3>6, <3>7
  <2>3. ASSUME NEW s \in v PROVE \E h \in p : {s, root[s]} \subseteq h
    <3>1. CASE s \in Driven(m)
      BY <2>2, <3>1
    <3>2. CASE s \notin Driven(m)
      <4>1. root[s] = s
        BY <1>4, <2>3, <3>2
      <4>2. PICK x \in Driven(m) : s = m.drivers[x]
        BY <1>2, <2>3, <3>2 DEF Wired
      <4> QED
        BY <2>1, <4>1, <4>2
    <3> QED
      BY <3>1, <3>2
  <2> HIDE DEF far
  <2> SUFFICES ASSUME NEW g \in all PROVE \E h \in p : g \subseteq h
    BY DEF Refines
  <2>4. PICK x \in v : g = {s \in v : root[s] = root[x]}
    BY <1>4
  <2>5. PICK h \in p : {x, root[x]} \subseteq h
    BY <2>3
  <2>6. ASSUME NEW s \in g PROVE s \in h
    <3>1. PICK o \in p : {s, root[s]} \subseteq o
      BY <2>3, <2>4, <2>6
    <3>2. root[x] \in o /\ root[x] \in h
      BY <2>4, <2>5, <2>6, <3>1
    <3>3. o = h
      BY <1>9, <3>2 DEF Separate
    <3> QED
      BY <3>1, <3>3
  <2> QED
    BY <2>5, <2>6
<1> QED
  BY <1>2, <1>3, <1>5, <1>6, <1>7, <1>8, <1>9 DEF LocalRight

------------------------------------------------------------------------------
\* Merges of groups of all are about signals that are in one part of t.
Sound(merges0, all, t) ==
    \A s \in merges0 : s \subseteq all /\ s /= {} /\ \E h \in t : UNION s \subseteq h

\* No group is in two merges, and each is there because of a link.
Apart(merges0, links) ==
    /\ Separate(merges0)
    /\ \A s \in merges0 : \A g \in s : \E l \in links : g \in l /\ l \subseteq s

\* No link is between two others.
NoBridge(links) ==
    \A a, b, c \in links : a \cap b = {} => a \cap c = {} \/ b \cap c = {}

\* One more merge of groups that are about one part of t.
LEMMA MergedSound ==
    ASSUME NEW t, Separate(t), NEW all, {} \notin all, NEW old, Sound(old, all, t),
           NEW merge, merge \subseteq all, merge /= {},
           NEW h \in t, UNION merge \subseteq h
    PROVE  Sound(Alias!Merged(old, merge), all, t)
<1>1. PICK new : new = Alias!Merged(old, merge)
  OBVIOUS
<1>2. ASSUME NEW s \in old, s \cap merge /= {}
      PROVE  s \subseteq all /\ UNION (s \cup merge) \subseteq h
  <2>1. PICK o \in t : UNION s \subseteq o
    BY DEF Sound
  <2>2. PICK g : g \in s /\ g \in merge
    BY <1>2
  <2>3. g /= {} /\ s \subseteq all
    BY <2>2 DEF Sound
  <2>4. PICK x \in g : TRUE
    BY <2>3
  <2>5. x \in o /\ x \in h
    BY <2>1, <2>2, <2>4
  <2>6. o = h
    BY <2>5 DEF Separate
  <2> QED
    BY <2>1, <2>3, <2>6
<1>3. ASSUME NEW s \in new
      PROVE  \/ s = merge \/ s \in old
             \/ \E o \in old : o \cap merge /= {} /\ s = o \cup merge
  BY <1>1, <1>3 DEF Alias!Merged
<1>4. ASSUME NEW s \in new
      PROVE  s \subseteq all /\ s /= {} /\ \E o \in t : UNION s \subseteq o
  <2>1. CASE s = merge
    BY <2>1
  <2>2. CASE s \in old
    BY <2>2 DEF Sound
  <2>3. CASE \E o \in old : o \cap merge /= {} /\ s = o \cup merge
    BY <1>2, <2>3
  <2> QED
    BY <1>3, <2>1, <2>2, <2>3
<1> QED
  BY <1>1, <1>4 DEF Sound

\* Without a bridge at most one of the merges is extended.
LEMMA MergedApart ==
    ASSUME NEW links, NoBridge(links), NEW old, Apart(old, links), NEW merge \in links
    PROVE  Apart(Alias!Merged(old, merge), links)
<1>1. PICK new : new = Alias!Merged(old, merge)
  OBVIOUS
<1>2. ASSUME NEW s \in old, NEW o \in old, s \cap merge /= {}, o \cap merge /= {}
      PROVE  s = o
  <2>1. PICK l \in links : l \cap merge /= {} /\ l \subseteq s
    BY <1>2 DEF Apart
  <2>2. PICK k \in links : k \cap merge /= {} /\ k \subseteq o
    BY <1>2 DEF Apart
  <2>3. l \cap k /= {}
    BY <2>1, <2>2 DEF NoBridge
  <2> QED
    BY <2>1, <2>2, <2>3 DEF Apart, Separate
<1>3. CASE \A s \in old : s \cap merge = {}
  <2>1. new = old \cup {merge}
    BY <1>1, <1>3 DEF Alias!Merged
  <2>2. Separate(new)
    BY <1>3, <2>1 DEF Apart, Separate
  <2>3. \A s \in new : \A g \in s : \E l \in links : g \in l /\ l \subseteq s
    BY <2>1 DEF Apart
  <2> QED
    BY <1>1, <2>2, <2>3 DEF Apart
<1>4. CASE \E s \in old : s \cap merge /= {}
  <2>1. PICK s \in old : s \cap merge /= {}
    BY <1>4
  <2>2. new = (old \ {s}) \cup {s \cup merge}
    <3>1. new = {IF x \cap merge /= {} THEN x \cup merge ELSE x : x \in old}
      BY <1>1, <1>4 DEF Alias!Merged
    <3>2. \A x \in old : x \cap merge /= {} <=> x = s
      BY <1>2, <2>1
    <3> QED
      BY <3>1, <3>2
  <2>3. ASSUME NEW x \in old \ {s} PROVE x \cap (s \cup merge) = {}
    <3>1. x \cap merge = {}
      BY <1>2, <2>1
    <3>2. x \cap s = {}
      BY <2>1 DEF Apart, Separate
    <3> QED
      BY <3>1, <3>2
  <2>4. Separate(new)
    BY <2>2, <2>3 DEF Apart, Separate
  <2>5. ASSUME NEW g \in s \cup merge
        PROVE  \E l \in links : g \in l /\ l \subseteq s \cup merge
    <3>1. CASE g \in merge
      BY <3>1
    <3>2. CASE g \in s
      BY <2>1, <3>2 DEF Apart
    <3> QED
      BY <3>1, <3>2
  <2>6. \A x \in new : \A g \in x : \E l \in links : g \in l /\ l \subseteq x
    BY <2>2, <2>5 DEF Apart
  <2> QED
    BY <1>1, <2>4, <2>6 DEF Apart
<1> QED
  BY <1>3, <1>4

\* What was to be merged still is.
LEMMA MergedGrows ==
    ASSUME NEW old, NEW merge
    PROVE  /\ \A s \in old : \E o \in Alias!Merged(old, merge) : s \subseteq o
           /\ \E o \in Alias!Merged(old, merge) : merge \subseteq o
<1>1. PICK new : new = Alias!Merged(old, merge)
  OBVIOUS
<1>2. CASE \A s \in old : s \cap merge = {}
  <2>1. new = old \cup {merge}
    BY <1>1, <1>2 DEF Alias!Merged
  <2> QED
    BY <1>1, <2>1
<1>3. CASE \E s \in old : s \cap merge /= {}
  <2>1. new = {IF x \cap merge /= {} THEN x \cup merge ELSE x : x \in old}
    BY <1>1, <1>3 DEF Alias!Merged
  <2>2. \A s \in old : (IF s \cap merge /= {} THEN s \cup merge ELSE s) \in new
    BY <2>1
  <2>3. PICK s \in old : s \cap merge /= {}
    BY <1>3
  <2>4. s \cup merge \in new
    BY <2>2, <2>3
  <2>5. ASSUME NEW x \in old PROVE \E o \in new : x \subseteq o
    <3>1. x \subseteq IF x \cap merge /= {} THEN x \cup merge ELSE x
      OBVIOUS
    <3> QED
      BY <2>2, <3>1
  <2> QED
    BY <1>1, <2>4, <2>5
<1> QED
  BY <1>2, <1>3

------------------------------------------------------------------------------
\* What mergeGroups makes of the groups of all.
MergedInto(all, merges0) == {UNION s : s \in merges0} \cup (all \ UNION merges0)

\* A group is in a merged one; and merges of aliases are aliases.
LEMMA MergedIntoSound ==
    ASSUME NEW t, NEW all, {} \notin all, Refines(all, t), NEW merges0, Sound(merges0, all, t)
    PROVE  /\ Refines(all, MergedInto(all, merges0)) /\ Refines(MergedInto(all, merges0), t)
           /\ {} \notin MergedInto(all, merges0)
           /\ \A s \in merges0 : UNION s \in MergedInto(all, merges0)
<1>1. PICK new : new = MergedInto(all, merges0)
  OBVIOUS
<1>2. new = {UNION s : s \in merges0} \cup (all \ UNION merges0)
  BY <1>1 DEF MergedInto
<1>3. ASSUME NEW g \in all PROVE \E h \in new : g \subseteq h
  <2>1. CASE g \in UNION merges0
    <3>1. PICK s \in merges0 : g \in s
      BY <2>1
    <3>2. UNION s \in new /\ g \subseteq UNION s
      BY <1>2, <3>1
    <3> QED
      BY <3>2
  <2>2. CASE g \notin UNION merges0
    BY <1>2, <2>2
  <2> QED
    BY <2>1, <2>2
<1>4. ASSUME NEW g \in new PROVE g /= {} /\ \E h \in t : g \subseteq h
  <2>1. CASE g \in all
    BY <2>1 DEF Refines
  <2>2. CASE g \notin all
    <3>1. PICK s \in merges0 : g = UNION s
      BY <1>2, <1>4, <2>2
    <3>2. s /= {} /\ s \subseteq all /\ \E h \in t : g \subseteq h
      BY <3>1 DEF Sound
    <3> QED
      BY <3>1, <3>2
  <2> QED
    BY <2>1, <2>2
<1>5. \A s \in merges0 : UNION s \in new
  BY <1>2
<1> QED
  BY <1>1, <1>3, <1>4, <1>5 DEF Refines

\* Merges that have nothing in common keep the groups apart.
LEMMA MergedIntoSeparate ==
    ASSUME NEW all, Separate(all), NEW merges0, Separate(merges0),
           \A s \in merges0 : s \subseteq all
    PROVE  Separate(MergedInto(all, merges0))
<1>1. PICK new : new = MergedInto(all, merges0)
  OBVIOUS
<1>2. new = {UNION s : s \in merges0} \cup (all \ UNION merges0)
  BY <1>1 DEF MergedInto
<1>3. ASSUME NEW s \in merges0, NEW o \in merges0, (UNION s) \cap (UNION o) /= {}
      PROVE  s = o
  <2>1. PICK g \in s, h \in o : g \cap h /= {}
    BY <1>3
  <2>2. g = h
    BY <2>1 DEF Separate
  <2> QED
    BY <2>1, <2>2 DEF Separate
<1>4. ASSUME NEW s \in merges0, NEW h \in all \ UNION merges0, (UNION s) \cap h /= {}
      PROVE  FALSE
  <2>1. PICK g \in s : g \cap h /= {}
    BY <1>4
  <2>2. g = h
    BY <2>1 DEF Separate
  <2> QED
    BY <2>1, <2>2
<1> SUFFICES ASSUME NEW g \in new, NEW h \in new, g \cap h /= {} PROVE g = h
  BY <1>1 DEF Separate
<1>5. CASE g \in all \ UNION merges0 /\ h \in all \ UNION merges0
  BY <1>5 DEF Separate
<1>6. CASE g \notin all \ UNION merges0 /\ h \in all \ UNION merges0
  <2>1. PICK s \in merges0 : g = UNION s
    BY <1>2, <1>6
  <2> QED
    BY <1>4, <1>6, <2>1
<1>7. CASE g \in all \ UNION merges0 /\ h \notin all \ UNION merges0
  <2>1. PICK s \in merges0 : h = UNION s
    BY <1>2, <1>7
  <2> QED
    BY <1>4, <1>7, <2>1
<1>8. CASE g \notin all \ UNION merges0 /\ h \notin all \ UNION merges0
  <2>1. PICK s \in merges0 : g = UNION s
    BY <1>2, <1>8
  <2>2. PICK o \in merges0 : h = UNION o
    BY <1>2, <1>8
  <2>3. s = o
    BY <1>3, <2>1, <2>2
  <2> QED
    BY <2>1, <2>2, <2>3
<1> QED
  BY <1>5, <1>6, <1>7, <1>8

\* Two partitions that are parts of each other are the same.
LEMMA SameParts ==
    ASSUME NEW p, NEW q, Separate(p), Separate(q), {} \notin p, {} \notin q,
           Refines(p, q), Refines(q, p)
    PROVE  p = q
<1>1. ASSUME NEW a, NEW b, Separate(a), {} \notin a, Refines(a, b), Refines(b, a), NEW g \in a
      PROVE  g \in b
  <2>1. PICK h \in b : g \subseteq h
    BY <1>1 DEF Refines
  <2>2. PICK o \in a : h \subseteq o
    BY <1>1 DEF Refines
  <2>3. g = o
    <3>1. g /= {} /\ g \subseteq o
      BY <1>1, <2>1, <2>2
    <3>2. g \cap o /= {}
      BY <3>1
    <3>3. \A x, y \in a : x \cap y /= {} => x = y
      BY <1>1 DEF Separate
    <3>4. g \in a
      BY <1>1
    <3> QED
      BY <3>2, <3>3, <3>4
  <2>4. g = h
    BY <2>1, <2>2, <2>3
  <2> QED
    BY <2>1, <2>4
<1>2. p \subseteq q
  BY <1>1
<1>3. q \subseteq p
  BY <1>1
<1> QED
  BY <1>2, <1>3

------------------------------------------------------------------------------
\* A set of numbers up to n has a largest one.
LEMMA LargestExists ==
    ASSUME NEW n \in Nat, NEW S, S /= {}, S \subseteq 1 .. n
    PROVE  \E i \in S : \A j \in S : i >= j
<1> DEFINE N == {m \in Nat : \A T \in SUBSET (1 .. m) :
                                T /= {} => \E i \in T : \A j \in T : i >= j}
<1>1. 0 \in N
  <2>1. \A T \in SUBSET (1 .. 0) : T = {}
    OBVIOUS
  <2> QED
    BY <2>1
<1>2. ASSUME NEW m \in Nat, m \in N PROVE m + 1 \in N
  <2> SUFFICES ASSUME NEW T \in SUBSET (1 .. m + 1), T /= {}
               PROVE  \E i \in T : \A j \in T : i >= j
    OBVIOUS
  <2>1. CASE m + 1 \in T
    BY <2>1
  <2>2. CASE m + 1 \notin T
    <3>1. T \in SUBSET (1 .. m)
      BY <2>2
    <3> QED
      BY <1>2, <3>1
  <2> QED
    BY <2>1, <2>2
<1>3. n \in N
  <2> HIDE DEF N
  <2> QED
    BY <1>1, <1>2, Induction
<1> QED
  BY <1>3

\* The last element of S in an order of the elements of a finite set.
LEMMA LastInIs ==
    ASSUME NEW S, IsFiniteSet(S), NEW order \in Alias!SetToSeqs(S)
    PROVE  \A T \in SUBSET S : T /= {} =>
               /\ Alias!LastIn(order, T) \in T
               /\ \A x : Alias!LastIn(order, T) \in T \ {x} =>
                      Alias!LastIn(order, T \ {x}) = Alias!LastIn(order, T)
<1> DEFINE n == Cardinality(S)
           Places(T) == {i \in 1 .. n : order[i] \in T}
           Latest(T) == CHOOSE i \in Places(T) : \A j \in Places(T) : i >= j
<1>1. n \in Nat
  BY FS_CardinalityType
<1>2. order \in [1 .. n -> S] /\ \A i, j \in 1 .. n : i /= j => order[i] /= order[j]
  BY AliasCardinality DEF Alias!SetToSeqs
<1>3. \A x \in S : \E i \in 1 .. n : order[i] = x
  <2>1. order \in Injection(1 .. n, S)
    BY <1>2 DEF Injection, IsInjective
  <2>2. IsFiniteSet(1 .. n) /\ Cardinality(1 .. n) = n
    BY <1>1, FS_Interval
  <2>3. order \in Surjection(1 .. n, S)
    BY <2>1, <2>2, FS_Injection
  <2> QED
    BY <2>3 DEF Surjection
<1>4. \A T : Alias!LastIn(order, T) = order[Latest(T)]
  BY <1>2 DEF Alias!LastIn, Alias!Max
<1>5. ASSUME NEW T \in SUBSET S, T /= {}
      PROVE  Latest(T) \in Places(T) /\ \A j \in Places(T) : Latest(T) >= j
  <2>1. Places(T) /= {} /\ Places(T) \subseteq 1 .. n
    BY <1>3, <1>5
  <2> HIDE DEF Places, n
  <2>2. \E i \in Places(T) : \A j \in Places(T) : i >= j
    BY <1>1, <2>1, LargestExists
  <2> QED
    BY <2>2
<1> HIDE DEF n, Latest
<1>6. ASSUME NEW T \in SUBSET S, T /= {}, NEW x, order[Latest(T)] \in T \ {x}
      PROVE  Latest(T \ {x}) = Latest(T)
  <2>1. T \ {x} \in SUBSET S /\ T \ {x} /= {}
    BY <1>6
  <2>2. /\ Latest(T) \in Places(T \ {x}) /\ Places(T \ {x}) \subseteq Places(T)
    BY <1>5, <1>6
  <2>3. /\ Latest(T \ {x}) \in Places(T \ {x}) /\ Latest(T \ {x}) >= Latest(T)
    BY <1>5, <2>1, <2>2
  <2>4. Latest(T) >= Latest(T \ {x})
    BY <1>5, <1>6, <2>2, <2>3
  <2>5. Latest(T) \in 1 .. n /\ Latest(T \ {x}) \in 1 .. n
    BY <2>2, <2>3
  <2> QED
    BY <1>1, <2>3, <2>4, <2>5
<1> SUFFICES ASSUME NEW T \in SUBSET S, T /= {}
             PROVE  /\ Alias!LastIn(order, T) \in T
                    /\ \A x : Alias!LastIn(order, T) \in T \ {x} =>
                           Alias!LastIn(order, T \ {x}) = Alias!LastIn(order, T)
  OBVIOUS
<1>7. order[Latest(T)] \in T
  BY <1>5
<1> QED
  BY <1>4, <1>6, <1>7

\* Every port in a group with others has one of them as its alias; if no port is
\* in two groups all of a group but one have that one.
PortsRight(all, ports, pa) ==
    /\ DOMAIN pa \subseteq ports
    /\ \A p \in DOMAIN pa : /\ pa[p] \in ports /\ pa[p] /= p
                            /\ \E g \in all : {p, pa[p]} \subseteq g
    /\ Separate(all) =>
           \A g \in all : Cardinality(g \cap ports) > 1 =>
               \E z \in g \cap ports :
                   \A p \in (g \cap ports) \ {z} : p \in DOMAIN pa /\ pa[p] = z

LEMMA PortAliasesRight ==
    ASSUME NEW ports, IsFiniteSet(ports),
           NEW all, IsFiniteSet({g \in all : g \cap ports /= {}}),
           NEW groupOrder \in Alias!SetToSeqs({g \in all : g \cap ports /= {}}),
           NEW portOrder \in Alias!SetToSeqs(ports)
    PROVE  PortsRight(all, ports, Alias!PortAliases(all, ports, groupOrder, portOrder))
<1> DEFINE several == {g \in all : Cardinality(g \cap ports) > 1}
           Having(p) == {g \in several : p \in g}
           Chosen(p) == Alias!LastIn(groupOrder, Having(p))
           T(p) == Chosen(p) \cap ports
<1>1. PICK pa : pa = Alias!PortAliases(all, ports, groupOrder, portOrder)
  OBVIOUS
<1>2. pa = [p \in ports \cap UNION several |-> Alias!LastIn(portOrder, T(p) \ {p})]
  BY <1>1, AliasCardinality DEF Alias!PortAliases
<1>3. \A g \in several : g \in all /\ Cardinality(g \cap ports) > 1
  OBVIOUS
<1>4. ASSUME NEW g \in several
      PROVE  g \cap ports /= {} /\ \A x : (g \cap ports) \ {x} /= {}
  <2>1. PICK s : s = g \cap ports
    OBVIOUS
  <2>2. IsFiniteSet(s) /\ Cardinality(s) > 1
    BY <1>3, <2>1, FS_Subset
  <2> QED
    BY <2>1, <2>2, Several
<1>5. several \subseteq {g \in all : g \cap ports /= {}}
  BY <1>3, <1>4
<1> HIDE DEF several
<1>6. ASSUME NEW p \in ports \cap UNION several
      PROVE  Chosen(p) \in several /\ p \in Chosen(p)
  <2>1. Having(p) \in SUBSET {g \in all : g \cap ports /= {}} /\ Having(p) /= {}
    BY <1>5, <1>6
  <2>2. Chosen(p) \in Having(p)
    <3> HIDE DEF Having
    <3> QED
      BY <2>1, LastInIs
  <2> QED
    BY <2>2
<1> HIDE DEF Having, Chosen
<1>7. ASSUME NEW p \in ports \cap UNION several
      PROVE  pa[p] \in (Chosen(p) \cap ports) \ {p}
  <2>1. PICK s : s = T(p) \ {p}
    OBVIOUS
  <2>2. s \in SUBSET ports /\ s /= {}
    BY <1>4, <1>6, <2>1
  <2>3. Alias!LastIn(portOrder, s) \in s
    BY <2>2, LastInIs
  <2> QED
    BY <1>2, <2>1, <2>3
<1>8. DOMAIN pa = ports \cap UNION several
  BY <1>2
<1>9. ASSUME NEW p \in DOMAIN pa
      PROVE  pa[p] \in ports /\ pa[p] /= p /\ \E g \in all : {p, pa[p]} \subseteq g
  <2>1. p \in ports \cap UNION several
    BY <1>8, <1>9
  <2>2. Chosen(p) \in all /\ p \in Chosen(p) /\ pa[p] \in (Chosen(p) \cap ports) \ {p}
    BY <1>3, <1>6, <1>7, <2>1
  <2> QED
    BY <2>2
<1>10. ASSUME Separate(all), NEW g \in all, Cardinality(g \cap ports) > 1
       PROVE  \E z \in g \cap ports :
                  \A p \in (g \cap ports) \ {z} : p \in DOMAIN pa /\ pa[p] = z
  <2>1. g \in several
    BY <1>10 DEF several
  <2>2. PICK s : s = g \cap ports
    OBVIOUS
  <2>3. s \in SUBSET ports /\ s /= {}
    BY <1>4, <2>1, <2>2
  <2>4. PICK z : z = Alias!LastIn(portOrder, s)
    OBVIOUS
  <2>5. z \in s
    BY <2>3, <2>4, LastInIs
  <2>6. ASSUME NEW p \in s \ {z} PROVE p \in DOMAIN pa /\ pa[p] = z
    <3>1. p \in ports \cap UNION several
      BY <2>1, <2>2, <2>6
    <3>2. Chosen(p) = g
      <4>1. Chosen(p) \in all /\ p \in Chosen(p) /\ p \in g
        BY <1>3, <1>6, <2>2, <2>6, <3>1
      <4> QED
        BY <1>10, <4>1 DEF Separate
    <3>3. pa[p] = Alias!LastIn(portOrder, s \ {p})
      BY <1>2, <2>2, <3>1, <3>2
    <3>4. Alias!LastIn(portOrder, s) \in s \ {p}
      BY <2>4, <2>5, <2>6
    <3>5. Alias!LastIn(portOrder, s \ {p}) = Alias!LastIn(portOrder, s)
      BY <2>3, <3>4, LastInIs
    <3> QED
      BY <1>8, <2>4, <3>1, <3>3, <3>5
  <2> QED
    BY <2>2, <2>5, <2>6
<1> QED
  BY <1>1, <1>8, <1>9, <1>10 DEF PortsRight

------------------------------------------------------------------------------
\* What the groups of connected signals are.
TrueRight(true, k) ==
    /\ Separate(true[k]) /\ {} \notin true[k] /\ IsFiniteSet(UNION true[k])
    /\ \A e \in Edges(true, k) : \E g \in true[k] : e \subseteq g
    /\ \A p : Separate(p) /\ Refines(Edges(true, k), p) => Refines(true[k], p)

\* An edge has finitely many signals, and some.
LEMMA EdgeFinite ==
    ASSUME design \in Designs, NEW k \in Modules, NEW true
    PROVE  \A e \in Edges(true, k) : IsFiniteSet(e) /\ e /= {}
<1> SUFFICES ASSUME NEW e \in Edges(true, k) PROVE IsFiniteSet(e) /\ e /= {}
  OBVIOUS
<1>1. PICK m : m = design[k]
  OBVIOUS
<1>2. CASE e \in Alias!Wires(m)
  <2>1. PICK s, d : e = {s, d}
    BY <1>2 DEF Alias!Wires
  <2>2. IsFiniteSet({s}) /\ {s} \cup {d} = e
    BY <2>1, FS_Singleton
  <2>3. IsFiniteSet({s} \cup {d})
    BY <2>2, FS_AddElement
  <2> QED
    BY <2>1, <2>2, <2>3
<1>3. CASE \E i \in DOMAIN m.instances : e \in Alias!Through(true, m, i)
  <2>1. PICK i \in DOMAIN m.instances : e \in Alias!Through(true, m, i)
    BY <1>3
  <2>2. PICK ports : ports = design[m.instances[i]].ports
    OBVIOUS
  <2>3. IsFiniteSet(ports)
    BY <1>1, <2>2, DesignShape DEF FiniteModule
  <2>4. PICK h : e = {<<i>> \o p : p \in h \cap ports} /\ Cardinality(h \cap ports) > 1
    BY <2>1, <2>2, AliasCardinality DEF Alias!Through
  <2>5. PICK s : s = h \cap ports
    OBVIOUS
  <2>6. IsFiniteSet(s) /\ s /= {}
    BY <2>3, <2>4, <2>5, FS_Subset, Several
  <2> DEFINE g == [p \in s |-> <<i>> \o p]
  <2>7. DOMAIN g = s /\ {g[p] : p \in s} = e
    BY <2>4, <2>5
  <2> HIDE DEF g
  <2> QED
    BY <2>6, <2>7, ImageFinite
<1> QED
  BY <1>1, <1>2, <1>3 DEF Edges, Alias!Edges

LEMMA TrueGroupsRight ==
    ASSUME design \in Designs, NEW k \in Modules
    PROVE  TrueRight(Alias!TrueGroups, k)
<1>1. PICK f : f = [n \in Modules |-> Alias!Connected(Edges(f, n))] /\ Alias!TrueGroups = f
  BY TrueGroupsAre
<1>2. f[k] = Alias!Connected(Edges(f, k))
  BY <1>1
<1>3. PICK edges : edges = Edges(f, k)
  OBVIOUS
<1>4. IsFiniteSet(edges)
  BY <1>3, EdgesFinite
<1>5. \A e \in edges : IsFiniteSet(e) /\ e /= {}
  BY <1>3, EdgeFinite
<1>6. /\ Grouped(edges, edges, f[k])
      /\ \A p : Separate(p) /\ Refines(edges, p) => Refines(f[k], p)
  BY <1>2, <1>3, <1>4, <1>5, ConnectedGroups
<1>7. Separate(f[k])
  BY <1>2, <1>3, <1>4, ConnectedSeparate
<1>8. IsFiniteSet(UNION edges)
  BY <1>4, <1>5, FS_UNION
<1> QED
  BY <1>1, <1>3, <1>6, <1>7, <1>8 DEF TrueRight, Grouped

\* They depend on the design only.
LEMMA TrueStay ==
    ASSUME design' = design
    PROVE  Alias!TrueGroups' = Alias!TrueGroups
BY DEF Alias!TrueGroups, Alias!Edges, Alias!Wires, Alias!Through

------------------------------------------------------------------------------
\* The groups and the port aliases of module k are sound, and the groups are
\* exact if there was no bridge in any module so far.
ModuleRight(k) ==
    /\ Refines(groups[k], Alias!TrueGroups[k])
    /\ PortsRight(groups[k], design[k].ports, portAliases[k])
    /\ (\A j \in 1 .. k : ~Alias!Bridged(design[j])) => groups[k] = Alias!TrueGroups[k]

BelowRight(k) == \A j \in 1 .. k - 1 : ModuleRight(j)

\* What is an alias through an instance is connected there.
LEMMA AliasesConnected ==
    ASSUME design \in Designs, NEW k \in Modules, BelowRight(k),
           NEW e \in Alias!InstanceAliases(design[k])
    PROVE  \E t \in Alias!TrueGroups[k] : {e[1], e[2]} \subseteq t
<1>1. PICK m, true : m = design[k] /\ true = Alias!TrueGroups
  OBVIOUS
<1>2. PICK i \in DOMAIN m.instances :
          \E p \in DOMAIN portAliases[m.instances[i]] :
              e = <<<<i>> \o p, <<i>> \o portAliases[m.instances[i]][p]>>
  BY <1>1 DEF Alias!InstanceAliases
<1>3. PICK c, pa, ports : c = m.instances[i] /\ pa = portAliases[c] /\ ports = design[c].ports
  OBVIOUS
<1>4. c \in Modules /\ c \in 1 .. k - 1 /\ IsFiniteSet(ports)
  BY <1>1, <1>3, DesignShape DEF FiniteModule
<1>5. PICK p \in DOMAIN pa : e = <<<<i>> \o p, <<i>> \o pa[p]>>
  BY <1>2, <1>3
<1>6. PortsRight(groups[c], ports, pa) /\ Refines(groups[c], true[c])
  BY <1>1, <1>3, <1>4 DEF BelowRight, ModuleRight
<1>7. p \in ports /\ pa[p] \in ports /\ pa[p] /= p
  BY <1>6 DEF PortsRight
<1>8. PICK g \in groups[c] : {p, pa[p]} \subseteq g
  BY <1>6 DEF PortsRight
<1>9. PICK h \in true[c] : g \subseteq h
  BY <1>6 DEF Refines
<1>10. Cardinality(h \cap ports) > 1
  <2>1. PICK s : s = h \cap ports
    OBVIOUS
  <2>2. IsFiniteSet(s) /\ p \in s /\ pa[p] \in s
    BY <1>4, <1>7, <1>8, <1>9, <2>1, FS_Subset
  <2> QED
    BY <1>7, <2>1, <2>2, Several
<1>11. PICK edge : edge = {<<i>> \o q : q \in h \cap ports}
  OBVIOUS
<1>12. edge \in Alias!Through(true, m, i)
  BY <1>3, <1>9, <1>10, <1>11, AliasCardinality DEF Alias!Through
<1>13. edge \in Edges(true, k)
  BY <1>1, <1>12 DEF Edges, Alias!Edges
<1>14. PICK t \in true[k] : edge \subseteq t
  BY <1>1, <1>13, TrueGroupsRight DEF TrueRight
<1>15. e[1] = <<i>> \o p /\ e[2] = <<i>> \o pa[p]
  BY <1>5
<1>16. e[1] \in edge /\ e[2] \in edge
  BY <1>7, <1>8, <1>9, <1>11, <1>15
<1> QED
  BY <1>1, <1>14, <1>16

\* The groups that findMerges begins with.
StartRight(k, all) ==
    /\ Separate(all) /\ {} \notin all /\ Refines(all, Alias!TrueGroups[k])
    /\ \A s \in Driven(design[k]) : \E g \in all : {s, design[k].drivers[s]} \subseteq g
    /\ \A e \in Alias!InstanceAliases(design[k]) :
          /\ Alias!GroupOf(all, e[1]) \in all /\ e[1] \in Alias!GroupOf(all, e[1])
          /\ Alias!GroupOf(all, e[2]) \in all /\ e[2] \in Alias!GroupOf(all, e[2])

LEMMA ToMergeRight ==
    ASSUME design \in Designs, NEW k \in Modules, BelowRight(k)
    PROVE  StartRight(k, Alias!GroupsToMerge(design[k]))
<1>1. PICK m, all, local, true, pairs :
          /\ m = design[k] /\ all = Alias!GroupsToMerge(m) /\ local = Alias!LocalGroups(m)
          /\ true = Alias!TrueGroups /\ pairs = Alias!InstanceAliases(m)
  OBVIOUS
<1>2. PICK aliased : aliased = UNION {{e[1], e[2]} : e \in pairs}
  OBVIOUS
<1>3. all = local \cup {{s} : s \in aliased \ UNION local}
  BY <1>1, <1>2 DEF Alias!GroupsToMerge
<1>4. LocalRight(m, local)
  BY <1>1, LocalGroupsRight, AliasModule, DesignShape DEF FiniteModule
<1>5. Separate(all)
  <2> SUFFICES ASSUME NEW g \in all, NEW h \in all, g \cap h /= {} PROVE g = h
    BY DEF Separate
  <2>1. CASE g \in local /\ h \in local
    BY <1>4, <2>1 DEF LocalRight, Separate
  <2>2. CASE g \notin local
    <3>1. PICK s \in aliased \ UNION local : g = {s}
      BY <1>3, <2>2
    <3>2. s \in h /\ h \notin local
      BY <3>1
    <3> QED
      BY <1>3, <3>1, <3>2
  <2>3. CASE h \notin local
    <3>1. PICK s \in aliased \ UNION local : h = {s}
      BY <1>3, <2>3
    <3>2. s \in g /\ g \notin local
      BY <3>1
    <3> QED
      BY <1>3, <3>1, <3>2
  <2> QED
    BY <2>1, <2>2, <2>3
<1>6. {} \notin all
  BY <1>3, <1>4 DEF LocalRight
<1>7. Separate(true[k]) /\ \A e \in Edges(true, k) : \E g \in true[k] : e \subseteq g
  BY <1>1, TrueGroupsRight DEF TrueRight
<1>8. Refines(local, true[k])
  <2>1. Alias!Wires(m) \subseteq Edges(true, k)
    BY <1>1 DEF Edges, Alias!Edges
  <2>2. Refines(Alias!Wires(m), true[k])
    BY <1>7, <2>1 DEF Refines
  <2>3. PICK p : p = true[k]
    OBVIOUS
  <2>4. Refines(local, p)
    BY <1>4, <1>7, <2>2, <2>3 DEF LocalRight
  <2> QED
    BY <2>3, <2>4
<1>9. \A e \in pairs : \E t \in true[k] : {e[1], e[2]} \subseteq t
  BY <1>1, AliasesConnected
<1>10. Refines(all, true[k])
  <2> SUFFICES ASSUME NEW g \in all PROVE \E t \in true[k] : g \subseteq t
    BY DEF Refines
  <2>1. CASE g \in local
    BY <1>8, <2>1 DEF Refines
  <2>2. CASE g \notin local
    <3>1. PICK s \in aliased : g = {s}
      BY <1>3, <2>2
    <3>2. PICK e \in pairs : s \in {e[1], e[2]}
      BY <1>2
    <3>3. PICK t \in true[k] : {e[1], e[2]} \subseteq t
      BY <1>9
    <3> QED
      BY <3>1, <3>2, <3>3
  <2> QED
    BY <2>1, <2>2
<1>11. ASSUME NEW s \in Driven(m) PROVE \E g \in all : {s, m.drivers[s]} \subseteq g
  BY <1>3, <1>4 DEF LocalRight
<1>12. ASSUME NEW s \in aliased
       PROVE  Alias!GroupOf(all, s) \in all /\ s \in Alias!GroupOf(all, s)
  <2>1. \E g \in all : s \in g
    <3>1. CASE s \in UNION local
      BY <1>3, <3>1
    <3>2. CASE s \notin UNION local
      <4>1. {s} \in all
        BY <1>3, <3>2
      <4> QED
        BY <4>1
    <3> QED
      BY <3>1, <3>2
  <2> QED
    BY <2>1 DEF Alias!GroupOf
<1>13. \A e \in pairs : e[1] \in aliased /\ e[2] \in aliased
  BY <1>2
<1> QED
  BY <1>1, <1>5, <1>6, <1>10, <1>11, <1>12, <1>13 DEF StartRight

\* Without bridges all connections are found, so the groups are exact.
LEMMA NewGroupsExact ==
    ASSUME design \in Designs, NEW k \in Modules, BelowRight(k),
           \A j \in 1 .. k : ~Alias!Bridged(design[j]),
           NEW new, Separate(new), {} \notin new, Refines(new, Alias!TrueGroups[k]),
           Refines(Alias!GroupsToMerge(design[k]), new),
           \A e \in Alias!InstanceAliases(design[k]) : \E g \in new : {e[1], e[2]} \subseteq g
    PROVE  new = Alias!TrueGroups[k]
<1>1. PICK m, all, true :
          /\ m = design[k] /\ all = Alias!GroupsToMerge(m) /\ true = Alias!TrueGroups
  OBVIOUS
<1>2. StartRight(k, all)
  BY <1>1, ToMergeRight
<1>3. ASSUME NEW edge \in Alias!Wires(m) PROVE \E g \in new : edge \subseteq g
  <2>1. PICK s \in Driven(m) : edge = {s, m.drivers[s]}
    BY DEF Alias!Wires, Driven
  <2>2. PICK g \in all : edge \subseteq g
    BY <1>1, <1>2, <2>1 DEF StartRight
  <2>3. PICK h \in new : g \subseteq h
    BY <1>1 DEF Refines
  <2> QED
    BY <2>2, <2>3
<1>4. ASSUME NEW i \in DOMAIN m.instances, NEW edge \in Alias!Through(true, m, i)
      PROVE  \E g \in new : edge \subseteq g
  <2>1. PICK c, ports, pa : c = m.instances[i] /\ ports = design[c].ports /\ pa = portAliases[c]
    OBVIOUS
  <2>2. k \in Nat /\ c \in Modules /\ c \in 1 .. k - 1 /\ IsFiniteSet(ports)
    <3>1. c \in Modules /\ c \in 1 .. k - 1 /\ IsFiniteSet(ports)
      BY <1>1, <2>1, DesignShape DEF FiniteModule
    <3>2. k \in 1 .. Main /\ Main \in Nat
      BY DesignShape
    <3> QED
      BY <3>1, <3>2
  <2>3. PICK h \in true[c] : /\ edge = {<<i>> \o p : p \in h \cap ports}
                             /\ Cardinality(h \cap ports) > 1
    BY <2>1, AliasCardinality DEF Alias!Through
  <2>4. \A j \in 1 .. c : ~Alias!Bridged(design[j])
    BY <2>2
  <2>5. groups[c] = true[c] /\ PortsRight(groups[c], ports, pa)
    <3>1. ModuleRight(c)
      BY <2>2 DEF BelowRight
    <3>2. groups[c] = Alias!TrueGroups[c]
      BY <2>4, <3>1 DEF ModuleRight
    <3>3. PortsRight(groups[c], design[c].ports, portAliases[c])
      BY <3>1 DEF ModuleRight
    <3> QED
      BY <1>1, <2>1, <3>2, <3>3
  <2>6. Separate(groups[c])
    BY <1>1, <2>2, <2>5, TrueGroupsRight DEF TrueRight
  <2>7. PICK z \in h \cap ports : \A p \in (h \cap ports) \ {z} : p \in DOMAIN pa /\ pa[p] = z
    BY <2>3, <2>5, <2>6 DEF PortsRight
  <2>8. ASSUME NEW p \in (h \cap ports) \ {z}
        PROVE  \E g \in new : {<<i>> \o p, <<i>> \o z} \subseteq g
    <3>1. PICK e : e = <<<<i>> \o p, <<i>> \o pa[p]>>
      OBVIOUS
    <3>2. e \in Alias!InstanceAliases(m)
      <4>1. p \in DOMAIN portAliases[m.instances[i]] /\ pa = portAliases[m.instances[i]]
        BY <2>1, <2>7, <2>8
      <4>2. PICK f : f = {<<<<i>> \o q, <<i>> \o portAliases[m.instances[i]][q]>> :
                              q \in DOMAIN portAliases[m.instances[i]]}
        OBVIOUS
      <4>3. f \subseteq Alias!InstanceAliases(m)
        BY <4>2 DEF Alias!InstanceAliases
      <4>4. e \in f
        BY <3>1, <4>1, <4>2
      <4> QED
        BY <4>3, <4>4
    <3>3. PICK g \in new : {e[1], e[2]} \subseteq g
      BY <1>1, <3>2
    <3>4. e[1] = <<i>> \o p /\ e[2] = <<i>> \o z
      BY <2>7, <2>8, <3>1
    <3> QED
      BY <3>3, <3>4
  <2>9. PICK o \in (h \cap ports) \ {z} : TRUE
    <3>1. PICK s : s = h \cap ports
      OBVIOUS
    <3>2. IsFiniteSet(s) /\ Cardinality(s) > 1
      BY <2>2, <2>3, <3>1, FS_Subset
    <3>3. s \ {z} /= {}
      BY <3>2, Several
    <3> QED
      BY <3>1, <3>3
  <2>10. PICK g \in new : {<<i>> \o o, <<i>> \o z} \subseteq g
    BY <2>8
  <2>11. ASSUME NEW p \in h \cap ports PROVE <<i>> \o p \in g
    <3>1. CASE p = z
      BY <2>10, <3>1
    <3>2. CASE p /= z
      <4>1. PICK f \in new : {<<i>> \o p, <<i>> \o z} \subseteq f
        BY <2>8, <2>11, <3>2
      <4>2. f = g
        <5>1. <<i>> \o z \in f /\ <<i>> \o z \in g
          BY <2>10, <4>1
        <5> QED
          BY <5>1 DEF Separate
      <4> QED
        BY <4>1, <4>2
    <3> QED
      BY <3>1, <3>2
  <2> QED
    BY <2>3, <2>11
<1>5. Refines(Edges(true, k), new)
  BY <1>1, <1>3, <1>4 DEF Refines, Edges, Alias!Edges
<1>6. TrueRight(true, k)
  BY <1>1, TrueGroupsRight
<1>7. Refines(true[k], new)
  BY <1>5, <1>6 DEF TrueRight
<1>8. PICK p : p = true[k]
  OBVIOUS
<1>9. Separate(p) /\ {} \notin p /\ Refines(new, p) /\ Refines(p, new)
  BY <1>1, <1>6, <1>7, <1>8 DEF TrueRight
<1>10. new = p
  BY <1>9, SameParts
<1> QED
  BY <1>1, <1>8, <1>10

------------------------------------------------------------------------------
\* The pairs of groups that findMerges has to merge in module m.
RealLinks(m) == {l \in Alias!Links(m) : Cardinality(l) = 2}

\* How far findMerges has come: rest is what it has not looked at.
StepRight(pairs, all, links, t, rest, merges0) ==
    /\ rest \subseteq pairs
    /\ Sound(merges0, all, t)
    /\ NoBridge(links) => Apart(merges0, links)
    /\ \A e \in pairs \ rest :
           \/ Alias!GroupOf(all, e[1]) = Alias!GroupOf(all, e[2])
           \/ \E s \in merges0 : {Alias!GroupOf(all, e[1]), Alias!GroupOf(all, e[2])} \subseteq s

IsSeq(s) == \E S : s \in Seq(S)

\* The inductive invariant of the alias analysis.
AliasIInv ==
    /\ design \in Designs /\ pc \in {"start", "merge"}
    /\ IsSeq(groups) /\ IsSeq(portAliases)
    /\ Len(groups) = Len(portAliases) /\ Len(groups) <= Main
    /\ BelowRight(Len(groups) + 1)
    /\ pc = "start" => todo = {} /\ merges = {}
    /\ pc = "merge" =>
           /\ Len(groups) + 1 \in Modules
           /\ StepRight(Alias!InstanceAliases(design[Len(groups) + 1]),
                        Alias!GroupsToMerge(design[Len(groups) + 1]),
                        RealLinks(design[Len(groups) + 1]),
                        Alias!TrueGroups[Len(groups) + 1], todo, merges)

\* What findMerges works on depends on the port aliases of instances only.
LEMMA AliasStay ==
    ASSUME NEW m, \A i \in DOMAIN m.instances :
                      portAliases'[m.instances[i]] = portAliases[m.instances[i]]
    PROVE  /\ Alias!InstanceAliases(m)' = Alias!InstanceAliases(m)
           /\ Alias!GroupsToMerge(m)' = Alias!GroupsToMerge(m)
           /\ RealLinks(m)' = RealLinks(m)
<1>1. Alias!InstanceAliases(m)' = Alias!InstanceAliases(m)
  <2> DEFINE A(i, pa) == {<<(<<i>> \o p), (<<i>> \o pa[p])>> : p \in DOMAIN pa}
  <2>1. Alias!InstanceAliases(m) =
            UNION {A(i, portAliases[m.instances[i]]) : i \in DOMAIN m.instances}
    BY DEF Alias!InstanceAliases
  <2>2. Alias!InstanceAliases(m)' =
            UNION {A(i, portAliases'[m.instances[i]]) : i \in DOMAIN m.instances}
    BY DEF Alias!InstanceAliases
  <2> HIDE DEF A
  <2>3. UNION {A(i, portAliases[m.instances[i]]) : i \in DOMAIN m.instances} =
            UNION {A(i, portAliases'[m.instances[i]]) : i \in DOMAIN m.instances}
    OBVIOUS
  <2> QED
    BY <2>1, <2>2, <2>3
<1>2. PICK pairs : pairs = Alias!InstanceAliases(m)
  OBVIOUS
<1>3. pairs = Alias!InstanceAliases(m)'
  BY <1>1, <1>2
<1>4. PICK aliased, local : /\ aliased = UNION {{e[1], e[2]} : e \in pairs}
                            /\ local = Alias!LocalGroups(m)
  OBVIOUS
<1>5. Alias!LocalGroups(m)' = local
  BY <1>4 DEF Alias!LocalGroups, Alias!Connects
<1>6. Alias!GroupsToMerge(m) = local \cup {{s} : s \in aliased \ UNION local}
  BY <1>2, <1>4 DEF Alias!GroupsToMerge
<1>7. Alias!GroupsToMerge(m)' = local \cup {{s} : s \in aliased \ UNION local}
  BY <1>3, <1>4, <1>5 DEF Alias!GroupsToMerge
<1>8. PICK all : all = Alias!GroupsToMerge(m)
  OBVIOUS
<1>9. all = Alias!GroupsToMerge(m)'
  BY <1>6, <1>7, <1>8
<1>10. Alias!Links(m) = {{Alias!GroupOf(all, e[1]), Alias!GroupOf(all, e[2])} : e \in pairs}
  BY <1>2, <1>8 DEF Alias!Links
<1>11. Alias!Links(m)' = {{Alias!GroupOf(all, e[1]), Alias!GroupOf(all, e[2])} : e \in pairs}
  BY <1>3, <1>9 DEF Alias!Links, Alias!GroupOf
<1>12. RealLinks(m)' = RealLinks(m)
  BY <1>10, <1>11 DEF RealLinks
<1> QED
  BY <1>1, <1>8, <1>9, <1>12

LEMMA NoBridgeIs == \A m : ~Alias!Bridged(m) <=> NoBridge(RealLinks(m))
BY AliasCardinality DEF Alias!Bridged, NoBridge, RealLinks

\* What is known of a module stays, as long as its groups and those below do.
LEMMA ModuleStays ==
    ASSUME design \in Designs, design' = design, NEW k \in Modules, ModuleRight(k),
           groups'[k] = groups[k], \A j \in 1 .. k : portAliases'[j] = portAliases[j]
    PROVE  ModuleRight(k)'
<1>1. k \in 1 .. Main /\ Main \in Nat /\ Modules = 1 .. Main
  BY DesignShape
<1>2. \A j \in 1 .. k : j \in Modules
  BY <1>1
<1>3. ASSUME NEW j \in 1 .. k PROVE Alias!Bridged(design[j])' <=> Alias!Bridged(design[j])
  <2>1. PICK m : m = design[j]
    OBVIOUS
  <2>2. m = design'[j]
    BY <2>1
  <2>3. ASSUME NEW i \in DOMAIN m.instances
        PROVE  portAliases'[m.instances[i]] = portAliases[m.instances[i]]
    <3>1. m.instances[i] \in 1 .. j - 1
      BY <1>2, <2>1, DesignShape
    <3>2. m.instances[i] \in 1 .. k
      BY <1>1, <3>1
    <3> QED
      BY <3>2
  <2>4. RealLinks(m)' = RealLinks(m)
    BY <2>3, AliasStay
  <2>5. Alias!Bridged(m) <=> ~NoBridge(RealLinks(m))
    BY NoBridgeIs
  <2>6. Alias!Bridged(m)' <=> ~NoBridge(RealLinks(m)')
    BY AliasCardinality DEF Alias!Bridged, NoBridge, RealLinks
  <2> QED
    BY <2>1, <2>2, <2>4, <2>5, <2>6
<1>4. Alias!TrueGroups' = Alias!TrueGroups
  BY TrueStay
<1>5. portAliases'[k] = portAliases[k]
  BY <1>1
<1>6. Refines(groups[k], Alias!TrueGroups[k])'
  BY <1>4 DEF ModuleRight, Refines
<1>7. PortsRight(groups[k], design[k].ports, portAliases[k])'
  BY <1>5 DEF ModuleRight, PortsRight, Separate
<1>8. ((\A j \in 1 .. k : ~Alias!Bridged(design[j])) => groups[k] = Alias!TrueGroups[k])'
  BY <1>3, <1>4 DEF ModuleRight
<1> QED
  BY <1>6, <1>7, <1>8 DEF ModuleRight

\* Two elements.
LEMMA PairHasTwo == ASSUME NEW x, NEW y, x /= y PROVE Cardinality({x, y}) = 2
<1>1. IsFiniteSet({x}) /\ Cardinality({x}) = 1 /\ {x} \cup {y} = {x, y}
  BY FS_Singleton
<1> QED
  BY <1>1, FS_AddElement

\* One more element.
LEMMA AppendIs ==
    ASSUME NEW s, IsSeq(s), NEW x
    PROVE  /\ IsSeq(Append(s, x)) /\ Len(s) \in Nat /\ Len(Append(s, x)) = Len(s) + 1
           /\ \A j \in 1 .. Len(s) : Append(s, x)[j] = s[j]
           /\ Append(s, x)[Len(s) + 1] = x
<1>1. PICK S : s \in Seq(S)
  BY DEF IsSeq
<1>2. PICK T : T = S \cup {x}
  OBVIOUS
<1>3. s \in Seq(T) /\ x \in T
  BY <1>1, <1>2
<1>4. Append(s, x) \in Seq(T)
  BY <1>3
<1> QED
  BY <1>3, <1>4, AppendProperties DEF IsSeq

LEMMA AliasInit == Alias!Init => AliasIInv
<1> SUFFICES ASSUME Alias!Init PROVE AliasIInv
  OBVIOUS
<1>1. /\ design \in Designs /\ groups = <<>> /\ portAliases = <<>>
      /\ todo = {} /\ merges = {} /\ pc = "start"
  BY DEF Alias!Init
<1>2. Len(groups) = 0 /\ Len(portAliases) = 0 /\ IsSeq(groups) /\ IsSeq(portAliases)
  <2>1. <<>> \in Seq({}) /\ Len(<<>>) = 0
    OBVIOUS
  <2> QED
    BY <1>1, <2>1 DEF IsSeq
<1>3. Main \in Nat
  BY <1>1, DesignShape
<1>4. BelowRight(Len(groups) + 1)
  BY <1>2 DEF BelowRight
<1> QED
  BY <1>1, <1>2, <1>3, <1>4 DEF AliasIInv

\* findMerges begins with nothing merged.
LEMMA StartModuleRight == AliasIInv /\ Alias!StartModule => AliasIInv'
<1> SUFFICES ASSUME AliasIInv, Alias!StartModule PROVE AliasIInv'
  OBVIOUS
<1>1. /\ pc = "start" /\ Len(groups) + 1 <= Main
      /\ todo' = Alias!InstanceAliases(design[Len(groups) + 1]) /\ pc' = "merge"
      /\ design' = design /\ groups' = groups /\ portAliases' = portAliases
      /\ merges' = merges /\ merges = {}
  BY DEF Alias!StartModule, Alias!Current, Main, AliasIInv
<1>2. PICK k, m : k = Len(groups) + 1 /\ m = design[k]
  OBVIOUS
<1>3. design \in Designs /\ IsSeq(groups) /\ k \in Modules
  <2>1. Len(groups) \in Nat
    BY AppendIs DEF AliasIInv
  <2> QED
    BY <1>1, <1>2, <2>1, DesignShape DEF AliasIInv
<1>4. BelowRight(k)'
  <2>1. k \in Nat /\ \A j \in 1 .. k - 1 : j \in Modules
    BY <1>3, DesignShape
  <2>2. ASSUME NEW j \in 1 .. k - 1 PROVE ModuleRight(j)'
    <3>1. ModuleRight(j)
      BY <1>2 DEF AliasIInv, BelowRight
    <3> QED
      BY <1>1, <1>3, <2>1, <3>1, ModuleStays
  <2> QED
    BY <2>2 DEF BelowRight
<1>5. /\ Alias!InstanceAliases(m)' = Alias!InstanceAliases(m)
      /\ Alias!GroupsToMerge(m)' = Alias!GroupsToMerge(m) /\ RealLinks(m)' = RealLinks(m)
  BY <1>1, AliasStay
<1>6. StepRight(Alias!InstanceAliases(m), Alias!GroupsToMerge(m), RealLinks(m),
                Alias!TrueGroups[k], todo, merges)'
  BY <1>1, <1>2, <1>5 DEF StepRight, Sound, Apart, Separate
<1>7. k = (Len(groups) + 1)' /\ m = design'[k]
  BY <1>1, <1>2
<1>8. Modules' = Modules /\ Main' = Main
  BY <1>1 DEF Modules, Main
<1> QED
  BY <1>1, <1>3, <1>4, <1>6, <1>7, <1>8 DEF AliasIInv

\* A merge of two groups of aliases.
LEMMA TakeAliasRight == AliasIInv /\ Alias!TakeAlias => AliasIInv'
<1> SUFFICES ASSUME AliasIInv, Alias!TakeAlias PROVE AliasIInv'
  OBVIOUS
<1>1. PICK k, m, all : /\ k = Len(groups) + 1 /\ m = design[k]
                       /\ all = Alias!GroupsToMerge(m)
  OBVIOUS
<1>2. PICK pairs, links, t : /\ pairs = Alias!InstanceAliases(m) /\ links = RealLinks(m)
                             /\ t = Alias!TrueGroups[k]
  OBVIOUS
<1>3. /\ pc = "merge" /\ pc' = pc /\ design' = design /\ groups' = groups
      /\ portAliases' = portAliases
  BY DEF Alias!TakeAlias
<1>4. design \in Designs /\ k \in Modules /\ StepRight(pairs, all, links, t, todo, merges)
  BY <1>1, <1>2, <1>3 DEF AliasIInv
<1>5. BelowRight(k)
  BY <1>1 DEF AliasIInv
<1>6. PICK e \in todo :
          /\ todo' = todo \ {e}
          /\ merges' = IF Cardinality({Alias!GroupOf(all, e[1]), Alias!GroupOf(all, e[2])}) = 2
                       THEN Alias!Merged(merges, {Alias!GroupOf(all, e[1]),
                                                  Alias!GroupOf(all, e[2])})
                       ELSE merges
  BY <1>1, AliasCardinality DEF Alias!TakeAlias, Alias!Current
<1>7. PICK g, h, merge : /\ g = Alias!GroupOf(all, e[1]) /\ h = Alias!GroupOf(all, e[2])
                         /\ merge = {g, h}
  OBVIOUS
<1>8. e \in pairs /\ StartRight(k, all)
  BY <1>1, <1>2, <1>4, <1>5, <1>6, ToMergeRight DEF StepRight
<1>9. g \in all /\ e[1] \in g /\ h \in all /\ e[2] \in h
  BY <1>1, <1>2, <1>7, <1>8 DEF StartRight
<1>10. merges' = IF Cardinality(merge) = 2 THEN Alias!Merged(merges, merge) ELSE merges
  BY <1>6, <1>7
<1>11. StepRight(pairs, all, links, t, todo', merges')
  <2>1. todo' \subseteq pairs /\ pairs \ todo' \subseteq (pairs \ todo) \cup {e}
    BY <1>4, <1>6 DEF StepRight
  <2>2. CASE Cardinality(merge) = 2
    <3>1. PICK new : new = merges' /\ new = Alias!Merged(merges, merge)
      BY <1>10, <2>2
    <3>2. merge \in links
      <4>1. merge \in Alias!Links(m)
        BY <1>1, <1>2, <1>7, <1>8 DEF Alias!Links
      <4> QED
        BY <1>2, <2>2, <4>1 DEF RealLinks
    <3>3. PICK o \in t : UNION merge \subseteq o
      <4>1. PICK x \in t : {e[1], e[2]} \subseteq x
        BY <1>1, <1>2, <1>4, <1>5, <1>8, AliasesConnected
      <4>2. Separate(t) /\ Refines(all, t)
        BY <1>2, <1>4, <1>8, TrueGroupsRight DEF StartRight, TrueRight
      <4>3. PICK y \in t : g \subseteq y
        BY <1>9, <4>2 DEF Refines
      <4>4. PICK z \in t : h \subseteq z
        BY <1>9, <4>2 DEF Refines
      <4>5. y = x /\ z = x
        BY <1>9, <4>1, <4>2, <4>3, <4>4 DEF Separate
      <4> QED
        BY <1>7, <4>3, <4>4, <4>5
    <3>4. Sound(new, all, t)
      <4>1. Separate(t) /\ {} \notin all /\ Sound(merges, all, t)
        BY <1>2, <1>4, <1>8, TrueGroupsRight DEF StartRight, TrueRight, StepRight
      <4>2. PICK old : old = merges
        OBVIOUS
      <4>3. merge \subseteq all /\ merge /= {}
        BY <1>7, <1>9
      <4> QED
        BY <3>1, <3>3, <4>1, <4>2, <4>3, MergedSound
    <3>5. NoBridge(links) => Apart(new, links)
      BY <1>4, <3>1, <3>2, MergedApart DEF StepRight
    <3>6. /\ \A s \in merges : \E x \in new : s \subseteq x
          /\ \E x \in new : merge \subseteq x
      BY <3>1, MergedGrows
    <3>7. ASSUME NEW f \in pairs \ todo'
          PROVE  \/ Alias!GroupOf(all, f[1]) = Alias!GroupOf(all, f[2])
                 \/ \E s \in new : {Alias!GroupOf(all, f[1]), Alias!GroupOf(all, f[2])}
                                       \subseteq s
      <4>1. CASE f = e
        BY <1>7, <3>6, <4>1
      <4>2. CASE f \in pairs \ todo
        BY <1>4, <3>6, <4>2 DEF StepRight
      <4> QED
        BY <2>1, <4>1, <4>2
    <3> QED
      BY <2>1, <3>1, <3>4, <3>5, <3>7 DEF StepRight
  <2>3. CASE Cardinality(merge) /= 2
    <3>1. merges' = merges
      BY <1>10, <2>3
    <3>2. g = h
      <4>1. g /= h => Cardinality(merge) = 2
        BY <1>7, PairHasTwo
      <4> QED
        BY <2>3, <4>1
    <3> QED
      BY <1>4, <1>7, <2>1, <3>1, <3>2 DEF StepRight
  <2> QED
    BY <2>2, <2>3
<1>12. BelowRight(k)'
  <2>1. k \in Nat /\ \A j \in 1 .. k - 1 : j \in Modules
    BY <1>4, DesignShape
  <2>2. ASSUME NEW j \in 1 .. k - 1 PROVE ModuleRight(j)'
    <3>1. ModuleRight(j)
      BY <1>5 DEF BelowRight
    <3> QED
      BY <1>3, <1>4, <2>1, <3>1, ModuleStays
  <2> QED
    BY <2>2 DEF BelowRight
<1>13. /\ Alias!InstanceAliases(m)' = pairs /\ Alias!GroupsToMerge(m)' = all
       /\ RealLinks(m)' = links /\ Alias!TrueGroups'[k] = t
  BY <1>1, <1>2, <1>3, AliasStay, TrueStay
<1>14. k = (Len(groups) + 1)' /\ m = design'[k]
  BY <1>1, <1>3
<1>15. Modules' = Modules /\ Main' = Main
  BY <1>3 DEF Modules, Main
<1> QED
  BY <1>3, <1>4, <1>11, <1>12, <1>13, <1>14, <1>15 DEF AliasIInv

\* The groups that are connected by the merges, and new port aliases.
LEMMA FinishModuleRight == AliasIInv /\ Alias!FinishModule => AliasIInv'
<1> SUFFICES ASSUME AliasIInv, Alias!FinishModule PROVE AliasIInv'
  OBVIOUS
<1>1. PICK k, m, old : /\ k = Len(groups) + 1 /\ m = design[k]
                       /\ old = Alias!GroupsToMerge(m)
  OBVIOUS
<1>2. PICK pairs, links, t, found : /\ pairs = Alias!InstanceAliases(m) /\ links = RealLinks(m)
                                    /\ t = Alias!TrueGroups[k] /\ found = merges
  OBVIOUS
<1>3. PICK all : all = MergedInto(old, found)
  OBVIOUS
<1>4. /\ pc = "merge" /\ todo = {} /\ todo' = {} /\ merges' = {} /\ pc' = "start"
      /\ design' = design /\ groups' = Append(groups, all)
      /\ \E groupOrder \in Alias!SetToSeqs({g \in all : g \cap m.ports /= {}}),
            portOrder \in Alias!SetToSeqs(m.ports) :
             portAliases' = Append(portAliases,
                 Alias!PortAliases(all, m.ports, groupOrder, portOrder))
  BY <1>1, <1>2, <1>3 DEF Alias!FinishModule, Alias!Current, Alias!MergeGroups, MergedInto
<1>5. PICK groupOrder \in Alias!SetToSeqs({g \in all : g \cap m.ports /= {}}),
           portOrder \in Alias!SetToSeqs(m.ports) :
          portAliases' = Append(portAliases,
              Alias!PortAliases(all, m.ports, groupOrder, portOrder))
  BY <1>4
<1>6. design \in Designs /\ k \in Modules /\ StepRight(pairs, old, links, t, {}, found)
  BY <1>1, <1>2, <1>4 DEF AliasIInv
<1>7. BelowRight(k)
  BY <1>1 DEF AliasIInv
<1>8. StartRight(k, old)
  BY <1>1, <1>6, <1>7, ToMergeRight
<1>9. PICK pa : pa = Alias!PortAliases(all, m.ports, groupOrder, portOrder)
  OBVIOUS
<1>10. /\ IsSeq(groups) /\ IsSeq(portAliases) /\ Len(portAliases) + 1 = k
       /\ k \in Nat \ {0} /\ k <= Main
  <2>1. IsSeq(groups) /\ IsSeq(portAliases) /\ Len(portAliases) = Len(groups)
    BY DEF AliasIInv
  <2>2. k \in 1 .. Main /\ Main \in Nat
    BY <1>6, DesignShape
  <2> QED
    BY <1>1, <2>1, <2>2
<1>11. /\ IsSeq(groups') /\ Len(groups') = k /\ groups'[k] = all
       /\ \A j \in 1 .. k - 1 : groups'[j] = groups[j]
  <2>1. Len(groups) \in Nat /\ Len(groups) = k - 1
    BY <1>1, <1>10, AppendIs
  <2> QED
    BY <1>1, <1>4, <1>10, <2>1, AppendIs
<1>12. /\ IsSeq(portAliases') /\ Len(portAliases') = k /\ portAliases'[k] = pa
       /\ \A j \in 1 .. k - 1 : portAliases'[j] = portAliases[j]
  <2>1. Len(portAliases) \in Nat /\ Len(portAliases) = k - 1
    BY <1>10, AppendIs
  <2> QED
    BY <1>5, <1>9, <1>10, <2>1, AppendIs
<1>13. /\ Refines(old, all) /\ Refines(all, t) /\ {} \notin all
       /\ \A s \in found : UNION s \in all
  BY <1>2, <1>3, <1>6, <1>8, MergedIntoSound DEF StartRight, StepRight
<1>14. PortsRight(all, m.ports, pa)
  <2>1. IsFiniteSet(m.ports) /\ IsFiniteSet(UNION t)
    BY <1>1, <1>2, <1>6, DesignShape, TrueGroupsRight DEF FiniteModule, TrueRight
  <2>2. PICK several : several = {g \in all : g \cap m.ports /= {}}
    OBVIOUS
  <2>3. several \subseteq SUBSET UNION t
    BY <1>13, <2>2 DEF Refines
  <2>4. IsFiniteSet(several)
    BY <2>1, <2>3, FS_SUBSET, FS_Subset
  <2>5. PICK ports : ports = m.ports
    OBVIOUS
  <2> QED
    BY <1>5, <1>9, <2>1, <2>2, <2>4, <2>5, PortAliasesRight
<1>15. ASSUME \A j \in 1 .. k : ~Alias!Bridged(design[j]) PROVE all = t
  <2>1. NoBridge(links)
    <3>1. ~Alias!Bridged(m)
      BY <1>1, <1>10, <1>15
    <3> QED
      BY <1>2, <3>1, NoBridgeIs
  <2>2. Separate(old) /\ Separate(found) /\ \A s \in found : s \subseteq old
    BY <1>6, <1>8, <2>1 DEF StartRight, StepRight, Apart, Sound
  <2>3. Separate(all)
    BY <1>3, <2>2, MergedIntoSeparate
  <2>4. ASSUME NEW e \in pairs PROVE \E g \in all : {e[1], e[2]} \subseteq g
    <3>1. PICK g, h : g = Alias!GroupOf(old, e[1]) /\ h = Alias!GroupOf(old, e[2])
      OBVIOUS
    <3>2. g \in old /\ e[1] \in g /\ h \in old /\ e[2] \in h
      BY <1>1, <1>2, <1>8, <2>4, <3>1 DEF StartRight
    <3>3. g = h \/ \E s \in found : {g, h} \subseteq s
      BY <1>6, <2>4, <3>1 DEF StepRight
    <3>4. CASE g = h
      BY <1>13, <3>2, <3>4 DEF Refines
    <3>5. CASE \E s \in found : {g, h} \subseteq s
      <4>1. PICK s \in found : {g, h} \subseteq s
        BY <3>5
      <4>2. UNION s \in all /\ e[1] \in UNION s /\ e[2] \in UNION s
        BY <1>13, <3>2, <4>1
      <4> QED
        BY <4>2
    <3> QED
      BY <3>3, <3>4, <3>5
  <2> QED
    BY <1>1, <1>2, <1>6, <1>7, <1>13, <1>15, <2>3, <2>4, NewGroupsExact
<1>16. \A j \in 1 .. k - 1 : j \in Modules
  BY <1>6, DesignShape
<1>17. ASSUME NEW j \in 1 .. k - 1 PROVE ModuleRight(j)'
  <2>1. ModuleRight(j)
    BY <1>7 DEF BelowRight
  <2>2. \A i \in 1 .. j : portAliases'[i] = portAliases[i]
    BY <1>10, <1>12
  <2> QED
    BY <1>4, <1>6, <1>11, <1>16, <2>1, <2>2, ModuleStays
<1>18. ASSUME NEW j \in 1 .. k
       PROVE  Alias!Bridged(design[j])' <=> Alias!Bridged(design[j])
  <2>1. PICK n : n = design[j] /\ n = design'[j]
    BY <1>4
  <2>2. ASSUME NEW i \in DOMAIN n.instances
        PROVE  portAliases'[n.instances[i]] = portAliases[n.instances[i]]
    <3>1. j \in Modules
      <4>1. j = k \/ j \in 1 .. k - 1
        BY <1>10
      <4> QED
        BY <1>6, <1>16, <4>1
    <3>2. n.instances[i] \in 1 .. j - 1
      BY <1>6, <2>1, <3>1, DesignShape
    <3> QED
      BY <1>10, <1>12, <3>2
  <2>3. RealLinks(n)' = RealLinks(n)
    BY <2>2, AliasStay
  <2>4. Alias!Bridged(n) <=> ~NoBridge(RealLinks(n))
    BY NoBridgeIs
  <2>5. Alias!Bridged(n)' <=> ~NoBridge(RealLinks(n)')
    BY AliasCardinality DEF Alias!Bridged, NoBridge, RealLinks
  <2> QED
    BY <2>1, <2>3, <2>4, <2>5
<1>19. ModuleRight(k)'
  <2>1. Alias!TrueGroups'[k] = t
    BY <1>2, <1>4, TrueStay
  <2>2. Refines(groups[k], Alias!TrueGroups[k])'
    BY <1>11, <1>13, <2>1 DEF Refines
  <2>3. PortsRight(groups[k], design[k].ports, portAliases[k])'
    BY <1>1, <1>4, <1>11, <1>12, <1>14 DEF PortsRight, Separate
  <2>4. ((\A j \in 1 .. k : ~Alias!Bridged(design[j])) => groups[k] = Alias!TrueGroups[k])'
    BY <1>11, <1>15, <1>18, <2>1
  <2> QED
    BY <2>2, <2>3, <2>4 DEF ModuleRight
<1>20. BelowRight(Len(groups) + 1)'
  <2>1. (Len(groups) + 1)' = k + 1
    BY <1>11
  <2>2. ASSUME NEW j \in 1 .. k PROVE ModuleRight(j)'
    <3>1. CASE j = k
      BY <1>19, <3>1
    <3>2. CASE j /= k
      BY <1>10, <1>17, <3>2
    <3> QED
      BY <3>1, <3>2
  <2> QED
    BY <1>10, <2>1, <2>2 DEF BelowRight
<1>21. Main' = Main
  BY <1>4 DEF Main
<1> QED
  BY <1>4, <1>6, <1>10, <1>11, <1>12, <1>20, <1>21 DEF AliasIInv

\* A step that is not one of the alias analysis.
LEMMA AliasUnchanged == AliasIInv /\ UNCHANGED alias => AliasIInv'
<1> SUFFICES ASSUME AliasIInv, UNCHANGED alias PROVE AliasIInv'
  OBVIOUS
<1>1. /\ design' = design /\ groups' = groups /\ portAliases' = portAliases
      /\ todo' = todo /\ merges' = merges /\ pc' = pc
  BY DEF alias
<1>2. PICK k, m : k = Len(groups) + 1 /\ m = design[k]
  OBVIOUS
<1>3. design \in Designs /\ k \in Nat /\ k - 1 <= Main
  BY <1>2, AppendIs DEF AliasIInv
<1>4. BelowRight(k)'
  <2>1. \A j \in 1 .. k - 1 : j \in Modules
    BY <1>3, DesignShape
  <2>2. ASSUME NEW j \in 1 .. k - 1 PROVE ModuleRight(j)'
    <3>1. ModuleRight(j)
      BY <1>2 DEF AliasIInv, BelowRight
    <3> QED
      BY <1>1, <1>3, <2>1, <3>1, ModuleStays
  <2> QED
    BY <2>2 DEF BelowRight
<1>5. /\ Alias!InstanceAliases(m)' = Alias!InstanceAliases(m)
      /\ Alias!GroupsToMerge(m)' = Alias!GroupsToMerge(m) /\ RealLinks(m)' = RealLinks(m)
      /\ Alias!TrueGroups' = Alias!TrueGroups
  BY <1>1, AliasStay, TrueStay
<1>6. k = (Len(groups) + 1)' /\ m = design'[k]
  BY <1>1, <1>2
<1>7. Modules' = Modules /\ Main' = Main
  BY <1>1 DEF Modules, Main
<1>8. ASSUME pc = "merge"
      PROVE  k \in Modules /\ StepRight(Alias!InstanceAliases(m), Alias!GroupsToMerge(m),
                                  RealLinks(m), Alias!TrueGroups[k], todo, merges)
  BY <1>2, <1>8 DEF AliasIInv
<1> QED
  BY <1>1, <1>2, <1>4, <1>5, <1>6, <1>7, <1>8 DEF AliasIInv

LEMMA AliasStep == AliasIInv /\ [ToggleNext]_toggleVars => AliasIInv'
<1> SUFFICES ASSUME AliasIInv, [ToggleNext]_toggleVars PROVE AliasIInv'
  OBVIOUS
<1>1. CASE FindAliases
  BY <1>1, StartModuleRight, TakeAliasRight, FinishModuleRight DEF FindAliases, Alias!Next
<1>2. CASE EnterModule
  BY <1>2, AliasUnchanged DEF EnterModule
<1>3. CASE CoverGroup
  BY <1>3, AliasUnchanged DEF CoverGroup
<1>4. CASE ResolveModule
  BY <1>4, AliasUnchanged DEF ResolveModule
<1>5. CASE ResolveInstance
  BY <1>5, AliasUnchanged DEF ResolveInstance
<1>6. CASE Finish
  BY <1>6, AliasUnchanged DEF Finish
<1>7. CASE UNCHANGED toggleVars
  BY <1>7, AliasUnchanged DEF toggleVars
<1> QED
  BY <1>1, <1>2, <1>3, <1>4, <1>5, <1>6, <1>7 DEF ToggleNext

\* AliasGroups: signals that AliasAnalysis puts into one group are connected,
\* and, up to the first module in which a pair of groups bridges two others,
\* all that are connected are in one group, whatever the order of its maps.
THEOREM AliasGroupsRight == ToggleSpec => []AliasGroups
<1>1. ToggleInit => AliasIInv
  BY AliasInit DEF ToggleInit
<1>2. AliasIInv => AliasGroups
  <2> SUFFICES ASSUME AliasIInv
               PROVE  Alias!GroupsAreAliases /\ Alias!ExactWithoutBridges
    BY DEF AliasGroups
  <2>1. ASSUME NEW k \in Alias!JustAnalysed PROVE ModuleRight(k)
    <3>1. Len(groups) \in Nat /\ DOMAIN groups = 1 .. Len(groups)
      <4>1. PICK S : groups \in Seq(S)
        BY DEF AliasIInv, IsSeq
      <4> QED
        BY <4>1, LenProperties
    <3>2. k \in 1 .. Len(groups)
      BY <2>1, <3>1 DEF Alias!JustAnalysed
    <3> QED
      BY <3>1, <3>2 DEF AliasIInv, BelowRight
  <2> QED
    BY <2>1 DEF ModuleRight, Refines, Alias!GroupsAreAliases, Alias!ExactWithoutBridges
<1> QED
  BY <1>1, <1>2, AliasStep, PTL DEF ToggleSpec
------------------------------------------------------------------------------
\* Induction over the modules of a design, towards the instantiated ones.
LEMMA Downward ==
    ASSUME design \in Designs,
           NEW S, \A k \in Modules : (\A p \in Modules : p > k => p \in S) => k \in S
    PROVE  Modules \subseteq S
<1> DEFINE E == {j \in Nat : \A k \in Modules : k > Main - j => k \in S}
<1>1. Main \in Nat /\ Modules = 1 .. Main
  BY DesignShape
<1>2. 0 \in E
  BY <1>1
<1>3. ASSUME NEW j \in Nat, j \in E PROVE j + 1 \in E
  <2> SUFFICES ASSUME NEW k \in Modules, k > Main - (j + 1) PROVE k \in S
    OBVIOUS
  <2>1. \A p \in Modules : p > k => p \in S
    BY <1>1, <1>3
  <2> QED
    BY <2>1
<1>4. Main \in E
  <2> HIDE DEF E
  <2> QED
    BY <1>1, <1>2, <1>3, Induction
<1> QED
  BY <1>1, <1>4

\* The same, towards the main module.
LEMMA Upward ==
    ASSUME design \in Designs,
           NEW S, \A k \in Modules : (\A c \in 1 .. k - 1 : c \in S) => k \in S
    PROVE  Modules \subseteq S
<1> DEFINE E == {j \in Nat : \A k \in Modules : k <= j => k \in S}
<1>1. Main \in Nat /\ Modules = 1 .. Main
  BY DesignShape
<1>2. 0 \in E
  BY <1>1
<1>3. ASSUME NEW j \in Nat, j \in E PROVE j + 1 \in E
  <2> SUFFICES ASSUME NEW k \in Modules, k <= j + 1 PROVE k \in S
    OBVIOUS
  <2>1. \A c \in 1 .. k - 1 : c \in S
    BY <1>1, <1>3
  <2> QED
    BY <2>1
<1>4. Main \in E
  <2> HIDE DEF E
  <2> QED
    BY <1>1, <1>2, <1>3, Induction
<1> QED
  BY <1>1, <1>4

\* A path with one more instance, and a port of that instance.
PortsBelow(a, i) == \A x : (a \o <<i>>) \o <<x>> = a \o (<<i>> \o <<x>>)

\* A path with one more instance at its end is another path.
LEMMA PathEnds ==
    ASSUME NEW a, IsSeq(a), NEW i
    PROVE  /\ IsSeq(a \o <<i>>) /\ a \o <<i>> /= <<>>
           /\ PortsBelow(a, i)
<1>1. PICK S : a \in Seq(S)
  BY DEF IsSeq
<1>2. PICK T : T = S \cup {i}
  OBVIOUS
<1>3. a \in Seq(T) /\ <<i>> \in Seq(T)
  BY <1>1, <1>2
<1>4. a \o <<i>> \in Seq(T) /\ Len(a \o <<i>>) = Len(a) + 1
  BY <1>3
<1>5. a \o <<i>> /= <<>>
  BY <1>3, <1>4
<1>6. ASSUME NEW x PROVE (a \o <<i>>) \o <<x>> = a \o (<<i>> \o <<x>>)
  <2>1. PICK U : U = T \cup {x}
    OBVIOUS
  <2>2. a \in Seq(U) /\ <<i>> \in Seq(U) /\ <<x>> \in Seq(U)
    BY <1>3, <2>1
  <2> QED
    BY <2>2
<1> QED
  BY <1>4, <1>5, <1>6 DEF IsSeq, PortsBelow

SamePath(a, i, b, j) == a \o <<i>> = b \o <<j>>

\* Paths are the same if they come from the same one by the same instance.
LEMMA PathEndsEqual ==
    ASSUME NEW a, IsSeq(a), NEW b, IsSeq(b), NEW i, NEW j, SamePath(a, i, b, j)
    PROVE  a = b /\ i = j
<1>1. PICK S : a \in Seq(S)
  BY DEF IsSeq
<1>2. PICK R : b \in Seq(R)
  BY DEF IsSeq
<1>3. PICK T : T = (S \cup R) \cup {i, j}
  OBVIOUS
<1>4. a \in Seq(T) /\ b \in Seq(T) /\ <<i>> \in Seq(T) /\ <<j>> \in Seq(T)
  BY <1>1, <1>2, <1>3
<1> USE DEF SamePath
<1>5. Len(a \o <<i>>) = Len(a) + 1 /\ Len(b \o <<j>>) = Len(b) + 1
  BY <1>4
<1>6. Len(a) = Len(b) /\ Len(a) \in Nat
  BY <1>4, <1>5
<1>7. (a \o <<i>>)[Len(a) + 1] = i /\ (b \o <<j>>)[Len(b) + 1] = j
  BY <1>4
<1>8. \A n \in 1 .. Len(a) : (a \o <<i>>)[n] = a[n]
  BY <1>4
<1>9. \A n \in 1 .. Len(b) : (b \o <<j>>)[n] = b[n]
  BY <1>4
<1>10. \A n \in 1 .. Len(a) : a[n] = b[n]
  BY <1>6, <1>8, <1>9
<1>11. a = b
  BY <1>4, <1>6, <1>10
<1> QED
  BY <1>6, <1>7, <1>11

------------------------------------------------------------------------------
\* The paths of the instances of module k in p, given those of p, and all of them.
Onward(ps, p, k) ==
    UNION {{q \o <<i>> : q \in ps} :
              i \in {j \in DOMAIN design[p].instances : design[p].instances[j] = k}}

\* The paths of module k, given those of the modules above.
PathsFrom(f, k) ==
    IF k = Main THEN {<<>>} ELSE UNION {Onward(f[p], p, k) : p \in k + 1 .. Main}

\* The paths of a design are defined, from the main module downwards.
LEMMA PathsAre ==
    ASSUME design \in Designs
    PROVE  \E f : f = [k \in Modules |-> PathsFrom(f, k)] /\ Paths = f
<1> DEFINE IsDown(f, j) == f = [k \in j .. Main |-> PathsFrom(f, k)]
           E == {n \in Nat : n <= Main => \E f : IsDown(f, Main + 1 - n)}
<1>1. Main \in Nat /\ Modules = 1 .. Main
  BY DesignShape
<1>2. 0 \in E
  <2> DEFINE f == [k \in Main + 1 .. Main |-> {}]
  <2>1. IsDown(f, Main + 1)
    <3>1. Main + 1 .. Main = {}
      BY <1>1
    <3> QED
      BY <3>1
  <2>2. Main + 1 - 0 = Main + 1
    BY <1>1
  <2> QED
    BY <2>1, <2>2
<1>3. ASSUME NEW n \in Nat, n \in E PROVE n + 1 \in E
  <2> SUFFICES ASSUME n + 1 <= Main PROVE \E g : IsDown(g, Main + 1 - (n + 1))
    OBVIOUS
  <2>1. PICK j \in 1 .. Main : j = Main - n
    BY <1>1
  <2>2. Main + 1 - n = j + 1 /\ Main + 1 - (n + 1) = j
    BY <1>1, <2>1
  <2>3. PICK f : IsDown(f, j + 1)
    BY <1>1, <1>3, <2>2
  <2> DEFINE g == [k \in j .. Main |-> PathsFrom(f, k)]
  <2>4. \A k \in j + 1 .. Main : k \in j .. Main /\ g[k] = f[k]
    <3>1. \A k \in j + 1 .. Main : f[k] = PathsFrom(f, k)
      BY <2>3
    <3>2. \A k \in j .. Main : g[k] = PathsFrom(f, k)
      OBVIOUS
    <3> HIDE DEF g
    <3> QED
      BY <1>1, <2>1, <3>1, <3>2
  <2>5. ASSUME NEW k \in j .. Main PROVE PathsFrom(f, k) = PathsFrom(g, k)
    <3> HIDE DEF g
    <3>1. \A p \in k + 1 .. Main : g[p] = f[p]
      BY <1>1, <2>1, <2>4
    <3> QED
      BY <3>1 DEF PathsFrom
  <2>6. IsDown(g, j)
    BY <2>5, Zenon
  <2> HIDE DEF g, IsDown
  <2> QED
    BY <2>2, <2>6
<1>4. Main \in E
  <2> HIDE DEF E
  <2> QED
    BY <1>1, <1>2, <1>3, Induction
<1>5. \E f : f = [k \in Modules |-> PathsFrom(f, k)]
  <2>1. Main + 1 - Main = 1
    BY <1>1
  <2> QED
    BY <1>1, <1>4, <2>1
<1> DEFINE f == CHOOSE g : g = [k \in Modules |-> PathsFrom(g, k)]
<1>6. Paths = f
  BY DEF Paths, PathsFrom, Onward
<1>7. f = [k \in Modules |-> PathsFrom(f, k)]
  BY <1>5
<1> QED
  BY <1>6, <1>7

\* The paths of a module end with its instances.
EndsWith(k, q, p, i, r) ==
    /\ p \in Modules /\ i \in DOMAIN design[p].instances /\ r \in Paths[p] /\ p > k
    /\ design[p].instances[i] = k /\ q = r \o <<i>>

\* The main module is at the empty path,
LEMMA PathFirst == ASSUME design \in Designs PROVE Paths[Main] = {<<>>}
<1>1. PICK f : f = [k \in Modules |-> PathsFrom(f, k)] /\ Paths = f
  BY PathsAre
<1>2. f[Main] = PathsFrom(f, Main)
  BY <1>1, DesignShape
<1> QED
  BY <1>1, <1>2 DEF PathsFrom

\* an instance at that of its module with its own name at the end,
LEMMA PathNext ==
    ASSUME design \in Designs, NEW p \in Modules, NEW i \in DOMAIN design[p].instances,
           NEW q \in Paths[p]
    PROVE  q \o <<i>> \in Paths[design[p].instances[i]]
<1>1. PICK f : f = [k \in Modules |-> PathsFrom(f, k)] /\ Paths = f
  BY PathsAre
<1>2. PICK k \in Modules : k = design[p].instances[i] /\ k \in 1 .. p - 1
  BY DesignShape
<1>3. p \in k + 1 .. Main /\ k /= Main
  BY <1>2, DesignShape
<1>4. q \o <<i>> \in Onward(f[p], p, k)
  <2>1. PICK ps : ps = f[p] /\ q \in ps
    BY <1>1
  <2>2. i \in {j \in DOMAIN design[p].instances : design[p].instances[j] = k}
    BY <1>2
  <2>3. q \o <<i>> \in {r \o <<i>> : r \in ps}
    BY <2>1
  <2>4. q \o <<i>> \in Onward(ps, p, k)
    BY <2>2, <2>3 DEF Onward
  <2> QED
    BY <2>1, <2>4
<1>5. q \o <<i>> \in PathsFrom(f, k)
  BY <1>3, <1>4 DEF PathsFrom
<1>6. f[k] = PathsFrom(f, k)
  BY <1>1
<1>7. q \o <<i>> \in Paths[k]
  BY <1>1, <1>5, <1>6, Zenon
<1> QED
  BY <1>2, <1>7, Zenon

\* and no other path leads to an instance.
LEMMA PathLast ==
    ASSUME design \in Designs, NEW k \in Modules, k /= Main, NEW q \in Paths[k]
    PROVE  \E p, i, r : EndsWith(k, q, p, i, r)
<1>1. PICK f : f = [n \in Modules |-> PathsFrom(f, n)] /\ Paths = f
  BY PathsAre
<1>2. q \in PathsFrom(f, k)
  BY <1>1
<1>3. PICK p \in k + 1 .. Main : q \in Onward(f[p], p, k)
  BY <1>2 DEF PathsFrom
<1>4. PICK i \in DOMAIN design[p].instances :
          design[p].instances[i] = k /\ q \in {r \o <<i>> : r \in f[p]}
  BY <1>3 DEF Onward
<1>5. PICK r \in f[p] : q = r \o <<i>>
  BY <1>4
<1>6. p \in Modules /\ p > k
  BY DesignShape
<1> QED
  BY <1>1, <1>4, <1>5, <1>6 DEF EndsWith

\* Paths are sequences, and a path is one of a single module.
LEMMA PathsApart ==
    ASSUME design \in Designs
    PROVE  /\ \A k \in Modules : \A q \in Paths[k] : IsSeq(q)
           /\ \A a, b \in Modules : \A q \in Paths[a] : q \in Paths[b] => a = b
<1> DEFINE S == {k \in Modules : \A q \in Paths[k] : IsSeq(q)}
           T == {a \in Modules : \A b \in Modules : \A q \in Paths[a] : q \in Paths[b] => a = b}
<1>1. IsSeq(<<>>)
  <2>1. <<>> \in Seq({})
    OBVIOUS
  <2> QED
    BY <2>1 DEF IsSeq
<1>2. Modules \subseteq S
  <2>1. ASSUME NEW k \in Modules, \A p \in Modules : p > k => p \in S,
               NEW q \in Paths[k]
        PROVE  IsSeq(q)
    <3>1. CASE k = Main
      BY <1>1, <2>1, <3>1, PathFirst
    <3>2. CASE k /= Main
      <4>1. PICK p, i, r : EndsWith(k, q, p, i, r)
        BY <2>1, <3>2, PathLast
      <4>2. IsSeq(r)
        BY <2>1, <4>1 DEF EndsWith
      <4> QED
        BY <4>1, <4>2, PathEnds DEF EndsWith
    <3> QED
      BY <3>1, <3>2
  <2>2. \A k \in Modules : (\A p \in Modules : p > k => p \in S) => k \in S
    BY <2>1
  <2> HIDE DEF S
  <2> QED
    BY <2>2, Downward
<1>3. \A k \in Modules : \A q \in Paths[k] : IsSeq(q)
  BY <1>2
<1>4. Modules \subseteq T
  <2>1. ASSUME NEW a \in Modules, \A p \in Modules : p > a => p \in T,
               NEW b \in Modules, NEW q \in Paths[a], q \in Paths[b]
        PROVE  a = b
    <3>1. \A k \in Modules : k /= Main => <<>> \notin Paths[k]
      <4> SUFFICES ASSUME NEW k \in Modules, k /= Main, <<>> \in Paths[k] PROVE FALSE
        OBVIOUS
      <4>1. PICK e : e = <<>>
        OBVIOUS
      <4>2. PICK p, i, r : EndsWith(k, e, p, i, r)
        BY <3>1, <4>1, PathLast
      <4>3. IsSeq(r)
        BY <1>3, <4>2 DEF EndsWith
      <4> QED
        BY <4>1, <4>2, <4>3, PathEnds DEF EndsWith
    <3>2. CASE a = Main \/ b = Main
      BY <2>1, <3>1, <3>2, PathFirst
    <3>3. CASE a /= Main /\ b /= Main
      <4>1. PICK p, i, r : EndsWith(a, q, p, i, r)
        BY <2>1, <3>3, PathLast
      <4>2. PICK o, j, t : EndsWith(b, q, o, j, t)
        BY <2>1, <3>3, PathLast
      <4>3. IsSeq(r) /\ IsSeq(t) /\ SamePath(r, i, t, j)
        BY <1>3, <4>1, <4>2 DEF EndsWith, SamePath
      <4>4. r = t /\ i = j
        BY <4>3, PathEndsEqual
      <4>5. p = o
        BY <2>1, <4>1, <4>2, <4>4 DEF EndsWith
      <4> QED
        BY <4>1, <4>2, <4>4, <4>5 DEF EndsWith
    <3> QED
      BY <3>2, <3>3
  <2>2. \A k \in Modules : (\A p \in Modules : p > k => p \in T) => k \in T
    BY <2>1
  <2> HIDE DEF T
  <2> QED
    BY <2>2, Downward
<1>5. \A a, b \in Modules : \A q \in Paths[a] : q \in Paths[b] => a = b
  BY <1>4
<1> QED
  BY <1>3, <1>5

\* There are finitely many.
LEMMA PathsFinite ==
    ASSUME design \in Designs
    PROVE  \A k \in Modules : IsFiniteSet(Paths[k])
<1> DEFINE S == {k \in Modules : IsFiniteSet(Paths[k])}
<1>1. ASSUME NEW k \in Modules, \A p \in Modules : p > k => p \in S
      PROVE  IsFiniteSet(Paths[k])
  <2>1. CASE k = Main
    BY <2>1, PathFirst, FS_Singleton
  <2>2. CASE k /= Main
    <3>1. PICK f : f = [n \in Modules |-> PathsFrom(f, n)] /\ Paths = f
      BY PathsAre
    <3>2. Main \in Nat /\ Modules = 1 .. Main /\ k \in Nat
      BY DesignShape
    <3> DEFINE Insts(p) == {j \in DOMAIN design[p].instances : design[p].instances[j] = k}
               Ends(p, i) == {q \o <<i>> : q \in f[p]}
               Below(p) == Onward(f[p], p, k)
               b == [p \in k + 1 .. Main |-> Below(p)]
    <3>3. ASSUME NEW p \in k + 1 .. Main PROVE IsFiniteSet(Below(p))
      <4>1. p \in Modules /\ p > k
        BY <3>2
      <4>2. IsFiniteSet(f[p]) /\ IsFiniteSet(DOMAIN design[p].instances)
        BY <1>1, <3>1, <4>1, DesignShape DEF FiniteModule
      <4>3. IsFiniteSet(Insts(p))
        BY <4>2, FS_Subset
      <4>4. ASSUME NEW i \in Insts(p) PROVE IsFiniteSet(Ends(p, i))
        <5> DEFINE g == [q \in f[p] |-> q \o <<i>>]
        <5>1. DOMAIN g = f[p] /\ Ends(p, i) = {g[q] : q \in f[p]}
          OBVIOUS
        <5> HIDE DEF g, Ends
        <5> QED
          BY <4>2, <5>1, ImageFinite
      <4> DEFINE e == [i \in Insts(p) |-> Ends(p, i)]
      <4>5. DOMAIN e = Insts(p) /\ {e[i] : i \in Insts(p)} = {Ends(p, i) : i \in Insts(p)}
        OBVIOUS
      <4> HIDE DEF e, Ends, Insts
      <4>6. IsFiniteSet({Ends(p, i) : i \in Insts(p)})
        BY <4>3, <4>5, ImageFinite
      <4>7. Below(p) = UNION {Ends(p, i) : i \in Insts(p)}
        <5>1. Onward(f[p], p, k) = UNION {{q \o <<i>> : q \in f[p]} : i \in Insts(p)}
          BY DEF Onward, Insts
        <5> QED
          BY <5>1 DEF Ends
      <4> HIDE DEF Below
      <4> QED
        BY <4>4, <4>6, <4>7, FS_UNION
    <3>4. DOMAIN b = k + 1 .. Main /\ {b[p] : p \in DOMAIN b} = {Below(p) : p \in k + 1 .. Main}
      OBVIOUS
    <3>5. f[k] = UNION {Below(p) : p \in k + 1 .. Main}
      BY <2>2, <3>1 DEF PathsFrom
    <3> HIDE DEF b, Below
    <3>6. IsFiniteSet(k + 1 .. Main)
      BY <3>2, FS_Interval
    <3>7. IsFiniteSet({Below(p) : p \in k + 1 .. Main})
      BY <3>4, <3>6, ImageFinite
    <3> QED
      BY <3>1, <3>3, <3>5, <3>7, FS_UNION
  <2> QED
    BY <2>1, <2>2
<1>2. \A k \in Modules : (\A p \in Modules : p > k => p \in S) => k \in S
  BY <1>1
<1>3. Modules \subseteq S
  <2> HIDE DEF S
  <2> QED
    BY <1>2, Downward
<1> QED
  BY <1>3

------------------------------------------------------------------------------
\* The wires of an instance of module k, and those of the flattened design.
WiresAt(k, q) == {{q \o s, q \o design[k].drivers[s]} : s \in Driven(design[k])}
AllWires == UNION {UNION {WiresAt(k, q) : q \in Paths[k]} : k \in Modules}

\* Nets are what the wires of the flattened design connect.
LEMMA NetsAre == Nets = Alias!Connected(AllWires)
BY DEF Nets, AllWires, WiresAt, Driven

\* There are finitely many of them.
LEMMA WiresFinite ==
    ASSUME design \in Designs
    PROVE  IsFiniteSet(AllWires) /\ \A e \in AllWires : IsFiniteSet(e) /\ e /= {}
<1>1. ASSUME NEW k \in Modules, NEW q \in Paths[k] PROVE IsFiniteSet(WiresAt(k, q))
  <2>1. PICK d : d = Driven(design[k])
    OBVIOUS
  <2>2. IsFiniteSet(d)
    BY <2>1, DesignShape, FS_Difference DEF Driven, FiniteModule
  <2> DEFINE f == [s \in d |-> {q \o s, q \o design[k].drivers[s]}]
  <2>3. DOMAIN f = d /\ WiresAt(k, q) = {f[s] : s \in d}
    BY <2>1 DEF WiresAt
  <2> HIDE DEF f
  <2> QED
    BY <2>2, <2>3, ImageFinite
<1>2. ASSUME NEW k \in Modules PROVE IsFiniteSet(UNION {WiresAt(k, q) : q \in Paths[k]})
  <2>1. PICK d : d = Paths[k]
    OBVIOUS
  <2> DEFINE f == [q \in d |-> WiresAt(k, q)]
  <2>2. DOMAIN f = d /\ {WiresAt(k, q) : q \in Paths[k]} = {f[q] : q \in d}
    BY <2>1
  <2>3. IsFiniteSet(d)
    BY <2>1, PathsFinite
  <2> HIDE DEF f
  <2>4. IsFiniteSet({WiresAt(k, q) : q \in Paths[k]})
    BY <2>2, <2>3, ImageFinite
  <2> QED
    BY <1>1, <2>4, FS_UNION
<1>3. IsFiniteSet(AllWires)
  <2>1. PICK d : d = Modules
    OBVIOUS
  <2> DEFINE W(k) == UNION {WiresAt(k, q) : q \in Paths[k]}
             f == [k \in d |-> W(k)]
  <2>2. DOMAIN f = d /\ {f[k] : k \in d} = {W(k) : k \in Modules}
    BY <2>1
  <2>3. IsFiniteSet(d)
    BY <2>1, DesignShape, FS_Interval
  <2>4. AllWires = UNION {W(k) : k \in Modules}
    BY DEF AllWires
  <2> HIDE DEF f, W
  <2>5. IsFiniteSet({W(k) : k \in Modules})
    BY <2>2, <2>3, ImageFinite
  <2> USE DEF W
  <2>6. \A w \in {W(k) : k \in Modules} : IsFiniteSet(w)
    BY <1>2
  <2> HIDE DEF W
  <2> QED
    BY <2>4, <2>5, <2>6, FS_UNION
<1>4. ASSUME NEW e \in AllWires PROVE IsFiniteSet(e) /\ e /= {}
  <2>0. PICK k \in Modules : \E q \in Paths[k] : e \in WiresAt(k, q)
    BY DEF AllWires
  <2>1. PICK q \in Paths[k] : e \in WiresAt(k, q)
    BY <2>0
  <2>2. PICK a, b : e = {a, b}
    BY <2>1 DEF WiresAt
  <2>3. IsFiniteSet({a} \cup {b})
    <3>1. IsFiniteSet({a})
      BY FS_Singleton
    <3> QED
      BY <3>1, FS_AddElement
  <2>4. {a} \cup {b} = e
    BY <2>2
  <2> QED
    BY <2>2, <2>3, <2>4
<1> QED
  BY <1>3, <1>4

\* No signal is in two nets, and every wire is in one.
LEMMA NetsRight ==
    ASSUME design \in Designs
    PROVE  Separate(Nets) /\ \A e \in AllWires : \E net \in Nets : e \subseteq net
<1>1. PICK wires : wires = AllWires
  OBVIOUS
<1>2. IsFiniteSet(wires) /\ \A e \in wires : IsFiniteSet(e) /\ e /= {}
  BY <1>1, WiresFinite
<1>3. Separate(Alias!Connected(wires))
  BY <1>2, ConnectedSeparate
<1>4. Grouped(wires, wires, Alias!Connected(wires))
  BY <1>2, ConnectedGroups
<1> QED
  BY <1>1, <1>3, <1>4, NetsAre DEF Grouped

\* What is connected in a module is connected in each of its instances.
LEMMA GroupsInNets ==
    ASSUME design \in Designs
    PROVE  \A k \in Modules : \A q \in Paths[k] : \A g \in Alias!TrueGroups[k] :
               \E net \in Nets : \A s \in g : q \o s \in net
<1> DEFINE Within(k, q, g) == \E net \in Nets : \A s \in g : q \o s \in net
           S == {k \in Modules : \A q \in Paths[k] : \A g \in Alias!TrueGroups[k] :
                                     Within(k, q, g)}
<1>1. ASSUME NEW k \in Modules, \A c \in 1 .. k - 1 : c \in S,
             NEW q \in Paths[k], NEW g \in Alias!TrueGroups[k]
      PROVE  Within(k, q, g)
  <2>1. PICK true, m, nets : true = Alias!TrueGroups /\ m = design[k] /\ nets = Nets
    OBVIOUS
  <2>2. PICK u : u = UNION Edges(true, k)
    OBVIOUS
  <2> DEFINE Part(net) == {s \in u : q \o s \in net}
  <2>3. PICK parts : parts = {Part(net) : net \in nets}
    OBVIOUS
  <2>4. Separate(nets) /\ \A e \in AllWires : \E net \in nets : e \subseteq net
    BY <2>1, NetsRight
  <2>5. Separate(parts)
    <3> SUFFICES ASSUME NEW a \in parts, NEW b \in parts, a \cap b /= {} PROVE a = b
      BY DEF Separate
    <3>1. PICK n \in nets, o \in nets : a = Part(n) /\ b = Part(o)
      BY <2>3
    <3>2. n \cap o /= {}
      BY <3>1
    <3>3. n = o
      BY <2>4, <3>2 DEF Separate
    <3> QED
      BY <3>1, <3>3
  <2>6. ASSUME NEW edge \in Edges(true, k) PROVE \E n \in nets : \A s \in edge : q \o s \in n
    <3>1. CASE edge \in Alias!Wires(m)
      <4>1. PICK s \in Driven(m) : edge = {s, m.drivers[s]}
        BY <3>1 DEF Alias!Wires, Driven
      <4>2. {q \o s, q \o m.drivers[s]} \in WiresAt(k, q)
        BY <2>1, <4>1 DEF WiresAt
      <4>3. {q \o s, q \o m.drivers[s]} \in AllWires
        BY <4>2 DEF AllWires
      <4>4. PICK n \in nets : {q \o s, q \o m.drivers[s]} \subseteq n
        BY <2>4, <4>3
      <4> QED
        BY <4>1, <4>4
    <3>2. CASE \E i \in DOMAIN m.instances : edge \in Alias!Through(true, m, i)
      <4>1. PICK i \in DOMAIN m.instances : edge \in Alias!Through(true, m, i)
        BY <3>2
      <4>2. PICK c, ports : c = m.instances[i] /\ ports = design[c].ports
        OBVIOUS
      <4>3. c \in Modules /\ c \in 1 .. k - 1 /\ \A p \in ports : p = <<p[1]>>
        BY <2>1, <4>2, DesignShape DEF FiniteModule
      <4>4. PICK h \in true[c] : edge = {<<i>> \o p : p \in h \cap ports}
        BY <4>1, <4>2 DEF Alias!Through
      <4>5. q \o <<i>> \in Paths[c]
        BY <2>1, <4>2, PathNext
      <4>6. c \in S
        BY <1>1, <4>3
      <4>7. PICK n \in nets : \A s \in h : (q \o <<i>>) \o s \in n
        BY <2>1, <4>4, <4>5, <4>6
      <4>8. IsSeq(q)
        BY PathsApart
      <4>9. ASSUME NEW s \in edge PROVE q \o s \in n
        <5>1. PICK p \in h \cap ports : s = <<i>> \o p
          BY <4>4
        <5>2. PICK x : p = <<x>>
          BY <4>3
        <5>3. PortsBelow(q, i)
          BY <4>8, PathEnds
        <5>4. (q \o <<i>>) \o <<x>> = q \o (<<i>> \o <<x>>)
          BY <5>3 DEF PortsBelow
        <5> QED
          BY <4>7, <5>1, <5>2, <5>4
      <4> QED
        BY <4>9
    <3> QED
      BY <2>1, <3>1, <3>2 DEF Edges, Alias!Edges
  <2>7. Refines(Edges(true, k), parts)
    <3> SUFFICES ASSUME NEW edge \in Edges(true, k) PROVE \E p \in parts : edge \subseteq p
      BY DEF Refines
    <3>1. PICK n \in nets : \A s \in edge : q \o s \in n
      BY <2>6
    <3>2. edge \subseteq Part(n) /\ Part(n) \in parts
      BY <2>2, <2>3, <3>1
    <3> QED
      BY <3>2
  <2>8. TrueRight(true, k)
    BY <2>1, TrueGroupsRight
  <2>9. Refines(true[k], parts)
    BY <2>5, <2>7, <2>8 DEF TrueRight
  <2>10. PICK p \in parts : g \subseteq p
    BY <2>1, <2>9 DEF Refines
  <2>11. PICK n \in nets : p = Part(n)
    BY <2>3
  <2> QED
    BY <2>1, <2>10, <2>11
<1>2. \A k \in Modules : (\A c \in 1 .. k - 1 : c \in S) => k \in S
  <2> HIDE DEF Within
  <2> QED
    BY <1>1
<1>3. Modules \subseteq S
  <2> HIDE DEF S
  <2> QED
    BY <1>2, Upward
<1> QED
  BY <1>3

------------------------------------------------------------------------------
\* Signals in one of the nets have the same.
LEMMA OneNet ==
    ASSUME NEW nets, Separate(nets), NEW net \in nets, NEW s \in net, NEW t \in net
    PROVE  NetIn(nets, s) = NetIn(nets, t)
<1>1. \A x \in net : \A o \in nets : x \in o => o = net
  BY DEF Separate
<1> QED
  BY <1>1 DEF NetIn

\* A view is a function: of what carries the coverage of signals (cover points and
\* port aliases) it tells the module, the signal that represents the others (rep),
\* the paths for which it carries them (act), and their list (signals).  A place
\* in the list of carrier c, seen along path p, is where target t may be found.
IsSpot(v, t, c, p, i) ==
    c \in DOMAIN v /\ p \in v[c].act /\ i \in 1 .. Len(v[c].signals) /\ v[c].signals[i] = t

\* f takes each of the paths of a target to the one place that its coverage is at.
TracedBy(f, v, t, ps, nets) ==
    /\ \A q \in ps : \E c, p, i : /\ f[q] = <<c, p, i>> /\ IsSpot(v, t, c, p, i)
                                  /\ NetIn(nets, p \o v[c].rep) = NetIn(nets, q \o t[2])
    /\ \A q, o \in ps : f[q] = f[o] => q = o
    /\ \A c, p, i : IsSpot(v, t, c, p, i) => \E q \in ps : f[q] = <<c, p, i>>

Traced(v, t, ps, nets) == \E f : TracedBy(f, v, t, ps, nets)

\* The path of instance x below the one at q.
Along(q, x) == q \o <<x>>

\* What carrier e has for the paths that end with instance x goes to carrier n,
\* which may be a new one.
OldSignals(v, n) == IF n \in DOMAIN v THEN v[n].signals ELSE <<>>

Moved(v, w, n, e, x) ==
    /\ e \in DOMAIN v /\ e /= n /\ DOMAIN w = DOMAIN v \cup {n}
    /\ \A c \in DOMAIN v \ {e, n} : w[c] = v[c]
    /\ w[e].rep = v[e].rep /\ w[e].signals = v[e].signals
    /\ \A p : p \in w[e].act <=> p \in v[e].act /\ ~\E q \in w[n].act : p = Along(q, x)
    /\ \A q \in w[n].act : Along(q, x) \in v[e].act /\ IsSeq(q)
    /\ w[n].signals = OldSignals(v, n) \o v[e].signals
    /\ n \in DOMAIN v => w[n].act = v[n].act /\ w[n].rep = v[n].rep

\* Nothing is lost or found twice by that.
LEMMA MovedTraced ==
    ASSUME NEW v, NEW w, NEW n, NEW e, NEW x, Moved(v, w, n, e, x),
           NEW S, OldSignals(v, n) \in Seq(S), v[e].signals \in Seq(S),
           NEW nets, \A q \in w[n].act : NetIn(nets, Along(q, x) \o v[e].rep) =
                                             NetIn(nets, q \o w[n].rep),
           NEW t, NEW ps, Traced(v, t, ps, nets)
    PROVE  Traced(w, t, ps, nets)
<1> DEFINE len == Len(OldSignals(v, n))
           A == w[n].act
           Goes(c, p) == c = e /\ \E r \in A : p = Along(r, x)
           Back(p) == CHOOSE r \in A : p = Along(r, x)
<1>1. len \in Nat /\ e /= n
  BY DEF Moved
<1>2. \A r, s \in A : Along(r, x) = Along(s, x) => r = s
  <2> SUFFICES ASSUME NEW r \in A, NEW s \in A, Along(r, x) = Along(s, x) PROVE r = s
    OBVIOUS
  <2>1. IsSeq(r) /\ IsSeq(s) /\ SamePath(r, x, s, x)
    BY DEF Moved, SamePath, Along
  <2> QED
    BY <2>1, PathEndsEqual
<1>3. \A r \in A : Back(Along(r, x)) = r
  BY <1>2
<1>4. ASSUME NEW p, NEW i, IsSpot(v, t, e, p, i), NEW r \in A, p = Along(r, x)
      PROVE  IsSpot(w, t, n, r, len + i) /\ i \in Nat \ {0}
  <2>1. PICK a, b : a = OldSignals(v, n) /\ b = v[e].signals
    OBVIOUS
  <2>2. a \in Seq(S) /\ b \in Seq(S) /\ i \in 1 .. Len(b) /\ b[i] = t /\ len = Len(a)
    BY <1>4, <2>1 DEF IsSpot
  <2>3. len + i \in 1 .. Len(a \o b) /\ (a \o b)[len + i] = t
    BY <2>2
  <2>4. w[n].signals = a \o b /\ n \in DOMAIN w
    BY <2>1 DEF Moved
  <2> QED
    BY <2>2, <2>3, <2>4 DEF IsSpot
<1>5. ASSUME NEW c, NEW p, NEW i, IsSpot(v, t, c, p, i), ~Goes(c, p)
      PROVE  IsSpot(w, t, c, p, i) /\ w[c].rep = v[c].rep /\ ~(c = n /\ i > len)
  <2>1. CASE c = n
    <3>1. PICK a, b : a = OldSignals(v, n) /\ b = v[e].signals
      OBVIOUS
    <3>2. a \in Seq(S) /\ b \in Seq(S) /\ i \in 1 .. Len(a) /\ a[i] = t /\ len = Len(a)
      BY <1>5, <2>1, <3>1 DEF IsSpot, OldSignals
    <3>3. i \in 1 .. Len(a \o b) /\ (a \o b)[i] = t
      BY <3>2
    <3>4. w[n].signals = a \o b /\ n \in DOMAIN w /\ w[n].act = v[n].act /\ w[n].rep = v[n].rep
      BY <1>5, <2>1, <3>1 DEF Moved, IsSpot
    <3> QED
      BY <1>5, <2>1, <3>2, <3>3, <3>4 DEF IsSpot
  <2>2. CASE c = e
    <3>1. /\ w[e].signals = v[e].signals /\ w[e].rep = v[e].rep /\ e \in DOMAIN w
          /\ p \in w[e].act <=> p \in v[e].act /\ ~\E q \in w[n].act : p = Along(q, x)
      BY DEF Moved
    <3> QED
      BY <1>1, <1>5, <2>2, <3>1 DEF IsSpot
  <2>3. CASE c \notin {e, n}
    <3>1. c \in DOMAIN v /\ w[c] = v[c] /\ c \in DOMAIN w
      BY <1>5, <2>3 DEF Moved, IsSpot
    <3> QED
      BY <1>5, <2>3, <3>1 DEF IsSpot
  <2> QED
    BY <2>1, <2>2, <2>3
<1>6. ASSUME NEW c, NEW p, NEW j, IsSpot(w, t, c, p, j)
      PROVE  \/ /\ c = n /\ p \in A
                /\ \E i \in Nat : j = len + i /\ IsSpot(v, t, e, Along(p, x), i)
             \/ IsSpot(v, t, c, p, j) /\ ~Goes(c, p)
  <2>1. CASE c = n
    <3>1. PICK a, b : a = OldSignals(v, n) /\ b = v[e].signals
      OBVIOUS
    <3>2. /\ a \in Seq(S) /\ b \in Seq(S) /\ j \in 1 .. Len(a \o b) /\ (a \o b)[j] = t
          /\ len = Len(a) /\ p \in A
      BY <1>6, <2>1, <3>1 DEF IsSpot, Moved
    <3>3. CASE j <= Len(a)
      <4>1. j \in 1 .. Len(a) /\ a[j] = t
        BY <3>2, <3>3
      <4>2. n \in DOMAIN v
        <5>1. a = <<>> => Len(a) = 0
          OBVIOUS
        <5> QED
          BY <3>1, <4>1, <5>1 DEF OldSignals
      <4>3. IsSpot(v, t, n, p, j)
        BY <3>1, <3>2, <4>1, <4>2 DEF IsSpot, OldSignals, Moved
      <4> QED
        BY <1>1, <2>1, <4>3
    <3>4. CASE ~(j <= Len(a))
      <4>1. PICK i \in 1 .. Len(b) : j = len + i
        <5>1. j - len \in 1 .. Len(b) /\ j = len + (j - len)
          BY <1>1, <3>2, <3>4
        <5> QED
          BY <5>1
      <4>2. b[i] = t /\ i \in Nat
        BY <3>2, <4>1
      <4>3. Along(p, x) \in v[e].act /\ e \in DOMAIN v
        BY <3>2 DEF Moved
      <4>4. IsSpot(v, t, e, Along(p, x), i)
        BY <3>1, <4>1, <4>2, <4>3 DEF IsSpot
      <4> QED
        BY <2>1, <3>2, <4>1, <4>2, <4>4
    <3>5. j \in Nat /\ Len(a) \in Nat
      BY <3>2
    <3> QED
      BY <3>3, <3>4
  <2>2. CASE c = e
    <3>1. /\ w[e].signals = v[e].signals /\ e \in DOMAIN v
          /\ p \in w[e].act <=> p \in v[e].act /\ ~\E q \in w[n].act : p = Along(q, x)
      BY DEF Moved
    <3> QED
      BY <1>6, <2>2, <3>1 DEF IsSpot
  <2>3. CASE c \notin {e, n}
    <3>1. c \in DOMAIN v /\ w[c] = v[c]
      BY <1>6, <2>3 DEF Moved, IsSpot
    <3> QED
      BY <1>6, <2>3, <3>1 DEF IsSpot
  <2> QED
    BY <2>1, <2>2, <2>3
<1>7. PICK f : TracedBy(f, v, t, ps, nets)
  BY DEF Traced
<1> DEFINE g == [q \in ps |-> IF Goes(f[q][1], f[q][2])
                              THEN <<n, Back(f[q][2]), len + f[q][3]>> ELSE f[q]]
<1>8. ASSUME NEW q \in ps, NEW c, NEW p, NEW i, f[q] = <<c, p, i>>
      PROVE  /\ \A r \in A : c = e /\ p = Along(r, x) => g[q] = <<n, r, len + i>>
             /\ ~Goes(c, p) => g[q] = <<c, p, i>>
  <2>0. f[q][1] = c /\ f[q][2] = p /\ f[q][3] = i
    BY <1>8
  <2>1. g[q] = IF Goes(c, p) THEN <<n, Back(p), len + i>> ELSE <<c, p, i>>
    <3> HIDE DEF Back, len, A
    <3> QED
      BY <1>8, <2>0
  <2> HIDE DEF g, Back
  <2> QED
    BY <1>3, <2>1
<1> HIDE DEF g, Back, len, A
<1>9. ASSUME NEW q \in ps
      PROVE  \E c, p, i : /\ g[q] = <<c, p, i>> /\ IsSpot(w, t, c, p, i)
                          /\ NetIn(nets, p \o w[c].rep) = NetIn(nets, q \o t[2])
  <2>1. PICK c, p, i : /\ f[q] = <<c, p, i>> /\ IsSpot(v, t, c, p, i)
                       /\ NetIn(nets, p \o v[c].rep) = NetIn(nets, q \o t[2])
    BY <1>7 DEF TracedBy
  <2>2. CASE Goes(c, p)
    <3>1. PICK r \in A : c = e /\ p = Along(r, x)
      BY <2>2
    <3>2. g[q] = <<n, r, len + i>> /\ IsSpot(w, t, n, r, len + i)
      BY <1>4, <1>8, <2>1, <3>1
    <3>3. NetIn(nets, r \o w[n].rep) = NetIn(nets, q \o t[2])
      BY <2>1, <3>1 DEF A
    <3> QED
      BY <3>2, <3>3
  <2>3. CASE ~Goes(c, p)
    <3>1. g[q] = <<c, p, i>> /\ IsSpot(w, t, c, p, i) /\ w[c].rep = v[c].rep
      BY <1>5, <1>8, <2>1, <2>3
    <3> QED
      BY <2>1, <3>1
  <2> QED
    BY <2>2, <2>3
<1>10. ASSUME NEW q \in ps, NEW o \in ps, g[q] = g[o] PROVE q = o
  <2>1. PICK c, p, i : f[q] = <<c, p, i>> /\ IsSpot(v, t, c, p, i)
    BY <1>7 DEF TracedBy
  <2>2. PICK d, s, j : f[o] = <<d, s, j>> /\ IsSpot(v, t, d, s, j)
    BY <1>7 DEF TracedBy
  <2>3. i \in Nat \ {0} /\ j \in Nat \ {0}
    BY <2>1, <2>2 DEF IsSpot
  <2>4. f[q] = f[o]
    <3>1. CASE Goes(c, p) /\ Goes(d, s)
      <4>1. PICK r \in A : c = e /\ p = Along(r, x)
        BY <3>1
      <4>2. PICK u \in A : d = e /\ s = Along(u, x)
        BY <3>1
      <4>3. g[q] = <<n, r, len + i>> /\ g[o] = <<n, u, len + j>>
        BY <1>8, <2>1, <2>2, <4>1, <4>2
      <4>4. <<n, r, len + i>> = <<n, u, len + j>>
        BY <1>10, <4>3
      <4>5. r = u /\ len + i = len + j
        BY <4>4
      <4>6. i = j
        BY <1>1, <2>3, <4>5
      <4> QED
        BY <2>1, <2>2, <4>1, <4>2, <4>5, <4>6
    <3>2. CASE Goes(c, p) /\ ~Goes(d, s)
      <4>1. PICK r \in A : c = e /\ p = Along(r, x)
        BY <3>2
      <4>2. g[q] = <<n, r, len + i>> /\ g[o] = <<d, s, j>>
        BY <1>8, <2>1, <2>2, <3>2, <4>1
      <4>3. d = n /\ j = len + i
        <5>1. <<n, r, len + i>> = <<d, s, j>>
          BY <1>10, <4>2
        <5> QED
          BY <5>1
      <4>4. j > len
        BY <1>1, <2>3, <4>3
      <4> QED
        BY <1>5, <2>2, <3>2, <4>3, <4>4
    <3>3. CASE ~Goes(c, p) /\ Goes(d, s)
      <4>1. PICK r \in A : d = e /\ s = Along(r, x)
        BY <3>3
      <4>2. g[o] = <<n, r, len + j>> /\ g[q] = <<c, p, i>>
        BY <1>8, <2>1, <2>2, <3>3, <4>1
      <4>3. c = n /\ i = len + j
        BY <1>10, <4>2
      <4>4. i > len
        BY <1>1, <2>3, <4>3
      <4> QED
        BY <1>5, <2>1, <3>3, <4>3, <4>4
    <3>4. CASE ~Goes(c, p) /\ ~Goes(d, s)
      <4>1. g[q] = <<c, p, i>> /\ g[o] = <<d, s, j>>
        BY <1>8, <2>1, <2>2, <3>4
      <4> QED
        BY <1>10, <2>1, <2>2, <4>1
    <3> QED
      BY <3>1, <3>2, <3>3, <3>4
  <2> QED
    BY <1>7, <2>4 DEF TracedBy
<1>11. ASSUME NEW c, NEW p, NEW j, IsSpot(w, t, c, p, j)
       PROVE  \E q \in ps : g[q] = <<c, p, j>>
  <2>1. CASE /\ c = n /\ p \in A
             /\ \E i \in Nat : j = len + i /\ IsSpot(v, t, e, Along(p, x), i)
    <3>1. PICK i \in Nat : j = len + i /\ IsSpot(v, t, e, Along(p, x), i)
      BY <2>1
    <3>2. PICK s : s = Along(p, x)
      OBVIOUS
    <3>3. PICK q \in ps : f[q] = <<e, s, i>>
      BY <1>7, <3>1, <3>2 DEF TracedBy
    <3>4. g[q] = <<n, p, len + i>>
      BY <1>8, <2>1, <3>2, <3>3
    <3> QED
      BY <2>1, <3>1, <3>4
  <2>2. CASE IsSpot(v, t, c, p, j) /\ ~Goes(c, p)
    <3>1. PICK q \in ps : f[q] = <<c, p, j>>
      BY <1>7, <2>2 DEF TracedBy
    <3> QED
      BY <1>8, <2>2, <3>1
  <2> QED
    BY <1>6, <1>11, <2>1, <2>2
<1>12. TracedBy(g, w, t, ps, nets)
  BY <1>9, <1>10, <1>11 DEF TracedBy
<1> QED
  BY <1>12 DEF Traced
------------------------------------------------------------------------------
\* The paths of module k for which a port of it still has to be resolved, when the
\* instances js of module m are the next ones.
Left(k, m, js) ==
    {q \in Paths[k] : \E p, i, r : EndsWith(k, q, p, i, r) /\ (p > m \/ (p = m /\ i \in js))}

\* All of them, before the first module above has been looked at.
LEMMA LeftAll ==
    ASSUME design \in Designs, NEW k \in Modules, k /= Main, NEW m \in Nat, m <= k, NEW js
    PROVE  Left(k, m, js) = Paths[k]
<1>1. ASSUME NEW q \in Paths[k] PROVE q \in Left(k, m, js)
  <2>1. PICK p, i, r : EndsWith(k, q, p, i, r)
    BY PathLast
  <2>2. p > m
    BY <2>1, DesignShape DEF EndsWith
  <2> QED
    BY <2>1, <2>2 DEF Left
<1> QED
  BY <1>1 DEF Left

\* None, in the end.
LEMMA LeftNone ==
    ASSUME design \in Designs, NEW k \in Modules
    PROVE  Left(k, Main, {}) = {}
<1> SUFFICES ASSUME NEW q \in Left(k, Main, {}) PROVE FALSE
  OBVIOUS
<1>1. PICK p, i, r : EndsWith(k, q, p, i, r) /\ p > Main
  BY DEF Left
<1> QED
  BY <1>1, DesignShape DEF EndsWith

\* The next module.
LEMMA LeftNext ==
    ASSUME design \in Designs, NEW k \in Modules, NEW m \in Nat
    PROVE  Left(k, m, {}) = Left(k, m + 1, DOMAIN design[m + 1].instances)
<1>1. PICK n : n = m + 1
  OBVIOUS
<1>2. ASSUME NEW q, NEW p, NEW i, NEW r, EndsWith(k, q, p, i, r)
      PROVE  p > m <=> p > n \/ (p = n /\ i \in DOMAIN design[n].instances)
  <2>1. p \in Nat /\ i \in DOMAIN design[p].instances
    BY <1>2, DesignShape DEF EndsWith
  <2>2. p > m <=> p > n \/ p = n
    BY <1>1, <2>1
  <2> QED
    BY <2>1, <2>2
<1>3. ASSUME NEW q \in Paths[k]
      PROVE  q \in Left(k, m, {}) <=> q \in Left(k, n, DOMAIN design[n].instances)
  BY <1>2 DEF Left
<1>4. Left(k, m, {}) = Left(k, n, DOMAIN design[n].instances)
  BY <1>3 DEF Left
<1> QED
  BY <1>1, <1>4

\* The paths of its instance x.
Steps(m, x) == {Along(q, x) : q \in Paths[m]}

\* The next instance.
LEMMA LeftLess ==
    ASSUME design \in Designs, NEW m \in Modules, NEW x \in DOMAIN design[m].instances,
           NEW js, x \in js, NEW k \in Modules
    PROVE  /\ k = design[m].instances[x] =>
                  /\ \A q \in Paths[m] : Along(q, x) \in Left(k, m, js)
                  /\ Left(k, m, js \ {x}) = Left(k, m, js) \ Steps(m, x)
           /\ k /= design[m].instances[x] => Left(k, m, js \ {x}) = Left(k, m, js)
<1>1. ASSUME k = design[m].instances[x], NEW q \in Paths[m]
      PROVE  EndsWith(k, Along(q, x), m, x, q) /\ Along(q, x) \in Left(k, m, js)
  <2>1. Along(q, x) \in Paths[k] /\ m > k
    BY <1>1, PathNext, DesignShape DEF Along
  <2>2. EndsWith(k, Along(q, x), m, x, q)
    BY <1>1, <2>1 DEF EndsWith, Along
  <2> QED
    BY <2>1, <2>2 DEF Left
<1>2. ASSUME k = design[m].instances[x], NEW q \in Paths[m],
             Along(q, x) \in Left(k, m, js \ {x})
      PROVE  FALSE
  <2>1. PICK p, i, r : EndsWith(k, Along(q, x), p, i, r) /\ (p > m \/ (p = m /\ i /= x))
    BY <1>2 DEF Left
  <2>2. p \in Modules /\ r \in Paths[p] /\ SamePath(q, x, r, i)
    BY <2>1 DEF EndsWith, SamePath, Along
  <2>3. IsSeq(q) /\ IsSeq(r)
    BY <2>2, PathsApart
  <2>4. q = r /\ x = i
    BY <2>2, <2>3, PathEndsEqual
  <2>5. p = m
    BY <2>2, <2>4, PathsApart
  <2> QED
    BY <2>1, <2>4, <2>5, DesignShape
<1>3. ASSUME NEW q \in Left(k, m, js), q \notin Left(k, m, js \ {x})
      PROVE  k = design[m].instances[x] /\ \E r \in Paths[m] : q = Along(r, x)
  <2>1. PICK p, i, r : EndsWith(k, q, p, i, r) /\ (p > m \/ (p = m /\ i \in js))
    BY <1>3 DEF Left
  <2>2. q \in Paths[k]
    BY <1>3 DEF Left
  <2>3. p = m /\ i = x
    BY <1>3, <2>1, <2>2 DEF Left
  <2> QED
    BY <2>1, <2>3 DEF EndsWith, Along
<1>4. Left(k, m, js \ {x}) \subseteq Left(k, m, js)
  BY DEF Left
<1>5. ASSUME k = design[m].instances[x]
      PROVE  Left(k, m, js \ {x}) = Left(k, m, js) \ Steps(m, x)
  <2>1. PICK a, b, A : /\ a = Left(k, m, js \ {x}) /\ b = Left(k, m, js)
                       /\ A = Steps(m, x)
    OBVIOUS
  <2>2. a \subseteq b /\ a \cap A = {}
    BY <1>2, <1>4, <1>5, <2>1 DEF Steps
  <2>3. \A q \in b : q \notin a => q \in A
    BY <1>3, <2>1 DEF Steps
  <2> QED
    BY <2>1, <2>2, <2>3
<1>6. ASSUME k /= design[m].instances[x]
      PROVE  Left(k, m, js \ {x}) = Left(k, m, js)
  BY <1>3, <1>4, <1>6
<1> QED
  BY <1>1, <1>5, <1>6

\* The paths of the other modules are not concerned.
LEMMA LeftOthers ==
    ASSUME design \in Designs, NEW m \in Modules, NEW x \in DOMAIN design[m].instances,
           NEW js, x \in js
    PROVE  \A k \in Modules : k /= design[m].instances[x] =>
               Left(k, m, js \ {x}) = Left(k, m, js)
BY LeftLess
------------------------------------------------------------------------------
\* Lists get new heads: their elements are counted from the end.
FromEnd(list, y) == list[Len(list) - y + 1]

\* The list new is old with x as its new head.
NewFirst(old, new, x) ==
    /\ Len(new) = Len(old) + 1 /\ \A y : y = Len(old) + 1 => FromEnd(new, y) = x
    /\ \A y \in 1 .. Len(old) : FromEnd(new, y) = FromEnd(old, y)

\* It is, when x is put first.
LEMMA FromEndFirst ==
    ASSUME NEW S, NEW l \in Seq(S), NEW x \in S, NEW new, new = <<x>> \o l
    PROVE  NewFirst(l, new, x) /\ new \in Seq(S)
<1>1. PICK f : f = <<x>>
  OBVIOUS
<1>2. f \in Seq(S) /\ Len(f) = 1 /\ f[1] = x
  BY <1>1
<1>3. new = f \o l
  BY <1>1
<1>4. new \in Seq(S) /\ Len(new) = Len(l) + 1 /\ new[1] = x /\ Len(l) \in Nat
  BY <1>2, <1>3
<1>5. \A i \in 1 .. Len(l) : new[i + 1] = l[i]
  BY <1>2, <1>3
<1>6. ASSUME NEW y, y = Len(l) + 1 PROVE FromEnd(new, y) = x
  <2>1. Len(new) - y + 1 = 1
    BY <1>4, <1>6
  <2> QED
    BY <1>4, <2>1 DEF FromEnd
<1>7. ASSUME NEW y \in 1 .. Len(l) PROVE FromEnd(new, y) = FromEnd(l, y)
  <2>0. Len(l) - y + 1 \in 1 .. Len(l)
    BY <1>4
  <2>1. PICK i \in 1 .. Len(l) : i = Len(l) - y + 1
    BY <2>0
  <2>2. Len(new) - y + 1 = i + 1
    BY <1>4, <2>1
  <2> QED
    BY <1>5, <2>1, <2>2 DEF FromEnd
<1> QED
  BY <1>4, <1>6, <1>7 DEF NewFirst

\* What a carrier shows of a cover point, and of a port that is moved up.
ShowsAnno(r, a) ==
    r.mod = a.mod /\ r.rep = a.sampled /\ r.act = Paths[a.mod] /\ r.signals = a.signals

ShowsEntry(r, k, e) == r.mod = k /\ r.rep = e[1] /\ r.signals = e[2]

\* The view of a list of cover points and of those of the ports moved up.
IsView(v, an, al) ==
    /\ \A c : c \in DOMAIN v <=> \/ \E y \in 1 .. Len(an) : c = <<0, y>>
                                 \/ \E k \in Modules : \E y \in 1 .. Len(al[k]) : c = <<k, y>>
    /\ \A y \in 1 .. Len(an) : ShowsAnno(v[<<0, y>>], FromEnd(an, y))
    /\ \A k \in Modules : \A y \in 1 .. Len(al[k]) : ShowsEntry(v[<<k, y>>], k, FromEnd(al[k], y))

\* A carrier stands for covered signals of its module or of those below.
Known(v, ts) ==
    \A c \in DOMAIN v :
        /\ v[c].mod \in Modules /\ v[c].signals \in Seq(Targeted)
        /\ \A t \in ToSet(v[c].signals) : t \in ts /\ t[1] <= v[c].mod

\* Those of its module are connected to the one that represents them.
Represented(v) ==
    \A c \in DOMAIN v : \A s : <<v[c].mod, s>> \in ToSet(v[c].signals) =>
        \A q \in Paths[v[c].mod] : NetIn(Nets, q \o s) = NetIn(Nets, q \o v[c].rep)

\* No other carrier of that module stands for them.
OneCarrier(v) ==
    \A c, d \in DOMAIN v : \A s :
        /\ v[c].mod = v[d].mod
        /\ <<v[c].mod, s>> \in ToSet(v[c].signals) /\ <<v[c].mod, s>> \in ToSet(v[d].signals)
        => c = d

\* Nothing that is covered has been lost or is found twice.
Whole(v, ts) ==
    /\ Known(v, ts) /\ Represented(v) /\ OneCarrier(v)
    /\ \A t \in ts : Traced(v, t, Paths[t[1]], Nets)

\* Signals, seen along paths, that are connected.
SameNet(p, s, q, t) == NetIn(Nets, p \o s) = NetIn(Nets, q \o t)

\* What a carrier for a module below has goes to one of module m.
LEMMA MovedWhole ==
    ASSUME design \in Designs, NEW ts, NEW v, Whole(v, ts),
           NEW w, NEW n, NEW e, NEW x, Moved(v, w, n, e, x),
           NEW m \in Modules, w[n].mod = m, v[e].mod < m,
           \A c \in DOMAIN v : w[c].mod = v[c].mod,
           \A q \in w[n].act : SameNet(Along(q, x), v[e].rep, q, w[n].rep)
    PROVE  Whole(w, ts)
<1>1. /\ v[e].signals \in Seq(Targeted) /\ v[e].mod \in Modules
      /\ \A t \in ToSet(v[e].signals) : t \in ts /\ t[1] <= v[e].mod
  BY DEF Moved, Whole, Known
<1>2. Modules = 1 .. Main /\ Main \in Nat
  BY DesignShape
<1>3. PICK old : old = OldSignals(v, n)
  OBVIOUS
<1>4. old \in Seq(Targeted) /\ \A t \in ToSet(old) : n \in DOMAIN v /\ t \in ToSet(v[n].signals)
  <2>1. CASE n \in DOMAIN v
    BY <1>3, <2>1 DEF OldSignals, Whole, Known
  <2>2. CASE n \notin DOMAIN v
    <3>1. old = <<>> /\ ToSet(<<>>) = {}
      BY <1>3, <2>2 DEF OldSignals, ToSet
    <3> QED
      BY <3>1
  <2> QED
    BY <2>1, <2>2
<1>5. w[n].signals \in Seq(Targeted) /\ ToSet(w[n].signals) = ToSet(old) \cup ToSet(v[e].signals)
  <2>1. PICK b \in Seq(Targeted) : b = v[e].signals
    BY <1>1
  <2>2. Joined(Targeted, old, b)
    BY <1>4, ToSetConcat
  <2>3. w[n].signals = old \o b
    BY <1>3, <2>1 DEF Moved
  <2> QED
    BY <2>1, <2>2, <2>3 DEF Joined
<1>6. ASSUME NEW c \in DOMAIN w, c /= n
      PROVE  c \in DOMAIN v /\ w[c].signals = v[c].signals /\ w[c].rep = v[c].rep
  BY <1>6 DEF Moved
<1>7. n \in DOMAIN v => w[n].rep = v[n].rep
  BY DEF Moved
<1>8. ASSUME NEW c \in DOMAIN w, NEW s, <<w[c].mod, s>> \in ToSet(w[c].signals)
      PROVE  /\ c \in DOMAIN v /\ v[c].mod = w[c].mod /\ v[c].rep = w[c].rep
             /\ <<v[c].mod, s>> \in ToSet(v[c].signals)
  <2>1. CASE c = n
    <3>1. PICK t : t = <<m, s>> /\ t \in ToSet(w[n].signals) /\ t[1] = m
      BY <1>8, <2>1
    <3>2. t \notin ToSet(v[e].signals)
      BY <1>1, <1>2, <3>1
    <3>3. t \in ToSet(old)
      BY <1>5, <3>1, <3>2
    <3> QED
      BY <1>4, <1>7, <2>1, <3>1, <3>3
  <2>2. CASE c /= n
    BY <1>6, <1>8, <2>2
  <2> QED
    BY <2>1, <2>2
<1>9. Known(w, ts)
  <2> SUFFICES ASSUME NEW c \in DOMAIN w
               PROVE  /\ w[c].mod \in Modules /\ w[c].signals \in Seq(Targeted)
                      /\ \A t \in ToSet(w[c].signals) : t \in ts /\ t[1] <= w[c].mod
    BY DEF Known
  <2>1. CASE c = n
    <3>1. ASSUME NEW t \in ToSet(w[n].signals) PROVE t \in ts /\ t[1] <= m
      <4>1. CASE t \in ToSet(old)
        <5>1. n \in DOMAIN v /\ t \in ToSet(v[n].signals) /\ v[n].mod = m
          BY <1>4, <4>1
        <5> QED
          BY <5>1 DEF Whole, Known
      <4>2. CASE t \in ToSet(v[e].signals)
        <5>1. t \in ts /\ t[1] <= v[e].mod
          BY <1>1, <4>2
        <5>2. t[1] \in Nat
          <6>1. \E i \in DOMAIN v[e].signals : t = v[e].signals[i]
            BY <4>2 DEF ToSet
          <6>2. t \in Targeted
            BY <1>1, <6>1
          <6> QED
            BY <1>2, <6>2 DEF Targeted
        <5> QED
          BY <1>1, <1>2, <5>1, <5>2
      <4> QED
        BY <1>5, <3>1, <4>1, <4>2
    <3> QED
      BY <1>5, <2>1, <3>1
  <2>2. CASE c /= n
    <3>1. c \in DOMAIN v /\ w[c].signals = v[c].signals /\ w[c].mod = v[c].mod
      BY <1>6, <2>2
    <3> QED
      BY <3>1 DEF Whole, Known
  <2> QED
    BY <2>1, <2>2
<1>10. Represented(w)
  <2> SUFFICES ASSUME NEW c \in DOMAIN w, NEW s, <<w[c].mod, s>> \in ToSet(w[c].signals),
                      NEW q \in Paths[w[c].mod]
               PROVE  NetIn(Nets, q \o s) = NetIn(Nets, q \o w[c].rep)
    BY DEF Represented
  <2>1. /\ c \in DOMAIN v /\ v[c].mod = w[c].mod /\ v[c].rep = w[c].rep
        /\ <<v[c].mod, s>> \in ToSet(v[c].signals)
    BY <1>8
  <2>2. NetIn(Nets, q \o s) = NetIn(Nets, q \o v[c].rep)
    BY <2>1 DEF Whole, Represented
  <2> QED
    BY <2>1, <2>2
<1>11. OneCarrier(w)
  <2> SUFFICES ASSUME NEW c \in DOMAIN w, NEW d \in DOMAIN w, NEW s, w[c].mod = w[d].mod,
                      <<w[c].mod, s>> \in ToSet(w[c].signals),
                      <<w[c].mod, s>> \in ToSet(w[d].signals)
               PROVE  c = d
    BY DEF OneCarrier
  <2>1. c \in DOMAIN v /\ v[c].mod = w[c].mod /\ <<v[c].mod, s>> \in ToSet(v[c].signals)
    BY <1>8
  <2>2. d \in DOMAIN v /\ v[d].mod = w[d].mod /\ <<v[d].mod, s>> \in ToSet(v[d].signals)
    BY <1>8
  <2> QED
    BY <2>1, <2>2 DEF Whole, OneCarrier
<1>12. ASSUME NEW t \in ts PROVE Traced(w, t, Paths[t[1]], Nets)
  <2>1. PICK nets, ps : nets = Nets /\ ps = Paths[t[1]]
    OBVIOUS
  <2>2. Traced(v, t, ps, nets)
    BY <2>1 DEF Whole
  <2>3. \A q \in w[n].act : NetIn(nets, Along(q, x) \o v[e].rep) = NetIn(nets, q \o w[n].rep)
    BY <2>1 DEF SameNet
  <2>4. OldSignals(v, n) \in Seq(Targeted)
    BY <1>3, <1>4
  <2>5. Traced(w, t, ps, nets)
    BY <1>1, <2>2, <2>3, <2>4, MovedTraced
  <2> QED
    BY <2>1, <2>5
<1> QED
  BY <1>9, <1>10, <1>11, <1>12 DEF Whole

\* The view after such a step.
MoveTo(v, n, e, x, m, r) ==
    [c \in DOMAIN v \cup {n} |->
        IF c = n THEN [mod |-> m, rep |-> r, act |-> Paths[m],
                       signals |-> OldSignals(v, n) \o v[e].signals]
        ELSE IF c = e THEN [mod |-> v[e].mod, rep |-> v[e].rep, signals |-> v[e].signals,
                            act |-> v[e].act \ Steps(m, x)]
        ELSE v[c]]

\* Carrier n can take over what e has for instance x of module m.
CanMove(v, n, e, x, m, r) ==
    /\ m \in Modules /\ e \in DOMAIN v /\ n /= e
    /\ \A q \in Paths[m] : Along(q, x) \in v[e].act
    /\ n \in DOMAIN v => v[n].mod = m /\ v[n].rep = r /\ v[n].act = Paths[m]

\* Then this is the step that Moved describes.
LEMMA MoveToMoved ==
    ASSUME design \in Designs, NEW m, NEW v, NEW e, NEW n, NEW x, NEW r,
           CanMove(v, n, e, x, m, r), NEW w, w = MoveTo(v, n, e, x, m, r)
    PROVE  /\ Moved(v, w, n, e, x) /\ \A c \in DOMAIN v : w[c].mod = v[c].mod
           /\ w[n].mod = m /\ w[n].rep = r /\ w[n].act = Paths[m]
           /\ w[e].act = v[e].act \ Steps(m, x)
<1> USE DEF CanMove
<1>1. PICK A, sum : /\ A = Steps(m, x)
                    /\ sum = OldSignals(v, n) \o v[e].signals
  OBVIOUS
<1>2. DOMAIN w = DOMAIN v \cup {n}
  BY DEF MoveTo
<1>3. w[n] = [mod |-> m, rep |-> r, act |-> Paths[m], signals |-> sum]
  BY <1>1 DEF MoveTo
<1>4. w[e] = [mod |-> v[e].mod, rep |-> v[e].rep, signals |-> v[e].signals,
              act |-> v[e].act \ A]
  BY <1>1 DEF MoveTo
<1>5. \A c \in DOMAIN v \ {e, n} : w[c] = v[c]
  BY DEF MoveTo
<1>6. \A q \in Paths[m] : IsSeq(q)
  BY PathsApart
<1>7. \A p : p \in A <=> \E q \in Paths[m] : p = Along(q, x)
  BY <1>1 DEF Steps
<1>8. Moved(v, w, n, e, x)
  <2>1. w[n].act = Paths[m] /\ w[n].rep = r /\ w[n].signals = sum
    BY <1>3
  <2>2. w[e].rep = v[e].rep /\ w[e].signals = v[e].signals /\ w[e].act = v[e].act \ A
    BY <1>4
  <2>3. \A p : p \in w[e].act <=> p \in v[e].act /\ ~\E q \in w[n].act : p = Along(q, x)
    BY <1>7, <2>1, <2>2
  <2> QED
    BY <1>1, <1>2, <1>5, <1>6, <2>1, <2>2, <2>3 DEF Moved
<1>9. ASSUME NEW c \in DOMAIN v PROVE w[c].mod = v[c].mod
  <2>1. CASE c = n
    BY <1>3, <2>1
  <2>2. CASE c = e
    BY <1>4, <2>2
  <2>3. CASE c \notin {e, n}
    BY <1>5, <2>3
  <2> QED
    BY <2>1, <2>2, <2>3
<1> QED
  BY <1>1, <1>3, <1>4, <1>8, <1>9
------------------------------------------------------------------------------
\* The entries of the module, whose instances are being resolved, so far.
AliasesWith(up) == [aliases EXCEPT ![mod] = up]

\* What is known when instance x, one of those in js, is resolved.
AtInstance(x, js) ==
    /\ design \in Designs /\ mod \in Modules /\ x \in DOMAIN design[mod].instances /\ x \in js
    /\ annos \in Seq(Annotations) /\ aliases \in [Modules -> Seq(Entries)]
    /\ \A k \in Modules : \A e \in ToSet(aliases[k]) : e[1] \in design[k].ports /\ k /= Main

\* The module of that instance.
Below(x) == design[mod].instances[x]

\* The first z of its entries, counted from the end, are still to be resolved.
Halfway(v, al, x, js, z) ==
    \A k \in Modules : \A y \in 1 .. Len(al[k]) :
        v[<<k, y>>].act = IF k = Below(x) /\ y > z THEN Left(k, mod, js \ {x})
                                                   ELSE Left(k, mod, js)

\* A view of what has been reached by then.
Between(v, s, x, js, z, ts) ==
    /\ IsView(v, s.annos, AliasesWith(s.up)) /\ Halfway(v, AliasesWith(s.up), x, js, z)
    /\ Whole(v, ts)

\* The port of instance x that entry e is about.
Port(x, e) == <<x>> \o e[1]

\* An entry of the instance, and the carrier that has it.
LEMMA EntryCarried ==
    ASSUME NEW x, NEW js, AtInstance(x, js), NEW s, Going(s), NEW v, NEW ts,
           NEW z \in 1 .. Len(aliases[Below(x)]), Between(v, s, x, js, z, ts)
    PROVE  /\ Below(x) \in Modules /\ Below(x) \in 1 .. mod - 1 /\ Below(x) /= mod
           /\ AliasesWith(s.up) \in [Modules -> Seq(Entries)] /\ AliasesWith(s.up)[mod] = s.up
           /\ \A k \in Modules : k /= mod => AliasesWith(s.up)[k] = aliases[k]
           /\ <<Below(x), z>> \in DOMAIN v
           /\ ShowsEntry(v[<<Below(x), z>>], Below(x), FromEnd(aliases[Below(x)], z))
           /\ v[<<Below(x), z>>].act = Left(Below(x), mod, js)
           /\ \E b : FromEnd(aliases[Below(x)], z)[1] = <<b>>
<1>1. PICK m, c : m = mod /\ c = Below(x)
  OBVIOUS
<1>2. /\ design \in Designs /\ m \in Modules /\ x \in DOMAIN design[m].instances
      /\ aliases \in [Modules -> Seq(Entries)] /\ c = design[m].instances[x]
  BY <1>1 DEF AtInstance, Below
<1>3. c \in Modules /\ c \in 1 .. m - 1 /\ Modules = 1 .. Main /\ Main \in Nat
  BY <1>2, DesignShape
<1>4. c /= m
  BY <1>2, <1>3
<1>5. s.up \in Seq(Entries)
  BY DEF Going
<1>6. PICK al : al = AliasesWith(s.up)
  OBVIOUS
<1>7. /\ al \in [Modules -> Seq(Entries)] /\ al[m] = s.up
      /\ \A k \in Modules : k /= m => al[k] = aliases[k]
  BY <1>1, <1>2, <1>5, <1>6 DEF AliasesWith
<1>8. z \in 1 .. Len(al[c])
  BY <1>1, <1>3, <1>4, <1>7
<1>9. <<c, z>> \in DOMAIN v /\ ShowsEntry(v[<<c, z>>], c, FromEnd(al[c], z))
  BY <1>3, <1>6, <1>8 DEF Between, IsView
<1>10. v[<<c, z>>].act = Left(c, m, js)
  <2>1. z \in Nat /\ ~(z > z)
    BY <1>8, SMTT(30)
  <2> QED
    BY <1>1, <1>3, <1>6, <1>8, <2>1 DEF Between, Halfway
<1>11. \E b : FromEnd(aliases[c], z)[1] = <<b>>
  <2>1. PICK l \in Seq(Entries) : l = aliases[c]
    BY <1>2, <1>3
  <2>2. Len(l) - z + 1 \in 1 .. Len(l) /\ DOMAIN l = 1 .. Len(l)
    BY <1>1, <2>1
  <2>3. FromEnd(l, z) \in ToSet(l)
    BY <2>2 DEF ToSet, FromEnd
  <2>4. FromEnd(l, z)[1] \in design[c].ports
    BY <1>3, <2>1, <2>3 DEF AtInstance
  <2> QED
    BY <1>2, <1>3, <2>1, <2>4, DesignShape DEF FiniteModule
<1> QED
  BY <1>1, <1>3, <1>4, <1>6, <1>7, <1>9, <1>10, <1>11

\* Port b of instance x.
IsPort(port, x, b) == port = <<x>> \o <<b>>

\* It is connected to what represents it in the module.
LEMMA PortCarried ==
    ASSUME design \in Designs, NEW m \in Modules, NEW ts, NEW v, Whole(v, ts),
           NEW d \in DOMAIN v, v[d].mod = m, NEW x, NEW b, NEW port, IsPort(port, x, b),
           <<m, port>> \in ToSet(v[d].signals), NEW q \in Paths[m]
    PROVE  SameNet(Along(q, x), <<b>>, q, v[d].rep)
<1>1. IsSeq(q)
  BY PathsApart
<1>2. PortsBelow(q, x)
  BY <1>1, PathEnds
<1>3. Along(q, x) \o <<b>> = q \o port
  BY <1>2 DEF PortsBelow, Along, IsPort
<1>4. NetIn(Nets, q \o port) = NetIn(Nets, q \o v[d].rep)
  BY DEF Whole, Represented
<1> QED
  BY <1>3, <1>4 DEF SameNet

\* What a port alias stands for goes to the cover point that samples the port.
LEMMA PortSampled ==
    ASSUME NEW x, NEW js, AtInstance(x, js), NEW s, Going(s), NEW v, NEW ts,
           NEW z \in 1 .. Len(aliases[Below(x)]), Between(v, s, x, js, z, ts),
           NEW e, e = FromEnd(aliases[Below(x)], z), NEW port, port = Port(x, e),
           Sampled(s.annos, port), ~Lost(port)
    PROVE  \E w : Between(w, ResolvePort(port, e[2], s), x, js, z - 1, ts)
<1>1. PICK m, c, an, al, E : /\ m = mod /\ c = Below(x) /\ an = s.annos
                             /\ al = AliasesWith(s.up) /\ E = <<c, z>>
  OBVIOUS
<1>2. /\ design \in Designs /\ m \in Modules /\ x \in DOMAIN design[m].instances /\ x \in js
      /\ c = design[m].instances[x] /\ aliases[mod] \in Seq(Entries) /\ annos \in Seq(Annotations)
  BY <1>1 DEF AtInstance, Below
<1>3. Modules = 1 .. Main /\ Main \in Nat /\ 0 \notin Modules
  BY <1>2, DesignShape
<1>0. /\ Below(x) \in Modules /\ Below(x) \in 1 .. mod - 1 /\ Below(x) /= mod
      /\ AliasesWith(s.up) \in [Modules -> Seq(Entries)] /\ AliasesWith(s.up)[mod] = s.up
      /\ \A k \in Modules : k /= mod => AliasesWith(s.up)[k] = aliases[k]
      /\ <<Below(x), z>> \in DOMAIN v
      /\ ShowsEntry(v[<<Below(x), z>>], Below(x), FromEnd(aliases[Below(x)], z))
      /\ v[<<Below(x), z>>].act = Left(Below(x), mod, js)
      /\ \E b : FromEnd(aliases[Below(x)], z)[1] = <<b>>
  BY EntryCarried
<1>4. /\ c \in Modules /\ c \in 1 .. m - 1 /\ c /= m /\ al \in [Modules -> Seq(Entries)]
      /\ al[m] = s.up /\ \A k \in Modules : k /= m => al[k] = aliases[k]
      /\ E \in DOMAIN v /\ ShowsEntry(v[E], c, e) /\ v[E].act = Left(c, m, js)
      /\ \E b : e[1] = <<b>>
  BY <1>0, <1>1
<1>5. /\ an \in Seq(Annotations) /\ Grown(annos, an) /\ Whole(v, ts)
      /\ IsView(v, an, al) /\ Halfway(v, al, x, js, z)
  BY <1>1 DEF Going, Between
<1>6. PICK n0 \in 1 .. Len(an) : Samples(an[n0], port)
  <2>1. \E n \in DOMAIN an : Samples(an[n], port)
    BY <1>1 DEF Sampled
  <2>2. DOMAIN an = 1 .. Len(an)
    BY <1>5
  <2> QED
    BY <2>1, <2>2
<1>7. PICK a \in Annotations : a = an[n0] /\ a.mod = m /\ <<m, port>> \in ToSet(a.signals)
  BY <1>1, <1>5, <1>6 DEF Samples
<1>8. Len(an) - n0 + 1 \in 1 .. Len(an)
  BY <1>5
<1>9. PICK y0 \in 1 .. Len(an) : y0 = Len(an) - n0 + 1
  BY <1>8
<1>10. FromEnd(an, y0) = a
  <2>1. Len(an) - y0 + 1 = n0
    BY <1>5, <1>9
  <2> QED
    BY <1>7, <2>1 DEF FromEnd
<1>11. PICK N : N = <<0, y0>>
  OBVIOUS
<1>12. N \in DOMAIN v /\ ShowsAnno(v[N], a)
  BY <1>5, <1>10, <1>11 DEF IsView
<1>13. N /= E
  BY <1>1, <1>3, <1>4, <1>11
<1>14. PICK w : w = MoveTo(v, N, E, x, m, a.sampled)
  OBVIOUS
<1>15. /\ \A q \in Paths[m] : Along(q, x) \in Left(c, m, js)
       /\ Left(c, m, js \ {x}) = Left(c, m, js) \ Steps(m, x)
  <2>1. design \in Designs /\ m \in Modules /\ x \in DOMAIN design[m].instances /\ x \in js
    BY <1>2
  <2>2. c \in Modules /\ c = design[m].instances[x]
    BY <1>2, <1>4
  <2> QED
    BY <2>1, <2>2, LeftLess
<1>16. v[N].mod = m /\ v[N].rep = a.sampled /\ v[N].act = Paths[m] /\ v[N].signals = a.signals
  BY <1>7, <1>12 DEF ShowsAnno
<1>17. /\ Moved(v, w, N, E, x) /\ \A d \in DOMAIN v : w[d].mod = v[d].mod
       /\ w[N].mod = m /\ w[N].rep = a.sampled /\ w[N].act = Paths[m]
       /\ w[E].act = v[E].act \ Steps(m, x)
  <2>1. \A q \in Paths[m] : Along(q, x) \in v[E].act
    BY <1>4, <1>15
  <2>2. design \in Designs /\ m \in Modules /\ E \in DOMAIN v
    BY <1>2, <1>4
  <2>3. PICK r : r = a.sampled
    OBVIOUS
  <2>4. CanMove(v, N, E, x, m, r)
    BY <1>13, <1>16, <2>1, <2>2, <2>3 DEF CanMove
  <2> QED
    BY <1>14, <2>2, <2>3, <2>4, MoveToMoved
<1>18. v[E].mod = c /\ v[E].rep = e[1] /\ v[E].signals = e[2]
  BY <1>4 DEF ShowsEntry
<1>19. Whole(w, ts)
  <2>1. PICK b : e[1] = <<b>>
    BY <1>4
  <2>2. ASSUME NEW q \in Paths[m]
        PROVE  SameNet(Along(q, x), v[E].rep, q, w[N].rep)
    <3>0. IsPort(port, x, b)
      BY <2>1 DEF IsPort, Port
    <3>1. SameNet(Along(q, x), <<b>>, q, v[N].rep)
      BY <1>2, <1>5, <1>7, <1>12, <1>16, <3>0, PortCarried
    <3>2. v[E].rep = <<b>> /\ w[N].rep = v[N].rep
      BY <1>16, <1>17, <1>18, <2>1
    <3> QED
      BY <3>1, <3>2
  <2>3. w[N].act = Paths[m] /\ w[N].mod = m /\ v[E].mod < m
    <3>1. c < m
      BY <1>2, <1>3, <1>4
    <3> QED
      BY <1>17, <1>18, <3>1
  <2> QED
    BY <1>2, <1>5, <1>17, <2>2, <2>3, MovedWhole
<1>20. PICK t : t = ResolvePort(port, e[2], s)
  OBVIOUS
<1>21. /\ t.up = s.up
       /\ t.annos = [n \in DOMAIN an |-> IF Samples(an[n], port)
                                         THEN [an[n] EXCEPT !.signals = Added(@, e[2])] ELSE an[n]]
  BY <1>1, <1>20 DEF ResolvePort
<1>22. e[2] \in Seq(Targeted)
  BY <1>4, <1>5, <1>18 DEF Whole, Known
<1>23. t.annos \in Seq(Annotations) /\ Len(t.annos) = Len(an)
  BY <1>1, <1>2, <1>5, <1>20, <1>22, GoingOn DEF Going, Grown
<1>24. ASSUME NEW n \in 1 .. Len(an), Samples(an[n], port) PROVE n = n0
  <2>0. Len(an) - n + 1 \in 1 .. Len(an)
    BY <1>5
  <2>1. PICK y \in 1 .. Len(an) : y = Len(an) - n + 1
    BY <2>0
  <2>2. FromEnd(an, y) = an[n]
    <3>1. Len(an) - y + 1 = n
      BY <1>5, <2>1
    <3> QED
      BY <3>1 DEF FromEnd
  <2>3. PICK d : d = <<0, y>>
    OBVIOUS
  <2>4. d \in DOMAIN v /\ ShowsAnno(v[d], an[n])
    BY <1>5, <2>2, <2>3 DEF IsView
  <2>5. v[d].mod = m /\ <<m, port>> \in ToSet(v[d].signals)
    BY <1>1, <1>24, <2>4 DEF ShowsAnno, Samples
  <2>6. d = N
    BY <1>5, <1>7, <1>12, <1>16, <2>4, <2>5 DEF Whole, OneCarrier
  <2>7. y = y0
    BY <1>11, <2>3, <2>6
  <2> QED
    BY <1>5, <1>9, <2>1, <2>7
<1>25. ASSUME NEW y \in 1 .. Len(an) PROVE ShowsAnno(w[<<0, y>>], FromEnd(t.annos, y))
  <2>0. Len(an) - y + 1 \in 1 .. Len(an)
    BY <1>5
  <2>1. PICK n \in 1 .. Len(an) : n = Len(an) - y + 1
    BY <2>0
  <2>2. FromEnd(t.annos, y) = t.annos[n] /\ FromEnd(an, y) = an[n]
    BY <1>23, <2>1 DEF FromEnd
  <2>3. CASE y = y0
    <3>1. n = n0
      BY <1>5, <1>9, <2>1, <2>3
    <3>2. t.annos[n] = [a EXCEPT !.signals = a.signals \o e[2]]
      <4>1. n \in DOMAIN an /\ Samples(an[n], port) /\ an[n] = a
        BY <1>5, <1>6, <1>7, <3>1
      <4> QED
        BY <1>21, <4>1 DEF Added
    <3>3. t.annos[n].mod = m /\ t.annos[n].sampled = a.sampled
          /\ t.annos[n].signals = a.signals \o e[2]
      BY <1>7, <3>2 DEF Annotations
    <3>4. w[N].signals = a.signals \o e[2]
      <4>1. PICK old, new : old = OldSignals(v, N) /\ new = v[E].signals
        OBVIOUS
      <4>2. old = a.signals /\ new = e[2]
        BY <1>12, <1>16, <1>18, <4>1 DEF OldSignals
      <4>3. w[N].signals = old \o new
        BY <1>17, <4>1 DEF Moved
      <4> QED
        BY <4>2, <4>3
    <3> QED
      BY <1>7, <1>11, <1>17, <2>2, <2>3, <3>3, <3>4 DEF ShowsAnno
  <2>4. CASE y /= y0
    <3>1. ~Samples(an[n], port)
      <4>1. n /= n0
        BY <1>5, <1>9, <2>1, <2>4
      <4> QED
        BY <1>24, <4>1
    <3>2. t.annos[n] = an[n]
      BY <1>5, <1>21, <3>1
    <3>3. PICK d : d = <<0, y>>
      OBVIOUS
    <3>4. d \in DOMAIN v /\ ShowsAnno(v[d], an[n])
      BY <1>5, <2>2, <3>3 DEF IsView
    <3>5. d /= N /\ d /= E
      BY <1>1, <1>3, <1>4, <1>11, <2>4, <3>3
    <3>6. w[d] = v[d]
      BY <1>17, <3>4, <3>5 DEF Moved
    <3> QED
      BY <2>2, <3>2, <3>3, <3>4, <3>6
  <2> QED
    BY <2>3, <2>4
<1>26. ASSUME NEW k \in Modules, NEW y \in 1 .. Len(al[k])
       PROVE  /\ ShowsEntry(w[<<k, y>>], k, FromEnd(al[k], y))
              /\ w[<<k, y>>].act = IF k = c /\ y > z - 1 THEN Left(k, m, js \ {x})
                                                         ELSE Left(k, m, js)
  <2>1. PICK d : d = <<k, y>>
    OBVIOUS
  <2>2. d \in DOMAIN v /\ ShowsEntry(v[d], k, FromEnd(al[k], y))
    BY <1>5, <2>1 DEF IsView
  <2>3. v[d].act = IF k = c /\ y > z THEN Left(k, m, js \ {x}) ELSE Left(k, m, js)
    BY <1>1, <1>5, <2>1 DEF Halfway
  <2>4. d /= N
    BY <1>3, <1>11, <2>1
  <2>5. CASE d = E
    <3>1. k = c /\ y = z /\ z > z - 1
      BY <1>1, <2>1, <2>5
    <3>2. Left(c, m, js \ {x}) = Left(c, m, js) \ Steps(m, x)
      BY <1>15
    <3>3. w[d].act = Left(c, m, js \ {x})
      BY <1>4, <1>17, <2>5, <3>2
    <3>4. ShowsEntry(w[d], k, FromEnd(al[k], y))
      BY <1>17, <2>2, <2>5 DEF ShowsEntry, Moved
    <3> QED
      BY <2>1, <3>1, <3>3, <3>4
  <2>6. CASE d /= E
    <3>1. w[d] = v[d]
      BY <1>17, <2>2, <2>4, <2>6 DEF Moved
    <3>2. k = c => (y > z - 1 <=> y > z)
      <4>1. y \in Nat /\ z \in Nat
        BY <1>4, <1>2
      <4>2. k = c => y /= z
        BY <1>1, <2>1, <2>6
      <4> QED
        BY <4>1, <4>2
    <3> QED
      BY <2>1, <2>2, <2>3, <3>1, <3>2
  <2> QED
    BY <2>5, <2>6
<1>27. IsView(w, t.annos, al)
  <2>1. DOMAIN w = DOMAIN v
    BY <1>12, <1>17 DEF Moved
  <2> QED
    BY <1>5, <1>23, <1>25, <1>26, <2>1 DEF IsView
<1>28. Halfway(w, al, x, js, z - 1)
  BY <1>1, <1>26 DEF Halfway
<1> QED
  BY <1>1, <1>19, <1>20, <1>21, <1>27, <1>28 DEF Between

\* Or there is a port of the module that represents the port.
LEMMA PortPassed ==
    ASSUME NEW x, NEW js, AtInstance(x, js), NEW s, Going(s), NEW v, NEW ts,
           NEW z \in 1 .. Len(aliases[Below(x)]), Between(v, s, x, js, z, ts),
           NEW e, e = FromEnd(aliases[Below(x)], z), NEW port, port = Port(x, e),
           ~Sampled(s.annos, port), ~Lost(port)
    PROVE  \E w : Between(w, ResolvePort(port, e[2], s), x, js, z - 1, ts)
<1>1. PICK m, c, an, al, E : /\ m = mod /\ c = Below(x) /\ an = s.annos
                             /\ al = AliasesWith(s.up) /\ E = <<c, z>>
  OBVIOUS
<1>2. /\ design \in Designs /\ m \in Modules /\ x \in DOMAIN design[m].instances /\ x \in js
      /\ c = design[m].instances[x] /\ aliases \in [Modules -> Seq(Entries)]
      /\ aliases[mod] \in Seq(Entries) /\ annos \in Seq(Annotations)
  BY <1>1 DEF AtInstance, Below
<1>3. Modules = 1 .. Main /\ Main \in Nat /\ 0 \notin Modules
  BY <1>2, DesignShape
<1>0. /\ Below(x) \in Modules /\ Below(x) \in 1 .. mod - 1 /\ Below(x) /= mod
      /\ AliasesWith(s.up) \in [Modules -> Seq(Entries)] /\ AliasesWith(s.up)[mod] = s.up
      /\ \A k \in Modules : k /= mod => AliasesWith(s.up)[k] = aliases[k]
      /\ <<Below(x), z>> \in DOMAIN v
      /\ ShowsEntry(v[<<Below(x), z>>], Below(x), FromEnd(aliases[Below(x)], z))
      /\ v[<<Below(x), z>>].act = Left(Below(x), mod, js)
      /\ \E b : FromEnd(aliases[Below(x)], z)[1] = <<b>>
  BY EntryCarried
<1>4. /\ c \in Modules /\ c \in 1 .. m - 1 /\ c /= m /\ al \in [Modules -> Seq(Entries)]
      /\ al[m] = s.up /\ \A k \in Modules : k /= m => al[k] = aliases[k]
      /\ E \in DOMAIN v /\ ShowsEntry(v[E], c, e) /\ v[E].act = Left(c, m, js)
      /\ \E b : e[1] = <<b>>
  BY <1>0, <1>1
<1>5. /\ an \in Seq(Annotations) /\ Grown(annos, an) /\ Whole(v, ts)
      /\ IsView(v, an, al) /\ Halfway(v, al, x, js, z)
      /\ s.up \in Seq(Entries) /\ ToSet(aliases[m]) \subseteq ToSet(s.up)
  BY <1>1 DEF Going, Between
<1>6. LocalPorts(port) /= {}
  <2> SUFFICES ASSUME Sampled(annos, port) PROVE Sampled(an, port)
    BY <1>1 DEF Lost
  <2>1. PICK n \in DOMAIN annos : Samples(annos[n], port)
    BY DEF Sampled
  <2>2. n \in 1 .. Len(annos) /\ Len(an) = Len(annos) /\ n \in DOMAIN an
    BY <1>2, <1>5 DEF Grown
  <2>3. an[n].mod = annos[n].mod /\ ToSet(annos[n].signals) \subseteq ToSet(an[n].signals)
    BY <1>5, <2>2 DEF Grown
  <2>4. Samples(an[n], port)
    BY <2>1, <2>3 DEF Samples
  <2> QED
    BY <2>2, <2>4 DEF Sampled
<1>7. PICK r : r = CHOOSE p \in LocalPorts(port) : TRUE
  OBVIOUS
<1>8. r \in LocalPorts(port)
  BY <1>6, <1>7
<1>9. PICK f \in ToSet(aliases[m]) : r = f[1] /\ <<m, port>> \in ToSet(f[2])
  BY <1>1, <1>8 DEF LocalPorts
<1>10. m /= Main
  BY <1>2, <1>9 DEF AtInstance
<1>11. PICK up \in Seq(Entries) : up = s.up
  BY <1>5
<1>12. PICK y0 \in 1 .. Len(up) : FromEnd(up, y0) = f
  <2>1. f \in ToSet(up) /\ DOMAIN up = 1 .. Len(up) /\ Len(up) \in Nat
    BY <1>5, <1>9, <1>11
  <2>2. PICK n \in 1 .. Len(up) : up[n] = f
    BY <2>1 DEF ToSet
  <2>3. Len(up) - n + 1 \in 1 .. Len(up)
    BY <2>1
  <2>4. PICK y \in 1 .. Len(up) : y = Len(up) - n + 1
    BY <2>3
  <2>5. Len(up) - y + 1 = n
    BY <2>1, <2>4
  <2>6. FromEnd(up, y) = f
    BY <2>2, <2>5 DEF FromEnd
  <2> QED
    BY <2>6
<1>13. f \in Entries
  <2>1. \E n \in DOMAIN up : f = up[n]
    BY <1>5, <1>9, <1>11 DEF ToSet
  <2> QED
    BY <2>1
<1>14. PICK D, N : D = <<m, y0>> /\ N = <<m, Len(up) + 1>>
  OBVIOUS
<1>15. D \in DOMAIN v /\ v[D].mod = m /\ v[D].rep = r /\ <<m, port>> \in ToSet(v[D].signals)
  <2>1. D \in DOMAIN v /\ ShowsEntry(v[D], m, f)
    BY <1>2, <1>4, <1>5, <1>11, <1>12, <1>14 DEF IsView
  <2> QED
    BY <1>9, <2>1 DEF ShowsEntry
<1>16. N \notin DOMAIN v /\ N /= E
  <2>1. Len(up) + 1 \notin 1 .. Len(up)
    BY <1>11
  <2>2. ~\E y \in 1 .. Len(an) : N = <<0, y>>
    BY <1>2, <1>3, <1>14
  <2>3. ~\E k \in Modules : \E y \in 1 .. Len(al[k]) : N = <<k, y>>
    BY <1>4, <1>11, <1>14, <2>1
  <2> QED
    BY <1>1, <1>4, <1>5, <1>14, <2>2, <2>3 DEF IsView
<1>17. PICK w : w = MoveTo(v, N, E, x, m, r)
  OBVIOUS
<1>18. /\ \A q \in Paths[m] : Along(q, x) \in Left(c, m, js)
       /\ Left(c, m, js \ {x}) = Left(c, m, js) \ Steps(m, x)
  <2>1. design \in Designs /\ m \in Modules /\ x \in DOMAIN design[m].instances /\ x \in js
    BY <1>2
  <2>2. c \in Modules /\ c = design[m].instances[x]
    BY <1>2, <1>4
  <2> QED
    BY <2>1, <2>2, LeftLess
<1>19. /\ Moved(v, w, N, E, x) /\ \A d \in DOMAIN v : w[d].mod = v[d].mod
       /\ w[N].mod = m /\ w[N].rep = r /\ w[N].act = Paths[m]
       /\ w[E].act = v[E].act \ Steps(m, x)
  <2>1. CanMove(v, N, E, x, m, r)
    BY <1>2, <1>4, <1>16, <1>18 DEF CanMove
  <2> QED
    BY <1>2, <1>17, <2>1, MoveToMoved
<1>20. v[E].mod = c /\ v[E].rep = e[1] /\ v[E].signals = e[2]
  BY <1>4 DEF ShowsEntry
<1>21. Whole(w, ts)
  <2>1. PICK b : e[1] = <<b>>
    BY <1>4
  <2>2. ASSUME NEW q \in Paths[m]
        PROVE  SameNet(Along(q, x), v[E].rep, q, w[N].rep)
    <3>1. IsPort(port, x, b)
      BY <2>1 DEF IsPort, Port
    <3>2. SameNet(Along(q, x), <<b>>, q, v[D].rep)
      BY <1>2, <1>5, <1>15, <3>1, PortCarried
    <3>3. v[E].rep = <<b>> /\ w[N].rep = v[D].rep
      BY <1>15, <1>19, <1>20, <2>1
    <3> QED
      BY <3>2, <3>3
  <2>3. w[N].act = Paths[m] /\ w[N].mod = m /\ v[E].mod < m
    <3>1. c < m
      BY <1>2, <1>3, <1>4
    <3> QED
      BY <1>19, <1>20, <3>1
  <2> QED
    BY <1>2, <1>5, <1>19, <2>2, <2>3, MovedWhole
<1>22. PICK t, new : t = ResolvePort(port, e[2], s) /\ new = <<r, e[2]>>
  OBVIOUS
<1>23. t.annos = an /\ t.up = <<new>> \o up
  BY <1>1, <1>7, <1>11, <1>22 DEF ResolvePort
<1>24. e[2] \in Seq(Targeted)
  BY <1>4, <1>5, <1>20 DEF Whole, Known
<1>25. new \in Entries
  BY <1>9, <1>13, <1>22, <1>24 DEF Entries
<1>26. NewFirst(up, t.up, new) /\ t.up \in Seq(Entries)
  BY <1>23, <1>25, FromEndFirst
<1>27. PICK al2 : al2 = AliasesWith(t.up)
  OBVIOUS
<1>28. al2[m] = t.up /\ \A k \in Modules : k /= m => al2[k] = al[k]
  BY <1>1, <1>2, <1>4, <1>26, <1>27 DEF AliasesWith
<1>29. w[N].signals = e[2]
  <2>1. PICK old, more : old = OldSignals(v, N) /\ more = v[E].signals
    OBVIOUS
  <2>2. old = <<>> /\ more = e[2]
    BY <1>16, <1>20, <2>1 DEF OldSignals
  <2>3. w[N].signals = old \o more
    BY <1>19, <2>1 DEF Moved
  <2> QED
    BY <1>24, <2>2, <2>3
<1>30. ASSUME NEW y \in 1 .. Len(an) PROVE ShowsAnno(w[<<0, y>>], FromEnd(an, y))
  <2>1. PICK d : d = <<0, y>>
    OBVIOUS
  <2>2. d \in DOMAIN v /\ ShowsAnno(v[d], FromEnd(an, y))
    BY <1>5, <2>1 DEF IsView
  <2>3. d /= N /\ d /= E
    BY <1>1, <1>2, <1>3, <1>4, <1>14, <2>1
  <2>4. w[d] = v[d]
    BY <1>19, <2>2, <2>3 DEF Moved
  <2> QED
    BY <2>1, <2>2, <2>4
<1>31. ASSUME NEW k \in Modules, NEW y \in 1 .. Len(al2[k])
       PROVE  /\ ShowsEntry(w[<<k, y>>], k, FromEnd(al2[k], y))
              /\ w[<<k, y>>].act = IF k = c /\ y > z - 1 THEN Left(k, m, js \ {x})
                                                         ELSE Left(k, m, js)
              /\ <<k, y>> = N \/ y \in 1 .. Len(al[k])
  <2>1. PICK d : d = <<k, y>>
    OBVIOUS
  <2>2. CASE d = N
    <3>1. k = m /\ y = Len(up) + 1
      BY <1>14, <2>1, <2>2
    <3>2. FromEnd(al2[k], y) = new
      BY <1>26, <1>28, <3>1 DEF NewFirst
    <3>3. ShowsEntry(w[d], k, new)
      BY <1>19, <1>22, <1>29, <2>2, <3>1 DEF ShowsEntry
    <3>4. Left(m, m, js) = Paths[m]
      <4>1. m \in Nat /\ m <= m
        BY <1>2, <1>3
      <4> QED
        BY <1>2, <1>10, <4>1, LeftAll
    <3> QED
      BY <1>4, <1>19, <2>1, <2>2, <3>1, <3>2, <3>3, <3>4
  <2>3. CASE d /= N
    <3>1. y \in 1 .. Len(al[k]) /\ FromEnd(al2[k], y) = FromEnd(al[k], y)
      <4>1. CASE k = m
        <5>1. y \in 1 .. Len(up) + 1 /\ y /= Len(up) + 1 /\ Len(up) \in Nat
          BY <1>14, <1>26, <1>28, <2>1, <2>3, <4>1 DEF NewFirst
        <5>2. y \in 1 .. Len(up)
          BY <5>1
        <5>3. FromEnd(t.up, y) = FromEnd(up, y)
          BY <1>26, <5>2 DEF NewFirst
        <5> QED
          BY <1>4, <1>11, <1>28, <4>1, <5>2, <5>3
      <4>2. CASE k /= m
        BY <1>28, <4>2
      <4> QED
        BY <4>1, <4>2
    <3>2. d \in DOMAIN v /\ ShowsEntry(v[d], k, FromEnd(al[k], y))
      BY <1>5, <2>1, <3>1 DEF IsView
    <3>3. v[d].act = IF k = c /\ y > z THEN Left(k, m, js \ {x}) ELSE Left(k, m, js)
      BY <1>1, <1>5, <2>1, <3>1 DEF Halfway
    <3>4. CASE d = E
      <4>1. k = c /\ y = z /\ z > z - 1
        BY <1>1, <2>1, <3>4
      <4>2. w[d].act = Left(c, m, js \ {x})
        BY <1>4, <1>18, <1>19, <3>4
      <4>3. ShowsEntry(w[d], k, FromEnd(al[k], y))
        BY <1>19, <3>2, <3>4 DEF ShowsEntry, Moved
      <4> QED
        BY <2>1, <3>1, <4>1, <4>2, <4>3
    <3>5. CASE d /= E
      <4>1. w[d] = v[d]
        BY <1>19, <2>3, <3>2, <3>5 DEF Moved
      <4>2. k = c => (y > z - 1 <=> y > z)
        <5>1. y \in Nat /\ z \in Nat
          BY <3>1
        <5>2. k = c => y /= z
          BY <1>1, <2>1, <3>5
        <5> QED
          BY <5>1, <5>2
      <4> QED
        BY <2>1, <3>1, <3>2, <3>3, <4>1, <4>2
    <3> QED
      BY <3>4, <3>5
  <2> QED
    BY <2>2, <2>3
<1>32. IsView(w, an, al2)
  <2>1. DOMAIN w = DOMAIN v \cup {N}
    BY <1>19 DEF Moved
  <2>2. Len(up) + 1 \in 1 .. Len(al2[m])
    BY <1>11, <1>26, <1>28 DEF NewFirst
  <2>3. \A k \in Modules : \A y \in 1 .. Len(al[k]) : y \in 1 .. Len(al2[k])
    <3> SUFFICES ASSUME NEW k \in Modules, NEW y \in 1 .. Len(al[k])
                 PROVE  y \in 1 .. Len(al2[k])
      OBVIOUS
    <3>1. CASE k = m
      BY <1>4, <1>11, <1>26, <1>28, <3>1 DEF NewFirst
    <3>2. CASE k /= m
      BY <1>28, <3>2
    <3> QED
      BY <3>1, <3>2
  <2>4. ASSUME NEW d
        PROVE  d \in DOMAIN w <=>
                   \/ \E y \in 1 .. Len(an) : d = <<0, y>>
                   \/ \E k \in Modules : \E y \in 1 .. Len(al2[k]) : d = <<k, y>>
    <3>1. d \in DOMAIN v <=> \/ \E y \in 1 .. Len(an) : d = <<0, y>>
                             \/ \E k \in Modules : \E y \in 1 .. Len(al[k]) : d = <<k, y>>
      BY <1>5 DEF IsView
    <3>2. ASSUME NEW k \in Modules, NEW y \in 1 .. Len(al2[k]), d = <<k, y>>
          PROVE  d \in DOMAIN w
      BY <1>31, <2>1, <3>1, <3>2
    <3>3. ASSUME NEW k \in Modules, NEW y \in 1 .. Len(al[k]), d = <<k, y>>
          PROVE  \E i \in Modules : \E j \in 1 .. Len(al2[i]) : d = <<i, j>>
      BY <2>3, <3>3
    <3>4. d = N => \E i \in Modules : \E j \in 1 .. Len(al2[i]) : d = <<i, j>>
      BY <1>2, <1>14, <2>2
    <3> QED
      BY <2>1, <3>1, <3>2, <3>3, <3>4
  <2> QED
    BY <1>30, <1>31, <2>4 DEF IsView
<1>33. Halfway(w, al2, x, js, z - 1)
  BY <1>1, <1>31 DEF Halfway
<1> QED
  BY <1>1, <1>21, <1>22, <1>23, <1>27, <1>32, <1>33 DEF Between

\* The paths of what is moved up, in a view.
Acts(v, al, m, js) ==
    \A k \in Modules : \A y \in 1 .. Len(al[k]) : v[<<k, y>>].act = Left(k, m, js)

\* Everything in ts is traced by a view of these cover points and port aliases.
Shown(v, an, al, m, js, ts) == IsView(v, an, al) /\ Acts(v, al, m, js) /\ Whole(v, ts)

\* The port aliases of an instance are resolved, one after another.
LEMMA InstanceWhole ==
    ASSUME NEW x, NEW js, AtInstance(x, js), NEW v, NEW ts,
           Shown(v, annos, aliases, mod, js, ts),
           \A e \in ToSet(aliases[Below(x)]) : ~Lost(Port(x, e)),
           NEW s, s = Resolved(x, aliases[Below(x)])
    PROVE  \E w : Shown(w, s.annos, AliasesWith(s.up), mod, js \ {x}, ts)
<1>1. PICK m, c : m = mod /\ c = Below(x)
  OBVIOUS
<1>2. /\ design \in Designs /\ m \in Modules /\ x \in DOMAIN design[m].instances /\ x \in js
      /\ c = design[m].instances[x] /\ aliases \in [Modules -> Seq(Entries)]
      /\ aliases[mod] \in Seq(Entries) /\ annos \in Seq(Annotations)
  BY <1>1 DEF AtInstance, Below
<1>3. c \in Modules
  BY <1>2, DesignShape
<1>4. PICK entries \in Seq(Entries) : entries = aliases[c]
  BY <1>2, <1>3
<1>5. PICK f : /\ s = f[Len(entries)]
               /\ \A n \in 0 .. Len(entries) : f[n] = Resolving(x, entries, f, n)
  BY <1>1, <1>4, ResolvedSteps
<1>6. Len(entries) \in Nat
  OBVIOUS
<1> DEFINE Reached(n) == /\ Going(f[n])
                         /\ \E w : Between(w, f[n], x, js, Len(entries) - n, ts)
           S == {n \in Nat : n <= Len(entries) => Reached(n)}
<1>7. 0 \in S
  <2>1. PICK t : t = f[0]
    OBVIOUS
  <2>2. t = [annos |-> annos, up |-> aliases[mod]]
    BY <1>5, <1>6, <2>1 DEF Resolving
  <2>3. Going(t)
    BY <1>2, <2>2 DEF Going, Grown
  <2>4. AliasesWith(t.up) = aliases /\ t.annos = annos
    BY <1>1, <1>2, <2>2 DEF AliasesWith
  <2>5. Halfway(v, aliases, x, js, Len(entries))
    <3> SUFFICES ASSUME NEW k \in Modules, NEW y \in 1 .. Len(aliases[k])
                 PROVE  /\ v[<<k, y>>].act = Left(k, mod, js)
                        /\ ~(k = Below(x) /\ y > Len(entries))
      BY DEF Halfway
    <3>1. v[<<k, y>>].act = Left(k, mod, js)
      BY DEF Shown, Acts
    <3>2. k = c => ~(y > Len(entries))
      BY <1>4, <1>6
    <3> QED
      BY <1>1, <3>1, <3>2
  <2>6. Len(entries) - 0 = Len(entries)
    BY <1>6
  <2>7. Between(v, t, x, js, Len(entries) - 0, ts)
    BY <2>4, <2>5, <2>6 DEF Between, Shown
  <2> QED
    BY <2>1, <2>3, <2>7
<1>8. ASSUME NEW i \in Nat, i \in S PROVE i + 1 \in S
  <2> SUFFICES ASSUME i + 1 <= Len(entries) PROVE Reached(i + 1)
    OBVIOUS
  <2>1. PICK j, z : j = i + 1 /\ z = Len(entries) - i
    OBVIOUS
  <2>2. /\ j /= 0 /\ j - 1 = i /\ j \in 0 .. Len(entries) /\ j \in 1 .. Len(entries)
        /\ i <= Len(entries) /\ z \in 1 .. Len(entries)
        /\ z - 1 = Len(entries) - j /\ Len(entries) - z + 1 = j
    BY <1>6, <2>1
  <2>3. PICK e \in Entries : e = entries[j]
    BY <2>2
  <2>4. PICK port : port = Port(x, e)
    OBVIOUS
  <2>5. ~Lost(port) /\ e[2] \in Seq(Targeted)
    <3>1. e \in ToSet(aliases[Below(x)])
      BY <1>1, <1>4, <2>2, <2>3 DEF ToSet
    <3> QED
      BY <2>3, <2>4, <3>1 DEF Entries
  <2>6. PICK t : t = f[i]
    OBVIOUS
  <2>7. Going(t)
    BY <1>8, <2>2, <2>6
  <2>8. PICK w : Between(w, t, x, js, z, ts)
    BY <1>8, <2>1, <2>2, <2>6
  <2>9. f[j] = ResolvePort(port, e[2], t)
    BY <1>5, <2>2, <2>3, <2>4, <2>6 DEF Resolving, Port
  <2>10. Going(ResolvePort(port, e[2], t))
    BY <1>2, <2>5, <2>7, GoingOn
  <2>11. e = FromEnd(aliases[Below(x)], z) /\ z \in 1 .. Len(aliases[Below(x)])
    <3>1. FromEnd(entries, z) = entries[j]
      BY <2>2 DEF FromEnd
    <3> QED
      BY <1>1, <1>4, <2>2, <2>3, <3>1
  <2>12. \E u : Between(u, ResolvePort(port, e[2], t), x, js, z - 1, ts)
    <3>1. CASE Sampled(t.annos, port)
      BY <2>4, <2>5, <2>7, <2>8, <2>11, <3>1, PortSampled
    <3>2. CASE ~Sampled(t.annos, port)
      BY <2>4, <2>5, <2>7, <2>8, <2>11, <3>2, PortPassed
    <3> QED
      BY <3>1, <3>2
  <2> QED
    BY <2>1, <2>2, <2>9, <2>10, <2>12
<1>9. Len(entries) \in S
  <2> HIDE DEF S
  <2> QED
    BY <1>6, <1>7, <1>8, Induction
<1>10. PICK w : Between(w, s, x, js, 0, ts)
  <2>1. Len(entries) - Len(entries) = 0
    BY <1>6
  <2>2. PICK w : Between(w, s, x, js, Len(entries) - Len(entries), ts)
    BY <1>5, <1>6, <1>9
  <2> QED
    BY <2>1, <2>2
<1>11. PICK al : al = AliasesWith(s.up)
  OBVIOUS
<1>12. Acts(w, al, mod, js \ {x})
  <2> SUFFICES ASSUME NEW k \in Modules, NEW y \in 1 .. Len(al[k])
               PROVE  w[<<k, y>>].act = Left(k, m, js \ {x})
    BY <1>1 DEF Acts
  <2>1. y > 0
    OBVIOUS
  <2>2. w[<<k, y>>].act = IF k = c THEN Left(k, m, js \ {x}) ELSE Left(k, m, js)
    BY <1>1, <1>10, <1>11, <2>1 DEF Between, Halfway
  <2>3. ASSUME k /= c PROVE Left(k, m, js \ {x}) = Left(k, m, js)
    <3>1. design \in Designs /\ m \in Modules /\ x \in DOMAIN design[m].instances /\ x \in js
      BY <1>2
    <3>2. k /= design[m].instances[x]
      BY <1>2, <2>3
    <3> QED
      BY <3>1, <3>2, LeftOthers
  <2> QED
    BY <2>2, <2>3
<1> QED
  BY <1>10, <1>11, <1>12 DEF Between, Shown
------------------------------------------------------------------------------
\* A group of module m gets a carrier of its own.
NewCarrier(v, n, m, r, l) ==
    [c \in DOMAIN v \cup {n} |->
        IF c = n THEN [mod |-> m, rep |-> r, act |-> Paths[m], signals |-> l] ELSE v[c]]

\* The targets of the group are those of its signals.
GroupTargets(m, g) == {<<m, s>> : s \in g}

\* A new carrier for targets that have not been covered yet.
LEMMA GroupWhole ==
    ASSUME design \in Designs, NEW ts, NEW v, Whole(v, ts), NEW m \in Modules,
           NEW g, NEW n, n \notin DOMAIN v, NEW r, NEW l \in Seq(Targeted),
           ToSet(l) = GroupTargets(m, g), IsInjective(l), GroupTargets(m, g) \cap ts = {},
           \A q \in Paths[m] : \A s \in g : SameNet(q, s, q, r),
           NEW w, w = NewCarrier(v, n, m, r, l)
    PROVE  Whole(w, ts \cup GroupTargets(m, g))
<1>1. PICK T : T = GroupTargets(m, g)
  OBVIOUS
<1>2. /\ DOMAIN w = DOMAIN v \cup {n} /\ \A c \in DOMAIN v : w[c] = v[c]
      /\ w[n].mod = m /\ w[n].rep = r /\ w[n].act = Paths[m] /\ w[n].signals = l
  BY DEF NewCarrier
<1>3. \A t \in T : t[1] = m /\ t[2] \in g /\ t = <<m, t[2]>>
  BY <1>1 DEF GroupTargets
<1>4. m \in Nat
  BY DesignShape
<1>5. Known(w, ts \cup T)
  <2> SUFFICES ASSUME NEW c \in DOMAIN w
               PROVE  /\ w[c].mod \in Modules /\ w[c].signals \in Seq(Targeted)
                      /\ \A t \in ToSet(w[c].signals) : t \in ts \cup T /\ t[1] <= w[c].mod
    BY DEF Known
  <2>1. CASE c = n
    BY <1>1, <1>2, <1>3, <1>4, <2>1
  <2>2. CASE c \in DOMAIN v
    BY <1>2, <2>2 DEF Whole, Known
  <2> QED
    BY <1>2, <2>1, <2>2
<1>6. \A c \in DOMAIN v : \A t \in ToSet(v[c].signals) : t \notin T
  BY <1>1 DEF Whole, Known
<1>7. ASSUME NEW s, <<m, s>> \in T PROVE s \in g
  BY <1>3, <1>7
<1>8. Represented(w)
  <2> SUFFICES ASSUME NEW c \in DOMAIN w, NEW s, <<w[c].mod, s>> \in ToSet(w[c].signals),
                      NEW q \in Paths[w[c].mod]
               PROVE  NetIn(Nets, q \o s) = NetIn(Nets, q \o w[c].rep)
    BY DEF Represented
  <2>1. CASE c = n
    <3>1. s \in g /\ q \in Paths[m]
      BY <1>1, <1>2, <1>7, <2>1
    <3>2. SameNet(q, s, q, r)
      BY <3>1
    <3> QED
      BY <1>2, <2>1, <3>2 DEF SameNet
  <2>2. CASE c \in DOMAIN v
    BY <1>2, <2>2 DEF Whole, Represented
  <2> QED
    BY <1>2, <2>1, <2>2
<1>9. OneCarrier(w)
  <2> SUFFICES ASSUME NEW c \in DOMAIN w, NEW d \in DOMAIN w, NEW s, w[c].mod = w[d].mod,
                      <<w[c].mod, s>> \in ToSet(w[c].signals),
                      <<w[c].mod, s>> \in ToSet(w[d].signals)
               PROVE  c = d
    BY DEF OneCarrier
  <2>1. CASE c \in DOMAIN v /\ d \in DOMAIN v
    BY <1>2, <2>1 DEF Whole, OneCarrier
  <2>2. CASE c = n /\ d \in DOMAIN v
    BY <1>1, <1>2, <1>6, <2>2
  <2>3. CASE c \in DOMAIN v /\ d = n
    BY <1>1, <1>2, <1>6, <2>3
  <2> QED
    BY <1>2, <2>1, <2>2, <2>3
<1>10. ASSUME NEW t \in ts PROVE Traced(w, t, Paths[t[1]], Nets)
  <2>1. PICK f : TracedBy(f, v, t, Paths[t[1]], Nets)
    BY DEF Whole, Traced
  <2>2. t \notin T
    BY <1>1
  <2>3. ASSUME NEW c, NEW p, NEW i
        PROVE  /\ IsSpot(w, t, c, p, i) <=> IsSpot(v, t, c, p, i)
               /\ IsSpot(w, t, c, p, i) => w[c].rep = v[c].rep
    <3>1. CASE c = n
      <4>1. ~IsSpot(v, t, c, p, i)
        BY <3>1 DEF IsSpot
      <4>2. ~IsSpot(w, t, c, p, i)
        <5> SUFFICES ASSUME i \in 1 .. Len(l), l[i] = t PROVE FALSE
          BY <1>2, <3>1 DEF IsSpot
        <5>1. t \in ToSet(l)
          BY DEF ToSet
        <5> QED
          BY <1>1, <2>2, <5>1
      <4> QED
        BY <4>1, <4>2
    <3>2. CASE c /= n
      BY <1>2, <3>2 DEF IsSpot
    <3> QED
      BY <3>1, <3>2
  <2>4. TracedBy(f, w, t, Paths[t[1]], Nets)
    <3>1. ASSUME NEW q \in Paths[t[1]]
          PROVE  \E c, p, i : /\ f[q] = <<c, p, i>> /\ IsSpot(w, t, c, p, i)
                              /\ NetIn(Nets, p \o w[c].rep) = NetIn(Nets, q \o t[2])
      <4>1. PICK c, p, i : /\ f[q] = <<c, p, i>> /\ IsSpot(v, t, c, p, i)
                           /\ NetIn(Nets, p \o v[c].rep) = NetIn(Nets, q \o t[2])
        BY <2>1 DEF TracedBy
      <4>2. IsSpot(w, t, c, p, i) /\ w[c].rep = v[c].rep
        BY <2>3, <4>1
      <4> QED
        BY <4>1, <4>2
    <3>2. \A q, o \in Paths[t[1]] : f[q] = f[o] => q = o
      BY <2>1 DEF TracedBy
    <3>3. \A c, p, i : IsSpot(w, t, c, p, i) => \E q \in Paths[t[1]] : f[q] = <<c, p, i>>
      BY <2>1, <2>3 DEF TracedBy
    <3> QED
      BY <3>1, <3>2, <3>3 DEF TracedBy
  <2> QED
    BY <2>4 DEF Traced
<1>11. ASSUME NEW t \in T PROVE Traced(w, t, Paths[t[1]], Nets)
  <2>1. t[1] = m /\ t[2] \in g
    BY <1>3
  <2>2. PICK i \in 1 .. Len(l) : l[i] = t
    BY <1>1 DEF ToSet
  <2>3. \A j \in 1 .. Len(l) : l[j] = t => j = i
    BY <2>2 DEF IsInjective
  <2> DEFINE f == [q \in Paths[m] |-> <<n, q, i>>]
  <2>4. \A q \in Paths[m] : f[q] = <<n, q, i>>
    OBVIOUS
  <2> HIDE DEF f
  <2>5. ASSUME NEW c, NEW p, NEW j
        PROVE  IsSpot(w, t, c, p, j) <=> c = n /\ p \in Paths[m] /\ j = i
    <3>1. CASE c = n
      BY <1>2, <2>2, <2>3, <3>1 DEF IsSpot
    <3>2. CASE c /= n
      <4>1. ASSUME IsSpot(w, t, c, p, j) PROVE FALSE
        <5>1. c \in DOMAIN v /\ j \in 1 .. Len(v[c].signals) /\ v[c].signals[j] = t
          BY <1>2, <3>2, <4>1 DEF IsSpot
        <5>2. v[c].signals \in Seq(Targeted)
          BY <5>1 DEF Whole, Known
        <5>3. t \in ToSet(v[c].signals)
          BY <5>1, <5>2 DEF ToSet
        <5> QED
          BY <1>6, <5>1, <5>3
      <4> QED
        BY <3>2, <4>1
    <3> QED
      BY <3>1, <3>2
  <2>6. ASSUME NEW q \in Paths[m]
        PROVE  \E c, p, j : /\ f[q] = <<c, p, j>> /\ IsSpot(w, t, c, p, j)
                            /\ NetIn(Nets, p \o w[c].rep) = NetIn(Nets, q \o t[2])
    <3>1. SameNet(q, t[2], q, r)
      BY <2>1
    <3>2. NetIn(Nets, q \o w[n].rep) = NetIn(Nets, q \o t[2])
      BY <1>2, <3>1 DEF SameNet
    <3> QED
      BY <2>4, <2>5, <3>2
  <2>7. \A q, o \in Paths[m] : f[q] = f[o] => q = o
    BY <2>4
  <2>8. \A c, p, j : IsSpot(w, t, c, p, j) => \E q \in Paths[m] : f[q] = <<c, p, j>>
    BY <2>4, <2>5
  <2>9. TracedBy(f, w, t, Paths[m], Nets)
    BY <2>6, <2>7, <2>8 DEF TracedBy
  <2> QED
    BY <2>1, <2>9 DEF Traced
<1> QED
  BY <1>1, <1>5, <1>8, <1>9, <1>10, <1>11 DEF Whole

\* A group is sampled.
LEMMA SampleShown ==
    ASSUME design \in Designs, NEW an \in Seq(Annotations), NEW al, NEW js, NEW k0, NEW ts,
           NEW v, Shown(v, an, al, k0, js, ts), NEW m \in Modules,
           NEW g, NEW r, NEW l \in Seq(Targeted),
           ToSet(l) = GroupTargets(m, g), IsInjective(l), GroupTargets(m, g) \cap ts = {},
           \A q \in Paths[m] : \A s \in g : SameNet(q, s, q, r),
           NEW a \in Annotations, a.mod = m, a.sampled = r, a.signals = l,
           NEW new, NewFirst(an, new, a)
    PROVE  \E w : Shown(w, new, al, k0, js, ts \cup GroupTargets(m, g))
<1>1. PICK n, T : n = <<0, Len(an) + 1>> /\ T = GroupTargets(m, g)
  OBVIOUS
<1>2. Len(an) \in Nat /\ 0 \notin Modules
  BY DesignShape
<1>3. IsView(v, an, al) /\ Acts(v, al, k0, js) /\ Whole(v, ts)
  BY DEF Shown
<1>4. n \notin DOMAIN v
  <2>1. Len(an) + 1 \notin 1 .. Len(an)
    BY <1>2
  <2> QED
    BY <1>1, <1>2, <1>3, <2>1 DEF IsView
<1>5. PICK w : w = NewCarrier(v, n, m, r, l)
  OBVIOUS
<1>6. Whole(w, ts \cup T)
  BY <1>1, <1>3, <1>4, <1>5, GroupWhole
<1>7. /\ DOMAIN w = DOMAIN v \cup {n} /\ \A c \in DOMAIN v : w[c] = v[c]
      /\ w[n].mod = m /\ w[n].rep = r /\ w[n].act = Paths[m] /\ w[n].signals = l
  BY <1>4, <1>5 DEF NewCarrier
<1>8. /\ Len(new) = Len(an) + 1 /\ \A y : y = Len(an) + 1 => FromEnd(new, y) = a
      /\ \A y \in 1 .. Len(an) : FromEnd(new, y) = FromEnd(an, y)
  BY DEF NewFirst
<1>9. ASSUME NEW y \in 1 .. Len(new) PROVE ShowsAnno(w[<<0, y>>], FromEnd(new, y))
  <2>1. CASE y = Len(an) + 1
    BY <1>1, <1>7, <1>8, <2>1 DEF ShowsAnno
  <2>2. CASE y /= Len(an) + 1
    <3>1. y \in 1 .. Len(an)
      BY <1>2, <1>8, <2>2
    <3>2. <<0, y>> \in DOMAIN v /\ ShowsAnno(v[<<0, y>>], FromEnd(an, y))
      BY <1>3, <3>1 DEF IsView
    <3> QED
      BY <1>7, <1>8, <3>1, <3>2
  <2> QED
    BY <2>1, <2>2
<1>10. ASSUME NEW k \in Modules, NEW y \in 1 .. Len(al[k])
       PROVE  <<k, y>> \in DOMAIN v /\ w[<<k, y>>] = v[<<k, y>>]
  <2>1. <<k, y>> \in DOMAIN v
    BY <1>3 DEF IsView
  <2> QED
    BY <1>7, <2>1
<1>11. IsView(w, new, al)
  <2>1. ASSUME NEW c
        PROVE  c \in DOMAIN w <=>
                   \/ \E y \in 1 .. Len(new) : c = <<0, y>>
                   \/ \E k \in Modules : \E y \in 1 .. Len(al[k]) : c = <<k, y>>
    <3>1. c \in DOMAIN v <=> \/ \E y \in 1 .. Len(an) : c = <<0, y>>
                             \/ \E k \in Modules : \E y \in 1 .. Len(al[k]) : c = <<k, y>>
      BY <1>3 DEF IsView
    <3>2. \A y : y \in 1 .. Len(new) <=> y \in 1 .. Len(an) \/ y = Len(an) + 1
      BY <1>2, <1>8
    <3> QED
      BY <1>1, <1>7, <3>1, <3>2
  <2> QED
    BY <1>3, <1>9, <1>10, <2>1 DEF IsView
<1>12. Acts(w, al, k0, js)
  BY <1>3, <1>10 DEF Acts
<1> QED
  BY <1>1, <1>6, <1>11, <1>12 DEF Shown

\* A group is left to the modules above.
LEMMA PassUpShown ==
    ASSUME design \in Designs, NEW an, NEW al \in [Modules -> Seq(Entries)], NEW js,
           NEW k0 \in Nat, NEW ts, NEW v, Shown(v, an, al, k0, js, ts),
           NEW m \in Modules, m /= Main, k0 <= m,
           NEW g, NEW r, NEW l \in Seq(Targeted),
           ToSet(l) = GroupTargets(m, g), IsInjective(l), GroupTargets(m, g) \cap ts = {},
           \A q \in Paths[m] : \A s \in g : SameNet(q, s, q, r),
           NEW e, e[1] = r, e[2] = l,
           NEW al2, NewFirst(al[m], al2[m], e), \A k \in Modules : k /= m => al2[k] = al[k]
    PROVE  \E w : Shown(w, an, al2, k0, js, ts \cup GroupTargets(m, g))
<1>1. PICK up \in Seq(Entries) : up = al[m]
  OBVIOUS
<1>2. PICK n, T : n = <<m, Len(up) + 1>> /\ T = GroupTargets(m, g)
  OBVIOUS
<1>3. Len(up) \in Nat /\ 0 \notin Modules
  BY DesignShape
<1>4. IsView(v, an, al) /\ Acts(v, al, k0, js) /\ Whole(v, ts)
  BY DEF Shown
<1>5. n \notin DOMAIN v
  <2>1. Len(up) + 1 \notin 1 .. Len(up)
    BY <1>3
  <2>2. ~\E y \in 1 .. Len(an) : n = <<0, y>>
    BY <1>2, <1>3
  <2>3. ~\E k \in Modules : \E y \in 1 .. Len(al[k]) : n = <<k, y>>
    BY <1>1, <1>2, <2>1
  <2> QED
    BY <1>4, <2>2, <2>3 DEF IsView
<1>6. PICK w : w = NewCarrier(v, n, m, r, l)
  OBVIOUS
<1>7. Whole(w, ts \cup T)
  BY <1>2, <1>4, <1>5, <1>6, GroupWhole
<1>8. /\ DOMAIN w = DOMAIN v \cup {n} /\ \A c \in DOMAIN v : w[c] = v[c]
      /\ w[n].mod = m /\ w[n].rep = r /\ w[n].act = Paths[m] /\ w[n].signals = l
  BY <1>5, <1>6 DEF NewCarrier
<1>9. /\ Len(al2[m]) = Len(up) + 1 /\ \A y : y = Len(up) + 1 => FromEnd(al2[m], y) = e
      /\ \A y \in 1 .. Len(up) : FromEnd(al2[m], y) = FromEnd(up, y)
  BY <1>1 DEF NewFirst
<1>10. ASSUME NEW y \in 1 .. Len(an) PROVE ShowsAnno(w[<<0, y>>], FromEnd(an, y))
  <2>1. <<0, y>> \in DOMAIN v /\ ShowsAnno(v[<<0, y>>], FromEnd(an, y))
    BY <1>4 DEF IsView
  <2> QED
    BY <1>8, <2>1
<1>11. ASSUME NEW k \in Modules, NEW y \in 1 .. Len(al2[k])
       PROVE  /\ ShowsEntry(w[<<k, y>>], k, FromEnd(al2[k], y))
              /\ w[<<k, y>>].act = Left(k, k0, js)
              /\ <<k, y>> = n \/ y \in 1 .. Len(al[k])
  <2>1. CASE k = m /\ y = Len(up) + 1
    <3>1. Left(m, k0, js) = Paths[m]
      BY LeftAll
    <3> QED
      BY <1>2, <1>8, <1>9, <2>1, <3>1 DEF ShowsEntry
  <2>2. CASE ~(k = m /\ y = Len(up) + 1)
    <3>1. y \in 1 .. Len(al[k]) /\ FromEnd(al2[k], y) = FromEnd(al[k], y)
      <4>1. CASE k = m
        <5>1. y \in 1 .. Len(up)
          BY <1>3, <1>9, <2>2, <4>1
        <5> QED
          BY <1>1, <1>9, <4>1, <5>1
      <4>2. CASE k /= m
        BY <4>2
      <4> QED
        BY <4>1, <4>2
    <3>2. PICK c : c = <<k, y>>
      OBVIOUS
    <3>3. c \in DOMAIN v /\ ShowsEntry(v[c], k, FromEnd(al[k], y)) /\ v[c].act = Left(k, k0, js)
      BY <1>4, <3>1, <3>2 DEF IsView, Acts
    <3>4. w[c] = v[c]
      BY <1>8, <3>3
    <3> QED
      BY <3>1, <3>2, <3>3, <3>4
  <2> QED
    BY <2>1, <2>2
<1>12. IsView(w, an, al2)
  <2>1. ASSUME NEW c
        PROVE  c \in DOMAIN w <=>
                   \/ \E y \in 1 .. Len(an) : c = <<0, y>>
                   \/ \E k \in Modules : \E y \in 1 .. Len(al2[k]) : c = <<k, y>>
    <3>1. c \in DOMAIN v <=> \/ \E y \in 1 .. Len(an) : c = <<0, y>>
                             \/ \E k \in Modules : \E y \in 1 .. Len(al[k]) : c = <<k, y>>
      BY <1>4 DEF IsView
    <3>2. ASSUME NEW k \in Modules, NEW y \in 1 .. Len(al2[k]), c = <<k, y>>
          PROVE  c \in DOMAIN w
      BY <1>8, <1>11, <3>1, <3>2
    <3>3. ASSUME NEW k \in Modules, NEW y \in 1 .. Len(al[k]), c = <<k, y>>
          PROVE  \E i \in Modules : \E j \in 1 .. Len(al2[i]) : c = <<i, j>>
      <4>1. y \in 1 .. Len(al2[k])
        <5>1. CASE k = m
          BY <1>1, <1>3, <1>9, <5>1
        <5>2. CASE k /= m
          BY <5>2
        <5> QED
          BY <5>1, <5>2
      <4> QED
        BY <3>3, <4>1
    <3>4. c = n => \E i \in Modules : \E j \in 1 .. Len(al2[i]) : c = <<i, j>>
      <4>1. Len(up) + 1 \in 1 .. Len(al2[m])
        BY <1>3, <1>9
      <4> QED
        BY <1>2, <4>1
    <3> QED
      BY <1>8, <3>1, <3>2, <3>3, <3>4
  <2> QED
    BY <1>10, <1>11, <2>1 DEF IsView
<1>13. Acts(w, al2, k0, js)
  BY <1>11 DEF Acts
<1> QED
  BY <1>2, <1>7, <1>12, <1>13 DEF Shown
------------------------------------------------------------------------------
\* Has signal t been covered?
Due(t) == Passed(t[1]) /\ ~(phase = "cover" /\ t[1] = mod /\ t[2] \in UNION toCover)

\* What is to be covered, and what has been.
Coverable == {t \in Targeted : Instrumented(t[1]) /\ t[2] \in Selected(design[t[1]])}
CoveredTargets == {t \in Coverable : Due(t)}

\* The module whose instances are being resolved, and those of them that are left.
NextMod == IF phase \in {"alias", "cover"} THEN 0 ELSE mod
NextInsts == IF phase = "resolve" THEN ToSet(toResolve) ELSE {}

\* View v traces what has been covered so far.
ShownNow(v) == Shown(v, annos, aliases, NextMod, NextInsts, CoveredTargets)

\* The inductive invariant of the report: as long as the groups are right, there is
\* a view that traces everything that has been covered.
Reporting ==
    /\ phase = "alias" => \A k \in Modules : aliases[k] = <<>>
    /\ phase = "done" => mod = Main
    /\ phase = "resolve" => IsInjective(toResolve)
    /\ phase \notin {"alias", "failed"} /\ groups = Alias!TrueGroups => \E v : ShownNow(v)

\* Views are about the design, which does not change.
LEMMA PathsStay ==
    ASSUME UNCHANGED design
    PROVE  /\ Modules' = Modules /\ Paths' = Paths /\ Nets' = Nets
           /\ \A k, m, js : Left(k, m, js)' = Left(k, m, js)
<1>1. Modules' = Modules
  BY DEF Modules
<1>2. Paths' = Paths
  BY DEF Paths, Modules, Main
<1>3. Nets' = Nets
  <2>1. PICK wires : wires = AllWires
    OBVIOUS
  <2>2. AllWires' = wires
    <3>1. PICK paths, ks, d : paths = Paths /\ ks = Modules /\ d = design
      OBVIOUS
    <3> DEFINE W(k, q) == {{q \o s, q \o d[k].drivers[s]} : s \in DOMAIN d[k].drivers \ d[k].regs}
    <3>2. AllWires = UNION {UNION {W(k, q) : q \in paths[k]} : k \in ks}
      BY <3>1 DEF AllWires, WiresAt, Driven
    <3>3. paths = Paths' /\ ks = Modules' /\ d = design'
      BY <1>1, <1>2, <3>1
    <3>4. AllWires' = UNION {UNION {W(k, q) : q \in paths[k]} : k \in ks}
      BY <3>3 DEF AllWires, WiresAt, Driven
    <3> QED
      BY <2>1, <3>2, <3>4
  <2>3. Nets = Alias!Connected(wires)
    BY <2>1, NetsAre
  <2>4. Nets' = Alias!Connected(AllWires')
    BY DEF Nets, AllWires, WiresAt, Driven
  <2> QED
    BY <2>2, <2>3, <2>4
<1>4. ASSUME NEW k, NEW m, NEW js PROVE Left(k, m, js)' = Left(k, m, js)
  <2>1. \A q, p, i, r : EndsWith(k, q, p, i, r)' = EndsWith(k, q, p, i, r)
    BY <1>1, <1>2 DEF EndsWith
  <2> QED
    BY <1>2, <2>1 DEF Left
<1> QED
  BY <1>1, <1>2, <1>3, <1>4

\* So a view does not depend on the step.
LEMMA ShownStays ==
    ASSUME UNCHANGED <<design, kinds>>, NEW v, NEW an, NEW al, NEW m, NEW js, NEW ts
    PROVE  Shown(v, an, al, m, js, ts)' = Shown(v, an, al, m, js, ts)
<1>1. /\ Modules' = Modules /\ Paths' = Paths /\ Nets' = Nets /\ Targeted' = Targeted
      /\ \A k, i, is : Left(k, i, is)' = Left(k, i, is)
  BY PathsStay, DesignStays DEF SameSignals
<1>2. IsView(v, an, al)' = IsView(v, an, al)
  BY <1>1 DEF IsView, ShowsAnno, ShowsEntry, FromEnd
<1>3. Acts(v, al, m, js)' = Acts(v, al, m, js)
  BY <1>1 DEF Acts
<1>4. Known(v, ts)' = Known(v, ts)
  BY <1>1 DEF Known
<1>5. Represented(v)' = Represented(v)
  BY <1>1 DEF Represented, NetIn
<1>6. OneCarrier(v)' = OneCarrier(v)
  BY DEF OneCarrier
<1>7. \A t : Traced(v, t, Paths[t[1]], Nets)' = Traced(v, t, Paths[t[1]], Nets)
  BY <1>1 DEF Traced, TracedBy, IsSpot, NetIn
<1>8. Whole(v, ts)' = Whole(v, ts)
  BY <1>4, <1>5, <1>6, <1>7 DEF Whole
<1> QED
  BY <1>2, <1>3, <1>8 DEF Shown

\* A view after a step is one of the next state.
LEMMA ShownNext ==
    ASSUME UNCHANGED <<design, kinds>>, NEW v,
           Shown(v, annos', aliases', NextMod', NextInsts', CoveredTargets')
    PROVE  ShownNow(v)'
<1>1. PICK an, al, m, js, ts : /\ an = annos' /\ al = aliases' /\ m = NextMod'
                               /\ js = NextInsts' /\ ts = CoveredTargets'
  OBVIOUS
<1>2. Shown(v, an, al, m, js, ts)'
  BY <1>1, ShownStays
<1>3. /\ IsView(v, an, al)' /\ Acts(v, al, m, js)' /\ Whole(v, ts)'
  BY <1>2 DEF Shown
<1>4. IsView(v, annos, aliases)'
  BY <1>1, <1>3 DEF IsView, FromEnd
<1>5. Acts(v, aliases, NextMod, NextInsts)'
  BY <1>1, <1>3 DEF Acts, Left
<1>6. Whole(v, CoveredTargets)'
  BY <1>1, <1>3 DEF Whole, Known
<1> QED
  BY <1>4, <1>5, <1>6 DEF ShownNow, Shown

\* Only the paths that are left matter of how far the resolution has come.
LEMMA ShownFurther ==
    ASSUME NEW v, NEW an, NEW al, NEW m, NEW js, NEW ts, Shown(v, an, al, m, js, ts),
           NEW n, NEW is, \A k \in Modules : Left(k, n, is) = Left(k, m, js)
    PROVE  Shown(v, an, al, n, is, ts)
BY DEF Shown, Acts
------------------------------------------------------------------------------
\* What is covered after a step.
LEMMA CoveredNext ==
    ASSUME UNCHANGED <<design, kinds>>, NEW ts, ts \subseteq Coverable,
           \A t \in Coverable : Due(t)' <=> t \in ts
    PROVE  CoveredTargets' = ts
<1>1. SameSignals
  BY DesignStays
<1>2. PICK all : all = Coverable
  OBVIOUS
<1>3. \A t \in Targeted : t[1] \in Modules
  BY DEF Targeted
<1>4. Coverable' = all
  <2>1. /\ Coverable = {t \in Targeted : Instrumented(t[1]) /\ t[2] \in Selected(design[t[1]])}
        /\ Coverable' = {t \in Targeted' : Instrumented(t[1])' /\ t[2] \in Selected(design[t[1]])'}
    BY DEF Coverable
  <2> QED
    BY <1>1, <1>2, <1>3, <2>1 DEF SameSignals
<1>5. CoveredTargets' = {t \in all : Due(t)'}
  BY <1>4 DEF CoveredTargets
<1> QED
  BY <1>2, <1>5

\* At first there is nothing to trace.
LEMMA NothingShown ==
    ASSUME annos = <<>>, \A k \in Modules : aliases[k] = <<>>, NEW m, NEW js
    PROVE  \E v : Shown(v, annos, aliases, m, js, {})
<1>1. PICK v : v = [c \in {} |-> 0]
  OBVIOUS
<1>2. DOMAIN v = {}
  BY <1>1
<1>3. \A y : y \notin 1 .. Len(annos)
  OBVIOUS
<1>4. \A k \in Modules : \A y : y \notin 1 .. Len(aliases[k])
  OBVIOUS
<1>5. IsView(v, annos, aliases) /\ Acts(v, aliases, m, js)
  BY <1>2, <1>3, <1>4 DEF IsView, Acts
<1>6. Whole(v, {})
  BY <1>2 DEF Whole, Known, Represented, OneCarrier
<1> QED
  BY <1>5, <1>6 DEF Shown

\* Entering a module covers nothing.
LEMMA EnterCovered ==
    ASSUME ToggleIInv, EnterModule
    PROVE  CoveredTargets' = CoveredTargets /\ (phase = "alias" => CoveredTargets = {})
<1>1. UNCHANGED <<design, kinds, groups>>
  BY DEF EnterModule, alias
<1>2. design \in Designs /\ (phase = "alias" => mod = 0) /\ (phase /= "alias" => mod \in Modules)
  BY DEF ToggleIInv, ToggleTypes
<1>3. Modules = 1 .. Main /\ Main \in Nat \ {0}
  BY <1>2, DesignShape
<1>4. /\ phase' = "cover" /\ mod' = mod + 1
      /\ toCover' = IF Instrumented(mod') THEN SignalGroups(mod') ELSE {}
      /\ phase = "alias" \/ (phase = "cover" /\ toCover = {} /\ mod < Main)
  BY DEF EnterModule
<1>5. PICK m \in Modules : m = mod'
  <2>1. mod' \in Modules
    BY <1>2, <1>3, <1>4
  <2> QED
    BY <2>1
<1>6. m = mod + 1 /\ toCover' = IF Instrumented(m) THEN SignalGroups(m) ELSE {}
  BY <1>4, <1>5
<1>7. ASSUME NEW t \in Coverable PROVE Due(t)' <=> t \in CoveredTargets
  <2>1. PICK k, s : k = t[1] /\ s = t[2]
    OBVIOUS
  <2>2. k \in Modules /\ Instrumented(k) /\ s \in Selected(design[k])
    BY <2>1 DEF Coverable, Targeted
  <2>3. t \in CoveredTargets <=>
            (phase = "cover" /\ k <= mod /\ ~(k = mod /\ s \in UNION toCover))
    BY <1>4, <2>1 DEF CoveredTargets, Due, Passed
  <2>4. Due(t)' <=> k <= m /\ ~(k = m /\ s \in UNION toCover')
    BY <1>4, <1>5, <2>1 DEF Due, Passed
  <2>5. CASE k = m
    <3>1. s \in UNION toCover'
      BY <1>6, <2>2, <2>5, GroupsSelected
    <3>2. ~(phase = "cover" /\ k <= mod)
      BY <1>2, <1>3, <1>6, <2>5
    <3> QED
      BY <2>3, <2>4, <2>5, <3>1, <3>2
  <2>6. CASE k /= m
    <3>1. k <= m <=> phase = "cover" /\ k <= mod
      BY <1>2, <1>3, <1>4, <1>6, <2>2, <2>6
    <3>2. phase = "cover" => s \notin UNION toCover
      BY <1>4
    <3> QED
      BY <2>3, <2>4, <2>6, <3>1, <3>2
  <2> QED
    BY <2>5, <2>6
<1>8. CoveredTargets \subseteq Coverable
  BY DEF CoveredTargets
<1>9. CoveredTargets' = CoveredTargets
  <2>1. PICK ts : ts = CoveredTargets
    OBVIOUS
  <2> QED
    BY <1>1, <1>7, <1>8, <2>1, CoveredNext
<1> QED
  BY <1>9 DEF CoveredTargets, Due, Passed

\* EnterModule preserves the invariant.
LEMMA EnterModuleReporting == ToggleIInv /\ Reporting /\ EnterModule => Reporting'
<1> SUFFICES ASSUME ToggleIInv, Reporting, EnterModule PROVE Reporting'
  OBVIOUS
<1>1. UNCHANGED <<design, kinds, groups, annos, aliases>> /\ phase' = "cover"
  BY DEF EnterModule, alias
<1>2. NextMod' = 0 /\ NextInsts' = {}
  BY <1>1 DEF NextMod, NextInsts
<1>3. CoveredTargets' = CoveredTargets /\ (phase = "alias" => CoveredTargets = {})
  BY EnterCovered
<1>4. ASSUME groups' = Alias!TrueGroups' PROVE \E v : ShownNow(v)'
  <2>1. groups = Alias!TrueGroups
    BY <1>1, <1>4, TrueStay
  <2>2. phase = "alias" \/ phase = "cover"
    BY DEF EnterModule
  <2>3. \E v : Shown(v, annos, aliases, 0, {}, CoveredTargets)
    <3>1. CASE phase = "alias"
      <4>1. annos = <<>> /\ \A k \in Modules : aliases[k] = <<>>
        BY <3>1 DEF ToggleIInv, ToggleTypes, Reporting
      <4> QED
        BY <1>3, <3>1, <4>1, NothingShown
    <3>2. CASE phase = "cover"
      <4>1. PICK v : ShownNow(v)
        BY <2>1, <3>2 DEF Reporting
      <4>2. NextMod = 0 /\ NextInsts = {}
        BY <3>2 DEF NextMod, NextInsts
      <4> QED
        BY <4>1, <4>2 DEF ShownNow
    <3> QED
      BY <2>2, <3>1, <3>2
  <2>4. PICK v : Shown(v, annos, aliases, 0, {}, CoveredTargets)
    BY <2>3
  <2>5. Shown(v, annos', aliases', NextMod', NextInsts', CoveredTargets')
    BY <1>1, <1>2, <1>3, <2>4
  <2>6. ShownNow(v)'
    BY <1>1, <2>5, ShownNext
  <2> QED
    BY <2>6
<1> QED
  BY <1>1, <1>4 DEF Reporting
------------------------------------------------------------------------------
\* What is known when group g of module m is covered.
GroupAt(m, g) ==
    /\ m \in Modules /\ g \in SignalGroups(m) /\ g \subseteq Selected(design[m])
    /\ design \in Designs /\ groups = Alias!TrueGroups

\* The signals of a group are connected.
LEMMA GroupConnected ==
    ASSUME NEW m, NEW g, GroupAt(m, g)
    PROVE  \A r, s \in g : \A q \in Paths[m] : SameNet(q, s, q, r)
<1>1. m \in Modules /\ design \in Designs /\ groups[m] = Alias!TrueGroups[m]
  BY DEF GroupAt
<1>2. (\E s : g = {s}) \/ (\E h \in groups[m] : g \subseteq h)
  <2>1. PICK selected, aliased :
            /\ selected = Selected(design[m])
            /\ aliased = {x \in {h \cap selected : h \in groups[m]} : Cardinality(x) > 1}
    OBVIOUS
  <2>2. g \in aliased \cup {{s} : s \in selected \ UNION aliased}
    BY <2>1 DEF GroupAt, SignalGroups
  <2>3. \A x \in aliased : \E h \in groups[m] : x \subseteq h
    BY <2>1
  <2> QED
    BY <2>2, <2>3
<1>3. CASE \E s : g = {s}
  BY <1>3 DEF SameNet
<1>4. CASE \E h \in groups[m] : g \subseteq h
  <2> SUFFICES ASSUME NEW r \in g, NEW s \in g, NEW q \in Paths[m]
               PROVE  SameNet(q, s, q, r)
    OBVIOUS
  <2>1. PICK h \in Alias!TrueGroups[m] : g \subseteq h
    BY <1>1, <1>4
  <2>2. PICK net \in Nets : \A x \in h : q \o x \in net
    BY <1>1, GroupsInNets
  <2>3. q \o s \in net /\ q \o r \in net
    BY <2>1, <2>2
  <2>4. Separate(Nets)
    BY <1>1, NetsRight
  <2>5. NetIn(Nets, q \o s) = NetIn(Nets, q \o r)
    <3>1. PICK x, y : x = q \o s /\ y = q \o r
      OBVIOUS
    <3>2. x \in net /\ y \in net
      BY <2>3, <3>1
    <3>3. NetIn(Nets, x) = NetIn(Nets, y)
      BY <2>4, <3>2, OneNet
    <3> QED
      BY <3>1, <3>3
  <2> QED
    BY <2>5 DEF SameNet
<1> QED
  BY <1>2, <1>3, <1>4

\* Its targets are what is covered then.
LEMMA GroupCovered ==
    ASSUME ToggleIInv, phase = "cover", NEW m, m = mod, NEW g, GroupAt(m, g), g \in toCover,
           toCover' = toCover \ {g}, UNCHANGED <<design, kinds, phase, mod>>
    PROVE  /\ GroupTargets(m, g) \cap CoveredTargets = {}
           /\ CoveredTargets' = CoveredTargets \cup GroupTargets(m, g)
<1>1. PICK T : T = GroupTargets(m, g)
  OBVIOUS
<1>2. \A t : t \in T <=> \E s \in g : t = <<m, s>>
  BY <1>1 DEF GroupTargets
<1>3. ASSUME NEW t \in T PROVE t \in Coverable /\ ~Due(t)
  <2>1. PICK s \in g : t = <<m, s>>
    BY <1>2
  <2>2. t[1] = m /\ t[2] = s /\ s \in Selected(design[m]) /\ m \in Modules
    BY <2>1 DEF GroupAt
  <2>3. t \in Targeted
    BY <2>1, <2>2 DEF Targeted, Covered
  <2>4. Instrumented(m)
    BY DEF ToggleIInv, ToDo
  <2> QED
    BY <2>2, <2>3, <2>4 DEF Coverable, Due
<1>4. \A h \in toCover : h \cap g /= {} => h = g
  <2>1. design \in Designs /\ m \in Modules /\ groups[m] = Alias!TrueGroups[m]
    BY DEF GroupAt
  <2>2. Separate(groups[m])
    BY <2>1, TrueGroupsSeparate
  <2>3. Separate(SignalGroups(m))
    BY <2>2, SignalGroupsSeparate
  <2>4. toCover \subseteq SignalGroups(m)
    BY DEF ToggleIInv, ToDo
  <2> QED
    BY <2>3, <2>4 DEF Separate
<1>5. ASSUME NEW s PROVE s \in UNION (toCover \ {g}) <=> s \in UNION toCover /\ s \notin g
  BY <1>4
<1>6. \A t \in Targeted : t = <<t[1], t[2]>>
  BY DEF Targeted
<1>7. ASSUME NEW t \in Coverable PROVE Due(t)' <=> t \in CoveredTargets \cup T
  <2>1. PICK k, s : k = t[1] /\ s = t[2]
    OBVIOUS
  <2>2. t = <<k, s>>
    BY <1>6, <2>1 DEF Coverable
  <2>3. t \in CoveredTargets <=> k <= m /\ ~(k = m /\ s \in UNION toCover)
    BY <2>1 DEF CoveredTargets, Due, Passed
  <2>4. Due(t)' <=> k <= m /\ ~(k = m /\ s \in UNION (toCover \ {g}))
    BY <2>1 DEF Due, Passed
  <2>5. t \in T <=> k = m /\ s \in g
    BY <1>2, <2>2
  <2>6. m <= m
    BY DesignShape DEF GroupAt
  <2>7. s \in g => s \in UNION toCover
    OBVIOUS
  <2> QED
    BY <1>5, <2>3, <2>4, <2>5, <2>6, <2>7
<1>8. CoveredTargets \cup T \subseteq Coverable
  BY <1>3 DEF CoveredTargets
<1>9. CoveredTargets' = CoveredTargets \cup T
  <2>1. PICK ts : ts = CoveredTargets \cup T
    OBVIOUS
  <2> QED
    BY <1>7, <1>8, <2>1, CoveredNext
<1>10. T \cap CoveredTargets = {}
  BY <1>3 DEF CoveredTargets
<1> QED
  BY <1>1, <1>9, <1>10

\* What is listed for it.
LEMMA GroupListed ==
    ASSUME NEW m, NEW g, GroupAt(m, g), NEW l, l = Targets(m, g)
    PROVE  l \in Seq(Targeted) /\ ToSet(l) = GroupTargets(m, g) /\ IsInjective(l)
<1>1. design \in Designs /\ m \in Modules /\ g \subseteq Selected(design[m])
  BY DEF GroupAt
<1>2. /\ Targets(m, g) \in Seq(Targeted) /\ ToSet(Targets(m, g)) = {<<m, s>> : s \in g}
      /\ IsInjective(Targets(m, g))
  BY <1>1, TargetsAre
<1> QED
  BY <1>2 DEF GroupTargets

\* A group is sampled: the view has one more cover point.
LEMMA SampleReporting ==
    ASSUME ToggleIInv, phase = "cover", NEW v, ShownNow(v),
           NEW m, m = mod, NEW g, GroupAt(m, g), g \in toCover, NEW r \in g,
           annos' = <<[mod |-> m, sampled |-> r, signals |-> Targets(m, g)]>> \o annos,
           toCover' = toCover \ {g},
           UNCHANGED <<design, kinds, groups, aliases, phase, mod>>
    PROVE  \E w : ShownNow(w)'
<1>1. PICK an, al, new, l, ts : /\ an = annos /\ al = aliases /\ new = annos'
                                /\ l = Targets(m, g) /\ ts = CoveredTargets
  OBVIOUS
<1>2. design \in Designs /\ an \in Seq(Annotations)
  BY <1>1 DEF ToggleIInv, ToggleTypes
<1>3. NextMod = 0 /\ NextInsts = {} /\ NextMod' = 0 /\ NextInsts' = {}
  BY DEF NextMod, NextInsts
<1>4. Shown(v, an, al, 0, {}, ts)
  BY <1>1, <1>3 DEF ShownNow
<1>5. l \in Seq(Targeted) /\ ToSet(l) = GroupTargets(m, g) /\ IsInjective(l)
  BY <1>1, GroupListed
<1>6. m \in Modules /\ r \in Covered
  BY DEF GroupAt, Covered
<1>7. PICK a : a = [mod |-> m, sampled |-> r, signals |-> l]
  OBVIOUS
<1>8. a \in Annotations /\ a.mod = m /\ a.sampled = r /\ a.signals = l
  BY <1>5, <1>6, <1>7 DEF Annotations
<1>9. new = <<a>> \o an
  BY <1>1, <1>7
<1>10. NewFirst(an, new, a)
  BY <1>2, <1>8, <1>9, FromEndFirst
<1>11. GroupTargets(m, g) \cap ts = {} /\ CoveredTargets' = ts \cup GroupTargets(m, g)
  BY <1>1, GroupCovered
<1>12. \A q \in Paths[m] : \A s \in g : SameNet(q, s, q, r)
  BY GroupConnected
<1>13. PICK w : Shown(w, new, al, 0, {}, ts \cup GroupTargets(m, g))
  BY <1>2, <1>4, <1>5, <1>6, <1>8, <1>10, <1>11, <1>12, SampleShown
<1>14. Shown(w, annos', aliases', NextMod', NextInsts', CoveredTargets')
  BY <1>1, <1>3, <1>11, <1>13
<1>15. ShownNow(w)'
  BY <1>14, ShownNext
<1> QED
  BY <1>15

\* A group is passed up: the view has one more port to resolve.
LEMMA PassUpReporting ==
    ASSUME ToggleIInv, phase = "cover", NEW v, ShownNow(v),
           NEW m, m = mod, NEW g, GroupAt(m, g), g \in toCover, NEW r \in g, ~IsTop(m),
           aliases' = [aliases EXCEPT ![m] = <<<<r, Targets(m, g)>>>> \o @],
           toCover' = toCover \ {g},
           UNCHANGED <<design, kinds, groups, annos, phase, mod>>
    PROVE  \E w : ShownNow(w)'
<1>1. PICK an, al, al2, l, ts : /\ an = annos /\ al = aliases /\ al2 = aliases'
                                /\ l = Targets(m, g) /\ ts = CoveredTargets
  OBVIOUS
<1>2. design \in Designs /\ al \in [Modules -> Seq(Entries)]
  BY <1>1 DEF ToggleIInv, ToggleTypes
<1>3. NextMod = 0 /\ NextInsts = {} /\ NextMod' = 0 /\ NextInsts' = {}
  BY DEF NextMod, NextInsts
<1>4. Shown(v, an, al, 0, {}, ts)
  BY <1>1, <1>3 DEF ShownNow
<1>5. l \in Seq(Targeted) /\ ToSet(l) = GroupTargets(m, g) /\ IsInjective(l)
  BY <1>1, GroupListed
<1>6. m \in Modules /\ r \in Covered /\ m /= Main /\ 0 <= m
  BY <1>2, DesignShape DEF GroupAt, Covered, IsTop
<1>7. PICK e, old : e = <<r, l>> /\ old = al[m]
  OBVIOUS
<1>8. e \in Entries /\ e[1] = r /\ e[2] = l /\ old \in Seq(Entries)
  BY <1>2, <1>5, <1>6, <1>7 DEF Entries
<1>9. PICK new : new = <<e>> \o old
  OBVIOUS
<1>10. al2 = [al EXCEPT ![m] = new]
  BY <1>1, <1>7, <1>9
<1>11. al2[m] = new /\ \A k \in Modules : k /= m => al2[k] = al[k]
  BY <1>2, <1>6, <1>10
<1>12. NewFirst(al[m], al2[m], e)
  <2>1. NewFirst(old, new, e)
    BY <1>8, <1>9, FromEndFirst
  <2> QED
    BY <1>7, <1>11, <2>1
<1>13. GroupTargets(m, g) \cap ts = {} /\ CoveredTargets' = ts \cup GroupTargets(m, g)
  BY <1>1, GroupCovered
<1>14. \A q \in Paths[m] : \A s \in g : SameNet(q, s, q, r)
  BY GroupConnected
<1>15. 0 \in Nat
  OBVIOUS
<1>16. PICK w : Shown(w, an, al2, 0, {}, ts \cup GroupTargets(m, g))
  BY <1>2, <1>4, <1>5, <1>6, <1>8, <1>11, <1>12, <1>13, <1>14, <1>15, PassUpShown
<1>17. Shown(w, annos', aliases', NextMod', NextInsts', CoveredTargets')
  BY <1>1, <1>3, <1>13, <1>16
<1>18. ShownNow(w)'
  BY <1>17, ShownNext
<1> QED
  BY <1>18

\* CoverGroup preserves the invariant.
LEMMA CoverGroupReporting == ToggleIInv /\ Reporting /\ CoverGroup => Reporting'
<1> SUFFICES ASSUME ToggleIInv, Reporting, CoverGroup PROVE Reporting'
  OBVIOUS
<1>1. phase = "cover" /\ toCover /= {} /\ UNCHANGED <<design, kinds, groups, phase, mod>>
  BY DEF CoverGroup, alias
<1>2. PICK g : g = CHOOSE h \in toCover : TRUE
  OBVIOUS
<1>3. g \in toCover /\ toCover' = toCover \ {g}
  BY <1>1, <1>2 DEF CoverGroup
<1>4. PICK m : m = mod
  OBVIOUS
<1>5. \/ /\ ~IsTop(m) /\ UNCHANGED annos
         /\ \E port \in g \cap design[m].ports :
               aliases' = [aliases EXCEPT ![m] = <<<<port, Targets(m, g)>>>> \o @]
      \/ /\ UNCHANGED aliases
         /\ \E head \in g :
               annos' = <<[mod |-> m, sampled |-> head, signals |-> Targets(m, g)]>> \o annos
  BY <1>2, <1>4 DEF CoverGroup
<1>6. ASSUME groups' = Alias!TrueGroups' PROVE \E w : ShownNow(w)'
  <2>1. groups = Alias!TrueGroups
    BY <1>1, <1>6, TrueStay
  <2>2. PICK v : ShownNow(v)
    BY <1>1, <2>1 DEF Reporting
  <2>3. design \in Designs /\ m \in Modules /\ g \in SignalGroups(m)
    BY <1>1, <1>3, <1>4 DEF ToggleIInv, ToggleTypes, ToDo
  <2>4. GroupAt(m, g)
    BY <2>1, <2>3, GroupsSelected DEF GroupAt
  <2>5. CASE ~IsTop(m) /\ UNCHANGED annos
             /\ \E port \in g \cap design[m].ports :
                   aliases' = [aliases EXCEPT ![m] = <<<<port, Targets(m, g)>>>> \o @]
    BY <1>1, <1>3, <1>4, <2>2, <2>4, <2>5, PassUpReporting
  <2>6. CASE UNCHANGED aliases
             /\ \E head \in g :
                   annos' = <<[mod |-> m, sampled |-> head, signals |-> Targets(m, g)]>> \o annos
    BY <1>1, <1>3, <1>4, <2>2, <2>4, <2>6, SampleReporting
  <2> QED
    BY <1>5, <2>5, <2>6
<1> QED
  BY <1>1, <1>6 DEF Reporting
------------------------------------------------------------------------------
\* The resolution covers nothing.
LEMMA ResolveCovered ==
    ASSUME ToggleIInv, UNCHANGED <<design, kinds>>, phase' \in {"resolve", "done"},
           phase = "resolve" \/ (phase = "cover" /\ mod = Main /\ toCover = {})
    PROVE  CoveredTargets' = CoveredTargets
<1>1. design \in Designs /\ Modules = 1 .. Main /\ Main \in Nat
  BY DesignShape DEF ToggleIInv, ToggleTypes
<1>2. \A t \in Targeted : t[1] \in Modules
  BY DEF Targeted
<1>3. \A t \in Coverable : t[1] <= Main
  BY <1>1, <1>2 DEF Coverable
<1>4. \A t \in Coverable : Due(t)' /\ Due(t)
  BY <1>3 DEF Due, Passed
<1>5. PICK ts : ts = CoveredTargets
  OBVIOUS
<1>6. ts = Coverable
  BY <1>4, <1>5 DEF CoveredTargets
<1> QED
  BY <1>4, <1>5, <1>6, CoveredNext

\* A step of it that leaves cover points and port aliases alone.
LEMMA ResolveShown ==
    ASSUME ToggleIInv, UNCHANGED <<design, kinds, annos, aliases>>,
           phase' \in {"resolve", "done"},
           phase = "resolve" \/ (phase = "cover" /\ mod = Main /\ toCover = {}),
           \A k \in Modules : Left(k, NextMod', NextInsts') = Left(k, NextMod, NextInsts),
           NEW v, ShownNow(v)
    PROVE  ShownNow(v)'
<1>1. PICK an, al, m, js, n, is, ts : /\ an = annos /\ al = aliases /\ ts = CoveredTargets
                                      /\ m = NextMod /\ js = NextInsts
                                      /\ n = NextMod' /\ is = NextInsts'
  OBVIOUS
<1>2. Shown(v, an, al, m, js, ts)
  BY <1>1 DEF ShownNow
<1>3. \A k \in Modules : Left(k, n, is) = Left(k, m, js)
  BY <1>1
<1>4. Shown(v, an, al, n, is, ts)
  BY <1>2, <1>3, ShownFurther
<1>5. CoveredTargets' = ts
  BY <1>1, ResolveCovered
<1>6. Shown(v, annos', aliases', NextMod', NextInsts', CoveredTargets')
  BY <1>1, <1>4, <1>5
<1> QED
  BY <1>6, ShownNext

\* ResolveModule preserves the invariant.
LEMMA ResolveModuleReporting == ToggleIInv /\ Reporting /\ ResolveModule => Reporting'
<1> SUFFICES ASSUME ToggleIInv, Reporting, ResolveModule PROVE Reporting'
  OBVIOUS
<1>1. UNCHANGED <<design, kinds, groups, annos, aliases>> /\ phase' = "resolve"
  BY DEF ResolveModule, alias
<1>2. /\ design \in Designs /\ Modules = 1 .. Main /\ Main \in Nat \ {0}
      /\ phase /= "alias" => mod \in Modules
  BY DesignShape DEF ToggleIInv, ToggleTypes
<1>3. \/ phase = "cover" /\ mod = Main /\ toCover = {} /\ mod' = 1
      \/ phase = "resolve" /\ toResolve = <<>> /\ mod < Main /\ mod' = mod + 1
  BY DEF ResolveModule
<1>4. PICK m, n : m = NextMod /\ n = NextMod'
  OBVIOUS
<1>5. m \in Nat /\ n = m + 1 /\ n = mod' /\ n \in Modules /\ NextInsts = {}
  <2>1. n = mod'
    BY <1>1, <1>4 DEF NextMod
  <2>2. CASE phase = "cover"
    BY <1>2, <1>3, <1>4, <2>1, <2>2 DEF NextMod, NextInsts
  <2>3. CASE phase = "resolve"
    <3>1. ToSet(toResolve) = {}
      BY <1>3, <2>3 DEF ToSet
    <3> QED
      BY <1>2, <1>3, <1>4, <2>1, <2>3, <3>1 DEF NextMod, NextInsts
  <2> QED
    BY <1>3, <2>2, <2>3
<1>6. PICK S : S = DOMAIN design[n].instances
  OBVIOUS
<1>7. SetToSeq(S) \in Seq(S) /\ ToSet(SetToSeq(S)) = S /\ IsInjective(SetToSeq(S))
  <2>1. IsFiniteSet(S)
    BY <1>2, <1>5, <1>6, DesignShape DEF FiniteModule
  <2> QED
    BY <2>1, SetToSeqIs
<1>8. toResolve' = SetToSeq(S)
  BY <1>5, <1>6 DEF ResolveModule
<1>9. NextInsts' = S
  BY <1>1, <1>7, <1>8 DEF NextInsts
<1>10. \A k \in Modules : Left(k, NextMod', NextInsts') = Left(k, NextMod, NextInsts)
  <2> SUFFICES ASSUME NEW k \in Modules
               PROVE  Left(k, NextMod', NextInsts') = Left(k, NextMod, NextInsts)
    OBVIOUS
  <2>1. Left(k, m, {}) = Left(k, m + 1, DOMAIN design[m + 1].instances)
    BY <1>2, <1>5, LeftNext
  <2>2. Left(k, m, {}) = Left(k, n, S)
    BY <1>5, <1>6, <2>1
  <2> QED
    BY <1>4, <1>5, <1>9, <2>2
<1>11. ASSUME groups' = Alias!TrueGroups' PROVE \E w : ShownNow(w)'
  <2>1. groups = Alias!TrueGroups
    BY <1>1, <1>11, TrueStay
  <2>2. PICK v : ShownNow(v)
    BY <1>3, <2>1 DEF Reporting
  <2>3. ShownNow(v)'
    BY <1>1, <1>3, <1>10, <2>2, ResolveShown
  <2> QED
    BY <2>3
<1> QED
  BY <1>1, <1>7, <1>8, <1>11 DEF Reporting, IsInjective

\* Finish preserves the invariant.
LEMMA FinishReporting == ToggleIInv /\ Reporting /\ Finish => Reporting'
<1> SUFFICES ASSUME ToggleIInv, Reporting, Finish PROVE Reporting'
  OBVIOUS
<1>1. /\ UNCHANGED <<design, kinds, groups, annos, aliases, mod>> /\ phase' = "done"
      /\ phase = "resolve" /\ toResolve = <<>> /\ mod = Main
  BY DEF Finish, alias
<1>2. ToSet(toResolve) = {}
  BY <1>1 DEF ToSet
<1>3. NextMod' = NextMod /\ NextInsts' = NextInsts
  BY <1>1, <1>2 DEF NextMod, NextInsts
<1>4. ASSUME groups' = Alias!TrueGroups' PROVE \E w : ShownNow(w)'
  <2>1. groups = Alias!TrueGroups
    BY <1>1, <1>4, TrueStay
  <2>2. PICK v : ShownNow(v)
    BY <1>1, <2>1 DEF Reporting
  <2>3. ShownNow(v)'
    BY <1>1, <1>3, <2>2, ResolveShown
  <2> QED
    BY <2>3
<1>5. mod' = Main'
  BY <1>1 DEF Main
<1> QED
  BY <1>1, <1>4, <1>5 DEF Reporting

\* So does a step that changes nothing of it.
LEMMA SameReporting ==
    ASSUME Reporting, phase = "alias", phase' = "alias", UNCHANGED <<design, aliases>>
    PROVE  Reporting'
<1>1. Modules' = Modules
  BY DEF Modules
<1> QED
  BY <1>1 DEF Reporting
------------------------------------------------------------------------------
\* The next of the instances, each of which is listed once.
LEMMA TailLess ==
    ASSUME NEW S, NEW l \in Seq(S), l /= <<>>, IsInjective(l)
    PROVE  /\ Head(l) \in ToSet(l) /\ ToSet(Tail(l)) = ToSet(l) \ {Head(l)}
           /\ IsInjective(Tail(l))
<1>1. Len(l) \in Nat \ {0} /\ DOMAIN l = 1 .. Len(l) /\ Head(l) = l[1]
  OBVIOUS
<1>2. PICK t : t = Tail(l)
  OBVIOUS
<1>3. /\ t \in Seq(S) /\ Len(t) = Len(l) - 1 /\ DOMAIN t = 1 .. Len(t)
      /\ \A i \in 1 .. Len(t) : t[i] = l[i + 1]
  BY <1>1, <1>2
<1>4. \A i, j \in 1 .. Len(l) : l[i] = l[j] => i = j
  BY <1>1 DEF IsInjective
<1>5. Head(l) \in ToSet(l)
  BY <1>1 DEF ToSet
<1>6. ASSUME NEW x \in ToSet(t) PROVE x \in ToSet(l) /\ x /= Head(l)
  <2>1. PICK i \in 1 .. Len(t) : x = t[i]
    BY <1>3, <1>6 DEF ToSet
  <2>2. x = l[i + 1] /\ i + 1 \in 1 .. Len(l) /\ i + 1 /= 1 /\ 1 \in 1 .. Len(l)
    BY <1>1, <1>3, <2>1
  <2>3. PICK j \in 1 .. Len(l) : j = i + 1
    BY <2>2
  <2>4. x = l[j] /\ j /= 1
    BY <2>2, <2>3
  <2> QED
    BY <1>1, <1>4, <2>2, <2>4 DEF ToSet
<1>7. ASSUME NEW x \in ToSet(l), x /= Head(l) PROVE x \in ToSet(t)
  <2>1. PICK i \in 1 .. Len(l) : x = l[i]
    BY <1>1 DEF ToSet
  <2>2. PICK j : j = i - 1
    OBVIOUS
  <2>3. j \in 1 .. Len(t) /\ j + 1 = i
    BY <1>1, <1>3, <1>7, <2>1, <2>2
  <2>4. t[j] = l[i]
    BY <1>3, <2>3
  <2> QED
    BY <1>3, <2>1, <2>3, <2>4 DEF ToSet
<1>8. IsInjective(t)
  <2> SUFFICES ASSUME NEW i \in 1 .. Len(t), NEW j \in 1 .. Len(t), t[i] = t[j] PROVE i = j
    BY <1>3 DEF IsInjective
  <2>1. PICK a, b : a = i + 1 /\ b = j + 1
    OBVIOUS
  <2>2. a \in 1 .. Len(l) /\ b \in 1 .. Len(l) /\ l[a] = l[b]
    BY <1>1, <1>3, <2>1
  <2>3. a = b
    BY <1>4, <2>2
  <2> QED
    BY <2>1, <2>3
<1> QED
  BY <1>2, <1>5, <1>6, <1>7, <1>8

\* ResolveInstance preserves the invariant.
LEMMA ResolveInstanceReporting == ToggleIInv /\ Reporting /\ ResolveInstance => Reporting'
<1> SUFFICES ASSUME ToggleIInv, Reporting, ResolveInstance PROVE Reporting'
  OBVIOUS
<1>1. phase = "resolve" /\ toResolve /= <<>> /\ UNCHANGED <<design, kinds, groups, mod>>
  BY DEF ResolveInstance, alias
<1>2. PICK x, m, S : x = Head(toResolve) /\ m = mod /\ S = DOMAIN design[mod].instances
  OBVIOUS
<1>3. /\ design \in Designs /\ m \in Modules /\ annos \in Seq(Annotations)
      /\ aliases \in [Modules -> Seq(Entries)]
  BY <1>1, <1>2 DEF ToggleIInv, ToggleTypes
<1>4. toResolve \in Seq(S) /\ IsInjective(toResolve)
  BY <1>1, <1>2 DEF ToggleIInv, ToDo, Reporting
<1>5. x \in S
  BY <1>1, <1>2, <1>4
<1>6. PICK js : js = ToSet(toResolve)
  OBVIOUS
<1>7. x \in js /\ ToSet(Tail(toResolve)) = js \ {x} /\ IsInjective(Tail(toResolve))
  BY <1>1, <1>2, <1>4, <1>6, TailLess
<1>8. Below(x) = design[m].instances[x]
  BY <1>2 DEF Below
<1>9. CASE \E e \in ToSet(aliases[Below(x)]) : Lost(<<x>> \o e[1])
  <2>1. phase' = "failed"
    BY <1>2, <1>8, <1>9 DEF ResolveInstance
  <2> QED
    BY <2>1 DEF Reporting
<1>10. CASE ~\E e \in ToSet(aliases[Below(x)]) : Lost(<<x>> \o e[1])
  <2>1. PICK s : s = Resolved(x, aliases[Below(x)])
    OBVIOUS
  <2>2. /\ annos' = s.annos /\ aliases' = [aliases EXCEPT ![mod] = s.up]
        /\ toResolve' = Tail(toResolve) /\ phase' = "resolve"
    BY <1>1, <1>2, <1>8, <1>10, <2>1 DEF ResolveInstance
  <2>3. \A e \in ToSet(aliases[Below(x)]) : ~Lost(Port(x, e))
    BY <1>10 DEF Port
  <2>4. AtInstance(x, js)
    <3>1. \A k \in Modules : \A e \in ToSet(aliases[k]) : e[1] \in design[k].ports /\ k /= Main
      BY DEF ToggleIInv, PortsMoveUp, IsTop
    <3> QED
      BY <1>2, <1>3, <1>5, <1>7, <3>1 DEF AtInstance
  <2>5. NextMod = mod /\ NextInsts = js /\ NextMod' = mod /\ NextInsts' = js \ {x}
    BY <1>1, <1>6, <1>7, <2>2 DEF NextMod, NextInsts
  <2>6. ASSUME groups' = Alias!TrueGroups' PROVE \E w : ShownNow(w)'
    <3>1. groups = Alias!TrueGroups
      BY <1>1, <2>6, TrueStay
    <3>2. PICK v : ShownNow(v)
      BY <1>1, <3>1 DEF Reporting
    <3>3. PICK ts : ts = CoveredTargets
      OBVIOUS
    <3>4. Shown(v, annos, aliases, mod, js, ts)
      BY <2>5, <3>2, <3>3 DEF ShownNow
    <3>5. PICK w : Shown(w, s.annos, AliasesWith(s.up), mod, js \ {x}, ts)
      BY <2>1, <2>3, <2>4, <3>4, InstanceWhole
    <3>6. CoveredTargets' = ts
      BY <1>1, <2>2, <3>3, ResolveCovered
    <3>7. Shown(w, annos', aliases', NextMod', NextInsts', CoveredTargets')
      BY <2>2, <2>5, <3>5, <3>6 DEF AliasesWith
    <3>8. ShownNow(w)'
      BY <1>1, <3>7, ShownNext
    <3> QED
      BY <3>8
  <2>7. IsInjective(toResolve')
    BY <1>7, <2>2
  <2> QED
    BY <2>2, <2>6, <2>7 DEF Reporting, IsInjective
<1> QED
  BY <1>9, <1>10

\* FindAliases does, and a step that changes nothing.
LEMMA OthersReporting ==
    ToggleIInv /\ Reporting /\ (FindAliases \/ UNCHANGED toggleVars) => Reporting'
<1> SUFFICES ASSUME ToggleIInv, Reporting, FindAliases \/ UNCHANGED toggleVars PROVE Reporting'
  OBVIOUS
<1>1. CASE FindAliases
  <2>1. phase = "alias" /\ phase' = "alias" /\ UNCHANGED <<design, aliases>>
    BY <1>1 DEF FindAliases, Alias!Next, Alias!StartModule, Alias!TakeAlias, Alias!FinishModule
  <2> QED
    BY <2>1, SameReporting
<1>2. CASE UNCHANGED toggleVars
  <2>1. /\ UNCHANGED <<design, kinds, groups, phase, mod, toCover, annos, aliases, toResolve>>
    BY <1>2 DEF toggleVars, alias
  <2>2. Modules' = Modules /\ Main' = Main
    BY <2>1 DEF Modules, Main
  <2>3. NextMod' = NextMod /\ NextInsts' = NextInsts
    BY <2>1 DEF NextMod, NextInsts
  <2>4. CoveredTargets' = CoveredTargets
    <3>1. \A t : Due(t)' <=> Due(t)
      BY <2>1 DEF Due, Passed
    <3>2. PICK ts : ts = CoveredTargets
      OBVIOUS
    <3>3. ts \subseteq Coverable /\ \A t \in Coverable : Due(t)' <=> t \in ts
      BY <3>1, <3>2 DEF CoveredTargets
    <3>4. CoveredTargets' = ts
      BY <2>1, <3>3, CoveredNext
    <3> QED
      BY <3>2, <3>4
  <2>5. ASSUME NEW v, ShownNow(v) PROVE ShownNow(v)'
    <3>1. Shown(v, annos', aliases', NextMod', NextInsts', CoveredTargets')
      BY <2>1, <2>3, <2>4, <2>5 DEF ShownNow
    <3> QED
      BY <2>1, <3>1, ShownNext
  <2>6. ASSUME phase' \notin {"alias", "failed"}, groups' = Alias!TrueGroups'
        PROVE  \E v : ShownNow(v)'
    <3>1. groups = Alias!TrueGroups
      BY <2>1, <2>6, TrueStay
    <3>2. PICK v : ShownNow(v)
      BY <2>1, <2>6, <3>1 DEF Reporting
    <3> QED
      BY <2>5, <3>2
  <2> QED
    BY <2>1, <2>2, <2>6 DEF Reporting, IsInjective
<1> QED
  BY <1>1, <1>2

\* In every design there is always a view that traces what has been covered.
THEOREM ReportingHolds == ToggleSpec => []Reporting
<1>1. ToggleInit => Reporting
  BY DEF ToggleInit, Reporting
<1>2. ToggleIInv /\ Reporting /\ [ToggleNext]_toggleVars => Reporting'
  BY EnterModuleReporting, CoverGroupReporting, ResolveModuleReporting,
     ResolveInstanceReporting, FinishReporting, OthersReporting DEF ToggleNext
<1> QED
  BY <1>1, <1>2, ToggleIInvHolds, PTL DEF ToggleSpec
------------------------------------------------------------------------------
\* Sets that are in one-to-one correspondence.
LEMMA SameNumber ==
    ASSUME NEW S, IsFiniteSet(S), NEW T, NEW g, \A x \in S : g[x] \in T,
           \A x, y \in S : g[x] = g[y] => x = y, \A z \in T : \E x \in S : g[x] = z
    PROVE  Cardinality(T) = Cardinality(S)
<1>1. PICK h : h = [x \in S |-> g[x]]
  OBVIOUS
<1>2. h \in [S -> T] /\ \A x \in S : h[x] = g[x]
  BY <1>1
<1>3. h \in Bijection(S, T)
  BY <1>2 DEF Bijection, Injection, Surjection, IsInjective
<1> QED
  BY <1>3, FS_Bijection DEF ExistsBijection

\* A count in the report for a target.
IsReported(t, n, q, i) ==
    /\ n \in 1 .. Len(annos) /\ q \in Paths[annos[n].mod]
    /\ i \in 1 .. Len(annos[n].signals) /\ annos[n].signals[i] = t

\* These are the counts that processCoverage finds.
LEMMA ReportedIs ==
    ASSUME annos \in Seq(Annotations), NEW t
    PROVE  \A r : r \in Reported(Paths, t) <=>
                      \E n, q, i : r = <<n, q, i>> /\ IsReported(t, n, q, i)
<1>1. DOMAIN annos = 1 .. Len(annos)
  OBVIOUS
<1>2. \A n \in 1 .. Len(annos) : DOMAIN annos[n].signals = 1 .. Len(annos[n].signals)
  BY DEF Annotations
<1> QED
  BY <1>1, <1>2 DEF Reported, IsReported

\* In the end only cover points carry anything.
LEMMA SpotsReported ==
    ASSUME design \in Designs, annos \in Seq(Annotations), aliases \in [Modules -> Seq(Entries)],
           NEW v, NEW ts, Shown(v, annos, aliases, Main, {}, ts), NEW t
    PROVE  /\ \A c, p, i : IsSpot(v, t, c, p, i) =>
                  \E y \in 1 .. Len(annos) : c = <<0, y>>
           /\ \A y \in 1 .. Len(annos) : \A p, i :
                  /\ IsSpot(v, t, <<0, y>>, p, i) <=> IsReported(t, Len(annos) - y + 1, p, i)
                  /\ v[<<0, y>>].rep = annos[Len(annos) - y + 1].sampled
<1>1. IsView(v, annos, aliases) /\ Acts(v, aliases, Main, {})
  BY DEF Shown
<1>2. ASSUME NEW c, NEW p, NEW i, IsSpot(v, t, c, p, i)
      PROVE  \E y \in 1 .. Len(annos) : c = <<0, y>>
  <2>1. c \in DOMAIN v /\ p \in v[c].act
    BY <1>2 DEF IsSpot
  <2>2. ASSUME NEW k \in Modules, NEW y \in 1 .. Len(aliases[k]), c = <<k, y>> PROVE FALSE
    <3>1. v[<<k, y>>].act = Left(k, Main, {})
      BY <1>1 DEF Acts
    <3>2. Left(k, Main, {}) = {}
      BY LeftNone
    <3> QED
      BY <2>1, <2>2, <3>1, <3>2
  <2> QED
    BY <1>1, <2>1, <2>2 DEF IsView
<1>3. ASSUME NEW y \in 1 .. Len(annos), NEW p, NEW i
      PROVE  /\ IsSpot(v, t, <<0, y>>, p, i) <=> IsReported(t, Len(annos) - y + 1, p, i)
             /\ v[<<0, y>>].rep = annos[Len(annos) - y + 1].sampled
  <2>1. PICK n, c : n = Len(annos) - y + 1 /\ c = <<0, y>>
    OBVIOUS
  <2>2. n \in 1 .. Len(annos) /\ FromEnd(annos, y) = annos[n]
    BY <2>1 DEF FromEnd
  <2>3. c \in DOMAIN v /\ ShowsAnno(v[c], annos[n])
    BY <1>1, <2>1, <2>2 DEF IsView
  <2>4. /\ v[c].rep = annos[n].sampled /\ v[c].act = Paths[annos[n].mod]
        /\ v[c].signals = annos[n].signals
    BY <2>3 DEF ShowsAnno
  <2>5. IsSpot(v, t, c, p, i) <=> IsReported(t, n, p, i)
    BY <2>2, <2>3, <2>4 DEF IsSpot, IsReported
  <2> QED
    BY <2>1, <2>4, <2>5
<1> QED
  BY <1>2, <1>3

\* What it is that the counts at place r, and those of a signal at path q, are of.
NetOfReported(r) == NetIn(Nets, r[2] \o annos[r[1]].sampled)
NetAt(q, s) == NetIn(Nets, q \o s)

\* The paths of a target and its counts are in one-to-one correspondence.
LEMMA ReportTraced ==
    ASSUME design \in Designs, annos \in Seq(Annotations), aliases \in [Modules -> Seq(Entries)],
           NEW v, NEW ts, Shown(v, annos, aliases, Main, {}, ts), NEW t \in ts
    PROVE  \E g : /\ \A q \in Paths[t[1]] : /\ g[q] \in Reported(Paths, t)
                                            /\ NetOfReported(g[q]) = NetAt(q, t[2])
                  /\ \A q, o \in Paths[t[1]] : g[q] = g[o] => q = o
                  /\ \A r \in Reported(Paths, t) : \E q \in Paths[t[1]] : g[q] = r
<1>1. PICK f : TracedBy(f, v, t, Paths[t[1]], Nets)
  BY DEF Shown, Whole, Traced
<1>2. PICK len : len = Len(annos)
  OBVIOUS
<1>3. /\ \A c, p, i : IsSpot(v, t, c, p, i) => \E y \in 1 .. len : c = <<0, y>>
      /\ \A y \in 1 .. len : \A p, i :
             /\ IsSpot(v, t, <<0, y>>, p, i) <=> IsReported(t, len - y + 1, p, i)
             /\ v[<<0, y>>].rep = annos[len - y + 1].sampled
  BY <1>2, SpotsReported
<1>4. len \in Nat
  BY <1>2
<1>5. PICK g : g = [q \in Paths[t[1]] |-> <<len - f[q][1][2] + 1, f[q][2], f[q][3]>>]
  OBVIOUS
<1>6. ASSUME NEW q \in Paths[t[1]]
      PROVE  \E y \in 1 .. len : \E p, i :
                 /\ f[q] = <<<<0, y>>, p, i>> /\ g[q] = <<len - y + 1, p, i>>
                 /\ IsReported(t, len - y + 1, p, i)
                 /\ NetIn(Nets, p \o annos[len - y + 1].sampled) = NetIn(Nets, q \o t[2])
  <2>1. PICK c, p, i : /\ f[q] = <<c, p, i>> /\ IsSpot(v, t, c, p, i)
                       /\ NetIn(Nets, p \o v[c].rep) = NetIn(Nets, q \o t[2])
    BY <1>1 DEF TracedBy
  <2>2. PICK y \in 1 .. len : c = <<0, y>>
    BY <1>3, <2>1
  <2>3. /\ IsReported(t, len - y + 1, p, i)
        /\ v[c].rep = annos[len - y + 1].sampled
    BY <1>3, <2>1, <2>2
  <2>4. g[q] = <<len - y + 1, p, i>>
    BY <1>5, <2>1, <2>2
  <2> QED
    BY <2>1, <2>2, <2>3, <2>4
<1>7. ASSUME NEW q \in Paths[t[1]]
      PROVE  g[q] \in Reported(Paths, t) /\ NetOfReported(g[q]) = NetAt(q, t[2])
  <2>1. PICK n, p, i : /\ g[q] = <<n, p, i>> /\ IsReported(t, n, p, i)
                       /\ NetIn(Nets, p \o annos[n].sampled) = NetIn(Nets, q \o t[2])
    BY <1>6
  <2>2. g[q] \in Reported(Paths, t)
    BY <2>1, ReportedIs
  <2> QED
    BY <2>1, <2>2 DEF NetOfReported, NetAt
<1>8. ASSUME NEW q \in Paths[t[1]], NEW o \in Paths[t[1]], g[q] = g[o] PROVE q = o
  <2>1. PICK y, p, i : /\ y \in 1 .. len /\ f[q] = <<<<0, y>>, p, i>>
                       /\ g[q] = <<len - y + 1, p, i>>
    BY <1>6
  <2>2. PICK z, r, j : /\ z \in 1 .. len /\ f[o] = <<<<0, z>>, r, j>>
                       /\ g[o] = <<len - z + 1, r, j>>
    BY <1>6
  <2>3. PICK a, b : a = len - y + 1 /\ b = len - z + 1
    OBVIOUS
  <2>4. <<a, p, i>> = <<b, r, j>>
    BY <1>8, <2>1, <2>2, <2>3
  <2>5. y = z /\ p = r /\ i = j
    BY <1>4, <2>1, <2>2, <2>3, <2>4
  <2>6. f[q] = f[o]
    BY <2>1, <2>2, <2>5
  <2> QED
    BY <1>1, <2>6 DEF TracedBy
<1>9. ASSUME NEW r \in Reported(Paths, t) PROVE \E q \in Paths[t[1]] : g[q] = r
  <2>1. PICK n, p, i : r = <<n, p, i>> /\ IsReported(t, n, p, i)
    BY ReportedIs
  <2>2. n \in 1 .. len
    BY <1>2, <2>1 DEF IsReported
  <2>3. PICK y : y = len - n + 1
    OBVIOUS
  <2>4. y \in 1 .. len /\ len - y + 1 = n
    BY <1>4, <2>2, <2>3
  <2>5. IsSpot(v, t, <<0, y>>, p, i)
    BY <1>3, <2>1, <2>4
  <2>6. PICK q \in Paths[t[1]] : f[q] = <<<<0, y>>, p, i>>
    BY <1>1, <2>5 DEF TracedBy
  <2>7. g[q] = <<len - y + 1, p, i>>
    BY <1>5, <2>6
  <2> QED
    BY <2>1, <2>4, <2>7
<1> QED
  BY <1>7, <1>8, <1>9
------------------------------------------------------------------------------
\* A cover point stands for the signal that it samples.
SampledListed ==
    \A n \in 1 .. Len(annos) :
        <<annos[n].mod, annos[n].sampled>> \in ToSet(annos[n].signals)

\* A step leaves them alone, adds one for a group, or adds to what they stand for.
LEMMA SampledListedStep ==
    ToggleIInv /\ SampledListed /\ [ToggleNext]_toggleVars => SampledListed'
<1> SUFFICES ASSUME ToggleIInv, SampledListed, [ToggleNext]_toggleVars PROVE SampledListed'
  OBVIOUS
<1>1. CASE UNCHANGED annos
  BY <1>1 DEF SampledListed
<1>2. CASE CoverGroup /\ annos' /= annos
  <2>1. phase = "cover" /\ toCover /= {}
    BY <1>2 DEF CoverGroup
  <2>2. PICK g, m : g = (CHOOSE h \in toCover : TRUE) /\ m = mod
    OBVIOUS
  <2>3. g \in toCover /\ g \in SignalGroups(m) /\ m \in Modules /\ design \in Designs
    BY <2>1, <2>2 DEF ToggleIInv, ToDo, ToggleTypes
  <2>4. PICK r \in g :
            annos' = <<[mod |-> m, sampled |-> r, signals |-> Targets(m, g)]>> \o annos
    BY <1>2, <2>2 DEF CoverGroup
  <2>5. PICK a, old, new : /\ a = [mod |-> m, sampled |-> r, signals |-> Targets(m, g)]
                           /\ old = annos /\ new = annos'
    OBVIOUS
  <2>6. g \subseteq Selected(design[m])
    BY <2>3, GroupsSelected
  <2>7. /\ Targets(m, g) \in Seq(Targeted)
        /\ ToSet(Targets(m, g)) = {<<m, s>> : s \in g}
    BY <2>3, <2>6, TargetsAre
  <2>8. a \in Annotations /\ a.mod = m /\ <<m, a.sampled>> \in ToSet(a.signals)
    BY <2>3, <2>5, <2>6, <2>7 DEF Annotations, Covered
  <2>9. old \in Seq(Annotations) /\ new = <<a>> \o old
    BY <2>3, <2>4, <2>5 DEF ToggleIInv, ToggleTypes
  <2>10. Prefixed(Annotations, a, old)
    BY <2>8, <2>9, ToSetFirst
  <2>11. new \in Seq(Annotations) /\ ToSet(new) = {a} \cup ToSet(old)
    BY <2>9, <2>10 DEF Prefixed
  <2>12. ASSUME NEW n \in 1 .. Len(new)
         PROVE  <<new[n].mod, new[n].sampled>> \in ToSet(new[n].signals)
    <3>1. new[n] \in ToSet(new)
      BY <2>11 DEF ToSet
    <3>2. CASE new[n] = a
      BY <2>8, <3>2
    <3>3. CASE new[n] \in ToSet(old)
      <4>1. PICK o \in 1 .. Len(old) : new[n] = old[o]
        BY <2>9, <3>3 DEF ToSet
      <4> QED
        BY <2>5, <4>1 DEF SampledListed
    <3> QED
      BY <2>11, <3>1, <3>2, <3>3
  <2> QED
    BY <2>5, <2>12 DEF SampledListed
<1>3. CASE ResolveInstance /\ annos' /= annos
  <2>1. PICK s : Going(s) /\ annos' = s.annos
    BY <1>3, InstanceResolved
  <2>2. PICK new : new = s.annos
    OBVIOUS
  <2>3. new = annos' /\ Grown(annos, new)
    BY <2>1, <2>2 DEF Going
  <2>4. ASSUME NEW n \in 1 .. Len(new)
        PROVE  <<new[n].mod, new[n].sampled>> \in ToSet(new[n].signals)
    BY <2>3 DEF Grown, SampledListed
  <2> QED
    BY <2>3, <2>4 DEF SampledListed
<1> QED
  BY <1>1, <1>2, <1>3 DEF ToggleNext, FindAliases, EnterModule, ResolveModule, Finish, toggleVars

\* There is none at first.
LEMMA SampledListedInit == ToggleInit => SampledListed
<1> SUFFICES ASSUME annos = <<>> PROVE SampledListed
  BY DEF ToggleInit
<1>1. \A n : n \notin 1 .. Len(annos)
  OBVIOUS
<1> QED
  BY <1>1 DEF SampledListed

\* What findMerges has found are two groups or more.
MergesPlural == \A s \in merges : IsFiniteSet(s) /\ Cardinality(s) > 1

\* A merge of two groups is a new one, or makes others larger.
LEMMA MergesPluralStep == MergesPlural /\ [ToggleNext]_toggleVars => MergesPlural'
<1> SUFFICES ASSUME MergesPlural, [ToggleNext]_toggleVars PROVE MergesPlural'
  OBVIOUS
<1>1. CASE UNCHANGED merges
  BY <1>1 DEF MergesPlural
<1>2. CASE merges' = {}
  BY <1>2 DEF MergesPlural
<1>3. CASE \E e : LET all == Alias!GroupsToMerge(design[Alias!Current])
                      merge == {Alias!GroupOf(all, e[1]), Alias!GroupOf(all, e[2])}
                  IN Cardinality(merge) = 2 /\ merges' = Alias!Merged(merges, merge)
  <2>1. PICK g, h : Cardinality({g, h}) = 2 /\ merges' = Alias!Merged(merges, {g, h})
    BY <1>3
  <2>2. PICK merge, old : merge = {g, h} /\ old = merges
    OBVIOUS
  <2>3. IsFiniteSet(merge) /\ Cardinality(merge) > 1
    <3>1. IsFiniteSet({g}) /\ {g} \cup {h} = merge
      BY <2>2, FS_Singleton
    <3>2. IsFiniteSet(merge)
      BY <3>1, FS_AddElement
    <3> QED
      BY <2>1, <2>2, <3>2
  <2>4. ASSUME NEW s \in old
        PROVE  /\ IsFiniteSet(s) /\ Cardinality(s) > 1
               /\ IsFiniteSet(s \cup merge) /\ Cardinality(s \cup merge) > 1
    <3>1. IsFiniteSet(s) /\ Cardinality(s) > 1
      BY <2>2 DEF MergesPlural
    <3>2. IsFiniteSet(s \cup merge)
      BY <2>3, <3>1, FS_Union
    <3>3. s \subseteq s \cup merge
      OBVIOUS
    <3>4. Cardinality(s) <= Cardinality(s \cup merge)
      BY <3>2, <3>3, FS_Subset
    <3>5. Cardinality(s) \in Nat /\ Cardinality(s \cup merge) \in Nat
      BY <3>1, <3>2, FS_CardinalityType
    <3> QED
      BY <3>1, <3>2, <3>4, <3>5
  <2>5. ASSUME NEW s \in Alias!Merged(old, merge) PROVE IsFiniteSet(s) /\ Cardinality(s) > 1
    <3>1. s = merge \/ s \in old \/ \E o \in old : s = o \cup merge
      BY <2>5 DEF Alias!Merged
    <3> QED
      BY <2>3, <2>4, <3>1
  <2> QED
    BY <2>1, <2>2, <2>5 DEF MergesPlural
<1>4. UNCHANGED merges \/ FindAliases
  BY DEF ToggleNext, EnterModule, CoverGroup, ResolveModule, ResolveInstance, Finish, toggleVars,
         alias
<1>5. ASSUME FindAliases, ~UNCHANGED merges, merges' /= {}
      PROVE  \E e : LET all == Alias!GroupsToMerge(design[Alias!Current])
                        merge == {Alias!GroupOf(all, e[1]), Alias!GroupOf(all, e[2])}
                    IN Cardinality(merge) = 2 /\ merges' = Alias!Merged(merges, merge)
  <2>1. Alias!TakeAlias
    BY <1>5 DEF FindAliases, Alias!Next, Alias!StartModule, Alias!FinishModule
  <2> QED
    BY <1>5, <2>1, AliasCardinality DEF Alias!TakeAlias
<1> QED
  BY <1>1, <1>2, <1>3, <1>4, <1>5
------------------------------------------------------------------------------
\* What ToggleTypeOK says of the alias analysis.
LEMMA AliasTypes ==
    ASSUME AliasIInv, MergesPlural
    PROVE  Alias!TypeOK
<1>1. Len(groups) \in Nat /\ DOMAIN groups = 1 .. Len(groups)
  <2>1. PICK S : groups \in Seq(S)
    BY DEF AliasIInv, IsSeq
  <2> QED
    BY <2>1, LenProperties
<1>2. Len(groups) = Len(portAliases) /\ Len(groups) <= Len(design)
  BY DEF AliasIInv, Main
<1>3. \A k \in DOMAIN groups : PortsRight(groups[k], design[k].ports, portAliases[k])
  <2> SUFFICES ASSUME NEW k \in DOMAIN groups
               PROVE  PortsRight(groups[k], design[k].ports, portAliases[k])
    OBVIOUS
  <2>1. k \in 1 .. (Len(groups) + 1) - 1
    BY <1>1
  <2> QED
    BY <2>1 DEF AliasIInv, BelowRight, ModuleRight
<1>4. \A k \in DOMAIN groups :
          /\ DOMAIN portAliases[k] \subseteq design[k].ports
          /\ \A p \in DOMAIN portAliases[k] :
                 \E g \in groups[k] : {p, portAliases[k][p]} \subseteq g
  BY <1>3 DEF PortsRight
<1>5. pc = "merge" => UNION merges \subseteq Alias!GroupsToMerge(design[Alias!Current])
  BY DEF AliasIInv, StepRight, Sound, Alias!Current
<1>6. pc = "merge" => \A s \in merges : Alias!Cardinality(s) > 1
  BY AliasCardinality DEF MergesPlural
<1>7. pc = "start" => todo = {} /\ merges = {}
  BY DEF AliasIInv
<1> QED
  BY <1>2, <1>4, <1>5, <1>6, <1>7 DEF Alias!TypeOK

\* The type invariant follows from what has been proved.
LEMMA ToggleTypesRight ==
    ASSUME ToggleIInv, Samplings, SampledListed, AliasIInv, MergesPlural
    PROVE  ToggleTypeOK
<1>1. Alias!TypeOK
  BY AliasTypes
<1>2. design \in Designs /\ Modules = 1 .. Main /\ Main \in Nat
  BY DesignShape DEF ToggleIInv, ToggleTypes
<1>3. mod \in 0 .. Main /\ phase \in {"alias", "cover", "resolve", "done", "failed"}
  BY <1>2 DEF ToggleIInv, ToggleTypes
<1>4. \A n \in DOMAIN annos :
          /\ annos[n].sampled \in Selected(design[annos[n].mod])
          /\ <<annos[n].mod, annos[n].sampled>> \in ToSet(annos[n].signals)
  <2>1. DOMAIN annos = 1 .. Len(annos)
    BY DEF ToggleIInv, ToggleTypes
  <2> QED
    BY <2>1 DEF Samplings, SamplesSelected, SampledListed
<1>5. \A k \in Modules : \A e \in ToSet(aliases[k]) : e[1] \in design[k].ports /\ ~IsTop(k)
  BY DEF ToggleIInv, PortsMoveUp
<1>6. phase = "cover" => toCover \subseteq SUBSET Selected(design[mod])
  BY GroupsSelected DEF ToggleIInv, ToDo
<1> QED
  BY <1>1, <1>3, <1>4, <1>5, <1>6 DEF ToggleTypeOK

\* Those in all are the counts for signal s in the instances of module k.
CountsExact(all, k, s) ==
    /\ Cardinality(all) = Cardinality(Paths[k])
    /\ \A q \in Paths[k] :
           Cardinality({r \in all : NetOfReported(r) = NetAt(q, s)})
           = Cardinality({p \in Paths[k] : NetAt(p, s) = NetAt(q, s)})

\* In the end they are all there.
LEMMA CountsRight ==
    ASSUME ToggleIInv, Reporting, phase = "done", groups = Alias!TrueGroups,
           NEW k \in Modules, Instrumented(k), NEW s \in Selected(design[k]),
           NEW all, all = Reported(Paths, <<k, s>>)
    PROVE  CountsExact(all, k, s)
<1>1. /\ design \in Designs /\ annos \in Seq(Annotations)
      /\ aliases \in [Modules -> Seq(Entries)]
  BY DEF ToggleIInv, ToggleTypes
<1>2. NextMod = Main /\ NextInsts = {}
  BY DEF NextMod, NextInsts, Reporting
<1>3. PICK v : ShownNow(v)
  BY DEF Reporting
<1>4. Shown(v, annos, aliases, Main, {}, CoveredTargets)
  BY <1>2, <1>3 DEF ShownNow
<1>5. PICK t : t = <<k, s>>
  OBVIOUS
<1>6. t[1] = k /\ t[2] = s /\ t \in CoveredTargets
  BY <1>5 DEF CoveredTargets, Coverable, Targeted, Covered, Due, Passed
<1>7. PICK g : /\ \A q \in Paths[k] : g[q] \in all /\ NetOfReported(g[q]) = NetAt(q, s)
               /\ \A q, o \in Paths[k] : g[q] = g[o] => q = o
               /\ \A r \in all : \E q \in Paths[k] : g[q] = r
  <2>1. PICK ts : ts = CoveredTargets
    OBVIOUS
  <2>2. Shown(v, annos, aliases, Main, {}, ts) /\ t \in ts
    BY <1>4, <1>6, <2>1
  <2>3. \E g : /\ \A q \in Paths[t[1]] : /\ g[q] \in Reported(Paths, t)
                                         /\ NetOfReported(g[q]) = NetAt(q, t[2])
               /\ \A q, o \in Paths[t[1]] : g[q] = g[o] => q = o
               /\ \A r \in Reported(Paths, t) : \E q \in Paths[t[1]] : g[q] = r
    BY <1>1, <2>2, ReportTraced
  <2> QED
    BY <1>5, <1>6, <2>3
<1>8. IsFiniteSet(Paths[k])
  BY <1>1, PathsFinite
<1>9. Cardinality(all) = Cardinality(Paths[k])
  BY <1>7, <1>8, SameNumber
<1>10. ASSUME NEW q \in Paths[k]
       PROVE  Cardinality({r \in all : NetOfReported(r) = NetAt(q, s)})
              = Cardinality({p \in Paths[k] : NetAt(p, s) = NetAt(q, s)})
  <2>1. PICK A, B : /\ A = {p \in Paths[k] : NetAt(p, s) = NetAt(q, s)}
                    /\ B = {r \in all : NetOfReported(r) = NetAt(q, s)}
    OBVIOUS
  <2>2. IsFiniteSet(A)
    BY <1>8, <2>1, FS_Subset
  <2>3. \A p \in A : g[p] \in B
    BY <1>7, <2>1
  <2>4. \A p, o \in A : g[p] = g[o] => p = o
    BY <1>7, <2>1
  <2>5. \A r \in B : \E p \in A : g[p] = r
    BY <1>7, <2>1
  <2>6. Cardinality(B) = Cardinality(A)
    BY <2>2, <2>3, <2>4, <2>5, SameNumber
  <2> QED
    BY <2>1, <2>6
<1> QED
  BY <1>9, <1>10 DEF CountsExact

\* The report is exact when all the invariants hold.
LEMMA ReportRight ==
    ASSUME ToggleIInv, Reporting, Samplings, SampledListed, AliasIInv, MergesPlural
    PROVE  ReportExact
<1>1. ToggleTypeOK
  BY ToggleTypesRight
<1>2. ASSUME phase = "done", groups = Alias!TrueGroups,
             NEW k \in Modules, Instrumented(k), NEW s \in Selected(design[k]),
             NEW all, all = Reported(Paths, <<k, s>>)
      PROVE  CountsExact(all, k, s)
  BY <1>2, CountsRight
<1>3. ASSUME phase = "done", groups = Alias!TrueGroups,
             NEW k \in {m \in Modules : Instrumented(m)}, NEW s \in Selected(design[k]),
             NEW all, all = Reported(Paths, <<k, s>>)
      PROVE  /\ Cardinality(all) = Cardinality(Paths[k])
             /\ \A q \in Paths[k] :
                    Cardinality({r \in all : NetIn(Nets, r[2] \o annos[r[1]].sampled)
                                             = NetIn(Nets, q \o s)})
                    = Cardinality({p \in Paths[k] : NetIn(Nets, p \o s) = NetIn(Nets, q \o s)})
  <2>1. CountsExact(all, k, s)
    BY <1>2, <1>3
  <2> QED
    BY <2>1 DEF CountsExact, NetOfReported, NetAt
<1> QED
  BY <1>1, <1>3 DEF ReportExact

\* ReportExact: in every hierarchy of modules the report has for each signal of an
\* instrumented module one count for each of its instances, and it is the count of
\* what the signal is connected to in that instance, wherever ports have been moved
\* up and sampled (ToggleCoveragePass, ToggleCoverage.processCoverage).
THEOREM ToggleReportExact == ToggleSpec => []ReportExact
<1>1. ToggleInit => AliasIInv /\ MergesPlural
  BY AliasInit DEF ToggleInit, Alias!Init, MergesPlural
<1>2. ToggleSpec => [](AliasIInv /\ MergesPlural)
  BY <1>1, AliasStep, MergesPluralStep, PTL DEF ToggleSpec
<1>3. ToggleSpec => []SampledListed
  BY SampledListedInit, SampledListedStep, ToggleIInvHolds, PTL DEF ToggleSpec
<1> QED
  BY <1>2, <1>3, ToggleIInvHolds, SamplingsHold, ReportingHolds, ReportRight, PTL
==============================================================================
