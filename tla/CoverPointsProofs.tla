--------------------------- MODULE CoverPointsProofs ---------------------------
(***************************************************************************)
(* Proofs about CoverPoints for every design, any number of builds, runs   *)
(* and results, and results merged in any order.  IInv says that a result  *)
(* has the sum of what its builds have counted, and that what a build      *)
(* counts follows from the builds whose result it was given.               *)
(***************************************************************************)
EXTENDS CoverPoints, FiniteSetTheorems, SequenceTheorems, WellFoundedInduction, TLAPS

------------------------------------------------------------------------------
(* The sum of a function, by induction over the subsets of its domain.  The  *)
(* library's induction theorems take an operator; the one about well-founded *)
(* relations takes sets, and Cardinality leads from the subsets to numbers.  *)

\* Induction over the natural numbers, as a fact about sets.
LEMMA Induction ==
    ASSUME NEW S, 0 \in S, \A n \in Nat : n \in S => n + 1 \in S
    PROVE  Nat \subseteq S
<1> SUFFICES ASSUME Nat \ S /= {} PROVE FALSE
  OBVIOUS
<1> DEFINE R == OpToRel(<, Nat)
<1>1. IsWellFoundedOn(R, Nat)
  BY NatLessThanWellFounded
<1>2. \A m, n \in Nat : m < n => <<m, n>> \in R
  BY DEF OpToRel
<1> HIDE DEF R
<1>3. PICK n \in Nat \ S : \A m \in Nat \ S : ~ (<<m, n>> \in R)
  <2>1. Nat \ S \subseteq Nat
    OBVIOUS
  <2> QED
    BY <1>1, <2>1, WFMin, Zenon
<1>4. \A m \in Nat \ S : ~(m < n)
  BY <1>2, <1>3
<1>5. n /= 0 /\ n - 1 \in Nat
  OBVIOUS
<1>6. n - 1 \in S
  BY <1>4, <1>5
<1>7. n - 1 + 1 \in S
  BY <1>5, <1>6
<1> QED
  BY <1>7

\* The subsets of d with at most n elements, and the element a sum takes first.
Small(d, n) == {s \in SUBSET d : Cardinality(s) <= n}
First(s) == CHOOSE x \in s : TRUE
Rest(s) == s \ {First(s)}

\* A set without an element is smaller.
LEMMA Smaller ==
    ASSUME NEW d, IsFiniteSet(d), NEW n \in Nat, NEW s \in Small(d, n + 1), s /= {}
    PROVE  First(s) \in s /\ Rest(s) \in Small(d, n)
<1>1. First(s) \in s
  BY DEF First
<1>2. IsFiniteSet(s) /\ s \in SUBSET d /\ Cardinality(s) <= n + 1
  BY FS_Subset DEF Small
<1>3. Cardinality(s) \in Nat
  BY <1>2, FS_CardinalityType
<1>4. Cardinality(Rest(s)) = Cardinality(s) - 1
  BY <1>1, <1>2, FS_RemoveElement DEF Rest
<1>5. Rest(s) \in SUBSET d
  BY <1>2 DEF Rest
<1> QED
  BY <1>1, <1>2, <1>3, <1>4, <1>5 DEF Small

\* Induction over the subsets of a finite set, in the order of a sum.
LEMMA SubsetInduction ==
    ASSUME NEW d, IsFiniteSet(d), NEW P, {} \in P,
           \A s \in SUBSET d : s /= {} /\ Rest(s) \in P => s \in P
    PROVE  SUBSET d \subseteq P
<1> DEFINE S == {n \in Nat : Small(d, n) \subseteq P}
<1>1. 0 \in S
  <2>1. ASSUME NEW s \in Small(d, 0) PROVE s = {}
    <3>1. IsFiniteSet(s) /\ Cardinality(s) \in Nat /\ Cardinality(s) <= 0
      BY FS_Subset, FS_CardinalityType DEF Small
    <3> QED
      BY <3>1, FS_EmptySet
  <2> QED
    BY <2>1
<1>2. ASSUME NEW n \in Nat, n \in S PROVE n + 1 \in S
  <2>1. ASSUME NEW s \in Small(d, n + 1), s /= {} PROVE s \in P
    <3>1. Rest(s) \in P
      BY <1>2, <2>1, Smaller
    <3>2. s \in SUBSET d
      BY DEF Small
    <3> QED
      BY <2>1, <3>1, <3>2
  <2> QED
    BY <2>1
<1>3. Cardinality(d) \in Nat /\ SUBSET d = Small(d, Cardinality(d))
  BY FS_CardinalityType, FS_Subset DEF Small
<1>4. Cardinality(d) \in S
  <2> HIDE DEF S
  <2> QED
    BY <1>1, <1>2, <1>3, Induction
<1> QED
  BY <1>3, <1>4

\* What the fold of SumOf does with a subset, if g gives the sums of the smaller.
Body(f, g, s) == IF s = {} THEN 0 ELSE f[First(s)] + g[Rest(s)]

\* The fold of SumOf is defined for every finite domain.
LEMMA SumsExist ==
    ASSUME NEW f, IsFiniteSet(DOMAIN f)
    PROVE  \E g : /\ g = [s \in SUBSET DOMAIN f |-> Body(f, g, s)]
                  /\ SumOf(f) = g[DOMAIN f]
<1> DEFINE d == DOMAIN f
           S == {n \in Nat : \E g : g = [s \in Small(d, n) |-> Body(f, g, s)]}
<1>1. 0 \in S
  <2> DEFINE g == [s \in Small(d, 0) |-> 0]
  <2>1. ASSUME NEW s \in Small(d, 0) PROVE s = {}
    <3>1. IsFiniteSet(s) /\ Cardinality(s) \in Nat /\ Cardinality(s) <= 0
      BY FS_Subset, FS_CardinalityType DEF Small
    <3> QED
      BY <3>1, FS_EmptySet
  <2>2. g = [s \in Small(d, 0) |-> Body(f, g, s)]
    BY <2>1 DEF Body
  <2> QED
    BY <2>2
<1>2. ASSUME NEW n \in Nat, n \in S PROVE n + 1 \in S
  <2>1. PICK g : g = [s \in Small(d, n) |-> Body(f, g, s)]
    BY <1>2
  <2> DEFINE h == [s \in Small(d, n + 1) |-> Body(f, g, s)]
  <2>2. \A s \in Small(d, n) : s \in Small(d, n + 1)
    <3> SUFFICES ASSUME NEW s \in Small(d, n) PROVE s \in Small(d, n + 1)
      OBVIOUS
    <3>1. s \in SUBSET d /\ Cardinality(s) <= n /\ Cardinality(s) \in Nat
      BY FS_Subset, FS_CardinalityType DEF Small
    <3> QED
      BY <3>1 DEF Small
  <2>3. \A s \in Small(d, n) : h[s] = g[s]
    BY <2>1, <2>2
  <2>4. ASSUME NEW s \in Small(d, n + 1) PROVE Body(f, g, s) = Body(f, h, s)
    <3>1. CASE s = {}
      BY <3>1 DEF Body
    <3>2. CASE s /= {}
      <4>1. Rest(s) \in Small(d, n)
        BY <3>2, Smaller
      <4>2. h[Rest(s)] = g[Rest(s)]
        BY <2>3, <4>1
      <4> HIDE DEF h
      <4> QED
        BY <4>2 DEF Body
    <3> QED
      BY <3>1, <3>2
  <2>5. h = [s \in Small(d, n + 1) |-> Body(f, h, s)]
    BY <2>4, Zenon
  <2> HIDE DEF h
  <2> QED
    BY <2>5
<1> DEFINE c == Cardinality(d)
<1>3. c \in Nat /\ Small(d, c) = SUBSET d
  BY FS_CardinalityType, FS_Subset DEF Small
<1>4. c \in S
  <2> HIDE DEF S, c
  <2> QED
    BY <1>1, <1>2, <1>3, Induction
<1>5. \E g : g = [s \in SUBSET d |-> Body(f, g, s)]
  BY <1>3, <1>4
<1> DEFINE Fold == CHOOSE g : g = [s \in SUBSET d |-> Body(f, g, s)]
<1>6. SumOf(f) = Fold[d]
  BY DEF SumOf, FoldFunction, FoldFunctionOnSet, MapThenFoldSet, Body, First, Rest
<1>7. Fold = [s \in SUBSET d |-> Body(f, Fold, s)]
  BY <1>5
<1> QED
  BY <1>6, <1>7

\* A function on a part of its domain.
Part(f, s) == [x \in s |-> f[x]]

\* g has the sums of all parts of f.
SumsOfParts(g, d, f) ==
    /\ g[{}] = 0
    /\ \A s \in SUBSET d : g[s] \in Nat /\ g[s] = SumOf(Part(f, s))
    /\ \A s \in SUBSET d : \A x \in s : g[s] = f[x] + g[s \ {x}]

\* The order of a sum does not matter.
LEMMA Sums ==
    ASSUME NEW d, IsFiniteSet(d), NEW f \in [d -> Nat]
    PROVE  \E g : SumsOfParts(g, d, f) /\ SumOf(f) = g[d]
<1>1. PICK g : g = [s \in SUBSET d |-> Body(f, g, s)] /\ SumOf(f) = g[d]
  <2>1. DOMAIN f = d
    OBVIOUS
  <2> QED
    BY <2>1, SumsExist
<1>2. \A s \in SUBSET d : g[s] = Body(f, g, s)
  BY <1>1
<1>3. \A s \in SUBSET d : g[s] \in Nat
  <2> DEFINE P == {s \in SUBSET d : g[s] \in Nat}
  <2>1. {} \in P
    <3>1. g[{}] = 0
      BY <1>2 DEF Body
    <3> QED
      BY <3>1
  <2>2. ASSUME NEW s \in SUBSET d, s /= {}, Rest(s) \in P PROVE s \in P
    <3>1. First(s) \in s
      BY <2>2 DEF First
    <3>2. g[s] = f[First(s)] + g[Rest(s)]
      BY <1>2, <2>2 DEF Body
    <3> QED
      BY <2>2, <3>1, <3>2
  <2> HIDE DEF P
  <2>3. SUBSET d \subseteq P
    BY <2>1, <2>2, SubsetInduction
  <2> QED
    BY <2>3 DEF P
<1> DEFINE Splits(s) == \A x \in s : g[s] = f[x] + g[s \ {x}]
           S == {n \in Nat : \A s \in Small(d, n) : Splits(s)}
<1>4. 0 \in S
  <2>1. ASSUME NEW s \in Small(d, 0) PROVE s = {}
    <3>1. IsFiniteSet(s) /\ Cardinality(s) \in Nat /\ Cardinality(s) <= 0
      BY FS_Subset, FS_CardinalityType DEF Small
    <3> QED
      BY <3>1, FS_EmptySet
  <2> QED
    BY <2>1
<1>5. ASSUME NEW n \in Nat, n \in S PROVE n + 1 \in S
  <2> SUFFICES ASSUME NEW s \in Small(d, n + 1), NEW x \in s
               PROVE  g[s] = f[x] + g[s \ {x}]
    OBVIOUS
  <2> DEFINE y == First(s)
  <2>1. y \in s /\ Rest(s) = s \ {y} /\ s \in SUBSET d
    BY DEF First, Rest, Small
  <2>2. g[s] = f[y] + g[s \ {y}]
    BY <1>2, <2>1 DEF Body
  <2>3. CASE x = y
    BY <2>2, <2>3
  <2>4. CASE x /= y
    <3>1. \A z \in s : s \ {z} \in Small(d, n)
      <4>1. IsFiniteSet(s) /\ Cardinality(s) \in Nat /\ Cardinality(s) <= n + 1
        BY <2>1, FS_Subset, FS_CardinalityType DEF Small
      <4>2. \A z \in s : Cardinality(s \ {z}) = Cardinality(s) - 1
        BY <4>1, FS_RemoveElement
      <4> QED
        BY <2>1, <4>1, <4>2 DEF Small
    <3>2. g[s \ {y}] = f[x] + g[(s \ {y}) \ {x}]
      BY <1>5, <2>1, <2>4, <3>1
    <3>3. g[s \ {x}] = f[y] + g[(s \ {x}) \ {y}]
      BY <1>5, <2>1, <2>4, <3>1
    <3>4. (s \ {x}) \ {y} = (s \ {y}) \ {x}
      OBVIOUS
    <3>5. f[x] \in Nat /\ f[y] \in Nat /\ (s \ {x}) \ {y} \in SUBSET d
      BY <2>1
    <3> HIDE DEF y
    <3>6. g[(s \ {x}) \ {y}] \in Nat
      BY <1>3, <3>5
    <3>7. g[s \ {x}] = f[y] + g[(s \ {y}) \ {x}] /\ g[(s \ {y}) \ {x}] \in Nat
      BY <3>3, <3>4, <3>6, Zenon
    <3> DEFINE r == g[(s \ {y}) \ {x}]
    <3>8. g[s] = f[y] + (f[x] + r) /\ g[s \ {x}] = f[y] + r /\ r \in Nat
      BY <2>2, <3>2, <3>7
    <3> HIDE DEF r
    <3> QED
      BY <3>5, <3>8
  <2> QED
    BY <2>3, <2>4
<1>6. \A s \in SUBSET d : Splits(s)
  <2>1. Cardinality(d) \in Nat /\ SUBSET d = Small(d, Cardinality(d))
    BY FS_CardinalityType, FS_Subset DEF Small
  <2>2. Cardinality(d) \in S
    <3> HIDE DEF S
    <3> QED
      BY <1>4, <1>5, <2>1, Induction
  <2> QED
    BY <2>1, <2>2
<1>7. ASSUME NEW t \in SUBSET d PROVE g[t] = SumOf(Part(f, t))
  <2>1. IsFiniteSet(t) /\ DOMAIN Part(f, t) = t
    BY FS_Subset DEF Part
  <2>2. PICK h : /\ h = [s \in SUBSET t |-> Body(Part(f, t), h, s)]
                 /\ SumOf(Part(f, t)) = h[t]
    BY <2>1, SumsExist
  <2>3. \A s \in SUBSET t : h[s] = Body(Part(f, t), h, s)
    BY <2>2
  <2> DEFINE P == {s \in SUBSET t : h[s] = g[s]}
  <2>4. {} \in P
    BY <1>2, <2>3 DEF Body
  <2>5. ASSUME NEW s \in SUBSET t, s /= {}, Rest(s) \in P PROVE s \in P
    <3>1. First(s) \in s /\ Part(f, t)[First(s)] = f[First(s)]
      BY <2>5 DEF First, Part
    <3>2. h[s] = Part(f, t)[First(s)] + h[Rest(s)] /\ g[s] = f[First(s)] + g[Rest(s)]
      BY <1>2, <2>3, <2>5 DEF Body
    <3> QED
      BY <2>5, <3>1, <3>2
  <2> HIDE DEF P
  <2>6. t \in P
    BY <2>1, <2>4, <2>5, SubsetInduction
  <2> QED
    BY <2>2, <2>6 DEF P
<1>8. g[{}] = 0
  BY <1>2 DEF Body
<1> HIDE DEF Splits
<1>9. \A s \in SUBSET d : \A x \in s : g[s] = f[x] + g[s \ {x}]
  BY <1>6 DEF Splits
<1> QED
  BY <1>1, <1>3, <1>7, <1>8, <1>9 DEF SumsOfParts

\* The same in any order.
LEMMA SetInduction ==
    ASSUME NEW d, IsFiniteSet(d), NEW P, {} \in P,
           \A s \in SUBSET d : \A x \in s : s \ {x} \in P => s \in P
    PROVE  d \in P
<1>1. ASSUME NEW s \in SUBSET d, s /= {}, Rest(s) \in P PROVE s \in P
  BY <1>1 DEF Rest, First
<1> QED
  BY <1>1, SubsetInduction

\* The sum of nothing.
LEMMA SumOfNone ==
    ASSUME NEW f, DOMAIN f = {}
    PROVE  SumOf(f) = 0
<1>1. IsFiniteSet(DOMAIN f)
  BY FS_EmptySet
<1>2. PICK g : g = [s \in SUBSET DOMAIN f |-> Body(f, g, s)] /\ SumOf(f) = g[DOMAIN f]
  BY <1>1, SumsExist
<1>3. g[{}] = Body(f, g, {})
  BY <1>2
<1> QED
  BY <1>2, <1>3 DEF Body

\* A sum of more is not less.
LEMMA SumMonotone ==
    ASSUME NEW d, IsFiniteSet(d), NEW e \in [d -> Nat], NEW f \in [d -> Nat],
           \A x \in d : e[x] <= f[x]
    PROVE  SumOf(e) \in Nat /\ SumOf(f) \in Nat /\ SumOf(e) <= SumOf(f)
<1>1. PICK g : SumsOfParts(g, d, e) /\ SumOf(e) = g[d]
  BY Sums
<1>2. PICK h : SumsOfParts(h, d, f) /\ SumOf(f) = h[d]
  BY Sums
<1> DEFINE P == {s \in SUBSET d : g[s] <= h[s]}
<1>3. {} \in P
  BY <1>1, <1>2 DEF SumsOfParts
<1>4. ASSUME NEW s \in SUBSET d, NEW x \in s, s \ {x} \in P PROVE s \in P
  <2>1. /\ g[s] = e[x] + g[s \ {x}] /\ h[s] = f[x] + h[s \ {x}]
        /\ g[s \ {x}] \in Nat /\ h[s \ {x}] \in Nat
    BY <1>1, <1>2 DEF SumsOfParts
  <2>2. e[x] \in Nat /\ f[x] \in Nat /\ e[x] <= f[x] /\ g[s \ {x}] <= h[s \ {x}]
    BY <1>4
  <2>3. g[s] <= h[s]
    BY <2>1, <2>2
  <2> QED
    BY <2>3
<1> HIDE DEF P
<1>5. d \in P
  BY <1>3, <1>4, SetInduction
<1>6. g[d] \in Nat /\ h[d] \in Nat
  BY <1>1, <1>2 DEF SumsOfParts
<1> QED
  BY <1>1, <1>2, <1>5, <1>6 DEF P

\* If a sum is greater, one of its summands is.
LEMMA SumLess ==
    ASSUME NEW d, IsFiniteSet(d), NEW e \in [d -> Nat], NEW f \in [d -> Nat],
           SumOf(e) < SumOf(f)
    PROVE  \E x \in d : e[x] < f[x]
<1> SUFFICES ASSUME \A x \in d : ~(e[x] < f[x]) PROVE FALSE
  OBVIOUS
<1>1. \A x \in d : f[x] <= e[x]
  OBVIOUS
<1>2. SumOf(e) \in Nat /\ SumOf(f) \in Nat /\ SumOf(f) <= SumOf(e)
  BY <1>1, SumMonotone
<1> QED
  BY <1>2

\* The sum of two parts that have nothing in common.
LEMMA SumOfParts ==
    ASSUME NEW d, IsFiniteSet(d), NEW f \in [d -> Nat], NEW s \in SUBSET d,
           NEW t \in SUBSET d, s \cap t = {}
    PROVE  /\ SumOf(Part(f, s \cup t)) = SumOf(Part(f, s)) + SumOf(Part(f, t))
           /\ SumOf(Part(f, s)) \in Nat /\ SumOf(Part(f, t)) \in Nat
<1>1. PICK g : SumsOfParts(g, d, f)
  BY Sums
<1>2. IsFiniteSet(t) /\ \A u \in SUBSET t : u \in SUBSET d /\ s \cup u \in SUBSET d
  BY FS_Subset
<1> DEFINE P == {u \in SUBSET t : g[s \cup u] = g[s] + g[u]}
<1>3. {} \in P
  <2>1. g[{}] = 0 /\ g[s] \in Nat /\ s \cup {} = s
    BY <1>1 DEF SumsOfParts
  <2> QED
    BY <2>1
<1>4. ASSUME NEW u \in SUBSET t, NEW x \in u, u \ {x} \in P PROVE u \in P
  <2>1. (s \cup u) \ {x} = s \cup (u \ {x})
    OBVIOUS
  <2>2. /\ g[u] = f[x] + g[u \ {x}]
        /\ g[s \cup u] = f[x] + g[s \cup (u \ {x})]
        /\ g[s] \in Nat /\ g[u \ {x}] \in Nat
    BY <1>1, <1>2, <2>1 DEF SumsOfParts
  <2>3. f[x] \in Nat /\ g[s \cup (u \ {x})] = g[s] + g[u \ {x}]
    BY <1>2, <1>4
  <2>4. g[s \cup u] = g[s] + g[u]
    BY <2>2, <2>3
  <2> QED
    BY <2>4
<1> HIDE DEF P
<1>5. t \in P
  BY <1>2, <1>3, <1>4, SetInduction
<1>6. g[s \cup t] = g[s] + g[t]
  BY <1>5 DEF P
<1>7. /\ g[s \cup t] = SumOf(Part(f, s \cup t)) /\ g[s] = SumOf(Part(f, s))
      /\ g[t] = SumOf(Part(f, t)) /\ g[s] \in Nat /\ g[t] \in Nat
  BY <1>1 DEF SumsOfParts
<1> QED
  BY <1>6, <1>7

\* The sum of a part is not greater.
LEMMA SumOfPart ==
    ASSUME NEW d, IsFiniteSet(d), NEW f \in [d -> Nat], NEW s \in SUBSET d,
           NEW t \in SUBSET s
    PROVE  /\ SumOf(Part(f, t)) \in Nat /\ SumOf(Part(f, s)) \in Nat
           /\ SumOf(Part(f, t)) <= SumOf(Part(f, s))
<1>1. t \cap (s \ t) = {} /\ t \cup (s \ t) = s /\ s \ t \in SUBSET d /\ t \in SUBSET d
  OBVIOUS
<1>2. /\ SumOf(Part(f, t \cup (s \ t))) = SumOf(Part(f, t)) + SumOf(Part(f, s \ t))
      /\ SumOf(Part(f, t)) \in Nat /\ SumOf(Part(f, s \ t)) \in Nat
  BY <1>1, SumOfParts
<1>3. SumOf(Part(f, s)) = SumOf(Part(f, t)) + SumOf(Part(f, s \ t))
  BY <1>1, <1>2, Zenon
<1> QED
  BY <1>2, <1>3

\* The sum of one value is the value.
LEMMA SumOfOne ==
    ASSUME NEW f, NEW x, DOMAIN f = {x}, f[x] \in Nat
    PROVE  SumOf(f) = f[x]
<1>1. IsFiniteSet({x})
  BY FS_Singleton
<1>2. SUBSET {x} = {{}, {x}}
  OBVIOUS
<1>3. PICK g : g = [s \in SUBSET {x} |-> Body(f, g, s)] /\ SumOf(f) = g[{x}]
  BY <1>1, SumsExist
<1>4. First({x}) = x /\ Rest({x}) = {}
  BY DEF First, Rest
<1>5. g[{}] = 0 /\ g[{x}] = f[x] + g[{}]
  BY <1>3, <1>4 DEF Body
<1> QED
  BY <1>3, <1>5

\* The sum of zeros is zero.
LEMMA SumOfZeros ==
    ASSUME NEW d, IsFiniteSet(d), NEW f, DOMAIN f = d, \A x \in d : f[x] = 0
    PROVE  SumOf(f) = 0
<1>1. PICK g : g = [s \in SUBSET d |-> Body(f, g, s)] /\ SumOf(f) = g[d]
  BY SumsExist
<1> DEFINE P == {s \in SUBSET d : g[s] = 0}
<1>2. \A s \in SUBSET d : g[s] = Body(f, g, s)
  BY <1>1
<1>3. {} \in P
  <2>1. g[{}] = 0
    BY <1>2 DEF Body
  <2> QED
    BY <2>1
<1>4. ASSUME NEW s \in SUBSET d, s /= {}, Rest(s) \in P PROVE s \in P
  <2>1. First(s) \in s
    BY <1>4 DEF First
  <2> QED
    BY <1>2, <1>4, <2>1 DEF Body
<1> HIDE DEF P
<1>5. d \in P
  BY <1>3, <1>4, SubsetInduction
<1> QED
  BY <1>1, <1>5 DEF P

\* Every summand counts.
LEMMA SumAtLeast ==
    ASSUME NEW d, IsFiniteSet(d), NEW f \in [d -> Nat], NEW n \in Nat,
           \A x \in d : n <= f[x]
    PROVE  Cardinality(d) * n <= SumOf(f)
<1>1. PICK g : SumsOfParts(g, d, f) /\ SumOf(f) = g[d]
  BY Sums
<1> DEFINE P == {s \in SUBSET d : Cardinality(s) * n <= g[s]}
<1>2. {} \in P
  <2>1. Cardinality({}) = 0 /\ g[{}] = 0
    BY <1>1, FS_EmptySet DEF SumsOfParts
  <2> QED
    BY <2>1
<1>3. ASSUME NEW s \in SUBSET d, NEW x \in s, s \ {x} \in P PROVE s \in P
  <2>1. IsFiniteSet(s) /\ Cardinality(s) \in Nat
    BY FS_Subset, FS_CardinalityType
  <2> DEFINE c == Cardinality(s \ {x})
  <2>2. Cardinality(s) = c + 1 /\ c \in Nat
    <3>1. c = Cardinality(s) - 1 /\ IsFiniteSet(s \ {x})
      BY <2>1, FS_RemoveElement
    <3>2. c \in Nat
      BY <3>1, FS_CardinalityType
    <3> HIDE DEF c
    <3> QED
      BY <2>1, <3>1, <3>2
  <2>3. g[s] = f[x] + g[s \ {x}] /\ g[s \ {x}] \in Nat /\ f[x] \in Nat /\ n <= f[x]
    BY <1>1 DEF SumsOfParts
  <2>4. c * n <= g[s \ {x}]
    BY <1>3
  <2> HIDE DEF c
  <2>5. (c + 1) * n = c * n + n /\ c * n \in Nat
    BY <2>2
  <2>6. Cardinality(s) * n <= g[s]
    BY <2>2, <2>3, <2>4, <2>5
  <2> QED
    BY <2>6
<1> HIDE DEF P
<1>4. d \in P
  BY <1>2, <1>3, SetInduction
<1> QED
  BY <1>1, <1>4 DEF P

------------------------------------------------------------------------------
(* Instances: there are finitely many, and a path leads to one module.       *)

\* The instances below module k, if f gives those below the modules it has.
Inside(f, k, i) ==
    {<<<<i>> \o inst[1], inst[2]>> : inst \in f[design[k].instances[i]]}
Below(f, k) ==
    {<<<<>>, k>>} \cup UNION {Inside(f, k, i) : i \in DOMAIN design[k].instances}

\* Modules are numbered, and their instances are of modules with smaller numbers.
LEMMA DesignShape ==
    ASSUME WellFormed(design)
    PROVE  /\ Main \in Nat \ {0} /\ Modules = 1 .. Main
           /\ \A k \in Modules :
                 /\ design[k].instances \in Seq(1 .. k - 1)
                 /\ Len(design[k].instances) \in Nat
                 /\ DOMAIN design[k].instances = 1 .. Len(design[k].instances)
                 /\ \A i \in DOMAIN design[k].instances :
                       design[k].instances[i] \in 1 .. k - 1
<1>1. design \in Seq(Range(design)) /\ design /= <<>>
  BY DEF WellFormed
<1>2. Main \in Nat \ {0} /\ Modules = 1 .. Main
  BY <1>1 DEF Main, Modules
<1>3. ASSUME NEW k \in Modules
      PROVE  /\ design[k].instances \in Seq(1 .. k - 1)
             /\ Len(design[k].instances) \in Nat
             /\ DOMAIN design[k].instances = 1 .. Len(design[k].instances)
             /\ \A i \in DOMAIN design[k].instances :
                   design[k].instances[i] \in 1 .. k - 1
  <2> DEFINE s == design[k].instances
  <2>1. s \in Seq(1 .. k - 1)
    BY DEF WellFormed, Modules
  <2> HIDE DEF s
  <2>2. /\ Len(s) \in Nat /\ DOMAIN s = 1 .. Len(s)
        /\ \A i \in DOMAIN s : s[i] \in 1 .. k - 1
    BY <2>1, LenProperties, ElementOfSeq
  <2> QED
    BY <2>1, <2>2 DEF s
<1> QED
  BY <1>2, <1>3, Zenon

\* The recursive function of Instances is defined.
LEMMA InstancesExist ==
    ASSUME WellFormed(design)
    PROVE  \E f : f = [k \in Modules |-> Below(f, k)] /\ Instances = f[Main]
<1> DEFINE S == {n \in Nat : \E f : f = [k \in 1 .. n \cap Modules |-> Below(f, k)]}
<1>1. 0 \in S
  <2>1. 1 .. 0 \cap Modules = {}
    OBVIOUS
  <2> DEFINE g == [k \in 1 .. 0 \cap Modules |-> {}]
  <2>2. g = [k \in 1 .. 0 \cap Modules |-> Below(g, k)]
    BY <2>1
  <2> QED
    BY <2>2
<1>2. ASSUME NEW n \in Nat, n \in S PROVE n + 1 \in S
  <2>1. PICK f : f = [k \in 1 .. n \cap Modules |-> Below(f, k)]
    BY <1>2
  <2> DEFINE g == [k \in 1 .. n + 1 \cap Modules |-> Below(f, k)]
  <2>2. \A k \in 1 .. n \cap Modules : g[k] = f[k]
    BY <2>1
  <2>3. ASSUME NEW k \in 1 .. n + 1 \cap Modules PROVE Below(f, k) = Below(g, k)
    <3>1. \A i \in DOMAIN design[k].instances :
             g[design[k].instances[i]] = f[design[k].instances[i]]
      <4> SUFFICES ASSUME NEW i \in DOMAIN design[k].instances
                   PROVE  design[k].instances[i] \in 1 .. n \cap Modules
        BY <2>2
      <4>1. design[k].instances[i] \in 1 .. k - 1 /\ Modules = 1 .. Main /\ Main \in Nat
        BY DesignShape
      <4> QED
        BY <4>1
    <3> HIDE DEF g
    <3>2. \A i \in DOMAIN design[k].instances : Inside(f, k, i) = Inside(g, k, i)
      BY <3>1 DEF Inside
    <3> QED
      BY <3>2 DEF Below
  <2>4. g = [k \in 1 .. n + 1 \cap Modules |-> Below(g, k)]
    BY <2>3, Zenon
  <2> HIDE DEF g
  <2> QED
    BY <2>4
<1>3. Main \in Nat \ {0} /\ Modules = 1 .. Main
  BY DesignShape
<1>4. Main \in S
  <2> HIDE DEF S
  <2> QED
    BY <1>1, <1>2, <1>3, Induction
<1>5. 1 .. Main \cap Modules = Modules
  BY <1>3
<1>6. \E f : f = [k \in Modules |-> Below(f, k)]
  BY <1>4, <1>5
<1> DEFINE F == CHOOSE f : f = [k \in Modules |-> Below(f, k)]
<1>7. Instances = F[Main]
  BY DEF Instances, Below, Inside
<1>8. F = [k \in Modules |-> Below(F, k)]
  BY <1>6
<1> QED
  BY <1>7, <1>8

\* What is known of the instances below a module.
IsTree(s) ==
    /\ IsFiniteSet(s)
    /\ \A x \in s : x[1] \in Seq(Nat) /\ x[2] \in Modules /\ x = <<x[1], x[2]>>
    /\ \A x, y \in s : x[1] = y[1] => x = y

\* A path determines its first instance and the rest.
LEMMA FrontCancels ==
    ASSUME NEW i \in Nat, NEW j \in Nat, NEW s \in Seq(Nat), NEW t \in Seq(Nat),
           <<i>> \o s = <<j>> \o t
    PROVE  i = j /\ s = t
<1>1. <<i>> \in Seq(Nat) /\ <<j>> \in Seq(Nat)
  OBVIOUS
<1>2. (<<i>> \o s)[1] = i /\ (<<j>> \o t)[1] = j
  BY <1>1
<1>3. i = j
  BY <1>2
<1>4. <<i>> \o s = <<i>> \o t
  BY <1>3
<1>5. s = t
  BY <1>1, <1>4, ConcatSimplifications, Zenon
<1> QED
  BY <1>3, <1>5

\* An instance has finitely many instances in it if its module has.
LEMMA InsideFinite ==
    ASSUME NEW f, NEW k, NEW i, IsFiniteSet(f[design[k].instances[i]])
    PROVE  IsFiniteSet(Inside(f, k, i))
<1> DEFINE s == f[design[k].instances[i]]
           t == Inside(f, k, i)
           g == [inst \in s |-> <<<<i>> \o inst[1], inst[2]>>]
<1>1. g \in [s -> t] /\ \A y \in t : \E x \in s : g[x] = y
  BY DEF Inside
<1> HIDE DEF g
<1>2. g \in Surjection(s, t)
  BY <1>1 DEF Surjection
<1> QED
  BY <1>2, FS_Surjection

\* The union of finitely many finite sets.
LEMMA UnionFinite ==
    ASSUME NEW n \in Nat, NEW g, \A i \in 1 .. n : IsFiniteSet(g[i])
    PROVE  IsFiniteSet(UNION {g[i] : i \in 1 .. n})
<1> DEFINE U(m) == UNION {g[i] : i \in 1 .. m}
           S == {m \in Nat : m <= n => IsFiniteSet(U(m))}
<1>1. 0 \in S
  <2>1. U(0) = {}
    OBVIOUS
  <2> QED
    BY <2>1, FS_EmptySet
<1>2. ASSUME NEW m \in Nat, m \in S PROVE m + 1 \in S
  <2>1. U(m + 1) = U(m) \cup g[m + 1]
    <3>1. 1 .. m + 1 = 1 .. m \cup {m + 1}
      OBVIOUS
    <3> QED
      BY <3>1
  <2>2. m + 1 <= n => IsFiniteSet(U(m)) /\ IsFiniteSet(g[m + 1])
    BY <1>2
  <2> HIDE DEF U
  <2>3. ASSUME m + 1 <= n PROVE IsFiniteSet(U(m + 1))
    <3>1. IsFiniteSet(U(m)) /\ IsFiniteSet(g[m + 1])
      BY <2>2, <2>3
    <3>2. IsFiniteSet(U(m) \cup g[m + 1])
      BY ONLY <3>1, FS_Union
    <3> QED
      BY <2>1, <3>2
  <2> QED
    BY <2>3
<1>3. n \in S
  <2> HIDE DEF S
  <2> QED
    BY <1>1, <1>2, Induction
<1> QED
  BY <1>3

\* The paths below a module are different, as those below its instances are.
LEMMA BelowIsTree ==
    ASSUME WellFormed(design), NEW f, NEW k \in Modules,
           \A j \in 1 .. k - 1 : IsTree(f[j])
    PROVE  IsTree(Below(f, k))
<1> DEFINE n == Len(design[k].instances)
           of(i) == f[design[k].instances[i]]
           g == [i \in 1 .. n |-> Inside(f, k, i)]
<1>1. /\ Modules = 1 .. Main /\ Main \in Nat /\ n \in Nat
      /\ DOMAIN design[k].instances = 1 .. n
      /\ \A i \in 1 .. n : design[k].instances[i] \in 1 .. k - 1
  BY DesignShape
<1>2. \A i \in 1 .. n : IsTree(of(i))
  BY <1>1
<1>3. IsFiniteSet(Below(f, k))
  <2>1. \A i \in 1 .. n : IsFiniteSet(Inside(f, k, i))
    BY <1>2, InsideFinite DEF IsTree
  <2>2. IsFiniteSet(UNION {g[i] : i \in 1 .. n})
    <3>1. \A i \in 1 .. n : IsFiniteSet(g[i])
      BY <2>1
    <3> HIDE DEF g
    <3> QED
      BY <1>1, <3>1, UnionFinite
  <2>3. Below(f, k) = {<<<<>>, k>>} \cup UNION {g[i] : i \in 1 .. n}
    BY <1>1 DEF Below
  <2>4. IsFiniteSet({<<<<>>, k>>})
    BY FS_Singleton
  <2> DEFINE u == UNION {g[i] : i \in 1 .. n}
  <2> HIDE DEF u
  <2>5. IsFiniteSet({<<<<>>, k>>} \cup u)
    BY <2>2, <2>4, FS_Union DEF u
  <2> QED
    BY <2>3, <2>5 DEF u
<1>4. ASSUME NEW x \in Below(f, k)
      PROVE  \/ x = <<<<>>, k>>
             \/ \E i \in 1 .. n : \E y \in of(i) : x = <<<<i>> \o y[1], y[2]>>
  BY <1>1 DEF Below, Inside
<1>5. \A i \in 1 .. n : \A y \in of(i) : y[1] \in Seq(Nat) /\ y[2] \in Modules
  BY <1>2 DEF IsTree
<1>6. \A i \in 1 .. n : \A s \in Seq(Nat) : <<i>> \o s \in Seq(Nat) /\ <<i>> \o s /= <<>>
  <2> SUFFICES ASSUME NEW i \in 1 .. n, NEW s \in Seq(Nat)
               PROVE  <<i>> \o s \in Seq(Nat) /\ <<i>> \o s /= <<>>
    OBVIOUS
  <2>1. <<i>> \in Seq(Nat) /\ Len(<<i>>) = 1 /\ Len(s) \in Nat
    BY <1>1
  <2>2. <<i>> \o s \in Seq(Nat) /\ Len(<<i>> \o s) = 1 + Len(s)
    BY <2>1
  <2> QED
    BY <2>1, <2>2
<1> HIDE DEF n, of
<1>7. ASSUME NEW x \in Below(f, k)
      PROVE  x[1] \in Seq(Nat) /\ x[2] \in Modules /\ x = <<x[1], x[2]>>
  <2>1. CASE x = <<<<>>, k>>
    BY <2>1
  <2>2. CASE \E i \in 1 .. n : \E y \in of(i) : x = <<<<i>> \o y[1], y[2]>>
    <3>1. PICK i \in 1 .. n : \E y \in of(i) : x = <<<<i>> \o y[1], y[2]>>
      BY <2>2
    <3>2. PICK y \in of(i) : x = <<<<i>> \o y[1], y[2]>>
      BY <3>1
    <3>3. <<i>> \o y[1] \in Seq(Nat) /\ y[2] \in Modules
      BY <1>5, <1>6
    <3> QED
      BY <3>3, <3>2
  <2> QED
    BY <1>4, <2>1, <2>2
<1>8. ASSUME NEW x \in Below(f, k), NEW y \in Below(f, k), x[1] = y[1] PROVE x = y
  <2>1. CASE x[1] = <<>>
    <3>1. ASSUME NEW z \in Below(f, k), z[1] = <<>> PROVE z = <<<<>>, k>>
      <4> SUFFICES ASSUME NEW i \in 1 .. n, NEW w \in of(i), z = <<<<i>> \o w[1], w[2]>>
                   PROVE  FALSE
        BY <1>4
      <4>1. <<i>> \o w[1] /= <<>>
        BY <1>5, <1>6
      <4> QED
        BY <3>1, <4>1
    <3> QED
      BY <1>8, <2>1, <3>1
  <2>2. CASE x[1] /= <<>>
    <3>1. PICK i \in 1 .. n : \E v \in of(i) : x = <<<<i>> \o v[1], v[2]>>
      BY <1>4, <2>2
    <3>2. PICK v \in of(i) : x = <<<<i>> \o v[1], v[2]>>
      BY <3>1
    <3>3. y /= <<<<>>, k>>
      BY <1>8, <2>2
    <3>4. PICK j \in 1 .. n : \E w \in of(j) : y = <<<<j>> \o w[1], w[2]>>
      BY <1>4, <3>3
    <3>5. PICK w \in of(j) : y = <<<<j>> \o w[1], w[2]>>
      BY <3>4
    <3>6. <<i>> \o v[1] = <<j>> \o w[1] /\ v[1] \in Seq(Nat) /\ w[1] \in Seq(Nat)
      BY <1>5, <1>8, <3>2, <3>5
    <3>7. i \in Nat /\ j \in Nat
      BY <1>1
    <3>8. i = j /\ v[1] = w[1]
      BY <3>6, <3>7, FrontCancels, ZenonT(60)
    <3>9. v = w
      BY <1>2, <3>8 DEF IsTree
    <3> QED
      BY <3>2, <3>5, <3>8, <3>9
  <2> QED
    BY <2>1, <2>2
<1> QED
  BY <1>3, <1>7, <1>8 DEF IsTree

\* There are finitely many instances, and a path leads to one of them.
LEMMA InstancesAreTree ==
    ASSUME WellFormed(design)
    PROVE  IsTree(Instances)
<1>1. PICK f : f = [k \in Modules |-> Below(f, k)] /\ Instances = f[Main]
  BY InstancesExist
<1>2. Main \in Nat \ {0} /\ Modules = 1 .. Main
  BY DesignShape
<1> DEFINE S == {n \in Nat : \A k \in 1 .. n : k \in Modules => IsTree(f[k])}
<1>3. 0 \in S
  OBVIOUS
<1>4. ASSUME NEW n \in Nat, n \in S PROVE n + 1 \in S
  <2>1. ASSUME NEW k \in 1 .. n + 1, k \in Modules PROVE IsTree(f[k])
    <3>1. \A j \in 1 .. k - 1 : j \in 1 .. n /\ j \in Modules
      BY <1>2, <2>1
    <3>2. \A j \in 1 .. k - 1 : IsTree(f[j])
      BY <1>4, <3>1
    <3>3. IsTree(Below(f, k))
      BY <2>1, <3>2, BelowIsTree
    <3> QED
      BY <1>1, <2>1, <3>3
  <2> QED
    BY <2>1
<1>5. Main \in S
  <2> HIDE DEF S
  <2> QED
    BY <1>2, <1>3, <1>4, Induction
<1> QED
  BY <1>1, <1>2, <1>5

\* A module has finitely many instances.
LEMMA PathsFinite ==
    ASSUME WellFormed(design), NEW k
    PROVE  IsFiniteSet(Paths(k))
<1> DEFINE s == {i \in Instances : i[2] = k}
           g == [i \in s |-> i[1]]
<1>1. IsFiniteSet(s)
  BY InstancesAreTree, FS_Subset DEF IsTree
<1>2. g \in [s -> Paths(k)] /\ \A y \in Paths(k) : \E x \in s : g[x] = y
  BY DEF Paths
<1> HIDE DEF s, g
<1>3. g \in Surjection(s, Paths(k))
  BY <1>2 DEF Surjection
<1> QED
  BY <1>1, <1>3, FS_Surjection

\* ModuleOf returns the module that a path is one of.
LEMMA PathsLead ==
    ASSUME WellFormed(design), NEW k, NEW p \in Paths(k)
    PROVE  ModuleOf(p) = k
<1>1. PICK i \in Instances : i[2] = k /\ i[1] = p
  BY DEF Paths
<1>2. \A j \in Instances : j[1] = p => j = i
  BY <1>1, InstancesAreTree DEF IsTree
<1>3. (CHOOSE inst \in Instances : inst[1] = p) = i
  BY <1>1, <1>2
<1> QED
  BY <1>1, <1>3 DEF ModuleOf

------------------------------------------------------------------------------
(* What all builds have in common: the annotations of the two passes and the *)
(* names of the points, of which a build drops some.                         *)

Annos == UNION {LineAnnos(k) \cup FireAnnos(k) : k \in Modules}
Names(k) == {a.name : a \in {b \in Annos : b.mod = k}}
AllPoints == [k \in Modules |-> Names(k)]
AllCounters == Counters(AllPoints)

\* The two passes name their points differently: the name determines the annotation.
LEMMA AnnoShape ==
    /\ \A a \in Annos : a.mod \in Modules /\ a.name \in Names(a.mod)
    /\ \A a, b \in Annos : a.mod = b.mod /\ a.name = b.name => a = b
<1>1. ASSUME NEW a \in Annos
      PROVE  \E k \in Modules :
                \/ \E b : a = [mod |-> k, name |-> <<"l", b>>, for |-> Lines(design[k], b)]
                \/ \E b : a = [mod |-> k, name |-> <<"r", b>>, for |-> {b}]
  <2>1. PICK k \in Modules : a \in LineAnnos(k) \/ a \in FireAnnos(k)
    BY DEF Annos
  <2>2. CASE a \in LineAnnos(k)
    BY <2>2 DEF LineAnnos
  <2>3. CASE a \in FireAnnos(k)
    BY <2>3 DEF FireAnnos
  <2> QED
    BY <2>1, <2>2, <2>3
<1>2. ASSUME NEW a \in Annos PROVE a.mod \in Modules /\ a.name \in Names(a.mod)
  <2>1. a.mod \in Modules
    BY <1>1
  <2>2. a.name \in Names(a.mod)
    BY DEF Names
  <2> QED
    BY <2>1, <2>2
<1>3. ASSUME NEW a \in Annos, NEW b \in Annos, a.mod = b.mod, a.name = b.name
      PROVE  a = b
  <2>1. PICK k \in Modules :
           \/ \E c : a = [mod |-> k, name |-> <<"l", c>>, for |-> Lines(design[k], c)]
           \/ \E c : a = [mod |-> k, name |-> <<"r", c>>, for |-> {c}]
    BY <1>1
  <2>2. PICK m \in Modules :
           \/ \E c : b = [mod |-> m, name |-> <<"l", c>>, for |-> Lines(design[m], c)]
           \/ \E c : b = [mod |-> m, name |-> <<"r", c>>, for |-> {c}]
    BY <1>1
  <2>3. a.mod = k /\ b.mod = m
    BY <2>1, <2>2
  <2>4. k = m
    BY <1>3, <2>3
  <2> QED
    BY <1>3, <2>1, <2>2, <2>4
<1> QED
  BY <1>2, <1>3

\* The counters of points.
LEMMA CounterShape ==
    ASSUME WellFormed(design), NEW ps
    PROVE  \A c : c \in Counters(ps) <=>
              \E k \in Modules : \E p \in Paths(k) : \E n \in ps[k] : c = <<p, n>>
BY DEF Counters

\* A counter belongs to one module.
LEMMA CounterOf ==
    ASSUME WellFormed(design), NEW ps, NEW k \in Modules, NEW p \in Paths(k), NEW n
    PROVE  <<p, n>> \in Counters(ps) <=> n \in ps[k]
<1>1. ASSUME <<p, n>> \in Counters(ps) PROVE n \in ps[k]
  <2>1. PICK j \in Modules : <<p, n>> \in Paths(j) \X ps[j]
    BY <1>1 DEF Counters
  <2>2. p \in Paths(j) /\ n \in ps[j]
    BY <2>1
  <2>3. j = k
    BY <2>2, PathsLead
  <2> QED
    BY <2>2, <2>3
<1>2. ASSUME n \in ps[k] PROVE <<p, n>> \in Counters(ps)
  BY <1>2 DEF Counters
<1> QED
  BY <1>1, <1>2

\* As many requests as instances are requests of all of them.
LEMMA RemovableInAll ==
    ASSUME WellFormed(design), NEW k \in Modules, NEW name, requests \subseteq AllCounters
    PROVE  Removable(k, name) <=> \A p \in Paths(k) : <<p, name>> \in requests
<1> DEFINE full == {<<p, name>> : p \in Paths(k)}
           for == {r \in requests : ModuleOf(r[1]) = k /\ r[2] = name}
           g == [p \in Paths(k) |-> <<p, name>>]
<1>1. for = full \cap requests
  <2>1. ASSUME NEW r \in requests, ModuleOf(r[1]) = k, r[2] = name PROVE r \in full
    <3>1. PICK j \in Modules : r \in Paths(j) \X AllPoints[j]
      BY DEF AllCounters, Counters
    <3>2. r[1] \in Paths(j) /\ r = <<r[1], r[2]>>
      BY <3>1
    <3>3. j = k
      BY <2>1, <3>2, PathsLead
    <3> QED
      BY <2>1, <3>2, <3>3
  <2>2. ASSUME NEW r \in full PROVE ModuleOf(r[1]) = k /\ r[2] = name
    BY PathsLead
  <2> QED
    BY <2>1, <2>2
<1>2. IsFiniteSet(full) /\ Cardinality(full) = Cardinality(Paths(k))
  <2>1. g \in [Paths(k) -> full] /\ \A y \in full : \E x \in Paths(k) : g[x] = y
    OBVIOUS
  <2>2. \A x, y \in Paths(k) : g[x] = g[y] => x = y
    OBVIOUS
  <2> HIDE DEF g, full
  <2>3. g \in Bijection(Paths(k), full)
    BY <2>1, <2>2 DEF Bijection, Injection, Surjection, IsInjective
  <2>4. IsFiniteSet(Paths(k)) /\ ExistsBijection(Paths(k), full)
    BY <2>3, PathsFinite DEF ExistsBijection
  <2> QED
    BY <2>4, FS_Bijection
<1>3. Cardinality(for) = Cardinality(full) <=> for = full
  <2> HIDE DEF full, for
  <2>1. for \in SUBSET full
    BY <1>1
  <2> QED
    BY <1>2, <2>1, FS_Subset
<1>4. for = full <=> \A p \in Paths(k) : <<p, name>> \in requests
  <2> HIDE DEF for
  <2> QED
    BY <1>1
<1> QED
  BY <1>2, <1>3, <1>4 DEF Removable

------------------------------------------------------------------------------
(* What the builds count.  own are the counters that each build has kept.    *)

Tally(own, c) == [b \in DOMAIN own |-> IF c \in own[b] THEN hits[b][c] ELSE 0]
CountedIn(own, builds, c) == SumOf(Part(Tally(own, c), builds))
KnownIn(own, builds) == UNION {own[b] : b \in builds}

\* The counters that have counted enough for a build with the result of builds.
Often(own, builds) ==
    {c \in KnownIn(own, builds) : CountedIn(own, builds, c) >= Threshold}
PointsFor(own, builds) ==
    [k \in Modules |->
        {n \in Names(k) : \E p \in Paths(k) : <<p, n>> \notin Often(own, builds)}]

\* The counters of the points that are kept then.
Kept(own, builds) == Counters(PointsFor(own, builds))

\* The builds that are done, with what they have kept and counted.
IsHistory(own, n) ==
    /\ n \in Nat /\ DOMAIN own = 1 .. n
    /\ \A b \in 1 .. n : own[b] \subseteq AllCounters /\ hits[b] \in [AllCounters -> Nat]

\* What the builds have counted for a point.
LEMMA TallyType ==
    ASSUME NEW own, NEW n, IsHistory(own, n), NEW c
    PROVE  Tally(own, c) \in [1 .. n -> Nat] /\ IsFiniteSet(1 .. n)
<1>1. IsFiniteSet(1 .. n)
  BY FS_Interval DEF IsHistory
<1>2. \A b \in 1 .. n : c \in own[b] => hits[b][c] \in Nat
  BY DEF IsHistory
<1> QED
  BY <1>1, <1>2 DEF Tally, IsHistory

\* More builds have not counted less.
LEMMA CountedMonotone ==
    ASSUME NEW own, NEW n, IsHistory(own, n), NEW c,
           NEW builds \in SUBSET (1 .. n), NEW less \in SUBSET builds
    PROVE  /\ CountedIn(own, less, c) \in Nat /\ CountedIn(own, builds, c) \in Nat
           /\ CountedIn(own, less, c) <= CountedIn(own, builds, c)
<1>1. Tally(own, c) \in [1 .. n -> Nat] /\ IsFiniteSet(1 .. n)
  BY TallyType
<1> QED
  BY <1>1, SumOfPart DEF CountedIn

\* The counts of different builds add up.
LEMMA CountedUnion ==
    ASSUME NEW own, NEW n, IsHistory(own, n), NEW c,
           NEW s \in SUBSET (1 .. n), NEW t \in SUBSET (1 .. n), s \cap t = {}
    PROVE  /\ CountedIn(own, s \cup t, c) = CountedIn(own, s, c) + CountedIn(own, t, c)
           /\ CountedIn(own, s, c) \in Nat /\ CountedIn(own, t, c) \in Nat
<1>1. Tally(own, c) \in [1 .. n -> Nat] /\ IsFiniteSet(1 .. n)
  BY TallyType
<1> QED
  BY <1>1, SumOfParts DEF CountedIn

\* No build counts a point that none knows.
LEMMA CountedUnknown ==
    ASSUME NEW own, NEW n, IsHistory(own, n), NEW c,
           NEW builds \in SUBSET (1 .. n), c \notin KnownIn(own, builds)
    PROVE  CountedIn(own, builds, c) = 0
<1> DEFINE f == Part(Tally(own, c), builds)
<1>1. IsFiniteSet(builds)
  BY TallyType, FS_Subset
<1>2. DOMAIN f = builds /\ \A b \in builds : f[b] = 0
  BY DEF Part, Tally, IsHistory, KnownIn
<1> HIDE DEF f
<1>3. SumOf(f) = 0
  BY <1>1, <1>2, SumOfZeros
<1> QED
  BY <1>3 DEF CountedIn, f

\* What is counted enough in some builds is so in more of them, and
\* what is kept after more builds is kept after some of them.
LEMMA OftenMonotone ==
    ASSUME NEW own, NEW n, IsHistory(own, n),
           NEW builds \in SUBSET (1 .. n), NEW less \in SUBSET builds
    PROVE  /\ Often(own, less) \subseteq Often(own, builds)
           /\ Kept(own, builds) \subseteq Kept(own, less)
<1>1. ASSUME NEW c \in Often(own, less) PROVE c \in Often(own, builds)
  <2>1. c \in KnownIn(own, builds)
    BY DEF Often, KnownIn
  <2>2. Threshold \in Nat /\ CountedIn(own, less, c) >= Threshold
    BY CoverPointsAssumption DEF Often
  <2>3. CountedIn(own, builds, c) >= Threshold
    BY <2>2, CountedMonotone
  <2> QED
    BY <2>1, <2>3 DEF Often
<1>2. \A k \in Modules : PointsFor(own, builds)[k] \subseteq PointsFor(own, less)[k]
  BY <1>1 DEF PointsFor
<1> QED
  BY <1>1, <1>2 DEF Kept, Counters

\* A build without results keeps all, and the others keep some of all.
LEMMA FirstKeepsAll ==
    ASSUME NEW own
    PROVE  Kept(own, {}) = AllCounters
<1>1. Often(own, {}) = {}
  BY DEF Often, KnownIn
<1>2. \A k \in Modules : Paths(k) \X PointsFor(own, {})[k] = Paths(k) \X AllPoints[k]
  BY <1>1 DEF PointsFor, AllPoints
<1> QED
  BY <1>2 DEF Kept, Counters, AllCounters

\* A build counts nothing but points of the design.
LEMMA SomeAreKept ==
    ASSUME NEW own, NEW builds
    PROVE  Kept(own, builds) \subseteq AllCounters
BY DEF Kept, Counters, AllCounters, AllPoints, PointsFor

\* A counter that a build drops has counted enough in the result it was given.
LEMMA DroppedIsOften ==
    ASSUME WellFormed(design), NEW own, NEW builds, NEW c \in AllCounters,
           c \notin Kept(own, builds)
    PROVE  c \in Often(own, builds)
<1>1. PICK k \in Modules : c \in Paths(k) \X AllPoints[k]
  BY DEF AllCounters, Counters
<1>2. PICK p \in Paths(k), m \in Names(k) : c = <<p, m>>
  BY <1>1 DEF AllPoints
<1>3. m \notin PointsFor(own, builds)[k]
  BY <1>2, CounterOf DEF Kept
<1> QED
  BY <1>2, <1>3 DEF PointsFor

\* The sum over the hits is at least what has been counted.
LEMMA HitsAtLeast ==
    ASSUME NEW own, NEW n, IsHistory(own, n), NEW c \in AllCounters,
           NEW builds \in SUBSET (1 .. n)
    PROVE  /\ HitsIn(builds, c) \in Nat /\ CountedIn(own, builds, c) \in Nat
           /\ CountedIn(own, builds, c) <= HitsIn(builds, c)
           /\ CountedIn(own, builds, c) < HitsIn(builds, c) =>
                 \E b \in builds : c \notin own[b]
<1> DEFINE e == Part(Tally(own, c), builds)
           f == [b \in builds |-> hits[b][c]]
<1>1. IsFiniteSet(builds)
  BY TallyType, FS_Subset
<1>2. /\ f \in [builds -> Nat] /\ e \in [builds -> Nat]
      /\ \A b \in builds : e[b] <= f[b] /\ (e[b] < f[b] => c \notin own[b])
  <2>1. \A b \in builds : hits[b][c] \in Nat
    BY DEF IsHistory
  <2>2. \A b \in builds : e[b] = IF c \in own[b] THEN hits[b][c] ELSE 0
    BY DEF Part, Tally, IsHistory
  <2>3. DOMAIN e = builds /\ e = [b \in builds |-> e[b]]
    BY DEF Part
  <2> HIDE DEF e
  <2> QED
    BY <2>1, <2>2, <2>3
<1> HIDE DEF e, f
<1>3. SumOf(e) \in Nat /\ SumOf(f) \in Nat /\ SumOf(e) <= SumOf(f)
  BY <1>1, <1>2, SumMonotone
<1>4. SumOf(e) < SumOf(f) => \E b \in builds : e[b] < f[b]
  BY <1>1, <1>2, SumLess
<1>5. CountedIn(own, builds, c) = SumOf(e) /\ HitsIn(builds, c) = SumOf(f)
  BY DEF CountedIn, HitsIn, e, f
<1> QED
  BY <1>2, <1>3, <1>4, <1>5

\* What a merged result has is what its builds have counted.
IsMap(m) == m = [c \in DOMAIN m |-> m[c]]
ResultOf(own, f) ==
    /\ f = [counts |-> f.counts, of |-> f.of]
    /\ f.of /= {} /\ IsMap(f.counts) /\ DOMAIN f.counts = KnownIn(own, f.of)
    /\ \A c \in DOMAIN f.counts : f.counts[c] = CountedIn(own, f.of, c)

BuildsOf(results) == UNION {f.of : f \in results}

\* merge_cov.py: the merged result of results of different builds is the result
\* of all these builds.
LEMMA MergedIsResult ==
    ASSUME NEW own, NEW n, IsHistory(own, n), NEW results, IsFiniteSet(results),
           results /= {}, \A f \in results : ResultOf(own, f) /\ f.of \in SUBSET (1 .. n),
           \A f, g \in results : f = g \/ f.of \cap g.of = {}
    PROVE  ResultOf(own, [counts |-> Merged(results), of |-> BuildsOf(results)])
<1> DEFINE r == [counts |-> Merged(results), of |-> BuildsOf(results)]
<1>1. r.of /= {} /\ r.counts = Merged(results) /\ r.of = BuildsOf(results)
  BY DEF BuildsOf, ResultOf
<1>2. DOMAIN Merged(results) = KnownIn(own, BuildsOf(results))
  <2>1. DOMAIN Merged(results) = UNION {DOMAIN f.counts : f \in results}
    BY DEF Merged
  <2> QED
    BY <2>1 DEF KnownIn, BuildsOf, ResultOf
<1>3. IsMap(Merged(results))
  BY DEF Merged, IsMap
<1>4. ASSUME NEW c \in DOMAIN Merged(results)
      PROVE  Merged(results)[c] = CountedIn(own, BuildsOf(results), c)
  <2> DEFINE e == [f \in results |-> IF c \in DOMAIN f.counts THEN f.counts[c] ELSE 0]
  <2>1. Merged(results)[c] = SumOf(e)
    BY DEF Merged
  <2>2. \A f \in results : e[f] = CountedIn(own, f.of, c) /\ e[f] \in Nat
    <3> SUFFICES ASSUME NEW f \in results
                 PROVE  e[f] = CountedIn(own, f.of, c) /\ e[f] \in Nat
      OBVIOUS
    <3>1. CountedIn(own, f.of, c) \in Nat
      BY CountedMonotone
    <3>2. c \notin KnownIn(own, f.of) => CountedIn(own, f.of, c) = 0
      BY CountedUnknown
    <3> QED
      BY <3>1, <3>2 DEF ResultOf
  <2>3. e \in [results -> Nat]
    BY <2>2
  <2> HIDE DEF e
  <2>4. PICK g : SumsOfParts(g, results, e) /\ SumOf(e) = g[results]
    BY <2>3, Sums
  <2> DEFINE P == {s \in SUBSET results : g[s] = CountedIn(own, BuildsOf(s), c)}
  <2>5. {} \in P
    <3>1. g[{}] = 0 /\ BuildsOf({}) = {}
      BY <2>4 DEF SumsOfParts, BuildsOf
    <3>2. CountedIn(own, {}, c) = 0
      BY CountedUnknown DEF KnownIn
    <3> QED
      BY <3>1, <3>2
  <2>6. ASSUME NEW s \in SUBSET results, NEW f \in s, s \ {f} \in P PROVE s \in P
    <3> DEFINE t == BuildsOf(s \ {f})
    <3>1. BuildsOf(s) = t \cup f.of /\ t \cap f.of = {}
      BY DEF BuildsOf
    <3>2. t \in SUBSET (1 .. n) /\ f.of \in SUBSET (1 .. n)
      BY DEF BuildsOf
    <3> HIDE DEF t
    <3>3. /\ CountedIn(own, t \cup f.of, c) = CountedIn(own, t, c) + CountedIn(own, f.of, c)
          /\ CountedIn(own, t, c) \in Nat /\ CountedIn(own, f.of, c) \in Nat
      BY <3>1, <3>2, CountedUnion
    <3>4. g[s] = e[f] + g[s \ {f}] /\ e[f] = CountedIn(own, f.of, c)
      BY <2>2, <2>4 DEF SumsOfParts
    <3>5. g[s \ {f}] = CountedIn(own, t, c)
      BY <2>6 DEF t
    <3>6. CountedIn(own, BuildsOf(s), c) = CountedIn(own, t \cup f.of, c)
      BY <3>1
    <3>7. g[s] = CountedIn(own, BuildsOf(s), c)
      BY <3>3, <3>4, <3>5, <3>6
    <3> QED
      BY <3>7
  <2> HIDE DEF P
  <2>7. results \in P
    BY <2>5, <2>6, SetInduction
  <2> QED
    BY <2>1, <2>4, <2>7 DEF P
<1> QED
  BY <1>1, <1>2, <1>4, <1>3 DEF ResultOf

------------------------------------------------------------------------------
(* The inductive invariant.                                                  *)

\* The builds that have been simulated, or are not going to be.
Done == IF pc = "run" THEN Len(hits) - 1 ELSE Len(hits)
Pending == pc \in {"find", "failed", "remove"}
Given == basis[Len(basis)]

Shape ==
    /\ design \in Designs
    /\ pc \in {"instrument", "find", "remove", "run", "failed", "reported", "unknown",
              "ambiguous"}
    /\ basis \in Seq(SUBSET Nat) /\ hits \in Seq([AllCounters -> Nat])
    /\ Len(basis) = Len(hits) + IF Pending THEN 1 ELSE 0
    /\ Len(basis) <= MaxBuilds /\ cycles \in 0 .. MaxCycles
    /\ pc = "run" => Len(hits) > 0
    /\ \A b \in DOMAIN basis : basis[b] \subseteq 1 .. b - 1

\* The results are of builds that are done.
Results(own) ==
    /\ DOMAIN own = 1 .. Done
    /\ \A b \in 1 .. Done : own[b] = Kept(own, basis[b])
    /\ IsFiniteSet(files)
    /\ \A f \in files : ResultOf(own, f) /\ f.of \subseteq 1 .. Done

\* What the current build knows.
Build(own) ==
    /\ annos = IF basis = <<>> THEN {} ELSE Annos
    /\ basis = <<>> => points = [k \in Modules |-> {}]
    /\ Pending => points = AllPoints
    /\ pc = "find" => loaded \subseteq files /\ Given = BuildsOf(loaded)
    /\ pc = "remove" => requests = Often(own, Given)
    /\ basis /= <<>> /\ ~Pending => points = PointsFor(own, Given)
    /\ Len(hits) > 0 => DOMAIN counts = Kept(own, basis[Len(hits)])
    /\ pc = "run" => /\ IsMap(counts)
                     /\ \A c \in DOMAIN counts : counts[c] = hits[Len(hits)][c]

LinesFor(f) == {<<a, Total(a, f.counts)>> : a \in {b \in annos : b.name[1] = "l"}}
FiresOf(a, f) == {<<p, a, f.counts[<<p, a.name>>]>> : p \in Paths(a.mod)}
FiresFor(f) == UNION {FiresOf(a, f) : a \in {b \in annos : b.name[1] = "r"}}
ReportFor(f) == [of |-> f.of, lines |-> LinesFor(f), fires |-> FiresFor(f)]

Reports ==
    /\ pc = "reported" =>
          \E f \in files : Wanted \subseteq DOMAIN f.counts /\ report = ReportFor(f)
    /\ pc = "unknown" =>
          \E f \in files : ~(Wanted \subseteq DOMAIN f.counts) /\ report = [of |-> f.of]

IInv == Shape /\ Reports /\ \E own : Results(own) /\ Build(own)

------------------------------------------------------------------------------
(* What does not change with the builds that are done.                       *)

\* Instances, points and annotations are those of the design, which never changes.
LEMMA SameDesign ==
    ASSUME design' = design
    PROVE  /\ Instances' = Instances /\ Modules' = Modules /\ Main' = Main
           /\ \A k : Paths(k)' = Paths(k)
           /\ Annos' = Annos /\ AllPoints' = AllPoints /\ AllCounters' = AllCounters
<1>1. Modules' = Modules /\ Main' = Main
  BY DEF Modules, Main
<1>2. Instances' = Instances
  BY SMT DEF Instances, Modules, Main
<1>3. \A k : Paths(k)' = Paths(k)
  BY <1>2 DEF Paths
<1>4. \A k : LineAnnos(k)' = LineAnnos(k) /\ FireAnnos(k)' = FireAnnos(k)
  BY DEF LineAnnos, FireAnnos, Covered
<1>5. Annos' = Annos
  BY <1>1, <1>4 DEF Annos
<1>6. AllPoints' = AllPoints
  BY <1>1, <1>5 DEF AllPoints, Names
<1>7. AllCounters' = AllCounters
  BY <1>1, <1>3, <1>6 DEF AllCounters, Counters
<1> QED
  BY <1>1, <1>2, <1>3, <1>5, <1>6, <1>7

\* The counters of points that are the same.
LEMMA SameCounters ==
    ASSUME design' = design, NEW ps
    PROVE  Counters(ps)' = Counters(ps)
BY SameDesign DEF Counters

\* Builds that are done have counted what they have.
LEMMA SameHistory ==
    ASSUME design' = design, NEW n \in Nat, NEW own, NEW new,
           DOMAIN own = 1 .. n, 1 .. n \subseteq DOMAIN new,
           \A b \in 1 .. n : new[b] = own[b] /\ hits'[b] = hits[b],
           NEW builds \in SUBSET (1 .. n)
    PROVE  /\ KnownIn(new, builds) = KnownIn(own, builds)
           /\ \A c : CountedIn(new, builds, c)' = CountedIn(own, builds, c)
           /\ Often(new, builds)' = Often(own, builds)
           /\ PointsFor(new, builds)' = PointsFor(own, builds)
           /\ Kept(new, builds)' = Kept(own, builds)
           /\ \A f : f.of = builds => (ResultOf(new, f)' <=> ResultOf(own, f))
<1>1. KnownIn(new, builds) = KnownIn(own, builds)
  BY DEF KnownIn
<1>2. ASSUME NEW c PROVE CountedIn(new, builds, c)' = CountedIn(own, builds, c)
  <2>1. \A b \in builds : Tally(new, c)'[b] = Tally(own, c)[b]
    BY DEF Tally
  <2>2. Part(Tally(new, c)', builds) = Part(Tally(own, c), builds)
    BY <2>1 DEF Part
  <2> QED
    BY <2>2 DEF CountedIn
<1>3. Often(new, builds)' = Often(own, builds)
  BY <1>1, <1>2 DEF Often, KnownIn
<1>4. PointsFor(new, builds)' = PointsFor(own, builds)
  <2>1. Modules' = Modules /\ (\A k : Paths(k)' = Paths(k)) /\ \A k : Names(k)' = Names(k)
    BY SameDesign DEF Names
  <2> QED
    BY <1>3, <2>1, ZenonT(60) DEF PointsFor
<1>5. Kept(new, builds)' = Kept(own, builds)
  <2>1. Modules' = Modules /\ \A k : Paths(k)' = Paths(k)
    BY SameDesign
  <2> QED
    BY <1>4, <2>1 DEF Kept, Counters
<1>6. ASSUME NEW f, f.of = builds PROVE ResultOf(new, f)' <=> ResultOf(own, f)
  BY <1>1, <1>2, <1>6 DEF ResultOf, KnownIn
<1> QED
  BY <1>1, <1>2, <1>3, <1>4, <1>5, <1>6

------------------------------------------------------------------------------
(* Every step preserves the invariant.                                       *)

\* What Shape says of the builds that are done.
LEMMA Facts ==
    ASSUME Shape
    PROVE  /\ WellFormed(design) /\ MaxBuilds \in Nat /\ MaxCycles \in Nat
           /\ Len(basis) \in Nat /\ DOMAIN basis = 1 .. Len(basis)
           /\ Len(hits) \in Nat /\ DOMAIN hits = 1 .. Len(hits)
           /\ \A b \in 1 .. Len(hits) : hits[b] \in [AllCounters -> Nat]
           /\ Done \in Nat /\ Done <= Len(hits) /\ Done <= Len(basis)
           /\ \A b \in 1 .. Done : basis[b] \subseteq 1 .. b - 1
<1>1. WellFormed(design) /\ MaxBuilds \in Nat /\ MaxCycles \in Nat
  BY CoverPointsAssumption DEF Shape
<1>2. /\ Len(basis) \in Nat /\ DOMAIN basis = 1 .. Len(basis)
      /\ Len(hits) \in Nat /\ DOMAIN hits = 1 .. Len(hits)
  BY LenProperties DEF Shape
<1>3. \A b \in 1 .. Len(hits) : hits[b] \in [AllCounters -> Nat]
  BY ElementOfSeq DEF Shape
<1>4. Done \in Nat /\ Done <= Len(hits) /\ Done <= Len(basis)
  BY <1>2 DEF Shape, Done
<1>5. \A b \in 1 .. Done : b \in DOMAIN basis
  BY <1>2, <1>4
<1>6. \A b \in 1 .. Done : basis[b] \subseteq 1 .. b - 1
  BY <1>5 DEF Shape
<1> QED
  BY <1>1, <1>2, <1>3, <1>4, <1>6

\* The builds that are done are a history.
LEMMA DoneAreHistory ==
    ASSUME Shape, NEW own, Results(own)
    PROVE  IsHistory(own, Done)
<1>1. \A b \in 1 .. Done : own[b] \subseteq AllCounters
  BY SomeAreKept DEF Results
<1>2. \A b \in 1 .. Done : hits[b] \in [AllCounters -> Nat]
  BY Facts
<1> QED
  BY <1>1, <1>2, Facts DEF IsHistory, Results

\* What the builds that are done have kept.
LEMMA SameKept ==
    ASSUME Shape, NEW own, DOMAIN own = 1 .. Done, NEW new, 1 .. Done \subseteq DOMAIN new,
           design' = design,
           \A b \in 1 .. Done : new[b] = own[b] /\ hits'[b] = hits[b],
           NEW b \in 1 .. Done, basis'[b] = basis[b]
    PROVE  Kept(new, basis[b])' = Kept(own, basis[b])
<1>1. Done \in Nat /\ basis[b] \in SUBSET (1 .. Done)
  BY Facts
<1>2. PICK n \in Nat : n = Done
  BY <1>1
<1>3. /\ DOMAIN own = 1 .. n /\ 1 .. n \subseteq DOMAIN new
      /\ \A a \in 1 .. n : new[a] = own[a] /\ hits'[a] = hits[a]
  BY <1>2
<1>4. PICK builds \in SUBSET (1 .. n) : builds = basis[b] /\ builds = basis'[b]
  BY <1>1, <1>2
<1>5. Kept(new, builds)' = Kept(own, builds)
  BY <1>3, SameHistory, ZenonT(60)
<1> QED
  BY <1>4, <1>5

\* The results that there are.
LEMMA SameResults ==
    ASSUME Shape, NEW own, Results(own), NEW new, 1 .. Done \subseteq DOMAIN new,
           design' = design, \A b \in 1 .. Done : new[b] = own[b] /\ hits'[b] = hits[b],
           NEW f \in files
    PROVE  ResultOf(new, f)' /\ f.of \subseteq 1 .. Done
<1>1. Done \in Nat /\ DOMAIN own = 1 .. Done
  BY Facts DEF Results
<1>2. ResultOf(own, f) /\ f.of \in SUBSET (1 .. Done)
  BY DEF Results
<1>3. ResultOf(new, f)' <=> ResultOf(own, f)
  BY <1>1, <1>2, SameHistory
<1> QED
  BY <1>2, <1>3

\* A step without new results.
LEMMA NoNewResults ==
    ASSUME Shape, NEW own, Results(own), design' = design, files' = files,
           Done' = Done, \A b \in 1 .. Done : hits'[b] = hits[b] /\ basis'[b] = basis[b]
    PROVE  Results(own)'
<1>1. DOMAIN own = 1 .. Done
  BY DEF Results
<1>2. \A b \in 1 .. Done :
         Kept(own, basis[b])' = Kept(own, basis[b])
  BY <1>1, SameKept
<1>3. \A f \in files : ResultOf(own, f)' /\ f.of \subseteq 1 .. Done
  BY <1>1, SameResults
<1> QED
  BY <1>1, <1>2, <1>3 DEF Results

\* Instrument: a new build, with what it is given.
LEMMA InstrumentStep ==
    ASSUME Shape, NEW own, Results(own), Build(own), Instrument
    PROVE  Shape' /\ Reports' /\ Results(own)' /\ Build(own)'
<1>1. /\ pc = "instrument" /\ Len(basis) < MaxBuilds /\ pc' = "find" /\ requests' = {}
      /\ design' = design /\ cycles' = cycles /\ counts' = counts /\ files' = files
      /\ report' = report /\ hits' = hits
      /\ annos' = UNION {LineAnnos(k) \cup FireAnnos(k) : k \in Modules}
      /\ points' = [k \in Modules |-> {a.name : a \in {b \in annos' : b.mod = k}}]
  BY DEF Instrument
<1>2. PICK results \in SUBSET files : /\ loaded' = results
                                      /\ basis' = Append(basis, BuildsOf(results))
  BY DEF Instrument, BuildsOf
<1>3. PICK n : n = Len(basis)
  OBVIOUS
<1>4. /\ n \in Nat /\ n = Len(basis) /\ n = Len(hits) /\ Done = n /\ DOMAIN basis = 1 .. n
      /\ MaxBuilds \in Nat /\ basis \in Seq(SUBSET Nat)
      /\ \A b \in DOMAIN basis : basis[b] \subseteq 1 .. b - 1
  BY <1>3, <1>1, Facts DEF Shape, Done, Pending
<1>5. BuildsOf(results) \subseteq 1 .. n
  BY <1>4 DEF BuildsOf, Results
<1> DEFINE of == BuildsOf(results)
<1> HIDE DEF of
<1>6. of \in SUBSET Nat /\ of \subseteq 1 .. n /\ basis' = Append(basis, of)
  BY <1>2, <1>4, <1>5 DEF of
<1>7. /\ basis' \in Seq(SUBSET Nat) /\ Len(basis') = n + 1
      /\ basis'[n + 1] = of /\ \A b \in 1 .. n : basis'[b] = basis[b]
  BY <1>4, <1>6
<1>8. DOMAIN basis' = 1 .. n + 1
  BY <1>4, <1>7, LenProperties
<1>9. \A b \in DOMAIN basis' : basis'[b] \subseteq 1 .. b - 1
  <2> SUFFICES ASSUME NEW b \in 1 .. n + 1 PROVE basis'[b] \subseteq 1 .. b - 1
    BY <1>8
  <2>1. CASE b = n + 1
    <3>1. b - 1 = n
      BY <1>4, <2>1
    <3> QED
      BY <1>6, <1>7, <2>1, <3>1
  <2>2. CASE b \in 1 .. n
    BY <1>4, <1>7, <2>2
  <2> QED
    BY <1>4, <2>1, <2>2
<1>10. Shape'
  <2>1. AllCounters' = AllCounters
    BY <1>1, SameDesign
  <2>2. hits' \in Seq([AllCounters -> Nat])'
    BY <1>1, <2>1 DEF Shape
  <2> QED
    BY <1>1, <1>4, <1>7, <1>9, <2>2 DEF Shape, Pending
<1>11. Reports'
  BY <1>1 DEF Reports
<1>12. Done' = Done /\ \A b \in 1 .. Done : hits'[b] = hits[b] /\ basis'[b] = basis[b]
  BY <1>1, <1>4, <1>7 DEF Done
<1>13. Results(own)'
  BY <1>1, <1>12, NoNewResults
<1>14. annos' = Annos' /\ points' = AllPoints'
  <2>1. annos' = Annos /\ points' = AllPoints
    BY <1>1 DEF Annos, AllPoints, Names
  <2> QED
    BY <1>1, <2>1, SameDesign
<1>15. Len(hits') > 0 => DOMAIN counts' = Kept(own, basis[Len(hits)])'
  <2> SUFFICES ASSUME n > 0
               PROVE  DOMAIN counts = Kept(own, basis[n])'
    <3>1. Len(hits') = n
      BY <1>1, <1>4
    <3> QED
      BY <1>1, <3>1
  <2>1. n \in 1 .. Done /\ DOMAIN own = 1 .. Done
    BY <1>4 DEF Results
  <2>2. Kept(own, basis[n])' = Kept(own, basis[n])
    BY <1>1, <1>12, <2>1, SameKept
  <2> QED
    BY <1>4, <2>2 DEF Build
<1>16. Build(own)'
  <2>1. basis' /= <<>> /\ Pending'
    BY <1>1, <1>4, <1>7 DEF Pending
  <2>2. Given' = BuildsOf(loaded') /\ loaded' \subseteq files'
    BY <1>1, <1>2, <1>7 DEF Given, of
  <2> QED
    BY <1>1, <1>14, <1>15, <2>1, <2>2 DEF Build, BuildsOf
<1> QED
  BY <1>10, <1>11, <1>13, <1>16

\* The last build was given results of builds that were done.
LEMMA GivenIsDone ==
    ASSUME Shape, basis /= <<>>
    PROVE  Given \in SUBSET (1 .. Done)
<1>1. PICK m \in Nat : m = Len(basis)
  BY Facts
<1>2. DOMAIN basis = 1 .. m /\ m - 1 <= Done /\ m > 0 /\ Done \in Nat
  BY <1>1, Facts DEF Shape, Done, Pending
<1>3. basis[m] \subseteq 1 .. m - 1
  BY <1>2 DEF Shape
<1> QED
  BY <1>1, <1>2, <1>3, SMTT(30) DEF Given

\* A step that leaves the builds and what they have counted alone.
LEMMA SameGiven ==
    ASSUME Shape, NEW own, Results(own), basis /= <<>>, design' = design,
           basis' = basis, \A b \in 1 .. Done : hits'[b] = hits[b]
    PROVE  /\ Given \in SUBSET (1 .. Done) /\ Given' = Given
           /\ Often(own, Given)' = Often(own, Given)
           /\ PointsFor(own, Given)' = PointsFor(own, Given)
           /\ Kept(own, Given)' = Kept(own, Given)
<1>1. PICK n \in Nat : n = Done
  BY Facts
<1>2. DOMAIN own = 1 .. n /\ \A b \in 1 .. n : own[b] = own[b] /\ hits'[b] = hits[b]
  BY <1>1 DEF Results
<1>3. Given \in SUBSET (1 .. n)
  BY <1>1, GivenIsDone
<1>4. PICK builds \in SUBSET (1 .. n) : builds = Given /\ builds = Given'
  BY <1>3 DEF Given
<1>5. /\ Often(own, builds)' = Often(own, builds)
      /\ PointsFor(own, builds)' = PointsFor(own, builds)
      /\ Kept(own, builds)' = Kept(own, builds)
  BY <1>2, SameHistory
<1> QED
  BY <1>1, <1>3, <1>4, <1>5

\* A step that leaves the counters of the last simulation alone.
LEMMA SameCounts ==
    ASSUME Shape, NEW own, Results(own), Build(own), Len(hits) > 0,
           design' = design, basis' = basis, hits' = hits
    PROVE  DOMAIN counts = Kept(own, basis[Len(hits)])'
<1>1. PICK n \in Nat : n = Done
  BY Facts
<1>2. DOMAIN own = 1 .. n /\ \A b \in 1 .. n : own[b] = own[b] /\ hits'[b] = hits[b]
  BY <1>1, SMTT(30) DEF Results
<1>3. PICK m \in Nat : m = Len(hits)
  BY Facts
<1>4. m \in DOMAIN basis /\ m - 1 <= n
  BY <1>1, <1>3, Facts DEF Shape, Done
<1>5. basis[m] \subseteq 1 .. m - 1
  BY <1>4 DEF Shape
<1>6. PICK builds \in SUBSET (1 .. n) : builds = basis[m] /\ builds = basis'[Len(hits')]
  BY <1>1, <1>3, <1>4, <1>5
<1>7. Kept(own, builds)' = Kept(own, builds)
  BY <1>2, SameHistory
<1> QED
  BY <1>3, <1>6, <1>7 DEF Build

\* FindCoversToRemove: the requests are the points counted enough.
LEMMA FindStep ==
    ASSUME Shape, NEW own, Results(own), Build(own), FindCoversToRemove
    PROVE  Shape' /\ Reports' /\ Results(own)' /\ Build(own)'
<1>1. /\ pc = "find" /\ pc' \in {"failed", "remove"}
      /\ design' = design /\ annos' = annos /\ points' = points /\ cycles' = cycles
      /\ loaded' = loaded /\ counts' = counts /\ files' = files
      /\ report' = report /\ basis' = basis /\ hits' = hits
  BY DEF FindCoversToRemove
<1>2. Pending /\ Pending' /\ Done' = Done /\ Done = Len(hits)
  BY <1>1 DEF Pending, Done
<1>3. basis /= <<>> /\ Len(hits) \in Nat
  BY <1>2, Facts DEF Shape
<1>4. Shape'
  <2>1. AllCounters' = AllCounters
    BY <1>1, SameDesign
  <2>2. hits' \in Seq([AllCounters -> Nat])'
    BY <1>1, <2>1 DEF Shape
  <2> QED
    BY <1>1, <1>2, <2>2 DEF Shape
<1>5. Reports'
  BY <1>1 DEF Reports
<1>6. Results(own)'
  BY <1>1, <1>2, NoNewResults
<1>7. /\ Given \in SUBSET (1 .. Done) /\ Given' = Given
      /\ Often(own, Given)' = Often(own, Given)
  BY <1>1, <1>2, <1>3, SameGiven
<1>8. pc' = "remove" => requests' = Often(own, Given)
  <2> SUFFICES ASSUME pc' = "remove" PROVE requests' = Often(own, Given)
    OBVIOUS
  <2>1. loaded \subseteq files /\ Given = BuildsOf(loaded)
    BY <1>1 DEF Build
  <2>2. IsFiniteSet(loaded)
    BY <2>1, FS_Subset DEF Results
  <2>3. CASE Cardinality(loaded) = 1
    <3>1. PICK f : loaded = {f}
      BY <2>2, <2>3, FS_Singleton
    <3>2. ResultOf(own, f) /\ Given = f.of
      BY <2>1, <3>1 DEF Results, BuildsOf
    <3>3. requests' = {c \in DOMAIN f.counts : f.counts[c] >= Threshold}
      BY <2>3, <3>1 DEF FindCoversToRemove
    <3> QED
      BY <3>2, <3>3 DEF ResultOf, Often
  <2>4. CASE Cardinality(loaded) /= 1
    <3>1. ~(Cardinality(loaded) > 1)
      BY DEF FindCoversToRemove
    <3>2. Cardinality(loaded) = 0
      BY <2>2, <2>4, <3>1, FS_CardinalityType
    <3>3. loaded = {}
      BY <2>2, <3>2, FS_EmptySet
    <3>4. requests' = {} /\ Given = {}
      BY <2>1, <2>4, <3>3 DEF FindCoversToRemove, BuildsOf
    <3> QED
      BY <3>4 DEF Often, KnownIn
  <2> QED
    BY <2>3, <2>4
<1>9. Build(own)'
  <2>1. annos' = Annos' /\ points' = AllPoints' /\ basis' /= <<>> /\ pc' /= "find"
    BY <1>1, <1>2, <1>3, SameDesign DEF Build
  <2>2. pc' = "remove" => requests' = Often(own, Given)'
    BY <1>7, <1>8
  <2>3. Len(hits') > 0 => DOMAIN counts' = Kept(own, basis[Len(hits)])'
    BY <1>1, SameCounts
  <2> QED
    BY <1>1, <1>2, <2>1, <2>2, <2>3 DEF Build
<1> QED
  BY <1>4, <1>5, <1>6, <1>9

\* What RemoveCoverPoints leaves.
LEMMA RemovedPoints ==
    ASSUME Shape, NEW own, Results(own), Build(own), pc = "remove"
    PROVE  [k \in Modules |-> {n \in points[k] : ~Removable(k, n)}] = PointsFor(own, Given)
<1>1. WellFormed(design) /\ basis /= <<>> /\ Pending
  BY Facts DEF Shape, Pending
<1>2. points = AllPoints /\ requests = Often(own, Given)
  BY <1>1 DEF Build
<1>3. \A b \in Given : own[b] \subseteq AllCounters
  BY <1>1, GivenIsDone, DoneAreHistory DEF IsHistory
<1>4. requests \subseteq AllCounters
  BY <1>2, <1>3 DEF Often, KnownIn
<1>5. \A k \in Modules : \A m : Removable(k, m) <=> \A p \in Paths(k) : <<p, m>> \in requests
  BY <1>1, <1>4, RemovableInAll
<1> QED
  BY <1>2, <1>5 DEF PointsFor, AllPoints

\* RemoveCoverPoints: the points that are kept are those of the builds given.
LEMMA RemoveStep ==
    ASSUME Shape, NEW own, Results(own), Build(own), RemoveCoverPoints
    PROVE  Shape' /\ Reports' /\ Results(own)' /\ Build(own)'
<1>1. /\ pc = "remove" /\ pc' = "run" /\ cycles' = 0
      /\ points' = [k \in Modules |-> {n \in points[k] : ~Removable(k, n)}]
      /\ counts' = Zero(Counters(points'))
      /\ hits' = Append(hits, Zero(Counters(points)))
      /\ design' = design /\ annos' = annos /\ loaded' = loaded /\ requests' = requests
      /\ files' = files /\ report' = report /\ basis' = basis
  BY SMTT(30) DEF RemoveCoverPoints
<1>2. PICK n \in Nat : n = Len(hits)
  BY Facts
<1>3. /\ Pending /\ ~Pending' /\ Done = n /\ Len(basis) = n + 1
      /\ WellFormed(design) /\ hits \in Seq([AllCounters -> Nat]) /\ basis /= <<>>
      /\ MaxCycles \in Nat /\ DOMAIN hits = 1 .. n
  BY <1>1, <1>2, Facts DEF Shape, Done, Pending
<1>4. points = AllPoints /\ requests = Often(own, Given) /\ annos = Annos
  BY <1>1, <1>3 DEF Build
<1> DEFINE zero == Zero(Counters(points))
<1>5. zero \in [AllCounters -> Nat] /\ \A c \in AllCounters : zero[c] = 0
  BY <1>4 DEF Zero, AllCounters
<1> HIDE DEF zero
<1>6. hits' = Append(hits, zero)
  BY <1>1 DEF zero
<1>7. /\ hits' \in Seq([AllCounters -> Nat]) /\ Len(hits') = n + 1
      /\ hits'[n + 1] = zero /\ \A b \in 1 .. n : hits'[b] = hits[b]
  BY <1>2, <1>3, <1>5, <1>6
<1>8. Done' = Done
  BY <1>1, <1>3, <1>7 DEF Done
<1>9. Shape'
  <2>1. hits' \in Seq([AllCounters -> Nat])'
    BY <1>1, <1>7, SameDesign
  <2> QED
    BY <1>1, <1>3, <1>7, <2>1 DEF Shape
<1>10. Reports'
  BY <1>1 DEF Reports
<1>11. Results(own)'
  BY <1>1, <1>3, <1>7, <1>8, NoNewResults
<1>12. /\ Given \in SUBSET (1 .. Done) /\ Given' = Given
       /\ PointsFor(own, Given)' = PointsFor(own, Given)
       /\ Kept(own, Given)' = Kept(own, Given)
  BY <1>1, <1>3, <1>7, SameGiven
<1>13. points' = PointsFor(own, Given)
  BY <1>1, RemovedPoints
<1>14. /\ DOMAIN counts' = Kept(own, Given) /\ IsMap(counts)'
      /\ \A c \in DOMAIN counts' : counts'[c] = 0
  BY <1>1, <1>13 DEF Zero, Kept, IsMap
<1>15. Build(own)'
  <2>1. annos' = Annos' /\ basis' /= <<>>
    BY <1>1, <1>3, <1>4, SameDesign
  <2>2. points' = PointsFor(own, Given)' /\ DOMAIN counts' = Kept(own, Given)'
    BY <1>12, <1>13, <1>14
  <2>3. Given' = basis'[Len(hits')]
    BY <1>1, <1>3, <1>7 DEF Given
  <2>4. \A c \in DOMAIN counts' : counts'[c] = hits'[Len(hits')][c]
    <3>1. DOMAIN counts' \subseteq AllCounters
      BY <1>14, SomeAreKept
    <3> QED
      BY <1>5, <1>7, <1>14, <3>1
  <2>5. DOMAIN counts' = Kept(own, basis[Len(hits)])'
    BY <2>2, <2>3
  <2> QED
    BY <1>1, <1>3, <1>14, <2>1, <2>2, <2>4, <2>5 DEF Build
<1> QED
  BY <1>9, <1>10, <1>11, <1>15

\* Cycle: the running build counts, the others stay as they are.
LEMMA CycleStep ==
    ASSUME Shape, NEW own, Results(own), Build(own), Cycle
    PROVE  Shape' /\ Reports' /\ Results(own)' /\ Build(own)'
<1>1. /\ pc = "run" /\ cycles < MaxCycles /\ cycles' = cycles + 1
      /\ design' = design /\ pc' = pc /\ annos' = annos /\ points' = points
      /\ loaded' = loaded /\ requests' = requests /\ files' = files
      /\ report' = report /\ basis' = basis
  BY DEF Cycle
<1>2. PICK behaviors \in Behaviors :
         /\ counts' = Counted(counts, behaviors)
         /\ hits' = [hits EXCEPT ![Len(hits)] = Counted(@, behaviors)]
  BY DEF Cycle
<1>3. PICK n \in Nat : n = Len(hits)
  BY Facts
<1>4. /\ n > 0 /\ Done = n - 1 /\ Len(basis) = n /\ DOMAIN basis = 1 .. n
      /\ WellFormed(design) /\ hits \in Seq([AllCounters -> Nat]) /\ basis /= <<>>
      /\ MaxCycles \in Nat /\ DOMAIN hits = 1 .. n /\ ~Pending /\ ~Pending'
      /\ hits[n] \in [AllCounters -> Nat] /\ n \in 1 .. n
  BY <1>1, <1>3, Facts DEF Shape, Done, Pending
<1> DEFINE more(c) == IF Hit(behaviors[c[1]], c[2]) THEN 1 ELSE 0
           last == Counted(hits[n], behaviors)
<1>5. last \in [AllCounters -> Nat] /\ \A c \in AllCounters : last[c] = hits[n][c] + more(c)
  <2>1. DOMAIN hits[n] = AllCounters /\ \A c \in AllCounters : hits[n][c] \in Nat
    BY <1>4
  <2>2. \A c : more(c) \in Nat
    OBVIOUS
  <2> HIDE DEF more
  <2>3. last = [c \in AllCounters |-> hits[n][c] + more(c)]
    BY <2>1 DEF Counted, more
  <2> HIDE DEF last
  <2> QED
    BY <2>1, <2>2, <2>3
<1>6. hits' = [hits EXCEPT ![n] = last]
  BY <1>2, <1>3
<1>7. counts' = [c \in DOMAIN counts |-> counts[c] + more(c)]
  BY <1>2 DEF Counted
<1> HIDE DEF last, more
<1>8. /\ hits' \in Seq([AllCounters -> Nat]) /\ Len(hits') = n
      /\ hits'[n] = last /\ \A b \in 1 .. Done : hits'[b] = hits[b]
  <2>1. hits' \in Seq([AllCounters -> Nat]) /\ Len(hits') = n
    BY <1>3, <1>4, <1>5, <1>6, ExceptSeq
  <2>2. hits'[n] = last /\ \A b \in 1 .. n : b /= n => hits'[b] = hits[b]
    BY <1>4, <1>6
  <2> QED
    BY <1>4, <2>1, <2>2
<1>9. Done' = Done
  BY <1>1, <1>4, <1>8 DEF Done
<1>10. Shape'
  <2>1. hits' \in Seq([AllCounters -> Nat])'
    BY <1>1, <1>8, SameDesign
  <2>2. cycles' \in 0 .. MaxCycles
    BY <1>1, <1>4 DEF Shape
  <2> QED
    BY <1>1, <1>3, <1>4, <1>8, <2>1, <2>2 DEF Shape
<1>11. Reports'
  BY <1>1 DEF Reports
<1>12. Results(own)'
  BY <1>1, <1>8, <1>9, NoNewResults
<1>13. PICK builds \in SUBSET (1 .. Done) :
          builds = basis[n] /\ builds = Given /\ builds = Given' /\ builds = basis'[Len(hits')]
  <2>1. basis[n] \in SUBSET (1 .. Done)
    BY <1>4 DEF Shape
  <2> QED
    BY <1>1, <1>4, <1>8, <2>1 DEF Given
<1>14. PointsFor(own, builds)' = PointsFor(own, builds) /\ Kept(own, builds)' = Kept(own, builds)
  <2>1. PICK m \in Nat : m = Done
    BY Facts
  <2>2. /\ DOMAIN own = 1 .. m /\ \A b \in 1 .. m : own[b] = own[b] /\ hits'[b] = hits[b]
        /\ builds \in SUBSET (1 .. m)
    BY <1>8, <2>1 DEF Results
  <2> QED
    BY <1>1, <2>2, SameHistory
<1>15. /\ annos = Annos /\ points = PointsFor(own, builds)
       /\ DOMAIN counts = Kept(own, builds)
       /\ \A c \in DOMAIN counts : counts[c] = hits[n][c]
  BY <1>1, <1>3, <1>4, <1>13 DEF Build
<1>16. IsMap(counts)'
  BY <1>7 DEF IsMap
<1>17. Build(own)'
  <2>1. annos' = Annos' /\ basis' /= <<>>
    BY <1>1, <1>4, <1>15, SameDesign
  <2>2. points' = PointsFor(own, Given)'
    BY <1>1, <1>13, <1>14, <1>15
  <2>3. DOMAIN counts' = Kept(own, basis[Len(hits)])'
    BY <1>7, <1>13, <1>14, <1>15
  <2>4. \A c \in DOMAIN counts' : counts'[c] = hits'[Len(hits')][c]
    <3>1. DOMAIN counts \subseteq AllCounters
      BY <1>15, SomeAreKept
    <3> QED
      BY <1>5, <1>7, <1>8, <1>15, <3>1
  <2> QED
    BY <1>1, <1>4, <1>16, <2>1, <2>2, <2>3, <2>4 DEF Build
<1> QED
  BY <1>10, <1>11, <1>12, <1>17

\* The result of a simulation is a result of one build.
LEMMA SaveStep ==
    ASSUME Shape, NEW own, Results(own), Build(own), SaveResult
    PROVE  Shape' /\ Reports' /\ \E new : Results(new)' /\ Build(new)'
<1>1. /\ pc = "run" /\ pc' = "instrument" /\ design' = design /\ annos' = annos
      /\ points' = points /\ loaded' = loaded /\ requests' = requests
      /\ cycles' = cycles /\ counts' = counts /\ report' = report /\ basis' = basis
      /\ hits' = hits /\ files' = files \cup {[counts |-> counts, of |-> {Len(hits)}]}
  BY DEF SaveResult
<1>2. PICK n \in Nat : n = Len(hits)
  BY Facts
<1>3. /\ n > 0 /\ Done = n - 1 /\ Len(basis) = n /\ DOMAIN basis = 1 .. n /\ Done' = n
      /\ WellFormed(design) /\ basis /= <<>> /\ ~Pending /\ ~Pending'
      /\ DOMAIN own = 1 .. Done /\ n \in 1 .. n /\ Len(hits') = n
  BY <1>1, <1>2, Facts DEF Shape, Done, Pending, Results
<1>4. PICK kept : kept = DOMAIN counts
  OBVIOUS
<1>5. PICK new : new = [b \in 1 .. n |-> IF b = n THEN kept ELSE own[b]]
  OBVIOUS
<1>6. /\ DOMAIN new = 1 .. n /\ new[n] = kept /\ 1 .. Done \subseteq DOMAIN new
      /\ \A b \in 1 .. Done : new[b] = own[b] /\ hits'[b] = hits[b] /\ basis'[b] = basis[b]
  <2>1. DOMAIN new = 1 .. n /\ new[n] = kept /\ \A b \in 1 .. n : b /= n => new[b] = own[b]
    BY <1>3, <1>5
  <2> QED
    BY <1>1, <1>3, <2>1
<1>7. PICK builds \in SUBSET (1 .. Done) :
         builds = basis[n] /\ builds = Given /\ builds = Given' /\ builds = basis'[n]
  <2>1. basis[n] \in SUBSET (1 .. Done)
    BY <1>3 DEF Shape
  <2> QED
    BY <1>1, <1>3, <2>1 DEF Given
<1>8. /\ annos = Annos /\ points = PointsFor(own, builds) /\ kept = Kept(own, builds)
      /\ IsMap(counts) /\ \A c \in kept : counts[c] = hits[n][c]
  BY <1>1, <1>2, <1>3, <1>4, <1>7 DEF Build
<1>9. /\ PointsFor(new, builds)' = PointsFor(own, builds)
      /\ Kept(new, builds)' = Kept(own, builds)
  <2>1. PICK m \in Nat : m = Done
    BY Facts
  <2>2. /\ DOMAIN own = 1 .. m /\ 1 .. m \subseteq DOMAIN new
        /\ \A b \in 1 .. m : new[b] = own[b] /\ hits'[b] = hits[b]
        /\ builds \in SUBSET (1 .. m)
    BY <1>3, <1>6, <2>1
  <2> QED
    BY <1>1, <2>2, SameHistory, ZenonT(60)
<1>10. Shape'
  <2>1. hits' \in Seq([AllCounters -> Nat])'
    BY <1>1, SameDesign DEF Shape
  <2> QED
    BY <1>1, <1>3, <2>1 DEF Shape
<1>11. Reports'
  BY <1>1 DEF Reports
<1>12. PICK r : r = [counts |-> counts, of |-> {n}]
  OBVIOUS
<1>13. ResultOf(new, r)'
  <2>1. KnownIn(new, {n}) = kept
    BY <1>6 DEF KnownIn
  <2>2. ASSUME NEW c \in kept PROVE CountedIn(new, {n}, c)' = counts[c]
    <3> DEFINE f == Part(Tally(new, c), {n})'
    <3>1. DOMAIN f = {n} /\ f[n] = hits[n][c]
      BY <1>1, <1>3, <1>6 DEF Part, Tally
    <3>2. hits[n][c] \in Nat
      <4>1. c \in AllCounters
        BY <1>8, SomeAreKept
      <4> QED
        BY <1>2, <1>3, <4>1, Facts
    <3> HIDE DEF f
    <3>3. SumOf(f) = f[n]
      BY <3>1, <3>2, SumOfOne
    <3> QED
      BY <1>8, <3>1, <3>3 DEF CountedIn, f
  <2> QED
    BY <1>4, <1>8, <1>12, <2>1, <2>2 DEF ResultOf, KnownIn
<1>14. Results(new)'
  <2>1. \A b \in 1 .. n : new[b] = Kept(new, basis[b])'
    <3> SUFFICES ASSUME NEW b \in 1 .. n PROVE new[b] = Kept(new, basis[b])'
      OBVIOUS
    <3>1. CASE b = n
      BY <1>6, <1>7, <1>8, <1>9, <3>1
    <3>2. CASE b /= n
      <4>1. b \in 1 .. Done /\ own[b] = Kept(own, basis[b])
        BY <1>3, <3>2 DEF Results
      <4>2. Kept(new, basis[b])' = Kept(own, basis[b])
        BY <1>1, <1>3, <1>6, <4>1, SameKept
      <4> QED
        BY <1>6, <4>1, <4>2
    <3> QED
      BY <3>1, <3>2
  <2>2. IsFiniteSet(files')
    BY <1>1, FS_AddElement DEF Results
  <2>3. \A f \in files : ResultOf(new, f)' /\ f.of \subseteq 1 .. n
    <3> SUFFICES ASSUME NEW f \in files PROVE ResultOf(new, f)' /\ f.of \subseteq 1 .. n
      OBVIOUS
    <3>1. ResultOf(new, f)' /\ f.of \subseteq 1 .. Done
      BY <1>1, <1>6, SameResults
    <3> QED
      BY <1>3, <3>1
  <2>4. r.of \subseteq 1 .. n
    BY <1>3, <1>12
  <2>5. \A f \in files' : f \in files \/ f = r
    BY <1>1, <1>2, <1>12
  <2>6. \A f \in files' : ResultOf(new, f)' /\ f.of \subseteq 1 .. n
    BY <1>13, <2>3, <2>4, <2>5
  <2> QED
    BY <1>3, <1>6, <2>1, <2>2, <2>6 DEF Results
<1>15. Build(new)'
  <2>1. annos' = Annos' /\ basis' /= <<>>
    BY <1>1, <1>3, <1>8, SameDesign
  <2>2. points' = PointsFor(new, Given)'
    BY <1>1, <1>7, <1>8, <1>9
  <2>3. DOMAIN counts' = Kept(new, basis[Len(hits)])'
    BY <1>1, <1>3, <1>4, <1>7, <1>8, <1>9
  <2> QED
    BY <1>1, <1>3, <2>1, <2>2, <2>3 DEF Build
<1> QED
  BY <1>10, <1>11, <1>14, <1>15

\* MergeResults: one more result, of builds that are done.
LEMMA MergeStep ==
    ASSUME Shape, NEW own, Results(own), Build(own), MergeResults
    PROVE  Shape' /\ Reports' /\ Results(own)' /\ Build(own)'
<1>1. /\ pc = "instrument" /\ pc' = pc /\ design' = design /\ annos' = annos
      /\ points' = points /\ loaded' = loaded /\ requests' = requests
      /\ cycles' = cycles /\ counts' = counts /\ report' = report /\ basis' = basis
      /\ hits' = hits
  BY DEF MergeResults
<1>2. PICK results \in SUBSET files :
         /\ Cardinality(results) > 1
         /\ \A f, g \in results : f = g \/ f.of \cap g.of = {}
         /\ files' = files \cup {[counts |-> Merged(results), of |-> BuildsOf(results)]}
  BY DEF MergeResults, BuildsOf
<1>3. PICK n \in Nat : n = Done
  BY Facts
<1>4. PICK r : r = [counts |-> Merged(results), of |-> BuildsOf(results)]
  OBVIOUS
<1>5. IsHistory(own, n) /\ DOMAIN own = 1 .. n
  BY <1>3, DoneAreHistory DEF Results
<1>6. ResultOf(own, r) /\ r.of \in SUBSET (1 .. n)
  <2>1. IsFiniteSet(results) /\ results /= {}
    BY <1>2, FS_Subset, FS_EmptySet DEF Results
  <2>2. \A f \in results : ResultOf(own, f) /\ f.of \in SUBSET (1 .. n)
    BY <1>2, <1>3 DEF Results
  <2>3. ResultOf(own, [counts |-> Merged(results), of |-> BuildsOf(results)])
    BY <1>2, <1>5, <2>1, <2>2, MergedIsResult
  <2>4. BuildsOf(results) \subseteq 1 .. n
    BY <2>2 DEF BuildsOf
  <2> QED
    BY <1>4, <2>3, <2>4
<1>7. Done' = Done /\ ~Pending /\ ~Pending'
  BY <1>1 DEF Done, Pending
<1>8. Shape'
  <2>1. hits' \in Seq([AllCounters -> Nat])'
    BY <1>1, SameDesign DEF Shape
  <2> QED
    BY <1>1, <1>7, <2>1 DEF Shape
<1>9. Reports'
  BY <1>1 DEF Reports
<1>10. Results(own)'
  <2>1. \A b \in 1 .. n : Kept(own, basis[b])' = Kept(own, basis[b])
    BY <1>1, <1>3, <1>5, SameKept
  <2>2. IsFiniteSet(files')
    BY <1>2, FS_AddElement DEF Results
  <2>3. \A f \in files : ResultOf(own, f)' /\ f.of \subseteq 1 .. n
    BY <1>1, <1>3, <1>5, SameResults
  <2>4. ResultOf(own, r)'
    <3>1. \A b \in 1 .. n : own[b] = own[b] /\ hits'[b] = hits[b]
      BY <1>1
    <3>2. PICK builds \in SUBSET (1 .. n) : r.of = builds
      BY <1>6
    <3>3. ResultOf(own, r)' <=> ResultOf(own, r)
      BY <1>1, <1>5, <3>1, <3>2, SameHistory
    <3> QED
      BY <1>6, <3>3
  <2>5. \A f \in files' : ResultOf(own, f)' /\ f.of \subseteq 1 .. n
    BY <1>2, <1>4, <1>6, <2>3, <2>4
  <2> QED
    BY <1>1, <1>3, <1>5, <1>7, <2>1, <2>2, <2>5 DEF Results
<1>11. Build(own)'
  <2>1. Len(hits) > 0 => DOMAIN counts = Kept(own, basis[Len(hits)])'
    BY <1>1, SameCounts
  <2>2. basis /= <<>> => points' = PointsFor(own, Given)'
    BY <1>1, SameGiven DEF Build, Pending
  <2>3. annos' = (IF basis = <<>> THEN {} ELSE Annos)'
    BY <1>1, SameDesign DEF Build
  <2>4. basis' = <<>> => points' = [k \in Modules |-> {}]'
    BY <1>1, SameDesign DEF Build
  <2> QED
    BY <1>1, <2>1, <2>2, <2>3, <2>4 DEF Build, Pending
<1> QED
  BY <1>8, <1>9, <1>10, <1>11

\* A report stays as long as the annotations do.
LEMMA SameReport ==
    ASSUME design' = design, annos' = annos, NEW f
    PROVE  ReportFor(f)' = ReportFor(f)
<1>1. \A a : Paths(a.mod)' = Paths(a.mod)
  BY SameDesign
<1>2. \A a : Total(a, f.counts)' = Total(a, f.counts)
  BY <1>1 DEF Total
<1>3. LinesFor(f)' = LinesFor(f)
  BY <1>2 DEF LinesFor
<1>4. \A a : FiresOf(a, f)' = FiresOf(a, f)
  BY <1>1 DEF FiresOf
<1>5. FiresFor(f)' = FiresFor(f)
  BY <1>4 DEF FiresFor
<1> QED
  BY <1>3, <1>5 DEF ReportFor

\* A report is made of one result and the annotations, or there is none.
LEMMA ProcessStep ==
    ASSUME Shape, NEW own, Results(own), Build(own), ProcessCoverage
    PROVE  Shape' /\ Reports' /\ Results(own)' /\ Build(own)'
<1>1. /\ pc = "instrument" /\ pc' \in {"reported", "unknown", "ambiguous"}
      /\ design' = design
      /\ annos' = annos /\ points' = points /\ loaded' = loaded /\ requests' = requests
      /\ cycles' = cycles /\ counts' = counts /\ files' = files /\ basis' = basis
      /\ hits' = hits
  BY DEF ProcessCoverage
<1>2. Done' = Done /\ Pending' = Pending
  BY <1>1 DEF Done, Pending
<1>3. Shape'
  <2>1. hits' \in Seq([AllCounters -> Nat])'
    BY <1>1, SameDesign DEF Shape
  <2> QED
    BY <1>1, <1>2, <2>1 DEF Shape
<1>4. Reports'
  <2>1. Wanted' = Wanted
    BY <1>1, SameDesign DEF Wanted
  <2>2. \A f : ReportFor(f)' = ReportFor(f)
    BY <1>1, SameReport
  <2>3. PICK f \in files :
           \/ pc' = "ambiguous"
           \/ IF Wanted \subseteq DOMAIN f.counts
              THEN pc' = "reported" /\ report' = ReportFor(f)
              ELSE pc' = "unknown" /\ report' = [of |-> f.of]
    BY DEF ProcessCoverage, ReportFor, LinesFor, FiresFor, FiresOf
  <2> QED
    BY <1>1, <2>1, <2>2, <2>3 DEF Reports
<1>5. Results(own)'
  BY <1>1, <1>2, NoNewResults
<1>6. Build(own)'
  <2>1. Len(hits) > 0 => DOMAIN counts = Kept(own, basis[Len(hits)])'
    BY <1>1, SameCounts
  <2>2. basis /= <<>> => points' = PointsFor(own, Given)'
    BY <1>1, SameGiven DEF Build, Pending
  <2>3. annos' = (IF basis = <<>> THEN {} ELSE Annos)'
    BY <1>1, SameDesign DEF Build
  <2>4. basis' = <<>> => points' = [k \in Modules |-> {}]'
    BY <1>1, SameDesign DEF Build
  <2> QED
    BY <1>1, <2>1, <2>2, <2>3, <2>4 DEF Build, Pending
<1> QED
  BY <1>3, <1>4, <1>5, <1>6

\* Nothing changes.
LEMMA StutterStep ==
    ASSUME Shape, Reports, NEW own, Results(own), Build(own), UNCHANGED vars
    PROVE  Shape' /\ Reports' /\ Results(own)' /\ Build(own)'
<1>1. /\ pc' = pc /\ design' = design /\ annos' = annos /\ points' = points
      /\ loaded' = loaded /\ requests' = requests /\ cycles' = cycles
      /\ counts' = counts /\ files' = files /\ report' = report /\ basis' = basis
      /\ hits' = hits
  BY DEF vars
<1>2. Done' = Done /\ (Pending' <=> Pending)
  BY <1>1 DEF Done, Pending
<1>3. Shape'
  <2>1. hits' \in Seq([AllCounters -> Nat])'
    BY <1>1, SameDesign DEF Shape
  <2> QED
    BY <1>1, <1>2, <2>1 DEF Shape
<1>4. Reports'
  <2>1. Wanted' = Wanted
    BY <1>1, SameDesign DEF Wanted
  <2>2. \A f : ReportFor(f)' = ReportFor(f)
    BY <1>1, SameReport
  <2> QED
    BY <1>1, <2>1, <2>2 DEF Reports
<1>5. Results(own)'
  BY <1>1, <1>2, NoNewResults
<1>6. Build(own)'
  <2>1. Len(hits) > 0 => DOMAIN counts = Kept(own, basis[Len(hits)])'
    BY <1>1, SameCounts
  <2>2. basis /= <<>> => /\ PointsFor(own, Given)' = PointsFor(own, Given)
                         /\ Often(own, Given)' = Often(own, Given)
    BY <1>1, SameGiven
  <2>3. annos' = (IF basis = <<>> THEN {} ELSE Annos)' /\ AllPoints' = AllPoints
    BY <1>1, SameDesign DEF Build
  <2>4. basis' = <<>> => points' = [k \in Modules |-> {}]'
    BY <1>1, SameDesign DEF Build
  <2>5. Pending => basis /= <<>>
    BY Facts DEF Shape
  <2>6. Given' = Given /\ BuildsOf(loaded') = BuildsOf(loaded)
    BY <1>1 DEF Given
  <2>7. pc = "remove" => Pending
    BY DEF Pending
  <2> QED
    BY <1>1, <1>2, <2>1, <2>2, <2>3, <2>4, <2>5, <2>6, <2>7 DEF Build, BuildsOf
<1> QED
  BY <1>3, <1>4, <1>5, <1>6

\* The invariant holds in every state that the campaign can reach.
THEOREM IInvHolds == Spec => []IInv
<1>1. Init => IInv
  <2> SUFFICES ASSUME Init PROVE IInv
    OBVIOUS
  <2>1. WellFormed(design) /\ MaxBuilds \in Nat /\ MaxCycles \in Nat
    BY CoverPointsAssumption DEF Init
  <2>2. /\ basis = <<>> /\ hits = <<>> /\ pc = "instrument" /\ cycles = 0
        /\ files = {} /\ annos = {} /\ points = [k \in Modules |-> {}]
        /\ Len(basis) = 0 /\ Len(hits) = 0 /\ design \in Designs
    BY DEF Init
  <2>3. Shape /\ Reports
    BY <2>1, <2>2 DEF Shape, Reports, Pending
  <2>4. Results(<<>>)
    <3>1. Done = 0 /\ 1 .. 0 = {}
      BY <2>2 DEF Done
    <3>2. IsFiniteSet(files)
      BY <2>2, FS_EmptySet
    <3> QED
      BY <2>2, <3>1, <3>2 DEF Results
  <2>5. Build(<<>>)
    BY <2>2 DEF Build, Pending
  <2> QED
    BY <2>3, <2>4, <2>5 DEF IInv
<1>2. IInv /\ [Next]_vars => IInv'
  <2> SUFFICES ASSUME Shape, Reports, NEW own, Results(own), Build(own), [Next]_vars
               PROVE  IInv'
    BY DEF IInv
  <2>1. CASE Instrument
    BY <2>1, InstrumentStep DEF IInv
  <2>2. CASE FindCoversToRemove
    BY <2>2, FindStep DEF IInv
  <2>3. CASE RemoveCoverPoints
    BY <2>3, RemoveStep DEF IInv
  <2>4. CASE Cycle
    BY <2>4, CycleStep DEF IInv
  <2>5. CASE SaveResult
    BY <2>5, SaveStep DEF IInv
  <2>6. CASE MergeResults
    BY <2>6, MergeStep DEF IInv
  <2>7. CASE ProcessCoverage
    BY <2>7, ProcessStep DEF IInv
  <2>8. CASE UNCHANGED vars
    BY <2>8, StutterStep DEF IInv
  <2> QED
    BY <2>1, <2>2, <2>3, <2>4, <2>5, <2>6, <2>7, <2>8 DEF Next
<1> QED
  BY <1>1, <1>2, PTL DEF Spec

------------------------------------------------------------------------------
(* What follows from the invariant.                                          *)

\* A set of numbers has a smallest one.
LEMMA Smallest ==
    ASSUME NEW S \in SUBSET Nat, S /= {}
    PROVE  \E n \in S : \A m \in S : n <= m
<1> DEFINE R == OpToRel(<, Nat)
<1>1. IsWellFoundedOn(R, Nat)
  BY NatLessThanWellFounded
<1>2. \A m, n \in Nat : m < n => <<m, n>> \in R
  BY DEF OpToRel
<1> HIDE DEF R
<1>3. PICK n \in S : \A m \in S : ~ (<<m, n>> \in R)
  BY <1>1, WFMin, Zenon
<1>4. \A m \in S : ~(m < n)
  BY <1>2, <1>3
<1> QED
  BY <1>4

\* The first build of a closed result was given nothing and has kept all.
LEMMA ClosedKnowsAll ==
    ASSUME Shape, NEW own, Results(own), NEW f \in files, Closed(f.of)
    PROVE  DOMAIN f.counts = AllCounters
<1>1. ResultOf(own, f) /\ f.of \subseteq 1 .. Done /\ f.of /= {} /\ Done \in Nat
  BY Facts DEF Results, ResultOf
<1>2. PICK b \in f.of : \A c \in f.of : b <= c
  BY <1>1, Smallest
<1>3. basis[b] \subseteq 1 .. b - 1 /\ basis[b] \subseteq f.of
  BY <1>1, <1>2, Facts DEF Closed
<1>4. basis[b] = {}
  <2> SUFFICES ASSUME NEW c \in basis[b] PROVE FALSE
    OBVIOUS
  <2>1. c \in 1 .. b - 1 /\ c \in f.of /\ b \in 1 .. Done
    BY <1>1, <1>3
  <2>2. b <= c
    BY <1>2, <2>1
  <2> QED
    BY <1>1, <2>1, <2>2
<1>5. own[b] = AllCounters
  <2>1. own[b] = Kept(own, basis[b])
    BY <1>1 DEF Results
  <2> QED
    BY <1>4, <2>1, FirstKeepsAll
<1>6. \A c \in f.of : own[c] \subseteq AllCounters
  BY <1>1, DoneAreHistory DEF IsHistory
<1> QED
  BY <1>1, <1>5, <1>6 DEF ResultOf, KnownIn

\* A build that drops a counter was given a result in which it, and with it
\* that of every other instance, has counted enough.
LEMMA CountsBounded ==
    ASSUME Shape, NEW own, Results(own), NEW f \in files,
           NEW k \in Modules, NEW p \in Paths(k), NEW n \in Names(k),
           <<p, n>> \in DOMAIN f.counts
    PROVE  /\ f.counts[<<p, n>>] \in Nat /\ HitsIn(f.of, <<p, n>>) \in Nat
           /\ f.counts[<<p, n>>] <= HitsIn(f.of, <<p, n>>)
           /\ f.counts[<<p, n>>] < HitsIn(f.of, <<p, n>>) /\ Closed(f.of) =>
                 \A q \in Paths(k) : <<q, n>> \in DOMAIN f.counts =>
                    f.counts[<<q, n>>] >= Threshold
<1>1. /\ ResultOf(own, f) /\ f.of \in SUBSET (1 .. Done) /\ IsHistory(own, Done)
      /\ WellFormed(design)
  BY DoneAreHistory, Facts DEF Results
<1>2. PICK c : c = <<p, n>>
  OBVIOUS
<1>3. c \in AllCounters /\ f.counts[c] = CountedIn(own, f.of, c)
  <2>1. c \in AllCounters
    BY <1>1, <1>2, CounterOf DEF AllCounters, AllPoints
  <2> QED
    BY <1>1, <1>2, <2>1 DEF ResultOf
<1>4. PICK m \in Nat : m = Done
  BY Facts
<1>5. PICK of \in SUBSET (1 .. m) : of = f.of
  BY <1>1, <1>4
<1>6. /\ HitsIn(of, c) \in Nat /\ CountedIn(own, of, c) \in Nat
      /\ CountedIn(own, of, c) <= HitsIn(of, c)
      /\ CountedIn(own, of, c) < HitsIn(of, c) => \E b \in of : c \notin own[b]
  <2>1. IsHistory(own, m)
    BY <1>1, <1>4
  <2> QED
    BY <1>3, <2>1, HitsAtLeast
<1>7. ASSUME f.counts[c] < HitsIn(f.of, c), Closed(f.of), NEW q \in Paths(k),
             <<q, n>> \in DOMAIN f.counts
      PROVE  f.counts[<<q, n>>] >= Threshold
  <2>1. PICK b \in of : c \notin own[b]
    BY <1>3, <1>5, <1>6, <1>7
  <2>2. own[b] = Kept(own, basis[b]) /\ basis[b] \in SUBSET of
    BY <1>4, <1>5, <1>7 DEF Results, Closed
  <2>3. n \notin PointsFor(own, basis[b])[k]
    BY <1>1, <1>2, <2>1, <2>2, CounterOf DEF Kept
  <2>4. <<q, n>> \in Often(own, basis[b])
    BY <2>3 DEF PointsFor
  <2>5. CountedIn(own, basis[b], <<q, n>>) >= Threshold
    BY <2>4 DEF Often
  <2>6. /\ CountedIn(own, basis[b], <<q, n>>) \in Nat /\ CountedIn(own, of, <<q, n>>) \in Nat
        /\ CountedIn(own, basis[b], <<q, n>>) <= CountedIn(own, of, <<q, n>>)
    BY <1>1, <1>4, <2>2, CountedMonotone
  <2>7. f.counts[<<q, n>>] = CountedIn(own, of, <<q, n>>)
    BY <1>1, <1>5, <1>7 DEF ResultOf
  <2>8. Threshold \in Nat
    BY CoverPointsAssumption
  <2> QED
    BY <2>5, <2>6, <2>7, <2>8
<1> QED
  BY <1>2, <1>3, <1>5, <1>6, <1>7

\* What is looked up are points of the design.
LEMMA AnnosWanted ==
    ASSUME Shape, NEW own, Build(own)
    PROVE  annos \subseteq Annos /\ Wanted \subseteq AllCounters
<1>1. annos \subseteq Annos
  BY DEF Build
<1>2. \A a \in annos : Paths(a.mod) \X {a.name} \subseteq AllCounters
  <2> SUFFICES ASSUME NEW a \in annos PROVE Paths(a.mod) \X {a.name} \subseteq AllCounters
    OBVIOUS
  <2>1. a.mod \in Modules /\ a.name \in AllPoints[a.mod]
    BY <1>1, AnnoShape DEF AllPoints
  <2> QED
    BY <2>1 DEF AllCounters, Counters
<1> QED
  BY <1>1, <1>2 DEF Wanted

\* The type invariant follows.
LEMMA IInvTypes == IInv => TypeOK
<1> SUFFICES ASSUME Shape, Reports, NEW own, Results(own), Build(own) PROVE TypeOK
  BY DEF IInv
<1>1. \A a, b \in annos : a.mod = b.mod /\ a.name = b.name => a = b
  BY AnnosWanted, AnnoShape
<1>2. ASSUME NEW k \in Modules
      PROVE  points[k] \subseteq {a.name : a \in {b \in annos : b.mod = k}}
  <2>1. CASE basis = <<>>
    BY <2>1 DEF Build
  <2>2. CASE basis /= <<>>
    <3>1. annos = Annos /\ (points = AllPoints \/ points = PointsFor(own, Given))
      BY <2>2 DEF Build
    <3> QED
      BY <3>1 DEF AllPoints, PointsFor, Names
  <2> QED
    BY <2>1, <2>2
<1>3. pc = "run" => DOMAIN counts = Counters(points)
  <2> SUFFICES ASSUME pc = "run" PROVE DOMAIN counts = Counters(points)
    OBVIOUS
  <2>1. Len(hits) > 0 /\ Len(hits) = Len(basis) /\ basis /= <<>> /\ ~Pending
    BY Facts DEF Shape, Pending
  <2> QED
    BY <2>1 DEF Build, Kept, Given
<1>4. ASSUME NEW f \in files
      PROVE  f.counts \in [DOMAIN f.counts -> Nat] /\ f.of \in (SUBSET DOMAIN hits) \ {{}}
  <2>1. ResultOf(own, f) /\ f.of \in SUBSET (1 .. Done) /\ IsHistory(own, Done)
    BY DoneAreHistory DEF Results
  <2>2. \A c : CountedIn(own, f.of, c) \in Nat
    BY <2>1, CountedMonotone
  <2>3. f.of \in (SUBSET DOMAIN hits) \ {{}}
    BY <2>1, Facts DEF ResultOf
  <2>4. IsMap(f.counts) /\ \A c \in DOMAIN f.counts : f.counts[c] \in Nat
    BY <2>1, <2>2 DEF ResultOf
  <2> QED
    BY <2>3, <2>4 DEF IsMap
<1>5. Len(hits) <= Len(basis) /\ Len(basis) <= MaxBuilds /\ cycles <= MaxCycles
  BY Facts DEF Shape
<1> QED
  BY <1>1, <1>2, <1>3, <1>4, <1>5 DEF TypeOK, Shape

\* The results that include what their builds were given know every point, and
\* what they have lost are only counts of points that had been covered often. The
\* first build was given no results: with its annotations processCoverage reports them.
THEOREM NothingLost == Spec => []NothingIsLost
<1>1. IInv => NothingIsLost
  <2> SUFFICES ASSUME Shape, Reports, NEW own, Results(own), Build(own)
               PROVE  NothingIsLost
    BY DEF IInv
  <2>1. TypeOK
    BY IInvTypes DEF IInv
  <2>2. ASSUME NEW f \in files, Closed(f.of)
        PROVE  /\ Wanted \subseteq DOMAIN f.counts
               /\ \A c \in DOMAIN f.counts :
                     /\ f.counts[c] <= HitsIn(f.of, c)
                     /\ f.counts[c] < HitsIn(f.of, c) => f.counts[c] >= Threshold
    <3>1. Wanted \subseteq DOMAIN f.counts
      BY <2>2, ClosedKnowsAll, AnnosWanted
    <3>2. ASSUME NEW c \in DOMAIN f.counts
          PROVE  /\ f.counts[c] <= HitsIn(f.of, c)
                 /\ f.counts[c] < HitsIn(f.of, c) => f.counts[c] >= Threshold
      <4>1. c \in AllCounters
        BY <2>2, ClosedKnowsAll
      <4>2. PICK k \in Modules : c \in Paths(k) \X AllPoints[k]
        BY <4>1 DEF AllCounters, Counters
      <4>3. PICK p \in Paths(k), n \in Names(k) : c = <<p, n>>
        BY <4>2 DEF AllPoints
      <4> QED
        BY <2>2, <4>3, CountsBounded
    <3> QED
      BY <3>1, <3>2
  <2>3. pc = "unknown" => ~Closed(report.of)
    <3> SUFFICES ASSUME pc = "unknown", Closed(report.of) PROVE FALSE
      OBVIOUS
    <3>1. PICK f \in files : ~(Wanted \subseteq DOMAIN f.counts) /\ report = [of |-> f.of]
      BY DEF Reports
    <3>2. Closed(f.of)
      BY <3>1
    <3> QED
      BY <2>2, <3>1, <3>2
  <2>4. files /= {} => \E b \in DOMAIN basis : ~GivenResults(b)
    <3> SUFFICES ASSUME NEW f \in files PROVE \E b \in DOMAIN basis : ~GivenResults(b)
      OBVIOUS
    <3>1. f.of \subseteq 1 .. Done /\ f.of /= {}
      BY DEF Results, ResultOf
    <3>2. Len(basis) \in Nat /\ Len(basis) > 0 /\ DOMAIN basis = 1 .. Len(basis)
      BY <3>1, Facts DEF Shape, Done, Pending
    <3>3. basis[1] \subseteq 1 .. 0
      BY <3>2 DEF Shape
    <3> QED
      BY <3>2, <3>3 DEF GivenResults
  <2> QED
    BY <2>1, <2>2, <2>3, <2>4 DEF NothingIsLost
<1> QED
  BY <1>1, IInvHolds, PTL

\* RemoveCoverPointsPass drops a point only when every instance has hit it often.
THEOREM RemovedOnlyCovered == Spec => []OnlyCoveredEverywhereRemoved
<1>1. IInv => OnlyCoveredEverywhereRemoved
  <2> SUFFICES ASSUME Shape, Reports, NEW own, Results(own), Build(own), pc = "run",
                      NEW a \in annos, a.name \notin points[a.mod], NEW p \in Paths(a.mod)
               PROVE  HitsIn(Given, <<p, a.name>>) >= Threshold
    BY DEF IInv, OnlyCoveredEverywhereRemoved, Given
  <2>1. basis /= <<>> /\ ~Pending
    BY Facts DEF Shape, Pending
  <2>2. points = PointsFor(own, Given) /\ a \in Annos
    BY <2>1, AnnosWanted DEF Build
  <2>3. a.mod \in Modules /\ a.name \in Names(a.mod)
    BY <2>2, AnnoShape
  <2>4. PICK c : c = <<p, a.name>>
    OBVIOUS
  <2>5. c \in Often(own, Given)
    BY <2>2, <2>3, <2>4 DEF PointsFor
  <2>6. c \in AllCounters
    BY <2>3, <2>4 DEF AllCounters, AllPoints, Counters
  <2>7. PICK m \in Nat : m = Done
    BY Facts
  <2>8. IsHistory(own, m) /\ Given \in SUBSET (1 .. m)
    BY <2>1, <2>7, DoneAreHistory, GivenIsDone
  <2>9. /\ HitsIn(Given, c) \in Nat /\ CountedIn(own, Given, c) \in Nat
        /\ CountedIn(own, Given, c) <= HitsIn(Given, c)
    BY <2>6, <2>8, HitsAtLeast
  <2>10. CountedIn(own, Given, c) >= Threshold /\ Threshold \in Nat
    BY <2>5, CoverPointsAssumption DEF Often
  <2> QED
    BY <2>4, <2>9, <2>10
<1> QED
  BY <1>1, IInvHolds, PTL

\* A build that is given all that the one before was given drops what that dropped.
THEOREM RemovedStayRemoved == Spec => PointsStayRemoved
<1> DEFINE More == basis[Len(basis) - 1] \subseteq basis[Len(basis)]
<1>1. IInv /\ [Next]_vars =>
         [pc = "remove" /\ Len(basis) > 1 /\ More => DOMAIN counts' \subseteq DOMAIN counts]_vars
  <2> SUFFICES ASSUME Shape, NEW own, Results(own), Build(own), Next,
                      pc = "remove", Len(basis) > 1, More
               PROVE  DOMAIN counts' \subseteq DOMAIN counts
    BY DEF IInv
  <2>1. RemoveCoverPoints
    BY DEF Next, Instrument, FindCoversToRemove, Cycle, SaveResult, MergeResults,
           ProcessCoverage
  <2>2. DOMAIN counts' = Kept(own, Given)
    BY <2>1, RemovedPoints DEF RemoveCoverPoints, Zero, Kept
  <2>3. PICK n \in Nat : n = Len(hits)
    BY Facts
  <2>4. Len(basis) = n + 1 /\ n > 0 /\ basis /= <<>> /\ Done = n
    BY <2>3, Facts DEF Shape, Pending, Done
  <2>5. DOMAIN counts = Kept(own, basis[n])
    BY <2>3, <2>4 DEF Build
  <2>6. basis[n] \subseteq Given /\ Given \in SUBSET (1 .. n) /\ IsHistory(own, n)
    BY <2>4, GivenIsDone, DoneAreHistory DEF Given
  <2>7. PICK less, all : less = basis[n] /\ all = Given
    OBVIOUS
  <2>8. Kept(own, all) \subseteq Kept(own, less)
    BY <2>6, <2>7, OftenMonotone
  <2> QED
    BY <2>2, <2>5, <2>7, <2>8
<1> QED
  BY <1>1, IInvHolds, PTL DEF Spec, PointsStayRemoved

------------------------------------------------------------------------------
(* The blocks of a module.  r are the pairs of a block and one that a when   *)
(* in it chooses from; blocks are numbers, and inner ones are greater.       *)

IsNesting(r, n) ==
    /\ n \in Nat /\ r \subseteq (1 .. n) \X (1 .. n)
    /\ \A x, y \in 1 .. n : <<x, y>> \in r => x < y

\* What is found from s outwards, and from s inwards along the blocks in p.
IsOutward(c, s, r, n) ==
    \A x \in 1 .. n : x \in c <=> x \in s \/ \E y \in 1 .. n : <<x, y>> \in r /\ y \in c
IsInward(a, s, p, r, n) ==
    \A y \in 1 .. n :
        y \in a <=> y \in s \/ (y \in p /\ \E x \in 1 .. n : <<x, y>> \in r /\ x \in a)

\* What leads outwards from s, by induction from the innermost block.
LEMMA OutwardExists ==
    ASSUME NEW r, NEW n, IsNesting(r, n), NEW s
    PROVE  \E c \in SUBSET (1 .. n) : IsOutward(c, s, r, n)
<1> DEFINE Upto(c, j) ==
               \A x \in 1 .. n : x > n - j =>
                  (x \in c <=> x \in s \/ \E y \in 1 .. n : <<x, y>> \in r /\ y \in c)
           S == {j \in Nat : \E c \in SUBSET (1 .. n) : Upto(c, j)}
<1>1. n \in Nat
  BY DEF IsNesting
<1>2. 0 \in S
  <2>1. Upto({}, 0)
    BY <1>1
  <2> HIDE DEF Upto
  <2>2. {} \in SUBSET (1 .. n)
    OBVIOUS
  <2> QED
    BY <2>1, <2>2
<1>3. ASSUME NEW j \in Nat, j \in S PROVE j + 1 \in S
  <2>1. PICK c \in SUBSET (1 .. n) : Upto(c, j)
    BY <1>3
  <2> DEFINE d == {x \in 1 .. n : IF x > n - j THEN x \in c
                                  ELSE x \in s \/ \E y \in 1 .. n : <<x, y>> \in r /\ y \in c}
  <2>2. \A x \in 1 .. n : x > n - j => (x \in d <=> x \in c)
    OBVIOUS
  <2>3. ASSUME NEW x \in 1 .. n, x > n - (j + 1)
        PROVE  x \in d <=> x \in s \/ \E y \in 1 .. n : <<x, y>> \in r /\ y \in d
    <3>1. \A y \in 1 .. n : <<x, y>> \in r => y > n - j
      BY <1>1, <2>3 DEF IsNesting
    <3>2. \A y \in 1 .. n : <<x, y>> \in r => (y \in d <=> y \in c)
      BY <2>2, <3>1
    <3>3. x \in d <=> x \in s \/ \E y \in 1 .. n : <<x, y>> \in r /\ y \in c
      BY <2>1
    <3> QED
      BY <3>2, <3>3
  <2>4. d \in SUBSET (1 .. n) /\ Upto(d, j + 1)
    BY <2>3
  <2> HIDE DEF d, Upto
  <2> QED
    BY <2>4
<1>4. n \in S
  <2> HIDE DEF S
  <2> QED
    BY <1>1, <1>2, <1>3, Induction
<1>5. PICK c \in SUBSET (1 .. n) : Upto(c, n)
  BY <1>4
<1>6. \A x \in 1 .. n : x > n - n
  BY <1>1
<1> QED
  BY <1>5, <1>6 DEF IsOutward

\* What leads inwards from s along p, by induction from the outermost block.
LEMMA InwardExists ==
    ASSUME NEW r, NEW n, IsNesting(r, n), NEW s, NEW p
    PROVE  \E a \in SUBSET (1 .. n) : IsInward(a, s, p, r, n)
<1> DEFINE Upto(a, j) ==
               \A y \in 1 .. n : y <= j =>
                  (y \in a <=> y \in s \/ (y \in p /\ \E x \in 1 .. n : <<x, y>> \in r /\ x \in a))
           S == {j \in Nat : \E a \in SUBSET (1 .. n) : Upto(a, j)}
<1>1. n \in Nat
  BY DEF IsNesting
<1>2. 0 \in S
  <2>1. Upto({}, 0)
    OBVIOUS
  <2> HIDE DEF Upto
  <2>2. {} \in SUBSET (1 .. n)
    OBVIOUS
  <2> QED
    BY <2>1, <2>2
<1>3. ASSUME NEW j \in Nat, j \in S PROVE j + 1 \in S
  <2>1. PICK a \in SUBSET (1 .. n) : Upto(a, j)
    BY <1>3
  <2> DEFINE d == {y \in 1 .. n : IF y <= j THEN y \in a
                      ELSE y \in s \/ (y \in p /\ \E x \in 1 .. n : <<x, y>> \in r /\ x \in a)}
  <2>2. \A y \in 1 .. n : y <= j => (y \in d <=> y \in a)
    OBVIOUS
  <2>3. ASSUME NEW y \in 1 .. n, y <= j + 1
        PROVE  y \in d <=> y \in s \/ (y \in p /\ \E x \in 1 .. n : <<x, y>> \in r /\ x \in d)
    <3>1. \A x \in 1 .. n : <<x, y>> \in r => x <= j
      BY <1>1, <2>3 DEF IsNesting
    <3>2. \A x \in 1 .. n : <<x, y>> \in r => (x \in d <=> x \in a)
      BY <2>2, <3>1
    <3>3. y \in d <=> y \in s \/ (y \in p /\ \E x \in 1 .. n : <<x, y>> \in r /\ x \in a)
      BY <2>1
    <3> QED
      BY <3>2, <3>3
  <2>4. d \in SUBSET (1 .. n) /\ Upto(d, j + 1)
    BY <2>3
  <2> HIDE DEF d, Upto
  <2> QED
    BY <2>4
<1>4. n \in S
  <2> HIDE DEF S
  <2> QED
    BY <1>1, <1>2, <1>3, Induction
<1>5. PICK a \in SUBSET (1 .. n) : Upto(a, n)
  BY <1>4
<1>6. \A y \in 1 .. n : y <= n
  BY <1>1
<1> QED
  BY <1>5, <1>6 DEF IsInward

\* Outwards from what is in t, if t has what it is in, there is nothing but t.
LEMMA OutwardLeast ==
    ASSUME NEW r, NEW n, IsNesting(r, n), NEW s, NEW c, IsOutward(c, s, r, n), NEW t,
           \A x \in 1 .. n : x \in s => x \in t,
           \A x, y \in 1 .. n : <<x, y>> \in r /\ y \in t => x \in t
    PROVE  \A x \in 1 .. n : x \in c => x \in t
<1> DEFINE S == {j \in Nat : \A x \in 1 .. n : x > n - j /\ x \in c => x \in t}
<1>1. n \in Nat
  BY DEF IsNesting
<1>2. 0 \in S
  BY <1>1
<1>3. ASSUME NEW j \in Nat, j \in S PROVE j + 1 \in S
  <2>1. ASSUME NEW x \in 1 .. n, x > n - (j + 1), x \in c PROVE x \in t
    <3>1. CASE x \in s
      BY <3>1
    <3>2. CASE x \notin s
      <4>1. PICK y \in 1 .. n : <<x, y>> \in r /\ y \in c
        BY <2>1, <3>2 DEF IsOutward
      <4>2. y > n - j
        BY <1>1, <2>1, <4>1 DEF IsNesting
      <4>3. y \in t
        BY <1>3, <4>1, <4>2
      <4> QED
        BY <4>1, <4>3
    <3> QED
      BY <3>1, <3>2
  <2> QED
    BY <2>1
<1>4. n \in S
  <2> HIDE DEF S
  <2> QED
    BY <1>1, <1>2, <1>3, Induction
<1>5. \A x \in 1 .. n : x > n - n
  BY <1>1
<1> QED
  BY <1>4, <1>5

\* Outwards from one block there is one way, if every block is in one.
LEMMA OneWayOut ==
    ASSUME NEW r, NEW n, IsNesting(r, n), NEW i \in 1 .. n, NEW c,
           IsOutward(c, {i}, r, n),
           \A x, y, z \in 1 .. n : <<x, z>> \in r /\ <<y, z>> \in r => x = y,
           NEW x \in 1 .. n, NEW y \in 1 .. n, NEW z \in 1 .. n,
           <<x, y>> \in r, <<x, z>> \in r, y \in c, z \in c
    PROVE  y = z
<1> DEFINE Outermost(u, m) == /\ u \in 1 .. n /\ u \in c /\ u >= m
                              /\ \A w \in 1 .. n : w >= m => <<w, u>> \notin r
           S == {j \in Nat : \A u, v \in 1 .. n :
                                Outermost(u, i - j) /\ Outermost(v, i - j) => u = v}
<1>1. n \in Nat /\ i \in Nat /\ i <= n
  BY DEF IsNesting
<1>2. \A u \in 1 .. n : u \in c => u <= i
  <2> DEFINE t == {u \in 1 .. n : u <= i}
  <2>1. \A u \in 1 .. n : u \in {i} => u \in t
    BY <1>1
  <2>2. \A u, v \in 1 .. n : <<u, v>> \in r /\ v \in t => u \in t
    BY <1>1 DEF IsNesting
  <2> HIDE DEF t
  <2>3. \A u \in 1 .. n : u \in c => u \in t
    BY <2>1, <2>2, OutwardLeast
  <2> QED
    BY <2>3 DEF t
<1>3. 0 \in S
  BY <1>1, <1>2
<1>4. ASSUME NEW j \in Nat, j \in S PROVE j + 1 \in S
  <2> DEFINE m == i - (j + 1)
  <2>1. m \in Int /\ i - j = m + 1 /\ m < i
    BY <1>1
  <2> HIDE DEF m
  <2>2. \A u, v \in 1 .. n : Outermost(u, m + 1) /\ Outermost(v, m + 1) => u = v
    BY <1>4, <2>1
  <2>3. ASSUME NEW u \in 1 .. n, NEW v \in 1 .. n, Outermost(u, m), Outermost(v, m)
        PROVE  ~(u = m /\ v /= m)
    <3> SUFFICES ASSUME u = m, v /= m PROVE FALSE
      OBVIOUS
    <3>1. PICK w \in 1 .. n : <<u, w>> \in r /\ w \in c
      BY <2>1, <2>3 DEF IsOutward
    <3>2. Outermost(w, m + 1)
      <4>1. w >= m + 1
        BY <2>1, <3>1 DEF IsNesting
      <4>2. \A k \in 1 .. n : k >= m + 1 => <<k, w>> \notin r
        BY <2>1, <3>1
      <4> QED
        BY <3>1, <4>1, <4>2
    <3>3. Outermost(v, m + 1)
      BY <2>1, <2>3
    <3>4. w = v
      BY <2>2, <3>2, <3>3
    <3>5. <<u, v>> \in r /\ u >= m
      BY <2>1, <3>1, <3>4
    <3> QED
      BY <2>3, <3>5
  <2>4. ASSUME NEW u \in 1 .. n, NEW v \in 1 .. n, Outermost(u, m), Outermost(v, m)
        PROVE  u = v
    <3>1. CASE u /= m /\ v /= m
      <4>1. Outermost(u, m + 1) /\ Outermost(v, m + 1)
        BY <2>1, <2>4, <3>1
      <4> QED
        BY <2>2, <4>1
    <3> QED
      BY <2>3, <2>4, <3>1
  <2> HIDE DEF Outermost
  <2>5. \A u, v \in 1 .. n : Outermost(u, i - (j + 1)) /\ Outermost(v, i - (j + 1)) => u = v
    BY <2>4 DEF m
  <2> QED
    BY <2>5
<1>5. x + 1 <= i
  BY <1>1, <1>2 DEF IsNesting
<1>6. i - (x + 1) \in Nat /\ i - (i - (x + 1)) = x + 1
  BY <1>1, <1>5
<1>7. i - (x + 1) \in S
  <2> HIDE DEF S
  <2> QED
    BY <1>3, <1>4, <1>6, Induction
<1>8. Outermost(y, x + 1) /\ Outermost(z, x + 1)
  <2>1. \A w \in 1 .. n : w >= x + 1 => w /= x
    BY <1>1
  <2>2. y >= x + 1 /\ z >= x + 1
    BY <1>1 DEF IsNesting
  <2> QED
    BY <2>1, <2>2
<1> HIDE DEF Outermost
<1> QED
  BY <1>6, <1>7, <1>8

\* The nesting of the blocks of a module.
Nesting(m) ==
    {pair \in (DOMAIN m.blocks) \X (DOMAIN m.blocks) :
        \E s \in Whens(m, pair[1]) : pair[2] \in {s.then, s.else}}
HasEffect(m, b) == \E s \in ToSet(m.blocks[b]) : s.kind = "effect"

\* The nesting of a well-formed module: every block is in one other at most.
LEMMA NestingIs ==
    ASSUME NEW m, WellNested(m)
    PROVE  \E n \in Nat \ {0} :
              /\ DOMAIN m.blocks = 1 .. n /\ IsNesting(Nesting(m), n)
              /\ \A x, y, z \in 1 .. n :
                    <<x, z>> \in Nesting(m) /\ <<y, z>> \in Nesting(m) => x = y
              /\ \A b \in 1 .. n : \A s \in Whens(m, b) :
                    /\ s.then \in 1 .. n \ {1} /\ s.else \in 1 .. n \ {1} /\ s.then /= s.else
                    /\ <<b, s.then>> \in Nesting(m) /\ <<b, s.else>> \in Nesting(m)
<1>1. PICK n : n = Len(m.blocks)
  OBVIOUS
<1>2. n \in Nat \ {0} /\ DOMAIN m.blocks = 1 .. n
  BY <1>1, LenProperties, EmptySeq DEF WellNested
<1>3. ASSUME NEW b \in 1 .. n, NEW s \in Whens(m, b)
      PROVE  /\ s.then \in 1 .. n \ {1} /\ s.else \in 1 .. n \ {1} /\ s.then /= s.else
             /\ s.then > b /\ s.else > b
             /\ <<b, s.then>> \in Nesting(m) /\ <<b, s.else>> \in Nesting(m)
  <2>1. s.then /= s.else /\ s.then \in b + 1 .. n /\ s.else \in b + 1 .. n
    BY <1>1, <1>2 DEF WellNested
  <2>2. s.then \in 1 .. n \ {1} /\ s.else \in 1 .. n \ {1} /\ s.then > b /\ s.else > b
    BY <1>2, <2>1
  <2> QED
    BY <1>2, <2>1, <2>2 DEF Nesting
<1>4. \A x, y \in 1 .. n : <<x, y>> \in Nesting(m) =>
         \E s \in Whens(m, x) : y \in {s.then, s.else}
  BY DEF Nesting
<1>5. IsNesting(Nesting(m), n)
  <2>1. Nesting(m) \subseteq (1 .. n) \X (1 .. n)
    BY <1>2 DEF Nesting
  <2>2. \A x, y \in 1 .. n : <<x, y>> \in Nesting(m) => x < y
    <3> SUFFICES ASSUME NEW x \in 1 .. n, NEW y \in 1 .. n, <<x, y>> \in Nesting(m)
                 PROVE  x < y
      OBVIOUS
    <3>1. PICK s \in Whens(m, x) : y \in {s.then, s.else}
      BY <1>4
    <3>2. s.then > x /\ s.else > x
      BY <1>3
    <3> QED
      BY <1>2, <3>1, <3>2
  <2> QED
    BY <1>2, <2>1, <2>2 DEF IsNesting
<1>6. ASSUME NEW x \in 1 .. n, NEW y \in 1 .. n, NEW z \in 1 .. n,
             <<x, z>> \in Nesting(m), <<y, z>> \in Nesting(m)
      PROVE  x = y
  <2>1. PICK s \in Whens(m, x) : z \in {s.then, s.else}
    BY <1>4, <1>6
  <2>2. PICK t \in Whens(m, y) : z \in {t.then, t.else}
    BY <1>4, <1>6
  <2>3. {s.then, s.else} \cap {t.then, t.else} /= {}
    BY <2>1, <2>2
  <2> QED
    BY <1>2, <2>3 DEF WellNested
<1> QED
  BY <1>2, <1>3, <1>5, <1>6

\* onStmt covers a block when it has an effect or one of the nested blocks is covered.
LEMMA DoCoverIs ==
    ASSUME NEW m, WellNested(m)
    PROVE  \A b \in DOMAIN m.blocks :
              DoCover(m)[b] <=> \/ HasEffect(m, b)
                                \/ \E s \in Whens(m, b) : DoCover(m)[s.then] \/ DoCover(m)[s.else]
<1> DEFINE Do(f, b) == \E s \in ToSet(m.blocks[b]) :
                          \/ s.kind = "effect"
                          \/ s.kind = "when" /\ (f[s.then] \/ f[s.else])
           effects == {b \in DOMAIN m.blocks : HasEffect(m, b)}
           F == CHOOSE f : f = [b \in DOMAIN m.blocks |-> Do(f, b)]
<1>1. PICK n \in Nat \ {0} :
              /\ DOMAIN m.blocks = 1 .. n /\ IsNesting(Nesting(m), n)
              /\ \A b \in 1 .. n : \A s \in Whens(m, b) :
                    /\ s.then \in 1 .. n \ {1} /\ s.else \in 1 .. n \ {1} /\ s.then /= s.else
                    /\ <<b, s.then>> \in Nesting(m) /\ <<b, s.else>> \in Nesting(m)
  BY NestingIs
<1>2. PICK c \in SUBSET (1 .. n) : IsOutward(c, effects, Nesting(m), n)
  BY <1>1, OutwardExists
<1> DEFINE g == [b \in DOMAIN m.blocks |-> b \in c]
<1>3. ASSUME NEW b \in DOMAIN m.blocks PROVE (b \in c) <=> Do(g, b)
  <2>1. \A y \in 1 .. n : <<b, y>> \in Nesting(m) =>
           \E s \in Whens(m, b) : y \in {s.then, s.else}
    BY DEF Nesting
  <2>2. b \in c <=> b \in effects \/ \E s \in Whens(m, b) : s.then \in c \/ s.else \in c
    <3> HIDE DEF effects
    <3>1. b \in c <=> b \in effects \/ \E y \in 1 .. n : <<b, y>> \in Nesting(m) /\ y \in c
      BY <1>1, <1>2 DEF IsOutward
    <3>2. ASSUME NEW s \in Whens(m, b), s.then \in c \/ s.else \in c
          PROVE  \E y \in 1 .. n : <<b, y>> \in Nesting(m) /\ y \in c
      BY <1>1, <3>2
    <3> QED
      BY <2>1, <3>1, <3>2
  <2>3. \A s \in Whens(m, b) : (g[s.then] <=> s.then \in c) /\ (g[s.else] <=> s.else \in c)
    BY <1>1
  <2> HIDE DEF g
  <2>4. Do(g, b) <=> HasEffect(m, b) \/ \E s \in Whens(m, b) : g[s.then] \/ g[s.else]
    BY Zenon DEF HasEffect, Whens
  <2>5. b \in effects <=> HasEffect(m, b)
    OBVIOUS
  <2> HIDE DEF effects, Do
  <2> QED
    BY <2>2, <2>3, <2>4, <2>5
<1>4. g = [b \in DOMAIN m.blocks |-> Do(g, b)]
  <2>1. \A b : Do(g, b) \in BOOLEAN
    BY Zenon
  <2> HIDE DEF Do
  <2>2. \A b \in DOMAIN m.blocks : (b \in c) = Do(g, b)
    BY <1>3, <2>1
  <2> QED
    BY <2>2, Zenon
<1>5. F = [b \in DOMAIN m.blocks |-> Do(F, b)]
  <2> HIDE DEF g, Do
  <2> QED
    BY <1>4
<1>6. DoCover(m) = F
  BY DEF DoCover
<1>7. \A b \in DOMAIN m.blocks : DoCover(m)[b] <=> Do(DoCover(m), b)
  <2> HIDE DEF F, Do
  <2> QED
    BY <1>5, <1>6, Zenon
<1> QED
  BY <1>7, Zenon DEF HasEffect, Whens

\* A block that an effect is not in can be left out when the effect is executed.
LEMMA ActiveWithout ==
    ASSUME NEW m, WellNested(m), NEW n \in Nat, DOMAIN m.blocks = 1 .. n,
           NEW i \in 1 .. n, NEW b \in 1 .. n, b /= 1,
           NEW c \in SUBSET (1 .. n), IsOutward(c, {i}, Nesting(m), n), b \notin c
    PROVE  \E active \in ActiveBlocks(m) : i \in active /\ b \notin active
<1> DEFINE r == Nesting(m)
<1>1. /\ IsNesting(r, n)
      /\ \A x, y, z \in 1 .. n : <<x, z>> \in r /\ <<y, z>> \in r => x = y
      /\ \A x \in 1 .. n : \A s \in Whens(m, x) :
            /\ s.then \in 1 .. n \ {1} /\ s.else \in 1 .. n \ {1} /\ s.then /= s.else
            /\ <<x, s.then>> \in r /\ <<x, s.else>> \in r
  <2>1. PICK k \in Nat \ {0} :
           /\ DOMAIN m.blocks = 1 .. k /\ IsNesting(Nesting(m), k)
           /\ \A x, y, z \in 1 .. k :
                 <<x, z>> \in Nesting(m) /\ <<y, z>> \in Nesting(m) => x = y
           /\ \A x \in 1 .. k : \A s \in Whens(m, x) :
                 /\ s.then \in 1 .. k \ {1} /\ s.else \in 1 .. k \ {1} /\ s.then /= s.else
                 /\ <<x, s.then>> \in Nesting(m) /\ <<x, s.else>> \in Nesting(m)
    BY NestingIs
  <2>2. k = n
    BY <2>1
  <2> QED
    BY <2>1, <2>2
\* The block that is chosen: the one on the way to i, and else one that is not b.
<1> DEFINE Chosen(s) == IF s.then \in c THEN s.then ELSE IF s.else \in c THEN s.else
                        ELSE IF s.then = b THEN s.else ELSE s.then
           p == {Chosen(s) : s \in UNION {Whens(m, x) : x \in 1 .. n}}
<1>2. PICK a \in SUBSET (1 .. n) : IsInward(a, c \cup {1}, p, r, n)
  BY <1>1, InwardExists
<1>3. \A x \in 1 .. n : \A s \in Whens(m, x) : \A y \in 1 .. n : \A t \in Whens(m, y) :
         {s.then, s.else} \cap {t.then, t.else} /= {} => x = y /\ s = t
  BY DEF WellNested
<1>4. \A x \in 1 .. n : \A s \in Whens(m, x) :
         /\ s.then \in 1 .. n \ {1} /\ s.else \in 1 .. n \ {1} /\ s.then /= s.else
         /\ Chosen(s) \in {s.then, s.else} /\ Chosen(s) /= b
  <2> SUFFICES ASSUME NEW x \in 1 .. n, NEW s \in Whens(m, x)
               PROVE  Chosen(s) \in {s.then, s.else} /\ Chosen(s) /= b
    BY <1>1, Zenon
  <2>1. s.then /= s.else
    BY <1>1
  <2> HIDE DEF r, p
  <2> QED
    BY <2>1
<1>5. ASSUME NEW x \in 1 .. n, NEW s \in Whens(m, x)
      PROVE  ~(s.then \in c /\ s.else \in c)
  <2>1. PICK y, z \in 1 .. n : y = s.then /\ z = s.else
    BY <1>1
  <2>2. <<x, y>> \in r /\ <<x, z>> \in r /\ y /= z
    BY <1>1, <2>1
  <2>3. y \in c /\ z \in c => y = z
    BY <1>1, <2>2, OneWayOut
  <2> QED
    BY <2>1, <2>2, <2>3
<1>6. \A x \in 1 .. n : \A s \in Whens(m, x) : s.then \in c \/ s.else \in c =>
         x \in c /\ Chosen(s) \in c
  BY <1>1 DEF IsOutward
<1>7. \A x \in 1 .. n : \A s \in Whens(m, x) : \A y \in {s.then, s.else} :
         y \in p <=> y = Chosen(s)
  <2> SUFFICES ASSUME NEW x \in 1 .. n, NEW s \in Whens(m, x), NEW y \in {s.then, s.else}
               PROVE  y \in p <=> y = Chosen(s)
    OBVIOUS
  <2> HIDE DEF Chosen
  <2>1. ASSUME y = Chosen(s) PROVE y \in p
    BY <2>1
  <2>2. ASSUME y \in p PROVE y = Chosen(s)
    <3>1. PICK z \in 1 .. n : \E t \in Whens(m, z) : y = Chosen(t)
      BY <2>2
    <3>2. PICK t \in Whens(m, z) : y = Chosen(t)
      BY <3>1
    <3>3. y \in {t.then, t.else}
      BY <1>4, <3>2
    <3>4. s = t
      BY <1>3, <3>3
    <3> QED
      BY <3>2, <3>4
  <2> QED
    BY <2>1, <2>2
<1>8. \A x \in 1 .. n : \A s \in Whens(m, x) : \A y \in {s.then, s.else} :
         y \in a <=> y \in c \/ (y = Chosen(s) /\ x \in a)
  <2> HIDE DEF Chosen, p
  <2> SUFFICES ASSUME NEW x \in 1 .. n, NEW s \in Whens(m, x), NEW y \in {s.then, s.else}
               PROVE  y \in a <=> y \in c \/ (y = Chosen(s) /\ x \in a)
    BY Zenon
  <2>1. y \in 1 .. n /\ y /= 1 /\ <<x, y>> \in r
    <3> HIDE DEF r
    <3>1. s.then \in 1 .. n \ {1} /\ <<x, s.then>> \in r
      BY <1>1
    <3>2. s.else \in 1 .. n \ {1} /\ <<x, s.else>> \in r
      BY <1>1
    <3>3. CASE y = s.then
      BY <3>1, <3>3
    <3>4. CASE y = s.else
      BY <3>2, <3>4
    <3> QED
      BY <3>3, <3>4, Zenon
  <2>2. \A z \in 1 .. n : <<z, y>> \in r => z = x
    BY <1>1, <2>1
  <2>3. y \in a <=> y \in c \cup {1} \/ (y \in p /\ \E z \in 1 .. n : <<z, y>> \in r /\ z \in a)
    BY <1>2, <2>1 DEF IsInward
  <2> HIDE DEF r
  <2>4. (\E z \in 1 .. n : <<z, y>> \in r /\ z \in a) <=> x \in a
    BY <2>1, <2>2
  <2>5. y \in p <=> y = Chosen(s)
    BY <1>7
  <2> QED
    BY <2>1, <2>3, <2>4, <2>5
<1>9. ASSUME NEW x \in 1 .. n, NEW s \in Whens(m, x)
      PROVE  {s.then, s.else} \cap a = IF x \in a THEN {Chosen(s)} ELSE {}
  <2>1. x \in c => x \in a
    BY <1>2 DEF IsInward
  <2>2. s.then \in c => Chosen(s) = s.then
    OBVIOUS
  <2>3. s.else \in c => Chosen(s) = s.else
    BY <1>5
  <2>4. \A y \in {s.then, s.else} : y \in a <=> y \in c \/ (y = Chosen(s) /\ x \in a)
    BY <1>8
  <2>5. \A y \in {s.then, s.else} : y \in c => y = Chosen(s) /\ x \in a
    BY <1>6, <2>1, <2>2, <2>3
  <2>6. Chosen(s) \in {s.then, s.else}
    BY <1>4
  <2> HIDE DEF Chosen
  <2>7. \A y \in {s.then, s.else} : y \in a <=> y = Chosen(s) /\ x \in a
    BY <2>4, <2>5
  <2>8. CASE x \in a
    <3>1. {s.then, s.else} \cap a = {Chosen(s)}
      BY <2>6, <2>7, <2>8
    <3> QED
      BY <2>8, <3>1
  <2>9. CASE x \notin a
    <3>1. {s.then, s.else} \cap a = {}
      BY <2>7, <2>9
    <3> QED
      BY <2>9, <3>1
  <2> QED
    BY <2>8, <2>9
<1>10. a \in ActiveBlocks(m)
  <2>1. 1 \in a
    <3>1. 1 \in 1 .. n
      OBVIOUS
    <3> QED
      BY <1>2, <3>1 DEF IsInward
  <2>2. ASSUME NEW x \in 1 .. n, NEW s \in Whens(m, x)
        PROVE  Cardinality({s.then, s.else} \cap a) = IF x \in a THEN 1 ELSE 0
    <3> HIDE DEF Chosen
    <3>1. CASE x \in a
      <4>1. {s.then, s.else} \cap a = {Chosen(s)}
        BY <1>9, <3>1
      <4>2. Cardinality({Chosen(s)}) = 1
        BY ONLY FS_Singleton
      <4> QED
        BY <3>1, <4>1, <4>2
    <3>2. CASE x \notin a
      <4>1. {s.then, s.else} \cap a = {}
        BY <1>9, <3>2
      <4> QED
        BY <3>2, <4>1, FS_EmptySet
    <3> QED
      BY <3>1, <3>2
  <2> QED
    BY <2>1, <2>2 DEF ActiveBlocks
<1>11. i \in a
  <2>1. i \in c
    BY DEF IsOutward
  <2> QED
    BY <1>2, <2>1 DEF IsInward
<1>12. b \notin a
  <2>1. b \notin p
    <3> HIDE DEF Chosen
    <3> QED
      BY <1>4
  <2> HIDE DEF p, r
  <2> QED
    BY <1>2, <2>1 DEF IsInward
<1> QED
  BY <1>10, <1>11, <1>12

\* onStmt finds every block that has an effect in it.
LEMMA EffectiveIsCovered ==
    ASSUME NEW m, WellNested(m), NEW b \in DOMAIN m.blocks, Effective(m, b), b /= 1
    PROVE  DoCover(m)[b]
<1>1. PICK n \in Nat \ {0} :
         /\ DOMAIN m.blocks = 1 .. n /\ IsNesting(Nesting(m), n)
         /\ \A x \in 1 .. n : \A s \in Whens(m, x) :
               /\ s.then \in 1 .. n \ {1} /\ s.else \in 1 .. n \ {1}
  BY NestingIs
<1>2. PICK i \in 1 .. n :
         HasEffect(m, i) /\ \A active \in ActiveBlocks(m) : i \in active => b \in active
  BY <1>1 DEF Effective, HasEffect
<1>3. PICK c \in SUBSET (1 .. n) : IsOutward(c, {i}, Nesting(m), n)
  BY <1>1, OutwardExists
<1>4. b \in c
  BY <1>1, <1>2, <1>3, ActiveWithout
<1> DEFINE t == {x \in 1 .. n : DoCover(m)[x]}
<1>5. \A x \in 1 .. n : x \in {i} => x \in t
  BY <1>1, <1>2, DoCoverIs
<1>6. ASSUME NEW x \in 1 .. n, NEW y \in 1 .. n, <<x, y>> \in Nesting(m), y \in t
      PROVE  x \in t
  <2>1. PICK s \in Whens(m, x) : y \in {s.then, s.else}
    BY <1>6 DEF Nesting
  <2>2. DoCover(m)[s.then] \/ DoCover(m)[s.else]
    BY <1>6, <2>1
  <2> QED
    BY <1>1, <2>2, DoCoverIs
<1>7. b \in t
  <2> HIDE DEF t
  <2> QED
    BY <1>1, <1>3, <1>4, <1>5, <1>6, OutwardLeast
<1> QED
  BY <1>7

\* What is reported for a point: the sum of what its instances have counted.
LEMMA TotalExact ==
    ASSUME Shape, NEW own, Results(own), NEW f \in files,
           NEW k \in Modules, NEW n \in Names(k), NEW a, a.mod = k, a.name = n,
           \A p \in Paths(k) : <<p, n>> \in DOMAIN f.counts
    PROVE  LET executed == SumOf([p \in Paths(k) |-> HitsIn(f.of, <<p, n>>)])
           IN /\ Total(a, f.counts) <= executed
              /\ Total(a, f.counts) < executed /\ Closed(f.of) =>
                    Cardinality(Paths(k)) * Threshold <= Total(a, f.counts)
<1> DEFINE counted == [p \in Paths(k) |-> f.counts[<<p, n>>]]
           hit == [p \in Paths(k) |-> HitsIn(f.of, <<p, n>>)]
<1>1. IsFiniteSet(Paths(k))
  BY Facts, PathsFinite
<1>2. \A p \in Paths(k) :
         /\ f.counts[<<p, n>>] \in Nat /\ HitsIn(f.of, <<p, n>>) \in Nat
         /\ f.counts[<<p, n>>] <= HitsIn(f.of, <<p, n>>)
         /\ f.counts[<<p, n>>] < HitsIn(f.of, <<p, n>>) /\ Closed(f.of) =>
               \A q \in Paths(k) : f.counts[<<q, n>>] >= Threshold
  <2> SUFFICES ASSUME NEW p \in Paths(k)
               PROVE  /\ f.counts[<<p, n>>] \in Nat /\ HitsIn(f.of, <<p, n>>) \in Nat
                      /\ f.counts[<<p, n>>] <= HitsIn(f.of, <<p, n>>)
                      /\ f.counts[<<p, n>>] < HitsIn(f.of, <<p, n>>) /\ Closed(f.of) =>
                            \A q \in Paths(k) : f.counts[<<q, n>>] >= Threshold
    OBVIOUS
  <2>1. /\ f.counts[<<p, n>>] \in Nat /\ HitsIn(f.of, <<p, n>>) \in Nat
        /\ f.counts[<<p, n>>] <= HitsIn(f.of, <<p, n>>)
        /\ f.counts[<<p, n>>] < HitsIn(f.of, <<p, n>>) /\ Closed(f.of) =>
              \A q \in Paths(k) : <<q, n>> \in DOMAIN f.counts =>
                 f.counts[<<q, n>>] >= Threshold
    BY CountsBounded
  <2> QED
    BY <2>1
<1>3. /\ counted \in [Paths(k) -> Nat] /\ hit \in [Paths(k) -> Nat]
      /\ \A p \in Paths(k) : counted[p] <= hit[p]
      /\ \A p \in Paths(k) : counted[p] < hit[p] /\ Closed(f.of) =>
            \A q \in Paths(k) : Threshold <= counted[q]
  <2>1. Threshold \in Nat
    BY CoverPointsAssumption
  <2> QED
    BY <1>2, <2>1
<1>4. Total(a, f.counts) = SumOf(counted)
  BY DEF Total
<1> HIDE DEF counted, hit
<1>5. SumOf(counted) <= SumOf(hit)
  BY <1>1, <1>3, SumMonotone
<1>6. ASSUME SumOf(counted) < SumOf(hit), Closed(f.of)
      PROVE  Cardinality(Paths(k)) * Threshold <= SumOf(counted)
  <2>1. PICK p \in Paths(k) : counted[p] < hit[p]
    BY <1>1, <1>3, <1>6, SumLess
  <2>2. \A q \in Paths(k) : Threshold <= counted[q]
    BY <1>3, <1>6, <2>1
  <2>3. Threshold \in Nat
    BY CoverPointsAssumption
  <2> QED
    BY <1>1, <1>3, <2>2, <2>3, SumAtLeast
<1> QED
  BY <1>4, <1>5, <1>6 DEF hit

\* What is reported was asked for by the last build, and known.
LEMMA ReportedAnnos ==
    ASSUME Shape, NEW own, Results(own), Build(own), NEW f \in files,
           Wanted \subseteq DOMAIN f.counts
    PROVE  /\ annos = Annos
           /\ \A a \in Annos : \A p \in Paths(a.mod) : <<p, a.name>> \in DOMAIN f.counts
<1>1. f.of \subseteq 1 .. Done /\ f.of /= {} /\ Done \in Nat /\ Done <= Len(basis)
  BY Facts DEF Results, ResultOf
<1>2. Len(basis) > 0
  BY <1>1, Facts
<1>3. basis /= <<>>
  BY <1>2
<1>4. annos = Annos
  BY <1>3 DEF Build
<1> QED
  BY <1>4 DEF Wanted

\* The report says how often a port has fired and how often a block was executed,
\* in all the instances, and it has every line of a block that has an effect.
THEOREM ReportIsExact == Spec => []ReportExact
<1>1. IInv => ReportExact
  <2> SUFFICES ASSUME Shape, Reports, NEW own, Results(own), Build(own), pc = "reported",
                      NEW k \in Modules, Covered(k)
               PROVE  /\ \A p \in Paths(k) : \A b \in design[k].bundles :
                         \E e \in report.fires :
                            /\ e[1] = p /\ e[2].mod = k /\ e[2].for = {b}
                            /\ e[3] <= HitsIn(report.of, <<p, <<"r", b>>>>)
                            /\ e[3] < HitsIn(report.of, <<p, <<"r", b>>>>)
                                  /\ Closed(report.of) => e[3] >= Threshold
                      /\ \A b \in DOMAIN design[k].blocks :
                         LET entries == {e \in report.lines :
                                            e[1].mod = k /\ e[1].name[2] = b}
                             executed == SumOf([p \in Paths(k) |->
                                            HitsIn(report.of, <<p, <<"l", b>>>>)])
                             enough == Cardinality(Paths(k)) * Threshold
                         IN /\ \A e \in entries :
                                  /\ e[2] <= executed
                                  /\ e[2] < executed /\ Closed(report.of) => enough <= e[2]
                            /\ Effective(design[k], b) =>
                                  Lines(design[k], b) \subseteq UNION {e[1].for : e \in entries}
    BY DEF IInv, ReportExact
  <2>1. PICK f \in files : Wanted \subseteq DOMAIN f.counts /\ report = ReportFor(f)
    BY DEF Reports
  <2>2. report.of = f.of /\ report.lines = LinesFor(f) /\ report.fires = FiresFor(f)
    BY <2>1 DEF ReportFor
  <2>3. /\ annos = Annos
        /\ \A a \in Annos : \A p \in Paths(a.mod) : <<p, a.name>> \in DOMAIN f.counts
    BY <2>1, ReportedAnnos
  <2>4. ASSUME NEW p \in Paths(k), NEW b \in design[k].bundles
        PROVE  \E e \in FiresFor(f) :
                  /\ e[1] = p /\ e[2].mod = k /\ e[2].for = {b}
                  /\ e[3] <= HitsIn(f.of, <<p, <<"r", b>>>>)
                  /\ e[3] < HitsIn(f.of, <<p, <<"r", b>>>>) /\ Closed(f.of)
                        => e[3] >= Threshold
    <3>1. PICK a : a = [mod |-> k, name |-> <<"r", b>>, for |-> {b}]
      OBVIOUS
    <3>2. a \in Annos
      BY <3>1 DEF Annos, FireAnnos
    <3>3. PICK n \in Names(k) : n = a.name
      BY <3>1, <3>2, AnnoShape
    <3>4. PICK e : e = <<p, a, f.counts[<<p, a.name>>]>>
      OBVIOUS
    <3>5. e \in FiresFor(f)
      BY <2>3, <3>1, <3>2, <3>4 DEF FiresFor, FiresOf
    <3>6. \A q \in Paths(k) : <<q, n>> \in DOMAIN f.counts
      BY <2>3, <3>1, <3>2, <3>3
    <3>7. /\ f.counts[<<p, n>>] <= HitsIn(f.of, <<p, n>>)
          /\ f.counts[<<p, n>>] < HitsIn(f.of, <<p, n>>) /\ Closed(f.of) =>
                f.counts[<<p, n>>] >= Threshold
      BY <3>6, CountsBounded
    <3>8. /\ e[1] = p /\ e[2].mod = k /\ e[2].for = {b} /\ n = <<"r", b>>
          /\ e[3] = f.counts[<<p, n>>]
      BY <3>1, <3>3, <3>4
    <3> QED
      BY <3>5, <3>7, <3>8
  <2>5. ASSUME NEW b \in DOMAIN design[k].blocks, NEW e \in LinesFor(f),
               e[1].mod = k, e[1].name[2] = b
        PROVE  LET executed == SumOf([p \in Paths(k) |-> HitsIn(f.of, <<p, <<"l", b>>>>)])
               IN /\ e[2] <= executed
                  /\ e[2] < executed /\ Closed(f.of) =>
                        Cardinality(Paths(k)) * Threshold <= e[2]
    <3>1. PICK a \in Annos : a.name[1] = "l" /\ e = <<a, Total(a, f.counts)>>
      BY <2>3 DEF LinesFor
    <3>2. a.mod = k /\ a.name = <<"l", b>> /\ e[2] = Total(a, f.counts)
      <4>1. a.mod = k /\ a.name[2] = b /\ e[2] = Total(a, f.counts)
        BY <2>5, <3>1
      <4>2. a.name = <<"l", a.name[2]>>
        BY <3>1 DEF Annos, LineAnnos, FireAnnos
      <4> QED
        BY <4>1, <4>2
    <3>3. PICK n \in Names(k) : n = a.name
      BY <3>2, AnnoShape
    <3>4. \A q \in Paths(k) : <<q, n>> \in DOMAIN f.counts
      BY <2>3, <3>2, <3>3
    <3>5. LET executed == SumOf([p \in Paths(k) |-> HitsIn(f.of, <<p, n>>)])
          IN /\ Total(a, f.counts) <= executed
             /\ Total(a, f.counts) < executed /\ Closed(f.of) =>
                   Cardinality(Paths(k)) * Threshold <= Total(a, f.counts)
      BY <3>2, <3>3, <3>4, TotalExact
    <3> QED
      BY <3>2, <3>3, <3>5
  <2>6. ASSUME NEW b \in DOMAIN design[k].blocks, Effective(design[k], b)
        PROVE  \E e \in LinesFor(f) :
                  e[1].mod = k /\ e[1].name[2] = b /\ e[1].for = Lines(design[k], b)
    <3>1. WellNested(design[k])
      BY Facts DEF WellFormed, Modules
    <3>2. PICK a : a = [mod |-> k, name |-> <<"l", b>>, for |-> Lines(design[k], b)]
      OBVIOUS
    <3>3. b \in {1} \cup {c \in DOMAIN design[k].blocks : DoCover(design[k])[c]}
      BY <2>6, <3>1, EffectiveIsCovered
    <3>4. a \in Annos
      <4>1. a \in LineAnnos(k)
        BY <3>2, <3>3 DEF LineAnnos
      <4> QED
        BY <4>1 DEF Annos
    <3>5. <<a, Total(a, f.counts)>> \in LinesFor(f)
      BY <2>3, <3>2, <3>4 DEF LinesFor
    <3> QED
      BY <3>2, <3>5
  <2>7. ASSUME NEW p \in Paths(k), NEW b \in design[k].bundles
        PROVE  \E e \in report.fires :
                  /\ e[1] = p /\ e[2].mod = k /\ e[2].for = {b}
                  /\ e[3] <= HitsIn(report.of, <<p, <<"r", b>>>>)
                  /\ e[3] < HitsIn(report.of, <<p, <<"r", b>>>>) /\ Closed(report.of)
                        => e[3] >= Threshold
    BY <2>2, <2>4
  <2>8. ASSUME NEW b \in DOMAIN design[k].blocks
        PROVE  LET entries == {e \in report.lines : e[1].mod = k /\ e[1].name[2] = b}
                   executed == SumOf([p \in Paths(k) |->
                                         HitsIn(report.of, <<p, <<"l", b>>>>)])
                   enough == Cardinality(Paths(k)) * Threshold
               IN /\ \A e \in entries :
                        /\ e[2] <= executed
                        /\ e[2] < executed /\ Closed(report.of) => enough <= e[2]
                  /\ Effective(design[k], b) =>
                        Lines(design[k], b) \subseteq UNION {e[1].for : e \in entries}
    <3> DEFINE entries == {e \in report.lines : e[1].mod = k /\ e[1].name[2] = b}
    <3>1. \A e \in entries : e \in LinesFor(f) /\ e[1].mod = k /\ e[1].name[2] = b
      BY <2>2
    <3>2. ASSUME Effective(design[k], b)
          PROVE  Lines(design[k], b) \subseteq UNION {e[1].for : e \in entries}
      <4>1. PICK e \in LinesFor(f) :
               e[1].mod = k /\ e[1].name[2] = b /\ e[1].for = Lines(design[k], b)
        BY <2>6, <3>2
      <4>2. e \in entries
        BY <2>2, <4>1
      <4> HIDE DEF entries
      <4> QED
        BY <4>1, <4>2
    <3> HIDE DEF entries
    <3>3. ASSUME NEW e \in entries
          PROVE  LET executed == SumOf([p \in Paths(k) |->
                                           HitsIn(report.of, <<p, <<"l", b>>>>)])
                 IN /\ e[2] <= executed
                    /\ e[2] < executed /\ Closed(report.of) =>
                          Cardinality(Paths(k)) * Threshold <= e[2]
      BY <2>2, <2>5, <3>1
    <3> QED
      BY <3>2, <3>3 DEF entries
  <2> QED
    BY <2>7, <2>8, Zenon
<1> QED
  BY <1>1, IInvHolds, PTL
==============================================================================
