--------------------------- MODULE ScanChainProofs ---------------------------
(***************************************************************************)
(* Proofs about the scan chain.  About ScanChain, for every chain length,  *)
(* counter width and number of events: IInv says that the counts are in    *)
(* place, the registers a scan has emptied are zero, and the report is     *)
(* exact.  It is inductive for the host that may abandon scans, and so for *)
(* the host that does not.  About ScanChainDesign, for every circuit:      *)
(* WalkInv says what is announced for the registers that the walk along    *)
(* the wires has not met yet.                                              *)
(***************************************************************************)
EXTENDS ScanChain, ScanChainDesign, FiniteSetTheorems, SequenceTheorems, WellFoundedInduction,
        TLAPS

IInv ==
    /\ TypeOK
    /\ CountsInPlace
    /\ ZerosBehind
    /\ ReportExact

Zeros == [i \in Points |-> 0]

------------------------------------------------------------------------------
\* One clock cycle of an enabled counter is one saturating step.
LEMMA IncrementSaturates ==
    ASSUME NEW value \in 0 .. CounterMax, NEW covered \in BOOLEAN
    PROVE  /\ Incremented(value, covered) \in 0 .. CounterMax
           /\ Incremented(value, covered)
                  = Saturated(value + IF covered THEN 1 ELSE 0)
BY ChainAssumption DEF Incremented, WillOverflow, LowBits, Saturated

\* Saturating the sum of events step by step loses nothing: a counter that
\* is the saturated number of events stays so when one more is counted.
LEMMA SaturatedStep ==
    ASSUME NEW n \in Nat, NEW d \in {0, 1}
    PROVE  /\ Saturated(n) \in 0 .. CounterMax
           /\ Saturated(Saturated(n) + d) = Saturated(n + d)
BY ChainAssumption DEF Saturated

\* A shift keeps the register file well typed.
LEMMA ShiftType ==
    ASSUME TypeOK, Shift
    PROVE  reg' \in [Points -> 0 .. CounterMax]
<1>1. \A i \in Points : Prev(i) \in 0 .. CounterMax
  <2> SUFFICES ASSUME NEW i \in Points
               PROVE  Prev(i) \in 0 .. CounterMax
    OBVIOUS
  <2>1. CASE i = 1
    BY <2>1, ChainAssumption DEF Prev
  <2>2. CASE i /= 1
    <3>1. i - 1 \in Points
      BY <2>2, ChainAssumption DEF Points
    <3>2. QED
      BY <3>1, <2>2 DEF Prev, TypeOK
  <2>3. QED
    BY <2>1, <2>2
<1>2. QED
  BY <1>1 DEF Shift

\* The value that has just been read is the last one of the longer list.
LEMMA ReadType ==
    ASSUME TypeOK
    PROVE  /\ reg[N] \in 0 .. CounterMax
           /\ Len(read) \in Nat
           /\ Append(read, reg[N]) \in Seq(0 .. CounterMax)
           /\ Len(Append(read, reg[N])) = Len(read) + 1
           /\ \A j \in 1 .. Len(read) : Append(read, reg[N])[j] = read[j]
           /\ Append(read, reg[N])[Len(read) + 1] = reg[N]
<1>1. reg[N] \in 0 .. CounterMax
  BY ChainAssumption DEF TypeOK, Points
<1>2. read \in Seq(0 .. CounterMax)
  BY DEF TypeOK
<1>3. QED
  BY <1>1, <1>2, AppendProperties, LenProperties

------------------------------------------------------------------------------
LEMMA InitIInv == Init => IInv
<1> SUFFICES ASSUME Init
             PROVE  IInv
  OBVIOUS
<1>1. TypeOK
  <2>1. read \in Seq(0 .. CounterMax) /\ Len(read) = 0
    BY EmptySeq DEF Init
  <2>2. reg \in [Points -> 0 .. CounterMax] /\ events \in [Points -> Nat]
    BY ChainAssumption DEF Init
  <2>3. Len(read) < N
    BY <2>1, ChainAssumption
  <2>4. report \in Reports \cup {NoReport} /\ dirty \in BOOLEAN
    BY DEF Init
  <2>5. QED
    BY <2>1, <2>2, <2>3, <2>4 DEF TypeOK
<1>2. CountsInPlace
  BY ChainAssumption DEF Init, CountsInPlace, Captured, Saturated, Points
<1>3. ZerosBehind
  BY DEF Init, ZerosBehind
<1>4. ReportExact
  BY DEF Init, ReportExact
<1>5. QED
  BY <1>1, <1>2, <1>3, <1>4 DEF IInv

\* Counting happens outside a scan, where the captured counts are the registers.
LEMMA CountCycleIInv ==
    ASSUME IInv, NEW hit \in SUBSET Points, CountCycle(hit)
    PROVE  IInv'
<1> USE DEF IInv
<1>1. read = <<>> /\ Len(read) = 0
  BY DEF CountCycle, Scanning
<1>2. TypeOK'
  <2>1. reg' \in [Points -> 0 .. CounterMax]
    <3>1. \A i \in Points : Incremented(reg[i], i \in hit) \in 0 .. CounterMax
      <4> SUFFICES ASSUME NEW i \in Points
                   PROVE  Incremented(reg[i], i \in hit) \in 0 .. CounterMax
        OBVIOUS
      <4>1. reg[i] \in 0 .. CounterMax /\ (i \in hit) \in BOOLEAN
        BY DEF TypeOK
      <4>2. QED
        BY <4>1, IncrementSaturates
    <3>2. QED
      BY <3>1 DEF CountCycle
  <2>2. events' \in [Points -> Nat]
    BY DEF CountCycle, TypeOK
  <2>3. QED
    BY <2>1, <2>2 DEF CountCycle, TypeOK
<1>3. CountsInPlace'
  <2> SUFFICES ASSUME ~dirty', NEW i \in Points
               PROVE  Captured'[i] = Saturated(events'[i])
    BY DEF CountsInPlace, Captured
  <2>1. reg[i] = Saturated(events[i])
    BY <1>1, ChainAssumption
    DEF CountCycle, CountsInPlace, Captured, Points, TypeOK
  <2>2. reg'[i] = Incremented(reg[i], i \in hit)
    BY DEF CountCycle
  <2>3. events'[i] = events[i] + IF i \in hit THEN 1 ELSE 0
    BY DEF CountCycle
  <2>4. events[i] \in Nat /\ reg[i] \in 0 .. CounterMax
    BY DEF TypeOK
  <2>5. reg'[i] = Saturated(events'[i])
    <3> DEFINE d == IF i \in hit THEN 1 ELSE 0
    <3>1. d \in {0, 1} /\ (i \in hit) \in BOOLEAN
      OBVIOUS
    <3>2. reg'[i] = Saturated(reg[i] + d)
      BY <2>2, <2>4, <3>1, IncrementSaturates
    <3>3. Saturated(Saturated(events[i]) + d) = Saturated(events[i] + d)
      BY <2>4, <3>1, SaturatedStep
    <3>4. QED
      BY <2>1, <2>3, <3>2, <3>3
  <2>6. Captured'[i] = reg'[i]
    BY <1>1, ChainAssumption DEF CountCycle, Captured, Points
  <2>7. QED
    BY <2>5, <2>6
<1>4. ZerosBehind'
  BY <1>1 DEF CountCycle, ZerosBehind
<1>5. ReportExact'
  BY DEF CountCycle, ReportExact
<1>6. QED
  BY <1>2, <1>3, <1>4, <1>5

\* A shift moves every captured value by one place and loses none.
LEMMA ShiftCaptured ==
    ASSUME TypeOK, Shift, Len(read) + 1 < N, read' = Append(read, reg[N])
    PROVE  Captured' = Captured
<1> SUFFICES ASSUME NEW i \in Points
             PROVE  Captured'[i] = Captured[i]
  BY DEF Captured
<1>1. Len(read') = Len(read) + 1 /\ Len(read) \in Nat
  BY ReadType
<1>2. CASE i + Len(read) + 1 <= N
  <2>1. i + Len(read) + 1 \in Points /\ i + Len(read) + 1 /= 1
    BY <1>1, <1>2, ChainAssumption DEF Points
  <2>2. reg'[i + Len(read) + 1] = reg[i + Len(read)]
    BY <1>1, <2>1 DEF Shift, Prev, Points
  <2>3. QED
    BY <1>1, <1>2, <2>2, ChainAssumption DEF Captured, Points
<1>3. CASE i + Len(read) = N
  <2>1. read'[N + 1 - i] = reg[N]
    <3>1. N + 1 - i = Len(read) + 1
      BY <1>1, <1>3, ChainAssumption DEF Points
    <3>2. QED
      BY <3>1, ReadType
  <2>2. QED
    BY <1>1, <1>3, <2>1, ChainAssumption DEF Captured, Points
<1>4. CASE i + Len(read) > N
  <2>1. N + 1 - i \in 1 .. Len(read)
    BY <1>1, <1>4, ChainAssumption DEF Points
  <2>2. read'[N + 1 - i] = read[N + 1 - i]
    BY <2>1, ReadType
  <2>3. QED
    BY <1>1, <1>4, <2>2, ChainAssumption DEF Captured, Points
<1>5. QED
  BY <1>1, <1>2, <1>3, <1>4, ChainAssumption DEF Points

\* A shift extends the zeros at the front of the chain by one.
LEMMA ShiftZeros ==
    ASSUME TypeOK, ZerosBehind, Shift, Len(read) + 1 <= N
    PROVE  \A i \in 1 .. Len(read) + 1 : reg'[i] = 0
<1> SUFFICES ASSUME NEW i \in 1 .. Len(read) + 1
             PROVE  reg'[i] = 0
  OBVIOUS
<1>1. Len(read) \in Nat
  BY ReadType
<1>2. i \in Points
  BY <1>1, ChainAssumption DEF Points
<1>3. reg'[i] = Prev(i)
  BY <1>2 DEF Shift
<1>4. CASE i = 1
  BY <1>3, <1>4 DEF Prev
<1>5. CASE i /= 1
  <2>1. i - 1 \in 1 .. Len(read)
    BY <1>1, <1>5
  <2>2. QED
    BY <1>3, <1>5, <2>1 DEF Prev, ZerosBehind
<1>6. QED
  BY <1>4, <1>5

LEMMA ShiftCycleIInv == IInv /\ ShiftCycle => IInv'
<1> SUFFICES ASSUME IInv, ShiftCycle
             PROVE  IInv'
  OBVIOUS
<1> USE DEF IInv
<1>1. TypeOK'
  BY ShiftType, ReadType DEF ShiftCycle, TypeOK
<1>2. Captured' = Captured
  BY ShiftCaptured DEF ShiftCycle
<1>3. CountsInPlace'
  BY <1>2 DEF ShiftCycle, CountsInPlace
<1>4. ZerosBehind'
  <2>1. Len(read') = Len(read) + 1 /\ Len(read) \in Nat
    BY ReadType DEF ShiftCycle
  <2>2. QED
    BY <2>1, ShiftZeros, ChainAssumption DEF ShiftCycle, ZerosBehind
<1>5. ReportExact'
  BY DEF ShiftCycle, ReportExact
<1>6. QED
  BY <1>1, <1>3, <1>4, <1>5

------------------------------------------------------------------------------
\* What the last cycle of a scan reports is what the chain had captured.
LEMMA LastShiftReports ==
    ASSUME TypeOK, LastShiftCycle
    PROVE  report'.counts = Captured
<1> DEFINE values == Append(read, reg[N])
<1>1. report'.counts = Attributed(values)
  BY DEF LastShiftCycle
<1>2. Len(read) = N - 1
  BY ReadType, ChainAssumption DEF LastShiftCycle
<1>3. ASSUME NEW i \in Points
      PROVE  values[N + 1 - i] = Captured[i]
  <2>1. CASE i = 1
    BY <1>2, <2>1, ReadType, ChainAssumption DEF Captured, Points
  <2>2. CASE i /= 1
    <3>1. N + 1 - i \in 1 .. Len(read)
      BY <1>2, <2>2, ChainAssumption DEF Points
    <3>2. values[N + 1 - i] = read[N + 1 - i]
      BY <3>1, ReadType
    <3>3. QED
      BY <1>2, <2>2, <3>2, ChainAssumption DEF Captured, Points
  <2>3. QED
    BY <2>1, <2>2
<1>4. QED
  BY <1>1, <1>3 DEF Attributed, Captured

\* The last cycle of a scan leaves every counter at zero.
LEMMA LastShiftClears ==
    ASSUME TypeOK, ZerosBehind, LastShiftCycle
    PROVE  reg' = Zeros
<1>1. Len(read) + 1 = N /\ Shift
  BY DEF LastShiftCycle
<1>2. \A i \in Points : reg'[i] = 0
  BY <1>1, ShiftZeros, ChainAssumption DEF Points
<1>3. reg' \in [Points -> 0 .. CounterMax]
  BY <1>1, ShiftType
<1>4. QED
  BY <1>2, <1>3 DEF Zeros

\* The captured counts are always well typed.
LEMMA CapturedType ==
    ASSUME TypeOK
    PROVE  Captured \in [Points -> 0 .. CounterMax]
<1> SUFFICES ASSUME NEW i \in Points
             PROVE  Captured[i] \in 0 .. CounterMax
  BY DEF Captured
<1>1. Len(read) \in Nat /\ Len(read) < N
  BY ReadType DEF TypeOK
<1>2. CASE i + Len(read) <= N
  <2>1. i + Len(read) \in Points
    BY <1>1, <1>2, ChainAssumption DEF Points
  <2>2. QED
    BY <1>2, <2>1 DEF Captured, TypeOK
<1>3. CASE i + Len(read) > N
  <2>1. N + 1 - i \in 1 .. Len(read)
    BY <1>1, <1>3, ChainAssumption DEF Points
  <2>2. read[N + 1 - i] \in 0 .. CounterMax
    BY <2>1, ElementOfSeq DEF TypeOK
  <2>3. QED
    BY <1>1, <1>3, <2>2, ChainAssumption DEF Captured, Points
<1>4. QED
  BY <1>1, <1>2, <1>3, ChainAssumption DEF Points

LEMMA LastShiftCycleIInv == IInv /\ LastShiftCycle => IInv'
<1> SUFFICES ASSUME IInv, LastShiftCycle
             PROVE  IInv'
  OBVIOUS
<1> USE DEF IInv
<1>1. report'.counts = Captured /\ reg' = Zeros
  BY LastShiftReports, LastShiftClears
<1>2. Captured \in [Points -> 0 .. CounterMax]
  BY CapturedType
<1>3. TypeOK'
  <2>1. reg' \in [Points -> 0 .. CounterMax]
    BY <1>1, ChainAssumption DEF Zeros
  <2>2. report' \in Reports
    BY <1>1, <1>2 DEF LastShiftCycle, Reports, TypeOK
  <2>3. read' \in Seq(0 .. CounterMax) /\ Len(read') = 0
    BY EmptySeq DEF LastShiftCycle
  <2>4. events' \in [Points -> Nat] /\ dirty' \in BOOLEAN
    BY DEF LastShiftCycle
  <2>5. QED
    BY <2>1, <2>2, <2>3, <2>4, ChainAssumption DEF TypeOK
<1>4. CountsInPlace'
  BY <1>1, ChainAssumption
  DEF LastShiftCycle, CountsInPlace, Captured, Saturated, Zeros, Points
<1>5. ZerosBehind'
  BY DEF LastShiftCycle, ZerosBehind
<1>6. ReportExact'
  BY <1>1 DEF LastShiftCycle, ReportExact, CountsInPlace
<1>7. QED
  BY <1>3, <1>4, <1>5, <1>6

LEMMA AbortIInv == IInv /\ Abort => IInv'
BY ChainAssumption
DEF IInv, Abort, TypeOK, CountsInPlace, ZerosBehind, ReportExact

\* IInv is inductive for both hosts.
LEMMA NextIInv == IInv /\ [Next \/ Abort]_vars => IInv'
<1> SUFFICES ASSUME IInv, [Next \/ Abort]_vars
             PROVE  IInv'
  OBVIOUS
<1>1. CASE \E hit \in SUBSET Points : CountCycle(hit)
  BY <1>1, CountCycleIInv
<1>2. CASE ShiftCycle
  BY <1>2, ShiftCycleIInv
<1>3. CASE LastShiftCycle
  BY <1>3, LastShiftCycleIInv
<1>4. CASE Abort
  BY <1>4, AbortIInv
<1>5. CASE UNCHANGED vars
  BY <1>5
  DEF vars, IInv, TypeOK, CountsInPlace, Captured, ZerosBehind, ReportExact
<1>6. QED
  BY <1>1, <1>2, <1>3, <1>4, <1>5 DEF Next

------------------------------------------------------------------------------
\* The inductive invariant holds whether or not the host abandons scans.
THEOREM AbortSpecIInv == AbortSpec => []IInv
BY InitIInv, NextIInv, PTL DEF AbortSpec

THEOREM SpecIInv == Spec => []IInv
<1>1. [Next]_vars => [Next \/ Abort]_vars
  OBVIOUS
<1>2. QED
  BY <1>1, InitIInv, NextIInv, PTL DEF Spec

\* The counters stay in their width and the scan within the chain.
THEOREM TypeCorrect == AbortSpec => []TypeOK
<1>1. IInv => TypeOK
  BY DEF IInv
<1>2. QED
  BY <1>1, AbortSpecIInv, PTL

\* Each count belongs to its cover point in every state of a scan.
THEOREM CountsStayInPlace == AbortSpec => []CountsInPlace
<1>1. IInv => CountsInPlace
  BY DEF IInv
<1>2. QED
  BY <1>1, AbortSpecIInv, PTL

\* The registers behind the values of a scan are empty, also in a chain that was
\* left in the middle of a scan: this is what lets one scan recover it.
THEOREM ZerosStayBehind == AbortSpec => []ZerosBehind
<1>1. IInv => ZerosBehind
  BY DEF IInv
<1>2. QED
  BY <1>1, AbortSpecIInv, PTL

\* Reports of a chain no scan of which was abandoned since the report before
\* are exact, even if earlier scans were.
THEOREM ReportsAreExact == AbortSpec => []ReportExact
<1>1. IInv => ReportExact
  BY DEF IInv
<1>2. QED
  BY <1>1, AbortSpecIInv, PTL

\* A complete scan clears the chain, whatever abandoned scans left in it.
THEOREM ScansClear == AbortSpec => ScanClears
<1>1. IInv /\ [Next \/ Abort]_vars
      => [LastShiftCycle => reg' = [i \in Points |-> 0] /\ ~dirty']_vars
  <2> SUFFICES ASSUME IInv, LastShiftCycle
               PROVE  reg' = [i \in Points |-> 0] /\ ~dirty'
    OBVIOUS
  <2>1. QED
    BY LastShiftClears DEF IInv, Zeros, LastShiftCycle
<1>2. QED
  BY <1>1, AbortSpecIInv, PTL DEF AbortSpec, ScanClears

------------------------------------------------------------------------------
\* Outside a scan the captured counts are the registers themselves.
LEMMA CapturedIdle ==
    ASSUME TypeOK, read = <<>>
    PROVE  Captured = reg
<1>1. Len(read) = 0
  OBVIOUS
<1>2. \A i \in Points : Captured[i] = reg[i]
  BY <1>1, ChainAssumption DEF Captured, Points
<1>3. QED
  BY <1>2, CapturedType DEF TypeOK, Captured

LEMMA CapturedIdleNext ==
    ASSUME TypeOK', read' = <<>>
    PROVE  Captured' = reg'
<1>1. Len(read') = 0
  OBVIOUS
<1>2. reg' \in [Points -> 0 .. CounterMax]
  BY DEF TypeOK
<1>3. \A i \in Points : Captured'[i] = reg'[i]
  BY <1>1, ChainAssumption DEF Captured, Points
<1>4. Captured' = [i \in Points |-> Captured'[i]]
  BY DEF Captured
<1>5. QED
  BY <1>2, <1>3, <1>4

LEMMA CountImplementsCount ==
    ASSUME IInv, IInv', NEW hit \in SUBSET Points, CountCycle(hit)
    PROVE  Counters!Count(hit)
<1> USE DEF IInv
<1>1. read = <<>> /\ read' = <<>> /\ report' = report
  BY DEF CountCycle, Scanning
<1>2. Captured = reg /\ Captured' = reg'
  BY <1>1, CapturedIdle, CapturedIdleNext
<1>3. ASSUME NEW p \in Points
      PROVE  reg'[p] = Counters!Saturated(reg[p] + IF p \in hit THEN 1 ELSE 0)
  <2>1. reg[p] \in 0 .. CounterMax /\ (p \in hit) \in BOOLEAN
    BY DEF TypeOK
  <2>2. reg'[p] = Incremented(reg[p], p \in hit)
    BY DEF CountCycle
  <2>3. QED
    BY <2>1, <2>2, IncrementSaturates DEF Saturated, Counters!Saturated
<1>4. reg' = [p \in Points |->
                 Counters!Saturated(reg[p] + IF p \in hit THEN 1 ELSE 0)]
  BY <1>3 DEF TypeOK
<1>5. QED
  BY <1>1, <1>2, <1>4 DEF Counters!Count

LEMMA LastShiftImplementsReadout ==
    ASSUME IInv, IInv', LastShiftCycle
    PROVE  Counters!Readout
<1> USE DEF IInv
<1>1. report'.counts = Captured /\ reg' = Zeros /\ read' = <<>>
  BY LastShiftReports, LastShiftClears DEF LastShiftCycle
<1>2. Captured' = Zeros
  BY <1>1, CapturedIdleNext
<1>3. report' /= NoReport
  <2>1. report' \in Reports
    BY <1>1, CapturedType DEF LastShiftCycle, Reports, TypeOK
  <2>2. QED
    BY <2>1, NoReportAssumption
<1>4. QED
  BY <1>1, <1>2, <1>3 DEF Counters!Readout, Zeros

LEMMA InitImplementsInit ==
    ASSUME Init
    PROVE  Counters!Init
<1>1. Captured = reg
  BY InitIInv, CapturedIdle DEF Init, IInv
<1>2. QED
  BY <1>1 DEF Init, Counters!Init

LEMMA NextImplementsNext ==
    IInv /\ IInv' /\ [Next]_vars => [Counters!Next]_(Counters!vars)
<1> SUFFICES ASSUME IInv, IInv', [Next]_vars
             PROVE  [Counters!Next]_(Counters!vars)
  OBVIOUS
<1>1. CASE \E hit \in SUBSET Points : CountCycle(hit)
  BY <1>1, CountImplementsCount DEF Counters!Next
<1>2. CASE ShiftCycle
  <2>1. Captured' = Captured
    BY <1>2, ShiftCaptured DEF ShiftCycle, IInv
  <2>2. QED
    BY <1>2, <2>1 DEF ShiftCycle, Counters!vars
<1>3. CASE LastShiftCycle
  BY <1>3, LastShiftImplementsReadout DEF Counters!Next
<1>4. CASE UNCHANGED vars
  BY <1>4 DEF vars, Counters!vars, Captured
<1>5. QED
  BY <1>1, <1>2, <1>3, <1>4 DEF Next

\* For a host that completes its scans, the chain implements the abstract
\* counters: a scan takes N cycles, and is one readout of all counters.
THEOREM CompletedScansImplementCounters == Spec => Counters!Spec
BY InitImplementsInit, NextImplementsNext, SpecIInv, PTL
DEF Spec, Counters!Spec

\* For any host, every step but the one that gives up a scan is a step of
\* the abstract counters or leaves them alone.
THEOREM ChainImplementsCounters == AbortSpec => ImplementsCounters
<1>1. IInv /\ IInv' /\ [Next \/ Abort]_vars
      => [Counters!Next \/ Abort]_(Counters!vars)
  <2> SUFFICES ASSUME IInv, IInv', [Next \/ Abort]_vars
               PROVE  [Counters!Next \/ Abort]_(Counters!vars)
    OBVIOUS
  <2>1. CASE [Next]_vars
    BY <2>1, NextImplementsNext
  <2>2. CASE Abort
    BY <2>2
  <2>3. QED
    BY <2>1, <2>2
<1>2. QED
  BY <1>1, InitImplementsInit, AbortSpecIInv, PTL
  DEF AbortSpec, ImplementsCounters

------------------------------------------------------------------------------
(* ScanChainDesign: the order in which the registers of a hierarchy are wired *)
(* is the one in which getCovers announces them, for every circuit.           *)

\* Induction over the natural numbers, as a fact about sets.
LEMMA Induction ==
    ASSUME NEW S, 0 \in S, \A n \in Nat : n \in S => n + 1 \in S
    PROVE  Nat \subseteq S
<1> SUFFICES ASSUME Nat \ S /= {} PROVE FALSE
  OBVIOUS
<1> DEFINE R == OpToRel(<, Nat)
<1>1. IsWellFoundedOn(R, Nat)
  BY NatLessThanWellFounded
<1>2. \A m, n \in Nat : m < n => <<m, n>> \in R
  BY DEF OpToRel
<1> HIDE DEF R
<1>3. PICK n \in Nat \ S : \A m \in Nat \ S : ~ (<<m, n>> \in R)
  <2>1. Nat \ S \subseteq Nat
    OBVIOUS
  <2> QED
    BY <1>1, <2>1, WFMin, Zenon
<1>4. \A m \in Nat \ S : ~(m < n)
  BY <1>2, <1>3
<1>5. n /= 0 /\ n - 1 \in Nat
  OBVIOUS
<1>6. n - 1 \in S
  BY <1>4, <1>5
<1>7. n - 1 + 1 \in S
  BY <1>5, <1>6
<1> QED
  BY <1>7

\* One step of Collected.
Collect(body, kinds, f, n) ==
    IF n > 0 /\ body[n] \in kinds
    THEN Append(f[n - 1], [name |-> n, what |-> body[n]])
    ELSE IF n > 0 THEN f[n - 1] ELSE <<>>

\* Statements of these kinds, with their positions.
Items(body, kinds) ==
    {s \in [name : 1 .. Len(body), what : kinds] : s.what = body[s.name]}

\* Collected returns some of them.
LEMMA CollectedIs ==
    ASSUME NEW body, Len(body) \in Nat, NEW kinds
    PROVE  Collected(body, kinds) \in Seq(Items(body, kinds))
<1> DEFINE IsUpto(f, j) == f = [n \in 0 .. j |-> Collect(body, kinds, f, n)]
           E == {j \in Nat : \E f : IsUpto(f, j)}
           upto == CHOOSE f : IsUpto(f, Len(body))
<1>1. 0 \in E
  <2> DEFINE f == [n \in 0 .. 0 |-> <<>>]
  <2>1. IsUpto(f, 0)
    BY DEF Collect
  <2> QED
    BY <2>1
<1>2. ASSUME NEW j \in Nat, j \in E PROVE j + 1 \in E
  <2>1. PICK f : IsUpto(f, j)
    BY <1>2
  <2> DEFINE g == [n \in 0 .. j + 1 |-> Collect(body, kinds, f, n)]
  <2>2. \A n \in 0 .. j : n \in 0 .. j + 1 /\ g[n] = f[n]
    BY <2>1
  <2>3. ASSUME NEW n \in 0 .. j + 1
        PROVE  Collect(body, kinds, f, n) = Collect(body, kinds, g, n)
    <3>1. n > 0 => n - 1 \in 0 .. j
      OBVIOUS
    <3>2. n > 0 => g[n - 1] = f[n - 1]
      BY <2>2, <3>1
    <3> HIDE DEF g
    <3> QED
      BY <3>2 DEF Collect
  <2>4. IsUpto(g, j + 1)
    BY <2>3, Zenon
  <2> HIDE DEF g, IsUpto
  <2> QED
    BY <2>4
<1>3. Len(body) \in E
  <2> HIDE DEF E
  <2> QED
    BY <1>1, <1>2, Induction
<1>4. upto = [n \in 0 .. Len(body) |-> Collect(body, kinds, upto, n)]
  BY <1>3
<1>5. Collected(body, kinds) = upto[Len(body)]
  BY DEF Collected, Collect
<1> HIDE DEF upto
<1> DEFINE X == Items(body, kinds)
           T == {j \in Nat : j <= Len(body) => upto[j] \in Seq(X)}
<1>6. 0 \in T
  BY <1>4, EmptySeq DEF Collect
<1>7. ASSUME NEW j \in Nat, j \in T PROVE j + 1 \in T
  <2> SUFFICES ASSUME j + 1 <= Len(body) PROVE upto[j + 1] \in Seq(X)
    OBVIOUS
  <2>1. upto[j] \in Seq(X)
    BY <1>7
  <2>2. upto[j + 1] = Collect(body, kinds, upto, j + 1)
    BY <1>4
  <2>3. upto[j + 1] = IF body[j + 1] \in kinds
                      THEN Append(upto[j], [name |-> j + 1, what |-> body[j + 1]])
                      ELSE upto[j]
    BY <2>2 DEF Collect
  <2>4. body[j + 1] \in kinds => [name |-> j + 1, what |-> body[j + 1]] \in X
    BY DEF Items
  <2> HIDE DEF X
  <2> QED
    BY <2>1, <2>3, <2>4
<1>8. Len(body) \in T
  <2> HIDE DEF T
  <2> QED
    BY <1>6, <1>7, Induction
<1> QED
  BY <1>5, <1>8

\* One step of FlattenSeq.
Glue(seqs, f, k) == IF k = 1 THEN seqs[k] ELSE f[k - 1] \o seqs[k]

\* flat[k] is the first k of n sequences, one after another.
IsFlat(S, n, seqs, flat) ==
    /\ flat \in [0 .. n -> Seq(S)]
    /\ flat[0] = <<>> /\ flat[n] = FlattenSeq(seqs)
    /\ \A k \in 1 .. n : flat[k] = flat[k - 1] \o seqs[k]

\* FlattenSeq is one sequence after another.
LEMMA Flattened ==
    ASSUME NEW S, NEW n \in Nat, NEW seqs \in [1 .. n -> Seq(S)]
    PROVE  \E flat : IsFlat(S, n, seqs, flat)
<1>1. Len(seqs) = n
  OBVIOUS
<1> DEFINE IsUpto(f, j) == f = [k \in 1 .. j |-> Glue(seqs, f, k)]
           E == {j \in Nat : \E f : IsUpto(f, j)}
           c == CHOOSE f : IsUpto(f, n)
<1>2. 0 \in E
  <2> DEFINE f == [k \in 1 .. 0 |-> <<>>]
  <2>1. IsUpto(f, 0)
    OBVIOUS
  <2> QED
    BY <2>1
<1>3. ASSUME NEW j \in Nat, j \in E PROVE j + 1 \in E
  <2>1. PICK f : IsUpto(f, j)
    BY <1>3
  <2> DEFINE g == [k \in 1 .. j + 1 |-> Glue(seqs, f, k)]
  <2>2. \A k \in 1 .. j : k \in 1 .. j + 1 /\ g[k] = f[k]
    BY <2>1
  <2>3. ASSUME NEW k \in 1 .. j + 1 PROVE Glue(seqs, f, k) = Glue(seqs, g, k)
    <3>1. k /= 1 => k - 1 \in 1 .. j
      OBVIOUS
    <3>2. k /= 1 => g[k - 1] = f[k - 1]
      BY <2>2, <3>1
    <3> HIDE DEF g
    <3> QED
      BY <3>2 DEF Glue
  <2>4. IsUpto(g, j + 1)
    BY <2>3, Zenon
  <2> HIDE DEF g, IsUpto
  <2> QED
    BY <2>4
<1>4. n \in E
  <2> HIDE DEF E
  <2> QED
    BY <1>2, <1>3, Induction
<1>5. IsUpto(c, n)
  BY <1>4
<1>6. n /= 0 => FlattenSeq(seqs) = c[n]
  BY <1>1 DEF FlattenSeq, Glue
<1>7. n = 0 => FlattenSeq(seqs) = <<>>
  BY <1>1 DEF FlattenSeq
<1> HIDE DEF c
<1> DEFINE T == {j \in Nat : j > 0 /\ j <= n => c[j] \in Seq(S)}
<1>8. 0 \in T
  OBVIOUS
<1>9. ASSUME NEW j \in Nat, j \in T PROVE j + 1 \in T
  <2> SUFFICES ASSUME j + 1 <= n PROVE c[j + 1] \in Seq(S)
    OBVIOUS
  <2>1. c[j + 1] = Glue(seqs, c, j + 1) /\ seqs[j + 1] \in Seq(S)
    BY <1>5
  <2>2. CASE j = 0
    BY <2>1, <2>2 DEF Glue
  <2>3. CASE j > 0
    <3>1. c[j] \in Seq(S)
      BY <1>9, <2>3
    <3>2. PICK k \in Nat : k = j + 1
      OBVIOUS
    <3>3. k /= 1 /\ k - 1 = j /\ c[k] = Glue(seqs, c, k)
      BY <2>1, <2>3, <3>2
    <3>4. c[k] = c[k - 1] \o seqs[k]
      BY <3>3, Zenon DEF Glue
    <3>5. c[j + 1] = c[j] \o seqs[j + 1]
      BY <3>2, <3>3, <3>4
    <3> QED
      BY <2>1, <3>1, <3>5, ConcatProperties
  <2> QED
    BY <2>2, <2>3
<1>10. \A j \in 1 .. n : c[j] \in Seq(S)
  <2>1. \A j \in 1 .. n : j \in T
    <3> HIDE DEF T
    <3>1. Nat \subseteq T
      BY <1>8, <1>9, Induction
    <3> QED
      BY <3>1
  <2> QED
    BY <2>1
<1> DEFINE flat == [k \in 0 .. n |-> IF k = 0 THEN <<>> ELSE c[k]]
<1>11. flat \in [0 .. n -> Seq(S)]
  <2>1. \A k \in 0 .. n : (IF k = 0 THEN <<>> ELSE c[k]) \in Seq(S)
    BY <1>10, EmptySeq
  <2> QED
    BY <2>1
<1>12. flat[0] = <<>> /\ flat[n] = FlattenSeq(seqs)
  BY <1>6, <1>7
<1>13. \A k \in 1 .. n : flat[k] = flat[k - 1] \o seqs[k]
  <2> SUFFICES ASSUME NEW k \in 1 .. n PROVE flat[k] = flat[k - 1] \o seqs[k]
    OBVIOUS
  <2>1. flat[k] = Glue(seqs, c, k)
    <3>1. c[k] = Glue(seqs, c, k)
      BY <1>5
    <3> QED
      BY <3>1
  <2>2. CASE k = 1
    <3>1. seqs[1] \in Seq(S) /\ flat[0] = <<>> /\ flat[1] = seqs[1]
      BY <2>1, <2>2 DEF Glue
    <3> QED
      BY <2>2, <3>1, ConcatEmptySeq
  <2>3. CASE k /= 1
    <3>1. flat[k - 1] = c[k - 1]
      BY <2>3
    <3> QED
      BY <2>1, <2>3, <3>1 DEF Glue
  <2> QED
    BY <2>2, <2>3
<1> HIDE DEF flat
<1> QED
  BY <1>11, <1>12, <1>13 DEF IsFlat

\* The covers, the instances and the chain of module m of circuit d.
CoversOf(d, m) == Collected(d[m], {"cover"})
InstancesOf(d, m) == Collected(d[m], DOMAIN d)
ChainOf(d, m) == CoversOf(d, m) \o InstancesOf(d, m)

\* What is announced for an instance of m, if f has what is for those below it.
Own(d, m, p) == [k \in DOMAIN CoversOf(d, m) |-> Append(p, CoversOf(d, m)[k].name)]
Below(d, f, m, p) ==
    [k \in DOMAIN InstancesOf(d, m) |->
        f[<<InstancesOf(d, m)[k].what, Append(p, InstancesOf(d, m)[k].name)>>]]
Announce(d, f, m, p) == Own(d, m, p) \o FlattenSeq(Below(d, f, m, p))

IsList(d, f) == f = [at \in (DOMAIN d) \X Seq(Nat) |-> Announce(d, f, at[1], at[2])]
List(d) == CHOOSE f : IsList(d, f)

\* The statements of a module that are wired.
LEMMA ModuleShape ==
    ASSUME NEW d, WellFormed(d), NEW m \in DOMAIN d
    PROVE  /\ CoversOf(d, m) \in Seq(Items(d[m], {"cover"}))
           /\ InstancesOf(d, m) \in Seq(Items(d[m], DOMAIN d))
           /\ \A s \in Items(d[m], {"cover"}) : s.name \in Nat /\ s.what = "cover"
           /\ \A s \in Items(d[m], DOMAIN d) :
                 /\ s.name \in Nat /\ s.what \in DOMAIN d
                 /\ s.name \in DOMAIN d[m] /\ s.what = d[m][s.name]
<1>1. /\ Len(d[m]) \in Nat
      /\ DOMAIN d[m] = 1 .. Len(d[m])
  <2>1. d[m] \in Seq({"cover"} \cup DOMAIN d \cup ExtModules)
    BY DEF WellFormed
  <2> QED
    BY <2>1
<1>2. CoversOf(d, m) \in Seq(Items(d[m], {"cover"}))
  BY <1>1, CollectedIs DEF CoversOf
<1>3. InstancesOf(d, m) \in Seq(Items(d[m], DOMAIN d))
  BY <1>1, CollectedIs DEF InstancesOf
<1> QED
  BY <1>1, <1>2, <1>3 DEF Items

\* A module has a larger rank than those that it instantiates.
LEMMA Ranks ==
    ASSUME NEW d, WellFormed(d)
    PROVE  \E rank \in [DOMAIN d -> Nat], top \in Nat :
              /\ \A m \in DOMAIN d : rank[m] <= top
              /\ \A m \in DOMAIN d : \A s \in Items(d[m], DOMAIN d) :
                    rank[s.what] < rank[m]
<1>1. IsFiniteSet(DOMAIN d)
  BY DEF WellFormed
<1>2. PICK top \in Nat : top = Cardinality(DOMAIN d)
  BY <1>1, FS_CardinalityType
<1>3. PICK rank \in [DOMAIN d -> 1 .. top] :
         \A m \in DOMAIN d : \A k \in DOMAIN d[m] :
            d[m][k] \in DOMAIN d => rank[d[m][k]] < rank[m]
  BY <1>2 DEF WellFormed
<1>4. ASSUME NEW m \in DOMAIN d, NEW s \in Items(d[m], DOMAIN d)
      PROVE  rank[s.what] < rank[m]
  <2>1. /\ s.name \in DOMAIN d[m] /\ s.what \in DOMAIN d
        /\ s.what = d[m][s.name]
    BY ModuleShape
  <2>2. PICK k \in DOMAIN d[m] : k = s.name
    BY <2>1
  <2>3. d[m][k] \in DOMAIN d /\ s.what = d[m][k]
    BY <2>1, <2>2
  <2>4. rank[d[m][k]] < rank[m]
    BY <1>3, <2>3
  <2> QED
    BY <2>3, <2>4
<1>5. rank \in [DOMAIN d -> Nat] /\ \A m \in DOMAIN d : rank[m] <= top
  BY <1>3
<1> QED
  BY <1>4, <1>5

\* What is announced for a module depends on what is for those that it instantiates.
LEMMA AnnounceSame ==
    ASSUME NEW d, WellFormed(d), NEW m \in DOMAIN d, NEW p \in Seq(Nat), NEW f, NEW g,
           \A s \in Items(d[m], DOMAIN d) : \A q \in Seq(Nat) :
              f[<<s.what, q>>] = g[<<s.what, q>>]
    PROVE  Announce(d, f, m, p) = Announce(d, g, m, p)
<1>1. ASSUME NEW k \in DOMAIN InstancesOf(d, m)
      PROVE  f[<<InstancesOf(d, m)[k].what, Append(p, InstancesOf(d, m)[k].name)>>]
                = g[<<InstancesOf(d, m)[k].what, Append(p, InstancesOf(d, m)[k].name)>>]
  <2>1. InstancesOf(d, m)[k] \in Items(d[m], DOMAIN d)
    BY ModuleShape, ElementOfSeq, LenProperties
  <2>2. PICK s \in Items(d[m], DOMAIN d) : s = InstancesOf(d, m)[k]
    BY <2>1
  <2>3. Append(p, s.name) \in Seq(Nat)
    BY <2>2, ModuleShape, AppendProperties
  <2> QED
    BY <2>2, <2>3
<1>2. Below(d, f, m, p) = Below(d, g, m, p)
  BY <1>1 DEF Below
<1> QED
  BY <1>2 DEF Announce

\* The recursive function of GetCovers is defined.
LEMMA ListExists ==
    ASSUME NEW d, WellFormed(d)
    PROVE  IsList(d, List(d))
<1>1. PICK rank \in [DOMAIN d -> Nat], top \in Nat :
         /\ \A m \in DOMAIN d : rank[m] <= top
         /\ \A m \in DOMAIN d : \A s \in Items(d[m], DOMAIN d) : rank[s.what] < rank[m]
  BY Ranks
<1> DEFINE D(n) == {m \in DOMAIN d : rank[m] <= n}
           IsUpto(f, n) == f = [at \in D(n) \X Seq(Nat) |-> Announce(d, f, at[1], at[2])]
           E == {n \in Nat : \E f : IsUpto(f, n)}
<1>2. 0 \in E
  <2> DEFINE f == [at \in D(0) \X Seq(Nat) |-> Announce(d, <<>>, at[1], at[2])]
  <2>1. ASSUME NEW m \in D(0), NEW p \in Seq(Nat)
        PROVE  Announce(d, <<>>, m, p) = Announce(d, f, m, p)
    <3>1. \A s \in Items(d[m], DOMAIN d) : FALSE
      <4> SUFFICES ASSUME NEW s \in Items(d[m], DOMAIN d) PROVE FALSE
        OBVIOUS
      <4>1. s.what \in DOMAIN d /\ rank[s.what] < rank[m] /\ rank[m] <= 0
        BY <1>1, ModuleShape
      <4>2. rank[s.what] \in Nat /\ rank[m] \in Nat
        BY <4>1
      <4> QED
        BY <4>1, <4>2
    <3> HIDE DEF f
    <3> QED
      BY <3>1, AnnounceSame
  <2>2. \A at \in D(0) \X Seq(Nat) :
           Announce(d, <<>>, at[1], at[2]) = Announce(d, f, at[1], at[2])
    <3> HIDE DEF f, D
    <3> QED
      BY <2>1
  <2>3. IsUpto(f, 0)
    BY <2>2, Zenon
  <2> HIDE DEF f, IsUpto
  <2> QED
    BY <2>3
<1>3. ASSUME NEW n \in Nat, n \in E PROVE n + 1 \in E
  <2>1. PICK f : IsUpto(f, n)
    BY <1>3
  <2> DEFINE g == [at \in D(n + 1) \X Seq(Nat) |-> Announce(d, f, at[1], at[2])]
  <2>2. ASSUME NEW m \in D(n), NEW p \in Seq(Nat)
        PROVE  f[<<m, p>>] = g[<<m, p>>]
    <3>1. f[<<m, p>>] = Announce(d, f, m, p)
      BY <2>1
    <3>2. m \in D(n + 1)
      BY <1>1
    <3>3. g[<<m, p>>] = Announce(d, f, m, p)
      BY <3>2
    <3> QED
      BY <3>1, <3>3
  <2>3. ASSUME NEW m \in D(n + 1), NEW p \in Seq(Nat)
        PROVE  Announce(d, f, m, p) = Announce(d, g, m, p)
    <3>1. ASSUME NEW s \in Items(d[m], DOMAIN d) PROVE s.what \in D(n)
      <4>1. s.what \in DOMAIN d /\ rank[s.what] < rank[m] /\ rank[m] <= n + 1
        BY <1>1, ModuleShape
      <4>2. rank[s.what] \in Nat /\ rank[m] \in Nat
        BY <4>1
      <4> QED
        BY <4>1, <4>2
    <3> HIDE DEF g
    <3>2. \A s \in Items(d[m], DOMAIN d) : \A q \in Seq(Nat) :
             f[<<s.what, q>>] = g[<<s.what, q>>]
      BY <2>2, <3>1
    <3> HIDE DEF D
    <3>3. m \in DOMAIN d
      BY DEF D
    <3> QED
      BY <3>2, <3>3, AnnounceSame
  <2>4. \A at \in D(n + 1) \X Seq(Nat) :
           Announce(d, f, at[1], at[2]) = Announce(d, g, at[1], at[2])
    <3> HIDE DEF g, D
    <3> QED
      BY <2>3
  <2>5. IsUpto(g, n + 1)
    BY <2>4, Zenon
  <2> HIDE DEF g, IsUpto
  <2> QED
    BY <2>5
<1>4. top \in E
  <2> HIDE DEF E
  <2> QED
    BY <1>2, <1>3, Induction
<1>5. D(top) = DOMAIN d
  BY <1>1
<1>6. \E f : IsList(d, f)
  <2>1. PICK f : IsUpto(f, top)
    BY <1>4
  <2>2. IsList(d, f)
    BY <1>5, <2>1 DEF IsList
  <2> QED
    BY <2>2
<1> QED
  BY <1>6 DEF List

\* It does for every instance what Announce does for one.
LEMMA Listed ==
    ASSUME NEW d, WellFormed(d), NEW m \in DOMAIN d, NEW p \in Seq(Nat)
    PROVE  List(d)[<<m, p>>] = Announce(d, List(d), m, p)
<1>1. PICK f : f = List(d)
  OBVIOUS
<1>2. f = [at \in (DOMAIN d) \X Seq(Nat) |-> Announce(d, f, at[1], at[2])]
  BY <1>1, ListExists DEF IsList
<1>3. f[<<m, p>>] = Announce(d, f, m, p)
  BY <1>2
<1> QED
  BY <1>1, <1>3

\* GetCovers is the value of that function for the main module.
LEMMA GetCoversIs == GetCovers = List(design)[<<Main, <<>>>>]
BY DEF GetCovers, List, IsList, Announce, Own, Below, CoversOf, InstancesOf,
   Covers, Instances

\* So it is one of the same elements.
LEMMA FlatTyped ==
    ASSUME NEW S, NEW n \in Nat, NEW seqs \in [1 .. n -> Seq(S)]
    PROVE  FlattenSeq(seqs) \in Seq(S)
<1>1. PICK flat : IsFlat(S, n, seqs, flat)
  BY Flattened
<1> QED
  BY <1>1 DEF IsFlat

\* What a module announces for its own registers, and for those below it.
LEMMA AnnounceTyped ==
    ASSUME NEW d, WellFormed(d), NEW m \in DOMAIN d, NEW p \in Seq(Nat), NEW f,
           \A s \in Items(d[m], DOMAIN d) : \A q \in Seq(Nat) :
              f[<<s.what, q>>] \in Seq(Seq(Nat))
    PROVE  /\ Own(d, m, p) \in [1 .. Len(CoversOf(d, m)) -> Seq(Nat)]
           /\ Below(d, f, m, p) \in [1 .. Len(InstancesOf(d, m)) -> Seq(Seq(Nat))]
<1>1. /\ DOMAIN CoversOf(d, m) = 1 .. Len(CoversOf(d, m))
      /\ DOMAIN InstancesOf(d, m) = 1 .. Len(InstancesOf(d, m))
  BY ModuleShape, LenProperties
<1>2. ASSUME NEW k \in DOMAIN CoversOf(d, m)
      PROVE  Append(p, CoversOf(d, m)[k].name) \in Seq(Nat)
  <2>1. CoversOf(d, m)[k] \in Items(d[m], {"cover"})
    BY ModuleShape, ElementOfSeq, LenProperties
  <2>2. PICK s \in Items(d[m], {"cover"}) : s = CoversOf(d, m)[k]
    BY <2>1
  <2> QED
    BY <2>2, ModuleShape, AppendProperties
<1>3. ASSUME NEW k \in DOMAIN InstancesOf(d, m)
      PROVE  f[<<InstancesOf(d, m)[k].what, Append(p, InstancesOf(d, m)[k].name)>>]
                \in Seq(Seq(Nat))
  <2>1. InstancesOf(d, m)[k] \in Items(d[m], DOMAIN d)
    BY ModuleShape, ElementOfSeq, LenProperties
  <2>2. PICK s \in Items(d[m], DOMAIN d) : s = InstancesOf(d, m)[k]
    BY <2>1
  <2>3. Append(p, s.name) \in Seq(Nat)
    BY <2>2, ModuleShape, AppendProperties
  <2> QED
    BY <2>2, <2>3
<1> QED
  BY <1>1, <1>2, <1>3 DEF Own, Below

\* The list consists of names.
LEMMA ListTyped ==
    ASSUME NEW d, WellFormed(d)
    PROVE  \A m \in DOMAIN d : \A p \in Seq(Nat) : List(d)[<<m, p>>] \in Seq(Seq(Nat))
<1>1. PICK rank \in [DOMAIN d -> Nat], top \in Nat :
         /\ \A m \in DOMAIN d : rank[m] <= top
         /\ \A m \in DOMAIN d : \A s \in Items(d[m], DOMAIN d) : rank[s.what] < rank[m]
  BY Ranks
<1> DEFINE Typed(m) == \A p \in Seq(Nat) : List(d)[<<m, p>>] \in Seq(Seq(Nat))
           T == {n \in Nat : \A m \in DOMAIN d : rank[m] < n => Typed(m)}
<1>2. 0 \in T
  BY <1>1
<1>3. ASSUME NEW n \in Nat, n \in T PROVE n + 1 \in T
  <2> SUFFICES ASSUME NEW m \in DOMAIN d, rank[m] < n + 1 PROVE Typed(m)
    OBVIOUS
  <2> SUFFICES ASSUME NEW p \in Seq(Nat) PROVE List(d)[<<m, p>>] \in Seq(Seq(Nat))
    OBVIOUS
  <2>1. ASSUME NEW s \in Items(d[m], DOMAIN d) PROVE Typed(s.what)
    <3>1. s.what \in DOMAIN d /\ rank[s.what] < rank[m]
      BY <1>1, ModuleShape
    <3>2. rank[s.what] \in Nat /\ rank[m] \in Nat
      BY <1>1, <3>1
    <3>3. rank[s.what] < n
      BY <3>1, <3>2
    <3> QED
      BY <1>3, <3>1, <3>3
  <2>2. \A s \in Items(d[m], DOMAIN d) : \A q \in Seq(Nat) :
           List(d)[<<s.what, q>>] \in Seq(Seq(Nat))
    BY <2>1
  <2>3. /\ Own(d, m, p) \in [1 .. Len(CoversOf(d, m)) -> Seq(Nat)]
        /\ Below(d, List(d), m, p)
              \in [1 .. Len(InstancesOf(d, m)) -> Seq(Seq(Nat))]
    BY <2>2, AnnounceTyped
  <2>4. Len(CoversOf(d, m)) \in Nat /\ Len(InstancesOf(d, m)) \in Nat
    BY ModuleShape, LenProperties
  <2>5. FlattenSeq(Below(d, List(d), m, p)) \in Seq(Seq(Nat))
    <3>1. PICK seqs : seqs = Below(d, List(d), m, p)
      OBVIOUS
    <3>2. PICK n1 \in Nat : n1 = Len(InstancesOf(d, m))
      BY <2>4
    <3>3. seqs \in [1 .. n1 -> Seq(Seq(Nat))]
      BY <2>3, <3>1, <3>2
    <3>4. FlattenSeq(seqs) \in Seq(Seq(Nat))
      BY <3>3, FlatTyped, Zenon
    <3> QED
      BY <3>1, <3>4
  <2>6. Own(d, m, p) \in Seq(Seq(Nat))
    <3>1. PICK own : own = Own(d, m, p)
      OBVIOUS
    <3>2. PICK n1 \in Nat : n1 = Len(CoversOf(d, m))
      BY <2>4
    <3>3. own \in [1 .. n1 -> Seq(Nat)]
      BY <2>3, <3>1, <3>2
    <3>4. own \in Seq(Seq(Nat))
      BY <3>3
    <3> QED
      BY <3>1, <3>4
  <2>7. List(d)[<<m, p>>] = Own(d, m, p) \o FlattenSeq(Below(d, List(d), m, p))
    BY Listed DEF Announce
  <2> QED
    BY <2>5, <2>6, <2>7
<1>4. ASSUME NEW m \in DOMAIN d PROVE Typed(m)
  <2>1. Nat \subseteq T
    <3> HIDE DEF T
    <3> QED
      BY <1>2, <1>3, Induction
  <2>2. top + 1 \in T /\ rank[m] < top + 1
    BY <1>1, <2>1
  <2> QED
    BY <2>2
<1> QED
  BY <1>4

\* The elements of a chain: first the registers, then the instances.
LEMMA ChainShape ==
    ASSUME NEW d, WellFormed(d), NEW m \in DOMAIN d
    PROVE  /\ Len(CoversOf(d, m)) \in Nat /\ Len(InstancesOf(d, m)) \in Nat
           /\ Len(ChainOf(d, m)) = Len(CoversOf(d, m)) + Len(InstancesOf(d, m))
           /\ \A k \in 1 .. Len(ChainOf(d, m)) :
                 /\ ChainOf(d, m)[k].name \in Nat
                 /\ ChainOf(d, m)[k].what \in {"cover"} \cup DOMAIN d
           /\ \A k \in 1 .. Len(CoversOf(d, m)) :
                 /\ ChainOf(d, m)[k] = CoversOf(d, m)[k]
                 /\ ChainOf(d, m)[k].what = "cover"
           /\ \A k \in 1 .. Len(InstancesOf(d, m)) :
                 /\ ChainOf(d, m)[Len(CoversOf(d, m)) + k] = InstancesOf(d, m)[k]
                 /\ InstancesOf(d, m)[k].what /= "cover"
<1>1. PICK a \in Seq(Items(d[m], {"cover"})) : a = CoversOf(d, m)
  BY ModuleShape
<1>2. PICK b \in Seq(Items(d[m], DOMAIN d)) : b = InstancesOf(d, m)
  BY ModuleShape
<1>3. \A s \in Items(d[m], {"cover"}) : s.name \in Nat /\ s.what = "cover"
  BY ModuleShape
<1>4. \A s \in Items(d[m], DOMAIN d) : s.name \in Nat /\ s.what \in DOMAIN d
  BY ModuleShape
<1>5. "cover" \notin DOMAIN d
  BY DEF WellFormed
<1>6. ChainOf(d, m) = a \o b
  BY <1>1, <1>2 DEF ChainOf
<1>7. Len(a) \in Nat /\ Len(b) \in Nat /\ Len(a \o b) = Len(a) + Len(b)
  OBVIOUS
<1>8. ASSUME NEW k \in 1 .. Len(a)
      PROVE  (a \o b)[k] = a[k] /\ a[k] \in Items(d[m], {"cover"})
  OBVIOUS
<1>9. ASSUME NEW k \in 1 .. Len(b)
      PROVE  (a \o b)[Len(a) + k] = b[k] /\ b[k] \in Items(d[m], DOMAIN d)
  OBVIOUS
<1>10. ASSUME NEW k \in 1 .. Len(a) + Len(b)
       PROVE  (a \o b)[k] \in Items(d[m], {"cover"}) \cup Items(d[m], DOMAIN d)
  OBVIOUS
<1>11. ASSUME NEW k \in 1 .. Len(a)
       PROVE  (a \o b)[k] = a[k] /\ (a \o b)[k].what = "cover"
  BY <1>3, <1>8
<1>12. ASSUME NEW k \in 1 .. Len(b)
       PROVE  (a \o b)[Len(a) + k] = b[k] /\ b[k].what /= "cover"
  BY <1>4, <1>5, <1>9
<1>13. ASSUME NEW k \in 1 .. Len(a) + Len(b)
       PROVE  (a \o b)[k].name \in Nat /\ (a \o b)[k].what \in {"cover"} \cup DOMAIN d
  BY <1>3, <1>4, <1>10
<1> QED
  BY <1>1, <1>2, <1>6, <1>7, <1>11, <1>12, <1>13

\* Lists of names may be put together in any order.
LEMMA Assoc ==
    ASSUME NEW a \in Seq(Seq(Nat)), NEW b \in Seq(Seq(Nat)), NEW c \in Seq(Seq(Nat))
    PROVE  a \o (b \o c) = (a \o b) \o c /\ a \o b \in Seq(Seq(Nat))
<1>1. PICK S : S = Seq(Nat)
  OBVIOUS
<1>2. a \in Seq(S) /\ b \in Seq(S) /\ c \in Seq(S)
  BY <1>1
<1>3. (a \o b) \o c = a \o (b \o c)
  BY <1>2, ConcatAssociative
<1>4. a \o b \in Seq(S)
  BY <1>2, ConcatProperties
<1> QED
  BY <1>1, <1>3, <1>4

Associative(a, b, c) == a \o (b \o c) = (a \o b) \o c

\* The same, as a fact about three lists.
LEMMA AssocOf ==
    ASSUME NEW a \in Seq(Seq(Nat)), NEW b \in Seq(Seq(Nat)), NEW c \in Seq(Seq(Nat))
    PROVE  Associative(a, b, c)
BY Assoc DEF Associative

\* What element k of the chain of an instance of m at path p announces.
Part(d, m, p, k) ==
    IF ChainOf(d, m)[k].what = "cover"
    THEN <<Append(p, ChainOf(d, m)[k].name)>>
    ELSE List(d)[<<ChainOf(d, m)[k].what, Append(p, ChainOf(d, m)[k].name)>>]

\* What the first elements of its chain announce, for any number of them.
IsUpto(d, m, p, upto) ==
    /\ upto \in [0 .. Len(ChainOf(d, m)) -> Seq(Seq(Nat))]
    /\ upto[0] = <<>> /\ upto[Len(ChainOf(d, m))] = List(d)[<<m, p>>]
    /\ \A k \in 1 .. Len(ChainOf(d, m)) : upto[k] = upto[k - 1] \o Part(d, m, p, k)
Upto(d, m, p) == CHOOSE upto : IsUpto(d, m, p, upto)

\* The list of an instance is what the elements of its chain announce, in order.
LEMMA UptoExists ==
    ASSUME NEW d, WellFormed(d), NEW m \in DOMAIN d, NEW p \in Seq(Nat)
    PROVE  IsUpto(d, m, p, Upto(d, m, p))
<1>1. \A s \in Items(d[m], DOMAIN d) : \A q \in Seq(Nat) :
         List(d)[<<s.what, q>>] \in Seq(Seq(Nat))
  <2>1. \A s \in Items(d[m], DOMAIN d) : s.what \in DOMAIN d
    BY ModuleShape
  <2> QED
    BY <2>1, ListTyped
<1>2. PICK c \in Nat, n \in Nat : c = Len(CoversOf(d, m)) /\ n = Len(InstancesOf(d, m))
  BY ChainShape
<1>3. Len(ChainOf(d, m)) = c + n
  BY <1>2, ChainShape
<1>4. PICK own \in [1 .. c -> Seq(Nat)] : own = Own(d, m, p)
  BY <1>1, <1>2, AnnounceTyped
<1>5. PICK seqs \in [1 .. n -> Seq(Seq(Nat))] : seqs = Below(d, List(d), m, p)
  BY <1>1, <1>2, AnnounceTyped
<1>6. PICK flat : IsFlat(Seq(Nat), n, seqs, flat)
  <2>1. \E flat : IsFlat(Seq(Nat), n, seqs, flat)
    BY Flattened
  <2> QED
    BY <2>1
<1>7. /\ flat \in [0 .. n -> Seq(Seq(Nat))]
      /\ flat[0] = <<>> /\ flat[n] = FlattenSeq(seqs)
      /\ \A k \in 1 .. n : flat[k] = flat[k - 1] \o seqs[k]
  BY <1>6 DEF IsFlat
<1>8. List(d)[<<m, p>>] = own \o flat[n]
  BY <1>4, <1>5, <1>7, Listed DEF Announce
<1>9. own \in Seq(Seq(Nat)) /\ Len(own) = c
  BY <1>4
<1> DEFINE u == [k \in 0 .. c + n |->
                    IF k <= c THEN SubSeq(own, 1, k) ELSE own \o flat[k - c]]
<1>10. \A k \in c .. c + n : u[k] = own \o flat[k - c]
  <2> SUFFICES ASSUME NEW k \in c .. c + n PROVE u[k] = own \o flat[k - c]
    OBVIOUS
  <2>1. CASE k = c
    <3>1. SubSeq(own, 1, c) = own
      BY <1>9, SubSeqFull
    <3>2. own \o <<>> = own
      BY <1>9, ConcatEmptySeq
    <3> QED
      BY <2>1, <3>1, <3>2, <1>7
  <2>2. CASE k > c
    <3>1. k \in 0 .. c + n /\ ~(k <= c)
      BY <2>2
    <3> QED
      BY <3>1
  <2> HIDE DEF u
  <2> QED
    BY <2>1, <2>2
<1>11. u \in [0 .. c + n -> Seq(Seq(Nat))]
  <2>1. ASSUME NEW k \in 0 .. c + n
        PROVE  (IF k <= c THEN SubSeq(own, 1, k) ELSE own \o flat[k - c]) \in Seq(Seq(Nat))
    <3>1. CASE k <= c
      <4>1. SubSeq(own, 1, k) \in Seq(Seq(Nat))
        BY <1>9, <3>1
      <4> QED
        BY <3>1, <4>1
    <3>2. CASE ~(k <= c)
      <4>1. k - c \in 0 .. n
        BY <3>2
      <4>2. flat[k - c] \in Seq(Seq(Nat))
        BY <1>7, <4>1
      <4>3. own \o flat[k - c] \in Seq(Seq(Nat))
        BY <1>9, <4>2
      <4> QED
        BY <3>2, <4>3
    <3> QED
      BY <3>1, <3>2
  <2> QED
    BY <2>1
<1>12. u[0] = <<>>
  <2>1. u[0] = SubSeq(own, 1, 0)
    OBVIOUS
  <2> QED
    BY <1>9, <2>1, SubSeqEmpty
<1>13. u[c + n] = List(d)[<<m, p>>]
  <2>1. PICK k \in c .. c + n : k = c + n /\ k - c = n
    OBVIOUS
  <2> HIDE DEF u
  <2> QED
    BY <1>8, <1>10, <2>1
<1>14. ASSUME NEW k \in 1 .. c + n PROVE u[k] = u[k - 1] \o Part(d, m, p, k)
  <2>1. CASE k <= c
    <3>1. Part(d, m, p, k) = <<Append(p, CoversOf(d, m)[k].name)>>
      <4>1. k \in 1 .. Len(CoversOf(d, m))
        BY <1>2, <2>1
      <4>2. ChainOf(d, m)[k] = CoversOf(d, m)[k] /\ ChainOf(d, m)[k].what = "cover"
        BY <4>1, ChainShape
      <4> QED
        BY <4>2 DEF Part
    <3>2. own[k] = Append(p, CoversOf(d, m)[k].name)
      <4>1. k \in DOMAIN CoversOf(d, m)
        BY <1>2, <2>1, ModuleShape, LenProperties
      <4> QED
        BY <1>4, <4>1 DEF Own
    <3>3. SubSeq(own, 1, k) = SubSeq(own, 1, k - 1) \o <<own[k]>>
      <4>1. 1 \in 1 .. Len(own) /\ k \in 1 .. Len(own)
        BY <1>9, <2>1
      <4> QED
        BY <1>9, <4>1, SubSeqRecursiveSecond
    <3>4. u[k] = SubSeq(own, 1, k)
      BY <2>1
    <3>5. u[k - 1] = SubSeq(own, 1, k - 1)
      <4>1. PICK i \in 0 .. c + n : i = k - 1 /\ i <= c
        BY <2>1
      <4>2. u[i] = SubSeq(own, 1, i)
        BY <4>1
      <4> HIDE DEF u
      <4> QED
        BY <4>1, <4>2
    <3> HIDE DEF u
    <3> QED
      BY <3>1, <3>2, <3>3, <3>4, <3>5
  <2>2. CASE k > c
    <3>1. PICK j \in 1 .. n : k = c + j
      <4>1. k - c \in 1 .. n /\ k = c + (k - c)
        BY <2>2
      <4> QED
        BY <4>1
    <3>2. u[k] = own \o flat[j]
      <4>1. k \in c .. c + n /\ k - c = j
        BY <3>1
      <4> HIDE DEF u
      <4> QED
        BY <1>10, <4>1
    <3>3. u[k - 1] = own \o flat[j - 1]
      <4>1. k - 1 \in c .. c + n /\ (k - 1) - c = j - 1
        BY <3>1
      <4> HIDE DEF u
      <4> QED
        BY <1>10, <4>1
    <3>4. flat[j] = flat[j - 1] \o seqs[j]
      BY <1>7
    <3>5. PICK i \in 0 .. n : i = j - 1
      OBVIOUS
    <3>6. own \o (flat[j - 1] \o seqs[j]) = (own \o flat[j - 1]) \o seqs[j]
      <4>1. flat[i] \in Seq(Seq(Nat)) /\ seqs[j] \in Seq(Seq(Nat))
        BY <1>7
      <4>2. own \o (flat[i] \o seqs[j]) = (own \o flat[i]) \o seqs[j]
        BY <1>9, <4>1, Assoc
      <4> QED
        BY <3>5, <4>2
    <3>7. ChainOf(d, m)[k] = InstancesOf(d, m)[j] /\ InstancesOf(d, m)[j].what /= "cover"
      BY <1>2, <3>1, ChainShape
    <3>8. seqs[j] = Part(d, m, p, k)
      <4>1. j \in DOMAIN InstancesOf(d, m)
        BY <1>2, <3>1, ModuleShape, LenProperties
      <4>2. seqs[j] = List(d)[<<InstancesOf(d, m)[j].what,
                                Append(p, InstancesOf(d, m)[j].name)>>]
        BY <1>5, <4>1 DEF Below
      <4> QED
        BY <3>7, <4>2 DEF Part
    <3> HIDE DEF u
    <3> QED
      BY <3>2, <3>3, <3>4, <3>6, <3>8
  <2> HIDE DEF u
  <2> QED
    BY <2>1, <2>2
<1>15. IsUpto(d, m, p, u)
  <2> HIDE DEF u
  <2> QED
    BY <1>3, <1>11, <1>12, <1>13, <1>14 DEF IsUpto
<1> QED
  BY <1>15 DEF Upto

\* Of a walk w through circuit d: the element that nested instance j is at, the
\* path to that instance, and what the elements up to any of it announce.
Frames(d) == [module : DOMAIN d, pos : Nat]
ElementOf(d, w, j) == ChainOf(d, w[j].module)[w[j].pos]
PathTo(d, w, j) == [k \in 1 .. j - 1 |-> ElementOf(d, w, k).name]
Ahead(d, w, j) == Upto(d, w[j].module, PathTo(d, w, j))

\* The walk is in nested instances, and acc[j] is announced before the j-th.
Follows(d, w, acc) ==
    /\ w \in Seq(Frames(d)) /\ w /= <<>> /\ w[1].module = Main
    /\ acc \in [1 .. Len(w) -> Seq(Seq(Nat))] /\ acc[1] = <<>>
    /\ \A j \in 1 .. Len(w) : w[j].pos <= Len(ChainOf(d, w[j].module))
    /\ \A j \in 1 .. Len(w) - 1 :
          /\ w[j].pos > 0
          /\ ElementOf(d, w, j).what = w[j + 1].module
          /\ acc[j + 1] = acc[j] \o Ahead(d, w, j)[w[j].pos - 1]

\* What is announced for the registers that the walk has still to meet.
ToCome(d, w, acc) == acc[Len(w)] \o Ahead(d, w, Len(w))[w[Len(w)].pos]

\* What is still to come and what was met, turned around, are what is announced.
Reached(d, w, met) ==
    \/ w = <<>> /\ List(d)[<<Main, <<>>>>] = Reverse(met)
    \/ \E acc : /\ Follows(d, w, acc)
                /\ List(d)[<<Main, <<>>>>] = ToCome(d, w, acc) \o Reverse(met)

\* The path to an instance of the walk, and the function of its chain.
LEMMA PathTyped ==
    ASSUME NEW d, WellFormed(d), NEW w, NEW acc, Follows(d, w, acc), NEW j \in 1 .. Len(w)
    PROVE  /\ w[j].module \in DOMAIN d /\ w[j].pos \in 0 .. Len(ChainOf(d, w[j].module))
           /\ PathTo(d, w, j) \in Seq(Nat)
           /\ IsUpto(d, w[j].module, PathTo(d, w, j), Ahead(d, w, j))
<1>1. Len(w) \in Nat /\ \A k \in 1 .. Len(w) : w[k] \in Frames(d)
  BY DEF Follows
<1>2. \A k \in 1 .. Len(w) :
         /\ w[k].module \in DOMAIN d /\ w[k].pos \in Nat
         /\ w[k].pos <= Len(ChainOf(d, w[k].module))
         /\ Len(ChainOf(d, w[k].module)) \in Nat
  <2> SUFFICES ASSUME NEW k \in 1 .. Len(w)
               PROVE  /\ w[k].module \in DOMAIN d /\ w[k].pos \in Nat
                      /\ w[k].pos <= Len(ChainOf(d, w[k].module))
                      /\ Len(ChainOf(d, w[k].module)) \in Nat
    OBVIOUS
  <2>1. PICK frame \in Frames(d) : frame = w[k]
    BY <1>1
  <2>2. frame.module \in DOMAIN d /\ frame.pos \in Nat
    BY DEF Frames
  <2>3. Len(ChainOf(d, frame.module)) \in Nat
    <3>1. /\ Len(CoversOf(d, frame.module)) \in Nat
          /\ Len(InstancesOf(d, frame.module)) \in Nat
          /\ Len(ChainOf(d, frame.module))
                = Len(CoversOf(d, frame.module)) + Len(InstancesOf(d, frame.module))
      BY <2>2, ChainShape
    <3> QED
      BY <3>1
  <2>4. w[k].pos <= Len(ChainOf(d, w[k].module))
    BY DEF Follows
  <2> QED
    BY <2>1, <2>2, <2>3, <2>4
<1>3. ASSUME NEW k \in 1 .. j - 1 PROVE ElementOf(d, w, k).name \in Nat
  <2>1. k \in 1 .. Len(w) - 1 /\ k \in 1 .. Len(w)
    BY <1>1
  <2>2. w[k].pos > 0
    BY <2>1 DEF Follows
  <2>3. w[k].module \in DOMAIN d /\ w[k].pos \in 1 .. Len(ChainOf(d, w[k].module))
    BY <1>2, <2>1, <2>2
  <2> QED
    BY <2>3, ChainShape DEF ElementOf
<1>4. PathTo(d, w, j) \in Seq(Nat)
  <2>1. PICK n \in Nat : n = j - 1
    BY <1>1
  <2>2. PathTo(d, w, j) = [k \in 1 .. n |-> ElementOf(d, w, k).name]
    BY <2>1 DEF PathTo
  <2>3. \A k \in 1 .. n : ElementOf(d, w, k).name \in Nat
    BY <1>3, <2>1
  <2>4. PathTo(d, w, j) \in [1 .. n -> Nat]
    BY <2>2, <2>3
  <2> QED
    BY <2>4
<1>5. IsUpto(d, w[j].module, PathTo(d, w, j), Ahead(d, w, j))
  BY <1>2, <1>4, UptoExists DEF Ahead
<1> QED
  BY <1>2, <1>4, <1>5

\* The path to an instance depends on the instances around it.
LEMMA SameAhead ==
    ASSUME NEW d, NEW w, NEW v, NEW j \in Nat, w[j].module = v[j].module,
           \A k \in 1 .. j - 1 : w[k] = v[k]
    PROVE  PathTo(d, w, j) = PathTo(d, v, j) /\ Ahead(d, w, j) = Ahead(d, v, j)
BY DEF PathTo, Ahead, ElementOf

\* Two walks that are in the same places have the same ahead of them.
LEMMA SameStep ==
    ASSUME NEW d, NEW w, NEW v, NEW j \in Nat \ {0}, \A k \in 1 .. j : w[k] = v[k]
    PROVE  Ahead(d, w, j) = Ahead(d, v, j) /\ ElementOf(d, w, j) = ElementOf(d, v, j)
<1>1. w[j] = v[j] /\ \A k \in 1 .. j - 1 : w[k] = v[k]
  OBVIOUS
<1> QED
  BY <1>1, SameAhead DEF ElementOf

\* The innermost instance may go back by an element.
LEMMA StepsBack ==
    ASSUME NEW d, WellFormed(d), NEW w, NEW acc, Follows(d, w, acc), w[Len(w)].pos > 0
    PROVE  /\ Follows(d, StepBack(w), acc) /\ Len(StepBack(w)) = Len(w)
           /\ StepBack(w)[Len(w)].pos = w[Len(w)].pos - 1
           /\ Ahead(d, StepBack(w), Len(w)) = Ahead(d, w, Len(w))
<1>1. PICK n \in Nat : n = Len(w) /\ n > 0
  BY DEF Follows
<1>2. PICK v : v = StepBack(w)
  OBVIOUS
<1>3. w \in Seq(Frames(d)) /\ w[n] \in Frames(d)
  BY <1>1 DEF Follows
<1>4. PICK frame \in Frames(d) : frame = w[n]
  BY <1>3
<1>5. PICK back \in Frames(d) : back = [frame EXCEPT !.pos = frame.pos - 1]
  <2>1. frame.pos \in Nat /\ frame.pos > 0
    BY <1>1, <1>4 DEF Frames
  <2>2. frame.pos - 1 \in Nat
    BY <2>1
  <2>3. [frame EXCEPT !.pos = frame.pos - 1] \in Frames(d)
    BY <2>2 DEF Frames
  <2> QED
    BY <2>3
<1>6. back.module = frame.module /\ back.pos = frame.pos - 1
  BY <1>5 DEF Frames
<1>7. v = [w EXCEPT ![n] = back]
  BY <1>1, <1>2, <1>4, <1>5 DEF StepBack
<1>8. v \in Seq(Frames(d)) /\ Len(v) = n /\ v[n] = back /\ v /= <<>>
  BY <1>1, <1>3, <1>7
<1>9. \A k \in 1 .. n : v[k].module = w[k].module /\ (k /= n => v[k] = w[k])
  BY <1>1, <1>3, <1>4, <1>6, <1>7, <1>8
<1>10. \A k \in 1 .. n : Ahead(d, v, k) = Ahead(d, w, k)
  <2> SUFFICES ASSUME NEW k \in 1 .. n PROVE Ahead(d, v, k) = Ahead(d, w, k)
    OBVIOUS
  <2>1. \A i \in 1 .. k - 1 : v[i] = w[i]
    BY <1>9
  <2>2. v[k].module = w[k].module
    BY <1>9
  <2> QED
    BY <2>1, <2>2, SameAhead
<1>11. ASSUME NEW k \in 1 .. n PROVE v[k].pos <= Len(ChainOf(d, v[k].module))
  <2>1. w[k].pos <= Len(ChainOf(d, w[k].module))
    BY <1>1 DEF Follows
  <2>2. CASE k /= n
    BY <1>9, <2>1, <2>2
  <2>3. CASE k = n
    <3>1. frame.pos <= Len(ChainOf(d, frame.module))
      BY <1>4, <2>1, <2>3
    <3>2. w[n].module \in DOMAIN d /\ w[n].pos \in 0 .. Len(ChainOf(d, w[n].module))
      BY <1>1, PathTyped
    <3>3. frame.pos \in 0 .. Len(ChainOf(d, frame.module)) /\ frame.pos \in Nat
      BY <1>4, <3>2 DEF Frames
    <3>4. Len(ChainOf(d, frame.module)) \in Nat
      BY <1>4, <3>2, ChainShape
    <3> QED
      BY <1>6, <1>8, <2>3, <3>1, <3>3, <3>4
  <2> QED
    BY <2>2, <2>3
<1>12. ASSUME NEW k \in 1 .. n - 1
       PROVE  /\ v[k].pos > 0 /\ ElementOf(d, v, k).what = v[k + 1].module
              /\ acc[k + 1] = acc[k] \o Ahead(d, v, k)[v[k].pos - 1]
  <2>1. /\ w[k].pos > 0 /\ ElementOf(d, w, k).what = w[k + 1].module
        /\ acc[k + 1] = acc[k] \o Ahead(d, w, k)[w[k].pos - 1]
    BY <1>1 DEF Follows
  <2>2. v[k] = w[k] /\ v[k + 1].module = w[k + 1].module /\ Ahead(d, v, k) = Ahead(d, w, k)
    BY <1>9, <1>10
  <2>3. ElementOf(d, v, k) = ElementOf(d, w, k)
    BY <2>2 DEF ElementOf
  <2> QED
    BY <2>1, <2>2, <2>3
<1>13. /\ v[1].module = Main /\ acc[1] = <<>>
       /\ acc \in [1 .. n -> Seq(Seq(Nat))]
  BY <1>1, <1>9 DEF Follows
<1>14. Follows(d, v, acc)
  BY <1>8, <1>11, <1>12, <1>13 DEF Follows
<1> QED
  BY <1>1, <1>2, <1>4, <1>6, <1>8, <1>10, <1>14

\* An instance that is left: what it announces is behind the walk.
LEMMA Leaves ==
    ASSUME NEW d, WellFormed(d), NEW w, NEW acc, Follows(d, w, acc), Len(w) > 1,
           w[Len(w)].pos = 0
    PROVE  \E rest : /\ Follows(d, Front(w), rest) /\ Front(w)[Len(Front(w))].pos > 0
                     /\ ToCome(d, w, acc) = ToCome(d, StepBack(Front(w)), rest)
<1>1. PICK n \in Nat \ {0} : n + 1 = Len(w)
  <2>1. w \in Seq(Frames(d))
    BY DEF Follows
  <2>2. Len(w) - 1 \in Nat \ {0} /\ (Len(w) - 1) + 1 = Len(w)
    BY <2>1
  <2> QED
    BY <2>2
<1>2. /\ n \in 1 .. n /\ n \in 1 .. n + 1 /\ n + 1 \in 1 .. n + 1 /\ 1 \in 1 .. n
      /\ \A j \in 1 .. n : j \in 1 .. n + 1
  OBVIOUS
<1>3. PICK v : v = Front(w)
  OBVIOUS
<1>4. w \in Seq(Frames(d)) /\ Len(w) = n + 1
  BY <1>1 DEF Follows
<1>5. v \in Seq(Frames(d)) /\ Len(v) = n /\ \A k \in 1 .. n : v[k] = w[k]
  BY <1>1, <1>3, <1>4 DEF Front
<1>6. \A k \in 1 .. n : Ahead(d, v, k) = Ahead(d, w, k) /\ ElementOf(d, v, k) = ElementOf(d, w, k)
  <2> SUFFICES ASSUME NEW k \in 1 .. n
               PROVE  /\ Ahead(d, v, k) = Ahead(d, w, k)
                      /\ ElementOf(d, v, k) = ElementOf(d, w, k)
    OBVIOUS
  <2>1. \A i \in 1 .. k : v[i] = w[i]
    BY <1>5
  <2> QED
    BY <2>1, SameStep
<1>7. /\ acc \in [1 .. n + 1 -> Seq(Seq(Nat))] /\ acc[1] = <<>> /\ w[1].module = Main
      /\ \A j \in 1 .. n + 1 : w[j].pos <= Len(ChainOf(d, w[j].module))
      /\ \A j \in 1 .. n :
            /\ w[j].pos > 0 /\ ElementOf(d, w, j).what = w[j + 1].module
            /\ acc[j + 1] = acc[j] \o Ahead(d, w, j)[w[j].pos - 1]
  <2>1. Len(w) - 1 = n
    BY <1>4
  <2> QED
    BY <1>4, <2>1 DEF Follows
<1>8. PICK rest \in [1 .. n -> Seq(Seq(Nat))] : rest = [j \in 1 .. n |-> acc[j]]
  <2>1. \A j \in 1 .. n : acc[j] \in Seq(Seq(Nat))
    BY <1>2, <1>7
  <2> QED
    BY <2>1
<1>9. \A j \in 1 .. n : rest[j] = acc[j]
  BY <1>8
<1>10. Follows(d, v, rest)
  <2>1. v /= <<>> /\ v[1].module = Main /\ rest[1] = <<>>
    BY <1>2, <1>5, <1>7, <1>9
  <2>2. \A j \in 1 .. n : v[j].pos <= Len(ChainOf(d, v[j].module))
    BY <1>2, <1>5, <1>7
  <2>3. ASSUME NEW j \in 1 .. n - 1
        PROVE  /\ v[j].pos > 0 /\ ElementOf(d, v, j).what = v[j + 1].module
               /\ rest[j + 1] = rest[j] \o Ahead(d, v, j)[v[j].pos - 1]
    <3>1. j \in 1 .. n /\ j + 1 \in 1 .. n
      OBVIOUS
    <3> QED
      BY <1>5, <1>6, <1>7, <1>9, <3>1
  <2> QED
    BY <1>5, <2>1, <2>2, <2>3 DEF Follows
<1>11. v[n].pos > 0
  BY <1>2, <1>5, <1>7
<1>12. /\ Len(StepBack(v)) = n /\ StepBack(v)[n].pos = w[n].pos - 1
       /\ Ahead(d, StepBack(v), n) = Ahead(d, w, n)
  <2>1. v[Len(v)].pos > 0
    BY <1>5, <1>11
  <2>2. /\ Len(StepBack(v)) = Len(v) /\ StepBack(v)[Len(v)].pos = v[Len(v)].pos - 1
        /\ Ahead(d, StepBack(v), Len(v)) = Ahead(d, v, Len(v))
    BY <1>10, <2>1, StepsBack
  <2>3. n \in 1 .. n
    BY <1>1
  <2> QED
    BY <1>5, <1>6, <2>2, <2>3
<1>13. ToCome(d, StepBack(v), rest) = acc[n] \o Ahead(d, w, n)[w[n].pos - 1]
  BY <1>2, <1>9, <1>12 DEF ToCome
<1>14. ToCome(d, w, acc) = acc[n + 1] \o Ahead(d, w, n + 1)[0]
  BY <1>4 DEF ToCome
<1>15. Ahead(d, w, n + 1)[0] = <<>>
  <2>1. n + 1 \in 1 .. Len(w)
    BY <1>1, <1>4
  <2>2. IsUpto(d, w[n + 1].module, PathTo(d, w, n + 1), Ahead(d, w, n + 1))
    BY <2>1, PathTyped
  <2> QED
    BY <2>2 DEF IsUpto
<1>16. acc[n + 1] = acc[n] \o Ahead(d, w, n)[w[n].pos - 1]
  BY <1>2, <1>7
<1>17. acc[n + 1] \o <<>> = acc[n + 1]
  <2>1. acc[n + 1] \in Seq(Seq(Nat))
    BY <1>1, <1>7
  <2> QED
    BY <2>1, ConcatEmptySeq
<1> QED
  BY <1>3, <1>5, <1>10, <1>11, <1>13, <1>14, <1>15, <1>16, <1>17

\* An instance that is entered: all that it announces is ahead of the walk.
LEMMA Enters ==
    ASSUME NEW d, WellFormed(d), NEW w, NEW acc, Follows(d, w, acc), w[Len(w)].pos > 0,
           ElementOf(d, w, Len(w)).what \in DOMAIN d, NEW frame,
           frame = [module |-> ElementOf(d, w, Len(w)).what,
                    pos |-> Len(ChainOf(d, ElementOf(d, w, Len(w)).what))]
    PROVE  \E more : /\ Follows(d, Append(w, frame), more)
                     /\ ToCome(d, Append(w, frame), more) = ToCome(d, w, acc)
<1>1. PICK n \in Nat : n = Len(w) /\ n > 0
  BY DEF Follows
<1>2. PICK sub \in DOMAIN d : sub = ElementOf(d, w, n).what
  BY <1>1
<1>3. Len(ChainOf(d, sub)) \in Nat
  BY ChainShape
<1>4. frame \in Frames(d) /\ frame.module = sub /\ frame.pos = Len(ChainOf(d, sub))
  BY <1>1, <1>2, <1>3 DEF Frames
<1>5. PICK v : v = Append(w, frame)
  OBVIOUS
<1>6. w \in Seq(Frames(d))
  BY DEF Follows
<1>7. /\ v \in Seq(Frames(d)) /\ Len(v) = n + 1 /\ v[n + 1] = frame
      /\ \A k \in 1 .. n : v[k] = w[k]
  BY <1>1, <1>4, <1>5, <1>6
<1>8. \A k \in 1 .. n : Ahead(d, v, k) = Ahead(d, w, k) /\ ElementOf(d, v, k) = ElementOf(d, w, k)
  <2> SUFFICES ASSUME NEW k \in 1 .. n
               PROVE  /\ Ahead(d, v, k) = Ahead(d, w, k)
                      /\ ElementOf(d, v, k) = ElementOf(d, w, k)
    OBVIOUS
  <2>1. \A i \in 1 .. k : v[i] = w[i]
    BY <1>7
  <2> QED
    BY <2>1, SameStep
<1>9. /\ acc \in [1 .. n -> Seq(Seq(Nat))] /\ acc[1] = <<>> /\ w[1].module = Main
      /\ \A j \in 1 .. n : w[j].pos <= Len(ChainOf(d, w[j].module))
      /\ \A j \in 1 .. n - 1 :
            /\ w[j].pos > 0 /\ ElementOf(d, w, j).what = w[j + 1].module
            /\ acc[j + 1] = acc[j] \o Ahead(d, w, j)[w[j].pos - 1]
  BY <1>1 DEF Follows
<1>10. PICK ahead : ahead = Ahead(d, w, n)
  OBVIOUS
<1>11. PICK m \in DOMAIN d, pos \in Nat, path \in Seq(Nat) :
          /\ m = w[n].module /\ pos = w[n].pos /\ pos \in 1 .. Len(ChainOf(d, m))
          /\ path = PathTo(d, w, n)
          /\ IsUpto(d, m, path, ahead)
  <2>1. n \in 1 .. Len(w) /\ w[n].pos > 0
    BY <1>1
  <2>2. /\ w[n].module \in DOMAIN d /\ w[n].pos \in 0 .. Len(ChainOf(d, w[n].module))
        /\ PathTo(d, w, n) \in Seq(Nat)
        /\ IsUpto(d, w[n].module, PathTo(d, w, n), Ahead(d, w, n))
    BY <2>1, PathTyped
  <2>3. Len(ChainOf(d, w[n].module)) \in Nat
    BY <2>2, ChainShape
  <2>4. w[n].pos \in Nat /\ w[n].pos \in 1 .. Len(ChainOf(d, w[n].module))
    BY <2>1, <2>2, <2>3
  <2> QED
    BY <1>10, <2>2, <2>4
<1>12. PICK part \in Seq(Seq(Nat)) : part = ahead[pos - 1]
  <2>1. Len(ChainOf(d, m)) \in Nat
    BY ChainShape
  <2>2. pos - 1 \in 0 .. Len(ChainOf(d, m))
    BY <1>11, <2>1
  <2> QED
    BY <1>11, <2>2 DEF IsUpto
<1>13. PICK name \in Nat : name = ElementOf(d, w, n).name
  BY <1>11, ChainShape DEF ElementOf
<1>14. PathTo(d, v, n + 1) = Append(path, name)
  <2>1. PathTo(d, w, n) = [k \in 1 .. n - 1 |-> ElementOf(d, w, k).name]
    BY DEF PathTo
  <2>2. PathTo(d, v, n + 1) = [k \in 1 .. n |-> ElementOf(d, w, k).name]
    <3>1. (n + 1) - 1 = n
      OBVIOUS
    <3> QED
      BY <1>8, <3>1 DEF PathTo
  <2>3. Len(path) = n - 1 /\ \A k \in 1 .. n - 1 : path[k] = ElementOf(d, w, k).name
    BY <1>1, <1>11, <2>1
  <2>4. PICK longer : longer = PathTo(d, v, n + 1)
    OBVIOUS
  <2>5. longer \in Seq(Nat) /\ Len(longer) = n
    <3>1. \A k \in 1 .. n : ElementOf(d, w, k).name \in Nat
      <4> SUFFICES ASSUME NEW k \in 1 .. n PROVE ElementOf(d, w, k).name \in Nat
        OBVIOUS
      <4>1. CASE k = n
        BY <1>13, <4>1
      <4>2. CASE k /= n
        <5>1. k \in 1 .. n - 1 /\ k \in 1 .. Len(path)
          BY <2>3, <4>2
        <5>2. path[k] \in Nat
          BY <5>1
        <5> QED
          BY <2>3, <5>1, <5>2
      <4> QED
        BY <4>1, <4>2
    <3>2. longer \in [1 .. n -> Nat]
      BY <2>2, <2>4, <3>1
    <3> QED
      BY <3>2
  <2>6. \A k \in 1 .. n : longer[k] = Append(path, name)[k]
    <3> SUFFICES ASSUME NEW k \in 1 .. n PROVE longer[k] = Append(path, name)[k]
      OBVIOUS
    <3>1. longer[k] = ElementOf(d, w, k).name
      BY <2>2, <2>4
    <3>2. CASE k = n
      BY <1>13, <2>3, <3>1, <3>2
    <3>3. CASE k /= n
      <4>1. k \in 1 .. n - 1 /\ k \in 1 .. Len(path)
        BY <2>3, <3>3
      <4>2. Append(path, name)[k] = path[k]
        BY <4>1
      <4> QED
        BY <2>3, <3>1, <4>1, <4>2
    <3> QED
      BY <3>2, <3>3
  <2>7. Append(path, name) \in Seq(Nat) /\ Len(Append(path, name)) = n
    BY <2>3
  <2> QED
    BY <2>4, <2>5, <2>6, <2>7, SeqEqual
<1>15. Ahead(d, v, n + 1)[Len(ChainOf(d, sub))] = List(d)[<<sub, Append(path, name)>>]
  <2>1. Append(path, name) \in Seq(Nat)
    OBVIOUS
  <2>2. Ahead(d, v, n + 1) = Upto(d, sub, Append(path, name))
    BY <1>4, <1>7, <1>14 DEF Ahead
  <2> QED
    BY <2>1, <2>2, UptoExists DEF IsUpto
<1>16. PICK inner \in Seq(Seq(Nat)) : inner = List(d)[<<sub, Append(path, name)>>]
  <2>1. Append(path, name) \in Seq(Nat)
    OBVIOUS
  <2> QED
    BY <2>1, ListTyped
<1>17. ahead[pos] = part \o inner
  <2>1. ahead[pos] = ahead[pos - 1] \o Part(d, m, path, pos)
    BY <1>11 DEF IsUpto
  <2>2. Part(d, m, path, pos) = inner
    <3>1. ElementOf(d, w, n) = ChainOf(d, m)[pos]
      BY <1>11 DEF ElementOf
    <3>2. ChainOf(d, m)[pos].what = sub /\ ChainOf(d, m)[pos].name = name
      BY <1>2, <1>13, <3>1
    <3>3. sub /= "cover"
      BY DEF WellFormed
    <3> QED
      BY <1>16, <3>2, <3>3 DEF Part
  <2> QED
    BY <1>12, <2>1, <2>2
<1>18. acc[n] \in Seq(Seq(Nat))
  BY <1>1, <1>9
<1>19. acc[n] \o (part \o inner) = (acc[n] \o part) \o inner /\ acc[n] \o part \in Seq(Seq(Nat))
  BY <1>18, Assoc
<1>20. PICK more \in [1 .. n + 1 -> Seq(Seq(Nat))] :
          more[n + 1] = acc[n] \o part /\ \A j \in 1 .. n : more[j] = acc[j]
  <2> DEFINE f == [j \in 1 .. n + 1 |-> IF j = n + 1 THEN acc[n] \o part ELSE acc[j]]
  <2>1. \A j \in 1 .. n + 1 : (IF j = n + 1 THEN acc[n] \o part ELSE acc[j]) \in Seq(Seq(Nat))
    BY <1>9, <1>19
  <2>2. f \in [1 .. n + 1 -> Seq(Seq(Nat))]
    BY <2>1
  <2>3. f[n + 1] = acc[n] \o part
    <3>1. n + 1 \in 1 .. n + 1
      OBVIOUS
    <3> QED
      BY <3>1
  <2>4. \A j \in 1 .. n : f[j] = acc[j]
    OBVIOUS
  <2> HIDE DEF f
  <2> QED
    BY <2>2, <2>3, <2>4
<1>21. Follows(d, v, more)
  <2>1. v /= <<>> /\ v[1].module = Main /\ more[1] = <<>>
    BY <1>1, <1>7, <1>9, <1>20
  <2>2. \A j \in 1 .. n + 1 : v[j].pos <= Len(ChainOf(d, v[j].module))
    <3> SUFFICES ASSUME NEW j \in 1 .. n + 1
                 PROVE  v[j].pos <= Len(ChainOf(d, v[j].module))
      OBVIOUS
    <3>1. CASE j = n + 1
      BY <1>3, <1>4, <1>7, <3>1
    <3>2. CASE j /= n + 1
      <4>1. j \in 1 .. n
        BY <3>2
      <4> QED
        BY <1>7, <1>9, <4>1
    <3> QED
      BY <3>1, <3>2
  <2>3. ASSUME NEW j \in 1 .. n
        PROVE  /\ v[j].pos > 0 /\ ElementOf(d, v, j).what = v[j + 1].module
               /\ more[j + 1] = more[j] \o Ahead(d, v, j)[v[j].pos - 1]
    <3>1. CASE j = n
      BY <1>10, <1>1, <1>2, <1>4, <1>7, <1>8, <1>11, <1>12, <1>20, <3>1
    <3>2. CASE j /= n
      <4>1. j \in 1 .. n - 1 /\ j + 1 \in 1 .. n
        BY <3>2
      <4> QED
        BY <1>7, <1>8, <1>9, <1>20, <4>1
    <3> QED
      BY <3>1, <3>2
  <2>4. Len(v) - 1 = n
    BY <1>7
  <2> QED
    BY <1>7, <1>20, <2>1, <2>2, <2>3, <2>4 DEF Follows
<1>22. ToCome(d, v, more) = (acc[n] \o part) \o inner
  BY <1>4, <1>7, <1>15, <1>16, <1>20 DEF ToCome
<1>23. ToCome(d, w, acc) = acc[n] \o (part \o inner)
  BY <1>10, <1>1, <1>11, <1>17 DEF ToCome
<1> QED
  BY <1>5, <1>19, <1>21, <1>22, <1>23

\* A list turned around.
LEMMA Turned ==
    ASSUME NEW S, NEW r \in Seq(S)
    PROVE  /\ Reverse(r) \in Seq(S) /\ Len(Reverse(r)) = Len(r)
           /\ \A i \in 1 .. Len(r) : Reverse(r)[i] = r[Len(r) - i + 1]
<1>1. PICK n \in Nat : n = Len(r)
  OBVIOUS
<1>2. Reverse(r) = [i \in 1 .. n |-> r[n - i + 1]]
  BY <1>1 DEF Reverse
<1>3. ASSUME NEW i \in 1 .. n PROVE r[n - i + 1] \in S
  <2>1. n - i + 1 \in 1 .. Len(r)
    BY <1>1
  <2> QED
    BY <2>1, ElementOfSeq
<1>4. Reverse(r) \in [1 .. n -> S]
  BY <1>2, <1>3
<1> QED
  BY <1>1, <1>2, <1>4

\* What is appended is in front when the list is turned around.
LEMMA TurnedAppend ==
    ASSUME NEW r \in Seq(Seq(Nat)), NEW x \in Seq(Nat)
    PROVE  Reverse(Append(r, x)) = <<x>> \o Reverse(r)
<1>1. PICK n \in Nat : n = Len(r)
  OBVIOUS
<1>2. PICK s \in Seq(Seq(Nat)) : s = Append(r, x)
  <2>1. Append(r, x) \in Seq(Seq(Nat))
    OBVIOUS
  <2> QED
    BY <2>1
<1>3. Len(s) = n + 1 /\ s[n + 1] = x /\ \A i \in 1 .. n : s[i] = r[i]
  BY <1>1, <1>2
<1>4. PICK a \in Seq(Seq(Nat)) : a = Reverse(s)
  BY Turned
<1>5. Len(a) = n + 1 /\ \A i \in 1 .. n + 1 : a[i] = s[n + 1 - i + 1]
  <2>1. /\ Len(Reverse(s)) = Len(s)
        /\ \A i \in 1 .. Len(s) : Reverse(s)[i] = s[Len(s) - i + 1]
    BY Turned
  <2> QED
    BY <1>3, <1>4, <2>1
<1>6. PICK b \in Seq(Seq(Nat)) : b = Reverse(r)
  BY Turned
<1>7. Len(b) = n /\ \A i \in 1 .. n : b[i] = r[n - i + 1]
  <2>1. /\ Len(Reverse(r)) = Len(r)
        /\ \A i \in 1 .. Len(r) : Reverse(r)[i] = r[Len(r) - i + 1]
    BY Turned
  <2> QED
    BY <1>1, <1>6, <2>1
<1>8. PICK c \in Seq(Seq(Nat)) : c = <<x>> \o b
  <2>1. <<x>> \o b \in Seq(Seq(Nat))
    OBVIOUS
  <2> QED
    BY <2>1
<1>9. Len(c) = n + 1 /\ c[1] = x /\ \A i \in 1 .. n : c[i + 1] = b[i]
  BY <1>7, <1>8
<1>10. ASSUME NEW i \in 1 .. n + 1 PROVE a[i] = c[i]
  <2>1. CASE i = 1
    BY <1>3, <1>5, <1>9, <2>1
  <2>2. CASE i /= 1
    <3>1. PICK j \in 1 .. n : i = j + 1
      <4>1. i - 1 \in 1 .. n /\ i = (i - 1) + 1
        BY <2>2
      <4> QED
        BY <4>1
    <3>2. a[i] = s[n - j + 1]
      <4>1. n + 1 - i + 1 = n - j + 1
        BY <3>1
      <4> QED
        BY <1>5, <4>1
    <3>3. n - j + 1 \in 1 .. n
      OBVIOUS
    <3> QED
      BY <1>3, <1>7, <1>9, <3>1, <3>2, <3>3
  <2> QED
    BY <2>1, <2>2
<1>11. a = c
  BY <1>5, <1>9, <1>10, SeqEqual
<1> QED
  BY <1>2, <1>4, <1>6, <1>8, <1>11

\* What is still to come is a list of names.
LEMMA ToComeTyped ==
    ASSUME NEW d, WellFormed(d), NEW w, NEW acc, Follows(d, w, acc)
    PROVE  ToCome(d, w, acc) \in Seq(Seq(Nat))
<1>1. PICK n \in Nat : n = Len(w) /\ n \in 1 .. Len(w)
  BY DEF Follows
<1>2. acc[n] \in Seq(Seq(Nat))
  BY <1>1 DEF Follows
<1>3. /\ w[n].module \in DOMAIN d /\ w[n].pos \in 0 .. Len(ChainOf(d, w[n].module))
      /\ IsUpto(d, w[n].module, PathTo(d, w, n), Ahead(d, w, n))
  BY <1>1, PathTyped
<1>4. Ahead(d, w, n)[w[n].pos] \in Seq(Seq(Nat))
  BY <1>3 DEF IsUpto
<1> QED
  BY <1>1, <1>2, <1>4, Assoc DEF ToCome

\* A register that is passed: what was to come ends with its name.
LEMMA Passes ==
    ASSUME NEW d, WellFormed(d), NEW w, NEW acc, Follows(d, w, acc), w[Len(w)].pos > 0,
           ElementOf(d, w, Len(w)).what = "cover"
    PROVE  /\ Append(PathTo(d, w, Len(w)), ElementOf(d, w, Len(w)).name) \in Seq(Nat)
           /\ ToCome(d, w, acc) = ToCome(d, StepBack(w), acc)
                 \o <<Append(PathTo(d, w, Len(w)), ElementOf(d, w, Len(w)).name)>>
<1>1. PICK n \in Nat : n = Len(w) /\ n \in 1 .. Len(w)
  BY DEF Follows
<1>2. /\ w[n].module \in DOMAIN d /\ w[n].pos \in 0 .. Len(ChainOf(d, w[n].module))
      /\ PathTo(d, w, n) \in Seq(Nat)
      /\ IsUpto(d, w[n].module, PathTo(d, w, n), Ahead(d, w, n))
  BY <1>1, PathTyped
<1>3. PICK m \in DOMAIN d, path \in Seq(Nat) : m = w[n].module /\ path = PathTo(d, w, n)
  BY <1>2
<1>4. PICK pos \in 1 .. Len(ChainOf(d, m)) : pos = w[n].pos
  <2>1. Len(ChainOf(d, m)) \in Nat
    BY ChainShape
  <2> QED
    BY <1>1, <1>2, <1>3, <2>1
<1>5. PICK ahead : ahead = Ahead(d, w, n)
  OBVIOUS
<1>6. IsUpto(d, m, path, ahead)
  BY <1>2, <1>3, <1>5
<1>7. Len(ChainOf(d, m)) \in Nat /\ pos \in Nat /\ pos - 1 \in 0 .. Len(ChainOf(d, m))
  <2>1. Len(ChainOf(d, m)) \in Nat
    BY ChainShape
  <2> QED
    BY <2>1
<1>8. PICK name \in Nat : name = ElementOf(d, w, n).name
  BY <1>3, <1>4, ChainShape DEF ElementOf
<1>9. PICK x \in Seq(Nat) : x = Append(path, name)
  <2>1. Append(path, name) \in Seq(Nat)
    OBVIOUS
  <2> QED
    BY <2>1
<1>10. ahead[pos] = ahead[pos - 1] \o <<x>>
  <2>1. ahead[pos] = ahead[pos - 1] \o Part(d, m, path, pos)
    BY <1>6 DEF IsUpto
  <2>2. ElementOf(d, w, n) = ChainOf(d, m)[pos]
    BY <1>3, <1>4 DEF ElementOf
  <2>3. ChainOf(d, m)[pos].what = "cover" /\ ChainOf(d, m)[pos].name = name
    BY <1>1, <1>8, <2>2
  <2>4. Part(d, m, path, pos) = <<x>>
    BY <1>9, <2>3 DEF Part
  <2> QED
    BY <2>1, <2>4
<1>11. PICK part \in Seq(Seq(Nat)) : part = ahead[pos - 1]
  BY <1>6, <1>7 DEF IsUpto
<1>12. acc[n] \in Seq(Seq(Nat)) /\ <<x>> \in Seq(Seq(Nat))
  BY <1>1 DEF Follows
<1>13. acc[n] \o (part \o <<x>>) = (acc[n] \o part) \o <<x>>
  BY <1>12, Assoc
<1>14. ToCome(d, w, acc) = acc[n] \o (part \o <<x>>)
  BY <1>1, <1>4, <1>5, <1>10, <1>11 DEF ToCome
<1>15. ToCome(d, StepBack(w), acc) = acc[n] \o part
  <2>1. /\ Len(StepBack(w)) = n /\ StepBack(w)[n].pos = pos - 1
        /\ Ahead(d, StepBack(w), n) = ahead
    BY <1>1, <1>4, <1>5, StepsBack
  <2> QED
    BY <1>11, <2>1 DEF ToCome
<1> QED
  BY <1>1, <1>3, <1>8, <1>9, <1>13, <1>14, <1>15

\* The inductive invariant: Reached, along the walk of this circuit.
WalkInv == WalkTypeOK /\ Reached(design, walk, found)

\* Before the first step all that is announced is still to come.
LEMMA StartReached ==
    ASSUME NEW d, WellFormed(d), NEW w,
           w = <<[module |-> Main, pos |-> Len(ChainOf(d, Main))]>>
    PROVE  w \in Seq(Frames(d)) /\ Reached(d, w, <<>>)
<1>1. Main \in DOMAIN d
  BY DEF WellFormed
<1>2. Len(ChainOf(d, Main)) \in Nat
  BY <1>1, ChainShape
<1>3. /\ w \in Seq(Frames(d)) /\ w /= <<>> /\ Len(w) = 1
      /\ w[1].module = Main /\ w[1].pos = Len(ChainOf(d, Main))
  BY <1>1, <1>2 DEF Frames
<1>4. PICK acc \in [1 .. 1 -> Seq(Seq(Nat))] : acc[1] = <<>>
  <2>1. [j \in 1 .. 1 |-> <<>>] \in [1 .. 1 -> Seq(Seq(Nat))]
    OBVIOUS
  <2>2. [j \in 1 .. 1 |-> <<>>][1] = <<>>
    OBVIOUS
  <2> QED
    BY <2>1, <2>2
<1>5. Follows(d, w, acc)
  BY <1>2, <1>3, <1>4 DEF Follows
<1>6. PICK list \in Seq(Seq(Nat)) : list = List(d)[<<Main, <<>>>>]
  <2>1. <<>> \in Seq(Nat)
    OBVIOUS
  <2> QED
    BY <1>1, <2>1, ListTyped
<1>7. Ahead(d, w, 1)[Len(ChainOf(d, Main))] = list
  <2>1. PathTo(d, w, 1) = <<>>
    BY DEF PathTo
  <2>2. IsUpto(d, w[1].module, PathTo(d, w, 1), Ahead(d, w, 1))
    <3>1. 1 \in 1 .. Len(w)
      BY <1>3
    <3> QED
      BY <1>5, <3>1, PathTyped
  <2> QED
    BY <1>3, <1>6, <2>1, <2>2 DEF IsUpto
<1>8. ToCome(d, w, acc) = <<>> \o list
  BY <1>3, <1>4, <1>7 DEF ToCome
<1>9. Reverse(<<>>) = <<>>
  <2>1. Len(<<>>) = 0
    OBVIOUS
  <2> QED
    BY <2>1 DEF Reverse
<1>10. (<<>> \o list) \o <<>> = list
  OBVIOUS
<1>11. List(d)[<<Main, <<>>>>] = ToCome(d, w, acc) \o Reverse(<<>>)
  BY <1>6, <1>8, <1>9, <1>10
<1> QED
  BY <1>3, <1>5, <1>11 DEF Reached

\* The register that is passed is the last one of those that were to come.
LEMMA ReachedByPassing ==
    ASSUME NEW d, WellFormed(d), NEW w, w /= <<>>, NEW met \in Seq(Seq(Nat)),
           Reached(d, w, met), w[Len(w)].pos > 0, ElementOf(d, w, Len(w)).what = "cover",
           NEW x, x = Append(PathTo(d, w, Len(w)), ElementOf(d, w, Len(w)).name)
    PROVE  /\ StepBack(w) \in Seq(Frames(d)) /\ Append(met, x) \in Seq(Seq(Nat))
           /\ Reached(d, StepBack(w), Append(met, x))
<1>1. PICK acc : /\ Follows(d, w, acc)
                 /\ List(d)[<<Main, <<>>>>] = ToCome(d, w, acc) \o Reverse(met)
  BY DEF Reached
<1>2. PICK v : v = StepBack(w)
  OBVIOUS
<1>3. Follows(d, v, acc)
  BY <1>1, <1>2, StepsBack
<1>4. x \in Seq(Nat) /\ ToCome(d, w, acc) = ToCome(d, v, acc) \o <<x>>
  BY <1>1, <1>2, Passes
<1>5. PICK come \in Seq(Seq(Nat)) : come = ToCome(d, v, acc)
  BY <1>3, ToComeTyped
<1>6. PICK back \in Seq(Seq(Nat)) : back = Reverse(met)
  BY Turned
<1>7. <<x>> \in Seq(Seq(Nat)) /\ Append(met, x) \in Seq(Seq(Nat))
  BY <1>4
<1>8. Reverse(Append(met, x)) = <<x>> \o back
  BY <1>4, <1>6, TurnedAppend
<1>9. come \o (<<x>> \o back) = (come \o <<x>>) \o back
  <2>1. PICK one \in Seq(Seq(Nat)) : one = <<x>>
    BY <1>7
  <2>2. Associative(come, one, back)
    BY AssocOf
  <2> QED
    BY <2>1, <2>2 DEF Associative
<1>10. List(d)[<<Main, <<>>>>] = ToCome(d, v, acc) \o Reverse(Append(met, x))
  BY <1>1, <1>4, <1>5, <1>6, <1>8, <1>9
<1>11. v \in Seq(Frames(d))
  BY <1>3 DEF Follows
<1> QED
  BY <1>2, <1>3, <1>7, <1>10, <1>11 DEF Reached

\* Nothing is met where an instance is entered.
LEMMA ReachedByEntering ==
    ASSUME NEW d, WellFormed(d), NEW w, w /= <<>>, NEW met, Reached(d, w, met),
           w[Len(w)].pos > 0, ElementOf(d, w, Len(w)).what \in DOMAIN d, NEW frame,
           frame = [module |-> ElementOf(d, w, Len(w)).what,
                    pos |-> Len(ChainOf(d, ElementOf(d, w, Len(w)).what))]
    PROVE  Append(w, frame) \in Seq(Frames(d)) /\ Reached(d, Append(w, frame), met)
<1>1. PICK acc : /\ Follows(d, w, acc)
                 /\ List(d)[<<Main, <<>>>>] = ToCome(d, w, acc) \o Reverse(met)
  BY DEF Reached
<1>2. PICK more : /\ Follows(d, Append(w, frame), more)
                  /\ ToCome(d, Append(w, frame), more) = ToCome(d, w, acc)
  BY <1>1, Enters
<1>3. Append(w, frame) \in Seq(Frames(d))
  BY <1>2 DEF Follows
<1> QED
  BY <1>1, <1>2, <1>3 DEF Reached

\* Nor where one is left.
LEMMA ReachedByLeaving ==
    ASSUME NEW d, WellFormed(d), NEW w, Len(w) > 1, NEW met, Reached(d, w, met),
           w[Len(w)].pos = 0
    PROVE  StepBack(Front(w)) \in Seq(Frames(d)) /\ Reached(d, StepBack(Front(w)), met)
<1>1. w /= <<>>
  <2>1. Len(<<>>) = 0
    OBVIOUS
  <2> QED
    BY <2>1
<1>2. PICK acc : /\ Follows(d, w, acc)
                 /\ List(d)[<<Main, <<>>>>] = ToCome(d, w, acc) \o Reverse(met)
  BY <1>1 DEF Reached
<1>3. PICK rest : /\ Follows(d, Front(w), rest) /\ Front(w)[Len(Front(w))].pos > 0
                  /\ ToCome(d, w, acc) = ToCome(d, StepBack(Front(w)), rest)
  BY <1>2, Leaves
<1>4. Follows(d, StepBack(Front(w)), rest)
  BY <1>3, StepsBack
<1>5. StepBack(Front(w)) \in Seq(Frames(d))
  BY <1>4 DEF Follows
<1> QED
  BY <1>2, <1>3, <1>4, <1>5 DEF Reached

\* At the constant zero nothing is to come.
LEMMA ReachedZero ==
    ASSUME NEW d, WellFormed(d), NEW w, w /= <<>>, Len(w) = 1,
           NEW met \in Seq(Seq(Nat)), Reached(d, w, met), w[1].pos = 0
    PROVE  Reached(d, <<>>, met)
<1>1. 1 \in 1 .. Len(w)
  OBVIOUS
<1>2. PICK acc : /\ Follows(d, w, acc)
                 /\ List(d)[<<Main, <<>>>>] = ToCome(d, w, acc) \o Reverse(met)
  BY DEF Reached
<1>3. Ahead(d, w, 1)[0] = <<>> /\ acc[1] = <<>>
  <2>1. IsUpto(d, w[1].module, PathTo(d, w, 1), Ahead(d, w, 1))
    BY <1>1, <1>2, PathTyped
  <2> QED
    BY <1>2, <2>1 DEF IsUpto, Follows
<1>4. ToCome(d, w, acc) = <<>> \o <<>>
  BY <1>3 DEF ToCome
<1>5. PICK back \in Seq(Seq(Nat)) : back = Reverse(met)
  BY Turned
<1>6. (<<>> \o <<>>) \o back = back
  OBVIOUS
<1> QED
  BY <1>2, <1>4, <1>5, <1>6 DEF Reached

\* Where the walk is, in the terms of the model.
LEMMA HereIs ==
    ASSUME WalkInv, walk /= <<>>
    PROVE  /\ Here.pos = walk[Len(walk)].pos
           /\ Element(Here) = ElementOf(design, walk, Len(walk))
           /\ Path = PathTo(design, walk, Len(walk))
           /\ \A m : OutPort(m) = [module |-> m, pos |-> Len(ChainOf(design, m))]
BY DEF Here, Last, Element, Path, PathTo, ElementOf, Chain, ChainOf, Covers, Instances,
       CoversOf, InstancesOf, OutPort

\* The invariant holds at the start, and every step keeps it.
LEMMA InitWalk ==
    ASSUME WalkInit
    PROVE  WalkInv
<1>1. design \in Designs /\ WellFormed(design)
  BY DesignAssumption DEF WalkInit
<1>2. walk = <<[module |-> Main, pos |-> Len(ChainOf(design, Main))]>>
  BY DEF WalkInit, OutPort, Chain, ChainOf, Covers, Instances, CoversOf, InstancesOf
<1>3. walk \in Seq(Frames(design)) /\ Reached(design, walk, <<>>)
  BY <1>1, <1>2, StartReached
<1>4. found = <<>> /\ found \in Seq(Seq(Nat))
  BY DEF WalkInit
<1> QED
  BY <1>1, <1>3, <1>4 DEF WalkInv, WalkTypeOK, Frames

\* The invariant in the next state, from what a step does.
LEMMA NextReached ==
    ASSUME WalkInv, NEW w \in Seq(Frames(design)), NEW met \in Seq(Seq(Nat)),
           Reached(design, w, met), walk' = w, found' = met, design' = design
    PROVE  WalkInv'
<1>1. PICK d \in Designs : d = design
  BY DEF WalkInv, WalkTypeOK
<1>2. w \in Seq(Frames(d)) /\ Reached(d, w, met) /\ design' = d
  BY <1>1
<1>3. WalkTypeOK'
  BY <1>2 DEF WalkTypeOK, Frames
<1> QED
  BY <1>2, <1>3 DEF WalkInv

\* A register is passed.
LEMMA PassWalk ==
    ASSUME WalkInv, PassRegister
    PROVE  WalkInv'
<1>1. WellFormed(design) /\ found \in Seq(Seq(Nat)) /\ Reached(design, walk, found)
  BY DesignAssumption DEF WalkInv, WalkTypeOK
<1>2. /\ walk /= <<>> /\ walk[Len(walk)].pos > 0
      /\ ElementOf(design, walk, Len(walk)).what = "cover"
  BY HereIs DEF PassRegister, IsCover
<1>3. PICK x : x = Append(PathTo(design, walk, Len(walk)),
                          ElementOf(design, walk, Len(walk)).name)
  OBVIOUS
<1>4. /\ StepBack(walk) \in Seq(Frames(design)) /\ Append(found, x) \in Seq(Seq(Nat))
      /\ Reached(design, StepBack(walk), Append(found, x))
  BY <1>1, <1>2, <1>3, ReachedByPassing
<1>5. walk' = StepBack(walk) /\ found' = Append(found, x) /\ design' = design
  BY <1>3, HereIs DEF PassRegister
<1> QED
  BY <1>4, <1>5, NextReached

\* An instance is entered at its `out` port.
LEMMA EnterWalk ==
    ASSUME WalkInv, EnterInstance
    PROVE  WalkInv'
<1>1. WellFormed(design) /\ found \in Seq(Seq(Nat)) /\ Reached(design, walk, found)
  BY DesignAssumption DEF WalkInv, WalkTypeOK
<1>2. /\ walk /= <<>> /\ walk[Len(walk)].pos > 0
      /\ ElementOf(design, walk, Len(walk)).what \in DOMAIN design
  BY HereIs DEF EnterInstance, IsInstance
<1>3. PICK frame :
         frame = [module |-> ElementOf(design, walk, Len(walk)).what,
                  pos |-> Len(ChainOf(design, ElementOf(design, walk, Len(walk)).what))]
  OBVIOUS
<1>4. /\ Append(walk, frame) \in Seq(Frames(design))
      /\ Reached(design, Append(walk, frame), found)
  BY <1>1, <1>2, <1>3, ReachedByEntering
<1>5. walk' = Append(walk, frame) /\ found' = found /\ design' = design
  BY <1>3, HereIs DEF EnterInstance
<1> QED
  BY <1>1, <1>4, <1>5, NextReached

\* An instance is left at its `in` port.
LEMMA LeaveWalk ==
    ASSUME WalkInv, LeaveInstance
    PROVE  WalkInv'
<1>1. WellFormed(design) /\ found \in Seq(Seq(Nat)) /\ Reached(design, walk, found)
  BY DesignAssumption DEF WalkInv, WalkTypeOK
<1>2. Len(walk) > 1 /\ walk[Len(walk)].pos = 0
  BY DEF LeaveInstance, Here, Last
<1>3. /\ StepBack(Front(walk)) \in Seq(Frames(design))
      /\ Reached(design, StepBack(Front(walk)), found)
  BY <1>1, <1>2, ReachedByLeaving
<1>4. walk' = StepBack(Front(walk)) /\ found' = found /\ design' = design
  BY DEF LeaveInstance
<1> QED
  BY <1>1, <1>3, <1>4, NextReached

\* The walk ends at the constant zero.
LEMMA ZeroWalk ==
    ASSUME WalkInv, ReachZero
    PROVE  WalkInv'
<1>1. WellFormed(design) /\ found \in Seq(Seq(Nat)) /\ Reached(design, walk, found)
  BY DesignAssumption DEF WalkInv, WalkTypeOK
<1>2. Len(walk) = 1 /\ walk[1].pos = 0 /\ walk /= <<>>
  <2>1. Len(<<>>) /= 1
    OBVIOUS
  <2> QED
    BY <2>1 DEF ReachZero, Here, Last
<1>3. Reached(design, <<>>, found)
  BY <1>1, <1>2, ReachedZero
<1>4. walk' = <<>> /\ found' = found /\ design' = design
  BY DEF ReachZero
<1>5. <<>> \in Seq(Frames(design))
  OBVIOUS
<1> QED
  BY <1>1, <1>3, <1>4, <1>5, NextReached

\* WalkInv holds wherever the walk has come to: what it has met and what is
\* still to come are the announced list.
THEOREM WalkInvHolds == WalkSpec => []WalkInv
<1>1. WalkInit => WalkInv
  BY InitWalk
<1>2. WalkInv /\ [WalkNext]_walkVars => WalkInv'
  <2> SUFFICES ASSUME WalkInv, [WalkNext]_walkVars PROVE WalkInv'
    OBVIOUS
  <2>1. CASE PassRegister
    BY <2>1, PassWalk
  <2>2. CASE EnterInstance
    BY <2>2, EnterWalk
  <2>3. CASE LeaveInstance
    BY <2>3, LeaveWalk
  <2>4. CASE ReachZero
    BY <2>4, ZeroWalk
  <2>5. CASE UNCHANGED walkVars
    <3>1. /\ walk \in Seq(Frames(design)) /\ found \in Seq(Seq(Nat))
          /\ Reached(design, walk, found)
      BY DEF WalkInv, WalkTypeOK, Frames
    <3>2. walk' = walk /\ found' = found /\ design' = design
      BY <2>5 DEF walkVars
    <3> QED
      BY <3>1, <3>2, NextReached
  <2> QED
    BY <2>1, <2>2, <2>3, <2>4, <2>5 DEF WalkNext
<1> QED
  BY <1>1, <1>2, PTL DEF WalkSpec

\* The end of a list is the beginning of the list turned around.
LEMMA EndIsPrefix ==
    ASSUME NEW S, NEW a \in Seq(S), NEW r \in Seq(S), NEW list,
           list = a \o Reverse(r)
    PROVE  IsPrefix(r, Reverse(list))
<1>1. PICK n \in Nat, k \in Nat : n = Len(r) /\ k = Len(a)
  OBVIOUS
<1>2. PICK b \in Seq(S) : b = Reverse(r)
  BY Turned
<1>3. Len(b) = n /\ \A i \in 1 .. n : b[i] = r[n - i + 1]
  <2>1. /\ Len(Reverse(r)) = Len(r)
        /\ \A i \in 1 .. Len(r) : Reverse(r)[i] = r[Len(r) - i + 1]
    BY Turned
  <2> QED
    BY <1>1, <1>2, <2>1
<1>4. list = a \o b
  BY <1>2
<1>5. /\ list \in Seq(S) /\ Len(list) = k + n
      /\ \A i \in 1 .. n : list[k + i] = b[i]
  <2>1. a \o b \in Seq(S) /\ Len(a \o b) = k + n
    BY <1>1, <1>3, ConcatProperties
  <2>2. \A i \in 1 .. n : (a \o b)[k + i] = b[i]
    BY <1>1, <1>3
  <2> QED
    BY <1>4, <2>1, <2>2
<1>6. PICK c \in Seq(S) : c = Reverse(list)
  BY <1>5, Turned
<1>7. Len(c) = k + n /\ \A i \in 1 .. k + n : c[i] = list[k + n - i + 1]
  <2>1. /\ Len(Reverse(list)) = Len(list)
        /\ \A i \in 1 .. Len(list) : Reverse(list)[i] = list[Len(list) - i + 1]
    BY <1>5, Turned
  <2>2. Len(list) = k + n
    BY <1>5
  <2> QED
    BY <1>6, <2>1, <2>2
<1>8. ASSUME NEW i \in 1 .. n PROVE c[i] = r[i]
  <2>1. PICK j \in 1 .. n : j = n - i + 1
    OBVIOUS
  <2>2. n - j + 1 = i /\ k + n - i + 1 = k + j /\ i \in 1 .. k + n
    BY <2>1
  <2> QED
    BY <1>3, <1>5, <1>7, <2>2
<1>9. SubSeq(r, 1, n) = SubSeq(c, 1, n)
  <2>1. /\ SubSeq(r, 1, n) \in Seq(S) /\ Len(SubSeq(r, 1, n)) = n
        /\ \A i \in 1 .. n : SubSeq(r, 1, n)[i] = r[i]
    BY <1>1
  <2>2. /\ SubSeq(c, 1, n) \in Seq(S) /\ Len(SubSeq(c, 1, n)) = n
        /\ \A i \in 1 .. n : SubSeq(c, 1, n)[i] = c[i]
    BY <1>7
  <2> QED
    BY <1>8, <2>1, <2>2, SeqEqual
<1> QED
  BY <1>1, <1>6, <1>7, <1>9 DEF IsPrefix

\* Of what is announced, the part that was met is the end.
LEMMA AnnouncedIs ==
    ASSUME WalkInv
    PROVE  \E come \in Seq(Seq(Nat)) : /\ GetCovers = come \o Reverse(found)
                                       /\ walk = <<>> => come = <<>>
<1>1. PICK d \in Designs : d = design /\ WellFormed(d)
  BY DesignAssumption DEF WalkInv, WalkTypeOK
<1>2. GetCovers = List(d)[<<Main, <<>>>>]
  BY <1>1, GetCoversIs
<1>3. Reached(d, walk, found) /\ found \in Seq(Seq(Nat))
  BY <1>1 DEF WalkInv, WalkTypeOK
<1>4. CASE walk = <<>>
  <2>1. GetCovers = Reverse(found)
    <3>1. \A acc : ~ Follows(d, walk, acc)
      BY <1>4 DEF Follows
    <3> QED
      BY <1>2, <1>3, <3>1 DEF Reached
  <2>2. PICK back \in Seq(Seq(Nat)) : back = Reverse(found)
    BY <1>3, Turned
  <2>3. <<>> \o back = back /\ <<>> \in Seq(Seq(Nat))
    OBVIOUS
  <2> QED
    BY <2>1, <2>2, <2>3
<1>5. CASE walk /= <<>>
  <2>1. PICK acc : /\ Follows(d, walk, acc)
                   /\ List(d)[<<Main, <<>>>>] = ToCome(d, walk, acc) \o Reverse(found)
    BY <1>3, <1>5 DEF Reached
  <2>2. ToCome(d, walk, acc) \in Seq(Seq(Nat))
    BY <1>1, <2>1, ToComeTyped
  <2> QED
    BY <1>2, <1>5, <2>1, <2>2
<1> QED
  BY <1>4, <1>5

\* OrderMatches: wherever the walk is in the circuit, the registers that it has
\* met are the end of the announced list, in the opposite order.
THEOREM OrdersMatch == WalkSpec => []OrderMatches
<1>1. WalkInv => OrderMatches
  <2> SUFFICES ASSUME WalkInv PROVE OrderMatches
    OBVIOUS
  <2>1. found \in Seq(Seq(Nat)) /\ WalkTypeOK
    BY DEF WalkInv, WalkTypeOK
  <2>2. PICK come \in Seq(Seq(Nat)) : GetCovers = come \o Reverse(found)
    BY AnnouncedIs
  <2>3. IsPrefix(found, Reverse(GetCovers))
    <3>1. PICK S : S = Seq(Nat)
      OBVIOUS
    <3>2. come \in Seq(S) /\ found \in Seq(S)
      BY <2>1, <3>1
    <3> QED
      BY <2>2, <3>2, EndIsPrefix
  <2> QED
    BY <2>1, <2>3 DEF OrderMatches
<1> QED
  BY <1>1, WalkInvHolds, PTL

\* ChainComplete: at the constant zero the walk has met the register of every
\* announced cover point.
THEOREM ChainsComplete == WalkSpec => []ChainComplete
<1>1. WalkInv => ChainComplete
  <2> SUFFICES ASSUME WalkInv, walk = <<>> PROVE Len(found) = Len(GetCovers)
    BY DEF ChainComplete
  <2>1. found \in Seq(Seq(Nat))
    BY DEF WalkInv, WalkTypeOK
  <2>2. GetCovers = <<>> \o Reverse(found)
    BY AnnouncedIs
  <2>3. PICK back \in Seq(Seq(Nat)) : back = Reverse(found) /\ Len(back) = Len(found)
    BY <2>1, Turned
  <2>4. <<>> \o back = back
    OBVIOUS
  <2> QED
    BY <2>2, <2>3, <2>4
<1> QED
  BY <1>1, WalkInvHolds, PTL
==============================================================================
