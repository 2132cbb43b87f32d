--------------------------- MODULE ForkServerProofs ---------------------------
(***************************************************************************)
(* Proofs about ForkServer for every map size, pipe capacity, length of    *)
(* the coverage and number of inputs.  IInv is the inductive invariant: it *)
(* says how far AFL, the proxy and the JVM may be apart, and what is in    *)
(* the pipes between them at every place of their protocol.                *)
(***************************************************************************)
EXTENDS ForkServer, SequenceTheorems, TLAPS

Hello == Cell("hello", 0)
Pid == Cell("pid", 0)
Done == Cell("status", 0)
Helo == Cell("helo", 0)

\* The n-th cell of the result of input i.
ResultCell(i, n) ==
    IF n = 1 THEN Cell("status", 0)
    ELSE IF n = 2 THEN Cell("size", covers + 1)
    ELSE IF n = 3 THEN Cell("byte", 1)
    ELSE Cell("byte", i + 1)

\* How many cells of the result the proxy has read.
Consumed == IF proxy = "status" THEN 0 ELSE IF proxy = "size" THEN 1 ELSE 2 + got

\* The cells in the FIFO, and then those that were not written yet, are the
\* rest of the result of the input that AFL has submitted.
InStep ==
    /\ Fits
    /\ Consumed + Len(j2a) + Len(toSend) = covers + 3
    /\ \A k \in 1 .. Len(j2a) : j2a[k] = ResultCell(input, Consumed + k)
    /\ \A k \in 1 .. Len(toSend) :
           toSend[k] = ResultCell(input, Consumed + Len(j2a) + k)

\* The JVM has nothing to do and nothing is on its way to it.
Quiet == jvm \notin {"run", "send"} /\ a2j = <<>>

\* The run of the input is over and AFL has not read its status.
Answered ==
    /\ trace = Server!Trace(input)
    /\ Quiet
    /\ proxy = "wait" \/ (proxy = "gone" /\ stopSoon)

\* What AFL has not read of the pipe, and how far the proxy has come.
AflInStep ==
    /\ afl = "init" =>
           /\ input = 0 /\ ctl = <<>> /\ Quiet
           /\ \/ st = <<>> /\ proxy \in {"open_a2j", "open_j2a", "hello", "gone"}
              \/ st = <<Hello>> /\ proxy \in {"wait", "gone"}
    /\ afl = "idle" =>
           /\ st = <<>> /\ ctl = <<>> /\ Quiet
           /\ proxy = "wait" \/ (proxy = "gone" /\ (stopSoon \/ input = 0))
    /\ afl = "get_pid" =>
           \/ st = <<>> /\ proxy \in {"wait", "pid"} /\ (proxy = "pid" <=> ctl = <<>>)
           \/ st = <<>> /\ proxy = "gone"
           \/ st = <<Pid>> /\ ctl = <<>>
                  /\ proxy \in {"helo", "status", "size", "bits", "gone"}
           \/ st = <<Pid, Done>> /\ ctl = <<>> /\ Answered
    /\ afl = "get_status" =>
           /\ ctl = <<>>
           /\ \/ st = <<>> /\ proxy \in {"helo", "status", "size", "bits", "gone"}
              \/ st = <<Done>> /\ Answered
    /\ afl \in {"get_pid", "get_status"} /\ proxy = "gone" =>
           stopSoon \/ jvm = "crashed"

\* What AFL knows of the input, and why it has ended.
OutcomeRight ==
    /\ outcome = NoOutcome
           \/ outcome = [trace |-> Server!Trace(input), fault |-> "none"]
    /\ input = 0 => outcome = NoOutcome
    /\ afl = "idle" /\ input > 0 => outcome /= NoOutcome
    /\ afl \in {"get_pid", "get_status"} => input > 0 /\ outcome = NoOutcome
    /\ afl = "fatal" => /\ proxy = "gone"
                        /\ jvm = "crashed" \/ (input <= 1 /\ outcome = NoOutcome)

\* What the proxy knows; a proxy without AFL does not go back to its loop.
ProxyInStep ==
    /\ runOnce => ~AflRunning
    /\ Len(ctl) <= 1
    /\ ctl /= <<>> => proxy \in {"wait", "gone"}
    /\ ctl /= <<>> \/ proxy \in {"open_a2j", "open_j2a", "hello", "pid", "helo",
                                 "status", "size"} =>
           proxy = "gone" \/ trace = NoTrace
    /\ proxy \in {"size", "bits"} => status = 0
    /\ proxy = "bits" =>
           /\ want = covers + 1
           /\ trace = [k \in 1 .. MapSize |->
                          IF k <= got THEN Server!Trace(input)[k] ELSE 0]

\* What the JVM is doing, and what is between the JVM and a running proxy.
JvmInStep ==
    /\ jvm \in {"end", "finished"} => proxy = "gone"
    /\ proxy \in {"open_a2j", "open_j2a"} => jvm = proxy
    /\ proxy \in {"hello", "wait", "pid", "helo"} => jvm \in {"wait", "crashed"}
    /\ proxy \in {"open_a2j", "open_j2a", "hello", "wait", "pid", "helo"} =>
           a2j = <<>> /\ j2a = <<>> /\ toSend = <<>>
    /\ proxy \in {"status", "size", "bits"} =>
           \/ /\ proxy = "status" /\ j2a = <<>> /\ toSend = <<>>
              /\ \/ jvm = "wait" /\ a2j = <<Helo>>
                 \/ jvm \in {"run", "crashed"} /\ a2j = <<>>
           \/ /\ a2j = <<>> /\ InStep
              /\ jvm = IF toSend = <<>> THEN "wait" ELSE "send"

IInv ==
    /\ TypeOK
    /\ AflInStep
    /\ OutcomeRight
    /\ ProxyInStep
    /\ JvmInStep

------------------------------------------------------------------------------
LEMMA AppendToOne ==
    ASSUME NEW x, NEW y
    PROVE  Append(<<x>>, y) = <<x, y>>
<1> DEFINE S == {x, y}
           a == Append(<<x>>, y)
<1>1. /\ <<x>> \in Seq(S) /\ <<x, y>> \in Seq(S) /\ y \in S
      /\ Len(<<x>>) = 1 /\ Len(<<x, y>>) = 2
      /\ <<x, y>>[1] = x /\ <<x, y>>[2] = y /\ <<x>>[1] = x
  OBVIOUS
<1>2. a \in Seq(S) /\ Len(a) = 2 /\ a[1] = x /\ a[2] = y
  BY <1>1, AppendProperties
<1> HIDE DEF a
<1>3. a = <<x, y>>
  BY <1>1, <1>2, SeqEqual
<1> QED
  BY <1>3 DEF a

LEMMA AppendCell ==
    ASSUME NEW roles, NEW s \in Cells(roles), NEW r \in roles, NEW v \in Nat
    PROVE  Append(s, Cell(r, v)) \in Cells(roles)
<1>1. Cell(r, v) \in [role : roles, val : Nat]
  BY DEF Cell
<1> QED
  BY <1>1, AppendProperties DEF Cells

LEMMA TailCells ==
    ASSUME NEW roles, NEW s \in Cells(roles), s /= <<>>
    PROVE  /\ Head(s) \in [role : roles, val : Nat]
           /\ Tail(s) \in Cells(roles)
           /\ Len(s) \in Nat \ {0} /\ Len(Tail(s)) = Len(s) - 1
           /\ Head(s) = s[1]
           /\ \A k \in 1 .. Len(s) - 1 : Tail(s)[k] = s[k + 1]
<1> DEFINE C == [role : roles, val : Nat]
<1>1. s \in Seq(C)
  BY DEF Cells
<1> HIDE DEF C
<1>2. /\ Len(s) \in Nat /\ Len(s) /= 0
      /\ Head(s) \in C
      /\ Tail(s) \in Seq(C)
      /\ Len(Tail(s)) = Len(s) - 1
      /\ \A k \in 1 .. Len(Tail(s)) : Tail(s)[k] = s[k + 1]
  BY <1>1, HeadTailProperties, EmptySeq, LenProperties
<1>3. Head(s) = s[1]
  BY <1>1
<1> QED
  BY <1>2, <1>3 DEF Cells, C

LEMMA NoCells == \A roles : <<>> \in Cells(roles)
BY DEF Cells

LEMMA AppendToNone == \A x : Append(<<>>, x) = <<x>>
OBVIOUS

LEMMA TailOfOne == \A x : Tail(<<x>>) = <<>> /\ Head(<<x>>) = x
OBVIOUS

LEMMA TailOfTwo == \A x, y : Tail(<<x, y>>) = <<y>> /\ Head(<<x, y>>) = x
OBVIOUS

\* What is left of every pipe, and of the result, once its first cell is taken.
LEMMA Taken ==
    ASSUME TypeOK
    PROVE  /\ st /= <<>> => Tail(st) \in Cells({"hello", "pid", "status"})
           /\ ctl /= <<>> => Tail(ctl) \in Cells({"run"})
           /\ a2j /= <<>> => Tail(a2j) \in Cells({"helo"})
           /\ j2a /= <<>> => Tail(j2a) \in Cells({"status", "size", "byte"})
           /\ j2a /= <<>> => Head(j2a).val \in Nat
           /\ toSend /= <<>> => Tail(toSend) \in Cells({"status", "size", "byte"})
<1>1. /\ st \in Cells({"hello", "pid", "status"})
      /\ ctl \in Cells({"run"})
      /\ a2j \in Cells({"helo"})
      /\ j2a \in Cells({"status", "size", "byte"})
      /\ toSend \in Cells({"status", "size", "byte"})
  BY DEF TypeOK
<1>2. st /= <<>> => Tail(st) \in Cells({"hello", "pid", "status"})
  BY <1>1, TailCells
<1>3. ctl /= <<>> => Tail(ctl) \in Cells({"run"})
  BY <1>1, TailCells
<1>4. a2j /= <<>> => Tail(a2j) \in Cells({"helo"})
  BY <1>1, TailCells
<1>5. j2a /= <<>> =>
          /\ Tail(j2a) \in Cells({"status", "size", "byte"})
          /\ Head(j2a) \in [role : {"status", "size", "byte"}, val : Nat]
  BY <1>1, TailCells
<1>6. toSend /= <<>> => Tail(toSend) \in Cells({"status", "size", "byte"})
  BY <1>1, TailCells
<1> QED
  BY <1>2, <1>3, <1>4, <1>5, <1>6

\* Every pipe after its writer has added a cell.
LEMMA Added ==
    ASSUME TypeOK
    PROVE  /\ Append(st, Hello) \in Cells({"hello", "pid", "status"})
           /\ Append(st, Pid) \in Cells({"hello", "pid", "status"})
           /\ Append(st, Cell("status", status)) \in Cells({"hello", "pid", "status"})
           /\ \A v \in Nat : Append(ctl, Cell("run", v)) \in Cells({"run"})
           /\ Append(a2j, Helo) \in Cells({"helo"})
           /\ toSend /= <<>> =>
                  Append(j2a, Head(toSend)) \in Cells({"status", "size", "byte"})
<1>1. /\ st \in Cells({"hello", "pid", "status"})
      /\ ctl \in Cells({"run"})
      /\ a2j \in Cells({"helo"})
      /\ j2a \in Cells({"status", "size", "byte"})
      /\ toSend \in Cells({"status", "size", "byte"})
      /\ status \in Nat
  BY DEF TypeOK
<1>2. Append(st, Hello) \in Cells({"hello", "pid", "status"})
  BY <1>1, AppendCell DEF Hello
<1>3. Append(st, Pid) \in Cells({"hello", "pid", "status"})
  BY <1>1, AppendCell DEF Pid
<1>4. Append(st, Cell("status", status)) \in Cells({"hello", "pid", "status"})
  BY <1>1, AppendCell
<1>5. ASSUME NEW v \in Nat PROVE Append(ctl, Cell("run", v)) \in Cells({"run"})
  BY <1>1, AppendCell
<1>6. Append(a2j, Helo) \in Cells({"helo"})
  BY <1>1, AppendCell DEF Helo
<1>7. ASSUME toSend /= <<>>
      PROVE  Append(j2a, Head(toSend)) \in Cells({"status", "size", "byte"})
  <2>1. Head(toSend) \in [role : {"status", "size", "byte"}, val : Nat]
    BY <1>1, <1>7, TailCells
  <2> QED
    BY <1>1, <2>1, AppendProperties DEF Cells
<1> QED
  BY <1>2, <1>3, <1>4, <1>5, <1>6, <1>7

\* When the proxy has all bytes it waits for, it has all of the result, and
\* the trace bits are those of the input.
LEMMA AllReceived ==
    ASSUME IInv, proxy = "bits", got = want
    PROVE  /\ j2a = <<>> /\ toSend = <<>> /\ a2j = <<>> /\ jvm = "wait"
           /\ trace = Server!Trace(input)
<1> USE ForkServerAssumption DEF IInv
<1>1. a2j = <<>> /\ InStep /\ jvm = IF toSend = <<>> THEN "wait" ELSE "send"
  BY DEF JvmInStep
<1>2. Len(j2a) \in Nat /\ Len(toSend) \in Nat /\ covers \in Nat /\ got \in Nat
  BY LenProperties DEF TypeOK, Cells
<1>3. got = covers + 1
  BY DEF ProxyInStep
<1>4. Len(j2a) = 0 /\ Len(toSend) = 0
  BY <1>1, <1>2, <1>3 DEF InStep, Consumed
<1>5. j2a = <<>> /\ toSend = <<>>
  BY <1>4, EmptySeq DEF TypeOK, Cells
<1>6. trace = Server!Trace(input)
  BY <1>2, <1>3 DEF ProxyInStep, Server!Trace
<1> QED
  BY <1>1, <1>5, <1>6

\* The next cell the proxy reads is the next one of the result, and taking it
\* leaves the rest of the result.
LEMMA NextCell ==
    ASSUME IInv, proxy \in {"status", "size", "bits"}, j2a /= <<>>
    PROVE  /\ InStep /\ a2j = <<>>
           /\ jvm = IF toSend = <<>> THEN "wait" ELSE "send"
           /\ Head(j2a) = ResultCell(input, Consumed + 1)
           /\ Consumed + 1 + Len(Tail(j2a)) + Len(toSend) = covers + 3
           /\ \A k \in 1 .. Len(Tail(j2a)) :
                  Tail(j2a)[k] = ResultCell(input, Consumed + 1 + k)
           /\ \A k \in 1 .. Len(toSend) :
                  toSend[k] = ResultCell(input, Consumed + 1 + Len(Tail(j2a)) + k)
<1>1. InStep /\ a2j = <<>> /\ jvm = IF toSend = <<>> THEN "wait" ELSE "send"
  BY DEF IInv, JvmInStep
<1>2. /\ j2a \in Cells({"status", "size", "byte"})
      /\ toSend \in Cells({"status", "size", "byte"})
      /\ got \in Nat /\ Consumed \in Nat
  BY ForkServerAssumption DEF IInv, TypeOK, Consumed
<1>3. /\ Len(j2a) \in Nat \ {0} /\ Len(Tail(j2a)) = Len(j2a) - 1
      /\ Head(j2a) = j2a[1]
      /\ \A k \in 1 .. Len(j2a) - 1 : Tail(j2a)[k] = j2a[k + 1]
  BY <1>2, TailCells
<1>4. Len(toSend) \in Nat
  BY <1>2 DEF Cells
<1>5. /\ Consumed + Len(j2a) + Len(toSend) = covers + 3
      /\ \A k \in 1 .. Len(j2a) : j2a[k] = ResultCell(input, Consumed + k)
      /\ \A k \in 1 .. Len(toSend) :
             toSend[k] = ResultCell(input, Consumed + Len(j2a) + k)
  BY <1>1 DEF InStep
<1> HIDE DEF Consumed
<1>6. Head(j2a) = ResultCell(input, Consumed + 1)
  BY <1>3, <1>5
<1>7. Consumed + 1 + Len(Tail(j2a)) + Len(toSend) = covers + 3
  BY <1>2, <1>3, <1>4, <1>5
<1>8. ASSUME NEW k \in 1 .. Len(Tail(j2a))
      PROVE  Tail(j2a)[k] = ResultCell(input, Consumed + 1 + k)
  <2>1. k + 1 \in 1 .. Len(j2a) /\ k \in 1 .. Len(j2a) - 1
    BY <1>3
  <2>2. Consumed + (k + 1) = Consumed + 1 + k
    BY <1>2
  <2> QED
    BY <1>3, <1>5, <2>1, <2>2
<1>9. ASSUME NEW k \in 1 .. Len(toSend)
      PROVE  toSend[k] = ResultCell(input, Consumed + 1 + Len(Tail(j2a)) + k)
  <2>1. Consumed + Len(j2a) + k = Consumed + 1 + Len(Tail(j2a)) + k
    BY <1>2, <1>3, <1>4
  <2> QED
    BY <1>5, <2>1
<1> QED
  BY <1>1, <1>6, <1>7, <1>8, <1>9

\* The result has the cells the proxy expects, in the order it expects them.
LEMMA ResultCells ==
    ASSUME NEW i \in Nat, covers \in Nat
    PROVE  /\ Result(i) \in Cells({"status", "size", "byte"})
           /\ Len(Result(i)) = covers + 3
           /\ \A n \in 1 .. covers + 3 : Result(i)[n] = ResultCell(i, n)
<1> DEFINE C == [role : {"status", "size", "byte"}, val : Nat]
           first == <<Cell("status", 0), Cell("size", covers + 1), Cell("byte", 1)>>
           last == [k \in 1 .. covers |-> Cell("byte", i + 1)]
<1>1. /\ Cell("status", 0) \in C /\ Cell("size", covers + 1) \in C
      /\ Cell("byte", 1) \in C /\ Cell("byte", i + 1) \in C
  BY DEF Cell
<1> HIDE DEF C
<1>2. /\ first \in Seq(C) /\ Len(first) = 3
      /\ first[1] = Cell("status", 0) /\ first[2] = Cell("size", covers + 1)
      /\ first[3] = Cell("byte", 1)
  BY <1>1
<1>3. last \in Seq(C) /\ Len(last) = covers
  BY <1>1
<1>4. Result(i) = first \o last
  BY DEF Result
<1> HIDE DEF first, last
<1>5. /\ first \o last \in Seq(C)
      /\ Len(first \o last) = covers + 3
      /\ \A n \in 1 .. covers + 3 :
             (first \o last)[n] = IF n <= 3 THEN first[n] ELSE last[n - 3]
  <2>1. /\ first \o last \in Seq(C)
        /\ Len(first \o last) = Len(first) + Len(last)
        /\ \A n \in 1 .. Len(first) + Len(last) :
               (first \o last)[n] = IF n <= Len(first) THEN first[n]
                                   ELSE last[n - Len(first)]
    BY <1>2, <1>3, ConcatProperties
  <2> QED
    BY <1>2, <1>3, <2>1
<1>6. ASSUME NEW n \in 1 .. covers + 3 PROVE Result(i)[n] = ResultCell(i, n)
  <2>1. CASE n <= 3
    BY <1>2, <1>4, <1>5, <2>1, SMTT(30) DEF ResultCell
  <2>2. CASE n > 3
    BY <1>4, <1>5, <2>2 DEF ResultCell, last
  <2> QED
    BY <2>1, <2>2
<1> QED
  BY <1>4, <1>5, <1>6 DEF Cells, C

LEMMA InitIInv == Init => IInv
<1> SUFFICES ASSUME Init PROVE IInv
  OBVIOUS
<1> USE ForkServerAssumption
<1>1. TypeOK
  <2>1. stopSoon \in BOOLEAN /\ timedOut \in BOOLEAN /\ runOnce \in BOOLEAN
    BY DEF Init
  <2>2. /\ toSend \in Cells({"status", "size", "byte"})
        /\ ctl \in Cells({"run"}) /\ a2j \in Cells({"helo"})
        /\ st \in Cells({"hello", "pid", "status"})
        /\ j2a \in Cells({"status", "size", "byte"})
    BY NoCells DEF Init
  <2>3. trace \in [1 .. MapSize -> Nat]
    BY DEF Init, NoTrace
  <2> QED
    BY <2>1, <2>2, <2>3 DEF Init, TypeOK
<1>2. AflInStep
  BY DEF Init, AflInStep, Quiet
<1>3. OutcomeRight
  BY DEF Init, OutcomeRight
<1>4. ProxyInStep
  BY DEF Init, ProxyInStep
<1>5. JvmInStep
  BY DEF Init, JvmInStep
<1> QED
  BY <1>1, <1>2, <1>3, <1>4, <1>5 DEF IInv

LEMMA OpenA2JIInv == IInv /\ OpenA2J => IInv'
<1> SUFFICES ASSUME IInv, OpenA2J PROVE IInv'
  OBVIOUS
<1> USE DEF OpenA2J, IInv, aflVars, pipes, AflRunning
<1>1. TypeOK'
  <2>1. /\ ctl' \in Cells({"run"}) /\ a2j' \in Cells({"helo"})
        /\ st' \in Cells({"hello", "pid", "status"})
        /\ j2a' \in Cells({"status", "size", "byte"})
    BY Taken, Added DEF TypeOK
  <2>2. stopSoon' \in BOOLEAN /\ timedOut' \in BOOLEAN /\ runOnce' \in BOOLEAN
    BY Zenon DEF TypeOK
  <2> QED
    BY <2>1, <2>2 DEF TypeOK, NoTrace
<1>2. AflInStep'
  BY DEF AflInStep, Quiet, Answered
<1>3. OutcomeRight'
  BY DEF OutcomeRight, Server!Trace
<1>4. ProxyInStep'
  BY DEF ProxyInStep
<1>5. JvmInStep'
  BY DEF JvmInStep
<1> QED
  BY <1>1, <1>2, <1>3, <1>4, <1>5

LEMMA OpenJ2AIInv == IInv /\ OpenJ2A => IInv'
<1> SUFFICES ASSUME IInv, OpenJ2A PROVE IInv'
  OBVIOUS
<1> USE DEF OpenJ2A, IInv, aflVars, pipes, AflRunning
<1>1. TypeOK'
  <2>1. /\ ctl' \in Cells({"run"}) /\ a2j' \in Cells({"helo"})
        /\ st' \in Cells({"hello", "pid", "status"})
        /\ j2a' \in Cells({"status", "size", "byte"})
    BY Taken, Added DEF TypeOK
  <2>2. stopSoon' \in BOOLEAN /\ timedOut' \in BOOLEAN /\ runOnce' \in BOOLEAN
    BY Zenon DEF TypeOK
  <2> QED
    BY <2>1, <2>2 DEF TypeOK, NoTrace
<1>2. AflInStep'
  BY DEF AflInStep, Quiet, Answered
<1>3. OutcomeRight'
  BY DEF OutcomeRight, Server!Trace
<1>4. ProxyInStep'
  BY DEF ProxyInStep
<1>5. JvmInStep'
  BY DEF JvmInStep
<1> QED
  BY <1>1, <1>2, <1>3, <1>4, <1>5

LEMMA AflInitIInv == IInv /\ AflInit => IInv'
<1> SUFFICES ASSUME IInv, AflInit PROVE IInv'
  OBVIOUS
<1> USE DEF AflInit, IInv, proxyVars, jvmVars, AflRunning, ProxyRunning,
           StatusPipeClosed
<1>1. TypeOK'
  <2>1. st' \in Cells({"hello", "pid", "status"})
    BY Taken DEF TypeOK
  <2> QED
    BY <2>1 DEF TypeOK
<1>2. AflInStep'
  BY TailOfTwo DEF TypeOK, AflInStep, Quiet
<1>3. OutcomeRight'
  BY DEF AflInStep, OutcomeRight
<1>4. ProxyInStep'
  BY DEF ProxyInStep, Server!Trace
<1>5. JvmInStep'
  BY DEF AflInStep, JvmInStep
<1> QED
  BY <1>1, <1>2, <1>3, <1>4, <1>5

LEMMA AflInitTimeoutIInv == IInv /\ AflInitTimeout => IInv'
<1> SUFFICES ASSUME IInv, AflInitTimeout PROVE IInv'
  OBVIOUS
<1> USE DEF AflInitTimeout, IInv, jvmVars, pipes, AflRunning
<1>1. TypeOK'
  <2>1. /\ ctl' \in Cells({"run"}) /\ a2j' \in Cells({"helo"})
        /\ st' \in Cells({"hello", "pid", "status"})
        /\ j2a' \in Cells({"status", "size", "byte"})
    BY Taken, Added DEF TypeOK
  <2>2. stopSoon' \in BOOLEAN /\ timedOut' \in BOOLEAN /\ runOnce' \in BOOLEAN
    BY Zenon DEF TypeOK
  <2> QED
    BY <2>1, <2>2 DEF TypeOK, NoTrace
<1>2. AflInStep'
  BY DEF AflInStep, Quiet
<1>3. OutcomeRight'
  BY DEF AflInStep, OutcomeRight
<1>4. ProxyInStep'
  BY DEF ProxyInStep
<1>5. JvmInStep'
  BY DEF JvmInStep
<1> QED
  BY <1>1, <1>2, <1>3, <1>4, <1>5

LEMMA AflStartRunIInv == IInv /\ AflStartRun => IInv'
<1> SUFFICES ASSUME IInv, AflStartRun PROVE IInv'
  OBVIOUS
<1> USE ForkServerAssumption
       DEF AflStartRun, IInv, proxyVars, jvmVars, AflRunning, ProxyRunning
<1>1. TypeOK'
  <2>1. ctl' \in Cells({"run"})
    BY Added DEF TypeOK
  <2>2. timedOut' \in BOOLEAN
    OBVIOUS
  <2>3. trace' \in [1 .. MapSize -> Nat]
    BY DEF NoTrace
  <2> QED
    BY <2>1, <2>2, <2>3 DEF TypeOK
<1>2. AflInStep'
  BY DEF AflInStep
<1>3. OutcomeRight'
  BY DEF TypeOK, AflInStep, OutcomeRight
<1>4. ProxyInStep'
  <2>1. ctl = <<>> /\ proxy \in {"wait", "gone"} /\ ~runOnce
    BY DEF AflInStep, ProxyInStep
  <2>2. Len(ctl') <= 1 /\ (ctl' /= <<>> => proxy = "wait")
    <3>1. CASE ctl' = ctl
      BY <2>1, <3>1
    <3>2. CASE proxy /= "gone" /\ ctl' = Append(ctl, Cell("run", IF timedOut THEN 1 ELSE 0))
      <4>1. ctl' = <<Cell("run", IF timedOut THEN 1 ELSE 0)>>
        BY <2>1, <3>2, AppendToNone
      <4> QED
        BY <2>1, <3>2, <4>1
    <3> QED
      BY <3>1, <3>2
  <2>3. trace' = NoTrace'
    BY DEF NoTrace
  <2> QED
    BY <2>1, <2>2, <2>3 DEF ProxyInStep
<1>5. JvmInStep'
  BY DEF AflInStep, JvmInStep
<1> QED
  BY <1>1, <1>2, <1>3, <1>4, <1>5

LEMMA AflGetPidIInv == IInv /\ AflGetPid => IInv'
<1> SUFFICES ASSUME IInv, AflGetPid PROVE IInv'
  OBVIOUS
<1> USE DEF AflGetPid, IInv, proxyVars, jvmVars, AflRunning, ProxyRunning,
           StatusPipeClosed
<1>1. TypeOK'
  <2>1. st' \in Cells({"hello", "pid", "status"})
    BY Taken DEF TypeOK
  <2> QED
    BY <2>1 DEF TypeOK
<1>2. AflInStep'
  <2>1. CASE st = <<>> /\ UNCHANGED st
    BY <2>1 DEF AflInStep
  <2>2. CASE st /= <<>> /\ st' = Tail(st) /\ afl' = "get_status"
    <3>1. \/ st = <<Pid>> /\ proxy \in {"helo", "status", "size", "bits", "gone"}
          \/ st = <<Pid, Done>> /\ Answered
      BY <2>2 DEF AflInStep
    <3>2. ctl = <<>> /\ (proxy = "gone" => stopSoon \/ jvm = "crashed")
      BY <2>2 DEF AflInStep
    <3>3. CASE st = <<Pid>>
      <4>1. st' = <<>>
        BY <2>2, <3>3, TailOfOne
      <4> QED
        BY <3>3 DEF AflInStep
    <3>4. CASE st = <<Pid, Done>> /\ Answered
      <4>1. st' = <<Done>>
        BY <2>2, <3>4, TailOfTwo
      <4>2. Answered'
        BY <3>4 DEF Answered, Quiet, Server!Trace
      <4> QED
        BY <4>1, <4>2 DEF AflInStep
    <3> QED
      BY <3>1, <3>3, <3>4
  <2> QED
    BY <2>1, <2>2 DEF AflInStep
<1>3. OutcomeRight'
  BY DEF AflInStep, OutcomeRight
<1>4. ProxyInStep'
  BY DEF ProxyInStep, Server!Trace
<1>5. JvmInStep'
  BY DEF JvmInStep, InStep, ResultCell, Consumed, Fits
<1> QED
  BY <1>1, <1>2, <1>3, <1>4, <1>5

LEMMA AflTimeoutIInv == IInv /\ AflTimeout => IInv'
<1> SUFFICES ASSUME IInv, AflTimeout PROVE IInv'
  OBVIOUS
<1> USE ForkServerAssumption
       DEF AflTimeout, IInv, aflVars, proxyVars, jvmVars, pipes,
           AflRunning, ProxyRunning, JvmRunning, StatusPipeClosed, Hello, Pid, Done, Helo
<1>1. TypeOK'
  <2>1. /\ ctl' \in Cells({"run"}) /\ a2j' \in Cells({"helo"})
        /\ st' \in Cells({"hello", "pid", "status"})
        /\ j2a' \in Cells({"status", "size", "byte"})
    BY Taken, Added DEF TypeOK
  <2>2. stopSoon' \in BOOLEAN /\ timedOut' \in BOOLEAN /\ runOnce' \in BOOLEAN
    BY Zenon DEF TypeOK
  <2> QED
    BY <2>1, <2>2 DEF TypeOK, NoTrace
<1>2. AflInStep'
  BY DEF AflInStep, Quiet, Answered, Server!Trace
<1>3. OutcomeRight'
  BY DEF OutcomeRight
<1>4. ProxyInStep'
  BY DEF ProxyInStep, Server!Trace
<1>5. JvmInStep'
  BY DEF JvmInStep, InStep, ResultCell, Consumed, Fits
<1> QED
  BY <1>1, <1>2, <1>3, <1>4, <1>5

LEMMA AflGetStatusIInv == IInv /\ AflGetStatus => IInv'
<1> SUFFICES ASSUME IInv, AflGetStatus PROVE IInv'
  OBVIOUS
<1> USE ForkServerAssumption
       DEF AflGetStatus, IInv, proxyVars, jvmVars, AflRunning, ProxyRunning,
           StatusPipeClosed, Done
<1>1. TypeOK'
  <2>1. st' \in Cells({"hello", "pid", "status"})
    BY Taken DEF TypeOK
  <2> QED
    BY <2>1, SMTT(30) DEF TypeOK
<1>2. AflInStep'
  BY TailOfOne DEF AflInStep, Quiet, Answered
<1>3. OutcomeRight'
  BY DEF TypeOK, AflInStep, OutcomeRight, Answered, Server!Trace, Fault, Cell
<1>4. ProxyInStep'
  BY DEF ProxyInStep, Server!Trace
<1>5. JvmInStep'
  BY DEF JvmInStep, InStep, ResultCell, Consumed, Fits
<1> QED
  BY <1>1, <1>2, <1>3, <1>4, <1>5

LEMMA AflStopIInv == IInv /\ AflStop => IInv'
<1> SUFFICES ASSUME IInv, AflStop PROVE IInv'
  OBVIOUS
<1> USE DEF AflStop, IInv, jvmVars, pipes
<1>1. TypeOK'
  <2>1. /\ ctl' \in Cells({"run"}) /\ a2j' \in Cells({"helo"})
        /\ st' \in Cells({"hello", "pid", "status"})
        /\ j2a' \in Cells({"status", "size", "byte"})
    BY Taken, Added DEF TypeOK
  <2>2. stopSoon' \in BOOLEAN /\ timedOut' \in BOOLEAN /\ runOnce' \in BOOLEAN
    BY Zenon DEF TypeOK
  <2> QED
    BY <2>1, <2>2 DEF TypeOK, NoTrace
<1>2. AflInStep'
  BY DEF AflInStep, Quiet, Answered, Server!Trace
<1>3. OutcomeRight'
  BY DEF OutcomeRight, Server!Trace
<1>4. ProxyInStep'
  BY DEF ProxyInStep
<1>5. JvmInStep'
  BY DEF JvmInStep
<1> QED
  BY <1>1, <1>2, <1>3, <1>4, <1>5

LEMMA AflQuitIInv == IInv /\ AflQuit => IInv'
<1> SUFFICES ASSUME IInv, AflQuit PROVE IInv'
  OBVIOUS
<1> USE ForkServerAssumption
       DEF AflQuit, IInv, aflVars, proxyVars, jvmVars, pipes,
           AflRunning, ProxyRunning, JvmRunning, StatusPipeClosed, Hello, Pid, Done, Helo
<1>1. TypeOK'
  <2>1. /\ ctl' \in Cells({"run"}) /\ a2j' \in Cells({"helo"})
        /\ st' \in Cells({"hello", "pid", "status"})
        /\ j2a' \in Cells({"status", "size", "byte"})
    BY Taken, Added DEF TypeOK
  <2>2. stopSoon' \in BOOLEAN /\ timedOut' \in BOOLEAN /\ runOnce' \in BOOLEAN
    BY Zenon DEF TypeOK
  <2> QED
    BY <2>1, <2>2 DEF TypeOK, NoTrace
<1>2. AflInStep'
  BY DEF AflInStep
<1>3. OutcomeRight'
  BY DEF OutcomeRight, Server!Trace
<1>4. ProxyInStep'
  BY DEF ProxyInStep, Server!Trace
<1>5. JvmInStep'
  BY DEF AflInStep, JvmInStep
<1> QED
  BY <1>1, <1>2, <1>3, <1>4, <1>5

LEMMA AflDiesIInv == IInv /\ AflDies => IInv'
<1> SUFFICES ASSUME IInv, AflDies PROVE IInv'
  OBVIOUS
<1> USE ForkServerAssumption
       DEF AflDies, IInv, aflVars, proxyVars, jvmVars, pipes,
           AflRunning, ProxyRunning, JvmRunning, StatusPipeClosed, Hello, Pid, Done, Helo
<1>1. TypeOK'
  <2>1. /\ ctl' \in Cells({"run"}) /\ a2j' \in Cells({"helo"})
        /\ st' \in Cells({"hello", "pid", "status"})
        /\ j2a' \in Cells({"status", "size", "byte"})
    BY Taken, Added DEF TypeOK
  <2>2. stopSoon' \in BOOLEAN /\ timedOut' \in BOOLEAN /\ runOnce' \in BOOLEAN
    BY Zenon DEF TypeOK
  <2> QED
    BY <2>1, <2>2 DEF TypeOK, NoTrace
<1>2. AflInStep'
  BY DEF AflInStep
<1>3. OutcomeRight'
  BY DEF OutcomeRight, Server!Trace
<1>4. ProxyInStep'
  BY DEF ProxyInStep, Server!Trace
<1>5. JvmInStep'
  BY DEF JvmInStep, InStep, ResultCell, Consumed, Fits
<1> QED
  BY <1>1, <1>2, <1>3, <1>4, <1>5

LEMMA ProxyHelloIInv == IInv /\ ProxyHello => IInv'
<1> SUFFICES ASSUME IInv, ProxyHello PROVE IInv'
  OBVIOUS
<1> USE ForkServerAssumption
       DEF ProxyHello, IInv, aflVars, proxyVars, jvmVars, pipes,
           AflRunning, ProxyRunning, JvmRunning, StatusPipeClosed, Hello, Pid, Done, Helo
<1>1. TypeOK'
  <2>1. /\ ctl' \in Cells({"run"}) /\ a2j' \in Cells({"helo"})
        /\ st' \in Cells({"hello", "pid", "status"})
        /\ j2a' \in Cells({"status", "size", "byte"})
    BY Taken, Added DEF TypeOK
  <2>2. stopSoon' \in BOOLEAN /\ timedOut' \in BOOLEAN /\ runOnce' \in BOOLEAN
    BY Zenon DEF TypeOK
  <2> QED
    BY <2>1, <2>2 DEF TypeOK, NoTrace
<1>2. AflInStep'
  BY AppendToNone DEF AflInStep, Quiet, Answered
<1>3. OutcomeRight'
  BY DEF OutcomeRight, Server!Trace
<1>4. ProxyInStep'
  BY DEF ProxyInStep
<1>5. JvmInStep'
  BY DEF JvmInStep
<1> QED
  BY <1>1, <1>2, <1>3, <1>4, <1>5

LEMMA ProxyWaitIInv == IInv /\ ProxyWait => IInv'
<1> SUFFICES ASSUME IInv, ProxyWait PROVE IInv'
  OBVIOUS
<1> USE ForkServerAssumption
       DEF ProxyWait, IInv, aflVars, proxyVars, jvmVars, pipes,
           AflRunning, ProxyRunning, JvmRunning, StatusPipeClosed, Hello, Pid, Done, Helo
<1>1. TypeOK'
  <2>1. /\ ctl' \in Cells({"run"}) /\ a2j' \in Cells({"helo"})
        /\ st' \in Cells({"hello", "pid", "status"})
        /\ j2a' \in Cells({"status", "size", "byte"})
    BY Taken, Added DEF TypeOK
  <2>2. stopSoon' \in BOOLEAN /\ timedOut' \in BOOLEAN /\ runOnce' \in BOOLEAN
    BY Zenon DEF TypeOK
  <2> QED
    BY <2>1, <2>2 DEF TypeOK, NoTrace
<1>2. AflInStep'
  BY DEF AflInStep, ProxyInStep
<1>3. OutcomeRight'
  BY DEF OutcomeRight, Server!Trace
<1>4. ProxyInStep'
  BY DEF ProxyInStep
<1>5. JvmInStep'
  BY DEF JvmInStep
<1> QED
  BY <1>1, <1>2, <1>3, <1>4, <1>5

LEMMA ProxyPidIInv == IInv /\ ProxyPid => IInv'
<1> SUFFICES ASSUME IInv, ProxyPid PROVE IInv'
  OBVIOUS
<1> USE ForkServerAssumption
       DEF ProxyPid, IInv, aflVars, proxyVars, jvmVars, pipes,
           AflRunning, ProxyRunning, JvmRunning, StatusPipeClosed, Hello, Pid, Done, Helo
<1>1. TypeOK'
  <2>1. /\ ctl' \in Cells({"run"}) /\ a2j' \in Cells({"helo"})
        /\ st' \in Cells({"hello", "pid", "status"})
        /\ j2a' \in Cells({"status", "size", "byte"})
    BY Taken, Added DEF TypeOK
  <2>2. stopSoon' \in BOOLEAN /\ timedOut' \in BOOLEAN /\ runOnce' \in BOOLEAN
    BY Zenon DEF TypeOK
  <2> QED
    BY <2>1, <2>2 DEF TypeOK, NoTrace
<1>2. AflInStep'
  BY AppendToNone DEF AflInStep, Answered
<1>3. OutcomeRight'
  BY DEF OutcomeRight, Server!Trace
<1>4. ProxyInStep'
  BY DEF ProxyInStep
<1>5. JvmInStep'
  BY DEF JvmInStep
<1> QED
  BY <1>1, <1>2, <1>3, <1>4, <1>5

LEMMA ProxyHeloIInv == IInv /\ ProxyHelo => IInv'
<1> SUFFICES ASSUME IInv, ProxyHelo PROVE IInv'
  OBVIOUS
<1> USE ForkServerAssumption
       DEF ProxyHelo, IInv, aflVars, proxyVars, jvmVars, pipes,
           AflRunning, ProxyRunning, JvmRunning, StatusPipeClosed, Hello, Pid, Done, Helo
<1>1. TypeOK'
  <2>1. /\ ctl' \in Cells({"run"}) /\ a2j' \in Cells({"helo"})
        /\ st' \in Cells({"hello", "pid", "status"})
        /\ j2a' \in Cells({"status", "size", "byte"})
    BY Taken, Added DEF TypeOK
  <2>2. stopSoon' \in BOOLEAN /\ timedOut' \in BOOLEAN /\ runOnce' \in BOOLEAN
    BY Zenon DEF TypeOK
  <2> QED
    BY <2>1, <2>2 DEF TypeOK, NoTrace
<1>2. AflInStep'
  BY DEF AflInStep, Answered
<1>3. OutcomeRight'
  BY DEF OutcomeRight, Server!Trace
<1>4. ProxyInStep'
  BY DEF ProxyInStep
<1>5. JvmInStep'
  BY DEF JvmInStep
<1> QED
  BY <1>1, <1>2, <1>3, <1>4, <1>5

LEMMA ProxyReadIInv == IInv /\ ProxyRead => IInv'
<1> SUFFICES ASSUME IInv, ProxyRead PROVE IInv'
  OBVIOUS
<1> USE ForkServerAssumption
       DEF ProxyRead, IInv, aflVars, proxyVars, jvmVars, pipes,
           AflRunning, ProxyRunning, JvmRunning, StatusPipeClosed, Hello, Pid, Done, Helo
<1> DEFINE closes == j2a = <<>> /\ proxy' = "gone" /\ UNCHANGED <<j2a, trace, status, want, got>>
           reads == j2a /= <<>> /\ j2a' = Tail(j2a)
<1>a. closes \/ reads
  OBVIOUS
<1>b. ASSUME reads
      PROVE  /\ Head(j2a).val = IF proxy = "status" THEN 0
                                ELSE IF proxy = "size" THEN covers + 1
                                ELSE IF got = 0 THEN 1 ELSE input + 1
             /\ proxy = "size" => BytesToRead(Head(j2a).val) = covers + 1
  <2>1. /\ Head(j2a) = ResultCell(input, Consumed + 1)
        /\ Fits /\ covers \in Nat /\ got \in Nat
    BY <1>b, NextCell DEF InStep, TypeOK
  <2> QED
    BY <2>1 DEF ResultCell, Consumed, Cell, BytesToRead, Fits
<1>1. TypeOK'
  <2>1. j2a' \in Cells({"status", "size", "byte"})
    BY Taken DEF TypeOK
  <2>2. status' \in Nat /\ want' \in 0 .. MapSize /\ got' \in 0 .. want'
    <3>1. CASE closes
      BY <3>1 DEF TypeOK
    <3>2. CASE reads
      <4>1. Head(j2a).val \in Nat /\ (proxy = "size" => BytesToRead(Head(j2a).val) \in 0 .. MapSize)
        BY <3>2, Taken DEF BytesToRead
      <4> QED
        BY <3>2, <4>1, SMTT(30) DEF TypeOK
    <3> QED
      BY <1>a, <3>1, <3>2
  <2>3. trace' \in [1 .. MapSize -> Nat]
    BY Taken DEF TypeOK
  <2>4. stopSoon' \in BOOLEAN /\ timedOut' \in BOOLEAN /\ runOnce' \in BOOLEAN
    BY Zenon DEF TypeOK
  <2>5. proxy' \in {"size", "bits", "gone"}
    <3>1. CASE closes
      BY <3>1
    <3>2. CASE reads
      BY <3>2
    <3> QED
      BY <1>a, <3>1, <3>2
  <2> QED
    BY <2>1, <2>2, <2>3, <2>4, <2>5 DEF TypeOK
<1>2. AflInStep'
  BY DEF AflInStep, JvmInStep, Answered
<1>3. OutcomeRight'
  BY DEF OutcomeRight, Server!Trace
<1>4. ProxyInStep'
  <2>1. CASE closes
    BY <2>1 DEF ProxyInStep
  <2>2. CASE reads
    <3>1. ctl = <<>> /\ (runOnce => ~AflRunning)
      BY DEF ProxyInStep
    <3>2. CASE proxy = "status"
      <4>1. trace = NoTrace /\ status' = 0
        BY <1>b, <2>2, <3>2 DEF ProxyInStep
      <4> QED
        BY <3>2, <4>1 DEF ProxyInStep
    <3>3. CASE proxy = "size"
      <4>1. trace = NoTrace /\ status = 0 /\ want' = covers + 1 /\ got' = 0
        BY <1>b, <2>2, <3>3 DEF ProxyInStep
      <4> QED
        BY <3>3, <4>1 DEF ProxyInStep, NoTrace
    <3>4. CASE proxy = "bits"
      <4>1. /\ status = 0 /\ want = covers + 1 /\ want \in 0 .. MapSize
            /\ got \in Nat /\ got < want /\ got' = got + 1
            /\ trace = [k \in 1 .. MapSize |->
                          IF k <= got THEN Server!Trace(input)[k] ELSE 0]
        BY <2>2, <3>4 DEF ProxyInStep, TypeOK
      <4>2. trace' = [trace EXCEPT ![got + 1] = IF got = 0 THEN 1 ELSE input + 1]
        BY <1>b, <2>2, <3>4
      <4>3. trace' = [k \in 1 .. MapSize |->
                          IF k <= got' THEN Server!Trace(input)[k] ELSE 0]
        <5>1. trace' = [k \in 1 .. MapSize |->
                          IF k = got + 1 THEN IF got = 0 THEN 1 ELSE input + 1 ELSE trace[k]]
          BY <4>1, <4>2
        <5>2. ASSUME NEW k \in 1 .. MapSize
              PROVE  (IF k = got + 1 THEN IF got = 0 THEN 1 ELSE input + 1 ELSE trace[k])
                        = IF k <= got' THEN Server!Trace(input)[k] ELSE 0
          <6>1. CASE k = got + 1
            BY <4>1, <6>1 DEF Server!Trace, TypeOK
          <6>2. CASE k /= got + 1
            <7>1. k <= got' <=> k <= got
              BY <4>1, <6>2
            <7> QED
              BY <4>1, <6>2, <7>1
          <6> QED
            BY <6>1, <6>2
        <5> QED
          BY <5>1, <5>2
      <4> QED
        BY <4>1, <4>3 DEF ProxyInStep, Server!Trace
    <3> QED
      BY <3>2, <3>3, <3>4
  <2> QED
    BY <1>a, <2>1, <2>2
<1>5. JvmInStep'
  <2>1. CASE closes
    BY <2>1 DEF JvmInStep
  <2>2. CASE reads
    <3>1. Consumed' = Consumed + 1
      <4>1. CASE proxy = "status"
        BY <2>2, <4>1 DEF Consumed
      <4>2. CASE proxy = "size"
        BY <2>2, <4>2 DEF Consumed
      <4>3. CASE proxy = "bits"
        BY <2>2, <4>3 DEF Consumed, TypeOK
      <4> QED
        BY <4>1, <4>2, <4>3
    <3>2. InStep'
      BY <2>2, <3>1, NextCell DEF InStep, Fits, ResultCell
    <3> QED
      BY <2>2, <3>2, NextCell DEF JvmInStep
  <2> QED
    BY <1>a, <2>1, <2>2
<1> QED
  BY <1>1, <1>2, <1>3, <1>4, <1>5

LEMMA ProxyReplyIInv == IInv /\ ProxyReply => IInv'
<1> SUFFICES ASSUME IInv, ProxyReply PROVE IInv'
  OBVIOUS
<1> USE ForkServerAssumption
       DEF ProxyReply, IInv, aflVars, proxyVars, jvmVars, pipes,
           AflRunning, ProxyRunning, JvmRunning, StatusPipeClosed, Hello, Pid, Done, Helo
<1>1. TypeOK'
  <2>1. /\ ctl' \in Cells({"run"}) /\ a2j' \in Cells({"helo"})
        /\ st' \in Cells({"hello", "pid", "status"})
        /\ j2a' \in Cells({"status", "size", "byte"})
    BY Taken, Added DEF TypeOK
  <2>2. stopSoon' \in BOOLEAN /\ timedOut' \in BOOLEAN /\ runOnce' \in BOOLEAN
    BY Zenon DEF TypeOK
  <2> QED
    BY <2>1, <2>2 DEF TypeOK, NoTrace
<1>2. AflInStep'
  <2>1. CASE ~AflRunning
    BY <2>1 DEF AflInStep
  <2>2. CASE AflRunning
    <3>1. ~runOnce /\ status = 0
      BY <2>2 DEF ProxyInStep
    <3>2. proxy' = "wait" /\ st' = Append(st, Done)
      BY <2>2, <3>1
    <3>3. /\ afl \in {"get_pid", "get_status"} /\ ctl = <<>>
          /\ afl = "get_pid" => st = <<Pid>>
          /\ afl = "get_status" => st = <<>>
      BY <2>2 DEF TypeOK, AflInStep, Answered
    <3>4. /\ afl = "get_pid" => st' = <<Pid, Done>>
          /\ afl = "get_status" => st' = <<Done>>
      BY <3>2, <3>3, AppendToNone, AppendToOne
    <3>5. Answered'
      BY <3>2, AllReceived DEF Answered, Quiet, Server!Trace
    <3> QED
      BY <3>2, <3>4, <3>5 DEF AflInStep
  <2> QED
    BY <2>1, <2>2
<1>3. OutcomeRight'
  BY DEF OutcomeRight, Server!Trace
<1>4. ProxyInStep'
  BY DEF ProxyInStep
<1>5. JvmInStep'
  <2>1. a2j = <<>> /\ InStep /\ jvm = IF toSend = <<>> THEN "wait" ELSE "send"
    BY DEF JvmInStep
  <2>2. j2a = <<>> /\ toSend = <<>>
    BY <2>1, AllReceived DEF ProxyInStep
  <2> QED
    BY <2>1, <2>2 DEF JvmInStep
<1> QED
  BY <1>1, <1>2, <1>3, <1>4, <1>5

LEMMA JvmWaitIInv == IInv /\ JvmWait => IInv'
<1> SUFFICES ASSUME IInv, JvmWait PROVE IInv'
  OBVIOUS
<1> USE DEF JvmWait, IInv, aflVars, proxyVars, AflRunning, ProxyRunning
<1>1. TypeOK'
  <2>1. a2j' \in Cells({"helo"})
    BY Taken DEF TypeOK
  <2> QED
    BY <2>1 DEF TypeOK
<1>2. AflInStep'
  BY DEF AflInStep, Quiet, Answered, Server!Trace
<1>3. OutcomeRight'
  BY DEF OutcomeRight, Server!Trace
<1>4. ProxyInStep'
  BY DEF ProxyInStep, Server!Trace
<1>5. JvmInStep'
  <2>1. CASE a2j = <<>>
    BY <2>1 DEF JvmInStep
  <2>2. CASE a2j /= <<>> /\ a2j' = Tail(a2j) /\ jvm' = "run"
    <3>1. CASE proxy = "gone"
      BY <2>2, <3>1 DEF JvmInStep
    <3>2. CASE proxy /= "gone"
      <4>1. /\ a2j = <<Helo>> /\ j2a = <<>> /\ toSend = <<>>
            /\ proxy = "status"
        BY <2>2, <3>2 DEF TypeOK, JvmInStep
      <4>2. a2j' = <<>>
        BY <2>2, <4>1, TailOfOne
      <4> QED
        BY <2>2, <4>1, <4>2 DEF JvmInStep
    <3> QED
      BY <3>1, <3>2
  <2> QED
    BY <2>1, <2>2
<1> QED
  BY <1>1, <1>2, <1>3, <1>4, <1>5

LEMMA JvmRunIInv == IInv /\ JvmRun => IInv'
<1> SUFFICES ASSUME IInv, JvmRun PROVE IInv'
  OBVIOUS
<1> USE ForkServerAssumption
       DEF JvmRun, IInv, aflVars, proxyVars, pipes, AflRunning
<1>a. input \in Nat /\ covers \in Nat
  BY DEF TypeOK
<1>1. TypeOK'
  <2>1. toSend' \in Cells({"status", "size", "byte"})
    BY <1>a, ResultCells
  <2> QED
    BY <2>1 DEF TypeOK
<1>2. AflInStep'
  BY DEF AflInStep, Quiet, Answered
<1>3. OutcomeRight'
  BY DEF OutcomeRight, Server!Trace
<1>4. ProxyInStep'
  BY DEF ProxyInStep, Server!Trace
<1>5. JvmInStep'
  <2>1. CASE proxy = "gone"
    BY <2>1 DEF JvmInStep
  <2>2. CASE proxy /= "gone"
    <3>1. proxy = "status" /\ j2a = <<>> /\ a2j = <<>>
      BY <2>2 DEF TypeOK, JvmInStep
    <3>2. toSend' /= <<>>
      BY <1>a, ResultCells
    <3>3. InStep'
      <4>1. Consumed' = 0 /\ Len(j2a) = 0
        BY <3>1 DEF Consumed
      <4>2. /\ Len(toSend') = covers + 3
            /\ \A k \in 1 .. Len(toSend') : toSend'[k] = ResultCell(input, k)
        BY <1>a, ResultCells
      <4>3. /\ Consumed' + Len(j2a') + Len(toSend') = covers' + 3
            /\ \A k \in 1 .. Len(toSend') : Consumed' + Len(j2a') + k = k
        BY <1>a, <4>1, <4>2
      <4> QED
        BY <4>1, <4>2 DEF InStep, Fits, ResultCell
    <3> QED
      BY <3>1, <3>2, <3>3 DEF JvmInStep
  <2> QED
    BY <2>1, <2>2
<1> QED
  BY <1>1, <1>2, <1>3, <1>4, <1>5

LEMMA JvmCrashIInv == IInv /\ JvmCrash => IInv'
<1> SUFFICES ASSUME IInv, JvmCrash PROVE IInv'
  OBVIOUS
<1> USE ForkServerAssumption
       DEF JvmCrash, IInv, aflVars, proxyVars, jvmVars, pipes,
           AflRunning, ProxyRunning, JvmRunning, StatusPipeClosed, Hello, Pid, Done, Helo
<1>1. TypeOK'
  <2>1. /\ ctl' \in Cells({"run"}) /\ a2j' \in Cells({"helo"})
        /\ st' \in Cells({"hello", "pid", "status"})
        /\ j2a' \in Cells({"status", "size", "byte"})
    BY Taken, Added DEF TypeOK
  <2>2. stopSoon' \in BOOLEAN /\ timedOut' \in BOOLEAN /\ runOnce' \in BOOLEAN
    BY Zenon DEF TypeOK
  <2> QED
    BY <2>1, <2>2 DEF TypeOK, NoTrace
<1>2. AflInStep'
  BY DEF AflInStep, Quiet, Answered
<1>3. OutcomeRight'
  BY DEF OutcomeRight, Server!Trace
<1>4. ProxyInStep'
  BY DEF ProxyInStep, Server!Trace
<1>5. JvmInStep'
  BY DEF JvmInStep
<1> QED
  BY <1>1, <1>2, <1>3, <1>4, <1>5

LEMMA JvmSendIInv == IInv /\ JvmSend => IInv'
<1> SUFFICES ASSUME IInv, JvmSend PROVE IInv'
  OBVIOUS
<1> USE ForkServerAssumption
       DEF JvmSend, IInv, aflVars, proxyVars, jvmVars, pipes,
           AflRunning, ProxyRunning, JvmRunning, StatusPipeClosed, Hello, Pid, Done, Helo
<1> DEFINE stops == jvm' = "end" /\ proxy = "gone" /\ UNCHANGED <<toSend, j2a>>
           sends == /\ proxy /= "gone"
                    /\ j2a' = Append(j2a, Head(toSend)) /\ toSend' = Tail(toSend)
                    /\ jvm' = IF Len(toSend) = 1 THEN "wait" ELSE "send"
<1>a. stops \/ sends
  OBVIOUS
<1>b. ASSUME sends
      PROVE  /\ proxy \in {"status", "size", "bits"} /\ toSend /= <<>>
             /\ a2j = <<>> /\ InStep
  BY <1>b DEF TypeOK, JvmInStep
<1>1. TypeOK'
  <2>1. /\ j2a' \in Cells({"status", "size", "byte"})
        /\ toSend' \in Cells({"status", "size", "byte"})
    <3>1. CASE stops
      BY <3>1 DEF TypeOK
    <3>2. CASE sends
      BY <1>b, <3>2, Taken, Added
    <3> QED
      BY <1>a, <3>1, <3>2
  <2> QED
    BY <2>1 DEF TypeOK
<1>2. AflInStep'
  BY DEF AflInStep, Quiet, Answered
<1>3. OutcomeRight'
  BY DEF OutcomeRight, Server!Trace
<1>4. ProxyInStep'
  BY DEF ProxyInStep, Server!Trace
<1>5. JvmInStep'
  <2>1. CASE stops
    BY <2>1 DEF JvmInStep
  <2>2. CASE sends
    <3> DEFINE d == Consumed
    <3>1. /\ j2a \in Seq([role : {"status", "size", "byte"}, val : Nat])
          /\ toSend \in Cells({"status", "size", "byte"})
          /\ Len(j2a) \in Nat /\ d \in Nat /\ d' = d
      BY SMTT(30) DEF TypeOK, Cells, Consumed
    <3>2. /\ Head(toSend) \in [role : {"status", "size", "byte"}, val : Nat]
          /\ Len(toSend) \in Nat \ {0} /\ Len(toSend') = Len(toSend) - 1
          /\ Head(toSend) = toSend[1]
          /\ \A k \in 1 .. Len(toSend) - 1 : toSend'[k] = toSend[k + 1]
          /\ toSend' \in Cells({"status", "size", "byte"})
      <4>1. toSend /= <<>> /\ toSend' = Tail(toSend)
        BY <1>b, <2>2
      <4>2. /\ Head(toSend) \in [role : {"status", "size", "byte"}, val : Nat]
            /\ Tail(toSend) \in Cells({"status", "size", "byte"})
        BY <3>1, <4>1, TailCells
      <4>3. /\ Len(toSend) \in Nat \ {0} /\ Len(Tail(toSend)) = Len(toSend) - 1
            /\ Head(toSend) = toSend[1]
            /\ \A k \in 1 .. Len(toSend) - 1 : Tail(toSend)[k] = toSend[k + 1]
        BY <3>1, <4>1, TailCells
      <4> QED
        BY <4>1, <4>2, <4>3, Zenon
    <3>3. /\ Len(j2a') = Len(j2a) + 1
          /\ \A k \in 1 .. Len(j2a) : j2a'[k] = j2a[k]
          /\ j2a'[Len(j2a) + 1] = toSend[1]
      BY <2>2, <3>1, <3>2, AppendProperties
    <3>4. /\ d + Len(j2a) + Len(toSend) = covers + 3
          /\ \A k \in 1 .. Len(j2a) : j2a[k] = ResultCell(input, d + k)
          /\ \A k \in 1 .. Len(toSend) : toSend[k] = ResultCell(input, d + Len(j2a) + k)
      BY <1>b, <2>2 DEF InStep
    <3> HIDE DEF d
    <3>5. d + Len(j2a') + Len(toSend') = covers + 3
      BY <3>1, <3>2, <3>3, <3>4
    <3>6. ASSUME NEW k \in 1 .. Len(j2a') PROVE j2a'[k] = ResultCell(input, d + k)
      <4>1. CASE k \in 1 .. Len(j2a)
        BY <3>3, <3>4, <4>1
      <4>2. CASE k = Len(j2a) + 1
        <5>1. d + Len(j2a) + 1 = d + k
          BY <3>1, <4>2
        <5> QED
          BY <3>2, <3>4, <4>2, <5>1
      <4> QED
        BY <3>1, <3>3, <4>1, <4>2
    <3>7. ASSUME NEW k \in 1 .. Len(toSend')
          PROVE  toSend'[k] = ResultCell(input, d + Len(j2a') + k)
      <4>1. /\ k \in 1 .. Len(toSend) - 1 /\ k + 1 \in 1 .. Len(toSend)
            /\ d + Len(j2a) + (k + 1) = d + Len(j2a') + k
        BY <3>1, <3>2, <3>3
      <4> QED
        BY <3>2, <3>4, <4>1
    <3>8. InStep'
      BY <1>b, <2>2, <3>1, <3>6 DEF InStep, Fits, ResultCell, d
    <3>9. toSend' = <<>> <=> Len(toSend) = 1
      BY <3>2, EmptySeq, SMTT(30) DEF Cells
    <3> QED
      BY <3>8, <3>9 DEF JvmInStep
  <2> QED
    BY <1>a, <2>1, <2>2
<1> QED
  BY <1>1, <1>2, <1>3, <1>4, <1>5

LEMMA JvmFinishIInv == IInv /\ JvmFinish => IInv'
<1> SUFFICES ASSUME IInv, JvmFinish PROVE IInv'
  OBVIOUS
<1> USE ForkServerAssumption
       DEF JvmFinish, IInv, aflVars, proxyVars, jvmVars, pipes,
           AflRunning, ProxyRunning, JvmRunning, StatusPipeClosed, Hello, Pid, Done, Helo
<1>1. TypeOK'
  <2>1. /\ ctl' \in Cells({"run"}) /\ a2j' \in Cells({"helo"})
        /\ st' \in Cells({"hello", "pid", "status"})
        /\ j2a' \in Cells({"status", "size", "byte"})
    BY Taken, Added DEF TypeOK
  <2>2. stopSoon' \in BOOLEAN /\ timedOut' \in BOOLEAN /\ runOnce' \in BOOLEAN
    BY Zenon DEF TypeOK
  <2> QED
    BY <2>1, <2>2 DEF TypeOK, NoTrace
<1>2. AflInStep'
  BY DEF AflInStep, Quiet, Answered, Server!Trace
<1>3. OutcomeRight'
  BY DEF OutcomeRight, Server!Trace
<1>4. ProxyInStep'
  BY DEF ProxyInStep, Server!Trace
<1>5. JvmInStep'
  BY DEF JvmInStep
<1> QED
  BY <1>1, <1>2, <1>3, <1>4, <1>5

LEMMA StutterIInv == IInv /\ UNCHANGED vars => IInv'
<1> SUFFICES ASSUME IInv, UNCHANGED vars PROVE IInv'
  OBVIOUS
<1> USE DEF vars, IInv, aflVars, proxyVars, jvmVars, pipes
<1>1. TypeOK'
  BY DEF TypeOK
<1>2. AflInStep'
  BY DEF AflInStep, Quiet, Answered, Server!Trace
<1>3. OutcomeRight'
  BY DEF OutcomeRight, Server!Trace
<1>4. ProxyInStep'
  BY DEF ProxyInStep, Server!Trace, AflRunning, NoTrace
<1>5. JvmInStep'
  BY DEF JvmInStep, InStep, Consumed, ResultCell, Fits
<1> QED
  BY <1>1, <1>2, <1>3, <1>4, <1>5

LEMMA NextIInv == IInv /\ [Next]_vars => IInv'
BY OpenA2JIInv, OpenJ2AIInv, AflInitIInv, AflInitTimeoutIInv, AflStartRunIInv,
   AflGetPidIInv, AflTimeoutIInv, AflGetStatusIInv, AflStopIInv, AflQuitIInv,
   AflDiesIInv, ProxyHelloIInv, ProxyWaitIInv, ProxyPidIInv, ProxyHeloIInv,
   ProxyReadIInv, ProxyReplyIInv, JvmWaitIInv, JvmRunIInv, JvmCrashIInv,
   JvmSendIInv, JvmFinishIInv, StutterIInv
   DEF Next, Afl, Proxy, Jvm, Environment

\* AFL, the proxy and the JVM stay in step, whoever is late, interrupted or dead.
THEOREM IInvHolds == Spec => []IInv
<1>1. Init => IInv
  BY InitIInv
<1>2. IInv /\ [Next]_vars => IInv'
  BY NextIInv
<1> QED
  BY <1>1, <1>2, PTL DEF Spec

\* Every variable keeps its type: the proxy counts no further than it waits.
THEOREM TypeCorrect == Spec => []TypeOK
<1>1. IInv => TypeOK
  BY DEF IInv
<1> QED
  BY <1>1, IInvHolds, PTL

\* Nobody takes a cell of a pipe for something else than its sender meant.
THEOREM StreamsInStep == Spec => []Framing
<1>1. ASSUME IInv PROVE Framing
  <2>1. ASSUME st /= <<>>
        PROVE  /\ afl = "init" => Head(st).role = "hello"
               /\ afl = "get_pid" => Head(st).role = "pid"
               /\ afl = "get_status" => Head(st).role = "status"
    BY <1>1, <2>1, TailOfOne, TailOfTwo
       DEF IInv, AflInStep, Hello, Pid, Done, Cell
  <2>2. ASSUME j2a /= <<>>, proxy \in {"status", "size", "bits"}
        PROVE  Head(j2a).role = IF proxy = "bits" THEN "byte" ELSE proxy
    BY <1>1, <2>2, NextCell DEF IInv, TypeOK, ResultCell, Consumed, Cell
  <2> QED
    BY <2>1, <2>2 DEF Framing
<1> QED
  BY <1>1, IInvHolds, PTL

\* Nobody gives up without a cause.
THEOREM EndsAreCaused == Spec => []EndsHaveCause
<1>1. IInv => EndsHaveCause
  BY DEF IInv, OutcomeRight, JvmInStep, EndsHaveCause, ProxyRunning
<1> QED
  BY <1>1, IInvHolds, PTL

\* The input file and the trace bits have one user at a time.
THEOREM OneUserAtATime == Spec => SharedDataStable
<1> DEFINE Stable ==
      /\ input' /= input => jvm \notin {"run", "send"} /\ a2j = <<>>
      /\ afl = "idle" /\ trace' /= trace => input' = input + 1
<1>1. ASSUME IInv, Next PROVE Stable
  <2> USE DEF aflVars, proxyVars, jvmVars, pipes
  <2>1. CASE AflStartRun
    BY <1>1, <2>1 DEF IInv, AflInStep, Quiet, AflStartRun
  <2>2. CASE ProxyRead
    BY <1>1, <2>2 DEF IInv, AflInStep, ProxyRead
  <2>3. CASE Next /\ ~AflStartRun /\ ~ProxyRead
    <3>1. UNCHANGED <<input, trace>>
      BY <2>3 DEF Next, OpenA2J, OpenJ2A, Afl, AflInit, AflGetPid, AflGetStatus,
                  AflQuit, Proxy, ProxyHello, ProxyWait, ProxyPid, ProxyHelo,
                  ProxyReply, Jvm, JvmWait, JvmRun, JvmSend, JvmFinish,
                  Environment, AflInitTimeout, AflTimeout, AflStop, AflDies,
                  JvmCrash
    <3> QED
      BY <3>1
  <2> QED
    BY <1>1, <2>1, <2>2, <2>3
<1>2. ASSUME IInv, [Next]_vars PROVE [Stable]_vars
  BY <1>1, <1>2
<1> QED
  BY <1>2, IInvHolds, PTL DEF Spec, SharedDataStable

------------------------------------------------------------------------------
\* AFL, the proxy and the JVM together implement one call per input: every
\* step is a submission, an answer with the trace of the input submitted, or
\* invisible to the fuzzer.
THEOREM ForkServerImplementsServer == Spec => ImplementsServer
<1>1. Init => Server!Init
  BY ForkServerAssumption DEF Init, Server!Init
<1>2. ASSUME IInv, [Next]_vars PROVE [Server!Next]_(Server!vars)
  <2> USE DEF aflVars, proxyVars, jvmVars, pipes
  <2>1. CASE AflStartRun
    <3>1. Server!Submit
      BY <1>2, <2>1 DEF IInv, OutcomeRight, TypeOK, AflStartRun, Server!Submit
    <3> QED
      BY <3>1 DEF Server!Next
  <2>2. CASE AflGetStatus /\ UNCHANGED outcome
    BY <2>2 DEF AflGetStatus, Server!vars
  <2>3. CASE AflGetStatus /\ st /= <<>>
    <3>1. /\ st = <<Done>> /\ trace = Server!Trace(input)
          /\ input > 0 /\ outcome = NoOutcome
      BY <1>2, <2>3 DEF IInv, AflInStep, Answered, OutcomeRight, AflGetStatus
    <3>2. Fault(Head(st).val) = "none"
      BY <3>1, TailOfOne DEF Done, Cell, Fault
    <3>3. Server!Answer
      BY <2>3, <3>1, <3>2
         DEF AflGetStatus, StatusPipeClosed, Server!Answer
    <3> QED
      BY <3>3 DEF Server!Next
  <2>4. CASE Next /\ ~AflStartRun /\ ~AflGetStatus
    <3>1. UNCHANGED <<covers, input, outcome>>
      BY <2>4 DEF Next, OpenA2J, OpenJ2A, Afl, AflInit, AflGetPid, AflQuit, Proxy,
                  ProxyHello, ProxyWait, ProxyPid, ProxyHelo, ProxyRead,
                  ProxyReply, Jvm, JvmWait, JvmRun, JvmSend, JvmFinish,
                  Environment, AflInitTimeout, AflTimeout, AflStop, AflDies,
                  JvmCrash
    <3> QED
      BY <3>1 DEF Server!vars
  <2>5. CASE UNCHANGED vars
    BY <2>5 DEF vars, Server!vars
  <2>6. AflGetStatus => UNCHANGED outcome \/ st /= <<>>
    BY DEF AflGetStatus
  <2> QED
    BY <1>2, <2>1, <2>2, <2>3, <2>4, <2>5, <2>6
<1> QED
  BY <1>1, <1>2, IInvHolds, PTL DEF Spec, ImplementsServer, Server!Spec
==============================================================================
