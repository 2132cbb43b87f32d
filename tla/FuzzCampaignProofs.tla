------------------------- MODULE FuzzCampaignProofs --------------------------
(***************************************************************************)
(* Proofs about FuzzCampaign for campaigns of any number of iterations.    *)
(* IInv follows four things: where a JVM may be while the proxy of a       *)
(* session gets through its two opens, how many requests have no answer    *)
(* yet, how much of the input file is there, and who still holds the       *)
(* FIFOs.  The last part is about CoverageAnalysis, which reads the queue  *)
(* that such a campaign leaves behind.                                     *)
(***************************************************************************)
EXTENDS FuzzCampaign, CoverageAnalysis, FiniteSetTheorems, SequenceTheorems,
        WellFoundedInduction, NaturalsInduction, TLAPS

JvmStates == {"start", "open_a2j", "opened", "open_j2a", "wait", "open", "run", "end",
              "finish", "exited", "dead"}

\* They have taken a request.
Running == {j \in Jvms : jvm[j] \in {"open", "run"}}

\* Requests that were not read yet, that run, and answers that were not read.
Outstanding == Len(a2j) + Cardinality(Running) + Len(j2a)

Types ==
    /\ faults \in Scenarios /\ script \in {"spawn", "sleep", "fuzz", "done"}
    /\ jvm \in Seq(JvmStates) /\ Iter <= Iterations
    /\ req \in Seq(AnInput) /\ Len(req) = Iter
    /\ input \in AnInput /\ inputFile \in {"missing", "empty", "full"}
    /\ afl \in {"init", "idle", "create", "write", "send", "asked", "stopped", "gone"}
    /\ proxy \in {"new", "open_a2j", "opened", "open_j2a", "up", "gone"}
    /\ a2j \in Seq({"HELO"}) /\ j2a \in Seq([input : AnInput, by : Nat])
    /\ endTime \in [1 .. Iterations -> 0 .. Iterations]

\* A session belongs to the last iteration.
Phases ==
    /\ SessionOn => script = "fuzz" /\ proxy /= "gone"
    /\ ~SessionOn => proxy = "gone"
    /\ SessionOn /\ afl /= "init" => proxy = "up"
    /\ script \in {"sleep", "fuzz"} => Iter > 0

\* The input file is complete before AFL asks.
FileStates ==
    /\ afl = "create" => inputFile = "missing"
    /\ afl = "write" => inputFile = "empty"
    /\ afl \in {"send", "asked"} => inputFile = "full"

\* end_time is there once the JVM is past it.
EndTimes ==
    \A j \in 1 .. Iterations :
        endTime[j] /= 0 <=> j \in Jvms /\ jvm[j] \in {"finish", "exited"}

\* Every session leaves at most one request behind.
Backlog ==
    Outstanding <= IF script = "sleep" \/ (SessionOn /\ afl /= "asked") THEN Iter - 1
                   ELSE Iter

\* How far the JVM of the session is: it cannot have seen the end of the FIFO, and
\* in step it finds the input file.
OwnJvm ==
    /\ script = "sleep" \/ proxy = "new" =>
           jvm[Iter] \in {"start", "open_a2j", "dead"}
    /\ InStep /\ SessionOn => jvm[Iter] \notin {"end", "finish", "exited"}
    /\ SessionOn /\ jvm[Iter] \in {"wait", "open", "run"} => proxy \in {"open_j2a", "up"}

\* If nothing is slow, proxy and JVM get through their opens together.
OwnJvmInTime ==
    NothingSlow /\ SessionOn =>
        /\ proxy = "new" => jvm[Iter] \in {"open_a2j", "dead"}
        /\ proxy = "open_a2j" => jvm[Iter] = "dead"
        /\ proxy = "opened" => jvm[Iter] \in {"opened", "open_j2a", "dead"}
        /\ proxy = "open_j2a" => jvm[Iter] \in {"opened", "dead"}
        /\ proxy = "up" => jvm[Iter] \in {"wait", "open", "run", "dead"}

\* Then the JVMs before have connected to their own proxies, or died.
OthersInTime ==
    NothingSlow => \A j \in Jvms :
        /\ SessionOn /\ j < Iter => jvm[j] \in {"exited", "dead"}
        /\ ~SessionOn /\ (script = "sleep" => j < Iter) =>
               jvm[j] \in {"wait", "open", "run", "end", "finish", "exited", "dead"}

AWaiting == \E j \in Jvms : jvm[j] = "wait"

\* In step every request is answered in its session, or forgotten before the next
\* one begins.
OneRequest ==
    InStep => Outstanding <= IF SessionOn /\ afl /= "asked" THEN 0 ELSE 1

RequestHeld == InStep /\ a2j /= <<>> => AWaiting

\* Between two sessions an answer is there only for as long as its JVM.
AnswerHeld ==
    InStep /\ ~SessionOn =>
        /\ j2a /= <<>> => \E j \in Jvms : Writes(jvm[j])
        /\ (\E j \in Jvms : jvm[j] \in {"opened", "open_j2a"}) => Outstanding = 0

\* In a session somebody waits for the next request.
Served ==
    InStep /\ SessionOn =>
        /\ \A j \in Jvms : /\ jvm[j] \notin {"end", "finish"}
                           /\ jvm[j] \in {"wait", "open", "run"} => proxy = "up"
                           /\ ProxyReads => jvm[j] /= "open_j2a"
        /\ proxy = "up" /\ (afl /= "asked" \/ j2a /= <<>>) => AWaiting

\* Whatever is under way in a session is about the input that AFL has under way.
Matching ==
    InStep =>
        /\ SessionOn => \A j \in Jvms : jvm[j] = "run" => req[j] = input
        /\ SessionOn /\ j2a /= <<>> => j2a[1].input = input
        /\ answer /= NoInput => answer.input = input

IInv ==
    /\ Types
    /\ Phases
    /\ FileStates
    /\ EndTimes
    /\ Backlog
    /\ OwnJvm
    /\ OwnJvmInTime
    /\ OthersInTime
    /\ OneRequest
    /\ RequestHeld
    /\ AnswerHeld
    /\ Served
    /\ Matching

------------------------------------------------------------------------------
\* What the types say about the sizes.
Sizes ==
    /\ Iter \in Nat /\ Iterations \in Nat
    /\ Len(a2j) \in Nat /\ (a2j = <<>> <=> Len(a2j) = 0)
    /\ Len(j2a) \in Nat /\ (j2a = <<>> <=> Len(j2a) = 0)
    /\ IsFiniteSet(Running) /\ Cardinality(Running) \in Nat
    /\ Cardinality(Running) = 0 <=> \A j \in Jvms : jvm[j] \notin {"open", "run"}

LEMMA Pieces == Types => Sizes
<1> SUFFICES ASSUME Types PROVE Sizes
  OBVIOUS
<1>1. Iter \in Nat /\ Iterations \in Nat
  BY CampaignAssumption DEF Types, Iter
<1>2. /\ Len(a2j) \in Nat /\ (a2j = <<>> <=> Len(a2j) = 0)
      /\ Len(j2a) \in Nat /\ (j2a = <<>> <=> Len(j2a) = 0)
  BY LenProperties, EmptySeq DEF Types
<1>3. IsFiniteSet(Running)
  <2>1. IsFiniteSet(Jvms)
    BY <1>1, FS_Interval DEF Jvms
  <2> QED
    BY <2>1, FS_Subset DEF Running
<1>4. Cardinality(Running) \in Nat /\ (Cardinality(Running) = 0 <=> Running = {})
  BY <1>3, FS_CardinalityType, FS_EmptySet
<1>5. Running = {} <=> \A j \in Jvms : jvm[j] \notin {"open", "run"}
  BY DEF Running
<1> QED
  BY <1>1, <1>3, <1>4, <1>5 DEF Sizes

\* One JVM goes on.
LEMMA OneGoes ==
    ASSUME Types, NEW j \in Jvms, NEW s \in JvmStates, Goes(j, s)
    PROVE  /\ jvm' \in Seq(JvmStates) /\ Iter' = Iter /\ Jvms' = Jvms
           /\ \A k \in Jvms : jvm'[k] = IF k = j THEN s ELSE jvm[k]
           /\ Cardinality(Running') = Cardinality(Running)
                  + (IF s \in {"open", "run"} THEN 1 ELSE 0)
                  - (IF jvm[j] \in {"open", "run"} THEN 1 ELSE 0)
<1>1. jvm \in Seq(JvmStates) /\ jvm' = [jvm EXCEPT ![j] = s] /\ j \in 1 .. Len(jvm)
  BY DEF Types, Goes, Jvms, Iter
<1>2. /\ jvm' \in Seq(JvmStates) /\ Len(jvm') = Len(jvm)
      /\ \A k \in 1 .. Len(jvm) : jvm'[k] = IF k = j THEN s ELSE jvm[k]
  BY <1>1, ExceptSeq
<1>3. Iter' = Iter /\ Jvms' = Jvms
  BY <1>2 DEF Iter, Jvms
<1>4. Running' = IF s \in {"open", "run"} THEN (Running \ {j}) \cup {j} ELSE Running \ {j}
  BY <1>2 DEF Running, Jvms, Iter
<1>5. /\ IsFiniteSet(Running \ {j})
      /\ Cardinality(Running \ {j}) =
             IF j \in Running THEN Cardinality(Running) - 1 ELSE Cardinality(Running)
      /\ Cardinality(Running) \in Nat
  BY Pieces, FS_RemoveElement DEF Sizes
<1>6. /\ Cardinality((Running \ {j}) \cup {j}) = Cardinality(Running \ {j}) + 1
      /\ j \in Running <=> jvm[j] \in {"open", "run"}
  BY <1>5, FS_AddElement DEF Running
<1>7. Cardinality(Running') = Cardinality(Running)
         + (IF s \in {"open", "run"} THEN 1 ELSE 0)
                  - (IF jvm[j] \in {"open", "run"} THEN 1 ELSE 0)
  BY <1>4, <1>5, <1>6
<1> QED
  BY <1>2, <1>7 DEF Jvms, Iter

\* Those that wait in one state go on, none of them is running.
LEMMA ManyGo ==
    ASSUME Types, NEW from \in JvmStates \ {"open", "run"},
           NEW to \in JvmStates \ {"open", "run"},
           jvm' = Woken(from, to)
    PROVE  /\ jvm' \in Seq(JvmStates) /\ Iter' = Iter /\ Jvms' = Jvms
           /\ \A k \in Jvms : jvm'[k] = IF jvm[k] = from THEN to ELSE jvm[k]
           /\ Running' = Running
<1>1. jvm \in Seq(JvmStates) /\ Len(jvm) \in Nat
  BY DEF Types
<1>2. /\ jvm' = [j \in 1 .. Len(jvm) |-> IF jvm[j] = from THEN to ELSE jvm[j]]
      /\ \A j \in 1 .. Len(jvm) : (IF jvm[j] = from THEN to ELSE jvm[j]) \in JvmStates
  BY <1>1 DEF Woken, Jvms, Iter
<1>3. /\ jvm' \in Seq(JvmStates) /\ Len(jvm') = Len(jvm)
      /\ \A k \in 1 .. Len(jvm) : jvm'[k] = IF jvm[k] = from THEN to ELSE jvm[k]
  BY <1>1, <1>2
<1>4. Iter' = Iter /\ Jvms' = Jvms
  BY <1>3 DEF Iter, Jvms
<1>5. Running' = Running
  BY <1>3 DEF Running, Jvms, Iter
<1> QED
  BY <1>3, <1>5 DEF Jvms, Iter

\* The content of a FIFO is kept or lost.
LEMMA KeptOrLost ==
    ASSUME NEW S, NEW s \in Seq(S), NEW t \in {s, <<>>}
    PROVE  t \in Seq(S) /\ Len(t) \in 0 .. Len(s)
<1>1. CASE t = s
  BY <1>1, LenProperties
<1>2. CASE t = <<>>
  <2>1. <<>> \in Seq(S) /\ Len(<<>>) = 0 /\ Len(s) \in Nat
    BY EmptySeq, LenProperties
  <2> QED
    BY <1>2, <2>1
<1> QED
  BY <1>1, <1>2

\* The conditions on what may go wrong, one by one.
LEMMA Conditions ==
    /\ NothingSlow <=> "slow_start" \notin faults /\ "slow_run" \notin faults
    /\ InStep <=> /\ "slow_run" \notin faults
                  /\ "slow_start" \notin faults \/ "torn_open" \notin faults
BY DEF NothingSlow, InStep

LEMMA InitIInv == Init => IInv
<1> SUFFICES ASSUME Init PROVE IInv
  OBVIOUS
<1> USE CampaignAssumption DEF Init, SessionOn
<1>1. Types
  BY DEF Types, Iter, AnInput
<1>2. Jvms = {} /\ Running = {} /\ Iter = 0
  BY DEF Jvms, Iter, Running
<1>3. Outstanding = 0
  BY <1>2, FS_EmptySet DEF Outstanding
<1>4. Phases /\ FileStates
  BY DEF Phases, FileStates
<1>5. EndTimes
  BY <1>2 DEF EndTimes
<1>6. Backlog
  BY <1>2, <1>3 DEF Backlog
<1>7. OwnJvm
  BY DEF OwnJvm
<1>8. OwnJvmInTime /\ OthersInTime
  BY <1>2 DEF OwnJvmInTime, OthersInTime
<1>9. OneRequest /\ RequestHeld /\ AnswerHeld /\ Served /\ Matching
  BY <1>3 DEF OneRequest, RequestHeld, AnswerHeld, Served, Matching
<1> QED
  BY <1>1, <1>4, <1>5, <1>6, <1>7, <1>8, <1>9 DEF IInv

LEMMA SpawnIInv ==
    ASSUME IInv, Spawn
    PROVE  IInv'
<1> USE DEF IInv, Sizes, SessionOn
<1>c. Sizes
  BY Pieces
<1>d. /\ script = "spawn" /\ Iter < Iterations /\ script' = "sleep"
      /\ jvm' = Append(jvm, "start") /\ req' = Append(req, NoInput)
      /\ UNCHANGED <<faults, afl, proxy, input, inputFile, answer, a2j, j2a, endTime>>
  BY DEF Spawn, fifos
<1>b. /\ jvm' \in Seq(JvmStates) /\ Iter' = Iter + 1 /\ Jvms' = Jvms \cup {Iter + 1}
      /\ \A k \in Jvms : jvm'[k] = jvm[k]
      /\ jvm'[Iter + 1] = "start" /\ Iter + 1 \notin Jvms
      /\ Running' = Running
  <2>1. jvm \in Seq(JvmStates) /\ "start" \in JvmStates
    BY DEF Types, JvmStates
  <2>2. /\ jvm' \in Seq(JvmStates) /\ Len(jvm') = Len(jvm) + 1
        /\ \A k \in 1 .. Len(jvm) : jvm'[k] = jvm[k]
        /\ jvm'[Len(jvm) + 1] = "start"
    BY <1>d, <2>1, AppendProperties
  <2>3. Jvms' = Jvms \cup {Iter + 1} /\ Iter + 1 \notin Jvms
    BY <2>1, <2>2 DEF Jvms, Iter
  <2>4. Running' = Running
    BY <2>2 DEF Running, Jvms, Iter
  <2> QED
    BY <2>2, <2>4 DEF Jvms, Iter
<1>e. (NothingSlow' <=> NothingSlow) /\ (InStep' <=> InStep)
  BY <1>d DEF NothingSlow, InStep
<1>1. Types'
  <2>1. req \in Seq(AnInput) /\ NoInput \in AnInput
    BY DEF Types, AnInput
  <2>2. req' \in Seq(AnInput) /\ Len(req') = Len(req) + 1
    BY <1>d, <2>1, AppendProperties
  <2> QED
    BY <1>b, <1>c, <1>d, <2>2, SMTT(30) DEF Types
<1>2. Phases'
  BY <1>b, <1>c, <1>d DEF Phases
<1>13. FileStates'
  BY <1>d DEF FileStates
<1>3. EndTimes'
  BY <1>b, <1>d DEF EndTimes
<1>4. Backlog'
  BY <1>b, <1>d DEF Backlog, Outstanding, Types, Phases
<1>5. OwnJvm'
  BY <1>b DEF OwnJvm
<1>6. OwnJvmInTime'
  BY <1>d DEF OwnJvmInTime, Phases
<1>7. OthersInTime'
  <2>1. \A k \in Jvms' : k < Iter' => k \in Jvms
    BY <1>b, <1>c
  <2> QED
    BY <1>b, <1>d, <1>e, <2>1 DEF OthersInTime, Phases
<1>8. OneRequest'
  BY <1>b, <1>d, <1>e DEF OneRequest, Outstanding
<1>9. RequestHeld'
  BY <1>b, <1>d, <1>e DEF RequestHeld, AWaiting
<1>10. AnswerHeld'
  BY <1>b, <1>d, <1>e DEF AnswerHeld, Outstanding
<1>11. Served'
  BY <1>d DEF Served, Phases
<1>12. Matching'
  BY <1>d, <1>e DEF Matching, Phases
<1> QED
  BY <1>1, <1>2, <1>3, <1>4, <1>5, <1>6, <1>7, <1>8, <1>9, <1>10, <1>11, <1>12,
     <1>13

LEMMA GiveUpIInv ==
    ASSUME IInv, GiveUp
    PROVE  IInv'
<1> USE DEF IInv, SessionOn
<1>c. Sizes
  BY Pieces
<1>d. /\ script = "spawn" /\ script' = "done"
      /\ UNCHANGED <<faults, jvm, req, afl, proxy, input, inputFile, answer, a2j, j2a, endTime>>
  BY DEF GiveUp, fifos
<1>b. Iter' = Iter /\ Jvms' = Jvms /\ Running' = Running /\ jvm' = jvm
  BY <1>d DEF Iter, Jvms, Running
<1>e. (NothingSlow' <=> NothingSlow) /\ (InStep' <=> InStep)
  BY <1>d DEF NothingSlow, InStep
<1>1. Types'
  BY <1>b, <1>c, <1>d DEF Types
<1>2. Phases'
  BY <1>d DEF Phases
<1>13. FileStates'
  BY <1>d DEF FileStates
<1>3. EndTimes'
  BY <1>b, <1>d DEF EndTimes
<1>4. Backlog'
  BY <1>b, <1>d DEF Backlog, Outstanding
<1>5. OwnJvm'
  BY <1>d, <1>e DEF OwnJvm, Phases
<1>6. OwnJvmInTime'
  BY <1>d DEF OwnJvmInTime, Phases
<1>7. OthersInTime'
  BY <1>b, <1>d DEF OthersInTime, NothingSlow
<1>8. OneRequest'
  BY <1>b, <1>d, <1>e DEF OneRequest, Outstanding
<1>9. RequestHeld'
  BY <1>b, <1>d, <1>e DEF RequestHeld, AWaiting
<1>10. AnswerHeld'
  BY <1>b, <1>d, <1>e DEF AnswerHeld, Outstanding
<1>11. Served'
  BY <1>d DEF Served, Phases
<1>12. Matching'
  BY <1>b, <1>d, <1>e DEF Matching
<1> QED
  BY <1>1, <1>2, <1>3, <1>4, <1>5, <1>6, <1>7, <1>8, <1>9, <1>10, <1>11, <1>12,
     <1>13

LEMMA StartFuzzerIInv ==
    ASSUME IInv, StartFuzzer
    PROVE  IInv'
<1> USE DEF IInv, Sizes, SessionOn, ProxyReads, Writes
<1>c. Sizes
  BY Pieces
<1>d. /\ script = "sleep" /\ Rested
      /\ script' = "fuzz" /\ afl' = "init" /\ proxy' = "new"
      /\ UNCHANGED <<faults, jvm, req, input, inputFile, answer, a2j, j2a, endTime>>
  BY DEF StartFuzzer, fifos
<1>b. Iter' = Iter /\ Jvms' = Jvms /\ Running' = Running /\ jvm' = jvm
  BY <1>d DEF Iter, Jvms, Running
<1>e. (NothingSlow' <=> NothingSlow) /\ (InStep' <=> InStep)
  BY <1>d DEF NothingSlow, InStep
<1>f. InStep => \A j \in Jvms : jvm[j] \in {"start", "open_a2j", "open_j2a", "dead", "exited"}
  <2>1. \A j \in Jvms : j \in 1 .. Iter - 1 \/ j = Iter
    BY <1>c DEF Jvms
  <2> QED
    BY <1>d, <2>1, Conditions DEF Rested, OwnJvm
<1>g. InStep => Outstanding = 0 /\ a2j = <<>> /\ j2a = <<>>
  <2> SUFFICES ASSUME InStep PROVE Outstanding = 0 /\ a2j = <<>> /\ j2a = <<>>
    OBVIOUS
  <2>1. Cardinality(Running) = 0
    BY <1>c, <1>f
  <2>2. a2j = <<>>
    BY <1>f DEF RequestHeld, AWaiting
  <2>3. j2a = <<>>
    <3> SUFFICES ASSUME j2a /= <<>> PROVE FALSE
      OBVIOUS
    <3>1. ~SessionOn
      BY <1>d DEF Phases
    <3>2. PICK j \in Jvms : Writes(jvm[j])
      BY <3>1 DEF AnswerHeld
    <3>3. jvm[j] = "open_j2a"
      BY <1>f, <3>2
    <3> QED
      BY <1>c, <3>1, <3>3 DEF AnswerHeld, Outstanding
  <2> QED
    BY <2>1, <2>2, <2>3 DEF Outstanding
<1>h. Outstanding' = Outstanding /\ Iter \in Jvms
  BY <1>b, <1>c, <1>d DEF Outstanding, Jvms, Phases
<1>1. Types'
  BY <1>b, <1>c, <1>d DEF Types
<1>2. Phases'
  BY <1>b, <1>d DEF Phases
<1>13. FileStates'
  BY <1>d DEF FileStates
<1>3. EndTimes'
  BY <1>b, <1>d DEF EndTimes
<1>4. Backlog'
  BY <1>b, <1>d DEF Backlog, Outstanding
<1>5. OwnJvm'
  BY <1>b, <1>d, <1>e DEF OwnJvm
<1>6. OwnJvmInTime'
  BY <1>b, <1>d, <1>e, Conditions DEF OwnJvmInTime, OwnJvm, Rested
<1>7. OthersInTime'
  <2>1. \A j \in Jvms : j < Iter => j \in 1 .. Iter - 1
    BY <1>c DEF Jvms
  <2> QED
    BY <1>b, <1>d, <1>e, <2>1, Conditions DEF OthersInTime, Rested
<1>8. OneRequest'
  BY <1>e, <1>g, <1>h DEF OneRequest
<1>9. RequestHeld'
  BY <1>b, <1>d, <1>e DEF RequestHeld, AWaiting
<1>10. AnswerHeld'
  BY <1>d DEF AnswerHeld
<1>11. Served'
  BY <1>b, <1>d, <1>e, <1>f DEF Served
<1>12. Matching'
  BY <1>b, <1>d, <1>e, <1>f, <1>g DEF Matching
<1> QED
  BY <1>1, <1>2, <1>3, <1>4, <1>5, <1>6, <1>7, <1>8, <1>9, <1>10, <1>11, <1>12,
     <1>13

LEMMA FuzzerEndedIInv ==
    ASSUME IInv, FuzzerEnded
    PROVE  IInv'
<1> USE DEF IInv, SessionOn
<1>c. Sizes
  BY Pieces
<1>d. /\ script = "fuzz" /\ afl = "gone" /\ script' \in {"done", "spawn"}
      /\ UNCHANGED <<faults, jvm, req, afl, proxy, input, inputFile, answer, a2j, j2a, endTime>>
  BY DEF FuzzerEnded, fifos
<1>b. Iter' = Iter /\ Jvms' = Jvms /\ Running' = Running /\ jvm' = jvm
  BY <1>d DEF Iter, Jvms, Running
<1>e. (NothingSlow' <=> NothingSlow) /\ (InStep' <=> InStep)
  BY <1>d DEF NothingSlow, InStep
<1>1. Types'
  BY <1>b, <1>c, <1>d DEF Types
<1>2. Phases'
  BY <1>d DEF Phases
<1>13. FileStates'
  BY <1>d DEF FileStates
<1>3. EndTimes'
  BY <1>b, <1>d DEF EndTimes
<1>4. Backlog'
  BY <1>b, <1>d DEF Backlog, Outstanding
<1>5. OwnJvm'
  BY <1>d, <1>e DEF OwnJvm, Phases
<1>6. OwnJvmInTime'
  BY <1>d DEF OwnJvmInTime
<1>7. OthersInTime'
  BY <1>b, <1>d DEF OthersInTime, NothingSlow
<1>8. OneRequest'
  BY <1>b, <1>d, <1>e DEF OneRequest, Outstanding
<1>9. RequestHeld'
  BY <1>b, <1>d, <1>e DEF RequestHeld, AWaiting
<1>10. AnswerHeld'
  BY <1>b, <1>d, <1>e DEF AnswerHeld, Outstanding
<1>11. Served'
  BY <1>d DEF Served
<1>12. Matching'
  BY <1>d, <1>e DEF Matching
<1> QED
  BY <1>1, <1>2, <1>3, <1>4, <1>5, <1>6, <1>7, <1>8, <1>9, <1>10, <1>11, <1>12,
     <1>13

LEMMA ProxyOpenA2JIInv ==
    ASSUME IInv, ProxyOpenA2J
    PROVE  IInv'
<1> USE DEF IInv, Sizes, SessionOn, ProxyReads, Reads
<1>c. Sizes
  BY Pieces
<1>d. /\ proxy = "new"
      /\ \/ proxy' = "opened" /\ \E j \in Jvms : Reads(jvm[j])
         \/ proxy' = "open_a2j" /\ \A j \in Jvms : ~Reads(jvm[j])
      /\ jvm' = Woken("open_a2j", "opened")
      /\ UNCHANGED <<faults, script, req, afl, input, inputFile, answer, a2j, j2a, endTime>>
  BY DEF ProxyOpenA2J, fifos
<1>b. /\ jvm' \in Seq(JvmStates) /\ Iter' = Iter /\ Jvms' = Jvms
      /\ \A k \in Jvms : jvm'[k] = IF jvm[k] = "open_a2j" THEN "opened" ELSE jvm[k]
      /\ Running' = Running
  BY <1>d, ManyGo DEF JvmStates
<1>e. (NothingSlow' <=> NothingSlow) /\ (InStep' <=> InStep)
  BY <1>d DEF NothingSlow, InStep
<1>1. Types'
  BY <1>b, <1>c, <1>d DEF Types
<1>2. Phases'
  BY <1>b, <1>d DEF Phases
<1>13. FileStates'
  BY <1>d DEF FileStates
<1>3. EndTimes'
  BY <1>b, <1>d DEF EndTimes
<1>4. Backlog'
  BY <1>b, <1>d DEF Backlog, Outstanding
<1>5. OwnJvm'
  BY <1>b, <1>c, <1>d, <1>e DEF OwnJvm, Phases, Jvms
<1>6. OwnJvmInTime'
  BY <1>b, <1>d, Conditions DEF OwnJvmInTime, Types, Phases, Jvms, NothingSlow
<1>7. OthersInTime'
  BY <1>b, <1>d DEF OthersInTime, NothingSlow
<1>8. OneRequest'
  BY <1>b, <1>d, <1>e DEF OneRequest, Outstanding
<1>9. RequestHeld'
  BY <1>b, <1>d, <1>e DEF RequestHeld, AWaiting
<1>10. AnswerHeld'
  BY <1>d DEF AnswerHeld, Phases
<1>11. Served'
  BY <1>b, <1>d, <1>e DEF Served
<1>12. Matching'
  BY <1>b, <1>d, <1>e DEF Matching
<1> QED
  BY <1>1, <1>2, <1>3, <1>4, <1>5, <1>6, <1>7, <1>8, <1>9, <1>10, <1>11, <1>12,
     <1>13

LEMMA ProxyOpenJ2AIInv ==
    ASSUME IInv, ProxyOpenJ2A
    PROVE  IInv'
<1>c. Sizes
  BY Pieces DEF IInv
<1> USE CampaignAssumption
           DEF IInv, Sizes, SessionOn, ProxyWrites, ProxyReads, Reads, Writes
<1>d. /\ proxy = "opened"
      /\ \/ proxy' = "up" /\ \E j \in Jvms : Writes(jvm[j])
         \/ proxy' = "open_j2a" /\ \A j \in Jvms : ~Writes(jvm[j])
      /\ jvm' = Woken("open_j2a", "wait")
      /\ UNCHANGED <<faults, script, req, afl, input, inputFile, answer, a2j, j2a, endTime>>
  BY DEF ProxyOpenJ2A, fifos
<1>b. /\ jvm' \in Seq(JvmStates) /\ Iter' = Iter /\ Jvms' = Jvms
      /\ \A k \in Jvms : jvm'[k] = IF jvm[k] = "open_j2a" THEN "wait" ELSE jvm[k]
      /\ Running' = Running
  BY <1>d, ManyGo DEF JvmStates
<1>e. (NothingSlow' <=> NothingSlow) /\ (InStep' <=> InStep)
  BY <1>d DEF NothingSlow, InStep
<1>1. Types'
  BY <1>b, <1>c, <1>d DEF Types
<1>2. Phases'
  BY <1>b, <1>d DEF Phases
<1>13. FileStates'
  BY <1>d DEF FileStates
<1>3. EndTimes'
  BY <1>b, <1>d DEF EndTimes
<1>4. Backlog'
  BY <1>b, <1>d DEF Backlog, Outstanding
<1>5. OwnJvm'
  BY <1>b, <1>c, <1>d, <1>e, SMTT(30) DEF OwnJvm, Types, Phases, Jvms
<1>6. OwnJvmInTime'
  <2>1. \A k \in Jvms : k < Iter \/ k = Iter
    BY <1>c DEF Jvms
  <2>2. Iter \in Jvms /\ SessionOn
    BY <1>c, <1>d DEF Jvms, Phases
  <2> QED
    BY <1>b, <1>d, <1>e, <2>1, <2>2 DEF OwnJvmInTime, OthersInTime
<1>7. OthersInTime'
  BY <1>b, <1>d DEF OthersInTime, NothingSlow
<1>8. OneRequest'
  BY <1>b, <1>d, <1>e DEF OneRequest, Outstanding
<1>9. RequestHeld'
  BY <1>b, <1>d, <1>e DEF RequestHeld, AWaiting
<1>10. AnswerHeld'
  BY <1>d DEF AnswerHeld, Phases
<1>11. Served'
  BY <1>b, <1>d, <1>e DEF Served, AWaiting
<1>12. Matching'
  BY <1>b, <1>d, <1>e DEF Matching
<1> QED
  BY <1>1, <1>2, <1>3, <1>4, <1>5, <1>6, <1>7, <1>8, <1>9, <1>10, <1>11, <1>12,
     <1>13

LEMMA AflInitIInv ==
    ASSUME IInv, AflInit
    PROVE  IInv'
<1> USE DEF IInv, SessionOn, ProxyReads
<1>c. Sizes
  BY Pieces
<1>d. /\ afl = "init" /\ proxy = "up" /\ afl' = "idle"
      /\ UNCHANGED <<faults, script, jvm, req, proxy, input, inputFile, answer, a2j, j2a, endTime>>
  BY DEF AflInit, fifos
<1>b. Iter' = Iter /\ Jvms' = Jvms /\ Running' = Running /\ jvm' = jvm
  BY <1>d DEF Iter, Jvms, Running
<1>e. (NothingSlow' <=> NothingSlow) /\ (InStep' <=> InStep)
  BY <1>d DEF NothingSlow, InStep
<1>1. Types'
  BY <1>b, <1>c, <1>d DEF Types
<1>2. Phases'
  BY <1>b, <1>d DEF Phases
<1>13. FileStates'
  BY <1>d DEF FileStates
<1>3. EndTimes'
  BY <1>b, <1>d DEF EndTimes
<1>4. Backlog'
  BY <1>b, <1>d DEF Backlog, Outstanding
<1>5. OwnJvm'
  BY <1>b, <1>d, <1>e DEF OwnJvm
<1>6. OwnJvmInTime'
  BY <1>b, <1>d DEF OwnJvmInTime, NothingSlow
<1>7. OthersInTime'
  BY <1>b, <1>d DEF OthersInTime, NothingSlow
<1>8. OneRequest'
  BY <1>b, <1>d, <1>e DEF OneRequest, Outstanding
<1>9. RequestHeld'
  BY <1>b, <1>d, <1>e DEF RequestHeld, AWaiting
<1>10. AnswerHeld'
  BY <1>d DEF AnswerHeld
<1>11. Served'
  BY <1>b, <1>d, <1>e DEF Served, AWaiting
<1>12. Matching'
  BY <1>b, <1>d, <1>e DEF Matching
<1> QED
  BY <1>1, <1>2, <1>3, <1>4, <1>5, <1>6, <1>7, <1>8, <1>9, <1>10, <1>11, <1>12,
     <1>13

LEMMA SessionOverIInv ==
    ASSUME IInv, HandshakeTimeout \/ NobodyAnswers \/ Timeout
    PROVE  IInv'
<1> USE CampaignAssumption DEF IInv, Sizes, SessionOn, ProxyReads, Writes
<1>c. Sizes
  BY Pieces
<1>d. /\ \/ /\ afl = "init" /\ proxy \in {"open_a2j", "open_j2a"}
            /\ \A j \in Jvms : jvm[j] /= "opened"
         \/ afl = "asked" /\ j2a = <<>> /\ \A j \in Jvms : ~Writes(jvm[j])
         \/ /\ afl \in {"idle", "create", "write", "send", "asked"}
            /\ "torn_open" \in faults \/ \A j \in Jvms : jvm[j] /= "opened"
      /\ proxy' = "gone" /\ afl' \in {"gone", "stopped"} /\ answer' = NoInput
      /\ a2j' \in {a2j, <<>>} /\ j2a' \in {j2a, <<>>}
      /\ j2a' /= <<>> => \E j \in Jvms : Writes(jvm[j])
      /\ UNCHANGED <<faults, script, jvm, req, input, inputFile, endTime>>
  BY DEF HandshakeTimeout, NobodyAnswers, Timeout, SessionOver, Left
<1>b. Iter' = Iter /\ Jvms' = Jvms /\ Running' = Running /\ jvm' = jvm
  BY <1>d DEF Iter, Jvms, Running
<1>e. (NothingSlow' <=> NothingSlow) /\ (InStep' <=> InStep)
  BY <1>d DEF NothingSlow, InStep
<1>f. /\ a2j' \in Seq({"HELO"}) /\ Len(a2j') \in 0 .. Len(a2j)
      /\ j2a' \in Seq([input : AnInput, by : Nat]) /\ Len(j2a') \in 0 .. Len(j2a)
  <2>1. a2j \in Seq({"HELO"}) /\ j2a \in Seq([input : AnInput, by : Nat])
    BY DEF Types
  <2>2. a2j' \in {a2j, <<>>} /\ j2a' \in {j2a, <<>>}
    BY <1>d
  <2> QED
    BY <2>1, <2>2, KeptOrLost
<1>g. Outstanding' \in 0 .. Outstanding
  BY <1>b, <1>c, <1>f DEF Outstanding
<1>h. SessionOn /\ script = "fuzz" /\ ~SessionOn'
  BY <1>d DEF Phases
<1>1. Types'
  BY <1>b, <1>d, <1>f DEF Types
<1>2. Phases'
  BY <1>b, <1>d DEF Phases
<1>13. FileStates'
  BY <1>d DEF FileStates
<1>3. EndTimes'
  BY <1>b, <1>d DEF EndTimes
<1>4. Backlog'
  BY <1>b, <1>c, <1>d, SMTT(30) DEF Backlog, Outstanding
<1>5. OwnJvm'
  BY <1>d, <1>e DEF OwnJvm, Phases
<1>6. OwnJvmInTime'
  BY <1>d DEF OwnJvmInTime
<1>7. OthersInTime'
  <2>1. \A k \in Jvms : k < Iter \/ k = Iter
    BY <1>c DEF Jvms
  <2>2. NothingSlow /\ Iter \in Jvms => jvm[Iter] \in {"wait", "open", "run", "dead"}
    BY <1>d, <1>h DEF OwnJvmInTime, Phases
  <2> QED
    BY <1>b, <1>e, <1>h, <2>1, <2>2 DEF OthersInTime
<1>8. OneRequest'
  BY <1>c, <1>d, <1>e, <1>g DEF OneRequest, Outstanding
<1>9. RequestHeld'
  BY <1>b, <1>d, <1>e DEF RequestHeld, AWaiting
<1>10. AnswerHeld'
  <2>1. InStep /\ (\E k \in Jvms : jvm[k] \in {"opened", "open_j2a"}) => Outstanding = 0
    <3> SUFFICES ASSUME InStep, NEW k \in Jvms, jvm[k] \in {"opened", "open_j2a"}
                 PROVE  Outstanding = 0
      OBVIOUS
    <3>1. CASE afl = "init"
      BY <1>c, <3>1 DEF OneRequest, Outstanding
    <3>2. CASE afl = "asked" /\ j2a = <<>> /\ \A i \in Jvms : ~Writes(jvm[i])
      BY <1>c, <3>2 DEF RequestHeld, AWaiting, Outstanding
    <3>3. CASE /\ afl \in {"idle", "create", "write", "send", "asked"}
               /\ \A i \in Jvms : jvm[i] /= "opened"
      BY <3>3 DEF Served, Phases
    <3>4. CASE afl \in {"idle", "create", "write", "send", "asked"} /\ NothingSlow
      <4>1. k < Iter \/ k = Iter
        BY <1>c DEF Jvms
      <4> QED
        BY <1>h, <3>4, <4>1 DEF OwnJvmInTime, OthersInTime, Phases
    <3> QED
      BY <1>d, <3>1, <3>2, <3>3, <3>4, Conditions
  <2> QED
    BY <1>b, <1>d, <1>e, <1>g, <2>1 DEF AnswerHeld
<1>11. Served'
  BY <1>d DEF Served
<1>12. Matching'
  BY <1>d, <1>e DEF Matching
<1> QED
  BY <1>1, <1>2, <1>3, <1>4, <1>5, <1>6, <1>7, <1>8, <1>9, <1>10, <1>11, <1>12,
     <1>13

LEMMA UnlinkInputIInv ==
    ASSUME IInv, UnlinkInput
    PROVE  IInv'
<1> USE DEF IInv, SessionOn, ProxyReads
<1>c. Sizes
  BY Pieces
<1>d. /\ afl = "idle" /\ SessionOn /\ afl' = "create"
      /\ input' \in AnInput /\ inputFile' = "missing" /\ answer' = NoInput
      /\ UNCHANGED <<faults, script, jvm, req, proxy, a2j, j2a, endTime>>
  <2>1. afl = "idle" /\ Iter \in 1 .. Iterations /\ input \in AnInput
    BY <1>c DEF UnlinkInput, MayAsk, Phases, Types, Sizes
  <2>2. input' \in AnInput
    BY <2>1, CampaignAssumption DEF UnlinkInput, NextInput, AnInput
  <2> QED
    BY <2>1, <2>2 DEF UnlinkInput, fifos
<1>b. Iter' = Iter /\ Jvms' = Jvms /\ Running' = Running /\ jvm' = jvm
  BY <1>d DEF Iter, Jvms, Running
<1>e. (NothingSlow' <=> NothingSlow) /\ (InStep' <=> InStep)
  BY <1>d DEF NothingSlow, InStep
<1>1. Types'
  BY <1>b, <1>c, <1>d DEF Types
<1>2. Phases'
  BY <1>b, <1>d DEF Phases
<1>3. FileStates'
  BY <1>d DEF FileStates
<1>4. EndTimes'
  BY <1>b, <1>d DEF EndTimes
<1>5. Backlog'
  BY <1>b, <1>d DEF Backlog, Outstanding
<1>6. OwnJvm'
  BY <1>b, <1>d, <1>e DEF OwnJvm
<1>7. OwnJvmInTime'
  BY <1>b, <1>d, <1>e DEF OwnJvmInTime
<1>8. OthersInTime'
  BY <1>b, <1>d, <1>e DEF OthersInTime
<1>9. OneRequest'
  BY <1>b, <1>d, <1>e DEF OneRequest, Outstanding
<1>10. RequestHeld'
  BY <1>b, <1>d, <1>e DEF RequestHeld, AWaiting
<1>11. AnswerHeld'
  BY <1>b, <1>d, <1>e DEF AnswerHeld, Outstanding
<1>12. Served'
  BY <1>b, <1>d, <1>e DEF Served, AWaiting
<1>13. Matching'
  <2>1. InStep => Outstanding = 0
    BY <1>c, <1>d DEF OneRequest, Outstanding, Sizes
  <2>2. InStep => j2a = <<>> /\ \A j \in Jvms : jvm[j] /= "run"
    BY <1>c, <2>1 DEF Outstanding, Sizes
  <2> QED
    BY <1>b, <1>d, <1>e, <2>2 DEF Matching
<1> QED
  BY <1>1, <1>2, <1>3, <1>4, <1>5, <1>6, <1>7, <1>8, <1>9, <1>10, <1>11, <1>12,
     <1>13

LEMMA CreateInputIInv ==
    ASSUME IInv, CreateInput
    PROVE  IInv'
<1> USE DEF IInv, SessionOn, ProxyReads
<1>c. Sizes
  BY Pieces
<1>d. /\ \/ afl = "create" /\ afl' = "write"
         \/ afl = "stopped" /\ afl' = "stopped"
      /\ inputFile' = "empty"
      /\ UNCHANGED <<faults, script, jvm, req, proxy, input, answer, a2j, j2a, endTime>>
  BY DEF CreateInput, fifos
<1>b. Iter' = Iter /\ Jvms' = Jvms /\ Running' = Running /\ jvm' = jvm
  BY <1>d DEF Iter, Jvms, Running
<1>e. (NothingSlow' <=> NothingSlow) /\ (InStep' <=> InStep)
  BY <1>d DEF NothingSlow, InStep
<1>1. Types'
  BY <1>b, <1>c, <1>d DEF Types
<1>2. Phases'
  BY <1>b, <1>d DEF Phases
<1>3. FileStates'
  BY <1>d DEF FileStates
<1>4. EndTimes'
  BY <1>b, <1>d DEF EndTimes
<1>5. Backlog'
  BY <1>b, <1>d DEF Backlog, Outstanding
<1>6. OwnJvm'
  BY <1>b, <1>d, <1>e DEF OwnJvm
<1>7. OwnJvmInTime'
  BY <1>b, <1>d, <1>e DEF OwnJvmInTime
<1>8. OthersInTime'
  BY <1>b, <1>d, <1>e DEF OthersInTime
<1>9. OneRequest'
  BY <1>b, <1>d, <1>e DEF OneRequest, Outstanding
<1>10. RequestHeld'
  BY <1>b, <1>d, <1>e DEF RequestHeld, AWaiting
<1>11. AnswerHeld'
  BY <1>b, <1>d, <1>e DEF AnswerHeld, Outstanding
<1>12. Served'
  BY <1>b, <1>d, <1>e DEF Served, AWaiting
<1>13. Matching'
  BY <1>b, <1>d, <1>e DEF Matching
<1> QED
  BY <1>1, <1>2, <1>3, <1>4, <1>5, <1>6, <1>7, <1>8, <1>9, <1>10, <1>11, <1>12,
     <1>13

LEMMA WriteInputIInv ==
    ASSUME IInv, WriteInput
    PROVE  IInv'
<1> USE DEF IInv, SessionOn, ProxyReads
<1>c. Sizes
  BY Pieces
<1>d. /\ \/ afl = "write" /\ afl' = "send"
         \/ afl = "stopped" /\ afl' = "gone"
      /\ inputFile' = "full"
      /\ UNCHANGED <<faults, script, jvm, req, proxy, input, answer, a2j, j2a, endTime>>
  BY DEF WriteInput, fifos
<1>b. Iter' = Iter /\ Jvms' = Jvms /\ Running' = Running /\ jvm' = jvm
  BY <1>d DEF Iter, Jvms, Running
<1>e. (NothingSlow' <=> NothingSlow) /\ (InStep' <=> InStep)
  BY <1>d DEF NothingSlow, InStep
<1>1. Types'
  BY <1>b, <1>c, <1>d DEF Types
<1>2. Phases'
  BY <1>b, <1>d DEF Phases
<1>3. FileStates'
  BY <1>d DEF FileStates
<1>4. EndTimes'
  BY <1>b, <1>d DEF EndTimes
<1>5. Backlog'
  BY <1>b, <1>d DEF Backlog, Outstanding
<1>6. OwnJvm'
  BY <1>b, <1>d, <1>e DEF OwnJvm
<1>7. OwnJvmInTime'
  BY <1>b, <1>d, <1>e DEF OwnJvmInTime
<1>8. OthersInTime'
  BY <1>b, <1>d, <1>e DEF OthersInTime
<1>9. OneRequest'
  BY <1>b, <1>d, <1>e DEF OneRequest, Outstanding
<1>10. RequestHeld'
  BY <1>b, <1>d, <1>e DEF RequestHeld, AWaiting
<1>11. AnswerHeld'
  BY <1>b, <1>d, <1>e DEF AnswerHeld, Outstanding
<1>12. Served'
  BY <1>b, <1>d, <1>e DEF Served, AWaiting
<1>13. Matching'
  BY <1>b, <1>d, <1>e DEF Matching
<1> QED
  BY <1>1, <1>2, <1>3, <1>4, <1>5, <1>6, <1>7, <1>8, <1>9, <1>10, <1>11, <1>12,
     <1>13

LEMMA AskIInv ==
    ASSUME IInv, Ask
    PROVE  IInv'
<1>c. Sizes
  BY Pieces DEF IInv
<1> USE CampaignAssumption
           DEF IInv, Sizes, SessionOn, ProxyWrites, ProxyReads, Reads, Writes
<1>d. /\ afl = "send" /\ SessionOn /\ proxy = "up" /\ script = "fuzz" /\ afl' = "asked"
      /\ \/ a2j' = a2j
         \/ a2j' \in Seq({"HELO"}) /\ Len(a2j') = Len(a2j) + 1 /\ a2j' /= <<>>
      /\ UNCHANGED <<faults, script, jvm, req, proxy, input, inputFile, answer, j2a, endTime>>
  <2>1. afl = "send" /\ script = "fuzz" /\ proxy = "up"
    BY DEF Ask, Phases
  <2>2. a2j' = a2j \/ (a2j' \in Seq({"HELO"}) /\ Len(a2j') = Len(a2j) + 1 /\ a2j' /= <<>>)
    <3>1. /\ Append(a2j, "HELO") \in Seq({"HELO"})
          /\ Len(Append(a2j, "HELO")) = Len(a2j) + 1
      BY AppendProperties DEF Types
    <3>2. Append(a2j, "HELO") /= <<>>
      BY <3>1, <1>c, EmptySeq DEF Sizes
    <3>3. a2j' \in {a2j, Append(a2j, "HELO")}
      BY DEF Ask
    <3> QED
      BY <3>1, <3>2, <3>3
  <2> QED
    BY <2>1, <2>2 DEF Ask
<1>b. Iter' = Iter /\ Jvms' = Jvms /\ Running' = Running /\ jvm' = jvm
  BY <1>d DEF Iter, Jvms, Running
<1>e. (NothingSlow' <=> NothingSlow) /\ (InStep' <=> InStep)
  BY <1>d DEF NothingSlow, InStep
<1>f. Outstanding' \in {Outstanding, Outstanding + 1} /\ Outstanding \in Nat
  <2>1. Cardinality(Running') = Cardinality(Running)
    BY <1>b
  <2>2. Len(a2j') \in {Len(a2j), Len(a2j) + 1} /\ Len(j2a') = Len(j2a)
    BY <1>d
  <2> QED
    BY <1>c, <2>1, <2>2 DEF Outstanding
<1>1. Types'
  BY <1>b, <1>c, <1>d DEF Types
<1>2. Phases'
  BY <1>b, <1>d DEF Phases
<1>13. FileStates'
  BY <1>d DEF FileStates
<1>3. EndTimes'
  BY <1>b, <1>d DEF EndTimes
<1>4. Backlog'
  <2>1. Iter \in Nat /\ Outstanding <= Iter - 1
    BY <1>c, <1>d DEF Backlog, Phases
  <2>2. Outstanding' <= Iter'
    BY <1>b, <1>f, <2>1
  <2> QED
    BY <1>d, <2>2 DEF Backlog
<1>5. OwnJvm'
  BY <1>b, <1>d, <1>e DEF OwnJvm
<1>6. OwnJvmInTime'
  BY <1>b, <1>d DEF OwnJvmInTime, NothingSlow
<1>7. OthersInTime'
  BY <1>b, <1>d DEF OthersInTime, NothingSlow
<1>8. OneRequest'
  BY <1>d, <1>e, <1>f DEF OneRequest
<1>9. RequestHeld'
  BY <1>b, <1>d, <1>e DEF RequestHeld, AWaiting, Phases, Served
<1>10. AnswerHeld'
  BY <1>d DEF AnswerHeld
<1>11. Served'
  BY <1>b, <1>d, <1>e DEF Served, AWaiting
<1>12. Matching'
  BY <1>b, <1>d, <1>e DEF Matching
<1> QED
  BY <1>1, <1>2, <1>3, <1>4, <1>5, <1>6, <1>7, <1>8, <1>9, <1>10, <1>11, <1>12,
     <1>13

LEMMA AnsweredIInv ==
    ASSUME IInv, Answered
    PROVE  IInv'
<1>c. Sizes
  BY Pieces DEF IInv
<1> USE CampaignAssumption
           DEF IInv, Sizes, SessionOn, ProxyWrites, ProxyReads, Reads, Writes
<1>d. /\ afl = "asked" /\ j2a /= <<>> /\ afl' = "idle"
      /\ answer' = j2a[1] /\ j2a' \in Seq([input : AnInput, by : Nat])
      /\ Len(j2a') = Len(j2a) - 1 /\ (j2a' = <<>> <=> Len(j2a') = 0)
      /\ UNCHANGED <<faults, script, jvm, req, proxy, input, a2j, endTime>>
  <2>1. j2a \in Seq([input : AnInput, by : Nat]) /\ j2a /= <<>>
    BY DEF Answered, Types
  <2>2. /\ Tail(j2a) \in Seq([input : AnInput, by : Nat]) /\ Len(Tail(j2a)) = Len(j2a) - 1
        /\ Head(j2a) = j2a[1]
    BY <2>1, HeadTailProperties
  <2>3. Tail(j2a) = <<>> <=> Len(Tail(j2a)) = 0
    BY <2>2, EmptySeq
  <2> QED
    BY <2>1, <2>2, <2>3 DEF Answered
<1>b. Iter' = Iter /\ Jvms' = Jvms /\ Running' = Running /\ jvm' = jvm
  BY <1>d DEF Iter, Jvms, Running
<1>e. (NothingSlow' <=> NothingSlow) /\ (InStep' <=> InStep)
  BY <1>d DEF NothingSlow, InStep
<1>f. Outstanding' = Outstanding - 1 /\ Outstanding \in Nat /\ Len(j2a) <= Outstanding
  <2>1. Cardinality(Running') = Cardinality(Running)
    BY <1>b
  <2>2. Len(a2j') = Len(a2j) /\ Len(j2a') = Len(j2a) - 1
    BY <1>d
  <2> QED
    BY <1>c, <2>1, <2>2 DEF Outstanding
<1>g. InStep => Outstanding = 1 /\ j2a' = <<>>
  BY <1>c, <1>d, <1>f DEF OneRequest
<1>1. Types'
  <2> HIDE DEF IInv, Sizes, SessionOn, ProxyWrites, ProxyReads, Reads, Writes
  <2>1. Types /\ Iter' = Iter /\ jvm' = jvm /\ a2j' = a2j
    BY <1>b, <1>d DEF IInv
  <2>2. /\ afl' \in {"init", "idle", "create", "write", "send", "asked", "stopped", "gone"}
        /\ j2a' \in Seq([input : AnInput, by : Nat])
    BY <1>d
  <2>3. UNCHANGED <<faults, script, jvm, req, proxy, input, inputFile, a2j, endTime>>
    BY DEF Answered
  <2>4. AnInput' = AnInput
    BY DEF AnInput
  <2> QED
    BY <2>1, <2>2, <2>3, <2>4, Zenon DEF Types, Iter
<1>2. Phases'
  BY <1>b, <1>d DEF Phases
<1>13. FileStates'
  BY <1>d DEF FileStates
<1>3. EndTimes'
  BY <1>b, <1>d DEF EndTimes
<1>4. Backlog'
  BY <1>b, <1>c, <1>d, <1>f DEF Backlog
<1>5. OwnJvm'
  BY <1>b, <1>d, <1>e DEF OwnJvm
<1>6. OwnJvmInTime'
  BY <1>b, <1>d DEF OwnJvmInTime, NothingSlow
<1>7. OthersInTime'
  BY <1>b, <1>d DEF OthersInTime, NothingSlow
<1>8. OneRequest'
  BY <1>e, <1>f DEF OneRequest
<1>9. RequestHeld'
  BY <1>b, <1>d, <1>e DEF RequestHeld, AWaiting
<1>10. AnswerHeld'
  BY <1>d DEF AnswerHeld
<1>11. Served'
  BY <1>b, <1>d, <1>e DEF Served, AWaiting
<1>12. Matching'
  BY <1>b, <1>d, <1>e, <1>g DEF Matching
<1> QED
  BY <1>1, <1>2, <1>3, <1>4, <1>5, <1>6, <1>7, <1>8, <1>9, <1>10, <1>11, <1>12,
     <1>13

LEMMA JvmOpenA2JIInv ==
    ASSUME IInv, NEW j \in Jvms, JvmOpenA2J(j)
    PROVE  IInv'
<1>c. Sizes
  BY Pieces DEF IInv
<1> USE CampaignAssumption
           DEF IInv, Sizes, SessionOn, ProxyWrites, ProxyReads, Reads, Writes
<1>d. /\ jvm[j] = "start"
      /\ Goes(j, IF ProxyWrites THEN "opened" ELSE "open_a2j")
      /\ proxy' = IF proxy = "open_a2j" THEN "opened" ELSE proxy
      /\ UNCHANGED <<faults, script, req, afl, input, inputFile, answer, a2j, j2a, endTime>>
  BY DEF JvmOpenA2J, fifos
<1>b. /\ jvm' \in Seq(JvmStates) /\ Iter' = Iter /\ Jvms' = Jvms
      /\ \A k \in Jvms : jvm'[k] =
           IF k = j THEN (IF ProxyWrites THEN "opened" ELSE "open_a2j") ELSE jvm[k]
      /\ Cardinality(Running') = Cardinality(Running)
             + (IF (IF ProxyWrites THEN "opened" ELSE "open_a2j") \in {"open", "run"} THEN 1 ELSE 0)
             - (IF jvm[j] \in {"open", "run"} THEN 1 ELSE 0)
  BY <1>d, OneGoes DEF JvmStates
<1>e. (NothingSlow' <=> NothingSlow) /\ (InStep' <=> InStep)
  BY <1>d DEF NothingSlow, InStep
<1>f. Iter \in Jvms /\ Iter' = Iter /\ jvm'[Iter] =
        IF j = Iter THEN (IF ProxyWrites THEN "opened" ELSE "open_a2j") ELSE jvm[Iter]
  BY <1>b, <1>c DEF Jvms
<1>1. Types'
  BY <1>b, <1>c, <1>d DEF Types
<1>2. Phases'
  BY <1>b, <1>d DEF Phases
<1>13. FileStates'
  BY <1>d DEF FileStates
<1>3. EndTimes'
  BY <1>b, <1>d DEF EndTimes
<1>4. Backlog'
  BY <1>b, <1>c, <1>d DEF Backlog, Outstanding
<1>5. OwnJvm'
  <2>1. CASE j = Iter
    BY <1>d, <1>e, <1>f, <2>1 DEF OwnJvm, Phases
  <2>2. CASE j /= Iter
    BY <1>d, <1>e, <1>f, <2>2 DEF OwnJvm, Phases
  <2> QED
    BY <2>1, <2>2
<1>6. OwnJvmInTime'
  BY <1>d, <1>e, <1>f DEF OwnJvmInTime
<1>7. OthersInTime'
  BY <1>b, <1>d DEF OthersInTime, NothingSlow
<1>8. OneRequest'
  BY <1>b, <1>c, <1>d, <1>e DEF OneRequest, Outstanding
<1>9. RequestHeld'
  BY <1>b, <1>d, <1>e DEF RequestHeld, AWaiting
<1>10. AnswerHeld'
  <2> SUFFICES ASSUME InStep, ~SessionOn PROVE AnswerHeld'
    BY <1>d, <1>e DEF AnswerHeld
  <2>1. proxy = "gone" /\ jvm'[j] = "open_a2j"
    BY <1>b DEF Phases
  <2>2. Outstanding' = Outstanding
    BY <1>b, <1>c, <1>d DEF Outstanding
  <2>3. j2a /= <<>> => \E k \in Jvms : Writes(jvm'[k])
    BY <1>b, <1>d DEF AnswerHeld
  <2>4. \A k \in Jvms : jvm'[k] \in {"opened", "open_j2a"}
          => jvm[k] \in {"opened", "open_j2a"}
    BY <1>b, <2>1
  <2> QED
    BY <1>b, <1>d, <2>2, <2>4 DEF AnswerHeld
<1>11. Served'
  BY <1>b, <1>d, <1>e DEF Served, AWaiting
<1>12. Matching'
  BY <1>b, <1>d, <1>e DEF Matching
<1> QED
  BY <1>1, <1>2, <1>3, <1>4, <1>5, <1>6, <1>7, <1>8, <1>9, <1>10, <1>11, <1>12,
     <1>13

LEMMA JvmOpenJ2AIInv ==
    ASSUME IInv, NEW j \in Jvms, JvmOpenJ2A(j)
    PROVE  IInv'
<1>c. Sizes
  BY Pieces DEF IInv
<1> USE CampaignAssumption
           DEF IInv, Sizes, SessionOn, ProxyWrites, ProxyReads, Reads, Writes
<1>d. /\ jvm[j] = "opened"
      /\ Goes(j, IF ProxyReads THEN "wait" ELSE "open_j2a")
      /\ proxy' = IF proxy = "open_j2a" THEN "up" ELSE proxy
      /\ UNCHANGED <<faults, script, req, afl, input, inputFile, answer, a2j, j2a, endTime>>
  BY DEF JvmOpenJ2A, fifos
<1>b. /\ jvm' \in Seq(JvmStates) /\ Iter' = Iter /\ Jvms' = Jvms
      /\ \A k \in Jvms : jvm'[k] =
           IF k = j THEN (IF ProxyReads THEN "wait" ELSE "open_j2a") ELSE jvm[k]
      /\ Cardinality(Running') = Cardinality(Running)
             + (IF (IF ProxyReads THEN "wait" ELSE "open_j2a") \in {"open", "run"} THEN 1 ELSE 0)
             - (IF jvm[j] \in {"open", "run"} THEN 1 ELSE 0)
  BY <1>d, OneGoes DEF JvmStates
<1>e. (NothingSlow' <=> NothingSlow) /\ (InStep' <=> InStep)
  BY <1>d DEF NothingSlow, InStep
<1>f. Iter \in Jvms /\ Iter' = Iter /\ jvm'[Iter] =
        IF j = Iter THEN (IF ProxyReads THEN "wait" ELSE "open_j2a") ELSE jvm[Iter]
  BY <1>b, <1>c DEF Jvms
<1>1. Types'
  BY <1>b, <1>c, <1>d DEF Types
<1>2. Phases'
  BY <1>b, <1>d DEF Phases
<1>13. FileStates'
  BY <1>d DEF FileStates
<1>3. EndTimes'
  BY <1>b, <1>d DEF EndTimes
<1>4. Backlog'
  BY <1>b, <1>c, <1>d DEF Backlog, Outstanding
<1>5. OwnJvm'
  <2>1. CASE j = Iter
    BY <1>d, <1>e, <1>f, <2>1 DEF OwnJvm, Phases
  <2>2. CASE j /= Iter
    BY <1>d, <1>e, <1>f, <2>2 DEF OwnJvm, Phases
  <2> QED
    BY <2>1, <2>2
<1>6. OwnJvmInTime'
  <2>1. j < Iter \/ j = Iter
    BY <1>c DEF Jvms
  <2> QED
    BY <1>d, <1>e, <1>f, <2>1 DEF OwnJvmInTime, OthersInTime
<1>7. OthersInTime'
  BY <1>b, <1>d DEF OthersInTime, NothingSlow
<1>8. OneRequest'
  BY <1>b, <1>c, <1>d, <1>e DEF OneRequest, Outstanding
<1>9. RequestHeld'
  BY <1>b, <1>d, <1>e DEF RequestHeld, AWaiting
<1>10. AnswerHeld'
  BY <1>b, <1>c, <1>d, <1>e DEF AnswerHeld, Outstanding
<1>11. Served'
  <2> SUFFICES ASSUME InStep, SessionOn PROVE Served'
    BY <1>d, <1>e DEF Served
  <2>1. \A k \in Jvms : jvm[k] \notin {"end", "finish"}
    BY DEF Served
  <2>2. \A k \in Jvms : jvm[k] \in {"wait", "run"} => proxy = "up"
    BY DEF Served
  <2>3. ProxyReads => \A k \in Jvms : jvm[k] /= "open_j2a"
    BY DEF Served
  <2>4. CASE ProxyReads
    <3>1. proxy' = "up" /\ jvm'[j] = "wait"
      BY <1>b, <1>d, <2>4
    <3>2. AWaiting'
      BY <1>b, <3>1 DEF AWaiting
    <3> QED
      BY <1>b, <3>1, <3>2 DEF Served
  <2>5. CASE ~ProxyReads
    <3>1. proxy' = proxy /\ jvm'[j] = "open_j2a"
      BY <1>b, <1>d, <2>5
    <3> QED
      BY <1>b, <3>1 DEF Served
  <2> QED
    BY <2>4, <2>5
<1>12. Matching'
  BY <1>b, <1>d, <1>e DEF Matching
<1> QED
  BY <1>1, <1>2, <1>3, <1>4, <1>5, <1>6, <1>7, <1>8, <1>9, <1>10, <1>11, <1>12,
     <1>13

LEMMA JvmTakesIInv ==
    ASSUME IInv, NEW j \in Jvms, JvmWait(j), a2j /= <<>>
    PROVE  IInv'
<1>c. Sizes
  <2>1. Types
    BY DEF IInv
  <2> QED
    BY <2>1, Pieces, Zenon
<1> USE CampaignAssumption
           DEF IInv, Sizes, SessionOn, ProxyWrites, ProxyReads, Reads, Writes
<1>d. /\ jvm[j] = "wait" /\ Goes(j, "open") /\ a2j /= <<>>
      /\ a2j' \in Seq({"HELO"}) /\ Len(a2j') = Len(a2j) - 1 /\ (a2j' = <<>> <=> Len(a2j') = 0)
      /\ UNCHANGED <<faults, script, req, afl, proxy, input, inputFile, answer, j2a, endTime>>
  <2>1. a2j \in Seq({"HELO"})
    BY DEF Types
  <2>2. Tail(a2j) \in Seq({"HELO"}) /\ Len(Tail(a2j)) = Len(a2j) - 1
    BY <2>1, HeadTailProperties
  <2>3. Tail(a2j) = <<>> <=> Len(Tail(a2j)) = 0
    BY <2>2, EmptySeq
  <2> QED
    BY <2>1, <2>2, <2>3, Zenon DEF JvmWait, EndOfRequests
<1>b. /\ jvm' \in Seq(JvmStates) /\ Iter' = Iter /\ Jvms' = Jvms
      /\ \A k \in Jvms : jvm'[k] = IF k = j THEN "open" ELSE jvm[k]
      /\ Cardinality(Running') = Cardinality(Running)
             + (IF "open" \in {"open", "run"} THEN 1 ELSE 0)
             - (IF jvm[j] \in {"open", "run"} THEN 1 ELSE 0)
  BY <1>d, OneGoes DEF JvmStates
<1>e. (NothingSlow' <=> NothingSlow) /\ (InStep' <=> InStep)
  BY <1>d DEF NothingSlow, InStep
<1>f. Iter \in Jvms /\ Iter' = Iter /\ jvm'[Iter] =
        IF j = Iter THEN "open" ELSE jvm[Iter]
  BY <1>b, <1>c DEF Jvms
<1>g. Outstanding' = Outstanding /\ Outstanding \in Nat
  <2>1. Cardinality(Running') = Cardinality(Running) + 1
    BY <1>b, <1>c, <1>d
  <2>2. Len(a2j') = Len(a2j) - 1 /\ Len(j2a') = Len(j2a)
    BY <1>d
  <2> QED
    BY <1>c, <2>1, <2>2, SMTT(30) DEF Outstanding
<1>1. Types'
  BY <1>b, <1>c, <1>d DEF Types
<1>2. Phases'
  BY <1>b, <1>d DEF Phases
<1>13. FileStates'
  BY <1>d DEF FileStates
<1>3. EndTimes'
  BY <1>b, <1>d DEF EndTimes
<1>4. Backlog'
  BY <1>b, <1>d, <1>g DEF Backlog
<1>5. OwnJvm'
  BY <1>d, <1>e, <1>f DEF OwnJvm
<1>6. OwnJvmInTime'
  BY <1>d, <1>e, <1>f DEF OwnJvmInTime
<1>7. OthersInTime'
  BY <1>b, <1>d DEF OthersInTime, NothingSlow
<1>8. OneRequest'
  BY <1>d, <1>e, <1>g DEF OneRequest
<1>9. RequestHeld'
  BY <1>c, <1>d, <1>e, <1>g DEF RequestHeld, OneRequest, Outstanding
<1>10. AnswerHeld'
  <2> SUFFICES ASSUME InStep, ~SessionOn PROVE AnswerHeld'
    BY <1>d, <1>e DEF AnswerHeld
  <2>1. j2a /= <<>> => \E k \in Jvms : Writes(jvm'[k])
    BY <1>b, <1>d DEF AnswerHeld
  <2>2. \A k \in Jvms : jvm'[k] \in {"opened", "open_j2a"}
          => jvm[k] \in {"opened", "open_j2a"}
    BY <1>b
  <2>3. Outstanding = 0 => Outstanding' = 0
    BY <1>g
  <2> QED
    BY <1>b, <2>3 DEF AnswerHeld
<1>11. Served'
  <2> SUFFICES ASSUME InStep, SessionOn PROVE Served'
    BY <1>d, <1>e DEF Served
  <2>1. afl = "asked" /\ j2a = <<>>
    BY <1>c DEF OneRequest, Outstanding
  <2>2. \A k \in Jvms : /\ jvm'[k] \notin {"end", "finish"}
                        /\ jvm'[k] \in {"wait", "open", "run"} => proxy = "up"
                        /\ ProxyReads => jvm'[k] /= "open_j2a"
    BY <1>b, <1>d DEF Served
  <2> QED
    BY <1>b, <1>d, <2>1 DEF Served
<1>12. Matching'
  BY <1>b, <1>d, <1>e DEF Matching
<1> QED
  BY <1>1, <1>2, <1>3, <1>4, <1>5, <1>6, <1>7, <1>8, <1>9, <1>10, <1>11, <1>12,
     <1>13

LEMMA JvmOpensIInv ==
    ASSUME IInv, NEW j \in Jvms, JvmOpenInput(j), inputFile /= "missing"
    PROVE  IInv'
<1>c. Sizes
  BY Pieces DEF IInv
<1> USE CampaignAssumption
           DEF IInv, Sizes, SessionOn, ProxyWrites, ProxyReads, Reads, Writes
<1>d. /\ jvm[j] = "open" /\ Goes(j, "run")
      /\ req' \in Seq(AnInput) /\ Len(req') = Len(req)
      /\ \A k \in Jvms : k /= j => req'[k] = req[k]
      /\ inputFile = "full" => req'[j] = input
      /\ UNCHANGED <<faults, script, afl, proxy, input, inputFile, answer, a2j, j2a, endTime>>
  <2> DEFINE found == IF inputFile = "full" THEN input ELSE NoInput
  <2>1. req \in Seq(AnInput) /\ found \in AnInput /\ j \in 1 .. Len(req) /\ Len(req) = Iter
    BY DEF Types, Jvms, AnInput
  <2>2. req' = [req EXCEPT ![j] = found]
    BY DEF JvmOpenInput
  <2>3. inputFile = "full" => found = input
    OBVIOUS
  <2> HIDE DEF found
  <2>4. /\ [req EXCEPT ![j] = found] \in Seq(AnInput)
        /\ Len([req EXCEPT ![j] = found]) = Len(req)
        /\ \A k \in 1 .. Len(req) : [req EXCEPT ![j] = found][k] = IF k = j THEN found ELSE req[k]
    BY <2>1, ExceptSeq
  <2>5. /\ req' \in Seq(AnInput) /\ Len(req') = Len(req)
        /\ \A k \in Jvms : req'[k] = IF k = j THEN found ELSE req[k]
    BY <2>1, <2>2, <2>4 DEF Jvms
  <2>6. /\ jvm[j] = "open" /\ Goes(j, "run")
        /\ UNCHANGED <<faults, script, afl, proxy, input, inputFile, answer, a2j, j2a, endTime>>
    BY DEF JvmOpenInput, fifos
  <2> QED
    BY <2>3, <2>5, <2>6
<1>b. /\ jvm' \in Seq(JvmStates) /\ Iter' = Iter /\ Jvms' = Jvms
      /\ \A k \in Jvms : jvm'[k] = IF k = j THEN "run" ELSE jvm[k]
      /\ Cardinality(Running') = Cardinality(Running)
             + (IF "run" \in {"open", "run"} THEN 1 ELSE 0)
             - (IF jvm[j] \in {"open", "run"} THEN 1 ELSE 0)
  BY <1>d, OneGoes DEF JvmStates
<1>e. (NothingSlow' <=> NothingSlow) /\ (InStep' <=> InStep)
  BY <1>d DEF NothingSlow, InStep
<1>f. Iter \in Jvms /\ Iter' = Iter /\ jvm'[Iter] = IF j = Iter THEN "run" ELSE jvm[Iter]
  BY <1>b, <1>c DEF Jvms
<1>g. InStep /\ SessionOn => afl = "asked" /\ inputFile = "full"
  <2>1. Cardinality(Running) /= 0
    BY <1>c, <1>d
  <2> QED
    BY <1>c, <2>1 DEF OneRequest, Outstanding, FileStates
<1>h. Outstanding' = Outstanding
  BY <1>b, <1>c, <1>d DEF Outstanding
<1>1. Types'
  BY <1>b, <1>c, <1>d DEF Types
<1>2. Phases'
  BY <1>b, <1>d DEF Phases
<1>3. FileStates'
  BY <1>d DEF FileStates
<1>4. EndTimes'
  BY <1>b, <1>d DEF EndTimes
<1>5. Backlog'
  BY <1>b, <1>d, <1>h DEF Backlog
<1>6. OwnJvm'
  BY <1>d, <1>e, <1>f DEF OwnJvm
<1>7. OwnJvmInTime'
  BY <1>d, <1>e, <1>f DEF OwnJvmInTime
<1>8. OthersInTime'
  BY <1>b, <1>d, <1>e DEF OthersInTime
<1>9. OneRequest'
  BY <1>d, <1>e, <1>h DEF OneRequest
<1>10. RequestHeld'
  BY <1>b, <1>d, <1>e DEF RequestHeld, AWaiting
<1>11. AnswerHeld'
  BY <1>b, <1>d, <1>e, <1>h DEF AnswerHeld
<1>12. Served'
  BY <1>b, <1>d, <1>e DEF Served, AWaiting
<1>13. Matching'
  BY <1>b, <1>d, <1>e, <1>g DEF Matching
<1> QED
  BY <1>1, <1>2, <1>3, <1>4, <1>5, <1>6, <1>7, <1>8, <1>9, <1>10, <1>11, <1>12,
     <1>13

\* The file is not there: that can only be out of step, or after the session.
LEMMA JvmFindsNoInputIInv ==
    ASSUME IInv, NEW j \in Jvms, JvmOpenInput(j), inputFile = "missing"
    PROVE  IInv'
<1>c. Sizes
  BY Pieces DEF IInv
<1> USE CampaignAssumption
           DEF IInv, Sizes, SessionOn, ProxyWrites, ProxyReads, Reads, Writes
<1>d. /\ jvm[j] = "open" /\ Goes(j, "end")
      /\ req' \in Seq(AnInput) /\ Len(req') = Len(req)
      /\ \A k \in Jvms : k /= j => req'[k] = req[k]
      /\ inputFile = "full" => req'[j] = input
      /\ UNCHANGED <<faults, script, afl, proxy, input, inputFile, answer, a2j, j2a, endTime>>
  <2> DEFINE found == IF inputFile = "full" THEN input ELSE NoInput
  <2>1. req \in Seq(AnInput) /\ found \in AnInput /\ j \in 1 .. Len(req) /\ Len(req) = Iter
    BY DEF Types, Jvms, AnInput
  <2>2. req' = [req EXCEPT ![j] = found]
    BY DEF JvmOpenInput
  <2>3. inputFile = "full" => found = input
    OBVIOUS
  <2> HIDE DEF found
  <2>4. /\ [req EXCEPT ![j] = found] \in Seq(AnInput)
        /\ Len([req EXCEPT ![j] = found]) = Len(req)
        /\ \A k \in 1 .. Len(req) : [req EXCEPT ![j] = found][k] = IF k = j THEN found ELSE req[k]
    BY <2>1, ExceptSeq
  <2>5. /\ req' \in Seq(AnInput) /\ Len(req') = Len(req)
        /\ \A k \in Jvms : req'[k] = IF k = j THEN found ELSE req[k]
    BY <2>1, <2>2, <2>4 DEF Jvms
  <2>6. /\ jvm[j] = "open" /\ Goes(j, "end")
        /\ UNCHANGED <<faults, script, afl, proxy, input, inputFile, answer, a2j, j2a, endTime>>
    BY DEF JvmOpenInput, fifos
  <2> QED
    BY <2>3, <2>5, <2>6
<1>b. /\ jvm' \in Seq(JvmStates) /\ Iter' = Iter /\ Jvms' = Jvms
      /\ \A k \in Jvms : jvm'[k] = IF k = j THEN "end" ELSE jvm[k]
      /\ Cardinality(Running') = Cardinality(Running)
             + (IF "end" \in {"open", "run"} THEN 1 ELSE 0)
             - (IF jvm[j] \in {"open", "run"} THEN 1 ELSE 0)
  BY <1>d, OneGoes DEF JvmStates
<1>e. (NothingSlow' <=> NothingSlow) /\ (InStep' <=> InStep)
  BY <1>d DEF NothingSlow, InStep
<1>f. Iter \in Jvms /\ Iter' = Iter /\ jvm'[Iter] = IF j = Iter THEN "end" ELSE jvm[Iter]
  BY <1>b, <1>c DEF Jvms
<1>g. InStep /\ SessionOn => afl = "asked" /\ inputFile = "full"
  <2>1. Cardinality(Running) /= 0
    BY <1>c, <1>d
  <2> QED
    BY <1>c, <2>1 DEF OneRequest, Outstanding, FileStates
<1>h. Outstanding' = Outstanding - 1 /\ Outstanding \in Nat
  BY <1>b, <1>c, <1>d DEF Outstanding
<1>i. ~(InStep /\ SessionOn)
  BY <1>g
<1>1. Types'
  BY <1>b, <1>c, <1>d DEF Types
<1>2. Phases'
  BY <1>b, <1>d DEF Phases
<1>3. FileStates'
  BY <1>d DEF FileStates
<1>4. EndTimes'
  BY <1>b, <1>d DEF EndTimes
<1>5. Backlog'
  BY <1>b, <1>c, <1>d, <1>h DEF Backlog
<1>6. OwnJvm'
  BY <1>d, <1>e, <1>f, <1>i DEF OwnJvm
<1>7. OwnJvmInTime'
  BY <1>d, <1>e, <1>i, Conditions DEF OwnJvmInTime
<1>8. OthersInTime'
  BY <1>b, <1>d, <1>e, <1>i, Conditions DEF OthersInTime
<1>9. OneRequest'
  BY <1>d, <1>e, <1>h DEF OneRequest
<1>10. RequestHeld'
  BY <1>b, <1>d, <1>e DEF RequestHeld, AWaiting
<1>11. AnswerHeld'
  <2> SUFFICES ASSUME InStep, ~SessionOn PROVE AnswerHeld'
    BY <1>d, <1>e DEF AnswerHeld
  <2>1. j2a /= <<>> => \E k \in Jvms : Writes(jvm'[k])
    BY <1>b, <1>d DEF AnswerHeld
  <2>2. \A k \in Jvms : jvm'[k] \in {"opened", "open_j2a"}
          => jvm[k] \in {"opened", "open_j2a"}
    BY <1>b
  <2>3. Outstanding /= 0
    BY <1>c, <1>d DEF Outstanding
  <2> QED
    BY <1>b, <1>d, <2>1, <2>2, <2>3 DEF AnswerHeld
<1>12. Served'
  BY <1>d, <1>e, <1>i DEF Served
<1>13. Matching'
  BY <1>d, <1>e, <1>i DEF Matching
<1> QED
  BY <1>1, <1>2, <1>3, <1>4, <1>5, <1>6, <1>7, <1>8, <1>9, <1>10, <1>11, <1>12,
     <1>13

LEMMA JvmStopsIInv ==
    ASSUME IInv, NEW j \in Jvms, JvmWait(j), a2j = <<>>
    PROVE  IInv'
<1> USE DEF IInv, Sizes, SessionOn, ProxyWrites, Writes
<1>c. Sizes
  BY Pieces
<1>d. /\ jvm[j] = "wait" /\ Goes(j, "end") /\ a2j = <<>> /\ ~ProxyWrites
      /\ UNCHANGED <<faults, script, req, afl, proxy, input, inputFile, answer, a2j, j2a, endTime>>
  BY DEF JvmWait, EndOfRequests
<1>b. /\ jvm' \in Seq(JvmStates) /\ Iter' = Iter /\ Jvms' = Jvms
      /\ \A k \in Jvms : jvm'[k] = IF k = j THEN "end" ELSE jvm[k]
      /\ Cardinality(Running') = Cardinality(Running)
             + (IF "end" \in {"open", "run"} THEN 1 ELSE 0)
             - (IF jvm[j] \in {"open", "run"} THEN 1 ELSE 0)
  BY <1>d, OneGoes DEF JvmStates
<1>e. (NothingSlow' <=> NothingSlow) /\ (InStep' <=> InStep)
  BY <1>d DEF NothingSlow, InStep
<1>f. Iter \in Jvms /\ Iter' = Iter /\ jvm'[Iter] =
        IF j = Iter THEN "end" ELSE jvm[Iter]
  BY <1>b, <1>c DEF Jvms
<1>g. Outstanding' = Outstanding /\ Outstanding \in Nat
  BY <1>b, <1>c, <1>d DEF Outstanding
<1>1. Types'
  BY <1>b, <1>c, <1>d DEF Types
<1>2. Phases'
  BY <1>b, <1>d DEF Phases
<1>13. FileStates'
  BY <1>d DEF FileStates
<1>3. EndTimes'
  BY <1>b, <1>d DEF EndTimes
<1>4. Backlog'
  BY <1>b, <1>d, <1>g DEF Backlog
<1>5. OwnJvm'
  BY <1>d, <1>e, <1>f DEF OwnJvm
<1>6. OwnJvmInTime'
  BY <1>d, <1>e, <1>f DEF OwnJvmInTime
<1>7. OthersInTime'
  BY <1>b, <1>d DEF OthersInTime, NothingSlow
<1>8. OneRequest'
  BY <1>d, <1>e, <1>g DEF OneRequest
<1>9. RequestHeld'
  BY <1>d DEF RequestHeld
<1>10. AnswerHeld'
  <2> SUFFICES ASSUME InStep, ~SessionOn PROVE AnswerHeld'
    BY <1>d, <1>e DEF AnswerHeld
  <2>1. j2a /= <<>> => \E k \in Jvms : Writes(jvm'[k])
    BY <1>b, <1>d DEF AnswerHeld
  <2>2. \A k \in Jvms : jvm'[k] \in {"opened", "open_j2a"}
          => jvm[k] \in {"opened", "open_j2a"}
    BY <1>b
  <2>3. Outstanding = 0 => Outstanding' = 0
    BY <1>g
  <2> QED
    BY <1>b, <2>3 DEF AnswerHeld
<1>11. Served'
  BY <1>d, <1>e DEF Served
<1>12. Matching'
  BY <1>b, <1>d, <1>e DEF Matching
<1> QED
  BY <1>1, <1>2, <1>3, <1>4, <1>5, <1>6, <1>7, <1>8, <1>9, <1>10, <1>11, <1>12,
     <1>13

LEMMA JvmRepliesIInv ==
    ASSUME IInv, NEW j \in Jvms, JvmAnswer(j), ProxyReads
    PROVE  IInv'
<1>c. Sizes
  BY Pieces DEF IInv
<1> USE CampaignAssumption
           DEF IInv, Sizes, SessionOn, ProxyWrites, ProxyReads, Reads, Writes
<1>d. /\ jvm[j] = "run" /\ Goes(j, "wait") /\ ProxyReads
      /\ j2a' \in Seq([input : AnInput, by : Nat]) /\ Len(j2a') = Len(j2a) + 1 /\ j2a' /= <<>>
      /\ Len(j2a) = 0 => j2a'[1].input = req[j]
      /\ req' \in Seq(AnInput) /\ Len(req') = Len(req)
      /\ \A k \in Jvms : k /= j => req'[k] = req[k]
      /\ UNCHANGED <<faults, script, afl, proxy, input, inputFile, answer, a2j, endTime>>
  <2>1. req \in Seq(AnInput) /\ NoInput \in AnInput /\ j \in 1 .. Len(req) /\ Len(req) = Iter
    BY DEF Types, Jvms, AnInput
  <2>2. /\ [req EXCEPT ![j] = NoInput] \in Seq(AnInput)
        /\ Len([req EXCEPT ![j] = NoInput]) = Len(req)
        /\ \A k \in 1 .. Len(req) :
               [req EXCEPT ![j] = NoInput][k] = IF k = j THEN NoInput ELSE req[k]
    BY <2>1, ExceptSeq
  <2>3. [input |-> req[j], by |-> j] \in [input : AnInput, by : Nat]
    BY <1>c, <2>1 DEF Jvms
  <2>4. /\ j2a' \in Seq([input : AnInput, by : Nat]) /\ Len(j2a') = Len(j2a) + 1
        /\ j2a' /= <<>> /\ j2a'[Len(j2a) + 1] = [input |-> req[j], by |-> j]
    <3>1. j2a \in Seq([input : AnInput, by : Nat])
      BY DEF Types
    <3>2. j2a' = Append(j2a, [input |-> req[j], by |-> j])
      BY DEF JvmAnswer
    <3> QED
      BY <2>3, <3>1, <3>2
  <2>5. Len(j2a) = 0 => j2a'[1].input = req[j]
    BY <2>4
  <2> QED
    BY <2>2, <2>4 DEF JvmAnswer
<1>b. /\ jvm' \in Seq(JvmStates) /\ Iter' = Iter /\ Jvms' = Jvms
      /\ \A k \in Jvms : jvm'[k] = IF k = j THEN "wait" ELSE jvm[k]
      /\ Cardinality(Running') = Cardinality(Running)
             + (IF "wait" \in {"open", "run"} THEN 1 ELSE 0)
             - (IF jvm[j] \in {"open", "run"} THEN 1 ELSE 0)
  BY <1>d, OneGoes DEF JvmStates
<1>e. (NothingSlow' <=> NothingSlow) /\ (InStep' <=> InStep)
  BY <1>d DEF NothingSlow, InStep
<1>f. Iter \in Jvms /\ Iter' = Iter /\ jvm'[Iter] =
        IF j = Iter THEN "wait" ELSE jvm[Iter]
  BY <1>b, <1>c DEF Jvms
<1>g. Outstanding' = Outstanding /\ Outstanding \in Nat
  <2>1. Cardinality(Running') = Cardinality(Running) - 1
    BY <1>b, <1>c, <1>d
  <2>2. Len(a2j') = Len(a2j) /\ Len(j2a') = Len(j2a) + 1
    BY <1>d
  <2> QED
    BY <1>c, <2>1, <2>2 DEF Outstanding
<1>1. Types'
  BY <1>b, <1>c, <1>d DEF Types
<1>2. Phases'
  BY <1>b, <1>d DEF Phases
<1>13. FileStates'
  BY <1>d DEF FileStates
<1>3. EndTimes'
  BY <1>b, <1>d DEF EndTimes
<1>4. Backlog'
  BY <1>b, <1>d, <1>g DEF Backlog
<1>5. OwnJvm'
  BY <1>d, <1>e, <1>f DEF OwnJvm
<1>6. OwnJvmInTime'
  BY <1>d, <1>e, <1>f DEF OwnJvmInTime
<1>7. OthersInTime'
  BY <1>b, <1>d DEF OthersInTime, NothingSlow
<1>8. OneRequest'
  BY <1>d, <1>e, <1>g DEF OneRequest
<1>9. RequestHeld'
  BY <1>b DEF RequestHeld, AWaiting
<1>10. AnswerHeld'
  BY <1>d DEF AnswerHeld, Phases
<1>11. Served'
  BY <1>b, <1>d, <1>e DEF Served, AWaiting
<1>12. Matching'
  <2> SUFFICES ASSUME InStep PROVE Matching'
    BY <1>e DEF Matching
  <2>1. SessionOn
    BY <1>d DEF Phases
  <2>2. Len(j2a) = 0
    BY <1>c, <1>d DEF OneRequest, Outstanding
  <2>3. j2a'[1].input = input
    BY <1>d, <2>1, <2>2 DEF Matching
  <2> QED
    BY <1>b, <1>d, <2>3 DEF Matching
<1> QED
  BY <1>1, <1>2, <1>3, <1>4, <1>5, <1>6, <1>7, <1>8, <1>9, <1>10, <1>11, <1>12,
     <1>13

LEMMA JvmGivesUpIInv ==
    ASSUME IInv, NEW j \in Jvms, JvmAnswer(j), ~ProxyReads
    PROVE  IInv'
<1>c. Sizes
  BY Pieces DEF IInv
<1> USE CampaignAssumption
           DEF IInv, Sizes, SessionOn, ProxyWrites, ProxyReads, Reads, Writes
<1>d. /\ jvm[j] = "run" /\ Goes(j, "end") /\ ~ProxyReads
      /\ req' \in Seq(AnInput) /\ Len(req') = Len(req)
      /\ \A k \in Jvms : k /= j => req'[k] = req[k]
      /\ UNCHANGED <<faults, script, afl, proxy, input, inputFile, answer, a2j, j2a, endTime>>
  <2>1. req \in Seq(AnInput) /\ NoInput \in AnInput /\ j \in 1 .. Len(req) /\ Len(req) = Iter
    BY DEF Types, Jvms, AnInput
  <2>2. /\ [req EXCEPT ![j] = NoInput] \in Seq(AnInput)
        /\ Len([req EXCEPT ![j] = NoInput]) = Len(req)
        /\ \A k \in 1 .. Len(req) :
               [req EXCEPT ![j] = NoInput][k] = IF k = j THEN NoInput ELSE req[k]
    BY <2>1, ExceptSeq
  <2> QED
    BY <2>1, <2>2 DEF JvmAnswer, Jvms
<1>b. /\ jvm' \in Seq(JvmStates) /\ Iter' = Iter /\ Jvms' = Jvms
      /\ \A k \in Jvms : jvm'[k] = IF k = j THEN "end" ELSE jvm[k]
      /\ Cardinality(Running') = Cardinality(Running)
             + (IF "end" \in {"open", "run"} THEN 1 ELSE 0)
             - (IF jvm[j] \in {"open", "run"} THEN 1 ELSE 0)
  BY <1>d, OneGoes DEF JvmStates
<1>e. (NothingSlow' <=> NothingSlow) /\ (InStep' <=> InStep)
  BY <1>d DEF NothingSlow, InStep
<1>f. Iter \in Jvms /\ Iter' = Iter /\ jvm'[Iter] =
        IF j = Iter THEN "end" ELSE jvm[Iter]
  BY <1>b, <1>c DEF Jvms
<1>g. Outstanding' = Outstanding - 1 /\ Outstanding \in Nat
  <2>1. Cardinality(Running') = Cardinality(Running) - 1
    BY <1>b, <1>c, <1>d
  <2>2. Len(a2j') = Len(a2j) /\ Len(j2a') = Len(j2a)
    BY <1>d
  <2> QED
    BY <1>c, <2>1, <2>2 DEF Outstanding
<1>1. Types'
  BY <1>b, <1>c, <1>d DEF Types
<1>2. Phases'
  BY <1>b, <1>d DEF Phases
<1>13. FileStates'
  BY <1>d DEF FileStates
<1>3. EndTimes'
  BY <1>b, <1>d DEF EndTimes
<1>4. Backlog'
  BY <1>b, <1>c, <1>g DEF Backlog
<1>5. OwnJvm'
  BY <1>d, <1>e, <1>f DEF OwnJvm
<1>6. OwnJvmInTime'
  BY <1>d, <1>e, <1>f DEF OwnJvmInTime
<1>7. OthersInTime'
  BY <1>b, <1>d DEF OthersInTime, NothingSlow
<1>8. OneRequest'
  BY <1>d, <1>e, <1>g DEF OneRequest
<1>9. RequestHeld'
  BY <1>b, <1>d, <1>e DEF RequestHeld, AWaiting
<1>10. AnswerHeld'
  <2> SUFFICES ASSUME InStep, ~SessionOn PROVE AnswerHeld'
    BY <1>d, <1>e DEF AnswerHeld
  <2>1. j2a /= <<>> => \E k \in Jvms : Writes(jvm'[k])
    BY <1>b, <1>d DEF AnswerHeld
  <2>2. \A k \in Jvms : jvm'[k] \in {"opened", "open_j2a"}
          => jvm[k] \in {"opened", "open_j2a"}
    BY <1>b
  <2>3. Outstanding = 0 => Outstanding' = 0
    BY <1>c, <1>d DEF Outstanding
  <2> QED
    BY <1>b, <2>3 DEF AnswerHeld
<1>11. Served'
  BY <1>d, <1>e DEF Served
<1>12. Matching'
  BY <1>b, <1>d, <1>e DEF Matching
<1> QED
  BY <1>1, <1>2, <1>3, <1>4, <1>5, <1>6, <1>7, <1>8, <1>9, <1>10, <1>11, <1>12,
     <1>13

LEMMA JvmEndTimeIInv ==
    ASSUME IInv, NEW j \in Jvms, JvmEndTime(j)
    PROVE  IInv'
<1> USE CampaignAssumption DEF IInv, Sizes, SessionOn, Writes
<1>c. Sizes
  BY Pieces
<1>d. /\ jvm[j] = "end" /\ Goes(j, "finish")
      /\ endTime' \in [1 .. Iterations -> 0 .. Iterations]
      /\ \A k \in 1 .. Iterations : endTime'[k] = IF k = j THEN Iter ELSE endTime[k]
      /\ Iter > 0
      /\ UNCHANGED <<faults, script, req, afl, proxy, input, inputFile, answer, a2j, j2a>>
  BY DEF JvmEndTime, Types, Jvms, fifos
<1>b. /\ jvm' \in Seq(JvmStates) /\ Iter' = Iter /\ Jvms' = Jvms
      /\ \A k \in Jvms : jvm'[k] = IF k = j THEN "finish" ELSE jvm[k]
      /\ Cardinality(Running') = Cardinality(Running)
             + (IF "finish" \in {"open", "run"} THEN 1 ELSE 0)
             - (IF jvm[j] \in {"open", "run"} THEN 1 ELSE 0)
  BY <1>d, OneGoes DEF JvmStates
<1>e. (NothingSlow' <=> NothingSlow) /\ (InStep' <=> InStep)
  BY <1>d DEF NothingSlow, InStep
<1>f. Iter \in Jvms /\ Iter' = Iter /\ jvm'[Iter] =
        IF j = Iter THEN "finish" ELSE jvm[Iter]
  BY <1>b, <1>c DEF Jvms
<1>g. Outstanding' = Outstanding /\ Outstanding \in Nat
  BY <1>b, <1>c, <1>d DEF Outstanding
<1>1. Types'
  BY <1>b, <1>c, <1>d DEF Types
<1>2. Phases'
  BY <1>b, <1>d DEF Phases
<1>13. FileStates'
  BY <1>d DEF FileStates
<1>3. EndTimes'
  <2> SUFFICES ASSUME NEW k \in 1 .. Iterations
               PROVE  endTime'[k] /= 0 <=> k \in Jvms /\ jvm'[k] \in {"finish", "exited"}
    BY <1>b DEF EndTimes
  <2>1. CASE k = j
    BY <1>b, <1>c, <1>d, <2>1
  <2>2. CASE k /= j
    <3>1. endTime'[k] = endTime[k] /\ (k \in Jvms => jvm'[k] = jvm[k])
      BY <1>b, <1>d, <2>2
    <3> QED
      BY <3>1 DEF EndTimes
  <2> QED
    BY <2>1, <2>2
<1>4. Backlog'
  BY <1>b, <1>d, <1>g DEF Backlog
<1>5. OwnJvm'
  BY <1>d, <1>e, <1>f DEF OwnJvm
<1>6. OwnJvmInTime'
  BY <1>d, <1>e, <1>f DEF OwnJvmInTime
<1>7. OthersInTime'
  BY <1>b, <1>d DEF OthersInTime, NothingSlow
<1>8. OneRequest'
  BY <1>d, <1>e, <1>g DEF OneRequest
<1>9. RequestHeld'
  BY <1>b, <1>d, <1>e DEF RequestHeld, AWaiting
<1>10. AnswerHeld'
  <2> SUFFICES ASSUME InStep, ~SessionOn PROVE AnswerHeld'
    BY <1>d, <1>e DEF AnswerHeld
  <2>1. j2a /= <<>> => \E k \in Jvms : Writes(jvm'[k])
    BY <1>b, <1>d DEF AnswerHeld
  <2>2. \A k \in Jvms : jvm'[k] \in {"opened", "open_j2a"}
          => jvm[k] \in {"opened", "open_j2a"}
    BY <1>b
  <2>3. Outstanding = 0 => Outstanding' = 0
    BY <1>g
  <2> QED
    BY <1>b, <2>3 DEF AnswerHeld
<1>11. Served'
  BY <1>d, <1>e DEF Served
<1>12. Matching'
  BY <1>b, <1>d, <1>e DEF Matching
<1> QED
  BY <1>1, <1>2, <1>3, <1>4, <1>5, <1>6, <1>7, <1>8, <1>9, <1>10, <1>11, <1>12,
     <1>13

LEMMA JvmExitsIInv ==
    ASSUME IInv, NEW j \in Jvms, JvmExit(j), jvm[j] = "finish"
    PROVE  IInv'
<1>c. Sizes
  BY Pieces DEF IInv
<1> USE CampaignAssumption
           DEF IInv, Sizes, SessionOn, ProxyWrites, ProxyReads, Reads, Writes
<1>d. /\ jvm[j] = "finish" /\ Goes(j, "exited")
      /\ a2j' \in {a2j, <<>>} /\ j2a' \in {j2a, <<>>}
      /\ j2a' /= <<>> => ProxyReads \/ \E k \in Jvms \ {j} : Writes(jvm[k])
      /\ req' \in Seq(AnInput) /\ Len(req') = Len(req)
      /\ \A k \in Jvms : k /= j => req'[k] = req[k]
      /\ UNCHANGED <<faults, script, afl, proxy, input, inputFile, answer, endTime>>
  <2>1. req \in Seq(AnInput) /\ NoInput \in AnInput /\ j \in 1 .. Len(req) /\ Len(req) = Iter
    BY DEF Types, Jvms, AnInput
  <2>2. /\ [req EXCEPT ![j] = NoInput] \in Seq(AnInput)
        /\ Len([req EXCEPT ![j] = NoInput]) = Len(req)
        /\ \A k \in 1 .. Len(req) :
               [req EXCEPT ![j] = NoInput][k] = IF k = j THEN NoInput ELSE req[k]
    BY <2>1, ExceptSeq
  <2> QED
    BY <2>2 DEF JvmExit, Left
<1>b. /\ jvm' \in Seq(JvmStates) /\ Iter' = Iter /\ Jvms' = Jvms
      /\ \A k \in Jvms : jvm'[k] = IF k = j THEN "exited" ELSE jvm[k]
      /\ Cardinality(Running') = Cardinality(Running)
             + (IF "exited" \in {"open", "run"} THEN 1 ELSE 0)
             - (IF jvm[j] \in {"open", "run"} THEN 1 ELSE 0)
  BY <1>d, OneGoes DEF JvmStates
<1>e. (NothingSlow' <=> NothingSlow) /\ (InStep' <=> InStep)
  BY <1>d DEF NothingSlow, InStep
<1>f. Iter \in Jvms /\ Iter' = Iter /\ jvm'[Iter] =
        IF j = Iter THEN "exited" ELSE jvm[Iter]
  BY <1>b, <1>c DEF Jvms
<1>g. /\ a2j' \in Seq({"HELO"}) /\ Len(a2j') \in 0 .. Len(a2j)
      /\ j2a' \in Seq([input : AnInput, by : Nat]) /\ Len(j2a') \in 0 .. Len(j2a)
  <2>1. a2j \in Seq({"HELO"}) /\ j2a \in Seq([input : AnInput, by : Nat])
    BY DEF Types
  <2>2. a2j' \in {a2j, <<>>} /\ j2a' \in {j2a, <<>>}
    BY <1>d
  <2> QED
    BY <2>1, <2>2, KeptOrLost
<1>h. Cardinality(Running') \in 0 .. Cardinality(Running)
  <2>1. jvm[j] = "run" => Cardinality(Running) /= 0
    BY <1>c
  <2> QED
    BY <1>b, <1>c, <1>d, <2>1
<1>i. Outstanding' \in 0 .. Outstanding /\ Outstanding \in Nat
  BY <1>c, <1>g, <1>h DEF Outstanding
<1>1. Types'
  BY <1>b, <1>d, <1>g DEF Types
<1>2. Phases'
  BY <1>b, <1>d DEF Phases
<1>13. FileStates'
  BY <1>d DEF FileStates
<1>3. EndTimes'
  BY <1>b, <1>d DEF EndTimes
<1>4. Backlog'
  BY <1>b, <1>c, <1>d, <1>i DEF Backlog
<1>5. OwnJvm'
  BY <1>d, <1>e, <1>f DEF OwnJvm
<1>6. OwnJvmInTime'
  BY <1>d, <1>e, <1>f DEF OwnJvmInTime
<1>7. OthersInTime'
  BY <1>b, <1>d DEF OthersInTime, NothingSlow
<1>8. OneRequest'
  BY <1>d, <1>e, <1>i DEF OneRequest
<1>9. RequestHeld'
  BY <1>b, <1>d, <1>e DEF RequestHeld, AWaiting
<1>10. AnswerHeld'
  <2> SUFFICES ASSUME InStep, ~SessionOn PROVE AnswerHeld'
    BY <1>d, <1>e DEF AnswerHeld
  <2>1. j2a' /= <<>> => \E k \in Jvms : Writes(jvm'[k])
    BY <1>b, <1>d DEF Phases
  <2>2. \A k \in Jvms : jvm'[k] \in {"opened", "open_j2a"}
          => jvm[k] \in {"opened", "open_j2a"}
    BY <1>b
  <2>3. Outstanding = 0 => Outstanding' = 0
    BY <1>i
  <2> QED
    BY <1>b, <2>1, <2>3 DEF AnswerHeld
<1>11. Served'
  BY <1>d, <1>e DEF Served
<1>12. Matching'
  BY <1>b, <1>d, <1>e DEF Matching
<1> QED
  BY <1>1, <1>2, <1>3, <1>4, <1>5, <1>6, <1>7, <1>8, <1>9, <1>10, <1>11, <1>12,
     <1>13

LEMMA JvmDiesIInv ==
    ASSUME IInv, NEW j \in Jvms, JvmExit(j), jvm[j] \in {"start", "run"}
    PROVE  IInv'
<1>c. Sizes
  BY Pieces DEF IInv
<1> USE CampaignAssumption
           DEF IInv, Sizes, SessionOn, ProxyWrites, ProxyReads, Reads, Writes
<1>d. /\ jvm[j] \in {"start", "run"} /\ Goes(j, "dead")
      /\ a2j' \in {a2j, <<>>} /\ j2a' \in {j2a, <<>>}
      /\ j2a' /= <<>> => ProxyReads \/ \E k \in Jvms \ {j} : Writes(jvm[k])
      /\ req' \in Seq(AnInput) /\ Len(req') = Len(req)
      /\ \A k \in Jvms : k /= j => req'[k] = req[k]
      /\ UNCHANGED <<faults, script, afl, proxy, input, inputFile, answer, endTime>>
  <2>1. req \in Seq(AnInput) /\ NoInput \in AnInput /\ j \in 1 .. Len(req) /\ Len(req) = Iter
    BY DEF Types, Jvms, AnInput
  <2>2. /\ [req EXCEPT ![j] = NoInput] \in Seq(AnInput)
        /\ Len([req EXCEPT ![j] = NoInput]) = Len(req)
        /\ \A k \in 1 .. Len(req) :
               [req EXCEPT ![j] = NoInput][k] = IF k = j THEN NoInput ELSE req[k]
    BY <2>1, ExceptSeq
  <2> QED
    BY <2>2 DEF JvmExit, Left
<1>b. /\ jvm' \in Seq(JvmStates) /\ Iter' = Iter /\ Jvms' = Jvms
      /\ \A k \in Jvms : jvm'[k] = IF k = j THEN "dead" ELSE jvm[k]
      /\ Cardinality(Running') = Cardinality(Running)
             + (IF "dead" \in {"open", "run"} THEN 1 ELSE 0)
             - (IF jvm[j] \in {"open", "run"} THEN 1 ELSE 0)
  BY <1>d, OneGoes DEF JvmStates
<1>e. (NothingSlow' <=> NothingSlow) /\ (InStep' <=> InStep)
  BY <1>d DEF NothingSlow, InStep
<1>f. Iter \in Jvms /\ Iter' = Iter /\ jvm'[Iter] =
        IF j = Iter THEN "dead" ELSE jvm[Iter]
  BY <1>b, <1>c DEF Jvms
<1>g. /\ a2j' \in Seq({"HELO"}) /\ Len(a2j') \in 0 .. Len(a2j)
      /\ j2a' \in Seq([input : AnInput, by : Nat]) /\ Len(j2a') \in 0 .. Len(j2a)
  <2>1. a2j \in Seq({"HELO"}) /\ j2a \in Seq([input : AnInput, by : Nat])
    BY DEF Types
  <2>2. a2j' \in {a2j, <<>>} /\ j2a' \in {j2a, <<>>}
    BY <1>d
  <2> QED
    BY <2>1, <2>2, KeptOrLost
<1>h. Cardinality(Running') \in 0 .. Cardinality(Running)
  <2>1. jvm[j] = "run" => Cardinality(Running) /= 0
    BY <1>c
  <2> QED
    BY <1>b, <1>c, <1>d, <2>1
<1>i. Outstanding' \in 0 .. Outstanding /\ Outstanding \in Nat
  BY <1>c, <1>g, <1>h DEF Outstanding
<1>1. Types'
  BY <1>b, <1>d, <1>g DEF Types
<1>2. Phases'
  BY <1>b, <1>d DEF Phases
<1>13. FileStates'
  BY <1>d DEF FileStates
<1>3. EndTimes'
  BY <1>b, <1>d DEF EndTimes
<1>4. Backlog'
  BY <1>b, <1>c, <1>d, <1>i DEF Backlog
<1>5. OwnJvm'
  BY <1>d, <1>e, <1>f DEF OwnJvm
<1>6. OwnJvmInTime'
  BY <1>d, <1>e, <1>f DEF OwnJvmInTime
<1>7. OthersInTime'
  BY <1>b, <1>d DEF OthersInTime, NothingSlow
<1>8. OneRequest'
  BY <1>d, <1>e, <1>i DEF OneRequest
<1>9. RequestHeld'
  BY <1>b, <1>d, <1>e DEF RequestHeld, AWaiting
<1>10. AnswerHeld'
  <2> SUFFICES ASSUME InStep, ~SessionOn PROVE AnswerHeld'
    BY <1>d, <1>e DEF AnswerHeld
  <2>1. j2a' /= <<>> => \E k \in Jvms : Writes(jvm'[k])
    BY <1>b, <1>d DEF Phases
  <2>2. \A k \in Jvms : jvm'[k] \in {"opened", "open_j2a"}
          => jvm[k] \in {"opened", "open_j2a"}
    BY <1>b
  <2>3. Outstanding = 0 => Outstanding' = 0
    BY <1>i
  <2> QED
    BY <1>b, <2>1, <2>3 DEF AnswerHeld
<1>11. Served'
  BY <1>b, <1>d, <1>e DEF Served, AWaiting
<1>12. Matching'
  BY <1>b, <1>d, <1>e DEF Matching
<1> QED
  BY <1>1, <1>2, <1>3, <1>4, <1>5, <1>6, <1>7, <1>8, <1>9, <1>10, <1>11, <1>12,
     <1>13

LEMMA StutterIInv ==
    ASSUME IInv, UNCHANGED vars
    PROVE  IInv'
<1>1. UNCHANGED <<faults, script, jvm, req, afl, proxy, input, inputFile, answer, a2j, j2a, endTime>>
  BY DEF vars, fifos
<1>2. Iter' = Iter /\ Jvms' = Jvms /\ Running' = Running
  BY <1>1 DEF Iter, Jvms, Running
<1>3. (NothingSlow' <=> NothingSlow) /\ (InStep' <=> InStep) /\ (SessionOn' <=> SessionOn)
      /\ (ProxyReads' <=> ProxyReads) /\ (AWaiting' <=> AWaiting) /\ Outstanding' = Outstanding
  BY <1>1, <1>2
     DEF NothingSlow, InStep, SessionOn, ProxyReads, AWaiting, Outstanding
<1>4. Types' /\ Phases' /\ FileStates' /\ EndTimes' /\ Backlog'
  BY <1>1, <1>2, <1>3 DEF IInv, Types, Phases, FileStates, EndTimes, Backlog
<1>5. OwnJvm' /\ OwnJvmInTime' /\ OthersInTime'
  BY <1>1, <1>2, <1>3 DEF IInv, OwnJvm, OwnJvmInTime, OthersInTime
<1>6. OneRequest' /\ RequestHeld' /\ AnswerHeld'
  BY <1>1, <1>2, <1>3 DEF IInv, OneRequest, RequestHeld, AnswerHeld
<1>7. Served' /\ Matching'
  BY <1>1, <1>2, <1>3 DEF IInv, Served, Matching
<1> QED
  BY <1>4, <1>5, <1>6, <1>7 DEF IInv

LEMMA NextIInv ==
    ASSUME IInv, [Next]_vars
    PROVE  IInv'
<1>1. CASE Script
  BY <1>1, SpawnIInv, GiveUpIInv, StartFuzzerIInv, FuzzerEndedIInv DEF Script
<1>2. CASE Session \/ HandshakeTimeout \/ Timeout
  BY <1>2, ProxyOpenA2JIInv, ProxyOpenJ2AIInv, AflInitIInv, UnlinkInputIInv,
     CreateInputIInv, WriteInputIInv, AskIInv, AnsweredIInv, SessionOverIInv DEF Session
<1>3. ASSUME NEW j \in Jvms, Jvm(j) PROVE IInv'
  <2>1. CASE JvmOpenA2J(j) \/ JvmOpenJ2A(j) \/ JvmEndTime(j)
    BY <2>1, JvmOpenA2JIInv, JvmOpenJ2AIInv, JvmEndTimeIInv
  <2>2. CASE JvmWait(j)
    BY <2>2, JvmTakesIInv, JvmStopsIInv
  <2>3. CASE JvmAnswer(j)
    BY <2>3, JvmRepliesIInv, JvmGivesUpIInv
  <2>4. CASE JvmExit(j)
    <3>1. jvm[j] = "finish" \/ jvm[j] \in {"start", "run"}
      BY <2>4 DEF JvmExit
    <3> QED
      BY <2>4, <3>1, JvmExitsIInv, JvmDiesIInv
  <2>5. CASE JvmOpenInput(j)
    BY <2>5, JvmOpensIInv, JvmFindsNoInputIInv
  <2> QED
    BY <1>3, <2>1, <2>2, <2>3, <2>4, <2>5 DEF Jvm
<1>4. CASE UNCHANGED vars
  BY <1>4, StutterIInv
<1> QED
  BY <1>1, <1>2, <1>3, <1>4 DEF Next

------------------------------------------------------------------------------
\* The invariant holds in every campaign.
THEOREM IInvHolds == Spec => []IInv
<1>1. Init => IInv
  BY InitIInv
<1>2. IInv /\ [Next]_vars => IInv'
  BY NextIInv
<1> QED
  BY <1>1, <1>2, PTL DEF Spec

\* fuzz.py: however many iterations there are, no end_time is written before the
\* session of its iteration is over, as long as AFL and the JVM stay in step: they do
\* if nothing is slow, and also without slow runs and without sessions that end
\* between the two opens of a JVM. In step the input file is complete whenever a JVM
\* is about to open it. If nothing is slow a session begins only when the JVMs before
\* have written theirs or died, and none of them can take a request of it.
THEOREM SessionsSeparate == Spec => []SessionsAreSeparate
<1>1. IInv => SessionsAreSeparate
  <2> SUFFICES ASSUME IInv PROVE SessionsAreSeparate
    OBVIOUS
  <2>1. Sizes
    BY Pieces DEF IInv
  <2>2. Len(a2j) <= Iterations /\ Len(j2a) <= Iterations
    BY <2>1 DEF IInv, Backlog, Outstanding, Types, Sizes
  <2>3. TypeOK
    BY <2>2 DEF IInv, Types, Phases, TypeOK, JvmStates
  <2>4. ASSUME SessionOn
        PROVE  /\ InStep => /\ endTime[Iter] = 0 /\ jvm[Iter] /= "end"
                            /\ (\E j \in Jvms : jvm[j] = "open") => inputFile = "full"
               /\ NothingSlow => \A j \in 1 .. Iter - 1 :
                      /\ endTime[j] /= 0 \/ jvm[j] = "dead"
                      /\ ~Writes(jvm[j])
    <3>1. Iter \in 1 .. Iterations /\ \A j \in 1 .. Iter - 1 : j \in Jvms /\ j \in 1 .. Iterations
      BY <2>1, <2>4 DEF IInv, Types, Phases, Jvms, Sizes
    <3>2. InStep => endTime[Iter] = 0 /\ jvm[Iter] /= "end"
      BY <2>4, <3>1 DEF IInv, EndTimes, OwnJvm
    <3>3. InStep /\ (\E j \in Jvms : jvm[j] = "open") => inputFile = "full"
      <4>1. (\E j \in Jvms : jvm[j] = "open") => Outstanding /= 0
        BY <2>1 DEF Sizes, Outstanding
      <4>2. InStep /\ Outstanding /= 0 => afl = "asked"
        BY <2>1, <2>4 DEF IInv, OneRequest, Outstanding, Sizes
      <4> QED
        BY <4>1, <4>2 DEF IInv, FileStates
    <3>4. NothingSlow => \A j \in 1 .. Iter - 1 : jvm[j] \in {"exited", "dead"}
      BY <2>4, <3>1 DEF IInv, OthersInTime
    <3> QED
      BY <3>1, <3>2, <3>3, <3>4 DEF IInv, EndTimes, Writes
  <2> QED
    BY <2>3, <2>4 DEF SessionsAreSeparate
<1> QED
  BY <1>1, IInvHolds, PTL

\* AFL is never told about another input than the one it has asked for, as long as
\* AFL and the JVM stay in step.
THEOREM AnswersMatch == Spec => []AnswerIsForTheInput
<1>1. IInv => AnswerIsForTheInput
  BY DEF IInv, Matching, AnswerIsForTheInput
<1> QED
  BY <1>1, IInvHolds, PTL

------------------------------------------------------------------------------
(* CoverageAnalysis: what is made of the inputs that AFL kept.              *)

\* Induction over the natural numbers, as a fact about sets.
LEMMA Induction ==
    ASSUME NEW S, 0 \in S, \A n \in Nat : n \in S => n + 1 \in S
    PROVE  Nat \subseteq S
<1> SUFFICES ASSUME Nat \ S /= {} PROVE FALSE
  OBVIOUS
<1> DEFINE R == OpToRel(<, Nat)
<1>1. IsWellFoundedOn(R, Nat)
  BY NatLessThanWellFounded
<1>2. \A m, n \in Nat : m < n => <<m, n>> \in R
  BY DEF OpToRel
<1> HIDE DEF R
<1>3. PICK n \in Nat \ S : \A m \in Nat \ S : ~ (<<m, n>> \in R)
  <2>1. Nat \ S \subseteq Nat
    OBVIOUS
  <2> QED
    BY <1>1, <2>1, WFMin, Zenon
<1>4. \A m \in Nat \ S : ~(m < n)
  BY <1>2, <1>3
<1>5. n /= 0 /\ n - 1 \in Nat
  OBVIOUS
<1>6. n - 1 \in S
  BY <1>4, <1>5
<1>7. n - 1 + 1 \in S
  BY <1>5, <1>6
<1> QED
  BY <1>7

Entries == [time : Times, bytes : [Points -> -128 .. 127]]

Tokens == {"object", "objectEnd", "array", "arrayEnd", "comma", "member", "name"}

\* How many files were run, and the place of a valid one among the valid ones.
Ran == Len(queue) - Len(toRun)
Place(k) == Cardinality(Valid(k))

\* The queue is run from its first file to its last.
RunInOrder ==
    /\ queue \in Seq(Files) /\ queue /= <<>>
    /\ toRun \in Seq(Files) /\ Len(toRun) <= Len(queue)
    /\ \A k \in 1 .. Len(toRun) : toRun[k] = queue[Ran + k]
    /\ pc /= "run" => toRun = <<>>

\* What is kept is what the valid ones of them returned, in their order.
KeptInOrder ==
    /\ kept \in Seq(Entries)
    /\ Len(kept) = Place(Ran)
    /\ \A k \in Valid(Ran) :
           Place(k) \in 1 .. Len(kept) /\ kept[Place(k)].bytes = Feedback(queue[k])
    /\ \A j \in 1 .. Len(kept) : \E k \in Valid(Ran) : Place(k) = j

\* What is to be written are the last of them.
WrittenInOrder ==
    /\ toWrite \in Seq(Entries) /\ Len(toWrite) <= Len(kept)
    /\ \A j \in 1 .. Len(toWrite) : toWrite[j] = kept[Written + j]
    /\ pc = "run" => toWrite = <<>> /\ covered = {} /\ out = <<>>
    /\ pc = "data" => toWrite /= <<>>

\* The points that a byte of one of the first n entries is positive for.
PositiveIn(n) == {p \in Points : \E j \in 1 .. n : kept[j].bytes[p] >= 1}

\* Everything that is written is counted, and the writing stops early only when
\* nothing is left to cover.
CountedIsWritten ==
    /\ pc \in {"data", "end", "done"} => covered = PositiveIn(Written)
    /\ pc \in {"end", "done"} /\ toWrite /= <<>> => covered = Points

\* The brackets that are open in the text, in its array, and in an entry.
InText == <<"object">>
InArray == Append(InText, "array")
InEntry == Append(InArray, "object")

\* A parser has read a text, and stands between these brackets.
At(open, last) == [open |-> open, last |-> last]
HasRead(text, open, last) == text \in Seq(Tokens) /\ Parse(text) = At(open, last)

\* A parser stands in the array, behind it, or at the end of the text.
ReadSoFar ==
    /\ pc = "data" => \E last \in {"open", "comma"} : HasRead(out, InArray, last)
    /\ pc = "end" /\ toWrite = <<>> => HasRead(out, InText, "item")
    /\ pc = "done" /\ toWrite = <<>> => HasRead(out, <<>>, "item")

AnalysisTypes ==
    /\ pc \in {"run", "data", "end", "failed", "done"}
    /\ lastTime \in Times /\ covered \subseteq Points
    /\ out \in Seq(Tokens)

AnalysisIInv ==
    /\ AnalysisTypes
    /\ RunInOrder
    /\ KeptInOrder
    /\ WrittenInOrder
    /\ CountedIsWritten
    /\ ReadSoFar

------------------------------------------------------------------------------
\* A count becomes a byte.
LEMMA FeedbackType ==
    ASSUME NEW file \in Files PROVE Feedback(file) \in [Points -> -128 .. 127]
<1>1. ASSUME NEW n \in Nat PROVE ToByte(n) \in -128 .. 127
  BY DEF ToByte
<1>2. ASSUME NEW p \in Points PROVE file.toggles[p] \in Nat
  BY AnalysisAssumption DEF Files
<1> QED
  BY <1>1, <1>2, AnalysisAssumption DEF Feedback

\* It is positive when the count shows, and then the point was toggled.
LEMMA FeedbackPositive ==
    ASSUME NEW file \in Files, NEW p \in Points
    PROVE  /\ Feedback(file)[p] >= 1 <=> Shows(file.toggles[p])
           /\ Shows(file.toggles[p]) => file.toggles[p] >= 1
<1>1. file.toggles[p] \in Nat /\ FeedbackCap \in Nat
  BY AnalysisAssumption DEF Files
<1>2. ASSUME NEW n \in Nat
      PROVE  (ToByte(n) >= 1 <=> n % 256 \in 1 .. 127) /\ (n = 0 => n % 256 = 0)
  BY DEF ToByte
<1>3. PICK n \in Nat : n = IF file.toggles[p] < FeedbackCap THEN file.toggles[p] ELSE FeedbackCap
  BY <1>1
<1>4. Feedback(file)[p] = ToByte(n) /\ (Shows(file.toggles[p]) <=> n % 256 \in 1 .. 127)
  BY <1>3 DEF Feedback, Shows
<1>5. n /= 0 => file.toggles[p] >= 1
  BY <1>1, <1>3
<1> QED
  BY <1>2, <1>4, <1>5

\* The places of the valid files are numbered without gaps.
LEMMA Places ==
    ASSUME NEW k \in Nat
    PROVE  /\ Valid(k) \subseteq 1 .. k
           /\ Place(k) \in Nat
           /\ Place(0) = 0
           /\ Place(k + 1) = Place(k) + (IF queue[k + 1].valid THEN 1 ELSE 0)
           /\ Valid(k + 1) = Valid(k) \cup (IF queue[k + 1].valid THEN {k + 1} ELSE {})
<1>1. Valid(k) \subseteq 1 .. k /\ IsFiniteSet(1 .. k)
  BY FS_Interval DEF Valid
<1>2. IsFiniteSet(Valid(k)) /\ Place(k) \in Nat
  BY <1>1, FS_Subset, FS_CardinalityType DEF Place
<1>3. Valid(0) = {}
  BY DEF Valid
<1>4. Place(0) = 0
  BY <1>3, FS_EmptySet DEF Place
<1>5. 1 .. k + 1 = (1 .. k) \cup {k + 1} /\ k + 1 \notin 1 .. k
  OBVIOUS
<1>6. Valid(k + 1) = Valid(k) \cup (IF queue[k + 1].valid THEN {k + 1} ELSE {})
  BY <1>5 DEF Valid
<1>7. k + 1 \notin Valid(k)
  BY <1>1, <1>5
<1>8. CASE queue[k + 1].valid
  <2>1. Valid(k + 1) = Valid(k) \cup {k + 1}
    BY <1>6, <1>8
  <2> QED
    BY <1>1, <1>2, <1>4, <1>6, <1>7, <1>8, <2>1, FS_AddElement DEF Place
<1>9. CASE ~ queue[k + 1].valid
  <2>1. Valid(k + 1) = Valid(k)
    BY <1>6, <1>9
  <2> QED
    BY <1>1, <1>2, <1>4, <1>6, <1>9, <2>1 DEF Place
<1> QED
  BY <1>8, <1>9

\* A full set of points is the set of all of them.
LEMMA FullIsAll ==
    ASSUME NEW points, points \subseteq Points, Full(points)
    PROVE  points = Points
<1>1. IsFiniteSet(Points) /\ Cardinality(Points) = NumPoints
  BY AnalysisAssumption, FS_Interval DEF Points
<1> QED
  BY <1>1, FS_Subset, FS_CardinalityType DEF Full

------------------------------------------------------------------------------
\* A parser of a text has read the beginning of the text before.
ReadAfter(text, after, n) ==
    IF n = 0 THEN [open |-> <<>>, last |-> "start"]
    ELSE ReadToken(after[n - 1], text[n])

IsReading(text, after) ==
    after = [n \in 0 .. Len(text) |-> ReadAfter(text, after, n)]

\* The recursive function of Parse exists.
LEMMA Reading ==
    ASSUME NEW text \in Seq(Tokens)
    PROVE  \E after : IsReading(text, after) /\ Parse(text) = after[Len(text)]
<1> DEFINE IsUpto(f, j) == f = [n \in 0 .. j |-> ReadAfter(text, f, n)]
           E == {j \in Nat : \E f : IsUpto(f, j)}
           after == CHOOSE f : IsUpto(f, Len(text))
<1>1. 0 \in E
  <2> DEFINE f == [n \in 0 .. 0 |-> [open |-> <<>>, last |-> "start"]]
  <2>1. IsUpto(f, 0)
    BY DEF ReadAfter
  <2> QED
    BY <2>1
<1>2. ASSUME NEW j \in Nat, j \in E PROVE j + 1 \in E
  <2>1. PICK f : IsUpto(f, j)
    BY <1>2
  <2> DEFINE g == [n \in 0 .. j + 1 |-> ReadAfter(text, f, n)]
  <2>2. \A n \in 0 .. j : n \in 0 .. j + 1 /\ g[n] = f[n]
    BY <2>1
  <2>3. ASSUME NEW n \in 0 .. j + 1
        PROVE  ReadAfter(text, f, n) = ReadAfter(text, g, n)
    <3>1. n /= 0 => n - 1 \in 0 .. j
      OBVIOUS
    <3>2. n /= 0 => g[n - 1] = f[n - 1]
      BY <2>2, <3>1
    <3> HIDE DEF g
    <3> QED
      BY <3>2 DEF ReadAfter
  <2>4. IsUpto(g, j + 1)
    BY <2>3, Zenon
  <2> HIDE DEF g, IsUpto
  <2> QED
    BY <2>4
<1>3. Len(text) \in E
  <2> HIDE DEF E
  <2> QED
    BY <1>1, <1>2, Induction
<1>4. IsUpto(after, Len(text))
  BY <1>3
<1>5. Parse(text) = after[Len(text)]
  BY DEF Parse, ReadAfter
<1> HIDE DEF after
<1> QED
  BY <1>4, <1>5 DEF IsReading

\* The parser reads a longer text as it reads the shorter one, and a token more.
LEMMA ParseAppend ==
    ASSUME NEW text \in Seq(Tokens), NEW t \in Tokens
    PROVE  Parse(Append(text, t)) = ReadToken(Parse(text), t)
<1> DEFINE long == Append(text, t)
           n == Len(text)
<1>1. /\ long \in Seq(Tokens) /\ Len(long) = n + 1 /\ n \in Nat
      /\ long[n + 1] = t /\ \A i \in 1 .. n : long[i] = text[i]
  OBVIOUS
<1> HIDE DEF long, n
<1>2. PICK f : IsReading(text, f) /\ Parse(text) = f[n]
  BY Reading DEF n
<1>3. PICK g : IsReading(long, g) /\ Parse(long) = g[n + 1]
  BY <1>1, Reading
<1>4. \A i \in 0 .. n : f[i] = ReadAfter(text, f, i)
  BY <1>2 DEF IsReading, n
<1>5. \A i \in 0 .. n + 1 : g[i] = ReadAfter(long, g, i)
  BY <1>1, <1>3 DEF IsReading
<1> DEFINE S == {i \in Nat : i <= n => f[i] = g[i]}
<1>6. 0 \in S
  BY <1>1, <1>4, <1>5 DEF ReadAfter
<1>7. ASSUME NEW i \in Nat, i \in S PROVE i + 1 \in S
  <2> SUFFICES ASSUME i + 1 <= n PROVE f[i + 1] = g[i + 1]
    OBVIOUS
  <2>1. i + 1 \in 0 .. n /\ i + 1 \in 1 .. n /\ i + 1 \in 0 .. n + 1 /\ i <= n
    BY <1>1
  <2>2. PICK j \in Nat : j = i + 1
    OBVIOUS
  <2>3. j /= 0 /\ j - 1 = i
    BY <2>2
  <2>4. f[j] = ReadToken(f[i], text[j]) /\ g[j] = ReadToken(g[i], long[j])
    BY <1>4, <1>5, <2>1, <2>2, <2>3 DEF ReadAfter
  <2> QED
    BY <1>1, <1>7, <2>1, <2>2, <2>4
<1>8. n \in S
  <2> HIDE DEF S
  <2> QED
    BY <1>1, <1>6, <1>7, Induction
<1>9. g[n + 1] = ReadToken(g[n], long[n + 1])
  <2>1. PICK m : m = n + 1
    OBVIOUS
  <2>2. m /= 0 /\ m - 1 = n /\ m \in 0 .. n + 1
    BY <1>1, <2>1
  <2> QED
    BY <1>5, <2>1, <2>2 DEF ReadAfter
<1> QED
  BY <1>1, <1>2, <1>3, <1>8, <1>9 DEF long

\* A bracket opens or closes.
LEMMA ReadBracket ==
    ASSUME NEW open \in Seq({"object", "array"}), NEW last
    PROVE  /\ open = <<>> /\ last = "start" =>
                  ReadToken(At(open, last), "object") = At(Append(open, "object"), "open")
           /\ last = "name" =>
                  ReadToken(At(open, last), "array") = At(Append(open, "array"), "open")
           /\ open /= <<>> /\ open[Len(open)] = "array" /\ last \in {"open", "comma"} =>
                  ReadToken(At(open, last), "object") = At(Append(open, "object"), "open")
           /\ open /= <<>> /\ open[Len(open)] = "object" /\ last \in {"open", "item"} =>
                  ReadToken(At(open, last), "objectEnd") = At(Front(open), "item")
           /\ open /= <<>> /\ open[Len(open)] = "array" /\ last \in {"open", "item"} =>
                  ReadToken(At(open, last), "arrayEnd") = At(Front(open), "item")
BY DEF ReadToken, MayCome, ValueMayCome, ItemMayCome, In, Last, OpenAfter, LastAfter, At

\* A member, a name or a separator comes.
LEMMA ReadItem ==
    ASSUME NEW open \in Seq({"object", "array"}), open /= <<>>, NEW last
    PROVE  /\ open[Len(open)] = "object" /\ last \in {"open", "comma"} =>
                  /\ ReadToken(At(open, last), "member") = At(open, "item")
                  /\ ReadToken(At(open, last), "name") = At(open, "name")
           /\ last = "item" => ReadToken(At(open, last), "comma") = At(open, "comma")
BY DEF ReadToken, MayCome, ItemMayCome, In, Last, OpenAfter, LastAfter, At

\* The stacks of brackets.
LEMMA Brackets ==
    /\ InText \in Seq({"object", "array"}) /\ InText /= <<>> /\ InText[Len(InText)] = "object"
    /\ InArray \in Seq({"object", "array"}) /\ InArray /= <<>> /\ InArray[Len(InArray)] = "array"
    /\ InEntry \in Seq({"object", "array"}) /\ InEntry /= <<>> /\ InEntry[Len(InEntry)] = "object"
    /\ Append(<<>>, "object") = InText
    /\ Front(InEntry) = InArray /\ Front(InArray) = InText /\ Front(InText) = <<>>
<1>1. PICK B : B = {"object", "array"}
  OBVIOUS
<1>2. ASSUME NEW open \in Seq(B), NEW b \in B
      PROVE  /\ Append(open, b) \in Seq(B) /\ Append(open, b) /= <<>>
             /\ Append(open, b)[Len(Append(open, b))] = b
             /\ Front(Append(open, b)) = open
  BY DEF Front
<1>3. "object" \in B /\ "array" \in B /\ <<>> \in Seq(B)
  <2>1. "object" \in B /\ "array" \in B
    BY <1>1
  <2>2. <<>> \in Seq(B)
    OBVIOUS
  <2> QED
    BY <2>1, <2>2
<1>4. Append(<<>>, "object") = InText
  BY DEF InText
<1> QED
  BY <1>1, <1>2, <1>3, <1>4 DEF InArray, InEntry

\* A text is put together one token at a time.
LEMMA Tokenwise ==
    ASSUME NEW text \in Seq(Tokens), NEW a \in Tokens, NEW b \in Tokens, NEW c \in Tokens
    PROVE  text \o <<a, b, c>> = Append(Append(Append(text, a), b), c)
OBVIOUS

\* The parser goes on by one token.
LEMMA HasReadMore ==
    ASSUME NEW text, NEW open, NEW last, HasRead(text, open, last), NEW t \in Tokens,
           NEW next, NEW what, ReadToken(At(open, last), t) = At(next, what)
    PROVE  HasRead(Append(text, t), next, what)
<1>1. text \in Seq(Tokens) /\ Append(text, t) \in Seq(Tokens)
  BY DEF HasRead
<1> QED
  BY <1>1, ParseAppend DEF HasRead

\* How the parser moves through the text of an analysis.
LEMMA Moves ==
    /\ ReadToken(At(<<>>, "start"), "object") = At(InText, "open")
    /\ ReadToken(At(InText, "open"), "name") = At(InText, "name")
    /\ ReadToken(At(InText, "name"), "array") = At(InArray, "open")
    /\ \A last \in {"open", "comma"} :
           /\ ReadToken(At(InArray, last), "object") = At(InEntry, "open")
           /\ ReadToken(At(InEntry, last), "member") = At(InEntry, "item")
           /\ ReadToken(At(InText, last), "member") = At(InText, "item")
    /\ \A open \in {InText, InArray, InEntry} :
           ReadToken(At(open, "item"), "comma") = At(open, "comma")
    /\ ReadToken(At(InEntry, "item"), "objectEnd") = At(InArray, "item")
    /\ ReadToken(At(InArray, "item"), "arrayEnd") = At(InText, "item")
    /\ ReadToken(At(InText, "item"), "objectEnd") = At(<<>>, "item")
<1>1. ReadToken(At(<<>>, "start"), "object") = At(InText, "open")
  <2>1. <<>> \in Seq({"object", "array"})
    OBVIOUS
  <2> QED
    BY <2>1, Brackets, ReadBracket
<1>2. ReadToken(At(InText, "open"), "name") = At(InText, "name")
  BY Brackets, ReadItem
<1>3. ReadToken(At(InText, "name"), "array") = At(InArray, "open")
  BY Brackets, ReadBracket DEF InArray
<1>4. ASSUME NEW last \in {"open", "comma"}
      PROVE  /\ ReadToken(At(InArray, last), "object") = At(InEntry, "open")
             /\ ReadToken(At(InEntry, last), "member") = At(InEntry, "item")
             /\ ReadToken(At(InText, last), "member") = At(InText, "item")
  <2>1. ReadToken(At(InArray, last), "object") = At(InEntry, "open")
    BY Brackets, ReadBracket DEF InEntry
  <2>2. ReadToken(At(InEntry, last), "member") = At(InEntry, "item")
    BY Brackets, ReadItem
  <2>3. ReadToken(At(InText, last), "member") = At(InText, "item")
    BY Brackets, ReadItem
  <2> QED
    BY <2>1, <2>2, <2>3
<1>5. ASSUME NEW open \in {InText, InArray, InEntry}
      PROVE  ReadToken(At(open, "item"), "comma") = At(open, "comma")
  <2>1. open \in Seq({"object", "array"}) /\ open /= <<>>
    BY Brackets
  <2> QED
    BY <2>1, ReadItem
<1>6. ReadToken(At(InEntry, "item"), "objectEnd") = At(InArray, "item")
  BY Brackets, ReadBracket
<1>7. ReadToken(At(InArray, "item"), "arrayEnd") = At(InText, "item")
  BY Brackets, ReadBracket
<1>8. ReadToken(At(InText, "item"), "objectEnd") = At(<<>>, "item")
  BY Brackets, ReadBracket
<1> QED
  BY <1>1, <1>2, <1>3, <1>4, <1>5, <1>6, <1>7, <1>8

\* The text begins with its name, and with the bracket of its array.
LEMMA HasReadBeginning == HasRead(<<"object", "name", "array">>, InArray, "open")
<1>1. HasRead(<<>>, <<>>, "start")
  <2>1. <<>> \in Seq(Tokens) /\ Len(<<>>) = 0
    OBVIOUS
  <2>2. PICK f : IsReading(<<>>, f) /\ Parse(<<>>) = f[0]
    BY <2>1, Reading
  <2> QED
    BY <2>1, <2>2 DEF IsReading, ReadAfter, At, HasRead
<1>2. PICK a \in Tokens : a = "object"
  BY DEF Tokens
<1>3. PICK b \in Tokens : b = "name"
  BY DEF Tokens
<1>4. PICK c \in Tokens : c = "array"
  BY DEF Tokens
<1>5. <<>> \o <<a, b, c>> = Append(Append(Append(<<>>, a), b), c)
  <2>1. <<>> \in Seq(Tokens)
    OBVIOUS
  <2> QED
    BY <2>1, Tokenwise
<1>6. <<>> \o <<a, b, c>> = <<a, b, c>>
  OBVIOUS
<1>7. HasRead(Append(<<>>, a), InText, "open")
  BY <1>1, <1>2, Moves, HasReadMore
<1>8. HasRead(Append(Append(<<>>, a), b), InText, "name")
  BY <1>3, <1>7, Moves, HasReadMore
<1>9. HasRead(Append(Append(Append(<<>>, a), b), c), InArray, "open")
  BY <1>4, <1>8, Moves, HasReadMore
<1> QED
  BY <1>2, <1>3, <1>4, <1>5, <1>6, <1>9

\* What is written of an entry.
Entry == <<"object", "member", "comma", "member", "comma", "member", "objectEnd">>

\* An entry is written into the array.
LEMMA HasReadEntry ==
    ASSUME NEW text, NEW last \in {"open", "comma"}, HasRead(text, InArray, last)
    PROVE  HasRead(text \o Entry, InArray, "item")
<1>1. PICK a \in Tokens : a = "object"
  BY DEF Tokens
<1>2. PICK m \in Tokens : m = "member"
  BY DEF Tokens
<1>3. PICK c \in Tokens : c = "comma"
  BY DEF Tokens
<1>4. PICK e \in Tokens : e = "objectEnd"
  BY DEF Tokens
<1>5. text \o <<a, m, c, m, c, m, e>> =
          Append(Append(Append(Append(Append(Append(Append(
              text, a), m), c), m), c), m), e)
  <2>1. text \in Seq(Tokens)
    BY DEF HasRead
  <2>2. \A s \in Seq(Tokens) : \A x, y \in Tokens :
            /\ s \o <<x, y>> = Append(Append(s, x), y)
            /\ Append(Append(s, x), y) \in Seq(Tokens)
    OBVIOUS
  <2>3. Append(text, a) = text \o <<a>> /\ Append(text, a) \in Seq(Tokens)
    BY <2>1
  <2>4. PICK p : p = Append(text, a)
    OBVIOUS
  <2>5. PICK q : q = Append(Append(p, m), c)
    OBVIOUS
  <2>6. PICK r : r = Append(Append(q, m), c)
    OBVIOUS
  <2>7. q = p \o <<m, c>> /\ q \in Seq(Tokens)
    BY <2>2, <2>3, <2>4, <2>5
  <2>8. r = q \o <<m, c>> /\ r \in Seq(Tokens)
    BY <2>2, <2>6, <2>7
  <2>9. Append(Append(r, m), e) = r \o <<m, e>>
    BY <2>2, <2>8
  <2>10. <<a, m, c, m, c, m, e>> = ((<<a>> \o <<m, c>>) \o <<m, c>>) \o <<m, e>>
    OBVIOUS
  <2>11. /\ <<a>> \in Seq(Tokens) /\ <<m, c>> \in Seq(Tokens) /\ <<m, e>> \in Seq(Tokens)
         /\ <<a>> \o <<m, c>> \in Seq(Tokens)
         /\ (<<a>> \o <<m, c>>) \o <<m, c>> \in Seq(Tokens)
    OBVIOUS
  <2>12. q = text \o (<<a>> \o <<m, c>>)
    BY <2>1, <2>3, <2>4, <2>7, <2>11, ConcatAssociative
  <2>13. r = text \o ((<<a>> \o <<m, c>>) \o <<m, c>>)
    BY <2>1, <2>8, <2>11, <2>12, ConcatAssociative
  <2>14. r \o <<m, e>> = text \o (((<<a>> \o <<m, c>>) \o <<m, c>>) \o <<m, e>>)
    BY <2>1, <2>11, <2>13, ConcatAssociative
  <2> QED
    BY <2>4, <2>5, <2>6, <2>9, <2>10, <2>14
<1>6. PICK t : t = Append(text, a)
  OBVIOUS
<1>7. HasRead(t, InEntry, "open")
  BY <1>1, <1>6, Moves, HasReadMore
<1>8. PICK u : u = Append(Append(t, m), c)
  OBVIOUS
<1>9. HasRead(u, InEntry, "comma")
  <2>1. HasRead(Append(t, m), InEntry, "item")
    BY <1>2, <1>7, Moves, HasReadMore
  <2> QED
    BY <1>3, <1>8, <2>1, Moves, HasReadMore
<1>10. PICK v : v = Append(Append(u, m), c)
  OBVIOUS
<1>11. HasRead(v, InEntry, "comma")
  <2>1. HasRead(Append(u, m), InEntry, "item")
    BY <1>2, <1>9, Moves, HasReadMore
  <2> QED
    BY <1>3, <1>10, <2>1, Moves, HasReadMore
<1>12. HasRead(Append(Append(v, m), e), InArray, "item")
  <2>1. HasRead(Append(v, m), InEntry, "item")
    BY <1>2, <1>11, Moves, HasReadMore
  <2> QED
    BY <1>4, <2>1, Moves, HasReadMore
<1>13. Entry = <<a, m, c, m, c, m, e>>
  BY <1>1, <1>2, <1>3, <1>4 DEF Entry
<1> QED
  BY <1>5, <1>6, <1>8, <1>10, <1>12, <1>13

\* The end of the text.
LEMMA HasReadEnd ==
    ASSUME NEW text, HasRead(text, InText, "item")
    PROVE  HasRead(text \o <<"comma", "member", "objectEnd">>, <<>>, "item")
<1>1. PICK c \in Tokens : c = "comma"
  BY DEF Tokens
<1>2. PICK m \in Tokens : m = "member"
  BY DEF Tokens
<1>3. PICK e \in Tokens : e = "objectEnd"
  BY DEF Tokens
<1>4. text \o <<c, m, e>> = Append(Append(Append(text, c), m), e)
  BY Tokenwise DEF HasRead
<1>5. HasRead(Append(text, c), InText, "comma")
  BY <1>1, Moves, HasReadMore
<1>6. HasRead(Append(Append(text, c), m), InText, "item")
  BY <1>2, <1>5, Moves, HasReadMore
<1>7. HasRead(Append(Append(Append(text, c), m), e), <<>>, "item")
  BY <1>3, <1>6, Moves, HasReadMore
<1> QED
  BY <1>1, <1>2, <1>3, <1>4, <1>7

------------------------------------------------------------------------------
\* The invariant holds before the first file is run.
LEMMA InitAnalysis == AnalysisInit => AnalysisIInv
<1> SUFFICES ASSUME AnalysisInit PROVE AnalysisIInv
  OBVIOUS
<1>1. PICK n \in 1 .. MaxFiles : queue \in [1 .. n -> Files]
  BY DEF AnalysisInit
<1>2. queue \in Seq(Files) /\ Len(queue) = n /\ n \in Nat \ {0} /\ queue /= <<>>
  BY <1>1, AnalysisAssumption
<1>3. toRun = queue /\ pc = "run" /\ kept = <<>> /\ toWrite = <<>> /\ covered = {} /\ out = <<>>
  BY DEF AnalysisInit
<1>4. queue[1] \in Files /\ lastTime = queue[1].time
  BY <1>1 DEF AnalysisInit
<1>5. AnalysisTypes
  BY <1>3, <1>4 DEF AnalysisTypes, Files
<1>6. RunInOrder /\ Ran = 0
  BY <1>2, <1>3 DEF RunInOrder, Ran
<1>7. Place(0) = 0 /\ Valid(0) = {}
  BY Places DEF Valid
<1>8. KeptInOrder
  BY <1>3, <1>6, <1>7 DEF KeptInOrder
<1>9. WrittenInOrder
  BY <1>3 DEF WrittenInOrder
<1> QED
  BY <1>3, <1>5, <1>6, <1>8, <1>9 DEF AnalysisIInv, CountedIsWritten, ReadSoFar

\* The files before the ones that are left stay the same.
LEMMA SameFiles ==
    ASSUME UNCHANGED queue
    PROVE  \A k : Valid(k)' = Valid(k) /\ Place(k)' = Place(k)
BY DEF Valid, Place

\* A file that is run keeps the order of what is kept.
LEMMA RunFileAnalysis == AnalysisIInv /\ RunFile => AnalysisIInv'
<1> SUFFICES ASSUME AnalysisIInv, RunFile PROVE AnalysisIInv'
  OBVIOUS
<1>1. AnalysisTypes /\ RunInOrder /\ KeptInOrder /\ WrittenInOrder
  BY DEF AnalysisIInv
<1>2. pc = "run" /\ toRun /= <<>> /\ toRun' = Tail(toRun)
  BY DEF RunFile
<1>3. UNCHANGED <<queue, pc, toWrite, lastTime, covered, out>>
  BY DEF RunFile
<1>4. PICK r \in Nat : r = Ran
  <2>1. Ran \in Nat
    BY <1>1 DEF RunInOrder, Ran
  <2> QED
    BY <2>1
<1>5. PICK file : file = Head(toRun)
  OBVIOUS
<1>6. /\ toRun' \in Seq(Files) /\ Len(toRun') = Len(toRun) - 1 /\ Len(toRun) \in Nat \ {0}
      /\ \A k \in 1 .. Len(toRun') : toRun'[k] = toRun[k + 1]
  BY <1>1, <1>2 DEF RunInOrder
<1>7. r + 1 \in 1 .. Len(queue) /\ queue[r + 1] = file /\ file \in Files /\ Ran' = r + 1
  BY <1>1, <1>3, <1>4, <1>5, <1>6 DEF RunInOrder, Ran
<1>8. RunInOrder'
  <2>1. ASSUME NEW k \in 1 .. Len(toRun') PROVE toRun'[k] = queue[r + 1 + k]
    <3>1. k + 1 \in 1 .. Len(toRun) /\ toRun'[k] = toRun[k + 1]
      BY <1>6
    <3>2. toRun[k + 1] = queue[r + (k + 1)]
      BY <1>1, <1>4, <3>1 DEF RunInOrder
    <3>3. r + (k + 1) = r + 1 + k
      OBVIOUS
    <3> QED
      BY <3>1, <3>2, <3>3
  <2> QED
    BY <1>1, <1>2, <1>3, <1>6, <1>7, <2>1 DEF RunInOrder
<1>9. \A k : Valid(k)' = Valid(k) /\ Place(k)' = Place(k)
  BY <1>3, SameFiles
<1>10. KeptInOrder'
  <2>1. /\ Valid(r) \subseteq 1 .. r /\ Place(r) \in Nat
        /\ Place(r + 1) = Place(r) + (IF file.valid THEN 1 ELSE 0)
        /\ Valid(r + 1) = Valid(r) \cup (IF file.valid THEN {r + 1} ELSE {})
    BY <1>7, Places
  <2>2. kept \in Seq(Entries) /\ Len(kept) = Place(r)
    BY <1>1, <1>4 DEF KeptInOrder
  <2>3. CASE ~ file.valid
    <3>1. kept' = kept
      BY <1>5, <2>3 DEF RunFile
    <3>2. Valid(r + 1) = Valid(r) /\ Place(r + 1) = Place(r)
      BY <2>1, <2>3
    <3> QED
      BY <1>1, <1>3, <1>4, <1>7, <1>9, <3>1, <3>2 DEF KeptInOrder, Feedback, Points
  <2>4. CASE file.valid
    <3>1. PICK entry : entry = [time |-> file.time, bytes |-> Feedback(file)]
      OBVIOUS
    <3>2. kept' = Append(kept, entry)
      BY <1>5, <2>4, <3>1 DEF RunFile
    <3>3. entry \in Entries
      BY <1>7, <3>1, FeedbackType DEF Entries, Files
    <3>4. /\ kept' \in Seq(Entries) /\ Len(kept') = Place(r) + 1
          /\ \A j \in 1 .. Place(r) : kept'[j] = kept[j]
          /\ kept'[Place(r) + 1] = entry
      BY <2>2, <3>2, <3>3
    <3>5. Valid(r + 1) = Valid(r) \cup {r + 1} /\ Place(r + 1) = Place(r) + 1
      BY <2>1, <2>4
    <3>6. ASSUME NEW k \in Valid(r + 1)
          PROVE  /\ Place(k) \in 1 .. Len(kept')
                 /\ kept'[Place(k)].bytes = Feedback(queue[k])
      <4>1. CASE k \in Valid(r)
        BY <1>1, <1>4, <2>1, <2>2, <3>4, <4>1 DEF KeptInOrder
      <4>2. CASE k = r + 1
        BY <1>7, <2>1, <3>1, <3>4, <3>5, <4>2
      <4> QED
        BY <3>5, <4>1, <4>2
    <3>7. ASSUME NEW j \in 1 .. Len(kept') PROVE \E k \in Valid(r + 1) : Place(k) = j
      <4>1. CASE j \in 1 .. Place(r)
        BY <1>1, <1>4, <2>2, <3>5, <4>1 DEF KeptInOrder
      <4>2. CASE j = Place(r) + 1
        BY <3>5, <4>2
      <4> QED
        BY <2>1, <3>4, <4>1, <4>2
    <3>8. \A file2 : Feedback(file2)' = Feedback(file2)
      BY DEF Feedback, Points
    <3> QED
      BY <1>3, <1>7, <1>9, <3>4, <3>5, <3>6, <3>7 DEF KeptInOrder, Feedback, Points
  <2> QED
    BY <2>3, <2>4
<1>11. WrittenInOrder'
  <2>1. Len(kept') \in Nat /\ toWrite = <<>>
    BY <1>1, <1>2, <1>10 DEF WrittenInOrder, KeptInOrder
  <2> QED
    BY <1>1, <1>2, <1>3, <2>1 DEF WrittenInOrder
<1>12. AnalysisTypes'
  BY <1>1, <1>3 DEF AnalysisTypes
<1> QED
  BY <1>2, <1>3, <1>8, <1>10, <1>11, <1>12 DEF AnalysisIInv, CountedIsWritten, ReadSoFar

\* The text begins, with everything to be written.
LEMMA AllRunAnalysis == AnalysisIInv /\ AllRun => AnalysisIInv'
<1> SUFFICES ASSUME AnalysisIInv, AllRun PROVE AnalysisIInv'
  OBVIOUS
<1>1. AnalysisTypes /\ RunInOrder /\ KeptInOrder /\ WrittenInOrder
  BY DEF AnalysisIInv
<1>2. pc = "run" /\ toRun = <<>> /\ toWrite = <<>> /\ covered = {}
  BY <1>1 DEF AllRun, WrittenInOrder
<1>3. UNCHANGED <<queue, toRun, kept, lastTime, covered>>
  BY DEF AllRun
<1>4. RunInOrder'
  BY <1>1, <1>2, <1>3 DEF RunInOrder, Ran
<1>5. KeptInOrder'
  <2>1. \A k : Valid(k)' = Valid(k) /\ Place(k)' = Place(k)
    BY <1>3, SameFiles
  <2> QED
    BY <1>1, <1>3, <2>1 DEF KeptInOrder, Ran, Feedback, Points
<1>6. CASE pc' = "failed" /\ UNCHANGED <<toWrite, out>>
  BY <1>1, <1>2, <1>3, <1>4, <1>5, <1>6
  DEF AnalysisIInv, AnalysisTypes, WrittenInOrder, CountedIsWritten, ReadSoFar, Written
<1>7. CASE pc' = "data" /\ kept /= <<>> /\ toWrite' = kept /\ out' = <<"object", "name", "array">>
  <2>1. HasRead(out', InArray, "open")
    BY <1>7, HasReadBeginning
  <2>2. AnalysisTypes'
    BY <1>1, <1>3, <1>7, <2>1 DEF AnalysisTypes, HasRead
  <2>3. kept \in Seq(Entries) /\ Len(kept) \in Nat
    BY <1>1 DEF KeptInOrder
  <2>4. Written' = 0
    BY <1>3, <1>7, <2>3 DEF Written
  <2>5. WrittenInOrder'
    BY <1>3, <1>7, <2>3, <2>4 DEF WrittenInOrder
  <2>6. CountedIsWritten'
    BY <1>2, <1>3, <1>7, <2>4 DEF CountedIsWritten, PositiveIn
  <2>7. ReadSoFar'
    BY <1>7, <2>1 DEF ReadSoFar, HasRead, At
  <2> QED
    BY <1>4, <1>5, <2>2, <2>5, <2>6, <2>7 DEF AnalysisIInv
<1>8. kept = <<>> => (Len(queue) - Len(kept)) \div Len(queue) = 1
  <2>1. ASSUME NEW n \in Nat \ {0} PROVE (n - 0) \div n = 1
    OBVIOUS
  <2>2. Len(queue) \in Nat \ {0} /\ Len(<<>>) = 0
    BY <1>1 DEF RunInOrder
  <2> QED
    BY <2>1, <2>2
<1> QED
  BY <1>6, <1>7, <1>8 DEF AllRun

\* One entry more is written and counted; the text stays one that can be read.
LEMMA WriteEntryAnalysis == AnalysisIInv /\ WriteEntry => AnalysisIInv'
<1> SUFFICES ASSUME AnalysisIInv, WriteEntry PROVE AnalysisIInv'
  OBVIOUS
<1>1. AnalysisTypes /\ RunInOrder /\ KeptInOrder /\ WrittenInOrder /\ CountedIsWritten
  BY DEF AnalysisIInv
<1>2. pc = "data" /\ toWrite /= <<>> /\ UNCHANGED <<queue, toRun, kept>>
  BY DEF WriteEntry
<1>3. RunInOrder'
  BY <1>1, <1>2 DEF RunInOrder, Ran
<1>4. KeptInOrder'
  <2>1. \A k : Valid(k)' = Valid(k) /\ Place(k)' = Place(k)
    BY <1>2, SameFiles
  <2> QED
    BY <1>1, <1>2, <2>1 DEF KeptInOrder, Ran, Feedback, Points
<1>5. CASE pc' = "failed" /\ UNCHANGED <<toWrite, lastTime, covered, out>>
  BY <1>1, <1>2, <1>3, <1>4, <1>5
  DEF AnalysisIInv, AnalysisTypes, WrittenInOrder, CountedIsWritten, ReadSoFar, Written
<1> PICK entry : entry = Head(toWrite)
  OBVIOUS
<1> PICK more \in BOOLEAN : more <=> Len(toWrite) > 1
  OBVIOUS
<1> PICK now : now = covered \cup CoveredPoints(entry.bytes)
  OBVIOUS
<1>6. /\ toWrite \in Seq(Entries) /\ Len(toWrite) \in Nat \ {0} /\ entry = toWrite[1]
      /\ Len(kept) \in Nat /\ Len(toWrite) <= Len(kept) /\ kept \in Seq(Entries)
  BY <1>1, <1>2 DEF WrittenInOrder, KeptInOrder
<1>7. PICK w \in Nat : w = Written
  <2>1. Written \in Nat
    BY <1>6 DEF Written
  <2> QED
    BY <2>1
<1>8. entry = kept[w + 1] /\ entry \in Entries
  BY <1>1, <1>6, <1>7 DEF WrittenInOrder
<1>9. now = PositiveIn(w + 1) /\ now \subseteq Points
  <2>1. covered = PositiveIn(w)
    BY <1>1, <1>2, <1>7 DEF CountedIsWritten
  <2>2. CoveredPoints(entry.bytes) = {p \in Points : kept[w + 1].bytes[p] >= 1}
    BY <1>8 DEF CoveredPoints
  <2>3. 1 .. w + 1 = (1 .. w) \cup {w + 1}
    OBVIOUS
  <2> QED
    BY <2>1, <2>2, <2>3 DEF PositiveIn
<1>10. PICK last \in {"open", "comma"} : HasRead(out, InArray, last)
  BY <1>2 DEF AnalysisIInv, ReadSoFar
<1>11. PICK s : s = out \o Entry
  OBVIOUS
<1>12. HasRead(s, InArray, "item")
  BY <1>10, <1>11, HasReadEntry
<1>13. s \in Seq(Tokens)
  BY <1>12 DEF HasRead
<1>14. CASE /\ lastTime' = entry.time /\ covered' = now /\ toWrite' = Tail(toWrite)
            /\ \/ more /\ Full(now) /\ pc' = "end" /\ out' = s
               \/ more /\ pc' = "data" /\ out' = Append(s, "comma")
               \/ ~more /\ pc' = "end" /\ out' = Append(s, "arrayEnd")
  <2>1. /\ toWrite' \in Seq(Entries) /\ Len(toWrite') = Len(toWrite) - 1
        /\ \A j \in 1 .. Len(toWrite') : toWrite'[j] = toWrite[j + 1]
    BY <1>6, <1>14
  <2>2. Written' = w + 1
    BY <1>2, <1>6, <1>7, <2>1 DEF Written
  <2>3. more <=> toWrite' /= <<>>
    BY <1>6, <2>1
  <2>4. Append(s, "comma") \in Seq(Tokens) /\ Append(s, "arrayEnd") \in Seq(Tokens)
    BY <1>13 DEF Tokens
  <2>5. AnalysisTypes'
    <3>1. lastTime' \in Times
      BY <1>8, <1>14 DEF Entries
    <3> QED
      BY <1>9, <1>13, <1>14, <2>4, <3>1 DEF AnalysisTypes, Points
  <2>6. WrittenInOrder'
    <3>1. ASSUME NEW j \in 1 .. Len(toWrite') PROVE toWrite'[j] = kept[w + 1 + j]
      <4>1. j + 1 \in 1 .. Len(toWrite) /\ toWrite'[j] = toWrite[j + 1]
        BY <1>6, <2>1
      <4>2. toWrite[j + 1] = kept[w + (j + 1)]
        BY <1>1, <1>7, <4>1 DEF WrittenInOrder
      <4>3. w + (j + 1) = w + 1 + j
        OBVIOUS
      <4> QED
        BY <4>1, <4>2, <4>3
    <3> QED
      BY <1>2, <1>6, <1>14, <2>1, <2>2, <2>3, <3>1 DEF WrittenInOrder
  <2>7. CountedIsWritten'
    <3>1. pc' \in {"end", "done"} /\ toWrite' /= <<>> => covered' = Points
      BY <1>9, <1>14, <2>3, FullIsAll
    <3>2. covered' = PositiveIn(w + 1)'
      BY <1>2, <1>9, <1>14 DEF PositiveIn, Points
    <3> QED
      BY <2>2, <3>1, <3>2 DEF CountedIsWritten, PositiveIn, Points
  <2>8. ReadSoFar'
    <3>1. /\ HasRead(Append(s, "comma"), InArray, "comma")
          /\ HasRead(Append(s, "arrayEnd"), InText, "item")
      BY <1>12, Moves, HasReadMore DEF Tokens
    <3> QED
      BY <1>14, <2>3, <3>1 DEF ReadSoFar
  <2> QED
    BY <1>3, <1>4, <2>5, <2>6, <2>7, <2>8 DEF AnalysisIInv
<1>15. \/ pc' = "failed" /\ UNCHANGED <<toWrite, lastTime, covered, out>>
       \/ /\ lastTime' = entry.time /\ covered' = now /\ toWrite' = Tail(toWrite)
          /\ \/ more /\ Full(now) /\ pc' = "end" /\ out' = s
             \/ more /\ pc' = "data" /\ out' = Append(s, "comma")
             \/ ~more /\ pc' = "end" /\ out' = Append(s, "arrayEnd")
  <2>1. /\ s \o <<>> = s
        /\ s \o <<"comma">> = Append(s, "comma")
        /\ s \o <<"arrayEnd">> = Append(s, "arrayEnd")
    BY <1>13
  <2>2. Append(s, "comma") \o <<>> = Append(s, "comma")
    BY <1>13 DEF Tokens
  <2> QED
    BY <1>11, <2>1, <2>2 DEF WriteEntry, Separator, Entry
<1> QED
  BY <1>5, <1>14, <1>15

\* The text ends.
LEMMA WriteEndAnalysis == AnalysisIInv /\ WriteEnd => AnalysisIInv'
<1> SUFFICES ASSUME AnalysisIInv, WriteEnd PROVE AnalysisIInv'
  OBVIOUS
<1>1. /\ AnalysisTypes /\ RunInOrder /\ KeptInOrder /\ WrittenInOrder
      /\ CountedIsWritten /\ ReadSoFar
  BY DEF AnalysisIInv
<1>2. /\ pc = "end" /\ pc' = "done" /\ out' = out \o <<"comma", "member", "objectEnd">>
      /\ UNCHANGED <<queue, toRun, kept, toWrite, lastTime, covered>>
  BY DEF WriteEnd
<1>3. RunInOrder'
  BY <1>1, <1>2 DEF RunInOrder, Ran
<1>4. KeptInOrder'
  <2>1. \A k : Valid(k)' = Valid(k) /\ Place(k)' = Place(k)
    BY <1>2, SameFiles
  <2> QED
    BY <1>1, <1>2, <2>1 DEF KeptInOrder, Ran, Feedback, Points
<1>5. AnalysisTypes'
  <2>1. <<"comma", "member", "objectEnd">> \in Seq(Tokens)
    BY DEF Tokens
  <2> QED
    BY <1>1, <1>2, <2>1 DEF AnalysisTypes
<1>6. WrittenInOrder' /\ CountedIsWritten'
  BY <1>1, <1>2 DEF WrittenInOrder, CountedIsWritten, Written, PositiveIn, Points
<1>7. ReadSoFar'
  BY <1>1, <1>2, HasReadEnd DEF ReadSoFar
<1> QED
  BY <1>3, <1>4, <1>5, <1>6, <1>7 DEF AnalysisIInv

\* Every reachable state satisfies the inductive invariant.
THEOREM AnalysisIInvHolds == AnalysisSpec => []AnalysisIInv
<1>1. AnalysisIInv /\ [AnalysisNext]_analysisVars => AnalysisIInv'
  <2> SUFFICES ASSUME AnalysisIInv, [AnalysisNext]_analysisVars PROVE AnalysisIInv'
    OBVIOUS
  <2>1. CASE UNCHANGED analysisVars
    <3>1. UNCHANGED <<queue, pc, toRun, kept, toWrite, lastTime, covered, out>>
      BY <2>1 DEF analysisVars
    <3>2. \A k : Valid(k)' = Valid(k) /\ Place(k)' = Place(k)
      BY <3>1, SameFiles
    <3>3. AnalysisTypes' /\ RunInOrder' /\ WrittenInOrder' /\ CountedIsWritten' /\ ReadSoFar'
      BY <3>1
      DEF AnalysisIInv, AnalysisTypes, RunInOrder, WrittenInOrder, CountedIsWritten,
          ReadSoFar, Ran, Written, PositiveIn, Points
    <3>4. KeptInOrder'
      BY <3>1, <3>2 DEF AnalysisIInv, KeptInOrder, Ran, Feedback, Points
    <3> QED
      BY <3>3, <3>4 DEF AnalysisIInv
  <2>2. CASE RunFile
    BY <2>2, RunFileAnalysis
  <2>3. CASE AllRun
    BY <2>3, AllRunAnalysis
  <2>4. CASE WriteEntry
    BY <2>4, WriteEntryAnalysis
  <2>5. CASE WriteEnd
    BY <2>5, WriteEndAnalysis
  <2> QED
    BY <2>1, <2>2, <2>3, <2>4, <2>5 DEF AnalysisNext
<1> QED
  BY <1>1, InitAnalysis, PTL DEF AnalysisSpec

\* What the bytes of the first n valid inputs are positive for is what these
\* inputs show.
LEMMA PositiveIsShown ==
    ASSUME RunInOrder, KeptInOrder, toRun = <<>>,
           NEW n \in 0 .. Len(kept)
    PROVE  PositiveIn(n) = ShownCovered(n)
<1>1. /\ queue \in Seq(Files) /\ Len(queue) \in Nat /\ Ran = Len(queue)
      /\ Len(kept) = Place(Len(queue)) /\ Len(kept) \in Nat
  BY DEF RunInOrder, KeptInOrder, Ran
<1>2. Valid(Len(queue)) \subseteq 1 .. Len(queue)
  BY DEF Valid
<1>3. ASSUME NEW p \in PositiveIn(n) PROVE p \in ShownCovered(n)
  <2>1. PICK j \in 1 .. n : kept[j].bytes[p] >= 1
    BY DEF PositiveIn
  <2>2. PICK k \in Valid(Ran) : Place(k) = j
    BY <1>1, <2>1 DEF KeptInOrder
  <2>3. kept[j].bytes = Feedback(queue[k]) /\ queue[k] \in Files
    BY <1>1, <1>2, <2>2 DEF KeptInOrder
  <2>4. p \in Points /\ Shows(queue[k].toggles[p])
    BY <2>1, <2>3, FeedbackPositive DEF PositiveIn
  <2> QED
    BY <1>1, <2>1, <2>2, <2>4 DEF ShownCovered, Place
<1>4. ASSUME NEW p \in ShownCovered(n) PROVE p \in PositiveIn(n)
  <2>1. PICK k \in Valid(Len(queue)) : Place(k) <= n /\ Shows(queue[k].toggles[p])
    BY DEF ShownCovered, Place
  <2>2. Place(k) \in 1 .. Len(kept) /\ kept[Place(k)].bytes = Feedback(queue[k])
    BY <1>1, <2>1 DEF KeptInOrder
  <2>3. p \in Points /\ queue[k] \in Files
    BY <1>1, <1>2 DEF ShownCovered
  <2>4. kept[Place(k)].bytes[p] >= 1
    BY <2>1, <2>2, <2>3, FeedbackPositive
  <2>5. Place(k) \in 1 .. n
    BY <1>1, <2>1, <2>2
  <2> QED
    BY <2>3, <2>4, <2>5 DEF PositiveIn
<1> QED
  BY <1>3, <1>4

\* CoverageOfBytes for every queue and every cap: the coverage that is reported is
\* that of the valid inputs, but for what no byte of theirs shows.
THEOREM CoverageIsOfBytes == AnalysisSpec => []CoverageOfBytes
<1>1. AnalysisIInv => CoverageOfBytes
  <2> SUFFICES ASSUME AnalysisIInv PROVE CoverageOfBytes
    OBVIOUS
  <2>1. RunInOrder /\ KeptInOrder /\ WrittenInOrder /\ CountedIsWritten /\ AnalysisTypes
    BY DEF AnalysisIInv
  <2>2. Written \in 0 .. Len(kept) /\ Len(kept) \in 0 .. Len(kept)
    BY <2>1 DEF KeptInOrder, WrittenInOrder, Written
  <2>3. pc /= "run" => /\ PositiveIn(Written) = ShownCovered(Written)
                       /\ PositiveIn(Len(kept)) = ShownCovered(Len(kept))
    BY <2>1, <2>2, PositiveIsShown DEF RunInOrder
  <2>4. pc \in {"data", "end", "done"} => covered = ShownCovered(Written)
    BY <2>1, <2>3 DEF CountedIsWritten
  <2>6. ShownCovered(Written) \subseteq ReallyCovered(Written)
    <3>1. \A k \in Valid(Len(queue)) : queue[k] \in Files
      BY <2>1 DEF RunInOrder, Valid
    <3> QED
      BY <3>1, FeedbackPositive DEF ShownCovered, ReallyCovered
  <2>5. ASSUME pc = "done" PROVE covered = ShownCovered(Len(kept))
    <3>1. CASE toWrite = <<>>
      <4>1. Written = Len(kept)
        BY <2>2, <3>1 DEF Written
      <4> QED
        BY <2>4, <2>5, <4>1
    <3>2. CASE toWrite /= <<>>
      <4>1. covered = Points /\ covered = PositiveIn(Written)
        BY <2>1, <2>5, <3>2 DEF CountedIsWritten
      <4>2. PositiveIn(Written) \subseteq PositiveIn(Len(kept))
        BY <2>2 DEF PositiveIn
      <4>3. PositiveIn(Len(kept)) \subseteq Points
        BY DEF PositiveIn
      <4>4. covered = PositiveIn(Len(kept))
        BY <4>1, <4>2, <4>3
      <4>5. PositiveIn(Len(kept)) = ShownCovered(Len(kept))
        BY <2>3, <2>5
      <4> QED
        BY <4>4, <4>5
    <3> QED
      BY <3>1, <3>2
  <2> QED
    BY <2>4, <2>5, <2>6 DEF CoverageOfBytes
<1> QED
  BY <1>1, AnalysisIInvHolds, PTL

\* Then the coverage is complete if no count of a design is lost as a byte, which a
\* cap of 127 would ensure.
COROLLARY CompleteIfCountsShow ==
    ASSUME \A count \in Counts \ {0} : Shows(count)
    PROVE  AnalysisSpec => []CoverageComplete
<1>1. ASSUME RunInOrder, NEW n \in Nat PROVE ReallyCovered(n) = ShownCovered(n)
  <2>1. ASSUME NEW k \in Valid(Len(queue)), NEW p \in Points
        PROVE  queue[k].toggles[p] >= 1 <=> Shows(queue[k].toggles[p])
    <3>1. queue[k] \in Files
      BY <1>1 DEF RunInOrder, Valid
    <3>2. queue[k].toggles[p] \in Counts /\ queue[k].toggles[p] \in Nat
      BY <3>1, AnalysisAssumption DEF Files
    <3> QED
      BY <3>1, <3>2, FeedbackPositive
  <2> QED
    BY <2>1 DEF ReallyCovered, ShownCovered
<1>2. AnalysisIInv /\ CoverageOfBytes => CoverageComplete
  <2>1. AnalysisIInv => RunInOrder /\ Written \in Nat /\ Len(kept) \in Nat
    BY DEF AnalysisIInv, KeptInOrder, WrittenInOrder, Written
  <2> QED
    BY <1>1, <2>1 DEF CoverageOfBytes, CoverageComplete
<1> QED
  BY <1>2, AnalysisIInvHolds, CoverageIsOfBytes, PTL

\* JsonWellFormedToTheEnd for every queue and every cap: the text is well-formed
\* when all entries are written.
THEOREM JsonIsWellFormed == AnalysisSpec => []JsonWellFormedToTheEnd
<1>1. AnalysisIInv => JsonWellFormedToTheEnd
  <2> SUFFICES ASSUME AnalysisIInv PROVE JsonWellFormedToTheEnd
    OBVIOUS
  <2>1. /\ RunInOrder /\ KeptInOrder /\ WrittenInOrder /\ AnalysisTypes /\ ReadSoFar
    BY DEF AnalysisIInv
  <2>2. IsSuffix(toWrite, kept)
    <3>1. PICK w : w = Len(kept) - Len(toWrite)
      OBVIOUS
    <3>2. /\ toWrite \in Seq(Entries) /\ kept \in Seq(Entries) /\ w \in Nat
          /\ Len(toWrite) \in Nat /\ Len(kept) = w + Len(toWrite)
      BY <2>1, <3>1 DEF WrittenInOrder, KeptInOrder
    <3>3. PICK s : s = Reverse(toWrite)
      OBVIOUS
    <3>4. PICK t : t = Reverse(kept)
      OBVIOUS
    <3>5. /\ s \in Seq(Entries) /\ Len(s) = Len(toWrite)
          /\ \A i \in 1 .. Len(toWrite) : s[i] = toWrite[(Len(toWrite) - i) + 1]
      BY <3>2, <3>3 DEF Reverse
    <3>6. /\ t \in Seq(Entries) /\ Len(t) = Len(kept)
          /\ \A i \in 1 .. Len(kept) : t[i] = kept[(Len(kept) - i) + 1]
      BY <3>2, <3>4 DEF Reverse
    <3>7. ASSUME NEW i \in 1 .. Len(s) PROVE s[i] = t[i]
      <4>1. PICK j \in 1 .. Len(toWrite) : j = (Len(toWrite) - i) + 1
        BY <3>2, <3>5
      <4>2. toWrite[j] = kept[w + j]
        BY <2>1, <3>1 DEF WrittenInOrder, Written
      <4>3. w + j = (Len(kept) - i) + 1
        BY <3>2, <4>1
      <4>4. i \in 1 .. Len(kept) /\ i \in 1 .. Len(toWrite)
        BY <3>2, <3>5
      <4> QED
        BY <3>5, <3>6, <4>1, <4>2, <4>3, <4>4
    <3>8. SubSeq(s, 1, Len(s)) = SubSeq(t, 1, Len(s))
      BY <3>2, <3>5, <3>6, <3>7
    <3> QED
      BY <3>2, <3>3, <3>4, <3>5, <3>6, <3>8 DEF IsSuffix, IsPrefix
  <2>3. AnalysisTypeOK
    BY <2>1, <2>2
    DEF AnalysisTypeOK, AnalysisTypes, RunInOrder, KeptInOrder, Entries, Tokens
  <2>4. pc = "done" /\ toWrite = <<>> => WellFormed(out)
    BY <2>1 DEF ReadSoFar, HasRead, At, WellFormed
  <2> QED
    BY <2>3, <2>4 DEF JsonWellFormedToTheEnd
<1> QED
  BY <1>1, AnalysisIInvHolds, PTL
==============================================================================
