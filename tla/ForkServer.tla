----------------------------- MODULE ForkServer ------------------------------
(***************************************************************************)
(* The three processes of a fuzzing campaign: AFL, the AFL proxy that it   *)
(* starts as its fork server, and the JVM that simulates the design.       *)
(*                                                                         *)
(*        ctl            a2j                                               *)
(*   AFL ----->  proxy  ----->  JVM      ctl, st: pipes made by AFL        *)
(*       <-----         <-----           a2j, j2a: FIFOs in the file system*)
(*        st             j2a                                               *)
(*                                                                         *)
(* The trace bits are shared memory of AFL and the proxy; the input is a   *)
(* file that AFL writes and the JVM reads.  Neither has a lock: both are   *)
(* protected by the order of the messages alone.                           *)
(*                                                                         *)
(* A cell of a pipe is a four-byte integer or a byte of coverage, with the *)
(* role its sender meant it to have; the receivers do not look at the role.*)
(* Every system call that may block is a step.  MapSize stands for 1 << 16.*)
(***************************************************************************)
EXTENDS Naturals, Sequences

CONSTANTS
    MapSize,       \* bytes of the trace bits (MAP_SIZE, CoverageMapSize)
    PipeCapacity,  \* cells that fit into a pipe before a writer blocks
    CoverCounts,   \* how many cover points the design may have
    MaxRuns,       \* bounds the inputs of a campaign
    NoOutcome

ASSUME ForkServerAssumption ==
    /\ MapSize \in Nat \ {0}
    /\ PipeCapacity \in Nat \ {0}
    /\ CoverCounts \subseteq Nat
    /\ MaxRuns \in Nat
    /\ NoOutcome \notin [trace : [1 .. MapSize -> Nat],
                         fault : {"none", "timeout", "crash"}]

VARIABLES
    covers,     \* the length of the coverage feedback of this design
    afl,        \* what AFL is doing
    stopSoon,   \* AFL was told to stop
    timedOut,   \* child_timed_out: the timer of the current run has fired
    input,      \* the input file; 0 before the first
    outcome,    \* what run_target returned for the last input
    trace,      \* the trace bits in shared memory
    proxy,      \* what the proxy is doing
    runOnce,    \* the proxy found no AFL to greet
    status,     \* the status the proxy got from the JVM
    want, got,  \* the bytes of coverage the proxy waits for, and has
    jvm,        \* what the JVM is doing
    toSend,     \* the cells of the result that the JVM has not written yet
    ctl, st, a2j, j2a

aflVars == <<afl, stopSoon, timedOut, input, outcome>>
proxyVars == <<proxy, runOnce, status, want, got>>
jvmVars == <<jvm, toSend>>
pipes == <<ctl, st, a2j, j2a>>
vars == <<covers, aflVars, trace, proxyVars, jvmVars, pipes>>

------------------------------------------------------------------------------
Cell(role, val) == [role |-> role, val |-> val]

AflRunning == afl \notin {"gone", "fatal"}
ProxyRunning == proxy /= "gone"

\* The JVM closes its FIFOs when it exits, after it has written its results.
JvmRunning == jvm \notin {"finished", "crashed"}

NoTrace == [k \in 1 .. MapSize |-> 0]

\* Mutated form: the dummy byte is counted and not sent.
ResultWithoutDummy(i) ==
    <<Cell("status", 0), Cell("size", covers + 1)>>
    \o [k \in 1 .. covers |-> Cell("byte", i + 1)]

\* handleResult: status Success, the size, the dummy byte and the coverage.
\* Every byte of coverage of input i is i + 1, which stands for whatever the
\* design covers under that input.
Result(i) ==
    <<Cell("status", 0), Cell("size", covers + 1), Cell("byte", 1)>>
    \o [k \in 1 .. covers |-> Cell("byte", i + 1)]

\* Mutated form: a map of the full size is accepted beside the dummy byte.
FitsOneMore == covers <= MapSize

\* require(coverage.length < CoverageMapSize)
Fits == covers < MapSize

------------------------------------------------------------------------------
Init ==
    /\ covers \in CoverCounts
    /\ afl = "init" /\ stopSoon = FALSE /\ timedOut = FALSE
    /\ input = 0 /\ outcome = NoOutcome /\ trace = NoTrace
    /\ proxy = "open_a2j" /\ runOnce = FALSE /\ status = 0
    /\ want = 0 /\ got = 0
    /\ jvm = "open_a2j" /\ toSend = <<>>
    /\ ctl = <<>> /\ st = <<>> /\ a2j = <<>> /\ j2a = <<>>

(***************************************************************************)
(* Opening a FIFO blocks until the other end is opened too, so that both   *)
(* sides get past it together: first a2j and then j2a, on both sides.      *)
(***************************************************************************)
OpenA2J ==
    /\ proxy = "open_a2j" /\ jvm = "open_a2j"
    /\ proxy' = "open_j2a" /\ jvm' = "open_j2a"
    /\ UNCHANGED <<covers, aflVars, trace, runOnce, status, want, got,
                   toSend, pipes>>

OpenJ2A ==
    /\ proxy = "open_j2a" /\ jvm = "open_j2a"
    /\ proxy' = "hello" /\ jvm' = "wait"
    /\ UNCHANGED <<covers, aflVars, trace, runOnce, status, want, got,
                   toSend, pipes>>
------------------------------------------------------------------------------
(* AFL *)

\* A read of AFL from st comes back short: the proxy has exited.
StatusPipeClosed == st = <<>> /\ ~ProxyRunning

\* init_forkserver: the four bytes of the hello, or a fatal error.
AflInit ==
    /\ afl = "init"
    /\ \/ /\ st /= <<>>
          /\ st' = Tail(st)
          /\ afl' = "idle"
       \/ /\ StatusPipeClosed
          /\ afl' = "fatal"
          /\ UNCHANGED st
    /\ UNCHANGED <<covers, stopSoon, timedOut, input, outcome, trace,
                   proxyVars, jvmVars, ctl, a2j, j2a>>

\* handle_timeout while there is no child yet: the fork server is not up in
\* time and AFL kills it.  If the hello has come just before, the read of it
\* still succeeds.
AflInitTimeout ==
    /\ afl = "init"
    /\ timedOut' = TRUE
    /\ proxy' = "gone"
    /\ UNCHANGED <<covers, afl, stopSoon, input, outcome, trace, runOnce,
                   status, want, got, jvmVars, pipes>>

\* Write the test case, clear the trace bits, and request a run; whether the
\* last run timed out is passed on, and the proxy does not look at it.
AflStartRun ==
    /\ afl = "idle" /\ ~stopSoon /\ input < MaxRuns
    /\ input' = input + 1
    /\ outcome' = NoOutcome
    /\ timedOut' = FALSE
    /\ trace' = NoTrace
    /\ \/ /\ ProxyRunning
          /\ ctl' = Append(ctl, Cell("run", IF timedOut THEN 1 ELSE 0))
          /\ afl' = "get_pid"
       \/ /\ ~ProxyRunning
          /\ afl' = "fatal"
          /\ UNCHANGED ctl
    /\ UNCHANGED <<covers, stopSoon, proxyVars, jvmVars, st, a2j, j2a>>

\* The reads of run_target; a short one is fatal unless AFL is stopping.
AflGetPid ==
    /\ afl = "get_pid"
    /\ \/ /\ st /= <<>>
          /\ st' = Tail(st)
          /\ afl' = "get_status"
       \/ /\ StatusPipeClosed
          /\ afl' = IF stopSoon THEN "gone" ELSE "fatal"
          /\ UNCHANGED st
    /\ UNCHANGED <<covers, stopSoon, timedOut, input, outcome, trace,
                   proxyVars, jvmVars, ctl, a2j, j2a>>

\* Mutated form: the handler takes the proxy for the child and kills it.
AflTimeoutKills ==
    /\ afl = "get_status"
    /\ timedOut' = TRUE
    /\ proxy' = "gone"
    /\ UNCHANGED <<covers, afl, stopSoon, input, outcome, trace, runOnce,
                   status, want, got, jvmVars, pipes>>

\* handle_timeout: the signal goes to the pid the proxy has sent, which no
\* process has; the read of the status is restarted.
AflTimeout ==
    /\ afl = "get_status"
    /\ timedOut' = TRUE
    /\ UNCHANGED <<covers, afl, stopSoon, input, outcome, trace, proxyVars,
                   jvmVars, pipes>>

\* Mutated form: the run is given up when its timer has fired.
AflGetStatusOrTimeout ==
    /\ afl = "get_status"
    /\ \/ st /= <<>> /\ st' = Tail(st)
       \/ timedOut /\ UNCHANGED st
    /\ afl' = "idle"
    /\ outcome' = [trace |-> trace, fault |-> "none"]
    /\ UNCHANGED <<covers, stopSoon, timedOut, input, trace, proxyVars,
                   jvmVars, ctl, a2j, j2a>>

\* Signals are the low seven bits of a status; 9 is SIGKILL.
Fault(value) ==
    IF value % 128 = 0 \/ stopSoon THEN "none"
    ELSE IF timedOut /\ value % 128 = 9 THEN "timeout" ELSE "crash"

AflGetStatus ==
    /\ afl = "get_status"
    /\ \/ /\ st /= <<>>
          /\ st' = Tail(st)
          /\ afl' = "idle"
          /\ outcome' = [trace |-> trace, fault |-> Fault(Head(st).val)]
       \/ /\ StatusPipeClosed
          /\ afl' = IF stopSoon THEN "gone" ELSE "fatal"
          /\ UNCHANGED <<st, outcome>>
    /\ UNCHANGED <<covers, stopSoon, timedOut, input, trace, proxyVars,
                   jvmVars, ctl, a2j, j2a>>

\* handle_stop_sig, from Ctrl-C or from the `timeout` command of fuzz.py.
AflStop ==
    /\ AflRunning /\ ~stopSoon
    /\ stopSoon' = TRUE
    /\ proxy' = "gone"
    /\ UNCHANGED <<covers, afl, timedOut, input, outcome, trace, runOnce,
                   status, want, got, jvmVars, pipes>>

AflQuit ==
    /\ afl = "idle" /\ stopSoon
    /\ afl' = "gone"
    /\ UNCHANGED <<covers, stopSoon, timedOut, input, outcome, trace,
                   proxyVars, jvmVars, pipes>>

\* AFL dies without a chance to kill its fork server.
AflDies ==
    /\ AflRunning
    /\ afl' = "gone"
    /\ UNCHANGED <<covers, stopSoon, timedOut, input, outcome, trace,
                   proxyVars, jvmVars, pipes>>
------------------------------------------------------------------------------
(* The proxy *)

\* The first hello.  Without AFL, the proxy does one run and exits.
ProxyHello ==
    /\ proxy = "hello"
    /\ runOnce' = ~AflRunning
    /\ st' = IF AflRunning THEN Append(st, Cell("hello", 0)) ELSE st
    /\ proxy' = IF AflRunning THEN "wait" ELSE "helo"
    /\ UNCHANGED <<covers, aflVars, trace, status, want, got, jvmVars,
                   ctl, a2j, j2a>>

\* The request for a run, or the end of the main loop.
ProxyWait ==
    /\ proxy = "wait"
    /\ \/ /\ ctl /= <<>>
          /\ ctl' = Tail(ctl)
          /\ proxy' = "pid"
       \/ /\ ctl = <<>> /\ ~AflRunning
          /\ proxy' = "gone"
          /\ UNCHANGED ctl
    /\ UNCHANGED <<covers, aflVars, trace, runOnce, status, want, got,
                   jvmVars, st, a2j, j2a>>

\* The pid no process has.
ProxyPid ==
    /\ proxy = "pid"
    /\ proxy' = IF AflRunning THEN "helo" ELSE "gone"
    /\ st' = IF AflRunning THEN Append(st, Cell("pid", 0)) ELSE st
    /\ UNCHANGED <<covers, aflVars, trace, runOnce, status, want, got,
                   jvmVars, ctl, a2j, j2a>>

\* The hello is buffered, and what fflush says of a JVM that is gone is not
\* looked at.
ProxyHelo ==
    /\ proxy = "helo"
    /\ proxy' = "status"
    /\ a2j' = IF JvmRunning THEN Append(a2j, Cell("helo", 0)) ELSE a2j
    /\ UNCHANGED <<covers, aflVars, trace, runOnce, status, want, got,
                   jvmVars, ctl, st, j2a>>

\* Mutated form: the dummy byte, which the size includes, is added again.
OneByteMore(size) == size + 1

\* How many bytes go into the trace bits.
BytesToRead(size) == IF MapSize < size THEN MapSize ELSE size

\* The status, the size and the bytes of the result, as they come; a short
\* read ends the proxy.
ProxyRead ==
    /\ proxy \in {"status", "size", "bits"}
    /\ proxy = "bits" => got < want
    /\ \/ /\ j2a /= <<>>
          /\ j2a' = Tail(j2a)
          /\ \/ /\ proxy = "status"
                /\ status' = Head(j2a).val
                /\ proxy' = "size"
                /\ UNCHANGED <<trace, want, got>>
             \/ /\ proxy = "size"
                /\ want' = BytesToRead(Head(j2a).val)
                /\ got' = 0
                /\ proxy' = "bits"
                /\ UNCHANGED <<trace, status>>
             \/ /\ proxy = "bits"
                /\ trace' = [trace EXCEPT ![got + 1] = Head(j2a).val]
                /\ got' = got + 1
                /\ UNCHANGED <<proxy, status, want>>
       \/ /\ j2a = <<>> /\ ~JvmRunning
          /\ proxy' = "gone"
          /\ UNCHANGED <<j2a, trace, status, want, got>>
    /\ UNCHANGED <<covers, aflVars, runOnce, jvmVars, ctl, st, a2j>>

\* Mutated form: AFL is told before the trace bits are complete.
ProxyReplyEarly ==
    /\ proxy = "bits"
    /\ proxy' = IF AflRunning /\ ~runOnce THEN "wait" ELSE "gone"
    /\ st' = IF AflRunning /\ ~runOnce
             THEN Append(st, Cell("status", status)) ELSE st
    /\ UNCHANGED <<covers, aflVars, trace, runOnce, status, want, got,
                   jvmVars, ctl, a2j, j2a>>

\* All bytes are in the trace bits: tell AFL.
ProxyReply ==
    /\ proxy = "bits" /\ got = want
    /\ proxy' = IF AflRunning /\ ~runOnce THEN "wait" ELSE "gone"
    /\ st' = IF AflRunning /\ ~runOnce
             THEN Append(st, Cell("status", status)) ELSE st
    /\ UNCHANGED <<covers, aflVars, trace, runOnce, status, want, got,
                   jvmVars, ctl, a2j, j2a>>
------------------------------------------------------------------------------
(* The JVM *)

\* Mutated form: the end of the FIFO is not told from a request.
JvmWaitForever ==
    /\ jvm = "wait"
    /\ a2j /= <<>>
    /\ a2j' = Tail(a2j)
    /\ jvm' = "run"
    /\ UNCHANGED <<covers, aflVars, trace, proxyVars, toSend, ctl, st, j2a>>

\* Mutated form: the loop ends when no request is there yet.
JvmWaitImpatient ==
    /\ jvm = "wait"
    /\ \/ /\ a2j /= <<>>
          /\ a2j' = Tail(a2j)
          /\ jvm' = "run"
       \/ /\ a2j = <<>>
          /\ jvm' = "end"
          /\ UNCHANGED a2j
    /\ UNCHANGED <<covers, aflVars, trace, proxyVars, toSend, ctl, st, j2a>>

\* waitForAFL
JvmWait ==
    /\ jvm = "wait"
    /\ \/ /\ a2j /= <<>>
          /\ a2j' = Tail(a2j)
          /\ jvm' = "run"
       \/ /\ a2j = <<>> /\ ~ProxyRunning
          /\ jvm' = "end"
          /\ UNCHANGED a2j
    /\ UNCHANGED <<covers, aflVars, trace, proxyVars, toSend, ctl, st, j2a>>

\* Run the design on the input file and prepare the result.
JvmRun ==
    /\ jvm = "run"
    /\ Fits
    /\ toSend' = Result(input)
    /\ jvm' = "send"
    /\ UNCHANGED <<covers, aflVars, trace, proxyVars, pipes>>

\* The simulation throws, or the coverage does not fit: no catch clause.
JvmCrash ==
    /\ jvm = "run"
    /\ jvm' = "crashed"
    /\ UNCHANGED <<covers, aflVars, trace, proxyVars, toSend, pipes>>

\* One cell of the result into the FIFO, which may be full.  Without a reader
\* the write throws the IOException that ends the loop.
JvmSend ==
    /\ jvm = "send"
    /\ \/ /\ ProxyRunning
          /\ Len(j2a) < PipeCapacity
          /\ j2a' = Append(j2a, Head(toSend))
          /\ toSend' = Tail(toSend)
          /\ jvm' = IF Len(toSend) = 1 THEN "wait" ELSE "send"
       \/ /\ ~ProxyRunning
          /\ jvm' = "end"
          /\ UNCHANGED <<toSend, j2a>>
    /\ UNCHANGED <<covers, aflVars, trace, proxyVars, ctl, st, a2j>>

\* Write end_time, then target.finish.
JvmFinish ==
    /\ jvm = "end"
    /\ jvm' = "finished"
    /\ UNCHANGED <<covers, aflVars, trace, proxyVars, toSend, pipes>>
------------------------------------------------------------------------------
Afl == AflInit \/ AflStartRun \/ AflGetPid \/ AflGetStatus \/ AflQuit

Proxy == ProxyHello \/ ProxyWait \/ ProxyPid \/ ProxyHelo \/ ProxyRead \/ ProxyReply

Jvm == JvmWait \/ JvmRun \/ JvmSend \/ JvmFinish

Environment == AflInitTimeout \/ AflTimeout \/ AflStop \/ AflDies \/ JvmCrash

Next == OpenA2J \/ OpenJ2A \/ Afl \/ Proxy \/ Jvm \/ Environment

\* The operating system runs every process that can run.  Nothing says that a
\* timer fires, that somebody stops AFL or that anything dies.  A design that
\* does not fit into the map can only crash.
Fairness ==
    /\ WF_vars(OpenA2J) /\ WF_vars(OpenJ2A)
    /\ WF_vars(Afl) /\ WF_vars(Proxy) /\ WF_vars(Jvm)
    /\ WF_vars(~Fits /\ JvmCrash)

Spec == Init /\ [][Next]_vars /\ Fairness

------------------------------------------------------------------------------
Cells(roles) == Seq([role : roles, val : Nat])

TypeOK ==
    /\ covers \in CoverCounts
    /\ afl \in {"init", "idle", "get_pid", "get_status", "gone", "fatal"}
    /\ stopSoon \in BOOLEAN /\ timedOut \in BOOLEAN /\ runOnce \in BOOLEAN
    /\ input \in 0 .. MaxRuns
    /\ outcome = NoOutcome \/ outcome.trace \in [1 .. MapSize -> Nat]
    /\ trace \in [1 .. MapSize -> Nat]
    /\ proxy \in {"open_a2j", "open_j2a", "hello", "wait", "pid", "helo",
                  "status", "size", "bits", "gone"}
    /\ status \in Nat /\ want \in 0 .. MapSize /\ got \in 0 .. want
    /\ jvm \in {"open_a2j", "open_j2a", "wait", "run", "send", "end",
                "finished", "crashed"}
    /\ toSend \in Cells({"status", "size", "byte"})
    /\ ctl \in Cells({"run"}) /\ a2j \in Cells({"helo"})
    /\ st \in Cells({"hello", "pid", "status"})
    /\ j2a \in Cells({"status", "size", "byte"})

\* Nobody takes a cell of a pipe for something else than its sender meant:
\* the streams stay in step through timeouts and results of any size.
Framing ==
    /\ st /= <<>> =>
           /\ afl = "init" => Head(st).role = "hello"
           /\ afl = "get_pid" => Head(st).role = "pid"
           /\ afl = "get_status" => Head(st).role = "status"
    /\ j2a /= <<>> /\ proxy \in {"status", "size", "bits"} =>
           Head(j2a).role = IF proxy = "bits" THEN "byte" ELSE proxy

\* What the processes share without a lock has one user at a time: the input
\* file belongs to the JVM from the hello to the end of the run, and while AFL
\* hashes and compares the trace bits nobody else writes them.
SharedDataStable ==
    [][/\ input' /= input => jvm \notin {"run", "send"} /\ a2j = <<>>
       /\ afl = "idle" /\ trace' /= trace => input' = input + 1]_vars

\* Nobody gives up without a cause. Once the first input has been answered AFL
\* ends with a fatal error only when the JVM has crashed: never for a slow run,
\* nor for being stopped. And a JVM that ends its loop has lost the proxy for
\* good: no request is lost.
EndsHaveCause ==
    /\ afl = "fatal" => jvm = "crashed" \/ (input <= 1 /\ outcome = NoOutcome)
    /\ jvm \in {"end", "finished"} => ~ProxyRunning

\* Every run AFL starts comes to an end: it gets an outcome, or AFL ends.
EveryRunEnds ==
    afl \in {"get_pid", "get_status"} ~> afl \in {"idle", "gone", "fatal"}

\* After AFL has ended, however it did, the JVM that was connected writes its
\* end_time and finishes, unless the simulation has thrown an exception.
JvmFinishes ==
    ~AflRunning /\ jvm \notin {"open_a2j", "open_j2a"}
        ~> jvm \in {"finished", "crashed"}

------------------------------------------------------------------------------
\* Three processes, four pipes, a file and shared memory look to AFL like one
\* call per input, also when its timer fires.
Server == INSTANCE FuzzServer

ImplementsServer == Server!Spec
==============================================================================
