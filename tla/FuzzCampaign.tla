---------------------------- MODULE FuzzCampaign -----------------------------
(***************************************************************************)
(* A campaign of several iterations, as fuzz.py runs it: each iteration    *)
(* starts a JVM in the background, sleeps, and runs AFL under `timeout`.   *)
(* All of them use the same two FIFOs, a2j and j2a, and the same input     *)
(* file, and nothing waits for a JVM: the JVMs of iterations that failed   *)
(* or ended late are still there in the next ones.                         *)
(*                                                                         *)
(* A FIFO is opened in two steps, as the kernel does it: who arrives wakes *)
(* those that wait for the other end, and waits if there is no other end,  *)
(* where an end that waits itself counts.  The content is lost when nobody *)
(* has the FIFO open.  What happens within a session is the subject of     *)
(* ForkServer: here AFL writes an input, asks and gets an answer.  It does *)
(* not write over the input file but unlinks it and creates a new one, so  *)
(* that a JVM which is out of step may find no file, or an empty one.      *)
(***************************************************************************)
EXTENDS Naturals, Sequences, SequencesExt

CONSTANTS
    Iterations,   \* of fuzz.py
    Inputs,       \* AFL numbers the inputs of a session modulo this
    Scenarios,    \* the sets of things that may go wrong in a campaign
    NoInput

\* What may go wrong: the simulator is not built when the sleep of 13 seconds
\* is over, a run outlasts that sleep, a session ends between the two opens of
\* a JVM, a JVM dies, there is already a folder for the results.
Faults == {"slow_start", "slow_run", "torn_open", "crash", "folder_exists"}

ASSUME CampaignAssumption ==
    /\ Iterations \in Nat \ {0} /\ Inputs \in Nat \ {0}
    /\ Scenarios \subseteq SUBSET Faults

VARIABLES
    faults,       \* what may go wrong in this campaign
    script,       \* what fuzz.py is doing
    jvm,          \* what the JVM of each iteration so far is doing
    req,          \* the input it has read from the file and runs
    afl, proxy,   \* of the session of the last iteration
    input,        \* the input that AFL has under way
    inputFile,    \* is it missing, empty, or full with that input?
    answer,       \* what AFL was told last: of which input, by which JVM
    a2j, j2a,     \* the content of the FIFOs
    endTime       \* by folder: when end_time was written; 0: not yet

fifos == <<a2j, j2a>>
vars == <<faults, script, jvm, req, afl, proxy, input, inputFile, answer, fifos, endTime>>

------------------------------------------------------------------------------
Iter == Len(jvm)
Jvms == 1 .. Iter

\* The ends of the FIFOs that are open or being opened.
Reads(state) ==
    state \in {"open_a2j", "opened", "open_j2a", "wait", "open", "run", "end", "finish"}
Writes(state) == state \in {"open_j2a", "wait", "open", "run", "end", "finish"}
ProxyWrites == proxy \in {"open_a2j", "opened", "open_j2a", "up"}
ProxyReads == proxy \in {"open_j2a", "up"}

\* Content of a FIFO, where held says whether anybody still has it open.
Left(content, held) == IF held THEN content ELSE <<>>

\* Those that wait in state go on.
Woken(from, to) == [j \in Jvms |-> IF jvm[j] = from THEN to ELSE jvm[j]]

\* Mutated form: no sleep.
RestedNever == TRUE

\* After the sleep the new JVM waits for the FIFOs, and the JVMs before have
\* finished or wait as well, unless a build or a run is slow.
Rested ==
    /\ "slow_start" \in faults \/ jvm[Iter] /= "start"
    /\ \A j \in 1 .. Iter - 1 :
          \/ jvm[j] \in {"start", "open_a2j", "open_j2a", "dead", "exited"}
          \/ jvm[j] = "run" /\ "slow_run" \in faults

\* Mutated forms: an empty FIFO is taken for its end, or the end is not seen.
EndOfRequestsWhenEmpty == a2j = <<>>
EndOfRequestsNever == FALSE

\* waitForAFL: less than four bytes, as nobody writes.
EndOfRequests == a2j = <<>> /\ ~ProxyWrites

\* Mutated form: AFL does not wait for the answer.
MayAskAnytime == afl \in {"idle", "asked"}
MayAsk == afl = "idle"

NextInput ==
    IF input = NoInput \/ input[1] /= Iter THEN <<Iter, 0>>
    ELSE <<Iter, (input[2] + 1) % Inputs>>

------------------------------------------------------------------------------
Init ==
    /\ faults \in Scenarios
    /\ script = "spawn" /\ jvm = <<>> /\ req = <<>>
    /\ afl = "gone" /\ proxy = "gone"
    /\ input = NoInput /\ inputFile = "missing" /\ answer = NoInput
    /\ a2j = <<>> /\ j2a = <<>> /\ endTime = [i \in 1 .. Iterations |-> 0]

(* fuzz.py *)

\* java ... &
Spawn ==
    /\ script = "spawn" /\ Iter < Iterations
    /\ jvm' = Append(jvm, "start")
    /\ req' = Append(req, NoInput)
    /\ script' = "sleep"
    /\ UNCHANGED <<faults, afl, proxy, input, inputFile, answer, fifos, endTime>>

\* sys.exit(1): results would be overwritten.
GiveUp ==
    /\ script = "spawn" /\ "folder_exists" \in faults
    /\ script' = "done"
    /\ UNCHANGED <<faults, jvm, req, afl, proxy, input, inputFile, answer, fifos, endTime>>

\* The sleep is over, and AFL starts its fork server, the proxy.
StartFuzzer ==
    /\ script = "sleep" /\ Rested
    /\ script' = "fuzz" /\ afl' = "init" /\ proxy' = "new"
    /\ UNCHANGED <<faults, jvm, req, input, inputFile, answer, fifos, endTime>>

FuzzerEnded ==
    /\ script = "fuzz" /\ afl = "gone"
    /\ script' = IF Iter = Iterations THEN "done" ELSE "spawn"
    /\ UNCHANGED <<faults, jvm, req, afl, proxy, input, inputFile, answer, fifos, endTime>>

------------------------------------------------------------------------------
(* The proxy and AFL *)

\* fopen(to_java_str, "w"): the waiting readers go on.
ProxyOpenA2J ==
    /\ proxy = "new"
    /\ proxy' = IF \E j \in Jvms : Reads(jvm[j]) THEN "opened" ELSE "open_a2j"
    /\ jvm' = Woken("open_a2j", "opened")
    /\ UNCHANGED <<faults, script, req, afl, input, inputFile, answer, fifos, endTime>>

\* fopen(from_java_str, "r"), and the hello to AFL.
ProxyOpenJ2A ==
    /\ proxy = "opened"
    /\ proxy' = IF \E j \in Jvms : Writes(jvm[j]) THEN "up" ELSE "open_j2a"
    /\ jvm' = Woken("open_j2a", "wait")
    /\ UNCHANGED <<faults, script, req, afl, input, inputFile, answer, fifos, endTime>>

AflInit ==
    /\ afl = "init" /\ proxy = "up"
    /\ afl' = "idle"
    /\ UNCHANGED <<faults, script, jvm, req, proxy, input, inputFile, answer, fifos, endTime>>

\* The proxy has gone, and AFL goes after it.
SessionOver(then) ==
    /\ proxy' = "gone" /\ afl' = then /\ answer' = NoInput
    /\ a2j' = Left(a2j, \E j \in Jvms : Reads(jvm[j]))
    /\ j2a' = Left(j2a, \E j \in Jvms : Writes(jvm[j]))
    /\ UNCHANGED <<faults, script, jvm, req, input, inputFile, endTime>>

\* Mutated form: the handler only looks at the child, which there is none of.
HandshakeTimeoutIgnored ==
    /\ afl = "init" /\ proxy \in {"open_a2j", "open_j2a"}
    /\ UNCHANGED vars

\* init_forkserver has waited for the hello for ten seconds: handle_timeout
\* kills the proxy, and AFL ends. (That is longer than a JVM takes from one
\* open to the next.)
HandshakeTimeout ==
    /\ afl = "init" /\ proxy \in {"open_a2j", "open_j2a"}
    /\ \A j \in Jvms : jvm[j] /= "opened"
    /\ SessionOver("gone")

\* write_to_testcase: the file of the last input is unlinked,
UnlinkInput ==
    /\ MayAsk
    /\ input' = NextInput /\ inputFile' = "missing"
    /\ afl' = "create" /\ answer' = NoInput
    /\ UNCHANGED <<faults, script, jvm, req, proxy, fifos, endTime>>

\* a new one is created (O_EXCL),
CreateInput ==
    /\ afl \in {"create", "stopped"} /\ inputFile = "missing"
    /\ inputFile' = "empty"
    /\ afl' = IF afl = "create" THEN "write" ELSE afl
    /\ UNCHANGED <<faults, script, jvm, req, proxy, input, answer, fifos, endTime>>

\* and written. AFL ends only now if its time was up in the meantime.
WriteInput ==
    /\ afl \in {"write", "stopped"} /\ inputFile = "empty"
    /\ inputFile' = "full"
    /\ afl' = IF afl = "write" THEN "send" ELSE "gone"
    /\ UNCHANGED <<faults, script, jvm, req, proxy, input, answer, fifos, endTime>>

\* The proxy asks for the input to be run.
Ask ==
    /\ afl = "send"
    /\ a2j' = IF \E j \in Jvms : Reads(jvm[j]) THEN Append(a2j, "HELO") ELSE a2j
    /\ afl' = "asked"
    /\ UNCHANGED <<faults, script, jvm, req, proxy, input, inputFile, answer, j2a, endTime>>

\* The proxy takes what comes for the answer.
Answered ==
    /\ afl = "asked" /\ j2a /= <<>>
    /\ answer' = Head(j2a) /\ j2a' = Tail(j2a)
    /\ afl' = "idle"
    /\ UNCHANGED <<faults, script, jvm, req, proxy, input, inputFile, a2j, endTime>>

\* A short read: the proxy exits, and AFL cannot go on.
NobodyAnswers ==
    /\ afl = "asked" /\ j2a = <<>> /\ \A j \in Jvms : ~Writes(jvm[j])
    /\ SessionOver("gone")

\* The time of the session is up: AFL kills its fork server and ends, after what
\* it is just writing.
Timeout ==
    /\ afl \in {"idle", "create", "write", "send", "asked"}
    /\ "torn_open" \in faults \/ \A j \in Jvms : jvm[j] /= "opened"
    /\ SessionOver(IF afl \in {"create", "write"} THEN "stopped" ELSE "gone")

------------------------------------------------------------------------------
(* The JVM of iteration j *)

Goes(j, state) == jvm' = [jvm EXCEPT ![j] = state]

\* The simulator is built: open a2j, and the proxy that waits for it goes on.
JvmOpenA2J(j) ==
    /\ jvm[j] = "start"
    /\ Goes(j, IF ProxyWrites THEN "opened" ELSE "open_a2j")
    /\ proxy' = IF proxy = "open_a2j" THEN "opened" ELSE proxy
    /\ UNCHANGED <<faults, script, req, afl, input, inputFile, answer, fifos, endTime>>

JvmOpenJ2A(j) ==
    /\ jvm[j] = "opened"
    /\ Goes(j, IF ProxyReads THEN "wait" ELSE "open_j2a")
    /\ proxy' = IF proxy = "open_j2a" THEN "up" ELSE proxy
    /\ UNCHANGED <<faults, script, req, afl, input, inputFile, answer, fifos, endTime>>

\* waitForAFL; of several readers one gets the request.
JvmWait(j) ==
    /\ jvm[j] = "wait"
    /\ \/ a2j /= <<>> /\ a2j' = Tail(a2j) /\ Goes(j, "open")
       \/ EndOfRequests /\ Goes(j, "end") /\ UNCHANGED a2j
    /\ UNCHANGED <<faults, script, req, afl, proxy, input, inputFile, answer, j2a, endTime>>

\* The input file is opened for every request; if it is not there that is the
\* exception that ends the loop. (A file that is opened while it is empty and read
\* after it was written is as good as one that is opened then.)
JvmOpenInput(j) ==
    /\ jvm[j] = "open"
    /\ Goes(j, IF inputFile = "missing" THEN "end" ELSE "run")
    /\ req' = [req EXCEPT ![j] = IF inputFile = "full" THEN input ELSE NoInput]
    /\ UNCHANGED <<faults, script, afl, proxy, input, inputFile, answer, fifos, endTime>>

\* handleResult; writing without a reader throws the exception that is caught.
JvmAnswer(j) ==
    /\ jvm[j] = "run"
    /\ \/ /\ ProxyReads
          /\ j2a' = Append(j2a, [input |-> req[j], by |-> j])
          /\ Goes(j, "wait")
       \/ /\ ~ProxyReads
          /\ Goes(j, "end")
          /\ UNCHANGED j2a
    /\ req' = [req EXCEPT ![j] = NoInput]
    /\ UNCHANGED <<faults, script, afl, proxy, input, inputFile, answer, a2j, endTime>>

\* end_time goes to the folder of the JVM's own iteration.
JvmEndTime(j) ==
    /\ jvm[j] = "end"
    /\ endTime' = [endTime EXCEPT ![j] = Iter]
    /\ Goes(j, "finish")
    /\ UNCHANGED <<faults, script, req, afl, proxy, input, inputFile, answer, fifos>>

\* target.finish, or an exception: the process ends.
JvmExit(j) ==
    /\ \/ jvm[j] = "finish" /\ Goes(j, "exited")
       \/ jvm[j] \in {"start", "run"} /\ "crash" \in faults /\ Goes(j, "dead")
    /\ req' = [req EXCEPT ![j] = NoInput]
    /\ a2j' = Left(a2j, ProxyWrites \/ \E k \in Jvms \ {j} : Reads(jvm[k]))
    /\ j2a' = Left(j2a, ProxyReads \/ \E k \in Jvms \ {j} : Writes(jvm[k]))
    /\ UNCHANGED <<faults, script, afl, proxy, input, inputFile, answer, endTime>>

------------------------------------------------------------------------------
Script == Spawn \/ GiveUp \/ StartFuzzer \/ FuzzerEnded

Session == ProxyOpenA2J \/ ProxyOpenJ2A \/ AflInit \/ UnlinkInput \/ CreateInput
            \/ WriteInput \/ Ask \/ Answered \/ NobodyAnswers

Jvm(j) == JvmOpenA2J(j) \/ JvmOpenJ2A(j) \/ JvmWait(j) \/ JvmOpenInput(j)
            \/ JvmAnswer(j) \/ JvmEndTime(j) \/ JvmExit(j)

Next == Script \/ Session \/ HandshakeTimeout \/ Timeout \/ \E j \in Jvms : Jvm(j)

\* Every process goes on when it can, and the timers of AFL and `timeout` fire.
Fairness ==
    /\ WF_vars(Script) /\ WF_vars(Session)
    /\ WF_vars(HandshakeTimeout) /\ WF_vars(Timeout)
    /\ \A j \in 1 .. Iterations : WF_vars(j \in Jvms /\ Jvm(j))

Spec == Init /\ [][Next]_vars /\ Fairness

------------------------------------------------------------------------------
SessionOn == afl \in {"init", "idle", "create", "write", "send", "asked"}

AnInput == ((1 .. Iterations) \X (0 .. Inputs - 1)) \cup {NoInput}

TypeOK ==
    /\ faults \in Scenarios /\ script \in {"spawn", "sleep", "fuzz", "done"}
    /\ jvm \in Seq({"start", "open_a2j", "opened", "open_j2a", "wait", "open", "run",
                    "end", "finish", "exited", "dead"})
    /\ req \in Seq(AnInput) /\ Len(req) = Iter
    /\ input \in AnInput /\ inputFile \in {"missing", "empty", "full"}
    /\ afl \in {"init", "idle", "create", "write", "send", "asked", "stopped", "gone"}
    /\ proxy \in {"new", "open_a2j", "opened", "open_j2a", "up", "gone"}
    /\ Len(a2j) <= Iterations /\ Len(j2a) <= Iterations
    /\ endTime \in [1 .. Iterations -> 0 .. Iterations]
    /\ SessionOn => script = "fuzz" /\ proxy /= "gone"

NothingSlow == faults \cap {"slow_start", "slow_run"} = {}

\* Every request is answered in its session, and AFL waits for that answer.
InStep == NothingSlow \/ faults \cap {"slow_run", "torn_open"} = {}

\* AFL is told about the input it has asked for, even if it shares the FIFOs with
\* JVMs of several iterations: the coverage of an input is never that of another
\* one. (The late answer of a run that outlasted its session is taken for the
\* first one of the next session, and so is an answer that was left in j2a when a
\* JVM between its two opens kept the FIFO alive.)
AnswerIsForTheInput ==
    InStep /\ answer /= NoInput => answer.input = input

\* The end_time of an iteration is not written before its session is over, unless
\* AFL takes a late answer for the one it waits for: then it unlinks the input file
\* while the JVM is about to open it, and that JVM stops in the middle of the
\* session. In step the file is complete whenever a JVM opens it. If JVMs are ready
\* and done within the sleep end_time is there before the next session begins, unless
\* the JVM has died, and a session is served by the JVM of its own iteration and by
\* no other.
SessionsAreSeparate ==
    /\ TypeOK
    /\ SessionOn =>
          /\ InStep =>
                /\ endTime[Iter] = 0 /\ jvm[Iter] /= "end"
                /\ (\E j \in Jvms : jvm[j] = "open") => inputFile = "full"
          /\ NothingSlow => \A j \in 1 .. Iter - 1 :
                 /\ endTime[j] /= 0 \/ jvm[j] = "dead"
                 /\ ~Writes(jvm[j])

\* A campaign comes to its end, also if JVMs die before they open the FIFOs, or
\* never answer.
CampaignEnds == <>(script = "done")

\* In the end every JVM has written its end_time and exited, or died. Only after
\* something was slow is one left that waits for a proxy that does not come.
JvmsEnd ==
    <>[](\A j \in Jvms :
            \/ jvm[j] = "exited" /\ endTime[j] /= 0
            \/ jvm[j] = "dead"
            \/ /\ jvm[j] \in {"open_a2j", "open_j2a"}
               /\ ~NothingSlow)
==============================================================================
