------------------------------ MODULE MainFlow ------------------------------
(***************************************************************************)
(* main of main.cpp, from the command line to the exit code: checks, warm-  *)
(* up, tests, the question whether to submit, and the submissions.          *)
(*                                                                         *)
(* A test is one step that ends with a result or leaves main; what goes on  *)
(* inside is the subject of ComputeBenchmark, TimedKernel and               *)
(* PersistentPool.  The user's answers are choices; end of input, an empty  *)
(* line and anything but a yes are a no.  Left out: everything printed,     *)
(* the nickname, the process mask (see ComputeBenchmark), and the tests for *)
(* empty result tables, which always have a row per level or data type.     *)
(***************************************************************************)
EXTENDS CommandLine, Submission, Sequences

CONSTANTS
    SocketCount,     \* get_socket_count()
    MemoryReadings   \* what the two readings of the free memory may return

ASSUME MainFlowAssumption ==
    /\ SocketCount \in Nat \ {0}
    /\ MemoryReadings \subseteq 0 .. SizeMax
    /\ Requests = {1, 2}

VARIABLES
    warm,      \* the CPU has been warmed up
    scalar,    \* KernelDispatcher::force_scalar
    free,      \* the free memory that the memory check has read
    results,   \* the tests that have ended, with the settings they ran with
    payloads,  \* the requests to send, in order
    reported   \* what the user was told about each request

flowVars == <<warm, scalar, free, results, payloads, reported>>
httpVars == <<windows, phase, current, held, received, inbox, answer, copies>>
vars     == <<cliVars, flowVars, httpVars>>

Init ==
    /\ CliInit
    /\ SubmissionInit
    /\ warm = FALSE /\ scalar = FALSE /\ free = 0
    /\ results = <<>> /\ payloads = <<>>
    /\ reported = [r \in Requests |-> "nothing"]

\* main is at p; its arguments are not read any more, and the network rests.
At(p) ==
    /\ pc = p
    /\ UNCHANGED <<argc, onlyNeutral, httpVars>>

GoTo(p) == pc' = p /\ UNCHANGED exit

LeaveMain(code) == Leave(code) /\ UNCHANGED <<config, flowVars>>

NoSuchSocket == config.selected_socket >= SocketCount

Begin ==
    /\ At("start")
    /\ GoTo(IF config.run_full_test THEN "confirm" ELSE "set_up")
    /\ UNCHANGED <<config, flowVars>>

-----------------------------------------------------------------------------
\* The test named, as it was run: time, repeats, size and precision are those it got,
\* whether or not it looks at them.
Measured(test, threads) ==
    [test |-> test, threads |-> threads, min_time |-> config.min_time,
     repeats |-> config.repeats, size |-> config.size,
     precision |-> config.precision, warm |-> warm, scalar |-> scalar,
     socket |-> config.selected_socket]

TestEnds(test, threads) == results' = Append(results, Measured(test, threads))

Testing == {"full_compute", "full_precision", "test"}

\* An exception of a test is caught in main; a thread that std::thread's
\* destructor finds joinable, or a signal, ends the process.
TestFails ==
    /\ pc \in Testing
    /\ UNCHANGED <<argc, onlyNeutral, httpVars>>
    /\ \E code \in {"OutOfMemory", "UnknownError", "Aborted"} : LeaveMain(code)

-----------------------------------------------------------------------------
\* The full test: one question, then everything.
FullConfirm ==
    /\ At("confirm")
    /\ \/ GoTo("full_set_up") /\ UNCHANGED <<config, flowVars>>
       \/ LeaveMain("Success")

\* Socket check, automatic size, and a warm-up that no option prevents.
FullSetUp ==
    /\ At("full_set_up")
    /\ \/ NoSuchSocket /\ LeaveMain("InvalidArguments")
       \/ /\ ~ NoSuchSocket
          /\ \E m \in MemoryReadings \ {0} :
                config' = [config EXCEPT !.size = AutoSize("float", m)]
          /\ warm' = TRUE
          /\ GoTo("full_compute")
          /\ UNCHANGED <<scalar, free, results, payloads, reported>>

FullCompute ==
    /\ At("full_compute")
    /\ TestEnds("compute", 0)
    /\ GoTo("full_precision")
    /\ UNCHANGED <<config, warm, scalar, free, payloads, reported>>

FullPrecision ==
    /\ At("full_precision")
    /\ TestEnds("precision_all", config.threads)
    /\ GoTo("consent")
    /\ UNCHANGED <<config, warm, scalar, free, payloads, reported>>

-----------------------------------------------------------------------------
\* One test: automatic size, socket check, the forced kernels.
SetUp ==
    /\ At("set_up")
    /\ \E m \in MemoryReadings \ {0} :
          config' = IF config.auto_size /\ ~ config.explicit_size_set
                    THEN [config EXCEPT !.size = AutoSize(config.precision, m)]
                    ELSE config
    /\ \/ /\ NoSuchSocket
          /\ Leave("InvalidArguments")
          /\ UNCHANGED flowVars
       \/ /\ ~ NoSuchSocket
          /\ scalar' = config.force_scalar
          /\ GoTo("warm_up")
          /\ UNCHANGED <<warm, free, results, payloads, reported>>

WarmUp ==
    /\ At("warm_up")
    /\ warm' = config.enable_warmup
    /\ GoTo("memory")
    /\ UNCHANGED <<config, scalar, free, results, payloads, reported>>

CheckedPrecision ==
    IF config.run_all_precisions THEN "fp64" ELSE config.precision

\* The second reading of the free memory.  An overflow is an exception.
CheckMemory ==
    /\ At("memory")
    /\ UNCHANGED config
    /\ IF RequiredOverflows(config.size, CheckedPrecision)
       THEN Leave("UnknownError") /\ UNCHANGED flowVars
       ELSE \E m \in MemoryReadings :
              /\ free' = m
              /\ IF Sufficient(config.size, CheckedPrecision, m)
                 THEN GoTo("test") ELSE Leave("OutOfMemory")
              /\ UNCHANGED <<warm, scalar, results, payloads, reported>>

\* Compute and cache come first, whatever the precision.
SelectedTest ==
    IF config.mode \in {"compute", "cache"} THEN config.mode
    ELSE IF config.run_all_precisions THEN "precision_all"
    ELSE "precision_single"

Offered == config.output = "text" /\ is_submission_eligible(config)

RunTest ==
    /\ At("test")
    /\ TestEnds(SelectedTest, config.threads)
    /\ IF Offered THEN GoTo("consent") ELSE Leave("Success")
    /\ UNCHANGED <<config, warm, scalar, free, payloads, reported>>

-----------------------------------------------------------------------------
\* The parts of the payloads that say what was measured.
Payload(mode, i) ==
    [mode |-> mode, socket |-> config.selected_socket, result |-> i]

ComputePayload(i)      == Payload("compute", i)
PrecisionAllPayload(i) == Payload("precision_all", i)
ModePayload(i)         == Payload(config.mode, i)

PayloadFor(i) ==
    CASE results[i].test = "compute"       -> ComputePayload(i)
      [] results[i].test = "precision_all" -> PrecisionAllPayload(i)
      [] OTHER                             -> ModePayload(i)

Consent ==
    /\ At("consent")
    /\ \/ /\ payloads' = [i \in DOMAIN results |-> PayloadFor(i)]
          /\ GoTo("submit")
          /\ UNCHANGED <<config, warm, scalar, free, results, reported>>
       \/ LeaveMain("Success")

\* The requests are sent one after the other, each once, whatever became of
\* the one before.
SubmitNext ==
    /\ pc = "submit"
    /\ current < Len(payloads)
    /\ Post(current + 1)
    /\ UNCHANGED <<cliVars, flowVars>>

\* A fault: a request that failed is sent again.
SubmitReturns_Retries ==
    /\ pc = "submit"
    /\ phase \in {"ok", "failed"}
    /\ IF phase = "ok"
       THEN /\ reported' = [reported EXCEPT ![current] = phase]
            /\ phase' = "idle"
            /\ UNCHANGED answer
       ELSE phase' = "resolve" /\ answer' = "nothing" /\ UNCHANGED reported
    /\ UNCHANGED <<cliVars, warm, scalar, free, results, payloads, windows,
                   current, held, received, inbox, copies>>

SubmitReturns ==
    /\ pc = "submit"
    /\ phase \in {"ok", "failed"}
    /\ reported' = [reported EXCEPT ![current] = phase]
    /\ phase' = "idle"
    /\ UNCHANGED <<cliVars, warm, scalar, free, results, payloads, windows,
                   current, held, received, serverVars>>

\* The results of the submissions do not change the exit code.
SubmitEnds ==
    /\ At("submit")
    /\ \/ /\ phase = "idle" /\ current = Len(payloads)
          /\ LeaveMain("Success")
       \/ phase = "threw" /\ LeaveMain("UnknownError")
       \/ phase = "killed" /\ LeaveMain("Killed")

-----------------------------------------------------------------------------
Parse == ParseArgs /\ UNCHANGED <<flowVars, httpVars>>

HttpPost == pc = "submit" /\ PostStep /\ UNCHANGED <<cliVars, flowVars>>

ServerStep == Server /\ UNCHANGED <<cliVars, flowVars>>

Main ==
    \/ Parse
    \/ Begin
    \/ FullConfirm \/ FullSetUp \/ FullCompute \/ FullPrecision
    \/ SetUp \/ WarmUp \/ CheckMemory \/ RunTest \/ TestFails
    \/ Consent \/ SubmitNext \/ HttpPost \/ SubmitReturns \/ SubmitEnds

Exited == pc = "exited" /\ UNCHANGED vars

Next == Main \/ ServerStep \/ Exited

Spec == Init /\ [][Next]_vars

\* The user answers, tests end (RunEnds of ComputeBenchmark), and recv returns
\* after 10 seconds of silence at the latest.  The server owes nothing, but it
\* does not drip bytes for ever.
FairSpec == Spec /\ WF_vars(Main)

-----------------------------------------------------------------------------
StandardSizes ==
    {DefaultSize} \cup
    {AutoSize(p, m) : p \in PrecisionArgs \cup {"float", "fp64"},
                      m \in MemoryReadings \ {0}}

\* Whatever combination of options leads to a submission, what is sent was
\* measured with the standard threads, time, repeats, kernels and size, on a
\* CPU that was warm, and it names the socket it was measured on.  The compute
\* and cache tests and the test of all precisions are sent under their own
\* names.  Anything else that is sent is the compute-bound test of FP32: it
\* goes under the name of the mode that was asked for, mem, stencil or
\* matmul3d, although that mode's own test, as README.md:121-134 describes it,
\* is not run (main.cpp:848-869).  (cli.hpp:255, README.md:175; that a run with
\* options that the full test ignores submits too is another question.)
SubmittedIsStandard ==
    \A i \in DOMAIN payloads :
        LET p == payloads[i]
            r == results[p.result]
        IN  /\ r.threads = 0 /\ r.min_time = 3 /\ r.repeats = 5
            /\ ~ r.scalar /\ r.warm
            /\ r.size \in StandardSizes
            /\ p.socket = r.socket
            /\ IF r.test = "precision_single"
               THEN p.mode \in {"mem", "stencil", "matmul3d"} /\ r.precision = "float"
               ELSE p.mode = r.test
            /\ \A j \in 1 .. i - 1 : payloads[j].mode # p.mode

\* A test other than the full one runs only with a size that suits its mode
\* and whose arrays, counted exactly, fit into the memory that was free, if
\* that could be read (main.cpp:616, cli.hpp:74-88): no product has wrapped.
AcceptedSizeFits ==
    pc = "test" =>
        LET s == config.size
        IN  /\ free > 0 =>
                 NumArrays * Volume(s) * HalfBytes(CheckedPrecision) <= 2 * free
            /\ Volume(s) > 0
            /\ config.mode = "stencil" => \A d \in 1 .. 3 : s[d] >= 3
            /\ config.mode = "matmul3d" => s[1] = s[2]

\* However http_post returns, also by an exception, it has released the
\* socket, the addresses and Winsock.
NothingHeld == phase \in {"idle", "ok", "failed", "threw"} => held = {}

\* Submissions are at most once: nothing is stored twice, and what is reported
\* as submitted has been stored.
Attempted == IF phase = "idle" /\ current = 0 THEN {} ELSE 1 .. current

AMO == INSTANCE AtMostOnce WITH attempted <- Attempted

SubmitsAtMostOnce == AMO!Spec

\* The program ends, also when the server never answers (the timeouts of
\* result_submission.cpp:473-478).
ProgramEnds == <>(pc = "exited")

\* Submission is offered only after a clean run, one without --threads, --time,
\* --repeats, --size, --force-scalar and --no-warmup (README.md:174-175).
OfferedOnlyAfterCleanRun == pc = "consent" => is_submission_eligible(config)
=============================================================================
