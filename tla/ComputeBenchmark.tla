--------------------------- MODULE ComputeBenchmark ---------------------------
(***************************************************************************)
(* ComputeBenchmark::run: a sequence of stages on the main thread.  The    *)
(* multi-threaded ones build a team of std::threads that meet at a start   *)
(* flag, run batches until a stop flag and are joined; a FrequencySampler  *)
(* thread runs beside the tests.  Threads are pinned to cores, and where   *)
(* the system passes a thread's affinity mask on to the threads it creates *)
(* (Linux), the pinning of the main thread matters to all of them.         *)
(*                                                                         *)
(* A batch of the kernel is one step that counts as one unit of work; the  *)
(* length of a stage is whatever happens before its stop.                  *)
(***************************************************************************)
EXTENDS Integers, Sequences, SequencesExt, FiniteSetsExt, ServerPerformance

CONSTANTS
  Cores,        \* get_logical_core_count()
  Confs,        \* machines, command lines and environments: see the fields below
  MaxThreads,   \* bound: the largest team
  MaxBatches    \* bound: batches a worker runs in a stage

\* No list names a core twice, and a team has at most MaxThreads workers.
ASSUME ComputeAssumption ==
  /\ Cores \in Nat \ {0} /\ MaxThreads \in Nat /\ MaxBatches \in Nat
  /\ \A c \in Confs :
       /\ c.threads \in 0 .. MaxThreads
       /\ c.selected \in Int
       /\ c.sockets \in Seq(Seq(Nat))
       /\ \A i \in DOMAIN c.sockets : IsInjective(c.sockets[i])
       /\ c.threads = 0 =>
            /\ Cores <= MaxThreads
            /\ \A i \in DOMAIN c.sockets : Len(c.sockets[i]) <= MaxThreads

CoreIds == 0 .. Cores - 1

VARIABLES
  (* conf: fixed for the run.  threads: the constructor's argument; selected:  *)
  (* the selected socket, or -1; perf: what get_performance_cores() lists, in  *)
  (* ascending order; sockets: get_cores_for_socket(0), (1), ...; usable: the  *)
  (* cores the OS lets a thread be pinned to; windows: Windows, or Linux;      *)
  (* server: is the server performance mode on?; high, unreadable, refused:    *)
  (* the settings that are high already, and those that cannot be read or      *)
  (* changed; warm, freq, simd: are these parts switched on?; pinSt,           *)
  (* pinWorkers: is affinity allowed for the single thread and the workers?    *)
  (* The warm-up takes 3 s, of which the single thread leaves some for the     *)
  (* team.                                                                     *)
  conf,
  (* the main thread *)
  stage,     \* the stage run() is in
  pc,        \* where it is within the stage
  mask,      \* its affinity mask
  best,      \* best_st_core_
  settings,  \* the settings of the process and of the main thread
  changed,   \* those the ScopedServerPerformance has changed
  clock,     \* between the two now() of a measurement
  total,     \* total_flops of the current test
  (* the team of the current stage *)
  spawned,   \* workers created
  ready,     \* ready
  start,     \* start_flag
  stop,      \* stop_flag
  wpc,       \* where each worker is
  wmask,     \* its affinity mask
  local,     \* local_flops
  slot,      \* thread_flops
  (* the frequency sampler *)
  running,   \* running_
  spc,       \* where its thread is
  (* history *)
  executed   \* batches that have ended in the current team stage

team    == <<spawned, ready, start, stop, wpc, wmask, local, slot, executed>>
sampler == <<running, spc>>
main    == <<stage, pc, mask, best, settings, changed, clock, total>>
vars    == <<conf, main, team, sampler>>

-----------------------------------------------------------------------------
(* Which cores: the constructor and the core lists                           *)

CoresForSocket(s) == IF s < Len(conf.sockets) THEN conf.sockets[s + 1] ELSE << >>

\* The numbers in S, the lowest first.
Ascending(S) ==
  CHOOSE q \in [1 .. Cardinality(S) -> S] : \A i, j \in DOMAIN q : i < j => q[i] < q[j]

\* The main thread's mask when run() is called: main has restricted the process
\* (Windows) or itself (Linux) to the selected socket.
InitialMask ==
  LET socket == ToSet(CoresForSocket(conf.selected)) \cap conf.usable
  IN  IF conf.selected >= 0 /\ socket # {} THEN socket ELSE conf.usable

\* A new thread has the mask of the process on Windows, and of the thread that
\* creates it on Linux.
NewThreadMask == IF conf.windows THEN InitialMask ELSE mask

\* P-cores first, then the others; nothing on a system that is not hybrid.
PreferredOrder ==
  IF conf.perf = {} \/ Cardinality(conf.perf) >= Cores THEN << >>
  ELSE Ascending(CoreIds \cap conf.perf) \o Ascending(CoreIds \ conf.perf)

\* socket_cores_
CoreList == IF conf.selected >= 0 THEN CoresForSocket(conf.selected) ELSE PreferredOrder

\* num_threads_
NumThreads ==
  LET list == CoresForSocket(conf.selected)
      n    == conf.threads
  IN  IF conf.selected >= 0 /\ list # << >>
        THEN IF n = 0 \/ n > Len(list) THEN Len(list) ELSE n
        ELSE IF n = 0 THEN Cores ELSE n

Team == 0 .. NumThreads - 1

\* Fault: a core id is taken for the number of a physical core with two threads.
CoreFor_Physical(t) ==
  IF CoreList = << >> THEN t \div 2
  ELSE CoreList[(t \div 2) + 1]

\* The core that worker t is to be pinned to.
CoreFor(t) ==
  IF CoreList = << >> THEN t
  ELSE CoreList[(t % Min({Len(CoreList), NumThreads})) + 1]

\* Where the single-threaded test may run, in order of preference.
StCandidates ==
  LET hybrid == conf.perf # {} /\ Cardinality(conf.perf) < Cores
      perf   == conf.perf \cap CoreIds
      list   == IF conf.selected >= 0 /\ CoreList # << >> THEN CoreList
                ELSE IF conf.selected < 0 /\ Len(conf.sockets) > 1 THEN CoresForSocket(0)
                ELSE << >>
      socket == ToSet(list) \cap CoreIds
      found  == IF list # << >>
                  THEN IF hybrid THEN Ascending(socket \cap perf) \o Ascending(socket \ perf)
                       ELSE Ascending(socket)
                  ELSE Ascending(perf)
  IN  IF found = << >> THEN <<0>> ELSE found

CanPin(c) == c < Cores /\ c \in conf.usable

\* The main thread's mask after pin_st_thread: the calibrated core, or the first
\* candidate that can be had, or what it was.
PinnedSt ==
  LET can == SelectSeq(StCandidates, CanPin)
  IN  IF ~ conf.pinSt THEN mask
      ELSE IF best >= 0 /\ CanPin(best) THEN {best}
      ELSE IF can # << >> THEN {can[1]}
      ELSE mask

-----------------------------------------------------------------------------
(* The stages, in the order of run()                                         *)

Stages == <<"begin", "st_warmup", "sampler_start", "st_test", "mt_warmup", "mt_test",
            "st_simd", "mt_simd", "sampler_stop", "done">>

\* On Windows the sampler and the SIMD tests are left out on a system with more than 64
\* logical cores or more than one socket.
TooLarge == conf.windows /\ (Cores > 64 \/ Len(conf.sockets) > 1)

Skipped(s) ==
  \/ s \in {"st_warmup", "mt_warmup"} /\ ~ conf.warm
  \/ s \in {"sampler_start", "sampler_stop"} /\ (~ conf.freq \/ TooLarge)
  \/ s \in {"st_simd", "mt_simd"} /\ (~ conf.simd \/ TooLarge)

\* A test with one thread runs on the main thread; the warm-up always has a team.
OnMain(s) == s \in {"st_test", "st_simd"} \/ (s \in {"mt_test", "mt_simd"} /\ NumThreads = 1)
OnTeam(s) == s \in {"mt_warmup", "mt_test", "mt_simd"} /\ ~ OnMain(s)

NextStage ==
  LET here  == CHOOSE i \in DOMAIN Stages : Stages[i] = stage
      later == {i \in DOMAIN Stages : i > here /\ ~ Skipped(Stages[i])}
  IN  Stages[Min(later)]

FirstPC(s) == IF OnTeam(s) THEN "spawn" ELSE "enter"

GotoNextStage == stage' = NextStage /\ pc' = FirstPC(NextStage)

\* The settings before run().
Before == [s \in Settings |-> IF s \in conf.high THEN "high" ELSE "before"]

Init ==
  /\ conf \in Confs
  /\ stage = "begin"
  /\ pc = "enter"
  /\ mask = InitialMask
  /\ best = -1
  /\ settings = Before
  /\ changed = {}
  /\ clock = FALSE
  /\ total = 0
  /\ spawned = 0
  /\ ready = 0
  /\ start = FALSE
  /\ stop = FALSE
  /\ wpc = [t \in 0 .. MaxThreads - 1 |-> "none"]
  /\ wmask = [t \in 0 .. MaxThreads - 1 |-> {}]
  /\ local = [t \in 0 .. MaxThreads - 1 |-> 0]
  /\ slot = [t \in 0 .. MaxThreads - 1 |-> 0]
  /\ running = FALSE
  /\ spc = "none"
  /\ executed = 0

\* The server guard, and the calibration that goes through all candidates and
\* keeps the fastest: any of those it could be pinned to.
Begin ==
  /\ stage = "begin"
  /\ changed' = IF conf.server THEN Changed(settings, conf.unreadable, conf.refused) ELSE {}
  /\ LET found  == {c \in ToSet(StCandidates) : CanPin(c)}
         raised == Acquire(settings, changed')
     IN  IF conf.server /\ conf.pinSt /\ found # {}
           THEN /\ \E c \in found : best' = c /\ mask' = {c}
                /\ \E accepted \in SUBSET ThreadSettings : settings' = Configure(raised, accepted)
           ELSE settings' = raised /\ UNCHANGED <<best, mask>>
  /\ GotoNextStage
  /\ UNCHANGED <<conf, clock, total, team, sampler>>

StWarmup ==
  /\ stage = "st_warmup"
  /\ mask' = PinnedSt
  /\ GotoNextStage
  /\ UNCHANGED <<conf, best, settings, changed, clock, total, team, sampler>>

\* The scalar test pins the main thread, the SIMD test leaves it where it is.
BeginOnMain ==
  /\ OnMain(stage)
  /\ pc = "enter"
  /\ mask' = IF stage = "st_test" THEN PinnedSt ELSE mask
  /\ clock' = TRUE
  /\ pc' = "measure"
  /\ UNCHANGED <<conf, stage, best, settings, changed, total, team, sampler>>

EndOnMain ==
  /\ OnMain(stage)
  /\ pc = "measure"
  /\ clock' = FALSE
  /\ GotoNextStage
  /\ UNCHANGED <<conf, mask, best, settings, changed, total, team, sampler>>

-----------------------------------------------------------------------------
(* A team: perform_warmup, and the tests with more than one thread           *)

\* The locals are new when the first worker is created.
SpawnWorker ==
  /\ OnTeam(stage)
  /\ pc = "spawn"
  /\ LET first == spawned = 0 IN
     /\ wpc' = [t \in DOMAIN wpc |->
                  IF t = spawned THEN "new" ELSE IF first THEN "none" ELSE wpc[t]]
     /\ wmask' = [wmask EXCEPT ![spawned] = NewThreadMask]
     /\ ready' = IF first THEN 0 ELSE ready
     /\ start' = IF first THEN FALSE ELSE start
     /\ stop' = IF first THEN FALSE ELSE stop
     /\ slot' = [slot EXCEPT ![spawned] = 0]
     /\ local' = [local EXCEPT ![spawned] = 0]
     /\ executed' = IF first THEN 0 ELSE executed
     /\ total' = IF first THEN 0 ELSE total
  /\ spawned' = spawned + 1
  /\ pc' = "pin"
  /\ UNCHANGED <<conf, stage, mask, best, settings, changed, clock, sampler>>

\* std::thread throws.  If workers are running already, the destructor of the
\* vector that holds them ends the process; if not, the exception leaves run().
SpawnFails ==
  /\ OnTeam(stage)
  /\ pc = "spawn"
  /\ IF spawned = 0 THEN stage' = "unwind" ELSE stage' = "terminated"
  /\ pc' = "enter"
  /\ UNCHANGED <<conf, mask, best, settings, changed, clock, total, team, sampler>>

PinWorker ==
  /\ OnTeam(stage)
  /\ pc = "pin"
  /\ LET t == spawned - 1 IN
     wmask' = IF conf.pinWorkers /\ CanPin(CoreFor(t))
                THEN [wmask EXCEPT ![t] = {CoreFor(t)}] ELSE wmask
  /\ pc' = IF spawned = NumThreads THEN "await" ELSE "spawn"
  /\ UNCHANGED <<conf, stage, mask, best, settings, changed, clock, total, sampler,
                 spawned, ready, start, stop, wpc, local, slot, executed>>

\* Fault: the main thread does not wait for the last worker.
AwaitReady_OneShort ==
  /\ OnTeam(stage)
  /\ pc = "await"
  /\ ready + 1 >= NumThreads
  /\ clock' = (stage # "mt_warmup")
  /\ pc' = "open"
  /\ UNCHANGED <<conf, stage, mask, best, settings, changed, total, team, sampler>>

AwaitReady ==
  /\ OnTeam(stage)
  /\ pc = "await"
  /\ ready >= NumThreads
  /\ clock' = (stage # "mt_warmup")
  /\ pc' = "open"
  /\ UNCHANGED <<conf, stage, mask, best, settings, changed, total, team, sampler>>

OpenStart ==
  /\ pc = "open"
  /\ start' = TRUE
  /\ pc' = "sleep"
  /\ UNCHANGED <<conf, stage, mask, best, settings, changed, clock, total, sampler,
                 spawned, ready, stop, wpc, wmask, local, slot, executed>>

CloseStop ==
  /\ pc = "sleep"
  /\ stop' = TRUE
  /\ pc' = "join"
  /\ UNCHANGED <<conf, stage, mask, best, settings, changed, clock, total, sampler,
                 spawned, ready, start, wpc, wmask, local, slot, executed>>

\* Fault: the sum is taken when the first worker has been joined.
JoinTeam_First ==
  /\ pc = "join"
  /\ wpc[0] = "exited"
  /\ clock' = FALSE
  /\ pc' = "sum"
  /\ UNCHANGED <<conf, stage, mask, best, settings, changed, total, team, sampler>>

JoinTeam ==
  /\ pc = "join"
  /\ \A t \in Team : wpc[t] = "exited"
  /\ clock' = FALSE
  /\ pc' = "sum"
  /\ UNCHANGED <<conf, stage, mask, best, settings, changed, total, team, sampler>>

\* The results of a test are summed; the team is gone.
SumTeam ==
  /\ pc = "sum"
  /\ total' = IF stage = "mt_warmup" THEN 0 ELSE MapThenSumSet(LAMBDA t : slot[t], Team)
  /\ spawned' = 0
  /\ GotoNextStage
  /\ UNCHANGED <<conf, mask, best, settings, changed, clock, sampler,
                 ready, start, stop, wpc, wmask, local, slot, executed>>

ArriveWorker(t) ==
  /\ wpc[t] = "new"
  /\ ready' = ready + 1
  /\ wpc' = [wpc EXCEPT ![t] = "spin"]
  /\ UNCHANGED <<conf, main, sampler, spawned, start, stop, wmask, local, slot, executed>>

SeesStart(t) ==
  /\ wpc[t] = "spin"
  /\ start
  /\ wpc' = [wpc EXCEPT ![t] = "loop"]
  /\ UNCHANGED <<conf, main, sampler, spawned, ready, start, stop, wmask, local, slot, executed>>

BeginBatch(t) ==
  /\ wpc[t] = "loop"
  /\ ~ stop
  /\ local[t] < MaxBatches
  /\ wpc' = [wpc EXCEPT ![t] = "batch"]
  /\ UNCHANGED <<conf, main, sampler, spawned, ready, start, stop, wmask, local, slot, executed>>

\* A batch begun before the stop runs to its end and counts.
EndBatch(t) ==
  /\ wpc[t] = "batch"
  /\ local' = [local EXCEPT ![t] = @ + 1]
  /\ executed' = executed + 1
  /\ wpc' = [wpc EXCEPT ![t] = "loop"]
  /\ UNCHANGED <<conf, main, sampler, spawned, ready, start, stop, wmask, slot>>

SeesStop(t) ==
  /\ wpc[t] = "loop"
  /\ stop
  /\ slot' = [slot EXCEPT ![t] = local[t]]
  /\ wpc' = [wpc EXCEPT ![t] = "exited"]
  /\ UNCHANGED <<conf, main, sampler, spawned, ready, start, stop, wmask, local, executed>>

Worker(t) == ArriveWorker(t) \/ SeesStart(t) \/ BeginBatch(t) \/ EndBatch(t) \/ SeesStop(t)

-----------------------------------------------------------------------------
(* The sampler                                                               *)

SamplerStart ==
  /\ stage = "sampler_start"
  /\ running' = TRUE
  /\ spc' = "test"
  /\ GotoNextStage
  /\ UNCHANGED <<conf, mask, best, settings, changed, clock, total, team>>

SamplerStartFails ==
  /\ stage = "sampler_start"
  /\ running' = TRUE
  /\ stage' = "unwind"
  /\ pc' = "enter"
  /\ UNCHANGED <<conf, mask, best, settings, changed, clock, total, team, spc>>

SamplerTestsRunning ==
  /\ spc = "test"
  /\ spc' = IF running THEN "sample" ELSE "exited"
  /\ UNCHANGED <<conf, main, team, running>>

\* One sample, then the sleep.
SamplerSamples ==
  /\ spc = "sample"
  /\ spc' = "test"
  /\ UNCHANGED <<conf, main, team, running>>

\* Fault: the thread is joined before running_ is cleared.
StopBackground_JoinsFirst ==
  /\ stage \in {"sampler_stop", "unwind"}
  /\ pc = "enter"
  /\ running
  /\ pc' = "join_sampler"
  /\ UNCHANGED <<conf, stage, mask, best, settings, changed, clock, total, team, sampler>>

\* stop_background, at the end of the tests or in the sampler's destructor.
StopBackground ==
  /\ stage \in {"sampler_stop", "unwind"}
  /\ pc = "enter"
  /\ running
  /\ running' = FALSE
  /\ pc' = "join_sampler"
  /\ UNCHANGED <<conf, stage, mask, best, settings, changed, clock, total, team, spc>>

JoinSampler ==
  /\ pc = "join_sampler"
  /\ spc # "none" => spc = "exited"
  /\ IF stage = "unwind" THEN pc' = "enter" /\ UNCHANGED stage ELSE GotoNextStage
  /\ UNCHANGED <<conf, mask, best, settings, changed, clock, total, team, sampler>>

-----------------------------------------------------------------------------
\* run() is left, by its return or by an exception: the destructors restore the
\* server's settings.
Leave ==
  /\ pc = "enter"
  /\ stage \in {"done", "unwind"}
  /\ stage = "unwind" => ~ running
  /\ settings' = Release(settings, changed, Before, conf.unreadable)
  /\ pc' = "left"
  /\ UNCHANGED <<conf, stage, mask, best, changed, clock, total, team, sampler>>

Ended == pc = "left" \/ stage = "terminated"

Finished == Ended /\ UNCHANGED vars

MainStep ==
  \/ Begin \/ StWarmup \/ BeginOnMain \/ EndOnMain
  \/ SpawnWorker \/ SpawnFails \/ PinWorker \/ AwaitReady \/ OpenStart \/ CloseStop
  \/ JoinTeam \/ SumTeam
  \/ SamplerStart \/ SamplerStartFails \/ StopBackground \/ JoinSampler
  \/ Leave

\* std::terminate ends every thread.
ThreadStep ==
  /\ stage # "terminated"
  /\ (\E t \in Team : Worker(t)) \/ SamplerTestsRunning \/ SamplerSamples

Next == MainStep \/ ThreadStep \/ Finished

Spec == Init /\ [][Next]_vars

\* Every thread is scheduled, and the sleeps and batches end.
Fairness ==
  /\ WF_vars(MainStep)
  /\ WF_vars(stage # "terminated" /\ (SamplerTestsRunning \/ SamplerSamples))
  /\ \A t \in 0 .. MaxThreads - 1 : WF_vars(stage # "terminated" /\ t \in Team /\ Worker(t))

FairSpec == Spec /\ Fairness

-----------------------------------------------------------------------------
(* Properties                                                                *)

Working(t) == wpc[t] \in {"loop", "batch"}
Alive(t)   == wpc[t] \notin {"none", "exited"}

\* No worker of a team starts its batches before all of them exist and have
\* arrived: a straggler would be measured for less than the test's time.
StartTogether ==
  \A t \in Team : Working(t) => \A u \in Team : wpc[u] \notin {"none", "new"}

\* Nothing else is measured: while the main thread measures, no worker is alive,
\* and a worker of a test runs batches only between the two readings of the clock
\* that its result is divided by.
MeasuredAlone ==
  /\ pc = "measure" => \A t \in Team : ~ Alive(t)
  /\ \A t \in Team : Working(t) => OnTeam(stage) /\ clock = (stage # "mt_warmup")

\* The total of a test counts every batch that any of its workers ran, the ones
\* that ended after the stop flag too.
TotalIsAllWork ==
  NumThreads > 1 /\ stage \in {"st_simd", "sampler_stop", "done"} => total = executed

\* With enough cores, all usable, every worker runs its batches on a core that no other
\* worker has, wherever the main thread was pinned when it created them.
EnoughCores ==
  /\ conf.pinWorkers
  /\ conf.usable = CoreIds
  /\ ToSet(CoreList) \subseteq CoreIds
  /\ IF CoreList = << >> THEN NumThreads <= Cores ELSE NumThreads <= Len(CoreList)
OwnCores ==
  EnoughCores =>
    \A t, u \in Team : Working(t) /\ Working(u) /\ t # u => wmask[t] \cap wmask[u] = {}

\* When run() is left, by its return or by an exception, its threads are gone, and
\* every setting that the guard has raised, or should have, is what it was: only a
\* setting whose value could not be read, or a thread's setting that the guard could
\* not raise but the calibration could, may differ.
LeftClean ==
  pc = "left" =>
    /\ spc \in {"none", "exited"}
    /\ \A t \in Team : ~ Alive(t)
    /\ \A s \in Settings :
         s \in conf.unreadable \/ s \in conf.refused \cap ThreadSettings \/ settings[s] = Before[s]

\* "Everything is restored by the guard before run() returns" (compute_benchmark.hpp).
EverythingRestored == pc = "left" => \A s \in Settings : settings[s] = Before[s]

\* The run ends: no worker waits for a start flag that nobody sets, and no join
\* waits for a thread that does not stop.
RunEnds == <>Ended
=============================================================================
