----------------------------- MODULE TimedKernel -----------------------------
(***************************************************************************)
(* The timed kernels of the precision benchmark on the persistent pool:    *)
(* ComputeBoundPrecisionBenchmark::run_parallel_for_duration (the warm-up) *)
(* and measure_timed_kernel (the measured repeats).  Each round is one     *)
(* parallel_for_z over as many planes as the pool has threads; the body    *)
(* holds a barrier on which all ranges wait for each other, so the round   *)
(* ends only if the pool runs all of them at the same time.                *)
(*                                                                         *)
(* Time is one event: the deadline of the round passes.  The chunks of the *)
(* kernel that a plane runs until then, and their number, are left out.    *)
(***************************************************************************)
EXTENDS PersistentPool

\* The bodies call a kernel and store its result in vectors that are long enough: no
\* exception leaves them.
ASSUME TimedKernelAssumption == ~ BodyMayThrow

Ranges == 1 .. PoolSize       \* range i of a round is run as task i, the last by the caller
Planes == 0 .. PoolSize - 1   \* the t of the source

VARIABLES
  nz,        \* planes of the current round
  ready,     \* ready: planes that have arrived at the barrier
  start,     \* start
  expired,   \* now() >= end_time
  body,      \* where the execution of each range is
  at,        \* the t it is at
  slot       \* thread_iters: per t, the round that wrote it, 0 if none

kernelVars == <<nz, ready, start, expired, body, at, slot>>
allVars == <<vars, kernelVars>>

KInit ==
  /\ Init
  /\ nz = 0
  /\ ready = 0
  /\ start = FALSE
  /\ expired = FALSE
  /\ body = [i \in Ranges |-> "off"]
  /\ at = [i \in Ranges |-> 0]
  /\ slot = [t \in Planes |-> 0]

-----------------------------------------------------------------------------
\* Fault: the benchmark uses the thread count it asked the pool for.
KernelThreads_Requested == PoolSize

\* num_threads in both functions: what the pool says it has.
KernelThreads == numThreads

NumTasks == NumRanges(nz, numThreads)

\* The ready, start and slot variables of a round are locals: all are new.
StartRound ==
  /\ KernelThreads \in LoopSizes
  /\ LoopOver(KernelThreads)
  /\ nz' = KernelThreads
  /\ ready' = 0
  /\ start' = FALSE
  /\ expired' = FALSE
  /\ body' = [i \in Ranges |-> "off"]
  /\ at' = [i \in Ranges |-> RangeBegin(KernelThreads, numThreads, i - 1)]
  /\ slot' = [t \in Planes |-> 0]

\* Who runs range i: a worker that took its task, or the caller.
RunBy(i) ==
  \/ \E w \in Workers : wpc[w] = "run" /\ task[w].call = calls /\ task[w].index = i
  \/ pc = "body" /\ i = NumTasks

Arrive(i) ==
  /\ RunBy(i)
  /\ body[i] = "off"
  /\ ready' = ready + 1
  /\ body' = [body EXCEPT ![i] = "barrier"]
  /\ UNCHANGED <<vars, nz, start, expired, at, slot>>

\* Fault: t = 0 goes on when one plane has not arrived yet.
Lead_OneShort(i) ==
  /\ body[i] = "barrier"
  /\ at[i] = 0
  /\ ready >= KernelThreads - 1
  /\ start' = TRUE
  /\ body' = [body EXCEPT ![i] = "loop"]
  /\ UNCHANGED <<vars, nz, ready, expired, at, slot>>

\* t = 0 waits for all planes, then sets the clock and opens the barrier.
Lead(i) ==
  /\ body[i] = "barrier"
  /\ at[i] = 0
  /\ ready >= KernelThreads
  /\ start' = TRUE
  /\ body' = [body EXCEPT ![i] = "loop"]
  /\ UNCHANGED <<vars, nz, ready, expired, at, slot>>

Follow(i) ==
  /\ body[i] = "barrier"
  /\ at[i] # 0
  /\ start
  /\ body' = [body EXCEPT ![i] = "loop"]
  /\ UNCHANGED <<vars, nz, ready, start, expired, at, slot>>

\* The deadline has passed: the plane's result is stored, and the range goes to
\* its next plane or returns.
StopLoop(i) ==
  /\ body[i] = "loop"
  /\ expired
  /\ slot' = [slot EXCEPT ![at[i]] = calls]
  /\ IF at[i] + 1 < RangeEnd(nz, numThreads, i - 1)
       THEN /\ at' = [at EXCEPT ![i] = @ + 1]
            /\ body' = [body EXCEPT ![i] = "off"]
       ELSE /\ body' = [body EXCEPT ![i] = "returned"]
            /\ UNCHANGED at
  /\ UNCHANGED <<vars, nz, ready, start, expired>>

Deadline ==
  /\ start
  /\ ~ expired
  /\ expired' = TRUE
  /\ UNCHANGED <<vars, nz, ready, start, body, at, slot>>

RangeStep(i) == Arrive(i) \/ Lead(i) \/ Follow(i) \/ StopLoop(i)

\* The pool's own steps.  A range's task ends when its body has returned.
PoolStep ==
  /\ \/ Construct \/ WaitSpuriousWake \/ Destroy \/ Finished
     \/ CallerContinues /\ (pc = "body" => body[NumTasks] = "returned")
     \/ \E w \in Workers : Worker(w) /\ (wpc[w] = "run" => body[task[w].index] = "returned")
  /\ UNCHANGED kernelVars

KNext == StartRound \/ PoolStep \/ (\E i \in Ranges : RangeStep(i)) \/ Deadline

KSpec == KInit /\ [][KNext]_allVars

\* Every thread is scheduled, and time passes.  As in PersistentPool, a worker
\* that wants wait_mutex_ gets it if it is free again and again.
KFairness ==
  /\ WF_allVars(Construct /\ UNCHANGED kernelVars)
  /\ WF_allVars(CallerContinues /\ (pc = "body" => body[NumTasks] = "returned") /\ UNCHANGED kernelVars)
  /\ \A w \in Workers :
       /\ WF_allVars(Worker(w) /\ (wpc[w] = "run" => body[task[w].index] = "returned")
                     /\ UNCHANGED kernelVars)
       /\ SF_allVars(NotifyWaiter(w) /\ UNCHANGED kernelVars)
  /\ \A i \in Ranges : WF_allVars(RangeStep(i))
  /\ WF_allVars(Deadline)

KFairSpec == KSpec /\ KFairness

-----------------------------------------------------------------------------

\* The barrier: no range runs a chunk, and the clock of the round is not started,
\* before every plane of the round has arrived, each on a thread of its own.
StartTogether ==
  start \/ (\E i \in Ranges : body[i] \in {"loop", "returned"})
    => /\ ready = numThreads
       /\ \A i \in 1 .. numThreads : body[i] # "off"

\* When parallel_for_z returns, every plane's thread_iters was written in this
\* round, so the sums are over complete results.
ResultsComplete ==
  pc = "idle" /\ op = "loop" => \A t \in 0 .. numThreads - 1 : slot[t] = calls

\* A round ends.  The ranges wait for each other inside the pool's tasks, so this
\* needs a thread for every range: the pool must have at least as many threads as
\* the round has ranges, also when some workers could not be created, and the
\* queues of busy workers must be emptied by the others.
RoundsEnd == pc = "count" ~> pc = "idle"

-----------------------------------------------------------------------------
(* The inductive invariant behind the safety properties                      *)

\* The round's variables, and what the pool's caller is doing for them.
RoundInv ==
  /\ nz \in Nat /\ ready \in Nat /\ start \in BOOLEAN /\ expired \in BOOLEAN
  /\ body \in [Ranges -> {"off", "barrier", "loop", "returned"}]
  /\ at \in [Ranges -> Int]
  /\ slot \in [Planes -> Nat]
  /\ op \in {"none", "loop", "destroy"}
  /\ op = "none" => calls = 0
  /\ op = "loop" => calls # 0
  /\ calls = 0 => count = 0 /\ \A i \in Ranges : body[i] = "off"
  /\ calls # 0 => nz = numThreads /\ count = numThreads - 1
                 /\ \A i \in 1 .. numThreads : at[i] = i - 1
  /\ next <= count + 1
  /\ pc \in {"body"} \cup JoinPCs => next = count + 1

\* ready counts the ranges that have arrived, and the barrier opens when all have.
Arrived == {i \in Ranges : body[i] # "off"}
BarrierInv ==
  /\ Arrived \subseteq 1 .. numThreads
  /\ ready = Cardinality(Arrived)
  /\ start => Arrived = 1 .. numThreads
  /\ \A i \in Ranges : body[i] \in {"loop", "returned"} => start

\* A range has its task, a task that has ended its body, and a body its result.
RoundTask(i) == [call |-> calls, index |-> i, byRef |-> TRUE]
ResultInv ==
  /\ calls # 0 => \A i \in 1 .. next - 1 : RoundTask(i) \in issued
  /\ \A t \in ended : t.call = calls => body[t.index] = "returned"
  /\ \A i \in 1 .. numThreads : body[i] = "returned" => slot[i - 1] = calls
  /\ pc \in JoinPCs => body[numThreads] = "returned"
  /\ calls # 0 /\ pc \notin LoopPCs => \A i \in 1 .. numThreads : body[i] = "returned"

KInv == IInv /\ RoundInv /\ BarrierInv /\ ResultInv
=============================================================================
