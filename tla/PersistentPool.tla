---------------------------- MODULE PersistentPool ----------------------------
(***************************************************************************)
(* PersistentThreadPool: one work queue per worker, work stealing, a count *)
(* of pending tasks that wait_all sleeps on, and a spin or a sleep mode    *)
(* for idle workers.  One thread, the caller, constructs the pool, calls   *)
(* it and destroys it; the benchmarks use a pool that way.                 *)
(*                                                                         *)
(* One action is one atomic access of the code: an atomic load or store,   *)
(* or a critical section of a mutex.  A critical section of wait_mutex_ on *)
(* the caller's side is cut in two (test the predicate, then block), so    *)
(* that a notification can be tried in between.                            *)
(*                                                                         *)
(* Left out: the stats_ counters (nothing reads them), core pinning (see   *)
(* the affinity component) and debug logging.                              *)
(***************************************************************************)
EXTENDS Integers, Sequences, FiniteSets, Functions, ZPartition

CONSTANTS
  RequestedThreads,  \* the constructor's num_threads
  CoreCount,         \* get_core_count(), or core_ids.size() when a list is given
  Ops,               \* the operations the caller uses
  LoopSizes,         \* the Nz it passes to parallel_for_z
  BatchSizes,        \* the sizes of the vectors it passes to submit_batch
  BodyMayThrow,      \* can the caller's own range of a loop end by an exception?
  MaxCalls,          \* bound: number of calls the caller makes
  NextQueueMod       \* next_queue_ is an unsigned: 2^32 in the code

\* num_threads = 0 asks for one worker per core, and for one if that is unknown.
PoolSize ==
  IF RequestedThreads # 0 THEN RequestedThreads
  ELSE IF CoreCount # 0 THEN CoreCount
  ELSE 1

Workers == 0 .. PoolSize - 1

AllOps == {"loop", "submit", "batch", "wait", "spin", "sleep"}

ASSUME PoolAssumption ==
  /\ RequestedThreads \in Nat
  /\ CoreCount \in Nat
  /\ Ops \subseteq AllOps
  /\ LoopSizes \subseteq Nat
  /\ BatchSizes \subseteq Nat
  /\ BodyMayThrow \in BOOLEAN
  /\ MaxCalls \in Nat
  /\ NextQueueMod \in Nat \ {0}

\* A queued std::function.  Closures made by parallel_for_z hold `func' by
\* reference (byRef): they may only run while that call is on the stack.
Task == [call : Nat, index : Nat, byRef : BOOLEAN]

NoTask == [call |-> 0, index |-> 0, byRef |-> FALSE]

VARIABLES
  (* the pool's members *)
  numThreads,   \* num_threads_, lowered when a worker cannot be created
  queues,       \* work_queues_: worker -> sequence of tasks, back = end
  pending,      \* pending_tasks_
  running,      \* running_
  spinWait,     \* spin_wait_
  hasWork,      \* has_work_
  nextQueue,    \* next_queue_
  (* the caller *)
  pc,           \* where the caller is
  op,           \* the operation it is in, or returned from last
  calls,        \* calls made so far: the number of the current call
  count,        \* tasks the current call submits
  next,         \* the next of them to push
  (* the workers *)
  wpc,          \* where each worker is
  task,         \* the local variable `task'
  probe,        \* try_steal_work's loop variable
  (* history *)
  issued,       \* tasks counted into pending so far
  ended         \* tasks whose body has ended, by returning or by throwing

poolVars   == <<numThreads, queues, pending, running, spinWait, hasWork, nextQueue>>
callerVars == <<pc, op, calls, count, next>>
workerVars == <<wpc, task, probe>>
history    == <<issued, ended>>
vars       == <<poolVars, callerVars, workerVars, history>>

CallTask(i) == [call |-> calls, index |-> i, byRef |-> op = "loop"]

Init ==
  /\ numThreads = PoolSize
  /\ queues = [w \in Workers |-> << >>]
  /\ pending = 0
  /\ running = TRUE
  /\ spinWait = TRUE
  /\ hasWork = FALSE
  /\ nextQueue = 0
  /\ pc = "constructing"
  /\ op = "none"
  /\ calls = 0
  /\ count = 0
  /\ next = 1
  /\ wpc = [w \in Workers |-> "unborn"]
  /\ task = [w \in Workers |-> NoTask]
  /\ probe = [w \in Workers |-> 1]
  /\ issued = {}
  /\ ended = {}

-----------------------------------------------------------------------------
(* Construction: the i-th iteration creates worker i or fails with           *)
(* std::system_error.  Workers run as soon as they are created.              *)

Unborn == {w \in Workers : wpc[w] = "unborn"}

CreateWorker ==
  /\ pc = "constructing"
  /\ \E w \in Unborn :
       /\ \A v \in Unborn : w <= v
       /\ wpc' = [wpc EXCEPT ![w] = "top"]
       /\ pc' = IF w = PoolSize - 1 THEN "idle" ELSE pc
  /\ UNCHANGED <<poolVars, op, calls, count, next, task, probe, history>>

\* The thread limit is reached: keep the workers there are, or throw if none.
CreateWorkerFails ==
  /\ pc = "constructing"
  /\ \E w \in Unborn :
       /\ \A v \in Unborn : w <= v
       /\ numThreads' = w
       /\ pc' = IF w = 0 THEN "threw" ELSE "idle"
  /\ UNCHANGED <<queues, pending, running, spinWait, hasWork, nextQueue,
                 op, calls, count, next, workerVars, history>>

-----------------------------------------------------------------------------
(* The caller between calls                                                 *)

CallerMayCall(o) ==
  /\ pc = "idle"
  /\ o \in Ops
  /\ calls < MaxCalls
  /\ op' = o
  /\ calls' = calls + 1

\* parallel_for_z(Nz): nothing to do, one range run in place, or a submit per
\* range but the last.
LoopOver(Nz) ==
  /\ CallerMayCall("loop")
  /\ LET n == NumRanges(Nz, numThreads) IN
     /\ count' = IF n = 0 THEN 0 ELSE n - 1
     /\ pc' = IF n = 0 THEN "idle" ELSE IF n = 1 THEN "body" ELSE "count"
  /\ next' = 1
  /\ UNCHANGED <<poolVars, workerVars, history>>

CallLoop == \E Nz \in LoopSizes : LoopOver(Nz)

CallSubmit ==
  /\ CallerMayCall("submit")
  /\ count' = 1
  /\ next' = 1
  /\ pc' = "count"
  /\ UNCHANGED <<poolVars, workerVars, history>>

\* Fault: the batch is counted as one task.
CallSubmitBatch_CountsOne ==
  /\ CallerMayCall("batch")
  /\ \E n \in BatchSizes \ {0} :
       /\ count' = n
       /\ pending' = pending + 1
       /\ issued' = issued \cup {[call |-> calls + 1, index |-> i, byRef |-> FALSE] : i \in 1 .. n}
  /\ next' = 1
  /\ pc' = "push"
  /\ UNCHANGED <<numThreads, queues, running, spinWait, hasWork, nextQueue, workerVars, ended>>

CallSubmitBatch ==
  /\ CallerMayCall("batch")
  /\ \E n \in BatchSizes \ {0} :
       /\ count' = n
       /\ pending' = pending + n
       /\ issued' = issued \cup {[call |-> calls + 1, index |-> i, byRef |-> FALSE] : i \in 1 .. n}
  /\ next' = 1
  /\ pc' = "push"
  /\ UNCHANGED <<numThreads, queues, running, spinWait, hasWork, nextQueue, workerVars, ended>>

CallWaitAll ==
  /\ CallerMayCall("wait")
  /\ pc' = "wait_lock"
  /\ UNCHANGED <<poolVars, count, next, workerVars, history>>

SetSpinWait ==
  /\ \/ CallerMayCall("spin") /\ spinWait' = TRUE /\ pc' = "idle"
     \/ CallerMayCall("sleep") /\ spinWait' = FALSE /\ pc' = "signal"
  /\ count' = 0
  /\ next' = 1
  /\ UNCHANGED <<numThreads, queues, pending, running, hasWork, nextQueue, workerVars, history>>

-----------------------------------------------------------------------------
(* submit and submit_batch: count first, then push, then signal              *)

\* Fault: the count is taken before the loop and not per submit.
SubmitCount_Lost ==
  /\ pc = "count"
  /\ pending' = IF next = 1 THEN pending + 1 ELSE pending
  /\ issued' = issued \cup {CallTask(next)}
  /\ pc' = "push"
  /\ UNCHANGED <<numThreads, queues, running, spinWait, hasWork, nextQueue,
                 op, calls, count, next, workerVars, ended>>

SubmitCount ==
  /\ pc = "count"
  /\ pending' = pending + 1
  /\ issued' = issued \cup {CallTask(next)}
  /\ pc' = "push"
  /\ UNCHANGED <<numThreads, queues, running, spinWait, hasWork, nextQueue,
                 op, calls, count, next, workerVars, ended>>

SubmitPush ==
  /\ pc = "push"
  /\ queues' = [queues EXCEPT ![nextQueue % numThreads] = Append(@, CallTask(next))]
  /\ nextQueue' = (nextQueue + 1) % NextQueueMod
  /\ next' = next + 1
  /\ pc' = IF op = "batch" /\ next < count THEN "push" ELSE "signal"
  /\ UNCHANGED <<numThreads, pending, running, spinWait, hasWork,
                 op, calls, count, workerVars, history>>

Asleep == {w \in Workers : wpc[w] = "asleep"}

NotifyOne ==
  IF Asleep = {} THEN UNCHANGED wpc
  ELSE \E w \in Asleep : wpc' = [wpc EXCEPT ![w] = "woken"]

NotifyAll == wpc' = [w \in Workers |-> IF w \in Asleep THEN "woken" ELSE wpc[w]]

\* The critical section of wake_mutex_ at the end of submit, submit_batch and
\* set_spin_wait(false).  Workers in spin mode need no signal.
Signal ==
  /\ pc = "signal"
  /\ IF spinWait THEN UNCHANGED <<hasWork, wpc>>
     ELSE /\ hasWork' = TRUE
          /\ IF op \in {"loop", "submit"} THEN NotifyOne ELSE NotifyAll
  /\ pc' = IF op # "loop" THEN "idle"
           ELSE IF next <= count THEN "count" ELSE "body"
  /\ UNCHANGED <<numThreads, queues, pending, running, spinWait, nextQueue,
                 op, calls, count, next, task, probe, history>>

-----------------------------------------------------------------------------
(* The rest of parallel_for_z: the last range on the caller, then wait_all   *)

\* Fault: parallel_for_z does not wait for the ranges it submitted.
LoopBodyReturns_NoWait ==
  /\ pc = "body"
  /\ pc' = "idle"
  /\ UNCHANGED <<poolVars, op, calls, count, next, workerVars, history>>

LoopBodyReturns ==
  /\ pc = "body"
  /\ pc' = IF count = 0 THEN "idle" ELSE "wait_lock"
  /\ UNCHANGED <<poolVars, op, calls, count, next, workerVars, history>>

\* An exception leaves parallel_for_z without wait_all.
LoopBodyThrows ==
  /\ BodyMayThrow
  /\ pc = "body"
  /\ pc' = "idle"
  /\ op' = "threw"
  /\ UNCHANGED <<poolVars, calls, count, next, workerVars, history>>

\* Fault: the last worker notifies without taking wait_mutex_.
CallerHoldsWaitMutex_Ignored == FALSE

\* The caller holds wait_mutex_ while it tests the predicate, until it blocks.
CallerHoldsWaitMutex == pc \in {"wait_test", "wait_block"}

WaitLock ==
  /\ pc = "wait_lock"
  /\ pc' = "wait_test"
  /\ UNCHANGED <<poolVars, op, calls, count, next, workerVars, history>>

\* Fault: the wait ends while one task is still running.
WaitTest_OneLeft ==
  /\ pc = "wait_test"
  /\ pc' = IF pending <= 1 THEN "idle" ELSE "wait_block"
  /\ UNCHANGED <<poolVars, op, calls, count, next, workerVars, history>>

WaitTest ==
  /\ pc = "wait_test"
  /\ pc' = IF pending = 0 THEN "idle" ELSE "wait_block"
  /\ UNCHANGED <<poolVars, op, calls, count, next, workerVars, history>>

WaitBlock ==
  /\ pc = "wait_block"
  /\ pc' = "blocked"
  /\ UNCHANGED <<poolVars, op, calls, count, next, workerVars, history>>

WaitSpuriousWake ==
  /\ pc = "blocked"
  /\ pc' = "wait_lock"
  /\ UNCHANGED <<poolVars, op, calls, count, next, workerVars, history>>

-----------------------------------------------------------------------------
(* Destruction.  Tasks still queued are dropped with the queues.             *)

Destroy ==
  /\ pc = "idle"
  /\ running' = FALSE
  /\ op' = "destroy"
  /\ pc' = "d_signal"
  /\ UNCHANGED <<numThreads, queues, pending, spinWait, hasWork, nextQueue,
                 calls, count, next, workerVars, history>>

DestroySignal ==
  /\ pc = "d_signal"
  /\ hasWork' = TRUE
  /\ pc' = "d_notify"
  /\ UNCHANGED <<numThreads, queues, pending, running, spinWait, nextQueue,
                 op, calls, count, next, workerVars, history>>

DestroyNotify ==
  /\ pc = "d_notify"
  /\ NotifyAll
  /\ pc' = "d_join"
  /\ UNCHANGED <<poolVars, op, calls, count, next, task, probe, history>>

\* All the joins.  The members are destroyed after this step.
DestroyJoin ==
  /\ pc = "d_join"
  /\ \A w \in Workers : wpc[w] \in {"unborn", "exited"}
  /\ pc' = "destroyed"
  /\ UNCHANGED <<poolVars, op, calls, count, next, workerVars, history>>

-----------------------------------------------------------------------------
(* worker_loop                                                               *)

Goto(w, l) == wpc' = [wpc EXCEPT ![w] = l]

TestRunning(w) ==
  /\ wpc[w] = "top"
  /\ Goto(w, IF running THEN "own" ELSE "exited")
  /\ UNCHANGED <<poolVars, callerVars, task, probe, history>>

\* Own queue: the newest task.
PopOwn(w) ==
  /\ wpc[w] = "own"
  /\ queues[w] # << >>
  /\ task' = [task EXCEPT ![w] = queues[w][Len(queues[w])]]
  /\ queues' = [queues EXCEPT ![w] = SubSeq(queues[w], 1, Len(queues[w]) - 1)]
  /\ Goto(w, "run")
  /\ UNCHANGED <<numThreads, pending, running, spinWait, hasWork, nextQueue,
                 callerVars, probe, history>>

OwnQueueEmpty(w) ==
  /\ wpc[w] = "own"
  /\ queues[w] = << >>
  /\ probe' = [probe EXCEPT ![w] = 1]
  /\ Goto(w, "steal")
  /\ UNCHANGED <<poolVars, callerVars, task, history>>

\* The other queues, one a step: the oldest task of the first that has one.
Victim(w) == (w + probe[w]) % numThreads

\* Fault: a thief reads the front without removing it.
Steal_LeavesEntry(w) ==
  /\ wpc[w] = "steal"
  /\ probe[w] < numThreads
  /\ queues[Victim(w)] # << >>
  /\ task' = [task EXCEPT ![w] = Head(queues[Victim(w)])]
  /\ Goto(w, "run")
  /\ UNCHANGED <<poolVars, callerVars, probe, history>>

Steal(w) ==
  /\ wpc[w] = "steal"
  /\ probe[w] < numThreads
  /\ queues[Victim(w)] # << >>
  /\ task' = [task EXCEPT ![w] = Head(queues[Victim(w)])]
  /\ queues' = [queues EXCEPT ![Victim(w)] = Tail(@)]
  /\ Goto(w, "run")
  /\ UNCHANGED <<numThreads, pending, running, spinWait, hasWork, nextQueue,
                 callerVars, probe, history>>

VictimEmpty(w) ==
  /\ wpc[w] = "steal"
  /\ probe[w] < numThreads
  /\ queues[Victim(w)] = << >>
  /\ probe' = [probe EXCEPT ![w] = @ + 1]
  /\ UNCHANGED <<poolVars, callerVars, wpc, task, history>>

StealFails(w) ==
  /\ wpc[w] = "steal"
  /\ probe[w] >= numThreads
  /\ Goto(w, "idle")
  /\ UNCHANGED <<poolVars, callerVars, task, probe, history>>

\* Fault: an exception also skips the bookkeeping after the task.
TaskEnds_SkipsRetire(w) ==
  /\ wpc[w] = "run"
  /\ ended' = ended \cup {task[w]}
  /\ \E l \in {"retire", "top"} : Goto(w, l)
  /\ UNCHANGED <<poolVars, callerVars, task, probe, issued>>

\* task() returns, or throws and the exception is swallowed.
TaskEnds(w) ==
  /\ wpc[w] = "run"
  /\ ended' = ended \cup {task[w]}
  /\ Goto(w, "retire")
  /\ UNCHANGED <<poolVars, callerVars, task, probe, issued>>

Retire(w) ==
  /\ wpc[w] = "retire"
  /\ pending' = pending - 1
  /\ Goto(w, IF pending = 1 THEN "notify" ELSE "top")
  /\ UNCHANGED <<numThreads, queues, running, spinWait, hasWork, nextQueue,
                 callerVars, task, probe, history>>

\* Last pending task: the critical section of wait_mutex_.
NotifyWaiter(w) ==
  /\ wpc[w] = "notify"
  /\ ~ CallerHoldsWaitMutex
  /\ pc' = IF pc = "blocked" THEN "wait_lock" ELSE pc
  /\ Goto(w, "top")
  /\ UNCHANGED <<poolVars, op, calls, count, next, task, probe, history>>

\* No work found: spin, or go to the condition variable.
IdleWorker(w) ==
  /\ wpc[w] = "idle"
  /\ Goto(w, IF spinWait THEN "top" ELSE "doze")
  /\ UNCHANGED <<poolVars, callerVars, task, probe, history>>

WakePredicate == hasWork \/ ~ running

\* wait_for returns at once, or after a notification, with the predicate true.
\* The flag is reset for all workers.
WakeUp(w) ==
  /\ wpc[w] \in {"doze", "woken"}
  /\ WakePredicate
  /\ hasWork' = FALSE
  /\ Goto(w, "top")
  /\ UNCHANGED <<numThreads, queues, pending, running, spinWait, nextQueue,
                 callerVars, task, probe, history>>

FallAsleep(w) ==
  /\ wpc[w] \in {"doze", "woken"}
  /\ ~ WakePredicate
  /\ Goto(w, "asleep")
  /\ UNCHANGED <<poolVars, callerVars, task, probe, history>>

\* Fault: an untimed wait.
SleepTimeout_Never(w) ==
  /\ wpc[w] = "asleep"
  /\ FALSE
  /\ UNCHANGED vars

\* The 100 microseconds are over: wait_for returns whatever the predicate.
SleepTimeout(w) ==
  /\ wpc[w] = "asleep"
  /\ hasWork' = FALSE
  /\ Goto(w, "top")
  /\ UNCHANGED <<numThreads, queues, pending, running, spinWait, nextQueue,
                 callerVars, task, probe, history>>

-----------------------------------------------------------------------------

Construct == CreateWorker \/ CreateWorkerFails

CallerBegins == CallLoop \/ CallSubmit \/ CallSubmitBatch \/ CallWaitAll \/ SetSpinWait

CallerContinues ==
  \/ SubmitCount \/ SubmitPush \/ Signal
  \/ LoopBodyReturns \/ LoopBodyThrows
  \/ WaitLock \/ WaitTest \/ WaitBlock
  \/ DestroySignal \/ DestroyNotify \/ DestroyJoin

Caller == Construct \/ CallerBegins \/ CallerContinues \/ WaitSpuriousWake \/ Destroy

Worker(w) ==
  \/ TestRunning(w) \/ PopOwn(w) \/ OwnQueueEmpty(w)
  \/ Steal(w) \/ VictimEmpty(w) \/ StealFails(w)
  \/ TaskEnds(w) \/ Retire(w) \/ NotifyWaiter(w)
  \/ IdleWorker(w) \/ WakeUp(w) \/ FallAsleep(w) \/ SleepTimeout(w)

\* Nothing is left to do once the pool is gone.
Finished ==
  /\ pc \in {"destroyed", "threw"}
  /\ UNCHANGED vars

Next == Caller \/ (\E w \in Workers : Worker(w)) \/ Finished

Spec == Init /\ [][Next]_vars

\* Every thread is scheduled, bodies end, and a timed wait ends.  Which call the
\* caller makes, and whether it ever makes one, is its own affair.  A worker that
\* wants wait_mutex_ gets it if it is free again and again (strong fairness):
\* otherwise an endless run of spurious wake-ups could keep it out.
Fairness ==
  /\ WF_vars(Construct)
  /\ WF_vars(CallerContinues)
  /\ \A w \in Workers : WF_vars(Worker(w)) /\ SF_vars(NotifyWaiter(w))

FairSpec == Spec /\ Fairness

-----------------------------------------------------------------------------
(* Properties                                                                *)

CallerPCs == {"constructing", "threw", "idle", "count", "push", "signal", "body",
              "wait_lock", "wait_test", "wait_block", "blocked",
              "d_signal", "d_notify", "d_join", "destroyed"}

WorkerPCs == {"unborn", "top", "own", "steal", "run", "retire", "notify",
              "idle", "doze", "woken", "asleep", "exited"}

\* Every member has a value of its type.  For pending_tasks_, a size_t, this says
\* that it never goes below zero; for num_threads_, that queue indices computed
\* modulo it name a queue (partition, submit and steal all divide by it).
TypeOK ==
  /\ numThreads \in 0 .. PoolSize
  /\ pc # "threw" => numThreads > 0
  /\ queues \in [Workers -> Seq(Task)]
  /\ pending \in Nat
  /\ running \in BOOLEAN
  /\ spinWait \in BOOLEAN
  /\ hasWork \in BOOLEAN
  /\ nextQueue \in 0 .. NextQueueMod - 1
  /\ pc \in CallerPCs
  /\ op \in AllOps \cup {"none", "threw", "destroy"}
  /\ calls \in Nat
  /\ count \in Nat
  /\ next \in Nat \ {0}
  /\ wpc \in [Workers -> WorkerPCs]
  /\ task \in [Workers -> Task]
  /\ probe \in [Workers -> Nat \ {0}]
  /\ issued \subseteq Task
  /\ ended \subseteq Task

\* Where a task that pending counts can be: about to be pushed by the caller, in
\* a queue, or in the hands of a worker that has not decremented the count yet.
ToPush ==
  IF pc # "push" THEN {}
  ELSE IF op = "batch" THEN {CallTask(i) : i \in next .. count}
  ELSE {CallTask(next)}
Entries(Q) == UNION {Range(Q[w]) : w \in Workers}
Queued  == Entries(queues)
Holding(w) == wpc[w] \in {"run", "retire"}
Held    == {task[w] : w \in {v \in Workers : Holding(v)}}
Unsettled == ToPush \cup Queued \cup Held

\* pending_tasks_ is exactly the number of tasks that are submitted and not
\* retired: submit counts before it pushes, the worker subtracts after the body,
\* and a task is never in two places.  A miscount would let wait_all return early
\* or sleep for ever.
PendingExact == pending = Cardinality(Unsettled)

\* A worker never runs a task that another worker has, or that has run before:
\* the owner's pop from the back and the thieves' pops from the front never hand
\* out the same entry twice.
RunsAtMostOnce ==
  /\ \A w \in Workers : wpc[w] = "run" => task[w] \notin ended
  /\ \A v, w \in Workers : v # w /\ Holding(v) /\ Holding(w) => task[v] # task[w]

\* wait_all and parallel_for_z return only when every task submitted before has
\* ended, on whichever worker it ended up: "Wait for all submitted work to
\* complete" (persistent_thread_pool.hpp).
Joined == op = "wait" \/ (op = "loop" /\ count > 0)
JoinComplete == pc = "idle" /\ Joined => issued \subseteq ended

\* A closure of parallel_for_z holds the loop's function by reference: as long as
\* one is queued or running, its call is still on the caller's stack.
LoopPCs == {"count", "push", "signal", "body", "wait_lock", "wait_test", "wait_block", "blocked"}
InLoop(t) == t.call = calls /\ op = "loop" /\ pc \in LoopPCs
FrameAlive ==
  /\ \A t \in Queued : t.byRef => InLoop(t)
  /\ \A w \in Workers : wpc[w] = "run" /\ task[w].byRef => InLoop(task[w])

\* A call the caller makes returns, construction ends and the destructor ends:
\* no notification of wait_all is lost, in spin mode, in sleep mode and when the
\* mode is switched while workers sleep.
CallsReturn == pc \notin {"idle", "threw", "destroyed"} ~> pc \in {"idle", "threw", "destroyed"}

\* A submitted task is not forgotten while the pool runs, even if nobody waits:
\* some worker looks at the queues again.
TasksGetRun == (pending > 0) ~> (pending = 0 \/ ~ running)

\* The pool is a fork-join service.  A task is in flight from the moment it is
\* counted until its body has ended.
JoinPCs == {"wait_lock", "wait_test", "wait_block", "blocked"}
JoinPhase ==
  IF pc \in JoinPCs THEN "joining"
  ELSE IF running THEN "open"
  ELSE "closed"
FJ == INSTANCE ForkJoin WITH forked <- issued, inFlight <- issued \ ended, phase <- JoinPhase
FJSpec == FJ!Spec

-----------------------------------------------------------------------------
(* The inductive invariant behind the safety properties                      *)

\* What the caller's program counter says about its operation.
ControlInv ==
  /\ pc = "constructing" => op = "none"
  /\ pc \in {"count", "push"} => next <= count /\ op \in {"loop", "submit", "batch"}
  /\ pc = "count" => op # "batch"
  /\ pc = "signal" => op \in {"loop", "submit", "batch", "sleep"} /\ (op = "loop" => count > 0)
  /\ pc = "body" => op = "loop" /\ (count = 0 => next = 1)
  /\ pc \in JoinPCs => Joined
  /\ running <=> pc \notin {"d_signal", "d_notify", "d_join", "destroyed"}

\* Every task issued so far is of an earlier call, or of this one and pushed, or
\* about to be pushed: the next one is new.
FreshInv ==
  /\ \A t \in issued : t.call <= calls /\ t.index > 0
  /\ \A t \in issued : t.call = calls => t \in ToPush \/ t.index < next
  /\ \A t \in Queued \cup Held : t \in issued /\ (t.call = calls => t.index < next)
  /\ ToPush \subseteq issued
  /\ ended \subseteq issued

\* No task is in two places.
Distinct(Q) ==
  \A v, w \in Workers : \A i \in 1 .. Len(Q[v]), j \in 1 .. Len(Q[w]) :
    Q[v][i] = Q[w][j] => v = w /\ i = j

PlaceInv ==
  /\ Distinct(queues)
  /\ Held \cap Queued = {}
  /\ \A v, w \in Workers : v # w /\ Holding(v) /\ Holding(w) => task[v] # task[w]

\* The places say whether a task has ended, and a task that has not is in one.
EndedInv ==
  /\ \A t \in ToPush \cup Queued : t \notin ended
  /\ \A w \in Workers : wpc[w] = "run" => task[w] \notin ended
  /\ \A w \in Workers : wpc[w] = "retire" => task[w] \in ended
  /\ issued \ ended \subseteq Unsettled

CountInv == IsFiniteSet(Unsettled) /\ PendingExact

IInv == TypeOK /\ ControlInv /\ FreshInv /\ PlaceInv /\ EndedInv /\ CountInv
=============================================================================
