------------------------------ MODULE ThreadPool ------------------------------
(***************************************************************************)
(* ThreadPool: a parallel loop creates one thread per range, and joins     *)
(* them all before it returns.  Without pinning the caller runs the last   *)
(* range itself.  The threads are kept in the member threads_, and hold    *)
(* the loop's function by reference.  PrecisionThreadPool uses this pool   *)
(* where the persistent one is switched off.                               *)
(*                                                                         *)
(* The body of a range just ends, or it is that of the timed kernels: it   *)
(* arrives at a barrier and goes on when as many ranges as the pool has    *)
(* threads have arrived.                                                   *)
(***************************************************************************)
EXTENDS Integers, FiniteSets, ZPartition

CONSTANTS
  RequestedThreads,  \* the constructor's num_threads
  CoreCount,         \* get_core_count()
  ListSizes,         \* core_ids.size(), 0 for the constructor without a list
  LoopSizes,         \* the Nz it is called with
  MaxCalls           \* bound: number of loops

ASSUME ThreadPoolAssumption ==
  /\ RequestedThreads \in Nat
  /\ CoreCount \in Nat
  /\ ListSizes \subseteq Nat
  /\ LoopSizes \subseteq Nat
  /\ MaxCalls \in Nat

\* A range of a loop.
Task == [call : Nat, index : Nat]

VARIABLES
  numThreads,  \* num_threads_
  listed,      \* core_ids_.size()
  affinity,    \* is pinning supported and not switched off?
  barrier,     \* do the bodies wait for each other?
  threads,     \* threads_: the ranges whose threads it holds, not yet joined
  (* the caller *)
  pc,
  calls,       \* loops begun
  count,       \* ranges of the current loop
  spawned,     \* threads created for it
  (* the ranges *)
  arrived,     \* ranges whose body waits at the barrier
  issued,      \* history: ranges whose thread was created, or that the caller has begun
  ended        \* history: ranges whose body has ended

vars == <<numThreads, listed, affinity, barrier, threads, pc, calls, count, spawned, arrived, issued, ended>>

-----------------------------------------------------------------------------
\* num_threads = 0 asks for one thread per listed core, or per core of the machine,
\* or for one; a list also limits a number that was asked for.
Size(list) ==
  LET asked == IF RequestedThreads # 0 THEN RequestedThreads
               ELSE IF list # 0 THEN list
               ELSE IF CoreCount # 0 THEN CoreCount
               ELSE 1
  IN  IF list # 0 /\ asked > list THEN list ELSE asked

Init ==
  /\ listed \in ListSizes
  /\ affinity \in BOOLEAN
  /\ barrier \in BOOLEAN
  /\ numThreads = Size(listed)
  /\ threads = {}
  /\ pc = "idle"
  /\ calls = 0
  /\ count = 0
  /\ spawned = 0
  /\ arrived = {}
  /\ issued = {}
  /\ ended = {}

UseAffinity == listed # 0 /\ affinity

Range(k) == [call |-> calls, index |-> k]

\* Ranges that get a thread of their own.
Threaded == IF UseAffinity THEN count ELSE count - 1

\* No range: nothing to do.  One range: run in place.  The loops with a barrier
\* have a plane per thread.
Call ==
  /\ pc = "idle"
  /\ calls < MaxCalls
  /\ \E Nz \in IF barrier THEN {numThreads} ELSE LoopSizes :
       LET n == NumRanges(Nz, numThreads) IN
       /\ count' = n
       /\ pc' = IF n = 0 THEN "idle" ELSE IF n = 1 THEN "own" ELSE "clear"
  /\ calls' = calls + 1
  /\ spawned' = 0
  /\ UNCHANGED <<numThreads, listed, affinity, barrier, threads, arrived, issued, ended>>

\* threads_.clear() destroys threads of an earlier loop that threw: the process is
\* terminated if there are any.
ClearThreads ==
  /\ pc = "clear"
  /\ pc' = IF threads = {} THEN "spawn" ELSE "terminated"
  /\ UNCHANGED <<numThreads, listed, affinity, barrier, threads, calls, count, spawned,
                 arrived, issued, ended>>

\* Fault: the thread is detached instead of kept.
Spawn_Detached ==
  /\ pc = "spawn"
  /\ spawned < Threaded
  /\ spawned' = spawned + 1
  /\ issued' = issued \cup {Range(spawned + 1)}
  /\ UNCHANGED <<numThreads, listed, affinity, barrier, threads, pc, calls, count, arrived, ended>>

Spawn ==
  /\ pc = "spawn"
  /\ spawned < Threaded
  /\ spawned' = spawned + 1
  /\ threads' = threads \cup {Range(spawned + 1)}
  /\ issued' = issued \cup {Range(spawned + 1)}
  /\ UNCHANGED <<numThreads, listed, affinity, barrier, pc, calls, count, arrived, ended>>

\* The thread limit is reached: the exception leaves parallel_for_z at once.
SpawnFails ==
  /\ pc = "spawn"
  /\ spawned < Threaded
  /\ pc' = "threw"
  /\ UNCHANGED <<numThreads, listed, affinity, barrier, threads, calls, count, spawned,
                 arrived, issued, ended>>

AllSpawned ==
  /\ pc = "spawn"
  /\ spawned = Threaded
  /\ pc' = IF UseAffinity THEN "join" ELSE "own"
  /\ UNCHANGED <<numThreads, listed, affinity, barrier, threads, calls, count, spawned,
                 arrived, issued, ended>>

\* The caller begins its own range, the last one, and runs it in its body.
OwnRange ==
  /\ pc = "own"
  /\ issued' = issued \cup {Range(count)}
  /\ pc' = "body"
  /\ UNCHANGED <<numThreads, listed, affinity, barrier, threads, calls, count, spawned, arrived, ended>>

OwnRangeEnds ==
  /\ pc = "body"
  /\ Range(count) \in ended
  /\ pc' = "join"
  /\ UNCHANGED <<numThreads, listed, affinity, barrier, threads, calls, count, spawned,
                 arrived, issued, ended>>

\* Fault: the loop returns when one of the threads has ended.
JoinThreads_Any ==
  /\ pc = "join"
  /\ threads = {} \/ threads \cap ended # {}
  /\ threads' = {}
  /\ pc' = "idle"
  /\ UNCHANGED <<numThreads, listed, affinity, barrier, calls, count, spawned, arrived, issued, ended>>

JoinThreads ==
  /\ pc = "join"
  /\ threads \subseteq ended
  /\ threads' = {}
  /\ pc' = "idle"
  /\ UNCHANGED <<numThreads, listed, affinity, barrier, calls, count, spawned, arrived, issued, ended>>

\* The exception of a failed loop is handled outside the benchmark that owns the
\* pool, so the pool is destroyed next.
CatchException ==
  /\ pc = "threw"
  /\ pc' = "destroying"
  /\ UNCHANGED <<numThreads, listed, affinity, barrier, threads, calls, count, spawned,
                 arrived, issued, ended>>

Destroy ==
  /\ pc = "idle"
  /\ pc' = "destroying"
  /\ UNCHANGED <<numThreads, listed, affinity, barrier, threads, calls, count, spawned,
                 arrived, issued, ended>>

DestroyJoin ==
  /\ pc = "destroying"
  /\ threads \subseteq ended
  /\ threads' = {}
  /\ pc' = "destroyed"
  /\ UNCHANGED <<numThreads, listed, affinity, barrier, calls, count, spawned, arrived, issued, ended>>

-----------------------------------------------------------------------------
(* The ranges                                                                *)

Arrive(t) ==
  /\ t \in issued \ (arrived \cup ended)
  /\ arrived' = arrived \cup {t}
  /\ UNCHANGED <<numThreads, listed, affinity, barrier, threads, pc, calls, count, spawned, issued, ended>>

\* Fault: the leader waits while ready <= num_threads.
BarrierOpen_OneMore(t) ==
  barrier => Cardinality({u \in arrived \cup ended : u.call = t.call}) > numThreads

\* When the loop has been left by an exception, what the body reads is gone: it
\* may find anything.
BarrierOpen(t) ==
  \/ ~ barrier
  \/ Cardinality({u \in arrived \cup ended : u.call = t.call}) >= numThreads
  \/ pc \in {"threw", "destroying"}

RangeEnds(t) ==
  /\ t \in arrived
  /\ BarrierOpen(t)
  /\ arrived' = arrived \ {t}
  /\ ended' = ended \cup {t}
  /\ UNCHANGED <<numThreads, listed, affinity, barrier, threads, pc, calls, count, spawned, issued>>

-----------------------------------------------------------------------------
CallerStep ==
  \/ ClearThreads \/ Spawn \/ SpawnFails \/ AllSpawned \/ OwnRange \/ OwnRangeEnds
  \/ JoinThreads \/ CatchException \/ DestroyJoin

RangeTask(t) == Arrive(t) \/ RangeEnds(t)

Finished == pc \in {"destroyed", "terminated"} /\ UNCHANGED vars

Next == Call \/ Destroy \/ CallerStep \/ (\E t \in issued : RangeTask(t)) \/ Finished

Spec == Init /\ [][Next]_vars

\* Every thread is scheduled.  Nothing is assumed of ranges whose loop has been left
\* by an exception: they may hang at a barrier that no longer exists.
Fairness ==
  /\ WF_vars(CallerStep)
  /\ WF_vars(pc \notin {"threw", "destroying"} /\ \E t \in issued : RangeTask(t))

FairSpec == Spec /\ Fairness

-----------------------------------------------------------------------------
(* Properties                                                                *)

\* The pool is a fork-join service: a loop returns when all its ranges have ended,
\* whoever ran them, and none runs twice; a pool is closed only when no loop is
\* in progress.
Phase ==
  IF pc = "join" THEN "joining"
  ELSE IF pc \in {"destroying", "destroyed", "terminated"} THEN "closed"
  ELSE "open"
FJ == INSTANCE ForkJoin WITH forked <- issued, inFlight <- issued \ ended, phase <- Phase
FJSpec == FJ!Spec

\* "ThreadPool destructor - ensure all threads are joined": no thread outlives the
\* pool, also when a loop was left because a thread could not be created.
DestructorJoins == pc = "destroyed" => issued \subseteq ended

\* A loop returns or throws: its ranges, which may wait for each other, all have a
\* thread of their own.
CallsReturn == pc = "clear" ~> pc \in {"idle", "threw"}

\* "Synchronization: wait for all threads to complete": when a loop has been left,
\* none of its threads runs, and none uses the loop's function any more.
LoopLeavesNoThread == pc \in {"idle", "threw"} => issued \subseteq ended
=============================================================================
