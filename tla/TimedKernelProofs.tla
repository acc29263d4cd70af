--------------------------- MODULE TimedKernelProofs ---------------------------
(***************************************************************************)
(* Proofs about the timed kernels, for any number of workers and rounds.   *)
(* Every step is one of the pool or leaves the pool alone, so that what    *)
(* PersistentPoolProofs shows of the pool holds here; the barrier and the  *)
(* results need the round's own invariant.                                 *)
(***************************************************************************)
EXTENDS TimedKernel, PersistentPoolProofs

\* As many ranges as threads: one plane each.
LEMMA OnePlaneEach ==
  ASSUME NEW n \in Nat \ {0}
  PROVE  /\ NumRanges(n, n) = n
         /\ \A i \in 1 .. n : RangeBegin(n, n, i - 1) = i - 1 /\ RangeEnd(n, n, i - 1) = i
<1>1. n \div n = 1 /\ n % n = 0
  <2>1. \A a \in Int : 1 * a = a
    OBVIOUS
  <2> QED BY <2>1
<1>2. NumRanges(n, n) = n
  BY DEF NumRanges
<1>3. ASSUME NEW i \in 1 .. n PROVE RangeBegin(n, n, i - 1) = i - 1 /\ RangeEnd(n, n, i - 1) = i
  <2>1. BaseSize(n, n) = 1 /\ Remainder(n, n) = 0
    BY <1>1 DEF BaseSize, Remainder
  <2>2. ~ (i - 1 < 0) /\ (i - 1) * 1 = i - 1
    OBVIOUS
  <2> QED BY <2>1, <2>2 DEF RangeBegin, RangeEnd, RangeSize
<1> QED BY <1>2, <1>3

\* A step of the timed kernels is a step of the pool, or none.
LEMMA StepOfPool ==
  ASSUME [KNext]_allVars
  PROVE  [Next]_vars
<1>1. CASE StartRound
  BY <1>1 DEF StartRound, CallLoop, CallerBegins, Caller, Next
<1>2. CASE PoolStep
  BY <1>2 DEF PoolStep, Caller, Next
<1>3. CASE \E i \in Ranges : RangeStep(i)
  BY <1>3 DEF RangeStep, Arrive, Lead, Follow, StopLoop
<1>4. CASE Deadline \/ UNCHANGED allVars
  BY <1>4 DEF Deadline, allVars
<1> QED BY <1>1, <1>2, <1>3, <1>4 DEF KNext

\* The rounds use the pool as it specifies: all that is proved of the pool holds while the
\* timed kernels run on it (precision_dispatcher.hpp, PrecisionThreadPool).
THEOREM RoundsUseThePool == KSpec => Spec
<1>1. KInit => Init
  BY DEF KInit
<1> QED BY <1>1, StepOfPool, PTL DEF KSpec, Spec

-----------------------------------------------------------------------------
(* What the invariant says of the pool's state                               *)

LEMMA Sizes ==
  ASSUME IInv
  PROVE  /\ PoolSize \in Nat \ {0} /\ numThreads \in 0 .. PoolSize
         /\ 1 .. numThreads \subseteq Ranges
         /\ \A i \in 1 .. numThreads : i - 1 \in Planes
         /\ pc # "threw" => numThreads \in Nat \ {0}
         /\ calls \in Nat /\ count \in Nat /\ next \in Nat \ {0}
<1>1. PoolSize \in Nat \ {0}
  BY PoolSizePositive
<1> QED BY <1>1 DEF IInv, TypeOK, Ranges, Planes

\* A range that runs is one of the round's, and the round has begun.
LEMMA RunsInRound ==
  ASSUME IInv, RoundInv, NEW i \in Ranges, RunBy(i)
  PROVE  i \in 1 .. numThreads /\ calls # 0
<1>1. CASE pc = "body" /\ i = NumTasks
  <2>1. op = "loop" /\ calls # 0
    BY <1>1 DEF IInv, ControlInv, RoundInv
  <2>2. nz = numThreads /\ numThreads \in Nat \ {0}
    BY <1>1, <2>1, Sizes DEF RoundInv
  <2> QED BY <1>1, <2>1, <2>2, OnePlaneEach DEF NumTasks
<1>2. ASSUME NEW w \in Workers, wpc[w] = "run", task[w].call = calls, task[w].index = i
      PROVE  i \in 1 .. numThreads /\ calls # 0
  <2>1. task[w] \in Held
    BY <1>2 DEF Held, Holding
  <2>2. task[w] \in issued /\ i < next
    BY <1>2, <2>1 DEF IInv, FreshInv
  <2>3. i > 0
    BY <1>2, <2>2 DEF IInv, FreshInv
  <2>4. calls \in Nat /\ count \in Nat /\ next \in Nat \ {0} /\ numThreads \in Nat /\ i \in Int
        /\ next <= count + 1
    BY Sizes DEF RoundInv, Ranges
  <2>5. calls # 0
    BY <2>2, <2>3, <2>4 DEF RoundInv
  <2>6. i \in 1 .. numThreads
    BY <2>2, <2>3, <2>4, <2>5 DEF RoundInv
  <2> QED BY <2>5, <2>6
<1> QED BY <1>1, <1>2 DEF RunBy

-----------------------------------------------------------------------------
(* The steps of a round                                                      *)

LEMMA KStarts == KInit => RoundInv /\ BarrierInv /\ ResultInv
<1> SUFFICES ASSUME KInit PROVE RoundInv /\ BarrierInv /\ ResultInv
  OBVIOUS
<1>1. Init
  BY DEF KInit
<1>2. Arrived = {}
  BY DEF KInit, Arrived
<1>3. PoolSize \in Nat \ {0}
  BY PoolSizePositive
<1>4. RoundInv
  <2>1. body \in [Ranges -> {"off", "barrier", "loop", "returned"}] /\ \A i \in Ranges : body[i] = "off"
    BY DEF KInit
  <2>2. at \in [Ranges -> Int] /\ slot \in [Planes -> Nat] /\ nz \in Nat /\ ready \in Nat
    BY DEF KInit
  <2>3. start \in BOOLEAN /\ expired \in BOOLEAN
    BY DEF KInit
  <2> QED BY <2>1, <2>2, <2>3 DEF KInit, Init, RoundInv, JoinPCs
<1>5. BarrierInv
  BY <1>2, FS_EmptySet DEF KInit, BarrierInv
<1>6. ResultInv
  BY <1>3 DEF KInit, Init, ResultInv, JoinPCs, Ranges
<1> QED BY <1>4, <1>5, <1>6

\* A new round: the pool is at rest, its variables are new.
LEMMA StartRoundKeeps ==
  ASSUME KInv, StartRound
  PROVE  RoundInv' /\ BarrierInv' /\ ResultInv'
<1> DEFINE n == numThreads
<1>1. /\ pc = "idle" /\ n \in Nat \ {0} /\ PoolSize \in Nat \ {0} /\ n <= PoolSize
      /\ calls \in Nat /\ NumRanges(n, n) = n
  BY Sizes, OnePlaneEach DEF KInv, StartRound, LoopOver, CallerMayCall
<1>2. /\ op' = "loop" /\ calls' = calls + 1 /\ count' = n - 1 /\ next' = 1
      /\ pc' = IF n = 1 THEN "body" ELSE "count"
      /\ numThreads' = n /\ issued' = issued /\ ended' = ended
  BY <1>1 DEF StartRound, LoopOver, CallerMayCall, KernelThreads, poolVars, history
<1>3. /\ nz' = n /\ ready' = 0 /\ start' = FALSE /\ expired' = FALSE
      /\ body' = [i \in Ranges |-> "off"] /\ slot' = [t \in Planes |-> 0]
      /\ at' = [i \in Ranges |-> RangeBegin(n, n, i - 1)]
  BY DEF StartRound, KernelThreads
<1>4. \A i \in 1 .. n : i \in Ranges /\ at'[i] = i - 1
  BY <1>1, <1>3, OnePlaneEach, Sizes DEF KInv, Ranges
<1>5. at' \in [Ranges -> Int]
  <2>1. \A i \in Ranges : RangeBegin(n, n, i - 1) \in Int
    <3>1. BaseSize(n, n) \in Int /\ Remainder(n, n) \in Int
      BY <1>1 DEF BaseSize, Remainder
    <3> QED BY <1>1, <3>1 DEF RangeBegin, Ranges
  <2> QED BY <1>3, <2>1
<1>6. RoundInv'
  <2>1. /\ body' \in [Ranges -> {"off", "barrier", "loop", "returned"}] /\ slot' \in [Planes -> Nat]
        /\ nz' \in Nat /\ ready' \in Nat
    BY <1>1, <1>3
  <2>2. start' \in BOOLEAN /\ expired' \in BOOLEAN
    BY <1>3
  <2>3. op' = "loop" /\ calls' # 0 /\ nz' = numThreads' /\ count' = numThreads' - 1
    BY <1>1, <1>2, <1>3
  <2>4. \A i \in 1 .. numThreads' : at'[i] = i - 1
    BY <1>2, <1>4
  <2>5. next' <= count' + 1 /\ (pc' \in {"body"} \cup JoinPCs => next' = count' + 1)
    BY <1>1, <1>2 DEF JoinPCs
  <2> QED BY <1>5, <2>1, <2>2, <2>3, <2>4, <2>5 DEF RoundInv
<1>7. Arrived' = {}
  BY <1>3 DEF Arrived
<1>8. BarrierInv'
  BY <1>3, <1>7, FS_EmptySet DEF BarrierInv
<1>9. \A t \in ended' : t.call # calls'
  <2>1. \A t \in ended : t \in issued /\ t.call <= calls
    BY DEF KInv, IInv, FreshInv
  <2>2. \A t \in ended : t.call \in Nat
    BY DEF KInv, IInv, TypeOK, Task
  <2> QED BY <1>1, <1>2, <2>1, <2>2
<1>10. ResultInv'
  BY <1>1, <1>2, <1>3, <1>4, <1>9 DEF ResultInv, JoinPCs, LoopPCs
<1> QED BY <1>6, <1>8, <1>10

\* The sizes of sets of ranges.
LEMMA ArrivedIsFinite ==
  ASSUME IInv, BarrierInv
  PROVE  /\ IsFiniteSet(Arrived)
         /\ Cardinality(Arrived) \in Nat
         /\ Cardinality(Arrived) >= numThreads => Arrived = 1 .. numThreads
         /\ Cardinality(1 .. numThreads) = numThreads
<1>1. numThreads \in Nat
  BY Sizes
<1>2. IsFiniteSet(1 .. numThreads) /\ Cardinality(1 .. numThreads) = numThreads
  BY <1>1, FS_Interval
<1>3. Arrived \in SUBSET (1 .. numThreads)
  BY DEF BarrierInv
<1>4. IsFiniteSet(Arrived) /\ (Cardinality(Arrived) = numThreads => Arrived = 1 .. numThreads)
      /\ Cardinality(Arrived) <= numThreads
  <2> DEFINE S == 1 .. numThreads
  <2>1. IsFiniteSet(S) /\ Arrived \in SUBSET S /\ Cardinality(S) = numThreads
    BY <1>2, <1>3
  <2> HIDE DEF S
  <2>2. /\ IsFiniteSet(Arrived) /\ Cardinality(Arrived) <= Cardinality(S)
        /\ (Cardinality(S) = Cardinality(Arrived) => S = Arrived)
    BY <2>1, FS_Subset
  <2> QED BY <2>1, <2>2 DEF S
<1>5. Cardinality(Arrived) \in Nat
  BY <1>4, FS_CardinalityType
<1> QED BY <1>1, <1>2, <1>4, <1>5

LEMMA ArriveKeeps ==
  ASSUME KInv, NEW i \in Ranges, Arrive(i)
  PROVE  RoundInv' /\ BarrierInv' /\ ResultInv'
<1>1. i \in 1 .. numThreads /\ calls # 0
  BY RunsInRound DEF KInv, Arrive
<1>2. /\ body[i] = "off" /\ body' = [body EXCEPT ![i] = "barrier"] /\ ready' = ready + 1
      /\ UNCHANGED <<vars, nz, start, expired, at, slot>>
  BY DEF Arrive
<1>3. /\ body'[i] = "barrier" /\ \A j \in Ranges \ {i} : body'[j] = body[j]
      /\ body' \in [Ranges -> {"off", "barrier", "loop", "returned"}]
  BY <1>2 DEF KInv, RoundInv
<1>4. /\ numThreads' = numThreads /\ pc' = pc /\ op' = op /\ calls' = calls /\ count' = count
      /\ next' = next /\ issued' = issued /\ ended' = ended
  BY <1>2 DEF vars, poolVars, callerVars, history
<1>5. RoundInv'
  BY <1>1, <1>2, <1>3, <1>4 DEF KInv, RoundInv
<1>6. Arrived' = Arrived \cup {i} /\ i \notin Arrived
  BY <1>2, <1>3 DEF Arrived
<1>7. Cardinality(Arrived') = Cardinality(Arrived) + 1
  BY <1>6, ArrivedIsFinite, FS_AddElement DEF KInv
<1>8. BarrierInv'
  BY <1>1, <1>2, <1>3, <1>4, <1>6, <1>7 DEF KInv, BarrierInv
<1>9. ResultInv'
  <2>1. \A j \in Ranges : body[j] = "returned" <=> body'[j] = "returned"
    BY <1>2, <1>3
  <2>2. \A t \in ended : t.call = calls => body'[t.index] = "returned"
    <3> SUFFICES ASSUME NEW t \in ended, t.call = calls PROVE body'[t.index] = "returned"
      OBVIOUS
    <3>1. body[t.index] = "returned"
      BY DEF KInv, ResultInv
    <3>2. t.index # i
      BY <1>2, <3>1
    <3> QED BY <1>2, <3>1, <3>2 DEF KInv, RoundInv
  <2>3. 1 .. numThreads \subseteq Ranges /\ numThreads \in Nat
    BY Sizes DEF KInv
  <2>4. pc \in JoinPCs => numThreads \in Ranges
    BY <1>1, <2>3
  <2> QED BY <1>2, <1>4, <2>1, <2>2, <2>3, <2>4 DEF KInv, ResultInv, RoundTask
<1> QED BY <1>5, <1>8, <1>9

\* A step of a range that has arrived leaves it arrived.
LEMMA BodyMoves ==
  ASSUME KInv, NEW i \in Ranges, body[i] # "off", NEW l \in {"loop", "returned"},
         body' = [body EXCEPT ![i] = l], numThreads' = numThreads, ready' = ready
  PROVE  /\ i \in 1 .. numThreads /\ calls # 0
         /\ body' \in [Ranges -> {"off", "barrier", "loop", "returned"}]
         /\ body'[i] = l /\ \A j \in Ranges \ {i} : body'[j] = body[j]
         /\ Arrived' = Arrived
         /\ start' => BarrierInv' \/ Arrived # 1 .. numThreads
<1>1. i \in 1 .. numThreads /\ calls # 0
  BY DEF KInv, BarrierInv, RoundInv, Arrived
<1>2. /\ body' \in [Ranges -> {"off", "barrier", "loop", "returned"}]
      /\ body'[i] = l /\ \A j \in Ranges \ {i} : body'[j] = body[j]
  BY DEF KInv, RoundInv
<1>3. Arrived' = Arrived
  BY <1>2 DEF Arrived
<1>4. start' => BarrierInv' \/ Arrived # 1 .. numThreads
  BY <1>3 DEF KInv, BarrierInv
<1> QED BY <1>1, <1>2, <1>3, <1>4

\* The barrier opens, and those that wait at it go on.
LEMMA PassKeeps ==
  ASSUME KInv, NEW i \in Ranges, Lead(i) \/ Follow(i)
  PROVE  RoundInv' /\ BarrierInv' /\ ResultInv'
<1>1. /\ body[i] = "barrier" /\ body' = [body EXCEPT ![i] = "loop"] /\ start' = TRUE
      /\ UNCHANGED <<vars, nz, ready, expired, at, slot>>
  BY DEF Lead, Follow, KInv, RoundInv
<1>2. /\ numThreads' = numThreads /\ pc' = pc /\ op' = op /\ calls' = calls /\ count' = count
      /\ next' = next /\ issued' = issued /\ ended' = ended
  BY <1>1 DEF vars, poolVars, callerVars, history
<1>3. /\ i \in 1 .. numThreads /\ calls # 0
      /\ body' \in [Ranges -> {"off", "barrier", "loop", "returned"}]
      /\ body'[i] = "loop" /\ \A j \in Ranges \ {i} : body'[j] = body[j]
      /\ start' => BarrierInv' \/ Arrived # 1 .. numThreads
  BY <1>1, <1>2, BodyMoves
<1>4. Arrived = 1 .. numThreads
  <2>1. CASE Lead(i)
    BY <2>1, ArrivedIsFinite DEF Lead, KernelThreads, KInv, BarrierInv
  <2>2. CASE Follow(i)
    BY <2>2 DEF Follow, KInv, BarrierInv
  <2> QED BY <2>1, <2>2
<1>5. RoundInv'
  BY <1>1, <1>2, <1>3 DEF KInv, RoundInv
<1>6. ResultInv'
  <2>1. \A t \in ended : t.call = calls => body'[t.index] = "returned"
    <3> SUFFICES ASSUME NEW t \in ended, t.call = calls PROVE body'[t.index] = "returned"
      OBVIOUS
    <3>1. body[t.index] = "returned"
      BY DEF KInv, ResultInv
    <3> QED BY <1>1, <3>1 DEF KInv, RoundInv
  <2>2. 1 .. numThreads \subseteq Ranges /\ numThreads \in Nat
    BY Sizes DEF KInv
  <2>3. \A j \in Ranges : body[j] = "returned" <=> body'[j] = "returned"
    BY <1>1, <1>3
  <2>4. numThreads \in Ranges
    BY <1>3, <2>2
  <2> QED BY <1>1, <1>2, <2>1, <2>2, <2>3, <2>4 DEF KInv, ResultInv, RoundTask
<1> QED BY <1>1, <1>3, <1>4, <1>5, <1>6

\* The result of a range is stored as that of this round.
LEMMA StopLoopKeeps ==
  ASSUME KInv, NEW i \in Ranges, StopLoop(i)
  PROVE  RoundInv' /\ BarrierInv' /\ ResultInv'
<1>1. /\ body[i] = "loop" /\ slot' = [slot EXCEPT ![at[i]] = calls]
      /\ UNCHANGED <<vars, nz, ready, start, expired>>
  BY DEF StopLoop
<1>2. /\ numThreads' = numThreads /\ pc' = pc /\ op' = op /\ calls' = calls /\ count' = count
      /\ next' = next /\ issued' = issued /\ ended' = ended
  BY <1>1 DEF vars, poolVars, callerVars, history
<1>3. i \in 1 .. numThreads /\ calls # 0 /\ start
  BY <1>1 DEF KInv, BarrierInv, RoundInv, Arrived
<1>4. /\ at[i] = i - 1 /\ nz = numThreads /\ numThreads \in Nat \ {0} /\ i - 1 \in Planes
      /\ calls \in Nat
  BY <1>3, Sizes DEF KInv, RoundInv
<1>5. RangeEnd(nz, numThreads, i - 1) = i
  BY <1>3, <1>4, OnePlaneEach
<1>6. body' = [body EXCEPT ![i] = "returned"] /\ at' = at
  BY <1>3, <1>4, <1>5 DEF StopLoop
<1>7. /\ body' \in [Ranges -> {"off", "barrier", "loop", "returned"}]
      /\ body'[i] = "returned" /\ \A j \in Ranges \ {i} : body'[j] = body[j]
      /\ start' => BarrierInv' \/ Arrived # 1 .. numThreads
  BY <1>1, <1>2, <1>6, BodyMoves
<1>8. Arrived = 1 .. numThreads /\ start'
  BY <1>1, <1>3 DEF KInv, BarrierInv
<1>9. slot' \in [Planes -> Nat] /\ slot'[i - 1] = calls /\ \A t \in Planes \ {i - 1} : slot'[t] = slot[t]
  BY <1>1, <1>4 DEF KInv, RoundInv
<1>10. RoundInv'
  BY <1>1, <1>2, <1>3, <1>6, <1>7, <1>9 DEF KInv, RoundInv
<1>11. ResultInv'
  <2>1. \A t \in ended : t.call = calls => body'[t.index] = "returned"
    BY <1>6 DEF KInv, ResultInv, RoundInv
  <2>2. 1 .. numThreads \subseteq Ranges /\ \A j \in 1 .. numThreads : j - 1 \in Planes
    BY Sizes DEF KInv
  <2>3. \A j \in 1 .. numThreads : body'[j] = "returned" => slot'[j - 1] = calls
    <3> SUFFICES ASSUME NEW j \in 1 .. numThreads, body'[j] = "returned" PROVE slot'[j - 1] = calls
      OBVIOUS
    <3>1. CASE j = i
      BY <3>1, <1>9
    <3>2. CASE j # i
      <4>1. body[j] = "returned" /\ slot[j - 1] = calls
        BY <1>7, <2>2, <3>2 DEF KInv, ResultInv
      <4> QED BY <1>9, <2>2, <3>2, <4>1
    <3> QED BY <3>1, <3>2
  <2>4. \A j \in Ranges : body[j] = "returned" => body'[j] = "returned"
    BY <1>7
  <2>5. numThreads \in Ranges
    BY <1>4, <2>2
  <2> QED BY <1>2, <2>1, <2>2, <2>3, <2>4, <2>5 DEF KInv, ResultInv, RoundTask
<1> QED BY <1>7, <1>8, <1>10, <1>11

-----------------------------------------------------------------------------
(* The pool's own steps, and time                                            *)

\* The clock of the round is not in the invariant.
LEMMA DeadlineKeeps ==
  ASSUME KInv, Deadline
  PROVE  RoundInv' /\ BarrierInv' /\ ResultInv'
<1>1. expired' = TRUE /\ UNCHANGED <<vars, nz, ready, start, body, at, slot>>
  BY DEF Deadline
<1>2. /\ numThreads' = numThreads /\ pc' = pc /\ op' = op /\ calls' = calls /\ count' = count
      /\ next' = next /\ issued' = issued /\ ended' = ended
  BY <1>1 DEF vars, poolVars, callerVars, history
<1>3. RoundInv'
  BY <1>1, <1>2 DEF KInv, RoundInv
<1>4. BarrierInv'
  BY <1>1, <1>2 DEF KInv, BarrierInv, Arrived
<1>5. ResultInv'
  BY <1>1, <1>2 DEF KInv, ResultInv, RoundTask
<1> QED BY <1>3, <1>4, <1>5

\* A step that issues and ends no task, and goes where the invariant lets it.
LEMMA QuietKeeps ==
  ASSUME KInv, UNCHANGED kernelVars,
         UNCHANGED <<numThreads, calls, count, next, issued, ended>>,
         op' \in {op, "destroy"},
         pc' \in {"body"} \cup JoinPCs => next = count + 1,
         pc' \in JoinPCs => body[numThreads] = "returned",
         calls # 0 /\ pc' \notin LoopPCs => \A i \in 1 .. numThreads : body[i] = "returned"
  PROVE  RoundInv' /\ BarrierInv' /\ ResultInv'
<1>1. /\ nz' = nz /\ ready' = ready /\ start' = start /\ expired' = expired /\ body' = body
      /\ at' = at /\ slot' = slot
  BY DEF kernelVars
<1>2. RoundInv'
  BY <1>1 DEF KInv, RoundInv
<1>3. BarrierInv'
  BY <1>1 DEF KInv, BarrierInv, Arrived
<1>4. ResultInv'
  BY <1>1 DEF KInv, ResultInv, RoundTask
<1> QED BY <1>2, <1>3, <1>4

\* Workers are created before the first round.
LEMMA ConstructKeeps ==
  ASSUME KInv, Construct, UNCHANGED kernelVars
  PROVE  RoundInv' /\ BarrierInv' /\ ResultInv'
<1>1. pc = "constructing" /\ op = "none" /\ calls = 0
  BY DEF Construct, CreateWorker, CreateWorkerFails, KInv, IInv, ControlInv, RoundInv
<1>2. /\ op' = op /\ calls' = calls /\ count' = count /\ next' = next /\ issued' = issued
      /\ ended' = ended /\ pc' \in {"constructing", "idle", "threw"}
      /\ numThreads' \in 0 .. PoolSize
  <2>1. CASE CreateWorker
    BY <1>1, <2>1, Sizes DEF CreateWorker, poolVars, history, KInv
  <2>2. CASE CreateWorkerFails
    <3>1. PICK w \in Unborn : numThreads' = w /\ pc' = IF w = 0 THEN "threw" ELSE "idle"
      BY <2>2 DEF CreateWorkerFails
    <3>2. w \in 0 .. PoolSize
      BY PoolSizePositive DEF Unborn, Workers
    <3> QED BY <2>2, <3>1, <3>2 DEF CreateWorkerFails, history
  <2> QED BY <2>1, <2>2 DEF Construct
<1>3. /\ nz' = nz /\ ready' = ready /\ start' = start /\ expired' = expired /\ body' = body
      /\ at' = at /\ slot' = slot
  BY DEF kernelVars
<1>4. \A i \in Ranges : body[i] = "off"
  BY <1>1 DEF KInv, RoundInv
<1>5. RoundInv'
  BY <1>1, <1>2, <1>3 DEF KInv, RoundInv, JoinPCs
<1>6. Arrived = {} /\ Arrived' = {}
  BY <1>3, <1>4 DEF Arrived
<1>7. ~ start
  BY <1>4, <1>6, Sizes, <1>1 DEF KInv, BarrierInv
<1>8. BarrierInv'
  BY <1>3, <1>4, <1>6, <1>7 DEF KInv, BarrierInv
<1>9. ended = {}
  <2>1. next = 1
    BY <1>1, Sizes DEF KInv, RoundInv
  <2>2. \A t \in issued : t.call \in Nat /\ t.index \in Nat
    BY DEF KInv, IInv, TypeOK, Task
  <2>3. ToPush = {}
    BY <1>1 DEF ToPush
  <2>4. issued = {}
    BY <1>1, <2>1, <2>2, <2>3 DEF KInv, IInv, FreshInv
  <2> QED BY <2>4 DEF KInv, IInv, FreshInv
<1>10. ResultInv'
  BY <1>1, <1>2, <1>3, <1>4, <1>9, PoolSizePositive DEF ResultInv, JoinPCs, Ranges
<1> QED BY <1>5, <1>8, <1>10

\* The caller submits a range, or signals that it has.
LEMMA SubmitKeeps ==
  ASSUME KInv, SubmitCount \/ SubmitPush \/ Signal, UNCHANGED kernelVars
  PROVE  RoundInv' /\ BarrierInv' /\ ResultInv'
<1>1. /\ nz' = nz /\ ready' = ready /\ start' = start /\ expired' = expired /\ body' = body
      /\ at' = at /\ slot' = slot
  BY DEF kernelVars
<1>2. /\ numThreads' = numThreads /\ op' = op /\ calls' = calls /\ count' = count /\ ended' = ended
      /\ pc \in LoopPCs \ JoinPCs /\ pc' \notin JoinPCs
  BY DEF SubmitCount, SubmitPush, Signal, LoopPCs, JoinPCs, history
<1>3. pc \in {"count", "push"} => op = "loop" /\ next <= count
  BY DEF KInv, IInv, ControlInv, RoundInv
<1>4. pc = "signal" => op = "loop"
  BY DEF KInv, IInv, ControlInv, RoundInv
<1>5. pc' \in LoopPCs
  BY <1>3, <1>4 DEF SubmitCount, SubmitPush, Signal, LoopPCs
<1>6. BarrierInv'
  BY <1>1, <1>2 DEF KInv, BarrierInv, Arrived
<1>7. /\ next' <= count + 1 /\ (pc' = "body" => next' = count + 1) /\ next' \in Nat
      /\ \A i \in 1 .. next' - 1 : calls # 0 => RoundTask(i) \in issued'
  <2>0. calls # 0 /\ \A i \in 1 .. next - 1 : RoundTask(i) \in issued
    BY <1>2, <1>3, <1>4 DEF KInv, RoundInv, ResultInv, SubmitCount, SubmitPush, Signal
  <2>1. CASE SubmitCount
    BY <1>3, <2>0, <2>1, Sizes DEF SubmitCount, KInv
  <2>2. CASE SubmitPush
    <3>1. next' = next + 1 /\ issued' = issued /\ pc' # "body" /\ next <= count
      BY <1>3, <2>2 DEF SubmitPush, history
    <3>2. RoundTask(next) \in issued
      BY <1>3, <2>2
         DEF SubmitPush, ToPush, CallTask, RoundTask, KInv, IInv, FreshInv
    <3> QED BY <2>0, <3>1, <3>2, Sizes DEF KInv
  <2>3. CASE Signal
    BY <1>4, <2>0, <2>3, Sizes DEF Signal, history, KInv, RoundInv
  <2> QED BY <2>1, <2>2, <2>3
<1>8. RoundInv'
  BY <1>1, <1>2, <1>7 DEF KInv, RoundInv
<1>9. ResultInv'
  BY <1>1, <1>2, <1>5, <1>7 DEF KInv, ResultInv, RoundTask
<1> QED BY <1>6, <1>8, <1>9

\* When the count is zero, the submitted ranges have returned.
LEMMA NoneLeft ==
  ASSUME KInv, calls # 0, next = count + 1, pending = 0
  PROVE  \A i \in 1 .. numThreads - 1 : body[i] = "returned"
<1>1. issued \subseteq ended /\ count = numThreads - 1
  BY ZeroMeansEnded DEF KInv, RoundInv
<1>2. \A i \in 1 .. numThreads - 1 : RoundTask(i) \in ended
  BY <1>1, Sizes DEF KInv, ResultInv
<1> QED BY <1>2 DEF KInv, ResultInv, RoundTask

\* The caller's own range has returned; the others have when the wait ends.
LEMMA JoinKeeps ==
  ASSUME KInv, UNCHANGED kernelVars,
         LoopBodyReturns \/ LoopBodyThrows \/ WaitLock \/ WaitTest \/ WaitBlock \/ WaitSpuriousWake,
         pc = "body" => body[NumTasks] = "returned"
  PROVE  RoundInv' /\ BarrierInv' /\ ResultInv'
<1>1. ~ LoopBodyThrows
  BY TimedKernelAssumption DEF LoopBodyThrows
<1>2. /\ UNCHANGED <<numThreads, calls, count, next, issued, ended>> /\ op' = op
  BY <1>1 DEF LoopBodyReturns, WaitLock, WaitTest, WaitBlock, WaitSpuriousWake, poolVars, history
<1>3. pc \in {"body"} \cup JoinPCs
  BY <1>1 DEF LoopBodyReturns, WaitLock, WaitTest, WaitBlock, WaitSpuriousWake, JoinPCs
<1>4. next = count + 1
  BY <1>3 DEF KInv, RoundInv
<1>5. op = "loop" /\ calls # 0
  BY <1>3 DEF KInv, IInv, ControlInv, RoundInv, Joined
<1>6. /\ nz = numThreads /\ count = numThreads - 1 /\ numThreads \in Nat \ {0}
  BY <1>3, <1>5, Sizes DEF KInv, RoundInv, JoinPCs
<1>7. body[numThreads] = "returned"
  <2>1. NumTasks = numThreads
    BY <1>6, OnePlaneEach DEF NumTasks
  <2> QED BY <1>3, <2>1 DEF KInv, ResultInv
<1>8. pc' \in LoopPCs \/ \A i \in 1 .. numThreads : body[i] = "returned"
  <2>1. CASE LoopBodyReturns
    <3>1. pc' \in LoopPCs \/ numThreads = 1
      BY <1>6, <2>1 DEF LoopBodyReturns, LoopPCs
    <3> QED BY <1>7, <3>1
  <2>2. CASE WaitTest
    <3>1. pc' \in LoopPCs \/ pending = 0
      BY <2>2 DEF WaitTest, LoopPCs
    <3>2. pending = 0 => \A i \in 1 .. numThreads - 1 : body[i] = "returned"
      BY <1>4, <1>5, NoneLeft
    <3> QED BY <1>6, <1>7, <3>1, <3>2
  <2>3. CASE WaitLock \/ WaitBlock \/ WaitSpuriousWake
    BY <2>3 DEF WaitLock, WaitBlock, WaitSpuriousWake, LoopPCs
  <2> QED BY <1>1, <2>1, <2>2, <2>3
<1> QED BY <1>2, <1>4, <1>7, <1>8, QuietKeeps

\* The pool is destroyed after the last round.
LEMMA DestroyKeeps ==
  ASSUME KInv, UNCHANGED kernelVars,
         Destroy \/ DestroySignal \/ DestroyNotify \/ DestroyJoin \/ Finished
  PROVE  RoundInv' /\ BarrierInv' /\ ResultInv'
<1>1. /\ UNCHANGED <<numThreads, calls, count, next, issued, ended>> /\ op' \in {op, "destroy"}
  BY DEF Destroy, DestroySignal, DestroyNotify, DestroyJoin, Finished, poolVars, callerVars,
         history, vars
<1>2. pc \notin LoopPCs /\ pc' \notin {"body"} \cup JoinPCs
  BY DEF Destroy, DestroySignal, DestroyNotify, DestroyJoin, Finished, callerVars, vars, LoopPCs,
         JoinPCs
<1>3. calls # 0 => \A i \in 1 .. numThreads : body[i] = "returned"
  BY <1>2 DEF KInv, ResultInv
<1> QED BY <1>1, <1>2, <1>3, QuietKeeps DEF JoinPCs

\* A task ends when its range has returned; no other step of a worker matters.
LEMMA WorkerKeeps ==
  ASSUME KInv, UNCHANGED kernelVars, NEW w \in Workers, Worker(w),
         wpc[w] = "run" => body[task[w].index] = "returned"
  PROVE  RoundInv' /\ BarrierInv' /\ ResultInv'
<1>1. CASE TaskEnds(w)
  <2>1. /\ nz' = nz /\ ready' = ready /\ start' = start /\ expired' = expired /\ body' = body
        /\ at' = at /\ slot' = slot
    BY DEF kernelVars
  <2>2. /\ numThreads' = numThreads /\ pc' = pc /\ op' = op /\ calls' = calls /\ count' = count
        /\ next' = next /\ issued' = issued /\ ended' = ended \cup {task[w]}
        /\ body[task[w].index] = "returned"
    BY <1>1 DEF TaskEnds, poolVars, callerVars
  <2>3. RoundInv'
    BY <2>1, <2>2 DEF KInv, RoundInv
  <2>4. BarrierInv'
    BY <2>1, <2>2 DEF KInv, BarrierInv, Arrived
  <2>5. ResultInv'
    BY <2>1, <2>2 DEF KInv, ResultInv, RoundTask
  <2> QED BY <2>3, <2>4, <2>5
<1>2. CASE NotifyWaiter(w)
  <2>1. /\ UNCHANGED <<numThreads, calls, count, next, issued, ended>> /\ op' = op
        /\ pc' = IF pc = "blocked" THEN "wait_lock" ELSE pc
    BY <1>2 DEF NotifyWaiter, poolVars, history
  <2>2. /\ pc' \in JoinPCs <=> pc \in JoinPCs
        /\ pc' \in LoopPCs <=> pc \in LoopPCs
        /\ pc' = "body" <=> pc = "body"
    BY <2>1 DEF JoinPCs, LoopPCs
  <2>3. /\ pc' \in {"body"} \cup JoinPCs => next = count + 1
        /\ pc' \in JoinPCs => body[numThreads] = "returned"
        /\ calls # 0 /\ pc' \notin LoopPCs => \A i \in 1 .. numThreads : body[i] = "returned"
    BY <2>2 DEF KInv, RoundInv, ResultInv
  <2> QED BY <2>1, <2>3, QuietKeeps
<1>3. CASE ~ TaskEnds(w) /\ ~ NotifyWaiter(w)
  <2>1. UNCHANGED <<numThreads, pc, op, calls, count, next, issued, ended>>
    BY <1>3 DEF Worker, TestRunning, PopOwn, OwnQueueEmpty, Steal, VictimEmpty, StealFails, Retire,
                IdleWorker, WakeUp, FallAsleep, SleepTimeout, poolVars, callerVars, history
  <2>2. /\ pc' \in {"body"} \cup JoinPCs => next = count + 1
        /\ pc' \in JoinPCs => body[numThreads] = "returned"
        /\ calls # 0 /\ pc' \notin LoopPCs => \A i \in 1 .. numThreads : body[i] = "returned"
    BY <2>1 DEF KInv, RoundInv, ResultInv
  <2> QED BY <2>1, <2>2, QuietKeeps
<1> QED BY <1>1, <1>2, <1>3

-----------------------------------------------------------------------------
(* The invariant and what it gives                                           *)

LEMMA KInvInit == KInit => KInv
  BY KStarts, InvInit DEF KInit, KInv

LEMMA KInvNext == KInv /\ [KNext]_allVars => KInv'
<1> SUFFICES ASSUME KInv, [KNext]_allVars PROVE KInv'
  OBVIOUS
<1>1. IInv'
  BY StepOfPool, InvNext DEF KInv
<1>2. RoundInv' /\ BarrierInv' /\ ResultInv'
  <2>1. CASE StartRound
    BY <2>1, StartRoundKeeps
  <2>2. CASE PoolStep
    <3>1. UNCHANGED kernelVars
      BY <2>2 DEF PoolStep
    <3>2. CASE Construct
      BY <3>1, <3>2, ConstructKeeps
    <3>3. CASE WaitSpuriousWake
      BY <3>1, <3>3, JoinKeeps DEF WaitSpuriousWake
    <3>4. CASE Destroy \/ Finished
      BY <3>1, <3>4, DestroyKeeps
    <3>5. CASE CallerContinues /\ (pc = "body" => body[NumTasks] = "returned")
      BY <3>1, <3>5, SubmitKeeps, JoinKeeps, DestroyKeeps DEF CallerContinues
    <3>6. CASE \E w \in Workers : Worker(w) /\ (wpc[w] = "run" => body[task[w].index] = "returned")
      BY <3>1, <3>6, WorkerKeeps
    <3> QED BY <2>2, <3>2, <3>3, <3>4, <3>5, <3>6 DEF PoolStep
  <2>3. CASE \E i \in Ranges : RangeStep(i)
    BY <2>3, ArriveKeeps, PassKeeps, StopLoopKeeps DEF RangeStep
  <2>4. CASE Deadline
    BY <2>4, DeadlineKeeps
  <2>5. CASE UNCHANGED allVars
    <3>1. UNCHANGED kernelVars /\ UNCHANGED <<numThreads, pc, op, calls, count, next, issued, ended>>
      BY <2>5 DEF allVars, vars, poolVars, callerVars, history
    <3>2. /\ pc' \in {"body"} \cup JoinPCs => next = count + 1
          /\ pc' \in JoinPCs => body[numThreads] = "returned"
          /\ calls # 0 /\ pc' \notin LoopPCs => \A i \in 1 .. numThreads : body[i] = "returned"
      BY <3>1 DEF KInv, RoundInv, ResultInv
    <3> QED BY <3>1, <3>2, QuietKeeps
  <2> QED BY <2>1, <2>2, <2>3, <2>4, <2>5 DEF KNext
<1> QED BY <1>1, <1>2 DEF KInv

\* In any run of rounds, on any number of workers, also when some could not be created, the
\* round, its barrier and its results are as the invariant says.
THEOREM RoundInvariant == KSpec => []KInv
  BY KInvInit, KInvNext, PTL DEF KSpec

\* The barrier of measure_timed_kernel: no plane runs a chunk, and the clock does not start,
\* before every plane of the round has arrived.
THEOREM BarrierOpensForAll == KSpec => []StartTogether
<1>1. KInv => StartTogether
  <2> SUFFICES ASSUME KInv, start \/ \E i \in Ranges : body[i] \in {"loop", "returned"}
               PROVE  ready = numThreads /\ \A i \in 1 .. numThreads : body[i] # "off"
    BY DEF StartTogether
  <2>1. Arrived = 1 .. numThreads
    BY DEF KInv, BarrierInv
  <2> QED BY <2>1, ArrivedIsFinite DEF KInv, BarrierInv, Arrived
<1> QED BY <1>1, RoundInvariant, PTL

\* When parallel_for_z has returned, thread_iters holds this round's result of every plane:
\* the sums taken after it are over complete results.
THEOREM ResultsAreComplete == KSpec => []ResultsComplete
<1>1. KInv => ResultsComplete
  <2> SUFFICES ASSUME KInv, pc = "idle", op = "loop", NEW t \in 0 .. numThreads - 1
               PROVE  slot[t] = calls
    BY DEF ResultsComplete
  <2>1. calls # 0 /\ pc \notin LoopPCs
    BY DEF KInv, RoundInv, LoopPCs
  <2>2. numThreads \in Nat /\ t + 1 \in 1 .. numThreads /\ (t + 1) - 1 = t
    BY Sizes DEF KInv
  <2>3. body[t + 1] = "returned"
    BY <2>1, <2>2 DEF KInv, ResultInv
  <2> QED BY <2>2, <2>3 DEF KInv, ResultInv
<1> QED BY <1>1, RoundInvariant, PTL

=============================================================================
