------------------------- MODULE PersistentPoolProofs -------------------------
(***************************************************************************)
(* Proofs about PersistentPool, for any number of workers, any loops and   *)
(* any sequence of calls.                                                  *)
(***************************************************************************)
EXTENDS PersistentPool, FiniteSetTheorems, SequenceTheorems, TLAPS

\* The pool asks for at least one worker.
LEMMA PoolSizePositive == PoolSize \in Nat \ {0}
  BY PoolAssumption DEF PoolSize

\* A remainder names a queue.
LEMMA ModRange == ASSUME NEW a \in Nat, NEW b \in Nat, b > 0
                  PROVE  a % b \in 0 .. b - 1
  OBVIOUS

\* Taking the newest task leaves a queue of tasks: everything but the last entry.
LEMMA TakeNewest ==
  ASSUME NEW S, NEW q \in Seq(S), q # << >>
  PROVE  /\ Len(q) \in Nat \ {0}
         /\ q[Len(q)] \in S
         /\ SubSeq(q, 1, Len(q) - 1) \in Seq(S)
         /\ Len(SubSeq(q, 1, Len(q) - 1)) = Len(q) - 1
         /\ \A i \in 1 .. Len(q) - 1 : SubSeq(q, 1, Len(q) - 1)[i] = q[i]
<1>1. Len(q) \in Nat \ {0}
  BY EmptySeq
<1>2. \A i \in 1 .. Len(q) : q[i] \in S
  BY ElementOfSeq
<1>3. \A i \in 1 .. Len(q) - 1 : q[i] \in S
  BY <1>1, <1>2
<1>4. 1 \in Int /\ Len(q) - 1 \in Int
  BY <1>1
<1>5. /\ SubSeq(q, 1, Len(q) - 1) \in Seq(S)
      /\ Len(SubSeq(q, 1, Len(q) - 1)) = IF 1 <= Len(q) - 1 THEN (Len(q) - 1) - 1 + 1 ELSE 0
      /\ \A i \in 1 .. (Len(q) - 1) - 1 + 1 : SubSeq(q, 1, Len(q) - 1)[i] = q[1 + i - 1]
  BY <1>3, <1>4, SubSeqProperties
<1>6. Len(q) \in 1 .. Len(q)
  BY <1>1
<1>7. Len(SubSeq(q, 1, Len(q) - 1)) = Len(q) - 1
  <2>1. \A n \in Nat : (IF 1 <= n THEN n - 1 + 1 ELSE 0) = n
    OBVIOUS
  <2>2. Len(q) - 1 \in Nat
    BY <1>1
  <2> QED
    BY <2>1, <2>2, <1>5, Zenon
<1>8. ASSUME NEW i \in 1 .. Len(q) - 1
      PROVE  SubSeq(q, 1, Len(q) - 1)[i] = q[i]
  <2>1. i \in 1 .. (Len(q) - 1) - 1 + 1 /\ 1 + i - 1 = i
    BY <1>1
  <2>2. SubSeq(q, 1, Len(q) - 1)[i] = q[1 + i - 1]
    BY <2>1, <1>5
  <2> QED
    BY <2>1, <2>2
<1>9. QED
  BY <1>1, <1>2, <1>5, <1>6, <1>7, <1>8

\* Taking the oldest task leaves a queue of tasks: everything but the first entry.
LEMMA TakeOldest ==
  ASSUME NEW S, NEW q \in Seq(S), q # << >>
  PROVE  /\ Len(q) \in Nat \ {0}
         /\ Head(q) = q[1]
         /\ q[1] \in S
         /\ Tail(q) \in Seq(S)
         /\ Len(Tail(q)) = Len(q) - 1
         /\ \A i \in 1 .. Len(q) - 1 : Tail(q)[i] = q[i + 1]
<1>1. Len(q) \in Nat \ {0}
  BY EmptySeq
<1>2. Head(q) = q[1]
  OBVIOUS
<1>3. QED
  BY <1>1, <1>2, HeadTailProperties

\* The tasks a call submits are tasks.
LEMMA CallTaskType == TypeOK => \A i \in Nat : CallTask(i) \in Task
  BY DEF TypeOK, CallTask, Task

-----------------------------------------------------------------------------
(* Types                                                                     *)

\* Types hold when the constructor begins.
LEMMA InitTypeOK == Init => TypeOK
<1> SUFFICES ASSUME Init PROVE TypeOK
  OBVIOUS
<1>1. << >> \in Seq(Task)
  BY EmptySeq
<1>2. NoTask \in Task
  BY DEF NoTask, Task
<1>3. 0 \in 0 .. NextQueueMod - 1
  BY PoolAssumption
<1>4. running \in BOOLEAN /\ spinWait \in BOOLEAN /\ hasWork \in BOOLEAN
  BY Zenon DEF Init
<1>5. /\ queues \in [Workers -> Seq(Task)]
      /\ wpc \in [Workers -> WorkerPCs]
      /\ task \in [Workers -> Task]
      /\ probe \in [Workers -> Nat \ {0}]
  BY <1>1, <1>2 DEF Init, WorkerPCs
<1>6. /\ numThreads = PoolSize /\ pending = 0 /\ nextQueue = 0 /\ pc = "constructing"
      /\ op = "none" /\ calls = 0 /\ count = 0 /\ next = 1 /\ issued = {} /\ ended = {}
  BY DEF Init
<1> QED
  BY <1>3, <1>4, <1>5, <1>6, PoolSizePositive DEF TypeOK, CallerPCs

\* One step of the caller keeps the types.
LEMMA CallerTypeOK == TypeOK /\ Caller => TypeOK'
<1> SUFFICES ASSUME TypeOK, Caller PROVE TypeOK'
  OBVIOUS
<1> USE DEF poolVars, callerVars, workerVars, history, CallerPCs, AllOps
<1>1. CASE CreateWorker
  BY <1>1 DEF CreateWorker, TypeOK, WorkerPCs
<1>2. CASE CreateWorkerFails
  <2>1. PICK w \in Unborn : numThreads' = w /\ pc' = IF w = 0 THEN "threw" ELSE "idle"
    BY <1>2 DEF CreateWorkerFails
  <2>2. w \in 0 .. PoolSize - 1
    BY DEF Unborn, Workers
  <2>3. numThreads' \in 0 .. PoolSize /\ pc' \in CallerPCs /\ (pc' # "threw" => numThreads' > 0)
    BY <2>1, <2>2, PoolSizePositive
  <2> QED
    BY <1>2, <2>3 DEF CreateWorkerFails, TypeOK
<1>3. CASE CallLoop
  <2>1. PICK Nz \in LoopSizes :
          /\ count' = IF NumRanges(Nz, numThreads) = 0 THEN 0 ELSE NumRanges(Nz, numThreads) - 1
          /\ pc' \in {"idle", "body", "count"}
    BY <1>3 DEF CallLoop, LoopOver
  <2>2. Nz \in Nat
    BY PoolAssumption
  <2>3. NumRanges(Nz, numThreads) \in Nat
    BY <2>2, PoolSizePositive DEF NumRanges, TypeOK
  <2>4. count' \in Nat
    BY <2>1, <2>3
  <2> QED
    BY <1>3, <2>1, <2>4 DEF CallLoop, LoopOver, CallerMayCall, TypeOK
<1>4. CASE CallSubmit
  BY <1>4 DEF CallSubmit, CallerMayCall, TypeOK
<1>5. CASE CallSubmitBatch
  <2>1. PICK n \in BatchSizes \ {0} :
          /\ count' = n
          /\ pending' = pending + n
          /\ issued' = issued \cup {[call |-> calls + 1, index |-> i, byRef |-> FALSE] : i \in 1 .. n}
    BY <1>5 DEF CallSubmitBatch
  <2>2. n \in Nat
    BY PoolAssumption
  <2>3. \A i \in 1 .. n : [call |-> calls + 1, index |-> i, byRef |-> FALSE] \in Task
    BY <2>2 DEF Task, TypeOK
  <2>4. issued' \subseteq Task /\ count' \in Nat /\ pending' \in Nat
    BY <2>1, <2>2, <2>3 DEF TypeOK
  <2> QED
    BY <1>5, <2>4 DEF CallSubmitBatch, CallerMayCall, TypeOK
<1>6. CASE CallWaitAll
  BY <1>6 DEF CallWaitAll, CallerMayCall, TypeOK
<1>7. CASE SetSpinWait
  <2>1. /\ pc = "idle"
        /\ spinWait' \in BOOLEAN
        /\ pc' \in {"idle", "signal"}
        /\ op' \in AllOps
        /\ calls' = calls + 1
    BY <1>7, Zenon DEF SetSpinWait, CallerMayCall
  <2>2. /\ count' = 0
        /\ next' = 1
        /\ UNCHANGED <<numThreads, queues, pending, running, hasWork, nextQueue, workerVars, history>>
    BY <1>7 DEF SetSpinWait
  <2> QED
    BY <2>1, <2>2 DEF TypeOK
<1>8. CASE SubmitCount
  <2>1. CallTask(next) \in Task
    BY CallTaskType DEF TypeOK
  <2> QED
    BY <1>8, <2>1 DEF SubmitCount, TypeOK
<1>9. CASE SubmitPush
  <2>1. CallTask(next) \in Task
    BY CallTaskType DEF TypeOK
  <2>2. nextQueue % numThreads \in Workers
    BY <1>9, ModRange, PoolSizePositive, PoolAssumption DEF SubmitPush, TypeOK, Workers
  <2>3. queues' \in [Workers -> Seq(Task)]
    BY <1>9, <2>1, <2>2 DEF SubmitPush, TypeOK
  <2>4. nextQueue' \in 0 .. NextQueueMod - 1
    BY <1>9, ModRange, PoolAssumption DEF SubmitPush, TypeOK
  <2> QED
    BY <1>9, <2>3, <2>4 DEF SubmitPush, TypeOK
<1>10. CASE Signal
  BY <1>10 DEF Signal, NotifyOne, NotifyAll, Asleep, TypeOK, WorkerPCs
<1>11. CASE LoopBodyReturns \/ LoopBodyThrows \/ WaitLock \/ WaitTest \/ WaitBlock \/ WaitSpuriousWake
  BY <1>11 DEF LoopBodyReturns, LoopBodyThrows, WaitLock, WaitTest, WaitBlock,
               WaitSpuriousWake, TypeOK
<1>12. CASE Destroy \/ DestroySignal \/ DestroyJoin
  BY <1>12 DEF Destroy, DestroySignal, DestroyJoin, TypeOK
<1>13. CASE DestroyNotify
  BY <1>13 DEF DestroyNotify, NotifyAll, Asleep, TypeOK, WorkerPCs
<1> QED
  BY <1>1, <1>2, <1>3, <1>4, <1>5, <1>6, <1>7, <1>8, <1>9, <1>10, <1>11, <1>12, <1>13
     DEF Caller, Construct, CallerBegins, CallerContinues

\* The victim of a steal has a queue.
LEMMA VictimType ==
  ASSUME TypeOK, NEW w \in Workers, probe[w] < numThreads
  PROVE  Victim(w) \in Workers
<1>1. w + probe[w] \in Nat /\ numThreads \in Nat /\ numThreads > 0 /\ numThreads <= PoolSize
  BY PoolSizePositive DEF TypeOK, Workers
<1> QED
  BY <1>1, ModRange, PoolSizePositive DEF Victim, Workers

\* One step of a worker keeps the types.  The decrement of pending_tasks_ is left
\* to the count invariant: here it is assumed not to underflow.
LEMMA WorkerTypeOK ==
  ASSUME TypeOK, NEW w \in Workers, Worker(w), wpc[w] = "retire" => pending > 0
  PROVE  TypeOK'
<1> USE DEF poolVars, callerVars, workerVars, history, Goto, WorkerPCs
<1>1. CASE TestRunning(w) \/ StealFails(w) \/ IdleWorker(w) \/ FallAsleep(w)
  BY <1>1 DEF TestRunning, StealFails, IdleWorker, FallAsleep, TypeOK
<1>2. CASE PopOwn(w)
  <2>1. queues[w] \in Seq(Task) /\ queues[w] # << >>
    BY <1>2 DEF PopOwn, TypeOK
  <2>2. queues[w][Len(queues[w])] \in Task /\ SubSeq(queues[w], 1, Len(queues[w]) - 1) \in Seq(Task)
    BY <2>1, TakeNewest
  <2> QED
    BY <1>2, <2>2 DEF PopOwn, TypeOK
<1>3. CASE Steal(w)
  <2>1. Victim(w) \in Workers
    BY <1>3, VictimType DEF Steal
  <2>2. queues[Victim(w)] \in Seq(Task) /\ queues[Victim(w)] # << >>
    BY <1>3, <2>1 DEF Steal, TypeOK
  <2>3. Head(queues[Victim(w)]) \in Task /\ Tail(queues[Victim(w)]) \in Seq(Task)
    BY <2>2, TakeOldest
  <2> QED
    BY <1>3, <2>1, <2>3 DEF Steal, TypeOK
<1>3a. CASE OwnQueueEmpty(w)
  BY <1>3a DEF OwnQueueEmpty, TypeOK
<1>3b. CASE VictimEmpty(w)
  <2>1. probe[w] + 1 \in Nat \ {0}
    BY DEF TypeOK
  <2> QED
    BY <1>3b, <2>1 DEF VictimEmpty, TypeOK
<1>4. CASE TaskEnds(w)
  BY <1>4 DEF TaskEnds, TypeOK
<1>5. CASE Retire(w)
  BY <1>5 DEF Retire, TypeOK
<1>6. CASE NotifyWaiter(w)
  BY <1>6 DEF NotifyWaiter, TypeOK, CallerPCs
<1>7. CASE WakeUp(w) \/ SleepTimeout(w)
  <2>1. hasWork' \in BOOLEAN
    BY <1>7, Zenon DEF WakeUp, SleepTimeout
  <2> QED
    BY <1>7, <2>1 DEF WakeUp, SleepTimeout, TypeOK
<1> QED
  BY <1>1, <1>2, <1>3, <1>3a, <1>3b, <1>4, <1>5, <1>6, <1>7 DEF Worker

-----------------------------------------------------------------------------
(* Queues as a whole: what a push, a pop and a steal do to the set of queued *)
(* tasks, and that the entries stay distinct.                                *)

\* A queued task is an entry at some index of some worker's queue, and the
\* other way round.
LEMMA EntriesMember ==
  ASSUME NEW Q \in [Workers -> Seq(Task)]
  PROVE  \A t : t \in Entries(Q) <=> \E w \in Workers : \E i \in 1 .. Len(Q[w]) : t = Q[w][i]
<1>1. \A w \in Workers : DOMAIN Q[w] = 1 .. Len(Q[w])
  BY LenProperties
<1> QED
  BY <1>1 DEF Entries, Range

\* The first half, for a given task.
LEMMA EntryOf ==
  ASSUME NEW Q \in [Workers -> Seq(Task)], NEW t \in Entries(Q)
  PROVE  \E w \in Workers : \E i \in 1 .. Len(Q[w]) : t = Q[w][i]
  BY EntriesMember

\* The second half, for a given index.
LEMMA IsEntry ==
  ASSUME NEW Q \in [Workers -> Seq(Task)], NEW w \in Workers, NEW i \in 1 .. Len(Q[w])
  PROVE  Q[w][i] \in Entries(Q)
  BY EntriesMember

\* push: one task more, and the entries stay distinct if it is a new one.
LEMMA AddEntry ==
  ASSUME NEW Q \in [Workers -> Seq(Task)], Distinct(Q),
         NEW v \in Workers, NEW e \in Task, e \notin Entries(Q),
         NEW R, R = [Q EXCEPT ![v] = Append(Q[v], e)]
  PROVE  /\ Entries(R) = Entries(Q) \cup {e}
         /\ Distinct(R)
<1>1. R \in [Workers -> Seq(Task)]
  OBVIOUS
<1>2. /\ Len(Q[v]) \in Nat
      /\ Len(R[v]) = Len(Q[v]) + 1
      /\ R[v][Len(Q[v]) + 1] = e
      /\ \A i \in 1 .. Len(Q[v]) : R[v][i] = Q[v][i]
      /\ \A w \in Workers \ {v} : R[w] = Q[w]
  OBVIOUS
<1>3. \A w \in Workers : Len(Q[w]) \in Nat
  OBVIOUS
<1>4. \A t : t \in Entries(R) <=> t \in Entries(Q) \/ t = e
  <2> TAKE t
  <2>1. ASSUME t \in Entries(R) PROVE t \in Entries(Q) \/ t = e
    <3>1. PICK w \in Workers : \E i \in 1 .. Len(R[w]) : t = R[w][i]
      BY <2>1, <1>1, EntryOf
    <3>2. PICK i \in 1 .. Len(R[w]) : t = R[w][i]
      BY <3>1, Zenon
    <3>3. t = e \/ (i \in 1 .. Len(Q[w]) /\ t = Q[w][i])
      BY <3>2, <1>2, <1>3
    <3> QED
      BY <3>3, EntriesMember, Zenon
  <2>2. ASSUME t \in Entries(Q) PROVE t \in Entries(R)
    <3>1. PICK w \in Workers : \E i \in 1 .. Len(Q[w]) : t = Q[w][i]
      BY <2>2, EntryOf
    <3>2. PICK i \in 1 .. Len(Q[w]) : t = Q[w][i]
      BY <3>1, Zenon
    <3>3. i \in 1 .. Len(R[w]) /\ t = R[w][i]
      BY <3>2, <1>2, <1>3
    <3> QED
      BY <3>3, <1>1, EntriesMember, Zenon
  <2>3. e \in Entries(R)
    <3>1. Len(Q[v]) + 1 \in 1 .. Len(R[v])
      BY <1>2
    <3> QED
      BY <3>1, <1>1, <1>2, EntriesMember
  <2> QED
    BY <2>1, <2>2, <2>3
<1>5. Distinct(R)
  <2> SUFFICES ASSUME NEW x \in Workers, NEW y \in Workers,
                      NEW i \in 1 .. Len(R[x]), NEW j \in 1 .. Len(R[y]),
                      R[x][i] = R[y][j]
               PROVE  x = y /\ i = j
    BY DEF Distinct
  <2>1. \A w \in Workers : \A k \in 1 .. Len(Q[w]) : Q[w][k] # e
    BY EntriesMember
  <2>2. \/ i \in 1 .. Len(Q[x]) /\ R[x][i] = Q[x][i]
        \/ x = v /\ i = Len(Q[v]) + 1 /\ R[x][i] = e
    BY <1>2, <1>3
  <2>3. \/ j \in 1 .. Len(Q[y]) /\ R[y][j] = Q[y][j]
        \/ y = v /\ j = Len(Q[v]) + 1 /\ R[y][j] = e
    BY <1>2, <1>3
  <2> QED
    BY <2>1, <2>2, <2>3 DEF Distinct
<1> QED
  BY <1>4, <1>5

\* R is Q without the k-th entry of queue v.
Removed(Q, R, v, k) ==
  /\ Len(R[v]) = Len(Q[v]) - 1
  /\ \A i \in 1 .. Len(R[v]) : R[v][i] = Q[v][IF i < k THEN i ELSE i + 1]
  /\ \A w \in Workers \ {v} : R[w] = Q[w]

\* Taking any entry out: its task is queued nowhere else.
LEMMA RemoveEntry ==
  ASSUME NEW Q \in [Workers -> Seq(Task)], Distinct(Q),
         NEW R \in [Workers -> Seq(Task)],
         NEW v \in Workers, NEW k \in 1 .. Len(Q[v]), Removed(Q, R, v, k)
  PROVE  /\ Q[v][k] \in Entries(Q)
         /\ Entries(R) = Entries(Q) \ {Q[v][k]}
         /\ Distinct(R)
<1> DEFINE at(w, i) == IF w = v /\ i >= k THEN i + 1 ELSE i
<1>1. R \in [Workers -> Seq(Task)] /\ k \in 1 .. Len(Q[v])
  OBVIOUS
<1>2. \A w \in Workers : Len(Q[w]) \in Nat /\ Len(R[w]) \in Nat
  BY <1>1
<1>3. /\ Len(R[v]) = Len(Q[v]) - 1
      /\ \A i \in 1 .. Len(R[v]) : R[v][i] = Q[v][IF i < k THEN i ELSE i + 1]
      /\ \A w \in Workers \ {v} : R[w] = Q[w]
  BY DEF Removed
<1>4. ASSUME NEW w \in Workers, NEW i \in 1 .. Len(R[w])
      PROVE  /\ at(w, i) \in 1 .. Len(Q[w])
             /\ R[w][i] = Q[w][at(w, i)]
             /\ w = v => at(w, i) # k
  <2>1. CASE w = v
    <3>1. i \in 1 .. Len(R[v]) /\ Len(R[v]) = Len(Q[v]) - 1 /\ Len(Q[v]) \in Nat
      BY <2>1, <1>2, <1>3
    <3>2. R[w][i] = Q[v][IF i < k THEN i ELSE i + 1]
      BY <3>1, <2>1, <1>3
    <3>3. k \in Nat /\ i \in Nat
      BY <3>1, <1>1
    <3> QED
      BY <3>1, <3>2, <3>3, <2>1
  <2>2. CASE w # v
    BY <2>2, <1>3
  <2> QED
    BY <2>1, <2>2
<1>5. ASSUME NEW w \in Workers, NEW m \in 1 .. Len(Q[w]), ~ (w = v /\ m = k)
      PROVE  \E i \in 1 .. Len(R[w]) : R[w][i] = Q[w][m]
  <2> DEFINE i == IF w = v /\ m > k THEN m - 1 ELSE m
  <2>1. i \in 1 .. Len(R[w])
    BY <1>5, <1>2, <1>3
  <2>2. at(w, i) = m
    BY <1>5, <1>2
  <2> HIDE DEF i, at
  <2> QED
    BY <2>1, <2>2, <1>4
<1>6. Q[v][k] \in Entries(Q)
  BY EntriesMember
<1>7. \A t : t \in Entries(R) <=> t \in Entries(Q) /\ t # Q[v][k]
  <2> TAKE t
  <2> HIDE DEF at
  <2>1. ASSUME t \in Entries(R) PROVE t \in Entries(Q) /\ t # Q[v][k]
    <3>1. PICK w \in Workers : \E i \in 1 .. Len(R[w]) : t = R[w][i]
      BY <2>1, <1>1, EntryOf
    <3>2. PICK i \in 1 .. Len(R[w]) : t = R[w][i]
      BY <3>1, Zenon
    <3>3. at(w, i) \in 1 .. Len(Q[w]) /\ t = Q[w][at(w, i)] /\ (w = v => at(w, i) # k)
      BY <3>2, <1>4, Zenon
    <3>4. t # Q[v][k]
      BY <3>3 DEF Distinct
    <3> QED
      BY <3>3, <3>4, EntriesMember, Zenon
  <2>2. ASSUME t \in Entries(Q), t # Q[v][k] PROVE t \in Entries(R)
    <3>1. PICK w \in Workers : \E m \in 1 .. Len(Q[w]) : t = Q[w][m]
      BY <2>2, EntryOf
    <3>2. PICK m \in 1 .. Len(Q[w]) : t = Q[w][m]
      BY <3>1, Zenon
    <3>3. ~ (w = v /\ m = k)
      BY <3>2, <2>2
    <3>4. \E i \in 1 .. Len(R[w]) : R[w][i] = t
      BY <3>2, <3>3, <1>5, Zenon
    <3> QED
      BY <3>4, <1>1, EntriesMember, Zenon
  <2> QED
    BY <2>1, <2>2, Zenon
<1>8. Distinct(R)
  <2> SUFFICES ASSUME NEW x \in Workers, NEW y \in Workers,
                      NEW i \in 1 .. Len(R[x]), NEW j \in 1 .. Len(R[y]),
                      R[x][i] = R[y][j]
               PROVE  x = y /\ i = j
    BY DEF Distinct
  <2>1. x = y /\ at(x, i) = at(y, j)
    <3> HIDE DEF at
    <3>1. at(x, i) \in 1 .. Len(Q[x]) /\ R[x][i] = Q[x][at(x, i)]
      BY <1>4
    <3>2. at(y, j) \in 1 .. Len(Q[y]) /\ R[y][j] = Q[y][at(y, j)]
      BY <1>4
    <3>3. Q[x][at(x, i)] = Q[y][at(y, j)]
      BY <3>1, <3>2
    <3>4. \A a \in 1 .. Len(Q[x]), b \in 1 .. Len(Q[y]) : Q[x][a] = Q[y][b] => x = y /\ a = b
      BY DEF Distinct
    <3> QED
      BY <3>1, <3>2, <3>3, <3>4
  <2>2. i \in Nat /\ j \in Nat /\ k \in Nat
    BY <1>2
  <2> QED
    BY <2>1, <2>2
<1> QED
  BY <1>6, <1>7, <1>8

\* pop takes out the newest entry.
LEMMA RemoveNewest ==
  ASSUME NEW Q \in [Workers -> Seq(Task)], Distinct(Q), NEW v \in Workers, Q[v] # << >>,
         NEW R \in [Workers -> Seq(Task)], R[v] = SubSeq(Q[v], 1, Len(Q[v]) - 1),
         \A w \in Workers \ {v} : R[w] = Q[w]
  PROVE  /\ Q[v][Len(Q[v])] \in Entries(Q)
         /\ Entries(R) = Entries(Q) \ {Q[v][Len(Q[v])]}
         /\ Distinct(R)
<1>1. /\ Len(Q[v]) \in Nat \ {0}
      /\ SubSeq(Q[v], 1, Len(Q[v]) - 1) \in Seq(Task)
      /\ Len(SubSeq(Q[v], 1, Len(Q[v]) - 1)) = Len(Q[v]) - 1
      /\ \A i \in 1 .. Len(Q[v]) - 1 : SubSeq(Q[v], 1, Len(Q[v]) - 1)[i] = Q[v][i]
  BY TakeNewest
<1>2. /\ R \in [Workers -> Seq(Task)]
      /\ R[v] = SubSeq(Q[v], 1, Len(Q[v]) - 1)
      /\ \A w \in Workers \ {v} : R[w] = Q[w]
  BY <1>1
<1>3. /\ Len(R[v]) = Len(Q[v]) - 1
      /\ \A i \in 1 .. Len(Q[v]) - 1 : R[v][i] = Q[v][i]
  BY <1>1, <1>2
<1>4. /\ Removed(Q, R, v, Len(Q[v]))
      /\ Len(Q[v]) \in 1 .. Len(Q[v])
  BY <1>1, <1>2, <1>3 DEF Removed
<1> QED
  BY <1>4, RemoveEntry

\* steal takes out the oldest entry.
LEMMA RemoveOldest ==
  ASSUME NEW Q \in [Workers -> Seq(Task)], Distinct(Q), NEW v \in Workers, Q[v] # << >>,
         NEW R \in [Workers -> Seq(Task)], R[v] = Tail(Q[v]),
         \A w \in Workers \ {v} : R[w] = Q[w]
  PROVE  /\ Head(Q[v]) \in Entries(Q)
         /\ Entries(R) = Entries(Q) \ {Head(Q[v])}
         /\ Distinct(R)
<1>1. /\ Len(Q[v]) \in Nat \ {0}
      /\ Head(Q[v]) = Q[v][1]
      /\ Tail(Q[v]) \in Seq(Task)
      /\ Len(Tail(Q[v])) = Len(Q[v]) - 1
      /\ \A i \in 1 .. Len(Q[v]) - 1 : Tail(Q[v])[i] = Q[v][i + 1]
  BY TakeOldest
<1>2. /\ R \in [Workers -> Seq(Task)]
      /\ R[v] = Tail(Q[v])
      /\ \A w \in Workers \ {v} : R[w] = Q[w]
  BY <1>1
<1>3. /\ Len(R[v]) = Len(Q[v]) - 1
      /\ \A i \in 1 .. Len(Q[v]) - 1 : R[v][i] = Q[v][i + 1]
  BY <1>1, <1>2
<1>4. /\ Removed(Q, R, v, 1)
      /\ 1 \in 1 .. Len(Q[v])
  BY <1>1, <1>2, <1>3 DEF Removed
<1>5. /\ Q[v][1] \in Entries(Q)
      /\ Entries(R) = Entries(Q) \ {Q[v][1]}
      /\ Distinct(R)
  BY <1>4, RemoveEntry
<1> QED
  BY <1>1, <1>5

-----------------------------------------------------------------------------
(* The places of a task.  One lemma for each way a step can move a task, then *)
(* one for each action that moves one; every other action moves none.         *)

\* Nothing moves: a step of the caller or of a worker that only changes where it
\* is, or begins a new call.
LEMMA NothingMoves ==
  ASSUME IInv,
         UNCHANGED <<queues, task, pending, issued, ended>>,
         \A w \in Workers : (wpc'[w] = "run" <=> wpc[w] = "run")
                            /\ (wpc'[w] = "retire" <=> wpc[w] = "retire"),
         ToPush' = ToPush,
         (calls' = calls /\ next' = next) \/ (calls' = calls + 1 /\ ToPush = {})
  PROVE  FreshInv' /\ PlaceInv' /\ EndedInv' /\ CountInv'
<1> USE DEF IInv
<1>1. Queued' = Queued
  BY DEF Queued, Entries
<1>2. Held' = Held
  BY DEF Held, Holding
<1>3. Unsettled' = Unsettled
  BY <1>1, <1>2 DEF Unsettled
<1>4. FreshInv'
  <2>1. \A t \in issued : t.call \in Nat /\ t.call <= calls
    BY DEF TypeOK, Task, FreshInv
  <2>2. calls \in Nat /\ Held \cup Queued \subseteq issued
    BY DEF TypeOK, FreshInv
  <2>3. CASE calls' = calls /\ next' = next
    BY <1>1, <1>2, <2>3 DEF FreshInv
  <2>4. CASE calls' = calls + 1
    <3>1. \A t \in issued : t.call # calls' /\ t.call <= calls'
      BY <2>1, <2>2, <2>4
    <3> QED
      BY <1>1, <1>2, <2>2, <3>1 DEF FreshInv
  <2> QED
    BY <2>3, <2>4
<1>5. PlaceInv'
  BY <1>1, <1>2 DEF PlaceInv, Holding, Distinct
<1>6. EndedInv'
  BY <1>1, <1>3 DEF EndedInv
<1>7. CountInv'
  BY <1>3 DEF CountInv, PendingExact
<1> QED
  BY <1>4, <1>5, <1>6, <1>7

\* Where a task is, it has been issued.
LEMMA UnsettledIssued == IInv => Unsettled \subseteq issued
  BY DEF IInv, FreshInv, Unsettled

\* New tasks are counted: none of them was issued before.
LEMMA TasksIssued ==
  ASSUME IInv, NEW B, B \cap issued = {}, IsFiniteSet(B),
         ToPush = {}, ToPush' = B,
         pending' = pending + Cardinality(B),
         issued' = issued \cup B,
         UNCHANGED <<queues, wpc, task, ended>>,
         \A t \in B : t.index > 0 /\ t.call = calls',
         (calls' = calls /\ next' = next) \/ calls' = calls + 1
  PROVE  FreshInv' /\ PlaceInv' /\ EndedInv' /\ CountInv'
<1> USE DEF IInv
<1>1. Queued' = Queued
  BY DEF Queued, Entries
<1>2. Held' = Held
  BY DEF Held, Holding
<1>3. Unsettled' = Unsettled \cup B /\ Unsettled \cap B = {}
  BY <1>1, <1>2, UnsettledIssued DEF Unsettled
<1>4. FreshInv'
  <2>1. \A t \in issued : t.call \in Nat /\ t.call <= calls
    BY DEF TypeOK, Task, FreshInv
  <2>2. calls \in Nat /\ Queued \cup Held \subseteq issued
    BY DEF TypeOK, FreshInv
  <2>3. \A t \in issued' : t.call <= calls' /\ t.index > 0
    BY <2>1, <2>2 DEF FreshInv
  <2>4. \A t \in issued : t.call = calls' => t.index < next'
    BY <2>1, <2>2 DEF FreshInv
  <2>5. \A t \in Queued \cup Held : t.call = calls' => t.index < next'
    BY <2>2, <2>4
  <2> QED
    BY <1>1, <1>2, <2>2, <2>3, <2>4, <2>5 DEF FreshInv
<1>5. PlaceInv'
  BY <1>1, <1>2 DEF PlaceInv, Holding, Distinct
<1>6. EndedInv'
  <2>1. \A t \in B : t \notin ended
    BY DEF FreshInv
  <2> QED
    BY <1>1, <1>3, <2>1 DEF EndedInv
<1>7. CountInv'
  <2>1. /\ IsFiniteSet(Unsettled \cup B)
        /\ Cardinality(Unsettled \cup B)
             = Cardinality(Unsettled) + Cardinality(B) - Cardinality(Unsettled \cap B)
    BY FS_Union DEF CountInv
  <2>2. Cardinality(Unsettled \cap B) = 0
    BY <1>3, FS_EmptySet
  <2>3. Cardinality(Unsettled) \in Nat /\ Cardinality(B) \in Nat
    BY FS_CardinalityType DEF CountInv
  <2> QED
    BY <1>3, <2>1, <2>2, <2>3 DEF CountInv, PendingExact
<1> QED
  BY <1>4, <1>5, <1>6, <1>7

\* The caller pushes the next task: it moves from ToPush to a queue.
LEMMA PushMoves == IInv /\ SubmitPush => FreshInv' /\ PlaceInv' /\ EndedInv' /\ CountInv'
<1> SUFFICES ASSUME IInv, SubmitPush PROVE FreshInv' /\ PlaceInv' /\ EndedInv' /\ CountInv'
  OBVIOUS
<1> USE DEF IInv, SubmitPush, workerVars, history
<1> DEFINE t == CallTask(next)
<1>1. /\ t \in Task /\ t.call = calls /\ t.index = next
      /\ next \in Nat /\ next <= count /\ count \in Nat
  BY CallTaskType DEF TypeOK, CallTask, ControlInv
<1>2. t \in ToPush /\ ToPush' = ToPush \ {t}
  <2>1. CASE op = "batch"
    <3>1. ToPush = {CallTask(i) : i \in next .. count}
      BY <2>1 DEF ToPush
    <3>2. ToPush' = {CallTask(i) : i \in next + 1 .. count}
      <4>1. CASE next < count
        BY <2>1, <4>1 DEF ToPush, CallTask
      <4>2. CASE ~ next < count
        BY <2>1, <4>2, <1>1 DEF ToPush
      <4> QED
        BY <4>1, <4>2
    <3>3. next .. count = (next + 1 .. count) \cup {next}
      BY <1>1
    <3>4. \A i \in next + 1 .. count : CallTask(i) # t
      BY <1>1 DEF CallTask
    <3> QED
      BY <3>1, <3>2, <3>3, <3>4
  <2>2. CASE op # "batch"
    BY <2>2 DEF ToPush
  <2> QED
    BY <2>1, <2>2
<1>3. t \in issued /\ t \notin ended /\ t \notin Queued /\ t \notin Held
  <2>1. t \in issued /\ t \notin ended
    BY <1>2 DEF FreshInv, EndedInv
  <2>2. \A u \in Queued \cup Held : u # t
    BY <1>1 DEF FreshInv
  <2> QED
    BY <2>1, <2>2
<1> HIDE DEF t
<1>4. Queued' = Queued \cup {t} /\ Distinct(queues')
  <2>1. nextQueue % numThreads \in Workers
    BY ModRange, PoolSizePositive DEF TypeOK, Workers
  <2>2. queues \in [Workers -> Seq(Task)] /\ Distinct(queues)
    BY DEF TypeOK, PlaceInv
  <2>3. queues' = [queues EXCEPT ![nextQueue % numThreads]
                                = Append(queues[nextQueue % numThreads], t)]
    BY DEF t
  <2>4. t \notin Entries(queues)
    BY <1>3 DEF Queued
  <2> HIDE DEF SubmitPush
  <2>5. Entries(queues') = Entries(queues) \cup {t} /\ Distinct(queues')
    BY <1>1, <2>1, <2>2, <2>3, <2>4, AddEntry
  <2> QED
    BY <2>5 DEF Queued
<1>5. Held' = Held
  BY DEF Held, Holding
<1>6. Unsettled' = Unsettled
  BY <1>2, <1>4, <1>5 DEF Unsettled
<1>7. FreshInv'
  <2>1. next' = next + 1 /\ UNCHANGED <<calls, issued, ended>>
    OBVIOUS
  <2>2. \A u \in issued : u.call \in Nat /\ u.index \in Nat
    BY DEF TypeOK, Task
  <2> HIDE DEF SubmitPush
  <2>3. \A u \in issued : u.call = calls => u \in ToPush' \/ u.index < next'
    BY <1>1, <1>2, <2>1, <2>2 DEF FreshInv
  <2>4. \A u \in Queued' \cup Held' : u \in issued /\ (u.call = calls => u.index < next')
    BY <1>1, <1>3, <1>4, <1>5, <2>1, <2>2 DEF FreshInv
  <2>5. ToPush' \subseteq issued
    BY <1>2 DEF FreshInv
  <2> QED
    BY <2>1, <2>3, <2>4, <2>5 DEF FreshInv
<1>8. PlaceInv'
  BY <1>3, <1>4, <1>5 DEF PlaceInv, Holding
<1>9. EndedInv'
  BY <1>2, <1>3, <1>4, <1>6 DEF EndedInv
<1>10. CountInv'
  BY <1>6 DEF CountInv, PendingExact
<1> QED
  BY <1>7, <1>8, <1>9, <1>10

\* A worker takes a task from a queue: it moves into the worker's hands.
LEMMA TaskTaken ==
  ASSUME IInv, NEW w \in Workers, ~ Holding(w), NEW t \in Queued,
         Queued' = Queued \ {t}, Distinct(queues'),
         task' = [task EXCEPT ![w] = t], wpc' = [wpc EXCEPT ![w] = "run"],
         UNCHANGED <<pending, callerVars, history>>
  PROVE  FreshInv' /\ PlaceInv' /\ EndedInv' /\ CountInv'
<1> USE DEF IInv, callerVars, history
<1>1. task \in [Workers -> Task] /\ wpc \in [Workers -> WorkerPCs]
  BY DEF TypeOK
<1>2. /\ Holding(w)' /\ task'[w] = t
      /\ \A v \in Workers \ {w} : task'[v] = task[v] /\ wpc'[v] = wpc[v]
      /\ \A v \in Workers \ {w} : Holding(v)' <=> Holding(v)
  BY <1>1 DEF Holding
<1>3. Held' = Held \cup {t}
  <2>1. \A u : u \in Held' <=> \E v \in Workers : Holding(v)' /\ u = task'[v]
    BY DEF Held
  <2>2. \A u : u \in Held <=> \E v \in Workers : Holding(v) /\ u = task[v]
    BY DEF Held
  <2> QED
    BY <1>2, <2>1, <2>2
<1>4. ToPush' = ToPush
  BY DEF ToPush, CallTask
<1>5. Unsettled' = Unsettled
  BY <1>3, <1>4 DEF Unsettled
<1>6. FreshInv'
  BY <1>3, <1>4 DEF FreshInv
<1>7. PlaceInv'
  <2>1. Held' \cap Queued' = {}
    BY <1>3 DEF PlaceInv
  <2>2. \A v \in Workers : Holding(v) => task[v] # t
    BY DEF PlaceInv, Held
  <2>3. \A u, v \in Workers : u # v /\ Holding(u)' /\ Holding(v)' => task'[u] # task'[v]
    BY <1>2, <2>2 DEF PlaceInv
  <2> QED
    BY <2>1, <2>3 DEF PlaceInv
<1>8. EndedInv'
  <2>1. \A u \in ToPush' \cup Queued' : u \notin ended
    BY <1>4 DEF EndedInv
  <2>2. wpc'[w] = "run" /\ t \notin ended
    BY <1>1 DEF EndedInv
  <2> QED
    BY <1>2, <1>5, <2>1, <2>2 DEF EndedInv
<1>9. CountInv'
  BY <1>5 DEF CountInv, PendingExact
<1> QED
  BY <1>6, <1>7, <1>8, <1>9

\* A body ends: its task has now ended, and stays in the worker's hands.
LEMMA TaskEndsMoves ==
  ASSUME IInv, NEW w \in Workers, TaskEnds(w)
  PROVE  FreshInv' /\ PlaceInv' /\ EndedInv' /\ CountInv'
<1> USE DEF IInv, TaskEnds, Goto, poolVars, callerVars
<1>1. wpc \in [Workers -> WorkerPCs] /\ wpc[w] = "run"
  BY DEF TypeOK
<1>2. /\ wpc'[w] = "retire"
      /\ \A v \in Workers \ {w} : wpc'[v] = wpc[v]
      /\ \A v \in Workers : Holding(v)' <=> Holding(v)
  BY <1>1 DEF Holding
<1>3. Held' = Held /\ Queued' = Queued /\ ToPush' = ToPush
  BY <1>2 DEF Held, Queued, Entries, ToPush, CallTask
<1>4. Unsettled' = Unsettled
  BY <1>3 DEF Unsettled
<1>5. task[w] \in Held /\ task[w] \in issued
  BY <1>1 DEF Held, Holding, FreshInv
<1>6. task[w] \notin Queued /\ task[w] \notin ToPush
  <2>2. task[w] \notin Queued
    BY <1>5 DEF PlaceInv
  <2>3. \A t \in ToPush : t.call = calls /\ t.index >= next /\ next \in Nat /\ t.index \in Nat
    BY DEF ToPush, CallTask, TypeOK
  <2>4. task[w].call = calls => task[w].index < next
    BY <1>5 DEF FreshInv
  <2> QED
    BY <2>2, <2>3, <2>4
<1>7. FreshInv'
  BY <1>3, <1>5 DEF FreshInv
<1>8. PlaceInv'
  BY <1>2, <1>3 DEF PlaceInv, Distinct
<1>9. EndedInv'
  <2>1. \A v \in Workers \ {w} : wpc[v] = "run" => task[v] # task[w]
    BY <1>1 DEF PlaceInv, Holding
  <2>2. \A t \in ToPush' \cup Queued' : t \notin ended'
    BY <1>3, <1>6 DEF EndedInv
  <2>3. \A v \in Workers : wpc'[v] = "run" => task'[v] \notin ended'
    BY <1>2, <2>1 DEF EndedInv
  <2>4. \A v \in Workers : wpc'[v] = "retire" => task'[v] \in ended'
    BY <1>2 DEF EndedInv
  <2>5. issued' \ ended' \subseteq Unsettled'
    BY <1>4 DEF EndedInv
  <2> QED
    BY <2>2, <2>3, <2>4, <2>5 DEF EndedInv
<1>10. CountInv'
  BY <1>4 DEF CountInv, PendingExact
<1> QED
  BY <1>7, <1>8, <1>9, <1>10

\* A worker that retires a task holds one that pending_tasks_ still counts.
LEMMA RetireCounted ==
  ASSUME IInv, NEW w \in Workers, wpc[w] = "retire"
  PROVE  task[w] \in Unsettled /\ pending > 0
<1>1. task[w] \in Unsettled
  BY DEF Unsettled, Held, Holding
<1>2. IsFiniteSet(Unsettled) /\ pending = Cardinality(Unsettled) /\ pending \in Nat
  BY DEF IInv, CountInv, PendingExact, TypeOK
<1>3. pending # 0
  BY <1>1, <1>2, FS_EmptySet
<1> QED
  BY <1>1, <1>2, <1>3

\* The count goes down, and the task is nowhere any more.
LEMMA RetireMoves ==
  ASSUME IInv, NEW w \in Workers, Retire(w)
  PROVE  FreshInv' /\ PlaceInv' /\ EndedInv' /\ CountInv'
<1> USE DEF IInv, Retire, Goto, callerVars, history
<1>1. wpc \in [Workers -> WorkerPCs] /\ wpc[w] = "retire"
  BY DEF TypeOK
<1>2. /\ wpc'[w] \in {"notify", "top"}
      /\ \A v \in Workers \ {w} : wpc'[v] = wpc[v]
      /\ Holding(w) /\ ~ Holding(w)'
      /\ \A v \in Workers \ {w} : Holding(v)' <=> Holding(v)
  BY <1>1 DEF Holding
<1>3. Queued' = Queued /\ ToPush' = ToPush
  BY DEF Queued, Entries, ToPush, CallTask
<1>4. task[w] \in Held /\ Held' = Held \ {task[w]}
  <2>1. \A u : u \in Held' <=> \E v \in Workers : Holding(v)' /\ u = task[v]
    BY DEF Held
  <2>2. \A u : u \in Held <=> \E v \in Workers : Holding(v) /\ u = task[v]
    BY DEF Held
  <2>3. \A v \in Workers \ {w} : Holding(v) => task[v] # task[w]
    BY <1>2 DEF PlaceInv
  <2> QED
    BY <1>2, <2>1, <2>2, <2>3
<1>5. task[w] \in ended
  BY <1>1 DEF EndedInv
<1>6. Unsettled' = Unsettled \ {task[w]} /\ task[w] \in Unsettled
  BY <1>3, <1>4, <1>5 DEF Unsettled, EndedInv
<1>7. FreshInv'
  BY <1>3, <1>4 DEF FreshInv
<1>8. PlaceInv'
  BY <1>2, <1>3, <1>4 DEF PlaceInv, Distinct
<1>9. EndedInv'
  BY <1>2, <1>3, <1>5, <1>6 DEF EndedInv
<1>10. CountInv'
  <2>1. /\ IsFiniteSet(Unsettled \ {task[w]})
        /\ Cardinality(Unsettled \ {task[w]}) = Cardinality(Unsettled) - 1
    BY <1>6, FS_RemoveElement DEF CountInv
  <2> QED
    BY <1>6, <2>1 DEF CountInv, PendingExact
<1> QED
  BY <1>7, <1>8, <1>9, <1>10

-----------------------------------------------------------------------------
(* Every step keeps the invariant                                            *)

\* The caller's program counter and operation stay in step: nothing but the
\* destructor clears running_, and a wait is entered only by a call that joins.
LEMMA CallerControl == IInv /\ Caller => ControlInv'
<1> SUFFICES ASSUME IInv, Caller PROVE ControlInv'
  OBVIOUS
<1> USE DEF poolVars, callerVars, workerVars, history, JoinPCs, Joined
<1>0. /\ ControlInv
      /\ count \in Nat /\ next \in Nat \ {0}
  BY DEF IInv, TypeOK
<1>1. CASE CreateWorker \/ CreateWorkerFails
  <2>1. /\ pc = "constructing" /\ pc' \in {"constructing", "idle", "threw"}
        /\ UNCHANGED <<running, op, count, next>>
    BY <1>1 DEF CreateWorker, CreateWorkerFails
  <2> QED
    BY <1>0, <2>1, Zenon DEF ControlInv
<1>2. CASE CallLoop
  <2>1. PICK n : /\ count' = IF n = 0 THEN 0 ELSE n - 1
                 /\ pc' = IF n = 0 THEN "idle" ELSE IF n = 1 THEN "body" ELSE "count"
                 /\ n \in Nat
    <3>1. PICK Nz \in LoopSizes :
            LET n == NumRanges(Nz, numThreads) IN
            /\ count' = IF n = 0 THEN 0 ELSE n - 1
            /\ pc' = IF n = 0 THEN "idle" ELSE IF n = 1 THEN "body" ELSE "count"
      BY <1>2 DEF CallLoop, LoopOver
    <3>2. NumRanges(Nz, numThreads) \in Nat
      BY PoolAssumption, PoolSizePositive DEF NumRanges, IInv, TypeOK
    <3> QED
      BY <3>1, <3>2
  <2>2. pc = "idle" /\ op' = "loop" /\ next' = 1 /\ running' = running
    BY <1>2 DEF CallLoop, LoopOver, CallerMayCall
  <2>3. \/ pc' = "idle"
        \/ pc' = "body" /\ next' = 1
        \/ pc' = "count" /\ next' <= count'
    BY <2>1, <2>2
  <2>4. running
    BY <1>0, <2>2 DEF ControlInv
  <2> QED
    BY <2>2, <2>3, <2>4 DEF ControlInv
<1>3. CASE CallSubmit \/ CallSubmitBatch \/ CallWaitAll \/ SetSpinWait
  <2>1. pc = "idle" /\ running' = running /\ running
    <3>1. pc = "idle" /\ running' = running
      BY <1>3 DEF CallSubmit, CallSubmitBatch, CallWaitAll, SetSpinWait, CallerMayCall
    <3> QED
      BY <1>0, <3>1 DEF ControlInv
  <2>2. \/ op' = "submit" /\ pc' = "count" /\ next' = 1 /\ count' = 1
        \/ op' = "batch" /\ pc' = "push" /\ next' = 1 /\ count' \in BatchSizes \ {0}
        \/ op' = "wait" /\ pc' = "wait_lock"
        \/ op' = "spin" /\ pc' = "idle"
        \/ op' = "sleep" /\ pc' = "signal"
    <3>1. CASE CallSubmit
      BY <3>1, Zenon DEF CallSubmit, CallerMayCall
    <3>2. CASE CallSubmitBatch
      BY <3>2, Zenon DEF CallSubmitBatch, CallerMayCall
    <3>3. CASE CallWaitAll
      BY <3>3, Zenon DEF CallWaitAll, CallerMayCall
    <3>4. CASE SetSpinWait
      BY <3>4, Zenon DEF SetSpinWait, CallerMayCall
    <3> QED
      BY <1>3, <3>1, <3>2, <3>3, <3>4, Zenon
  <2>3. pc' = "push" => next' <= count'
    <3>1. \A n \in BatchSizes \ {0} : 1 <= n
      BY PoolAssumption
    <3> QED
      BY <2>2, <3>1
  <2>4. pc' = "count" => next' <= count'
    BY <2>2
  <2> QED
    BY <2>1, <2>2, <2>3, <2>4 DEF ControlInv
<1>4. CASE SubmitCount
  BY <1>0, <1>4 DEF SubmitCount, ControlInv
<1>5. CASE SubmitPush
  BY <1>0, <1>5 DEF SubmitPush, ControlInv
<1>6. CASE Signal
  BY <1>0, <1>6 DEF Signal, ControlInv
<1>7. CASE LoopBodyReturns \/ LoopBodyThrows \/ WaitLock \/ WaitTest \/ WaitBlock \/ WaitSpuriousWake
  BY <1>0, <1>7 DEF LoopBodyReturns, LoopBodyThrows, WaitLock, WaitTest, WaitBlock,
                    WaitSpuriousWake, ControlInv
<1>8. CASE Destroy \/ DestroySignal \/ DestroyNotify \/ DestroyJoin
  BY <1>0, <1>8 DEF Destroy, DestroySignal, DestroyNotify, DestroyJoin, ControlInv
<1> QED
  BY <1>1, <1>2, <1>3, <1>4, <1>5, <1>6, <1>7, <1>8
     DEF Caller, Construct, CallerBegins, CallerContinues

\* A worker moves the caller only from blocked to wait_lock.
LEMMA WorkerControl ==
  ASSUME IInv, NEW w \in Workers, Worker(w)
  PROVE  ControlInv'
<1> USE DEF poolVars, callerVars, history, JoinPCs, Joined
<1>1. ControlInv
  BY DEF IInv
<1>2. CASE UNCHANGED <<running, pc, op, count, next>>
  BY <1>1, <1>2 DEF ControlInv
<1>3. CASE NotifyWaiter(w)
  BY <1>1, <1>3 DEF NotifyWaiter, ControlInv
<1>4. NotifyWaiter(w) \/ UNCHANGED <<running, pc, op, count, next>>
  BY DEF Worker, TestRunning, PopOwn, OwnQueueEmpty, Steal, VictimEmpty, StealFails, TaskEnds,
         Retire, IdleWorker, WakeUp, FallAsleep, SleepTimeout
<1> QED
  BY <1>2, <1>3, <1>4

\* The steps of the caller that move no task.
LEMMA CallerQuiet ==
  ASSUME IInv,
         \/ CreateWorker \/ CreateWorkerFails
         \/ CallLoop \/ CallSubmit \/ CallWaitAll \/ SetSpinWait
         \/ Signal \/ LoopBodyReturns \/ LoopBodyThrows
         \/ WaitLock \/ WaitTest \/ WaitBlock \/ WaitSpuriousWake
         \/ Destroy \/ DestroySignal \/ DestroyNotify \/ DestroyJoin
  PROVE  FreshInv' /\ PlaceInv' /\ EndedInv' /\ CountInv'
<1> USE DEF poolVars, callerVars, workerVars, history
<1>1. UNCHANGED <<queues, task, pending, issued, ended>>
  BY DEF CreateWorker, CreateWorkerFails, CallLoop, LoopOver, CallSubmit, CallWaitAll, SetSpinWait,
         Signal, LoopBodyReturns, LoopBodyThrows, WaitLock, WaitTest, WaitBlock,
         WaitSpuriousWake, Destroy, DestroySignal, DestroyNotify, DestroyJoin
<1>2. pc # "push" /\ pc' # "push"
  <2>1. CASE CallLoop
    BY <2>1 DEF CallLoop, LoopOver, CallerMayCall
  <2>2. CASE SetSpinWait
    BY <2>2 DEF SetSpinWait, CallerMayCall
  <2>3. CASE CreateWorker \/ CreateWorkerFails
    BY <2>3 DEF CreateWorker, CreateWorkerFails
  <2>4. CASE Signal \/ LoopBodyReturns \/ LoopBodyThrows
    BY <2>4 DEF Signal, LoopBodyReturns, LoopBodyThrows
  <2>5. CASE WaitLock \/ WaitTest \/ WaitBlock \/ WaitSpuriousWake
    BY <2>5 DEF WaitLock, WaitTest, WaitBlock, WaitSpuriousWake
  <2> QED
    BY <2>1, <2>2, <2>3, <2>4, <2>5
       DEF CallSubmit, CallWaitAll, CallerMayCall, Destroy, DestroySignal, DestroyNotify, DestroyJoin
<1>3. ToPush = {} /\ ToPush' = {}
  BY <1>2 DEF ToPush
<1>4. (calls' = calls /\ next' = next) \/ calls' = calls + 1
  BY DEF CreateWorker, CreateWorkerFails, CallLoop, LoopOver, CallSubmit, CallWaitAll, SetSpinWait,
         CallerMayCall, Signal, LoopBodyReturns, LoopBodyThrows, WaitLock, WaitTest, WaitBlock,
         WaitSpuriousWake, Destroy, DestroySignal, DestroyNotify, DestroyJoin
<1>5. \A w \in Workers : (wpc'[w] = "run" <=> wpc[w] = "run")
                         /\ (wpc'[w] = "retire" <=> wpc[w] = "retire")
  <2> DEFINE same == \A w \in Workers : (wpc'[w] = "run" <=> wpc[w] = "run")
                                        /\ (wpc'[w] = "retire" <=> wpc[w] = "retire")
  <2>0. wpc \in [Workers -> WorkerPCs]
    BY DEF IInv, TypeOK
  <2>1. CASE CreateWorker
    BY <2>0, <2>1 DEF CreateWorker, Unborn
  <2>2. CASE Signal
    BY <2>0, <2>2 DEF Signal, NotifyOne, NotifyAll, Asleep
  <2>3. CASE DestroyNotify
    BY <2>0, <2>3 DEF DestroyNotify, NotifyAll, Asleep
  <2>4. CASE UNCHANGED wpc
    BY <2>4
  <2> HIDE DEF same
  <2> QED
    BY <2>1, <2>2, <2>3, <2>4
       DEF CreateWorkerFails, CallLoop, LoopOver, CallSubmit, CallWaitAll, SetSpinWait,
           LoopBodyReturns, LoopBodyThrows, WaitLock, WaitTest, WaitBlock, WaitSpuriousWake,
           Destroy, DestroySignal, DestroyJoin
<1> QED
  BY <1>1, <1>3, <1>4, <1>5, NothingMoves

\* A task is counted by submit, or by parallel_for_z for each range.
LEMMA SubmitMoves == IInv /\ SubmitCount => FreshInv' /\ PlaceInv' /\ EndedInv' /\ CountInv'
<1> SUFFICES ASSUME IInv, SubmitCount PROVE FreshInv' /\ PlaceInv' /\ EndedInv' /\ CountInv'
  OBVIOUS
<1> USE DEF SubmitCount, workerVars
<1> DEFINE B == {CallTask(next)}
<1>1. IsFiniteSet(B) /\ Cardinality(B) = 1
  BY FS_Singleton
<1>2. ToPush = {} /\ ToPush' = B
  BY DEF ToPush, CallTask, IInv, ControlInv
<1>3. \A t \in B : t.index > 0 /\ t.index = next /\ t.call = calls' /\ next \in Nat
  BY DEF IInv, TypeOK, CallTask
<1>4. B \cap issued = {}
  BY <1>2, <1>3 DEF IInv, FreshInv
<1> QED
  BY <1>1, <1>2, <1>3, <1>4, TasksIssued

\* A vector of n tasks is counted at once.
LEMMA BatchMoves == IInv /\ CallSubmitBatch => FreshInv' /\ PlaceInv' /\ EndedInv' /\ CountInv'
<1> SUFFICES ASSUME IInv, CallSubmitBatch PROVE FreshInv' /\ PlaceInv' /\ EndedInv' /\ CountInv'
  OBVIOUS
<1> USE DEF CallSubmitBatch, CallerMayCall, workerVars
<1>1. PICK n \in BatchSizes \ {0} :
        /\ count' = n
        /\ pending' = pending + n
        /\ issued' = issued \cup {[call |-> calls + 1, index |-> i, byRef |-> FALSE] : i \in 1 .. n}
  OBVIOUS
<1> DEFINE new(i) == [call |-> calls + 1, index |-> i, byRef |-> FALSE]
           B == {new(i) : i \in 1 .. n}
<1>2. n \in Nat /\ calls \in Nat
  BY PoolAssumption DEF IInv, TypeOK
<1>3. IsFiniteSet(B) /\ Cardinality(B) = n
  <2> DEFINE f == [i \in 1 .. n |-> new(i)]
  <2>1. f \in Bijection(1 .. n, B)
    <3>1. f \in [1 .. n -> B] /\ \A t \in B : \E i \in 1 .. n : f[i] = t
      OBVIOUS
    <3>2. \A i, j \in 1 .. n : f[i] = f[j] => i = j
      OBVIOUS
    <3> QED
      BY <3>1, <3>2 DEF Bijection, Injection, Surjection, IsInjective
  <2>2. ExistsBijection(1 .. n, B)
    BY <2>1 DEF ExistsBijection
  <2>3. IsFiniteSet(1 .. n) /\ Cardinality(1 .. n) = n
    BY <1>2, FS_Interval
  <2> HIDE DEF B
  <2> QED
    BY <2>2, <2>3, FS_Bijection
<1>4. ToPush = {} /\ ToPush' = B
  BY <1>1 DEF ToPush, CallTask
<1>5. \A t \in B : t.index > 0 /\ t.call = calls' /\ t.call > calls
  BY <1>2
<1>6. B \cap issued = {}
  BY <1>2, <1>5 DEF IInv, FreshInv
<1>7. calls' = calls + 1 /\ UNCHANGED <<queues, wpc, task, ended>>
  OBVIOUS
<1> HIDE DEF B, CallSubmitBatch
<1> QED
  BY <1>1, <1>3, <1>4, <1>5, <1>6, <1>7, TasksIssued DEF B

\* A worker's pop and steal.
LEMMA PopMoves ==
  ASSUME IInv, NEW w \in Workers, PopOwn(w)
  PROVE  FreshInv' /\ PlaceInv' /\ EndedInv' /\ CountInv'
<1> DEFINE t == queues[w][Len(queues[w])]
<1>1. queues \in [Workers -> Seq(Task)] /\ Distinct(queues) /\ queues[w] # << >> /\ ~ Holding(w)
  BY DEF IInv, TypeOK, PlaceInv, PopOwn, Holding
<1>2. /\ queues' = [queues EXCEPT ![w] = SubSeq(queues[w], 1, Len(queues[w]) - 1)]
      /\ task' = [task EXCEPT ![w] = t] /\ wpc' = [wpc EXCEPT ![w] = "run"]
      /\ UNCHANGED <<pending, callerVars, history>>
  BY DEF PopOwn, Goto
<1>3. SubSeq(queues[w], 1, Len(queues[w]) - 1) \in Seq(Task)
  BY <1>1, TakeNewest
<1>4. /\ queues' \in [Workers -> Seq(Task)]
      /\ queues'[w] = SubSeq(queues[w], 1, Len(queues[w]) - 1)
      /\ \A v \in Workers \ {w} : queues'[v] = queues[v]
  BY <1>1, <1>2, <1>3
<1>5. t \in Queued /\ Queued' = Queued \ {t} /\ Distinct(queues')
  BY <1>1, <1>4, RemoveNewest DEF Queued
<1> HIDE DEF t
<1> QED
  BY <1>1, <1>2, <1>5, TaskTaken

\* steal moves a task from the victim's queue to the thief.
LEMMA StealMoves ==
  ASSUME IInv, NEW w \in Workers, Steal(w)
  PROVE  FreshInv' /\ PlaceInv' /\ EndedInv' /\ CountInv'
<1> DEFINE v == Victim(w)
           t == Head(queues[v])
<1>1. /\ queues \in [Workers -> Seq(Task)] /\ Distinct(queues)
      /\ v \in Workers /\ queues[v] # << >> /\ ~ Holding(w)
  BY VictimType DEF IInv, TypeOK, PlaceInv, Steal, Holding
<1>2. /\ queues' = [queues EXCEPT ![v] = Tail(queues[v])]
      /\ task' = [task EXCEPT ![w] = t] /\ wpc' = [wpc EXCEPT ![w] = "run"]
      /\ UNCHANGED <<pending, callerVars, history>>
  BY DEF Steal, Goto
<1> HIDE DEF v
<1>3. Tail(queues[v]) \in Seq(Task)
  BY <1>1, TakeOldest
<1>4. /\ queues' \in [Workers -> Seq(Task)]
      /\ queues'[v] = Tail(queues[v])
      /\ \A u \in Workers \ {v} : queues'[u] = queues[u]
  BY <1>1, <1>2, <1>3
<1>5. t \in Queued /\ Queued' = Queued \ {t} /\ Distinct(queues')
  BY <1>1, <1>4, RemoveOldest DEF Queued
<1> HIDE DEF t
<1> QED
  BY <1>1, <1>2, <1>5, TaskTaken

\* The steps of a worker that move no task.
LEMMA WorkerQuiet ==
  ASSUME IInv, NEW w \in Workers,
         \/ TestRunning(w) \/ OwnQueueEmpty(w) \/ VictimEmpty(w) \/ StealFails(w)
         \/ NotifyWaiter(w) \/ IdleWorker(w) \/ WakeUp(w) \/ FallAsleep(w) \/ SleepTimeout(w)
  PROVE  FreshInv' /\ PlaceInv' /\ EndedInv' /\ CountInv'
<1> USE DEF poolVars, callerVars, history, Goto
<1>1. UNCHANGED <<queues, task, pending, issued, ended, op, calls, count, next>>
  BY DEF TestRunning, OwnQueueEmpty, VictimEmpty, StealFails, NotifyWaiter, IdleWorker,
         WakeUp, FallAsleep, SleepTimeout
<1>2. pc' = pc \/ (pc # "push" /\ pc' # "push")
  BY DEF TestRunning, OwnQueueEmpty, VictimEmpty, StealFails, NotifyWaiter, IdleWorker,
         WakeUp, FallAsleep, SleepTimeout
<1>3. ToPush' = ToPush
  BY <1>1, <1>2 DEF ToPush, CallTask
<1>4. wpc \in [Workers -> WorkerPCs]
  BY DEF IInv, TypeOK
<1>5. wpc' = wpc \/ \E l \in WorkerPCs : /\ wpc' = [wpc EXCEPT ![w] = l]
                                         /\ {l, wpc[w]} \cap {"run", "retire"} = {}
  BY DEF TestRunning, OwnQueueEmpty, VictimEmpty, StealFails, NotifyWaiter, IdleWorker,
         WakeUp, FallAsleep, SleepTimeout, WorkerPCs
<1>6. \A v \in Workers : (wpc'[v] = "run" <=> wpc[v] = "run")
                         /\ (wpc'[v] = "retire" <=> wpc[v] = "retire")
  BY <1>4, <1>5
<1> QED
  BY <1>1, <1>3, <1>6, NothingMoves

\* The invariant is inductive.
LEMMA InvInit == Init => IInv
<1> SUFFICES ASSUME Init PROVE IInv
  OBVIOUS
<1>1. TypeOK
  BY InitTypeOK
<1>2. ControlInv
  <2>1. pc = "constructing" /\ op = "none" /\ running = TRUE
    BY DEF Init
  <2> QED
    BY <2>1 DEF ControlInv, JoinPCs
<1>3. Queued = {} /\ Held = {} /\ ToPush = {} /\ Unsettled = {}
  <2>1. \A w \in Workers : Len(queues[w]) = 0
    BY DEF Init
  <2>2. Entries(queues) = {}
    BY <1>1, <2>1, EntriesMember DEF TypeOK
  <2> QED
    BY <2>2 DEF Init, Queued, Held, Holding, ToPush, Unsettled
<1>4. FreshInv /\ PlaceInv /\ EndedInv
  BY <1>3 DEF Init, FreshInv, PlaceInv, Distinct, Holding, EndedInv
<1>5. CountInv
  BY <1>3, FS_EmptySet DEF Init, CountInv, PendingExact
<1> QED
  BY <1>1, <1>2, <1>4, <1>5 DEF IInv

\* Every step of the caller and of a worker keeps the invariant.
LEMMA InvNext == IInv /\ [Next]_vars => IInv'
<1> SUFFICES ASSUME IInv, [Next]_vars PROVE IInv'
  OBVIOUS
<1>1. CASE Caller
  <2>1. TypeOK'
    BY <1>1, CallerTypeOK DEF IInv
  <2>2. ControlInv'
    BY <1>1, CallerControl
  <2>3. FreshInv' /\ PlaceInv' /\ EndedInv' /\ CountInv'
    BY <1>1, CallerQuiet, SubmitMoves, BatchMoves, PushMoves
       DEF Caller, Construct, CallerBegins, CallerContinues
  <2> QED
    BY <2>1, <2>2, <2>3 DEF IInv
<1>2. ASSUME NEW w \in Workers, Worker(w) PROVE IInv'
  <2>1. TypeOK'
    BY <1>2, WorkerTypeOK, RetireCounted DEF IInv
  <2>2. ControlInv'
    BY <1>2, WorkerControl
  <2>3. FreshInv' /\ PlaceInv' /\ EndedInv' /\ CountInv'
    BY <1>2, WorkerQuiet, PopMoves, StealMoves, TaskEndsMoves, RetireMoves DEF Worker
  <2> QED
    BY <2>1, <2>2, <2>3 DEF IInv
<1>3. CASE UNCHANGED vars
  <2>1. TypeOK' /\ ControlInv'
    BY <1>3 DEF IInv, vars, poolVars, callerVars, workerVars, history, TypeOK, ControlInv, Joined
  <2>2. UNCHANGED <<queues, task, pending, issued, ended, wpc, pc, op, calls, count, next>>
    BY <1>3 DEF vars, poolVars, callerVars, workerVars, history
  <2>3. ToPush' = ToPush
    BY <2>2 DEF ToPush, CallTask
  <2>4. FreshInv' /\ PlaceInv' /\ EndedInv' /\ CountInv'
    BY <2>2, <2>3, NothingMoves
  <2> QED
    BY <2>1, <2>4 DEF IInv
<1> QED
  BY <1>1, <1>2, <1>3 DEF Next, Finished

\* The invariant that the safety properties rest on, in every reachable state.
THEOREM InvariantHolds == Spec => []IInv
  BY InvInit, InvNext, PTL DEF Spec

-----------------------------------------------------------------------------
(* The theorems                                                              *)

\* Every member keeps its type: pending_tasks_ (a size_t) never goes below zero,
\* and once the constructor has returned num_threads_ is at least one, so that
\* the queue index computed by submit and try_steal_work names a queue.
THEOREM TypesHold == Spec => []TypeOK
<1>1. IInv => TypeOK
  BY DEF IInv
<1> QED
  BY <1>1, InvariantHolds, PTL

\* pending_tasks_ is exactly the number of tasks submitted and not retired.
THEOREM PendingIsExact == Spec => []PendingExact
<1>1. IInv => PendingExact
  BY DEF IInv, CountInv
<1> QED
  BY <1>1, InvariantHolds, PTL

\* pop and steal never hand out a task twice.
THEOREM TasksRunAtMostOnce == Spec => []RunsAtMostOnce
<1>1. IInv => RunsAtMostOnce
  BY DEF IInv, EndedInv, PlaceInv, RunsAtMostOnce
<1> QED
  BY <1>1, InvariantHolds, PTL

\* A count of zero means that every task issued so far has ended.
LEMMA ZeroMeansEnded == IInv /\ pending = 0 => Unsettled = {} /\ issued \subseteq ended
<1> SUFFICES ASSUME IInv, pending = 0 PROVE Unsettled = {} /\ issued \subseteq ended
  OBVIOUS
<1>1. Unsettled = {}
  BY FS_EmptySet DEF IInv, CountInv, PendingExact
<1> QED
  BY <1>1 DEF IInv, EndedInv

\* The caller leaves a join only from WaitTest with a count of zero; while it is
\* idle nothing new is issued.
LEMMA JoinCompleteStep == IInv /\ JoinComplete /\ [Next]_vars => JoinComplete'
<1> SUFFICES ASSUME IInv, JoinComplete, [Next]_vars, pc' = "idle", Joined'
             PROVE  issued' \subseteq ended'
  BY DEF JoinComplete
<1> USE DEF poolVars, callerVars, workerVars, history
<1>1. CASE CreateWorker \/ CreateWorkerFails
  BY <1>1 DEF CreateWorker, CreateWorkerFails, IInv, ControlInv, Joined
<1>2. CASE CallLoop
  <2>1. PICK n : /\ count' = IF n = 0 THEN 0 ELSE n - 1
                 /\ pc' = IF n = 0 THEN "idle" ELSE IF n = 1 THEN "body" ELSE "count"
    BY <1>2 DEF CallLoop, LoopOver
  <2>2. op' = "loop"
    BY <1>2 DEF CallLoop, LoopOver, CallerMayCall
  <2> QED
    BY <2>1, <2>2 DEF Joined
<1>3. CASE CallSubmit \/ CallSubmitBatch \/ CallWaitAll
  BY <1>3 DEF CallSubmit, CallSubmitBatch, CallWaitAll
<1>4. CASE SetSpinWait
  BY <1>4, Zenon DEF SetSpinWait, CallerMayCall, Joined
<1>5. CASE SubmitCount \/ SubmitPush \/ WaitLock \/ WaitBlock \/ WaitSpuriousWake
           \/ Destroy \/ DestroySignal \/ DestroyNotify \/ DestroyJoin
  BY <1>5 DEF SubmitCount, SubmitPush, WaitLock, WaitBlock, WaitSpuriousWake,
              Destroy, DestroySignal, DestroyNotify, DestroyJoin
<1>6. CASE Signal
  BY <1>6 DEF Signal, Joined, IInv, ControlInv
<1>7. CASE LoopBodyReturns
  BY <1>7 DEF LoopBodyReturns, Joined, IInv, ControlInv
<1>8. CASE LoopBodyThrows
  BY <1>8 DEF LoopBodyThrows, Joined
<1>9. CASE WaitTest
  <2>1. pending = 0 /\ UNCHANGED <<issued, ended>>
    BY <1>9 DEF WaitTest
  <2> QED
    BY <2>1, ZeroMeansEnded
<1>10. ASSUME NEW w \in Workers, Worker(w) PROVE issued' \subseteq ended'
  <2>1. pc = "idle" /\ UNCHANGED <<issued, op, count>> /\ ended \subseteq ended'
    BY <1>10 DEF Worker, TestRunning, PopOwn, OwnQueueEmpty, Steal, VictimEmpty, StealFails,
                 TaskEnds, Retire, NotifyWaiter, IdleWorker, WakeUp, FallAsleep, SleepTimeout
  <2> QED
    BY <2>1 DEF JoinComplete, Joined
<1>11. CASE UNCHANGED vars
  BY <1>11 DEF vars, JoinComplete, Joined
<1> QED
  BY <1>1, <1>2, <1>3, <1>4, <1>5, <1>6, <1>7, <1>8, <1>9, <1>10, <1>11
     DEF Next, Finished, Caller, Construct, CallerBegins, CallerContinues

\* parallel_for_z and wait_all return only when every task submitted so far has
\* ended, for any number of workers and any sequence of calls.
THEOREM JoinsAreComplete == Spec => []JoinComplete
<1>1. Init => JoinComplete
  BY DEF Init, JoinComplete
<1> QED
  BY <1>1, InvariantHolds, JoinCompleteStep, PTL DEF Spec

-----------------------------------------------------------------------------
(* The frame of parallel_for_z                                               *)

\* The tasks whose closure may still be called.
Live == Queued \cup {task[w] : w \in {v \in Workers : wpc[v] = "run"}}

\* FrameAlive is about exactly these tasks.
LEMMA FrameAliveLive == FrameAlive <=> \A t \in Live : t.byRef => InLoop(t)
  BY DEF FrameAlive, Live

\* They have been issued, and pushed if they are of the current call.
LEMMA LiveIssued == IInv => \A t \in Live : /\ t.index \in Nat /\ t.index > 0
                                            /\ t.call = calls => t.index < next
<1> SUFFICES ASSUME IInv, NEW t \in Live
             PROVE  t.index \in Nat /\ t.index > 0 /\ (t.call = calls => t.index < next)
  OBVIOUS
<1>1. t \in Queued \cup Held
  BY DEF Live, Held, Holding
<1> QED
  BY <1>1 DEF IInv, FreshInv, TypeOK, Task

\* A closure comes to life only when the caller pushes it.
LEMMA WorkerLive ==
  ASSUME IInv, NEW w \in Workers, Worker(w)
  PROVE  Live' \subseteq Live
<1> USE DEF poolVars, callerVars, history, Goto
<1>1. wpc \in [Workers -> WorkerPCs] /\ task \in [Workers -> Task]
  BY DEF IInv, TypeOK
<1>2. CASE UNCHANGED <<queues, task>> /\ \E l \in WorkerPCs \ {"run"} : wpc' = [wpc EXCEPT ![w] = l]
  BY <1>1, <1>2 DEF Live, Queued, Entries
<1>3. CASE UNCHANGED <<queues, task, wpc>>
  BY <1>3 DEF Live, Queued, Entries
<1>4. CASE PopOwn(w)
  <2> DEFINE t == queues[w][Len(queues[w])]
  <2>1. queues \in [Workers -> Seq(Task)] /\ Distinct(queues) /\ queues[w] # << >>
    BY <1>4 DEF IInv, TypeOK, PlaceInv, PopOwn
  <2>2. SubSeq(queues[w], 1, Len(queues[w]) - 1) \in Seq(Task)
    BY <2>1, TakeNewest
  <2>3. /\ queues' \in [Workers -> Seq(Task)]
        /\ queues'[w] = SubSeq(queues[w], 1, Len(queues[w]) - 1)
        /\ \A v \in Workers \ {w} : queues'[v] = queues[v]
    BY <1>4, <2>1, <2>2 DEF PopOwn
  <2>4. t \in Queued /\ Queued' \subseteq Queued
    BY <2>1, <2>3, RemoveNewest DEF Queued
  <2>5. task' = [task EXCEPT ![w] = t] /\ wpc' = [wpc EXCEPT ![w] = "run"]
    BY <1>4 DEF PopOwn
  <2> HIDE DEF t
  <2> QED
    BY <1>1, <2>4, <2>5 DEF Live
<1>5. CASE Steal(w)
  <2> DEFINE v == Victim(w)
             t == Head(queues[v])
  <2>1. /\ queues \in [Workers -> Seq(Task)] /\ Distinct(queues)
        /\ v \in Workers /\ queues[v] # << >>
    BY <1>5, VictimType DEF IInv, TypeOK, PlaceInv, Steal
  <2>2. queues' = [queues EXCEPT ![v] = Tail(queues[v])]
    BY <1>5 DEF Steal
  <2>3. task' = [task EXCEPT ![w] = t] /\ wpc' = [wpc EXCEPT ![w] = "run"]
    BY <1>5 DEF Steal
  <2> HIDE DEF v
  <2>4. Tail(queues[v]) \in Seq(Task)
    BY <2>1, TakeOldest
  <2>5. /\ queues' \in [Workers -> Seq(Task)]
        /\ queues'[v] = Tail(queues[v])
        /\ \A u \in Workers \ {v} : queues'[u] = queues[u]
    BY <2>1, <2>2, <2>4
  <2>6. t \in Queued /\ Queued' = Queued \ {t}
    BY <2>1, <2>5, RemoveOldest DEF Queued
  <2> HIDE DEF t
  <2> QED
    BY <1>1, <2>3, <2>6 DEF Live
<1>6. CASE VictimEmpty(w)
  BY <1>3, <1>6 DEF VictimEmpty
<1> QED
  BY <1>2, <1>4, <1>5, <1>6
     DEF Worker, TestRunning, OwnQueueEmpty, StealFails, TaskEnds, Retire, NotifyWaiter,
         IdleWorker, WakeUp, FallAsleep, SleepTimeout, WorkerPCs

\* The caller adds to them only by a push.
LEMMA CallerLive ==
  ASSUME IInv, Caller
  PROVE  /\ ~ SubmitPush => Live' \subseteq Live
         /\ SubmitPush => Live' \subseteq Live \cup {CallTask(next)}
<1> USE DEF poolVars, callerVars, workerVars, history
<1>1. wpc \in [Workers -> WorkerPCs]
  BY DEF IInv, TypeOK
<1>2. UNCHANGED task
  BY DEF Caller, Construct, CallerBegins, CallerContinues,
         CreateWorker, CreateWorkerFails, CallLoop, LoopOver, CallSubmit, CallSubmitBatch, CallWaitAll,
         SetSpinWait, SubmitCount, SubmitPush, Signal, LoopBodyReturns, LoopBodyThrows,
         WaitLock, WaitTest, WaitBlock, WaitSpuriousWake,
         Destroy, DestroySignal, DestroyNotify, DestroyJoin
<1>3. \A w \in Workers : wpc'[w] = "run" => wpc[w] = "run"
  <2>1. CASE UNCHANGED wpc
    BY <2>1
  <2>2. CASE CreateWorker
    BY <1>1, <2>2 DEF CreateWorker
  <2>3. CASE Signal
    BY <1>1, <2>3 DEF Signal, NotifyOne, NotifyAll, Asleep
  <2>4. CASE DestroyNotify
    BY <1>1, <2>4 DEF DestroyNotify, NotifyAll, Asleep
  <2>5. \/ UNCHANGED wpc
        \/ CreateWorker
        \/ Signal
        \/ DestroyNotify
    BY DEF Caller, Construct, CallerBegins, CallerContinues,
           CreateWorkerFails, CallLoop, LoopOver, CallSubmit, CallSubmitBatch, CallWaitAll,
           SetSpinWait, SubmitCount, SubmitPush, LoopBodyReturns, LoopBodyThrows,
           WaitLock, WaitTest, WaitBlock, WaitSpuriousWake, Destroy, DestroySignal, DestroyJoin
  <2> QED
    BY <2>1, <2>2, <2>3, <2>4, <2>5
<1>4. ~ SubmitPush => UNCHANGED queues
  BY DEF Caller, Construct, CallerBegins, CallerContinues,
         CreateWorker, CreateWorkerFails, CallLoop, LoopOver, CallSubmit, CallSubmitBatch, CallWaitAll,
         SetSpinWait, SubmitCount, Signal, LoopBodyReturns, LoopBodyThrows,
         WaitLock, WaitTest, WaitBlock, WaitSpuriousWake,
         Destroy, DestroySignal, DestroyNotify, DestroyJoin
<1>5. SubmitPush => Queued' \subseteq Queued \cup {CallTask(next)}
  <2> SUFFICES ASSUME SubmitPush PROVE Queued' \subseteq Queued \cup {CallTask(next)}
    OBVIOUS
  <2> DEFINE t == CallTask(next)
             v == nextQueue % numThreads
  <2>1. t \in Task /\ v \in Workers
    BY CallTaskType, ModRange, PoolSizePositive DEF SubmitPush, IInv, TypeOK, Workers
  <2>2. queues \in [Workers -> Seq(Task)] /\ Distinct(queues)
    BY DEF IInv, TypeOK, PlaceInv
  <2>3. queues' = [queues EXCEPT ![v] = Append(queues[v], t)]
    BY DEF SubmitPush
  <2>4. t \in ToPush /\ t.call = calls /\ t.index = next /\ next \in Nat
    BY DEF SubmitPush, ToPush, CallTask, IInv, TypeOK, ControlInv
  <2>5. t \notin Entries(queues)
    BY <2>4 DEF IInv, FreshInv, Queued
  <2> HIDE DEF t, v
  <2>6. Entries(queues') = Entries(queues) \cup {t}
    BY <2>1, <2>2, <2>3, <2>5, AddEntry
  <2> QED
    BY <2>6 DEF Queued, t
<1>6. ~ SubmitPush => Queued' = Queued
  BY <1>4 DEF Queued, Entries
<1> QED
  BY <1>2, <1>3, <1>5, <1>6 DEF Live

\* The frame of a loop outlives its closures, step by step.
LEMMA FrameAliveStep ==
  ASSUME ~ BodyMayThrow, IInv, FrameAlive, [Next]_vars
  PROVE  FrameAlive'
<1> USE DEF poolVars, callerVars, workerVars, history
<1>0. \A t \in Live : t.byRef => t.call = calls /\ op = "loop" /\ pc \in LoopPCs
  BY FrameAliveLive DEF InLoop
<1>1. SUFFICES ASSUME NEW t \in Live', t.byRef
               PROVE  t.call = calls' /\ op' = "loop" /\ pc' \in LoopPCs
  <2>1. FrameAlive' <=> \A t \in Live' : t.byRef => InLoop(t)'
    BY DEF FrameAlive, Live
  <2> QED
    BY <2>1, <1>1 DEF InLoop
<1>2. ASSUME NEW w \in Workers, Worker(w)
      PROVE  t.call = calls' /\ op' = "loop" /\ pc' \in LoopPCs
  <2>1. t \in Live
    BY <1>2, WorkerLive
  <2>2. UNCHANGED <<calls, op>> /\ (pc' = pc \/ pc' = "wait_lock")
    BY <1>2 DEF Worker, TestRunning, PopOwn, OwnQueueEmpty, Steal, VictimEmpty, StealFails,
                TaskEnds, Retire, NotifyWaiter, IdleWorker, WakeUp, FallAsleep, SleepTimeout
  <2> QED
    BY <1>0, <1>1, <2>1, <2>2 DEF LoopPCs
<1>3. CASE UNCHANGED vars
  <2>1. t \in Live
    BY <1>3 DEF vars, Live, Queued, Entries
  <2> QED
    BY <1>0, <1>1, <1>3, <2>1 DEF vars
<1>4. CASE SubmitPush
  <2>1. t \in Live \/ t = CallTask(next)
    BY <1>4, CallerLive DEF Caller, CallerContinues
  <2>2. pc = "push" /\ pc' \in LoopPCs /\ UNCHANGED <<calls, op>>
    BY <1>4 DEF SubmitPush, LoopPCs
  <2>3. CallTask(next).call = calls /\ (CallTask(next).byRef = (op = "loop"))
    BY DEF CallTask
  <2> QED
    BY <1>0, <1>1, <2>1, <2>2, <2>3
<1>5. CASE Caller /\ ~ SubmitPush
  <2>1. t \in Live /\ t.call = calls /\ op = "loop" /\ pc \in LoopPCs
    BY <1>0, <1>1, <1>5, CallerLive
  <2>2. pc \notin {"constructing", "idle", "d_signal", "d_notify", "d_join"}
    BY <2>1 DEF LoopPCs
  <2>3. \/ SubmitCount \/ Signal \/ LoopBodyReturns \/ LoopBodyThrows
        \/ WaitLock \/ WaitTest \/ WaitBlock \/ WaitSpuriousWake
    BY <1>5, <2>2
       DEF Caller, Construct, CallerBegins, CallerContinues, CreateWorker, CreateWorkerFails,
           CallLoop, LoopOver, CallSubmit, CallSubmitBatch, CallWaitAll, CallerMayCall, SetSpinWait,
           Destroy, DestroySignal, DestroyNotify, DestroyJoin
  <2>4. CASE SubmitCount \/ WaitLock \/ WaitBlock \/ WaitSpuriousWake
    BY <2>1, <2>4 DEF SubmitCount, WaitLock, WaitBlock, WaitSpuriousWake, LoopPCs
  <2>5. CASE Signal
    BY <2>1, <2>5 DEF Signal, LoopPCs
  <2>6. CASE LoopBodyReturns
    <3>1. t.index \in Nat /\ t.index > 0 /\ t.index < next
      BY <2>1, LiveIssued
    <3>2. count # 0
      BY <2>6, <3>1 DEF LoopBodyReturns, IInv, ControlInv
    <3> QED
      BY <2>1, <2>6, <3>2 DEF LoopBodyReturns, LoopPCs
  <2>7. CASE LoopBodyThrows
    BY <2>7 DEF LoopBodyThrows
  <2>8. CASE WaitTest
    <3>1. t \in Unsettled
      BY <2>1 DEF Live, Unsettled, Held, Holding
    <3>2. pending # 0
      BY <3>1, ZeroMeansEnded
    <3> QED
      BY <2>1, <2>8, <3>2 DEF WaitTest, LoopPCs
  <2> QED
    BY <2>3, <2>4, <2>5, <2>6, <2>7, <2>8
<1> QED
  BY <1>2, <1>3, <1>4, <1>5 DEF Next, Finished

\* If no body throws on the caller, then no closure of a loop, which holds the
\* caller's function by reference, outlives the loop.
THEOREM FramesStayAlive == ASSUME ~ BodyMayThrow PROVE Spec => []FrameAlive
<1>1. Init => FrameAlive
  <2> SUFFICES ASSUME Init PROVE FrameAlive
    OBVIOUS
  <2>1. queues \in [Workers -> Seq(Task)] /\ \A w \in Workers : Len(queues[w]) = 0
    BY InitTypeOK DEF Init, TypeOK
  <2>2. Queued = {}
    BY <2>1, EntriesMember DEF Queued
  <2> QED
    BY <2>2 DEF Init, FrameAlive
<1>2. IInv /\ FrameAlive /\ [Next]_vars => FrameAlive'
  BY FrameAliveStep
<1> QED
  BY <1>1, <1>2, InvariantHolds, PTL DEF Spec

-----------------------------------------------------------------------------
(* The pool implements the fork-join service                                 *)

\* New tasks are counted while the pool is open: the service forks them.
LEMMA ForkStep ==
  ASSUME IInv, NEW B, B # {}, B \subseteq Task, B \cap issued = {},
         issued' = issued \cup B, UNCHANGED ended,
         JoinPhase = "open", JoinPhase' = "open"
  PROVE  FJ!Fork
<1>1. ended \subseteq issued /\ issued \subseteq Task
  BY DEF IInv, FreshInv, TypeOK
<1> QED
  BY <1>1 DEF FJ!Fork

\* Every step of the caller is a Fork, a BeginJoin, an EndJoin, a Close or a
\* stutter of ForkJoin.
LEMMA CallerImplements == IInv /\ Caller => [FJ!Next]_FJ!vars
<1> SUFFICES ASSUME IInv, Caller PROVE [FJ!Next]_FJ!vars
  OBVIOUS
<1> USE DEF poolVars, callerVars, workerVars, history, JoinPCs
<1>0. running <=> pc \notin {"d_signal", "d_notify", "d_join", "destroyed"}
  BY DEF IInv, ControlInv
<1>1. CASE CreateWorker \/ CreateWorkerFails
  <2>1. /\ UNCHANGED <<issued, ended, running>>
        /\ pc = "constructing" /\ pc' \in {"constructing", "idle", "threw"}
    BY <1>1 DEF CreateWorker, CreateWorkerFails
  <2>2. JoinPhase' = JoinPhase
    BY <2>1 DEF JoinPhase
  <2> QED
    BY <2>1, <2>2 DEF FJ!vars
<1>2. CASE CallLoop \/ CallSubmit
  <2>1. /\ UNCHANGED <<issued, ended, running>>
        /\ pc = "idle" /\ pc' \in {"idle", "body", "count"}
    BY <1>2 DEF CallLoop, LoopOver, CallSubmit, CallerMayCall
  <2>2. JoinPhase' = JoinPhase
    BY <2>1 DEF JoinPhase
  <2> QED
    BY <2>1, <2>2 DEF FJ!vars
<1>3. CASE SetSpinWait
  <2>1. /\ UNCHANGED <<issued, ended, running>>
        /\ pc = "idle" /\ pc' \in {"idle", "signal"}
    BY <1>3 DEF SetSpinWait, CallerMayCall
  <2>2. JoinPhase' = JoinPhase
    BY <2>1 DEF JoinPhase
  <2> QED
    BY <2>1, <2>2 DEF FJ!vars
<1>4. CASE CallSubmitBatch
  <2>1. PICK n \in BatchSizes \ {0} :
          issued' = issued \cup {[call |-> calls + 1, index |-> i, byRef |-> FALSE] : i \in 1 .. n}
    BY <1>4 DEF CallSubmitBatch
  <2> DEFINE B == {[call |-> calls + 1, index |-> i, byRef |-> FALSE] : i \in 1 .. n}
  <2>2. n \in Nat \ {0} /\ calls \in Nat
    BY PoolAssumption DEF IInv, TypeOK
  <2>3. B # {} /\ B \subseteq Task
    <3>1. 1 \in 1 .. n
      BY <2>2
    <3>2. B # {}
      BY <3>1
    <3>3. \A i \in 1 .. n : [call |-> calls + 1, index |-> i, byRef |-> FALSE] \in Task
      BY <2>2 DEF Task
    <3> QED
      BY <3>2, <3>3
  <2>4. \A t \in B : t.call > calls
    BY <2>2
  <2>5. B \cap issued = {}
    BY <2>2, <2>4 DEF IInv, FreshInv
  <2>6. UNCHANGED <<ended, running>> /\ pc = "idle" /\ pc' = "push"
    BY <1>4 DEF CallSubmitBatch, CallerMayCall
  <2>7. JoinPhase = "open" /\ JoinPhase' = "open"
    BY <1>0, <2>6 DEF JoinPhase
  <2> HIDE DEF B
  <2> QED
    BY <2>1, <2>3, <2>5, <2>6, <2>7, ForkStep DEF FJ!Next, B
<1>5. CASE SubmitCount
  <2>1. /\ issued' = issued \cup {CallTask(next)}
        /\ UNCHANGED <<ended, running>> /\ pc = "count" /\ pc' = "push"
    BY <1>5 DEF SubmitCount
  <2>2. CallTask(next) \in Task
    BY CallTaskType DEF IInv, TypeOK
  <2>3. CallTask(next).call = calls /\ CallTask(next).index = next /\ next \in Nat
    BY DEF CallTask, IInv, TypeOK
  <2>4. CallTask(next) \notin issued
    BY <2>1, <2>3 DEF IInv, FreshInv, ToPush
  <2>5. JoinPhase = "open" /\ JoinPhase' = "open"
    BY <1>0, <2>1 DEF JoinPhase
  <2> QED
    BY <2>1, <2>2, <2>4, <2>5, ForkStep DEF FJ!Next
<1>6. CASE SubmitPush \/ Signal \/ LoopBodyThrows
  <2>1. /\ UNCHANGED <<issued, ended, running>>
        /\ pc \notin JoinPCs /\ pc' \notin JoinPCs
    BY <1>6 DEF SubmitPush, Signal, LoopBodyThrows
  <2>2. JoinPhase' = JoinPhase
    BY <2>1 DEF JoinPhase
  <2> QED
    BY <2>1, <2>2 DEF FJ!vars
<1>7. CASE CallWaitAll \/ LoopBodyReturns
  <2>1. /\ UNCHANGED <<issued, ended, running>>
        /\ pc \in {"idle", "body"} /\ pc' \in {"idle", "wait_lock"}
    BY <1>7 DEF CallWaitAll, CallerMayCall, LoopBodyReturns
  <2>2. JoinPhase = "open" /\ JoinPhase' \in {"open", "joining"}
    BY <1>0, <2>1 DEF JoinPhase
  <2> QED
    BY <2>1, <2>2 DEF FJ!Next, FJ!BeginJoin, FJ!vars
<1>8. CASE WaitLock \/ WaitBlock \/ WaitSpuriousWake
  <2>1. /\ UNCHANGED <<issued, ended>>
        /\ pc \in JoinPCs /\ pc' \in JoinPCs
    BY <1>8 DEF WaitLock, WaitBlock, WaitSpuriousWake
  <2>2. JoinPhase' = JoinPhase
    BY <2>1 DEF JoinPhase
  <2> QED
    BY <2>1, <2>2 DEF FJ!vars
<1>9. CASE WaitTest
  <2>1. /\ UNCHANGED <<issued, ended, running>> /\ pc = "wait_test"
        /\ pc' = IF pending = 0 THEN "idle" ELSE "wait_block"
    BY <1>9 DEF WaitTest
  <2>2. JoinPhase = "joining"
    BY <2>1 DEF JoinPhase
  <2>3. CASE pending = 0
    <3>1. issued \ ended = {} /\ JoinPhase' = "open"
      BY <1>0, <2>1, <2>3, ZeroMeansEnded DEF JoinPhase
    <3> QED
      BY <2>1, <2>2, <3>1 DEF FJ!Next, FJ!EndJoin
  <2>4. CASE pending # 0
    <3>1. JoinPhase' = "joining"
      BY <2>1, <2>4 DEF JoinPhase
    <3> QED
      BY <2>1, <2>2, <3>1 DEF FJ!vars
  <2> QED
    BY <2>3, <2>4
<1>10. CASE Destroy
  <2>1. UNCHANGED <<issued, ended>> /\ pc = "idle" /\ pc' = "d_signal" /\ running' = FALSE
    BY <1>10 DEF Destroy
  <2>2. JoinPhase = "open" /\ JoinPhase' = "closed"
    BY <1>0, <2>1 DEF JoinPhase
  <2> QED
    BY <2>1, <2>2 DEF FJ!Next, FJ!Close
<1>11. CASE DestroySignal \/ DestroyNotify \/ DestroyJoin
  <2>1. /\ UNCHANGED <<issued, ended, running>>
        /\ pc \notin JoinPCs /\ pc' \notin JoinPCs
    BY <1>11 DEF DestroySignal, DestroyNotify, DestroyJoin
  <2>2. JoinPhase' = JoinPhase
    BY <2>1 DEF JoinPhase
  <2> QED
    BY <2>1, <2>2 DEF FJ!vars
<1> QED
  BY <1>1, <1>2, <1>3, <1>4, <1>5, <1>6, <1>7, <1>8, <1>9, <1>10, <1>11
     DEF Caller, Construct, CallerBegins, CallerContinues

\* A worker's step is a Finish when a task ends, else a stutter.
LEMMA WorkerImplements ==
  ASSUME IInv, NEW w \in Workers, Worker(w)
  PROVE  [FJ!Next]_FJ!vars
<1> USE DEF poolVars, callerVars, history, JoinPCs
<1>1. CASE TaskEnds(w)
  <2>1. /\ wpc[w] = "run" /\ ended' = ended \cup {task[w]}
        /\ UNCHANGED <<issued, pc, running>>
    BY <1>1 DEF TaskEnds
  <2>2. task[w] \in issued \ ended
    BY <2>1 DEF IInv, FreshInv, EndedInv, Held, Holding
  <2>3. JoinPhase' = JoinPhase
    BY <2>1 DEF JoinPhase
  <2>4. FJ!Finish(task[w])
    BY <2>1, <2>2, <2>3 DEF FJ!Finish
  <2> QED
    BY <2>2, <2>4 DEF FJ!Next
<1>2. CASE ~ TaskEnds(w)
  <2>1. /\ UNCHANGED <<issued, ended, running>>
        /\ pc' = pc \/ (pc \in JoinPCs /\ pc' \in JoinPCs)
    BY <1>2 DEF Worker, TestRunning, PopOwn, OwnQueueEmpty, Steal, VictimEmpty, StealFails,
                Retire, NotifyWaiter, IdleWorker, WakeUp, FallAsleep, SleepTimeout
  <2>2. JoinPhase' = JoinPhase
    BY <2>1 DEF JoinPhase
  <2> QED
    BY <2>1, <2>2 DEF FJ!vars
<1> QED
  BY <1>1, <1>2

\* The work-stealing pool implements the fork-join service of ForkJoin: a task is
\* in flight from the moment it is counted until its body ends, and a join waits
\* for all of them.
THEOREM PoolImplementsForkJoin == Spec => FJSpec
<1>1. Init => FJ!Init
  BY DEF Init, FJ!Init, JoinPhase, JoinPCs
<1>2. IInv /\ [Next]_vars => [FJ!Next]_FJ!vars
  <2> SUFFICES ASSUME IInv, [Next]_vars PROVE [FJ!Next]_FJ!vars
    OBVIOUS
  <2>1. CASE UNCHANGED vars
    BY <2>1 DEF vars, poolVars, callerVars, history, FJ!vars, JoinPhase
  <2> QED
    BY <2>1, CallerImplements, WorkerImplements DEF Next, Finished
<1> QED
  BY <1>1, <1>2, InvariantHolds, PTL DEF Spec, FJSpec, FJ!Spec
=============================================================================
