---------------------------- MODULE ThreadPoolProofs ----------------------------
(***************************************************************************)
(* Theorems about ThreadPool: no thread outlives the pool, and it is a     *)
(* fork-join service, for every number of threads, list of cores and       *)
(* sequence of loops, and wherever the creation of a thread fails.         *)
(***************************************************************************)
EXTENDS ThreadPool, TLAPS

\* A range that has not ended is run by a thread that the pool holds, or by the caller.
Held ==
  /\ pc \in {"idle", "clear"} => threads = {}
  /\ pc = "body" => issued \subseteq ended \cup threads \cup {Range(count)}
  /\ pc = "destroyed" => issued \subseteq ended
  /\ pc \notin {"body", "destroyed"} => issued \subseteq ended \cup threads

TInv ==
  /\ pc \in {"idle", "clear", "spawn", "own", "body", "join", "threw",
             "destroying", "destroyed", "terminated"}
  /\ numThreads \in Nat \ {0} /\ calls \in Nat /\ count \in Nat /\ spawned \in Nat
  /\ issued \subseteq Task /\ ended \subseteq issued /\ arrived \subseteq issued \ ended
  /\ Held

LEMMA SizePositive ==
  ASSUME NEW list \in ListSizes
  PROVE  Size(list) \in Nat \ {0}
BY ThreadPoolAssumption DEF Size

LEMMA Initial == Init => TInv
BY SizePositive DEF Init, TInv, Held, Task

LEMMA RangeIsTask == ASSUME TInv, NEW k \in Nat PROVE Range(k) \in Task
BY DEF TInv, Range, Task

-----------------------------------------------------------------------------
LEMMA CallerKeeps == TInv /\ (Call \/ Destroy \/ CallerStep) => TInv'
<1> SUFFICES ASSUME TInv, Call \/ Destroy \/ CallerStep PROVE TInv'
  OBVIOUS
<1> USE DEF TInv
<1>1. CASE Call
  <2>1. PICK Nz \in IF barrier THEN {numThreads} ELSE LoopSizes :
          LET n == NumRanges(Nz, numThreads) IN
          /\ count' = n
          /\ pc' = IF n = 0 THEN "idle" ELSE IF n = 1 THEN "own" ELSE "clear"
    BY <1>1 DEF Call
  <2>2. Nz \in Nat
    BY ThreadPoolAssumption
  <2>3. count' \in Nat /\ pc' \in {"idle", "own", "clear"}
    BY <2>1, <2>2 DEF NumRanges
  <2>4. /\ pc = "idle" /\ calls' = calls + 1 /\ spawned' = 0
        /\ UNCHANGED <<numThreads, threads, arrived, issued, ended>>
    BY <1>1 DEF Call
  <2>5. threads = {} /\ issued \subseteq ended
    BY <2>4 DEF Held
  <2>6. Held'
    BY <2>3, <2>4, <2>5 DEF Held
  <2>7. QED BY <2>3, <2>4, <2>6
<1>2. CASE Destroy
  BY <1>2 DEF Destroy, Held
<1>3. CASE ClearThreads
  BY <1>3 DEF ClearThreads, Held
<1>4. CASE Spawn
  <2>1. /\ pc = "spawn" /\ spawned' = spawned + 1
        /\ threads' = threads \cup {Range(spawned + 1)}
        /\ issued' = issued \cup {Range(spawned + 1)}
        /\ UNCHANGED <<numThreads, pc, calls, count, arrived, ended>>
    BY <1>4 DEF Spawn
  <2>2. Range(spawned + 1) \in Task
    BY RangeIsTask
  <2>3. Held'
    BY <2>1 DEF Held
  <2>4. QED BY <2>1, <2>2, <2>3
<1>5. CASE SpawnFails
  BY <1>5 DEF SpawnFails, Held
<1>6. CASE AllSpawned
  BY <1>6 DEF AllSpawned, Held
<1>7. CASE OwnRange
  <2>1. /\ pc = "own" /\ pc' = "body" /\ issued' = issued \cup {Range(count)}
        /\ UNCHANGED <<numThreads, threads, calls, count, spawned, arrived, ended>>
    BY <1>7 DEF OwnRange
  <2>2. Range(count) \in Task /\ Range(count)' = Range(count)
    BY <2>1, RangeIsTask DEF Range
  <2>3. Held'
    BY <2>1, <2>2 DEF Held
  <2>4. QED BY <2>1, <2>2, <2>3
<1>8. CASE OwnRangeEnds
  BY <1>8 DEF OwnRangeEnds, Held
<1>9. CASE JoinThreads
  BY <1>9 DEF JoinThreads, Held
<1>10. CASE CatchException
  BY <1>10 DEF CatchException, Held
<1>11. CASE DestroyJoin
  BY <1>11 DEF DestroyJoin, Held
<1>12. QED
  BY <1>1, <1>2, <1>3, <1>4, <1>5, <1>6, <1>7, <1>8, <1>9, <1>10, <1>11 DEF CallerStep

LEMMA RangeKeeps ==
  ASSUME TInv, NEW t \in issued, RangeTask(t)
  PROVE  TInv'
<1>1. CASE Arrive(t)
  BY <1>1 DEF Arrive, TInv, Held, Range
<1>2. CASE RangeEnds(t)
  BY <1>2 DEF RangeEnds, TInv, Held, Range
<1>3. QED BY <1>1, <1>2 DEF RangeTask

LEMMA Inductive == TInv /\ [Next]_vars => TInv'
<1> SUFFICES ASSUME TInv, [Next]_vars PROVE TInv'
  OBVIOUS
<1>1. CASE Call \/ Destroy \/ CallerStep
  BY <1>1, CallerKeeps
<1>2. CASE \E t \in issued : RangeTask(t)
  BY <1>2, RangeKeeps
<1>3. CASE UNCHANGED vars
  BY <1>3 DEF vars, TInv, Held, Range
<1>4. QED BY <1>1, <1>2, <1>3 DEF Next, Finished

\* No thread outlives the pool.
THEOREM NoThreadLeft == Spec => []DestructorJoins
<1>1. TInv => DestructorJoins
  BY DEF TInv, Held, DestructorJoins
<1>2. QED BY Initial, Inductive, <1>1, PTL DEF Spec

-----------------------------------------------------------------------------
(* Refinement                                                                *)

LEMMA AddedIsForked ==
  ASSUME TInv, NEW k \in Nat, issued' = issued \cup {Range(k)}, ended' = ended,
         Phase = "open", Phase' = "open"
  PROVE  [FJ!Next]_FJ!vars
<1>1. Range(k) \in Task
  BY RangeIsTask
<1>2. CASE Range(k) \in issued
  BY <1>2 DEF FJ!vars
<1>3. CASE Range(k) \notin issued
  <2>1. Range(k) \notin ended /\ issued \subseteq Task
    BY <1>3 DEF TInv
  <2>2. FJ!Fork
    BY <1>1, <1>3, <2>1 DEF FJ!Fork
  <2>3. QED BY <2>2 DEF FJ!Next
<1>4. QED BY <1>2, <1>3

LEMMA CallerImplements ==
  TInv /\ TInv' /\ (Call \/ Destroy \/ CallerStep) => [FJ!Next]_FJ!vars
<1> SUFFICES ASSUME TInv, TInv', Call \/ Destroy \/ CallerStep PROVE [FJ!Next]_FJ!vars
  OBVIOUS
<1>1. CASE Call
  <2>1. /\ pc = "idle" /\ pc' \in {"idle", "own", "clear"}
        /\ UNCHANGED <<issued, ended>>
    BY <1>1 DEF Call
  <2>2. QED BY <2>1 DEF FJ!vars, Phase
<1>2. CASE Destroy
  BY <1>2 DEF Destroy, FJ!Next, FJ!Close, Phase
<1>3. CASE ClearThreads
  BY <1>3 DEF ClearThreads, FJ!Next, FJ!Close, FJ!vars, Phase
<1>4. CASE Spawn
  <2>1. /\ spawned \in Nat /\ issued' = issued \cup {Range(spawned + 1)} /\ ended' = ended
        /\ Phase = "open" /\ Phase' = "open"
    BY <1>4 DEF Spawn, TInv, Phase
  <2>2. QED BY <2>1, AddedIsForked
<1>5. CASE SpawnFails
  BY <1>5 DEF SpawnFails, FJ!vars, Phase
<1>6. CASE AllSpawned
  BY <1>6 DEF AllSpawned, FJ!Next, FJ!BeginJoin, FJ!vars, Phase
<1>7. CASE OwnRange
  <2>1. /\ count \in Nat /\ issued' = issued \cup {Range(count)} /\ ended' = ended
        /\ Phase = "open" /\ Phase' = "open"
    BY <1>7 DEF OwnRange, TInv, Phase
  <2>2. QED BY <2>1, AddedIsForked
<1>8. CASE OwnRangeEnds
  BY <1>8 DEF OwnRangeEnds, FJ!Next, FJ!BeginJoin, Phase
<1>9. CASE JoinThreads
  <2>1. /\ pc = "join" /\ pc' = "idle" /\ threads \subseteq ended
        /\ UNCHANGED <<issued, ended>>
    BY <1>9 DEF JoinThreads
  <2>2. issued \ ended = {}
    BY <2>1 DEF TInv, Held
  <2>3. QED BY <2>1, <2>2 DEF FJ!Next, FJ!EndJoin, Phase
<1>10. CASE CatchException
  BY <1>10 DEF CatchException, FJ!Next, FJ!Close, Phase
<1>11. CASE DestroyJoin
  BY <1>11 DEF DestroyJoin, FJ!vars, Phase
<1>12. QED
  BY <1>1, <1>2, <1>3, <1>4, <1>5, <1>6, <1>7, <1>8, <1>9, <1>10, <1>11 DEF CallerStep

LEMMA RangeImplements ==
  ASSUME TInv, NEW t \in issued, RangeTask(t)
  PROVE  [FJ!Next]_FJ!vars
<1>1. CASE Arrive(t)
  BY <1>1 DEF Arrive, FJ!vars, Phase
<1>2. CASE RangeEnds(t)
  <2>1. /\ t \in arrived /\ ended' = ended \cup {t} /\ UNCHANGED <<issued, pc>>
    BY <1>2 DEF RangeEnds
  <2>2. t \in issued \ ended /\ issued' \ ended' = (issued \ ended) \ {t}
    BY <2>1 DEF TInv
  <2>3. FJ!Finish(t)
    BY <2>1, <2>2 DEF FJ!Finish, Phase
  <2>4. QED BY <2>2, <2>3 DEF FJ!Next
<1>3. QED BY <1>1, <1>2 DEF RangeTask

\* A loop returns only when all its ranges have ended, and each is run once.
THEOREM SimplePoolImplementsForkJoin == Spec => FJSpec
<1>1. Init => FJ!Init
  BY DEF Init, FJ!Init, Phase
<1>2. TInv /\ TInv' /\ [Next]_vars => [FJ!Next]_FJ!vars
  <2> SUFFICES ASSUME TInv, TInv', [Next]_vars PROVE [FJ!Next]_FJ!vars
    OBVIOUS
  <2>1. CASE Call \/ Destroy \/ CallerStep
    BY <2>1, CallerImplements
  <2>2. CASE \E t \in issued : RangeTask(t)
    BY <2>2, RangeImplements
  <2>3. CASE UNCHANGED vars
    BY <2>3 DEF vars, FJ!vars, Phase
  <2>4. QED BY <2>1, <2>2, <2>3 DEF Next, Finished
<1>3. QED BY <1>1, <1>2, Initial, Inductive, PTL DEF Spec, FJSpec, FJ!Spec
=============================================================================
