------------------------ MODULE ComputeBenchmarkProofs ------------------------
(***************************************************************************)
(* Theorems about ComputeBenchmark: the teams start together, nothing else *)
(* runs while something is measured, the result of a test has all the work *)
(* of its workers, these have cores of their own where there are enough,   *)
(* and run() leaves no thread and no changed setting behind, on every      *)
(* machine and with every configuration.                                   *)
(***************************************************************************)
EXTENDS ComputeBenchmark, SequenceTheorems, Arithmetic

TeamPCs == {"spawn", "pin", "await", "open", "sleep", "join", "sum"}
Gone == {"none", "exited"}
Late == {"st_simd", "sampler_stop", "done"}

\* Where the main thread is, and how many workers it has created.
PhaseInv ==
  /\ pc \in TeamPCs => OnTeam(stage)
  /\ pc = "measure" => OnMain(stage)
  /\ stage \in {"begin", "st_warmup", "sampler_start"} => pc = "enter"
  /\ spawned \in 0 .. NumThreads
  /\ pc = "spawn" => spawned < NumThreads
  /\ pc = "pin" => spawned # 0
  /\ pc \in {"await", "open", "sleep", "join", "sum"} => spawned = NumThreads
  /\ pc \notin TeamPCs /\ stage # "terminated" => spawned = 0
  /\ pc \in {"open", "sleep", "join"} => clock = (stage # "mt_warmup")
  /\ pc = "left" => stage \in {"done", "unwind"}
  /\ pc = "join_sampler" => stage \in {"sampler_stop", "unwind"}

Arrived == {t \in Team : wpc[t] \notin {"none", "new"}}

\* The workers: those created are the first ones, ready counts the arrivals, and the flags
\* are those of this team.
WorkerInv ==
  /\ wpc \in [0 .. MaxThreads - 1 -> {"none", "new", "spin", "loop", "batch", "exited"}]
  /\ spawned = 0 => \A t \in Team : wpc[t] \in Gone
  /\ spawned # 0 =>
       /\ \A t \in Team : wpc[t] = "none" <=> t >= spawned
       /\ ready = Cardinality(Arrived)
       /\ start => pc \in {"sleep", "join", "sum"}
       /\ ~ start => \A t \in Team : wpc[t] \in {"none", "new", "spin"}
  /\ pc \in {"open", "sleep", "join", "sum"} => Arrived = Team
  /\ pc = "sum" => \A t \in Team : wpc[t] = "exited"

SamplerInv ==
  /\ running \in BOOLEAN /\ spc \in {"none", "test", "sample", "exited"}
  /\ stage \in {"begin", "st_warmup", "sampler_start"} => spc = "none" /\ ~ running
  /\ spc # "none" \/ running \/ stage = "sampler_start" => ~ Skipped("sampler_stop")
  /\ ~ running /\ pc # "join_sampler" => spc \in Gone
  /\ pc = "join_sampler" => ~ running
  /\ stage = "done" => ~ running
  /\ pc = "left" => ~ running

\* A setting that differs from what it was is one that the guard restores, or cannot.
SettingsInv ==
  /\ DOMAIN settings = Settings
  /\ stage = "begin" => settings = Before
  /\ \A s \in Settings :
       \/ s \in changed /\ pc # "left"
       \/ s \in conf.unreadable \/ s \in conf.refused \cap ThreadSettings
       \/ settings[s] = Before[s]

\* With enough cores, a worker has its own as soon as the main thread has pinned it.
MaskInv ==
  /\ DOMAIN wmask = 0 .. MaxThreads - 1
  /\ EnoughCores =>
       \A t \in Team : t < spawned /\ (pc = "pin" => t # spawned - 1) => wmask[t] = {CoreFor(t)}

\* The work of a team: what its workers have counted is what has been executed, and a result
\* that has been taken has all of it.
WorkInv ==
  /\ local \in [0 .. MaxThreads - 1 -> Nat] /\ slot \in [0 .. MaxThreads - 1 -> Nat]
  /\ executed \in Nat
  /\ spawned # 0 =>
       /\ executed = SumOf(local, 0 .. spawned - 1)
       /\ \A t \in Team : wpc[t] = "exited" => slot[t] = local[t]
  /\ stage \in Late /\ NumThreads > 1 => total = executed

TeamInv == conf \in Confs /\ PhaseInv /\ WorkerInv

-----------------------------------------------------------------------------
(* The configuration                                                         *)

LEMMA TeamSize ==
  ASSUME conf \in Confs
  PROVE  NumThreads \in 1 .. MaxThreads
<1> DEFINE list == CoresForSocket(conf.selected)
<1>1. /\ Cores \in Nat \ {0} /\ MaxThreads \in Nat
      /\ conf.threads \in 0 .. MaxThreads /\ conf.selected \in Int
      /\ conf.sockets \in Seq(Seq(Nat))
      /\ conf.threads = 0 =>
           /\ Cores <= MaxThreads
           /\ \A i \in DOMAIN conf.sockets : Len(conf.sockets[i]) <= MaxThreads
  BY ComputeAssumption
<1>2. ASSUME conf.selected >= 0, list # << >>
      PROVE  /\ Len(list) \in Nat \ {0}
             /\ conf.threads = 0 => Len(list) <= MaxThreads
  <2>1. conf.selected < Len(conf.sockets) /\ list = conf.sockets[conf.selected + 1]
    BY <1>2 DEF CoresForSocket
  <2>2. conf.selected + 1 \in DOMAIN conf.sockets
    BY <1>1, <1>2, <2>1
  <2>3. list \in Seq(Nat) /\ (conf.threads = 0 => Len(list) <= MaxThreads)
    BY <1>1, <2>1, <2>2
  <2> HIDE DEF list
  <2> QED BY <1>1, <1>2, <2>3
<1> HIDE DEF list
<1> QED BY <1>1, <1>2 DEF NumThreads, list

LEMMA SameTeam ==
  ASSUME conf' = conf
  PROVE  NumThreads' = NumThreads /\ Team' = Team
BY DEF NumThreads, Team, CoresForSocket

LEMMA ConfStays == [Next]_vars => conf' = conf
BY DEF Next, vars, MainStep, ThreadStep, Finished, Worker, Begin, StWarmup, BeginOnMain,
  EndOnMain, SpawnWorker, SpawnFails, PinWorker, AwaitReady, OpenStart, CloseStop, JoinTeam,
  SumTeam, SamplerStart, SamplerStartFails, StopBackground, JoinSampler, Leave, ArriveWorker,
  SeesStart, BeginBatch, EndBatch, SeesStop, SamplerTestsRunning, SamplerSamples

-----------------------------------------------------------------------------
(* The order of the stages                                                   *)

LEMMA NextIndex ==
  ASSUME NEW here \in 1 .. 9, stage = Stages[here]
  PROVE  \E m \in here + 1 .. 10 :
           /\ NextStage = Stages[m] /\ ~ Skipped(Stages[m])
           /\ m = 10 /\ ~ Skipped("sampler_stop") => here = 9
           /\ here < 6 => m <= 6
<1> DEFINE at == CHOOSE i \in DOMAIN Stages : Stages[i] = stage
           later == {i \in DOMAIN Stages : i > at /\ ~ Skipped(Stages[i])}
<1>1. DOMAIN Stages = 1 .. 10 /\ \A i, j \in 1 .. 10 : Stages[i] = Stages[j] => i = j
  BY DEF Stages
<1>2. at = here
  <2>1. here \in DOMAIN Stages
    BY <1>1
  <2> HIDE DEF Stages
  <2> QED BY <1>1, <2>1
<1>3. ~ Skipped(Stages[10]) /\ Stages[9] = "sampler_stop"
  BY DEF Skipped, Stages
<1>4. later \in SUBSET Nat /\ 10 \in later /\ later \subseteq here + 1 .. 10
  <2> HIDE DEF Stages
  <2> QED BY <1>1, <1>2, <1>3
<1>5. Min(later) \in later /\ \A k \in later : Min(later) <= k
  <2> HIDE DEF later
  <2>1. \E m \in later : \A k \in later : m <= k
    BY <1>4, LeastElement
  <2> QED BY <2>1 DEF Min
<1>6. NextStage = Stages[Min(later)]
  BY DEF NextStage
<1>7. Min(later) = 10 /\ ~ Skipped("sampler_stop") => here = 9
  <2> SUFFICES ASSUME Min(later) = 10, ~ Skipped("sampler_stop"), here # 9 PROVE FALSE
    OBVIOUS
  <2>1. 9 \in later
    <3> HIDE DEF Stages
    <3> QED BY <1>1, <1>2, <1>3
  <2> QED BY <1>5, <2>1
<1>8. ~ Skipped(Stages[Min(later)])
  <2> HIDE DEF Stages
  <2> QED BY <1>5
<1>9. here < 6 => Min(later) <= 6
  <2> SUFFICES ASSUME here < 6 PROVE 6 \in later
    <3> HIDE DEF later
    <3> QED BY <1>5
  <2>1. ~ Skipped(Stages[6])
    BY DEF Skipped, Stages
  <2> HIDE DEF Stages
  <2> QED BY <1>1, <1>2, <2>1
<1> HIDE DEF later, Stages
<1> QED BY <1>4, <1>5, <1>6, <1>7, <1>8, <1>9

\* The next stage is a later one; the sampler's stop is not left out.
LEMMA StageAfter ==
  ASSUME stage \in {"begin", "st_warmup", "sampler_start", "st_test", "mt_warmup", "mt_test",
                    "st_simd", "mt_simd", "sampler_stop"}
  PROVE  /\ NextStage \in {"st_warmup", "sampler_start", "st_test", "mt_warmup", "mt_test",
                           "st_simd", "mt_simd", "sampler_stop", "done"}
         /\ NextStage = "done" => stage = "sampler_stop" \/ Skipped("sampler_stop")
         /\ NextStage \in {"st_warmup", "sampler_start"} => stage \in {"begin", "st_warmup"}
         /\ NextStage = "sampler_start" => ~ Skipped("sampler_stop")
         /\ stage \in {"begin", "st_warmup", "sampler_start", "st_test", "mt_warmup"} =>
              NextStage \notin Late
<1>1. PICK here \in 1 .. 9 : stage = Stages[here]
  BY DEF Stages
<1>2. PICK m \in here + 1 .. 10 :
        /\ NextStage = Stages[m] /\ ~ Skipped(Stages[m])
        /\ m = 10 /\ ~ Skipped("sampler_stop") => here = 9
        /\ here < 6 => m <= 6
  BY <1>1, NextIndex
<1>3. m \in 2 .. 10 /\ m > here
  BY <1>2
<1>4. NextStage \in {"st_warmup", "sampler_start", "st_test", "mt_warmup", "mt_test",
                     "st_simd", "mt_simd", "sampler_stop", "done"}
  BY <1>2, <1>3 DEF Stages
<1>5. ASSUME NextStage = "done" PROVE stage = "sampler_stop" \/ Skipped("sampler_stop")
  <2>1. m = 10
    BY <1>2, <1>3, <1>5 DEF Stages
  <2> QED BY <1>1, <1>2, <2>1 DEF Stages
<1>6. ASSUME NextStage \in {"st_warmup", "sampler_start"} PROVE stage \in {"begin", "st_warmup"}
  <2>1. m \in {2, 3}
    BY <1>2, <1>3, <1>6 DEF Stages
  <2>2. here \in {1, 2}
    BY <1>3, <2>1
  <2> QED BY <1>1, <2>2 DEF Stages
<1>7. NextStage = "sampler_start" => ~ Skipped("sampler_stop")
  BY <1>2 DEF Skipped
<1>8. ASSUME stage \in {"begin", "st_warmup", "sampler_start", "st_test", "mt_warmup"}
      PROVE  NextStage \notin Late
  <2>1. here < 6
    BY <1>1, <1>8 DEF Stages
  <2>2. m \in 2 .. 6
    BY <1>2, <1>3, <2>1
  <2> QED BY <1>2, <2>2 DEF Stages, Late
<1> QED BY <1>4, <1>5, <1>6, <1>7, <1>8

-----------------------------------------------------------------------------
(* The teams                                                                 *)

LEMMA TeamStarts == Init => TeamInv
<1> SUFFICES ASSUME Init PROVE TeamInv
  OBVIOUS
<1>1. NumThreads \in 1 .. MaxThreads /\ MaxThreads \in Nat
  BY TeamSize, ComputeAssumption DEF Init
<1>2. PhaseInv
  BY <1>1 DEF Init, PhaseInv, TeamPCs
<1>3. Team \subseteq 0 .. MaxThreads - 1
  BY <1>1 DEF Team
<1>4. WorkerInv
  BY <1>1, <1>3 DEF Init, WorkerInv, Gone
<1> QED BY <1>2, <1>4 DEF Init, TeamInv

\* The steps of the main thread when there is no team, and those of the sampler.
NoTeamStep ==
  \/ Begin \/ StWarmup \/ BeginOnMain \/ EndOnMain \/ SamplerStart \/ SamplerStartFails
  \/ StopBackground \/ JoinSampler \/ Leave

LEMMA NoTeamBefore ==
  ASSUME TeamInv, NoTeamStep
  PROVE  /\ UNCHANGED <<conf, team>>
         /\ pc \in {"enter", "measure", "join_sampler"} /\ stage # "terminated" /\ spawned = 0
<1>1. CASE Begin \/ StWarmup \/ SamplerStart \/ SamplerStartFails
  BY <1>1 DEF Begin, StWarmup, SamplerStart, SamplerStartFails, TeamInv, PhaseInv, TeamPCs
<1>2. CASE BeginOnMain \/ EndOnMain
  BY <1>2 DEF BeginOnMain, EndOnMain, OnMain, TeamInv, PhaseInv, TeamPCs
<1>3. CASE StopBackground \/ JoinSampler \/ Leave
  BY <1>3 DEF StopBackground, JoinSampler, Leave, TeamInv, PhaseInv, TeamPCs
<1> QED BY <1>1, <1>2, <1>3 DEF NoTeamStep

\* The main thread goes to the next stage, where it may be about to create a team.
LEMMA NextStagePhase ==
  ASSUME TeamInv, conf' = conf, spawned' = 0, GotoNextStage,
         stage \in {"begin", "st_warmup", "sampler_start", "st_test", "mt_warmup", "mt_test",
                    "st_simd", "mt_simd", "sampler_stop"}
  PROVE  PhaseInv' /\ pc' \in {"spawn", "enter"}
<1>1. NextStage \in {"st_warmup", "sampler_start", "st_test", "mt_warmup", "mt_test",
                     "st_simd", "mt_simd", "sampler_stop", "done"}
  BY StageAfter
<1>2. stage' = NextStage /\ pc' = (IF OnTeam(NextStage) THEN "spawn" ELSE "enter")
  BY DEF GotoNextStage, FirstPC
<1>3. NumThreads' = NumThreads /\ NumThreads \in Nat \ {0}
  BY SameTeam, TeamSize DEF TeamInv
<1>4. pc' = "spawn" => OnTeam(stage)'
  BY <1>2, <1>3 DEF OnTeam, OnMain
<1>5. stage' \in {"begin", "st_warmup", "sampler_start"} => pc' = "enter"
  BY <1>2 DEF OnTeam
<1>6. pc' \in {"spawn", "enter"}
  BY <1>2
<1> QED BY <1>3, <1>4, <1>5, <1>6 DEF PhaseInv, TeamPCs

LEMMA NoTeamPhase ==
  ASSUME TeamInv, NoTeamStep
  PROVE  /\ UNCHANGED <<conf, team>>
         /\ pc \notin TeamPCs /\ stage # "terminated" /\ spawned = 0
         /\ PhaseInv' /\ pc' \notin TeamPCs \ {"spawn"}
<1>1. /\ UNCHANGED <<conf, team>> /\ spawned = 0
      /\ pc \in {"enter", "measure", "join_sampler"} /\ stage # "terminated"
  BY NoTeamBefore
<1>2. NumThreads \in Nat \ {0} /\ NumThreads' = NumThreads /\ spawned' = 0 /\ conf' = conf
  BY <1>1, TeamSize, SameTeam DEF TeamInv, team
<1>3. ASSUME GotoNextStage,
             stage \in {"begin", "st_warmup", "sampler_start", "st_test", "mt_test", "st_simd",
                        "mt_simd", "sampler_stop"}
      PROVE  PhaseInv' /\ pc' \in {"spawn", "enter"}
  BY <1>2, <1>3, NextStagePhase
<1>4. CASE Begin \/ StWarmup \/ EndOnMain \/ SamplerStart
  <2>1. GotoNextStage
    BY <1>4 DEF Begin, StWarmup, EndOnMain, SamplerStart
  <2>2. stage \in {"begin", "st_warmup", "sampler_start", "st_test", "mt_test", "st_simd",
                   "mt_simd"}
    BY <1>4 DEF Begin, StWarmup, EndOnMain, SamplerStart, OnMain
  <2>3. PhaseInv' /\ pc' \in {"spawn", "enter"}
    BY <1>3, <2>1, <2>2
  <2> QED BY <1>1, <2>3 DEF TeamPCs
<1>5. CASE BeginOnMain
  <2>1. stage' = stage /\ pc' = "measure" /\ OnMain(stage)
    BY <1>5 DEF BeginOnMain
  <2>2. OnMain(stage)'
    BY <1>2, <2>1 DEF OnMain
  <2>3. stage' \notin {"begin", "st_warmup", "sampler_start"}
    BY <2>1 DEF OnMain
  <2> QED BY <1>1, <1>2, <2>1, <2>2, <2>3 DEF PhaseInv, TeamPCs
<1>6. CASE SamplerStartFails \/ StopBackground \/ Leave
  <2>1. /\ pc' \in {"enter", "join_sampler", "left"}
        /\ stage' \in {"unwind", "sampler_stop", "done"}
        /\ pc' = "join_sampler" => stage' \in {"sampler_stop", "unwind"}
        /\ pc' = "left" => stage' \in {"done", "unwind"}
    BY <1>6 DEF SamplerStartFails, StopBackground, Leave
  <2> QED BY <1>1, <1>2, <2>1 DEF PhaseInv, TeamPCs
<1>7. CASE JoinSampler
  <2>1. CASE stage = "unwind"
    <3>1. pc' = "enter" /\ stage' = "unwind"
      BY <1>7, <2>1 DEF JoinSampler
    <3> QED BY <1>1, <1>2, <3>1 DEF PhaseInv, TeamPCs
  <2>2. CASE stage # "unwind"
    <3>1. GotoNextStage /\ stage = "sampler_stop"
      BY <1>7, <2>2 DEF JoinSampler, TeamInv, PhaseInv
    <3>2. PhaseInv' /\ pc' \in {"spawn", "enter"}
      BY <1>3, <3>1
    <3> QED BY <1>1, <3>2 DEF TeamPCs
  <2> QED BY <2>1, <2>2
<1> QED BY <1>1, <1>4, <1>5, <1>6, <1>7 DEF NoTeamStep, TeamPCs

LEMMA NoTeamKeeps ==
  ASSUME TeamInv, NoTeamStep
  PROVE  TeamInv'
<1>1. /\ UNCHANGED <<conf, team>>
      /\ pc \notin TeamPCs /\ stage # "terminated" /\ spawned = 0
      /\ PhaseInv'
  BY NoTeamPhase
<1>2. Team' = Team /\ NumThreads' = NumThreads /\ NumThreads # 0
  BY <1>1, SameTeam, TeamSize, ComputeAssumption DEF TeamInv
<1>3. spawned' = 0 /\ wpc' = wpc /\ pc' \notin {"open", "sleep", "join", "sum"}
  BY <1>1, <1>2 DEF team, PhaseInv
<1>4. WorkerInv'
  BY <1>1, <1>2, <1>3 DEF TeamInv, WorkerInv
<1> QED BY <1>1, <1>4 DEF TeamInv

LEMMA TeamStays ==
  ASSUME TeamInv, UNCHANGED <<conf, main, team>>
  PROVE  TeamInv'
<1>1. Team' = Team /\ NumThreads' = NumThreads
  BY SameTeam
<1>2. PhaseInv'
  BY <1>1 DEF TeamInv, PhaseInv, OnTeam, OnMain, main, team
<1>3. WorkerInv'
  BY <1>1 DEF TeamInv, WorkerInv, Arrived, main, team
<1> QED BY <1>2, <1>3 DEF TeamInv

\* Facts about the team that the steps of its main thread use.
LEMMA TeamFacts ==
  ASSUME TeamInv
  PROVE  /\ NumThreads \in Nat \ {0} /\ MaxThreads \in Nat /\ NumThreads <= MaxThreads
         /\ Team = 0 .. NumThreads - 1 /\ Team \subseteq DOMAIN wpc
         /\ DOMAIN wpc = 0 .. MaxThreads - 1
         /\ IsFiniteSet(Team) /\ Cardinality(Team) = NumThreads
         /\ IsFiniteSet(Arrived)
<1>1. NumThreads \in Nat \ {0} /\ MaxThreads \in Nat /\ NumThreads <= MaxThreads
  BY TeamSize, ComputeAssumption DEF TeamInv
<1>2. Team = 0 .. NumThreads - 1 /\ DOMAIN wpc = 0 .. MaxThreads - 1
  BY DEF Team, TeamInv, WorkerInv
<1>3. IsFiniteSet(Team) /\ Cardinality(Team) = NumThreads
  <2>1. 0 \in Int /\ NumThreads - 1 \in Int /\ 0 <= NumThreads - 1
    BY <1>1
  <2>2. Cardinality(0 .. NumThreads - 1) = NumThreads - 1 - 0 + 1
    BY <2>1, FS_Interval
  <2> QED BY <1>1, <1>2, <2>1, <2>2, FS_Interval
<1>4. IsFiniteSet(Arrived)
  BY <1>3, FS_Subset DEF Arrived
<1> QED BY <1>1, <1>2, <1>3, <1>4

LEMMA SpawnKeeps ==
  ASSUME TeamInv, SpawnWorker
  PROVE  TeamInv'
<1>1. /\ NumThreads \in Nat \ {0} /\ NumThreads <= MaxThreads /\ MaxThreads \in Nat
      /\ Team = 0 .. NumThreads - 1 /\ DOMAIN wpc = 0 .. MaxThreads - 1
      /\ Team' = Team /\ NumThreads' = NumThreads
  BY TeamFacts, SameTeam DEF SpawnWorker
<1>2. /\ pc = "spawn" /\ spawned \in Nat /\ spawned < NumThreads /\ spawned \in Team
      /\ spawned' = spawned + 1 /\ pc' = "pin" /\ stage' = stage /\ OnTeam(stage)
      /\ conf' = conf
  BY <1>1 DEF SpawnWorker, TeamInv, PhaseInv
<1>3. PhaseInv'
  <2>1. OnTeam(stage)'
    BY <1>1, <1>2 DEF OnTeam, OnMain
  <2>2. stage' \notin {"begin", "st_warmup", "sampler_start"}
    BY <1>2 DEF OnTeam
  <2> QED BY <1>1, <1>2, <2>1, <2>2 DEF PhaseInv, TeamPCs
<1>4. wpc' = [t \in 0 .. MaxThreads - 1 |->
                IF t = spawned THEN "new" ELSE IF spawned = 0 THEN "none" ELSE wpc[t]]
  BY <1>1 DEF SpawnWorker
<1>5. CASE spawned = 0
  <2>1. ready' = 0 /\ start' = FALSE /\ Arrived' = {}
    BY <1>1, <1>4, <1>5 DEF SpawnWorker, Arrived
  <2>2. Cardinality(Arrived') = 0
    BY <2>1, FS_EmptySet
  <2> QED BY <1>1, <1>2, <1>3, <1>4, <1>5, <2>1, <2>2 DEF TeamInv, WorkerInv
<1>6. CASE spawned # 0
  <2>2. ready' = ready /\ start' = start /\ ~ start
    BY <1>2, <1>6 DEF SpawnWorker, TeamInv, WorkerInv
  <2>3. wpc[spawned] = "none"
    BY <1>2, <1>6 DEF TeamInv, WorkerInv
  <2>4. Arrived' = Arrived
    BY <1>1, <1>2, <1>4, <1>6, <2>3 DEF Arrived
  <2>5. \A t \in Team : wpc'[t] = IF t = spawned THEN "new" ELSE wpc[t]
    BY <1>1, <1>4, <1>6
  <2>6. wpc' \in [0 .. MaxThreads - 1 -> {"none", "new", "spin", "loop", "batch", "exited"}]
    BY <1>4, <1>6 DEF TeamInv, WorkerInv
  <2>7. \A t \in Team : wpc'[t] = "none" <=> t >= spawned'
    BY <1>1, <1>2, <1>6, <2>5 DEF TeamInv, WorkerInv
  <2>8. \A t \in Team : wpc'[t] \in {"none", "new", "spin"}
    BY <1>6, <2>2, <2>5 DEF TeamInv, WorkerInv
  <2>9. ready = Cardinality(Arrived)
    BY <1>6 DEF TeamInv, WorkerInv
  <2> QED BY <1>1, <1>2, <1>3, <2>2, <2>4, <2>6, <2>7, <2>8, <2>9 DEF TeamInv, WorkerInv
<1> QED BY <1>5, <1>6

\* The other steps of the main thread while there is a team.
LEMMA TeamPhaseFacts ==
  ASSUME TeamInv, pc \in TeamPCs, conf' = conf
  PROVE  /\ OnTeam(stage) /\ stage \notin {"begin", "st_warmup", "sampler_start", "terminated"}
         /\ spawned \in Nat /\ spawned <= NumThreads /\ NumThreads \in Nat \ {0}
         /\ NumThreads' = NumThreads /\ Team' = Team
         /\ stage' = stage => OnTeam(stage)'
<1>1. OnTeam(stage)
  BY DEF TeamInv, PhaseInv
<1>2. NumThreads' = NumThreads /\ Team' = Team /\ NumThreads \in Nat \ {0}
  BY SameTeam, TeamFacts
<1> QED BY <1>1, <1>2 DEF OnTeam, OnMain, TeamInv, PhaseInv

LEMMA SpawnFailsKeeps ==
  ASSUME TeamInv, SpawnFails
  PROVE  TeamInv'
<1>1. /\ pc = "spawn" /\ pc' = "enter" /\ conf' = conf /\ UNCHANGED team
      /\ stage' = (IF spawned = 0 THEN "unwind" ELSE "terminated")
  BY DEF SpawnFails
<1>2. NumThreads' = NumThreads /\ Team' = Team /\ NumThreads # 0
  BY <1>1, SameTeam, TeamFacts
<1>3. PhaseInv'
  BY <1>1, <1>2 DEF TeamInv, PhaseInv, TeamPCs, team
<1>4. WorkerInv'
  BY <1>1, <1>2 DEF TeamInv, WorkerInv, Arrived, team
<1> QED BY <1>1, <1>3, <1>4 DEF TeamInv

LEMMA PinKeeps ==
  ASSUME TeamInv, PinWorker
  PROVE  TeamInv'
<1>1. /\ pc = "pin" /\ pc' = (IF spawned = NumThreads THEN "await" ELSE "spawn") /\ conf' = conf
      /\ stage' = stage /\ UNCHANGED <<spawned, wpc, ready, start, stop, clock>>
  BY DEF PinWorker
<1>2. /\ OnTeam(stage)' /\ stage \notin {"begin", "st_warmup", "sampler_start", "terminated"}
      /\ spawned \in Nat /\ spawned <= NumThreads /\ NumThreads' = NumThreads /\ Team' = Team
      /\ NumThreads \in Nat \ {0}
  BY <1>1, TeamPhaseFacts DEF TeamPCs
<1>3. PhaseInv'
  BY <1>1, <1>2 DEF PhaseInv, TeamPCs
<1>4. WorkerInv'
  BY <1>1, <1>2 DEF TeamInv, WorkerInv, Arrived
<1> QED BY <1>1, <1>3, <1>4 DEF TeamInv

\* When ready has reached the number of threads, all have arrived.
LEMMA AwaitKeeps ==
  ASSUME TeamInv, AwaitReady
  PROVE  TeamInv'
<1>1. /\ pc = "await" /\ pc' = "open" /\ conf' = conf /\ ready >= NumThreads
      /\ clock' = (stage # "mt_warmup") /\ stage' = stage
      /\ UNCHANGED <<spawned, wpc, ready, start, stop>>
  BY DEF AwaitReady, team
<1>2. /\ OnTeam(stage)' /\ stage \notin {"begin", "st_warmup", "sampler_start", "terminated"}
      /\ NumThreads \in Nat \ {0} /\ NumThreads' = NumThreads /\ Team' = Team
  BY <1>1, TeamPhaseFacts DEF TeamPCs
<1>3. spawned = NumThreads
  BY <1>1 DEF TeamInv, PhaseInv
<1>4. Arrived = Team
  <2>1. ready = Cardinality(Arrived)
    BY <1>2, <1>3 DEF TeamInv, WorkerInv
  <2>2. /\ IsFiniteSet(Team) /\ Cardinality(Team) = NumThreads /\ Arrived \subseteq Team
        /\ IsFiniteSet(Arrived)
    BY TeamFacts DEF Arrived
  <2>3. Cardinality(Arrived) <= Cardinality(Team)
        /\ (Cardinality(Arrived) = Cardinality(Team) => Arrived = Team)
    BY <2>2, FS_Subset
  <2>4. Cardinality(Arrived) \in Nat
    BY <2>2, FS_CardinalityType
  <2> QED BY <1>1, <1>2, <2>1, <2>2, <2>3, <2>4
<1>5. PhaseInv'
  BY <1>1, <1>2, <1>3 DEF PhaseInv, TeamPCs
<1>6. WorkerInv'
  <2>1. Arrived' = Arrived
    BY <1>1, <1>2 DEF Arrived
  <2> QED BY <1>1, <1>2, <1>3, <1>4, <2>1 DEF TeamInv, WorkerInv
<1> QED BY <1>1, <1>5, <1>6 DEF TeamInv

LEMMA FlagsKeep ==
  ASSUME TeamInv, OpenStart \/ CloseStop
  PROVE  TeamInv'
<1>1. /\ pc \in {"open", "sleep"} /\ pc' \in {"sleep", "join"} /\ conf' = conf
      /\ stage' = stage /\ UNCHANGED <<spawned, wpc, ready, clock>>
      /\ (OpenStart /\ start' = TRUE) \/ (pc = "sleep" /\ start' = start)
  BY DEF OpenStart, CloseStop
<1>2. /\ OnTeam(stage)' /\ stage \notin {"begin", "st_warmup", "sampler_start", "terminated"}
      /\ NumThreads \in Nat \ {0} /\ NumThreads' = NumThreads /\ Team' = Team
  BY <1>1, TeamPhaseFacts DEF TeamPCs
<1>3. spawned = NumThreads /\ clock = (stage # "mt_warmup") /\ Arrived = Team
  BY <1>1 DEF TeamInv, PhaseInv, WorkerInv
<1>4. PhaseInv'
  BY <1>1, <1>2, <1>3 DEF PhaseInv, TeamPCs
<1>5. WorkerInv'
  <2>1. Arrived' = Arrived
    BY <1>1, <1>2 DEF Arrived
  <2> QED BY <1>1, <1>2, <1>3, <2>1 DEF TeamInv, WorkerInv
<1> QED BY <1>1, <1>4, <1>5 DEF TeamInv

LEMMA JoinKeeps ==
  ASSUME TeamInv, JoinTeam
  PROVE  TeamInv'
<1>1. /\ pc = "join" /\ pc' = "sum" /\ conf' = conf /\ stage' = stage
      /\ \A t \in Team : wpc[t] = "exited"
      /\ UNCHANGED <<spawned, wpc, ready, start>>
  BY DEF JoinTeam, team
<1>2. /\ OnTeam(stage)' /\ stage \notin {"begin", "st_warmup", "sampler_start", "terminated"}
      /\ NumThreads \in Nat \ {0} /\ NumThreads' = NumThreads /\ Team' = Team
  BY <1>1, TeamPhaseFacts DEF TeamPCs
<1>3. spawned = NumThreads /\ Arrived = Team
  BY <1>1 DEF TeamInv, PhaseInv, WorkerInv
<1>4. PhaseInv'
  BY <1>1, <1>2, <1>3 DEF PhaseInv, TeamPCs
<1>5. WorkerInv'
  <2>1. Arrived' = Arrived
    BY <1>1, <1>2 DEF Arrived
  <2> QED BY <1>1, <1>2, <1>3, <2>1 DEF TeamInv, WorkerInv
<1> QED BY <1>1, <1>4, <1>5 DEF TeamInv

LEMMA SumKeeps ==
  ASSUME TeamInv, SumTeam
  PROVE  TeamInv'
<1>1. /\ pc = "sum" /\ conf' = conf /\ spawned' = 0 /\ wpc' = wpc /\ GotoNextStage
  BY DEF SumTeam
<1>2. OnTeam(stage) /\ Team' = Team
  BY <1>1, TeamPhaseFacts DEF TeamPCs
<1>3. PhaseInv' /\ pc' \in {"spawn", "enter"}
  BY <1>1, <1>2, NextStagePhase DEF OnTeam
<1>4. \A t \in Team : wpc[t] = "exited"
  BY <1>1 DEF TeamInv, WorkerInv
<1>5. WorkerInv'
  BY <1>1, <1>2, <1>3, <1>4 DEF TeamInv, WorkerInv, Gone
<1> QED BY <1>1, <1>3, <1>5 DEF TeamInv

\* A worker arrives, begins, or ends.
LEMMA WorkerKeeps ==
  ASSUME TeamInv, stage # "terminated", NEW t \in Team, Worker(t)
  PROVE  TeamInv'
<1>1. /\ UNCHANGED <<conf, main, spawned, start, stop>>
      /\ wpc[t] \notin Gone
      /\ \E w \in {"spin", "loop", "batch", "exited"} : wpc' = [wpc EXCEPT ![t] = w]
  BY DEF Worker, ArriveWorker, SeesStart, BeginBatch, EndBatch, SeesStop, Gone
<1>2. /\ Team' = Team /\ NumThreads' = NumThreads /\ t \in DOMAIN wpc
      /\ IsFiniteSet(Arrived) /\ NumThreads \in Nat \ {0}
  BY <1>1, TeamFacts, SameTeam
<1>3. spawned # 0 /\ spawned' # 0
  BY <1>1 DEF TeamInv, WorkerInv
<1>4. PhaseInv'
  BY <1>1, <1>2 DEF TeamInv, PhaseInv, OnTeam, OnMain, main
<1>5. PICK w \in {"spin", "loop", "batch", "exited"} : wpc' = [wpc EXCEPT ![t] = w]
  BY <1>1
<1>6. \A u \in Team : wpc'[u] = IF u = t THEN w ELSE wpc[u]
  BY <1>2, <1>5 DEF TeamInv, WorkerInv
<1>7. wpc' \in [0 .. MaxThreads - 1 -> {"none", "new", "spin", "loop", "batch", "exited"}]
  BY <1>5 DEF TeamInv, WorkerInv
<1>8. Arrived' = Arrived \cup {t}
  BY <1>1, <1>2, <1>6 DEF Arrived
<1>9. ready' = Cardinality(Arrived')
  <2>1. ready = Cardinality(Arrived)
    BY <1>3 DEF TeamInv, WorkerInv
  <2>2. CASE ArriveWorker(t)
    <3>1. t \notin Arrived /\ ready' = ready + 1
      BY <2>2 DEF ArriveWorker, Arrived
    <3>2. Cardinality(Arrived \cup {t}) = Cardinality(Arrived) + 1
      BY <1>2, <3>1, FS_AddElement
    <3> QED BY <1>8, <2>1, <3>1, <3>2
  <2>3. CASE ~ ArriveWorker(t)
    <3>1. ready' = ready /\ wpc[t] \in {"spin", "loop", "batch"}
      BY <2>3 DEF Worker, SeesStart, BeginBatch, EndBatch, SeesStop
    <3>2. Arrived' = Arrived
      BY <1>8, <3>1 DEF Arrived
    <3> QED BY <2>1, <3>1, <3>2
  <2> QED BY <2>2, <2>3
<1>10. \A u \in Team : wpc'[u] = "none" <=> u >= spawned
  BY <1>1, <1>3, <1>6 DEF TeamInv, WorkerInv, Gone
<1>11. ASSUME ~ start PROVE \A u \in Team : wpc'[u] \in {"none", "new", "spin"}
  <2>1. wpc[t] \in {"new", "spin"}
    BY <1>1, <1>3, <1>11 DEF TeamInv, WorkerInv, Gone
  <2>2. wpc'[t] = "spin"
    BY <1>2, <1>11, <2>1 DEF Worker, ArriveWorker, SeesStart, BeginBatch, EndBatch, SeesStop
  <2> QED BY <1>3, <1>6, <1>11, <2>2 DEF TeamInv, WorkerInv
<1>12. pc # "sum" /\ (start => pc \in {"sleep", "join", "sum"})
  BY <1>1, <1>3 DEF TeamInv, WorkerInv, Gone
<1>13. pc \in {"open", "sleep", "join", "sum"} => Arrived' = Team
  BY <1>8 DEF TeamInv, WorkerInv
<1>14. pc' = pc /\ start' = start /\ spawned' = spawned
  BY <1>1 DEF main
<1>15. WorkerInv'
  BY <1>2, <1>3, <1>7, <1>9, <1>10, <1>11, <1>12, <1>13, <1>14 DEF WorkerInv
<1> QED BY <1>1, <1>4, <1>15 DEF TeamInv

LEMMA TeamStep == TeamInv /\ [Next]_vars => TeamInv'
<1> SUFFICES ASSUME TeamInv, [Next]_vars PROVE TeamInv'
  OBVIOUS
<1>1. CASE NoTeamStep
  BY <1>1, NoTeamKeeps
<1>2. CASE SpawnWorker \/ SpawnFails \/ PinWorker
  BY <1>2, SpawnKeeps, SpawnFailsKeeps, PinKeeps
<1>3. CASE AwaitReady \/ OpenStart \/ CloseStop \/ JoinTeam \/ SumTeam
  BY <1>3, AwaitKeeps, FlagsKeep, JoinKeeps, SumKeeps
<1>4. CASE ThreadStep
  <2>1. CASE SamplerTestsRunning \/ SamplerSamples
    BY <2>1, TeamStays DEF SamplerTestsRunning, SamplerSamples
  <2>2. CASE \E t \in Team : Worker(t)
    BY <1>4, <2>2, WorkerKeeps DEF ThreadStep
  <2> QED BY <1>4, <2>1, <2>2 DEF ThreadStep
<1>5. CASE Finished \/ UNCHANGED vars
  BY <1>5, TeamStays DEF Finished, vars
<1> QED BY <1>1, <1>2, <1>3, <1>4, <1>5 DEF Next, MainStep, NoTeamStep

\* What the main thread and the workers of a team know of each other: the counter of
\* arrivals, the flags and the workers belong to one team, the current one.
THEOREM TeamInvariant == Spec => []TeamInv
BY TeamStarts, TeamStep, PTL DEF Spec

\* No worker begins its batches before all have arrived, for every number of threads and
\* every machine (compute_benchmark.hpp, the ready counter and start_flag).
THEOREM TeamsStartTogether == Spec => []StartTogether
<1>1. TeamInv => StartTogether
  <2> SUFFICES ASSUME TeamInv, NEW t \in Team, Working(t), NEW u \in Team
               PROVE  wpc[u] \notin {"none", "new"}
    BY DEF StartTogether
  <2>1. spawned # 0 /\ wpc[t] \in {"loop", "batch"}
    BY DEF TeamInv, WorkerInv, Working, Gone
  <2>2. pc \in {"sleep", "join", "sum"}
    BY <2>1 DEF TeamInv, WorkerInv
  <2>3. u \in Arrived
    BY <2>2 DEF TeamInv, WorkerInv
  <2> QED BY <2>3 DEF Arrived
<1> QED BY <1>1, TeamInvariant, PTL

\* While the main thread measures no worker is alive, and a worker runs its batches between
\* the two readings of the clock (compute_benchmark.hpp, the single- and multi-threaded tests).
THEOREM NothingElseRuns == Spec => []MeasuredAlone
<1>1. TeamInv => MeasuredAlone
  <2> SUFFICES ASSUME TeamInv PROVE MeasuredAlone
    OBVIOUS
  <2>1. ASSUME pc = "measure", NEW t \in Team PROVE ~ Alive(t)
    <3>1. spawned = 0
      BY <2>1 DEF TeamInv, PhaseInv, TeamPCs, OnMain
    <3> QED BY <3>1 DEF TeamInv, WorkerInv, Alive, Gone
  <2>2. ASSUME NEW t \in Team, Working(t) PROVE OnTeam(stage) /\ clock = (stage # "mt_warmup")
    <3>1. spawned # 0 /\ wpc[t] \in {"loop", "batch"}
      BY <2>2 DEF TeamInv, WorkerInv, Working, Gone
    <3>2. pc \in {"sleep", "join"}
      BY <3>1 DEF TeamInv, WorkerInv
    <3> QED BY <3>2 DEF TeamInv, PhaseInv, TeamPCs
  <2> QED BY <2>1, <2>2 DEF MeasuredAlone
<1> QED BY <1>1, TeamInvariant, PTL

-----------------------------------------------------------------------------
(* The totals                                                                *)

LEMMA WorkStarts == Init => WorkInv
<1> SUFFICES ASSUME Init PROVE WorkInv
  OBVIOUS
<1>1. MaxThreads \in Nat
  BY ComputeAssumption
<1> QED BY <1>1 DEF Init, WorkInv, Late

LEMMA WorkStays ==
  ASSUME WorkInv, UNCHANGED <<conf, total, spawned, wpc, local, slot, executed>>,
         stage' \in Late /\ NumThreads > 1 => stage \in Late
  PROVE  WorkInv'
<1>1. Team' = Team /\ NumThreads' = NumThreads
  BY SameTeam
<1> QED BY <1>1 DEF WorkInv, Late

LEMMA WorkWithoutTeam ==
  ASSUME TeamInv, WorkInv, NoTeamStep
  PROVE  WorkInv'
<1>1. UNCHANGED <<conf, total, spawned, wpc, local, slot, executed>>
  <2>1. UNCHANGED <<conf, team>>
    BY NoTeamBefore
  <2>2. total' = total
    BY DEF NoTeamStep, Begin, StWarmup, BeginOnMain, EndOnMain, SamplerStart, SamplerStartFails,
      StopBackground, JoinSampler, Leave
  <2> QED BY <2>1, <2>2 DEF team
<1>2. ASSUME stage' \in Late, NumThreads > 1 PROVE stage \in Late
  <2>1. CASE Begin \/ StWarmup \/ SamplerStart \/ EndOnMain
    <3>1. stage' = NextStage
      BY <2>1 DEF Begin, StWarmup, SamplerStart, EndOnMain, GotoNextStage
    <3>2. stage \in {"begin", "st_warmup", "sampler_start", "st_test", "st_simd"}
      BY <1>2, <2>1, TeamFacts DEF Begin, StWarmup, SamplerStart, EndOnMain, OnMain
    <3> QED BY <1>2, <3>1, <3>2, StageAfter DEF Late
  <2>2. CASE BeginOnMain \/ SamplerStartFails \/ StopBackground \/ Leave
    BY <1>2, <2>2 DEF BeginOnMain, SamplerStartFails, StopBackground, Leave, Late
  <2>3. CASE JoinSampler
    <3>1. stage \in {"sampler_stop", "unwind"}
      BY <2>3 DEF JoinSampler, TeamInv, PhaseInv
    <3> QED BY <1>2, <2>3, <3>1 DEF JoinSampler, Late
  <2> QED BY <2>1, <2>2, <2>3 DEF NoTeamStep
<1> QED BY <1>1, <1>2, WorkStays

LEMMA WorkSpawn ==
  ASSUME TeamInv, WorkInv, SpawnWorker
  PROVE  WorkInv'
<1>1. /\ NumThreads \in Nat \ {0} /\ NumThreads <= MaxThreads /\ MaxThreads \in Nat
      /\ Team = 0 .. NumThreads - 1 /\ Team \subseteq 0 .. MaxThreads - 1
      /\ DOMAIN wpc = 0 .. MaxThreads - 1
      /\ Team' = Team /\ NumThreads' = NumThreads
  BY TeamFacts, SameTeam DEF SpawnWorker
<1>2. /\ spawned \in Nat /\ spawned < NumThreads /\ spawned \in 0 .. MaxThreads - 1
      /\ spawned' = spawned + 1 /\ stage' = stage /\ stage \notin Late
      /\ pc \in TeamPCs
  BY <1>1 DEF SpawnWorker, TeamInv, PhaseInv, OnTeam, Late, TeamPCs
<1>3. /\ local' = [local EXCEPT ![spawned] = 0] /\ slot' = [slot EXCEPT ![spawned] = 0]
      /\ executed' = IF spawned = 0 THEN 0 ELSE executed
      /\ wpc' = [t \in 0 .. MaxThreads - 1 |->
                   IF t = spawned THEN "new" ELSE IF spawned = 0 THEN "none" ELSE wpc[t]]
  BY <1>1 DEF SpawnWorker
<1>4. /\ local' \in [0 .. MaxThreads - 1 -> Nat] /\ slot' \in [0 .. MaxThreads - 1 -> Nat]
      /\ executed' \in Nat
  BY <1>3 DEF WorkInv
<1>5. executed' = SumOf(local', 0 .. spawned' - 1)
  <2> DEFINE S == 0 .. spawned - 1
  <2>1. IsFiniteSet(S) /\ spawned \notin S /\ 0 .. spawned' - 1 = S \cup {spawned}
    BY <1>2, FS_Interval
  <2>2. /\ \A y \in S : local[y] \in Int /\ local'[y] = local[y]
        /\ local'[spawned] = 0
    BY <1>1, <1>2, <1>3 DEF WorkInv
  <2>3. executed' = SumOf(local, S)
    <3>1. CASE spawned = 0
      <4>1. S = {}
        BY <3>1
      <4> HIDE DEF S
      <4> QED BY <1>3, <3>1, <4>1, SumEmpty
    <3>2. CASE spawned # 0
      BY <1>3, <3>2 DEF WorkInv
    <3> QED BY <3>1, <3>2
  <2> HIDE DEF S
  <2>4. SumOf(local', S \cup {spawned}) = SumOf(local, S) + local'[spawned]
    BY <2>1, <2>2, SumWith
  <2>5. SumOf(local', 0 .. spawned' - 1) = SumOf(local', S \cup {spawned})
    BY <2>1
  <2>6. executed' + 0 = executed'
    <3>1. executed' \in Int
      BY <1>4
    <3>2. \A n \in Int : n + 0 = n
      OBVIOUS
    <3> QED BY <3>1, <3>2, Zenon
  <2> QED BY <2>2, <2>3, <2>4, <2>5, <2>6
<1>6. \A t \in Team : wpc'[t] = "exited" => slot'[t] = local'[t]
  <2> SUFFICES ASSUME NEW t \in Team, wpc'[t] = "exited" PROVE slot'[t] = local'[t]
    OBVIOUS
  <2>1. t # spawned /\ spawned # 0 /\ wpc[t] = "exited"
    BY <1>1, <1>3
  <2> QED BY <1>1, <1>3, <2>1 DEF WorkInv
<1> QED BY <1>1, <1>2, <1>4, <1>5, <1>6 DEF WorkInv

\* When the total is taken, every worker has stored what it counted.
LEMMA WorkSummed ==
  ASSUME TeamInv, WorkInv, SumTeam
  PROVE  WorkInv'
<1>1. /\ pc = "sum" /\ conf' = conf /\ spawned' = 0 /\ stage' = NextStage
      /\ UNCHANGED <<local, slot, executed>>
  BY DEF SumTeam, GotoNextStage
<1>2. /\ OnTeam(stage) /\ Team' = Team /\ NumThreads' = NumThreads
      /\ Team = 0 .. NumThreads - 1 /\ NumThreads \in Nat \ {0} /\ NumThreads <= MaxThreads
      /\ MaxThreads \in Nat /\ IsFiniteSet(Team)
  BY <1>1, TeamFacts, TeamPhaseFacts DEF TeamPCs
<1>3. ASSUME stage' \in Late PROVE total' = executed
  <2>1. stage # "mt_warmup"
    BY <1>1, <1>3, StageAfter
  <2>2. total' = SumOf(slot, Team)
    BY <2>1 DEF SumTeam, MapThenSumSet, MapThenFoldSet, SumOf
  <2>3. spawned = NumThreads /\ \A t \in Team : wpc[t] = "exited"
    BY <1>1 DEF TeamInv, PhaseInv, WorkerInv
  <2>4. \A t \in Team : local[t] \in Int /\ slot[t] = local[t]
    BY <1>2, <2>3 DEF WorkInv
  <2>5. SumOf(slot, Team) = SumOf(local, Team)
    BY <1>2, <2>4, SumSame
  <2> QED BY <1>2, <2>2, <2>3, <2>5 DEF WorkInv
<1> QED BY <1>1, <1>2, <1>3 DEF WorkInv

\* A batch that ends is counted by its worker, and a worker stores its count as it exits.
LEMMA WorkWorker ==
  ASSUME TeamInv, WorkInv, stage # "terminated", NEW t \in Team, Worker(t)
  PROVE  WorkInv'
<1>1. /\ UNCHANGED <<conf, main, spawned>>
      /\ wpc[t] \notin Gone
      /\ \E w : wpc' = [wpc EXCEPT ![t] = w]
  BY DEF Worker, ArriveWorker, SeesStart, BeginBatch, EndBatch, SeesStop, Gone
<1>2. /\ Team' = Team /\ NumThreads' = NumThreads /\ Team = 0 .. NumThreads - 1
      /\ Team \subseteq 0 .. MaxThreads - 1 /\ DOMAIN wpc = 0 .. MaxThreads - 1
      /\ NumThreads \in Nat \ {0}
  BY <1>1, TeamFacts, SameTeam
<1>3. /\ spawned # 0 /\ spawned \in Nat /\ t \in 0 .. spawned - 1 /\ spawned' = spawned
      /\ spawned <= NumThreads
  <2>1. spawned # 0 /\ spawned \in Nat /\ spawned <= NumThreads
    BY <1>1, <1>2 DEF TeamInv, PhaseInv, WorkerInv
  <2>2. ~ (t >= spawned)
    BY <1>1, <2>1 DEF TeamInv, WorkerInv, Gone
  <2> QED BY <1>1, <1>2, <2>1, <2>2
<1>4. OnTeam(stage) /\ stage' = stage
  BY <1>1, <1>3 DEF TeamInv, PhaseInv, main
<1>5. stage' \notin Late
  BY <1>4 DEF OnTeam, Late
<1>6. \A u \in Team : u # t => wpc'[u] = wpc[u]
  BY <1>1, <1>2
<1>7. CASE EndBatch(t)
  <2>1. /\ local' = [local EXCEPT ![t] = @ + 1] /\ executed' = executed + 1 /\ slot' = slot
        /\ wpc' = [wpc EXCEPT ![t] = "loop"]
    BY <1>7 DEF EndBatch
  <2>2. \A u \in 0 .. MaxThreads - 1 : local'[u] = IF u = t THEN local[u] + 1 ELSE local[u]
    BY <1>2, <2>1 DEF WorkInv
  <2> DEFINE S == 0 .. spawned - 1
  <2>3. /\ IsFiniteSet(S) /\ t \in S
        /\ \A u \in S : local[u] \in Int
        /\ \A u \in S : local'[u] = IF u = t THEN local[u] + 1 ELSE local[u]
    <3>1. S \subseteq 0 .. MaxThreads - 1
      BY <1>2, <1>3, TeamFacts
    <3>2. IsFiniteSet(S)
      BY <1>3, FS_Interval
    <3>3. t \in S
      BY <1>3
    <3> HIDE DEF S
    <3> QED BY <2>2, <3>1, <3>2, <3>3 DEF WorkInv
  <2> HIDE DEF S
  <2>4. SumOf(local', S) = SumOf(local, S) + 1
    BY <2>3, SumChanges
  <2>5. executed' = SumOf(local', 0 .. spawned' - 1)
    BY <1>3, <2>1, <2>4 DEF WorkInv, S
  <2>6. \A u \in Team : wpc'[u] = "exited" => slot'[u] = local'[u]
    <3>1. wpc'[t] = "loop"
      BY <1>2, <2>1
    <3> QED BY <1>2, <1>3, <1>6, <2>1, <2>2, <3>1 DEF WorkInv
  <2>7. local' \in [0 .. MaxThreads - 1 -> Nat] /\ executed' \in Nat
    BY <1>2, <2>1 DEF WorkInv
  <2> QED BY <1>2, <1>5, <2>1, <2>5, <2>6, <2>7 DEF WorkInv
<1>8. CASE SeesStop(t)
  <2>1. /\ local' = local /\ executed' = executed /\ slot' = [slot EXCEPT ![t] = local[t]]
    BY <1>8 DEF SeesStop
  <2>2. \A u \in Team : wpc'[u] = "exited" => slot'[u] = local'[u]
    BY <1>2, <1>3, <1>6, <2>1 DEF WorkInv
  <2>3. slot' \in [0 .. MaxThreads - 1 -> Nat]
    BY <1>2, <2>1 DEF WorkInv
  <2> QED BY <1>2, <1>3, <1>5, <2>1, <2>2, <2>3 DEF WorkInv
<1>9. CASE ArriveWorker(t) \/ SeesStart(t) \/ BeginBatch(t)
  <2>1. /\ local' = local /\ executed' = executed /\ slot' = slot
        /\ \E w \in {"spin", "loop", "batch"} : wpc' = [wpc EXCEPT ![t] = w]
    BY <1>9 DEF ArriveWorker, SeesStart, BeginBatch
  <2>2. wpc'[t] # "exited"
    BY <1>2, <2>1
  <2> QED BY <1>2, <1>3, <1>5, <1>6, <2>1, <2>2 DEF WorkInv
<1> QED BY <1>7, <1>8, <1>9 DEF Worker

LEMMA WorkStep == TeamInv /\ WorkInv /\ [Next]_vars => WorkInv'
<1> SUFFICES ASSUME TeamInv, WorkInv, [Next]_vars PROVE WorkInv'
  OBVIOUS
<1>1. CASE NoTeamStep
  BY <1>1, WorkWithoutTeam
<1>2. CASE SpawnWorker
  BY <1>2, WorkSpawn
<1>3. CASE SpawnFails \/ PinWorker \/ AwaitReady \/ OpenStart \/ CloseStop \/ JoinTeam
  <2>1. /\ UNCHANGED <<conf, total, spawned, wpc, local, slot, executed>>
        /\ stage' = stage \/ stage' \in {"unwind", "terminated"}
    BY <1>3 DEF SpawnFails, PinWorker, AwaitReady, OpenStart, CloseStop, JoinTeam, team
  <2> QED BY <2>1, WorkStays DEF Late
<1>4. CASE SumTeam
  BY <1>4, WorkSummed
<1>5. CASE ThreadStep
  <2>1. CASE SamplerTestsRunning \/ SamplerSamples
    BY <2>1, WorkStays DEF SamplerTestsRunning, SamplerSamples, main, team
  <2>2. CASE \E t \in Team : Worker(t)
    BY <1>5, <2>2, WorkWorker DEF ThreadStep
  <2> QED BY <1>5, <2>1, <2>2 DEF ThreadStep
<1>6. CASE Finished \/ UNCHANGED vars
  BY <1>6, WorkStays DEF Finished, vars, main, team
<1> QED BY <1>1, <1>2, <1>3, <1>4, <1>5, <1>6 DEF Next, MainStep, NoTeamStep

\* A test's total counts every batch that its workers ran, for every number of threads
\* (compute_benchmark.hpp, local_flops, thread_flops and the sum behind the joins).
THEOREM TotalsAreComplete == Spec => []TotalIsAllWork
<1>1. WorkInv => TotalIsAllWork
  BY DEF WorkInv, Late, TotalIsAllWork
<1> QED BY <1>1, TeamStarts, TeamStep, WorkStarts, WorkStep, PTL DEF Spec

-----------------------------------------------------------------------------
(* The workers' cores                                                        *)

LEMMA AscendingList ==
  ASSUME NEW S \in SUBSET CoreIds
  PROVE  /\ IsFiniteSet(S) /\ Cardinality(S) \in Nat
         /\ Ascending(S) \in [1 .. Cardinality(S) -> S]
         /\ \A i, j \in 1 .. Cardinality(S) : i < j => Ascending(S)[i] < Ascending(S)[j]
<1>1. Cores \in Nat
  BY ComputeAssumption
<1>2. IsFiniteSet(S) /\ Cardinality(S) \in Nat
  <2>1. IsFiniteSet(CoreIds)
    BY <1>1, FS_Interval DEF CoreIds
  <2> QED BY <2>1, FS_Subset, FS_CardinalityType
<1>3. \E q \in [1 .. Cardinality(S) -> S] :
        \A i, j \in 1 .. Cardinality(S) : i < j => q[i] < q[j]
  BY <1>1, Enumeration DEF CoreIds
<1>4. \E q \in [1 .. Cardinality(S) -> S] : \A i, j \in DOMAIN q : i < j => q[i] < q[j]
  BY <1>3
<1>5. /\ Ascending(S) \in [1 .. Cardinality(S) -> S]
      /\ \A i, j \in DOMAIN Ascending(S) : i < j => Ascending(S)[i] < Ascending(S)[j]
  BY <1>4 DEF Ascending
<1> QED BY <1>2, <1>5

\* A list that names no core twice.
Distinct(list) ==
  /\ list \in Seq(Nat)
  /\ \A i, j \in 1 .. Len(list) : list[i] = list[j] => i = j

LEMMA AscendingIsDistinct ==
  ASSUME NEW S \in SUBSET CoreIds
  PROVE  Distinct(Ascending(S)) /\ \A i \in 1 .. Len(Ascending(S)) : Ascending(S)[i] \in S
<1> DEFINE q == Ascending(S)
           n == Cardinality(S)
<1>1. n \in Nat /\ q \in [1 .. n -> S] /\ \A i, j \in 1 .. n : i < j => q[i] < q[j]
  BY AscendingList
<1>2. S \subseteq Nat
  BY ComputeAssumption DEF CoreIds
<1> HIDE DEF q, n
<1>3. Len(q) = n /\ q \in Seq(Nat)
  <2>1. q \in Seq(Nat)
    <3>1. q \in [1 .. n -> Nat]
      BY <1>1, <1>2
    <3> QED BY <1>1, <3>1, SeqDef
  <2>2. DOMAIN q = 1 .. n
    BY <1>1
  <2> QED BY <1>1, <2>1, <2>2
<1>4. ASSUME NEW i \in 1 .. n, NEW j \in 1 .. n, q[i] = q[j] PROVE i = j
  <2>1. q[i] \in Nat /\ q[j] \in Nat
    BY <1>1, <1>2
  <2> QED BY <1>1, <1>4, <2>1
<1> QED BY <1>1, <1>3, <1>4 DEF Distinct, q

LEMMA ListIsDistinct ==
  ASSUME conf \in Confs
  PROVE  Distinct(CoreList)
<1>1. Distinct(<< >>)
  BY DEF Distinct
<1>2. CASE conf.selected >= 0
  <2>1. CASE conf.selected < Len(conf.sockets)
    <3> DEFINE list == conf.sockets[conf.selected + 1]
    <3>1. conf.selected \in Int /\ conf.sockets \in Seq(Seq(Nat))
      BY ComputeAssumption
    <3>2. conf.selected + 1 \in DOMAIN conf.sockets
      BY <1>2, <2>1, <3>1
    <3>3. list \in Seq(Nat) /\ IsInjective(list)
      BY <3>1, <3>2, ComputeAssumption
    <3>4. CoreList = list
      BY <1>2, <2>1 DEF CoreList, CoresForSocket
    <3> HIDE DEF list
    <3> QED BY <3>3, <3>4 DEF Distinct, IsInjective
  <2>2. CASE ~ (conf.selected < Len(conf.sockets))
    BY <1>1, <1>2, <2>2 DEF CoreList, CoresForSocket
  <2> QED BY <2>1, <2>2
<1>3. CASE ~ (conf.selected >= 0)
  <2> DEFINE p == Ascending(CoreIds \cap conf.perf)
             q == Ascending(CoreIds \ conf.perf)
  <2>1. CoreList = << >> \/ CoreList = p \o q
    BY <1>3 DEF CoreList, PreferredOrder
  <2>2. /\ Distinct(p) /\ \A i \in 1 .. Len(p) : p[i] \in CoreIds \cap conf.perf
        /\ Distinct(q) /\ \A i \in 1 .. Len(q) : q[i] \in CoreIds \ conf.perf
    <3>1. CoreIds \cap conf.perf \in SUBSET CoreIds /\ CoreIds \ conf.perf \in SUBSET CoreIds
      OBVIOUS
    <3> QED BY <3>1, AscendingIsDistinct
  <2> HIDE DEF p, q
  <2>3. p \o q \in Seq(Nat) /\ Len(p \o q) = Len(p) + Len(q) /\ Len(p) \in Nat /\ Len(q) \in Nat
    BY <2>2 DEF Distinct
  <2>4. \A i \in 1 .. Len(p \o q) : (p \o q)[i] = IF i <= Len(p) THEN p[i] ELSE q[i - Len(p)]
    BY <2>2, <2>3 DEF Distinct
  <2>5. ASSUME NEW i \in 1 .. Len(p \o q), NEW j \in 1 .. Len(p \o q), (p \o q)[i] = (p \o q)[j]
        PROVE  i = j
    <3>1. CASE i <= Len(p) /\ j <= Len(p)
      BY <2>2, <2>3, <2>4, <2>5, <3>1 DEF Distinct
    <3>2. CASE i > Len(p) /\ j > Len(p)
      <4>1. i - Len(p) \in 1 .. Len(q) /\ j - Len(p) \in 1 .. Len(q)
        BY <2>3, <3>2
      <4>2. q[i - Len(p)] = q[j - Len(p)]
        BY <2>3, <2>4, <2>5, <3>2
      <4>3. i - Len(p) = j - Len(p)
        BY <2>2, <4>1, <4>2 DEF Distinct
      <4> QED BY <2>3, <4>3
    <3>3. CASE i <= Len(p) /\ j > Len(p)
      <4>1. p[i] \in conf.perf /\ q[j - Len(p)] \notin conf.perf
        BY <2>2, <2>3, <3>3
      <4> QED BY <2>3, <2>4, <2>5, <3>3, <4>1
    <3>4. CASE i > Len(p) /\ j <= Len(p)
      <4>1. p[j] \in conf.perf /\ q[i - Len(p)] \notin conf.perf
        BY <2>2, <2>3, <3>4
      <4> QED BY <2>3, <2>4, <2>5, <3>4, <4>1
    <3> QED BY <2>3, <3>1, <3>2, <3>3, <3>4
  <2>6. Distinct(p \o q)
    BY <2>3, <2>5 DEF Distinct
  <2> QED BY <1>1, <2>1, <2>6
<1> QED BY <1>2, <1>3

\* With enough cores every worker can be pinned, each to a core of its own.
LEMMA CoresSuffice ==
  ASSUME conf \in Confs, EnoughCores
  PROVE  /\ \A t \in Team : CanPin(CoreFor(t))
         /\ \A t, u \in Team : CoreFor(t) = CoreFor(u) => t = u
<1>1. NumThreads \in Nat \ {0} /\ Team = 0 .. NumThreads - 1 /\ Cores \in Nat
  BY TeamSize, ComputeAssumption DEF Team
<1>2. CASE CoreList = << >>
  <2>1. \A t \in Team : CoreFor(t) = t
    BY <1>2 DEF CoreFor
  <2>2. NumThreads <= Cores
    BY <1>2 DEF EnoughCores
  <2> QED BY <1>1, <2>1, <2>2 DEF CanPin, EnoughCores, CoreIds
<1>3. CASE CoreList # << >>
  <2>1. Distinct(CoreList) /\ Len(CoreList) \in Nat /\ NumThreads <= Len(CoreList)
    BY <1>3, ListIsDistinct DEF EnoughCores, Distinct
  <2>2. Min({Len(CoreList), NumThreads}) = NumThreads
    BY <1>1, <2>1 DEF Min
  <2>3. \A t \in Team : t + 1 \in 1 .. Len(CoreList) /\ CoreFor(t) = CoreList[t + 1]
    <3> SUFFICES ASSUME NEW t \in Team
                 PROVE  t + 1 \in 1 .. Len(CoreList) /\ CoreFor(t) = CoreList[t + 1]
      OBVIOUS
    <3>1. t % NumThreads = t
      BY <1>1
    <3> QED BY <1>1, <1>3, <2>1, <2>2, <3>1 DEF CoreFor
  <2>4. \A i \in 1 .. Len(CoreList) : CoreList[i] \in CoreIds
    BY <2>1 DEF EnoughCores, ToSet, Distinct
  <2>5. \A t \in Team : CanPin(CoreFor(t))
    <3> SUFFICES ASSUME NEW t \in Team PROVE CanPin(CoreFor(t))
      OBVIOUS
    <3>1. CoreFor(t) \in CoreIds
      BY <2>3, <2>4
    <3>2. CoreFor(t) < Cores
      BY <1>1, <3>1 DEF CoreIds
    <3> QED BY <3>1, <3>2 DEF CanPin, EnoughCores
  <2>6. ASSUME NEW t \in Team, NEW u \in Team, CoreFor(t) = CoreFor(u) PROVE t = u
    <3>1. t + 1 = u + 1
      BY <2>1, <2>3, <2>6 DEF Distinct
    <3> QED BY <1>1, <3>1
  <2> QED BY <2>5, <2>6
<1> QED BY <1>2, <1>3

LEMMA SameCores ==
  ASSUME conf' = conf
  PROVE  EnoughCores' = EnoughCores /\ \A t : CoreFor(t)' = CoreFor(t)
BY SameTeam DEF EnoughCores, CoreFor, CoreList, CoresForSocket, PreferredOrder

LEMMA MaskStarts == Init => MaskInv
<1> SUFFICES ASSUME Init PROVE MaskInv
  OBVIOUS
<1>1. NumThreads \in Nat
  BY TeamSize DEF Init
<1> QED BY <1>1 DEF Init, MaskInv, Team

LEMMA MaskStays ==
  ASSUME TeamInv, MaskInv, UNCHANGED <<conf, wmask>>,
         spawned' = 0 \/ (spawned' = spawned /\ (pc' = pc \/ pc # "pin"))
           \/ (pc' = "pin" /\ pc = "spawn" /\ spawned' = spawned + 1)
  PROVE  MaskInv'
<1>1. Team' = Team /\ EnoughCores' = EnoughCores /\ (\A t : CoreFor(t)' = CoreFor(t))
  BY SameTeam, SameCores
<1>2. Team \subseteq Nat /\ spawned \in Nat
  BY TeamFacts DEF TeamInv, PhaseInv
<1>3. ASSUME EnoughCores, NEW t \in Team, t < spawned', pc' = "pin" => t # spawned' - 1
      PROVE  wmask[t] = {CoreFor(t)}
  <2>1. t < spawned /\ (pc = "pin" => t # spawned - 1)
    BY <1>2, <1>3
  <2> QED BY <1>3, <2>1 DEF MaskInv
<1> QED BY <1>1, <1>3 DEF MaskInv

LEMMA MaskPinned ==
  ASSUME TeamInv, MaskInv, PinWorker
  PROVE  MaskInv'
<1> DEFINE last == spawned - 1
<1>1. /\ pc = "pin" /\ pc' # "pin" /\ conf' = conf /\ spawned' = spawned
      /\ wmask' = IF conf.pinWorkers /\ CanPin(CoreFor(last))
                    THEN [wmask EXCEPT ![last] = {CoreFor(last)}] ELSE wmask
  BY DEF PinWorker
<1>2. Team' = Team /\ EnoughCores' = EnoughCores /\ (\A t : CoreFor(t)' = CoreFor(t))
  BY <1>1, SameTeam, SameCores
<1>3. /\ Team = 0 .. NumThreads - 1 /\ NumThreads \in Nat /\ NumThreads <= MaxThreads
      /\ MaxThreads \in Nat /\ spawned \in 1 .. NumThreads /\ last \in Team
  BY <1>1, TeamFacts DEF TeamInv, PhaseInv
<1>4. ASSUME EnoughCores, NEW t \in Team, t < spawned PROVE wmask'[t] = {CoreFor(t)}
  <2>1. conf.pinWorkers /\ CanPin(CoreFor(last))
    BY <1>3, <1>4, CoresSuffice DEF EnoughCores, TeamInv
  <2>2. t # last => wmask[t] = {CoreFor(t)}
    BY <1>1, <1>4 DEF MaskInv
  <2>3. t \in DOMAIN wmask
    BY <1>3 DEF MaskInv
  <2> HIDE DEF last
  <2> QED BY <1>1, <2>1, <2>2, <2>3
<1>5. DOMAIN wmask' = DOMAIN wmask
  BY <1>1
<1> QED BY <1>1, <1>2, <1>4, <1>5 DEF MaskInv

LEMMA MaskSpawned ==
  ASSUME TeamInv, MaskInv, SpawnWorker
  PROVE  MaskInv'
<1>1. /\ pc = "spawn" /\ pc' = "pin" /\ conf' = conf /\ spawned' = spawned + 1
      /\ wmask' = [wmask EXCEPT ![spawned] = NewThreadMask]
  BY DEF SpawnWorker
<1>2. Team' = Team /\ EnoughCores' = EnoughCores /\ (\A t : CoreFor(t)' = CoreFor(t))
  BY <1>1, SameTeam, SameCores
<1>3. Team \subseteq Nat /\ spawned \in Nat /\ Team \subseteq DOMAIN wmask
  BY TeamFacts DEF TeamInv, PhaseInv, MaskInv
<1>4. ASSUME EnoughCores, NEW t \in Team, t < spawned', t # spawned' - 1
      PROVE  wmask'[t] = {CoreFor(t)}
  <2>1. t < spawned /\ t # spawned
    BY <1>1, <1>3, <1>4
  <2>2. wmask[t] = {CoreFor(t)}
    BY <1>1, <1>4, <2>1 DEF MaskInv
  <2> QED BY <1>1, <1>3, <2>1, <2>2
<1>5. DOMAIN wmask' = DOMAIN wmask
  BY <1>1
<1> QED BY <1>1, <1>2, <1>4, <1>5 DEF MaskInv

LEMMA MaskStep == TeamInv /\ MaskInv /\ [Next]_vars => MaskInv'
<1> SUFFICES ASSUME TeamInv, MaskInv, [Next]_vars PROVE MaskInv'
  OBVIOUS
<1>1. CASE NoTeamStep
  <2>1. UNCHANGED <<conf, team>> /\ spawned = 0
    BY <1>1, NoTeamBefore
  <2> QED BY <2>1, MaskStays DEF team
<1>2. CASE SpawnWorker \/ PinWorker
  BY <1>2, MaskSpawned, MaskPinned
<1>3. CASE SpawnFails \/ AwaitReady \/ OpenStart \/ CloseStop \/ JoinTeam
  <2>1. UNCHANGED <<conf, wmask, spawned>> /\ pc # "pin"
    BY <1>3 DEF SpawnFails, AwaitReady, OpenStart, CloseStop, JoinTeam, team
  <2> QED BY <2>1, MaskStays
<1>4. CASE SumTeam
  BY <1>4, MaskStays DEF SumTeam
<1>5. CASE ThreadStep
  <2>1. UNCHANGED <<conf, wmask, spawned, pc>>
    BY <1>5 DEF ThreadStep, SamplerTestsRunning, SamplerSamples, Worker, ArriveWorker, SeesStart,
      BeginBatch, EndBatch, SeesStop, main, team
  <2> QED BY <2>1, MaskStays
<1>6. CASE Finished \/ UNCHANGED vars
  BY <1>6, MaskStays DEF Finished, vars, main, team
<1> QED BY <1>1, <1>2, <1>3, <1>4, <1>5, <1>6 DEF Next, MainStep, NoTeamStep

\* With enough usable cores no two workers share one while they run batches, on every machine
\* and wherever the main thread was pinned before (compute_benchmark.hpp, build_thread_core_ids
\* and pin_worker_thread).
THEOREM WorkersHaveOwnCores == Spec => []OwnCores
<1>1. TeamInv /\ MaskInv => OwnCores
  <2> SUFFICES ASSUME TeamInv, MaskInv, EnoughCores, NEW t \in Team, NEW u \in Team,
                      Working(t), Working(u), t # u
               PROVE  wmask[t] \cap wmask[u] = {}
    BY DEF OwnCores
  <2>1. spawned # 0 /\ wpc[t] \in {"loop", "batch"}
    BY DEF TeamInv, WorkerInv, Working, Gone
  <2>2. pc \in {"sleep", "join", "sum"}
    BY <2>1 DEF TeamInv, WorkerInv
  <2>3. spawned = NumThreads /\ t < spawned /\ u < spawned
    BY <2>2, TeamFacts DEF TeamInv, PhaseInv
  <2>4. wmask[t] = {CoreFor(t)} /\ wmask[u] = {CoreFor(u)}
    BY <2>2, <2>3 DEF MaskInv
  <2>5. CoreFor(t) # CoreFor(u)
    BY CoresSuffice DEF TeamInv
  <2> QED BY <2>4, <2>5
<1> QED BY <1>1, TeamStarts, TeamStep, MaskStarts, MaskStep, PTL DEF Spec

-----------------------------------------------------------------------------
(* The sampler                                                               *)

LEMMA SamplerStarts == Init => SamplerInv
BY DEF Init, SamplerInv, Gone

LEMMA SkippedStays ==
  ASSUME conf' = conf
  PROVE  Skipped("sampler_stop")' = Skipped("sampler_stop")
BY DEF Skipped, TooLarge

\* A step to the next stage that leaves the sampler alone.
LEMMA NextStageSampler ==
  ASSUME SamplerInv, UNCHANGED <<conf, sampler>>, GotoNextStage, pc # "join_sampler",
         stage \in {"begin", "st_warmup", "st_test", "mt_warmup", "mt_test", "st_simd", "mt_simd"}
  PROVE  SamplerInv'
<1>1. /\ NextStage = "done" => Skipped("sampler_stop")
      /\ NextStage \in {"st_warmup", "sampler_start"} => stage \in {"begin", "st_warmup"}
      /\ NextStage # "begin" /\ (NextStage = "sampler_start" => ~ Skipped("sampler_stop"))
  BY StageAfter
<1>2. stage' = NextStage /\ pc' \in {"spawn", "enter"} /\ running' = running /\ spc' = spc
  BY DEF GotoNextStage, FirstPC, sampler
<1>3. Skipped("sampler_stop")' = Skipped("sampler_stop")
  BY SkippedStays
<1> QED BY <1>1, <1>2, <1>3 DEF SamplerInv

LEMMA SamplerStep == TeamInv /\ SamplerInv /\ [Next]_vars => SamplerInv'
<1> SUFFICES ASSUME TeamInv, SamplerInv, [Next]_vars PROVE SamplerInv'
  OBVIOUS
<1>0. Skipped("sampler_stop")' = Skipped("sampler_stop")
  BY ConfStays, SkippedStays
<1>1. CASE Begin \/ StWarmup \/ EndOnMain \/ SumTeam
  <2>1. UNCHANGED <<conf, sampler>> /\ GotoNextStage
    BY <1>1 DEF Begin, StWarmup, EndOnMain, SumTeam
  <2>2. pc # "join_sampler"
    BY <1>1 DEF Begin, StWarmup, EndOnMain, SumTeam, TeamInv, PhaseInv
  <2>3. stage \in {"begin", "st_warmup", "st_test", "mt_warmup", "mt_test", "st_simd", "mt_simd"}
    BY <1>1 DEF Begin, StWarmup, EndOnMain, SumTeam, OnMain, OnTeam, TeamInv, PhaseInv, TeamPCs
  <2> QED BY <2>1, <2>2, <2>3, NextStageSampler
<1>2. CASE BeginOnMain \/ SpawnWorker \/ PinWorker \/ AwaitReady \/ OpenStart \/ CloseStop
           \/ JoinTeam
  <2>1. /\ running' = running /\ spc' = spc /\ stage' = stage
        /\ pc' \notin {"join_sampler", "left"} /\ pc # "join_sampler"
    BY <1>2 DEF BeginOnMain, SpawnWorker, PinWorker, AwaitReady, OpenStart, CloseStop, JoinTeam,
      sampler
  <2> QED BY <1>0, <2>1 DEF SamplerInv
<1>3. CASE SpawnFails
  <2>1. /\ running' = running /\ spc' = spc /\ stage' \in {"unwind", "terminated"}
        /\ pc' = "enter" /\ pc # "join_sampler"
    BY <1>3 DEF SpawnFails, sampler
  <2> QED BY <1>0, <2>1 DEF SamplerInv
<1>4. CASE SamplerStart
  <2>1. /\ stage = "sampler_start" /\ running' = TRUE /\ spc' = "test" /\ GotoNextStage
    BY <1>4 DEF SamplerStart
  <2>2. /\ NextStage = "done" => Skipped("sampler_stop")
        /\ NextStage \notin {"begin", "st_warmup", "sampler_start"}
    BY <2>1, StageAfter
  <2>3. stage' = NextStage /\ pc' \in {"spawn", "enter"}
    BY <2>1 DEF GotoNextStage, FirstPC
  <2>4. ~ Skipped("sampler_stop")
    BY <2>1 DEF SamplerInv
  <2> QED BY <1>0, <2>1, <2>2, <2>3, <2>4 DEF SamplerInv
<1>5. CASE SamplerStartFails
  <2>1. /\ stage = "sampler_start" /\ running' = TRUE /\ spc' = spc /\ stage' = "unwind"
        /\ pc' = "enter"
    BY <1>5 DEF SamplerStartFails
  <2> QED BY <1>0, <2>1 DEF SamplerInv
<1>6. CASE StopBackground
  <2>1. /\ running /\ running' = FALSE /\ spc' = spc /\ stage' = stage /\ pc' = "join_sampler"
        /\ stage \in {"sampler_stop", "unwind"}
    BY <1>6 DEF StopBackground
  <2> QED BY <1>0, <2>1 DEF SamplerInv
<1>7. CASE JoinSampler
  <2>1. pc = "join_sampler" /\ spc \in Gone /\ ~ running /\ running' = running /\ spc' = spc
    BY <1>7 DEF JoinSampler, SamplerInv, sampler, Gone
  <2>2. stage' \notin {"begin", "st_warmup", "sampler_start"} /\ pc' \in {"spawn", "enter"}
    <3>1. CASE stage = "unwind"
      BY <1>7, <3>1 DEF JoinSampler
    <3>2. CASE stage # "unwind"
      <4>1. stage = "sampler_stop" /\ stage' = NextStage /\ pc' \in {"spawn", "enter"}
        BY <1>7, <2>1, <3>2 DEF JoinSampler, GotoNextStage, FirstPC, TeamInv, PhaseInv
      <4> QED BY <4>1, StageAfter
    <3> QED BY <3>1, <3>2
  <2> QED BY <1>0, <2>1, <2>2 DEF SamplerInv
<1>8. CASE Leave
  <2>1. /\ stage \in {"done", "unwind"} /\ ~ running /\ running' = running /\ spc' = spc
        /\ stage' = stage /\ pc' = "left" /\ pc = "enter"
    BY <1>8 DEF Leave, SamplerInv, sampler
  <2> QED BY <1>0, <2>1 DEF SamplerInv
<1>9. CASE SamplerTestsRunning \/ SamplerSamples
  <2>1. /\ running' = running /\ stage' = stage /\ pc' = pc /\ spc \in {"test", "sample"}
        /\ spc' \in {"sample", "exited", "test"}
        /\ (spc' = "exited" \/ running \/ pc' = "join_sampler")
    BY <1>9 DEF SamplerTestsRunning, SamplerSamples, main, SamplerInv, Gone
  <2> QED BY <1>0, <2>1 DEF SamplerInv, Gone
<1>10. CASE (\E t \in Team : Worker(t)) \/ Finished \/ UNCHANGED vars
  <2>1. UNCHANGED <<main, sampler>>
    BY <1>10 DEF Worker, ArriveWorker, SeesStart, BeginBatch, EndBatch, SeesStop, Finished, vars
  <2> QED BY <1>0, <2>1 DEF SamplerInv, main, sampler
<1> QED BY <1>1, <1>2, <1>3, <1>4, <1>5, <1>6, <1>7, <1>8, <1>9, <1>10
       DEF Next, MainStep, ThreadStep

-----------------------------------------------------------------------------
(* The settings                                                              *)

LEMMA SettingsStart == Init => SettingsInv
BY DEF Init, SettingsInv, Before

\* The guard raises what it knows how to restore, and the calibration raises settings of
\* the main thread.
LEMMA BeginSettings ==
  ASSUME SettingsInv, Begin
  PROVE  SettingsInv'
<1> USE DEF Settings, ThreadSettings
<1>1. settings = Before /\ stage = "begin" /\ conf' = conf /\ GotoNextStage
  BY DEF Begin, SettingsInv
<1>2. Before' = Before
  BY <1>1 DEF Before
<1>3. stage' # "begin" /\ pc' # "left"
  BY <1>1, StageAfter DEF GotoNextStage, FirstPC
<1>4. changed' = IF conf.server THEN Changed(settings, conf.unreadable, conf.refused) ELSE {}
  BY DEF Begin
<1> DEFINE raised == Acquire(settings, changed')
<1>5. \/ conf.server /\ \E accepted \in SUBSET ThreadSettings :
                          settings' = Configure(raised, accepted)
      \/ settings' = raised
  BY DEF Begin
<1>6. ASSUME NEW s \in Settings
      PROVE  \/ s \in changed' \/ s \in conf.unreadable \/ s \in conf.refused \cap ThreadSettings
             \/ settings'[s] = Before[s]
  <2> SUFFICES ASSUME s \notin changed', s \notin conf.unreadable,
                      s \notin conf.refused \cap ThreadSettings
               PROVE  settings'[s] = Before[s]
    OBVIOUS
  <2>1. raised[s] = Before[s]
    BY <1>1 DEF Acquire
  <2>2. CASE settings' = raised
    BY <2>1, <2>2
  <2>3. ASSUME conf.server, NEW accepted \in SUBSET ThreadSettings,
               settings' = Configure(raised, accepted)
        PROVE  settings'[s] = Before[s]
    <3>1. settings'[s] = IF s \in accepted THEN "high" ELSE raised[s]
      BY <2>3 DEF Configure
    <3>2. s \in accepted => Before[s] = "high"
      <4> SUFFICES ASSUME s \in accepted PROVE Before[s] = "high"
        OBVIOUS
      <4>1. s \in ThreadSettings /\ s \notin conf.refused
        OBVIOUS
      <4>2. s \in ReadFirst => Before[s] = "high"
        BY <1>1, <1>4, <2>3, <4>1 DEF Changed
      <4>3. s \in ReadFirst
        BY <1>1, <1>4, <2>3, <4>1 DEF Changed
      <4> QED BY <4>2, <4>3
    <3> QED BY <2>1, <3>1, <3>2
  <2> QED BY <1>5, <2>2, <2>3
<1>7. DOMAIN settings' = Settings
  BY <1>5 DEF Configure, Acquire
<1> HIDE DEF Settings, ThreadSettings
<1> QED BY <1>1, <1>2, <1>3, <1>6, <1>7 DEF SettingsInv

LEMMA LeaveSettings ==
  ASSUME SettingsInv, Leave
  PROVE  SettingsInv'
<1>1. /\ settings' = Release(settings, changed, Before, conf.unreadable) /\ conf' = conf
      /\ stage' = stage /\ stage \in {"done", "unwind"} /\ pc' = "left" /\ pc = "enter"
      /\ changed' = changed
  BY DEF Leave
<1>2. Before' = Before
  BY <1>1 DEF Before
<1>3. ASSUME NEW s \in Settings
      PROVE  \/ s \in conf.unreadable \/ s \in conf.refused \cap ThreadSettings
             \/ settings'[s] = Before[s]
  <2>1. settings'[s] = IF s \notin changed THEN settings[s]
                       ELSE IF s \in conf.unreadable THEN "managed" ELSE Before[s]
    BY <1>1 DEF Release
  <2>2. \/ s \in changed
        \/ s \in conf.unreadable \/ s \in conf.refused \cap ThreadSettings
        \/ settings[s] = Before[s]
    BY DEF SettingsInv
  <2> QED BY <2>1, <2>2
<1>4. DOMAIN settings' = Settings
  BY <1>1 DEF Release
<1> QED BY <1>1, <1>2, <1>3, <1>4 DEF SettingsInv

LEMMA SettingsStep == TeamInv /\ SettingsInv /\ [Next]_vars => SettingsInv'
<1> SUFFICES ASSUME TeamInv, SettingsInv, [Next]_vars PROVE SettingsInv'
  OBVIOUS
<1>0. conf' = conf /\ Before' = Before
  BY ConfStays DEF Before
<1>1. CASE Begin \/ Leave
  BY <1>1, BeginSettings, LeaveSettings
<1>2. CASE StWarmup \/ EndOnMain \/ SumTeam \/ SamplerStart
  <2>1. settings' = settings /\ changed' = changed /\ GotoNextStage
    BY <1>2 DEF StWarmup, EndOnMain, SumTeam, SamplerStart
  <2>2. stage \in {"st_warmup", "st_test", "mt_warmup", "mt_test", "st_simd", "mt_simd",
                   "sampler_start"}
    BY <1>2 DEF StWarmup, EndOnMain, SumTeam, SamplerStart, OnMain, OnTeam, TeamInv,
      PhaseInv, TeamPCs
  <2>3. pc' # "left" /\ stage' # "begin" /\ pc # "left"
    BY <2>1, <2>2, StageAfter DEF GotoNextStage, FirstPC, TeamInv, PhaseInv
  <2> QED BY <1>0, <2>1, <2>3 DEF SettingsInv
<1>3. CASE BeginOnMain \/ SpawnWorker \/ PinWorker \/ AwaitReady \/ OpenStart \/ CloseStop
           \/ JoinTeam \/ SpawnFails \/ SamplerStartFails \/ StopBackground
  <2>1. /\ settings' = settings /\ changed' = changed
        /\ stage' = stage \/ stage' \in {"unwind", "terminated"}
        /\ pc' # "left" /\ pc # "left"
    BY <1>3 DEF BeginOnMain, SpawnWorker, PinWorker, AwaitReady, OpenStart, CloseStop, JoinTeam,
      SpawnFails, SamplerStartFails, StopBackground, TeamInv, PhaseInv
  <2> QED BY <1>0, <2>1 DEF SettingsInv
<1>4. CASE JoinSampler
  <2>1. settings' = settings /\ changed' = changed /\ pc = "join_sampler"
    BY <1>4 DEF JoinSampler
  <2>2. pc' # "left" /\ stage' # "begin"
    <3>1. CASE stage = "unwind"
      BY <1>4, <3>1 DEF JoinSampler
    <3>2. CASE stage # "unwind"
      <4>1. stage = "sampler_stop" /\ stage' = NextStage /\ pc' \in {"spawn", "enter"}
        BY <1>4, <2>1, <3>2 DEF JoinSampler, GotoNextStage, FirstPC, TeamInv, PhaseInv
      <4> QED BY <4>1, StageAfter
    <3> QED BY <3>1, <3>2
  <2> QED BY <1>0, <2>1, <2>2 DEF SettingsInv
<1>5. CASE ThreadStep \/ Finished \/ UNCHANGED vars
  <2>1. UNCHANGED main
    BY <1>5 DEF ThreadStep, Worker, ArriveWorker, SeesStart, BeginBatch, EndBatch, SeesStop,
      SamplerTestsRunning, SamplerSamples, Finished, vars
  <2> QED BY <1>0, <2>1 DEF SettingsInv, main
<1> QED BY <1>1, <1>2, <1>3, <1>4, <1>5 DEF Next, MainStep

\* When run() is left, by its return or by an exception, no worker and no sampler is alive,
\* and each setting is what it was, or the guard could neither read nor raise it
\* (compute_benchmark.hpp and server_performance.cpp, the destructors).
THEOREM RunLeavesClean == Spec => []LeftClean
<1>1. TeamInv /\ SamplerInv /\ SettingsInv => LeftClean
  <2> SUFFICES ASSUME TeamInv, SamplerInv, SettingsInv, pc = "left"
               PROVE  /\ spc \in {"none", "exited"}
                      /\ \A t \in Team : ~ Alive(t)
                      /\ \A s \in Settings :
                           \/ s \in conf.unreadable \/ s \in conf.refused \cap ThreadSettings
                           \/ settings[s] = Before[s]
    BY DEF LeftClean
  <2>1. spawned = 0
    BY DEF TeamInv, PhaseInv, TeamPCs
  <2>2. \A t \in Team : ~ Alive(t)
    BY <2>1 DEF TeamInv, WorkerInv, Alive, Gone
  <2> QED BY <2>2 DEF SamplerInv, SettingsInv, Gone
<1> QED
  BY <1>1, TeamInvariant, SamplerStarts, SamplerStep, SettingsStart, SettingsStep, PTL DEF Spec
=============================================================================
