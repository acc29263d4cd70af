---------------------------- MODULE PrecisionProofs ----------------------------
(***************************************************************************)
(* Theorems about the precision benchmark.  A run: the kernels that are    *)
(* selected can run, the chunk is bounded and the operations are counted,  *)
(* for every machine, build, clock and cost of an iteration.  The int8 dot *)
(* products: the lanes do not overflow, whatever the length of the arrays, *)
(* what they hold and the number of iterations, and the result is that of  *)
(* the plain loop.  The narrow numbers, for all values that are loaded and *)
(* stored: the int8 vector loop is the scalar loop, an FP4 value is the    *)
(* nearest one, a half that is not denormal survives a load and a store,   *)
(* and a float becomes the nearest half.                                   *)
(***************************************************************************)
EXTENDS PrecisionRun, DotProduct, HalfNumbers, FP4Numbers, Int8Lanes, Arithmetic

Isas == {"scalar", "sse2", "avx", "avx2", "avx512", "neon"}

-----------------------------------------------------------------------------
(* Selection                                                                 *)

\* A program that got as far as main: it runs what it was compiled for.
Started ==
  /\ machine \in Machines /\ machine.arch = build.arch
  /\ Executes(machine, build.base)

\* The machine executes what the files of an instruction set are compiled for.
Level(isa) == Executes(machine, KernelFlags(isa))

LEMMA ExecutesBoth ==
  ASSUME NEW m, NEW e1, NEW e2, Executes(m, e1), Executes(m, e2)
  PROVE  Executes(m, e1 \cup e2)
<1>1. (e1 \cup e2) \cap Ymm # {} => "ymm" \in m.xcr0
  BY DEF Executes
<1>2. (e1 \cup e2) \cap Zmm # {} => "zmm" \in m.xcr0
  BY DEF Executes
<1>3. e1 \cup e2 \subseteq m.features
  BY DEF Executes
<1>4. QED BY <1>1, <1>2, <1>3 DEF Executes

\* The level that is detected is one the machine executes, as far as it has what nothing
\* detects.
LEMMA LevelExecuted ==
  ASSUME machine \in Machines, Companions(machine)
  PROVE  Level(get_simd_level(machine))
<1> DEFINE l == get_simd_level(machine)
<1>1. CASE machine.arch = "x86" /\ Has(machine, "avx512f")
  <2>1. l = "avx512"
    BY <1>1 DEF get_simd_level
  <2>2. QED BY <1>1, <2>1 DEF Has, Level, Executes, KernelFlags, Companions
<1>2. CASE machine.arch = "x86" /\ ~ Has(machine, "avx512f") /\ Has(machine, "avx2")
  <2>1. l = "avx2"
    BY <1>2 DEF get_simd_level
  <2>2. QED BY <1>2, <2>1 DEF Has, Level, Executes, KernelFlags, Companions, Ymm, Zmm
<1>3. CASE /\ machine.arch = "x86" /\ ~ Has(machine, "avx512f")
           /\ ~ Has(machine, "avx2") /\ Has(machine, "avx")
  <2>1. l = "avx"
    BY <1>3 DEF get_simd_level
  <2>2. QED BY <1>3, <2>1 DEF Has, Level, Executes, KernelFlags, Ymm, Zmm
<1>4. CASE /\ machine.arch = "x86" /\ ~ Has(machine, "avx512f") /\ ~ Has(machine, "avx2")
           /\ ~ Has(machine, "avx") /\ Has(machine, "sse2")
  <2>1. l = "sse2"
    BY <1>4 DEF get_simd_level
  <2>2. QED BY <1>4, <2>1 DEF Has, Level, Executes, KernelFlags, Ymm, Zmm
<1>5. CASE machine.arch = "arm64" /\ Has(machine, "neon")
  <2>1. l = "neon"
    BY <1>5 DEF get_simd_level
  <2>2. QED BY <1>5, <2>1 DEF Has, Level, Executes, KernelFlags, Ymm, Zmm
<1>6. CASE /\ ~ (machine.arch = "arm64" /\ Has(machine, "neon"))
           /\ machine.arch = "x86" =>
                ~ Has(machine, "avx512f") /\ ~ Has(machine, "avx2")
                  /\ ~ Has(machine, "avx") /\ ~ Has(machine, "sse2")
  <2>1. l = "scalar"
    BY <1>6 DEF get_simd_level
  <2>2. QED BY <2>1 DEF Level, Executes, KernelFlags
<1>7. QED BY <1>1, <1>2, <1>3, <1>4, <1>5, <1>6

LEMMA LevelType == ASSUME NEW m PROVE get_simd_level(m) \in Isas
BY DEF get_simd_level, Isas

\* So are the instruction sets that select_kernels takes in place of the level.
LEMMA LowerExecuted ==
  ASSUME machine \in Machines, Companions(machine)
  PROVE  /\ Level("scalar")
         /\ Level("avx512") => Level("avx2")
         /\ Level("avx2") => Level("avx")
         /\ Level("avx") => Level("sse2")
<1>1. Level("scalar")
  BY DEF Level, Executes, KernelFlags
<1>2. Level("avx512") => Level("avx2")
  BY MachineAssumption DEF Level, Executes, KernelFlags, Companions, Ymm, Zmm
<1>3. Level("avx2") => Level("avx")
  BY MachineAssumption DEF Level, Executes, KernelFlags, Ymm, Zmm
<1>4. Level("avx") => Level("sse2")
  BY MachineAssumption DEF Level, Executes, KernelFlags, Ymm, Zmm
<1>5. QED BY <1>1, <1>2, <1>3, <1>4

LEMMA TableExecuted ==
  ASSUME machine \in Machines, Companions(machine), NEW l \in Isas, Level(l),
         NEW p \in Pointers
  PROVE  Level(select_kernels(l)[p])
<1>1. select_kernels(l)[p] \in {l, "scalar"} \/
        \/ select_kernels(l)[p] = "avx2" /\ l \in {"avx512", "avx2"}
        \/ select_kernels(l)[p] = "sse2" /\ l \in {"avx", "sse2"}
  BY DEF select_kernels, Pointers, Isas
<1>2. QED BY <1>1, LowerExecuted DEF Isas

LEMMA TableType ==
  ASSUME NEW l \in Isas, NEW p \in Pointers
  PROVE  select_kernels(l)[p] \in Isas
BY DEF select_kernels, Pointers, Isas

\* A kernel whose own file the machine executes can run: its file is compiled for the base
\* as well, which the machine executes since the program has started, and a compute kernel
\* for AVX2 and FMA, which the minimum gives.
LEMMA ExecutedRuns ==
  ASSUME Started, NEW isa, Level(isa), NEW is_compute \in BOOLEAN
  PROVE  CanRun(isa, is_compute)
<1> SUFFICES ASSUME is_compute => Minimum(machine)
             PROVE  Executes(machine, CompiledFor(isa, is_compute))
  BY DEF CanRun
<1> DEFINE more == IF is_compute THEN ComputeFlags ELSE {}
<1>1. Executes(machine, {})
  BY DEF Executes
<1>2. Executes(machine, more)
  BY <1>1 DEF ComputeFlags, Minimum, Started
<1>3. Executes(machine, build.base \cup KernelFlags(isa))
  BY ExecutesBoth DEF Started, Level
<1> HIDE DEF more
<1>4. Executes(machine, (build.base \cup KernelFlags(isa)) \cup more)
  BY <1>2, <1>3, ExecutesBoth
<1>5. QED BY <1>4 DEF CompiledFor, more

\* Between the initialization and the choice the kernel is the scalar one.
Selection ==
  /\ Started /\ impl \in Isas
  /\ stage \in {"main", "init"} => level = "none"
  /\ stage \in {"main", "init", "kernel"} => impl = "scalar"
  /\ stage \notin {"main", "init"} => level \in Isas
  /\ level # "none" => \A p \in Pointers : table[p] \in Isas
  /\ level # "none" /\ Companions(machine) =>
       /\ Level(level) /\ Level(impl)
       /\ \A p \in Pointers : Level(table[p])

LEMMA SelectionStarts == RInit => Selection
  BY DEF RInit, Selection, Started, Isas

LEMMA SelectionKept ==
  ASSUME Selection, UNCHANGED <<machine, build, level, table, impl>>,
         stage' \in {"main", "init"} => stage \in {"main", "init"},
         stage' \in {"main", "init", "kernel"} => stage \in {"main", "init", "kernel"},
         stage' \notin {"main", "init"} => stage \notin {"main", "init"}
  PROVE  Selection'
BY DEF Selection, Started, Level

LEMMA SelectionStep == Selection /\ [RNext]_runVars => Selection'
<1> SUFFICES ASSUME Selection, [RNext]_runVars PROVE Selection'
  OBVIOUS
<1>1. CASE Initialize
  <2>1. /\ stage' = "kernel" /\ level' = get_simd_level(machine)
        /\ table' = select_kernels(level') /\ UNCHANGED <<machine, build>>
        /\ impl' = "scalar"
    BY <1>1 DEF Initialize, Selection
  <2>2. machine \in Machines /\ level' \in Isas
    BY <2>1, LevelType DEF Selection, Started
  <2>3. \A p \in Pointers : table'[p] \in Isas
    BY <2>1, <2>2, TableType
  <2>4. ASSUME Companions(machine)
        PROVE  /\ Level(level') /\ Level("scalar")
               /\ \A p \in Pointers : Level(table'[p])
    <3>1. Level(level')
      BY <2>1, <2>2, <2>4, LevelExecuted
    <3>2. QED BY <2>1, <2>2, <2>4, <3>1, TableExecuted, LowerExecuted
  <2>5. Started'
    BY <2>1 DEF Selection, Started
  <2>6. QED BY <2>1, <2>2, <2>3, <2>4, <2>5 DEF Selection, Level, Isas
<1>2. CASE ChooseKernel
  <2>1. /\ stage = "kernel" /\ stage' = "probe"
        /\ UNCHANGED <<machine, build, level, table>>
    BY <1>2 DEF ChooseKernel
  <2>2. level \in Isas /\ level # "none" /\ machine \in Machines
    BY <2>1 DEF Selection, Started, Isas
  <2>3. \/ impl' = table["compute_double"]
        \/ impl' = table["compute_float"]
        \/ impl' = "avx2" /\ level \in {"avx2", "avx512"}
        \/ impl' = "neon" /\ level = "neon"
        \/ impl' = "scalar"
    BY <1>2 DEF ChooseKernel
  <2>4. impl' \in Isas
    BY <2>2, <2>3 DEF Selection, Pointers, Isas
  <2>5. ASSUME Companions(machine) PROVE Level(impl')
    <3>1. Level(level) /\ \A p \in Pointers : Level(table[p])
      BY <2>2, <2>5 DEF Selection
    <3>2. QED BY <2>2, <2>3, <2>5, <3>1, LowerExecuted DEF Pointers
  <2>6. Started'
    BY <2>1 DEF Selection, Started
  <2>7. QED BY <2>1, <2>2, <2>4, <2>5, <2>6 DEF Selection, Level
<1>3. CASE SetForceScalar
  BY <1>3, SelectionKept DEF SetForceScalar
<1>4. CASE Probe
  BY <1>4, SelectionKept DEF Probe
<1>5. CASE Calibrate
  <2>1. stage = "calibrate" /\ stage' \in {"measure", "calibrate"}
        /\ UNCHANGED <<machine, build, level, table, impl>>
    BY <1>5 DEF Calibrate
  <2>2. QED BY <2>1, SelectionKept
<1>6. CASE Chunk
  BY <1>6, SelectionKept DEF Chunk
<1>7. CASE Count
  BY <1>7, SelectionKept DEF Count
<1>8. CASE UNCHANGED runVars
  BY <1>8, SelectionKept DEF runVars
<1>9. QED BY <1>1, <1>2, <1>3, <1>4, <1>5, <1>6, <1>7, <1>8 DEF RNext

\* On every machine that has the vector extensions in their order, FMA with AVX2 and
\* AVX-512DQ with AVX-512F, and with every build that starts there, no kernel is selected
\* that is compiled for what the CPU or the operating system does not have; for the
\* compute kernels, if the machine meets the minimum of the README.
THEOREM SelectsSupported == RSpec => []KernelsSupported
<1>1. Selection => KernelsSupported
  <2> SUFFICES ASSUME Selection, level # "none", Companions(machine)
               PROVE  /\ CanRun(impl, IsFloating(precision))
                      /\ \A p \in Pointers :
                           CanRun(table[p], p \in {"compute_float", "compute_double"})
    BY DEF KernelsSupported
  <2>1. Started /\ Level(impl) /\ \A p \in Pointers : Level(table[p])
    BY DEF Selection
  <2>2. \A isa : Level(isa) => CanRun(isa, TRUE) /\ CanRun(isa, FALSE)
    BY <2>1, ExecutedRuns
  <2>3. CanRun(impl, IsFloating(precision))
    BY <2>1, <2>2 DEF CanRun, CompiledFor, IsFloating
  <2>4. ASSUME NEW p \in Pointers
        PROVE  CanRun(table[p], p \in {"compute_float", "compute_double"})
    BY <2>1, <2>2 DEF CanRun, CompiledFor
  <2>5. QED BY <2>3, <2>4
<1>2. QED BY SelectionStarts, SelectionStep, <1>1, PTL DEF RSpec

-----------------------------------------------------------------------------
(* Calibration                                                               *)

LEMMA Quotient ==
  ASSUME NEW n \in Nat, NEW d \in Nat \ {0}
  PROVE  n \div d \in Nat /\ d * (n \div d) <= n /\ n < d * (n \div d + 1)
BY SMT

LEMMA Monotone ==
  ASSUME NEW p \in Nat, NEW q \in Nat, NEW r \in Nat
  PROVE  p <= q => p * r <= q * r
<1>1. ASSUME p <= q PROVE (q - p) * r >= 0
  BY <1>1
<1>2. (q - p) * r = q * r - p * r
  OBVIOUS
<1>3. QED BY <1>1, <1>2

LEMMA Cancels ==
  ASSUME NEW p \in Nat, NEW q \in Nat, NEW r \in Nat \ {0}, p * r < q * r
  PROVE  p < q
<1>1. p >= q => p * r >= q * r
  BY Monotone
<1>2. QED BY <1>1

\* The chunk that follows a reading of the clock is short.
Short(n) == n = 1 \/ n * cost < 2 * CHUNK_TARGET \/ n * cost < 2 * tick

LEMMA NextIsShort ==
  ASSUME iters \in Nat \ {0}, cost \in Nat \ {0}, tick \in Nat \ {0},
         NEW delay \in Nat, NEW elapsed \in Readings(iters * cost + delay)
  PROVE  NextIters(elapsed) \in 1 .. MAX_CHUNK_ITERS /\ Short(NextIters(elapsed))
<1> DEFINE time == iters * cost + delay
<1> DEFINE ticks == time \div tick
<1>1. CHUNK_TARGET \in Nat \ {0} /\ MAX_CHUNK_ITERS \in Nat \ {0}
  BY RunAssumption
<1>2. iters * cost \in Nat /\ time \in Nat /\ iters * cost <= time
  OBVIOUS
<1>3. ticks \in Nat /\ tick * ticks <= time /\ time < tick * (ticks + 1)
  <2> HIDE DEF time
  <2>1. QED BY <1>2, Quotient
<1>4. elapsed = tick * ticks \/ elapsed = tick * (ticks + 1)
  BY DEF Readings
<1>5. tick * (ticks + 1) = tick * ticks + tick /\ tick * ticks \in Nat
  <2> HIDE DEF ticks
  <2>1. QED BY <1>3
<1>6. AtMost(AtLeastOne(0)) = 1
  BY <1>1 DEF AtMost, AtLeastOne
<1> HIDE DEF time, ticks
<1>7. CASE elapsed = 0
  <2>1. tick * ticks = 0
    BY <1>4, <1>5, <1>7
  <2>2. iters * cost < tick
    BY <1>2, <1>3, <1>5, <2>1
  <2>3. NextIters(elapsed) = AtMost(iters * 2)
    BY <1>7 DEF NextIters
  <2> DEFINE n == AtMost(iters * 2)
  <2>4. n \in Nat /\ n >= 1 /\ n <= MAX_CHUNK_ITERS /\ n <= 2 * iters
    BY <1>1 DEF AtMost
  <2> HIDE DEF n
  <2>5. n * cost <= (2 * iters) * cost
    BY <2>4, Monotone
  <2>6. (2 * iters) * cost = 2 * (iters * cost)
    OBVIOUS
  <2>7. n * cost < 2 * tick
    <3>1. n * cost \in Nat
      BY <2>4
    <3>2. QED BY <1>2, <2>2, <2>5, <2>6, <3>1
  <2>8. QED BY <1>1, <2>3, <2>4, <2>7 DEF Short, n
<1>8. CASE elapsed # 0
  <2>1. elapsed \in Nat \ {0}
    BY <1>4, <1>5, <1>8
  <2>2. time < 2 * elapsed
    <3>1. tick * ticks = 0 \/ tick * ticks >= tick
      <4>1. ticks >= 1 => 1 * tick <= ticks * tick
        BY <1>3, Monotone
      <4>2. QED BY <1>3, <4>1
    <3>2. CASE elapsed = tick * ticks
      <4>1. time < tick * ticks + tick
        BY <1>3, <1>5
      <4>2. elapsed >= tick
        BY <1>8, <3>1, <3>2
      <4>3. time \in Nat /\ elapsed \in Nat
        BY <1>2, <2>1
      <4>4. QED BY <1>5, <3>2, <4>1, <4>2, <4>3
    <3>3. CASE elapsed = tick * (ticks + 1)
      BY <1>2, <1>3, <3>3, <2>1
    <3>4. QED BY <1>4, <3>2, <3>3
  <2> DEFINE q == (iters * CHUNK_TARGET) \div elapsed
  <2>3. iters * CHUNK_TARGET \in Nat
    BY <1>1
  <2>4. q \in Nat /\ elapsed * q <= iters * CHUNK_TARGET
    BY <2>1, <2>3, Quotient
  <2> HIDE DEF q
  <2>5. NextIters(elapsed) = AtMost(AtLeastOne(q))
    BY <1>8 DEF NextIters, q
  <2> DEFINE n == AtMost(AtLeastOne(q))
  <2>6. n \in Nat /\ n >= 1 /\ n <= MAX_CHUNK_ITERS /\ (n = 1 \/ n <= q)
    BY <1>1, <2>4 DEF AtMost, AtLeastOne
  <2> HIDE DEF n
  <2>7. ASSUME n <= q PROVE n * cost < 2 * CHUNK_TARGET
    <3>1. n * elapsed <= q * elapsed
      BY <2>1, <2>4, <2>6, <2>7, Monotone
    <3>2. n * elapsed <= iters * CHUNK_TARGET
      <4>1. q * elapsed = elapsed * q /\ q * elapsed \in Nat /\ n * elapsed \in Nat
        BY <2>1, <2>4, <2>6
      <4>2. QED BY <2>3, <2>4, <3>1, <4>1
    <3>3. (n * elapsed) * cost <= (iters * CHUNK_TARGET) * cost
      <4>1. n * elapsed \in Nat
        BY <2>1, <2>6
      <4>2. QED BY <2>3, <3>2, <4>1, Monotone
    <3>4. iters * cost < 2 * elapsed
      BY <1>2, <2>1, <2>2
    <3>5. (iters * cost + 1) * CHUNK_TARGET <= (2 * elapsed) * CHUNK_TARGET
      <4>1. iters * cost + 1 \in Nat /\ 2 * elapsed \in Nat /\ iters * cost + 1 <= 2 * elapsed
        BY <1>2, <2>1, <3>4
      <4>2. QED BY <1>1, <4>1, Monotone
    <3>6. (iters * cost + 1) * CHUNK_TARGET = (iters * CHUNK_TARGET) * cost + CHUNK_TARGET
      BY <1>1
    <3>7. (n * elapsed) * cost = (n * cost) * elapsed
          /\ (2 * elapsed) * CHUNK_TARGET = (2 * CHUNK_TARGET) * elapsed
      BY <1>1, <2>1, <2>6
    <3>8. /\ (n * cost) * elapsed \in Nat /\ (2 * CHUNK_TARGET) * elapsed \in Nat
          /\ (iters * CHUNK_TARGET) * cost \in Nat
      BY <1>1, <2>1, <2>6
    <3>9. (n * cost) * elapsed < (2 * CHUNK_TARGET) * elapsed
      BY <1>1, <3>3, <3>5, <3>6, <3>7, <3>8
    <3>10. n * cost \in Nat /\ 2 * CHUNK_TARGET \in Nat
      BY <1>1, <2>6
    <3>11. QED BY <2>1, <3>9, <3>10, Cancels
  <2>8. QED BY <1>1, <2>5, <2>6, <2>7 DEF Short, n
<1>9. QED BY <1>7, <1>8

\* Until the calibration has looked at the clock, the chunk is a single iteration.
Calibration ==
  /\ cost \in Nat \ {0} /\ tick \in Nat \ {0} /\ iters \in 1 .. MAX_CHUNK_ITERS
  /\ Short(iters)

LEMMA CalibrationStarts == RInit => Calibration
  BY RunAssumption DEF RInit, Calibration, Short

LEMMA CalibrationStep == Calibration /\ [RNext]_runVars => Calibration'
<1> SUFFICES ASSUME Calibration, [RNext]_runVars PROVE Calibration'
  OBVIOUS
<1>1. CASE Calibrate
  <2>0. PICK delay \in Delays :
          \E elapsed \in Readings(iters * cost + delay) : iters' = NextIters(elapsed)
    BY <1>1 DEF Calibrate
  <2>1. PICK elapsed \in Readings(iters * cost + delay) : iters' = NextIters(elapsed)
    BY <2>0
  <2>2. cost' = cost /\ tick' = tick
    BY <1>1 DEF Calibrate
  <2>3. delay \in Nat /\ iters \in Nat \ {0}
    BY RunAssumption DEF Calibration
  <2>4. NextIters(elapsed) \in 1 .. MAX_CHUNK_ITERS /\ Short(NextIters(elapsed))
    BY <2>3, NextIsShort DEF Calibration
  <2>5. QED BY <2>1, <2>2, <2>4 DEF Calibration, Short
<1>2. CASE UNCHANGED <<iters, cost, tick>>
  BY <1>2 DEF Calibration, Short
<1>3. QED BY <1>1, <1>2 DEF RNext, runVars, SetForceScalar, Initialize, ChooseKernel,
                           Probe, Chunk, Count

\* The chunk is bounded for every cost of an iteration, every resolution of the clock
\* and every delay.
THEOREM ChunksAreBounded == RSpec => []ChunkBounded
<1>1. Calibration => ChunkBounded
  BY DEF Calibration, ChunkBounded, Short
<1>2. QED BY CalibrationStarts, CalibrationStep, <1>1, PTL DEF RSpec

-----------------------------------------------------------------------------
(* The count                                                                 *)

\* The operations of one iteration, as Probe finds them.
OpsOf(isa, p) == IF IsFloating(p) THEN Flops(isa, p, 1) ELSE ElementCount(p) * 2

\* The loops of the kernels take n times the cells of one iteration.
LEMMA WorkPerIteration ==
  ASSUME NEW isa \in Isas, NEW p \in Precisions, NEW n \in Nat
  PROVE  OpsOf(isa, p) \in Nat /\ Work(isa, p, n) = n * OpsOf(isa, p)
<1>1. CASE IsFloating(p)
  <2> DEFINE c == ComputeKernel(isa, p)
  <2>1. /\ c.unroll \in {1, 4}
        /\ \E f \in Nat : 2 * c.chains * c.lanes = f /\ c.flops = f
    <3>1. p = "fp64" \/ p = "fp32"
      BY <1>1 DEF IsFloating
    <3> USE DEF Isas, ComputeKernel, Compute
    <3>2. CASE p = "fp64"
      BY <3>2 DEF DoubleKernel, scalar_double, sse2_double, avx_double, avx2_double,
                  avx512_double, neon_double
    <3>3. CASE p = "fp32"
      BY <3>1, <3>3 DEF FloatKernel, scalar_float, sse2_float, avx_float, avx2_float,
                  avx512_float, neon_float
    <3>4. QED BY <3>1, <3>2, <3>3
  <2> HIDE DEF c
  <2>2. PICK f \in Nat : 2 * c.chains * c.lanes = f /\ c.flops = f
    BY <2>1
  <2>3. Iterations(c.unroll, n) = n
    <3>1. 4 * (n \div 4) + (n % 4) = n /\ 1 * (n \div 1) + (n % 1) = n
      BY SMT
    <3>2. QED BY <2>1, <3>1 DEF Iterations
  <2>4. Work(isa, p, n) = f * n
    BY <1>1, <2>2, <2>3 DEF Work, c
  <2>5. OpsOf(isa, p) = f
    BY <1>1, <2>2 DEF OpsOf, Flops, c
  <2>6. QED BY <2>4, <2>5
<1>2. CASE ~ IsFloating(p)
  <2>1. \E k \in Nat : L2_TARGET_SIZE = 16 * k
    <3>1. L2_TARGET_SIZE \in Nat /\ L2_TARGET_SIZE % 16 = 0
      BY RunAssumption
    <3>2. L2_TARGET_SIZE \div 16 \in Nat /\ L2_TARGET_SIZE = 16 * (L2_TARGET_SIZE \div 16)
      BY <3>1
    <3>3. QED BY <3>2
  <2>2. PICK k \in Nat : L2_TARGET_SIZE = 16 * k
    BY <2>1
  <2>3. Pass(isa, p) = ElementCount(p) /\ ElementCount(p) \in Nat
    <3>1. (16 * k) \div 2 = 8 * k /\ (8 * k) \div 2 = 4 * k
      BY SMT
    <3>2. /\ 4 * ((4 * k) \div 4) = 4 * k /\ 8 * ((8 * k) \div 8) = 8 * k
          /\ 4 * ((16 * k) \div 4) = 16 * k
      BY SMT
    <3>3. p \in {"fp16", "int8", "fp4"}
      BY <1>2 DEF IsFloating, Precisions
    <3>4. QED BY <2>2, <3>1, <3>2, <3>3 DEF Pass, ElementCount
  <2>4. Work(isa, p, n) = 2 * n * Pass(isa, p) /\ OpsOf(isa, p) = ElementCount(p) * 2
    BY <1>2 DEF Work, OpsOf
  <2>5. QED BY <2>3, <2>4
<1>3. QED BY <1>1, <1>2

\* Each chunk so far has executed its iterations, all of the same length.
Counting ==
  /\ impl \in Isas /\ precision \in Precisions /\ iters \in Nat /\ chunks \in Nat
  /\ stage \in {"main", "init", "kernel", "probe", "calibrate"} => chunks = 0
  /\ stage \in {"calibrate", "measure", "done"} => ops_per_iter = OpsOf(impl, precision)
  /\ executed = chunks * (iters * OpsOf(impl, precision))
  /\ OpsCounted

LEMMA CountingStarts == RInit => Counting
<1> SUFFICES ASSUME RInit PROVE Counting
  OBVIOUS
<1>1. impl \in Isas /\ precision \in Precisions /\ iters \in Nat /\ chunks = 0 /\ executed = 0
  BY DEF RInit, Isas
<1>2. OpsOf(impl, precision) \in Nat
  BY <1>1, WorkPerIteration
<1>3. QED BY <1>1, <1>2 DEF RInit, Counting, OpsCounted

LEMMA CountingStep == Selection' /\ Calibration' /\ Counting /\ [RNext]_runVars => Counting'
<1> SUFFICES ASSUME Selection', Calibration', Counting, [RNext]_runVars PROVE Counting'
  OBVIOUS
<1>0. impl' \in Isas /\ iters' \in Nat
  BY RunAssumption DEF Selection, Calibration
<1>1. OpsOf(impl, precision) \in Nat /\ OpsOf(impl, precision)' \in Nat
  <2>1. precision' = precision
    BY DEF RNext, runVars, SetForceScalar, Initialize, ChooseKernel, Probe, Calibrate,
           Chunk, Count
  <2>2. OpsOf(impl, precision) \in Nat
    BY WorkPerIteration DEF Counting
  <2>3. OpsOf(impl', precision) \in Nat
    BY <1>0, WorkPerIteration DEF Counting
  <2>4. QED BY <2>1, <2>2, <2>3 DEF OpsOf, Flops, ElementCount, IsFloating
<1>2. CASE SetForceScalar \/ Initialize
  BY <1>2 DEF SetForceScalar, Initialize, Counting, OpsCounted, OpsOf, Flops, ElementCount,
              IsFloating
<1>3. CASE ChooseKernel
  <2>1. /\ stage' = "probe" /\ chunks' = 0 /\ executed' = executed /\ precision' = precision
        /\ chunks = 0
    BY <1>3 DEF ChooseKernel, Counting
  <2>2. executed = 0
    BY <1>1, <2>1 DEF Counting
  <2>3. executed' = chunks' * (iters' * OpsOf(impl, precision)')
    BY <1>0, <1>1, <2>1, <2>2
  <2>4. QED BY <1>0, <2>1, <2>3 DEF Counting, OpsCounted
<1>4. CASE Probe
  <2>1. /\ stage = "probe" /\ stage' = "calibrate"
        /\ UNCHANGED <<impl, precision, iters, chunks, executed>>
        /\ ops_per_iter' = OpsOf(impl, precision)
    BY <1>4 DEF Probe, OpsOf
  <2>2. OpsOf(impl, precision)' = OpsOf(impl, precision)
    BY <2>1 DEF OpsOf, Flops, ElementCount, IsFloating
  <2>3. QED BY <2>1, <2>2 DEF Counting, OpsCounted
<1>5. CASE Calibrate
  <2>1. /\ stage = "calibrate" /\ stage' \in {"measure", "calibrate"}
        /\ UNCHANGED <<impl, precision, chunks, executed, ops_per_iter>>
    BY <1>5 DEF Calibrate
  <2>2. chunks = 0 /\ executed = 0
    BY <1>1, <2>1 DEF Counting
  <2>3. OpsOf(impl, precision)' = OpsOf(impl, precision)
    BY <2>1 DEF OpsOf, Flops, ElementCount, IsFloating
  <2>4. executed' = chunks' * (iters' * OpsOf(impl, precision)')
    BY <1>0, <1>1, <2>1, <2>2
  <2>5. QED BY <1>0, <2>1, <2>2, <2>3, <2>4 DEF Counting, OpsCounted
<1>6. CASE Chunk
  <2>1. /\ stage = "measure" /\ stage' = "measure" /\ chunks' = chunks + 1
        /\ UNCHANGED <<impl, precision, iters, ops_per_iter>>
        /\ executed' = executed + Work(impl, precision, iters)
    BY <1>6 DEF Chunk
  <2>2. OpsOf(impl, precision)' = OpsOf(impl, precision)
    BY <2>1 DEF OpsOf, Flops, ElementCount, IsFloating
  <2>3. Work(impl, precision, iters) = iters * OpsOf(impl, precision)
    BY WorkPerIteration DEF Counting
  <2> DEFINE w == iters * OpsOf(impl, precision)
  <2>4. w \in Nat
    BY <1>1 DEF Counting
  <2>5. executed' = chunks * w + w /\ chunks \in Nat
    BY <2>1, <2>3 DEF Counting
  <2>6. executed' = chunks' * (iters' * OpsOf(impl, precision)')
    <3>1. iters' * OpsOf(impl, precision)' = w
      BY <2>1, <2>2
    <3> HIDE DEF w
    <3>2. QED BY <2>1, <2>4, <2>5, <3>1
  <2>7. QED BY <2>1, <2>2, <2>5, <2>6 DEF Counting, OpsCounted
<1>7. CASE Count
  <2>1. /\ stage = "measure" /\ stage' = "done"
        /\ UNCHANGED <<impl, precision, iters, chunks, executed, ops_per_iter>>
        /\ counted' = chunks * iters * ops_per_iter
    BY <1>7 DEF Count
  <2>2. OpsOf(impl, precision)' = OpsOf(impl, precision)
    BY <2>1 DEF OpsOf, Flops, ElementCount, IsFloating
  <2>3. ops_per_iter = OpsOf(impl, precision)
        /\ executed = chunks * (iters * OpsOf(impl, precision))
    BY <2>1 DEF Counting
  <2>4. counted' = executed
    <3>1. chunks \in Nat /\ iters \in Nat
      BY DEF Counting
    <3>2. QED BY <1>1, <2>1, <2>3, <3>1
  <2>5. QED BY <2>1, <2>2, <2>4 DEF Counting, OpsCounted
<1>8. CASE UNCHANGED runVars
  <2>1. OpsOf(impl, precision)' = OpsOf(impl, precision)
    BY <1>8 DEF runVars, OpsOf, Flops, ElementCount, IsFloating
  <2>2. QED BY <1>8, <2>1 DEF runVars, Counting, OpsCounted
<1>9. QED BY <1>2, <1>3, <1>4, <1>5, <1>6, <1>7, <1>8 DEF RNext

\* The operations that are reported are those that were executed, for every size of the
\* arrays that the vectors divide, every number of chunks and every build.
THEOREM OperationsAreCounted == RSpec => []OpsCounted
<1>1. Counting => OpsCounted
  BY DEF Counting
<1>2. QED
  BY SelectionStarts, SelectionStep, CalibrationStarts, CalibrationStep, CountingStarts,
     CountingStep, <1>1, PTL DEF RSpec

-----------------------------------------------------------------------------
(* The lanes of the dot products                                             *)

LEMMA ProductInRange ==
  ASSUME DotInv, NEW l \in DotLanes, dpc = "vector", pos + Stride <= EndOfBlock
  PROVE  /\ Products(l) \in Int
         /\ Products(l) <= MaxProduct * dot.per /\ - (MaxProduct * dot.per) <= Products(l)
<1>1. /\ dot.lanes \in Nat \ {0, 1} /\ dot.per \in {1, 2} /\ MaxProduct \in Nat
      /\ arrays.count \in Nat
      /\ arrays.product \in [0 .. arrays.count - 1 -> (- MaxProduct) .. MaxProduct]
  BY DotAssumption DEF DotInv
<1>2. pos \in Nat /\ base \in Nat /\ l \in Nat /\ l < dot.lanes
  BY <1>1 DEF DotInv, DotLanes
<1>3. EndOfBlock <= arrays.count
  BY <1>1, <1>2, DotAssumption DEF EndOfBlock
<1>4. CASE dot.per = 1
  <2>1. Stride = dot.lanes
    BY <1>1, <1>4 DEF Stride
  <2>2. EndOfBlock \in Int
    BY <1>1, <1>2, DotAssumption DEF EndOfBlock
  <2>3. pos + l \in 0 .. arrays.count - 1
    BY <1>1, <1>2, <1>3, <2>1, <2>2
  <2>4. Products(l) = arrays.product[pos + l]
    BY <1>1, <1>2, <1>4, <2>3 DEF Products
  <2>5. QED BY <1>1, <1>4, <2>3, <2>4
<1>5. CASE dot.per = 2
  <2>1. Stride = 2 * dot.lanes
    BY <1>1, <1>5 DEF Stride
  <2>2. EndOfBlock \in Int
    BY <1>1, <1>2, DotAssumption DEF EndOfBlock
  <2>3. pos + 2 * l \in 0 .. arrays.count - 1 /\ pos + 2 * l + 1 \in 0 .. arrays.count - 1
    BY <1>1, <1>2, <1>3, <2>1, <2>2
  <2>4. Products(l) = arrays.product[pos + 2 * l] + arrays.product[pos + 2 * l + 1]
    BY <1>5 DEF Products
  <2>5. QED BY <1>1, <1>5, <2>3, <2>4
<1>6. QED BY <1>1, <1>4, <1>5

LEMMA DotStarts == DInit => DotInv
<1> SUFFICES ASSUME DInit PROVE DotInv
  OBVIOUS
<1>1. dot.lanes \in Nat /\ MaxProduct \in Nat /\ kBlockSize \in Nat
  BY DotAssumption DEF DInit
<1>2. MaxProduct * kBlockSize \in Nat
  BY <1>1
<1>3. \A l \in DotLanes : acc[l] * dot.lanes = 0
  BY <1>1 DEF DInit
<1>4. QED BY <1>2, <1>3 DEF DInit, DotInv

LEMMA DotStep == DotInv /\ [DNext]_dotVars => DotInv'
<1> SUFFICES ASSUME DotInv, [DNext]_dotVars PROVE DotInv'
  OBVIOUS
<1>0. /\ dot.lanes \in Nat \ {0, 1} /\ dot.per \in {1, 2} /\ MaxProduct \in Nat
      /\ kBlockSize \in Nat \ {0} /\ arrays.count \in Nat /\ base \in Nat /\ pos \in Nat
      /\ MaxProduct * kBlockSize \in Nat /\ EndOfBlock \in Int /\ EndOfBlock <= base + kBlockSize
  BY DotAssumption DEF DotInv, EndOfBlock
<1>1. CASE OpenBlock
  <2>1. /\ base < arrays.count /\ pos' = base /\ dpc' = "vector"
        /\ UNCHANGED <<dot, arrays, base>>
        /\ acc' = [l \in DotLanes |-> 0]
    BY <1>1 DEF OpenBlock
  <2>2. \A l \in DotLanes : acc'[l] * dot.lanes = 0
    BY <1>0, <2>1
  <2>3. MaxProduct * (pos' - base) = 0 /\ pos' <= EndOfBlock
    BY <1>0, <2>1 DEF EndOfBlock
  <2>4. EndOfBlock' = EndOfBlock /\ DotLanes' = DotLanes
    BY <2>1 DEF EndOfBlock, DotLanes
  <2>5. acc' \in [DotLanes -> Int] /\ pos' \in Nat
    BY <1>0, <2>1
  <2>6. QED BY <1>0, <2>1, <2>2, <2>3, <2>4, <2>5 DEF DotInv
<1>2. CASE VectorStep
  <2>1. /\ dpc = "vector" /\ pos + Stride <= EndOfBlock /\ dpc' = dpc
        /\ pos' = pos + Stride /\ UNCHANGED <<dot, arrays, base>>
        /\ acc' = [l \in DotLanes |-> acc[l] + Products(l)]
    BY <1>2 DEF VectorStep
  <2>2. EndOfBlock' = EndOfBlock /\ DotLanes' = DotLanes
    BY <2>1 DEF EndOfBlock, DotLanes
  <2>3. Stride \in Nat /\ base <= pos /\ pos' \in Nat /\ base <= pos' /\ pos' <= EndOfBlock
    BY <1>0, <2>1 DEF DotInv, Stride
  <2>4. ASSUME NEW l \in DotLanes
        PROVE  /\ acc'[l] \in Int
               /\ acc'[l] * dot.lanes <= MaxProduct * (pos' - base)
               /\ - (MaxProduct * (pos' - base)) <= acc'[l] * dot.lanes
    <3>1. /\ Products(l) \in Int /\ Products(l) <= MaxProduct * dot.per
          /\ - (MaxProduct * dot.per) <= Products(l)
      BY <2>1, ProductInRange
    <3>2. /\ acc[l] \in Int /\ acc[l] * dot.lanes <= MaxProduct * (pos - base)
          /\ - (MaxProduct * (pos - base)) <= acc[l] * dot.lanes
      BY <2>1 DEF DotInv
    <3>3. acc'[l] = acc[l] + Products(l)
      BY <2>1
    <3>4. /\ Products(l) * dot.lanes <= (MaxProduct * dot.per) * dot.lanes
          /\ - ((MaxProduct * dot.per) * dot.lanes) <= Products(l) * dot.lanes
      <4> DEFINE P == Products(l)
      <4> DEFINE B == MaxProduct * dot.per
      <4>1. B \in Int /\ P \in Int /\ B - P >= 0 /\ B + P >= 0
        BY <1>0, <3>1
      <4> HIDE DEF P, B
      <4>2. (B - P) * dot.lanes >= 0 /\ (B + P) * dot.lanes >= 0
        BY <1>0, <4>1
      <4>3. /\ (B - P) * dot.lanes = B * dot.lanes - P * dot.lanes
            /\ (B + P) * dot.lanes = B * dot.lanes + P * dot.lanes
        BY <1>0, <4>1
      <4>4. B * dot.lanes \in Int /\ P * dot.lanes \in Int
        BY <1>0, <4>1
      <4>5. P * dot.lanes <= B * dot.lanes /\ - (B * dot.lanes) <= P * dot.lanes
        BY <4>2, <4>3, <4>4
      <4>6. QED BY <4>5 DEF P, B
    <3>5. MaxProduct * (pos' - base) = MaxProduct * (pos - base) + (MaxProduct * dot.per) * dot.lanes
      BY <1>0, <2>1 DEF Stride
    <3>6. acc'[l] * dot.lanes = acc[l] * dot.lanes + Products(l) * dot.lanes
      BY <1>0, <3>1, <3>2, <3>3
    <3>7. /\ acc[l] * dot.lanes \in Int /\ Products(l) * dot.lanes \in Int
          /\ MaxProduct * (pos - base) \in Int /\ (MaxProduct * dot.per) * dot.lanes \in Int
      BY <1>0, <3>1, <3>2
    <3>8. QED BY <3>1, <3>2, <3>3, <3>4, <3>5, <3>6, <3>7
  <2>5. MaxProduct * (pos' - base) <= MaxProduct * kBlockSize
    <3>1. pos' - base \in Nat /\ pos' - base <= kBlockSize
      <4>1. pos' <= base + kBlockSize
        BY <1>0, <2>3
      <4>2. pos' \in Nat /\ base \in Nat /\ base <= pos' /\ kBlockSize \in Nat
        BY <1>0, <2>3
      <4>3. ASSUME NEW end \in Nat, NEW start \in Nat, NEW size \in Nat,
                   start <= end, end <= start + size
            PROVE  end - start \in Nat /\ end - start <= size
        BY <4>3
      <4>4. QED BY <4>1, <4>2, <4>3
    <3>2. (pos' - base) * MaxProduct <= kBlockSize * MaxProduct
      BY <1>0, <3>1, Monotone
    <3>3. QED BY <1>0, <3>1, <3>2
  <2>6. ASSUME NEW l \in DotLanes
        PROVE  /\ acc'[l] * dot.lanes <= MaxProduct * kBlockSize
               /\ - (MaxProduct * kBlockSize) <= acc'[l] * dot.lanes
    <3>1. MaxProduct * (pos' - base) \in Int /\ acc'[l] * dot.lanes \in Int
      BY <1>0, <2>3, <2>4
    <3>2. QED BY <1>0, <2>4, <2>5, <3>1
  <2>7. acc' \in [DotLanes -> Int]
    BY <2>1, <2>4
  <2>8. QED BY <2>1, <2>2, <2>3, <2>4, <2>6, <2>7 DEF DotInv
<1>3. CASE SumLanes
  BY <1>3 DEF SumLanes, DotInv, DotLanes
<1>4. CASE TailStep
  <2>1. /\ dpc' = "tail" /\ pos' = pos + 1 /\ UNCHANGED <<dot, arrays, base, acc>>
    BY <1>4 DEF TailStep
  <2>2. QED BY <1>0, <2>1 DEF DotInv, DotLanes
<1>5. CASE CloseBlock
  <2>1. dpc' = "block" /\ base' = base + kBlockSize /\ UNCHANGED <<dot, arrays, pos, acc>>
    BY <1>5 DEF CloseBlock
  <2>2. QED BY <1>0, <2>1 DEF DotInv, DotLanes
<1>6. CASE NextIteration
  BY <1>6 DEF NextIteration, DotInv, DotLanes
<1>7. CASE DotReturn
  BY <1>7 DEF DotReturn, DotInv, DotLanes
<1>8. CASE UNCHANGED dotVars
  BY <1>8 DEF dotVars, DotInv, DotLanes, EndOfBlock
<1>9. QED BY <1>1, <1>2, <1>3, <1>4, <1>5, <1>6, <1>7, <1>8 DEF DNext

LEMMA DotInRange == DotInv => SumsInRange
<1> SUFFICES ASSUME DotInv PROVE SumsInRange
  OBVIOUS
<1>1. /\ dot.lanes \in Nat \ {0, 1} /\ MaxProduct * kBlockSize \in Int /\ Int32Max \in Nat
      /\ MaxProduct * kBlockSize <= Int32Max
  BY DotAssumption DEF DotInv
<1>2. ASSUME NEW l \in DotLanes
      PROVE  acc[l] \in Int /\ 2 * acc[l] <= Int32Max /\ - Int32Max <= 2 * acc[l]
  <2> DEFINE v == acc[l]
  <2> DEFINE top == MaxProduct * kBlockSize
  <2> DEFINE n == dot.lanes
  <2>1. v \in Int /\ v * n <= top /\ - top <= v * n
    BY DEF DotInv
  <2>2. n \in Nat /\ n >= 2 /\ top \in Int /\ top <= Int32Max
    BY <1>1
  <2> HIDE DEF v, top, n
  <2>3. CASE v >= 0
    <3>1. v * (n - 2) >= 0
      BY <2>1, <2>2, <2>3
    <3>2. v * (n - 2) = v * n - 2 * v /\ v * n \in Int
      BY <2>1, <2>2
    <3>3. 2 * v <= Int32Max /\ - Int32Max <= 2 * v
      BY <1>1, <2>1, <2>2, <2>3, <3>1, <3>2
    <3>4. QED BY <2>1, <3>3 DEF v
  <2>4. CASE v < 0
    <3>1. (- v) * (n - 2) >= 0
      BY <2>1, <2>2, <2>4
    <3>2. (- v) * (n - 2) = 2 * v - v * n /\ v * n \in Int
      BY <2>1, <2>2
    <3>3. 2 * v <= Int32Max /\ - Int32Max <= 2 * v
      BY <1>1, <2>1, <2>2, <2>4, <3>1, <3>2
    <3>4. QED BY <2>1, <3>3 DEF v
  <2>5. QED BY <2>1, <2>3, <2>4
<1>3. QED BY <1>1, <1>2 DEF SumsInRange, InInt32

\* No lane overflows, nor the sum of two, for every block size whose largest sum fits.
THEOREM LanesStayInRange == DSpec => []SumsInRange
BY DotStarts, DotStep, DotInRange, PTL DEF DSpec

-----------------------------------------------------------------------------
(* The sums of the dot products                                              *)

LEMMA FoldsAreSums ==
  ASSUME NEW f
  PROVE  /\ \A from, to : SumOver(f, from, to) = SumTo(f, from, to)
         /\ SumAll(f) = SumOf(f, DOMAIN f)
<1>1. \A from, to : SumOver(f, from, to) = SumTo(f, from, to)
  BY DEF SumOver, SumTo, FoldFunctionOnSet, MapThenFoldSet, SumOf
<1>2. SumAll(f) = SumOf(f, DOMAIN f)
  BY DEF SumAll, FoldFunction, FoldFunctionOnSet, MapThenFoldSet, SumOf
<1> QED BY <1>1, <1>2

LEMMA SumOfZeros ==
  ASSUME NEW S, IsFiniteSet(S), NEW f, \A x \in S : f[x] = 0
  PROVE  SumOf(f, S) = 0
<1>1. SumOf(f, S) \in Int
  BY SumType
<1>2. SumOf(f, S) = SumOf(f, S) + SumOf(f, S)
  <2>1. \A x \in S : f[x] \in Int /\ f[x] = f[x] + f[x]
    OBVIOUS
  <2> QED BY <2>1, SumPlus
<1> QED BY <1>1, <1>2

LEMMA DotFacts ==
  ASSUME DotInv
  PROVE  /\ dot.lanes \in Nat \ {0, 1} /\ dot.per \in {1, 2} /\ dot.tail \in BOOLEAN
         /\ Stride \in Nat \ {0} /\ kBlockSize \in Nat \ {0}
         /\ ~ dot.tail => kBlockSize % Stride = 0
         /\ arrays.count \in Nat /\ base \in Nat /\ pos \in Nat
         /\ DOMAIN arrays.product = 0 .. arrays.count - 1
         /\ \A i \in 0 .. arrays.count - 1 : arrays.product[i] \in Int
         /\ EndOfBlock \in Nat /\ EndOfBlock <= arrays.count
         /\ EndOfBlock = IF base + kBlockSize > arrays.count THEN arrays.count
                         ELSE base + kBlockSize
         /\ acc \in [DotLanes -> Int] /\ DotLanes = 0 .. dot.lanes - 1
<1>1. /\ dot.lanes \in Nat \ {0, 1} /\ dot.per \in {1, 2} /\ dot.tail \in BOOLEAN
      /\ kBlockSize \in Nat \ {0} /\ MaxProduct \in Nat
      /\ ~ dot.tail => kBlockSize % (dot.lanes * dot.per) = 0
      /\ arrays.count \in Nat /\ base \in Nat /\ pos \in Nat
      /\ arrays.product \in [0 .. arrays.count - 1 -> (- MaxProduct) .. MaxProduct]
      /\ acc \in [DotLanes -> Int]
  BY DotAssumption DEF DotInv
<1>2. Stride \in Nat \ {0} /\ (~ dot.tail => kBlockSize % Stride = 0)
  BY <1>1 DEF Stride
<1>3. EndOfBlock \in Nat /\ EndOfBlock <= arrays.count
  BY <1>1 DEF EndOfBlock
<1>4. \A i \in 0 .. arrays.count - 1 : arrays.product[i] \in Int
  BY <1>1
<1> QED BY <1>1, <1>2, <1>3, <1>4 DEF EndOfBlock, DotLanes

\* What a step adds to all lanes is the sum of the cells that it goes past.
LEMMA StepSum ==
  ASSUME DotInv, pos + Stride <= EndOfBlock
  PROVE  /\ \A l \in DotLanes : Products(l) \in Int
         /\ SumOf([l \in DotLanes |-> Products(l)], DotLanes)
              = SumTo(arrays.product, pos, pos + Stride)
<1> DEFINE P == [l \in DotLanes |-> Products(l)]
           f == arrays.product
           per == dot.per
           at(m) == pos + per * m
           Fails(m) == SumTo(P, 0, m) # SumTo(f, pos, at(m))
           Bad == {m \in 0 .. dot.lanes : Fails(m)}
<1>1. /\ dot.lanes \in Nat \ {0, 1} /\ per \in {1, 2} /\ pos \in Nat
      /\ DotLanes = 0 .. dot.lanes - 1 /\ Stride = per * dot.lanes
      /\ at(dot.lanes) = pos + Stride /\ at(0) = pos
  BY DotFacts DEF Stride
<1>2. \A x \in pos .. pos + Stride - 1 : f[x] \in Int
  <2>1. pos + Stride <= arrays.count /\ arrays.count \in Nat /\ pos \in Nat /\ Stride \in Nat
    BY DotFacts
  <2>2. \A x \in pos .. pos + Stride - 1 : x \in 0 .. arrays.count - 1
    BY <2>1
  <2> QED BY <2>2, DotFacts
<1>3. ASSUME NEW l \in DotLanes
      PROVE  /\ at(l) \in Nat /\ at(l + 1) \in Nat /\ pos <= at(l)
             /\ at(l + 1) = at(l) + per /\ at(l + 1) <= pos + Stride
             /\ Products(l) = (IF per = 2 THEN f[at(l)] + f[at(l) + 1] ELSE f[at(l)])
             /\ Products(l) \in Int
  <2>1. l \in Nat /\ l < dot.lanes
    BY <1>1
  <2>2. /\ at(l) \in Nat /\ at(l + 1) \in Nat /\ pos <= at(l)
        /\ at(l + 1) = at(l) + per /\ at(l + 1) <= pos + Stride
    <3>1. CASE per = 1
      BY <1>1, <2>1, <3>1
    <3>2. CASE per = 2
      BY <1>1, <2>1, <3>2
    <3> QED BY <1>1, <3>1, <3>2
  <2>3. f[at(l)] \in Int /\ (per = 2 => f[at(l) + 1] \in Int)
    <3>1. at(l) \in pos .. pos + Stride - 1
      BY <1>1, <2>2
    <3>2. per = 2 => at(l) + 1 \in pos .. pos + Stride - 1
      BY <1>1, <2>2
    <3> HIDE DEF at, f
    <3> QED BY <1>2, <3>1, <3>2
  <2>4. Products(l) = f[at(l)] + (IF per = 2 THEN f[at(l) + 1] ELSE 0)
    BY DEF Products
  <2> HIDE DEF at, f, per
  <2> QED BY <1>1, <2>2, <2>3, <2>4
<1> HIDE DEF at, f, per
<1>4. Bad = {}
  <2> SUFFICES ASSUME Bad # {} PROVE FALSE
    OBVIOUS
  <2>1. PICK m \in Bad : \A k \in Bad : m <= k
    <3>1. Bad \in SUBSET Nat
      BY <1>1
    <3> HIDE DEF Bad
    <3> QED BY <3>1, LeastElement
  <2>2. m \in 0 .. dot.lanes /\ Fails(m)
    OBVIOUS
  <2>3. m # 0
    BY <1>1, <2>2, IntervalEmpty
  <2> DEFINE l == m - 1
  <2>4. l \in DotLanes /\ l \in Nat /\ l + 1 = m
    BY <1>1, <2>2, <2>3
  <2>5. SumTo(P, 0, l) = SumTo(f, pos, at(l))
    <3>1. l \in 0 .. dot.lanes /\ ~ (m <= l)
      BY <1>1, <2>2, <2>4
    <3>2. l \notin Bad
      <4> HIDE DEF Bad, l
      <4> QED BY <2>1, <3>1
    <3> QED BY <3>1, <3>2
  <2> HIDE DEF l
  <2>6. SumTo(P, 0, l + 1) = SumTo(P, 0, l) + Products(l)
    <3>1. \A x \in 0 .. l : P[x] = Products(x) /\ P[x] \in Int
      BY <1>1, <1>3, <2>4
    <3>2. P[l] = Products(l)
      BY <2>4
    <3> HIDE DEF P
    <3> QED BY <2>4, <3>1, <3>2, IntervalNext
  <2>7. /\ at(l) \in Nat /\ pos <= at(l) /\ at(l + 1) = at(l) + per /\ at(l + 1) <= pos + Stride
        /\ Products(l) = (IF per = 2 THEN f[at(l)] + f[at(l) + 1] ELSE f[at(l)])
    BY <1>3, <2>4
  <2>8. \A x \in pos .. at(l) + per - 1 : f[x] \in Int
    BY <1>1, <1>2, <2>7
  <2>9. SumTo(f, pos, at(l) + 1) = SumTo(f, pos, at(l)) + f[at(l)]
    <3> DEFINE e == at(l)
    <3>1. \A x \in pos .. e : f[x] \in Int
      BY <1>1, <2>7, <2>8
    <3>2. e \in Int /\ pos \in Int /\ pos <= e
      BY <1>1, <2>7
    <3> HIDE DEF e
    <3>3. SumTo(f, pos, e + 1) = SumTo(f, pos, e) + f[e]
      BY ONLY <3>1, <3>2, IntervalNext
    <3> QED BY <3>3 DEF e
  <2>10. CASE per = 1
    BY <2>2, <2>4, <2>5, <2>6, <2>7, <2>9, <2>10
  <2>11. CASE per = 2
    <3>1. \A x \in pos .. at(l) + 1 : f[x] \in Int
      BY <1>1, <2>7, <2>8, <2>11
    <3>2. SumTo(f, pos, (at(l) + 1) + 1) = SumTo(f, pos, at(l) + 1) + f[at(l) + 1]
      <4> DEFINE e == at(l) + 1
      <4>1. e \in Int /\ pos \in Int /\ pos <= e /\ \A x \in pos .. e : f[x] \in Int
        BY <1>1, <2>7, <3>1
      <4> HIDE DEF e
      <4>2. SumTo(f, pos, e + 1) = SumTo(f, pos, e) + f[e]
        BY ONLY <4>1, IntervalNext
      <4> QED BY <4>2 DEF e
    <3>3. SumTo(f, pos, at(l)) \in Int
      <4>1. \A x \in pos .. at(l) - 1 : f[x] \in Int
        BY <1>1, <2>7, <3>1
      <4> QED BY <1>1, <2>7, <4>1, IntervalType
    <3>4. f[at(l)] \in Int /\ f[at(l) + 1] \in Int
      BY <1>1, <2>7, <3>1
    <3>5. at(l + 1) = (at(l) + 1) + 1
      BY <2>7, <2>11
    <3>6. SumTo(f, pos, at(l + 1)) = SumTo(f, pos, at(l)) + Products(l)
      BY <2>7, <2>9, <2>11, <3>2, <3>3, <3>4, <3>5
    <3> QED BY <2>2, <2>4, <2>5, <2>6, <3>6
  <2> QED BY <1>1, <2>10, <2>11
<1>5. SumTo(P, 0, dot.lanes) = SumTo(f, pos, at(dot.lanes))
  <2>1. dot.lanes \in 0 .. dot.lanes
    BY <1>1
  <2> HIDE DEF P
  <2> QED BY <1>4, <2>1
<1>6. SumOf(P, DotLanes) = SumTo(P, 0, dot.lanes)
  BY <1>1 DEF SumTo
<1> QED BY <1>1, <1>3, <1>5, <1>6 DEF f

LEMMA BlockStarts == DInit => BlockInv
<1> SUFFICES ASSUME DInit PROVE BlockInv
  OBVIOUS
<1>1. DotInv
  BY DotStarts
<1>2. 0 % Stride = 0
  BY <1>1, DotFacts
<1> QED BY <1>2, DotAssumption DEF DInit, BlockInv

LEMMA BlockStep == DotInv /\ BlockInv /\ [DNext]_dotVars => BlockInv'
<1> SUFFICES ASSUME DotInv, BlockInv, [DNext]_dotVars PROVE BlockInv'
  OBVIOUS
<1> USE DotFacts
<1>1. CASE OpenBlock
  <2>1. base < arrays.count => base <= EndOfBlock
    OBVIOUS
  <2>2. Stride' = Stride /\ (EndOfBlock)' = EndOfBlock
    BY <1>1 DEF OpenBlock, Stride, EndOfBlock
  <2> QED BY <1>1, <2>1, <2>2 DEF OpenBlock, BlockInv
<1>2. CASE NextIteration
  <2>1. Stride' = Stride /\ 0 % Stride = 0
    BY <1>2 DEF NextIteration, Stride
  <2> QED BY <1>2, <2>1 DEF NextIteration, BlockInv
<1>3. CASE DotReturn
  <2>1. Stride' = Stride
    BY <1>3 DEF DotReturn, Stride
  <2> QED BY <1>3, <2>1 DEF DotReturn, BlockInv
<1>4. CASE VectorStep
  <2>1. Stride' = Stride /\ (EndOfBlock)' = EndOfBlock
    BY <1>4 DEF VectorStep, Stride, EndOfBlock
  <2>2. ~ dot.tail => (pos + Stride) % Stride = 0
    <3>1. Stride % Stride = 0
      OBVIOUS
    <3>2. ~ dot.tail => pos % Stride = 0
      BY <1>4 DEF VectorStep, BlockInv
    <3> QED BY <3>1, <3>2, DivisiblePlus
  <2> QED BY <1>4, <2>1, <2>2 DEF VectorStep, BlockInv
<1>5. CASE SumLanes
  <2>1. Stride' = Stride /\ (EndOfBlock)' = EndOfBlock
    BY <1>5 DEF SumLanes, Stride, EndOfBlock
  <2> QED BY <1>5, <2>1 DEF SumLanes, BlockInv
<1>6. CASE TailStep
  <2>1. Stride' = Stride /\ (EndOfBlock)' = EndOfBlock
    BY <1>6 DEF TailStep, Stride, EndOfBlock
  <2> QED BY <1>6, <2>1 DEF TailStep, BlockInv
<1>7. CASE CloseBlock
  <2>1. Stride' = Stride
    BY <1>7 DEF CloseBlock, Stride
  <2>2. ~ dot.tail => (base + kBlockSize) % Stride = 0
    <3>1. ~ dot.tail => base % Stride = 0
      BY DEF BlockInv
    <3> QED BY <3>1, DivisiblePlus
  <2> QED BY <1>7, <2>1, <2>2 DEF CloseBlock, BlockInv
<1>8. CASE UNCHANGED dotVars
  <2>1. Stride' = Stride /\ (EndOfBlock)' = EndOfBlock
    BY <1>8 DEF dotVars, Stride, EndOfBlock
  <2> QED BY <1>8, <2>1 DEF dotVars, BlockInv
<1> QED BY <1>1, <1>2, <1>3, <1>4, <1>5, <1>6, <1>7, <1>8 DEF DNext

\* A kernel whose blocks come out even reaches the end of each.
LEMMA BlockEndsWhole ==
  ASSUME DotInv, BlockInv, CloseBlock, Whole
  PROVE  pos = EndOfBlock
<1> USE DotFacts
<1>1. pos <= EndOfBlock /\ pos + Stride > EndOfBlock
  BY DEF BlockInv, CloseBlock
<1>2. CASE dot.tail
  BY <1>1, <1>2 DEF CloseBlock
<1>3. CASE ~ dot.tail
  <2>1. pos % Stride = 0 /\ base % Stride = 0 /\ arrays.count % Stride = 0
    BY <1>3 DEF BlockInv, CloseBlock, Whole
  <2>2. (base + kBlockSize) % Stride = 0
    BY <1>3, <2>1, DivisiblePlus
  <2>3. EndOfBlock % Stride = 0
    BY <2>1, <2>2
  <2> QED BY <1>1, <2>1, <2>3, DivisibleClose
<1> QED BY <1>2, <1>3

LEMMA ResultStarts == DInit => ResultInv
<1> SUFFICES ASSUME DInit PROVE ResultInv
  OBVIOUS
<1>1. DotInv
  BY DotStarts
<1>2. SumOver(arrays.product, 0, arrays.count) \in Int
  <2>1. SumOver(arrays.product, 0, arrays.count) = SumTo(arrays.product, 0, arrays.count)
    BY FoldsAreSums
  <2>2. arrays.count \in Int /\ \A x \in 0 .. arrays.count - 1 : arrays.product[x] \in Int
    BY <1>1, DotFacts
  <2>3. SumTo(arrays.product, 0, arrays.count) \in Int
    BY <2>2, IntervalType
  <2> QED BY <2>1, <2>3
<1>3. SumOver(arrays.product, 0, 0) = 0
  <2>1. SumOver(arrays.product, 0, 0) = SumTo(arrays.product, 0, 0)
    BY FoldsAreSums
  <2>2. SumTo(arrays.product, 0, 0) = 0
    BY IntervalEmpty
  <2> QED BY <2>1, <2>2
<1> DEFINE T == SumOver(arrays.product, 0, arrays.count)
<1>4. 0 = 0 * T + 0
  <2> HIDE DEF T
  <2> QED BY <1>2 DEF T
<1>5. (IF base < arrays.count THEN base ELSE arrays.count) = 0
  BY <1>1, DotFacts DEF DInit
<1>6. sum_total = 0 /\ iter = 0 /\ dpc = "block"
  BY DEF DInit
<1> QED BY <1>3, <1>4, <1>5, <1>6 DEF ResultInv

LEMMA ResultStep == DotInv /\ BlockInv /\ ResultInv /\ [DNext]_dotVars => ResultInv'
<1> SUFFICES ASSUME DotInv, BlockInv, ResultInv, [DNext]_dotVars PROVE ResultInv'
  OBVIOUS
<1> DEFINE f == arrays.product
           n == arrays.count
           T == SumTo(f, 0, n)
           Upto(c) == IF c < n THEN c ELSE n
<1>1. /\ n \in Nat /\ base \in Nat /\ pos \in Nat /\ Stride \in Nat \ {0}
      /\ kBlockSize \in Nat \ {0} /\ EndOfBlock \in Nat /\ EndOfBlock <= n
      /\ \A i \in 0 .. n - 1 : f[i] \in Int
      /\ acc \in [DotLanes -> Int] /\ IsFiniteSet(DotLanes)
  <2>1. DotLanes = 0 .. dot.lanes - 1 /\ 0 \in Int /\ dot.lanes - 1 \in Int
    BY DotFacts
  <2>2. IsFiniteSet(DotLanes)
    BY <2>1, FS_Interval
  <2> QED BY <2>2, DotFacts
<1>2. \A from \in Nat, to \in 0 .. n : SumTo(f, from, to) \in Int
  <2> SUFFICES ASSUME NEW from \in Nat, NEW to \in 0 .. n
               PROVE  SumTo(f, from, to) \in Int
    OBVIOUS
  <2>1. \A x \in from .. to - 1 : f[x] \in Int
    BY <1>1
  <2> QED BY <1>1, <2>1, IntervalType
<1>3. /\ dpc = "vector" => SumOf(acc, DotLanes) = SumTo(f, base, pos)
      /\ dpc = "tail" => block = SumTo(f, base, pos)
      /\ Whole => sum_total = iter * T + SumTo(f, 0, Upto(base))
  BY <1>1, FoldsAreSums DEF ResultInv
<1>4. ASSUME arrays' = arrays, dot' = dot,
             dpc' = "vector" => SumOf(acc', DOMAIN acc') = SumTo(f, base', pos'),
             dpc' = "tail" => block' = SumTo(f, base', pos'),
             Whole => sum_total' = iter' * T + SumTo(f, 0, Upto(base'))
      PROVE  ResultInv'
  <2>1. Whole' = Whole
    BY <1>4 DEF Whole, Stride
  <2>2. SumAll(acc') = SumOf(acc', DOMAIN acc')
    BY FoldsAreSums
  <2>3. \A from, to : SumOver(f, from, to) = SumTo(f, from, to)
    BY FoldsAreSums
  <2>4. /\ dpc' = "vector" => SumAll(acc') = SumOver(f, base', pos')
        /\ dpc' = "tail" => block' = SumOver(f, base', pos')
        /\ Whole' => sum_total' = iter' * SumOver(f, 0, n) + SumOver(f, 0, Upto(base'))
    <3> HIDE DEF f, n, Upto
    <3> QED BY <1>4, <2>1, <2>2, <2>3 DEF T
  <2>5. /\ f = (arrays.product)' /\ n = (arrays.count)'
        /\ Upto(base') = (IF base < arrays.count THEN base ELSE arrays.count)'
    BY <1>4
  <2> HIDE DEF f, n, Upto
  <2>6. /\ dpc' = "vector" => SumAll(acc') = SumOver((arrays.product)', base', pos')
        /\ dpc' = "tail" => block' = SumOver((arrays.product)', base', pos')
        /\ Whole' => sum_total' = iter' * SumOver((arrays.product)', 0, (arrays.count)')
                       + SumOver((arrays.product)', 0,
                                 (IF base < arrays.count THEN base ELSE arrays.count)')
    BY <2>4, <2>5
  <2> QED BY <2>6 DEF ResultInv
<1> HIDE DEF f, n, T, Upto
<1>5. CASE OpenBlock
  <2>1. acc' = [l \in DotLanes |-> 0] /\ DOMAIN acc' = DotLanes
    BY <1>5 DEF OpenBlock
  <2>2. SumOf(acc', DOMAIN acc') = 0
    BY <1>1, <2>1, SumOfZeros
  <2>3. SumTo(f, base, base) = 0
    BY <1>1, IntervalEmpty
  <2> QED BY <1>3, <1>4, <1>5, <2>2, <2>3 DEF OpenBlock
<1>6. CASE NextIteration
  <2>1. Upto(base) = n /\ Upto(0) = 0
    BY <1>1, <1>6 DEF NextIteration, n, Upto
  <2>2. T \in Int /\ SumTo(f, 0, n) = T /\ SumTo(f, 0, 0) = 0
    BY <1>1, <1>2, IntervalEmpty DEF T
  <2>3. iter \in Nat /\ iter' = iter + 1 /\ base' = 0 /\ sum_total' = sum_total
    BY <1>6 DEF NextIteration, BlockInv
  <2>4. iter * T + T = (iter + 1) * T + 0
    BY <2>2, <2>3
  <2>5. Whole => sum_total' = iter' * T + SumTo(f, 0, Upto(base'))
    BY <1>3, <2>1, <2>2, <2>3, <2>4
  <2> QED BY <1>4, <1>6, <2>5 DEF NextIteration
<1>7. CASE DotReturn
  BY <1>3, <1>4, <1>7 DEF DotReturn
<1>8. CASE VectorStep
  <2>1. /\ dpc = "vector" /\ pos + Stride <= EndOfBlock
        /\ acc' = [l \in DotLanes |-> acc[l] + Products(l)] /\ pos' = pos + Stride
        /\ dpc' = "vector" /\ base' = base /\ iter' = iter /\ sum_total' = sum_total
        /\ base <= pos
    BY <1>8 DEF VectorStep, BlockInv
  <2> DEFINE P == [l \in DotLanes |-> Products(l)]
  <2>2. /\ \A l \in DotLanes : P[l] \in Int
        /\ SumOf(P, DotLanes) = SumTo(f, pos, pos + Stride)
    BY <2>1, StepSum DEF f
  <2>3. SumOf(acc', DotLanes) = SumOf(acc, DotLanes) + SumOf(P, DotLanes)
    <3>1. \A l \in DotLanes : acc[l] \in Int /\ acc'[l] = acc[l] + P[l]
      BY <1>1, <2>1
    <3> HIDE DEF P
    <3> QED BY <1>1, <2>2, <3>1, SumPlus
  <2>4. SumTo(f, base, pos + Stride) = SumTo(f, base, pos) + SumTo(f, pos, pos + Stride)
    <3>1. \A x \in base .. (pos + Stride) - 1 : f[x] \in Int
      BY <1>1, <2>1
    <3> DEFINE e == pos + Stride
    <3>2. base \in Int /\ pos \in Int /\ e \in Int /\ base <= pos /\ pos <= e
      BY <1>1, <2>1
    <3> HIDE DEF e
    <3>3. \A x \in base .. e - 1 : f[x] \in Int
      BY <3>1 DEF e
    <3>4. SumTo(f, base, e) = SumTo(f, base, pos) + SumTo(f, pos, e)
      BY ONLY <3>2, <3>3, IntervalJoin
    <3> QED BY <3>4 DEF e
  <2>5. DOMAIN acc' = DotLanes
    BY <2>1
  <2> HIDE DEF P
  <2>6. SumOf(acc', DOMAIN acc') = SumTo(f, base', pos')
    BY <1>3, <2>1, <2>2, <2>3, <2>4, <2>5
  <2> QED BY <1>3, <1>4, <1>8, <2>1, <2>6 DEF VectorStep
<1>9. CASE SumLanes
  <2>1. block' = SumOf(acc, DotLanes)
    BY <1>1, <1>9, FoldsAreSums DEF SumLanes
  <2> QED BY <1>3, <1>4, <1>9, <2>1 DEF SumLanes
<1>10. CASE TailStep
  <2>1. /\ dpc = "tail" /\ pos < EndOfBlock /\ block' = block + f[pos] /\ pos' = pos + 1
        /\ base <= pos
    BY <1>10 DEF TailStep, BlockInv, f
  <2>2. \A x \in base .. pos : f[x] \in Int
    BY <1>1, <2>1
  <2>3. SumTo(f, base, pos + 1) = SumTo(f, base, pos) + f[pos]
    BY <1>1, <2>1, <2>2, IntervalNext
  <2> QED BY <1>3, <1>4, <1>10, <2>1, <2>3 DEF TailStep
<1>11. CASE CloseBlock
  <2>1. /\ dpc = "tail" /\ sum_total' = sum_total + block /\ base' = base + kBlockSize
        /\ iter' = iter /\ dpc' = "block" /\ base < n /\ base <= EndOfBlock
    BY <1>1, <1>11 DEF CloseBlock, BlockInv, n
  <2>2. Upto(base) = base /\ Upto(base') = EndOfBlock
    BY <1>1, <2>1 DEF Upto, EndOfBlock, n
  <2>3. SumTo(f, 0, EndOfBlock) = SumTo(f, 0, base) + SumTo(f, base, EndOfBlock)
    <3>1. \A x \in 0 .. EndOfBlock - 1 : f[x] \in Int
      BY <1>1
    <3>2. base \in Int /\ EndOfBlock \in Int /\ 0 <= base
      BY <1>1
    <3> QED BY <2>1, <3>1, <3>2, IntervalJoin
  <2>4. iter * T \in Int /\ SumTo(f, 0, base) \in Int /\ SumTo(f, base, EndOfBlock) \in Int
    <3>1. T \in Int /\ iter \in Int
      BY <1>1, <1>2 DEF T, BlockInv
    <3>2. base \in 0 .. n /\ EndOfBlock \in 0 .. n
      BY <1>1, <2>1
    <3> QED BY <1>1, <1>2, <3>1, <3>2
  <2>5. Whole => sum_total' = iter' * T + SumTo(f, 0, Upto(base'))
    <3> SUFFICES ASSUME Whole PROVE sum_total' = iter' * T + SumTo(f, 0, Upto(base'))
      OBVIOUS
    <3>1. pos = EndOfBlock
      BY <1>11, BlockEndsWhole
    <3>2. block = SumTo(f, base, EndOfBlock) /\ sum_total = iter * T + SumTo(f, 0, base)
      BY <1>3, <2>1, <2>2, <3>1
    <3> QED BY <2>1, <2>2, <2>3, <2>4, <3>2
  <2> QED BY <1>4, <1>11, <2>1, <2>5 DEF CloseBlock
<1>12. CASE UNCHANGED dotVars
  <2>1. DOMAIN acc' = DotLanes
    BY <1>1, <1>12 DEF dotVars
  <2> QED BY <1>3, <1>4, <1>12, <2>1 DEF dotVars
<1> QED BY <1>5, <1>6, <1>7, <1>8, <1>9, <1>10, <1>11, <1>12 DEF DNext

LEMMA ResultIsExact == DotInv /\ BlockInv /\ ResultInv => DotExact
<1> SUFFICES ASSUME DotInv, BlockInv, ResultInv, dpc = "returned",
                    dot.tail \/ arrays.count % Stride = 0
             PROVE  sum_total = iterations * SumAll(arrays.product)
  BY DEF DotExact
<1> DEFINE T == SumTo(arrays.product, 0, arrays.count)
<1>1. iter = iterations /\ base = 0 /\ iterations \in Nat
  BY DEF BlockInv
<1>2. arrays.count \in Nat /\ DOMAIN arrays.product = 0 .. arrays.count - 1
      /\ \A x \in 0 .. arrays.count - 1 : arrays.product[x] \in Int
  BY DotFacts
<1>3. SumAll(arrays.product) = T
  <2>1. SumAll(arrays.product) = SumOf(arrays.product, DOMAIN arrays.product)
    BY FoldsAreSums
  <2> QED BY <1>2, <2>1 DEF SumTo
<1>3a. SumTo(arrays.product, 0, 0) = 0 /\ T \in Int
  BY <1>2, IntervalEmpty, IntervalType
<1>4. (IF base < arrays.count THEN base ELSE arrays.count) = 0
  BY <1>1, <1>2
<1>5. sum_total = iter * T + 0
  BY <1>3a, <1>4, FoldsAreSums DEF ResultInv, Whole
<1>6. iter * T + 0 = iterations * T
  <2> HIDE DEF T
  <2> QED BY <1>1, <1>3a
<1> HIDE DEF T
<1> QED BY <1>3, <1>5, <1>6

\* The result is that of the plain loop, for every block size, number of lanes and length:
\* no pair is left out or taken twice where the vectors, the blocks and the iterations meet.
THEOREM DotsAreExact == DSpec => []DotExact
BY DotStarts, DotStep, BlockStarts, BlockStep, ResultStarts, ResultStep, ResultIsExact,
   PTL DEF DSpec

-----------------------------------------------------------------------------
(* int8 lanes                                                                *)

\* The product of two cells fits in a lane.
LEMMA ProductFits ==
  ASSUME NEW p \in Int8, NEW q \in Int8
  PROVE  p * q \in Int /\ -16384 <= p * q /\ p * q <= 16384
<1>1. p \in Int /\ q \in Int /\ -128 <= p /\ p <= 127 /\ -128 <= q /\ q <= 127
  BY DEF Int8
<1>2. (128 - p) * (128 + q) >= 0 /\ (128 + p) * (128 - q) >= 0
  BY <1>1
<1>3. (128 - p) * (128 - q) >= 0 /\ (128 + p) * (128 + q) >= 0
  BY <1>1
<1>4. QED BY <1>1, <1>2, <1>3

\* What each register holds after each instruction.
VInv ==
  /\ ipc \in {"multiply", "add", "pack", "stored"}
  /\ alpha \in Int8 /\ beta \in Int8 /\ lanes \in {8, 16}
  /\ a \in [0 .. 15 -> Int8] /\ b \in [0 .. 15 -> Int8]
  /\ ipc = "add" => \A n \in Lanes : alpha_a[n] = alpha * a[n] /\ beta_b[n] = beta * b[n]
  /\ ipc = "pack" => \A n \in Lanes : result[n] = Clamp16(alpha * a[n] + beta * b[n])
  /\ VectorIsScalar

LEMMA VInitial == VInit => VInv
  BY Int8Assumption DEF VInit, VInv, VectorIsScalar

LEMMA VStep == VInv /\ [VNext]_int8Vars => VInv'
<1> SUFFICES ASSUME VInv, [VNext]_int8Vars PROVE VInv'
  OBVIOUS
<1>fits. \A n \in Lanes :
           /\ alpha * a[n] \in Int /\ -16384 <= alpha * a[n] /\ alpha * a[n] <= 16384
           /\ beta * b[n] \in Int /\ -16384 <= beta * b[n] /\ beta * b[n] <= 16384
  <2> SUFFICES ASSUME NEW n \in Lanes
      PROVE  /\ alpha * a[n] \in Int /\ -16384 <= alpha * a[n] /\ alpha * a[n] <= 16384
             /\ beta * b[n] \in Int /\ -16384 <= beta * b[n] /\ beta * b[n] <= 16384
    OBVIOUS
  <2>1. n \in 0 .. 15
    BY DEF VInv, Lanes
  <2>2. a[n] \in Int8 /\ b[n] \in Int8 /\ alpha \in Int8 /\ beta \in Int8
    BY <2>1 DEF VInv
  <2>3. QED BY <2>2, ProductFits
<1>1. CASE Multiply
  <2>1. ASSUME NEW n \in Lanes
        PROVE  alpha_a'[n] = alpha * a[n] /\ beta_b'[n] = beta * b[n]
    <3>1. alpha_a'[n] = Low16(alpha * a[n]) /\ beta_b'[n] = Low16(beta * b[n])
      BY <1>1 DEF Multiply
    <3>2. ASSUME NEW p \in Int, -16384 <= p, p <= 16384 PROVE Low16(p) = p
      BY <3>2 DEF Low16
    <3>3. QED BY <3>1, <3>2, <1>fits
  <2>2. QED BY <1>1, <2>1 DEF VInv, Multiply, VectorIsScalar, Lanes
<1>2. CASE Add
  <2>1. ASSUME NEW n \in Lanes
        PROVE  result'[n] = Clamp16(alpha * a[n] + beta * b[n])
    BY <1>2 DEF Add, VInv, Sum16
  <2>2. QED BY <1>2, <2>1 DEF VInv, Add, VectorIsScalar, Lanes
<1>3. CASE Pack
  <2>1. ASSUME NEW n \in Lanes
        PROVE  8 * Quarter(Permute(n \div 8)) + (n % 8) = n
    <3>1. lanes \in {8, 16} /\ n \in 0 .. lanes - 1
      BY DEF VInv, Lanes
    <3>2. CASE lanes = 8
      <4>1. Permute(n \div 8) = n \div 8 /\ Quarter(n \div 8) = 0
        BY <3>2 DEF Permute, Quarter
      <4>2. QED BY <3>1, <3>2, <4>1
    <3>3. CASE lanes = 16
      <4>1. n \div 8 \in {0, 1} /\ 8 * (n \div 8) + (n % 8) = n
        BY <3>1, <3>3
      <4>2. Permute(0) = 0 /\ Permute(1) = 2 /\ Quarter(0) = 0 /\ Quarter(2) = 1
        BY <3>3 DEF Permute, Quarter
      <4>3. QED BY <4>1, <4>2
    <3>4. QED BY <3>1, <3>2, <3>3
  <2>2. ASSUME NEW n \in Lanes
        PROVE  out'[n] = Clamp8(alpha * a[n] + beta * b[n])
    <3>1. out'[n] = Clamp8(result[n])
      BY <1>3, <2>1 DEF Pack
    <3>2. result[n] = Clamp16(alpha * a[n] + beta * b[n])
      BY <1>3 DEF Pack, VInv
    <3>3. ASSUME NEW s \in Int PROVE Clamp8(Clamp16(s)) = Clamp8(s)
      BY DEF Clamp8, Clamp16
    <3>4. alpha * a[n] + beta * b[n] \in Int
      BY <1>fits
    <3>5. QED BY <3>1, <3>2, <3>3, <3>4
  <2>3. QED BY <1>3, <2>2 DEF VInv, Pack, VectorIsScalar, Lanes
<1>4. CASE UNCHANGED int8Vars
  BY <1>4 DEF VInv, int8Vars, VectorIsScalar, Lanes
<1>5. QED BY <1>1, <1>2, <1>3, <1>4 DEF VNext

\* For all factors and cells the vector loop stores what the scalar loop would.
THEOREM Int8LoopIsScalar == VSpec => []VectorIsScalar
<1>1. VInv => VectorIsScalar
  BY DEF VInv
<1>2. QED BY VInitial, VStep, <1>1, PTL DEF VSpec
-----------------------------------------------------------------------------
(* FP4                                                                       *)

LEMMA UnitPositive == Unit \in Int /\ Unit > 0
  BY FP4Assumption

LEMMA MagnitudeValues ==
  /\ Magnitudes[1] = 0 /\ Magnitudes[2] = 2 /\ Magnitudes[3] = 4 /\ Magnitudes[4] = 6
  /\ Magnitudes[5] = 8 /\ Magnitudes[6] = 12 /\ Magnitudes[7] = 16 /\ Magnitudes[8] = 24
  BY DEF Magnitudes

\* A float goes to the code with its sign and with the magnitude nearest to its own.
LEMMA MagnitudeIsNearest ==
  ASSUME NEW r \in Int, r >= 0, NEW j \in 0 .. 7
  PROVE  /\ Magnitude(r) \in 0 .. 7
         /\ Size(Unit * Magnitudes[Magnitude(r) + 1] - r) <= Size(Unit * Magnitudes[j + 1] - r)
<1>1. Magnitude(r) \in 0 .. 7
  BY UnitPositive DEF Magnitude
<1> DEFINE v(k) == Unit * Magnitudes[k + 1]
<1>2. /\ v(0) = 0 /\ v(1) = 2 * Unit /\ v(2) = 4 * Unit /\ v(3) = 6 * Unit
      /\ v(4) = 8 * Unit /\ v(5) = 12 * Unit /\ v(6) = 16 * Unit /\ v(7) = 24 * Unit
  BY UnitPositive, MagnitudeValues
<1>3. \A k \in 0 .. 7 : v(k) \in Int /\ v(k) >= 0
  <2>1. \A k \in 0 .. 7 : k = 0 \/ k = 1 \/ k = 2 \/ k = 3 \/ k = 4 \/ k = 5 \/ k = 6 \/ k = 7
    OBVIOUS
  <2>2. QED BY <1>2, <2>1, UnitPositive
<1>4. /\ Magnitude(r) = 0 => r < Unit
      /\ Magnitude(r) = 1 => Unit <= r /\ r < 3 * Unit
      /\ Magnitude(r) = 2 => 3 * Unit <= r /\ r < 5 * Unit
      /\ Magnitude(r) = 3 => 5 * Unit <= r /\ r < 7 * Unit
      /\ Magnitude(r) = 4 => 7 * Unit <= r /\ r < 10 * Unit
      /\ Magnitude(r) = 5 => 10 * Unit <= r /\ r < 14 * Unit
      /\ Magnitude(r) = 6 => 14 * Unit <= r /\ r < 20 * Unit
      /\ Magnitude(r) = 7 => 20 * Unit <= r
  BY UnitPositive DEF Magnitude
<1>5. Size(v(Magnitude(r)) - r) <= Size(v(j) - r)
  <2> HIDE DEF v
  <2>1. j \in {0, 1, 2, 3, 4, 5, 6, 7} /\ Magnitude(r) \in {0, 1, 2, 3, 4, 5, 6, 7}
    BY <1>1
  <2>2. ASSUME NEW m \in {0, 1, 2, 3, 4, 5, 6, 7}, Magnitude(r) = m
        PROVE  Size(v(m) - r) <= Size(v(j) - r)
    BY <2>1, <2>2, <1>2, <1>4, UnitPositive DEF Size
  <2>3. QED BY <2>1, <2>2
<1>6. QED BY <1>1, <1>5

LEMMA CodeIsNearest ==
  ASSUME NEW r \in Int, NEW n \in 0 .. 15
  PROVE  /\ float_to_fp4(r) \in 0 .. 15
         /\ Size(fp4_to_float(float_to_fp4(r)) - r) <= Size(fp4_to_float(n) - r)
<1> DEFINE s == Size(r)
<1> DEFINE v(k) == Unit * Magnitudes[k + 1]
<1>1. s \in Int /\ s >= 0
  BY DEF Size
<1>2. Magnitude(s) \in 0 .. 7
  BY <1>1, MagnitudeIsNearest
<1>3. \A j \in 0 .. 7 : Size(v(Magnitude(s)) - s) <= Size(v(j) - s)
  <2> HIDE DEF s
  <2>1. QED BY <1>1, MagnitudeIsNearest
<1>4. \A k \in 0 .. 7 : v(k) \in Int /\ v(k) >= 0
  <2>1. \A k \in 0 .. 7 : k = 0 \/ k = 1 \/ k = 2 \/ k = 3 \/ k = 4 \/ k = 5 \/ k = 6 \/ k = 7
    OBVIOUS
  <2>2. QED BY <2>1, UnitPositive, MagnitudeValues
<1>5. float_to_fp4(r) \in 0 .. 15
  BY <1>2 DEF float_to_fp4
<1>6. /\ r >= 0 => float_to_fp4(r) = Magnitude(s) /\ s = r
      /\ r < 0 => float_to_fp4(r) = Magnitude(s) + 8 /\ s = - r
  <2>1. r < 0 => s = - r
    BY DEF Size
  <2>2. r >= 0 => s = r
    BY DEF Size
  <2> HIDE DEF s
  <2>3. float_to_fp4(r) = (IF r < 0 THEN 8 ELSE 0) + Magnitude(s)
    BY DEF float_to_fp4, s
  <2>4. QED BY <1>2, <2>1, <2>2, <2>3
<1>7. ASSUME NEW k \in 0 .. 7
      PROVE  fp4_to_float(k) = v(k) /\ fp4_to_float(k + 8) = - v(k)
  <2>1. k \div 8 = 0 /\ k % 8 = k /\ (k + 8) \div 8 = 1 /\ (k + 8) % 8 = k
    OBVIOUS
  <2>2. v(k) \in Int
    BY <1>4
  <2>3. fp4_to_float(k) = 1 * v(k) /\ fp4_to_float(k + 8) = (-1) * v(k)
    BY <2>1 DEF fp4_to_float
  <2> HIDE DEF v
  <2>4. QED BY <2>2, <2>3
<1>8. PICK k \in 0 .. 7 : n = k \/ n = k + 8
  <2>1. n <= 7 \/ n - 8 \in 0 .. 7
    OBVIOUS
  <2>2. QED BY <2>1
<1>9. fp4_to_float(n) = v(k) \/ fp4_to_float(n) = - v(k)
  BY <1>7, <1>8
<1>10. fp4_to_float(float_to_fp4(r)) = IF r < 0 THEN - v(Magnitude(s)) ELSE v(Magnitude(s))
  <2> HIDE DEF s, v
  <2>1. QED BY <1>2, <1>6, <1>7
<1>11. Size(v(Magnitude(s)) - s) <= Size(v(k) - s)
  BY <1>3
<1>12. v(k) \in Int /\ v(k) >= 0 /\ v(Magnitude(s)) \in Int /\ v(Magnitude(s)) >= 0
  BY <1>2, <1>4
<1>13. Size(fp4_to_float(float_to_fp4(r)) - r) <= Size(fp4_to_float(n) - r)
  <2>1. (r < 0 /\ s = - r) \/ (r >= 0 /\ s = r)
    BY <1>6
  <2> DEFINE near == v(Magnitude(s))
  <2> DEFINE other == v(k)
  <2>2. near \in Int /\ near >= 0 /\ other \in Int /\ other >= 0
    BY <1>12
  <2>3. Size(near - s) <= Size(other - s)
    BY <1>11
  <2>4. fp4_to_float(float_to_fp4(r)) = IF r < 0 THEN - near ELSE near
    BY <1>10
  <2>5. fp4_to_float(n) = other \/ fp4_to_float(n) = - other
    BY <1>9
  <2> HIDE DEF near, other, s
  <2>6. QED BY <2>1, <2>2, <2>3, <2>4, <2>5 DEF Size
<1>14. QED BY <1>5, <1>13

LEMMA Nibbles ==
  ASSUME NEW high \in 0 .. 15, NEW low \in 0 .. 15
  PROVE  /\ 16 * high + low \in 0 .. 255
         /\ (16 * high + low) % 16 = low /\ (16 * high + low) \div 16 = high
  OBVIOUS

LEMMA NibblesOf ==
  ASSUME NEW byte \in 0 .. 255
  PROVE  byte % 16 \in 0 .. 15 /\ byte \div 16 \in 0 .. 15
  OBVIOUS

\* Each half of the byte is the code of what was stored there.
FInv ==
  /\ packed \in 0 .. 255 /\ held \in [{0, 1} -> Int]
  /\ packed % 16 = float_to_fp4(held[0])
  /\ packed \div 16 = float_to_fp4(held[1])

LEMMA FInitial == FInit => FInv
<1>1. float_to_fp4(0) = 0
  BY UnitPositive DEF float_to_fp4, Magnitude, Size
<1>2. QED BY <1>1 DEF FInit, FInv

LEMMA FStep == FInv /\ [FNext]_fp4Vars => FInv'
<1> SUFFICES ASSUME FInv, [FNext]_fp4Vars PROVE FInv'
  OBVIOUS
<1>1. ASSUME NEW r \in Reals, Fill(r) PROVE FInv'
  <2>1. r \in Int /\ float_to_fp4(r) \in 0 .. 15
    BY FP4Assumption, CodeIsNearest
  <2>2. held' = [i \in {0, 1} |-> r] /\ packed' = 16 * float_to_fp4(r) + float_to_fp4(r)
    BY <1>1 DEF Fill
  <2>3. packed' % 16 = float_to_fp4(r) /\ packed' \div 16 = float_to_fp4(r) /\ packed' \in 0 .. 255
    BY <2>1, <2>2
  <2>4. QED BY <2>1, <2>2, <2>3 DEF FInv
<1>2. ASSUME NEW r \in Reals, NEW i \in {0, 1}, SetHalf(i, r) PROVE FInv'
  <2>1. r \in Int /\ float_to_fp4(r) \in 0 .. 15
    BY FP4Assumption, CodeIsNearest
  <2>2. held' = [held EXCEPT ![i] = r] /\ packed \in 0 .. 255
    BY <1>2 DEF SetHalf, FInv
  <2>3. CASE i = 1
    <3>1. packed' = (packed % 16) + 16 * float_to_fp4(r)
      BY <1>2, <2>3 DEF SetHalf
    <3>2. packed' \in 0 .. 255 /\ packed' % 16 = packed % 16 /\ packed' \div 16 = float_to_fp4(r)
      <4>1. packed' = 16 * float_to_fp4(r) + (packed % 16) /\ packed % 16 \in 0 .. 15
        BY <2>1, <2>2, <3>1, NibblesOf
      <4>2. QED BY <2>1, <4>1, Nibbles
    <3>3. QED BY <2>1, <2>2, <2>3, <3>2 DEF FInv
  <2>4. CASE i = 0
    <3>1. packed' = 16 * (packed \div 16) + float_to_fp4(r)
      BY <1>2, <2>4 DEF SetHalf
    <3>2. packed' \in 0 .. 255 /\ packed' % 16 = float_to_fp4(r) /\ packed' \div 16 = packed \div 16
      BY <2>1, <2>2, <3>1, Nibbles, NibblesOf
    <3>3. QED BY <2>1, <2>2, <2>4, <3>2 DEF FInv
  <2>5. QED BY <2>3, <2>4
<1>3. CASE UNCHANGED fp4Vars
  BY <1>3 DEF FInv, fp4Vars
<1>4. QED BY <1>1, <1>2, <1>3 DEF FNext

\* For every unit and all floats each half of a byte reads as the FP4 value that is
\* nearest to what was last stored there.
THEOREM StoresNearestFP4 == FSpec => []NearestFP4
<1>1. FInv => NearestFP4
  <2> SUFFICES ASSUME FInv, NEW i \in {0, 1}, NEW n \in 0 .. 15
      PROVE Size(fp4_extract(packed, i) - held[i]) <= Size(fp4_to_float(n) - held[i])
    BY DEF NearestFP4
  <2>1. held[i] \in Int
    BY DEF FInv
  <2>2. fp4_extract(packed, i) = fp4_to_float(float_to_fp4(held[i]))
    BY DEF FInv, fp4_extract
  <2>3. QED BY <2>1, <2>2, CodeIsNearest
<1>2. QED BY FInitial, FStep, <1>1, PTL DEF FSpec

-----------------------------------------------------------------------------
(* half                                                                      *)

USE DEF Below

LEMMA UpperFields ==
  ASSUME NEW q \in Nat, q < 64
  PROVE  \E s \in {0, 1}, e \in Nat :
           e < 32 /\ q = 32 * s + e /\ q % 32 = e /\ q \div 32 = s
<1>1. CASE q < 32
  <2>1. q = 32 * 0 + q /\ q % 32 = q /\ q \div 32 = 0
    BY SMT, <1>1
  <2>2. QED BY SMT, <1>1, <2>1
<1>2. CASE q >= 32
  <2>1. q - 32 \in Nat /\ q - 32 < 32 /\ q = 32 * 1 + (q - 32)
    BY SMT, <1>2
  <2>2. q % 32 = q - 32 /\ q \div 32 = 1
    BY SMT, <1>2
  <2>3. QED BY SMT, <2>1, <2>2
<1>3. QED BY SMT, <1>1, <1>2

LEMMA LowerField ==
  ASSUME NEW h \in Nat, h < 65536
  PROVE  \E q \in Nat, m \in Nat :
           q < 64 /\ m < 1024 /\ h = 1024 * q + m /\ h % 1024 = m /\ h \div 1024 = q
<1>1. h % 1024 \in Nat /\ h % 1024 < 1024 /\ h \div 1024 \in Nat
  BY SMT
<1>2. h = 1024 * (h \div 1024) + (h % 1024)
  BY SMT
<1>3. h \div 1024 < 64
  BY SMT, <1>1, <1>2
<1>4. QED BY SMT, <1>1, <1>2, <1>3

LEMMA HalfFields ==
  ASSUME NEW h \in Nat, h < 65536
  PROVE  /\ SignOf(h) \in {0, 1} /\ Below(ExpOf(h), 32) /\ Below(ManOf(h), 1024)
         /\ h = 32768 * SignOf(h) + 1024 * ExpOf(h) + ManOf(h)
<1>1. PICK q \in Nat, m \in Nat :
        q < 64 /\ m < 1024 /\ h = 1024 * q + m /\ h % 1024 = m /\ h \div 1024 = q
  BY LowerField
<1>2. PICK s \in {0, 1}, e \in Nat : e < 32 /\ q = 32 * s + e /\ q % 32 = e /\ q \div 32 = s
  BY <1>1, UpperFields
<1>3. h \div 32768 = s
  BY SMT, <1>1, <1>2
<1>4. SignOf(h) = s /\ ExpOf(h) = e /\ ManOf(h) = m
  BY SMT, <1>1, <1>2, <1>3 DEF SignOf, ExpOf, ManOf
<1>5. h = 32768 * s + 1024 * e + m
  BY SMT, <1>1, <1>2
<1>6. QED BY SMT, <1>1, <1>2, <1>4, <1>5

Composed(s, e, m) == 32768 * s + (1024 * e + m)
HasFields(h, s, e, m) == SignOf(h) = s /\ ExpOf(h) = e /\ ManOf(h) = m

LEMMA HalfOfFields ==
  ASSUME NEW s \in {0, 1}, NEW e \in Nat, e < 32, NEW m \in Nat, m < 1024
  PROVE  HasFields(Composed(s, e, m), s, e, m)
<1> DEFINE h == 32768 * s + (1024 * e + m)
<1>1. h \in Nat /\ h % 1024 = m /\ h \div 1024 = 32 * s + e
  BY SMT
<1>2. (32 * s + e) % 32 = e /\ h \div 32768 = s
  BY SMT
<1>3. QED BY SMT, <1>1, <1>2 DEF SignOf, ExpOf, ManOf, Composed, HasFields

\* What the conversions know of the register and of the cell.
HLoading ==
  hpc \in {"load", "normalize"} => given = cell /\ Below(cell, 65536)
HNormalizing ==
  hpc = "normalize" => IsDenormal(cell) /\ Below(mantissa, 2048) /\ mantissa > 0 /\ exp \in Int
HRegister ==
  hpc = "store" =>
    /\ float.sign \in {0, 1} /\ float.e \in Int /\ Below(float.m, 8388608)
    /\ given = NoHalfGiven \/ Below(given, 65536)
HLoaded ==
  hpc = "store" /\ given # NoHalfGiven /\ ~ IsDenormal(given) =>
    /\ float.sign = SignOf(given)
    /\ float.e = IF ExpOf(given) = 0 THEN 0
                 ELSE IF ExpOf(given) = 31 THEN 255 ELSE ExpOf(given) + 112
    /\ float.m = 8192 * ManOf(given)
HInv ==
  /\ hpc \in {"load", "normalize", "store", "stored"}
  /\ HLoading /\ HNormalizing /\ HRegister /\ HLoaded
  /\ NormalKept /\ NearestHalf

LEMMA HInitial == HInit => HInv
<1> SUFFICES ASSUME HInit PROVE HInv
  OBVIOUS
<1>1. CASE \E h \in HalfSet : cell = h /\ given = h /\ hpc = "load"
  BY SMT, <1>1, HalfAssumption
  DEF HInv, HLoading, HNormalizing, HRegister, HLoaded, NormalKept, NearestHalf
<1>2. CASE \E f \in FloatSet : float = f /\ given = NoHalfGiven /\ hpc = "store"
  BY SMT, <1>2, HalfAssumption
  DEF HInv, HLoading, HNormalizing, HRegister, HLoaded, NormalKept, NearestHalf, IsFloat
<1>3. QED BY SMT, <1>1, <1>2 DEF HInit

LEMMA HLoads == HInv /\ (Load \/ LoadDenormal \/ Normalize) => HInv'
<1> SUFFICES ASSUME HInv, Load \/ LoadDenormal \/ Normalize PROVE HInv'
  OBVIOUS
<1>1. hpc \in {"load", "normalize"} /\ given = cell /\ Below(cell, 65536)
  BY SMT DEF HInv, HLoading, Load, LoadDenormal, Normalize
<1>2. /\ SignOf(cell) \in {0, 1} /\ Below(ExpOf(cell), 32) /\ Below(ManOf(cell), 1024)
  BY <1>1, HalfFields
<1>3. /\ given' = given /\ cell' = cell
      /\ hpc' \in {"load", "normalize", "store"}
  BY SMT, <1>1 DEF Load, LoadDenormal, Normalize
<1>4. HLoading' /\ NormalKept' /\ NearestHalf'
  BY SMT, <1>1, <1>3 DEF HLoading, NormalKept, NearestHalf
<1>5. CASE Load
  <2>1. /\ float'.sign = SignOf(cell) /\ float'.m = 8192 * ManOf(cell)
        /\ float'.e = IF ExpOf(cell) = 0 THEN 0
                      ELSE IF ExpOf(cell) = 31 THEN 255 ELSE ExpOf(cell) + 112
        /\ hpc' = "store"
    BY SMT, <1>5 DEF Load
  <2>2. HRegister' /\ HLoaded'
    BY SMT, <1>1, <1>2, <1>3, <2>1 DEF HRegister, HLoaded
  <2>3. HNormalizing'
    BY SMT, <2>1 DEF HNormalizing
  <2>4. QED BY SMT, <1>3, <1>4, <2>2, <2>3 DEF HInv
<1>6. CASE LoadDenormal
  <2>1. hpc' = "normalize" /\ mantissa' = ManOf(cell) /\ exp' = 1 /\ IsDenormal(cell)
    BY SMT, <1>6 DEF LoadDenormal, IsDenormal
  <2>2. HNormalizing'
    BY SMT, <1>2, <1>3, <2>1 DEF HNormalizing, IsDenormal
  <2>3. HRegister' /\ HLoaded'
    BY SMT, <2>1 DEF HRegister, HLoaded
  <2>4. QED BY SMT, <1>3, <1>4, <2>2, <2>3 DEF HInv
<1>7. CASE Normalize
  <2>1. IsDenormal(cell) /\ Below(mantissa, 2048) /\ mantissa > 0 /\ exp \in Int
    BY SMT, <1>7 DEF HInv, HNormalizing, Normalize
  <2>2. HNormalizing'
    BY SMT, <1>1, <1>3, <1>7, <2>1 DEF HNormalizing, IsDenormal, Normalize
  <2>3. HRegister'
    <3>1. hpc' = "store" => /\ float'.sign = SignOf(cell) /\ float'.e = exp + 112
                            /\ float'.m = 8192 * (mantissa - 1024) /\ mantissa >= 1024
      BY SMT, <1>7, <2>1 DEF Normalize
    <3>2. QED BY SMT, <1>1, <1>2, <1>3, <2>1, <3>1 DEF HRegister
  <2>4. HLoaded'
    BY SMT, <1>1, <1>3, <2>1 DEF HLoaded, IsDenormal
  <2>5. QED BY SMT, <1>3, <1>4, <2>2, <2>3, <2>4 DEF HInv
<1>8. QED BY <1>5, <1>6, <1>7

\* The mantissa of a float splits into what a half keeps and the rest.
SplitsInto(m, t, u) ==
  /\ t < 1024 /\ u < 8192 /\ m = 8192 * t + u /\ m \div 8192 = t
  /\ (m \div 4096) % 2 = 1 <=> u >= 4096
  /\ u >= 4096 => m % 4096 = u - 4096

LEMMA Split ==
  ASSUME NEW m \in Nat, m < 8388608
  PROVE  \E t \in Nat, u \in Nat : SplitsInto(m, t, u)
<1>1. PICK t \in Int, u \in Nat : m = 8192 * t + u /\ m \div 8192 = t /\ u < 8192
  <2>1. m \div 8192 \in Int /\ m % 8192 \in Nat /\ m % 8192 < 8192
    BY SMT
  <2>2. m = 8192 * (m \div 8192) + (m % 8192)
    BY SMT
  <2>3. QED BY SMT, <2>1, <2>2
<1>2. t \in Nat /\ t < 1024
  BY SMT, <1>1
<1>3. ASSUME u >= 4096 PROVE (m \div 4096) % 2 = 1 /\ m % 4096 = u - 4096
  <2>1. m \div 4096 = 2 * t + 1 /\ m % 4096 = u - 4096
    BY SMT, <1>1, <1>3
  <2>2. (2 * t + 1) % 2 = 1
    BY SMT, <1>1
  <2>3. QED BY SMT, <1>3, <2>1, <2>2
<1>4. ASSUME u < 4096 PROVE (m \div 4096) % 2 = 0
  <2>1. m \div 4096 = 2 * t
    BY SMT, <1>1, <1>4
  <2>2. (2 * t) % 2 = 0
    BY SMT, <1>1
  <2>3. QED BY SMT, <1>4, <2>1, <2>2
<1>5. SplitsInto(m, t, u)
  BY SMT, <1>1, <1>2, <1>3, <1>4 DEF SplitsInto
<1>6. QED BY <1>1, <1>2, <1>5

LEMMA StoresNearest ==
  ASSUME HInv, StoreNormal PROVE NearestHalf'
<1> DEFINE s == float.sign
<1> DEFINE e == Rebiased
<1>1. float.sign \in {0, 1} /\ Below(float.m, 8388608) /\ float.e \in Int
  BY SMT DEF HInv, HRegister, StoreNormal
<1>2. s \in {0, 1} /\ e \in 1 .. 30
  BY SMT, <1>1 DEF StoreNormal, Rebiased
<1>p. PICK t \in Nat, u \in Nat : SplitsInto(float.m, t, u)
  <2>1. float.m \in Nat /\ float.m < 8388608
    BY <1>1
  <2>2. QED BY SMT, <2>1, Split
<1>3. /\ t < 1024 /\ u < 8192 /\ float.m = 8192 * t + u /\ float.m \div 8192 = t
      /\ (float.m \div 4096) % 2 = 1 <=> u >= 4096
      /\ u >= 4096 => float.m % 4096 = u - 4096
  BY SMT, <1>p DEF SplitsInto
<1>top. Top10 = t
  BY <1>3 DEF Top10
<1>4. RoundsUp <=> u > 4096 \/ (u = 4096 /\ t % 2 = 1)
  <2>1. RoundsUp <=> u >= 4096 /\ (float.m % 4096 # 0 \/ t % 2 = 1)
    BY SMT, <1>3, <1>top DEF RoundsUp
  <2>2. QED BY SMT, <1>3, <2>1
<1>5. float' = float /\ Rebiased' = e /\ hpc' = "stored"
  BY SMT DEF StoreNormal, Stored, Rebiased
<1>6. cell' = 32768 * s + (IF Carry THEN 1024 * (e + 1) ELSE 1024 * e + t + (IF RoundsUp THEN 1 ELSE 0))
  BY SMT, <1>top DEF StoreNormal, Stored
<1>7. Carry <=> RoundsUp /\ t = 1023
  BY <1>top DEF Carry
<1> DEFINE c == cell'
<1> DEFINE off == 8192 * Significand(c, e) - (8388608 + float.m)
<1> SUFFICES /\ SignOf(c) = s /\ ExpOf(c) \in {e, e + 1}
             /\ \/ -4096 < off /\ off < 4096
                \/ off \in {-4096, 4096} /\ Significand(c, e) % 2 = 0
  BY SMT, <1>5 DEF NearestHalf
<1>8. CASE Carry
  <2> HIDE DEF s, e
  <2>0. e \in Nat /\ e < 31 /\ s \in {0, 1}
    BY SMT, <1>2
  <2>1. c = 32768 * s + (1024 * (e + 1) + 0)
    BY SMT, <1>2, <1>6, <1>8
  <2>2. SignOf(c) = s /\ ExpOf(c) = e + 1 /\ ManOf(c) = 0
    <3>1. e + 1 \in Nat /\ e + 1 < 32 /\ 0 \in Nat /\ 0 < 1024
      BY SMT, <2>0
    <3>2. HasFields(Composed(s, e + 1, 0), s, e + 1, 0)
      BY SMT, <2>0, <3>1, HalfOfFields
    <3>3. QED BY SMT, <2>1, <3>2 DEF Composed, HasFields
  <2>3. Significand(c, e) = 2048
    BY SMT, <1>2, <2>2 DEF Significand
  <2>4. off = 8192 - u /\ u >= 4096 /\ off \in Int
    BY SMT, <1>3, <1>4, <1>7, <1>8, <2>3
  <2> HIDE DEF c, off
  <2>5. QED BY SMT, <1>2, <1>3, <2>2, <2>3, <2>4
<1>9. CASE RoundsUp /\ ~ Carry
  <2> HIDE DEF s, e
  <2>0. e \in Nat /\ e < 31 /\ s \in {0, 1}
    BY SMT, <1>2
  <2>1. Below(t + 1, 1024) /\ c = 32768 * s + (1024 * e + (t + 1))
    BY SMT, <1>2, <1>3, <1>6, <1>7, <1>9
  <2>2. SignOf(c) = s /\ ExpOf(c) = e /\ ManOf(c) = t + 1
    <3>1. t + 1 \in Nat /\ t + 1 < 1024 /\ e < 32
      BY SMT, <1>3, <2>0, <2>1
    <3>2. HasFields(Composed(s, e, t + 1), s, e, t + 1)
      BY SMT, <2>0, <3>1, HalfOfFields
    <3>3. QED BY SMT, <2>1, <3>2 DEF Composed, HasFields
  <2>3. Significand(c, e) = 1025 + t
    BY SMT, <1>2, <1>3, <2>2 DEF Significand
  <2>4. off = 8192 - u
    BY SMT, <1>3, <2>3
  <2> HIDE DEF c, off
  <2>5. u > 4096 \/ (u = 4096 /\ (1025 + t) % 2 = 0)
    BY SMT, <1>3, <1>4, <1>9
  <2>6. QED BY SMT, <1>2, <1>3, <2>2, <2>3, <2>4, <2>5
<1>10. CASE ~ RoundsUp
  <2> HIDE DEF s, e
  <2>0. e \in Nat /\ e < 31 /\ s \in {0, 1}
    BY SMT, <1>2
  <2>1. c = 32768 * s + (1024 * e + t)
    BY SMT, <1>2, <1>3, <1>6, <1>7, <1>10
  <2>2. SignOf(c) = s /\ ExpOf(c) = e /\ ManOf(c) = t
    <3>1. t \in Nat /\ t < 1024 /\ e < 32
      BY SMT, <1>3, <2>0, <2>1
    <3>2. HasFields(Composed(s, e, t), s, e, t)
      BY SMT, <2>0, <3>1, HalfOfFields
    <3>3. QED BY SMT, <2>1, <3>2 DEF Composed, HasFields
  <2>3. Significand(c, e) = 1024 + t
    BY SMT, <1>2, <1>3, <2>2 DEF Significand
  <2>4. off = - u
    BY SMT, <1>3, <2>3
  <2> HIDE DEF c, off
  <2>5. u < 4096 \/ (u = 4096 /\ (1024 + t) % 2 = 0)
    BY SMT, <1>3, <1>4, <1>10
  <2>6. QED BY SMT, <1>2, <1>3, <2>2, <2>3, <2>4, <2>5
<1>11. QED BY SMT, <1>7, <1>8, <1>9, <1>10

LEMMA StoreKeeps ==
  ASSUME StoreHalf
  PROVE  hpc = "store" /\ hpc' = "stored" /\ given' = given /\ float' = float
<1>1. CASE StoreSpecial
  BY SMT, <1>1 DEF StoreSpecial, Stored
<1>2. CASE StoreTiny
  BY SMT, <1>2 DEF StoreTiny, Stored
<1>3. CASE StoreDenormal
  BY SMT, <1>3 DEF StoreDenormal, Stored
<1>4. CASE StoreHuge
  BY SMT, <1>4 DEF StoreHuge, Stored
<1>5. CASE StoreNormal
  BY SMT, <1>5 DEF StoreNormal, Stored
<1>6. QED BY <1>1, <1>2, <1>3, <1>4, <1>5 DEF StoreHalf

LEMMA StoresSame ==
  ASSUME HInv, StoreHalf PROVE NormalKept'
<1>1. hpc = "store" /\ given' = given
  BY StoreKeeps
<1> SUFFICES ASSUME given # NoHalfGiven, ~ IsDenormal(given) PROVE cell' = given
  BY SMT, <1>1 DEF NormalKept
<1> DEFINE h == given
<1> DEFINE s == SignOf(h)
<1> DEFINE e == ExpOf(h)
<1> DEFINE m == ManOf(h)
<1>2. Below(h, 65536)
  BY SMT, <1>1 DEF HInv, HRegister
<1>3. s \in {0, 1} /\ Below(e, 32) /\ Below(m, 1024) /\ h = 32768 * s + 1024 * e + m
  BY SMT, <1>2, HalfFields
<1>4. /\ float.sign = s /\ float.m = 8192 * m
      /\ float.e = IF e = 0 THEN 0 ELSE IF e = 31 THEN 255 ELSE e + 112
  BY SMT, <1>1 DEF HInv, HLoaded
<1>5. e = 0 => m = 0
  BY SMT DEF IsDenormal
<1> HIDE DEF h, s, e, m
<1>6. Top10 = m /\ ~ RoundsUp
  <2>1. (8192 * m) \div 8192 = m /\ ((8192 * m) \div 4096) % 2 = 0
    BY SMT, <1>3
  <2>2. QED BY SMT, <1>4, <2>1 DEF Top10, RoundsUp
<1>7. ~ Carry
  BY SMT, <1>6 DEF Carry
<1>8. CASE e = 0
  <2>1. Rebiased = -112 /\ float.e = 0
    BY SMT, <1>4, <1>8 DEF Rebiased
  <2>2. StoreTiny
    BY SMT, <2>1 DEF StoreHalf, StoreSpecial, StoreDenormal, StoreHuge, StoreNormal
  <2>3. QED BY SMT, <1>3, <1>4, <1>5, <1>8, <2>2 DEF StoreTiny, Stored, h
<1>9. CASE e = 31
  <2>1. Rebiased = 143 /\ float.e = 255
    BY SMT, <1>4, <1>9 DEF Rebiased
  <2>2. StoreSpecial
    BY SMT, <2>1 DEF StoreHalf, StoreTiny, StoreDenormal, StoreHuge, StoreNormal
  <2>3. float.m # 0 /\ Top10 = 0 => FALSE
    BY SMT, <1>3, <1>4, <1>6
  <2>4. cell' = 32768 * s + (31744 + m)
    BY SMT, <1>4, <1>6, <2>2, <2>3 DEF StoreSpecial, Stored, Infinity
  <2>5. QED BY SMT, <1>3, <1>9, <2>4 DEF h
<1>10. CASE e \in 1 .. 30
  <2>1. Rebiased = e /\ float.e = e + 112
    BY SMT, <1>4, <1>10 DEF Rebiased
  <2>2. StoreNormal
    BY SMT, <1>10, <2>1 DEF StoreHalf, StoreSpecial, StoreTiny, StoreDenormal, StoreHuge
  <2>3. cell' = 32768 * s + (1024 * e + m + 0)
    BY SMT, <1>4, <1>6, <1>7, <2>1, <2>2 DEF StoreNormal, Stored
  <2>4. QED BY SMT, <1>3, <2>3 DEF h
<1>11. QED BY SMT, <1>3, <1>8, <1>9, <1>10

LEMMA HStep == HInv /\ [HNext]_halfVars => HInv'
<1> SUFFICES ASSUME HInv, [HNext]_halfVars PROVE HInv'
  BY SMT
<1>1. CASE Load \/ LoadDenormal \/ Normalize
  BY SMT, <1>1, HLoads
<1>2. CASE StoreHalf
  <2>1. hpc' = "stored" /\ float' = float /\ hpc = "store"
    BY <1>2, StoreKeeps
  <2>2. NearestHalf'
    <3>1. CASE StoreNormal
      BY SMT, <3>1, StoresNearest
    <3>2. CASE ~ StoreNormal
      <4>1. float.e \in Int
        BY SMT, <2>1 DEF HInv, HRegister
      <4>2. Rebiased' \notin 1 .. 30
        BY SMT, <1>2, <2>1, <3>2, <4>1
        DEF StoreHalf, StoreSpecial, StoreTiny, StoreDenormal, StoreHuge, Rebiased
      <4>3. QED BY SMT, <4>2 DEF NearestHalf
    <3>3. QED BY SMT, <3>1, <3>2
  <2>3. NormalKept'
    BY SMT, <1>2, StoresSame
  <2>4. HLoading' /\ HNormalizing' /\ HRegister' /\ HLoaded'
    BY SMT, <2>1 DEF HLoading, HNormalizing, HRegister, HLoaded
  <2>5. QED BY SMT, <2>1, <2>2, <2>3, <2>4 DEF HInv
<1>3. CASE UNCHANGED halfVars
  BY SMT, <1>3 DEF HInv, HLoading, HNormalizing, HRegister, HLoaded, halfVars,
    NormalKept, NearestHalf, Rebiased
<1>4. QED BY SMT, <1>1, <1>2, <1>3 DEF HNext

\* A half that is not denormal, loaded and stored again, is the same half.
THEOREM NormalHalvesKept == HSpec => []NormalKept
<1>1. HInv => NormalKept
  BY DEF HInv
<1>2. QED BY HInitial, HStep, <1>1, PTL DEF HSpec

\* Every float of the range of the normal halves is stored as the nearest half, and as
\* the even one of two.
THEOREM StoresNearestHalf == HSpec => []NearestHalf
<1>1. HInv => NearestHalf
  BY DEF HInv
<1>2. QED BY HInitial, HStep, <1>1, PTL DEF HSpec
=============================================================================
