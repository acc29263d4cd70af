----------------------------- MODULE PrecisionRun -----------------------------
(***************************************************************************)
(* One precision of the precision benchmark: the detection of the SIMD     *)
(* level (cpu_capabilities.hpp), the choice of the kernels for it          *)
(* (runtime_dispatcher.cpp), the calibration of the chunk and the count of *)
(* the operations (precision_dispatcher.hpp), with the loops of the        *)
(* kernels of kernel_compute.cpp and of precision_dispatcher.hpp.          *)
(*                                                                         *)
(* One thread runs the chunks: how several share a round is in             *)
(* TimedKernel.  The numbers that the kernels compute are left out, the    *)
(* number of operations is not.  Time is in units of the calibration.      *)
(***************************************************************************)
EXTENDS Integers

CONSTANTS
  Machines,    \* [arch, features, xcr0]: the CPU, and the registers the OS saves
  Builds,      \* [arch, base]: the architecture, and the extensions that all files are
               \* compiled for
  Costs,       \* times of one iteration of a kernel
  Delays,      \* times that a chunk is held up
  Ticks,       \* resolutions of steady_clock
  CHUNK_TARGET, MAX_CHUNK_ITERS, L2_TARGET_SIZE,
  MaxChunks    \* bound: chunks before the round's time is over

ASSUME RunAssumption ==
  /\ Costs \subseteq Nat \ {0} /\ Delays \subseteq Nat
  /\ Ticks \subseteq Nat \ {0} /\ CHUNK_TARGET \in Nat \ {0} /\ MAX_CHUNK_ITERS \in Nat \ {0}
  /\ L2_TARGET_SIZE \in Nat /\ L2_TARGET_SIZE % 16 = 0
  /\ MaxChunks \in Nat

\* Each vector extension of x86 comes with the ones before it.
ASSUME MachineAssumption ==
  \A m \in Machines :
    /\ "avx512f" \in m.features => "avx2" \in m.features
    /\ "avx2" \in m.features => "avx" \in m.features
    /\ "avx" \in m.features => "sse2" \in m.features

Precisions == {"fp64", "fp32", "fp16", "int8", "fp4"}
IsFloating(p) == p \in {"fp64", "fp32"}

VARIABLES
  stage,          \* "main", "init", "kernel", "probe", "calibrate", "measure", "done"
  machine, build,
  force_scalar,   \* of KernelDispatcher
  level,          \* active_level_
  table,          \* the kernel pointers: the instruction set of each
  precision,
  impl,           \* the instruction set of the kernel that runs
  ops_per_iter,
  attempt, iters, \* calibrate_chunk_iters
  cost, tick,
  chunks,
  counted, executed  \* operations

runVars == <<stage, machine, build, force_scalar, level, table, precision, impl,
             ops_per_iter, attempt, iters, cost, tick, chunks, counted, executed>>

-----------------------------------------------------------------------------
(* Detection                                                                 *)

\* Fault: the OS is asked for the registers of AVX only.
Has_OnlyYmm(m, f) ==
  /\ f \in m.features
  /\ f \in {"avx", "avx2", "avx512f"} => "ymm" \in m.xcr0

\* The detect functions: check_os_avx_support and check_os_avx512_support look at XCR0.
Has(m, f) ==
  /\ f \in m.features
  /\ f \in {"avx", "avx2", "avx512f"} => "ymm" \in m.xcr0
  /\ f = "avx512f" => "zmm" \in m.xcr0

\* SimdLevel, without a level of its own for SSE4.2 and NEON FP16: they select the same
\* kernels as SSE2 and NEON.
get_simd_level(m) ==
  CASE m.arch = "x86" /\ Has(m, "avx512f") -> "avx512"
    [] m.arch = "x86" /\ ~ Has(m, "avx512f") /\ Has(m, "avx2") -> "avx2"
    [] m.arch = "x86" /\ ~ Has(m, "avx512f") /\ ~ Has(m, "avx2") /\ Has(m, "avx") -> "avx"
    [] m.arch = "x86" /\ (\A f \in {"avx512f", "avx2", "avx"} : ~ Has(m, f))
         /\ Has(m, "sse2") -> "sse2"
    [] m.arch = "arm64" /\ Has(m, "neon") -> "neon"
    [] OTHER -> "scalar"

Pointers == {"mem_float", "mem_double", "mem_int8", "stencil_float", "stencil_double",
             "stencil_int8", "compute_float", "compute_double"}

select_kernels(l) ==
  [p \in Pointers |->
     CASE p = "stencil_int8" -> "scalar"
       [] p = "mem_int8" /\ l \in {"avx512", "avx2"} -> "avx2"
       [] p = "mem_int8" /\ l \in {"avx", "sse2"} -> "sse2"
       [] p \in {"mem_int8", "mem_double", "stencil_double"} /\ l = "neon" -> "scalar"
       [] OTHER -> l]

\* What the file of a kernel is compiled for beyond the base: the flags of CMakeLists.txt for
\* x86 (avx512dq stands for all that they add to avx512f; the files of the other
\* architectures add nothing that counts here).  The compute kernels below AVX-512 share
\* one file, whose flags are those of AVX2.
KernelFlags(isa) ==
  CASE isa = "avx512" -> {"avx512f", "avx512dq"} [] isa = "avx2" -> {"avx2", "fma"}
    [] isa = "avx" -> {"avx"} [] isa = "sse2" -> {"sse2"}
    [] isa = "neon" -> {"neon"} [] isa = "scalar" -> {}
ComputeFlags == IF build.arch = "x86" THEN {"avx2", "fma"} ELSE {}
CompiledFor(isa, is_compute) ==
  build.base \cup KernelFlags(isa) \cup (IF is_compute THEN ComputeFlags ELSE {})

\* The processor has the extensions, and the operating system saves their registers.
Zmm == {"avx512f", "avx512dq"}
Ymm == {"avx", "avx2", "fma"} \cup Zmm
Executes(m, extensions) ==
  /\ extensions \subseteq m.features
  /\ extensions \cap Ymm # {} => "ymm" \in m.xcr0
  /\ extensions \cap Zmm # {} => "zmm" \in m.xcr0

-----------------------------------------------------------------------------
(* Kernels                                                                   *)

\* A compute kernel: its chains of FMAs, the lanes of a vector, the iterations that its
\* main loop does at once, and what it returns for each iteration.
Compute(chains, lanes, unroll, flops) ==
  [chains |-> chains, lanes |-> lanes, unroll |-> unroll, flops |-> flops]

scalar_double == Compute(8, 1, 1, 16)
scalar_float  == Compute(8, 1, 1, 16)
sse2_double   == Compute(4, 2, 1, 16)
sse2_float    == Compute(4, 4, 1, 32)
avx_double    == Compute(4, 4, 1, 32)
avx_float     == Compute(4, 8, 1, 64)
avx2_double   == Compute(8, 4, 1, 64)
avx2_float    == Compute(8, 8, 1, 128)
avx512_double == Compute(16, 8, 1, 256)
avx512_float  == Compute(16, 16, 1, 512)
neon_double   == Compute(32, 2, 4, 128)
neon_float    == Compute(32, 4, 4, 256)

DoubleKernel ==
  [scalar |-> scalar_double, sse2 |-> sse2_double, avx |-> avx_double,
   avx2 |-> avx2_double, avx512 |-> avx512_double, neon |-> neon_double]
FloatKernel ==
  [scalar |-> scalar_float, sse2 |-> sse2_float, avx |-> avx_float,
   avx2 |-> avx2_float, avx512 |-> avx512_float, neon |-> neon_float]
ComputeKernel(isa, p) == IF p = "fp64" THEN DoubleKernel[isa] ELSE FloatKernel[isa]

\* Fault: the loop over the remainder is missing.
Iterations_NoRemainder(unroll, n) == unroll * (n \div unroll)
\* The iterations of the main loop and of the loop behind it.
Iterations(unroll, n) == unroll * (n \div unroll) + (n % unroll)

\* What a compute kernel returns for n iterations.
Flops(isa, p, n) == n * ComputeKernel(isa, p).flops

\* get_element_count: two arrays share the cache.
ElementCount(p) ==
  CASE p = "fp16" -> (L2_TARGET_SIZE \div 2) \div 2
    [] p = "int8" -> L2_TARGET_SIZE \div 2
    [] OTHER -> L2_TARGET_SIZE

\* The cells that one pass of compute_bound_fp16_emulated, compute_bound_fp4 and
\* compute_bound_int8 multiplies: steps of 4 or 8, and no loop for the rest.  The two
\* vector kernels for int8 have one.
Pass(isa, p) ==
  LET count == ElementCount(p) IN
  CASE p \in {"fp16", "fp4"} -> 4 * (count \div 4)
    [] p = "int8" /\ isa = "scalar" -> 8 * (count \div 8)
    [] OTHER -> count

\* The operations that a call of the kernel for n iterations executes.
Work(isa, p, n) ==
  IF IsFloating(p)
  THEN LET c == ComputeKernel(isa, p) IN 2 * c.chains * c.lanes * Iterations(c.unroll, n)
  ELSE 2 * n * Pass(isa, p)

-----------------------------------------------------------------------------
\* A program that gets as far as main: built for this architecture, and for nothing that
\* the machine cannot execute.
RInit ==
  /\ stage = "main"
  /\ machine \in Machines /\ build \in Builds
  /\ machine.arch = build.arch /\ Executes(machine, build.base)
  /\ precision \in Precisions /\ cost \in Costs /\ tick \in Ticks
  /\ force_scalar = FALSE
  /\ level = "none" /\ table = [p \in Pointers |-> "scalar"]
  /\ impl = "scalar"
  /\ ops_per_iter = 0 /\ attempt = 0 /\ iters = 1 /\ chunks = 0
  /\ counted = 0 /\ executed = 0

\* main: KernelDispatcher::set_force_scalar.
SetForceScalar ==
  /\ stage = "main"
  /\ force_scalar' \in BOOLEAN
  /\ stage' = "init"
  /\ UNCHANGED <<machine, build, level, table, precision, impl, ops_per_iter, attempt,
                 iters, cost, tick, chunks, counted, executed>>

\* RuntimeDispatcher::initialize, called by run_all_precision_benchmarks or by the first
\* getter.
Initialize ==
  /\ stage = "init"
  /\ level' = get_simd_level(machine)
  /\ table' = select_kernels(level')
  /\ stage' = "kernel"
  /\ UNCHANGED <<machine, build, force_scalar, precision, impl, ops_per_iter, attempt,
                 iters, cost, tick, chunks, counted, executed>>

\* run_fp64, run_fp32, run_fp16, run_int8, run_fp4.  main.cpp, which has the int8
\* kernels, is compiled for the base.
ChooseKernel ==
  /\ stage = "kernel"
  /\ impl' =
       CASE precision = "fp64" -> table["compute_double"]
         [] precision = "fp32" -> table["compute_float"]
         [] precision = "int8" ->
              IF level \in {"avx2", "avx512"} /\ "avx2" \in build.base THEN "avx2"
              ELSE IF level = "neon" /\ "neon" \in build.base THEN "neon" ELSE "scalar"
         [] OTHER -> "scalar"
  /\ stage' = "probe"
  /\ UNCHANGED <<machine, build, force_scalar, level, table, precision, ops_per_iter,
                 attempt, iters, cost, tick, chunks, counted, executed>>

Probe ==
  /\ stage = "probe"
  /\ ops_per_iter' = IF IsFloating(precision) THEN Flops(impl, precision, 1)
                     ELSE ElementCount(precision) * 2
  /\ stage' = "calibrate"
  /\ UNCHANGED <<machine, build, force_scalar, level, table, precision, impl, attempt,
                 iters, cost, tick, chunks, counted, executed>>

AtMost(n) == IF n > MAX_CHUNK_ITERS THEN MAX_CHUNK_ITERS ELSE n
AtLeastOne(n) == IF n < 1 THEN 1 ELSE n

\* Fault: a chunk that takes no time may be as long as it can.
NextIters_Free(elapsed) ==
  IF elapsed = 0 THEN MAX_CHUNK_ITERS
  ELSE AtMost(AtLeastOne((iters * CHUNK_TARGET) \div elapsed))

NextIters(elapsed) ==
  IF elapsed = 0 THEN AtMost(iters * 2)
  ELSE AtMost(AtLeastOne((iters * CHUNK_TARGET) \div elapsed))

\* The clock reads a multiple of its resolution.
Readings(time) == {tick * (time \div tick), tick * (time \div tick + 1)}

CloseEnough(elapsed) == CHUNK_TARGET <= 2 * elapsed /\ elapsed <= 2 * CHUNK_TARGET

Calibrate ==
  /\ stage = "calibrate"
  /\ \E delay \in Delays : \E elapsed \in Readings(iters * cost + delay) :
       /\ iters' = NextIters(elapsed)
       /\ attempt' = attempt + 1
       /\ stage' = IF CloseEnough(elapsed) \/ attempt' = 6 THEN "measure" ELSE "calibrate"
  /\ UNCHANGED <<machine, build, force_scalar, level, table, precision, impl,
                 ops_per_iter, cost, tick, chunks, counted, executed>>

\* worker(t, chunk_iters) in measure_timed_kernel, until the time is over.
Chunk ==
  /\ stage = "measure" /\ chunks < MaxChunks
  /\ chunks' = chunks + 1
  /\ executed' = executed + Work(impl, precision, iters)
  /\ UNCHANGED <<stage, machine, build, force_scalar, level, table, precision, impl,
                 ops_per_iter, attempt, iters, cost, tick, counted>>

\* total_ops.
Count ==
  /\ stage = "measure"
  /\ counted' = chunks * iters * ops_per_iter
  /\ stage' = "done"
  /\ UNCHANGED <<machine, build, force_scalar, level, table, precision, impl,
                 ops_per_iter, attempt, iters, cost, tick, chunks, executed>>

RNext ==
  SetForceScalar \/ Initialize \/ ChooseKernel \/ Probe \/ Calibrate \/ Chunk \/ Count

RSpec == RInit /\ [][RNext]_runVars

-----------------------------------------------------------------------------
(* Properties                                                                *)

\* What the README requires of a processor: on x86 AVX2, FMA and an operating system that
\* saves the registers.
Minimum(m) == m.arch = "x86" => Executes(m, {"avx2", "fma"})

\* The kernels' files are compiled for two extensions that nothing detects: FMA, which
\* almost all processors with AVX2 have, and AVX-512DQ, which the first ones with AVX-512F
\* do not have.
Companions(m) ==
  /\ "avx2" \in m.features => "fma" \in m.features
  /\ "avx512f" \in m.features => "avx512dq" \in m.features

\* No kernel that is selected is compiled for an instruction that the CPU does not have, or
\* for registers that the operating system does not save, on a processor that has FMA
\* with AVX2 and AVX-512DQ with AVX-512F.  The memory, stencil, half, int8 and FP4 kernels
\* keep this on every such machine on which the program starts, the compute kernels on
\* those that meet the README's minimum: below it the program dies of an illegal
\* instruction, as the README says, since the scalar, SSE2 and AVX compute kernels too are
\* compiled for AVX2 and FMA.
CanRun(isa, is_compute) ==
  (is_compute => Minimum(machine)) => Executes(machine, CompiledFor(isa, is_compute))
KernelsSupported ==
  level # "none" /\ Companions(machine) =>
    /\ CanRun(impl, IsFloating(precision))
    /\ \A p \in Pointers : CanRun(table[p], p \in {"compute_float", "compute_double"})

\* The chunk that the calibration settles on, between two looks at the clock, takes less
\* than twice its target, or than twice the clock's resolution if that is longer, or is a
\* single iteration: whatever the readings were rounded to and however often the thread
\* was held up.
ChunkBounded ==
  stage \in {"measure", "done"} =>
    /\ iters \in 1 .. MAX_CHUNK_ITERS
    /\ iters = 1 \/ iters * cost < 2 * CHUNK_TARGET \/ iters * cost < 2 * tick

\* The operations that are reported are those that were executed: the operations of one
\* iteration, which the kernel itself or the size of the arrays tells, hold for every
\* iteration of every chunk, also where a loop has a remainder.
OpsCounted == stage = "done" => counted = executed

\* --force-scalar turns off the SIMD kernels.
ForceScalarHolds ==
  stage \in {"probe", "calibrate", "measure", "done"} /\ force_scalar => impl = "scalar"
=============================================================================
