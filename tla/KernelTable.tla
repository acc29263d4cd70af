------------------------------ MODULE KernelTable ------------------------------
(***************************************************************************)
(* The memory and stencil kernels of the program.  All have one shape: for *)
(* each plane z of the range, for each row y, a sequence of loops over x,  *)
(* the first ones a vector at a time and the last one a cell at a time.    *)
(* What tells one from another is the instruction set it needs, the cells  *)
(* it leaves out at the border, the widths of its loops and the cells that *)
(* it reads around the one it writes; the arithmetic on a cell is left out *)
(* here (Int8Lanes, HalfNumbers and FP4Numbers have some of it).           *)
(***************************************************************************)
EXTENDS Integers, Sequences

CONSTANTS
  Lanes32, Lanes64,      \* vsetvl of a RISC-V machine, for 32 and 64 bit elements
  FP4_SIMD_CHUNK_SIZE    \* 8, 4 or 1, by the instruction set of the build

ASSUME LanesAssumption ==
  Lanes32 \in Nat \ {0} /\ Lanes64 \in Nat \ {0} /\ FP4_SIMD_CHUNK_SIZE \in Nat \ {0}

Centre == {<<0, 0, 0>>}
SevenPoints ==
  Centre \cup {<<1, 0, 0>>, <<-1, 0, 0>>, <<0, 1, 0>>, <<0, -1, 0>>, <<0, 0, 1>>, <<0, 0, -1>>}
ThreePoints == Centre \cup {<<1, 0, 0>>, <<-1, 0, 0>>, <<0, 1, 0>>}

\* steps: the widths of the loops over x, in order.  A loop with partial = TRUE
\* takes a last step shorter than its width, any other leaves it to the next loop.
Mem(isa, steps) ==
  [isa |-> isa, border |-> 0, steps |-> steps, partial |-> FALSE, reads |-> Centre]
Stencil(isa, steps) ==
  [isa |-> isa, border |-> 1, steps |-> steps, partial |-> FALSE, reads |-> SevenPoints]

\* Header of inline kernels, chosen when the program is compiled: simd_kernels.hpp.
kernel_mem_scalar_float == Mem("scalar", <<1>>)
kernel_mem_scalar_double == Mem("scalar", <<1>>)
kernel_mem_scalar_int8 == Mem("scalar", <<1>>)
kernel_mem_scalar_half == Mem("scalar", <<1>>)
kernel_stencil_scalar_float == Stencil("scalar", <<1>>)
kernel_stencil_scalar_double == Stencil("scalar", <<1>>)
kernel_stencil_scalar_int8 == Stencil("scalar", <<1>>)
kernel_stencil_scalar_half == Stencil("scalar", <<1>>)
kernel_mem_neon_float == Mem("neon", <<4, 1>>)
kernel_stencil_neon_float == Stencil("neon", <<4, 1>>)
kernel_mem_neon_fp16 == Mem("neonfp16", <<16, 8, 1>>)
kernel_stencil_neon_fp16 == Stencil("neonfp16", <<8, 1>>)
kernel_mem_sse2_float == Mem("sse2", <<4, 1>>)
kernel_mem_sse2_double == Mem("sse2", <<2, 1>>)
kernel_stencil_sse2_float == Stencil("sse2", <<4, 1>>)
kernel_stencil_sse2_double == Stencil("sse2", <<2, 1>>)
kernel_mem_sse2_int8 == Mem("sse2", <<8, 1>>)
kernel_mem_avx_float == Mem("avx", <<8, 1>>)
kernel_mem_avx_double == Mem("avx", <<4, 1>>)
kernel_stencil_avx_float == Stencil("avx", <<8, 1>>)
kernel_stencil_avx_double == Stencil("avx", <<4, 1>>)
kernel_mem_avx2_float == Mem("avx2", <<8, 1>>)
kernel_mem_avx2_double == Mem("avx2", <<4, 1>>)
kernel_stencil_avx2_float == Stencil("avx2", <<8, 1>>)
kernel_stencil_avx2_double == Stencil("avx2", <<4, 1>>)
kernel_mem_avx2_int8 == Mem("avx2", <<16, 1>>)
kernel_mem_avx512_fp16 == Mem("avx512fp16", <<32, 1>>)
kernel_stencil_avx512_fp16 == Stencil("avx512fp16", <<32, 1>>)

\* Kernels compiled one file per instruction set, chosen at run time: kernels/*.cpp.
scalar_mem_float == Mem("scalar", <<1>>)
scalar_mem_double == Mem("scalar", <<1>>)
scalar_stencil_float == Stencil("scalar", <<1>>)
scalar_stencil_double == Stencil("scalar", <<1>>)
scalar_mem_int8 == Mem("scalar", <<1>>)
scalar_stencil_int8 == Stencil("scalar", <<1>>)
sse2_mem_float == Mem("sse2", <<4, 1>>)
sse2_mem_double == Mem("sse2", <<2, 1>>)
sse2_stencil_float == Stencil("sse2", <<4, 1>>)
sse2_stencil_double == Stencil("sse2", <<2, 1>>)
sse2_mem_int8 == Mem("sse2", <<8, 1>>)
avx_mem_float == Mem("avx", <<8, 1>>)
avx_mem_double == Mem("avx", <<4, 1>>)
avx_stencil_float == Stencil("avx", <<8, 1>>)
avx_stencil_double == Stencil("avx", <<4, 1>>)
avx2_mem_float == Mem("avx2", <<8, 1>>)
avx2_mem_double == Mem("avx2", <<4, 1>>)
avx2_stencil_float == Stencil("avx2", <<8, 1>>)
avx2_stencil_double == Stencil("avx2", <<4, 1>>)
avx2_mem_int8 == Mem("avx2", <<16, 1>>)
avx512_mem_float == Mem("avx512", <<16, 1>>)
avx512_mem_double == Mem("avx512", <<8, 1>>)
avx512_stencil_float == Stencil("avx512", <<16, 1>>)
avx512_stencil_double == Stencil("avx512", <<8, 1>>)
neon_mem_float == Mem("neon", <<4, 1>>)
neon_stencil_float == Stencil("neon", <<4, 1>>)
riscv_mem_float == Mem("scalar", <<1>>)
riscv_mem_double == Mem("scalar", <<1>>)
riscv_stencil_float == Stencil("scalar", <<1>>)
riscv_stencil_double == Stencil("scalar", <<1>>)
riscv_mem_int8 == Mem("scalar", <<1>>)
riscv_stencil_int8 == Stencil("scalar", <<1>>)
riscv_mem_float_rvv == Mem("rvv", <<Lanes32, 1>>)
riscv_mem_double_rvv == Mem("rvv", <<Lanes64, 1>>)
riscv_mem_fixed16 == Mem("scalar", <<1>>)
riscv_mem_int_only == Mem("scalar", <<1>>)
mem_arduino == Mem("scalar", <<1>>)
mem_arduino_int8 == Mem("scalar", <<1>>)
stencil_arduino_3point == [Stencil("scalar", <<1>>) EXCEPT !.reads = ThreePoints]
mem_rpi_armv6 == Mem("scalar", <<4, 1>>)
stencil_rpi == Stencil("scalar", <<2, 1>>)
mem_esp32 == Mem("scalar", <<8, 1>>)
mem_float_legacy == Mem("scalar", <<1>>)
stencil_float_legacy == Stencil("scalar", <<1>>)
mem_universal == Mem("scalar", <<1>>)
stencil_universal == Stencil("scalar", <<1>>)
mem_universal_int8 == Mem("scalar", <<1>>)
stencil_universal_int8 == Stencil("scalar", <<1>>)

\* Template kernels of the generic benchmarks: math_kernels.hpp, math_kernels_extended.hpp.
kernel_mem == Mem("scalar", <<1>>)
kernel_stencil == Stencil("scalar", <<1>>)
kernel_mem_typed == Mem("scalar", <<1>>)
kernel_mem_typed_half == Mem("scalar", <<1>>)
kernel_mem_typed_int8 == Mem("scalar", <<1>>)
kernel_stencil_typed == Stencil("scalar", <<1>>)
kernel_stencil_typed_half == Stencil("scalar", <<1>>)
kernel_stencil_typed_int8 == Stencil("scalar", <<1>>)
kernel_stencil_fp4 == [Stencil("scalar", <<4 * FP4_SIMD_CHUNK_SIZE>>) EXCEPT !.partial = TRUE]

\* Of the cache benchmark: arrays without rows, planes of one cell.  cache_benchmark.hpp.
CacheBenchmark_run_kernel == Mem("scalar", <<1>>)

Kernels ==
  {kernel_mem_scalar_float, kernel_mem_scalar_double, kernel_mem_scalar_int8,
   kernel_mem_scalar_half, kernel_stencil_scalar_float, kernel_stencil_scalar_double,
   kernel_stencil_scalar_int8, kernel_stencil_scalar_half, kernel_mem_neon_float,
   kernel_stencil_neon_float, kernel_mem_neon_fp16, kernel_stencil_neon_fp16,
   kernel_mem_sse2_float, kernel_mem_sse2_double, kernel_stencil_sse2_float,
   kernel_stencil_sse2_double, kernel_mem_sse2_int8, kernel_mem_avx_float,
   kernel_mem_avx_double, kernel_stencil_avx_float, kernel_stencil_avx_double,
   kernel_mem_avx2_float, kernel_mem_avx2_double, kernel_stencil_avx2_float,
   kernel_stencil_avx2_double, kernel_mem_avx2_int8, kernel_mem_avx512_fp16,
   kernel_stencil_avx512_fp16, scalar_mem_float, scalar_mem_double,
   scalar_stencil_float, scalar_stencil_double, scalar_mem_int8, scalar_stencil_int8,
   sse2_mem_float, sse2_mem_double, sse2_stencil_float, sse2_stencil_double,
   sse2_mem_int8, avx_mem_float, avx_mem_double, avx_stencil_float, avx_stencil_double,
   avx2_mem_float, avx2_mem_double, avx2_stencil_float, avx2_stencil_double,
   avx2_mem_int8, avx512_mem_float, avx512_mem_double, avx512_stencil_float,
   avx512_stencil_double, neon_mem_float, neon_stencil_float, riscv_mem_float,
   riscv_mem_double, riscv_stencil_float, riscv_stencil_double, riscv_mem_int8,
   riscv_stencil_int8, riscv_mem_float_rvv, riscv_mem_double_rvv, riscv_mem_fixed16,
   riscv_mem_int_only, mem_arduino, mem_arduino_int8, stencil_arduino_3point,
   mem_rpi_armv6, stencil_rpi, mem_esp32, mem_float_legacy, stencil_float_legacy,
   mem_universal, stencil_universal, mem_universal_int8, stencil_universal_int8,
   kernel_mem, kernel_stencil, kernel_mem_typed, kernel_mem_typed_half,
   kernel_mem_typed_int8, kernel_stencil_typed, kernel_stencil_typed_half,
   kernel_stencil_typed_int8, kernel_stencil_fp4, CacheBenchmark_run_kernel}
=============================================================================
