---------------------------- MODULE MCPrecisionRun ----------------------------
(* x86 CPUs from SSE2 to AVX-512, also without FMA or AVX-512DQ, under       *)
(* operating systems that save the registers of SSE, AVX or AVX-512, two ARM *)
(* CPUs and another one.                                                     *)
EXTENDS PrecisionRun

Sse    == {"sse2", "sse4_2"}
Avx2   == Sse \cup {"avx", "avx2", "fma"}
Avx512 == Avx2 \cup {"avx512f", "avx512dq"}
MCMachines ==
  {[arch |-> "x86", features |-> f, xcr0 |-> r] :
     f \in {Sse, Sse \cup {"avx"}, Avx2 \ {"fma"}, Avx2, Avx512 \ {"avx512dq"}, Avx512},
     r \in {{}, {"ymm"}, {"ymm", "zmm"}}}
  \cup {[arch |-> "arm64", features |-> f, xcr0 |-> {}] : f \in {{"neon"}, {"neon", "fp16"}}}
  \cup {[arch |-> "riscv", features |-> {}, xcr0 |-> {}]}

\* x86: the portable build, the default one, and the native one of a CPU with AVX-512.
\* ARM: by Visual C++, and by the others.  One for another processor.
Portable == [arch |-> "x86", base |-> {"sse2"}]
MCBuilds ==
  {Portable, [arch |-> "x86", base |-> Avx2], [arch |-> "x86", base |-> Avx512],
   [arch |-> "arm64", base |-> {"neon"}], [arch |-> "arm64", base |-> {"neon", "fp16"}],
   [arch |-> "riscv", base |-> {}]}

\* A desktop with AVX2, FMA and saved registers, and the portable build.
DesktopMachines == {[arch |-> "x86", features |-> Avx2, xcr0 |-> {"ymm"}]}
DesktopBuilds   == {Portable}

MCCosts  == {1, 3, 7, 300}
MCDelays == {0, 5}
\* A clock that is finer than the target of a chunk, and one that is not.
MCTicks  == {2, 50}
=============================================================================
