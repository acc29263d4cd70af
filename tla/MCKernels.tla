------------------------------- MODULE MCKernels -------------------------------
(* The kernels and what they are made of, one of them at a time: the job says   *)
(* which, and the others have nothing to do.                                    *)
EXTENDS GridKernels, ZPartitionLoop, MatmulKernels, DotProduct, MCHalf, FP4Numbers,
        Int8Lanes, MCPrecisionRun, SequencesExt

VARIABLE job

\* Kernels that differ only in the instruction set take the same steps.
MCKernelSet == {[k_ EXCEPT !.isa = "any"] : k_ \in Kernels}
\* Rows shorter than a vector, and rows of one step of each loop and a remainder.
RowOf(k_)  == 2 * k_.border + FoldSeq(+, 0, k_.steps)
MCWidths   == [k_ \in MCKernelSet |-> {1, 3, RowOf(k_) + 1}]
\* With and without inner rows and planes, and with more planes than threads.
MCHeights  == {1, 3}
MCDepths   == {1, 2, 4}

MCTotals     == 0 .. 14
MCPartCounts == 0 .. 6

\* Vectors of 4 and 2 cells in place of 16 and more: blocks, remainders and bytes
\* that two rows, two slices or two threads share all occur with N = 3.
MCScaled(s) == [n \in DOMAIN s |-> IF s[n] = 1 THEN 1 ELSE IF s[n] = 16 THEN 4 ELSE 2]
MCMatmulSet ==
  {[m EXCEPT !.isa = "any", !.steps = MCScaled(@), !.width = IF @ = 1 THEN 1 ELSE 2] :
     m \in MatmulKernels_all}
MCShapes == [m \in MCMatmulSet |-> ({1, 2, 3} \X {1, 2, 3}) \cup {<<7, 1>>, <<1, 0>>}]

\* A sweep of a kernel with a border over a single plane, partitions of nothing and
\* products of no slices have nothing to do.
NoSweep ==
  /\ kernel = CHOOSE k_ \in MCKernelSet : k_.border = 1
  /\ Nx = 1 /\ Ny = 1 /\ Nz = 1
  /\ pc = [t \in Parts |-> "returned"]
  /\ x = [t \in Parts |-> 0] /\ y = [t \in Parts |-> 0] /\ z = [t \in Parts |-> ZStart(t)]
  /\ loop = [t \in Parts |-> 1] /\ written = [t \in Parts |-> {}]
NoPartition ==
  total = 0 /\ parts = 0 /\ ppc = "returned" /\ i = 0 /\ current = 0 /\ ranges = << >>
NoMatmul == MInit /\ matmul = (CHOOSE m \in MCMatmulSet : TRUE) /\ slices = 0

\* Vectors of 2 and 4 lanes in place of 8 and 16: blocks that end inside a vector, and
\* arrays that end inside a block.
MCDotKernels ==
  {[lanes |-> 2, per |-> 1, tail |-> FALSE], [lanes |-> 4, per |-> 2, tail |-> TRUE]}
MCContents ==
  {[count |-> n, product |-> [j \in 0 .. n - 1 |-> IF j % q = 0 THEN - v ELSE v]] :
     n \in {0, 7, 16, 19, 50}, v \in {-3, 1, 3}, q \in {1, 3, 5}}
NoDot ==
  DInit /\ dot = (CHOOSE k_ \in MCDotKernels : TRUE) /\ iterations = 0
    /\ arrays = (CHOOSE c \in MCContents : c.count = 0)

\* Eighths, beyond the largest value of FP4.
MCReals == -55 .. 55

MCFactors   == {-128, -127, -1, 0, 1, 2, 127}
MCVectorSet ==
  {[n \in 0 .. 15 |-> ((c + d * n + 128) % 256) - 128] : c \in {-128, 0, 127}, d \in {0, 1, 37}}

NoHalf ==
  /\ hpc = "stored" /\ given = NoHalfGiven /\ exp = 0 /\ mantissa = 0
  /\ float = Zero /\ cell = 0
NoVector ==
  /\ ipc = "multiply" /\ alpha = 0 /\ beta = 0 /\ lanes = 8
  /\ a = (CHOOSE v \in MCVectorSet : TRUE) /\ b = a
  /\ alpha_a = [n \in Lanes |-> 0] /\ beta_b = alpha_a /\ result = alpha_a /\ out = alpha_a
NoRun ==
  /\ stage = "main" /\ machine = (CHOOSE m \in MCMachines : m.arch = "riscv")
  /\ build = (CHOOSE b_ \in MCBuilds : b_.arch = "riscv")
  /\ force_scalar = FALSE /\ level = "none" /\ table = [p \in Pointers |-> "scalar"]
  /\ precision = "fp64" /\ impl = "scalar" /\ ops_per_iter = 0 /\ attempt = 0 /\ iters = 1
  /\ cost = 1 /\ tick = 2 /\ chunks = 0 /\ counted = 0 /\ executed = 0

AInit ==
  \/ job = "sweep" /\ Init /\ NoPartition /\ NoMatmul /\ NoDot /\ NoHalf /\ FInit /\ NoVector /\ NoRun
  \/ job = "partition" /\ NoSweep /\ PInit /\ NoMatmul /\ NoDot /\ NoHalf /\ FInit /\ NoVector /\ NoRun
  \/ job = "product" /\ NoSweep /\ NoPartition /\ MInit /\ NoDot /\ NoHalf /\ FInit /\ NoVector /\ NoRun
  \/ job = "dot" /\ NoSweep /\ NoPartition /\ NoMatmul /\ DInit /\ NoHalf /\ FInit /\ NoVector /\ NoRun
  \/ job = "half" /\ NoSweep /\ NoPartition /\ NoMatmul /\ NoDot /\ HInit /\ FInit /\ NoVector /\ NoRun
  \/ job = "fp4" /\ NoSweep /\ NoPartition /\ NoMatmul /\ NoDot /\ NoHalf /\ FInit /\ NoVector /\ NoRun
  \/ job = "vector" /\ NoSweep /\ NoPartition /\ NoMatmul /\ NoDot /\ NoHalf /\ FInit /\ VInit /\ NoRun
  \/ job = "run" /\ NoSweep /\ NoPartition /\ NoMatmul /\ NoDot /\ NoHalf /\ FInit /\ NoVector /\ RInit

allVars ==
  <<job, vars, partVars, matmulVars, dotVars, halfVars, fp4Vars, int8Vars, runVars>>

SweepStep ==
  /\ job = "sweep" /\ \E t \in Parts : Step(t)
  /\ UNCHANGED <<job, partVars, matmulVars, dotVars, halfVars, fp4Vars, int8Vars, runVars>>
PartitionStep ==
  /\ job = "partition" /\ (Enter \/ Iterate \/ Return)
  /\ UNCHANGED <<job, vars, matmulVars, dotVars, halfVars, fp4Vars, int8Vars, runVars>>
ProductStep ==
  /\ job = "product" /\ MNext
  /\ UNCHANGED <<job, vars, partVars, dotVars, halfVars, fp4Vars, int8Vars, runVars>>
DotStep ==
  /\ job = "dot" /\ DNext
  /\ UNCHANGED <<job, vars, partVars, matmulVars, halfVars, fp4Vars, int8Vars, runVars>>
HalfStep ==
  /\ job = "half" /\ HNext
  /\ UNCHANGED <<job, vars, partVars, matmulVars, dotVars, fp4Vars, int8Vars, runVars>>
FP4Step ==
  /\ job = "fp4" /\ FNext
  /\ UNCHANGED <<job, vars, partVars, matmulVars, dotVars, halfVars, int8Vars, runVars>>
VectorLoopStep ==
  /\ job = "vector" /\ VNext
  /\ UNCHANGED <<job, vars, partVars, matmulVars, dotVars, halfVars, fp4Vars, runVars>>
RunStep ==
  /\ job = "run" /\ RNext
  /\ UNCHANGED <<job, vars, partVars, matmulVars, dotVars, halfVars, fp4Vars, int8Vars>>

ANext ==
  SweepStep \/ PartitionStep \/ ProductStep \/ DotStep \/ HalfStep \/ FP4Step
    \/ VectorLoopStep \/ RunStep

ASpec == AInit /\ [][ANext]_allVars /\ WF_allVars(SweepStep)
=============================================================================
