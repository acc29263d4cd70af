------------------------------ MODULE DotProduct ------------------------------
(***************************************************************************)
(* compute_bound_int8, compute_bound_int8_avx2 and compute_bound_int8_neon *)
(* (precision_dispatcher.hpp): the dot product of two int8 arrays, again   *)
(* and again, in blocks whose sums are kept in 32-bit lanes.  A step adds  *)
(* one product, or two neighbours, to each lane.                           *)
(***************************************************************************)
EXTENDS Integers, Functions

CONSTANTS
  kBlockSize,
  MaxProduct,  \* the largest product of two cells: 128 * 128
  Int32Max,    \* the largest number of a lane
  DotKernels,  \* [lanes, per, tail]: lanes, products that a step adds to each, and
               \* whether a loop behind the vectors does the rest of a block
  Contents,    \* [count, product]: the arrays, as the product of each pair of cells
  MaxIters     \* bound: iterations of a call

ASSUME DotAssumption ==
  /\ kBlockSize \in Nat \ {0} /\ MaxProduct \in Nat /\ Int32Max \in Nat
  /\ kBlockSize * MaxProduct <= Int32Max
  /\ \A k \in DotKernels :
       /\ k.lanes \in Nat \ {0, 1} /\ k.per \in {1, 2} /\ k.tail \in BOOLEAN
       /\ ~ k.tail => kBlockSize % (k.lanes * k.per) = 0
  /\ \A c \in Contents :
       /\ c.count \in Nat
       /\ c.product \in [0 .. c.count - 1 -> (- MaxProduct) .. MaxProduct]
  /\ MaxIters \in Nat

VARIABLES
  dpc,          \* "block", "vector", "tail", "returned"
  dot,          \* the kernel
  arrays,       \* one of Contents
  iterations, iter, base, pos,
  acc,          \* the lanes
  block, sum_total

dotVars == <<dpc, dot, arrays, iterations, iter, base, pos, acc, block, sum_total>>

DotLanes == 0 .. dot.lanes - 1
Stride == dot.lanes * dot.per
\* Fault: the last cell of a block is left to the next block, which starts behind it.
EndOfBlock_Short ==
  IF base + kBlockSize > arrays.count THEN arrays.count ELSE base + kBlockSize - 1

EndOfBlock ==
  IF base + kBlockSize > arrays.count THEN arrays.count ELSE base + kBlockSize

DInit ==
  /\ dot \in DotKernels /\ arrays \in Contents /\ iterations \in 0 .. MaxIters
  /\ dpc = "block" /\ iter = 0 /\ base = 0 /\ pos = 0
  /\ acc = [l \in DotLanes |-> 0]
  /\ block = 0 /\ sum_total = 0

\* Fault: the lanes go on from the block before.
OpenBlock_KeepsLanes ==
  /\ dpc = "block" /\ iter < iterations /\ base < arrays.count
  /\ pos' = base /\ block' = 0
  /\ dpc' = "vector"
  /\ UNCHANGED <<dot, arrays, iterations, iter, base, acc, sum_total>>

OpenBlock ==
  /\ dpc = "block" /\ iter < iterations /\ base < arrays.count
  /\ acc' = [l \in DotLanes |-> 0]
  /\ pos' = base /\ block' = 0
  /\ dpc' = "vector"
  /\ UNCHANGED <<dot, arrays, iterations, iter, base, sum_total>>

NextIteration ==
  /\ dpc = "block" /\ iter < iterations /\ base >= arrays.count
  /\ iter' = iter + 1 /\ base' = 0
  /\ UNCHANGED <<dpc, dot, arrays, iterations, pos, acc, block, sum_total>>

DotReturn ==
  /\ dpc = "block" /\ iter = iterations
  /\ dpc' = "returned"
  /\ UNCHANGED <<dot, arrays, iterations, iter, base, pos, acc, block, sum_total>>

\* madd and vpadal add the products of neighbours.
Products(l) ==
  arrays.product[pos + dot.per * l]
    + (IF dot.per = 2 THEN arrays.product[pos + dot.per * l + 1] ELSE 0)

VectorStep ==
  /\ dpc = "vector" /\ pos + Stride <= EndOfBlock
  /\ acc' = [l \in DotLanes |-> acc[l] + Products(l)]
  /\ pos' = pos + Stride
  /\ UNCHANGED <<dpc, dot, arrays, iterations, iter, base, block, sum_total>>

SumAll(f) == FoldFunction(+, 0, f)

\* The lanes are added up in 64 bits, the vector kernels' after their two registers
\* have been added to each other.
SumLanes ==
  /\ dpc = "vector" /\ pos + Stride > EndOfBlock
  /\ block' = SumAll(acc)
  /\ dpc' = "tail"
  /\ UNCHANGED <<dot, arrays, iterations, iter, base, pos, acc, sum_total>>

TailStep ==
  /\ dpc = "tail" /\ dot.tail /\ pos < EndOfBlock
  /\ block' = block + arrays.product[pos]
  /\ pos' = pos + 1
  /\ UNCHANGED <<dpc, dot, arrays, iterations, iter, base, acc, sum_total>>

CloseBlock ==
  /\ dpc = "tail" /\ (dot.tail => pos >= EndOfBlock)
  /\ sum_total' = sum_total + block
  /\ base' = base + kBlockSize
  /\ dpc' = "block"
  /\ UNCHANGED <<dot, arrays, iterations, iter, pos, acc, block>>

DNext ==
  OpenBlock \/ NextIteration \/ DotReturn \/ VectorStep \/ SumLanes \/ TailStep \/ CloseBlock

DSpec == DInit /\ [][DNext]_dotVars

-----------------------------------------------------------------------------
InInt32(n) == - Int32Max <= n /\ n <= Int32Max

\* "Keep int32 sums within range": no lane overflows, nor the sum of one with another,
\* whatever the arrays hold and however many iterations the calibration has chosen.
SumsInRange ==
  \A l \in DotLanes : InInt32(acc[l]) /\ \A m \in DotLanes \ {l} : InInt32(acc[l] + acc[m])

\* The result is that of the plain loop: no pair is left out or taken twice at the ends
\* of the vectors, of the blocks and of the iterations.
DotExact ==
  dpc = "returned" /\ (dot.tail \/ arrays.count % Stride = 0)
    => sum_total = iterations * SumAll(arrays.product)

\* The inductive invariant: a lane has at most the products of the block so far.
DotInv ==
  /\ dpc \in {"block", "vector", "tail", "returned"}
  /\ dot \in DotKernels /\ arrays \in Contents
  /\ base \in Nat /\ pos \in Nat
  /\ acc \in [DotLanes -> Int]
  /\ dpc = "vector" => base <= pos /\ pos <= EndOfBlock
  /\ dpc = "vector" =>
       \A l \in DotLanes :
         /\ acc[l] * dot.lanes <= MaxProduct * (pos - base)
         /\ - (MaxProduct * (pos - base)) <= acc[l] * dot.lanes
  /\ \A l \in DotLanes :
       /\ acc[l] * dot.lanes <= MaxProduct * kBlockSize
       /\ - (MaxProduct * kBlockSize) <= acc[l] * dot.lanes

\* The second one, for the result: between the blocks the sum is that of the iterations that
\* have ended and of the cells below base, and in a block the lanes, or then block, have the
\* sum of the cells from base to pos.
SumOver(f, from, to) == FoldFunctionOnSet(+, 0, f, from .. to - 1)
Whole == dot.tail \/ arrays.count % Stride = 0

BlockInv ==
  /\ iterations \in Nat /\ iter \in 0 .. iterations
  /\ iter = iterations => base = 0
  /\ dpc = "returned" => iter = iterations
  /\ dpc \in {"vector", "tail"} =>
       /\ base < arrays.count /\ iter < iterations
       /\ base <= pos /\ pos <= EndOfBlock
  /\ dpc = "tail" => pos + Stride > EndOfBlock
  /\ ~ dot.tail => base % Stride = 0 /\ (dpc \in {"vector", "tail"} => pos % Stride = 0)

ResultInv ==
  /\ dpc = "vector" => SumAll(acc) = SumOver(arrays.product, base, pos)
  /\ dpc = "tail" => block = SumOver(arrays.product, base, pos)
  /\ Whole =>
       sum_total = iter * SumOver(arrays.product, 0, arrays.count)
                     + SumOver(arrays.product, 0, IF base < arrays.count THEN base ELSE arrays.count)
=============================================================================
