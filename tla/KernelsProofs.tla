----------------------------- MODULE KernelsProofs -----------------------------
(***************************************************************************)
(* The compute kernels and the loop that cuts their planes into ranges,    *)
(* for every kernel, every size and every number of threads: the loop of   *)
(* the partition computes its closed form; a sweep over the grid writes    *)
(* each cell of the region once, what a thread has written being always    *)
(* what is behind it in its own planes (Frontier); and a matrix product    *)
(* leaves every term once in each cell.                                    *)
(***************************************************************************)
EXTENDS GridKernels, ZPartitionLoop, MatmulKernels, Arithmetic

-----------------------------------------------------------------------------
(* The loop                                                                  *)

\* The invariant holds at the call.
LEMMA LoopStarts == PInit => PInv
BY PartitionAssumption DEF PInit, PInv, PTypeOK, EnterInv, LoopInv, RangesInv, ReturnInv

\* In the loop, the next part is empty if the total is used up, and else begins
\* at current.
LEMMA PartFacts ==
  ASSUME PTypeOK, LoopInv, ppc = "loop", i < parts
  PROVE  /\ parts \in Nat \ {0} /\ total \in Nat /\ i \in 0 .. parts - 1
         /\ PartSize \in Nat
         /\ current = RangeBegin(total, parts, i)
         /\ current + PartSize = RangeBegin(total, parts, i + 1)
         /\ current + PartSize = RangeEnd(total, parts, i)
         /\ current + PartSize \in 0 .. total
         /\ PartSize > 0 <=> i < NumRanges(total, parts)
<1>1. parts \in Nat \ {0} /\ total \in Nat /\ i \in 0 .. parts - 1 /\ i \in Nat
  BY DEF PTypeOK, LoopInv
<1>2. current = RangeBegin(total, parts, i)
  BY DEF LoopInv
<1>3. /\ RangeSize(total, parts, i) \in Nat
      /\ RangeBegin(total, parts, i + 1) = current + RangeSize(total, parts, i)
  BY <1>1, <1>2, BeginStep
<1>4. i + 1 \in 0 .. parts
  BY <1>1
<1>5. RangeBegin(total, parts, i + 1) \in 0 .. total
  BY <1>1, <1>4, BeginBound
<1>6. RangeSize(total, parts, i) > 0 <=> i < NumRanges(total, parts)
  BY <1>1, SizePositive
<1> QED BY <1>1, <1>2, <1>3, <1>5, <1>6 DEF PartSize, RangeEnd

\* One iteration keeps it: it emits the range of thread i, or none if i has no plane.
LEMMA IterateInv == PInv /\ Iterate => PInv'
<1> SUFFICES ASSUME PInv, Iterate PROVE PInv'
  OBVIOUS
<1>1. PTypeOK /\ LoopInv /\ RangesInv /\ ppc = "loop" /\ i < parts
  BY DEF PInv, Iterate
<1> DEFINE new == [begin |-> current, end |-> current + PartSize]
<1>2. /\ parts \in Nat \ {0} /\ total \in Nat /\ i \in 0 .. parts - 1
      /\ PartSize \in Nat
      /\ current = RangeBegin(total, parts, i)
      /\ current + PartSize = RangeBegin(total, parts, i + 1)
      /\ current + PartSize = RangeEnd(total, parts, i)
      /\ current + PartSize \in 0 .. total
      /\ PartSize > 0 <=> i < NumRanges(total, parts)
  BY <1>1, PartFacts
<1>3. /\ total' = total /\ parts' = parts /\ ppc' = ppc /\ i' = i + 1
      /\ i' \in 0 .. parts' /\ total > 0 /\ parts > 0
  BY <1>1, <1>2 DEF Iterate, LoopInv
<1>4. /\ current \in 0 .. total /\ ranges \in Seq([begin : Nat, end : Nat])
      /\ Len(ranges) = NumRanges(total, i)
  BY <1>1, <1>2 DEF PTypeOK, LoopInv
<1>5. CASE PartSize > 0
  <2>1. ranges' = Append(ranges, new) /\ current' = current + PartSize
    BY <1>5 DEF Iterate, Emit
  <2>2. i < total /\ Len(ranges) = i
    BY <1>2, <1>3, <1>4, <1>5 DEF NumRanges
  <2>3. new \in [begin : Nat, end : Nat]
    BY <1>2, <1>4
  <2>4. /\ Len(ranges') = i + 1
        /\ \A p \in 1 .. i : ranges'[p] = ranges[p]
        /\ ranges'[i + 1] = new
        /\ ranges' \in Seq([begin : Nat, end : Nat])
    BY <1>2, <1>4, <2>1, <2>2, <2>3
  <2>5. PTypeOK'
    BY <1>1, <1>2, <1>3, <2>1, <2>4 DEF PTypeOK
  <2>6. LoopInv'
    <3>1. Len(ranges') = NumRanges(total', IF i' < parts' THEN i' ELSE parts')
      BY <1>2, <1>3, <2>2, <2>4 DEF NumRanges
    <3> QED BY <1>2, <1>3, <2>1, <3>1 DEF LoopInv
  <2>7. RangesInv'
    <3> SUFFICES ASSUME NEW p \in 1 .. Len(ranges')
                 PROVE  /\ p <= parts
                        /\ ranges'[p] = [begin |-> RangeBegin(total, parts, p - 1),
                                         end   |-> RangeEnd(total, parts, p - 1)]
                        /\ ranges'[p].begin < ranges'[p].end
      BY <1>3 DEF RangesInv
    <3>1. CASE p = i + 1
      <4>1. p - 1 = i /\ p <= parts
        BY <1>2, <3>1
      <4>2. new.begin < new.end
        BY <1>2, <1>4, <1>5
      <4> QED BY <1>2, <2>4, <3>1, <4>1, <4>2
    <3>2. CASE p \in 1 .. i
      BY <1>1, <2>2, <2>4, <3>2 DEF RangesInv
    <3> QED BY <1>2, <2>4, <3>1, <3>2
  <2> QED BY <1>1, <1>3, <2>5, <2>6, <2>7 DEF PInv, EnterInv, ReturnInv
<1>6. CASE ~ PartSize > 0
  <2>1. ranges' = ranges /\ current' = current
    BY <1>6 DEF Iterate
  <2>2. PartSize = 0
    BY <1>2, <1>6
  <2>3. PTypeOK'
    BY <1>1, <1>3, <2>1 DEF PTypeOK
  <2>4. LoopInv'
    <3>1. Len(ranges') = NumRanges(total', IF i' < parts' THEN i' ELSE parts')
      BY <1>2, <1>3, <1>4, <1>6, <2>1 DEF NumRanges
    <3>2. current' = RangeBegin(total', parts', i')
      BY <1>2, <1>3, <1>4, <2>1, <2>2
    <3> QED BY <1>3, <3>1, <3>2 DEF LoopInv
  <2>5. RangesInv'
    BY <1>1, <1>3, <2>1 DEF RangesInv
  <2> QED BY <1>1, <1>3, <2>3, <2>4, <2>5 DEF PInv, EnterInv, ReturnInv
<1> QED BY <1>5, <1>6

\* So does every step.
LEMMA LoopStep == PInv /\ [PNext]_partVars => PInv'
<1> SUFFICES ASSUME PInv, [PNext]_partVars PROVE PInv'
  OBVIOUS
<1>1. CASE Enter
  <2>1. /\ total \in Nat /\ parts \in Nat /\ ppc = "enter"
        /\ i = 0 /\ current = 0 /\ ranges = << >>
    BY <1>1 DEF PInv, PTypeOK, EnterInv, Enter
  <2>2. /\ total' = total /\ parts' = parts /\ i' = i
        /\ current' = current /\ ranges' = ranges
        /\ ppc' = IF parts = 0 \/ total = 0 THEN "returned" ELSE "loop"
    BY <1>1 DEF Enter
  <2>3. PTypeOK'
    BY <2>1, <2>2, <1>1 DEF PInv, PTypeOK
  <2>4. LoopInv'
    <3>1. CASE parts = 0 \/ total = 0
      BY <2>2, <3>1 DEF LoopInv
    <3>2. CASE ~ (parts = 0 \/ total = 0)
      <4>1. RangeBegin(total, parts, 0) = 0
        BY <2>1, <3>2, BeginBound
      <4>2. Len(ranges) = 0
        BY <2>1
      <4> QED BY <2>1, <2>2, <3>2, <4>1, <4>2 DEF LoopInv, NumRanges
    <3> QED BY <3>1, <3>2
  <2> QED BY <2>1, <2>2, <2>3, <2>4 DEF PInv, EnterInv, RangesInv, ReturnInv
<1>2. CASE Iterate
  BY <1>2, IterateInv
<1>3. CASE Return
  <2>1. /\ ppc = "loop" /\ i = parts /\ ppc' = "returned"
        /\ total' = total /\ parts' = parts /\ i' = i
        /\ current' = current /\ ranges' = ranges
    BY <1>3 DEF Return
  <2>2. /\ parts \in Nat /\ total \in Nat /\ parts > 0 /\ total > 0
        /\ Len(ranges) = NumRanges(total, parts)
    BY <2>1 DEF PInv, PTypeOK, LoopInv
  <2> QED BY <2>1, <2>2 DEF PInv, PTypeOK, EnterInv, LoopInv, RangesInv, ReturnInv
<1>4. CASE UNCHANGED partVars
  BY <1>4 DEF partVars, PInv, PTypeOK, EnterInv, LoopInv, RangesInv, ReturnInv
<1> QED BY <1>1, <1>2, <1>3, <1>4 DEF PNext, PFinished

\* The invariant of the loop, for every total and number of parts.
THEOREM LoopInvariant == PSpec => []PInv
<1>1. PInit => PInv
  BY LoopStarts
<1>2. PInv /\ [PNext]_partVars => PInv'
  BY LoopStep
<1> QED BY <1>1, <1>2, PTL DEF PSpec

\* The p-th range emitted, field by field.
LEMMA RangeIs ==
  ASSUME PInv, NEW p \in 1 .. Len(ranges)
  PROVE  /\ Len(ranges) \in Nat /\ parts \in Nat \ {0} /\ total \in Nat /\ p - 1 \in Nat
         /\ ranges[p].begin = RangeBegin(total, parts, p - 1)
         /\ ranges[p].end = RangeBegin(total, parts, p - 1) + RangeSize(total, parts, p - 1)
         /\ ranges[p].begin < ranges[p].end
<1>1. RangesInv
  BY DEF PInv
<1>2. Len(ranges) \in Nat /\ parts \in Nat /\ total \in Nat
  BY DEF PInv, PTypeOK
<1>3. ranges[p] = [begin |-> RangeBegin(total, parts, p - 1),
                   end   |-> RangeEnd(total, parts, p - 1)]
  BY <1>1 DEF RangesInv
<1>4. ranges[p].begin < ranges[p].end /\ p <= parts
  BY <1>1 DEF RangesInv
<1>5. ranges[p].begin = RangeBegin(total, parts, p - 1)
  BY <1>3
<1>6. ranges[p].end = RangeEnd(total, parts, p - 1)
  BY <1>3
<1> QED BY <1>2, <1>4, <1>5, <1>6 DEF RangeEnd

\* What the invariant says when the loop returns.
LEMMA TilingFollows == PInv => Tiling
<1> SUFFICES ASSUME PInv, ppc = "returned", parts > 0, total > 0
             PROVE  /\ Len(ranges) > 0
                    /\ ranges[1].begin = 0
                    /\ ranges[Len(ranges)].end = total
                    /\ \A p \in 1 .. Len(ranges) : ranges[p].begin < ranges[p].end
                    /\ \A p \in 1 .. Len(ranges) - 1 : ranges[p].end = ranges[p + 1].begin
  BY DEF Tiling
<1>1. parts \in Nat \ {0} /\ total \in Nat \ {0}
  BY DEF PInv, PTypeOK
<1>2. Len(ranges) = NumRanges(total, parts)
  BY <1>1 DEF PInv, ReturnInv
<1>3. Len(ranges) \in 1 .. parts
  BY <1>1, <1>2 DEF NumRanges
<1>4. \A p \in 1 .. Len(ranges) :
        /\ ranges[p].begin = RangeBegin(total, parts, p - 1)
        /\ ranges[p].end = RangeEnd(total, parts, p - 1)
        /\ ranges[p].begin < ranges[p].end
  BY RangeIs DEF RangeEnd
<1>5. \A p \in 1 .. Len(ranges) : RangeEnd(total, parts, p - 1) = RangeBegin(total, parts, p)
  <2> TAKE p \in 1 .. Len(ranges)
  <2>1. p - 1 \in Nat /\ (p - 1) + 1 = p
    BY <1>3
  <2>2. RangeBegin(total, parts, (p - 1) + 1)
          = RangeBegin(total, parts, p - 1) + RangeSize(total, parts, p - 1)
    BY <1>1, <2>1, BeginStep
  <2> QED BY <2>1, <2>2 DEF RangeEnd
<1>b. RangeBegin(total, parts, 0) = 0 /\ RangeBegin(total, parts, parts) = total
  <2>1. 0 \in 0 .. parts
    BY <1>1
  <2> QED BY <1>1, <2>1, BeginBound
<1>6. ranges[1].begin = 0
  <2>1. 1 \in 1 .. Len(ranges) /\ 1 - 1 = 0
    BY <1>3
  <2> QED BY <1>4, <1>b, <2>1
<1>7. RangeBegin(total, parts, Len(ranges)) = total
  <2>1. CASE total >= parts
    <3>1. Len(ranges) = parts
      BY <1>1, <1>2, <2>1 DEF NumRanges
    <3> QED BY <1>b, <3>1
  <2>2. CASE total < parts
    <3>1. BaseSize(total, parts) = 0 /\ Remainder(total, parts) = total
      BY <1>1, <2>2 DEF BaseSize, Remainder
    <3>2. total * 0 = 0
      BY <1>1
    <3> QED BY <1>1, <1>2, <2>2, <3>1, <3>2 DEF NumRanges, RangeBegin
  <2> QED BY <1>1, <2>1, <2>2
<1>8. ranges[Len(ranges)].end = total
  BY <1>3, <1>4, <1>5, <1>7
<1>9. \A p \in 1 .. Len(ranges) - 1 : ranges[p].end = ranges[p + 1].begin
  <2> TAKE p \in 1 .. Len(ranges) - 1
  <2>1. p \in 1 .. Len(ranges) /\ p + 1 \in 1 .. Len(ranges) /\ (p + 1) - 1 = p
    BY <1>3
  <2> QED BY <1>4, <1>5, <2>1
<1> QED BY <1>3, <1>4, <1>6, <1>8, <1>9

\* The sizes of two ranges differ by the plane that the first threads take more.
LEMMA BalancedFollows == PInv => Balanced
<1> SUFFICES ASSUME PInv, NEW j \in 1 .. Len(ranges), NEW p \in 1 .. Len(ranges)
             PROVE  ranges[j].end - ranges[j].begin <= ranges[p].end - ranges[p].begin + 1
  BY DEF Balanced
<1>1. /\ parts \in Nat \ {0} /\ total \in Nat
      /\ j - 1 \in Nat
      /\ ranges[j].begin = RangeBegin(total, parts, j - 1)
      /\ ranges[j].end = RangeBegin(total, parts, j - 1) + RangeSize(total, parts, j - 1)
  BY RangeIs
<1>2. /\ p - 1 \in Nat
      /\ ranges[p].begin = RangeBegin(total, parts, p - 1)
      /\ ranges[p].end = RangeBegin(total, parts, p - 1) + RangeSize(total, parts, p - 1)
  BY RangeIs
<1>4. /\ RangeBegin(total, parts, j - 1) \in Nat /\ RangeSize(total, parts, j - 1) \in Nat
      /\ RangeBegin(total, parts, p - 1) \in Nat /\ RangeSize(total, parts, p - 1) \in Nat
  BY <1>1, <1>2, BeginStep
<1>5. BaseSize(total, parts) \in Nat
  BY <1>1, DivMod
<1>6. RangeSize(total, parts, j - 1) <= RangeSize(total, parts, p - 1) + 1
  BY <1>5 DEF RangeSize
<1> QED BY <1>1, <1>2, <1>4, <1>6

\* On return there is one range for each thread that has a plane.
LEMMA ClosedFormFollows == PInv => ClosedForm
<1> SUFFICES ASSUME PInv, ppc = "returned", parts > 0
             PROVE  /\ Len(ranges) = NumRanges(total, parts)
                    /\ \A p \in 1 .. Len(ranges) :
                         ranges[p] = [begin |-> RangeBegin(total, parts, p - 1),
                                      end   |-> RangeEnd(total, parts, p - 1)]
  BY DEF ClosedForm
<1>1. \A p \in 1 .. Len(ranges) :
        ranges[p] = [begin |-> RangeBegin(total, parts, p - 1),
                     end   |-> RangeEnd(total, parts, p - 1)]
  BY DEF PInv, RangesInv
<1>2. CASE total = 0
  <2>1. ranges = << >>
    BY <1>2 DEF PInv, ReturnInv
  <2>2. Len(ranges) = 0
    BY <2>1
  <2> QED BY <1>1, <1>2, <2>2 DEF NumRanges
<1>3. CASE total # 0
  BY <1>1, <1>3 DEF PInv, PTypeOK, ReturnInv
<1> QED BY <1>2, <1>3

\* The partition of a parallel loop covers every plane once, whatever the total
\* and the number of parts: no plane is computed twice or left out.
THEOREM PartitionTiles == PSpec => []Tiling
BY LoopInvariant, TilingFollows, PTL

\* No thread gets more than one plane more than another.
THEOREM PartitionIsBalanced == PSpec => []Balanced
BY LoopInvariant, BalancedFollows, PTL

\* The loop computes the closed forms of ZPartition that the models of the pools
\* and of the kernels compute with.
THEOREM LoopHasClosedForm == PSpec => []ClosedForm
BY LoopInvariant, ClosedFormFollows, PTL

-----------------------------------------------------------------------------
(* The sweep over the grid                                                   *)

\* What the assumptions give of the arguments of a sweep.
LEMMA Arguments ==
  ASSUME TypeOK
  PROVE  /\ Nx \in Nat \ {0} /\ Ny \in Nat \ {0} /\ Nz \in Nat \ {0}
         /\ kernel.border \in {0, 1}
         /\ kernel.partial \in BOOLEAN
         /\ Len(kernel.steps) \in Nat \ {0}
         /\ \A l \in 1 .. Len(kernel.steps) : kernel.steps[l] \in Nat \ {0}
         /\ kernel.partial \/ kernel.steps[Len(kernel.steps)] = 1
         /\ kernel.reads \subseteq (IF kernel.border = 0 THEN Centre ELSE SevenPoints)
<1>1. IsKernel(kernel)
  BY KernelAssumption DEF TypeOK
<1>2. Nx \in Nat \ {0} /\ Ny \in Nat \ {0} /\ Nz \in Nat \ {0}
  BY GridAssumption DEF TypeOK
<1>3. kernel.steps \in Seq(Nat \ {0}) /\ Len(kernel.steps) > 0
  BY <1>1 DEF IsKernel
<1>4. /\ Len(kernel.steps) \in Nat \ {0}
      /\ \A l \in 1 .. Len(kernel.steps) : kernel.steps[l] \in Nat \ {0}
  BY <1>3
<1> QED BY <1>1, <1>2, <1>4 DEF IsKernel

\* The planes of a thread, after the clamps at the border.
LEMMA Planes ==
  ASSUME TypeOK, NEW t \in Parts
  PROVE  /\ ZStart(t) \in Nat /\ ZStop(t) \in Int
         /\ ZStart(t) >= kernel.border
         /\ ZStop(t) <= Nz - kernel.border
         /\ RangeBegin(Nz, Threads, t) <= ZStart(t)
         /\ ZStop(t) <= RangeEnd(Nz, Threads, t)
         /\ \A p \in kernel.border .. Nz - 1 - kernel.border :
              (ZStart(t) <= p /\ p < ZStop(t)) <=>
                (RangeBegin(Nz, Threads, t) <= p /\ p < RangeEnd(Nz, Threads, t))
<1>1. Nz \in Nat \ {0} /\ kernel.border \in {0, 1} /\ Threads \in Nat \ {0}
  BY Arguments, GridAssumption
<1>2. /\ RangeBegin(Nz, Threads, t) \in Nat /\ RangeEnd(Nz, Threads, t) \in Nat
      /\ RangeEnd(Nz, Threads, t) <= Nz
  BY <1>1, RangeOf DEF Parts
<1> QED BY <1>1, <1>2 DEF ZStart, ZStop

\* An iteration that fits stays in its row and moves forward.
LEMMA Fitting ==
  ASSUME IInv, NEW t \in Parts, pc[t] = "cells", Fits(t)
  PROVE  /\ Width(t) \in Nat \ {0}
         /\ x[t] + Width(t) <= Nx - kernel.border
<1>1. /\ x[t] \in Nat /\ loop[t] \in 1 .. Len(kernel.steps)
      /\ Nx \in Nat \ {0} /\ kernel.border \in {0, 1}
      /\ kernel.steps[loop[t]] \in Nat \ {0}
      /\ kernel.partial \in BOOLEAN
  BY Arguments DEF IInv, TypeOK
<1>2. CASE kernel.partial
  BY <1>1, <1>2 DEF Fits, Width, RowEnd
<1>3. CASE ~ kernel.partial
  BY <1>1, <1>3 DEF Fits, Width, RowEnd
<1> QED BY <1>1, <1>2, <1>3

\* When the last loop does not fit, the row is finished.
LEMMA RowDone ==
  ASSUME IInv, NEW t \in Parts, pc[t] = "cells", ~ Fits(t), loop[t] >= Len(kernel.steps)
  PROVE  x[t] >= Nx - kernel.border
<1>1. /\ x[t] \in Nat /\ loop[t] = Len(kernel.steps)
      /\ Nx \in Nat \ {0} /\ kernel.border \in {0, 1}
      /\ kernel.partial \in BOOLEAN
      /\ kernel.partial \/ kernel.steps[loop[t]] = 1
  BY Arguments DEF IInv, TypeOK
<1>2. CASE kernel.partial
  BY <1>1, <1>2 DEF Fits, RowEnd
<1>3. CASE ~ kernel.partial
  BY <1>1, <1>3 DEF Fits, RowEnd
<1> QED BY <1>1, <1>2, <1>3

\* A cell of the region of a thread, coordinate by coordinate.
LEMMA RegionCell ==
  ASSUME TypeOK, NEW t \in Parts, NEW c
  PROVE  c \in RegionOf(t) <=>
           \E cx, cy, cz \in Nat :
             /\ c = <<cx, cy, cz>>
             /\ kernel.border <= cx /\ cx <= Nx - 1 - kernel.border
             /\ kernel.border <= cy /\ cy <= Ny - 1 - kernel.border
             /\ ZStart(t) <= cz /\ cz < ZStop(t)
<1>1. /\ Nx \in Nat \ {0} /\ Ny \in Nat \ {0} /\ Nz \in Nat \ {0}
      /\ kernel.border \in {0, 1}
  BY Arguments
<1>2. /\ ZStart(t) \in Nat /\ ZStop(t) \in Int
      /\ ZStart(t) >= kernel.border /\ ZStop(t) <= Nz - kernel.border
  BY Planes
<1>3. ASSUME c \in RegionOf(t)
      PROVE  \E cx, cy, cz \in Nat :
               /\ c = <<cx, cy, cz>>
               /\ kernel.border <= cx /\ cx <= Nx - 1 - kernel.border
               /\ kernel.border <= cy /\ cy <= Ny - 1 - kernel.border
               /\ ZStart(t) <= cz /\ cz < ZStop(t)
  <2>1. c \in (0 .. Nx - 1) \X (0 .. Ny - 1) \X (0 .. Nz - 1)
    BY <1>3 DEF RegionOf, Region, Grid
  <2>2. c = <<c[1], c[2], c[3]>> /\ c[1] \in Nat /\ c[2] \in Nat /\ c[3] \in Nat
    BY <2>1
  <2>3. /\ c[1] \in kernel.border .. Nx - 1 - kernel.border
        /\ c[2] \in kernel.border .. Ny - 1 - kernel.border
        /\ ZStart(t) <= c[3] /\ c[3] < ZStop(t)
    BY <1>3 DEF RegionOf, Region
  <2> QED BY <1>1, <2>2, <2>3
<1>4. ASSUME NEW cx \in Nat, NEW cy \in Nat, NEW cz \in Nat,
             c = <<cx, cy, cz>>,
             kernel.border <= cx /\ cx <= Nx - 1 - kernel.border,
             kernel.border <= cy /\ cy <= Ny - 1 - kernel.border,
             ZStart(t) <= cz /\ cz < ZStop(t)
      PROVE  c \in RegionOf(t)
  <2>1. c[1] = cx /\ c[2] = cy /\ c[3] = cz
    BY <1>4
  <2>2. c \in Grid
    BY <1>1, <1>2, <1>4 DEF Grid
  <2> QED BY <1>1, <1>2, <1>4, <2>1, <2>2 DEF RegionOf, Region
<1> QED BY <1>3, <1>4

LEMMA Coordinates ==
  ASSUME TypeOK, NEW t \in Parts, NEW c \in RegionOf(t)
  PROVE  /\ c[1] \in Nat /\ c[2] \in Nat /\ c[3] \in Nat
         /\ c = <<c[1], c[2], c[3]>>
         /\ kernel.border <= c[1] /\ c[1] <= Nx - 1 - kernel.border
         /\ kernel.border <= c[2] /\ c[2] <= Ny - 1 - kernel.border
         /\ ZStart(t) <= c[3] /\ c[3] < ZStop(t)
<1>1. PICK cx \in Nat, cy \in Nat, cz \in Nat :
        /\ c = <<cx, cy, cz>>
        /\ kernel.border <= cx /\ cx <= Nx - 1 - kernel.border
        /\ kernel.border <= cy /\ cy <= Ny - 1 - kernel.border
        /\ ZStart(t) <= cz /\ cz < ZStop(t)
  BY RegionCell
<1>2. c[1] = cx /\ c[2] = cy /\ c[3] = cz
  BY <1>1
<1> QED BY <1>1, <1>2

\* A step keeps the arguments, hence the ranges and the regions.
LEMMA SameSweep ==
  ASSUME UNCHANGED <<kernel, Nx, Ny, Nz>>
  PROVE  /\ Parts' = Parts
         /\ \A t : ZStart(t)' = ZStart(t) /\ ZStop(t)' = ZStop(t)
         /\ \A t : RegionOf(t)' = RegionOf(t)
         /\ Region' = Region /\ Grid' = Grid
BY DEF Parts, NumRanges, BaseSize, Remainder, ZStart, ZStop, RangeBegin, RangeEnd,
       RangeSize, RegionOf, Region, Grid

\* A step of one thread leaves the frontier of the others, and its own when it
\* writes nothing and leaves the same cells behind it.
LEMMA OneThread ==
  ASSUME IInv, TypeOK', UNCHANGED <<kernel, Nx, Ny, Nz>>,
         NEW t \in Parts,
         \A u \in Parts \ {t} : /\ pc'[u] = pc[u] /\ x'[u] = x[u] /\ y'[u] = y[u]
                                /\ z'[u] = z[u] /\ written'[u] = written[u],
         written'[t] = {c \in RegionOf(t) : Behind(t, c)'}
  PROVE  Frontier'
<1>1. Parts' = Parts /\ \A u : RegionOf(u)' = RegionOf(u)
  BY SameSweep
<1>2. ASSUME NEW u \in Parts, u # t
      PROVE  written'[u] = {c \in RegionOf(u) : Behind(u, c)'}
  <2>1. written[u] = {c \in RegionOf(u) : Behind(u, c)}
    BY DEF IInv, Frontier
  <2>2. \A c : Behind(u, c)' <=> Behind(u, c)
    BY <1>2 DEF Behind
  <2> QED BY <1>2, <2>1, <2>2
<1>3. \A u \in Parts : written'[u] = {c \in RegionOf(u) : Behind(u, c)'}
  BY <1>2
<1> QED BY <1>1, <1>3 DEF Frontier

LEMMA InitInv == Init => IInv
<1> SUFFICES ASSUME Init PROVE IInv
  OBVIOUS
<1>1. /\ IsKernel(kernel)
      /\ Nx \in Nat \ {0} /\ Ny \in Nat \ {0} /\ Nz \in Nat \ {0} /\ Threads \in Nat \ {0}
  BY KernelAssumption, GridAssumption DEF Init
<1>2. kernel.border \in {0, 1} /\ 1 \in 1 .. Len(kernel.steps)
  <2>1. kernel.steps \in Seq(Nat \ {0}) /\ Len(kernel.steps) > 0
    BY <1>1 DEF IsKernel
  <2>2. Len(kernel.steps) \in Nat
    BY <2>1
  <2> QED BY <1>1, <2>1, <2>2 DEF IsKernel
<1>3. ASSUME NEW t \in Parts PROVE ZStart(t) \in Nat
  <2>1. RangeBegin(Nz, Threads, t) \in Nat
    BY <1>1, <1>3, RangeOf DEF Parts
  <2> QED BY <1>2, <2>1 DEF ZStart
<1>4. TypeOK
  BY <1>1, <1>2, <1>3 DEF Init, TypeOK
<1>5. Counters
  BY <1>3 DEF Init, Counters
<1>6. Frontier
  <2> SUFFICES ASSUME NEW t \in Parts
               PROVE  written[t] = {c \in RegionOf(t) : Behind(t, c)}
    BY DEF Frontier
  <2>1. written[t] = {} /\ z[t] = ZStart(t) /\ pc[t] = "plane"
    BY DEF Init
  <2>2. ASSUME NEW c \in RegionOf(t) PROVE ~ Behind(t, c)
    <3>1. c[3] \in Nat /\ ZStart(t) <= c[3] /\ ZStart(t) \in Nat
      BY <1>4, <1>3, <2>2, Coordinates
    <3> QED BY <2>1, <3>1 DEF Behind
  <2> QED BY <2>1, <2>2
<1> QED BY <1>4, <1>5, <1>6 DEF IInv

LEMMA PlaneInv ==
  ASSUME IInv, NEW t \in Parts, Plane(t)
  PROVE  IInv'
<1> USE DEF IInv
<1>1. /\ Parts' = Parts /\ \A u : ZStart(u)' = ZStart(u) /\ ZStop(u)' = ZStop(u)
      /\ \A u : RegionOf(u)' = RegionOf(u)
  BY SameSweep DEF Plane
<1>2. kernel.border \in {0, 1} /\ ZStart(t) \in Nat /\ ZStop(t) \in Int /\ z[t] \in Nat
  BY Arguments, Planes DEF TypeOK
<1>3. TypeOK'
  <2>1. pc' \in [Parts -> {"plane", "row", "cells", "returned"}]
    BY DEF Plane, TypeOK
  <2>2. y' \in [Parts -> Nat]
    <3>1. kernel.border \in Nat /\ y \in [Parts -> Nat]
      BY <1>2 DEF TypeOK
    <3>2. y' = [y EXCEPT ![t] = kernel.border] \/ y' = y
      BY DEF Plane
    <3> QED BY <3>1, <3>2
  <2> QED BY <1>1, <2>1, <2>2 DEF Plane, TypeOK
<1>4. Counters'
  BY <1>1, <1>2 DEF Plane, TypeOK, Counters
<1>5. ASSUME NEW c \in RegionOf(t) PROVE Behind(t, c)' <=> Behind(t, c)
  <2>1. /\ c[2] \in Nat /\ c[3] \in Nat /\ kernel.border <= c[2] /\ c[3] < ZStop(t)
    BY <1>5, Coordinates
  <2>2. CASE z[t] < ZStop(t)
    <3>1. pc'[t] = "row" /\ y'[t] = kernel.border /\ z'[t] = z[t] /\ pc[t] = "plane"
      BY <2>2 DEF Plane, TypeOK
    <3> QED BY <1>2, <2>1, <3>1 DEF Behind
  <2>3. CASE ~ (z[t] < ZStop(t))
    <3>1. pc'[t] = "returned" /\ pc[t] = "plane"
      BY <2>3 DEF Plane, TypeOK
    <3> QED BY <1>2, <2>1, <2>3, <3>1 DEF Behind
  <2> QED BY <2>2, <2>3
<1>6. written'[t] = {c \in RegionOf(t) : Behind(t, c)'}
  BY <1>5 DEF Plane, Frontier
<1>7. Frontier'
  <2>1. \A u \in Parts \ {t} : /\ pc'[u] = pc[u] /\ x'[u] = x[u] /\ y'[u] = y[u]
                               /\ z'[u] = z[u] /\ written'[u] = written[u]
    BY DEF Plane, TypeOK
  <2>2. UNCHANGED <<kernel, Nx, Ny, Nz>>
    BY DEF Plane
  <2> QED BY <1>3, <1>6, <2>1, <2>2, OneThread
<1> QED BY <1>3, <1>4, <1>7

LEMMA RowInv ==
  ASSUME IInv, NEW t \in Parts, Row(t)
  PROVE  IInv'
<1> USE DEF IInv
<1>1. /\ Parts' = Parts /\ \A u : ZStart(u)' = ZStart(u) /\ ZStop(u)' = ZStop(u)
      /\ \A u : RegionOf(u)' = RegionOf(u)
  BY SameSweep DEF Row
<1>2. /\ kernel.border \in {0, 1} /\ ZStart(t) \in Nat /\ ZStop(t) \in Int
      /\ z[t] \in Nat /\ y[t] \in Nat /\ Ny \in Nat /\ 1 \in 1 .. Len(kernel.steps)
      /\ z[t] + 1 \in Nat
  BY Arguments, Planes DEF TypeOK
<1>3. TypeOK'
  <2>1. pc' \in [Parts -> {"plane", "row", "cells", "returned"}]
    BY DEF Row, TypeOK
  <2>2. x' \in [Parts -> Nat] /\ z' \in [Parts -> Nat]
    <3>1. kernel.border \in Nat /\ x \in [Parts -> Nat] /\ z \in [Parts -> Nat]
      BY <1>2 DEF TypeOK
    <3>2. /\ x' = [x EXCEPT ![t] = kernel.border] \/ x' = x
          /\ z' = [z EXCEPT ![t] = @ + 1] \/ z' = z
      BY DEF Row
    <3> QED BY <1>2, <3>1, <3>2
  <2>3. loop' \in [Parts -> 1 .. Len(kernel.steps)]
    BY <1>2 DEF Row, TypeOK
  <2> QED BY <1>1, <2>1, <2>2, <2>3 DEF Row, TypeOK
<1>4. Counters'
  BY <1>1, <1>2 DEF Row, TypeOK, Counters
<1>5. ASSUME NEW c \in RegionOf(t) PROVE Behind(t, c)' <=> Behind(t, c)
  <2>1. /\ c[1] \in Nat /\ c[2] \in Nat /\ c[3] \in Nat /\ kernel.border <= c[1]
        /\ c[2] <= Ny - 1 - kernel.border
    BY <1>5, Coordinates
  <2>2. CASE y[t] < Ny - kernel.border
    <3>1. /\ pc'[t] = "cells" /\ x'[t] = kernel.border /\ z'[t] = z[t] /\ y'[t] = y[t]
          /\ pc[t] = "row"
      BY <2>2 DEF Row, TypeOK
    <3> QED BY <1>2, <2>1, <3>1 DEF Behind
  <2>3. CASE ~ (y[t] < Ny - kernel.border)
    <3>1. pc'[t] = "plane" /\ pc[t] = "row" /\ z'[t] = z[t] + 1
      BY <2>3 DEF Row, TypeOK
    <3>2. c[2] < y[t]
      BY <1>2, <2>1, <2>3
    <3>3. Behind(t, c)' <=> c[3] < z[t] + 1
      BY <3>1 DEF Behind
    <3>4. Behind(t, c) <=> c[3] < z[t] \/ c[3] = z[t]
      BY <3>1, <3>2 DEF Behind
    <3> QED BY <1>2, <2>1, <3>3, <3>4
  <2> QED BY <2>2, <2>3
<1>6. written'[t] = {c \in RegionOf(t) : Behind(t, c)'}
  BY <1>5 DEF Row, Frontier
<1>7. Frontier'
  <2>1. \A u \in Parts \ {t} : /\ pc'[u] = pc[u] /\ x'[u] = x[u] /\ y'[u] = y[u]
                               /\ z'[u] = z[u] /\ written'[u] = written[u]
    BY DEF Row, TypeOK
  <2>2. UNCHANGED <<kernel, Nx, Ny, Nz>>
    BY DEF Row
  <2> QED BY <1>3, <1>6, <2>1, <2>2, OneThread
<1> QED BY <1>3, <1>4, <1>7

LEMMA CellsInv ==
  ASSUME IInv, NEW t \in Parts, Cells(t)
  PROVE  IInv'
<1> USE DEF IInv
<1>1. /\ Parts' = Parts /\ \A u : ZStart(u)' = ZStart(u) /\ ZStop(u)' = ZStop(u)
      /\ \A u : RegionOf(u)' = RegionOf(u)
  BY SameSweep DEF Cells
<1>2. /\ kernel.border \in {0, 1} /\ ZStart(t) \in Nat /\ ZStop(t) \in Int
      /\ x[t] \in Nat /\ z[t] \in Nat /\ y[t] \in Nat /\ Nx \in Nat /\ Ny \in Nat
  BY Arguments, Planes DEF TypeOK
<1>3. Width(t) \in Nat \ {0} /\ x[t] + Width(t) <= Nx - kernel.border
  BY Fitting DEF Cells
<1>4. TypeOK'
  <2>1. x' \in [Parts -> Nat] /\ DOMAIN written' = Parts
    BY <1>2, <1>3 DEF Cells, TypeOK
  <2> QED BY <1>1, <2>1 DEF Cells, TypeOK
<1>5. /\ pc[t] = "cells" /\ pc'[t] = "cells" /\ y'[t] = y[t] /\ z'[t] = z[t]
      /\ x'[t] = x[t] + Width(t) /\ written'[t] = written[t] \cup Touched(t)
  BY DEF Cells, TypeOK
<1>6. /\ z[t] >= ZStart(t) /\ z[t] < ZStop(t) /\ y[t] >= kernel.border
      /\ y[t] < Ny - kernel.border /\ x[t] >= kernel.border
  BY <1>5 DEF Counters
<1>7. Counters'
  <2>1. x[t] + Width(t) >= kernel.border
    BY <1>2, <1>3, <1>6
  <2>2. /\ pc' = pc /\ y' = y /\ z' = z /\ kernel' = kernel /\ Ny' = Ny
        /\ \A u \in Parts : x'[u] = IF u = t THEN x[t] + Width(t) ELSE x[u]
    BY DEF Cells, TypeOK
  <2> QED BY <1>1, <2>1, <2>2 DEF Counters
<1>8. written'[t] = {c \in RegionOf(t) : Behind(t, c)'}
  <2>1. ASSUME NEW c \in RegionOf(t)
        PROVE  Behind(t, c)' <=> (Behind(t, c) \/ c \in Touched(t))
    <3>1. /\ c[1] \in Nat /\ c[2] \in Nat /\ c[3] \in Nat /\ c = <<c[1], c[2], c[3]>>
      BY <2>1, Coordinates
    <3>2. c \in Touched(t) <=>
            c[3] = z[t] /\ c[2] = y[t] /\ x[t] <= c[1] /\ c[1] < x[t] + Width(t)
      <4>1. ASSUME NEW j \in 0 .. Width(t) - 1, c = <<x[t] + j, y[t], z[t]>>
            PROVE  c[3] = z[t] /\ c[2] = y[t] /\ c[1] = x[t] + j
        BY <4>1
      <4>2. ASSUME c[3] = z[t], c[2] = y[t], x[t] <= c[1], c[1] < x[t] + Width(t)
            PROVE  \E j \in 0 .. Width(t) - 1 : c = <<x[t] + j, y[t], z[t]>>
        <5>1. c[1] - x[t] \in 0 .. Width(t) - 1 /\ x[t] + (c[1] - x[t]) = c[1]
          BY <1>2, <1>3, <3>1, <4>2
        <5> QED BY <3>1, <4>2, <5>1
      <4> QED BY <1>2, <1>3, <4>1, <4>2 DEF Touched
    <3>3. Behind(t, c)' <=> \/ c[3] < z[t]
                            \/ c[3] = z[t] /\ c[2] < y[t]
                            \/ c[3] = z[t] /\ c[2] = y[t] /\ c[1] < x[t] + Width(t)
      BY <1>5 DEF Behind
    <3>4. Behind(t, c) <=> \/ c[3] < z[t]
                           \/ c[3] = z[t] /\ c[2] < y[t]
                           \/ c[3] = z[t] /\ c[2] = y[t] /\ c[1] < x[t]
      BY <1>5 DEF Behind
    <3> QED BY <1>2, <1>3, <3>1, <3>2, <3>3, <3>4
  <2>2. Touched(t) \subseteq RegionOf(t)
    <3>1. SUFFICES ASSUME NEW j \in 0 .. Width(t) - 1
                   PROVE  <<x[t] + j, y[t], z[t]>> \in RegionOf(t)
      BY DEF Touched
    <3>2. /\ x[t] + j \in Nat /\ kernel.border <= x[t] + j
          /\ x[t] + j <= Nx - 1 - kernel.border /\ y[t] <= Ny - 1 - kernel.border
      BY <1>2, <1>3, <1>6
    <3> QED BY <1>2, <1>6, <3>2, RegionCell
  <2>3. written[t] = {c \in RegionOf(t) : Behind(t, c)}
    BY DEF Frontier
  <2> QED BY <1>5, <2>1, <2>2, <2>3
<1>9. Frontier'
  <2>1. \A u \in Parts \ {t} : /\ pc'[u] = pc[u] /\ x'[u] = x[u] /\ y'[u] = y[u]
                               /\ z'[u] = z[u] /\ written'[u] = written[u]
    BY DEF Cells, TypeOK
  <2>2. UNCHANGED <<kernel, Nx, Ny, Nz>>
    BY DEF Cells
  <2> QED BY <1>4, <1>8, <2>1, <2>2, OneThread
<1> QED BY <1>4, <1>7, <1>9

LEMMA NextLoopInv ==
  ASSUME IInv, NEW t \in Parts, NextLoop(t)
  PROVE  IInv'
<1> USE DEF IInv
<1>1. /\ Parts' = Parts /\ \A u : ZStart(u)' = ZStart(u) /\ ZStop(u)' = ZStop(u)
      /\ \A u : RegionOf(u)' = RegionOf(u)
  BY SameSweep DEF NextLoop
<1>2. /\ kernel.border \in {0, 1} /\ Len(kernel.steps) \in Nat
      /\ x[t] \in Nat /\ z[t] \in Nat /\ y[t] \in Nat /\ y[t] + 1 \in Nat
      /\ loop[t] \in 1 .. Len(kernel.steps) /\ Nx \in Nat
  BY Arguments DEF TypeOK
<1>3. loop[t] < Len(kernel.steps) => loop[t] + 1 \in 1 .. Len(kernel.steps)
  BY <1>2
<1>4. TypeOK'
  <2>1. /\ pc' \in [Parts -> {"plane", "row", "cells", "returned"}]
        /\ y' \in [Parts -> Nat]
    BY <1>2 DEF NextLoop, TypeOK
  <2>2. loop' \in [Parts -> 1 .. Len(kernel.steps)]
    BY <1>2, <1>3 DEF NextLoop, TypeOK
  <2> QED BY <1>1, <2>1, <2>2 DEF NextLoop, TypeOK
<1>5. Counters'
  BY <1>1, <1>2 DEF NextLoop, TypeOK, Counters
<1>6. ASSUME NEW c \in RegionOf(t) PROVE Behind(t, c)' <=> Behind(t, c)
  <2>1. c[1] \in Nat /\ c[2] \in Nat /\ c[3] \in Nat /\ c[1] <= Nx - 1 - kernel.border
    BY <1>6, Coordinates
  <2>2. CASE loop[t] < Len(kernel.steps)
    <3>1. pc'[t] = pc[t] /\ x'[t] = x[t] /\ y'[t] = y[t] /\ z'[t] = z[t]
      BY <2>2 DEF NextLoop
    <3> QED BY <3>1 DEF Behind
  <2>3. CASE ~ (loop[t] < Len(kernel.steps))
    <3>1. pc[t] = "cells" /\ ~ Fits(t) /\ loop[t] >= Len(kernel.steps)
      BY <1>2, <2>3 DEF NextLoop
    <3>2. x[t] >= Nx - kernel.border
      BY <3>1, RowDone
    <3>3. c[1] < x[t]
      BY <1>2, <2>1, <3>2
    <3>4. pc'[t] = "row" /\ y'[t] = y[t] + 1 /\ z'[t] = z[t]
      BY <2>3 DEF NextLoop, TypeOK
    <3>5. Behind(t, c)' <=> c[3] < z[t] \/ (c[3] = z[t] /\ c[2] < y[t] + 1)
      BY <3>4 DEF Behind
    <3>6. Behind(t, c) <=> \/ c[3] < z[t]
                           \/ c[3] = z[t] /\ c[2] < y[t]
                           \/ c[3] = z[t] /\ c[2] = y[t]
      BY <3>1, <3>3 DEF Behind
    <3> QED BY <1>2, <2>1, <3>5, <3>6
  <2> QED BY <2>2, <2>3
<1>7. written'[t] = {c \in RegionOf(t) : Behind(t, c)'}
  BY <1>6 DEF NextLoop, Frontier
<1>8. Frontier'
  <2>1. \A u \in Parts \ {t} : /\ pc'[u] = pc[u] /\ x'[u] = x[u] /\ y'[u] = y[u]
                               /\ z'[u] = z[u] /\ written'[u] = written[u]
    BY DEF NextLoop, TypeOK
  <2>2. UNCHANGED <<kernel, Nx, Ny, Nz>>
    BY DEF NextLoop
  <2> QED BY <1>4, <1>7, <2>1, <2>2, OneThread
<1> QED BY <1>4, <1>5, <1>8

LEMMA SweepStep == IInv /\ [Next]_vars => IInv'
<1> SUFFICES ASSUME IInv, [Next]_vars PROVE IInv'
  OBVIOUS
<1>1. CASE UNCHANGED vars
  BY <1>1, SameSweep DEF vars, IInv, TypeOK, Counters, Frontier, Behind
<1>2. ASSUME NEW t \in Parts, Step(t) PROVE IInv'
  BY <1>2, PlaneInv, RowInv, CellsInv, NextLoopInv DEF Step
<1> QED BY <1>1, <1>2 DEF Next, Finished

\* What a thread has written is what is behind it in its own planes, for every kernel
\* of the table's shape, every grid and every number of threads.
THEOREM SweepInvariant == Spec => []IInv
BY InitInv, SweepStep, PTL DEF Spec

\* Two threads never write one cell.
THEOREM SweepRaceFree == Spec => []RaceFree
<1>1. IInv => RaceFree
  <2> SUFFICES ASSUME IInv, NEW t \in Parts, NEW u \in Parts, t # u,
                      NEW c \in written[t], c \in written[u]
               PROVE  FALSE
    BY DEF RaceFree
  <2>1. TypeOK /\ c \in RegionOf(t) /\ c \in RegionOf(u)
    BY DEF IInv, Frontier
  <2>2. c[3] \in Nat
    BY <2>1, Coordinates
  <2>3. /\ RangeBegin(Nz, Threads, t) <= c[3] /\ c[3] < RangeEnd(Nz, Threads, t)
        /\ RangeBegin(Nz, Threads, u) <= c[3] /\ c[3] < RangeEnd(Nz, Threads, u)
    <3>1. \A v \in {t, u} :
            /\ ZStart(v) \in Nat /\ ZStop(v) \in Int
            /\ RangeBegin(Nz, Threads, v) <= ZStart(v)
            /\ ZStop(v) <= RangeEnd(Nz, Threads, v)
            /\ ZStart(v) <= c[3] /\ c[3] < ZStop(v)
      BY <2>1, Planes, Coordinates
    <3>2. \A v \in {t, u} : /\ RangeBegin(Nz, Threads, v) \in Nat
                            /\ RangeEnd(Nz, Threads, v) \in Nat
      BY <2>1, Arguments, GridAssumption, RangeOf DEF Parts
    <3> QED BY <2>2, <3>1, <3>2
  <2>4. /\ Nz \in Nat /\ Threads \in Nat \ {0} /\ t \in Int /\ u \in Int
        /\ t \in 0 .. NumRanges(Nz, Threads) - 1 /\ u \in 0 .. NumRanges(Nz, Threads) - 1
        /\ RangeBegin(Nz, Threads, t) \in Nat /\ RangeEnd(Nz, Threads, t) \in Nat
        /\ RangeBegin(Nz, Threads, u) \in Nat /\ RangeEnd(Nz, Threads, u) \in Nat
    BY <2>1, Arguments, GridAssumption, RangeOf DEF Parts
  <2>5. CASE t < u
    <3>1. RangeEnd(Nz, Threads, t) <= RangeBegin(Nz, Threads, u)
      BY <2>4, <2>5, RangeOrder
    <3> QED BY <2>2, <2>3, <2>4, <3>1
  <2>6. CASE u < t
    <3>1. RangeEnd(Nz, Threads, u) <= RangeBegin(Nz, Threads, t)
      BY <2>4, <2>6, RangeOrder
    <3> QED BY <2>2, <2>3, <2>4, <3>1
  <2> QED BY <2>4, <2>5, <2>6
<1> QED BY <1>1, SweepInvariant, PTL

\* What is written when all threads have returned is the region, no more and no less.
THEOREM SweepCoversRegion == Spec => []CoversRegion
<1>1. IInv => CoversRegion
  <2> SUFFICES ASSUME IInv, \A t \in Parts : pc[t] = "returned"
               PROVE  UNION {written[t] : t \in Parts} = Region
    BY DEF CoversRegion
  <2>1. TypeOK /\ \A t \in Parts : written[t] = RegionOf(t)
    BY DEF IInv, Frontier, Behind
  <2>2. ASSUME NEW c \in Region PROVE \E t \in Parts : c \in RegionOf(t)
    <3>1. /\ c[3] \in kernel.border .. Nz - 1 - kernel.border
          /\ kernel.border \in {0, 1} /\ Nz \in Nat \ {0} /\ Threads \in Nat \ {0}
      BY <2>1, <2>2, Arguments, GridAssumption DEF Region
    <3>2. c[3] \in 0 .. Nz - 1
      BY <3>1
    <3>3. PICK t \in Parts : RangeBegin(Nz, Threads, t) <= c[3]
                             /\ c[3] < RangeEnd(Nz, Threads, t)
      BY <3>1, <3>2, RangeCovers DEF Parts
    <3>4. ZStart(t) <= c[3] /\ c[3] < ZStop(t)
      BY <2>1, <3>1, <3>3, Planes
    <3> QED BY <2>2, <3>4 DEF RegionOf
  <2>3. \A t \in Parts : RegionOf(t) \subseteq Region
    BY DEF RegionOf
  <2> QED BY <2>1, <2>2, <2>3
<1> QED BY <1>1, SweepInvariant, PTL

\* No iteration reads or writes outside the arrays.
THEOREM SweepInsideArrays == Spec => []InsideArrays
<1>1. IInv => InsideArrays
  <2> SUFFICES ASSUME IInv, NEW t \in Parts, pc[t] = "cells", Fits(t)
               PROVE  Touched(t) \subseteq Grid /\ ReadsOf(t) \subseteq Grid
    BY DEF InsideArrays
  <2>1. /\ Nx \in Nat \ {0} /\ Ny \in Nat \ {0} /\ Nz \in Nat \ {0}
        /\ kernel.border \in {0, 1}
        /\ kernel.reads \subseteq (IF kernel.border = 0 THEN Centre ELSE SevenPoints)
        /\ x[t] \in Nat /\ y[t] \in Nat /\ z[t] \in Nat
        /\ ZStart(t) \in Nat /\ ZStop(t) \in Int
    BY Arguments, Planes DEF IInv, TypeOK
  <2>2. /\ z[t] >= kernel.border /\ z[t] <= Nz - 1 - kernel.border
        /\ y[t] >= kernel.border /\ y[t] <= Ny - 1 - kernel.border
        /\ x[t] >= kernel.border
    <3>1. ZStart(t) >= kernel.border /\ ZStop(t) <= Nz - kernel.border
      BY Planes DEF IInv
    <3>2. /\ z[t] >= ZStart(t) /\ z[t] < ZStop(t) /\ y[t] >= kernel.border
          /\ y[t] < Ny - kernel.border /\ x[t] >= kernel.border
      BY DEF IInv, Counters
    <3> QED BY <2>1, <3>1, <3>2
  <2>3. Width(t) \in Nat \ {0} /\ x[t] + Width(t) <= Nx - kernel.border
    BY Fitting
  <2>4. ASSUME NEW j \in 0 .. Width(t) - 1,
               NEW d \in Centre \cup (IF kernel.border = 0 THEN Centre ELSE SevenPoints)
        PROVE  <<x[t] + j + d[1], y[t] + d[2], z[t] + d[3]>> \in Grid
    <3>1. /\ d[1] \in -kernel.border .. kernel.border
          /\ d[2] \in -kernel.border .. kernel.border
          /\ d[3] \in -kernel.border .. kernel.border
      <4>1. CASE kernel.border = 0
        <5>1. d = <<0, 0, 0>>
          BY <2>4, <4>1 DEF Centre
        <5> QED BY <4>1, <5>1
      <4>2. CASE kernel.border = 1
        <5>1. d \in {<<0, 0, 0>>, <<1, 0, 0>>, <<-1, 0, 0>>, <<0, 1, 0>>, <<0, -1, 0>>,
                     <<0, 0, 1>>, <<0, 0, -1>>}
          BY <2>4, <4>2 DEF Centre, SevenPoints
        <5>2. d[1] \in {-1, 0, 1} /\ d[2] \in {-1, 0, 1} /\ d[3] \in {-1, 0, 1}
          BY <5>1
        <5> QED BY <4>2, <5>2
      <4> QED BY <2>1, <4>1, <4>2
    <3>2. /\ x[t] + j + d[1] \in 0 .. Nx - 1
          /\ y[t] + d[2] \in 0 .. Ny - 1
          /\ z[t] + d[3] \in 0 .. Nz - 1
      BY <2>1, <2>2, <2>3, <2>4, <3>1
    <3> QED BY <3>2 DEF Grid
  <2>5. Touched(t) \subseteq Grid
    <3> SUFFICES ASSUME NEW j \in 0 .. Width(t) - 1
                 PROVE  <<x[t] + j, y[t], z[t]>> \in Grid
      BY DEF Touched
    <3>1. <<0, 0, 0>> \in Centre
      BY DEF Centre
    <3>2. <<x[t] + j + 0, y[t] + 0, z[t] + 0>> \in Grid
      BY <2>4, <3>1
    <3>3. x[t] + j + 0 = x[t] + j /\ y[t] + 0 = y[t] /\ z[t] + 0 = z[t]
      BY <2>1, <2>3
    <3> QED BY <3>2, <3>3
  <2>6. ReadsOf(t) \subseteq Grid
    <3> SUFFICES ASSUME NEW j \in 0 .. Width(t) - 1, NEW d \in kernel.reads
                 PROVE  <<x[t] + j + d[1], y[t] + d[2], z[t] + d[3]>> \in Grid
      <4>1. ASSUME NEW c \in Touched(t), NEW d \in kernel.reads
            PROVE  \E j \in 0 .. Width(t) - 1 :
                     <<c[1] + d[1], c[2] + d[2], c[3] + d[3]>>
                       = <<x[t] + j + d[1], y[t] + d[2], z[t] + d[3]>>
        <5>1. PICK j \in 0 .. Width(t) - 1 : c = <<x[t] + j, y[t], z[t]>>
          BY DEF Touched
        <5>2. c[1] = x[t] + j /\ c[2] = y[t] /\ c[3] = z[t]
          BY <5>1
        <5> QED BY <5>2
      <4> QED BY <4>1 DEF ReadsOf
    <3> QED BY <2>1, <2>4
  <2> QED BY <2>5, <2>6
<1> QED BY <1>1, SweepInvariant, PTL
-----------------------------------------------------------------------------
(* The matrix products                                                       *)

\* What the assumptions give of the arguments of a product.
LEMMA MatmulArguments ==
  ASSUME MTypeOK
  PROVE  /\ N \in Nat \ {0} /\ slices \in Nat /\ N * N \in Nat \ {0} /\ Team \in Nat \ {0}
         /\ matmul.width \in Nat \ {0}
         /\ Len(matmul.steps) \in Nat \ {0} /\ matmul.steps[Len(matmul.steps)] = 1
         /\ \A l \in 1 .. Len(matmul.steps) : matmul.steps[l] \in Nat \ {0}
         /\ matmul.packed => matmul.buffered
         /\ ~ matmul.buffered => matmul.clears
<1>1. /\ matmul.width \in Nat \ {0} /\ matmul.steps \in Seq(Nat \ {0}) /\ Len(matmul.steps) > 0
      /\ matmul.steps[Len(matmul.steps)] = 1
      /\ matmul.packed => matmul.buffered
      /\ ~ matmul.buffered => matmul.clears
  BY MatmulAssumption DEF MTypeOK
<1>2. N \in Nat \ {0} /\ slices \in Nat
  <2>1. Shapes[matmul] \subseteq (Nat \ {0}) \X Nat
    BY MatmulAssumption DEF MTypeOK
  <2> QED BY <2>1 DEF MTypeOK
<1>3. N * N \in Nat \ {0}
  <2>1. N * N >= N
    BY <1>2
  <2> QED BY <1>2, <2>1
<1> QED BY <1>1, <1>2, <1>3, MatmulAssumption

\* The slices of thread t.
LEMMA SlicesOf ==
  ASSUME MTypeOK, NEW t \in MatmulParts
  PROVE  /\ RangeBegin(slices, Team, t) \in Nat
         /\ RangeEnd(slices, Team, t) \in Nat
         /\ RangeBegin(slices, Team, t) < RangeEnd(slices, Team, t)
         /\ RangeEnd(slices, Team, t) <= slices
  BY MatmulArguments, RangeOf DEF MatmulParts

\* The cells of a thread are those from the first of its first slice to the last of its last.
LEMMA CellsAre ==
  ASSUME MTypeOK, NEW t \in MatmulParts
  PROVE  CellsOf(t) = RangeBegin(slices, Team, t) * (N * N)
                      .. RangeEnd(slices, Team, t) * (N * N) - 1
<1> DEFINE q == N * N
           b == RangeBegin(slices, Team, t)
           e == RangeEnd(slices, Team, t)
<1>1. q \in Nat \ {0} /\ b \in Nat /\ e \in Nat /\ b < e
  BY MatmulArguments, SlicesOf
<1>2. CellsOf(t) = UNION {z_ * q .. z_ * q + q - 1 : z_ \in b .. e - 1}
  BY DEF CellsOf, SliceCells
<1> HIDE DEF q, b, e
<1>3. ASSUME NEW z_ \in b .. e - 1, NEW g \in z_ * q .. z_ * q + q - 1
      PROVE  g \in b * q .. e * q - 1
  <2>1. z_ \in Nat /\ b <= z_ /\ z_ + 1 <= e /\ z_ + 1 \in Nat
    BY <1>1
  <2>2. /\ b * q \in Nat /\ z_ * q \in Nat /\ e * q \in Nat /\ (z_ + 1) * q = z_ * q + q
        /\ b * q <= z_ * q /\ (z_ + 1) * q <= e * q
    BY <1>1, <2>1, Times
  <2> QED BY <1>1, <2>2
<1>4. ASSUME NEW g \in b * q .. e * q - 1
      PROVE  \E z_ \in b .. e - 1 : g \in z_ * q .. z_ * q + q - 1
  <2> DEFINE d == g \div q
  <2>1. b * q \in Nat /\ e * q \in Nat /\ g \in Nat
    BY <1>1, Times
  <2>2. d \in Nat /\ g % q \in 0 .. q - 1 /\ g = d * q + (g % q)
    BY <1>1, <2>1
  <2>3. d * q \in Nat /\ (d + 1) * q = d * q + q
    BY <1>1, <2>2, Times
  <2>4. d >= b
    <3> SUFFICES ASSUME d + 1 <= b PROVE FALSE
      BY <1>1, <2>2
    <3>1. (d + 1) * q <= b * q
      BY <1>1, <2>2, Times
    <3> QED BY <1>1, <2>1, <2>2, <2>3, <3>1
  <2>5. d < e
    <3> SUFFICES ASSUME e <= d PROVE FALSE
      BY <1>1, <2>2
    <3>1. e * q <= d * q
      BY <1>1, <2>2, Times
    <3> QED BY <1>1, <2>1, <2>2, <2>3, <3>1
  <2>6. g \in d * q .. d * q + q - 1
    BY <1>1, <2>1, <2>2, <2>3
  <2>7. d \in b .. e - 1
    BY <1>1, <2>2, <2>4, <2>5
  <2> QED BY <2>6, <2>7
<1>5. CellsOf(t) \subseteq b * q .. e * q - 1
  BY <1>2, <1>3
<1>6. b * q .. e * q - 1 \subseteq CellsOf(t)
  BY <1>2, <1>4
<1> QED BY <1>5, <1>6 DEF q, b, e

\* No cell is of two threads, and all are cells of C.
LEMMA CellsApart ==
  ASSUME MTypeOK, NEW t \in MatmulParts
  PROVE  /\ CellsOf(t) \subseteq DOMAIN C
         /\ \A u \in MatmulParts \ {t} : CellsOf(t) \cap CellsOf(u) = {}
<1> DEFINE q == N * N
           b(u) == RangeBegin(slices, Team, u)
           e(u) == RangeEnd(slices, Team, u)
<1>1. \A u \in MatmulParts : /\ b(u) \in Nat /\ e(u) \in Nat /\ b(u) < e(u) /\ e(u) <= slices
                             /\ CellsOf(u) = b(u) * q .. e(u) * q - 1
  BY SlicesOf, CellsAre
<1>2. q \in Nat /\ slices \in Nat /\ Team \in Nat \ {0}
  BY MatmulArguments
<1>3. \A u, v \in MatmulParts : u < v => e(u) <= b(v)
  BY <1>2, RangeOrder DEF MatmulParts
<1>4. DOMAIN C = 0 .. slices * q - 1
  BY DEF MTypeOK
<1>5. ASSUME NEW u \in MatmulParts, NEW v \in MatmulParts, u < v
      PROVE  CellsOf(u) \cap CellsOf(v) = {}
  <2>1. e(u) * q <= b(v) * q /\ e(u) * q \in Nat /\ b(v) * q \in Nat
    BY <1>1, <1>2, <1>3, <1>5, Times
  <2> HIDE DEF q, b, e
  <2>2. \A g \in CellsOf(u) : g < e(u) * q
    BY <1>1, <1>2, <2>1, Times
  <2>3. \A g \in CellsOf(v) : g >= b(v) * q
    BY <1>1, <1>2, <2>1, Times
  <2>4. \A g \in CellsOf(u) : g \in Int
    BY <1>1, <1>2, <2>1, Times
  <2> QED BY <2>1, <2>2, <2>3, <2>4
<1>6. CellsOf(t) \subseteq DOMAIN C
  <2>1. e(t) * q <= slices * q /\ b(t) * q \in Nat /\ e(t) * q \in Nat /\ slices * q \in Nat
    BY <1>1, <1>2, Times
  <2> HIDE DEF q, b, e
  <2> QED BY <1>1, <1>4, <2>1
<1>7. \A u \in MatmulParts : u \in Int
  BY <1>2 DEF MatmulParts, NumRanges
<1>8. ASSUME NEW u \in MatmulParts \ {t} PROVE CellsOf(t) \cap CellsOf(u) = {}
  <2>1. t < u \/ u < t
    BY <1>7
  <2> QED BY <1>5, <2>1
<1> QED BY <1>6, <1>8

LEMMA NeighbourTwice ==
  ASSUME NEW g \in Nat
  PROVE  Neighbour(g) \in Int /\ Neighbour(Neighbour(g)) = g /\ Neighbour(g) # g
<1>1. CASE g % 2 = 0
  <2>1. (g + 1) % 2 # 0 /\ Neighbour(g) = g + 1
    BY <1>1 DEF Neighbour
  <2> QED BY <2>1 DEF Neighbour
<1>2. CASE g % 2 # 0
  <2>1. (g - 1) % 2 = 0 /\ Neighbour(g) = g - 1
    BY <1>2 DEF Neighbour
  <2> QED BY <2>1 DEF Neighbour
<1> QED BY <1>1, <1>2

\* Where the slice and the row are that a thread is at.
LEMMA PlaceOf ==
  ASSUME MTypeOK, NEW t \in MatmulParts, CountersInv(t)
  PROVE  /\ SliceStart(t) \in Nat /\ RowStart(t) \in Nat
         /\ \A j \in Int : CellAt(t, j) = RowStart(t) + j
         /\ SliceCells(slice[t]) = SliceStart(t) .. SliceStart(t) + N * N - 1
         /\ (slice[t] + 1) * (N * N) = SliceStart(t) + N * N
         /\ SliceStart(t) + (row[t] + 1) * N = RowStart(t) + N
         /\ SliceStart(t) <= RowStart(t)
         /\ row[t] < N => RowStart(t) + N <= SliceStart(t) + N * N
         /\ row[t] = N => RowStart(t) = SliceStart(t) + N * N
         /\ row[t] = 0 => RowStart(t) = SliceStart(t)
         /\ slice[t] < RangeEnd(slices, Team, t) => SliceCells(slice[t]) \subseteq CellsOf(t)
<1> DEFINE q == N * N
           b == RangeBegin(slices, Team, t)
           e == RangeEnd(slices, Team, t)
<1>1. /\ N \in Nat \ {0} /\ q \in Nat /\ b \in Nat /\ e \in Nat
      /\ slice[t] \in Nat /\ b <= slice[t] /\ slice[t] <= e
      /\ row[t] \in Nat /\ row[t] <= N
  BY MatmulArguments, SlicesOf DEF MTypeOK, CountersInv
<1>2. /\ slice[t] * q \in Nat /\ (slice[t] + 1) * q = slice[t] * q + q
      /\ b * q <= slice[t] * q /\ b * q \in Nat /\ e * q \in Nat
  BY <1>1, Times
<1>3. /\ row[t] * N \in Nat /\ (row[t] + 1) * N = row[t] * N + N
      /\ 0 * N = 0
  BY <1>1, Times
<1>4. row[t] < N => (row[t] + 1) * N <= N * N
  <2>1. row[t] < N => row[t] + 1 <= N /\ row[t] + 1 \in Nat
    BY <1>1
  <2> QED BY <1>1, <2>1, Times
<1>5. SliceStart(t) = slice[t] * q /\ RowStart(t) = slice[t] * q + row[t] * N
  BY DEF SliceStart, RowStart
<1>6. SliceCells(slice[t]) = SliceStart(t) .. SliceStart(t) + N * N - 1
  BY DEF SliceCells, SliceStart
<1>7. \A j \in Int : CellAt(t, j) = RowStart(t) + j
  BY DEF CellAt, SliceStart, RowStart
<1>8. ASSUME slice[t] < e PROVE SliceCells(slice[t]) \subseteq CellsOf(t)
  <2>1. CellsOf(t) = b * q .. e * q - 1
    BY CellsAre
  <2>2. (slice[t] + 1) * q <= e * q
    <3>1. slice[t] + 1 \in Nat /\ slice[t] + 1 <= e
      BY <1>1, <1>8
    <3> QED BY <1>1, <3>1, Times
  <2> HIDE DEF q, b, e
  <2>3. SliceCells(slice[t]) = slice[t] * q .. slice[t] * q + q - 1
    BY <1>6, <1>5 DEF q
  <2> QED BY <1>1, <1>2, <2>1, <2>2, <2>3
<1>9. /\ row[t] = N => row[t] * N = q
      /\ row[t] = 0 => row[t] * N = 0
  BY <1>1
<1> HIDE DEF q
<1>10. /\ SliceStart(t) \in Nat /\ RowStart(t) \in Nat
       /\ (slice[t] + 1) * q = SliceStart(t) + q
       /\ SliceStart(t) + (row[t] + 1) * N = RowStart(t) + N
       /\ SliceStart(t) <= RowStart(t)
       /\ row[t] < N => RowStart(t) + N <= SliceStart(t) + q
       /\ row[t] = N => RowStart(t) = SliceStart(t) + q
       /\ row[t] = 0 => RowStart(t) = SliceStart(t)
  BY <1>1, <1>2, <1>3, <1>4, <1>5, <1>9 DEF q
<1> QED BY <1>6, <1>7, <1>8, <1>10 DEF q, e

\* A cell of the row a thread is at is one of its own.
LEMMA RowCell ==
  ASSUME MTypeOK, NEW t \in MatmulParts, CountersInv(t),
         row[t] < N, slice[t] < RangeEnd(slices, Team, t), NEW j \in 0 .. N - 1
  PROVE  /\ CellAt(t, j) = RowStart(t) + j /\ CellAt(t, j) \in Nat
         /\ CellAt(t, j) \in SliceCells(slice[t]) /\ CellAt(t, j) \in CellsOf(t)
<1> DEFINE q == N * N
<1>1. N \in Nat /\ q \in Nat
  BY MatmulArguments
<1>2. /\ SliceStart(t) \in Nat /\ RowStart(t) \in Nat
      /\ CellAt(t, j) = RowStart(t) + j
      /\ SliceCells(slice[t]) = SliceStart(t) .. SliceStart(t) + q - 1
      /\ SliceStart(t) <= RowStart(t) /\ RowStart(t) + N <= SliceStart(t) + q
      /\ SliceCells(slice[t]) \subseteq CellsOf(t)
  <2>1. j \in Int
    OBVIOUS
  <2>2. CellAt(t, j) = RowStart(t) + j
    BY <2>1, PlaceOf
  <2> QED BY <2>2, PlaceOf
<1> HIDE DEF q
<1> QED BY <1>1, <1>2

\* Types are kept, the arguments stay, and a step of t moves only t.
LEMMA MatmulTypes ==
  ASSUME MTypeOK, NEW t \in MatmulParts, CountersInv(t), MatmulStep(t)
  PROVE  /\ MTypeOK'
         /\ matmul' = matmul /\ N' = N /\ slices' = slices /\ MatmulParts' = MatmulParts
         /\ DOMAIN C' = DOMAIN C
<1>1. /\ matmul' = matmul /\ N' = N /\ slices' = slices
  BY DEF MatmulStep, Slice, MRow, Terms, Update, Block, Sum, ReadByte, WriteByte, StoreCell,
         NextBlock
<1>2. MatmulParts' = MatmulParts
  BY <1>1 DEF MatmulParts
<1>3. DOMAIN C' = DOMAIN C
  BY DEF MatmulStep, Slice, MRow, Terms, Update, Block, Sum, ReadByte, WriteByte, StoreCell,
         NextBlock
<1>4. /\ slice \in [MatmulParts -> Nat] /\ row \in [MatmulParts -> Nat]
      /\ col \in [MatmulParts -> Nat] /\ k \in [MatmulParts -> Nat]
      /\ step \in [MatmulParts -> 1 .. Len(matmul.steps)]
      /\ stored \in [MatmulParts -> Nat]
  BY DEF MTypeOK
<1>5. /\ Len(matmul.steps) \in Nat \ {0} /\ matmul.width \in Nat \ {0}
      /\ \A l \in 1 .. Len(matmul.steps) : matmul.steps[l] \in Nat \ {0}
  BY MatmulArguments
<1>6. mpc' \in [MatmulParts -> {"slice", "row", "terms", "update", "block", "sum", "store",
                                "byte", "returned"}]
  BY DEF MatmulStep, Slice, MRow, Terms, Update, Block, Sum, ReadByte, WriteByte, StoreCell,
         NextBlock, NextRow, Goto, MTypeOK
<1>7. slice' \in [MatmulParts -> Nat] /\ row' \in [MatmulParts -> Nat]
  <2>1. slice' = slice \/ slice' = [slice EXCEPT ![t] = slice[t] + 1]
    BY DEF MatmulStep, Slice, MRow, Terms, Update, Block, Sum, ReadByte, WriteByte, StoreCell,
           NextBlock
  <2>2. \/ row' = row \/ row' = [row EXCEPT ![t] = 0]
        \/ row' = [row EXCEPT ![t] = row[t] + 1]
    BY DEF MatmulStep, Slice, MRow, Terms, Update, Block, Sum, ReadByte, WriteByte, StoreCell,
           NextBlock, NextRow
  <2>3. slice[t] + 1 \in Nat /\ row[t] + 1 \in Nat
    BY <1>4
  <2>4. slice' \in [MatmulParts -> Nat]
    BY <1>4, <2>1, <2>3
  <2>5. row' \in [MatmulParts -> Nat]
    <3>1. /\ [row EXCEPT ![t] = 0] \in [MatmulParts -> Nat]
          /\ [row EXCEPT ![t] = row[t] + 1] \in [MatmulParts -> Nat]
      BY <1>4, <2>3
    <3> QED BY <1>4, <2>2, <3>1
  <2> QED BY <2>4, <2>5
<1>8. col' \in [MatmulParts -> Nat]
  <2>1. \/ col' = col \/ col' = [col EXCEPT ![t] = 0]
        \/ col' = [col EXCEPT ![t] = col[t] + matmul.steps[step[t]]]
        \/ col' = [col EXCEPT ![t] = col[t] + matmul.width]
    BY DEF MatmulStep, Slice, MRow, Terms, Update, Block, Sum, ReadByte, WriteByte, StoreCell,
           NextBlock
  <2>2. col[t] + matmul.steps[step[t]] \in Nat /\ col[t] + matmul.width \in Nat
    BY <1>4, <1>5
  <2>3. /\ [col EXCEPT ![t] = 0] \in [MatmulParts -> Nat]
        /\ [col EXCEPT ![t] = col[t] + matmul.steps[step[t]]] \in [MatmulParts -> Nat]
        /\ [col EXCEPT ![t] = col[t] + matmul.width] \in [MatmulParts -> Nat]
    BY <1>4, <2>2
  <2> QED BY <1>4, <2>1, <2>3
<1>9. k' \in [MatmulParts -> Nat] /\ stored' \in [MatmulParts -> Nat]
  <2>1. \/ k' = k \/ k' = [k EXCEPT ![t] = 0] \/ k' = [k EXCEPT ![t] = k[t] + 1]
        \/ k' = [k EXCEPT ![t] = k[t] + matmul.steps[step[t]]]
    BY DEF MatmulStep, Slice, MRow, Terms, Update, Block, Sum, ReadByte, WriteByte, StoreCell,
           NextBlock
  <2>2. \/ stored' = stored \/ stored' = [stored EXCEPT ![t] = 0]
        \/ stored' = [stored EXCEPT ![t] = stored[t] + 1]
    BY DEF MatmulStep, Slice, MRow, Terms, Update, Block, Sum, ReadByte, WriteByte, StoreCell,
           NextBlock
  <2>3. k[t] + 1 \in Nat /\ k[t] + matmul.steps[step[t]] \in Nat /\ stored[t] + 1 \in Nat
    BY <1>4, <1>5
  <2>4. k' \in [MatmulParts -> Nat]
    <3>1. /\ [k EXCEPT ![t] = 0] \in [MatmulParts -> Nat]
          /\ [k EXCEPT ![t] = k[t] + 1] \in [MatmulParts -> Nat]
          /\ [k EXCEPT ![t] = k[t] + matmul.steps[step[t]]] \in [MatmulParts -> Nat]
      BY <1>4, <2>3
    <3> QED BY <1>4, <2>1, <3>1
  <2>5. stored' \in [MatmulParts -> Nat]
    BY <1>4, <2>2, <2>3
  <2> QED BY <2>4, <2>5
<1>10. step' \in [MatmulParts -> 1 .. Len(matmul.steps)]
  <2>1. \/ step' = step \/ step' = [step EXCEPT ![t] = 1]
        \/ step[t] < Len(matmul.steps) /\ step' = [step EXCEPT ![t] = step[t] + 1]
    BY DEF MatmulStep, Slice, MRow, Terms, Update, Block, Sum, ReadByte, WriteByte, StoreCell,
           NextBlock
  <2>2. /\ 1 \in 1 .. Len(matmul.steps)
        /\ step[t] < Len(matmul.steps) => step[t] + 1 \in 1 .. Len(matmul.steps)
    BY <1>4, <1>5
  <2> QED BY <1>4, <2>1, <2>2
<1>11. DOMAIN sum' = MatmulParts /\ DOMAIN half' = MatmulParts
  BY DEF MTypeOK, MatmulStep, Slice, MRow, Terms, Update, Block, Sum, ReadByte, WriteByte,
         StoreCell, NextBlock
<1> QED BY <1>1, <1>2, <1>3, <1>6, <1>7, <1>8, <1>9, <1>10, <1>11 DEF MTypeOK

\* A thread writes into its own cells and, if they are packed, into their neighbours.
LEMMA MatmulWrites ==
  ASSUME MTypeOK, NEW t \in MatmulParts, CountersInv(t), MatmulStep(t), NEW g \in DOMAIN C
  PROVE  \/ C'[g] = C[g]
         \/ g \in CellsOf(t)
         \/ matmul.packed /\ Neighbour(g) \in CellsOf(t)
<1>1. /\ N \in Nat \ {0} /\ col[t] \in Nat /\ stored[t] \in Nat /\ RowStart(t) \in Nat
      /\ matmul.width \in Nat \ {0}
  BY MatmulArguments, PlaceOf DEF MTypeOK
<1>2. ASSUME row[t] < N, slice[t] < RangeEnd(slices, Team, t), NEW j \in 0 .. N - 1
      PROVE  CellAt(t, j) \in CellsOf(t) /\ CellAt(t, j) \in Nat
  BY <1>2, RowCell
<1>3. CASE Slice(t)
  BY <1>3, PlaceOf DEF Slice
<1>4. CASE Update(t)
  <2>1. row[t] < N /\ slice[t] < RangeEnd(slices, Team, t)
    BY <1>4 DEF Update, CountersInv
  <2>2. matmul.steps[step[t]] \in Nat
    BY MatmulArguments DEF MTypeOK
  <2>3. \A j \in col[t] .. col[t] + matmul.steps[step[t]] - 1 :
          col[t] + matmul.steps[step[t]] <= N => CellAt(t, j) \in CellsOf(t)
    BY <1>1, <1>2, <2>1, <2>2
  <2> QED BY <1>4, <2>3 DEF Update
<1>5. CASE StoreCell(t) \/ WriteByte(t)
  <2>1. /\ row[t] < N /\ slice[t] < RangeEnd(slices, Team, t) /\ stored[t] < BlockWidth(t)
        /\ col[t] < N
    BY <1>5 DEF StoreCell, WriteByte, CountersInv
  <2>2. col[t] + stored[t] \in 0 .. N - 1
    BY <1>1, <2>1 DEF BlockWidth
  <2>3. /\ CellAt(t, col[t] + stored[t]) \in CellsOf(t) /\ CellAt(t, col[t] + stored[t]) \in Nat
    BY <1>2, <2>1, <2>2
  <2>4. CASE StoreCell(t)
    BY <2>3, <2>4 DEF StoreCell
  <2>5. CASE WriteByte(t)
    <3>1. matmul.packed
      BY <2>5 DEF WriteByte, CountersInv
    <3> QED BY <2>3, <2>5, <3>1, NeighbourTwice DEF WriteByte
  <2> QED BY <1>5, <2>4, <2>5
<1>6. CASE MRow(t) \/ Terms(t) \/ Block(t) \/ Sum(t) \/ ReadByte(t) \/ NextBlock(t)
  BY <1>6 DEF MRow, Terms, Block, Sum, ReadByte, NextBlock
<1> QED BY <1>3, <1>4, <1>5, <1>6 DEF MatmulStep

\* What another thread does leaves a thread's part of the invariant alone: it writes into
\* none of its cells but those in a byte that the two share.
LEMMA OthersKeep ==
  ASSUME MInv, NEW t \in MatmulParts, MatmulStep(t), NEW u \in MatmulParts, u # t
  PROVE  CountersInv(u)' /\ ProductInv(u)' /\ HalfInv(u)'
<1>1. /\ MTypeOK /\ CountersInv(t) /\ CountersInv(u) /\ ProductInv(u) /\ HalfInv(u)
  BY DEF MInv
<1>2. /\ matmul' = matmul /\ N' = N /\ slices' = slices /\ MatmulParts' = MatmulParts
      /\ DOMAIN C' = DOMAIN C
  BY <1>1, MatmulTypes
<1>3. /\ mpc'[u] = mpc[u] /\ slice'[u] = slice[u] /\ row'[u] = row[u]
  BY DEF MatmulStep, Slice, MRow, Terms, Update, Block, Sum, ReadByte, WriteByte, StoreCell,
         NextBlock, NextRow, Goto, MInv, MTypeOK
<1>4. /\ col'[u] = col[u] /\ k'[u] = k[u] /\ step'[u] = step[u]
  BY DEF MatmulStep, Slice, MRow, Terms, Update, Block, Sum, ReadByte, WriteByte, StoreCell,
         NextBlock, MInv, MTypeOK
<1>5. sum'[u] = sum[u] /\ stored'[u] = stored[u] /\ half'[u] = half[u]
  BY DEF MatmulStep, Slice, MRow, Terms, Update, Block, Sum, ReadByte, WriteByte, StoreCell,
         NextBlock, MInv, MTypeOK
<1>6. CountersInv(u)'
  BY <1>1, <1>2, <1>3, <1>4, <1>5 DEF CountersInv, BlockWidth
<1>7. /\ CellsOf(u)' = CellsOf(u) /\ \A g : SharedByte(u, g)' = SharedByte(u, g)
  BY <1>2 DEF CellsOf, SliceCells, SharedByte
<1>8. CellsOf(u) \subseteq DOMAIN C /\ CellsOf(t) \subseteq DOMAIN C /\ CellsOf(t) \cap CellsOf(u) = {}
  BY <1>1, CellsApart
<1>9. \A g \in CellsOf(u) : ~ SharedByte(u, g) => C'[g] = C[g]
  BY <1>1, <1>8, MatmulWrites DEF SharedByte
<1>10. /\ Reached(u)' = Reached(u) /\ SliceCells(slice[u])' = SliceCells(slice[u])
       /\ \A g : TermsSoFar(u, g)' = TermsSoFar(u, g)
  BY <1>2, <1>3, <1>4, <1>5 DEF Reached, RowStart, SliceStart, TermsSoFar, SliceCells
<1>11. ProductInv(u)'
  BY <1>1, <1>2, <1>3, <1>7, <1>9, <1>10 DEF ProductInv
<1>12. HalfInv(u)'
  <2> SUFFICES ASSUME mpc[u] = "byte", Neighbour(CellAt(u, col[u] + stored[u])) \in CellsOf(u)
               PROVE  half[u] = C'[Neighbour(CellAt(u, col[u] + stored[u]))]
    BY <1>2, <1>3, <1>4, <1>5, <1>7 DEF HalfInv, CellAt
  <2> DEFINE c == CellAt(u, col[u] + stored[u])
  <2>1. /\ row[u] < N /\ slice[u] < RangeEnd(slices, Team, u) /\ stored[u] < BlockWidth(u)
        /\ col[u] < N /\ col[u] \in Nat /\ stored[u] \in Nat /\ N \in Nat
        /\ matmul.width \in Nat
    BY <1>1, MatmulArguments DEF CountersInv, MTypeOK
  <2>2. col[u] + stored[u] \in 0 .. N - 1
    BY <2>1 DEF BlockWidth
  <2>5. c \in CellsOf(u) /\ c \in Nat
    BY <1>1, <2>1, <2>2, RowCell
  <2>6. Neighbour(Neighbour(c)) = c
    BY <2>5, NeighbourTwice
  <2>7. ~ SharedByte(u, Neighbour(c))
    BY <2>5, <2>6 DEF SharedByte
  <2>8. C'[Neighbour(c)] = C[Neighbour(c)]
    BY <1>9, <2>7
  <2> QED BY <1>1, <2>8 DEF HalfInv
<1> QED BY <1>6, <1>11, <1>12

LEMMA SameCells ==
  ASSUME MTypeOK, NEW t \in MatmulParts, CountersInv(t), MatmulStep(t)
  PROVE  /\ CellsOf(t)' = CellsOf(t) /\ \A g : SharedByte(t, g)' = SharedByte(t, g)
         /\ CellsOf(t) \subseteq Nat
<1>1. matmul' = matmul /\ N' = N /\ slices' = slices /\ DOMAIN C' = DOMAIN C
  BY MatmulTypes
<1>2. DOMAIN C = 0 .. slices * (N * N) - 1 /\ CellsOf(t) \subseteq DOMAIN C
  BY CellsApart DEF MTypeOK
<1> QED BY <1>1, <1>2 DEF CellsOf, SliceCells, SharedByte

\* What a step has to show for the thread that takes it.
LEMMA ProductByCell ==
  ASSUME MTypeOK, NEW t \in MatmulParts, CountersInv(t), MatmulStep(t),
         \A g \in CellsOf(t) : ~ SharedByte(t, g) =>
           /\ g < Reached(t)' => C'[g] = 0 .. N - 1
           /\ /\ ~ matmul.buffered
              /\ mpc'[t] \in {"row", "terms", "update"}
              /\ g \in SliceCells(slice[t])'
              /\ g >= Reached(t)'
              => C'[g] = TermsSoFar(t, g)'
  PROVE  ProductInv(t)'
  BY SameCells, MatmulTypes DEF ProductInv

\* The values of a thread's counters.
LEMMA CounterTypes ==
  ASSUME MTypeOK, NEW t \in MatmulParts, CountersInv(t)
  PROVE  /\ N \in Nat \ {0} /\ matmul.width \in Nat \ {0}
         /\ slice[t] \in Nat /\ row[t] \in 0 .. N /\ col[t] \in Nat /\ k[t] \in 0 .. N
         /\ stored[t] \in Nat
         /\ step[t] \in 1 .. Len(matmul.steps) /\ Len(matmul.steps) \in Nat \ {0}
         /\ matmul.steps[step[t]] \in Nat \ {0}
         /\ step[t] >= Len(matmul.steps) => matmul.steps[step[t]] = 1
         /\ RangeBegin(slices, Team, t) \in Nat /\ RangeEnd(slices, Team, t) \in Nat
<1>1. /\ slice[t] \in Nat /\ row[t] \in Nat /\ col[t] \in Nat /\ k[t] \in Nat /\ stored[t] \in Nat
      /\ step[t] \in 1 .. Len(matmul.steps)
  BY DEF MTypeOK
<1>2. row[t] <= N /\ k[t] <= N
  BY DEF CountersInv
<1>3. N \in Nat \ {0} /\ row[t] \in 0 .. N /\ k[t] \in 0 .. N
  BY <1>1, <1>2, MatmulArguments
<1> QED BY <1>1, <1>3, MatmulArguments, SlicesOf

\* The next slice is set to zero, or the thread returns.
LEMMA SliceKeeps ==
  ASSUME MInv, NEW t \in MatmulParts, Slice(t)
  PROVE  CountersInv(t)' /\ ProductInv(t)' /\ HalfInv(t)'
<1>1. MTypeOK /\ CountersInv(t) /\ ProductInv(t) /\ MatmulStep(t)
  BY DEF MInv, MatmulStep
<1>2. /\ matmul' = matmul /\ N' = N /\ slices' = slices /\ slice' = slice /\ k' = k
      /\ mpc[t] = "slice"
  BY DEF Slice
<1>3. SliceStart(t)' = SliceStart(t) /\ SliceCells(slice[t])' = SliceCells(slice[t])
  BY <1>2 DEF SliceStart, SliceCells
<1>4. Reached(t) = SliceStart(t)
  BY <1>2 DEF Reached
<1>5. CASE slice[t] < RangeEnd(slices, Team, t)
  <2>1. /\ mpc'[t] = "row" /\ row'[t] = 0
        /\ C' = [g \in DOMAIN C |->
                  IF matmul.clears /\ g \in SliceCells(slice[t]) THEN {} ELSE C[g]]
    BY <1>1, <1>5 DEF Slice, Goto, MTypeOK
  <2>2. Reached(t)' = SliceStart(t)
    <3>1. RowStart(t)' = SliceStart(t) + 0 * N
      BY <1>2, <1>3, <2>1 DEF RowStart
    <3>2. 0 * N = 0 /\ SliceStart(t) \in Nat
      BY <1>1, CounterTypes, PlaceOf
    <3> QED BY <2>1, <3>1, <3>2 DEF Reached
  <2>3. CountersInv(t)'
    BY <1>1, <1>2, <1>5, <2>1, CounterTypes DEF CountersInv
  <2>4. ASSUME NEW g \in CellsOf(t), ~ SharedByte(t, g)
        PROVE  /\ g < Reached(t)' => C'[g] = 0 .. N - 1
               /\ /\ ~ matmul.buffered
                  /\ g \in SliceCells(slice[t])'
                  => C'[g] = TermsSoFar(t, g)'
    <3>1. g \in DOMAIN C
      BY <1>1, CellsApart
    <3>2. g < SliceStart(t) => g \notin SliceCells(slice[t])
      <4> DEFINE q == N * N
      <4>1. /\ SliceCells(slice[t]) = SliceStart(t) .. SliceStart(t) + q - 1
            /\ SliceStart(t) \in Nat /\ q \in Nat
        BY <1>1, PlaceOf, MatmulArguments
      <4>2. g \in Nat
        BY <1>1, SameCells
      <4> HIDE DEF q
      <4> QED BY <4>1, <4>2
    <3>3. g < SliceStart(t) => C[g] = 0 .. N - 1
      BY <1>1, <1>4, <2>4 DEF ProductInv
    <3>4. ~ matmul.buffered => matmul.clears
      BY <1>1, MatmulArguments
    <3>5. TermsSoFar(t, g)' = {}
      BY <2>1 DEF TermsSoFar
    <3>6. g < SliceStart(t) => C'[g] = 0 .. N - 1
      BY <2>1, <3>1, <3>2, <3>3
    <3>7. ~ matmul.buffered /\ g \in SliceCells(slice[t]) => C'[g] = {}
      BY <2>1, <3>1, <3>4
    <3> QED BY <1>3, <2>2, <3>5, <3>6, <3>7
  <2>5. ProductInv(t)'
    BY <1>1, <2>4, ProductByCell
  <2>6. HalfInv(t)'
    BY <2>1 DEF HalfInv
  <2> QED BY <2>3, <2>5, <2>6
<1>6. CASE ~ (slice[t] < RangeEnd(slices, Team, t))
  <2>1. mpc'[t] = "returned" /\ row' = row /\ C' = C
    BY <1>1, <1>6 DEF Slice, Goto, MTypeOK
  <2>2. Reached(t)' = SliceStart(t)
    BY <1>3, <2>1 DEF Reached
  <2>3. CountersInv(t)'
    BY <1>1, <1>2, <1>6, <2>1, CounterTypes DEF CountersInv
  <2>4. ProductInv(t)'
    BY <1>1, <1>4, <2>1, <2>2, ProductByCell DEF ProductInv
  <2>5. HalfInv(t)'
    BY <2>1 DEF HalfInv
  <2> QED BY <2>3, <2>4, <2>5
<1> QED BY <1>5, <1>6

\* The next row, or the next slice.
LEMMA MRowKeeps ==
  ASSUME MInv, NEW t \in MatmulParts, MRow(t)
  PROVE  CountersInv(t)' /\ ProductInv(t)' /\ HalfInv(t)'
<1>1. MTypeOK /\ CountersInv(t) /\ ProductInv(t) /\ MatmulStep(t)
  BY DEF MInv, MatmulStep
<1>2. /\ matmul' = matmul /\ N' = N /\ slices' = slices /\ row' = row /\ C' = C
      /\ mpc[t] = "row"
  BY DEF MRow
<1>3. Reached(t) = RowStart(t) /\ RowStart(t) \in Nat
  BY <1>1, <1>2, PlaceOf DEF Reached
<1>4. CASE row[t] < N
  <2>1. /\ mpc'[t] = (IF matmul.buffered THEN "block" ELSE "terms")
        /\ col'[t] = 0 /\ k'[t] = 0 /\ slice' = slice
    BY <1>1, <1>4 DEF MRow, Goto, MTypeOK
  <2>2. /\ SliceStart(t)' = SliceStart(t) /\ SliceCells(slice[t])' = SliceCells(slice[t])
        /\ RowStart(t)' = RowStart(t)
    BY <1>2, <2>1 DEF SliceStart, SliceCells, RowStart
  <2>3. Reached(t)' = RowStart(t)
    BY <1>1, <1>2, <1>3, <2>1, <2>2, CounterTypes DEF Reached
  <2>4. CountersInv(t)'
    BY <1>1, <1>2, <1>4, <2>1, CounterTypes DEF CountersInv
  <2>5. \A g : ~ matmul.buffered => TermsSoFar(t, g)' = {} /\ TermsSoFar(t, g) = {}
    <3>1. 0 .. -1 = {}
      OBVIOUS
    <3> QED BY <1>2, <2>1, <3>1 DEF TermsSoFar
  <2>6. ProductInv(t)'
    BY <1>1, <1>2, <1>3, <2>1, <2>2, <2>3, <2>5, ProductByCell DEF ProductInv
  <2>7. HalfInv(t)'
    BY <2>1 DEF HalfInv
  <2> QED BY <2>4, <2>6, <2>7
<1>5. CASE ~ (row[t] < N)
  <2>1. mpc'[t] = "slice" /\ slice'[t] = slice[t] + 1 /\ k' = k
    BY <1>1, <1>5 DEF MRow, Goto, MTypeOK
  <2>2. row[t] = N
    BY <1>1, <1>5, CounterTypes
  <2>3. Reached(t)' = RowStart(t)
    <3>1. SliceStart(t)' = (slice[t] + 1) * (N * N)
      BY <1>2, <2>1 DEF SliceStart
    <3>2. SliceStart(t)' = RowStart(t)
      BY <1>1, <2>2, <3>1, PlaceOf
    <3> QED BY <2>1, <3>2 DEF Reached
  <2>4. CountersInv(t)'
    BY <1>1, <1>2, <2>1, CounterTypes DEF CountersInv
  <2>5. ProductInv(t)'
    BY <1>1, <1>2, <1>3, <2>1, <2>3, ProductByCell DEF ProductInv
  <2>6. HalfInv(t)'
    BY <2>1 DEF HalfInv
  <2> QED BY <2>4, <2>5, <2>6
<1> QED BY <1>4, <1>5

\* A row that is left is finished.
LEMMA NextRowIs ==
  ASSUME MTypeOK, NEW t \in MatmulParts, CountersInv(t), MatmulStep(t),
         mpc[t] \in {"terms", "block"}, NextRow(t), slice' = slice, k' = k
  PROVE  /\ mpc'[t] = "row" /\ row'[t] = row[t] + 1
         /\ Reached(t)' = RowStart(t) + N /\ RowStart(t)' = RowStart(t) + N
         /\ CountersInv(t)'
<1>1. /\ matmul' = matmul /\ N' = N /\ slices' = slices
      /\ mpc'[t] = "row" /\ row'[t] = row[t] + 1
  BY MatmulTypes DEF NextRow, Goto, MTypeOK
<1>2. RowStart(t)' = SliceStart(t) + (row[t] + 1) * N
  BY <1>1 DEF RowStart, SliceStart
<1>3. RowStart(t)' = RowStart(t) + N
  BY <1>2, PlaceOf
<1>4. row[t] < N
  BY DEF CountersInv
<1>5. CountersInv(t)'
  BY <1>1, <1>4, CounterTypes DEF CountersInv
<1> QED BY <1>1, <1>3, <1>5 DEF Reached

\* In place: the next term, or the next row.
LEMMA TermsKeeps ==
  ASSUME MInv, NEW t \in MatmulParts, Terms(t)
  PROVE  CountersInv(t)' /\ ProductInv(t)' /\ HalfInv(t)'
<1>1. MTypeOK /\ CountersInv(t) /\ ProductInv(t) /\ MatmulStep(t)
  BY DEF MInv, MatmulStep
<1>2. /\ matmul' = matmul /\ N' = N /\ slices' = slices /\ slice' = slice /\ k' = k /\ C' = C
      /\ mpc[t] = "terms" /\ ~ matmul.buffered
  BY <1>1 DEF Terms, CountersInv
<1>3. /\ Reached(t) = RowStart(t) /\ RowStart(t) \in Nat /\ N \in Nat \ {0} /\ k[t] \in 0 .. N
      /\ CellsOf(t) \subseteq Nat
  BY <1>1, <1>2, PlaceOf, CounterTypes, SameCells DEF Reached
<1>4. SliceCells(slice[t])' = SliceCells(slice[t])
  BY <1>2 DEF SliceCells
<1>5. CASE k[t] < N
  <2>1. mpc'[t] = "update" /\ col'[t] = 0 /\ row' = row
    BY <1>1, <1>5 DEF Terms, Goto, MTypeOK
  <2>2. RowStart(t)' = RowStart(t) /\ Reached(t)' = RowStart(t)
    BY <1>2, <2>1 DEF RowStart, SliceStart, Reached
  <2>3. CountersInv(t)'
    BY <1>1, <1>2, <1>5, <2>1, CounterTypes DEF CountersInv
  <2>4. ASSUME NEW g \in CellsOf(t), g >= RowStart(t)
        PROVE  TermsSoFar(t, g)' = TermsSoFar(t, g)
    BY <1>2, <1>3, <2>1, <2>2, <2>4 DEF TermsSoFar
  <2>5. ProductInv(t)'
    BY <1>1, <1>2, <1>3, <1>4, <2>2, <2>4, ProductByCell DEF ProductInv
  <2>6. HalfInv(t)'
    BY <2>1 DEF HalfInv
  <2> QED BY <2>3, <2>5, <2>6
<1>6. CASE ~ (k[t] < N)
  <2>1. NextRow(t) /\ k[t] = N
    BY <1>3, <1>6 DEF Terms
  <2>2. /\ mpc'[t] = "row" /\ Reached(t)' = RowStart(t) + N /\ RowStart(t)' = RowStart(t) + N
        /\ CountersInv(t)'
    BY <1>1, <1>2, <2>1, NextRowIs
  <2>3. row[t] < N /\ slice[t] < RangeEnd(slices, Team, t)
    BY <1>1, <1>2 DEF CountersInv
  <2>4. \A g \in Nat : g >= RowStart(t) /\ g < RowStart(t) + N => g \in SliceCells(slice[t])
    <3> DEFINE q == N * N
    <3>1. /\ SliceCells(slice[t]) = SliceStart(t) .. SliceStart(t) + q - 1
          /\ SliceStart(t) <= RowStart(t) /\ RowStart(t) + N <= SliceStart(t) + q
          /\ SliceStart(t) \in Nat /\ q \in Nat
      BY <1>1, <2>3, PlaceOf, MatmulArguments
    <3> HIDE DEF q
    <3> QED BY <1>3, <3>1
  <2>5. ASSUME NEW g \in CellsOf(t), ~ SharedByte(t, g)
        PROVE  /\ g < RowStart(t) + N => C[g] = 0 .. N - 1
               /\ g \in SliceCells(slice[t]) /\ g >= RowStart(t) + N => C[g] = {}
    <3>1. g < RowStart(t) => C[g] = 0 .. N - 1
      BY <1>1, <1>3, <2>5 DEF ProductInv
    <3>2. g \in SliceCells(slice[t]) /\ g >= RowStart(t) => C[g] = TermsSoFar(t, g)
      BY <1>1, <1>2, <1>3, <2>5 DEF ProductInv
    <3>3. TermsSoFar(t, g) = IF g >= RowStart(t) + N THEN {} ELSE 0 .. N - 1
      BY <1>2, <2>1 DEF TermsSoFar
    <3> QED BY <1>3, <2>4, <3>1, <3>2, <3>3
  <2>6. \A g : TermsSoFar(t, g)' = {}
    BY <2>2 DEF TermsSoFar
  <2>7. ProductInv(t)'
    BY <1>1, <1>2, <1>4, <2>2, <2>5, <2>6, ProductByCell
  <2>8. HalfInv(t)'
    BY <2>2 DEF HalfInv
  <2> QED BY <2>2, <2>7, <2>8
<1> QED BY <1>5, <1>6

\* A term that is new to a cell is added once.
LEMMA AddingNew ==
  ASSUME NEW cell, NEW terms, cell \cap terms = {}
  PROVE  Adding(cell, terms) = cell \cup terms
  BY DEF Adding

\* In place: one vector or one cell of a loop over j, the next loop, or the next term.
LEMMA UpdateKeeps ==
  ASSUME MInv, NEW t \in MatmulParts, Update(t)
  PROVE  CountersInv(t)' /\ ProductInv(t)' /\ HalfInv(t)'
<1> DEFINE w == matmul.steps[step[t]]
           R == RowStart(t)
<1>1. MTypeOK /\ CountersInv(t) /\ ProductInv(t) /\ MatmulStep(t)
  BY DEF MInv, MatmulStep
<1>2. /\ matmul' = matmul /\ N' = N /\ slices' = slices /\ slice' = slice /\ row' = row
      /\ mpc[t] = "update" /\ ~ matmul.buffered /\ k[t] < N /\ col[t] <= N
  BY <1>1 DEF Update, CountersInv
<1>3. R \in Nat /\ N \in Nat \ {0} /\ k[t] \in Nat /\ col[t] \in Nat /\ w \in Nat \ {0}
  <2>1. R \in Nat
    BY <1>1, PlaceOf
  <2> QED BY <1>1, <2>1, CounterTypes
<1>4. /\ CellsOf(t) \subseteq Nat /\ CellsOf(t) \subseteq DOMAIN C
      /\ \A j \in Int : CellAt(t, j) = R + j
  BY <1>1, PlaceOf, SameCells, CellsApart
<1>5. SliceCells(slice[t])' = SliceCells(slice[t]) /\ RowStart(t)' = R /\ Reached(t) = R
  BY <1>2 DEF SliceCells, RowStart, SliceStart, Reached
<1>6. ASSUME NEW g \in CellsOf(t), ~ SharedByte(t, g)
      PROVE  /\ g < R => C[g] = 0 .. N - 1
             /\ g \in SliceCells(slice[t]) /\ g >= R => C[g] = TermsSoFar(t, g)
  BY <1>1, <1>2, <1>5, <1>6 DEF ProductInv
<1>7. CASE col[t] + w <= N
  <2>1. /\ C' = [g \in DOMAIN C |->
                  IF \E j \in col[t] .. col[t] + w - 1 : g = CellAt(t, j)
                  THEN Adding(C[g], {k[t]}) ELSE C[g]]
        /\ col'[t] = col[t] + w /\ mpc' = mpc /\ k' = k /\ step' = step
    BY <1>1, <1>7 DEF Update, MTypeOK
  <2>2. Reached(t)' = R
    BY <1>2, <1>5, <2>1 DEF Reached
  <2>3. CountersInv(t)'
    BY <1>1, <1>2, <1>7, <2>1, CounterTypes DEF CountersInv
  <2>4. ASSUME NEW g \in CellsOf(t), ~ SharedByte(t, g)
        PROVE  /\ g < R => C'[g] = 0 .. N - 1
               /\ g \in SliceCells(slice[t]) /\ g >= R => C'[g] = TermsSoFar(t, g)'
    <3>1. /\ g \in Nat /\ g \in DOMAIN C
          /\ (\E j \in col[t] .. col[t] + w - 1 : g = CellAt(t, j))
               <=> (g >= R + col[t] /\ g < R + col[t] + w)
      <4>1. g \in Nat /\ g \in DOMAIN C
        BY <1>4
      <4>2. \A j \in col[t] .. col[t] + w - 1 : j \in Int /\ CellAt(t, j) = R + j
        BY <1>3, <1>4
      <4>3. g >= R + col[t] /\ g < R + col[t] + w => g - R \in col[t] .. col[t] + w - 1
        BY <1>3, <4>1
      <4> QED BY <1>3, <4>1, <4>2, <4>3
    <3>2. CASE g >= R + col[t] /\ g < R + col[t] + w
      <4>1. C'[g] = Adding(C[g], {k[t]})
        BY <2>1, <3>1, <3>2
      <4>2. g >= R /\ g < R + N
        BY <1>3, <1>7, <3>1, <3>2
      <4>3. TermsSoFar(t, g) = 0 .. k[t] - 1
        BY <1>2, <1>3, <3>1, <3>2, <4>2 DEF TermsSoFar
      <4>4. TermsSoFar(t, g)' = 0 .. k[t]
        BY <1>2, <1>3, <1>5, <2>1, <3>1, <3>2, <4>2 DEF TermsSoFar
      <4>5. Adding(0 .. k[t] - 1, {k[t]}) = 0 .. k[t]
        <5>1. (0 .. k[t] - 1) \cap {k[t]} = {} /\ (0 .. k[t] - 1) \cup {k[t]} = 0 .. k[t]
          BY <1>3
        <5> QED BY <5>1, AddingNew
      <4> QED BY <1>3, <1>6, <2>4, <3>1, <4>1, <4>2, <4>3, <4>4, <4>5
    <3>3. CASE ~ (g >= R + col[t] /\ g < R + col[t] + w)
      <4>1. C'[g] = C[g]
        BY <2>1, <3>1, <3>3
      <4>2. TermsSoFar(t, g)' = TermsSoFar(t, g)
        BY <1>2, <1>3, <1>5, <2>1, <3>1, <3>3 DEF TermsSoFar
      <4> QED BY <1>6, <2>4, <4>1, <4>2
    <3> QED BY <3>2, <3>3
  <2>5. ProductInv(t)'
    BY <1>1, <1>5, <2>2, <2>4, ProductByCell
  <2>6. HalfInv(t)'
    BY <1>2, <2>1 DEF HalfInv
  <2> QED BY <2>3, <2>5, <2>6
<1>8. CASE ~ (col[t] + w <= N) /\ step[t] < Len(matmul.steps)
  <2>1. mpc' = mpc /\ k' = k /\ col' = col /\ C' = C
    BY <1>8 DEF Update
  <2>2. Reached(t)' = R /\ \A g : TermsSoFar(t, g)' = TermsSoFar(t, g)
    BY <1>2, <1>5, <2>1 DEF Reached, TermsSoFar
  <2>3. CountersInv(t)'
    BY <1>1, <1>2, <2>1, CounterTypes DEF CountersInv
  <2>4. ProductInv(t)'
    BY <1>1, <1>5, <1>6, <2>1, <2>2, ProductByCell
  <2>5. HalfInv(t)'
    BY <1>2, <2>1 DEF HalfInv
  <2> QED BY <2>3, <2>4, <2>5
<1>9. CASE ~ (col[t] + w <= N) /\ ~ (step[t] < Len(matmul.steps))
  <2>1. mpc'[t] = "terms" /\ k'[t] = k[t] + 1 /\ col' = col /\ C' = C
    BY <1>1, <1>9 DEF Update, Goto, MTypeOK
  <2>2. col[t] = N
    <3>1. step[t] >= Len(matmul.steps)
      BY <1>1, <1>9, CounterTypes
    <3>2. w = 1
      BY <1>1, <3>1, CounterTypes
    <3> QED BY <1>2, <1>3, <1>9, <3>2
  <2>3. Reached(t)' = R
    BY <1>2, <1>5, <2>1 DEF Reached
  <2>4. CountersInv(t)'
    BY <1>1, <1>2, <2>1, CounterTypes DEF CountersInv
  <2>5. ASSUME NEW g \in CellsOf(t) PROVE TermsSoFar(t, g)' = TermsSoFar(t, g)
    <3>1. (k[t] + 1) - 1 = k[t] /\ g \in Nat
      BY <1>3, <1>4
    <3> QED BY <1>2, <1>3, <1>5, <2>1, <2>2, <3>1 DEF TermsSoFar
  <2>6. ProductInv(t)'
    BY <1>1, <1>5, <1>6, <2>1, <2>3, <2>5, ProductByCell
  <2>7. HalfInv(t)'
    BY <2>1 DEF HalfInv
  <2> QED BY <2>4, <2>6, <2>7
<1> QED BY <1>7, <1>8, <1>9

\* Buffered: the sums of the next block, or the next row.
LEMMA BlockKeeps ==
  ASSUME MInv, NEW t \in MatmulParts, Block(t)
  PROVE  CountersInv(t)' /\ ProductInv(t)' /\ HalfInv(t)'
<1>1. MTypeOK /\ CountersInv(t) /\ ProductInv(t) /\ MatmulStep(t)
  BY DEF MInv, MatmulStep
<1>2. /\ matmul' = matmul /\ N' = N /\ slices' = slices /\ slice' = slice /\ col' = col /\ C' = C
      /\ mpc[t] = "block" /\ matmul.buffered
  BY <1>1 DEF Block, CountersInv
<1>3. Reached(t) = RowStart(t) + (IF col[t] < N THEN col[t] ELSE N)
  BY <1>2 DEF Reached
<1>4. Reached(t)' = Reached(t) /\ CountersInv(t)' /\ mpc'[t] # "byte"
  <2>1. CASE col[t] < N
    <3>1. mpc'[t] = "sum" /\ sum'[t] = {} /\ k'[t] = 0 /\ row' = row
      BY <1>1, <2>1 DEF Block, Goto, MTypeOK
    <3>2. RowStart(t)' = RowStart(t) /\ Reached(t)' = RowStart(t) + col[t]
      BY <1>2, <3>1 DEF Reached, RowStart, SliceStart
    <3>3. 0 .. 0 - 1 = {}
      OBVIOUS
    <3>4. CountersInv(t)'
      BY <1>1, <1>2, <2>1, <3>1, <3>3, CounterTypes DEF CountersInv
    <3> QED BY <1>3, <2>1, <3>1, <3>2, <3>4
  <2>2. CASE ~ (col[t] < N)
    <3>1. NextRow(t) /\ k' = k
      BY <2>2 DEF Block
    <3> QED BY <1>1, <1>2, <1>3, <2>2, <3>1, NextRowIs
  <2> QED BY <2>1, <2>2
<1>5. ProductInv(t)'
  BY <1>1, <1>2, <1>4, ProductByCell DEF ProductInv
<1> QED BY <1>4, <1>5 DEF HalfInv

\* Buffered: one vector or one term of a loop over k, the next loop, or the stores.
LEMMA SumKeeps ==
  ASSUME MInv, NEW t \in MatmulParts, Sum(t)
  PROVE  CountersInv(t)' /\ ProductInv(t)' /\ HalfInv(t)'
<1> DEFINE w == matmul.steps[step[t]]
<1>1. MTypeOK /\ CountersInv(t) /\ ProductInv(t) /\ MatmulStep(t)
  BY DEF MInv, MatmulStep
<1>2. /\ matmul' = matmul /\ N' = N /\ slices' = slices /\ slice' = slice /\ row' = row
      /\ col' = col /\ C' = C
      /\ mpc[t] = "sum" /\ matmul.buffered /\ sum[t] = 0 .. k[t] - 1 /\ col[t] < N
  BY <1>1 DEF Sum, CountersInv
<1>3. /\ N \in Nat \ {0} /\ k[t] \in 0 .. N /\ col[t] \in Nat /\ w \in Nat \ {0}
      /\ matmul.width \in Nat \ {0}
  BY <1>1, CounterTypes
<1>4. RowStart(t)' = RowStart(t) /\ Reached(t) = RowStart(t) + col[t] /\ RowStart(t) \in Nat
  BY <1>1, <1>2, PlaceOf DEF RowStart, SliceStart, Reached
<1>5. Reached(t)' = Reached(t) /\ CountersInv(t)' /\ mpc'[t] # "byte"
  <2>1. CASE k[t] + w <= N
    <3>1. /\ mpc' = mpc /\ step' = step /\ k'[t] = k[t] + w
          /\ sum'[t] = Adding(sum[t], k[t] .. k[t] + w - 1)
      BY <1>1, <2>1 DEF Sum, MTypeOK
    <3>2. sum'[t] = 0 .. k'[t] - 1
      <4>1. (0 .. k[t] - 1) \cap (k[t] .. k[t] + w - 1) = {}
        BY <1>3
      <4>2. (0 .. k[t] - 1) \cup (k[t] .. k[t] + w - 1) = 0 .. k[t] + w - 1
        BY <1>3
      <4>3. sum'[t] = (0 .. k[t] - 1) \cup (k[t] .. k[t] + w - 1)
        BY <1>2, <3>1, <4>1, AddingNew
      <4>4. k'[t] - 1 = k[t] + w - 1
        BY <1>3, <3>1
      <4> HIDE DEF w
      <4> QED BY <4>2, <4>3, <4>4
    <3>3. CountersInv(t)'
      BY <1>1, <1>2, <1>3, <2>1, <3>1, <3>2, CounterTypes DEF CountersInv
    <3> QED BY <1>2, <1>4, <3>1, <3>3 DEF Reached
  <2>2. CASE ~ (k[t] + w <= N) /\ step[t] < Len(matmul.steps)
    <3>1. mpc' = mpc /\ k' = k /\ sum' = sum
      BY <2>2 DEF Sum
    <3>2. CountersInv(t)'
      BY <1>1, <1>2, <3>1, CounterTypes DEF CountersInv
    <3> QED BY <1>2, <1>4, <3>1, <3>2 DEF Reached
  <2>3. CASE ~ (k[t] + w <= N) /\ ~ (step[t] < Len(matmul.steps))
    <3>1. mpc'[t] = "store" /\ stored'[t] = 0 /\ sum' = sum /\ k' = k
      BY <1>1, <2>3 DEF Sum, Goto, MTypeOK
    <3>2. k[t] = N
      <4>1. step[t] >= Len(matmul.steps)
        BY <1>1, <2>3, CounterTypes
      <4>2. w = 1
        BY <1>1, <4>1, CounterTypes
      <4> QED BY <1>3, <2>3, <4>2
    <3>3. sum'[t] = 0 .. N - 1
      BY <1>2, <3>1, <3>2
    <3>4. BlockWidth(t)' >= 0
      BY <1>2, <1>3 DEF BlockWidth
    <3>5. CountersInv(t)'
      BY <1>1, <1>2, <3>1, <3>3, <3>4, CounterTypes DEF CountersInv
    <3>6. Reached(t)' = RowStart(t) + col[t] + 0
      BY <1>2, <1>4, <3>1 DEF Reached
    <3> QED BY <1>3, <1>4, <3>1, <3>5, <3>6
  <2> QED BY <2>1, <2>2, <2>3
<1>6. ProductInv(t)'
  BY <1>1, <1>2, <1>5, ProductByCell DEF ProductInv
<1> QED BY <1>5, <1>6 DEF HalfInv

\* The cell a buffered thread stores next: its own, and the first it has not finished.
LEMMA StoreAt ==
  ASSUME MTypeOK, NEW t \in MatmulParts, CountersInv(t), mpc[t] \in {"store", "byte"},
         stored[t] < BlockWidth(t)
  PROVE  /\ CellAt(t, col[t] + stored[t]) \in CellsOf(t)
         /\ CellAt(t, col[t] + stored[t]) \in Nat
         /\ Reached(t) = CellAt(t, col[t] + stored[t])
<1>1. /\ row[t] < N /\ slice[t] < RangeEnd(slices, Team, t) /\ col[t] < N
      /\ col[t] \in Nat /\ stored[t] \in Nat /\ N \in Nat /\ matmul.width \in Nat
  BY CounterTypes DEF CountersInv
<1>2. col[t] + stored[t] \in 0 .. N - 1
  BY <1>1 DEF BlockWidth
<1>3. Reached(t) = RowStart(t) + col[t] + stored[t] /\ RowStart(t) \in Nat
  BY PlaceOf DEF Reached
<1> QED BY <1>1, <1>2, <1>3, RowCell

\* A packed store first reads the byte.
LEMMA ReadByteKeeps ==
  ASSUME MInv, NEW t \in MatmulParts, ReadByte(t)
  PROVE  CountersInv(t)' /\ ProductInv(t)' /\ HalfInv(t)'
<1>1. MTypeOK /\ CountersInv(t) /\ ProductInv(t) /\ MatmulStep(t)
  BY DEF MInv, MatmulStep
<1> DEFINE other == Neighbour(CellAt(t, col[t] + stored[t]))
<1>2. /\ matmul' = matmul /\ N' = N /\ slices' = slices /\ slice' = slice /\ row' = row
      /\ col' = col /\ k' = k /\ sum' = sum /\ stored' = stored /\ C' = C
      /\ mpc[t] = "store" /\ mpc'[t] = "byte" /\ matmul.packed /\ stored[t] < BlockWidth(t)
      /\ half'[t] = (IF other \in DOMAIN C THEN C[other] ELSE {})
  BY <1>1 DEF ReadByte, Goto, MTypeOK
<1>3. matmul.buffered
  BY <1>1, MatmulArguments, <1>2
<1>4. CountersInv(t)'
  BY <1>1, <1>2, <1>3, CounterTypes DEF CountersInv, BlockWidth
<1>5. Reached(t)' = Reached(t)
  BY <1>2 DEF Reached, RowStart, SliceStart
<1>6. ProductInv(t)'
  BY <1>1, <1>2, <1>3, <1>5, ProductByCell DEF ProductInv
<1>7. HalfInv(t)'
  <2>1. CellsOf(t)' = CellsOf(t) /\ CellsOf(t) \subseteq DOMAIN C
    BY <1>1, SameCells, CellsApart
  <2> QED BY <1>2, <2>1 DEF HalfInv, CellAt
<1> QED BY <1>4, <1>6, <1>7

\* A store finishes one more cell, and leaves the other cells of the thread alone: the
\* half of the byte that is written back is what it was.
LEMMA StoreKeeps ==
  ASSUME MInv, NEW t \in MatmulParts, WriteByte(t) \/ StoreCell(t)
  PROVE  CountersInv(t)' /\ ProductInv(t)' /\ HalfInv(t)'
<1> DEFINE c == CellAt(t, col[t] + stored[t])
<1>1. MTypeOK /\ CountersInv(t) /\ ProductInv(t) /\ HalfInv(t) /\ MatmulStep(t)
  BY DEF MInv, MatmulStep
<1>2. /\ matmul' = matmul /\ N' = N /\ slices' = slices /\ slice' = slice /\ row' = row
      /\ col' = col /\ k' = k /\ sum' = sum
      /\ stored'[t] = stored[t] + 1 /\ mpc[t] \in {"store", "byte"} /\ mpc'[t] = "store"
  BY <1>1 DEF WriteByte, StoreCell, Goto, MTypeOK
<1>3. stored[t] < BlockWidth(t) /\ matmul.buffered /\ sum[t] = 0 .. N - 1
  BY <1>1, <1>2 DEF WriteByte, StoreCell, CountersInv
<1>4. /\ c \in CellsOf(t) /\ c \in Nat /\ Reached(t) = c
      /\ CellsOf(t) \subseteq Nat /\ CellsOf(t) \subseteq DOMAIN C
  BY <1>1, <1>2, <1>3, StoreAt, SameCells, CellsApart
<1>5. Reached(t)' = c + 1
  <2>1. Reached(t)' = RowStart(t) + col[t] + (stored[t] + 1)
    BY <1>2 DEF Reached, RowStart, SliceStart
  <2>2. Reached(t) = RowStart(t) + col[t] + stored[t]
    BY <1>2 DEF Reached
  <2>3. RowStart(t) \in Nat /\ col[t] \in Nat /\ stored[t] \in Nat
    BY <1>1, PlaceOf, CounterTypes
  <2> QED BY <1>4, <2>1, <2>2, <2>3
<1>6. CountersInv(t)'
  <2>1. BlockWidth(t)' = BlockWidth(t) /\ stored[t] + 1 <= BlockWidth(t)
    BY <1>1, <1>2, <1>3, CounterTypes DEF BlockWidth
  <2> QED BY <1>1, <1>2, <1>3, <2>1, CounterTypes DEF CountersInv
<1>7. C'[c] = 0 .. N - 1
  BY <1>3, <1>4 DEF WriteByte, StoreCell
<1>8. ASSUME NEW g \in CellsOf(t), g # c PROVE C'[g] = C[g]
  <2>1. CASE StoreCell(t)
    BY <1>4, <1>8, <2>1 DEF StoreCell
  <2>2. CASE WriteByte(t)
    <3>1. g = Neighbour(c) => half[t] = C[g]
      BY <1>1, <2>2, <1>8 DEF HalfInv, WriteByte
    <3> QED BY <1>4, <1>8, <2>2, <3>1 DEF WriteByte
  <2> QED BY <2>1, <2>2
<1>9. ASSUME NEW g \in CellsOf(t), ~ SharedByte(t, g), g < c + 1 PROVE C'[g] = 0 .. N - 1
  <2>1. CASE g = c
    BY <1>7, <2>1
  <2>2. CASE g # c
    <3>1. g < Reached(t)
      BY <1>4, <1>9, <2>2
    <3> QED BY <1>1, <1>8, <1>9, <2>2, <3>1 DEF ProductInv
  <2> QED BY <2>1, <2>2
<1>10. ProductInv(t)'
  BY <1>1, <1>3, <1>5, <1>9, ProductByCell
<1> QED BY <1>2, <1>6, <1>10 DEF HalfInv

\* The next block begins where this one ends, which is not after the row.
LEMMA NextBlockKeeps ==
  ASSUME MInv, NEW t \in MatmulParts, NextBlock(t)
  PROVE  CountersInv(t)' /\ ProductInv(t)' /\ HalfInv(t)'
<1>1. MTypeOK /\ CountersInv(t) /\ ProductInv(t) /\ MatmulStep(t)
  BY DEF MInv, MatmulStep
<1>2. /\ matmul' = matmul /\ N' = N /\ slices' = slices /\ slice' = slice /\ row' = row
      /\ k' = k /\ C' = C /\ col'[t] = col[t] + matmul.width
      /\ mpc[t] = "store" /\ mpc'[t] = "block" /\ stored[t] = BlockWidth(t) /\ matmul.buffered
  <2>1. stored[t] >= BlockWidth(t) /\ stored[t] <= BlockWidth(t) /\ matmul.buffered
    BY <1>1 DEF NextBlock, CountersInv
  <2>2. stored[t] \in Int /\ BlockWidth(t) \in Int
    BY <1>1, CounterTypes DEF BlockWidth
  <2> QED BY <1>1, <2>1, <2>2 DEF NextBlock, Goto, MTypeOK
<1>3. Reached(t)' = Reached(t)
  <2>1. /\ RowStart(t) \in Nat /\ col[t] \in Nat /\ N \in Nat /\ matmul.width \in Nat \ {0}
        /\ col[t] < N
    BY <1>1, <1>2, PlaceOf, CounterTypes DEF CountersInv
  <2>2. Reached(t) = RowStart(t) + col[t] + stored[t]
    BY <1>2 DEF Reached
  <2>3. Reached(t)' = RowStart(t) + (IF col'[t] < N THEN col'[t] ELSE N)
    BY <1>2 DEF Reached, RowStart, SliceStart
  <2> QED BY <1>2, <2>1, <2>2, <2>3 DEF BlockWidth
<1>4. CountersInv(t)'
  BY <1>1, <1>2, CounterTypes DEF CountersInv
<1>5. ProductInv(t)'
  BY <1>1, <1>2, <1>3, ProductByCell DEF ProductInv
<1> QED BY <1>2, <1>4, <1>5 DEF HalfInv

LEMMA MatmulStarts == MInit => MInv
<1> SUFFICES ASSUME MInit PROVE MInv
  OBVIOUS
<1>1. matmul \in MatmulSet /\ <<N, slices>> \in Shapes[matmul]
  <2>1. PICK shape \in Shapes[matmul] : N = shape[1] /\ slices = shape[2]
    BY DEF MInit
  <2>2. shape \in (Nat \ {0}) \X Nat
    BY <2>1, MatmulAssumption DEF MInit
  <2>3. shape = <<N, slices>>
    BY <2>1, <2>2
  <2> QED BY <2>1, <2>3 DEF MInit
<1>2. N \in Nat \ {0} /\ slices \in Nat /\ Len(matmul.steps) \in Nat \ {0}
  <2>1. Shapes[matmul] \subseteq (Nat \ {0}) \X Nat
    BY <1>1, MatmulAssumption
  <2>2. matmul.steps \in Seq(Nat \ {0}) /\ Len(matmul.steps) > 0
    BY <1>1, MatmulAssumption
  <2> QED BY <1>1, <2>1, <2>2
<1>3. \A t \in MatmulParts : /\ RangeBegin(slices, Team, t) \in Nat
                             /\ RangeEnd(slices, Team, t) \in Nat
                             /\ RangeBegin(slices, Team, t) < RangeEnd(slices, Team, t)
  BY <1>2, MatmulAssumption, RangeOf DEF MatmulParts
<1>4. MTypeOK
  BY <1>1, <1>2, <1>3 DEF MInit, MTypeOK
<1>5. ASSUME NEW t \in MatmulParts PROVE CountersInv(t) /\ ProductInv(t) /\ HalfInv(t)
  <2>1. mpc[t] = "slice" /\ slice[t] = RangeBegin(slices, Team, t) /\ row[t] = 0 /\ k[t] = 0
    BY DEF MInit
  <2>2. CountersInv(t)
    BY <1>2, <1>3, <2>1 DEF CountersInv
  <2>3. Reached(t) = RangeBegin(slices, Team, t) * (N * N)
    BY <2>1 DEF Reached, SliceStart
  <2>4. /\ RangeBegin(slices, Team, t) * (N * N) \in Nat
        /\ RangeEnd(slices, Team, t) * (N * N) \in Nat
    BY <1>3, <1>4, MatmulArguments, Times
  <2>5. \A g \in CellsOf(t) : ~ (g < Reached(t))
    BY <1>4, <2>3, <2>4, CellsAre
  <2> QED BY <2>1, <2>2, <2>5 DEF ProductInv, HalfInv
<1> QED BY <1>4, <1>5 DEF MInv

LEMMA MatmulNext == MInv /\ [MNext]_matmulVars => MInv'
<1>1. ASSUME MInv, NEW t \in MatmulParts, MatmulStep(t) PROVE MInv'
  <2>1. MTypeOK' /\ MatmulParts' = MatmulParts
    BY <1>1, MatmulTypes DEF MInv
  <2>2. CountersInv(t)' /\ ProductInv(t)' /\ HalfInv(t)'
    BY <1>1, SliceKeeps, MRowKeeps, TermsKeeps, UpdateKeeps, BlockKeeps, SumKeeps, ReadByteKeeps,
       StoreKeeps, NextBlockKeeps DEF MatmulStep
  <2>3. \A u \in MatmulParts \ {t} : CountersInv(u)' /\ ProductInv(u)' /\ HalfInv(u)'
    BY <1>1, OthersKeep
  <2> QED BY <2>1, <2>2, <2>3 DEF MInv
<1>2. ASSUME MInv, UNCHANGED matmulVars PROVE MInv'
  BY <1>2 DEF matmulVars, MInv, MTypeOK, MatmulParts, CountersInv, BlockWidth, ProductInv, CellsOf,
              SliceCells, SharedByte, Reached, RowStart, SliceStart, TermsSoFar, HalfInv, CellAt
<1> QED BY <1>1, <1>2 DEF MNext

\* The counters, the sums and the cells of every thread are as they should be at every step.
THEOREM ProductInvariant == MSpec => []MInv
  BY MatmulStarts, MatmulNext, PTL DEF MSpec

\* For every matmul kernel, every size, every number of slices and of threads: a thread that
\* has returned leaves in each of its cells every term exactly once and nothing else, except
\* in a packed byte that it shares with another thread.
THEOREM ProductsAreExact == MSpec => []ProductsExact
<1>1. MInv => ProductsExact
  <2> SUFFICES ASSUME MInv, NEW t \in MatmulParts, mpc[t] = "returned",
                      NEW g \in CellsOf(t), ~ SharedByte(t, g)
               PROVE  C[g] = 0 .. N - 1
    BY DEF ProductsExact
  <2>1. MTypeOK /\ CountersInv(t) /\ ProductInv(t)
    BY DEF MInv
  <2>2. Reached(t) = RangeEnd(slices, Team, t) * (N * N)
    BY <2>1 DEF Reached, SliceStart, CountersInv
  <2>3. /\ RangeEnd(slices, Team, t) * (N * N) \in Nat
        /\ RangeBegin(slices, Team, t) * (N * N) \in Nat
    BY <2>1, SlicesOf, MatmulArguments, Times
  <2>4. g < Reached(t)
    BY <2>1, <2>2, <2>3, CellsAre
  <2> QED BY <2>1, <2>4 DEF ProductInv
<1> QED BY <1>1, ProductInvariant, PTL

=============================================================================
