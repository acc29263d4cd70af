------------------------------ MODULE GridKernels ------------------------------
(***************************************************************************)
(* One parallel sweep over a grid: parallel_for_z gives every thread a     *)
(* range of planes (ZPartition) and every thread runs the same kernel on   *)
(* its range, all of them writing one array C.  A step is one iteration of *)
(* one of the kernel's loops.  Cells are triples <<x, y, z>>; Idx is where *)
(* the code keeps them.                                                    *)
(***************************************************************************)
EXTENDS KernelTable, ZPartition, FiniteSets

CONSTANTS
  KernelSet,   \* the kernels that are run
  Widths,      \* for each kernel the values of Nx
  Heights,     \* the values of Ny
  Depths,      \* the values of Nz
  Threads      \* the number of threads of the pool

\* What every kernel of the table is: its loops finish the row.
IsKernel(k) ==
  /\ k.border \in {0, 1}
  /\ k.partial \in BOOLEAN
  /\ k.steps \in Seq(Nat \ {0})
  /\ Len(k.steps) > 0
  /\ k.partial \/ k.steps[Len(k.steps)] = 1
  /\ k.reads \subseteq (IF k.border = 0 THEN Centre ELSE SevenPoints)

ASSUME KernelAssumption == \A k \in KernelSet : IsKernel(k)
ASSUME GridAssumption ==
  /\ Widths \in [KernelSet -> SUBSET (Nat \ {0})]
  /\ Heights \subseteq Nat \ {0}
  /\ Depths \subseteq Nat \ {0}
  /\ Threads \in Nat \ {0}

VARIABLES
  kernel, Nx, Ny, Nz,    \* the arguments of the sweep
  pc,                    \* per thread: "plane", "row", "cells", "returned"
  x, y, z,               \* per thread: its loop counters
  loop,                  \* per thread: which loop over x it is in
  written                \* per thread: the cells it has written

vars == <<kernel, Nx, Ny, Nz, pc, x, y, z, loop, written>>

Idx(c) == c[3] * (Ny * Nx) + c[2] * Nx + c[1]

Grid == (0 .. Nx - 1) \X (0 .. Ny - 1) \X (0 .. Nz - 1)

Parts == 0 .. NumRanges(Nz, Threads) - 1

\* Fault: the range is not clamped to the inner planes.
ZStop_NoClamp(t) == RangeEnd(Nz, Threads, t)
\* Fault: the end of the range is taken as a plane of the range.
ZStop_Inclusive(t) ==
  IF RangeEnd(Nz, Threads, t) + 1 > Nz - kernel.border
  THEN Nz - kernel.border ELSE RangeEnd(Nz, Threads, t) + 1

\* The first and the last plane are left out by a kernel with a border.
ZStart(t) ==
  IF RangeBegin(Nz, Threads, t) < kernel.border
  THEN kernel.border ELSE RangeBegin(Nz, Threads, t)
ZStop(t) ==
  IF RangeEnd(Nz, Threads, t) > Nz - kernel.border
  THEN Nz - kernel.border ELSE RangeEnd(Nz, Threads, t)

Init ==
  /\ kernel \in KernelSet
  /\ Nx \in Widths[kernel] /\ Ny \in Heights /\ Nz \in Depths
  /\ pc = [t \in Parts |-> "plane"]
  /\ x = [t \in Parts |-> 0]
  /\ y = [t \in Parts |-> 0]
  /\ z = [t \in Parts |-> ZStart(t)]
  /\ loop = [t \in Parts |-> 1]
  /\ written = [t \in Parts |-> {}]

Plane(t) ==
  /\ pc[t] = "plane"
  /\ IF z[t] < ZStop(t)
     THEN /\ pc' = [pc EXCEPT ![t] = "row"]
          /\ y' = [y EXCEPT ![t] = kernel.border]
     ELSE /\ pc' = [pc EXCEPT ![t] = "returned"]
          /\ UNCHANGED y
  /\ UNCHANGED <<kernel, Nx, Ny, Nz, x, z, loop, written>>

Row(t) ==
  /\ pc[t] = "row"
  /\ IF y[t] < Ny - kernel.border
     THEN /\ pc' = [pc EXCEPT ![t] = "cells"]
          /\ x' = [x EXCEPT ![t] = kernel.border]
          /\ loop' = [loop EXCEPT ![t] = 1]
          /\ UNCHANGED z
     ELSE /\ pc' = [pc EXCEPT ![t] = "plane"]
          /\ z' = [z EXCEPT ![t] = @ + 1]
          /\ UNCHANGED <<x, loop>>
  /\ UNCHANGED <<kernel, Nx, Ny, Nz, y, written>>

RowEnd == Nx - kernel.border

\* Whether the loop goes on, and how many cells its iteration at x takes.
Fits(t) ==
  IF kernel.partial
  THEN x[t] < RowEnd
  ELSE x[t] + kernel.steps[loop[t]] <= RowEnd
Width(t) ==
  IF x[t] + kernel.steps[loop[t]] <= RowEnd THEN kernel.steps[loop[t]]
  ELSE IF kernel.partial THEN RowEnd - x[t]
  ELSE kernel.steps[loop[t]]

Touched(t) == {<<x[t] + i, y[t], z[t]>> : i \in 0 .. Width(t) - 1}
ReadsOf(t) ==
  {<<c[1] + d[1], c[2] + d[2], c[3] + d[3]>> : c \in Touched(t), d \in kernel.reads}

\* Fault: the scalar loop begins one cell after the vectors.
Cells_SkipsOne(t) ==
  /\ pc[t] = "cells"
  /\ Fits(t)
  /\ written' = [written EXCEPT ![t] = @ \cup Touched(t)]
  /\ x' = [x EXCEPT ![t] = @ + Width(t) + (IF Width(t) > 1 THEN 1 ELSE 0)]
  /\ UNCHANGED <<kernel, Nx, Ny, Nz, pc, y, z, loop>>
Cells(t) ==
  /\ pc[t] = "cells"
  /\ Fits(t)
  /\ written' = [written EXCEPT ![t] = @ \cup Touched(t)]
  /\ x' = [x EXCEPT ![t] = @ + Width(t)]
  /\ UNCHANGED <<kernel, Nx, Ny, Nz, pc, y, z, loop>>

\* Fault: the row is not counted.
NextLoop_SameRow(t) ==
  /\ pc[t] = "cells"
  /\ ~Fits(t)
  /\ IF loop[t] < Len(kernel.steps)
     THEN loop' = [loop EXCEPT ![t] = @ + 1] /\ UNCHANGED pc
     ELSE pc' = [pc EXCEPT ![t] = "row"] /\ UNCHANGED loop
  /\ UNCHANGED <<kernel, Nx, Ny, Nz, x, y, z, written>>

NextLoop(t) ==
  /\ pc[t] = "cells"
  /\ ~Fits(t)
  /\ IF loop[t] < Len(kernel.steps)
     THEN /\ loop' = [loop EXCEPT ![t] = @ + 1]
          /\ UNCHANGED <<pc, y>>
     ELSE /\ pc' = [pc EXCEPT ![t] = "row"]
          /\ y' = [y EXCEPT ![t] = @ + 1]
          /\ UNCHANGED loop
  /\ UNCHANGED <<kernel, Nx, Ny, Nz, x, z, written>>

Finished == (\A t \in Parts : pc[t] = "returned") /\ UNCHANGED vars

Step(t) == Plane(t) \/ Row(t) \/ Cells(t) \/ NextLoop(t)
Next == (\E t \in Parts : Step(t)) \/ Finished

Spec == Init /\ [][Next]_vars
\* A thread of the pool that has a range runs it to its end.
FairSpec == Spec /\ WF_vars(\E t \in Parts : Step(t))

-----------------------------------------------------------------------------
(* Properties                                                                *)

\* The cells that the sweep is for: all of the grid, or its inner cells.
Region ==
  {c \in Grid : /\ c[1] \in kernel.border .. Nx - 1 - kernel.border
                /\ c[2] \in kernel.border .. Ny - 1 - kernel.border
                /\ c[3] \in kernel.border .. Nz - 1 - kernel.border}

\* Two threads never write one cell, whatever the widths and the ranges: nothing
\* orders their writes to C.
RaceFree == \A t, u \in Parts : t # u => written[t] \cap written[u] = {}

\* When all threads have returned every cell of the region has been written and no
\* other: the vector loops, their remainders, the clamps at the border and the
\* ranges of the threads leave no gap between them.
CoversRegion ==
  (\A t \in Parts : pc[t] = "returned") => UNION {written[t] : t \in Parts} = Region

\* What an iteration reads and writes is inside the arrays, all lanes of the vector
\* and all neighbours included.
InsideArrays ==
  \A t \in Parts :
    pc[t] = "cells" /\ Fits(t) =>
      /\ Touched(t) \subseteq Grid
      /\ ReadsOf(t) \subseteq Grid

\* Every sweep ends.
SweepEnds == <>(\A t \in Parts : pc[t] = "returned")

-----------------------------------------------------------------------------
\* The cells of its region that a thread has behind it.
RegionOf(t) == {c \in Region : ZStart(t) <= c[3] /\ c[3] < ZStop(t)}
Behind(t, c) ==
  CASE pc[t] = "plane"    -> c[3] < z[t]
    [] pc[t] = "row"      -> c[3] < z[t] \/ (c[3] = z[t] /\ c[2] < y[t])
    [] pc[t] = "cells"    -> \/ c[3] < z[t]
                             \/ c[3] = z[t] /\ c[2] < y[t]
                             \/ c[3] = z[t] /\ c[2] = y[t] /\ c[1] < x[t]
    [] pc[t] = "returned" -> TRUE

\* A thread has written exactly what is behind it: nothing is skipped, and what is
\* written again later would be ahead of it.
Frontier == \A t \in Parts : written[t] = {c \in RegionOf(t) : Behind(t, c)}

TypeOK ==
  /\ kernel \in KernelSet /\ Nx \in Widths[kernel] /\ Ny \in Heights /\ Nz \in Depths
  /\ pc \in [Parts -> {"plane", "row", "cells", "returned"}]
  /\ x \in [Parts -> Nat] /\ y \in [Parts -> Nat] /\ z \in [Parts -> Nat]
  /\ loop \in [Parts -> 1 .. Len(kernel.steps)]
  /\ DOMAIN written = Parts

\* Where the counters of the loops are.
Counters ==
  \A t \in Parts :
    /\ z[t] >= ZStart(t)
    /\ pc[t] \in {"row", "cells"} => z[t] < ZStop(t) /\ y[t] >= kernel.border
    /\ pc[t] = "cells" => y[t] < Ny - kernel.border /\ x[t] >= kernel.border

IInv == TypeOK /\ Counters /\ Frontier
=============================================================================
