------------------------------ MODULE ZPartition ------------------------------
(***************************************************************************)
(* How a parallel loop over Nz z-planes is cut into ranges for n threads,  *)
(* in closed form: the ranges that the loop of partition_z and of          *)
(* compute_ranges computes.  ZPartitionLoop is that loop; its invariant    *)
(* says that the two agree.  A range is [begin, end), half open.           *)
(***************************************************************************)
EXTENDS Integers

BaseSize(Nz, n)  == Nz \div n
Remainder(Nz, n) == Nz % n

\* Planes given to thread i (from 0): the first Remainder threads take one more.
RangeSize(Nz, n, i) == BaseSize(Nz, n) + (IF i < Remainder(Nz, n) THEN 1 ELSE 0)

NumRanges(Nz, n) == IF Nz < n THEN Nz ELSE n

RangeBegin(Nz, n, i) ==
  i * BaseSize(Nz, n) + (IF i < Remainder(Nz, n) THEN i ELSE Remainder(Nz, n))

RangeEnd(Nz, n, i) == RangeBegin(Nz, n, i) + RangeSize(Nz, n, i)
=============================================================================
