----------------------------- MODULE MatmulKernels -----------------------------
(***************************************************************************)
(* The matrix multiplications: parallel_for_z gives every thread a range   *)
(* of slices, and for each of its slices a thread computes the N x N       *)
(* product C[z] = A[z] B[z].  The arithmetic is left out: a cell of C is   *)
(* the set of the k whose A[i,k] B[k,j] have been added to it.             *)
(*                                                                         *)
(* There are two shapes.  A kernel "in place" sets the slice to zero and   *)
(* adds to the cells of C; a "buffered" one sums up the cells of a block   *)
(* of the row elsewhere and stores them at the end.  The FP4 kernel stores *)
(* into packed bytes: a store reads the byte and writes it back with one   *)
(* of its halves replaced.                                                 *)
(***************************************************************************)
EXTENDS KernelTable, ZPartition, FiniteSets

CONSTANTS
  MatmulSet,   \* the kernels that are run
  Shapes,      \* for each kernel the values of N and Nz
  Team         \* the number of threads of the pool

\* clears: the slice is set to zero first.  width: the cells of a block, for a
\* buffered kernel.  steps: the widths of the loops over j of a kernel in place,
\* of those over k of a buffered one; the last one is 1.
InPlace(isa, steps) ==
  [isa |-> isa, buffered |-> FALSE, clears |-> TRUE, width |-> 1, steps |-> steps,
   packed |-> FALSE]
Buffered(isa, width, steps) ==
  [isa |-> isa, buffered |-> TRUE, clears |-> FALSE, width |-> width, steps |-> steps,
   packed |-> FALSE]

kernel_matmul3d == Buffered("scalar", 1, <<1>>)
kernel_matmul3d_typed == Buffered("scalar", 1, <<1>>)
kernel_matmul3d_typed_half == Buffered("scalar", 1, <<1>>)
kernel_matmul3d_typed_int8 == Buffered("scalar", 1, <<1>>)
kernel_matmul3d_fp4 ==
  [Buffered("scalar", 4 * FP4_SIMD_CHUNK_SIZE, <<1>>) EXCEPT !.packed = TRUE]
kernel_matmul3d_scalar_int8 == InPlace("scalar", <<1>>)
kernel_matmul3d_neon_fp16 == InPlace("neonfp16", <<16, 8, 1>>)
kernel_matmul3d_vnni_int8 == [Buffered("avx512vnni", 1, <<64, 1>>) EXCEPT !.clears = TRUE]
kernel_matmul3d_avx512_fp16 == InPlace("avx512fp16", <<32, 1>>)

MatmulKernels_all ==
  {kernel_matmul3d, kernel_matmul3d_typed, kernel_matmul3d_typed_half,
   kernel_matmul3d_typed_int8, kernel_matmul3d_fp4, kernel_matmul3d_scalar_int8,
   kernel_matmul3d_neon_fp16, kernel_matmul3d_vnni_int8, kernel_matmul3d_avx512_fp16}

ASSUME MatmulAssumption ==
  /\ \A k \in MatmulSet :
       /\ k.width \in Nat \ {0}
       /\ k.steps \in Seq(Nat \ {0}) /\ Len(k.steps) > 0 /\ k.steps[Len(k.steps)] = 1
       /\ k.buffered \in BOOLEAN /\ k.clears \in BOOLEAN /\ k.packed \in BOOLEAN
       /\ k.packed => k.buffered
       /\ ~ k.buffered => k.clears
  /\ Shapes \in [MatmulSet -> SUBSET ((Nat \ {0}) \X Nat)]
  /\ Team \in Nat \ {0}

VARIABLES
  matmul, N, slices,   \* the arguments
  mpc,                 \* per thread: the loop it is in
  slice, row, col, k,  \* per thread: its loop counters z, i, j and k
  step,                \* per thread: which of the widths it is at
  sum,                 \* per thread: the sums of the block, the same terms in all cells
  stored,              \* per thread: the cells of the block already stored
  half,                \* per thread: the half of the byte that it keeps
  C                    \* what has been added to each cell

matmulVars ==
  <<matmul, N, slices, mpc, slice, row, col, k, step, sum, stored, half, C>>

\* What a cell holds before the kernel, and what it holds if a term came twice.
Old   == -1
Twice == -2
Adding(cell, terms) ==
  cell \cup terms \cup (IF cell \cap terms # {} THEN {Twice} ELSE {})

MatmulParts == 0 .. NumRanges(slices, Team) - 1
SliceCells(z) == z * (N * N) .. z * (N * N) + N * N - 1
CellAt(t, j) == slice[t] * (N * N) + row[t] * N + j

\* The other cell in a cell's byte.
Neighbour(g) == IF g % 2 = 0 THEN g + 1 ELSE g - 1

MInit ==
  /\ matmul \in MatmulSet
  /\ \E shape \in Shapes[matmul] : N = shape[1] /\ slices = shape[2]
  /\ mpc = [t \in MatmulParts |-> "slice"]
  /\ slice = [t \in MatmulParts |-> RangeBegin(slices, Team, t)]
  /\ row = [t \in MatmulParts |-> 0]
  /\ col = [t \in MatmulParts |-> 0]
  /\ k = [t \in MatmulParts |-> 0]
  /\ step = [t \in MatmulParts |-> 1]
  /\ sum = [t \in MatmulParts |-> {}]
  /\ stored = [t \in MatmulParts |-> 0]
  /\ half = [t \in MatmulParts |-> {}]
  /\ C = [g \in 0 .. slices * (N * N) - 1 |-> {Old}]

Goto(t, l) == mpc' = [mpc EXCEPT ![t] = l]

\* Fault: the slice is not set to zero.
Slice_NotCleared(t) ==
  /\ mpc[t] = "slice"
  /\ IF slice[t] < RangeEnd(slices, Team, t)
     THEN row' = [row EXCEPT ![t] = 0] /\ Goto(t, "row")
     ELSE Goto(t, "returned") /\ UNCHANGED row
  /\ UNCHANGED <<matmul, N, slices, slice, col, k, step, sum, stored, half, C>>

Slice(t) ==
  /\ mpc[t] = "slice"
  /\ IF slice[t] < RangeEnd(slices, Team, t)
     THEN /\ row' = [row EXCEPT ![t] = 0]
          /\ C' = [g \in DOMAIN C |->
                    IF matmul.clears /\ g \in SliceCells(slice[t]) THEN {} ELSE C[g]]
          /\ Goto(t, "row")
     ELSE Goto(t, "returned") /\ UNCHANGED <<row, C>>
  /\ UNCHANGED <<matmul, N, slices, slice, col, k, step, sum, stored, half>>

MRow(t) ==
  /\ mpc[t] = "row"
  /\ IF row[t] < N
     THEN /\ col' = [col EXCEPT ![t] = 0]
          /\ k' = [k EXCEPT ![t] = 0]
          /\ Goto(t, IF matmul.buffered THEN "block" ELSE "terms")
          /\ UNCHANGED slice
     ELSE /\ slice' = [slice EXCEPT ![t] = @ + 1]
          /\ Goto(t, "slice")
          /\ UNCHANGED <<col, k>>
  /\ UNCHANGED <<matmul, N, slices, row, step, sum, stored, half, C>>

NextRow(t) == row' = [row EXCEPT ![t] = @ + 1] /\ Goto(t, "row")

-----------------------------------------------------------------------------
(* In place: for each k, the loops over j.                                   *)

Terms(t) ==
  /\ mpc[t] = "terms"
  /\ IF k[t] < N
     THEN /\ col' = [col EXCEPT ![t] = 0]
          /\ step' = [step EXCEPT ![t] = 1]
          /\ Goto(t, "update")
          /\ UNCHANGED row
     ELSE NextRow(t) /\ UNCHANGED <<col, step>>
  /\ UNCHANGED <<matmul, N, slices, slice, k, sum, stored, half, C>>

Update(t) ==
  /\ mpc[t] = "update"
  /\ IF col[t] + matmul.steps[step[t]] <= N
     THEN /\ C' = [g \in DOMAIN C |->
                    IF \E j \in col[t] .. col[t] + matmul.steps[step[t]] - 1 : g = CellAt(t, j)
                    THEN Adding(C[g], {k[t]}) ELSE C[g]]
          /\ col' = [col EXCEPT ![t] = @ + matmul.steps[step[t]]]
          /\ UNCHANGED <<mpc, k, step>>
     ELSE IF step[t] < Len(matmul.steps)
     THEN step' = [step EXCEPT ![t] = @ + 1] /\ UNCHANGED <<mpc, k, col, C>>
     ELSE /\ k' = [k EXCEPT ![t] = @ + 1]
          /\ Goto(t, "terms")
          /\ UNCHANGED <<step, col, C>>
  /\ UNCHANGED <<matmul, N, slices, slice, row, sum, stored, half>>

-----------------------------------------------------------------------------
(* Buffered: for each block of the row the sums over k, then the stores.     *)

BlockWidth(t) == IF col[t] + matmul.width < N THEN matmul.width ELSE N - col[t]

Block(t) ==
  /\ mpc[t] = "block"
  /\ IF col[t] < N
     THEN /\ sum' = [sum EXCEPT ![t] = {}]
          /\ k' = [k EXCEPT ![t] = 0]
          /\ step' = [step EXCEPT ![t] = 1]
          /\ Goto(t, "sum")
          /\ UNCHANGED row
     ELSE NextRow(t) /\ UNCHANGED <<sum, k, step>>
  /\ UNCHANGED <<matmul, N, slices, slice, col, stored, half, C>>

Sum(t) ==
  /\ mpc[t] = "sum"
  /\ IF k[t] + matmul.steps[step[t]] <= N
     THEN /\ sum' = [sum EXCEPT ![t] =
                       Adding(@, k[t] .. k[t] + matmul.steps[step[t]] - 1)]
          /\ k' = [k EXCEPT ![t] = @ + matmul.steps[step[t]]]
          /\ UNCHANGED <<mpc, step, stored>>
     ELSE IF step[t] < Len(matmul.steps)
     THEN step' = [step EXCEPT ![t] = @ + 1] /\ UNCHANGED <<mpc, sum, k, stored>>
     ELSE /\ stored' = [stored EXCEPT ![t] = 0]
          /\ Goto(t, "store")
          /\ UNCHANGED <<sum, k, step>>
  /\ UNCHANGED <<matmul, N, slices, slice, row, col, half, C>>

\* A store into packed bytes first reads the byte (FP4Array::set).
ReadByte(t) ==
  /\ mpc[t] = "store"
  /\ matmul.packed
  /\ stored[t] < BlockWidth(t)
  /\ LET other == Neighbour(CellAt(t, col[t] + stored[t]))
     IN  half' = [half EXCEPT ![t] = IF other \in DOMAIN C THEN C[other] ELSE {}]
  /\ Goto(t, "byte")
  /\ UNCHANGED <<matmul, N, slices, slice, row, col, k, step, sum, stored, C>>

WriteByte(t) ==
  /\ mpc[t] = "byte"
  /\ LET g == CellAt(t, col[t] + stored[t])
     IN  C' = [h \in DOMAIN C |->
                IF h = g THEN sum[t] ELSE IF h = Neighbour(g) THEN half[t] ELSE C[h]]
  /\ stored' = [stored EXCEPT ![t] = @ + 1]
  /\ Goto(t, "store")
  /\ UNCHANGED <<matmul, N, slices, slice, row, col, k, step, sum, half>>

StoreCell(t) ==
  /\ mpc[t] = "store"
  /\ ~ matmul.packed
  /\ stored[t] < BlockWidth(t)
  /\ C' = [C EXCEPT ![CellAt(t, col[t] + stored[t])] = sum[t]]
  /\ stored' = [stored EXCEPT ![t] = @ + 1]
  /\ UNCHANGED <<matmul, N, slices, mpc, slice, row, col, k, step, sum, half>>

NextBlock(t) ==
  /\ mpc[t] = "store"
  /\ stored[t] >= BlockWidth(t)
  /\ col' = [col EXCEPT ![t] = @ + matmul.width]
  /\ Goto(t, "block")
  /\ UNCHANGED <<matmul, N, slices, slice, row, k, step, sum, stored, half, C>>

MatmulStep(t) ==
  \/ Slice(t) \/ MRow(t) \/ Terms(t) \/ Update(t)
  \/ Block(t) \/ Sum(t) \/ ReadByte(t) \/ WriteByte(t) \/ StoreCell(t) \/ NextBlock(t)

MNext == \E t \in MatmulParts : MatmulStep(t)

MSpec == MInit /\ [][MNext]_matmulVars

-----------------------------------------------------------------------------
(* Properties                                                                *)

CellsOf(t) ==
  UNION {SliceCells(z) : z \in RangeBegin(slices, Team, t) .. RangeEnd(slices, Team, t) - 1}

\* A byte that holds cells of two threads: the last cell of a range and the first of
\* the next one, when the cells of a range are odd in number.  The stores of the two
\* threads into it are not ordered, and one of them may undo the other.
SharedByte(t, g) == matmul.packed /\ Neighbour(g) \in DOMAIN C \ CellsOf(t)

\* A thread that has returned leaves in each of its cells every term exactly once and
\* nothing of what was there before, whatever the other threads do meanwhile; the only
\* cells without that promise are those in a byte shared by two threads.
ProductsExact ==
  \A t \in MatmulParts : mpc[t] = "returned" =>
    \A g \in CellsOf(t) : SharedByte(t, g) \/ C[g] = 0 .. N - 1

-----------------------------------------------------------------------------
(* The inductive invariant behind ProductsExact                              *)

MTypeOK ==
  /\ matmul \in MatmulSet
  /\ <<N, slices>> \in Shapes[matmul]
  /\ mpc \in [MatmulParts -> {"slice", "row", "terms", "update", "block", "sum", "store",
                              "byte", "returned"}]
  /\ slice \in [MatmulParts -> Nat] /\ row \in [MatmulParts -> Nat]
  /\ col \in [MatmulParts -> Nat] /\ k \in [MatmulParts -> Nat]
  /\ step \in [MatmulParts -> 1 .. Len(matmul.steps)]
  /\ stored \in [MatmulParts -> Nat]
  /\ DOMAIN sum = MatmulParts /\ DOMAIN half = MatmulParts
  /\ DOMAIN C = 0 .. slices * (N * N) - 1

\* What the place of a thread says of its loop counters and of its block.
CountersInv(t) ==
  /\ slice[t] \in RangeBegin(slices, Team, t) .. RangeEnd(slices, Team, t)
  /\ row[t] <= N /\ k[t] <= N
  /\ mpc[t] \notin {"slice", "returned"} => slice[t] < RangeEnd(slices, Team, t)
  /\ mpc[t] = "returned" => slice[t] = RangeEnd(slices, Team, t)
  /\ mpc[t] \notin {"slice", "row", "returned"} => row[t] < N
  /\ mpc[t] \in {"terms", "update"} => ~ matmul.buffered
  /\ mpc[t] \in {"block", "sum", "store", "byte"} => matmul.buffered
  /\ mpc[t] = "update" => k[t] < N /\ col[t] <= N
  /\ mpc[t] \in {"sum", "store", "byte"} => col[t] < N
  /\ mpc[t] = "sum" => sum[t] = 0 .. k[t] - 1
  /\ mpc[t] \in {"store", "byte"} => sum[t] = 0 .. N - 1 /\ stored[t] <= BlockWidth(t)
  /\ mpc[t] = "byte" => matmul.packed /\ stored[t] < BlockWidth(t)

\* The first cell of the slice and of the row a thread is at, and the cells it has
\* finished: those of its own before this one.
SliceStart(t) == slice[t] * (N * N)
RowStart(t)   == SliceStart(t) + row[t] * N
Reached(t) ==
  CASE mpc[t] \in {"slice", "returned"}      -> SliceStart(t)
    [] mpc[t] \in {"row", "terms", "update"} -> RowStart(t)
    [] mpc[t] = "block"          -> RowStart(t) + (IF col[t] < N THEN col[t] ELSE N)
    [] mpc[t] = "sum"            -> RowStart(t) + col[t]
    [] mpc[t] \in {"store", "byte"} -> RowStart(t) + col[t] + stored[t]

\* The terms a kernel in place has added to cell g of the slice, not yet reached.
TermsSoFar(t, g) ==
  IF mpc[t] = "row" \/ g >= RowStart(t) + N THEN {}
  ELSE IF mpc[t] = "update" /\ g < RowStart(t) + col[t] THEN 0 .. k[t]
  ELSE 0 .. k[t] - 1

ProductInv(t) ==
  \A g \in CellsOf(t) : ~ SharedByte(t, g) =>
    /\ g < Reached(t) => C[g] = 0 .. N - 1
    /\ /\ ~ matmul.buffered
       /\ mpc[t] \in {"row", "terms", "update"}
       /\ g \in SliceCells(slice[t])
       /\ g >= Reached(t)
       => C[g] = TermsSoFar(t, g)

\* The half of a byte that a thread keeps, if it is its own, is as it was read.
HalfInv(t) ==
  mpc[t] = "byte" =>
    LET g == Neighbour(CellAt(t, col[t] + stored[t]))
    IN  g \in CellsOf(t) => half[t] = C[g]

MInv == MTypeOK /\ \A t \in MatmulParts : CountersInv(t) /\ ProductInv(t) /\ HalfInv(t)
=============================================================================
