---------------------------- MODULE ZPartitionLoop ----------------------------
(***************************************************************************)
(* compute_ranges(total, num_parts) of threading.cpp; the member functions *)
(* partition_z of both pools have the same body.  One step is one          *)
(* iteration of the loop.                                                  *)
(***************************************************************************)
EXTENDS ZPartition, Sequences

CONSTANTS
  Totals,   \* the totals it is called with
  PartCounts     \* the numbers of parts it is called with

ASSUME PartitionAssumption == Totals \subseteq Nat /\ PartCounts \subseteq Nat

VARIABLES
  total,      \* the arguments
  parts,
  ppc,         \* "enter", "loop" or "returned"
  i,
  current,    \* where the next range begins
  ranges      \* the ranges emitted so far

partVars == <<total, parts, ppc, i, current, ranges>>

PInit ==
  /\ total \in Totals
  /\ parts \in PartCounts
  /\ ppc = "enter"
  /\ i = 0
  /\ current = 0
  /\ ranges = << >>

Enter ==
  /\ ppc = "enter"
  /\ ppc' = IF parts = 0 \/ total = 0 THEN "returned" ELSE "loop"
  /\ UNCHANGED <<total, parts, i, current, ranges>>

PartSize == RangeSize(total, parts, i)

\* Fault: the next range begins where this one began.
Emit_Overlaps ==
  /\ ranges' = Append(ranges, [begin |-> current, end |-> current + PartSize])
  /\ UNCHANGED current

Emit ==
  /\ ranges' = Append(ranges, [begin |-> current, end |-> current + PartSize])
  /\ current' = current + PartSize

\* An empty part is not emitted.
Iterate ==
  /\ ppc = "loop"
  /\ i < parts
  /\ IF PartSize > 0 THEN Emit ELSE UNCHANGED <<current, ranges>>
  /\ i' = i + 1
  /\ UNCHANGED <<total, parts, ppc>>

Return ==
  /\ ppc = "loop"
  /\ i = parts
  /\ ppc' = "returned"
  /\ UNCHANGED <<total, parts, i, current, ranges>>

PFinished == ppc = "returned" /\ UNCHANGED partVars

PNext == Enter \/ Iterate \/ Return \/ PFinished

PSpec == PInit /\ [][PNext]_partVars

-----------------------------------------------------------------------------
(* Properties                                                                *)

\* The variables of the loop keep their types: no range ends after the total.
PTypeOK ==
  /\ total \in Nat
  /\ parts \in Nat
  /\ ppc \in {"enter", "loop", "returned"}
  /\ i \in 0 .. parts
  /\ current \in 0 .. total
  /\ ranges \in Seq([begin : Nat, end : Nat])

\* "Partitions [0, total) into num_parts ranges without overlap": the ranges are
\* not empty, each begins where the one before it ends, and together they go from
\* 0 to total.
Tiling ==
  ppc = "returned" /\ parts > 0 /\ total > 0 =>
    /\ Len(ranges) > 0
    /\ ranges[1].begin = 0
    /\ ranges[Len(ranges)].end = total
    /\ \A k \in 1 .. Len(ranges) : ranges[k].begin < ranges[k].end
    /\ \A k \in 1 .. Len(ranges) - 1 : ranges[k].end = ranges[k + 1].begin

\* No thread is given more than one plane more than another.
Balanced ==
  \A j, k \in 1 .. Len(ranges) :
    ranges[j].end - ranges[j].begin <= ranges[k].end - ranges[k].begin + 1

\* The loop computes the closed forms that the models of the pools use.
ClosedForm ==
  ppc = "returned" /\ parts > 0 =>
    /\ Len(ranges) = NumRanges(total, parts)
    /\ \A k \in 1 .. Len(ranges) :
         ranges[k] = [begin |-> RangeBegin(total, parts, k - 1),
                      end   |-> RangeEnd(total, parts, k - 1)]

-----------------------------------------------------------------------------
\* Inside the loop the first i threads have been served, those with a plane.
LoopInv ==
  ppc = "loop" =>
    /\ parts > 0
    /\ total > 0
    /\ Len(ranges) = NumRanges(total, IF i < parts THEN i ELSE parts)
    /\ current = RangeBegin(total, parts, i)
RangesInv ==
  \A k \in 1 .. Len(ranges) :
    /\ k <= parts
    /\ ranges[k] = [begin |-> RangeBegin(total, parts, k - 1),
                    end   |-> RangeEnd(total, parts, k - 1)]
    /\ ranges[k].begin < ranges[k].end
EnterInv == ppc = "enter" => i = 0 /\ current = 0 /\ ranges = << >>
ReturnInv ==
  ppc = "returned" =>
    IF parts = 0 \/ total = 0 THEN ranges = << >> ELSE Len(ranges) = NumRanges(total, parts)

PInv == PTypeOK /\ EnterInv /\ LoopInv /\ RangesInv /\ ReturnInv
=============================================================================
