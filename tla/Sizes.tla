------------------------------- MODULE Sizes -------------------------------
(***************************************************************************)
(* The arithmetic on grid sizes: Size3D of types.hpp, the memory check of   *)
(* memory_validator.cpp and the automatic choice of auto_size.cpp.  A       *)
(* size_t holds 0 .. SizeMax; products are reduced to that width, after the *)
(* tests that the code makes.  Widths of elements are counted in half       *)
(* bytes, so that the four bits of FP4 are a whole number.                  *)
(***************************************************************************)
EXTENDS Integers, FiniteSetsExt

CONSTANTS
    SizeMax,      \* SIZE_MAX
    MaxDim,       \* the largest dimension that is chosen automatically (500)
    MinElements,  \* AutoSizeConfig::min_elements (512)
    DefaultSize   \* Config::size (128x128x128)

ASSUME SizesAssumption ==
    /\ SizeMax \in Nat \ {0}
    /\ MaxDim \in Nat /\ MaxDim >= 4
    /\ MinElements \in Nat
    /\ DefaultSize \in Nat \X Nat \X Nat

Wrap(n) == n % (SizeMax + 1)

\* An exact product, which no size_t need hold: for the tests and properties.
Volume(size) == size[1] * size[2] * size[3]

\* "Nz > SIZE_MAX / xy" and its like, for positive xy.
ProductOverflows(x, y) == y > SizeMax \div x

TotalOverflows(size) ==
    /\ 0 \notin {size[1], size[2], size[3]}
    /\ \/ ProductOverflows(size[1], size[2])
       \/ ProductOverflows(Wrap(size[1] * size[2]), size[3])

Total(size) == Wrap(Wrap(size[1] * size[2]) * size[3])

HalfBytes(precision) ==
    CASE precision \in {"double", "fp64"} -> 16
      [] precision = "float" -> 8
      [] precision = "fp16"  -> 4
      [] precision = "int8"  -> 2
      [] precision = "fp4"   -> 1

BytesOverflow(size, precision) ==
    /\ precision # "fp4"
    /\ Total(size) > SizeMax \div (HalfBytes(precision) \div 2)

\* Two FP4 elements share a byte; the last byte may be half empty.
TotalBytes(size, precision) ==
    IF precision = "fp4" THEN (Total(size) + 1) \div 2
    ELSE Wrap(Total(size) * (HalfBytes(precision) \div 2))

NumArrays == 3

\* A fault: the product with the number of arrays is not tested.
RequiredOverflows_TwoTests(size, precision) ==
    TotalOverflows(size) \/ BytesOverflow(size, precision)

RequiredOverflows(size, precision) ==
    \/ TotalOverflows(size)
    \/ BytesOverflow(size, precision)
    \/ TotalBytes(size, precision) > SizeMax \div NumArrays

RequiredBytes(size, precision) == Wrap(NumArrays * TotalBytes(size, precision))

\* No memory found means that it could not be read.
Sufficient(size, precision, available) ==
    available = 0 \/ available >= RequiredBytes(size, precision)

\* The largest dimension whose cube stays within total, but 4 at least.
CubicDimension(total) ==
    Max({4} \cup {d \in 1 .. MaxDim : d * d * d <= total})

\* Half of the memory is left free.  available is not zero: if nothing can be
\* read, the code takes the whole memory, or else 4 GB.
AutoSize(precision, available) ==
    LET safe     == available \div 2
        fitting  == (2 * safe) \div (HalfBytes(precision) * NumArrays)
        limit    == MaxDim * MaxDim * MaxDim
        elements == Max({Min({fitting, limit}), MinElements})
        dim      == CubicDimension(elements)
    IN  <<dim, dim, dim>>
=============================================================================
