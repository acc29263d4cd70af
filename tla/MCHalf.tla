------------------------------- MODULE MCHalf ---------------------------------
(* All denormals and, of the other halves, those at the ends of the exponents.   *)
EXTENDS HalfNumbers

MCHalfSet ==
  1 .. 1023 \cup
  {32768 * s + 1024 * e + m : s \in {0, 1}, e \in 0 .. 31, m \in {0, 1, 512, 1022, 1023}}

\* The 13 bits that a half has no room for, around the middle between two halves.
MCFloatSet ==
  {[sign |-> s, e |-> e, m |-> 8192 * top + low] :
     s \in {0, 1}, e \in {0, 1, 101, 102, 103, 112, 113, 114, 141, 142, 143, 254, 255},
     top \in {0, 1, 2, 1022, 1023}, low \in {0, 1, 4095, 4096, 4097, 8191}}
=============================================================================
