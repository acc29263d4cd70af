------------------------------ MODULE FP4Numbers ------------------------------
(***************************************************************************)
(* FP4 (fp4.hpp): the two values that share a byte of an FP4Array or of an *)
(* fp4_packed.  The floats are integers, in units of 1 / (4 * Unit): every *)
(* finite float is one of them for some Unit.                              *)
(***************************************************************************)
EXTENDS Integers

CONSTANTS Unit, Reals   \* the floats that are stored

ASSUME FP4Assumption == Unit \in Nat \ {0} /\ Reals \subseteq Int

VARIABLES
  packed,   \* the byte
  held      \* for its low (0) and high (1) half the last value stored there

fp4Vars == <<packed, held>>

\* FP4_TO_FLOAT_TABLE without its signs, in quarters.
Magnitudes == <<0, 2, 4, 6, 8, 12, 16, 24>>
fp4_to_float(n) ==
  (IF n \div 8 = 1 THEN -1 ELSE 1) * (Unit * Magnitudes[(n % 8) + 1])

Size(r) == IF r < 0 THEN - r ELSE r

\* Fault: one of the limits is not in the middle.
Magnitude_Uneven(r) ==
  CASE r < Unit -> 0 [] Unit <= r /\ r < 3 * Unit -> 1
    [] 3 * Unit <= r /\ r < 5 * Unit -> 2 [] 5 * Unit <= r /\ r < 7 * Unit -> 3
    [] 7 * Unit <= r /\ r < 10 * Unit -> 4 [] 10 * Unit <= r /\ r < 15 * Unit -> 5
    [] 15 * Unit <= r /\ r < 20 * Unit -> 6 [] OTHER -> 7
Magnitude(r) ==
  CASE r < Unit -> 0 [] Unit <= r /\ r < 3 * Unit -> 1
    [] 3 * Unit <= r /\ r < 5 * Unit -> 2 [] 5 * Unit <= r /\ r < 7 * Unit -> 3
    [] 7 * Unit <= r /\ r < 10 * Unit -> 4 [] 10 * Unit <= r /\ r < 14 * Unit -> 5
    [] 14 * Unit <= r /\ r < 20 * Unit -> 6 [] OTHER -> 7

float_to_fp4(r) == (IF r < 0 THEN 8 ELSE 0) + Magnitude(Size(r))

fp4_extract(byte, i) == fp4_to_float(IF i = 1 THEN byte \div 16 ELSE byte % 16)

FInit == packed = 0 /\ held = [i \in {0, 1} |-> 0]

SetHalf(i, r) ==
  /\ packed' = IF i = 1 THEN (packed % 16) + 16 * float_to_fp4(r)
               ELSE 16 * (packed \div 16) + float_to_fp4(r)
  /\ held' = [held EXCEPT ![i] = r]

Fill(r) ==
  /\ packed' = 16 * float_to_fp4(r) + float_to_fp4(r)
  /\ held' = [i \in {0, 1} |-> r]

FNext == \E r \in Reals : Fill(r) \/ \E i \in {0, 1} : SetHalf(i, r)

FSpec == FInit /\ [][FNext]_fp4Vars

-----------------------------------------------------------------------------
\* Each half of a byte reads as one of the FP4 values that are nearest to what was last
\* stored there, whatever has been stored in the other half meanwhile.
NearestFP4 ==
  \A i \in {0, 1} : \A n \in 0 .. 15 :
    Size(fp4_extract(packed, i) - held[i]) <= Size(fp4_to_float(n) - held[i])
=============================================================================
