------------------------------ MODULE HalfNumbers ------------------------------
(***************************************************************************)
(* half (half.hpp): how the kernels for half load a cell into a float and  *)
(* store a float into a cell; they compute with floats.  A float is the    *)
(* record of its three fields.                                             *)
(***************************************************************************)
EXTENDS Integers

CONSTANTS
  HalfSet,     \* the halves that are loaded, as bits
  FloatSet     \* the floats that are stored as half

Below(n, top) == n \in Nat /\ n < top

IsFloat(f) ==
  /\ DOMAIN f = {"sign", "e", "m"}
  /\ f.sign \in {0, 1} /\ Below(f.e, 256) /\ Below(f.m, 8388608)

ASSUME HalfAssumption ==
  (\A h \in HalfSet : Below(h, 65536)) /\ (\A f \in FloatSet : IsFloat(f))

VARIABLES
  hpc,      \* "load", "normalize", "store", "stored"
  given,    \* the half that is converted, or NoHalfGiven: a float is converted
  exp, mantissa,   \* half_bits_to_float's loop
  float,    \* the register
  cell      \* the half in memory

halfVars == <<hpc, given, exp, mantissa, float, cell>>

NoHalfGiven == -1
Zero == [sign |-> 0, e |-> 0, m |-> 0]

-----------------------------------------------------------------------------
SignOf(h) == h \div 32768
ExpOf(h)  == (h \div 1024) % 32
ManOf(h)  == h % 1024
Infinity  == 31744

HInit ==
  /\ exp = 0 /\ mantissa = 0
  /\ \/ /\ \E h \in HalfSet : cell = h /\ given = h
        /\ hpc = "load" /\ float = Zero
     \/ /\ \E f \in FloatSet : float = f /\ given = NoHalfGiven
        /\ hpc = "store" /\ cell = 0

\* Fault: infinities and NaN are taken for normal numbers.
Load_NoSpecial ==
  /\ hpc = "load"
  /\ ~ (ExpOf(cell) = 0 /\ ManOf(cell) # 0)
  /\ float' = [sign |-> SignOf(cell),
               e |-> IF ExpOf(cell) = 0 THEN 0 ELSE ExpOf(cell) + 112,
               m |-> 8192 * ManOf(cell)]
  /\ hpc' = "store"
  /\ UNCHANGED <<given, exp, mantissa, cell>>

\* half_bits_to_float: zeros, infinities, NaN and normal numbers.
Load ==
  /\ hpc = "load"
  /\ ~ (ExpOf(cell) = 0 /\ ManOf(cell) # 0)
  /\ float' = [sign |-> SignOf(cell),
               e |-> IF ExpOf(cell) = 0 THEN 0
                     ELSE IF ExpOf(cell) = 31 THEN 255 ELSE ExpOf(cell) + 112,
               m |-> 8192 * ManOf(cell)]
  /\ hpc' = "store"
  /\ UNCHANGED <<given, exp, mantissa, cell>>

LoadDenormal ==
  /\ hpc = "load"
  /\ ExpOf(cell) = 0 /\ ManOf(cell) # 0
  /\ exp' = 1 /\ mantissa' = ManOf(cell)
  /\ hpc' = "normalize"
  /\ UNCHANGED <<given, float, cell>>

Normalize ==
  /\ hpc = "normalize"
  /\ IF mantissa < 1024
     THEN /\ mantissa' = 2 * mantissa /\ exp' = exp - 1
          /\ UNCHANGED <<hpc, float>>
     ELSE /\ float' = [sign |-> SignOf(cell), e |-> exp + 112, m |-> 8192 * (mantissa - 1024)]
          /\ hpc' = "store"
          /\ UNCHANGED <<mantissa, exp>>
  /\ UNCHANGED <<given, cell>>

\* float_to_half_bits.
Rebiased == float.e - 112
Top10    == float.m \div 8192
Stored(magnitude) ==
  /\ cell' = 32768 * float.sign + magnitude
  /\ hpc' = "stored"
  /\ UNCHANGED <<given, exp, mantissa, float>>

StoreSpecial ==
  /\ hpc = "store" /\ float.e = 255
  /\ Stored(Infinity + (IF float.m # 0 /\ Top10 = 0 THEN 1 ELSE Top10))

StoreTiny ==
  /\ hpc = "store" /\ Rebiased < -10
  /\ Stored(0)

StoreDenormal ==
  /\ hpc = "store" /\ -10 <= Rebiased /\ Rebiased <= 0
  /\ LET shifted == (Top10 + 1024) \div 2 ^ (1 - Rebiased)
     IN  Stored((shifted + (IF shifted % 4 = 3 THEN 1 ELSE 0)) \div 2)

StoreHuge ==
  /\ hpc = "store" /\ 31 <= Rebiased /\ float.e # 255
  /\ Stored(Infinity)

\* Fault: the bits behind the round bit do not count, every tie goes to even.
RoundsUp_NoSticky == (float.m \div 4096) % 2 = 1 /\ Top10 % 2 = 1
\* The sticky bits are the 12 bits behind the mantissa's and the round bit.
RoundsUp == (float.m \div 4096) % 2 = 1 /\ (float.m % 4096 # 0 \/ Top10 % 2 = 1)

\* A carry out of the mantissa goes into the exponent, and from its largest value to
\* infinity.
Carry == RoundsUp /\ Top10 = 1023
StoreNormal ==
  /\ hpc = "store" /\ 1 <= Rebiased /\ Rebiased <= 30
  /\ Stored(IF Carry THEN 1024 * (Rebiased + 1)
            ELSE 1024 * Rebiased + Top10 + (IF RoundsUp THEN 1 ELSE 0))

StoreHalf == StoreSpecial \/ StoreTiny \/ StoreDenormal \/ StoreHuge \/ StoreNormal

HNext == Load \/ LoadDenormal \/ Normalize \/ StoreHalf

HSpec == HInit /\ [][HNext]_halfVars

-----------------------------------------------------------------------------
\* "IEEE 754-2008 half-precision": a half that is loaded and stored again, as the
\* kernels for half do with every cell, is the same half.
HalfKept ==
  hpc = "stored" /\ given # NoHalfGiven => cell = given

IsDenormal(h) == ExpOf(h) = 0 /\ ManOf(h) # 0

\* The same for all halves that are not denormal, NaN and the infinities included.
NormalKept ==
  hpc = "stored" /\ given # NoHalfGiven /\ ~ IsDenormal(given) => cell = given

\* The significand of the half h, in the units that the last bit of a half has at the
\* exponent e.
Significand(h, e) == (1024 + ManOf(h)) * (IF ExpOf(h) = e THEN 1 ELSE 2)

\* A float of the range of the normal halves is stored as the half nearest to it, and
\* as the one with an even significand when there are two: a carry into the exponent
\* and the overflow to infinity included.
NearestHalf ==
  hpc = "stored" /\ Rebiased \in 1 .. 30 =>
    /\ SignOf(cell) = float.sign
    /\ ExpOf(cell) \in {Rebiased, Rebiased + 1}
    /\ LET off == 8192 * Significand(cell, Rebiased) - (8388608 + float.m)
       IN  \/ -4096 < off /\ off < 4096
           \/ off \in {-4096, 4096} /\ Significand(cell, Rebiased) % 2 = 0
=============================================================================
