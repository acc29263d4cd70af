------------------------------- MODULE Int8Lanes -------------------------------
(***************************************************************************)
(* One iteration of the vector loop of kernel_mem_avx2_int8 (16 cells) and *)
(* kernel_mem_sse2_int8 (8 cells), in simd_kernels.hpp: the cells are      *)
(* computed in lanes of 16 bits and packed into bytes again.               *)
(***************************************************************************)
EXTENDS Integers

CONSTANTS
  Factors,     \* the values of alpha and beta
  VectorSet    \* the vectors of 16 int8 cells that are loaded

Int8 == -128 .. 127

ASSUME Int8Assumption ==
  Factors \subseteq Int8 /\ VectorSet \subseteq [0 .. 15 -> Int8]

VARIABLES
  ipc,               \* "multiply", "add", "pack", "stored"
  alpha, beta,       \* the factors
  lanes,             \* 8 or 16
  a, b,              \* the cells loaded, widened to 16 bits
  alpha_a, beta_b,   \* 16-bit lanes
  result,
  out                \* the cells stored

int8Vars == <<ipc, alpha, beta, lanes, a, b, alpha_a, beta_b, result, out>>

Lanes == 0 .. lanes - 1

Clamp8(n)  == IF n > 127 THEN 127 ELSE IF n < -128 THEN -128 ELSE n
Clamp16(n) == IF n > 32767 THEN 32767 ELSE IF n < -32768 THEN -32768 ELSE n
Low16(n)   == ((n + 32768) % 65536) - 32768

VInit ==
  /\ alpha \in Factors /\ beta \in Factors /\ lanes \in {8, 16}
  /\ a \in VectorSet /\ b \in VectorSet
  /\ ipc = "multiply"
  /\ alpha_a = [n \in Lanes |-> 0] /\ beta_b = alpha_a
  /\ result = alpha_a /\ out = alpha_a

\* mullo: the low 16 bits of the products.
Multiply ==
  /\ ipc = "multiply"
  /\ alpha_a' = [n \in Lanes |-> Low16(alpha * a[n])]
  /\ beta_b' = [n \in Lanes |-> Low16(beta * b[n])]
  /\ ipc' = "add"
  /\ UNCHANGED <<alpha, beta, lanes, a, b, result, out>>

\* Fault: the sum does not saturate.
Sum16_Wraps(n) == Low16(alpha_a[n] + beta_b[n])
\* adds: the sum of two lanes, which may be 32768, saturates.
Sum16(n) == Clamp16(alpha_a[n] + beta_b[n])
Add ==
  /\ ipc = "add"
  /\ result' = [n \in Lanes |-> Sum16(n)]
  /\ ipc' = "pack"
  /\ UNCHANGED <<alpha, beta, lanes, a, b, alpha_a, beta_b, out>>

\* packs of the vector with itself, for each half of the register apart: the 64-bit
\* quarters are low, low, high, high.  The permutation 0xD8 swaps the two in the
\* middle, and the lower half of the register is stored.
Quarter(q) == IF lanes = 8 THEN 0 ELSE <<0, 0, 1, 1>>[q + 1]
Permute(q) == IF lanes = 8 THEN q ELSE <<0, 2, 1, 3>>[q + 1]
Pack ==
  /\ ipc = "pack"
  /\ out' = [n \in Lanes |-> Clamp8(result[8 * Quarter(Permute(n \div 8)) + (n % 8)])]
  /\ ipc' = "stored"
  /\ UNCHANGED <<alpha, beta, lanes, a, b, alpha_a, beta_b, result>>

VNext == Multiply \/ Add \/ Pack

VSpec == VInit /\ [][VNext]_int8Vars

-----------------------------------------------------------------------------
\* The vector loop stores what the scalar loop behind it would, each cell in its
\* place: the 16-bit lanes lose nothing that the clamp to int8 keeps.
VectorIsScalar ==
  ipc = "stored" => \A n \in Lanes : out[n] = Clamp8(alpha * a[n] + beta * b[n])
=============================================================================
