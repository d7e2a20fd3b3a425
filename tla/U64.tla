-------------------------------- MODULE U64 --------------------------------
(***************************************************************************)
(* The unsigned 64-bit arithmetic the program does on amounts: Rust's      *)
(* saturating_add and saturating_sub, the `as u64` cast, which keeps the   *)
(* low bits, and u64::try_from, which refuses what does not fit.  The      *)
(* width is a parameter so that a small instance can reach its limit.      *)
(***************************************************************************)
EXTENDS Integers

CONSTANT U64Max         \* the largest u64: 2^64 - 1 in the program

ASSUME U64MaxAssumption == U64Max \in Nat

U64 == 0 .. U64Max

\* a.saturating_add(b)
SatAdd(a, b) == IF a + b <= U64Max THEN a + b ELSE U64Max

\* a.saturating_sub(b)
SatSub(a, b) == IF b <= a THEN a - b ELSE 0

\* n as u64, of a u128
AsU64(n) == n % (U64Max + 1)

\* u64::try_from(n) succeeds
Fits(n) == n <= U64Max

=============================================================================
