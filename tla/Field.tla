------------------------------- MODULE Field -------------------------------
(***************************************************************************)
(* The scalar field F of the proof system, as the integers modulo a small  *)
(* prime P, and the row-index arithmetic of evaluation.rs.                 *)
(*                                                                         *)
(* The evaluator only uses the ring operations of F (+, -, *, square,      *)
(* double, negation) and equality, so Z_P with a prime P that has the      *)
(* roots of unity the domain needs is a faithful small instance.           *)
(***************************************************************************)
EXTENDS Integers

CONSTANT P

\* P is an odd prime: 0, 1 and 2 are then three distinct field elements, as
\* GraphEvaluator::default assumes when it seeds its constant pool.
ASSUME PAssumption ==
  /\ P \in Nat
  /\ P > 2
  /\ \A d \in 2..(P - 1) : P % d # 0

F == 0..(P - 1)

FAdd(a, b) == (a + b) % P
FSub(a, b) == (a - b) % P
FMul(a, b) == (a * b) % P
FNeg(a)    == (0 - a) % P
FSquare(a) == FMul(a, a)
FDouble(a) == FAdd(a, a)

\* a^n for n \in Nat (pow_vartime), by a recursive function of n alone, which
\* the provers can reason about, unlike RECURSIVE or a function of two arguments.
FPow(a, n) ==
  LET pw[k \in Nat] == IF k = 0 THEN 1 ELSE FMul(a, pw[k - 1])
  IN  pw[n]

(***************************************************************************)
(* get_rotation_idx: (idx as i32 + rot * rot_scale).rem_euclid(isize).     *)
(* rem_euclid by a positive modulus is TLA+'s %.  The i32 arithmetic does  *)
(* not wrap: isize = N' <= 2^27 for every domain halo2 supports and        *)
(* |rot * rot_scale| is a few times N', far below 2^31.                    *)
(***************************************************************************)
GetRotationIdx(idx, rot, rotScale, isize) == (idx + rot * rotScale) % isize

=============================================================================
