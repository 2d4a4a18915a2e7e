--------------------------- MODULE QuotientProofs ---------------------------
(***************************************************************************)
(* What evaluate_h promises its caller (spec 4.8 and 8, "Horner            *)
(* linearity"), with the passes, the chunk workers and the GPU hidden:     *)
(* the proofs of the batch are taken in order, and taking proof k folds    *)
(* that proof's identity residuals at row idx into values[idx] by Horner   *)
(* steps, for every row at once.  When the accelerator may fail, the call  *)
(* may instead return at any point with a vector about which nothing is    *)
(* promised.                                                               *)
(*                                                                         *)
(* The residuals of a proof and the Horner step are parameters, so that    *)
(* the detailed specification supplies its own reference definitions.     *)
(***************************************************************************)
EXTENDS Naturals, Sequences

CONSTANTS
  Rows,            \* the rows of the extended domain
  Vals,            \* the field elements
  Batches,         \* the batches of proofs evaluate_h may be called with
  Residuals(_, _), \* Residuals(pr, idx): the residuals of proof pr at row idx
  Horner(_, _),    \* Horner(v, terms): v folded with terms by v <- v*y + t
  CanFail          \* TRUE when the accelerator path may fail

VARIABLES batch, values, proof, phase

avars == <<batch, values, proof, phase>>

Init ==
  /\ batch \in Batches
  /\ values = [idx \in Rows |-> 0]
  /\ proof = 1
  /\ phase = IF batch = <<>> THEN "returned" ELSE "run"

\* The whole contribution of the current proof, then the next proof or return.
ProofStep ==
  /\ phase = "run"
  /\ values' = [idx \in Rows |-> Horner(values[idx], Residuals(batch[proof], idx))]
  /\ IF proof < Len(batch)
     THEN proof' = proof + 1 /\ UNCHANGED phase
     ELSE phase' = "returned" /\ UNCHANGED proof
  /\ UNCHANGED batch

\* A failure returns some vector of field elements.
Fail ==
  /\ CanFail
  /\ phase = "run"
  /\ values' \in [Rows -> Vals]
  /\ phase' = "returned"
  /\ UNCHANGED <<batch, proof>>

Next == ProofStep \/ Fail

Spec == Init /\ [][Next]_avars /\ WF_avars(Next)

=============================================================================
