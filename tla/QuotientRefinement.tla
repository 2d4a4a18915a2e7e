------------------------- MODULE QuotientRefinement -------------------------
(***************************************************************************)
(* evaluate_h (QuotientAssembly) implements the per-proof specification   *)
(* QuotientProofs.                                                         *)
(*                                                                         *)
(* Between two proof boundaries the workers have updated some rows and    *)
(* not others, so the abstract values cannot be read off `values`.  The   *)
(* history variable `snapshot` records `values` as it was when the        *)
(* current proof began; it is written only when the proof index moves and *)
(* never read by the implementation.  The abstract values are the         *)
(* snapshot while the call runs and the returned vector once it returns:  *)
(* every worker row, pass join and Block 1 step is an abstract stutter,   *)
(* the end of a proof is one ProofStep, and a CUDA failure is a Fail.     *)
(***************************************************************************)
EXTENDS QuotientAssembly

VARIABLE snapshot

hvars == <<vars, snapshot>>

InitH == Init /\ snapshot = values

NextH == Next /\ snapshot' = IF proof' # proof THEN values' ELSE snapshot

SpecH == InitH /\ [][NextH]_hvars /\ Fairness

Abs == INSTANCE QuotientProofs WITH
  Rows      <- Rows,
  Vals      <- F,
  Batches   <- {ZipProofs(in) : in \in Inputs},
  Residuals <- RefResiduals,
  Horner    <- HornerFold,
  CanFail   <- UseCuda /\ KernelFailures # {},
  values    <- IF phase = "returned" THEN values ELSE snapshot

(***************************************************************************)
(* Every behaviour of evaluate_h is a behaviour of the per-proof           *)
(* specification: when the proof index advances, or the call returns       *)
(* normally, each row has received exactly that proof's residuals, in the  *)
(* order gates, permutation, lookups, on top of the row's value at the     *)
(* start of the proof; and the call returns.  Across the chunk workers,    *)
(* their joins, the beta_term each worker carries and the CUDA packing.    *)
(***************************************************************************)
Refinement == Abs!Spec

=============================================================================
