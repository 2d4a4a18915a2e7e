----------------------- MODULE MC_QuotientRefinement -----------------------
(* The refinement of QuotientProofs by evaluate_h, on the instance of      *)
(* MC_QuotientAssembly.                                                    *)
EXTENDS MC_QuotientAssembly, QuotientRefinement
=============================================================================
