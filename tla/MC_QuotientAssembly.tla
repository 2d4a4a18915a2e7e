------------------------ MODULE MC_QuotientAssembly ------------------------
(***************************************************************************)
(* A small instance of evaluate_h: F = Z_73, k = 2, extended_k = 3 (so     *)
(* N' = 8 and rot_scale = 2), blinding_factors = 1 (r_last = idx - 4),     *)
(* three worker threads (chunks of 3, 3 and 2 rows), cs.degree() = 4 (two  *)
(* permutation columns per set) and three permutation columns (advice,     *)
(* fixed, instance), so the delta ladder crosses a chunk boundary.  The    *)
(* extended omega has order 8 (10 = 5^9 for the primitive root 5), ZETA    *)
(* is a primitive cube root of unity (8 = 5^24) and DELTA = 5^8.  The      *)
(* witness values are arbitrary field elements.  Proof A has two gate      *)
(* polynomials, two permutation sets and one lookup; proof B has one gate  *)
(* polynomial, no permutation sets and one lookup.                         *)
(***************************************************************************)
EXTENDS QuotientAssembly

\* A vector over the 8 rows of the extended domain.
V(s) == [idx \in 0..7 |-> s[idx + 1]]

Lookup(table, product, inp, tableP) ==
  [table |-> table, product |-> product, input |-> inp, tableP |-> tableP]

MC_L0 == V(<<68, 47, 72, 40, 16, 65, 6, 58>>)
MC_LLast == V(<<71, 50, 50, 51, 50, 13, 61, 51>>)
MC_LActive == V(<<7, 24, 8, 26, 56, 20, 14, 43>>)
MC_FixedCosets == [c \in {0} |-> V(<<6, 13, 0, 72, 19, 68, 12, 46>>)]
MC_PermColumns == <<<<"Advice", 0>>, <<"Fixed", 0>>, <<"Instance", 0>>>>
MC_PermCosets == <<V(<<3, 9, 26, 48, 19, 32, 44, 46>>), V(<<60, 15, 14, 62, 59, 61, 61, 39>>), V(<<10, 18, 13, 43, 33, 61, 20, 66>>)>>

ProofA ==
  [advice |-> [c \in {0} |-> V(<<41, 19, 50, 6, 9, 68, 12, 46>>)],
   instance |-> [c \in {0} |-> V(<<7, 64, 27, 4, 11, 55, 53, 8>>)],
   gates |-> <<V(<<30, 11, 70, 54, 7, 72, 15, 28>>), V(<<7, 50, 6, 28, 5, 71, 17, 37>>)>>,
   sets |-> <<V(<<53, 18, 69, 15, 39, 71, 23, 13>>), V(<<24, 47, 12, 70, 8, 72, 7, 26>>)>>,
   lookups |-> <<Lookup(V(<<63, 68, 54, 40, 59, 58, 46, 38>>), V(<<31, 23, 31, 10, 38, 67, 63, 43>>), V(<<57, 36, 9, 15, 65, 53, 21, 43>>), V(<<19, 62, 53, 5, 9, 71, 40, 43>>))>>]

ProofB ==
  [advice |-> [c \in {0} |-> V(<<44, 63, 58, 8, 11, 34, 60, 8>>)],
   instance |-> [c \in {0} |-> V(<<7, 39, 57, 36, 49, 44, 2, 59>>)],
   gates |-> <<V(<<45, 21, 14, 63, 7, 27, 36, 16>>)>>,
   sets |-> <<>>,
   lookups |-> <<Lookup(V(<<31, 50, 50, 63, 10, 21, 57, 51>>), V(<<70, 35, 17, 55, 70, 35, 53, 45>>), V(<<48, 29, 19, 10, 22, 19, 29, 29>>), V(<<1, 62, 23, 33, 36, 0, 18, 53>>))>>]

\* The arguments of evaluate_h that hold the proofs of batch b.
Split(b) ==
  [advice       |-> [k \in DOMAIN b |-> [cols |-> b[k].advice, gates |-> b[k].gates]],
   instance     |-> [k \in DOMAIN b |-> b[k].instance],
   lookups      |-> [k \in DOMAIN b |-> b[k].lookups],
   permutations |-> [k \in DOMAIN b |-> b[k].sets]]

\* The two-proof batch, the one-proof batch and the empty system.
MC_Inputs == {Split(<<ProofA, ProofB>>), Split(<<ProofB>>), Split(<<>>)}

\* Arguments whose lists disagree: the permutations of proof B are missing.
MC_RaggedInputs ==
  MC_Inputs \cup {[Split(<<ProofA, ProofB>>) EXCEPT !.permutations = <<ProofA.sets>>]}

\* Proof A committed with one permutation set for two column chunks.
MC_MischunkedInputs ==
  MC_Inputs \cup {Split(<<[ProofA EXCEPT !.sets = <<ProofA.sets[1]>>], ProofB>>)}

=============================================================================
