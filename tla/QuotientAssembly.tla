-------------------------- MODULE QuotientAssembly --------------------------
(***************************************************************************)
(* Evaluator::evaluate_h (evaluation.rs:284-990): the quotient polynomial  *)
(* h is accumulated in place in `values`, one pass at a time, for each     *)
(* proof of the batch: the custom gates, the permutation identities (when  *)
(* the proof has permutation sets) and one pass per lookup argument.  A    *)
(* pass splits [0, N') into chunks of ceil(N' / num_threads) rows, spawns  *)
(* one worker per chunk in a fork/join scope and waits for all of them     *)
(* before the next pass.  A worker owns its chunk of `values` and its      *)
(* local state (beta_term in the permutation pass) and folds each row's    *)
(* identity terms into values[idx] by Horner steps v <- v*y + term.        *)
(*                                                                         *)
(* With the CUDA environment variable set, the lookup passes of a proof    *)
(* are replaced by a host-side preparation and a GPU kernel; any failure   *)
(* of the kernel set-up returns `values` at once.                          *)
(*                                                                         *)
(* The compiled custom-gate and lookup graphs are abstracted to the values *)
(* they produce per row (ExprCompiler checks they equal the expressions'   *)
(* values): a proof carries its gate polynomial values and, per lookup,    *)
(* the table_value of its lookup graph.  Coset lifting (coeff_to_extended) *)
(* is an external collaborator: proofs carry extended-coset values.        *)
(***************************************************************************)
EXTENDS Field, Chunking, Sequences, SequencesExt

CONSTANTS
  RotScale,        \* rot_scale = 1 << (extended_k - k)
  Omega,           \* domain.get_extended_omega()
  Zeta,            \* C::Scalar::ZETA
  Delta,           \* C::Scalar::DELTA
  BetaV, GammaV, YV,
  BlindingFactors, \* cs.blinding_factors()
  Degree,          \* cs.degree()
  L0, LLast, LActive,  \* pk.l0, pk.l_last, pk.l_active_row
  FixedCosets,     \* pk.fixed_cosets
  PermColumns,     \* cs.permutation.columns: <<type, index>>
  PermCosets,      \* pk.permutation.cosets, one per column
  Inputs,          \* candidate inputs: [advice, instance, lookups, permutations]
  CudaEnv,         \* the value of the CUDA environment variable
  KernelFailures   \* the CUDA set-up steps that may fail in this run

ASSUME QuotientAssumption ==
  /\ NE \in Nat \ {0}
  /\ RotScale \in Nat \ {0}
  /\ NumThreads \in Nat \ {0}
  /\ {Omega, Zeta, Delta, BetaV, GammaV, YV} \subseteq F
  /\ BlindingFactors \in Nat /\ BlindingFactors + 1 <= NE
  /\ Degree \in Nat /\ Degree >= 3
  /\ {L0, LLast, LActive} \subseteq [Rows -> F]
  /\ Len(PermColumns) = Len(PermCosets)
  /\ KernelFailures \subseteq {"no_kernel_path", "driver", "alloc", "launch", "copy"}

\* s is a finite sequence (a Rust slice or Vec).
IsSeq(s) == s \in Seq(Range(s))

\* The arguments of evaluate_h are slices: advice, instance, lookups and
\* permutations are sequences, and so is each proof's list of lookups.
ASSUME InputsAssumption ==
  \A in \in Inputs :
    /\ IsSeq(in.advice) /\ IsSeq(in.instance)
    /\ IsSeq(in.lookups) /\ IsSeq(in.permutations)
    /\ \A k \in DOMAIN in.lookups : IsSeq(in.lookups[k])

Rot(idx, r) == GetRotationIdx(idx, r, RotScale, NE)


\* *value = *value * y + term, over a sequence of terms.
HornerFold(v, terms) == FoldLeft(LAMBDA acc, t : FAdd(FMul(acc, YV), t), v, terms)

(***************************************************************************)
(* Custom gates (evaluation.rs:405-432): custom_gates.evaluate with        *)
(* previous_value = values[idx] runs Horner(PreviousValue, parts, Y).      *)
(***************************************************************************)
GateTerms(pr, idx) == [k \in 1..Len(pr.gates) |-> pr.gates[k][idx]]

(***************************************************************************)
(* Permutations (evaluation.rs:434-514).                                   *)
(***************************************************************************)
ChunkLenP == Degree - 2
\* The column positions of the s-th chunk of p.columns (and of the cosets).
ColumnChunk(s) ==
  LET lo == (s - 1) * ChunkLenP + 1
      hi == IF s * ChunkLenP < Len(PermColumns) THEN s * ChunkLenP ELSE Len(PermColumns)
  IN [k \in 1..(hi - lo + 1) |-> lo + k - 1]
NumColumnChunks == (Len(PermColumns) + ChunkLenP - 1) \div ChunkLenP

\* match column.column_type() { Advice => advice, Fixed => fixed, Instance => instance }
ColumnValues(pr, j) ==
  CASE PermColumns[j][1] = "Advice"   -> pr.advice[PermColumns[j][2]]
    [] PermColumns[j][1] = "Fixed"    -> FixedCosets[PermColumns[j][2]]
    [] PermColumns[j][1] = "Instance" -> pr.instance[PermColumns[j][2]]

\* sets.zip(columns.chunks(chunk_len)).zip(cosets.chunks(chunk_len)): the
\* zip stops at the shorter of the sets and the column chunks.
ZipLen(pr) == IF Len(pr.sets) < NumColumnChunks THEN Len(pr.sets) ELSE NumColumnChunks

\* Mutant: current_delta re-seeded from delta_start * beta_term per chunk.
ProductTermsDeltaReset(pr, idx, betaTerm) ==
  LET z  == pr.sets
      rn == Rot(idx, 1)
      val(j) == ColumnValues(pr, j)[idx]
      step(acc, s) ==
        LET left == FoldLeft(LAMBDA l, j :
                               FMul(l, FAdd(FAdd(val(j), FMul(BetaV, PermCosets[j][idx])), GammaV)),
                             z[s][rn], ColumnChunk(s))
            rd   == FoldLeft(LAMBDA r, j :
                               <<FMul(r[1], FAdd(FAdd(val(j), r[2]), GammaV)), FMul(r[2], Delta)>>,
                             <<z[s][idx], FMul(FMul(BetaV, Zeta), betaTerm)>>, ColumnChunk(s))
        IN [terms |-> Append(acc.terms, FMul(FSub(left, rd[1]), LActive[idx])),
            delta |-> rd[2]]
  IN FoldLeft(step, [terms |-> <<>>, delta |-> FMul(FMul(BetaV, Zeta), betaTerm)],
              [s \in 1..ZipLen(pr) |-> s]).terms

\* The per-set products: left runs over the chunk with the cosets; right
\* runs over it with current_delta, which is carried from chunk to chunk
\* and multiplied by DELTA once per column.
ProductTerms(pr, idx, betaTerm) ==
  LET z  == pr.sets
      rn == Rot(idx, 1)
      val(j) == ColumnValues(pr, j)[idx]
      step(acc, s) ==
        LET left == FoldLeft(LAMBDA l, j :
                               FMul(l, FAdd(FAdd(val(j), FMul(BetaV, PermCosets[j][idx])), GammaV)),
                             z[s][rn], ColumnChunk(s))
            rd   == FoldLeft(LAMBDA r, j :
                               <<FMul(r[1], FAdd(FAdd(val(j), r[2]), GammaV)), FMul(r[2], Delta)>>,
                             <<z[s][idx], acc.delta>>, ColumnChunk(s))
        IN [terms |-> Append(acc.terms, FMul(FSub(left, rd[1]), LActive[idx])),
            delta |-> rd[2]]
  IN FoldLeft(step, [terms |-> <<>>, delta |-> FMul(FMul(BetaV, Zeta), betaTerm)],
              [s \in 1..ZipLen(pr) |-> s]).terms

PermTerms(pr, idx, betaTerm) ==
  LET z  == pr.sets
      S  == Len(z)
      rl == Rot(idx, -(BlindingFactors + 1))
  IN << FMul(FSub(1, z[1][idx]), L0[idx]),
        FMul(FSub(FSquare(z[S][idx]), z[S][idx]), LLast[idx]) >>
     \o [s \in 1..(S - 1) |-> FMul(FSub(z[s + 1][idx], z[s][rl]), L0[idx])]
     \o ProductTerms(pr, idx, betaTerm)

(***************************************************************************)
(* Lookups (evaluation.rs:526-598): lk.table is the lookup graph's         *)
(* table_value, lk.product / lk.input / lk.tableP the product, permuted    *)
(* input and permuted table cosets.                                        *)
(***************************************************************************)
LookupTerms(lk, idx) ==
  LET rn == Rot(idx, 1)
      rp == Rot(idx, -1)
      aMinusS == FSub(lk.input[idx], lk.tableP[idx])
  IN << FMul(FSub(1, lk.product[idx]), L0[idx]),
        FMul(FSub(FSquare(lk.product[idx]), lk.product[idx]), LLast[idx]),
        FMul(FSub(FMul(FMul(lk.product[rn], FAdd(lk.input[idx], BetaV)),
                       FAdd(lk.tableP[idx], GammaV)),
                  FMul(lk.product[idx], lk.table[idx])),
             LActive[idx]),
        FMul(aMinusS, L0[idx]),
        FMul(FMul(aMinusS, FSub(lk.input[idx], lk.input[rp])), LActive[idx]) >>

(***************************************************************************)
(* The passes of one proof: custom gates, the permutation if its sets are  *)
(* non-empty, then one pass per lookup (CPU), or a single CUDA lookup      *)
(* stage covering all the lookups.                                         *)
(***************************************************************************)
UseCuda == CudaEnv \in {"1", "y", "yes"}

Stages(pr) ==
  <<[kind |-> "gates"]>>
  \o (IF pr.sets # <<>> THEN <<[kind |-> "perm"]>> ELSE <<>>)
  \o (IF UseCuda
      THEN [n \in 1..Len(pr.lookups) |-> [kind |-> "prep", n |-> n]]
           \o <<[kind |-> "kernel"]>>
      ELSE [n \in 1..Len(pr.lookups) |-> [kind |-> "lookup", n |-> n]])

\* The new value of row idx in a CPU pass.
RowUpdate(st, pr, idx, v, betaTerm) ==
  CASE st.kind = "gates"  -> HornerFold(v, GateTerms(pr, idx))
    [] st.kind = "perm"   -> HornerFold(v, PermTerms(pr, idx, betaTerm))
    [] st.kind = "lookup" -> HornerFold(v, LookupTerms(pr.lookups[st.n], idx))
    [] st.kind = "prep"   -> v

(***************************************************************************)
(* CUDA lookups (evaluation.rs:689-987).  Block 1 fills, per lookup and    *)
(* row, combined_data_in = (table_value, a_minus_s, r_next, r_prev); the   *)
(* kernel compute_evaluate_h_lookups_codeblock (not in this repository;    *)
(* its contract is the commented CPU block, l.840-875) then applies the    *)
(* five lookup identities of every lookup to every row.                    *)
(***************************************************************************)
ZeroCombined(pr) == [n \in 1..Len(pr.lookups) |-> [idx \in Rows |-> <<0, 0, 0, 0>>]]

\* Mutant: r_next and r_prev swapped in the packed struct.
CombinedRowSwapped(lk, idx) ==
  <<lk.table[idx], FSub(lk.input[idx], lk.tableP[idx]), Rot(idx, -1), Rot(idx, 1)>>

CombinedRow(lk, idx) ==
  <<lk.table[idx], FSub(lk.input[idx], lk.tableP[idx]), Rot(idx, 1), Rot(idx, -1)>>

KernelTerms(lk, c, idx) ==
  LET tv == c[1]
      ams == c[2]
      rn == c[3]
      rp == c[4]
  IN << FMul(FSub(1, lk.product[idx]), L0[idx]),
        FMul(FSub(FSquare(lk.product[idx]), lk.product[idx]), LLast[idx]),
        FMul(FSub(FMul(FMul(lk.product[rn], FAdd(lk.input[idx], BetaV)),
                       FAdd(lk.tableP[idx], GammaV)),
                  FMul(lk.product[idx], tv)),
             LActive[idx]),
        FMul(ams, L0[idx]),
        FMul(FMul(ams, FSub(lk.input[idx], lk.input[rp])), LActive[idx]) >>

\* The kernel's output at row idx: lookup 0, 1, ... folded into values[idx].
KernelRow(pr, comb, idx, v) ==
  HornerFold(v, FoldLeft(LAMBDA acc, n : acc \o KernelTerms(pr.lookups[n], comb[n][idx], idx),
                         <<>>, [n \in 1..Len(pr.lookups) |-> n]))

(***************************************************************************)
(* The proof loop (evaluation.rs:399-403) zips advice, instance, lookups  *)
(* and permutations: proof k takes the k-th entry of each, and the loop    *)
(* ends with the shortest list.  An advice entry carries the proof's       *)
(* advice cosets and the values its custom-gate graph produces on them.    *)
(***************************************************************************)
ZipProofs(in) ==
  LET lens == {Len(in.advice), Len(in.instance), Len(in.lookups), Len(in.permutations)}
      n    == CHOOSE m \in lens : \A l \in lens : m <= l
  IN [k \in 1..n |-> [advice   |-> in.advice[k].cols,
                      gates    |-> in.advice[k].gates,
                      instance |-> in.instance[k],
                      sets     |-> in.permutations[k],
                      lookups  |-> in.lookups[k]]]

-----------------------------------------------------------------------------
VARIABLES
  input,     \* the arguments of evaluate_h (fixed by Init)
  batch,     \* the proofs the zip yields (fixed by Init)
  values,    \* the output vector, initially domain.empty_extended()
  proof,     \* index of the proof being processed
  stage,     \* index of the pass in Stages(batch[proof])
  pos,       \* per worker of the current pass: rows of its chunk done
  betaTerm,  \* per worker: its beta_term (permutation pass)
  combined,  \* combined_data_in (CUDA path)
  phase      \* "run" | "returned"

vars == <<input, batch, values, proof, stage, pos, betaTerm, combined, phase>>

CurStage == Stages(batch[proof])[stage]

\* Spawning the workers of a pass: every chunk starts at offset 0 and a
\* permutation worker computes beta_term = extended_omega^start.
Spawn == [t \in Chunks |-> 0]

\* Mutant: beta_term seeded from the thread index instead of the chunk start.
SpawnBetaThreadIndex == [t \in Chunks |-> FPow(Omega, t)]

SpawnBeta == [t \in Chunks |-> FPow(Omega, ChunkStart(t))]

Init ==
  /\ input \in Inputs
  /\ batch = ZipProofs(input)
  /\ values = [idx \in Rows |-> 0]
  /\ proof = 1
  /\ stage = 1
  /\ pos = Spawn
  /\ betaTerm = SpawnBeta
  /\ combined = IF batch = <<>> THEN <<>> ELSE ZeroCombined(batch[1])
  /\ phase = IF batch = <<>> THEN "returned" ELSE "run"

\* Worker t processes the next row of its chunk: a CPU pass updates
\* values[idx]; a Block 1 worker of the CUDA path writes combined_data_in.
WorkerRow(t) ==
  /\ phase = "run"
  /\ CurStage.kind # "kernel"
  /\ pos[t] < ChunkLen(t)
  /\ LET idx == ChunkStart(t) + pos[t]
         pr  == batch[proof]
     IN /\ values' = [values EXCEPT ![idx] =
                        RowUpdate(CurStage, pr, idx, values[idx], betaTerm[t])]
        /\ combined' = IF CurStage.kind = "prep"
                       THEN [combined EXCEPT ![CurStage.n][idx] =
                               CombinedRow(pr.lookups[CurStage.n], idx)]
                       ELSE combined
  /\ pos' = [pos EXCEPT ![t] = @ + 1]
  /\ betaTerm' = [betaTerm EXCEPT ![t] = IF CurStage.kind = "perm" THEN FMul(@, Omega) ELSE @]
  /\ UNCHANGED <<input, batch, proof, stage, phase>>

\* Mutant: the join returns as soon as one worker has finished its chunk.
AllJoinedAnyWorker == \E t \in Chunks : pos[t] = ChunkLen(t)

AllJoined == \A t \in Chunks : pos[t] = ChunkLen(t)

\* After the last pass of a proof: the next proof, with fresh
\* combined_data_in, or evaluate_h returns values.
EndProof ==
  IF proof < Len(batch)
  THEN /\ proof' = proof + 1
       /\ stage' = 1
       /\ combined' = ZeroCombined(batch[proof + 1])
       /\ UNCHANGED phase
  ELSE /\ phase' = "returned"
       /\ UNCHANGED <<proof, stage, combined>>

\* The scope joins; the next pass of the proof is spawned, or the proof ends.
NextPass ==
  /\ phase = "run"
  /\ CurStage.kind # "kernel"
  /\ AllJoined
  /\ pos' = Spawn
  /\ betaTerm' = SpawnBeta
  /\ IF stage < Len(Stages(batch[proof]))
     THEN stage' = stage + 1 /\ UNCHANGED <<proof, phase, combined>>
     ELSE EndProof
  /\ UNCHANGED <<input, batch, values>>

\* CU_KERNEL, the driver, the allocations, the launch and the copy back all
\* succeed: values holds the kernel's result and the proof ends.
KernelRun ==
  /\ phase = "run"
  /\ CurStage.kind = "kernel"
  /\ values' = [idx \in Rows |-> KernelRow(batch[proof], combined, idx, values[idx])]
  /\ EndProof
  /\ UNCHANGED <<input, batch, pos, betaTerm>>

\* One of those steps fails: `return values;` (l.916, 926, 948, 972, 980)
\* returns the vector as it is, skipping the rest of the batch.
\* Mutant: a failure that returns at any point of the run, not only once the
\* kernel stage is reached.
KernelFailAnyStage ==
  /\ phase = "run"
  /\ KernelFailures # {}
  /\ phase' = "returned"
  /\ UNCHANGED <<input, batch, values, proof, stage, pos, betaTerm, combined>>

KernelFail ==
  /\ phase = "run"
  /\ CurStage.kind = "kernel"
  /\ KernelFailures # {}
  /\ phase' = "returned"
  /\ UNCHANGED <<input, batch, values, proof, stage, pos, betaTerm, combined>>

Next ==
  \/ \E t \in Chunks : WorkerRow(t)
  \/ NextPass
  \/ KernelRun
  \/ KernelFail

\* Rayon workers and the calling thread run to completion once runnable.
Fairness ==
  /\ \A t \in Chunks : WF_vars(WorkerRow(t))
  /\ WF_vars(NextPass)
  /\ WF_vars(KernelRun \/ KernelFail)

Spec == Init /\ [][Next]_vars /\ Fairness

-----------------------------------------------------------------------------
(***************************************************************************)
(* The reference (spec 4.8 and 8, "Horner linearity"): h[idx] is          *)
(* sum_k y^(n-k) C_k over the identity residuals C_1 .. C_n of every       *)
(* proof in the order gates, permutation, lookup 0, lookup 1, ...; the     *)
(* permutation's right product uses delta^j * beta * X with X = ZETA *     *)
(* omega^idx and j the column's position in p.columns.                     *)
(***************************************************************************)
RefPermProducts(pr, idx) ==
  LET z == pr.sets
      X == FMul(Zeta, FPow(Omega, idx))
      val(j) == ColumnValues(pr, j)[idx]
      prod(s, f(_)) == FoldLeft(LAMBDA a, j : FMul(a, f(j)), 1, ColumnChunk(s))
  IN [s \in 1..ZipLen(pr) |->
        FMul(FSub(FMul(z[s][Rot(idx, 1)],
                       prod(s, LAMBDA j : FAdd(FAdd(val(j), FMul(BetaV, PermCosets[j][idx])), GammaV))),
                  FMul(z[s][idx],
                       prod(s, LAMBDA j : FAdd(FAdd(val(j), FMul(FMul(FPow(Delta, j - 1), BetaV), X)),
                                               GammaV)))),
             LActive[idx])]

\* The residuals of the passes that run on the CPU on both paths: gates and
\* permutation.
RefCpuResiduals(pr, idx) ==
  GateTerms(pr, idx)
  \o (IF pr.sets = <<>> THEN <<>>
      ELSE << FMul(FSub(1, pr.sets[1][idx]), L0[idx]),
              FMul(FSub(FSquare(pr.sets[Len(pr.sets)][idx]), pr.sets[Len(pr.sets)][idx]), LLast[idx]) >>
           \o [s \in 1..(Len(pr.sets) - 1) |->
                 FMul(FSub(pr.sets[s + 1][idx], pr.sets[s][Rot(idx, -(BlindingFactors + 1))]), L0[idx])]
           \o RefPermProducts(pr, idx))

RefResiduals(pr, idx) ==
  RefCpuResiduals(pr, idx)
  \o FoldLeft(LAMBDA acc, n : acc \o LookupTerms(pr.lookups[n], idx), <<>>,
              [n \in 1..Len(pr.lookups) |-> n])

\* sum_k ts[k] * y^(Len(ts) - k)
PowerSum(ts) ==
  FoldLeft(LAMBDA a, k : FAdd(a, FMul(ts[k], FPow(YV, Len(ts) - k))), 0,
           [k \in 1..Len(ts) |-> k])

\* The residuals of proofs 1..n of b, in order.
RefPrefix(b, n, idx) ==
  FoldLeft(LAMBDA acc, k : acc \o RefResiduals(b[k], idx), <<>>, [k \in 1..n |-> k])

RefH(b, idx) == PowerSum(RefPrefix(b, Len(b), idx))

\* What a kernel set-up failure during proof k leaves in values[idx]: every
\* residual of the proofs before k, then the gate and permutation residuals
\* of proof k.
RefFailedAt(b, k, idx) ==
  PowerSum(RefPrefix(b, k - 1, idx) \o RefCpuResiduals(b[k], idx))

-----------------------------------------------------------------------------
TypeOK ==
  /\ phase \in {"run", "returned"}
  /\ values \in [Rows -> F]
  /\ pos \in [Chunks -> 0..ChunkSize]
  /\ betaTerm \in [Chunks -> F]
  /\ proof \in 1..(IF batch = <<>> THEN 1 ELSE Len(batch))
  /\ phase = "run" => stage \in 1..Len(Stages(batch[proof]))

(***************************************************************************)
(* When evaluate_h returns, every row of values is the Horner combination  *)
(* of all identity residuals of all proofs in the fixed assembly order     *)
(* (spec 8, "Horner linearity"): the chunk workers together cover every    *)
(* row exactly once per pass, the fork/join barrier keeps the passes of a  *)
(* row in order, each worker's running beta_term is omega^idx, the delta   *)
(* ladder runs across column chunks, and no failure path returns early.   *)
(***************************************************************************)
FinalMatchesReference ==
  phase = "returned" => \A idx \in Rows : values[idx] = RefH(batch, idx)

(***************************************************************************)
(* Whatever evaluate_h_with_cuda returns is a vector every row of which    *)
(* has had the same passes folded in: either all of them, or, when one of  *)
(* the CUDA set-up steps fails and `return values;` runs (l.916-980), all  *)
(* passes of the proofs before the current one and the gate and            *)
(* permutation passes of the current one.  This needs the failure to come  *)
(* only after the Block 1 scope has joined every worker, so that no row is *)
(* a pass ahead of another.                                                *)
(***************************************************************************)
ReturnsWholePasses ==
  phase = "returned" /\ batch # <<>> =>
    \/ \A idx \in Rows : values[idx] = RefH(batch, idx)
    \/ \A idx \in Rows : values[idx] = RefFailedAt(batch, proof, idx)

(***************************************************************************)
(* When the CUDA kernel is launched (evaluation.rs:907-980), it reads      *)
(* combined_data_in for every lookup of the proof and every row: each of   *)
(* those entries holds the (table_value, a_minus_s, r_next, r_prev) that   *)
(* Block 1 (l.804-866) computes for that lookup and row.  No row of any    *)
(* lookup is left unwritten by the Block 1 workers, none keeps a previous  *)
(* proof's data, whatever the order in which the workers of the lookups'   *)
(* passes run: the join of each Block 1 pass waits for all of them.        *)
(***************************************************************************)
KernelReadsPrepared ==
  phase = "run" /\ CurStage.kind = "kernel" =>
    \A n \in 1..Len(batch[proof].lookups), idx \in Rows :
      combined[n][idx] = CombinedRow(batch[proof].lookups[n], idx)

(***************************************************************************)
(* In a permutation pass each worker carries beta_term from row to row    *)
(* (l.447 seeds it with extended_omega^start, l.511 multiplies it by       *)
(* extended_omega after each row) instead of computing omega^idx afresh.   *)
(* Whatever the interleaving of the workers, the beta_term of every worker *)
(* is omega raised to the row it processes next, so the right product's   *)
(* X = ZETA * omega^idx (via delta_start * beta_term, l.480) is the point  *)
(* of that row.                                                            *)
(***************************************************************************)
BetaTermTracksRow ==
  phase = "run" /\ CurStage.kind = "perm" =>
    \A t \in Chunks : betaTerm[t] = FPow(Omega, ChunkStart(t) + pos[t])

(***************************************************************************)
(* Spec 7: the four per-proof lists of evaluate_h (advice, instance,       *)
(* lookups, permutations) must have one entry per proof, and a mismatch is *)
(* checked at entry and aborts.  So evaluate_h returns only on inputs of   *)
(* equal lengths.  The proof loop's zip (l.399-403) instead drops the      *)
(* proofs beyond the shortest list and returns normally.                   *)
(***************************************************************************)
InputShapesAgree ==
  phase = "returned" =>
    /\ Len(input.instance) = Len(input.advice)
    /\ Len(input.lookups) = Len(input.advice)
    /\ Len(input.permutations) = Len(input.advice)

(***************************************************************************)
(* Spec 7: a mismatch between chunk_len and the committed permutation     *)
(* chunking is a programmer error and fatal.  So evaluate_h returns only   *)
(* when every proof with permutation sets has one set per chunk of         *)
(* cs.permutation.columns.  The zip of the sets with the column chunks     *)
(* (l.481-484) instead stops at the shorter side and returns normally.     *)
(***************************************************************************)
PermChunkingAgrees ==
  phase = "returned" =>
    \A k \in 1..Len(batch) :
      batch[k].sets # <<>> => Len(batch[k].sets) = NumColumnChunks

=============================================================================
