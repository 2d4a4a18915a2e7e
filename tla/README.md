# Formal model of the halo2 quotient evaluator

This directory holds TLA+ models, TLC model-checking runs and TLAPS proofs for
`src/halo2/halo2_proofs/src/plonk/evaluation.rs`. That file is the part of the
prover that compiles the constraint system into straight-line programs
("graphs") and assembles the quotient polynomial `h` on the extended coset.
The assembly runs on the CPU or, for the lookup identities, on a CUDA kernel.
`PROJECT.json` records the machine-readable details: components, runs,
mutants, the definition-to-source map, hazards and theorems.

## The system

`evaluation.rs` has four cooperating parts:

1. **The graph builder** (`GraphEvaluator`, l.993-1055). A graph holds:
   - a constant pool, seeded with 0, 1 and 2;
   - a list of rotations;
   - a list of `CalculationInfo {calculation, target}`.

   `add_rotation` and `add_constant` deduplicate by position. `add_calculation`
   deduplicates by structural equality and otherwise appends the calculation
   with target `num_intermediates`, then increments the counter.
2. **The expression compiler**:
   - `add_expression` (l.1057-1158) lowers an `Expression` tree into a graph,
     with peephole rewrites: zero and one operands, `2·x` to `Double`, `x·x`
     to `Square`, `a + (-b)` to `Sub`, and canonical operand order.
   - `Evaluator::new` (l.227-282) compiles every gate polynomial into one
     shared graph closed by `Horner(PreviousValue, parts, Y)`, and each lookup
     argument into a graph of its own.
3. **Row evaluation**:
   - `GraphEvaluator::instance` and `evaluate` (l.1160-1213), with
     `Calculation::evaluate` and `ValueSource::get` (l.75-185), run a graph on
     one row. Each worker reuses one scratch buffer for every row of its chunk.
   - The simple recursive `evaluate` (l.1216-1254) is the reference evaluator.
4. **Quotient assembly** (`evaluate_h`, l.284-990). For each proof of the batch
   it runs several passes over `values`:
   - the custom gates;
   - the permutation, when the proof has sets, with its boundary, stitching
     and per-chunk product identities;
   - one pass per lookup.

   Each pass splits the rows into `ceil(N'/num_threads)` chunks, with one
   worker per chunk, joined before the next pass. Workers fold terms into
   `values[idx]` by Horner steps `v <- v*y + term`. With `CUDA` set to
   "1", "y" or "yes", the lookup passes are replaced:
   - host-side "Block 1" packs `(table_value, a_minus_s, r_next, r_prev)` per
     row into `combined_data_in`;
   - a GPU kernel then applies the five lookup identities. Its contract is the
     commented CPU block at l.870-905.

   Every CUDA set-up failure (l.916, 926, 948, 972, 980) returns `values` as
   it stands.

## Modules

| Module | Models | State and actions |
|---|---|---|
| `Field` | Z_P and `get_rotation_idx` | `FAdd`..`FDouble`; `FPow(a, n)` is an operator over a recursive function of `n` alone, so the provers can unfold it (lemma `FieldProofs!FPowDef`); `GetRotationIdx` is `%`, the same as `rem_euclid` for a positive modulus |
| `GraphOps` | `ValueSource`, `Calculation`, `GraphEvaluator::default`, `add_rotation`, `add_constant`, `add_calculation` | Pure operators `g -> <<g', result>>`, plus the graph well-formedness predicate `WellFormedG` |
| `GraphEvaluator` | The builder as a state machine | `VARIABLE graph`; one action per `add_*`. Operands come from what a caller can hold: sources already handed out, cells at registered rotation slots, challenges, and the distinguished scalars |
| `ExprCompiler` | `add_expression`, `Evaluator::new`, row evaluation, the simple evaluator | Variables `customGates, parts, polys, lookupGraphs, lookupArgs, phase`. Actions: `CompileGatePolynomial`, `FinishGates`, `CompileLookup`, `FinishLookups`, in the order of the constructor's loops. `RunRows` threads one scratch through rows 0..N'-1, as a chunk worker does. Uses RECURSIVE, so TLC only |
| `Chunking` | The chunk arithmetic of `multicore` and l.407-412 | `ChunkSize = ceil(N'/num_threads)`, `Chunks`, `ChunkStart`, `ChunkLen`, under `ChunkingAssumption` |
| `QuotientAssembly` | `evaluate_h`, CPU and CUDA paths | Described below |
| `QuotientProofs` | What `evaluate_h` promises (spec §4.8, §8) | Abstract: `ProofStep` folds one whole proof's residuals into every row; `Fail` returns some vector |
| `QuotientRefinement` | `QuotientAssembly` as an implementation of `QuotientProofs` | History variable `snapshot`, refinement mapping, `Refinement` |
| `GraphEvaluatorProofs`, `ChunkingProofs`, `FieldProofs`, `QuotientAssemblyProofs` | TLAPS proofs | See Proofs |
| `MC_*` | TLC instances | |

In `QuotientAssembly`:
- The variables are `input, batch, values, proof, stage, pos, betaTerm, combined, phase`.
- `input` holds the four lists the caller passes (advice with its gate
  values, instance, lookups, permutations), each of its own length.
  `Init` zips them into `batch` with `ZipProofs`, which stops at the shortest
  list, as the iterator chain at l.399-403 does.
- `WorkerRow(t)` is one row of worker `t`'s chunk:
  - in a CPU pass it runs the pass's whole Horner update of that row;
  - in a Block 1 pass it writes `combined_data_in`;
  - in a permutation pass it also advances `beta_term`.
- `NextPass` is the scope join followed by the next pass. After the last pass
  of a proof it moves to the next proof, or returns.
- `KernelRun` is a successful CUDA launch and copy back.
- `KernelFail` is any of the early `return values;`.

The compiled graphs are abstracted in `QuotientAssembly` to the values they
produce per row. `ExprCompiler` checks that they produce exactly those values.
That split keeps each model small enough for TLC.

## Runs

| Run | What it checks | Bounds |
|---|---|---|
| `graph_builder` | `WellFormed` after every sequence of builder calls | Z_7, one advice column at one registered rotation, one extra constant, Store and Horner requests with up to 1 part, 2 calculations (195,946 states) |
| `graph_handles` | `HandlesStableProp`: no builder call changes or moves an existing constant, rotation or calculation, so a handle (`ValueSource`, rotation index) held by a caller stays valid | Z_7, rotations {0, 1}, Store requests only, no parts (400 states) |
| `compiler_gates` | `GraphsWellFormed`, `GatesMatchReference`: CSE correctness (spec §8) | Two polynomials from shapes covering every rewrite rule: all depth-one expressions over constants 0..3, two rotations of one column, fixed, instance and challenge, plus the depth-two peephole shapes. N'=4, rot_scale 2, two witness tables, two `previous_value`s |
| `compiler_lookups` | `GraphsWellFormed`, `LookupsMatchReference` | One lookup with 1-2 expressions per side |
| `quotient_cpu` | `FinalMatchesReference`; `BetaTermTracksRow`: in the permutation pass each worker's `beta_term` is ω^(start + rows done), so it equals ω^idx for the row it is about to write | See below |
| `quotient_cuda` | `FinalMatchesReference` with the kernel; `KernelReadsPrepared`: the kernel reads only a `combined_data_in` that every Block 1 worker of the current proof has finished | Same instance with CUDA="1" |
| `quotient_cuda_failure` | `ReturnsWholePasses`: when a CUDA set-up step fails, every row of the returned vector has had the same passes folded in (all of the earlier proofs, gates and permutation of the current one), since `return values;` comes only after the Block 1 join | CUDA="1", the driver may fail (345 states) |
| `quotient_partial_on_failure` | `FinalMatchesReference` | Expected violation: see Findings |
| `quotient_ragged_inputs` | `InputShapesAgree` | Expected violation: one input has a permutations list shorter than its advice list |
| `quotient_mischunked_permutation` | `PermChunkingAgrees` | Expected violation: one input's proof A has one permutation set for two column chunks |
| `refinement_cpu` | `Refinement`: evaluate_h implements `QuotientProofs` | The `quotient_cpu` instance |
| `refinement_cuda_failure` | `Refinement` with the kernel and its failures | The `quotient_cpu` instance with CUDA="1" and a driver that may fail |

Instance and bounds of the `quotient_*` runs:
- Z_73, N'=8, three threads, so chunks of 3, 3 and 2 rows.
- ω=10, ζ=8, δ=2.
- Blinding factors 1, so `r_last` wraps for rows 0-3.
- Degree 4, so permutation column chunks of 2.
- Three permutation columns, one of each type, so two column chunks and the
  delta ladder crosses a chunk boundary.
- Inputs: the four lists of the batches ⟨A, B⟩, ⟨B⟩ and ⟨⟩, each of equal
  length; the two violation runs add one ragged or mis-chunked input. Proof A has 2 gates, 2 sets and 1 lookup;
  proof B has 1 gate, no sets and 1 lookup. So the permutation pass is both
  taken and skipped.

Why these bounds are enough:
- `compiler_gates` gives every rewrite rule of `add_expression` an
  expression of its shape, and each mutant below is caught.
- Three workers over 8 rows include a short last chunk.
- Two proofs exercise the per-proof reset of `combined_data_in` and the
  accumulation across proofs.

**Fairness.** `WF` holds for each worker, for the join and for the kernel step.
A rayon worker runs to the end of its chunk without blocking, and the caller
blocks in the scope until all workers finish (spec §5: "each worker runs to
completion"). The fairness is used by the refinement runs only: the abstract
`QuotientProofs` has `WF` on its steps, so `Refinement` also says that the
call moves through every proof to its return. No run checks termination on
its own: every loop of the model is bounded and every step fair, so it
would hold whatever the code does. The compiler and quotient cfgs switch deadlock checking off,
because a finished `Evaluator::new` and a returned `evaluate_h` are final
states. `graph_builder` and `graph_handles` check for deadlock.

**Mutants.** Each property of a passing run is broken by a plausible bug in a
mapped definition. `PROJECT.json` lists them:
- `add_constant` without deduplication;
- `add_calculation` without the increment;
- `0 - b` compiled to `b`;
- β and γ swapped in the lookup graph;
- `current_delta` reseeded per column chunk;
- a join that returns once any one worker has finished (breaks `KernelReadsPrepared`);
- `r_next` and `r_prev` swapped in `combined_data_in`;
- a kernel failure that may return before the kernel stage, mid-pass (breaks `ReturnsWholePasses`);
- `beta_term` seeded with ω^t for worker index t instead of ω^start (breaks `BetaTermTracksRow`);
- a new rotation inserted at the front of the list (breaks `HandlesStableProp`).

## Refinement

`QuotientProofs` is the specification a caller of `evaluate_h` relies on. The
proofs of the batch are taken in order. Taking proof k replaces every row's
value `v` by the Horner fold of `v` with that proof's residuals (gates,
permutation, lookups). When the accelerator may fail, `Fail` returns some
vector of field elements. The residuals and the Horner step are operator
constants. `QuotientRefinement` substitutes `RefResiduals` and `HornerFold`
of `QuotientAssembly` for them.

In the implementation, a proof's contribution is spread over many steps:
worker rows, joins, Block 1 and the kernel. Mid-proof, some rows have been
updated and others have not, so the abstract values cannot be read off
`values`. The history variable `snapshot` records `values` whenever the proof
index moves. It is never read by the implementation. The refinement mapping
sends `values` to `snapshot` while the call runs, and to `values` once it has
returned. Then:
- every worker row, join and Block 1 step is an abstract stutter;
- the end of a proof is one `ProofStep`;
- a CUDA failure is a `Fail`.

TLC checks `Refinement` on both paths. `refinement_cpu` catches
`SpawnBetaThreadIndex`, which seeds `beta_term` with ω^t for worker index t
instead of ω^start. `refinement_cuda_failure` catches `r_next`/`r_prev`
swapped in `combined_data_in`.

## Findings

**CUDA failure returns a partial quotient.** This is a spec/code divergence,
shown by `quotient_partial_on_failure`. When any CUDA set-up step fails,
`evaluate_h_with_cuda` prints the error and returns `values`. At that point
the gate and permutation terms of the current proof are folded in, but its
lookup terms and all later proofs are not. TLC shows a trace where the
returned vector differs from the Horner combination of all residuals. Spec §7
says every failure is fatal. Spec §9 says the implementation should complete
on the CPU or propagate the error, and names this exact behaviour.

**The proof zip truncates a ragged batch.** This is a spec/code divergence,
shown by `quotient_ragged_inputs`. `evaluate_h` zips advice, instance, lookups
and permutations (l.399-403). When one list is shorter, the later proofs are
dropped, and a quotient of the prefix is returned. Spec §7 says unequal
lengths "cause an immediate abort".

**The permutation pass truncates a mis-chunked set list.** This is a spec/code
divergence, shown by `quotient_mischunked_permutation`. The permutation pass
zips `sets` with `columns.chunks(chunk_len)` (l.481-484). With fewer sets than
column chunks, the columns of the unmatched chunks add no product terms, and
no error is raised. Spec §4.8 requires the chunking to match the committed
one, and §7 lists the mismatch as a programmer error.

## Proofs (TLAPS)

`GraphEvaluatorProofs` proves two theorems for all values of the constants,
under `GraphAssumption` and `PAssumption`:

- `TypeCorrect`: `Spec => []TypeOK`.
- `WellFormedInvariant`: `Spec => []WellFormed`. `TLC` checks the same
  property in `graph_builder`.

The inductive invariant is `TypeOK /\ WellFormed`. Well-formedness alone is not
inductive, because `add_calculation`'s deduplication and operand checks need
the record types of the graph.

The argument is stated once per operation, as the lemmas `AddRotationWF`,
`AddConstantWF` and `AddCalculationWF`: each operation, applied to a typed,
well-formed graph and an operand the caller can hold, yields a typed,
well-formed graph. Each lemma has one step per conjunct of `WellFormedG`:
- `SlotMonotone`: slots defined before stay defined.
- `RequestOperands`: every operand a caller can hold is defined.
- New calculations get target `Len(calculations)`, so targets stay positions.
- Dedup keeps both the pool and the calculations duplicate-free.

`ChunkingProofs` proves `ChunksPartitionRows` under `ChunkingAssumption`
(N' and num_threads positive): every row `idx` lies in chunk
`idx \div ChunkSize`, that chunk is one of the spawned chunks, and the row
lies in no other chunk. So the workers of a pass write disjoint sets of rows
that cover the domain, for every size and thread count. The arithmetic is
done once, over plain integers, in the lemmas `StartInside` and `BlockOfRow`,
because the SMT backend cannot handle products with the opaque `ChunkSize`.

`FieldProofs` proves `RotationLaws` for every domain size n, rotation scale
and rotation:
- `get_rotation_idx` lands in `0..n-1`, even for negative rotations;
- rotation 0 is the identity on the domain;
- rotating by r and then by -r returns to the starting row.

It rests on `ModShift`: `((a % n) + k) % n = (a + k) % n`. That in turn
rests on the uniqueness of the remainder, proved by a case split on the sign
of the quotient difference.

`QuotientAssemblyProofs` proves `KernelReadsPreparedInvariant`:
`Spec => []KernelReadsPrepared` for every domain size, thread count and set
of inputs, under `ChunkingAssumption` and `InputsAssumption` (every list the
caller passes is a finite sequence). `quotient_cuda` checks the same property
on its instance. The property is not inductive: it speaks only of the kernel
stage, while what makes it hold is built up row by row in the Block 1 passes
before it. The inductive invariant `IInv` adds:
- the control state: `batch` is the zip of `input`, `proof` and `stage` are
  in range, and `pos[t] <= ChunkLen(t)` for every worker;
- the shape of `combined`: one function on the rows per lookup of the current
  proof, as `ZeroCombined` allocates it;
- the content: under CUDA, entry `[n][idx]` holds `CombinedRow` for lookup n
  once the pass of lookup n is over (`StageBase + n < stage`), or, during that
  pass, once row `idx` is behind its worker's cursor
  (`idx - ChunkStart(ChunkOf(idx)) < pos[ChunkOf(idx)]`).

At a join, every cursor is at its chunk's end. `JoinCoversRows`, which rests on
`ChunksPartitionRows`, then turns "behind every cursor" into "every row". At
the kernel stage, `StageKind` gives `stage = StageBase + L + 1`, so every
lookup's pass is over. The step proof has one lemma per action:
`WorkerRowIInv`, `NextPassIInv`, `KernelRunIInv` and `KernelFailIInv`. The
worker lemma splits on whether the written row is the row asked about. The
lemmas `ZipProofsShape` and `StagesShape` give the lengths and stage kinds of
the zip and of the pass list. `IInv` was model-checked on the `quotient_cuda`
instance before it was proved.

`QuotientAssemblyProofs` also proves `BetaTermInvariant`:
`Spec => []BetaTermTracksRow`, the property `quotient_cpu` checks. Each worker
of the permutation pass seeds `beta_term` with ω^start (l.447) and multiplies
it by ω after each row (l.511); the row it writes is `start + pos[t]`. The
property speaks only of the permutation stage, and is not inductive: the other
passes advance `pos` without touching `beta_term`, and the join resets both.
The strengthening `BInv` states, at every stage, that
`beta_term[t] = ω^BetaExp(t)`, with `BetaExp(t)` equal to `start + pos[t]`
in a permutation pass and `start` in any other. A worker step then multiplies
by ω exactly when it adds 1 to the exponent (`OmegaStep`), a new pass re-seeds
both (`SpawnBetaShape`), and the kernel stage, which comes after stage 1, is
never the first stage (`StageOneGates`). The step uses `IInv` for the typing of
the cursors. `BInv` was model-checked on the CPU and CUDA instances first.

The proof needs `FPow` unfolded. A recursive function definition is a `CHOOSE`
of a function satisfying its equation, so `FieldProofs` first shows that such a
function exists: `PowTable(a, n, g)` says that g is a table of the first n+1
powers, `PowTableExists` and `PowTableUnique` build and pin it down by
induction, and the witness `PowW(a)` collects the last entries of the tables.
The induction is done by hand: the least counterexample, from
`WFMin` and `NatLessThanWellFounded` of `WellFoundedInduction` (`LeastNat`),
contradicts its predecessor. The lemma `FPowDef`, on which `BetaTermInvariant` rests, is the result:
`FPow(a, n) = IF n = 0 THEN 1 ELSE FMul(a, FPow(a, n - 1))`, and `FPowType`
puts every power in F.

`GraphEvaluatorProofs` proves `HandlesStableThm`: `Spec => HandlesStableProp`,
the action property of `graph_handles`. Each of `add_constant`,
`add_rotation` and `add_calculation` either returns an existing index or
appends (`PrefixAppend`), and a stutter keeps the lists (`PrefixSelf`). The
proof needs only `TypeOK`, from `TypeCorrect`.

**Left to TLC only:**
- The liveness part of `Refinement`, because liveness is out of the prover's reach.
- The compiler and quotient properties. `ExprCompiler` is recursive over
  expressions: `add_expression` and the reference evaluator are RECURSIVE
  operators, and induction over data cannot be instantiated by the installed
  provers.
- `FinalMatchesReference` and `Refinement`. Both are about the values that `HornerFold` and the term
  folds compute. Those are `FoldLeft`s of the community `Folds` module, and
  every fact about what a fold returns (closure in F, or
  `HornerFold(HornerFold(v, a), b) = HornerFold(v, a \o b)`) needs induction
  with an operator parameter. `QuotientAssemblyProofs` therefore covers the
  control state and `combined`, and not the fold values.

## Not modelled

- The CUDA driver and kernel internals. Only their outcomes are modelled, and
  the kernel is held to the contract in the comment.
- `coeff_to_extended`, the FFTs and the proving key. Their outputs are inputs
  to the model.
- Timers and console output.
- Memory. The CUDA path allocates every lookup's coset lists at once
  (l.790-799), against spec §5's O(N') per lookup. This is listed as a hazard
  without a property.
- The i32 conversions at l.782-783. They panic only past 2^31 rows, far
  beyond the domains halo2 supports, so they are not a hazard of this code.

## Plan for later work

1. The fold values: writing `HornerFold` and the term folds as recursive
   functions of the list length, as `FPow` now is, would let the same
   least-element induction prove their closure in F and with it
   `FinalMatchesReference`.
2. Graph determinism (spec §8): compile the same expressions twice and
   compare the graphs.
3. Refinement of the CPU path by the CUDA path with no failures, through the
   same abstract specification.
