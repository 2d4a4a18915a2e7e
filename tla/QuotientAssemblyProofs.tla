------------------------ MODULE QuotientAssemblyProofs ------------------------
(***************************************************************************)
(* Proofs about evaluate_h (QuotientAssembly) for every domain size,      *)
(* thread count and batch: the CUDA kernel reads a combined_data_in that   *)
(* Block 1 has filled completely for the current proof.                    *)
(*                                                                         *)
(* The accumulated `values` are folds (FoldLeft), whose laws need          *)
(* induction over sequences, out of the provers' reach; what is proved     *)
(* here is about the control state (proof, stage, the workers' progress    *)
(* and the joins) and combined_data_in.                                    *)
(***************************************************************************)
EXTENDS QuotientAssembly, ChunkingProofs, FieldProofs, TLAPS

(***************************************************************************)
(* Lemmas about the chunks.                                                *)
(***************************************************************************)
\* Row p of chunk t lies in the domain and belongs to chunk t.
LEMMA ChunkRow ==
  ASSUME NEW t \in Chunks, NEW p \in Nat, p < ChunkLen(t)
  PROVE  /\ ChunkStart(t) + p \in Rows
         /\ ChunkOf(ChunkStart(t) + p) = t
<1>1. ChunkStart(t) \in Rows /\ ChunkLen(t) \in 1..ChunkSize
  BY ChunkLenBounds
<1>2. ChunkStart(t) + ChunkLen(t) <= NE
  BY <1>1, ChunkingAssumption DEF ChunkLen, Rows
<1>3. ChunkStart(t) + p \in Rows
  BY <1>1, <1>2, ChunkingAssumption DEF Rows
<1>4. ChunkStart(t) <= ChunkStart(t) + p /\ ChunkStart(t) + p < ChunkStart(t) + ChunkLen(t)
  BY <1>1 DEF Rows
<1>5. \A u \in Chunks : ChunkStart(u) <= ChunkStart(t) + p
                         /\ ChunkStart(t) + p < ChunkStart(u) + ChunkLen(u)
                         => u = ChunkOf(ChunkStart(t) + p)
  BY <1>3, ChunksPartitionRows
<1> QED
  BY <1>3, <1>4, <1>5

\* When every worker has finished its chunk, every row has been processed.
LEMMA JoinCoversRows ==
  ASSUME NEW pp \in [Chunks -> Nat],
         \A t \in Chunks : pp[t] = ChunkLen(t),
         NEW idx \in Rows
  PROVE  idx - ChunkStart(ChunkOf(idx)) < pp[ChunkOf(idx)]
<1>1. /\ ChunkOf(idx) \in Chunks
      /\ idx < ChunkStart(ChunkOf(idx)) + ChunkLen(ChunkOf(idx))
  BY ChunksPartitionRows
<1>2. ChunkStart(ChunkOf(idx)) \in Int /\ idx \in Int
  BY <1>1, ChunkLenBounds DEF Rows
<1> QED
  BY <1>1, <1>2

(***************************************************************************)
(* Lemmas about the batch and the passes of a proof.                       *)
(***************************************************************************)
\* A sequence has a natural length and the domain 1..Len.
LEMMA SeqLen ==
  ASSUME NEW s, IsSeq(s)
  PROVE  Len(s) \in Nat /\ DOMAIN s = 1..Len(s)
BY DEF IsSeq

\* A function on 1..m is a sequence of length m.
LEMMA LenOfFcn ==
  ASSUME NEW S, NEW m \in Nat, NEW f \in [1..m -> S]
  PROVE  Len(f) = m
OBVIOUS

\* The proof loop's zip yields at most as many proofs as there are lookup
\* lists, and proof k takes the k-th lookup list and permutation sets.
LEMMA ZipProofsShape ==
  ASSUME NEW in \in Inputs
  PROVE  /\ Len(ZipProofs(in)) \in 0..Len(in.lookups)
         /\ ZipProofs(in) # <<>> => Len(ZipProofs(in)) # 0
         /\ \A k \in 1..Len(ZipProofs(in)) :
              /\ ZipProofs(in)[k].lookups = in.lookups[k]
              /\ ZipProofs(in)[k].sets = in.permutations[k]
<1> DEFINE lens == {Len(in.advice), Len(in.instance), Len(in.lookups), Len(in.permutations)}
           n    == CHOOSE m \in lens : \A l \in lens : m <= l
<1>1. lens \subseteq Nat
  BY InputsAssumption, SeqLen
<1>2. \E m \in lens : \A l \in lens : m <= l
  BY <1>1
<1>3. n \in lens /\ n <= Len(in.lookups) /\ n \in Nat
  BY <1>1, <1>2
<1>4. ZipProofs(in) = [k \in 1..n |-> [advice   |-> in.advice[k].cols,
                                      gates    |-> in.advice[k].gates,
                                      instance |-> in.instance[k],
                                      sets     |-> in.permutations[k],
                                      lookups  |-> in.lookups[k]]]
  BY DEF ZipProofs
<1>5. Len(ZipProofs(in)) = n
  <2> DEFINE z == ZipProofs(in)
  <2>1. z \in [1..n -> {z[k] : k \in 1..n}]
    BY <1>4
  <2> QED
    BY <1>3, <2>1, LenOfFcn
<1>6. \A k \in 1..n : ZipProofs(in)[k].lookups = in.lookups[k]
                       /\ ZipProofs(in)[k].sets = in.permutations[k]
  BY <1>4
<1>7. n = 0 => ZipProofs(in) = <<>>
  <2>1. ZipProofs(in) \in [1..n -> {ZipProofs(in)[k] : k \in 1..n}]
    BY <1>4
  <2> QED
    BY <2>1
<1> QED
  BY <1>3, <1>5, <1>6, <1>7

\* The passes of a proof with L lookups: gates, the permutation when the
\* proof has sets, then one CPU pass per lookup, or on the CUDA path one
\* Block 1 pass per lookup followed by the kernel.
StageBase(pr) == IF pr.sets # <<>> THEN 2 ELSE 1

LEMMA StagesShape ==
  ASSUME NEW pr, NEW L \in Nat, Len(pr.lookups) = L
  PROVE  /\ Len(Stages(pr)) = StageBase(pr) + L + (IF UseCuda THEN 1 ELSE 0)
         /\ \A i \in 1..StageBase(pr) : Stages(pr)[i].kind \in {"gates", "perm"}
         /\ UseCuda => \A n \in 1..L : Stages(pr)[StageBase(pr) + n] = [kind |-> "prep", n |-> n]
         /\ UseCuda => Stages(pr)[StageBase(pr) + L + 1].kind = "kernel"
         /\ ~UseCuda => \A i \in 1..Len(Stages(pr)) : Stages(pr)[i].kind \notin {"prep", "kernel"}
<1>1. CASE pr.sets # <<>> /\ UseCuda
  BY <1>1 DEF Stages, StageBase
<1>2. CASE pr.sets # <<>> /\ ~UseCuda
  BY <1>2 DEF Stages, StageBase
<1>3. CASE pr.sets = <<>> /\ UseCuda
  BY <1>3 DEF Stages, StageBase
<1>4. CASE pr.sets = <<>> /\ ~UseCuda
  BY <1>4 DEF Stages, StageBase
<1> QED
  BY <1>1, <1>2, <1>3, <1>4

\* What the kind of pass s tells about s: only the CUDA path has Block 1
\* passes and a kernel pass; Block 1 of lookup n is pass StageBase + n,
\* the kernel is the last pass.
LEMMA StageKind ==
  ASSUME NEW pr, NEW L \in Nat, Len(pr.lookups) = L,
         NEW s \in 1..Len(Stages(pr))
  PROVE  /\ StageBase(pr) \in {1, 2}
         /\ Stages(pr)[s].kind = "kernel" => UseCuda /\ s = StageBase(pr) + L + 1
         /\ Stages(pr)[s].kind = "prep" =>
              /\ UseCuda
              /\ s - StageBase(pr) \in 1..L
              /\ Stages(pr)[s].n = s - StageBase(pr)
         /\ UseCuda /\ StageBase(pr) < s /\ s <= StageBase(pr) + L =>
              Stages(pr)[s].kind = "prep"
<1> DEFINE B == StageBase(pr)
<1>1. B \in {1, 2}
  BY DEF StageBase
<1>2. CASE UseCuda
  <2>1. Len(Stages(pr)) = B + L + 1
    BY <1>2, StagesShape
  <2>2. CASE s <= B
    <3>1. Stages(pr)[s].kind \in {"gates", "perm"}
      BY <1>1, <2>2, StagesShape
    <3> QED
      BY <1>1, <2>2, <3>1
  <2>3. CASE B < s /\ s <= B + L
    <3>1. s - B \in 1..L /\ s = B + (s - B)
      BY <1>1, <2>3
    <3>2. \A n \in 1..L : Stages(pr)[B + n] = [kind |-> "prep", n |-> n]
      BY <1>2, StagesShape
    <3>3. Stages(pr)[s] = [kind |-> "prep", n |-> s - B]
      BY <3>1, <3>2
    <3>4. Stages(pr)[s].kind = "prep" /\ Stages(pr)[s].n = s - B
      BY <3>3
    <3> QED
      BY <1>1, <1>2, <2>3, <3>1, <3>4
  <2>4. CASE s = B + L + 1
    <3>1. Stages(pr)[s].kind = "kernel"
      BY <1>2, <2>4, StagesShape
    <3> QED
      BY <1>1, <1>2, <2>4, <3>1
  <2> QED
    BY <1>1, <2>1, <2>2, <2>3, <2>4
<1>3. CASE ~UseCuda
  BY <1>1, <1>3, StagesShape
<1> QED
  BY <1>1, <1>2, <1>3

\* Every proof of the batch has a natural number of lookups.
LEMMA BatchLookups ==
  ASSUME NEW in \in Inputs, NEW k \in 1..Len(ZipProofs(in))
  PROVE  Len(ZipProofs(in)[k].lookups) \in Nat
<1>1. Len(ZipProofs(in)) \in 0..Len(in.lookups)
      /\ ZipProofs(in)[k].lookups = in.lookups[k]
  BY ZipProofsShape
<1>2. Len(in.lookups) \in Nat /\ DOMAIN in.lookups = 1..Len(in.lookups)
  BY InputsAssumption, SeqLen
<1>3. IsSeq(in.lookups[k])
  BY <1>1, <1>2, InputsAssumption
<1> QED
  BY <1>1, <1>3, SeqLen

-----------------------------------------------------------------------------
(***************************************************************************)
(* The inductive invariant.  Lookup n's Block 1 pass is pass               *)
(* StageBase + n of the proof; row idx of it is done when the worker of    *)
(* idx's chunk has gone past it.  An entry of combined_data_in is          *)
(* prepared when its lookup's pass is over, or is the current pass and     *)
(* its row is done; a prepared entry holds the packed row of Block 1.      *)
(* The control conjuncts keep proof and stage inside the batch and its     *)
(* passes, each worker inside its chunk, and combined_data_in shaped for   *)
(* the current proof's lookups, so that Block 1's writes land.             *)
(***************************************************************************)
PR == batch[proof]

Done(idx) == idx - ChunkStart(ChunkOf(idx)) < pos[ChunkOf(idx)]

Prepared(n, idx) ==
  \/ StageBase(PR) + n < stage
  \/ StageBase(PR) + n = stage /\ Done(idx)

IInv ==
  /\ input \in Inputs
  /\ batch = ZipProofs(input)
  /\ phase \in {"run", "returned"}
  /\ pos \in [Chunks -> Nat]
  /\ \A t \in Chunks : pos[t] <= ChunkLen(t)
  /\ phase = "run" =>
       /\ proof \in 1..Len(batch)
       /\ stage \in 1..Len(Stages(PR))
       /\ DOMAIN combined = 1..Len(PR.lookups)
       /\ \A n \in 1..Len(PR.lookups) : DOMAIN combined[n] = Rows
       /\ UseCuda =>
            \A n \in 1..Len(PR.lookups), idx \in Rows :
              Prepared(n, idx) => combined[n][idx] = CombinedRow(PR.lookups[n], idx)

(***************************************************************************)
(* IInv holds initially and is kept by every action.                       *)
(***************************************************************************)
LEMMA InitIInv == Init => IInv
<1> SUFFICES ASSUME Init PROVE IInv
  OBVIOUS
<1>1. input \in Inputs /\ batch = ZipProofs(input)
  BY DEF Init
<1>2. pos \in [Chunks -> Nat] /\ \A t \in Chunks : pos[t] <= ChunkLen(t)
  BY ChunkLenBounds DEF Init, Spawn
<1>3. phase \in {"run", "returned"}
  BY DEF Init
<1>4. ASSUME phase = "run"
      PROVE  /\ proof \in 1..Len(batch)
             /\ stage \in 1..Len(Stages(PR))
             /\ DOMAIN combined = 1..Len(PR.lookups)
             /\ \A n \in 1..Len(PR.lookups) : DOMAIN combined[n] = Rows
             /\ UseCuda =>
                  \A n \in 1..Len(PR.lookups), idx \in Rows :
                    Prepared(n, idx) => combined[n][idx] = CombinedRow(PR.lookups[n], idx)
  <2>1. batch # <<>> /\ proof = 1 /\ stage = 1 /\ combined = ZeroCombined(batch[1])
    BY <1>4 DEF Init
  <2>2. Len(batch) \in Nat \ {0}
    BY <1>1, <2>1, ZipProofsShape
  <2>3. proof \in 1..Len(batch) /\ PR = batch[1]
    BY <2>1, <2>2 DEF PR
  <2>4. Len(PR.lookups) \in Nat
    BY <1>1, <2>2, <2>3, BatchLookups
  <2>5. StageBase(PR) \in {1, 2} /\ Len(Stages(PR)) >= StageBase(PR)
    BY <2>4, StagesShape DEF StageBase
  <2>6. DOMAIN combined = 1..Len(PR.lookups)
        /\ \A n \in 1..Len(PR.lookups) : DOMAIN combined[n] = Rows
    BY <2>1, <2>3 DEF ZeroCombined
  <2>7. \A n \in 1..Len(PR.lookups), idx \in Rows : ~Prepared(n, idx)
    BY <2>1, <2>5 DEF Prepared
  <2> QED
    BY <2>1, <2>3, <2>5, <2>6, <2>7
<1> QED
  BY <1>1, <1>2, <1>3, <1>4 DEF IInv

LEMMA KernelFailIInv ==
  ASSUME IInv, KernelFail
  PROVE  IInv'
BY DEF IInv, KernelFail, PR, Prepared, Done

\* The call returns: nothing is left to hold but the control conjuncts.
LEMMA ReturnIInv ==
  ASSUME IInv, phase' = "returned", input' = input, batch' = batch,
         pos' \in [Chunks -> Nat], \A t \in Chunks : pos'[t] <= ChunkLen(t)
  PROVE  IInv'
BY DEF IInv

\* The next proof starts with its first pass and a zeroed combined_data_in.
LEMMA NewProofIInv ==
  ASSUME IInv, phase = "run", proof < Len(batch),
         proof' = proof + 1, stage' = 1,
         combined' = ZeroCombined(batch[proof + 1]),
         input' = input, batch' = batch, phase' = phase,
         pos' \in [Chunks -> Nat], \A t \in Chunks : pos'[t] <= ChunkLen(t)
  PROVE  IInv'
<1>1. proof' \in 1..Len(batch') /\ PR' = batch[proof + 1]
  BY DEF IInv, PR
<1>2. Len(PR'.lookups) \in Nat
  BY <1>1, BatchLookups DEF IInv
<1>3. StageBase(PR') \in {1, 2} /\ Len(Stages(PR')) >= StageBase(PR')
  BY <1>2, StagesShape DEF StageBase
<1>4. DOMAIN combined' = 1..Len(PR'.lookups)
      /\ \A n \in 1..Len(PR'.lookups) : DOMAIN combined'[n] = Rows
  BY <1>1 DEF ZeroCombined
<1>5. \A n \in 1..Len(PR'.lookups), idx \in Rows : ~Prepared(n, idx)'
  BY <1>3 DEF Prepared
<1>6. stage' \in 1..Len(Stages(PR'))
  BY <1>3
<1>7. input' \in Inputs /\ batch' = ZipProofs(input') /\ phase' \in {"run", "returned"}
  BY DEF IInv
<1> QED
  BY <1>1, <1>4, <1>5, <1>6, <1>7 DEF IInv

LEMMA NextPassIInv ==
  ASSUME IInv, NextPass
  PROVE  IInv'
<1>1. phase = "run" /\ AllJoined /\ pos' = Spawn /\ UNCHANGED <<input, batch, values>>
  BY DEF NextPass
<1>2. pos' \in [Chunks -> Nat] /\ \A t \in Chunks : pos'[t] <= ChunkLen(t)
  BY <1>1, ChunkLenBounds DEF Spawn
<1>3. CASE stage < Len(Stages(PR))
  <2>1. stage' = stage + 1 /\ UNCHANGED <<proof, phase, combined>>
    BY <1>1, <1>3 DEF NextPass, PR
  <2>2. PR' = PR /\ proof \in 1..Len(batch) /\ stage' \in 1..Len(Stages(PR))
    BY <1>1, <1>3, <2>1 DEF IInv, PR
  <2>3. ASSUME UseCuda, NEW n \in 1..Len(PR.lookups), NEW idx \in Rows, Prepared(n, idx)'
        PROVE  combined[n][idx] = CombinedRow(PR.lookups[n], idx)
    <3>1. /\ ChunkOf(idx) \in Chunks /\ ChunkStart(ChunkOf(idx)) <= idx
          /\ ChunkStart(ChunkOf(idx)) \in Rows /\ idx \in Nat
      BY ChunksPartitionRows, ChunkLenBounds DEF Rows
    <3>2. ~Done(idx)'
      BY <1>1, <3>1 DEF Done, Spawn, Rows
    <3>6. StageBase(PR) \in {1, 2} /\ stage \in Nat
      BY <1>1 DEF StageBase, IInv
    <3>3. StageBase(PR) + n <= stage
      BY <2>1, <2>2, <2>3, <3>2, <3>6 DEF Prepared
    <3>4. Done(idx)
      <4>1. pos \in [Chunks -> Nat] /\ \A t \in Chunks : pos[t] = ChunkLen(t)
        BY <1>1 DEF IInv, AllJoined
      <4> QED
        BY <4>1, JoinCoversRows DEF Done
    <3>5. Prepared(n, idx)
      BY <3>3, <3>4, <3>6 DEF Prepared
    <3> QED
      BY <1>1, <2>3, <3>5 DEF IInv
  <2> QED
    BY <1>1, <1>2, <2>1, <2>2, <2>3 DEF IInv
<1>4. CASE ~(stage < Len(Stages(PR))) /\ proof < Len(batch)
  <2>1. proof' = proof + 1 /\ stage' = 1 /\ combined' = ZeroCombined(batch[proof + 1])
        /\ phase' = phase
    BY <1>4 DEF NextPass, EndProof, PR
  <2> QED
    BY <1>1, <1>2, <1>4, <2>1, NewProofIInv
<1>5. CASE ~(stage < Len(Stages(PR))) /\ ~(proof < Len(batch))
  <2>1. phase' = "returned"
    BY <1>5 DEF NextPass, EndProof, PR
  <2> QED
    BY <1>1, <1>2, <2>1, ReturnIInv
<1> QED
  BY <1>3, <1>4, <1>5

LEMMA KernelRunIInv ==
  ASSUME IInv, KernelRun
  PROVE  IInv'
<1>1. phase = "run" /\ UNCHANGED <<input, batch, pos>>
  BY DEF KernelRun
<1>2. pos' \in [Chunks -> Nat] /\ \A t \in Chunks : pos'[t] <= ChunkLen(t)
  BY <1>1 DEF IInv
<1>3. CASE proof < Len(batch)
  <2>1. proof' = proof + 1 /\ stage' = 1 /\ combined' = ZeroCombined(batch[proof + 1])
        /\ phase' = phase
    BY <1>3 DEF KernelRun, EndProof
  <2> QED
    BY <1>1, <1>2, <1>3, <2>1, NewProofIInv
<1>4. CASE ~(proof < Len(batch))
  <2>1. phase' = "returned"
    BY <1>4 DEF KernelRun, EndProof
  <2> QED
    BY <1>1, <1>2, <2>1, ReturnIInv
<1> QED
  BY <1>3, <1>4

\* A worker processes the next row of its chunk; a Block 1 worker writes
\* that row of its lookup's combined_data_in.
LEMMA WorkerRowIInv ==
  ASSUME IInv, NEW t \in Chunks, WorkerRow(t)
  PROVE  IInv'
<1> DEFINE i0 == ChunkStart(t) + pos[t]
           st == CurStage
           L  == Len(PR.lookups)
           B  == StageBase(PR)
<1>1. /\ phase = "run" /\ st.kind # "kernel" /\ pos[t] < ChunkLen(t)
      /\ UNCHANGED <<input, batch, proof, stage, phase>>
      /\ pos' = [pos EXCEPT ![t] = @ + 1]
      /\ combined' = IF st.kind = "prep"
                     THEN [combined EXCEPT ![st.n][i0] = CombinedRow(PR.lookups[st.n], i0)]
                     ELSE combined
  BY DEF WorkerRow, PR
<1>2. pos[t] \in Nat /\ i0 \in Rows /\ ChunkOf(i0) = t
  BY <1>1, ChunkRow DEF IInv
<1>3a. /\ pos \in [Chunks -> Nat] /\ ChunkLen(t) \in Nat
       /\ pos'[t] = pos[t] + 1 /\ \A u \in Chunks \ {t} : pos'[u] = pos[u]
  BY <1>1, ChunkLenBounds, ChunkingAssumption DEF IInv
<1>3. pos' \in [Chunks -> Nat] /\ \A u \in Chunks : pos'[u] <= ChunkLen(u)
  BY <1>1, <1>2, <1>3a DEF IInv
<1>4. /\ PR' = PR /\ proof \in 1..Len(batch)
      /\ stage \in 1..Len(Stages(PR)) /\ stage' = stage
  BY <1>1 DEF IInv, PR
<1>5. L \in Nat
  BY <1>4, BatchLookups DEF IInv
<1>6. /\ B \in {1, 2}
      /\ st.kind = "prep" => UseCuda /\ stage - B \in 1..L /\ st.n = stage - B
      /\ UseCuda /\ B < stage /\ stage <= B + L => st.kind = "prep"
  <2>1. st = Stages(PR)[stage]
    BY DEF CurStage, PR
  <2>2. /\ StageBase(PR) \in {1, 2}
        /\ Stages(PR)[stage].kind = "prep" =>
             /\ UseCuda /\ stage - StageBase(PR) \in 1..L
             /\ Stages(PR)[stage].n = stage - StageBase(PR)
        /\ UseCuda /\ StageBase(PR) < stage /\ stage <= StageBase(PR) + L =>
             Stages(PR)[stage].kind = "prep"
    <3>1. stage \in 1..Len(Stages(PR)) /\ L \in Nat /\ Len(PR.lookups) = L
      BY <1>4, <1>5
    <3> QED
      BY <3>1, StageKind, Zenon
  <2> QED
    BY <2>1, <2>2
<1>7. DOMAIN combined = 1..L /\ \A n \in 1..L : DOMAIN combined[n] = Rows
  BY <1>1 DEF IInv
<1>8. DOMAIN combined' = 1..L' /\ \A n \in 1..L' : DOMAIN combined'[n] = Rows
  BY <1>1, <1>4, <1>6, <1>7
<1>9. ASSUME UseCuda, NEW n \in 1..L, NEW idx \in Rows, Prepared(n, idx)'
      PROVE  combined'[n][idx] = CombinedRow(PR.lookups[n], idx)
  <2>1. CASE st.kind = "prep" /\ n = st.n /\ idx = i0
    BY <1>1, <1>2, <1>7, <2>1
  <2>2. CASE ~(st.kind = "prep" /\ n = st.n /\ idx = i0)
    <3>1. combined'[n][idx] = combined[n][idx]
      BY <1>1, <1>6, <1>7, <2>2
    <3>2. /\ ChunkOf(idx) \in Chunks /\ ChunkStart(ChunkOf(idx)) <= idx
          /\ ChunkStart(ChunkOf(idx)) \in Rows /\ idx \in Nat
      BY ChunksPartitionRows, ChunkLenBounds DEF Rows
    <3>3. stage \in Nat
      BY <1>4
    <3>4. ASSUME B + n < stage PROVE Prepared(n, idx)
      BY <3>4 DEF Prepared
    <3>5. ASSUME B + n = stage PROVE Prepared(n, idx)
      <4>1. Done(idx)'
        BY <1>4, <1>6, <3>3, <3>5, <1>9 DEF Prepared
      <4>2. CASE ChunkOf(idx) # t
        <5>1. pos'[ChunkOf(idx)] = pos[ChunkOf(idx)]
          BY <1>3a, <3>2, <4>2
        <5>2. Done(idx)
          BY <4>1, <5>1 DEF Done
        <5> QED
          BY <3>5, <5>2 DEF Prepared
      <4>3. CASE ChunkOf(idx) = t
        <5>1. idx - ChunkStart(t) < pos[t] + 1
          BY <1>3a, <4>1, <4>3 DEF Done
        <5>2. idx # i0
          <6>1. st.kind = "prep" /\ st.n = n
            BY <1>6, <1>9, <3>3, <3>5
          <6> QED
            BY <2>2, <6>1
        <5>3. idx - ChunkStart(t) < pos[t]
          <6>1. ChunkStart(t) \in Rows
            BY ChunkLenBounds, Zenon
          <6>2. ChunkStart(t) \in Nat /\ pos[t] \in Nat
            BY <1>2, <6>1 DEF Rows
          <6> QED
            BY <3>2, <4>3, <5>1, <5>2, <6>2
        <5>4. Done(idx)
          BY <4>3, <5>3 DEF Done
        <5> QED
          BY <3>5, <5>4 DEF Prepared
      <4> QED
        BY <4>2, <4>3
    <3>6. Prepared(n, idx)
      <4>1. B + n < stage \/ B + n = stage
        BY <1>4, <1>9 DEF Prepared
      <4> QED
        BY <3>4, <3>5, <4>1
    <3>7. combined[n][idx] = CombinedRow(PR.lookups[n], idx)
      BY <1>1, <1>9, <3>6 DEF IInv
    <3> QED
      BY <3>1, <3>7
  <2> QED
    BY <2>1, <2>2
<1> QED
  BY <1>1, <1>3, <1>4, <1>8, <1>9 DEF IInv

\* Every step of the thread pool and of the calling thread keeps IInv.
LEMMA NextIInv == IInv /\ [Next]_vars => IInv'
<1> SUFFICES ASSUME IInv, [Next]_vars PROVE IInv'
  OBVIOUS
<1>1. CASE \E t \in Chunks : WorkerRow(t)
  BY <1>1, WorkerRowIInv
<1>2. CASE NextPass
  BY <1>2, NextPassIInv
<1>3. CASE KernelRun
  BY <1>3, KernelRunIInv
<1>4. CASE KernelFail
  BY <1>4, KernelFailIInv
<1>5. CASE UNCHANGED vars
  BY <1>5 DEF IInv, vars, PR, Prepared, Done
<1> QED
  BY <1>1, <1>2, <1>3, <1>4, <1>5 DEF Next

\* When the kernel stage comes, every Block 1 pass of the proof has joined,
\* so every lookup's combined row is prepared.
LEMMA IInvKernelReadsPrepared == IInv => KernelReadsPrepared
<1> SUFFICES ASSUME IInv, phase = "run", CurStage.kind = "kernel",
                    NEW n \in 1..Len(PR.lookups), NEW idx \in Rows
             PROVE  combined[n][idx] = CombinedRow(PR.lookups[n], idx)
  BY DEF KernelReadsPrepared, PR
<1> DEFINE L == Len(PR.lookups)
           B == StageBase(PR)
<1>1. proof \in 1..Len(batch) /\ stage \in 1..Len(Stages(PR))
  BY DEF IInv
<1>2. L \in Nat
  BY <1>1, BatchLookups DEF IInv
<1>3. /\ B \in {1, 2}
      /\ Stages(PR)[stage].kind = "kernel" => UseCuda /\ stage = B + L + 1
  <2>1. Len(PR.lookups) = L
    OBVIOUS
  <2> QED
    BY <1>1, <1>2, <2>1, StageKind, Zenon
<1>4. UseCuda /\ stage = B + L + 1
  BY <1>3 DEF CurStage, PR
<1>5. Prepared(n, idx)
  <2>1. B + n < stage
    BY <1>2, <1>3, <1>4
  <2> QED
    BY <2>1 DEF Prepared
<1> QED
  BY <1>4, <1>5 DEF IInv

\* The CUDA kernel reads a combined_data_in whose every entry is the
\* Block 1 row of its lookup: no Block 1 worker's write is missed or stale,
\* for every domain size, thread count and batch of proofs.
THEOREM KernelReadsPreparedInvariant == Spec => []KernelReadsPrepared
<1>1. Init => IInv
  BY InitIInv
<1>2. IInv /\ [Next]_vars => IInv'
  BY NextIInv
<1>3. IInv => KernelReadsPrepared
  BY IInvKernelReadsPrepared
<1> QED
  BY <1>1, <1>2, <1>3, PTL DEF Spec

-----------------------------------------------------------------------------
(***************************************************************************)
(* beta_term.  A worker's beta_term is seeded with omega^start at every    *)
(* spawn and multiplied by omega after each row of a permutation pass.  In *)
(* the other passes the workers advance their cursors but leave beta_term  *)
(* alone, so the exponent is the chunk start plus the cursor in a          *)
(* permutation pass and the chunk start otherwise.                         *)
(***************************************************************************)
BetaExp(t) == ChunkStart(t) + (IF CurStage.kind = "perm" THEN pos[t] ELSE 0)

BInv ==
  /\ pos \in [Chunks -> Nat]
  /\ betaTerm \in [Chunks -> F]
  /\ phase = "run" => \A t \in Chunks : betaTerm[t] = FPow(Omega, BetaExp(t))

\* Every proof starts with its gates pass.
LEMMA StageOneGates ==
  ASSUME NEW pr, Len(pr.lookups) \in Nat
  PROVE  Stages(pr)[1].kind = "gates"
BY DEF Stages

\* One row of a permutation pass: beta_term *= extended_omega (l.511).
LEMMA OmegaStep ==
  ASSUME NEW k \in Nat
  PROVE  FMul(FPow(Omega, k), Omega) = FPow(Omega, k + 1)
<1>1. Omega \in F
  BY QuotientAssumption
<1>2. FPow(Omega, k + 1) = FMul(Omega, FPow(Omega, k))
  BY <1>1, FPowDef
<1>3. FPow(Omega, k) \in F
  BY <1>1, FPowType
<1>4. \A x, y \in F : FMul(x, y) = FMul(y, x)
  BY DEF FMul, F
<1> QED
  BY <1>1, <1>2, <1>3, <1>4

\* The seed omega^start of every worker.
LEMMA SpawnBetaShape ==
  /\ SpawnBeta \in [Chunks -> F]
  /\ \A t \in Chunks : ChunkStart(t) \in Nat /\ SpawnBeta[t] = FPow(Omega, ChunkStart(t))
<1>1. \A t \in Chunks : ChunkStart(t) \in Nat
  BY ChunkLenBounds DEF Rows
<1>2. \A t \in Chunks : FPow(Omega, ChunkStart(t)) \in F
  BY <1>1, FPowType, QuotientAssumption
<1> QED
  BY <1>1, <1>2 DEF SpawnBeta

LEMMA InitBInv == Init => BInv
<1> SUFFICES ASSUME Init PROVE BInv
  OBVIOUS
<1>1. pos = Spawn /\ betaTerm = SpawnBeta
  BY DEF Init
<1>2. \A t \in Chunks : BetaExp(t) = ChunkStart(t)
  BY <1>1, SpawnBetaShape DEF BetaExp, Spawn
<1> QED
  BY <1>1, <1>2, SpawnBetaShape DEF BInv, Spawn

LEMMA WorkerRowBInv ==
  ASSUME BInv, NEW t0 \in Chunks, WorkerRow(t0)
  PROVE  BInv'
<1>1. /\ phase = "run" /\ phase' = "run"
      /\ CurStage' = CurStage
      /\ pos' = [pos EXCEPT ![t0] = @ + 1]
      /\ betaTerm' = [betaTerm EXCEPT ![t0] = IF CurStage.kind = "perm" THEN FMul(@, Omega) ELSE @]
  BY DEF WorkerRow, CurStage
<1>2. pos' \in [Chunks -> Nat]
  BY <1>1 DEF BInv
<1>3. ASSUME NEW t \in Chunks
      PROVE  betaTerm'[t] = FPow(Omega, BetaExp(t)') /\ betaTerm'[t] \in F
  <2>1. ChunkStart(t) \in Nat /\ pos[t] \in Nat
    BY SpawnBetaShape DEF BInv
  <2>2. betaTerm[t] = FPow(Omega, BetaExp(t)) /\ betaTerm[t] \in F
    BY <1>1 DEF BInv
  <2>3. CASE CurStage.kind = "perm" /\ t = t0
    <3>1. BetaExp(t) = ChunkStart(t) + pos[t] /\ BetaExp(t)' = BetaExp(t) + 1
      BY <1>1, <2>1, <2>3 DEF BetaExp, BInv
    <3>2. betaTerm'[t] = FMul(betaTerm[t], Omega)
      BY <1>1, <2>3 DEF BInv
    <3>3. FMul(FPow(Omega, BetaExp(t)), Omega) = FPow(Omega, BetaExp(t) + 1)
      BY <2>1, <3>1, OmegaStep
    <3>4. FPow(Omega, BetaExp(t) + 1) \in F
      BY <2>1, <3>1, FPowType, QuotientAssumption
    <3> QED
      BY <2>2, <3>1, <3>2, <3>3, <3>4
  <2>4. CASE ~(CurStage.kind = "perm" /\ t = t0)
    <3>1. betaTerm'[t] = betaTerm[t]
      BY <1>1, <2>4 DEF BInv
    <3>2. BetaExp(t)' = BetaExp(t)
      BY <1>1, <2>4 DEF BetaExp
    <3> QED
      BY <2>2, <3>1, <3>2
  <2> QED
    BY <2>3, <2>4
<1>4. betaTerm' \in [Chunks -> F]
  <2>0. betaTerm \in [Chunks -> F]
    BY DEF BInv
  <2>1. betaTerm' = [t \in Chunks |-> betaTerm'[t]]
    BY <1>1, <2>0, Zenon
  <2>2. \A t \in Chunks : betaTerm'[t] \in F
    BY <1>3
  <2> QED
    BY <2>1, <2>2, Zenon
<1> QED
  BY <1>1, <1>2, <1>3, <1>4 DEF BInv

LEMMA NextPassBInv ==
  ASSUME NextPass
  PROVE  BInv'
<1>1. pos' = Spawn /\ betaTerm' = SpawnBeta
  BY DEF NextPass
<1>2. \A t \in Chunks : BetaExp(t)' = ChunkStart(t)
  BY <1>1, SpawnBetaShape DEF BetaExp, Spawn
<1> QED
  BY <1>1, <1>2, SpawnBetaShape DEF BInv, Spawn

LEMMA KernelRunBInv ==
  ASSUME IInv, BInv, KernelRun
  PROVE  BInv'
<1>1. /\ phase = "run" /\ CurStage.kind = "kernel"
      /\ UNCHANGED <<input, batch, pos, betaTerm>>
  BY DEF KernelRun
<1>2. CASE proof < Len(batch)
  <2>1. proof' = proof + 1 /\ stage' = 1
    BY <1>2 DEF KernelRun, EndProof
  <2>2. proof + 1 \in 1..Len(batch)
    BY <1>1, <1>2 DEF IInv
  <2>3. Len(batch[proof + 1].lookups) \in Nat
    BY <1>1, <2>2, BatchLookups DEF IInv
  <2>4. CurStage'.kind = "gates"
    BY <1>1, <2>1, <2>3, StageOneGates DEF CurStage
  <2>5. \A t \in Chunks : BetaExp(t)' = BetaExp(t)
    BY <1>1, <2>4 DEF BetaExp
  <2> QED
    BY <1>1, <2>5 DEF BInv
<1>3. CASE ~(proof < Len(batch))
  BY <1>1, <1>3 DEF KernelRun, EndProof, BInv
<1> QED
  BY <1>2, <1>3

\* Every step keeps the beta_term relation.
LEMMA NextBInv == IInv /\ BInv /\ [Next]_vars => BInv'
<1> SUFFICES ASSUME IInv, BInv, [Next]_vars PROVE BInv'
  OBVIOUS
<1>1. CASE \E t \in Chunks : WorkerRow(t)
  BY <1>1, WorkerRowBInv
<1>2. CASE NextPass
  BY <1>2, NextPassBInv
<1>3. CASE KernelRun
  BY <1>3, KernelRunBInv
<1>4. CASE KernelFail
  BY <1>4 DEF KernelFail, BInv, BetaExp, CurStage
<1>5. CASE UNCHANGED vars
  BY <1>5 DEF vars, BInv, BetaExp, CurStage
<1> QED
  BY <1>1, <1>2, <1>3, <1>4, <1>5 DEF Next

\* In a permutation pass, every worker's beta_term is omega raised to the row
\* it processes next (l.447, l.511), for every domain size, thread count and
\* batch: the X = ZETA * omega^idx of the permutation argument is that row's.
THEOREM BetaTermInvariant == Spec => []BetaTermTracksRow
<1>1. Init => IInv /\ BInv
  BY InitIInv, InitBInv
<1>2. IInv /\ BInv /\ [Next]_vars => IInv' /\ BInv'
  BY NextIInv, NextBInv
<1>3. BInv => BetaTermTracksRow
  BY DEF BInv, BetaExp, BetaTermTracksRow
<1> QED
  BY <1>1, <1>2, <1>3, PTL DEF Spec

=============================================================================
