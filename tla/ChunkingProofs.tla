--------------------------- MODULE ChunkingProofs ---------------------------
(***************************************************************************)
(* The chunks of a pass partition the rows, for every domain size and     *)
(* thread count: this is what lets the workers of evaluate_h write        *)
(* `values` without synchronisation (spec 5), and what makes the scope    *)
(* join wait for exactly N' row updates.                                   *)
(***************************************************************************)
EXTENDS Chunking, TLAPS

LEMMA ChunkSizePositive == ChunkSize \in Nat \ {0}
BY ChunkingAssumption DEF ChunkSize

\* The chunk whose worker writes row idx.
ChunkOf(idx) == idx \div ChunkSize

(***************************************************************************)
(* The arithmetic, over plain integers n (the domain size) and c (the     *)
(* chunk size).                                                            *)
(***************************************************************************)
\* A chunk index below ceil(n / c) starts inside the domain.
LEMMA StartInside ==
  ASSUME NEW n \in Nat \ {0}, NEW c \in Nat \ {0}, NEW t \in Nat,
         t + 1 <= (n + c - 1) \div c
  PROVE  t * c \in 0..(n - 1)
<1>1. (t + 1) * c <= ((n + c - 1) \div c) * c
  OBVIOUS
<1>2. ((n + c - 1) \div c) * c <= n + c - 1
  OBVIOUS
<1>3. (t + 1) * c = t * c + c /\ t * c >= 0
  OBVIOUS
<1> QED
  BY <1>1, <1>2, <1>3

\* Row i of the domain lies in block i \div c, a block below ceil(n / c),
\* and in no other block.
LEMMA BlockOfRow ==
  ASSUME NEW n \in Nat \ {0}, NEW c \in Nat \ {0}, NEW i \in 0..(n - 1)
  PROVE  /\ i \div c \in 0..((n + c - 1) \div c - 1)
         /\ (i \div c) * c <= i
         /\ i < (i \div c) * c + c
         /\ \A t \in Nat : t * c <= i /\ i < t * c + c => t = i \div c
<1> DEFINE q == i \div c
           M == (n + c - 1) \div c
<1>1. q \in Nat /\ q * c <= i /\ i < q * c + c
  OBVIOUS
<1>2. M \in Nat /\ n + c - 1 < M * c + c
  OBVIOUS
<1>3. q * c < M * c
  BY <1>1, <1>2
<1>4. q < M
  BY <1>1, <1>2, <1>3
<1>5. ASSUME NEW t \in Nat, t * c <= i, i < t * c + c
      PROVE  t = q
  <2>1. t * c < (q + 1) * c /\ q * c < (t + 1) * c
    BY <1>1, <1>5
  <2>2. t < q + 1 /\ q < t + 1
    BY <2>1
  <2> QED
    BY <1>1, <2>2
<1> QED
  BY <1>1, <1>4, <1>5

\* Every chunk is non-empty and at most chunk_size long: its start lies
\* inside the domain.
LEMMA ChunkLenBounds ==
  ASSUME NEW t \in Chunks
  PROVE  /\ ChunkStart(t) \in Rows
         /\ ChunkLen(t) \in 1..ChunkSize
<1>1. t \in Nat /\ t + 1 <= (NE + ChunkSize - 1) \div ChunkSize
  BY ChunkSizePositive, ChunkingAssumption DEF Chunks
<1>2. t * ChunkSize \in 0..(NE - 1)
  BY <1>1, ChunkSizePositive, ChunkingAssumption, StartInside
<1> QED
  BY <1>2, ChunkSizePositive, ChunkingAssumption DEF ChunkStart, ChunkLen, Rows

(***************************************************************************)
(* The chunks partition the rows: row idx lies in chunk idx \div           *)
(* chunk_size, and in no other chunk.  So within a pass every row of       *)
(* `values` is written by exactly one worker, for every N' and every       *)
(* number of threads (the hazard at evaluation.rs:407-408).                *)
(***************************************************************************)
THEOREM ChunksPartitionRows ==
  \A idx \in Rows :
    /\ ChunkOf(idx) \in Chunks
    /\ ChunkStart(ChunkOf(idx)) <= idx
    /\ idx < ChunkStart(ChunkOf(idx)) + ChunkLen(ChunkOf(idx))
    /\ \A t \in Chunks :
         ChunkStart(t) <= idx /\ idx < ChunkStart(t) + ChunkLen(t) => t = ChunkOf(idx)
<1> SUFFICES ASSUME NEW idx \in Rows
             PROVE  /\ ChunkOf(idx) \in Chunks
                    /\ ChunkStart(ChunkOf(idx)) <= idx
                    /\ idx < ChunkStart(ChunkOf(idx)) + ChunkLen(ChunkOf(idx))
                    /\ \A t \in Chunks :
                         ChunkStart(t) <= idx /\ idx < ChunkStart(t) + ChunkLen(t)
                           => t = ChunkOf(idx)
  OBVIOUS
<1>1. /\ ChunkOf(idx) \in Chunks
      /\ ChunkOf(idx) * ChunkSize <= idx
      /\ idx < ChunkOf(idx) * ChunkSize + ChunkSize
      /\ \A t \in Nat : t * ChunkSize <= idx /\ idx < t * ChunkSize + ChunkSize
                          => t = ChunkOf(idx)
  BY ChunkSizePositive, ChunkingAssumption, BlockOfRow DEF Rows, ChunkOf, Chunks
<1>2. idx < ChunkStart(ChunkOf(idx)) + ChunkLen(ChunkOf(idx))
  <2> DEFINE st == ChunkOf(idx) * ChunkSize
  <2>1. st \in Int /\ idx < st + ChunkSize /\ idx < NE
    BY <1>1, ChunkSizePositive, ChunkingAssumption DEF Rows, Chunks
  <2>2. idx < st + (IF NE - st < ChunkSize THEN NE - st ELSE ChunkSize)
    BY <2>1, ChunkSizePositive, ChunkingAssumption
  <2> QED
    BY <2>2 DEF ChunkStart, ChunkLen
<1>3. ASSUME NEW t \in Chunks, ChunkStart(t) <= idx, idx < ChunkStart(t) + ChunkLen(t)
      PROVE  t = ChunkOf(idx)
  <2>1. t \in Nat /\ ChunkLen(t) \in 1..ChunkSize /\ idx \in Nat
    BY ChunkLenBounds DEF Chunks, Rows
  <2>2. t * ChunkSize <= idx /\ idx < t * ChunkSize + ChunkSize
    BY <1>3, <2>1, ChunkSizePositive DEF ChunkStart
  <2> QED
    BY <1>1, <2>1, <2>2, Zenon
<1> QED
  BY <1>1, <1>2, <1>3 DEF ChunkStart

=============================================================================
