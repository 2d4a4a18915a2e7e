------------------------------ MODULE Chunking ------------------------------
(***************************************************************************)
(* How a pass of evaluate_h splits the rows of the extended domain among   *)
(* its workers (evaluation.rs:407-409, and parallelize, which the spec     *)
(* (5) gives the same chunks): chunk_size = ceil(N' / num_threads), and    *)
(* values.chunks_mut(chunk_size) yields chunk t = rows                     *)
(* [t * chunk_size, min((t+1) * chunk_size, N')), the last one possibly    *)
(* shorter, one worker per chunk.                                          *)
(***************************************************************************)
EXTENDS Integers

CONSTANTS
  NE,          \* size = domain.extended_len() = isize
  NumThreads   \* multicore::current_num_threads()

ASSUME ChunkingAssumption ==
  /\ NE \in Nat \ {0}
  /\ NumThreads \in Nat \ {0}

Rows == 0..(NE - 1)

ChunkSize == (NE + NumThreads - 1) \div NumThreads
Chunks == 0..((NE + ChunkSize - 1) \div ChunkSize - 1)
ChunkStart(t) == t * ChunkSize
ChunkLen(t) == IF NE - ChunkStart(t) < ChunkSize THEN NE - ChunkStart(t) ELSE ChunkSize

=============================================================================
