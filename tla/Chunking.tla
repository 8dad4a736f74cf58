------------------------------ MODULE Chunking ------------------------------
(***************************************************************************)
(* How parallel_for (src/parallel.cpp) splits [0, n) into chunks, and the  *)
(* range that one chunk index stands for. Pure arithmetic: Pool uses it    *)
(* for the split it publishes, PoolProofs for the facts that make the      *)
(* chunks a partition of [0, n). All quantities fit their C++ types: n and *)
(* the chunk length are int64_t, the chunk count is at most nthreads.      *)
(***************************************************************************)
EXTENDS Integers

MinOf(a, b) == IF a < b THEN a ELSE b
MaxOf(a, b) == IF a < b THEN b ELSE a

(* Division rounding up, the idiom (a + b - 1) / b on positive integers.   *)
CeilDiv(a, b) == (a + b - 1) \div b

(* parallel_for runs fn(0, n) in the caller instead of dispatching it.     *)
RunsInline(n, minChunk, threads) == threads <= 1 \/ n <= minChunk

(* Length of one chunk: as many chunks as min_chunk allows, but no more    *)
(* than there are threads.                                                 *)
ChunkLen(n, minChunk, threads) ==
  CeilDiv(n, MinOf(CeilDiv(n, MaxOf(minChunk, 1)), threads))

(* The exact number of chunks of that length: K, recomputed.               *)
ChunkCount(n, minChunk, threads) == CeilDiv(n, ChunkLen(n, minChunk, threads))

(* Mutant: the end of a chunk is inclusive.                                *)
ChunkHi_Inclusive(i, n, len) == MinOf(i * len + len + 1, n)

(* The bounds [b, e) of chunk i of a job, as drain computes them.          *)
ChunkLo(i, len) == i * len
ChunkHi(i, n, len) == MinOf(i * len + len, n)

(* The indices of chunk i.                                                 *)
ChunkSet(i, n, len) == ChunkLo(i, len) .. ChunkHi(i, n, len) - 1
=============================================================================
