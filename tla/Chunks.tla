------------------------------- MODULE Chunks -------------------------------
(***************************************************************************)
(* What StreamBuffer_t::enqueue_task(buf, len) makes of a buffer of len    *)
(* bytes for threads_ workers, in closed form.  EnqueueTask models the     *)
(* loop itself and shows that it computes this; StreamBuffer uses it.      *)
(***************************************************************************)
EXTENDS Integers, Sequences

ChunkSize(len, threads) == len \div threads

(* len / threads_ rounds down, so there may be more pieces than threads:   *)
(* ceiling(len / chunk_size) of them.                                      *)
NumChunks(len, threads) ==
  (len + ChunkSize(len, threads) - 1) \div ChunkSize(len, threads)

(* The pieces, in order: offset in the buffer and size.  Defined for       *)
(* len >= threads; for fewer bytes the loop does not end.                  *)
Pieces(len, threads) ==
  LET c == ChunkSize(len, threads)
      n == NumChunks(len, threads)
  IN  [i \in 1..n |->
         [off  |-> (i - 1) * c,
          size |-> IF i < n THEN c ELSE len - (n - 1) * c]]
=============================================================================
