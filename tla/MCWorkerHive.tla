---------------------------- MODULE MCWorkerHive ----------------------------
(* WorkerHive on small sets of threads and buffers, for TLC.               *)
EXTENDS WorkerHive, TLC

(* Workers are interchangeable and so are result buffers (a safety run     *)
(* may therefore identify states that differ by a permutation of them).    *)
Symmetry == Permutations(Workers) \cup Permutations(ResultBuffers)
=============================================================================
