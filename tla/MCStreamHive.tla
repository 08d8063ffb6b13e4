---------------------------- MODULE MCStreamHive ----------------------------
(* StreamHive for TLC: result buffers are interchangeable.                 *)
EXTENDS StreamHive
Symmetry == Permutations(ResultBuffers)
=============================================================================
