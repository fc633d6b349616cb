--------------------------- MODULE MCSharedMemory ---------------------------
(* Three daemons and two receivers, each interchangeable.                  *)
EXTENDS SharedMemory, TLC

CONSTANTS d1, d2, d3, r1, r2

ProcessSymmetry == Permutations({d1, d2, d3}) \cup Permutations({r1, r2})
=============================================================================
