---------------------------- MODULE MCWorkerPool ----------------------------
(* Model values and symmetry for checking WorkerPool.                        *)
EXTENDS WorkerPool, TLC

Symmetry == Permutations(Requests) \cup Permutations(Workers)
=============================================================================
