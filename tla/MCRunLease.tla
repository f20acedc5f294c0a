----------------------------- MODULE MCRunLease -----------------------------
(* Instances of RunLease for TLC. *)
EXTENDS RunLease, TLC

CONSTANTS r1, r2, e1, e2, e3

\* Executors and runs are interchangeable.
Interchangeable == Permutations(Executor) \union Permutations(Run)
==============================================================================
