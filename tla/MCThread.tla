------------------------------ MODULE MCThread ------------------------------
(* Small instances of Thread for TLC.                                      *)
EXTENDS ThreadInvariant, TLC

(* Objects, pthreads and runnables of one kind are interchangeable.        *)
Symmetry ==
    Permutations(Threads) \cup Permutations(Tids) \cup Permutations(Shared)
=============================================================================
