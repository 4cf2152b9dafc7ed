----------------------------- MODULE MCThreads -----------------------------
(* Small instances of Threads for TLC.                                     *)
EXTENDS Threads, TLC

\* The pages other than Main's are interchangeable, and so are the locks.
Symmetry == Permutations(Thread \ {Main}) \cup Permutations(Lock)
=============================================================================
