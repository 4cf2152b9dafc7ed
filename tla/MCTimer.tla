------------------------------ MODULE MCTimer ------------------------------
(* Small instances of Timer for TLC.                                       *)
EXTENDS Timer, TLC

\* The pages other than Main's are interchangeable.
Symmetry == Permutations(Thread \ {Main})
=============================================================================
