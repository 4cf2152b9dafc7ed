------------------------------ MODULE MCRWLock ------------------------------
(* Small instances of RWLock for TLC.                                      *)
EXTENDS RWLock
=============================================================================
