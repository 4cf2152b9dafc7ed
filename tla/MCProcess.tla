----------------------------- MODULE MCProcess -----------------------------
(* Small instances of Process for TLC.                                     *)
EXTENDS Process
=============================================================================
