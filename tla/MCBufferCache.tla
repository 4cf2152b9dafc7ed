--------------------------- MODULE MCBufferCache ----------------------------
(* Small instances of BufferCache for TLC.                                 *)
EXTENDS BufferCache
=============================================================================
