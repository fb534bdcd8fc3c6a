----------------------------- MODULE MCMemoryMap -----------------------------
(* Small instances of MemoryMap for TLC. *)
EXTENDS MemoryMap
=============================================================================
