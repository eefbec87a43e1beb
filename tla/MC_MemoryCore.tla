--------------------------- MODULE MC_MemoryCore ----------------------------
(* Small instances of MemoryCore for TLC: a 64-byte address space, pages   *)
(* of 4 bytes and pointers aligned to 2.                                   *)
EXTENDS MemoryCore, TLC

CONSTANTS c1, c2

CpuSymmetry == Permutations(Cpus)
=============================================================================
