----------------------------- MODULE MC_Console ------------------------------
(* Two CPUs for TLC. *)
EXTENDS Console

CONSTANTS c1, c2
=============================================================================
