------------------------------ MODULE MC_Kernel ------------------------------
(* Four messages, two of them to one plant and one to no plant at all. *)
EXTENDS Kernel

CONSTANTS b, c1, m1, m2, m3, m4

MC_dst == [i \in Messages |-> CASE i = m3 -> 4 [] i = m4 -> 7 [] OTHER -> 1]
=============================================================================
