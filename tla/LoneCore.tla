------------------------------- MODULE LoneCore -------------------------------
(***************************************************************************)
(* What a program may count on: a core with the words it names to itself,  *)
(* which executes it one instruction after the other until it halts or is  *)
(* stopped.  Nothing of what it does or prints is left to chance.          *)
(***************************************************************************)
CONSTANTS NewCore, Num(_), Names(_), CoreStep(_, _)   \* of OmniumCore

VARIABLES program,
          core,      \* the attributes of the core
          memory,    \* the words the program names
          printed
vars == <<program, core, memory, printed>>

Init == /\ core = NewCore
        /\ memory = [x \in Names(program) |-> Num(0)]
        /\ printed = <<>>

Run == LET s == CoreStep(program, [core |-> core, memory |-> memory, out |-> printed])
       IN  /\ ~core.halted
           /\ core' = s.core
           /\ memory' = s.memory
           /\ printed' = s.out
           /\ UNCHANGED program

Stopped == /\ core' = [core EXCEPT !.halted = TRUE]
           /\ UNCHANGED <<program, memory, printed>>

Next == Run \/ Stopped
Spec == Init /\ [][Next]_vars
=============================================================================
