--------------------------- MODULE MC_ProcessCore ---------------------------
(* Small instances of ProcessCore for TLC. *)
EXTENDS ProcessCore

CONSTANTS f, s, d

(* s is semi-background and d deep background when they are background. *)
MC_BgType == [p \in Procs |-> IF p = s THEN "semi_bg" ELSE "deep_bg"]

(* f begins in the foreground, the others in the background. *)
MC_Init ==
  /\ Init
  /\ prio = [p \in Procs |-> IF p = f THEN FOREGROUND ELSE BACKGROUND]
MC_Spec == MC_Init /\ [][Next]_vars /\ WF_vars(Tick)
=============================================================================
