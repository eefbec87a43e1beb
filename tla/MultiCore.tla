------------------------------ MODULE MultiCore ------------------------------
(***************************************************************************)
(* The emulated processor (emulator/emulator/multi_core.py): the cores     *)
(* take turns, one instruction each, over a shared memory, until every     *)
(* core has halted, the step limit is passed or the time is up.            *)
(*                                                                         *)
(* Init picks one of the Jobs: the programs, one per core, and an optional *)
(* limit on the steps.                                                     *)
(***************************************************************************)
EXTENDS OmniumCore

CONSTANTS Jobs,          \* what may be run
          CHECK_EVERY,   \* steps between two looks at the clock; 1024 in the code
          NoLimit        \* max_steps is None

ASSUME MultiCoreAssumption ==
  \A j \in DOMAIN Jobs :
    LET programs == Jobs[j].programs
    IN  /\ Len(programs) \in Nat /\ DOMAIN programs = 1 .. Len(programs)
        /\ \A c \in DOMAIN programs : IsProgram(programs[c])

VARIABLES job,           \* the number of the job of this run
          cores,         \* core -> its attributes, but for its program
          memory,        \* the words that some program names
          run_queue,     \* the cores that still run, in turn
          total_steps,   \* modulo CHECK_EVERY where there is no limit
          timed_out,     \* _stop() was called
          printed        \* core -> what it printed
vars == <<job, cores, memory, run_queue, total_steps, timed_out, printed>>

Programs == Jobs[job].programs

\* The words of memory that the program of c names.
Named(c) == Names(Programs[c])

Init == /\ job \in DOMAIN Jobs
        /\ cores = [c \in DOMAIN Programs |-> NewCore]
        /\ run_queue = [c \in DOMAIN Programs |-> c]
        /\ printed = [c \in DOMAIN Programs |-> <<>>]
        /\ memory = [x \in UNION {Named(c) : c \in DOMAIN Programs} |-> Num(0)]
        /\ total_steps = 0
        /\ timed_out = FALSE

----------------------------------------------------------------------------
(* run(): limits, and the end of a step.                                   *)

Tick == total_steps + 1
Counted == IF Jobs[job].limit = NoLimit THEN Tick % CHECK_EVERY ELSE Tick

MutantTimeToCheck == Tick % CHECK_EVERY = CHECK_EVERY
TimeToCheck == Tick % CHECK_EVERY = 0
OverLimit == Jobs[job].limit # NoLimit /\ Tick > Jobs[job].limit

Running == run_queue # <<>> /\ ~timed_out

\* What the core c works on, and the cores after c has become k.
State(c) == [core |-> cores[c], memory |-> memory, out |-> printed[c]]

\* Mutant: the flags are of all the cores.
MutantWith(c, k) == [d \in DOMAIN cores |->
                       IF d = c THEN k ELSE [cores[d] EXCEPT !.Z = k.Z, !.N = k.N]]
With(c, k) == [cores EXCEPT ![c] = k]

\* The queue after the turn of c, its first, which goes back to the end unless
\* it has halted.  Mutant: it goes back anyway.
MutantQueueAfter(c, k) == Append(Tail(run_queue), c)
QueueAfter(c, k) == IF k.halted THEN Tail(run_queue) ELSE Append(Tail(run_queue), c)

Turn(c) ==
  LET s == CoreStep(Programs[c], State(c))
  IN  /\ cores' = With(c, s.core)
      /\ memory' = s.memory
      /\ printed' = [printed EXCEPT ![c] = s.out]
      /\ run_queue' = QueueAfter(c, s.core)
      /\ total_steps' = Counted
      /\ UNCHANGED <<job, timed_out>>

Step == Running /\ ~OverLimit /\ Turn(Head(run_queue))

\* _stop(): every core is halted where it is.
Stop == /\ timed_out' = TRUE
        /\ cores' = [c \in DOMAIN cores |-> [cores[c] EXCEPT !.halted = TRUE]]
        /\ total_steps' = Counted
        /\ UNCHANGED <<job, memory, run_queue, printed>>

Timeout == Running /\ TimeToCheck /\ Stop
StepLimit == Running /\ OverLimit /\ Stop

Next == Step \/ Timeout \/ StepLimit

Spec == Init /\ [][Next]_vars

\* The loop of run() goes on, and the time runs out for a loop that looks at
\* the clock again and again.
FairSpec == Spec /\ WF_vars(Step \/ StepLimit) /\ SF_vars(Timeout)

----------------------------------------------------------------------------
(* Properties.                                                             *)

\* No program of another core may store to a word that the program of c names.
Apart(c) == \A d \in DOMAIN Programs \ {c} : Stores(Programs[d]) \cap Named(c) = {}

Lone(c) == INSTANCE LoneCore WITH program <- Programs[c],
                                  core <- cores[c],
                                  memory <- [x \in Named(c) |-> memory[x]],
                                  printed <- printed[c]

\* The memory is one for all cores and nothing divides it.  Still a core whose
\* words no other program stores to does at each step exactly what it would do
\* by itself, and prints the same: the turns, the stacks, the flags, the errors
\* and the end of the other cores leave no trace in it.
RunsAsAlone ==
  /\ \A c \in DOMAIN cores : Lone(c)!Init
  /\ [][\A c \in DOMAIN cores : Apart(c) => [Lone(c)!Next]_(Lone(c)!vars)]_vars

\* Every core that still runs is in the queue, and once; nobody else is.
InTurn ==
  ~timed_out =>
    /\ \A c \in DOMAIN cores : ~cores[c].halted <=> \E i \in DOMAIN run_queue : run_queue[i] = c
    /\ \A i, j \in DOMAIN run_queue : run_queue[i] = run_queue[j] => i = j

\* A run comes to an end even when a program does not.
RunEnds == <>(run_queue = <<>> \/ timed_out)
=============================================================================
