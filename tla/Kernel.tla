-------------------------------- MODULE Kernel -------------------------------
(***************************************************************************)
(* The main loops (kernel/central_core.c:50-83, 149-164) on the queue of   *)
(* FlexIPC, and what wakes them (kernel/arch/arch.c:114-126): every CPU    *)
(* empties the message queue, hands each message to the plant it names,    *)
(* updates the plants and halts until an interrupt.  The timer interrupts  *)
(* the boot CPU only; its handler passes the tick on to the others by IPI. *)
(*                                                                         *)
(* The state of FlexIPC is part of this one, and its steps are steps of    *)
(* the CPUs: a CPU spins on queue_lock and is interrupted in the middle of *)
(* a call.  The plants are stubs that keep no state; a command is the      *)
(* record of who was given what.                                           *)
(***************************************************************************)
EXTENDS FlexIPC, FiniteSets

CONSTANTS
  Bsp,         \* the boot CPU
  dst          \* the destination of each message

ASSUME KernelAssumption == Bsp \in Cpus /\ dst \in [Messages -> Nat]

Plants == 1 .. 4

VARIABLES
  system_initialized,
  loop,                    \* where each CPU is in its main loop
  ipi,                     \* the CPUs with a pending IPI
  sent, accepted,          \* history: the messages sent, each once; those the
                           \* queue took, in order
  commands                 \* history: the plant commands, in order

kernel == <<system_initialized, loop, ipi, commands>>
history == <<sent, accepted>>
all_vars == <<vars, kernel, history>>

KernelInit ==
  /\ Init
  /\ system_initialized = FALSE
  /\ loop = [c \in Cpus |-> IF c = Bsp THEN "boot" ELSE "spin"]
  /\ ipi = {}
  /\ sent = {} /\ accepted = <<>>
  /\ commands = <<>>

\* The CPU c is in that place of its loop, and not inside a call.
Stands(c, place) == loop[c] = place /\ At(c, "idle")
Moves(c, place) == loop' = [loop EXCEPT ![c] = place]

-----------------------------------------------------------------------------
(* FlexIPC.  Any code that runs on a CPU may call flexipc_send.             *)

Send(c, m) ==
  /\ loop[c] \in {"boot", "plants", "update"}
  /\ m \notin sent
  /\ CallSend(c, m)
  /\ sent' = sent \union {m}
  /\ UNCHANGED <<kernel, accepted>>

InCall(c) ==
  /\ Step(c)
  /\ accepted' = IF At(c, "publish") THEN Append(accepted, msg[c]) ELSE accepted
  /\ UNCHANGED <<kernel, sent>>

-----------------------------------------------------------------------------
(* kernel_main, after start_all_aps; ap_entry is waiting for it. *)
Initialize ==
  /\ Stands(Bsp, "boot")
  /\ system_initialized' = TRUE
  /\ Moves(Bsp, "plants")
  /\ UNCHANGED <<vars, history, ipi, commands>>

LeaveSpin(c) ==
  /\ Stands(c, "spin") /\ system_initialized
  /\ Moves(c, "plants")
  /\ UNCHANGED <<vars, history, system_initialized, ipi, commands>>

-----------------------------------------------------------------------------
(* run_plants: receive a message, *)
Receive(c) ==
  /\ Stands(c, "plants")
  /\ CallReceive(c)
  /\ Moves(c, "receive")
  /\ UNCHANGED <<history, system_initialized, ipi, commands>>

(* give it to its plant; a destination that is no plant matches no case, *)
Command(c) ==
  /\ Stands(c, "receive") /\ result[c] # None
  /\ commands' = IF dst[result[c]] \in Plants
                   THEN Append(commands, [plant |-> dst[result[c]], id |-> result[c]])
                   ELSE commands
  /\ Moves(c, "plants")
  /\ UNCHANGED <<vars, history, system_initialized, ipi>>

(* until there is none; the plants are updated *)
NoMessage(c) ==
  /\ Stands(c, "receive") /\ result[c] = None
  /\ Moves(c, "update")
  /\ UNCHANGED <<vars, history, system_initialized, ipi, commands>>

(* and the CPU halts. *)
Halt(c) ==
  /\ Stands(c, "update")
  /\ Moves(c, "halted")
  /\ UNCHANGED <<vars, history, system_initialized, ipi, commands>>

(* Mutant: the CPU halts again after the interrupt. *)
MutantWoken(c) == loop[c]

(* A CPU that handles an interrupt while halted goes on after its hlt; one *)
(* that is running, or inside a call, forgets it.                          *)
Woken(c) == IF loop[c] = "halted" THEN "plants" ELSE loop[c]

(* The timer interrupt of the boot CPU. *)
TimerTick ==
  /\ loop[Bsp] # "boot"
  /\ Moves(Bsp, Woken(Bsp))
  /\ ipi' = Cpus \ {Bsp}
  /\ UNCHANGED <<vars, history, system_initialized, commands>>

(* The IPI arrives; interrupts are off in ap_entry until it stops waiting. *)
TakeIpi(c) ==
  /\ c \in ipi /\ loop[c] # "spin"
  /\ ipi' = ipi \ {c}
  /\ Moves(c, Woken(c))
  /\ UNCHANGED <<vars, history, system_initialized, commands>>

KernelStep(c) ==
  InCall(c) \/ LeaveSpin(c) \/ Receive(c) \/ Command(c) \/ NoMessage(c) \/ Halt(c)

KernelNext ==
  \/ Initialize
  \/ TimerTick
  \/ \E c \in Cpus : KernelStep(c) \/ TakeIpi(c)
  \/ \E c \in Cpus, m \in Messages : Send(c, m)

KernelSpec == KernelInit /\ [][KernelNext]_all_vars

(* CPUs execute, the timer keeps ticking and IPIs are delivered.  Nothing   *)
(* is said of who gets queue_lock.                                         *)
KernelFairSpec ==
  /\ KernelSpec
  /\ WF_all_vars(Initialize) /\ WF_all_vars(TimerTick)
  /\ \A c \in Cpus : WF_all_vars(KernelStep(c)) /\ WF_all_vars(TakeIpi(c))

-----------------------------------------------------------------------------
(* Properties *)

Accepted == {accepted[k] : k \in 1 .. Len(accepted)}
Commanded(i) == {k \in 1 .. Len(commands) : commands[k].id = i}

(* The CPUs that have received i and not given it yet.                     *)
Holders(i) == {c \in Cpus : loop[c] = "receive" /\ result[c] = i}

(* However many CPUs empty the queue at the same time, an accepted message *)
(* that names a plant is in one place: once in the queue, in the hands of  *)
(* one CPU, or given, once, to that plant and no other                     *)
(* (kernel/central_core.c:52-58).                                          *)
ExactlyOnce ==
  \A i \in Accepted :
    dst[i] \in Plants =>
      /\ Cardinality({k \in DOMAIN Contents : Contents[k] = i})
         + Cardinality(Holders(i))
         + Cardinality(Commanded(i)) = 1
      /\ \A k \in Commanded(i) : commands[k].plant = dst[i]

(* The order of the messages to a plant is disturbed by the CPUs that hold *)
(* one and by nothing else: when a message has been given, every earlier   *)
(* one to the same plant has been given too or is in the hands of another  *)
(* CPU, which may be slower.  With one CPU the order is exact.             *)
InOrder ==
  \A i, j \in 1 .. Len(accepted) :
    LET early == accepted[i]
        late == accepted[j]
    IN i < j /\ dst[early] = dst[late] /\ Commanded(late) # {} =>
         Commanded(early) # {} \/ Holders(early) # {}

(* Every accepted message is given to its plant in the end, though a CPU   *)
(* may halt just after a message came (kernel/central_core.c:81).          *)
Delivered ==
  \A i \in Messages :
    (i \in Accepted /\ dst[i] \in Plants) ~> Commanded(i) # {}
=============================================================================
