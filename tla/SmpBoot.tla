------------------------------- MODULE SmpBoot -------------------------------
(***************************************************************************)
(* The start of the secondary CPUs (kernel/smp.c start_ap,                 *)
(* kernel/central_core.c start_all_aps and ap_entry,                       *)
(* kernel/ap_trampoline.asm).  The boot CPU leaves a stack and an index in *)
(* one mailbox, sends INIT and SIPI to one CPU, waits until the counter of *)
(* CPUs on line moves or a timeout, and goes on to the next APIC id.  The  *)
(* trampoline of a CPU reads the stack, then the index, and calls          *)
(* ap_entry, which counts the CPU and waits for system_initialized.        *)
(*                                                                         *)
(* The timeout is 50 000 000 turns of a loop.  Late is the set of the CPUs *)
(* that may need longer than that; any other CPU answers in time.          *)
(***************************************************************************)
EXTENDS Integers, FiniteSets

CONSTANTS
  SMP_MAX_CPUS,
  Ids,        \* the APIC ids a CPU of the machine may have
  Late

ASSUME SmpBootAssumption ==
  /\ SMP_MAX_CPUS \in Nat \ {0}
  /\ Ids \subseteq Nat
  /\ Late \subseteq Ids

NoSlot == 0     \* ap_stacks[0] belongs to nobody: indices start at 1

VARIABLES
  bsp_id, cpu_count, present,  \* the machine: the APIC id of the boot CPU,
                               \* what CPUID reports (the ids that are tried
                               \* are 0 .. cpu_count - 1) and the secondary
                               \* CPUs it really has; never assigned
  bsp,                         \* where the boot CPU is
  id, index, before,           \* its local variables
  mailbox_stack, mailbox_index,
  online,                      \* smp_cpus_online
  system_initialized,
  ap,                          \* where each secondary CPU is
  stack,                       \* the slot of ap_stacks it runs on
  ap_index                     \* the index ap_entry was called with

machine == <<bsp_id, cpu_count, present>>
vars == <<machine, bsp, id, index, before, mailbox_stack, mailbox_index, online,
          system_initialized, ap, stack, ap_index>>

bspVars == <<machine, bsp, id, index, before, mailbox_stack, mailbox_index,
             system_initialized>>
apVars == <<machine, ap, stack, ap_index>>

Init ==
  /\ bsp_id \in Ids
  /\ cpu_count \in 1 .. SMP_MAX_CPUS
  /\ present \in SUBSET ((Ids \intersect 0 .. cpu_count - 1) \ {bsp_id})
  /\ bsp = "next"
  /\ id = 0 /\ index = 1 /\ before = 0
  /\ mailbox_stack = NoSlot /\ mailbox_index = NoSlot
  /\ online = 1
  /\ system_initialized = FALSE
  /\ ap = [c \in Ids |-> "off"]
  /\ stack = [c \in Ids |-> NoSlot]
  /\ ap_index = [c \in Ids |-> NoSlot]

-----------------------------------------------------------------------------
(* start_all_aps: the loop over the APIC ids, without the boot CPU's. *)
SkipBsp ==
  /\ bsp = "next" /\ id < cpu_count /\ id = bsp_id
  /\ id' = id + 1
  /\ UNCHANGED <<bsp, index, before, mailbox_stack, mailbox_index, online,
                 system_initialized, apVars>>

(* start_ap with no stack left for the CPU. *)
NoStackLeft ==
  /\ bsp = "next" /\ id < cpu_count /\ id # bsp_id
  /\ index >= SMP_MAX_CPUS
  /\ id' = id + 1
  /\ UNCHANGED <<bsp, index, before, mailbox_stack, mailbox_index, online,
                 system_initialized, apVars>>

(* start_ap fills the mailbox. *)
WriteStack ==
  /\ bsp = "next" /\ id < cpu_count /\ id # bsp_id
  /\ index < SMP_MAX_CPUS
  /\ mailbox_stack' = index
  /\ bsp' = "index"
  /\ UNCHANGED <<id, index, before, mailbox_index, online, system_initialized,
                 apVars>>

WriteIndex ==
  /\ bsp = "index"
  /\ mailbox_index' = index
  /\ bsp' = "before"
  /\ UNCHANGED <<id, index, before, mailbox_stack, online, system_initialized,
                 apVars>>

ReadBefore ==
  /\ bsp = "before"
  /\ before' = online
  /\ bsp' = "sipi"
  /\ UNCHANGED <<id, index, mailbox_stack, mailbox_index, online,
                 system_initialized, apVars>>

(* INIT and the two SIPIs; the second finds the CPU running and is ignored *)
SendSipi ==
  /\ bsp = "sipi"
  /\ ap' = [c \in Ids |-> IF c = id /\ id \in present THEN "trampoline" ELSE ap[c]]
  /\ bsp' = "wait"
  /\ UNCHANGED <<id, index, before, mailbox_stack, mailbox_index, online,
                 system_initialized, machine, stack, ap_index>>

(* Mutant: the index is not used up. *)
MutantAnswered ==
  /\ bsp = "wait" /\ online # before
  /\ id' = id + 1
  /\ bsp' = "next"
  /\ UNCHANGED <<index, before, mailbox_stack, mailbox_index, online,
                 system_initialized, apVars>>

(* The counter moved: start_ap returns 1 and the index is used up. *)
Answered ==
  /\ bsp = "wait" /\ online # before
  /\ index' = index + 1
  /\ id' = id + 1
  /\ bsp' = "next"
  /\ UNCHANGED <<before, mailbox_stack, mailbox_index, online,
                 system_initialized, apVars>>

(* Mutants: an index is lost; the first silent CPU ends the loop. *)
MutantTimedOutIndex ==
  /\ bsp = "wait" /\ online = before
  /\ id \notin present \/ id \in Late
  /\ index' = index + 1
  /\ id' = id + 1
  /\ bsp' = "next"
  /\ UNCHANGED <<before, mailbox_stack, mailbox_index, online,
                 system_initialized, apVars>>

MutantTimedOutLast ==
  /\ bsp = "wait" /\ online = before
  /\ id \notin present \/ id \in Late
  /\ id' = cpu_count
  /\ bsp' = "next"
  /\ UNCHANGED <<index, before, mailbox_stack, mailbox_index, online,
                 system_initialized, apVars>>

(* It did not move in time: start_ap returns 0, the index is used again. *)
TimedOut ==
  /\ bsp = "wait" /\ online = before
  /\ id \notin present \/ id \in Late
  /\ id' = id + 1
  /\ bsp' = "next"
  /\ UNCHANGED <<index, before, mailbox_stack, mailbox_index, online,
                 system_initialized, apVars>>

(* kernel_main: all ids have been tried. *)
Initialized ==
  /\ bsp = "next" /\ id >= cpu_count
  /\ system_initialized' = TRUE
  /\ bsp' = "main"
  /\ UNCHANGED <<id, index, before, mailbox_stack, mailbox_index, online, apVars>>

start_all_aps ==
  \/ SkipBsp \/ NoStackLeft \/ WriteStack \/ WriteIndex \/ ReadBefore
  \/ SendSipi \/ Answered \/ TimedOut

Boot == start_all_aps \/ Initialized

-----------------------------------------------------------------------------
(* The trampoline: mov esp, [TRAMP_STACK] *)
LoadStack(c) ==
  /\ ap[c] = "trampoline"
  /\ stack' = [stack EXCEPT ![c] = mailbox_stack]
  /\ ap' = [ap EXCEPT ![c] = "stacked"]
  /\ UNCHANGED <<bspVars, online, ap_index>>

(* push [TRAMP_INDEX]; call [TRAMP_ENTRY] *)
LoadIndex(c) ==
  /\ ap[c] = "stacked"
  /\ ap_index' = [ap_index EXCEPT ![c] = mailbox_index]
  /\ ap' = [ap EXCEPT ![c] = "entry"]
  /\ UNCHANGED <<bspVars, online, stack>>

(* ap_entry counts the CPU, atomically. *)
Count(c) ==
  /\ ap[c] = "entry"
  /\ online' = online + 1
  /\ ap' = [ap EXCEPT ![c] = "spin"]
  /\ UNCHANGED <<bspVars, stack, ap_index>>

(* Mutant: it does not wait. *)
MutantEnterLoop(c) ==
  /\ ap[c] = "spin"
  /\ ap' = [ap EXCEPT ![c] = "loop"]
  /\ UNCHANGED <<bspVars, online, stack, ap_index>>

(* It leaves its waiting loop for the main loop. *)
EnterLoop(c) ==
  /\ ap[c] = "spin"
  /\ system_initialized
  /\ ap' = [ap EXCEPT ![c] = "loop"]
  /\ UNCHANGED <<bspVars, online, stack, ap_index>>

Run(c) == LoadStack(c) \/ LoadIndex(c) \/ Count(c) \/ EnterLoop(c)

Next == Boot \/ \E c \in Ids : Run(c)

Spec == Init /\ [][Next]_vars

-----------------------------------------------------------------------------
(* Properties *)

(* The type of the state. *)
TypeOK ==
  /\ bsp_id \in Ids
  /\ cpu_count \in 1 .. SMP_MAX_CPUS
  /\ present \subseteq Ids
  /\ bsp \in {"next", "index", "before", "sipi", "wait", "main"}
  /\ id \in 0 .. cpu_count
  /\ index \in 1 .. SMP_MAX_CPUS
  /\ before \in Nat /\ online \in Nat
  /\ mailbox_stack \in 0 .. SMP_MAX_CPUS - 1
  /\ mailbox_index \in 0 .. SMP_MAX_CPUS - 1
  /\ system_initialized \in BOOLEAN
  /\ ap \in [Ids -> {"off", "trampoline", "stacked", "entry", "spin", "loop"}]
  /\ stack \in [Ids -> 0 .. SMP_MAX_CPUS - 1]
  /\ ap_index \in [Ids -> 0 .. SMP_MAX_CPUS - 1]

OnStack(c) == ap[c] \in {"stacked", "entry", "spin", "loop"}
Entered(c) == ap[c] \in {"entry", "spin", "loop"}

(* Every secondary CPU runs on a stack of its own (kernel/smp.c:41):       *)
(* nobody reads the mailbox after it was filled for the next one.          *)
OwnStack ==
  \A c, d \in present :
    OnStack(c) /\ OnStack(d) /\ c # d => stack[c] # stack[d]

(* The CPUs that have counted themselves, and know their stack: the index  *)
(* they were called with is its number, though the two words of the        *)
(* mailbox are read one after the other.                                   *)
Joined ==
  {c \in present : ap[c] \in {"spin", "loop"} /\ ap_index[c] = stack[c]}

(* When the boot CPU enters its main loop, the CPUs it counts on line are  *)
(* exactly those it gave an index to: each of them has joined under its    *)
(* own index, and no answer was credited to another CPU                    *)
(* (kernel/smp.c:55-56).                                                   *)
AnswersCredited ==
  bsp = "main" => online = index /\ Cardinality(Joined) = index - 1

(* Every CPU of the machine that a stack is left for reaches its main      *)
(* loop; ids that do not answer are passed over                            *)
(* (kernel/central_core.c:31-32).                                          *)
AllJoin ==
  <>(\A c \in present :
       \/ ap[c] = "loop"
       \/ Cardinality({d \in present : d < c}) >= SMP_MAX_CPUS - 1)
=============================================================================
