------------------------------ MODULE KernelMain ------------------------------
(***************************************************************************)
(* kernel_main (kernel/central_core.c:99-165): the boot CPU checks what    *)
(* the loader passed, starts the memory core and tests it (MemoryBoot),    *)
(* tests the quarantine (SecurityCore), starts the other CPUs (SmpBoot)    *)
(* and enters its main loop, where it reports the uptime.  What the main   *)
(* loops do with messages is in Kernel.                                    *)
(*                                                                         *)
(* timer_ticks has 64 bits and the CPU 32: the loop reads the low half,    *)
(* then the high half, and the timer interrupt may come between.           *)
(***************************************************************************)
EXTENDS MemoryBoot, SmpBoot, SecurityCore

CONSTANTS
  Machines,      \* [kernel_end, ram, bsp_id, cpu_count, present, loader,
                 \* processes]; loader is "ok" if it is a Multiboot loader
                 \* that reports the size of memory, processes are the pids
                 \* the security functions are called for
  TIMER_HZ,
  HALF,          \* 2^32, the values of half a counter
  MINUTE,        \* 60 seconds
  MaxTicks       \* bound: the ticks that are modelled

ASSUME KernelMainAssumption == {TIMER_HZ, HALF, MINUTE} \subseteq Nat \ {0}

VARIABLES
  loader, processes,    \* the machine, never assigned
  at,                   \* where kernel_main is
  lapic_ready,
  timer_ticks, secs, next_report,
  low                   \* the half of timer_ticks that is read first

clock == <<lapic_ready, timer_ticks, secs, next_report, low>>
kernelVars == <<memoryVars, vars, securityVars, clock, loader, processes, at>>

test_pid == 42

KernelInit ==
  /\ \E m \in Machines :
       /\ kernel_end = m.kernel_end /\ ram = m.ram
       /\ loader = m.loader /\ processes = m.processes
       /\ bsp_id = m.bsp_id /\ cpu_count = m.cpu_count /\ present = m.present
  /\ MemoryInit /\ Init /\ SecurityInit
  /\ at = "start"
  /\ lapic_ready = FALSE
  /\ timer_ticks = 0 /\ secs = 0 /\ next_report = 1 /\ low = 0

Go(from, to) == at = from /\ at' = to /\ UNCHANGED <<loader, processes>>

(* The rest of the kernel while one part of it runs. *)
OnlyMemory == UNCHANGED <<vars, securityVars, clock>>
OnlySecurity == UNCHANGED <<memoryVars, vars, clock>>
OnlySmp == UNCHANGED <<memoryVars, securityVars, clock>>
OnlyClock == UNCHANGED <<memoryVars, vars, securityVars>>

-----------------------------------------------------------------------------
(* The initialisation. *)

CheckLoader ==
  /\ Go("start", IF loader = "ok" THEN "memory" ELSE "panic")
  /\ UNCHANGED <<memoryVars, vars, securityVars, clock>>

StartMemory ==
  /\ memory_boot
  /\ Go("memory", IF step' = "done" THEN "level" ELSE "memory")
  /\ OnlyMemory

SetTestLevel ==
  /\ Go("level", "whitelist")
  /\ security_set_process_level(test_pid, "user")
  /\ OnlySecurity

SetTestWhitelist ==
  /\ Go("whitelist", "allowed")
  /\ security_set_whitelist(test_pid, {0}, MAX_SYSCALLS)
  /\ OnlySecurity

TestAllowed ==
  /\ Go("allowed", "forbidden")
  /\ security_check_syscall(0, test_pid)
  /\ OnlySecurity

TestForbidden ==
  /\ Go("forbidden", "aps")
  /\ security_check_syscall(1, test_pid)
  /\ OnlySecurity

StartAps ==
  /\ Go("aps", "aps")
  /\ start_all_aps
  /\ OnlySmp

lapic_mark_ready ==
  /\ Go("aps", "ready")
  /\ bsp = "next" /\ id >= cpu_count
  /\ lapic_ready' = TRUE
  /\ UNCHANGED <<memoryVars, vars, securityVars, timer_ticks, secs, next_report, low>>

EnterMainLoop ==
  /\ Go("ready", "plants")
  /\ Initialized
  /\ OnlySmp

-----------------------------------------------------------------------------
(* The main loop. *)

RunPlants == Go("plants", "low") /\ OnlyClock /\ UNCHANGED clock

ReadLow ==
  /\ Go("low", "high")
  /\ low' = timer_ticks % HALF
  /\ OnlyClock /\ UNCHANGED <<lapic_ready, timer_ticks, secs, next_report>>

ReadHigh ==
  /\ Go("high", "report") \/ Go("torn", "report")
  /\ secs' = ((timer_ticks \div HALF) * HALF + low) \div TIMER_HZ
  /\ OnlyClock /\ UNCHANGED <<lapic_ready, timer_ticks, next_report, low>>

Report ==
  /\ Go("report", "halted")
  /\ next_report' = IF secs < next_report THEN next_report
                    ELSE IF secs < 3 THEN secs + 1 ELSE secs + MINUTE
  /\ OnlyClock /\ UNCHANGED <<lapic_ready, timer_ticks, secs, low>>

(* The timer interrupt wakes a halted CPU; interrupts are on in the loop.  *)
(* Two instructions take no two ticks: from "torn" only ReadHigh goes on.  *)
TimerTick ==
  /\ at \in {"plants", "low", "high", "report", "halted"}
  /\ timer_ticks < MaxTicks
  /\ timer_ticks' = timer_ticks + 1
  /\ at' = CASE at = "halted" -> "plants" [] at = "high" -> "torn" [] OTHER -> at
  /\ OnlyClock /\ UNCHANGED <<loader, processes, lapic_ready, secs, next_report, low>>

(* What the processes of the machine ask of the security core.  It touches *)
(* nothing of the clock, so it is enough to look at it after the last tick. *)
ProcessCall ==
  /\ Go("halted", "halted")
  /\ timer_ticks = MaxTicks
  /\ \E pid \in processes : SecurityCall(pid)
  /\ OnlySecurity

BootCpu ==
  \/ CheckLoader \/ StartMemory
  \/ SetTestLevel \/ SetTestWhitelist \/ TestAllowed \/ TestForbidden
  \/ StartAps \/ lapic_mark_ready \/ EnterMainLoop
  \/ RunPlants \/ ReadLow \/ ReadHigh \/ Report

OtherCpu(c) == Run(c) /\ OnlySmp /\ UNCHANGED <<loader, processes, at>>

KernelNext == BootCpu \/ TimerTick \/ ProcessCall \/ \E c \in Ids : OtherCpu(c)

(* Every CPU executes, and the timer ticks. *)
KernelSpec ==
  /\ KernelInit /\ [][KernelNext]_kernelVars
  /\ WF_kernelVars(BootCpu) /\ WF_clock(TimerTick)
  /\ \A c \in Ids : WF_vars(Run(c))

-----------------------------------------------------------------------------
(* Properties *)

(* No other CPU takes up its work before the boot CPU is done with the     *)
(* memory, has seen system call 1 of process 42 denied and the process     *)
(* quarantined (what they say later, processes that make calls may have    *)
(* changed), and passes timer ticks on (kernel/central_core.c:77, 136-151). *)
SelfTested ==
  /\ quarantined = {test_pid}
  /\ answer = [id |-> 1, pid |-> test_pid, granted |-> FALSE]

OthersWaitForBoot ==
  (\E c \in present : ap[c] = "loop") =>
    step = "done" /\ lapic_ready /\ (processes = {} => SelfTested)

(* Unless the kernel refuses the machine, every CPU a stack is left for    *)
(* reaches its main loop, silent ids or not (kernel/central_core.c:31-32). *)
KernelStarts == loader = "ok" => AllJoin

(* The uptime is reported again within a minute of now                     *)
(* (kernel/central_core.c:159).                                            *)
ReportDue == next_report <= timer_ticks \div TIMER_HZ + MINUTE
=============================================================================
