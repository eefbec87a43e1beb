--------------------------- MODULE KernelMainProofs --------------------------
(* Proofs about KernelMain, for every machine: what holds of the memory     *)
(* core, of the start of the other CPUs and of the security core by         *)
(* themselves (BootProofs) holds of them inside kernel_main.                *)
EXTENDS KernelMain, BootProofs, TLAPS

-----------------------------------------------------------------------------
(* The memory core.                                                         *)

(* Nothing of the kernel but StartMemory touches the zones during the boot. *)
LEMMA MemoryNext == [KernelNext]_kernelVars => [memory_boot]_memoryVars
<1> SUFFICES ASSUME [KernelNext]_kernelVars PROVE [memory_boot]_memoryVars
  OBVIOUS
<1>1. CASE UNCHANGED kernelVars
  BY <1>1 DEF kernelVars
<1>2. CASE BootCpu
  <2>1. CASE CheckLoader
    BY <2>1 DEF CheckLoader
  <2>2. CASE StartMemory
    BY <2>2 DEF StartMemory
  <2>3. CASE SetTestLevel \/ SetTestWhitelist \/ TestAllowed \/ TestForbidden
    BY <2>3 DEF SetTestLevel, SetTestWhitelist, TestAllowed, TestForbidden, OnlySecurity
  <2>4. CASE StartAps \/ lapic_mark_ready \/ EnterMainLoop
    BY <2>4 DEF StartAps, lapic_mark_ready, EnterMainLoop, OnlySmp
  <2>5. CASE RunPlants \/ ReadLow \/ ReadHigh \/ Report
    BY <2>5 DEF RunPlants, ReadLow, ReadHigh, Report, OnlyClock
  <2> QED
    BY <1>2, <2>1, <2>2, <2>3, <2>4, <2>5 DEF BootCpu
<1>3. CASE TimerTick
  BY <1>3 DEF TimerTick, OnlyClock
<1>4. CASE ProcessCall
  BY <1>4 DEF ProcessCall, OnlySecurity
<1>5. ASSUME NEW c \in Ids, OtherCpu(c) PROVE [memory_boot]_memoryVars
  BY <1>5 DEF OtherCpu, OnlySmp
<1> QED
  BY <1>1, <1>2, <1>3, <1>4, <1>5 DEF KernelNext

LEMMA MemoryStarts == KernelInit => MemoryInit
BY DEF KernelInit

LEMMA KernelSteps == KernelSpec => KernelInit /\ [][KernelNext]_kernelVars
BY PTL DEF KernelSpec

LEMMA LaidOutAlways == KernelSpec => []LaidOutInv
BY KernelSteps, MemoryStarts, MemoryNext, LaidOutInit, LaidOutStep, PTL

(* Wherever the kernel image ends and however much RAM there is, no zone    *)
(* ever leaves the RAM above the image; the layout tiles its whole pages,   *)
(* FastApp starts no larger than Service, and its limit leaves Service its  *)
(* minimum exactly (kernel/memory_core.c:77-108).                           *)
THEOREM ZonesAlwaysFillRam == KernelSpec => []ZonesFillRam
BY LaidOutAlways, LaidOutInRam, LaidOutTiled, PTL DEF ZonesFillRam

(* The self test of the memory reports no error on any machine of 64 MB or  *)
(* more, with the sizes of the code and an image below 48 MB                *)
(* (docs/OmniumX_OmniumOS.md:407).                                          *)
THEOREM SelfTestPasses == ASSUME CodeConstants PROVE KernelSpec => []TestPasses
<1>1. KernelInit => LaidOutInv /\ TestInv
  BY MemoryStarts, LaidOutInit, TestInvInit
<1>2. LaidOutInv /\ TestInv /\ [KernelNext]_kernelVars => (LaidOutInv /\ TestInv)'
  BY MemoryNext, LaidOutStep, TestInvStep
<1> QED
  BY <1>1, <1>2, KernelSteps, TestInvPasses, PTL

-----------------------------------------------------------------------------
(* The start of the other CPUs.                                             *)

LEMMA SmpBootInit == KernelInit => Init
BY DEF KernelInit

(* Every step of the kernel is one of the start of the CPUs or leaves it    *)
(* alone.                                                                   *)
LEMMA SmpBootNext == [KernelNext]_kernelVars => [Next]_vars
<1> SUFFICES ASSUME [KernelNext]_kernelVars PROVE [Next]_vars
  OBVIOUS
<1>1. CASE UNCHANGED kernelVars
  BY <1>1 DEF kernelVars
<1>2. CASE BootCpu
  <2>1. CASE CheckLoader \/ StartMemory
    BY <2>1 DEF CheckLoader, StartMemory, OnlyMemory
  <2>2. CASE SetTestLevel \/ SetTestWhitelist \/ TestAllowed \/ TestForbidden
    BY <2>2 DEF SetTestLevel, SetTestWhitelist, TestAllowed, TestForbidden, OnlySecurity
  <2>3. CASE StartAps
    BY <2>3 DEF StartAps, Next, Boot
  <2>4. CASE lapic_mark_ready
    BY <2>4 DEF lapic_mark_ready
  <2>5. CASE EnterMainLoop
    BY <2>5 DEF EnterMainLoop, Next, Boot
  <2>6. CASE RunPlants \/ ReadLow \/ ReadHigh \/ Report
    BY <2>6 DEF RunPlants, ReadLow, ReadHigh, Report, OnlyClock
  <2> QED
    BY <1>2, <2>1, <2>2, <2>3, <2>4, <2>5, <2>6 DEF BootCpu
<1>3. CASE TimerTick
  BY <1>3 DEF TimerTick, OnlyClock
<1>4. CASE ProcessCall
  BY <1>4 DEF ProcessCall, OnlySecurity
<1>5. ASSUME NEW c \in Ids, OtherCpu(c) PROVE [Next]_vars
  BY <1>5 DEF OtherCpu, Next
<1> QED
  BY <1>1, <1>2, <1>3, <1>4, <1>5 DEF KernelNext

(* Inside kernel_main too no two CPUs run on one stack, and each answer is  *)
(* credited to its CPU, which calls itself by the index of its stack.       *)
THEOREM KernelStartsCpus ==
  ASSUME Late = {}
  PROVE  KernelSpec => [](OwnStack /\ AnswersCredited)
<1>1. KernelInit /\ [][KernelNext]_kernelVars => Spec
  BY SmpBootInit, SmpBootNext, PTL DEF Spec
<1>2. KernelSpec => KernelInit /\ [][KernelNext]_kernelVars
  BY PTL DEF KernelSpec
<1> QED
  BY <1>1, <1>2, StacksApart, EveryAnswerCredited, PTL

-----------------------------------------------------------------------------
(* What kernel_main and the processes of the machines ask of the security   *)
(* core is among the calls that SecurityCore is about.                      *)
CallsAreModelled ==
  /\ test_pid \in Pids /\ MAX_SYSCALLS \in Counts
  /\ \A m \in Machines : m.processes \subseteq Pids

(* The machine is never assigned, so this stays so.                         *)
KnownCallers == CallsAreModelled /\ processes \subseteq Pids

LEMMA SecurityStarts == CallsAreModelled /\ KernelInit => SecurityInit /\ KnownCallers
BY DEF CallsAreModelled, KernelInit, KnownCallers

LEMMA MachineStays == KnownCallers /\ [KernelNext]_kernelVars => KnownCallers'
<1>1. [KernelNext]_kernelVars => processes' = processes
  BY DEF KernelNext, kernelVars, BootCpu, CheckLoader, StartMemory, SetTestLevel,
     SetTestWhitelist, TestAllowed, TestForbidden, StartAps, lapic_mark_ready, EnterMainLoop,
     RunPlants, ReadLow, ReadHigh, Report, TimerTick, ProcessCall, OtherCpu, Go
<1> QED
  BY <1>1 DEF KnownCallers, CallsAreModelled, test_pid

LEMMA SecurityNextStep ==
  KnownCallers /\ [KernelNext]_kernelVars => [SecurityNext]_securityVars
<1> SUFFICES ASSUME KnownCallers, [KernelNext]_kernelVars PROVE [SecurityNext]_securityVars
  OBVIOUS
<1>0. /\ test_pid \in Pids /\ processes \subseteq Pids
      /\ MAX_SYSCALLS \in Nat \ {0} /\ MAX_SYSCALLS \in Counts
  BY SecurityCoreAssumption DEF KnownCallers, CallsAreModelled
<1>1. CASE UNCHANGED kernelVars
  BY <1>1 DEF kernelVars
<1>2. CASE BootCpu
  <2>1. CASE CheckLoader \/ StartMemory
    BY <2>1 DEF CheckLoader, StartMemory, OnlyMemory
  <2>2. CASE SetTestLevel
    <3>1. security_set_process_level(test_pid, "user") /\ "user" \in Levels
      BY <2>2 DEF SetTestLevel, Levels
    <3> QED
      BY <1>0, <3>1 DEF SecurityNext, SecurityCall
  <2>3. CASE SetTestWhitelist
    <3>1. security_set_whitelist(test_pid, {0}, MAX_SYSCALLS)
      BY <2>3 DEF SetTestWhitelist
    <3>2. {0} \in SUBSET {s \in Syscalls : s < MAX_SYSCALLS}
      BY <1>0 DEF Syscalls
    <3> QED
      BY <1>0, <3>1, <3>2 DEF SecurityNext, SecurityCall
  <2>4. CASE TestAllowed \/ TestForbidden
    <3>1. PICK s \in 0 .. MAX_SYSCALLS : security_check_syscall(s, test_pid)
      <4>1. 0 \in 0 .. MAX_SYSCALLS /\ 1 \in 0 .. MAX_SYSCALLS
        BY <1>0
      <4> QED
        BY <2>4, <4>1 DEF TestAllowed, TestForbidden
    <3> QED
      BY <1>0, <3>1 DEF SecurityNext, SecurityCall
  <2>5. CASE StartAps \/ EnterMainLoop
    BY <2>5 DEF StartAps, EnterMainLoop, OnlySmp
  <2>6. CASE lapic_mark_ready
    BY <2>6 DEF lapic_mark_ready
  <2>7. CASE RunPlants \/ ReadLow \/ ReadHigh \/ Report
    BY <2>7 DEF RunPlants, ReadLow, ReadHigh, Report, OnlyClock
  <2> QED
    BY <1>2, <2>1, <2>2, <2>3, <2>4, <2>5, <2>6, <2>7 DEF BootCpu
<1>3. CASE TimerTick
  BY <1>3 DEF TimerTick, OnlyClock
<1>4. CASE ProcessCall
  BY <1>0, <1>4 DEF ProcessCall, SecurityNext
<1>5. ASSUME NEW c \in Ids, OtherCpu(c) PROVE [SecurityNext]_securityVars
  BY <1>5 DEF OtherCpu, OnlySmp
<1> QED
  BY <1>1, <1>2, <1>3, <1>4, <1>5 DEF KernelNext

(* Inside kernel_main too the table has one entry for a process and is the  *)
(* map of rights that the policy asks for; the calls of processes without   *)
(* an entry are refused and not quarantined.                                *)
THEOREM KernelImplementsPolicy ==
  CallsAreModelled /\ KernelSpec => []OneEntry /\ ImplementsPolicy
<1>1. CallsAreModelled /\ KernelInit /\ [][KernelNext]_kernelVars => SecuritySpec
  BY SecurityStarts, SecurityNextStep, MachineStays, PTL DEF SecuritySpec
<1>2. KernelSpec => KernelInit /\ [][KernelNext]_kernelVars
  BY PTL DEF KernelSpec
<1> QED
  BY <1>1, <1>2, SecurityInvariance, TableImplementsPolicy, PTL

-----------------------------------------------------------------------------
(* The order of the boot.                                                   *)

MainLoop == {"plants", "low", "high", "torn", "report", "halted"}

TableType == process_table \in [Entries -> [pid : Nat, level : Levels, whitelist : SUBSET Int]]
Blank == \A i \in Entries : process_table[i].pid = 0 /\ process_table[i].whitelist = {}
Registered(list) ==
  \E i \in Entries : Found(i, test_pid) /\ process_table[i].whitelist = list

(* What the boot CPU has done at each place of kernel_main.                 *)
Tables ==
  /\ at \in {"start", "memory", "level"} => TableType /\ Blank
  /\ at = "whitelist" => TableType /\ Registered({})
  /\ at \in {"allowed", "forbidden"} => TableType /\ Registered({0})
  /\ at \in {"aps", "ready"} \union MainLoop => (processes = {} => SelfTested)

Stages ==
  /\ at \notin {"start", "memory", "panic"} => step = "done"
  /\ at \in {"ready"} \union MainLoop => lapic_ready
  /\ system_initialized => at \in MainLoop

Waiting ==
  /\ present \subseteq Ids /\ ap = [c \in Ids |-> ap[c]]
  /\ \A c \in Ids : ap[c] = "loop" => system_initialized

OrderInv == Tables /\ Stages /\ Waiting

LEMMA OrderInit == KernelInit => OrderInv
<1> SUFFICES ASSUME KernelInit PROVE OrderInv
  OBVIOUS
<1>1. at = "start" /\ SecurityInit /\ Init
  BY DEF KernelInit
<1>2. TableType /\ Blank
  BY <1>1 DEF SecurityInit, TableType, Blank, Levels
<1>3. Tables
  BY <1>1, <1>2 DEF Tables, MainLoop
<1>4. Stages
  BY <1>1 DEF Stages, Init, MainLoop
<1>5. present \subseteq Ids
  BY <1>1 DEF Init
<1>6. ap = [c \in Ids |-> "off"]
  BY <1>1 DEF Init
<1>7. Waiting
  BY <1>5, <1>6 DEF Waiting
<1> QED
  BY <1>3, <1>4, <1>7 DEF OrderInv

(* A step that changes nothing of the start of the CPUs or of the table.    *)
LEMMA SmpQuiet == ASSUME Waiting, UNCHANGED vars PROVE Waiting'
BY DEF Waiting, vars, machine

LEMMA TableQuiet ==
  ASSUME Tables, UNCHANGED <<process_table, quarantined, answer, processes>>,
         \/ at' = at
         \/ at' = "panic"
         \/ at = "start" /\ at' = "memory"
         \/ at = "memory" /\ at' = "level"
         \/ at \in {"aps", "ready"} \union MainLoop /\ at' \in {"aps", "ready"} \union MainLoop
  PROVE  Tables'
BY DEF Tables, TableType, Blank, Registered, Found, FirstWith, SelfTested, MainLoop

LEMMA LevelOrder == ASSUME OrderInv, SetTestLevel PROVE OrderInv'
<1>1. /\ at = "level" /\ at' = "whitelist" /\ TableType /\ Blank
      /\ UpdateLevel(test_pid, "user") \/ ClaimEntry(test_pid, "user") \/ KeepTable(test_pid)
      /\ UNCHANGED <<vars, clock, memoryVars>>
  BY DEF OrderInv, Tables, SetTestLevel, Go, security_set_process_level, OnlySecurity
<1>2. 1 \in Entries /\ Entries \subseteq Int
  BY SecurityCoreAssumption DEF Entries
<1>3. ~UpdateLevel(test_pid, "user")
  BY <1>1 DEF UpdateLevel, Found, FirstWith, Blank, test_pid
<1>4. ~KeepTable(test_pid)
  BY <1>1, <1>2 DEF KeepTable, Blank, test_pid
<1>5. PICK i \in Entries :
        process_table' = [process_table EXCEPT ![i].pid = test_pid, ![i].level = "user"]
  BY <1>1, <1>3, <1>4 DEF ClaimEntry
<1>6. TableType'
  BY <1>1, <1>5 DEF TableType, test_pid, Levels
<1>7. /\ process_table'[i].pid = test_pid /\ process_table'[i].whitelist = {}
      /\ \A j \in Entries : process_table'[j].pid = test_pid => j = i
  BY <1>1, <1>5 DEF TableType, Blank, test_pid
<1>8. Registered({})'
  BY <1>2, <1>7 DEF Registered, Found, FirstWith, test_pid
<1>9. Tables'
  BY <1>1, <1>6, <1>8 DEF Tables, MainLoop
<1>10. Stages' /\ Waiting'
  BY <1>1, SmpQuiet DEF OrderInv, Stages, MainLoop, vars, clock, memoryVars
<1> QED
  BY <1>9, <1>10 DEF OrderInv

LEMMA WhitelistOrder == ASSUME OrderInv, SetTestWhitelist PROVE OrderInv'
<1>1. /\ at = "whitelist" /\ at' = "allowed" /\ TableType /\ Registered({})
      /\ process_table' =
           [i \in Entries |->
              IF Found(i, test_pid)
                THEN [process_table[i] EXCEPT !.whitelist =
                        {s \in @ : s >= MAX_SYSCALLS} \union {0}]
                ELSE process_table[i]]
      /\ UNCHANGED <<vars, clock, memoryVars>>
  BY DEF OrderInv, Tables, SetTestWhitelist, Go, security_set_whitelist, OnlySecurity
<1>2. TableType'
  BY <1>1 DEF TableType
<1>3. \A j \in Entries : process_table'[j].pid = process_table[j].pid
  BY <1>1 DEF TableType
<1>4. PICK i \in Entries : Found(i, test_pid) /\ process_table[i].whitelist = {}
  BY <1>1 DEF Registered
<1>5. process_table'[i].whitelist = {s \in {} : s >= MAX_SYSCALLS} \union {0}
  BY <1>1, <1>4 DEF TableType
<1>6. Registered({0})'
  BY <1>3, <1>4, <1>5 DEF Registered, Found, FirstWith, test_pid
<1>7. Tables'
  BY <1>1, <1>2, <1>6 DEF Tables, MainLoop
<1>8. Stages' /\ Waiting'
  BY <1>1, SmpQuiet DEF OrderInv, Stages, MainLoop, vars, clock, memoryVars
<1> QED
  BY <1>7, <1>8 DEF OrderInv

LEMMA AllowedOrder == ASSUME OrderInv, TestAllowed PROVE OrderInv'
<1>1. /\ at = "allowed" /\ at' = "forbidden" /\ TableType /\ Registered({0})
      /\ UNCHANGED <<vars, clock, memoryVars, process_table>>
  BY DEF OrderInv, Tables, TestAllowed, Go, security_check_syscall, OnlySecurity
<1>2. Tables'
  BY <1>1 DEF Tables, MainLoop, TableType, Registered, Found, FirstWith, test_pid
<1>3. Stages' /\ Waiting'
  BY <1>1, SmpQuiet DEF OrderInv, Stages, MainLoop, vars, clock, memoryVars
<1> QED
  BY <1>2, <1>3 DEF OrderInv

LEMMA ForbiddenOrder == ASSUME OrderInv, TestForbidden PROVE OrderInv'
<1>1. /\ at = "forbidden" /\ at' = "aps" /\ Registered({0})
      /\ \/ CheckUnknown(1, test_pid) \/ CheckPermitted(1, test_pid)
         \/ CheckForbidden(1, test_pid)
      /\ UNCHANGED <<vars, clock, memoryVars>>
  BY DEF OrderInv, Tables, TestForbidden, Go, security_check_syscall, OnlySecurity
<1>2. PICK i \in Entries : Found(i, test_pid) /\ process_table[i].whitelist = {0}
  BY <1>1 DEF Registered
<1>3. Known(test_pid)
  BY <1>2 DEF Known
<1>4. ~Permitted(1, test_pid)
  <2> SUFFICES ASSUME NEW j \in Entries, Found(j, test_pid) PROVE 1 \notin process_table[j].whitelist
    BY DEF Permitted
  <2>1. i <= j /\ j <= i /\ i \in Int /\ j \in Int
    BY <1>2, SecurityCoreAssumption DEF Found, FirstWith, Entries
  <2>2. j = i
    BY <2>1
  <2> QED
    BY <1>2, <2>2
<1>5. quarantined' = {test_pid} /\ answer' = [id |-> 1, pid |-> test_pid, granted |-> FALSE]
  BY <1>1, <1>3, <1>4 DEF CheckUnknown, CheckPermitted, CheckForbidden, Return,
     quarantine_process
<1>6. Tables'
  BY <1>1, <1>5 DEF Tables, MainLoop, SelfTested, test_pid
<1>7. Stages' /\ Waiting'
  BY <1>1, SmpQuiet DEF OrderInv, Stages, MainLoop, vars, clock, memoryVars
<1> QED
  BY <1>6, <1>7 DEF OrderInv

(* The boot CPU starts the others without letting them go.                  *)
LEMMA StartOrder == ASSUME OrderInv, StartAps PROVE OrderInv'
<1>1. /\ at = "aps" /\ at' = "aps" /\ start_all_aps
      /\ UNCHANGED <<memoryVars, securityVars, clock, processes>>
  BY DEF StartAps, Go, OnlySmp
<1>2. UNCHANGED <<system_initialized, present>>
  BY <1>1 DEF start_all_aps, SkipBsp, NoStackLeft, WriteStack, WriteIndex, ReadBefore, SendSipi,
     Answered, TimedOut, machine, apVars
<1>3. Waiting'
  <2>1. CASE SendSipi
    BY <1>2, <2>1 DEF SendSipi, OrderInv, Waiting
  <2>2. CASE ~SendSipi
    BY <1>1, <1>2, <2>2 DEF start_all_aps, SkipBsp, NoStackLeft, WriteStack, WriteIndex,
       ReadBefore, Answered, TimedOut, apVars, OrderInv, Waiting
  <2> QED
    BY <2>1, <2>2
<1>4. Tables'
  BY <1>1, TableQuiet DEF OrderInv, securityVars
<1>5. Stages'
  BY <1>1, <1>2 DEF OrderInv, Stages, clock, memoryVars
<1> QED
  BY <1>3, <1>4, <1>5 DEF OrderInv

LEMMA OtherOrder == ASSUME OrderInv, NEW c \in Ids, OtherCpu(c) PROVE OrderInv'
<1>1. /\ Run(c) /\ UNCHANGED <<memoryVars, securityVars, clock, processes, at>>
  BY DEF OtherCpu, OnlySmp
<1>2. UNCHANGED <<system_initialized, present>>
  BY <1>1 DEF Run, LoadStack, LoadIndex, Count, EnterLoop, bspVars, machine
<1>3. Waiting'
  <2>1. CASE EnterLoop(c)
    BY <1>2, <2>1 DEF EnterLoop, OrderInv, Waiting
  <2>2. CASE LoadStack(c) \/ LoadIndex(c) \/ Count(c)
    BY <1>2, <2>2 DEF LoadStack, LoadIndex, Count, OrderInv, Waiting
  <2> QED
    BY <1>1, <2>1, <2>2 DEF Run
<1>4. Tables'
  BY <1>1, TableQuiet DEF OrderInv, securityVars
<1>5. Stages'
  BY <1>1, <1>2 DEF OrderInv, Stages, clock, memoryVars
<1> QED
  BY <1>3, <1>4, <1>5 DEF OrderInv

LEMMA OrderStep == OrderInv /\ [KernelNext]_kernelVars => OrderInv'
<1> SUFFICES ASSUME OrderInv, [KernelNext]_kernelVars PROVE OrderInv'
  OBVIOUS
<1>1. CASE UNCHANGED kernelVars
  <2>1. Waiting' /\ Tables'
    BY <1>1, SmpQuiet, TableQuiet DEF kernelVars, securityVars, OrderInv
  <2> QED
    BY <1>1, <2>1 DEF kernelVars, OrderInv, Stages, vars, clock, memoryVars
<1>2. CASE CheckLoader
  <2>1. Waiting' /\ Tables'
    BY <1>2, SmpQuiet, TableQuiet DEF CheckLoader, Go, securityVars, OrderInv
  <2> QED
    BY <1>2, <2>1 DEF CheckLoader, Go, OrderInv, Stages, vars, clock, memoryVars, MainLoop
<1>3. CASE StartMemory
  <2>1. Waiting' /\ Tables'
    BY <1>3, SmpQuiet, TableQuiet DEF StartMemory, Go, OnlyMemory, securityVars, OrderInv
  <2> QED
    BY <1>3, <2>1 DEF StartMemory, Go, OnlyMemory, OrderInv, Stages, vars, clock, MainLoop
<1>4. CASE lapic_mark_ready
  <2>1. Waiting' /\ Tables'
    BY <1>4, SmpQuiet, TableQuiet DEF lapic_mark_ready, Go, securityVars, OrderInv
  <2> QED
    BY <1>4, <2>1 DEF lapic_mark_ready, Go, OrderInv, Stages, vars, memoryVars, MainLoop
<1>5. CASE EnterMainLoop
  <2>1. Waiting'
    BY <1>5 DEF EnterMainLoop, Initialized, apVars, machine, OrderInv, Waiting
  <2>2. Tables'
    BY <1>5, TableQuiet DEF EnterMainLoop, Go, OnlySmp, securityVars, OrderInv, MainLoop
  <2> QED
    BY <1>5, <2>1, <2>2 DEF EnterMainLoop, Go, OnlySmp, OrderInv, Stages, clock, memoryVars,
       MainLoop
<1>6. CASE RunPlants \/ ReadLow \/ ReadHigh \/ Report
  <2>1. /\ at \in MainLoop /\ at' \in MainLoop
        /\ UNCHANGED <<memoryVars, vars, securityVars, lapic_ready, processes>>
    BY <1>6 DEF RunPlants, ReadLow, ReadHigh, Report, Go, OnlyClock, clock, MainLoop
  <2>2. Waiting' /\ Tables'
    BY <2>1, SmpQuiet, TableQuiet DEF securityVars, OrderInv
  <2> QED
    BY <2>1, <2>2 DEF OrderInv, Stages, vars, memoryVars, MainLoop
<1>7. CASE TimerTick
  <2>1. /\ at \in MainLoop /\ at' \in MainLoop
        /\ UNCHANGED <<memoryVars, vars, securityVars, lapic_ready, processes>>
    BY <1>7 DEF TimerTick, OnlyClock, MainLoop
  <2>2. Waiting' /\ Tables'
    BY <2>1, SmpQuiet, TableQuiet DEF securityVars, OrderInv
  <2> QED
    BY <2>1, <2>2 DEF OrderInv, Stages, vars, memoryVars, MainLoop
<1>8. CASE ProcessCall
  <2>1. /\ at = "halted" /\ at' = "halted" /\ processes # {}
        /\ UNCHANGED <<memoryVars, vars, clock, processes>>
    BY <1>8 DEF ProcessCall, Go, OnlySecurity
  <2>2. Waiting' /\ Tables'
    BY <2>1, SmpQuiet DEF Tables, MainLoop, OrderInv
  <2> QED
    BY <2>1, <2>2 DEF OrderInv, Stages, vars, clock, memoryVars, MainLoop
<1> QED
  BY <1>1, <1>2, <1>3, <1>4, <1>5, <1>6, <1>7, <1>8, LevelOrder, WhitelistOrder, AllowedOrder,
     ForbiddenOrder, StartOrder, OtherOrder DEF KernelNext, BootCpu

(* On every machine, late CPUs or not, no other CPU takes up its work       *)
(* before the boot CPU is done with the memory, the self test of the        *)
(* quarantine and the local APIC (kernel/central_core.c:77, 136-151).       *)
THEOREM OthersWait == KernelSpec => []OthersWaitForBoot
<1>1. OrderInv => OthersWaitForBoot
  BY DEF OrderInv, Tables, Stages, Waiting, OthersWaitForBoot, MainLoop
<1>2. KernelSpec => KernelInit /\ [][KernelNext]_kernelVars
  BY PTL DEF KernelSpec
<1> QED
  BY <1>1, <1>2, OrderInit, OrderStep, PTL
=============================================================================
