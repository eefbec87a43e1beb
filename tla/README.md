# OmniumOS in TLA+

OmniumOS is a small x86 kernel in C and assembly (`src/kernel`, `src/ipc`,
`src/boot`), and beside it an emulator in Python (`src/emulator`): a compiler
for the language Flang, an assembler and a multi-core processor.  This directory
models both, checks the models with TLC on small instances and proves with
TLAPS, for every instance, the safety of the kernel — of the scheduler, the memory
core and its boot, the message queue and the main loops on it, the start of the
CPUs, the security core and the output — and of the emulated processor: that its
cores take turns and leave each other alone.  Five of the theorems are
refinements.  Paths are relative to `src/`.

Contents: [the system](#1-the-system) ·
[modules and code](#2-modules-and-the-code-they-model) ·
[runs](#3-runs-and-bounds) · [fairness](#4-fairness) ·
[what the runs found](#5-what-was-found) · [proofs](#6-proofs) ·
[left out](#7-what-is-not-modelled) · [plan](#8-plan) · [reading and
running](#9-reading-and-running).

## 1. The system

### Components

| component | code | state | operations | what makes it correct |
|---|---|---|---|---|
| Process Core | `kernel/process_core.c` | per CPU: four linked run queues, current process, pool of spare time, pick counter; per process: priority, budget, link | `scheduler_tick` (`pick_next`, `bg_budget`, `push`, `pop`), `set_process_priority` | a process is in one place; lists never close into rings; the pool never goes below zero; classes are served in order, the background gets its turn and no more than that, and nobody who is promised the CPU starves |
| Memory Core | `kernel/memory_core.c` | three zones (range, bump pointer, a lock each), `zones_lock`, `app_max` | `memory_init`, `memory_init_range`, `memory_allocate` and the growth of FastApp into Service, `memory_test` | blocks never overlap, lie in their zone and are handed out once; zones tile the range; no deadlock over the three locks |
| FlexIPC | `ipc/flexipc.c` | ring of 16 messages, head, tail, `queue_lock` | `flexipc_send`, `flexipc_receive` | with any number of CPUs it is a bounded FIFO queue |
| Central Core | `kernel/central_core.c`, `kernel/arch/arch.c` | `system_initialized`, `timer_ticks`, `next_report`, the halted CPUs, pending IPIs | `kernel_main` from the check of the loader to the uptime reports; the main loops, `run_plants`, the timer and IPI handlers | nobody works before the kernel is ready and all do in the end; a message reaches its plant once, and does reach it |
| SMP start | `kernel/smp.c`, `kernel/ap_trampoline.asm`, `central_core.c` | one mailbox (stack, index), `smp_cpus_online`, stacks | `start_all_aps`, `start_ap`, the trampoline, `ap_entry` | stacks are not shared, indices are right, all CPUs join |
| Security Core | `kernel/security_core.c` | table of processes with level and whitelist | registration, level, whitelist, `security_check_syscall` | the table is a map from processes to rights; unknown ones have none; a forbidden call leads to quarantine |
| Kernel output | `kernel/kernel_utils.c`, `kernel/arch/arch.c` | `print_lock`, screen, cursor | `kprint`, scrolling, `panic`, exceptions in the middle | strings stay whole; the screen shows the end of what was printed; a crash is reported |
| Plants 1–4 | `include/parent_modules/common` | none (stubs) | `plantN_update`, `plantN_command` | get their messages |
| AI, Metrics, Optimize Core | `kernel/ai_core.c` … | none | one function that prints | – |
| Architecture, boot, libraries | `kernel/arch`, `boot`, `kernel/mem.c` … | hardware tables | set-up, string functions | – |
| Emulator | `emulator/emulator`, `emulator/main.py` | cores (registers, stacks, flags, pc), shared memory, run queue | `Core.step` (every instruction), `MultiCore.run` | runs as its program says, in turns; ends |
| Assembler | `emulator/assembler/assembler.py` | – | `assemble` | labels resolve |
| Flang compiler | `emulator/flang/compiler.py` | free registers, labels, loops, functions, types | one method per statement and expression | the program it makes does what the source says |
| Flang interpreter | `emulator/flang/ir.py` | variables, output | one case per statement and expression | is the meaning the compiler is compared with |
| Flang front end | `emulator/flang/lexer.py`, `parser.py` | the tokens and the position, the map of variable types | one method per statement and per level of expressions | what is parsed is what was written; what is no program is refused |
| Unused Flang passes, system calls | `semantic.py`, `codegen.py`, `interpreter.py`, `system/kernel/syscalls.py` | – | nothing imports them | – |

### How they interact

* The timer interrupt reaches the boot CPU only (`arch.c:114`): its handler
  counts the tick, passes it to the other CPUs as an IPI and calls
  `scheduler_tick`.  An interrupt is also what ends `hlt`.
* `kernel_main` runs the initialisations in order on the boot CPU: memory and
  its test, the self test of the quarantine, the start of the other CPUs, the
  local APIC.  The others wait for `system_initialized` before their loops.
* Any CPU may call `flexipc_send`; every main loop empties the queue with
  `flexipc_receive` and calls the command function of the plant named by `dst`.
* `memory_allocate` is called by any CPU.  A FastApp request that does not fit
  takes memory from Service by moving their common boundary.
* The Security Core gives a process it refuses to Plant 4 as a command.
* Everything prints through `kprint` and its lock; `panic` prints without it.
* `main.py` parses, compiles and assembles each source and runs all programs on
  one machine, a core for each, over one memory.  The parser's map of variable
  types decides what the compiler may be given.

### What is hard here

Two CPUs in the allocator between an unlocked read and the locked growth
(`memory_core.c:153`), or the same slot of the ring; a message that comes
between the last receive and `hlt` (`central_core.c:81`); a CPU that answers
after the boot CPU gave it up (`smp.c:57`); an exception inside the critical
section of `kprint` (`arch.c:102`); a process that is yielded, woken or
reprioritised between two ticks while it sits in a linked list; a 64-bit counter
read in two halves under an interrupt (`central_core.c:158`); wrapping counters
and sums near the top of the address space; in the parser, precedences that are
off by one between left and right associative operators; in the compiler, calls
in the middle of expressions and every way out of a function.  The full list, each
with its line and the properties aimed at it, is `hazards` in `PROJECT.json`.

## 2. Modules and the code they model

Each module's head comment says what its variables stand for; `map` in
`PROJECT.json` gives the lines of every definition.

**`ProcessCore`, `RunQueue`.**  One CPU of `process_core.c` — every variable
there is indexed by the CPU, and a tick touches its own entry only.
`scheduler_tick` is `TickIdle`, `TickSwitch` (expired or yielded; pushes the
old process, clears its budget, after donating it to the pool if it yielded, then picks) and
`TickRun`; each contains the whole call, the pick included.  `RunQueue` has the
lists as they are in memory, a head per class and `next` in each process, with
`push` and `pop` as the code has them; `queue` holds the sequence each list
stands for, and `ListsMatch` says that they agree.  The guards read `queue`,
the steps change both.  The kernel creates no process yet: `Admit` is what the
host test does (`tests/host/test_scheduler.c:18`), with stale links allowed,
and `Yield` and `Wake` set the flag `wants_cpu`, which only the scheduler reads.
Two variables are histories that no guard reads, `waited` and `gap`: how many
picks in a row passed over a waiting background, and how many there were since it
last ran.

**`Zones`, `MemoryCore`, `MemoryBoot`.**  `Zones` has the arithmetic, modulo the
size `W` of the address space: alignment, the layout of `memory_init_range`,
bumping up and down, what growth needs.  `MemoryCore` runs `memory_allocate` on
several CPUs, a step for every access that another CPU can see, unlocked reads
included.  `MemoryBoot` has `memory_init` and `memory_test` at the real scale, in
KB, as steps of `KernelMain`.

**`FlexIPC`, `MessageQueue`.**  `MessageQueue` is the promise: a bounded queue,
send and receive atomic between call and return.  `FlexIPC` takes the lock,
reads or writes the slot, moves the index and releases, as separate steps; its
property `ImplementsQueue` is the refinement, with the ring between `tail` and
`head` as the queue.

**`Kernel`.**  The main loops with the timer, the IPIs, `system_initialized` and
`hlt`.  It extends `FlexIPC`: the ring, the lock and where each CPU is inside a
call are part of its state, `Send` and `Receive` begin a call, `InCall` is a step
inside one, and an interrupt may come between any two of them.  `loop` is the
place of each CPU in its main loop; a CPU does something else there only while it
is in no call.

**`KernelMain`.**  `kernel_main` composes `MemoryBoot`, `SecurityCore` and
`SmpBoot`: it extends the three, its variable `at` says which of them the boot
CPU is in, and its actions are theirs at that place with everything else
unchanged.  It adds the check of the loader, the panics, the self test of the
quarantine, the local APIC, the uptime reports with their two-part read of
`timer_ticks`, and the timer interrupt.  The machine (CPUs, memory, loader, the
processes that make system calls) is chosen in `KernelInit`.

**`SmpBoot`.**  `start_all_aps` and `start_ap` on one side, the trampoline and
`ap_entry` on the other, over the one mailbox.  The machine itself (which ids
exist, which one boots, how many are tried) is chosen in `Init`.  `Late` are the
CPUs that may answer after the boot CPU has given them up.

**`SecurityCore`, `SecurityPolicy`.**  The table, with its linear searches, and
the policy it implements (`ImplementsPolicy`): a map from processes to rights, and
quarantine at once for whoever makes a call outside them, as
`docs/OmniumX_OmniumOS.md:338-339` has it.  The code does not go that far for a
process without an entry; `UnknownRefused` is that case, and the property excepts
it.

**`Console`.**  `kprint` by several CPUs, character by character, exceptions at
any step and `panic`.  `device` is what the characters go to: the serial port and
the screen with its cursor.  Its `place` is a history that the code does not
have: where each character belongs on an endless sheet as wide as the screen.
`ScreenIsWindow` compares the screen with that sheet.  The report of an exception
is one piece, under one hold of the lock; in the code it is seven calls of `kprint`
(`arch.c:102-110`), between which other CPUs print.

**`FlangParser`, `FlangText`.**  The lexer and the parser, from the lexemes of a
source to the tuples the compiler works on: an operator for each method, over a
record with the tokens, the position, `_var_types` and whether an exception was
raised.  A lexeme is a class and a value; only cutting characters into lexemes
is abstracted.  `FlangText` goes the other way and shares nothing with it: it
writes a tree as a person would, with the usual precedences and no parenthesis
that is not needed.

**`FlangCompiler`, `FlangInterpreter`.**  The compiler is a function from the
parser's tuples to instructions: the record `u` has the compiler's attributes, an
operator stands for each method.  `FlangInterpreter` is `ir.py`; TLC compares what
a program prints that was written as text, parsed, compiled and run with what the
interpreter says of the tree it was written from.  Numbers are integers, a float
is counted in halves.

**`OmniumCore`, `MultiCore`, `LoneCore`, `OmniumCPU`.**  `OmniumCore` is
`Core.step` as operators: each takes what an instruction works on, the record of
the core, the memory and what the core has printed, and returns it as the
instruction leaves it.  `MultiCore` is the state machine of `run()`: one turn, one
instruction of the first core in the queue, and the two ways to be stopped.
`LoneCore` is what a program may count on, a core with the words it names to
itself; `RunsAsAlone` relates the two for each core.  `OmniumCPU` is `main.py`: a
job is built from its sources before the run begins (`Build`: parse, compile,
assemble).  None of the first three knows of the compiler, and none is recursive.

**`*Proofs`.**  The theorems of section 6, a module for each component; `BootProofs`
has those about the three parts that `KernelMain` composes, `KernelProofs` those about
`FlexIPC` and about `Kernel`.

Operators whose name begins with `Mutant` are deliberately wrong variants of
the definition that follows them: each property was seen to fail with one.

## 3. Runs and bounds

| run | shows | bounds and why they suffice |
|---|---|---|
| `ProcessCore` | one owner per process, sound lists, order of the classes, the background turn neither too late nor too often, foreground and semi-background served | 3 processes (one foreground, one of each background kind) so that queues hold two, a pick passes over somebody and a class change meets a full queue; quanta 1–2 ms with ticks of 1–2 ms so that budgets expire early and exactly; `BG_TURN_EVERY` 3, counter of width 4 and pool of width 3 so that both wrap |
| `ProcessCore_starved` | *violation*: deep background can wait for ever | the code's own quanta and `BG_TURN_EVERY` 8 |
| `MemoryCore` | no overlap, blocks in their zone, fresh memory, tiling, no deadlock, refusals only when full | 64 addresses, pages of 4, range 27–63 so that it begins unaligned and ends at the top; 2 CPUs, one to read without a lock while the other allocates or grows (three are beyond what TLC finishes); sizes 3, 9 and 63: rounded, growing, wrapping |
| `KernelMain` | zones fill the RAM and nothing else, `memory_test` passes; own stacks and indices, the count of CPUs; nobody works before the boot CPU is done, everybody does in the end; the table of rights is the policy, also when it is full, processes without an entry excepted | every RAM from 8 MB to 4 GB by 7 MB + 1 KB and at the limits, with two kernel sizes, in KB; every machine of up to 5 tried ids with any boot CPU and holes, 4 stacks; 2 entries for 3 processes and pid 0, 2 system calls, lists of 1–3; a loader that is refused; 2 ticks.  These vary one at a time: the parts share only their order, which every machine goes through |
| `KernelMain_torn` | *violation*: an uptime report is put off for ever, nearly | one machine, halves of 3 bits instead of 32, a tick a second and a minute of 4, so that the low half wraps after 8 of 10 ticks |
| `FlexIPC` | lock, bounded queue (refinement), every call returns | 3 CPUs so that two wait for one; 3 slots so that the ring fills and wraps; 2 messages |
| `Kernel` | exactly once, order, delivery, with the lock and the indices of the ring | 2 CPUs, 4 messages of which two name the same plant and one names none, a ring of 3 slots, which holds 2 messages, so that a send is refused and the indices wrap |
| `SmpBoot_late` | *violation*: a late CPU runs on another's stack | ids 0–4 and 6, every machine of them, id 2 may answer late |
| `Console` | whole strings, the screen, everything printed | 2 CPUs, 2 lines of 2 pieces of 2 characters, screen of 3 × 3, so that it wraps and scrolls in the middle of a string; both may crash |
| `Console_panic` | *violation*: a crash inside `kprint` is never reported | as above, one line, one CPU crashes |
| `Emulator` | programs, from their text to the last instruction, print what they mean; stacks balanced; registers returned; every running core is in the queue once; a core that nobody else writes to runs as it would alone; every run ends | 532 jobs: all expressions of up to three operands over positive, negative and zero values; 98 loops with `stop`, `continue` and `elif` under every pair of conditions; calls inside calls and expressions; floats; every form of declaration, function, sign and power; sources the parser or the compiler refuses; several cores; raw assembly with errors.  5 + 3 registers, so that spilling and running out happen; the clock is read every 7 steps |
| `Emulator_types` | *violation*: an assignment forgets the declared type of a variable | one program of four statements |

`CHECK_DEADLOCK FALSE` stands where the program is over when its work is done:
the start of the CPUs and the bounded clock of `KernelMain` and `SmpBoot`,
`Console`, and the emulator's `run()`.

Some properties need their limits said:

* `BackgroundTurn` is `<= BG_TURN_EVERY` and not `<`: in the round in which the
  unsigned counter wraps there is one pick more.
* `TurnsApart` is about the background taking the CPU from another process; the
  running one may be picked again.
* `ImplementsPolicy` passes over the calls of processes that have no entry in the
  table, pid 0 among them: they are refused and, against the document, nobody is
  quarantined (section 5).
* `ZonesTile` and `BlocksInZone` see the boundary of FastApp and Service before or
  after its move: the two writes (`memory_core.c:130-131`) are one step.  They are
  made under the locks of both zones, and the one read without a lock is of FastApp's
  fields only.
* `RefusedOnlyWhenFull` speaks of calls that nobody overlaps; see section 5.
* `StringsWhole` is about one call of `kprint`, not about a line, and passes over
  the words of a panic, which are printed without the lock.
* `ScreenIsWindow` says nothing once a CPU has panicked beside running ones: both
  then move one cursor without a lock.
* `RunsAsAlone` speaks of a core under the condition `Apart`, that no *other*
  program stores to a word this one names.  It is the exact condition: two programs
  that call functions share `RETVAL` and are not apart (section 5).  What the others
  read is not limited.
* `OwnStack` holds in the run `KernelMain` because there every CPU answers in time.
* `RunsAsWritten` takes programs without functions and floats from the
  repository's interpreter (`ir.py`), the others from the meaning of their
  expressions, written in `MC_Emulator`.  A program is written with
  parentheses around `//`, whose place the parser leaves open (section 5).

## 4. Fairness

* `ProcessCore`: weak fairness of `Tick` — the timer keeps interrupting.
  Nothing is assumed of the processes: they may never yield or wake.
* `FlexIPC`, `Console`: weak fairness of each CPU's steps.  The lock is handed
  to any waiting CPU, so a CPU may wait while others take it for ever;
  therefore `CallsReturn` asks for return only if new calls stop coming, and in
  `Console` the number of lines is finite.
* `Kernel`: the CPUs execute, the timer ticks, IPIs are delivered.  Nothing is said
  of who gets `queue_lock`: a CPU that waits for ever waits for others that take
  messages, and `Delivered` holds all the same.
* `KernelMain`: the boot CPU and each started CPU execute, and the timer ticks.
  Processes may never call the security core.  `Late` names the CPUs that may
  need longer than the timeout of 50 000 000 loop turns; it is empty where
  `KernelStarts` is claimed.
* `MultiCore`: the program that runs the loop continues, and time passes.

## 5. What was found

Five disagreements are runs that end in a violation:

1. **Deep background starves** (`process_core.c:71`).  A background turn always
   takes from `semi_bg` while that queue has somebody, so beside one busy
   semi-background process a deep one never runs; the comment at
   `process_core.c:64-65` says that the background does not starve.
2. **A late CPU gets another's stack** (`smp.c:61`).  After a timeout the next
   CPU gets the same index and stack; when the first one does start, it shares
   the stack with it or takes its mailbox.  `smp.c:41` says that every CPU has a
   stack of its own.
3. **A fault inside `kprint` hangs silently** (`arch.c:102`).  `isr_dispatch`
   reports with `kprint`, which spins on the lock its own CPU holds; `panic`,
   which prints without the lock for exactly that reason
   (`kernel_utils.c:104`), is not reached.
4. **A torn clock silences the uptime** (`central_core.c:158`).  `timer_ticks` is
   read as two halves with interrupts on, the low one first as gcc compiles it;
   if the low half wraps in between, `secs` is ahead by 2^32 ticks and the next
   report is due in 497 days.  `central_core.c:159` says once a minute.
5. **A variable forgets its type** (`parser.py:158`).  After `float x = 1.5;
   x = 2;` the type of `x` is that of the last value, and `x = 2.5;` is refused as
   float to int, although the 2 itself was turned into a float
   (`parser.py:91`, `125`).

Noticed while modelling, consistent with the models, and not made into runs:

* A process whose `wants_cpu` is false is pushed and picked again like any
  other (`process_core.c:116`), although `README.md:61` lets it give the CPU up.
* A yielding process donates the budget it had at the last tick, not what is
  left now (`process_core.c:110`): time that was used since then goes to the pool too and
  is given out again, where `docs/OmniumX_OmniumOS.md:226` speaks of unused time.
  The pool can therefore hand out up to a budget more than was left, and no property
  here bounds the sum of the time given.
* A waiting process keeps its old queue when its priority changes
  (`process_core.c:51`); `StrictPriority` therefore speaks of queues.
* With two CPUs, memory gained by growing FastApp may be taken by another CPU
  before the retry (`memory_core.c:155`, `198`): the call is refused although
  Service could have given more.
* A range without a single page gives Service an end below its start
  (`memory_core.c:93`).
* A system call of an unknown process is refused without quarantine
  (`security_core.c:77`), although the document sends every call outside the
  whitelist to Plant 4 at once (`docs/OmniumX_OmniumOS.md:338-339`).
* A line of text, number and text is three `kprint` calls, between which other
  CPUs print (`central_core.c:45`).
* Flang: a float returned by a function and used in an expression passes
  through an integer register and loses its fraction (`compiler.py:234-236`,
  `core.py:98`); `RETVAL` and the variables of functions are shared by all cores
  (`compiler.py:235`); a global used in a function that is compiled before the
  global is assigned is taken for an integer; a function that ends without
  `return` gives the `RETVAL` of an earlier call; a variable named like a
  register is read as the register (`core.py:149`).
* Flang's front end: `//` has no precedence of its own and binds weakest of all,
  so `7 // 2 - 1` is 7; `a--1` is read as `a`, `--`, `1` and refused; `+=`, `++` and `--` skip the
  check of int against float, and `for` drops the type of its variable
  (`parser.py:228`); a short function inside another keeps its bare name
  (`parser.py:280`); `ufloat`, `big_float` and the like are not taken for floats
  and `uint x;` stores 0.0; the types of variables know no scopes; the lexer has
  no `&`, `|` and `^`, which the compiler has; words like `timer` and `list` are
  types and cannot be names.

## 6. Proofs

Checked by TLAPS, for every value of the constants that satisfies the module's
`ASSUME`; the assumptions are named in the modules and are those of the code
(quanta and `BG_TURN_EVERY` positive, the counter wider than `BG_TURN_EVERY`,
NULL is not a process; a ring of at least two slots).

**`ProcessCoreProofs`** — the scheduler.  First the linked lists, for any classes
and processes.  `LastOfList`: the loop of `push` stops at the last process of the
list.  A least index outside a closed set is impossible (`AllReached`), so the
walk comes to every process of the sequence; this needs the well-foundedness of
the natural numbers, from the library, and no recursion.  `PushAppends` and
`PopTakesFirst`: the links after `push` and `pop` are those of the sequence
after an append or a tail, and of the other lists unchanged, provided no process
is in two places.

The inductive invariant `IInv` says that the queues, as sequences and as links,
hold exactly the admitted processes that are not on the CPU, each once.
`OneOwner` and `ListsMatch` are not inductive alone: `push` keeps the lists apart
only because the process it gets is in none of them, which is what `OneOwner`
says of the running process, and `OneOwner` survives a pop only because the link
it follows is the sequence's.  From `IInv`: `TypeCorrect`, `OwnedOnce`,
`LinksRight`, `PriorityKept` (an action property, from a lemma on one pick),
`BackgroundInTurn`, which needs in addition that while somebody waits the number of
picks that passed over him is at most the counter plus one (`Counted`: the plus one
is the round in which the counter wraps), and `TurnsKeptApart`, which needs the
converse: the counter is never ahead of the picks since the background last ran
(`Spaced`), since whatever sets it back sets it to zero.

**`ZonesProofs`** — the address arithmetic as it is, modulo `W`, which the proofs
about the memory core share: what multiples are, that aligning down stays in the
word, that aligning up does not wrap *below an aligned limit*, and that checked
sums and differences are the plain ones.  From it, what one call does to a zone
(`ServedUp`, `ServedDown`), that `memory_init_range` tiles the range
(`LayoutTiles`), that growth keeps it tiled (`Moved`), and that a growth rounded
up to pages is the least one that serves a request (`LeastGrowth`).  The
assumptions are that the page is a multiple of the pointer alignment and divides
both the word and `ZONE_KERNEL_MAX`, and that rounding the range inwards neither
wraps nor turns it around.

**`MemoryCoreProofs`** — the allocator.  The invariant `MemInv` adds to the types,
the tiling and `NoOverlap` that a CPU in a critical section holds the lock of its
zone and the free pointer it read is still true (`Locks`), and that blocks lie on
the used side of the free pointer (`BlocksUsed`) — the pointer alone separates a
new block from the old ones of its zone, the tiling from those of others.  What
was read *without* a lock is only bounded by its type and its alignment: whatever
was read, growing by it is safe.  From `MemInv`: `TypeCorrect`, `BlocksApart`,
`BlocksStayInZone`, `ZonesAlwaysTile` and, as an action property,
`AlwaysFreshMemory`.  Two more properties need more:

* `LocksLetSomeoneGoOn`: `Holders` says where the holder of each lock is, so that
  of the CPUs that spin one waits for a holder that does not: whoever waits for
  `zones_lock` waits for a CPU in the growth, that one at most for the lock of a
  zone, and the holder of that is in a section that takes no other.
* `RefusesOnlyWhenFull`, an action property: for a call that ran alone the
  unlocked reads were exact (`Exact`), so what it asks to grow by is the missing
  room rounded up to pages, and after the growth the second try succeeds unless no
  growth could serve it.

**`KernelProofs`** — first the queue.  `TypeCorrect`: the indices never leave the
ring.  `LockHeld`: mutual exclusion, inductive as it stands with the types.
`Implements`: the ring is the queue.  The abstract queue is the sequence of slots
from `tail` to `head`, modulo the size; the invariant (`Holding`) says what the
holder of the lock has already written or read.  `CallSend` and `CallReceive` map
to `Begin`, publishing the index or being refused to `Send`, advancing or finding
nothing to `Receive`; taking the lock and touching a slot are stutters, because
no slot outside `tail`…`head` is part of the queue.  `RingIsQueue` has the
arithmetic: an append at `head`, a tail at `tail`.

Then the main loops on it.  A step of `Kernel` is a step of `FlexIPC` or none
(`NextCalls`), so the kernel has the queue's invariant and
`KernelImplementsQueue`: the interrupts, the halts and the plants do not disturb
the ring.  `QueueChange` says what each step does to the queue: publishing appends
one message, advancing takes the first, nothing else changes it.  On this rests
the invariant `KInv`: a call belongs to its CPU's place in the loop (`InLoop`); the
message on its way into the ring was sent and is nowhere else (`OnTheWay`); the
ring holds the rest of the accepted messages after those taken (`QueueIsRest`),
no message is accepted twice, each hand holds one that was taken and not given, no
two hands the same, and what was taken is given or in a hand (`History`).  A
message counts as taken when `tail` moves, steps before the call returns to the
loop: until then it is the lock that says whose it is, which is why the invariant
needs `Holding`.  From it `GivenOnce` and `TakenInOrder`.

**`BootProofs`** — the three parts that `kernel_main` starts, each by itself.

* The memory core at boot.  `LaidOutInv`: from the layout on the zones tile the
  whole pages between the image and the end of RAM, whatever `memory_test` asks
  for.  `TestInv` follows the test under `CodeConstants`, the numbers of the code
  (pages of 4 KB, 32-bit addresses, zone limits), an image below 48 MB and 64 MB
  of RAM or more: the kernel zone is large enough for the first request, the eight
  small blocks lie below FastApp's first limit, the large one fits the grown zone
  exactly up to Service, and what Service keeps serves the last request.
* The start of the CPUs, under the hypothesis `Late = {}`, stated in each theorem:
  at most one CPU is between the start request and its answer, the mailbox is its
  own until it has read both words, and the counter is the number of CPUs that
  answered (`BootInv`).  From it `StacksApart` and
  `EveryAnswerCredited`.  Without the hypothesis the first is false, as
  `SmpBoot_late` shows.
* The security core.  `SecurityInvariance`: one entry per process, and unused
  entries are blank, which is why claiming one needs no reset.  With these the
  table read as a map is a state of `SecurityPolicy`, and `TableImplementsPolicy`
  maps every call to a step of it, a stutter or the excepted `UnknownRefused`; a call
  that finds no entry and no room leaves the map as it is.

**`KernelMainProofs`** — the composition: every step of `KernelMain` is a step or
a stutter of `MemoryBoot`, of `SmpBoot` and of `SecurityCore`, so what
`BootProofs` shows of each holds inside `kernel_main`: `ZonesAlwaysFillRam`,
`SelfTestPasses` (under `CodeConstants`), `KernelStartsCpus`
(under `Late = {}`) and `KernelImplementsPolicy`.  The last assumes
`CallsAreModelled`: the process 42 and the system calls of the self test are
among those the model speaks of.  `OthersWait` is about the whole and needs an
invariant of its own (`OrderInv`): what the boot CPU has done at each place of
`kernel_main`, the table of rights included as far as the self test needs it, and
that no CPU is in its loop before `system_initialized`.  It needs no assumption on
late CPUs.

**`ConsoleProofs`** — the output, for any CPUs, any of which may crash, and any
size of strings and screen.  `LockInv`: only the holder of `print_lock` is inside
a string, also after it crashed there.  `StringsInv`: the last character that is
not of a panic is the one the CPU inside a string printed last, or ends a string
if there is none; so the next one follows it (`WholeAfter`), and
`StringsStayWhole`.  `Shown`: the places of the characters increase in reading
order, so no two share a place of the sheet, a character that is added changes
the sheet at one place only (`SheetAfter`), and writing, wrapping and scrolling
(`ScreenAfter`, `NewRowShows`) move the window with it: `ScreenShowsOutput`.

**`MultiCoreProofs`** — the emulated processor, for any number of cores and any
programs of the instruction set.  Two lemmas about `CoreStep`, each a case for every
kind of instruction:

* `StepSame`: on two states that agree on the core, on what it printed and on the
  words the program names, an instruction does the same and they agree again.  It
  reads nothing else.
* `StepKeeps`: an instruction changes no word of the memory but those its program
  may store to (`Stores`), and adds none.

The invariant `IInv` is the shape of the state (a core and an output for each
program, a word for each name) and `InTurn`, which is inductive with it:
`EachInTurn`, the queue holds exactly the cores that run, each once.  `RunsAlone` is
`RunsAsAlone` for every core: its own turn is a step of `LoneCore` by `StepSame`,
since the memory restricted to the words it names agrees with the whole one; the
turn of another core leaves those words alone by `StepKeeps` and the condition
`Apart`, and leaves this core alone because `InTurn` makes the queue one of cores; the
end by timeout or step limit is `LoneCore`'s `Stopped`.  The assumption on the
constants is that the programs are sequences of instructions over the operands they
name; the registers, the clock and the bit operations are arbitrary.

Only model-checked:

* everything under fairness (`ForegroundServed`, `SemiBackgroundServed`,
  `CallsReturn`, `Delivered`, `KernelStarts`, `EverythingPrinted`, `RunEnds`):
  liveness is beyond the prover;
* of `NoDeadlock` the half that a CPU that does not spin is enabled: `ENABLED` is
  beyond it too; the other half is `LocksLetSomeoneGoOn`;
* `RunsAsWritten`, `Balanced` and `RegistersReturned`: the front end and the
  compiler are built from recursive operators over sources, which the prover does not
  take, and what they make of every source is an induction over data.  What is
  proved of the processor holds of every program, whoever wrote it.

## 7. What is not modelled

* Architecture and boot code, port and register writes: hardware set-up.  The
  interrupt dispatcher is part of `Kernel` and `Console`.
* String, memory and number-formatting functions, and in the lexer the cutting
  of characters into lexemes: sequential leaf code that tests reach.
* AI, Metrics and Optimize Core, which print a line; `syscalls.py`,
  `semantic.py`, `codegen.py`, `interpreter.py`, which nothing runs.
* `create_process`, `yield_current`, `security_report_event`: declared without
  a body.
* `memory_free` does nothing, so it is no action.
* The payload of a message: nothing in the repository sends one, so nothing says
  how long it lives.
* Two programs on two cores that both call functions: they do overwrite each
  other's `RETVAL` and variables (section 5), and no document says which result
  is right.
* Flang: negative operands of `& | ^` and powers that are not whole and
  non-negative, which the instances do not use; numbers are unbounded, as in
  Python.
* Words of memory whose key is a number, which only raw assembly can name: 2 and 2.0
  are two keys in the model and one in Python.

## 8. Plan

Done, in this order: `ProcessCore` first, as the kernel's centre and its most
intricate state; then `Zones`/`MemoryCore`, `FlexIPC`, `Kernel`, `SmpBoot`,
`SecurityCore`, `Console`, and the emulator; the proofs of the scheduler; then
`kernel_main` as the composition of the boot, the Flang front end in front of
the compiler, and the proofs of the other kernel components, of the boot of the
memory and of the output; then the main loops on the ring itself, and the
processor as a machine of its own, each with its proofs.

Left:

* several CPUs' schedulers side by side, when the code starts to move processes
  between them;
* the allocator as the refinement of one that keeps a set of blocks: its content is
  in `NoOverlap`, `ReturnsFreshMemory` and `RefusedOnlyWhenFull` already;
* what the compiler makes of each construct, which needs an induction over sources.

## 9. Reading and running

    tlc -config MC_ProcessCore.cfg MC_ProcessCore.tla      # any run of the table
    tlapm ProcessCoreProofs.tla                            # any *Proofs module

`MC_*.tla` only give constants their values; where a `.cfg` alone can do that
(`FlexIPC`, `SmpBoot`) there is none.  No `.cfg` replaces a
definition.  Read `ProcessCore` first, then `FlexIPC` with `MessageQueue`,
then `Kernel`, then `KernelMain` with what it composes; of the emulator,
`OmniumCore` and `MultiCore`.
