----------------------------- MODULE ProcessCore -----------------------------
(***************************************************************************)
(* The scheduler of one CPU (kernel/process_core.c): four run queues, the  *)
(* process on the CPU, its time budget, the pool of spare time and the     *)
(* counter that gives background work every BG_TURN_EVERY-th pick.         *)
(*                                                                         *)
(* Every variable of the C code is indexed by the CPU and scheduler_tick   *)
(* touches the entry of its own CPU only, so one CPU is the whole          *)
(* component.  The run queues are kept twice: `lists` are the linked lists *)
(* of the code (module RunQueue) and `queue` is the sequence each of them  *)
(* stands for, which the guards read; ListsMatch is the property that the  *)
(* two agree.                                                              *)
(*                                                                         *)
(* Time.  A tick leaves last_active_ns = now in the process it puts or     *)
(* keeps on the CPU, so `elapsed` at the next tick is the time between two *)
(* ticks, an input of the model; unsigned subtraction makes this true      *)
(* across a wrap of the clock too.                                         *)
(***************************************************************************)
EXTENDS RunQueue

CONSTANTS
  BgType,         \* bg_type of each process; the kernel never assigns it
  Q_FOREGROUND, Q_RECENT, Q_BG_BATCH, Q_BG_MIN,   \* the quanta, in ms
  BG_TURN_EVERY,
  Elapsed,        \* the times that can pass between two ticks, in ms
  Word,           \* 2^64 in the code: spare_pool is a uint64_t
  Unsigned,       \* 2^32 in the code: picks_since_bg is an unsigned
  NewPrios        \* the priorities set_process_priority is called with

FOREGROUND == 1
RECENT     == 2
BACKGROUND == 3
Prios == {FOREGROUND, RECENT, BACKGROUND}

Classes == {"foreground", "recent", "semi_bg", "deep_bg"}
Background == {"semi_bg", "deep_bg"}

ASSUME ProcessCoreAssumption ==
  /\ None \notin Procs /\ IsFiniteSet(Procs)
  /\ BgType \in [Procs -> Background]
  /\ {Q_FOREGROUND, Q_RECENT, Q_BG_BATCH, Q_BG_MIN} \subseteq Nat \ {0}
  /\ BG_TURN_EVERY \in Nat \ {0}
  /\ Elapsed \subseteq Nat
  /\ Word \in Nat \ {0}
  /\ Unsigned \in Nat /\ Unsigned > BG_TURN_EVERY
  /\ NewPrios \subseteq Prios

VARIABLES
  lists,        \* runqueues[cpu] and the field `next` of proc_t
  queue,        \* class -> the sequence of processes in its list
  current,      \* current_on_cpu[cpu]
  prio, wants_cpu, budget,   \* fields of proc_t
  spare_pool,
  picks_since_bg,
  admitted,     \* the processes that have been handed to the scheduler
  waited,       \* history: picks in a row that passed over a waiting
                \* background process
  gap           \* history: picks since the background last ran, counted up
                \* to BG_TURN_EVERY; the code's own counter wraps and is
                \* cleared, this one is not

vars == <<lists, queue, current, prio, wants_cpu, budget, spare_pool,
          picks_since_bg, admitted, waited, gap>>

-----------------------------------------------------------------------------
(* process_core_init; the processes are the caller's own structures, their *)
(* links have any value (here the same in all).                            *)
Init ==
  /\ \E stale \in Procs \union {None} :
       lists = [head |-> [c \in Classes |-> None], next |-> [p \in Procs |-> stale]]
  /\ queue = [c \in Classes |-> <<>>]
  /\ current = None
  /\ prio \in [Procs -> Prios]
  /\ wants_cpu = [p \in Procs |-> TRUE]
  /\ budget = [p \in Procs |-> 0]
  /\ spare_pool = 0
  /\ picks_since_bg = 0
  /\ admitted = {}
  /\ waited = 0
  /\ gap = 0

(* The queue a process belongs in, by its priority. *)
ClassOf(p) ==
  CASE prio[p] = FOREGROUND -> "foreground"
    [] prio[p] = RECENT     -> "recent"
    [] OTHER                -> BgType[p]

(* push: to the end of the queue of its class, in queues q and in lists l *)
Pushed(q, p) == [q EXCEPT ![ClassOf(p)] = Append(@, p)]
Linked(l, p) == push(l, ClassOf(p), p)

-----------------------------------------------------------------------------
(* pick_next, on queues q. *)

(* Mutant: deep background before semi-background. *)
MutantRank(c) ==
  CASE c = "foreground" -> 1
    [] c = "recent"     -> 2
    [] c = "deep_bg"    -> 3
    [] OTHER            -> 4

Rank(c) ==
  CASE c = "foreground" -> 1
    [] c = "recent"     -> 2
    [] c = "semi_bg"    -> 3
    [] OTHER            -> 4

BgWaiting(q) == \E c \in Background : q[c] # <<>>

NextPicks == (picks_since_bg + 1) % Unsigned

(* Mutants: only the semi-background counts as waiting; a turn too early. *)
MutantBgTurn(q) == NextPicks >= BG_TURN_EVERY /\ q["semi_bg"] # <<>>
MutantBgTurnEarly(q) == NextPicks >= BG_TURN_EVERY - 1 /\ BgWaiting(q)

BgTurn(q) == NextPicks >= BG_TURN_EVERY /\ BgWaiting(q)

Candidates(q) ==
  {c \in IF BgTurn(q) THEN Background ELSE Classes : q[c] # <<>>}

(* The queue to pop: the candidate of the highest class. *)
Picks(q, c) ==
  /\ c \in Candidates(q)
  /\ \A d \in Candidates(q) : Rank(c) <= Rank(d)

(* Mutant: nothing clears the counter, which stays where it allows a turn  *)
(* at every pick.                                                          *)
MutantPicksAfter(c) ==
  IF NextPicks >= BG_TURN_EVERY THEN picks_since_bg ELSE NextPicks

(* The counter after a pick from class c: reaching the background, by a    *)
(* turn or because nothing else is ready, clears it.                       *)
PicksAfter(c) == IF c \in Background THEN 0 ELSE NextPicks

GapAfter(c) ==
  IF c \in Background THEN 0
  ELSE IF gap < BG_TURN_EVERY THEN gap + 1 ELSE gap

-----------------------------------------------------------------------------
(* bg_budget: what the pool of s ms pays, and what the process receives. *)
Give(s) == IF s > Q_BG_BATCH THEN Q_BG_BATCH ELSE s
BgBudget(s) == IF Give(s) < Q_BG_MIN THEN Q_BG_MIN ELSE Give(s)

Quantum(p, s) ==
  CASE prio[p] = FOREGROUND -> Q_FOREGROUND
    [] prio[p] = RECENT     -> Q_RECENT
    [] OTHER                -> BgBudget(s)

(* Mutant: the pool pays the minimum it does not have. *)
MutantSpareAfter(p, s) == IF prio[p] = BACKGROUND THEN s - BgBudget(s) ELSE s

SpareAfter(p, s) == IF prio[p] = BACKGROUND THEN s - Give(s) ELSE s

(* Mutant: the picked process stays in its queue (the old bug of           *)
(* process_core.c:62).                                                     *)
MutantDispatchFrom(c, q, l, b, s) ==
  LET p == Head(q[c]) IN
  /\ Picks(q, c)
  /\ queue' = q
  /\ lists' = l
  /\ current' = p
  /\ budget' = [b EXCEPT ![p] = Quantum(p, s)]
  /\ spare_pool' = SpareAfter(p, s)
  /\ picks_since_bg' = PicksAfter(c)
  /\ waited' = IF c \in Background \/ ~BgWaiting(q) THEN 0 ELSE waited + 1
  /\ gap' = GapAfter(c)

(* The second half of a tick: pop the next process out of queues q, which  *)
(* are the lists l, with budgets b and a pool of s ms, and put it on the   *)
(* CPU.                                                                    *)
DispatchFrom(c, q, l, b, s) ==
  LET p == Head(q[c]) IN
  /\ Picks(q, c)
  /\ queue' = [q EXCEPT ![c] = Tail(@)]
  /\ lists' = pop(l, c)
  /\ current' = p
  /\ budget' = [b EXCEPT ![p] = Quantum(p, s)]
  /\ spare_pool' = SpareAfter(p, s)
  /\ picks_since_bg' = PicksAfter(c)
  /\ waited' = IF c \in Background \/ ~BgWaiting(q) THEN 0 ELSE waited + 1
  /\ gap' = GapAfter(c)

DispatchNothing(q, l, b, s) ==
  /\ Candidates(q) = {}
  /\ queue' = q
  /\ lists' = l
  /\ current' = None
  /\ budget' = b
  /\ spare_pool' = s
  /\ picks_since_bg' = 0
  /\ waited' = 0
  /\ UNCHANGED gap

Dispatch(q, l, b, s) ==
  \/ \E c \in Classes : DispatchFrom(c, q, l, b, s)
  \/ DispatchNothing(q, l, b, s)

-----------------------------------------------------------------------------
(* scheduler_tick: the CPU was idle. *)
TickIdle ==
  /\ current = None
  /\ Dispatch(queue, lists, budget, spare_pool)
  /\ UNCHANGED <<prio, wants_cpu, admitted>>

(* A process that gives the CPU up leaves in the pool the budget it had at *)
(* the last tick: what it has used since then is donated with the rest     *)
(* (process_core.c:110).                                                   *)
Donation ==
  IF wants_cpu[current] THEN 0 ELSE budget[current]

(* scheduler_tick: the budget is used up or the process gives the CPU up. *)
TickSwitch(elapsed) ==
  /\ current # None
  /\ elapsed >= budget[current] \/ ~wants_cpu[current]
  /\ Dispatch(Pushed(queue, current), Linked(lists, current),
              [budget EXCEPT ![current] = 0],
              (spare_pool + Donation) % Word)
  /\ UNCHANGED <<prio, wants_cpu, admitted>>

(* scheduler_tick: the process keeps the CPU. *)
TickRun(elapsed) ==
  /\ current # None
  /\ elapsed < budget[current]
  /\ wants_cpu[current]
  /\ budget' = [budget EXCEPT ![current] = @ - elapsed]
  /\ UNCHANGED <<lists, queue, current, prio, wants_cpu, spare_pool,
                 picks_since_bg, admitted, waited, gap>>

Tick == TickIdle \/ \E e \in Elapsed : TickSwitch(e) \/ TickRun(e)

-----------------------------------------------------------------------------
(* The owner of a new process links it into its run queue. *)
Admit(p) ==
  /\ p \notin admitted
  /\ admitted' = admitted \union {p}
  /\ queue' = Pushed(queue, p)
  /\ lists' = Linked(lists, p)
  /\ UNCHANGED <<current, prio, wants_cpu, budget, spare_pool,
                 picks_since_bg, waited, gap>>

(* set_process_priority: the queues are not touched.  budget_cap_ns, which *)
(* it also sets, is a function of the priority and nothing reads it.       *)
SetPriority(p, newp) ==
  /\ prio[p] # newp
  /\ prio' = [prio EXCEPT ![p] = newp]
  /\ UNCHANGED <<lists, queue, current, wants_cpu, budget, spare_pool,
                 picks_since_bg, admitted, waited, gap>>

(* The running process gives up the CPU; a process wants the CPU again. *)
Yield(p) ==
  /\ p = current /\ wants_cpu[p]
  /\ wants_cpu' = [wants_cpu EXCEPT ![p] = FALSE]
  /\ UNCHANGED <<lists, queue, current, prio, budget, spare_pool,
                 picks_since_bg, admitted, waited, gap>>

Wake(p) ==
  /\ ~wants_cpu[p]
  /\ wants_cpu' = [wants_cpu EXCEPT ![p] = TRUE]
  /\ UNCHANGED <<lists, queue, current, prio, budget, spare_pool,
                 picks_since_bg, admitted, waited, gap>>

Next ==
  \/ Tick
  \/ \E p \in Procs :
       \/ Admit(p)
       \/ \E newp \in NewPrios : SetPriority(p, newp)
       \/ Yield(p)
       \/ Wake(p)

Spec == Init /\ [][Next]_vars

(* The timer interrupt keeps coming; nothing else is promised. *)
FairSpec == Spec /\ WF_vars(Tick)

-----------------------------------------------------------------------------
(* Properties *)

(* The type of the state. *)
TypeOK ==
  /\ lists \in Lists(Classes)
  /\ queue \in [Classes -> Seq(Procs)]
  /\ current \in Procs \union {None}
  /\ prio \in [Procs -> Prios]
  /\ wants_cpu \in [Procs -> BOOLEAN]
  /\ budget \in [Procs -> Nat]
  /\ spare_pool \in Nat
  /\ picks_since_bg \in 0 .. Unsigned - 1
  /\ admitted \subseteq Procs
  /\ waited \in Nat
  /\ gap \in 0 .. BG_TURN_EVERY

Queued(p) == \E c \in Classes : \E i \in 1 .. Len(queue[c]) : queue[c][i] = p

(* Two places of the run queues never hold the same process. *)
NoDuplicate ==
  \A c, d \in Classes :
    \A i \in 1 .. Len(queue[c]), j \in 1 .. Len(queue[d]) :
      queue[c][i] = queue[d][j] => c = d /\ i = j

(* The process on the CPU is in no queue. *)
RunningNotQueued == current # None => ~Queued(current)

(* No process is lost, and none appears that was never admitted. *)
NoneLost == \A p \in Procs : p \in admitted <=> Queued(p) \/ current = p

(* Whatever the order of ticks, yields and priority changes, a process     *)
(* handed to the scheduler is in exactly one place: on the CPU or once in  *)
(* one run queue.  push and pop rely on it: a process queued twice closes  *)
(* the list into a ring (process_core.c:32, 62), a dropped one never runs. *)
OneOwner == NoDuplicate /\ RunningNotQueued /\ NoneLost

(* The linked lists are the queues: no list is a ring, on which push would *)
(* walk for ever (process_core.c:32, tests/host/test_scheduler.c:33), no   *)
(* two lists run together, and the links lose, duplicate or reorder        *)
(* nothing, whatever the links of a new process were.                      *)
ListsMatch == \A c \in Classes : IsList(lists, c, queue[c])

(* While a background process waits, at most BG_TURN_EVERY picks in a row  *)
(* pass it over, whatever the other processes do (process_core.c:64).      *)
(* It is BG_TURN_EVERY - 1 except in the one round in which the counter    *)
(* wraps around.                                                           *)
BackgroundTurn == waited <= BG_TURN_EVERY

(* If the step takes the CPU for a process waiting in a background queue   *)
(* while a higher class is left waiting, the turn was due.                 *)
TurnDue ==
  \A c \in Background, d \in Classes \ Background :
    /\ queue[c] # <<>> /\ current' = Head(queue[c]) /\ current' # current
    /\ queue'[d] # <<>>
    => gap + 1 >= BG_TURN_EVERY

(* The background does not crowd out the others: between two of its turns  *)
(* that pass over a foreground or recent process, and before the first,    *)
(* there are BG_TURN_EVERY - 1 picks for others, however the counter was   *)
(* cleared or wrapped in between and whoever yielded, was admitted or      *)
(* changed class (process_core.c:64-75, docs/OmniumX_OmniumOS.md:228-229). *)
TurnsApart == [][TurnDue]_vars

(* The step puts on the CPU the first process of a queue that no queue     *)
(* left waiting outranks, or it is a background turn and no background     *)
(* queue outranks it.                                                      *)
PickInOrder ==
  \A p \in Procs :
    current' = p /\ current # p =>
      \E c \in Classes :
        /\ queue[c] # <<>> /\ Head(queue[c]) = p
        /\ \A d \in Classes :
             \/ queue'[d] = <<>>
             \/ Rank(c) <= Rank(d)
             \/ /\ c \in Background /\ d \notin Background
                /\ picks_since_bg + 1 >= BG_TURN_EVERY

(* Every process that gets the CPU gets it in the order of the classes     *)
(* (README.md:59, docs/OmniumX_OmniumOS.md:225).  The queues are those the *)
(* processes were put in: a later change of priority does not move them.   *)
StrictPriority == [][PickInOrder]_vars

(* A process waiting in the queue of class c gets the CPU in the end. *)
Waits(p, c) == \E i \in 1 .. Len(queue[c]) : queue[c][i] = p
Served(c) == \A p \in Procs : Waits(p, c) ~> current = p

(* The active application always gets the CPU back. *)
ForegroundServed == Served("foreground")

(* Background turns reach every semi-background process, however busy the  *)
(* foreground is and whether or not anybody yields.                        *)
SemiBackgroundServed == Served("semi_bg")

(* The whole background is never starved (process_core.c:64-65).           *)
BackgroundServed == Served("semi_bg") /\ Served("deep_bg")
=============================================================================
