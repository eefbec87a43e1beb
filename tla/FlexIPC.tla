------------------------------ MODULE FlexIPC --------------------------------
(***************************************************************************)
(* The message queue shared by all CPUs (ipc/flexipc.c): a ring of QUEUE   *)
(* slots of which one stays empty, guarded by queue_lock.  Any CPU may     *)
(* send and receive.  Inside the critical section the slot and the index   *)
(* are accessed by separate steps; the last of them releases the lock.     *)
(***************************************************************************)
EXTENDS Integers, Sequences

CONSTANTS
  Cpus,
  Messages,
  FLEXIPC_QUEUE_SIZE,
  None,             \* no CPU, no message
  Busy              \* the result of a call that has not returned

ASSUME FlexIPCAssumption ==
  /\ FLEXIPC_QUEUE_SIZE \in Nat /\ FLEXIPC_QUEUE_SIZE > 1
  /\ None \notin Cpus \union Messages
  /\ Busy \notin Messages \union {None, TRUE, FALSE}
  /\ Messages \intersect {TRUE, FALSE} = {}

Slots == 0 .. FLEXIPC_QUEUE_SIZE - 1

VARIABLES
  ring,           \* queue[]
  head, tail,     \* the next slot to write, the next to read
  queue_lock,     \* the CPU that holds it
  pc,
  msg,            \* the message a CPU is sending, or has copied out
  result          \* what the last call of each CPU returned

vars == <<ring, head, tail, queue_lock, pc, msg, result>>

Init ==
  /\ ring = [i \in Slots |-> None]
  /\ head = 0 /\ tail = 0
  /\ queue_lock = None
  /\ pc = [c \in Cpus |-> "idle"]
  /\ msg = [c \in Cpus |-> None]
  /\ result = [c \in Cpus |-> None]

At(c, label) == pc[c] = label
Goto(c, label) == pc' = [pc EXCEPT ![c] = label]

(* Mutant: the index does not wrap. *)
MutantAfter(i) == i + 1

After(i) == (i + 1) % FLEXIPC_QUEUE_SIZE

(* A call begins; it returns with r and releases the lock. *)
Begin(c, label) ==
  /\ At(c, "idle")
  /\ Goto(c, label)
  /\ result' = [result EXCEPT ![c] = Busy]
  /\ UNCHANGED <<ring, head, tail, queue_lock>>

Return(c, r) ==
  /\ queue_lock' = None
  /\ Goto(c, "idle")
  /\ msg' = [msg EXCEPT ![c] = None]
  /\ result' = [result EXCEPT ![c] = r]

(* Mutant: the lock is taken from its holder. *)
MutantAcquire(c, from, to) ==
  /\ At(c, from)
  /\ queue_lock' = c
  /\ Goto(c, to)
  /\ UNCHANGED <<ring, head, tail, msg, result>>

Acquire(c, from, to) ==
  /\ At(c, from)
  /\ queue_lock = None
  /\ queue_lock' = c
  /\ Goto(c, to)
  /\ UNCHANGED <<ring, head, tail, msg, result>>

-----------------------------------------------------------------------------
(* flexipc_send *)
CallSend(c, m) ==
  /\ Begin(c, "send")
  /\ msg' = [msg EXCEPT ![c] = m]

AcquireSend(c) == Acquire(c, "send", "write")

(* Mutant: a ring that is full at its end is not noticed. *)
MutantFull == head + 1 = tail

Full == After(head) = tail

(* Mutant: a full queue is tried again until there is room. *)
MutantSendRefused(c) ==
  /\ At(c, "write")
  /\ Full
  /\ queue_lock' = None
  /\ Goto(c, "send")
  /\ UNCHANGED <<ring, head, tail, msg, result>>

SendRefused(c) ==
  /\ At(c, "write")
  /\ Full
  /\ Return(c, FALSE)
  /\ UNCHANGED <<ring, head, tail>>

WriteSlot(c) ==
  /\ At(c, "write")
  /\ ~Full
  /\ ring' = [ring EXCEPT ![head] = msg[c]]
  /\ Goto(c, "publish")
  /\ UNCHANGED <<head, tail, queue_lock, msg, result>>

Publish(c) ==
  /\ At(c, "publish")
  /\ head' = After(head)
  /\ Return(c, TRUE)
  /\ UNCHANGED <<ring, tail>>

-----------------------------------------------------------------------------
(* flexipc_receive *)
CallReceive(c) == Begin(c, "receive") /\ UNCHANGED msg

AcquireReceive(c) == Acquire(c, "receive", "read")

ReceiveEmpty(c) ==
  /\ At(c, "read")
  /\ tail = head
  /\ Return(c, None)
  /\ UNCHANGED <<ring, head, tail>>

ReadSlot(c) ==
  /\ At(c, "read")
  /\ tail # head
  /\ msg' = [msg EXCEPT ![c] = ring[tail]]
  /\ Goto(c, "advance")
  /\ UNCHANGED <<ring, head, tail, queue_lock, result>>

Advance(c) ==
  /\ At(c, "advance")
  /\ tail' = After(tail)
  /\ Return(c, msg[c])
  /\ UNCHANGED <<ring, head>>

-----------------------------------------------------------------------------
Step(c) ==
  \/ AcquireSend(c) \/ SendRefused(c) \/ WriteSlot(c) \/ Publish(c)
  \/ AcquireReceive(c) \/ ReceiveEmpty(c) \/ ReadSlot(c) \/ Advance(c)

Calls == \E c \in Cpus : CallReceive(c) \/ \E m \in Messages : CallSend(c, m)

Next == Calls \/ \E c \in Cpus : Step(c)

Spec == Init /\ [][Next]_vars

FairSpec == Spec /\ \A c \in Cpus : WF_vars(Step(c))

-----------------------------------------------------------------------------
(* Properties *)

Labels == {"idle", "send", "write", "publish", "receive", "read", "advance"}
Critical == {"write", "publish", "read", "advance"}

(* The type of the state. *)
TypeOK ==
  /\ ring \in [Slots -> Messages \union {None}]
  /\ head \in Slots /\ tail \in Slots
  /\ queue_lock \in Cpus \union {None}
  /\ pc \in [Cpus -> Labels]
  /\ msg \in [Cpus -> Messages \union {None}]
  /\ result \in [Cpus -> Messages \union {None, Busy, TRUE, FALSE}]

(* At most one CPU is inside the critical section, and it is the holder of *)
(* queue_lock (ipc/flexipc.c:10-11).                                       *)
LockHolder ==
  \A c \in Cpus : pc[c] \in Critical <=> queue_lock = c

(* The number of messages in the ring, the messages in order, and what     *)
(* each CPU is sending.                                                    *)
Count == (head - tail) % FLEXIPC_QUEUE_SIZE
Contents == [i \in 1 .. Count |-> ring[(tail + i - 1) % FLEXIPC_QUEUE_SIZE]]
Sending == [c \in Cpus |->
              IF pc[c] \in {"send", "write", "publish"} THEN msg[c] ELSE None]

(* With its lock and its two indices the ring is the bounded queue of      *)
(* MessageQueue, one slot short of its size: however the CPUs interleave   *)
(* no message is lost, taken twice, overwritten or reordered, and a send   *)
(* fails only on a full queue (ipc/flexipc.c:10-11, include/flexipc.h:11). *)
Abstract == INSTANCE MessageQueue WITH
              queue <- Contents,
              arg <- Sending,
              Capacity <- FLEXIPC_QUEUE_SIZE - 1
ImplementsQueue == Abstract!Spec

(* If new calls stop coming, every call under way returns. *)
CallsReturn == <>[][~Calls]_vars => <>[](\A c \in Cpus : At(c, "idle"))
=============================================================================
