----------------------------- MODULE KernelProofs -----------------------------
(* Proofs about FlexIPC, and about the main loops of Kernel on top of it,   *)
(* for every number of CPUs, messages, destinations and slots.              *)
EXTENDS Kernel, SequenceTheorems, FiniteSetTheorems, TLAPS

-----------------------------------------------------------------------------
(* FlexIPC: its invariant.                                                 *)

(* An index stays inside the ring. *)
LEMMA AfterInSlots ==
  ASSUME NEW i \in Slots PROVE After(i) \in Slots
BY FlexIPCAssumption DEF After, Slots

(* Every state has its type: the indices stay inside the ring and only     *)
(* messages are in its slots (ipc/flexipc.c:5-8).                          *)
THEOREM TypeCorrect == Spec => []TypeOK
<1>1. Init => TypeOK
  BY FlexIPCAssumption DEF Init, TypeOK, Slots, Labels
<1>2. TypeOK /\ [Next]_vars => TypeOK'
  <2> SUFFICES ASSUME TypeOK, [Next]_vars PROVE TypeOK'
    OBVIOUS
  <2> USE DEF TypeOK, Labels, At, Goto
  <2>1. CASE UNCHANGED vars
    BY <2>1 DEF vars
  <2>2. ASSUME NEW c \in Cpus, CallReceive(c) PROVE TypeOK'
    BY <2>2 DEF CallReceive, Begin
  <2>3. ASSUME NEW c \in Cpus, NEW m \in Messages, CallSend(c, m) PROVE TypeOK'
    BY <2>3 DEF CallSend, Begin
  <2>4. ASSUME NEW c \in Cpus, AcquireSend(c) \/ AcquireReceive(c) PROVE TypeOK'
    BY <2>4 DEF AcquireSend, AcquireReceive, Acquire
  <2>5. ASSUME NEW c \in Cpus, SendRefused(c) \/ ReceiveEmpty(c) PROVE TypeOK'
    BY <2>5 DEF SendRefused, ReceiveEmpty, Return
  <2>6. ASSUME NEW c \in Cpus, WriteSlot(c) PROVE TypeOK'
    BY <2>6 DEF WriteSlot
  <2>7. ASSUME NEW c \in Cpus, Publish(c) PROVE TypeOK'
    BY <2>7, AfterInSlots DEF Publish, Return
  <2>8. ASSUME NEW c \in Cpus, ReadSlot(c) PROVE TypeOK'
    BY <2>8 DEF ReadSlot
  <2>9. ASSUME NEW c \in Cpus, Advance(c) PROVE TypeOK'
    BY <2>9, AfterInSlots DEF Advance, Return
  <2> QED
    BY <2>1, <2>2, <2>3, <2>4, <2>5, <2>6, <2>7, <2>8, <2>9 DEF Next, Calls, Step
<1> QED
  BY <1>1, <1>2, PTL DEF Spec

(* The critical section of queue_lock is exclusive: the CPU inside it is   *)
(* the one holder of the lock, so the slot and the index it belongs to     *)
(* change together (ipc/flexipc.c:10-11).                                  *)
THEOREM LockHeld == Spec => []LockHolder
<1>1. Init => LockHolder
  BY FlexIPCAssumption DEF Init, LockHolder, Critical
<1>2. TypeOK /\ LockHolder /\ [Next]_vars => LockHolder'
  <2> SUFFICES ASSUME TypeOK, LockHolder, [Next]_vars PROVE LockHolder'
    OBVIOUS
  <2> USE FlexIPCAssumption DEF TypeOK, LockHolder, Critical, At, Goto
  <2>1. CASE UNCHANGED vars
    BY <2>1 DEF vars
  <2>2. ASSUME NEW c \in Cpus, CallReceive(c) PROVE LockHolder'
    BY <2>2 DEF CallReceive, Begin
  <2>3. ASSUME NEW c \in Cpus, NEW m \in Messages, CallSend(c, m) PROVE LockHolder'
    BY <2>3 DEF CallSend, Begin
  <2>4. ASSUME NEW c \in Cpus, AcquireSend(c) \/ AcquireReceive(c) PROVE LockHolder'
    BY <2>4 DEF AcquireSend, AcquireReceive, Acquire
  <2>5. ASSUME NEW c \in Cpus, WriteSlot(c) \/ ReadSlot(c) PROVE LockHolder'
    BY <2>5 DEF WriteSlot, ReadSlot
  <2>6. ASSUME NEW c \in Cpus,
               SendRefused(c) \/ ReceiveEmpty(c) \/ Publish(c) \/ Advance(c)
        PROVE LockHolder'
    BY <2>6 DEF SendRefused, ReceiveEmpty, Publish, Advance, Return
  <2> QED
    BY <2>1, <2>2, <2>3, <2>4, <2>5, <2>6 DEF Next, Calls, Step
<1> QED
  BY <1>1, <1>2, TypeCorrect, PTL DEF Spec

-----------------------------------------------------------------------------
(* The refinement of MessageQueue.                                         *)

(* What the CPUs hold between their steps: a message to send, a message    *)
(* copied out of the slot at tail, a message written to the slot at head;  *)
(* and a call is under way exactly while its result is Busy.               *)
Holding ==
  \A c \in Cpus :
    /\ pc[c] \in {"send", "write", "publish"} => msg[c] \in Messages
    /\ pc[c] = "publish" => ring[head] = msg[c] /\ ~Full
    /\ pc[c] = "advance" => ring[tail] = msg[c] /\ tail # head
    /\ pc[c] = "idle" <=> result[c] # Busy

IInv == TypeOK /\ LockHolder /\ Holding

(* The remainder of a number that is off by at most one turn of the ring.  *)
LEMMA Remainder ==
  ASSUME NEW x \in - FLEXIPC_QUEUE_SIZE .. 2 * FLEXIPC_QUEUE_SIZE - 1
  PROVE  x % FLEXIPC_QUEUE_SIZE =
           IF x < 0 THEN x + FLEXIPC_QUEUE_SIZE
           ELSE IF x < FLEXIPC_QUEUE_SIZE THEN x ELSE x - FLEXIPC_QUEUE_SIZE
BY FlexIPCAssumption

(* No step of any CPU disturbs what another holds: the lock keeps ring,     *)
(* head and tail still while one is between two accesses to them.          *)
LEMMA HoldingStep == IInv /\ [Next]_vars => Holding'
<1> SUFFICES ASSUME IInv, [Next]_vars PROVE Holding'
  OBVIOUS
<1> USE FlexIPCAssumption DEF IInv, TypeOK, LockHolder, Holding, Labels, Critical, At, Goto
<1>1. CASE UNCHANGED vars
  BY <1>1 DEF vars, Full
<1>2. ASSUME NEW c \in Cpus, CallReceive(c) PROVE Holding'
  BY <1>2 DEF CallReceive, Begin, Full
<1>3. ASSUME NEW c \in Cpus, NEW m \in Messages, CallSend(c, m) PROVE Holding'
  BY <1>3 DEF CallSend, Begin, Full
<1>4. ASSUME NEW c \in Cpus, AcquireSend(c) \/ AcquireReceive(c) PROVE Holding'
  BY <1>4 DEF AcquireSend, AcquireReceive, Acquire, Full
<1>5. ASSUME NEW c \in Cpus, SendRefused(c) \/ ReceiveEmpty(c) PROVE Holding'
  <2>1. CASE SendRefused(c)
    <3>1. UNCHANGED <<ring, head, tail>> /\ At(c, "write") /\ Return(c, FALSE)
      BY <2>1 DEF SendRefused
    <3>2. Full' <=> Full
      BY <3>1 DEF Full
    <3> QED
      BY <3>1, <3>2 DEF Return
  <2>2. CASE ReceiveEmpty(c)
    <3>1. UNCHANGED <<ring, head, tail>> /\ At(c, "read") /\ Return(c, None)
      BY <2>2 DEF ReceiveEmpty
    <3>2. Full' <=> Full
      BY <3>1 DEF Full
    <3> QED
      BY <3>1, <3>2 DEF Return
  <2> QED
    BY <1>5, <2>1, <2>2
<1>6. ASSUME NEW c \in Cpus, WriteSlot(c) PROVE Holding'
  BY <1>6 DEF WriteSlot, Full
<1>7. ASSUME NEW c \in Cpus, Publish(c) PROVE Holding'
  BY <1>7 DEF Publish, Return
<1>8. ASSUME NEW c \in Cpus, ReadSlot(c) PROVE Holding'
  BY <1>8 DEF ReadSlot, Full
<1>9. ASSUME NEW c \in Cpus, Advance(c) PROVE Holding'
  BY <1>9 DEF Advance, Return
<1> QED
  BY <1>1, <1>2, <1>3, <1>4, <1>5, <1>6, <1>7, <1>8, <1>9 DEF Next, Calls, Step

(* What the holder of the lock has copied from a slot or written into one  *)
(* is still there when it takes its next step (ipc/flexipc.c:18-33).       *)
LEMMA Invariance == Spec => []IInv
<1>1. Init => Holding
  BY FlexIPCAssumption DEF Init, Holding
<1> QED
  BY <1>1, HoldingStep, TypeCorrect, LockHeld, PTL DEF Spec, IInv

(* Where a number that is off by at most one turn of the ring falls.       *)
Wrap(x) == IF x < FLEXIPC_QUEUE_SIZE THEN x ELSE x - FLEXIPC_QUEUE_SIZE

(* The ring between tail and head as a sequence.                           *)
RingFacts ==
  /\ Count = IF tail <= head THEN head - tail ELSE head - tail + FLEXIPC_QUEUE_SIZE
  /\ Count \in 0 .. FLEXIPC_QUEUE_SIZE - 1
  /\ Contents \in Seq(Messages \union {None})
  /\ Len(Contents) = Count
  /\ \A i \in 1 .. Count : Contents[i] = ring[Wrap(tail + i - 1)]
  /\ Full <=> Count = FLEXIPC_QUEUE_SIZE - 1

(* The next index is one more, or 0 at the end of the ring.                *)
LEMMA AfterIs ==
  ASSUME NEW i \in Slots
  PROVE  After(i) = Wrap(i + 1)
<1>1. i + 1 \in 0 .. 2 * FLEXIPC_QUEUE_SIZE - 1
  BY FlexIPCAssumption DEF Slots
<1> QED
  BY <1>1, Remainder, FlexIPCAssumption DEF After, Slots, Wrap

(* The two indices always mark out such a sequence; a full ring has one    *)
(* slot to spare.                                                          *)
LEMMA RingIsQueue == TypeOK => RingFacts
<1> SUFFICES ASSUME TypeOK PROVE RingFacts
  OBVIOUS
<1>a. head \in Slots /\ tail \in Slots
  BY DEF TypeOK
<1>1. head - tail \in - FLEXIPC_QUEUE_SIZE .. 2 * FLEXIPC_QUEUE_SIZE - 1
  BY <1>a, FlexIPCAssumption DEF Slots
<1>2. Count = IF tail <= head THEN head - tail ELSE head - tail + FLEXIPC_QUEUE_SIZE
  <2>1. Count = IF head - tail < 0 THEN head - tail + FLEXIPC_QUEUE_SIZE
                ELSE IF head - tail < FLEXIPC_QUEUE_SIZE THEN head - tail
                ELSE head - tail - FLEXIPC_QUEUE_SIZE
    BY <1>1, Remainder DEF Count
  <2> QED
    BY <2>1, <1>a, FlexIPCAssumption DEF Slots
<1>3. Count \in 0 .. FLEXIPC_QUEUE_SIZE - 1
  BY <1>2, <1>a, FlexIPCAssumption DEF Slots
<1>4. ASSUME NEW i \in 1 .. Count
      PROVE  /\ (tail + i - 1) % FLEXIPC_QUEUE_SIZE = Wrap(tail + i - 1)
             /\ Wrap(tail + i - 1) \in Slots
  <2> DEFINE x == tail + i - 1
  <2>1. x \in 0 .. 2 * FLEXIPC_QUEUE_SIZE - 1
    BY <1>3, <1>a, FlexIPCAssumption DEF Slots
  <2> HIDE DEF x
  <2>2. x % FLEXIPC_QUEUE_SIZE = Wrap(x) /\ Wrap(x) \in Slots
    BY <2>1, Remainder, FlexIPCAssumption DEF Slots, Wrap
  <2> QED
    BY <2>2 DEF x
<1>5. Contents \in Seq(Messages \union {None}) /\ Len(Contents) = Count
  BY <1>3, <1>4 DEF TypeOK, Contents
<1>6. \A i \in 1 .. Count : Contents[i] = ring[Wrap(tail + i - 1)]
  BY <1>4 DEF Contents
<1>7. Full <=> Count = FLEXIPC_QUEUE_SIZE - 1
  <2>1. Full <=> Wrap(head + 1) = tail
    BY <1>a, AfterIs DEF Full
  <2> QED
    BY <2>1, <1>2, <1>a, FlexIPCAssumption DEF Slots, Wrap
<1> QED
  BY <1>2, <1>3, <1>5, <1>6, <1>7 DEF RingFacts

(* The same of the state after a step.                                     *)
LEMMA RingIsQueueNext == TypeOK' => RingFacts'
BY RingIsQueue, PTL

(* head moves on: the queue ends with the message that was in its slot.    *)
LEMMA Appended ==
  ASSUME TypeOK, TypeOK', ~Full, ring' = ring, tail' = tail, head' = After(head)
  PROVE  Contents' = Append(Contents, ring[head])
<1> DEFINE S == Messages \union {None}
           q == Contents
           r == Append(Contents, ring[head])
<1>a. head \in Slots /\ tail \in Slots /\ ring[head] \in S
  BY DEF TypeOK
<1>b. RingFacts /\ RingFacts'
  BY RingIsQueue, RingIsQueueNext
<1>c. head' = Wrap(head + 1)
  BY <1>a, AfterIs
<1>1. Count' = Count + 1 /\ Count \in Nat /\ head = Wrap(tail + Count)
  BY <1>a, <1>b, <1>c, FlexIPCAssumption DEF RingFacts, Slots, Wrap
<1>2. q \in Seq(S) /\ Len(q) = Count /\ Contents' \in Seq(S) /\ Len(Contents') = Count + 1
  BY <1>1, <1>b DEF RingFacts
<1>3. /\ r \in Seq(S) /\ Len(r) = Count + 1 /\ r[Count + 1] = ring[head]
      /\ \A i \in 1 .. Count : r[i] = q[i]
  <2> HIDE DEF S, q
  <2> QED
    BY <1>a, <1>2, AppendProperties DEF q
<1>4. ASSUME NEW i \in 1 .. Count + 1
      PROVE  Contents'[i] = r[i]
  <2>1. Contents'[i] = ring[Wrap(tail + i - 1)]
    <3>1. i \in 1 .. Count'
      BY <1>1
    <3> QED
      BY <3>1, <1>b DEF RingFacts, Wrap
  <2>2. CASE i = Count + 1
    <3>1. tail + i - 1 = tail + Count
      BY <2>2, <1>a, <1>1 DEF Slots
    <3> QED
      BY <2>1, <2>2, <3>1, <1>1, <1>3
  <2>3. CASE i # Count + 1
    <3>1. i \in 1 .. Count
      BY <2>3, <1>1
    <3> QED
      BY <2>1, <3>1, <1>3, <1>b DEF RingFacts
  <2> QED
    BY <2>2, <2>3
<1> QED
  <2> HIDE DEF S, r
  <2>1. Contents' = r
    BY <1>2, <1>3, <1>4, SeqEqual
  <2> QED
    BY <2>1 DEF r

(* tail moves on: the queue loses its first message, the one in its slot.  *)
LEMMA Removed ==
  ASSUME TypeOK, TypeOK', tail # head, ring' = ring, head' = head, tail' = After(tail)
  PROVE  Contents # <<>> /\ Contents' = Tail(Contents) /\ Head(Contents) = ring[tail]
<1> DEFINE S == Messages \union {None}
           q == Contents
           r == Tail(Contents)
<1>a. head \in Slots /\ tail \in Slots
  BY DEF TypeOK
<1>b. RingFacts /\ RingFacts'
  BY RingIsQueue, RingIsQueueNext
<1>c. tail' = Wrap(tail + 1)
  BY <1>a, AfterIs
<1>1. Count' = Count - 1 /\ Count \in Nat /\ Count > 0 /\ Count < FLEXIPC_QUEUE_SIZE
  BY <1>a, <1>b, <1>c, FlexIPCAssumption DEF RingFacts, Slots, Wrap
<1>2. q \in Seq(S) /\ Len(q) = Count /\ Contents' \in Seq(S) /\ Len(Contents') = Count - 1
  BY <1>1, <1>b DEF RingFacts
<1>3. q # <<>> /\ Head(q) = q[1]
  BY <1>1, <1>2
<1>4. q[1] = ring[tail]
  <2>1. 1 \in 1 .. Count /\ Wrap(tail + 1 - 1) = tail
    BY <1>1, <1>a, FlexIPCAssumption DEF Slots, Wrap
  <2> QED
    BY <2>1, <1>b DEF RingFacts
<1>5. /\ r \in Seq(S) /\ Len(r) = Count - 1
      /\ \A i \in 1 .. Count - 1 : r[i] = q[i + 1]
  <2> HIDE DEF S, q
  <2> QED
    BY <1>2, <1>3, HeadTailProperties DEF q
<1>6. ASSUME NEW i \in 1 .. Count - 1
      PROVE  Contents'[i] = r[i]
  <2>1. Contents'[i] = ring[Wrap(tail' + i - 1)]
    <3>1. i \in 1 .. Count'
      BY <1>1
    <3> QED
      BY <3>1, <1>b DEF RingFacts, Wrap
  <2>2. q[i + 1] = ring[Wrap(tail + (i + 1) - 1)]
    <3>1. i + 1 \in 1 .. Count
      BY <1>1
    <3> QED
      BY <3>1, <1>b DEF RingFacts
  <2>3. Wrap(tail' + i - 1) = Wrap(tail + (i + 1) - 1)
    BY <1>a, <1>c, <1>1, FlexIPCAssumption DEF Slots, Wrap
  <2> QED
    BY <2>1, <2>2, <2>3, <1>5
<1> QED
  <2> HIDE DEF S, r
  <2>1. Contents' = r
    BY <1>2, <1>5, <1>6, <1>1, SeqEqual
  <2> QED
    BY <2>1, <1>3, <1>4 DEF r

(* Writing the free slot at head does not touch the queue.                 *)
LEMMA Unpublished ==
  ASSUME TypeOK, TypeOK', ~Full, head' = head, tail' = tail,
         \A i \in Slots \ {head} : ring'[i] = ring[i]
  PROVE  Contents' = Contents
<1> DEFINE S == Messages \union {None}
<1>a. head \in Slots /\ tail \in Slots
  BY DEF TypeOK
<1>b. RingFacts /\ RingFacts'
  BY RingIsQueue, RingIsQueueNext
<1>1. Count' = Count /\ Count \in Nat
  BY <1>b DEF RingFacts
<1>2. ASSUME NEW i \in 1 .. Count PROVE Contents'[i] = Contents[i]
  <2>1. Wrap(tail + i - 1) \in Slots \ {head}
    BY <1>a, <1>b, FlexIPCAssumption DEF RingFacts, Slots, Wrap
  <2>2. Contents[i] = ring[Wrap(tail + i - 1)]
    BY <1>b DEF RingFacts
  <2>3. Contents'[i] = ring'[Wrap(tail + i - 1)]
    <3>1. i \in 1 .. Count'
      BY <1>1
    <3> QED
      BY <3>1, <1>b DEF RingFacts, Wrap
  <2> QED
    BY <2>1, <2>2, <2>3
<1>3. Contents \in Seq(S) /\ Len(Contents) = Count /\ Contents' \in Seq(S) /\ Len(Contents') = Count
  BY <1>1, <1>b DEF RingFacts
<1> QED
  <2> HIDE DEF S
  <2> QED
    BY <1>2, <1>3, SeqEqual

(* The queue changes only with the ring and its indices.                   *)
LEMMA Same == ASSUME UNCHANGED <<ring, head, tail>> PROVE Contents' = Contents
BY DEF Contents, Count

(* What a step inside a call does to the queue: Publish appends to it,      *)
(* Advance takes its first message, the others leave it alone.             *)
LEMMA QueueChange ==
  ASSUME IInv, TypeOK', NEW c \in Cpus
  PROVE  /\ Publish(c) => Contents' = Append(Contents, msg[c])
         /\ Advance(c) => /\ Contents # <<>> /\ Head(Contents) = msg[c]
                          /\ Contents' = Tail(Contents)
         /\ Step(c) /\ ~Publish(c) /\ ~Advance(c) => Contents' = Contents
<1> USE DEF IInv, At
<1>1. ASSUME Publish(c) PROVE Contents' = Append(Contents, msg[c])
  <2>1. msg[c] = ring[head] /\ ~Full
    BY <1>1 DEF Publish, Holding
  <2> QED
    BY <1>1, <2>1, Appended DEF Publish
<1>2. ASSUME Advance(c)
      PROVE  Contents # <<>> /\ Head(Contents) = msg[c] /\ Contents' = Tail(Contents)
  <2>1. msg[c] = ring[tail] /\ tail # head
    BY <1>2 DEF Advance, Holding
  <2> QED
    BY <1>2, <2>1, Removed DEF Advance
<1>3. ASSUME WriteSlot(c) PROVE Contents' = Contents
  <2>1. \A i \in Slots \ {head} : ring'[i] = ring[i]
    BY <1>3 DEF WriteSlot, TypeOK
  <2> QED
    BY <1>3, <2>1, Unpublished DEF WriteSlot
<1>4. ASSUME \/ AcquireSend(c) \/ AcquireReceive(c) \/ ReadSlot(c)
             \/ SendRefused(c) \/ ReceiveEmpty(c)
      PROVE  Contents' = Contents
  BY <1>4, Same DEF AcquireSend, AcquireReceive, Acquire, ReadSlot, SendRefused, ReceiveEmpty
<1> QED
  BY <1>1, <1>2, <1>3, <1>4 DEF Step

(* Each step of FlexIPC is a step of the queue or changes nothing of it.   *)
LEMMA StepRefines ==
  IInv /\ TypeOK' /\ [Next]_vars => [Abstract!Next]_(Abstract!vars)
<1> SUFFICES ASSUME IInv, TypeOK', [Next]_vars PROVE [Abstract!Next]_(Abstract!vars)
  OBVIOUS
<1> USE DEF IInv, At, Goto
<1>1. CASE UNCHANGED vars
  BY <1>1, Same DEF vars, Abstract!vars, Sending
<1>2. ASSUME NEW c \in Cpus, CallReceive(c) PROVE Abstract!Next
  <2>1. Abstract!Begin(c, None)
    <3>1. UNCHANGED Contents
      BY <1>2, Same DEF CallReceive, Begin
    <3>2. Sending' = [Sending EXCEPT ![c] = None]
      BY <1>2 DEF CallReceive, Begin, Sending, TypeOK
    <3> QED
      BY <1>2, <3>1, <3>2 DEF CallReceive, Begin, Holding, Abstract!Begin
  <2> QED
    BY <2>1 DEF Abstract!Next
<1>3. ASSUME NEW c \in Cpus, NEW m \in Messages, CallSend(c, m) PROVE Abstract!Next
  <2>1. Abstract!Begin(c, m)
    <3>1. UNCHANGED Contents
      BY <1>3, Same DEF CallSend, Begin
    <3>2. Sending' = [Sending EXCEPT ![c] = m]
      BY <1>3 DEF CallSend, Begin, Sending, TypeOK
    <3> QED
      BY <1>3, <3>1, <3>2 DEF CallSend, Begin, Holding, Abstract!Begin
  <2> QED
    BY <2>1 DEF Abstract!Next
<1>4. ASSUME NEW c \in Cpus, AcquireSend(c) \/ AcquireReceive(c) PROVE UNCHANGED Abstract!vars
  <2>1. UNCHANGED <<Contents, result>>
    BY <1>4, Same DEF AcquireSend, AcquireReceive, Acquire
  <2>2. UNCHANGED Sending
    BY <1>4 DEF AcquireSend, AcquireReceive, Acquire, Sending, TypeOK
  <2> QED
    BY <2>1, <2>2 DEF Abstract!vars
<1>a. ASSUME NEW c \in Cpus, NEW r, Return(c, r), pc[c] # "idle"
      PROVE  /\ Sending' = [Sending EXCEPT ![c] = None]
             /\ Abstract!Return(c, r)
  <2>1. Sending' = [Sending EXCEPT ![c] = None]
    BY <1>a DEF Return, Sending, TypeOK
  <2>2. result[c] = Busy
    BY <1>a DEF Holding
  <2> QED
    BY <1>a, <2>1, <2>2 DEF Return, Abstract!Return
<1>b. RingFacts
  BY RingIsQueue
<1>5. ASSUME NEW c \in Cpus, SendRefused(c) PROVE Abstract!Next
  <2>1. Abstract!Return(c, FALSE) /\ UNCHANGED Contents
    BY <1>5, <1>a, Same DEF SendRefused
  <2>2. Sending[c] # None
    BY <1>5, FlexIPCAssumption DEF SendRefused, Holding, Sending
  <2>3. ~ Len(Contents) < FLEXIPC_QUEUE_SIZE - 1
    BY <1>5, <1>b, FlexIPCAssumption DEF SendRefused, RingFacts
  <2> QED
    BY <2>1, <2>2, <2>3 DEF Abstract!Send, Abstract!Next
<1>6. ASSUME NEW c \in Cpus, WriteSlot(c) PROVE UNCHANGED Abstract!vars
  <2>1. UNCHANGED Contents
    BY <1>6, QueueChange DEF Step, WriteSlot, Publish, Advance
  <2>2. UNCHANGED Sending
    BY <1>6 DEF WriteSlot, Sending, TypeOK
  <2> QED
    BY <1>6, <2>1, <2>2 DEF WriteSlot, Abstract!vars
<1>7. ASSUME NEW c \in Cpus, Publish(c) PROVE Abstract!Next
  <2>1. Abstract!Return(c, TRUE)
    BY <1>7, <1>a DEF Publish
  <2>2. Sending[c] = msg[c] /\ Sending[c] # None /\ ~Full
    BY <1>7, FlexIPCAssumption DEF Publish, Holding, Sending
  <2>3. Contents' = Append(Contents, Sending[c])
    BY <1>7, <2>2, QueueChange
  <2>4. Len(Contents) < FLEXIPC_QUEUE_SIZE - 1
    BY <2>2, <1>b, FlexIPCAssumption DEF RingFacts
  <2> QED
    BY <2>1, <2>2, <2>3, <2>4 DEF Abstract!Send, Abstract!Next
<1>8. ASSUME NEW c \in Cpus, ReceiveEmpty(c) PROVE Abstract!Next
  <2>1. Abstract!Return(c, None) /\ UNCHANGED Contents
    BY <1>8, <1>a, Same DEF ReceiveEmpty
  <2>2. Sending[c] = None
    BY <1>8 DEF ReceiveEmpty, Sending
  <2>3. Contents = <<>>
    <3>1. Len(Contents) = 0
      BY <1>8, <1>b, FlexIPCAssumption DEF ReceiveEmpty, RingFacts, TypeOK, Slots
    <3> QED
      BY <3>1, <1>b, EmptySeq DEF RingFacts
  <2> QED
    BY <2>1, <2>2, <2>3 DEF Abstract!Receive, Abstract!Next
<1>9. ASSUME NEW c \in Cpus, ReadSlot(c) PROVE UNCHANGED Abstract!vars
  <2>1. UNCHANGED <<Contents, result>>
    BY <1>9, Same DEF ReadSlot
  <2>2. UNCHANGED Sending
    BY <1>9 DEF ReadSlot, Sending, TypeOK
  <2> QED
    BY <2>1, <2>2 DEF Abstract!vars
<1>10. ASSUME NEW c \in Cpus, Advance(c) PROVE Abstract!Next
  <2>1. Abstract!Return(c, msg[c])
    BY <1>10, <1>a DEF Advance
  <2>2. Sending[c] = None
    BY <1>10 DEF Advance, Sending
  <2>3. Contents # <<>> /\ Contents' = Tail(Contents) /\ Head(Contents) = msg[c]
    BY <1>10, QueueChange
  <2> QED
    BY <2>1, <2>2, <2>3 DEF Abstract!Receive, Abstract!Next
<1> QED
  BY <1>1, <1>2, <1>3, <1>4, <1>5, <1>6, <1>7, <1>8, <1>9, <1>10 DEF Next, Calls, Step

(* However the CPUs interleave, flexipc_send and flexipc_receive behave as *)
(* single steps on one bounded first-in-first-out queue.                   *)
THEOREM Implements == Spec => ImplementsQueue
<1>1. Init => Abstract!Init
  <2> SUFFICES ASSUME Init PROVE Abstract!Init
    OBVIOUS
  <2>1. head = tail /\ TypeOK
    BY FlexIPCAssumption DEF Init, TypeOK, Slots, Labels
  <2>2. RingFacts /\ head = tail /\ head \in Slots
    BY <2>1, RingIsQueue DEF TypeOK
  <2>3. Contents = <<>>
    <3>1. Len(Contents) = 0
      BY <2>2, FlexIPCAssumption DEF RingFacts, Slots
    <3> QED
      BY <3>1, <2>2, EmptySeq DEF RingFacts
  <2> QED
    BY <2>3 DEF Init, Abstract!Init, Sending
<1> QED
  BY <1>1, Invariance, StepRefines, PTL DEF Spec, IInv, ImplementsQueue, Abstract!Spec

-----------------------------------------------------------------------------
(* Kernel.  Its loops only call FlexIPC: what holds of the queue by itself  *)
(* holds in the kernel.                                                     *)

LEMMA NextCalls == [KernelNext]_all_vars => [Next]_vars
<1> SUFFICES ASSUME [KernelNext]_all_vars PROVE [Next]_vars
  OBVIOUS
<1>1. CASE UNCHANGED all_vars
  BY <1>1 DEF all_vars
<1>2. CASE Initialize \/ TimerTick
  BY <1>2 DEF Initialize, TimerTick
<1>3. ASSUME NEW c \in Cpus, KernelStep(c) \/ TakeIpi(c) PROVE [Next]_vars
  <2>1. CASE InCall(c)
    BY <2>1 DEF InCall, Next
  <2>2. CASE Receive(c)
    BY <2>2 DEF Receive, Next, Calls
  <2>3. CASE LeaveSpin(c) \/ Command(c) \/ NoMessage(c) \/ Halt(c) \/ TakeIpi(c)
    BY <2>3 DEF LeaveSpin, Command, NoMessage, Halt, TakeIpi
  <2> QED
    BY <1>3, <2>1, <2>2, <2>3 DEF KernelStep
<1>4. ASSUME NEW c \in Cpus, NEW m \in Messages, Send(c, m) PROVE [Next]_vars
  BY <1>4 DEF Send, Next, Calls
<1> QED
  BY <1>1, <1>2, <1>3, <1>4 DEF KernelNext

LEMMA KernelCalls == KernelSpec => Spec
<1>1. KernelInit => Init
  BY DEF KernelInit
<1> QED
  BY <1>1, NextCalls, PTL DEF KernelSpec, Spec

(* The main loops, whatever their CPUs are interrupted in, use the queue as *)
(* one bounded first-in-first-out queue with atomic calls                   *)
(* (kernel/central_core.c:52).                                              *)
THEOREM KernelImplementsQueue == KernelSpec => ImplementsQueue
BY KernelCalls, Implements, PTL

-----------------------------------------------------------------------------
(* The invariant of the loops.                                              *)

(* What each CPU has received and not given yet.                            *)
Hand == [c \in Cpus |->
           IF loop[c] = "receive" /\ result[c] \in Messages THEN result[c] ELSE None]

Places == {"boot", "spin", "plants", "receive", "update", "halted"}

KTypeOK ==
  /\ accepted \in Seq(Messages) /\ sent \subseteq Messages
  /\ loop \in [Cpus -> Places]
  /\ commands \in Seq([plant : Plants, id : Messages])

IsSending(c) == pc[c] \in {"send", "write", "publish"}

(* The call a CPU is in belongs to its place in the loop.                   *)
InLoop ==
  \A c \in Cpus :
    /\ IsSending(c) => loop[c] \in {"boot", "plants", "update"}
    /\ pc[c] \in {"receive", "read", "advance"} => loop[c] = "receive"
    /\ pc[c] = "idle" /\ loop[c] = "receive" => result[c] \in Messages \union {None}

(* A message on its way into the queue is not there, and nobody else sends  *)
(* it.                                                                      *)
OnTheWay ==
  /\ \A c \in Cpus : IsSending(c) =>
       /\ msg[c] \in sent
       /\ \A k \in 1 .. Len(accepted) : accepted[k] # msg[c]
  /\ \A c, d \in Cpus : IsSending(c) /\ IsSending(d) /\ msg[c] = msg[d] => c = d

(* The accepted messages that have left the queue are the first ones.       *)
Taken == Len(accepted) - Len(Contents)

QueueIsRest ==
  /\ Contents \in Seq(Messages)
  /\ Taken \in Nat
  /\ \A k \in 1 .. Len(Contents) : Contents[k] = accepted[Taken + k]

NoneTwice ==
  /\ \A j, k \in 1 .. Len(accepted) : accepted[j] = accepted[k] => j = k
  /\ \A k \in 1 .. Len(accepted) : accepted[k] \in sent

(* No other CPU and no plant has the message a CPU holds.                   *)
InHands ==
  /\ \A c, d \in Cpus : Hand[c] = Hand[d] /\ Hand[c] # None => c = d
  /\ \A c \in Cpus : Hand[c] # None =>
       /\ \E k \in 1 .. Taken : accepted[k] = Hand[c]
       /\ \A k \in 1 .. Len(commands) : commands[k].id # Hand[c]

Given ==
  /\ \A j, k \in 1 .. Len(commands) : commands[j].id = commands[k].id => j = k
  /\ \A k \in 1 .. Len(commands) :
       /\ commands[k].plant = dst[commands[k].id]
       /\ \E j \in 1 .. Taken : accepted[j] = commands[k].id

(* A message that has left the queue went to its plant or is in a hand.     *)
NoneLost ==
  \A k \in 1 .. Taken :
    dst[accepted[k]] \in Plants =>
      \/ \E c \in Cpus : Hand[c] = accepted[k]
      \/ \E j \in 1 .. Len(commands) : commands[j].id = accepted[k]

History == QueueIsRest /\ NoneTwice /\ InHands /\ Given /\ NoneLost

KInv == KTypeOK /\ InLoop /\ OnTheWay /\ History

-----------------------------------------------------------------------------
LEMMA HandType ==
  /\ Hand \in [Cpus -> Messages \union {None}]
  /\ \A c \in Cpus : Hand[c] # None <=> loop[c] = "receive" /\ result[c] \in Messages
  /\ \A c \in Cpus : loop[c] = "receive" /\ result[c] \in Messages => Hand[c] = result[c]
BY FlexIPCAssumption DEF Hand

(* What the invariant says of lengths and of the members of each sequence.  *)
LEMMA Members ==
  ASSUME KInv
  PROVE  /\ Taken \in Nat /\ Len(Contents) \in Nat /\ Len(accepted) = Taken + Len(Contents)
         /\ Len(accepted) \in Nat /\ Len(commands) \in Nat
         /\ \A k \in 1 .. Len(accepted) : accepted[k] \in Messages
         /\ \A k \in 1 .. Len(commands) :
              commands[k].id \in Messages /\ commands[k].plant \in Plants
         /\ \A k \in 1 .. Taken : k \in 1 .. Len(accepted) /\ accepted[k] \in Messages
         /\ None \notin Messages
<1>1. /\ Contents \in Seq(Messages) /\ accepted \in Seq(Messages)
      /\ commands \in Seq([plant : Plants, id : Messages])
  BY DEF KInv, KTypeOK, History, QueueIsRest
<1>2. Len(Contents) \in Nat /\ Len(accepted) \in Nat /\ Len(commands) \in Nat
  BY <1>1
<1>3. Taken \in Nat /\ Len(accepted) = Taken + Len(Contents)
  BY <1>2 DEF KInv, History, QueueIsRest, Taken
<1>4. \A k \in 1 .. Len(accepted) : accepted[k] \in Messages
  BY <1>1
<1>5. ASSUME NEW k \in 1 .. Len(commands)
      PROVE  commands[k].id \in Messages /\ commands[k].plant \in Plants
  <2>1. commands[k] \in [plant : Plants, id : Messages]
    BY <1>1, ElementOfSeq
  <2> QED
    BY <2>1
<1> QED
  BY <1>2, <1>3, <1>4, <1>5, FlexIPCAssumption

LEMMA KernelInitOK == KernelInit => KInv
<1> SUFFICES ASSUME KernelInit PROVE KInv
  OBVIOUS
<1> USE FlexIPCAssumption, KernelAssumption DEF KernelInit, Init
<1>1. Len(accepted) = 0 /\ Len(commands) = 0 /\ accepted = <<>> /\ commands = <<>>
  OBVIOUS
<1>2. Contents = <<>>
  <2>1. Count = 0
    BY Remainder DEF Count
  <2> QED
    BY <2>1 DEF Contents
<1>3. KTypeOK
  BY <1>1 DEF KTypeOK, Places
<1>4. InLoop
  BY DEF InLoop, IsSending
<1>5. OnTheWay
  BY DEF OnTheWay, IsSending
<1>6. \A c \in Cpus : Hand[c] = None
  BY DEF Hand
<1>7. QueueIsRest /\ Taken = 0
  BY <1>1, <1>2 DEF QueueIsRest, Taken
<1>8. NoneTwice /\ InHands /\ Given /\ NoneLost
  BY <1>1, <1>6, <1>7 DEF NoneTwice, InHands, Given, NoneLost
<1> QED
  BY <1>3, <1>4, <1>5, <1>7, <1>8 DEF KInv, History

-----------------------------------------------------------------------------
(* The history of the messages under each kind of step.                     *)

LEMMA AppendIs ==
  ASSUME NEW S, NEW q \in Seq(S), NEW x \in S, NEW r, r = Append(q, x)
  PROVE  /\ r \in Seq(S) /\ Len(r) = Len(q) + 1 /\ r[Len(q) + 1] = x
         /\ \A k \in 1 .. Len(q) : r[k] = q[k]
BY AppendProperties

LEMMA AcceptOK ==
  ASSUME KInv, NEW i \in Messages, i \in sent', sent \subseteq sent',
         \A k \in 1 .. Len(accepted) : accepted[k] # i,
         Contents' = Append(Contents, i), accepted' = Append(accepted, i),
         Hand' = Hand, commands' = commands
  PROVE  History' /\ accepted' \in Seq(Messages)
<1>1. /\ Taken \in Nat /\ Len(Contents) \in Nat /\ Len(accepted) = Taken + Len(Contents)
      /\ Len(accepted) \in Nat
  BY Members
<1>2. KTypeOK /\ QueueIsRest /\ NoneTwice /\ InHands /\ Given /\ NoneLost
  BY DEF KInv, History
<1>3. /\ Contents' \in Seq(Messages) /\ Len(Contents') = Len(Contents) + 1
      /\ Contents'[Len(Contents) + 1] = i
      /\ \A k \in 1 .. Len(Contents) : Contents'[k] = Contents[k]
  <2>1. Contents \in Seq(Messages)
    BY <1>2 DEF QueueIsRest
  <2> QED
    BY <2>1, AppendProperties
<1>4. /\ accepted' \in Seq(Messages) /\ Len(accepted') = Len(accepted) + 1
      /\ accepted'[Len(accepted) + 1] = i
      /\ \A k \in 1 .. Len(accepted) : accepted'[k] = accepted[k]
  BY <1>2, AppendProperties DEF KTypeOK
<1>5. Taken' = Taken
  BY <1>1, <1>3, <1>4 DEF Taken
<1>6. QueueIsRest'
  <2>1. ASSUME NEW k \in 1 .. Len(Contents') PROVE Contents'[k] = accepted'[Taken + k]
    <3>1. CASE k = Len(Contents) + 1
      BY <1>1, <1>3, <1>4, <3>1
    <3>2. CASE k \in 1 .. Len(Contents)
      <4>1. Taken + k \in 1 .. Len(accepted)
        BY <1>1, <3>2
      <4> QED
        BY <1>2, <1>3, <1>4, <3>2, <4>1 DEF QueueIsRest
    <3>3. k = Len(Contents) + 1 \/ k \in 1 .. Len(Contents)
      <4>1. k \in 1 .. Len(Contents) + 1
        BY <1>3
      <4> QED
        BY <1>1, <4>1
    <3> QED
      BY <3>1, <3>2, <3>3, Zenon
  <2> QED
    BY <1>1, <1>3, <1>5, <2>1 DEF QueueIsRest
<1>7. NoneTwice'
  BY <1>1, <1>2, <1>4 DEF NoneTwice
<1>8. \A k \in 1 .. Taken : accepted'[k] = accepted[k]
  BY <1>1, <1>4
<1>9. InHands'
  BY <1>2, <1>5, <1>8 DEF InHands
<1>10. Given'
  <2>1. \A k \in 1 .. Len(commands) : \E j \in 1 .. Taken : accepted'[j] = commands[k].id
    <3>1. \A k \in 1 .. Len(commands) : \E j \in 1 .. Taken : accepted[j] = commands[k].id
      BY <1>2, Zenon DEF Given
    <3> QED
      BY <1>8, <3>1, Zenon
  <2> QED
    BY <1>2, <1>5, <2>1 DEF Given
<1>11. NoneLost'
  BY <1>2, <1>5, <1>8 DEF NoneLost
<1> QED
  BY <1>4, <1>6, <1>7, <1>9, <1>10, <1>11 DEF History

LEMMA TakeOK ==
  ASSUME KInv, NEW c \in Cpus, NEW h, Contents # <<>>, h = Head(Contents),
         Contents' = Tail(Contents), Hand[c] = None, Hand' = [Hand EXCEPT ![c] = h],
         UNCHANGED <<accepted, sent, commands>>
  PROVE  History'
<1>1. /\ Taken \in Nat /\ Len(Contents) \in Nat /\ Len(accepted) = Taken + Len(Contents)
      /\ Len(accepted) \in Nat /\ None \notin Messages
      /\ \A k \in 1 .. Taken : k \in 1 .. Len(accepted) /\ accepted[k] \in Messages
  BY Members
<1>2. QueueIsRest /\ NoneTwice /\ InHands /\ Given /\ NoneLost
  BY DEF KInv, History
<1>3. Contents \in Seq(Messages)
  BY <1>2 DEF QueueIsRest
<1>4. accepted' = accepted /\ commands' = commands /\ sent' = sent
  OBVIOUS
<1>5. /\ h \in Messages /\ Len(Contents) > 0 /\ h = Contents[1]
      /\ Contents' \in Seq(Messages) /\ Len(Contents') = Len(Contents) - 1
      /\ \A k \in 1 .. Len(Contents') : Contents'[k] = Contents[k + 1]
  BY <1>3, HeadTailProperties, EmptySeq
<1>6. Taken' = Taken + 1 /\ Taken + 1 \in 1 .. Len(accepted) /\ accepted[Taken + 1] = h
  <2>1. Taken' = Taken + 1
    BY <1>1, <1>4, <1>5 DEF Taken
  <2>2. 1 \in 1 .. Len(Contents)
    BY <1>1, <1>5
  <2> QED
    BY <1>1, <1>2, <1>5, <2>1, <2>2 DEF QueueIsRest
<1>7. \A k \in 1 .. Taken : accepted[k] # h
  BY <1>1, <1>2, <1>6 DEF NoneTwice
<1>8. \A k \in 1 .. Taken' : k = Taken + 1 \/ k \in 1 .. Taken
  BY <1>1, <1>6
<1>9. \A k \in 1 .. Taken : k \in 1 .. Taken'
  BY <1>1, <1>6
<1>10. Taken + 1 \in 1 .. Taken'
  BY <1>1, <1>6
<1>11. QueueIsRest'
  BY <1>1, <1>2, <1>4, <1>5, <1>6 DEF QueueIsRest
<1>12. NoneTwice'
  BY <1>2, <1>4 DEF NoneTwice
<1>13. Hand'[c] = h /\ h # None /\ \A d \in Cpus : d # c => Hand'[d] = Hand[d]
  BY <1>1, <1>5, HandType
<1>14. \A d \in Cpus : Hand[d] # None => Hand[d] # h
  BY <1>2, <1>7 DEF InHands
<1>15. \A k \in 1 .. Len(commands) : commands[k].id # h
  BY <1>2, <1>7 DEF Given
<1>16. InHands'
  <2>1. ASSUME NEW d \in Cpus, NEW e \in Cpus, Hand'[d] = Hand'[e], Hand'[d] # None
        PROVE  d = e
    BY <1>2, <1>13, <1>14, <2>1 DEF InHands
  <2>2. ASSUME NEW d \in Cpus, Hand'[d] # None
        PROVE  /\ \E k \in 1 .. Taken' : accepted'[k] = Hand'[d]
               /\ \A k \in 1 .. Len(commands') : commands'[k].id # Hand'[d]
    <3>1. CASE d = c
      BY <3>1, <1>4, <1>6, <1>10, <1>13, <1>15
    <3>2. CASE d # c
      <4>1. Hand'[d] = Hand[d] /\ Hand[d] # None
        BY <3>2, <2>2, <1>13
      <4>2. PICK k \in 1 .. Taken : accepted[k] = Hand[d]
        BY <4>1, <1>2 DEF InHands
      <4>3. k \in 1 .. Taken' /\ accepted'[k] = Hand'[d]
        BY <4>1, <4>2, <1>4, <1>9
      <4>4. \A j \in 1 .. Len(commands) : commands[j].id # Hand[d]
        BY <4>1, <1>2 DEF InHands
      <4> QED
        BY <4>1, <4>3, <4>4, <1>4
    <3> QED
      BY <3>1, <3>2
  <2> QED
    BY <2>1, <2>2 DEF InHands
<1>17. Given'
  BY <1>2, <1>4, <1>9 DEF Given
<1>18. NoneLost'
  <2> SUFFICES ASSUME NEW k \in 1 .. Taken', dst[accepted[k]] \in Plants
               PROVE  \/ \E d \in Cpus : Hand'[d] = accepted[k]
                      \/ \E j \in 1 .. Len(commands) : commands[j].id = accepted[k]
    BY <1>4 DEF NoneLost
  <2>1. CASE k = Taken + 1
    BY <2>1, <1>6, <1>13
  <2>2. CASE k \in 1 .. Taken
    <3>1. accepted[k] # None
      BY <2>2, <1>1
    <3>2. ASSUME NEW d \in Cpus, Hand[d] = accepted[k] PROVE Hand'[d] = accepted[k]
      BY <3>1, <3>2, <1>13
    <3> QED
      BY <2>2, <3>2, <1>2 DEF NoneLost
  <2> QED
    BY <2>1, <2>2, <1>8
<1> QED
  BY <1>11, <1>12, <1>16, <1>17, <1>18 DEF History

(* The plant commands when m has been given.                                *)
AfterGiving(m) == IF dst[m] \in Plants THEN Append(commands, [plant |-> dst[m], id |-> m])
                                       ELSE commands

LEMMA GiveOK ==
  ASSUME KInv, NEW c \in Cpus, NEW m \in Messages, Hand[c] = m,
         Hand' = [Hand EXCEPT ![c] = None],
         commands' = AfterGiving(m),
         Contents' = Contents, UNCHANGED <<accepted, sent>>
  PROVE  History' /\ commands' \in Seq([plant : Plants, id : Messages])
<1>1. /\ Taken \in Nat /\ Len(commands) \in Nat /\ None \notin Messages
      /\ \A k \in 1 .. Taken : accepted[k] \in Messages
  BY Members
<1>2. QueueIsRest /\ NoneTwice /\ InHands /\ Given /\ NoneLost
  BY DEF KInv, History
<1>3. commands \in Seq([plant : Plants, id : Messages])
  BY DEF KInv, KTypeOK
<1>4. sent' = sent /\ accepted' = accepted
  OBVIOUS
<1>5. Taken' = Taken
  BY <1>4 DEF Taken
<1>6. m # None
  BY <1>1
<1>7. /\ \E k \in 1 .. Taken : accepted[k] = m
      /\ \A k \in 1 .. Len(commands) : commands[k].id # m
      /\ \A d \in Cpus : Hand[d] = m => d = c
  BY <1>2, <1>6 DEF InHands
<1>8. Hand'[c] = None /\ \A d \in Cpus : d # c => Hand'[d] = Hand[d]
  BY HandType
<1>10. QueueIsRest' /\ NoneTwice'
  BY <1>2, <1>4, <1>5 DEF QueueIsRest, NoneTwice
<1>12. \A d \in Cpus : Hand'[d] # None => Hand'[d] = Hand[d] /\ Hand[d] # m /\ d # c
  BY <1>7, <1>8
<1>13. CASE dst[m] \in Plants
  <2> DEFINE x == [plant |-> dst[m], id |-> m]
             n == Len(commands) + 1
  <2>1. commands' = Append(commands, x) /\ x \in [plant : Plants, id : Messages]
    BY <1>6, <1>13 DEF AfterGiving
  <2>2. x.id = m /\ x.plant = dst[m]
    OBVIOUS
  <2> HIDE DEF x
  <2>3. /\ commands' \in Seq([plant : Plants, id : Messages]) /\ Len(commands') = n
        /\ commands'[n] = x
        /\ \A k \in 1 .. Len(commands) : commands'[k] = commands[k]
    BY <1>3, <2>1, AppendIs
  <2>4. \A k \in 1 .. Len(commands') : k = n \/ k \in 1 .. Len(commands)
    BY <1>1, <2>3
  <2>5. \A k \in 1 .. Len(commands) : k \in 1 .. Len(commands')
    BY <1>1, <2>3
  <2>6. n \in 1 .. Len(commands')
    BY <1>1, <2>3
  <2> HIDE DEF n
  <2>8. InHands'
    <3>2. \A d, e \in Cpus : Hand'[d] = Hand'[e] /\ Hand'[d] # None => d = e
      BY <1>2, <1>12 DEF InHands
    <3>3. ASSUME NEW d \in Cpus, Hand'[d] # None
          PROVE  /\ \E k \in 1 .. Taken' : accepted'[k] = Hand'[d]
                 /\ \A k \in 1 .. Len(commands') : commands'[k].id # Hand'[d]
      <4>1. Hand'[d] = Hand[d] /\ Hand[d] # m /\ Hand[d] # None
        BY <3>3, <1>12
      <4>2. \E k \in 1 .. Taken : accepted[k] = Hand[d]
        BY <4>1, <1>2 DEF InHands
      <4>3. \A k \in 1 .. Len(commands) : commands[k].id # Hand[d]
        BY <4>1, <1>2 DEF InHands
      <4>4. \A k \in 1 .. Len(commands') : commands'[k].id # Hand[d]
        BY <4>1, <4>3, <2>2, <2>3, <2>4
      <4> QED
        BY <4>1, <4>2, <4>4, <1>4, <1>5
    <3> QED
      BY <3>2, <3>3 DEF InHands
  <2>9. Given'
    <3>1. ASSUME NEW j \in 1 .. Len(commands'), NEW k \in 1 .. Len(commands'),
                 commands'[j].id = commands'[k].id
          PROVE  j = k
      BY <3>1, <1>2, <1>7, <2>2, <2>3, <2>4 DEF Given
    <3>2. ASSUME NEW k \in 1 .. Len(commands')
          PROVE  /\ commands'[k].plant = dst[commands'[k].id]
                 /\ \E j \in 1 .. Taken' : accepted'[j] = commands'[k].id
      <4>1. CASE k = n
        BY <4>1, <1>4, <1>5, <1>7, <2>2, <2>3
      <4>2. CASE k \in 1 .. Len(commands)
        BY <4>2, <1>2, <1>4, <1>5, <2>3 DEF Given
      <4> QED
        BY <4>1, <4>2, <2>4
    <3> QED
      BY <3>1, <3>2 DEF Given
  <2>10. NoneLost'
    <3> SUFFICES ASSUME NEW k \in 1 .. Taken, dst[accepted[k]] \in Plants
                 PROVE  \/ \E d \in Cpus : Hand'[d] = accepted[k]
                        \/ \E j \in 1 .. Len(commands') : commands'[j].id = accepted[k]
      BY <1>4, <1>5 DEF NoneLost
    <3>1. CASE accepted[k] = m
      BY <3>1, <2>2, <2>3, <2>6
    <3>2. CASE accepted[k] # m
      <4>1. CASE \E d \in Cpus : Hand[d] = accepted[k]
        BY <3>2, <4>1, <1>8
      <4>2. CASE \E j \in 1 .. Len(commands) : commands[j].id = accepted[k]
        BY <4>2, <2>3, <2>5
      <4> QED
        BY <4>1, <4>2, <1>2 DEF NoneLost
    <3> QED
      BY <3>1, <3>2
  <2> QED
    BY <1>10, <2>3, <2>8, <2>9, <2>10 DEF History
<1>14. CASE dst[m] \notin Plants
  <2>1. commands' = commands
    BY <1>14 DEF AfterGiving
  <2>3. InHands'
    <3>2. \A d, e \in Cpus : Hand'[d] = Hand'[e] /\ Hand'[d] # None => d = e
      BY <1>2, <1>12 DEF InHands
    <3> QED
      BY <3>2, <1>2, <1>4, <1>5, <1>12, <2>1 DEF InHands
  <2>4. Given'
    BY <1>2, <1>4, <1>5, <2>1 DEF Given
  <2>5. NoneLost'
    <3> SUFFICES ASSUME NEW k \in 1 .. Taken, dst[accepted[k]] \in Plants
                 PROVE  \/ \E d \in Cpus : Hand'[d] = accepted[k]
                        \/ \E j \in 1 .. Len(commands) : commands[j].id = accepted[k]
      BY <1>4, <1>5, <2>1 DEF NoneLost
    <3>1. accepted[k] # m
      BY <1>14
    <3> QED
      BY <3>1, <1>2, <1>8 DEF NoneLost
  <2> QED
    BY <1>3, <1>10, <2>1, <2>3, <2>4, <2>5 DEF History
<1> QED
  BY <1>13, <1>14

LEMMA KeepOK ==
  ASSUME KInv, Contents' = Contents, Hand' = Hand, sent \subseteq sent',
         UNCHANGED <<accepted, commands>>
  PROVE  History'
<1>1. Taken' = Taken
  BY DEF Taken
<1>2. QueueIsRest /\ NoneTwice /\ InHands /\ Given /\ NoneLost
  BY DEF KInv, History
<1>3. QueueIsRest' /\ NoneTwice'
  BY <1>1, <1>2 DEF QueueIsRest, NoneTwice
<1>4. InHands'
  BY <1>1, <1>2 DEF InHands
<1>5. Given'
  BY <1>1, <1>2 DEF Given
<1>6. NoneLost'
  BY <1>1, <1>2 DEF NoneLost
<1> QED
  BY <1>3, <1>4, <1>5, <1>6 DEF History

-----------------------------------------------------------------------------
(* The steps.                                                               *)

(* A step of the loop outside FlexIPC, with no message received or given.   *)
LEMMA LoopOnly ==
  ASSUME KInv, UNCHANGED <<vars, history, commands>>,
         loop' \in [Cpus -> Places], InLoop', Hand' = Hand
  PROVE  KInv'
<1>1. UNCHANGED <<ring, head, tail, pc, msg, result, sent, accepted, commands>>
  BY DEF vars, history
<1>2. Contents' = Contents
  BY <1>1, Same
<1>3. History'
  BY <1>1, <1>2, KeepOK
<1>4. KTypeOK'
  BY <1>1 DEF KInv, KTypeOK
<1>5. OnTheWay'
  BY <1>1 DEF KInv, OnTheWay, IsSending
<1> QED
  BY <1>3, <1>4, <1>5 DEF KInv

LEMMA MoveOK ==
  ASSUME IInv, KInv,
         \/ Initialize \/ TimerTick
         \/ \E c \in Cpus : LeaveSpin(c) \/ NoMessage(c) \/ Halt(c) \/ TakeIpi(c)
  PROVE  KInv'
<1>1. /\ loop \in [Cpus -> Places] /\ InLoop /\ Bsp \in Cpus
  BY KernelAssumption DEF KInv, KTypeOK
<1>2. PICK c \in Cpus, p \in Places :
        /\ UNCHANGED <<vars, history, commands>>
        /\ loop' = [loop EXCEPT ![c] = p]
        /\ p # "receive"
        /\ \/ p = loop[c]
           \/ At(c, "idle") /\ loop[c] # "receive"
           \/ At(c, "idle") /\ loop[c] = "receive" /\ result[c] = None
           \/ p = "plants" /\ loop[c] = "halted"
        \/ /\ UNCHANGED <<vars, history, commands>> /\ loop' = loop
  <2>1. CASE Initialize
    BY <1>1, <2>1 DEF Initialize, Moves, Stands, Places
  <2>2. CASE TimerTick
    BY <1>1, <2>2 DEF TimerTick, Moves, Woken, Places
  <2>3. ASSUME NEW c \in Cpus, LeaveSpin(c) \/ NoMessage(c) \/ Halt(c) \/ TakeIpi(c)
        PROVE  \E p \in Places :
                 \/ /\ UNCHANGED <<vars, history, commands>>
                    /\ loop' = [loop EXCEPT ![c] = p]
                    /\ p # "receive"
                    /\ \/ p = loop[c]
                       \/ At(c, "idle") /\ loop[c] # "receive"
                       \/ At(c, "idle") /\ loop[c] = "receive" /\ result[c] = None
                       \/ p = "plants" /\ loop[c] = "halted"
                 \/ UNCHANGED <<vars, history, commands>> /\ loop' = loop
    BY <1>1, <2>3 DEF LeaveSpin, NoMessage, Halt, TakeIpi, Moves, Stands, Woken, Places
  <2> QED
    BY <2>1, <2>2, <2>3
<1>3. UNCHANGED <<pc, msg, result>> /\ UNCHANGED <<vars, history, commands>>
  BY <1>2 DEF vars
<1>4. loop' \in [Cpus -> Places]
  BY <1>1, <1>2
<1>5. InLoop'
  BY <1>1, <1>2, <1>3 DEF InLoop, IsSending, Places, At
<1>6. Hand' = Hand
  BY <1>1, <1>2, <1>3, FlexIPCAssumption DEF Hand
<1> QED
  BY <1>3, <1>4, <1>5, <1>6, LoopOnly

LEMMA ReceiveOK == ASSUME IInv, KInv, NEW c \in Cpus, Receive(c) PROVE KInv'
<1>1. /\ UNCHANGED <<ring, head, tail, msg, sent, accepted, commands>>
      /\ pc[c] = "idle" /\ pc' = [pc EXCEPT ![c] = "receive"]
      /\ result' = [result EXCEPT ![c] = Busy]
      /\ loop[c] = "plants" /\ loop' = [loop EXCEPT ![c] = "receive"]
  BY DEF Receive, Stands, Moves, CallReceive, Begin, At, Goto, history
<1>2. Contents' = Contents
  BY <1>1, Same
<1>3. /\ pc \in [Cpus -> Labels] /\ result \in [Cpus -> Messages \union {None, Busy, TRUE, FALSE}]
      /\ loop \in [Cpus -> Places]
  BY DEF IInv, TypeOK, KInv, KTypeOK
<1>4. Hand' = Hand
  BY <1>1, <1>3, FlexIPCAssumption DEF Hand
<1>5. History'
  BY <1>1, <1>2, <1>4, KeepOK
<1>6. KTypeOK'
  BY <1>1, <1>3 DEF KInv, KTypeOK, Places
<1>7. InLoop'
  BY <1>1, <1>3 DEF KInv, InLoop, IsSending
<1>8. OnTheWay'
  BY <1>1, <1>3 DEF KInv, OnTheWay, IsSending
<1> QED
  BY <1>5, <1>6, <1>7, <1>8 DEF KInv

LEMMA CommandOK == ASSUME IInv, KInv, NEW c \in Cpus, Command(c) PROVE KInv'
<1> DEFINE m == result[c]
<1>1. /\ UNCHANGED <<ring, head, tail, pc, msg, result, sent, accepted>>
      /\ pc[c] = "idle" /\ m # None
      /\ loop[c] = "receive" /\ loop' = [loop EXCEPT ![c] = "plants"]
      /\ commands' = AfterGiving(m)
  BY DEF Command, Stands, Moves, At, vars, history, AfterGiving
<1>2. m \in Messages
  BY <1>1 DEF KInv, InLoop
<1>3. Contents' = Contents
  BY <1>1, Same
<1>4. loop \in [Cpus -> Places]
  BY DEF KInv, KTypeOK
<1>5. Hand[c] = m /\ Hand' = [Hand EXCEPT ![c] = None]
  BY <1>1, <1>2, <1>4 DEF Hand
<1> HIDE DEF m
<1>6. History' /\ commands' \in Seq([plant : Plants, id : Messages])
  BY <1>1, <1>2, <1>3, <1>5, GiveOK
<1>7. KTypeOK'
  BY <1>1, <1>4, <1>6 DEF KInv, KTypeOK, Places
<1>8. InLoop'
  BY <1>1, <1>4 DEF KInv, InLoop, IsSending
<1>9. OnTheWay'
  BY <1>1 DEF KInv, OnTheWay, IsSending
<1> QED
  BY <1>6, <1>7, <1>8, <1>9 DEF KInv

LEMMA SendOK == ASSUME IInv, KInv, NEW c \in Cpus, NEW m \in Messages, Send(c, m) PROVE KInv'
<1>1. /\ UNCHANGED <<ring, head, tail, loop, accepted, commands>>
      /\ m \notin sent /\ sent' = sent \union {m}
      /\ loop[c] \in {"boot", "plants", "update"}
      /\ pc[c] = "idle" /\ pc' = [pc EXCEPT ![c] = "send"]
      /\ msg' = [msg EXCEPT ![c] = m]
      /\ result' = [result EXCEPT ![c] = Busy]
  BY DEF Send, CallSend, Begin, At, Goto, kernel
<1>2. Contents' = Contents
  BY <1>1, Same
<1>3. /\ pc \in [Cpus -> Labels] /\ result \in [Cpus -> Messages \union {None, Busy, TRUE, FALSE}]
      /\ msg \in [Cpus -> Messages \union {None}]
  BY DEF IInv, TypeOK
<1>4. Hand' = Hand
  BY <1>1, <1>3 DEF Hand
<1>5. History'
  BY <1>1, <1>2, <1>4, KeepOK
<1>6. KTypeOK'
  BY <1>1 DEF KInv, KTypeOK
<1>7. InLoop'
  BY <1>1, <1>3 DEF KInv, InLoop, IsSending
<1>8. OnTheWay'
  <2>1. \A k \in 1 .. Len(accepted) : accepted[k] # m
    BY <1>1 DEF KInv, History, NoneTwice
  <2>2. \A d \in Cpus : IsSending(d) => msg[d] # m
    BY <1>1 DEF KInv, OnTheWay
  <2> QED
    BY <1>1, <1>3, <2>1, <2>2 DEF KInv, OnTheWay, IsSending
<1> QED
  BY <1>5, <1>6, <1>7, <1>8 DEF KInv

LEMMA InCallOK == ASSUME IInv, TypeOK', KInv, NEW c \in Cpus, InCall(c) PROVE KInv'
<1>1. UNCHANGED <<loop, commands, sent>> /\ Step(c)
  BY DEF InCall, kernel
<1>2. /\ pc \in [Cpus -> Labels] /\ result \in [Cpus -> Messages \union {None, Busy, TRUE, FALSE}]
      /\ msg \in [Cpus -> Messages \union {None}] /\ loop \in [Cpus -> Places]
  BY DEF IInv, TypeOK, KInv, KTypeOK
<1>3. result[c] = Busy
  BY <1>1 DEF IInv, Holding, Step, AcquireSend, SendRefused, WriteSlot, Publish,
              AcquireReceive, ReceiveEmpty, ReadSlot, Advance, Acquire, At
<1>4. InLoop'
  BY <1>1, <1>2 DEF KInv, InLoop, IsSending, Step, AcquireSend, SendRefused, WriteSlot, Publish,
              AcquireReceive, ReceiveEmpty, ReadSlot, Advance, Acquire, Return, At, Goto
<1>5. CASE Publish(c)
  <2> DEFINE m == msg[c]
  <2>1. /\ pc[c] = "publish" /\ pc' = [pc EXCEPT ![c] = "idle"]
        /\ msg' = [msg EXCEPT ![c] = None] /\ result' = [result EXCEPT ![c] = TRUE]
    BY <1>5 DEF Publish, Return, At, Goto
  <2>2. accepted' = Append(accepted, m) /\ Contents' = Append(Contents, m)
    BY <1>5, <2>1, QueueChange DEF InCall, At
  <2>3. m \in Messages /\ m \in sent /\ (\A k \in 1 .. Len(accepted) : accepted[k] # m)
        /\ loop[c] # "receive"
    BY <2>1 DEF IInv, Holding, KInv, OnTheWay, IsSending, InLoop
  <2>4. \A d \in Cpus : IsSending(d)' => d # c /\ IsSending(d) /\ msg'[d] = msg[d] /\ msg[d] # m
    BY <1>2, <2>1 DEF KInv, OnTheWay, IsSending
  <2>5. Hand' = Hand
    BY <1>1, <1>2, <2>1, <2>3 DEF Hand
  <2> HIDE DEF m
  <2>6. History' /\ accepted' \in Seq(Messages)
    BY <1>1, <2>2, <2>3, <2>5, AcceptOK
  <2>7. KTypeOK'
    BY <1>1, <2>6 DEF KInv, KTypeOK
  <2>8. OnTheWay'
    <3>1. /\ accepted \in Seq(Messages) /\ Len(accepted') = Len(accepted) + 1
          /\ accepted'[Len(accepted) + 1] = m
          /\ \A k \in 1 .. Len(accepted) : accepted'[k] = accepted[k]
      BY <2>2, <2>3, AppendIs DEF KInv, KTypeOK
    <3>2. \A k \in 1 .. Len(accepted') : k = Len(accepted) + 1 \/ k \in 1 .. Len(accepted)
      BY <3>1
    <3> QED
      BY <1>1, <2>4, <3>1, <3>2 DEF KInv, OnTheWay
  <2> QED
    BY <1>4, <2>6, <2>7, <2>8 DEF KInv
<1>6. CASE ~Publish(c)
  <2>1. accepted' = accepted /\ pc[c] # "publish"
    BY <1>1, <1>6 DEF InCall, Step, AcquireSend, SendRefused, WriteSlot, Publish,
              AcquireReceive, ReceiveEmpty, ReadSlot, Advance, Acquire, At
  <2>2. KTypeOK'
    BY <1>1, <2>1 DEF KInv, KTypeOK
  <2>3. \A d \in Cpus : IsSending(d)' => IsSending(d) /\ msg'[d] = msg[d]
    BY <1>1, <1>2, <1>6 DEF IsSending, Step, AcquireSend, SendRefused, WriteSlot, Publish,
              AcquireReceive, ReceiveEmpty, ReadSlot, Advance, Acquire, Return, At, Goto
  <2>4. OnTheWay'
    BY <1>1, <2>1, <2>3 DEF KInv, OnTheWay
  <2>5. CASE Advance(c)
    <3>1. /\ pc[c] = "advance" /\ result' = [result EXCEPT ![c] = msg[c]]
      BY <2>5 DEF Advance, Return, At
    <3>2. loop[c] = "receive"
      BY <3>1 DEF KInv, InLoop
    <3>3. Contents # <<>> /\ Head(Contents) = msg[c] /\ Contents' = Tail(Contents)
      BY <2>5, QueueChange
    <3>4. msg[c] \in Messages
      <4>1. Contents \in Seq(Messages)
        BY DEF KInv, History, QueueIsRest
      <4> QED
        BY <3>3, <4>1, HeadTailProperties
    <3>5. Hand[c] = None
      BY <1>3, FlexIPCAssumption DEF Hand
    <3>6. Hand' = [Hand EXCEPT ![c] = msg[c]]
      BY <1>1, <1>2, <3>1, <3>2, <3>4 DEF Hand
    <3>7. History'
      BY <1>1, <2>1, <3>3, <3>5, <3>6, TakeOK
    <3> QED
      BY <1>4, <2>2, <2>4, <3>7 DEF KInv
  <2>6. CASE ~Advance(c)
    <3>1. Contents' = Contents
      BY <1>1, <1>6, <2>6, QueueChange
    <3>2. \/ result' = result
          \/ \E r \in {FALSE, None} : result' = [result EXCEPT ![c] = r]
      BY <1>1, <1>6, <2>6 DEF Step, AcquireSend, SendRefused, WriteSlot,
              AcquireReceive, ReceiveEmpty, ReadSlot, Acquire, Return
    <3>3. Hand' = Hand
      BY <1>1, <1>2, <1>3, <3>2, FlexIPCAssumption DEF Hand
    <3>4. History'
      BY <1>1, <2>1, <3>1, <3>3, KeepOK
    <3> QED
      BY <1>4, <2>2, <2>4, <3>4 DEF KInv
  <2> QED
    BY <2>5, <2>6
<1> QED
  BY <1>5, <1>6

LEMMA KernelNextOK == IInv /\ TypeOK' /\ KInv /\ [KernelNext]_all_vars => KInv'
<1> SUFFICES ASSUME IInv, TypeOK', KInv, [KernelNext]_all_vars PROVE KInv'
  OBVIOUS
<1>1. CASE UNCHANGED all_vars
  <2>1. UNCHANGED <<vars, history, commands, loop, pc, result>>
    BY <1>1 DEF all_vars, vars, kernel, history
  <2>2. InLoop' /\ Hand' = Hand /\ loop' \in [Cpus -> Places]
    BY <2>1 DEF KInv, KTypeOK, InLoop, IsSending, Hand
  <2> QED
    BY <2>1, <2>2, LoopOnly
<1>2. CASE Initialize \/ TimerTick
  BY <1>2, MoveOK
<1>3. ASSUME NEW c \in Cpus, KernelStep(c) \/ TakeIpi(c) PROVE KInv'
  BY <1>3, MoveOK, ReceiveOK, CommandOK, InCallOK DEF KernelStep
<1>4. ASSUME NEW c \in Cpus, NEW m \in Messages, Send(c, m) PROVE KInv'
  BY <1>4, SendOK
<1> QED
  BY <1>1, <1>2, <1>3, <1>4 DEF KernelNext

(* Every message the queue has taken is in the ring, in the hands of one    *)
(* CPU or with its plant, in every state of the main loops                  *)
(* (kernel/central_core.c:50-83).                                           *)
THEOREM KernelInvariance == KernelSpec => [](IInv /\ KInv)
<1>1. KernelSpec => []IInv
  BY KernelCalls, Invariance, PTL
<1>2. IInv => TypeOK
  BY DEF IInv
<1> QED
  BY <1>1, <1>2, KernelInitOK, KernelNextOK, PTL DEF KernelSpec

-----------------------------------------------------------------------------
LEMMA SetOfOne == ASSUME NEW x PROVE Cardinality({x}) = 1 /\ Cardinality({}) = 0
BY FS_EmptySet, FS_Singleton

LEMMA HoldersAre ==
  ASSUME NEW i \in Messages
  PROVE  Holders(i) = {c \in Cpus : Hand[c] = i}
BY FlexIPCAssumption DEF Holders, Hand

LEMMA InvExactlyOnce == KInv => ExactlyOnce
<1> SUFFICES ASSUME KInv, NEW i \in Accepted, dst[i] \in Plants
             PROVE  /\ Cardinality({k \in DOMAIN Contents : Contents[k] = i})
                       + Cardinality(Holders(i))
                       + Cardinality(Commanded(i)) = 1
                    /\ \A k \in Commanded(i) : commands[k].plant = dst[i]
  BY DEF ExactlyOnce
<1> PICK n \in 1 .. Len(accepted) : i = accepted[n]
  BY DEF Accepted
<1> DEFINE Q == {k \in DOMAIN Contents : Contents[k] = i}
           H == Holders(i)
           G == Commanded(i)
<1>1. /\ Taken \in Nat /\ Len(Contents) \in Nat /\ Len(accepted) = Taken + Len(Contents)
      /\ \A k \in 1 .. Taken : k \in 1 .. Len(accepted)
      /\ i \in Messages /\ i # None
  BY Members
<1>2. QueueIsRest /\ NoneTwice /\ InHands /\ Given /\ NoneLost
  BY DEF KInv, History
<1>a. DOMAIN Contents = 1 .. Len(Contents)
  BY <1>2 DEF QueueIsRest
<1>b. H = {c \in Cpus : Hand[c] = i}
  BY <1>1, HoldersAre
<1>3. G = {k \in 1 .. Len(commands) : commands[k].id = i}
  BY DEF Commanded
<1>4. \A k \in Q : k \in 1 .. Len(Contents) /\ accepted[Taken + k] = accepted[n]
  BY <1>2, <1>a DEF QueueIsRest
<1>5. \A k \in Q : n = Taken + k
  BY <1>1, <1>2, <1>4 DEF NoneTwice
<1>6. \A k \in G : commands[k].plant = dst[i]
  BY <1>2, <1>3 DEF Given
<1>7. Cardinality(Q) + Cardinality(H) + Cardinality(G) = 1
  <2>1. CASE n > Taken
    <3>1. n - Taken \in 1 .. Len(Contents) /\ Taken + (n - Taken) = n
      BY <1>1, <2>1
    <3>2. Contents[n - Taken] = i
      BY <1>2, <3>1 DEF QueueIsRest
    <3>3. Q = {n - Taken}
      BY <1>1, <1>5, <3>1, <3>2
    <3>4. \A k \in 1 .. Taken : accepted[k] # i
      BY <1>1, <1>2, <2>1 DEF NoneTwice
    <3>5. H = {}
      BY <1>b, <1>1, <1>2, <3>4 DEF InHands
    <3>6. G = {}
      BY <1>2, <1>3, <3>4 DEF Given
    <3>7. Cardinality(Q) = 1 /\ Cardinality(H) = 0 /\ Cardinality(G) = 0
      BY <3>3, <3>5, <3>6, SetOfOne
    <3> QED
      BY <3>7
  <2>2. CASE n <= Taken
    <3>1. Q = {}
      BY <1>1, <1>5, <2>2
    <3>2. n \in 1 .. Taken
      BY <1>1, <2>2
    <3>3. CASE H # {}
      <4>1. PICK c \in Cpus : Hand[c] = i
        BY <1>b, <3>3
      <4>2. H = {c}
        BY <1>b, <1>1, <1>2, <4>1 DEF InHands
      <4>3. G = {}
        BY <1>1, <1>2, <1>3, <4>1 DEF InHands
      <4>4. Cardinality(Q) = 0 /\ Cardinality(H) = 1 /\ Cardinality(G) = 0
        BY <3>1, <4>2, <4>3, SetOfOne
      <4> QED
        BY <4>4
    <3>4. CASE H = {}
      <4>1. PICK j \in 1 .. Len(commands) : commands[j].id = i
        BY <1>b, <3>2, <3>4, <1>2 DEF NoneLost
      <4>2. G = {j}
        BY <4>1, <1>2, <1>3 DEF Given
      <4>3. Cardinality(Q) = 0 /\ Cardinality(H) = 0 /\ Cardinality(G) = 1
        BY <3>1, <3>4, <4>2, SetOfOne
      <4> QED
        BY <4>3
    <3> QED
      BY <3>3, <3>4
  <2> QED
    BY <1>1, <2>1, <2>2
<1> QED
  BY <1>6, <1>7

(* However many CPUs empty the queue, and wherever in flexipc_send and      *)
(* flexipc_receive they are, an accepted message for a plant is in the ring,*)
(* in one hand or given to that plant, and in one of them once              *)
(* (kernel/central_core.c:52-58).                                           *)
THEOREM GivenOnce == KernelSpec => []ExactlyOnce
BY KernelInvariance, InvExactlyOnce, PTL

LEMMA InvInOrder == KInv => InOrder
<1> SUFFICES ASSUME KInv, NEW m \in 1 .. Len(accepted), NEW n \in 1 .. Len(accepted), m < n,
                    dst[accepted[m]] = dst[accepted[n]], Commanded(accepted[n]) # {}
             PROVE  Commanded(accepted[m]) # {} \/ Holders(accepted[m]) # {}
  BY DEF InOrder
<1>1. /\ Taken \in Nat /\ Len(accepted) \in Nat
      /\ \A k \in 1 .. Taken : k \in 1 .. Len(accepted) /\ accepted[k] \in Messages
      /\ \A k \in 1 .. Len(commands) : commands[k].plant \in Plants
  BY Members
<1>2. NoneTwice /\ Given /\ NoneLost
  BY DEF KInv, History
<1>3. PICK k \in 1 .. Len(commands) : commands[k].id = accepted[n]
  BY DEF Commanded
<1>4. PICK j \in 1 .. Taken : accepted[j] = accepted[n]
  BY <1>2, <1>3 DEF Given
<1>5. j = n
  BY <1>1, <1>2, <1>4 DEF NoneTwice
<1>6. m \in 1 .. Taken
  BY <1>1, <1>4, <1>5
<1>7. dst[accepted[m]] \in Plants
  BY <1>1, <1>2, <1>3 DEF Given
<1>8. Holders(accepted[m]) = {c \in Cpus : Hand[c] = accepted[m]}
  BY <1>1, <1>6, HoldersAre
<1> QED
  BY <1>2, <1>6, <1>7, <1>8 DEF NoneLost, Commanded

(* A later message to a plant overtakes an earlier one only while another   *)
(* CPU has that one in its hands.                                           *)
THEOREM TakenInOrder == KernelSpec => []InOrder
BY KernelInvariance, InvInOrder, PTL
=============================================================================
