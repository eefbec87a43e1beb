---------------------------- MODULE MessageQueue -----------------------------
(***************************************************************************)
(* What FlexIPC promises its callers: one bounded first-in-first-out queue *)
(* for all CPUs, on which a send and a receive are each a single step.  A  *)
(* send is refused when the queue is full, never otherwise; a receive      *)
(* finds nothing when it is empty, never otherwise.                        *)
(***************************************************************************)
EXTENDS Naturals, Sequences

CONSTANTS Cpus, Messages, Capacity, None, Busy

VARIABLES
  queue,     \* the messages accepted and not received yet
  arg,       \* the message a CPU is sending; None in every other CPU
  result     \* of the last call of each CPU; Busy during a call

vars == <<queue, arg, result>>

Init ==
  /\ queue = <<>>
  /\ arg = [c \in Cpus |-> None]
  /\ result = [c \in Cpus |-> None]

Begin(c, m) ==
  /\ result[c] # Busy
  /\ result' = [result EXCEPT ![c] = Busy]
  /\ arg' = [arg EXCEPT ![c] = m]
  /\ UNCHANGED queue

Return(c, r) ==
  /\ result[c] = Busy
  /\ result' = [result EXCEPT ![c] = r]
  /\ arg' = [arg EXCEPT ![c] = None]

Send(c) ==
  /\ arg[c] # None
  /\ IF Len(queue) < Capacity
       THEN queue' = Append(queue, arg[c]) /\ Return(c, TRUE)
       ELSE UNCHANGED queue /\ Return(c, FALSE)

Receive(c) ==
  /\ arg[c] = None
  /\ IF queue # <<>>
       THEN queue' = Tail(queue) /\ Return(c, Head(queue))
       ELSE UNCHANGED queue /\ Return(c, None)

Next ==
  \E c \in Cpus :
    \/ \E m \in Messages \union {None} : Begin(c, m)
    \/ Send(c)
    \/ Receive(c)

Spec == Init /\ [][Next]_vars
=============================================================================
