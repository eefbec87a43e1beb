------------------------------ MODULE RunQueue -------------------------------
(***************************************************************************)
(* The run queues as they are in memory (kernel/process_core.c:20-37): a   *)
(* head pointer per class and the link `next` inside each process.  A      *)
(* value of `lists` is both together.                                      *)
(***************************************************************************)
EXTENDS Integers, Sequences, FiniteSets

CONSTANTS
  Procs,      \* the processes
  None        \* NULL

Lists(classes) ==
  [head : [classes -> Procs \union {None}], next : [Procs -> Procs \union {None}]]

(* Following the links from the head of list c passes the processes of q,  *)
(* in that order, and then ends.                                           *)
IsList(lists, c, q) ==
  /\ lists.head[c] = IF q = <<>> THEN None ELSE q[1]
  /\ \A i \in 1 .. Len(q) :
       lists.next[q[i]] = IF i = Len(q) THEN None ELSE q[i + 1]

(* The processes that the loop of push can come to: those in every set     *)
(* that has the head of list c and is closed under `next`.                 *)
Reached(lists, c) ==
  {p \in Procs :
     \A S \in SUBSET Procs :
       /\ lists.head[c] \in S
       /\ \A x \in S : lists.next[x] \in S \union {None}
       => p \in S}

(* The process at which the loop stops. *)
LastOf(lists, c) == CHOOSE p \in Reached(lists, c) : lists.next[p] = None

(* Mutant: the link of p keeps the value it had. *)
MutantPush(lists, c, p) ==
  IF lists.head[c] = None
    THEN [lists EXCEPT !.head[c] = p]
    ELSE [lists EXCEPT !.next[LastOf(lists, c)] = p]

push(lists, c, p) ==
  LET cleared == [lists EXCEPT !.next[p] = None] IN
  IF lists.head[c] = None
    THEN [cleared EXCEPT !.head[c] = p]
    ELSE [cleared EXCEPT !.next[LastOf(cleared, c)] = p]

(* pop of a list that is not empty; it returns lists.head[c]. *)
pop(lists, c) ==
  LET p == lists.head[c] IN
  [lists EXCEPT !.head[c] = lists.next[p], !.next[p] = None]
=============================================================================
