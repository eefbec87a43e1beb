--------------------------- MODULE SecurityPolicy ----------------------------
(***************************************************************************)
(* What the Security Core promises: a map from the known processes to      *)
(* their level and the system calls they may make.  A process has no right *)
(* it was not given, and whoever makes a call outside its whitelist goes   *)
(* to quarantine at once (docs/OmniumX_OmniumOS.md:338-339).               *)
(***************************************************************************)
EXTENDS Naturals, FiniteSets

CONSTANTS Pids, Syscalls, Levels, Capacity, DefaultLevel, NoAnswer

VARIABLES
  known, level, allowed,   \* the map; rights of unknown processes are empty
  quarantined,             \* whom the last call told Plant 4 to quarantine
  answer                   \* the last call, if it was a check, and its result

vars == <<known, level, allowed, quarantined, answer>>

Init ==
  /\ known = {}
  /\ level = [p \in Pids |-> DefaultLevel]
  /\ allowed = [p \in Pids |-> {}]
  /\ quarantined = {}
  /\ answer = NoAnswer

Silent == quarantined' = {} /\ answer' = NoAnswer

SetLevel(p, l) ==
  /\ IF p \in known \/ Cardinality(known) < Capacity
       THEN known' = known \union {p} /\ level' = [level EXCEPT ![p] = l]
       ELSE UNCHANGED <<known, level>>
  /\ UNCHANGED allowed
  /\ Silent

(* The rights to the first n system calls are replaced by `given`. *)
SetWhitelist(p, given, n) ==
  /\ allowed' = [allowed EXCEPT ![p] =
                   IF p \in known THEN {s \in @ : s >= n} \union given ELSE @]
  /\ UNCHANGED <<known, level>>
  /\ Silent

Check(s, p) ==
  LET granted == s \in allowed[p] IN
  /\ answer' = [id |-> s, pid |-> p, granted |-> granted]
  /\ quarantined' = IF granted THEN {} ELSE {p}
  /\ UNCHANGED <<known, level, allowed>>

Quarantine(p) ==
  /\ quarantined' = {p}
  /\ answer' = NoAnswer
  /\ UNCHANGED <<known, level, allowed>>

Next ==
  \E p \in Pids :
    \/ \E l \in Levels : SetLevel(p, l)
    \/ \E n \in 0 .. Cardinality(Syscalls) :
         \E given \in SUBSET {s \in Syscalls : s < n} : SetWhitelist(p, given, n)
    \/ \E s \in 0 .. Cardinality(Syscalls) : Check(s, p)
    \/ Quarantine(p)

Spec == Init /\ [][Next]_vars
=============================================================================
