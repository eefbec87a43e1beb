---------------------------- MODULE SecurityCore -----------------------------
(***************************************************************************)
(* kernel/security_core.c: a table of MAX_PROCESSES entries that is        *)
(* searched from its beginning; an entry whose pid is 0 is free and no     *)
(* entry is ever freed.  The functions take no lock: one CPU calls them.   *)
(***************************************************************************)
EXTENDS Integers, FiniteSets

CONSTANTS
  MAX_PROCESSES, MAX_SYSCALLS,
  Pids,      \* the pids the functions are called with; 0 may be among them
  Counts,    \* the lengths of the lists given to security_set_whitelist
  NoAnswer

ASSUME SecurityCoreAssumption ==
  /\ MAX_PROCESSES \in Nat \ {0}
  /\ MAX_SYSCALLS \in Nat \ {0}
  /\ Pids \subseteq Nat
  /\ Counts \subseteq Int

Levels == {"user", "admin"}
Syscalls == 0 .. MAX_SYSCALLS - 1
Entries == 1 .. MAX_PROCESSES

VARIABLES
  process_table,
  quarantined,     \* the pids the last call gave to plant4_command
  answer           \* history: the last call, if it was
                   \* security_check_syscall, and what it returned

securityVars == <<process_table, quarantined, answer>>

(* security_core_init *)
SecurityInit ==
  /\ process_table = [i \in Entries |-> [pid |-> 0, level |-> "user", whitelist |-> {}]]
  /\ quarantined = {}
  /\ answer = NoAnswer

(* find_process: the first entry of the pid; pid 0 is never found. *)
FirstWith(i, pid) ==
  /\ process_table[i].pid = pid
  /\ \A j \in Entries : process_table[j].pid = pid => i <= j

Found(i, pid) == pid # 0 /\ FirstWith(i, pid)
Known(pid) == \E i \in Entries : Found(i, pid)

(* A call that returns nothing and does not reach Plant 4. *)
Silent == quarantined' = {} /\ answer' = NoAnswer

UpdateLevel(pid, level) ==
  \E i \in Entries :
    /\ Found(i, pid)
    /\ process_table' = [process_table EXCEPT ![i].level = level]

(* Mutant: a repeated call creates a second entry. *)
MutantClaimEntry(pid, level) ==
  \E i \in Entries :
    /\ pid # 0
    /\ FirstWith(i, 0)
    /\ process_table' = [process_table EXCEPT ![i].pid = pid, ![i].level = level]

ClaimEntry(pid, level) ==
  \E i \in Entries :
    /\ pid # 0 /\ ~Known(pid)
    /\ FirstWith(i, 0)
    /\ process_table' = [process_table EXCEPT ![i].pid = pid, ![i].level = level]

(* For pid 0, and for a new process on a full table, nothing changes. *)
KeepTable(pid) ==
  /\ ~Known(pid)
  /\ pid = 0 \/ \A i \in Entries : process_table[i].pid # 0
  /\ UNCHANGED process_table

security_set_process_level(pid, level) ==
  /\ UpdateLevel(pid, level) \/ ClaimEntry(pid, level) \/ KeepTable(pid)
  /\ Silent

(* syscalls is the set of the indices below count that hold a 1. *)
security_set_whitelist(pid, syscalls, count) ==
  /\ process_table' =
       [i \in Entries |->
          IF Found(i, pid)
            THEN [process_table[i] EXCEPT !.whitelist =
                    {s \in @ : s >= count} \union syscalls]
            ELSE process_table[i]]
  /\ Silent

quarantine_process(pid) == quarantined' = {pid}

(* Mutant: the entry that is found is not the caller's. *)
MutantPermitted(id, pid) ==
  Known(pid) /\ \E i \in Entries : id \in process_table[i].whitelist

Permitted(id, pid) ==
  \E i \in Entries : Found(i, pid) /\ id \in process_table[i].whitelist

Return(id, pid, granted) ==
  answer' = [id |-> id, pid |-> pid, granted |-> granted]

CheckUnknown(id, pid) ==
  /\ ~Known(pid)
  /\ Return(id, pid, FALSE)
  /\ quarantined' = {}

CheckPermitted(id, pid) ==
  /\ Permitted(id, pid)
  /\ Return(id, pid, TRUE)
  /\ quarantined' = {}

CheckForbidden(id, pid) ==
  /\ Known(pid) /\ ~Permitted(id, pid)
  /\ Return(id, pid, FALSE)
  /\ quarantine_process(pid)

security_check_syscall(id, pid) ==
  /\ \/ CheckUnknown(id, pid)
     \/ CheckPermitted(id, pid)
     \/ CheckForbidden(id, pid)
  /\ UNCHANGED process_table

(* A call that process pid, or the kernel for it, may make. *)
SecurityCall(pid) ==
  \/ \E level \in Levels : security_set_process_level(pid, level)
  \/ \E count \in Counts : \E list \in SUBSET {s \in Syscalls : s < count} :
       security_set_whitelist(pid, list, count)
  \/ \E id \in 0 .. MAX_SYSCALLS : security_check_syscall(id, pid)
  \/ /\ quarantine_process(pid)
     /\ answer' = NoAnswer
     /\ UNCHANGED process_table

SecurityNext == \E pid \in Pids : SecurityCall(pid)

SecuritySpec == SecurityInit /\ [][SecurityNext]_securityVars

-----------------------------------------------------------------------------
(* Properties *)

(* A process has one entry: an update never leaves a second, stale one     *)
(* behind (kernel/security_core.c:33), and the free entries are the last.  *)
OneEntry ==
  \A i, j \in Entries :
    /\ process_table[i].pid = process_table[j].pid /\ process_table[i].pid # 0 => i = j
    /\ process_table[i].pid = 0 /\ i < j => process_table[j].pid = 0

KnownPids == {process_table[i].pid : i \in Entries} \ {0}

EntryOf(pid) == process_table[CHOOSE i \in Entries : Found(i, pid)]

(* The table as the map of rights of SecurityPolicy. *)
Policy ==
  INSTANCE SecurityPolicy WITH
    Capacity <- MAX_PROCESSES,
    DefaultLevel <- "user",
    known <- KnownPids,
    level <- [p \in Pids |-> IF Known(p) THEN EntryOf(p).level ELSE "user"],
    allowed <- [p \in Pids |-> IF Known(p) THEN EntryOf(p).whitelist ELSE {}]

(* The exception to the policy: a call of a process without an entry.  The *)
(* code refuses it and quarantines nobody (kernel/security_core.c:77).     *)
UnknownRefused ==
  \E id \in 0 .. MAX_SYSCALLS, pid \in Pids \ KnownPids :
    /\ answer' = [id |-> id, pid |-> pid, granted |-> FALSE]
    /\ quarantined' = {}
    /\ UNCHANGED process_table

(* The searched table is a map: every read sees the last write for its pid *)
(* and no other, rights are never inherited from another process, the      *)
(* first MAX_PROCESSES processes are the ones that have rights at all, and *)
(* a call outside the whitelist sends its caller to quarantine at once.    *)
(* The document says so of every process ("the rest goes to quarantine in  *)
(* Plant 4 at once", docs/OmniumX_OmniumOS.md:338-339).  Of a process that *)
(* is not in the table, because it never was registered, found the table   *)
(* full or is pid 0, it is not true of the code: what it calls is refused  *)
(* and no more.  That case, UnknownRefused, is excluded here.              *)
ImplementsPolicy ==
  Policy!Init /\ [][Policy!Next \/ UnknownRefused]_Policy!vars
=============================================================================
