---------------------------- MODULE MC_KernelMain ----------------------------
(* KernelMain with the memory in KB, at the scale of the code. *)
EXTENDS KernelMain

(* From 8 MB to 4 GB by steps of 7 MB + 1 KB, and around the limits. *)
MC_Rams ==
  {8 * MB + i * (7 * MB + 1) : i \in 0 .. 583}
    \union {64 * MB, 1536 * MB, 4095 * MB, 4194303, 4193279}

MC_KernelEnds == {1024 + 300, 1024 + 4099}

MC_TestedRam == 63 * MB .. 1535 * MB

Machine(end, size, boot, count, others) ==
  [kernel_end |-> end, ram |-> size, bsp_id |-> boot, cpu_count |-> count,
   present |-> others, loader |-> "ok", processes |-> {}]
Small == Machine(1324, 64 * MB, 0, 1, {})

(* Every memory on a machine of two CPUs, every set of CPUs over one size  *)
(* of memory, processes on a small machine, and a loader that is no good.  *)
MC_Machines ==
  {Machine(end, size, 0, 2, {1}) : end \in MC_KernelEnds, size \in MC_Rams}
    \union UNION {{Machine(1324, 64 * MB, boot, count, others) :
                     others \in SUBSET ((Ids \intersect 0 .. count - 1) \ {boot})} :
                  boot \in Ids, count \in 1 .. SMP_MAX_CPUS}
    \union {[Small EXCEPT !.processes = Pids], [Small EXCEPT !.loader = "other"]}

MC_Machine == {Small}
=============================================================================
