----------------------------- MODULE MemoryBoot ------------------------------
(***************************************************************************)
(* The memory core at boot: memory_init on the size of RAM the loader      *)
(* reports, then memory_test, which the boot CPU runs alone before any     *)
(* other CPU is started (kernel/central_core.c:115-119).  One caller means *)
(* that a call of memory_allocate is one step; module MemoryCore has the   *)
(* concurrent ones.                                                        *)
(*                                                                         *)
(* All quantities are in KB, with the constants of the code: every address *)
(* and size of this part of the program is a multiple of 1 KB, so aligning *)
(* to 16 bytes changes nothing and ALLOC_ALIGN is 1.                       *)
(***************************************************************************)
EXTENDS Zones

CONSTANTS
  KernelEnds,   \* where the kernel image may end (_kernel_end)
  Rams,         \* bytes_above_1mb
  TestedRam     \* the sizes the documentation vouches for

MB == 1024

LastPage == W - PAGE_ALIGN

(* The end of RAM, cut to the last page of a 32-bit address space. *)
EndOfRam(above) == IF MB + above > LastPage THEN LastPage ELSE MB + above

(* The loader has put the kernel image, and with it the rest of its last   *)
(* page, into RAM that is there.                                           *)
ASSUME MemoryBootAssumption ==
  /\ ALLOC_ALIGN = 1 /\ MB < W
  /\ KernelEnds \subseteq Address
  /\ Rams \subseteq Nat
  /\ \A k \in KernelEnds, r \in Rams :
       /\ k <= align_up(k, PAGE_ALIGN)
       /\ align_up(k, PAGE_ALIGN) <= align_down(EndOfRam(r), PAGE_ALIGN)

VARIABLES
  kernel_end, ram,   \* the machine; never assigned
  zone,              \* memory_zones
  step,              \* the next part of the boot
  small,             \* the blocks of 1 KB that memory_test has asked for
  big,               \* memory_test's large FastApp block
  failed             \* the checks of memory_test that reported an error

memoryVars == <<kernel_end, ram, zone, step, small, big, failed>>

NoBlock == [lo |-> 0, hi |-> 0]

MemoryInit ==
  /\ kernel_end \in KernelEnds
  /\ ram \in Rams
  /\ zone = [t \in Zone |-> [start |-> 0, end |-> 0, current |-> 0]]
  /\ step = "init" /\ small = 0
  /\ big = NoBlock
  /\ failed = {}

RamEnd == EndOfRam(ram)

memory_init ==
  /\ step = "init"
  /\ zone' = Layout(kernel_end, RamEnd)
  /\ step' = "kernel"
  /\ UNCHANGED <<kernel_end, ram, small, big, failed>>

-----------------------------------------------------------------------------
(* memory_allocate with nobody else running: whether n bytes of zone t are *)
(* granted by zones z, the pointer, and the zones after the call.          *)

Missing(z, n) ==
  align_up(Sub(n, Sub(z["app"].end, UpPtr(z["app"]))), PAGE_ALIGN)

Grows(z, t, n) ==
  /\ t = "app" /\ ~FitsUp(z["app"], n)
  /\ n > Sub(z["app"].end, UpPtr(z["app"]))
  /\ CanGrow(z["app"], z["service"], Missing(z, n),
             LayoutAppMax(kernel_end, RamEnd))

Grown(z, t, n) == IF Grows(z, t, n) THEN MoveBoundary(z, Missing(z, n)) ELSE z

Granted(z, t, n) ==
  /\ n # 0
  /\ IF t = "service" THEN FitsDown(z[t], n) ELSE FitsUp(Grown(z, t, n)[t], n)

Pointer(z, t, n) == IF t = "service" THEN DownPtr(z[t], n) ELSE UpPtr(z[t])

After(z, t, n) ==
  LET g == Grown(z, t, n) IN
  IF ~Granted(z, t, n) THEN (IF n = 0 THEN z ELSE g)
  ELSE [g EXCEPT ![t] = IF t = "service" THEN AfterDown(@, n) ELSE AfterUp(@, n)]

-----------------------------------------------------------------------------
(* memory_test *)

report(ok, check) == failed' = IF ok THEN failed ELSE failed \union {check}

KernelZone ==
  LET ksz == Size(zone["kernel"])
      z1 == After(zone, "kernel", 64)
      z2 == After(z1, "kernel", ksz \div 4)
  IN
  /\ step = "kernel"
  /\ report(/\ Granted(zone, "kernel", 64)
            /\ Granted(z1, "kernel", ksz \div 4)
            /\ Pointer(zone, "kernel", 64) # Pointer(z1, "kernel", ksz \div 4),
            "kernel allocations")
  /\ zone' = z2
  /\ step' = "oversize"
  /\ UNCHANGED <<kernel_end, ram, small, big>>

Oversize ==
  LET ksz == Size(zone["kernel"]) IN
  /\ step = "oversize"
  /\ report(~Granted(zone, "kernel", ksz), "kernel oversize")
  /\ zone' = After(zone, "kernel", ksz)
  /\ step' = "small"
  /\ UNCHANGED <<kernel_end, ram, small, big>>

(* Eight blocks of 1 KB. *)
SmallBlock ==
  /\ step = "small"
  /\ report(Granted(zone, "app", 1), "small allocations")
  /\ zone' = After(zone, "app", 1)
  /\ small' = small + 1
  /\ step' = IF small' = 8 THEN "big" ELSE "small"
  /\ UNCHANGED <<kernel_end, ram, big>>

(* 1 MB more than FastApp has free. *)
BigBlock ==
  LET n == Add(Sub(zone["app"].end, zone["app"].current), MB)
      z == After(zone, "app", n)
  IN
  /\ step = "big"
  /\ report(Granted(zone, "app", n) /\ Size(z["app"]) > Size(zone["app"]),
            "FastApp grows")
  /\ big' = IF Granted(zone, "app", n)
              THEN [lo |-> Pointer(zone, "app", n), hi |-> Add(Pointer(zone, "app", n), n)]
              ELSE NoBlock
  /\ zone' = z
  /\ step' = "service"
  /\ UNCHANGED <<kernel_end, ram, small>>

ServiceBlock ==
  /\ step = "service"
  /\ report(/\ Granted(zone, "service", 4)
            /\ big # NoBlock
            /\ Pointer(zone, "service", 4) >= big.hi,
            "Service does not overlap")
  /\ zone' = After(zone, "service", 4)
  /\ step' = "done"
  /\ UNCHANGED <<kernel_end, ram, small, big>>

memory_test ==
  KernelZone \/ Oversize \/ SmallBlock \/ BigBlock \/ ServiceBlock

memory_boot == memory_init \/ memory_test

-----------------------------------------------------------------------------
(* Properties *)

(* The self test passes on every machine the documentation vouches for     *)
(* (docs/OmniumX_OmniumOS.md:407, 64 MB to 1.5 GB), wherever the image     *)
(* ends.                                                                   *)
TestPasses == ram \in TestedRam => failed = {}

(* Every zone lies between the end of the kernel image and the end of RAM. *)
ZonesInRam ==
  step # "init" =>
    \A t \in Zone :
      /\ kernel_end <= zone[t].start /\ zone[t].start <= zone[t].end
      /\ zone[t].end <= MB + ram
      /\ zone[t].current \in zone[t].start .. zone[t].end

(* The zones tile the whole pages between the two, FastApp starts no       *)
(* larger than Service, and the limit FastApp may grow to leaves Service   *)
(* exactly its minimum (memory_core.c:87).                                 *)
RangeTiled ==
  step = "kernel" =>
    /\ zone["kernel"].start < kernel_end + PAGE_ALIGN
    /\ zone["kernel"].end = zone["app"].start
    /\ zone["app"].end = zone["service"].start
    /\ zone["service"].end > RamEnd - PAGE_ALIGN
    /\ Size(zone["app"]) <= Size(zone["service"])
    /\ LET grown == LayoutAppMax(kernel_end, RamEnd) - Size(zone["app"]) IN
         grown > 0 => Size(zone["service"]) - grown = ZONE_SERVICE_MIN

(* Memory that is not there is never laid out, also where there is more    *)
(* than addresses reach (memory_core.c:8-9, 102), and none that is there   *)
(* is wasted by the layout or given to two zones.                          *)
ZonesFillRam == ZonesInRam /\ RangeTiled
=============================================================================
