-------------------------------- MODULE Zones --------------------------------
(***************************************************************************)
(* The arithmetic of the memory core (kernel/memory_core.c): alignment,    *)
(* the layout of the three zones over a range of RAM, the two bump         *)
(* allocators and the growth of FastApp into Service.  Addresses and sizes *)
(* are uintptr_t: every sum and difference is modulo W.                    *)
(***************************************************************************)
EXTENDS Integers

CONSTANTS
  W,                  \* 2^32 in the code
  PAGE_ALIGN, ALLOC_ALIGN,
  ZONE_KERNEL_MAX, ZONE_SERVICE_MIN

ASSUME ZonesAssumption ==
  /\ {W, PAGE_ALIGN, ALLOC_ALIGN} \subseteq Nat \ {0}
  /\ PAGE_ALIGN % ALLOC_ALIGN = 0
  /\ W % PAGE_ALIGN = 0
  /\ ZONE_KERNEL_MAX % PAGE_ALIGN = 0
  /\ {ZONE_KERNEL_MAX, ZONE_SERVICE_MIN} \subseteq 0 .. W - 1

Address == 0 .. W - 1

Zone == {"kernel", "app", "service"}
Allocator == [start : Address, end : Address, current : Address]

Add(x, y) == (x + y) % W
Sub(x, y) == (x - y) % W

(* v & ~(a - 1) and (v + a - 1) & ~(a - 1), for a power of two a *)
align_down(v, a) == v - (v % a)

(* Mutant: computed in a wider type than the address. *)
MutantAlignUp(v, a) == align_down(v + a - 1, a)

align_up(v, a) == align_down(Add(v, a - 1), a)

Size(a) == Sub(a.end, a.start)

-----------------------------------------------------------------------------
(* memory_init_range: the sizes of the zones, then the zones themselves.   *)

Total(start, end) == IF end > start THEN end - start ELSE 0

KernelSize(total) ==
  LET eighth == align_down(total \div 8, PAGE_ALIGN)
  IN IF eighth > ZONE_KERNEL_MAX THEN ZONE_KERNEL_MAX ELSE eighth

(* Mutant: half of the RAM, the kernel zone not taken off. *)
MutantAppSize(total) == align_down(total \div 2, PAGE_ALIGN)

AppSize(total) == align_down((total - KernelSize(total)) \div 2, PAGE_ALIGN)

ServiceSize(total) == total - KernelSize(total) - AppSize(total)

(* Mutant: FastApp may not grow. *)
MutantAppMax(total) == AppSize(total)

(* The size FastApp may grow to. *)
AppMax(total) ==
  LET service == ServiceSize(total)
  IN AppSize(total)
     + IF service > ZONE_SERVICE_MIN THEN service - ZONE_SERVICE_MIN ELSE 0

(* zone_set: Service hands memory out from its end, the others from their  *)
(* start.                                                                  *)
zone_set(t, start, end) ==
  [start |-> start, end |-> end,
   current |-> IF t = "service" THEN end ELSE start]

Layout(start, end) ==
  LET k0 == align_up(start, PAGE_ALIGN)
      top == align_down(end, PAGE_ALIGN)
      total == Total(k0, top)
      a0 == Add(k0, KernelSize(total))
      s0 == Add(a0, AppSize(total))
  IN [t \in Zone |->
        CASE t = "kernel" -> zone_set(t, k0, a0)
          [] t = "app"    -> zone_set(t, a0, s0)
          [] OTHER        -> zone_set(t, s0, top)]

LayoutAppMax(start, end) ==
  AppMax(Total(align_up(start, PAGE_ALIGN), align_down(end, PAGE_ALIGN)))

-----------------------------------------------------------------------------

(* bump_alloc_up of n bytes from allocator a: the pointer, whether the     *)
(* request fits, the allocator after it.                                   *)
UpPtr(a) == align_up(a.current, ALLOC_ALIGN)

FitsUp(a, n) == UpPtr(a) >= a.current /\ n <= Sub(a.end, UpPtr(a))

AfterUp(a, n) == [a EXCEPT !.current = Add(UpPtr(a), n)]

(* bump_alloc_down *)
DownPtr(a, n) == align_down(Sub(a.current, n), ALLOC_ALIGN)

FitsDown(a, n) == n <= Sub(a.current, a.start) /\ DownPtr(a, n) >= a.start

(* Mutant: the bytes lost to alignment stay free. *)
MutantAfterDown(a, n) == [a EXCEPT !.current = Sub(@, n)]

AfterDown(a, n) == [a EXCEPT !.current = DownPtr(a, n)]

(* Mutant: the live data of Service is not looked at. *)
MutantCanGrow(app, service, extra, app_max) ==
  /\ Size(service) >= extra
  /\ Sub(Size(service), extra) >= ZONE_SERVICE_MIN
  /\ Add(Size(app), extra) <= app_max

(* grow_fast_app_zone by extra bytes, a multiple of the page. *)
CanGrow(app, service, extra, app_max) ==
  /\ Sub(service.current, service.start) >= extra
  /\ Sub(Size(service), extra) >= ZONE_SERVICE_MIN
  /\ Add(Size(app), extra) <= app_max

(* Mutant: FastApp grows and Service does not shrink. *)
MutantMoveBoundary(zone, extra) == [zone EXCEPT !["app"].end = Add(@, extra)]

MoveBoundary(zone, extra) ==
  [zone EXCEPT !["service"].start = Add(@, extra),
               !["app"].end = Add(@, extra)]
=============================================================================
