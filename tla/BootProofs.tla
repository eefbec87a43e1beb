------------------------------ MODULE BootProofs ------------------------------
(* Proofs about the parts that kernel_main starts, each by itself: the       *)
(* memory core on any machine, the other CPUs for any number of CPUs and of  *)
(* stacks when every CPU that exists answers in time, and the security core  *)
(* for any size of the table, any processes and any list lengths.            *)
EXTENDS MemoryBoot, SmpBoot, SecurityCore, ZonesProofs, FunctionTheorems, FiniteSetTheorems,
        TLAPS

-----------------------------------------------------------------------------
(* The memory core at boot.                                                 *)

LEMMA BootSizes ==
  /\ MB \in Address /\ 64 \in Address /\ 4 \in Address /\ 1 \in Address /\ 0 \in Address
  /\ \A x \in Int : Aligned(x)
BY MemoryBootAssumption, Alignments DEF MB, Address, Aligned

LEMMA MachineUsable ==
  ASSUME kernel_end \in KernelEnds, ram \in Rams
  PROVE  Usable(kernel_end, RamEnd) /\ RamEnd <= MB + ram /\ ram \in Nat
<1>1. /\ kernel_end \in Address /\ ram \in Nat
      /\ kernel_end <= align_up(kernel_end, PAGE_ALIGN)
      /\ align_up(kernel_end, PAGE_ALIGN) <= align_down(RamEnd, PAGE_ALIGN)
  BY MemoryBootAssumption DEF RamEnd
<1>2. W \in Nat \ {0} /\ PAGE_ALIGN \in Nat \ {0} /\ PAGE_ALIGN <= W
  <2>1. W \in Nat \ {0} /\ PAGE_ALIGN \in Nat \ {0} /\ W % PAGE_ALIGN = 0
    BY Alignments
  <2>2. W \in Int /\ 0 \in Int /\ 0 % PAGE_ALIGN = 0
    BY <2>1
  <2>3. 0 + PAGE_ALIGN <= W
    BY <2>1, <2>2, MultiplesApart
  <2> QED
    BY <2>1, <2>3
<1>3. RamEnd \in Address /\ RamEnd <= MB + ram
  BY <1>1, <1>2 DEF RamEnd, EndOfRam, LastPage, MB, Address
<1> QED
  BY <1>1, <1>3 DEF Usable

(* What a call of memory_allocate leaves of the zones.                      *)
LEMMA GrownTiles ==
  ASSUME NEW z, Tiles(z), NEW t \in Zone, NEW n \in Address
  PROVE  LET g == Grown(z, t, n) IN
         /\ Tiles(g) /\ g["kernel"] = z["kernel"] /\ g["service"].end = z["service"].end
<1> DEFINE more == align_up(Sub(n, Sub(z["app"].end, UpPtr(z["app"]))), PAGE_ALIGN)
<1>1. z["app"] \in Allocator /\ n \in Int /\ z["app"].end \in Int
  BY Ints DEF Tiles, Zone
<1>2. UpPtr(z["app"]) \in Address
  <2>1. z["app"].current <= z["app"].end /\ Aligned(z["app"].end)
    BY DEF Tiles, Zone
  <2> QED
    BY <1>1, <2>1, FreeUp
<1>3. Sub(z["app"].end, UpPtr(z["app"])) \in Int
  <2>1. UpPtr(z["app"]) \in Int
    BY <1>2, Ints
  <2>2. Sub(z["app"].end, UpPtr(z["app"])) \in Address
    BY <1>1, <2>1, Wraps
  <2> QED
    BY <2>2, Ints
<1>4. Sub(n, Sub(z["app"].end, UpPtr(z["app"]))) \in Address
  BY <1>1, <1>3, Wraps
<1>5. more \in Address /\ Aligned(more)
  <2>1. more \in Address
    BY <1>4, AlignUp, Alignments
  <2> QED
    BY <2>1, BootSizes, Ints
<1>6. Missing(z, n) = more
  BY DEF Missing
<1>7. CASE Grows(z, t, n)
  <2>1. CanGrow(z["app"], z["service"], more, LayoutAppMax(kernel_end, RamEnd))
    BY <1>6, <1>7 DEF Grows
  <2>2. Grown(z, t, n) = MoveBoundary(z, more)
    BY <1>6, <1>7 DEF Grown
  <2> HIDE DEF more
  <2> QED
    BY <1>5, <2>1, <2>2, Moved
<1>8. CASE ~Grows(z, t, n)
  BY <1>8 DEF Grown
<1> QED
  BY <1>7, <1>8

LEMMA AfterTiles ==
  ASSUME NEW z, Tiles(z), NEW t \in Zone, NEW n \in Address
  PROVE  LET a == After(z, t, n) IN
         /\ Tiles(a) /\ a["kernel"].start = z["kernel"].start
         /\ a["service"].end = z["service"].end
<1> DEFINE g == Grown(z, t, n)
           u == g[t]
           v == IF t = "service" THEN AfterDown(u, n) ELSE AfterUp(u, n)
<1>1. /\ Tiles(g) /\ g["kernel"] = z["kernel"] /\ g["service"].end = z["service"].end
  BY GrownTiles
<1>2. CASE ~Granted(z, t, n)
  BY <1>1, <1>2 DEF After
<1>3. CASE Granted(z, t, n)
  <2>1. After(z, t, n) = [g EXCEPT ![t] = v]
    BY <1>3 DEF After
  <2>2. t = "service" => g = z
    BY DEF Grown, Grows
  <2>3. IF t = "service" THEN FitsDown(u, n) ELSE FitsUp(u, n)
    BY <1>3, <2>2 DEF Granted
  <2> HIDE DEF g
  <2>4. /\ u \in Allocator /\ u.start <= u.current /\ u.current <= u.end /\ Aligned(u.end)
        /\ g \in [Zone -> Allocator]
    BY <1>1 DEF Tiles
  <2>5. /\ v \in Allocator /\ v.start = u.start /\ v.end = u.end
        /\ v.start <= v.current /\ v.current <= v.end
    <3>0. /\ u.start \in Int /\ u.current \in Int /\ u.end \in Int /\ n \in Int /\ 0 <= n
      BY <2>4, Ints
    <3>1. CASE t = "service"
      <4>1. /\ DownPtr(u, n) \in Address /\ u.start <= DownPtr(u, n)
            /\ DownPtr(u, n) + n <= u.current
            /\ v = [u EXCEPT !.current = DownPtr(u, n)]
        BY <2>3, <2>4, <3>1, ServedDown
      <4>2. DownPtr(u, n) \in Int
        BY <4>1, Ints
      <4>3. DownPtr(u, n) <= u.end
        BY <2>4, <3>0, <4>1, <4>2
      <4> QED
        BY <2>4, <4>1, <4>3 DEF Allocator
    <3>2. CASE t # "service"
      <4>1. /\ UpPtr(u) \in Address /\ u.current <= UpPtr(u) /\ UpPtr(u) + n <= u.end
            /\ UpPtr(u) + n \in Address
            /\ v = [u EXCEPT !.current = UpPtr(u) + n]
        BY <2>3, <2>4, <3>2, ServedUp
      <4>2. UpPtr(u) \in Int
        BY <4>1, Ints
      <4>3. u.start <= UpPtr(u) + n
        BY <2>4, <3>0, <4>1, <4>2
      <4> QED
        BY <2>4, <4>1, <4>3 DEF Allocator
    <3> QED
      BY <3>1, <3>2
  <2> HIDE DEF v
  <2>6. [g EXCEPT ![t] = v] \in [Zone -> Allocator]
    BY <2>4, <2>5
  <2>7. \A w \in Zone : /\ [g EXCEPT ![t] = v][w].start = g[w].start
                        /\ [g EXCEPT ![t] = v][w].end = g[w].end
                        /\ [g EXCEPT ![t] = v][w].start <= [g EXCEPT ![t] = v][w].current
                        /\ [g EXCEPT ![t] = v][w].current <= [g EXCEPT ![t] = v][w].end
    BY <1>1, <2>4, <2>5 DEF Tiles
  <2>8. Tiles([g EXCEPT ![t] = v])
    BY <1>1, <2>6, <2>7 DEF Tiles, Zone
  <2> QED
    BY <1>1, <2>1, <2>7, <2>8 DEF Zone
<1> QED
  BY <1>2, <1>3

-----------------------------------------------------------------------------
(* The zones lie in RAM from memory_init on.                                *)
LaidOutInv ==
  /\ kernel_end \in KernelEnds /\ ram \in Rams
  /\ step \in {"init", "kernel", "oversize", "small", "big", "service", "done"}
  /\ step # "init" =>
       /\ Tiles(zone)
       /\ zone["kernel"].start = align_up(kernel_end, PAGE_ALIGN)
       /\ zone["service"].end = align_down(RamEnd, PAGE_ALIGN)
  /\ step = "kernel" => zone = Layout(kernel_end, RamEnd)

LEMMA LaidOutInit == MemoryInit => LaidOutInv
BY DEF MemoryInit, LaidOutInv

(* A call of memory_test asks for an address-sized number of bytes.         *)
LEMMA SizesAsked ==
  ASSUME NEW z, Tiles(z)
  PROVE  /\ \A t \in Zone : Size(z[t]) \in Address /\ Size(z[t]) \div 4 \in Address
         /\ Add(Sub(z["app"].end, z["app"].current), MB) \in Address
<1>1. \A t \in Zone : z[t].start \in Int /\ z[t].end \in Int /\ z[t].current \in Int
  BY Ints DEF Tiles
<1>2. \A t \in Zone : Size(z[t]) \in Address
  BY <1>1, Wraps DEF Size
<1>3. \A x \in Address : x \div 4 \in Address
  <2>1. \A x \in Address : x \in Nat
    BY DEF Address
  <2>2. \A x \in Address : x \div 4 \in Nat /\ x \div 4 <= x
    BY <2>1, Halves
  <2> QED
    BY <2>1, <2>2, Alignments DEF Address
<1>4. Sub(z["app"].end, z["app"].current) \in Int
  <2>1. Sub(z["app"].end, z["app"].current) \in Address
    BY <1>1, Wraps DEF Zone
  <2> QED
    BY <2>1, Ints
<1>5. Add(Sub(z["app"].end, z["app"].current), MB) \in Address
  BY <1>4, Wraps DEF MB
<1> QED
  BY <1>2, <1>3, <1>5

LEMMA LaidOutStep == LaidOutInv /\ [memory_boot]_memoryVars => LaidOutInv'
<1> SUFFICES ASSUME LaidOutInv, [memory_boot]_memoryVars PROVE LaidOutInv'
  OBVIOUS
<1>1. CASE UNCHANGED memoryVars
  BY <1>1 DEF memoryVars, LaidOutInv, RamEnd
<1>2. CASE memory_init
  <2>1. /\ zone' = Layout(kernel_end, RamEnd) /\ step' = "kernel"
        /\ UNCHANGED <<kernel_end, ram>>
    BY <1>2 DEF memory_init
  <2>2. RamEnd' = RamEnd
    BY <2>1 DEF RamEnd
  <2>3. Usable(kernel_end, RamEnd)
    BY MachineUsable DEF LaidOutInv
  <2>4. /\ Tiles(zone') /\ zone'["kernel"].start = align_up(kernel_end, PAGE_ALIGN)
        /\ zone'["service"].end = align_down(RamEnd, PAGE_ALIGN)
    BY <2>1, <2>3, LayoutTiles
  <2> QED
    BY <2>1, <2>2, <2>4 DEF LaidOutInv
<1>3. CASE memory_test
  <2>1. step # "init" /\ Tiles(zone)
    BY <1>3 DEF LaidOutInv, memory_test, KernelZone, Oversize, SmallBlock, BigBlock, ServiceBlock
  <2>2. /\ UNCHANGED <<kernel_end, ram>>
        /\ step' \in {"oversize", "small", "big", "service", "done"}
    BY <1>3 DEF memory_test, KernelZone, Oversize, SmallBlock, BigBlock, ServiceBlock
  <2>3. \/ \E t \in Zone, n \in Address : zone' = After(zone, t, n)
        \/ \E n \in Address : zone' = After(After(zone, "kernel", 64), "kernel", n)
    <3> USE DEF Zone
    <3>1. CASE KernelZone
      BY <2>1, <3>1, SizesAsked DEF KernelZone
    <3>2. CASE Oversize
      BY <2>1, <3>2, SizesAsked DEF Oversize
    <3>3. CASE SmallBlock
      BY <3>3, BootSizes DEF SmallBlock
    <3>4. CASE BigBlock
      BY <2>1, <3>4, SizesAsked DEF BigBlock
    <3>5. CASE ServiceBlock
      BY <3>5, BootSizes DEF ServiceBlock
    <3> QED
      BY <1>3, <3>1, <3>2, <3>3, <3>4, <3>5 DEF memory_test
  <2>4. /\ Tiles(zone') /\ zone'["kernel"].start = zone["kernel"].start
        /\ zone'["service"].end = zone["service"].end
    <3>1. ASSUME NEW t \in Zone, NEW n \in Address, zone' = After(zone, t, n)
          PROVE  /\ Tiles(zone') /\ zone'["kernel"].start = zone["kernel"].start
                 /\ zone'["service"].end = zone["service"].end
      BY <2>1, <3>1, AfterTiles
    <3>2. ASSUME NEW n \in Address, zone' = After(After(zone, "kernel", 64), "kernel", n)
          PROVE  /\ Tiles(zone') /\ zone'["kernel"].start = zone["kernel"].start
                 /\ zone'["service"].end = zone["service"].end
      <4> DEFINE z == After(zone, "kernel", 64)
      <4>1. /\ Tiles(z) /\ z["kernel"].start = zone["kernel"].start
            /\ z["service"].end = zone["service"].end
        BY <2>1, AfterTiles, BootSizes DEF Zone
      <4> HIDE DEF z
      <4>2. zone' = After(z, "kernel", n)
        BY <3>2 DEF z
      <4> QED
        BY <4>1, <4>2, AfterTiles DEF Zone
    <3> QED
      BY <2>3, <3>1, <3>2
  <2>5. RamEnd' = RamEnd
    BY <2>2 DEF RamEnd
  <2> QED
    BY <2>1, <2>2, <2>4, <2>5 DEF LaidOutInv
<1> QED
  BY <1>1, <1>2, <1>3 DEF memory_boot

LEMMA LaidOutInRam == LaidOutInv => ZonesInRam
<1> SUFFICES ASSUME LaidOutInv, step # "init"
             PROVE  \A t \in Zone :
                      /\ kernel_end <= zone[t].start /\ zone[t].start <= zone[t].end
                      /\ zone[t].end <= MB + ram
                      /\ zone[t].current \in zone[t].start .. zone[t].end
  BY DEF ZonesInRam
<1>1. /\ Tiles(zone) /\ zone["kernel"].start = align_up(kernel_end, PAGE_ALIGN)
      /\ zone["service"].end = align_down(RamEnd, PAGE_ALIGN)
  BY DEF LaidOutInv
<1>2. Usable(kernel_end, RamEnd) /\ RamEnd <= MB + ram /\ ram \in Nat
  BY MachineUsable DEF LaidOutInv
<1>3. kernel_end \in Int /\ RamEnd \in Int /\ RamEnd \in Nat
  BY <1>2 DEF Usable, Address
<1>4. kernel_end <= zone["kernel"].start /\ zone["service"].end <= RamEnd
  <2>1. align_down(RamEnd, PAGE_ALIGN) <= RamEnd
    BY <1>3, AlignDown, Alignments
  <2> QED
    BY <1>1, <1>2, <2>1 DEF Usable
<1>5. \A t \in Zone : /\ zone[t].start \in Int /\ zone[t].end \in Int /\ zone[t].current \in Int
                      /\ zone[t].start <= zone[t].current /\ zone[t].current <= zone[t].end
  BY <1>1, Ints DEF Tiles
<1>6. zone["kernel"].end = zone["app"].start /\ zone["app"].end = zone["service"].start
  BY <1>1 DEF Tiles
<1>7. \A t \in Zone : zone[t].start <= zone[t].end
  BY <1>5
<1>8. MB + ram \in Int
  BY <1>2 DEF MB
<1>9. \A t \in Zone : kernel_end <= zone[t].start /\ zone[t].end <= MB + ram
  BY <1>2, <1>3, <1>4, <1>5, <1>6, <1>7, <1>8 DEF Zone
<1> QED
  BY <1>5, <1>7, <1>9

LEMMA LaidOutTiled == LaidOutInv => RangeTiled
<1> SUFFICES ASSUME LaidOutInv, step = "kernel"
             PROVE  /\ zone["kernel"].start < kernel_end + PAGE_ALIGN
                    /\ zone["kernel"].end = zone["app"].start
                    /\ zone["app"].end = zone["service"].start
                    /\ zone["service"].end > RamEnd - PAGE_ALIGN
                    /\ Size(zone["app"]) <= Size(zone["service"])
                    /\ LET grown == LayoutAppMax(kernel_end, RamEnd) - Size(zone["app"]) IN
                         grown > 0 => Size(zone["service"]) - grown = ZONE_SERVICE_MIN
  BY DEF RangeTiled
<1> DEFINE total == Total(align_up(kernel_end, PAGE_ALIGN), align_down(RamEnd, PAGE_ALIGN))
           A == AppSize(total)
           S == ServiceSize(total)
<1>1. zone = Layout(kernel_end, RamEnd) /\ Usable(kernel_end, RamEnd)
  BY MachineUsable DEF LaidOutInv
<1>2. /\ Tiles(zone) /\ total \in Nat
      /\ zone["kernel"].start = align_up(kernel_end, PAGE_ALIGN)
      /\ zone["service"].end = align_down(RamEnd, PAGE_ALIGN)
      /\ Size(zone["app"]) = A /\ Size(zone["service"]) = S
  BY <1>1, LayoutTiles
<1>3. LayoutAppMax(kernel_end, RamEnd) =
        A + IF S > ZONE_SERVICE_MIN THEN S - ZONE_SERVICE_MIN ELSE 0
  BY DEF LayoutAppMax, AppMax
<1> HIDE DEF total
<1>4. A \in Int /\ S \in Int /\ A <= S /\ ZONE_SERVICE_MIN \in Int
  <2>1. A \in Nat /\ A <= S /\ KernelSize(total) \in Nat /\ S = total - KernelSize(total) - A
    BY <1>2, Sizes
  <2> QED
    BY <1>2, <2>1, Alignments DEF Address
<1>5. zone["kernel"].start < kernel_end + PAGE_ALIGN
  <2>1. kernel_end \in Address /\ kernel_end <= align_up(kernel_end, PAGE_ALIGN)
    BY <1>1 DEF Usable
  <2>2. kernel_end \in Nat /\ PAGE_ALIGN \in Nat \ {0} /\ W \in Nat \ {0}
    BY <2>1, Alignments DEF Address
  <2>3. Add(kernel_end, PAGE_ALIGN - 1) \in Nat
    BY <2>2, Wraps DEF Address
  <2>4. align_up(kernel_end, PAGE_ALIGN) <= Add(kernel_end, PAGE_ALIGN - 1)
    BY <2>2, <2>3, AlignDown DEF align_up
  <2>5. Add(kernel_end, PAGE_ALIGN - 1) <= kernel_end + (PAGE_ALIGN - 1)
    BY <2>2 DEF Add
  <2>6. align_up(kernel_end, PAGE_ALIGN) \in Int
    BY <2>1, AlignUp, Alignments, Ints
  <2> QED
    BY <1>2, <2>2, <2>3, <2>4, <2>5, <2>6
<1>6. zone["service"].end > RamEnd - PAGE_ALIGN
  <2>1. RamEnd \in Nat /\ PAGE_ALIGN \in Nat \ {0}
    BY <1>1, Alignments DEF Usable, Address
  <2>2. align_down(RamEnd, PAGE_ALIGN) \in Nat /\ RamEnd < align_down(RamEnd, PAGE_ALIGN) + PAGE_ALIGN
    BY <2>1, AlignDown
  <2> QED
    BY <1>2, <2>1, <2>2
<1>7. zone["kernel"].end = zone["app"].start /\ zone["app"].end = zone["service"].start
  BY <1>2 DEF Tiles
<1> HIDE DEF A, S
<1>8. LET grown == LayoutAppMax(kernel_end, RamEnd) - Size(zone["app"]) IN
        grown > 0 => Size(zone["service"]) - grown = ZONE_SERVICE_MIN
  BY <1>2, <1>3, <1>4
<1> QED
  BY <1>2, <1>4, <1>5, <1>6, <1>7, <1>8

-----------------------------------------------------------------------------
(* The self test of the memory passes.                                      *)

(* The constants of the code, in KB, an image that ends below 48 MB, and    *)
(* 64 MB of RAM or more (63 MB above the first).                            *)
CodeConstants ==
  /\ W = 4194304 /\ PAGE_ALIGN = 4
  /\ ZONE_KERNEL_MAX = 131072 /\ ZONE_SERVICE_MIN = 4096
  /\ \A k \in KernelEnds : k <= 48 * MB
  /\ \A r \in TestedRam : 63 * MB <= r

(* The zones are large enough for what the test asks of them.               *)
LEMMA SizesAtLeast ==
  ASSUME CodeConstants, NEW total \in Nat, 12288 <= total
  PROVE  /\ 86 <= KernelSize(total) /\ 9 <= AppSize(total)
         /\ 5120 <= ServiceSize(total)
<1>1. PAGE_ALIGN = 4 /\ ZONE_KERNEL_MAX = 131072
  BY SMT DEF CodeConstants
<1> DEFINE e == total \div 8
           K == KernelSize(total)
           h == (total - K) \div 2
<1>2. e \in Nat /\ 1536 <= e /\ 8 * e <= total
  BY SMT
<1>3. align_down(e, 4) \in Nat /\ align_down(e, 4) <= e /\ e < align_down(e, 4) + 4
  <2> HIDE DEF e
  <2>1. 4 \in Nat \ {0}
    BY SMT
  <2> QED
    BY SMT, <1>2, <2>1, AlignDown
<1>4. K = IF align_down(e, 4) > 131072 THEN 131072 ELSE align_down(e, 4)
  BY SMT, <1>1 DEF KernelSize
<1> HIDE DEF e, K
<1>5. K \in Nat /\ 1530 <= K /\ 8 * K <= total
  BY SMT, <1>2, <1>3, <1>4
<1>6. h \in Nat /\ 5376 <= h /\ 2 * h <= total - K
  BY SMT, <1>5
<1>7. align_down(h, 4) \in Nat /\ align_down(h, 4) <= h /\ h < align_down(h, 4) + 4
  <2> HIDE DEF h
  <2>1. 4 \in Nat \ {0}
    BY SMT
  <2> QED
    BY SMT, <1>6, <2>1, AlignDown
<1>8. AppSize(total) = align_down(h, 4) /\ ServiceSize(total) = total - K - AppSize(total)
  BY SMT, <1>1 DEF AppSize, ServiceSize, K
<1> HIDE DEF h
<1> QED
  BY SMT, <1>5, <1>6, <1>7, <1>8 DEF K

(* Nothing is lost to the alignment of a block.                             *)
LEMMA PointerIsCurrent == ASSUME NEW a \in Allocator PROVE UpPtr(a) = a.current
<1>1. a.current \in Nat /\ a.current < W /\ W \in Nat /\ ALLOC_ALIGN = 1
  BY MemoryBootAssumption, Alignments DEF Allocator, Address
<1>2. Add(a.current, 1 - 1) = a.current
  BY <1>1 DEF Add
<1>3. a.current % 1 = 0
  BY <1>1
<1> QED
  BY <1>1, <1>2, <1>3 DEF UpPtr, align_up, align_down

LEMMA FitsUpFree ==
  ASSUME NEW z, Tiles(z), NEW t \in Zone, NEW n \in Address
  PROVE  /\ UpPtr(z[t]) = z[t].current
         /\ Sub(z[t].end, z[t].current) = z[t].end - z[t].current
         /\ FitsUp(z[t], n) <=> n <= z[t].end - z[t].current
<1>1. z[t] \in Allocator /\ z[t].current <= z[t].end /\ Aligned(z[t].end)
  BY DEF Tiles
<1> QED
  BY <1>1, FreeUp, PointerIsCurrent

(* A request that fits is granted by moving the free pointer alone.         *)
LEMMA FitsThenGranted ==
  ASSUME NEW z, Tiles(z), NEW t \in {"kernel", "app"}, NEW n \in Address, n # 0,
         n <= z[t].end - z[t].current
  PROVE  /\ Granted(z, t, n) /\ Pointer(z, t, n) = z[t].current
         /\ After(z, t, n) = [z EXCEPT ![t] = [@ EXCEPT !.current = z[t].current + n]]
<1>1. t \in Zone /\ t # "service" /\ z[t] \in Allocator /\ z \in [Zone -> Allocator]
  BY DEF Zone, Tiles
<1>2. FitsUp(z[t], n) /\ UpPtr(z[t]) = z[t].current
  BY <1>1, FitsUpFree
<1>3. Grown(z, t, n) = z
  BY <1>2 DEF Grown, Grows
<1>4. Granted(z, t, n)
  BY <1>1, <1>2, <1>3 DEF Granted
<1>5. AfterUp(z[t], n) = [z[t] EXCEPT !.current = UpPtr(z[t]) + n]
  BY <1>1, <1>2, ServedUp DEF Tiles
<1>6. After(z, t, n) = [z EXCEPT ![t] = AfterUp(z[t], n)]
  BY <1>1, <1>3, <1>4 DEF After
<1> QED
  BY <1>1, <1>2, <1>4, <1>5, <1>6 DEF Pointer

(* What memory_test finds of the zones at each step, on a machine that the  *)
(* documentation vouches for.                                               *)
Length(z, t) == z[t].end - z[t].start

Unused(z, t) == z[t].current = IF t = "service" THEN z[t].end ELSE z[t].start

AppAsLaidOut(z, used, limit) ==
  /\ z["app"].current = z["app"].start + used /\ 9 <= Length(z, "app")
  /\ Unused(z, "service") /\ 5120 <= Length(z, "service")
  /\ limit = Length(z, "app") + Length(z, "service") - 4096

Limit == LayoutAppMax(kernel_end, RamEnd)

TestInv ==
  ram \in TestedRam =>
    /\ failed = {}
    /\ step = "kernel" => Unused(zone, "kernel") /\ 86 <= Length(zone, "kernel") /\ AppAsLaidOut(zone, 0, Limit)
    /\ step = "oversize" =>
         zone["kernel"].current > zone["kernel"].start /\ 86 <= Length(zone, "kernel")
           /\ AppAsLaidOut(zone, 0, Limit)
    /\ step = "small" => small \in 0 .. 7 /\ AppAsLaidOut(zone, small, Limit)
    /\ step = "big" => AppAsLaidOut(zone, 8, Limit)
    /\ step = "service" =>
         /\ Unused(zone, "service") /\ 4096 <= Length(zone, "service")
         /\ big # NoBlock /\ big.hi = zone["service"].start
    /\ small \in 0 .. 8 /\ (step \in {"init", "kernel", "oversize"} => small = 0)

LEMMA TestInvInit == MemoryInit => TestInv
BY DEF MemoryInit, TestInv

(* In zones that tile their range no difference wraps.                      *)
LEMMA TilesSize ==
  ASSUME NEW z, Tiles(z), NEW t \in Zone
  PROVE  /\ z[t].start \in Address /\ z[t].start \in Nat
         /\ z[t].end \in Address /\ z[t].end \in Nat
         /\ z[t].current \in Address /\ z[t].current \in Nat
         /\ z[t].start <= z[t].current /\ z[t].current <= z[t].end
         /\ Size(z[t]) = z[t].end - z[t].start /\ Size(z[t]) \in Address
<1>1. Address \subseteq Nat
  BY DEF Address
<1>2. z[t] \in Allocator /\ z[t].start <= z[t].current /\ z[t].current <= z[t].end
  BY DEF Tiles
<1>3. /\ z[t].start \in Address /\ z[t].end \in Address /\ z[t].current \in Address
      /\ z[t].start \in Nat /\ z[t].end \in Nat /\ z[t].current \in Nat
  BY <1>1, <1>2 DEF Allocator
<1>4. z[t].start <= z[t].end
  BY <1>2, <1>3
<1>5. Size(z[t]) = z[t].end - z[t].start /\ Size(z[t]) \in Address
  BY <1>3, <1>4, Wraps DEF Size
<1> QED
  BY <1>2, <1>3, <1>5

LEMMA TestLayout == ASSUME CodeConstants, LaidOutInv, TestInv, memory_init PROVE TestInv'
<1> SUFFICES ASSUME ram \in TestedRam PROVE TestInv'
  BY SMT DEF memory_init, TestInv
<1> DEFINE total == Total(align_up(kernel_end, PAGE_ALIGN), align_down(RamEnd, PAGE_ALIGN))
<1>1. /\ zone' = Layout(kernel_end, RamEnd) /\ step = "init" /\ step' = "kernel"
      /\ UNCHANGED <<kernel_end, ram, small, big, failed>>
  BY SMT DEF memory_init
<1>2. Usable(kernel_end, RamEnd)
  BY SMT, MachineUsable DEF LaidOutInv
<1>3. 12288 <= total /\ total \in Nat
  <2>1. kernel_end \in KernelEnds /\ ram \in TestedRam
    BY DEF LaidOutInv
  <2>2. kernel_end <= 48 * MB /\ 63 * MB <= ram /\ ram \in Nat
    BY <2>1, MachineUsable DEF CodeConstants, LaidOutInv
  <2>3. kernel_end \in Nat /\ RamEnd \in Nat
    BY <1>2 DEF Usable, Address
  <2>4. RamEnd = IF MB + ram > LastPage THEN LastPage ELSE MB + ram
    BY DEF RamEnd, EndOfRam
  <2>5. LastPage = 4194300
    BY SMT DEF LastPage, CodeConstants
  <2>6. 65536 <= RamEnd
    BY SMT, <2>2, <2>4, <2>5 DEF MB
  <2>7. PAGE_ALIGN = 4 /\ W = 4194304
    BY SMT DEF CodeConstants
  <2>8. /\ align_down(RamEnd, PAGE_ALIGN) \in Nat
        /\ RamEnd < align_down(RamEnd, PAGE_ALIGN) + PAGE_ALIGN
    BY <2>3, AlignDown, Alignments
  <2>9. align_up(kernel_end, PAGE_ALIGN) \in Nat /\ align_up(kernel_end, PAGE_ALIGN) <= 49155
    <3> DEFINE v == Add(kernel_end, PAGE_ALIGN - 1)
    <3>1. v = kernel_end + 3
      BY SMT, <2>2, <2>3, <2>7 DEF Add, MB
    <3>2. v \in Nat /\ v <= 49155
      BY SMT, <2>2, <2>3, <3>1 DEF MB
    <3>3. align_up(kernel_end, PAGE_ALIGN) = align_down(v, PAGE_ALIGN)
      BY DEF align_up
    <3> HIDE DEF v
    <3>4. v \in Nat
      BY <3>2
    <3>5. align_down(v, PAGE_ALIGN) \in Nat /\ align_down(v, PAGE_ALIGN) <= v
      BY <3>4, AlignDown, Alignments
    <3> QED
      BY SMT, <3>2, <3>3, <3>5
  <2> QED
    BY SMT, <2>3, <2>6, <2>7, <2>8, <2>9 DEF Total
<1>4. /\ Tiles(zone')
      /\ zone'["kernel"].current = zone'["kernel"].start
      /\ zone'["app"].current = zone'["app"].start
      /\ zone'["service"].current = zone'["service"].end
      /\ Size(zone'["kernel"]) = KernelSize(total)
      /\ Size(zone'["app"]) = AppSize(total)
      /\ Size(zone'["service"]) = ServiceSize(total)
  BY SMT, <1>1, <1>2, LayoutTiles
<1>5. LayoutAppMax(kernel_end, RamEnd) =
        AppSize(total) + IF ServiceSize(total) > ZONE_SERVICE_MIN
                           THEN ServiceSize(total) - ZONE_SERVICE_MIN ELSE 0
  BY SMT DEF LayoutAppMax, AppMax
<1> HIDE DEF total
<1>6. /\ 86 <= KernelSize(total) /\ 9 <= AppSize(total) /\ 5120 <= ServiceSize(total)
      /\ AppSize(total) \in Int /\ ServiceSize(total) \in Int /\ ZONE_SERVICE_MIN = 4096
  <2>1. 86 <= KernelSize(total) /\ 9 <= AppSize(total) /\ 5120 <= ServiceSize(total)
    BY SMT, <1>3, SizesAtLeast
  <2>2. AppSize(total) \in Nat /\ KernelSize(total) \in Nat
        /\ ServiceSize(total) = total - KernelSize(total) - AppSize(total)
    BY SMT, <1>3, Sizes
  <2> QED
    BY SMT, <1>3, <2>1, <2>2 DEF CodeConstants
<1>7. \A t \in Zone : Size(zone'[t]) = zone'[t].end - zone'[t].start
  <2>1. LaidOutInv'
    BY SMT, LaidOutStep DEF memory_boot
  <2> QED
    BY SMT, <1>1, <2>1, <1>4, TilesSize
<1>8. RamEnd' = RamEnd /\ Limit' = Limit
  BY <1>1 DEF RamEnd, Limit
<1>9. failed = {} /\ small = 0
  BY SMT, <1>1 DEF TestInv
<1>10. /\ 86 <= zone'["kernel"].end - zone'["kernel"].start
       /\ 9 <= zone'["app"].end - zone'["app"].start
       /\ 5120 <= zone'["service"].end - zone'["service"].start
       /\ LayoutAppMax(kernel_end, RamEnd) =
            (zone'["app"].end - zone'["app"].start)
              + (zone'["service"].end - zone'["service"].start) - 4096
       /\ zone'["app"].current = zone'["app"].start + 0
  <2>1. zone'["app"].start \in Int
    BY SMT, <1>4, Ints DEF Tiles, Zone
  <2> QED
    BY SMT, <1>4, <1>5, <1>6, <1>7, <2>1 DEF Zone
<1> QED
  BY SMT, <1>1, <1>4, <1>8, <1>9, <1>10 DEF TestInv, AppAsLaidOut, Unused, Length, Limit

LEMMA TestKernel == ASSUME LaidOutInv, TestInv, KernelZone PROVE TestInv'
<1> SUFFICES ASSUME ram' \in TestedRam PROVE TestInv'
  BY DEF TestInv
<1> DEFINE ksz == Size(zone["kernel"])
           q == ksz \div 4
           z1 == After(zone, "kernel", 64)
<1>0. report(/\ Granted(zone, "kernel", 64) /\ Granted(z1, "kernel", q)
             /\ Pointer(zone, "kernel", 64) # Pointer(z1, "kernel", q),
             "kernel allocations")
  BY DEF KernelZone
<1>1. /\ step = "kernel" /\ step' = "oversize" /\ zone' = After(z1, "kernel", q)
      /\ UNCHANGED <<kernel_end, ram, small, big>>
  BY DEF KernelZone, report
<1>2. /\ Tiles(zone) /\ failed = {} /\ small = 0
      /\ Unused(zone, "kernel") /\ 86 <= Length(zone, "kernel") /\ AppAsLaidOut(zone, 0, Limit)
  BY <1>1 DEF LaidOutInv, TestInv
<1>3. /\ zone["kernel"].start \in Nat /\ zone["kernel"].end \in Nat
      /\ zone["kernel"].current = zone["kernel"].start
      /\ ksz = zone["kernel"].end - zone["kernel"].start /\ 86 <= ksz /\ ksz \in Address
  BY <1>2, TilesSize DEF Zone, Length, Unused
<1>4. zone \in [Zone -> Allocator] /\ "kernel" \in Zone /\ "kernel" \in {"kernel", "app"}
  BY <1>2 DEF Tiles, Zone
<1>5. 64 <= zone["kernel"].end - zone["kernel"].current
  BY <1>3
<1>6. /\ Granted(zone, "kernel", 64) /\ Pointer(zone, "kernel", 64) = zone["kernel"].current
      /\ z1 = [zone EXCEPT !["kernel"] = [@ EXCEPT !.current = zone["kernel"].current + 64]]
  BY <1>2, <1>4, <1>5, BootSizes, FitsThenGranted
<1>7. Tiles(z1)
  BY <1>2, <1>4, BootSizes, AfterTiles
<1> HIDE DEF ksz, z1
<1>8. q \in Nat /\ q # 0 /\ q <= ksz - 64 /\ q <= ksz /\ ksz \in Nat
  BY <1>3 DEF Address
<1>9. q \in Address
  BY <1>3, <1>8, Alignments DEF Address
<1> HIDE DEF q
<1>10. /\ z1["kernel"].start = zone["kernel"].start /\ z1["kernel"].end = zone["kernel"].end
       /\ z1["kernel"].current = zone["kernel"].start + 64
       /\ z1["app"] = zone["app"] /\ z1["service"] = zone["service"]
  BY <1>3, <1>4, <1>6 DEF Allocator, Zone
<1>11. q <= z1["kernel"].end - z1["kernel"].current
  BY <1>3, <1>8, <1>10
<1>12. /\ Granted(z1, "kernel", q) /\ Pointer(z1, "kernel", q) = z1["kernel"].current
       /\ After(z1, "kernel", q) =
            [z1 EXCEPT !["kernel"] = [@ EXCEPT !.current = z1["kernel"].current + q]]
  BY <1>4, <1>7, <1>8, <1>9, <1>11, FitsThenGranted
<1>13. failed' = {}
  <2>1. zone["kernel"].current # z1["kernel"].current
    BY <1>3, <1>10
  <2> QED
    BY <1>0, <1>2, <1>6, <1>12, <2>1 DEF report
<1>14. /\ zone'["kernel"].start = zone["kernel"].start
       /\ zone'["kernel"].end = zone["kernel"].end
       /\ zone'["kernel"].current = zone["kernel"].start + 64 + q
       /\ zone'["app"] = zone["app"] /\ zone'["service"] = zone["service"]
  BY <1>1, <1>7, <1>10, <1>12 DEF Tiles, Allocator, Zone
<1>15. RamEnd' = RamEnd /\ Limit' = Limit
  BY <1>1 DEF RamEnd, Limit
<1>16. AppAsLaidOut(zone', 0, Limit')
  BY <1>1, <1>2, <1>14, <1>15 DEF AppAsLaidOut, Unused, Length
<1>17. zone'["kernel"].current > zone'["kernel"].start /\ Length(zone', "kernel") = Length(zone, "kernel")
  BY <1>3, <1>8, <1>14 DEF Length
<1> QED
  BY <1>1, <1>2, <1>13, <1>16, <1>17 DEF TestInv

(* The kernel zone has bytes taken: all of it cannot be had again.          *)
LEMMA TestOversize == ASSUME LaidOutInv, TestInv, Oversize PROVE TestInv'
<1> SUFFICES ASSUME ram' \in TestedRam PROVE TestInv'
  BY DEF TestInv
<1> DEFINE ksz == Size(zone["kernel"])
<1>0. report(~Granted(zone, "kernel", ksz), "kernel oversize")
  BY DEF Oversize
<1>1. /\ step = "oversize" /\ step' = "small" /\ zone' = After(zone, "kernel", ksz)
      /\ UNCHANGED <<kernel_end, ram, small, big>>
  BY DEF Oversize, report
<1>2. /\ Tiles(zone) /\ failed = {} /\ small = 0 /\ AppAsLaidOut(zone, 0, Limit)
      /\ zone["kernel"].current > zone["kernel"].start /\ 86 <= Length(zone, "kernel")
  BY <1>1 DEF LaidOutInv, TestInv
<1>3. /\ zone["kernel"].start \in Nat /\ zone["kernel"].end \in Nat
      /\ zone["kernel"].current \in Nat /\ ksz \in Address
      /\ ksz = zone["kernel"].end - zone["kernel"].start /\ ksz # 0
  BY <1>2, TilesSize DEF Zone, Length
<1>4. ~FitsUp(zone["kernel"], ksz)
  <2> HIDE DEF ksz
  <2>1. ~(ksz <= zone["kernel"].end - zone["kernel"].current)
    BY <1>2, <1>3
  <2> QED
    BY <1>2, <1>3, <2>1, FitsUpFree DEF Zone
<1> HIDE DEF ksz
<1>5. Grown(zone, "kernel", ksz) = zone
  BY DEF Grown, Grows
<1>6. ~Granted(zone, "kernel", ksz)
  BY <1>4, <1>5 DEF Granted
<1>7. zone' = zone
  BY <1>1, <1>3, <1>5, <1>6 DEF After
<1>8. failed' = {}
  BY <1>0, <1>2, <1>6 DEF report
<1>9. AppAsLaidOut(zone', 0, Limit')
  BY <1>1, <1>2, <1>7 DEF Limit, RamEnd
<1> QED
  BY <1>1, <1>2, <1>8, <1>9 DEF TestInv

LEMMA TestSmall == ASSUME LaidOutInv, TestInv, SmallBlock PROVE TestInv'
<1> SUFFICES ASSUME ram' \in TestedRam PROVE TestInv'
  BY DEF TestInv
<1>0. report(Granted(zone, "app", 1), "small allocations")
  BY DEF SmallBlock
<1>1. /\ step = "small" /\ step' = (IF small' = 8 THEN "big" ELSE "small")
      /\ zone' = After(zone, "app", 1) /\ small' = small + 1
      /\ UNCHANGED <<kernel_end, ram, big>>
  BY DEF SmallBlock, report
<1>2. Tiles(zone) /\ failed = {} /\ small \in 0 .. 7 /\ AppAsLaidOut(zone, small, Limit)
  BY <1>1 DEF LaidOutInv, TestInv
<1>3. /\ zone["app"].start \in Nat /\ zone["app"].end \in Nat
      /\ zone \in [Zone -> Allocator] /\ "app" \in Zone /\ "app" \in {"kernel", "app"}
  BY <1>2, TilesSize DEF Zone, Tiles
<1>4. 1 <= zone["app"].end - zone["app"].current
  BY <1>2, <1>3 DEF AppAsLaidOut, Length
<1>5. /\ Granted(zone, "app", 1)
      /\ After(zone, "app", 1) =
           [zone EXCEPT !["app"] = [@ EXCEPT !.current = zone["app"].current + 1]]
  BY <1>2, <1>3, <1>4, BootSizes, FitsThenGranted
<1>6. /\ zone'["app"].start = zone["app"].start /\ zone'["app"].end = zone["app"].end
      /\ zone'["app"].current = zone["app"].current + 1
      /\ zone'["service"] = zone["service"]
  BY <1>1, <1>3, <1>5 DEF Allocator, Zone
<1>7. failed' = {}
  BY <1>0, <1>2, <1>5 DEF report
<1>8. small' \in 0 .. 8 /\ (small' # 8 => small' \in 0 .. 7)
  BY <1>1, <1>2
<1>9. zone'["app"].current = zone'["app"].start + small'
  BY <1>1, <1>2, <1>3, <1>6 DEF AppAsLaidOut
<1>10. RamEnd' = RamEnd /\ Limit' = Limit
  BY <1>1 DEF RamEnd, Limit
<1>11. AppAsLaidOut(zone', small', Limit')
  BY <1>1, <1>2, <1>6, <1>9, <1>10 DEF AppAsLaidOut, Unused, Length
<1>12. CASE small' = 8
  <2>1. step' = "big" /\ AppAsLaidOut(zone', 8, Limit')
    BY <1>1, <1>11, <1>12 DEF AppAsLaidOut
  <2> QED
    BY <1>7, <1>8, <2>1 DEF TestInv
<1>13. CASE small' # 8
  BY <1>1, <1>7, <1>8, <1>11, <1>13 DEF TestInv
<1> QED
  BY <1>12, <1>13

(* The large block is what FastApp has free and 1 MB of Service more: the   *)
(* boundary moves by exactly that, and the block ends at it.                *)
LEMMA TestBig == ASSUME CodeConstants, LaidOutInv, TestInv, BigBlock PROVE TestInv'
<1> SUFFICES ASSUME ram' \in TestedRam PROVE TestInv'
  BY DEF TestInv
<1> DEFINE free == Sub(zone["app"].end, zone["app"].current)
           n == Add(free, MB)
           g == Grown(zone, "app", n)
           z == After(zone, "app", n)
<1>0. report(Granted(zone, "app", n) /\ Size(z["app"]) > Size(zone["app"]), "FastApp grows")
  BY DEF BigBlock
<1>1. /\ step = "big" /\ step' = "service" /\ zone' = z
      /\ big' = IF Granted(zone, "app", n)
                  THEN [lo |-> Pointer(zone, "app", n), hi |-> Add(Pointer(zone, "app", n), n)]
                  ELSE NoBlock
      /\ UNCHANGED <<kernel_end, ram, small>>
  BY DEF BigBlock
<1>2. Tiles(zone) /\ failed = {} /\ small \in 0 .. 8 /\ AppAsLaidOut(zone, 8, Limit)
  BY <1>1 DEF LaidOutInv, TestInv
<1> DEFINE e == zone["app"].end
           c == zone["app"].current
           a == zone["app"].start
           s == zone["service"].end
<1>3. /\ a \in Nat /\ e \in Nat /\ c \in Nat /\ s \in Nat /\ c = a + 8 /\ c <= e
      /\ c \in Address /\ e \in Address /\ s \in Address
      /\ zone["service"].start = e /\ zone["service"].current = s
      /\ 9 <= e - a /\ 5120 <= s - e
      /\ Limit = (e - a) + (s - e) - 4096
  BY <1>2, TilesSize DEF Zone, AppAsLaidOut, Length, Unused, Tiles
<1>4. /\ free = e - c /\ free \in Nat /\ n = free + 1024 /\ n \in Address /\ n \in Nat
      /\ W \in Nat /\ s < W
  <2>1. free = e - c
    BY <1>3, Wraps
  <2>2. W \in Nat
    BY Alignments
  <2>3. s < W /\ W \in Nat
    BY <1>3, Alignments DEF Address
  <2>4. free \in Address /\ MB \in Address /\ free + MB < W
    BY <1>3, <2>1, <2>3, BootSizes DEF Address, MB
  <2>5. n = free + MB
    BY <2>4, Wraps
  <2>6. free \in Nat /\ n = free + 1024 /\ n \in Nat
    BY <1>3, <2>1, <2>5 DEF MB
  <2> QED
    BY <2>1, <2>2, <2>3, <2>4, <2>5, <2>6 DEF Address
<1> HIDE DEF free, n
<1>5. /\ UpPtr(zone["app"]) = c /\ Sub(e, c) = free
      /\ ~FitsUp(zone["app"], n) /\ n > Sub(e, UpPtr(zone["app"]))
  <2>1. UpPtr(zone["app"]) = c /\ Sub(e, c) = e - c /\ (FitsUp(zone["app"], n) <=> n <= e - c)
    BY <1>2, <1>4, FitsUpFree DEF Zone
  <2> QED
    BY <1>3, <1>4, <2>1
<1>6. Missing(zone, n) = 1024
  <2>1. Sub(n, free) = 1024
    <3>1. free \in Address /\ free <= n /\ n - free = 1024
      BY <1>4 DEF Address
    <3> QED
      BY <1>4, <3>1, Wraps
  <2>2. align_up(1024, PAGE_ALIGN) = 1024
    <3>1. PAGE_ALIGN \in Nat \ {0} /\ W % PAGE_ALIGN = 0 /\ 1024 \in Address
      BY Alignments, BootSizes DEF MB
    <3>2. 1024 % PAGE_ALIGN = 0 /\ 1024 <= 1024
      BY SMT DEF CodeConstants
    <3>3. 1024 <= align_up(1024, PAGE_ALIGN) /\ align_up(1024, PAGE_ALIGN) <= 1024
      BY <3>1, <3>2, AlignUp
    <3>4. align_up(1024, PAGE_ALIGN) \in Int
      BY <3>1, AlignUp, Ints
    <3> QED
      BY <3>3, <3>4
  <2> QED
    BY <1>5, <2>1, <2>2 DEF Missing
<1>7. CanGrow(zone["app"], zone["service"], 1024, Limit)
  <2>1. 1024 \in Address /\ Limit \in Int
    BY <1>3, BootSizes DEF MB
  <2>2. ZONE_SERVICE_MIN = 4096
    BY SMT DEF CodeConstants
  <2>3. /\ 1024 <= zone["service"].current - zone["service"].start
        /\ zone["service"].end - zone["service"].start - 1024 >= ZONE_SERVICE_MIN
        /\ zone["app"].end - zone["app"].start + 1024 <= Limit
    BY <1>3, <2>2
  <2> QED
    BY <1>2, <2>1, <2>3, GrowthLimits
<1>8. g = MoveBoundary(zone, 1024)
  BY <1>5, <1>6, <1>7 DEF Grown, Grows, Limit
<1>9. /\ Tiles(g) /\ g["app"].start = a /\ g["app"].current = c /\ g["app"].end = e + 1024
      /\ g["service"].start = e + 1024 /\ g["service"].end = s /\ g["service"].current = s
  <2>1. 1024 \in Address /\ Aligned(1024)
    BY BootSizes DEF MB
  <2> QED
    BY <1>2, <1>3, <1>7, <1>8, <2>1, Moved DEF Zone
<1> HIDE DEF g
<1>10. FitsUp(g["app"], n) /\ UpPtr(g["app"]) = c
  <2>1. /\ UpPtr(g["app"]) = g["app"].current
        /\ FitsUp(g["app"], n) <=> n <= g["app"].end - g["app"].current
    BY <1>4, <1>9, FitsUpFree DEF Zone
  <2> QED
    BY <1>3, <1>4, <1>9, <2>1
<1>11. Granted(zone, "app", n) /\ Pointer(zone, "app", n) = c
  BY <1>4, <1>5, <1>10 DEF Granted, Pointer, g
<1>12. /\ z["app"].start = a /\ z["app"].end = e + 1024
       /\ z["service"] = g["service"]
  <2>1. z = [g EXCEPT !["app"] = AfterUp(g["app"], n)]
    BY <1>11 DEF After, g
  <2>2. g \in [Zone -> Allocator] /\ "app" \in Zone
    BY <1>9 DEF Tiles, Zone
  <2>3. z["app"] = AfterUp(g["app"], n) /\ z["service"] = g["service"]
    <3> HIDE DEF z
    <3> QED
      BY <2>1, <2>2 DEF Zone
  <2> QED
    BY <1>9, <2>2, <2>3 DEF AfterUp, Allocator
<1>13. Add(c, n) = e + 1024
  BY SMT, <1>3, <1>4, Wraps
<1>14. big' # NoBlock /\ big'.hi = zone'["service"].start
  <2>1. big'.hi = e + 1024 /\ e + 1024 # 0
    BY <1>1, <1>3, <1>11, <1>13
  <2> QED
    BY <1>1, <1>9, <1>12, <2>1 DEF NoBlock
<1>15. Unused(zone', "service") /\ 4096 <= Length(zone', "service")
  BY <1>1, <1>3, <1>9, <1>12 DEF Unused, Length
<1>16. Size(z["app"]) > Size(zone["app"])
  <2>1. Tiles(z)
    BY <1>2, <1>4, AfterTiles DEF Zone
  <2>2. Size(z["app"]) = z["app"].end - z["app"].start /\ Size(zone["app"]) = e - a
    BY <1>2, <2>1, TilesSize DEF Zone
  <2> QED
    BY <1>3, <1>12, <2>2
<1>17. failed' = {}
  BY <1>0, <1>2, <1>11, <1>16 DEF report
<1> QED
  BY <1>1, <1>2, <1>14, <1>15, <1>17 DEF TestInv

LEMMA TestService == ASSUME LaidOutInv, TestInv, ServiceBlock PROVE TestInv'
<1> SUFFICES ASSUME ram' \in TestedRam PROVE TestInv'
  BY DEF TestInv
<1>0. report(/\ Granted(zone, "service", 4) /\ big # NoBlock
             /\ Pointer(zone, "service", 4) >= big.hi, "Service does not overlap")
  BY DEF ServiceBlock
<1>1. /\ step = "service" /\ step' = "done"
      /\ UNCHANGED <<ram, small>>
  BY DEF ServiceBlock, report
<1>2. /\ Tiles(zone) /\ failed = {} /\ small \in 0 .. 8 /\ Unused(zone, "service")
      /\ 4096 <= Length(zone, "service") /\ big # NoBlock /\ big.hi = zone["service"].start
  BY <1>1 DEF LaidOutInv, TestInv
<1> DEFINE s == zone["service"]
<1>3. /\ s.start \in Nat /\ s.end \in Nat /\ s.current = s.end /\ 4096 <= s.end - s.start
      /\ s.start \in Address /\ s.current \in Address
  BY <1>2, TilesSize DEF Zone, Length, Unused
<1>4. Sub(s.current, s.start) = s.end - s.start /\ Sub(s.current, 4) = s.end - 4
  <2>1. s.start <= s.current /\ 4 <= s.current
    BY <1>3
  <2> QED
    BY <1>3, <2>1, BootSizes, Wraps
<1>5. DownPtr(s, 4) = s.end - 4
  <2>1. ALLOC_ALIGN = 1
    BY MemoryBootAssumption
  <2>2. (s.end - 4) % 1 = 0
    BY <1>3
  <2> QED
    BY <1>3, <1>4, <2>1, <2>2 DEF DownPtr, align_down
<1>6. FitsDown(s, 4) /\ DownPtr(s, 4) >= s.start
  BY <1>3, <1>4, <1>5 DEF FitsDown
<1>7. Granted(zone, "service", 4) /\ Pointer(zone, "service", 4) = DownPtr(s, 4)
  BY <1>6 DEF Granted, Pointer
<1>8. Pointer(zone, "service", 4) >= big.hi
  BY <1>2, <1>6, <1>7
<1>9. failed' = {}
  <2> DEFINE ok == /\ Granted(zone, "service", 4) /\ big # NoBlock
                   /\ Pointer(zone, "service", 4) >= big.hi
  <2>1. failed' = IF ok THEN failed ELSE failed \union {"Service does not overlap"}
    BY <1>0 DEF report
  <2>2. ok
    BY <1>2, <1>7, <1>8
  <2> HIDE DEF ok
  <2> QED
    BY <1>2, <2>1, <2>2
<1> QED
  BY <1>1, <1>2, <1>9 DEF TestInv

LEMMA TestInvStep ==
  CodeConstants /\ LaidOutInv /\ TestInv /\ [memory_boot]_memoryVars => TestInv'
<1> SUFFICES ASSUME CodeConstants, LaidOutInv, TestInv, [memory_boot]_memoryVars PROVE TestInv'
  OBVIOUS
<1>1. CASE UNCHANGED memoryVars
  BY <1>1 DEF memoryVars, TestInv, Limit, RamEnd
<1> QED
  BY <1>1, TestLayout, TestKernel, TestOversize, TestSmall, TestBig, TestService
     DEF memory_boot, memory_test

LEMMA TestInvPasses == TestInv => TestPasses
BY DEF TestInv, TestPasses

-----------------------------------------------------------------------------
(* The start of the other CPUs.                                             *)

HaveAnswered == {c \in Ids : ap[c] \in {"spin", "loop"}}
Starting == bsp \in {"index", "before", "sipi", "wait"}

(* Only the CPU that is being started can be on its way: the others are off *)
(* or have counted themselves.                                              *)
OneAtATime ==
  \A c \in Ids :
    /\ ap[c] # "off" => c \in present /\ (c < id \/ (c = id /\ bsp = "wait"))
    /\ c < id => ap[c] \in {"off", "spin", "loop"}
    /\ c = id /\ bsp = "wait" /\ c \in present => ap[c] # "off"

(* While it is, the mailbox is its own.                                     *)
Mailbox ==
  /\ Starting => index < SMP_MAX_CPUS /\ id < cpu_count /\ mailbox_stack = index
  /\ bsp \in {"before", "sipi", "wait"} => mailbox_index = index

(* The stacks of the CPUs started before it have smaller indices.           *)
Stacks ==
  \A c \in Ids :
    /\ OnStack(c) => IF c < id THEN stack[c] < index ELSE stack[c] = index
    /\ Entered(c) => ap_index[c] = stack[c]

(* Nobody but it moves the counter the boot CPU is waiting for.             *)
Counter ==
  /\ IsFiniteSet(HaveAnswered) /\ online = Cardinality(HaveAnswered) + 1
  /\ bsp # "wait" => online = index
  /\ bsp = "sipi" => before = online
  /\ bsp = "wait" => before = index
  /\ bsp = "wait" => online = IF \E c \in HaveAnswered : c = id THEN before + 1 ELSE before

BootInv == TypeOK /\ OneAtATime /\ Mailbox /\ Stacks /\ OwnStack /\ Counter

-----------------------------------------------------------------------------
LEMMA BootInvInit == Init => BootInv
<1> SUFFICES ASSUME Init PROVE BootInv
  OBVIOUS
<1> USE SmpBootAssumption
<1>1. TypeOK
  <2>1. cpu_count \in 1 .. SMP_MAX_CPUS /\ 0 \in 0 .. cpu_count /\ 1 \in 1 .. SMP_MAX_CPUS
        /\ NoSlot \in 0 .. SMP_MAX_CPUS - 1
    BY DEF Init, NoSlot
  <2>2. present \subseteq Ids
    BY DEF Init
  <2> QED
    BY <2>1, <2>2 DEF Init, TypeOK
<1>2. OneAtATime /\ Mailbox /\ Stacks /\ OwnStack
  BY DEF Init, OneAtATime, Mailbox, Starting, Stacks, OnStack, Entered, OwnStack
<1>3. HaveAnswered = {}
  BY DEF Init, HaveAnswered
<1>4. Counter
  BY <1>3, FS_EmptySet DEF Init, Counter
<1> QED
  BY <1>1, <1>2, <1>4 DEF BootInv

(* The steps of the boot CPU that leave the other CPUs alone.               *)
LEMMA BspStep ==
  ASSUME BootInv, Late = {},
         SkipBsp \/ NoStackLeft \/ WriteStack \/ WriteIndex \/ ReadBefore
           \/ Answered \/ TimedOut \/ Initialized
  PROVE  BootInv'
<1> USE SmpBootAssumption
<1>1. TypeOK /\ OneAtATime /\ Mailbox /\ Stacks /\ OwnStack /\ Counter
  BY DEF BootInv
<1>2. /\ ap' = ap /\ stack' = stack /\ ap_index' = ap_index /\ present' = present
      /\ cpu_count' = cpu_count /\ bsp_id' = bsp_id /\ online' = online
  BY DEF SkipBsp, NoStackLeft, WriteStack, WriteIndex, ReadBefore, Answered, TimedOut,
         Initialized, apVars, machine
<1>3. HaveAnswered' = HaveAnswered
  BY <1>2 DEF HaveAnswered
<1>4. CASE SkipBsp \/ NoStackLeft
  <2>1. /\ bsp = "next" /\ id' = id + 1 /\ id < cpu_count
        /\ bsp' = bsp /\ index' = index /\ before' = before
        /\ mailbox_stack' = mailbox_stack /\ mailbox_index' = mailbox_index
        /\ system_initialized' = system_initialized
    BY <1>4 DEF SkipBsp, NoStackLeft
  <2>2. \A c \in Ids : c <= id /\ c # id => c < id
    BY <1>1 DEF TypeOK
  <2>3. TypeOK'
    BY <1>1, <1>2, <2>1 DEF TypeOK
  <2>4. OneAtATime'
    BY <1>1, <1>2, <2>1 DEF OneAtATime, TypeOK
  <2>5. Stacks'
    BY <1>1, <1>2, <2>1 DEF Stacks, OneAtATime, OnStack, Entered, TypeOK
  <2> QED
    BY <1>1, <1>2, <1>3, <2>1, <2>3, <2>4, <2>5
       DEF BootInv, Mailbox, Starting, OwnStack, OnStack, Counter
<1>5. CASE WriteStack \/ WriteIndex \/ ReadBefore
  <2>1. /\ id' = id /\ index' = index /\ bsp # "wait" /\ bsp' # "wait"
        /\ system_initialized' = system_initialized
    BY <1>5 DEF WriteStack, WriteIndex, ReadBefore
  <2>2. TypeOK' /\ Mailbox'
    BY <1>1, <1>2, <1>5 DEF WriteStack, WriteIndex, ReadBefore, TypeOK, Mailbox, Starting
  <2>3. OneAtATime' /\ Stacks' /\ OwnStack'
    BY <1>1, <1>2, <2>1 DEF OneAtATime, Stacks, OwnStack, OnStack, Entered
  <2>4. Counter'
    BY <1>1, <1>2, <1>3, <1>5 DEF WriteStack, WriteIndex, ReadBefore, Counter
  <2> QED
    BY <2>2, <2>3, <2>4 DEF BootInv
<1>6. CASE Answered
  <2>1. /\ bsp = "wait" /\ online # before /\ index' = index + 1 /\ id' = id + 1
        /\ bsp' = "next" /\ before' = before
        /\ mailbox_stack' = mailbox_stack /\ mailbox_index' = mailbox_index
        /\ system_initialized' = system_initialized
    BY <1>6 DEF Answered
  <2>2. \E c \in HaveAnswered : c = id
    BY <1>1, <2>1 DEF Counter
  <2>3. \A c \in Ids : c = id => ap[c] \in {"spin", "loop"}
    BY <2>2 DEF HaveAnswered
  <2>4. TypeOK'
    BY <1>1, <1>2, <2>1 DEF TypeOK, Mailbox, Starting
  <2>5. OneAtATime'
    <3>1. \A c \in Ids : c < id + 1 <=> c < id \/ c = id
      BY <1>1 DEF TypeOK
    <3>2. \A c \in Ids : c < id' <=> c < id \/ c = id
      BY <2>1, <3>1
    <3>3. \A c \in Ids : ap'[c] # "off" => c \in present' /\ c < id'
      BY <1>1, <1>2, <3>2 DEF OneAtATime
    <3>4. \A c \in Ids : c < id' => ap'[c] \in {"off", "spin", "loop"}
      BY <1>1, <1>2, <2>3, <3>2 DEF OneAtATime
    <3> QED
      BY <2>1, <3>3, <3>4 DEF OneAtATime
  <2>6. Stacks'
    BY <1>1, <1>2, <2>1 DEF Stacks, OneAtATime, OnStack, Entered, TypeOK
  <2>7. Counter'
    BY <1>1, <1>2, <1>3, <2>1, <2>2 DEF Counter, TypeOK
  <2> QED
    BY <1>1, <1>2, <2>1, <2>4, <2>5, <2>6, <2>7
       DEF BootInv, Mailbox, Starting, OwnStack, OnStack
<1>7. CASE TimedOut
  <2>1. /\ bsp = "wait" /\ online = before /\ index' = index /\ id' = id + 1
        /\ bsp' = "next" /\ before' = before /\ id \notin present
        /\ mailbox_stack' = mailbox_stack /\ mailbox_index' = mailbox_index
        /\ system_initialized' = system_initialized
    BY <1>7 DEF TimedOut
  <2>2. \A c \in Ids : c = id => ap[c] = "off"
    BY <1>1, <2>1 DEF OneAtATime
  <2>3. TypeOK'
    BY <1>1, <1>2, <2>1 DEF TypeOK, Mailbox, Starting
  <2>4. OneAtATime'
    <3>1. \A c \in Ids : c < id + 1 <=> c < id \/ c = id
      BY <1>1 DEF TypeOK
    <3>2. \A c \in Ids : c < id' <=> c < id \/ c = id
      BY <2>1, <3>1
    <3>3. \A c \in Ids : ap'[c] # "off" => c \in present' /\ c < id'
      BY <1>1, <1>2, <3>2 DEF OneAtATime
    <3>4. \A c \in Ids : c < id' => ap'[c] \in {"off", "spin", "loop"}
      BY <1>1, <1>2, <2>2, <3>2 DEF OneAtATime
    <3> QED
      BY <2>1, <3>3, <3>4 DEF OneAtATime
  <2>5. Stacks'
    BY <1>1, <1>2, <2>1, <2>2 DEF Stacks, OneAtATime, OnStack, Entered, TypeOK
  <2>6. Counter'
    BY <1>1, <1>2, <1>3, <2>1 DEF Counter
  <2> QED
    BY <1>1, <1>2, <2>1, <2>3, <2>4, <2>5, <2>6
       DEF BootInv, Mailbox, Starting, OwnStack, OnStack
<1>8. CASE Initialized
  <2>1. /\ id' = id /\ index' = index /\ bsp = "next" /\ bsp' = "main" /\ before' = before
        /\ mailbox_stack' = mailbox_stack /\ mailbox_index' = mailbox_index
        /\ system_initialized' = TRUE
    BY <1>8 DEF Initialized
  <2>2. TypeOK'
    BY <1>1, <1>2, <2>1 DEF TypeOK
  <2> QED
    BY <1>1, <1>2, <1>3, <2>1, <2>2
       DEF BootInv, OneAtATime, Mailbox, Starting, Stacks, OwnStack, OnStack, Entered, Counter
<1> QED
  BY <1>4, <1>5, <1>6, <1>7, <1>8

(* A CPU that is started was off, and has no stack yet.                     *)
LEMMA SipiStep == ASSUME BootInv, SendSipi PROVE BootInv'
<1> USE SmpBootAssumption
<1>1. TypeOK /\ OneAtATime /\ Mailbox /\ Stacks /\ OwnStack /\ Counter
  BY DEF BootInv
<1>2. /\ bsp = "sipi" /\ bsp' = "wait" /\ id' = id /\ index' = index /\ before' = before
      /\ ap' = [c \in Ids |-> IF c = id /\ id \in present THEN "trampoline" ELSE ap[c]]
      /\ mailbox_stack' = mailbox_stack /\ mailbox_index' = mailbox_index
      /\ online' = online /\ system_initialized' = system_initialized
      /\ stack' = stack /\ ap_index' = ap_index /\ present' = present
      /\ cpu_count' = cpu_count /\ bsp_id' = bsp_id
  BY DEF SendSipi, machine
<1>3. \A c \in Ids : c = id => ap[c] = "off" /\ c \notin HaveAnswered
  BY <1>1, <1>2 DEF OneAtATime, TypeOK, HaveAnswered
<1>4. ASSUME NEW c \in Ids
      PROVE  ap'[c] = ap[c] \/ (c = id /\ c \in present /\ ap'[c] = "trampoline")
  <2>1. ap'[c] = IF c = id /\ id \in present THEN "trampoline" ELSE ap[c]
    BY <1>2
  <2> QED
    BY <2>1
<1>5. \A c \in Ids : c # id \/ c \notin present => ap'[c] = ap[c]
  BY <1>2
<1>6. HaveAnswered' = HaveAnswered
  BY <1>2, <1>3 DEF HaveAnswered
<1>7. TypeOK'
  BY <1>1, <1>2 DEF TypeOK
<1>8. OneAtATime'
  BY <1>1, <1>2, <1>3, <1>4 DEF OneAtATime, TypeOK
<1>9. Mailbox'
  BY <1>1, <1>2 DEF Mailbox, Starting
<1>10. \A c \in Ids : (OnStack(c)' => OnStack(c)) /\ (Entered(c)' => Entered(c))
  BY <1>4 DEF OnStack, Entered
<1>11. Stacks' /\ OwnStack'
  BY <1>1, <1>2, <1>10 DEF Stacks, OwnStack, TypeOK
<1>12. Counter'
  <2>1. ~\E c \in HaveAnswered : c = id
    BY <1>3 DEF HaveAnswered
  <2> QED
    BY <1>1, <1>2, <1>6, <2>1 DEF Counter
<1> QED
  BY <1>7, <1>8, <1>9, <1>11, <1>12 DEF BootInv

(* The steps of a started CPU.                                              *)
LEMMA RunStep == ASSUME BootInv, NEW c \in Ids, Run(c) PROVE BootInv'
<1> USE SmpBootAssumption
<1>1. TypeOK /\ OneAtATime /\ Mailbox /\ Stacks /\ OwnStack /\ Counter
  BY DEF BootInv
<1>2. /\ bsp' = bsp /\ id' = id /\ index' = index /\ before' = before
      /\ mailbox_stack' = mailbox_stack /\ mailbox_index' = mailbox_index
      /\ system_initialized' = system_initialized
      /\ present' = present /\ cpu_count' = cpu_count /\ bsp_id' = bsp_id
      /\ ap[c] # "off" /\ ap \in [Ids -> {"off", "trampoline", "stacked", "entry", "spin", "loop"}]
  BY <1>1 DEF Run, LoadStack, LoadIndex, Count, EnterLoop, bspVars, machine, TypeOK
<1>3. Mailbox'
  BY <1>1, <1>2 DEF Mailbox, Starting
<1>4. ap[c] \in {"trampoline", "stacked", "entry"} => c = id /\ bsp = "wait" /\ ~(c < id)
  BY <1>1, <1>2 DEF OneAtATime
<1>5. CASE LoadStack(c)
  <2>1. /\ ap[c] = "trampoline" /\ ap' = [ap EXCEPT ![c] = "stacked"]
        /\ stack' = [stack EXCEPT ![c] = mailbox_stack]
        /\ ap_index' = ap_index /\ online' = online
    BY <1>5 DEF LoadStack
  <2>2. c = id /\ bsp = "wait" /\ mailbox_stack = index /\ ~(c < id)
    BY <1>1, <1>4, <2>1 DEF Mailbox, Starting
  <2>3. HaveAnswered' = HaveAnswered
    BY <1>2, <2>1 DEF HaveAnswered
  <2>4. TypeOK'
    BY <1>1, <1>2, <2>1 DEF TypeOK
  <2>5. OneAtATime'
    BY <1>1, <1>2, <2>1, <2>2 DEF OneAtATime
  <2>6. /\ stack'[c] = index /\ ap'[c] = "stacked"
        /\ \A d \in Ids : d # c => stack'[d] = stack[d] /\ ap'[d] = ap[d]
    BY <1>1, <2>1, <2>2 DEF TypeOK
  <2>7. Stacks'
    BY <1>1, <1>2, <2>1, <2>2, <2>6 DEF Stacks, OnStack, Entered
  <2>8. \A d \in Ids : d # c /\ OnStack(d) => stack[d] < index
    BY <1>1, <2>2 DEF Stacks, OneAtATime, OnStack
  <2>9. OwnStack'
    BY <1>1, <1>2, <2>6, <2>8 DEF OwnStack, OnStack, TypeOK
  <2>10. Counter'
    BY <1>1, <1>2, <2>1, <2>3 DEF Counter
  <2> QED
    BY <1>3, <2>4, <2>5, <2>7, <2>9, <2>10 DEF BootInv
<1>6. CASE LoadIndex(c)
  <2>1. /\ ap[c] = "stacked" /\ ap' = [ap EXCEPT ![c] = "entry"]
        /\ ap_index' = [ap_index EXCEPT ![c] = mailbox_index]
        /\ stack' = stack /\ online' = online
    BY <1>6 DEF LoadIndex
  <2>2. c = id /\ bsp = "wait" /\ mailbox_index = index /\ stack[c] = index
    BY <1>1, <1>4, <2>1 DEF Mailbox, Stacks, OnStack
  <2>3. HaveAnswered' = HaveAnswered
    BY <1>2, <2>1 DEF HaveAnswered
  <2>4. TypeOK'
    BY <1>1, <1>2, <2>1 DEF TypeOK
  <2>5. OneAtATime'
    BY <1>1, <1>2, <2>1, <2>2 DEF OneAtATime
  <2>6. /\ ap_index'[c] = index /\ ap'[c] = "entry"
        /\ \A d \in Ids : d # c => ap_index'[d] = ap_index[d] /\ ap'[d] = ap[d]
    BY <1>1, <2>1, <2>2 DEF TypeOK
  <2>7. \A d \in Ids : OnStack(d)' = OnStack(d)
    BY <2>1, <2>6 DEF OnStack
  <2>8. Stacks'
    BY <1>1, <1>2, <2>1, <2>2, <2>6, <2>7 DEF Stacks, Entered
  <2>9. OwnStack'
    BY <1>1, <1>2, <2>1, <2>7 DEF OwnStack, TypeOK
  <2>10. Counter'
    BY <1>1, <1>2, <2>1, <2>3 DEF Counter
  <2> QED
    BY <1>3, <2>4, <2>5, <2>8, <2>9, <2>10 DEF BootInv
<1>7. CASE Count(c)
  <2>1. /\ ap[c] = "entry" /\ ap' = [ap EXCEPT ![c] = "spin"]
        /\ stack' = stack /\ ap_index' = ap_index /\ online' = online + 1
    BY <1>7 DEF Count
  <2>2. c = id /\ bsp = "wait"
    BY <1>4, <2>1
  <2>3. HaveAnswered' = HaveAnswered \cup {c} /\ c \notin HaveAnswered
    BY <1>2, <2>1 DEF HaveAnswered
  <2>4. TypeOK'
    BY <1>1, <1>2, <2>1 DEF TypeOK
  <2>5. OneAtATime'
    BY <1>1, <1>2, <2>1, <2>2 DEF OneAtATime
  <2>6. ap'[c] = "spin" /\ \A d \in Ids : d # c => ap'[d] = ap[d]
    BY <1>2, <2>1
  <2>7. \A d \in Ids : OnStack(d)' = OnStack(d) /\ Entered(d)' = Entered(d)
    BY <2>1, <2>6 DEF OnStack, Entered
  <2>8. Stacks' /\ OwnStack'
    BY <1>1, <1>2, <2>1, <2>7 DEF Stacks, OwnStack, TypeOK
  <2>9. /\ IsFiniteSet(HaveAnswered) /\ IsFiniteSet(HaveAnswered')
        /\ Cardinality(HaveAnswered') = Cardinality(HaveAnswered) + 1 /\ Cardinality(HaveAnswered) \in Nat
    BY <1>1, <2>3, FS_AddElement, FS_CardinalityType DEF Counter
  <2>10. Counter'
    BY <1>1, <1>2, <2>1, <2>2, <2>3, <2>9 DEF Counter, TypeOK
  <2> QED
    BY <1>3, <2>4, <2>5, <2>8, <2>10 DEF BootInv
<1>8. CASE EnterLoop(c)
  <2>1. /\ ap[c] = "spin" /\ ap' = [ap EXCEPT ![c] = "loop"]
        /\ stack' = stack /\ ap_index' = ap_index /\ online' = online
    BY <1>8 DEF EnterLoop
  <2>2. HaveAnswered' = HaveAnswered
    BY <1>2, <2>1 DEF HaveAnswered
  <2>3. TypeOK'
    BY <1>1, <1>2, <2>1 DEF TypeOK
  <2>4. OneAtATime'
    BY <1>1, <1>2, <2>1 DEF OneAtATime
  <2>5. ap'[c] = "loop" /\ \A d \in Ids : d # c => ap'[d] = ap[d]
    BY <1>2, <2>1
  <2>6. \A d \in Ids : OnStack(d)' = OnStack(d) /\ Entered(d)' = Entered(d)
    BY <2>1, <2>5 DEF OnStack, Entered
  <2>7. Stacks' /\ OwnStack'
    BY <1>1, <1>2, <2>1, <2>6 DEF Stacks, OwnStack, TypeOK
  <2>8. Counter'
    BY <1>1, <1>2, <2>1, <2>2 DEF Counter
  <2> QED
    BY <1>3, <2>3, <2>4, <2>7, <2>8 DEF BootInv
<1> QED
  BY <1>5, <1>6, <1>7, <1>8 DEF Run

LEMMA BootInvStep == ASSUME Late = {} PROVE BootInv /\ [Next]_vars => BootInv'
<1> SUFFICES ASSUME BootInv, [Next]_vars PROVE BootInv'
  OBVIOUS
<1>1. CASE UNCHANGED vars
  BY <1>1 DEF vars, machine, BootInv, TypeOK, OneAtATime, Mailbox, Starting, Stacks, OwnStack,
              OnStack, Entered, Counter, HaveAnswered
<1>2. CASE Boot
  BY <1>2, BspStep, SipiStep DEF Boot, start_all_aps
<1>3. ASSUME NEW c \in Ids, Run(c) PROVE BootInv'
  BY <1>3, RunStep
<1> QED
  BY <1>1, <1>2, <1>3 DEF Next

-----------------------------------------------------------------------------
(* The state keeps its type, and one CPU is started at a time.              *)
THEOREM BootInvariance == ASSUME Late = {} PROVE Spec => []BootInv
BY BootInvInit, BootInvStep, PTL DEF Spec

(* No two CPUs run on one stack, however many there are and whichever never  *)
(* answer (kernel/smp.c:42-58).                                              *)
THEOREM StacksApart == ASSUME Late = {} PROVE Spec => []OwnStack
<1>1. BootInv => OwnStack
  BY DEF BootInv
<1> QED
  BY <1>1, BootInvariance, PTL

(* The CPUs counted on line are those that were given an index, and each of  *)
(* them has joined under its own (kernel/smp.c:42-58).                       *)
THEOREM EveryAnswerCredited == ASSUME Late = {} PROVE Spec => []AnswersCredited
<1>1. BootInv => AnswersCredited
  <2> SUFFICES ASSUME BootInv, bsp = "main"
               PROVE  online = index /\ Cardinality(Joined) = index - 1
    BY DEF AnswersCredited
  <2>1. Joined = HaveAnswered
    BY DEF BootInv, TypeOK, OneAtATime, Stacks, Entered, Joined, HaveAnswered
  <2>2. Cardinality(HaveAnswered) \in Nat
    BY FS_CardinalityType DEF BootInv, Counter
  <2>3. online = index /\ online = Cardinality(HaveAnswered) + 1
    BY DEF BootInv, Counter
  <2>4. Cardinality(HaveAnswered) = index - 1
    BY <2>2, <2>3
  <2> QED
    BY <2>1, <2>3, <2>4, Zenon
<1> QED
  BY <1>1, BootInvariance, PTL

-----------------------------------------------------------------------------
(* The security core.                                                       *)

Entry == [pid : Nat, level : Levels, whitelist : SUBSET Syscalls]
SecurityTypeOK == process_table \in [Entries -> Entry]

(* A free entry permits nothing, so the next process inherits nothing.      *)
FreeIsBlank == \A i \in Entries : process_table[i].pid = 0 => process_table[i].whitelist = {}

SecurityInv == SecurityTypeOK /\ OneEntry /\ FreeIsBlank

-----------------------------------------------------------------------------
(* With one entry for a process, to be found is to have the pid.            *)
LEMMA FoundIs ==
  ASSUME SecurityInv, NEW i \in Entries, NEW p
  PROVE  Found(i, p) <=> p # 0 /\ process_table[i].pid = p
BY SecurityCoreAssumption DEF SecurityInv, OneEntry, Found, FirstWith, Entries

LEMMA SecurityInvInit == SecurityInit => SecurityInv
<1> SUFFICES ASSUME SecurityInit PROVE SecurityInv
  OBVIOUS
<1>1. \A i \in Entries : process_table[i] = [pid |-> 0, level |-> "user", whitelist |-> {}]
  BY DEF SecurityInit
<1>2. SecurityTypeOK
  BY DEF SecurityInit, SecurityTypeOK, Entry, Levels
<1>3. OneEntry /\ FreeIsBlank
  BY <1>1 DEF OneEntry, FreeIsBlank
<1> QED
  BY <1>2, <1>3 DEF SecurityInv

LEMMA LevelInv ==
  ASSUME SecurityInv, NEW p \in Pids, NEW l \in Levels, security_set_process_level(p, l)
  PROVE  SecurityInv'
<1>1. SecurityTypeOK /\ OneEntry /\ FreeIsBlank /\ p \in Nat
  BY SecurityCoreAssumption DEF SecurityInv
<1>2. CASE UpdateLevel(p, l)
  <2>1. PICK i \in Entries : process_table' = [process_table EXCEPT ![i].level = l]
    BY <1>2 DEF UpdateLevel
  <2>2. \A j \in Entries : /\ process_table'[j].pid = process_table[j].pid
                            /\ process_table'[j].whitelist = process_table[j].whitelist
    BY <1>1, <2>1 DEF SecurityTypeOK, Entry
  <2>3. SecurityTypeOK'
    BY <1>1, <2>1 DEF SecurityTypeOK, Entry
  <2> QED
    BY <1>1, <2>2, <2>3 DEF SecurityInv, OneEntry, FreeIsBlank
<1>3. CASE ClaimEntry(p, l)
  <2>1. PICK i \in Entries :
          /\ FirstWith(i, 0)
          /\ process_table' = [process_table EXCEPT ![i].pid = p, ![i].level = l]
    BY <1>3 DEF ClaimEntry
  <2>2. p # 0 /\ \A j \in Entries : process_table[j].pid # p
    <3>1. p # 0 /\ ~Known(p)
      BY <1>3 DEF ClaimEntry
    <3> QED
      BY <3>1, FoundIs DEF Known
  <2>3. process_table'[i].pid = p /\ \A j \in Entries \ {i} : process_table'[j] = process_table[j]
    BY <1>1, <2>1 DEF SecurityTypeOK, Entry
  <2>4. SecurityTypeOK'
    BY <1>1, <2>1 DEF SecurityTypeOK, Entry
  <2>5. process_table[i].pid = 0 /\ \A j \in Entries : process_table[j].pid = 0 => i <= j
    BY <2>1 DEF FirstWith
  <2>6. ASSUME NEW j \in Entries, NEW k \in Entries,
               process_table'[j].pid = process_table'[k].pid, process_table'[j].pid # 0
        PROVE  j = k
    BY <1>1, <2>2, <2>3, <2>6 DEF OneEntry
  <2>7. ASSUME NEW j \in Entries, NEW k \in Entries, process_table'[j].pid = 0, j < k
        PROVE  process_table'[k].pid = 0
    <3>1. j # i /\ process_table[j].pid = 0
      BY <2>2, <2>3, <2>7
    <3>2. i <= j /\ k # i
      BY <2>5, <2>7, <3>1 DEF Entries
    <3> QED
      BY <1>1, <2>3, <2>7, <3>1, <3>2 DEF OneEntry
  <2>8. OneEntry'
    BY <2>6, <2>7 DEF OneEntry
  <2>9. FreeIsBlank'
    BY <1>1, <2>2, <2>3 DEF FreeIsBlank
  <2> QED
    BY <2>4, <2>8, <2>9 DEF SecurityInv
<1>4. CASE KeepTable(p)
  BY <1>1, <1>4 DEF KeepTable, SecurityInv, SecurityTypeOK, OneEntry, FreeIsBlank
<1> QED
  BY <1>2, <1>3, <1>4 DEF security_set_process_level

(* What a whitelist call does to an entry.                                  *)
LEMMA WhitelistStep ==
  ASSUME SecurityInv, NEW p \in Pids, NEW n \in Counts,
         NEW list \in SUBSET {s \in Syscalls : s < n}, security_set_whitelist(p, list, n),
         NEW i \in Entries
  PROVE  /\ process_table'[i] \in Entry
         /\ process_table'[i].pid = process_table[i].pid
         /\ process_table'[i].level = process_table[i].level
         /\ process_table'[i].whitelist =
              IF p # 0 /\ process_table[i].pid = p
                THEN {s \in process_table[i].whitelist : s >= n} \union list
                ELSE process_table[i].whitelist
<1>1. process_table[i] \in Entry
  BY DEF SecurityInv, SecurityTypeOK
<1>2. process_table'[i] =
        IF p # 0 /\ process_table[i].pid = p
          THEN [process_table[i] EXCEPT !.whitelist = {s \in @ : s >= n} \union list]
          ELSE process_table[i]
  BY FoundIs DEF security_set_whitelist
<1> QED
  BY <1>1, <1>2 DEF Entry

LEMMA WhitelistInv ==
  ASSUME SecurityInv, NEW p \in Pids, NEW n \in Counts,
         NEW list \in SUBSET {s \in Syscalls : s < n}, security_set_whitelist(p, list, n)
  PROVE  SecurityInv'
<1>1. \A i \in Entries :
        /\ process_table'[i] \in Entry /\ process_table'[i].pid = process_table[i].pid
        /\ process_table[i].pid = 0 => process_table'[i].whitelist = process_table[i].whitelist
  BY WhitelistStep
<1>2. SecurityTypeOK'
  BY <1>1 DEF security_set_whitelist, SecurityTypeOK
<1>3. OneEntry' /\ FreeIsBlank'
  BY <1>1 DEF SecurityInv, OneEntry, FreeIsBlank
<1> QED
  BY <1>2, <1>3 DEF SecurityInv

LEMMA SecurityInvStep == SecurityInv /\ [SecurityNext]_securityVars => SecurityInv'
<1> SUFFICES ASSUME SecurityInv, [SecurityNext]_securityVars PROVE SecurityInv'
  OBVIOUS
<1>1. CASE UNCHANGED process_table
  BY <1>1 DEF SecurityInv, SecurityTypeOK, OneEntry, FreeIsBlank
<1>2. ASSUME NEW p \in Pids, SecurityCall(p) PROVE SecurityInv'
  BY <1>1, <1>2, LevelInv, WhitelistInv DEF SecurityCall, security_check_syscall
<1> QED
  BY <1>1, <1>2 DEF SecurityNext, securityVars

(* A process has one entry, and the free entries are the last.              *)
THEOREM SecurityInvariance == SecuritySpec => []OneEntry
<1>1. SecurityInv => OneEntry
  BY DEF SecurityInv
<1> QED
  BY <1>1, SecurityInvInit, SecurityInvStep, PTL DEF SecuritySpec

-----------------------------------------------------------------------------
(* The map the table stands for.                                            *)
LevelOf == [p \in Pids |-> IF Known(p) THEN EntryOf(p).level ELSE "user"]
AllowedOf == [p \in Pids |-> IF Known(p) THEN EntryOf(p).whitelist ELSE {}]

View(p) ==
  /\ Known(p) <=> p # 0 /\ \E i \in Entries : process_table[i].pid = p
  /\ p \in KnownPids <=> Known(p)
  /\ Known(p) => \A i \in Entries : process_table[i].pid = p =>
       LevelOf[p] = process_table[i].level /\ AllowedOf[p] = process_table[i].whitelist
  /\ ~Known(p) => LevelOf[p] = "user" /\ AllowedOf[p] = {}

Views == \A p \in Pids : View(p)

LEMMA TableIsMap == SecurityInv => Views
<1> SUFFICES ASSUME SecurityInv, NEW p \in Pids PROVE View(p)
  BY DEF Views
<1>1. Known(p) <=> p # 0 /\ \E i \in Entries : process_table[i].pid = p
  BY FoundIs DEF Known
<1>2. p \in KnownPids <=> Known(p)
  BY <1>1 DEF KnownPids
<1>3. ASSUME NEW i \in Entries, Known(p), process_table[i].pid = p
      PROVE  LevelOf[p] = process_table[i].level /\ AllowedOf[p] = process_table[i].whitelist
  <2>1. Found(i, p)
    BY <1>1, <1>3, FoundIs
  <2>2. \A j \in Entries : Found(j, p) => j = i
    BY <1>3, <1>1, FoundIs DEF SecurityInv, OneEntry
  <2>3. EntryOf(p) = process_table[i]
    BY <2>1, <2>2 DEF EntryOf
  <2> QED
    BY <1>3, <2>3 DEF LevelOf, AllowedOf
<1>4. ~Known(p) => LevelOf[p] = "user" /\ AllowedOf[p] = {}
  BY DEF LevelOf, AllowedOf
<1> QED
  BY <1>1, <1>2, <1>3, <1>4 DEF View

LEMMA TableIsMapNext == SecurityInv' => Views'
BY TableIsMap, PTL

(* Two maps over the processes are equal if they agree on each.             *)
LEMMA SameLevels ==
  ASSUME NEW f, f = [p \in Pids |-> f[p]], \A p \in Pids : LevelOf'[p] = f[p]
  PROVE  LevelOf' = f
BY DEF LevelOf

LEMMA SameAllowed ==
  ASSUME NEW f, f = [p \in Pids |-> f[p]], \A p \in Pids : AllowedOf'[p] = f[p]
  PROVE  AllowedOf' = f
BY DEF AllowedOf

(* A free entry leaves room in the map for one process more.                *)
LEMMA RoomLeft ==
  ASSUME SecurityInv, NEW i \in Entries, process_table[i].pid = 0
  PROVE  Cardinality(KnownPids) < MAX_PROCESSES
<1> DEFINE f == [p \in KnownPids |-> CHOOSE j \in Entries : process_table[j].pid = p]
<1>1. \A p \in KnownPids : f[p] \in Entries /\ process_table[f[p]].pid = p /\ p # 0
  BY DEF KnownPids
<1>2. f \in [KnownPids -> Entries \ {i}]
  BY <1>1
<1> HIDE DEF f
<1>3. f \in Injection(KnownPids, Entries \ {i})
  BY <1>1, <1>2, Fun_IsInj
<1>4. IsFiniteSet(Entries) /\ Cardinality(Entries) = MAX_PROCESSES
  BY FS_Interval, SecurityCoreAssumption DEF Entries
<1>5. IsFiniteSet(Entries \ {i}) /\ Cardinality(Entries \ {i}) = MAX_PROCESSES - 1
  BY <1>4, FS_RemoveElement
<1>6. IsFiniteSet(KnownPids) /\ Cardinality(KnownPids) <= MAX_PROCESSES - 1
  BY <1>3, <1>5, FS_Injection
<1>7. Cardinality(KnownPids) \in Nat
  BY <1>6, FS_CardinalityType
<1> QED
  BY <1>6, <1>7, SecurityCoreAssumption

(* The policy counts as the table does.                                     *)
LEMMA SameCardinality == ASSUME NEW S PROVE Policy!Cardinality(S) = Cardinality(S)
BY DEF Policy!Cardinality, Cardinality

LEMMA SyscallCount == Policy!Cardinality(Syscalls) = MAX_SYSCALLS
<1>1. Cardinality(Syscalls) = MAX_SYSCALLS
  BY FS_Interval, SecurityCoreAssumption DEF Syscalls
<1> QED
  BY <1>1, SameCardinality

(* A call that leaves the table alone leaves the map alone.                 *)
LEMMA SameMap ==
  ASSUME Views, Views', UNCHANGED process_table
  PROVE  KnownPids' = KnownPids /\ LevelOf' = LevelOf /\ AllowedOf' = AllowedOf
<1>1. ASSUME NEW q \in Pids
      PROVE  LevelOf'[q] = LevelOf[q] /\ AllowedOf'[q] = AllowedOf[q]
  <2>1. View(q) /\ View(q)'
    BY DEF Views
  <2>2. CASE q # 0 /\ \E i \in Entries : process_table[i].pid = q
    <3>1. PICK i \in Entries : process_table[i].pid = q
      BY <2>2
    <3> QED
      BY <2>1, <2>2, <3>1 DEF View
  <2>3. CASE ~(q # 0 /\ \E i \in Entries : process_table[i].pid = q)
    BY <2>1, <2>3 DEF View
  <2> QED
    BY <2>2, <2>3
<1>2. KnownPids' = KnownPids
  BY DEF KnownPids
<1>3. LevelOf = [q \in Pids |-> LevelOf[q]] /\ AllowedOf = [q \in Pids |-> AllowedOf[q]]
  BY DEF LevelOf, AllowedOf
<1> QED
  BY <1>1, <1>2, <1>3, SameLevels, SameAllowed

(* A call that changes nothing is a whitelist call that replaces nothing.   *)
LEMMA NothingGiven ==
  ASSUME Views, Views', NEW p \in Pids, UNCHANGED process_table, ~Known(p), Silent
  PROVE  Policy!SetWhitelist(p, {}, 0)
<1>1. KnownPids' = KnownPids /\ LevelOf' = LevelOf /\ AllowedOf' = AllowedOf
  BY SameMap
<1>2. p \notin KnownPids
  BY DEF Views, View
<1>3. AllowedOf = [AllowedOf EXCEPT ![p] = AllowedOf[p]]
  BY DEF AllowedOf
<1> QED
  BY <1>1, <1>2, <1>3 DEF Policy!SetWhitelist, Policy!Silent, Silent, LevelOf, AllowedOf

LEMMA LevelRefines ==
  ASSUME SecurityInv, Views, Views', NEW p \in Pids, NEW l \in Levels,
         security_set_process_level(p, l)
  PROVE  Policy!SetLevel(p, l) \/ Policy!SetWhitelist(p, {}, 0)
<1>0. SecurityTypeOK /\ OneEntry /\ Silent
  BY DEF SecurityInv, security_set_process_level
<1>1. ASSUME KnownPids' = KnownPids \union {p}, LevelOf'[p] = l, AllowedOf' = AllowedOf,
             \A q \in Pids \ {p} : LevelOf'[q] = LevelOf[q],
             p \in KnownPids \/ Cardinality(KnownPids) < MAX_PROCESSES
      PROVE  Policy!SetLevel(p, l)
  <2>1. LevelOf' = [LevelOf EXCEPT ![p] = l]
    <3>1. [LevelOf EXCEPT ![p] = l] = [q \in Pids |-> [LevelOf EXCEPT ![p] = l][q]]
      BY DEF LevelOf
    <3>2. \A q \in Pids : LevelOf'[q] = [LevelOf EXCEPT ![p] = l][q]
      BY <1>1 DEF LevelOf
    <3> QED
      BY <3>1, <3>2, SameLevels
  <2> QED
    BY <1>0, <1>1, <2>1, SameCardinality
       DEF Policy!SetLevel, Policy!Silent, Silent, LevelOf, AllowedOf
<1>2. CASE UpdateLevel(p, l)
  <2>1. PICK i \in Entries : Found(i, p) /\ process_table' = [process_table EXCEPT ![i].level = l]
    BY <1>2 DEF UpdateLevel
  <2>2. p # 0 /\ process_table[i].pid = p
    BY <2>1, FoundIs
  <2>3. /\ \A j \in Entries : /\ process_table'[j].pid = process_table[j].pid
                              /\ process_table'[j].whitelist = process_table[j].whitelist
        /\ process_table'[i].level = l
        /\ \A j \in Entries \ {i} : process_table'[j].level = process_table[j].level
    BY <1>0, <2>1 DEF SecurityTypeOK, Entry
  <2>4. KnownPids' = KnownPids /\ p \in KnownPids
    BY <2>2, <2>3 DEF KnownPids
  <2>5. LevelOf'[p] = l
    BY <2>2, <2>3 DEF Views, View
  <2>6. ASSUME NEW q \in Pids
        PROVE  AllowedOf'[q] = AllowedOf[q] /\ (q # p => LevelOf'[q] = LevelOf[q])
    <3>1. View(q) /\ View(q)'
      BY DEF Views
    <3>2. CASE q # 0 /\ \E j \in Entries : process_table[j].pid = q
      <4>1. PICK j \in Entries : process_table[j].pid = q
        BY <3>2
      <4>2. q # p => j # i
        BY <2>2, <4>1
      <4> QED
        BY <2>3, <3>1, <3>2, <4>1, <4>2 DEF View
    <3>3. CASE ~(q # 0 /\ \E j \in Entries : process_table[j].pid = q)
      BY <2>3, <3>1, <3>3 DEF View
    <3> QED
      BY <3>2, <3>3
  <2>7. AllowedOf' = AllowedOf
    <3>1. AllowedOf = [q \in Pids |-> AllowedOf[q]]
      BY DEF AllowedOf
    <3> QED
      BY <2>6, <3>1, SameAllowed
  <2> QED
    BY <1>1, <2>4, <2>5, <2>6, <2>7
<1>3. CASE ClaimEntry(p, l)
  <2>1. PICK i \in Entries :
          /\ FirstWith(i, 0)
          /\ process_table' = [process_table EXCEPT ![i].pid = p, ![i].level = l]
    BY <1>3 DEF ClaimEntry
  <2>2. p # 0 /\ ~Known(p) /\ \A j \in Entries : process_table[j].pid # p
    BY <1>3, FoundIs DEF ClaimEntry, Known
  <2>3. process_table[i].pid = 0
    BY <2>1 DEF FirstWith
  <2>4. /\ process_table'[i].pid = p /\ process_table'[i].level = l
        /\ process_table'[i].whitelist = process_table[i].whitelist
        /\ \A j \in Entries \ {i} : process_table'[j] = process_table[j]
    BY <1>0, <2>1 DEF SecurityTypeOK, Entry
  <2>5. KnownPids' = KnownPids \union {p}
    BY <2>2, <2>3, <2>4 DEF KnownPids
  <2>6. Cardinality(KnownPids) < MAX_PROCESSES
    BY <2>3, RoomLeft
  <2>7. LevelOf'[p] = l
    BY <2>2, <2>4 DEF Views, View
  <2>8. ASSUME NEW q \in Pids, q # p
        PROVE  AllowedOf'[q] = AllowedOf[q] /\ LevelOf'[q] = LevelOf[q]
    <3>1. View(q) /\ View(q)'
      BY DEF Views
    <3>2. CASE q # 0 /\ \E j \in Entries : process_table[j].pid = q
      <4>1. PICK j \in Entries : process_table[j].pid = q
        BY <3>2
      <4>2. j # i
        BY <2>3, <3>2, <4>1
      <4> QED
        BY <2>4, <3>1, <3>2, <4>1, <4>2 DEF View
    <3>3. CASE ~(q # 0 /\ \E j \in Entries : process_table[j].pid = q)
      BY <2>2, <2>4, <2>8, <3>1, <3>3 DEF View
    <3> QED
      BY <3>2, <3>3
  <2>9. AllowedOf'[p] = AllowedOf[p]
    <3>1. AllowedOf[p] = {} /\ process_table[i].whitelist = {}
      BY <2>2, <2>3 DEF Views, View, SecurityInv, FreeIsBlank
    <3> QED
      BY <2>2, <2>4, <3>1 DEF Views, View
  <2>10. AllowedOf' = AllowedOf
    <3>1. AllowedOf = [q \in Pids |-> AllowedOf[q]]
      BY DEF AllowedOf
    <3> QED
      BY <2>8, <2>9, <3>1, SameAllowed
  <2> QED
    BY <1>1, <2>5, <2>6, <2>7, <2>8, <2>10
<1>4. CASE KeepTable(p)
  BY <1>0, <1>4, NothingGiven DEF KeepTable
<1> QED
  BY <1>2, <1>3, <1>4 DEF security_set_process_level

(* A list longer than the table of system calls counts as the whole table,  *)
(* a negative length as none.                                               *)
LEMMA WhitelistRefines ==
  ASSUME SecurityInv, Views, Views', NEW p \in Pids, NEW n \in Counts,
         NEW list \in SUBSET {s \in Syscalls : s < n}, security_set_whitelist(p, list, n)
  PROVE  \E m \in 0 .. MAX_SYSCALLS :
           list \in SUBSET {s \in Syscalls : s < m} /\ Policy!SetWhitelist(p, list, m)
<1> DEFINE m == IF n < 0 THEN 0 ELSE IF n > MAX_SYSCALLS THEN MAX_SYSCALLS ELSE n
           Kept(set) == {s \in set : s >= m} \union list
<1>1. m \in 0 .. MAX_SYSCALLS /\ \A s \in Syscalls : s < n <=> s < m
  BY SecurityCoreAssumption DEF Syscalls
<1>2. \A s \in Syscalls : s >= n <=> s >= m
  BY SecurityCoreAssumption DEF Syscalls
<1>3. Silent
  BY DEF security_set_whitelist
<1> HIDE DEF m
<1>4. list \in SUBSET {s \in Syscalls : s < m}
  BY <1>1
<1>5. \A i \in Entries :
        /\ process_table'[i].pid = process_table[i].pid
        /\ process_table'[i].level = process_table[i].level
        /\ process_table'[i].whitelist =
             IF p # 0 /\ process_table[i].pid = p
               THEN Kept(process_table[i].whitelist) ELSE process_table[i].whitelist
  <2> SUFFICES ASSUME NEW i \in Entries
               PROVE  {s \in process_table[i].whitelist : s >= n}
                        = {s \in process_table[i].whitelist : s >= m}
    BY WhitelistStep
  <2>1. process_table[i].whitelist \subseteq Syscalls
    BY DEF SecurityInv, SecurityTypeOK, Entry
  <2> QED
    BY <1>2, <2>1
<1>6. KnownPids' = KnownPids
  BY <1>5 DEF KnownPids
<1>7. ASSUME NEW q \in Pids
      PROVE  /\ LevelOf'[q] = LevelOf[q]
             /\ AllowedOf'[q] = IF q = p /\ p \in KnownPids THEN Kept(AllowedOf[q]) ELSE AllowedOf[q]
  <2>1. View(q) /\ View(q)'
    BY DEF Views
  <2>2. CASE q # 0 /\ \E j \in Entries : process_table[j].pid = q
    <3>1. PICK j \in Entries : process_table[j].pid = q
      BY <2>2
    <3>2. /\ LevelOf'[q] = process_table'[j].level /\ LevelOf[q] = process_table[j].level
          /\ AllowedOf'[q] = process_table'[j].whitelist
          /\ AllowedOf[q] = process_table[j].whitelist
          /\ q \in KnownPids
      BY <1>5, <2>1, <2>2, <3>1 DEF View
    <3> QED
      BY <1>5, <2>2, <3>1, <3>2
  <2>3. CASE ~(q # 0 /\ \E j \in Entries : process_table[j].pid = q)
    <3>1. LevelOf'[q] = LevelOf[q] /\ AllowedOf'[q] = AllowedOf[q] /\ q \notin KnownPids
      BY <1>5, <2>1, <2>3 DEF View
    <3> QED
      BY <3>1
  <2> QED
    BY <2>2, <2>3
<1>8. LevelOf' = LevelOf
  <2>1. LevelOf = [q \in Pids |-> LevelOf[q]]
    BY DEF LevelOf
  <2> QED
    BY <1>7, <2>1, SameLevels
<1>9. AllowedOf' = [AllowedOf EXCEPT ![p] = IF p \in KnownPids THEN Kept(@) ELSE @]
  <2> DEFINE f == [AllowedOf EXCEPT ![p] = IF p \in KnownPids THEN Kept(@) ELSE @]
  <2>1. f = [q \in Pids |-> f[q]]
    BY DEF AllowedOf
  <2>2. \A q \in Pids : f[q] = IF q = p /\ p \in KnownPids THEN Kept(AllowedOf[q]) ELSE AllowedOf[q]
    BY DEF AllowedOf
  <2> HIDE DEF f
  <2>3. AllowedOf' = f
    BY <1>7, <2>1, <2>2, SameAllowed
  <2> QED
    BY <2>3 DEF f
<1>10. Policy!SetWhitelist(p, list, m)
  BY <1>3, <1>6, <1>8, <1>9 DEF Policy!SetWhitelist, Policy!Silent, Silent, LevelOf, AllowedOf
<1> QED
  BY <1>1, <1>4, <1>10

LEMMA CheckRefines ==
  ASSUME SecurityInv, Views, Views', NEW p \in Pids, NEW s \in 0 .. MAX_SYSCALLS,
         security_check_syscall(s, p)
  PROVE  Policy!Check(s, p) \/ UnknownRefused
<1>1. KnownPids' = KnownPids /\ LevelOf' = LevelOf /\ AllowedOf' = AllowedOf
  BY SameMap DEF security_check_syscall
<1>2. View(p)
  BY DEF Views
<1>3. CASE Known(p)
  <2>1. /\ answer' = [id |-> s, pid |-> p, granted |-> s \in AllowedOf[p]]
        /\ quarantined' = IF s \in AllowedOf[p] THEN {} ELSE {p}
    <3>1. PICK i \in Entries : Found(i, p)
      BY <1>3 DEF Known
    <3>2. p # 0 /\ process_table[i].pid = p /\ \A j \in Entries : Found(j, p) => j = i
      BY <3>1, FoundIs DEF SecurityInv, OneEntry
    <3>3. AllowedOf[p] = process_table[i].whitelist
      BY <1>2, <1>3, <3>2 DEF View
    <3>4. Permitted(s, p) <=> s \in AllowedOf[p]
      BY <3>1, <3>2, <3>3 DEF Permitted
    <3>5. CASE s \in AllowedOf[p]
      <4>1. answer' = [id |-> s, pid |-> p, granted |-> TRUE] /\ quarantined' = {}
        BY <1>3, <3>4, <3>5 DEF security_check_syscall, CheckUnknown, CheckPermitted,
           CheckForbidden, Return
      <4>2. (s \in AllowedOf[p]) = TRUE
        BY <3>5
      <4> QED
        BY <3>5, <4>1, <4>2, Zenon
    <3>6. CASE s \notin AllowedOf[p]
      <4>1. answer' = [id |-> s, pid |-> p, granted |-> FALSE] /\ quarantined' = {p}
        BY <1>3, <3>4, <3>6 DEF security_check_syscall, CheckUnknown, CheckPermitted,
           CheckForbidden, Return, quarantine_process
      <4>2. (s \in AllowedOf[p]) = FALSE
        BY <3>6
      <4> QED
        BY <3>6, <4>1, <4>2, Zenon
    <3> QED
      BY <3>5, <3>6
  <2>2. Policy!Check(s, p)
    BY <1>1, <2>1 DEF Policy!Check, LevelOf, AllowedOf
  <2> QED
    BY <2>2
<1>4. CASE ~Known(p)
  <2>1. ~Permitted(s, p)
    BY <1>4 DEF Permitted, Known
  <2>2. p \in Pids \ KnownPids
    BY <1>2, <1>4 DEF View
  <2>3. /\ answer' = [id |-> s, pid |-> p, granted |-> FALSE] /\ quarantined' = {}
        /\ UNCHANGED process_table
    BY <1>4, <2>1 DEF security_check_syscall, CheckUnknown, CheckPermitted,
       CheckForbidden, Return
  <2>4. UnknownRefused
    BY <2>2, <2>3 DEF UnknownRefused
  <2> QED
    BY <2>4
<1> QED
  BY <1>3, <1>4

LEMMA QuarantineRefines ==
  ASSUME Views, Views', NEW p \in Pids, quarantine_process(p), answer' = NoAnswer,
         UNCHANGED process_table
  PROVE  Policy!Quarantine(p)
<1>1. KnownPids' = KnownPids /\ LevelOf' = LevelOf /\ AllowedOf' = AllowedOf
  BY SameMap
<1> QED
  BY <1>1 DEF Policy!Quarantine, quarantine_process, LevelOf, AllowedOf

LEMMA PolicyInit == SecurityInit => Policy!Init
<1> SUFFICES ASSUME SecurityInit PROVE Policy!Init
  OBVIOUS
<1>1. SecurityInv /\ Views
  BY SecurityInvInit, TableIsMap
<1>2. \A i \in Entries : process_table[i].pid = 0
  BY DEF SecurityInit
<1>3. KnownPids = {}
  BY <1>2 DEF KnownPids
<1>4. LevelOf = [p \in Pids |-> "user"] /\ AllowedOf = [p \in Pids |-> {}]
  BY <1>1, <1>2 DEF LevelOf, AllowedOf, Views, View
<1> QED
  BY <1>3, <1>4 DEF Policy!Init, SecurityInit, LevelOf, AllowedOf

LEMMA PolicyStep ==
  SecurityInv /\ SecurityInv' /\ [SecurityNext]_securityVars
    => [Policy!Next \/ UnknownRefused]_Policy!vars
<1> SUFFICES ASSUME SecurityInv, SecurityInv', [SecurityNext]_securityVars
             PROVE  [Policy!Next \/ UnknownRefused]_Policy!vars
  OBVIOUS
<1>1. Views /\ Views'
  BY TableIsMap, TableIsMapNext
<1>2. CASE UNCHANGED securityVars
  <2>1. UNCHANGED <<process_table, quarantined, answer>>
    BY <1>2 DEF securityVars
  <2>2. KnownPids' = KnownPids /\ LevelOf' = LevelOf /\ AllowedOf' = AllowedOf
    BY <1>1, <2>1, SameMap
  <2> QED
    BY <2>1, <2>2 DEF Policy!vars, LevelOf, AllowedOf
<1>3. ASSUME NEW p \in Pids, SecurityCall(p) PROVE Policy!Next \/ UnknownRefused
  <2>1. ASSUME NEW l \in Levels, security_set_process_level(p, l) PROVE Policy!Next
    <3>1. CASE Policy!SetLevel(p, l)
      BY <3>1 DEF Policy!Next
    <3>2. CASE Policy!SetWhitelist(p, {}, 0)
      <4>1. 0 \in 0 .. Policy!Cardinality(Syscalls)
        BY SyscallCount, SecurityCoreAssumption
      <4>2. {} \in SUBSET {s \in Syscalls : s < 0}
        OBVIOUS
      <4> QED
        BY <3>2, <4>1, <4>2 DEF Policy!Next
    <3> QED
      BY <1>1, <2>1, <3>1, <3>2, LevelRefines
  <2>2. ASSUME NEW n \in Counts, NEW list \in SUBSET {s \in Syscalls : s < n},
               security_set_whitelist(p, list, n)
        PROVE  Policy!Next
    <3>1. PICK m \in 0 .. MAX_SYSCALLS :
            list \in SUBSET {s \in Syscalls : s < m} /\ Policy!SetWhitelist(p, list, m)
      BY <1>1, <2>2, WhitelistRefines
    <3> QED
      BY <3>1, SyscallCount DEF Policy!Next
  <2>3. ASSUME NEW s \in 0 .. MAX_SYSCALLS, security_check_syscall(s, p)
        PROVE  Policy!Next \/ UnknownRefused
    <3>1. CASE Policy!Check(s, p)
      BY <3>1, SyscallCount DEF Policy!Next
    <3>2. Policy!Check(s, p) \/ UnknownRefused
      BY <1>1, <2>3, CheckRefines
    <3> QED
      BY <3>1, <3>2
  <2>4. ASSUME quarantine_process(p), answer' = NoAnswer, UNCHANGED process_table
        PROVE  Policy!Next
    BY <1>1, <2>4, QuarantineRefines DEF Policy!Next
  <2> QED
    BY <1>3, <2>1, <2>2, <2>3, <2>4 DEF SecurityCall
<1> QED
  BY <1>2, <1>3 DEF SecurityNext

(* The searched table implements the map of rights and its quarantine, but  *)
(* for the calls of a process that has no entry, which are only refused     *)
(* (kernel/security_core.c:77).                                             *)
THEOREM TableImplementsPolicy == SecuritySpec => ImplementsPolicy
BY SecurityInvInit, SecurityInvStep, PolicyInit, PolicyStep, PTL
   DEF SecuritySpec, ImplementsPolicy
===============================================================================
