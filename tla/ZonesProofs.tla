------------------------------ MODULE ZonesProofs -----------------------------
(* Facts about the arithmetic of the memory core, for any width of the      *)
(* addresses, any alignments and any range of memory; what MemoryCoreProofs *)
(* and KernelMainProofs rest on.                                            *)
EXTENDS Zones, TLAPS

-----------------------------------------------------------------------------
(* Arithmetic: division with remainder, and multiples.                      *)

LEMMA DivMod ==
  ASSUME NEW x \in Int, NEW a \in Nat \ {0}
  PROVE  x % a \in 0 .. a - 1 /\ x \div a \in Int /\ x = (a * (x \div a)) + (x % a)
<1>1. x % a \in 0 .. a - 1
  OBVIOUS
<1>2. x \div a \in Int
  OBVIOUS
<1>3. x = (a * (x \div a)) + (x % a)
  OBVIOUS
<1> QED
  BY <1>1, <1>2, <1>3

LEMMA NextMultiple ==
  ASSUME NEW a \in Nat \ {0}, NEW p \in Int, NEW q \in Int, p < q
  PROVE  a * p \in Int /\ a * q \in Int /\ (a * p) + a <= a * q
OBVIOUS

LEMMA MultipleMod == ASSUME NEW a \in Nat \ {0}, NEW q \in Int PROVE (a * q) % a = 0
<1> DEFINE x == a * q
           d == x \div a
           m == x % a
<1>0. x \in Int
  OBVIOUS
<1>1. d \in Int /\ m \in 0 .. a - 1 /\ x = (a * d) + m /\ a * d \in Int
  <2> HIDE DEF x
  <2> QED
    BY <1>0, DivMod
<1> HIDE DEF d, m
<1>2. ~(d < q)
  <2> SUFFICES ASSUME d < q PROVE FALSE
    OBVIOUS
  <2>1. a * d + a <= x
    BY <1>0, <1>1, NextMultiple
  <2> QED
    BY <1>0, <1>1, <2>1
<1>3. ~(q < d)
  <2> SUFFICES ASSUME q < d PROVE FALSE
    OBVIOUS
  <2>1. x + a <= a * d
    BY <1>0, <1>1, NextMultiple
  <2> QED
    BY <1>0, <1>1, <2>1
<1>4. d = q
  BY <1>1, <1>2, <1>3
<1>5. m = 0
  BY <1>0, <1>1, <1>4
<1> QED
  BY <1>5 DEF m

(* Sums, differences and multiples of multiples are multiples.              *)
LEMMA Multiples ==
  ASSUME NEW a \in Nat \ {0}, NEW x \in Int, NEW y \in Int, x % a = 0, y % a = 0
  PROVE  (x + y) % a = 0 /\ (x - y) % a = 0
<1> DEFINE p == x \div a
           q == y \div a
<1>1. x = a * p /\ y = a * q /\ p \in Int /\ q \in Int
  BY DivMod
<1> HIDE DEF p, q
<1>2. x + y = a * (p + q) /\ x - y = a * (p - q) /\ p + q \in Int /\ p - q \in Int
  BY <1>1
<1>3. (a * (p + q)) % a = 0 /\ (a * (p - q)) % a = 0
  BY <1>2, MultipleMod
<1> QED
  BY <1>2, <1>3

LEMMA MultipleOfMultiple ==
  ASSUME NEW a \in Nat \ {0}, NEW b \in Nat \ {0}, NEW x \in Int, b % a = 0, x % b = 0
  PROVE  x % a = 0
<1> DEFINE p == b \div a
           q == x \div b
<1>1. b = a * p /\ x = b * q /\ p \in Int /\ q \in Int
  BY DivMod
<1> HIDE DEF p, q
<1>2. x = a * (p * q) /\ p * q \in Int
  BY <1>1
<1> QED
  BY <1>2, MultipleMod

(* Two multiples that differ differ by the modulus at least.                *)
LEMMA MultiplesApart ==
  ASSUME NEW a \in Nat \ {0}, NEW x \in Int, NEW y \in Int, x % a = 0, y % a = 0, x < y
  PROVE  x + a <= y
<1> DEFINE p == x \div a
           q == y \div a
<1>1. x = a * p /\ y = a * q /\ p \in Int /\ q \in Int
  BY DivMod
<1> HIDE DEF p, q
<1>2. ~(q < p) /\ p # q
  <2>1. ASSUME q < p PROVE FALSE
    <3>1. a * q + a <= a * p
      BY <1>1, <2>1, NextMultiple
    <3> QED
      BY <1>1, <3>1
  <2> QED
    BY <1>1, <2>1
<1> QED
  BY <1>1, <1>2, NextMultiple

LEMMA AlignDown ==
  ASSUME NEW v \in Nat, NEW a \in Nat \ {0}
  PROVE  /\ align_down(v, a) \in Nat /\ align_down(v, a) <= v /\ v < align_down(v, a) + a
         /\ align_down(v, a) % a = 0
<1>1. v % a \in 0 .. a - 1 /\ v \div a \in Int /\ v = (a * (v \div a)) + (v % a)
  BY DivMod
<1>2. align_down(v, a) = a * (v \div a)
  BY <1>1 DEF align_down
<1>3. align_down(v, a) % a = 0
  BY <1>1, <1>2, MultipleMod
<1>4. v \div a >= 0
  <2>1. ASSUME v \div a < 0 PROVE FALSE
    <3>1. a * (v \div a) + a <= a * 0
      BY <1>1, <2>1, NextMultiple
    <3> QED
      BY <1>1, <3>1
  <2> QED
    BY <1>1, <2>1
<1>5. a * (v \div a) >= 0
  BY <1>1, <1>4
<1> QED
  BY <1>1, <1>2, <1>3, <1>5

-----------------------------------------------------------------------------
(* Addresses                                                                *)

LEMMA Alignments ==
  /\ W \in Nat \ {0} /\ PAGE_ALIGN \in Nat \ {0} /\ ALLOC_ALIGN \in Nat \ {0}
  /\ PAGE_ALIGN % ALLOC_ALIGN = 0 /\ W % PAGE_ALIGN = 0 /\ W % ALLOC_ALIGN = 0
  /\ ZONE_KERNEL_MAX \in Address /\ ZONE_KERNEL_MAX % PAGE_ALIGN = 0
  /\ ZONE_SERVICE_MIN \in Address
<1>1. /\ W \in Nat \ {0} /\ PAGE_ALIGN \in Nat \ {0} /\ ALLOC_ALIGN \in Nat \ {0}
      /\ PAGE_ALIGN % ALLOC_ALIGN = 0 /\ W % PAGE_ALIGN = 0
      /\ ZONE_KERNEL_MAX \in Address /\ ZONE_KERNEL_MAX % PAGE_ALIGN = 0
      /\ ZONE_SERVICE_MIN \in Address /\ W \in Int
  BY ZonesAssumption DEF Address
<1>2. W % ALLOC_ALIGN = 0
  BY <1>1, MultipleOfMultiple
<1> QED
  BY <1>1, <1>2

LEMMA SmallMod ==
  /\ \A x \in Int : x % W \in Address
  /\ \A x \in Address : x \in Nat /\ x % W = x
<1>1. W \in Nat \ {0}
  BY Alignments
<1> QED
  BY <1>1 DEF Address

LEMMA Wraps ==
  /\ \A x, y \in Int : Add(x, y) \in Address /\ Sub(x, y) \in Address
  /\ \A x, y \in Address : x + y < W => Add(x, y) = x + y
  /\ \A x, y \in Address : y <= x => Sub(x, y) = x - y
<1>1. ASSUME NEW x \in Address, NEW y \in Address
      PROVE  /\ x \in Int /\ y \in Int
             /\ x + y < W => x + y \in Address
             /\ y <= x => x - y \in Address
  BY Alignments DEF Address
<1>2. \A x, y \in Int : x + y \in Int /\ x - y \in Int
  OBVIOUS
<1>3. \A x, y \in Int : Add(x, y) \in Address /\ Sub(x, y) \in Address
  BY <1>2, SmallMod DEF Add, Sub
<1>4. \A x, y \in Address : x + y < W => Add(x, y) = x + y
  BY <1>1, SmallMod DEF Add
<1>5. \A x, y \in Address : y <= x => Sub(x, y) = x - y
  BY <1>1, SmallMod DEF Sub
<1> QED
  BY <1>3, <1>4, <1>5

(* Aligning upwards below an aligned limit does not wrap and stays below.   *)
LEMMA AlignUp ==
  ASSUME NEW a \in Nat \ {0}, W % a = 0, NEW v \in Address
  PROVE  /\ align_up(v, a) \in Address /\ align_up(v, a) % a = 0
         /\ \A e \in Address : v <= e /\ e % a = 0 => v <= align_up(v, a) /\ align_up(v, a) <= e
<1>1. W \in Nat \ {0} /\ v \in Nat /\ v < W
  BY Alignments DEF Address
<1>2. Add(v, a - 1) \in Address /\ Add(v, a - 1) \in Nat
  BY <1>1, Wraps DEF Address
<1>3. /\ align_up(v, a) \in Nat /\ align_up(v, a) <= Add(v, a - 1)
      /\ Add(v, a - 1) < align_up(v, a) + a /\ align_up(v, a) % a = 0
  BY <1>2, AlignDown DEF align_up
<1>4. align_up(v, a) \in Address
  BY <1>1, <1>2, <1>3 DEF Address
<1>5. ASSUME NEW e \in Address, v <= e, e % a = 0
      PROVE  v <= align_up(v, a) /\ align_up(v, a) <= e
  <2>1. e \in Int /\ e < W /\ W \in Int
    BY <1>1 DEF Address
  <2>2. e + a <= W
    BY <1>5, <2>1, MultiplesApart
  <2>3. v + (a - 1) \in Address /\ v + (a - 1) \in Int
    BY <1>1, <1>5, <2>1, <2>2 DEF Address
  <2>4. Add(v, a - 1) = v + (a - 1)
    BY <1>1, <2>3, SmallMod DEF Add
  <2>5. v <= align_up(v, a)
    BY <1>1, <1>3, <2>4
  <2>6. ~(e < align_up(v, a))
    <3> SUFFICES ASSUME e < align_up(v, a) PROVE FALSE
      OBVIOUS
    <3>1. e + a <= align_up(v, a)
      BY <1>3, <1>5, <2>1, MultiplesApart
    <3> QED
      BY <1>1, <1>3, <1>5, <2>1, <2>4, <3>1
  <2> QED
    BY <1>3, <2>1, <2>5, <2>6
<1> QED
  BY <1>3, <1>4, <1>5

(* Aligning downwards above a limit, where that is what the code checks.    *)
LEMMA AlignDownIn ==
  ASSUME NEW a \in Nat \ {0}, NEW v \in Address
  PROVE  align_down(v, a) \in Address /\ align_down(v, a) <= v /\ align_down(v, a) % a = 0
<1>1. v \in Nat /\ v < W /\ W \in Nat
  BY Alignments DEF Address
<1>2. align_down(v, a) \in Nat /\ align_down(v, a) <= v /\ align_down(v, a) % a = 0
  BY <1>1, AlignDown
<1> QED
  BY <1>1, <1>2 DEF Address

(* A multiple of the page is one of the pointer alignment.                  *)
LEMMA PagesAreAligned == ASSUME NEW x \in Int, x % PAGE_ALIGN = 0 PROVE x % ALLOC_ALIGN = 0
BY Alignments, MultipleOfMultiple

-----------------------------------------------------------------------------
(* The layout.                                                              *)

Aligned(x) == x % ALLOC_ALIGN = 0

(* Zones in order, without a gap, with aligned ends.                        *)
Tiles(z) ==
  /\ z \in [Zone -> Allocator]
  /\ z["kernel"].end = z["app"].start
  /\ z["app"].end = z["service"].start
  /\ \A t \in Zone :
       /\ z[t].start <= z[t].current /\ z[t].current <= z[t].end
       /\ Aligned(z[t].end)

LEMMA Halves == ASSUME NEW x \in Nat, NEW k \in Nat \ {0} PROVE x \div k \in Nat /\ x \div k <= x
OBVIOUS

(* The sizes of the three zones: whole pages that share the range out, and  *)
(* FastApp no larger than Service.                                          *)
LEMMA Sizes ==
  ASSUME NEW total \in Nat
  PROVE  LET K == KernelSize(total)
             A == AppSize(total)
         IN /\ K \in Nat /\ K <= total /\ K % PAGE_ALIGN = 0
            /\ A \in Nat /\ A <= total - K /\ A % PAGE_ALIGN = 0
            /\ ServiceSize(total) = total - K - A /\ A <= ServiceSize(total)
<1> DEFINE K == KernelSize(total)
           A == AppSize(total)
<1>1. PAGE_ALIGN \in Nat \ {0}
  BY Alignments
<1>2. K \in Nat /\ K <= total /\ K % PAGE_ALIGN = 0
  <2> DEFINE e == align_down(total \div 8, PAGE_ALIGN)
  <2>1. total \div 8 \in Nat /\ total \div 8 <= total
    BY Halves
  <2>2. e \in Nat /\ e <= total \div 8 /\ e % PAGE_ALIGN = 0
    BY <1>1, <2>1, AlignDown
  <2>3. K = IF e > ZONE_KERNEL_MAX THEN ZONE_KERNEL_MAX ELSE e
    BY DEF KernelSize
  <2>4. ZONE_KERNEL_MAX \in Nat /\ ZONE_KERNEL_MAX % PAGE_ALIGN = 0
    BY Alignments DEF Address
  <2> HIDE DEF e, K
  <2> QED
    BY <2>1, <2>2, <2>3, <2>4
<1>3. total - K \in Nat
  <2> HIDE DEF K
  <2> QED
    BY <1>2
<1>4. A \in Nat /\ A + A <= total - K /\ A <= total - K /\ A % PAGE_ALIGN = 0
  <2> DEFINE h == (total - K) \div 2
  <2>0. A = align_down(h, PAGE_ALIGN)
    BY DEF AppSize
  <2> HIDE DEF K, A
  <2>1. h \in Nat /\ h + h <= total - K
    BY <1>3
  <2> HIDE DEF h
  <2>2. A \in Nat /\ A <= h /\ A % PAGE_ALIGN = 0
    BY <1>1, <2>0, <2>1, AlignDown
  <2> QED
    BY <1>3, <2>1, <2>2
<1>5. ServiceSize(total) = total - K - A
  BY DEF ServiceSize
<1> HIDE DEF K, A
<1>6. A <= ServiceSize(total)
  BY <1>2, <1>3, <1>4, <1>5
<1> QED
  BY <1>2, <1>4, <1>5, <1>6 DEF K, A

(* A range of memory that holds a whole number of pages.                    *)
Usable(start, end) ==
  /\ start \in Address /\ end \in Address
  /\ start <= align_up(start, PAGE_ALIGN)
  /\ align_up(start, PAGE_ALIGN) <= align_down(end, PAGE_ALIGN)

(* The three zones in order, from the first whole page to the last.         *)
LEMMA LayoutTiles ==
  ASSUME NEW start, NEW end, Usable(start, end)
  PROVE  LET z == Layout(start, end)
             total == Total(align_up(start, PAGE_ALIGN), align_down(end, PAGE_ALIGN))
         IN /\ Tiles(z) /\ total \in Nat
            /\ z["kernel"].start = align_up(start, PAGE_ALIGN)
            /\ z["service"].end = align_down(end, PAGE_ALIGN)
            /\ z["kernel"].current = z["kernel"].start
            /\ z["app"].current = z["app"].start
            /\ z["service"].current = z["service"].end
            /\ Size(z["kernel"]) = KernelSize(total)
            /\ Size(z["app"]) = AppSize(total)
            /\ Size(z["service"]) = ServiceSize(total)
<1> DEFINE k0 == align_up(start, PAGE_ALIGN)
           top == align_down(end, PAGE_ALIGN)
           total == Total(k0, top)
           K == KernelSize(total)
           A == AppSize(total)
           a0 == Add(k0, K)
           s0 == Add(a0, A)
           z == Layout(start, end)
<1>1. /\ k0 \in Address /\ top \in Address /\ k0 <= top
      /\ k0 % PAGE_ALIGN = 0 /\ top % PAGE_ALIGN = 0
  BY AlignUp, AlignDownIn, Alignments DEF Usable
<1>2. z = [t \in Zone |->
        CASE t = "kernel" -> zone_set(t, k0, a0)
          [] t = "app"    -> zone_set(t, a0, s0)
          [] OTHER        -> zone_set(t, s0, top)]
  BY DEF Layout
<1> HIDE DEF k0, top, z
<1>3. k0 \in Nat /\ top \in Nat /\ top < W /\ W \in Nat /\ PAGE_ALIGN \in Nat \ {0}
  BY <1>1, Alignments DEF Address
<1>4. total = top - k0 /\ total \in Nat
  BY <1>1, <1>3 DEF Total
<1> HIDE DEF total
<1>5. K \in Nat /\ K <= total /\ K % PAGE_ALIGN = 0
  BY <1>4, Sizes
<1>6. A \in Nat /\ A <= total - K /\ A % PAGE_ALIGN = 0
  BY <1>4, Sizes
<1>61. ServiceSize(total) = total - K - A
  BY <1>4, Sizes
<1> HIDE DEF K, A
<1>7. a0 = k0 + K /\ a0 \in Address /\ a0 \in Nat /\ a0 <= top
  <2>1. k0 + K \in Address /\ K \in Address /\ k0 + K < W
    BY <1>1, <1>3, <1>4, <1>5 DEF Address
  <2> QED
    BY <1>1, <1>3, <1>4, <1>5, <2>1, Wraps
<1>8. a0 % PAGE_ALIGN = 0
  <2>1. k0 \in Int /\ K \in Int
    BY <1>3, <1>5
  <2>2. (k0 + K) % PAGE_ALIGN = 0
    BY <1>1, <1>3, <1>5, <2>1, Multiples
  <2> QED
    BY <1>7, <2>2
<1> HIDE DEF a0
<1>9. s0 = a0 + A /\ s0 \in Address /\ s0 \in Nat /\ a0 <= s0 /\ s0 <= top
  <2>1. a0 + A \in Address /\ A \in Address /\ a0 + A < W
    BY <1>3, <1>4, <1>5, <1>6, <1>7 DEF Address
  <2> QED
    BY <1>3, <1>4, <1>5, <1>6, <1>7, <2>1, Wraps
<1>10. s0 % PAGE_ALIGN = 0
  BY <1>3, <1>6, <1>7, <1>8, <1>9, Multiples
<1>11. Aligned(a0) /\ Aligned(s0) /\ Aligned(top)
  BY <1>1, <1>3, <1>7, <1>8, <1>9, <1>10, PagesAreAligned DEF Aligned
<1>12. k0 <= a0
  BY <1>3, <1>5, <1>7
<1> HIDE DEF s0
<1>13. /\ z["kernel"] = [start |-> k0, end |-> a0, current |-> k0]
       /\ z["app"] = [start |-> a0, end |-> s0, current |-> a0]
       /\ z["service"] = [start |-> s0, end |-> top, current |-> top]
  BY <1>2 DEF Zone, zone_set
<1>14. z \in [Zone -> Allocator]
  <2>1. \A t \in Zone : z[t] \in Allocator
    BY <1>1, <1>7, <1>9, <1>13 DEF Zone, Allocator
  <2>2. z = [t \in Zone |-> z[t]]
    BY <1>2
  <2> QED
    BY <2>1, <2>2
<1>15. \A t \in Zone : /\ z[t].start <= z[t].current
                       /\ z[t].current <= z[t].end
                       /\ Aligned(z[t].end)
  BY <1>1, <1>3, <1>7, <1>9, <1>11, <1>12, <1>13 DEF Zone
<1>16. Tiles(z)
  BY <1>13, <1>14, <1>15 DEF Tiles
<1>17. Size(z["kernel"]) = K /\ Size(z["app"]) = A /\ Size(z["service"]) = ServiceSize(total)
  <2>1. a0 - k0 = K /\ s0 - a0 = A /\ top - s0 = total - K - A
    BY <1>3, <1>4, <1>5, <1>6, <1>7, <1>9
  <2>2. Sub(a0, k0) = a0 - k0 /\ Sub(s0, a0) = s0 - a0 /\ Sub(top, s0) = top - s0
    BY <1>1, <1>7, <1>9, <1>12, Wraps
  <2> QED
    BY <1>13, <1>61, <2>1, <2>2 DEF Size
<1> QED
  BY <1>4, <1>13, <1>16, <1>17 DEF z, k0, top, total, K, A

-----------------------------------------------------------------------------
(* The two allocators and the growth.                                       *)

LEMMA ServedUp ==
  ASSUME NEW a \in Allocator, NEW n \in Address, a.start <= a.current, a.current <= a.end,
         Aligned(a.end), FitsUp(a, n)
  PROVE  /\ UpPtr(a) \in Address /\ Aligned(UpPtr(a))
         /\ a.current <= UpPtr(a) /\ UpPtr(a) + n <= a.end
         /\ Add(UpPtr(a), n) = UpPtr(a) + n /\ UpPtr(a) + n \in Address
         /\ AfterUp(a, n) = [a EXCEPT !.current = UpPtr(a) + n]
<1>1. a.current \in Address /\ a.end \in Address /\ Address \subseteq Nat /\ W \in Nat
  BY Alignments DEF Allocator, Address
<1>2. UpPtr(a) \in Address /\ Aligned(UpPtr(a)) /\ a.current <= UpPtr(a) /\ UpPtr(a) <= a.end
  BY <1>1, AlignUp, Alignments DEF UpPtr, Aligned
<1>3. n <= a.end - UpPtr(a)
  BY <1>1, <1>2, Wraps DEF FitsUp
<1>4. UpPtr(a) + n <= a.end /\ UpPtr(a) + n \in Address /\ UpPtr(a) + n < W
  BY <1>1, <1>2, <1>3 DEF Address
<1> QED
  BY <1>2, <1>4, Wraps DEF AfterUp

LEMMA ServedDown ==
  ASSUME NEW a \in Allocator, NEW n \in Address, a.start <= a.current, a.current <= a.end,
         FitsDown(a, n)
  PROVE  /\ DownPtr(a, n) \in Address /\ Aligned(DownPtr(a, n))
         /\ a.start <= DownPtr(a, n) /\ DownPtr(a, n) + n <= a.current
         /\ Add(DownPtr(a, n), n) = DownPtr(a, n) + n /\ DownPtr(a, n) + n \in Address
         /\ AfterDown(a, n) = [a EXCEPT !.current = DownPtr(a, n)]
<1>1. /\ a.current \in Address /\ a.end \in Address /\ a.start \in Address
      /\ Address \subseteq Nat /\ W \in Nat
  BY Alignments DEF Allocator, Address
<1>2. n <= a.current - a.start
  BY <1>1, Wraps DEF FitsDown
<1>3. n <= a.current /\ a.current - n \in Address
  BY <1>1, <1>2 DEF Address
<1>4. Sub(a.current, n) = a.current - n
  BY <1>1, <1>3, Wraps
<1>5. /\ DownPtr(a, n) \in Address /\ DownPtr(a, n) <= a.current - n
      /\ Aligned(DownPtr(a, n)) /\ a.start <= DownPtr(a, n)
  BY <1>1, <1>3, <1>4, AlignDownIn, Alignments DEF DownPtr, Aligned, FitsDown
<1>6. DownPtr(a, n) + n <= a.current /\ DownPtr(a, n) + n \in Address /\ DownPtr(a, n) + n < W
  BY <1>1, <1>5 DEF Address
<1> QED
  BY <1>5, <1>6, Wraps DEF AfterDown

LEMMA Moved ==
  ASSUME NEW z, Tiles(z), NEW x \in Address, Aligned(x), NEW m,
         CanGrow(z["app"], z["service"], x, m)
  PROVE  /\ Tiles(MoveBoundary(z, x))
         /\ \A t \in Zone : MoveBoundary(z, x)[t].current = z[t].current
         /\ MoveBoundary(z, x)["kernel"] = z["kernel"]
         /\ MoveBoundary(z, x)["app"].start = z["app"].start
         /\ MoveBoundary(z, x)["service"].end = z["service"].end
         /\ z["app"].end <= MoveBoundary(z, x)["app"].end
         /\ MoveBoundary(z, x)["app"].end = z["app"].end + x
         /\ MoveBoundary(z, x)["service"].start = z["service"].start + x
         /\ Size(MoveBoundary(z, x)["service"]) >= ZONE_SERVICE_MIN
<1> DEFINE app == z["app"]
           service == z["service"]
           y == MoveBoundary(z, x)
<1>1. /\ app \in Allocator /\ service \in Allocator /\ z["kernel"] \in Allocator
      /\ z \in [Zone -> Allocator] /\ Address \subseteq Nat /\ W \in Nat
  BY Alignments DEF Tiles, Zone, Address
<1>2. /\ app.end \in Address /\ service.start \in Address /\ service.current \in Address
      /\ service.end \in Address /\ app.start \in Address /\ app.current \in Address
  BY <1>1 DEF Allocator
<1>3. /\ app.end \in Int /\ service.start \in Int /\ service.current \in Int
      /\ service.end \in Int /\ app.start \in Int /\ app.current \in Int
      /\ x \in Nat /\ x \in Int /\ ZONE_SERVICE_MIN \in Int /\ service.start >= 0
  <2>1. \A v \in Address : v \in Int /\ v >= 0
    BY DEF Address
  <2> HIDE DEF app, service
  <2> QED
    BY <1>2, <2>1, Alignments
<1>4. /\ service.start <= service.current /\ service.current <= service.end
      /\ app.end = service.start /\ app.start <= app.current /\ app.current <= app.end
      /\ Aligned(app.end) /\ Aligned(service.end)
  BY DEF Tiles, Zone
<1>5. x <= service.current - service.start
  BY <1>2, <1>4, Wraps DEF CanGrow
<1>6. /\ service.start + x <= service.current /\ service.start + x \in Address
      /\ Add(service.start, x) = service.start + x /\ Add(app.end, x) = service.start + x
  <2>1. service.start + x <= service.current /\ service.start + x \in Address
        /\ service.start + x < W
    BY <1>1, <1>2, <1>4, <1>5 DEF Address
  <2> QED
    BY <1>2, <1>4, <2>1, Wraps
<1>7. Aligned(service.start + x)
  <2>1. service.start % ALLOC_ALIGN = 0 /\ x % ALLOC_ALIGN = 0
    BY <1>4 DEF Aligned
  <2>2. (service.start + x) % ALLOC_ALIGN = 0
    BY <1>3, <2>1, Multiples, Alignments
  <2> QED
    BY <2>2 DEF Aligned
<1>8. /\ y["service"] = [service EXCEPT !.start = service.start + x]
      /\ y["app"] = [app EXCEPT !.end = service.start + x]
      /\ y["kernel"] = z["kernel"] /\ y = [t \in Zone |-> y[t]]
  BY <1>1, <1>6 DEF MoveBoundary, Zone
<1>9. /\ y["service"] \in Allocator /\ y["app"] \in Allocator
      /\ y["service"].start = service.start + x /\ y["service"].end = service.end
      /\ y["service"].current = service.current
      /\ y["app"].start = app.start /\ y["app"].end = service.start + x
      /\ y["app"].current = app.current
  BY <1>1, <1>6, <1>8 DEF Allocator
<1> HIDE DEF y
<1>10. y \in [Zone -> Allocator]
  <2>1. \A t \in Zone : y[t] \in Allocator
    BY <1>1, <1>8, <1>9 DEF Zone
  <2> QED
    BY <1>8, <2>1
<1>11. app.end <= service.start + x /\ app.current <= service.start + x
  BY <1>3, <1>4
<1>12. \A t \in Zone : /\ y[t].start <= y[t].current /\ y[t].current <= y[t].end
                       /\ Aligned(y[t].end) /\ y[t].current = z[t].current
  BY <1>4, <1>6, <1>7, <1>8, <1>9, <1>11 DEF Zone, Tiles
<1>13. Tiles(y)
  BY <1>4, <1>8, <1>9, <1>10, <1>12 DEF Tiles, Zone
<1>14. Size(y["service"]) >= ZONE_SERVICE_MIN
  <2>1. Size(service) = service.end - service.start
    <3>1. service.start <= service.end
      BY <1>3, <1>4
    <3> QED
      BY <1>2, <3>1, Wraps DEF Size
  <2>2. Size(y["service"]) = service.end - (service.start + x)
    <3>1. service.start + x <= service.end
      BY <1>3, <1>4, <1>6
    <3> QED
      BY <1>2, <1>6, <1>9, <3>1, Wraps DEF Size
  <2>3. Size(service) \in Address /\ x <= Size(service)
    <3>1. Size(service) \in Address
      BY <1>3, Wraps DEF Size
    <3>2. x <= service.end - service.start
      BY <1>3, <1>4, <1>5
    <3> QED
      BY <2>1, <3>1, <3>2
  <2>4. Sub(Size(service), x) = Size(service) - x
    BY <2>3, Wraps
  <2>5. Size(service) - x >= ZONE_SERVICE_MIN
    BY <2>4 DEF CanGrow
  <2> QED
    BY <1>3, <2>1, <2>2, <2>5
<1> QED
  BY <1>4, <1>8, <1>9, <1>11, <1>12, <1>13, <1>14 DEF y

(* What bump_alloc_up has left, with no request to serve.                   *)
LEMMA FreeUp ==
  ASSUME NEW a \in Allocator, NEW n \in Address, a.current <= a.end, Aligned(a.end)
  PROVE  /\ UpPtr(a) \in Address /\ a.current <= UpPtr(a) /\ UpPtr(a) <= a.end
         /\ Sub(a.end, UpPtr(a)) = a.end - UpPtr(a) /\ Sub(a.end, UpPtr(a)) \in Address
         /\ FitsUp(a, n) <=> n <= a.end - UpPtr(a)
<1>1. a.current \in Address /\ a.end \in Address /\ Address \subseteq Nat
  BY DEF Allocator, Address
<1>2. UpPtr(a) \in Address /\ a.current <= UpPtr(a) /\ UpPtr(a) <= a.end
  BY <1>1, AlignUp, Alignments DEF UpPtr, Aligned
<1>3. Sub(a.end, UpPtr(a)) = a.end - UpPtr(a) /\ Sub(a.end, UpPtr(a)) \in Address
  <2>1. \A v \in Address : v \in Int
    BY DEF Address
  <2>2. a.end \in Int /\ UpPtr(a) \in Int
    BY <1>1, <1>2, <2>1
  <2> QED
    BY <1>1, <1>2, <2>2, Wraps
<1> QED
  BY <1>1, <1>2, <1>3 DEF FitsUp

(* What the growth checks, without the wrapping of its differences.         *)
LEMMA GrowthLimits ==
  ASSUME NEW z, Tiles(z), NEW x \in Address, NEW m \in Int
  PROVE  CanGrow(z["app"], z["service"], x, m) <=>
           /\ x <= z["service"].current - z["service"].start
           /\ z["service"].end - z["service"].start - x >= ZONE_SERVICE_MIN
           /\ z["app"].end - z["app"].start + x <= m
<1> DEFINE app == z["app"]
           service == z["service"]
           free == service.current - service.start
           size == service.end - service.start
           asize == app.end - app.start
<1>1. /\ app.start \in Address /\ app.end \in Address
      /\ service.start \in Address /\ service.current \in Address /\ service.end \in Address
  BY DEF Tiles, Zone, Allocator
<1>2. /\ app.start <= app.end /\ service.start <= service.current
      /\ service.current <= service.end /\ app.end = service.start
  <2>1. app.start <= app.current /\ app.current <= app.end /\ app.current \in Address
    BY DEF Tiles, Zone, Allocator
  <2>2. app.start <= app.end
    BY <1>1, <2>1, Alignments DEF Address
  <2> QED
    BY <2>2 DEF Tiles, Zone
<1> HIDE DEF app, service
<1>3. \A v \in Address : v \in Int /\ 0 <= v /\ v < W
  BY Alignments DEF Address
<1>4. W \in Int /\ ZONE_SERVICE_MIN \in Int
  BY Alignments DEF Address
<1>5. free \in Address /\ size \in Address /\ asize \in Address /\ free <= size
  BY <1>1, <1>2, <1>3, <1>4 DEF Address
<1>6. Sub(service.current, service.start) = free /\ Size(service) = size /\ Size(app) = asize
  <2>1. service.start <= service.end
    BY <1>1, <1>2, <1>3
  <2> QED
    BY <1>1, <1>2, <2>1, Wraps DEF Size
<1>7. asize + free < W
  BY <1>1, <1>2, <1>3, <1>4
<1> HIDE DEF free, size, asize
<1>8. x <= free => Sub(size, x) = size - x /\ Add(asize, x) = asize + x
  <2> SUFFICES ASSUME x <= free PROVE Sub(size, x) = size - x /\ Add(asize, x) = asize + x
    OBVIOUS
  <2>1. x <= size /\ asize + x < W
    BY <1>3, <1>4, <1>5, <1>7
  <2> QED
    BY <1>5, <2>1, Wraps
<1>9. CanGrow(app, service, x, m) <=>
        /\ x <= free
        /\ size - x >= ZONE_SERVICE_MIN
        /\ asize + x <= m
  <2>1. CanGrow(app, service, x, m) <=>
          /\ free >= x /\ Sub(size, x) >= ZONE_SERVICE_MIN /\ Add(asize, x) <= m
    BY <1>6 DEF CanGrow
  <2>2. free >= x <=> x <= free
    BY <1>3, <1>5
  <2> QED
    BY <1>8, <2>1, <2>2
<1> QED
  BY <1>9 DEF free, size, asize, app, service

(* The growth asks for no more pages than any growth that serves the        *)
(* request, and for enough unless the rounding wraps.                       *)
LEMMA LeastGrowth ==
  ASSUME NEW h \in Address, NEW n \in Address, h < n,
         NEW more \in Address, more % PAGE_ALIGN = 0, n <= h + more
  PROVE  LET x == align_up(n - h, PAGE_ALIGN) IN x \in Address /\ n - h <= x /\ x <= more
<1>1. n - h \in Address /\ n - h <= more
  BY Alignments DEF Address
<1> QED
  BY <1>1, AlignUp, Alignments

(* The limit of FastApp's growth is a size.                                 *)
LEMMA LimitIsSize ==
  ASSUME NEW start, NEW end, Usable(start, end)
  PROVE  LayoutAppMax(start, end) \in Int
<1> DEFINE total == Total(align_up(start, PAGE_ALIGN), align_down(end, PAGE_ALIGN))
<1>1. total \in Nat
  BY LayoutTiles
<1> HIDE DEF total
<1>2. AppSize(total) \in Int /\ ServiceSize(total) \in Int /\ ZONE_SERVICE_MIN \in Int
  BY <1>1, Sizes, Alignments DEF Address
<1>3. AppMax(total) \in Int
  BY <1>2 DEF AppMax
<1> QED
  BY <1>3 DEF LayoutAppMax, total

LEMMA Ints ==
  /\ \A v \in Address : v \in Int /\ 0 <= v
  /\ \A a \in Allocator : a.start \in Int /\ a.end \in Int /\ a.current \in Int
<1>1. \A v \in Address : v \in Int /\ 0 <= v
  BY DEF Address
<1> QED
  BY <1>1 DEF Allocator
==============================================================================
