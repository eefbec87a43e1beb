--------------------------- MODULE MemoryCoreProofs --------------------------
(* Proofs about MemoryCore for any number of CPUs, any width of addresses,  *)
(* any alignments, range and requests.                                      *)
EXTENDS MemoryCore, ZonesProofs, TLAPS

LEMMA InitialTiles == Tiles(InitialZones)
BY MemoryCoreAssumption, LayoutTiles DEF InitialZones, Usable

-----------------------------------------------------------------------------
(* The inductive invariant.                                                 *)

Limits ==
  /\ zone["kernel"].start = InitialZones["kernel"].start
  /\ zone["service"].end = InitialZones["service"].end
  /\ \/ Size(zone["service"]) >= ZONE_SERVICE_MIN
     \/ zone["service"].start = InitialZones["service"].start

Bumping == {"bump_up", "bump_again", "bump_down"}
Growing ==
  {"have", "have_current", "have_end", "grow", "grow_apps", "grow_service", "grow_move",
   "up_again", "bump_again"}

(* A CPU that hands memory out holds the lock of its zone, and what it has  *)
(* read of the zone is still true; one that moves the boundary holds both.  *)
LocksOf(c) ==
  /\ pc[c] \in Bumping =>
       lock[req[c].zone] = c /\ seen[c].current = zone[req[c].zone].current
  /\ pc[c] \in {"grow_service", "grow_move"} => lock["app"] = c
  /\ pc[c] = "grow_move" => lock["service"] = c
  /\ pc[c] \in {"up", "bump_up"} => req[c].zone # "service"
  /\ pc[c] \in {"down", "bump_down"} => req[c].zone = "service"
  /\ pc[c] \in Growing => req[c].zone = "app"
  /\ Aligned(extra[c])

Locks == \A c \in Cpus : LocksOf(c)

(* The blocks of a zone lie on the used side of its free pointer.           *)
Used(b) ==
  /\ b.lo <= b.hi /\ Aligned(b.lo)
  /\ IF b.zone = "service"
       THEN zone["service"].current <= b.lo /\ b.hi <= zone["service"].end
       ELSE zone[b.zone].start <= b.lo /\ b.hi <= zone[b.zone].current

BlocksUsed == \A b \in blocks : Used(b)

MemInv == TypeOK /\ Tiles(zone) /\ Limits /\ Locks /\ BlocksUsed /\ NoOverlap

LEMMA ZeroAligned == Aligned(0)
<1>1. ALLOC_ALIGN \in Nat \ {0} /\ ALLOC_ALIGN * 0 = 0
  BY Alignments
<1> QED
  BY <1>1, MultipleMod DEF Aligned

LEMMA MemInvInit == Init => MemInv
<1> SUFFICES ASSUME Init PROVE MemInv
  OBVIOUS
<1>1. 0 \in Address /\ Tiles(InitialZones)
  BY InitialTiles, Alignments DEF Address
<1>2. TypeOK
  BY <1>1 DEF Init, TypeOK, Tiles, Request, Zone, Labels
<1>3. Tiles(zone) /\ Limits
  BY <1>1 DEF Init, Limits
<1>4. Locks
  BY ZeroAligned DEF Init, Locks, LocksOf, Bumping, Growing
<1>5. BlocksUsed /\ NoOverlap
  BY DEF Init, BlocksUsed, NoOverlap
<1> QED
  BY <1>2, <1>3, <1>4, <1>5 DEF MemInv

(* The step of a CPU that leaves the locks and the zones of others alone.   *)
LEMMA OthersKeepLocks ==
  ASSUME TypeOK, Locks, NEW c \in Cpus, LocksOf(c)',
         \A d \in Cpus \ {c} : /\ pc'[d] = pc[d] /\ req'[d] = req[d] /\ seen'[d] = seen[d]
                               /\ extra'[d] = extra[d],
         \A t \in Zone : lock[t] \in Cpus \ {c} =>
                           lock'[t] = lock[t] /\ zone'[t].current = zone[t].current
  PROVE  Locks'
<1> SUFFICES ASSUME NEW d \in Cpus \ {c} PROVE LocksOf(d)'
  BY DEF Locks
<1>1. LocksOf(d) /\ req[d].zone \in Zone /\ "app" \in Zone /\ "service" \in Zone
  BY DEF Locks, TypeOK, Request, Zone
<1>2. /\ pc'[d] = pc[d] /\ req'[d] = req[d] /\ seen'[d] = seen[d] /\ extra'[d] = extra[d]
      /\ \A t \in Zone : lock[t] = d => lock'[t] = d /\ zone'[t].current = zone[t].current
  OBVIOUS
<1> QED
  BY <1>1, <1>2 DEF LocksOf

(* Steps that neither hand memory out nor move the boundary.                *)
LEMMA QuietStep ==
  ASSUME MemInv, UNCHANGED <<zone, blocks>>, TypeOK', Locks'
  PROVE  MemInv'
BY DEF MemInv, Limits, BlocksUsed, Used, NoOverlap

LEMMA CallOK ==
  ASSUME MemInv, NEW c \in Cpus, NEW t \in Zone, NEW n \in Requests, Call(c, t, n)
  PROVE  MemInv'
<1>1. TypeOK /\ Locks /\ n \in Address
  BY MemoryCoreAssumption DEF MemInv
<1>2. TypeOK'
  BY <1>1 DEF Call, Goto, TypeOK, Request, Labels
<1>3. LocksOf(c)'
  BY <1>1 DEF Call, Goto, TypeOK, Locks, LocksOf, Bumping, Growing
<1>4. Locks'
  BY <1>1, <1>3, OthersKeepLocks DEF Call, Goto, TypeOK
<1> QED
  BY <1>2, <1>4, QuietStep DEF Call

LEMMA AcquireOK ==
  ASSUME MemInv, NEW c \in Cpus, AcquireUp(c) \/ AcquireUpAgain(c) \/ AcquireDown(c)
  PROVE  MemInv'
<1> DEFINE t == req[c].zone
<1>1. TypeOK /\ Locks /\ t \in Zone /\ zone[t].current \in Address
  BY DEF MemInv, TypeOK, Request, Allocator
<1>2. PICK from, to :
        /\ <<from, to>> \in {<<"up", "bump_up">>, <<"up_again", "bump_again">>,
                             <<"down", "bump_down">>}
        /\ AcquireZone(c, from, to)
  BY DEF AcquireUp, AcquireUpAgain, AcquireDown
<1>3. /\ pc[c] = from /\ lock[t] = None
      /\ lock' = [lock EXCEPT ![t] = c]
      /\ seen' = [seen EXCEPT ![c].current = zone[t].current]
      /\ pc' = [pc EXCEPT ![c] = to]
      /\ UNCHANGED <<zone, zones_lock, req, extra, ptr, blocks, alone>>
  BY <1>2 DEF AcquireZone, At, Goto
<1>4. from \in Labels /\ to \in Labels
  BY <1>2 DEF Labels
<1>5. TypeOK'
  BY <1>1, <1>3, <1>4 DEF TypeOK
<1>6. LocksOf(c)'
  BY <1>1, <1>2, <1>3 DEF TypeOK, Locks, LocksOf, Bumping, Growing
<1>7. Locks'
  BY <1>1, <1>3, <1>6, OthersKeepLocks, MemoryCoreAssumption DEF TypeOK
<1> QED
  BY <1>3, <1>5, <1>7, QuietStep

(* What a CPU in a critical section sees is the zone.                       *)
LEMMA SeenIsZone ==
  ASSUME MemInv, NEW c \in Cpus, pc[c] \in Bumping
  PROVE  Seen(c) = zone[req[c].zone]
<1>1. zone[req[c].zone] \in Allocator /\ seen[c].current = zone[req[c].zone].current
  BY DEF MemInv, TypeOK, Request, Locks, LocksOf
<1> QED
  BY <1>1 DEF Seen, Allocator

(* A call that ends leaves well-typed locals behind.                        *)
LEMMA ReturnTyped ==
  ASSUME TypeOK, NEW c \in Cpus, NEW p \in Address \union {None}, Return(c, p)
  PROVE  /\ pc' \in [Cpus -> Labels]
         /\ seen' \in [Cpus -> [current : Address, end : Address]]
         /\ extra' \in [Cpus -> Address]
         /\ ptr' \in [Cpus -> Address \union {None}]
<1>1. "idle" \in Labels /\ 0 \in Address
  BY Alignments DEF Labels, Address
<1>2. pc' \in [Cpus -> Labels] /\ ptr' \in [Cpus -> Address \union {None}]
  BY <1>1 DEF TypeOK, Return, Goto
<1>3. seen' \in [Cpus -> [current : Address, end : Address]] /\ extra' \in [Cpus -> Address]
  BY <1>1 DEF TypeOK, Return
<1> QED
  BY <1>2, <1>3

LEMMA FailOK ==
  ASSUME MemInv, NEW c \in Cpus, BumpUpFails(c) \/ BumpDownFails(c)
  PROVE  MemInv'
<1> DEFINE t == req[c].zone
<1>1. TypeOK /\ Locks /\ t \in Zone /\ 0 \in Address
  BY Alignments DEF MemInv, TypeOK, Request, Address
<1>2. /\ pc[c] \in Bumping
      /\ lock' = [lock EXCEPT ![t] = None]
      /\ UNCHANGED <<zone, zones_lock, req, blocks, alone>>
  BY <1>1 DEF BumpUpFails, BumpDownFails, At, Bumping, Locks, LocksOf
<1>3. \/ /\ pc' = [pc EXCEPT ![c] = "have"] /\ t = "app"
         /\ UNCHANGED <<seen, extra, ptr>>
      \/ Return(c, None)
  BY DEF BumpUpFails, BumpDownFails, Goto
<1>4. lock[t] = c
  BY <1>1, <1>2 DEF Locks, LocksOf
<1>5. TypeOK'
  <2>1. /\ pc' \in [Cpus -> Labels]
        /\ seen' \in [Cpus -> [current : Address, end : Address]]
        /\ extra' \in [Cpus -> Address]
        /\ ptr' \in [Cpus -> Address \union {None}]
    <3>1. CASE pc' = [pc EXCEPT ![c] = "have"] /\ UNCHANGED <<seen, extra, ptr>>
      BY <1>1, <3>1 DEF TypeOK, Labels
    <3>2. CASE Return(c, None)
      BY <1>1, <3>2, ReturnTyped
    <3> QED
      BY <1>3, <3>1, <3>2
  <2>2. lock' \in [Zone -> Cpus \union {None}]
    BY <1>1, <1>2 DEF TypeOK
  <2> QED
    BY <1>1, <1>2, <2>1, <2>2 DEF TypeOK
<1>6. LocksOf(c)'
  BY <1>1, <1>2, <1>3, ZeroAligned DEF TypeOK, Return, Goto, Locks, LocksOf, Bumping, Growing
<1>7. Locks'
  BY <1>1, <1>2, <1>3, <1>4, <1>6, OthersKeepLocks DEF TypeOK, Return, Goto
<1> QED
  BY <1>2, <1>5, <1>7, QuietStep

LEMMA GrowthOK ==
  ASSUME MemInv, NEW c \in Cpus,
         ReadFirst(c) \/ AcquireZonesLock(c) \/ AcquireApps(c) \/ AcquireService(c)
  PROVE  MemInv'
<1>1. TypeOK /\ Locks /\ zone["app"].end \in Address /\ zone["app"].current \in Address
  BY DEF MemInv, TypeOK, Zone, Allocator
<1>2. CASE ReadFirst(c)
  <2>1. TypeOK'
    BY <1>1, <1>2 DEF ReadFirst, At, Goto, TypeOK, Labels
  <2>2. LocksOf(c)'
    BY <1>1, <1>2 DEF ReadFirst, At, Goto, TypeOK, Locks, LocksOf, Bumping, Growing
  <2>3. Locks'
    BY <1>1, <1>2, <2>2, OthersKeepLocks DEF ReadFirst, Goto, TypeOK
  <2> QED
    BY <1>2, <2>1, <2>3, QuietStep DEF ReadFirst
<1>3. CASE AcquireZonesLock(c)
  <2>1. TypeOK'
    BY <1>1, <1>3 DEF AcquireZonesLock, At, Goto, TypeOK, Labels
  <2>2. LocksOf(c)'
    BY <1>1, <1>3 DEF AcquireZonesLock, At, Goto, TypeOK, Locks, LocksOf, Bumping, Growing
  <2>3. Locks'
    BY <1>1, <1>3, <2>2, OthersKeepLocks DEF AcquireZonesLock, Goto, TypeOK
  <2> QED
    BY <1>3, <2>1, <2>3, QuietStep DEF AcquireZonesLock
<1>4. CASE AcquireApps(c) \/ AcquireService(c)
  <2>1. PICK from, t, to :
          /\ <<from, t, to>> \in {<<"grow_apps", "app", "grow_service">>,
                                  <<"grow_service", "service", "grow_move">>}
          /\ AcquireForGrowth(c, from, t, to)
    BY <1>4 DEF AcquireApps, AcquireService
  <2>2. /\ pc[c] = from /\ lock[t] = None /\ lock' = [lock EXCEPT ![t] = c]
        /\ pc' = [pc EXCEPT ![c] = to]
        /\ UNCHANGED <<zone, zones_lock, req, seen, extra, ptr, blocks, alone>>
    BY <2>1 DEF AcquireForGrowth, At, Goto
  <2>3. t \in Zone /\ to \in Labels
    BY <2>1 DEF Zone, Labels
  <2>4. TypeOK'
    BY <1>1, <2>2, <2>3 DEF TypeOK
  <2>5. LocksOf(c)'
    BY <1>1, <2>1, <2>2, <2>3 DEF TypeOK, Locks, LocksOf, Bumping, Growing, Zone
  <2>6. Locks'
    BY <1>1, <2>2, <2>5, OthersKeepLocks, MemoryCoreAssumption DEF TypeOK
  <2> QED
    BY <2>2, <2>4, <2>6, QuietStep
<1> QED
  BY <1>2, <1>3, <1>4

LEMMA ReadSecondOK == ASSUME MemInv, NEW c \in Cpus, ReadSecond(c) PROVE MemInv'
<1> DEFINE s == IF At(c, "have_current")
                  THEN [seen[c] EXCEPT !.current = zone["app"].current]
                  ELSE [seen[c] EXCEPT !.end = zone["app"].end]
           x == align_up(req[c].size - Have(s), PAGE_ALIGN)
<1>1. /\ TypeOK /\ Locks /\ zone["app"].end \in Address /\ zone["app"].current \in Address
      /\ 0 \in Address
  BY Alignments DEF MemInv, TypeOK, Zone, Allocator, Address
<1>2. s \in [current : Address, end : Address]
  BY <1>1 DEF TypeOK
<1> HIDE DEF s
<1>3. pc[c] \in {"have_current", "have_end"} /\ req[c].zone = "app" /\ req[c].size \in Address
  BY <1>1 DEF ReadSecond, At, TypeOK, Request, Locks, LocksOf, Growing
<1>4. \/ /\ req[c].size > Have(s)
         /\ seen' = [seen EXCEPT ![c] = s] /\ extra' = [extra EXCEPT ![c] = x]
         /\ pc' = [pc EXCEPT ![c] = "grow"] /\ UNCHANGED ptr
      \/ Return(c, None)
  BY DEF ReadSecond, Goto, s
<1>5. UNCHANGED <<zone, lock, zones_lock, req, blocks, alone>>
  BY DEF ReadSecond
<1>6. req[c].size > Have(s) => x \in Address /\ Aligned(x)
  <2> SUFFICES ASSUME req[c].size > Have(s) PROVE x \in Address /\ Aligned(x)
    OBVIOUS
  <2>1. s.current \in Address /\ s.end \in Address
    BY <1>2
  <2>2. align_up(s.current, ALLOC_ALIGN) \in Address
    BY <2>1, AlignUp, Alignments
  <2>3. Have(s) \in Address
    <3>1. s.end \in Int /\ align_up(s.current, ALLOC_ALIGN) \in Int
      BY <2>1, <2>2 DEF Address
    <3> QED
      BY <3>1, Wraps DEF Have
  <2>4. req[c].size - Have(s) \in Address
    BY <1>3, <2>3, Alignments DEF Address
  <2>5. x \in Address /\ x % PAGE_ALIGN = 0
    BY <2>4, AlignUp, Alignments
  <2>6. x \in Int
    BY <2>5 DEF Address
  <2> QED
    BY <2>5, <2>6, PagesAreAligned DEF Aligned
<1> HIDE DEF x
<1>7. TypeOK'
  <2>1. /\ pc' \in [Cpus -> Labels]
        /\ seen' \in [Cpus -> [current : Address, end : Address]]
        /\ extra' \in [Cpus -> Address]
        /\ ptr' \in [Cpus -> Address \union {None}]
    <3>1. CASE Return(c, None)
      BY <1>1, <3>1, ReturnTyped
    <3>2. CASE ~Return(c, None)
      BY <1>1, <1>2, <1>4, <1>6, <3>2 DEF TypeOK, Labels
    <3> QED
      BY <3>1, <3>2
  <2> QED
    BY <1>1, <1>5, <2>1 DEF TypeOK
<1>8. LocksOf(c)'
  BY <1>1, <1>3, <1>4, <1>5, <1>6, ZeroAligned
     DEF TypeOK, Return, Goto, Locks, LocksOf, Bumping, Growing
<1>9. Locks'
  BY <1>1, <1>4, <1>5, <1>8, OthersKeepLocks DEF TypeOK, Return, Goto
<1> QED
  BY <1>5, <1>7, <1>9, QuietStep

-----------------------------------------------------------------------------
(* Handing memory out, and moving the boundary.                             *)

LEMMA BlockInts == \A b \in Block : b.zone \in Zone /\ b.lo \in Int /\ b.hi \in Int
BY Ints DEF Block

LEMMA ZonesApart ==
  ASSUME NEW z, Tiles(z), NEW t \in Zone, NEW u \in Zone, t # u
  PROVE  z[t].end <= z[u].start \/ z[u].end <= z[t].start
<1>1. \A v \in Zone : z[v].start \in Int /\ z[v].end \in Int /\ z[v].current \in Int
  BY Ints DEF Tiles
<1>2. \A v \in Zone : z[v].start <= z[v].end
  <2> SUFFICES ASSUME NEW v \in Zone PROVE z[v].start <= z[v].end
    OBVIOUS
  <2>1. z[v].start <= z[v].current /\ z[v].current <= z[v].end
    BY DEF Tiles
  <2> QED
    BY <1>1, <2>1
<1>3. z["kernel"].end = z["app"].start /\ z["app"].end = z["service"].start
  BY DEF Tiles
<1> QED
  BY <1>1, <1>2, <1>3 DEF Zone

LEMMA InZone ==
  ASSUME MemInv, NEW b \in blocks
  PROVE  /\ b \in Block /\ b.zone \in Zone
         /\ zone[b.zone].start <= b.lo /\ b.lo <= b.hi /\ b.hi <= zone[b.zone].end
<1>1. b \in Block /\ b.zone \in Zone /\ b.lo \in Int /\ b.hi \in Int
  BY BlockInts DEF MemInv, TypeOK
<1>2. /\ zone[b.zone].start <= zone[b.zone].current
      /\ zone[b.zone].current <= zone[b.zone].end
  BY <1>1 DEF MemInv, Tiles
<1>3. /\ zone[b.zone].start \in Int /\ zone[b.zone].current \in Int
      /\ zone[b.zone].end \in Int
  BY <1>1, Ints DEF MemInv, TypeOK
<1>4. Used(b)
  BY DEF MemInv, BlocksUsed
<1>6. CASE b.zone = "service"
  <2>1. zone[b.zone].current <= b.lo /\ b.hi <= zone[b.zone].end /\ b.lo <= b.hi
    BY <1>4, <1>6 DEF Used
  <2> QED
    BY <1>1, <1>2, <1>3, <2>1
<1>7. CASE b.zone # "service"
  <2>1. zone[b.zone].start <= b.lo /\ b.hi <= zone[b.zone].current /\ b.lo <= b.hi
    BY <1>4, <1>7 DEF Used
  <2> QED
    BY <1>1, <1>2, <1>3, <2>1
<1> QED
  BY <1>6, <1>7

(* A new block between the old free pointer of zone t and the new one, a.    *)
Fresh(t, a, p, n) ==
  /\ a \in Allocator /\ a.start = zone[t].start /\ a.end = zone[t].end
  /\ a.start <= a.current /\ a.current <= a.end
  /\ p \in Address /\ Aligned(p) /\ n \in Address
  /\ Add(p, n) = p + n /\ p + n \in Address
  /\ zone[t].start <= p /\ p + n <= zone[t].end
  /\ IF t = "service" THEN a.current <= p /\ p + n <= zone[t].current
                      ELSE zone[t].current <= p /\ p + n <= a.current

LEMMA FreshIsFree ==
  ASSUME MemInv, NEW t \in Zone, NEW a, NEW p, NEW n, Fresh(t, a, p, n), NEW b \in blocks
  PROVE  Disjoint(b, [lo |-> p, hi |-> Add(p, n)])
<1>1. /\ b.zone \in Zone /\ b.lo \in Int /\ b.hi \in Int
      /\ zone[b.zone].start <= b.lo /\ b.hi <= zone[b.zone].end
  BY InZone, BlockInts
<1>2. \A v \in Zone : /\ zone[v].start \in Int /\ zone[v].end \in Int
                      /\ zone[v].current \in Int
  BY Ints DEF MemInv, TypeOK
<1>3. p \in Int /\ p + n \in Int /\ Add(p, n) = p + n
  BY Ints DEF Fresh
<1>4. zone[t].start <= p /\ p + n <= zone[t].end
  BY DEF Fresh
<1>5. b.hi <= p \/ p + n <= b.lo
  <2>1. CASE b.zone # t
    <3>1. zone[t].end <= zone[b.zone].start \/ zone[b.zone].end <= zone[t].start
      BY <1>1, <2>1, ZonesApart DEF MemInv
    <3> QED
      BY <1>1, <1>2, <1>3, <1>4, <3>1
  <2>2. CASE b.zone = t /\ t = "service"
    <3>1. zone[t].current <= b.lo /\ p + n <= zone[t].current
      BY <2>2 DEF MemInv, BlocksUsed, Used, Fresh
    <3> QED
      BY <1>1, <1>2, <1>3, <3>1
  <2>3. CASE b.zone = t /\ t # "service"
    <3>1. b.hi <= zone[t].current /\ zone[t].current <= p
      BY <2>3 DEF MemInv, BlocksUsed, Used, Fresh
    <3> QED
      BY <1>1, <1>2, <1>3, <3>1
  <2> QED
    BY <2>1, <2>2, <2>3
<1> QED
  BY <1>3, <1>5 DEF Disjoint

LEMMA HandOutOK ==
  ASSUME MemInv, NEW c \in Cpus, pc[c] \in Bumping, NEW p, NEW a,
         Fresh(req[c].zone, a, p, req[c].size), HandOut(c, p, a)
  PROVE  MemInv'
<1> DEFINE t == req[c].zone
           n == req[c].size
           new == [zone |-> t, lo |-> p, hi |-> Add(p, n)]
<1>1. TypeOK /\ Locks /\ t \in Zone /\ 0 \in Address
  BY Alignments DEF MemInv, TypeOK, Request, Address
<1>2. /\ zone' = [zone EXCEPT ![t] = a] /\ lock' = [lock EXCEPT ![t] = None]
      /\ blocks' = blocks \union {new} /\ Return(c, p)
      /\ UNCHANGED <<zones_lock, req, alone>>
  BY DEF HandOut
<1>3. /\ a \in Allocator /\ a.start = zone[t].start /\ a.end = zone[t].end
      /\ a.start <= a.current /\ a.current <= a.end
      /\ p \in Address /\ Aligned(p) /\ n \in Address /\ Add(p, n) = p + n
      /\ p + n \in Address
  BY DEF Fresh
<1>4. /\ zone'[t] = a /\ \A u \in Zone \ {t} : zone'[u] = zone[u]
      /\ \A u \in Zone : zone'[u].start = zone[u].start /\ zone'[u].end = zone[u].end
      /\ zone' \in [Zone -> Allocator]
  BY <1>1, <1>2, <1>3 DEF TypeOK
<1>5. lock[t] = c
  BY <1>1 DEF Locks, LocksOf
<1>6. new \in Block
  BY <1>1, <1>3 DEF Block
<1>7. TypeOK'
  <2>1. /\ pc' \in [Cpus -> Labels]
        /\ seen' \in [Cpus -> [current : Address, end : Address]]
        /\ extra' \in [Cpus -> Address]
        /\ ptr' \in [Cpus -> Address \union {None}]
    BY <1>1, <1>2, <1>3, ReturnTyped
  <2>2. lock' \in [Zone -> Cpus \union {None}] /\ blocks' \subseteq Block
    BY <1>1, <1>2, <1>6 DEF TypeOK
  <2> QED
    BY <1>1, <1>2, <1>4, <2>1, <2>2 DEF TypeOK
<1>8. Tiles(zone')
  <2>1. zone["kernel"].end = zone["app"].start /\ zone["app"].end = zone["service"].start
    BY DEF MemInv, Tiles
  <2>2. \A u \in Zone : /\ zone[u].start <= zone[u].current /\ zone[u].current <= zone[u].end
                        /\ Aligned(zone[u].end)
    BY DEF MemInv, Tiles
  <2>3. \A u \in Zone : /\ zone'[u].start <= zone'[u].current
                        /\ zone'[u].current <= zone'[u].end /\ Aligned(zone'[u].end)
    BY <1>3, <1>4, <2>2
  <2> QED
    BY <1>4, <2>1, <2>3 DEF Tiles, Zone
<1>9. Limits'
  <2>1. "kernel" \in Zone /\ "service" \in Zone /\ Limits
    BY DEF Zone, MemInv
  <2> QED
    BY <1>4, <2>1 DEF Limits, Size
<1>10. Locks'
  <2>1. pc'[c] = "idle" /\ extra'[c] = 0
    BY <1>1, <1>2 DEF TypeOK, Return, Goto
  <2>2. LocksOf(c)'
    BY <2>1, ZeroAligned DEF LocksOf, Bumping, Growing
  <2>3. \A d \in Cpus \ {c} : /\ pc'[d] = pc[d] /\ req'[d] = req[d] /\ seen'[d] = seen[d]
                              /\ extra'[d] = extra[d]
    BY <1>1, <1>2 DEF TypeOK, Return, Goto
  <2>4. \A u \in Zone : lock[u] \in Cpus \ {c} =>
                          lock'[u] = lock[u] /\ zone'[u].current = zone[u].current
    BY <1>1, <1>2, <1>4, <1>5 DEF TypeOK
  <2> QED
    BY <1>1, <2>2, <2>3, <2>4, OthersKeepLocks
<1>11. BlocksUsed'
  <2> SUFFICES ASSUME NEW b \in blocks' PROVE Used(b)'
    BY DEF BlocksUsed
  <2>1. CASE b = new
    <3>1. b.lo = p /\ b.hi = p + n /\ b.zone = t
      BY <1>3, <2>1
    <3>2. p <= p + n
      BY <1>3, Ints
    <3>3. /\ zone[t].start <= p /\ p + n <= zone[t].end
          /\ IF t = "service" THEN a.current <= p ELSE p + n <= a.current
      BY DEF Fresh
    <3> QED
      BY <1>1, <1>3, <1>4, <3>1, <3>2, <3>3 DEF Used
  <2>2. CASE b \in blocks
    <3>1. Used(b) /\ b.zone \in Zone /\ b.lo \in Int /\ b.hi \in Int
      BY <2>2, InZone, BlockInts, Ints DEF MemInv, BlocksUsed
    <3>2. CASE b.zone # t
      BY <1>4, <3>1, <3>2 DEF Used, Zone
    <3>3. CASE b.zone = t /\ t = "service"
      <4>1. zone[t].current <= b.lo /\ b.hi <= zone[t].end /\ b.lo <= b.hi /\ Aligned(b.lo)
        BY <3>1, <3>3 DEF Used
      <4>2. a.current <= p /\ p + n <= zone[t].current
        BY <3>3 DEF Fresh
      <4>3. a.current <= b.lo
        <5>1. a.current \in Int /\ zone[t].current \in Int /\ p \in Int /\ n \in Int /\ 0 <= n
          BY <1>1, <1>3, Ints DEF TypeOK
        <5> QED
          BY <3>1, <4>1, <4>2, <5>1
      <4> QED
        BY <1>4, <1>3, <3>3, <4>1, <4>3 DEF Used
    <3>4. CASE b.zone = t /\ t # "service"
      <4>1. zone[t].start <= b.lo /\ b.hi <= zone[t].current /\ b.lo <= b.hi /\ Aligned(b.lo)
        BY <3>1, <3>4 DEF Used
      <4>2. zone[t].current <= p /\ p + n <= a.current
        BY <3>4 DEF Fresh
      <4>3. b.hi <= a.current
        <5>1. a.current \in Int /\ zone[t].current \in Int /\ p \in Int /\ n \in Int /\ 0 <= n
          BY <1>1, <1>3, Ints DEF TypeOK
        <5> QED
          BY <3>1, <4>1, <4>2, <5>1
      <4> QED
        BY <1>4, <1>3, <3>4, <4>1, <4>3 DEF Used
    <3> QED
      BY <3>2, <3>3, <3>4
  <2> QED
    BY <1>2, <2>1, <2>2
<1>12. NoOverlap'
  <2>1. \A b \in blocks : Disjoint(b, new)
    <3>1. \A b \in blocks : Disjoint(b, [lo |-> p, hi |-> Add(p, n)])
      BY <1>1, FreshIsFree
    <3> QED
      BY <3>1 DEF Disjoint
  <2>2. \A b \in blocks : Disjoint(new, b)
    BY <2>1 DEF Disjoint
  <2> QED
    BY <1>2, <2>1, <2>2 DEF NoOverlap, MemInv
<1> QED
  BY <1>7, <1>8, <1>9, <1>10, <1>11, <1>12 DEF MemInv

(* Which block the two allocators hand out.                                 *)
LEMMA BumpIsFresh ==
  ASSUME MemInv, NEW c \in Cpus, BumpUp(c) \/ BumpDown(c)
  PROVE  \E p, a : /\ pc[c] \in Bumping /\ HandOut(c, p, a)
                   /\ Fresh(req[c].zone, a, p, req[c].size)
<1> DEFINE t == req[c].zone
           n == req[c].size
           z == zone[t]
<1>1. pc[c] \in Bumping /\ Locks /\ TypeOK
  BY DEF BumpUp, BumpDown, At, Bumping, MemInv
<1>2. Seen(c) = z /\ z \in Allocator /\ t \in Zone /\ n \in Address
  BY <1>1, SeenIsZone DEF TypeOK, Request
<1>3. z.start <= z.current /\ z.current <= z.end /\ Aligned(z.end)
  BY <1>2 DEF MemInv, Tiles
<1>4. z.start \in Int /\ z.current \in Int /\ z.end \in Int /\ n \in Int /\ 0 <= n
  BY <1>2, Ints
<1>5. CASE BumpUp(c)
  <2>1. t # "service" /\ FitsUp(z, n) /\ HandOut(c, UpPtr(z), AfterUp(z, n))
    BY <1>1, <1>2, <1>5 DEF BumpUp, At, Locks, LocksOf, Growing
  <2>2. /\ UpPtr(z) \in Address /\ Aligned(UpPtr(z))
        /\ z.current <= UpPtr(z) /\ UpPtr(z) + n <= z.end
        /\ Add(UpPtr(z), n) = UpPtr(z) + n /\ UpPtr(z) + n \in Address
        /\ AfterUp(z, n) = [z EXCEPT !.current = UpPtr(z) + n]
    BY <1>2, <1>3, <2>1, ServedUp
  <2>3. UpPtr(z) \in Int /\ UpPtr(z) + n \in Int
    BY <2>2, Ints
  <2>4. z.start <= UpPtr(z) /\ z.start <= UpPtr(z) + n
    BY <1>3, <1>4, <2>2, <2>3
  <2>5. /\ AfterUp(z, n) \in Allocator /\ AfterUp(z, n).start = z.start
        /\ AfterUp(z, n).end = z.end /\ AfterUp(z, n).current = UpPtr(z) + n
    BY <1>2, <2>2 DEF Allocator
  <2>6. UpPtr(z) + n <= UpPtr(z) + n
    BY <2>3
  <2>7. Fresh(t, AfterUp(z, n), UpPtr(z), n)
    BY <1>2, <2>1, <2>2, <2>4, <2>5, <2>6 DEF Fresh
  <2> QED
    BY <1>1, <2>1, <2>7
<1>6. CASE BumpDown(c)
  <2>1. /\ t = "service" /\ FitsDown(z, n)
        /\ HandOut(c, DownPtr(z, n), AfterDown(z, n))
    BY <1>1, <1>2, <1>6 DEF BumpDown, At, Locks, LocksOf
  <2>2. /\ DownPtr(z, n) \in Address /\ Aligned(DownPtr(z, n))
        /\ z.start <= DownPtr(z, n) /\ DownPtr(z, n) + n <= z.current
        /\ Add(DownPtr(z, n), n) = DownPtr(z, n) + n /\ DownPtr(z, n) + n \in Address
        /\ AfterDown(z, n) = [z EXCEPT !.current = DownPtr(z, n)]
    BY <1>2, <1>3, <2>1, ServedDown
  <2>3. DownPtr(z, n) \in Int /\ DownPtr(z, n) + n \in Int
    BY <2>2, Ints
  <2>4. /\ DownPtr(z, n) + n <= z.end /\ DownPtr(z, n) <= z.end
        /\ DownPtr(z, n) <= DownPtr(z, n)
    BY <1>3, <1>4, <2>2, <2>3
  <2>5. /\ AfterDown(z, n) \in Allocator /\ AfterDown(z, n).start = z.start
        /\ AfterDown(z, n).end = z.end /\ AfterDown(z, n).current = DownPtr(z, n)
    BY <1>2, <2>2 DEF Allocator
  <2>6. Fresh(t, AfterDown(z, n), DownPtr(z, n), n)
    BY <1>2, <2>1, <2>2, <2>4, <2>5 DEF Fresh
  <2> QED
    BY <1>1, <2>1, <2>6
<1> QED
  BY <1>5, <1>6

LEMMA BumpOK == ASSUME MemInv, NEW c \in Cpus, BumpUp(c) \/ BumpDown(c) PROVE MemInv'
BY BumpIsFresh, HandOutOK

LEMMA GrowOK == ASSUME MemInv, NEW c \in Cpus, Grow(c) PROVE MemInv'
<1> DEFINE x == extra[c]
           moves == CanGrow(zone["app"], zone["service"], x, app_max)
<1>1. TypeOK /\ Locks /\ Tiles(zone) /\ x \in Address /\ Aligned(x)
  BY DEF MemInv, TypeOK, Locks, LocksOf
<1>2. /\ pc[c] = "grow_move" /\ zones_lock' = None
      /\ lock' = [lock EXCEPT !["app"] = None, !["service"] = None]
      /\ UNCHANGED <<req, blocks, alone>>
  BY DEF Grow, At
<1>3. lock["app"] = c /\ lock["service"] = c /\ req[c].zone = "app"
  BY <1>1, <1>2 DEF Locks, LocksOf, Growing
<1>4. \/ /\ moves /\ zone' = MoveBoundary(zone, x)
         /\ pc' = [pc EXCEPT ![c] = "up_again"] /\ UNCHANGED <<seen, extra, ptr>>
      \/ Return(c, None) /\ UNCHANGED zone
  BY DEF Grow, Goto
<1>5. /\ Tiles(zone')
      /\ \A t \in Zone : zone'[t].current = zone[t].current
      /\ zone'["kernel"] = zone["kernel"] /\ zone'["app"].start = zone["app"].start
      /\ zone'["service"].end = zone["service"].end
  <2>1. CASE UNCHANGED zone
    BY <1>1, <2>1
  <2>2. CASE moves /\ zone' = MoveBoundary(zone, x)
    BY <1>1, <2>2, Moved
  <2> QED
    BY <1>4, <2>1, <2>2
<1> HIDE DEF x, moves
<1>6. TypeOK'
  <2>1. /\ pc' \in [Cpus -> Labels]
        /\ seen' \in [Cpus -> [current : Address, end : Address]]
        /\ extra' \in [Cpus -> Address]
        /\ ptr' \in [Cpus -> Address \union {None}]
    <3>1. CASE Return(c, None)
      BY <1>1, <3>1, ReturnTyped
    <3>2. CASE pc' = [pc EXCEPT ![c] = "up_again"] /\ UNCHANGED <<seen, extra, ptr>>
      BY <1>1, <3>2 DEF TypeOK, Labels
    <3> QED
      BY <1>4, <3>1, <3>2
  <2>2. lock' \in [Zone -> Cpus \union {None}]
    BY <1>1, <1>2 DEF TypeOK
  <2> QED
    BY <1>1, <1>2, <1>5, <2>1, <2>2 DEF TypeOK, Tiles
<1>7. Limits'
  <2>1. CASE UNCHANGED zone
    BY <2>1 DEF MemInv, Limits
  <2>2. CASE moves /\ zone' = MoveBoundary(zone, x)
    <3>1. Size(zone'["service"]) >= ZONE_SERVICE_MIN
      BY <1>1, <2>2, Moved DEF moves
    <3> QED
      BY <1>5, <3>1 DEF MemInv, Limits
  <2> QED
    BY <1>4, <2>1, <2>2
<1>8. Locks'
  <2>1. pc'[c] \in {"idle", "up_again"} /\ req'[c] = req[c] /\ Aligned(extra'[c])
    <3>1. CASE Return(c, None)
      BY <1>1, <1>2, <3>1, ZeroAligned DEF TypeOK, Return, Goto
    <3>2. CASE pc' = [pc EXCEPT ![c] = "up_again"] /\ UNCHANGED <<seen, extra, ptr>>
      BY <1>1, <1>2, <3>2 DEF TypeOK, x
    <3> QED
      BY <1>4, <3>1, <3>2
  <2>2. LocksOf(c)'
    BY <1>3, <2>1 DEF LocksOf, Bumping, Growing
  <2>3. \A d \in Cpus \ {c} : /\ pc'[d] = pc[d] /\ req'[d] = req[d] /\ seen'[d] = seen[d]
                              /\ extra'[d] = extra[d]
    <3>1. CASE Return(c, None)
      BY <1>1, <1>2, <3>1 DEF TypeOK, Return, Goto
    <3>2. CASE pc' = [pc EXCEPT ![c] = "up_again"] /\ UNCHANGED <<seen, extra, ptr>>
      BY <1>1, <1>2, <3>2 DEF TypeOK
    <3> QED
      BY <1>4, <3>1, <3>2
  <2>4. \A u \in Zone : lock[u] \in Cpus \ {c} =>
                          lock'[u] = lock[u] /\ zone'[u].current = zone[u].current
    BY <1>1, <1>2, <1>3, <1>5 DEF TypeOK
  <2> QED
    BY <1>1, <2>2, <2>3, <2>4, OthersKeepLocks
<1>9. BlocksUsed'
  <2> SUFFICES ASSUME NEW b \in blocks PROVE Used(b)'
    BY <1>2 DEF BlocksUsed
  <2>1. Used(b) /\ b.zone \in Zone
    BY InZone DEF MemInv, BlocksUsed
  <2>2. b.zone # "service" => zone'[b.zone].start = zone[b.zone].start
    BY <1>5, <2>1 DEF Zone
  <2> QED
    BY <1>5, <2>1, <2>2 DEF Used, Zone
<1>10. NoOverlap'
  BY <1>2 DEF MemInv, NoOverlap
<1> QED
  BY <1>5, <1>6, <1>7, <1>8, <1>9, <1>10 DEF MemInv

-----------------------------------------------------------------------------
LEMMA MemInvStep == MemInv /\ [Next]_vars => MemInv'
<1> SUFFICES ASSUME MemInv, [Next]_vars PROVE MemInv'
  OBVIOUS
<1>1. CASE UNCHANGED vars
  <2>1. TypeOK' /\ Locks'
    BY <1>1 DEF vars, MemInv, TypeOK, Locks, LocksOf
  <2> QED
    BY <1>1, <2>1, QuietStep DEF vars
<1>2. CASE Calls
  BY <1>2, CallOK DEF Calls
<1>3. CASE \E c \in Cpus : Step(c)
  <2>1. PICK c \in Cpus : Step(c)
    BY <1>3
  <2> QED
    BY <2>1, AcquireOK, FailOK, BumpOK, GrowthOK, ReadSecondOK, GrowOK DEF Step
<1> QED
  BY <1>1, <1>2, <1>3 DEF Next

(* The invariant holds of every run of memory_allocate, for any number of   *)
(* CPUs, any range of RAM and any requests: no CPU works on a stale free    *)
(* pointer inside a critical section (memory_core.c:56-104).                *)
THEOREM MemoryInvariance == Spec => []MemInv
<1>1. Init => MemInv
  BY MemInvInit
<1>2. MemInv /\ [Next]_vars => MemInv'
  BY MemInvStep
<1> QED
  BY <1>1, <1>2, PTL DEF Spec

(* The variables keep their types: no address leaves the address space, no  *)
(* lock is held by anything but a CPU.                                      *)
THEOREM TypeCorrect == Spec => []TypeOK
<1>1. MemInv => TypeOK
  BY DEF MemInv
<1> QED
  BY <1>1, MemoryInvariance, PTL

(* Two blocks handed out, by whichever CPUs and in whichever zones, never   *)
(* share a byte (memory_core.c:205, "does not overlap").                    *)
THEOREM BlocksApart == Spec => []NoOverlap
<1>1. MemInv => NoOverlap
  BY DEF MemInv
<1> QED
  BY <1>1, MemoryInvariance, PTL

(* A block stays inside the zone it came from while the boundary between    *)
(* FastApp and Service moves, and its address is aligned.                   *)
THEOREM BlocksStayInZone == Spec => []BlocksInZone
<1>1. MemInv => BlocksInZone
  <2> SUFFICES ASSUME MemInv, NEW b \in blocks
               PROVE  /\ zone[b.zone].start <= b.lo /\ b.hi <= zone[b.zone].end
                      /\ b.lo % ALLOC_ALIGN = 0
    BY DEF BlocksInZone
  <2>1. Aligned(b.lo)
    BY DEF MemInv, BlocksUsed, Used
  <2> QED
    BY <2>1, InZone DEF Aligned
<1> QED
  BY <1>1, MemoryInvariance, PTL

(* The zones tile the range whatever the CPUs ask for, no free pointer      *)
(* leaves its zone, and Service keeps its minimum (memory_core.c:87).       *)
THEOREM ZonesAlwaysTile == Spec => []ZonesTile
<1>1. MemInv => ZonesTile
  BY DEF MemInv, Tiles, Limits, ZonesTile
<1> QED
  BY <1>1, MemoryInvariance, PTL

(* What memory_allocate returns was not in use by anyone.                   *)
THEOREM AlwaysFreshMemory == Spec => ReturnsFreshMemory
<1> DEFINE fresh == \A c \in Cpus :
             pc[c] # "idle" /\ pc'[c] = "idle" /\ ptr'[c] # None =>
               \A b \in blocks :
                 Disjoint(b, [lo |-> ptr'[c], hi |-> Add(ptr'[c], req[c].size)])
<1>1. MemInv /\ [Next]_vars => [fresh]_vars
  <2> SUFFICES ASSUME MemInv, Next, NEW c \in Cpus,
                      pc[c] # "idle", pc'[c] = "idle", ptr'[c] # None, NEW b \in blocks
               PROVE  Disjoint(b, [lo |-> ptr'[c], hi |-> Add(ptr'[c], req[c].size)])
    OBVIOUS
  <2>1. TypeOK /\ Locks
    BY DEF MemInv
  <2>2. PICK d \in Cpus : Step(d) \/ \E t \in Zone, n \in Requests : Call(d, t, n)
    BY DEF Next, Calls
  <2>3. d = c /\ (BumpUp(c) \/ BumpDown(c))
    <3>1. d = c
      BY <2>1, <2>2 DEF TypeOK, Step, Call, AcquireUp, AcquireUpAgain, AcquireDown, AcquireZone,
         BumpUp, BumpUpFails, BumpDown, BumpDownFails, HandOut, Return, ReadFirst, ReadSecond,
         AcquireZonesLock, AcquireApps, AcquireService, AcquireForGrowth, Grow, Goto, At
    <3>2. ~\E t \in Zone, n \in Requests : Call(c, t, n)
      BY <2>1 DEF Call, Goto, TypeOK
    <3>3. ~(AcquireUp(c) \/ AcquireUpAgain(c) \/ AcquireDown(c))
      BY <2>1 DEF AcquireUp, AcquireUpAgain, AcquireDown, AcquireZone, Goto, TypeOK
    <3>4. ~(ReadFirst(c) \/ AcquireZonesLock(c) \/ AcquireApps(c) \/ AcquireService(c))
      BY <2>1 DEF ReadFirst, AcquireZonesLock, AcquireApps, AcquireService, AcquireForGrowth,
         Goto, TypeOK
    <3>5. ~Return(c, None)
      BY <2>1 DEF Return, TypeOK
    <3>6. ~(BumpUpFails(c) \/ BumpDownFails(c) \/ ReadSecond(c) \/ Grow(c))
      BY <2>1, <3>5 DEF BumpUpFails, BumpDownFails, ReadSecond, Grow, Goto, TypeOK
    <3> QED
      BY <2>2, <3>1, <3>2, <3>3, <3>4, <3>6 DEF Step
  <2>4. PICK p, a : HandOut(c, p, a) /\ Fresh(req[c].zone, a, p, req[c].size)
    BY <2>3, BumpIsFresh
  <2>5. ptr'[c] = p /\ req[c].zone \in Zone
    BY <2>1, <2>4 DEF HandOut, Return, TypeOK, Request
  <2> QED
    BY <2>4, <2>5, FreshIsFree
<1>2. Spec => [][Next]_vars
  BY DEF Spec
<1> QED
  BY <1>1, <1>2, MemoryInvariance, PTL DEF ReturnsFreshMemory

-----------------------------------------------------------------------------
(* The order of the locks.                                                  *)

(* CPU c is where it holds the lock of zone t.                              *)
Holds(c, t) ==
  \/ pc[c] \in Bumping /\ req[c].zone = t
  \/ t = "app" /\ pc[c] \in {"grow_service", "grow_move"}
  \/ t = "service" /\ pc[c] = "grow_move"

HoldsZones(c) == pc[c] \in {"grow_apps", "grow_service", "grow_move"}

(* A lock that is held is held by a CPU that is going to release it.        *)
Holders ==
  \A c \in Cpus :
    /\ \A t \in Zone : lock[t] = c => Holds(c, t)
    /\ zones_lock = c => HoldsZones(c)

(* The step of a CPU that touches its own locks and free ones only.         *)
LEMMA OthersHold ==
  ASSUME TypeOK, Holders, NEW c \in Cpus,
         \A d \in Cpus \ {c} : pc'[d] = pc[d] /\ req'[d] = req[d],
         \A t \in Zone : \/ lock'[t] = None
                         \/ lock'[t] = c /\ Holds(c, t)'
                         \/ lock'[t] = lock[t] /\ lock[t] # c,
         \/ zones_lock' = None
         \/ zones_lock' = c /\ HoldsZones(c)'
         \/ zones_lock' = zones_lock /\ zones_lock # c
  PROVE  Holders'
<1> SUFFICES ASSUME NEW d \in Cpus
             PROVE  /\ \A t \in Zone : lock'[t] = d => Holds(d, t)'
                    /\ zones_lock' = d => HoldsZones(d)'
  BY DEF Holders
<1>1. None \notin Cpus
  BY MemoryCoreAssumption
<1>2. CASE d = c
  BY <1>1, <1>2
<1>3. CASE d # c
  <2>1. /\ pc'[d] = pc[d] /\ req'[d] = req[d]
        /\ \A t \in Zone : lock[t] = d => Holds(d, t)
        /\ zones_lock = d => HoldsZones(d)
    BY <1>3 DEF Holders
  <2> QED
    BY <1>1, <1>3, <2>1 DEF Holds, HoldsZones
<1> QED
  BY <1>2, <1>3

LEMMA HoldersInit == Init => Holders
BY MemoryCoreAssumption DEF Init, Holders

LEMMA HoldersStep == MemInv /\ Holders /\ [Next]_vars => Holders'
<1> SUFFICES ASSUME MemInv, Holders, [Next]_vars PROVE Holders'
  OBVIOUS
<1>1. TypeOK /\ Locks /\ None \notin Cpus
  BY MemoryCoreAssumption DEF MemInv
<1>2. CASE UNCHANGED vars
  BY <1>2 DEF vars, Holders, Holds, HoldsZones
<1>3. ASSUME NEW c \in Cpus, NEW t \in Zone, NEW n \in Requests, Call(c, t, n)
      PROVE  Holders'
  <2>1. \A u \in Zone : lock[u] # c
    BY <1>1, <1>3 DEF Holders, Call, At, Holds, Bumping
  <2>2. zones_lock # c
    BY <1>1, <1>3 DEF Holders, Call, At, HoldsZones
  <2> QED
    BY <1>1, <1>3, <2>1, <2>2, OthersHold DEF Call, Goto, TypeOK
<1>4. ASSUME NEW c \in Cpus, AcquireUp(c) \/ AcquireUpAgain(c) \/ AcquireDown(c)
      PROVE  Holders'
  <2>1. PICK from, to :
          /\ <<from, to>> \in {<<"up", "bump_up">>, <<"up_again", "bump_again">>,
                               <<"down", "bump_down">>}
          /\ AcquireZone(c, from, to)
    BY <1>4 DEF AcquireUp, AcquireUpAgain, AcquireDown
  <2>2. /\ pc[c] = from /\ pc' = [pc EXCEPT ![c] = to] /\ UNCHANGED <<zones_lock, req>>
        /\ lock' = [lock EXCEPT ![req[c].zone] = c] /\ to \in Bumping
    BY <2>1 DEF AcquireZone, At, Goto, Bumping
  <2>3. zones_lock # c /\ \A u \in Zone : lock[u] # c
    BY <1>1, <2>1, <2>2 DEF Holders, Holds, HoldsZones, Bumping
  <2>4. Holds(c, req[c].zone)'
    BY <1>1, <2>2 DEF Holds, TypeOK
  <2> QED
    BY <1>1, <2>2, <2>3, <2>4, OthersHold DEF TypeOK
<1>5. ASSUME NEW c \in Cpus, BumpUp(c) \/ BumpDown(c) \/ BumpUpFails(c) \/ BumpDownFails(c)
      PROVE  Holders'
  <2>1. /\ pc[c] \in Bumping /\ pc'[c] = pc'[c] /\ UNCHANGED <<zones_lock, req>>
        /\ lock' = [lock EXCEPT ![req[c].zone] = None]
        /\ \A d \in Cpus \ {c} : pc'[d] = pc[d]
    BY <1>1, <1>5 DEF BumpUp, BumpDown, BumpUpFails, BumpDownFails, HandOut, Return, At, Goto,
       Bumping, TypeOK, Locks, LocksOf
  <2>2. zones_lock # c /\ \A u \in Zone : lock[u] = c => u = req[c].zone
    BY <1>1, <2>1 DEF Holders, Holds, HoldsZones, Bumping
  <2> QED
    BY <1>1, <2>1, <2>2, OthersHold DEF TypeOK
<1>6. ASSUME NEW c \in Cpus, ReadFirst(c) \/ ReadSecond(c)
      PROVE  Holders'
  <2>1. /\ pc[c] \in {"have", "have_current", "have_end"} /\ UNCHANGED <<lock, zones_lock, req>>
        /\ \A d \in Cpus \ {c} : pc'[d] = pc[d]
    BY <1>1, <1>6 DEF ReadFirst, ReadSecond, Return, At, Goto, TypeOK
  <2>2. zones_lock # c /\ \A u \in Zone : lock[u] # c
    BY <1>1, <2>1 DEF Holders, Holds, HoldsZones, Bumping
  <2> QED
    BY <1>1, <2>1, <2>2, OthersHold DEF TypeOK
<1>7. ASSUME NEW c \in Cpus, AcquireZonesLock(c)
      PROVE  Holders'
  <2>1. /\ pc[c] = "grow" /\ pc' = [pc EXCEPT ![c] = "grow_apps"] /\ zones_lock' = c
        /\ UNCHANGED <<lock, req>>
    BY <1>7 DEF AcquireZonesLock, At, Goto
  <2>2. \A u \in Zone : lock[u] # c
    BY <1>1, <2>1 DEF Holders, Holds, Bumping
  <2>3. HoldsZones(c)'
    BY <1>1, <2>1 DEF HoldsZones, TypeOK
  <2> QED
    BY <1>1, <2>1, <2>2, <2>3, OthersHold DEF TypeOK
<1>8. ASSUME NEW c \in Cpus, AcquireApps(c)
      PROVE  Holders'
  <2>1. /\ pc[c] = "grow_apps" /\ pc' = [pc EXCEPT ![c] = "grow_service"]
        /\ lock' = [lock EXCEPT !["app"] = c] /\ UNCHANGED <<zones_lock, req>>
    BY <1>8 DEF AcquireApps, AcquireForGrowth, At, Goto
  <2>2. \A u \in Zone : lock[u] # c
    BY <1>1, <2>1 DEF Holders, Holds, Bumping
  <2>3. HoldsZones(c)' /\ Holds(c, "app")'
    BY <1>1, <2>1 DEF HoldsZones, Holds, TypeOK
  <2> QED
    BY <1>1, <2>1, <2>2, <2>3, OthersHold DEF TypeOK
<1>9. ASSUME NEW c \in Cpus, AcquireService(c)
      PROVE  Holders'
  <2>1. /\ pc[c] = "grow_service" /\ pc' = [pc EXCEPT ![c] = "grow_move"]
        /\ lock' = [lock EXCEPT !["service"] = c] /\ UNCHANGED <<zones_lock, req>>
    BY <1>9 DEF AcquireService, AcquireForGrowth, At, Goto
  <2>2. \A u \in Zone : lock[u] = c => u = "app"
    BY <1>1, <2>1 DEF Holders, Holds, Bumping
  <2>3. HoldsZones(c)' /\ Holds(c, "app")' /\ Holds(c, "service")'
    BY <1>1, <2>1 DEF HoldsZones, Holds, TypeOK
  <2> QED
    BY <1>1, <2>1, <2>2, <2>3, OthersHold DEF TypeOK
<1>10. ASSUME NEW c \in Cpus, Grow(c)
       PROVE  Holders'
  <2>1. /\ pc[c] = "grow_move" /\ zones_lock' = None /\ UNCHANGED req
        /\ lock' = [lock EXCEPT !["app"] = None, !["service"] = None]
        /\ \A d \in Cpus \ {c} : pc'[d] = pc[d]
    BY <1>1, <1>10 DEF Grow, Return, At, Goto, TypeOK
  <2>2. \A u \in Zone : lock[u] = c => u \in {"app", "service"}
    BY <1>1, <2>1 DEF Holders, Holds, Bumping
  <2> QED
    BY <1>1, <2>1, <2>2, OthersHold DEF TypeOK
<1> QED
  BY <1>2, <1>3, <1>4, <1>5, <1>6, <1>7, <1>8, <1>9, <1>10 DEF Next, Calls, Step

(* A CPU that holds a lock of a zone, or waits for one of the growth, is    *)
(* followed by at most two others that wait: somebody always goes on.       *)
LEMMA HoldersGoOn == TypeOK /\ Holders => SomeoneGoesOn
<1> SUFFICES ASSUME TypeOK, Holders, NEW c \in Cpus, ~At(c, "idle"),
                    \A d \in Cpus : At(d, "idle") \/ Spins(d)
             PROVE  FALSE
  BY DEF SomeoneGoesOn
<1>1. lock["service"] = None
  <2> SUFFICES ASSUME lock["service"] # None PROVE FALSE
    OBVIOUS
  <2> DEFINE d == lock["service"]
  <2>1. d \in Cpus /\ Holds(d, "service")
    BY DEF TypeOK, Holders, Zone
  <2> QED
    BY <2>1 DEF Holds, Spins, At, Bumping
<1>2. lock["app"] = None
  <2> SUFFICES ASSUME lock["app"] # None PROVE FALSE
    OBVIOUS
  <2> DEFINE d == lock["app"]
  <2>1. d \in Cpus /\ Holds(d, "app")
    BY DEF TypeOK, Holders, Zone
  <2> QED
    BY <1>1, <2>1 DEF Holds, Spins, At, Bumping
<1>3. lock["kernel"] = None
  <2> SUFFICES ASSUME lock["kernel"] # None PROVE FALSE
    OBVIOUS
  <2> DEFINE d == lock["kernel"]
  <2>1. d \in Cpus /\ Holds(d, "kernel")
    BY DEF TypeOK, Holders, Zone
  <2> QED
    BY <2>1 DEF Holds, Spins, At, Bumping
<1>4. zones_lock = None
  <2> SUFFICES ASSUME zones_lock # None PROVE FALSE
    OBVIOUS
  <2>1. zones_lock \in Cpus /\ HoldsZones(zones_lock)
    BY DEF TypeOK, Holders
  <2> QED
    BY <1>1, <1>2, <2>1 DEF HoldsZones, Spins, At
<1>5. Spins(c) /\ req[c].zone \in Zone
  BY DEF TypeOK, Request
<1> QED
  BY <1>1, <1>2, <1>3, <1>4, <1>5 DEF Spins, Zone

(* While calls are under way one of them does not wait for a lock: the      *)
(* growth takes zones_lock, the lock of FastApp and that of Service in one  *)
(* order, and who holds the lock of a zone to allocate takes no other       *)
(* (memory_core.c:76-104).                                                  *)
THEOREM LocksLetSomeoneGoOn == Spec => []SomeoneGoesOn
<1>1. Init => MemInv /\ Holders
  BY MemInvInit, HoldersInit
<1>2. MemInv /\ Holders /\ [Next]_vars => (MemInv /\ Holders)'
  BY MemInvStep, HoldersStep
<1>3. MemInv /\ Holders => SomeoneGoesOn
  BY HoldersGoOn DEF MemInv
<1> QED
  BY <1>1, <1>2, <1>3, PTL DEF Spec

-----------------------------------------------------------------------------
(* A call that no other call overlaps.                                      *)

(* What the growth needs to know of the request is exact.                   *)
Exact(c) ==
  LET app == zone["app"]
      n == req[c].size
  IN
  /\ pc[c] \in {"have", "have_current", "have_end"} => ~FitsUp(app, n)
  /\ pc[c] = "have_current" => seen[c].end = app.end
  /\ pc[c] = "have_end" => seen[c].current = app.current
  /\ pc[c] \in {"grow", "grow_apps", "grow_service", "grow_move"} =>
       n > Have(app) /\ extra[c] = align_up(n - Have(app), PAGE_ALIGN)
  /\ pc[c] \in {"up_again", "bump_again"} => FitsUp(app, n) \/ ~Servable(n)

Undisturbed ==
  \A c \in Cpus : alone = c /\ pc[c] # "idle" =>
    Exact(c) /\ \A d \in Cpus \ {c} : pc[d] = "idle"

LEMMA LimitIsInt == app_max \in Int
BY MemoryCoreAssumption, LimitIsSize DEF app_max, Usable

(* What FastApp has free.                                                   *)
LEMMA FastApp ==
  ASSUME NEW z, Tiles(z), NEW n \in Address
  PROVE  LET app == z["app"] IN
         /\ Have(app) = app.end - UpPtr(app) /\ Have(app) \in Address /\ Have(app) \in Int
         /\ UpPtr(app) \in Address /\ UpPtr(app) \in Int /\ app.end \in Int
         /\ FitsUp(app, n) <=> n <= Have(app)
<1>1. z["app"] \in Allocator /\ z["app"].current <= z["app"].end /\ Aligned(z["app"].end)
  BY DEF Tiles, Zone
<1>2. /\ Sub(z["app"].end, UpPtr(z["app"])) = z["app"].end - UpPtr(z["app"])
      /\ Sub(z["app"].end, UpPtr(z["app"])) \in Address /\ UpPtr(z["app"]) \in Address
      /\ FitsUp(z["app"], n) <=> n <= z["app"].end - UpPtr(z["app"])
  BY <1>1, FreeUp
<1>3. Have(z["app"]) = Sub(z["app"].end, UpPtr(z["app"]))
  BY DEF Have, UpPtr
<1> QED
  BY <1>1, <1>2, <1>3, Ints

(* What makes a request servable in zones z, with the growth in bytes.      *)
GrowsTo(z, n, more) ==
  /\ n <= Have(z["app"]) + more
  /\ \/ more = 0
     \/ /\ more <= z["service"].current - z["service"].start
        /\ z["service"].end - z["service"].start - more >= ZONE_SERVICE_MIN
        /\ z["app"].end - z["app"].start + more <= app_max

ServableIn(z, n) == \E pages \in 0 .. (W \div PAGE_ALIGN) : GrowsTo(z, n, pages * PAGE_ALIGN)

LEMMA ServableHere ==
  ASSUME NEW z, Tiles(z), NEW n \in Address,
         \E pages \in 0 .. (W \div PAGE_ALIGN) :
           LET more == pages * PAGE_ALIGN IN
           /\ n <= z["app"].end + more - UpPtr(z["app"])
           /\ \/ more = 0
              \/ /\ more <= z["service"].current - z["service"].start
                 /\ z["service"].end - z["service"].start - more >= ZONE_SERVICE_MIN
                 /\ z["app"].end - z["app"].start + more <= app_max
  PROVE  ServableIn(z, n)
<1>1. PICK pages \in 0 .. (W \div PAGE_ALIGN) :
        LET more == pages * PAGE_ALIGN IN
        /\ n <= z["app"].end + more - UpPtr(z["app"])
        /\ \/ more = 0
           \/ /\ more <= z["service"].current - z["service"].start
              /\ z["service"].end - z["service"].start - more >= ZONE_SERVICE_MIN
              /\ z["app"].end - z["app"].start + more <= app_max
  OBVIOUS
<1>2. pages * PAGE_ALIGN \in Int
  BY Alignments
<1>3. n <= Have(z["app"]) + pages * PAGE_ALIGN
  <2> DEFINE more == pages * PAGE_ALIGN
  <2>1. n <= z["app"].end + more - UpPtr(z["app"]) /\ more \in Int
    BY <1>1, <1>2
  <2> HIDE DEF more
  <2>2. n <= Have(z["app"]) + more
    BY <2>1, FastApp
  <2> QED
    BY <2>2 DEF more
<1> QED
  BY <1>1, <1>3 DEF ServableIn, GrowsTo

(* Whole pages of memory.                                                   *)
LEMMA WholePages ==
  ASSUME NEW z, Tiles(z), NEW n \in Address, ServableIn(z, n)
  PROVE  \E more \in Address : more % PAGE_ALIGN = 0 /\ GrowsTo(z, n, more)
<1>1. PICK pages \in 0 .. (W \div PAGE_ALIGN) : GrowsTo(z, n, pages * PAGE_ALIGN)
  BY DEF ServableIn
<1>2. PAGE_ALIGN \in Nat \ {0} /\ pages \in Nat /\ W \in Nat \ {0}
  BY Alignments
<1> DEFINE more == pages * PAGE_ALIGN
<1>3. more \in Nat /\ more % PAGE_ALIGN = 0
  <2>1. PAGE_ALIGN * pages = more /\ more \in Nat
    BY <1>2
  <2> QED
    BY <1>2, <2>1, MultipleMod
<1>4. GrowsTo(z, n, more)
  BY <1>1
<1> HIDE DEF more
<1>5. more \in Address
  <2>1. CASE more = 0
    BY <1>2, <2>1 DEF Address
  <2>2. CASE more # 0
    <3>1. more <= z["service"].current - z["service"].start
      BY <1>4, <2>2 DEF GrowsTo
    <3>2. z["service"].current \in Address /\ z["service"].start \in Address
      BY DEF Tiles, Zone, Allocator
    <3> QED
      BY <1>2, <1>3, <3>1, <3>2 DEF Address
  <2> QED
    BY <2>1, <2>2
<1> QED
  BY <1>3, <1>4, <1>5

(* If the request can be served at all then the growth the code asks for    *)
(* is granted, and serves it.                                               *)
LEMMA ServedByGrowth ==
  ASSUME NEW z, Tiles(z), NEW n \in Address, n > Have(z["app"]), ServableIn(z, n)
  PROVE  LET x == align_up(n - Have(z["app"]), PAGE_ALIGN)
         IN CanGrow(z["app"], z["service"], x, app_max) /\ n <= Have(z["app"]) + x
<1> DEFINE app == z["app"]
           service == z["service"]
           h == Have(app)
           x == align_up(n - h, PAGE_ALIGN)
<1>1. PICK more \in Address : more % PAGE_ALIGN = 0 /\ GrowsTo(z, n, more)
  BY WholePages
<1>2. h \in Address /\ h \in Int /\ n \in Int
  BY FastApp, Ints
<1>3. /\ app.start \in Int /\ app.end \in Int
      /\ service.start \in Int /\ service.current \in Int /\ service.end \in Int
      /\ more \in Int /\ ZONE_SERVICE_MIN \in Int /\ app_max \in Int
  BY Ints, Alignments, LimitIsInt DEF Tiles, Zone
<1>4. /\ n <= h + more
      /\ \/ more = 0
         \/ /\ more <= service.current - service.start
            /\ service.end - service.start - more >= ZONE_SERVICE_MIN
            /\ app.end - app.start + more <= app_max
      /\ n > h
  BY <1>1 DEF GrowsTo
<1>5. x \in Address /\ x \in Int /\ n - h <= x /\ x <= more
  <2> HIDE DEF h
  <2> QED
    BY <1>1, <1>2, <1>4, LeastGrowth, Ints
<1> HIDE DEF app, service, h, x
<1>6. /\ x <= service.current - service.start
      /\ service.end - service.start - x >= ZONE_SERVICE_MIN
      /\ app.end - app.start + x <= app_max
  BY <1>2, <1>3, <1>4, <1>5
<1>7. CanGrow(app, service, x, app_max)
  BY <1>3, <1>5, <1>6, GrowthLimits DEF app, service
<1>8. n <= h + x
  BY <1>2, <1>5
<1> QED
  BY <1>7, <1>8 DEF app, service, h, x

(* After the growth the request fits, if it can be served at all.           *)
LEMMA ServedAfterGrowth ==
  ASSUME NEW z, Tiles(z), NEW n \in Address, n > Have(z["app"]), NEW x,
         x = align_up(n - Have(z["app"]), PAGE_ALIGN),
         CanGrow(z["app"], z["service"], x, app_max),
         ServableIn(MoveBoundary(z, x), n)
  PROVE  FitsUp(MoveBoundary(z, x)["app"], n)
<1> DEFINE y == MoveBoundary(z, x)
           h == Have(z["app"])
<1>1. /\ h \in Address /\ h \in Int /\ n \in Int
      /\ h = z["app"].end - UpPtr(z["app"])
      /\ z["app"].end \in Int /\ UpPtr(z["app"]) \in Int
  BY FastApp, Ints
<1>2. x \in Address /\ x \in Int /\ x % PAGE_ALIGN = 0 /\ Aligned(x)
  <2>1. n - h \in Address
    <3>1. n > h
      OBVIOUS
    <3> HIDE DEF h
    <3> QED
      BY <1>1, <3>1, Alignments DEF Address
  <2>2. x \in Address /\ x % PAGE_ALIGN = 0
    BY <2>1, AlignUp, Alignments
  <2> QED
    BY <2>2, Ints, PagesAreAligned DEF Aligned
<1>3. /\ Tiles(y) /\ y["app"].end = z["app"].end + x /\ y["app"].current = z["app"].current
      /\ y["app"].start = z["app"].start
      /\ y["service"].start = z["service"].start + x
      /\ y["service"].current = z["service"].current /\ y["service"].end = z["service"].end
  BY <1>2, Moved DEF Zone
<1> HIDE DEF y
<1>4. /\ Have(y["app"]) = h + x
      /\ FitsUp(y["app"], n) <=> n <= h + x
  <2>1. UpPtr(y["app"]) = UpPtr(z["app"])
    BY <1>3 DEF UpPtr
  <2>2. /\ Have(y["app"]) = y["app"].end - UpPtr(y["app"])
        /\ FitsUp(y["app"], n) <=> n <= Have(y["app"])
    BY <1>3, FastApp
  <2>3. Have(y["app"]) = h + x
    <3> HIDE DEF h
    <3> QED
      BY <1>1, <1>2, <1>3, <2>1, <2>2
  <2> QED
    BY <1>1, <1>2, <2>2, <2>3
<1>5. PICK more \in Address : more % PAGE_ALIGN = 0 /\ GrowsTo(y, n, more)
  BY <1>3, WholePages DEF y
<1>6. more \in Int /\ 0 <= more
  BY Ints
<1>7. n <= h + x + more
  <2>1. n <= Have(y["app"]) + more
    BY <1>5 DEF GrowsTo
  <2>2. Have(y["app"]) = h + x
    BY <1>4
  <2> QED
    BY <2>1, <2>2
<1>8. CASE more = 0
  <2>1. n <= h + x
    <3> HIDE DEF h
    <3> QED
      BY <1>1, <1>2, <1>7, <1>8
  <2> QED
    BY <1>4, <2>1 DEF y
<1>9. CASE more # 0
  <2>1. more <= z["service"].current - (z["service"].start + x)
    BY <1>3, <1>5, <1>9 DEF GrowsTo
  <2>2. z["service"].current \in Address /\ z["service"].start \in Address
    BY DEF Tiles, Zone, Allocator
  <2>3. x + more \in Address
    BY <1>2, <1>6, <2>1, <2>2, Alignments DEF Address
  <2>4. (x + more) % PAGE_ALIGN = 0
    BY <1>2, <1>5, <1>6, Multiples, Alignments
  <2>5. n <= h + (x + more) /\ h < n
    <3>1. h < n
      <4>1. n > h
        OBVIOUS
      <4> HIDE DEF h
      <4> QED
        BY <1>1, <4>1
    <3> HIDE DEF h
    <3> QED
      BY <1>1, <1>2, <1>6, <1>7, <3>1
  <2>6. n - h <= x
    <3>1. x = align_up(n - h, PAGE_ALIGN)
      OBVIOUS
    <3> HIDE DEF h
    <3> QED
      BY <1>1, <2>3, <2>4, <2>5, <3>1, LeastGrowth
  <2>7. n <= h + x
    <3> HIDE DEF h
    <3> QED
      BY <1>1, <1>2, <2>6
  <2> QED
    BY <1>4, <2>7 DEF y
<1> QED
  BY <1>8, <1>9

LEMMA UndisturbedInit == Init => Undisturbed
BY DEF Init, Undisturbed

(* A CPU inside a call that takes a step of it.                             *)
LEMMA ExactStep ==
  ASSUME MemInv, MemInv', NEW c \in Cpus, Step(c), Exact(c), pc'[c] # "idle"
  PROVE  Exact(c)'
<1> DEFINE app == zone["app"]
           n == req[c].size
<1>1. /\ TypeOK /\ Locks /\ Tiles(zone) /\ n \in Address /\ Tiles(zone')
      /\ pc \in [Cpus -> Labels] /\ pc'[c] # "idle"
  BY DEF MemInv, TypeOK, Request
<1>2. CASE AcquireUp(c) \/ AcquireUpAgain(c) \/ AcquireDown(c)
  <2>1. /\ UNCHANGED <<zone, req, blocks, extra>>
        /\ \/ pc'[c] \in {"bump_up", "bump_down"}
           \/ pc[c] = "up_again" /\ pc'[c] = "bump_again"
    BY <1>1, <1>2 DEF AcquireUp, AcquireUpAgain, AcquireDown, AcquireZone, At, Goto
  <2> QED
    BY <2>1 DEF Exact, Servable
<1>3. CASE BumpUp(c) \/ BumpDown(c) \/ BumpDownFails(c)
  BY <1>1, <1>3 DEF BumpUp, BumpDown, BumpDownFails, HandOut, Return, Goto
<1>4. CASE BumpUpFails(c)
  <2>1. pc[c] \in Bumping /\ ~FitsUp(Seen(c), n) /\ UNCHANGED <<zone, req>>
    BY <1>4 DEF BumpUpFails, At, Bumping
  <2>2. pc'[c] = "have" /\ req[c].zone = "app"
    BY <1>1, <1>4 DEF BumpUpFails, Return, Goto
  <2>3. ~FitsUp(app, n)
    BY <2>1, <2>2, SeenIsZone
  <2> QED
    BY <2>1, <2>2, <2>3 DEF Exact
<1>5. CASE ReadFirst(c)
  <2>1. /\ pc[c] = "have" /\ UNCHANGED <<zone, req>>
        /\ \/ seen'[c].end = app.end /\ pc'[c] = "have_current"
           \/ seen'[c].current = app.current /\ pc'[c] = "have_end"
    BY <1>1, <1>5 DEF ReadFirst, At, Goto, TypeOK
  <2> QED
    BY <2>1 DEF Exact
<1>6. CASE ReadSecond(c)
  <2> DEFINE s == IF At(c, "have_current")
                    THEN [seen[c] EXCEPT !.current = zone["app"].current]
                    ELSE [seen[c] EXCEPT !.end = zone["app"].end]
  <2>1. At(c, "have_current") \/ At(c, "have_end")
    BY <1>6 DEF ReadSecond
  <2>2. s.current = app.current /\ s.end = app.end
    BY <1>1, <2>1 DEF Exact, At, TypeOK
  <2>3. Have(s) = Have(app)
    BY <2>2 DEF Have
  <2>4. /\ n > Have(s) /\ extra'[c] = align_up(n - Have(s), PAGE_ALIGN) /\ pc'[c] = "grow"
        /\ UNCHANGED <<zone, req>>
    BY <1>1, <1>6 DEF ReadSecond, Return, Goto, TypeOK
  <2> HIDE DEF s
  <2> QED
    BY <2>3, <2>4 DEF Exact
<1>7. CASE AcquireZonesLock(c) \/ AcquireApps(c) \/ AcquireService(c)
  <2>1. /\ pc[c] \in {"grow", "grow_apps", "grow_service"}
        /\ pc'[c] \in {"grow_apps", "grow_service", "grow_move"}
        /\ UNCHANGED <<zone, req, extra>>
    BY <1>1, <1>7 DEF AcquireZonesLock, AcquireApps, AcquireService, AcquireForGrowth, At, Goto
  <2> QED
    BY <2>1 DEF Exact
<1>8. CASE Grow(c)
  <2> DEFINE x == extra[c]
  <2>1. /\ pc[c] = "grow_move" /\ pc'[c] = "up_again" /\ req' = req
        /\ CanGrow(app, zone["service"], x, app_max) /\ zone' = MoveBoundary(zone, x)
    BY <1>1, <1>8 DEF Grow, Return, At, Goto
  <2>2. n > Have(app) /\ x = align_up(n - Have(app), PAGE_ALIGN)
    BY <2>1 DEF Exact
  <2> HIDE DEF x
  <2>3. ServableIn(zone', n) => FitsUp(zone'["app"], n)
    BY <1>1, <2>1, <2>2, ServedAfterGrowth
  <2>4. Servable(n)' => ServableIn(zone', n)
    <3> SUFFICES ASSUME Servable(n)' PROVE ServableIn(zone', n)
      OBVIOUS
    <3>1. \E pages \in 0 .. (W \div PAGE_ALIGN) :
            LET more == pages * PAGE_ALIGN IN
            /\ n' <= zone'["app"].end + more - UpPtr(zone'["app"])
            /\ \/ more = 0
               \/ /\ more <= zone'["service"].current - zone'["service"].start
                  /\ zone'["service"].end - zone'["service"].start - more >= ZONE_SERVICE_MIN
                  /\ zone'["app"].end - zone'["app"].start + more <= app_max
      BY DEF Servable, UpPtr
    <3>2. n' = n
      BY <2>1
    <3> QED
      BY <1>1, <3>1, <3>2, ServableHere
  <2> QED
    BY <2>1, <2>3, <2>4 DEF Exact
<1> QED
  BY <1>2, <1>3, <1>4, <1>5, <1>6, <1>7, <1>8 DEF Step

(* A step is taken by a CPU inside a call and leaves the others where they  *)
(* are.                                                                     *)
LEMMA OneMoves ==
  ASSUME TypeOK, NEW c \in Cpus, Step(c)
  PROVE  /\ pc[c] # "idle" /\ UNCHANGED <<req, alone>>
         /\ \A d \in Cpus \ {c} : pc'[d] = pc[d] /\ seen'[d] = seen[d] /\ extra'[d] = extra[d]
<1>1. pc[c] # "idle"
  BY DEF Step, AcquireUp, AcquireUpAgain, AcquireDown, AcquireZone, BumpUp, BumpUpFails, BumpDown,
     BumpDownFails, ReadFirst, ReadSecond, AcquireZonesLock, AcquireApps, AcquireService,
     AcquireForGrowth, Grow, At
<1>2. UNCHANGED <<req, alone>>
  BY DEF Step, AcquireUp, AcquireUpAgain, AcquireDown, AcquireZone, BumpUp, BumpUpFails, BumpDown,
     BumpDownFails, HandOut, ReadFirst, ReadSecond, AcquireZonesLock, AcquireApps, AcquireService,
     AcquireForGrowth, Grow
<1>3. \A d \in Cpus \ {c} : pc'[d] = pc[d] /\ seen'[d] = seen[d] /\ extra'[d] = extra[d]
  BY DEF Step, AcquireUp, AcquireUpAgain, AcquireDown, AcquireZone, BumpUp, BumpUpFails, BumpDown,
     BumpDownFails, HandOut, ReadFirst, ReadSecond, AcquireZonesLock, AcquireApps, AcquireService,
     AcquireForGrowth, Grow, Return, Goto, TypeOK
<1> QED
  BY <1>1, <1>2, <1>3

LEMMA UndisturbedStep == MemInv /\ Undisturbed /\ [Next]_vars => Undisturbed'
<1> SUFFICES ASSUME MemInv, Undisturbed, [Next]_vars, NEW c \in Cpus,
                    alone' = c, pc'[c] # "idle"
             PROVE  Exact(c)' /\ \A d \in Cpus \ {c} : pc'[d] = "idle"
  BY DEF Undisturbed
<1>1. TypeOK /\ MemInv'
  BY MemInvStep DEF MemInv
<1>2. CASE UNCHANGED vars
  BY <1>2 DEF vars, Undisturbed, Exact, Servable
<1>3. ASSUME NEW d \in Cpus, NEW t \in Zone, NEW n \in Requests, Call(d, t, n)
      PROVE  Exact(c)' /\ \A o \in Cpus \ {c} : pc'[o] = "idle"
  <2>1. /\ pc' = [pc EXCEPT ![d] = IF t = "service" THEN "down" ELSE "up"]
        /\ alone' = IF \A o \in Cpus \ {d} : At(o, "idle") THEN d ELSE None
    BY <1>3 DEF Call, Goto
  <2>2. c = d /\ \A o \in Cpus \ {d} : pc[o] = "idle"
    BY <2>1, MemoryCoreAssumption DEF At
  <2>3. pc'[c] \in {"up", "down"} /\ \A o \in Cpus \ {c} : pc'[o] = "idle"
    BY <1>1, <2>1, <2>2 DEF TypeOK
  <2> QED
    BY <2>3 DEF Exact
<1>4. ASSUME NEW d \in Cpus, Step(d)
      PROVE  Exact(c)' /\ \A o \in Cpus \ {c} : pc'[o] = "idle"
  <2>1. /\ pc[d] # "idle" /\ alone' = alone
        /\ \A o \in Cpus \ {d} : pc'[o] = pc[o]
    BY <1>1, <1>4, OneMoves
  <2>2. c = d
    BY <2>1 DEF Undisturbed
  <2>3. Exact(c) /\ \A o \in Cpus \ {c} : pc[o] = "idle"
    BY <2>1, <2>2 DEF Undisturbed
  <2> QED
    BY <1>1, <1>4, <2>1, <2>2, <2>3, ExactStep
<1> QED
  BY <1>2, <1>3, <1>4 DEF Next, Calls

(* Why a FastApp call that no other overlaps is refused.                    *)
LEMMA Refusal ==
  ASSUME MemInv, NEW c \in Cpus, Step(c), Exact(c), req[c].zone = "app",
         pc'[c] = "idle", ptr'[c] = None
  PROVE  ~Servable(req[c].size)
<1> DEFINE app == zone["app"]
           n == req[c].size
<1>1. TypeOK /\ Locks /\ Tiles(zone) /\ n \in Address /\ None \notin Int /\ Have(app) \in Int
  BY MemoryCoreAssumption, FastApp DEF MemInv, TypeOK, Request
<1>2. ~(AcquireUp(c) \/ AcquireUpAgain(c) \/ AcquireDown(c))
  BY <1>1 DEF AcquireUp, AcquireUpAgain, AcquireDown, AcquireZone, Goto, TypeOK
<1>3. ~(ReadFirst(c) \/ AcquireZonesLock(c) \/ AcquireApps(c) \/ AcquireService(c))
  BY <1>1 DEF ReadFirst, AcquireZonesLock, AcquireApps, AcquireService, AcquireForGrowth,
     Goto, TypeOK
<1>4. ~(BumpDown(c) \/ BumpDownFails(c))
  BY <1>1 DEF BumpDown, BumpDownFails, At, Locks, LocksOf
<1>5. ~BumpUp(c)
  <2> SUFFICES ASSUME BumpUp(c) PROVE FALSE
    OBVIOUS
  <2>1. PICK p, a : HandOut(c, p, a) /\ Fresh(req[c].zone, a, p, n)
    BY BumpIsFresh
  <2>2. ptr'[c] = p /\ p \in Address
    BY <1>1, <2>1 DEF HandOut, Return, TypeOK, Fresh
  <2> QED
    BY <1>1, <2>2, Ints
<1>6. CASE BumpUpFails(c)
  <2>1. pc[c] \in Bumping /\ ~FitsUp(Seen(c), n) /\ pc[c] # "bump_up"
    BY <1>1, <1>6 DEF BumpUpFails, At, Bumping, Goto, TypeOK
  <2>2. ~FitsUp(app, n) /\ pc[c] = "bump_again"
    BY <1>1, <1>6, <2>1, SeenIsZone DEF BumpUpFails, At
  <2> QED
    BY <2>2 DEF Exact
<1>7. ~ReadSecond(c)
  <2> SUFFICES ASSUME ReadSecond(c) PROVE FALSE
    OBVIOUS
  <2> DEFINE s == IF At(c, "have_current")
                    THEN [seen[c] EXCEPT !.current = zone["app"].current]
                    ELSE [seen[c] EXCEPT !.end = zone["app"].end]
  <2>1. At(c, "have_current") \/ At(c, "have_end")
    BY DEF ReadSecond
  <2>2. s.current = app.current /\ s.end = app.end /\ ~FitsUp(app, n)
    BY <1>1, <2>1 DEF Exact, At, TypeOK
  <2>3. Have(s) = Have(app)
    BY <2>2 DEF Have
  <2>4. ~(n > Have(s))
    BY <1>1 DEF ReadSecond, Return, Goto, TypeOK
  <2> HIDE DEF s
  <2>5. FitsUp(app, n) <=> n <= Have(app)
    BY <1>1, FastApp
  <2> QED
    BY <1>1, <2>2, <2>3, <2>4, <2>5, Ints
<1>8. CASE Grow(c)
  <2>1. pc[c] = "grow_move" /\ ~CanGrow(app, zone["service"], extra[c], app_max)
    BY <1>1, <1>8 DEF Grow, At, Goto, TypeOK
  <2>2. n > Have(app) /\ extra[c] = align_up(n - Have(app), PAGE_ALIGN)
    BY <2>1 DEF Exact
  <2>3. ~ServableIn(zone, n)
    BY <1>1, <2>1, <2>2, ServedByGrowth
  <2> QED
    BY <1>1, <2>3, ServableHere DEF Servable
<1> QED
  BY <1>2, <1>3, <1>4, <1>5, <1>6, <1>7, <1>8 DEF Step

(* A call that no other call overlaps refuses a FastApp request only when   *)
(* no growth by whole pages within the limits of both zones could serve it: *)
(* the size it asks to grow by is neither too small nor too large           *)
(* (memory_core.c:196-204), for any addresses, page size and request.       *)
THEOREM RefusesOnlyWhenFull == Spec => RefusedOnlyWhenFull
<1> DEFINE full == \A c \in Cpus :
             /\ pc[c] # "idle" /\ pc'[c] = "idle" /\ ptr'[c] = None
             /\ req[c].zone = "app" /\ alone = c
             => ~Servable(req[c].size)
<1>1. Init => MemInv /\ Undisturbed
  BY MemInvInit, UndisturbedInit
<1>2. MemInv /\ Undisturbed /\ [Next]_vars => (MemInv /\ Undisturbed)'
  BY MemInvStep, UndisturbedStep
<1>3. MemInv /\ Undisturbed /\ [Next]_vars => [full]_vars
  <2> SUFFICES ASSUME MemInv, Undisturbed, Next, NEW c \in Cpus,
                      pc[c] # "idle", pc'[c] = "idle", ptr'[c] = None,
                      req[c].zone = "app", alone = c
               PROVE  ~Servable(req[c].size)
    OBVIOUS
  <2>1. TypeOK /\ Exact(c)
    BY DEF MemInv, Undisturbed
  <2>2. ASSUME NEW d \in Cpus, NEW t \in Zone, NEW n \in Requests, Call(d, t, n) PROVE FALSE
    BY <2>1, <2>2 DEF Call, At, Goto, TypeOK
  <2>3. PICK d \in Cpus : Step(d)
    BY <2>2 DEF Next, Calls
  <2>4. d = c
    BY <2>1, <2>3, OneMoves
  <2> QED
    BY <2>1, <2>3, <2>4, Refusal
<1>4. Spec => Init /\ [][Next]_vars
  BY DEF Spec
<1> QED
  BY <1>1, <1>2, <1>3, <1>4, PTL DEF RefusedOnlyWhenFull
==============================================================================
