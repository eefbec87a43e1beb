----------------------------- MODULE MemoryCore ------------------------------
(***************************************************************************)
(* memory_allocate called by several CPUs at once (kernel/memory_core.c):  *)
(* a spinlock per zone, zones_lock for the boundary between FastApp and    *)
(* Service, and the unlocked reads between a failed attempt and the growth *)
(* of the zone.  memory_free does nothing and has no action.               *)
(*                                                                         *)
(* pc[c] is where CPU c is in the call; every access to shared state that  *)
(* another CPU can see is a step of its own.  The last write of a critical *)
(* section and the release of its lock are one step: nobody else can read  *)
(* the guarded fields in between, but for the unlocked reads, which take   *)
(* no lock.                                                                *)
(***************************************************************************)
EXTENDS Zones

CONSTANTS
  Cpus,
  None,                \* no CPU; also the NULL pointer
  MemStart, MemEnd,    \* the range given to memory_init_range
  Requests             \* the sizes memory_allocate is called with

ASSUME MemoryCoreAssumption ==
  /\ None \notin Cpus /\ None \notin Int
  /\ MemStart \in Address /\ MemEnd \in Address
  /\ align_up(MemStart, PAGE_ALIGN) >= MemStart
  /\ align_up(MemStart, PAGE_ALIGN) <= align_down(MemEnd, PAGE_ALIGN)
  /\ Requests \subseteq Address

VARIABLES
  zone,         \* memory_zones: the allocator of each zone
  lock,         \* the CPU that holds the lock of each zone
  zones_lock,   \* the CPU that holds zones_lock
  pc,           \* where each CPU is in memory_allocate
  req,          \* its arguments
  seen,         \* the fields it has read: `current` and, unlocked, `end`
  extra,        \* the argument of grow_fast_app_zone
  ptr,          \* what its last call returned
  blocks,       \* history: the blocks handed out
  alone         \* history: the CPU whose call no other call overlaps

vars == <<zone, lock, zones_lock, pc, req, seen, extra, ptr, blocks, alone>>

InitialZones == Layout(MemStart, MemEnd)
app_max == LayoutAppMax(MemStart, MemEnd)

Request == [zone : Zone, size : Address]
Block == [zone : Zone, lo : Address, hi : Address]

Init ==
  /\ zone = InitialZones
  /\ lock = [t \in Zone |-> None]
  /\ zones_lock = None
  /\ pc = [c \in Cpus |-> "idle"]
  /\ req = [c \in Cpus |-> [zone |-> "kernel", size |-> 0]]
  /\ seen = [c \in Cpus |-> [current |-> 0, end |-> 0]]
  /\ extra = [c \in Cpus |-> 0]
  /\ ptr = [c \in Cpus |-> None]
  /\ blocks = {}
  /\ alone = None

At(c, label) == pc[c] = label
Goto(c, label) == pc' = [pc EXCEPT ![c] = label]

(* The call of CPU c ends with pointer p; its locals are gone. *)
Return(c, p) ==
  /\ Goto(c, "idle")
  /\ ptr' = [ptr EXCEPT ![c] = p]
  /\ seen' = [seen EXCEPT ![c] = [current |-> 0, end |-> 0]]
  /\ extra' = [extra EXCEPT ![c] = 0]

-----------------------------------------------------------------------------
(* memory_allocate; a size of 0 is refused at once and changes nothing. *)
Call(c, t, n) ==
  /\ At(c, "idle")
  /\ n # 0
  /\ req' = [req EXCEPT ![c] = [zone |-> t, size |-> n]]
  /\ Goto(c, IF t = "service" THEN "down" ELSE "up")
  /\ ptr' = [ptr EXCEPT ![c] = None]
  /\ alone' = IF \A o \in Cpus \ {c} : At(o, "idle") THEN c ELSE None
  /\ UNCHANGED <<zone, lock, zones_lock, seen, extra, blocks>>

(* The zone as CPU c sees it inside the critical section. *)
Seen(c) == [zone[req[c].zone] EXCEPT !.current = seen[c].current]

(* Mutant: without waiting for the lock. *)
MutantAcquireZone(c, from, to) ==
  LET t == req[c].zone IN
  /\ At(c, from)
  /\ lock' = [lock EXCEPT ![t] = c]
  /\ seen' = [seen EXCEPT ![c].current = zone[t].current]
  /\ Goto(c, to)
  /\ UNCHANGED <<zone, zones_lock, req, extra, ptr, blocks, alone>>

(* spinlock_acquire of the zone's lock, then the first read of `current`. *)
AcquireZone(c, from, to) ==
  LET t == req[c].zone IN
  /\ At(c, from)
  /\ lock[t] = None
  /\ lock' = [lock EXCEPT ![t] = c]
  /\ seen' = [seen EXCEPT ![c].current = zone[t].current]
  /\ Goto(c, to)
  /\ UNCHANGED <<zone, zones_lock, req, extra, ptr, blocks, alone>>

(* The end of a critical section that hands out n bytes at p. *)
HandOut(c, p, a) ==
  LET t == req[c].zone IN
  /\ zone' = [zone EXCEPT ![t] = a]
  /\ lock' = [lock EXCEPT ![t] = None]
  /\ blocks' = blocks \union
                 {[zone |-> t, lo |-> p, hi |-> Add(p, req[c].size)]}
  /\ Return(c, p)
  /\ UNCHANGED <<zones_lock, req, alone>>

(* bump_alloc_up: the request fits. *)
BumpUp(c) ==
  /\ At(c, "bump_up") \/ At(c, "bump_again")
  /\ FitsUp(Seen(c), req[c].size)
  /\ HandOut(c, UpPtr(Seen(c)), AfterUp(Seen(c), req[c].size))

(* Mutant: returns without releasing the lock. *)
MutantBumpUpFails(c) ==
  LET t == req[c].zone IN
  /\ At(c, "bump_up") \/ At(c, "bump_again")
  /\ ~FitsUp(Seen(c), req[c].size)
  /\ IF At(c, "bump_up") /\ t = "app"
       THEN /\ Goto(c, "have") /\ lock' = [lock EXCEPT ![t] = None]
            /\ UNCHANGED <<seen, extra, ptr>>
       ELSE Return(c, None) /\ UNCHANGED lock
  /\ UNCHANGED <<zone, zones_lock, req, blocks, alone>>

(* bump_alloc_up: it does not; the first time, FastApp tries to grow. *)
BumpUpFails(c) ==
  LET t == req[c].zone IN
  /\ At(c, "bump_up") \/ At(c, "bump_again")
  /\ ~FitsUp(Seen(c), req[c].size)
  /\ lock' = [lock EXCEPT ![t] = None]
  /\ IF At(c, "bump_up") /\ t = "app"
       THEN Goto(c, "have") /\ UNCHANGED <<seen, extra, ptr>>
       ELSE Return(c, None)
  /\ UNCHANGED <<zone, zones_lock, req, blocks, alone>>

(* bump_alloc_down: the request fits, or it does not. *)
BumpDown(c) ==
  /\ At(c, "bump_down")
  /\ FitsDown(Seen(c), req[c].size)
  /\ HandOut(c, DownPtr(Seen(c), req[c].size), AfterDown(Seen(c), req[c].size))

BumpDownFails(c) ==
  /\ At(c, "bump_down")
  /\ ~FitsDown(Seen(c), req[c].size)
  /\ lock' = [lock EXCEPT !["service"] = None]
  /\ Return(c, None)
  /\ UNCHANGED <<zone, zones_lock, req, blocks, alone>>

-----------------------------------------------------------------------------
(* `have` is computed from a->end and a->current without a lock: two       *)
(* reads, in the order the compiler chooses.                               *)
ReadFirst(c) ==
  /\ At(c, "have")
  /\ \/ /\ seen' = [seen EXCEPT ![c].end = zone["app"].end]
        /\ Goto(c, "have_current")
     \/ /\ seen' = [seen EXCEPT ![c].current = zone["app"].current]
        /\ Goto(c, "have_end")
  /\ UNCHANGED <<zone, lock, zones_lock, req, extra, ptr, blocks, alone>>

(* Mutant: the bytes lost to alignment count as free. *)
MutantHave(s) == Sub(s.end, s.current)

Have(s) == Sub(s.end, align_up(s.current, ALLOC_ALIGN))

(* The second read and the decision to grow by what is missing. *)
ReadSecond(c) ==
  LET s == IF At(c, "have_current")
             THEN [seen[c] EXCEPT !.current = zone["app"].current]
             ELSE [seen[c] EXCEPT !.end = zone["app"].end]
      n == req[c].size
  IN
  /\ At(c, "have_current") \/ At(c, "have_end")
  /\ IF n > Have(s)
       THEN /\ seen' = [seen EXCEPT ![c] = s]
            /\ extra' = [extra EXCEPT ![c] = align_up(n - Have(s), PAGE_ALIGN)]
            /\ Goto(c, "grow") /\ UNCHANGED ptr
       ELSE Return(c, None)
  /\ UNCHANGED <<zone, lock, zones_lock, req, blocks, alone>>

(* grow_fast_app_zone takes its three locks in order. *)
AcquireZonesLock(c) ==
  /\ At(c, "grow")
  /\ zones_lock = None
  /\ zones_lock' = c
  /\ Goto(c, "grow_apps")
  /\ UNCHANGED <<zone, lock, req, seen, extra, ptr, blocks, alone>>

AcquireForGrowth(c, from, t, to) ==
  /\ At(c, from)
  /\ lock[t] = None
  /\ lock' = [lock EXCEPT ![t] = c]
  /\ Goto(c, to)
  /\ UNCHANGED <<zone, zones_lock, req, seen, extra, ptr, blocks, alone>>

(* The boundary moves if it can; then the locks are released. *)
Grow(c) ==
  /\ At(c, "grow_move")
  /\ IF CanGrow(zone["app"], zone["service"], extra[c], app_max)
       THEN /\ zone' = MoveBoundary(zone, extra[c])
            /\ Goto(c, "up_again") /\ UNCHANGED <<seen, extra, ptr>>
       ELSE Return(c, None) /\ UNCHANGED zone
  /\ lock' = [lock EXCEPT !["app"] = None, !["service"] = None]
  /\ zones_lock' = None
  /\ UNCHANGED <<req, blocks, alone>>

-----------------------------------------------------------------------------
AcquireUp(c) == AcquireZone(c, "up", "bump_up")
AcquireUpAgain(c) == AcquireZone(c, "up_again", "bump_again")
AcquireDown(c) == AcquireZone(c, "down", "bump_down")
AcquireApps(c) == AcquireForGrowth(c, "grow_apps", "app", "grow_service")
AcquireService(c) == AcquireForGrowth(c, "grow_service", "service", "grow_move")

(* A step of CPU c inside memory_allocate. *)
Step(c) ==
  \/ AcquireUp(c) \/ AcquireUpAgain(c) \/ AcquireDown(c)
  \/ BumpUp(c) \/ BumpUpFails(c)
  \/ BumpDown(c) \/ BumpDownFails(c)
  \/ ReadFirst(c) \/ ReadSecond(c)
  \/ AcquireZonesLock(c) \/ AcquireApps(c) \/ AcquireService(c)
  \/ Grow(c)

Calls == \E c \in Cpus, t \in Zone, n \in Requests : Call(c, t, n)

Next == Calls \/ \E c \in Cpus : Step(c)

Spec == Init /\ [][Next]_vars

-----------------------------------------------------------------------------
(* Properties *)

Labels ==
  {"idle", "up", "bump_up", "have", "have_current", "have_end", "grow",
   "grow_apps", "grow_service", "grow_move", "up_again", "bump_again",
   "down", "bump_down"}

(* The type of the state. *)
TypeOK ==
  /\ zone \in [Zone -> Allocator]
  /\ lock \in [Zone -> Cpus \union {None}]
  /\ zones_lock \in Cpus \union {None}
  /\ pc \in [Cpus -> Labels]
  /\ req \in [Cpus -> Request]
  /\ seen \in [Cpus -> [current : Address, end : Address]]
  /\ extra \in [Cpus -> Address]
  /\ ptr \in [Cpus -> Address \union {None}]
  /\ blocks \subseteq Block
  /\ alone \in Cpus \union {None}

Disjoint(a, b) == a.hi <= b.lo \/ b.hi <= a.lo

(* Two blocks handed out, by whichever CPUs and in whichever zones, never  *)
(* share a byte (memory_core.c:205, "does not overlap").                   *)
NoOverlap == \A a, b \in blocks : a # b => Disjoint(a, b)

(* What memory_allocate returns was not in use: the same memory is never   *)
(* handed out a second time, however the CPUs interleave.                  *)
ReturnsFreshMemory ==
  [][\A c \in Cpus :
       pc[c] # "idle" /\ pc'[c] = "idle" /\ ptr'[c] # None =>
         \A b \in blocks :
           Disjoint(b, [lo |-> ptr'[c], hi |-> Add(ptr'[c], req[c].size)])]_vars

(* A block stays inside the zone it came from while the boundary between   *)
(* FastApp and Service moves: growth takes free memory of Service only and *)
(* never live data (docs/OmniumX_OmniumOS.md:236-237).  Its address is     *)
(* aligned to ALLOC_ALIGN.                                                 *)
BlocksInZone ==
  \A b \in blocks :
    /\ zone[b.zone].start <= b.lo /\ b.hi <= zone[b.zone].end
    /\ b.lo % ALLOC_ALIGN = 0

(* The zones always tile the range: no byte of RAM belongs to two zones or *)
(* to none, no free pointer is outside its zone, and Service keeps its     *)
(* minimum whatever FastApp asks for (memory_core.c:87), unless it never   *)
(* had it and then gives nothing away.                                     *)
ZonesTile ==
  /\ zone["kernel"].start = InitialZones["kernel"].start
  /\ zone["kernel"].end = zone["app"].start
  /\ zone["app"].end = zone["service"].start
  /\ zone["service"].end = InitialZones["service"].end
  /\ \A t \in Zone :
       zone[t].start <= zone[t].current /\ zone[t].current <= zone[t].end
  /\ \/ Size(zone["service"]) >= ZONE_SERVICE_MIN
     \/ zone["service"].start = InitialZones["service"].start

(* Could a FastApp request of n bytes be served now, growing by whole      *)
(* pages of free Service memory within the limits of both zones?           *)
Servable(n) ==
  LET app == zone["app"]
      service == zone["service"]
      free(more) == app.end + more - UpPtr(app)
  IN \E pages \in 0 .. (W \div PAGE_ALIGN) :
       LET more == pages * PAGE_ALIGN IN
       /\ n <= free(more)
       /\ \/ more = 0
          \/ /\ more <= service.current - service.start
             /\ service.end - service.start - more >= ZONE_SERVICE_MIN
             /\ app.end - app.start + more <= app_max

(* A call that no other call overlaps refuses a FastApp request only when  *)
(* it cannot be served: the size it asks to grow by is neither too small   *)
(* nor too large (memory_core.c:198, "must grow into the free part of      *)
(* Service").                                                              *)
RefusedOnlyWhenFull ==
  [][\A c \in Cpus :
       /\ pc[c] # "idle" /\ pc'[c] = "idle" /\ ptr'[c] = None
       /\ req[c].zone = "app" /\ alone = c
       => ~Servable(req[c].size)]_vars

(* CPU c stands before a spinlock that somebody holds. *)
Spins(c) ==
  \/ pc[c] \in {"up", "up_again", "down"} /\ lock[req[c].zone] # None
  \/ At(c, "grow") /\ zones_lock # None
  \/ At(c, "grow_apps") /\ lock["app"] # None
  \/ At(c, "grow_service") /\ lock["service"] # None

(* While calls are under way one of them does not spin: the order in which *)
(* the growth takes its three locks leaves no circle of CPUs that wait for *)
(* each other.                                                             *)
SomeoneGoesOn ==
  (\E c \in Cpus : ~At(c, "idle")) =>
    \E c \in Cpus : ~At(c, "idle") /\ ~Spins(c)

(* The three locks of the growth and the locks of the zones never block    *)
(* each other, and nothing but a lock ever holds a call up: while calls    *)
(* are under way one of them can take a step.                              *)
NoDeadlock ==
  /\ SomeoneGoesOn
  /\ \A c \in Cpus : ~At(c, "idle") => (ENABLED Step(c) <=> ~Spins(c))
=============================================================================
