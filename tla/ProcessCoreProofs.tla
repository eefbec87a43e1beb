-------------------------- MODULE ProcessCoreProofs --------------------------
(***************************************************************************)
(* Theorems about the scheduler (module ProcessCore), for any set of       *)
(* processes, quanta, background turn and times between ticks.             *)
(***************************************************************************)
EXTENDS ProcessCore, SequenceTheorems, WellFoundedInduction, TLAPS

-----------------------------------------------------------------------------
(* Lemmas about the linked run queues of RunQueue, for any set of classes  *)
(* and any sequences q the lists stand for.                                *)

(* No process is in two places of q; p is in none; the lists l are q. *)
Apart(q) ==
  \A c, d \in DOMAIN q :
    \A i \in 1 .. Len(q[c]), j \in 1 .. Len(q[d]) :
      q[c][i] = q[d][j] => c = d /\ i = j
Lacks(q, p) == \A c \in DOMAIN q : \A i \in 1 .. Len(q[c]) : q[c][i] # p
Chained(l, q) == \A c \in DOMAIN q : IsList(l, c, q[c])

-----------------------------------------------------------------------------
LEMMA LeastNumber ==
  ASSUME NEW T \in SUBSET Nat, T # {}
  PROVE  \E m \in T : \A k \in T : m <= k
<1>1. PICK m \in T : \A k \in T : ~(<<k, m>> \in OpToRel(<, Nat))
  BY WFMin, NatLessThanWellFounded, Zenon
<1>2. \A k \in T : ~(k < m)
  BY <1>1 DEF OpToRel
<1> QED
  BY <1>2

(* The walk along a list reaches every process of its sequence. *)
LEMMA AllReached ==
  ASSUME None \notin Procs, NEW l, NEW c, NEW q \in Seq(Procs),
         IsList(l, c, q), q # <<>>,
         NEW S \in SUBSET Procs, l.head[c] \in S,
         \A x \in S : l.next[x] \in S \union {None}
  PROVE  \A i \in 1 .. Len(q) : q[i] \in S
<1> DEFINE Missed == {i \in 1 .. Len(q) : q[i] \notin S}
<1>1. SUFFICES ASSUME Missed # {} PROVE FALSE
  OBVIOUS
<1>2. PICK m \in Missed : \A k \in Missed : m <= k
  <2>1. Missed \in SUBSET Nat
    OBVIOUS
  <2> HIDE DEF Missed
  <2> QED
    BY <1>1, <2>1, LeastNumber
<1>3. m # 1
  BY <1>2 DEF IsList
<1>4. m - 1 \in 1 .. Len(q) /\ m - 1 \notin Missed
  BY <1>2, <1>3
<1>5. q[m - 1] \in S /\ l.next[q[m - 1]] = q[m]
  BY <1>2, <1>4 DEF IsList
<1>6. q[m] \in Procs
  BY <1>2
<1> QED
  BY <1>2, <1>5, <1>6

(* push stops at the last process of the list. *)
LEMMA LastOfList ==
  ASSUME None \notin Procs, NEW l, NEW c, NEW q \in Seq(Procs),
         IsList(l, c, q), q # <<>>
  PROVE  LastOf(l, c) = q[Len(q)]
<1>1. Len(q) \in 1 .. Len(q) /\ q[1] = l.head[c]
  BY DEF IsList
<1>2. q[Len(q)] \in Reached(l, c) /\ l.next[q[Len(q)]] = None
  <2>1. ASSUME NEW S \in SUBSET Procs, l.head[c] \in S,
               \A x \in S : l.next[x] \in S \union {None}
        PROVE  q[Len(q)] \in S
    BY <1>1, <2>1, AllReached
  <2>2. q[Len(q)] \in Procs
    BY <1>1
  <2>3. l.next[q[Len(q)]] = None
    BY <1>1 DEF IsList
  <2> QED
    BY <2>1, <2>2, <2>3 DEF Reached
<1>3. ASSUME NEW p \in Reached(l, c), l.next[p] = None
      PROVE  p = q[Len(q)]
  <2> DEFINE S == {q[i] : i \in 1 .. Len(q)}
  <2>1. S \in SUBSET Procs /\ l.head[c] \in S
    BY <1>1
  <2>2. \A x \in S : l.next[x] \in S \union {None}
    BY DEF IsList
  <2>3. p \in S
    BY <1>3, <2>1, <2>2 DEF Reached
  <2>4. PICK i \in 1 .. Len(q) : p = q[i]
    BY <2>3
  <2>5. i # Len(q) => l.next[p] \in Procs
    BY <2>4 DEF IsList
  <2> QED
    BY <1>3, <2>4, <2>5
<1> QED
  BY <1>2, <1>3 DEF LastOf

-----------------------------------------------------------------------------
(* The lists are a record of two functions. *)
LEMMA ListsParts ==
  ASSUME NEW classes
  PROVE  /\ \A l \in Lists(classes) :
              /\ l.head \in [classes -> Procs \union {None}]
              /\ l.next \in [Procs -> Procs \union {None}]
         /\ \A h \in [classes -> Procs \union {None}],
               x \in [Procs -> Procs \union {None}] :
              [head |-> h, next |-> x] \in Lists(classes)
BY DEF Lists

(* push of a process that is in no list appends it to its own list and     *)
(* leaves the others alone, whatever its link was (process_core.c:31-37).  *)
LEMMA PushAppends ==
  ASSUME None \notin Procs, NEW classes, NEW l \in Lists(classes),
         NEW q \in [classes -> Seq(Procs)], NEW c \in classes, NEW p \in Procs,
         Chained(l, q), Apart(q), Lacks(q, p)
  PROVE  /\ push(l, c, p) \in Lists(classes)
         /\ Chained(push(l, c, p), [q EXCEPT ![c] = Append(@, p)])
<1> DEFINE k == [l EXCEPT !.next[p] = None]
           r == [q EXCEPT ![c] = Append(@, p)]
<1>1. /\ k \in Lists(classes) /\ k.head = l.head /\ k.next[p] = None
      /\ \A x \in Procs : x # p => k.next[x] = l.next[x]
  BY DEF Lists
<1>2. \A d \in classes : IsList(k, d, q[d])
  BY <1>1 DEF Chained, Lacks, IsList
<1>3. CASE l.head[c] = None
  <2>1. q[c] = <<>>
    BY <1>3 DEF Chained, IsList
  <2>2. push(l, c, p) = [k EXCEPT !.head[c] = p]
    BY <1>3 DEF push
  <2>3. r[c] = <<p>> /\ \A d \in classes : d # c => r[d] = q[d]
    BY <2>1
  <2>4. push(l, c, p) = [head |-> [k.head EXCEPT ![c] = p], next |-> k.next]
    BY <1>1, <2>2 DEF Lists
  <2>5. push(l, c, p) \in Lists(classes)
    BY <1>1, <2>4 DEF Lists
  <2>6. IsList(push(l, c, p), c, <<p>>)
    BY <1>1, <2>4 DEF IsList, Lists
  <2>7. ASSUME NEW d \in classes, d # c PROVE IsList(push(l, c, p), d, q[d])
    BY <1>1, <1>2, <2>4, <2>7 DEF IsList, Lists
  <2> QED
    BY <2>3, <2>5, <2>6, <2>7 DEF Chained
<1>4. CASE l.head[c] # None
  <2> DEFINE z == q[c][Len(q[c])]
  <2>1. q[c] # <<>> /\ Len(q[c]) \in Nat \ {0} /\ z \in Procs /\ z # p
    BY <1>4 DEF Chained, IsList, Lacks
  <2>2. push(l, c, p) = [k EXCEPT !.next[z] = p]
    BY <1>2, <1>4, <2>1, LastOfList DEF push
  <2>3. push(l, c, p) = [head |-> l.head, next |-> [k.next EXCEPT ![z] = p]]
    BY <1>1, <2>2 DEF Lists
  <2>4. /\ push(l, c, p).head = l.head
        /\ push(l, c, p).next = [k.next EXCEPT ![z] = p]
    BY <2>3
  <2>5. push(l, c, p) \in Lists(classes)
    <3>1. /\ l.head \in [classes -> Procs \union {None}]
          /\ k.next \in [Procs -> Procs \union {None}]
      BY <1>1, ListsParts, Zenon
    <3>2. [k.next EXCEPT ![z] = p] \in [Procs -> Procs \union {None}]
      BY <3>1
    <3> DEFINE x == [k.next EXCEPT ![z] = p]
    <3> HIDE DEF k, z, x
    <3>3. [head |-> l.head, next |-> x] \in Lists(classes)
      BY <3>1, <3>2, ListsParts, Zenon DEF x
    <3> QED
      BY <2>3, <3>3, Zenon DEF x
  <2>6. ASSUME NEW d \in classes, d # c PROVE IsList(push(l, c, p), d, r[d])
    <3>1. r[d] = q[d]
      BY <2>6
    <3>2. \A i \in 1 .. Len(q[d]) : q[d][i] # z /\ q[d][i] \in Procs
      BY <2>1, <2>6 DEF Apart
    <3> QED
      BY <1>1, <1>2, <2>4, <3>1, <3>2 DEF IsList, Lists
  <2>7. IsList(push(l, c, p), c, r[c])
    <3> DEFINE n == Len(q[c])
    <3>1. /\ r[c] = Append(q[c], p) /\ Len(r[c]) = n + 1 /\ r[c] # <<>>
          /\ r[c][n + 1] = p /\ \A i \in 1 .. n : r[c][i] = q[c][i]
      OBVIOUS
    <3>2. l.head[c] = r[c][1]
      BY <1>2, <2>1, <3>1 DEF IsList, Chained
    <3>3. push(l, c, p).next[r[c][n + 1]] = None
      BY <1>1, <2>1, <2>4, <3>1 DEF Lists
    <3>4. push(l, c, p).next[r[c][n]] = p
      BY <1>1, <2>1, <2>4, <3>1 DEF Lists
    <3>5. ASSUME NEW i \in 1 .. n - 1
          PROVE  push(l, c, p).next[r[c][i]] = r[c][i + 1]
      <4>1. i \in 1 .. n /\ i + 1 \in 1 .. n /\ n \in 1 .. n /\ i # n
        BY <2>1
      <4>2. r[c][i] = q[c][i] /\ r[c][i + 1] = q[c][i + 1] /\ q[c][i] \in Procs
        BY <3>1, <4>1
      <4>3. q[c][i] # z
        BY <4>1 DEF Apart
      <4>4. k.next[q[c][i]] = q[c][i + 1]
        BY <1>2, <4>1 DEF IsList
      <4> QED
        BY <1>1, <2>4, <4>2, <4>3, <4>4 DEF Lists
    <3>6. ASSUME NEW i \in 1 .. n + 1
          PROVE  push(l, c, p).next[r[c][i]] =
                   IF i = n + 1 THEN None ELSE r[c][i + 1]
      <4>1. i = n + 1 \/ i = n \/ i \in 1 .. n - 1
        BY <2>1
      <4> HIDE DEF r
      <4> QED
        BY <2>1, <3>1, <3>3, <3>4, <3>5, <4>1
    <3> HIDE DEF r
    <3> QED
      BY <2>4, <3>1, <3>2, <3>6 DEF IsList
  <2> QED
    BY <2>6, <2>7, <2>5 DEF Chained
<1> QED
  BY <1>3, <1>4

(* pop takes the first process off its list and leaves the others alone    *)
(* (process_core.c:22-28).                                                 *)
LEMMA PopTakesFirst ==
  ASSUME None \notin Procs, NEW classes, NEW l \in Lists(classes),
         NEW q \in [classes -> Seq(Procs)], NEW c \in classes,
         Chained(l, q), Apart(q), q[c] # <<>>
  PROVE  /\ pop(l, c) \in Lists(classes)
         /\ Chained(pop(l, c), [q EXCEPT ![c] = Tail(@)])
<1> DEFINE p == q[c][1]
           n == Len(q[c])
           r == [q EXCEPT ![c] = Tail(@)]
<1>1. l.head[c] = p /\ p \in Procs /\ n \in Nat \ {0} /\ 1 \in 1 .. n
  BY DEF Chained, IsList
<1>2. l.next[p] \in Procs \union {None}
  BY <1>1 DEF Lists
<1>3. pop(l, c) = [l EXCEPT !.head[c] = l.next[p], !.next[p] = None]
  BY <1>1 DEF pop
<1>4. pop(l, c) = [head |-> [l.head EXCEPT ![c] = l.next[p]],
                   next |-> [l.next EXCEPT ![p] = None]]
  BY <1>3 DEF Lists
<1>5. /\ pop(l, c).head = [l.head EXCEPT ![c] = l.next[p]]
      /\ pop(l, c).next = [l.next EXCEPT ![p] = None]
  BY <1>4
<1>6. pop(l, c) \in Lists(classes)
  <2>1. /\ l.head \in [classes -> Procs \union {None}]
        /\ l.next \in [Procs -> Procs \union {None}]
    BY ListsParts, Zenon
  <2>2. /\ [l.head EXCEPT ![c] = l.next[p]] \in [classes -> Procs \union {None}]
        /\ [l.next EXCEPT ![p] = None] \in [Procs -> Procs \union {None}]
    BY <1>2, <2>1
  <2> DEFINE h == [l.head EXCEPT ![c] = l.next[p]]
             x == [l.next EXCEPT ![p] = None]
  <2> HIDE DEF p, h, x
  <2>3. [head |-> h, next |-> x] \in Lists(classes)
    BY <2>2, ListsParts, Zenon DEF h, x
  <2> QED
    BY <1>4, <2>3, Zenon DEF h, x
<1>7. ASSUME NEW d \in classes, d # c PROVE IsList(pop(l, c), d, r[d])
  <2>1. r[d] = q[d] /\ IsList(l, d, q[d])
    BY <1>7 DEF Chained
  <2>2. \A i \in 1 .. Len(q[d]) : q[d][i] # p /\ q[d][i] \in Procs
    BY <1>1, <1>7 DEF Apart
  <2> QED
    BY <1>5, <1>7, <2>1, <2>2 DEF IsList, Lists
<1>8. IsList(pop(l, c), c, r[c])
  <2>1. IsList(l, c, q[c])
    BY DEF Chained
  <2>2. /\ r[c] = Tail(q[c]) /\ Len(r[c]) = n - 1
        /\ \A i \in 1 .. n - 1 : r[c][i] = q[c][i + 1]
    BY <1>1
  <2>3. pop(l, c).head[c] = IF r[c] = <<>> THEN None ELSE r[c][1]
    <3>1. pop(l, c).head[c] = l.next[p]
      BY <1>5, ListsParts
    <3>2. l.next[p] = IF 1 = n THEN None ELSE q[c][1 + 1]
      BY <1>1, <2>1 DEF IsList
    <3>3. r[c] \in Seq(Procs)
      BY <1>1, <2>2
    <3> HIDE DEF n, r
    <3>4. n # 1 => 1 \in 1 .. n - 1
      BY <1>1
    <3>5. n = 1 <=> r[c] = <<>>
      <4>1. n - 1 = 0 <=> n = 1
        BY <1>1
      <4> QED
        BY <2>2, <3>3, <4>1, EmptySeq
    <3> QED
      BY <2>2, <3>1, <3>2, <3>4, <3>5
  <2>4. ASSUME NEW i \in 1 .. n - 1
        PROVE  pop(l, c).next[r[c][i]] = IF i = n - 1 THEN None ELSE r[c][i + 1]
    <3>1. i + 1 \in 1 .. n /\ i + 1 # 1
      BY <1>1
    <3>2. q[c][i + 1] # p /\ q[c][i + 1] \in Procs
      BY <1>1, <3>1 DEF Apart
    <3>3. pop(l, c).next[q[c][i + 1]] = l.next[q[c][i + 1]]
      BY <1>5, <3>2 DEF Lists
    <3>4. l.next[q[c][i + 1]] = IF i + 1 = n THEN None ELSE q[c][(i + 1) + 1]
      BY <2>1, <3>1 DEF IsList
    <3>5. (i + 1 = n <=> i = n - 1) /\ (i # n - 1 => i + 1 \in 1 .. n - 1)
      BY <1>1
    <3> HIDE DEF n, r
    <3> QED
      BY <2>2, <3>3, <3>4, <3>5
  <2> QED
    BY <1>1, <2>2, <2>3, <2>4 DEF IsList
<1> QED
  BY <1>7, <1>8, <1>6 DEF Chained

-----------------------------------------------------------------------------
(* The lists l are the sequences q and hold exactly the processes of S,    *)
(* each of them once.                                                      *)
Holds(classes, q, l, S) ==
  /\ q \in [classes -> Seq(Procs)]
  /\ l \in Lists(classes)
  /\ Apart(q)
  /\ Chained(l, q)
  /\ \A p \in Procs : p \in S <=> ~Lacks(q, p)

(* push adds a process that was not there (process_core.c:31-37).          *)
LEMMA PushKeeps ==
  ASSUME None \notin Procs, NEW classes, NEW q, NEW l, NEW S,
         Holds(classes, q, l, S),
         NEW c \in classes, NEW p \in Procs, p \notin S
  PROVE  Holds(classes, [q EXCEPT ![c] = Append(@, p)], push(l, c, p), S \union {p})
<1> DEFINE r == [q EXCEPT ![c] = Append(@, p)]
           n == Len(q[c])
<1>1. /\ q \in [classes -> Seq(Procs)] /\ l \in Lists(classes)
      /\ Apart(q) /\ Chained(l, q) /\ Lacks(q, p) /\ n \in Nat
  BY DEF Holds
<1>2. push(l, c, p) \in Lists(classes) /\ Chained(push(l, c, p), r)
  BY <1>1, PushAppends
<1>3. /\ r \in [classes -> Seq(Procs)]
      /\ Len(r[c]) = n + 1 /\ r[c][n + 1] = p
      /\ \A i \in 1 .. n : r[c][i] = q[c][i]
      /\ \A d \in classes : d # c => r[d] = q[d]
  BY <1>1
<1>4. \A d \in classes, i \in Nat :
        i \in 1 .. Len(r[d]) =>
           \/ d = c /\ i = n + 1
           \/ i \in 1 .. Len(q[d]) /\ r[d][i] = q[d][i] /\ q[d][i] # p
  <2>1. \A i \in Nat : i \in 1 .. n + 1 => i = n + 1 \/ i \in 1 .. n
    BY <1>1
  <2>2. \A d \in classes : \A i \in 1 .. Len(q[d]) : q[d][i] # p
    BY <1>1 DEF Lacks
  <2> HIDE DEF r, n
  <2> QED
    BY <1>1, <1>3, <2>1, <2>2 DEF n
<1>5. Apart(r)
  <2> SUFFICES ASSUME NEW d \in classes, NEW e \in classes,
                      NEW i \in 1 .. Len(r[d]), NEW j \in 1 .. Len(r[e]),
                      r[d][i] = r[e][j]
               PROVE  d = e /\ i = j
    BY <1>3, Zenon DEF Apart
  <2>1. i \in Nat /\ j \in Nat
    BY <1>3
  <2>2. DOMAIN q = classes
    BY <1>1
  <2> HIDE DEF r, n
  <2>3. /\ \/ d = c /\ i = n + 1
           \/ i \in 1 .. Len(q[d]) /\ r[d][i] = q[d][i] /\ q[d][i] # p
        /\ \/ e = c /\ j = n + 1
           \/ j \in 1 .. Len(q[e]) /\ r[e][j] = q[e][j] /\ q[e][j] # p
    BY <1>4, <2>1
  <2>4. /\ d = c /\ i = n + 1 => r[d][i] = p
        /\ e = c /\ j = n + 1 => r[e][j] = p
    BY <1>3
  <2>5. ASSUME i \in 1 .. Len(q[d]), j \in 1 .. Len(q[e]), q[d][i] = q[e][j]
        PROVE  d = e /\ i = j
    BY <1>1, <2>2, <2>5, Zenon DEF Apart
  <2> QED
    BY <2>3, <2>4, <2>5
<1>6. ASSUME NEW x \in Procs PROVE x \in S \union {p} <=> ~Lacks(r, x)
  <2>1. x \in S <=> ~Lacks(q, x)
    BY DEF Holds
  <2>2. DOMAIN q = classes /\ DOMAIN r = classes
    BY <1>1, <1>3
  <2>3. Lacks(r, x) => Lacks(q, x) /\ x # p
    <3>1. n + 1 \in 1 .. n + 1 /\ \A i \in 1 .. n : i \in 1 .. n + 1
      BY <1>1
    <3> HIDE DEF r
    <3>2. Lacks(r, x) => x # p
      BY <1>3, <2>2, <3>1 DEF Lacks
    <3>3. ASSUME Lacks(r, x), NEW d \in classes, NEW i \in 1 .. Len(q[d])
          PROVE  q[d][i] # x
      BY <1>3, <2>2, <3>1, <3>3 DEF Lacks
    <3> QED
      BY <2>2, <3>2, <3>3 DEF Lacks
  <2>4. Lacks(q, x) /\ x # p => Lacks(r, x)
    <3>1. \A d \in classes : \A i \in 1 .. Len(r[d]) : i \in Nat
      BY <1>3
    <3> HIDE DEF r, n
    <3> QED
      BY <1>3, <1>4, <2>2, <3>1 DEF Lacks
  <2> QED
    BY <2>1, <2>3, <2>4
<1> QED
  BY <1>2, <1>3, <1>5, <1>6 DEF Holds

(* pop takes out the process it returns, and only that                     *)
(* (process_core.c:22-28).                                                 *)
LEMMA PopKeeps ==
  ASSUME None \notin Procs, NEW classes, NEW q, NEW l, NEW S,
         Holds(classes, q, l, S), NEW c \in classes, q[c] # <<>>
  PROVE  /\ Head(q[c]) \in Procs /\ Head(q[c]) \in S
         /\ Holds(classes, [q EXCEPT ![c] = Tail(@)], pop(l, c), S \ {Head(q[c])})
<1> DEFINE r == [q EXCEPT ![c] = Tail(@)]
           n == Len(q[c])
           p == Head(q[c])
<1>1. /\ q \in [classes -> Seq(Procs)] /\ l \in Lists(classes)
      /\ Apart(q) /\ Chained(l, q) /\ DOMAIN q = classes
  BY DEF Holds
<1>2. n \in Nat \ {0} /\ 1 \in 1 .. n /\ p = q[c][1] /\ p \in Procs
  BY <1>1
<1>3. ~Lacks(q, p)
  BY <1>1, <1>2 DEF Lacks
<1>4. pop(l, c) \in Lists(classes) /\ Chained(pop(l, c), r)
  BY <1>1, PopTakesFirst
<1>5. /\ r \in [classes -> Seq(Procs)] /\ DOMAIN r = classes
      /\ Len(r[c]) = n - 1
      /\ \A i \in 1 .. n - 1 : r[c][i] = q[c][i + 1]
      /\ \A d \in classes : d # c => r[d] = q[d]
  BY <1>1, <1>2
<1> DEFINE at(d, i) == IF d = c THEN i + 1 ELSE i
<1>6. ASSUME NEW d \in classes, NEW i \in 1 .. Len(r[d])
      PROVE  i \in Nat /\ at(d, i) \in 1 .. Len(q[d]) /\ r[d][i] = q[d][at(d, i)]
  <2>1. i \in Nat
    BY <1>5
  <2>2. d = c => i + 1 \in 1 .. n
    BY <1>2, <1>5
  <2> HIDE DEF r
  <2> QED
    BY <1>5, <2>1, <2>2
<1>7. Apart(r)
  <2> SUFFICES ASSUME NEW d \in classes, NEW e \in classes,
                      NEW i \in 1 .. Len(r[d]), NEW j \in 1 .. Len(r[e]),
                      r[d][i] = r[e][j]
               PROVE  d = e /\ i = j
    BY <1>5, Zenon DEF Apart
  <2>1. i \in Nat /\ j \in Nat
    BY <1>6
  <2>2. q[d][at(d, i)] = q[e][at(e, j)]
    BY <1>6
  <2>3. d = e /\ at(d, i) = at(e, j)
    <3> HIDE DEF r, at
    <3> QED
      BY <1>1, <1>6, <2>2 DEF Apart
  <2> HIDE DEF r
  <2> QED
    BY <2>1, <2>3
<1>8. Lacks(r, p)
  <2> SUFFICES ASSUME NEW d \in classes, NEW i \in 1 .. Len(r[d]), r[d][i] = p
               PROVE  FALSE
    BY <1>5, Zenon DEF Lacks
  <2>1. q[d][at(d, i)] = q[c][1]
    BY <1>2, <1>6
  <2>2. d = c /\ at(d, i) = 1
    <3> HIDE DEF r, at, p
    <3> QED
      BY <1>1, <1>2, <1>6, <2>1 DEF Apart
  <2>3. i \in 1 .. n - 1
    BY <1>5, <2>2
  <2> HIDE DEF r
  <2> QED
    BY <1>2, <2>2, <2>3
<1>9. ASSUME NEW x \in Procs PROVE x \in S \ {p} <=> ~Lacks(r, x)
  <2>1. x \in S <=> ~Lacks(q, x)
    BY DEF Holds
  <2>2. Lacks(q, x) => Lacks(r, x)
    <3> HIDE DEF r, at
    <3> QED
      BY <1>1, <1>5, <1>6 DEF Lacks
  <2>3. ASSUME Lacks(r, x), NEW d \in classes, NEW i \in 1 .. Len(q[d]), q[d][i] = x
        PROVE  x = p
    <3>1. CASE d # c
      <4> HIDE DEF r
      <4> QED
        BY <1>5, <2>3, <3>1 DEF Lacks
    <3>2. CASE d = c /\ i # 1
      <4>1. i - 1 \in 1 .. n - 1 /\ (i - 1) + 1 = i
        BY <1>2, <3>2
      <4> HIDE DEF r, n
      <4> QED
        BY <1>5, <2>3, <3>2, <4>1 DEF Lacks
    <3> QED
      BY <1>2, <2>3, <3>1, <3>2
  <2>4. Lacks(r, x) /\ x # p => Lacks(q, x)
    BY <1>1, <2>3 DEF Lacks
  <2> QED
    BY <1>8, <2>1, <2>2, <2>4
<1> QED
  BY <1>2, <1>3, <1>4, <1>5, <1>7, <1>9 DEF Holds

-----------------------------------------------------------------------------
(* The scheduler.                                                          *)

(* The fields of TypeOK that are numbers, flags and sets. *)
Fields ==
  /\ prio \in [Procs -> Prios]
  /\ wants_cpu \in [Procs -> BOOLEAN]
  /\ budget \in [Procs -> Nat]
  /\ spare_pool \in Nat
  /\ picks_since_bg \in 0 .. Unsigned - 1
  /\ admitted \subseteq Procs
  /\ waited \in Nat
  /\ gap \in 0 .. BG_TURN_EVERY

(* The run queues hold the admitted processes but the one on the CPU. *)
InPlace ==
  /\ current \in admitted \union {None}
  /\ Holds(Classes, queue, lists, admitted \ {current})

(* A background process was passed over only since the counter last was    *)
(* zero, or in the pick that wrapped it around.                            *)
Counted ==
  waited > 0 => picks_since_bg < BG_TURN_EVERY /\ waited <= picks_since_bg + 1

(* The counter that calls the background is never ahead of the picks since *)
(* the background last ran.                                                *)
Spaced == gap = BG_TURN_EVERY \/ picks_since_bg <= gap

(* The inductive invariant. *)
IInv == Fields /\ InPlace

-----------------------------------------------------------------------------
(* What the invariant says in the words of the properties. *)
LEMMA InvMeans ==
  IInv => TypeOK /\ OneOwner /\ ListsMatch
<1> SUFFICES ASSUME IInv PROVE TypeOK /\ OneOwner /\ ListsMatch
  OBVIOUS
<1> USE ProcessCoreAssumption
<1>1. /\ queue \in [Classes -> Seq(Procs)] /\ lists \in Lists(Classes)
      /\ Apart(queue) /\ Chained(lists, queue) /\ DOMAIN queue = Classes
  BY DEF IInv, InPlace, Holds
<1>2. \A p \in Procs : Queued(p) <=> p \in admitted /\ p # current
  BY <1>1 DEF IInv, InPlace, Holds, Lacks, Queued
<1>3. TypeOK
  BY <1>1 DEF IInv, InPlace, Fields, TypeOK
<1>4. NoDuplicate
  BY <1>1 DEF NoDuplicate, Apart
<1>5. RunningNotQueued /\ NoneLost
  BY <1>2 DEF RunningNotQueued, NoneLost, IInv, InPlace, Fields
<1>6. ListsMatch
  BY <1>1 DEF ListsMatch, Chained
<1> QED
  BY <1>3, <1>4, <1>5, <1>6 DEF OneOwner

(* Every process has a class, whatever its priority.                       *)
LEMMA ClassOfType ==
  ASSUME NEW p \in Procs
  PROVE  ClassOf(p) \in Classes
BY ProcessCoreAssumption DEF ClassOf, Classes, Background

(* Reducing a counter to its width.                                        *)
LEMMA RemainderBound ==
  ASSUME NEW m \in Nat, NEW n \in Nat \ {0}
  PROVE  m % n \in 0 .. n - 1 /\ (m < n => m % n = m)
OBVIOUS

(* The counter of picks is unsigned and moves on by one, or wraps around.  *)
LEMMA NextPicksType ==
  ASSUME Fields
  PROVE  /\ NextPicks \in 0 .. Unsigned - 1
         /\ NextPicks <= picks_since_bg + 1
         /\ picks_since_bg + 1 < Unsigned => NextPicks = picks_since_bg + 1
<1>1. picks_since_bg \in 0 .. Unsigned - 1
  BY DEF Fields
<1>2. picks_since_bg + 1 \in Nat /\ picks_since_bg + 1 <= Unsigned /\ Unsigned \in Nat \ {0}
  BY <1>1, ProcessCoreAssumption
<1>3. /\ NextPicks \in 0 .. Unsigned - 1
      /\ picks_since_bg + 1 < Unsigned => NextPicks = picks_since_bg + 1
  BY <1>2, RemainderBound DEF NextPicks
<1>4. picks_since_bg + 1 = Unsigned => NextPicks <= picks_since_bg + 1
  BY <1>2, <1>3
<1> QED
  BY <1>2, <1>3, <1>4

(* What a process is given and what the pool pays are never negative.      *)
LEMMA BudgetTypes ==
  ASSUME NEW p, NEW s \in Nat
  PROVE  Quantum(p, s) \in Nat /\ SpareAfter(p, s) \in Nat
<1>1. /\ Q_FOREGROUND \in Nat /\ Q_RECENT \in Nat
      /\ Q_BG_BATCH \in Nat /\ Q_BG_MIN \in Nat
  BY ProcessCoreAssumption
<1>2. Give(s) \in Nat /\ s - Give(s) \in Nat
  BY <1>1 DEF Give
<1>3. BgBudget(s) \in Nat
  BY <1>1, <1>2 DEF BgBudget
<1> QED
  BY <1>1, <1>2, <1>3 DEF Quantum, SpareAfter

(* The second half of a tick, from queues q that hold the processes of S.  *)
LEMMA DispatchKeeps ==
  ASSUME NEW q, NEW l, NEW b, NEW s, NEW S \in SUBSET Procs,
         Fields, Holds(Classes, q, l, S), b \in [Procs -> Nat], s \in Nat,
         Dispatch(q, l, b, s)
  PROVE  /\ current' \in S \union {None}
         /\ Holds(Classes, queue', lists', S \ {current'})
         /\ budget' \in [Procs -> Nat]
         /\ spare_pool' \in Nat
         /\ picks_since_bg' \in 0 .. Unsigned - 1
         /\ waited' \in Nat /\ gap' \in 0 .. BG_TURN_EVERY
<1> USE ProcessCoreAssumption
<1>0. 0 \in 0 .. Unsigned - 1
  OBVIOUS
<1>1. ASSUME NEW c \in Classes, DispatchFrom(c, q, l, b, s)
      PROVE  /\ current' \in S
             /\ Holds(Classes, queue', lists', S \ {current'})
             /\ budget' \in [Procs -> Nat]
             /\ spare_pool' \in Nat
             /\ picks_since_bg' \in 0 .. Unsigned - 1
             /\ waited' \in Nat /\ gap' \in 0 .. BG_TURN_EVERY
  <2>1. q[c] # <<>>
    BY <1>1 DEF DispatchFrom, Picks, Candidates
  <2>2. /\ Head(q[c]) \in Procs /\ Head(q[c]) \in S
        /\ Holds(Classes, [q EXCEPT ![c] = Tail(@)], pop(l, c), S \ {Head(q[c])})
    BY <2>1, PopKeeps
  <2>3. current' \in S /\ Holds(Classes, queue', lists', S \ {current'})
    BY <1>1, <2>2 DEF DispatchFrom
  <2>4. budget' \in [Procs -> Nat] /\ spare_pool' \in Nat
    BY <1>1, <2>2, BudgetTypes DEF DispatchFrom
  <2>5. picks_since_bg' \in 0 .. Unsigned - 1
    BY <1>0, <1>1, NextPicksType DEF DispatchFrom, PicksAfter
  <2>6. waited' \in Nat /\ gap' \in 0 .. BG_TURN_EVERY
    BY <1>1 DEF DispatchFrom, GapAfter, Fields
  <2> QED
    BY <2>3, <2>4, <2>5, <2>6
<1>2. ASSUME DispatchNothing(q, l, b, s)
      PROVE  /\ current' = None
             /\ Holds(Classes, queue', lists', S \ {current'})
             /\ budget' \in [Procs -> Nat]
             /\ spare_pool' \in Nat
             /\ picks_since_bg' \in 0 .. Unsigned - 1
             /\ waited' \in Nat /\ gap' \in 0 .. BG_TURN_EVERY
  <2>1. S \ {None} = S
    OBVIOUS
  <2> QED
    BY <1>0, <1>2, <2>1 DEF DispatchNothing, Fields
<1> QED
  BY <1>1, <1>2 DEF Dispatch

-----------------------------------------------------------------------------
(* process_core_init establishes the invariant.                            *)
LEMMA InvInit == Init => IInv
<1> SUFFICES ASSUME Init PROVE IInv
  OBVIOUS
<1> USE ProcessCoreAssumption
<1>1. Fields
  BY DEF Init, Fields
<1>2. queue \in [Classes -> Seq(Procs)] /\ \A c \in Classes : Len(queue[c]) = 0
  BY DEF Init
<1>3. lists \in Lists(Classes)
  BY DEF Init, Lists
<1>4. Apart(queue) /\ Chained(lists, queue) /\ \A p : Lacks(queue, p)
  BY <1>2 DEF Init, Apart, Chained, Lacks, IsList
<1>5. InPlace
  BY <1>2, <1>3, <1>4 DEF Init, InPlace, Holds
<1> QED
  BY <1>1, <1>5 DEF IInv

(* Every step keeps it.                                                    *)
LEMMA InvStep == IInv /\ [Next]_vars => IInv'
<1> SUFFICES ASSUME IInv, [Next]_vars PROVE IInv'
  OBVIOUS
<1> USE ProcessCoreAssumption
<1>1. /\ Fields /\ current \in admitted \union {None} /\ admitted \subseteq Procs
      /\ Holds(Classes, queue, lists, admitted \ {current})
  BY DEF IInv, InPlace, Fields
<1>2. CASE TickIdle
  <2>1. admitted \ {None} = admitted
    BY <1>1
  <2>2. Holds(Classes, queue, lists, admitted)
    BY <1>1, <1>2, <2>1 DEF TickIdle
  <2>3. Dispatch(queue, lists, budget, spare_pool)
    BY <1>2 DEF TickIdle
  <2>4. /\ current' \in admitted \union {None}
        /\ Holds(Classes, queue', lists', admitted \ {current'})
        /\ budget' \in [Procs -> Nat] /\ spare_pool' \in Nat
        /\ picks_since_bg' \in 0 .. Unsigned - 1
        /\ waited' \in Nat /\ gap' \in 0 .. BG_TURN_EVERY
    BY <1>1, <2>2, <2>3, DispatchKeeps DEF Fields
  <2> QED
    BY <1>1, <1>2, <2>4 DEF TickIdle, IInv, Fields, InPlace
<1>3. ASSUME NEW e \in Elapsed, TickSwitch(e) PROVE IInv'
  <2> DEFINE q == Pushed(queue, current)
             l == Linked(lists, current)
             b == [budget EXCEPT ![current] = 0]
             s == (spare_pool + Donation) % Word
  <2>1. current \in admitted /\ current \in Procs /\ ClassOf(current) \in Classes
    BY <1>1, <1>3, ClassOfType DEF TickSwitch
  <2>2. Holds(Classes, q, l, (admitted \ {current}) \union {current})
    BY <1>1, <2>1, PushKeeps DEF Pushed, Linked
  <2>3. (admitted \ {current}) \union {current} = admitted
    BY <2>1
  <2>4. b \in [Procs -> Nat] /\ s \in Nat
    <3>1. Donation \in Nat
      BY <1>1, <2>1 DEF Donation, Fields
    <3>2. s \in 0 .. Word - 1
      BY <1>1, <3>1, RemainderBound DEF Fields
    <3> QED
      BY <1>1, <2>1, <3>2 DEF Fields
  <2>5. Dispatch(q, l, b, s)
    BY <1>3 DEF TickSwitch
  <2> HIDE DEF q, l, b, s
  <2>6. /\ current' \in admitted \union {None}
        /\ Holds(Classes, queue', lists', admitted \ {current'})
        /\ budget' \in [Procs -> Nat] /\ spare_pool' \in Nat
        /\ picks_since_bg' \in 0 .. Unsigned - 1
        /\ waited' \in Nat /\ gap' \in 0 .. BG_TURN_EVERY
    BY <1>1, <2>2, <2>3, <2>4, <2>5, DispatchKeeps
  <2> QED
    BY <1>1, <1>3, <2>6 DEF TickSwitch, IInv, Fields, InPlace
<1>4. ASSUME NEW e \in Elapsed, TickRun(e) PROVE IInv'
  <2>1. current \in Procs
    BY <1>1, <1>4 DEF TickRun
  <2>2. budget' \in [Procs -> Nat]
    BY <1>1, <1>4, <2>1 DEF TickRun, Fields
  <2> QED
    BY <1>1, <1>4, <2>2 DEF TickRun, IInv, Fields, InPlace
<1>5. ASSUME NEW p \in Procs, Admit(p) PROVE IInv'
  <2>1. p \notin admitted \ {current} /\ ClassOf(p) \in Classes
    BY <1>5, ClassOfType DEF Admit
  <2>2. Holds(Classes, queue', lists', (admitted \ {current}) \union {p})
    BY <1>1, <1>5, <2>1, PushKeeps DEF Admit, Pushed, Linked
  <2>3. (admitted \ {current}) \union {p} = admitted' \ {current'}
    BY <1>1, <1>5 DEF Admit
  <2>4. InPlace'
    BY <1>1, <1>5, <2>2, <2>3 DEF Admit, InPlace
  <2> QED
    BY <1>1, <1>5, <2>4 DEF Admit, IInv, Fields
<1>6. ASSUME NEW p \in Procs, NEW newp \in NewPrios, SetPriority(p, newp)
      PROVE  IInv'
  BY <1>1, <1>6 DEF SetPriority, IInv, Fields, InPlace
<1>7. ASSUME NEW p \in Procs, Yield(p) \/ Wake(p) PROVE IInv'
  BY <1>1, <1>7 DEF Yield, Wake, IInv, Fields, InPlace
<1>8. CASE UNCHANGED vars
  BY <1>1, <1>8 DEF vars, IInv, Fields, InPlace
<1> QED
  BY <1>2, <1>3, <1>4, <1>5, <1>6, <1>7, <1>8 DEF Next, Tick

(* It holds in every state the scheduler reaches.                          *)
LEMMA Invariance == Spec => []IInv
<1> QED
  BY InvInit, InvStep, PTL DEF Spec

(* The type of the state.                                                  *)
THEOREM TypeCorrect == Spec => []TypeOK
<1>1. IInv => TypeOK
  BY InvMeans
<1> QED
  BY <1>1, Invariance, PTL

(* A process handed to the scheduler is on the CPU or once in one run      *)
(* queue, however many processes there are (process_core.c:89-133).        *)
THEOREM OwnedOnce == Spec => []OneOwner
<1>1. IInv => OneOwner
  BY InvMeans
<1> QED
  BY <1>1, Invariance, PTL

(* The links of the processes are the run queues: no list closes into a    *)
(* ring and none runs into another (process_core.c:20-37).                 *)
THEOREM LinksRight == Spec => []ListsMatch
<1>1. IInv => ListsMatch
  BY InvMeans
<1> QED
  BY <1>1, Invariance, PTL

-----------------------------------------------------------------------------
LEMMA CountedStep == IInv /\ Counted /\ [Next]_vars => Counted'
<1> SUFFICES ASSUME IInv, Counted, [Next]_vars PROVE Counted'
  OBVIOUS
<1> USE ProcessCoreAssumption
<1>1. Fields /\ waited \in Nat /\ picks_since_bg \in 0 .. Unsigned - 1
  BY DEF IInv, Fields
<1>2. ASSUME NEW q, NEW l, NEW b, NEW s, Dispatch(q, l, b, s) PROVE Counted'
  <2>1. ASSUME NEW c \in Classes, DispatchFrom(c, q, l, b, s) PROVE Counted'
    <3>1. CASE c \in Background \/ ~BgWaiting(q)
      BY <2>1, <3>1 DEF DispatchFrom, Counted
    <3>2. CASE c \notin Background /\ BgWaiting(q)
      <4>1. ~BgTurn(q)
        BY <2>1, <3>2 DEF DispatchFrom, Picks, Candidates
      <4>2. NextPicks \in Nat /\ NextPicks < BG_TURN_EVERY
        BY <1>1, <3>2, <4>1, NextPicksType DEF BgTurn
      <4>3. picks_since_bg' = NextPicks /\ waited' = waited + 1
        BY <2>1, <3>2 DEF DispatchFrom, PicksAfter
      <4>4. waited > 0 => NextPicks = picks_since_bg + 1
        BY <1>1, NextPicksType DEF Counted
      <4> QED
        BY <1>1, <4>2, <4>3, <4>4 DEF Counted
    <3> QED
      BY <3>1, <3>2
  <2>2. CASE DispatchNothing(q, l, b, s)
    BY <2>2 DEF DispatchNothing, Counted
  <2> QED
    BY <1>2, <2>1, <2>2 DEF Dispatch
<1>3. CASE TickIdle \/ \E e \in Elapsed : TickSwitch(e)
  BY <1>2, <1>3 DEF TickIdle, TickSwitch
<1>4. CASE \/ \E e \in Elapsed : TickRun(e)
           \/ \E p \in Procs : Admit(p) \/ Yield(p) \/ Wake(p)
           \/ \E p \in Procs, n \in NewPrios : SetPriority(p, n)
           \/ UNCHANGED vars
  BY <1>4 DEF TickRun, Admit, Yield, Wake, SetPriority, vars, Counted
<1> QED
  BY <1>3, <1>4 DEF Next, Tick

(* A waiting background is passed over at most BG_TURN_EVERY picks in a    *)
(* row, whatever the load of the other classes, the yields and the changes *)
(* of priority, and although the counter wraps (process_core.c:64-75).     *)
THEOREM BackgroundInTurn == Spec => []BackgroundTurn
<1>1. Init => Counted
  BY DEF Init, Counted
<1>2. IInv /\ Counted => BackgroundTurn
  BY ProcessCoreAssumption DEF IInv, Fields, Counted, BackgroundTurn
<1> QED
  BY <1>1, <1>2, CountedStep, Invariance, PTL DEF Spec

-----------------------------------------------------------------------------
(* A pick from queues q, seen from the queue c it pops. *)
LEMMA PickOutranks ==
  ASSUME Fields, NEW q, NEW c \in Classes, Picks(q, c)
  PROVE  /\ q[c] # <<>>
         /\ \A d \in Classes :
              \/ q[d] = <<>>
              \/ Rank(c) <= Rank(d)
              \/ /\ c \in Background /\ d \notin Background
                 /\ picks_since_bg + 1 >= BG_TURN_EVERY
<1>1. NextPicks \in Nat /\ NextPicks <= picks_since_bg + 1 /\ picks_since_bg \in Nat
  BY NextPicksType DEF Fields
<1>2. c \in Candidates(q) /\ q[c] # <<>>
  BY DEF Picks, Candidates
<1>3. BgTurn(q) => c \in Background /\ picks_since_bg + 1 >= BG_TURN_EVERY
  BY <1>1, <1>2, ProcessCoreAssumption DEF Candidates, BgTurn
<1>4. ASSUME NEW d \in Classes, q[d] # <<>>, d \in Background \/ ~BgTurn(q)
      PROVE  Rank(c) <= Rank(d)
  BY <1>4 DEF Picks, Candidates
<1> QED
  BY <1>2, <1>3, <1>4

(* Every step that puts a process on the CPU takes it in order. *)
LEMMA PickStep == IInv /\ [Next]_vars => PickInOrder
<1> SUFFICES ASSUME IInv, [Next]_vars, NEW p \in Procs, current' = p, current # p
             PROVE  \E c \in Classes :
                      /\ queue[c] # <<>> /\ Head(queue[c]) = p
                      /\ \A d \in Classes :
                           \/ queue'[d] = <<>>
                           \/ Rank(c) <= Rank(d)
                           \/ /\ c \in Background /\ d \notin Background
                              /\ picks_since_bg + 1 >= BG_TURN_EVERY
  BY DEF PickInOrder
<1> USE ProcessCoreAssumption
<1>1. /\ Fields /\ queue \in [Classes -> Seq(Procs)]
      /\ current \in Procs \union {None}
  BY DEF IInv, Fields, InPlace, Holds
<1>2. PICK q, l, b, s :
        /\ Dispatch(q, l, b, s)
        /\ q = queue \/ (current \in Procs /\ q = Pushed(queue, current))
  <2>1. TickIdle \/ \E e \in Elapsed : TickSwitch(e)
    BY DEF Next, Tick, TickRun, Admit, SetPriority, Yield, Wake, vars
  <2> QED
    BY <1>1, <2>1 DEF TickIdle, TickSwitch
<1>3. PICK c \in Classes : DispatchFrom(c, q, l, b, s)
  BY <1>2 DEF Dispatch, DispatchNothing
<1>4. /\ Picks(q, c) /\ p = Head(q[c])
      /\ q \in [Classes -> Seq(Procs)]
      /\ queue' = [q EXCEPT ![c] = Tail(@)]
  <2>1. Picks(q, c) /\ p = Head(q[c]) /\ queue' = [q EXCEPT ![c] = Tail(@)]
    BY <1>3 DEF DispatchFrom
  <2>2. CASE q = queue
    BY <1>1, <2>1, <2>2
  <2>3. CASE current \in Procs /\ q = Pushed(queue, current)
    <3>1. ClassOf(current) \in Classes
      BY <2>3, ClassOfType
    <3> QED
      BY <1>1, <2>1, <2>3, <3>1 DEF Pushed
  <2> QED
    BY <1>2, <2>2, <2>3
<1>5. queue[c] # <<>> /\ Head(queue[c]) = p
  <2>1. q[c] # <<>>
    BY <1>1, <1>4, PickOutranks
  <2>2. CASE q = queue
    BY <1>4, <2>1, <2>2
  <2>3. CASE current \in Procs /\ q = Pushed(queue, current)
    <3>1. ClassOf(current) \in Classes
      BY <2>3, ClassOfType
    <3>2. q[c] = queue[c] \/ q[c] = Append(queue[c], current)
      BY <1>1, <2>3, <3>1 DEF Pushed
    <3>3. queue[c] \in Seq(Procs)
      BY <1>1
    <3>4. queue[c] = <<>> => q[c] = <<current>> \/ q[c] = <<>>
      BY <3>2
    <3>5. queue[c] # <<>> => Head(q[c]) = Head(queue[c])
      BY <2>3, <3>2, <3>3
    <3> QED
      BY <1>4, <2>1, <3>4, <3>5
  <2> QED
    BY <1>2, <2>2, <2>3
<1>6. ASSUME NEW d \in Classes
      PROVE  \/ queue'[d] = <<>>
             \/ Rank(c) <= Rank(d)
             \/ /\ c \in Background /\ d \notin Background
                /\ picks_since_bg + 1 >= BG_TURN_EVERY
  <2>1. d # c => queue'[d] = q[d]
    BY <1>4
  <2>2. Rank(c) <= Rank(c)
    BY DEF Rank
  <2> QED
    BY <1>1, <1>4, <2>1, <2>2, PickOutranks
<1> QED
  BY <1>5, <1>6

(* Whoever gets the CPU was first in a queue that no waiting queue         *)
(* outranks, but for the background turns (process_core.c:66-87).          *)
THEOREM PriorityKept == Spec => StrictPriority
BY PickStep, Invariance, PTL DEF Spec, StrictPriority

-----------------------------------------------------------------------------
(* The counter moves on with every pick that is not the background's, and  *)
(* whatever sets it back sets it to zero.                                  *)
LEMMA SpacedStep == IInv /\ Spaced /\ [Next]_vars => Spaced'
<1> SUFFICES ASSUME IInv, Spaced, [Next]_vars PROVE Spaced'
  OBVIOUS
<1> USE ProcessCoreAssumption
<1>1. Fields /\ gap \in 0 .. BG_TURN_EVERY /\ picks_since_bg \in 0 .. Unsigned - 1
  BY DEF IInv, Fields
<1>2. ASSUME NEW q, NEW l, NEW b, NEW s, Dispatch(q, l, b, s) PROVE Spaced'
  <2>1. ASSUME NEW c \in Classes, DispatchFrom(c, q, l, b, s) PROVE Spaced'
    <3>1. picks_since_bg' = PicksAfter(c) /\ gap' = GapAfter(c)
      BY <2>1 DEF DispatchFrom
    <3>2. CASE c \in Background
      BY <3>1, <3>2 DEF PicksAfter, GapAfter, Spaced
    <3>3. CASE c \notin Background
      <4>1. NextPicks \in Nat /\ NextPicks <= picks_since_bg + 1
        BY <1>1, NextPicksType
      <4>2. picks_since_bg' = NextPicks
        BY <3>1, <3>3 DEF PicksAfter
      <4>3. gap' = IF gap < BG_TURN_EVERY THEN gap + 1 ELSE gap
        BY <3>1, <3>3 DEF GapAfter
      <4> QED
        BY <1>1, <4>1, <4>2, <4>3 DEF Spaced
    <3> QED
      BY <3>2, <3>3
  <2>2. CASE DispatchNothing(q, l, b, s)
    BY <1>1, <2>2 DEF DispatchNothing, Spaced
  <2> QED
    BY <1>2, <2>1, <2>2 DEF Dispatch
<1>3. CASE TickIdle \/ \E e \in Elapsed : TickSwitch(e)
  BY <1>2, <1>3 DEF TickIdle, TickSwitch
<1>4. CASE \/ \E e \in Elapsed : TickRun(e)
           \/ \E p \in Procs : Admit(p) \/ Yield(p) \/ Wake(p)
           \/ \E p \in Procs, n \in NewPrios : SetPriority(p, n)
           \/ UNCHANGED vars
  BY <1>4 DEF TickRun, Admit, Yield, Wake, SetPriority, vars, Spaced
<1> QED
  BY <1>3, <1>4 DEF Next, Tick

(* Between two turns of the background that pass over a foreground or      *)
(* recent process there are BG_TURN_EVERY - 1 picks for others, for any    *)
(* processes, yields, admissions and changes of class                      *)
(* (process_core.c:64-75).                                                 *)
THEOREM TurnsKeptApart == Spec => TurnsApart
<1>1. IInv /\ Spaced /\ [Next]_vars => TurnDue
  <2> SUFFICES ASSUME IInv, Spaced, [Next]_vars,
                      NEW c \in Background, NEW d \in Classes \ Background,
                      queue[c] # <<>>, current' = Head(queue[c]), current' # current,
                      queue'[d] # <<>>
               PROVE  gap + 1 >= BG_TURN_EVERY
    BY DEF TurnDue
  <2>1. /\ queue \in [Classes -> Seq(Procs)] /\ DOMAIN queue = Classes
        /\ Apart(queue) /\ Fields
    BY DEF IInv, InPlace, Holds
  <2>2. c \in Classes /\ queue[c] \in Seq(Procs)
    BY <2>1 DEF Classes, Background
  <2>3. current' \in Procs
    BY <2>2
  <2>4. PICK e \in Classes :
          /\ queue[e] # <<>> /\ Head(queue[e]) = current'
          /\ \A k \in Classes :
               \/ queue'[k] = <<>>
               \/ Rank(e) <= Rank(k)
               \/ /\ e \in Background /\ k \notin Background
                  /\ picks_since_bg + 1 >= BG_TURN_EVERY
    BY <2>3, PickStep DEF PickInOrder
  <2>5. e = c
    <3>1. queue[e] \in Seq(Procs) /\ 1 \in 1 .. Len(queue[e]) /\ 1 \in 1 .. Len(queue[c])
      BY <2>1, <2>2, <2>4
    <3>2. queue[e][1] = queue[c][1]
      BY <2>2, <2>4, <3>1
    <3> QED
      BY <2>1, <2>2, <3>1, <3>2 DEF Apart
  <2>6. ~(Rank(c) <= Rank(d))
    BY DEF Rank, Classes, Background
  <2>7. picks_since_bg + 1 >= BG_TURN_EVERY
    BY <2>4, <2>5, <2>6
  <2> QED
    BY <2>1, <2>7, ProcessCoreAssumption DEF Spaced, Fields
<1>2. Init => Spaced
  BY ProcessCoreAssumption DEF Init, Spaced
<1> QED
  BY <1>1, <1>2, SpacedStep, Invariance, PTL DEF Spec, TurnsApart
=============================================================================
