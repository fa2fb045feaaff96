--------------------------- MODULE VirtqueueProofs ---------------------------
(***************************************************************************)
(* Proofs about module Virtqueue, for every ring size N, index width W and *)
(* set of request shapes.                                                  *)
(***************************************************************************)
EXTENDS Virtqueue, WellFoundedInduction, FunctionTheorems, SequenceTheorems, TLAPS

-----------------------------------------------------------------------------
(* Arithmetic of the ring indices.                                         *)

\* Every nonempty set of naturals has a least element: the form of induction
\* the walks along desc[].next need.
LEMMA LeastElement ==
  ASSUME NEW T, T \subseteq Nat, T # {}
  PROVE  \E x \in T : \A y \in T : x <= y
<1> DEFINE R == OpToRel(<, Nat)
<1>1. IsWellFoundedOn(R, Nat)
  BY NatLessThanWellFounded
<1>2. \A x, y \in Nat : y < x => <<y, x>> \in R
  BY DEF OpToRel
<1> HIDE DEF R
<1>3. PICK x \in T : \A y \in T : ~ (<<y, x>> \in R)
  BY <1>1, WFMin
<1>4. \A y \in T : ~ (y < x)
  BY <1>2, <1>3
<1>5. \A y \in T : x <= y
  BY <1>4
<1> QED BY <1>5

\* ++ on a uint16_t: it wraps from W-1 to 0 and nowhere else.
LEMMA IncValue ==
  ASSUME NEW c \in Counter
  PROVE  /\ Inc(c) = IF c = W-1 THEN 0 ELSE c + 1
         /\ Inc(c) \in Counter
BY SizeAssumption DEF Inc, Counter

\* The slot of a ring index is a slot of the rings.
LEMMA SlotType ==
  ASSUME NEW c \in Counter
  PROVE  Slot(c) \in Desc
BY SizeAssumption DEF Slot, Counter, Desc

\* Two numbers less than N apart have different remainders.
LEMMA ModInjective ==
  ASSUME NEW c \in Nat, NEW d \in Nat, c < d, d < c + N
  PROVE  c % N # d % N
<1> SUFFICES ASSUME c % N = d % N PROVE FALSE
  OBVIOUS
<1> DEFINE q == (d \div N) - (c \div N)
<1>1. c = N * (c \div N) + (c % N)
  BY SizeAssumption
<1>2. d = N * (d \div N) + (d % N)
  BY SizeAssumption
<1>3. q \in Int /\ d - c = N * q
  BY <1>1, <1>2, SizeAssumption
<1> HIDE DEF q
<1>4. CASE q <= 0
  <2>1. N * q <= 0
    BY <1>3, <1>4, SizeAssumption
  <2> QED BY <2>1, <1>3
<1>5. CASE q >= 1
  <2>1. N * q >= N
    BY <1>3, <1>5, SizeAssumption
  <2> QED BY <2>1, <1>3, SizeAssumption
<1> QED BY <1>3, <1>4, <1>5

\* Adding W, a multiple of N, leaves the remainder alone.
LEMMA ModWrap ==
  ASSUME NEW c \in Nat
  PROVE  (c + W) % N = c % N
<1> DEFINE m == W \div N
           q == c \div N
           r == c % N
           q2 == (c + W) \div N
           r2 == (c + W) % N
<1>1. m \in Int /\ W = N * m
  BY SizeAssumption
<1>2. q \in Int /\ r \in 0..N-1 /\ c = N * q + r
  BY SizeAssumption
<1>3. q2 \in Int /\ r2 \in 0..N-1 /\ c + W = N * q2 + r2
  BY SizeAssumption
<1> HIDE DEF m, q, r, q2, r2
<1> DEFINE t == q2 - q - m
<1>4. t \in Int /\ r - r2 = N * t
  BY <1>1, <1>2, <1>3, SizeAssumption
<1> HIDE DEF t
<1>5. CASE t <= -1
  <2>1. N * t <= -N
    BY <1>4, <1>5, SizeAssumption
  <2> QED BY <2>1, <1>4, <1>2, <1>3, SizeAssumption
<1>6. CASE t >= 1
  <2>1. N * t >= N
    BY <1>4, <1>6, SizeAssumption
  <2> QED BY <2>1, <1>4, <1>2, <1>3, SizeAssumption
<1>7. CASE t = 0
  BY <1>4, <1>7, <1>2, <1>3, SizeAssumption DEF r, r2
<1> QED BY <1>4, <1>5, <1>6, <1>7

\* What the size assumption says of the order of N and W, without the
\* remainder.
LEMMA Sizes == N \in Nat /\ N >= 1 /\ W \in Nat /\ W > N
BY SizeAssumption

\* Distances and windows: how they change when an end moves by one.
LEMMA DistFacts ==
  ASSUME NEW a \in Counter, NEW b \in Counter
  PROVE  /\ Dist(a, b) \in Counter
         /\ Dist(a, b) = 0 <=> a = b
         /\ Dist(a, b) < W - 1 => Dist(a, Inc(b)) = Dist(a, b) + 1
         /\ a # b => Dist(Inc(a), b) = Dist(a, b) - 1
BY IncValue, Sizes DEF Dist, Counter

\* Storing one more entry adds its index to the window.
LEMMA WindowGrows ==
  ASSUME NEW a \in Counter, NEW b \in Counter, Dist(a, b) < W - 1
  PROVE  Window(a, Inc(b)) = Window(a, b) \cup {b}
<1>1. Dist(a, Inc(b)) = Dist(a, b) + 1
  BY DistFacts
<1>2. ASSUME NEW c \in Counter
      PROVE  Dist(a, c) < Dist(a, b) + 1 <=> Dist(a, c) < Dist(a, b) \/ c = b
  BY Sizes DEF Dist, Counter
<1> QED BY <1>1, <1>2 DEF Window

\* Reading the first entry takes its index out of the window.
LEMMA WindowShrinks ==
  ASSUME NEW a \in Counter, NEW b \in Counter, a # b
  PROVE  Window(a, b) = Window(Inc(a), b) \cup {a} /\ a \notin Window(Inc(a), b)
<1>1. Dist(Inc(a), b) = Dist(a, b) - 1
  BY DistFacts
<1>2. ASSUME NEW c \in Counter
      PROVE  Dist(a, c) < Dist(a, b) <=> Dist(Inc(a), c) < Dist(a, b) - 1 \/ c = a
  BY IncValue, Sizes DEF Dist, Counter
<1>3. ~ (Dist(Inc(a), a) < Dist(a, b) - 1)
  BY IncValue, Sizes DEF Dist, Counter
<1> QED BY <1>1, <1>2, <1>3 DEF Window

\* Equal indices: nothing is in the ring.
LEMMA WindowEmpty ==
  ASSUME NEW a \in Counter
  PROVE  Window(a, a) = {}
BY Sizes DEF Window, Dist, Counter

\* A window is a set of ring indices.
LEMMA WindowType ==
  ASSUME NEW a \in Counter, NEW b \in Counter
  PROVE  Window(a, b) \subseteq Counter
BY DEF Window

\* At most N consecutive indices have pairwise different slots.
LEMMA SlotInjective ==
  ASSUME NEW a \in Counter, NEW b \in Counter, Dist(a, b) <= N,
         NEW c \in Window(a, b), NEW d \in Window(a, b), Slot(c) = Slot(d)
  PROVE  c = d
<1> DEFINE off(x) == a + Dist(a, x)
<1>1. ASSUME NEW x \in Window(a, b)
      PROVE  /\ off(x) \in Nat
             /\ off(x) % N = Slot(x)
             /\ off(x) >= a /\ off(x) < a + N
             /\ off(x) = IF a <= x THEN x ELSE x + W
  <2>1. x \in Nat
    BY Sizes DEF Window, Counter
  <2>2. (x + W) % N = x % N
    BY <2>1, ModWrap
  <2> QED BY <2>1, <2>2, Sizes DEF Window, Dist, Counter, Slot
<1> HIDE DEF off
<1>2. ~ (off(c) < off(d)) /\ ~ (off(d) < off(c))
  <2>1. off(c) < off(d) => off(d) < off(c) + N
    BY <1>1, Sizes DEF Counter
  <2>2. off(d) < off(c) => off(c) < off(d) + N
    BY <1>1, Sizes DEF Counter
  <2> QED BY <2>1, <2>2, <1>1, ModInjective
<1>3. off(c) = off(d)
  BY <1>1, <1>2
<1> QED BY <1>1, <1>3, Sizes DEF Window, Counter

\* The slot an index b writes is not one of the fewer than N before it.
LEMMA SlotFresh ==
  ASSUME NEW a \in Counter, NEW b \in Counter, Dist(a, b) < N,
         NEW c \in Window(a, b)
  PROVE  Slot(c) # Slot(b)
<1>1. /\ Window(a, Inc(b)) = Window(a, b) \cup {b}
      /\ Dist(a, Inc(b)) <= N
  <2>1. Dist(a, b) \in Counter /\ Dist(a, b) < W - 1
    BY DistFacts, Sizes DEF Counter
  <2>2. Dist(a, Inc(b)) = Dist(a, b) + 1
    BY <2>1, DistFacts
  <2>3. Window(a, Inc(b)) = Window(a, b) \cup {b}
    BY <2>1, WindowGrows
  <2> QED BY <2>1, <2>2, <2>3, Sizes DEF Counter
<1>2. c # b
  <2>1. Dist(a, b) \in Counter /\ Dist(a, c) < Dist(a, b)
    BY DistFacts DEF Window
  <2> QED BY <2>1, Sizes DEF Counter
<1> QED BY <1>1, <1>2, SlotInjective, IncValue

\* Descriptor numbers start at 0, positions in a sequence at 1.
LEMMA DescSucc == \A d \in Desc : d + 1 \in 1..N
BY Sizes DEF Desc

\* A ring with N different heads in its window has every head there: an
\* outstanding head that is elsewhere leaves room for one more entry.
LEMMA WindowRoom ==
  ASSUME NEW a \in Counter, NEW b \in Counter, Dist(a, b) <= N,
         NEW ring \in [Desc -> Desc], NEW x \in Desc,
         \A c, d \in Window(a, b) : ring[Slot(c)] = ring[Slot(d)] => c = d,
         \A c \in Window(a, b) : ring[Slot(c)] # x
  PROVE  Dist(a, b) < N
<1> SUFFICES ASSUME Dist(a, b) = N PROVE FALSE
  BY DistFacts, Sizes DEF Counter
<1> DEFINE at(i) == IF a + i - 1 < W THEN a + i - 1 ELSE a + i - 1 - W
           g == [i \in 1..N |-> ring[Slot(at(i))]]
           f == [i \in 1..(N+1) |-> IF i = N+1 THEN x + 1 ELSE g[i] + 1]
<1>1. ASSUME NEW i \in 1..N
      PROVE  at(i) \in Window(a, b) /\ Slot(at(i)) \in Desc
  <2>1. at(i) \in Counter /\ Dist(a, at(i)) = i - 1
    BY Sizes DEF Dist, Counter
  <2> QED BY <2>1, SlotType, Sizes DEF Window
<1>2. ASSUME NEW i \in 1..N, NEW j \in 1..N, at(i) = at(j)
      PROVE  i = j
  BY <1>2, Sizes DEF Counter
<1> HIDE DEF at
<1>3. \A i \in 1..N : g[i] \in Desc /\ g[i] # x
  BY <1>1
<1>4. \A i, j \in 1..N : g[i] = g[j] => i = j
  BY <1>1, <1>2
<1> HIDE DEF g
<1>5. f \in [1..(N+1) -> 1..N]
  <2>1. ASSUME NEW i \in 1..N PROVE g[i] + 1 \in 1..N
    <3>1. g[i] \in Desc
      BY <1>3
    <3> QED BY <3>1, DescSucc
  <2>2. x + 1 \in 1..N
    BY Sizes DEF Desc
  <2>3. \A i \in 1..(N+1) : i = N+1 \/ i \in 1..N
    BY Sizes
  <2> QED BY <2>1, <2>2, <2>3
<1>6. \A i, j \in 1..(N+1) : f[i] = f[j] => i = j
  <2>1. ASSUME NEW i \in 1..N
        PROVE  i \in 1..(N+1) /\ f[i] = g[i] + 1 /\ g[i] \in Int /\ g[i] # x
    BY <1>3, Sizes DEF Desc
  <2>2. N+1 \in 1..(N+1) /\ f[N+1] = x + 1 /\ x \in Int
    BY Sizes DEF Desc
  <2>3. \A i \in 1..(N+1) : i = N+1 \/ i \in 1..N
    BY Sizes
  <2> HIDE DEF f
  <2> QED BY <2>1, <2>2, <2>3, <1>4
<1> HIDE DEF f
<1>7. f \in Injection(1..(N+1), 1..N)
  BY <1>5, <1>6 DEF Injection, IsInjective
<1>8. ExistsInjection(1..(N+1), 1..N)
  BY <1>7 DEF ExistsInjection
<1>9. N + 1 <= N
  BY <1>8, Fun_NatInjLeq, Sizes
<1> QED BY <1>9, Sizes

-----------------------------------------------------------------------------
(* Walks along desc[].next.                                                *)

\* A loop that follows desc[].next from the first element of a linked list
\* visits the elements of the list in order.
LEMMA WalkFollowsList ==
  ASSUME NEW n \in Nat, NEW p \in [1..n -> Desc], NEW m \in Nat, NEW s \in Seq(Desc),
         Visits(p, n, s[1]),
         \A i \in 1..(m-1) : next[s[i]] = s[i+1]
  PROVE  \A i \in 1..n : i <= m => p[i] = s[i]
<1> DEFINE T == {i \in 1..n : i <= m /\ p[i] # s[i]}
<1> SUFFICES ASSUME T # {} PROVE FALSE
  OBVIOUS
<1>1. PICK x \in T : \A y \in T : x <= y
  <2>1. T \subseteq Nat
    OBVIOUS
  <2> HIDE DEF T
  <2> QED BY <2>1, LeastElement
<1>2. x \in 1..n /\ x <= m /\ p[x] # s[x]
  BY <1>1
<1>3. x # 1
  <2>1. p[1] = s[1]
    BY DEF Visits
  <2> QED BY <1>2, <2>1
<1>4. x - 1 \in 1..n /\ x - 1 <= m /\ x - 1 \in 1..(m-1) /\ x - 1 \in 1..(n-1)
  BY <1>2, <1>3
<1>5. x - 1 \notin T
  <2>1. ~ (x <= x - 1)
    BY <1>2
  <2> QED BY <1>1, <2>1
<1>6. p[x-1] = s[x-1]
  BY <1>4, <1>5
<1>7. (x - 1) + 1 = x
  BY <1>2
<1>8. p[x] = next[p[x-1]]
  BY <1>4, <1>7 DEF Visits
<1>9. next[s[x-1]] = s[x]
  BY <1>4, <1>7
<1> QED BY <1>2, <1>6, <1>8, <1>9

\* A function on 1..m is a sequence of length m.
LEMMA FunctionIsSeq ==
  ASSUME NEW S, NEW m \in Nat, NEW f \in [1..m -> S]
  PROVE  f \in Seq(S) /\ Len(f) = m
BY IsASeq, LenProperties

-----------------------------------------------------------------------------
(* The inductive invariant.                                                *)

\* How the driver's and the device's copies of the ring indices are related,
\* and which ring entry the element the driver looks at came from.
RingsOK ==
  /\ next_avail = IF pc = "ring" THEN Inc(avail_idx) ELSE avail_idx
  /\ pc = "ring" => avail_ring[Slot(avail_idx)] = first
  /\ Dist(last_avail, avail_idx) <= N
  /\ Dist(next_used, used_idx) <= N
  /\ Dist(next_used, used_index) <= Dist(next_used, used_idx)
  /\ pc = "recv" => \E c \in Counter : /\ next_used = Inc(c)
                                      /\ elem = Slot(c)
                                      /\ c # used_idx
                                      /\ Dist(c, used_idx) <= N
  /\ pc = "alloc" => iovcnt = Len(chain[first])

IndInv ==
  /\ TypeOK
  /\ FreeListOK
  /\ NoSharing
  /\ NoLeak
  /\ ChainsIntact
  /\ RequestsAccounted
  /\ RingsOK

\* What virtio_pci_dev_init leaves behind satisfies the invariant.
LEMMA InitIndInv == Init => IndInv
<1> SUFFICES ASSUME Init PROVE IndInv
  OBVIOUS
<1> USE DEF Init
<1>1. free \in Seq(Desc) /\ Len(free) = N
  <2>1. [i \in 1..N |-> i - 1] \in [1..N -> Desc]
    BY Sizes DEF Desc
  <2> QED BY <2>1, FunctionIsSeq, Sizes
<1>2. 0 \in Counter /\ 0 \in Desc /\ Dist(0, 0) = 0 /\ Window(0, 0) = {}
  BY WindowEmpty, Sizes DEF Counter, Desc, Dist
<1>3. TypeOK
  <2>1. next \in [Desc -> Link]
    BY Sizes DEF Desc, Link
  <2>2. free_head \in Link /\ free_count \in 0..N /\ iovcnt \in 0..N
    BY Sizes DEF Link
  <2>3. chain \in [Desc -> Seq(Desc)] /\ rcnt \in [Desc -> 0..N]
    BY EmptySeq, Sizes
  <2> QED BY <1>1, <1>2, <2>1, <2>2, <2>3 DEF TypeOK, Places
<1>4. FreeListOK
  <2>1. free[1] = 0
    BY Sizes
  <2>2. ASSUME NEW i \in 1..N
        PROVE  f_next[free[i]] /\ next[free[i]] = IF i = N THEN N ELSE free[i+1]
    <3>1. free[i] = i - 1 /\ i - 1 \in Desc
      BY Sizes DEF Desc
    <3>2. i # N => free[i+1] = i
      BY Sizes
    <3> QED BY <3>1, <3>2, Sizes
  <2> QED BY <1>1, <2>1, <2>2, Sizes DEF FreeListOK
<1>5. NoSharing
  BY <1>1, Sizes DEF NoSharing, Desc
<1>6. NoLeak
  <2> SUFFICES ASSUME NEW d \in Desc PROVE \E i \in 1..Len(free) : free[i] = d
    BY DEF NoLeak
  <2>1. d + 1 \in 1..N /\ free[d + 1] = d
    BY DescSucc, Sizes DEF Desc
  <2> QED BY <2>1, <1>1
<1>7. ChainsIntact
  BY DEF ChainsIntact, Outstanding
<1>8. RequestsAccounted
  BY <1>2 DEF RequestsAccounted, BuiltHeads, AvailHeads, UsedHeads, ElemHeads,
              AvailWindow, UsedWindow
<1>9. RingsOK
  BY <1>2, Sizes DEF RingsOK
<1> QED BY <1>3, <1>4, <1>5, <1>6, <1>7, <1>8, <1>9 DEF IndInv

-----------------------------------------------------------------------------
(* Steps that leave the descriptors alone.                                 *)

\* A step that leaves the descriptor table's links and the free list alone
\* keeps each descriptor accounted for.
LEMMA DescriptorsFrame ==
  ASSUME FreeListOK, NoSharing, NoLeak,
         UNCHANGED <<free_head, free_count, next, f_next, free, chain>>
  PROVE  FreeListOK' /\ NoSharing' /\ NoLeak'
<1>1. FreeListOK'
  BY DEF FreeListOK
<1>2. NoSharing'
  BY DEF NoSharing
<1>3. NoLeak'
  BY DEF NoLeak
<1> QED BY <1>1, <1>2, <1>3

\* A step that leaves the descriptor table alone keeps the chains, when no
\* request is allocated but not yet written.
LEMMA ChainsFrame ==
  ASSUME ChainsIntact,
         UNCHANGED <<next, f_next, f_write, chain, rcnt>>,
         pc # "alloc", pc' # "alloc",
         \A h \in Desc : place'[h] = "free" <=> place[h] = "free"
  PROVE  ChainsIntact'
<1>1. Outstanding' = Outstanding
  BY DEF Outstanding
<1> QED BY <1>1 DEF ChainsIntact

\* Notifications, interrupts and the device's own state.
LEMMA QuietStep ==
  ASSUME IndInv,
         \/ UNCHANGED <<pc, first, iovcnt>>
         \/ /\ pc \in {"idle", "notify", "event"} /\ pc' \in {"idle", "notify", "event"}
            /\ first' \in Desc /\ iovcnt' \in 0..N,
         UNCHANGED <<driverVars, descVars, availVars, used_ring, used_idx, elem,
                     held, last_avail, inflight, histVars>>,
         no_notify' \in BOOLEAN, kick' \in BOOLEAN, irq' \in BOOLEAN,
         raise' \in BOOLEAN, dpc' \in {"sleep", "run", "recheck"}
  PROVE  IndInv'
<1> USE DEF driverVars, descVars, availVars, histVars
<1>1. TypeOK'
  BY DEF IndInv, TypeOK
<1>2. FreeListOK' /\ NoSharing' /\ NoLeak'
  BY DescriptorsFrame DEF IndInv
<1>3. ChainsIntact'
  <2>1. CASE UNCHANGED <<pc, first, iovcnt>>
    BY <2>1 DEF IndInv, ChainsIntact, Outstanding
  <2>2. CASE pc # "alloc" /\ pc' # "alloc"
    BY <2>2, ChainsFrame DEF IndInv
  <2> QED BY <2>1, <2>2
<1>4. RequestsAccounted'
  <2>1. AvailHeads' = AvailHeads /\ UsedHeads' = UsedHeads
    BY DEF AvailHeads, UsedHeads, AvailWindow, UsedWindow
  <2>2. BuiltHeads' = BuiltHeads /\ ElemHeads' = ElemHeads
    BY DEF BuiltHeads, ElemHeads
  <2> QED BY <2>1, <2>2 DEF IndInv, RequestsAccounted, AvailWindow, UsedWindow
<1>5. RingsOK'
  BY DEF IndInv, RingsOK
<1> QED BY <1>1, <1>2, <1>3, <1>4, <1>5 DEF IndInv

\* virtio_queue_handle_event: used_index catches up with used->idx, which is
\* at most N entries ahead of next_used.
LEMMA HandleEventStep ==
  ASSUME IndInv, virtio_queue_handle_event
  PROVE  IndInv'
<1> USE DEF virtio_queue_handle_event, descVars, availVars, usedVars, devVars, histVars
<1>1. TypeOK'
  BY DEF IndInv, TypeOK
<1>2. FreeListOK' /\ NoSharing' /\ NoLeak'
  BY DescriptorsFrame DEF IndInv
<1>3. ChainsIntact'
  BY ChainsFrame DEF IndInv
<1>4. RequestsAccounted'
  <2>1. AvailHeads' = AvailHeads /\ UsedHeads' = UsedHeads
    BY DEF AvailHeads, UsedHeads, AvailWindow, UsedWindow
  <2>2. BuiltHeads' = BuiltHeads /\ ElemHeads' = ElemHeads
    BY DEF BuiltHeads, ElemHeads
  <2> QED BY <2>1, <2>2 DEF IndInv, RequestsAccounted, AvailWindow, UsedWindow
<1>5. RingsOK'
  <2>1. Dist(next_used, used_idx) \in Counter
    BY DistFacts DEF IndInv, TypeOK
  <2>2. Dist(next_used, used_idx) <= Dist(next_used, used_idx)
    BY <2>1, Sizes DEF Counter
  <2> QED BY <2>2 DEF IndInv, RingsOK
<1> QED BY <1>1, <1>2, <1>3, <1>4, <1>5 DEF IndInv

-----------------------------------------------------------------------------
(* Publishing a request.                                                   *)

\* The available ring has room: the request being built is not in it.
LEMMA AvailRoom ==
  ASSUME IndInv, pc \in {"written", "ring"}
  PROVE  Dist(last_avail, avail_idx) < N
<1>1. place[first] = "built" /\ first \in Desc
  BY DEF IndInv, TypeOK, RequestsAccounted, BuiltHeads
<1>2. \A c \in Window(last_avail, avail_idx) : avail_ring[Slot(c)] # first
  <2> SUFFICES ASSUME NEW c \in Window(last_avail, avail_idx),
                      avail_ring[Slot(c)] = first
               PROVE  FALSE
    OBVIOUS
  <2>1. first \in AvailHeads
    BY DEF AvailHeads, AvailWindow
  <2> QED BY <1>1, <2>1 DEF IndInv, RequestsAccounted
<1>3. \A c, d \in Window(last_avail, avail_idx) :
         avail_ring[Slot(c)] = avail_ring[Slot(d)] => c = d
  BY DEF IndInv, RequestsAccounted, AvailWindow
<1>4. /\ last_avail \in Counter /\ avail_idx \in Counter
      /\ avail_ring \in [Desc -> Desc] /\ Dist(last_avail, avail_idx) <= N
  BY DEF IndInv, TypeOK, RingsOK
<1> QED BY <1>1, <1>2, <1>3, <1>4, WindowRoom

\* The first part of virtio_queue_send writes a slot that no published and
\* unread entry occupies.
LEMMA SendRingStep ==
  ASSUME IndInv, virtio_queue_send_ring
  PROVE  IndInv'
<1> USE DEF virtio_queue_send_ring, descVars, usedVars, devVars, histVars
<1>1. TypeOK'
  <2>1. Inc(next_avail) \in Counter /\ Slot(next_avail) \in Desc
    BY IncValue, SlotType DEF IndInv, TypeOK
  <2> QED BY <2>1 DEF IndInv, TypeOK
<1>2. FreeListOK' /\ NoSharing' /\ NoLeak'
  BY DescriptorsFrame DEF IndInv
<1>3. ChainsIntact'
  BY ChainsFrame DEF IndInv
<1>4. next_avail = avail_idx /\ avail_idx \in Counter /\ last_avail \in Counter
  BY DEF IndInv, RingsOK, TypeOK
<1>5. \A c \in AvailWindow : avail_ring'[Slot(c)] = avail_ring[Slot(c)]
  <2>1. \A c \in AvailWindow : Slot(c) \in Desc /\ Slot(c) # Slot(avail_idx)
    BY <1>4, AvailRoom, SlotFresh, SlotType, WindowType DEF AvailWindow
  <2> QED BY <1>4, <2>1 DEF IndInv, TypeOK
<1>6. RequestsAccounted'
  <2>1. AvailWindow' = AvailWindow /\ UsedWindow' = UsedWindow
    BY DEF AvailWindow, UsedWindow
  <2>2. AvailHeads' = AvailHeads
    BY <1>5, <2>1 DEF AvailHeads
  <2>3. UsedHeads' = UsedHeads /\ BuiltHeads' = BuiltHeads /\ ElemHeads' = ElemHeads
    BY <2>1 DEF UsedHeads, BuiltHeads, ElemHeads
  <2> QED BY <1>5, <2>1, <2>2, <2>3 DEF IndInv, RequestsAccounted
<1>7. RingsOK'
  <2>1. avail_ring'[Slot(avail_idx)] = first
    BY <1>4, SlotType DEF IndInv, TypeOK
  <2> QED BY <1>4, <2>1 DEF IndInv, RingsOK
<1> QED BY <1>1, <1>2, <1>3, <1>6, <1>7 DEF IndInv

\* The second part of virtio_queue_send: storing avail->idx hands the request
\* over to the device.
LEMMA SendIdxStep ==
  ASSUME IndInv, virtio_queue_send_idx
  PROVE  IndInv'
<1> USE DEF virtio_queue_send_idx, Moves, driverVars, descVars, usedVars, devVars
<1>1. TypeOK'
  BY DEF IndInv, TypeOK, Places
<1>2. FreeListOK' /\ NoSharing' /\ NoLeak'
  BY DescriptorsFrame DEF IndInv
<1>3. place[first] = "built" /\ first \in Desc /\ place \in [Desc -> Places]
  BY DEF IndInv, TypeOK, RequestsAccounted, BuiltHeads
<1>4. ChainsIntact'
  <2>1. \A h \in Desc : place'[h] = "free" <=> place[h] = "free"
    BY <1>3
  <2> QED BY <2>1, ChainsFrame DEF IndInv
<1>5. /\ next_avail = Inc(avail_idx) /\ avail_ring[Slot(avail_idx)] = first
      /\ avail_idx \in Counter /\ last_avail \in Counter
  BY DEF IndInv, RingsOK, TypeOK
<1>6. Dist(last_avail, avail_idx) < N /\ Dist(last_avail, avail_idx) \in Counter
  BY <1>5, AvailRoom, DistFacts
<1>7. AvailWindow' = AvailWindow \cup {avail_idx}
  BY <1>5, <1>6, WindowGrows, Sizes DEF AvailWindow, Counter
<1>8. AvailHeads' = AvailHeads \cup {first}
  BY <1>5, <1>7 DEF AvailHeads
<1>9. first \notin AvailHeads
  BY <1>3 DEF IndInv, RequestsAccounted
<1>10. RequestsAccounted'
  <2>1. UsedWindow' = UsedWindow /\ UsedHeads' = UsedHeads /\ ElemHeads' = ElemHeads
    BY DEF UsedWindow, UsedHeads, ElemHeads
  <2>2. BuiltHeads = {first} /\ BuiltHeads' = {}
    BY DEF BuiltHeads
  <2>3. \A c, d \in AvailWindow' :
           avail_ring'[Slot(c)] = avail_ring'[Slot(d)] => c = d
    BY <1>5, <1>7, <1>9 DEF IndInv, RequestsAccounted, AvailHeads
  <2>4. \A h \in Desc : h # first => place'[h] = place[h]
    BY <1>3
  <2>5. place'[first] = "avail"
    BY <1>3
  <2> QED BY <1>3, <1>8, <2>1, <2>2, <2>3, <2>4, <2>5 DEF IndInv, RequestsAccounted
<1>11. RingsOK'
  <2>1. Dist(last_avail, Inc(avail_idx)) <= N
    <3>1. Dist(last_avail, avail_idx) < W - 1
      BY <1>6, Sizes DEF Counter
    <3>2. Dist(last_avail, Inc(avail_idx)) = Dist(last_avail, avail_idx) + 1
      BY <1>5, <3>1, DistFacts
    <3> QED BY <1>6, <3>2, Sizes DEF Counter
  <2> QED BY <1>5, <2>1 DEF IndInv, RingsOK
<1> QED BY <1>1, <1>2, <1>4, <1>10, <1>11 DEF IndInv

-----------------------------------------------------------------------------
(* The device takes and completes requests.                                *)

\* The device takes the first published request.
LEMMA DevPopStep ==
  ASSUME IndInv, DevPop
  PROVE  IndInv'
<1> USE DEF DevPop, Moves, driverVars, descVars, availVars, usedVars, threadVars
<1> DEFINE h0 == avail_ring[Slot(last_avail)]
<1>1. /\ last_avail \in Counter /\ avail_idx \in Counter /\ last_avail # avail_idx
      /\ Slot(last_avail) \in Desc /\ h0 \in Desc /\ Inc(last_avail) \in Counter
  BY SlotType, IncValue DEF IndInv, TypeOK
<1>2. TypeOK'
  BY <1>1 DEF IndInv, TypeOK, Places
<1>3. FreeListOK' /\ NoSharing' /\ NoLeak'
  BY DescriptorsFrame DEF IndInv
<1>4. AvailWindow = AvailWindow' \cup {last_avail} /\ last_avail \notin AvailWindow'
  BY <1>1, WindowShrinks DEF AvailWindow
<1>5. AvailHeads = AvailHeads' \cup {h0}
  BY <1>4 DEF AvailHeads
<1>6. h0 \notin AvailHeads'
  BY <1>4 DEF AvailHeads, IndInv, RequestsAccounted
<1>7. place[h0] = "avail" /\ place \in [Desc -> Places]
  BY <1>1, <1>5 DEF IndInv, RequestsAccounted, TypeOK
<1> HIDE DEF h0
<1>8. place' = [place EXCEPT ![h0] = "device"] /\ inflight' = inflight \cup {h0}
  BY DEF h0
<1>9. ChainsIntact'
  <2>1. \A h \in Desc : place'[h] = "free" <=> place[h] = "free"
    BY <1>1, <1>7, <1>8
  <2>2. Outstanding' = Outstanding
    BY <2>1 DEF Outstanding
  <2> QED BY <2>2 DEF IndInv, ChainsIntact
<1>10. RequestsAccounted'
  <2>1. /\ UsedWindow' = UsedWindow /\ UsedHeads' = UsedHeads
        /\ ElemHeads' = ElemHeads /\ BuiltHeads' = BuiltHeads
    BY DEF UsedWindow, UsedHeads, ElemHeads, BuiltHeads
  <2>2. \A c, d \in AvailWindow' :
           avail_ring'[Slot(c)] = avail_ring'[Slot(d)] => c = d
    BY <1>4 DEF IndInv, RequestsAccounted
  <2>3. \A h \in Desc : h # h0 => place'[h] = place[h]
    BY <1>7, <1>8
  <2>4. place'[h0] = "device"
    BY <1>1, <1>7, <1>8
  <2> QED BY <1>1, <1>5, <1>6, <1>7, <1>8, <2>1, <2>2, <2>3, <2>4
          DEF IndInv, RequestsAccounted
<1>11. RingsOK'
  <2>1. Dist(Inc(last_avail), avail_idx) <= N
    <3>1. Dist(Inc(last_avail), avail_idx) = Dist(last_avail, avail_idx) - 1
      BY <1>1, DistFacts
    <3>2. Dist(last_avail, avail_idx) \in Counter /\ Dist(last_avail, avail_idx) <= N
      BY <1>1, DistFacts DEF IndInv, RingsOK
    <3> QED BY <3>1, <3>2, Sizes DEF Counter
  <2> QED BY <2>1 DEF IndInv, RingsOK
<1> QED BY <1>2, <1>3, <1>9, <1>10, <1>11 DEF IndInv

\* The used ring, together with the entry the driver is looking at, has room
\* for a request the device is serving.
LEMMA UsedRoom ==
  ASSUME IndInv, NEW h \in inflight
  PROVE  /\ Dist(next_used, used_idx) < N
         /\ \A c \in Counter : /\ pc = "recv"
                               /\ next_used = Inc(c) /\ elem = Slot(c)
                               /\ c # used_idx
                               /\ Dist(c, used_idx) <= N
                               => Dist(c, used_idx) < N
<1>1. /\ next_used \in Counter /\ used_idx \in Counter /\ h \in Desc
      /\ used_ring \in [Desc -> Desc] /\ Dist(next_used, used_idx) <= N
  BY DEF IndInv, TypeOK, RingsOK
<1>2. place[h] = "device"
  BY <1>1 DEF IndInv, RequestsAccounted
<1>3. \A c \in UsedWindow : used_ring[Slot(c)] # h
  <2> SUFFICES ASSUME NEW c \in UsedWindow, used_ring[Slot(c)] = h
               PROVE  FALSE
    OBVIOUS
  <2>1. h \in UsedHeads
    BY DEF UsedHeads
  <2> QED BY <1>1, <1>2, <2>1 DEF IndInv, RequestsAccounted
<1>4. \A c, d \in UsedWindow : used_ring[Slot(c)] = used_ring[Slot(d)] => c = d
  BY DEF IndInv, RequestsAccounted
<1>5. Dist(next_used, used_idx) < N
  BY <1>1, <1>3, <1>4, WindowRoom DEF UsedWindow
<1>6. ASSUME NEW c \in Counter, pc = "recv", next_used = Inc(c), elem = Slot(c),
             c # used_idx, Dist(c, used_idx) <= N
      PROVE  Dist(c, used_idx) < N
  <2>1. Window(c, used_idx) = UsedWindow \cup {c} /\ c \notin UsedWindow
    BY <1>1, <1>6, WindowShrinks DEF UsedWindow
  <2>2. used_ring[Slot(c)] \in Desc /\ place[used_ring[Slot(c)]] = "elem"
    BY <1>1, <1>6, SlotType DEF IndInv, RequestsAccounted, ElemHeads
  <2>3. \A d \in UsedWindow : used_ring[Slot(d)] # used_ring[Slot(c)]
    <3> SUFFICES ASSUME NEW d \in UsedWindow, used_ring[Slot(d)] = used_ring[Slot(c)]
                 PROVE  FALSE
      OBVIOUS
    <3>1. used_ring[Slot(c)] \in UsedHeads
      BY DEF UsedHeads
    <3> QED BY <2>2, <3>1 DEF IndInv, RequestsAccounted
  <2>4. used_ring[Slot(c)] # h
    BY <1>2, <2>2
  <2>5. \A d \in Window(c, used_idx) : used_ring[Slot(d)] # h
    BY <1>3, <2>1, <2>4
  <2>6. \A d, e \in Window(c, used_idx) :
           used_ring[Slot(d)] = used_ring[Slot(e)] => d = e
    BY <1>4, <2>1, <2>3
  <2> QED BY <1>1, <1>6, <2>5, <2>6, WindowRoom
<1> QED BY <1>5, <1>6

\* The device completes a request: the slot it writes holds no completion the
\* driver has not read, nor the element the driver is looking at.
LEMMA DevCompleteStep ==
  ASSUME IndInv, NEW h \in Desc, DevComplete(h)
  PROVE  IndInv'
<1> USE DEF DevComplete, Moves, driverVars, descVars, availVars, threadVars
<1>1. /\ next_used \in Counter /\ used_idx \in Counter /\ used_index \in Counter
      /\ Slot(used_idx) \in Desc /\ Inc(used_idx) \in Counter
      /\ used_ring \in [Desc -> Desc] /\ h \in inflight
  BY SlotType, IncValue DEF IndInv, TypeOK
<1>2. TypeOK'
  BY <1>1 DEF IndInv, TypeOK, Places
<1>3. FreeListOK' /\ NoSharing' /\ NoLeak'
  BY DescriptorsFrame DEF IndInv
<1>4. place[h] = "device" /\ place \in [Desc -> Places]
  BY <1>1 DEF IndInv, RequestsAccounted, TypeOK
<1>5. /\ \A g \in Desc : g # h => place'[g] = place[g]
      /\ place'[h] = "used"
  BY <1>4
<1>6. ChainsIntact'
  <2>1. Outstanding' = Outstanding
    BY <1>4, <1>5 DEF Outstanding
  <2> QED BY <2>1 DEF IndInv, ChainsIntact
<1>7. Dist(next_used, used_idx) < N /\ Dist(next_used, used_idx) \in Counter
  BY <1>1, UsedRoom, DistFacts
<1>8. UsedWindow' = UsedWindow \cup {used_idx}
  BY <1>1, <1>7, WindowGrows, Sizes DEF UsedWindow, Counter
<1>9. /\ \A c \in UsedWindow : used_ring'[Slot(c)] = used_ring[Slot(c)]
      /\ used_ring'[Slot(used_idx)] = h
  <2>1. \A c \in UsedWindow : Slot(c) # Slot(used_idx) /\ Slot(c) \in Desc
    BY <1>1, <1>7, SlotFresh, SlotType, WindowType DEF UsedWindow
  <2> QED BY <1>1, <2>1
<1>10. UsedHeads' = UsedHeads \cup {h} /\ h \notin UsedHeads
  BY <1>4, <1>8, <1>9 DEF UsedHeads, IndInv, RequestsAccounted
<1>11. ASSUME NEW c \in Counter, pc = "recv", next_used = Inc(c), elem = Slot(c),
              c # used_idx, Dist(c, used_idx) <= N
       PROVE  /\ Slot(c) # Slot(used_idx)
              /\ c # Inc(used_idx) /\ Dist(c, Inc(used_idx)) <= N
  <2>1. Dist(c, used_idx) < N /\ Dist(c, used_idx) \in Counter /\ Dist(c, used_idx) # 0
    BY <1>1, <1>11, UsedRoom, DistFacts
  <2>2. Dist(c, used_idx) < W - 1
    BY <2>1, Sizes DEF Counter
  <2>3. Dist(c, Inc(used_idx)) = Dist(c, used_idx) + 1
    BY <1>1, <2>2, DistFacts
  <2>4. Dist(c, Inc(used_idx)) <= N /\ Dist(c, Inc(used_idx)) # 0
    BY <2>1, <2>3, Sizes DEF Counter
  <2>5. c # Inc(used_idx)
    BY <1>1, <2>4, DistFacts
  <2>6. c \in Window(c, used_idx)
    BY <1>1, <1>11, WindowShrinks
  <2> QED BY <1>1, <2>1, <2>4, <2>5, <2>6, SlotFresh
<1>12. ElemHeads' = ElemHeads
  <2>1. CASE pc = "recv"
    <3>1. elem # Slot(used_idx) /\ elem \in Desc
      BY <1>11, <2>1 DEF IndInv, RingsOK, TypeOK
    <3> QED BY <1>1, <3>1 DEF ElemHeads
  <2>2. CASE pc # "recv"
    BY <2>2 DEF ElemHeads
  <2> QED BY <2>1, <2>2
<1>13. RequestsAccounted'
  <2>1. /\ AvailWindow' = AvailWindow /\ AvailHeads' = AvailHeads
        /\ BuiltHeads' = BuiltHeads
    BY DEF AvailWindow, AvailHeads, BuiltHeads
  <2>2. \A c, d \in UsedWindow' : used_ring'[Slot(c)] = used_ring'[Slot(d)] => c = d
    BY <1>8, <1>9, <1>10 DEF IndInv, RequestsAccounted, UsedHeads
  <2> QED BY <1>4, <1>5, <1>10, <1>12, <2>1, <2>2 DEF IndInv, RequestsAccounted
<1>14. RingsOK'
  <2>1. Dist(next_used, Inc(used_idx)) = Dist(next_used, used_idx) + 1
    <3>1. Dist(next_used, used_idx) < W - 1
      BY <1>7, Sizes DEF Counter
    <3> QED BY <1>1, <3>1, DistFacts
  <2>2. Dist(next_used, used_index) \in Counter
    BY <1>1, DistFacts
  <2>3. /\ Dist(next_used, Inc(used_idx)) <= N
        /\ Dist(next_used, used_index) <= Dist(next_used, Inc(used_idx))
    BY <1>7, <2>1, <2>2, Sizes DEF IndInv, RingsOK, Counter
  <2>4. pc = "recv" => \E c \in Counter : /\ next_used = Inc(c)
                                        /\ elem = Slot(c)
                                        /\ c # Inc(used_idx)
                                        /\ Dist(c, Inc(used_idx)) <= N
    BY <1>11 DEF IndInv, RingsOK
  <2> QED BY <2>3, <2>4 DEF IndInv, RingsOK
<1> QED BY <1>2, <1>3, <1>6, <1>13, <1>14 DEF IndInv

-----------------------------------------------------------------------------
(* Receiving a completion.                                                 *)

\* virtio_queue_recv: used_index is at most used->idx, so the element it
\* returns is one the device has written.
LEMMA RecvStep ==
  ASSUME IndInv, virtio_queue_recv
  PROVE  IndInv'
<1> USE DEF virtio_queue_recv, Moves, descVars, availVars, usedVars, devVars
<1> DEFINE h0 == used_ring[Slot(next_used)]
<1>1. /\ next_used \in Counter /\ used_idx \in Counter /\ used_index \in Counter
      /\ Slot(next_used) \in Desc /\ h0 \in Desc /\ Inc(next_used) \in Counter
  BY SlotType, IncValue DEF IndInv, TypeOK
<1>2. TypeOK'
  BY <1>1 DEF IndInv, TypeOK, Places
<1>3. FreeListOK' /\ NoSharing' /\ NoLeak'
  BY DescriptorsFrame DEF IndInv
<1>4. /\ Dist(next_used, used_index) \in Counter /\ Dist(next_used, used_index) # 0
      /\ Dist(next_used, used_idx) \in Counter
      /\ Dist(next_used, used_index) <= Dist(next_used, used_idx)
      /\ Dist(next_used, used_idx) <= N
  BY <1>1, DistFacts DEF IndInv, RingsOK
<1>5. next_used # used_idx
  <2>1. Dist(next_used, used_idx) # 0
    BY <1>4, Sizes DEF Counter
  <2> QED BY <1>1, <2>1, DistFacts
<1>6. UsedWindow = UsedWindow' \cup {next_used} /\ next_used \notin UsedWindow'
  BY <1>1, <1>5, WindowShrinks DEF UsedWindow
<1>7. UsedHeads = UsedHeads' \cup {h0} /\ h0 \notin UsedHeads'
  BY <1>6 DEF UsedHeads, IndInv, RequestsAccounted
<1>8. place[h0] = "used" /\ place \in [Desc -> Places]
  BY <1>1, <1>7 DEF IndInv, RequestsAccounted, TypeOK
<1>9. ElemHeads = {} /\ ElemHeads' = {h0}
  BY DEF ElemHeads
<1> HIDE DEF h0
<1>10. /\ \A h \in Desc : h # h0 => place'[h] = place[h]
       /\ place'[h0] = "elem"
  BY <1>1, <1>8 DEF h0
<1>11. ChainsIntact'
  <2>1. Outstanding' = Outstanding
    BY <1>1, <1>8, <1>10 DEF Outstanding
  <2> QED BY <2>1 DEF IndInv, ChainsIntact
<1>12. RequestsAccounted'
  <2>1. /\ AvailWindow' = AvailWindow /\ AvailHeads' = AvailHeads
        /\ BuiltHeads' = BuiltHeads
    BY DEF AvailWindow, AvailHeads, BuiltHeads
  <2>2. \A c, d \in UsedWindow' : used_ring'[Slot(c)] = used_ring'[Slot(d)] => c = d
    BY <1>6 DEF IndInv, RequestsAccounted
  <2> QED BY <1>1, <1>7, <1>8, <1>9, <1>10, <2>1, <2>2 DEF IndInv, RequestsAccounted
<1>13. RingsOK'
  <2>1. /\ Dist(Inc(next_used), used_idx) = Dist(next_used, used_idx) - 1
        /\ Dist(Inc(next_used), used_index) = Dist(next_used, used_index) - 1
    BY <1>1, <1>5, DistFacts
  <2>2. /\ Dist(Inc(next_used), used_idx) <= N
        /\ Dist(Inc(next_used), used_index) <= Dist(Inc(next_used), used_idx)
    BY <1>4, <2>1, Sizes DEF Counter
  <2> QED BY <1>1, <1>4, <1>5, <2>2 DEF IndInv, RingsOK
<1> QED BY <1>2, <1>3, <1>11, <1>12, <1>13 DEF IndInv

\* virtio_gpu_wait keeps the id of the request it waited for.
LEMMA KeepElemStep ==
  ASSUME IndInv, KeepElem
  PROVE  IndInv'
<1> USE DEF KeepElem, Moves, driverVars, descVars, availVars, usedVars, devVars
<1> DEFINE h0 == used_ring[elem]
<1>1. h0 \in Desc /\ place \in [Desc -> Places] /\ elem \in Desc
  BY DEF IndInv, TypeOK
<1>2. place[h0] = "elem" /\ ElemHeads = {h0} /\ ElemHeads' = {}
  BY <1>1 DEF IndInv, RequestsAccounted, ElemHeads
<1>3. TypeOK'
  <2>1. 0 \in Desc
    BY Sizes DEF Desc
  <2> QED BY <1>1, <2>1 DEF IndInv, TypeOK, Places
<1>4. FreeListOK' /\ NoSharing' /\ NoLeak'
  BY DescriptorsFrame DEF IndInv
<1> HIDE DEF h0
<1>5. /\ \A h \in Desc : h # h0 => place'[h] = place[h]
      /\ place'[h0] = "held" /\ held' = held \cup {h0}
  BY <1>1 DEF h0
<1>6. ChainsIntact'
  <2>1. Outstanding' = Outstanding
    BY <1>1, <1>2, <1>5 DEF Outstanding
  <2> QED BY <2>1 DEF IndInv, ChainsIntact
<1>7. RequestsAccounted'
  <2>1. /\ AvailWindow' = AvailWindow /\ AvailHeads' = AvailHeads
        /\ UsedWindow' = UsedWindow /\ UsedHeads' = UsedHeads
        /\ BuiltHeads' = BuiltHeads
    BY DEF AvailWindow, AvailHeads, UsedWindow, UsedHeads, BuiltHeads
  <2> QED BY <1>1, <1>2, <1>5, <2>1 DEF IndInv, RequestsAccounted
<1>8. RingsOK'
  BY DEF IndInv, RingsOK
<1> QED BY <1>3, <1>4, <1>6, <1>7, <1>8 DEF IndInv

-----------------------------------------------------------------------------
(* Allocating, writing and freeing a chain.                                *)

\* An outstanding request has a chain, and its head is in it; so a
\* descriptor on the free list is not the head of an outstanding request.
LEMMA FreeIsNotHead ==
  ASSUME IndInv, NEW i \in 1..Len(free)
  PROVE  free[i] \in Desc /\ chain[free[i]] = << >> /\ place[free[i]] = "free"
<1>1. free[i] \in Desc /\ chain[free[i]] \in Seq(Desc)
  BY ElementOfSeq DEF IndInv, TypeOK
<1>2. place[free[i]] = "free"
  <2> SUFFICES ASSUME place[free[i]] # "free" PROVE FALSE
    OBVIOUS
  <2>1. chain[free[i]][1] = free[i]
    BY <1>1 DEF IndInv, ChainsIntact, Outstanding
  <2>2. chain[free[i]] # << >>
    BY <1>1 DEF IndInv, RequestsAccounted
  <2>3. 1 \in 1..Len(chain[free[i]])
    BY <1>1, <2>2, EmptySeq, LenProperties
  <2> QED BY <1>1, <2>1, <2>3 DEF IndInv, NoSharing
<1> QED BY <1>1, <1>2 DEF IndInv, RequestsAccounted

\* virtio_queue_alloc pops the first k elements of the free list, which become
\* the chain of a new request.
LEMMA AllocStep ==
  ASSUME IndInv, NEW k \in IovCounts, virtio_queue_alloc(k)
  PROVE  IndInv'
<1> USE DEF Moves, descVars, availVars, usedVars, devVars
<1> DEFINE h0 == free_head
           ch == [i \in 1..k |-> free[i]]
<1>1. k \in 1..N
  BY SizeAssumption DEF IovCounts
<1>2. /\ free \in Seq(Desc) /\ Len(free) = free_count /\ free_count \in 0..N
      /\ free_count >= k /\ chain \in [Desc -> Seq(Desc)]
      /\ place \in [Desc -> Places] /\ next \in [Desc -> Link]
  BY DEF virtio_queue_alloc, IndInv, TypeOK, FreeListOK
<1>3. \A i \in 1..Len(free) :
         /\ free[i] \in Desc /\ chain[free[i]] = << >> /\ place[free[i]] = "free"
         /\ f_next[free[i]]
         /\ next[free[i]] = IF i = Len(free) THEN N ELSE free[i+1]
  BY <1>2, FreeIsNotHead DEF IndInv, FreeListOK
<1>4. h0 = free[1] /\ h0 \in Desc /\ chain[h0] = << >> /\ place[h0] = "free"
  <2>1. 1 \in 1..Len(free) /\ free_count # 0
    BY <1>1, <1>2
  <2>2. h0 = free[1]
    BY <2>1 DEF IndInv, FreeListOK
  <2> QED BY <2>1, <2>2, <1>3
<1>5. free_head' = IF k = free_count THEN N ELSE free[k+1]
  <2>1. PICK p \in [1..k -> Desc] :
          Visits(p, k, free_head) /\ free_head' = next[p[k]]
    BY DEF virtio_queue_alloc
  <2>2. \A i \in 1..(free_count - 1) : next[free[i]] = free[i+1]
    BY <1>2, <1>3
  <2>3. \A i \in 1..k : i <= free_count => p[i] = free[i]
    <3>1. Visits(p, k, free[1])
      BY <1>4, <2>1
    <3>2. k \in Nat /\ free_count \in Nat
      BY <1>1, <1>2
    <3> QED BY <1>2, <2>2, <3>1, <3>2, WalkFollowsList
  <2>4. k \in 1..k /\ k <= free_count /\ k \in 1..Len(free)
    BY <1>1, <1>2
  <2>5. p[k] = free[k]
    BY <2>3, <2>4
  <2> QED BY <1>2, <1>3, <2>1, <2>4, <2>5
<1>6. /\ free' \in Seq(Desc) /\ Len(free') = Len(free) - k
      /\ \A i \in 1..(Len(free) - k) : i + k \in 1..Len(free) /\ free'[i] = free[i + k]
  <2>1. free' = [i \in 1..(Len(free) - k) |-> free[i + k]]
    BY DEF virtio_queue_alloc
  <2>2. Len(free) - k \in Nat /\ \A i \in 1..(Len(free) - k) : i + k \in 1..Len(free)
    BY <1>1, <1>2
  <2>3. free' \in [1..(Len(free) - k) -> Desc]
    BY <1>3, <2>1, <2>2
  <2> QED BY <2>1, <2>2, <2>3, FunctionIsSeq
<1>7. /\ ch \in Seq(Desc) /\ Len(ch) = k
      /\ \A i \in 1..k : i \in 1..Len(free) /\ ch[i] = free[i]
  <2>1. \A i \in 1..k : i \in 1..Len(free)
    BY <1>1, <1>2
  <2>2. ch \in [1..k -> Desc]
    BY <1>3, <2>1
  <2> QED BY <1>1, <2>1, <2>2, FunctionIsSeq
<1> HIDE DEF ch
<1>8. /\ chain'[h0] = ch
      /\ \A h \in Desc : h # h0 => chain'[h] = chain[h]
      /\ chain' \in [Desc -> Seq(Desc)]
  <2>1. chain' = [chain EXCEPT ![h0] = ch]
    BY DEF virtio_queue_alloc, ch
  <2> QED BY <1>2, <1>4, <1>7, <2>1
<1>9. /\ place'[h0] = "built"
      /\ \A h \in Desc : h # h0 => place'[h] = place[h]
      /\ place' \in [Desc -> Places]
  BY <1>2, <1>4 DEF virtio_queue_alloc, Places
<1>10. Len(<< >>) = 0
  BY EmptySeq
<1>11. TypeOK'
  <2>1. free_count - k \in 0..N /\ free_head' \in Link
    <3>1. k # free_count => k + 1 \in 1..Len(free)
      BY <1>1, <1>2
    <3>2. N \in Link /\ Desc \subseteq Link
      BY Sizes DEF Link, Desc
    <3>3. free_head' \in Link
      BY <1>3, <1>5, <3>1, <3>2
    <3> QED BY <1>1, <1>2, <3>3, Sizes
  <2>2. k \in 0..N
    BY <1>1
  <2> QED BY <1>4, <1>6, <1>8, <1>9, <2>1, <2>2 DEF virtio_queue_alloc, IndInv, TypeOK
<1>12. FreeListOK'
  <2>1. Len(free') = free_count'
    BY <1>2, <1>6 DEF virtio_queue_alloc
  <2>2. free_head' = IF free_count' = 0 THEN N ELSE free'[1]
    BY <1>1, <1>2, <1>5, <1>6 DEF virtio_queue_alloc
  <2>3. ASSUME NEW i \in 1..free_count'
        PROVE  f_next'[free'[i]] /\ next'[free'[i]] = IF i = free_count' THEN N ELSE free'[i+1]
    <3>1. i \in 1..(Len(free) - k) /\ free_count' = Len(free) - k
      BY <1>2 DEF virtio_queue_alloc
    <3>2. i + k \in 1..Len(free) /\ free'[i] = free[i + k]
      BY <1>6, <3>1
    <3>3. i # free_count' => i + 1 \in 1..(Len(free) - k) /\ (i + 1) + k = (i + k) + 1
      BY <1>1, <1>2, <3>1
    <3>4. i # free_count' => free'[i+1] = free[(i + k) + 1]
      BY <1>6, <3>3
    <3>5. i + k = Len(free) <=> i = free_count'
      BY <1>1, <1>2, <3>1
    <3>6. next' = next /\ f_next' = f_next
      BY DEF virtio_queue_alloc
    <3> QED BY <1>3, <3>2, <3>4, <3>5, <3>6
  <2> QED BY <2>1, <2>2, <2>3 DEF FreeListOK
<1>13. NoSharing'
  <2>1. \A i, j \in 1..Len(free) : free[i] = free[j] => i = j
    BY DEF IndInv, NoSharing
  <2>2. \A g, h \in Desc : \A i \in 1..Len(chain[g]) : \A j \in 1..Len(chain[h]) :
           chain[g][i] = chain[h][j] => g = h /\ i = j
    BY DEF IndInv, NoSharing
  <2>3. \A i \in 1..Len(free) : \A h \in Desc : \A j \in 1..Len(chain[h]) :
           free[i] # chain[h][j]
    BY DEF IndInv, NoSharing
  <2>4. ASSUME NEW i \in 1..Len(free'), NEW j \in 1..Len(free'), free'[i] = free'[j]
        PROVE  i = j
    <3>1. free[i+k] = free[j+k] /\ i + k \in 1..Len(free) /\ j + k \in 1..Len(free)
      BY <1>6, <2>4
    <3>2. i + k = j + k
      BY <2>1, <3>1
    <3> QED BY <1>1, <1>6, <3>2
  <2>5. ASSUME NEW h \in Desc, NEW j \in 1..Len(chain'[h])
        PROVE  \/ h = h0 /\ j \in 1..k /\ j \in 1..Len(free) /\ chain'[h][j] = free[j]
               \/ h # h0 /\ j \in 1..Len(chain[h]) /\ chain'[h][j] = chain[h][j]
    BY <1>7, <1>8
  <2>6. ASSUME NEW g \in Desc, NEW h \in Desc, NEW i \in 1..Len(chain'[g]),
               NEW j \in 1..Len(chain'[h]), chain'[g][i] = chain'[h][j]
        PROVE  g = h /\ i = j
    <3>1. CASE g # h0 /\ h # h0
      <4>1. /\ i \in 1..Len(chain[g]) /\ j \in 1..Len(chain[h])
            /\ chain[g][i] = chain[h][j]
        BY <2>5, <2>6, <3>1
      <4> QED BY <2>2, <4>1
    <3>2. CASE g = h0 /\ h = h0
      <4>1. i \in 1..Len(free) /\ j \in 1..Len(free) /\ free[i] = free[j]
        BY <2>5, <2>6, <3>2
      <4> QED BY <2>1, <3>2, <4>1
    <3>3. CASE g = h0 /\ h # h0
      <4>1. /\ i \in 1..Len(free) /\ j \in 1..Len(chain[h])
            /\ free[i] = chain[h][j]
        BY <2>5, <2>6, <3>3
      <4> QED BY <2>3, <4>1
    <3>4. CASE g # h0 /\ h = h0
      <4>1. /\ j \in 1..Len(free) /\ i \in 1..Len(chain[g])
            /\ free[j] = chain[g][i]
        BY <2>5, <2>6, <3>4
      <4> QED BY <2>3, <4>1
    <3> QED BY <3>1, <3>2, <3>3, <3>4
  <2>7. ASSUME NEW i \in 1..Len(free'), NEW h \in Desc, NEW j \in 1..Len(chain'[h])
        PROVE  free'[i] # chain'[h][j]
    <3>1. free'[i] = free[i+k] /\ i + k \in 1..Len(free)
      BY <1>6
    <3>2. CASE h = h0
      <4>1. j \in 1..k /\ j \in 1..Len(free) /\ chain'[h][j] = free[j]
        BY <2>5, <3>2
      <4>2. j # i + k
        BY <1>1, <1>6, <4>1
      <4> QED BY <2>1, <3>1, <4>1, <4>2
    <3>3. CASE h # h0
      <4>1. j \in 1..Len(chain[h]) /\ chain'[h][j] = chain[h][j]
        BY <2>5, <3>3
      <4> QED BY <2>3, <3>1, <4>1
    <3> QED BY <3>2, <3>3
  <2> QED BY <2>4, <2>6, <2>7 DEF NoSharing
<1>14. NoLeak'
  <2> SUFFICES ASSUME NEW d \in Desc
               PROVE  \/ \E i \in 1..Len(free') : free'[i] = d
                      \/ \E h \in Desc : \E j \in 1..Len(chain'[h]) : chain'[h][j] = d
    BY DEF NoLeak
  <2>1. CASE \E i \in 1..Len(free) : free[i] = d
    <3>1. PICK i \in 1..Len(free) : free[i] = d
      BY <2>1
    <3>2. CASE i <= k
      <4>1. i \in 1..Len(chain'[h0]) /\ chain'[h0][i] = d
        BY <1>1, <1>7, <1>8, <3>1, <3>2
      <4> QED BY <1>4, <4>1
    <3>3. CASE i > k
      <4>1. i - k \in 1..Len(free') /\ i - k \in 1..(Len(free) - k) /\ (i - k) + k = i
        BY <1>1, <1>2, <1>6, <3>3
      <4>2. free'[i - k] = d
        BY <1>6, <3>1, <4>1
      <4> QED BY <4>1, <4>2
    <3> QED BY <1>1, <3>2, <3>3
  <2>2. CASE \E h \in Desc : \E j \in 1..Len(chain[h]) : chain[h][j] = d
    <3>1. PICK h \in Desc : \E j \in 1..Len(chain[h]) : chain[h][j] = d
      BY <2>2
    <3>2. h # h0
      BY <1>4, <1>10, <3>1
    <3> QED BY <1>8, <3>1, <3>2
  <2> QED BY <2>1, <2>2 DEF IndInv, NoLeak
<1>15. ChainsIntact'
  <2> SUFFICES ASSUME NEW h \in Desc, place'[h] # "free"
               PROVE  /\ chain'[h][1] = h
                      /\ \A i \in 1..(Len(chain'[h]) - 1) : next'[chain'[h][i]] = chain'[h][i+1]
                      /\ \A i \in 1..Len(chain'[h]) :
                           IF pc' = "alloc" /\ h = first'
                           THEN f_next'[chain'[h][i]]
                           ELSE /\ f_next'[chain'[h][i]] = (i < Len(chain'[h]))
                                /\ f_write'[chain'[h][i]] = (i > rcnt'[h])
    BY DEF ChainsIntact, Outstanding
  <2>1. /\ pc' = "alloc" /\ first' = h0 /\ pc = "idle"
        /\ UNCHANGED <<next, f_next, f_write, rcnt>>
    BY DEF virtio_queue_alloc
  <2>2. CASE h = h0
    <3>1. chain'[h] = ch /\ Len(ch) = k
      BY <1>7, <1>8, <2>2
    <3>2. ch[1] = h0
      BY <1>1, <1>4, <1>7
    <3>3. ASSUME NEW i \in 1..(k-1) PROVE next[ch[i]] = ch[i+1]
      <4>1. i \in 1..k /\ i + 1 \in 1..k /\ i # Len(free)
        BY <1>1, <1>2
      <4> QED BY <1>3, <1>7, <4>1
    <3>4. \A i \in 1..k : f_next[ch[i]]
      BY <1>3, <1>7
    <3> QED BY <2>1, <2>2, <3>1, <3>2, <3>3, <3>4
  <2>3. CASE h # h0
    <3>1. chain'[h] = chain[h] /\ place[h] # "free" /\ h \in Outstanding
      BY <1>8, <1>9, <2>3 DEF Outstanding
    <3> QED BY <2>1, <2>3, <3>1 DEF IndInv, ChainsIntact
  <2> QED BY <2>2, <2>3
<1>16. RequestsAccounted'
  <2>1. /\ AvailWindow' = AvailWindow /\ AvailHeads' = AvailHeads
        /\ UsedWindow' = UsedWindow /\ UsedHeads' = UsedHeads
    BY DEF virtio_queue_alloc, AvailWindow, AvailHeads, UsedWindow, UsedHeads
  <2>2. BuiltHeads = {} /\ BuiltHeads' = {h0} /\ ElemHeads = {} /\ ElemHeads' = {}
    BY DEF virtio_queue_alloc, BuiltHeads, ElemHeads
  <2>3. UNCHANGED <<avail_ring, used_ring, inflight, held>>
    BY DEF virtio_queue_alloc
  <2>4. chain'[h0] # << >>
    BY <1>1, <1>7, <1>8, <1>10
  <2>5. ASSUME NEW h \in Desc
        PROVE  /\ place'[h] = "free"   <=> chain'[h] = << >>
               /\ place'[h] = "built"  <=> h \in BuiltHeads'
               /\ place'[h] = "avail"  <=> h \in AvailHeads'
               /\ place'[h] = "device" <=> h \in inflight'
               /\ place'[h] = "used"   <=> h \in UsedHeads'
               /\ place'[h] = "elem"   <=> h \in ElemHeads'
               /\ place'[h] = "held"   <=> h \in held'
    <3>1. /\ place[h] = "free"   <=> chain[h] = << >>
          /\ place[h] = "built"  <=> h \in BuiltHeads
          /\ place[h] = "avail"  <=> h \in AvailHeads
          /\ place[h] = "device" <=> h \in inflight
          /\ place[h] = "used"   <=> h \in UsedHeads
          /\ place[h] = "elem"   <=> h \in ElemHeads
          /\ place[h] = "held"   <=> h \in held
      BY DEF IndInv, RequestsAccounted
    <3>2. CASE h = h0
      BY <1>4, <1>9, <2>1, <2>2, <2>3, <2>4, <3>1, <3>2
    <3>3. CASE h # h0
      BY <1>8, <1>9, <2>1, <2>2, <2>3, <3>1, <3>3
    <3> QED BY <3>2, <3>3
  <2>6. /\ \A c, d \in AvailWindow : avail_ring[Slot(c)] = avail_ring[Slot(d)] => c = d
        /\ \A c, d \in UsedWindow : used_ring[Slot(c)] = used_ring[Slot(d)] => c = d
    BY DEF IndInv, RequestsAccounted
  <2> QED BY <2>1, <2>3, <2>5, <2>6 DEF RequestsAccounted
<1>17. RingsOK'
  BY <1>7, <1>8 DEF virtio_queue_alloc, IndInv, RingsOK
<1> QED BY <1>11, <1>12, <1>13, <1>14, <1>15, <1>16, <1>17 DEF IndInv

\* virtio_queue_writev: toggling NEXT clears it, because every descriptor that
\* comes off the free list has it set, and the WRITE flags of an earlier use
\* are overwritten.
LEMMA WritevStep ==
  ASSUME IndInv, NEW r \in 0..N, virtio_queue_writev(r)
  PROVE  IndInv'
<1> USE DEF driverVars, availVars, usedVars, devVars
<1> DEFINE c == chain[first]
           n == iovcnt
<1>1. n \in 1..N /\ n \in Nat /\ r \in 0..n
  <2>1. <<iovcnt, r>> \in Shapes
    BY DEF virtio_queue_writev
  <2>2. iovcnt \in 1..N /\ r <= iovcnt
    BY <2>1, SizeAssumption
  <2> QED BY <2>2, Sizes
<1>2. /\ pc = "alloc" /\ first \in Desc /\ c \in Seq(Desc) /\ Len(c) = n
      /\ place[first] = "built" /\ first \in Outstanding
  <2>1. pc = "alloc" /\ first \in Desc /\ c \in Seq(Desc) /\ Len(c) = n
    BY DEF virtio_queue_writev, IndInv, TypeOK, RingsOK
  <2>2. place[first] = "built"
    BY <2>1 DEF IndInv, RequestsAccounted, BuiltHeads
  <2> QED BY <2>1, <2>2 DEF Outstanding
<1>3. /\ c[1] = first
      /\ \A i \in 1..(n-1) : next[c[i]] = c[i+1]
      /\ \A i \in 1..n : f_next[c[i]] /\ c[i] \in Desc
  BY <1>2, ElementOfSeq DEF IndInv, ChainsIntact
<1>4. \A h \in Desc : \A i \in 1..Len(chain[h]) : \A j \in 1..n :
         chain[h][i] = c[j] => h = first /\ i = j
  BY <1>2 DEF IndInv, NoSharing
<1>5. \A i \in 1..Len(free) : \A j \in 1..n : free[i] \in Desc /\ free[i] # c[j]
  <2>1. free \in Seq(Desc)
    BY DEF IndInv, TypeOK
  <2>2. \A i \in 1..Len(free) : free[i] \in Desc
    BY <2>1, ElementOfSeq
  <2>3. \A i \in 1..Len(free) : \A j \in 1..Len(c) : free[i] # c[j]
    BY <1>2 DEF IndInv, NoSharing
  <2> QED BY <1>2, <2>2, <2>3
<1>6. /\ f_next' = [f_next EXCEPT ![c[n]] = ~ @]
      /\ f_write' = [d \in Desc |->
            IF \E i \in 1..n : c[i] = d
            THEN \E i \in (r+1)..n : c[i] = d
            ELSE f_write[d]]
  <2>1. PICK p \in [1..n -> Desc] :
          /\ Visits(p, n, first)
          /\ f_write' = [d \in Desc |->
               IF \E i \in 1..n : p[i] = d
               THEN \E i \in (r+1)..n : p[i] = d
               ELSE f_write[d]]
          /\ f_next' = [f_next EXCEPT ![p[n]] = ~ @]
    BY DEF virtio_queue_writev
  <2>2. Visits(p, n, c[1])
    BY <1>3, <2>1
  <2> HIDE DEF c, n
  <2>3. \A i \in 1..n : i <= n => p[i] = c[i]
    <3>1. n \in Nat /\ c \in Seq(Desc) /\ p \in [1..n -> Desc]
      BY <1>1, <1>2, <2>1
    <3>2. \A i \in 1..(n-1) : next[c[i]] = c[i+1]
      BY <1>3
    <3> QED BY <2>2, <3>1, <3>2, WalkFollowsList
  <2>4. \A i \in 1..n : p[i] = c[i]
    BY <1>1, <2>3
  <2>5. n \in 1..n /\ \A i \in (r+1)..n : i \in 1..n
    BY <1>1
  <2> QED BY <2>1, <2>4, <2>5
<1>7. /\ pc' = "written" /\ rcnt' = [rcnt EXCEPT ![first] = r]
      /\ UNCHANGED <<driverVars, next, availVars, usedVars, first, iovcnt, elem,
                     held, kick, irq, devVars, free, chain, place>>
  BY DEF virtio_queue_writev
<1>8. f_next \in [Desc -> BOOLEAN] /\ f_write \in [Desc -> BOOLEAN] /\ rcnt \in [Desc -> 0..N]
  BY DEF IndInv, TypeOK
<1> HIDE DEF c, n
<1>9. \A d \in Desc : (\A j \in 1..n : d # c[j]) => f_next'[d] = f_next[d] /\ f_write'[d] = f_write[d]
  <2>1. n \in 1..n
    BY <1>1
  <2> QED BY <1>6, <1>8, <2>1
<1>10. \A i \in 1..n : f_next'[c[i]] = (i < n) /\ f_write'[c[i]] = (i > r)
  <2> SUFFICES ASSUME NEW i \in 1..n
               PROVE  f_next'[c[i]] = (i < n) /\ f_write'[c[i]] = (i > r)
    OBVIOUS
  <2>1. n \in 1..n /\ i \in Int /\ n \in Int /\ r \in Int
    BY <1>1
  <2>2. \A j \in 1..n : c[j] = c[i] => j = i
    BY <1>2, <1>4 DEF c, n
  <2>3. f_next'[c[i]] = (i < n)
    <3>0. c[i] \in Desc /\ c[n] \in Desc /\ f_next[c[i]] = TRUE /\ f_next[c[n]] = TRUE
      BY <1>3, <1>8, <2>1
    <3>1. CASE i = n
      <4>1. f_next'[c[i]] = ~ f_next[c[i]]
        BY <1>6, <1>8, <3>0, <3>1
      <4>2. ~ (i < n)
        BY <2>1, <3>1
      <4> QED BY <3>0, <4>1, <4>2
    <3>2. CASE i # n
      <4>1. c[n] # c[i] /\ i < n
        BY <2>1, <2>2, <3>2
      <4>2. f_next'[c[i]] = f_next[c[i]]
        BY <1>6, <1>8, <3>0, <4>1
      <4>3. f_next'[c[i]] = TRUE /\ (i < n) = TRUE
        BY <3>0, <4>1, <4>2
      <4> QED BY <4>3
    <3> QED BY <3>1, <3>2
  <2>4. f_write'[c[i]] = (\E j \in (r+1)..n : c[j] = c[i])
    <3>1. c[i] \in Desc
      BY <1>3
    <3> QED BY <1>6, <3>1
  <2>5. (\E j \in (r+1)..n : c[j] = c[i]) <=> i > r
    <3>1. \A j \in (r+1)..n : j \in 1..n /\ j > r
      BY <1>1
    <3>2. i > r => i \in (r+1)..n
      BY <1>1
    <3> QED BY <2>2, <3>1, <3>2
  <2>6. CASE i > r
    <3>1. f_write'[c[i]] = TRUE
      BY <2>4, <2>5, <2>6
    <3> QED BY <2>3, <2>6, <3>1
  <2>7. CASE ~ (i > r)
    <3>1. f_write'[c[i]] = FALSE
      BY <2>4, <2>5, <2>7
    <3>2. (i > r) = FALSE
      BY <2>1, <2>7
    <3> QED BY <2>3, <3>1, <3>2, Zenon
  <2> QED BY <2>6, <2>7
<1>11. TypeOK'
  <2>1. f_next' \in [Desc -> BOOLEAN] /\ f_write' \in [Desc -> BOOLEAN]
    BY <1>6, <1>8
  <2>2. rcnt' \in [Desc -> 0..N]
    BY <1>7, <1>8
  <2> QED BY <1>7, <2>1, <2>2 DEF IndInv, TypeOK
<1>12. FreeListOK'
  <2>1. \A i \in 1..Len(free) : free[i] \in Desc
    BY FreeIsNotHead
  <2>2. \A i \in 1..Len(free) : f_next'[free[i]] = f_next[free[i]]
    BY <1>5, <1>9, <2>1
  <2>3. Len(free) = free_count
    BY DEF IndInv, FreeListOK
  <2> QED BY <1>7, <2>2, <2>3 DEF IndInv, FreeListOK
<1>13. NoSharing' /\ NoLeak'
  BY <1>7 DEF IndInv, NoSharing, NoLeak
<1>14. ChainsIntact'
  <2> SUFFICES ASSUME NEW h \in Desc, place[h] # "free"
               PROVE  /\ chain[h][1] = h
                      /\ \A i \in 1..(Len(chain[h]) - 1) : next[chain[h][i]] = chain[h][i+1]
                      /\ \A i \in 1..Len(chain[h]) :
                           /\ f_next'[chain[h][i]] = (i < Len(chain[h]))
                           /\ f_write'[chain[h][i]] = (i > rcnt'[h])
    BY <1>7 DEF ChainsIntact, Outstanding
  <2>1. CASE h = first
    <3>1. chain[h] = c /\ rcnt'[h] = r
      BY <1>2, <1>7, <1>8, <2>1 DEF c
    <3> QED BY <1>2, <1>3, <1>10, <2>1, <3>1
  <2>2. CASE h # first
    <3>1. \A i \in 1..Len(chain[h]) : chain[h][i] \in Desc /\ \A j \in 1..n : chain[h][i] # c[j]
      BY <1>4, <2>2, ElementOfSeq DEF IndInv, TypeOK
    <3>2. \A i \in 1..Len(chain[h]) : /\ f_next'[chain[h][i]] = f_next[chain[h][i]]
                                     /\ f_write'[chain[h][i]] = f_write[chain[h][i]]
      BY <1>9, <3>1
    <3>3. rcnt'[h] = rcnt[h] /\ h \in Outstanding
      BY <1>7, <1>8, <2>2 DEF Outstanding
    <3> QED BY <2>2, <3>2, <3>3 DEF IndInv, ChainsIntact
  <2> QED BY <2>1, <2>2
<1>15. RequestsAccounted'
  <2>1. /\ AvailWindow' = AvailWindow /\ AvailHeads' = AvailHeads
        /\ UsedWindow' = UsedWindow /\ UsedHeads' = UsedHeads
        /\ BuiltHeads' = BuiltHeads /\ ElemHeads' = ElemHeads
    BY <1>2, <1>7 DEF AvailWindow, AvailHeads, UsedWindow, UsedHeads, BuiltHeads, ElemHeads
  <2> QED BY <1>7, <2>1 DEF IndInv, RequestsAccounted
<1>16. RingsOK'
  BY <1>2, <1>7 DEF IndInv, RingsOK
<1> QED BY <1>11, <1>12, <1>13, <1>14, <1>15, <1>16 DEF IndInv

\* A sequence of different descriptors is no longer than the table.
LEMMA DistinctBound ==
  ASSUME NEW s \in Seq(Desc), \A i, j \in 1..Len(s) : s[i] = s[j] => i = j
  PROVE  Len(s) <= N
<1> DEFINE f == [i \in 1..Len(s) |-> s[i] + 1]
<1>1. Len(s) \in Nat /\ \A i \in 1..Len(s) : s[i] \in Desc
  BY LenProperties, ElementOfSeq
<1>2. f \in [1..Len(s) -> 1..N]
  BY <1>1, DescSucc
<1>3. \A i, j \in 1..Len(s) : f[i] = f[j] => i = j
  <2>1. \A i \in 1..Len(s) : f[i] = s[i] + 1 /\ s[i] \in Int
    BY <1>1, Sizes DEF Desc
  <2> HIDE DEF f
  <2> QED BY <2>1
<1> HIDE DEF f
<1>4. f \in Injection(1..Len(s), 1..N)
  BY <1>2, <1>3 DEF Injection, IsInjective
<1>5. ExistsInjection(1..Len(s), 1..N)
  BY <1>4 DEF ExistsInjection
<1> QED BY <1>1, <1>5, Fun_NatInjLeq, Sizes

\* virtio_queue_free walks exactly the chain of the request it is given.
LEMMA FreeWalk ==
  ASSUME IndInv, NEW index \in Desc, virtio_queue_free(index),
         pc # "alloc", place[index] # "free"
  PROVE  LET c == chain[index]
             m == Len(chain[index])
         IN  /\ c \in Seq(Desc) /\ m \in Nat /\ m >= 1
             /\ c[1] = index
             /\ \A i \in 1..(m-1) : next[c[i]] = c[i+1]
             /\ \A i \in 1..m : c[i] \in Desc /\ (i < m => f_next[c[i]])
             /\ free_count' = free_count + m
             /\ next' = [next EXCEPT ![c[m]] = free_head]
             /\ f_next' = [f_next EXCEPT ![c[m]] = TRUE]
<1> DEFINE c == chain[index]
           m == Len(c)
<1>1. c \in Seq(Desc) /\ m \in Nat /\ c # << >>
  BY LenProperties DEF IndInv, TypeOK, RequestsAccounted
<1>2. m >= 1
  BY <1>1, EmptySeq
<1>3. /\ c[1] = index
      /\ \A i \in 1..(m-1) : next[c[i]] = c[i+1]
      /\ \A i \in 1..m : f_next[c[i]] = (i < m)
  BY DEF IndInv, ChainsIntact, Outstanding
<1>4. \A i \in 1..m : c[i] \in Desc
  BY <1>1, ElementOfSeq
<1>5. PICK n \in 1..N : \E p \in [1..n -> Desc] :
        /\ Visits(p, n, index)
        /\ \A i \in 1..(n-1) : f_next[p[i]]
        /\ ~ f_next[p[n]]
        /\ free_count' = free_count + n
        /\ next' = [next EXCEPT ![p[n]] = free_head]
        /\ f_next' = [f_next EXCEPT ![p[n]] = TRUE]
  BY DEF virtio_queue_free
<1>6. PICK p \in [1..n -> Desc] :
        /\ Visits(p, n, index)
        /\ \A i \in 1..(n-1) : f_next[p[i]]
        /\ ~ f_next[p[n]]
        /\ free_count' = free_count + n
        /\ next' = [next EXCEPT ![p[n]] = free_head]
        /\ f_next' = [f_next EXCEPT ![p[n]] = TRUE]
  BY <1>5
<1> HIDE DEF c, m
<1>7. \A i \in 1..n : i <= m => p[i] = c[i]
  <2>1. n \in Nat /\ Visits(p, n, c[1])
    BY <1>3, <1>6, Sizes
  <2>2. \A i \in 1..(m-1) : next[c[i]] = c[i+1]
    BY <1>3
  <2> QED BY <1>1, <2>1, <2>2, WalkFollowsList
<1>8. n \in Nat /\ n \in 1..n /\ m \in 1..m
  BY <1>1, <1>2, Sizes
<1>9. ~ (n < m)
  <2> SUFFICES ASSUME n < m PROVE FALSE
    OBVIOUS
  <2>1. n <= m /\ n \in 1..m
    BY <1>1, <1>8
  <2>2. p[n] = c[n] /\ f_next[c[n]]
    BY <1>3, <1>7, <1>8, <2>1
  <2> QED BY <1>6, <2>2
<1>10. ~ (m < n)
  <2> SUFFICES ASSUME m < n PROVE FALSE
    OBVIOUS
  <2>1. m <= m /\ m \in 1..n /\ m \in 1..(n-1) /\ ~ (m < m)
    BY <1>1, <1>2, <1>8
  <2>2. p[m] = c[m] /\ ~ f_next[c[m]]
    BY <1>3, <1>7, <1>8, <2>1
  <2> QED BY <1>6, <2>1, <2>2
<1>11. n = m
  BY <1>1, <1>8, <1>9, <1>10
<1>12. p[n] = c[m] /\ m <= m
  BY <1>1, <1>7, <1>8, <1>11
<1>13. /\ free_count' = free_count + m
       /\ next' = [next EXCEPT ![c[m]] = free_head]
       /\ f_next' = [f_next EXCEPT ![c[m]] = TRUE]
  BY <1>6, <1>11, <1>12
<1>14. \A i \in 1..m : i < m => f_next[c[i]]
  BY <1>3
<1> QED BY <1>1, <1>2, <1>3, <1>4, <1>13, <1>14 DEF c, m

\* virtio_queue_free of a completed request, called right after
\* virtio_queue_recv or later by the caller of virtio_gpu_wait.
LEMMA FreeStep ==
  ASSUME IndInv, NEW index \in Desc, virtio_queue_free(index),
         pc' = "idle", elem' \in Desc,
         \/ pc = "recv" /\ index = used_ring[elem] /\ held' = held
         \/ pc = "idle" /\ index \in held /\ held' = held \ {index}
  PROVE  IndInv'
<1> USE DEF Moves, availVars, usedVars, devVars
<1> DEFINE c == chain[index]
           m == Len(c)
           L == Len(free)
<1>1. pc \in {"recv", "idle"} /\ place[index] # "free"
  BY DEF IndInv, RequestsAccounted, ElemHeads
<1>2. /\ c \in Seq(Desc) /\ m \in Nat /\ m >= 1
      /\ c[1] = index
      /\ \A i \in 1..(m-1) : next[c[i]] = c[i+1]
      /\ \A i \in 1..m : c[i] \in Desc /\ (i < m => f_next[c[i]])
      /\ free_count' = free_count + m
      /\ next' = [next EXCEPT ![c[m]] = free_head]
      /\ f_next' = [f_next EXCEPT ![c[m]] = TRUE]
  BY <1>1, FreeWalk
<1>3. /\ free \in Seq(Desc) /\ L \in Nat /\ L = free_count /\ free_count \in 0..N
      /\ chain \in [Desc -> Seq(Desc)] /\ place \in [Desc -> Places]
      /\ next \in [Desc -> Link] /\ f_next \in [Desc -> BOOLEAN] /\ free_head \in Link
      /\ rcnt \in [Desc -> 0..N]
  BY LenProperties DEF IndInv, TypeOK, FreeListOK
<1>4. /\ free' = c \o free /\ free_head' = index
      /\ chain' = [chain EXCEPT ![index] = << >>]
      /\ rcnt' = [rcnt EXCEPT ![index] = 0]
      /\ place' = [place EXCEPT ![index] = "free"]
      /\ UNCHANGED <<next_avail, next_used, used_index, f_write, availVars,
                     usedVars, first, iovcnt, kick, irq, devVars>>
  BY DEF virtio_queue_free
<1>5. \A i, j \in 1..L : free[i] = free[j] => i = j
  BY DEF IndInv, NoSharing
<1>6. \A g, h \in Desc : \A i \in 1..Len(chain[g]) : \A j \in 1..Len(chain[h]) :
         chain[g][i] = chain[h][j] => g = h /\ i = j
  BY DEF IndInv, NoSharing
<1>7. \A i \in 1..L : \A h \in Desc : \A j \in 1..Len(chain[h]) : free[i] # chain[h][j]
  BY DEF IndInv, NoSharing
<1>8. \A i \in 1..L : \A j \in 1..m : free[i] # c[j]
  BY <1>7
<1>9. \A i, j \in 1..m : c[i] = c[j] => i = j
  BY <1>6
<1>10. \A h \in Desc : \A i \in 1..Len(chain[h]) : \A j \in 1..m :
          chain[h][i] = c[j] => h = index
  BY <1>6
<1>11. /\ \A i \in 1..L : /\ free[i] \in Desc /\ f_next[free[i]]
                          /\ next[free[i]] = IF i = L THEN N ELSE free[i+1]
       /\ free_head = IF L = 0 THEN N ELSE free[1]
  <2>1. \A i \in 1..L : free[i] \in Desc
    BY <1>3, ElementOfSeq
  <2> QED BY <1>3, <2>1 DEF IndInv, FreeListOK
<1> HIDE DEF c, m, L
<1>12. /\ free' \in Seq(Desc) /\ Len(free') = m + L
       /\ \A i \in 1..m : i \in 1..(m+L) /\ free'[i] = c[i]
       /\ \A i \in 1..L : i + m \in 1..(m+L) /\ free'[i+m] = free[i]
  <2>1. /\ c \o free \in Seq(Desc) /\ Len(c \o free) = m + L
        /\ \A i \in 1..(m+L) : (c \o free)[i] = IF i <= m THEN c[i] ELSE free[i - m]
    <3>1. c \in Seq(Desc) /\ free \in Seq(Desc)
      BY <1>2, <1>3
    <3> QED BY <3>1, ConcatProperties, Zenon DEF m, L
  <2>2. \A i \in 1..m : i \in 1..(m+L) /\ i <= m
    BY <1>2, <1>3
  <2>3. \A i \in 1..L : i + m \in 1..(m+L) /\ ~ (i + m <= m) /\ (i + m) - m = i
    BY <1>2, <1>3
  <2> DEFINE s == c \o free
  <2>4. s = free'
    BY <1>4
  <2> HIDE DEF s
  <2>5. \A i \in 1..(m+L) : s[i] = IF i <= m THEN c[i] ELSE free[i - m]
    BY <2>1 DEF s
  <2>6. \A i \in 1..m : s[i] = c[i]
    BY <2>2, <2>5
  <2>7. \A i \in 1..L : s[i+m] = free[i]
    BY <2>3, <2>5
  <2> QED BY <1>4, <2>1, <2>2, <2>3, <2>4, <2>6, <2>7
<1>13. \A i \in 1..Len(free') : \/ i \in 1..m
                                \/ i - m \in 1..L /\ i = (i - m) + m
  BY <1>2, <1>3, <1>12
<1>14. /\ chain'[index] = << >> /\ Len(chain'[index]) = 0
       /\ \A h \in Desc : h # index => chain'[h] = chain[h]
       /\ chain' \in [Desc -> Seq(Desc)]
  BY <1>3, <1>4, EmptySeq
<1>15. /\ place'[index] = "free"
       /\ \A h \in Desc : h # index => place'[h] = place[h] /\ rcnt'[h] = rcnt[h]
       /\ place' \in [Desc -> Places] /\ rcnt' \in [Desc -> 0..N]
  BY <1>3, <1>4, Sizes DEF Places
<1>16. NoSharing'
  <2>1. ASSUME NEW i \in 1..Len(free'), NEW j \in 1..Len(free'), free'[i] = free'[j]
        PROVE  i = j
    <3>1. CASE i \in 1..m /\ j \in 1..m
      BY <1>9, <1>12, <2>1, <3>1
    <3>2. CASE i \in 1..m /\ j - m \in 1..L /\ j = (j - m) + m
      <4>1. free'[i] = c[i] /\ free'[j] = free[j - m]
        BY <1>12, <3>2
      <4> QED BY <1>8, <2>1, <3>2, <4>1
    <3>3. CASE j \in 1..m /\ i - m \in 1..L /\ i = (i - m) + m
      <4>1. free'[j] = c[j] /\ free'[i] = free[i - m]
        BY <1>12, <3>3
      <4> QED BY <1>8, <2>1, <3>3, <4>1
    <3>4. CASE i - m \in 1..L /\ i = (i - m) + m /\ j - m \in 1..L /\ j = (j - m) + m
      <4>1. free'[j] = free[j - m] /\ free'[i] = free[i - m]
        BY <1>12, <3>4
      <4>2. i - m = j - m
        BY <1>5, <2>1, <3>4, <4>1
      <4> QED BY <3>4, <4>2
    <3> QED BY <1>13, <3>1, <3>2, <3>3, <3>4
  <2>2. ASSUME NEW h \in Desc, NEW j \in 1..Len(chain'[h])
        PROVE  h # index /\ j \in 1..Len(chain[h]) /\ chain'[h][j] = chain[h][j]
    BY <1>14
  <2>3. ASSUME NEW g \in Desc, NEW h \in Desc, NEW i \in 1..Len(chain'[g]),
               NEW j \in 1..Len(chain'[h]), chain'[g][i] = chain'[h][j]
        PROVE  g = h /\ i = j
    BY <1>6, <2>2, <2>3
  <2>4. ASSUME NEW i \in 1..Len(free'), NEW h \in Desc, NEW j \in 1..Len(chain'[h])
        PROVE  free'[i] # chain'[h][j]
    <3>1. h # index /\ j \in 1..Len(chain[h]) /\ chain'[h][j] = chain[h][j]
      BY <2>2
    <3>2. CASE i \in 1..m
      BY <1>10, <1>12, <3>1, <3>2
    <3>3. CASE i - m \in 1..L /\ i = (i - m) + m
      <4>1. free'[i] = free[i - m]
        BY <1>12, <3>3
      <4> QED BY <1>7, <3>1, <3>3, <4>1 DEF L
    <3> QED BY <1>13, <3>2, <3>3
  <2> QED BY <2>1, <2>3, <2>4 DEF NoSharing
<1>17. free_count' \in 0..N
  <2>1. \A i, j \in 1..Len(free') : free'[i] = free'[j] => i = j
    BY <1>16 DEF NoSharing
  <2>2. Len(free') <= N
    BY <1>12, <2>1, DistinctBound
  <2> QED BY <1>2, <1>3, <1>12, <2>2, Sizes
<1>18. c[m] \in Desc /\ m \in 1..m
  BY <1>2
<1>19. /\ \A d \in Desc : d # c[m] => next'[d] = next[d] /\ f_next'[d] = f_next[d]
       /\ next'[c[m]] = free_head /\ f_next'[c[m]] = TRUE
       /\ next' \in [Desc -> Link] /\ f_next' \in [Desc -> BOOLEAN]
  BY <1>2, <1>3, <1>18
<1>20. TypeOK'
  <2>1. index \in Link
    BY Sizes DEF Desc, Link
  <2>2. held' \subseteq Desc
    BY DEF IndInv, TypeOK
  <2> QED BY <1>4, <1>12, <1>14, <1>15, <1>17, <1>19, <2>1, <2>2 DEF IndInv, TypeOK
<1>21. FreeListOK'
  <2>1. Len(free') = free_count' /\ free_count' = m + L
    BY <1>2, <1>3, <1>12
  <2>2. free_head' = IF free_count' = 0 THEN N ELSE free'[1]
    <3>1. 1 \in 1..m /\ free_count' # 0
      BY <1>2, <1>3, <2>1
    <3> QED BY <1>2, <1>4, <1>12, <3>1
  <2>3. ASSUME NEW i \in 1..free_count'
        PROVE  f_next'[free'[i]] /\ next'[free'[i]] = IF i = free_count' THEN N ELSE free'[i+1]
    <3>1. CASE i \in 1..(m-1)
      <4>1. i \in 1..m /\ i + 1 \in 1..m /\ i < m /\ i # m /\ i # free_count'
        BY <1>2, <1>3, <2>1, <3>1
      <4>2. free'[i] = c[i] /\ free'[i+1] = c[i+1] /\ c[i] # c[m] /\ c[i] \in Desc
        BY <1>2, <1>9, <1>12, <1>18, <4>1
      <4>3. f_next'[c[i]] /\ next'[c[i]] = c[i+1]
        BY <1>2, <1>19, <3>1, <4>1, <4>2
      <4> QED BY <4>1, <4>2, <4>3
    <3>2. CASE i = m
      <4>1. free'[i] = c[m] /\ next'[free'[i]] = free_head /\ f_next'[free'[i]]
        BY <1>12, <1>18, <1>19, <3>2
      <4>2. CASE L = 0
        <5>1. i = free_count'
          BY <1>2, <2>1, <3>2, <4>2
        <5> QED BY <1>11, <4>1, <4>2, <5>1
      <4>3. CASE L # 0
        <5>1. i # free_count' /\ 1 \in 1..L /\ i + 1 = 1 + m
          BY <1>2, <1>3, <2>1, <3>2, <4>3
        <5>2. free'[i+1] = free[1]
          BY <1>12, <5>1
        <5> QED BY <1>11, <4>1, <4>3, <5>1, <5>2
      <4> QED BY <4>2, <4>3
    <3>3. CASE i - m \in 1..L
      <4>1. i = (i - m) + m /\ i - m \in 1..L
        BY <1>2, <3>3
      <4>2. free'[i] = free[i - m]
        BY <1>12, <4>1
      <4>3. free[i - m] \in Desc /\ free[i - m] # c[m]
        BY <1>8, <1>11, <1>18, <4>1
      <4>4. /\ f_next'[free'[i]]
            /\ next'[free'[i]] = IF i - m = L THEN N ELSE free[(i - m) + 1]
        BY <1>11, <1>19, <4>1, <4>2, <4>3
      <4>5. i - m = L <=> i = free_count'
        <5>1. m \in Nat /\ L \in Nat /\ i \in Int
          BY <1>2, <1>3, <2>1
        <5> QED BY <2>1, <5>1
      <4>6. i - m # L => free'[i+1] = free[(i - m) + 1]
        <5>1. i - m # L => (i - m) + 1 \in 1..L /\ i + 1 = ((i - m) + 1) + m
          BY <1>2, <1>3, <4>1
        <5> QED BY <1>12, <5>1
      <4> QED BY <4>4, <4>5, <4>6
    <3> QED BY <1>2, <1>3, <2>1, <3>1, <3>2, <3>3
  <2> QED BY <2>1, <2>2, <2>3 DEF FreeListOK
<1>22. NoLeak'
  <2> SUFFICES ASSUME NEW d \in Desc
               PROVE  \/ \E i \in 1..Len(free') : free'[i] = d
                      \/ \E h \in Desc : \E j \in 1..Len(chain'[h]) : chain'[h][j] = d
    BY DEF NoLeak
  <2>1. CASE \E i \in 1..L : free[i] = d
    BY <1>12, <2>1
  <2>2. CASE \E h \in Desc : \E j \in 1..Len(chain[h]) : chain[h][j] = d
    <3>1. PICK h \in Desc : \E j \in 1..Len(chain[h]) : chain[h][j] = d
      BY <2>2
    <3>2. CASE h = index
      <4>1. \E j \in 1..m : c[j] = d
        BY <3>1, <3>2 DEF c, m
      <4> QED BY <1>12, <4>1
    <3>3. CASE h # index
      BY <1>14, <3>1, <3>3
    <3> QED BY <3>2, <3>3
  <2> QED BY <2>1, <2>2 DEF IndInv, NoLeak, L
<1>23. ChainsIntact'
  <2> SUFFICES ASSUME NEW h \in Desc, place'[h] # "free"
               PROVE  /\ chain'[h][1] = h
                      /\ \A i \in 1..(Len(chain'[h]) - 1) : next'[chain'[h][i]] = chain'[h][i+1]
                      /\ \A i \in 1..Len(chain'[h]) :
                           /\ f_next'[chain'[h][i]] = (i < Len(chain'[h]))
                           /\ f_write'[chain'[h][i]] = (i > rcnt'[h])
    BY DEF ChainsIntact, Outstanding
  <2>1. h # index /\ chain'[h] = chain[h] /\ h \in Outstanding /\ rcnt'[h] = rcnt[h]
    BY <1>14, <1>15 DEF Outstanding
  <2>2. /\ chain[h][1] = h
        /\ \A i \in 1..(Len(chain[h]) - 1) : next[chain[h][i]] = chain[h][i+1]
        /\ \A i \in 1..Len(chain[h]) : /\ f_next[chain[h][i]] = (i < Len(chain[h]))
                                      /\ f_write[chain[h][i]] = (i > rcnt[h])
    BY <1>1, <2>1 DEF IndInv, ChainsIntact
  <2>3. chain[h] \in Seq(Desc) /\ Len(chain[h]) \in Nat
    BY <1>3, LenProperties
  <2>4. \A i \in 1..Len(chain[h]) : chain[h][i] \in Desc /\ chain[h][i] # c[m]
    BY <1>10, <1>18, <2>1, <2>3, ElementOfSeq
  <2>5. \A i \in 1..Len(chain[h]) : /\ next'[chain[h][i]] = next[chain[h][i]]
                                   /\ f_next'[chain[h][i]] = f_next[chain[h][i]]
    BY <1>19, <2>4
  <2>6. \A i \in 1..(Len(chain[h]) - 1) : i \in 1..Len(chain[h])
    BY <2>3
  <2> QED BY <1>4, <2>1, <2>2, <2>5, <2>6
<1>24. RequestsAccounted'
  <2>1. /\ AvailWindow' = AvailWindow /\ AvailHeads' = AvailHeads
        /\ UsedWindow' = UsedWindow /\ UsedHeads' = UsedHeads
        /\ BuiltHeads' = BuiltHeads /\ ElemHeads' = {} /\ BuiltHeads = {}
    BY <1>1, <1>4 DEF AvailWindow, AvailHeads, UsedWindow, UsedHeads, BuiltHeads, ElemHeads
  <2>2. /\ ElemHeads = IF pc = "recv" THEN {index} ELSE {}
        /\ held' = IF pc = "recv" THEN held ELSE held \ {index}
    BY DEF ElemHeads
  <2>3. UNCHANGED <<avail_ring, used_ring, inflight>>
    BY <1>4
  <2>4. ASSUME NEW h \in Desc
        PROVE  /\ place'[h] = "free"   <=> chain'[h] = << >>
               /\ place'[h] = "built"  <=> h \in BuiltHeads'
               /\ place'[h] = "avail"  <=> h \in AvailHeads'
               /\ place'[h] = "device" <=> h \in inflight'
               /\ place'[h] = "used"   <=> h \in UsedHeads'
               /\ place'[h] = "elem"   <=> h \in ElemHeads'
               /\ place'[h] = "held"   <=> h \in held'
    <3>1. /\ place[h] = "free"   <=> chain[h] = << >>
          /\ place[h] = "built"  <=> h \in BuiltHeads
          /\ place[h] = "avail"  <=> h \in AvailHeads
          /\ place[h] = "device" <=> h \in inflight
          /\ place[h] = "used"   <=> h \in UsedHeads
          /\ place[h] = "elem"   <=> h \in ElemHeads
          /\ place[h] = "held"   <=> h \in held
      BY DEF IndInv, RequestsAccounted
    <3>2. CASE h = index
      <4>1. place[h] = "elem" \/ place[h] = "held"
        BY <2>2, <3>1, <3>2
      <4>2. pc = "recv" <=> place[h] = "elem"
        BY <2>2, <3>1, <3>2
      <4> QED BY <1>14, <1>15, <2>1, <2>2, <2>3, <3>1, <3>2, <4>1, <4>2
    <3>3. CASE h # index
      BY <1>14, <1>15, <2>1, <2>2, <2>3, <3>1, <3>3
    <3> QED BY <3>2, <3>3
  <2>5. /\ \A x, d \in AvailWindow : avail_ring[Slot(x)] = avail_ring[Slot(d)] => x = d
        /\ \A x, d \in UsedWindow : used_ring[Slot(x)] = used_ring[Slot(d)] => x = d
    BY DEF IndInv, RequestsAccounted
  <2> QED BY <2>1, <2>3, <2>4, <2>5 DEF RequestsAccounted
<1>25. RingsOK'
  BY <1>1, <1>4 DEF IndInv, RingsOK
<1> QED BY <1>16, <1>20, <1>21, <1>22, <1>23, <1>24, <1>25 DEF IndInv

\* The caller of virtio_queue_recv frees the request at once.
LEMMA FreeElemStep ==
  ASSUME IndInv, FreeElem
  PROVE  IndInv'
<1>1. used_ring[elem] \in Desc
  BY DEF IndInv, TypeOK
<1>2. 0 \in Desc
  BY Sizes DEF Desc
<1> QED BY <1>1, <1>2, FreeStep DEF FreeElem

\* The caller of virtio_gpu_wait frees the request after reading the answer.
LEMMA FreeHeldStep ==
  ASSUME IndInv, NEW id \in Desc, FreeHeld(id)
  PROVE  IndInv'
<1>1. elem \in Desc
  BY DEF IndInv, TypeOK
<1> QED BY <1>1, FreeStep DEF FreeHeld

-----------------------------------------------------------------------------
(* The theorems.                                                           *)

\* Every step of the driver and of the device keeps the invariant.
LEMMA NextIndInv == IndInv /\ [Next]_vars => IndInv'
<1> SUFFICES ASSUME IndInv, [Next]_vars PROVE IndInv'
  OBVIOUS
<1> USE DEF driverVars, descVars, availVars, usedVars, threadVars, devVars, histVars
<1>1. /\ first \in Desc /\ iovcnt \in 0..N /\ 0 \in Desc /\ 0 \in 0..N
      /\ no_notify \in BOOLEAN /\ kick \in BOOLEAN /\ irq \in BOOLEAN
      /\ raise \in BOOLEAN /\ dpc \in {"sleep", "run", "recheck"}
  BY Sizes DEF IndInv, TypeOK, Desc
<1>2. ASSUME NEW k \in IovCounts, virtio_queue_alloc(k) PROVE IndInv'
  BY <1>2, AllocStep
<1>3. ASSUME NEW r \in 0..N, virtio_queue_writev(r) PROVE IndInv'
  BY <1>3, WritevStep
<1>4. CASE virtio_queue_send_ring
  BY <1>4, SendRingStep
<1>5. CASE virtio_queue_send_idx
  BY <1>5, SendIdxStep
<1>6. CASE virtio_queue_send_notify
  BY <1>1, <1>6, QuietStep DEF virtio_queue_send_notify
<1>7. CASE vfio_pci_dev_clear_irq
  BY <1>1, <1>7, QuietStep DEF vfio_pci_dev_clear_irq
<1>8. CASE virtio_queue_handle_event
  BY <1>8, HandleEventStep
<1>9. CASE virtio_queue_recv
  BY <1>9, RecvStep
<1>10. CASE FreeElem
  BY <1>10, FreeElemStep
<1>11. CASE KeepElem
  BY <1>11, KeepElemStep
<1>12. ASSUME NEW id \in Desc, FreeHeld(id) PROVE IndInv'
  BY <1>12, FreeHeldStep
<1>13. CASE DevWake
  BY <1>1, <1>13, QuietStep DEF DevWake
<1>14. CASE DevPop
  BY <1>14, DevPopStep
<1>15. CASE DevIdle
  BY <1>1, <1>15, QuietStep DEF DevIdle
<1>16. CASE DevRecheck
  BY <1>1, <1>16, QuietStep DEF DevRecheck
<1>17. CASE DevInterrupt
  BY <1>1, <1>17, QuietStep DEF DevInterrupt
<1>18. ASSUME NEW h \in Desc, DevComplete(h) PROVE IndInv'
  BY <1>18, DevCompleteStep
<1>19. CASE UNCHANGED vars
  BY <1>1, <1>19, QuietStep DEF vars
<1> QED BY <1>2, <1>3, <1>4, <1>5, <1>6, <1>7, <1>8, <1>9, <1>10, <1>11,
           <1>12, <1>13, <1>14, <1>15, <1>16, <1>17, <1>18, <1>19
        DEF Next, Driver, Device, Submit, Collect

\* IndInv holds in every reachable state of the driver and the device.
THEOREM IndInvHolds == Spec => []IndInv
<1>1. Init => IndInv
  BY InitIndInv
<1>2. IndInv /\ [Next]_vars => IndInv'
  BY NextIndInv
<1> QED BY <1>1, <1>2, PTL DEF Spec

\* Every index virtio.c uses stays in its range: no access past the
\* descriptor table or a ring, and free_count never exceeds N.
THEOREM TypeCorrect == Spec => []TypeOK
<1>1. IndInv => TypeOK
  BY DEF IndInv
<1> QED BY <1>1, IndInvHolds, PTL

\* virtio_queue_alloc and virtio_queue_free neither lose a descriptor nor
\* hand one out twice, for every queue size and any order of completions.
THEOREM DescriptorsSafe == Spec => []DescriptorsAccounted
<1>1. IndInv => DescriptorsAccounted
  BY DEF IndInv, DescriptorsAccounted
<1> QED BY <1>1, IndInvHolds, PTL

\* What virtio_queue_writev wrote of a request stays in the descriptor table
\* until virtio_queue_free gives the request back.
THEOREM ChainsSafe == Spec => []ChainsIntact
<1>1. IndInv => ChainsIntact
  BY DEF IndInv
<1> QED BY <1>1, IndInvHolds, PTL

\* No entry of either ring is overwritten before the other side has read it,
\* and each request is in one place: virtio_queue_send needs no test for a
\* full ring.
THEOREM RequestsSafe == Spec => []RequestsAccounted
<1>1. IndInv => RequestsAccounted
  BY DEF IndInv
<1> QED BY <1>1, IndInvHolds, PTL

\* The notification part: a device that is not running has allowed
\* notifications again, so the flag virtio_queue_send reads after storing
\* the index tells the truth when the device is about to sleep.
NotifyInv == NoLostNotification /\ (dpc # "run" => no_notify = FALSE)

\* A device never sleeps on published requests that it is not told about.
THEOREM NotificationSafe == Spec => []NoLostNotification
<1>1. Init => NotifyInv
  BY DEF Init, NotifyInv, NoLostNotification
<1>2. NotifyInv /\ [Next]_vars => NotifyInv'
  <2> SUFFICES ASSUME NotifyInv, [Next]_vars PROVE NotifyInv'
    OBVIOUS
  <2> USE DEF NotifyInv, NoLostNotification, driverVars, descVars, availVars,
              usedVars, threadVars, devVars, histVars
  <2>1. ASSUME NEW k \in IovCounts, virtio_queue_alloc(k) PROVE NotifyInv'
    BY <2>1 DEF virtio_queue_alloc
  <2>2. ASSUME NEW r \in 0..N, virtio_queue_writev(r) PROVE NotifyInv'
    BY <2>2 DEF virtio_queue_writev
  <2>3. CASE Submit
    BY <2>3 DEF Submit, virtio_queue_send_ring, virtio_queue_send_idx,
                virtio_queue_send_notify
  <2>4. CASE vfio_pci_dev_clear_irq \/ virtio_queue_handle_event \/ virtio_queue_recv
    BY <2>4 DEF vfio_pci_dev_clear_irq, virtio_queue_handle_event, virtio_queue_recv
  <2>5. CASE Collect
    BY <2>5 DEF Collect, FreeElem, KeepElem, virtio_queue_free
  <2>6. ASSUME NEW id \in Desc, FreeHeld(id) PROVE NotifyInv'
    BY <2>6 DEF FreeHeld, virtio_queue_free
  <2>7. CASE DevWake \/ DevPop \/ DevIdle \/ DevRecheck \/ DevInterrupt
    BY <2>7 DEF DevWake, DevPop, DevIdle, DevRecheck, DevInterrupt
  <2>8. ASSUME NEW h \in Desc, DevComplete(h) PROVE NotifyInv'
    BY <2>8 DEF DevComplete
  <2>9. CASE UNCHANGED vars
    BY <2>9 DEF vars
  <2> QED BY <2>1, <2>2, <2>3, <2>4, <2>5, <2>6, <2>7, <2>8, <2>9
          DEF Next, Driver, Device
<1>3. NotifyInv => NoLostNotification
  BY DEF NotifyInv
<1> QED BY <1>1, <1>2, <1>3, PTL DEF Spec

\* Because the callers clear the eventfd before virtio_queue_handle_event
\* loads used->idx, a completion the driver has not seen is still signalled.
THEOREM InterruptSafe == Spec => []NoLostInterrupt
<1>1. Init => NoLostInterrupt
  BY DEF Init, NoLostInterrupt
<1>2. NoLostInterrupt /\ [Next]_vars => NoLostInterrupt'
  <2> SUFFICES ASSUME NoLostInterrupt, [Next]_vars PROVE NoLostInterrupt'
    OBVIOUS
  <2> USE DEF NoLostInterrupt, driverVars, descVars, availVars,
              usedVars, threadVars, devVars, histVars
  <2>1. ASSUME NEW k \in IovCounts, virtio_queue_alloc(k) PROVE NoLostInterrupt'
    BY <2>1 DEF virtio_queue_alloc
  <2>2. ASSUME NEW r \in 0..N, virtio_queue_writev(r) PROVE NoLostInterrupt'
    BY <2>2 DEF virtio_queue_writev
  <2>3. CASE Submit
    BY <2>3 DEF Submit, virtio_queue_send_ring, virtio_queue_send_idx,
                virtio_queue_send_notify
  <2>4. CASE vfio_pci_dev_clear_irq \/ virtio_queue_handle_event \/ virtio_queue_recv
    BY <2>4 DEF vfio_pci_dev_clear_irq, virtio_queue_handle_event, virtio_queue_recv
  <2>5. CASE Collect
    BY <2>5 DEF Collect, FreeElem, KeepElem, virtio_queue_free
  <2>6. ASSUME NEW id \in Desc, FreeHeld(id) PROVE NoLostInterrupt'
    BY <2>6 DEF FreeHeld, virtio_queue_free
  <2>7. CASE DevWake \/ DevPop \/ DevIdle \/ DevRecheck \/ DevInterrupt
    BY <2>7 DEF DevWake, DevPop, DevIdle, DevRecheck, DevInterrupt
  <2>8. ASSUME NEW h \in Desc, DevComplete(h) PROVE NoLostInterrupt'
    BY <2>8 DEF DevComplete
  <2>9. CASE UNCHANGED vars
    BY <2>9 DEF vars
  <2> QED BY <2>1, <2>2, <2>3, <2>4, <2>5, <2>6, <2>7, <2>8, <2>9
          DEF Next, Driver, Device
<1> QED BY <1>1, <1>2, PTL DEF Spec

\* The device never rewrites the used element the driver still looks at
\* through the pointer virtio_queue_recv returned.
LEMMA ElemKept ==
  ASSUME IndInv, [Next]_vars, pc = "recv"
  PROVE  used_ring'[elem] = used_ring[elem]
<1> USE DEF driverVars, descVars, availVars, usedVars, threadVars, devVars, histVars
<1>1. ASSUME NEW h \in Desc, DevComplete(h)
      PROVE  used_ring'[elem] = used_ring[elem]
  <2>1. PICK c \in Counter : /\ next_used = Inc(c) /\ elem = Slot(c)
                             /\ c # used_idx /\ Dist(c, used_idx) <= N
    BY DEF IndInv, RingsOK
  <2>2. h \in inflight
    BY <1>1 DEF DevComplete
  <2>3. Dist(c, used_idx) < N
    BY <2>1, <2>2, UsedRoom
  <2>4. used_idx \in Counter /\ used_ring \in [Desc -> Desc]
    BY DEF IndInv, TypeOK
  <2>5. c \in Window(c, used_idx)
    BY <2>1, <2>4, WindowShrinks
  <2>6. Slot(c) # Slot(used_idx)
    BY <2>3, <2>4, <2>5, SlotFresh
  <2>7. Slot(c) \in Desc /\ Slot(used_idx) \in Desc
    BY <2>4, SlotType
  <2> QED BY <1>1, <2>1, <2>4, <2>6, <2>7 DEF DevComplete
<1>2. CASE UNCHANGED vars
  BY <1>2 DEF vars
<1>3. CASE Driver
  BY <1>3 DEF Driver, Submit, Collect, virtio_queue_alloc, virtio_queue_writev,
              virtio_queue_send_ring, virtio_queue_send_idx, virtio_queue_send_notify,
              vfio_pci_dev_clear_irq, virtio_queue_handle_event, virtio_queue_recv,
              FreeElem, KeepElem, FreeHeld, virtio_queue_free
<1>4. CASE DevWake \/ DevPop \/ DevIdle \/ DevRecheck \/ DevInterrupt
  BY <1>4 DEF DevWake, DevPop, DevIdle, DevRecheck, DevInterrupt
<1> QED BY <1>1, <1>2, <1>3, <1>4 DEF Next, Device

\* The driver may read elem->id and elem->len at leisure after
\* virtio_queue_recv, for every queue size: no step changes them.
THEOREM ElemSafe == Spec => ElemStable
<1>1. IndInv /\ [Next]_vars => [pc = "recv" => used_ring'[elem] = used_ring[elem]]_vars
  BY ElemKept
<1> QED BY <1>1, IndInvHolds, PTL DEF Spec, ElemStable

-----------------------------------------------------------------------------
(* The queue implements the channel.                                       *)

\* Counting modulo W from a index below W never wraps more than once.
LEMMA ModOnce ==
  ASSUME NEW x \in Nat, x < 2 * W
  PROVE  x % W = IF x < W THEN x ELSE x - W
<1> DEFINE q == x \div W
           r == x % W
<1>1. q \in Int /\ r \in 0..W-1 /\ x = W * q + r
  BY Sizes
<1> HIDE DEF q, r
<1>2. CASE q <= -1
  <2>1. W * q <= -W
    BY <1>1, <1>2, Sizes
  <2> QED BY <2>1, <1>1, Sizes
<1>3. CASE q = 0
  BY <1>1, <1>3, Sizes DEF r
<1>4. CASE q = 1
  BY <1>1, <1>4, Sizes DEF r
<1>5. CASE q >= 2
  <2>1. W * q >= 2 * W
    BY <1>1, <1>5, Sizes
  <2> QED BY <2>1, <1>1, Sizes
<1> QED BY <1>1, <1>2, <1>3, <1>4, <1>5

\* The ring index of the i-th entry from index a.
At(a, i) == (a + i - 1) % W

\* The i-th entry of a window is i - 1 steps from its start, and moving the
\* start by one shifts the entries by one.
LEMMA AtFacts ==
  ASSUME NEW a \in Counter, NEW i \in 1..W
  PROVE  /\ At(a, i) \in Counter
         /\ Dist(a, At(a, i)) = i - 1
         /\ At(a, 1) = a
         /\ i < W => At(Inc(a), i) = At(a, i + 1)
<1>1. At(a, i) = IF a + i - 1 < W THEN a + i - 1 ELSE a + i - 1 - W
  BY ModOnce, Sizes DEF At, Counter
<1>2. At(a, 1) = a
  BY ModOnce, Sizes DEF At, Counter
<1>3. ASSUME i < W PROVE At(Inc(a), i) = At(a, i + 1)
  <2>1. At(a, i + 1) = IF a + i < W THEN a + i ELSE a + i - W
    BY <1>3, ModOnce, Sizes DEF At, Counter
  <2>2. Inc(a) \in Counter /\ Inc(a) = IF a = W-1 THEN 0 ELSE a + 1
    BY IncValue
  <2>3. At(Inc(a), i) = IF Inc(a) + i - 1 < W THEN Inc(a) + i - 1 ELSE Inc(a) + i - 1 - W
    BY <2>2, ModOnce, Sizes DEF At, Counter
  <2> QED BY <1>3, <2>1, <2>2, <2>3, Sizes DEF Counter
<1> QED BY <1>1, <1>2, <1>3, Sizes DEF Counter, Dist

\* The entries of a window are a sequence of requests.
LEMMA EntriesType ==
  ASSUME NEW ring \in [Desc -> Desc], NEW a \in Counter, NEW b \in Counter
  PROVE  /\ Entries(ring, a, b) \in Seq(Desc)
         /\ Len(Entries(ring, a, b)) = Dist(a, b)
         /\ \A i \in 1..Dist(a, b) : /\ Entries(ring, a, b)[i] = ring[Slot(At(a, i))]
                                     /\ At(a, i) \in Window(a, b)
<1>1. Dist(a, b) \in Nat /\ Dist(a, b) < W
  BY DistFacts, Sizes DEF Counter
<1>2. ASSUME NEW i \in 1..Dist(a, b)
      PROVE  /\ At(a, i) \in Window(a, b) /\ Slot(At(a, i)) \in Desc
  <2>1. i \in 1..W /\ i - 1 < Dist(a, b)
    BY <1>1, Sizes
  <2>2. At(a, i) \in Counter /\ Dist(a, At(a, i)) = i - 1
    BY <2>1, AtFacts
  <2>3. Slot(At(a, i)) \in Desc
    BY <2>2, SlotType
  <2> QED BY <2>1, <2>2, <2>3 DEF Window
<1>3. Entries(ring, a, b) = [i \in 1..Dist(a, b) |-> ring[Slot(At(a, i))]]
  BY DEF Entries, At
<1>4. Entries(ring, a, b) \in [1..Dist(a, b) -> Desc]
  BY <1>2, <1>3
<1> QED BY <1>1, <1>2, <1>3, <1>4, FunctionIsSeq

\* They are the requests whose ring index is in the window.
LEMMA EntriesElements ==
  ASSUME NEW ring \in [Desc -> Desc], NEW a \in Counter, NEW b \in Counter
  PROVE  Channel!Elements(Entries(ring, a, b)) = {ring[Slot(c)] : c \in Window(a, b)}
<1> DEFINE s == Entries(ring, a, b)
<1>1. s \in Seq(Desc) /\ Len(s) = Dist(a, b) /\ DOMAIN s = 1..Dist(a, b)
  BY EntriesType, LenProperties
<1>2. \A i \in 1..Dist(a, b) : s[i] = ring[Slot(At(a, i))] /\ At(a, i) \in Window(a, b)
  BY EntriesType
<1> HIDE DEF s
<1>3. ASSUME NEW c \in Window(a, b)
      PROVE  \E i \in 1..Dist(a, b) : At(a, i) = c
  <2> DEFINE i == Dist(a, c) + 1
  <2>1. c \in Counter /\ Dist(a, c) < Dist(a, b) /\ Dist(a, b) \in Counter
        /\ Dist(a, c) \in Counter
    BY DistFacts DEF Window
  <2>2. i \in 1..Dist(a, b) /\ i \in 1..W
    BY <2>1, Sizes DEF Counter
  <2>3. At(a, i) \in Counter /\ Dist(a, At(a, i)) = i - 1
    BY <2>2, AtFacts
  <2>4. At(a, i) = c
    BY <2>1, <2>3, Sizes DEF Counter, Dist
  <2> QED BY <2>2, <2>4
<1>4. ASSUME NEW x \in Channel!Elements(s)
      PROVE  x \in {ring[Slot(c)] : c \in Window(a, b)}
  BY <1>1, <1>2 DEF Channel!Elements
<1>5. ASSUME NEW c \in Window(a, b)
      PROVE  ring[Slot(c)] \in Channel!Elements(s)
  BY <1>1, <1>2, <1>3 DEF Channel!Elements
<1> QED BY <1>4, <1>5 DEF s

\* Storing an entry and moving the end over it appends a request.
LEMMA EntriesGrow ==
  ASSUME NEW ring \in [Desc -> Desc], NEW ring2 \in [Desc -> Desc],
         NEW a \in Counter, NEW b \in Counter, Dist(a, b) < W - 1,
         \A c \in Window(a, b) : ring2[Slot(c)] = ring[Slot(c)]
  PROVE  Entries(ring2, a, Inc(b)) = Append(Entries(ring, a, b), ring2[Slot(b)])
<1> DEFINE s == Entries(ring, a, b)
           t == Entries(ring2, a, Inc(b))
           d == Dist(a, b)
           x == ring2[Slot(b)]
<1>1. Inc(b) \in Counter /\ Dist(a, Inc(b)) = d + 1 /\ d \in Counter /\ x \in Desc
  BY IncValue, DistFacts, SlotType
<1>2. s \in Seq(Desc) /\ Len(s) = d
      /\ \A i \in 1..d : s[i] = ring[Slot(At(a, i))] /\ At(a, i) \in Window(a, b)
  BY EntriesType
<1>3. t \in Seq(Desc) /\ Len(t) = d + 1
      /\ \A i \in 1..(d + 1) : t[i] = ring2[Slot(At(a, i))]
  <2>1. /\ t \in Seq(Desc) /\ Len(t) = Dist(a, Inc(b))
        /\ \A i \in 1..Dist(a, Inc(b)) : t[i] = ring2[Slot(At(a, i))]
    BY <1>1, EntriesType
  <2> HIDE DEF t
  <2> QED BY <1>1, <2>1
<1>4. At(a, d + 1) = b
  <2>1. d + 1 \in 1..W
    BY <1>1, Sizes DEF Counter
  <2>2. At(a, d + 1) \in Counter /\ Dist(a, At(a, d + 1)) = d
    BY <1>1, <2>1, AtFacts, Sizes DEF Counter
  <2> QED BY <2>2, Sizes DEF Counter, Dist
<1> HIDE DEF s, t, d, x
<1>5. t[d + 1] = x
  <2>1. d + 1 \in 1..(d + 1)
    BY <1>1, Sizes DEF Counter
  <2> QED BY <1>3, <1>4, <2>1 DEF x
<1>6. \A i \in 1..d : t[i] = s[i]
  <2>1. \A i \in 1..d : i \in 1..(d + 1)
    BY <1>1, Sizes DEF Counter
  <2> QED BY <1>2, <1>3, <2>1
<1>7. /\ Append(s, x) \in Seq(Desc) /\ Len(Append(s, x)) = d + 1
      /\ \A i \in 1..d : Append(s, x)[i] = s[i]
      /\ Append(s, x)[d + 1] = x
  BY <1>1, <1>2, AppendProperties
<1>8. \A i \in 1..(d + 1) : t[i] = Append(s, x)[i]
  <2>1. \A i \in 1..(d + 1) : i \in 1..d \/ i = d + 1
    BY <1>1, Sizes DEF Counter
  <2> QED BY <1>5, <1>6, <1>7, <2>1
<1>9. t = Append(s, x)
  BY <1>3, <1>7, <1>8, SeqEqual
<1> QED BY <1>9 DEF s, t, x

\* Moving the start over an entry takes off the first request.
LEMMA EntriesShrink ==
  ASSUME NEW ring \in [Desc -> Desc], NEW a \in Counter, NEW b \in Counter, a # b
  PROVE  /\ Entries(ring, a, b) # << >>
         /\ Head(Entries(ring, a, b)) = ring[Slot(a)]
         /\ Entries(ring, Inc(a), b) = Tail(Entries(ring, a, b))
<1> DEFINE s == Entries(ring, a, b)
           t == Entries(ring, Inc(a), b)
           d == Dist(a, b)
<1>1. /\ Inc(a) \in Counter /\ Dist(Inc(a), b) = d - 1 /\ d \in Counter /\ d # 0
      /\ At(a, 1) = a
  BY IncValue, DistFacts, AtFacts, Sizes
<1>2. s \in Seq(Desc) /\ Len(s) = d /\ \A i \in 1..d : s[i] = ring[Slot(At(a, i))]
  BY EntriesType
<1>3. t \in Seq(Desc) /\ Len(t) = d - 1
      /\ \A i \in 1..(d - 1) : t[i] = ring[Slot(At(Inc(a), i))]
  <2>1. /\ t \in Seq(Desc) /\ Len(t) = Dist(Inc(a), b)
        /\ \A i \in 1..Dist(Inc(a), b) : t[i] = ring[Slot(At(Inc(a), i))]
    BY <1>1, EntriesType
  <2> HIDE DEF t
  <2> QED BY <1>1, <2>1
<1>4. \A i \in 1..(d - 1) : i + 1 \in 1..d /\ At(Inc(a), i) = At(a, i + 1)
  <2>1. \A i \in 1..(d - 1) : i + 1 \in 1..d /\ i \in 1..W /\ i < W
    BY <1>1, Sizes DEF Counter
  <2> QED BY <2>1, AtFacts
<1> HIDE DEF s, t, d
<1>5. 1 \in 1..d
  BY <1>1, Sizes DEF Counter
<1>6. s # << >>
  BY <1>1, <1>2, EmptySeq
<1>7. Head(s) = ring[Slot(a)]
  BY <1>1, <1>2, <1>5
<1>8. /\ Tail(s) \in Seq(Desc) /\ Len(Tail(s)) = d - 1
      /\ \A i \in 1..(d - 1) : Tail(s)[i] = s[i + 1]
  BY <1>2, <1>6, HeadTailProperties
<1>9. \A i \in 1..(d - 1) : t[i] = Tail(s)[i]
  BY <1>2, <1>3, <1>4, <1>8
<1>10. t = Tail(s)
  BY <1>3, <1>8, <1>9, SeqEqual
<1> QED BY <1>6, <1>7, <1>10 DEF s, t

\* Writing outside the window changes no entry.
LEMMA EntriesKept ==
  ASSUME NEW ring \in [Desc -> Desc], NEW ring2 \in [Desc -> Desc],
         NEW a \in Counter, NEW b \in Counter,
         \A c \in Window(a, b) : ring2[Slot(c)] = ring[Slot(c)]
  PROVE  Entries(ring2, a, b) = Entries(ring, a, b)
<1> DEFINE s == Entries(ring, a, b)
           t == Entries(ring2, a, b)
<1>1. s \in Seq(Desc) /\ Len(s) = Dist(a, b)
      /\ \A i \in 1..Dist(a, b) : s[i] = ring[Slot(At(a, i))] /\ At(a, i) \in Window(a, b)
  BY EntriesType
<1>2. t \in Seq(Desc) /\ Len(t) = Dist(a, b)
      /\ \A i \in 1..Dist(a, b) : t[i] = ring2[Slot(At(a, i))]
  BY EntriesType
<1> HIDE DEF s, t
<1>3. \A i \in 1..Len(s) : s[i] = t[i]
  BY <1>1, <1>2
<1>4. s = t
  BY <1>1, <1>2, <1>3, SeqEqual
<1> QED BY <1>4 DEF s, t

\* What the channel's variables stand for.
Submitted == Entries(avail_ring, last_avail, avail_idx)
Completed == Entries(used_ring, next_used, used_idx)
Received  == ElemHeads \cup held

\* The requests of the channel are those the queue has a place for.
LEMMA ChannelBusy ==
  ASSUME IndInv
  PROVE  Channel!Busy = AvailHeads \cup inflight \cup UsedHeads \cup Received
<1>1. /\ avail_ring \in [Desc -> Desc] /\ used_ring \in [Desc -> Desc]
      /\ last_avail \in Counter /\ avail_idx \in Counter
      /\ next_used \in Counter /\ used_idx \in Counter
  BY DEF IndInv, TypeOK
<1>2. Channel!Elements(Submitted) = AvailHeads
  BY <1>1, EntriesElements DEF Submitted, AvailHeads, AvailWindow
<1>3. Channel!Elements(Completed) = UsedHeads
  BY <1>1, EntriesElements DEF Completed, UsedHeads, UsedWindow
<1> QED BY <1>2, <1>3 DEF Channel!Busy, Submitted, Completed, Received

\* Storing avail->idx sends the request, which is nowhere else.
LEMMA SendIdxSends ==
  ASSUME IndInv, virtio_queue_send_idx
  PROVE  \E r \in Desc : Channel!Send(r)
<1> USE DEF virtio_queue_send_idx, driverVars, descVars, usedVars, devVars
<1>1. /\ avail_ring \in [Desc -> Desc] /\ first \in Desc
      /\ last_avail \in Counter /\ avail_idx \in Counter
  BY DEF IndInv, TypeOK
<1>2. place[first] = "built"
  BY <1>1 DEF IndInv, RequestsAccounted, BuiltHeads
<1>3. first \notin Channel!Busy
  <2>1. first \notin AvailHeads \cup inflight \cup UsedHeads \cup Received
    BY <1>1, <1>2 DEF IndInv, RequestsAccounted, Received
  <2> QED BY <2>1, ChannelBusy
<1>4. Submitted' = Append(Submitted, first)
  <2>1. avail_idx' = Inc(avail_idx) /\ avail_ring[Slot(avail_idx)] = first
        /\ avail_ring' = avail_ring /\ last_avail' = last_avail
    BY DEF IndInv, RingsOK
  <2>2. Dist(last_avail, avail_idx) < W - 1
    BY <1>1, AvailRoom, DistFacts, Sizes DEF Counter
  <2>3. Entries(avail_ring, last_avail, Inc(avail_idx))
          = Append(Entries(avail_ring, last_avail, avail_idx), avail_ring[Slot(avail_idx)])
    BY <1>1, <2>2, EntriesGrow
  <2> QED BY <2>1, <2>3 DEF Submitted
<1>5. inflight' = inflight /\ Completed' = Completed /\ Received' = Received
  BY DEF Completed, Received, ElemHeads
<1> QED BY <1>1, <1>3, <1>4, <1>5 DEF Channel!Send, Submitted, Completed, Received

\* The device takes the request that was sent first.
LEMMA DevPopTakes ==
  ASSUME IndInv, DevPop
  PROVE  Channel!Take
<1> USE DEF DevPop, driverVars, descVars, availVars, usedVars, threadVars
<1>1. /\ avail_ring \in [Desc -> Desc] /\ last_avail # avail_idx
      /\ last_avail \in Counter /\ avail_idx \in Counter
  BY DEF IndInv, TypeOK
<1>2. /\ Submitted # << >>
      /\ Head(Submitted) = avail_ring[Slot(last_avail)]
      /\ Entries(avail_ring, Inc(last_avail), avail_idx) = Tail(Submitted)
  BY <1>1, EntriesShrink DEF Submitted
<1>3. Submitted' = Tail(Submitted)
  <2>1. last_avail' = Inc(last_avail) /\ avail_ring' = avail_ring /\ avail_idx' = avail_idx
    OBVIOUS
  <2>2. Submitted' = Entries(avail_ring, Inc(last_avail), avail_idx)
    BY <2>1 DEF Submitted
  <2> QED BY <1>2, <2>2
<1>4. inflight' = inflight \cup {Head(Submitted)}
  BY <1>2
<1>5. Completed' = Completed /\ Received' = Received
  BY DEF Completed, Received, ElemHeads
<1> QED BY <1>2, <1>3, <1>4, <1>5 DEF Channel!Take, Submitted, Completed, Received

\* Writing a used element and storing used->idx is the answer.
LEMMA DevCompleteAnswers ==
  ASSUME IndInv, NEW h \in Desc, DevComplete(h)
  PROVE  Channel!Answer(h)
<1> USE DEF DevComplete, driverVars, descVars, availVars, threadVars
<1>1. /\ used_ring \in [Desc -> Desc] /\ next_used \in Counter /\ used_idx \in Counter
      /\ Slot(used_idx) \in Desc /\ h \in inflight
  BY SlotType DEF IndInv, TypeOK
<1>2. Dist(next_used, used_idx) < N /\ Dist(next_used, used_idx) < W - 1
  BY <1>1, UsedRoom, DistFacts, Sizes DEF Counter
<1>3. PICK r2 : r2 = [used_ring EXCEPT ![Slot(used_idx)] = h]
  OBVIOUS
<1>4. /\ r2 \in [Desc -> Desc] /\ r2[Slot(used_idx)] = h
      /\ \A c \in Window(next_used, used_idx) : r2[Slot(c)] = used_ring[Slot(c)]
  <2>1. \A c \in Window(next_used, used_idx) : Slot(c) # Slot(used_idx) /\ Slot(c) \in Desc
    BY <1>1, <1>2, SlotFresh, SlotType, WindowType
  <2> QED BY <1>1, <1>3, <2>1
<1>5. Entries(r2, next_used, Inc(used_idx)) = Append(Completed, h)
  BY <1>1, <1>2, <1>4, EntriesGrow DEF Completed
<1>6. Completed' = Append(Completed, h)
  <2>1. used_ring' = r2 /\ used_idx' = Inc(used_idx) /\ next_used' = next_used
    BY <1>3
  <2>2. Completed' = Entries(r2, next_used, Inc(used_idx))
    BY <2>1 DEF Completed
  <2> QED BY <1>5, <2>2
<1>7. Submitted' = Submitted
  BY DEF Submitted
<1>8. Received' = Received
  <2>1. pc' = pc /\ held' = held /\ elem' = elem
    OBVIOUS
  <2>2. pc = "recv" => used_ring'[elem] = used_ring[elem]
    BY ElemKept DEF Next, Device
  <2> QED BY <2>1, <2>2 DEF Received, ElemHeads
<1> QED BY <1>1, <1>6, <1>7, <1>8 DEF Channel!Answer, Submitted, Completed, Received

\* virtio_queue_recv receives the answer that was given first.
LEMMA RecvReceives ==
  ASSUME IndInv, virtio_queue_recv
  PROVE  Channel!Receive
<1> USE DEF virtio_queue_recv, descVars, availVars, usedVars, devVars
<1>1. /\ used_ring \in [Desc -> Desc]
      /\ next_used \in Counter /\ used_idx \in Counter /\ used_index \in Counter
  BY DEF IndInv, TypeOK
<1>2. next_used # used_idx
  <2>1. /\ Dist(next_used, used_index) \in Counter /\ Dist(next_used, used_index) # 0
        /\ Dist(next_used, used_idx) \in Counter
        /\ Dist(next_used, used_index) <= Dist(next_used, used_idx)
    BY <1>1, DistFacts DEF IndInv, RingsOK
  <2>2. Dist(next_used, used_idx) # 0
    BY <2>1, Sizes DEF Counter
  <2> QED BY <1>1, <2>2, DistFacts
<1>3. /\ Completed # << >>
      /\ Head(Completed) = used_ring[Slot(next_used)]
      /\ Entries(used_ring, Inc(next_used), used_idx) = Tail(Completed)
  BY <1>1, <1>2, EntriesShrink DEF Completed
<1>4. Completed' = Tail(Completed)
  <2>1. next_used' = Inc(next_used) /\ used_ring' = used_ring /\ used_idx' = used_idx
    OBVIOUS
  <2>2. Completed' = Entries(used_ring, Inc(next_used), used_idx)
    BY <2>1 DEF Completed
  <2> QED BY <1>3, <2>2
<1>5. Received' = Received \cup {Head(Completed)}
  BY <1>3 DEF Received, ElemHeads
<1>6. Submitted' = Submitted /\ inflight' = inflight
  BY DEF Submitted
<1> QED BY <1>3, <1>4, <1>5, <1>6 DEF Channel!Receive, Submitted, Completed, Received

\* virtio_queue_free releases a request that was received.
LEMMA FreeElemReleases ==
  ASSUME IndInv, FreeElem
  PROVE  \E r \in Desc : Channel!Release(r)
<1> USE DEF FreeElem, virtio_queue_free, availVars, usedVars, devVars
<1> DEFINE r == used_ring[elem]
<1>1. r \in Desc /\ ElemHeads = {r} /\ ElemHeads' = {}
  BY DEF IndInv, TypeOK, ElemHeads
<1>2. place[r] = "elem" /\ r \notin held
  BY <1>1 DEF IndInv, RequestsAccounted
<1>3. held' = held
  OBVIOUS
<1> HIDE DEF r
<1>4. Received' = Received \ {r} /\ r \in Received
  BY <1>1, <1>2, <1>3 DEF Received
<1>5. Submitted' = Submitted /\ Completed' = Completed /\ inflight' = inflight
  BY DEF Submitted, Completed
<1> QED BY <1>1, <1>4, <1>5 DEF Channel!Release, Submitted, Completed, Received

\* So does freeing the request that virtio_gpu_wait kept.
LEMMA FreeHeldReleases ==
  ASSUME IndInv, NEW id \in Desc, FreeHeld(id)
  PROVE  Channel!Release(id)
<1> USE DEF FreeHeld, virtio_queue_free, availVars, usedVars, devVars
<1>1. ElemHeads = {} /\ ElemHeads' = {}
  BY DEF ElemHeads
<1>2. Received' = Received \ {id} /\ id \in Received
  BY <1>1 DEF Received
<1>3. Submitted' = Submitted /\ Completed' = Completed /\ inflight' = inflight
  BY DEF Submitted, Completed
<1> QED BY <1>2, <1>3 DEF Channel!Release, Submitted, Completed, Received

\* The first part of virtio_queue_send writes where nobody reads yet.
LEMMA SendRingStutters ==
  ASSUME IndInv, virtio_queue_send_ring
  PROVE  UNCHANGED Channel!vars
<1> USE DEF virtio_queue_send_ring, descVars, usedVars, devVars, histVars
<1>1. /\ next_avail = avail_idx /\ avail_idx \in Counter /\ last_avail \in Counter
      /\ avail_ring \in [Desc -> Desc] /\ first \in Desc
  BY DEF IndInv, RingsOK, TypeOK
<1>2. PICK r2 : r2 = [avail_ring EXCEPT ![Slot(avail_idx)] = first]
  OBVIOUS
<1>3. /\ r2 \in [Desc -> Desc]
      /\ \A c \in Window(last_avail, avail_idx) : r2[Slot(c)] = avail_ring[Slot(c)]
  <2>1. \A c \in Window(last_avail, avail_idx) : Slot(c) \in Desc /\ Slot(c) # Slot(avail_idx)
    BY <1>1, AvailRoom, SlotFresh, SlotType, WindowType
  <2> QED BY <1>1, <1>2, <2>1
<1>4. Entries(r2, last_avail, avail_idx) = Submitted
  BY <1>1, <1>3, EntriesKept DEF Submitted
<1>5. Submitted' = Submitted
  <2>1. avail_ring' = r2 /\ last_avail' = last_avail /\ avail_idx' = avail_idx
    BY <1>1, <1>2
  <2>2. Submitted' = Entries(r2, last_avail, avail_idx)
    BY <2>1 DEF Submitted
  <2> QED BY <1>4, <2>2
<1>6. Completed' = Completed /\ Received' = Received /\ inflight' = inflight
  BY DEF Completed, Received, ElemHeads
<1> QED BY <1>5, <1>6 DEF Channel!vars, Submitted, Completed, Received

\* Keeping the id of a received request does not release it.
LEMMA KeepElemStutters ==
  ASSUME IndInv, KeepElem
  PROVE  UNCHANGED Channel!vars
<1> USE DEF KeepElem, driverVars, descVars, availVars, usedVars, devVars
<1>1. Received' = Received
  BY DEF Received, ElemHeads
<1>2. Submitted' = Submitted /\ Completed' = Completed /\ inflight' = inflight
  BY DEF Submitted, Completed
<1> QED BY <1>1, <1>2 DEF Channel!vars, Submitted, Completed, Received

\* The queue is a channel, for every size of the rings and every width of the
\* indices: virtio_queue_send hands each request to the device once and in
\* order, virtio_queue_recv returns each completion once and in order, and a
\* descriptor chain is sent again only after virtio_queue_free.
THEOREM ChannelImplemented == Spec => ImplementsChannel
<1>1. Init => Channel!Init
  <2> SUFFICES ASSUME Init PROVE Channel!Init
    OBVIOUS
  <2>1. 0 \in Counter /\ Dist(0, 0) = 0
    BY Sizes DEF Counter, Dist
  <2>2. \A ring : Entries(ring, 0, 0) = << >>
    BY <2>1 DEF Entries
  <2>3. ElemHeads \cup held = {}
    BY DEF Init, ElemHeads
  <2> QED BY <2>2, <2>3 DEF Init, Channel!Init
<1>2. IndInv /\ [Next]_vars => [Channel!Next]_(Channel!vars)
  <2> SUFFICES ASSUME IndInv, [Next]_vars PROVE Channel!Next \/ UNCHANGED Channel!vars
    OBVIOUS
  <2> USE DEF driverVars, descVars, availVars, usedVars, threadVars, devVars, histVars
  <2>1. ASSUME UNCHANGED <<availVars, used_ring, used_idx, next_used, elem, held,
                           last_avail, inflight>>,
               pc' # "recv", pc # "recv" \/ pc' = pc
        PROVE  UNCHANGED Channel!vars
    BY <2>1 DEF Channel!vars, ElemHeads
  <2>2. ASSUME UNCHANGED <<availVars, used_ring, used_idx, next_used, elem, held,
                           last_avail, inflight, pc>>
        PROVE  UNCHANGED Channel!vars
    BY <2>2 DEF Channel!vars, ElemHeads
  <2>3. ASSUME NEW k \in IovCounts, virtio_queue_alloc(k) PROVE UNCHANGED Channel!vars
    BY <2>1, <2>3 DEF virtio_queue_alloc
  <2>4. ASSUME NEW r \in 0..N, virtio_queue_writev(r) PROVE UNCHANGED Channel!vars
    BY <2>1, <2>4 DEF virtio_queue_writev
  <2>5. CASE virtio_queue_send_ring
    BY <2>5, SendRingStutters
  <2>6. CASE virtio_queue_send_idx
    BY <2>6, SendIdxSends DEF Channel!Next
  <2>7. CASE virtio_queue_send_notify \/ vfio_pci_dev_clear_irq \/ virtio_queue_handle_event
    BY <2>1, <2>7 DEF virtio_queue_send_notify, vfio_pci_dev_clear_irq, virtio_queue_handle_event
  <2>8. CASE virtio_queue_recv
    BY <2>8, RecvReceives DEF Channel!Next
  <2>9. CASE FreeElem
    BY <2>9, FreeElemReleases DEF Channel!Next
  <2>10. CASE KeepElem
    BY <2>10, KeepElemStutters
  <2>11. ASSUME NEW id \in Desc, FreeHeld(id) PROVE Channel!Next
    BY <2>11, FreeHeldReleases DEF Channel!Next
  <2>12. CASE DevPop
    BY <2>12, DevPopTakes DEF Channel!Next
  <2>13. CASE DevWake \/ DevIdle \/ DevRecheck \/ DevInterrupt
    BY <2>2, <2>13 DEF DevWake, DevIdle, DevRecheck, DevInterrupt
  <2>14. ASSUME NEW h \in Desc, DevComplete(h) PROVE Channel!Next
    BY <2>14, DevCompleteAnswers DEF Channel!Next
  <2>15. CASE UNCHANGED vars
    BY <2>2, <2>15 DEF vars
  <2> QED BY <2>3, <2>4, <2>5, <2>6, <2>7, <2>8, <2>9, <2>10, <2>11, <2>12,
             <2>13, <2>14, <2>15
          DEF Next, Driver, Device, Submit, Collect
<1> QED BY <1>1, <1>2, IndInvHolds, PTL DEF Spec, ImplementsChannel, Channel!Spec

=============================================================================
