------------------------------ MODULE Virtqueue ------------------------------
(***************************************************************************)
(* The split virtqueue of code/virtio.c: the descriptor free list, the     *)
(* available and the used ring, and the two notifications (the notify      *)
(* register towards the device, the MSI-X eventfd towards the driver).     *)
(*                                                                         *)
(* The driver is one thread: it calls virtio_queue_alloc, _writev, _send   *)
(* in this order for a request, and vfio_pci_dev_clear_irq,                *)
(* virtio_queue_handle_event, _recv, _free for completions.  pc says where *)
(* that thread is.  The device runs concurrently on the same memory; it is *)
(* external, and may complete what it took in any order.                   *)
(***************************************************************************)
EXTENDS Integers, Sequences, FiniteSets

CONSTANTS N,      \* vring.num, the number of descriptors and of ring slots
          W,      \* the ring indices are counted modulo W (uint16_t: 2^16)
          Shapes  \* the pairs <<iovcnt, readcnt>> the callers use

\* queue_size is at most 2^15 and a power of two in a split virtqueue, so
\* that slot numbers stay continuous when an index wraps around.
ASSUME SizeAssumption ==
  /\ N \in Nat \ {0}
  /\ W \in Nat /\ W > N /\ W % N = 0
  /\ Shapes \subseteq {s \in (1..N) \X (0..N) : s[2] <= s[1]}

Desc    == 0 .. N-1
Link    == 0 .. N      \* N ends the free list: desc[N-1].next = N at start
Counter == 0 .. W-1

IovCounts == {s[1] : s \in Shapes}

VARIABLES
  \* struct virtio_queue, private to the driver
  free_head, free_count, next_avail, next_used, used_index,
  \* the descriptor table: desc[].next and two bits of desc[].flags
  next, f_next, f_write,
  \* the available ring, written by the driver
  avail_ring, avail_idx,
  \* the used ring, written by the device
  used_ring, used_idx, no_notify,
  \* the driver thread: where it is, the request being built, the element
  \* virtio_queue_recv returned (a pointer into the used ring, hence a
  \* slot), and the ids of completed requests it still has to free; a
  \* local variable that is out of scope is 0
  pc, first, iovcnt, elem, held,
  \* notifications under way: the notify register, the eventfd
  kick, irq,
  \* the device: next available entry, requests taken, its notification
  \* state, and an interrupt it still has to raise
  last_avail, inflight, dpc, raise,
  \* history, never read by an action's guard: the free list, the chain of
  \* each outstanding request, how many of its buffers are read-only, and
  \* where a request is on its way
  free, chain, rcnt, place

driverVars == <<free_head, free_count, next_avail, next_used, used_index>>
descVars   == <<next, f_next, f_write>>
availVars  == <<avail_ring, avail_idx>>
usedVars   == <<used_ring, used_idx, no_notify>>
threadVars == <<pc, first, iovcnt, elem, held>>
devVars    == <<last_avail, inflight, dpc, raise>>
histVars   == <<free, chain, rcnt, place>>

vars == <<driverVars, descVars, availVars, usedVars, threadVars, kick, irq,
          devVars, histVars>>

Places == {"free", "built", "avail", "device", "used", "elem", "held"}

Moves(h, to) == place' = [place EXCEPT ![h] = to]

-----------------------------------------------------------------------------
\* Mutant of Slot: the mask is one too small.
Slot_ShortMask(c) == c % (N - 1)

\* ++ on a ring index, and the ring slot of an index.
Inc(c)  == (c + 1) % W
Slot(c) == c % N

Init ==
  /\ free_head = 0 /\ free_count = N
  /\ next_avail = 0 /\ next_used = 0 /\ used_index = 0
  /\ next = [d \in Desc |-> d + 1]
  /\ f_next = [d \in Desc |-> TRUE]
  /\ f_write = [d \in Desc |-> FALSE]
  /\ avail_ring = [s \in Desc |-> 0] /\ avail_idx = 0
  /\ used_ring = [s \in Desc |-> 0] /\ used_idx = 0 /\ no_notify = FALSE
  /\ pc = "idle" /\ first = 0 /\ iovcnt = 0 /\ elem = 0 /\ held = {}
  /\ kick = FALSE /\ irq = FALSE
  /\ last_avail = 0 /\ inflight = {} /\ dpc = "sleep" /\ raise = FALSE
  /\ free = [i \in 1..N |-> i - 1]
  /\ chain = [d \in Desc |-> << >>]
  /\ rcnt = [d \in Desc |-> 0]
  /\ place = [d \in Desc |-> "free"]

\* Following desc[].next from index d visits p[1], ..., p[n].
Visits(p, n, d) ==
  /\ p[1] = d
  /\ \A i \in 1..(n-1) : p[i+1] = next[p[i]]

-----------------------------------------------------------------------------
(* Mutated forms of the actions below.  No specification uses them: each   *)
(* one is a slip that a property must notice.                              *)

\* WRITE is set where it is needed and never cleared: flags |= instead of =.
virtio_queue_writev_StaleFlags(r) ==
  /\ pc = "alloc" /\ <<iovcnt, r>> \in Shapes
  /\ \E p \in [1..iovcnt -> Desc] :
       /\ Visits(p, iovcnt, first)
       /\ f_write' = [d \in Desc |-> f_write[d] \/ \E i \in (r+1)..iovcnt : p[i] = d]
       /\ f_next' = [f_next EXCEPT ![p[iovcnt]] = ~ @]
  /\ pc' = "written" /\ rcnt' = [rcnt EXCEPT ![first] = r]
  /\ UNCHANGED <<driverVars, next, availVars, usedVars, first, iovcnt, elem,
                 held, kick, irq, devVars, free, chain, place>>

\* The index is incremented before the slot is written.
virtio_queue_send_ring_PreIncrement ==
  /\ pc = "written"
  /\ avail_ring' = [avail_ring EXCEPT ![Slot(Inc(next_avail))] = first]
  /\ next_avail' = Inc(next_avail) /\ pc' = "ring"
  /\ UNCHANGED <<free_head, free_count, next_used, used_index, descVars,
                 avail_idx, usedVars, first, iovcnt, elem, held, kick, irq,
                 devVars, histVars>>

\* The test of the NO_NOTIFY flag is inverted.
virtio_queue_send_notify_Inverted ==
  /\ pc = "notify"
  /\ kick' = (kick \/ no_notify)
  /\ pc' = "idle" /\ first' = 0 /\ iovcnt' = 0
  /\ UNCHANGED <<driverVars, descVars, availVars, usedVars, elem, held, irq,
                 devVars, histVars>>

\* The eventfd is cleared after used->idx has been loaded.
virtio_queue_handle_event_ClearsLate ==
  /\ pc = "event"
  /\ used_index' \in {used_index, used_idx}
  /\ irq' = FALSE /\ pc' = "idle"
  /\ UNCHANGED <<free_head, free_count, next_avail, next_used, descVars,
                 availVars, usedVars, first, iovcnt, elem, held, kick,
                 devVars, histVars>>

\* The test for an empty ring is missing.
virtio_queue_recv_Unguarded ==
  /\ pc = "idle"
  /\ elem' = Slot(next_used)
  /\ next_used' = Inc(next_used) /\ pc' = "recv"
  /\ Moves(used_ring[Slot(next_used)], "elem")
  /\ UNCHANGED <<free_head, free_count, next_avail, used_index, descVars,
                 availVars, usedVars, first, iovcnt, held, kick, irq,
                 devVars, free, chain, rcnt>>

\* One element per event: the index catches up at once.
virtio_queue_recv_SkipsRest ==
  /\ pc = "idle" /\ next_used # used_index
  /\ elem' = Slot(next_used)
  /\ next_used' = used_index /\ pc' = "recv"
  /\ Moves(used_ring[Slot(next_used)], "elem")
  /\ UNCHANGED <<free_head, free_count, next_avail, used_index, descVars,
                 availVars, usedVars, first, iovcnt, held, kick, irq,
                 devVars, free, chain, rcnt>>

\* The NEXT flag of the last descriptor is not restored.
virtio_queue_free_LeavesEnd(index) ==
  /\ \E n \in 1..N : \E p \in [1..n -> Desc] :
       /\ Visits(p, n, index)
       /\ \A i \in 1..(n-1) : f_next[p[i]]
       /\ ~ f_next[p[n]]
       /\ free_count' = free_count + n
       /\ next' = [next EXCEPT ![p[n]] = free_head]
  /\ f_next' = f_next
  /\ free_head' = index /\ free' = chain[index] \o free
  /\ chain' = [chain EXCEPT ![index] = << >>]
  /\ rcnt' = [rcnt EXCEPT ![index] = 0] /\ Moves(index, "free")
  /\ UNCHANGED <<next_avail, next_used, used_index, f_write, availVars,
                 usedVars, first, iovcnt, kick, irq, devVars>>

-----------------------------------------------------------------------------
(* The driver thread: submitting a request.                                *)

\* The loop pops k descriptors off the free list.  With free_count < k the
\* call returns -1 and changes nothing, which is a stuttering step.
virtio_queue_alloc(k) ==
  /\ pc = "idle"
  /\ free_count >= k
  /\ \E p \in [1..k -> Desc] :
       /\ Visits(p, k, free_head)
       /\ free_head' = next[p[k]]
  /\ free_count' = free_count - k
  /\ first' = free_head
  /\ iovcnt' = k
  /\ pc' = "alloc"
  /\ free' = [i \in 1..(Len(free) - k) |-> free[i + k]]
  /\ chain' = [chain EXCEPT ![free_head] = [i \in 1..k |-> free[i]]]
  /\ Moves(free_head, "built")
  /\ UNCHANGED <<next_avail, next_used, used_index, descVars, availVars,
                 usedVars, elem, held, kick, irq, devVars, rcnt>>

\* Only the flags of the buffers are kept: their addresses and lengths are
\* the caller's.  The device must not write the first r of them.
virtio_queue_writev(r) ==
  /\ pc = "alloc"
  /\ <<iovcnt, r>> \in Shapes
  /\ \E p \in [1..iovcnt -> Desc] :
       /\ Visits(p, iovcnt, first)
       /\ f_write' = [d \in Desc |->
            IF \E i \in 1..iovcnt : p[i] = d
            THEN \E i \in (r+1)..iovcnt : p[i] = d
            ELSE f_write[d]]
       /\ f_next' = [f_next EXCEPT ![p[iovcnt]] = ~ @]
  /\ pc' = "written"
  /\ rcnt' = [rcnt EXCEPT ![first] = r]
  /\ UNCHANGED <<driverVars, next, availVars, usedVars, first, iovcnt, elem,
                 held, kick, irq, devVars, free, chain, place>>

\* virtio_queue_send, in the three steps the device can tell apart.
virtio_queue_send_ring ==
  /\ pc = "written"
  /\ avail_ring' = [avail_ring EXCEPT ![Slot(next_avail)] = first]
  /\ next_avail' = Inc(next_avail)
  /\ pc' = "ring"
  /\ UNCHANGED <<free_head, free_count, next_used, used_index, descVars,
                 avail_idx, usedVars, first, iovcnt, elem, held, kick, irq,
                 devVars, histVars>>

virtio_queue_send_idx ==
  /\ pc = "ring"
  /\ avail_idx' = next_avail
  /\ pc' = "notify"
  /\ Moves(first, "avail")
  /\ UNCHANGED <<driverVars, descVars, avail_ring, usedVars, first, iovcnt,
                 elem, held, kick, irq, devVars, free, chain, rcnt>>

\* After the fence: read used->flags, notify unless it is suppressed.
virtio_queue_send_notify ==
  /\ pc = "notify"
  /\ kick' = (kick \/ ~ no_notify)
  /\ pc' = "idle" /\ first' = 0 /\ iovcnt' = 0
  /\ UNCHANGED <<driverVars, descVars, availVars, usedVars, elem, held, irq,
                 devVars, histVars>>

-----------------------------------------------------------------------------
(* The driver thread: collecting completions.                              *)

\* read() of the eventfd: blocks until the device has signalled, then
\* resets the counter.  Every caller calls virtio_queue_handle_event next.
vfio_pci_dev_clear_irq ==
  /\ pc = "idle"
  /\ irq
  /\ irq' = FALSE
  /\ pc' = "event"
  /\ UNCHANGED <<driverVars, descVars, availVars, usedVars, first, iovcnt,
                 elem, held, kick, devVars, histVars>>

virtio_queue_handle_event ==
  /\ pc = "event"
  /\ used_index' = used_idx
  /\ pc' = "idle"
  /\ UNCHANGED <<free_head, free_count, next_avail, next_used, descVars,
                 availVars, usedVars, first, iovcnt, elem, held, kick, irq,
                 devVars, histVars>>

\* With next_used = used_index the call returns NULL and changes nothing.
virtio_queue_recv ==
  /\ pc = "idle"
  /\ next_used # used_index
  /\ elem' = Slot(next_used)
  /\ next_used' = Inc(next_used)
  /\ pc' = "recv"
  /\ Moves(used_ring[Slot(next_used)], "elem")
  /\ UNCHANGED <<free_head, free_count, next_avail, used_index, descVars,
                 availVars, usedVars, first, iovcnt, held, kick, irq,
                 devVars, free, chain, rcnt>>

\* The walk ends at the first descriptor without NEXT, the n-th.
virtio_queue_free(index) ==
  /\ \E n \in 1..N : \E p \in [1..n -> Desc] :
       /\ Visits(p, n, index)
       /\ \A i \in 1..(n-1) : f_next[p[i]]
       /\ ~ f_next[p[n]]
       /\ free_count' = free_count + n
       /\ next' = [next EXCEPT ![p[n]] = free_head]
       /\ f_next' = [f_next EXCEPT ![p[n]] = TRUE]
  /\ free_head' = index
  /\ free' = chain[index] \o free
  /\ chain' = [chain EXCEPT ![index] = << >>]
  /\ rcnt' = [rcnt EXCEPT ![index] = 0]
  /\ Moves(index, "free")
  /\ UNCHANGED <<next_avail, next_used, used_index, f_write, availVars,
                 usedVars, first, iovcnt, kick, irq, devVars>>

\* The caller reads elem->id from the ring and frees the request ...
FreeElem ==
  /\ pc = "recv"
  /\ virtio_queue_free(used_ring[elem])
  /\ pc' = "idle" /\ elem' = 0
  /\ UNCHANGED held

\* ... or it is the one virtio_gpu_wait looks for, and its id is kept
KeepElem ==
  /\ pc = "recv"
  /\ held' = held \cup {used_ring[elem]}
  /\ Moves(used_ring[elem], "held")
  /\ pc' = "idle" /\ elem' = 0
  /\ UNCHANGED <<driverVars, descVars, availVars, usedVars, first, iovcnt,
                 kick, irq, devVars, free, chain, rcnt>>

\* until the caller has read the response.
FreeHeld(id) ==
  /\ pc = "idle"
  /\ id \in held
  /\ virtio_queue_free(id)
  /\ held' = held \ {id}
  /\ UNCHANGED <<pc, elem>>

-----------------------------------------------------------------------------
(* The device (external).  It sleeps until it is notified, may suppress    *)
(* notifications while it runs, and looks at the available ring once more  *)
(* after it has allowed them again.                                        *)

DevWake ==
  /\ dpc = "sleep" /\ kick
  /\ kick' = FALSE
  /\ no_notify' \in BOOLEAN
  /\ dpc' = "run"
  /\ UNCHANGED <<driverVars, descVars, availVars, used_ring, used_idx,
                 threadVars, irq, last_avail, inflight, raise, histVars>>

DevPop ==
  /\ dpc = "run" /\ last_avail # avail_idx
  /\ inflight' = inflight \cup {avail_ring[Slot(last_avail)]}
  /\ last_avail' = Inc(last_avail)
  /\ Moves(avail_ring[Slot(last_avail)], "device")
  /\ UNCHANGED <<driverVars, descVars, availVars, usedVars, threadVars,
                 kick, irq, dpc, raise, free, chain, rcnt>>

DevIdle ==
  /\ dpc = "run" /\ last_avail = avail_idx
  /\ no_notify' = FALSE
  /\ dpc' = "recheck"
  /\ UNCHANGED <<driverVars, descVars, availVars, used_ring, used_idx,
                 threadVars, kick, irq, last_avail, inflight, raise,
                 histVars>>

DevRecheck ==
  /\ dpc = "recheck"
  /\ dpc' = IF last_avail # avail_idx THEN "run" ELSE "sleep"
  /\ UNCHANGED <<driverVars, descVars, availVars, usedVars, threadVars,
                 kick, irq, last_avail, inflight, raise, histVars>>

DevComplete(h) ==
  /\ h \in inflight
  /\ inflight' = inflight \ {h}
  /\ used_ring' = [used_ring EXCEPT ![Slot(used_idx)] = h]
  /\ used_idx' = Inc(used_idx)
  /\ raise' = TRUE
  /\ Moves(h, "used")
  /\ UNCHANGED <<driverVars, descVars, availVars, no_notify, threadVars,
                 kick, irq, last_avail, dpc, free, chain, rcnt>>

\* avail->flags is never set by the driver: every completion interrupts.
DevInterrupt ==
  /\ raise
  /\ raise' = FALSE
  /\ irq' = TRUE
  /\ UNCHANGED <<driverVars, descVars, availVars, usedVars, threadVars,
                 kick, last_avail, inflight, dpc, histVars>>

-----------------------------------------------------------------------------
Submit  == virtio_queue_send_ring \/ virtio_queue_send_idx
             \/ virtio_queue_send_notify
Collect == FreeElem \/ KeepElem

Driver ==
  \/ \E k \in IovCounts : virtio_queue_alloc(k)
  \/ \E r \in 0..N : virtio_queue_writev(r)
  \/ Submit
  \/ vfio_pci_dev_clear_irq
  \/ virtio_queue_handle_event
  \/ virtio_queue_recv
  \/ Collect
  \/ \E id \in Desc : FreeHeld(id)

Device ==
  \/ DevWake \/ DevPop \/ DevIdle \/ DevRecheck \/ DevInterrupt
  \/ \E h \in Desc : DevComplete(h)

Next == Driver \/ Device

Spec == Init /\ [][Next]_vars

\* The driver thread never stops in the middle of a call, its event loop
\* collects what the device signals, and the device serves what it is given.
\* Nothing makes the driver submit another request.
Fairness ==
  /\ WF_vars(\E r \in 0..N : virtio_queue_writev(r))
  /\ WF_vars(Submit)
  /\ WF_vars(vfio_pci_dev_clear_irq)
  /\ WF_vars(virtio_queue_handle_event)
  /\ WF_vars(virtio_queue_recv)
  /\ WF_vars(Collect)
  /\ WF_vars(\E id \in Desc : FreeHeld(id))
  /\ WF_vars(DevWake) /\ WF_vars(DevPop) /\ WF_vars(DevIdle)
  /\ WF_vars(DevRecheck) /\ WF_vars(DevInterrupt)
  /\ \A h \in Desc : WF_vars(DevComplete(h))

FairSpec == Spec /\ Fairness

-----------------------------------------------------------------------------
(* What the rings hold.                                                    *)

\* The number of ring entries from index a up to, not including, index b.
Dist(a, b) == IF a <= b THEN b - a ELSE b - a + W

\* The indices from a up to, not including, b.
Window(a, b) == {c \in Counter : Dist(a, c) < Dist(a, b)}

AvailWindow == Window(last_avail, avail_idx)
UsedWindow  == Window(next_used, used_idx)

AvailHeads  == {avail_ring[Slot(c)] : c \in AvailWindow}
UsedHeads   == {used_ring[Slot(c)] : c \in UsedWindow}
BuiltHeads  == IF pc \in {"alloc", "written", "ring"} THEN {first} ELSE {}
ElemHeads   == IF pc = "recv" THEN {used_ring[elem]} ELSE {}
Outstanding == {h \in Desc : place[h] # "free"}

-----------------------------------------------------------------------------
(* Properties.                                                             *)

TypeOK ==
  /\ free_head \in Link /\ free_count \in 0..N
  /\ next_avail \in Counter /\ next_used \in Counter /\ used_index \in Counter
  /\ next \in [Desc -> Link]
  /\ f_next \in [Desc -> BOOLEAN] /\ f_write \in [Desc -> BOOLEAN]
  /\ avail_ring \in [Desc -> Desc] /\ avail_idx \in Counter
  /\ used_ring \in [Desc -> Desc] /\ used_idx \in Counter
  /\ no_notify \in BOOLEAN
  /\ pc \in {"idle", "alloc", "written", "ring", "notify", "event", "recv"}
  /\ first \in Desc /\ iovcnt \in 0..N /\ elem \in Desc
  /\ held \subseteq Desc
  /\ kick \in BOOLEAN /\ irq \in BOOLEAN
  /\ last_avail \in Counter /\ inflight \subseteq Desc
  /\ dpc \in {"sleep", "run", "recheck"} /\ raise \in BOOLEAN
  /\ free \in Seq(Desc)
  /\ chain \in [Desc -> Seq(Desc)]
  /\ rcnt \in [Desc -> 0..N]
  /\ place \in [Desc -> Places]

\* The list linked through desc[].next from free_head has exactly free_count
\* elements, ends in N, and every element has the NEXT flag that
\* virtio_queue_writev asserts.
FreeListOK ==
  /\ Len(free) = free_count
  /\ free_head = IF free_count = 0 THEN N ELSE free[1]
  /\ \A i \in 1..free_count :
       /\ f_next[free[i]]
       /\ next[free[i]] = IF i = free_count THEN N ELSE free[i+1]

\* No descriptor is used twice: the free list and the chains have no
\* element in common, and each has no element twice.
NoSharing ==
  /\ \A i, j \in 1..Len(free) : free[i] = free[j] => i = j
  /\ \A g, h \in Desc : \A i \in 1..Len(chain[g]) : \A j \in 1..Len(chain[h]) :
       chain[g][i] = chain[h][j] => g = h /\ i = j
  /\ \A i \in 1..Len(free) : \A h \in Desc : \A j \in 1..Len(chain[h]) :
       free[i] # chain[h][j]

\* No descriptor is lost: each one is free or in a chain.
NoLeak ==
  \A d \in Desc :
    \/ \E i \in 1..Len(free) : free[i] = d
    \/ \E h \in Desc : \E j \in 1..Len(chain[h]) : chain[h][j] = d

\* Each descriptor is on the free list the driver walks or in the chain of
\* one outstanding request, at one position, after any sequence of
\* virtio_queue_alloc and virtio_queue_free.
DescriptorsAccounted == FreeListOK /\ NoSharing /\ NoLeak

\* From the moment a request is written until it is freed, the descriptor
\* table links exactly its chain, ends it at its last buffer, and marks as
\* device-writable exactly the buffers after the first rcnt: neither stale
\* flags of an earlier use nor a later call disturb what the device reads.
ChainsIntact ==
  \A h \in Outstanding :
    /\ chain[h][1] = h
    /\ \A i \in 1..(Len(chain[h]) - 1) : next[chain[h][i]] = chain[h][i+1]
    /\ \A i \in 1..Len(chain[h]) :
         IF pc = "alloc" /\ h = first
         THEN f_next[chain[h][i]]
         ELSE /\ f_next[chain[h][i]] = (i < Len(chain[h]))
              /\ f_write[chain[h][i]] = (i > rcnt[h])

\* Every outstanding request is in exactly one place: with the driver
\* before it is published, at one entry of the available ring, with the
\* device, at one entry of the used ring, or with the driver again.  So no
\* ring entry is overwritten before it is read, nothing is completed twice,
\* and virtio_queue_free is only called with the head of a chain.
RequestsAccounted ==
  /\ \A c, d \in AvailWindow : avail_ring[Slot(c)] = avail_ring[Slot(d)] => c = d
  /\ \A c, d \in UsedWindow : used_ring[Slot(c)] = used_ring[Slot(d)] => c = d
  /\ \A h \in Desc :
       /\ place[h] = "free"   <=> chain[h] = << >>
       /\ place[h] = "built"  <=> h \in BuiltHeads
       /\ place[h] = "avail"  <=> h \in AvailHeads
       /\ place[h] = "device" <=> h \in inflight
       /\ place[h] = "used"   <=> h \in UsedHeads
       /\ place[h] = "elem"   <=> h \in ElemHeads
       /\ place[h] = "held"   <=> h \in held

\* A device that sleeps with entries to serve has been or will be notified,
\* although virtio_queue_send may find notifications suppressed: the index
\* is stored before the flag is read.
NoLostNotification ==
  dpc = "sleep" /\ last_avail # avail_idx => kick \/ pc = "notify"

\* Completions the driver has not seen are signalled, or are about to be
\* read: clearing the eventfd comes before loading used->idx.
NoLostInterrupt ==
  used_index # used_idx => irq \/ raise \/ pc = "event"

\* The element virtio_queue_recv returned is a pointer into the used ring,
\* read after next_used has moved on: the device does not reuse its slot
\* while the driver still looks at it.
ElemStable ==
  [][pc = "recv" => used_ring'[elem] = used_ring[elem]]_vars

\* Whatever was published is collected: the driver gets its completion.
EveryRequestCollected ==
  \A h \in Desc : h \in AvailHeads ~> h \in ElemHeads

\* The queue is a channel that delivers each request once, in order, and
\* each completion once, in order.
Entries(ring, a, b) == [i \in 1..Dist(a, b) |-> ring[Slot((a + i - 1) % W)]]

Channel == INSTANCE RequestChannel WITH
  Request   <- Desc,
  submitted <- Entries(avail_ring, last_avail, avail_idx),
  serving   <- inflight,
  completed <- Entries(used_ring, next_used, used_idx),
  received  <- ElemHeads \cup held

ImplementsChannel == Channel!Spec

=============================================================================
