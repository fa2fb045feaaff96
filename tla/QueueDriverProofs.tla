--------------------------- MODULE QueueDriverProofs ---------------------------
(***************************************************************************)
(* Proofs about two drivers on top of a virtqueue, VirtioInput and         *)
(* Virtio9p: each uses its queue only as Virtqueue allows, so what is      *)
(* proved about Virtqueue holds of it.  Of the input driver: a descriptor  *)
(* always carries the buffer of its number, and the events are returned in *)
(* order.  Of a call of the 9P server: it gets the answer to its own       *)
(* request and leaves nothing behind for the next call.                    *)
(***************************************************************************)
EXTENDS VirtioInput, Virtio9p, VirtqueueProofs

(***************************************************************************)
(* VirtioInput.                                                            *)
(***************************************************************************)

\* Where the queue's thread is while the driver is at ipc; slot is elem as
\* long as Virtqueue keeps elem.
ControlOK ==
  /\ ipc = "supply" => pc \in {"idle", "alloc", "written", "ring", "notify"}
  /\ ipc = "loop" => pc \in {"idle", "event"}
  /\ ipc \in {"got", "copied"} => pc = "recv" /\ slot = elem
  /\ ipc = "freed" => pc = "idle"
  /\ supplied < N => ipc = "supply" /\ buf = supplied

\* During virtio_input_dev_init the free list still has its first order.
InitOrder ==
  supplied < N =>
    /\ Len(free) = N - supplied - (IF pc = "idle" THEN 0 ELSE 1)
    /\ \A i \in 1..Len(free) : free[i] = N - Len(free) + i - 1

\* The descriptor supply_buffer gets has the number of its buffer.
HeadIsBuffer ==
  /\ ipc = "supply" /\ pc = "idle" => free_count >= 1 /\ free_head = buf
  /\ ipc = "supply" /\ pc \in {"alloc", "written", "ring"} => first = buf
  /\ pc \in {"written", "ring"} => addr[first] = first

\* After virtio_queue_free the pointer into the used ring is still good.
SlotOK ==
  ipc = "freed" =>
    /\ free_count >= 1 /\ free_head = used_ring[slot]
    /\ place[used_ring[slot]] = "free"
    /\ \E c \in Counter : /\ next_used = Inc(c) /\ slot = Slot(c)
                          /\ c # used_idx
                          /\ Dist(c, used_idx) <= N

\* How far event number b is ahead of event number a.
Ahead(a, b) == IF a <= b THEN b - a ELSE b - a + K

Pending == IF ipc = "got" THEN 1 ELSE 0

\* The used entries hold the events after the last one returned, in order.
EventsOK ==
  /\ Ahead(got, produced) = Dist(next_used, used_idx) + Pending
  /\ \A c \in UsedWindow :
       Ahead(got, events[used_ring[Slot(c)]]) = Dist(next_used, c) + Pending
  /\ ipc = "got" => events[used_ring[slot]] = got

InputInv ==
  /\ InputTypeOK
  /\ ControlOK
  /\ InitOrder
  /\ HeadIsBuffer
  /\ BufferOfDescriptor
  /\ SlotOK
  /\ EventsOK

-----------------------------------------------------------------------------
(* The driver as a user of its queue.                                      *)

\* The constants: chains have one descriptor.
LEMMA OneDescriptor == 1 \in IovCounts /\ 0 \in 0..N /\ K \in Nat /\ K > N + 1
<1>1. <<1, 0>> \in Shapes
  BY InputAssumption
<1>2. <<1, 0>>[1] = 1
  OBVIOUS
<1>3. 1 \in IovCounts
  BY <1>1, <1>2 DEF IovCounts
<1> QED BY <1>3, InputAssumption, Sizes

\* Every step of the driver is one of Virtqueue's, or leaves the queue alone.
LEMMA InputStep == [InputNext]_allVars => [Next]_vars
<1> SUFFICES ASSUME [InputNext]_allVars PROVE [Next]_vars
  OBVIOUS
<1>1. CASE Supply
  BY <1>1, OneDescriptor DEF Supply, supply_alloc, supply_writev, supply_send,
     supply_return, Next, Driver, Submit
<1>2. CASE Recv
  BY <1>2 DEF Recv, recv_elem, recv_copy, recv_free, recv_resupply, Next, Driver, Collect
<1>3. CASE wait_event \/ handle_event
  BY <1>3 DEF wait_event, handle_event, Next, Driver
<1>4. CASE DevQueue
  BY <1>4 DEF DevQueue, Next, Device
<1>5. ASSUME NEW h \in Desc, DevEvent(h) PROVE Next
  BY <1>5 DEF DevEvent, Next, Device
<1>6. CASE UNCHANGED allVars
  BY <1>6 DEF allVars
<1> QED BY <1>1, <1>2, <1>3, <1>4, <1>5, <1>6 DEF InputNext

\* The input driver uses its queue only in the ways Virtqueue allows: supply
\* and receive never interleave their calls in another order.
THEOREM InputUsesQueue == InputSpec => Spec
<1>1. InputInit => Init
  BY DEF InputInit
<1>2. [InputNext]_allVars => [Next]_vars
  BY InputStep
<1> QED BY <1>1, <1>2, PTL DEF InputSpec, Spec

-----------------------------------------------------------------------------
(* The invariant.                                                          *)

\* Event numbers one step apart.
LEMMA AheadFacts ==
  ASSUME NEW a \in 0..K-1, NEW b \in 0..K-1
  PROVE  /\ Ahead(a, b) \in 0..K-1
         /\ Ahead(a, b) = 0 <=> a = b
         /\ (a + 1) % K = IF a = K-1 THEN 0 ELSE a + 1
         /\ (a + 1) % K \in 0..K-1
         /\ Ahead(a, b) < K - 1 => Ahead(a, (b + 1) % K) = Ahead(a, b) + 1
         /\ a # b => Ahead((a + 1) % K, b) = Ahead(a, b) - 1
<1>1. K \in Nat /\ K >= 1
  BY OneDescriptor, Sizes
<1>2. \A x \in 0..K-1 : (x + 1) % K = IF x = K-1 THEN 0 ELSE x + 1
  BY <1>1
<1>3. Ahead(a, b) \in 0..K-1 /\ (Ahead(a, b) = 0 <=> a = b)
  BY <1>1 DEF Ahead
<1>4. (a + 1) % K = (IF a = K-1 THEN 0 ELSE a + 1) /\ (b + 1) % K = (IF b = K-1 THEN 0 ELSE b + 1)
  BY <1>2
<1> DEFINE u == (a + 1) % K
           v == (b + 1) % K
<1>5. u = (IF a = K-1 THEN 0 ELSE a + 1) /\ v = (IF b = K-1 THEN 0 ELSE b + 1)
  BY <1>4
<1> HIDE DEF u, v
<1>6. u \in 0..K-1
  BY <1>1, <1>5
<1>7. Ahead(a, b) < K - 1 => Ahead(a, v) = Ahead(a, b) + 1
  BY <1>1, <1>5 DEF Ahead
<1>8. a # b => Ahead(u, b) = Ahead(a, b) - 1
  BY <1>1, <1>5 DEF Ahead
<1> QED BY <1>3, <1>4, <1>6, <1>7, <1>8 DEF u, v

\* The state in which virtio_input_dev_init starts to supply buffers.
LEMMA InitInputInv == InputInit => InputInv
<1> SUFFICES ASSUME InputInit PROVE InputInv
  OBVIOUS
<1> USE DEF InputInit
<1>1. IndInv
  BY InitIndInv
<1>2. /\ pc = "idle" /\ free_head = 0 /\ free_count = N /\ next_used = 0 /\ used_idx = 0
      /\ free = [i \in 1..N |-> i - 1] /\ place = [d \in Desc |-> "free"]
  BY DEF Init
<1>3. Len(free) = N
  BY <1>1, <1>2 DEF IndInv, FreeListOK
<1>4. 0 \in Counter /\ 0 \in Desc /\ Dist(0, 0) = 0 /\ Window(0, 0) = {} /\ 0 \in 0..K-1
  BY WindowEmpty, OneDescriptor, Sizes DEF Counter, Desc, Dist
<1>5. InputTypeOK
  BY <1>1, <1>4, Sizes DEF IndInv, InputTypeOK
<1>6. ControlOK /\ HeadIsBuffer /\ SlotOK
  BY <1>2, Sizes DEF ControlOK, HeadIsBuffer, SlotOK
<1>7. InitOrder
  <2>1. \A i \in 1..N : free[i] = i - 1 /\ i - 1 = N - N + i - 1
    BY <1>2, Sizes
  <2> QED BY <1>2, <1>3, <2>1, Sizes DEF InitOrder
<1>8. BufferOfDescriptor
  BY <1>2 DEF BufferOfDescriptor
<1>9. EventsOK
  BY <1>2, <1>4 DEF EventsOK, UsedWindow, Ahead, Pending
<1> QED BY <1>5, <1>6, <1>7, <1>8, <1>9 DEF InputInv

\* Steps of the device that complete nothing.
LEMMA InputFrame ==
  ASSUME InputInv, TypeOK', UNCHANGED inputVars,
         UNCHANGED <<pc, free, free_head, free_count, next_used, used_idx,
                     used_ring, first, elem>>,
         \A d \in Desc :
           /\ place'[d] \in {"avail", "device", "used", "elem"}
                => place[d] \in {"avail", "device", "used", "elem"}
           /\ place[d] = "free" => place'[d] = "free"
  PROVE  InputInv'
<1> USE DEF inputVars
<1>1. InputTypeOK'
  BY DEF InputInv, InputTypeOK
<1>2. ControlOK' /\ InitOrder' /\ HeadIsBuffer'
  BY DEF InputInv, ControlOK, InitOrder, HeadIsBuffer
<1>3. BufferOfDescriptor'
  BY DEF InputInv, BufferOfDescriptor
<1>4. SlotOK'
  <2>1. used_ring[slot] \in Desc
    BY DEF InputInv, InputTypeOK, TypeOK
  <2> QED BY <2>1 DEF InputInv, SlotOK
<1>5. EventsOK'
  BY DEF InputInv, EventsOK, UsedWindow, Pending
<1> QED BY <1>1, <1>2, <1>3, <1>4, <1>5 DEF InputInv

-----------------------------------------------------------------------------
(* supply_buffer.                                                          *)

\* virtio_queue_alloc returns the head of the free list, whose number is
\* that of the buffer.
LEMMA SupplyAllocStep ==
  ASSUME IndInv, IndInv', InputInv, supply_alloc
  PROVE  InputInv'
<1> USE DEF supply_alloc, inputVars
<1>1. /\ ipc = "supply" /\ pc = "idle" /\ free_count >= 1 /\ free_head = buf
      /\ pc' = "alloc" /\ first' = free_head
      /\ free' = [i \in 1..(Len(free) - 1) |-> free[i + 1]]
      /\ place' = [place EXCEPT ![free_head] = "built"]
      /\ UNCHANGED <<next_used, used_idx, used_ring, inputVars>>
  BY DEF virtio_queue_alloc, Moves, InputInv, HeadIsBuffer, usedVars
<1>2. /\ Len(free) = free_count /\ Len(free') = free_count'
      /\ free_count' = free_count - 1 /\ free_count \in Nat
  BY DEF IndInv, FreeListOK, TypeOK, virtio_queue_alloc
<1>3. InputTypeOK'
  BY DEF InputInv, InputTypeOK, IndInv
<1>4. ControlOK' /\ HeadIsBuffer'
  BY <1>1 DEF InputInv, ControlOK, HeadIsBuffer
<1>5. InitOrder'
  <2> SUFFICES ASSUME supplied < N
               PROVE  /\ Len(free') = N - supplied - 1
                      /\ \A i \in 1..Len(free') : free'[i] = N - Len(free') + i - 1
    BY <1>1 DEF InitOrder
  <2>1. /\ Len(free) = N - supplied /\ supplied \in Int
        /\ \A i \in 1..Len(free) : free[i] = N - Len(free) + i - 1
    <3>1. supplied \in 0..N
      BY DEF InputInv, InputTypeOK
    <3>2. supplied \in Int
      BY <3>1, Sizes
    <3>3. Len(free) = N - supplied - 0
      BY <1>1 DEF InputInv, InitOrder
    <3>4. \A i \in 1..Len(free) : free[i] = N - Len(free) + i - 1
      BY DEF InputInv, InitOrder
    <3> QED BY <3>2, <3>3, <3>4, Sizes
  <2>2. Len(free') = N - supplied - 1 /\ Len(free') = Len(free) - 1 /\ Len(free) \in Nat
    BY <1>2, <2>1, Sizes
  <2>3. ASSUME NEW i \in 1..Len(free')
        PROVE  free'[i] = N - Len(free') + i - 1
    <3>1. i \in 1..(Len(free) - 1) /\ i + 1 \in 1..Len(free)
      BY <2>2
    <3>2. free'[i] = free[i + 1]
      BY <1>1, <3>1
    <3>3. free[i + 1] = N - Len(free) + (i + 1) - 1
      BY <2>1, <3>1
    <3> QED BY <2>2, <3>1, <3>2, <3>3, Sizes
  <2> QED BY <2>2, <2>3
<1>6. BufferOfDescriptor'
  BY <1>1 DEF InputInv, BufferOfDescriptor, IndInv, TypeOK
<1>7. SlotOK' /\ EventsOK'
  BY <1>1 DEF InputInv, SlotOK, EventsOK, UsedWindow, Pending
<1> QED BY <1>3, <1>4, <1>5, <1>6, <1>7 DEF InputInv

\* virtio_queue_writev puts the address of events[buf] into descriptor buf.
LEMMA SupplyWritevStep ==
  ASSUME IndInv, IndInv', InputInv, supply_writev
  PROVE  InputInv'
<1>1. /\ ipc = "supply" /\ pc = "alloc" /\ pc' = "written" /\ first = buf
      /\ addr' = [addr EXCEPT ![first] = buf]
      /\ UNCHANGED <<events, ipc, supplied, buf, slot, event, produced, got>>
      /\ UNCHANGED <<free, free_head, free_count, next_used, used_idx, used_ring,
                     first, elem, place>>
  BY DEF supply_writev, virtio_queue_writev, usedVars, driverVars, InputInv, HeadIsBuffer
<1>2. /\ first \in Desc /\ addr \in [Desc -> Desc] /\ buf \in Desc
      /\ place[first] = "built"
  BY <1>1 DEF IndInv, TypeOK, RequestsAccounted, BuiltHeads, InputInv, InputTypeOK
<1>3. InputTypeOK'
  BY <1>1, <1>2 DEF InputInv, InputTypeOK, IndInv
<1>4. ControlOK' /\ HeadIsBuffer' /\ InitOrder'
  BY <1>1, <1>2 DEF InputInv, ControlOK, HeadIsBuffer, InitOrder
<1>5. BufferOfDescriptor'
  BY <1>1, <1>2 DEF InputInv, BufferOfDescriptor
<1>6. SlotOK' /\ EventsOK'
  BY <1>1 DEF InputInv, SlotOK, EventsOK, UsedWindow, Pending
<1> QED BY <1>3, <1>4, <1>5, <1>6 DEF InputInv

\* virtio_queue_send up to the store of avail->idx: from there on the device
\* sees the descriptor, which carries its own buffer.
LEMMA SupplySendStep ==
  ASSUME IndInv, IndInv', InputInv, supply_send
  PROVE  InputInv'
<1>1. /\ ipc = "supply"
      /\ \/ pc = "written" /\ pc' = "ring" /\ place' = place
         \/ pc = "ring" /\ pc' = "notify" /\ place' = [place EXCEPT ![first] = "avail"]
      /\ UNCHANGED inputVars
      /\ UNCHANGED <<free, free_head, free_count, next_used, used_idx, used_ring,
                     first, elem>>
  BY DEF supply_send, virtio_queue_send_ring, virtio_queue_send_idx, usedVars,
         driverVars, Moves, histVars
<1>2. first \in Desc /\ place \in [Desc -> Places] /\ addr[first] = first
  BY <1>1 DEF IndInv, TypeOK, InputInv, HeadIsBuffer
<1>3. InputTypeOK'
  BY <1>1 DEF InputInv, InputTypeOK, IndInv, inputVars
<1>4. ControlOK' /\ HeadIsBuffer' /\ InitOrder'
  BY <1>1, <1>2 DEF InputInv, ControlOK, HeadIsBuffer, InitOrder, inputVars
<1>5. BufferOfDescriptor'
  BY <1>1, <1>2 DEF InputInv, BufferOfDescriptor, inputVars
<1>6. SlotOK' /\ EventsOK'
  BY <1>1 DEF InputInv, SlotOK, EventsOK, UsedWindow, Pending, inputVars
<1> QED BY <1>3, <1>4, <1>5, <1>6 DEF InputInv

\* The end of supply_buffer: the next head of the free list is the next
\* buffer of virtio_input_dev_init's loop.
LEMMA SupplyReturnStep ==
  ASSUME IndInv, IndInv', InputInv, supply_return
  PROVE  InputInv'
<1>1. /\ ipc = "supply" /\ pc = "notify" /\ pc' = "idle"
      /\ UNCHANGED <<addr, events, slot, event, produced, got>>
      /\ UNCHANGED <<free, free_head, free_count, next_used, used_idx, used_ring,
                     elem, place>>
  BY DEF supply_return, virtio_queue_send_notify, usedVars, driverVars, histVars
<1>2. /\ supplied \in 0..N /\ Len(free) = free_count /\ free_count \in Nat
      /\ free_head = IF free_count = 0 THEN N ELSE free[1]
  BY DEF InputInv, InputTypeOK, IndInv, FreeListOK, TypeOK
<1>3. BufferOfDescriptor'
  BY <1>1 DEF InputInv, BufferOfDescriptor
<1>4. CASE /\ supplied < N - 1 /\ supplied' = supplied + 1 /\ buf' = supplied + 1
           /\ ipc' = ipc
  <2>1. supplied < N /\ supplied' \in 0..N /\ buf' \in Desc
    BY <1>2, <1>4, Sizes DEF Desc
  <2>2. /\ Len(free) = N - supplied - 1
        /\ \A i \in 1..Len(free) : free[i] = N - Len(free) + i - 1
    BY <1>1, <2>1 DEF InputInv, InitOrder
  <2>3. /\ Len(free) >= 1 /\ Len(free) = N - supplied' /\ 1 \in 1..Len(free)
        /\ N - Len(free) + 1 - 1 = buf'
    BY <1>2, <1>4, <2>2, Sizes
  <2>4. free_head = buf' /\ free_count >= 1
    BY <1>2, <2>2, <2>3
  <2>5. InputTypeOK'
    BY <1>1, <1>4, <2>1 DEF InputInv, InputTypeOK, IndInv
  <2>6. ControlOK' /\ HeadIsBuffer'
    BY <1>1, <1>4, <2>4 DEF ControlOK, HeadIsBuffer
  <2>7. InitOrder'
    <3>1. N - supplied' - 0 = N - supplied'
      BY <2>1, Sizes
    <3> QED BY <1>1, <2>2, <2>3, <3>1 DEF InitOrder
  <2>8. SlotOK' /\ EventsOK'
    BY <1>1, <1>4 DEF InputInv, SlotOK, EventsOK, UsedWindow, Pending
  <2> QED BY <1>3, <2>5, <2>6, <2>7, <2>8 DEF InputInv
<1>5. CASE supplied >= N - 1 /\ supplied' = N /\ buf' = 0 /\ ipc' = "loop"
  <2>1. 0 \in Desc /\ N \in 0..N /\ ~ (N < N)
    BY Sizes DEF Desc
  <2>2. InputTypeOK'
    BY <1>1, <1>5, <2>1 DEF InputInv, InputTypeOK, IndInv
  <2>3. ControlOK' /\ HeadIsBuffer' /\ InitOrder'
    BY <1>1, <1>5, <2>1 DEF ControlOK, HeadIsBuffer, InitOrder
  <2>4. SlotOK' /\ EventsOK'
    BY <1>1, <1>5 DEF InputInv, SlotOK, EventsOK, UsedWindow, Pending
  <2> QED BY <1>3, <2>2, <2>3, <2>4 DEF InputInv
<1> QED BY <1>4, <1>5 DEF supply_return

-----------------------------------------------------------------------------
(* The event loop and virtio_input_recv.                                   *)

\* Reading the eventfd and loading used->idx.
LEMMA LoopStep ==
  ASSUME IndInv, IndInv', InputInv, wait_event \/ handle_event
  PROVE  InputInv'
<1>1. /\ ipc = "loop" /\ pc' \in {"idle", "event"}
      /\ UNCHANGED inputVars
      /\ UNCHANGED <<free, free_head, free_count, next_used, used_idx, used_ring,
                     first, elem, place>>
  BY DEF wait_event, handle_event, vfio_pci_dev_clear_irq, virtio_queue_handle_event,
         usedVars, driverVars, histVars
<1>2. InputTypeOK'
  BY <1>1 DEF InputInv, InputTypeOK, IndInv, inputVars
<1>3. ControlOK' /\ HeadIsBuffer' /\ InitOrder'
  BY <1>1 DEF InputInv, ControlOK, HeadIsBuffer, InitOrder, inputVars
<1>4. BufferOfDescriptor' /\ SlotOK' /\ EventsOK'
  BY <1>1 DEF InputInv, BufferOfDescriptor, SlotOK, EventsOK, UsedWindow, Pending, inputVars
<1> QED BY <1>2, <1>3, <1>4 DEF InputInv

\* virtio_queue_recv: the element is the oldest one, and its buffer holds the
\* next event.
LEMMA RecvElemStep ==
  ASSUME IndInv, IndInv', InputInv, recv_elem
  PROVE  InputInv'
<1> DEFINE h0 == used_ring[Slot(next_used)]
<1>1. /\ ipc = "loop" /\ pc = "idle" /\ ipc' = "got" /\ pc' = "recv"
      /\ next_used # used_index /\ next_used' = Inc(next_used)
      /\ slot' = Slot(next_used) /\ elem' = Slot(next_used)
      /\ place' = [place EXCEPT ![h0] = "elem"]
      /\ UNCHANGED <<addr, events, supplied, buf, event, produced, got>>
      /\ UNCHANGED <<free, free_head, free_count, used_idx, used_ring, first>>
  BY DEF recv_elem, virtio_queue_recv, Moves, usedVars
<1>2. /\ next_used \in Counter /\ used_idx \in Counter /\ used_index \in Counter
      /\ Slot(next_used) \in Desc /\ h0 \in Desc /\ place \in [Desc -> Places]
      /\ used_ring \in [Desc -> Desc]
  BY SlotType DEF IndInv, TypeOK
<1>3. /\ Dist(next_used, used_idx) \in Nat /\ Dist(next_used, used_index) \in Nat
      /\ Dist(next_used, used_index) # 0
  <2>1. /\ Dist(next_used, used_idx) \in Counter /\ Dist(next_used, used_index) \in Counter
        /\ Dist(next_used, used_index) # 0
    BY <1>1, <1>2, DistFacts
  <2>2. Counter \subseteq Nat
    BY Sizes DEF Counter
  <2> QED BY <2>1, <2>2
<1>4. Dist(next_used, used_idx) # 0
  BY <1>3 DEF IndInv, RingsOK
<1>5. /\ next_used # used_idx
      /\ Dist(Inc(next_used), used_idx) = Dist(next_used, used_idx) - 1
      /\ Dist(next_used, next_used) = 0
  BY <1>2, <1>4, DistFacts
<1>6. UsedWindow = UsedWindow' \cup {next_used} /\ next_used \notin UsedWindow'
  BY <1>1, <1>2, <1>5, WindowShrinks DEF UsedWindow
<1>7. place[h0] = "used"
  <2>1. h0 \in UsedHeads
    BY <1>6 DEF UsedHeads
  <2> QED BY <1>2, <2>1 DEF IndInv, RequestsAccounted
<1>8. InputTypeOK'
  BY <1>1, <1>2 DEF InputInv, InputTypeOK, IndInv
<1>9. ControlOK' /\ HeadIsBuffer' /\ InitOrder' /\ SlotOK'
  BY <1>1 DEF InputInv, ControlOK, HeadIsBuffer, InitOrder, SlotOK
<1>10. BufferOfDescriptor'
  BY <1>1, <1>2, <1>7 DEF InputInv, BufferOfDescriptor
<1>11. EventsOK'
  <2>1. /\ Ahead(got, produced) = Dist(next_used, used_idx) + 0
        /\ \A c \in UsedWindow : Ahead(got, events[used_ring[Slot(c)]]) = Dist(next_used, c) + 0
    BY <1>1 DEF InputInv, EventsOK, Pending
  <2>2. Ahead(got, produced) = Dist(Inc(next_used), used_idx) + 1
    BY <1>3, <1>5, <2>1
  <2>3. ASSUME NEW c \in UsedWindow'
        PROVE  Ahead(got, events[used_ring[Slot(c)]]) = Dist(Inc(next_used), c) + 1
    <3>1. c \in UsedWindow /\ c # next_used /\ c \in Counter
      BY <1>2, <1>6, WindowType DEF UsedWindow
    <3>2. Dist(Inc(next_used), c) = Dist(next_used, c) - 1 /\ Dist(next_used, c) \in Counter
      BY <1>2, <3>1, DistFacts
    <3>3. Dist(next_used, c) \in Int
      BY <3>2, Sizes DEF Counter
    <3> QED BY <2>1, <3>1, <3>2, <3>3
  <2>4. events[h0] = got
    <3>1. Ahead(got, events[h0]) = 0
      BY <1>5, <1>6, <2>1
    <3>2. got \in 0..K-1 /\ events[h0] \in 0..K-1
      BY <1>2 DEF InputInv, InputTypeOK
    <3> QED BY <3>1, <3>2, AheadFacts
  <2>5. Pending' = 1
    BY <1>1 DEF Pending
  <2> QED BY <1>1, <2>2, <2>3, <2>4, <2>5 DEF EventsOK
<1> QED BY <1>8, <1>9, <1>10, <1>11 DEF InputInv

\* The copy of the event: the events that follow are one step nearer.
LEMMA RecvCopyStep ==
  ASSUME IndInv, IndInv', InputInv, recv_copy
  PROVE  InputInv'
<1>1. /\ ipc = "got" /\ ipc' = "copied" /\ got' = (got + 1) % K
      /\ event' = events[used_ring[slot]]
      /\ UNCHANGED <<addr, events, supplied, buf, slot, produced>>
      /\ UNCHANGED <<pc, free, free_head, free_count, next_used, used_idx, used_ring,
                     first, elem, place>>
  BY DEF recv_copy, vars, threadVars, driverVars, usedVars, histVars
<1>2. /\ next_used \in Counter /\ used_idx \in Counter /\ used_ring \in [Desc -> Desc]
      /\ slot \in Desc /\ events \in [Desc -> 0..K-1] /\ got \in 0..K-1 /\ produced \in 0..K-1
  BY DEF IndInv, TypeOK, InputInv, InputTypeOK
<1>3. InputTypeOK'
  <2>1. (got + 1) % K \in 0..K-1
    BY <1>2, AheadFacts
  <2>2. events[used_ring[slot]] \in 0..K-1
    BY <1>2
  <2> QED BY <1>1, <2>1, <2>2 DEF InputInv, InputTypeOK, IndInv
<1>4. ControlOK' /\ HeadIsBuffer' /\ InitOrder' /\ SlotOK' /\ BufferOfDescriptor'
  BY <1>1 DEF InputInv, ControlOK, HeadIsBuffer, InitOrder, SlotOK, BufferOfDescriptor
<1>5. EventsOK'
  <2>1. /\ Ahead(got, produced) = Dist(next_used, used_idx) + 1
        /\ \A c \in UsedWindow : Ahead(got, events[used_ring[Slot(c)]]) = Dist(next_used, c) + 1
    BY <1>1 DEF InputInv, EventsOK, Pending
  <2>2. ASSUME NEW x \in 0..K-1, NEW n \in Nat, Ahead(got, x) = n + 1
        PROVE  Ahead(got', x) = n
    <3>1. Ahead(got, x) # 0 /\ (n + 1) - 1 = n
      BY <2>2
    <3>2. got # x
      BY <1>2, <3>1, AheadFacts
    <3> QED BY <1>1, <1>2, <2>2, <3>1, <3>2, AheadFacts
  <2>3. Ahead(got', produced) = Dist(next_used, used_idx)
    <3>1. Dist(next_used, used_idx) \in Nat
      BY <1>2, DistFacts, Sizes DEF Counter
    <3> QED BY <1>2, <2>1, <2>2, <3>1
  <2>4. ASSUME NEW c \in UsedWindow
        PROVE  Ahead(got', events[used_ring[Slot(c)]]) = Dist(next_used, c)
    <3>1. c \in Counter
      BY <1>2, WindowType DEF UsedWindow
    <3>2. Dist(next_used, c) \in Nat /\ events[used_ring[Slot(c)]] \in 0..K-1
      <4>1. Dist(next_used, c) \in Counter /\ Slot(c) \in Desc
        BY <1>2, <3>1, DistFacts, SlotType
      <4>2. Counter \subseteq Nat
        BY Sizes DEF Counter
      <4> QED BY <1>2, <4>1, <4>2
    <3> QED BY <2>1, <2>2, <3>2
  <2>5. Pending' = 0 /\ UsedWindow' = UsedWindow
    BY <1>1 DEF Pending, UsedWindow
  <2>6. Dist(next_used, used_idx) + 0 = Dist(next_used, used_idx)
    BY <1>2, DistFacts, Sizes DEF Counter
  <2>7. \A c \in UsedWindow : Dist(next_used, c) + 0 = Dist(next_used, c)
    BY <1>2, DistFacts, WindowType, Sizes DEF Counter, UsedWindow
  <2> QED BY <1>1, <2>3, <2>4, <2>5, <2>6, <2>7 DEF EventsOK
<1> QED BY <1>3, <1>4, <1>5 DEF InputInv

\* virtio_queue_free makes the descriptor the head of the free list; elem->id
\* is still there to be read.
LEMMA RecvFreeStep ==
  ASSUME IndInv, IndInv', InputInv, recv_free
  PROVE  InputInv'
<1> DEFINE h0 == used_ring[elem]
<1>1. /\ ipc = "copied" /\ pc = "recv" /\ ipc' = "freed" /\ pc' = "idle" /\ slot = elem
      /\ virtio_queue_free(h0)
      /\ UNCHANGED <<addr, events, supplied, buf, slot, event, produced, got>>
  BY DEF recv_free, FreeElem, InputInv, ControlOK
<1>2. /\ UNCHANGED <<next_used, used_idx, used_ring, first>>
      /\ free_head' = h0 /\ place' = [place EXCEPT ![h0] = "free"]
  BY <1>1 DEF virtio_queue_free, usedVars, Moves
<1>3. h0 \in Desc /\ place \in [Desc -> Places] /\ elem \in Desc /\ slot \in Desc
  BY DEF IndInv, TypeOK, InputInv, InputTypeOK
<1>4. free_count' >= 1
  <2>1. free_count' \in Nat /\ free_head' # N
    BY <1>2, <1>3, Sizes DEF IndInv, TypeOK, Desc
  <2>2. free_count' # 0
    BY <2>1 DEF IndInv, FreeListOK
  <2> QED BY <2>1, <2>2
<1>5. InputTypeOK'
  BY <1>1 DEF InputInv, InputTypeOK, IndInv
<1>6. ControlOK' /\ HeadIsBuffer' /\ InitOrder'
  BY <1>1 DEF InputInv, ControlOK, HeadIsBuffer, InitOrder
<1>7. BufferOfDescriptor'
  BY <1>1, <1>2, <1>3 DEF InputInv, BufferOfDescriptor
<1>8. SlotOK'
  <2>1. \E c \in Counter : /\ next_used = Inc(c) /\ elem = Slot(c)
                           /\ c # used_idx /\ Dist(c, used_idx) <= N
    BY <1>1 DEF IndInv, RingsOK
  <2>2. place'[h0] = "free"
    BY <1>2, <1>3
  <2> QED BY <1>1, <1>2, <1>4, <2>1, <2>2 DEF SlotOK
<1>9. EventsOK'
  BY <1>1, <1>2 DEF InputInv, EventsOK, UsedWindow, Pending
<1> QED BY <1>5, <1>6, <1>7, <1>8, <1>9 DEF InputInv

\* &dev->events[elem->id] is the buffer of the head of the free list.
LEMMA RecvResupplyStep ==
  ASSUME IndInv, IndInv', InputInv, recv_resupply
  PROVE  InputInv'
<1>1. /\ ipc = "freed" /\ ipc' = "supply" /\ buf' = used_ring[slot] /\ slot' = 0
      /\ UNCHANGED <<addr, events, supplied, event, produced, got>>
      /\ UNCHANGED <<pc, free, free_head, free_count, next_used, used_idx, used_ring,
                     first, elem, place>>
  BY DEF recv_resupply, vars, threadVars, driverVars, usedVars, histVars
<1>2. pc = "idle" /\ free_count >= 1 /\ free_head = used_ring[slot] /\ ~ (supplied < N)
  BY <1>1 DEF InputInv, ControlOK, SlotOK
<1>3. used_ring[slot] \in Desc /\ 0 \in Desc
  <2>1. 0 \in Desc
    BY Sizes DEF Desc
  <2> QED BY <2>1 DEF IndInv, TypeOK, InputInv, InputTypeOK
<1>4. InputTypeOK'
  BY <1>1, <1>3 DEF InputInv, InputTypeOK, IndInv
<1>5. ControlOK' /\ HeadIsBuffer' /\ InitOrder' /\ SlotOK'
  BY <1>1, <1>2 DEF ControlOK, HeadIsBuffer, InitOrder, SlotOK
<1>6. BufferOfDescriptor' /\ EventsOK'
  BY <1>1 DEF InputInv, BufferOfDescriptor, EventsOK, UsedWindow, Pending
<1> QED BY <1>4, <1>5, <1>6 DEF InputInv

-----------------------------------------------------------------------------
(* The device.                                                             *)

\* Between virtio_queue_free and the second read of elem->id the device does
\* not reach the slot: the freed descriptor is not with it, so it has fewer
\* buffers than the ring has slots.
LEMMA FreedSlotKept ==
  ASSUME IndInv, InputInv, ipc = "freed", NEW h \in inflight
  PROVE  \E c \in Counter : /\ next_used = Inc(c) /\ slot = Slot(c)
                            /\ c # used_idx /\ Dist(c, used_idx) < N
<1>1. PICK c \in Counter : /\ next_used = Inc(c) /\ slot = Slot(c)
                           /\ c # used_idx /\ Dist(c, used_idx) <= N
  BY DEF InputInv, SlotOK
<1>2. /\ next_used \in Counter /\ used_idx \in Counter /\ h \in Desc
      /\ used_ring \in [Desc -> Desc] /\ Slot(c) \in Desc
  BY <1>1, SlotType DEF IndInv, TypeOK
<1>3. place[h] = "device" /\ place[used_ring[Slot(c)]] = "free"
  BY <1>1, <1>2 DEF IndInv, RequestsAccounted, InputInv, SlotOK
<1>4. \A d \in UsedWindow : used_ring[Slot(d)] \in Desc /\ place[used_ring[Slot(d)]] = "used"
  <2> SUFFICES ASSUME NEW d \in UsedWindow
               PROVE  used_ring[Slot(d)] \in Desc /\ place[used_ring[Slot(d)]] = "used"
    OBVIOUS
  <2>1. Slot(d) \in Desc
    BY <1>2, WindowType, SlotType DEF UsedWindow
  <2>2. used_ring[Slot(d)] \in UsedHeads
    BY DEF UsedHeads
  <2> QED BY <1>2, <2>1, <2>2 DEF IndInv, RequestsAccounted
<1>5. Window(c, used_idx) = UsedWindow \cup {c}
  BY <1>1, <1>2, WindowShrinks DEF UsedWindow
<1>6. \A d, e \in UsedWindow : used_ring[Slot(d)] = used_ring[Slot(e)] => d = e
  BY DEF IndInv, RequestsAccounted
<1>7. \A d, e \in Window(c, used_idx) : used_ring[Slot(d)] = used_ring[Slot(e)] => d = e
  BY <1>3, <1>4, <1>5, <1>6
<1>8. \A d \in Window(c, used_idx) : used_ring[Slot(d)] # h
  BY <1>3, <1>4, <1>5
<1>9. Dist(c, used_idx) < N
  BY <1>1, <1>2, <1>7, <1>8, WindowRoom
<1> QED BY <1>1, <1>9

\* A new event goes into the buffer of its own descriptor and after the
\* events that are waiting, and touches neither their entries and buffers
\* nor the element the driver is looking at.
LEMMA DevEventStep ==
  ASSUME IndInv, IndInv', InputInv, NEW h \in Desc, DevEvent(h)
  PROVE  InputInv'
<1>1. /\ h \in inflight
      /\ used_ring' = [used_ring EXCEPT ![Slot(used_idx)] = h]
      /\ used_idx' = Inc(used_idx)
      /\ place' = [place EXCEPT ![h] = "used"]
      /\ events' = [events EXCEPT ![addr[h]] = produced]
      /\ produced' = (produced + 1) % K
      /\ UNCHANGED <<addr, ipc, supplied, buf, slot, event, got>>
      /\ UNCHANGED <<pc, free, free_head, free_count, next_used, first, elem>>
  BY DEF DevEvent, DevComplete, Moves, driverVars, threadVars
<1>2. /\ next_used \in Counter /\ used_idx \in Counter /\ used_ring \in [Desc -> Desc]
      /\ Slot(used_idx) \in Desc /\ place \in [Desc -> Places] /\ place[h] = "device"
  BY <1>1, SlotType DEF IndInv, TypeOK, RequestsAccounted
<1>3. /\ addr[h] = h /\ events \in [Desc -> 0..K-1] /\ produced \in 0..K-1
      /\ got \in 0..K-1 /\ slot \in Desc
  BY <1>2 DEF InputInv, BufferOfDescriptor, InputTypeOK
<1>4. /\ events' \in [Desc -> 0..K-1] /\ events'[h] = produced
      /\ \A d \in Desc : d # h => events'[d] = events[d]
  BY <1>1, <1>3
<1>5. Dist(next_used, used_idx) < N /\ Dist(next_used, used_idx) \in Nat
  <2>1. Dist(next_used, used_idx) \in Counter
    BY <1>2, DistFacts
  <2> QED BY <1>1, <2>1, UsedRoom, Sizes DEF Counter
<1>6. \A c \in UsedWindow : /\ c \in Counter /\ Slot(c) \in Desc
                           /\ Slot(c) # Slot(used_idx)
                           /\ used_ring'[Slot(c)] = used_ring[Slot(c)]
                           /\ used_ring[Slot(c)] \in Desc
                           /\ used_ring[Slot(c)] # h
  <2> SUFFICES ASSUME NEW c \in UsedWindow
               PROVE  /\ c \in Counter /\ Slot(c) \in Desc
                      /\ Slot(c) # Slot(used_idx)
                      /\ used_ring'[Slot(c)] = used_ring[Slot(c)]
                      /\ used_ring[Slot(c)] \in Desc
                      /\ used_ring[Slot(c)] # h
    OBVIOUS
  <2>1. c \in Counter /\ Slot(c) \in Desc
    BY <1>2, WindowType, SlotType DEF UsedWindow
  <2>2. Slot(c) # Slot(used_idx)
    BY <1>2, <1>5, SlotFresh DEF UsedWindow
  <2>3. used_ring[Slot(c)] \in UsedHeads
    BY DEF UsedHeads
  <2>4. used_ring[Slot(c)] \in Desc /\ place[used_ring[Slot(c)]] = "used"
    BY <1>2, <2>1, <2>3 DEF IndInv, RequestsAccounted
  <2> QED BY <1>1, <1>2, <2>1, <2>2, <2>4
<1>7. UsedWindow' = UsedWindow \cup {used_idx}
  <2>1. Dist(next_used, used_idx) < W - 1
    BY <1>5, Sizes
  <2> QED BY <1>1, <1>2, <2>1, WindowGrows DEF UsedWindow
<1>8. ipc \in {"got", "copied", "freed"} => used_ring'[slot] = used_ring[slot]
  <2> SUFFICES ASSUME ipc \in {"got", "copied", "freed"}
               PROVE  used_ring'[slot] = used_ring[slot]
    OBVIOUS
  <2>1. \E c \in Counter : /\ next_used = Inc(c) /\ slot = Slot(c)
                           /\ c # used_idx /\ Dist(c, used_idx) < N
    <3>1. CASE ipc = "freed"
      BY <1>1, <3>1, FreedSlotKept
    <3>2. CASE ipc \in {"got", "copied"}
      <4>1. pc = "recv" /\ slot = elem
        BY <3>2 DEF InputInv, ControlOK
      <4>2. \E c \in Counter : /\ next_used = Inc(c) /\ elem = Slot(c)
                               /\ c # used_idx /\ Dist(c, used_idx) <= N
        BY <4>1 DEF IndInv, RingsOK
      <4> QED BY <1>1, <4>1, <4>2, UsedRoom
    <3> QED BY <3>1, <3>2
  <2>2. PICK c \in Counter : /\ next_used = Inc(c) /\ slot = Slot(c)
                             /\ c # used_idx /\ Dist(c, used_idx) < N
    BY <2>1
  <2>3. c \in Window(c, used_idx)
    BY <1>2, <2>2, WindowShrinks
  <2>4. Slot(c) # Slot(used_idx)
    BY <1>2, <2>2, <2>3, SlotFresh
  <2> QED BY <1>1, <1>2, <1>3, <2>2, <2>4
<1>9. (produced + 1) % K \in 0..K-1
  BY <1>3, AheadFacts
<1>10. InputTypeOK'
  BY <1>1, <1>4, <1>9 DEF InputInv, InputTypeOK, IndInv
<1>11. ControlOK' /\ HeadIsBuffer' /\ InitOrder'
  BY <1>1 DEF InputInv, ControlOK, HeadIsBuffer, InitOrder
<1>12. BufferOfDescriptor'
  BY <1>1, <1>2, <1>3 DEF InputInv, BufferOfDescriptor
<1>13. SlotOK'
  <2> SUFFICES ASSUME ipc = "freed" PROVE SlotOK'
    BY <1>1 DEF SlotOK
  <2>1. PICK c \in Counter : /\ next_used = Inc(c) /\ slot = Slot(c)
                             /\ c # used_idx /\ Dist(c, used_idx) < N
    BY <1>1, FreedSlotKept
  <2>2. Dist(c, used_idx) \in Counter /\ Dist(c, used_idx) < W - 1 /\ N \in Nat
    BY <1>2, <2>1, DistFacts, Sizes DEF Counter
  <2>3. Dist(c, Inc(used_idx)) = Dist(c, used_idx) + 1 /\ Inc(used_idx) \in Counter
    BY <1>2, <2>2, DistFacts, IncValue
  <2>4. Dist(c, used_idx) \in Nat
    BY <2>2, Sizes DEF Counter
  <2>5. Dist(c, Inc(used_idx)) <= N /\ Dist(c, Inc(used_idx)) # 0
    BY <2>1, <2>2, <2>3, <2>4
  <2>6. c # Inc(used_idx)
    BY <2>3, <2>5, DistFacts
  <2>7. used_ring[slot] \in Desc /\ place[used_ring[slot]] = "free"
        /\ free_count >= 1 /\ free_head = used_ring[slot]
    BY <1>2, <1>3 DEF InputInv, SlotOK
  <2>8. place'[used_ring[slot]] = "free"
    BY <1>1, <1>2, <2>7
  <2> QED BY <1>1, <1>8, <2>1, <2>5, <2>6, <2>7, <2>8 DEF SlotOK
<1>14. EventsOK'
  <2>1. Pending' = Pending /\ Pending \in 0..1
    BY <1>1 DEF Pending
  <2>2. Ahead(got, produced') = Dist(next_used, Inc(used_idx)) + Pending
    <3>1. Ahead(got, produced) = Dist(next_used, used_idx) + Pending
      BY DEF InputInv, EventsOK
    <3>2. Ahead(got, produced) < K - 1
      BY <1>5, <2>1, <3>1, OneDescriptor, Sizes
    <3>3. Ahead(got, produced') = Ahead(got, produced) + 1
      BY <1>1, <1>3, <3>2, AheadFacts
    <3>4. Dist(next_used, used_idx) < W - 1
      BY <1>5, Sizes
    <3>5. Dist(next_used, Inc(used_idx)) = Dist(next_used, used_idx) + 1
      BY <1>2, <3>4, DistFacts
    <3> QED BY <1>5, <2>1, <3>1, <3>3, <3>5
  <2>3. ASSUME NEW c \in UsedWindow
        PROVE  Ahead(got, events'[used_ring'[Slot(c)]]) = Dist(next_used, c) + Pending
    <3>1. events'[used_ring'[Slot(c)]] = events[used_ring[Slot(c)]]
      BY <1>4, <1>6
    <3> QED BY <3>1 DEF InputInv, EventsOK
  <2>4. Ahead(got, events'[used_ring'[Slot(used_idx)]]) = Dist(next_used, used_idx) + Pending
    <3>1. used_ring'[Slot(used_idx)] = h
      BY <1>1, <1>2
    <3> QED BY <1>4, <3>1 DEF InputInv, EventsOK
  <2>5. ipc = "got" => events'[used_ring'[slot]] = got
    <3> SUFFICES ASSUME ipc = "got" PROVE events'[used_ring'[slot]] = got
      OBVIOUS
    <3>1. used_ring'[slot] = used_ring[slot] /\ used_ring[slot] \in Desc
      BY <1>2, <1>3, <1>8
    <3>2. place[used_ring[slot]] = "elem"
      <4>1. pc = "recv" /\ slot = elem
        BY DEF InputInv, ControlOK
      <4> QED BY <3>1, <4>1 DEF IndInv, RequestsAccounted, ElemHeads
    <3>3. used_ring[slot] # h
      BY <1>2, <3>2
    <3> QED BY <1>4, <3>1, <3>3 DEF InputInv, EventsOK
  <2> QED BY <1>1, <1>7, <2>1, <2>2, <2>3, <2>4, <2>5 DEF EventsOK
<1> QED BY <1>10, <1>11, <1>12, <1>13, <1>14 DEF InputInv

\* The device's other steps.
LEMMA DevQueueStep ==
  ASSUME IndInv, IndInv', InputInv, DevQueue
  PROVE  InputInv'
<1> USE DEF DevQueue, driverVars, descVars, availVars, usedVars, threadVars, devVars, histVars
<1>1. TypeOK'
  BY DEF IndInv
<1>2. CASE DevWake \/ DevIdle \/ DevRecheck \/ DevInterrupt
  BY <1>1, <1>2, InputFrame DEF DevWake, DevIdle, DevRecheck, DevInterrupt
<1>3. CASE DevPop
  <2> DEFINE h0 == avail_ring[Slot(last_avail)]
  <2>1. h0 \in Desc /\ place \in [Desc -> Places]
    BY SlotType DEF IndInv, TypeOK
  <2>2. place[h0] = "avail"
    <3>1. last_avail \in AvailWindow
      BY <1>3, WindowShrinks DEF AvailWindow, DevPop, IndInv, TypeOK
    <3>2. h0 \in AvailHeads
      BY <3>1 DEF AvailHeads
    <3> QED BY <2>1, <3>2 DEF IndInv, RequestsAccounted
  <2>3. place' = [place EXCEPT ![h0] = "device"]
    BY <1>3 DEF DevPop, Moves
  <2> HIDE DEF h0
  <2>4. \A d \in Desc :
           /\ place'[d] \in {"avail", "device", "used", "elem"}
                => place[d] \in {"avail", "device", "used", "elem"}
           /\ place[d] = "free" => place'[d] = "free"
    BY <2>1, <2>2, <2>3
  <2> QED BY <1>1, <1>3, <2>4, InputFrame DEF DevPop
<1> QED BY <1>2, <1>3

-----------------------------------------------------------------------------
(* The theorems.                                                           *)

\* Every step of the driver and of the device keeps the invariant.
LEMMA NextInputInv == IndInv /\ InputInv /\ [InputNext]_allVars => InputInv'
<1> SUFFICES ASSUME IndInv, InputInv, [InputNext]_allVars PROVE InputInv'
  OBVIOUS
<1>1. IndInv'
  BY InputStep, NextIndInv
<1>2. CASE Supply
  BY <1>1, <1>2, SupplyAllocStep, SupplyWritevStep, SupplySendStep, SupplyReturnStep DEF Supply
<1>3. CASE Recv
  BY <1>1, <1>3, RecvElemStep, RecvCopyStep, RecvFreeStep, RecvResupplyStep DEF Recv
<1>4. CASE wait_event \/ handle_event
  BY <1>1, <1>4, LoopStep
<1>5. CASE DevQueue
  BY <1>1, <1>5, DevQueueStep
<1>6. ASSUME NEW h \in Desc, DevEvent(h) PROVE InputInv'
  BY <1>1, <1>6, DevEventStep
<1>7. CASE UNCHANGED allVars
  <2>1. TypeOK'
    BY <1>1 DEF IndInv
  <2> QED BY <1>7, <2>1, InputFrame DEF allVars, vars, driverVars, usedVars, threadVars, histVars
<1> QED BY <1>2, <1>3, <1>4, <1>5, <1>6, <1>7 DEF InputNext

\* Both invariants hold in every reachable state of the input driver.
THEOREM InputInvHolds == InputSpec => [](IndInv /\ InputInv)
<1>1. InputInit => IndInv /\ InputInv
  BY InitIndInv, InitInputInv DEF InputInit
<1>2. IndInv /\ InputInv /\ [InputNext]_allVars => IndInv' /\ InputInv'
  BY InputStep, NextIndInv, NextInputInv
<1> QED BY <1>1, <1>2, PTL DEF InputSpec

\* Every variable of the input driver keeps its kind, those of its queue too.
THEOREM InputTypeCorrect == InputSpec => []InputTypeOK
<1>1. IndInv /\ InputInv => InputTypeOK
  BY DEF InputInv
<1> QED BY <1>1, InputInvHolds, PTL

\* The assertion in supply_buffer never fails, for every queue size.
THEOREM SupplyNeverFails == InputSpec => []SupplySucceeds
<1>1. IndInv /\ InputInv => SupplySucceeds
  BY DEF InputInv, HeadIsBuffer, SupplySucceeds
<1> QED BY <1>1, InputInvHolds, PTL

\* Descriptor d carries events[d] whenever the device has it or its
\* completion is read, although virtio-input.c stores this nowhere.
THEOREM DescriptorCarriesBuffer == InputSpec => []BufferOfDescriptor
<1>1. IndInv /\ InputInv => BufferOfDescriptor
  BY DEF InputInv
<1> QED BY <1>1, InputInvHolds, PTL

\* virtio_input_recv returns each event of the device exactly once, in
\* order, for every queue size and every number of events in flight.
THEOREM EventsReturnedInOrder == InputSpec => EventsInOrder
<1>1. IndInv /\ InputInv /\ [InputNext]_allVars => [got' # got => event' = got]_allVars
  <2> SUFFICES ASSUME InputInv, InputNext, got' # got PROVE event' = got
    BY DEF allVars, inputVars
  <2>1. recv_copy
    BY DEF InputNext, Supply, Recv, supply_alloc, supply_writev, supply_send,
       supply_return, wait_event, handle_event, recv_elem, recv_free, recv_resupply,
       DevQueue, DevEvent, inputVars
  <2> QED BY <2>1 DEF recv_copy, InputInv, EventsOK
<1> QED BY <1>1, InputInvHolds, PTL DEF InputSpec, EventsInOrder

-----------------------------------------------------------------------------
(***************************************************************************)
(* Virtio9p.                                                               *)
(***************************************************************************)

\* Where the queue's thread is during a call.
CallControlOK ==
  /\ step \in {"ready", "wait", "recv"} => pc = "idle"
  /\ step = "writev" => pc = "alloc"
  /\ step = "send" => pc \in {"written", "ring", "notify"}
  /\ step = "event" => pc = "event"
  /\ step = "answered" => pc = "recv"
  /\ step # "none"

\* The queue has one request, of two descriptors, and none between calls.
OneRequest ==
  /\ held = {}
  /\ free_count = IF step = "ready" THEN N ELSE N - 2
  /\ \A d \in Desc : place[d] # "free" => step # "ready" /\ d = req_id
  /\ step # "ready" =>
       /\ place[req_id] # "free"
       /\ Len(chain[req_id]) = 2 /\ chain[req_id][2] = res_id

\* Once there is an answer there is one interrupt for it, on its way, at the
\* eventfd, or read; before there is none.
OneInterrupt ==
  /\ irq => ~ raise
  /\ irq \/ raise => step \in {"send", "wait"} /\ place[req_id] = "used"
  /\ step \in {"event", "recv"} => place[req_id] = "used"

\* What the buffers of the call hold.
MessagesOK ==
  step # "ready" =>
    /\ msgs[req_id] = Msg(req_id, call, "request")
    /\ place[req_id] \in {"used", "elem"} =>
         \E kind \in {"ok", "error"} : msgs[res_id] = Msg(req_id, call, kind)

CallInv ==
  /\ CallTypeOK
  /\ CallControlOK
  /\ OneRequest
  /\ OneInterrupt
  /\ MessagesOK

\* The constants: a call takes two descriptors.
LEMMA TwoDescriptors == N >= 2 /\ 2 \in IovCounts /\ 1 \in 0..N
<1>1. <<2, 1>> \in Shapes /\ <<2, 1>>[1] = 2
  BY CallAssumption
<1>2. 2 \in IovCounts
  BY <1>1 DEF IovCounts
<1>3. 2 \in 1..N
  BY <1>2, SizeAssumption DEF IovCounts
<1> QED BY <1>2, <1>3, Sizes

\* The request of the call has two different descriptors, linked in the table
\* from the moment virtio_9p_alloc took them.
LEMMA RequestChain ==
  ASSUME IndInv, CallInv, step # "ready"
  PROVE  /\ req_id \in Desc /\ res_id \in Desc /\ req_id # res_id
         /\ chain[req_id][1] = req_id /\ next[req_id] = res_id
<1>1. req_id \in Desc /\ res_id \in Desc /\ req_id \in Outstanding
  BY DEF CallInv, CallTypeOK, OneRequest, Outstanding
<1>2. Len(chain[req_id]) = 2 /\ chain[req_id][2] = res_id
  BY DEF CallInv, OneRequest
<1>3. chain[req_id][1] = req_id /\ next[chain[req_id][1]] = chain[req_id][2]
  BY <1>1, <1>2 DEF IndInv, ChainsIntact
<1>4. chain[req_id][1] # chain[req_id][2]
  BY <1>1, <1>2 DEF IndInv, NoSharing
<1> QED BY <1>1, <1>2, <1>3, <1>4

\* The assertion after the loop of virtio_9p_sendrecv: the element it got is
\* the completion of its own request.
LEMMA ElementIsOwn ==
  ASSUME IndInv, CallInv, step = "answered"
  PROVE  req_id \in Desc /\ used_ring[elem] = req_id /\ place[req_id] = "elem"
<1>1. pc = "recv" /\ used_ring[elem] \in Desc /\ req_id \in Desc
  BY DEF CallInv, CallControlOK, CallTypeOK, TypeOK
<1>2. place[used_ring[elem]] = "elem"
  BY <1>1 DEF IndInv, RequestsAccounted, ElemHeads
<1> QED BY <1>1, <1>2 DEF CallInv, OneRequest

\* Every step of a call is one of Virtqueue's: in particular the descriptors
\* are freed by the id of the element.
LEMMA CallStep ==
  ASSUME IndInv, CallInv, [CallNext]_sessionVars
  PROVE  [Next]_vars
<1>1. CASE virtio_9p_alloc
  BY <1>1, TwoDescriptors DEF virtio_9p_alloc, Next, Driver
<1>2. CASE sendrecv
  BY <1>2, TwoDescriptors DEF sendrecv, sendrecv_writev, sendrecv_send, sendrecv_clear,
     sendrecv_event, sendrecv_recv, Next, Driver, Submit
<1>3. CASE Return
  <2>1. step = "answered" /\ virtio_9p_free
    BY <1>3 DEF Return, sendrecv_error, virtio_9p_version, virtio_9p_attach, virtio_9p_statfs
  <2>2. pc = "recv" /\ used_ring[elem] = req_id
    BY <2>1, ElementIsOwn DEF CallInv, CallControlOK
  <2>3. FreeElem
    BY <2>1, <2>2 DEF virtio_9p_free, FreeElem
  <2> QED BY <2>3 DEF Next, Driver, Collect
<1>4. CASE ServeQueue
  BY <1>4 DEF ServeQueue, Next, Device
<1>5. ASSUME NEW h \in Desc, DevAnswer(h) PROVE Next
  BY <1>5 DEF DevAnswer, Next, Device
<1>6. CASE UNCHANGED sessionVars
  BY <1>6 DEF sessionVars
<1> QED BY <1>1, <1>2, <1>3, <1>4, <1>5, <1>6 DEF CallNext

\* After virtio_9p_init has found the device, before the version request.
LEMMA InitCallInv == CallInit => CallInv
<1> SUFFICES ASSUME CallInit PROVE CallInv
  OBVIOUS
<1>1. IndInv /\ Init /\ NoCall("ready")
  BY InitIndInv DEF CallInit
<1>2. 0 \in Desc /\ 0 \in 0..Calls-1
  BY CallAssumption, Sizes DEF Desc
<1>3. CallTypeOK
  BY <1>1, <1>2 DEF IndInv, NoCall, CallTypeOK, Message, Msg
<1> QED BY <1>1, <1>3 DEF Init, NoCall, CallInv, CallControlOK, OneRequest, OneInterrupt,
           MessagesOK

-----------------------------------------------------------------------------
(* The steps of a call.                                                    *)

\* The first two descriptors of the free list, which has all of them.
LEMMA CallAllocStep ==
  ASSUME IndInv, IndInv', CallInv, virtio_9p_alloc
  PROVE  CallInv'
<1>1. /\ step = "ready" /\ step' = "writev" /\ pc = "idle" /\ pc' = "alloc"
      /\ req_id' = free_head /\ res_id' = next[free_head]
      /\ free_count' = free_count - 2
      /\ chain' = [chain EXCEPT ![free_head] = [i \in 1..2 |-> free[i]]]
      /\ place' = [place EXCEPT ![free_head] = "built"]
      /\ msgs' = [msgs EXCEPT ![req_id'] = Msg(req_id', call, "request")]
      /\ UNCHANGED <<call, session, held, irq, raise>>
  BY DEF virtio_9p_alloc, virtio_queue_alloc, Moves, devVars
<1>2. /\ free_count = N /\ held = {} /\ \A d \in Desc : place[d] = "free"
      /\ ~ irq /\ ~ raise
  BY <1>1 DEF CallInv, OneRequest, OneInterrupt
<1>3. /\ free_head = free[1] /\ next[free[1]] = free[2]
      /\ 1 \in 1..Len(free) /\ 2 \in 1..Len(free)
  BY <1>2, TwoDescriptors, Sizes DEF IndInv, FreeListOK
<1>4. free[1] \in Desc /\ free[2] \in Desc
  BY <1>3, ElementOfSeq DEF IndInv, TypeOK
<1>5. /\ req_id' \in Desc /\ res_id' \in Desc
      /\ call \in 0..Calls-1 /\ msgs \in [Desc -> Message]
      /\ chain \in [Desc -> Seq(Desc)] /\ place \in [Desc -> Places]
  BY <1>1, <1>3, <1>4 DEF CallInv, CallTypeOK, IndInv, TypeOK
<1>6. Msg(req_id', call, "request") \in Message
  BY <1>5 DEF Message, Msg
<1>7. CallTypeOK'
  BY <1>1, <1>5, <1>6 DEF CallInv, CallTypeOK, IndInv
<1>8. Len(chain'[req_id']) = 2 /\ chain'[req_id'][2] = res_id'
  <2> DEFINE c == [i \in 1..2 |-> free[i]]
  <2>1. c \in [1..2 -> Desc]
    BY <1>4
  <2>2. Len(c) = 2
    BY <2>1, FunctionIsSeq
  <2> QED BY <1>1, <1>3, <1>5, <2>2
<1>9. OneRequest'
  <2>1. \A d \in Desc : place'[d] # "free" => d = req_id'
    BY <1>1, <1>2, <1>5
  <2>2. place'[req_id'] = "built"
    BY <1>1, <1>5
  <2>3. free_count' = N - 2 /\ held' = {}
    BY <1>1, <1>2
  <2> QED BY <1>1, <1>8, <2>1, <2>2, <2>3 DEF OneRequest
<1>10. MessagesOK'
  <2>1. place'[req_id'] = "built" /\ msgs'[req_id'] = Msg(req_id', call, "request")
    BY <1>1, <1>5
  <2> QED BY <1>1, <2>1 DEF MessagesOK
<1> QED BY <1>1, <1>2, <1>7, <1>9, <1>10 DEF CallInv, CallControlOK, OneInterrupt

\* The steps between the first and the last of a call: the descriptors stay
\* those of its request, and its answer is not touched.
LEMMA CallFrame ==
  ASSUME CallInv, TypeOK', CallControlOK', OneInterrupt',
         step' = step \/ (/\ step \notin {"ready"}
                          /\ step' \in {"writev", "send", "wait", "event", "recv", "answered"}),
         \A d \in Desc : place'[d] # "free" <=> place[d] # "free",
         place'[req_id] \in {"used", "elem"} => place[req_id] \in {"used", "elem"},
         UNCHANGED <<held, free_count, chain, msgs, req_id, res_id, call, session>>
  PROVE  CallInv'
<1>1. CallTypeOK'
  BY DEF CallInv, CallTypeOK
<1>2. req_id \in Desc
  BY DEF CallInv, CallTypeOK
<1>3. OneRequest' /\ MessagesOK'
  BY <1>2 DEF CallInv, OneRequest, MessagesOK
<1> QED BY <1>1, <1>3 DEF CallInv

\* virtio_9p_sendrecv up to the notification.
LEMMA CallSendStep ==
  ASSUME IndInv, IndInv', CallInv, sendrecv_writev \/ sendrecv_send
  PROVE  CallInv'
<1>1. /\ TypeOK' /\ place \in [Desc -> Places] /\ first \in Desc
  BY DEF IndInv, TypeOK
<1>2. /\ UNCHANGED <<held, free_count, chain, msgs, req_id, res_id, call, session>>
      /\ UNCHANGED <<irq, raise>>
      /\ \/ pc = "alloc" /\ pc' = "written" /\ step = "writev" /\ step' = "send"
         \/ pc = "written" /\ pc' = "ring" /\ step = "send" /\ step' = "send"
         \/ pc = "ring" /\ pc' = "notify" /\ step = "send" /\ step' = "send"
         \/ pc = "notify" /\ pc' = "idle" /\ step = "send" /\ step' = "wait"
      /\ \/ place' = place
         \/ pc = "ring" /\ place' = [place EXCEPT ![first] = "avail"]
  BY DEF sendrecv_writev, sendrecv_send, virtio_queue_writev, virtio_queue_send_ring,
         virtio_queue_send_idx, virtio_queue_send_notify, Moves, driverVars, devVars, histVars
<1>3. CallControlOK'
  BY <1>2 DEF CallControlOK
<1>4. pc = "ring" => place[first] = "built" /\ first = req_id
  <2>1. pc = "ring" => place[first] = "built"
    BY <1>1 DEF IndInv, RequestsAccounted, BuiltHeads
  <2> QED BY <1>1, <2>1 DEF CallInv, OneRequest
<1>5. /\ \A d \in Desc : place'[d] # "free" <=> place[d] # "free"
      /\ place'[req_id] \in {"used", "elem"} => place[req_id] \in {"used", "elem"}
      /\ place[req_id] = "used" => place'[req_id] = "used"
  BY <1>1, <1>2, <1>4
<1>6. OneInterrupt'
  BY <1>2, <1>5 DEF CallInv, OneInterrupt
<1> QED BY <1>1, <1>2, <1>3, <1>5, <1>6, CallFrame

\* Reading the eventfd and used->idx: there was an interrupt, so there is the
\* answer.
LEMMA CallClearStep ==
  ASSUME IndInv, IndInv', CallInv, sendrecv_clear \/ sendrecv_event
  PROVE  CallInv'
<1>1. /\ TypeOK'
      /\ UNCHANGED <<held, free_count, place, chain, msgs, req_id, res_id, call, session, raise>>
      /\ \/ pc' = "event" /\ step \in {"wait", "recv"} /\ step' = "event" /\ irq /\ ~ irq'
         \/ pc' = "idle" /\ step = "event" /\ step' = "recv" /\ irq' = irq
  BY DEF sendrecv_clear, sendrecv_event, vfio_pci_dev_clear_irq,
         virtio_queue_handle_event, driverVars, devVars, histVars, IndInv
<1>2. CallControlOK'
  BY <1>1 DEF CallControlOK
<1>3. OneInterrupt'
  BY <1>1 DEF CallInv, OneInterrupt
<1> QED BY <1>1, <1>2, <1>3, CallFrame

\* virtio_queue_recv finds the only request there is.
LEMMA CallRecvStep ==
  ASSUME IndInv, IndInv', CallInv, sendrecv_recv
  PROVE  CallInv'
<1> DEFINE h0 == used_ring[Slot(next_used)]
<1>1. /\ TypeOK' /\ h0 \in Desc /\ req_id \in Desc /\ place \in [Desc -> Places]
  BY SlotType DEF IndInv, TypeOK, CallInv, CallTypeOK
<1>2. /\ step = "recv" /\ step' = "answered" /\ pc' = "recv"
      /\ place' = [place EXCEPT ![h0] = "elem"]
      /\ UNCHANGED <<held, free_count, chain, msgs, req_id, res_id, call, session, irq, raise>>
  BY DEF sendrecv_recv, virtio_queue_recv, Moves, devVars
<1>3. \A d \in Desc : place'[d] # "free" => place[d] # "free" \/ d = h0
  BY <1>1, <1>2
<1>4. place[req_id] = "used" /\ ~ irq /\ ~ raise
  BY <1>2 DEF CallInv, OneInterrupt
<1>5. h0 = req_id
  <2>1. next_used # used_index /\ next_used \in Counter /\ used_index \in Counter
        /\ used_idx \in Counter
    BY DEF sendrecv_recv, virtio_queue_recv, IndInv, TypeOK
  <2>2. /\ Dist(next_used, used_idx) \in Counter /\ Dist(next_used, used_index) \in Counter
        /\ Dist(next_used, used_index) # 0
    BY <2>1, DistFacts
  <2>3. Dist(next_used, used_idx) # 0
    BY <2>2, Sizes DEF IndInv, RingsOK, Counter
  <2>4. next_used # used_idx
    BY <2>1, <2>3, DistFacts
  <2>5. next_used \in UsedWindow
    BY <2>1, <2>4, WindowShrinks DEF UsedWindow
  <2>6. place[h0] = "used"
    BY <1>1, <2>5 DEF UsedHeads, IndInv, RequestsAccounted
  <2> QED BY <1>1, <2>6 DEF CallInv, OneRequest
<1>6. /\ \A d \in Desc : place'[d] # "free" <=> place[d] # "free"
      /\ place'[req_id] \in {"used", "elem"} => place[req_id] \in {"used", "elem"}
  BY <1>1, <1>2, <1>4, <1>5
<1>7. CallControlOK' /\ OneInterrupt'
  BY <1>2, <1>4 DEF CallControlOK, OneInterrupt
<1> QED BY <1>1, <1>2, <1>6, <1>7, CallFrame

\* virtio_queue_free gives both descriptors back, so that all are free.
LEMMA CallReturnStep ==
  ASSUME IndInv, IndInv', CallInv, Return
  PROVE  CallInv'
<1>1. /\ step = "answered" /\ virtio_queue_free(req_id)
      /\ pc' = "idle" /\ step' = "ready" /\ call' = (call + 1) % Calls
      /\ req_id' = 0 /\ res_id' = 0 /\ UNCHANGED <<held, msgs>>
      /\ session' \in {"attach", "served", session}
  BY DEF Return, sendrecv_error, virtio_9p_version, virtio_9p_attach, virtio_9p_statfs,
         virtio_9p_free
<1>2. /\ place' = [place EXCEPT ![req_id] = "free"]
      /\ irq' = irq /\ raise' = raise
  BY <1>1 DEF virtio_queue_free, Moves, devVars
<1>3. /\ req_id \in Desc /\ pc = "recv" /\ place[req_id] = "elem"
      /\ place \in [Desc -> Places] /\ 0 \in Desc /\ call \in 0..Calls-1
      /\ msgs \in [Desc -> Message] /\ session \in {"version", "attach", "served"}
  <2>1. req_id \in Desc /\ place[req_id] = "elem"
    BY <1>1, ElementIsOwn
  <2>2. place \in [Desc -> Places] /\ 0 \in Desc
    BY Sizes DEF IndInv, TypeOK, Desc
  <2> QED BY <1>1, <2>1, <2>2 DEF CallInv, CallControlOK, CallTypeOK
<1>4. free_count' = free_count + 2
  <2>1. Len(chain[req_id]) = 2
    BY <1>1 DEF CallInv, OneRequest
  <2> QED BY <1>1, <1>3, <2>1, FreeWalk
<1>5. free_count' = N
  BY <1>1, <1>4, TwoDescriptors, Sizes DEF CallInv, OneRequest
<1>6. (call + 1) % Calls \in 0..Calls-1
  BY <1>3, CallAssumption
<1>7. CallTypeOK'
  BY <1>1, <1>3, <1>6 DEF CallTypeOK, IndInv
<1>8. OneRequest'
  <2>1. \A d \in Desc : place'[d] = "free"
    BY <1>2, <1>3 DEF CallInv, OneRequest
  <2> QED BY <1>1, <1>5, <2>1 DEF CallInv, OneRequest
<1>9. OneInterrupt'
  BY <1>1, <1>2, <1>3 DEF CallInv, OneInterrupt
<1> QED BY <1>1, <1>7, <1>8, <1>9 DEF CallInv, CallControlOK, MessagesOK

-----------------------------------------------------------------------------
(* The server.                                                             *)

\* The server answers the request it was given, once, and the interrupt for
\* it is the only one.
LEMMA DevAnswerStep ==
  ASSUME IndInv, IndInv', CallInv, NEW h \in Desc, DevAnswer(h)
  PROVE  CallInv'
<1>1. /\ h \in inflight /\ place' = [place EXCEPT ![h] = "used"]
      /\ raise' = TRUE /\ irq' = irq
      /\ UNCHANGED <<pc, held, free_count, chain, req_id, res_id, call, step, session>>
  BY DEF DevAnswer, DevComplete, Moves, driverVars, threadVars
<1>2. PICK kind \in {"ok", "error"} :
        msgs' = [msgs EXCEPT ![next[h]] = Msg(msgs[h].tag, msgs[h].call, kind)]
  BY DEF DevAnswer
<1>3. place[h] = "device" /\ place \in [Desc -> Places] /\ TypeOK'
  BY <1>1 DEF IndInv, RequestsAccounted, TypeOK
<1>4. h = req_id /\ step # "ready"
  BY <1>3 DEF CallInv, OneRequest
<1>5. next[h] = res_id /\ req_id # res_id /\ res_id \in Desc
  BY <1>4, RequestChain
<1>6. /\ msgs[req_id] = Msg(req_id, call, "request") /\ msgs \in [Desc -> Message]
      /\ call \in 0..Calls-1
  BY <1>4 DEF CallInv, MessagesOK, CallTypeOK
<1>7. msgs[h].tag = req_id /\ msgs[h].call = call
  BY <1>4, <1>6 DEF Msg
<1>8. msgs' = [msgs EXCEPT ![res_id] = Msg(req_id, call, kind)]
  BY <1>2, <1>5, <1>7
<1>9. Msg(req_id, call, kind) \in Message
  BY <1>2, <1>4, <1>6 DEF Message, Msg
<1>10. CallTypeOK'
  BY <1>1, <1>3, <1>8, <1>9 DEF CallInv, CallTypeOK
<1>11. step \in {"send", "wait"} /\ ~ irq
  <2>1. place[req_id] = "device"
    BY <1>3, <1>4
  <2>2. ~ irq /\ step \notin {"event", "recv"}
    BY <2>1 DEF CallInv, OneInterrupt
  <2>3. step # "answered"
    BY <2>1, ElementIsOwn
  <2>4. step # "writev"
    <3>1. pc = "alloc" => place[first] = "built"
      BY DEF IndInv, TypeOK, RequestsAccounted, BuiltHeads
    <3>2. pc = "alloc" => first = req_id
      BY <3>1 DEF CallInv, OneRequest, IndInv, TypeOK
    <3> QED BY <2>1, <3>1, <3>2 DEF CallInv, CallControlOK
  <2> QED BY <1>4, <2>2, <2>3, <2>4 DEF CallInv, CallTypeOK, CallControlOK
<1>12. OneRequest'
  BY <1>1, <1>3, <1>4 DEF CallInv, OneRequest
<1>13. OneInterrupt'
  BY <1>1, <1>3, <1>4, <1>11 DEF OneInterrupt
<1>14. MessagesOK'
  BY <1>1, <1>2, <1>4, <1>5, <1>6, <1>8 DEF MessagesOK
<1> QED BY <1>1, <1>10, <1>12, <1>13, <1>14 DEF CallInv, CallControlOK

\* The server's other steps, the interrupt among them.
LEMMA ServeQueueStep ==
  ASSUME IndInv, IndInv', CallInv, ServeQueue
  PROVE  CallInv'
<1> USE DEF ServeQueue, driverVars, descVars, availVars, usedVars, threadVars, devVars,
            histVars, callVars
<1>1. /\ TypeOK' /\ CallControlOK' /\ req_id \in Desc
      /\ UNCHANGED <<pc, held, free_count, chain, msgs, req_id, res_id, call, step, session>>
  BY DEF DevWake, DevPop, DevIdle, DevRecheck, DevInterrupt, CallInv, CallControlOK, IndInv,
         CallTypeOK
<1>2. CASE DevWake \/ DevIdle \/ DevRecheck
  <2>1. OneInterrupt' /\ place' = place
    BY <1>1, <1>2 DEF DevWake, DevIdle, DevRecheck, CallInv, OneInterrupt
  <2> QED BY <1>1, <2>1, CallFrame
<1>3. CASE DevInterrupt
  <2>1. OneInterrupt' /\ place' = place
    BY <1>1, <1>3 DEF DevInterrupt, CallInv, OneInterrupt
  <2> QED BY <1>1, <2>1, CallFrame
<1>4. CASE DevPop
  <2> DEFINE h0 == avail_ring[Slot(last_avail)]
  <2>1. h0 \in Desc /\ place \in [Desc -> Places]
    BY SlotType DEF IndInv, TypeOK
  <2>2. place[h0] = "avail"
    <3>1. last_avail \in AvailWindow
      BY <1>4, WindowShrinks DEF AvailWindow, DevPop, IndInv, TypeOK
    <3> QED BY <2>1, <3>1 DEF AvailHeads, IndInv, RequestsAccounted
  <2>3. place' = [place EXCEPT ![h0] = "device"] /\ irq' = irq /\ raise' = raise
    BY <1>4 DEF DevPop, Moves
  <2> HIDE DEF h0
  <2>4. /\ \A d \in Desc : place'[d] # "free" <=> place[d] # "free"
        /\ place'[req_id] \in {"used", "elem"} => place[req_id] \in {"used", "elem"}
        /\ place[req_id] = "used" => place'[req_id] = "used"
    BY <1>1, <2>1, <2>2, <2>3
  <2>5. OneInterrupt'
    BY <1>1, <2>3, <2>4 DEF CallInv, OneInterrupt
  <2> QED BY <1>1, <2>4, <2>5, CallFrame
<1> QED BY <1>2, <1>3, <1>4

-----------------------------------------------------------------------------
(* The theorems.                                                           *)

\* Every step of a call and of the server keeps the invariant.
LEMMA NextCallInv == IndInv /\ CallInv /\ [CallNext]_sessionVars => IndInv' /\ CallInv'
<1> SUFFICES ASSUME IndInv, CallInv, [CallNext]_sessionVars PROVE IndInv' /\ CallInv'
  OBVIOUS
<1>1. IndInv'
  BY CallStep, NextIndInv
<1>2. CASE virtio_9p_alloc
  BY <1>1, <1>2, CallAllocStep
<1>3. CASE sendrecv
  BY <1>1, <1>3, CallSendStep, CallClearStep, CallRecvStep DEF sendrecv
<1>4. CASE Return
  BY <1>1, <1>4, CallReturnStep
<1>5. CASE ServeQueue
  BY <1>1, <1>5, ServeQueueStep
<1>6. ASSUME NEW h \in Desc, DevAnswer(h) PROVE CallInv'
  BY <1>1, <1>6, DevAnswerStep
<1>7. CASE UNCHANGED sessionVars
  BY <1>1, <1>7, CallFrame DEF sessionVars, vars, callVars, driverVars, devVars, threadVars,
     histVars, IndInv, CallInv, CallControlOK, OneInterrupt
<1> QED BY <1>1, <1>2, <1>3, <1>4, <1>5, <1>6, <1>7 DEF CallNext

\* Both invariants hold in every reachable state of the calls.
THEOREM CallInvHolds == CallSpec => [](IndInv /\ CallInv)
<1>1. CallInit => IndInv /\ CallInv
  BY InitIndInv, InitCallInv DEF CallInit
<1> QED BY <1>1, NextCallInv, PTL DEF CallSpec

\* virtio_9p_sendrecv and its callers use the queue only in the ways Virtqueue
\* allows.  The step that frees by req_id is one of Virtqueue's because the
\* completion was that of req_id, which the code asserts.
THEOREM CallsUseQueue == CallSpec => Spec
<1>1. CallInit => Init
  BY DEF CallInit
<1>2. IndInv /\ CallInv /\ [CallNext]_sessionVars => [Next]_vars
  BY CallStep
<1> QED BY <1>1, <1>2, CallInvHolds, PTL DEF CallSpec, Spec

\* For every size of the queue, a call of the 9P server gets the answer to its
\* own request, and when it has ended, in an answer or an error, all
\* descriptors are free and no interrupt is left for the next one.
THEOREM CallsKeptApart == CallSpec => []CallsApart
<1>1. IndInv /\ CallInv => CallsAnswered
  <2> SUFFICES ASSUME IndInv, CallInv PROVE CallsAnswered
    OBVIOUS
  <2>1. step = "answered" => used_ring[elem] = req_id /\ place[req_id] = "elem"
    BY ElementIsOwn
  <2> QED BY <2>1 DEF CallInv, MessagesOK, CallsAnswered
<1>2. IndInv /\ CallInv => CallLeavesNothing
  <2> SUFFICES ASSUME IndInv, CallInv, step = "ready"
               PROVE  /\ free_count = N /\ \A d \in Desc : place[d] = "free"
                      /\ inflight = {} /\ ~ irq /\ ~ raise
    BY DEF CallLeavesNothing
  <2>1. free_count = N /\ \A d \in Desc : place[d] = "free"
    BY DEF CallInv, OneRequest
  <2>2. ~ irq /\ ~ raise
    BY DEF CallInv, OneInterrupt
  <2>3. inflight = {}
    BY <2>1 DEF IndInv, TypeOK, RequestsAccounted
  <2> QED BY <2>1, <2>2, <2>3
<1>3. IndInv /\ CallInv => CallsApart
  BY <1>1, <1>2 DEF CallsApart
<1> QED BY <1>3, CallInvHolds, PTL

=============================================================================
