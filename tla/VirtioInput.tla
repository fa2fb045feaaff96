----------------------------- MODULE VirtioInput -----------------------------
(***************************************************************************)
(* The input driver of code/virtio-input.c on top of its event queue, and  *)
(* the loop that calls it (handle_keyboard_events, handle_mouse_events).   *)
(*                                                                         *)
(* The driver has an array of event buffers, one per descriptor, and finds *)
(* the buffer of a completion by the descriptor's number.  Nothing in the  *)
(* code stores which buffer a descriptor carries: it relies on the order   *)
(* in which virtio_queue_free and virtio_queue_alloc use the free list.    *)
(***************************************************************************)
EXTENDS Virtqueue

CONSTANT K  \* events are numbered modulo K

\* Every request is one buffer the device writes; at most N events are in
\* the buffers, and K tells them and the next one apart.
ASSUME InputAssumption ==
  /\ <<1, 0>> \in Shapes
  /\ K \in Nat /\ K > N + 1

VARIABLES
  addr,     \* desc[].addr, as an index of events[]
  events,   \* the event buffers: the number of the event in each
  ipc,      \* where the driver is, between the calls of Virtqueue
  supplied, \* the loop variable of virtio_input_dev_init, N after it
  buf,      \* the argument of supply_buffer
  slot,     \* elem in virtio_input_recv: a pointer into the used ring
  event,    \* the event virtio_input_recv returns
  produced, \* how many events the device has written
  got       \* history: how many events virtio_input_recv has returned

inputVars == <<addr, events, ipc, supplied, buf, slot, event, produced, got>>
allVars   == <<vars, inputVars>>

InputInit ==
  /\ Init
  /\ addr = [d \in Desc |-> 0]
  /\ events = [d \in Desc |-> 0]
  /\ ipc = "supply" /\ supplied = 0 /\ buf = 0
  /\ slot = 0 /\ event = 0 /\ produced = 0 /\ got = 0

-----------------------------------------------------------------------------
(* Mutated forms of the actions below, used by no specification.           *)

\* The buffer is taken for the ring slot instead of the descriptor.
recv_copy_BySlot ==
  /\ ipc = "got"
  /\ event' = events[slot]
  /\ got' = (got + 1) % K
  /\ ipc' = "copied"
  /\ UNCHANGED <<vars, addr, events, supplied, buf, slot, produced>>

\* The buffer supplied is that of the ring slot.
recv_resupply_BySlot ==
  /\ ipc = "freed"
  /\ buf' = slot
  /\ ipc' = "supply" /\ slot' = 0
  /\ UNCHANGED <<vars, addr, events, supplied, event, produced, got>>

-----------------------------------------------------------------------------
(* supply_buffer(&events[buf])                                             *)

\* assert(index >= 0): SupplySucceeds says that the guard of
\* virtio_queue_alloc holds here.
supply_alloc ==
  /\ ipc = "supply"
  /\ virtio_queue_alloc(1)
  /\ UNCHANGED inputVars

supply_writev ==
  /\ ipc = "supply"
  /\ virtio_queue_writev(0)
  /\ addr' = [addr EXCEPT ![first] = buf]
  /\ UNCHANGED <<events, ipc, supplied, buf, slot, event, produced, got>>

supply_send ==
  /\ ipc = "supply"
  /\ virtio_queue_send_ring \/ virtio_queue_send_idx
  /\ UNCHANGED inputVars

\* The notification ends supply_buffer: virtio_input_dev_init goes on with
\* the next buffer, virtio_input_recv returns to the event loop.
supply_return ==
  /\ ipc = "supply"
  /\ virtio_queue_send_notify
  /\ \/ /\ supplied < N - 1
        /\ supplied' = supplied + 1 /\ buf' = supplied + 1
        /\ ipc' = ipc
     \/ /\ supplied >= N - 1
        /\ supplied' = N /\ buf' = 0
        /\ ipc' = "loop"
  /\ UNCHANGED <<addr, events, slot, event, produced, got>>

-----------------------------------------------------------------------------
(* The event loop and virtio_input_recv.                                   *)

\* virtio_input_recv has returned 0: back to epoll, until the eventfd of the
\* queue is readable.
wait_event ==
  /\ ipc = "loop"
  /\ next_used = used_index
  /\ vfio_pci_dev_clear_irq
  /\ UNCHANGED inputVars

handle_event ==
  /\ ipc = "loop"
  /\ virtio_queue_handle_event
  /\ UNCHANGED inputVars

recv_elem ==
  /\ ipc = "loop"
  /\ virtio_queue_recv
  /\ slot' = Slot(next_used)
  /\ ipc' = "got"
  /\ UNCHANGED <<addr, events, supplied, buf, event, produced, got>>

\* *event = dev->events[elem->id]
recv_copy ==
  /\ ipc = "got"
  /\ event' = events[used_ring[slot]]
  /\ got' = (got + 1) % K
  /\ ipc' = "copied"
  /\ UNCHANGED <<vars, addr, events, supplied, buf, slot, produced>>

recv_free ==
  /\ ipc = "copied"
  /\ FreeElem
  /\ ipc' = "freed"
  /\ UNCHANGED <<addr, events, supplied, buf, slot, event, produced, got>>

\* &dev->events[elem->id], read from the ring once more after the free
recv_resupply ==
  /\ ipc = "freed"
  /\ buf' = used_ring[slot]
  /\ ipc' = "supply" /\ slot' = 0
  /\ UNCHANGED <<vars, addr, events, supplied, event, produced, got>>

-----------------------------------------------------------------------------
(* The device (external) puts an event into a buffer it was given.         *)

DevEvent(h) ==
  /\ DevComplete(h)
  /\ events' = [events EXCEPT ![addr[h]] = produced]
  /\ produced' = (produced + 1) % K
  /\ UNCHANGED <<addr, ipc, supplied, buf, slot, event, got>>

DevQueue ==
  /\ DevWake \/ DevPop \/ DevIdle \/ DevRecheck \/ DevInterrupt
  /\ UNCHANGED inputVars

-----------------------------------------------------------------------------
Supply == supply_alloc \/ supply_writev \/ supply_send \/ supply_return
Recv   == recv_elem \/ recv_copy \/ recv_free \/ recv_resupply

InputNext ==
  \/ Supply \/ Recv \/ wait_event \/ handle_event
  \/ DevQueue
  \/ \E h \in Desc : DevEvent(h)

InputSpec == InputInit /\ [][InputNext]_allVars

\* The thread runs, and so does the device; nobody has to press a key.
InputFairness ==
  /\ WF_allVars(Supply) /\ WF_allVars(Recv)
  /\ WF_allVars(wait_event) /\ WF_allVars(handle_event)
  /\ WF_allVars(DevInterrupt /\ UNCHANGED inputVars)

InputFairSpec == InputSpec /\ InputFairness

-----------------------------------------------------------------------------
InputTypeOK ==
  /\ TypeOK
  /\ addr \in [Desc -> Desc] /\ events \in [Desc -> 0..K-1]
  /\ ipc \in {"supply", "loop", "got", "copied", "freed"}
  /\ supplied \in 0..N /\ buf \in Desc /\ slot \in Desc
  /\ event \in 0..K-1 /\ produced \in 0..K-1 /\ got \in 0..K-1

\* The assertion of supply_buffer never fails: whenever a buffer is to be
\* supplied, virtio_queue_alloc finds a descriptor for it.
SupplySucceeds ==
  ipc = "supply" /\ pc = "idle" => free_count >= 1

\* The buffer of a descriptor the device can use or has used is the one
\* virtio_input_recv looks at: descriptor d carries events[d], after any
\* order of completions.
BufferOfDescriptor ==
  \A d \in Desc : place[d] \in {"avail", "device", "used", "elem"} => addr[d] = d

\* virtio_input_recv returns the device's events in order, each one once and
\* unchanged: no buffer is given back to the device before it is copied.
EventsInOrder ==
  [][got' # got => event' = got]_allVars

\* A buffer the device has filled comes back to the device.
BuffersReturn ==
  \A d \in Desc : place[d] = "used" ~> place[d] = "avail"

=============================================================================
