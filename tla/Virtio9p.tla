------------------------------ MODULE Virtio9p ------------------------------
(***************************************************************************)
(* A call of the 9P server by code/fuse-9p.c: how virtio_9p_sendrecv and   *)
(* the functions that call it use the one virtqueue, from the version and  *)
(* the attach at the start on.  Module Fuse9p takes a call to be one step. *)
(*                                                                         *)
(* There is a message for each descriptor.  A call takes two descriptors,  *)
(* writes its request into the message of the first and finds the response *)
(* in that of the second; it asserts that the completion is its own.       *)
(***************************************************************************)
EXTENDS Virtqueue

CONSTANT Calls  \* calls are numbered modulo Calls, to tell one from the last

\* Every request is a message the server reads and one that it writes.
ASSUME CallAssumption == <<2, 1>> \in Shapes /\ Calls \in Nat /\ Calls > 1

VARIABLES
  msgs,            \* dev->msgs: tag, the call it is of, and kind
  req_id, res_id,  \* the descriptors of request and response of the call
  call, step,      \* the call, and how far it is
  session          \* "version", "attach", and "served" after them

callVars == <<msgs, req_id, res_id, call, step, session>>
sessionVars == <<vars, callVars>>

Message == [tag : Desc, call : 0..Calls-1, kind : {"request", "ok", "error"}]
Msg(tag, n, kind) == [tag |-> tag, call |-> n, kind |-> kind]

\* Before the first call; at "none" the queue is not that of a 9P device.
NoCall(at) ==
  /\ msgs = [d \in Desc |-> Msg(0, 0, "error")]
  /\ req_id = 0 /\ res_id = 0 /\ call = 0 /\ step = at
  /\ session = "version"

CallInit == Init /\ NoCall("ready")

-----------------------------------------------------------------------------
(* A mutated form of an action below, used by no specification.            *)

\* The queue is looked at without reading the eventfd.
sendrecv_clear_Polls ==
  /\ step \in {"wait", "recv"}
  /\ step = "recv" => next_used = used_index
  /\ step' = "event" /\ pc' = "event"
  /\ UNCHANGED <<driverVars, descVars, availVars, usedVars, first, iovcnt, elem, held,
                 kick, irq, devVars, histVars, msgs, req_id, res_id, call, session>>

-----------------------------------------------------------------------------
(* A call.                                                                 *)

\* assert(req_id >= 0): CallLeavesNothing says that there are descriptors.
virtio_9p_alloc ==
  /\ step = "ready"
  /\ virtio_queue_alloc(2)
  /\ req_id' = first' /\ res_id' = next[first']
  /\ msgs' = [msgs EXCEPT ![req_id'] = Msg(req_id', call, "request")]
  /\ step' = "writev"
  /\ UNCHANGED <<call, session>>

sendrecv_writev ==
  /\ step = "writev" /\ step' = "send"
  /\ virtio_queue_writev(1)
  /\ UNCHANGED <<msgs, req_id, res_id, call, session>>

sendrecv_send ==
  /\ step = "send"
  /\ \/ (virtio_queue_send_ring \/ virtio_queue_send_idx) /\ UNCHANGED step
     \/ virtio_queue_send_notify /\ step' = "wait"
  /\ UNCHANGED <<msgs, req_id, res_id, call, session>>

\* while (elem == NULL): the eventfd is read at first, and again for as long as
\* the queue gives nothing.
sendrecv_clear ==
  /\ step \in {"wait", "recv"}
  /\ step = "recv" => next_used = used_index
  /\ vfio_pci_dev_clear_irq
  /\ step' = "event"
  /\ UNCHANGED <<msgs, req_id, res_id, call, session>>

sendrecv_event ==
  /\ step = "event" /\ step' = "recv"
  /\ virtio_queue_handle_event
  /\ UNCHANGED <<msgs, req_id, res_id, call, session>>

sendrecv_recv ==
  /\ step = "recv" /\ step' = "answered"
  /\ virtio_queue_recv
  /\ UNCHANGED <<msgs, req_id, res_id, call, session>>

\* The descriptors are freed by the id of the request.
virtio_9p_free ==
  /\ virtio_queue_free(req_id)
  /\ pc' = "idle" /\ elem' = 0
  /\ step' = "ready" /\ call' = (call + 1) % Calls
  /\ req_id' = 0 /\ res_id' = 0
  /\ UNCHANGED <<held, msgs>>

\* P9RLERROR: virtio_9p_sendrecv frees and the caller returns at once.
sendrecv_error ==
  /\ step = "answered" /\ msgs[res_id].kind = "error"
  /\ virtio_9p_free
  /\ UNCHANGED session

\* Otherwise the caller takes what it needs from the response and frees.
virtio_9p_version ==
  /\ step = "answered" /\ session = "version" /\ msgs[res_id].kind = "ok"
  /\ virtio_9p_free
  /\ session' = "attach"

virtio_9p_attach ==
  /\ step = "answered" /\ session = "attach" /\ msgs[res_id].kind = "ok"
  /\ virtio_9p_free
  /\ session' = "served"

virtio_9p_statfs ==
  /\ step = "answered" /\ session = "served" /\ msgs[res_id].kind = "ok"
  /\ virtio_9p_free
  /\ UNCHANGED session

-----------------------------------------------------------------------------
(* The server (external) reads the request from the first descriptor and   *)
(* writes the response to the next.  It does not refuse the session, which *)
(* the program asserts.                                                    *)

DevAnswer(h) ==
  /\ DevComplete(h)
  /\ \E kind \in {"ok", "error"} :
       /\ session # "served" => kind = "ok"
       /\ msgs' = [msgs EXCEPT ![next[h]] = Msg(msgs[h].tag, msgs[h].call, kind)]
  /\ UNCHANGED <<req_id, res_id, call, step, session>>

ServeQueue ==
  /\ DevWake \/ DevPop \/ DevIdle \/ DevRecheck \/ DevInterrupt
  /\ UNCHANGED callVars

-----------------------------------------------------------------------------
sendrecv == sendrecv_writev \/ sendrecv_send \/ sendrecv_clear \/ sendrecv_event
              \/ sendrecv_recv
Return   == sendrecv_error \/ virtio_9p_version \/ virtio_9p_attach \/ virtio_9p_statfs

CallNext ==
  \/ virtio_9p_alloc \/ sendrecv \/ Return
  \/ ServeQueue \/ \E h \in Desc : DevAnswer(h)

CallSpec == CallInit /\ [][CallNext]_sessionVars

-----------------------------------------------------------------------------
(* Properties.                                                             *)

CallTypeOK ==
  /\ TypeOK /\ msgs \in [Desc -> Message]
  /\ req_id \in Desc /\ res_id \in Desc /\ call \in 0..Calls-1
  /\ step \in {"ready", "writev", "send", "wait", "event", "recv", "answered", "none"}
  /\ session \in {"version", "attach", "served"}

\* The assertions after the loop of virtio_9p_sendrecv, and more: what a call
\* gets is the answer to its own request, not one left from an earlier call.
CallsAnswered ==
  /\ CallTypeOK
  /\ step = "answered" =>
       /\ used_ring[elem] = req_id
       /\ msgs[req_id] = Msg(req_id, call, "request")
       /\ \E kind \in {"ok", "error"} : msgs[res_id] = Msg(req_id, call, kind)

\* Whichever way a call ended, all descriptors are free again for the next one
\* (assert(req_id >= 0)), the server has none, and no interrupt is left that
\* would wake the next call before its answer.
CallLeavesNothing ==
  step = "ready" =>
    /\ free_count = N /\ \A d \in Desc : place[d] = "free"
    /\ inflight = {} /\ ~ irq /\ ~ raise

\* Each call gets the answer to its own request and leaves nothing to the next
\* (virtio_9p_alloc, virtio_9p_sendrecv, virtio_9p_free).
CallsApart == CallsAnswered /\ CallLeavesNothing

=============================================================================
