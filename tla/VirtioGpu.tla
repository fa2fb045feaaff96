------------------------------ MODULE VirtioGpu ------------------------------
(***************************************************************************)
(* The gpu driver of code/virtio-gpu.c: commands that wait for their       *)
(* response and commands that do not, the fences that tell when rendering  *)
(* is done, and the ids of resources and contexts.                         *)
(*                                                                         *)
(* The control queue is used through RequestChannel, which Virtqueue       *)
(* implements: a request is a slot of cmds[], the descriptor chain whose   *)
(* head has that number.  The program is one thread that makes any of the  *)
(* calls in any order, with ids it holds; pc is where it is inside a call. *)
(***************************************************************************)
EXTENDS RequestChannel, Integers, FiniteSets

CONSTANTS N,      \* the number of descriptors of the control queue
          R, C,   \* bounds: how many resource and context ids are given out
          F,      \* fence ids are counted modulo F (uint32_t: 2^32)
          NoSlot  \* no slot

\* The longest command has three descriptors and every one has at least two;
\* fewer than F commands are outstanding or being prepared.
ASSUME GpuAssumption ==
  /\ N \in Nat /\ N >= 3
  /\ IsFiniteSet(Request) /\ 2 * Cardinality(Request) >= N - 1
  /\ R \in Nat /\ C \in Nat
  /\ F \in Nat /\ 2 * F > N + 2
  /\ NoSlot \notin Request

VARIABLES
  \* struct virtio_gpu_dev: the slots, the fence counters, and the ids; next
  \* and buf are the fields of rscs[], buf without the address
  cmds, response, fence_submitted, fence_completed,
  rscs_size, free_rsc_id, next, buf, ctxs_size,
  \* the queue: free descriptors, completions virtio_queue_handle_event has
  \* seen and virtio_queue_recv has not returned, the eventfd
  free_count, seen, irq,
  \* the thread: the call it is in, its slot, the slot just received, where
  \* virtio_gpu_poll returns to ("wait" in virtio_gpu_wait), and found
  pc, call, slot, got, ret, found,
  \* the program: the resources it holds
  live,
  \* the device: an interrupt to raise, fenced commands in the order it took
  \* them, its resources and contexts, and the commands it refused
  raise, fenceq, hostRsc, hostCtx, refused

fenceVars  == <<fence_submitted, fence_completed>>
idVars     == <<rscs_size, free_rsc_id, next, buf, ctxs_size, live>>
queueVars  == <<free_count, seen, irq>>
deviceVars == <<raise, fenceq, hostRsc, hostCtx, refused>>
gpuVars == <<vars, cmds, response, fenceVars, idVars, queueVars,
             pc, call, slot, got, ret, found, deviceVars>>

Rsc   == 1..R
Ctx   == 1..C
Fence == 0..F-1

\* What a command is for the driver and for the device: create and unref a
\* resource, create a context, flush, or anything else that uses what it
\* names (0 is nothing); VIRTIO_GPU_FLAG_FENCE and the fence id; the number
\* of descriptors; and whether the caller waits for the response.
Command == [op : {"create", "unref", "ctx_create", "flush", "use"},
            rsc : 0..R, ctx : 0..C, fenced : BOOLEAN, fence : Fence,
            iovcnt : {2, 3}, sync : BOOLEAN]

Cmd(op, rsc, ctx, iovcnt, sync) ==
  [op |-> op, rsc |-> rsc, ctx |-> ctx, fenced |-> FALSE, fence |-> 0,
   iovcnt |-> iovcnt, sync |-> sync]

WithFence(c, f) == [c EXCEPT !.fenced = TRUE, !.fence = f]

NoCmd      == Cmd("use", 0, 0, 2, FALSE)
NoResponse == [ok |-> FALSE, fenced |-> FALSE, fence |-> 0]

Succ(f) == (f + 1) % F

GpuInit ==
  /\ Init
  /\ cmds = [id \in Request |-> NoCmd]
  /\ response = [id \in Request |-> NoResponse]
  /\ fence_submitted = 0 /\ fence_completed = 0
  /\ rscs_size = 0 /\ free_rsc_id = 0 /\ ctxs_size = 0
  /\ next = [r \in Rsc |-> 0] /\ buf = [r \in Rsc |-> FALSE]
  /\ free_count = N /\ seen = 0 /\ irq = FALSE
  /\ pc = "idle" /\ call = NoCmd /\ slot = NoSlot /\ got = NoSlot
  /\ ret = "idle" /\ found = FALSE
  /\ live = {}
  /\ raise = FALSE /\ fenceq = << >>
  /\ hostRsc = {} /\ hostCtx = {} /\ refused = {}

-----------------------------------------------------------------------------
(* Mutated forms of the definitions below, used by no specification.       *)

\* An id taken from the free list stays its head.
virtio_gpu_resource_alloc_KeepsHead(r) ==
  \/ /\ free_rsc_id # 0
     /\ r = free_rsc_id
     /\ UNCHANGED <<free_rsc_id, rscs_size, next, buf>>
  \/ /\ free_rsc_id = 0 /\ rscs_size < R
     /\ r = rscs_size + 1
     /\ rscs_size' = r
     /\ next' = [next EXCEPT ![r] = 0] /\ buf' = [buf EXCEPT ![r] = FALSE]
     /\ UNCHANGED free_rsc_id

\* virtio_gpu_resource_flush uses fence_submitted++ for ++fence_submitted.
virtio_gpu_send_PostIncrement ==
  /\ pc = "send"
  /\ \/ /\ call.op = "flush"
        /\ fence_submitted' = Succ(fence_submitted)
        /\ cmds' = [cmds EXCEPT ![slot] = WithFence(call, fence_submitted)]
     \/ /\ call.op # "flush"
        /\ fence_submitted' = fence_submitted
        /\ cmds' = [cmds EXCEPT ![slot] = call]
  /\ Send(slot)
  /\ \/ /\ call.sync
        /\ pc' = "clear" /\ ret' = "wait" /\ found' = FALSE
        /\ UNCHANGED <<call, slot>>
     \/ /\ ~ call.sync
        /\ pc' = "idle" /\ call' = NoCmd /\ slot' = NoSlot
        /\ ret' = "idle" /\ found' = found
  /\ UNCHANGED <<response, fence_completed, idVars, queueVars, got, deviceVars>>

\* virtio_gpu_poll returns when there is nothing to receive.
virtio_gpu_poll_ReturnsEarly ==
  /\ pc = "poll"
  /\ pc' = IF seen = 0 THEN ret ELSE "drain"
  /\ UNCHANGED <<vars, cmds, response, fenceVars, idVars, queueVars, call,
                 slot, got, ret, found, deviceVars>>

\* The flags of the response are not looked at.
virtio_gpu_recv_IgnoresFlag ==
  /\ pc = "drain" /\ seen > 0
  /\ Receive
  /\ seen' = seen - 1
  /\ got' = Head(completed)
  /\ fence_completed' = response[Head(completed)].fence
  /\ pc' = "received"
  /\ UNCHANGED <<cmds, response, fence_submitted, idVars, free_count, irq,
                 call, slot, ret, found, deviceVars>>

\* Any completion ends the wait.
IsAwaited_AnySlot == ret = "wait"

\* break for continue: the wait ends without looking for more completions.
keep_Breaks ==
  /\ pc = "received" /\ ret = "wait" /\ got = slot
  /\ found' = TRUE
  /\ pc' = "check" /\ got' = NoSlot
  /\ UNCHANGED <<vars, cmds, response, fenceVars, idVars, queueVars, call,
                 slot, ret, deviceVars>>

\* do ... while: the loop polls before it compares the counters.
wait_fences_PollsFirst ==
  /\ \/ pc = "idle" /\ pc' = "poll" /\ ret' = "fences"
     \/ /\ pc = "fences" /\ fence_submitted # fence_completed
        /\ pc' = "poll" /\ ret' = "fences"
     \/ /\ pc = "fences" /\ fence_submitted = fence_completed
        /\ pc' = "idle" /\ ret' = "idle"
  /\ UNCHANGED <<vars, cmds, response, fenceVars, idVars, queueVars, call,
                 slot, got, found, deviceVars>>

-----------------------------------------------------------------------------
(* Ids.                                                                    *)

\* From the free list, or else the next new one.
virtio_gpu_resource_alloc(r) ==
  \/ /\ free_rsc_id # 0
     /\ r = free_rsc_id
     /\ free_rsc_id' = next[r]
     /\ UNCHANGED <<rscs_size, next, buf>>
  \/ /\ free_rsc_id = 0 /\ rscs_size < R
     /\ r = rscs_size + 1
     /\ rscs_size' = r
     /\ next' = [next EXCEPT ![r] = 0] /\ buf' = [buf EXCEPT ![r] = FALSE]
     /\ UNCHANGED free_rsc_id

\* Nothing ever puts a context on a free list.
virtio_gpu_ctx_alloc(c) ==
  /\ ctxs_size < C
  /\ c = ctxs_size + 1
  /\ ctxs_size' = c

-----------------------------------------------------------------------------
(* The calls, up to their virtio_gpu_alloc.                                *)

Enter(c) ==
  /\ pc = "idle"
  /\ call' = c
  /\ pc' = "alloc"
  /\ UNCHANGED <<vars, cmds, response, fence_completed, queueVars, slot, got,
                 ret, found, deviceVars>>

\* virtio_gpu_get_display_info, _get_capset_info and _get_capset
query ==
  /\ \E k \in {2, 3} : Enter(Cmd("use", 0, 0, k, TRUE))
  /\ UNCHANGED <<fence_submitted, idVars>>

create(r, sync) ==
  /\ virtio_gpu_resource_alloc(r)
  /\ live' = live \cup {r}
  /\ Enter(Cmd("create", r, 0, 2, sync))
  /\ UNCHANGED <<fence_submitted, ctxs_size>>

virtio_gpu_resource_create_2d(r) == create(r, FALSE)
virtio_gpu_resource_create_3d(r) == create(r, TRUE)

virtio_gpu_resource_unref(r) ==
  /\ r \in live
  /\ live' = live \ {r}
  /\ Enter(Cmd("unref", r, 0, 2, TRUE))
  /\ UNCHANGED <<fence_submitted, rscs_size, free_rsc_id, next, buf, ctxs_size>>

backing(r, attached) ==
  /\ r \in live
  /\ buf' = [buf EXCEPT ![r] = attached]
  /\ Enter(Cmd("use", r, 0, 2, FALSE))
  /\ UNCHANGED <<fence_submitted, rscs_size, free_rsc_id, next, ctxs_size, live>>

virtio_gpu_resource_attach_backing(r) == backing(r, TRUE)
virtio_gpu_resource_detach_backing(r) == backing(r, FALSE)

\* virtio_gpu_set_scanout and virtio_gpu_transfer_to_host_2d
use_2d(r) ==
  /\ r \in live
  /\ Enter(Cmd("use", r, 0, 2, FALSE))
  /\ UNCHANGED <<fence_submitted, idVars>>

virtio_gpu_resource_flush(r) ==
  /\ r \in live
  /\ Enter(Cmd("flush", r, 0, 2, FALSE))
  /\ UNCHANGED <<fence_submitted, idVars>>

virtio_gpu_ctx_create(c) ==
  /\ virtio_gpu_ctx_alloc(c)
  /\ Enter(Cmd("ctx_create", 0, c, 2, TRUE))
  /\ UNCHANGED <<fence_submitted, rscs_size, free_rsc_id, next, buf, live>>

\* virtio_gpu_transfer_from_host_3d and virtio_gpu_ctx_attach_resource
use_3d(r, c) ==
  /\ r \in live /\ c <= ctxs_size
  /\ Enter(Cmd("use", r, c, 2, TRUE))
  /\ UNCHANGED <<fence_submitted, idVars>>

\* The fence id is taken before virtio_gpu_alloc, which may have to wait.
virtio_gpu_submit_cmd(c) ==
  /\ c <= ctxs_size
  /\ fence_submitted' = Succ(fence_submitted)
  /\ Enter(WithFence(Cmd("use", 0, c, 3, TRUE), Succ(fence_submitted)))
  /\ UNCHANGED idVars

-----------------------------------------------------------------------------
(* Inside a call.                                                          *)

virtio_gpu_alloc ==
  /\ pc = "alloc"
  /\ \/ /\ free_count >= call.iovcnt
        /\ \E id \in Request \ Busy : slot' = id
        /\ free_count' = free_count - call.iovcnt
        /\ pc' = "send"
        /\ ret' = ret
     \/ /\ free_count < call.iovcnt
        /\ pc' = "poll" /\ ret' = "alloc"
        /\ UNCHANGED <<slot, free_count>>
  /\ UNCHANGED <<vars, cmds, response, fenceVars, idVars, seen, irq, call,
                 got, found, deviceVars>>

\* virtio_gpu_resource_flush takes its fence id here.
virtio_gpu_send ==
  /\ pc = "send"
  /\ \/ /\ call.op = "flush"
        /\ fence_submitted' = Succ(fence_submitted)
        /\ cmds' = [cmds EXCEPT ![slot] = WithFence(call, Succ(fence_submitted))]
     \/ /\ call.op # "flush"
        /\ fence_submitted' = fence_submitted
        /\ cmds' = [cmds EXCEPT ![slot] = call]
  /\ Send(slot)
  /\ \/ /\ call.sync
        /\ pc' = "clear" /\ ret' = "wait" /\ found' = FALSE
        /\ UNCHANGED <<call, slot>>
     \/ /\ ~ call.sync
        /\ pc' = "idle" /\ call' = NoCmd /\ slot' = NoSlot
        /\ ret' = "idle" /\ found' = found
  /\ UNCHANGED <<response, fence_completed, idVars, queueVars, got, deviceVars>>

\* virtio_gpu_poll first takes what an earlier virtio_queue_handle_event has
\* left, and only without that waits for an interrupt.
virtio_gpu_poll ==
  /\ pc = "poll"
  /\ pc' = IF seen = 0 THEN "clear" ELSE "drain"
  /\ UNCHANGED <<vars, cmds, response, fenceVars, idVars, queueVars, call,
                 slot, got, ret, found, deviceVars>>

\* Blocks until the eventfd is readable.
clear_irq ==
  /\ pc = "clear" /\ irq
  /\ irq' = FALSE
  /\ pc' = "event"
  /\ UNCHANGED <<vars, cmds, response, fenceVars, idVars, free_count, seen,
                 call, slot, got, ret, found, deviceVars>>

handle_event ==
  /\ pc = "event"
  /\ seen' = Len(completed)
  /\ pc' = "drain"
  /\ UNCHANGED <<vars, cmds, response, fenceVars, idVars, free_count, irq,
                 call, slot, got, ret, found, deviceVars>>

\* write_fence is called with the new fence_completed.
virtio_gpu_recv ==
  /\ pc = "drain" /\ seen > 0
  /\ Receive
  /\ seen' = seen - 1
  /\ got' = Head(completed)
  /\ fence_completed' = IF response[Head(completed)].fenced
                        THEN response[Head(completed)].fence
                        ELSE fence_completed
  /\ pc' = "received"
  /\ UNCHANGED <<cmds, response, fence_submitted, idVars, free_count, irq,
                 call, slot, ret, found, deviceVars>>

IsAwaited == ret = "wait" /\ got = slot

keep ==
  /\ pc = "received" /\ IsAwaited
  /\ found' = TRUE
  /\ pc' = "drain" /\ got' = NoSlot
  /\ UNCHANGED <<vars, cmds, response, fenceVars, idVars, queueVars, call,
                 slot, ret, deviceVars>>

virtio_gpu_free ==
  /\ pc = "received" /\ ~ IsAwaited
  /\ Release(got)
  /\ free_count' = free_count + cmds[got].iovcnt
  /\ pc' = "drain" /\ got' = NoSlot
  /\ UNCHANGED <<cmds, response, fenceVars, idVars, seen, irq, call, slot,
                 ret, found, deviceVars>>

\* virtio_gpu_recv has returned NULL.
drained ==
  /\ pc = "drain" /\ seen = 0
  /\ \/ ret = "wait" /\ found /\ pc' = "check"
     \/ ret = "wait" /\ ~ found /\ pc' = "clear"
     \/ ret # "wait" /\ pc' = ret
  /\ UNCHANGED <<vars, cmds, response, fenceVars, idVars, queueVars, call,
                 slot, got, ret, found, deviceVars>>

\* virtio_gpu_check_error, virtio_gpu_free and the return, where unref puts
\* the id on the free list.
check_error ==
  /\ pc = "check"
  /\ Release(slot)
  /\ free_count' = free_count + cmds[slot].iovcnt
  /\ \/ /\ call.op = "unref"
        /\ next' = [next EXCEPT ![call.rsc] = free_rsc_id]
        /\ free_rsc_id' = call.rsc
     \/ /\ call.op # "unref"
        /\ UNCHANGED <<next, free_rsc_id>>
  /\ pc' = "idle" /\ call' = NoCmd /\ slot' = NoSlot
  /\ ret' = "idle" /\ found' = FALSE
  /\ UNCHANGED <<cmds, response, fenceVars, rscs_size, buf, ctxs_size, live,
                 seen, irq, got, deviceVars>>

-----------------------------------------------------------------------------
(* The program between its calls.                                          *)

\* The handler of the epoll loop, when the eventfd is readable.
handle_gpu_events ==
  /\ pc = "idle" /\ irq
  /\ pc' = "poll" /\ ret' = "idle"
  /\ UNCHANGED <<vars, cmds, response, fenceVars, idVars, queueVars, call,
                 slot, got, found, deviceVars>>

\* while (dev->fence_submitted != dev->fence_completed) virtio_gpu_poll(dev)
wait_fences ==
  /\ \/ pc = "idle" /\ pc' = "fences" /\ ret' = ret
     \/ /\ pc = "fences" /\ fence_submitted # fence_completed
        /\ pc' = "poll" /\ ret' = "fences"
     \/ /\ pc = "fences" /\ fence_submitted = fence_completed
        /\ pc' = "idle" /\ ret' = "idle"
  /\ UNCHANGED <<vars, cmds, response, fenceVars, idVars, queueVars, call,
                 slot, got, found, deviceVars>>

-----------------------------------------------------------------------------
(* The device (external) executes commands in the order of the queue, and  *)
(* answers a fenced one when its rendering is done, in the same order.     *)

Accepts(c) ==
  /\ c.op = "create" => c.rsc \notin hostRsc
  /\ c.op = "ctx_create" => c.ctx \notin hostCtx
  /\ c.op # "create" => c.rsc \in hostRsc \cup {0}
  /\ c.op # "ctx_create" => c.ctx \in hostCtx \cup {0}

DevTake ==
  /\ Take
  /\ LET id == Head(submitted)
         c  == cmds[id]
     IN /\ hostRsc' = (hostRsc \cup IF c.op = "create" THEN {c.rsc} ELSE {})
                        \ (IF c.op = "unref" THEN {c.rsc} ELSE {})
        /\ hostCtx' = hostCtx \cup IF c.op = "ctx_create" THEN {c.ctx} ELSE {}
        /\ refused' = refused \cup IF Accepts(c) THEN {} ELSE {id}
        /\ fenceq' = IF c.fenced THEN Append(fenceq, id) ELSE fenceq
  /\ UNCHANGED <<cmds, response, fenceVars, idVars, queueVars, pc, call, slot,
                 got, ret, found, raise>>

DevAnswer(id) ==
  /\ Answer(id)
  /\ \/ cmds[id].fenced /\ id = Head(fenceq) /\ fenceq' = Tail(fenceq)
     \/ ~ cmds[id].fenced /\ fenceq' = fenceq
  /\ response' = [response EXCEPT ![id] =
       [ok |-> id \notin refused, fenced |-> cmds[id].fenced,
        fence |-> cmds[id].fence]]
  /\ refused' = refused \ {id}
  /\ raise' = TRUE
  /\ UNCHANGED <<cmds, fenceVars, idVars, queueVars, pc, call, slot, got, ret,
                 found, hostRsc, hostCtx>>

DevInterrupt ==
  /\ raise
  /\ raise' = FALSE /\ irq' = TRUE
  /\ UNCHANGED <<vars, cmds, response, fenceVars, idVars, free_count, seen,
                 pc, call, slot, got, ret, found, fenceq, hostRsc, hostCtx,
                 refused>>

-----------------------------------------------------------------------------
Call ==
  \/ query
  \/ \E r \in Rsc :
       \/ virtio_gpu_resource_create_2d(r) \/ virtio_gpu_resource_create_3d(r)
       \/ virtio_gpu_resource_unref(r)
       \/ virtio_gpu_resource_attach_backing(r)
       \/ virtio_gpu_resource_detach_backing(r)
       \/ use_2d(r) \/ virtio_gpu_resource_flush(r)
       \/ \E c \in Ctx : use_3d(r, c)
  \/ \E c \in Ctx : virtio_gpu_ctx_create(c) \/ virtio_gpu_submit_cmd(c)

\* What the thread does once it is in a call.
Inside ==
  \/ virtio_gpu_alloc \/ virtio_gpu_send \/ virtio_gpu_poll
  \/ clear_irq \/ handle_event \/ virtio_gpu_recv \/ keep \/ virtio_gpu_free
  \/ drained \/ check_error

GpuNext ==
  \/ Call \/ Inside \/ wait_fences \/ handle_gpu_events
  \/ DevTake \/ DevInterrupt
  \/ \E id \in Request : DevAnswer(id)

GpuSpec == GpuInit /\ [][GpuNext]_gpuVars

\* The thread does not stop inside a call, its epoll loop gets to a readable
\* eventfd even if other events keep coming, and the device serves what it
\* is given.  Nothing makes the program call.
GpuFairness ==
  /\ WF_gpuVars(Inside)
  /\ WF_gpuVars(wait_fences /\ pc = "fences")
  /\ SF_gpuVars(handle_gpu_events)
  /\ WF_gpuVars(DevTake) /\ WF_gpuVars(DevInterrupt)
  /\ \A id \in Request : WF_gpuVars(DevAnswer(id))

GpuFairSpec == GpuSpec /\ GpuFairness

-----------------------------------------------------------------------------
(* Properties.                                                             *)

GpuTypeOK ==
  /\ submitted \in Seq(Request) /\ serving \subseteq Request
  /\ completed \in Seq(Request) /\ received \subseteq Request
  /\ cmds \in [Request -> Command]
  /\ response \in [Request -> [ok : BOOLEAN, fenced : BOOLEAN, fence : Fence]]
  /\ fence_submitted \in Fence /\ fence_completed \in Fence
  /\ rscs_size \in 0..R /\ free_rsc_id \in 0..R
  /\ next \in [Rsc -> 0..R] /\ buf \in [Rsc -> BOOLEAN]
  /\ ctxs_size \in 0..C /\ live \subseteq Rsc
  /\ free_count \in 0..N /\ seen \in Nat /\ irq \in BOOLEAN
  /\ pc \in {"idle", "alloc", "send", "poll", "clear", "event", "drain",
             "received", "check", "fences"}
  /\ call \in Command
  /\ slot \in Request \cup {NoSlot} /\ got \in Request \cup {NoSlot}
  /\ ret \in {"idle", "alloc", "fences", "wait"} /\ found \in BOOLEAN
  /\ raise \in BOOLEAN /\ fenceq \in Seq(Request)
  /\ hostRsc \subseteq Rsc /\ hostCtx \subseteq Ctx /\ refused \subseteq Request

\* A synchronous call returns with the response to its own command, still in
\* its own slot, although virtio_gpu_wait receives and frees the completions
\* of other commands before and after it.
ReplyIsOwn ==
  pc = "check" =>
    /\ slot \in received /\ cmds[slot] = call
    /\ response[slot] = [ok |-> TRUE, fenced |-> call.fenced, fence |-> call.fence]

\* When a call has returned nothing is left behind: every completion that
\* was seen has been received and its slot freed, and the descriptors not
\* free are those of commands the device still has.  (And every variable holds
\* a value of its kind.)
Held(S) == {id \in S : cmds[id].iovcnt = 3}
SlotsReturned ==
  /\ GpuTypeOK
  /\ pc = "idle" =>
    /\ received = {} /\ seen = 0
    /\ free_count + 2 * Cardinality(Busy) + Cardinality(Held(Busy)) = N

\* No command is refused: an id is given to a new resource only after the
\* device has executed the unref of the old one, and every id used names
\* something the device has already created.
CommandsAccepted == refused = {}

\* write_fence is called for every fence once, in the order they were taken.
FencesInOrder ==
  [][fence_completed' # fence_completed =>
       fence_completed' = Succ(fence_completed)]_gpuVars

\* The two counters tell how many fenced commands are not yet received, the
\* one virtio_gpu_submit_cmd has counted but not sent included: the loop on
\* fence_submitted != fence_completed ends exactly when rendering is done.
Unreported ==
  {id \in Elements(submitted) \cup serving \cup Elements(completed) :
     cmds[id].fenced}
Unsent == call.fenced /\ (slot = NoSlot \/ pc = "send")
FencesCounted ==
  (fence_submitted - fence_completed) % F
    = Cardinality(Unreported) + IF Unsent THEN 1 ELSE 0

\* The blocking read of the eventfd always returns: an interrupt is there,
\* or on its way, or the device still has a command to answer.
BlocksOnlyOnDevice ==
  pc = "clear" => irq \/ raise \/ submitted # << >> \/ serving # {}

\* Every call returns, and so does the loop that waits for all fences.
CallsReturn == pc # "idle" ~> pc = "idle"

\* Every completion is collected, even if the program makes no more calls:
\* no call eats the interrupt of a completion and leaves it in the queue.
CompletionsCollected ==
  \A id \in Request :
    id \in Elements(completed) ~> id \notin Elements(completed)

=============================================================================
