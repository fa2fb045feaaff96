----------------------------- MODULE Compositor -----------------------------
(***************************************************************************)
(* A wayland compositor on the virtio gpu, with its client: the handlers   *)
(* of code/nested-virtio.c (Nested) or of code/wayland-virtio.c, which are *)
(* called by one event loop, and a program such as code/clock-shm.c, that  *)
(* draws a frame when it hears that the last one has been shown.           *)
(*                                                                         *)
(* The control queue of the gpu is a fifo of commands, of which the device *)
(* completes the first ones (module VirtioGpu has its slots and fences).   *)
(* A handler that finds it full polls in the middle of what it does, and   *)
(* the poll calls write_fence.                                             *)
(***************************************************************************)
EXTENDS Integers, Sequences, FiniteSets

CONSTANTS Nested,     \* nested-virtio.c, or else wayland-virtio.c
          Clock,      \* the client is clock-shm.c, or else any paced client
          Buffer, Pool, Region, Surface,
          Toplevel,   \* the surface the client makes its window
          Depth,      \* the commands the control queue holds
          F, V,       \* fence ids and frames are counted modulo F and V
          None

ASSUME CompositorAssumption ==
  /\ Nested \in BOOLEAN /\ Clock \in BOOLEAN
  /\ Toplevel \in Surface
  /\ Depth \in Nat \ {0} /\ F \in Nat /\ F > Depth + 1 /\ V \in Nat /\ V > 1
  /\ None \notin Buffer \cup Pool \cup Region \cup Surface \cup (0..F-1)
  /\ Buffer \cap Pool = {} /\ Buffer \cap Surface = {} /\ Pool \cap Surface = {}
  /\ IsFiniteSet(Buffer)

VARIABLES
  \* struct compositor_info; callbacks holds the frames they were asked for
  surface, buffer, callbacks, fence_id, write_fence,
  \* the shm_info of a pool, the pool of a wl_buffer, the wl_shm_pools, and
  \* the memory the gpu may read
  shm, wl_buffer, wl_shm_pool, mapped,
  \* the control queue, how much of it is complete, the last fence id
  queue, done, fence_submitted,
  \* the request being handled and the commands it has yet to send
  request, todo,
  \* the connection
  wire, events,
  \* the device: what resources are backed by and hold, and the screen
  backing, host, scanout, screen,
  \* the client: its pools and buffers, what it drew and waits for
  have, drawn, pixels, waiting, busy

infoVars   == <<surface, buffer, callbacks, fence_id, write_fence>>
shmVars    == <<shm, wl_buffer, wl_shm_pool, mapped>>
gpuVars    == <<queue, done, fence_submitted>>
hostVars   == <<backing, host, scanout, screen>>
clientVars == <<have, drawn, pixels, waiting, busy>>
vars == <<infoVars, shmVars, gpuVars, request, todo, wire, events, hostVars,
          clientVars>>

Frame == 0..V-1

\* A message names a surface, buffer or pool (of), and what it is about (arg).
Message == [op : {"get_xdg_surface", "create_pool", "resize", "destroy_pool",
                  "create_buffer", "destroy_buffer", "attach", "damage",
                  "frame", "commit", "release", "done"},
            of : Surface \cup Pool \cup Buffer \cup Frame \cup {None},
            arg : Buffer \cup Pool \cup {None}]
Msg(op, of, arg) == [op |-> op, of |-> of, arg |-> arg]

\* A command for a resource, the memory it attaches, and its fence if any.
Command == [op : {"create", "scanout", "attach", "transfer", "detach", "flush"},
            rsc : Buffer \cup {None}, mem : Region \cup {None},
            fence : (0..F-1) \cup {None}]
Cmd(op, b)   == [op |-> op, rsc |-> b, mem |-> None, fence |-> None]
Attach(b, m) == [Cmd("attach", b) EXCEPT !.mem = m]

NoShm     == [refcount |-> 0, buf |-> None]
NoRequest == Msg("done", None, None)

\* compositor_info = {0}; the client has a connection and nothing else.
Init ==
  /\ surface = None /\ buffer = None /\ callbacks = << >>
  /\ fence_id = 0 /\ write_fence = FALSE
  /\ shm = [p \in Pool |-> NoShm] /\ wl_buffer = [b \in Buffer |-> None]
  /\ wl_shm_pool = {} /\ mapped = {}
  /\ queue = << >> /\ done = 0 /\ fence_submitted = 0
  /\ request = NoRequest /\ todo = << >>
  /\ wire = << >> /\ events = << >>
  /\ backing = [b \in Buffer |-> None] /\ host = [b \in Buffer |-> None]
  /\ scanout = None /\ screen = None
  /\ have = {} /\ drawn = 0 /\ pixels = [b \in Buffer |-> 0]
  /\ waiting = FALSE /\ busy = {}

-----------------------------------------------------------------------------
(* Requests that need no command.                                          *)

Dispatch(op) ==
  /\ request = NoRequest /\ wire # << >> /\ Head(wire).op = op
  /\ wire' = Tail(wire)
  /\ UNCHANGED <<hostVars, clientVars>>

Returns == UNCHANGED <<request, todo, gpuVars>>

\* assert(info->surface == NULL); wayland-virtio.c sets it with the surface.
xdg_wm_base_on_get_xdg_surface ==
  /\ Dispatch("get_xdg_surface") /\ Returns
  /\ surface = None
  /\ surface' = Head(wire).of
  /\ UNCHANGED <<buffer, callbacks, fence_id, write_fence, shmVars, events>>

wl_surface_on_frame ==
  /\ Dispatch("frame") /\ Returns
  /\ callbacks' = Append(callbacks, Head(wire).of)
  /\ UNCHANGED <<surface, buffer, fence_id, write_fence, shmVars, events>>

wl_shm_on_create_pool ==
  /\ Dispatch("create_pool") /\ Returns
  /\ \E m \in Region \ mapped :
       /\ mapped' = mapped \cup {m}
       /\ shm' = [shm EXCEPT ![Head(wire).of] = [refcount |-> 1, buf |-> m]]
  /\ wl_shm_pool' = wl_shm_pool \cup {Head(wire).of}
  /\ UNCHANGED <<infoVars, wl_buffer, events>>

\* Mutant: info->buf keeps the old address.
wl_shm_pool_on_resize_KeepsBuf ==
  /\ Dispatch("resize") /\ Returns
  /\ LET p == Head(wire).of IN
     \E m \in Region \ (mapped \ {shm[p].buf}) :
       mapped' = (mapped \ {shm[p].buf}) \cup {m}
  /\ UNCHANGED <<infoVars, shm, wl_buffer, wl_shm_pool, events>>

\* The pool is mapped again; resources are backed by it at the next damage.
wl_shm_pool_on_resize ==
  /\ Dispatch("resize") /\ Returns
  /\ LET p == Head(wire).of IN
     \E m \in Region \ (mapped \ {shm[p].buf}) :
       /\ mapped' = (mapped \ {shm[p].buf}) \cup {m}
       /\ shm' = [shm EXCEPT ![p].buf = m]
  /\ UNCHANGED <<infoVars, wl_buffer, wl_shm_pool, events>>

\* refcount -= 1, and the memory is unmapped at 0.
Unref(p) ==
  IF shm[p].refcount = 1
  THEN /\ mapped' = mapped \ {shm[p].buf}
       /\ shm' = [shm EXCEPT ![p] = NoShm]
  ELSE /\ shm' = [shm EXCEPT ![p].refcount = @ - 1]
       /\ UNCHANGED mapped

\* wayland-virtio.c does not count: the memory is unmapped with the pool.
UnmapPool(p) ==
  /\ mapped' = mapped \ {shm[p].buf}
  /\ UNCHANGED shm

wl_shm_pool_on_destroy ==
  /\ Dispatch("destroy_pool") /\ Returns
  /\ LET p == Head(wire).of IN
       /\ IF Nested THEN Unref(p) ELSE UnmapPool(p)
       /\ wl_shm_pool' = wl_shm_pool \ {p}
  /\ UNCHANGED <<infoVars, wl_buffer, events>>

wl_buffer_on_destroy ==
  /\ Dispatch("destroy_buffer") /\ Returns
  /\ LET b == Head(wire).of IN
       /\ Unref(wl_buffer[b])
       /\ wl_buffer' = [wl_buffer EXCEPT ![b] = None]
  /\ UNCHANGED <<infoVars, wl_shm_pool, events>>

-----------------------------------------------------------------------------
(* Requests that send commands: each handler begins, sends and returns.    *)

Begins(cmds) ==
  /\ request' = Head(wire) /\ todo' = cmds
  /\ UNCHANGED <<infoVars, shmVars, gpuVars, events>>

Ignored ==
  /\ UNCHANGED <<infoVars, shmVars, events>> /\ Returns

\* Only the window's surface is shown.
wl_surface_on_attach ==
  /\ Dispatch("attach")
  /\ IF Nested /\ Head(wire).of # surface THEN Ignored
     ELSE Begins(<<Cmd("scanout", Head(wire).arg)>>)

\* Mutant: the transfer is sent before the memory is attached.
Transfers_First(b) ==
  <<Cmd("transfer", b), Attach(b, shm[wl_buffer[b]].buf), Cmd("detach", b)>>

Transfers(b) ==
  <<Attach(b, shm[wl_buffer[b]].buf), Cmd("transfer", b), Cmd("detach", b)>>

\* wl_surface_on_damage and wl_surface_on_damage_buffer; wayland-virtio.c
\* takes the compositor_info for the buffer_info and names no resource.
wl_surface_on_damage ==
  /\ Dispatch("damage")
  /\ IF ~ Nested THEN Begins(<<Cmd("transfer", None)>>)
     ELSE IF buffer = None THEN Ignored ELSE Begins(Transfers(buffer))

\* Mutant: a commit without a buffer is not ignored.
wl_surface_on_commit_NoCheck ==
  Dispatch("commit") /\ Begins(<<Cmd("flush", buffer)>>)

\* Mutant: the transfer comes after the flush.
wl_surface_on_commit_Swapped ==
  /\ Dispatch("commit")
  /\ IF buffer = None THEN Ignored
     ELSE Begins(<<Cmd("flush", buffer), Cmd("transfer", buffer)>>)

wl_surface_on_commit ==
  /\ Dispatch("commit")
  /\ IF buffer = None THEN Ignored
     ELSE IF Nested THEN Begins(<<Cmd("flush", buffer)>>)
     ELSE Begins(<<Cmd("transfer", buffer), Cmd("flush", buffer)>>)

\* wayland-virtio.c attaches the memory for good.
wl_shm_pool_on_create_buffer ==
  /\ Dispatch("create_buffer")
  /\ LET b == Head(wire).of IN
     Begins(IF Nested THEN <<Cmd("create", b)>>
            ELSE <<Cmd("create", b), Attach(b, shm[Head(wire).arg].buf)>>)

-----------------------------------------------------------------------------
(* The gpu driver, as the handlers see it.                                 *)

\* virtio_gpu_alloc finds a free slot; resource_flush numbers its fence.
Send ==
  /\ todo # << >> /\ Len(queue) < Depth
  /\ LET next == (fence_submitted + 1) % F IN
     IF Head(todo).op = "flush"
     THEN /\ queue' = Append(queue, [Head(todo) EXCEPT !.fence = next])
          /\ fence_submitted' = next
     ELSE /\ queue' = Append(queue, Head(todo))
          /\ UNCHANGED fence_submitted
  /\ todo' = Tail(todo)
  /\ UNCHANGED <<infoVars, shmVars, done, request, wire, events, hostVars,
                 clientVars>>

\* The buffer is released and the callbacks are done, in this order.
write_fence_Events ==
  <<Msg("release", buffer, None)>>
     \o [i \in DOMAIN callbacks |-> Msg("done", callbacks[i], None)]

\* Mutant: the completed commands are not freed.
Polls_FreesNothing ==
  /\ done > 0
  /\ IF write_fence /\ \E i \in 1..done : queue[i].fence = fence_id
     THEN /\ events' = events \o write_fence_Events
          /\ buffer' = None /\ callbacks' = << >> /\ write_fence' = FALSE
     ELSE UNCHANGED <<events, buffer, callbacks, write_fence>>
  /\ UNCHANGED <<surface, fence_id, shmVars, gpuVars, request, todo, wire,
                 hostVars, clientVars>>

\* virtio_gpu_poll calls write_fence for each fence among the completed
\* commands; all but the fence of the last commit are ignored.
Polls ==
  /\ done > 0
  /\ queue' = SubSeq(queue, done + 1, Len(queue)) /\ done' = 0
  /\ IF write_fence /\ \E i \in 1..done : queue[i].fence = fence_id
     THEN /\ events' = events \o write_fence_Events
          /\ buffer' = None /\ callbacks' = << >> /\ write_fence' = FALSE
     ELSE UNCHANGED <<events, buffer, callbacks, write_fence>>
  /\ UNCHANGED <<surface, fence_id, shmVars, fence_submitted, request, todo,
                 wire, hostVars, clientVars>>

\* virtio_gpu_alloc finds the queue full and polls.
PollInHandler == todo # << >> /\ Len(queue) = Depth /\ Polls

\* handle_gpu_events.
PollInLoop == request = NoRequest /\ Polls

EndOf(op) ==
  /\ request.op = op /\ request # NoRequest /\ todo = << >>
  /\ request' = NoRequest
  /\ UNCHANGED <<surface, callbacks, gpuVars, todo, wire, events, hostVars,
                 clientVars>>

wl_surface_on_attach_End ==
  /\ EndOf("attach")
  /\ buffer' = request.arg
  /\ UNCHANGED <<fence_id, write_fence, shmVars>>

wl_surface_on_damage_End ==
  EndOf("damage") /\ UNCHANGED <<buffer, fence_id, write_fence, shmVars>>

wl_surface_on_commit_End ==
  /\ EndOf("commit")
  /\ fence_id' = fence_submitted /\ write_fence' = TRUE
  /\ UNCHANGED <<buffer, shmVars>>

wl_shm_pool_on_create_buffer_End ==
  /\ EndOf("create_buffer")
  /\ wl_buffer' = [wl_buffer EXCEPT ![request.of] = request.arg]
  /\ shm' = [shm EXCEPT ![request.arg].refcount = @ + 1]
  /\ UNCHANGED <<buffer, fence_id, write_fence, wl_shm_pool, mapped>>

-----------------------------------------------------------------------------
(* The device executes commands in order.                                  *)

\* Memory that is not mapped may be read all the same, or not: the IOMMU may
\* still have the translation, and the device a mapping of its own.
Reads(m) == IF m \in mapped THEN {TRUE} ELSE BOOLEAN

Device ==
  /\ done < Len(queue)
  /\ done' = done + 1
  /\ LET c == queue[done + 1]
         b == c.rsc
     IN IF b = None THEN UNCHANGED hostVars
        ELSE CASE c.op = "create" ->
               /\ host' = [host EXCEPT ![b] = None]
               /\ backing' = [backing EXCEPT ![b] = None]
               /\ UNCHANGED <<scanout, screen>>
          [] c.op = "attach" ->
               /\ \E read \in Reads(c.mem) :
                    backing' = [backing EXCEPT ![b] = IF read THEN c.mem ELSE @]
               /\ UNCHANGED <<host, scanout, screen>>
          [] c.op = "detach" ->
               /\ backing' = [backing EXCEPT ![b] = None]
               /\ UNCHANGED <<host, scanout, screen>>
          [] c.op = "scanout" ->
               /\ scanout' = b
               /\ UNCHANGED <<backing, host, screen>>
          [] c.op = "transfer" ->
               /\ \E read \in Reads(backing[b]) :
                    host' = [host EXCEPT ![b] = IF read /\ backing[b] # None
                                                THEN pixels[b] ELSE @]
               /\ UNCHANGED <<backing, scanout, screen>>
          [] c.op = "flush" ->
               /\ screen' = IF scanout = b THEN host[b] ELSE screen
               /\ UNCHANGED <<backing, host, scanout>>
  /\ UNCHANGED <<infoVars, shmVars, queue, fence_submitted, request, todo,
                 wire, events, clientVars>>

-----------------------------------------------------------------------------
(* The client.                                                             *)

ClientSends(msgs) ==
  /\ wire' = wire \o msgs
  /\ UNCHANGED <<infoVars, shmVars, gpuVars, request, todo, events, hostVars>>

\* main of clock-shm.c: a window, one buffer, and the pool goes at once.
ClientStart ==
  /\ Clock /\ have = {}
  /\ \E p \in Pool, b \in Buffer :
       /\ have' = {Toplevel, b}
       /\ ClientSends(<<Msg("get_xdg_surface", Toplevel, None),
                        Msg("commit", Toplevel, None),
                        Msg("create_pool", p, None),
                        Msg("create_buffer", b, p),
                        Msg("destroy_pool", p, None)>>)
  /\ UNCHANGED <<drawn, pixels, waiting, busy>>

\* request_frame: into a buffer that has been released.
request_frame(b, damages) ==
  /\ {Toplevel, b} \subseteq have /\ b \notin busy /\ ~ waiting
  /\ drawn' = (drawn + 1) % V
  /\ pixels' = [pixels EXCEPT ![b] = drawn']
  /\ waiting' = TRUE /\ busy' = busy \cup {b}
  /\ ClientSends(<<Msg("frame", drawn', None), Msg("attach", Toplevel, b)>>
                   \o [i \in 1..damages |-> Msg("damage", Toplevel, None)]
                   \o <<Msg("commit", Toplevel, None)>>)
  /\ UNCHANGED have

\* The client hears that a buffer is released, and that a frame is done
\* (frame_callback_done).
ClientReceives ==
  /\ events # << >>
  /\ events' = Tail(events)
  /\ LET e == Head(events) IN
       IF e.op = "release"
       THEN busy' = busy \ {e.of} /\ UNCHANGED waiting
       ELSE waiting' = FALSE /\ UNCHANGED busy
  /\ UNCHANGED <<infoVars, shmVars, gpuVars, request, todo, wire, hostVars,
                 have, drawn, pixels>>

\* Another client makes and destroys pools and buffers at any time, also while
\* a frame is under way: all but the buffer and the size of the pool that the
\* frame is drawn in.  Requests are handled in order, so that it may as well wait
\* until what it sent has been read.
ManagesMemory(m) ==
  /\ ~ Clock /\ wire = << >>
  /\ ClientSends(<<m>>)
  /\ UNCHANGED <<drawn, pixels, waiting, busy>>

ClientMakesWindow ==
  /\ Toplevel \notin have
  /\ ManagesMemory(Msg("get_xdg_surface", Toplevel, None))
  /\ have' = have \cup {Toplevel}

ClientMakesPool(p) ==
  /\ p \notin have /\ \A b \in Buffer : wl_buffer[b] # p
  /\ ManagesMemory(Msg("create_pool", p, None))
  /\ have' = have \cup {p}

ClientMakesBuffer(b, p) ==
  /\ b \notin have /\ p \in have
  /\ ManagesMemory(Msg("create_buffer", b, p))
  /\ have' = have \cup {b}

ClientResizes(p) ==
  /\ Nested /\ p \in have /\ UNCHANGED have
  /\ \A b \in busy : wl_buffer[b] # p
  /\ ManagesMemory(Msg("resize", p, None))

ClientDestroys(op, x) ==
  /\ x \in have \ busy
  /\ ManagesMemory(Msg(op, x, None))
  /\ have' = have \ {x}

\* Requests for a surface that is not the window, such as a cursor.  What the
\* compositor does for a damage or a commit it does for the window's buffer: the
\* client makes these between frames.
OtherSurface(s, b) ==
  /\ Nested /\ s # Toplevel /\ b \in have /\ UNCHANGED have
  /\ \/ ManagesMemory(Msg("attach", s, b))
     \/ ~ waiting /\ ManagesMemory(Msg("damage", s, None))
     \/ ~ waiting /\ ManagesMemory(Msg("commit", s, None))

ClientSteps ==
  \/ ClientStart \/ ClientReceives \/ ClientMakesWindow
  \/ \E b \in Buffer :
       \/ \E damages \in IF Clock THEN {1} ELSE {1, 2} :
            request_frame(b, damages)
       \/ Nested /\ ClientDestroys("destroy_buffer", b)
       \/ \E p \in Pool : ClientMakesBuffer(b, p)
       \/ \E s \in Surface : OtherSurface(s, b)
  \/ \E p \in Pool :
       \/ ClientMakesPool(p) \/ ClientResizes(p)
       \/ Nested /\ ClientDestroys("destroy_pool", p)

Loop ==
  \/ xdg_wm_base_on_get_xdg_surface \/ wl_surface_on_frame
  \/ wl_shm_on_create_pool \/ wl_shm_pool_on_resize
  \/ wl_shm_pool_on_destroy \/ wl_buffer_on_destroy
  \/ wl_surface_on_attach \/ wl_surface_on_attach_End
  \/ wl_surface_on_damage \/ wl_surface_on_damage_End
  \/ wl_surface_on_commit \/ wl_surface_on_commit_End
  \/ wl_shm_pool_on_create_buffer \/ wl_shm_pool_on_create_buffer_End
  \/ Send \/ PollInHandler \/ PollInLoop

Next == Loop \/ Device \/ ClientSteps
Spec == Init /\ [][Next]_vars

-----------------------------------------------------------------------------
(* Properties.                                                             *)

\* Every variable holds a value of its kind (the structs of the program).
CompositorTypeOK ==
  /\ surface \in Surface \cup {None} /\ buffer \in Buffer \cup {None}
  /\ callbacks \in Seq(Frame) /\ fence_id \in 0..F-1 /\ write_fence \in BOOLEAN
  /\ shm \in [Pool -> [refcount : Nat, buf : Region \cup {None}]]
  /\ wl_buffer \in [Buffer -> Pool \cup {None}]
  /\ wl_shm_pool \subseteq Pool /\ mapped \subseteq Region
  /\ queue \in Seq(Command) /\ done \in 0..Len(queue)
  /\ fence_submitted \in 0..F-1
  /\ request \in Message /\ todo \in Seq(Command)
  /\ wire \in Seq(Message) /\ events \in Seq(Message)
  /\ backing \in [Buffer -> Region \cup {None}]
  /\ host \in [Buffer -> Frame \cup {None}]
  /\ scanout \in Buffer \cup {None} /\ screen \in Frame \cup {None}
  /\ have \subseteq Surface \cup Pool \cup Buffer /\ drawn \in Frame
  /\ pixels \in [Buffer -> Frame] /\ waiting \in BOOLEAN
  /\ busy \subseteq Buffer

\* write_fence has a buffer to release, whether the fence of a commit comes between
\* the requests or inside a handler that polls, as wl_shm_pool_on_create_buffer
\* does for a buffer made while a frame is under way: wl_buffer_send_release is
\* never called with NULL (nested-virtio.c:98), and what the fence is for is a
\* flush that was sent.  The client commits again only when its frame is done.
FenceHasBuffer ==
  write_fence =>
    /\ buffer # None
    /\ \E i \in DOMAIN queue : queue[i].fence = fence_id

\* A client that is told that a frame is done finds it on the screen: not an
\* older one, nor one the damage before the commit did not transfer.
DoneMeansShown ==
  \A i \in DOMAIN events : events[i].op = "done" => screen = events[i].of

\* By the time a frame is done its buffer has been released: clock-shm.c draws
\* the next frame in the only buffer it has.  And the client never draws in
\* memory the device has yet to read: no transfer for a frame is outstanding
\* when the client may draw the next.
NoTornFrame ==
  ~ waiting =>
    /\ busy = {}
    /\ \A i \in DOMAIN todo : todo[i].op # "transfer"
    /\ \A i \in done + 1..Len(queue) : queue[i].op # "transfer"

\* The memory of a pool is mapped as long as the pool or a buffer of it
\* lives, and no longer; refcount says how many of them there are.
MappedWhileUsed ==
  /\ \A p \in Pool :
       shm[p].refcount = Cardinality({b \in Buffer : wl_buffer[b] = p})
                           + (IF p \in wl_shm_pool THEN 1 ELSE 0)
  /\ mapped = {shm[p].buf : p \in {q \in Pool : shm[q].refcount > 0}}

\* The device reads only memory that is mapped for it, although pools are
\* destroyed, other pools resized and other buffers destroyed while the commands
\* of a frame are outstanding (nested-virtio.c:258, 304 and 319): memory is mapped
\* for just as long as a pool or a buffer of it needs it, and none that a command
\* reads goes before.  The client leaves the frame's own buffer, and the size of
\* its pool, alone until the frame is done.
ReadsMapped ==
  /\ CompositorTypeOK /\ MappedWhileUsed
  /\ \A i \in done + 1..Len(queue) :
       /\ queue[i].op = "attach" => queue[i].mem \in mapped
       /\ queue[i].op = "transfer" /\ i = done + 1 =>
            backing[queue[i].rsc] \in mapped

\* The clock goes on: it hears of every frame, never draws in one the device has
\* yet to read, and draws another.
ClockTicks ==
  /\ [](FenceHasBuffer /\ NoTornFrame)
  /\ waiting ~> ~ waiting
  /\ have # {} ~> waiting

==============================================================================
