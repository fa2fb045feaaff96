# Models of the user-space drivers in roll-your-own-os-step-by-step

The repository is a tutorial whose code (under `src/code/`) is a set of small
Linux programs: user-space drivers on top of VFIO, programs that use them, and
a build tool. This directory holds TLA+ models of that code, the TLC
configurations that check them on small instances, and proofs that TLAPS
checks.

## Inventory

| part | state | operations | what makes it hard |
| --- | --- | --- | --- |
| virtqueue (`virtio.c`) | descriptor table with a free list threaded through `desc[].next`, available and used ring, `next_avail`, `next_used`, `used_index`, `free_head`, `free_count` | `virtio_queue_alloc`, `_writev`, `_send`, `_handle_event`, `_recv`, `_free` | memory shared with a device that runs concurrently, completes out of order and suppresses notifications; indices that wrap |
| device setup (`virtio.c`, `vfio.c`) | status, features, queue registers, DMA mappings, MSI-X eventfds | `virtio_pci_dev_init`, `virtio_send_driver_ok`, `vfio_pci_dev_open/close/init`, `map_dma`, `unmap_dma`, `set_irqs`, `read_event`, `clear_irq` | order of the steps, failures half way |
| input driver (`virtio-input.c`) | one buffer per descriptor | `supply_buffer`, `virtio_input_recv`, `virtio_input_dev_init` | the buffer of descriptor d must be `events[d]` for ever |
| gpu driver (`virtio-gpu.c`) | command slots, fence counters, resource and context ids | synchronous (`_sendrecv`) and asynchronous commands, `virtio_gpu_poll`, `_wait`, fences and the `write_fence` callback | waits that receive other commands' completions; callbacks that re-enter the driver; slots reused before the device is done |
| 9p file system (`fuse-9p.c`) | fids, nodes with lookup counts, one request slot | the FUSE operations, each a sequence of 9p calls | a call that fails half way; forget racing lookup |
| consoles (`console-virtio.c`, `console-raw.c`) | epoll masks, one buffer for each direction | the event loops | an event disabled and never enabled again; partial and failing reads and writes |
| compositors (`wayland-virtio.c`, `nested-virtio.c`, `virgl-nested-virtio.c`) | surfaces, pools, buffers, resources, frame callbacks, fences; keyboard and pointer | Wayland requests, gpu and input events | commits while a fence is outstanding; `write_fence` called in the middle of a request; memory unmapped while the device reads it |
| sockets of the compositors (the same and both proxies) | the lock file and the name `wayland-1` | the beginning of each `main` | several processes that start and die |
| vtest server (`virgl-virtio.c`, `virgl-nested-virtio.c`) | contexts, resources, mappings | the vtest commands | several clients in one loop, busy waits, ids used again and mappings left behind, clients that exit |
| Wayland proxies (`wayland-wayland.c`, `nested-wayland.c`) | an object on each side, joined by user data | one handler for each request and event | objects destroyed while events for them are under way; numbers used again on each side |
| `bake` | build log, its lock, the files | open, lock, read and replace the log; incremental build | several processes, a crash between two file operations, files edited while a build runs |
| clocks (`clock-*.c`, `draw-clock.c`, ...) | drawing state | a loop that draws and sleeps | waiting for fences and callbacks |
| `edu.c`, `stacktrace.*`, scripts | none | a straight line | |

The programs call the gpu and input drivers, which call the virtqueue, which
shares memory with the device and learns of completions through an eventfd of
VFIO. Every program is single threaded: the concurrency is between a program
and its devices, its clients and, for `bake`, other processes.

What makes each part correct:

- **virtqueue**: a descriptor is free or belongs to one request; the chain the
  device follows is the one that was written; no ring entry is overwritten
  before it is read; every request is completed and collected once; no
  notification and no interrupt is lost.
- **input driver**: a descriptor is free whenever a buffer is supplied; the
  buffer of a completion is the one found by its descriptor's number; events
  come out in order and unmodified; every buffer goes back to the device.
- **gpu driver**: a wait ends with the response to its own command; no slot is
  leaked or freed twice; fences are reported once and in order, and the
  counters are equal exactly when rendering is done; ids are never given out
  twice; no blocking read waits for something that cannot come.
- **9p file system**: each fid is known to the server, on the free list, or that of
  a release the server refused; a
  node lives exactly as long as the kernel refers to it; one request at a time.
- **consoles**: each direction is a fifo; each waits for exactly one of its two
  ends, and never for one that is over.
- **compositors**: a fence finds its buffer; a frame that is done is on the
  screen, whole; the device reads only memory that is mapped; keys reach the
  client in order and after an enter, motions say where the tablet is.
- **sockets**: the name leads to the one compositor that has the lock, and bind
  never fails.
- **vtest server**: each client gets the replies it is owed; no id is used by
  two and no memory goes while it is in use.
- **proxies**: each side sees what a direct connection would show.
- **bake**: a build that succeeds leaves what one from nothing would make; the
  log is whole after a crash, and never vouches for what was not built.

## Plan

In this order, the most shared code first; all of it is done but for what the
last paragraph says.

1. `Virtqueue` with the abstract `RequestChannel`; proofs in `VirtqueueProofs`.
2. `VirtioInput`, which extends `Virtqueue`; proofs in `QueueDriverProofs`.
3. `VirtioGpu`, which uses `RequestChannel` in place of the queue; proofs in
   `VirtioGpuProofs`.
4. `Fuse9p`, with proofs in `Fuse9pProofs`, over the calls of `Virtio9p`, with
   proofs in `QueueDriverProofs`.
5. `Compositor`, the frames of a client over the commands of the gpu driver, with
   proofs in `CompositorProofs`, and `CompositorSeat`, its input;
   `DisplaySocket`, how it gets its client; proofs of both in `DesktopProofs`.
6. `Console` and the two fifos it implements, `Terminal`; proofs in
   `DesktopProofs`.
7. `VtestServer`; proofs in `VtestServerProofs`.
8. `WaylandProxy` and the direct connection it implements, `WaylandConnection`.
9. `BakeLog` and `BakeBuild`; proofs of both in `BakeProofs`.

Left: proofs for `wayland-virtio.c`, which `CompositorProofs` leaves out, and of
the refinement `Transparent`; clients of the compositors that commit again without
waiting for their frame callbacks; the conversion of directory entries in the file system;
device set-up.

## Modules

| module | models |
| --- | --- |
| `Virtqueue` | the queue functions of `virtio.c` and the device at the other end |
| `RequestChannel` | what a virtqueue promises: exactly-once delivery in order |
| `VirtioInput` | `virtio-input.c` and the loop that calls it |
| `VirtioGpu` | `virtio-gpu.c`, any program that calls it, and the device |
| `Fuse9p` | the file system of `fuse-9p.c`, the kernel and the 9P server |
| `Virtio9p` | one call of that server on its virtqueue (`virtio_9p_sendrecv`) |
| `Compositor` | frames, buffers and pools of `nested-virtio.c` and `wayland-virtio.c`, and a client like `clock-shm.c` |
| `CompositorSeat` | keyboard and tablet of `virgl-nested-virtio.c` (and `nested-virtio.c`) |
| `DisplaySocket` | the beginning of `main` in all five compositors and proxies |
| `VtestServer` | the vtest commands of `virgl-virtio.c` and `virgl-nested-virtio.c` |
| `WaylandProxy` | `nested-wayland.c` and `wayland-wayland.c` |
| `WaylandConnection` | what a Wayland connection promises both its ends |
| `Console` | `console-raw.c` and `console-virtio.c`, the program and the terminal |
| `Terminal` | what a console promises: two fifos |
| `BakeBuild` | the incremental build of `bake` |
| `BakeLog` | the log file of `bake` and its lock |
| `SeatInput`, `Consoles`, `Bake` | `CompositorSeat`, both forms of `Console`, and `BakeLog` with `BakeBuild`, under names that do not clash, with the properties that a run checks and a theorem states |
| `MC...` | instances for TLC |
| `...Proofs` | theorems |

How they fit together: `VirtioInput` and `Virtio9p` extend `Virtqueue`, so their
steps are the queue's; `VirtioGpu` stands on `RequestChannel`, which `Virtqueue` implements;
`Compositor` and `VtestServer` take from `VirtioGpu` that commands are done in
order and fences reported once and in order, and `CompositorSeat` takes from
`VirtioInput` that events come out in order and that none is left behind.

### Virtqueue

The state is `struct virtio_queue`, the descriptor table (`next` and the NEXT
and WRITE bits of `flags`), the two rings with their indices, the
NO_NOTIFY flag, the notify register (`kick`) and the eventfd (`irq`). Addresses
and lengths of buffers are left out. `pc` is where the driver thread is; each
function is one action, except that `virtio_queue_send` has three, because the
device can tell apart the store of the ring entry, the store of `avail->idx`
after the first fence, and the load of `used->flags` after the second. Indices
count modulo `W`, as `uint16_t` does modulo 2^16. `free`, `chain`, `rcnt` and
`place` are history variables: they record what the driver meant, no guard
reads them.

A loop over a list of descriptors, in `virtio_queue_alloc`, `_writev` and
`_free`, is a function `p` from positions to descriptors with `Visits(p, n, d)`:
`p` follows `next` from `d`. That keeps the module free of recursion.

The device is external. It sleeps until notified, may suppress notifications
while it runs, looks once more at the available ring after allowing them, takes
requests in order and completes them in any order, and raises the interrupt in
a step of its own.

### RequestChannel

Four containers: requests submitted, being served, completed, received. The
refinement mapping `Channel` of `Virtqueue` reads them off the rings; property
`ImplementsChannel` says every step of the queue is a step of the channel.
`VirtioGpu` is built on the channel, so that TLC can follow several commands
through the driver without the rings.

### VirtioInput

Adds the event buffers, the addresses in the descriptors, and the position in
`supply_buffer`, `virtio_input_recv` and `virtio_input_dev_init` to
`Virtqueue`. The device may act between any two statements of
`virtio_input_recv`: reading `elem`, copying the event, freeing the descriptor,
reading `elem->id` again. Events are numbered modulo `K`; `K > N + 1` tells all
events that can be around at once apart. The loop is `handle_keyboard_events`
of `nested-virtio.c` (`handle_mouse_events` does the same calls).

### VirtioGpu

A slot is an entry of `cmds[]`, the request with that head descriptor. The
thread enters a call (one action per command of the driver, in `Call`), then
goes through `virtio_gpu_alloc`, `virtio_gpu_send` and, if the command waits
for its response, `virtio_gpu_wait`; `virtio_gpu_alloc` goes through
`virtio_gpu_poll` when descriptors are short. `virtio_gpu_wait` and
`virtio_gpu_poll` do the same steps and differ in what they return to (`ret`)
and in what they keep. `seen` is `used_index - next_used`, how many completions
the driver has loaded and not received. The step `virtio_gpu_recv` changes
`fence_completed` and calls `write_fence`; the callbacks in the repository do
not call the driver. `wait_fences` is the loop of `clock-virtio.c` and
`virgl-virtio.c` on the two fence counters, `handle_gpu_events` the handler of
the compositors.

From the virtqueue the module takes: a slot that `virtio_queue_alloc` returns is
not in use (`NoSharing`), requests are taken in order and completions received
in order (`ImplementsChannel`), a completion not loaded is followed by an
interrupt (`NoLostInterrupt`). All three are proved or checked there.

Commands are reduced to what the driver and the device do with ids. The device
runs commands in order, refuses one that creates an id it has or names one it
does not have, answers commands without a fence in any order and fenced ones in
the order it took them: the driver keeps only the last completed fence, so it
relies on that order.

### Fuse9p

One thread serves one FUSE request at a time and waits for each 9P response, so
a call of the server with what follows it is one step (`Virtio9p` shows why it
may be), and `pc` is the next call. `lookup`, `open` and `opendir` start alike (`walk_from`): a new fid is
walked from the inode's. After that they differ: a lookup keeps the new fid only
if the file has no node yet, an open keeps it if `lopen` succeeds. Each has its
error path as an action of its own. `release` and `forget` make one call, a
batch of forgets one call per inode that goes (`forget_multi_next`). The hash
table is the set `nodes` with two functions, `free_fid` the stack of the code.
`getattr`, `readlink`, `statfs`, `read` and `readdir` change nothing on either
side; that the fid they name is known to the server is part of `FidsAccounted`.

The kernel holds `known[i]` lookups of inode i. It drops an inode, never the
root, when no request and no open file needs it; the `forgets[i]` lookups it
drops reach the program later, at once or in parts, possibly after the answers
to newer lookups. The server may fail any call but the clunks of lookup, open
and forget, which the code asserts to succeed. `release` and `releasedir` report
a clunk that fails (lines 853 and 912) and return before `virtio_9p_free_fid`:
the kernel drops the file all the same, and its fid is neither open nor free from
then on. Such fids are in the history variable `lost`, and the server may know
them still or not. A name may lead to any file but the root, and several names to
one file. The server's files are fixed.

### Virtio9p

Adds the messages of `dev->msgs` and the position in a call (`step`) to
`Virtqueue`: `virtio_9p_alloc`, the statements of `virtio_9p_sendrecv` with the
loop around the blocking read of the eventfd, and the two ways out of it, an
error, which frees in `virtio_9p_sendrecv`, and an answer, which the caller
decodes and frees (`virtio_9p_statfs` stands for them all). The version and the
attach come first and must succeed, as the program asserts. The server reads the
message of the first descriptor and writes that of the next.

### Compositor

One event loop serves the client's requests (`wire`) and the interrupts of the
gpu. `Nested` chooses between `nested-virtio.c` (`virgl-nested-virtio.c` repeats
its handlers) and `wayland-virtio.c`, which transfers a buffer in the commit and
not in the damage. A handler that sends commands is three kinds of steps:
it begins (`request`, `todo`), sends one command after the other (`Send`), and
ends with what the code does after the last one (`..._End`): between them the
device runs, and `virtio_gpu_alloc` may find the queue full, poll, and so call
`write_fence` in the middle of the handler (`PollInHandler`). The device
executes commands in order on resources (`backing`, `host`) and the screen. The
memory of pools is a set of regions with what of it the IOMMU maps.

The client draws a frame when the last one is done, into any buffer that has
been released, as `clock-shm.c` does (`Clock`: exactly that program). Without
`Clock` it also makes and destroys pools and buffers, resizes pools and attaches
buffers to other surfaces at any time, also while the commands of a frame are
outstanding: the handler of a new buffer may meet a full queue, poll and so call
`write_fence` (line 98), and the pool of the frame itself may be destroyed (304).
What such a client leaves alone until its frame is done is what it draws in: it
destroys no buffer it has not been given back, nor resizes that buffer's pool;
and it damages and commits a surface only between frames, since the handlers take
the buffer of the window whatever surface they are called for. It waits until
what it sent has been read before it sends more, which costs no behaviour of the
compositor: one loop handles the requests in their order, between any two steps
of the device.

`wl_surface_on_damage_buffer` of `wayland-virtio.c` takes the `compositor_info`
for a `buffer_info` (line 140); which number it reads depends on the layout, so
the model names no resource there and the device refuses the command. That
program also unmaps a pool as soon as it is destroyed (line 214), although its
buffers live, and `clock-shm.c` destroys its pool at once (line 145). What the
device then finds depends on the IOMMU and on what the device has mapped itself:
an attach or a transfer of memory that is not in `mapped` may read it or not
(`Reads`), and no property says what `wayland-virtio.c` shows.

### CompositorSeat

The input half of the same loop: the objects a client asks for, in any order,
and the handlers of keyboard and tablet, which take events until the queue is
empty. A device has a fifo and an eventfd that may be cleared before its events
are taken. `history` and `sent` are history variables that the properties
compare: a message carries in `of` the number of the event it is about, which
the client does not see.

### DisplaySocket

The statements from `open` of the lock file to the close of it, one action each
where another process can see the difference, for any number of servers that
die at any statement (an assertion that fails is a death too) and start again.
A name stays behind when its process dies; a lock does not.

### VtestServer

A command is a header and a body, sent separately. The loop reads a header from
any readable connection (`handle_virgl_events`) and then handles the command to
its end: one action per command, two where it waits for fences
(`submit_cmd`, `resource_busy_wait`), while the compositor's fences
(`Flush`, `GpuCompletes`) go on. The free list of ids and `buf` of each resource
are those of the driver: `buf` keeps its address when a resource is released,
as in the code, and the memory stays mapped in the server, since only the device's
mapping is undone. With `Nested` several
clients share the loop, without it there is one. A client ends between two
commands; then the assertion of the next header fails, `vtest_exit`.

### WaylandProxy, WaylandConnection

Four directions of messages: requests from the client, those the proxy has
forwarded and not flushed, those that the backend has not served; and events the
other way. Each side has its numbers: the lowest free one is taken, and it is
free again after `delete_id`. `resources` and `proxies` join the two sides by
what the code stores as user data. Every handler of `nested-wayland.c` is an
action named for it; those with the same shape share an operator (`OnCreate`,
`OnDestroy`, `OnUse`, `OnEvent`, `OnEnter`, `OnLeave`). Handlers that differ
only in plain arguments (titles, sizes, positions) are one action. A destroyed
object is a zombie whose events libwayland drops. A scene says which requests
the client makes; it is chosen at the start.

`WaylandConnection` is a connection with nothing between the ends. Under the
refinement mapping `Direct` the proxy's three queues in a row are its one queue.
`Transparent` says that every request arrives once, in order and at the object
it was made of, and every event for an object the client still has as well. An
`enter` for a surface that has been destroyed kills the proxy (a null pointer,
`dead`), in the model as in the code: it promises nothing afterwards.

### Console, Terminal

One buffer for each direction. `stdin_on` and `stdout_on` say, for
`console-raw.c`, that the descriptor is in the epoll mask, and for
`console-virtio.c` that the device has the buffer; `master_mask` and `running`
are the code's, with its exclusive ors. `master_event` is what `epoll_wait`
returned for the pty, and `master_reads`, `master_writes` and `master_end` are the
branches for `EPOLLIN`, `EPOLLOUT` and the rest, in the order of the code.
Reads and writes do a part, or fail with `EAGAIN` or `EINTR`. `Terminal` is two
fifos, which `TwoPipes` says both implement.

### BakeBuild, BakeLog

`BakeBuild` is the decision of one build: the log entry of a rule (`find`), the
times of its dependencies (`check_updated`), the commands, which read their
dependencies in one step and write the outputs in another, and the end, where the
log is written. The user edits files and the bakefile between any two steps,
commands fail and leave some outputs half written, and the process is killed.
The content of an output is the command and the contents it was made from, so a
stale file can be told. `quiet` and `settled` are history variables.

`BakeLog` is the same program as the file system sees it: several processes open,
lock, read and replace the log, with one action for each system call, and are
killed between any two of them. A lock belongs to the file that was opened and
not to its name; `apart`, chosen at the start, says that no two run at once.

## Runs

| run | instance | shows |
| --- | --- | --- |
| `virtqueue` | N = 2, W = 4, chains of 1 and 2 | `RequestsAccounted`, `NoLostNotification`, `NoLostInterrupt`, `ElemStable`, the refinement `ImplementsChannel`, and `EveryRequestCollected` |
| `virtqueue_chains` | N = 4, W = 8, chains of 2 and 3 | `DescriptorsAccounted`, `ChainsIntact` with a scrambled free list |
| | the calls of `fuse-9p.c` on that queue, Calls = 3 | `CallsApart`, and no deadlock |
| `virtio_input` | N = 2, W = 4, K = 4 | `BufferOfDescriptor`, `EventsInOrder`, `BuffersReturn` |
| `virtio_gpu` | N = 7, 3 slots, 3 resources, 1 context, F = 5 | `ReplyIsOwn`, `SlotsReturned`, `CommandsAccepted`, `FencesCounted`, `FencesInOrder`, `BlocksOnlyOnDevice` |
| `virtio_gpu_live` | N = 5, 2 slots, 1 resource, 1 context, F = 4 | `CallsReturn`, `CompletionsCollected` |
| `fuse_9p` | 3 files, root 2, 2 lookups per inode, 2 open files, 1 release that fails, 7 fids | `LookupsCounted`, `FidsAccounted`, `ServedFromOwnFile`, `NodeStableInUse` |
| `compositor` | frames: `nested-virtio.c`, 2 buffers, 2 pools, 2 regions, 2 surfaces, 2 commands, F = 4, V = 2 | `FenceHasBuffer`, `DoneMeansShown`, `NoTornFrame`, `ReadsMapped` |
| | seat: 2 keyboards, 2 pointers, 1 position, 3 events | `InputDelivered` |
| `desktop` | 3 servers, 2 clients, 3 deaths | `SocketSafe` |
| | `clock-shm.c` on `nested-virtio.c` and on `wayland-virtio.c`: 1 buffer, 2 commands | `ClockTicks`, which includes `DoneMeansShown` for the former |
| | both consoles: 3 keys, 3 prints, chunks of 2, room for 1, 1 failure | `TwoPipes`, `ConsoleServes` |
| `vtest` | 2 clients that use every command and exit, 2 resources, 3 addresses, 1 fence | `RepliesAsOwed`, `ResourcesApart` |
| `vtest_exit` | 2 clients that exit | `HeadersComplete`, which is violated |
| `bake` | 2 rules, 3 outputs, 2 sources, 2 commands, 3 edits and builds | `BuiltIsFresh`, `NoRework` |
| | 3 processes, 1 kill, 4 log files, 6 times; at the same time, and one after the other | `LogWhole`; `LogServesNext` |
| `proxy` | 9 scenes of at most 3 objects each | `Transparent` |

A run with several rows has systems that share nothing: one of them is
chosen at the start (`half`, `part`, `scene`, or `step`, which is "none" when the
queue has no 9p calls on it), and the variables of the others stay as they are, so every property is checked in the states of its own
system. `vtest_exit` expects a violation: `assert(recv(fd, &header, ...) ==
sizeof(header))` (`virgl-nested-virtio.c:783`) fails when a program exits, for the
end of the file makes its connection readable; the compositor aborts with all
its windows.

Every property of a passing run has a mutant: a definition changed the way a
slip in the code would change it, under which TLC finds the property violated.
They are the operators with a suffix (`virtio_queue_free_LeavesEnd`,
`keep_Breaks`, ...) and PROJECT.json pairs them with the properties. A type
invariant is checked as a conjunct of the property it supports: `GpuTypeOK` of
`SlotsReturned`, `CompositorTypeOK` of `ReadsMapped`, `SeatTypeOK` of
`InputDelivered`, `SocketTypeOK` of `SocketSafe`, `VtestTypeOK` of
`RepliesAsOwed`, `CallTypeOK` of `CallsApart`, `ConsoleTypeOK` of
`ConsoleServes`, `BakeTypeOK` of `BuiltIsFresh`. All of them are proved, and so are
those of `Virtqueue`, `VirtioInput` and `Fuse9p`, which no run lists.

Bounds. `W` is twice `N`, so that indices wrap around after every two turns of
the ring and every alignment of the indices occurs; a queue of two is often
full, empty and half full. Chains need `N = 4`: two requests of two descriptors,
freed out of order, leave a free list no fresh queue has. Two input buffers are
completed in either order. For the gpu, three commands exhaust seven
descriptors, so that `virtio_gpu_alloc` polls with the device at work, and a
wait can meet completions before and after its own. `R`, `C` bound how many ids
are ever allocated; ids on the free list are reused without end. `Moderate`
keeps that run small: a state with three slots in use is followed only while at
most one resource id has been given out (which is the case of the full queue),
and one with more ids only while at most two slots are in use (which is the case
of ids that are reused). Fence ids count modulo `F`, which needs to exceed the
number of outstanding commands by two. The file system has its root at 2 and a
file at 1, the one number `virtio_9p_fix_qid` must move, and a third that keeps
its number. Two lookups of an inode let a forget meet a newer lookup; three
nodes, two open files, a request and a file whose release failed use seven fids,
so `MaxFid` never stops anything. `MaxLost` does: after one release that failed
the model's server refuses no other, and the theorem is about any number. One 9P call uses two of its four descriptors, so the indices wrap
after eight calls and the free list is turned round; calls are numbered modulo
three, which tells the last one from this one.

A damage takes three commands, so a control queue of two is full in the middle of
its handler, and after a flush with the one before it is full when the client
makes another buffer. Two pools let one of them be made or destroyed while a
frame uses the other; two regions are needed for that and to resize. Frames count
modulo 2: one frame is under way at a time, and a frame that is shown late or
not transferred differs from the next one; an older one of the same parity
cannot be the only one to be mistaken, since a buffer may also be left alone for
one frame less. One position per axis is enough for the seat, because x and y
start at 0 and reports are split in every way. A third server is needed for one
to start between two others' unlink and bind. Room for one byte and chunks of
two make partial writes; three keys let the next read meet a full buffer. Two
resources and three addresses let a resource be made again, with or without
memory, under the id of one that left a mapping behind, while both clients have
commands under way. One of the two clients may do nothing, so `vtest` has the
behaviours of `virgl-virtio.c` too. A build, an edit and a build are three tasks,
during which anything is killed or removed. Three objects are what
a toplevel takes (surface, xdg surface, toplevel), and with two destroyed
numbers are used again.

Views and symmetry. A `VIEW` leaves out what no later step can read: ring slots
and event buffers already consumed, the last command and response of a slot not
in use, the link of a resource that is in use, the field `buf` of `VirtioGpu`; and
it counts fence ids from `fence_completed`, since they are only compared and
incremented. Each is a function of the state under which successors agree, so no
behaviour is lost, and it is used for liveness too. Slots, buffers, pools, regions,
addresses, clients of the vtest server, processes and commands of the bakefile
are symmetric in safety runs:
they are only compared for equality.

Fairness. The driver thread is not stopped for ever inside a call: its actions
are weakly fair. So are the device's, one by one, because the queue would be of
no use without; the virtio specification has the device serve what it was
notified of. Nothing is assumed that would make a program call the driver or a
user press a key. `handle_gpu_events` is strongly fair: the program is away from
its loop again and again, and both `epoll_wait` and the Wayland event loop
return a ready descriptor after finitely many others. In `VirtioInput` and
`Virtqueue` weak fairness of the loop is enough. For `ClockTicks` the loop of
the compositor, the device and the clock's own loop are weakly fair
(`ClockFairness` of `MCDesktop`). For `ConsoleServes` each descriptor that is
ready again and again has its turn (strong fairness of the handlers, since epoll
is level-triggered and serves all ready descriptors), and program and device
take what they are given (`ConsoleFairness`). `ConsoleServes` excuses what the
code does not promise: a read that fails with `EAGAIN` or `EINTR` disables the
keyboard for good (`console-raw.c:103`), and what a program prints just before
it ends may be lost. The other runs check safety, and deadlock wherever the
system cannot stop of its own: the proxy waits for its client, and `bake` ends.

## Proofs

TLAPS proves, for every value of the constants that meets the named assumptions
of each module (such as `SizeAssumption`: at least one descriptor, `W` a multiple
of `N` greater than it, chains no longer than `N` with at most all buffers
read-only; `InputAssumption`: a request may be one writable buffer, `K > N + 1`;
`CallAssumption`: it may be a buffer to read and one to write, and two calls can
be told apart; `GpuAssumption`: at least three descriptors, a slot for each pair
of them, and more fence ids than commands that fit the queue; `SeatAssumption`
and `ConsoleAssumption`: counts are numbers; `BakeAssumption`: finitely many rules,
each makes something, as one that does not is never found, and no two make the same
file, which `get_providers` refuses). The theorems about an instance (`Seat` of `SeatInput`, `Build` of `Bake`, and `Pty`, a
`Console` of either form) have the instance's assumption as their hypothesis:

| theorem | property |
| --- | --- |
| `VirtqueueProofs!TypeCorrect` | `TypeOK` |
| `DescriptorsSafe` | `DescriptorsAccounted` |
| `ChainsSafe` | `ChainsIntact` |
| `RequestsSafe` | `RequestsAccounted` |
| `NotificationSafe` | `NoLostNotification` |
| `InterruptSafe` | `NoLostInterrupt` |
| `ElemSafe` | `ElemStable` |
| `ChannelImplemented` | `ImplementsChannel` |
| `QueueDriverProofs!InputUsesQueue` | every behaviour of the driver is one of `Virtqueue` |
| `SupplyNeverFails` | `SupplySucceeds` |
| `DescriptorCarriesBuffer` | `BufferOfDescriptor` |
| `EventsReturnedInOrder` | `EventsInOrder` |
| `CallsUseQueue` | every behaviour of the 9p calls is one of `Virtqueue` |
| `CallsKeptApart` | `CallsApart` |
| `VirtioGpuProofs!ReplyIsOwnAlways` | `ReplyIsOwn` |
| `SlotsReturnedAlways` | `SlotsReturned` |
| `CommandsAcceptedAlways` | `CommandsAccepted` |
| `FencesCountedAlways` | `FencesCounted` |
| `FencesInOrderAlways` | `FencesInOrder` |
| `BlocksOnlyOnDeviceAlways` | `BlocksOnlyOnDevice` |
| `SlotsSuffice` | descriptors for a command mean a slot for it |
| `Fuse9pProofs!FuseTypeCorrect` | `TypeOK` |
| `FuseLookupsCounted` | `LookupsCounted` |
| `FuseFidsAccounted` | `FidsAccounted` |
| `FuseServedFromOwnFile` | `ServedFromOwnFile` |
| `FuseNodeStableInUse` | `NodeStableInUse` |
| `DesktopProofs!SocketStaysSafe` | `SocketSafe` |
| `SeatDelivers` | `InputDelivered` |
| `ConsoleIsTwoPipes` | `TwoPipes` |
| `ConsoleMasksFollow` | the safety part of `ConsoleServes` |
| `CompositorProofs!FenceHasBufferAlways` | `FenceHasBuffer`, of `nested-virtio.c` |
| `DoneMeansShownAlways` | `DoneMeansShown`, of `nested-virtio.c` |
| `NoTornFrameAlways` | `NoTornFrame`, of `nested-virtio.c` |
| `ReadsMappedAlways` | `ReadsMapped`, of `nested-virtio.c` |
| `VtestServerProofs!RepliesAsOwedAlways` | `RepliesAsOwed` |
| `ResourcesApartAlways` | `ResourcesApart` |
| `BakeProofs!LogAlwaysWhole` | `LogWhole` |
| `LogServesNextAlways` | `LogServesNext` |
| `BuildsAreFresh` | `BuiltIsFresh` |
| `BuildsAreNotRepeated` | `NoRework` |

The inductive invariant `IndInv` of `VirtqueueProofs` is the conjunction of
`TypeOK`, `FreeListOK`, `NoSharing`, `NoLeak`, `ChainsIntact`,
`RequestsAccounted` and `RingsOK`. None of them is inductive without the
others. The free list is only well formed because the chain that
`virtio_queue_free` prepends is intact and disjoint from it; the chain is
intact because its head was taken from one place of a ring; and a place of a
ring is only written when it is empty because descriptors run out first: the
windows of the two rings hold distinct heads, and distinct heads number at most
`N` (the pigeonhole fact of the library for injections into a finite range).
`RingsOK` says what the indices and the thread's position have to do with each
other. `Visits` is shown to agree with `free` and `chain` position by position,
by the least counterexample, since induction over data is out of the prover's
reach. The two notification invariants need `TypeOK` and a disjunction over the
positions of device and driver only.

`ChannelImplemented` takes the steps of the queue one by one under `IndInv`. The
channel's `submitted` and `completed` are the requests in the windows of the two
rings (`Entries`). Four lemmas say what happens to such a window when an entry is
stored at its end and the end moves over it, when its start moves, and when
something outside is written. So the store of `avail->idx` is the submission,
`dev_pop` the taking, the used index the answer, and the loads and stores between
them stutter; a free after `virtio_queue_recv` or after `virtio_gpu_wait` is the
release.

`QueueDriverProofs` first shows `InputSpec => Spec`, which carries `IndInv` over,
and then the invariant `InputInv`: where the thread is (`ControlOK`), that at
start buffer i meets descriptor i because the free list is still in its
initial order (`InitOrder`), that afterwards the head of the free list is the
descriptor whose buffer is about to be supplied (`HeadIsBuffer`), hence
`BufferOfDescriptor`; that `slot` is the element last received (`SlotOK`); and
that the filled buffers hold consecutive event numbers up to `produced`
(`EventsOK`).

Its second part does the same for 9p: `CallSpec => Spec`, and the invariant
`CallInv`. Its core is `OneRequest`: the queue holds one request of two descriptors
and between two calls none, which is what makes the completion a call receives its
own. `OneInterrupt` follows the interrupt of that request through the device, the
eventfd and the read of it, and says there is none before the answer: so a call
cannot be woken by what an earlier one left. `MessagesOK` says what the two buffers
hold, and `CallControlOK` what the position in the call has to do with the one in
the queue function it is in.

`VirtioGpuProofs` has the invariant `GpuInv`. What each conjunct is for:

- `GpuTypeOK`, `Exclusive`: types, and a slot in one place of the channel.
- `ControlOK`: what the thread's position says of its slot. It holds at most
  the completion it has just received and the one it waits for.
- `InterruptOK`: an unseen completion has raised or will raise the interrupt, and
  whoever polls has a reason to.
- `DescriptorsOK`: every descriptor is free or in a slot in use, counted by
  `Descs`. This gives `SlotsReturned`, `SlotsSuffice`, and, since a thread that
  polls in `virtio_gpu_alloc` is short of descriptors, that some command is still
  out: `BlocksOnlyOnDevice`.
- `CallOK`, `SyncIsLast`: nothing is sent after a command that is waited for.
  Hence a resource that is being released, or a context being made, is named by
  no other command under way.
- `FreeIdsOK`: the links lead through distinct ids that are not in use. The path
  is a function, its existence the invariant: no induction is needed.
- `ResourcesOK`, `ContextsOK`: the device has an id, or gets it from a command
  that is sent before the one that names it (`WillHave`, `Queued`). With them the
  device refuses nothing (`AnswersOK`, `CommandsAccepted`).
- `FenceQueueOK`, `FencesOK`: the device's fences are those of the commands it
  serves, and the fences not reported yet are the numbers after
  `fence_completed`, each once and in the order of their requests. So the counters
  differ by how many there are (`FencesCounted`), and the next one reported is
  the next number (`FencesInOrder`); `F` only has to exceed that many.

`Fuse9pProofs` needs `FuseAssumption` (1 and the root are files, "no file" is
none). Its invariant `FuseInv` adds to the properties what each call of a request
may rely on (`RequestOK`): the kernel holds the request's inode, the root and
the inodes of open files; a lookup that found a node still has it, and one that
did not still has none; the new fid is of the file it was walked to. The root's
part is why no open file ever has handle 0. Three lemmas say what allocating,
giving back and clunking a fid do to the set of free ones, so that the proof of
each action only has to say which use the fid moves from and to; a release that
the server refuses moves it to `lost`, which nothing leaves.
`virtio_9p_fix_qid` is injective (`FixQid`), hence the node a lookup finds is of
the file the name led to.

`DesktopProofs` is about three small systems. For the sockets it needs
`SocketAssumption` ("no server" is none). To `SocketSafe` it adds that the name is free from the unlink to the bind
(`NameIsFree`): only the one server that has the lock binds, and a server that
dies holds no lock any more, so the next one's unlink removes what it left.

For the seat, `SeatInv` adds to `InputDelivered` what makes it inductive: a message
is addressed to an object the client has, each keyboard has had its keymap, and
`x` and `y` are where the tablet was after the events the loop has taken. Every
handler appends a few messages to `sent`, so the proof is about what an appended
piece needs: `TurnsGrow` (each new message is in its turn, after its enter) and a
lemma on `Delivered` (the numbers of its events ascend and leave out none). The
messages of a kind are found by their event numbers, which keeps filters of
sequences, and so induction over them, out of the argument.

For the consoles, `ConsoleInv` says that the buffer of each direction is in one place
(`OneHolder`: with the terminal's end, on its way in an interrupt, or with the pty),
that what the loop has still to do was waited for (`Pending`), and that without a
failure each direction that is not over has a holder (`NoneLost`). `OneHolder` is why an
exclusive or is right: the bit it toggles is known, so it never switches off what it
should switch on. `ConsoleIsTwoPipes` then goes through the steps: each appends to or
takes from the front of `slave_in \o stdin_buf \o typed` or `stdout_buf \o
slave_out`, the contents of the two fifos, or moves what is in the middle and
stutters. The lemmas before it (`Divided`, `TailOfJoined`, `Appended`, `Regrouped`)
say what taking a part of a buffer does to such a sequence.

`CompositorProofs` is about `nested-virtio.c` (`Nested`) with any client the
module admits (`~ Clock`), so one that makes and destroys other memory while its
frame is under way; `CompositorAssumption` keeps windows, pools and
buffers apart, asks for one command and for two frames that can be told apart,
and for more fence ids than the queue has places. `CompInv` has seven parts:
types; what the compositor knows of the window, the pools and the buffers is what
the client has, but for the one request under way (`WindowOK`, `PoolsOK`,
`BuffersOK`); two pools never share memory, and what a buffer points to is mapped
(`MemoryOK`); what is left to send belongs to the request being handled
(`RequestOK`). `FramesOK` is the argument about frames: between two of them
nothing is under way but the creation of buffers (`Between`); and during one
(`Framing`) how many of its messages are still to be read (`Left`) determines the
rest: what is pending at the device is of its buffer and in order, or creates
another one; each transfer comes after the attachment of its memory; nothing but
creations follows the flush, which carries the last fence (`FrameRequest` to
`FrameShown`, `FenceLast`). Once the commit has been read, one other request
at a time may be on the wire or be handled, and it is not about the buffer
or the size of the pool of the frame. That goes on until the compositor hears of
the fence (`Told`), in its loop or while it creates a buffer, and the frame is on
the screen (`OnScreen`).

`VtestServerProofs` has `VtestInv`. A client and the loop are in one of a few
phases of one exchange (`ExchangeOK`): the header is sent, the body is sent, the
command is done and its replies are those still owed. An id is on the free list
or of one client (`IdsOK`). No two resources have the same address (`MemoryOK`),
although `buf` keeps the one of a resource that was released, because what the
server has mapped for a resource is never unmapped in the process.

`BakeProofs` needs `BakeLogAssumption` for the log. Several bakes may hold locks at once,
on different files, so the argument does not rest on the lock but on `O_EXCL`:
a process between creation and rename owns the temporary file, and no other one
writes to it (`WriterOwnsTmp`); a process killed there leaves a name under which
no other is ever created. The temporary file is neither the log nor open in any
bake (`TmpIsApart`), so what is or was the log is never written to again and
stays whole (`OpenedWhole`). `LogInv` is their conjunction with the types. `LogServesNext` is about bakes that
run one after the other (`apart`) and needs `ApartInv` besides: one bake is at work,
no log entry is newer than the output, the output is whole from the end of the
command to the rename, and the temporary name exists only while it is being
written, unless a bake was killed.

For builds, `BakeInv` is about what entries of the log and of `files` vouch for.
`Honest`: an output as old as its entry says, whose dependencies are older than the
entry, has the contents that the entry's command makes of theirs. It survives an edit
because an edit has a time, and a command because what it read is what is still there, or
has been touched since it started (`Running`). `Sorted`: a rule comes after those that
make what it needs, so an output recorded as good is not made again later in the same
build. With them `QuietBuild`, which says that a build in which nobody edits has
recorded all it has processed, gives `BuiltIsFresh` at its end; and `Settling`, which
keeps the rules of a build that succeeded recorded from one build to the next until
something is edited, gives `NoRework`: a rule that is recorded is reused. That a build
processes each of its rules, and each once, rests on the library's facts about
bijections, for `sort_targets` of any finite set of rules.

Only model-checked, and why:

- Liveness (`EveryRequestCollected`, `BuffersReturn`, `CallsReturn`,
  `CompletionsCollected`, `ClockTicks`, `ConsoleServes` but for the part
  `ConsoleMasksFollow` states) is beyond the prover.
- `Transparent` of `WaylandProxy`: its mapping filters queues of any length, and what
  a filter does to a queue that grows is an induction over data.
- `wayland-virtio.c`: the four safety properties of `Compositor` are checked and
  proved for `nested-virtio.c` only. The damage handler of `wayland-virtio.c` sends
  a command the device refuses, its commits are of another shape, and it lets the
  device read memory it has unmapped; TLC checks that `clock-shm.c` goes on ticking
  on it (`ClockTicks`: every fence finds its buffer, no transfer is outstanding
  when the clock draws, and it draws again), not what is on the screen.

## Not modelled

- Set-up of the device and of VFIO, and `edu.c`: a straight line of system
  calls and register accesses, each with an assertion, before or without
  anything that runs concurrently but the one operation waited for.
- The other clocks, the drawing, `stacktrace.*` and the scripts: no state that
  another step could disturb.
- In the compositors: clients that commit or damage any surface again before the
  last frame is done, or destroy its buffer or resize that buffer's pool by then.
  `fence_id` and `buffer` hold one frame, so the first buffer would never be
  released; and since a commit of any surface takes the buffer of the window, a
  poll in it can release that buffer and leave `write_fence` set without one.
  Regions and the configure handshake of xdg surfaces, whose handlers keep no
  state.
- In the vtest server: the partial reads and writes inside one message. In
  `sendall`, `send < 0` compares the address of the function and not the count
  (`virgl-virtio.c:48`, `virgl-nested-virtio.c:740`), so a failed write moves the
  position back by one; the model's writes do not fail.
- In `bake`: the parser. A command that succeeds but does not make all its outputs:
  the code leaves those out of the log (line 516) and takes them for failed (617),
  the model's commands make all. File times that tie, or lag the clock the start of
  a rule is taken from, as the coarse times of some file systems do: in the model
  no two events have one time. That two processes may bake at once, although the
  message of line 540 says otherwise, is in the model: the lock of line 538 is
  taken on the file that was opened, which `write_log` may have replaced.
  `LogWhole` holds all the same.
- In the proxies: that frame callbacks are never destroyed (`nested-wayland.c:26`),
  requests with a null object where the protocol allows one, events without a
  listener, and the death of the outer compositor. Liveness of frames and pings
  is not checked, nor is that of replies in the vtest server.
- In the file system: attributes and directory entries, files that change on
  the server.

Buffer contents and addresses (except the buffer of an input event) are
abstracted everywhere. Memory is sequentially consistent in the models: the code
stores and loads the ring indices with release and acquire, and has a full fence
in `virtio_queue_send` at the one place where a store must be visible before a
later load.
