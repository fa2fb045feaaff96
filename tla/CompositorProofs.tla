--------------------------- MODULE CompositorProofs ---------------------------
(***************************************************************************)
(* Proofs about module Compositor, for nested-virtio.c and any client that *)
(* waits for a frame to be done before it draws or commits again, and then *)
(* makes and destroys pools and buffers as it likes, but for what the      *)
(* frame is drawn in: for every set of buffers, pools, surfaces and        *)
(* regions of memory, every depth of the control queue and every number of *)
(* fence ids and frames.                                                   *)
(***************************************************************************)
EXTENDS Compositor, FiniteSetTheorems, SequenceTheorems, TLAPS

-----------------------------------------------------------------------------
(* The inductive invariant.                                                *)

\* The commands the device has yet to execute.
Pending == SubSeq(queue, done + 1, Len(queue))

\* The first message on the wire is of this kind and about x.
Comes(op, x) == wire # << >> /\ wire[1].op = op /\ wire[1].of = x

\* The only requests a client may make between two frames: about memory, or
\* for a surface that is not its window.
BetweenFrames(m) ==
  \/ m.op \in {"get_xdg_surface", "create_pool", "resize", "destroy_pool",
               "create_buffer", "destroy_buffer"}
  \/ m.op \in {"attach", "damage", "commit"} /\ m.of \in Surface \ {Toplevel}

\* And those it may make while the compositor shows a frame.
DuringFrame(m) ==
  \/ m.op \in {"create_pool", "resize", "destroy_pool", "create_buffer", "destroy_buffer"}
  \/ m.op = "attach" /\ m.of \in Surface \ {Toplevel}

\* The memory the pixels of a buffer are in.
Memory(b) == shm[wl_buffer[b]].buf

\* How many messages are left to read until the commit of a frame has been.
Left ==
  IF wire # << >> /\ wire[Len(wire)].op = "commit" /\ wire[Len(wire)].of = Toplevel
  THEN Len(wire) ELSE 0

\* The window is known to the compositor once the client has it, but for a
\* request under way.
WindowOK ==
  /\ surface \in {None, Toplevel}
  /\ Toplevel \in have => surface = Toplevel \/ Comes("get_xdg_surface", Toplevel)
  /\ wire # << >> /\ wire[1].op = "get_xdg_surface" =>
       wire[1].of = Toplevel /\ surface = None
  /\ Toplevel \notin have => surface = None /\ ~ Comes("get_xdg_surface", Toplevel)

\* So are the pools,
PoolsOK ==
  /\ \A p \in Pool :
       p \in wl_shm_pool <=> \/ p \in have /\ ~ Comes("create_pool", p)
                             \/ Comes("destroy_pool", p)
  /\ wire # << >> =>
       /\ wire[1].op = "create_pool" =>
            wire[1].of \in Pool \cap have /\ \A b \in Buffer : wl_buffer[b] # wire[1].of
       /\ wire[1].op = "resize" => wire[1].of \in Pool \cap have
       /\ wire[1].op = "destroy_pool" => wire[1].of \in Pool \ have

\* and the buffers.
Creates(b) == request.op = "create_buffer" /\ request.of = b

BuffersOK ==
  /\ \A b \in Buffer :
       /\ b \in have => \/ wl_buffer[b] # None
                        \/ Comes("create_buffer", b) \/ Creates(b)
       /\ b \notin have => \/ wl_buffer[b] = None /\ ~ Creates(b)
                           \/ Comes("destroy_buffer", b)
       /\ Comes("create_buffer", b) => b \in have /\ wl_buffer[b] = None /\ ~ Creates(b)
       /\ Comes("destroy_buffer", b) =>
            b \notin have /\ (wl_buffer[b] # None \/ Creates(b))
       /\ Creates(b) => wl_buffer[b] = None
  /\ wire # << >> =>
       /\ wire[1].op = "create_buffer" =>
            wire[1].of \in Buffer /\ wire[1].arg \in wl_shm_pool
       /\ wire[1].op = "destroy_buffer" => wire[1].of \in Buffer
  /\ request.op = "create_buffer" =>
       request.of \in Buffer /\ request.arg \in wl_shm_pool

\* Two pools never share memory.
MemoryOK ==
  /\ MappedWhileUsed
  /\ \A p, q \in Pool : shm[p].refcount > 0 /\ shm[q].refcount > 0
                          /\ shm[p].buf = shm[q].buf => p = q
  /\ \A p \in Pool : shm[p].refcount > 0 => shm[p].buf \in Region

\* What is left to send belongs to the request being handled.
RequestOK ==
  /\ request.op \in {"done", "create_buffer", "attach", "damage", "commit"}
  /\ request.op = "done" => request = NoRequest /\ todo = << >>
  /\ request.op = "create_buffer" =>
       todo = << >> \/ todo = <<Cmd("create", request.of)>>

\* The device has buffers to create, and nothing else.
Creating ==
  /\ \A i \in 1..Len(Pending) : Pending[i].op = "create"
  /\ \A i \in 1..Len(queue) : queue[i].fence = None

\* Between two frames nothing but the creation of buffers is under way.
Quiet ==
  /\ buffer = None /\ write_fence = FALSE /\ events = << >>
  /\ request.op \in {"done", "create_buffer"}
  /\ Creating

Between ==
  /\ Quiet /\ callbacks = << >> /\ busy = {}
  /\ Len(wire) <= 1
  /\ wire # << >> => BetweenFrames(wire[1])

\* The message of a frame in buffer b with n damages that is followed by j
\* others.
Message_Frame(b, n, j) ==
  IF j = 0 THEN Msg("commit", Toplevel, None)
  ELSE IF j <= n THEN Msg("damage", Toplevel, None)
  ELSE IF j = n + 1 THEN Msg("attach", Toplevel, b)
  ELSE Msg("frame", drawn, None)

FrameSent(b, n) ==
  /\ b \in Buffer /\ Toplevel \in have /\ pixels[b] = drawn
  /\ Left <= n + 4
  /\ \A i \in 1..Left :
       Left - i <= n + 2 => wire[i] = Message_Frame(b, n, Left - i)
  /\ Left = n + 4 => BetweenFrames(wire[1])
  /\ Left = 0 /\ wire # << >> => Len(wire) = 1 /\ DuringFrame(wire[1])

\* The compositor has read all requests of the frame, and has heard of its
\* fence.
Told == Left = 0 /\ request.op \in {"done", "create_buffer"} /\ ~ write_fence

\* The flush has been sent, and its fence has not been seen.
Flushed == Left = 0 /\ (request.op = "commit" => todo = << >>) /\ ~ Told

FrameRequest(b, n) ==
  /\ request.op = "attach" => /\ Left = n + 1 /\ request.arg = b
                              /\ todo = << >> \/ todo = <<Cmd("scanout", b)>>
  /\ request.op = "damage" =>
       /\ Left \in 1..n
       /\ \/ todo = << >> \/ todo = <<Cmd("detach", b)>>
          \/ todo = <<Cmd("transfer", b), Cmd("detach", b)>>
          \/ todo = <<Attach(b, Memory(b)), Cmd("transfer", b), Cmd("detach", b)>>
  /\ request.op = "commit" => /\ Left = 0
                              /\ todo = << >> \/ todo = <<Cmd("flush", b)>>
  /\ request.op = "create_buffer" => Left = 0

\* The device has yet to do what this frame needs, in order, and to create
\* buffers: those that others are made in after the flush too.
FramePending(b) ==
  /\ \A i \in 1..Len(Pending) :
       \/ Pending[i].op = "create"
       \/ Pending[i].rsc = b /\ Pending[i].op # "attach"
       \/ Pending[i].rsc = b /\ Pending[i].op = "attach" /\ Pending[i].mem = Memory(b)
  /\ \A i \in 1..Len(Pending), j \in 1..Len(Pending) :
       i < j /\ Pending[j].op = "create" /\ Pending[j].rsc = b => Pending[i].op = "create"
  /\ \A i \in 1..Len(Pending) : Pending[i].op = "flush" =>
       Flushed /\ \A j \in 1..Len(Pending) : i < j => Pending[j].op = "create"

\* Each transfer has the memory of the buffer before it.
FrameBacked(b) ==
  /\ \A i \in 1..Len(Pending) : Pending[i].op = "transfer" =>
       IF i = 1 THEN backing[b] = Memory(b) ELSE Pending[i-1].op = "attach"
  /\ todo # << >> /\ Head(todo).op = "transfer" =>
       IF Pending = << >> THEN backing[b] = Memory(b)
       ELSE Pending[Len(Pending)].op = "attach"

\* A command with a fence is the flush that was sent, and only new buffers have
\* been created since.
FenceLast(i) ==
  /\ Flushed /\ queue[i].fence = fence_submitted /\ queue[i].op = "flush"
  /\ i <= done => screen = drawn
  /\ \A j \in 1..Len(queue) : i < j => queue[j].op = "create" /\ queue[j].fence = None

\* What the screen will show.
FrameShown(b, n) ==
  /\ Left <= n \/ (Left = n + 1 /\ todo = << >>) =>
       scanout = b \/ \E i \in 1..Len(Pending) : Pending[i].op = "scanout"
  /\ Left < n \/ (Left = n /\ Len(todo) <= 1) =>
       \/ \E i \in 1..Len(Pending) : Pending[i].op = "transfer"
       \/ host[b] = drawn /\ \A i \in 1..Len(Pending) : Pending[i].op = "create" => Pending[i].rsc # b
  /\ Flushed => \E i \in 1..Len(queue) : queue[i].fence = fence_submitted
  /\ Flushed /\ write_fence => fence_id = fence_submitted
  /\ \A i \in 1..Len(queue) : queue[i].fence # None => FenceLast(i)

\* The requests of the frame are being handled, from wl_surface_on_attach until
\* the compositor has heard of the fence.
Drawing(b, n) ==
  /\ buffer = (IF Left <= n \/ request.op = "done" THEN b ELSE None)
  /\ callbacks = <<drawn>> /\ busy = {b} /\ events = << >>
  /\ wl_buffer[b] # None
  /\ Left = 0 /\ wire # << >> /\ wire[1].op = "resize" => wire[1].of # wl_buffer[b]
  /\ write_fence <=> (Left = 0 /\ request.op # "commit")
  /\ request.op \in {"done", "attach", "damage", "commit", "create_buffer"}
  /\ FrameRequest(b, n) /\ FramePending(b) /\ FrameBacked(b) /\ FrameShown(b, n)

\* The frame is on the screen, and the client has yet to read so.
OnScreen(b) ==
  /\ buffer = None /\ callbacks = << >> /\ Creating /\ screen = drawn
  /\ \/ /\ events = <<Msg("release", b, None), Msg("done", drawn, None)>>
        /\ busy = {b}
     \/ events = <<Msg("done", drawn, None)>> /\ busy = {}

\* A frame in buffer b with n damages is under way.
Framing(b, n) ==
  /\ FrameSent(b, n)
  /\ b \in have \/ Told
  /\ Left > n + 2 => Quiet /\ callbacks = << >> /\ busy = {b}
  /\ Left = n + 2 => Quiet /\ callbacks = <<drawn>> /\ busy = {b} /\ request.op = "done"
  /\ Left <= n + 1 /\ ~ Told => Drawing(b, n)
  /\ Told => OnScreen(b)

FramesOK ==
  /\ ~ waiting => Between
  /\ waiting => \E b \in Buffer, n \in 1..2 : Framing(b, n)

CompInv ==
  /\ CompositorTypeOK /\ WindowOK /\ PoolsOK /\ BuffersOK /\ MemoryOK /\ RequestOK /\ FramesOK

-----------------------------------------------------------------------------
(* Sequences.                                                              *)

\* The first element and the rest of a nonempty sequence.
LEMMA TailFacts ==
  ASSUME NEW S, NEW s \in Seq(S), s # << >>
  PROVE  /\ Tail(s) \in Seq(S) /\ Len(s) \in Nat \ {0} /\ Len(Tail(s)) = Len(s) - 1
         /\ Head(s) = s[1] /\ s[1] \in S
         /\ \A i \in 1..Len(Tail(s)) : i + 1 \in 1..Len(s) /\ Tail(s)[i] = s[i+1]
         /\ Tail(s) = << >> <=> Len(s) = 1
<1>1. /\ Tail(s) \in Seq(S) /\ Len(Tail(s)) = Len(s) - 1
      /\ \A i \in 1..Len(Tail(s)) : Tail(s)[i] = s[i+1]
  BY HeadTailProperties
<1>2. Len(s) \in Nat \ {0}
  BY EmptySeq
<1>3. s[1] \in S /\ Head(s) = s[1]
  BY <1>2, ElementOfSeq
<1>4. Tail(s) = << >> <=> Len(s) = 1
  <2>1. PICK r \in Seq(S) : r = Tail(s)
    BY <1>1
  <2>2. r = << >> <=> Len(r) = 0
    BY EmptySeq
  <2> QED BY <1>1, <1>2, <2>1, <2>2
<1>5. \A i \in 1..Len(Tail(s)) : i + 1 \in 1..Len(s)
  <2>1. \A k \in Nat \ {0} : \A i \in 1..(k - 1) : i + 1 \in 1..k
    OBVIOUS
  <2> QED BY <1>1, <1>2, <2>1
<1> QED BY <1>1, <1>2, <1>3, <1>4, <1>5

\* The lists of commands the handlers send.
LEMMA ListFacts ==
  ASSUME NEW x, NEW y, NEW z
  PROVE  /\ <<x>> # << >> /\ <<x, y>> # << >> /\ <<x, y, z>> # << >>
         /\ Head(<<x>>) = x /\ Head(<<x, y>>) = x /\ Head(<<x, y, z>>) = x
         /\ Tail(<<x>>) = << >> /\ Tail(<<x, y>>) = <<y>> /\ Tail(<<x, y, z>>) = <<y, z>>
         /\ Len(<<x>>) = 1 /\ Len(<<x, y>>) = 2 /\ Len(<<x, y, z>>) = 3
OBVIOUS

\* The elements of a sequence after the first d.
LEMMA RestFacts ==
  ASSUME NEW S, NEW q \in Seq(S), NEW d \in 0..Len(q)
  PROVE  LET r == SubSeq(q, d + 1, Len(q)) IN
         /\ r \in Seq(S)
         /\ Len(r) = Len(q) - d /\ Len(q) \in Nat
         /\ \A i \in 1..Len(r) : d + i \in 1..Len(q) /\ r[i] = q[d + i]
         /\ r = << >> <=> d = Len(q)
         /\ \A i \in 1..Len(r) : r[i] \in S
         /\ \A i \in 1..Len(q) : q[i] \in S
<1> DEFINE r == SubSeq(q, d + 1, Len(q))
<1>1. Len(q) \in Nat
  BY LenProperties
<1>2. \A i \in 1..Len(q) : q[i] \in S
  BY ElementOfSeq
<1>3. \A i \in (d + 1)..Len(q) : q[i] \in S
  BY <1>1, <1>2
<1>4. /\ r \in Seq(S)
      /\ Len(r) = IF d + 1 <= Len(q) THEN Len(q) - (d + 1) + 1 ELSE 0
      /\ \A i \in 1..(Len(q) - (d + 1) + 1) : r[i] = q[(d + 1) + i - 1]
  BY <1>1, <1>3, SubSeqProperties
<1>5. Len(r) = Len(q) - d
  BY <1>1, <1>4
<1>6. ASSUME NEW i \in 1..Len(r)
      PROVE  d + i \in 1..Len(q) /\ r[i] = q[d + i]
  BY <1>1, <1>4, <1>5
<1>7. r = << >> <=> d = Len(q)
  <2>1. r = << >> <=> Len(r) = 0
    BY <1>4, EmptySeq
  <2> QED BY <1>1, <1>5, <2>1
<1>8. \A i \in 1..Len(r) : r[i] \in S
  BY <1>4, ElementOfSeq
<1> QED BY <1>1, <1>2, <1>4, <1>5, <1>6, <1>7, <1>8

\* What is left to execute of the queue, whatever has been.
LEMMA PendingFacts ==
  ASSUME CompositorTypeOK
  PROVE  /\ Pending \in Seq(Command)
         /\ Len(Pending) = Len(queue) - done /\ Len(queue) \in Nat /\ done \in 0..Len(queue)
         /\ \A i \in 1..Len(Pending) : done + i \in 1..Len(queue) /\ Pending[i] = queue[done + i]
         /\ Pending = << >> <=> done = Len(queue)
         /\ \A i \in 1..Len(Pending) : Pending[i] \in Command
         /\ \A i \in 1..Len(queue) : queue[i] \in Command
<1>1. queue \in Seq(Command) /\ done \in 0..Len(queue)
  BY DEF CompositorTypeOK
<1>2. Pending = SubSeq(queue, done + 1, Len(queue))
  BY DEF Pending
<1> QED BY <1>1, <1>2, RestFacts

\* The same of the next state.
LEMMA PendingNext ==
  ASSUME CompositorTypeOK'
  PROVE  /\ Len(Pending') = Len(queue') - done' /\ Len(queue') \in Nat
         /\ \A i \in 1..Len(Pending') : Pending'[i] = queue'[done' + i]
<1>1. PICK q, k : q = queue' /\ k = done'
  OBVIOUS
<1>2. q \in Seq(Command) /\ k \in 0..Len(q)
  BY <1>1 DEF CompositorTypeOK
<1>3. PICK r : r = SubSeq(q, k + 1, Len(q))
  OBVIOUS
<1>4. r = Pending'
  BY <1>1, <1>3 DEF Pending
<1>5. /\ Len(r) = Len(q) - k /\ Len(q) \in Nat
      /\ \A i \in 1..Len(r) : r[i] = q[k + i]
  BY <1>2, <1>3, RestFacts
<1> QED BY <1>1, <1>4, <1>5

\* Freeing the completed commands leaves what is to be executed.
LEMMA PendingPolled ==
  ASSUME CompositorTypeOK, CompositorTypeOK', done > 0,
         queue' = SubSeq(queue, done + 1, Len(queue)), done' = 0
  PROVE  queue' = Pending /\ Pending' = Pending
<1>1. queue' = Pending
  BY DEF Pending
<1>2. queue' \in Seq(Command)
  BY DEF CompositorTypeOK
<1>3. Pending' = SubSeq(queue', 1, Len(queue'))
  BY DEF Pending
<1>4. Pending' = queue'
  BY <1>2, <1>3, SubSeqFull
<1> QED BY <1>1, <1>4

\* A command sent is executed last.
LEMMA PendingSent ==
  ASSUME CompositorTypeOK, CompositorTypeOK', NEW c \in Command,
         queue' = Append(queue, c), done' = done
  PROVE  /\ Len(Pending') = Len(Pending) + 1 /\ Len(Pending) \in Nat
         /\ \A i \in 1..Len(Pending) : i \in 1..Len(Pending') /\ Pending'[i] = Pending[i]
         /\ Pending'[Len(Pending')] = c
         /\ Len(queue') = Len(queue) + 1 /\ Len(queue) \in Nat
         /\ \A i \in 1..Len(queue) : queue'[i] = queue[i]
         /\ queue'[Len(queue')] = c
<1>1. /\ Len(Pending) = Len(queue) - done /\ Len(queue) \in Nat /\ done \in 0..Len(queue)
      /\ \A i \in 1..Len(Pending) : done + i \in 1..Len(queue) /\ Pending[i] = queue[done + i]
  BY PendingFacts
<1>2. /\ Len(Pending') = Len(queue') - done' /\ Len(queue') \in Nat
      /\ \A i \in 1..Len(Pending') : Pending'[i] = queue'[done' + i]
  BY PendingNext
<1>3. /\ Len(queue') = Len(queue) + 1
      /\ \A i \in 1..Len(queue) : queue'[i] = queue[i]
      /\ queue'[Len(queue) + 1] = c
  BY AppendProperties DEF CompositorTypeOK
<1>4. Len(Pending') = Len(Pending) + 1
  BY <1>1, <1>2, <1>3
<1>5. ASSUME NEW i \in 1..Len(Pending)
      PROVE  i \in 1..Len(Pending') /\ Pending'[i] = Pending[i]
  BY <1>1, <1>2, <1>3, <1>4
<1>6. Pending'[Len(Pending')] = c
  <2>1. Len(Pending') \in 1..Len(Pending') /\ done' + Len(Pending') = Len(queue) + 1
    BY <1>1, <1>2, <1>3, <1>4
  <2> QED BY <1>2, <1>3, <2>1
<1>7. queue'[Len(queue')] = c
  BY <1>3
<1>8. Len(Pending) \in Nat /\ Len(queue) \in Nat
  BY <1>1
<1>9. \A i \in 1..Len(Pending) : i \in 1..Len(Pending') /\ Pending'[i] = Pending[i]
  BY <1>5
<1> QED BY <1>3, <1>4, <1>6, <1>7, <1>8, <1>9

\* The device executes the first of the commands that are left.
LEMMA PendingExecuted ==
  ASSUME CompositorTypeOK, CompositorTypeOK', done < Len(queue),
         queue' = queue, done' = done + 1
  PROVE  /\ Len(Pending') = Len(Pending) - 1 /\ Len(Pending) \in Nat \ {0}
         /\ \A i \in 1..Len(Pending') : i + 1 \in 1..Len(Pending) /\ Pending'[i] = Pending[i+1]
         /\ 1 \in 1..Len(Pending) /\ Pending[1] = queue[done + 1] /\ Pending[1] \in Command
         /\ Pending # << >>
<1>1. /\ Len(Pending) = Len(queue) - done /\ Len(queue) \in Nat /\ done \in 0..Len(queue)
      /\ \A i \in 1..Len(Pending) : done + i \in 1..Len(queue) /\ Pending[i] = queue[done + i]
      /\ Pending = << >> <=> done = Len(queue)
      /\ \A i \in 1..Len(Pending) : Pending[i] \in Command
  BY PendingFacts
<1>2. /\ Len(Pending') = Len(queue') - done'
      /\ \A i \in 1..Len(Pending') : Pending'[i] = queue'[done' + i]
  BY PendingNext
<1>3. ASSUME NEW i \in 1..Len(Pending')
      PROVE  i + 1 \in 1..Len(Pending) /\ Pending'[i] = Pending[i+1]
  <2>1. i + 1 \in 1..Len(Pending) /\ done' + i = done + (i + 1)
    BY <1>1, <1>2
  <2> QED BY <1>1, <1>2, <2>1
<1>4. 1 \in 1..Len(Pending)
  BY <1>1
<1> QED BY <1>1, <1>2, <1>3, <1>4

-----------------------------------------------------------------------------
(* The wire.                                                               *)

\* The requests a frame is made of.
FrameOps == {"frame", "attach", "damage", "commit"}

\* No request about the window, a pool or a buffer comes first.
NothingComes == wire # << >> => wire[1].op \in FrameOps

\* The message of a frame.
LEMMA FrameMessageFacts ==
  ASSUME NEW b, NEW n \in 1..2, NEW j \in Nat
  PROVE  /\ Message_Frame(b, n, j).op \in FrameOps
         /\ j = 0 => Message_Frame(b, n, j) = Msg("commit", Toplevel, None)
         /\ j \in 1..n => Message_Frame(b, n, j) = Msg("damage", Toplevel, None)
         /\ j = n + 1 => Message_Frame(b, n, j) = Msg("attach", Toplevel, b)
         /\ j > n + 1 => Message_Frame(b, n, j) = Msg("frame", drawn, None)
BY DEF Message_Frame, Msg, FrameOps

\* The first message, and the number of those behind it.
LEMMA WireFacts ==
  ASSUME CompositorTypeOK, wire # << >>, wire' = Tail(wire)
  PROVE  /\ Len(wire) \in Nat \ {0} /\ Len(wire') = Len(wire) - 1
         /\ Head(wire) = wire[1] /\ wire[1] \in Message /\ wire' \in Seq(Message)
         /\ \A i \in 1..Len(wire') : i + 1 \in 1..Len(wire) /\ wire'[i] = wire[i+1]
         /\ wire' = << >> <=> Len(wire) = 1
BY TailFacts DEF CompositorTypeOK

\* The length of the wire.
LEMMA WireLen ==
  ASSUME CompositorTypeOK
  PROVE  Len(wire) \in Nat /\ (wire = << >> <=> Len(wire) = 0)
BY EmptySeq, LenProperties DEF CompositorTypeOK

\* The messages of a frame that are left are all there is on the wire.
LEMMA LeftFacts ==
  ASSUME CompositorTypeOK
  PROVE  /\ Left \in Nat /\ Len(wire) \in Nat /\ (wire = << >> <=> Len(wire) = 0)
         /\ Left # 0 => Left = Len(wire)
         /\ wire = << >> => Left = 0
BY WireLen DEF Left

\* Reading a message leaves one fewer.
LEMMA LeftTail ==
  ASSUME CompositorTypeOK, wire # << >>, wire' = Tail(wire)
  PROVE  /\ Left # 0 => Left' = Left - 1
         /\ Len(wire) = 1 => Left' = 0 /\ wire' = << >>
         /\ Left' \in Nat
<1>1. /\ Len(wire) \in Nat \ {0} /\ Len(wire') = Len(wire) - 1
      /\ \A i \in 1..Len(wire') : i + 1 \in 1..Len(wire) /\ wire'[i] = wire[i+1]
      /\ wire' = << >> <=> Len(wire) = 1
  BY WireFacts
<1>2. CASE Len(wire) = 1
  BY <1>1, <1>2 DEF Left
<1>3. CASE Len(wire) # 1
  <2>1. Len(wire') \in 1..Len(wire') /\ Len(wire') + 1 = Len(wire) /\ wire' # << >>
    BY <1>1, <1>3
  <2>2. wire'[Len(wire')] = wire[Len(wire)]
    BY <1>1, <2>1
  <2> QED BY <1>1, <1>3, <2>1, <2>2 DEF Left
<1> QED BY <1>2, <1>3

\* A request about memory or for another surface comes before a frame, while one
\* is shown, or without one.
LEMMA HeadBetween ==
  ASSUME CompInv, wire # << >>, wire[1].op \notin FrameOps \/ wire[1].of # Toplevel, wire[1].op # "frame"
  PROVE  /\ ~ waiting => Between /\ Len(wire) = 1 /\ BetweenFrames(wire[1])
         /\ \A b \in Buffer, n \in 1..2 : waiting /\ Framing(b, n) =>
              \/ Left = n + 4 /\ Quiet /\ callbacks = << >> /\ BetweenFrames(wire[1])
              \/ Left = 0 /\ Len(wire) = 1 /\ DuringFrame(wire[1])
<1>1. Len(wire) \in Nat \ {0} /\ 1 \in 1..Len(wire) /\ Left \in Nat /\ (Left # 0 => Left = Len(wire))
  BY LeftFacts DEF CompInv
<1>2. CASE ~ waiting
  <2>1. Between
    BY <1>2 DEF CompInv, FramesOK
  <2>2. BetweenFrames(wire[1])
    BY <2>1 DEF Between
  <2>3. Len(wire) <= 1 /\ Len(wire) \in Nat \ {0}
    BY <1>1, <2>1 DEF Between
  <2>4. Len(wire) = 1
    <3>1. \A x \in Nat \ {0} : x <= 1 => x = 1
      OBVIOUS
    <3> QED BY <2>3, <3>1
  <2> QED BY <1>2, <2>1, <2>2, <2>4
<1>3. ASSUME waiting, NEW b \in Buffer, NEW n \in 1..2, Framing(b, n)
      PROVE  \/ Left = n + 4 /\ Quiet /\ callbacks = << >> /\ BetweenFrames(wire[1])
             \/ Left = 0 /\ Len(wire) = 1 /\ DuringFrame(wire[1])
  <2>1. CASE Left = 0
    BY <1>3, <2>1 DEF Framing, FrameSent
  <2>2. CASE Left # 0
    <3>1. ASSUME Left - 1 <= n + 2 PROVE FALSE
      <4>1. wire[1] = Message_Frame(b, n, Left - 1)
        BY <1>1, <1>3, <2>2, <3>1 DEF Framing, FrameSent
      <4>2. Left - 1 \in Nat
        BY <1>1, <2>2
      <4> QED BY <4>1, <4>2 DEF Message_Frame, Msg, FrameOps
    <3>2. Left <= n + 4
      BY <1>3 DEF Framing, FrameSent
    <3>3. Left = n + 4 /\ Left > n + 2
      BY <1>1, <2>2, <3>1, <3>2
    <3> QED BY <1>3, <3>3 DEF Framing, FrameSent
  <2> QED BY <2>1, <2>2
<1> QED BY <1>2, <1>3

\* Behind any first message there are only those of a frame.
LEMMA AfterDispatch ==
  ASSUME CompInv, wire # << >>, wire' = Tail(wire)
  PROVE  NothingComes'
<1>1. /\ Len(wire) \in Nat \ {0} /\ Len(wire') = Len(wire) - 1
      /\ \A i \in 1..Len(wire') : i + 1 \in 1..Len(wire) /\ wire'[i] = wire[i+1]
      /\ wire' = << >> <=> Len(wire) = 1
  BY WireFacts DEF CompInv
<1>2. CASE ~ waiting
  <2>1. Len(wire) <= 1
    BY <1>2 DEF CompInv, FramesOK, Between
  <2> QED BY <1>1, <2>1 DEF NothingComes
<1>3. CASE waiting
  <2>1. PICK b \in Buffer, n \in 1..2 : Framing(b, n)
    BY <1>3 DEF CompInv, FramesOK
  <2>2. ASSUME Len(wire) > 1 PROVE wire'[1].op \in FrameOps
    <3>1. 1 \in 1..Len(wire') /\ 1 + 1 = 2
      BY <1>1, <2>2
    <3>2. wire'[1] = wire[2] /\ 2 \in 1..Len(wire)
      BY <1>1, <3>1
    <3>3. Left = Len(wire)
      <4>1. Left # 0
        BY <1>1, <2>1, <2>2 DEF Framing, FrameSent
      <4> QED BY <4>1, LeftFacts DEF CompInv
    <3>4. Left <= n + 4
      BY <2>1 DEF Framing, FrameSent
    <3>5. Left - 2 <= n + 2 /\ Left - 2 \in Nat
      BY <1>1, <2>2, <3>3, <3>4
    <3>6. wire[2] = Message_Frame(b, n, Left - 2)
      BY <2>1, <3>2, <3>3, <3>5 DEF Framing, FrameSent
    <3> QED BY <3>2, <3>5, <3>6, FrameMessageFacts
  <2> QED BY <1>1, <2>2 DEF NothingComes
<1> QED BY <1>2, <1>3

\* Reading a message leaves the others where they are, counted from the end.
LEMMA FrameSentTail ==
  ASSUME CompositorTypeOK, NEW b \in Buffer, NEW n \in 1..2, FrameSent(b, n), Left # 0,
         wire # << >>, wire' = Tail(wire), UNCHANGED <<have, pixels, drawn>>
  PROVE  FrameSent(b, n)' /\ Left' = Left - 1 /\ Left' \in Nat /\ Left' <= n + 3
<1>1. /\ Len(wire) \in Nat \ {0} /\ Len(wire') = Len(wire) - 1
      /\ \A i \in 1..Len(wire') : i + 1 \in 1..Len(wire) /\ wire'[i] = wire[i+1]
      /\ wire' = << >> <=> Len(wire) = 1
  BY WireFacts
<1>2. Left <= n + 4 /\ Left = Len(wire) /\ Left' = Left - 1
  BY LeftFacts, LeftTail DEF FrameSent
<1>3. ASSUME NEW i \in 1..Left', Left' - i <= n + 2
      PROVE  wire'[i] = Message_Frame(b, n, Left - (i + 1))
  <2>1. i + 1 \in 1..Left /\ Left - (i + 1) <= n + 2 /\ i \in 1..Len(wire')
    BY <1>1, <1>2, <1>3
  <2> QED BY <1>1, <2>1 DEF FrameSent
<1>4. \A i \in 1..Left' : Left - (i + 1) = Left' - i
  BY <1>1, <1>2
<1>5. ASSUME NEW i \in 1..Left', Left' - i <= n + 2
      PROVE  wire'[i] = Message_Frame(b, n, Left - i)'
  BY <1>3, <1>4, <1>5 DEF Message_Frame, Msg
<1>6. Left' <= n + 3 /\ Left' <= n + 4 /\ Left' # n + 4 /\ Left' \in Nat
  <2>1. Left \in Int /\ Left' = Left - 1 /\ Left >= 1
    BY <1>1, <1>2
  <2>2. \A x \in Int : x <= n + 4 /\ x >= 1 => x - 1 <= n + 3 /\ x - 1 <= n + 4 /\ x - 1 # n + 4 /\ x - 1 \in Nat
    OBVIOUS
  <2> QED BY <1>2, <2>1, <2>2
<1>7. Left' = 0 => wire' = << >>
  BY <1>1, <1>2
<1>8. b \in Buffer /\ Toplevel \in have' /\ pixels'[b] = drawn'
  BY DEF FrameSent
<1> QED BY <1>2, <1>5, <1>6, <1>7, <1>8 DEF FrameSent

\* A step that does not touch the wire leaves the frame on it.
LEMMA FrameSentSame ==
  ASSUME NEW b \in Buffer, NEW n \in 1..2, FrameSent(b, n),
         UNCHANGED <<wire, have, pixels, drawn>>
  PROVE  FrameSent(b, n)' /\ Left' = Left
BY DEF FrameSent, Message_Frame, Msg, BetweenFrames, DuringFrame, Left

\* Nothing but the request being handled changes.
LEMMA QuietSame ==
  ASSUME Quiet, UNCHANGED <<buffer, write_fence, events, queue, done>>,
         request'.op \in {"done", "create_buffer"}
  PROVE  Quiet'
<1>1. Pending' = Pending
  BY DEF Pending
<1> QED BY <1>1 DEF Quiet, Creating

\* The requests of the frame have all been read: others come and are handled, and
\* leave the frame and its buffer alone.
LEMMA LateStep ==
  ASSUME CompositorTypeOK, NEW b \in Buffer, NEW n \in 1..2, Framing(b, n), Left = 0, Left' = 0,
         wire' # << >> => Len(wire') = 1 /\ DuringFrame(wire'[1]),
         Toplevel \in have',
         ~ Told => /\ b \in have' /\ wl_buffer'[b] = wl_buffer[b] /\ Memory(b)' = Memory(b)
                   /\ wire' # << >> /\ wire'[1].op = "resize" => wire'[1].of # wl_buffer[b],
         UNCHANGED <<buffer, callbacks, write_fence, fence_id, events, gpuVars, hostVars,
                     drawn, pixels, waiting, busy>>,
         \/ UNCHANGED <<request, todo>>
         \/ /\ request.op \in {"done", "create_buffer"} /\ request'.op \in {"done", "create_buffer"}
            /\ todo' # << >> => Head(todo').op # "transfer"
  PROVE  Framing(b, n)'
<1> USE DEF gpuVars, hostVars
<1>1. Pending' = Pending /\ (Told' <=> Told) /\ (Flushed' <=> Flushed) /\ (Creating' <=> Creating)
  BY DEF Pending, Told, Flushed, Creating
<1>2. FrameSent(b, n)'
  <2>1. \A i \in 1..Left' : FALSE
    OBVIOUS
  <2>2. Left' <= n + 4 /\ Left' # n + 4
    OBVIOUS
  <2> QED BY <2>1, <2>2 DEF Framing, FrameSent
<1>3. /\ ~ (Left' > n + 2) /\ Left' # n + 2 /\ Left' # n + 1 /\ Left' # n /\ Left' < n
      /\ Left < n /\ Left <= n
  OBVIOUS
<1>4. ASSUME ~ Told PROVE Drawing(b, n)'
  <2>1. Drawing(b, n)
    BY <1>3, <1>4 DEF Framing
  <2>2. FrameRequest(b, n)'
    <3>1. FrameRequest(b, n) /\ Left \notin 1..n
      BY <2>1 DEF Drawing
    <3> QED BY <1>3, <3>1 DEF FrameRequest
  <2>3. FramePending(b)'
    BY <1>1, <1>4, <2>1 DEF Drawing, FramePending
  <2>4. FrameBacked(b)'
    BY <1>1, <1>4, <2>1 DEF Drawing, FrameBacked
  <2>5. FrameShown(b, n)'
    <3>1. FrameShown(b, n)
      BY <2>1 DEF Drawing
    <3>2. \A i \in 1..Len(queue) : FenceLast(i) => FenceLast(i)'
      BY <1>1 DEF FenceLast
    <3> QED BY <1>1, <1>3, <3>1, <3>2 DEF FrameShown
  <2>6. buffer = b
    BY <1>3, <2>1 DEF Drawing
  <2> QED BY <1>3, <1>4, <2>1, <2>2, <2>3, <2>4, <2>5, <2>6 DEF Drawing
<1>5. ASSUME Told PROVE OnScreen(b)'
  BY <1>1, <1>5 DEF Framing, OnScreen
<1> QED BY <1>1, <1>2, <1>3, <1>4, <1>5 DEF Framing

\* A request about memory, or one that is ignored, is handled between the
\* frames, or while one is shown.
LEMMA BetweenHandled ==
  ASSUME CompInv, NEW op, Dispatch(op), op # "frame",
         wire[1].op \notin FrameOps \/ wire[1].of # Toplevel,
         UNCHANGED <<buffer, callbacks, write_fence, fence_id, events, gpuVars>>,
         request'.op \in {"done", "create_buffer"},
         todo' # << >> => Head(todo').op # "transfer",
         \A b \in Buffer \cap have :
           wl_buffer[b] # None /\ ~ (op = "resize" /\ wire[1].of = wl_buffer[b]) =>
             wl_buffer'[b] = wl_buffer[b] /\ Memory(b)' = Memory(b)
  PROVE  FramesOK'
<1> USE DEF Dispatch, clientVars, gpuVars
<1>1. /\ wire # << >> /\ wire' = Tail(wire) /\ wire[1].op = op
      /\ Len(wire) \in Nat \ {0} /\ Len(wire') = Len(wire) - 1
      /\ wire' = << >> <=> Len(wire) = 1
  BY WireFacts DEF CompInv
<1>2. /\ ~ waiting => Between /\ Len(wire) = 1
      /\ \A b \in Buffer, n \in 1..2 : waiting /\ Framing(b, n) =>
           \/ Left = n + 4 /\ Quiet /\ callbacks = << >>
           \/ Left = 0 /\ Len(wire) = 1
  BY <1>1, HeadBetween
<1>3. CASE ~ waiting
  <2>1. busy' = {} /\ wire' = << >>
    BY <1>1, <1>2, <1>3 DEF Between
  <2>2. Quiet' /\ callbacks' = << >>
    BY <1>2, <1>3, QuietSame DEF Between
  <2>3. Between'
    BY <1>1, <1>3, <2>1, <2>2 DEF Between
  <2> QED BY <1>3, <2>3 DEF FramesOK
<1>4. CASE waiting
  <2>1. PICK b \in Buffer, n \in 1..2 : Framing(b, n)
    BY <1>4 DEF CompInv, FramesOK
  <2>2. CASE Left = n + 4 /\ Quiet /\ callbacks = << >>
    <3>1. FrameSent(b, n)' /\ Left' = n + 3
      <4>1. FrameSent(b, n)' /\ Left' = Left - 1
        BY <1>1, <2>1, <2>2, FrameSentTail DEF CompInv, Framing
      <4> QED BY <2>2, <4>1
    <3>2. Left > n + 2 /\ Left # 0
      BY <2>2
    <3>3. busy' = {b} /\ b \in have'
      BY <2>1, <3>2 DEF Framing, Told
    <3>4. ~ Told' /\ Left' > n + 2 /\ Left' # n + 2 /\ ~ (Left' <= n + 1)
      BY <3>1 DEF Told
    <3>5. Quiet' /\ callbacks' = << >>
      BY <2>2, QuietSame
    <3>6. Framing(b, n)'
      BY <3>1, <3>3, <3>4, <3>5 DEF Framing
    <3> QED BY <1>4, <3>6 DEF FramesOK
  <2>3. CASE Left = 0 /\ Len(wire) = 1
    <3>1. Left' = 0 /\ wire' = << >>
      BY <1>1, <2>3, LeftTail DEF CompInv
    <3>2. request.op \in {"done", "create_buffer"} /\ Toplevel \in have'
      BY <2>1 DEF NoRequest, Msg, Framing, FrameSent
    <3>3. ASSUME ~ Told
          PROVE  b \in have' /\ wl_buffer'[b] = wl_buffer[b] /\ Memory(b)' = Memory(b)
      <4>1. Drawing(b, n) /\ b \in have
        BY <2>1, <2>3, <3>3 DEF Framing
      <4>2. wl_buffer[b] # None /\ ~ (op = "resize" /\ wire[1].of = wl_buffer[b])
        BY <1>1, <2>3, <4>1 DEF Drawing
      <4> QED BY <4>1, <4>2
    <3>4. Framing(b, n)'
      BY <2>1, <2>3, <3>1, <3>2, <3>3, LateStep DEF CompInv
    <3> QED BY <1>4, <3>4 DEF FramesOK
  <2> QED BY <1>2, <1>4, <2>1, <2>2, <2>3
<1> QED BY <1>3, <1>4

\* A step after which the same request about the window, a pool or a buffer
\* comes first, or again none.
SameComes ==
  \/ wire # << >> /\ wire' # << >> /\ wire'[1] = wire[1]
  \/ NothingComes /\ NothingComes'

\* Such a step disturbs none of what the compositor knows of the client.
LEMMA KnownSame ==
  ASSUME CompInv, SameComes, UNCHANGED <<surface, have, wl_shm_pool, wl_buffer>>,
         \/ UNCHANGED request
         \/ request.op # "create_buffer" /\ request'.op # "create_buffer"
  PROVE  WindowOK' /\ PoolsOK' /\ BuffersOK'
<1>1. \A op, x : op \notin FrameOps => (Comes(op, x)' <=> Comes(op, x))
  BY DEF SameComes, NothingComes, Comes
<1>2. ASSUME wire' # << >>, wire'[1].op \notin FrameOps
      PROVE  wire # << >> /\ wire'[1] = wire[1]
  BY <1>2 DEF SameComes, NothingComes
<1>3. /\ "get_xdg_surface" \notin FrameOps /\ "create_pool" \notin FrameOps
      /\ "resize" \notin FrameOps /\ "destroy_pool" \notin FrameOps
      /\ "create_buffer" \notin FrameOps /\ "destroy_buffer" \notin FrameOps
  BY DEF FrameOps
<1>4. WindowOK'
  <2>1. WindowOK /\ (Comes("get_xdg_surface", Toplevel)' <=> Comes("get_xdg_surface", Toplevel))
    BY <1>1, <1>3 DEF CompInv
  <2>2. wire' # << >> /\ wire'[1].op = "get_xdg_surface" => wire # << >> /\ wire'[1] = wire[1]
    BY <1>2, <1>3
  <2> QED BY <2>1, <2>2 DEF WindowOK
<1>5. PoolsOK'
  <2>1. PoolsOK
    BY DEF CompInv
  <2>2. \A p \in Pool : /\ Comes("create_pool", p)' <=> Comes("create_pool", p)
                        /\ Comes("destroy_pool", p)' <=> Comes("destroy_pool", p)
    BY <1>1, <1>3
  <2>3. wire' # << >> /\ wire'[1].op \in {"create_pool", "resize", "destroy_pool"}
          => wire # << >> /\ wire'[1] = wire[1]
    BY <1>2, <1>3
  <2> QED BY <2>1, <2>2, <2>3 DEF PoolsOK
<1>6. BuffersOK'
  <2>1. BuffersOK
    BY DEF CompInv
  <2>2. \A b \in Buffer : /\ Comes("create_buffer", b)' <=> Comes("create_buffer", b)
                          /\ Comes("destroy_buffer", b)' <=> Comes("destroy_buffer", b)
                          /\ Creates(b)' <=> Creates(b)
    BY <1>1, <1>3 DEF Creates
  <2>3. wire' # << >> /\ wire'[1].op \in {"create_buffer", "destroy_buffer"}
          => wire # << >> /\ wire'[1] = wire[1]
    BY <1>2, <1>3
  <2> QED BY <2>1, <2>2, <2>3 DEF BuffersOK
<1> QED BY <1>4, <1>5, <1>6

\* The memory of the pools is left alone.
LEMMA MemorySame ==
  ASSUME MemoryOK, UNCHANGED <<shm, mapped, wl_buffer, wl_shm_pool>>
  PROVE  MemoryOK'
BY DEF MemoryOK, MappedWhileUsed

\* How many buffers and pools hold the memory of a pool.
LEMMA RefcountFacts ==
  ASSUME CompositorTypeOK, MemoryOK, NEW p \in Pool
  PROVE  /\ shm[p].refcount \in Nat
         /\ IsFiniteSet({b \in Buffer : wl_buffer[b] = p})
         /\ Cardinality({b \in Buffer : wl_buffer[b] = p}) \in Nat
         /\ shm[p].refcount = Cardinality({b \in Buffer : wl_buffer[b] = p})
                                + (IF p \in wl_shm_pool THEN 1 ELSE 0)
         /\ p \in wl_shm_pool => shm[p].refcount >= 1
         /\ \A b \in Buffer : wl_buffer[b] = p => shm[p].refcount >= 1
         /\ shm[p].refcount >= 1 => shm[p].buf \in mapped /\ shm[p].buf \in Region
<1> DEFINE B == {b \in Buffer : wl_buffer[b] = p}
<1>1. IsFiniteSet(B) /\ Cardinality(B) \in Nat
  <2>1. IsFiniteSet(Buffer) /\ B \subseteq Buffer
    BY CompositorAssumption
  <2>2. IsFiniteSet(B)
    BY <2>1, FS_Subset
  <2> QED BY <2>2, FS_CardinalityType
<1>2. shm[p].refcount = Cardinality(B) + (IF p \in wl_shm_pool THEN 1 ELSE 0)
  BY DEF MemoryOK, MappedWhileUsed
<1>3. ASSUME NEW b \in Buffer, wl_buffer[b] = p
      PROVE  Cardinality(B) >= 1
  <2>1. B # {}
    BY <1>3
  <2>2. Cardinality(B) # 0
    BY <1>1, <2>1, FS_EmptySet
  <2> QED BY <1>1, <2>2
<1> HIDE DEF B
<1>4. shm[p].refcount \in Nat
  BY <1>1, <1>2
<1>5. p \in wl_shm_pool => shm[p].refcount >= 1
  BY <1>1, <1>2
<1>6. \A b \in Buffer : wl_buffer[b] = p => shm[p].refcount >= 1
  BY <1>1, <1>2, <1>3
<1>7. shm[p].refcount >= 1 => shm[p].buf \in mapped /\ shm[p].buf \in Region
  <2>1. shm[p].refcount >= 1 => shm[p].refcount > 0
    BY <1>4
  <2>2. mapped = {shm[q].buf : q \in {r \in Pool : shm[r].refcount > 0}}
    BY DEF MemoryOK, MappedWhileUsed
  <2> QED BY <2>1, <2>2 DEF MemoryOK
<1> QED BY <1>1, <1>2, <1>4, <1>5, <1>6, <1>7 DEF B

\* The memory of a buffer is mapped.
LEMMA MemoryMapped ==
  ASSUME CompInv, NEW b \in Buffer, wl_buffer[b] # None
  PROVE  Memory(b) \in mapped /\ Memory(b) \in Region /\ Memory(b) # None
<1>1. CompositorTypeOK /\ MemoryOK
  BY DEF CompInv
<1>2. wl_buffer[b] \in Pool
  BY <1>1 DEF CompositorTypeOK
<1>3. shm[wl_buffer[b]].buf \in mapped /\ shm[wl_buffer[b]].buf \in Region
  BY <1>1, <1>2, RefcountFacts
<1>4. None \notin Region
  BY CompositorAssumption
<1> QED BY <1>3, <1>4 DEF Memory

\* Pools counted and mapped as before, but for one.
LEMMA MemoryStep ==
  ASSUME CompositorTypeOK, MemoryOK, NEW p \in Pool, NEW s,
         shm' = [shm EXCEPT ![p] = s],
         \A q \in Pool \ {p} :
           /\ {b \in Buffer : wl_buffer'[b] = q} = {b \in Buffer : wl_buffer[b] = q}
           /\ q \in wl_shm_pool' <=> q \in wl_shm_pool,
         s.refcount = Cardinality({b \in Buffer : wl_buffer'[b] = p})
                        + (IF p \in wl_shm_pool' THEN 1 ELSE 0),
         \A x : x \in mapped' <=>
           \/ x \in mapped /\ ~ (shm[p].refcount > 0 /\ x = shm[p].buf)
           \/ s.refcount > 0 /\ x = s.buf,
         s.refcount > 0 =>
           s.buf \in Region /\ \A q \in Pool \ {p} : shm[q].refcount > 0 => shm[q].buf # s.buf
  PROVE  MemoryOK' /\ mapped' \subseteq Region
<1>1. /\ \A q \in Pool \ {p} : shm'[q] = shm[q]
      /\ shm'[p] = s
  BY DEF CompositorTypeOK
<1>2. mapped = {shm[q].buf : q \in {r \in Pool : shm[r].refcount > 0}}
  BY DEF MemoryOK, MappedWhileUsed
<1>3. \A q, r \in Pool : shm[q].refcount > 0 /\ shm[r].refcount > 0
                          /\ shm[q].buf = shm[r].buf => q = r
  BY DEF MemoryOK
<1>4. mapped' = {shm'[q].buf : q \in {r \in Pool : shm'[r].refcount > 0}}
  <2>1. ASSUME NEW x \in mapped'
        PROVE  \E q \in Pool : shm'[q].refcount > 0 /\ shm'[q].buf = x
    <3>1. CASE s.refcount > 0 /\ x = s.buf
      BY <1>1, <3>1
    <3>2. CASE x \in mapped /\ ~ (shm[p].refcount > 0 /\ x = shm[p].buf)
      <4>1. PICK q \in Pool : shm[q].refcount > 0 /\ shm[q].buf = x
        BY <1>2, <3>2
      <4>2. q # p
        BY <3>2, <4>1
      <4> QED BY <1>1, <4>1, <4>2
    <3> QED BY <3>1, <3>2
  <2>2. ASSUME NEW q \in Pool, shm'[q].refcount > 0
        PROVE  shm'[q].buf \in mapped'
    <3>1. CASE q = p
      BY <1>1, <2>2, <3>1
    <3>2. CASE q # p
      <4>1. shm[q].refcount > 0 /\ shm'[q].buf = shm[q].buf
        BY <1>1, <2>2, <3>2
      <4>2. shm[q].buf \in mapped
        BY <1>2, <4>1
      <4>3. ~ (shm[p].refcount > 0 /\ shm[q].buf = shm[p].buf)
        BY <1>3, <3>2, <4>1
      <4> QED BY <4>1, <4>2, <4>3
    <3> QED BY <3>1, <3>2
  <2> QED BY <2>1, <2>2
<1>5. ASSUME NEW q \in Pool
      PROVE  shm'[q].refcount = Cardinality({b \in Buffer : wl_buffer'[b] = q})
                                  + (IF q \in wl_shm_pool' THEN 1 ELSE 0)
  <2>1. CASE q = p
    BY <1>1, <2>1
  <2>2. CASE q # p
    <3>1. shm[q].refcount = Cardinality({b \in Buffer : wl_buffer[b] = q})
                              + (IF q \in wl_shm_pool THEN 1 ELSE 0)
      BY DEF MemoryOK, MappedWhileUsed
    <3>2. /\ {b \in Buffer : wl_buffer'[b] = q} = {b \in Buffer : wl_buffer[b] = q}
          /\ q \in wl_shm_pool' <=> q \in wl_shm_pool
      BY <2>2
    <3> QED BY <1>1, <2>2, <3>1, <3>2
  <2> QED BY <2>1, <2>2
<1>6. \A q, r \in Pool : shm'[q].refcount > 0 /\ shm'[r].refcount > 0
                          /\ shm'[q].buf = shm'[r].buf => q = r
  BY <1>1, <1>3
<1>7. \A q \in Pool : shm'[q].refcount > 0 => shm'[q].buf \in Region
  BY <1>1 DEF MemoryOK
<1>8. mapped' \subseteq Region
  BY DEF CompositorTypeOK
<1>9. MappedWhileUsed'
  BY <1>4, <1>5 DEF MappedWhileUsed
<1> QED BY <1>6, <1>7, <1>8, <1>9 DEF MemoryOK

\* Dropping a hold on the memory of a pool: refcount -= 1, and the memory goes
\* with the last one.
LEMMA UnrefStep ==
  ASSUME CompositorTypeOK, MemoryOK, NEW p \in Pool, shm[p].refcount >= 1, Unref(p),
         \A q \in Pool \ {p} :
           /\ {b \in Buffer : wl_buffer'[b] = q} = {b \in Buffer : wl_buffer[b] = q}
           /\ q \in wl_shm_pool' <=> q \in wl_shm_pool,
         shm[p].refcount - 1 = Cardinality({b \in Buffer : wl_buffer'[b] = p})
                                 + (IF p \in wl_shm_pool' THEN 1 ELSE 0)
  PROVE  /\ MemoryOK' /\ mapped' \subseteq Region
         /\ shm' \in [Pool -> [refcount : Nat, buf : Region \cup {None}]]
<1>1. shm[p].refcount \in Nat \ {0} /\ shm[p].buf \in mapped /\ shm[p].buf \in Region
  <2>1. shm[p].refcount \in Nat /\ shm[p].buf \in mapped /\ shm[p].buf \in Region
    BY RefcountFacts
  <2> QED BY <2>1
<1>2. shm \in [Pool -> [refcount : Nat, buf : Region \cup {None}]]
  BY DEF CompositorTypeOK
<1>3. CASE shm[p].refcount = 1
  <2>1. shm' = [shm EXCEPT ![p] = NoShm] /\ mapped' = mapped \ {shm[p].buf}
    BY <1>3 DEF Unref
  <2>2. NoShm.refcount = 0 /\ NoShm \in [refcount : Nat, buf : Region \cup {None}]
    BY DEF NoShm
  <2>3. 0 = Cardinality({b \in Buffer : wl_buffer'[b] = p})
              + (IF p \in wl_shm_pool' THEN 1 ELSE 0)
    BY <1>3
  <2>4. \A x : x \in mapped' <=>
           \/ x \in mapped /\ ~ (shm[p].refcount > 0 /\ x = shm[p].buf)
           \/ NoShm.refcount > 0 /\ x = NoShm.buf
    BY <1>3, <2>1, <2>2
  <2>5. MemoryOK' /\ mapped' \subseteq Region
    <3>1. PICK s : s = NoShm
      OBVIOUS
    <3>2. s.refcount = 0 /\ shm' = [shm EXCEPT ![p] = s]
      BY <2>1, <2>2, <3>1
    <3>3. \A x : x \in mapped' <=>
             \/ x \in mapped /\ ~ (shm[p].refcount > 0 /\ x = shm[p].buf)
             \/ s.refcount > 0 /\ x = s.buf
      BY <2>4, <3>1
    <3>4. s.refcount = Cardinality({b \in Buffer : wl_buffer'[b] = p})
                         + (IF p \in wl_shm_pool' THEN 1 ELSE 0)
      BY <2>3, <3>2
    <3>5. ~ (s.refcount > 0)
      BY <3>2
    <3> QED BY <3>2, <3>3, <3>4, <3>5, MemoryStep
  <2> QED BY <1>2, <2>1, <2>2, <2>5
<1>4. CASE shm[p].refcount # 1
  <2> DEFINE s == [shm[p] EXCEPT !.refcount = @ - 1]
  <2>1. shm' = [shm EXCEPT ![p] = s] /\ mapped' = mapped
    BY <1>2, <1>4 DEF Unref
  <2>2. /\ s.refcount = shm[p].refcount - 1 /\ s.buf = shm[p].buf /\ s.refcount > 0
        /\ s \in [refcount : Nat, buf : Region \cup {None}]
    BY <1>1, <1>2, <1>4
  <2> HIDE DEF s
  <2>3. \A x : x \in mapped' <=>
           \/ x \in mapped /\ ~ (shm[p].refcount > 0 /\ x = shm[p].buf)
           \/ s.refcount > 0 /\ x = s.buf
    BY <1>1, <2>1, <2>2
  <2>4. \A q \in Pool \ {p} : shm[q].refcount > 0 => shm[q].buf # s.buf
    BY <1>1, <2>2 DEF MemoryOK
  <2>5. s.buf \in Region /\ s.refcount = Cardinality({b \in Buffer : wl_buffer'[b] = p})
                                           + (IF p \in wl_shm_pool' THEN 1 ELSE 0)
    BY <1>1, <2>2
  <2>6. MemoryOK' /\ mapped' \subseteq Region
    BY <2>1, <2>3, <2>4, <2>5, MemoryStep
  <2> QED BY <1>2, <2>1, <2>2, <2>6
<1> QED BY <1>3, <1>4

\* A buffer that is left keeps its memory where it is.
LEMMA UnrefKeeps ==
  ASSUME CompositorTypeOK, CompositorTypeOK', MemoryOK', NEW p \in Pool, Unref(p),
         NEW x \in Buffer, wl_buffer'[x] = wl_buffer[x], wl_buffer'[x] # None
  PROVE  Memory(x)' = Memory(x)
<1>1. wl_buffer'[x] \in Pool
  BY DEF CompositorTypeOK
<1>2. PICK q \in Pool : q = wl_buffer'[x]
  BY <1>1
<1>3. shm'[q].refcount > 0
  <2> DEFINE B == {b \in Buffer : wl_buffer'[b] = q}
  <2>1. IsFiniteSet(B) /\ B # {}
    <3>1. B \subseteq Buffer /\ x \in B
      BY <1>2
    <3> QED BY <3>1, CompositorAssumption, FS_Subset
  <2>2. Cardinality(B) \in Nat /\ Cardinality(B) # 0
    BY <2>1, FS_CardinalityType, FS_EmptySet
  <2>3. shm'[q].refcount = Cardinality(B) + (IF q \in wl_shm_pool' THEN 1 ELSE 0)
    BY DEF MemoryOK, MappedWhileUsed
  <2> HIDE DEF B
  <2> QED BY <2>2, <2>3
<1>4. shm \in [Pool -> [refcount : Nat, buf : Region \cup {None}]]
  BY DEF CompositorTypeOK
<1>5. CASE shm[p].refcount = 1
  <2>1. shm' = [shm EXCEPT ![p] = NoShm] /\ NoShm.refcount = 0
    BY <1>5 DEF Unref, NoShm
  <2>2. q # p
    BY <1>3, <1>4, <2>1
  <2>3. shm'[q] = shm[q]
    BY <1>4, <2>1, <2>2
  <2> QED BY <1>2, <2>3 DEF Memory
<1>6. CASE shm[p].refcount # 1
  <2>1. shm' = [shm EXCEPT ![p].refcount = @ - 1]
    BY <1>6 DEF Unref
  <2>2. shm'[q].buf = shm[q].buf
    BY <1>4, <2>1
  <2> QED BY <1>2, <2>2 DEF Memory
<1> QED BY <1>5, <1>6

-----------------------------------------------------------------------------
(* Requests about the window and the pools.                                *)

\* wl_surface_on_attach and its like find the window the client has.
LEMMA GetSurfaceStep ==
  ASSUME CompInv, xdg_wm_base_on_get_xdg_surface
  PROVE  CompInv'
<1> USE DEF xdg_wm_base_on_get_xdg_surface, Dispatch, Returns, shmVars, gpuVars,
            hostVars, clientVars
<1>1. /\ wire # << >> /\ wire' = Tail(wire) /\ wire[1].op = "get_xdg_surface"
      /\ Head(wire) = wire[1] /\ wire' \in Seq(Message) /\ NothingComes'
  BY WireFacts, AfterDispatch DEF CompInv
<1>2. wire[1].of = Toplevel /\ surface = None /\ surface' = Toplevel /\ Toplevel \in have
  BY <1>1 DEF CompInv, WindowOK, Comes
<1>3. CompositorTypeOK'
  BY <1>1, <1>2, CompositorAssumption DEF CompInv, CompositorTypeOK
<1>4. WindowOK'
  BY <1>1, <1>2 DEF WindowOK, NothingComes, FrameOps
<1>5. PoolsOK'
  BY <1>1 DEF CompInv, PoolsOK, NothingComes, FrameOps, Comes
<1>6. BuffersOK'
  BY <1>1 DEF CompInv, BuffersOK, NothingComes, FrameOps, Comes, Creates
<1>7. MemoryOK'
  BY MemorySame DEF CompInv
<1>8. RequestOK'
  BY DEF CompInv, RequestOK
<1>9. FramesOK'
  <2>1. wire[1].op \notin FrameOps
    BY <1>1 DEF FrameOps
  <2>2. request'.op \in {"done", "create_buffer"}
    BY DEF NoRequest, Msg
  <2>3. Dispatch("get_xdg_surface") /\ todo' = todo
    OBVIOUS
  <2>4. \A b \in Buffer : Memory(b)' = Memory(b)
    BY DEF Memory
  <2>5. todo = << >>
    BY <2>2 DEF CompInv, RequestOK, NoRequest, Msg
  <2> QED BY <2>1, <2>2, <2>3, <2>4, <2>5, BetweenHandled
<1> QED BY <1>3, <1>4, <1>5, <1>6, <1>7, <1>8, <1>9 DEF CompInv

\* A handler of a request about memory that returns at once.
LEMMA HandledStep ==
  ASSUME CompInv, NEW op, Dispatch(op), Returns, op \notin FrameOps, op # "get_xdg_surface",
         UNCHANGED <<infoVars, events>>
  PROVE  /\ wire # << >> /\ Head(wire) = wire[1] /\ wire[1].op = op /\ wire[1] \in Message
         /\ NothingComes' /\ (\A o, x : o \notin FrameOps => ~ Comes(o, x)')
         /\ (\A o, x : Comes(o, x) <=> o = op /\ x = wire[1].of)
         /\ WindowOK' /\ RequestOK'
         /\ (\A b \in Buffer \cap have :
               wl_buffer[b] # None /\ ~ (op = "resize" /\ wire[1].of = wl_buffer[b]) =>
                 wl_buffer'[b] = wl_buffer[b] /\ Memory(b)' = Memory(b))
            => FramesOK'
         /\ request = NoRequest /\ request.op = "done"
         /\ /\ shm' \in [Pool -> [refcount : Nat, buf : Region \cup {None}]]
            /\ wl_buffer' \in [Buffer -> Pool \cup {None}]
            /\ wl_shm_pool' \subseteq Pool /\ mapped' \subseteq Region
            => CompositorTypeOK'
<1> USE DEF Dispatch, Returns, infoVars, gpuVars, hostVars, clientVars
<1>1. /\ wire # << >> /\ wire' = Tail(wire) /\ wire[1].op = op /\ wire[1] \in Message
      /\ Head(wire) = wire[1] /\ wire' \in Seq(Message) /\ NothingComes'
  BY WireFacts, AfterDispatch DEF CompInv
<1>2. \A o, x : o \notin FrameOps => ~ Comes(o, x)'
  BY <1>1 DEF NothingComes, Comes
<1>3. \A o, x : Comes(o, x) <=> o = op /\ x = wire[1].of
  BY <1>1 DEF Comes
<1>4. WindowOK'
  <2>1. ~ Comes("get_xdg_surface", Toplevel)' /\ ~ Comes("get_xdg_surface", Toplevel)
    BY <1>2, <1>3 DEF FrameOps
  <2> QED BY <1>1, <2>1 DEF CompInv, WindowOK, NothingComes, FrameOps
<1>5. RequestOK'
  BY DEF CompInv, RequestOK
<1>6. request.op = "done" /\ request = NoRequest
  BY DEF NoRequest, Msg
<1>7. ASSUME \A b \in Buffer \cap have :
               wl_buffer[b] # None /\ ~ (op = "resize" /\ wire[1].of = wl_buffer[b]) =>
                 wl_buffer'[b] = wl_buffer[b] /\ Memory(b)' = Memory(b)
      PROVE  FramesOK'
  <2>1. wire[1].op \notin FrameOps /\ op # "frame" /\ request'.op \in {"done", "create_buffer"}
    BY <1>1, <1>6 DEF FrameOps
  <2>2. Dispatch(op) /\ todo' = << >>
    BY <1>6 DEF CompInv, RequestOK
  <2> QED BY <1>7, <2>1, <2>2, BetweenHandled
<1>8. /\ shm' \in [Pool -> [refcount : Nat, buf : Region \cup {None}]]
      /\ wl_buffer' \in [Buffer -> Pool \cup {None}]
      /\ wl_shm_pool' \subseteq Pool /\ mapped' \subseteq Region
      => CompositorTypeOK'
  BY <1>1 DEF CompInv, CompositorTypeOK
<1> QED BY <1>1, <1>2, <1>3, <1>4, <1>5, <1>6, <1>7, <1>8

\* A new pool is mapped where none is.
LEMMA CreatePoolStep ==
  ASSUME CompInv, wl_shm_on_create_pool
  PROVE  CompInv'
<1> DEFINE p == wire[1].of
<1>1. /\ Dispatch("create_pool") /\ Returns /\ UNCHANGED <<infoVars, wl_buffer, events>>
      /\ wl_shm_pool' = wl_shm_pool \cup {Head(wire).of}
  BY DEF wl_shm_on_create_pool
<1>2. PICK m \in Region \ mapped :
        /\ mapped' = mapped \cup {m}
        /\ shm' = [shm EXCEPT ![Head(wire).of] = [refcount |-> 1, buf |-> m]]
  BY DEF wl_shm_on_create_pool
<1>3. "create_pool" \notin FrameOps
  BY DEF FrameOps
<1>4. /\ wire # << >> /\ Head(wire) = wire[1] /\ wire[1].op = "create_pool" /\ wire[1] \in Message
      /\ NothingComes' /\ (\A o, x : o \notin FrameOps => ~ Comes(o, x)')
      /\ (\A o, x : Comes(o, x) <=> o = "create_pool" /\ x = p)
      /\ WindowOK' /\ RequestOK'
      /\ (\A x \in Buffer \cap have :
            wl_buffer[x] # None /\ ~ ("create_pool" = "resize" /\ wire[1].of = wl_buffer[x]) =>
              wl_buffer'[x] = wl_buffer[x] /\ Memory(x)' = Memory(x)) => FramesOK'
      /\ request.op = "done" /\ UNCHANGED request
  BY <1>1, <1>3, HandledStep DEF Returns
<1>5. p \in Pool \cap have /\ (\A b \in Buffer : wl_buffer[b] # p) /\ p \notin wl_shm_pool
  BY <1>4 DEF CompInv, PoolsOK
<1>6. CompositorTypeOK /\ MemoryOK
  BY DEF CompInv
<1>7. shm[p].refcount = 0
  <2>1. {b \in Buffer : wl_buffer[b] = p} = {}
    BY <1>5
  <2>2. shm[p].refcount = Cardinality({b \in Buffer : wl_buffer[b] = p})
          + (IF p \in wl_shm_pool THEN 1 ELSE 0)
    BY <1>5, <1>6, RefcountFacts
  <2> QED BY <1>5, <2>1, <2>2, FS_EmptySet
<1>8. MemoryOK' /\ mapped' \subseteq Region
  <2>1. PICK s : s = [refcount |-> 1, buf |-> m]
    OBVIOUS
  <2>2. shm' = [shm EXCEPT ![p] = s] /\ s.refcount = 1 /\ s.buf = m
    BY <1>2, <1>4, <2>1
  <2>3. \A q \in Pool \ {p} :
           /\ {b \in Buffer : wl_buffer'[b] = q} = {b \in Buffer : wl_buffer[b] = q}
           /\ q \in wl_shm_pool' <=> q \in wl_shm_pool
    BY <1>1, <1>4
  <2>4. s.refcount = Cardinality({b \in Buffer : wl_buffer'[b] = p})
                        + (IF p \in wl_shm_pool' THEN 1 ELSE 0)
    <3>1. {b \in Buffer : wl_buffer'[b] = p} = {} /\ p \in wl_shm_pool'
      BY <1>1, <1>4, <1>5
    <3> QED BY <2>2, <3>1, FS_EmptySet
  <2>5. \A x : x \in mapped' <=>
           \/ x \in mapped /\ ~ (shm[p].refcount > 0 /\ x = shm[p].buf)
           \/ s.refcount > 0 /\ x = s.buf
    BY <1>2, <1>7, <2>2
  <2>6. s.refcount > 0 =>
           s.buf \in Region /\ \A q \in Pool \ {p} : shm[q].refcount > 0 => shm[q].buf # s.buf
    <3>1. \A q \in Pool : shm[q].refcount > 0 => shm[q].buf \in mapped
      BY DEF CompInv, MemoryOK, MappedWhileUsed
    <3> QED BY <2>2, <3>1
  <2> QED BY <1>5, <1>6, <2>2, <2>3, <2>4, <2>5, <2>6, MemoryStep
<1>9. CompositorTypeOK'
  <2>1. /\ shm' \in [Pool -> [refcount : Nat, buf : Region \cup {None}]]
        /\ wl_buffer' \in [Buffer -> Pool \cup {None}] /\ wl_shm_pool' \subseteq Pool
    <3>1. [refcount |-> 1, buf |-> m] \in [refcount : Nat, buf : Region \cup {None}]
      OBVIOUS
    <3> QED BY <1>1, <1>2, <1>4, <1>5, <1>6, <3>1 DEF CompositorTypeOK
  <2> QED BY <1>1, <1>3, <1>8, <2>1, HandledStep
<1>10. PoolsOK'
  BY <1>1, <1>4, <1>5 DEF CompInv, PoolsOK, NothingComes, FrameOps, Dispatch, clientVars
<1>11. BuffersOK'
  BY <1>1, <1>4 DEF CompInv, BuffersOK, NothingComes, FrameOps, Creates, Dispatch, clientVars
<1>12. FramesOK'
  <2>1. ASSUME NEW x \in Buffer \cap have
        PROVE  wl_buffer'[x] = wl_buffer[x] /\ Memory(x)' = Memory(x)
    <3>1. wl_buffer'[x] = wl_buffer[x] /\ wl_buffer[x] # p
      BY <1>1, <1>5
    <3>2. shm'[wl_buffer[x]] = shm[wl_buffer[x]]
      BY <1>2, <1>4, <1>5, <1>6, <3>1 DEF CompositorTypeOK
    <3> QED BY <3>1, <3>2 DEF Memory
  <2> QED BY <1>4, <2>1
<1> QED BY <1>4, <1>8, <1>9, <1>10, <1>11, <1>12 DEF CompInv

\* A pool is mapped again, where none else is.
LEMMA ResizeStep ==
  ASSUME CompInv, wl_shm_pool_on_resize
  PROVE  CompInv'
<1> DEFINE p == wire[1].of
<1>1. /\ Dispatch("resize") /\ Returns
      /\ UNCHANGED <<infoVars, wl_buffer, wl_shm_pool, events>>
  BY DEF wl_shm_pool_on_resize
<1>2. "resize" \notin FrameOps
  BY DEF FrameOps
<1>3. /\ wire # << >> /\ Head(wire) = wire[1] /\ wire[1].op = "resize" /\ wire[1] \in Message
      /\ NothingComes' /\ (\A o, x : o \notin FrameOps => ~ Comes(o, x)')
      /\ (\A o, x : Comes(o, x) <=> o = "resize" /\ x = p)
      /\ WindowOK' /\ RequestOK'
      /\ (\A x \in Buffer \cap have :
            wl_buffer[x] # None /\ ~ ("resize" = "resize" /\ wire[1].of = wl_buffer[x]) =>
              wl_buffer'[x] = wl_buffer[x] /\ Memory(x)' = Memory(x)) => FramesOK'
      /\ request.op = "done" /\ UNCHANGED request
  BY <1>1, <1>2, HandledStep DEF Returns
<1>4. PICK m \in Region \ (mapped \ {shm[p].buf}) :
        /\ mapped' = (mapped \ {shm[p].buf}) \cup {m}
        /\ shm' = [shm EXCEPT ![p].buf = m]
  BY <1>3 DEF wl_shm_pool_on_resize
<1>5. p \in Pool \cap have /\ p \in wl_shm_pool
  BY <1>3 DEF CompInv, PoolsOK
<1>6. CompositorTypeOK /\ MemoryOK
  BY DEF CompInv
<1>7. shm[p].refcount >= 1 /\ shm[p].refcount \in Nat
      /\ shm[p].refcount = Cardinality({b \in Buffer : wl_buffer[b] = p})
                             + (IF p \in wl_shm_pool THEN 1 ELSE 0)
  BY <1>5, <1>6, RefcountFacts
<1>8. shm[p] \in [refcount : Nat, buf : Region \cup {None}]
  BY <1>5, <1>6 DEF CompositorTypeOK
<1>9. PICK s : s = [shm[p] EXCEPT !.buf = m]
  OBVIOUS
<1>10. /\ shm' = [shm EXCEPT ![p] = s] /\ s.refcount = shm[p].refcount /\ s.buf = m
       /\ s \in [refcount : Nat, buf : Region \cup {None}]
  BY <1>4, <1>8, <1>9
<1>11. MemoryOK' /\ mapped' \subseteq Region
  <2>1. \A q \in Pool \ {p} :
           /\ {b \in Buffer : wl_buffer'[b] = q} = {b \in Buffer : wl_buffer[b] = q}
           /\ q \in wl_shm_pool' <=> q \in wl_shm_pool
    BY <1>1
  <2>2. s.refcount = Cardinality({b \in Buffer : wl_buffer'[b] = p})
                        + (IF p \in wl_shm_pool' THEN 1 ELSE 0)
    <3>1. wl_buffer' = wl_buffer /\ wl_shm_pool' = wl_shm_pool
      BY <1>1
    <3> QED BY <1>7, <1>10, <3>1
  <2>3. \A x : x \in mapped' <=>
           \/ x \in mapped /\ ~ (shm[p].refcount > 0 /\ x = shm[p].buf)
           \/ s.refcount > 0 /\ x = s.buf
    <3>1. shm[p].refcount > 0 /\ s.refcount > 0
      BY <1>7, <1>10
    <3> QED BY <1>4, <1>10, <3>1
  <2>4. \A q \in Pool \ {p} : shm[q].refcount > 0 => shm[q].buf # s.buf
    <3>1. \A q \in Pool : shm[q].refcount > 0 => shm[q].buf \in mapped
      BY DEF CompInv, MemoryOK, MappedWhileUsed
    <3>2. \A q \in Pool \ {p} : shm[q].refcount > 0 => shm[q].buf # shm[p].buf
      <4>1. shm[p].refcount > 0
        BY <1>7
      <4> QED BY <1>5, <4>1 DEF CompInv, MemoryOK
    <3> QED BY <1>10, <3>1, <3>2
  <2> QED BY <1>5, <1>6, <1>10, <2>1, <2>2, <2>3, <2>4, MemoryStep
<1>12. CompositorTypeOK'
  <2>1. /\ shm' \in [Pool -> [refcount : Nat, buf : Region \cup {None}]]
        /\ wl_buffer' \in [Buffer -> Pool \cup {None}] /\ wl_shm_pool' \subseteq Pool
    BY <1>1, <1>6, <1>10 DEF CompositorTypeOK
  <2> QED BY <1>1, <1>2, <1>11, <2>1, HandledStep
<1>13. PoolsOK'
  BY <1>1, <1>3 DEF CompInv, PoolsOK, NothingComes, FrameOps, Dispatch, clientVars
<1>14. BuffersOK'
  BY <1>1, <1>3 DEF CompInv, BuffersOK, NothingComes, FrameOps, Creates, Dispatch, clientVars
<1>15. FramesOK'
  <2>1. ASSUME NEW x \in Buffer \cap have, wl_buffer[x] # p
        PROVE  wl_buffer'[x] = wl_buffer[x] /\ Memory(x)' = Memory(x)
    <3>1. wl_buffer'[x] = wl_buffer[x]
      BY <1>1
    <3>2. shm'[wl_buffer[x]] = shm[wl_buffer[x]]
      BY <1>5, <1>6, <1>10, <2>1 DEF CompositorTypeOK
    <3> QED BY <3>1, <3>2 DEF Memory
  <2> QED BY <1>3, <2>1
<1> QED BY <1>3, <1>11, <1>12, <1>13, <1>14, <1>15 DEF CompInv

\* A pool is destroyed, and its buffers keep its memory.
LEMMA DestroyPoolStep ==
  ASSUME Nested, CompInv, wl_shm_pool_on_destroy
  PROVE  CompInv'
<1> DEFINE p == wire[1].of
<1>1. /\ Dispatch("destroy_pool") /\ Returns /\ UNCHANGED <<infoVars, wl_buffer, events>>
      /\ Unref(Head(wire).of) /\ wl_shm_pool' = wl_shm_pool \ {Head(wire).of}
  BY DEF wl_shm_pool_on_destroy
<1>2. "destroy_pool" \notin FrameOps
  BY DEF FrameOps
<1>3. /\ wire # << >> /\ Head(wire) = wire[1] /\ wire[1].op = "destroy_pool" /\ wire[1] \in Message
      /\ NothingComes' /\ (\A o, x : o \notin FrameOps => ~ Comes(o, x)')
      /\ (\A o, x : Comes(o, x) <=> o = "destroy_pool" /\ x = p)
      /\ WindowOK' /\ RequestOK'
      /\ (\A x \in Buffer \cap have :
            wl_buffer[x] # None /\ ~ ("destroy_pool" = "resize" /\ wire[1].of = wl_buffer[x]) =>
              wl_buffer'[x] = wl_buffer[x] /\ Memory(x)' = Memory(x)) => FramesOK'
      /\ request.op = "done" /\ UNCHANGED request
  BY <1>1, <1>2, HandledStep DEF Returns
<1>4. p \in Pool \ have /\ p \in wl_shm_pool
  BY <1>3 DEF CompInv, PoolsOK
<1>5. CompositorTypeOK /\ MemoryOK
  BY DEF CompInv
<1>6. /\ shm[p].refcount >= 1 /\ Cardinality({b \in Buffer : wl_buffer[b] = p}) \in Nat
      /\ shm[p].refcount = Cardinality({b \in Buffer : wl_buffer[b] = p}) + 1
  BY <1>4, <1>5, RefcountFacts
<1>7. /\ MemoryOK' /\ mapped' \subseteq Region
      /\ shm' \in [Pool -> [refcount : Nat, buf : Region \cup {None}]]
  <2>1. \A q \in Pool \ {p} :
           /\ {b \in Buffer : wl_buffer'[b] = q} = {b \in Buffer : wl_buffer[b] = q}
           /\ q \in wl_shm_pool' <=> q \in wl_shm_pool
    BY <1>1, <1>3
  <2>2. shm[p].refcount - 1 = Cardinality({b \in Buffer : wl_buffer'[b] = p})
                        + (IF p \in wl_shm_pool' THEN 1 ELSE 0)
    <3>1. wl_buffer' = wl_buffer /\ p \notin wl_shm_pool'
      BY <1>1, <1>3
    <3>2. Cardinality({b \in Buffer : wl_buffer'[b] = p}) = Cardinality({b \in Buffer : wl_buffer[b] = p})
      BY <3>1
    <3> QED BY <1>6, <3>1, <3>2
  <2>3. Unref(p)
    BY <1>1, <1>3
  <2> QED BY <1>4, <1>5, <1>6, <2>1, <2>2, <2>3, UnrefStep
<1>8. CompositorTypeOK'
  <2>1. wl_buffer' \in [Buffer -> Pool \cup {None}] /\ wl_shm_pool' \subseteq Pool
    BY <1>1, <1>5 DEF CompositorTypeOK
  <2> QED BY <1>1, <1>2, <1>7, <2>1, HandledStep
<1>9. PoolsOK'
  BY <1>1, <1>3, <1>4 DEF CompInv, PoolsOK, NothingComes, FrameOps, Dispatch, clientVars
<1>10. BuffersOK'
  BY <1>1, <1>3 DEF CompInv, BuffersOK, NothingComes, FrameOps, Creates, Dispatch, clientVars
<1>11. FramesOK'
  <2>1. ASSUME NEW x \in Buffer \cap have, wl_buffer[x] # None
        PROVE  wl_buffer'[x] = wl_buffer[x] /\ Memory(x)' = Memory(x)
    <3>1. wl_buffer' = wl_buffer /\ wl_buffer[x] \in Pool
      BY <1>1, <1>5, <2>1 DEF CompositorTypeOK
    <3>2. wl_buffer'[x] = wl_buffer[x] /\ wl_buffer'[x] # None
      BY <2>1, <3>1
    <3> QED BY <1>1, <1>3, <1>4, <1>5, <1>7, <1>8, <3>1, <3>2, UnrefKeeps
  <2> QED BY <1>3, <2>1
<1> QED BY <1>3, <1>7, <1>8, <1>9, <1>10, <1>11 DEF CompInv

\* A buffer drops its hold on the memory of its pool.
LEMMA DestroyBufferStep ==
  ASSUME CompInv, wl_buffer_on_destroy
  PROVE  CompInv'
<1> DEFINE b == wire[1].of
           p == wl_buffer[b]
<1>1. /\ Dispatch("destroy_buffer") /\ Returns /\ UNCHANGED <<infoVars, wl_shm_pool, events>>
      /\ Unref(wl_buffer[Head(wire).of]) /\ wl_buffer' = [wl_buffer EXCEPT ![Head(wire).of] = None]
  BY DEF wl_buffer_on_destroy
<1>2. "destroy_buffer" \notin FrameOps
  BY DEF FrameOps
<1>3. /\ wire # << >> /\ Head(wire) = wire[1] /\ wire[1].op = "destroy_buffer" /\ wire[1] \in Message
      /\ NothingComes' /\ (\A o, x : o \notin FrameOps => ~ Comes(o, x)')
      /\ (\A o, x : Comes(o, x) <=> o = "destroy_buffer" /\ x = b)
      /\ WindowOK' /\ RequestOK'
      /\ (\A x \in Buffer \cap have :
            wl_buffer[x] # None /\ ~ ("destroy_buffer" = "resize" /\ wire[1].of = wl_buffer[x]) =>
              wl_buffer'[x] = wl_buffer[x] /\ Memory(x)' = Memory(x)) => FramesOK'
      /\ request.op = "done" /\ UNCHANGED request
  BY <1>1, <1>2, HandledStep DEF Returns
<1>4. CompositorTypeOK /\ MemoryOK
  BY DEF CompInv
<1>5. b \in Buffer \ have /\ p \in Pool
  <2>1. b \in Buffer /\ b \notin have /\ p # None
    BY <1>3 DEF CompInv, BuffersOK, Creates
  <2> QED BY <1>4, <2>1 DEF CompositorTypeOK
<1>6. None \notin Pool
  BY CompositorAssumption
<1>7. \A x \in Buffer : wl_buffer'[x] = IF x = b THEN None ELSE wl_buffer[x]
  BY <1>1, <1>3, <1>4, <1>5 DEF CompositorTypeOK
<1>8. /\ MemoryOK' /\ mapped' \subseteq Region
      /\ shm' \in [Pool -> [refcount : Nat, buf : Region \cup {None}]]
  <2>1. \A q \in Pool \ {p} :
           /\ {x \in Buffer : wl_buffer'[x] = q} = {x \in Buffer : wl_buffer[x] = q}
           /\ q \in wl_shm_pool' <=> q \in wl_shm_pool
    BY <1>1, <1>6, <1>7
  <2>2. shm[p].refcount >= 1 /\ shm[p].refcount - 1
           = Cardinality({x \in Buffer : wl_buffer'[x] = p}) + (IF p \in wl_shm_pool' THEN 1 ELSE 0)
    <3> DEFINE B == {x \in Buffer : wl_buffer[x] = p}
    <3>1. /\ IsFiniteSet(B) /\ Cardinality(B) \in Nat /\ shm[p].refcount \in Nat
          /\ shm[p].refcount = Cardinality(B) + (IF p \in wl_shm_pool THEN 1 ELSE 0)
          /\ shm[p].refcount >= 1
      BY <1>4, <1>5, RefcountFacts
    <3>2. b \in B
      BY <1>5
    <3>3. {x \in Buffer : wl_buffer'[x] = p} = B \ {b}
      BY <1>5, <1>6, <1>7
    <3>4. Cardinality(B \ {b}) = Cardinality(B) - 1
      BY <3>1, <3>2, FS_RemoveElement
    <3>5. wl_shm_pool' = wl_shm_pool
      BY <1>1
    <3>6. Cardinality({x \in Buffer : wl_buffer'[x] = p}) = Cardinality(B) - 1
      BY <3>3, <3>4
    <3>7. (IF p \in wl_shm_pool THEN 1 ELSE 0) \in Int
      OBVIOUS
    <3>8. shm[p].refcount - 1 = Cardinality(B) - 1 + (IF p \in wl_shm_pool THEN 1 ELSE 0)
      <4> HIDE DEF B, p
      <4> QED BY <3>1, <3>7
    <3>9. (IF p \in wl_shm_pool' THEN 1 ELSE 0) = (IF p \in wl_shm_pool THEN 1 ELSE 0)
      BY <3>5
    <3> HIDE DEF B, p
    <3> QED BY <3>1, <3>6, <3>8, <3>9
  <2>3. Unref(p)
    BY <1>1, <1>3
  <2> QED BY <1>4, <1>5, <2>1, <2>2, <2>3, UnrefStep
<1>9. CompositorTypeOK'
  <2>1. wl_buffer' \in [Buffer -> Pool \cup {None}] /\ wl_shm_pool' \subseteq Pool
    BY <1>1, <1>4 DEF CompositorTypeOK
  <2> QED BY <1>1, <1>2, <1>8, <2>1, HandledStep
<1>10. PoolsOK'
  BY <1>1, <1>3 DEF CompInv, PoolsOK, NothingComes, FrameOps, Dispatch, clientVars
<1>11. BuffersOK'
  <2>1. have' = have /\ wl_shm_pool' = wl_shm_pool /\ BuffersOK
    BY <1>1 DEF Dispatch, clientVars, CompInv
  <2>2. \A x : ~ Creates(x) /\ ~ Creates(x)'
    BY <1>3 DEF Creates
  <2> QED BY <1>3, <1>5, <1>7, <2>1, <2>2 DEF BuffersOK, NothingComes, FrameOps
<1>12. FramesOK'
  <2>1. ASSUME NEW x \in Buffer \cap have, wl_buffer[x] # None
        PROVE  wl_buffer'[x] = wl_buffer[x] /\ Memory(x)' = Memory(x)
    <3>1. x # b
      BY <1>5
    <3>2. wl_buffer'[x] = wl_buffer[x] /\ wl_buffer'[x] # None
      BY <1>7, <2>1, <3>1
    <3> QED BY <1>1, <1>3, <1>4, <1>5, <1>8, <1>9, <3>2, UnrefKeeps
  <2> QED BY <1>3, <2>1
<1> QED BY <1>3, <1>8, <1>9, <1>10, <1>11, <1>12 DEF CompInv

-----------------------------------------------------------------------------
(* Requests that send commands.                                            *)

\* A request of a frame, and which of its messages it is.
LEMMA FrameHead ==
  ASSUME CompInv, wire # << >>, wire[1].op \in FrameOps, wire[1].op = "frame" \/ wire[1].of = Toplevel
  PROVE  /\ waiting
         /\ \A b \in Buffer, n \in 1..2 : Framing(b, n) =>
              /\ Left = Len(wire) /\ Left \in 1..n+3
              /\ wire[1].op = "frame" => Left = n + 3 /\ wire[1] = Msg("frame", drawn, None)
              /\ wire[1].op = "attach" => Left = n + 2 /\ wire[1] = Msg("attach", Toplevel, b)
              /\ wire[1].op = "damage" => Left \in 2..n+1
              /\ wire[1].op = "commit" => Left = 1
<1>1. Len(wire) \in Nat \ {0} /\ 1 \in 1..Len(wire) /\ Left \in Nat /\ (Left # 0 => Left = Len(wire))
  BY LeftFacts DEF CompInv
<1>2. ~ BetweenFrames(wire[1]) /\ ~ DuringFrame(wire[1])
  BY DEF BetweenFrames, DuringFrame, FrameOps
<1>3. waiting
  BY <1>2 DEF CompInv, FramesOK, Between
<1>4. ASSUME NEW b \in Buffer, NEW n \in 1..2, Framing(b, n)
      PROVE  /\ Left = Len(wire) /\ Left \in 1..n+3
             /\ wire[1].op = "frame" => Left = n + 3 /\ wire[1] = Msg("frame", drawn, None)
             /\ wire[1].op = "attach" => Left = n + 2 /\ wire[1] = Msg("attach", Toplevel, b)
             /\ wire[1].op = "damage" => Left \in 2..n+1
             /\ wire[1].op = "commit" => Left = 1
  <2>1. Left <= n + 4 /\ Left # n + 4 /\ Left # 0
    BY <1>2, <1>4 DEF Framing, FrameSent
  <2>2. Left \in 1..n+3 /\ Left - 1 <= n + 2 /\ Left - 1 \in Nat /\ 1 \in 1..Left
    BY <1>1, <2>1
  <2>3. PICK j \in Nat : j = Left - 1
    BY <2>2
  <2>4. wire[1] = Message_Frame(b, n, j)
    BY <1>4, <2>2, <2>3 DEF Framing, FrameSent
  <2>5. j \in 0..n+2 /\ Left = j + 1
    BY <2>2, <2>3
  <2>6. /\ j = 0 => wire[1] = Msg("commit", Toplevel, None)
        /\ j \in 1..n => wire[1] = Msg("damage", Toplevel, None)
        /\ j = n + 1 => wire[1] = Msg("attach", Toplevel, b)
        /\ j > n + 1 => wire[1] = Msg("frame", drawn, None)
    BY <2>4, FrameMessageFacts
  <2>7. j = 0 \/ j \in 1..n \/ j = n + 1 \/ (j > n + 1 /\ j = n + 2)
    BY <2>5
  <2>8. Left = Len(wire)
    BY <1>1, <2>1
  <2> QED BY <2>2, <2>5, <2>6, <2>7, <2>8 DEF Msg
<1> QED BY <1>3, <1>4

\* Creating a buffer.
LEMMA CreateBufferBegins ==
  ASSUME Nested, CompInv, wl_shm_pool_on_create_buffer
  PROVE  CompInv'
<1> DEFINE b == wire[1].of
<1> USE DEF Dispatch, Begins, infoVars, shmVars, gpuVars, hostVars, clientVars
<1>1. /\ Dispatch("create_buffer") /\ Begins(<<Cmd("create", Head(wire).of)>>)
  BY DEF wl_shm_pool_on_create_buffer
<1>2. /\ wire # << >> /\ wire' = Tail(wire) /\ wire[1].op = "create_buffer" /\ wire[1] \in Message
      /\ Head(wire) = wire[1] /\ wire' \in Seq(Message) /\ NothingComes'
  BY <1>1, WireFacts, AfterDispatch DEF CompInv
<1>3. request' = wire[1] /\ todo' = <<Cmd("create", b)>> /\ request.op = "done"
  BY <1>1, <1>2 DEF NoRequest, Msg
<1>4. b \in Buffer /\ wire[1].arg \in wl_shm_pool /\ b \in have /\ wl_buffer[b] = None
  BY <1>2 DEF CompInv, BuffersOK, Comes
<1>5. CompositorTypeOK'
  <2>1. Cmd("create", b) \in Command
    BY <1>4 DEF Cmd, Command
  <2> QED BY <1>1, <1>2, <1>3, <2>1 DEF CompInv, CompositorTypeOK
<1>6. \A o, x : o \notin FrameOps => ~ Comes(o, x)'
  BY <1>2 DEF NothingComes, Comes
<1>7. \A o, x : Comes(o, x) <=> o = "create_buffer" /\ x = b
  BY <1>2 DEF Comes
<1>8. WindowOK'
  <2>1. ~ Comes("get_xdg_surface", Toplevel)' /\ ~ Comes("get_xdg_surface", Toplevel)
    BY <1>6, <1>7 DEF FrameOps
  <2> QED BY <1>1, <1>2, <2>1 DEF CompInv, WindowOK, NothingComes, FrameOps
<1>9. PoolsOK'
  <2>1. UNCHANGED <<have, wl_shm_pool, wl_buffer>>
    BY <1>1
  <2> QED BY <1>2, <1>6, <1>7, <2>1 DEF CompInv, PoolsOK, NothingComes, FrameOps
<1>10. BuffersOK'
  <2>1. UNCHANGED <<have, wl_shm_pool, wl_buffer>> /\ BuffersOK
    BY <1>1 DEF CompInv
  <2>2. \A x : ~ Creates(x) /\ (Creates(x)' <=> x = b)
    BY <1>2, <1>3 DEF Creates
  <2> QED BY <1>2, <1>3, <1>4, <1>6, <1>7, <2>1, <2>2 DEF BuffersOK, NothingComes, FrameOps
<1>11. MemoryOK'
  BY <1>1, MemorySame DEF CompInv
<1>12. RequestOK'
  BY <1>2, <1>3 DEF RequestOK
<1>13. FramesOK'
  <2>1. wire[1].op \notin FrameOps /\ "create_buffer" # "frame" /\ request'.op \in {"done", "create_buffer"}
    BY <1>2, <1>3 DEF FrameOps
  <2>2. UNCHANGED <<buffer, callbacks, write_fence, fence_id, events, gpuVars>>
    BY <1>1
  <2>3. todo' # << >> => Head(todo').op # "transfer"
    BY <1>3, ListFacts DEF Cmd
  <2>4. \A x \in Buffer : wl_buffer'[x] = wl_buffer[x] /\ Memory(x)' = Memory(x)
    BY <1>1 DEF Memory
  <2> QED BY <1>1, <2>1, <2>2, <2>3, <2>4, BetweenHandled
<1> QED BY <1>5, <1>8, <1>9, <1>10, <1>11, <1>12, <1>13 DEF CompInv

\* The callback of a frame waits for it to be done.
LEMMA FrameStep ==
  ASSUME CompInv, wl_surface_on_frame
  PROVE  CompInv'
<1> USE DEF wl_surface_on_frame, Dispatch, Returns, shmVars, gpuVars, hostVars, clientVars
<1>1. /\ wire # << >> /\ wire' = Tail(wire) /\ wire[1].op = "frame" /\ wire[1] \in Message
      /\ Head(wire) = wire[1] /\ wire' \in Seq(Message) /\ NothingComes'
      /\ Len(wire) \in Nat \ {0} /\ Len(wire') = Len(wire) - 1
  BY WireFacts, AfterDispatch DEF CompInv
<1>2. wire[1].op \in FrameOps
  BY <1>1 DEF FrameOps
<1>3. waiting
  BY <1>1, <1>2, FrameHead
<1>4. PICK b \in Buffer, n \in 1..2 : Framing(b, n)
  BY <1>3 DEF CompInv, FramesOK
<1>5. Left = n + 3 /\ wire[1] = Msg("frame", drawn, None) /\ Left # 0
  BY <1>1, <1>2, <1>4, FrameHead
<1>6. Left' = n + 2 /\ Left > n + 2
  BY <1>1, <1>5, LeftTail DEF CompInv
<1>7. Quiet /\ callbacks = << >> /\ busy = {b} /\ FrameSent(b, n) /\ b \in have
  BY <1>4, <1>5, <1>6 DEF Framing, Told
<1>8. callbacks' = <<drawn>> /\ drawn \in Frame
  BY <1>1, <1>5, <1>7 DEF Msg, CompInv, CompositorTypeOK
<1>9. CompositorTypeOK'
  <2>1. callbacks' \in Seq(Frame)
    <3>1. \A f \in Frame : <<f>> \in Seq(Frame)
      OBVIOUS
    <3> QED BY <1>8, <3>1
  <2> QED BY <1>1, <2>1 DEF CompInv, CompositorTypeOK
<1>10. WindowOK' /\ PoolsOK' /\ BuffersOK'
  <2>1. SameComes
    BY <1>1, <1>2 DEF SameComes, NothingComes
  <2>2. UNCHANGED <<surface, have, wl_shm_pool, wl_buffer, request>>
    OBVIOUS
  <2> QED BY <2>1, <2>2, KnownSame
<1>11. MemoryOK' /\ RequestOK'
  BY MemorySame DEF CompInv, RequestOK
<1>12. FramesOK'
  <2>1. FrameSent(b, n)'
    BY <1>1, <1>5, <1>7, FrameSentTail DEF CompInv
  <2>2. Quiet'
    BY <1>7, QuietSame DEF NoRequest, Msg
  <2>3. ~ Told'
    BY <1>6 DEF Told
  <2>4. ~ (Left' > n + 2) /\ ~ (Left' <= n + 1)
    BY <1>6
  <2>5. request'.op = "done" /\ busy' = {b} /\ drawn' = drawn /\ waiting' /\ b \in have'
    BY <1>3, <1>7 DEF NoRequest, Msg
  <2>6. Framing(b, n)'
    BY <1>6, <1>8, <2>1, <2>2, <2>3, <2>4, <2>5 DEF Framing
  <2> QED BY <2>5, <2>6 DEF FramesOK
<1> QED BY <1>9, <1>10, <1>11, <1>12 DEF CompInv

\* A damage or the commit of a frame begins to be handled.
LEMMA DispatchDraws ==
  ASSUME CompInv, NEW b \in Buffer, NEW n \in 1..2, Framing(b, n),
         wire # << >>, wire' = Tail(wire), Left # 0, Left <= n + 1, request = NoRequest,
         UNCHANGED <<infoVars, shmVars, gpuVars, events, hostVars, clientVars>>,
         request'.op \in {"damage", "commit"}, todo' # << >>, Head(todo').op # "transfer",
         Left = n + 1 => Len(todo') = 3,
         Left' = 0 => request'.op = "commit",
         FrameRequest(b, n)'
  PROVE  Framing(b, n)'
<1> USE DEF infoVars, shmVars, gpuVars, hostVars, clientVars
<1>1. /\ Left \in Nat \ {0} /\ Left' = Left - 1 /\ Left' \in Nat
      /\ ~ (Left' > n + 2) /\ ~ (Left' = n + 2) /\ Left' <= n
  <2>1. Left \in Nat \ {0} /\ Left' = Left - 1
    BY LeftFacts, LeftTail DEF CompInv
  <2>2. \A x \in Nat \ {0}, k \in 1..2 : x <= k + 1 =>
          x - 1 \in Nat /\ ~ (x - 1 > k + 2) /\ ~ (x - 1 = k + 2) /\ x - 1 <= k
    OBVIOUS
  <2> QED BY <2>1, <2>2
<1>2. FrameSent(b, n)'
  BY FrameSentTail DEF Framing, CompInv
<1>3. ~ Told /\ ~ Told' /\ ~ Flushed /\ ~ Flushed' /\ b \in have'
  BY DEF Told, Flushed, Framing
<1>4. Drawing(b, n) /\ todo = << >> /\ request.op = "done"
  <2>1. request.op = "done"
    BY DEF NoRequest, Msg
  <2> QED BY <1>3, <2>1 DEF Framing, CompInv, RequestOK
<1>5. /\ Pending' = Pending /\ UNCHANGED <<queue, done, backing, scanout, host, screen, drawn>>
      /\ Memory(b)' = Memory(b)
  BY DEF Pending, Memory
<1>6. FramePending(b)'
  BY <1>3, <1>4, <1>5 DEF Drawing, FramePending
<1>7. FrameBacked(b)'
  BY <1>4, <1>5 DEF Drawing, FrameBacked
<1>8. FrameShown(b, n)'
  <2> HIDE DEF infoVars, shmVars, gpuVars, hostVars, clientVars
  <2>0. Left <= n \/ Left = n + 1
    <3>1. \A x \in Nat \ {0}, k \in 1..2 : x <= k + 1 => x <= k \/ x = k + 1
      OBVIOUS
    <3> QED BY <1>1, <3>1
  <2>1. scanout = b \/ \E i \in 1..Len(Pending) : Pending[i].op = "scanout"
    <3>1. Left <= n \/ (Left = n + 1 /\ todo = << >>)
      BY <1>4, <2>0
    <3> QED BY <1>4, <3>1 DEF Drawing, FrameShown
  <2>2. Left' < n \/ (Left' = n /\ Len(todo') <= 1) =>
       \/ \E i \in 1..Len(Pending) : Pending[i].op = "transfer"
       \/ host[b] = drawn /\ \A i \in 1..Len(Pending) : Pending[i].op = "create" => Pending[i].rsc # b
    <3>1. \A x \in Nat \ {0}, k \in 1..2 : /\ x - 1 = k => x = k + 1
                                           /\ x - 1 < k => x < k \/ x = k
      OBVIOUS
    <3>2. PICK x, y : x \in Nat \ {0} /\ x = Left /\ y = Left' /\ y = x - 1
      BY <1>1
    <3>3. (y = n => x = n + 1) /\ (y < n => x < n \/ x = n)
      BY <3>1, <3>2
    <3>4. Left' = n => Left = n + 1
      BY <3>2, <3>3
    <3>5. ~ (Left' = n /\ Len(todo') <= 1)
      <4>1. ASSUME Left' = n PROVE Len(todo') = 3
        BY <3>4, <4>1
      <4>2. Len(todo') = 3 => ~ (Len(todo') <= 1)
        OBVIOUS
      <4> QED BY <4>1, <4>2
    <3>6. Left' < n => Left < n \/ Left = n
      BY <3>2, <3>3
    <3>7. Len(todo) <= 1
      BY <1>4
    <3> QED BY <1>4, <3>5, <3>6, <3>7 DEF Drawing, FrameShown
  <2>3. \A i \in 1..Len(queue) : queue[i].fence = None
    BY <1>3, <1>4 DEF Drawing, FrameShown, FenceLast
  <2> QED BY <1>3, <1>5, <2>1, <2>2, <2>3 DEF FrameShown
<1>9. Drawing(b, n)'
  <2>1. buffer' = b /\ callbacks' = <<drawn>> /\ busy' = {b} /\ events' = << >> /\ write_fence' = FALSE
    BY <1>4 DEF Drawing
  <2>2. wl_buffer'[b] # None
    BY <1>4 DEF Drawing
  <2>3. Left' = 0 => wire' = << >>
    <3>1. Left' = 0 => Left = 1 /\ Len(wire) = 1
      BY <1>1, LeftFacts DEF CompInv
    <3> QED BY <3>1, LeftTail DEF CompInv
  <2> QED BY <1>1, <1>5, <1>6, <1>7, <1>8, <2>1, <2>2, <2>3 DEF Drawing
<1> QED BY <1>1, <1>2, <1>3, <1>9 DEF Framing

\* A request for the window or another surface begins or is ignored: all but
\* the frames stays as it is.
LEMMA SurfaceDispatch ==
  ASSUME CompInv, NEW op \in {"attach", "damage", "commit"}, Dispatch(op),
         UNCHANGED <<infoVars, shmVars, gpuVars, events>>,
         \/ UNCHANGED <<request, todo>>
         \/ request' = wire[1] /\ todo' \in Seq(Command)
  PROVE  /\ wire # << >> /\ wire' = Tail(wire) /\ wire[1].op = op /\ wire[1] = Head(wire)
         /\ request = NoRequest /\ wire[1].op \in FrameOps
         /\ CompositorTypeOK' /\ WindowOK' /\ PoolsOK' /\ BuffersOK' /\ MemoryOK' /\ RequestOK'
<1> USE DEF Dispatch, infoVars, shmVars, gpuVars, hostVars, clientVars
<1>1. /\ wire # << >> /\ wire' = Tail(wire) /\ wire[1].op = op /\ wire[1] \in Message
      /\ Head(wire) = wire[1] /\ wire' \in Seq(Message) /\ NothingComes'
  BY WireFacts, AfterDispatch DEF CompInv
<1>2. wire[1].op \in FrameOps
  BY <1>1 DEF FrameOps
<1>3. CompositorTypeOK'
  BY <1>1 DEF CompInv, CompositorTypeOK
<1>4. WindowOK' /\ PoolsOK' /\ BuffersOK'
  <2>1. SameComes
    BY <1>1, <1>2 DEF SameComes, NothingComes
  <2>2. UNCHANGED <<surface, have, wl_shm_pool, wl_buffer>>
    OBVIOUS
  <2>3. request.op # "create_buffer" /\ (UNCHANGED request \/ request'.op # "create_buffer")
    BY <1>1 DEF NoRequest, Msg
  <2> QED BY <2>1, <2>2, <2>3, KnownSame
<1>5. MemoryOK'
  BY MemorySame DEF CompInv
<1>6. RequestOK'
  BY <1>1 DEF CompInv, RequestOK
<1> QED BY <1>1, <1>2, <1>3, <1>4, <1>5, <1>6

\* The window is shown from the buffer attached.
LEMMA AttachBegins ==
  ASSUME Nested, CompInv, wl_surface_on_attach
  PROVE  CompInv'
<1>1. Dispatch("attach")
  BY DEF wl_surface_on_attach
<1>2. wire # << >> /\ wire[1] = Head(wire) /\ wire[1].op = "attach" /\ wire[1] \in Message
      /\ request = NoRequest /\ request.op = "done"
  BY <1>1, WireFacts DEF Dispatch, CompInv, NoRequest, Msg
<1>3. CASE wire[1].of # Toplevel
  <2>1. BetweenFrames(wire[1]) \/ DuringFrame(wire[1])
    BY <1>2, <1>3, HeadBetween DEF CompInv, FramesOK
  <2>2. wire[1].of \in Surface \ {Toplevel}
    BY <1>2, <2>1 DEF BetweenFrames, DuringFrame
  <2>3. wire[1].of # surface
    BY <2>2, CompositorAssumption DEF CompInv, WindowOK
  <2>4. Ignored
    BY <1>2, <2>3 DEF wl_surface_on_attach
  <2>5. UNCHANGED <<infoVars, shmVars, gpuVars, events, request, todo>>
    BY <2>4 DEF Ignored, Returns
  <2>6. CompositorTypeOK' /\ WindowOK' /\ PoolsOK' /\ BuffersOK' /\ MemoryOK' /\ RequestOK'
    BY <1>1, <2>5, SurfaceDispatch
  <2>7. FramesOK'
    <3>1. /\ UNCHANGED <<buffer, callbacks, write_fence, fence_id, events, gpuVars>>
          /\ request'.op \in {"done", "create_buffer"} /\ todo' = << >>
      BY <1>2, <2>5 DEF infoVars, CompInv, RequestOK
    <3>2. \A x \in Buffer : wl_buffer'[x] = wl_buffer[x] /\ Memory(x)' = Memory(x)
      BY <2>5 DEF shmVars, Memory
    <3> QED BY <1>1, <1>2, <1>3, <3>1, <3>2, BetweenHandled
  <2> QED BY <2>6, <2>7 DEF CompInv
<1>4. CASE wire[1].of = Toplevel
  <2>1. wire[1].op \in FrameOps
    BY <1>2 DEF FrameOps
  <2>2. waiting
    BY <1>2, <1>4, <2>1, FrameHead
  <2>3. PICK b \in Buffer, n \in 1..2 : Framing(b, n)
    BY <2>2 DEF CompInv, FramesOK
  <2>4. Left = n + 2 /\ Left # 0 /\ wire[1] = Msg("attach", Toplevel, b)
    BY <1>2, <1>4, <2>1, <2>3, FrameHead
  <2>5. Quiet /\ callbacks = <<drawn>> /\ busy = {b} /\ FrameSent(b, n) /\ b \in have
    BY <2>3, <2>4 DEF Framing, Told
  <2>6. surface = Toplevel
    <3>1. Toplevel \in have /\ ~ Comes("get_xdg_surface", Toplevel)
      BY <1>2, <2>5 DEF FrameSent, Comes
    <3> QED BY <3>1 DEF CompInv, WindowOK
  <2>7. Begins(<<Cmd("scanout", b)>>)
    BY <1>2, <2>4, <2>6 DEF wl_surface_on_attach, Msg
  <2>8. /\ UNCHANGED <<infoVars, shmVars, gpuVars, events, hostVars, clientVars>>
        /\ request' = wire[1] /\ todo' = <<Cmd("scanout", b)>>
    BY <1>1, <1>2, <2>7 DEF Begins, Dispatch
  <2>9. /\ CompositorTypeOK' /\ WindowOK' /\ PoolsOK' /\ BuffersOK' /\ MemoryOK' /\ RequestOK'
        /\ wire' = Tail(wire)
    <3>1. Cmd("scanout", b) \in Command
      BY DEF Cmd, Command
    <3>2. todo' \in Seq(Command)
      BY <2>8, <3>1
    <3> QED BY <1>1, <2>8, <3>2, SurfaceDispatch
  <2>10. Left' = n + 1 /\ Left \in Nat
    <3>1. Left' = Left - 1 /\ Left \in Nat
      BY <1>2, <2>4, <2>9, LeftFacts, LeftTail DEF CompInv
    <3> QED BY <2>4, <3>1
  <2>11. Left' # 0 /\ ~ Told' /\ ~ Flushed'
    BY <2>10 DEF Told, Flushed
  <2>12. FrameSent(b, n)'
    BY <1>2, <2>4, <2>5, <2>8, <2>9, FrameSentTail DEF CompInv, clientVars
  <2>13. Pending' = Pending /\ UNCHANGED <<queue, buffer, callbacks, busy, events, write_fence, waiting, drawn>>
    BY <2>8 DEF Pending, gpuVars, infoVars, clientVars
  <2>14. request'.op = "attach" /\ request'.arg = b
    BY <2>4, <2>8 DEF Msg
  <2>15. FrameRequest(b, n)'
    BY <2>8, <2>10, <2>14 DEF FrameRequest
  <2>16. FramePending(b)'
    BY <2>5, <2>13 DEF FramePending, Quiet, Creating
  <2>17. FrameBacked(b)'
    <3>1. Head(todo').op # "transfer"
      BY <2>8 DEF Cmd
    <3> QED BY <2>5, <2>13, <3>1 DEF FrameBacked, Quiet, Creating
  <2>18. FrameShown(b, n)'
    <3>1. todo' # << >> /\ ~ (Left' <= n) /\ ~ (Left' < n) /\ Left' # n
      BY <2>8, <2>10
    <3> QED BY <2>5, <2>11, <2>13, <3>1 DEF FrameShown, Quiet, Creating
  <2>19. ~ (Left' > n + 2) /\ ~ (Left' = n + 2) /\ ~ (Left' <= n)
    BY <2>10
  <2>20. wl_buffer'[b] # None
    <3>1. ~ Comes("create_buffer", b) /\ ~ Creates(b)
      BY <1>2 DEF Comes, Creates
    <3> QED BY <2>5, <2>8, <3>1 DEF CompInv, BuffersOK, shmVars
  <2>21. Drawing(b, n)'
    BY <2>20, <2>5, <2>11, <2>13, <2>14, <2>15, <2>16, <2>17, <2>18, <2>19 DEF Drawing, Quiet
  <2>22. b \in have'
    BY <2>5, <2>8 DEF clientVars
  <2>23. Framing(b, n)'
    BY <2>11, <2>12, <2>19, <2>21, <2>22 DEF Framing
  <2> QED BY <2>2, <2>9, <2>13, <2>23 DEF CompInv, FramesOK
<1> QED BY <1>3, <1>4

\* A damage or a commit for another surface, when no buffer is attached.
LEMMA SurfaceIgnored ==
  ASSUME CompInv, NEW op \in {"damage", "commit"}, Dispatch(op),
         wire[1].of # Toplevel, buffer = None => Ignored
  PROVE  CompInv'
<1>1. wire # << >> /\ wire[1] = Head(wire) /\ wire[1].op = op
      /\ request = NoRequest /\ request.op = "done"
  BY WireFacts DEF Dispatch, CompInv, NoRequest, Msg
<1>2. Quiet
  <2>1. ~ DuringFrame(wire[1])
    BY <1>1 DEF DuringFrame
  <2>2. CASE waiting
    BY <1>1, <2>1, <2>2, HeadBetween DEF CompInv, FramesOK
  <2>3. CASE ~ waiting
    BY <2>3 DEF CompInv, FramesOK, Between
  <2> QED BY <2>2, <2>3
<1>3. UNCHANGED <<infoVars, shmVars, gpuVars, events, request, todo>>
  BY <1>2 DEF Quiet, Ignored, Returns
<1>4. CompositorTypeOK' /\ WindowOK' /\ PoolsOK' /\ BuffersOK' /\ MemoryOK' /\ RequestOK'
  BY <1>3, SurfaceDispatch
<1>5. FramesOK'
  <2>1. /\ UNCHANGED <<buffer, callbacks, write_fence, fence_id, events, gpuVars>>
        /\ request'.op \in {"done", "create_buffer"} /\ todo' = << >>
    BY <1>1, <1>3 DEF infoVars, CompInv, RequestOK
  <2>2. \A x \in Buffer : wl_buffer'[x] = wl_buffer[x] /\ Memory(x)' = Memory(x)
    BY <1>3 DEF shmVars, Memory
  <2> QED BY <1>1, <2>1, <2>2, BetweenHandled
<1> QED BY <1>4, <1>5 DEF CompInv

\* The frame under way whose damage or commit comes first.
LEMMA FrameDispatch ==
  ASSUME CompInv, NEW op \in {"damage", "commit"}, Dispatch(op), wire[1].of = Toplevel
  PROVE  /\ waiting
         /\ \E b \in Buffer, n \in 1..2 :
              /\ Framing(b, n) /\ buffer = b /\ buffer # None
              /\ Left <= n + 1 /\ Left \in Nat \ {0} /\ Left # 0 /\ Left' = Left - 1
              /\ wl_buffer[b] # None
              /\ op = "damage" => Left' \in 1..n /\ Left' # 0
              /\ op = "commit" => Left' = 0 /\ Left # n + 1
<1>1. /\ wire # << >> /\ wire[1] = Head(wire) /\ wire[1].op = op /\ wire[1].op \in FrameOps
      /\ request = NoRequest /\ request.op = "done" /\ wire' = Tail(wire)
  BY WireFacts DEF Dispatch, CompInv, NoRequest, Msg, FrameOps
<1>2. waiting
  BY <1>1, FrameHead
<1>3. PICK b \in Buffer, n \in 1..2 : Framing(b, n)
  BY <1>2 DEF CompInv, FramesOK
<1>4. (op = "damage" => Left \in 2..n+1) /\ (op = "commit" => Left = 1)
      /\ Left \in Nat \ {0}
  <2>1. Left \in 1..n+3
    BY <1>1, <1>3, FrameHead
  <2> QED BY <1>1, <1>3, <2>1, FrameHead
<1>5. /\ Left <= n + 1 /\ (op = "damage" => Left - 1 \in 1..n)
      /\ (op = "commit" => Left # n + 1)
  <2>1. \A x \in Nat, k \in 1..2 : /\ x \in 2..k+1 => x <= k + 1 /\ x - 1 \in 1..k
                                   /\ x = 1 => x <= k + 1 /\ x # k + 1
    OBVIOUS
  <2> QED BY <1>4, <2>1
<1>6. Drawing(b, n)
  <2>1. ~ Told
    BY <1>4 DEF Told
  <2> QED BY <1>3, <1>5, <2>1 DEF Framing
<1>7. buffer = b /\ b # None /\ wl_buffer[b] # None
  BY <1>1, <1>6, CompositorAssumption DEF Drawing
<1>8. Left' = Left - 1
  BY <1>1, <1>4, LeftTail DEF CompInv
<1> QED BY <1>2, <1>3, <1>4, <1>5, <1>7, <1>8

\* The damaged part of the buffer is transferred.
LEMMA DamageBegins ==
  ASSUME Nested, CompInv, wl_surface_on_damage
  PROVE  CompInv'
<1>1. Dispatch("damage")
  BY DEF wl_surface_on_damage
<1>2. buffer = None => Ignored
  BY DEF wl_surface_on_damage
<1>3. CASE wire[1].of # Toplevel
  BY <1>1, <1>2, <1>3, SurfaceIgnored
<1>4. CASE wire[1].of = Toplevel
  <2>1. waiting /\ wire # << >> /\ wire[1] = Head(wire) /\ wire[1].op = "damage" /\ request = NoRequest
    BY <1>1, <1>4, FrameDispatch, WireFacts DEF Dispatch, CompInv
  <2>2. PICK b \in Buffer, n \in 1..2 :
              /\ Framing(b, n) /\ buffer = b /\ buffer # None
              /\ Left <= n + 1 /\ Left \in Nat \ {0} /\ Left # 0 /\ Left' = Left - 1
              /\ Left' \in 1..n /\ Left' # 0 /\ wl_buffer[b] # None
    BY <1>1, <1>4, FrameDispatch
  <2>3. Begins(Transfers(b))
    BY <2>2 DEF wl_surface_on_damage
  <2>4. /\ UNCHANGED <<infoVars, shmVars, gpuVars, events, hostVars, clientVars>>
        /\ request' = wire[1] /\ wire' = Tail(wire)
        /\ todo' = <<Attach(b, shm[wl_buffer[b]].buf), Cmd("transfer", b), Cmd("detach", b)>>
    BY <1>1, <2>1, <2>3 DEF Begins, Dispatch, Transfers
  <2>5. /\ todo' # << >> /\ Len(todo') = 3 /\ Head(todo').op = "attach" /\ Head(todo').op # "transfer"
    BY <2>4, ListFacts DEF Attach, Cmd
  <2>6. FrameRequest(b, n)'
    <3>1. UNCHANGED <<shm, wl_buffer>> /\ request'.op = "damage"
      BY <2>1, <2>4 DEF shmVars
    <3> QED BY <2>2, <2>4, <3>1 DEF FrameRequest, Memory
  <2>7. Framing(b, n)'
    <3>1. request'.op = "damage"
      BY <2>1, <2>4
    <3> QED BY <2>1, <2>2, <2>4, <2>5, <2>6, <3>1, DispatchDraws
  <2>8. todo' \in Seq(Command)
    <3>1. wl_buffer[b] \in Pool
      BY <2>2 DEF CompInv, CompositorTypeOK
    <3>2. shm[wl_buffer[b]].buf \in Region \cup {None}
      BY <3>1 DEF CompInv, CompositorTypeOK
    <3>3. Attach(b, shm[wl_buffer[b]].buf) \in Command /\ Cmd("transfer", b) \in Command /\ Cmd("detach", b) \in Command
      BY <3>2 DEF Attach, Cmd, Command
    <3> QED BY <2>4, <3>3
  <2>9. CompositorTypeOK' /\ WindowOK' /\ PoolsOK' /\ BuffersOK' /\ MemoryOK' /\ RequestOK'
    BY <1>1, <2>4, <2>8, SurfaceDispatch
  <2>10. waiting'
    BY <2>1, <2>4 DEF clientVars
  <2> QED BY <2>7, <2>9, <2>10 DEF CompInv, FramesOK
<1> QED BY <1>3, <1>4

\* The buffer is flushed.
LEMMA CommitBegins ==
  ASSUME Nested, CompInv, wl_surface_on_commit
  PROVE  CompInv'
<1>1. Dispatch("commit")
  BY DEF wl_surface_on_commit
<1>2. buffer = None => Ignored
  BY DEF wl_surface_on_commit
<1>3. CASE wire[1].of # Toplevel
  BY <1>1, <1>2, <1>3, SurfaceIgnored
<1>4. CASE wire[1].of = Toplevel
  <2>1. waiting /\ wire # << >> /\ wire[1] = Head(wire) /\ wire[1].op = "commit" /\ request = NoRequest
    BY <1>1, <1>4, FrameDispatch, WireFacts DEF Dispatch, CompInv
  <2>2. PICK b \in Buffer, n \in 1..2 :
              /\ Framing(b, n) /\ buffer = b /\ buffer # None
              /\ Left <= n + 1 /\ Left \in Nat \ {0} /\ Left # 0 /\ Left' = Left - 1
              /\ Left' = 0 /\ Left # n + 1
    BY <1>1, <1>4, FrameDispatch
  <2>3. Begins(<<Cmd("flush", b)>>)
    BY <2>2 DEF wl_surface_on_commit
  <2>4. /\ UNCHANGED <<infoVars, shmVars, gpuVars, events, hostVars, clientVars>>
        /\ request' = wire[1] /\ wire' = Tail(wire) /\ todo' = <<Cmd("flush", b)>>
    BY <1>1, <2>1, <2>3 DEF Begins, Dispatch
  <2>5. todo' # << >> /\ Head(todo').op = "flush" /\ Head(todo').op # "transfer"
    BY <2>4, ListFacts DEF Cmd
  <2>6. FrameRequest(b, n)'
    <3>1. request'.op = "commit"
      BY <2>1, <2>4
    <3> QED BY <2>2, <2>4, <3>1 DEF FrameRequest
  <2>7. Framing(b, n)'
    <3>1. request'.op = "commit"
      BY <2>1, <2>4
    <3> QED BY <2>1, <2>2, <2>4, <2>5, <2>6, <3>1, DispatchDraws
  <2>8. todo' \in Seq(Command)
    <3>1. Cmd("flush", b) \in Command
      BY DEF Cmd, Command
    <3> QED BY <2>4, <3>1
  <2>9. CompositorTypeOK' /\ WindowOK' /\ PoolsOK' /\ BuffersOK' /\ MemoryOK' /\ RequestOK'
    BY <1>1, <2>4, <2>8, SurfaceDispatch
  <2>10. waiting'
    BY <2>1, <2>4 DEF clientVars
  <2> QED BY <2>7, <2>9, <2>10 DEF CompInv, FramesOK
<1> QED BY <1>3, <1>4

-----------------------------------------------------------------------------
(* Handlers that return.                                                   *)

\* A handler that returns has handled a request of the frame under way.
LEMMA EndStep ==
  ASSUME CompInv, NEW op \in {"attach", "damage", "commit"}, EndOf(op), UNCHANGED shmVars,
         buffer' \in Buffer \cup {None}, fence_id' \in 0..F-1, write_fence' \in BOOLEAN
  PROVE  /\ CompositorTypeOK' /\ WindowOK' /\ PoolsOK' /\ BuffersOK' /\ MemoryOK' /\ RequestOK'
         /\ request' = NoRequest /\ request'.op = "done" /\ request # NoRequest /\ request.op = op
         /\ todo = << >> /\ todo' = << >>
         /\ waiting /\ waiting'
         /\ \E b \in Buffer, n \in 1..2 :
              /\ Framing(b, n) /\ Drawing(b, n) /\ ~ Told /\ FrameSent(b, n)'
              /\ Left <= n + 1 /\ Left \in Nat /\ Left' = Left /\ b \in have'
              /\ ~ (Left > n + 2) /\ ~ (Left = n + 2)
<1> USE DEF EndOf, infoVars, shmVars, gpuVars, hostVars, clientVars
<1>1. request # NoRequest /\ request.op = op /\ todo = << >> /\ todo' = << >>
      /\ request' = NoRequest /\ request'.op = "done"
  BY DEF NoRequest, Msg
<1>2. CompositorTypeOK'
  <2>1. NoRequest \in Message
    BY DEF NoRequest, Msg, Message
  <2> QED BY <1>1, <2>1 DEF CompInv, CompositorTypeOK
<1>3. WindowOK' /\ PoolsOK' /\ BuffersOK'
  <2>1. SameComes
    BY DEF SameComes, NothingComes
  <2>2. UNCHANGED <<surface, have, wl_shm_pool, wl_buffer>>
    OBVIOUS
  <2> QED BY <1>1, <2>1, <2>2, KnownSame
<1>4. MemoryOK' /\ RequestOK'
  BY <1>1, MemorySame DEF CompInv, RequestOK
<1>5. Left \in Nat
  BY LeftFacts DEF CompInv
<1>6. ~ Quiet
  BY <1>1 DEF Quiet
<1>7. waiting
  BY <1>6 DEF CompInv, FramesOK, Between
<1>8. PICK b \in Buffer, n \in 1..2 : Framing(b, n)
  BY <1>7 DEF CompInv, FramesOK
<1>9. ~ (Left > n + 2) /\ ~ (Left = n + 2)
  BY <1>6, <1>8 DEF Framing
<1>10. Left <= n + 1
  <2>1. \A x \in Nat, k \in 1..2 : ~ (x > k + 2) /\ ~ (x = k + 2) => x <= k + 1
    OBVIOUS
  <2> QED BY <1>5, <1>9, <2>1
<1>11. Drawing(b, n) /\ ~ Told
  BY <1>1, <1>8, <1>10 DEF Framing, Told
<1>12. FrameSent(b, n)' /\ Left' = Left /\ b \in have'
  <2>1. UNCHANGED <<wire, have, pixels, drawn>>
    OBVIOUS
  <2>2. b \in have
    BY <1>8, <1>11 DEF Framing
  <2> QED BY <1>8, <2>1, <2>2, FrameSentSame DEF Framing
<1>13. waiting'
  BY <1>7
<1> QED BY <1>1, <1>2, <1>3, <1>4, <1>5, <1>7, <1>8, <1>9, <1>10, <1>11, <1>12, <1>13

\* Returning leaves what the frame needs as it was, unless it was the commit.
LEMMA EndDraws ==
  ASSUME CompInv, NEW b \in Buffer, NEW n \in 1..2, Drawing(b, n),
         UNCHANGED <<gpuVars, shmVars, hostVars, wire, drawn>>,
         todo = << >>, todo' = << >>, Flushed' <=> Flushed,
         write_fence' /\ Flushed' => fence_id' = fence_submitted
  PROVE  FramePending(b)' /\ FrameBacked(b)' /\ FrameShown(b, n)'
<1> USE DEF shmVars, gpuVars, hostVars
<1>1. Pending' = Pending /\ Memory(b)' = Memory(b) /\ Left' = Left
  BY DEF Pending, Memory, Left
<1>2. FramePending(b)'
  BY <1>1 DEF Drawing, FramePending
<1>3. FrameBacked(b)'
  BY <1>1 DEF Drawing, FrameBacked
<1>4. FrameShown(b, n)'
  <2>1. FrameShown(b, n)
    BY DEF Drawing
  <2>2. \A i \in 1..Len(queue) : FenceLast(i) => FenceLast(i)'
    BY DEF FenceLast
  <2> QED BY <1>1, <2>1, <2>2 DEF FrameShown
<1> QED BY <1>2, <1>3, <1>4

\* The buffer attached is the one to flush and to release.
LEMMA AttachEnds ==
  ASSUME CompInv, wl_surface_on_attach_End
  PROVE  CompInv'
<1>1. /\ EndOf("attach") /\ buffer' = request.arg /\ UNCHANGED <<fence_id, write_fence, shmVars>>
      /\ UNCHANGED <<gpuVars, hostVars, clientVars, wire, events, callbacks>>
  BY DEF wl_surface_on_attach_End, EndOf
<1>2. waiting /\ request.op = "attach" /\ request # NoRequest
  <2>1. ~ Quiet
    BY <1>1 DEF EndOf, Quiet
  <2> QED BY <1>1, <2>1 DEF CompInv, FramesOK, Between, EndOf
<1>3. request.arg \in Buffer
  <2>1. PICK b \in Buffer, n \in 1..2 : Framing(b, n)
    BY <1>2 DEF CompInv, FramesOK
  <2>2. ~ (Left > n + 2) /\ ~ (Left = n + 2) /\ ~ Told
    BY <1>2, <2>1 DEF Framing, Quiet, Told
  <2>3. Left <= n + 1
    <3>1. \A x \in Nat, k \in 1..2 : ~ (x > k + 2) /\ ~ (x = k + 2) => x <= k + 1
      OBVIOUS
    <3> QED BY <2>2, <3>1, LeftFacts DEF CompInv
  <2> QED BY <1>2, <2>1, <2>2, <2>3 DEF Framing, Drawing, FrameRequest
<1>4. buffer' \in Buffer \cup {None} /\ fence_id' \in 0..F-1 /\ write_fence' \in BOOLEAN
  BY <1>1, <1>3 DEF CompInv, CompositorTypeOK
<1>5. /\ CompositorTypeOK' /\ WindowOK' /\ PoolsOK' /\ BuffersOK' /\ MemoryOK' /\ RequestOK'
      /\ request' = NoRequest /\ request'.op = "done" /\ todo = << >> /\ todo' = << >> /\ waiting'
  BY <1>1, <1>4, EndStep
<1>6. PICK b \in Buffer, n \in 1..2 :
              /\ Framing(b, n) /\ Drawing(b, n) /\ ~ Told /\ FrameSent(b, n)'
              /\ Left <= n + 1 /\ Left \in Nat /\ Left' = Left /\ b \in have'
              /\ ~ (Left > n + 2) /\ ~ (Left = n + 2)
  BY <1>1, <1>4, EndStep
<1>7. Left = n + 1 /\ request.arg = b /\ Left # 0
  <2>1. Left = n + 1 /\ request.arg = b
    BY <1>2, <1>6 DEF Drawing, FrameRequest
  <2> QED BY <1>6, <2>1
<1>8. ~ Told' /\ ~ Flushed /\ ~ Flushed'
  BY <1>6, <1>7 DEF Told, Flushed
<1>9. FramePending(b)' /\ FrameBacked(b)' /\ FrameShown(b, n)'
  <2>1. drawn' = drawn
    BY <1>1 DEF clientVars
  <2> QED BY <1>1, <1>5, <1>6, <1>8, <2>1, EndDraws
<1>10. Drawing(b, n)'
  <2>1. UNCHANGED <<busy, drawn, events, callbacks, wire, write_fence, wl_buffer>> /\ buffer' = b
    BY <1>1, <1>7 DEF clientVars, shmVars
  <2> QED BY <1>2, <1>5, <1>6, <1>7, <1>9, <2>1 DEF Drawing, FrameRequest
<1>11. Framing(b, n)'
  BY <1>6, <1>8, <1>10 DEF Framing
<1> QED BY <1>5, <1>11 DEF CompInv, FramesOK

\* A damage has been handled.
LEMMA DamageEnds ==
  ASSUME CompInv, wl_surface_on_damage_End
  PROVE  CompInv'
<1>1. /\ EndOf("damage") /\ UNCHANGED <<buffer, fence_id, write_fence, shmVars>>
      /\ UNCHANGED <<gpuVars, hostVars, clientVars, wire, events, callbacks>>
  BY DEF wl_surface_on_damage_End, EndOf
<1>2. buffer' \in Buffer \cup {None} /\ fence_id' \in 0..F-1 /\ write_fence' \in BOOLEAN
  BY <1>1 DEF CompInv, CompositorTypeOK
<1>3. /\ CompositorTypeOK' /\ WindowOK' /\ PoolsOK' /\ BuffersOK' /\ MemoryOK' /\ RequestOK'
      /\ request' = NoRequest /\ request'.op = "done" /\ todo = << >> /\ todo' = << >> /\ waiting'
      /\ request.op = "damage" /\ request # NoRequest
  BY <1>1, <1>2, EndStep
<1>4. PICK b \in Buffer, n \in 1..2 :
              /\ Framing(b, n) /\ Drawing(b, n) /\ ~ Told /\ FrameSent(b, n)'
              /\ Left <= n + 1 /\ Left \in Nat /\ Left' = Left /\ b \in have'
              /\ ~ (Left > n + 2) /\ ~ (Left = n + 2)
  BY <1>1, <1>2, EndStep
<1>5. Left <= n /\ Left # 0
  <2>1. Left \in 1..n
    BY <1>3, <1>4 DEF Drawing, FrameRequest
  <2> QED BY <1>4, <2>1
<1>6. ~ Told' /\ ~ Flushed /\ ~ Flushed'
  BY <1>4, <1>5 DEF Told, Flushed
<1>7. FramePending(b)' /\ FrameBacked(b)' /\ FrameShown(b, n)'
  <2>1. drawn' = drawn
    BY <1>1 DEF clientVars
  <2> QED BY <1>1, <1>3, <1>4, <1>6, <2>1, EndDraws
<1>8. Drawing(b, n)'
  <2>1. UNCHANGED <<busy, drawn, events, callbacks, wire, write_fence, buffer, wl_buffer>>
    BY <1>1 DEF clientVars, shmVars
  <2> QED BY <1>3, <1>4, <1>5, <1>7, <2>1 DEF Drawing, FrameRequest
<1>9. Framing(b, n)'
  BY <1>4, <1>6, <1>8 DEF Framing
<1> QED BY <1>3, <1>9 DEF CompInv, FramesOK

\* The fence of the flush is the one to wait for.
LEMMA CommitEnds ==
  ASSUME CompInv, wl_surface_on_commit_End
  PROVE  CompInv'
<1>1. /\ EndOf("commit") /\ fence_id' = fence_submitted /\ write_fence' = TRUE
      /\ UNCHANGED <<buffer, shmVars>>
      /\ UNCHANGED <<gpuVars, hostVars, clientVars, wire, events, callbacks>>
  BY DEF wl_surface_on_commit_End, EndOf
<1>2. buffer' \in Buffer \cup {None} /\ fence_id' \in 0..F-1 /\ write_fence' \in BOOLEAN
  BY <1>1 DEF CompInv, CompositorTypeOK
<1>3. /\ CompositorTypeOK' /\ WindowOK' /\ PoolsOK' /\ BuffersOK' /\ MemoryOK' /\ RequestOK'
      /\ request' = NoRequest /\ request'.op = "done" /\ todo = << >> /\ todo' = << >> /\ waiting'
      /\ request.op = "commit" /\ request # NoRequest
  BY <1>1, <1>2, EndStep
<1>4. PICK b \in Buffer, n \in 1..2 :
              /\ Framing(b, n) /\ Drawing(b, n) /\ ~ Told /\ FrameSent(b, n)'
              /\ Left <= n + 1 /\ Left \in Nat /\ Left' = Left /\ b \in have'
              /\ ~ (Left > n + 2) /\ ~ (Left = n + 2)
  BY <1>1, <1>2, EndStep
<1>5. Left = 0 /\ Left' = 0 /\ Left <= n
  <2>1. Left = 0
    BY <1>3, <1>4 DEF Drawing, FrameRequest
  <2> QED BY <1>4, <2>1
<1>6. ~ Told' /\ Flushed /\ Flushed'
  BY <1>1, <1>3, <1>4, <1>5 DEF Told, Flushed
<1>7. FramePending(b)' /\ FrameBacked(b)' /\ FrameShown(b, n)'
  <2>1. drawn' = drawn
    BY <1>1 DEF clientVars
  <2> QED BY <1>1, <1>3, <1>4, <1>6, <2>1, EndDraws
<1>8. Drawing(b, n)'
  <2>1. UNCHANGED <<busy, drawn, events, callbacks, wire, buffer, wl_buffer>>
    BY <1>1 DEF clientVars, shmVars
  <2> QED BY <1>1, <1>3, <1>4, <1>5, <1>7, <2>1 DEF Drawing, FrameRequest
<1>9. Framing(b, n)'
  BY <1>4, <1>6, <1>8 DEF Framing
<1> QED BY <1>3, <1>9 DEF CompInv, FramesOK

\* A step that nothing of a frame depends on: while the compositor handles
\* requests that come between the frames, or none.
LEMMA QuietStep ==
  ASSUME CompInv, Quiet, Quiet', UNCHANGED <<wire, clientVars, callbacks>>,
         request.op = "done" => request'.op = "done"
  PROVE  FramesOK'
<1> USE DEF clientVars
<1>1. Left \in Nat
  BY LeftFacts DEF CompInv
<1>2. CASE ~ waiting
  BY <1>2 DEF CompInv, FramesOK, Between, BetweenFrames
<1>3. CASE waiting
  <2>1. PICK b \in Buffer, n \in 1..2 : Framing(b, n)
    BY <1>3 DEF CompInv, FramesOK
  <2>2. ~ Told
    BY <2>1 DEF Framing, OnScreen, Quiet
  <2>3. ~ (Left <= n + 1)
    <3>1. ASSUME Left <= n + 1 PROVE FALSE
      <4>1. Drawing(b, n)
        BY <2>1, <2>2, <3>1 DEF Framing
      <4>2. None # b
        BY CompositorAssumption
      <4>3. ~ (Left <= n) /\ request.op # "done"
        BY <4>1, <4>2 DEF Drawing, Quiet
      <4>4. Left = 0
        BY <4>1, <4>3 DEF Drawing, FrameRequest, Quiet
      <4> QED BY <4>3, <4>4
    <3> QED BY <3>1
  <2>4. (Left > n + 2 \/ Left = n + 2) /\ Left # 0
    <3>1. \A x \in Nat, k \in 1..2 : ~ (x <= k + 1) => (x > k + 2 \/ x = k + 2) /\ x # 0
      OBVIOUS
    <3> QED BY <1>1, <2>3, <3>1
  <2>5. FrameSent(b, n)' /\ Left' = Left
    BY <2>1, FrameSentSame DEF Framing
  <2>6. ~ Told'
    BY <2>4, <2>5 DEF Told
  <2>7. Framing(b, n)'
    BY <2>1, <2>2, <2>3, <2>5, <2>6 DEF Framing
  <2> QED BY <1>3, <2>7 DEF FramesOK
<1> QED BY <1>2, <1>3

\* A buffer is created between the frames, or when all requests of one have been
\* read.
LEMMA CreatesWhen ==
  ASSUME CompInv, request.op = "create_buffer"
  PROVE  Quiet \/ (waiting /\ Left = 0)
<1>1. CASE ~ waiting
  BY <1>1 DEF CompInv, FramesOK, Between
<1>2. CASE waiting /\ Left # 0
  <2>1. PICK b \in Buffer, n \in 1..2 : Framing(b, n)
    BY <1>2 DEF CompInv, FramesOK
  <2>2. ~ Told
    BY <1>2 DEF Told
  <2>3. ~ (Left <= n + 1)
    BY <1>2, <2>1, <2>2 DEF Framing, Drawing, FrameRequest
  <2>4. Left > n + 2 \/ Left = n + 2
    <3>1. \A x \in Nat, k \in 1..2 : ~ (x <= k + 1) => x > k + 2 \/ x = k + 2
      OBVIOUS
    <3> QED BY <2>3, <3>1, LeftFacts DEF CompInv
  <2> QED BY <2>1, <2>4 DEF Framing
<1> QED BY <1>1, <1>2

\* The buffer holds the memory of its pool.
LEMMA CreateBufferEnds ==
  ASSUME CompInv, wl_shm_pool_on_create_buffer_End
  PROVE  CompInv'
<1> DEFINE b == request.of
           p == request.arg
<1>1. /\ request.op = "create_buffer" /\ request # NoRequest /\ todo = << >> /\ request' = NoRequest
      /\ UNCHANGED <<surface, callbacks, queue, done, fence_submitted, todo, wire, events, hostVars, clientVars>>
      /\ UNCHANGED <<buffer, fence_id, write_fence, wl_shm_pool, mapped>>
      /\ wl_buffer' = [wl_buffer EXCEPT ![b] = p]
      /\ shm' = [shm EXCEPT ![p].refcount = @ + 1]
  BY DEF wl_shm_pool_on_create_buffer_End, EndOf, gpuVars
<1>2. request'.op = "done"
  BY <1>1 DEF NoRequest, Msg
<1>3. CompositorTypeOK /\ MemoryOK
  BY DEF CompInv
<1>4. b \in Buffer /\ p \in wl_shm_pool /\ p \in Pool /\ wl_buffer[b] = None
  BY <1>1, <1>3 DEF CompInv, BuffersOK, Creates, CompositorTypeOK
<1>5. None \notin Pool
  BY CompositorAssumption
<1>6. \A x \in Buffer : wl_buffer'[x] = IF x = b THEN p ELSE wl_buffer[x]
  BY <1>1, <1>3, <1>4 DEF CompositorTypeOK
<1>7. /\ IsFiniteSet({x \in Buffer : wl_buffer[x] = p})
      /\ Cardinality({x \in Buffer : wl_buffer[x] = p}) \in Nat /\ shm[p].refcount \in Nat
      /\ shm[p].refcount = Cardinality({x \in Buffer : wl_buffer[x] = p}) + 1
      /\ shm[p].refcount >= 1 /\ shm[p].buf \in mapped /\ shm[p].buf \in Region
  BY <1>3, <1>4, RefcountFacts
<1>8. PICK s : s = [shm[p] EXCEPT !.refcount = @ + 1]
  OBVIOUS
<1>9. shm[p] \in [refcount : Nat, buf : Region \cup {None}]
  BY <1>3, <1>4 DEF CompositorTypeOK
<1>10. /\ shm' = [shm EXCEPT ![p] = s] /\ s.refcount = shm[p].refcount + 1 /\ s.buf = shm[p].buf
       /\ s \in [refcount : Nat, buf : Region \cup {None}]
  BY <1>1, <1>8, <1>9
<1>11. MemoryOK' /\ mapped' \subseteq Region
  <2>1. \A q \in Pool \ {p} :
           /\ {x \in Buffer : wl_buffer'[x] = q} = {x \in Buffer : wl_buffer[x] = q}
           /\ q \in wl_shm_pool' <=> q \in wl_shm_pool
    BY <1>1, <1>4, <1>5, <1>6
  <2>2. s.refcount = Cardinality({x \in Buffer : wl_buffer'[x] = p}) + (IF p \in wl_shm_pool' THEN 1 ELSE 0)
    <3> DEFINE B == {x \in Buffer : wl_buffer[x] = p}
    <3>1. b \notin B
      BY <1>4, <1>5
    <3>2. {x \in Buffer : wl_buffer'[x] = p} = B \cup {b}
      BY <1>4, <1>6
    <3>3. Cardinality(B \cup {b}) = Cardinality(B) + 1
      BY <1>7, <3>1, FS_AddElement
    <3>4. p \in wl_shm_pool'
      BY <1>1, <1>4
    <3> QED BY <1>7, <1>10, <3>2, <3>3, <3>4
  <2>3. \A x : x \in mapped' <=>
           \/ x \in mapped /\ ~ (shm[p].refcount > 0 /\ x = shm[p].buf)
           \/ s.refcount > 0 /\ x = s.buf
    <3>1. s.refcount > 0
      BY <1>7, <1>10
    <3> QED BY <1>1, <1>7, <1>10, <3>1
  <2>4. s.buf \in Region /\ \A q \in Pool \ {p} : shm[q].refcount > 0 => shm[q].buf # s.buf
    <3>1. shm[p].refcount > 0
      BY <1>7
    <3> QED BY <1>4, <1>7, <1>10, <3>1 DEF CompInv, MemoryOK
  <2> QED BY <1>3, <1>4, <1>10, <2>1, <2>2, <2>3, <2>4, MemoryStep
<1>12. CompositorTypeOK'
  <2>1. shm' \in [Pool -> [refcount : Nat, buf : Region \cup {None}]]
    BY <1>3, <1>10 DEF CompositorTypeOK
  <2>2. wl_buffer' \in [Buffer -> Pool \cup {None}]
    BY <1>1, <1>3, <1>4 DEF CompositorTypeOK
  <2>3. NoRequest \in Message
    BY DEF NoRequest, Msg, Message
  <2> QED BY <1>1, <1>3, <1>11, <2>1, <2>2, <2>3 DEF CompositorTypeOK, hostVars, clientVars
<1>13. \A o, x : Comes(o, x)' <=> Comes(o, x)
  BY <1>1 DEF Comes
<1>14. WindowOK'
  <2>1. Comes("get_xdg_surface", Toplevel)' <=> Comes("get_xdg_surface", Toplevel)
    BY <1>13
  <2> QED BY <1>1, <2>1 DEF CompInv, WindowOK, clientVars
<1>15. PoolsOK'
  <2>1. PoolsOK /\ UNCHANGED <<have, wl_shm_pool, wire>>
    BY <1>1 DEF CompInv, clientVars
  <2>2. wire # << >> /\ wire[1].op = "create_pool" => wire[1].of # p
    BY <1>4, <2>1 DEF PoolsOK, Comes
  <2> QED BY <1>4, <1>6, <1>13, <2>1, <2>2 DEF PoolsOK
<1>16. BuffersOK'
  <2>1. BuffersOK /\ UNCHANGED <<have, wl_shm_pool, wire>>
    BY <1>1 DEF CompInv, clientVars
  <2>2. \A x : (Creates(x) <=> x = b) /\ ~ Creates(x)'
    BY <1>1, <1>2 DEF Creates
  <2>3. p # None
    BY <1>4, <1>5
  <2> QED BY <1>2, <1>4, <1>6, <1>13, <2>1, <2>2, <2>3 DEF BuffersOK
<1>17. RequestOK'
  BY <1>1, <1>2 DEF RequestOK
<1>18. FramesOK'
  <2>1. CASE Quiet
    <3>1. Quiet'
      BY <1>1, <1>2, <2>1, QuietSame
    <3> QED BY <1>1, <1>2, <2>1, <3>1, QuietStep
  <2>2. CASE waiting /\ Left = 0
    <3>1. PICK x \in Buffer, n \in 1..2 : Framing(x, n)
      BY <2>2 DEF CompInv, FramesOK
    <3>2. Left' = 0 /\ todo' = << >> /\ UNCHANGED wire
      BY <1>1, <2>2 DEF Left
    <3>3. wire # << >> => Len(wire) = 1 /\ DuringFrame(wire[1])
      BY <2>2, <3>1 DEF Framing, FrameSent
    <3>4. Toplevel \in have'
      BY <1>1, <3>1 DEF Framing, FrameSent, clientVars
    <3>5. ASSUME ~ Told
          PROVE  /\ x \in have' /\ wl_buffer'[x] = wl_buffer[x] /\ Memory(x)' = Memory(x)
                 /\ wire' # << >> /\ wire'[1].op = "resize" => wire'[1].of # wl_buffer[x]
      <4>1. x \in have /\ Drawing(x, n)
        BY <2>2, <3>1, <3>5 DEF Framing
      <4>2. wl_buffer[x] # None /\ x # b
        BY <1>4, <4>1 DEF Drawing
      <4>3. wl_buffer'[x] = wl_buffer[x] /\ wl_buffer[x] \in Pool
        BY <1>3, <1>6, <4>2 DEF CompositorTypeOK
      <4>4. Memory(x)' = Memory(x)
        <5>1. shm'[wl_buffer[x]].buf = shm[wl_buffer[x]].buf
          BY <1>3, <1>10, <4>3 DEF CompositorTypeOK
        <5> QED BY <4>3, <5>1 DEF Memory
      <4>5. wire # << >> /\ wire[1].op = "resize" => wire[1].of # wl_buffer[x]
        BY <2>2, <4>1 DEF Drawing
      <4> QED BY <1>1, <3>2, <4>1, <4>3, <4>4, <4>5 DEF clientVars
    <3>6. Framing(x, n)'
      BY <1>1, <1>2, <1>3, <2>2, <3>1, <3>2, <3>3, <3>4, <3>5, LateStep DEF clientVars, gpuVars
    <3> QED BY <1>1, <2>2, <3>6 DEF FramesOK, clientVars
  <2> QED BY <1>1, <2>1, <2>2, CreatesWhen
<1> QED BY <1>11, <1>12, <1>14, <1>15, <1>16, <1>17, <1>18 DEF CompInv

-----------------------------------------------------------------------------
(* Sending a command.                                                      *)

\* A command of the frame's, for its buffer, is sent in its turn.
LEMMA SendDraws ==
  ASSUME CompInv, CompositorTypeOK', NEW b \in Buffer, NEW n \in 1..2, Drawing(b, n),
         NEW c \in Command, queue' = Append(queue, c), done' = done, todo # << >>,
         UNCHANGED <<shm, wl_buffer, hostVars>>, ~ Flushed,
         c.rsc = b, c.op # "create",
         c.op = "attach" => c.mem = Memory(b),
         c.op = "transfer" => Head(todo).op = "transfer",
         c.op = "flush" \/ c.fence # None => Flushed',
         todo' # << >> /\ Head(todo').op = "transfer" => c.op = "attach"
  PROVE  /\ FramePending(b)' /\ FrameBacked(b)'
         /\ Len(queue') \in 1..Len(queue') /\ queue'[Len(queue')] = c /\ done' < Len(queue')
         /\ \A i \in 1..Len(queue') : queue'[i].fence # None => i = Len(queue') /\ Flushed'
         /\ \A i \in 1..Len(Pending') :
              Pending'[i].op = "create" => i \in 1..Len(Pending) /\ Pending'[i] = Pending[i]
         /\ \A op : (\E i \in 1..Len(Pending') : Pending'[i].op = op) <=>
                      c.op = op \/ \E i \in 1..Len(Pending) : Pending[i].op = op
<1>1. /\ Len(Pending') = Len(Pending) + 1 /\ Len(Pending) \in Nat
      /\ \A i \in 1..Len(Pending) : i \in 1..Len(Pending') /\ Pending'[i] = Pending[i]
      /\ Pending'[Len(Pending')] = c
      /\ Len(queue') = Len(queue) + 1 /\ Len(queue) \in Nat
      /\ \A i \in 1..Len(queue) : queue'[i] = queue[i]
      /\ queue'[Len(queue')] = c
  BY PendingSent DEF CompInv
<1>2. Memory(b)' = Memory(b)
  BY DEF Memory
<1>3. /\ \A i \in 1..Len(Pending') : i \in 1..Len(Pending) \/ i = Len(Pending')
      /\ \A i \in 1..Len(queue') : i \in 1..Len(queue) \/ i = Len(queue')
      /\ Len(Pending') \in 1..Len(Pending') /\ Len(queue') \in 1..Len(queue')
      /\ \A i \in 1..Len(Pending) : i # Len(Pending')
      /\ \A i, j \in 1..Len(Pending') : i < j => i \in 1..Len(Pending)
      /\ \A i \in 1..Len(Pending) : i # 1 => i - 1 \in 1..Len(Pending)
  <2>1. \A k \in Nat : /\ \A i \in 1..(k + 1) : i \in 1..k \/ i = k + 1
                       /\ k + 1 \in 1..(k + 1)
                       /\ \A i \in 1..k : i # k + 1 /\ (i # 1 => i - 1 \in 1..k)
                       /\ \A i, j \in 1..(k + 1) : i < j => i \in 1..k
    OBVIOUS
  <2>2. PICK k \in Nat, l \in Nat : k = Len(Pending) /\ l = Len(queue)
    BY <1>1
  <2>3. Len(Pending') = k + 1 /\ Len(queue') = l + 1
    BY <1>1, <2>2
  <2> QED BY <2>1, <2>2, <2>3
<1>4. Pending' # << >> /\ done' < Len(queue')
  <2>1. Len(Pending') # 0
    BY <1>1
  <2>2. done \in 0..Len(queue)
    BY DEF CompInv, CompositorTypeOK
  <2> QED BY <1>1, <2>1, <2>2
<1>5. FramePending(b)'
  <2>1. \A i \in 1..Len(Pending) :
           /\ \/ Pending[i].op = "create"
              \/ Pending[i].rsc = b /\ Pending[i].op # "attach"
              \/ Pending[i].rsc = b /\ Pending[i].op = "attach" /\ Pending[i].mem = Memory(b)
           /\ Pending[i].op # "flush"
    BY DEF Drawing, FramePending
  <2>2. \A i, j \in 1..Len(Pending) :
           i < j /\ Pending[j].op = "create" /\ Pending[j].rsc = b => Pending[i].op = "create"
    BY DEF Drawing, FramePending
  <2>3. ASSUME NEW i \in 1..Len(Pending')
        PROVE  /\ \/ Pending'[i].op = "create"
                  \/ Pending'[i].rsc = b /\ Pending'[i].op # "attach"
                  \/ Pending'[i].rsc = b /\ Pending'[i].op = "attach" /\ Pending'[i].mem = Memory(b)'
               /\ Pending'[i].op = "flush" =>
                    Flushed' /\ \A j \in 1..Len(Pending') : ~ (i < j)
    <3>1. CASE i \in 1..Len(Pending)
      BY <1>1, <1>2, <2>1, <3>1
    <3>2. CASE i = Len(Pending')
      <4>1. \A j \in 1..Len(Pending') : ~ (i < j)
        BY <1>1, <3>2
      <4> QED BY <1>1, <1>2, <3>2, <4>1
    <3> QED BY <1>3, <3>1, <3>2
  <2>4. ASSUME NEW i \in 1..Len(Pending'), NEW j \in 1..Len(Pending'), i < j,
               Pending'[j].op = "create", Pending'[j].rsc = b
        PROVE  Pending'[i].op = "create"
    <3>1. j # Len(Pending')
      BY <1>1, <2>4
    <3>2. i \in 1..Len(Pending) /\ j \in 1..Len(Pending)
      BY <1>3, <2>4, <3>1
    <3> QED BY <1>1, <2>2, <2>4, <3>2
  <2> QED BY <2>3, <2>4 DEF FramePending
<1>6. FrameBacked(b)'
  <2>1. ASSUME NEW i \in 1..Len(Pending'), Pending'[i].op = "transfer"
        PROVE  IF i = 1 THEN backing'[b] = Memory(b)' ELSE Pending'[i-1].op = "attach"
    <3>1. CASE i \in 1..Len(Pending)
      <4>1. Pending[i].op = "transfer"
        BY <1>1, <2>1, <3>1
      <4>2. IF i = 1 THEN backing[b] = Memory(b) ELSE Pending[i-1].op = "attach"
        BY <3>1, <4>1 DEF Drawing, FrameBacked
      <4>3. i # 1 => Pending'[i-1] = Pending[i-1]
        BY <1>1, <1>3, <3>1
      <4> QED BY <1>2, <4>2, <4>3 DEF hostVars
    <3>2. CASE i = Len(Pending')
      <4>1. IF Pending = << >> THEN backing[b] = Memory(b)
            ELSE Pending[Len(Pending)].op = "attach"
        BY <1>1, <2>1, <3>2 DEF Drawing, FrameBacked
      <4>2. Pending = << >> <=> Len(Pending) = 0
        BY PendingFacts, EmptySeq DEF CompInv
      <4>3. CASE Pending = << >>
        <5>1. i = 1
          BY <1>1, <3>2, <4>2, <4>3
        <5> QED BY <1>2, <4>1, <4>3, <5>1 DEF hostVars
      <4>4. CASE Pending # << >>
        <5>1. i - 1 = Len(Pending) /\ Len(Pending) \in 1..Len(Pending) /\ i # 1
          BY <1>1, <3>2, <4>2, <4>4
        <5>2. Pending'[i-1] = Pending[Len(Pending)]
          BY <1>1, <5>1
        <5> QED BY <4>1, <4>4, <5>1, <5>2
      <4> QED BY <4>3, <4>4
    <3> QED BY <1>3, <3>1, <3>2
  <2>2. todo' # << >> /\ Head(todo').op = "transfer" => Pending'[Len(Pending')].op = "attach"
    BY <1>1
  <2> QED BY <1>4, <2>1, <2>2 DEF FrameBacked
<1>7. ASSUME NEW i \in 1..Len(queue'), queue'[i].fence # None
      PROVE  i = Len(queue') /\ Flushed'
  <2>1. \A k \in 1..Len(queue) : queue[k].fence = None
    BY DEF Drawing, FrameShown, FenceLast
  <2>2. i = Len(queue')
    BY <1>1, <1>3, <1>7, <2>1
  <2> QED BY <1>1, <1>7, <2>2
<1>8. \A op : (\E i \in 1..Len(Pending') : Pending'[i].op = op) <=>
                c.op = op \/ \E i \in 1..Len(Pending) : Pending[i].op = op
  BY <1>1, <1>3
<1>9. \A i \in 1..Len(Pending') :
        Pending'[i].op = "create" => i \in 1..Len(Pending) /\ Pending'[i] = Pending[i]
  BY <1>1, <1>3
<1> QED BY <1>1, <1>3, <1>4, <1>5, <1>6, <1>7, <1>8, <1>9

\* The command sent, and the rest of the program's state.
LEMMA SendFacts ==
  ASSUME CompInv, Send
  PROVE  \E c \in Command :
           /\ c = (IF Head(todo).op = "flush" THEN [Head(todo) EXCEPT !.fence = (fence_submitted + 1) % F]
                   ELSE Head(todo))
           /\ queue' = Append(queue, c) /\ todo # << >> /\ todo' = Tail(todo)
           /\ (Head(todo).op = "flush" => fence_submitted' = (fence_submitted + 1) % F)
           /\ (Head(todo).op # "flush" => fence_submitted' = fence_submitted)
           /\ UNCHANGED <<done, mapped, infoVars, shmVars, request, wire, events, hostVars, clientVars>>
           /\ CompositorTypeOK' /\ WindowOK' /\ PoolsOK' /\ BuffersOK' /\ MemoryOK' /\ RequestOK'
           /\ request.op \in {"create_buffer", "attach", "damage", "commit"} /\ request # NoRequest
<1>1. /\ todo # << >> /\ todo' = Tail(todo)
      /\ UNCHANGED <<done, mapped, infoVars, shmVars, request, wire, events, hostVars, clientVars>>
  BY DEF Send, shmVars
<1>2. Head(todo) \in Command /\ todo' \in Seq(Command)
  BY <1>1, TailFacts DEF CompInv, CompositorTypeOK
<1>3. (fence_submitted + 1) % F \in 0..F-1
  BY CompositorAssumption DEF CompInv, CompositorTypeOK
<1>4. PICK c : c = (IF Head(todo).op = "flush" THEN [Head(todo) EXCEPT !.fence = (fence_submitted + 1) % F]
                    ELSE Head(todo))
  OBVIOUS
<1>5. c \in Command
  BY <1>2, <1>3, <1>4 DEF Command
<1>6. /\ queue' = Append(queue, c)
      /\ (Head(todo).op = "flush" => fence_submitted' = (fence_submitted + 1) % F)
      /\ (Head(todo).op # "flush" => fence_submitted' = fence_submitted)
  BY <1>4 DEF Send
<1>7. CompositorTypeOK'
  <2>1. queue' \in Seq(Command) /\ Len(queue') = Len(queue) + 1 /\ Len(queue) \in Nat
    BY <1>5, <1>6, AppendProperties DEF CompInv, CompositorTypeOK
  <2>2. done' \in 0..Len(queue')
    BY <1>1, <2>1 DEF CompInv, CompositorTypeOK
  <2>3. fence_submitted' \in 0..F-1
    BY <1>3, <1>6 DEF CompInv, CompositorTypeOK
  <2> QED BY <1>1, <1>2, <2>1, <2>2, <2>3
          DEF CompInv, CompositorTypeOK, infoVars, shmVars, hostVars, clientVars
<1>8. WindowOK' /\ PoolsOK' /\ BuffersOK'
  <2>1. SameComes
    BY <1>1 DEF SameComes, NothingComes
  <2>2. UNCHANGED <<surface, have, wl_shm_pool, wl_buffer, request>>
    BY <1>1 DEF infoVars, shmVars, clientVars
  <2> QED BY <2>1, <2>2, KnownSame
<1>9. MemoryOK'
  BY <1>1, MemorySame DEF CompInv, shmVars
<1>10. RequestOK'
  <2>1. RequestOK /\ request.op # "done"
    BY <1>1 DEF CompInv, RequestOK
  <2>2. request.op = "create_buffer" => todo' = << >>
    BY <1>1, <2>1, ListFacts DEF RequestOK
  <2> QED BY <1>1, <2>1, <2>2 DEF RequestOK
<1>11. request.op \in {"create_buffer", "attach", "damage", "commit"} /\ request # NoRequest
  BY <1>1 DEF CompInv, RequestOK, NoRequest, Msg
<1> QED BY <1>1, <1>4, <1>5, <1>6, <1>7, <1>8, <1>9, <1>10, <1>11

\* The creation of a buffer is sent while the device has nothing else to do,
LEMMA CreatingSent ==
  ASSUME CompositorTypeOK, CompositorTypeOK', Creating, NEW c \in Command,
         queue' = Append(queue, c), done' = done, c.op = "create", c.fence = None
  PROVE  Creating'
<1>1. /\ Len(Pending') = Len(Pending) + 1 /\ Len(Pending) \in Nat
      /\ \A i \in 1..Len(Pending) : i \in 1..Len(Pending') /\ Pending'[i] = Pending[i]
      /\ Pending'[Len(Pending')] = c
      /\ Len(queue') = Len(queue) + 1 /\ Len(queue) \in Nat
      /\ \A i \in 1..Len(queue) : queue'[i] = queue[i]
      /\ queue'[Len(queue')] = c
  BY PendingSent
<1>2. /\ \A i \in 1..Len(Pending') : i \in 1..Len(Pending) \/ i = Len(Pending')
      /\ \A i \in 1..Len(queue') : i \in 1..Len(queue) \/ i = Len(queue')
  <2>1. \A k \in Nat : \A i \in 1..(k + 1) : i \in 1..k \/ i = k + 1
    OBVIOUS
  <2> QED BY <1>1, <2>1
<1> QED BY <1>1, <1>2 DEF Creating

\* or behind what the last frame needs.
LEMMA CreateSentLate ==
  ASSUME CompositorTypeOK, CompositorTypeOK', NEW b \in Buffer, NEW n \in 1..2, Drawing(b, n),
         Left = 0, UNCHANGED <<infoVars, shmVars, request, wire, events, hostVars, clientVars, fence_submitted>>,
         request.op = "create_buffer", ~ Told, todo' = << >>,
         NEW c \in Command, queue' = Append(queue, c), done' = done,
         c.op = "create", c.rsc # b, c.fence = None
  PROVE  Drawing(b, n)'
<1> USE DEF infoVars, shmVars, hostVars, clientVars
<1>1. /\ Len(Pending') = Len(Pending) + 1 /\ Len(Pending) \in Nat
      /\ \A i \in 1..Len(Pending) : i \in 1..Len(Pending') /\ Pending'[i] = Pending[i]
      /\ Pending'[Len(Pending')] = c
      /\ Len(queue') = Len(queue) + 1 /\ Len(queue) \in Nat
      /\ \A i \in 1..Len(queue) : queue'[i] = queue[i]
      /\ queue'[Len(queue')] = c
  BY PendingSent
<1>2. /\ \A i \in 1..Len(Pending') : i \in 1..Len(Pending) \/ i = Len(Pending')
      /\ \A i \in 1..Len(queue') : i \in 1..Len(queue) \/ i = Len(queue')
      /\ \A i, j \in 1..Len(Pending') : i < j => i \in 1..Len(Pending)
      /\ \A i \in 1..Len(Pending) : i # 1 => i - 1 \in 1..Len(Pending)
      /\ \A i \in 1..Len(queue) : i \in 1..Len(queue')
  <2>1. \A k \in Nat : /\ \A i \in 1..(k + 1) : i \in 1..k \/ i = k + 1
                       /\ \A i \in 1..k : i # 1 => i - 1 \in 1..k
                       /\ \A i, j \in 1..(k + 1) : i < j => i \in 1..k
                       /\ \A i \in 1..k : i \in 1..(k + 1)
    OBVIOUS
  <2>2. PICK k \in Nat, l \in Nat : k = Len(Pending) /\ l = Len(queue)
    BY <1>1
  <2>3. Len(Pending') = k + 1 /\ Len(queue') = l + 1
    BY <1>1, <2>2
  <2> QED BY <2>1, <2>2, <2>3
<1>3. /\ Left' = 0 /\ ~ Told' /\ Flushed /\ Flushed' /\ Memory(b)' = Memory(b)
      /\ Left' # n + 1 /\ Left' # n /\ Left < n /\ Left <= n
  BY DEF Left, Told, Flushed, Memory
<1>4. FrameRequest(b, n)'
  BY <1>3 DEF FrameRequest
<1>5. FramePending(b)'
  <2>1. FramePending(b)
    BY DEF Drawing
  <2>2. ASSUME NEW i \in 1..Len(Pending')
        PROVE  /\ \/ Pending'[i].op = "create"
                  \/ Pending'[i].rsc = b /\ Pending'[i].op # "attach"
                  \/ Pending'[i].rsc = b /\ Pending'[i].op = "attach" /\ Pending'[i].mem = Memory(b)'
               /\ Pending'[i].op = "flush" => i \in 1..Len(Pending) /\ Pending[i].op = "flush"
    <3>1. CASE i \in 1..Len(Pending)
      BY <1>1, <1>3, <2>1, <3>1 DEF FramePending
    <3>2. CASE i = Len(Pending')
      BY <1>1, <3>2
    <3> QED BY <1>2, <3>1, <3>2
  <2>3. ASSUME NEW i \in 1..Len(Pending'), NEW j \in 1..Len(Pending'), i < j,
               Pending'[j].op = "create", Pending'[j].rsc = b
        PROVE  Pending'[i].op = "create"
    <3>1. j # Len(Pending')
      BY <1>1, <2>3
    <3>2. i \in 1..Len(Pending) /\ j \in 1..Len(Pending)
      BY <1>2, <2>3, <3>1
    <3> QED BY <1>1, <2>1, <2>3, <3>2 DEF FramePending
  <2>4. ASSUME NEW i \in 1..Len(Pending'), NEW j \in 1..Len(Pending'), i < j, Pending'[i].op = "flush"
        PROVE  Pending'[j].op = "create"
    <3>1. CASE j = Len(Pending')
      BY <1>1, <3>1
    <3>2. CASE j \in 1..Len(Pending)
      BY <1>1, <2>1, <2>2, <2>4, <3>2 DEF FramePending
    <3> QED BY <1>2, <3>1, <3>2
  <2> QED BY <1>3, <2>2, <2>3, <2>4 DEF FramePending
<1>6. FrameBacked(b)'
  <2>1. ASSUME NEW i \in 1..Len(Pending'), Pending'[i].op = "transfer"
        PROVE  IF i = 1 THEN backing'[b] = Memory(b)' ELSE Pending'[i-1].op = "attach"
    <3>1. i \in 1..Len(Pending) /\ Pending[i].op = "transfer"
      BY <1>1, <1>2, <2>1
    <3>2. IF i = 1 THEN backing[b] = Memory(b) ELSE Pending[i-1].op = "attach"
      BY <3>1 DEF Drawing, FrameBacked
    <3>3. i # 1 => Pending'[i-1] = Pending[i-1]
      BY <1>1, <1>2, <3>1
    <3> QED BY <1>3, <3>2, <3>3
  <2> QED BY <2>1 DEF FrameBacked
<1>7. FrameShown(b, n)'
  <2>1. FrameShown(b, n)
    BY DEF Drawing
  <2>2. scanout = b \/ \E i \in 1..Len(Pending') : Pending'[i].op = "scanout"
    BY <1>1, <1>3, <2>1 DEF FrameShown
  <2>3. \/ \E i \in 1..Len(Pending') : Pending'[i].op = "transfer"
        \/ host[b] = drawn /\ \A i \in 1..Len(Pending') : Pending'[i].op = "create" => Pending'[i].rsc # b
    <3>1. CASE \E i \in 1..Len(Pending) : Pending[i].op = "transfer"
      BY <1>1, <3>1
    <3>2. CASE host[b] = drawn /\ \A i \in 1..Len(Pending) : Pending[i].op = "create" => Pending[i].rsc # b
      BY <1>1, <1>2, <3>2
    <3> QED BY <1>3, <2>1, <3>1, <3>2 DEF FrameShown
  <2>4. \E i \in 1..Len(queue') : queue'[i].fence = fence_submitted
    BY <1>1, <1>2, <1>3, <2>1 DEF FrameShown
  <2>5. ASSUME NEW i \in 1..Len(queue'), queue'[i].fence # None
        PROVE  FenceLast(i)'
    <3>1. i \in 1..Len(queue) /\ queue[i].fence # None /\ queue'[i] = queue[i]
      BY <1>1, <1>2, <2>5
    <3>2. FenceLast(i)
      BY <2>1, <3>1 DEF FrameShown
    <3>3. ASSUME NEW j \in 1..Len(queue'), i < j
          PROVE  queue'[j].op = "create" /\ queue'[j].fence = None
      <4>1. CASE j \in 1..Len(queue)
        BY <1>1, <3>2, <3>3, <4>1 DEF FenceLast
      <4>2. CASE j = Len(queue')
        BY <1>1, <4>2
      <4> QED BY <1>2, <4>1, <4>2
    <3> QED BY <1>3, <3>1, <3>2, <3>3 DEF FenceLast
  <2>6. write_fence => fence_id = fence_submitted
    BY <1>3, <2>1 DEF FrameShown
  <2> QED BY <1>3, <2>2, <2>3, <2>4, <2>5, <2>6 DEF FrameShown
<1> QED BY <1>3, <1>4, <1>5, <1>6, <1>7 DEF Drawing

\* The creation of a buffer is sent between the frames or while one is shown.
LEMMA SendCreates ==
  ASSUME CompInv, Send, request.op = "create_buffer"
  PROVE  FramesOK'
<1>1. PICK c \in Command :
           /\ c = (IF Head(todo).op = "flush" THEN [Head(todo) EXCEPT !.fence = (fence_submitted + 1) % F]
                   ELSE Head(todo))
           /\ queue' = Append(queue, c) /\ todo # << >> /\ todo' = Tail(todo)
           /\ (Head(todo).op # "flush" => fence_submitted' = fence_submitted)
           /\ UNCHANGED <<done, infoVars, shmVars, request, wire, events, hostVars, clientVars>>
           /\ CompositorTypeOK'
  BY SendFacts
<1>2. c = Cmd("create", request.of) /\ todo' = << >> /\ fence_submitted' = fence_submitted
  <2>1. todo = <<Cmd("create", request.of)>>
    BY <1>1 DEF CompInv, RequestOK
  <2>2. Head(todo) = Cmd("create", request.of) /\ Head(todo).op # "flush" /\ Tail(todo) = << >>
    BY <2>1, ListFacts DEF Cmd
  <2> QED BY <1>1, <2>2
<1>3. c.op = "create" /\ c.fence = None /\ c.rsc = request.of
  BY <1>2 DEF Cmd
<1>4. CompositorTypeOK
  BY DEF CompInv
<1>5. CASE Quiet
  <2>1. Creating'
    BY <1>1, <1>3, <1>4, <1>5, CreatingSent DEF Quiet
  <2>2. Quiet'
    BY <1>1, <1>5, <2>1 DEF Quiet, infoVars
  <2> QED BY <1>1, <1>5, <2>2, QuietStep DEF infoVars
<1>6. CASE waiting /\ Left = 0
  <2>1. PICK b \in Buffer, n \in 1..2 : Framing(b, n)
    BY <1>6 DEF CompInv, FramesOK
  <2>2. FrameSent(b, n)' /\ Left' = 0
    <3>1. FrameSent(b, n) /\ UNCHANGED <<wire, have, pixels, drawn>>
      BY <1>1, <2>1 DEF Framing, clientVars
    <3> QED BY <1>6, <3>1, FrameSentSame
  <2>3. (Told' <=> Told) /\ (b \in have' <=> b \in have) /\ waiting'
    BY <1>1, <1>6, <2>2 DEF Told, infoVars, clientVars
  <2>4. ASSUME ~ Told PROVE Drawing(b, n)'
    <3>1. Drawing(b, n)
      BY <1>6, <2>1, <2>4 DEF Framing
    <3>2. request.of # b
      BY <3>1 DEF Drawing, CompInv, BuffersOK, Creates
    <3> QED BY <1>1, <1>2, <1>3, <1>4, <1>6, <2>4, <3>1, <3>2, CreateSentLate
  <2>5. ASSUME Told PROVE OnScreen(b)'
    <3>1. OnScreen(b)
      BY <2>1, <2>5 DEF Framing
    <3>2. Creating'
      BY <1>1, <1>3, <1>4, <3>1, CreatingSent DEF OnScreen
    <3> QED BY <1>1, <3>1, <3>2 DEF OnScreen, infoVars, hostVars, clientVars
  <2>6. ~ (Left' > n + 2) /\ Left' # n + 2
    BY <2>2
  <2>7. Framing(b, n)'
    BY <2>1, <2>2, <2>3, <2>4, <2>5, <2>6 DEF Framing
  <2> QED BY <2>3, <2>7 DEF FramesOK
<1> QED BY <1>5, <1>6, CreatesWhen

\* What is sent for a frame.
LEMMA SendFrame ==
  ASSUME CompInv, Send, request.op # "create_buffer"
  PROVE  FramesOK'
<1>1. PICK c \in Command :
           /\ c = (IF Head(todo).op = "flush" THEN [Head(todo) EXCEPT !.fence = (fence_submitted + 1) % F]
                   ELSE Head(todo))
           /\ queue' = Append(queue, c) /\ todo # << >> /\ todo' = Tail(todo)
           /\ (Head(todo).op = "flush" => fence_submitted' = (fence_submitted + 1) % F)
           /\ UNCHANGED <<done, mapped, infoVars, shmVars, request, wire, events, hostVars, clientVars>>
           /\ CompositorTypeOK'
           /\ request.op \in {"create_buffer", "attach", "damage", "commit"} /\ request # NoRequest
  BY SendFacts
<1>2. Left \in Nat /\ Left' = Left
  BY <1>1, LeftFacts DEF CompInv, Left
<1>3. waiting
  BY <1>1 DEF CompInv, FramesOK, Between, Quiet
<1>4. PICK b \in Buffer, n \in 1..2 : Framing(b, n)
  BY <1>3 DEF CompInv, FramesOK
<1>5. ~ Told /\ ~ Told' /\ ~ (Left > n + 2) /\ ~ (Left = n + 2)
  BY <1>1, <1>4 DEF Framing, Quiet, Told
<1>6. Left <= n + 1
  <2>1. \A x \in Nat, k \in 1..2 : ~ (x > k + 2) /\ ~ (x = k + 2) => x <= k + 1
    OBVIOUS
  <2> QED BY <1>2, <1>5, <2>1
<1>7. Drawing(b, n)
  BY <1>4, <1>5, <1>6 DEF Framing
<1>8. UNCHANGED <<mapped, hostVars, backing, scanout, host, screen, wire, request, busy, events, callbacks, buffer, write_fence,
                  drawn, shm, wl_buffer, waiting, have, pixels, fence_id>>
  BY <1>1 DEF hostVars, infoVars, shmVars, clientVars
<1>9. ~ Flushed /\ (Flushed' <=> request.op = "commit" /\ todo' = << >>) /\ Memory(b)' = Memory(b)
  <2>1. (request.op # "commit" => Left # 0) /\ (request.op = "commit" => Left = 0)
    BY <1>1, <1>7 DEF Drawing, FrameRequest
  <2> QED BY <1>1, <1>2, <1>5, <1>8, <2>1 DEF Flushed, Memory
<1>10. ASSUME c.rsc = b, c.op # "create",
              c.op = "attach" => c.mem = Memory(b),
              c.op = "transfer" => Head(todo).op = "transfer",
              c.op = "flush" \/ c.fence # None => Flushed',
              todo' # << >> /\ Head(todo').op = "transfer" => c.op = "attach",
              FrameRequest(b, n)',
              Left = n + 1 /\ todo' = << >> => c.op = "scanout",
              Left = n /\ Len(todo') <= 1 => c.op = "transfer" \/ Len(todo) <= 1,
              Flushed' => c.op = "flush" /\ c.fence = fence_submitted'
       PROVE  Drawing(b, n)'
  <2>1. /\ FramePending(b)' /\ FrameBacked(b)'
        /\ Len(queue') \in 1..Len(queue') /\ queue'[Len(queue')] = c /\ done' < Len(queue')
        /\ \A i \in 1..Len(queue') : queue'[i].fence # None => i = Len(queue') /\ Flushed'
        /\ \A i \in 1..Len(Pending') :
              Pending'[i].op = "create" => i \in 1..Len(Pending) /\ Pending'[i] = Pending[i]
        /\ \A op : (\E i \in 1..Len(Pending') : Pending'[i].op = op) <=>
                      c.op = op \/ \E i \in 1..Len(Pending) : Pending[i].op = op
    BY <1>1, <1>7, <1>8, <1>9, <1>10, SendDraws
  <2>2. Left <= n \/ (Left = n + 1 /\ todo' = << >>) =>
           scanout = b \/ \E i \in 1..Len(Pending') : Pending'[i].op = "scanout"
    BY <1>7, <1>10, <2>1 DEF Drawing, FrameShown
  <2>3. Left < n \/ (Left = n /\ Len(todo') <= 1) =>
           \/ \E i \in 1..Len(Pending') : Pending'[i].op = "transfer"
           \/ host[b] = drawn /\ \A i \in 1..Len(Pending') : Pending'[i].op = "create" => Pending'[i].rsc # b
    <3>1. Left < n \/ (Left = n /\ Len(todo) <= 1) =>
           \/ \E i \in 1..Len(Pending) : Pending[i].op = "transfer"
           \/ host[b] = drawn /\ \A i \in 1..Len(Pending) : Pending[i].op = "create" => Pending[i].rsc # b
      BY <1>7 DEF Drawing, FrameShown
    <3>2. CASE c.op = "transfer" \/ \E i \in 1..Len(Pending) : Pending[i].op = "transfer"
      BY <2>1, <3>2
    <3>3. CASE host[b] = drawn /\ \A i \in 1..Len(Pending) : Pending[i].op = "create" => Pending[i].rsc # b
      BY <2>1, <3>3
    <3> QED BY <1>10, <3>1, <3>2, <3>3
  <2>4. ~ write_fence
    BY <1>1, <1>7 DEF Drawing, FrameRequest
  <2>5. ASSUME NEW i \in 1..Len(queue'), queue'[i].fence # None
        PROVE  FenceLast(i)'
    <3>1. i = Len(queue') /\ Flushed' /\ queue'[i] = c
      BY <2>1, <2>5
    <3>2. ~ (i <= done') /\ \A j \in 1..Len(queue') : ~ (i < j)
      <4>1. done' \in 0..Len(queue')
        BY <1>1 DEF CompositorTypeOK
      <4> QED BY <2>1, <3>1, <4>1
    <3> QED BY <1>10, <3>1, <3>2 DEF FenceLast
  <2>6. FrameShown(b, n)'
    BY <1>2, <1>8, <1>10, <2>1, <2>2, <2>3, <2>4, <2>5 DEF FrameShown
  <2> QED BY <1>2, <1>7, <1>8, <1>10, <2>1, <2>6 DEF Drawing
<1>11. Drawing(b, n)'
  <2>1. CASE request.op = "attach"
    <3>1. Left = n + 1 /\ request.arg = b /\ todo = <<Cmd("scanout", b)>>
      BY <1>1, <1>7, <2>1 DEF Drawing, FrameRequest
    <3>2. Head(todo) = Cmd("scanout", b) /\ todo' = << >>
      BY <1>1, <3>1, ListFacts
    <3>3. c = Cmd("scanout", b)
      BY <1>1, <3>2 DEF Cmd
    <3>4. c.rsc = b /\ c.op = "scanout" /\ c.fence = None
      BY <3>3 DEF Cmd
    <3>5. Left # 0 /\ Left # n
      BY <1>2, <3>1
    <3>6. FrameRequest(b, n)'
      BY <1>2, <1>8, <2>1, <3>1, <3>2 DEF FrameRequest
    <3> QED BY <1>9, <1>10, <2>1, <3>2, <3>4, <3>5, <3>6
  <2>2. CASE request.op = "damage"
    <3>1. /\ Left \in 1..n
          /\ \/ todo = <<Cmd("detach", b)>>
             \/ todo = <<Cmd("transfer", b), Cmd("detach", b)>>
             \/ todo = <<Attach(b, Memory(b)), Cmd("transfer", b), Cmd("detach", b)>>
      BY <1>1, <1>7, <2>2 DEF Drawing, FrameRequest
    <3>2. Left # 0 /\ Left # n + 1 /\ ~ Flushed'
      BY <1>2, <1>9, <2>2, <3>1
    <3>3. CASE todo = <<Cmd("detach", b)>>
      <4>1. Head(todo) = Cmd("detach", b) /\ todo' = << >> /\ Len(todo) <= 1
        BY <1>1, <3>3, ListFacts
      <4>2. c = Cmd("detach", b)
        BY <1>1, <4>1 DEF Cmd
      <4>3. c.rsc = b /\ c.op = "detach" /\ c.fence = None /\ c.mem = None
        BY <4>2 DEF Cmd
      <4>4. FrameRequest(b, n)'
        BY <1>2, <1>8, <1>9, <2>2, <3>1, <4>1 DEF FrameRequest
      <4> QED BY <1>10, <3>2, <4>1, <4>3, <4>4
    <3>4. CASE todo = <<Cmd("transfer", b), Cmd("detach", b)>>
      <4>1. Head(todo) = Cmd("transfer", b) /\ todo' = <<Cmd("detach", b)>> /\ Head(todo') = Cmd("detach", b)
        BY <1>1, <3>4, ListFacts
      <4>2. c = Cmd("transfer", b)
        BY <1>1, <4>1 DEF Cmd
      <4>3. c.rsc = b /\ c.op = "transfer" /\ c.fence = None /\ Head(todo).op = "transfer" /\ Head(todo').op # "transfer"
        BY <4>1, <4>2 DEF Cmd
      <4>4. FrameRequest(b, n)'
        BY <1>2, <1>8, <1>9, <2>2, <3>1, <4>1 DEF FrameRequest
      <4> QED BY <1>10, <3>2, <4>3, <4>4
    <3>5. CASE todo = <<Attach(b, Memory(b)), Cmd("transfer", b), Cmd("detach", b)>>
      <4>1. /\ Head(todo) = Attach(b, Memory(b))
            /\ todo' = <<Cmd("transfer", b), Cmd("detach", b)>> /\ Len(todo') = 2
        BY <1>1, <3>5, ListFacts
      <4>2. c = Attach(b, Memory(b))
        BY <1>1, <4>1 DEF Attach, Cmd
      <4>3. c.rsc = b /\ c.op = "attach" /\ c.fence = None /\ c.mem = Memory(b)
        BY <4>2 DEF Attach, Cmd
      <4>4. FrameRequest(b, n)'
        BY <1>2, <1>8, <1>9, <2>2, <3>1, <4>1 DEF FrameRequest
      <4>5. ~ (Len(todo') <= 1) /\ todo' # << >>
        BY <4>1, ListFacts
      <4> QED BY <1>10, <3>2, <4>3, <4>4, <4>5
    <3> QED BY <3>1, <3>3, <3>4, <3>5
  <2>3. CASE request.op = "commit"
    <3>1. Left = 0 /\ todo = <<Cmd("flush", b)>>
      BY <1>1, <1>7, <2>3 DEF Drawing, FrameRequest
    <3>2. Head(todo) = Cmd("flush", b) /\ Head(todo).op = "flush" /\ todo' = << >>
      BY <1>1, <3>1, ListFacts DEF Cmd
    <3>3. c = [Cmd("flush", b) EXCEPT !.fence = fence_submitted']
      BY <1>1, <3>2
    <3>4. c.rsc = b /\ c.op = "flush" /\ c.fence = fence_submitted'
      BY <3>3 DEF Cmd
    <3>5. Flushed' /\ Left # n + 1 /\ Left # n
      BY <1>2, <1>9, <2>3, <3>1, <3>2
    <3>6. FrameRequest(b, n)'
      BY <1>2, <1>8, <2>3, <3>1, <3>2 DEF FrameRequest
    <3> QED BY <1>10, <3>2, <3>4, <3>5, <3>6
  <2> QED BY <1>1, <2>1, <2>2, <2>3
<1>12. FrameSent(b, n)'
  <2>1. FrameSent(b, n)
    BY <1>4 DEF Framing
  <2> QED BY <1>8, <2>1, FrameSentSame
<1>13. Framing(b, n)'
  <2>1. b \in have'
    BY <1>4, <1>5, <1>8 DEF Framing
  <2> QED BY <1>2, <1>5, <1>11, <1>12, <2>1 DEF Framing
<1> QED BY <1>3, <1>8, <1>13 DEF FramesOK

\* A command is sent.
LEMMA SendStep ==
  ASSUME CompInv, Send
  PROVE  CompInv'
<1>1. CompositorTypeOK' /\ WindowOK' /\ PoolsOK' /\ BuffersOK' /\ MemoryOK' /\ RequestOK'
  BY SendFacts
<1>2. FramesOK'
  BY SendCreates, SendFrame
<1> QED BY <1>1, <1>2 DEF CompInv

-----------------------------------------------------------------------------
(* Polling the gpu.                                                        *)

\* A frame whose requests the compositor is handling, unless it is between
\* frames or the frame is on the screen.
LEMMA QuietOrDraws ==
  ASSUME CompInv, ~ Quiet
  PROVE  /\ waiting
         /\ \E b \in Buffer, n \in 1..2 :
              /\ Framing(b, n) /\ Left <= n + 1
              /\ (Told /\ OnScreen(b)) \/ (~ Told /\ Drawing(b, n) /\ b \in have)
<1>1. waiting
  BY DEF CompInv, FramesOK, Between
<1>2. PICK b \in Buffer, n \in 1..2 : Framing(b, n)
  BY <1>1 DEF CompInv, FramesOK
<1>3. ~ (Left > n + 2) /\ ~ (Left = n + 2)
  BY <1>2 DEF Framing
<1>4. Left <= n + 1
  <2>1. \A x \in Nat, k \in 1..2 : ~ (x > k + 2) /\ ~ (x = k + 2) => x <= k + 1
    OBVIOUS
  <2> QED BY <1>3, <2>1, LeftFacts DEF CompInv
<1> QED BY <1>1, <1>2, <1>3, <1>4 DEF Framing

\* What the client is told when the last commit's fence is seen.
LEMMA EventsFacts ==
  ASSUME NEW b, NEW d, buffer = b, callbacks = <<d>>, callbacks \in Seq(Frame), events = << >>
  PROVE  events \o write_fence_Events = <<Msg("release", b, None), Msg("done", d, None)>>
<1>1. DOMAIN callbacks = 1..1 /\ callbacks[1] = d
  <2>1. Len(callbacks) = 1 /\ callbacks[1] = d
    BY ListFacts
  <2> QED BY <2>1, LenProperties
<1>2. [i \in DOMAIN callbacks |-> Msg("done", callbacks[i], None)] = <<Msg("done", d, None)>>
  BY <1>1
<1>3. ASSUME NEW x, NEW y
      PROVE  << >> \o (<<x>> \o <<y>>) = <<x, y>>
  <2>1. PICK S : S = {x, y}
    OBVIOUS
  <2>2. <<x>> \in Seq(S) /\ <<x, y>> \in Seq(S) /\ y \in S
    <3>1. \A T : \A u, v \in T : <<u>> \in Seq(T) /\ <<u, v>> \in Seq(T)
      OBVIOUS
    <3> QED BY <2>1, <3>1
  <2>3. <<x>> \o <<y>> = Append(<<x>>, y)
    BY <2>2, AppendIsConcat
  <2>4. Append(<<x>>, y) = <<x, y>>
    <3>1. Len(<<x>>) = 1 /\ Len(<<x, y>>) = 2
      BY ListFacts
    <3>2. <<x>>[1] = x /\ <<x, y>>[1] = x /\ <<x, y>>[2] = y
      OBVIOUS
    <3>3. /\ Append(<<x>>, y) \in Seq(S) /\ Len(Append(<<x>>, y)) = 2
          /\ Append(<<x>>, y)[1] = x /\ Append(<<x>>, y)[2] = y
      <4>1. PICK s \in Seq(S) : s = <<x>>
        BY <2>2
      <4>2. /\ Append(s, y) \in Seq(S) /\ Len(Append(s, y)) = Len(s) + 1
            /\ (\A i \in 1..Len(s) : Append(s, y)[i] = s[i]) /\ Append(s, y)[Len(s) + 1] = y
        BY <2>2, AppendProperties
      <4>3. Len(s) = 1 /\ s[1] = x
        BY <3>1, <3>2, <4>1
      <4>4. /\ Append(s, y) \in Seq(S) /\ Len(Append(s, y)) = 2
            /\ Append(s, y)[1] = x /\ Append(s, y)[2] = y
        BY <4>2, <4>3
      <4> QED BY <4>1, <4>4
    <3>4. \A i \in 1..2 : i = 1 \/ i = 2
      OBVIOUS
    <3>5. PICK t, u : t = Append(<<x>>, y) /\ u = <<x, y>>
      OBVIOUS
    <3>6. t \in Seq(S) /\ u \in Seq(S) /\ Len(t) = Len(u) /\ \A i \in 1..Len(t) : t[i] = u[i]
      BY <2>2, <3>1, <3>2, <3>3, <3>4, <3>5
    <3> QED BY <3>5, <3>6, SeqEqual
  <2>5. << >> \o <<x, y>> = <<x, y>>
    BY <2>2, ConcatEmptySeq
  <2> QED BY <2>3, <2>4, <2>5
<1> QED BY <1>2, <1>3 DEF write_fence_Events

\* No fence of a commit is among the completed commands.
Unseen == ~ (write_fence /\ \E i \in 1..done : queue[i].fence = fence_id)

\* The poll that frees commands and sees no fence changes nothing of a frame.
LEMMA PollUnseen ==
  ASSUME CompInv, CompositorTypeOK', Polls, Unseen, todo # << >> \/ request = NoRequest
  PROVE  FramesOK'
<1> USE DEF Polls, Unseen, infoVars, shmVars, gpuVars, hostVars, clientVars
<1>1. queue' = Pending /\ Pending' = Pending /\ UNCHANGED <<events, buffer, callbacks, write_fence>>
  BY PendingPolled DEF CompInv
<1>2. /\ Len(Pending) = Len(queue) - done /\ Len(queue) \in Nat /\ done \in 0..Len(queue)
      /\ \A i \in 1..Len(Pending) : done + i \in 1..Len(queue) /\ Pending[i] = queue[done + i]
      /\ Pending = << >> <=> done = Len(queue)
  BY PendingFacts DEF CompInv
<1>3. Creating => Creating'
  BY <1>1, <1>2 DEF Creating
<1>4. CASE Quiet
  <2>1. Quiet'
    BY <1>1, <1>3, <1>4 DEF Quiet
  <2> QED BY <1>1, <1>4, <2>1, QuietStep
<1>5. CASE ~ Quiet
  <2>1. PICK b \in Buffer, n \in 1..2 :
              /\ waiting /\ Framing(b, n) /\ Left <= n + 1
              /\ (Told /\ OnScreen(b)) \/ (~ Told /\ Drawing(b, n) /\ b \in have)
    BY <1>5, QuietOrDraws
  <2>2. FrameSent(b, n)' /\ Left' = Left /\ Left \in Nat
    BY <2>1, LeftFacts, FrameSentSame DEF Framing, CompInv
  <2>3. (Told' <=> Told) /\ (Flushed' <=> Flushed) /\ Memory(b)' = Memory(b)
    BY <1>1, <2>2 DEF Told, Flushed, Memory
  <2>4. ~ (Left' > n + 2) /\ ~ (Left' = n + 2)
    <3>1. \A x \in Nat, k \in 1..2 : x <= k + 1 => ~ (x > k + 2) /\ ~ (x = k + 2)
      OBVIOUS
    <3> QED BY <2>1, <2>2, <3>1
  <2>5. CASE Told
    <3>1. OnScreen(b)'
      BY <1>1, <1>3, <2>1, <2>5 DEF OnScreen
    <3>2. Framing(b, n)'
      BY <2>2, <2>3, <2>4, <2>5, <3>1 DEF Framing
    <3> QED BY <2>1, <3>2 DEF FramesOK
  <2>6. CASE ~ Told
    <3>1. Drawing(b, n) /\ b \in have'
      BY <2>1, <2>6
    <3>2. FrameRequest(b, n)'
      BY <2>2, <2>3, <3>1 DEF Drawing, FrameRequest
    <3>3. FramePending(b)'
      BY <1>1, <2>3, <3>1 DEF Drawing, FramePending
    <3>4. FrameBacked(b)'
      BY <1>1, <2>3, <3>1 DEF Drawing, FrameBacked
    <3>5. ASSUME Flushed
          PROVE  \E i \in 1..Len(queue') : queue'[i].fence = fence_submitted
      <4>1. PICK i \in 1..Len(queue) : queue[i].fence = fence_submitted
        BY <3>1, <3>5 DEF Drawing, FrameShown
      <4>2. request.op # "commit"
        BY <3>5 DEF Flushed, NoRequest, Msg
      <4>3. write_fence /\ fence_id = fence_submitted
        BY <3>1, <3>5, <4>2 DEF Drawing, FrameShown, Flushed
      <4>4. i \notin 1..done
        BY <4>1, <4>3
      <4>5. i - done \in 1..Len(Pending) /\ done + (i - done) = i
        BY <1>2, <4>4
      <4> QED BY <1>1, <1>2, <4>1, <4>5
    <3>6. ASSUME NEW i \in 1..Len(queue'), queue'[i].fence # None
          PROVE  FenceLast(i)'
      <4>1. done + i \in 1..Len(queue) /\ queue'[i] = queue[done + i]
        BY <1>1, <1>2
      <4>2. FenceLast(done + i)
        BY <3>1, <3>6, <4>1 DEF Drawing, FrameShown
      <4>3. ~ (i <= done')
        BY <1>1, <1>2
      <4>4. ASSUME NEW j \in 1..Len(queue'), i < j
            PROVE  queue'[j].op = "create" /\ queue'[j].fence = None
        <5>1. done + j \in 1..Len(queue) /\ queue'[j] = queue[done + j]
          BY <1>1, <1>2
        <5>2. done + i < done + j
          BY <1>2, <4>4
        <5> QED BY <4>2, <5>1, <5>2 DEF FenceLast
      <4> QED BY <2>3, <4>1, <4>2, <4>3, <4>4 DEF FenceLast
    <3>7. FrameShown(b, n)'
      BY <1>1, <2>2, <2>3, <3>1, <3>5, <3>6 DEF Drawing, FrameShown
    <3>8. Drawing(b, n)'
      BY <1>1, <2>2, <3>1, <3>2, <3>3, <3>4, <3>7 DEF Drawing
    <3>9. Framing(b, n)'
      BY <2>2, <2>3, <2>4, <2>6, <3>1, <3>8 DEF Framing
    <3> QED BY <2>1, <3>9 DEF FramesOK
  <2> QED BY <2>5, <2>6
<1> QED BY <1>4, <1>5

\* The fence of the commit is seen once its frame is on the screen, by the loop or
\* by the handler that creates a buffer.
LEMMA PollSeen ==
  ASSUME CompInv, CompositorTypeOK, Polls, ~ Unseen
  PROVE  /\ FramesOK' /\ buffer' = None /\ callbacks' = << >> /\ write_fence' = FALSE
         /\ events' \in Seq(Message)
<1> USE DEF Polls, Unseen, infoVars, shmVars, gpuVars, hostVars, clientVars
<1>1. /\ events' = events \o write_fence_Events
      /\ buffer' = None /\ callbacks' = << >> /\ write_fence' = FALSE /\ queue' = Pending /\ done' = 0
  BY DEF Pending
<1>2. /\ Len(Pending) = Len(queue) - done /\ Len(queue) \in Nat /\ done \in 0..Len(queue)
      /\ \A i \in 1..Len(Pending) : done + i \in 1..Len(queue) /\ Pending[i] = queue[done + i]
      /\ Pending \in Seq(Command)
  BY PendingFacts
<1>3. write_fence /\ ~ Told /\ ~ Quiet
  BY DEF Told, Quiet
<1>4. PICK b \in Buffer, n \in 1..2 :
            waiting /\ Framing(b, n) /\ Left <= n + 1 /\ Drawing(b, n) /\ b \in have
  BY <1>3, QuietOrDraws
<1>5. Left = 0 /\ request.op \in {"done", "create_buffer"} /\ Flushed /\ fence_id = fence_submitted
  <2>1. Left = 0 /\ request.op # "commit"
    BY <1>3, <1>4 DEF Drawing
  <2>2. request.op \in {"done", "create_buffer"}
    BY <1>4, <2>1 DEF Drawing, FrameRequest
  <2>3. Flushed
    BY <1>3, <2>1 DEF Flushed
  <2> QED BY <1>3, <1>4, <2>1, <2>2, <2>3 DEF Drawing, FrameShown
<1>6. PICK i \in 1..done : queue[i].fence = fence_id
  OBVIOUS
<1>7. FenceLast(i) /\ i \in 1..Len(queue)
  <2>1. i \in 1..Len(queue) /\ fence_id # None
    BY <1>2, CompositorAssumption DEF CompositorTypeOK
  <2> QED BY <1>4, <1>6, <2>1 DEF Drawing, FrameShown
<1>8. screen = drawn
  BY <1>2, <1>7 DEF FenceLast
<1>9. \A j \in 1..Len(Pending) : Pending[j].op = "create" /\ Pending[j].fence = None
  <2>1. ASSUME NEW j \in 1..Len(Pending)
        PROVE  done + j \in 1..Len(queue) /\ Pending[j] = queue[done + j] /\ i < done + j
    BY <1>2
  <2> QED BY <1>7, <2>1 DEF FenceLast
<1>10. Creating'
  <2>1. Pending' = Pending
    <3>1. Pending' = SubSeq(Pending, 1, Len(Pending))
      BY <1>1 DEF Pending
    <3> QED BY <1>2, <3>1, SubSeqFull
  <2> QED BY <1>1, <1>9, <2>1 DEF Creating
<1>11. buffer = b /\ callbacks = <<drawn>> /\ busy = {b} /\ events = << >>
  BY <1>4, <1>5 DEF Drawing
<1>12. events' = <<Msg("release", b, None), Msg("done", drawn, None)>>
  BY <1>1, <1>11, EventsFacts DEF CompositorTypeOK
<1>13. events' \in Seq(Message)
  <2>1. drawn \in Frame
    BY DEF CompositorTypeOK
  <2>2. Msg("release", b, None) \in Message /\ Msg("done", drawn, None) \in Message
    BY <2>1 DEF Msg, Message
  <2> QED BY <1>12, <2>2
<1>14. FrameSent(b, n)' /\ Left' = 0
  BY <1>4, <1>5, FrameSentSame DEF Framing
<1>15. Told' /\ OnScreen(b)'
  BY <1>1, <1>5, <1>8, <1>10, <1>11, <1>12, <1>14 DEF Told, OnScreen
<1>16. ~ (Left' > n + 2) /\ ~ (Left' = n + 2)
  BY <1>14
<1>17. Framing(b, n)'
  BY <1>14, <1>15, <1>16 DEF Framing
<1> QED BY <1>1, <1>4, <1>13, <1>17 DEF FramesOK

\* virtio_gpu_poll, wherever it is called.
LEMMA PollStep ==
  ASSUME CompInv, PollInHandler \/ PollInLoop
  PROVE  CompInv'
<1> USE DEF infoVars, shmVars, gpuVars, hostVars, clientVars
<1>1. Polls /\ (todo # << >> \/ request = NoRequest)
  BY DEF PollInHandler, PollInLoop
<1>2. /\ queue' = Pending /\ done' = 0
      /\ UNCHANGED <<surface, fence_id, shmVars, fence_submitted, request, todo,
                     wire, hostVars, clientVars>>
      /\ Unseen => UNCHANGED <<events, buffer, callbacks, write_fence>>
  BY <1>1 DEF Polls, Pending, Unseen
<1>3. Pending \in Seq(Command) /\ 0 \in 0..Len(Pending)
  <2>1. Pending \in Seq(Command)
    BY PendingFacts DEF CompInv
  <2> QED BY <2>1, LenProperties
<1>4. CompositorTypeOK'
  <2>1. CASE Unseen
    BY <1>2, <1>3, <2>1 DEF CompInv, CompositorTypeOK
  <2>2. CASE ~ Unseen
    <3>1. buffer' = None /\ callbacks' = << >> /\ write_fence' = FALSE /\ events' \in Seq(Message)
      BY <1>1, <2>2, PollSeen DEF CompInv
    <3>2. callbacks' \in Seq(Frame)
      BY <3>1
    <3> QED BY <1>2, <1>3, <3>1, <3>2 DEF CompInv, CompositorTypeOK
  <2> QED BY <2>1, <2>2
<1>5. WindowOK' /\ PoolsOK' /\ BuffersOK'
  <2>1. SameComes
    BY <1>2 DEF SameComes, NothingComes
  <2>2. UNCHANGED <<surface, have, wl_shm_pool, wl_buffer, request>>
    BY <1>2
  <2> QED BY <2>1, <2>2, KnownSame
<1>6. MemoryOK' /\ RequestOK'
  BY <1>2, MemorySame DEF CompInv, RequestOK
<1>7. FramesOK'
  BY <1>1, <1>4, PollUnseen, PollSeen DEF CompInv
<1> QED BY <1>4, <1>5, <1>6, <1>7 DEF CompInv

-----------------------------------------------------------------------------
(* The device.                                                             *)

\* What the device does with each command.
LEMMA DeviceEffect ==
  ASSUME CompInv, Device, NEW c \in Command, c = queue[done + 1]
  PROVE  /\ c.rsc = None => UNCHANGED hostVars
         /\ c.rsc # None /\ c.op = "create" =>
              /\ host' = [host EXCEPT ![c.rsc] = None] /\ backing' = [backing EXCEPT ![c.rsc] = None]
              /\ UNCHANGED <<scanout, screen>>
         /\ c.rsc # None /\ c.op = "attach" =>
              /\ backing' = [backing EXCEPT ![c.rsc] = c.mem] \/ (c.mem \notin mapped /\ backing' = backing)
              /\ UNCHANGED <<host, scanout, screen>>
         /\ c.rsc # None /\ c.op = "detach" =>
              backing' = [backing EXCEPT ![c.rsc] = None] /\ UNCHANGED <<host, scanout, screen>>
         /\ c.rsc # None /\ c.op = "scanout" => scanout' = c.rsc /\ UNCHANGED <<backing, host, screen>>
         /\ c.rsc # None /\ c.op = "transfer" =>
              /\ \/ host' = [host EXCEPT ![c.rsc] = pixels[c.rsc]]
                 \/ (backing[c.rsc] \notin mapped \/ backing[c.rsc] = None) /\ host' = host
              /\ UNCHANGED <<backing, scanout, screen>>
         /\ c.rsc # None /\ c.op = "flush" =>
              /\ screen' = (IF scanout = c.rsc THEN host[c.rsc] ELSE screen)
              /\ UNCHANGED <<backing, host, scanout>>
<1>1. CASE c.rsc = None
  <2>1. queue[done + 1].rsc = None
    BY <1>1
  <2>2. UNCHANGED hostVars
    BY <2>1 DEF Device
  <2> QED BY <1>1, <2>2
<1>2. CASE c.rsc # None /\ c.op = "create"
  BY <1>2 DEF Device
<1>3. CASE c.rsc # None /\ c.op \in {"attach", "detach"}
  <2>1. c.rsc \in Buffer /\ backing \in [Buffer -> Region \cup {None}]
    BY <1>3 DEF Command, CompInv, CompositorTypeOK
  <2>2. [backing EXCEPT ![c.rsc] = backing[c.rsc]] = backing
    BY <2>1
  <2> QED BY <1>3, <2>2 DEF Device, Reads
<1>4. CASE c.rsc # None /\ c.op = "scanout"
  BY <1>4 DEF Device
<1>5. CASE c.rsc # None /\ c.op = "transfer"
  <2>1. c.rsc \in Buffer /\ host \in [Buffer -> Frame \cup {None}]
    BY <1>5 DEF Command, CompInv, CompositorTypeOK
  <2>2. [host EXCEPT ![c.rsc] = host[c.rsc]] = host
    BY <2>1
  <2> QED BY <1>5, <2>2 DEF Device, Reads
<1>6. CASE c.rsc # None /\ c.op = "flush"
  BY <1>6 DEF Device
<1> QED BY <1>1, <1>2, <1>3, <1>4, <1>5, <1>6 DEF Command

\* Its state keeps its type.
LEMMA DeviceType ==
  ASSUME CompInv, Device
  PROVE  CompositorTypeOK'
<1>1. done < Len(queue) /\ done' = done + 1 /\ done \in Nat /\ Len(queue) \in Nat
      /\ UNCHANGED <<infoVars, shmVars, queue, fence_submitted, request, todo, wire, events, clientVars>>
  <2>1. done < Len(queue) /\ done' = done + 1
        /\ UNCHANGED <<infoVars, shmVars, queue, fence_submitted, request, todo, wire, events, clientVars>>
    BY DEF Device
  <2>2. done \in 0..Len(queue) /\ Len(queue) \in Nat
    BY PendingFacts DEF CompInv
  <2> QED BY <2>1, <2>2
<1>2. PICK c \in Command : c = queue[done + 1]
  <2>1. done + 1 \in 1..Len(queue)
    BY <1>1
  <2> QED BY <2>1, PendingFacts DEF CompInv
<1>3. c.rsc \in Buffer \cup {None} /\ c.mem \in Region \cup {None}
      /\ c.op \in {"create", "scanout", "attach", "transfer", "detach", "flush"}
  BY DEF Command
<1>4. /\ backing \in [Buffer -> Region \cup {None}] /\ host \in [Buffer -> Frame \cup {None}]
      /\ scanout \in Buffer \cup {None} /\ screen \in Frame \cup {None} /\ pixels \in [Buffer -> Frame]
  BY DEF CompInv, CompositorTypeOK
<1>5. /\ backing' \in [Buffer -> Region \cup {None}] /\ host' \in [Buffer -> Frame \cup {None}]
      /\ scanout' \in Buffer \cup {None} /\ screen' \in Frame \cup {None}
  <2>1. CASE c.rsc = None
    BY <1>2, <1>4, <2>1, DeviceEffect DEF hostVars
  <2>2. CASE c.rsc # None /\ c.op = "create"
    BY <1>2, <1>3, <1>4, <2>2, DeviceEffect
  <2>3. CASE c.rsc # None /\ c.op = "attach"
    BY <1>2, <1>3, <1>4, <2>3, DeviceEffect
  <2>7. CASE c.rsc # None /\ c.op = "detach"
    BY <1>2, <1>3, <1>4, <2>7, DeviceEffect
  <2>4. CASE c.rsc # None /\ c.op = "scanout"
    BY <1>2, <1>3, <1>4, <2>4, DeviceEffect
  <2>5. CASE c.rsc # None /\ c.op = "transfer"
    BY <1>2, <1>3, <1>4, <2>5, DeviceEffect
  <2>6. CASE c.rsc # None /\ c.op = "flush"
    BY <1>2, <1>3, <1>4, <2>6, DeviceEffect
  <2> QED BY <1>3, <2>1, <2>2, <2>3, <2>4, <2>5, <2>6, <2>7
<1>6. done' \in 0..Len(queue)
  BY <1>1
<1> QED BY <1>1, <1>5, <1>6 DEF CompInv, CompositorTypeOK, infoVars, shmVars, clientVars

\* A command of the frame is executed.
LEMMA DeviceDraws ==
  ASSUME CompInv, Device, NEW b \in Buffer, NEW n \in 1..2, Framing(b, n), Drawing(b, n)
  PROVE  Drawing(b, n)'
<1>1. /\ done < Len(queue) /\ done' = done + 1 /\ queue' = queue
      /\ UNCHANGED <<infoVars, shmVars, queue, fence_submitted, request, todo, wire, events, clientVars>>
  BY DEF Device
<1>2. CompositorTypeOK'
  BY DeviceType
<1>3. /\ Len(Pending') = Len(Pending) - 1 /\ Len(Pending) \in Nat \ {0}
      /\ \A i \in 1..Len(Pending') : i + 1 \in 1..Len(Pending) /\ Pending'[i] = Pending[i+1]
      /\ 1 \in 1..Len(Pending) /\ Pending[1] = queue[done + 1] /\ Pending[1] \in Command
      /\ Pending # << >>
  BY <1>1, <1>2, PendingExecuted DEF CompInv
<1>4. PICK c \in Command : c = queue[done + 1] /\ c = Pending[1]
  BY <1>3
<1>5. PICK k \in Nat : Len(Pending) = k + 1 /\ Len(Pending') = k
  <2>1. Len(Pending) - 1 \in Nat /\ Len(Pending) = (Len(Pending) - 1) + 1
    BY <1>3
  <2> QED BY <1>3, <2>1
<1>6. /\ \A i \in 1..k : i \in 1..(k + 1) /\ i + 1 \in 1..(k + 1) /\ i + 1 # 1
      /\ \A i \in 1..(k + 1) : i = 1 \/ (i - 1 \in 1..k /\ (i - 1) + 1 = i)
      /\ \A i \in 1..k : (i + 1) - 1 = i
      /\ \A i, j \in 1..k : i < j => i + 1 < j + 1
      /\ \A i \in 1..k : i + 1 = k + 1 => i = k
      /\ \A j \in 1..k : 1 < j + 1
      /\ (k # 0 => k \in 1..k)
  OBVIOUS
<1>7. \A i \in 1..k : Pending'[i] = Pending[i+1]
  BY <1>3, <1>5
<1>8. \A op : (\E i \in 1..(k + 1) : Pending[i].op = op) =>
                c.op = op \/ \E i \in 1..k : Pending'[i].op = op
  <2>1. ASSUME NEW op, NEW i \in 1..(k + 1), Pending[i].op = op, i # 1
        PROVE  \E j \in 1..k : Pending'[j].op = op
    <3>1. i - 1 \in 1..k /\ (i - 1) + 1 = i
      BY <1>6, <2>1
    <3>2. Pending'[i - 1] = Pending[i]
      BY <1>7, <3>1
    <3> QED BY <2>1, <3>1, <3>2
  <2> QED BY <1>4, <2>1
<1>9. /\ \/ c.op = "create"
         \/ c.rsc = b /\ c.op # "attach"
         \/ c.rsc = b /\ c.op = "attach" /\ c.mem = Memory(b)
      /\ \A j \in 1..k : Pending'[j].op = "create" /\ Pending'[j].rsc = b => c.op = "create"
      /\ c.op = "flush" => Flushed /\ \A j \in 1..k : Pending'[j].op = "create"
  <2>1. 1 \in 1..(k + 1)
    BY <1>5, <1>3
  <2>2. \/ c.op = "create"
        \/ c.rsc = b /\ c.op # "attach"
        \/ c.rsc = b /\ c.op = "attach" /\ c.mem = Memory(b)
    BY <1>4, <1>5, <2>1 DEF Drawing, FramePending
  <2>3. ASSUME NEW j \in 1..k, Pending'[j].op = "create", Pending'[j].rsc = b
        PROVE  c.op = "create"
    <3>1. j + 1 \in 1..(k + 1) /\ 1 < j + 1 /\ Pending[j + 1].op = "create" /\ Pending[j + 1].rsc = b
      BY <1>6, <1>7, <2>3
    <3> QED BY <1>4, <1>5, <2>1, <3>1 DEF Drawing, FramePending
  <2>4. ASSUME c.op = "flush"
        PROVE  Flushed /\ \A j \in 1..k : Pending'[j].op = "create"
    <3>1. \A j \in 1..k : j + 1 \in 1..(k + 1) /\ 1 < j + 1 /\ Pending'[j] = Pending[j + 1]
      BY <1>6, <1>7
    <3> QED BY <1>4, <1>5, <2>1, <2>4, <3>1 DEF Drawing, FramePending
  <2> QED BY <2>2, <2>3, <2>4
<1>10. c.op = "transfer" => backing[b] = Memory(b)
  <2>1. 1 \in 1..Len(Pending)
    BY <1>3
  <2> QED BY <1>4, <2>1 DEF Drawing, FrameBacked
<1>11. /\ (Told' <=> Told) /\ (Flushed' <=> Flushed) /\ Left' = Left /\ Memory(b)' = Memory(b)
       /\ Memory(b) \in mapped /\ Memory(b) # None
  <2>1. Memory(b) \in mapped /\ Memory(b) # None
    BY MemoryMapped DEF Drawing
  <2> QED BY <1>1, <2>1 DEF Told, Flushed, Left, Memory, infoVars, shmVars
<1>12. UNCHANGED <<buffer, write_fence, fence_id, callbacks, events, request, wire, todo, busy, drawn, pixels,
                   shm, wl_buffer, mapped, queue, fence_submitted>>
  BY <1>1 DEF infoVars, shmVars, clientVars
<1>13. FramePending(b)'
  <2>1. ASSUME NEW i \in 1..k
        PROVE  /\ \/ Pending'[i].op = "create"
                  \/ Pending'[i].rsc = b /\ Pending'[i].op # "attach"
                  \/ Pending'[i].rsc = b /\ Pending'[i].op = "attach" /\ Pending'[i].mem = Memory(b)
               /\ Pending'[i].op = "flush" =>
                    Flushed /\ \A j \in 1..k : i < j => Pending'[j].op = "create"
    <3>1. i + 1 \in 1..Len(Pending) /\ Pending'[i] = Pending[i + 1]
          /\ \A j \in 1..k : i < j => j + 1 \in 1..Len(Pending) /\ i + 1 < j + 1 /\ Pending'[j] = Pending[j + 1]
      BY <1>5, <1>6, <1>7
    <3> QED BY <3>1 DEF Drawing, FramePending
  <2>2. ASSUME NEW i \in 1..k, NEW j \in 1..k, i < j, Pending'[j].op = "create", Pending'[j].rsc = b
        PROVE  Pending'[i].op = "create"
    <3>1. i + 1 \in 1..Len(Pending) /\ j + 1 \in 1..Len(Pending) /\ i + 1 < j + 1
          /\ Pending'[i] = Pending[i + 1] /\ Pending'[j] = Pending[j + 1]
      BY <1>5, <1>6, <1>7, <2>2
    <3> QED BY <2>2, <3>1 DEF Drawing, FramePending
  <2> QED BY <1>5, <1>11, <2>1, <2>2 DEF FramePending
<1>14. c.op = "attach" => backing'[b] = Memory(b)
  <2>1. c.op = "attach" => c.rsc = b /\ b # None /\ c.mem = Memory(b) /\ c.mem \in mapped
    BY <1>9, <1>11, CompositorAssumption
  <2>2. c.op = "attach" => backing' = [backing EXCEPT ![b] = c.mem]
    BY <1>4, <2>1, DeviceEffect
  <2> QED BY <2>1, <2>2 DEF CompInv, CompositorTypeOK
<1>15. FrameBacked(b)'
  <2>1. ASSUME NEW i \in 1..k, Pending'[i].op = "transfer"
        PROVE  IF i = 1 THEN backing'[b] = Memory(b) ELSE Pending'[i-1].op = "attach"
    <3>1. i + 1 \in 1..Len(Pending) /\ i \in 1..(k + 1) /\ i + 1 # 1 /\ (i + 1) - 1 = i /\ Pending'[i] = Pending[i + 1]
      BY <1>5, <1>6, <1>7
    <3>2. Pending[i].op = "attach"
      <4>1. Pending[(i + 1) - 1].op = "attach"
        BY <2>1, <3>1 DEF Drawing, FrameBacked
      <4> QED BY <3>1, <4>1
    <3>3. i = 1 => c.op = "attach"
      BY <1>4, <3>2
    <3>4. i # 1 => Pending'[i - 1] = Pending[i]
      <4>1. i # 1 => i - 1 \in 1..k /\ (i - 1) + 1 = i
        BY <1>6, <3>1
      <4> QED BY <1>7, <4>1
    <3> QED BY <1>14, <3>2, <3>3, <3>4
  <2>2. ASSUME todo # << >>, Head(todo).op = "transfer"
        PROVE  IF Pending' = << >> THEN backing'[b] = Memory(b) ELSE Pending'[Len(Pending')].op = "attach"
    <3>1. Pending[k + 1].op = "attach"
      BY <1>3, <1>5, <2>2 DEF Drawing, FrameBacked
    <3>2. CASE k = 0
      <4>1. c.op = "attach" /\ Pending' = << >>
        <5>1. Pending' \in Seq(Command)
          BY <1>1, <1>2, RestFacts DEF Pending, CompositorTypeOK
        <5> QED BY <1>4, <1>5, <3>1, <3>2, <5>1, EmptySeq
      <4> QED BY <1>14, <4>1
    <3>3. CASE k # 0
      <4>1. Pending'[k] = Pending[k + 1] /\ Pending' # << >>
        <5>1. Len(Pending') # 0
          BY <1>5, <3>3
        <5> QED BY <1>6, <1>7, <3>3, <5>1
      <4> QED BY <1>5, <3>1, <4>1
    <3> QED BY <3>2, <3>3
  <2> QED BY <1>5, <1>11, <1>12, <2>1, <2>2 DEF FrameBacked
<1>16. b # None
  BY CompositorAssumption
<1>17. Left <= n \/ (Left = n + 1 /\ todo = << >>) =>
        scanout' = b \/ \E i \in 1..k : Pending'[i].op = "scanout"
  <2>1. Left <= n \/ (Left = n + 1 /\ todo = << >>) =>
          scanout = b \/ \E i \in 1..(k + 1) : Pending[i].op = "scanout"
    BY <1>5 DEF Drawing, FrameShown
  <2>2. c.op = "scanout" => scanout' = b
    BY <1>4, <1>9, <1>16, DeviceEffect
  <2>3. c.op # "scanout" => scanout' = scanout
    <3>1. c.op \in {"create", "scanout", "attach", "transfer", "detach", "flush"}
      BY DEF Command
    <3> QED BY <1>4, <3>1, DeviceEffect DEF hostVars
  <2> QED BY <1>8, <2>1, <2>2, <2>3
<1>18. ASSUME Left < n \/ (Left = n /\ Len(todo) <= 1)
      PROVE  \/ \E i \in 1..k : Pending'[i].op = "transfer"
             \/ host'[b] = drawn /\ \A i \in 1..k : Pending'[i].op = "create" => Pending'[i].rsc # b
  <2>1. \/ \E i \in 1..(k + 1) : Pending[i].op = "transfer"
        \/ host[b] = drawn /\ \A i \in 1..(k + 1) : Pending[i].op = "create" => Pending[i].rsc # b
    BY <1>5, <1>18 DEF Drawing, FrameShown
  <2>2. CASE c.op = "transfer"
    <3>1. c.rsc = b /\ backing[b] \in mapped /\ backing[b] # None
      BY <1>9, <1>10, <1>11, <2>2
    <3>2. host' = [host EXCEPT ![b] = pixels[b]]
      BY <1>4, <1>16, <2>2, <3>1, DeviceEffect
    <3>3. host'[b] = pixels[b] /\ pixels[b] = drawn
      BY <3>2 DEF CompInv, CompositorTypeOK, Framing, FrameSent
    <3>4. \A i \in 1..k : Pending'[i].op = "create" => Pending'[i].rsc # b
      BY <1>9, <2>2
    <3> QED BY <3>3, <3>4
  <2>3. CASE c.op # "transfer" /\ \E i \in 1..(k + 1) : Pending[i].op = "transfer"
    BY <1>8, <2>3
  <2>4. CASE /\ c.op # "transfer" /\ host[b] = drawn
             /\ \A i \in 1..(k + 1) : Pending[i].op = "create" => Pending[i].rsc # b
    <3>1. (c.op = "create" => c.rsc # b) /\ 1 \in 1..(k + 1)
      BY <1>3, <1>4, <1>5, <2>4
    <3>2. c.op \in {"create", "scanout", "attach", "transfer", "detach", "flush"}
      BY DEF Command
    <3>3. host'[b] = host[b]
      <4>1. CASE c.op = "create" /\ c.rsc # None
        <5>1. host' = [host EXCEPT ![c.rsc] = None]
          BY <1>4, <4>1, DeviceEffect
        <5> QED BY <3>1, <4>1, <5>1 DEF CompInv, CompositorTypeOK
      <4>2. CASE c.op # "create" \/ c.rsc = None
        BY <1>4, <2>4, <3>2, <4>2, DeviceEffect DEF hostVars
      <4> QED BY <4>1, <4>2
    <3>4. \A i \in 1..k : Pending'[i].op = "create" => Pending'[i].rsc # b
      BY <1>6, <1>7, <2>4
    <3> QED BY <2>4, <3>3, <3>4
  <2> QED BY <2>1, <2>2, <2>3, <2>4
<1>19. /\ Len(Pending) = Len(queue) - done /\ Len(queue) \in Nat /\ done \in 0..Len(queue)
       /\ \A i \in 1..Len(Pending) : done + i \in 1..Len(queue) /\ Pending[i] = queue[done + i]
  BY PendingFacts DEF CompInv
<1>20. ASSUME NEW i \in 1..Len(queue), FenceLast(i), i <= done'
       PROVE  screen' = drawn
  <2>1. CASE i <= done
    <3>1. screen = drawn
      BY <1>20, <2>1 DEF FenceLast
    <3>2. done + 1 \in 1..Len(queue) /\ i < done + 1
      BY <1>1, <1>19, <2>1
    <3>3. c.op = "create"
      BY <1>4, <1>20, <3>2 DEF FenceLast
    <3> QED BY <1>4, <3>1, <3>3, DeviceEffect DEF hostVars
  <2>2. CASE i = done + 1
    <3>1. c.op = "flush" /\ Flushed
      BY <1>4, <1>20, <2>2 DEF FenceLast
    <3>2. Left = 0 /\ Left <= n /\ Left < n
      <4>1. Left = 0
        BY <3>1 DEF Flushed
      <4> QED BY <4>1
    <3>3. \A j \in 1..(k + 1) : Pending[j] = c \/ Pending[j].op = "create"
      <4>1. ASSUME NEW j \in 1..(k + 1), j # 1
            PROVE  Pending[j].op = "create"
        <5>1. j - 1 \in 1..k /\ (j - 1) + 1 = j
          BY <1>6, <4>1
        <5> QED BY <1>7, <1>9, <3>1, <5>1
      <4> QED BY <1>4, <4>1
    <3>4. scanout = b /\ host[b] = drawn
      <4>1. ~ \E j \in 1..Len(Pending) : Pending[j].op \in {"scanout", "transfer"}
        BY <1>5, <3>1, <3>3
      <4> QED BY <3>2, <4>1 DEF Drawing, FrameShown
    <3>5. c.rsc = b
      BY <1>9, <3>1
    <3> QED BY <1>4, <1>16, <3>1, <3>4, <3>5, DeviceEffect
  <2>3. i <= done \/ i = done + 1
    BY <1>1, <1>19, <1>20
  <2> QED BY <2>1, <2>2, <2>3
<1>21. \A i \in 1..Len(queue) : FenceLast(i) => FenceLast(i)'
  BY <1>11, <1>12, <1>20 DEF FenceLast
<1>22. FrameShown(b, n)'
  <2>1. FrameShown(b, n)
    BY DEF Drawing
  <2>2. \A i \in 1..Len(queue) : queue[i].fence # None => FenceLast(i)'
    BY <1>21, <2>1 DEF FrameShown
  <2> QED BY <1>5, <1>11, <1>12, <1>17, <1>18, <2>1, <2>2 DEF FrameShown
<1>23. FrameRequest(b, n)'
  BY <1>11, <1>12 DEF Drawing, FrameRequest
<1> QED BY <1>11, <1>12, <1>13, <1>15, <1>22, <1>23 DEF Drawing

\* A command is executed.
LEMMA DeviceStep ==
  ASSUME CompInv, Device
  PROVE  CompInv'
<1>1. /\ done < Len(queue) /\ done' = done + 1 /\ queue' = queue
      /\ UNCHANGED <<infoVars, shmVars, queue, fence_submitted, request, todo, wire, events, clientVars>>
  BY DEF Device
<1>2. CompositorTypeOK'
  BY DeviceType
<1>3. WindowOK' /\ PoolsOK' /\ BuffersOK'
  <2>1. SameComes
    BY <1>1 DEF SameComes, NothingComes
  <2>2. UNCHANGED <<surface, have, wl_shm_pool, wl_buffer, request>>
    BY <1>1 DEF infoVars, shmVars, clientVars
  <2> QED BY <2>1, <2>2, KnownSame
<1>4. MemoryOK' /\ RequestOK'
  BY <1>1, MemorySame DEF CompInv, RequestOK, shmVars
<1>5. /\ Len(Pending') = Len(Pending) - 1 /\ Len(Pending) \in Nat \ {0}
      /\ \A i \in 1..Len(Pending') : i + 1 \in 1..Len(Pending) /\ Pending'[i] = Pending[i+1]
  BY <1>1, <1>2, PendingExecuted DEF CompInv
<1>6. Creating => Creating'
  BY <1>1, <1>5 DEF Creating
<1>7. CASE Quiet
  <2>1. Quiet'
    BY <1>1, <1>6, <1>7 DEF Quiet, infoVars
  <2> QED BY <1>1, <1>2, <1>3, <1>4, <1>7, <2>1, QuietStep DEF CompInv, infoVars
<1>8. CASE ~ Quiet
  <2>1. PICK b \in Buffer, n \in 1..2 :
              /\ waiting /\ Framing(b, n) /\ Left <= n + 1
              /\ (Told /\ OnScreen(b)) \/ (~ Told /\ Drawing(b, n) /\ b \in have)
    BY <1>8, QuietOrDraws
  <2>2. FrameSent(b, n)' /\ Left' = Left /\ Left \in Nat
    <3>1. UNCHANGED <<wire, have, pixels, drawn>>
      BY <1>1 DEF clientVars
    <3> QED BY <2>1, <3>1, LeftFacts, FrameSentSame DEF Framing, CompInv
  <2>3. (Told' <=> Told) /\ waiting' /\ (b \in have' <=> b \in have)
    BY <1>1, <2>1, <2>2 DEF Told, infoVars, clientVars
  <2>4. ~ (Left' > n + 2) /\ ~ (Left' = n + 2)
    <3>1. \A x \in Nat, l \in 1..2 : x <= l + 1 => ~ (x > l + 2) /\ ~ (x = l + 2)
      OBVIOUS
    <3> QED BY <2>1, <2>2, <3>1
  <2>5. ASSUME ~ Told PROVE Drawing(b, n)'
    BY <2>1, <2>5, DeviceDraws
  <2>6. ASSUME Told PROVE OnScreen(b)'
    <3>1. OnScreen(b)
      BY <2>1, <2>6
    <3>2. screen' = screen
      <4>1. PICK c \in Command : c = queue[done + 1] /\ c.op = "create"
        <5>1. 1 \in 1..Len(Pending) /\ Pending[1] = queue[done + 1] /\ Pending[1] \in Command
          BY <1>1, <1>2, PendingExecuted DEF CompInv
        <5> QED BY <3>1, <5>1 DEF OnScreen, Creating
      <4> QED BY <4>1, DeviceEffect DEF hostVars
    <3> QED BY <1>1, <1>6, <3>1, <3>2 DEF OnScreen, infoVars, clientVars
  <2>7. Framing(b, n)'
    BY <2>1, <2>2, <2>3, <2>4, <2>5, <2>6 DEF Framing
  <2> QED BY <1>2, <1>3, <1>4, <2>3, <2>7 DEF CompInv, FramesOK
<1> QED BY <1>7, <1>8

-----------------------------------------------------------------------------
(* The client.                                                             *)

\* The messages of a frame.
Messages_Frame(b, n, d) ==
  <<Msg("frame", d, None), Msg("attach", Toplevel, b)>>
    \o [i \in 1..n |-> Msg("damage", Toplevel, None)]
    \o <<Msg("commit", Toplevel, None)>>

\* Which they are.
LEMMA FrameMessages ==
  ASSUME NEW b \in Buffer, NEW n \in 1..2, NEW d \in Frame
  PROVE  /\ Messages_Frame(b, n, d) \in Seq(Message) /\ Len(Messages_Frame(b, n, d)) = n + 3
         /\ Messages_Frame(b, n, d)[1] = Msg("frame", d, None)
         /\ Messages_Frame(b, n, d)[2] = Msg("attach", Toplevel, b)
         /\ \A i \in 3..n+2 : Messages_Frame(b, n, d)[i] = Msg("damage", Toplevel, None)
         /\ Messages_Frame(b, n, d)[n + 3] = Msg("commit", Toplevel, None)
<1>0. PICK msgs : msgs = Messages_Frame(b, n, d)
  OBVIOUS
<1> DEFINE fr == Msg("frame", d, None)
           at == Msg("attach", Toplevel, b)
           da == Msg("damage", Toplevel, None)
           co == Msg("commit", Toplevel, None)
<1>1. fr \in Message /\ at \in Message /\ da \in Message /\ co \in Message
  BY CompositorAssumption DEF Msg, Message
<1> HIDE DEF fr, at, da, co
<1>2. PICK s1 : s1 = <<fr, at>>
  OBVIOUS
<1>3. PICK s2 : s2 = [i \in 1..n |-> da]
  OBVIOUS
<1>4. PICK s3 : s3 = <<co>>
  OBVIOUS
<1>5. s1 \in Seq(Message) /\ Len(s1) = 2 /\ s1[1] = fr /\ s1[2] = at
  BY <1>1, <1>2
<1>6. s2 \in Seq(Message) /\ Len(s2) = n /\ \A i \in 1..n : s2[i] = da
  BY <1>1, <1>3
<1>7. s3 \in Seq(Message) /\ Len(s3) = 1 /\ s3[1] = co
  BY <1>1, <1>4
<1>8. PICK s4 : s4 = s1 \o s2
  OBVIOUS
<1>9. /\ s4 \in Seq(Message) /\ Len(s4) = n + 2
      /\ \A i \in 1..n+2 : s4[i] = IF i <= 2 THEN s1[i] ELSE s2[i - 2]
  <2>1. /\ s4 \in Seq(Message) /\ Len(s4) = Len(s1) + Len(s2)
        /\ \A i \in 1..Len(s1) + Len(s2) : s4[i] = IF i <= Len(s1) THEN s1[i] ELSE s2[i - Len(s1)]
    BY <1>5, <1>6, <1>8, ConcatProperties
  <2>2. Len(s1) + Len(s2) = n + 2
    BY <1>5, <1>6
  <2> QED BY <1>5, <2>1, <2>2
<1>10. msgs = s4 \o s3
  BY <1>0, <1>2, <1>3, <1>4, <1>8 DEF fr, at, da, co, Messages_Frame
<1>11. /\ msgs \in Seq(Message) /\ Len(msgs) = n + 3
       /\ \A i \in 1..n+3 : msgs[i] = IF i <= n + 2 THEN s4[i] ELSE s3[i - (n + 2)]
  <2>1. /\ msgs \in Seq(Message) /\ Len(msgs) = Len(s4) + Len(s3)
        /\ \A i \in 1..Len(s4) + Len(s3) : msgs[i] = IF i <= Len(s4) THEN s4[i] ELSE s3[i - Len(s4)]
    <3>1. s4 \in Seq(Message) /\ s3 \in Seq(Message)
      BY <1>7, <1>9
    <3>2. PICK r : r = s4 \o s3
      OBVIOUS
    <3>3. /\ r \in Seq(Message) /\ Len(r) = Len(s4) + Len(s3)
          /\ \A i \in 1..Len(s4) + Len(s3) : r[i] = IF i <= Len(s4) THEN s4[i] ELSE s3[i - Len(s4)]
      BY <3>1, <3>2, ConcatProperties
    <3> QED BY <1>10, <3>2, <3>3
  <2>2. Len(s4) + Len(s3) = n + 3
    BY <1>7, <1>9
  <2> QED BY <1>9, <2>1, <2>2
<1>12. msgs[1] = fr /\ msgs[2] = at
  BY <1>5, <1>9, <1>11
<1>13. \A i \in 3..n+2 : msgs[i] = da
  BY <1>6, <1>9, <1>11
<1>14. msgs[n + 3] = co
  BY <1>7, <1>11
<1> QED BY <1>0, <1>11, <1>12, <1>13, <1>14 DEF fr, at, da, co

\* The client hears of the frame on the screen, and then may draw again.
LEMMA ReceiveStep ==
  ASSUME CompInv, ClientReceives
  PROVE  CompInv'
<1> USE DEF infoVars, shmVars, gpuVars, hostVars
<1>1. /\ events # << >> /\ events' = Tail(events)
      /\ IF Head(events).op = "release" THEN busy' = busy \ {Head(events).of} /\ UNCHANGED waiting
         ELSE waiting' = FALSE /\ UNCHANGED busy
      /\ UNCHANGED <<infoVars, shmVars, gpuVars, request, todo, wire, hostVars, have, drawn, pixels>>
  BY DEF ClientReceives
<1>2. ~ Quiet
  BY <1>1 DEF Quiet
<1>3. waiting /\ \E b \in Buffer, n \in 1..2 : Framing(b, n) /\ Told /\ OnScreen(b)
  BY <1>1, <1>2, QuietOrDraws DEF Drawing
<1>4. PICK b \in Buffer, n \in 1..2 : Framing(b, n) /\ Told /\ OnScreen(b)
  BY <1>3
<1>5. events' \in Seq(Message)
  BY <1>1, TailFacts DEF CompInv, CompositorTypeOK
<1>6. CompositorTypeOK'
  <2>1. busy' \subseteq Buffer /\ waiting' \in BOOLEAN
    BY <1>1 DEF CompInv, CompositorTypeOK
  <2> QED BY <1>1, <1>5, <2>1 DEF CompInv, CompositorTypeOK
<1>7. WindowOK' /\ PoolsOK' /\ BuffersOK'
  <2>1. SameComes
    BY <1>1 DEF SameComes, NothingComes
  <2>2. UNCHANGED <<surface, have, wl_shm_pool, wl_buffer, request>>
    BY <1>1
  <2> QED BY <2>1, <2>2, KnownSame
<1>8. MemoryOK' /\ RequestOK'
  BY <1>1, MemorySame DEF CompInv, RequestOK
<1>9. Creating'
  <2>1. Pending' = Pending
    BY <1>1 DEF Pending
  <2> QED BY <1>1, <1>4, <2>1 DEF OnScreen, Creating
<1>10. Left = 0 /\ FrameSent(b, n)' /\ Left' = 0
  BY <1>1, <1>4, FrameSentSame DEF Framing, Told
<1>11. FramesOK'
  <2>1. CASE events = <<Msg("release", b, None), Msg("done", drawn, None)>> /\ busy = {b}
    <3>1. Head(events) = Msg("release", b, None) /\ events' = <<Msg("done", drawn, None)>>
      BY <1>1, <2>1, ListFacts
    <3>2. busy' = {} /\ waiting' = waiting
      BY <1>1, <2>1, <3>1 DEF Msg
    <3>3. Told' /\ OnScreen(b)'
      BY <1>1, <1>4, <1>9, <1>10, <3>1, <3>2 DEF Told, OnScreen
    <3>4. ~ (Left' > n + 2) /\ Left' # n + 2
      BY <1>10
    <3>5. Framing(b, n)'
      BY <1>10, <3>3, <3>4 DEF Framing
    <3> QED BY <1>3, <3>2, <3>5 DEF FramesOK
  <2>2. CASE events = <<Msg("done", drawn, None)>> /\ busy = {}
    <3>1. Head(events) = Msg("done", drawn, None) /\ events' = << >>
      BY <1>1, <2>2, ListFacts
    <3>2. busy' = {} /\ waiting' = FALSE
      BY <1>1, <2>2, <3>1 DEF Msg
    <3>3. Quiet'
      BY <1>1, <1>4, <1>9, <3>1 DEF Quiet, Told, OnScreen, CompInv, CompositorTypeOK
    <3>4. Len(wire') <= 1 /\ (wire' # << >> => BetweenFrames(wire'[1]))
      <4>1. wire # << >> => Len(wire) = 1 /\ DuringFrame(wire[1])
        BY <1>4, <1>10 DEF Framing, FrameSent
      <4>2. Len(wire) \in Nat /\ (wire = << >> <=> Len(wire) = 0)
        BY WireLen DEF CompInv
      <4> QED BY <1>1, <4>1, <4>2 DEF DuringFrame, BetweenFrames
    <3>5. callbacks' = << >>
      BY <1>1, <1>4 DEF OnScreen
    <3>6. Between'
      BY <3>2, <3>3, <3>4, <3>5 DEF Between, BetweenFrames
    <3> QED BY <3>2, <3>6 DEF FramesOK
  <2> QED BY <1>4, <2>1, <2>2 DEF OnScreen
<1> QED BY <1>6, <1>7, <1>8, <1>11 DEF CompInv

\* A request about memory, or for a surface that is not the window: between the
\* frames or while one is shown.
LEMMA ManagesStep ==
  ASSUME CompInv, NEW m \in Message, ManagesMemory(m), BetweenFrames(m), waiting => DuringFrame(m),
         have' \subseteq Surface \cup Pool \cup Buffer, Toplevel \in have => Toplevel \in have',
         \A b \in busy : /\ b \in have => b \in have'
                         /\ m.op = "resize" => m.of # wl_buffer[b]
  PROVE  /\ wire = << >> /\ wire' # << >> /\ wire'[1] = m
         /\ (\A o, x : ~ Comes(o, x)) /\ (\A o, x : Comes(o, x)' <=> o = m.op /\ x = m.of)
         /\ UNCHANGED <<surface, wl_shm_pool, wl_buffer, request>>
         /\ CompositorTypeOK' /\ MemoryOK' /\ RequestOK' /\ FramesOK'
<1> USE DEF infoVars, shmVars, gpuVars, hostVars
<1>1. /\ wire = << >> /\ wire' = << >> \o <<m>>
      /\ UNCHANGED <<infoVars, shmVars, gpuVars, request, todo, events, hostVars>>
      /\ UNCHANGED <<drawn, pixels, waiting, busy>>
  BY DEF ManagesMemory, ClientSends
<1>2. <<m>> \in Seq(Message) /\ Len(<<m>>) = 1 /\ <<m>>[1] = m
  OBVIOUS
<1>3. wire' = <<m>>
  BY <1>1, <1>2, ConcatEmptySeq
<1>4. wire' \in Seq(Message) /\ wire' # << >> /\ wire'[1] = m /\ Len(wire') <= 1
  BY <1>2, <1>3
<1>5. CompositorTypeOK'
  BY <1>1, <1>4 DEF CompInv, CompositorTypeOK
<1>6. MemoryOK' /\ RequestOK'
  BY <1>1, MemorySame DEF CompInv, RequestOK
<1>7. Left = 0 /\ Left' = 0
  <2>1. ~ (m.op = "commit" /\ m.of = Toplevel)
    BY DEF BetweenFrames
  <2>2. wire'[Len(wire')] = m
    BY <1>2, <1>3
  <2> QED BY <1>1, <2>1, <2>2 DEF Left
<1>8. FramesOK'
  <2>1. CASE ~ waiting
    <3>1. Between
      BY <2>1 DEF CompInv, FramesOK
    <3>2. Quiet'
      BY <1>1, <3>1, QuietSame DEF Between, Quiet
    <3>3. BetweenFrames(wire'[1]) /\ callbacks' = << >> /\ busy' = {}
      BY <1>1, <1>4, <3>1 DEF Between, BetweenFrames
    <3>4. Between'
      BY <1>4, <3>2, <3>3 DEF Between, BetweenFrames
    <3> QED BY <1>1, <2>1, <3>4 DEF FramesOK
  <2>2. CASE waiting
    <3>1. PICK b \in Buffer, n \in 1..2 : Framing(b, n)
      BY <2>2 DEF CompInv, FramesOK
    <3>2. Len(wire') = 1 /\ DuringFrame(wire'[1])
      BY <1>2, <1>3, <2>2 DEF DuringFrame
    <3>3. Toplevel \in have'
      BY <3>1 DEF Framing, FrameSent
    <3>4. ASSUME ~ Told
          PROVE  /\ b \in have' /\ wl_buffer'[b] = wl_buffer[b] /\ Memory(b)' = Memory(b)
                 /\ wire'[1].op = "resize" => wire'[1].of # wl_buffer[b]
      <4>1. b \in have /\ busy = {b}
        BY <1>7, <3>1, <3>4 DEF Framing, Drawing
      <4>2. b \in have' /\ (m.op = "resize" => m.of # wl_buffer[b])
        BY <4>1
      <4>3. wl_buffer' = wl_buffer /\ shm' = shm
        BY <1>1
      <4> QED BY <1>4, <4>2, <4>3 DEF Memory
    <3>5. Framing(b, n)'
      BY <1>1, <1>7, <3>1, <3>2, <3>3, <3>4, LateStep DEF CompInv
    <3> QED BY <1>1, <2>2, <3>5 DEF FramesOK
  <2> QED BY <2>1, <2>2
<1>9. (\A o, x : ~ Comes(o, x)) /\ (\A o, x : Comes(o, x)' <=> o = m.op /\ x = m.of)
  BY <1>1, <1>4 DEF Comes
<1> QED BY <1>1, <1>4, <1>5, <1>6, <1>8, <1>9

\* A window is made.
LEMMA MakesWindowStep ==
  ASSUME CompInv, ClientMakesWindow
  PROVE  CompInv'
<1> DEFINE m == Msg("get_xdg_surface", Toplevel, None)
<1>1. Toplevel \notin have /\ ManagesMemory(m) /\ have' = have \cup {Toplevel} /\ ~ waiting
  BY DEF ClientMakesWindow, CompInv, FramesOK, Framing, FrameSent
<1>2. m \in Message /\ BetweenFrames(m) /\ m.op = "get_xdg_surface" /\ m.of = Toplevel
      /\ Toplevel \notin Pool /\ Toplevel \notin Buffer
  BY CompositorAssumption DEF Msg, Message, BetweenFrames
<1>3. have' \subseteq Surface \cup Pool \cup Buffer
  BY <1>1, CompositorAssumption DEF CompInv, CompositorTypeOK
<1> HIDE DEF m
<1>4. /\ wire = << >> /\ wire' # << >> /\ wire'[1] = m
      /\ (\A o, x : ~ Comes(o, x)) /\ (\A o, x : Comes(o, x)' <=> o = m.op /\ x = m.of)
      /\ UNCHANGED <<surface, wl_shm_pool, wl_buffer, request>>
      /\ CompositorTypeOK' /\ MemoryOK' /\ RequestOK' /\ FramesOK'
  BY <1>1, <1>2, <1>3, ManagesStep
<1>5. WindowOK'
  BY <1>1, <1>2, <1>4 DEF CompInv, WindowOK
<1>6. PoolsOK'
  BY <1>1, <1>2, <1>4 DEF CompInv, PoolsOK
<1>7. BuffersOK'
  BY <1>1, <1>2, <1>4 DEF CompInv, BuffersOK, Creates
<1> QED BY <1>4, <1>5, <1>6, <1>7 DEF CompInv

\* A pool is made.
LEMMA MakesPoolStep ==
  ASSUME CompInv, NEW p \in Pool, ClientMakesPool(p)
  PROVE  CompInv'
<1> DEFINE m == Msg("create_pool", p, None)
<1>1. /\ p \notin have /\ (\A b \in Buffer : wl_buffer[b] # p)
      /\ ManagesMemory(m) /\ have' = have \cup {p}
  BY DEF ClientMakesPool
<1>2. m \in Message /\ BetweenFrames(m) /\ DuringFrame(m) /\ m.op = "create_pool" /\ m.of = p
      /\ p # Toplevel /\ p \notin Buffer
  BY CompositorAssumption DEF Msg, Message, BetweenFrames, DuringFrame
<1>3. have' \subseteq Surface \cup Pool \cup Buffer
  BY <1>1 DEF CompInv, CompositorTypeOK
<1> HIDE DEF m
<1>4. /\ wire = << >> /\ wire' # << >> /\ wire'[1] = m
      /\ (\A o, x : ~ Comes(o, x)) /\ (\A o, x : Comes(o, x)' <=> o = m.op /\ x = m.of)
      /\ UNCHANGED <<surface, wl_shm_pool, wl_buffer, request>>
      /\ CompositorTypeOK' /\ MemoryOK' /\ RequestOK' /\ FramesOK'
  BY <1>1, <1>2, <1>3, ManagesStep
<1>5. WindowOK'
  BY <1>1, <1>2, <1>4 DEF CompInv, WindowOK
<1>6. PoolsOK'
  BY <1>1, <1>2, <1>4 DEF CompInv, PoolsOK
<1>7. BuffersOK'
  BY <1>1, <1>2, <1>4 DEF CompInv, BuffersOK, Creates
<1> QED BY <1>4, <1>5, <1>6, <1>7 DEF CompInv

\* A buffer is made in a pool.
LEMMA MakesBufferStep ==
  ASSUME CompInv, NEW b \in Buffer, NEW p \in Pool, ClientMakesBuffer(b, p)
  PROVE  CompInv'
<1> DEFINE m == Msg("create_buffer", b, p)
<1>1. b \notin have /\ p \in have /\ ManagesMemory(m) /\ have' = have \cup {b}
  BY DEF ClientMakesBuffer
<1>2. m \in Message /\ BetweenFrames(m) /\ DuringFrame(m) /\ m.op = "create_buffer" /\ m.of = b /\ m.arg = p
      /\ b # Toplevel /\ b \notin Pool
  BY CompositorAssumption DEF Msg, Message, BetweenFrames, DuringFrame
<1>3. have' \subseteq Surface \cup Pool \cup Buffer
  BY <1>1 DEF CompInv, CompositorTypeOK
<1> HIDE DEF m
<1>4. /\ wire = << >> /\ wire' # << >> /\ wire'[1] = m
      /\ (\A o, x : ~ Comes(o, x)) /\ (\A o, x : Comes(o, x)' <=> o = m.op /\ x = m.of)
      /\ UNCHANGED <<surface, wl_shm_pool, wl_buffer, request>>
      /\ CompositorTypeOK' /\ MemoryOK' /\ RequestOK' /\ FramesOK'
  BY <1>1, <1>2, <1>3, ManagesStep
<1>5. WindowOK'
  BY <1>1, <1>2, <1>4 DEF CompInv, WindowOK
<1>6. PoolsOK'
  BY <1>1, <1>2, <1>4 DEF CompInv, PoolsOK
<1>7. p \in wl_shm_pool
  BY <1>1, <1>4 DEF CompInv, PoolsOK
<1>8. BuffersOK'
  BY <1>1, <1>2, <1>4, <1>7 DEF CompInv, BuffersOK, Creates
<1> QED BY <1>4, <1>5, <1>6, <1>8 DEF CompInv

\* A pool is resized.
LEMMA ResizesStep ==
  ASSUME CompInv, NEW p \in Pool, ClientResizes(p)
  PROVE  CompInv'
<1> DEFINE m == Msg("resize", p, None)
<1>1. p \in have /\ ManagesMemory(m) /\ have' = have /\ \A b \in busy : p # wl_buffer[b]
  BY DEF ClientResizes
<1>2. m \in Message /\ BetweenFrames(m) /\ DuringFrame(m) /\ m.op = "resize" /\ m.of = p
  BY DEF Msg, Message, BetweenFrames, DuringFrame
<1>3. have' \subseteq Surface \cup Pool \cup Buffer
  BY <1>1 DEF CompInv, CompositorTypeOK
<1> HIDE DEF m
<1>4. /\ wire = << >> /\ wire' # << >> /\ wire'[1] = m
      /\ (\A o, x : ~ Comes(o, x)) /\ (\A o, x : Comes(o, x)' <=> o = m.op /\ x = m.of)
      /\ UNCHANGED <<surface, wl_shm_pool, wl_buffer, request>>
      /\ CompositorTypeOK' /\ MemoryOK' /\ RequestOK' /\ FramesOK'
  BY <1>1, <1>2, <1>3, ManagesStep
<1>5. WindowOK'
  BY <1>1, <1>2, <1>4 DEF CompInv, WindowOK
<1>6. PoolsOK'
  BY <1>1, <1>2, <1>4 DEF CompInv, PoolsOK
<1>7. BuffersOK'
  BY <1>1, <1>2, <1>4 DEF CompInv, BuffersOK, Creates
<1> QED BY <1>4, <1>5, <1>6, <1>7 DEF CompInv

\* A pool or a buffer is destroyed.
LEMMA DestroysStep ==
  ASSUME CompInv, NEW op, NEW x, ClientDestroys(op, x),
         \/ op = "destroy_pool" /\ x \in Pool
         \/ op = "destroy_buffer" /\ x \in Buffer
  PROVE  CompInv'
<1> DEFINE m == Msg(op, x, None)
<1>1. x \in have /\ x \notin busy /\ ManagesMemory(m) /\ have' = have \ {x}
  BY DEF ClientDestroys
<1>2. m \in Message /\ BetweenFrames(m) /\ DuringFrame(m) /\ m.op = op /\ m.of = x /\ x # Toplevel
  BY CompositorAssumption DEF Msg, Message, BetweenFrames, DuringFrame
<1>3. have' \subseteq Surface \cup Pool \cup Buffer
  BY <1>1 DEF CompInv, CompositorTypeOK
<1> HIDE DEF m
<1>4. /\ wire = << >> /\ wire' # << >> /\ wire'[1] = m
      /\ (\A o, y : ~ Comes(o, y)) /\ (\A o, y : Comes(o, y)' <=> o = op /\ y = x)
      /\ UNCHANGED <<surface, wl_shm_pool, wl_buffer, request>>
      /\ CompositorTypeOK' /\ MemoryOK' /\ RequestOK' /\ FramesOK'
  BY <1>1, <1>2, <1>3, ManagesStep
<1>5. WindowOK'
  BY <1>1, <1>2, <1>4 DEF CompInv, WindowOK
<1>6. CASE op = "destroy_pool" /\ x \in Pool
  <2>1. x \notin Buffer
    BY <1>6, CompositorAssumption
  <2>2. PoolsOK'
    BY <1>1, <1>2, <1>4, <1>6 DEF CompInv, PoolsOK
  <2>3. BuffersOK'
    BY <1>1, <1>2, <1>4, <1>6, <2>1 DEF CompInv, BuffersOK, Creates
  <2> QED BY <1>4, <1>5, <2>2, <2>3 DEF CompInv
<1>7. CASE op = "destroy_buffer" /\ x \in Buffer
  <2>1. x \notin Pool
    BY <1>7, CompositorAssumption
  <2>2. PoolsOK'
    BY <1>1, <1>2, <1>4, <1>7, <2>1 DEF CompInv, PoolsOK
  <2>3. BuffersOK'
    BY <1>1, <1>2, <1>4, <1>7 DEF CompInv, BuffersOK, Creates
  <2> QED BY <1>4, <1>5, <2>2, <2>3 DEF CompInv
<1> QED BY <1>6, <1>7

\* A request for a surface that is not the window.
LEMMA OtherSurfaceStep ==
  ASSUME CompInv, NEW s \in Surface, NEW b \in Buffer, OtherSurface(s, b)
  PROVE  CompInv'
<1>1. s # Toplevel /\ have' = have
  BY DEF OtherSurface
<1>2. PICK m : m \in {Msg("attach", s, b), Msg("damage", s, None), Msg("commit", s, None)} /\ ManagesMemory(m)
                   /\ (waiting => m = Msg("attach", s, b))
  BY DEF OtherSurface
<1>3. m \in Message /\ BetweenFrames(m) /\ m.op \in FrameOps /\ m.op # "resize"
      /\ (waiting => DuringFrame(m))
  BY <1>1, <1>2 DEF Msg, Message, BetweenFrames, DuringFrame, FrameOps
<1>4. have' \subseteq Surface \cup Pool \cup Buffer
  BY <1>1 DEF CompInv, CompositorTypeOK
<1>5. /\ wire = << >> /\ wire' # << >> /\ wire'[1] = m
      /\ UNCHANGED <<surface, wl_shm_pool, wl_buffer, request>>
      /\ CompositorTypeOK' /\ MemoryOK' /\ RequestOK' /\ FramesOK'
  BY <1>1, <1>2, <1>3, <1>4, ManagesStep
<1>6. SameComes
  BY <1>3, <1>5 DEF SameComes, NothingComes
<1>7. WindowOK' /\ PoolsOK' /\ BuffersOK'
  BY <1>1, <1>5, <1>6, KnownSame
<1> QED BY <1>5, <1>7 DEF CompInv

\* A frame is drawn and sent.
LEMMA RequestFrameStep ==
  ASSUME CompInv, NEW b \in Buffer, NEW n \in 1..2, request_frame(b, n)
  PROVE  CompInv'
<1> USE DEF infoVars, shmVars, gpuVars, hostVars
<1>1. PICK msgs : msgs = <<Msg("frame", drawn', None), Msg("attach", Toplevel, b)>>
                   \o [i \in 1..n |-> Msg("damage", Toplevel, None)]
                   \o <<Msg("commit", Toplevel, None)>>
  OBVIOUS
<1>2. /\ {Toplevel, b} \subseteq have /\ b \notin busy /\ ~ waiting
      /\ drawn' = (drawn + 1) % V /\ pixels' = [pixels EXCEPT ![b] = drawn']
      /\ waiting' = TRUE /\ busy' = busy \cup {b} /\ have' = have
      /\ wire' = wire \o msgs
      /\ UNCHANGED <<infoVars, shmVars, gpuVars, request, todo, events, hostVars>>
  BY <1>1 DEF request_frame, ClientSends
<1>3. drawn' \in Frame
  BY <1>2, CompositorAssumption DEF CompInv, CompositorTypeOK, Frame
<1>4. /\ msgs \in Seq(Message) /\ Len(msgs) = n + 3
      /\ msgs[1] = Msg("frame", drawn', None) /\ msgs[2] = Msg("attach", Toplevel, b)
      /\ \A i \in 3..n+2 : msgs[i] = Msg("damage", Toplevel, None)
      /\ msgs[n + 3] = Msg("commit", Toplevel, None)
  <2>1. PICK d \in Frame : d = drawn'
    BY <1>3
  <2>2. msgs = Messages_Frame(b, n, d)
    BY <1>1, <2>1 DEF Messages_Frame
  <2>3. /\ msgs \in Seq(Message) /\ Len(msgs) = n + 3
        /\ msgs[1] = Msg("frame", d, None) /\ msgs[2] = Msg("attach", Toplevel, b)
        /\ \A i \in 3..n+2 : msgs[i] = Msg("damage", Toplevel, None)
        /\ msgs[n + 3] = Msg("commit", Toplevel, None)
    BY <2>1, <2>2, FrameMessages
  <2> QED BY <2>1, <2>3
<1>5. PICK w \in Seq(Message) : w = wire
  BY DEF CompInv, CompositorTypeOK
<1>6. Len(w) \in Nat /\ (w = << >> <=> Len(w) = 0)
  BY <1>5, WireLen DEF CompInv
<1>7. /\ wire' \in Seq(Message) /\ Len(wire') = Len(w) + (n + 3)
      /\ \A i \in 1..Len(w) + (n + 3) : wire'[i] = IF i <= Len(w) THEN w[i] ELSE msgs[i - Len(w)]
  BY <1>2, <1>4, <1>5, ConcatProperties
<1>8. CompositorTypeOK'
  <2>1. pixels' \in [Buffer -> Frame] /\ busy' \subseteq Buffer /\ waiting' \in BOOLEAN
    BY <1>2, <1>3 DEF CompInv, CompositorTypeOK
  <2> QED BY <1>2, <1>3, <1>7, <2>1 DEF CompInv, CompositorTypeOK
<1>9. Between
  BY <1>2 DEF CompInv, FramesOK
<1>10. Len(w) \in 0..1
  <2>1. Len(w) <= 1
    BY <1>5, <1>9 DEF Between
  <2>2. \A x \in Nat : x <= 1 => x \in 0..1
    OBVIOUS
  <2> QED BY <1>6, <2>1, <2>2
<1>11. wire' # << >> /\ Len(wire') = Len(w) + n + 3
  <2>1. Len(wire') # 0 /\ Len(wire') = Len(w) + n + 3
    BY <1>6, <1>7
  <2> QED BY <2>1
<1>12. /\ Len(w) = 0 => wire'[1] = Msg("frame", drawn', None)
       /\ Len(w) = 1 => wire'[1] = w[1]
  <2>1. 1 \in 1..Len(w) + (n + 3)
    BY <1>6
  <2>2. wire'[1] = IF 1 <= Len(w) THEN w[1] ELSE msgs[1 - Len(w)]
    BY <1>7, <2>1
  <2> QED BY <1>4, <2>2
<1>13. WindowOK' /\ PoolsOK' /\ BuffersOK'
  <2>1. SameComes
    BY <1>5, <1>6, <1>10, <1>11, <1>12 DEF SameComes, NothingComes, FrameOps, Msg
  <2> QED BY <1>2, <2>1, KnownSame
<1>14. MemoryOK' /\ RequestOK'
  BY <1>2, MemorySame DEF CompInv, RequestOK
<1>15. Left' = Len(w) + n + 3
  <2>1. Len(wire') \in 1..Len(w) + (n + 3) /\ ~ (Len(wire') <= Len(w)) /\ Len(wire') - Len(w) = n + 3
    BY <1>6, <1>7
  <2>2. wire'[Len(wire')] = msgs[n + 3]
    BY <1>7, <2>1
  <2> QED BY <1>4, <1>11, <2>2 DEF Left, Msg
<1>16. FrameSent(b, n)'
  <2>1. pixels'[b] = drawn'
    BY <1>2 DEF CompInv, CompositorTypeOK
  <2>2. PICK l \in 0..1 : l = Len(w)
    BY <1>10
  <2>3. Left' = l + n + 3 /\ Left' # 0
    BY <1>15, <2>2
  <2>4. ASSUME NEW i \in 1..(l + n + 3), (l + n + 3) - i <= n + 2
        PROVE  wire'[i] = Message_Frame(b, n, (l + n + 3) - i)'
    <3>1. PICK k \in 1..n+3 : k = i - l
      BY <2>4
    <3>2. wire'[i] = msgs[k]
      <4>1. i \in 1..Len(w) + (n + 3) /\ ~ (i <= Len(w)) /\ i - Len(w) = k
        BY <2>2, <3>1
      <4> QED BY <1>7, <4>1
    <3>3. (l + n + 3) - i = (n + 3) - k
      BY <3>1
    <3>4. CASE k = 1
      BY <1>4, <3>2, <3>3, <3>4 DEF Message_Frame
    <3>5. CASE k = 2
      BY <1>4, <3>2, <3>3, <3>5 DEF Message_Frame
    <3>6. CASE k \in 3..n+2
      <4>1. (n + 3) - k # 0 /\ (n + 3) - k <= n
        BY <3>6
      <4> QED BY <1>4, <3>2, <3>3, <3>6, <4>1 DEF Message_Frame
    <3>7. CASE k = n + 3
      BY <1>4, <3>2, <3>3, <3>7 DEF Message_Frame
    <3>8. k = 1 \/ k = 2 \/ k \in 3..n+2 \/ k = n + 3
      BY <3>1
    <3> QED BY <3>4, <3>5, <3>6, <3>7, <3>8
  <2>5. l + n + 3 <= n + 4 /\ (l + n + 3 = n + 4 => l = 1)
    OBVIOUS
  <2>6. l = 1 => BetweenFrames(wire'[1])
    <3>1. l = 1 => wire # << >> /\ wire'[1] = wire[1]
      BY <1>5, <1>6, <1>12, <2>2
    <3> QED BY <1>9, <3>1 DEF Between
  <2>7. {Toplevel, b} \subseteq have'
    BY <1>2
  <2>8. l + n + 3 = n + 4 => BetweenFrames(wire'[1])
    BY <2>5, <2>6
  <2> QED BY <2>1, <2>3, <2>4, <2>5, <2>7, <2>8 DEF FrameSent, BetweenFrames
<1>17. Framing(b, n)'
  <2>1. ~ Told'
    <3>1. Left' # 0
      BY <1>10, <1>15
    <3> QED BY <3>1 DEF Told
  <2>2. Left' > n + 2 /\ ~ (Left' = n + 2) /\ ~ (Left' <= n + 1)
    BY <1>10, <1>15
  <2>3. Quiet'
    BY <1>2, <1>9, QuietSame DEF Between, Quiet
  <2>4. callbacks' = << >> /\ busy' = {b}
    BY <1>2, <1>9 DEF Between
  <2>5. b \in have'
    BY <1>2
  <2> QED BY <1>16, <2>1, <2>2, <2>3, <2>4, <2>5 DEF Framing
<1>18. FramesOK'
  BY <1>2, <1>17 DEF FramesOK
<1> QED BY <1>8, <1>13, <1>14, <1>18 DEF CompInv

-----------------------------------------------------------------------------
(* The theorems.                                                           *)

\* A compositor without a client.
LEMMA CompInit == Init => CompInv
<1> SUFFICES ASSUME Init PROVE CompInv
  OBVIOUS
<1> USE DEF Init
<1>1. CompositorTypeOK
  <2>1. None \in Surface \cup {None} /\ None \in Buffer \cup {None}
    OBVIOUS
  <2>2. shm \in [Pool -> [refcount : Nat, buf : Region \cup {None}]]
    BY DEF NoShm
  <2>3. request \in Message
    BY DEF NoRequest, Msg, Message
  <2>4. fence_id \in 0..F-1 /\ fence_submitted \in 0..F-1 /\ drawn \in Frame
        /\ pixels \in [Buffer -> Frame]
    BY CompositorAssumption DEF Frame
  <2>5. done \in 0..Len(queue)
    OBVIOUS
  <2>6. /\ callbacks \in Seq(Frame) /\ queue \in Seq(Command) /\ todo \in Seq(Command)
        /\ wire \in Seq(Message) /\ events \in Seq(Message)
    OBVIOUS
  <2>7. /\ wl_buffer \in [Buffer -> Pool \cup {None}] /\ backing \in [Buffer -> Region \cup {None}]
        /\ host \in [Buffer -> Frame \cup {None}]
    OBVIOUS
  <2> QED BY <2>1, <2>2, <2>3, <2>4, <2>5, <2>6, <2>7 DEF CompositorTypeOK
<1>2. request.op = "done" /\ \A o, x : ~ Comes(o, x)
  BY DEF NoRequest, Msg, Comes
<1>3. WindowOK
  BY <1>2 DEF WindowOK
<1>4. PoolsOK
  BY <1>2 DEF PoolsOK
<1>5. BuffersOK
  BY <1>2 DEF BuffersOK, Creates
<1>6. MemoryOK
  <2>1. ASSUME NEW p \in Pool
        PROVE  shm[p].refcount = Cardinality({b \in Buffer : wl_buffer[b] = p})
                                   + (IF p \in wl_shm_pool THEN 1 ELSE 0)
    <3>1. {b \in Buffer : wl_buffer[b] = p} = {}
      BY CompositorAssumption
    <3>2. shm[p].refcount = 0 /\ p \notin wl_shm_pool
      BY DEF NoShm
    <3>3. Cardinality({b \in Buffer : wl_buffer[b] = p}) = 0
      BY <3>1, FS_EmptySet
    <3> QED BY <3>2, <3>3
  <2>2. \A p \in Pool : ~ (shm[p].refcount > 0)
    BY DEF NoShm
  <2> QED BY <2>1, <2>2 DEF MemoryOK, MappedWhileUsed
<1>7. RequestOK
  BY <1>2 DEF RequestOK
<1>8. FramesOK
  <2>1. Len(queue) = 0 /\ Len(Pending) = 0 /\ Len(wire) = 0
    <3>1. Len(queue) = 0 /\ Len(wire) = 0
      OBVIOUS
    <3>2. Len(Pending) = Len(queue) - done
      BY <1>1, PendingFacts
    <3> QED BY <3>1, <3>2
  <2>2. Quiet
    BY <1>2, <2>1 DEF Quiet, Creating
  <2>3. Between
    BY <2>1, <2>2 DEF Between
  <2> QED BY <2>3 DEF FramesOK
<1> QED BY <1>1, <1>3, <1>4, <1>5, <1>6, <1>7, <1>8 DEF CompInv

\* Every step of nested-virtio.c, of the device and of the client.
LEMMA CompStep ==
  ASSUME Nested, ~ Clock, CompInv, [Next]_vars
  PROVE  CompInv'
<1>1. CASE Loop
  <2>1. CASE xdg_wm_base_on_get_xdg_surface
    BY <2>1, GetSurfaceStep
  <2>2. CASE wl_surface_on_frame
    BY <2>2, FrameStep
  <2>3. CASE wl_shm_on_create_pool
    BY <2>3, CreatePoolStep
  <2>4. CASE wl_shm_pool_on_resize
    BY <2>4, ResizeStep
  <2>5. CASE wl_shm_pool_on_destroy
    BY <2>5, DestroyPoolStep
  <2>6. CASE wl_buffer_on_destroy
    BY <2>6, DestroyBufferStep
  <2>7. CASE wl_surface_on_attach
    BY <2>7, AttachBegins
  <2>8. CASE wl_surface_on_attach_End
    BY <2>8, AttachEnds
  <2>9. CASE wl_surface_on_damage
    BY <2>9, DamageBegins
  <2>10. CASE wl_surface_on_damage_End
    BY <2>10, DamageEnds
  <2>11. CASE wl_surface_on_commit
    BY <2>11, CommitBegins
  <2>12. CASE wl_surface_on_commit_End
    BY <2>12, CommitEnds
  <2>13. CASE wl_shm_pool_on_create_buffer
    BY <2>13, CreateBufferBegins
  <2>14. CASE wl_shm_pool_on_create_buffer_End
    BY <2>14, CreateBufferEnds
  <2>15. CASE Send
    BY <2>15, SendStep
  <2>16. CASE PollInHandler \/ PollInLoop
    BY <2>16, PollStep
  <2> QED BY <1>1, <2>1, <2>2, <2>3, <2>4, <2>5, <2>6, <2>7, <2>8, <2>9, <2>10, <2>11, <2>12,
             <2>13, <2>14, <2>15, <2>16 DEF Loop
<1>2. CASE Device
  BY <1>2, DeviceStep
<1>3. CASE ClientSteps
  <2>1. CASE ClientStart
    BY <2>1 DEF ClientStart
  <2>2. CASE ClientReceives
    BY <2>2, ReceiveStep
  <2>3. CASE ClientMakesWindow
    BY <2>3, MakesWindowStep
  <2>4. CASE \E b \in Buffer, n \in 1..2 : request_frame(b, n)
    BY <2>4, RequestFrameStep
  <2>5. CASE \E b \in Buffer : ClientDestroys("destroy_buffer", b)
    BY <2>5, DestroysStep
  <2>6. CASE \E b \in Buffer, p \in Pool : ClientMakesBuffer(b, p)
    BY <2>6, MakesBufferStep
  <2>7. CASE \E s \in Surface, b \in Buffer : OtherSurface(s, b)
    BY <2>7, OtherSurfaceStep
  <2>8. CASE \E p \in Pool : ClientMakesPool(p)
    BY <2>8, MakesPoolStep
  <2>9. CASE \E p \in Pool : ClientResizes(p)
    BY <2>9, ResizesStep
  <2>10. CASE \E p \in Pool : ClientDestroys("destroy_pool", p)
    <3>1. PICK p \in Pool : ClientDestroys("destroy_pool", p)
      BY <2>10
    <3> QED BY <3>1, DestroysStep
  <2>11. (\E b \in Buffer : \E n \in {1, 2} : request_frame(b, n))
           => \E b \in Buffer, n \in 1..2 : request_frame(b, n)
    OBVIOUS
  <2> QED BY <1>3, <2>1, <2>2, <2>3, <2>4, <2>5, <2>6, <2>7, <2>8, <2>9, <2>10, <2>11 DEF ClientSteps
<1>4. CASE UNCHANGED vars
  <2> USE <1>4 DEF vars, infoVars, shmVars, gpuVars, hostVars, clientVars
  <2>1. CompositorTypeOK'
    BY DEF CompInv, CompositorTypeOK
  <2>2. WindowOK' /\ PoolsOK' /\ BuffersOK'
    <3>1. SameComes
      BY DEF SameComes, NothingComes
    <3> QED BY <3>1, KnownSame
  <2>3. MemoryOK' /\ RequestOK'
    BY MemorySame DEF CompInv, RequestOK
  <2>4. Pending' = Pending
    BY DEF Pending
  <2>5. (Quiet' <=> Quiet) /\ (Creating' <=> Creating)
    BY <2>4 DEF Quiet, Creating
  <2>6. CASE ~ waiting
    BY <2>1, <2>2, <2>3, <2>5, <2>6 DEF CompInv, FramesOK, Between, BetweenFrames
  <2>7. CASE waiting
    <3>1. PICK b \in Buffer, n \in 1..2 : Framing(b, n)
      BY <2>7 DEF CompInv, FramesOK
    <3>2. FrameSent(b, n)' /\ Left' = Left /\ Memory(b)' = Memory(b)
      BY <3>1, FrameSentSame DEF Framing, Memory
    <3>3. (Told' <=> Told) /\ (Flushed' <=> Flushed)
      BY <3>2 DEF Told, Flushed
    <3>4. Drawing(b, n) => Drawing(b, n)'
      <4>1. FrameRequest(b, n) => FrameRequest(b, n)'
        BY <3>2 DEF FrameRequest
      <4>2. FramePending(b) => FramePending(b)'
        BY <2>4, <3>2, <3>3 DEF FramePending
      <4>3. FrameBacked(b) => FrameBacked(b)'
        BY <2>4, <3>2 DEF FrameBacked
      <4>4. FrameShown(b, n) => FrameShown(b, n)'
        <5>1. \A i \in 1..Len(queue) : FenceLast(i) => FenceLast(i)'
          BY <3>3 DEF FenceLast
        <5> QED BY <2>4, <3>2, <3>3, <5>1 DEF FrameShown
      <4> QED BY <3>2, <4>1, <4>2, <4>3, <4>4 DEF Drawing
    <3>5. OnScreen(b) => OnScreen(b)'
      BY <2>5 DEF OnScreen
    <3>6. Framing(b, n)'
      BY <2>5, <3>1, <3>2, <3>3, <3>4, <3>5 DEF Framing
    <3> QED BY <2>1, <2>2, <2>3, <2>7, <3>6 DEF CompInv, FramesOK
  <2> QED BY <2>6, <2>7
<1> QED BY <1>1, <1>2, <1>3, <1>4 DEF Next

\* In every behaviour of nested-virtio.c with a client that waits for its
\* frames, what the compositor, the queue of the gpu and the device know of
\* the client's window, pools, buffers and of its last frame agrees.
THEOREM CompositorInvariant ==
  ASSUME Nested, ~ Clock
  PROVE  Spec => []CompInv
<1>1. Init => CompInv
  BY CompInit
<1>2. CompInv /\ [Next]_vars => CompInv'
  BY CompStep
<1> QED BY <1>1, <1>2, PTL DEF Spec

\* wl_buffer_send_release is never called with NULL (nested-virtio.c:98), and
\* the fence that is waited for is that of a flush that was sent: for a client
\* that commits again only when its frame is done, also if the fence is seen by a
\* handler that polls in the middle of creating a buffer.
THEOREM FenceHasBufferAlways ==
  ASSUME Nested, ~ Clock
  PROVE  Spec => []FenceHasBuffer
<1>1. CompInv => FenceHasBuffer
  <2> SUFFICES ASSUME CompInv, write_fence
               PROVE  buffer # None /\ \E i \in DOMAIN queue : queue[i].fence = fence_id
    BY DEF FenceHasBuffer
  <2>1. ~ Told /\ ~ Quiet
    BY DEF Told, Quiet
  <2>2. PICK b \in Buffer, n \in 1..2 : Drawing(b, n) /\ Framing(b, n)
    BY <2>1, QuietOrDraws
  <2>3. Left = 0 /\ request.op # "commit" /\ Left <= n
    <3>1. Left = 0 /\ request.op # "commit"
      BY <2>2 DEF Drawing
    <3> QED BY <3>1
  <2>4. buffer = b /\ Flushed
    BY <2>1, <2>2, <2>3 DEF Drawing, Flushed
  <2>5. PICK i \in 1..Len(queue) : queue[i].fence = fence_id
    BY <2>2, <2>4 DEF Drawing, FrameShown
  <2>6. i \in DOMAIN queue
    BY LenProperties DEF CompInv, CompositorTypeOK
  <2> QED BY <2>4, <2>5, <2>6, CompositorAssumption
<1> QED BY <1>1, CompositorInvariant, PTL

\* Who is told that a frame is done finds it on the screen.
THEOREM DoneMeansShownAlways ==
  ASSUME Nested, ~ Clock
  PROVE  Spec => []DoneMeansShown
<1>1. CompInv => DoneMeansShown
  <2> SUFFICES ASSUME CompInv, NEW i \in DOMAIN events, events[i].op = "done"
               PROVE  screen = events[i].of
    BY DEF DoneMeansShown
  <2>1. events # << >>
    OBVIOUS
  <2>2. ~ Quiet
    BY <2>1 DEF Quiet
  <2>3. PICK b \in Buffer : OnScreen(b)
    BY <2>1, <2>2, QuietOrDraws DEF Drawing
  <2>4. CASE events = <<Msg("release", b, None), Msg("done", drawn, None)>>
    BY <2>3, <2>4 DEF OnScreen, Msg
  <2>5. CASE events = <<Msg("done", drawn, None)>>
    BY <2>3, <2>5 DEF OnScreen, Msg
  <2> QED BY <2>3, <2>4, <2>5 DEF OnScreen
<1> QED BY <1>1, CompositorInvariant, PTL

\* By the time a client may draw, its buffers have been released, and nothing
\* is left of the last frame that reads them, whatever buffers it has made since.
THEOREM NoTornFrameAlways ==
  ASSUME Nested, ~ Clock
  PROVE  Spec => []NoTornFrame
<1>1. CompInv => NoTornFrame
  <2> SUFFICES ASSUME CompInv, ~ waiting
               PROVE  /\ busy = {}
                      /\ \A i \in DOMAIN todo : todo[i].op # "transfer"
                      /\ \A i \in done + 1..Len(queue) : queue[i].op # "transfer"
    BY DEF NoTornFrame
  <2>1. Between /\ Quiet /\ busy = {}
    BY DEF CompInv, FramesOK, Between
  <2>2. todo = << >> \/ todo = <<Cmd("create", request.of)>>
    BY <2>1 DEF Quiet, CompInv, RequestOK
  <2>3. \A i \in DOMAIN todo : todo[i].op # "transfer"
    BY <2>2 DEF Cmd
  <2>4. ASSUME NEW i \in done + 1..Len(queue)
        PROVE  queue[i].op # "transfer"
    <3>1. /\ Len(Pending) = Len(queue) - done /\ Len(queue) \in Nat /\ done \in 0..Len(queue)
          /\ \A j \in 1..Len(Pending) : Pending[j] = queue[done + j]
      BY PendingFacts DEF CompInv
    <3>2. PICK j \in 1..Len(Pending) : i = done + j
      BY <3>1
    <3> QED BY <2>1, <3>1, <3>2 DEF Quiet, Creating
  <2> QED BY <2>1, <2>3, <2>4
<1> QED BY <1>1, CompositorInvariant, PTL

\* The memory of a pool is mapped for as long as the pool or a buffer of it
\* lives, and the device reads none that is not (nested-virtio.c:258, 304 and
\* 319): for a client that may destroy the pool of a frame, resize and destroy
\* others, and make and destroy other buffers, at any time, and leaves the buffer
\* of a frame, and the size of its pool, alone until the frame is done.
THEOREM ReadsMappedAlways ==
  ASSUME Nested, ~ Clock
  PROVE  Spec => []ReadsMapped
<1>1. CompInv => ReadsMapped
  <2> SUFFICES ASSUME CompInv, NEW i \in done + 1..Len(queue)
               PROVE  /\ queue[i].op = "attach" => queue[i].mem \in mapped
                      /\ queue[i].op = "transfer" /\ i = done + 1 =>
                           backing[queue[i].rsc] \in mapped
    BY DEF ReadsMapped, CompInv, MemoryOK
  <2>1. /\ Len(Pending) = Len(queue) - done /\ Len(queue) \in Nat /\ done \in 0..Len(queue)
        /\ \A j \in 1..Len(Pending) : Pending[j] = queue[done + j]
    BY PendingFacts DEF CompInv
  <2>2. PICK j \in 1..Len(Pending) : i = done + j
    <3>1. Len(Pending) = Len(queue) - done /\ Len(queue) \in Nat /\ done \in 0..Len(queue)
      BY <2>1
    <3>2. i - done \in 1..Len(Pending) /\ i = done + (i - done)
      BY <3>1
    <3> QED BY <3>2
  <2>3. Pending[j] = queue[i] /\ (i = done + 1 => j = 1)
    BY <2>1, <2>2
  <2>4. CASE Creating
    BY <2>2, <2>3, <2>4 DEF Creating
  <2>5. CASE ~ Creating
    <3>1. ~ Quiet
      BY <2>5 DEF Quiet
    <3>2. PICK b \in Buffer, n \in 1..2 : Drawing(b, n)
      BY <2>5, <3>1, QuietOrDraws DEF OnScreen
    <3>3. FramePending(b) /\ FrameBacked(b) /\ Memory(b) \in mapped
      BY <3>2, MemoryMapped DEF Drawing
    <3>4. queue[i].op = "attach" => queue[i].mem \in mapped
      BY <2>2, <2>3, <3>3 DEF FramePending
    <3>5. queue[i].op = "transfer" => queue[i].rsc = b
      BY <2>2, <2>3, <3>3 DEF FramePending
    <3>6. queue[i].op = "transfer" /\ i = done + 1 => backing[b] \in mapped
      BY <2>2, <2>3, <3>3 DEF FrameBacked
    <3> QED BY <3>4, <3>5, <3>6
  <2> QED BY <2>4, <2>5
<1> QED BY <1>1, CompositorInvariant, PTL

=============================================================================
