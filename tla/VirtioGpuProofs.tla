--------------------------- MODULE VirtioGpuProofs ---------------------------
(***************************************************************************)
(* Proofs about module VirtioGpu, for every number of descriptors, slots,  *)
(* resources and contexts and every width of the fence counter.            *)
(***************************************************************************)
EXTENDS VirtioGpu, FiniteSetTheorems, SequenceTheorems, TLAPS

-----------------------------------------------------------------------------
(* The inductive invariant.                                                *)

\* A request is in one place of the channel, once.
Exclusive ==
  /\ \A i, j \in DOMAIN submitted : submitted[i] = submitted[j] => i = j
  /\ \A i, j \in DOMAIN completed : completed[i] = completed[j] => i = j
  /\ Elements(submitted) \cap (serving \cup Elements(completed) \cup received) = {}
  /\ serving \cap (Elements(completed) \cup received) = {}
  /\ Elements(completed) \cap received = {}

ChannelOK ==
  /\ submitted \in Seq(Request) /\ completed \in Seq(Request)
  /\ serving \subseteq Request /\ received \subseteq Request
  /\ Exclusive

\* What pc, ret and found say of the thread's slots.
Polling == pc \in {"poll", "clear", "event", "drain", "received"}

ControlOK ==
  /\ ret = "alloc"  => Polling \/ pc \in {"alloc", "send"}
  /\ ret = "fences" => Polling \/ pc = "fences"
  /\ ret = "wait"   => pc \in {"clear", "event", "drain", "received", "check"}
  /\ pc = "check"   => ret = "wait" /\ found
  /\ pc \in {"idle", "fences"} => call = NoCmd
  /\ Polling /\ ret \in {"idle", "fences"} => call = NoCmd
  /\ IF ret = "wait" THEN slot \in Request /\ cmds[slot] = call /\ call.sync
     ELSE IF pc = "send" THEN slot \in Request \ Busy
     ELSE slot = NoSlot
  /\ found => ret = "wait" /\ pc \in {"drain", "received", "check"}
  /\ pc = "received" => got \in received /\ (found => got # slot)
  /\ pc # "received" => got = NoSlot
  /\ received = (IF found THEN {slot} ELSE {}) \cup (IF pc = "received" THEN {got} ELSE {})
  /\ ret = "wait" /\ ~ found => slot \in Busy
  /\ seen <= Len(completed)
  /\ seen > 0 => pc \in {"drain", "received"}

\* A completion that has not been seen comes with an interrupt, and nobody
\* polls for nothing.
InterruptOK ==
  /\ Len(completed) > seen => irq \/ raise \/ pc = "event"
  /\ pc \in {"poll", "clear"} =>
       /\ ret = "idle" => irq
       /\ ret = "alloc" => free_count < call.iovcnt
       /\ ret = "fences" => fence_submitted # fence_completed

\* Every descriptor is free, in a command, or allocated for the next one.
Descs(S) == 2 * Cardinality(S) + Cardinality(Held(S))

DescriptorsOK ==
  free_count + Descs(Busy) + (IF pc = "send" THEN call.iovcnt ELSE 0) = N

\* The call in progress has not sent its command.
Preparing == ret # "wait"

\* What the command of a call may be.
CallOK ==
  /\ call.op = "create" => call.rsc # 0
  /\ call.op = "unref" => call.rsc # 0 /\ call.sync
  /\ call.op = "ctx_create" => call.ctx # 0 /\ call.sync
  /\ call.fenced => call.sync /\ call.op # "flush"
  /\ call.op = "flush" => ~ call.sync

\* A command that is waited for is sent last.
SyncIsLast ==
  /\ \A i \in DOMAIN submitted : LET c == cmds[submitted[i]] IN
       c.sync \/ c.op \in {"unref", "ctx_create"} => ret = "wait" /\ submitted[i] = slot
  /\ ret = "wait" /\ submitted # << >> => submitted[Len(submitted)] = slot

\* The free list: next leads through distinct ids, none of them in use.
InUse == live \cup IF call.op = "unref" THEN {call.rsc} ELSE {}

FreeList(n, path) ==
  /\ \A i, j \in 1..n : path[i] = path[j] => i = j
  /\ \A i \in 1..n : path[i] \notin InUse
  /\ free_rsc_id = IF n = 0 THEN 0 ELSE path[1]
  /\ \A i \in 1..n : next[path[i]] = IF i = n THEN 0 ELSE path[i + 1]

FreeIdsOK ==
  \E n \in Nat : \E path \in [1..n -> 1..rscs_size] : FreeList(n, path)

\* The device has r, or gets it from one of the first n commands it is sent.
Creates(i, r) == cmds[submitted[i]].op = "create" /\ cmds[submitted[i]].rsc = r
WillHave(r, n) == r \in hostRsc \/ \E i \in 1..n : Creates(i, r)

\* c is the command at place i of the queue.
Queued(i, c) ==
  /\ c.rsc # 0 => c.rsc \in InUse
  /\ c.op = "create" => /\ c.rsc # 0 /\ c.rsc \notin hostRsc
                        /\ \A j \in DOMAIN submitted : Creates(j, c.rsc) => j = i
  /\ c.op # "create" /\ c.rsc # 0 => WillHave(c.rsc, i - 1)

ResourcesOK ==
  /\ InUse \subseteq 1..rscs_size
  /\ call.op = "unref" => call.rsc \notin live
  /\ call.op # "unref" /\ call.rsc # 0 /\ Preparing => call.rsc \in live
  /\ hostRsc \subseteq InUse
  /\ \A i \in DOMAIN submitted : Queued(i, cmds[submitted[i]])
  /\ Preparing /\ call.op = "create" => ~ WillHave(call.rsc, Len(submitted))
  /\ Preparing /\ call.op = "unref" => WillHave(call.rsc, Len(submitted))
  /\ \A r \in live : \/ WillHave(r, Len(submitted))
                     \/ Preparing /\ call.op = "create" /\ call.rsc = r
  /\ ret = "wait" /\ call.op = "unref" /\ submitted = << >> => call.rsc \notin hostRsc

ContextsOK ==
  /\ hostCtx \subseteq 1..ctxs_size
  /\ call.ctx <= ctxs_size
  /\ \A c \in 1..ctxs_size : c \notin hostCtx <=>
       /\ call.op = "ctx_create" /\ call.ctx = c
       /\ Preparing \/ submitted # << >>
  /\ call.op # "ctx_create" => call.ctx \in hostCtx \cup {0}
  /\ \A i \in DOMAIN submitted : LET c == cmds[submitted[i]] IN
       c.op # "ctx_create" => c.ctx \in hostCtx \cup {0}

\* The device has refused nothing, and answers with the fence of the command.
AnswersOK ==
  /\ refused = {}
  /\ \A id \in Elements(completed) \cup received :
       response[id] = [ok |-> TRUE, fenced |-> cmds[id].fenced,
                       fence |-> cmds[id].fence]

\* fenceq is the fenced part of serving.
FenceQueueOK ==
  /\ \A i, j \in DOMAIN fenceq : fenceq[i] = fenceq[j] => i = j
  /\ Elements(fenceq) = {id \in serving : cmds[id].fenced}

\* Which of two requests comes first on its way through the device.
Before(s, a, b) == \E i, j \in DOMAIN s : i < j /\ s[i] = a /\ s[j] = b
Precedes(a, b) ==
  \/ Before(completed, a, b) \/ Before(fenceq, a, b) \/ Before(submitted, a, b)
  \/ a \in Elements(completed) /\ b \in serving \cup Elements(submitted)
  \/ a \in serving /\ b \in Elements(submitted)

\* The fences not yet reported are those that follow fence_completed, in the
\* order of their requests.
Dist(f, g) == IF f <= g THEN g - f ELSE g - f + F
Place(id) == Dist(fence_completed, cmds[id].fence)
Sent == Dist(fence_completed, fence_submitted) - IF Unsent THEN 1 ELSE 0

FencesOK ==
  /\ Cardinality(Unreported) = Sent
  /\ Unsent => call.fence = fence_submitted
  /\ \A id \in Unreported : Place(id) \in 1..Sent
  /\ \A k \in 1..Sent : \E id \in Unreported : Place(id) = k
  /\ \A a, b \in Unreported : Precedes(a, b) => Place(a) < Place(b)
  /\ \A a, b \in Unreported : Place(a) = Place(b) => a = b

GpuInv ==
  /\ GpuTypeOK /\ Exclusive /\ ControlOK /\ InterruptOK /\ DescriptorsOK
  /\ CallOK /\ SyncIsLast /\ FreeIdsOK /\ ResourcesOK /\ ContextsOK
  /\ AnswersOK /\ FenceQueueOK /\ FencesOK

-----------------------------------------------------------------------------
(* Sequences.                                                              *)

\* A sequence of requests and what it holds.
LEMMA SeqFacts ==
  ASSUME NEW s \in Seq(Request)
  PROVE  /\ Len(s) \in Nat /\ DOMAIN s = 1..Len(s)
         /\ \A i \in 1..Len(s) : s[i] \in Request /\ s[i] \in Elements(s)
         /\ Elements(s) \subseteq Request
         /\ \A x \in Elements(s) : \E i \in 1..Len(s) : s[i] = x
         /\ s = << >> <=> Len(s) = 0
         /\ s = << >> <=> Elements(s) = {}
<1>1. Len(s) \in Nat /\ DOMAIN s = 1..Len(s) /\ s \in [1..Len(s) -> Request]
  BY LenProperties
<1>2. s = << >> <=> Len(s) = 0
  BY EmptySeq, <1>1
<1>3. s # << >> => 1 \in 1..Len(s)
  BY <1>1, <1>2
<1>4. s = << >> => 1..Len(s) = {}
  BY <1>1, <1>2
<1> QED BY <1>1, <1>2, <1>3, <1>4 DEF Elements

\* A request is put at the end of a queue.
LEMMA AppendFacts ==
  ASSUME NEW s \in Seq(Request), NEW x \in Request
  PROVE  /\ Append(s, x) \in Seq(Request) /\ Append(s, x) # << >>
         /\ Len(Append(s, x)) = Len(s) + 1
         /\ \A i \in 1..Len(s) : Append(s, x)[i] = s[i]
         /\ Append(s, x)[Len(s) + 1] = x
         /\ Elements(Append(s, x)) = Elements(s) \cup {x}
<1>1. /\ Append(s, x) \in Seq(Request) /\ Append(s, x) # << >>
      /\ Len(Append(s, x)) = Len(s) + 1
      /\ \A i \in 1..Len(s) : Append(s, x)[i] = s[i]
      /\ Append(s, x)[Len(s) + 1] = x
  BY AppendProperties
<1>2. /\ DOMAIN Append(s, x) = 1..(Len(s) + 1) /\ Len(s) \in Nat
      /\ DOMAIN s = 1..Len(s)
  BY <1>1, LenProperties
<1>3. \A i \in 1..(Len(s) + 1) : i \in 1..Len(s) \/ i = Len(s) + 1
  BY <1>2
<1>4. Len(s) + 1 \in 1..(Len(s) + 1) /\ \A i \in 1..Len(s) : i \in 1..(Len(s) + 1)
  BY <1>2
<1> QED BY <1>1, <1>2, <1>3, <1>4 DEF Elements

\* The first request of a queue without repetitions is taken.
LEMMA TailFacts ==
  ASSUME NEW s \in Seq(Request), s # << >>,
         \A i, j \in DOMAIN s : s[i] = s[j] => i = j
  PROVE  /\ Head(s) = s[1] /\ Head(s) \in Request /\ Head(s) \in Elements(s)
         /\ Tail(s) \in Seq(Request) /\ Len(Tail(s)) = Len(s) - 1
         /\ \A i \in 1..Len(Tail(s)) : Tail(s)[i] = s[i + 1]
         /\ Elements(Tail(s)) = Elements(s) \ {Head(s)}
<1>1. /\ Head(s) \in Request /\ Tail(s) \in Seq(Request)
      /\ Len(Tail(s)) = Len(s) - 1
      /\ \A i \in 1..Len(Tail(s)) : Tail(s)[i] = s[i + 1]
  BY HeadTailProperties
<1>2. /\ Len(s) \in Nat \ {0} /\ DOMAIN s = 1..Len(s)
      /\ DOMAIN Tail(s) = 1..(Len(s) - 1)
  BY <1>1, LenProperties, EmptySeq
<1>3. Head(s) = s[1] /\ 1 \in DOMAIN s
  BY <1>2, HeadTailOfSubSeq, SubSeqFull
<1>4. \A i \in 1..Len(s) : i = 1 \/ (i - 1 \in 1..(Len(s) - 1) /\ (i - 1) + 1 = i)
  BY <1>2
<1>5. \A i \in 1..(Len(s) - 1) : i + 1 \in 1..Len(s) /\ i + 1 # 1
  BY <1>2
<1>6. ASSUME NEW x \in Elements(Tail(s))
      PROVE  x \in Elements(s) /\ x # Head(s)
  <2>1. PICK i \in 1..(Len(s) - 1) : Tail(s)[i] = x
    BY <1>2, <1>6 DEF Elements
  <2>2. x = s[i + 1] /\ i + 1 \in DOMAIN s /\ i + 1 # 1
    BY <2>1, <1>1, <1>2, <1>5
  <2> QED BY <2>2, <1>3 DEF Elements
<1>7. ASSUME NEW x \in Elements(s), x # Head(s)
      PROVE  x \in Elements(Tail(s))
  <2>1. PICK i \in 1..Len(s) : s[i] = x
    BY <1>2 DEF Elements
  <2>2. i - 1 \in DOMAIN Tail(s) /\ Tail(s)[i - 1] = x
    BY <2>1, <1>1, <1>2, <1>3, <1>4, <1>7
  <2> QED BY <2>2 DEF Elements
<1> QED BY <1>1, <1>3, <1>6, <1>7 DEF Elements

-----------------------------------------------------------------------------
(* Fence ids.                                                              *)

\* What the assumption says of the number of fence ids.
LEMMA FenceRange == F \in Nat /\ F > 1 /\ 2 * F > N + 2 /\ N \in Nat /\ N >= 3
BY GpuAssumption

\* ++ on a uint32_t: it wraps from F-1 to 0 and nowhere else.
LEMMA SuccValue ==
  ASSUME NEW f \in Fence
  PROVE  Succ(f) = (IF f = F - 1 THEN 0 ELSE f + 1) /\ Succ(f) \in Fence
BY FenceRange DEF Succ, Fence

\* Dist is the difference of two fence ids modulo F.
LEMMA DistValue ==
  ASSUME NEW f \in Fence, NEW g \in Fence
  PROVE  /\ Dist(f, g) = (g - f) % F
         /\ Dist(f, g) \in 0..F-1
         /\ Dist(f, g) = 0 <=> f = g
         /\ Dist(f, g) < F - 1 => Dist(f, Succ(g)) = Dist(f, g) + 1
         /\ f # g => Dist(Succ(f), g) = Dist(f, g) - 1
<1>1. CASE f <= g
  BY <1>1, SuccValue, FenceRange DEF Dist, Fence
<1>2. CASE f > g
  <2>1. (g - f) % F = g - f + F
    BY <1>2, FenceRange DEF Fence
  <2> QED BY <1>2, <2>1, SuccValue, FenceRange DEF Dist, Fence
<1> QED BY <1>1, <1>2, FenceRange DEF Fence

-----------------------------------------------------------------------------
(* The steps of the channel.                                               *)

\* Send, Take, Answer, Receive and Release move one request from one place to
\* the next.
LEMMA SendStep ==
  ASSUME ChannelOK, NEW r \in Request, Send(r)
  PROVE  /\ ChannelOK' /\ r \notin Busy /\ Busy' = Busy \cup {r}
         /\ Elements(submitted)' = Elements(submitted) \cup {r}
         /\ Len(submitted)' = Len(submitted) + 1
         /\ \A i \in 1..Len(submitted) : submitted'[i] = submitted[i]
         /\ submitted'[Len(submitted) + 1] = r
<1> DEFINE t == Append(submitted, r)
<1>1. /\ t \in Seq(Request) /\ Elements(t) = Elements(submitted) \cup {r}
      /\ Len(t) = Len(submitted) + 1
      /\ \A i \in 1..Len(submitted) : t[i] = submitted[i]
      /\ t[Len(submitted) + 1] = r
  BY AppendFacts DEF ChannelOK
<1>2. /\ DOMAIN t = 1..Len(t) /\ Len(submitted) \in Nat
      /\ DOMAIN submitted = 1..Len(submitted)
      /\ \A i \in 1..Len(submitted) : submitted[i] \in Elements(submitted)
  BY <1>1, SeqFacts DEF ChannelOK
<1>3. r \notin Busy /\ submitted' = t /\ UNCHANGED <<serving, completed, received>>
  BY DEF Send
<1> HIDE DEF t
<1>4. \A i, j \in DOMAIN t : t[i] = t[j] => i = j
  BY <1>1, <1>2, <1>3 DEF ChannelOK, Exclusive, Busy
<1> QED BY <1>1, <1>2, <1>3, <1>4 DEF ChannelOK, Exclusive, Busy

LEMMA TakeStep ==
  ASSUME ChannelOK, Take
  PROVE  /\ ChannelOK' /\ Busy' = Busy
         /\ Head(submitted) = submitted[1] /\ Head(submitted) \in Request
         /\ Head(submitted) \in Elements(submitted)
         /\ Elements(submitted)' = Elements(submitted) \ {Head(submitted)}
         /\ serving' = serving \cup {Head(submitted)}
         /\ Len(submitted)' = Len(submitted) - 1
         /\ \A i \in 1..Len(submitted)' : submitted'[i] = submitted[i + 1]
<1> DEFINE t == Tail(submitted)
<1>1. /\ t \in Seq(Request) /\ Head(submitted) = submitted[1]
      /\ Head(submitted) \in Request /\ Head(submitted) \in Elements(submitted)
      /\ Elements(t) = Elements(submitted) \ {Head(submitted)}
      /\ Len(t) = Len(submitted) - 1
      /\ \A i \in 1..Len(t) : t[i] = submitted[i + 1]
  BY TailFacts DEF ChannelOK, Exclusive, Take
<1>2. /\ DOMAIN t = 1..Len(t) /\ Len(submitted) \in Nat /\ Len(t) \in Nat
      /\ DOMAIN submitted = 1..Len(submitted)
      /\ \A i \in 1..Len(t) : i + 1 \in 1..Len(submitted)
  BY <1>1, SeqFacts DEF ChannelOK
<1>3. /\ submitted' = t /\ serving' = serving \cup {Head(submitted)}
      /\ UNCHANGED <<completed, received>>
  BY DEF Take
<1> HIDE DEF t
<1>4. ASSUME NEW i \in 1..Len(t), NEW j \in 1..Len(t), t[i] = t[j]
      PROVE  i = j
  <2>1. submitted[i + 1] = submitted[j + 1] /\ i + 1 \in DOMAIN submitted /\ j + 1 \in DOMAIN submitted
    BY <1>1, <1>2, <1>4
  <2>2. i + 1 = j + 1
    BY <2>1 DEF ChannelOK, Exclusive
  <2> QED BY <2>2
<1>5. Exclusive'
  <2>1. /\ Elements(submitted)' = Elements(submitted) \ {Head(submitted)}
        /\ Elements(completed)' = Elements(completed)
    BY <1>1, <1>3
  <2>2. /\ Elements(submitted)' \cap (serving' \cup Elements(completed)' \cup received') = {}
        /\ serving' \cap (Elements(completed)' \cup received') = {}
    BY <2>1, <1>1, <1>3 DEF ChannelOK, Exclusive
  <2>3. \A i, j \in DOMAIN submitted' : submitted'[i] = submitted'[j] => i = j
    BY <1>2, <1>3, <1>4
  <2> QED BY <2>1, <2>2, <2>3, <1>3 DEF ChannelOK, Exclusive
<1>6. ChannelOK'
  BY <1>1, <1>3, <1>5 DEF ChannelOK
<1>7. Busy' = Busy
  BY <1>1, <1>3 DEF Busy
<1> QED BY <1>1, <1>3, <1>6, <1>7

LEMMA AnswerStep ==
  ASSUME ChannelOK, NEW r \in Request, Answer(r)
  PROVE  /\ ChannelOK' /\ Busy' = Busy /\ r \in serving
         /\ Elements(completed)' = Elements(completed) \cup {r}
         /\ Len(completed)' = Len(completed) + 1
         /\ \A i \in 1..Len(completed) : completed'[i] = completed[i]
         /\ completed'[Len(completed) + 1] = r
<1> DEFINE t == Append(completed, r)
<1>1. /\ t \in Seq(Request) /\ Elements(t) = Elements(completed) \cup {r}
      /\ Len(t) = Len(completed) + 1
      /\ \A i \in 1..Len(completed) : t[i] = completed[i]
      /\ t[Len(completed) + 1] = r
  BY AppendFacts DEF ChannelOK
<1>2. /\ DOMAIN t = 1..Len(t) /\ Len(completed) \in Nat
      /\ DOMAIN completed = 1..Len(completed)
      /\ \A i \in 1..Len(completed) : completed[i] \in Elements(completed)
  BY <1>1, SeqFacts DEF ChannelOK
<1>3. /\ r \in serving /\ completed' = t /\ serving' = serving \ {r}
      /\ UNCHANGED <<submitted, received>>
  BY DEF Answer
<1> HIDE DEF t
<1>4. \A i, j \in DOMAIN t : t[i] = t[j] => i = j
  BY <1>1, <1>2, <1>3 DEF ChannelOK, Exclusive
<1> QED BY <1>1, <1>2, <1>3, <1>4 DEF ChannelOK, Exclusive, Busy

LEMMA ReceiveStep ==
  ASSUME ChannelOK, Receive
  PROVE  /\ ChannelOK' /\ Busy' = Busy
         /\ Head(completed) = completed[1] /\ Head(completed) \in Request
         /\ Head(completed) \in Elements(completed)
         /\ Elements(completed)' = Elements(completed) \ {Head(completed)}
         /\ received' = received \cup {Head(completed)}
         /\ Len(completed)' = Len(completed) - 1
         /\ \A i \in 1..Len(completed)' : completed'[i] = completed[i + 1]
<1> DEFINE t == Tail(completed)
<1>1. /\ t \in Seq(Request) /\ Head(completed) = completed[1]
      /\ Head(completed) \in Request /\ Head(completed) \in Elements(completed)
      /\ Elements(t) = Elements(completed) \ {Head(completed)}
      /\ Len(t) = Len(completed) - 1
      /\ \A i \in 1..Len(t) : t[i] = completed[i + 1]
  BY TailFacts DEF ChannelOK, Exclusive, Receive
<1>2. /\ DOMAIN t = 1..Len(t) /\ Len(completed) \in Nat /\ Len(t) \in Nat
      /\ DOMAIN completed = 1..Len(completed)
      /\ \A i \in 1..Len(t) : i + 1 \in 1..Len(completed)
  BY <1>1, SeqFacts DEF ChannelOK
<1>3. /\ completed' = t /\ received' = received \cup {Head(completed)}
      /\ UNCHANGED <<submitted, serving>>
  BY DEF Receive
<1> HIDE DEF t
<1>4. ASSUME NEW i \in 1..Len(t), NEW j \in 1..Len(t), t[i] = t[j]
      PROVE  i = j
  <2>1. completed[i + 1] = completed[j + 1] /\ i + 1 \in DOMAIN completed /\ j + 1 \in DOMAIN completed
    BY <1>1, <1>2, <1>4
  <2>2. i + 1 = j + 1
    BY <2>1 DEF ChannelOK, Exclusive
  <2> QED BY <2>2
<1>5. Exclusive'
  <2>1. \A i, j \in DOMAIN completed' : completed'[i] = completed'[j] => i = j
    BY <1>2, <1>3, <1>4
  <2>2. /\ Elements(completed)' \subseteq Elements(completed)
        /\ Head(completed) \notin Elements(completed)'
        /\ Elements(submitted)' = Elements(submitted)
    <3>1. Elements(completed)' = Elements(t) /\ Elements(submitted)' = Elements(submitted)
      BY <1>3 DEF Elements
    <3> QED BY <1>1, <3>1
  <2> QED BY <1>1, <1>3, <2>1, <2>2 DEF ChannelOK, Exclusive
<1>6. ChannelOK'
  BY <1>1, <1>3, <1>5 DEF ChannelOK
<1>7. Busy' = Busy
  BY <1>1, <1>3 DEF Busy
<1> QED BY <1>1, <1>3, <1>6, <1>7

LEMMA ReleaseStep ==
  ASSUME ChannelOK, NEW r, Release(r)
  PROVE  /\ ChannelOK' /\ r \in received /\ r \in Busy /\ Busy' = Busy \ {r}
         /\ received' = received \ {r}
BY DEF Release, ChannelOK, Exclusive, Busy

-----------------------------------------------------------------------------
(* The steps of the program, sorted by what they may change.               *)

\* A call that names only what exists.
PlainCall(c) ==
  /\ c.op \in {"use", "flush"} /\ ~ c.fenced /\ (c.op = "flush" => ~ c.sync)
  /\ c.rsc \in live \cup {0} /\ c.ctx \in 0..ctxs_size
  /\ buf' \in [Rsc -> BOOLEAN]
  /\ UNCHANGED <<fence_submitted, rscs_size, free_rsc_id, next, ctxs_size, live>>

CreateCall(c) ==
  /\ c.op = "create" /\ ~ c.fenced /\ c.rsc \in Rsc /\ c.ctx = 0
  /\ virtio_gpu_resource_alloc(c.rsc)
  /\ live' = live \cup {c.rsc}
  /\ UNCHANGED <<fence_submitted, ctxs_size>>

UnrefCall(c) ==
  /\ c.op = "unref" /\ ~ c.fenced /\ c.sync /\ c.rsc \in live /\ c.ctx = 0
  /\ live' = live \ {c.rsc}
  /\ UNCHANGED <<fence_submitted, rscs_size, free_rsc_id, next, buf, ctxs_size>>

ContextCall(c) ==
  /\ c.op = "ctx_create" /\ ~ c.fenced /\ c.sync /\ c.rsc = 0
  /\ c.ctx = ctxs_size + 1 /\ c.ctx \in Ctx /\ ctxs_size' = c.ctx
  /\ UNCHANGED <<fence_submitted, rscs_size, free_rsc_id, next, buf, live>>

FencedCall(c) ==
  /\ c.op = "use" /\ c.fenced /\ c.sync /\ c.rsc = 0 /\ c.ctx \in 1..ctxs_size
  /\ c.fence = Succ(fence_submitted) /\ fence_submitted' = c.fence
  /\ UNCHANGED idVars

\* Every command of the driver is one of these.
LEMMA Calls ==
  ASSUME GpuTypeOK, Call
  PROVE  \E c \in Command :
           /\ Enter(c)
           /\ \/ PlainCall(c) \/ CreateCall(c) \/ UnrefCall(c)
              \/ ContextCall(c) \/ FencedCall(c)
<1> USE DEF Cmd, Command
<1>0. /\ 0 \in 0..R /\ 0 \in 0..C /\ 0 \in Fence /\ 0 \in 0..ctxs_size
      /\ \A r \in Rsc : r \in 0..R
      /\ \A c \in Ctx : c \in 0..C /\ (c <= ctxs_size => c \in 1..ctxs_size /\ c \in 0..ctxs_size)
  <2>1. ctxs_size \in 0..C /\ C \in Nat /\ R \in Nat /\ F \in Nat /\ F > 0
    BY GpuAssumption DEF GpuTypeOK
  <2>2. 0 \in 0..R /\ 0 \in 0..C /\ 0 \in Fence /\ 0 \in 0..ctxs_size
    BY <2>1 DEF Fence
  <2>3. ASSUME NEW c \in Ctx
        PROVE  c \in 0..C /\ (c <= ctxs_size => c \in 1..ctxs_size /\ c \in 0..ctxs_size)
    BY <2>1 DEF Ctx
  <2> QED BY <2>1, <2>2, <2>3 DEF Rsc
<1>1. CASE query
  <2>1. PICK k \in {2, 3} : Enter(Cmd("use", 0, 0, k, TRUE))
    BY <1>1 DEF query
  <2>2. Cmd("use", 0, 0, k, TRUE) \in Command /\ PlainCall(Cmd("use", 0, 0, k, TRUE))
    BY <1>0, <1>1 DEF query, PlainCall, idVars, GpuTypeOK
  <2> HIDE DEF Cmd
  <2> QED BY <2>1, <2>2
<1>2. ASSUME NEW r \in Rsc, NEW sync \in BOOLEAN, create(r, sync)
      PROVE  \E c \in Command : Enter(c) /\ CreateCall(c)
  <2>1. Cmd("create", r, 0, 2, sync) \in Command
    BY <1>0
  <2>2. CreateCall(Cmd("create", r, 0, 2, sync)) /\ Enter(Cmd("create", r, 0, 2, sync))
    BY <1>2 DEF create, CreateCall
  <2> HIDE DEF Cmd
  <2> QED BY <2>1, <2>2
<1>3. ASSUME NEW r \in Rsc, virtio_gpu_resource_unref(r)
      PROVE  \E c \in Command : Enter(c) /\ UnrefCall(c)
  <2>1. Cmd("unref", r, 0, 2, TRUE) \in Command
    BY <1>0
  <2>2. UnrefCall(Cmd("unref", r, 0, 2, TRUE)) /\ Enter(Cmd("unref", r, 0, 2, TRUE))
    BY <1>3 DEF virtio_gpu_resource_unref, UnrefCall
  <2> HIDE DEF Cmd
  <2> QED BY <2>1, <2>2
<1>4. ASSUME NEW r \in Rsc, NEW attached \in BOOLEAN, backing(r, attached)
      PROVE  \E c \in Command : Enter(c) /\ PlainCall(c)
  <2>1. Cmd("use", r, 0, 2, FALSE) \in Command
    BY <1>0
  <2>2. PlainCall(Cmd("use", r, 0, 2, FALSE)) /\ Enter(Cmd("use", r, 0, 2, FALSE))
    BY <1>0, <1>4 DEF backing, PlainCall, GpuTypeOK
  <2> HIDE DEF Cmd
  <2> QED BY <2>1, <2>2
<1>5. ASSUME NEW r \in Rsc, use_2d(r)
      PROVE  \E c \in Command : Enter(c) /\ PlainCall(c)
  <2>1. Cmd("use", r, 0, 2, FALSE) \in Command
    BY <1>0
  <2>2. PlainCall(Cmd("use", r, 0, 2, FALSE)) /\ Enter(Cmd("use", r, 0, 2, FALSE))
    BY <1>0, <1>5 DEF use_2d, PlainCall, GpuTypeOK, idVars
  <2> HIDE DEF Cmd
  <2> QED BY <2>1, <2>2
<1>6. ASSUME NEW r \in Rsc, virtio_gpu_resource_flush(r)
      PROVE  \E c \in Command : Enter(c) /\ PlainCall(c)
  <2>1. Cmd("flush", r, 0, 2, FALSE) \in Command
    BY <1>0
  <2>2. PlainCall(Cmd("flush", r, 0, 2, FALSE)) /\ Enter(Cmd("flush", r, 0, 2, FALSE))
    BY <1>0, <1>6 DEF virtio_gpu_resource_flush, PlainCall, GpuTypeOK, idVars
  <2> HIDE DEF Cmd
  <2> QED BY <2>1, <2>2
<1>7. ASSUME NEW r \in Rsc, NEW c \in Ctx, use_3d(r, c)
      PROVE  \E d \in Command : Enter(d) /\ PlainCall(d)
  <2>1. Cmd("use", r, c, 2, TRUE) \in Command
    BY <1>0
  <2>2. PlainCall(Cmd("use", r, c, 2, TRUE)) /\ Enter(Cmd("use", r, c, 2, TRUE))
    BY <1>0, <1>7 DEF use_3d, PlainCall, GpuTypeOK, idVars
  <2> HIDE DEF Cmd
  <2> QED BY <2>1, <2>2
<1>8. ASSUME NEW c \in Ctx, virtio_gpu_ctx_create(c)
      PROVE  \E d \in Command : Enter(d) /\ ContextCall(d)
  <2>1. Cmd("ctx_create", 0, c, 2, TRUE) \in Command
    BY <1>0
  <2>2. ContextCall(Cmd("ctx_create", 0, c, 2, TRUE)) /\ Enter(Cmd("ctx_create", 0, c, 2, TRUE))
    BY <1>8 DEF virtio_gpu_ctx_create, virtio_gpu_ctx_alloc, ContextCall
  <2> HIDE DEF Cmd
  <2> QED BY <2>1, <2>2
<1>9. ASSUME NEW c \in Ctx, virtio_gpu_submit_cmd(c)
      PROVE  \E d \in Command : Enter(d) /\ FencedCall(d)
  <2> DEFINE d == WithFence(Cmd("use", 0, c, 3, TRUE), Succ(fence_submitted))
         b == Cmd("use", 0, c, 3, TRUE)
  <2>1. Succ(fence_submitted) \in Fence
    BY SuccValue DEF GpuTypeOK
  <2>2. b \in Command /\ b.op = "use" /\ b.rsc = 0 /\ b.ctx = c /\ b.sync
    BY <1>0
  <2> HIDE DEF b
  <2>3. /\ d \in Command /\ d.op = "use" /\ d.rsc = 0 /\ d.ctx = c /\ d.sync
        /\ d.fenced /\ d.fence = Succ(fence_submitted)
    BY <2>2, <2>1 DEF WithFence, b
  <2>4. Enter(d) /\ fence_submitted' = Succ(fence_submitted) /\ UNCHANGED idVars /\ c <= ctxs_size
    BY <1>9 DEF virtio_gpu_submit_cmd
  <2> HIDE DEF d
  <2>5. FencedCall(d)
    BY <1>0, <2>3, <2>4 DEF FencedCall
  <2> QED BY <2>3, <2>4, <2>5
<1> HIDE DEF Cmd, Command
<1> QED
  BY <1>1, <1>2, <1>3, <1>4, <1>5, <1>6, <1>7, <1>8, <1>9
  DEF Call, virtio_gpu_resource_create_2d, virtio_gpu_resource_create_3d,
      virtio_gpu_resource_attach_backing, virtio_gpu_resource_detach_backing

\* A fence leaves the rest of a command as it is.
LEMMA FencedCommand ==
  ASSUME NEW c \in Command, NEW f \in Fence
  PROVE  LET d == WithFence(c, f) IN
         /\ d \in Command /\ d.fenced /\ d.fence = f
         /\ d.op = c.op /\ d.rsc = c.rsc /\ d.ctx = c.ctx
         /\ d.iovcnt = c.iovcnt /\ d.sync = c.sync
BY DEF WithFence, Command

\* The command of the call is put into its slot, a flush with the next fence.
LEMMA SendFacts ==
  ASSUME GpuTypeOK, ControlOK, virtio_gpu_send
  PROVE  /\ Send(slot) /\ slot \in Request \ Busy /\ ret # "wait" /\ ret' # "alloc"
         /\ cmds' \in [Request -> Command]
         /\ \A id \in Request \ {slot} : cmds'[id] = cmds[id]
         /\ LET d == cmds'[slot] IN
            /\ d.op = call.op /\ d.rsc = call.rsc /\ d.ctx = call.ctx
            /\ d.iovcnt = call.iovcnt /\ d.sync = call.sync
            /\ IF call.op = "flush"
               THEN /\ d.fenced /\ d.fence = Succ(fence_submitted)
                    /\ fence_submitted' = Succ(fence_submitted)
               ELSE d = call /\ fence_submitted' = fence_submitted
<1>1. Send(slot) /\ slot \in Request \ Busy /\ ret # "wait" /\ ret' # "alloc"
  BY DEF virtio_gpu_send, ControlOK
<1>2. call \in Command /\ Succ(fence_submitted) \in Fence
  BY SuccValue DEF GpuTypeOK
<1> DEFINE d == WithFence(call, Succ(fence_submitted))
<1>3. /\ d \in Command /\ d.fenced /\ d.fence = Succ(fence_submitted)
      /\ d.op = call.op /\ d.rsc = call.rsc /\ d.ctx = call.ctx
      /\ d.iovcnt = call.iovcnt /\ d.sync = call.sync
  BY <1>2, FencedCommand
<1>4. \/ /\ call.op = "flush" /\ fence_submitted' = Succ(fence_submitted)
         /\ cmds' = [cmds EXCEPT ![slot] = d]
      \/ /\ call.op # "flush" /\ fence_submitted' = fence_submitted
         /\ cmds' = [cmds EXCEPT ![slot] = call]
  BY DEF virtio_gpu_send
<1> HIDE DEF d
<1>5. cmds \in [Request -> Command]
  BY DEF GpuTypeOK
<1> QED BY <1>1, <1>2, <1>3, <1>4, <1>5

\* Steps that neither move a request nor touch a counter or an id.
Quiet ==
  /\ UNCHANGED <<vars, cmds, response, fenceVars, idVars, free_count, call, slot,
                 fenceq, hostRsc, hostCtx, refused>>
  /\ pc = "send" <=> pc' = "send"
  /\ ret = "wait" <=> ret' = "wait"

LEMMA QuietSteps ==
  ASSUME GpuTypeOK, ControlOK,
         \/ virtio_gpu_poll \/ clear_irq \/ handle_event \/ keep \/ drained
         \/ handle_gpu_events \/ wait_fences \/ DevInterrupt \/ UNCHANGED gpuVars
  PROVE  Quiet
<1> USE DEF Quiet, queueVars, deviceVars
<1>1. CASE virtio_gpu_poll
  BY <1>1 DEF virtio_gpu_poll
<1>2. CASE clear_irq
  BY <1>2 DEF clear_irq
<1>3. CASE handle_event
  BY <1>3 DEF handle_event
<1>4. CASE keep
  BY <1>4 DEF keep
<1>5. CASE drained
  BY <1>5 DEF drained, GpuTypeOK
<1>6. CASE handle_gpu_events
  BY <1>6 DEF handle_gpu_events, ControlOK
<1>7. CASE wait_fences
  BY <1>7 DEF wait_fences, ControlOK
<1>8. CASE DevInterrupt
  BY <1>8 DEF DevInterrupt
<1>9. CASE UNCHANGED gpuVars
  BY <1>9 DEF gpuVars
<1> QED BY <1>1, <1>2, <1>3, <1>4, <1>5, <1>6, <1>7, <1>8, <1>9

\* A call begins.
Begins(c) ==
  /\ Enter(c)
  /\ \/ PlainCall(c) \/ CreateCall(c) \/ UnrefCall(c)
     \/ ContextCall(c) \/ FencedCall(c)

\* Every step is quiet or one of eight others.
LEMMA Steps ==
  ASSUME GpuTypeOK, ControlOK, [GpuNext]_gpuVars
  PROVE  \/ Quiet
         \/ \E c \in Command : Begins(c)
         \/ virtio_gpu_alloc \/ virtio_gpu_send \/ virtio_gpu_recv
         \/ virtio_gpu_free \/ check_error \/ DevTake
         \/ \E id \in Request : DevAnswer(id)
<1>1. CASE Call
  BY <1>1, Calls DEF Begins
<1>2. CASE ~ Call
  BY <1>2, QuietSteps DEF GpuNext, Inside
<1> QED BY <1>1, <1>2

-----------------------------------------------------------------------------
(* Descriptors and types.                                                  *)

\* Sets of requests are finite, and so are their parts.
LEMMA RequestSets ==
  ASSUME NEW S, S \subseteq Request
  PROVE  /\ IsFiniteSet(S) /\ Cardinality(S) \in Nat
         /\ Held(S) \subseteq S /\ IsFiniteSet(Held(S)) /\ Cardinality(Held(S)) \in Nat
<1>1. IsFiniteSet(S) /\ Held(S) \subseteq S
  BY FS_Subset, GpuAssumption DEF Held
<1>2. IsFiniteSet(Held(S))
  BY <1>1, FS_Subset
<1> QED BY <1>1, <1>2, FS_CardinalityType

LEMMA BusyRange ==
  ASSUME ChannelOK
  PROVE  Busy \subseteq Request
BY SeqFacts DEF ChannelOK, Busy

\* One more request needs as many descriptors as its command says, and gives
\* them back.
LEMMA DescsAdd ==
  ASSUME NEW S, S \subseteq Request, NEW r, r \notin S, NEW k \in {2, 3},
         NEW U, U = IF k = 3 THEN Held(S) \cup {r} ELSE Held(S)
  PROVE  2 * Cardinality(S \cup {r}) + Cardinality(U) = Descs(S) + k
<1>1. /\ IsFiniteSet(S) /\ Cardinality(S) \in Nat
      /\ IsFiniteSet(Held(S)) /\ Cardinality(Held(S)) \in Nat
  BY RequestSets
<1>2. r \notin Held(S)
  BY DEF Held
<1>3. /\ Cardinality(S \cup {r}) = Cardinality(S) + 1
      /\ Cardinality(Held(S) \cup {r}) = Cardinality(Held(S)) + 1
  BY <1>1, <1>2, FS_AddElement
<1>4. Cardinality(U) = Cardinality(Held(S)) + (k - 2)
  BY <1>1, <1>3
<1> QED BY <1>1, <1>3, <1>4 DEF Descs

LEMMA DescsRemove ==
  ASSUME GpuTypeOK, NEW S, S \subseteq Request, NEW r \in S
  PROVE  Descs(S \ {r}) = Descs(S) - cmds[r].iovcnt
<1>1. IsFiniteSet(S) /\ IsFiniteSet(Held(S)) /\ Cardinality(S) \in Nat
      /\ Cardinality(Held(S)) \in Nat
  BY RequestSets
<1>2. Held(S \ {r}) = Held(S) \ {r}
  BY DEF Held
<1>3. r \in Held(S) <=> cmds[r].iovcnt = 3
  BY DEF Held
<1>4. cmds[r].iovcnt = 2 \/ cmds[r].iovcnt = 3
  BY DEF GpuTypeOK, Command
<1>5. IF r \in Held(S) THEN Cardinality(Held(S) \ {r}) = Cardinality(Held(S)) - 1
                          ELSE Cardinality(Held(S) \ {r}) = Cardinality(Held(S))
  BY <1>1, FS_RemoveElement
<1>6. Cardinality(S \ {r}) = Cardinality(S) - 1
  BY <1>1, FS_RemoveElement
<1>7. /\ Descs(S \ {r}) = 2 * Cardinality(S \ {r}) + Cardinality(Held(S) \ {r})
      /\ Descs(S) = 2 * Cardinality(S) + Cardinality(Held(S))
  BY <1>2 DEF Descs
<1> QED BY <1>1, <1>3, <1>4, <1>5, <1>6, <1>7

\* What the invariant says of the queue and the numbers.
LEMMA Basics ==
  ASSUME GpuInv
  PROVE  /\ GpuTypeOK /\ ChannelOK /\ ControlOK
         /\ Busy \subseteq Request /\ Descs(Busy) \in Nat
         /\ free_count \in Nat /\ call \in Command /\ call.iovcnt \in Nat
         /\ N \in Nat
<1>1. GpuTypeOK /\ ChannelOK /\ ControlOK
  BY DEF GpuInv, ChannelOK, GpuTypeOK
<1>2. Busy \subseteq Request
  BY <1>1, BusyRange
<1>3. Descs(Busy) \in Nat
  BY <1>2, RequestSets DEF Descs
<1>4. free_count \in Nat /\ N \in Nat /\ call \in Command /\ call.iovcnt \in Nat
  BY <1>1, FenceRange DEF GpuTypeOK, Command
<1> QED BY <1>1, <1>2, <1>3, <1>4

\* No step loses a descriptor or gives one away twice.
LEMMA DescriptorsStep ==
  ASSUME GpuInv, [GpuNext]_gpuVars
  PROVE  DescriptorsOK'
<1>a. GpuTypeOK /\ ChannelOK /\ ControlOK /\ Busy \subseteq Request /\ Descs(Busy) \in Nat
      /\ free_count \in Nat /\ call \in Command /\ call.iovcnt \in Nat /\ N \in Nat
  BY Basics
<1> USE <1>a
<1>0. free_count + Descs(Busy) + (IF pc = "send" THEN call.iovcnt ELSE 0) = N
  BY DEF GpuInv, DescriptorsOK
<1>1. CASE Quiet
  <2>1. /\ UNCHANGED <<free_count, call>> /\ Descs(Busy)' = Descs(Busy)
        /\ pc = "send" <=> pc' = "send"
    BY <1>1 DEF Quiet, vars, Busy, Descs, Held
  <2> QED BY <1>0, <2>1 DEF DescriptorsOK
<1>2. ASSUME NEW c \in Command, Begins(c) PROVE DescriptorsOK'
  <2>1. /\ UNCHANGED <<free_count>> /\ Descs(Busy)' = Descs(Busy)
        /\ pc = "idle" /\ pc' = "alloc"
    BY <1>2 DEF Begins, Enter, vars, queueVars, Busy, Descs, Held
  <2> QED BY <1>0, <2>1 DEF DescriptorsOK
<1>3. CASE virtio_gpu_alloc
  <2>1. Descs(Busy)' = Descs(Busy)
    BY <1>3 DEF virtio_gpu_alloc, vars, Busy, Descs, Held
  <2> QED BY <1>0, <1>3, <2>1 DEF virtio_gpu_alloc, DescriptorsOK
<1>4. CASE virtio_gpu_send
  <2>1. Send(slot) /\ slot \in Request
    BY <1>4 DEF virtio_gpu_send, ControlOK
  <2>2. Busy' = Busy \cup {slot} /\ slot \notin Busy
    BY <2>1, SendStep
  <2>3. /\ cmds'[slot].iovcnt = call.iovcnt
        /\ \A id \in Request \ {slot} : cmds'[id] = cmds[id]
    BY <1>4, SendFacts
  <2>4. Descs(Busy)' = Descs(Busy) + call.iovcnt
    <3>1. Descs(Busy)' = 2 * Cardinality(Busy \cup {slot}) + Cardinality(Held(Busy)')
      BY <2>2 DEF Descs
    <3>2. Held(Busy)' = IF call.iovcnt = 3 THEN Held(Busy) \cup {slot} ELSE Held(Busy)
      BY <2>1, <2>2, <2>3 DEF Held, GpuTypeOK
    <3>3. call.iovcnt \in {2, 3}
      BY DEF Command
    <3>4. 2 * Cardinality(Busy \cup {slot}) + Cardinality(Held(Busy)') = Descs(Busy) + call.iovcnt
      BY <3>2, <3>3, <2>2, DescsAdd
    <3> QED BY <3>1, <3>4
  <2> QED BY <1>0, <1>4, <2>4 DEF virtio_gpu_send, queueVars, DescriptorsOK
<1>5. CASE virtio_gpu_recv
  <2>1. Busy' = Busy
    BY <1>5, ReceiveStep DEF virtio_gpu_recv
  <2>2. Descs(Busy)' = Descs(Busy)
    BY <1>5, <2>1 DEF virtio_gpu_recv, Descs, Held
  <2> QED BY <1>0, <1>5, <2>2 DEF virtio_gpu_recv, DescriptorsOK
<1>6. ASSUME NEW r, Release(r), UNCHANGED cmds, free_count' = free_count + cmds[r].iovcnt,
             pc # "send", pc' # "send"
      PROVE  DescriptorsOK'
  <2>1. r \in Busy /\ Busy' = Busy \ {r}
    BY <1>6, ReleaseStep
  <2>2. Descs(Busy)' = Descs(Busy) - cmds[r].iovcnt
    <3>1. Descs(Busy)' = Descs(Busy \ {r})
      BY <1>6, <2>1 DEF Descs, Held
    <3> QED BY <3>1, <2>1, DescsRemove
  <2>3. cmds[r].iovcnt \in Nat
    <3>1. cmds[r] \in Command
      BY <2>1 DEF GpuTypeOK
    <3> QED BY <3>1 DEF Command
  <2> QED BY <1>0, <1>6, <2>2, <2>3 DEF DescriptorsOK
<1>7. CASE virtio_gpu_free
  BY <1>6, <1>7 DEF virtio_gpu_free
<1>8. CASE check_error
  BY <1>6, <1>8 DEF check_error
<1>9. CASE DevTake
  <2>1. Busy' = Busy
    BY <1>9, TakeStep DEF DevTake
  <2>2. Descs(Busy)' = Descs(Busy)
    BY <1>9, <2>1 DEF DevTake, Descs, Held
  <2> QED BY <1>0, <1>9, <2>2 DEF DevTake, queueVars, DescriptorsOK
<1>10. ASSUME NEW id \in Request, DevAnswer(id) PROVE DescriptorsOK'
  <2>1. Busy' = Busy
    BY <1>10, AnswerStep DEF DevAnswer
  <2>2. Descs(Busy)' = Descs(Busy)
    BY <1>10, <2>1 DEF DevAnswer, Descs, Held
  <2> QED BY <1>0, <1>10, <2>2 DEF DevAnswer, queueVars, DescriptorsOK
<1> QED BY Steps, <1>1, <1>2, <1>3, <1>4, <1>5, <1>7, <1>8, <1>9, <1>10

\* The queue stays in order.
LEMMA ChannelStep ==
  ASSUME GpuInv, [GpuNext]_gpuVars
  PROVE  ChannelOK'
<1>a. ChannelOK /\ ControlOK /\ GpuTypeOK
  BY Basics
<1> USE <1>a
<1>1. CASE UNCHANGED vars
  BY <1>1 DEF vars, ChannelOK, Exclusive
<1>2. CASE virtio_gpu_send
  BY <1>2, SendStep DEF virtio_gpu_send, ControlOK
<1>3. CASE virtio_gpu_recv
  BY <1>3, ReceiveStep DEF virtio_gpu_recv
<1>4. CASE virtio_gpu_free \/ check_error
  BY <1>4, ReleaseStep DEF virtio_gpu_free, check_error
<1>5. CASE DevTake
  BY <1>5, TakeStep DEF DevTake
<1>6. ASSUME NEW id \in Request, DevAnswer(id) PROVE ChannelOK'
  BY <1>6, AnswerStep DEF DevAnswer
<1> QED
  BY Steps, <1>1, <1>2, <1>3, <1>4, <1>5, <1>6
  DEF Quiet, Begins, Enter, virtio_gpu_alloc

\* An id from the free list or a new one is an id.
LEMMA AllocType ==
  ASSUME GpuTypeOK, NEW r \in Rsc, virtio_gpu_resource_alloc(r)
  PROVE  /\ rscs_size' \in 0..R /\ free_rsc_id' \in 0..R
         /\ next' \in [Rsc -> 0..R] /\ buf' \in [Rsc -> BOOLEAN]
<1>1. 0 \in 0..R /\ r \in 0..R
  BY GpuAssumption DEF Rsc
<1> QED BY <1>1 DEF virtio_gpu_resource_alloc, GpuTypeOK

LEMMA TypeStep ==
  ASSUME GpuInv, [GpuNext]_gpuVars
  PROVE  GpuTypeOK'
<1>a. ChannelOK /\ ControlOK /\ GpuTypeOK
  BY Basics
<1> USE <1>a
<1>b. /\ submitted' \in Seq(Request) /\ serving' \subseteq Request
      /\ completed' \in Seq(Request) /\ received' \subseteq Request
  BY ChannelStep DEF ChannelOK
<1>c. NoCmd \in Command
  BY GpuAssumption, FenceRange DEF NoCmd, Cmd, Command, Fence
<1>d. ASSUME free_count' \in Nat, call' \in Command PROVE free_count' \in 0..N
  <2>1. free_count' + Descs(Busy)' + (IF pc' = "send" THEN call'.iovcnt ELSE 0) = N
    BY DescriptorsStep DEF DescriptorsOK
  <2>2. Busy' \subseteq Request
    BY ChannelStep, SeqFacts DEF ChannelOK, Busy
  <2>3. Descs(Busy)' \in Nat
    <3>1. IsFiniteSet(Busy') /\ IsFiniteSet(Held(Busy)')
      BY <2>2, FS_Subset, GpuAssumption DEF Held
    <3> QED BY <3>1, FS_CardinalityType DEF Descs
  <2>4. call'.iovcnt \in Nat
    BY <1>d DEF Command
  <2> QED BY <1>d, <2>1, <2>3, <2>4, FenceRange
<1> USE <1>b
<1>1. ASSUME NEW c \in Command, Begins(c) PROVE GpuTypeOK'
  <2>1. Enter(c)
    BY <1>1 DEF Begins
  <2>2. fence_submitted' \in Fence
    BY <1>1 DEF Begins, PlainCall, CreateCall, UnrefCall, ContextCall, FencedCall, Command, GpuTypeOK
  <2>3. /\ rscs_size' \in 0..R /\ free_rsc_id' \in 0..R
        /\ next' \in [Rsc -> 0..R] /\ buf' \in [Rsc -> BOOLEAN]
    BY <1>1, AllocType DEF Begins, PlainCall, CreateCall, UnrefCall, ContextCall, FencedCall, idVars, GpuTypeOK
  <2>4. live' \subseteq Rsc
    BY <1>1 DEF Begins, PlainCall, CreateCall, UnrefCall, ContextCall, FencedCall, idVars, GpuTypeOK
  <2>5. ctxs_size' \in 0..C
    <3>1. \A d \in Ctx : d \in 0..C
      BY GpuAssumption DEF Ctx
    <3> QED BY <1>1, <3>1 DEF Begins, PlainCall, CreateCall, UnrefCall, ContextCall, FencedCall, idVars, GpuTypeOK
  <2> QED BY <2>1, <2>2, <2>3, <2>4, <2>5 DEF Enter, GpuTypeOK, queueVars, deviceVars
<1>2. CASE virtio_gpu_alloc
  <2>1. call' = call /\ call \in Command /\ free_count \in Nat
    BY <1>2 DEF virtio_gpu_alloc, GpuTypeOK
  <2>2. call.iovcnt \in Nat
    BY <2>1 DEF Command
  <2>3. free_count' \in Nat
    BY <1>2, <2>1, <2>2 DEF virtio_gpu_alloc
  <2>4. free_count' \in 0..N
    BY <1>d, <2>1, <2>3
  <2> QED BY <1>2, <2>4 DEF virtio_gpu_alloc, GpuTypeOK, fenceVars, idVars, deviceVars
<1>3. CASE virtio_gpu_send
  <2>1. Succ(fence_submitted) \in Fence
    BY SuccValue DEF GpuTypeOK
  <2>2. cmds' \in [Request -> Command] /\ fence_submitted' \in Fence
    BY <1>3, <2>1, SendFacts DEF GpuTypeOK
  <2> QED BY <1>3, <1>c, <2>2 DEF virtio_gpu_send, GpuTypeOK, idVars, queueVars, deviceVars
<1>4. CASE virtio_gpu_poll
  BY <1>4 DEF virtio_gpu_poll, GpuTypeOK, fenceVars, idVars, queueVars, deviceVars
<1>5. CASE clear_irq
  BY <1>5 DEF clear_irq, GpuTypeOK, fenceVars, idVars, deviceVars
<1>6. CASE handle_event
  BY <1>6, SeqFacts DEF handle_event, GpuTypeOK, fenceVars, idVars, deviceVars
<1>7. CASE virtio_gpu_recv
  <2>1. Head(completed) \in Request
    BY <1>7, ReceiveStep DEF virtio_gpu_recv
  <2>2. response[Head(completed)].fence \in Fence
    BY <2>1 DEF GpuTypeOK
  <2>3. seen' \in Nat
    BY <1>7 DEF virtio_gpu_recv, GpuTypeOK
  <2> QED BY <1>7, <2>1, <2>2, <2>3 DEF virtio_gpu_recv, GpuTypeOK, idVars, deviceVars
<1>8. CASE keep
  BY <1>8 DEF keep, GpuTypeOK, fenceVars, idVars, queueVars, deviceVars
<1>9. ASSUME NEW r \in Request, free_count' = free_count + cmds[r].iovcnt, call' \in Command
      PROVE  free_count' \in 0..N
  <2>1. cmds[r] \in Command
    BY DEF GpuTypeOK
  <2>2. free_count \in Nat
    BY DEF GpuTypeOK
  <2>3. cmds[r].iovcnt \in Nat
    BY <2>1 DEF Command
  <2>4. free_count' \in Nat
    BY <1>9, <2>2, <2>3
  <2> QED BY <1>9, <1>d, <2>4
<1>10. CASE virtio_gpu_free
  <2>1. free_count' \in 0..N
    BY <1>9, <1>10 DEF virtio_gpu_free, Release, GpuTypeOK
  <2> QED BY <1>10, <2>1 DEF virtio_gpu_free, GpuTypeOK, fenceVars, idVars, deviceVars
<1>11. CASE drained
  BY <1>11 DEF drained, GpuTypeOK, fenceVars, idVars, queueVars, deviceVars
<1>12. CASE check_error
  <2>1. free_count' \in 0..N
    BY <1>9, <1>12, <1>c DEF check_error, Release, GpuTypeOK
  <2>2. call.rsc \in 0..R
    BY DEF GpuTypeOK, Command
  <2>3. free_rsc_id' \in 0..R /\ next' \in [Rsc -> 0..R]
    BY <1>12, <2>2 DEF check_error, GpuTypeOK
  <2> QED BY <1>12, <1>c, <2>1, <2>3 DEF check_error, GpuTypeOK, fenceVars, deviceVars
<1>13. CASE handle_gpu_events
  BY <1>13 DEF handle_gpu_events, GpuTypeOK, fenceVars, idVars, queueVars, deviceVars
<1>14. CASE wait_fences
  BY <1>14 DEF wait_fences, GpuTypeOK, fenceVars, idVars, queueVars, deviceVars
<1>15. CASE DevTake
  <2>1. Head(submitted) \in Request
    BY <1>15, TakeStep DEF DevTake
  <2>2. cmds[Head(submitted)] \in Command
    BY <2>1 DEF GpuTypeOK
  <2>3. fenceq' \in Seq(Request)
    BY <1>15, <2>1, AppendProperties DEF DevTake, GpuTypeOK
  <2>4. refused' \subseteq Request
    BY <1>15, <2>1 DEF DevTake, GpuTypeOK
  <2>5. Head(submitted) = submitted[1] /\ 1 \in DOMAIN submitted
    BY <1>15, TakeStep, SeqFacts DEF DevTake, Take, ChannelOK
  <2>6. cmds[Head(submitted)].op = "create" => cmds[Head(submitted)].rsc \in Rsc
    BY <2>2, <2>5, GpuAssumption DEF GpuInv, ResourcesOK, Queued, Command, Rsc
  <2>7. cmds[Head(submitted)].op = "ctx_create" => cmds[Head(submitted)].ctx \in Ctx
    BY <2>2, <2>5, GpuAssumption DEF GpuInv, SyncIsLast, CallOK, ControlOK, Command, Ctx
  <2>8. hostRsc' \subseteq Rsc /\ hostCtx' \subseteq Ctx
    BY <1>15, <2>6, <2>7 DEF DevTake, GpuTypeOK
  <2>9. UNCHANGED <<cmds, response, fenceVars, idVars, queueVars, pc, call, slot, got, ret,
                    found, raise>>
    BY <1>15 DEF DevTake
  <2> QED BY <2>3, <2>4, <2>8, <2>9 DEF GpuTypeOK, fenceVars, idVars, queueVars
<1>16. ASSUME NEW id \in Request, DevAnswer(id) PROVE GpuTypeOK'
  <2>1. cmds[id].fenced \in BOOLEAN /\ cmds[id].fence \in Fence
    BY DEF GpuTypeOK, Command
  <2>2. response' \in [Request -> [ok : BOOLEAN, fenced : BOOLEAN, fence : Fence]]
    BY <1>16, <2>1 DEF DevAnswer, GpuTypeOK
  <2>3. fenceq' \in Seq(Request)
    <3>1. CASE cmds[id].fenced
      <4>1. id \in Elements(fenceq)
        BY <1>16, <3>1 DEF DevAnswer, Answer, GpuInv, FenceQueueOK
      <4>2. fenceq # << >> /\ fenceq' = Tail(fenceq)
        BY <1>16, <3>1, <4>1, SeqFacts DEF DevAnswer, GpuTypeOK
      <4> QED BY <4>2, HeadTailProperties DEF GpuTypeOK
    <3>2. CASE ~ cmds[id].fenced
      BY <1>16, <3>2 DEF DevAnswer, GpuTypeOK
    <3> QED BY <3>1, <3>2
  <2> QED BY <1>16, <2>2, <2>3 DEF DevAnswer, GpuTypeOK, fenceVars, idVars, queueVars
<1>17. CASE DevInterrupt
  BY <1>17 DEF DevInterrupt, GpuTypeOK, fenceVars, idVars
<1>18. CASE UNCHANGED gpuVars
  BY <1>18 DEF gpuVars, GpuTypeOK, fenceVars, idVars, queueVars, deviceVars
<1> QED
  BY <1>1, <1>2, <1>3, <1>4, <1>5, <1>6, <1>7, <1>8, <1>10, <1>11, <1>12, <1>13,
     <1>14, <1>15, <1>16, <1>17, <1>18, Calls DEF GpuNext, Inside, Begins

-----------------------------------------------------------------------------
(* The control flow.                                                       *)

LEMMA ControlStep ==
  ASSUME GpuInv, [GpuNext]_gpuVars
  PROVE  ControlOK'
<1>a. ChannelOK /\ ControlOK /\ GpuTypeOK
  BY Basics
<1>b. Len(completed) \in Nat /\ seen \in Nat /\ Busy \subseteq Request
  BY <1>a, SeqFacts, BusyRange DEF ChannelOK, GpuTypeOK
<1>c. received \subseteq Busy
  BY DEF Busy
<1> USE <1>a, <1>b, <1>c, GpuAssumption DEF ControlOK, Polling
<1>1. ASSUME NEW c \in Command, Begins(c) PROVE ControlOK'
  BY <1>1 DEF Begins, Enter, vars, queueVars, Busy
<1>2. CASE virtio_gpu_alloc
  BY <1>2 DEF virtio_gpu_alloc, vars, Busy, GpuTypeOK
<1>3. CASE virtio_gpu_send
  <2>1. Send(slot) /\ slot \in Request /\ ret # "wait"
    BY <1>3 DEF virtio_gpu_send
  <2>2. Busy' = Busy \cup {slot} /\ UNCHANGED <<completed, received>>
    BY <2>1, SendStep DEF Send
  <2>3. call.sync => cmds'[slot] = call
    BY <1>3, <2>1 DEF virtio_gpu_send, GpuInv, CallOK, GpuTypeOK
  <2> QED BY <1>3, <2>1, <2>2, <2>3 DEF virtio_gpu_send, queueVars
<1>4. CASE virtio_gpu_poll
  BY <1>4 DEF virtio_gpu_poll, vars, queueVars, Busy, GpuTypeOK
<1>5. CASE clear_irq
  BY <1>5 DEF clear_irq, vars, Busy
<1>6. CASE handle_event
  BY <1>6 DEF handle_event, vars, Busy
<1>7. CASE virtio_gpu_recv
  <2>1. /\ Receive /\ Busy' = Busy /\ Len(completed)' = Len(completed) - 1
        /\ Head(completed) \in Elements(completed) /\ Head(completed) \in Request
        /\ received' = received \cup {Head(completed)} /\ Head(completed) \notin received
    BY <1>7, ReceiveStep DEF virtio_gpu_recv, ChannelOK, Exclusive
  <2> QED BY <1>7, <2>1 DEF virtio_gpu_recv
<1>8. CASE keep
  BY <1>8 DEF keep, IsAwaited, vars, queueVars, Busy
<1>9. CASE virtio_gpu_free
  <2>1. /\ Busy' = Busy \ {got} /\ received' = received \ {got}
        /\ UNCHANGED <<completed, submitted>>
    BY <1>9, ReleaseStep DEF virtio_gpu_free, Release
  <2> QED BY <1>9, <2>1 DEF virtio_gpu_free, IsAwaited
<1>10. CASE drained
  BY <1>10 DEF drained, vars, queueVars, Busy, GpuTypeOK
<1>11. CASE check_error
  <2>1. Busy' = Busy \ {slot} /\ received' = received \ {slot} /\ UNCHANGED completed
    BY <1>11, ReleaseStep DEF check_error, Release
  <2> QED BY <1>11, <2>1 DEF check_error
<1>12. CASE handle_gpu_events \/ wait_fences
  BY <1>12 DEF handle_gpu_events, wait_fences, vars, queueVars, Busy, GpuTypeOK
<1>13. CASE DevTake
  BY <1>13, TakeStep DEF DevTake, queueVars, Take
<1>14. ASSUME NEW id \in Request, DevAnswer(id) PROVE ControlOK'
  BY <1>14, AnswerStep DEF DevAnswer, queueVars, Answer
<1>15. CASE DevInterrupt \/ UNCHANGED gpuVars
  BY <1>15 DEF DevInterrupt, gpuVars, vars, queueVars, Busy
<1> QED
  BY <1>1, <1>2, <1>3, <1>4, <1>5, <1>6, <1>7, <1>8, <1>9, <1>10, <1>11, <1>12, <1>13,
     <1>14, <1>15, Calls DEF GpuNext, Inside, Begins

LEMMA InterruptStep ==
  ASSUME GpuInv, [GpuNext]_gpuVars
  PROVE  InterruptOK'
<1>a. ChannelOK /\ ControlOK /\ GpuTypeOK
  BY Basics
<1>b. Len(completed) \in Nat /\ seen \in Nat
  BY <1>a, SeqFacts DEF ChannelOK, GpuTypeOK
<1>c. InterruptOK
  BY DEF GpuInv
<1> USE <1>a, <1>b, <1>c DEF InterruptOK
<1>1. ASSUME NEW c \in Command, Begins(c) PROVE InterruptOK'
  BY <1>1 DEF Begins, Enter, vars, queueVars, deviceVars
<1>2. CASE virtio_gpu_alloc
  BY <1>2 DEF virtio_gpu_alloc, vars, deviceVars
<1>3. CASE virtio_gpu_send
  BY <1>3 DEF virtio_gpu_send, Send, queueVars, deviceVars, ControlOK
<1>4. CASE virtio_gpu_poll
  BY <1>4 DEF virtio_gpu_poll, vars, queueVars, deviceVars, fenceVars
<1>5. CASE clear_irq
  BY <1>5 DEF clear_irq, vars, deviceVars
<1>6. CASE handle_event
  BY <1>6 DEF handle_event, vars, deviceVars
<1>7. CASE virtio_gpu_recv
  BY <1>7, ReceiveStep DEF virtio_gpu_recv, deviceVars
<1>8. CASE keep
  BY <1>8 DEF keep, vars, queueVars, deviceVars
<1>9. CASE virtio_gpu_free
  BY <1>9 DEF virtio_gpu_free, Release, deviceVars
<1>10. CASE drained
  BY <1>10 DEF drained, vars, queueVars, deviceVars, ControlOK, Polling
<1>11. CASE check_error
  BY <1>11 DEF check_error, Release, deviceVars
<1>12. CASE handle_gpu_events \/ wait_fences
  BY <1>12 DEF handle_gpu_events, wait_fences, vars, queueVars, deviceVars, fenceVars
<1>13. CASE DevTake
  BY <1>13 DEF DevTake, Take, queueVars, fenceVars
<1>14. ASSUME NEW id \in Request, DevAnswer(id) PROVE InterruptOK'
  BY <1>14 DEF DevAnswer, queueVars, fenceVars
<1>15. CASE DevInterrupt \/ UNCHANGED gpuVars
  BY <1>15 DEF DevInterrupt, gpuVars, vars, queueVars, deviceVars, fenceVars
<1> QED
  BY <1>1, <1>2, <1>3, <1>4, <1>5, <1>6, <1>7, <1>8, <1>9, <1>10, <1>11, <1>12, <1>13,
     <1>14, <1>15, Calls DEF GpuNext, Inside, Begins

LEMMA CallStep ==
  ASSUME GpuInv, [GpuNext]_gpuVars
  PROVE  CallOK'
<1>a. GpuTypeOK /\ ControlOK /\ CallOK
  BY DEF GpuInv
<1>1. ASSUME NEW c \in Command, Begins(c) PROVE CallOK'
  <2>1. call' = c /\ c.rsc \in 0..R
    BY <1>1 DEF Begins, Enter, Command
  <2>2. /\ \A r \in Rsc : r # 0
        /\ \A d \in Ctx : d # 0
        /\ live \subseteq Rsc
    BY <1>a DEF GpuTypeOK, Rsc, Ctx
  <2>3. CallOK' = /\ c.op = "create" => c.rsc # 0
                  /\ c.op = "unref" => c.rsc # 0 /\ c.sync
                  /\ c.op = "ctx_create" => c.ctx # 0 /\ c.sync
                  /\ c.fenced => c.sync /\ c.op # "flush"
                  /\ c.op = "flush" => ~ c.sync
    BY <2>1 DEF CallOK
  <2>4. CASE PlainCall(c)
    BY <2>3, <2>4 DEF PlainCall
  <2>5. CASE CreateCall(c) \/ UnrefCall(c) \/ ContextCall(c) \/ FencedCall(c)
    BY <2>2, <2>3, <2>5 DEF CreateCall, UnrefCall, ContextCall, FencedCall
  <2> QED BY <1>1, <2>4, <2>5 DEF Begins
<1>2. CASE call' = NoCmd
  BY <1>2 DEF CallOK, NoCmd, Cmd
<1>3. CASE call' = call
  BY <1>a, <1>3 DEF CallOK
<1> QED
  BY Steps, <1>a, <1>1, <1>2, <1>3
  DEF Quiet, virtio_gpu_alloc, virtio_gpu_send, virtio_gpu_recv, virtio_gpu_free,
      check_error, DevTake, DevAnswer

LEMMA SyncStep ==
  ASSUME GpuInv, [GpuNext]_gpuVars
  PROVE  SyncIsLast'
<1>a. ChannelOK /\ ControlOK /\ GpuTypeOK /\ CallOK /\ SyncIsLast
  BY Basics DEF GpuInv
<1>b. DOMAIN submitted = 1..Len(submitted) /\ Len(submitted) \in Nat
      /\ \A i \in DOMAIN submitted : submitted[i] \in Request /\ submitted[i] \in Elements(submitted)
  BY <1>a, SeqFacts DEF ChannelOK
<1>c. DOMAIN submitted' = 1..Len(submitted)' /\ Len(submitted)' \in Nat
      /\ (submitted' = << >> <=> Len(submitted)' = 0)
  <2>1. submitted' \in Seq(Request)
    BY ChannelStep DEF ChannelOK
  <2> QED BY <2>1, SeqFacts
<1> USE <1>a, <1>b
<1>1. CASE UNCHANGED <<submitted, cmds, slot>> /\ (ret = "wait" <=> ret' = "wait")
  BY <1>1 DEF SyncIsLast
<1>2. CASE virtio_gpu_send
  <2>1. /\ Send(slot) /\ slot \in Request \ Busy /\ ret # "wait"
        /\ \A i \in DOMAIN submitted : submitted[i] # slot
    BY <1>2 DEF virtio_gpu_send, ControlOK, Busy
  <2>2. /\ Len(submitted)' = Len(submitted) + 1 /\ submitted'[Len(submitted) + 1] = slot
        /\ \A i \in 1..Len(submitted) : submitted'[i] = submitted[i]
    BY <2>1, SendStep
  <2>3. \A i \in DOMAIN submitted' : i \in DOMAIN submitted \/ i = Len(submitted) + 1
    BY <2>2, <1>c
  <2>4. \A i \in DOMAIN submitted : cmds'[submitted[i]] = cmds[submitted[i]]
    BY <1>2, <2>1, SendFacts
  <2>5. /\ cmds'[slot].op = call.op /\ cmds'[slot].sync = call.sync
        /\ call.sync => ret' = "wait" /\ slot' = slot
    BY <1>2, SendFacts DEF virtio_gpu_send
  <2> QED BY <1>2, <1>c, <2>1, <2>2, <2>3, <2>4, <2>5 DEF SyncIsLast, virtio_gpu_send, CallOK
<1>3. CASE check_error
  <2>1. UNCHANGED <<submitted, cmds>> /\ ret' # "wait"
    BY <1>3 DEF check_error, Release
  <2>2. \A i \in DOMAIN submitted : submitted[i] # slot
    BY <1>3 DEF check_error, Release, ChannelOK, Exclusive
  <2> QED BY <2>1, <2>2 DEF SyncIsLast
<1>4. CASE DevTake
  <2>1. /\ Len(submitted)' = Len(submitted) - 1
        /\ \A i \in 1..Len(submitted)' : submitted'[i] = submitted[i + 1]
    BY <1>4, TakeStep DEF DevTake
  <2>2. \A i \in 1..Len(submitted)' : i + 1 \in DOMAIN submitted
    BY <2>1, <1>c
  <2>3. UNCHANGED <<cmds, slot, ret>> /\ submitted # << >>
    BY <1>4 DEF DevTake, Take
  <2>4. submitted' # << >> => Len(submitted)' \in 1..Len(submitted)' /\ Len(submitted)' + 1 = Len(submitted)
    BY <1>c, <2>1
  <2>5. ASSUME submitted' # << >>
        PROVE  submitted'[Len(submitted)'] = submitted[Len(submitted)]
    BY <2>1, <2>4, <2>5
  <2> QED BY <1>c, <2>1, <2>2, <2>3, <2>5 DEF SyncIsLast
<1>5. CASE Quiet
  BY <1>1, <1>5 DEF Quiet, vars
<1>6. ASSUME NEW c \in Command, Begins(c) PROVE SyncIsLast'
  BY <1>1, <1>6 DEF Begins, Enter, vars
<1>7. CASE virtio_gpu_alloc
  <2>1. UNCHANGED <<submitted, cmds>> /\ ret # "wait" /\ ret' # "wait"
    BY <1>7 DEF virtio_gpu_alloc, vars, ControlOK, Polling
  <2> QED BY <2>1 DEF SyncIsLast
<1>8. CASE virtio_gpu_recv \/ virtio_gpu_free
  BY <1>1, <1>8 DEF virtio_gpu_recv, Receive, virtio_gpu_free, Release
<1>9. ASSUME NEW id \in Request, DevAnswer(id) PROVE SyncIsLast'
  BY <1>1, <1>9 DEF DevAnswer, Answer
<1> QED BY Steps, <1>2, <1>3, <1>4, <1>5, <1>6, <1>7, <1>8, <1>9

-----------------------------------------------------------------------------
(* What the device is given.                                               *)

\* The first command of the queue, and the queue without it.
LEMMA TakeFacts ==
  ASSUME GpuInv, DevTake
  PROVE  /\ Head(submitted) \in Request /\ cmds[Head(submitted)] \in Command
         /\ Head(submitted) = submitted[1] /\ 1 \in DOMAIN submitted
         /\ Head(submitted) \notin serving
         /\ Len(submitted) \in Nat /\ DOMAIN submitted = 1..Len(submitted)
         /\ Len(submitted)' = Len(submitted) - 1
         /\ DOMAIN submitted' = 1..(Len(submitted) - 1)
         /\ \A i \in DOMAIN submitted' :
              submitted'[i] = submitted[i + 1] /\ i + 1 \in DOMAIN submitted
         /\ submitted' = << >> <=> Len(submitted) = 1
         /\ cmds[Head(submitted)].op \in {"unref", "ctx_create"} =>
              /\ ret = "wait" /\ cmds[Head(submitted)] = call /\ submitted' = << >>
         /\ submitted' = << >> /\ ret = "wait" => cmds[Head(submitted)] = call
<1>a. GpuTypeOK /\ ChannelOK /\ ControlOK /\ SyncIsLast
  BY Basics DEF GpuInv
<1>1. /\ Head(submitted) \in Request /\ cmds[Head(submitted)] \in Command
      /\ Head(submitted) = submitted[1] /\ Head(submitted) \in Elements(submitted)
      /\ Len(submitted)' = Len(submitted) - 1 /\ submitted # << >>
      /\ \A i \in 1..Len(submitted)' : submitted'[i] = submitted[i + 1]
      /\ submitted' \in Seq(Request)
  BY <1>a, TakeStep DEF DevTake, Take, GpuTypeOK, ChannelOK
<1>2. /\ Len(submitted) \in Nat /\ DOMAIN submitted = 1..Len(submitted)
      /\ submitted = << >> <=> Len(submitted) = 0
  BY <1>a, SeqFacts DEF ChannelOK
<1>3. /\ Len(submitted)' \in Nat /\ DOMAIN submitted' = 1..Len(submitted)'
      /\ submitted' = << >> <=> Len(submitted)' = 0
  BY <1>1, SeqFacts
<1>4. 1 \in DOMAIN submitted /\ Len(submitted) \in DOMAIN submitted
  BY <1>1, <1>2
<1>5. \A i \in DOMAIN submitted' :
        submitted'[i] = submitted[i + 1] /\ i + 1 \in DOMAIN submitted
  BY <1>1, <1>2, <1>3
<1>6. Head(submitted) \notin serving
  BY <1>a, <1>1 DEF ChannelOK, Exclusive
<1>7. ASSUME cmds[Head(submitted)].op \in {"unref", "ctx_create"}
      PROVE  ret = "wait" /\ cmds[Head(submitted)] = call /\ Len(submitted) = 1
  <2>1. ret = "wait" /\ submitted[1] = slot /\ submitted[Len(submitted)] = slot
    BY <1>a, <1>1, <1>4, <1>7 DEF SyncIsLast
  <2> QED BY <1>a, <1>1, <1>4, <2>1 DEF ControlOK, ChannelOK, Exclusive
<1>8. ASSUME Len(submitted) = 1, ret = "wait"
      PROVE  cmds[Head(submitted)] = call
  BY <1>a, <1>1, <1>8 DEF SyncIsLast, ControlOK
<1> QED BY <1>1, <1>2, <1>3, <1>4, <1>5, <1>6, <1>7, <1>8

\* No command is refused.
LEMMA Accepted ==
  ASSUME GpuInv, DevTake
  PROVE  Accepts(cmds[Head(submitted)])
<1> DEFINE c == cmds[Head(submitted)]
<1>1. ResourcesOK /\ ContextsOK /\ CallOK
  BY DEF GpuInv
<1>2. 1 \in DOMAIN submitted /\ c = cmds[submitted[1]] /\ c \in Command
  BY TakeFacts
<1>3. c.op = "create" => c.rsc \notin hostRsc
  BY <1>1, <1>2 DEF ResourcesOK, Queued
<1>4. c.op # "create" => c.rsc \in hostRsc \cup {0}
  <2>1. \A i \in 1..(1 - 1) : FALSE
    OBVIOUS
  <2> QED BY <1>1, <1>2, <2>1 DEF ResourcesOK, Queued, WillHave
<1>5. ASSUME c.op = "ctx_create" PROVE c.ctx \notin hostCtx
  <2>1. ret = "wait" /\ c = call /\ submitted # << >>
    BY <1>5, TakeFacts DEF DevTake, Take
  <2>2. call.ctx \in 1..ctxs_size
    BY <1>1, <1>2, <1>5, <2>1, GpuAssumption DEF ContextsOK, CallOK, Command, GpuInv, GpuTypeOK
  <2> QED BY <1>1, <1>5, <2>1, <2>2 DEF ContextsOK
<1>6. c.op # "ctx_create" => c.ctx \in hostCtx \cup {0}
  BY <1>1, <1>2 DEF ContextsOK
<1> QED BY <1>3, <1>4, <1>5, <1>6 DEF Accepts

LEMMA AnswersStep ==
  ASSUME GpuInv, [GpuNext]_gpuVars
  PROVE  AnswersOK'
<1>a. GpuTypeOK /\ ChannelOK /\ ControlOK /\ AnswersOK
  BY Basics DEF GpuInv
<1> USE <1>a
<1>1. CASE UNCHANGED <<completed, received, cmds, response, refused>>
  BY <1>1 DEF AnswersOK
<1>2. CASE virtio_gpu_send
  <2>1. /\ UNCHANGED <<completed, received, response, refused>>
        /\ slot \notin Elements(completed) \cup received
    BY <1>2, SendFacts DEF virtio_gpu_send, Send, Busy, deviceVars
  <2>2. Elements(completed)' = Elements(completed) /\ Elements(completed) \cup received \subseteq Request
    BY <2>1, SeqFacts DEF ChannelOK
  <2>3. \A id \in Elements(completed) \cup received : cmds'[id] = cmds[id]
    BY <1>2, <2>1, <2>2, SendFacts
  <2> QED BY <2>1, <2>2, <2>3 DEF AnswersOK
<1>3. CASE virtio_gpu_recv
  <2>1. /\ UNCHANGED <<cmds, response, refused>>
        /\ (Elements(completed) \cup received)' = Elements(completed) \cup received
    BY <1>3, ReceiveStep DEF virtio_gpu_recv, deviceVars
  <2> QED BY <2>1 DEF AnswersOK
<1>4. CASE virtio_gpu_free \/ check_error
  <2>1. /\ UNCHANGED <<completed, cmds, response, refused>> /\ received' \subseteq received
    BY <1>4 DEF virtio_gpu_free, check_error, Release, deviceVars
  <2> QED BY <2>1 DEF AnswersOK
<1>5. CASE DevTake
  <2>1. UNCHANGED <<completed, received, cmds, response>> /\ refused' = refused
    BY <1>5, Accepted DEF DevTake, Take
  <2> QED BY <2>1 DEF AnswersOK
<1>6. ASSUME NEW id \in Request, DevAnswer(id) PROVE AnswersOK'
  <2>1. /\ Elements(completed)' = Elements(completed) \cup {id}
        /\ UNCHANGED <<cmds, received>> /\ refused' = {}
        /\ id \notin Elements(completed) \cup received
    BY <1>6, AnswerStep DEF DevAnswer, Answer, ChannelOK, Exclusive, AnswersOK
  <2>2. /\ response'[id] = [ok |-> TRUE, fenced |-> cmds[id].fenced, fence |-> cmds[id].fence]
        /\ \A x \in Request \ {id} : response'[x] = response[x]
    BY <1>6 DEF DevAnswer, GpuTypeOK, AnswersOK
  <2>3. Elements(completed) \cup received \subseteq Request
    BY SeqFacts DEF ChannelOK
  <2> QED BY <2>1, <2>2, <2>3 DEF AnswersOK
<1> QED
  BY Steps, <1>1, <1>2, <1>3, <1>4, <1>5, <1>6
  DEF Quiet, Begins, Enter, virtio_gpu_alloc, vars, deviceVars

\* What of the queue of fenced commands a step leaves alone.
LEMMA FenceQueueStep ==
  ASSUME GpuInv, [GpuNext]_gpuVars
  PROVE  FenceQueueOK'
<1>a. GpuTypeOK /\ ChannelOK /\ ControlOK /\ FenceQueueOK /\ fenceq \in Seq(Request)
  BY Basics DEF GpuInv, GpuTypeOK
<1> USE <1>a
<1>1. CASE UNCHANGED <<serving, cmds, fenceq>>
  BY <1>1 DEF FenceQueueOK
<1>2. CASE virtio_gpu_send
  <2>1. /\ UNCHANGED <<serving, fenceq>> /\ slot \notin serving
    BY <1>2, SendFacts DEF virtio_gpu_send, Send, Busy, deviceVars
  <2>2. \A id \in serving : cmds'[id] = cmds[id]
    BY <1>2, <2>1, SendFacts DEF ChannelOK
  <2> QED BY <2>1, <2>2 DEF FenceQueueOK
<1>3. CASE DevTake
  <2> DEFINE h == Head(submitted)
  <2>1. h \in Request /\ h \notin serving /\ serving' = serving \cup {h} /\ UNCHANGED cmds
    BY <1>3, TakeFacts DEF DevTake, Take
  <2>2. fenceq' = IF cmds[h].fenced THEN Append(fenceq, h) ELSE fenceq
    BY <1>3 DEF DevTake
  <2> HIDE DEF h
  <2>3. CASE cmds[h].fenced
    <3> DEFINE t == Append(fenceq, h)
    <3>1. /\ Elements(t) = Elements(fenceq) \cup {h} /\ Len(t) = Len(fenceq) + 1
          /\ \A i \in 1..Len(fenceq) : t[i] = fenceq[i]
          /\ t[Len(fenceq) + 1] = h /\ DOMAIN t = 1..(Len(fenceq) + 1)
      BY <2>1, AppendFacts, SeqFacts
    <3>2. fenceq' = t /\ h \notin Elements(fenceq)
      BY <2>1, <2>2, <2>3 DEF FenceQueueOK
    <3> HIDE DEF t
    <3>3. \A i, j \in DOMAIN t : t[i] = t[j] => i = j
      BY <3>1, <3>2, SeqFacts DEF FenceQueueOK
    <3>4. Elements(t) = {id \in serving' : cmds'[id].fenced}
      BY <2>1, <2>3, <3>1 DEF FenceQueueOK
    <3> QED BY <3>2, <3>3, <3>4 DEF FenceQueueOK
  <2>4. CASE ~ cmds[h].fenced
    BY <2>1, <2>2, <2>4 DEF FenceQueueOK
  <2> QED BY <2>3, <2>4
<1>4. ASSUME NEW id \in Request, DevAnswer(id) PROVE FenceQueueOK'
  <2>1. id \in serving /\ serving' = serving \ {id} /\ UNCHANGED cmds
    BY <1>4 DEF DevAnswer, Answer
  <2>2. CASE cmds[id].fenced
    <3>1. id \in Elements(fenceq)
      BY <2>1, <2>2 DEF FenceQueueOK
    <3>2. id = Head(fenceq) /\ fenceq # << >> /\ fenceq' = Tail(fenceq)
      BY <1>4, <2>2, <3>1, SeqFacts DEF DevAnswer
    <3> DEFINE t == Tail(fenceq)
    <3>3. /\ Elements(t) = Elements(fenceq) \ {id} /\ t \in Seq(Request)
          /\ Len(t) = Len(fenceq) - 1
          /\ \A i \in 1..Len(t) : t[i] = fenceq[i + 1]
      BY <3>2, TailFacts DEF FenceQueueOK
    <3> HIDE DEF t
    <3>4. /\ DOMAIN t = 1..Len(t) /\ DOMAIN fenceq = 1..Len(fenceq) /\ Len(t) \in Nat
          /\ \A i \in 1..Len(t) : i + 1 \in 1..Len(fenceq)
      BY <3>3, SeqFacts
    <3>5. ASSUME NEW i \in DOMAIN t, NEW j \in DOMAIN t, t[i] = t[j] PROVE i = j
      <4>1. i + 1 = j + 1
        BY <3>3, <3>4, <3>5 DEF FenceQueueOK
      <4> QED BY <3>4, <4>1
    <3>6. Elements(t) = {x \in serving' : cmds'[x].fenced}
      BY <2>1, <3>3 DEF FenceQueueOK
    <3> QED BY <3>2, <3>5, <3>6 DEF FenceQueueOK, t
  <2>3. CASE ~ cmds[id].fenced
    BY <1>4, <2>1, <2>3 DEF DevAnswer, FenceQueueOK
  <2> QED BY <2>2, <2>3
<1> QED
  BY Steps, <1>1, <1>2, <1>3, <1>4
  DEF Quiet, Begins, Enter, virtio_gpu_alloc, virtio_gpu_recv, Receive,
      virtio_gpu_free, check_error, Release, vars, deviceVars

LEMMA ContextsStep ==
  ASSUME GpuInv, [GpuNext]_gpuVars
  PROVE  ContextsOK'
<1>a. /\ GpuTypeOK /\ ChannelOK /\ ControlOK /\ ContextsOK /\ CallOK
      /\ ctxs_size \in Nat /\ call.ctx \in Nat
      /\ NoCmd.op = "use" /\ NoCmd.ctx = 0
  <2>1. GpuTypeOK /\ ChannelOK /\ ControlOK /\ ContextsOK /\ CallOK /\ call \in Command
    BY Basics DEF GpuInv
  <2>2. ctxs_size \in Nat
    BY <2>1, GpuAssumption DEF GpuTypeOK
  <2>3. call.ctx \in Nat
    BY <2>1, GpuAssumption DEF Command
  <2>4. NoCmd.op = "use" /\ NoCmd.ctx = 0
    BY DEF NoCmd, Cmd
  <2> QED BY <2>1, <2>2, <2>3, <2>4
<1>b. /\ Len(submitted) \in Nat /\ DOMAIN submitted = 1..Len(submitted)
      /\ submitted = << >> <=> Len(submitted) = 0
      /\ \A i \in DOMAIN submitted : submitted[i] \in Request /\ submitted[i] \in Elements(submitted)
  BY <1>a, SeqFacts DEF ChannelOK
<1> USE <1>a, <1>b
<1>1. CASE UNCHANGED <<submitted, cmds, hostCtx, ctxs_size, call>> /\ (ret = "wait" <=> ret' = "wait")
  BY <1>1 DEF ContextsOK, Preparing
<1>2. ASSUME NEW c \in Command, Begins(c) PROVE ContextsOK'
  <2>1. /\ UNCHANGED <<submitted, cmds, hostCtx, ret>> /\ call' = c /\ call = NoCmd
        /\ ret # "wait"
    BY <1>2 DEF Begins, Enter, vars, deviceVars, ControlOK
  <2>2. hostCtx = 1..ctxs_size
    BY <2>1 DEF ContextsOK
  <2>3. \A i \in DOMAIN submitted : LET d == cmds[submitted[i]] IN
          d.op # "ctx_create" => d.ctx \in hostCtx \cup {0}
    BY DEF ContextsOK
  <2>4. CASE ContextCall(c)
    <3>1. ctxs_size' = ctxs_size + 1 /\ c.ctx = ctxs_size + 1 /\ c.op = "ctx_create"
      BY <2>4 DEF ContextCall
    <3>2. \A d \in 1..ctxs_size' : d \notin hostCtx <=> d = c.ctx
      BY <2>2, <3>1
    <3> QED BY <2>1, <2>2, <2>3, <3>1, <3>2 DEF ContextsOK, Preparing
  <2>5. CASE ~ ContextCall(c)
    <3>1. ctxs_size' = ctxs_size /\ c.ctx \in 0..ctxs_size /\ c.op # "ctx_create"
      BY <1>2, <2>5 DEF Begins, PlainCall, CreateCall, UnrefCall, FencedCall, idVars
    <3> QED BY <2>1, <2>2, <2>3, <3>1 DEF ContextsOK
  <2> QED BY <2>4, <2>5
<1>3. CASE virtio_gpu_send
  <2>1. /\ submitted' # << >> /\ UNCHANGED <<hostCtx, ctxs_size>> /\ ret # "wait"
        /\ Len(submitted)' = Len(submitted) + 1 /\ submitted'[Len(submitted) + 1] = slot
        /\ \A i \in 1..Len(submitted) : submitted'[i] = submitted[i]
        /\ DOMAIN submitted' = 1..(Len(submitted) + 1)
    <3>1. Send(slot) /\ slot \in Request /\ ret # "wait" /\ UNCHANGED <<hostCtx, ctxs_size>>
      BY <1>3, SendFacts DEF virtio_gpu_send, deviceVars, idVars
    <3> QED BY <3>1, SendStep, SeqFacts DEF ChannelOK
  <2>2. \A i \in DOMAIN submitted : cmds'[submitted[i]] = cmds[submitted[i]]
    BY <1>3, SendFacts DEF Busy
  <2>3. cmds'[slot].op = call.op /\ cmds'[slot].ctx = call.ctx
    BY <1>3, SendFacts
  <2>4. ASSUME NEW i \in DOMAIN submitted', cmds'[submitted'[i]].op # "ctx_create"
        PROVE  cmds'[submitted'[i]].ctx \in hostCtx \cup {0}
    BY <2>1, <2>2, <2>3, <2>4 DEF ContextsOK
  <2>5. CASE call' = call
    BY <2>1, <2>4, <2>5 DEF ContextsOK, Preparing
  <2>6. CASE call' # call
    <3>1. call' = NoCmd /\ ~ call.sync
      BY <1>3, <2>6 DEF virtio_gpu_send
    <3>2. call.op # "ctx_create"
      BY <3>1 DEF CallOK
    <3> QED BY <2>1, <2>4, <3>1, <3>2 DEF ContextsOK
  <2> QED BY <2>5, <2>6
<1>4. CASE check_error
  <2>1. /\ UNCHANGED <<submitted, cmds, hostCtx, ctxs_size>> /\ call' = NoCmd
        /\ ret = "wait" /\ slot \in received
    BY <1>4 DEF check_error, Release, deviceVars, ControlOK
  <2>2. submitted = << >>
    <3>1. submitted # << >> => Len(submitted) \in DOMAIN submitted /\ submitted[Len(submitted)] = slot
      BY <2>1 DEF GpuInv, SyncIsLast
    <3> QED BY <2>1, <3>1 DEF ChannelOK, Exclusive
  <2> QED BY <2>1, <2>2 DEF ContextsOK, Preparing
<1>5. CASE DevTake
  <2> DEFINE c == cmds[Head(submitted)]
  <2>1. /\ UNCHANGED <<cmds, ctxs_size, call, ret>> /\ submitted # << >>
        /\ hostCtx' = hostCtx \cup IF c.op = "ctx_create" THEN {c.ctx} ELSE {}
    BY <1>5 DEF DevTake, Take, idVars
  <2>2. /\ c.op = "ctx_create" => ret = "wait" /\ c = call /\ submitted' = << >>
        /\ submitted' = << >> /\ ret = "wait" => c = call
    BY <1>5, TakeFacts
  <2>3. ASSUME NEW i \in DOMAIN submitted', cmds'[submitted'[i]].op # "ctx_create"
        PROVE  cmds'[submitted'[i]].ctx \in hostCtx' \cup {0}
    BY <1>5, <2>1, <2>3, TakeFacts DEF ContextsOK
  <2> HIDE DEF c
  <2>4. CASE c.op = "ctx_create"
    <3>1. hostCtx' = hostCtx \cup {call.ctx} /\ call.op = "ctx_create" /\ call.ctx # 0
          /\ ret' = "wait" /\ submitted' = << >>
      BY <2>1, <2>2, <2>4 DEF CallOK
    <3>2. call.ctx \in 1..ctxs_size
      BY <3>1 DEF ContextsOK
    <3> QED BY <2>1, <2>3, <3>1, <3>2 DEF ContextsOK, Preparing
  <2>5. CASE c.op # "ctx_create"
    <3>1. hostCtx' = hostCtx
      BY <2>1, <2>5
    <3>2. call.op = "ctx_create" => Preparing \/ submitted' # << >>
      BY <2>2, <2>5 DEF Preparing
    <3> QED BY <2>1, <2>3, <3>1, <3>2 DEF ContextsOK, Preparing
  <2> QED BY <2>4, <2>5
<1>6. CASE virtio_gpu_alloc
  <2>1. UNCHANGED <<submitted, cmds, hostCtx, ctxs_size, call>> /\ ret # "wait" /\ ret' # "wait"
    BY <1>6 DEF virtio_gpu_alloc, vars, idVars, deviceVars, ControlOK, Polling
  <2> QED BY <1>1, <2>1
<1>7. CASE Quiet
  BY <1>1, <1>7 DEF Quiet, vars, idVars
<1>8. CASE virtio_gpu_recv \/ virtio_gpu_free
  BY <1>1, <1>8 DEF virtio_gpu_recv, Receive, virtio_gpu_free, Release, idVars, deviceVars
<1>9. ASSUME NEW id \in Request, DevAnswer(id) PROVE ContextsOK'
  BY <1>1, <1>9 DEF DevAnswer, Answer, idVars
<1> QED BY Steps, <1>2, <1>3, <1>4, <1>5, <1>6, <1>7, <1>8, <1>9

-----------------------------------------------------------------------------
(* Resource ids.                                                           *)

\* The id that alloc gives out is not in use.
LEMMA AllocFacts ==
  ASSUME GpuInv, NEW r \in Rsc, virtio_gpu_resource_alloc(r)
  PROVE  /\ r \notin InUse /\ r \in 1..rscs_size'
         /\ rscs_size' \in Nat /\ rscs_size <= rscs_size'
<1>1. rscs_size \in Nat /\ InUse \subseteq 1..rscs_size
  BY GpuAssumption DEF GpuInv, GpuTypeOK, ResourcesOK
<1>2. PICK n \in Nat : \E path \in [1..n -> 1..rscs_size] : FreeList(n, path)
  BY DEF GpuInv, FreeIdsOK
<1>3. PICK path \in [1..n -> 1..rscs_size] : FreeList(n, path)
  BY <1>2
<1>4. CASE free_rsc_id # 0
  <2>1. 1 \in 1..n
    BY <1>3, <1>4 DEF FreeList
  <2>2. r = path[1] /\ rscs_size' = rscs_size
    BY <1>3, <1>4, <2>1 DEF FreeList, virtio_gpu_resource_alloc
  <2> QED BY <1>1, <1>3, <2>1, <2>2 DEF FreeList
<1>5. CASE free_rsc_id = 0
  <2>1. r = rscs_size + 1 /\ rscs_size' = r
    BY <1>5 DEF virtio_gpu_resource_alloc
  <2> QED BY <1>1, <2>1
<1> QED BY <1>4, <1>5

LEMMA FreeIdsStep ==
  ASSUME GpuInv, [GpuNext]_gpuVars
  PROVE  FreeIdsOK'
<1>a. /\ GpuTypeOK /\ ControlOK /\ ResourcesOK /\ CallOK /\ rscs_size \in Nat
      /\ NoCmd.op = "use" /\ call.rsc \in Nat
  BY GpuAssumption DEF GpuInv, GpuTypeOK, NoCmd, Cmd, Command
<1> USE <1>a
<1>1. PICK n \in Nat : \E path \in [1..n -> 1..rscs_size] : FreeList(n, path)
  BY DEF GpuInv, FreeIdsOK
<1>2. PICK path \in [1..n -> 1..rscs_size] : FreeList(n, path)
  BY <1>1
<1>3. CASE UNCHANGED <<rscs_size, free_rsc_id, next>> /\ InUse' \subseteq InUse
  <2>1. FreeList(n, path)'
    BY <1>2, <1>3 DEF FreeList
  <2> QED BY <1>3, <2>1 DEF FreeIdsOK
<1>4. ASSUME NEW c \in Command, Begins(c), ~ CreateCall(c) PROVE FreeIdsOK'
  <2>1. UNCHANGED <<rscs_size, free_rsc_id, next>>
    BY <1>4 DEF Begins, PlainCall, UnrefCall, ContextCall, FencedCall, idVars
  <2>2. call = NoCmd /\ call' = c
    BY <1>4 DEF Begins, Enter, ControlOK
  <2>3. InUse' \subseteq InUse
    BY <1>4, <2>2 DEF InUse, Begins, PlainCall, UnrefCall, ContextCall, FencedCall, idVars
  <2> QED BY <1>3, <2>1, <2>3
<1>5. ASSUME NEW c \in Command, Begins(c), CreateCall(c) PROVE FreeIdsOK'
  <2> DEFINE r == c.rsc
  <2>1. /\ r \in Rsc /\ virtio_gpu_resource_alloc(r) /\ c.op = "create"
        /\ live' = live \cup {r} /\ call' = c /\ call = NoCmd
    BY <1>5 DEF Begins, Enter, CreateCall, ControlOK
  <2>2. InUse' = InUse \cup {r}
    BY <2>1 DEF InUse
  <2> HIDE DEF r
  <2>3. CASE free_rsc_id # 0
    <3>1. 1 \in 1..n /\ r = path[1] /\ free_rsc_id' = next[r] /\ UNCHANGED <<rscs_size, next>>
      BY <1>2, <2>1, <2>3 DEF FreeList, virtio_gpu_resource_alloc
    <3> DEFINE tail == [i \in 1..(n - 1) |-> path[i + 1]]
    <3>2. \A i \in 1..(n - 1) : i + 1 \in 1..n /\ i + 1 # 1 /\ i \in 1..n
      OBVIOUS
    <3>3. tail \in [1..(n - 1) -> 1..rscs_size] /\ n - 1 \in Nat
      BY <3>1, <3>2
    <3>4. \A i, j \in 1..(n - 1) : tail[i] = tail[j] => i = j
      <4>1. ASSUME NEW i \in 1..(n - 1), NEW j \in 1..(n - 1), tail[i] = tail[j]
            PROVE  i = j
        <5>1. path[i + 1] = path[j + 1]
          BY <4>1
        <5>2. i + 1 = j + 1
          BY <1>2, <3>2, <5>1 DEF FreeList
        <5> QED BY <5>2
      <4> QED BY <4>1
    <3>5. \A i \in 1..(n - 1) : tail[i] \notin InUse'
      BY <1>2, <2>2, <3>1, <3>2 DEF FreeList
    <3>6. free_rsc_id' = IF n - 1 = 0 THEN 0 ELSE tail[1]
      <4>1. next[path[1]] = IF 1 = n THEN 0 ELSE path[2]
        BY <1>2, <3>1 DEF FreeList
      <4> QED BY <3>1, <4>1
    <3>7. \A i \in 1..(n - 1) : next'[tail[i]] = IF i = n - 1 THEN 0 ELSE tail[i + 1]
      <4>1. ASSUME NEW i \in 1..(n - 1)
            PROVE  next[tail[i]] = IF i = n - 1 THEN 0 ELSE tail[i + 1]
        <5>1. next[path[i + 1]] = IF i + 1 = n THEN 0 ELSE path[(i + 1) + 1]
          BY <1>2, <3>2 DEF FreeList
        <5>2. i # n - 1 => i + 1 \in 1..(n - 1)
          OBVIOUS
        <5> QED BY <5>1, <5>2
      <4> QED BY <3>1, <4>1
    <3> HIDE DEF tail
    <3>8. FreeList(n - 1, tail)'
      BY <3>4, <3>5, <3>6, <3>7 DEF FreeList
    <3> QED BY <3>1, <3>3, <3>8 DEF FreeIdsOK
  <2>4. CASE free_rsc_id = 0
    <3>1. free_rsc_id' = 0
      BY <2>1, <2>4 DEF virtio_gpu_resource_alloc
    <3> DEFINE none == [i \in 1..0 |-> 0]
    <3>2. \A i \in 1..0 : FALSE
      OBVIOUS
    <3>3. none \in [1..0 -> 1..rscs_size'] /\ FreeList(0, none)'
      BY <3>1, <3>2 DEF FreeList
    <3> QED BY <3>3 DEF FreeIdsOK
  <2> QED BY <2>3, <2>4
<1>6. CASE virtio_gpu_send
  <2>1. UNCHANGED <<rscs_size, free_rsc_id, next, live>>
    BY <1>6 DEF virtio_gpu_send, idVars
  <2>2. call' = call \/ call' = NoCmd
    BY <1>6 DEF virtio_gpu_send
  <2> QED BY <1>3, <2>1, <2>2 DEF InUse
<1>7. CASE check_error /\ call.op # "unref"
  BY <1>3, <1>7 DEF check_error, InUse
<1>8. CASE check_error /\ call.op = "unref"
  <2>0. PICK r : r = call.rsc
    OBVIOUS
  <2>1. /\ next' = [next EXCEPT ![r] = free_rsc_id] /\ free_rsc_id' = r
        /\ UNCHANGED <<rscs_size, live>> /\ call' = NoCmd
    BY <1>8, <2>0 DEF check_error
  <2>2. /\ r \in InUse /\ r \in 1..rscs_size /\ r \in Rsc
        /\ r \notin live /\ InUse = live \cup {r} /\ InUse' = live
    BY <1>8, <2>0, <2>1, GpuAssumption DEF InUse, ResourcesOK, GpuTypeOK, Rsc
  <2> DEFINE longer == [i \in 1..(n + 1) |-> IF i = 1 THEN r ELSE path[i - 1]]
  <2>3. \A i \in 1..(n + 1) : i # 1 => i - 1 \in 1..n
    OBVIOUS
  <2>4. longer \in [1..(n + 1) -> 1..rscs_size]
    BY <2>2, <2>3
  <2>5. ASSUME NEW i \in 1..n PROVE path[i] # r /\ path[i] \in Rsc
    <3>1. path[i] \in 1..rscs_size /\ path[i] \notin InUse
      BY <1>2 DEF FreeList
    <3>2. rscs_size \in 0..R
      BY DEF GpuTypeOK
    <3> QED BY <2>2, <3>1, <3>2, GpuAssumption DEF Rsc
  <2>6. ASSUME NEW i \in 1..(n + 1), NEW j \in 1..(n + 1), longer[i] = longer[j]
        PROVE  i = j
    <3>1. CASE i = 1 \/ j = 1
      BY <2>3, <2>5, <2>6, <3>1
    <3>2. CASE i # 1 /\ j # 1
      <4>1. i - 1 = j - 1
        BY <1>2, <2>3, <2>6, <3>2 DEF FreeList
      <4> QED BY <4>1
    <3> QED BY <3>1, <3>2
  <2>7. \A i \in 1..(n + 1) : longer[i] \notin InUse'
    BY <1>2, <2>2, <2>3 DEF FreeList
  <2>8. free_rsc_id' = IF n + 1 = 0 THEN 0 ELSE longer[1]
    BY <2>1
  <2>9. ASSUME NEW i \in 1..(n + 1)
        PROVE  next'[longer[i]] = IF i = n + 1 THEN 0 ELSE longer[i + 1]
    <3>1. CASE i = 1
      <4>1. next'[longer[i]] = free_rsc_id
        BY <2>1, <2>2, <3>1 DEF GpuTypeOK
      <4>2. n # 0 => 2 \in 1..(n + 1) /\ longer[2] = path[1]
        OBVIOUS
      <4> QED BY <1>2, <3>1, <4>1, <4>2 DEF FreeList
    <3>2. CASE i # 1
      <4>1. next'[longer[i]] = next[path[i - 1]]
        BY <2>1, <2>3, <2>5, <3>2 DEF GpuTypeOK
      <4>2. next[path[i - 1]] = IF i - 1 = n THEN 0 ELSE path[(i - 1) + 1]
        BY <1>2, <2>3, <3>2 DEF FreeList
      <4>3. i # n + 1 => i + 1 \in 1..(n + 1) /\ longer[i + 1] = path[i]
        BY <3>2
      <4> QED BY <4>1, <4>2, <4>3
    <3> QED BY <3>1, <3>2
  <2> HIDE DEF longer
  <2>10. /\ \A i, j \in 1..(n + 1) : longer[i] = longer[j] => i = j
         /\ \A i \in 1..(n + 1) : next'[longer[i]] = IF i = n + 1 THEN 0 ELSE longer[i + 1]
    BY <2>6, <2>9
  <2>11. FreeList(n + 1, longer)' /\ n + 1 \in Nat
    BY <2>7, <2>8, <2>10 DEF FreeList
  <2> QED BY <2>1, <2>4, <2>11 DEF FreeIdsOK
<1> QED
  BY Steps, <1>3, <1>4, <1>5, <1>6, <1>7, <1>8
  DEF Quiet, virtio_gpu_alloc, virtio_gpu_recv, virtio_gpu_free, DevTake, DevAnswer,
      idVars, InUse

\* A new command creates nothing, or what the call creates.
LEMMA WillHaveSend ==
  ASSUME GpuInv, virtio_gpu_send
  PROVE  /\ \A r : \A n \in 0..Len(submitted) : WillHave(r, n)' <=> WillHave(r, n)
         /\ \A r : WillHave(r, Len(submitted))' <=>
              WillHave(r, Len(submitted)) \/ (call.op = "create" /\ call.rsc = r)
         /\ \A i \in 1..Len(submitted) : cmds'[submitted'[i]] = cmds[submitted[i]]
         /\ Len(submitted)' = Len(submitted) + 1 /\ Len(submitted) \in Nat
         /\ DOMAIN submitted' = 1..(Len(submitted) + 1) /\ submitted' # << >>
         /\ submitted'[Len(submitted) + 1] = slot
<1>a. GpuTypeOK /\ ChannelOK /\ ControlOK
  BY Basics
<1>1. /\ Send(slot) /\ slot \in Request \ Busy
      /\ cmds'[slot].op = call.op /\ cmds'[slot].rsc = call.rsc
      /\ \A id \in Request \ {slot} : cmds'[id] = cmds[id]
      /\ hostRsc' = hostRsc
  BY <1>a, SendFacts DEF virtio_gpu_send, deviceVars
<1>2. /\ Len(submitted) \in Nat
      /\ \A i \in 1..Len(submitted) : submitted[i] \in Request \ {slot}
  BY <1>a, <1>1, SeqFacts DEF ChannelOK, Busy
<1>3. /\ Len(submitted)' = Len(submitted) + 1 /\ submitted'[Len(submitted) + 1] = slot
      /\ \A i \in 1..Len(submitted) : submitted'[i] = submitted[i]
      /\ DOMAIN submitted' = 1..(Len(submitted) + 1) /\ submitted' # << >>
  BY <1>a, <1>1, SendStep, SeqFacts DEF ChannelOK
<1>4. \A i \in 1..Len(submitted) : cmds'[submitted'[i]] = cmds[submitted[i]]
  BY <1>1, <1>2, <1>3
<1>5. PICK len \in Nat : len = Len(submitted)
  BY <1>2
<1>6. ASSUME NEW r
      PROVE  /\ \A i \in 1..len : Creates(i, r)' <=> Creates(i, r)
             /\ Creates(len + 1, r)' <=> (call.op = "create" /\ call.rsc = r)
  <2>1. \A i \in 1..len : Creates(i, r)' <=> Creates(i, r)
    BY <1>4, <1>5 DEF Creates
  <2>2. cmds'[submitted'[len + 1]] = cmds'[slot]
    BY <1>3, <1>5
  <2>3. Creates(len + 1, r)' <=> (call.op = "create" /\ call.rsc = r)
    BY <1>1, <2>2 DEF Creates
  <2> QED BY <2>1, <2>3
<1>7. ASSUME NEW r, NEW n
      PROVE  /\ WillHave(r, n) <=> r \in hostRsc \/ \E i \in 1..n : Creates(i, r)
             /\ WillHave(r, n)' <=> r \in hostRsc \/ \E i \in 1..n : Creates(i, r)'
  BY <1>1 DEF WillHave
<1>8. ASSUME NEW r, NEW n \in 0..len
      PROVE  WillHave(r, n)' <=> WillHave(r, n)
  <2>1. \A i \in 1..n : i \in 1..len
    OBVIOUS
  <2> QED BY <1>6, <1>7, <2>1
<1>9. ASSUME NEW r
      PROVE  WillHave(r, len + 1)' <=>
               WillHave(r, len) \/ (call.op = "create" /\ call.rsc = r)
  <2>1. \A i : i \in 1..(len + 1) <=> i \in 1..len \/ i = len + 1
    OBVIOUS
  <2> QED BY <1>6, <1>7, <2>1
<1>10. \A r : /\ WillHave(r, Len(submitted)) <=> WillHave(r, len)
              /\ WillHave(r, Len(submitted))' <=> WillHave(r, len + 1)'
  BY <1>3, <1>5 DEF WillHave
<1> QED BY <1>1, <1>2, <1>3, <1>4, <1>5, <1>8, <1>9, <1>10

\* What the device has or gets does not change when it takes a command.
LEMMA WillHaveTake ==
  ASSUME GpuInv, DevTake, cmds[Head(submitted)].op # "unref"
  PROVE  /\ \A r : \A n \in 0..(Len(submitted) - 1) : WillHave(r, n)' <=> WillHave(r, n + 1)
         /\ \A r : WillHave(r, Len(submitted))' <=> WillHave(r, Len(submitted))
         /\ \A r : r \in hostRsc' <=> r \in hostRsc \/ Creates(1, r)
<1>1. /\ Head(submitted) = submitted[1] /\ Len(submitted) \in Nat
      /\ Len(submitted)' = Len(submitted) - 1 /\ 1 <= Len(submitted)
      /\ \A i \in 1..(Len(submitted) - 1) : submitted'[i] = submitted[i + 1]
      /\ UNCHANGED cmds
  <2>1. /\ Head(submitted) = submitted[1] /\ Len(submitted) \in Nat
        /\ Len(submitted)' = Len(submitted) - 1 /\ 1 \in 1..Len(submitted)
        /\ \A i \in 1..(Len(submitted) - 1) : submitted'[i] = submitted[i + 1]
    BY TakeFacts
  <2> QED BY <2>1 DEF DevTake
<1>2. PICK len \in Nat : len = Len(submitted)
  BY <1>1
<1>3. ASSUME NEW r
      PROVE  r \in hostRsc' <=> r \in hostRsc \/ Creates(1, r)
  <2>1. hostRsc' = hostRsc \cup IF cmds[submitted[1]].op = "create" THEN {cmds[submitted[1]].rsc} ELSE {}
    BY <1>1 DEF DevTake
  <2> QED BY <2>1 DEF Creates
<1>4. ASSUME NEW r, NEW n \in 0..(len - 1)
      PROVE  WillHave(r, n)' <=> WillHave(r, n + 1)
  <2>1. \A i \in 1..n : Creates(i, r)' <=> Creates(i + 1, r)
    BY <1>1, <1>2 DEF Creates
  <2>2. WillHave(r, n)' <=> r \in hostRsc' \/ \E i \in 1..n : Creates(i, r)'
    BY DEF WillHave
  <2>3. WillHave(r, n + 1) <=> r \in hostRsc \/ \E i \in 1..(n + 1) : Creates(i, r)
    BY DEF WillHave
  <2>4. /\ \A i \in 1..n : i + 1 \in 1..(n + 1)
        /\ \A i \in 1..(n + 1) : i = 1 \/ (i - 1 \in 1..n /\ (i - 1) + 1 = i)
        /\ 1 \in 1..(n + 1)
    OBVIOUS
  <2>5. (\E i \in 1..(n + 1) : Creates(i, r)) <=> Creates(1, r) \/ \E i \in 1..n : Creates(i + 1, r)
    BY <2>4
  <2> QED BY <1>3, <2>1, <2>2, <2>3, <2>5
<1>5. /\ len - 1 \in 0..(len - 1) /\ (len - 1) + 1 = len
      /\ \A r : /\ WillHave(r, Len(submitted)) <=> WillHave(r, len)
                /\ WillHave(r, Len(submitted))' <=> WillHave(r, len - 1)'
  BY <1>1, <1>2 DEF WillHave
<1>6. \A r : WillHave(r, len - 1)' <=> WillHave(r, len)
  <2>1. \A r : WillHave(r, len - 1)' <=> WillHave(r, (len - 1) + 1)
    BY <1>4, <1>5
  <2> QED BY <1>5, <2>1
<1> QED BY <1>2, <1>3, <1>4, <1>5, <1>6

LEMMA ResourcesStep ==
  ASSUME GpuInv, [GpuNext]_gpuVars
  PROVE  ResourcesOK'
<1>a. GpuTypeOK /\ ChannelOK /\ ControlOK /\ ResourcesOK /\ CallOK
  BY Basics DEF GpuInv
<1>c. /\ rscs_size \in Nat /\ call.rsc \in Nat
      /\ NoCmd.op = "use" /\ NoCmd.rsc = 0
  BY <1>a, GpuAssumption DEF GpuTypeOK, Command, NoCmd, Cmd
<1>b. /\ Len(submitted) \in Nat /\ DOMAIN submitted = 1..Len(submitted)
      /\ submitted = << >> <=> Len(submitted) = 0
      /\ \A i \in DOMAIN submitted : submitted[i] \in Request /\ submitted[i] \in Elements(submitted)
  BY <1>a, SeqFacts DEF ChannelOK
<1> USE <1>a, <1>b, <1>c
<1>1. CASE /\ UNCHANGED <<submitted, cmds, hostRsc, live, rscs_size, call>>
           /\ ret = "wait" <=> ret' = "wait"
  BY <1>1 DEF ResourcesOK, Queued, InUse, Preparing, WillHave, Creates
<1>2. ASSUME NEW c \in Command, Begins(c) PROVE ResourcesOK'
  <2>1. /\ UNCHANGED <<submitted, cmds, hostRsc, ret>> /\ call' = c /\ call = NoCmd
        /\ ret # "wait"
    BY <1>2 DEF Begins, Enter, vars, deviceVars, ControlOK
  <2>2. /\ \A r, i : Creates(i, r)' <=> Creates(i, r)
        /\ \A r, n : WillHave(r, n)' <=> WillHave(r, n)
        /\ \A r : WillHave(r, Len(submitted))' <=> WillHave(r, Len(submitted))
    BY <2>1 DEF Creates, WillHave
  <2>3. /\ InUse = live /\ live \subseteq 1..rscs_size /\ hostRsc \subseteq live
        /\ \A r \in live : WillHave(r, Len(submitted))
        /\ \A i \in DOMAIN submitted : cmds[submitted[i]].rsc # 0 => cmds[submitted[i]].rsc \in live
        /\ 0 \notin live
    BY <2>1 DEF InUse, ResourcesOK, Queued
  <2>4. \A r : r \notin live => ~ WillHave(r, Len(submitted))
    <3>1. ASSUME NEW r, WillHave(r, Len(submitted)) PROVE r \in live
      <4>1. CASE r \in hostRsc
        BY <2>3, <4>1
      <4>2. CASE r \notin hostRsc
        <5>1. PICK i \in 1..Len(submitted) : Creates(i, r)
          BY <3>1, <4>2 DEF WillHave
        <5>2. cmds[submitted[i]].rsc = r /\ r # 0
          BY <5>1 DEF Creates, ResourcesOK, Queued
        <5> QED BY <2>3, <5>2
      <4> QED BY <4>1, <4>2
    <3> QED BY <3>1
  <2>5. ASSUME NEW i \in DOMAIN submitted', NEW d, d = cmds'[submitted'[i]], live \subseteq InUse'
        PROVE  Queued(i, d)'
    <3>1. Queued(i, d)
      BY <2>1, <2>5 DEF ResourcesOK
    <3> QED BY <2>1, <2>2, <2>3, <2>5, <3>1 DEF Queued
  <2>6. CASE CreateCall(c)
    <3>1. /\ c.op = "create" /\ c.rsc \in Rsc /\ live' = live \cup {c.rsc}
          /\ virtio_gpu_resource_alloc(c.rsc)
      BY <2>6 DEF CreateCall
    <3>2. c.rsc \notin live /\ c.rsc \in 1..rscs_size' /\ rscs_size' \in Nat /\ rscs_size <= rscs_size'
      BY <2>3, <3>1, AllocFacts
    <3>3. InUse' = live' /\ live \subseteq InUse'
      BY <2>1, <2>3, <3>1 DEF InUse
    <3>4. InUse' \subseteq 1..rscs_size'
      <4>1. \A r \in 1..rscs_size : r \in 1..rscs_size'
        BY <3>2
      <4> QED BY <2>3, <3>1, <3>2, <3>3, <4>1
    <3> QED BY <2>1, <2>2, <2>3, <2>4, <2>5, <3>1, <3>2, <3>3, <3>4 DEF ResourcesOK, Preparing
  <2>7. CASE UnrefCall(c)
    <3>1. c.op = "unref" /\ c.rsc \in live /\ live' = live \ {c.rsc} /\ rscs_size' = rscs_size
      BY <2>7 DEF UnrefCall
    <3>2. InUse' = live
      BY <2>1, <3>1 DEF InUse
    <3> QED BY <2>1, <2>2, <2>3, <2>5, <3>1, <3>2 DEF ResourcesOK, Preparing
  <2>8. CASE PlainCall(c) \/ ContextCall(c) \/ FencedCall(c)
    <3>1. c.op \notin {"create", "unref"} /\ c.rsc \in live \cup {0} /\ UNCHANGED <<live, rscs_size>>
      BY <2>8 DEF PlainCall, ContextCall, FencedCall, idVars
    <3>2. InUse' = live
      BY <2>1, <3>1 DEF InUse
    <3> QED BY <2>1, <2>2, <2>3, <2>5, <3>1, <3>2 DEF ResourcesOK, Preparing
  <2> QED BY <1>2, <2>6, <2>7, <2>8 DEF Begins
<1>3. CASE virtio_gpu_send
  <2>1. /\ \A r : \A n \in 0..Len(submitted) : WillHave(r, n)' <=> WillHave(r, n)
        /\ \A r : WillHave(r, Len(submitted))' <=>
             WillHave(r, Len(submitted)) \/ (call.op = "create" /\ call.rsc = r)
        /\ \A i \in 1..Len(submitted) : cmds'[submitted'[i]] = cmds[submitted[i]]
        /\ DOMAIN submitted' = 1..(Len(submitted) + 1) /\ submitted' # << >>
        /\ submitted'[Len(submitted) + 1] = slot
    BY <1>3, WillHaveSend
  <2>2. cmds'[slot].op = call.op /\ cmds'[slot].rsc = call.rsc
    BY <1>3, SendFacts
  <2>3. /\ UNCHANGED <<hostRsc, live, rscs_size>> /\ ret # "wait"
        /\ \/ call' = call /\ call.sync /\ ret' = "wait"
           \/ call' = NoCmd /\ ~ call.sync
    BY <1>3, SendFacts DEF virtio_gpu_send, deviceVars, idVars
  <2>4. /\ InUse' = InUse
        /\ call.rsc # 0 => call.rsc \in InUse
        /\ call.op # "create" /\ call.rsc # 0 => WillHave(call.rsc, Len(submitted))
        /\ call.op = "create" => /\ call.rsc # 0 /\ call.rsc \notin hostRsc
                                 /\ \A i \in DOMAIN submitted : ~ Creates(i, call.rsc)
    BY <2>3 DEF InUse, CallOK, ResourcesOK, Preparing, WillHave
  <2>5. ASSUME NEW i \in DOMAIN submitted', NEW d, d = cmds'[submitted'[i]]
        PROVE  Queued(i, d)'
    <3>1. CASE i \in DOMAIN submitted
      <4>1. Queued(i, d) /\ Creates(i, d.rsc) = (d.op = "create")
        BY <2>1, <2>5, <3>1 DEF ResourcesOK, Creates
      <4>2. d.op = "create" => ~ (call.op = "create" /\ call.rsc = d.rsc)
        BY <2>4, <3>1, <4>1
      <4>3. \A j \in DOMAIN submitted' : Creates(j, d.rsc)' =>
              \/ j \in DOMAIN submitted /\ Creates(j, d.rsc)
              \/ call.op = "create" /\ call.rsc = d.rsc
        BY <2>1, <2>2 DEF Creates
      <4>4. WillHave(d.rsc, i - 1)' <=> WillHave(d.rsc, i - 1)
        BY <2>1, <3>1
      <4> QED BY <2>3, <2>4, <4>1, <4>2, <4>3, <4>4 DEF Queued
    <3>2. CASE i = Len(submitted) + 1
      <4>1. d.op = call.op /\ d.rsc = call.rsc
        BY <2>1, <2>2, <2>5, <3>2
      <4>2. \A j \in DOMAIN submitted : Creates(j, d.rsc)' <=> Creates(j, d.rsc)
        BY <2>1 DEF Creates
      <4>3. WillHave(d.rsc, i - 1)' <=> WillHave(d.rsc, Len(submitted))
        BY <2>1, <3>2
      <4>4. d.op = "create" => \A j \in DOMAIN submitted' : Creates(j, d.rsc)' => j = i
        BY <2>1, <2>4, <3>2, <4>1, <4>2
      <4> QED BY <2>3, <2>4, <4>1, <4>3, <4>4 DEF Queued
    <3> QED BY <2>1, <2>5, <3>1, <3>2
  <2>6. \A r \in live : WillHave(r, Len(submitted))'
    BY <2>1, <2>3 DEF ResourcesOK
  <2>7. \A i \in DOMAIN submitted' : Queued(i, cmds[submitted[i]])'
    BY <2>5 DEF Queued
  <2> QED BY <2>1, <2>3, <2>4, <2>6, <2>7 DEF ResourcesOK, Preparing, InUse
<1>4. CASE check_error
  <2>1. /\ UNCHANGED <<submitted, cmds, hostRsc, live, rscs_size>> /\ call' = NoCmd
        /\ ret = "wait" /\ slot \in received
    BY <1>4 DEF check_error, Release, deviceVars, ControlOK
  <2>2. submitted = << >>
    <3>1. submitted # << >> => Len(submitted) \in DOMAIN submitted /\ submitted[Len(submitted)] = slot
      BY <2>1 DEF GpuInv, SyncIsLast
    <3> QED BY <2>1, <3>1 DEF ChannelOK, Exclusive
  <2>3. /\ InUse' = live /\ hostRsc \subseteq live /\ live \subseteq 1..rscs_size
        /\ \A r \in live : WillHave(r, Len(submitted))'
    BY <2>1, <2>2 DEF ResourcesOK, InUse, Preparing, WillHave, Creates
  <2>4. \A i \in DOMAIN submitted' : FALSE
    BY <2>1, <2>2
  <2> QED BY <2>1, <2>2, <2>3, <2>4 DEF ResourcesOK, Preparing
<1>5. CASE DevTake
  <2> DEFINE c == cmds[Head(submitted)]
  <2>1. /\ UNCHANGED <<cmds, live, rscs_size, call, ret>> /\ submitted # << >>
        /\ hostRsc' = (hostRsc \cup IF c.op = "create" THEN {c.rsc} ELSE {})
                         \ (IF c.op = "unref" THEN {c.rsc} ELSE {})
        /\ InUse' = InUse
    BY <1>5 DEF DevTake, Take, idVars, InUse
  <2>2. /\ DOMAIN submitted' = 1..(Len(submitted) - 1) /\ 1 \in DOMAIN submitted
        /\ Head(submitted) = submitted[1]
        /\ \A i \in DOMAIN submitted' : submitted'[i] = submitted[i + 1] /\ i + 1 \in DOMAIN submitted
        /\ c.op = "unref" => ret = "wait" /\ c = call /\ submitted' = << >>
        /\ submitted' = << >> /\ ret = "wait" => c = call
        /\ submitted' = << >> <=> Len(submitted) = 1
    BY <1>5, TakeFacts
  <2>3. hostRsc' \subseteq InUse
    <3>1. Queued(1, cmds[submitted[1]]) /\ c = cmds[submitted[1]] /\ hostRsc \subseteq InUse
      BY <2>2 DEF ResourcesOK
    <3> HIDE DEF c
    <3>2. c.op = "create" => c.rsc \in InUse
      BY <3>1 DEF Queued
    <3> QED BY <2>1, <3>1, <3>2
  <2> HIDE DEF c
  <2>4. CASE c.op = "unref"
    <3>1. /\ ret = "wait" /\ c = call /\ submitted' = << >> /\ hostRsc' = hostRsc \ {call.rsc}
          /\ \A r : ~ Creates(1, r)
          /\ Len(submitted) = 1 /\ \A i \in DOMAIN submitted' : FALSE
      BY <2>1, <2>2, <2>4 DEF Creates, c
    <3>2. ASSUME NEW r \in live PROVE r \in hostRsc'
      <4>1. r # call.rsc /\ WillHave(r, 1)
        BY <2>4, <3>1 DEF ResourcesOK, Preparing
      <4>2. \A i \in 1..1 : i = 1
        OBVIOUS
      <4>3. r \in hostRsc
        BY <3>1, <4>1, <4>2 DEF WillHave
      <4> QED BY <3>1, <4>1, <4>3
    <3> QED BY <2>1, <2>3, <3>1, <3>2 DEF ResourcesOK, Preparing, WillHave
  <2>5. CASE c.op # "unref"
    <3>1. /\ \A r : \A n \in 0..(Len(submitted) - 1) : WillHave(r, n)' <=> WillHave(r, n + 1)
          /\ \A r : WillHave(r, Len(submitted))' <=> WillHave(r, Len(submitted))
          /\ \A r : r \in hostRsc' <=> r \in hostRsc \/ Creates(1, r)
      BY <1>5, <2>5, WillHaveTake DEF c
    <3>2. ASSUME NEW i \in DOMAIN submitted', NEW d, d = cmds'[submitted'[i]]
          PROVE  Queued(i, d)'
      <4>1. i + 1 \in DOMAIN submitted /\ d = cmds[submitted[i + 1]] /\ i \in Nat /\ i # 0
        BY <2>1, <2>2, <3>2
      <4>2. Queued(i + 1, d)
        BY <4>1 DEF ResourcesOK
      <4>3. d.op = "create" => d.rsc \notin hostRsc'
        BY <2>2, <3>1, <4>1, <4>2 DEF Queued
      <4>4. \A j \in DOMAIN submitted' : Creates(j, d.rsc)' => Creates(j + 1, d.rsc)
        BY <2>1, <2>2 DEF Creates
      <4>5. d.op = "create" => \A j \in DOMAIN submitted' : Creates(j, d.rsc)' => j = i
        BY <2>2, <4>1, <4>2, <4>4 DEF Queued
      <4>6. i - 1 \in 0..(Len(submitted) - 1) /\ (i - 1) + 1 = i /\ (i + 1) - 1 = i
        BY <2>2, <4>1
      <4>7. WillHave(d.rsc, i - 1)' <=> WillHave(d.rsc, (i + 1) - 1)
        BY <3>1, <4>6
      <4> QED BY <2>1, <4>2, <4>3, <4>5, <4>7 DEF Queued
    <3>3. ret = "wait" /\ call.op = "unref" => submitted' # << >>
      BY <2>2, <2>5
    <3>4. \A i \in DOMAIN submitted' : Queued(i, cmds[submitted[i]])'
      BY <3>2 DEF Queued
    <3>5. /\ Preparing' <=> Preparing
          /\ \A r \in live : \/ WillHave(r, Len(submitted))'
                             \/ Preparing /\ call.op = "create" /\ call.rsc = r
      <4>1. \A r \in live : \/ WillHave(r, Len(submitted))
                            \/ Preparing /\ call.op = "create" /\ call.rsc = r
        BY DEF ResourcesOK
      <4>2. Preparing' <=> Preparing
        BY <2>1 DEF Preparing
      <4> QED BY <3>1, <4>1, <4>2
    <3> QED BY <2>1, <2>3, <3>1, <3>3, <3>4, <3>5 DEF ResourcesOK, Preparing, InUse
  <2> QED BY <2>4, <2>5
<1>6. CASE virtio_gpu_alloc
  <2>1. UNCHANGED <<submitted, cmds, hostRsc, live, rscs_size, call>> /\ ret # "wait" /\ ret' # "wait"
    BY <1>6 DEF virtio_gpu_alloc, vars, idVars, deviceVars, ControlOK, Polling
  <2> QED BY <1>1, <2>1
<1>7. CASE Quiet
  BY <1>1, <1>7 DEF Quiet, vars, idVars
<1>8. CASE virtio_gpu_recv \/ virtio_gpu_free
  BY <1>1, <1>8 DEF virtio_gpu_recv, Receive, virtio_gpu_free, Release, idVars, deviceVars
<1>9. ASSUME NEW id \in Request, DevAnswer(id) PROVE ResourcesOK'
  BY <1>1, <1>9 DEF DevAnswer, Answer, idVars
<1> QED BY Steps, <1>2, <1>3, <1>4, <1>5, <1>6, <1>7, <1>8, <1>9

-----------------------------------------------------------------------------
(* The order of the fenced commands.                                       *)

\* One request before another in a queue without repetitions.
LEMMA BeforeFacts ==
  ASSUME NEW s \in Seq(Request), \A i, j \in DOMAIN s : s[i] = s[j] => i = j,
         NEW a, NEW b
  PROVE  /\ Before(s, a, b) => a \in Elements(s) /\ b \in Elements(s) /\ a # b
         /\ \A x \in Request : Before(Append(s, x), a, b) =>
              Before(s, a, b) \/ (b = x /\ a \in Elements(s))
         /\ s # << >> /\ Before(Tail(s), a, b) => Before(s, a, b)
         /\ s # << >> /\ b \in Elements(s) /\ b # Head(s) => Before(s, Head(s), b)
<1>1. /\ Len(s) \in Nat /\ DOMAIN s = 1..Len(s)
      /\ \A i \in 1..Len(s) : s[i] \in Elements(s)
      /\ \A x \in Elements(s) : \E i \in 1..Len(s) : s[i] = x
  BY SeqFacts
<1>2. Before(s, a, b) => a \in Elements(s) /\ b \in Elements(s) /\ a # b
  BY <1>1 DEF Before
<1>3. ASSUME NEW x \in Request, Before(Append(s, x), a, b), ~ Before(s, a, b)
      PROVE  b = x /\ a \in Elements(s)
  <2> DEFINE t == Append(s, x)
  <2>1. /\ \A i \in 1..Len(s) : t[i] = s[i]
        /\ t[Len(s) + 1] = x /\ DOMAIN t = 1..(Len(s) + 1)
    BY AppendFacts, LenProperties
  <2>2. PICK i, j \in DOMAIN t : i < j /\ t[i] = a /\ t[j] = b
    BY <1>3 DEF Before
  <2> HIDE DEF t
  <2>3. i \in 1..Len(s) /\ (j \in 1..Len(s) \/ j = Len(s) + 1)
    BY <1>1, <2>1, <2>2
  <2>4. j \notin 1..Len(s)
    BY <1>1, <1>3, <2>1, <2>2, <2>3 DEF Before
  <2> QED BY <1>1, <2>1, <2>2, <2>3, <2>4
<1>4. ASSUME s # << >>, Before(Tail(s), a, b) PROVE Before(s, a, b)
  <2> DEFINE t == Tail(s)
  <2>1. \A i \in 1..Len(t) : t[i] = s[i + 1]
    BY <1>4, TailFacts
  <2>2. DOMAIN t = 1..Len(t) /\ Len(t) = Len(s) - 1
    BY <1>4, TailFacts, SeqFacts
  <2>3. PICK i, j \in DOMAIN t : i < j /\ t[i] = a /\ t[j] = b
    BY <1>4 DEF Before
  <2> HIDE DEF t
  <2>4. i + 1 \in DOMAIN s /\ j + 1 \in DOMAIN s /\ i + 1 < j + 1
    BY <1>1, <2>2, <2>3
  <2>5. s[i + 1] = a /\ s[j + 1] = b
    BY <2>1, <2>2, <2>3
  <2> QED BY <2>4, <2>5 DEF Before
<1>5. ASSUME s # << >>, b \in Elements(s), b # Head(s) PROVE Before(s, Head(s), b)
  <2>1. Head(s) = s[1]
    BY <1>5, TailFacts
  <2>2. PICK j \in 1..Len(s) : s[j] = b
    BY <1>1, <1>5
  <2>3. 1 \in DOMAIN s /\ 1 < j
    BY <1>1, <1>5, <2>1, <2>2
  <2> QED BY <1>1, <2>1, <2>2, <2>3 DEF Before
<1> QED BY <1>2, <1>3, <1>4, <1>5

\* What is not received yet.
Pending == Elements(submitted) \cup serving \cup Elements(completed)

\* A request that is sent comes after the others.
LEMMA PrecedesSend ==
  ASSUME GpuInv, virtio_gpu_send, NEW a, NEW b, Precedes(a, b)'
  PROVE  \/ a \in Pending /\ b \in Pending /\ Precedes(a, b)
         \/ a \in Pending /\ b = slot /\ slot \notin Pending
<1>1. ChannelOK /\ FenceQueueOK /\ fenceq \in Seq(Request)
  BY Basics DEF GpuInv, GpuTypeOK
<1>2. /\ Send(slot) /\ slot \in Request /\ slot \notin Busy
      /\ submitted' = Append(submitted, slot) /\ UNCHANGED <<serving, completed, fenceq>>
      /\ Elements(submitted)' = Elements(submitted) \cup {slot}
  <2>1. Send(slot) /\ slot \in Request /\ slot \notin Busy /\ fenceq' = fenceq
    BY Basics, SendFacts DEF virtio_gpu_send, deviceVars
  <2> QED BY <1>1, <2>1, SendStep DEF Send
<1>3. Elements(fenceq) \subseteq serving /\ slot \notin Pending
  BY <1>1, <1>2 DEF FenceQueueOK, Busy, Pending
<1>4. Before(submitted', a, b) => Before(submitted, a, b) \/ (b = slot /\ a \in Elements(submitted))
  BY <1>1, <1>2, BeforeFacts DEF ChannelOK, Exclusive
<1>5. /\ Before(submitted, a, b) => a \in Elements(submitted) /\ b \in Elements(submitted)
      /\ Before(completed, a, b) => a \in Elements(completed) /\ b \in Elements(completed)
      /\ Before(fenceq, a, b) => a \in Elements(fenceq) /\ b \in Elements(fenceq)
  BY <1>1, BeforeFacts DEF ChannelOK, Exclusive, FenceQueueOK
<1>6. \/ Before(completed, a, b) \/ Before(fenceq, a, b) \/ Before(submitted', a, b)
      \/ a \in Elements(completed) /\ b \in serving \cup Elements(submitted) \cup {slot}
      \/ a \in serving /\ b \in Elements(submitted) \cup {slot}
  BY <1>2 DEF Precedes, Before
<1> QED BY <1>3, <1>4, <1>5, <1>6 DEF Precedes, Pending

\* Taking, answering and receiving fenced commands keep their order.
LEMMA PrecedesKeep ==
  ASSUME GpuInv,
         \/ DevTake \/ virtio_gpu_recv \/ (\E id \in Request : DevAnswer(id)),
         NEW a \in Unreported, NEW b \in Unreported, Precedes(a, b)'
  PROVE  Precedes(a, b)
<1>1. /\ ChannelOK /\ FenceQueueOK /\ fenceq \in Seq(Request)
      /\ a \in Pending /\ b \in Pending
  BY Basics DEF GpuInv, GpuTypeOK, Unreported, Pending
<1>2. Elements(fenceq) \subseteq serving
  BY <1>1 DEF FenceQueueOK
<1> USE DEF Precedes
<1>3. CASE DevTake
  <2> DEFINE h == Head(submitted)
  <2>1. /\ h \in Request /\ h \in Elements(submitted) /\ submitted # << >>
        /\ UNCHANGED completed /\ serving' = serving \cup {h} /\ submitted' = Tail(submitted)
        /\ Elements(submitted)' = Elements(submitted) \ {h}
        /\ fenceq' = fenceq \/ fenceq' = Append(fenceq, h)
    BY <1>1, <1>3, TakeStep DEF DevTake, Take
  <2>2. Before(submitted', a, b) => Before(submitted, a, b)
    BY <1>1, <2>1, BeforeFacts DEF ChannelOK, Exclusive
  <2>3. Before(fenceq', a, b) => Before(fenceq, a, b) \/ (b = h /\ a \in Elements(fenceq))
    <3>1. Before(Append(fenceq, h), a, b) => Before(fenceq, a, b) \/ (b = h /\ a \in Elements(fenceq))
      BY <1>1, <2>1, BeforeFacts DEF FenceQueueOK
    <3>2. CASE fenceq' = fenceq
      BY <3>2
    <3>3. CASE fenceq' = Append(fenceq, h)
      BY <3>1, <3>3
    <3> QED BY <2>1, <3>2, <3>3
  <2>4. b \in Elements(submitted) /\ b # h => Before(submitted, h, b)
    BY <1>1, <2>1, BeforeFacts DEF ChannelOK, Exclusive
  <2>5. \/ Before(completed, a, b) \/ Before(fenceq', a, b) \/ Before(submitted', a, b)
        \/ a \in Elements(completed) /\ b \in serving \cup Elements(submitted)
        \/ a \in serving \cup {h} /\ b \in Elements(submitted) \ {h}
    BY <2>1 DEF Before
  <2> QED BY <1>2, <2>1, <2>2, <2>3, <2>4, <2>5
<1>4. CASE virtio_gpu_recv
  <2>1. /\ UNCHANGED <<submitted, serving, fenceq>> /\ completed' = Tail(completed)
        /\ completed # << >> /\ Elements(completed)' \subseteq Elements(completed)
    BY <1>1, <1>4, ReceiveStep DEF virtio_gpu_recv, Receive, deviceVars
  <2>2. Before(completed', a, b) => Before(completed, a, b)
    BY <1>1, <2>1, BeforeFacts DEF ChannelOK, Exclusive
  <2>3. \/ Before(completed', a, b) \/ Before(fenceq, a, b) \/ Before(submitted, a, b)
        \/ a \in Elements(completed) /\ b \in serving \cup Elements(submitted)
        \/ a \in serving /\ b \in Elements(submitted)
    BY <2>1 DEF Before
  <2> QED BY <2>2, <2>3
<1>5. ASSUME NEW id \in Request, DevAnswer(id) PROVE Precedes(a, b)
  <2>1. /\ id \in serving /\ UNCHANGED submitted /\ serving' = serving \ {id}
        /\ completed' = Append(completed, id)
        /\ Elements(completed)' = Elements(completed) \cup {id}
    BY <1>1, <1>5, AnswerStep DEF DevAnswer, Answer
  <2>2. Before(completed', a, b) => Before(completed, a, b) \/ (b = id /\ a \in Elements(completed))
    BY <1>1, <2>1, BeforeFacts DEF ChannelOK, Exclusive
  <2>3. cmds[id].fenced => id \in Elements(fenceq) /\ id = Head(fenceq)
    BY <1>1, <1>5, <2>1 DEF DevAnswer, FenceQueueOK
  <2>4. fenceq' = fenceq \/ (fenceq # << >> /\ fenceq' = Tail(fenceq))
    BY <1>1, <1>5, <2>3, SeqFacts DEF DevAnswer
  <2>5. Before(fenceq', a, b) => Before(fenceq, a, b)
    <3>1. fenceq # << >> /\ Before(Tail(fenceq), a, b) => Before(fenceq, a, b)
      BY <1>1, BeforeFacts DEF FenceQueueOK
    <3>2. CASE fenceq' = fenceq
      BY <3>2
    <3>3. CASE fenceq # << >> /\ fenceq' = Tail(fenceq)
      BY <3>1, <3>3
    <3> QED BY <2>4, <3>2, <3>3
  <2>6. a = id /\ b \in serving /\ b # id => Before(fenceq, a, b)
    <3>1. a = id /\ b \in serving => cmds[id].fenced /\ b \in Elements(fenceq)
      BY <1>1 DEF Unreported, FenceQueueOK
    <3>2. fenceq # << >> /\ b \in Elements(fenceq) /\ b # Head(fenceq) => Before(fenceq, Head(fenceq), b)
      BY <1>1, BeforeFacts DEF FenceQueueOK
    <3> QED BY <1>1, <2>3, <3>1, <3>2, SeqFacts
  <2>7. \/ Before(completed', a, b) \/ Before(fenceq', a, b) \/ Before(submitted, a, b)
        \/ a \in Elements(completed) \cup {id} /\ b \in (serving \ {id}) \cup Elements(submitted)
        \/ a \in serving \ {id} /\ b \in Elements(submitted)
    BY <2>1 DEF Before
  <2> QED BY <2>1, <2>2, <2>5, <2>6, <2>7
<1> QED BY <1>3, <1>4, <1>5

-----------------------------------------------------------------------------
(* The fence counters.                                                     *)

\* The counters are less than F apart, also when one more fence is taken.
LEMMA FenceFacts ==
  ASSUME GpuInv
  PROVE  /\ fence_submitted \in Fence /\ fence_completed \in Fence
         /\ Unsent <=> call.fenced /\ ret # "wait"
         /\ IsFiniteSet(Unreported) /\ Sent = Cardinality(Unreported) /\ Sent \in Nat
         /\ Dist(fence_completed, fence_submitted) = Sent + IF Unsent THEN 1 ELSE 0
         /\ ~ Unsent => Sent < F - 1
         /\ \A id \in Unreported : id \in Request /\ cmds[id].fenced /\ cmds[id].fence \in Fence
         /\ Unreported \subseteq Busy
<1>1. /\ GpuTypeOK /\ ChannelOK /\ ControlOK /\ Busy \subseteq Request
      /\ free_count \in Nat /\ call.iovcnt \in Nat /\ FencesOK /\ DescriptorsOK
  BY Basics DEF GpuInv
<1>2. fence_submitted \in Fence /\ fence_completed \in Fence
  BY <1>1 DEF GpuTypeOK
<1>3. Unsent <=> call.fenced /\ ret # "wait"
  BY <1>1, GpuAssumption DEF Unsent, ControlOK
<1>4. Unreported \subseteq Busy /\ \A id \in Unreported : cmds[id].fenced
  BY DEF Unreported, Busy
<1>5. /\ IsFiniteSet(Unreported) /\ Cardinality(Unreported) \in Nat
      /\ Cardinality(Unreported) <= Cardinality(Busy)
      /\ Cardinality(Busy) \in Nat
  BY <1>1, <1>4, RequestSets, FS_Subset
<1>6. Dist(fence_completed, fence_submitted) \in 0..F-1 /\ F \in Nat
  BY <1>2, DistValue, FenceRange
<1>7. Sent = Cardinality(Unreported)
  BY <1>1 DEF FencesOK
<1>8. Dist(fence_completed, fence_submitted) = Sent + IF Unsent THEN 1 ELSE 0
  BY <1>5, <1>6, <1>7 DEF Sent
<1>9. 2 * Cardinality(Busy) <= N
  <2>1. Cardinality(Held(Busy)) \in Nat
    BY <1>1, RequestSets
  <2>2. free_count + (2 * Cardinality(Busy) + Cardinality(Held(Busy)))
          + (IF pc = "send" THEN call.iovcnt ELSE 0) = N
    BY <1>1 DEF DescriptorsOK, Descs
  <2> QED BY <1>1, <1>5, <2>1, <2>2, FenceRange
<1>10. Sent < F - 1
  BY <1>5, <1>7, <1>9, FenceRange
<1>11. ASSUME NEW id \in Unreported PROVE id \in Request /\ cmds[id].fence \in Fence
  <2>1. id \in Request
    BY <1>1, <1>4
  <2>2. cmds[id] \in Command
    BY <1>1, <2>1 DEF GpuTypeOK
  <2> QED BY <2>1, <2>2 DEF Command
<1> QED BY <1>2, <1>3, <1>4, <1>5, <1>7, <1>8, <1>10, <1>11

\* The order is kept by a step that reports no fence and sends none.
LEMMA FencesKeep ==
  ASSUME GpuInv, Unreported' = Unreported,
         \A id \in Unreported : cmds'[id].fence = cmds[id].fence,
         fence_completed' = fence_completed, Sent' = Sent,
         Unsent' => call'.fence = fence_submitted',
         \A a, b \in Unreported : Precedes(a, b)' => Precedes(a, b)
  PROVE  FencesOK'
<1>1. \A id \in Unreported : Place(id)' = Place(id)
  BY DEF Place
<1>2. FencesOK
  BY DEF GpuInv
<1>3. /\ Cardinality(Unreported)' = Sent'
      /\ \A id \in Unreported : Place(id)' \in 1..Sent'
      /\ \A k \in 1..Sent' : \E id \in Unreported : Place(id)' = k
  BY <1>1, <1>2 DEF FencesOK
<1>4. /\ \A a, b \in Unreported : Precedes(a, b)' => Place(a)' < Place(b)'
      /\ \A a, b \in Unreported : Place(a)' = Place(b)' => a = b
  BY <1>1, <1>2 DEF FencesOK
<1> QED BY <1>3, <1>4 DEF FencesOK

\* The first completion has the first fence.
LEMMA FirstFence ==
  ASSUME GpuInv, virtio_gpu_recv, Head(completed) \in Unreported
  PROVE  /\ Place(Head(completed)) = 1
         /\ fence_completed' = cmds[Head(completed)].fence
         /\ fence_completed' = Succ(fence_completed)
<1> DEFINE h == Head(completed)
<1>1. ChannelOK /\ FencesOK /\ AnswersOK
  BY Basics DEF GpuInv
<1>2. h \in Elements(completed) /\ completed # << >>
  BY <1>1, ReceiveStep DEF virtio_gpu_recv, Receive
<1>3. /\ fence_completed \in Fence /\ cmds[h].fence \in Fence /\ cmds[h].fenced
      /\ Sent \in Nat
  BY FenceFacts
<1>4. fence_completed' = cmds[h].fence
  <2>1. response[h] = [ok |-> TRUE, fenced |-> cmds[h].fenced, fence |-> cmds[h].fence]
    BY <1>1, <1>2 DEF AnswersOK
  <2>2. fence_completed' = IF response[h].fenced THEN response[h].fence ELSE fence_completed
    BY DEF virtio_gpu_recv
  <2> HIDE DEF h
  <2>3. response[h].fenced = cmds[h].fenced /\ response[h].fence = cmds[h].fence
    BY <2>1
  <2> QED BY <1>3, <2>2, <2>3
<1>5. ASSUME NEW x \in Unreported, x # h PROVE Precedes(h, x)
  <2>1. x \in Elements(completed) => Before(completed, h, x)
    BY <1>1, <1>2, <1>5, BeforeFacts DEF ChannelOK, Exclusive
  <2>2. x \in Elements(completed) \/ x \in serving \cup Elements(submitted)
    BY DEF Unreported
  <2> HIDE DEF h
  <2> QED BY <1>2, <2>1, <2>2 DEF Precedes
<1> HIDE DEF h
<1>6. h \in Unreported
  BY DEF h
<1>7. Place(h) \in 1..Sent
  BY <1>1, <1>6 DEF FencesOK
<1>8. PICK x \in Unreported : Place(x) = 1
  BY <1>1, <1>3, <1>7 DEF FencesOK
<1>9. x = h
  BY <1>1, <1>5, <1>6, <1>7, <1>8 DEF FencesOK
<1>10. Dist(fence_completed, cmds[h].fence) = 1
  BY <1>8, <1>9 DEF Place
<1>11. cmds[h].fence = Succ(fence_completed)
  BY <1>3, <1>10, SuccValue, FenceRange DEF Dist, Fence
<1> QED BY <1>4, <1>8, <1>9, <1>11 DEF h

LEMMA FencesStep ==
  ASSUME GpuInv, [GpuNext]_gpuVars
  PROVE  FencesOK'
<1>a. GpuTypeOK /\ ChannelOK /\ ControlOK /\ CallOK /\ FencesOK /\ ~ NoCmd.fenced
  BY Basics DEF GpuInv, NoCmd, Cmd
<1>b. /\ fence_submitted \in Fence /\ fence_completed \in Fence
      /\ Unsent <=> call.fenced /\ ret # "wait"
      /\ Sent \in Nat
      /\ Dist(fence_completed, fence_submitted) = Sent + IF Unsent THEN 1 ELSE 0
      /\ ~ Unsent => Sent < F - 1
      /\ \A id \in Unreported : id \in Request /\ cmds[id].fenced /\ cmds[id].fence \in Fence
      /\ Unreported \subseteq Busy
  BY FenceFacts
<1>c. Unsent' <=> call'.fenced /\ ret' # "wait"
  BY ControlStep, GpuAssumption DEF Unsent, ControlOK
<1>d. Unreported = {id \in Pending : cmds[id].fenced}
      /\ Unreported' = {id \in Pending' : cmds'[id].fenced}
  BY DEF Unreported, Pending
<1>e. Unsent => call.fence = fence_submitted
  BY <1>a DEF FencesOK
<1>1. ASSUME UNCHANGED <<submitted, serving, completed, cmds, fenceq, fence_completed>>,
             Sent' = Sent, Unsent' => call'.fence = fence_submitted'
      PROVE  FencesOK'
  <2>1. Pending' = Pending /\ Unreported' = Unreported
    BY <1>1 DEF Pending, Unreported
  <2>2. \A a, b \in Unreported : Precedes(a, b)' => Precedes(a, b)
    BY <1>1 DEF Precedes, Before
  <2> QED BY <1>1, <2>1, <2>2, FencesKeep
<1>2. ASSUME UNCHANGED <<fence_completed, fence_submitted>>, Unsent' <=> Unsent
      PROVE  Sent' = Sent
  BY <1>2 DEF Sent
<1>3. ASSUME NEW c \in Command, Begins(c) PROVE FencesOK'
  <2>1. /\ UNCHANGED <<submitted, serving, completed, cmds, fenceq, fence_completed, ret>>
        /\ call' = c /\ ~ Unsent /\ ret # "wait"
    BY <1>3, <1>a, <1>b DEF Begins, Enter, vars, deviceVars, ControlOK
  <2>2. CASE FencedCall(c)
    <3>1. c.fenced /\ c.fence = Succ(fence_submitted) /\ fence_submitted' = c.fence /\ Unsent'
      BY <1>c, <2>1, <2>2 DEF FencedCall
    <3>2. Dist(fence_completed, Succ(fence_submitted)) = Sent + 1
      BY <1>b, <2>1, DistValue
    <3>3. Sent' = Sent
      BY <1>b, <2>1, <3>1, <3>2 DEF Sent
    <3> QED BY <1>1, <2>1, <3>1, <3>3
  <2>3. CASE ~ FencedCall(c)
    <3>1. ~ c.fenced /\ fence_submitted' = fence_submitted
      BY <1>3, <2>3 DEF Begins, PlainCall, CreateCall, UnrefCall, ContextCall
    <3> QED BY <1>1, <1>2, <1>c, <2>1, <3>1
  <2> QED BY <2>2, <2>3
<1>4. CASE virtio_gpu_alloc
  <2>1. /\ UNCHANGED <<submitted, serving, completed, cmds, fenceq, fence_completed, fence_submitted, call>>
        /\ ret # "wait" /\ ret' # "wait"
    BY <1>4, <1>a DEF virtio_gpu_alloc, vars, fenceVars, deviceVars, ControlOK, Polling
  <2> QED BY <1>1, <1>2, <1>b, <1>c, <1>e, <2>1
<1>5. CASE virtio_gpu_send
  <2>1. /\ slot \in Request \ Busy /\ slot \notin Pending /\ Pending' = Pending \cup {slot}
        /\ ret # "wait" /\ UNCHANGED fence_completed
    <3>1. Send(slot) /\ slot \in Request \ Busy /\ ret # "wait" /\ UNCHANGED fence_completed
      BY <1>5, <1>a, SendFacts DEF virtio_gpu_send
    <3> QED BY <3>1, <1>a, SendStep DEF Send, Pending, Busy
  <2>2. PICK n, d : n = slot /\ d = cmds'[slot]
    OBVIOUS
  <2>3. /\ IF call.op = "flush"
           THEN d.fenced /\ d.fence = fence_submitted' /\ fence_submitted' = Succ(fence_submitted)
           ELSE d = call /\ fence_submitted' = fence_submitted
        /\ \A id \in Unreported : cmds'[id] = cmds[id] /\ id # n
    BY <1>5, <1>a, <1>b, <2>1, <2>2, SendFacts
  <2>4. ~ Unsent'
    BY <1>5, <1>a, <1>c DEF virtio_gpu_send, CallOK
  <2>5. Unreported' = IF d.fenced THEN Unreported \cup {n} ELSE Unreported
    <3>1. \A id \in Pending : cmds'[id] = cmds[id]
      BY <1>5, <1>a, <2>1, SendFacts, SeqFacts DEF Pending, Busy, ChannelOK
    <3> QED BY <1>d, <2>1, <2>2, <3>1
  <2>6. \A a, b \in Unreported' : Precedes(a, b)' =>
          \/ a \in Unreported /\ b \in Unreported /\ Precedes(a, b)
          \/ a \in Unreported /\ b = n
    <3>1. \A a \in Unreported' : a \in Pending => a \in Unreported
      BY <1>d, <2>1, <2>2, <2>5
    <3> QED BY <1>5, <2>2, <3>1, PrecedesSend
  <2>7. CASE ~ d.fenced
    <3>1. fence_submitted' = fence_submitted /\ ~ Unsent /\ Unreported' = Unreported
      BY <1>b, <2>3, <2>5, <2>7
    <3>2. Sent' = Sent
      BY <1>2, <2>1, <2>4, <3>1
    <3> QED BY <2>1, <2>2, <2>3, <2>4, <2>6, <3>1, <3>2, FencesKeep
  <2>8. CASE d.fenced
    <3>1. d.fence = fence_submitted' /\ Dist(fence_completed, fence_submitted') = Sent + 1
      <4>1. CASE call.op = "flush"
        BY <1>a, <1>b, <2>3, <4>1, DistValue DEF CallOK
      <4>2. CASE call.op # "flush"
        BY <1>b, <1>e, <2>1, <2>3, <2>8, <4>2
      <4> QED BY <4>1, <4>2
    <3>2. Sent' = Sent + 1
      BY <1>b, <2>1, <2>4, <3>1 DEF Sent
    <3>3. Unreported' = Unreported \cup {n} /\ n \notin Unreported
      BY <2>3, <2>5, <2>8
    <3>4. Cardinality(Unreported)' = Sent'
      BY <1>b, <3>2, <3>3, FenceFacts, FS_AddElement
    <3>5. /\ \A id \in Unreported : Place(id)' = Place(id)
          /\ Place(n)' = Sent + 1
      BY <2>1, <2>2, <2>3, <3>1 DEF Place
    <3>6. \A id \in Unreported' : Place(id)' \in 1..Sent'
      BY <1>a, <1>b, <3>2, <3>3, <3>5 DEF FencesOK
    <3>7. \A k \in 1..Sent' : \E id \in Unreported' : Place(id)' = k
      <4>1. \A k \in 1..Sent' : k \in 1..Sent \/ k = Sent + 1
        BY <1>b, <3>2
      <4> QED BY <1>a, <3>3, <3>5, <4>1 DEF FencesOK
    <3>8. \A id \in Unreported : Place(id)' < Place(n)'
      BY <1>a, <1>b, <3>5 DEF FencesOK
    <3>9. \A a, b \in Unreported' : Precedes(a, b)' => Place(a)' < Place(b)'
      BY <1>a, <2>6, <3>5, <3>8 DEF FencesOK
    <3>10. \A a, b \in Unreported' : Place(a)' = Place(b)' => a = b
      <4>1. \A a, b \in Unreported : Place(a) = Place(b) => a = b
        BY <1>a DEF FencesOK
      <4>2. \A a \in Unreported : Place(a) \in 1..Sent
        BY <1>a DEF FencesOK
      <4> QED BY <1>b, <3>3, <3>5, <4>1, <4>2
    <3> QED BY <2>4, <3>4, <3>6, <3>7, <3>9, <3>10 DEF FencesOK
  <2> QED BY <2>7, <2>8
<1>6. CASE virtio_gpu_recv
  <2>1. PICK h : h = Head(completed)
    OBVIOUS
  <2>2. /\ UNCHANGED <<cmds, fence_submitted, call, ret, fenceq>>
        /\ h \in Pending /\ Pending' = Pending \ {h}
    BY <1>6, <1>a, <2>1, ReceiveStep
    DEF virtio_gpu_recv, Receive, Pending, deviceVars, ChannelOK, Exclusive
  <2>3. Unsent' <=> Unsent
    BY <1>b, <1>c, <2>2
  <2>4. \A a, b \in Unreported : Precedes(a, b)' => Precedes(a, b)
    BY <1>6, PrecedesKeep
  <2>5. Unreported' = Unreported \ {h} /\ (h \in Unreported <=> cmds[h].fenced)
    BY <1>d, <2>2
  <2>6. CASE h \notin Unreported
    <3>1. fence_completed' = fence_completed
      <4>1. response[h] = [ok |-> TRUE, fenced |-> cmds[h].fenced, fence |-> cmds[h].fence]
        BY <1>6, <1>a, <2>1, ReceiveStep DEF virtio_gpu_recv, GpuInv, AnswersOK
      <4>2. ~ response[h].fenced
        BY <2>5, <2>6, <4>1
      <4> QED BY <1>6, <2>1, <4>2 DEF virtio_gpu_recv
    <3> QED BY <1>2, <1>e, <2>2, <2>3, <2>4, <2>5, <2>6, <3>1, FencesKeep
  <2>7. CASE h \in Unreported
    <3>1. /\ Place(h) = 1 /\ fence_completed' = Succ(fence_completed)
          /\ fence_completed' = cmds[h].fence
      BY <1>6, <2>1, <2>7, FirstFence
    <3>2. Sent >= 1 /\ Sent' = Sent - 1
      <4>1. Sent >= 1
        BY <1>a, <1>b, <2>7, <3>1 DEF FencesOK
      <4>2. fence_completed # fence_submitted
        BY <1>b, <4>1, DistValue
      <4>3. Dist(Succ(fence_completed), fence_submitted) = Dist(fence_completed, fence_submitted) - 1
        BY <1>b, <4>2, DistValue
      <4> QED BY <1>b, <2>2, <2>3, <3>1, <4>1, <4>3 DEF Sent
    <3>3. Cardinality(Unreported)' = Sent'
      BY <1>b, <2>5, <2>7, <3>2, FenceFacts, FS_RemoveElement
    <3>4. ASSUME NEW id \in Unreported', NEW p, p = Place(id)
          PROVE  Place(id)' = p - 1 /\ p \in 2..Sent
      <4>1. id \in Unreported /\ id # h
        BY <2>5, <3>4
      <4>2. p \in 1..Sent /\ p # 1
        BY <1>a, <2>7, <3>1, <3>4, <4>1 DEF FencesOK
      <4>3. fence_completed # cmds[id].fence
        BY <1>b, <3>4, <4>1, <4>2, DistValue DEF Place
      <4>4. Dist(Succ(fence_completed), cmds[id].fence) = Dist(fence_completed, cmds[id].fence) - 1
        BY <1>b, <4>1, <4>3, DistValue
      <4> QED BY <1>b, <2>2, <3>1, <3>4, <4>2, <4>4 DEF Place
    <3>5. \A id \in Unreported' : Place(id)' = Place(id) - 1 /\ Place(id) \in 2..Sent
      BY <3>4
    <3>6. \A id \in Unreported' : Place(id)' \in 1..Sent'
      BY <1>b, <3>2, <3>5
    <3>7. ASSUME NEW k \in 1..Sent' PROVE \E id \in Unreported' : Place(id)' = k
      <4>1. k + 1 \in 1..Sent
        BY <1>b, <3>2
      <4>2. PICK id \in Unreported : Place(id) = k + 1
        BY <1>a, <4>1 DEF FencesOK
      <4>3. id # h
        BY <3>1, <3>2, <4>2
      <4> QED BY <2>5, <3>2, <3>5, <4>2, <4>3
    <3>8. \A a, b \in Unreported' : Precedes(a, b)' => Place(a)' < Place(b)'
      <4>1. \A a, b \in Unreported' : Precedes(a, b)' => Place(a) < Place(b)
        BY <1>a, <2>4, <2>5 DEF FencesOK
      <4> QED BY <3>5, <4>1
    <3>9. \A a, b \in Unreported' : Place(a)' = Place(b)' => a = b
      <4>1. \A a, b \in Unreported' : Place(a) = Place(b) => a = b
        BY <1>a, <2>5 DEF FencesOK
      <4> QED BY <3>5, <4>1
    <3>10. Unsent' => call'.fence = fence_submitted'
      BY <1>e, <2>2, <2>3
    <3> QED BY <3>3, <3>6, <3>7, <3>8, <3>9, <3>10 DEF FencesOK
  <2> QED BY <2>6, <2>7
<1>7. CASE DevTake \/ \E id \in Request : DevAnswer(id)
  <2>1. /\ UNCHANGED <<cmds, fence_completed, fence_submitted, call, ret>>
        /\ Pending' = Pending
    BY <1>7, <1>a, TakeStep, AnswerStep DEF DevTake, Take, DevAnswer, Answer, Pending, fenceVars
  <2>2. \A a, b \in Unreported : Precedes(a, b)' => Precedes(a, b)
    BY <1>7, PrecedesKeep
  <2> QED BY <1>2, <1>b, <1>c, <1>d, <1>e, <2>1, <2>2, FencesKeep
<1>8. CASE virtio_gpu_free
  BY <1>1, <1>2, <1>8, <1>b, <1>c, <1>e DEF virtio_gpu_free, Release, fenceVars, deviceVars
<1>9. CASE check_error
  BY <1>1, <1>2, <1>9, <1>a, <1>b, <1>c DEF check_error, Release, fenceVars, deviceVars, ControlOK
<1>10. CASE Quiet
  BY <1>1, <1>2, <1>10, <1>b, <1>c, <1>e DEF Quiet, vars, fenceVars
<1> QED BY Steps, <1>a, <1>3, <1>4, <1>5, <1>6, <1>7, <1>8, <1>9, <1>10

-----------------------------------------------------------------------------
(* The theorems.                                                           *)

LEMMA GpuInvInit == GpuInit => GpuInv
<1> SUFFICES ASSUME GpuInit PROVE GpuInv
  OBVIOUS
<1> USE GpuAssumption, FenceRange DEF GpuInit, Init
<1>1. GpuTypeOK
  <2>1. NoCmd \in Command
    BY DEF NoCmd, Cmd, Command, Fence
  <2>2. << >> \in Seq(Request) /\ 0 \in Fence
    BY DEF Fence
  <2>3. NoResponse \in [ok : BOOLEAN, fenced : BOOLEAN, fence : Fence]
    BY <2>2 DEF NoResponse
  <2>4. /\ cmds \in [Request -> Command]
        /\ response \in [Request -> [ok : BOOLEAN, fenced : BOOLEAN, fence : Fence]]
    BY <2>1, <2>3
  <2>5. /\ rscs_size \in 0..R /\ free_rsc_id \in 0..R
        /\ next \in [Rsc -> 0..R] /\ buf \in [Rsc -> BOOLEAN]
        /\ ctxs_size \in 0..C /\ free_count \in 0..N
    OBVIOUS
  <2> QED BY <2>1, <2>2, <2>4, <2>5 DEF GpuTypeOK
<1>2. DOMAIN submitted = {} /\ DOMAIN completed = {} /\ DOMAIN fenceq = {}
  BY EmptySeq
<1>3. /\ Elements(submitted) = {} /\ Elements(completed) = {} /\ Elements(fenceq) = {}
      /\ Busy = {} /\ Unreported = {}
  BY <1>2 DEF Elements, Busy, Unreported
<1>4. NoCmd.op = "use" /\ NoCmd.rsc = 0 /\ NoCmd.ctx = 0 /\ ~ NoCmd.fenced /\ ~ NoCmd.sync
  BY DEF NoCmd, Cmd
<1>5. Exclusive /\ FenceQueueOK /\ AnswersOK
  BY <1>2, <1>3 DEF Exclusive, FenceQueueOK, AnswersOK
<1>6. ControlOK /\ InterruptOK
  BY EmptySeq DEF ControlOK, Polling, InterruptOK
<1>7. DescriptorsOK
  <2>1. Held({}) = {} /\ Cardinality({}) = 0
    BY FS_EmptySet DEF Held
  <2>2. Cardinality(Busy) = 0 /\ Cardinality(Held(Busy)) = 0
    BY <1>3, <2>1
  <2> QED BY <2>2 DEF DescriptorsOK, Descs
<1>8. CallOK /\ SyncIsLast
  BY <1>2, <1>4 DEF CallOK, SyncIsLast
<1>9. FreeIdsOK
  <2> DEFINE none == [i \in 1..0 |-> 0]
  <2>1. \A i \in 1..0 : FALSE
    OBVIOUS
  <2>2. none \in [1..0 -> 1..rscs_size] /\ FreeList(0, none)
    BY <2>1 DEF FreeList
  <2> QED BY <2>2 DEF FreeIdsOK
<1>10. ResourcesOK /\ ContextsOK
  BY <1>2, <1>4 DEF ResourcesOK, ContextsOK, InUse
<1>11. FencesOK
  <2>1. 0 \in Fence /\ ~ Unsent
    BY <1>4 DEF Unsent, Fence
  <2>2. Sent = 0
    BY <2>1, DistValue DEF Sent
  <2>3. Cardinality(Unreported) = 0
    BY <1>3, FS_EmptySet
  <2>4. \A k \in 1..0 : FALSE
    OBVIOUS
  <2> QED BY <1>3, <2>1, <2>2, <2>3, <2>4 DEF FencesOK
<1> QED BY <1>1, <1>5, <1>6, <1>7, <1>8, <1>9, <1>10, <1>11 DEF GpuInv

LEMMA GpuInvStep == GpuInv /\ [GpuNext]_gpuVars => GpuInv'
BY TypeStep, ChannelStep, ControlStep, InterruptStep, DescriptorsStep, CallStep, SyncStep,
   FreeIdsStep, ResourcesStep, ContextsStep, AnswersStep, FenceQueueStep, FencesStep
DEF GpuInv, ChannelOK

\* The inductive invariant of the gpu driver.
THEOREM GpuInvariant == GpuSpec => []GpuInv
BY GpuInvInit, GpuInvStep, PTL DEF GpuSpec

\* virtio_gpu_wait returns with the response to the command of its own call,
\* whatever completions of other commands it frees on the way.
THEOREM ReplyIsOwnAlways == GpuSpec => []ReplyIsOwn
<1>1. GpuInv => ReplyIsOwn
  <2> SUFFICES ASSUME GpuInv, pc = "check"
               PROVE  /\ slot \in received /\ cmds[slot] = call
                      /\ response[slot] = [ok |-> TRUE, fenced |-> call.fenced, fence |-> call.fence]
    BY DEF ReplyIsOwn
  <2>1. slot \in received /\ cmds[slot] = call
    BY DEF GpuInv, ControlOK
  <2> QED BY <2>1 DEF GpuInv, AnswersOK
<1> QED BY <1>1, GpuInvariant, PTL

\* Between two calls every completion that was seen has been freed, and each
\* descriptor is free or in a command the device has.
THEOREM SlotsReturnedAlways == GpuSpec => []SlotsReturned
<1>1. GpuInv => SlotsReturned
  <2> SUFFICES ASSUME GpuInv PROVE SlotsReturned
    OBVIOUS
  <2>1. GpuTypeOK /\ ControlOK /\ Busy \subseteq Request
    BY Basics
  <2>2. ASSUME pc = "idle"
        PROVE  received = {} /\ seen = 0
    BY <2>1, <2>2 DEF ControlOK, GpuTypeOK
  <2>3. ASSUME pc = "idle"
        PROVE  free_count + 2 * Cardinality(Busy) + Cardinality(Held(Busy)) = N
    <3>1. free_count + Descs(Busy) + 0 = N
      BY <2>3 DEF GpuInv, DescriptorsOK
    <3>2. free_count \in Nat /\ Cardinality(Busy) \in Nat /\ Cardinality(Held(Busy)) \in Nat
      BY <2>1, RequestSets, Basics
    <3> QED BY <3>1, <3>2 DEF Descs
  <2> QED BY <2>1, <2>2, <2>3 DEF SlotsReturned
<1> QED BY <1>1, GpuInvariant, PTL

\* The device refuses no command: resource ids are reused only after the unref
\* was executed, and a command names what exists when it is executed.
THEOREM CommandsAcceptedAlways == GpuSpec => []CommandsAccepted
<1>1. GpuInv => CommandsAccepted
  BY DEF GpuInv, AnswersOK, CommandsAccepted
<1> QED BY <1>1, GpuInvariant, PTL

\* fence_submitted - fence_completed, as the uint32_t it is in C, is the number
\* of fenced commands that have not been reported.
THEOREM FencesCountedAlways == GpuSpec => []FencesCounted
<1>1. GpuInv => FencesCounted
  BY FenceFacts, DistValue DEF FencesCounted
<1> QED BY <1>1, GpuInvariant, PTL

\* Whenever the thread blocks on the eventfd, an interrupt is coming or the
\* device has a command to answer.
THEOREM BlocksOnlyOnDeviceAlways == GpuSpec => []BlocksOnlyOnDevice
<1>1. GpuInv => BlocksOnlyOnDevice
  <2> SUFFICES ASSUME GpuInv, pc = "clear", ~ irq, ~ raise, submitted = << >>
               PROVE  serving # {}
    BY DEF BlocksOnlyOnDevice
  <2>1. GpuTypeOK /\ ChannelOK /\ ControlOK /\ InterruptOK
    BY Basics DEF GpuInv
  <2>2. seen = 0 /\ received = {} /\ ~ found
    BY <2>1 DEF ControlOK, GpuTypeOK
  <2>3. completed = << >>
    BY <2>1, <2>2, SeqFacts DEF InterruptOK, ChannelOK
  <2>4. Busy = serving /\ Unreported \subseteq serving
    BY <2>2, <2>3 DEF Busy, Unreported, Elements
  <2>5. CASE ret = "wait"
    BY <2>1, <2>2, <2>4, <2>5 DEF ControlOK
  <2>6. CASE ret = "alloc"
    <3>1. free_count < call.iovcnt /\ call.iovcnt \in {2, 3}
      BY <2>1, <2>6 DEF InterruptOK, GpuTypeOK, Command
    <3>2. free_count + Descs(Busy) + 0 = N
      BY DEF GpuInv, DescriptorsOK
    <3>3. Descs({}) = 0
      BY FS_EmptySet DEF Descs, Held
    <3>4. serving = {} => Descs(Busy) = 0
      BY <2>4, <3>3
    <3> QED BY <3>1, <3>2, <3>4, Basics, FenceRange
  <2>7. CASE ret = "fences"
    <3>1. fence_submitted # fence_completed /\ ~ Unsent
      BY <2>1, <2>7 DEF InterruptOK, ControlOK, Polling, Unsent, NoCmd, Cmd
    <3>2. Cardinality(Unreported) # 0
      BY <3>1, FenceFacts, DistValue
    <3> QED BY <2>4, <3>2, FS_EmptySet
  <2>8. ret # "idle"
    BY <2>1 DEF InterruptOK
  <2> QED BY <2>1, <2>5, <2>6, <2>7, <2>8 DEF GpuTypeOK
<1> QED BY <1>1, GpuInvariant, PTL

\* write_fence reports every fence once and in order.
THEOREM FencesInOrderAlways == GpuSpec => FencesInOrder
<1>1. GpuInv /\ [GpuNext]_gpuVars =>
        [fence_completed' # fence_completed =>
           fence_completed' = Succ(fence_completed)]_gpuVars
  <2> SUFFICES ASSUME GpuInv, [GpuNext]_gpuVars, fence_completed' # fence_completed
               PROVE  fence_completed' = Succ(fence_completed)
    OBVIOUS
  <2>1. virtio_gpu_recv
    BY Steps, Basics
    DEF Quiet, Begins, Enter, virtio_gpu_alloc, virtio_gpu_send, virtio_gpu_free,
        check_error, DevTake, DevAnswer, fenceVars
  <2>2. /\ Head(completed) \in Elements(completed)
        /\ response[Head(completed)].fenced
    BY <2>1, ReceiveStep, Basics DEF virtio_gpu_recv
  <2>3. Head(completed) \in Unreported
    <3>1. PICK h : h = Head(completed)
      OBVIOUS
    <3>2. response[h] = [ok |-> TRUE, fenced |-> cmds[h].fenced, fence |-> cmds[h].fence]
      BY <2>2, <3>1 DEF GpuInv, AnswersOK
    <3>3. response[h].fenced = cmds[h].fenced
      BY <3>2
    <3> QED BY <2>2, <3>1, <3>3 DEF Unreported
  <2> QED BY <2>1, <2>3, FirstFence
<1> QED BY <1>1, GpuInvariant, PTL DEF GpuSpec, FencesInOrder

\* When there are descriptors for the command there is a slot for it: a slot is
\* the head of its chain, so cmds[] is never asked for one more than it has.
THEOREM SlotsSuffice ==
  GpuSpec => [](pc = "alloc" /\ free_count >= call.iovcnt => Request \ Busy # {})
<1>1. GpuInv => (pc = "alloc" /\ free_count >= call.iovcnt => Request \ Busy # {})
  <2> SUFFICES ASSUME GpuInv, pc = "alloc", free_count >= call.iovcnt, Busy = Request
               PROVE  FALSE
    BY Basics
  <2>1. Cardinality(Busy) \in Nat /\ Cardinality(Held(Busy)) \in Nat
    BY Basics, RequestSets
  <2>2. free_count + (2 * Cardinality(Busy) + Cardinality(Held(Busy))) + 0 = N
    BY DEF GpuInv, DescriptorsOK, Descs
  <2>3. free_count >= 2 /\ free_count \in Nat
    BY Basics DEF Command
  <2>4. Cardinality(Busy) = Cardinality(Request)
    OBVIOUS
  <2> QED BY <2>1, <2>2, <2>3, <2>4, GpuAssumption
<1> QED BY <1>1, GpuInvariant, PTL

=============================================================================
