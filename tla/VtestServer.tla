---------------------------- MODULE VtestServer -----------------------------
(***************************************************************************)
(* The server of virgl rendering, for OpenGL programs that speak the vtest *)
(* protocol: the loop for one client of code/virgl-virtio.c, and the       *)
(* clients of the event loop of code/virgl-nested-virtio.c, which has the  *)
(* wayland compositor too.  Both handle a command to its end before they   *)
(* look at another, and wait for the rest of a command and for the gpu.    *)
(*                                                                         *)
(* Calls of virtio-gpu.c are one step here, except that a fence takes time *)
(* (module VirtioGpu).  A client sends the header and the body of a        *)
(* command separately and waits for the reply of a command that has one.   *)
(***************************************************************************)
EXTENDS Integers, Sequences, FiniteSets

CONSTANTS Client,
          Nested,     \* virgl-nested-virtio.c, or else virgl-virtio.c
          R,          \* bound: how many resource ids are given out
          Addr,       \* bound: where the server maps memory
          Fences,     \* bound: how many fences the compositor has outstanding
          Queries,    \* the commands that clients only want replies of
          Exits,      \* whether clients exit
          None

ASSUME VtestAssumption ==
  /\ IsFiniteSet(Client) /\ Nested \in BOOLEAN /\ Exits \in BOOLEAN
  /\ ~ Nested => Cardinality(Client) = 1
  /\ R \in Nat /\ Fences \in Nat
  /\ Queries \subseteq {"GET_CAPS", "GET_CAPS2", "PING", "PROTOCOL_VERSION"}
  /\ None \notin Client \cup Addr

VARIABLES
  \* struct virgl_info of a client: debug_name is set, and its context
  named, ctx_id,
  \* rscs[] of the gpu: ids given out, the free list, and buf
  rscs_size, free_rsc, buf,
  \* what the server has mapped, and what of it the gpu may use
  mmapped, dma,
  \* fences that are not complete
  fences,
  \* the client the loop is busy with, the command, and how far it is
  cur, command, pc,
  \* connections: accepted, closed, commands and replies under way
  open, closed, wire, replies,
  \* clients: the command they send or wait for, their resources, and which
  \* of those have memory
  sending, owed, held, backed

infoVars   == <<named, ctx_id>>
rscVars    == <<rscs_size, free_rsc, buf, mmapped, dma>>
loopVars   == <<cur, command, pc>>
connVars   == <<open, closed, wire, replies>>
clientVars == <<sending, owed, held, backed>>
vars == <<infoVars, rscVars, fences, loopVars, connVars, clientVars>>

Rsc == 1..R

\* A command, the resource it names, and its data_size > 0 or its WAIT flag.
Cmd(op, rsc, flag) == [op |-> op, rsc |-> rsc, flag |-> flag]
NoCmd == Cmd("none", 0, FALSE)

\* What the client waits for after a command, in order.
RepliesOf(op, flag) ==
  CASE op \in Queries \cup {"BUSY_WAIT"} -> <<op>>
    [] op = "CREATE2" -> IF flag THEN <<op, "memfd">> ELSE <<op>>
    [] OTHER -> << >>

\* A client has connected and begun its first command.
Init ==
  /\ named = {} /\ ctx_id = {}
  /\ rscs_size = 0 /\ free_rsc = << >> /\ buf = [r \in Rsc |-> None]
  /\ mmapped = {} /\ dma = {} /\ fences = 0
  /\ cur = None /\ command = NoCmd /\ pc = "idle"
  /\ open = {} /\ closed = {}
  /\ wire = [c \in Client |-> <<Cmd("CREATE_RENDERER", 0, FALSE)>>]
  /\ replies = [c \in Client |-> << >>]
  /\ sending = [c \in Client |-> Cmd("CREATE_RENDERER", 0, FALSE)]
  /\ owed = [c \in Client |-> << >>]
  /\ held = [c \in Client |-> {}] /\ backed = [c \in Client |-> {}]

-----------------------------------------------------------------------------
(* The loop.                                                               *)

\* handle_listen_events; virgl-virtio.c accepts its one client.
handle_listen_events(c) ==
  /\ pc = "idle" /\ c \notin open
  /\ open' = open \cup {c}
  /\ UNCHANGED <<infoVars, rscVars, fences, loopVars, closed, wire, replies,
                 clientVars>>

\* The connection is readable: a header.
handle_virgl_events(c) ==
  /\ pc = "idle" /\ c \in open /\ wire[c] # << >>
  /\ cur' = c /\ command' = Head(wire[c])
  /\ wire' = [wire EXCEPT ![c] = Tail(@)]
  /\ pc' = IF c \in named THEN "body" ELSE "name"
  /\ UNCHANGED <<infoVars, rscVars, fences, open, closed, replies, clientVars>>

\* Or the end of the file: recv does not return a whole header.
recv_fails(c) ==
  /\ pc = "idle" /\ c \in open \cap closed /\ wire[c] = << >>
  /\ cur' = c /\ pc' = "aborted"
  /\ UNCHANGED <<infoVars, rscVars, fences, command, connVars, clientVars>>

Idle == cur' = None /\ command' = NoCmd /\ pc' = "idle"

\* The rest of a command: the client sends it after the header.
Body == /\ wire[cur] # << >> /\ Head(wire[cur]) = command
        /\ wire' = [wire EXCEPT ![cur] = Tail(@)]

\* Mutant: the reply goes to every client that waits for one.
Reply_All(r) ==
  replies' = [c \in Client |-> IF c = cur \/ owed[c] # << >>
                              THEN replies[c] \o r ELSE replies[c]]

Reply(r) == replies' = [replies EXCEPT ![cur] = @ \o r]

\* The first command gives the name of the program.
create_renderer ==
  /\ pc = "name" /\ Body
  /\ command.op = "CREATE_RENDERER"
  /\ named' = named \cup {cur}
  /\ Idle
  /\ UNCHANGED <<ctx_id, rscVars, fences, open, closed, replies, clientVars>>

\* Memory is mapped for the capset and unmapped again; a ping and the version
\* need none.
Replies(op) ==
  /\ pc = "body" /\ Body /\ command.op = op
  /\ Reply(<<Cmd(op, 0, FALSE)>>)
  /\ Idle
  /\ UNCHANGED <<infoVars, rscVars, fences, open, closed, clientVars>>

get_caps         == Addr \ mmapped # {} /\ Replies("GET_CAPS")
get_caps2        == Addr \ mmapped # {} /\ Replies("GET_CAPS2")
ping             == Replies("PING")
protocol_version == Replies("PROTOCOL_VERSION")

init_context == ctx_id' = ctx_id \cup {cur}

\* The memory is unmapped from the gpu and stays mapped in the program; rsc->buf
\* keeps its address.
resource_unref ==
  /\ pc = "body" /\ Body /\ command.op = "UNREF"
  /\ dma' = dma \ {buf[command.rsc]}
  /\ free_rsc' = <<command.rsc>> \o free_rsc
  /\ Idle
  /\ UNCHANGED <<infoVars, rscs_size, buf, mmapped, fences, open, closed,
                 replies, clientVars>>

\* virtio_gpu_submit_cmd waits for its fence, which comes after those before.
submit_cmd ==
  /\ pc = "body" /\ Body /\ command.op = "SUBMIT"
  /\ Addr \ mmapped # {}
  /\ init_context
  /\ fences' = fences + 1 /\ pc' = "fence"
  /\ UNCHANGED <<named, rscVars, cur, command, open, closed, replies,
                 clientVars>>

submit_cmd_End ==
  /\ pc = "fence" /\ command.op = "SUBMIT" /\ fences = 0
  /\ Idle
  /\ UNCHANGED <<infoVars, rscVars, fences, connVars, clientVars>>

\* With the flag the reply waits until no fence is outstanding.
resource_busy_wait ==
  /\ pc = "body" /\ Body /\ command.op = "BUSY_WAIT"
  /\ pc' = "fence"
  /\ UNCHANGED <<infoVars, rscVars, fences, cur, command, open, closed,
                 replies, clientVars>>

resource_busy_wait_End ==
  /\ pc = "fence" /\ command.op = "BUSY_WAIT"
  /\ command.flag => fences = 0
  /\ Reply(<<Cmd("BUSY_WAIT", 0, FALSE)>>)
  /\ Idle
  /\ UNCHANGED <<infoVars, rscVars, fences, open, closed, wire, clientVars>>

\* Mutant: the head of the free list stays in it.
resource_create2_KeepsFree ==
  /\ pc = "body" /\ Body /\ command.op = "CREATE2"
  /\ init_context
  /\ \E r \in Rsc :
       /\ IF free_rsc # << >> THEN r = Head(free_rsc) /\ UNCHANGED rscs_size
          ELSE rscs_size < R /\ r = rscs_size + 1 /\ rscs_size' = r
       /\ Reply(IF command.flag THEN <<Cmd("CREATE2", r, TRUE), Cmd("memfd", r, TRUE)>>
                ELSE <<Cmd("CREATE2", r, FALSE)>>)
  /\ Idle
  /\ UNCHANGED <<named, free_rsc, mmapped, dma, buf, fences, open, closed,
                 clientVars>>

\* The reply with the id goes before the memory is attached and its fd sent.
\* A new id has no buf; one from the free list has what it had.
resource_create2 ==
  /\ pc = "body" /\ Body /\ command.op = "CREATE2"
  /\ init_context
  /\ \E r \in Rsc :
       /\ \/ /\ free_rsc # << >> /\ r = Head(free_rsc)
             /\ free_rsc' = Tail(free_rsc)
             /\ UNCHANGED rscs_size
          \/ /\ free_rsc = << >> /\ rscs_size < R /\ r = rscs_size + 1
             /\ rscs_size' = r
             /\ UNCHANGED free_rsc
       /\ IF command.flag
          THEN \E a \in Addr \ mmapped :
                 /\ mmapped' = mmapped \cup {a} /\ dma' = dma \cup {a}
                 /\ buf' = [buf EXCEPT ![r] = a]
                 /\ Reply(<<Cmd("CREATE2", r, TRUE), Cmd("memfd", r, TRUE)>>)
          ELSE /\ Reply(<<Cmd("CREATE2", r, FALSE)>>)
               /\ UNCHANGED <<mmapped, dma, buf>>
  /\ Idle
  /\ UNCHANGED <<named, fences, open, closed, clientVars>>

transfer_get2 ==
  /\ pc = "body" /\ Body /\ command.op = "TRANSFER_GET2"
  /\ init_context
  /\ Idle
  /\ UNCHANGED <<named, rscVars, fences, open, closed, replies, clientVars>>

-----------------------------------------------------------------------------
(* The gpu, the compositor in the same loop, and the clients.              *)

\* A fence completes and is polled: in the loop, or while a command waits.
GpuCompletes ==
  /\ fences > 0 /\ pc \in {"idle", "fence"}
  /\ fences' = fences - 1
  /\ UNCHANGED <<infoVars, rscVars, loopVars, connVars, clientVars>>

\* The compositor commits a frame (wl_surface_on_commit): one more fence is out.
Flush ==
  /\ Nested /\ pc = "idle" /\ fences < Fences
  /\ fences' = fences + 1
  /\ UNCHANGED <<infoVars, rscVars, loopVars, connVars, clientVars>>

ClientSends(c, cmd) ==
  /\ sending[c] = NoCmd /\ owed[c] = << >> /\ wire[c] = << >>
  /\ c \notin closed
  /\ sending' = [sending EXCEPT ![c] = cmd]
  /\ wire' = [wire EXCEPT ![c] = Append(@, cmd)]
  /\ UNCHANGED <<infoVars, rscVars, fences, loopVars, open, closed, replies,
                 owed>>

\* Resources are made while ids and addresses last, one of which the server
\* needs for its own buffers.
ClientCreates(c, flag) ==
  /\ \A d \in Client : /\ sending[d].op # "CREATE2"
                       /\ \A i \in DOMAIN owed[d] : owed[d][i] # "CREATE2"
  /\ free_rsc # << >> \/ rscs_size < R
  /\ flag => Cardinality(Addr \ mmapped) > 1
  /\ ClientSends(c, Cmd("CREATE2", 0, flag)) /\ UNCHANGED <<held, backed>>

ClientUses(c) ==
  /\ \/ \E op \in Queries : ClientSends(c, Cmd(op, 0, FALSE))
     \/ \E flag \in BOOLEAN : ClientSends(c, Cmd("BUSY_WAIT", 0, flag))
     \/ ClientSends(c, Cmd("SUBMIT", 0, FALSE))
     \/ \E r \in held[c] : ClientSends(c, Cmd("TRANSFER_GET2", r, FALSE))
  /\ UNCHANGED <<held, backed>>

ClientUnrefs(c, r) ==
  /\ r \in held[c] /\ held' = [held EXCEPT ![c] = @ \ {r}]
  /\ backed' = [backed EXCEPT ![c] = @ \ {r}]
  /\ ClientSends(c, Cmd("UNREF", r, FALSE))

ClientSendsBody(c) ==
  /\ sending[c] # NoCmd
  /\ wire' = [wire EXCEPT ![c] = Append(@, sending[c])]
  /\ owed' = [owed EXCEPT ![c] = RepliesOf(sending[c].op, sending[c].flag)]
  /\ sending' = [sending EXCEPT ![c] = NoCmd]
  /\ UNCHANGED <<infoVars, rscVars, fences, loopVars, open, closed, replies,
                 held, backed>>

ClientReceives(c) ==
  /\ replies[c] # << >>
  /\ LET r == Head(replies[c]) IN
       /\ held' = [held EXCEPT ![c] = IF r.op = "CREATE2" THEN @ \cup {r.rsc} ELSE @]
       /\ backed' = [backed EXCEPT ![c] = IF r.op = "memfd" THEN @ \cup {r.rsc} ELSE @]
  /\ replies' = [replies EXCEPT ![c] = Tail(@)]
  /\ owed' = [owed EXCEPT ![c] = Tail(@)]
  /\ UNCHANGED <<infoVars, rscVars, fences, loopVars, open, closed, wire,
                 sending>>

ClientExits(c) ==
  /\ Exits /\ c \notin closed /\ sending[c] = NoCmd /\ owed[c] = << >>
  /\ closed' = closed \cup {c}
  /\ UNCHANGED <<infoVars, rscVars, fences, loopVars, open, wire, replies,
                 clientVars>>

-----------------------------------------------------------------------------
Command ==
  \/ create_renderer \/ get_caps \/ get_caps2 \/ ping \/ protocol_version
  \/ resource_unref \/ submit_cmd \/ submit_cmd_End
  \/ resource_busy_wait \/ resource_busy_wait_End
  \/ resource_create2 \/ transfer_get2

Next ==
  \/ Command \/ GpuCompletes \/ Flush
  \/ \E c \in Client :
       \/ handle_listen_events(c) \/ handle_virgl_events(c) \/ recv_fails(c)
       \/ ClientUses(c) \/ \E flag \in BOOLEAN : ClientCreates(c, flag)
       \/ \E r \in Rsc : ClientUnrefs(c, r)
       \/ ClientSendsBody(c) \/ ClientReceives(c) \/ ClientExits(c)

Spec == Init /\ [][Next]_vars

-----------------------------------------------------------------------------
(* Properties.                                                             *)

\* Every variable holds a value of its kind (virgl_info, rscs[]).
VtestTypeOK ==
  /\ named \subseteq Client /\ ctx_id \subseteq named
  /\ rscs_size \in 0..R /\ free_rsc \in Seq(Rsc)
  /\ buf \in [Rsc -> Addr \cup {None}]
  /\ dma \subseteq mmapped /\ mmapped \subseteq Addr /\ fences \in 0..Fences + 1
  /\ cur \in Client \cup {None}
  /\ pc \in {"idle", "name", "body", "fence", "aborted"}
  /\ open \subseteq Client /\ closed \subseteq Client
  /\ \A c \in Client : held[c] \subseteq Rsc /\ backed[c] \subseteq Rsc

\* A client gets the replies to the command it waits for, all of them and
\* nothing else, in the order it reads them.
RepliesAsOwed ==
  /\ VtestTypeOK
  /\ \A c \in Client : replies[c] # << >> =>
       /\ Len(replies[c]) = Len(owed[c])
       /\ \A i \in DOMAIN replies[c] : replies[c][i].op = owed[c][i]

\* The resources that a client has or is about to have.
Live(c) ==
  held[c] \cup {replies[c][i].rsc : i \in {j \in DOMAIN replies[c] :
                                             replies[c][j].op = "CREATE2"}}
\* The ones it has begun to give back.
Leaving(c) ==
  {m.rsc : m \in {n \in {sending[c]} \cup {wire[c][i] : i \in DOMAIN wire[c]}
                        \cup (IF cur = c THEN {command} ELSE {}) :
                    n.op = "UNREF"}}

\* An id is with one client, on its way back or free, whichever commands of
\* whichever clients are mixed in the loop: two programs never share one.
IdsApart ==
  /\ \A c, d \in Client : c # d =>
       (Live(c) \cup Leaving(c)) \cap (Live(d) \cup Leaving(d)) = {}
  /\ \A c \in Client : Live(c) \cap Leaving(c) = {}
  /\ \A i \in DOMAIN free_rsc :
       /\ \A j \in DOMAIN free_rsc : i # j => free_rsc[i] # free_rsc[j]
       /\ \A c \in Client : free_rsc[i] \notin Live(c) \cup Leaving(c)

\* The gpu can use the memory of a resource for as long as its client has it,
\* and the memory is of no other resource; what buf holds of an id that was
\* given back (virgl-virtio.c:121) never unmaps that of another.
MemoryStays ==
  \A c \in Client : \A r \in backed[c] :
    /\ buf[r] \in dma
    /\ \A d \in Client : \A q \in backed[d] : buf[q] = buf[r] => q = r

\* No two programs share a resource or its memory, and none loses its own,
\* whichever resources are made and given back in between.
ResourcesApart == IdsApart /\ MemoryStays

\* assert(recv(fd, &header, sizeof(header), MSG_WAITALL) == sizeof(header)) of
\* handle_virgl_events: the end of a program is not a header.
HeadersComplete == pc # "aborted"

=============================================================================
