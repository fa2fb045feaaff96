------------------------- MODULE VtestServerProofs -------------------------
(***************************************************************************)
(* Proofs about VtestServer, for either server and any number of clients,  *)
(* ids, addresses and fences: each client gets the replies it waits for,   *)
(* and no id and no memory is of two clients, or goes while one has it.    *)
(***************************************************************************)
EXTENDS VtestServer, SequenceTheorems, TLAPS

Op == Queries \cup {"CREATE_RENDERER", "BUSY_WAIT", "SUBMIT", "TRANSFER_GET2",
                    "UNREF", "CREATE2"}
Message == [op : Op, rsc : 0..R, flag : BOOLEAN]

\* The kinds of the variables that the argument is about.
KindsOK ==
  /\ named \subseteq Client /\ ctx_id \subseteq named
  /\ rscs_size \in 0..R /\ free_rsc \in Seq(1..rscs_size)
  /\ buf \in [Rsc -> mmapped \cup {None}]
  /\ dma \subseteq mmapped /\ mmapped \subseteq Addr
  /\ open \subseteq Client /\ closed \subseteq Client
  /\ DOMAIN wire = Client /\ DOMAIN replies = Client
  /\ DOMAIN sending = Client /\ DOMAIN owed = Client
  /\ held \in [Client -> SUBSET Rsc] /\ backed \in [Client -> SUBSET Rsc]

\* The loop is at a command of a client that has begun with its name, or at
\* none; only a submit goes beyond the fences of the compositor, and waits.
LoopOK ==
  /\ pc \in {"idle", "name", "body", "fence", "aborted"}
  /\ IF pc = "idle" THEN cur = None ELSE cur \in Client
  /\ IF pc \in {"idle", "aborted"} THEN command = NoCmd ELSE command \in Message
  /\ pc \in {"body", "fence"} => cur \in named
  /\ pc = "fence" => command.op \in {"SUBMIT", "BUSY_WAIT"}
  /\ fences \in 0..Fences + 1
  /\ fences = Fences + 1 => pc = "fence" /\ command.op = "SUBMIT"

\* The loop is at a command whose client can do nothing but wait.
Handling(c) ==
  /\ cur = c
  /\ pc \in {"name", "body"} \/ (pc = "fence" /\ command.op = "BUSY_WAIT")

\* What a client has yet to read is what it waits for.
RepliesMatch(c) ==
  \/ replies[c] = << >> /\ owed[c] = << >>
  \/ \E op \in Queries \cup {"BUSY_WAIT"} :
       replies[c] = <<Cmd(op, 0, FALSE)>> /\ owed[c] = <<op>>
  \/ \E r \in Rsc :
       replies[c] = <<Cmd("CREATE2", r, FALSE)>> /\ owed[c] = <<"CREATE2">>
  \/ \E r \in Rsc : /\ replies[c] = <<Cmd("CREATE2", r, TRUE), Cmd("memfd", r, TRUE)>>
                    /\ owed[c] = <<"CREATE2", "memfd">>
  \/ \E r \in held[c] :
       replies[c] = <<Cmd("memfd", r, TRUE)>> /\ owed[c] = <<"memfd">>

\* The pieces of one command are the header, which the loop has read or not,
\* and the body, which the client has written or not.
HeaderSent(c, m) ==
  /\ sending[c] = m /\ owed[c] = << >> /\ replies[c] = << >>
  /\ wire[c] = IF Handling(c) THEN << >> ELSE <<m>>
  /\ Handling(c) => m = command /\ pc # "fence"

BodySent(c, m) ==
  /\ sending[c] = NoCmd /\ owed[c] = RepliesOf(m.op, m.flag) /\ replies[c] = << >>
  /\ wire[c] = IF Handling(c) THEN IF pc = "fence" THEN << >> ELSE <<m>>
               ELSE <<m, m>>
  /\ Handling(c) => m = command

Done(c) ==
  /\ sending[c] = NoCmd /\ wire[c] = << >> /\ ~ Handling(c)
  /\ RepliesMatch(c)

ExchangeOK(c) ==
  \/ \E m \in Message : HeaderSent(c, m) \/ BodySent(c, m)
  \/ Done(c)

IdsOK ==
  /\ \A c \in Client : Live(c) \cup Leaving(c) \subseteq 1..rscs_size
  /\ IdsApart

\* The resources whose memory a client has or is about to have.
Backed(c) ==
  backed[c] \cup {replies[c][i].rsc : i \in {j \in DOMAIN replies[c] :
                                               replies[c][j].op = "memfd"}}

MemoryOK ==
  /\ \A q, r \in Rsc : buf[q] = buf[r] /\ buf[q] # None => q = r
  /\ \A c \in Client : \A r \in Backed(c) : buf[r] \in dma /\ r \in Live(c)

VtestInv ==
  /\ KindsOK /\ LoopOK /\ (\A c \in Client : ExchangeOK(c)) /\ IdsOK /\ MemoryOK

-----------------------------------------------------------------------------
(* What the sets of ids are in each phase of an exchange.                  *)

Named(op, s) == {s[i].rsc : i \in {j \in DOMAIN s : s[j].op = op}}

LEMMA NamedInPair ==
  ASSUME NEW op, NEW m, NEW n, n.op # op
  PROVE  /\ Named(op, << >>) = {}
         /\ Named(op, <<m>>) = IF m.op = op THEN {m.rsc} ELSE {}
         /\ Named(op, <<n>>) = {}
         /\ Named(op, <<m, n>>) = IF m.op = op THEN {m.rsc} ELSE {}
         /\ Named(op, <<n, m>>) = IF m.op = op THEN {m.rsc} ELSE {}
BY DEF Named

LEMMA NamedOther ==
  ASSUME NEW op, NEW n, n.op # op
  PROVE  Named(op, <<n>>) = {}
BY DEF Named

LEMMA PairFacts ==
  ASSUME NEW m, NEW n
  PROVE  Append(<<m>>, n) = <<m, n>> /\ Tail(<<m, n>>) = <<n>> /\ Head(<<m, n>>) = m
<1>1. PICK S : m \in S /\ n \in S
  <2>1. m \in {m, n} /\ n \in {m, n}
    OBVIOUS
  <2> QED BY <2>1
<1>2. Append(<<m>>, n) = <<m, n>>
  <2>1. PICK s : s = Append(<<m>>, n)
    OBVIOUS
  <2>2. s \in Seq(S) /\ Len(s) = 2 /\ s[1] = m /\ s[2] = n
    BY <1>1, <2>1
  <2>3. s = <<m, n>>
    BY <2>2
  <2> QED BY <2>1, <2>3
<1>3. Tail(<<m, n>>) = <<n>>
  <2>1. PICK s : s = Tail(<<m, n>>)
    OBVIOUS
  <2>2. s \in Seq(S) /\ Len(s) = 1 /\ s[1] = n
    BY <1>1, <2>1
  <2>3. s = <<n>>
    BY <2>2
  <2> QED BY <2>1, <2>3
<1> QED BY <1>2, <1>3

LEMMA OwnedAre ==
  ASSUME NEW c
  PROVE  /\ Live(c) = held[c] \cup Named("CREATE2", replies[c])
         /\ Live(c)' = held'[c] \cup Named("CREATE2", replies'[c])
         /\ Backed(c) = backed[c] \cup Named("memfd", replies[c])
         /\ Backed(c)' = backed'[c] \cup Named("memfd", replies'[c])
BY DEF Live, Backed, Named

\* The command whose pieces are at c.
Asks(c, m) == HeaderSent(c, m) \/ BodySent(c, m)

LEMMA AsksLeaving ==
  ASSUME LoopOK, NEW c, NEW m, Asks(c, m)
  PROVE  Leaving(c) = IF m.op = "UNREF" THEN {m.rsc} ELSE {}
BY DEF LoopOK, Asks, HeaderSent, BodySent, Leaving, Handling, NoCmd, Cmd

LEMMA AsksLeavingNext ==
  ASSUME LoopOK', NEW c, NEW m, Asks(c, m)'
  PROVE  Leaving(c)' = IF m.op = "UNREF" THEN {m.rsc} ELSE {}
BY DEF LoopOK, Asks, HeaderSent, BodySent, Leaving, Handling, NoCmd, Cmd

LEMMA DoneLeaving ==
  ASSUME LoopOK, NEW c, Done(c)
  PROVE  Leaving(c) = {}
BY DEF LoopOK, Done, Leaving, Handling, NoCmd, Cmd

LEMMA DoneLeavingNext ==
  ASSUME LoopOK', NEW c, Done(c)'
  PROVE  Leaving(c)' = {}
BY DEF LoopOK, Done, Leaving, Handling, NoCmd, Cmd

LEMMA RepliesOfValue ==
  ASSUME NEW m \in Message
  PROVE  RepliesOf(m.op, m.flag) =
           IF m.op \in Queries \cup {"BUSY_WAIT"} THEN <<m.op>>
           ELSE IF m.op = "CREATE2"
           THEN IF m.flag THEN <<"CREATE2", "memfd">> ELSE <<"CREATE2">>
           ELSE << >>
BY VtestAssumption DEF RepliesOf, Message, Op

\* The commands are different, and none is NoCmd.
LEMMA MessageFacts ==
  ASSUME NEW m \in Message
  PROVE  /\ m # NoCmd /\ m.op # "none" /\ m.rsc \in 0..R
         /\ m = Cmd(m.op, m.rsc, m.flag)
BY VtestAssumption DEF Message, Op, NoCmd, Cmd

LEMMA InitVtest == Init => VtestInv
<1> SUFFICES ASSUME Init PROVE VtestInv
  OBVIOUS
<1> USE DEF Init
<1>1. KindsOK
  BY VtestAssumption DEF KindsOK, Rsc
<1>2. LoopOK
  BY VtestAssumption DEF LoopOK
<1> DEFINE m == Cmd("CREATE_RENDERER", 0, FALSE)
<1>3. m \in Message /\ \A c \in Client : HeaderSent(c, m)
  <2>1. m \in Message
    BY VtestAssumption DEF Message, Op, Cmd
  <2>2. \A c \in Client : ~ Handling(c)
    BY VtestAssumption DEF Handling
  <2>3. ASSUME NEW c \in Client PROVE HeaderSent(c, m)
    <3>1. sending[c] = m /\ wire[c] = <<m>> /\ owed[c] = << >> /\ replies[c] = << >>
      OBVIOUS
    <3> QED BY <2>2, <3>1 DEF HeaderSent
  <2> QED BY <2>1, <2>3
<1>4. \A c \in Client : Live(c) = {} /\ Backed(c) = {}
  BY OwnedAre, NamedInPair DEF Named
<1>5. \A c \in Client : Leaving(c) = {}
  BY <1>2, <1>3, AsksLeaving DEF Asks, Cmd
<1>6. IdsOK
  BY <1>4, <1>5 DEF IdsOK, IdsApart
<1>7. MemoryOK
  BY <1>4 DEF MemoryOK
<1> QED BY <1>1, <1>2, <1>3, <1>6, <1>7 DEF VtestInv, ExchangeOK

\* What a step does to one client is nothing to the others.
LEMMA OthersKeep ==
  ASSUME NEW c, NEW d \in Client, d # c, ExchangeOK(d),
         sending'[d] = sending[d], wire'[d] = wire[d], owed'[d] = owed[d],
         replies'[d] = replies[d], held'[d] = held[d], backed'[d] = backed[d],
         cur' = d <=> cur = d, cur = d => UNCHANGED <<pc, command>>
  PROVE  /\ ExchangeOK(d)'
         /\ Live(d)' = Live(d) /\ Leaving(d)' = Leaving(d) /\ Backed(d)' = Backed(d)
<1>1. Handling(d)' <=> Handling(d)
  BY DEF Handling
<1>2. Live(d)' = Live(d) /\ Leaving(d)' = Leaving(d) /\ Backed(d)' = Backed(d)
  BY DEF Live, Leaving, Backed
<1>3. ASSUME NEW m, HeaderSent(d, m) PROVE HeaderSent(d, m)'
  BY <1>1, <1>3 DEF HeaderSent, Handling
<1>4. ASSUME NEW m, BodySent(d, m) PROVE BodySent(d, m)'
  BY <1>1, <1>4 DEF BodySent, Handling
<1>5. Done(d) => Done(d)'
  BY <1>1 DEF Done, RepliesMatch
<1> QED BY <1>2, <1>3, <1>4, <1>5 DEF ExchangeOK

\* A step of, or for, one client that gives no id and takes none.
LEMMA OneClient ==
  ASSUME VtestInv, NEW c,
         \A d \in Client \ {c} :
           /\ sending'[d] = sending[d] /\ wire'[d] = wire[d] /\ owed'[d] = owed[d]
           /\ replies'[d] = replies[d] /\ held'[d] = held[d] /\ backed'[d] = backed[d]
           /\ cur' = d <=> cur = d
           /\ cur = d => UNCHANGED <<pc, command>>,
         KindsOK', LoopOK',
         c \in Client => /\ ExchangeOK(c)' /\ Live(c)' = Live(c)
                         /\ Leaving(c)' = Leaving(c) /\ Backed(c)' = Backed(c),
         UNCHANGED <<rscs_size, free_rsc, buf, dma>>
  PROVE  VtestInv'
<1>1. ASSUME NEW d \in Client
      PROVE  /\ ExchangeOK(d)' /\ Live(d)' = Live(d)
             /\ Leaving(d)' = Leaving(d) /\ Backed(d)' = Backed(d)
  <2>1. CASE d = c
    BY <2>1
  <2>2. CASE d # c
    BY <2>2, OthersKeep DEF VtestInv
  <2> QED BY <2>1, <2>2
<1>2. IdsOK'
  <2>1. \A d \in Client : Live(d)' \cup Leaving(d)' \subseteq 1..rscs_size'
    BY <1>1 DEF VtestInv, IdsOK
  <2>2. IdsApart'
    BY <1>1 DEF VtestInv, IdsOK, IdsApart
  <2> QED BY <2>1, <2>2 DEF IdsOK
<1>3. MemoryOK'
  BY <1>1 DEF VtestInv, MemoryOK
<1> QED BY <1>1, <1>2, <1>3 DEF VtestInv

\* The same when what the client has is not written, and nothing comes to it.
LEMMA OnePiece ==
  ASSUME VtestInv, NEW c \in Client, NEW m \in Message, Asks(c, m), Asks(c, m)',
         \A d \in Client \ {c} :
           /\ sending'[d] = sending[d] /\ wire'[d] = wire[d] /\ owed'[d] = owed[d]
           /\ cur' = d <=> cur = d
           /\ cur = d => UNCHANGED <<pc, command>>,
         KindsOK', LoopOK',
         UNCHANGED <<replies, held, backed, rscs_size, free_rsc, buf, dma>>
  PROVE  VtestInv'
<1>1. ExchangeOK(c)'
  BY DEF ExchangeOK, Asks
<1>2. Live(c)' = Live(c) /\ Backed(c)' = Backed(c)
  BY DEF Live, Backed
<1>3. Leaving(c)' = Leaving(c)
  BY AsksLeaving, AsksLeavingNext DEF VtestInv
<1> QED BY <1>1, <1>2, <1>3, OneClient

-----------------------------------------------------------------------------
(* The steps of the loop.                                                  *)

LEMMA ListenStep ==
  ASSUME VtestInv, NEW c \in Client, handle_listen_events(c)
  PROVE  VtestInv'
<1> USE DEF handle_listen_events, infoVars, rscVars, loopVars, clientVars
<1>1. KindsOK' /\ LoopOK'
  BY DEF VtestInv, KindsOK, LoopOK
<1>2. /\ UNCHANGED <<sending, wire, owed, replies, held, backed, cur, pc, command>>
      /\ UNCHANGED <<rscs_size, free_rsc, buf, dma>>
  OBVIOUS
<1> QED BY <1>1, <1>2, OneClient, VtestAssumption

LEMMA GpuStep ==
  ASSUME VtestInv, GpuCompletes \/ Flush
  PROVE  VtestInv'
<1> USE DEF GpuCompletes, Flush, infoVars, rscVars, loopVars, connVars, clientVars
<1>1. KindsOK'
  BY DEF VtestInv, KindsOK
<1>2. LoopOK'
  BY VtestAssumption DEF VtestInv, LoopOK
<1>3. /\ UNCHANGED <<sending, wire, owed, replies, held, backed, cur, pc, command>>
      /\ UNCHANGED <<rscs_size, free_rsc, buf, dma>>
  OBVIOUS
<1> QED BY <1>1, <1>2, <1>3, OneClient, VtestAssumption

\* In the loop, a client with a piece of a command has not been read.
LEMMA HeaderStep ==
  ASSUME VtestInv, NEW c \in Client, handle_virgl_events(c)
  PROVE  VtestInv'
<1> USE DEF handle_virgl_events
<1>1. cur = None /\ command = NoCmd /\ c # None /\ ~ Handling(c)
  BY VtestAssumption DEF VtestInv, LoopOK, Handling
<1>2. PICK m \in Message : Asks(c, m)
  BY DEF VtestInv, ExchangeOK, Done, Asks
<1>3. \/ wire[c] = <<m>> /\ HeaderSent(c, m)
      \/ wire[c] = <<m, m>> /\ BodySent(c, m)
  BY <1>1, <1>2 DEF Asks, HeaderSent, BodySent
<1>4. cur' = c /\ command' = m /\ pc' \in {"body", "name"}
      /\ (pc' = "body" => c \in named)
  BY <1>3
<1>5. wire'[c] = Tail(wire[c]) /\ DOMAIN wire' = Client
      /\ \A d \in Client \ {c} : wire'[d] = wire[d]
  BY DEF VtestInv, KindsOK
<1>6. KindsOK'
  BY <1>5 DEF VtestInv, KindsOK, infoVars, rscVars, clientVars
<1>7. LoopOK'
  BY <1>4 DEF VtestInv, LoopOK, infoVars
<1>8. Handling(c)'
  BY <1>4 DEF Handling
<1>9. UNCHANGED <<sending, owed, replies, held, backed, rscs_size, free_rsc, buf, dma>>
  BY DEF rscVars, clientVars
<1>10. Asks(c, m)'
  <2>1. CASE wire[c] = <<m>> /\ HeaderSent(c, m)
    <3>1. wire'[c] = << >>
      BY <1>5, <2>1
    <3>2. HeaderSent(c, m)'
      BY <1>4, <1>8, <1>9, <2>1, <3>1 DEF HeaderSent
    <3> QED BY <3>2 DEF Asks
  <2>2. CASE wire[c] = <<m, m>> /\ BodySent(c, m)
    <3>1. wire'[c] = <<m>>
      BY <1>5, <2>2
    <3>2. BodySent(c, m)'
      BY <1>4, <1>8, <1>9, <2>2, <3>1 DEF BodySent
    <3> QED BY <3>2 DEF Asks
  <2> QED BY <1>3, <2>1, <2>2
<1>11. \A d \in Client \ {c} : ~ (cur' = d) /\ ~ (cur = d)
  BY <1>1, <1>4, VtestAssumption
<1> QED BY <1>2, <1>5, <1>6, <1>7, <1>9, <1>10, <1>11, OnePiece

LEMMA RecvFailsStep ==
  ASSUME VtestInv, NEW c \in Client, recv_fails(c)
  PROVE  VtestInv'
<1> USE DEF recv_fails, infoVars, rscVars, connVars, clientVars
<1>1. cur = None /\ command = NoCmd /\ c # None /\ ~ Handling(c) /\ ~ Handling(c)'
  BY VtestAssumption DEF VtestInv, LoopOK, Handling
<1>2. Done(c)
  <2>1. ASSUME NEW m, HeaderSent(c, m) \/ BodySent(c, m) PROVE FALSE
    <3>1. wire[c] = <<m>> \/ wire[c] = <<m, m>>
      BY <1>1, <2>1 DEF HeaderSent, BodySent
    <3> QED BY <3>1
  <2> QED BY <2>1 DEF VtestInv, ExchangeOK
<1>3. KindsOK' /\ LoopOK'
  BY DEF VtestInv, KindsOK, LoopOK
<1>4. Done(c)'
  BY <1>1, <1>2 DEF Done, RepliesMatch
<1>5. Leaving(c) = {} /\ Leaving(c)' = {}
  BY <1>2, <1>3, <1>4, DoneLeaving, DoneLeavingNext DEF VtestInv
<1>6. ExchangeOK(c)' /\ Live(c)' = Live(c) /\ Backed(c)' = Backed(c)
  BY <1>4 DEF ExchangeOK, Live, Backed
<1>7. \A d \in Client \ {c} : ~ (cur' = d) /\ ~ (cur = d)
  BY <1>1, VtestAssumption
<1>8. /\ UNCHANGED <<sending, wire, owed, replies, held, backed>>
      /\ UNCHANGED <<rscs_size, free_rsc, buf, dma>>
  OBVIOUS
<1> QED BY <1>3, <1>5, <1>6, <1>7, <1>8, OneClient

\* When a command is read to its end its client only waits.
LEMMA BodyFacts ==
  ASSUME VtestInv, pc \in {"name", "body"}, Body, NEW c, c = cur, NEW m, m = command
  PROVE  /\ c \in Client /\ m \in Message /\ BodySent(c, m)
         /\ wire[c] = <<m>> /\ replies[c] = << >> /\ sending[c] = NoCmd
         /\ owed[c] = RepliesOf(m.op, m.flag)
         /\ wire'[c] = << >> /\ DOMAIN wire' = Client
         /\ \A d \in Client \ {c} : wire'[d] = wire[d]
<1>1. c \in Client /\ m \in Message /\ Handling(c)
  BY DEF VtestInv, LoopOK, Handling
<1>2. wire[c] # << >> /\ DOMAIN wire = Client
      /\ wire' = [wire EXCEPT ![c] = Tail(@)]
  BY DEF Body, VtestInv, KindsOK
<1>3. PICK n \in Message : BodySent(c, n)
  BY <1>1, <1>2 DEF VtestInv, ExchangeOK, HeaderSent, Done
<1>4. n = m /\ wire[c] = <<m>>
  BY <1>1, <1>3 DEF BodySent
<1>5. Tail(wire[c]) = << >>
  BY <1>4
<1>6. wire'[c] = << >> /\ DOMAIN wire' = Client
      /\ \A d \in Client \ {c} : wire'[d] = wire[d]
  BY <1>1, <1>2, <1>5
<1> QED BY <1>1, <1>3, <1>4, <1>6 DEF BodySent

\* The loop comes back from a command.
LEMMA IdleFacts ==
  ASSUME VtestInv, NEW c \in Client, c = cur, Idle,
         sending'[c] = NoCmd, wire'[c] = << >>, RepliesMatch(c)',
         fences' = fences, fences # Fences + 1
  PROVE  /\ Done(c)' /\ ExchangeOK(c)' /\ LoopOK' /\ Leaving(c)' = {}
         /\ \A d \in Client \ {c} : ~ (cur' = d) /\ ~ (cur = d)
<1>1. LoopOK'
  BY DEF VtestInv, LoopOK, Idle
<1>2. ~ Handling(c)'
  BY DEF Idle, Handling
<1>3. Done(c)'
  BY <1>2 DEF Done
<1>4. Leaving(c)' = {}
  BY <1>1, <1>3, DoneLeavingNext
<1>5. \A d \in Client : cur' # d
  BY VtestAssumption DEF Idle
<1> QED BY <1>1, <1>3, <1>4, <1>5 DEF ExchangeOK

\* A command that gives no id and takes none, and its replies, if any.
LEMMA CommandEnds ==
  ASSUME VtestInv, NEW c \in Client, c = cur, NEW m \in Message, m = command,
         BodySent(c, m), m.op \notin {"UNREF", "CREATE2"}, Idle,
         wire'[c] = << >>, DOMAIN wire' = Client,
         \A d \in Client \ {c} : wire'[d] = wire[d],
         replies'[c] = IF m.op \in Queries \cup {"BUSY_WAIT"}
                       THEN <<Cmd(m.op, 0, FALSE)>> ELSE << >>,
         \A d \in Client \ {c} : replies'[d] = replies[d], DOMAIN replies' = Client,
         named \subseteq named', named' \subseteq Client,
         ctx_id' \subseteq named',
         UNCHANGED <<rscVars, open, closed, clientVars>>,
         fences' = fences, fences # Fences + 1
  PROVE  VtestInv'
<1> USE DEF rscVars, clientVars
<1>1. replies[c] = << >> /\ sending[c] = NoCmd /\ DOMAIN replies = Client
  BY DEF BodySent, VtestInv, KindsOK
<1>2. owed[c] = IF m.op \in Queries \cup {"BUSY_WAIT"} THEN <<m.op>> ELSE << >>
  BY RepliesOfValue DEF BodySent
<1>4. KindsOK'
  BY DEF VtestInv, KindsOK
<1>5. RepliesMatch(c)'
  BY <1>2 DEF RepliesMatch
<1>6. Leaving(c) = {}
  BY AsksLeaving DEF Asks, VtestInv
<1>7. /\ ExchangeOK(c)' /\ LoopOK' /\ Leaving(c)' = {}
      /\ \A d \in Client \ {c} : ~ (cur' = d) /\ ~ (cur = d)
  BY <1>1, <1>5, IdleFacts
<1>8. Named("CREATE2", replies'[c]) = {} /\ Named("memfd", replies'[c]) = {}
  <2>1. CASE m.op \in Queries \cup {"BUSY_WAIT"}
    <3>1. m.op # "CREATE2" /\ m.op # "memfd"
      BY <2>1, VtestAssumption
    <3>2. PICK n : n = Cmd(m.op, 0, FALSE)
      OBVIOUS
    <3>3. replies'[c] = <<n>> /\ n.op = m.op
      BY <2>1, <3>2 DEF Cmd
    <3>4. Named("CREATE2", <<n>>) = {} /\ Named("memfd", <<n>>) = {}
      BY <3>1, <3>3, NamedOther
    <3> QED BY <3>3, <3>4
  <2>2. CASE m.op \notin Queries \cup {"BUSY_WAIT"}
    BY <2>2 DEF Named
  <2> QED BY <2>1, <2>2
<1>9. Named("CREATE2", replies[c]) = {} /\ Named("memfd", replies[c]) = {}
  BY <1>1 DEF Named
<1>10. Live(c)' = Live(c) /\ Backed(c)' = Backed(c)
  <2>1. held' = held /\ backed' = backed
    OBVIOUS
  <2>2. /\ Live(c) = held[c] \cup Named("CREATE2", replies[c])
        /\ Live(c)' = held'[c] \cup Named("CREATE2", replies'[c])
        /\ Backed(c) = backed[c] \cup Named("memfd", replies[c])
        /\ Backed(c)' = backed'[c] \cup Named("memfd", replies'[c])
    BY OwnedAre
  <2> QED BY <1>8, <1>9, <2>1, <2>2
<1>11. /\ UNCHANGED <<sending, owed, held, backed>>
       /\ UNCHANGED <<rscs_size, free_rsc, buf, dma>>
  OBVIOUS
<1> QED BY <1>4, <1>6, <1>7, <1>10, <1>11, OneClient

LEMMA CreateRendererStep ==
  ASSUME VtestInv, create_renderer
  PROVE  VtestInv'
<1> USE DEF create_renderer
<1>1. PICK c, m : c = cur /\ m = command
  OBVIOUS
<1>2. /\ c \in Client /\ m \in Message /\ BodySent(c, m) /\ replies[c] = << >>
      /\ wire'[c] = << >> /\ DOMAIN wire' = Client
      /\ \A d \in Client \ {c} : wire'[d] = wire[d]
  BY <1>1, BodyFacts
<1>3. m.op = "CREATE_RENDERER" /\ m.op \notin Queries \cup {"BUSY_WAIT"}
  BY <1>1, VtestAssumption
<1>4. /\ named \subseteq named' /\ named' \subseteq Client /\ ctx_id' \subseteq named'
      /\ fences # Fences + 1 /\ DOMAIN replies = Client
  BY <1>1, <1>2 DEF VtestInv, KindsOK, LoopOK
<1>5. replies' = replies
  OBVIOUS
<1> QED BY <1>1, <1>2, <1>3, <1>4, <1>5, CommandEnds

LEMMA RepliesStep ==
  ASSUME VtestInv, NEW op \in {"GET_CAPS", "GET_CAPS2", "PING", "PROTOCOL_VERSION"},
         Replies(op)
  PROVE  VtestInv'
<1> USE DEF Replies
<1>1. PICK c, m : c = cur /\ m = command
  OBVIOUS
<1>2. /\ c \in Client /\ m \in Message /\ BodySent(c, m) /\ replies[c] = << >>
      /\ wire'[c] = << >> /\ DOMAIN wire' = Client
      /\ \A d \in Client \ {c} : wire'[d] = wire[d]
  BY <1>1, BodyFacts
<1>3. m.op = op /\ m.op \in Queries
  BY <1>1, <1>2 DEF Message, Op
<1>4. /\ named' = named /\ named \subseteq Client /\ ctx_id' \subseteq named'
      /\ fences # Fences + 1 /\ fences' = fences /\ DOMAIN replies = Client
  BY <1>1, <1>2 DEF VtestInv, KindsOK, LoopOK, infoVars
<1>5. /\ replies'[c] = <<Cmd(m.op, 0, FALSE)>> /\ DOMAIN replies' = Client
      /\ \A d \in Client \ {c} : replies'[d] = replies[d]
  <2>1. replies' = [replies EXCEPT ![c] = replies[c] \o <<Cmd(op, 0, FALSE)>>]
    BY <1>1, <1>4 DEF Reply
  <2>2. replies[c] \o <<Cmd(op, 0, FALSE)>> = <<Cmd(op, 0, FALSE)>>
    BY <1>2
  <2> QED BY <1>2, <1>3, <1>4, <2>1, <2>2
<1> QED BY <1>1, <1>2, <1>3, <1>4, <1>5, CommandEnds

LEMMA TransferGetStep ==
  ASSUME VtestInv, transfer_get2
  PROVE  VtestInv'
<1> USE DEF transfer_get2, init_context
<1>1. PICK c, m : c = cur /\ m = command
  OBVIOUS
<1>2. /\ c \in Client /\ m \in Message /\ BodySent(c, m) /\ replies[c] = << >>
      /\ wire'[c] = << >> /\ DOMAIN wire' = Client
      /\ \A d \in Client \ {c} : wire'[d] = wire[d]
  BY <1>1, BodyFacts
<1>3. m.op = "TRANSFER_GET2" /\ m.op \notin Queries \cup {"BUSY_WAIT"}
  BY <1>1, VtestAssumption
<1>4. /\ named' = named /\ named' \subseteq Client /\ ctx_id' \subseteq named'
      /\ fences # Fences + 1 /\ DOMAIN replies = Client
  BY <1>1, <1>2 DEF VtestInv, KindsOK, LoopOK
<1>5. replies' = replies
  OBVIOUS
<1> QED BY <1>1, <1>2, <1>3, <1>4, <1>5, CommandEnds

\* After a submit the client goes on while the loop waits for the fence.
LEMMA SubmitStep ==
  ASSUME VtestInv, submit_cmd
  PROVE  VtestInv'
<1> USE DEF submit_cmd, init_context, rscVars, clientVars
<1>1. PICK c, m : c = cur /\ m = command
  OBVIOUS
<1>2. /\ c \in Client /\ m \in Message /\ BodySent(c, m) /\ replies[c] = << >>
      /\ wire'[c] = << >> /\ DOMAIN wire' = Client
      /\ \A d \in Client \ {c} : wire'[d] = wire[d]
  BY <1>1, BodyFacts
<1>3. m.op = "SUBMIT" /\ m.op \notin Queries \cup {"BUSY_WAIT"}
  BY <1>1, VtestAssumption
<1>4. c \in named /\ fences # Fences + 1
  BY <1>1 DEF VtestInv, LoopOK
<1>5. KindsOK'
  BY <1>1, <1>2, <1>4 DEF VtestInv, KindsOK
<1>6. LoopOK'
  BY <1>1, <1>2, <1>3, <1>4, VtestAssumption DEF VtestInv, LoopOK
<1>7. owed'[c] = << >> /\ sending'[c] = NoCmd /\ replies'[c] = << >>
  BY <1>2, <1>3, RepliesOfValue DEF BodySent
<1>8. Done(c)'
  BY <1>1, <1>2, <1>3, <1>7 DEF Done, Handling, RepliesMatch
<1>9. Leaving(c)' = {} /\ Leaving(c) = {}
  BY <1>2, <1>3, <1>6, <1>8, DoneLeavingNext, AsksLeaving DEF Asks, VtestInv
<1>10. Live(c)' = Live(c) /\ Backed(c)' = Backed(c)
  BY DEF Live, Backed
<1>11. \A d \in Client \ {c} : ~ (cur' = d) /\ ~ (cur = d)
  BY <1>1
<1>12. /\ UNCHANGED <<sending, owed, replies, held, backed>>
       /\ UNCHANGED <<rscs_size, free_rsc, buf, dma>>
  OBVIOUS
<1> QED BY <1>2, <1>5, <1>6, <1>8, <1>9, <1>10, <1>11, <1>12, OneClient DEF ExchangeOK

LEMMA SubmitEndStep ==
  ASSUME VtestInv, submit_cmd_End
  PROVE  VtestInv'
<1> USE DEF submit_cmd_End, Idle, infoVars, rscVars, connVars, clientVars
<1>1. PICK c : c = cur
  OBVIOUS
<1>2. c \in Client /\ ~ Handling(c) /\ ~ Handling(c)'
  BY <1>1 DEF VtestInv, LoopOK, Handling
<1>3. KindsOK' /\ LoopOK'
  <2>1. KindsOK'
    BY DEF VtestInv, KindsOK
  <2>2. fences = 0 /\ fences # Fences + 1
    BY VtestAssumption
  <2>3. LoopOK'
    BY <2>2, VtestAssumption DEF VtestInv, LoopOK
  <2> QED BY <2>1, <2>3
<1>4. /\ UNCHANGED <<sending, wire, owed, replies, held, backed>>
      /\ UNCHANGED <<rscs_size, free_rsc, buf, dma>>
  OBVIOUS
<1>5. \A d \in Client \ {c} : ~ (cur' = d) /\ ~ (cur = d)
  BY <1>1, VtestAssumption
<1>6. CASE Done(c)
  <2>1. Done(c)'
    BY <1>2, <1>4, <1>6 DEF Done, RepliesMatch
  <2>2. Leaving(c)' = {} /\ Leaving(c) = {}
    BY <1>3, <1>6, <2>1, DoneLeaving, DoneLeavingNext DEF VtestInv
  <2>3. Live(c)' = Live(c) /\ Backed(c)' = Backed(c)
    BY DEF Live, Backed
  <2> QED BY <1>2, <1>3, <1>4, <1>5, <2>1, <2>2, <2>3, OneClient DEF ExchangeOK
<1>7. ASSUME NEW m \in Message, Asks(c, m) PROVE VtestInv'
  <2>1. Asks(c, m)'
    BY <1>2, <1>4, <1>7 DEF Asks, HeaderSent, BodySent
  <2> QED BY <1>2, <1>3, <1>4, <1>5, <1>7, <2>1, OnePiece
<1> QED BY <1>2, <1>6, <1>7 DEF VtestInv, ExchangeOK, Asks

LEMMA BusyWaitStep ==
  ASSUME VtestInv, resource_busy_wait
  PROVE  VtestInv'
<1> USE DEF resource_busy_wait, infoVars, rscVars, clientVars
<1>1. PICK c, m : c = cur /\ m = command
  OBVIOUS
<1>2. /\ c \in Client /\ m \in Message /\ BodySent(c, m)
      /\ wire'[c] = << >> /\ DOMAIN wire' = Client
      /\ \A d \in Client \ {c} : wire'[d] = wire[d]
  BY <1>1, BodyFacts
<1>3. m.op = "BUSY_WAIT"
  BY <1>1
<1>4. KindsOK'
  BY <1>2 DEF VtestInv, KindsOK
<1>5. LoopOK'
  BY <1>1, <1>3 DEF VtestInv, LoopOK
<1>6. Handling(c)' /\ cur' = c /\ command' = m /\ pc' = "fence"
  BY <1>1, <1>3 DEF Handling
<1>7. /\ UNCHANGED <<sending, owed, replies, held, backed>>
      /\ UNCHANGED <<rscs_size, free_rsc, buf, dma>>
  OBVIOUS
<1>8. BodySent(c, m)'
  BY <1>2, <1>6, <1>7 DEF BodySent
<1>9. \A d \in Client \ {c} : ~ (cur' = d) /\ ~ (cur = d)
  BY <1>1
<1> QED BY <1>2, <1>4, <1>5, <1>7, <1>8, <1>9, OnePiece DEF Asks

LEMMA BusyWaitEndStep ==
  ASSUME VtestInv, resource_busy_wait_End
  PROVE  VtestInv'
<1> USE DEF resource_busy_wait_End
<1>1. PICK c, m : c = cur /\ m = command
  OBVIOUS
<1>2. c \in Client /\ m \in Message /\ Handling(c) /\ m.op = "BUSY_WAIT"
  BY <1>1 DEF VtestInv, LoopOK, Handling
<1>3. BodySent(c, m) /\ wire[c] = << >>
  <2>1. ~ Done(c) /\ \A n : ~ HeaderSent(c, n)
    BY <1>2 DEF Done, HeaderSent
  <2>2. PICK n \in Message : BodySent(c, n)
    BY <1>2, <2>1 DEF VtestInv, ExchangeOK
  <2>3. n = m
    BY <1>1, <1>2, <2>2 DEF BodySent
  <2> QED BY <1>2, <2>2, <2>3 DEF BodySent
<1>4. /\ wire' = wire /\ DOMAIN wire = Client /\ DOMAIN replies = Client
      /\ named' = named /\ named \subseteq Client /\ ctx_id' \subseteq named'
      /\ fences' = fences /\ fences # Fences + 1
  BY <1>1, <1>2 DEF VtestInv, KindsOK, LoopOK, infoVars
<1>5. /\ replies'[c] = <<Cmd(m.op, 0, FALSE)>> /\ DOMAIN replies' = Client
      /\ \A d \in Client \ {c} : replies'[d] = replies[d]
  <2>1. replies' = [replies EXCEPT ![c] = replies[c] \o <<Cmd("BUSY_WAIT", 0, FALSE)>>]
    BY <1>1, <1>4 DEF Reply
  <2>2. replies[c] = << >>
    BY <1>3 DEF BodySent
  <2>3. replies[c] \o <<Cmd("BUSY_WAIT", 0, FALSE)>> = <<Cmd("BUSY_WAIT", 0, FALSE)>>
    BY <2>2
  <2> QED BY <1>2, <1>4, <2>1, <2>3
<1>6. m.op \in Queries \cup {"BUSY_WAIT"} /\ m.op \notin {"UNREF", "CREATE2"}
  BY <1>2
<1>7. Idle /\ UNCHANGED <<rscVars, open, closed, clientVars>>
  OBVIOUS
<1> QED BY <1>1, <1>2, <1>3, <1>4, <1>5, <1>6, <1>7, CommandEnds

\* An id given back goes from the client to the free list.
LEMMA UnrefStep ==
  ASSUME VtestInv, resource_unref
  PROVE  VtestInv'
<1> USE DEF resource_unref
<1>1. PICK c, m, r : c = cur /\ m = command /\ r = command.rsc
  OBVIOUS
<1>2. /\ c \in Client /\ m \in Message /\ BodySent(c, m) /\ replies[c] = << >>
      /\ owed[c] = RepliesOf(m.op, m.flag) /\ sending[c] = NoCmd
      /\ wire'[c] = << >> /\ DOMAIN wire' = Client
      /\ \A d \in Client \ {c} : wire'[d] = wire[d]
  BY <1>1, BodyFacts
<1>3. m.op = "UNREF" /\ m.op \notin Queries \cup {"BUSY_WAIT"}
  BY <1>1, VtestAssumption
<1>4. Leaving(c) = {r}
  BY <1>1, <1>2, <1>3, AsksLeaving DEF Asks, VtestInv
<1>5. r \in 1..rscs_size /\ r \in Rsc
  BY <1>2, <1>4, VtestAssumption DEF VtestInv, IdsOK, KindsOK, Rsc
<1>6. /\ free_rsc \in Seq(1..rscs_size) /\ free_rsc' = <<r>> \o free_rsc
      /\ dma' = dma \ {buf[r]}
      /\ UNCHANGED <<rscs_size, buf, mmapped, sending, owed, replies, held, backed, named,
                     ctx_id, open, closed, fences>>
  BY <1>1 DEF infoVars, clientVars, VtestInv, KindsOK
<1>7. free_rsc' \in Seq(1..rscs_size)
  BY <1>5, <1>6
<1>8. KindsOK'
  BY <1>2, <1>6, <1>7 DEF VtestInv, KindsOK
<1>9. RepliesMatch(c)'
  <2>1. owed[c] = << >>
    BY <1>2, <1>3, RepliesOfValue
  <2> QED BY <1>2, <1>6, <2>1 DEF RepliesMatch
<1>10. /\ ExchangeOK(c)' /\ LoopOK' /\ Leaving(c)' = {}
       /\ \A d \in Client \ {c} : ~ (cur' = d) /\ ~ (cur = d)
  <2>1. fences # Fences + 1
    BY DEF VtestInv, LoopOK
  <2> QED BY <1>1, <1>2, <1>6, <1>9, <2>1, IdleFacts
<1>11. ASSUME NEW d \in Client
       PROVE  /\ ExchangeOK(d)' /\ Live(d)' = Live(d) /\ Backed(d)' = Backed(d)
              /\ Leaving(d)' = IF d = c THEN {} ELSE Leaving(d)
  <2>1. CASE d = c
    BY <1>6, <1>10, <2>1 DEF Live, Backed
  <2>2. CASE d # c
    <3>1. /\ replies'[d] = replies[d] /\ wire'[d] = wire[d] /\ ExchangeOK(d)
          /\ ~ (cur' = d) /\ ~ (cur = d)
      BY <1>2, <1>6, <1>10, <2>2 DEF VtestInv
    <3>2. sending' = sending /\ owed' = owed /\ held' = held /\ backed' = backed
      BY <1>6
    <3>3. /\ ExchangeOK(d)' /\ Live(d)' = Live(d) /\ Leaving(d)' = Leaving(d)
          /\ Backed(d)' = Backed(d)
      BY <2>2, <3>1, <3>2, OthersKeep
    <3> QED BY <2>2, <3>3
  <2> QED BY <2>1, <2>2
<1>12. \A d \in Client : r \notin Live(d) /\ (r \in Leaving(d) => d = c)
  BY <1>2, <1>4 DEF VtestInv, IdsOK, IdsApart
<1>13. IdsOK'
  <2>1. \A d \in Client : Live(d)' \cup Leaving(d)' \subseteq 1..rscs_size'
    BY <1>6, <1>11 DEF VtestInv, IdsOK
  <2>2. \A d, e \in Client : d # e =>
          (Live(d)' \cup Leaving(d)') \cap (Live(e)' \cup Leaving(e)') = {}
    BY <1>11 DEF VtestInv, IdsOK, IdsApart
  <2>3. \A d \in Client : Live(d)' \cap Leaving(d)' = {}
    BY <1>11 DEF VtestInv, IdsOK, IdsApart
  <2>4. /\ DOMAIN free_rsc = 1..Len(free_rsc) /\ Len(free_rsc) \in Nat
        /\ DOMAIN free_rsc' = 1..Len(free_rsc) + 1 /\ free_rsc'[1] = r
        /\ \A i \in 2..Len(free_rsc) + 1 : i - 1 \in 1..Len(free_rsc) /\ free_rsc'[i] = free_rsc[i-1]
    BY <1>5, <1>6
  <2>5. \A i \in DOMAIN free_rsc : free_rsc[i] # r
    BY <1>2, <1>4 DEF VtestInv, IdsOK, IdsApart
  <2>6. ASSUME NEW i \in DOMAIN free_rsc', NEW j \in DOMAIN free_rsc', i # j
        PROVE  free_rsc'[i] # free_rsc'[j]
    BY <2>4, <2>5, <2>6 DEF VtestInv, IdsOK, IdsApart
  <2>7. ASSUME NEW i \in DOMAIN free_rsc', NEW d \in Client
        PROVE  free_rsc'[i] \notin Live(d)' \cup Leaving(d)'
    <3>1. CASE i = 1
      BY <1>11, <1>12, <2>4, <3>1
    <3>2. CASE i # 1
      BY <1>11, <2>4, <3>2 DEF VtestInv, IdsOK, IdsApart
    <3> QED BY <3>1, <3>2
  <2> QED BY <2>1, <2>2, <2>3, <2>6, <2>7 DEF IdsOK, IdsApart
<1>14. MemoryOK'
  <2>1. ASSUME NEW d \in Client, NEW q \in Backed(d)'
        PROVE  buf'[q] \in dma' /\ q \in Live(d)'
    <3>1. q \in Backed(d) /\ q \in Live(d) /\ buf[q] \in dma /\ q # r /\ q \in Rsc
      BY <1>11, <1>12, <2>1, VtestAssumption DEF VtestInv, MemoryOK, IdsOK, KindsOK, Rsc
    <3>2. buf[q] # None
      BY <3>1, VtestAssumption DEF VtestInv, KindsOK
    <3>3. buf[q] # buf[r]
      BY <1>5, <3>1, <3>2 DEF VtestInv, MemoryOK
    <3> QED BY <1>6, <1>11, <3>1, <3>3
  <2> QED BY <1>6, <2>1 DEF VtestInv, MemoryOK
<1> QED BY <1>8, <1>10, <1>11, <1>13, <1>14 DEF VtestInv

-----------------------------------------------------------------------------
(* The steps of the clients.                                               *)

\* A client begins a command when nothing of the last is left.
LEMMA SendsFacts ==
  ASSUME VtestInv, NEW c \in Client, NEW m \in Message, ClientSends(c, m)
  PROVE  /\ Done(c) /\ HeaderSent(c, m)' /\ replies[c] = << >> /\ LoopOK'
         /\ DOMAIN wire' = Client /\ DOMAIN sending' = Client
         /\ \A d \in Client \ {c} : wire'[d] = wire[d] /\ sending'[d] = sending[d]
         /\ UNCHANGED <<infoVars, rscVars, fences, loopVars, open, closed, replies, owed>>
<1> USE DEF ClientSends
<1>1. DOMAIN wire = Client /\ DOMAIN sending = Client
  BY DEF VtestInv, KindsOK
<1>2. Done(c)
  <2>1. ASSUME NEW n \in Message, HeaderSent(c, n) PROVE FALSE
    BY <2>1, MessageFacts DEF HeaderSent
  <2>2. ASSUME NEW n \in Message, BodySent(c, n) PROVE FALSE
    <3>1. Handling(c) /\ pc = "fence" /\ n.op = "BUSY_WAIT"
      <4>1. wire[c] = << >>
        OBVIOUS
      <4>2. << >> # <<n>> /\ << >> # <<n, n>>
        OBVIOUS
      <4> QED BY <2>2, <4>1, <4>2 DEF BodySent, Handling
    <3>2. RepliesOf(n.op, n.flag) = <<n.op>>
      BY <3>1, RepliesOfValue
    <3>3. owed[c] = <<n.op>> /\ <<n.op>> # << >>
      BY <2>2, <3>2 DEF BodySent
    <3> QED BY <3>3
  <2> QED BY <2>1, <2>2 DEF VtestInv, ExchangeOK
<1>3. ~ Handling(c) /\ ~ Handling(c)'
  BY <1>2 DEF Done, Handling, loopVars
<1>4. replies[c] = << >>
  BY <1>2 DEF Done, RepliesMatch
<1>5. wire'[c] = <<m>> /\ sending'[c] = m /\ DOMAIN wire' = Client /\ DOMAIN sending' = Client
      /\ \A d \in Client \ {c} : wire'[d] = wire[d] /\ sending'[d] = sending[d]
  BY <1>1
<1>6. HeaderSent(c, m)'
  BY <1>3, <1>4, <1>5 DEF HeaderSent
<1>7. LoopOK'
  BY DEF VtestInv, LoopOK, infoVars, loopVars
<1> QED BY <1>2, <1>4, <1>5, <1>6, <1>7

LEMMA SendsStep ==
  ASSUME VtestInv, NEW c \in Client, NEW m \in Message, ClientSends(c, m),
         m.op # "UNREF", UNCHANGED <<held, backed>>
  PROVE  VtestInv'
<1>1. /\ Done(c) /\ HeaderSent(c, m)' /\ LoopOK'
      /\ DOMAIN wire' = Client /\ DOMAIN sending' = Client
      /\ \A d \in Client \ {c} : wire'[d] = wire[d] /\ sending'[d] = sending[d]
      /\ UNCHANGED <<infoVars, rscVars, fences, loopVars, open, closed, replies, owed>>
  BY SendsFacts
<1>2. KindsOK'
  BY <1>1 DEF VtestInv, KindsOK, infoVars, rscVars
<1>3. Leaving(c) = {} /\ Leaving(c)' = {}
  BY <1>1, DoneLeaving, AsksLeavingNext DEF Asks, VtestInv
<1>4. Live(c)' = Live(c) /\ Backed(c)' = Backed(c)
  BY <1>1 DEF Live, Backed
<1>5. \A d \in Client \ {c} : /\ cur' = d <=> cur = d
                              /\ cur = d => UNCHANGED <<pc, command>>
  BY <1>1 DEF loopVars
<1>6. UNCHANGED <<owed, replies, rscs_size, free_rsc, buf, dma>>
  BY <1>1 DEF rscVars
<1> QED BY <1>1, <1>2, <1>3, <1>4, <1>5, <1>6, OneClient DEF ExchangeOK

LEMMA CreatesStep ==
  ASSUME VtestInv, NEW c \in Client, NEW flag \in BOOLEAN, ClientCreates(c, flag)
  PROVE  VtestInv'
<1>1. PICK m : m = Cmd("CREATE2", 0, flag)
  OBVIOUS
<1>2. m \in Message /\ m.op # "UNREF"
  BY <1>1, VtestAssumption DEF Cmd, Message, Op
<1> QED BY <1>1, <1>2, SendsStep DEF ClientCreates

LEMMA UsesStep ==
  ASSUME VtestInv, NEW c \in Client, ClientUses(c)
  PROVE  VtestInv'
<1>1. PICK m : /\ ClientSends(c, m) /\ UNCHANGED <<held, backed>>
               /\ \/ \E op \in Queries : m = Cmd(op, 0, FALSE)
                  \/ \E flag \in BOOLEAN : m = Cmd("BUSY_WAIT", 0, flag)
                  \/ m = Cmd("SUBMIT", 0, FALSE)
                  \/ \E r \in held[c] : m = Cmd("TRANSFER_GET2", r, FALSE)
  BY DEF ClientUses
<1>2. held[c] \subseteq 0..R /\ 0 \in 0..R
  BY VtestAssumption DEF VtestInv, KindsOK, Rsc
<1>3. m \in Message /\ m.op # "UNREF"
  <2>1. PICK op \in Queries \cup {"BUSY_WAIT", "SUBMIT", "TRANSFER_GET2"}, r \in 0..R,
             flag \in BOOLEAN : m = Cmd(op, r, flag)
    BY <1>1, <1>2
  <2>2. op \in Op /\ op # "UNREF"
    BY VtestAssumption DEF Op
  <2> QED BY <2>1, <2>2 DEF Message, Cmd
<1> QED BY <1>1, <1>3, SendsStep

\* A client gives up its claim to an id when it begins to give it back.
LEMMA UnrefsStep ==
  ASSUME VtestInv, NEW c \in Client, NEW r \in Rsc, ClientUnrefs(c, r)
  PROVE  VtestInv'
<1>1. PICK m : m = Cmd("UNREF", r, FALSE)
  OBVIOUS
<1>2. m \in Message /\ m.op = "UNREF" /\ m.rsc = r
  BY <1>1, VtestAssumption DEF Cmd, Message, Op, Rsc
<1>3. /\ Done(c) /\ HeaderSent(c, m)' /\ replies[c] = << >> /\ LoopOK'
      /\ DOMAIN wire' = Client /\ DOMAIN sending' = Client
      /\ \A d \in Client \ {c} : wire'[d] = wire[d] /\ sending'[d] = sending[d]
      /\ UNCHANGED <<infoVars, rscVars, fences, loopVars, open, closed, replies, owed>>
  BY <1>1, <1>2, SendsFacts DEF ClientUnrefs
<1>4. /\ r \in held[c]
      /\ held' = [held EXCEPT ![c] = held[c] \ {r}]
      /\ backed' = [backed EXCEPT ![c] = backed[c] \ {r}]
      /\ held \in [Client -> SUBSET Rsc] /\ backed \in [Client -> SUBSET Rsc]
  BY DEF ClientUnrefs, VtestInv, KindsOK
<1>5. held' \in [Client -> SUBSET Rsc] /\ backed' \in [Client -> SUBSET Rsc]
  BY <1>4
<1>6. KindsOK'
  BY <1>3, <1>5 DEF VtestInv, KindsOK, infoVars, rscVars
<1>7. Leaving(c) = {} /\ Leaving(c)' = {r}
  BY <1>2, <1>3, DoneLeaving, AsksLeavingNext DEF Asks, VtestInv
<1>8. UNCHANGED <<replies, owed, rscs_size, free_rsc, buf, dma, cur, pc, command>>
  BY <1>3 DEF rscVars, loopVars
<1>9. ASSUME NEW d \in Client \ {c}
      PROVE  /\ ExchangeOK(d)' /\ Live(d)' = Live(d) /\ Backed(d)' = Backed(d)
             /\ Leaving(d)' = Leaving(d)
  <2>1. /\ held'[d] = held[d] /\ backed'[d] = backed[d] /\ wire'[d] = wire[d]
        /\ sending'[d] = sending[d]
    BY <1>3, <1>4
  <2>2. ExchangeOK(d) /\ d # c
    BY DEF VtestInv
  <2> QED BY <1>8, <2>1, <2>2, OthersKeep
<1>10. /\ Live(c) = held[c] /\ Live(c)' = held[c] \ {r}
       /\ Backed(c) = backed[c] /\ Backed(c)' = backed[c] \ {r}
  <2>1. replies'[c] = << >>
    BY <1>3
  <2>2. held'[c] = held[c] \ {r} /\ backed'[c] = backed[c] \ {r}
    BY <1>4
  <2>3. \A op : Named(op, << >>) = {}
    BY DEF Named
  <2>4. /\ Live(c) = held[c] \cup Named("CREATE2", replies[c])
        /\ Live(c)' = held'[c] \cup Named("CREATE2", replies'[c])
        /\ Backed(c) = backed[c] \cup Named("memfd", replies[c])
        /\ Backed(c)' = backed'[c] \cup Named("memfd", replies'[c])
    BY OwnedAre
  <2> QED BY <1>3, <2>1, <2>2, <2>3, <2>4
<1>11. Live(c)' \cup Leaving(c)' = Live(c) \cup Leaving(c)
  BY <1>4, <1>7, <1>10
<1>12. ASSUME NEW d \in Client
       PROVE  /\ Live(d)' \cup Leaving(d)' = Live(d) \cup Leaving(d)
              /\ Live(d)' \cap Leaving(d)' = {}
  <2>1. CASE d = c
    BY <1>7, <1>10, <1>11, <2>1
  <2>2. CASE d # c
    BY <1>9, <2>2 DEF VtestInv, IdsOK, IdsApart
  <2> QED BY <2>1, <2>2
<1>13. IdsOK'
  <2>1. \A d \in Client : Live(d)' \cup Leaving(d)' \subseteq 1..rscs_size'
    BY <1>8, <1>12 DEF VtestInv, IdsOK
  <2>2. IdsApart'
    BY <1>8, <1>12 DEF VtestInv, IdsOK, IdsApart
  <2> QED BY <2>1, <2>2 DEF IdsOK
<1>14. MemoryOK'
  <2>1. ASSUME NEW d \in Client, NEW q \in Backed(d)'
        PROVE  buf[q] \in dma /\ q \in Live(d)'
    <3>1. CASE d = c
      BY <1>10, <2>1, <3>1 DEF VtestInv, MemoryOK
    <3>2. CASE d # c
      BY <1>9, <2>1, <3>2 DEF VtestInv, MemoryOK
    <3> QED BY <3>1, <3>2
  <2> QED BY <1>8, <2>1 DEF VtestInv, MemoryOK
<1>15. ExchangeOK(c)'
  BY <1>2, <1>3 DEF ExchangeOK
<1> QED BY <1>3, <1>6, <1>9, <1>13, <1>14, <1>15 DEF VtestInv

LEMMA SendsBodyStep ==
  ASSUME VtestInv, NEW c \in Client, ClientSendsBody(c)
  PROVE  VtestInv'
<1> USE DEF ClientSendsBody
<1>1. PICK m \in Message : HeaderSent(c, m)
  BY DEF VtestInv, ExchangeOK, Done, BodySent
<1>2. /\ DOMAIN wire = Client /\ DOMAIN sending = Client /\ DOMAIN owed = Client
      /\ sending[c] = m
  BY <1>1 DEF VtestInv, KindsOK, HeaderSent
<1>3. /\ wire'[c] = Append(wire[c], m) /\ sending'[c] = NoCmd
      /\ owed'[c] = RepliesOf(m.op, m.flag)
      /\ DOMAIN wire' = Client /\ DOMAIN sending' = Client /\ DOMAIN owed' = Client
      /\ \A d \in Client \ {c} : /\ wire'[d] = wire[d] /\ sending'[d] = sending[d]
                                 /\ owed'[d] = owed[d]
  BY <1>2
<1>4. /\ UNCHANGED <<replies, held, backed, cur, pc, command>>
      /\ UNCHANGED <<rscs_size, free_rsc, buf, dma>>
  BY DEF rscVars, loopVars
<1>5. wire'[c] = IF Handling(c) THEN <<m>> ELSE <<m, m>>
  <2>1. CASE Handling(c)
    BY <1>1, <1>3, <2>1 DEF HeaderSent
  <2>2. CASE ~ Handling(c)
    <3>1. wire[c] = <<m>>
      BY <1>1, <2>2 DEF HeaderSent
    <3>2. Append(<<m>>, m) = <<m, m>>
      BY PairFacts
    <3>3. wire'[c] = <<m, m>>
      BY <1>3, <3>1, <3>2
    <3> QED BY <2>2, <3>3
  <2> QED BY <2>1, <2>2
<1>6. Handling(c)' <=> Handling(c)
  BY <1>4 DEF Handling
<1>7. BodySent(c, m)'
  BY <1>1, <1>3, <1>4, <1>5, <1>6 DEF BodySent, HeaderSent
<1>8. KindsOK'
  BY <1>3 DEF VtestInv, KindsOK, infoVars, rscVars
<1>9. LoopOK'
  BY DEF VtestInv, LoopOK, infoVars, loopVars
<1> QED BY <1>1, <1>3, <1>4, <1>7, <1>8, <1>9, OnePiece DEF Asks

LEMMA ExitsStep ==
  ASSUME VtestInv, NEW c \in Client, ClientExits(c)
  PROVE  VtestInv'
<1> USE DEF ClientExits, infoVars, rscVars, loopVars, clientVars
<1>1. KindsOK' /\ LoopOK'
  BY DEF VtestInv, KindsOK, LoopOK
<1>2. /\ UNCHANGED <<sending, wire, owed, replies, held, backed, cur, pc, command>>
      /\ UNCHANGED <<rscs_size, free_rsc, buf, dma>>
  OBVIOUS
<1> QED BY <1>1, <1>2, OneClient, VtestAssumption

\* A reply that is read is what the client waited for first.
LEMMA ReceivesStep ==
  ASSUME VtestInv, NEW c \in Client, ClientReceives(c)
  PROVE  VtestInv'
<1> USE DEF ClientReceives
<1>1. Done(c)
  BY DEF VtestInv, ExchangeOK, HeaderSent, BodySent
<1>2. /\ DOMAIN replies = Client /\ DOMAIN owed = Client
      /\ held \in [Client -> SUBSET Rsc] /\ backed \in [Client -> SUBSET Rsc]
  BY DEF VtestInv, KindsOK
<1>3. PICK n : n = Head(replies[c])
  OBVIOUS
<1>4. /\ replies'[c] = Tail(replies[c]) /\ owed'[c] = Tail(owed[c])
      /\ held'[c] = IF n.op = "CREATE2" THEN held[c] \cup {n.rsc} ELSE held[c]
      /\ backed'[c] = IF n.op = "memfd" THEN backed[c] \cup {n.rsc} ELSE backed[c]
      /\ DOMAIN replies' = Client /\ DOMAIN owed' = Client
      /\ DOMAIN held' = Client /\ DOMAIN backed' = Client
      /\ held' = [held EXCEPT ![c] = held'[c]]
      /\ backed' = [backed EXCEPT ![c] = backed'[c]]
      /\ \A d \in Client \ {c} : /\ replies'[d] = replies[d] /\ owed'[d] = owed[d]
                                 /\ held'[d] = held[d] /\ backed'[d] = backed[d]
  BY <1>2, <1>3
<1>5. /\ UNCHANGED <<sending, wire, cur, pc, command>>
      /\ UNCHANGED <<rscs_size, free_rsc, buf, dma>>
  BY DEF rscVars, loopVars
<1>6. /\ Live(c) = held[c] \cup Named("CREATE2", replies[c])
      /\ Live(c)' = held'[c] \cup Named("CREATE2", replies'[c])
      /\ Backed(c) = backed[c] \cup Named("memfd", replies[c])
      /\ Backed(c)' = backed'[c] \cup Named("memfd", replies'[c])
  BY OwnedAre
<1>7. \A op : Named(op, << >>) = {}
  BY DEF Named
<1> DEFINE Kept == /\ RepliesMatch(c)' /\ Live(c)' = Live(c) /\ Backed(c)' = Backed(c)
                   /\ held'[c] \subseteq Rsc /\ backed'[c] \subseteq Rsc
<1>8. Kept
  <2>1. ASSUME NEW op \in Queries \cup {"BUSY_WAIT"},
               replies[c] = <<Cmd(op, 0, FALSE)>>, owed[c] = <<op>>
        PROVE  Kept
    <3>1. PICK k : k = Cmd(op, 0, FALSE)
      OBVIOUS
    <3>2. k.op = op /\ op # "CREATE2" /\ op # "memfd"
      BY <3>1, VtestAssumption DEF Cmd
    <3>3. replies[c] = <<k>> /\ n = k /\ Tail(<<k>>) = << >> /\ Tail(<<op>>) = << >>
      BY <1>3, <2>1, <3>1
    <3>4. /\ replies'[c] = << >> /\ owed'[c] = << >>
          /\ held'[c] = held[c] /\ backed'[c] = backed[c]
      BY <1>4, <2>1, <3>2, <3>3
    <3>5. Named("CREATE2", <<k>>) = {} /\ Named("memfd", <<k>>) = {}
      BY <3>2, NamedOther
    <3>6. Live(c)' = Live(c) /\ Backed(c)' = Backed(c)
      BY <1>6, <1>7, <3>3, <3>4, <3>5
    <3> QED BY <1>2, <3>4, <3>6 DEF RepliesMatch
  <2>2. ASSUME NEW r \in Rsc,
               replies[c] = <<Cmd("CREATE2", r, FALSE)>>, owed[c] = <<"CREATE2">>
        PROVE  Kept
    <3>1. PICK k : k = Cmd("CREATE2", r, FALSE)
      OBVIOUS
    <3>2. k.op = "CREATE2" /\ k.rsc = r
      BY <3>1 DEF Cmd
    <3>3. replies[c] = <<k>> /\ n = k /\ Tail(<<k>>) = << >> /\ Tail(<<"CREATE2">>) = << >>
      BY <1>3, <2>2, <3>1
    <3>4. /\ replies'[c] = << >> /\ owed'[c] = << >>
          /\ held'[c] = held[c] \cup {r} /\ backed'[c] = backed[c]
      BY <1>4, <2>2, <3>2, <3>3
    <3>5. Named("CREATE2", <<k>>) = {r} /\ Named("memfd", <<k>>) = {}
      BY <3>2 DEF Named
    <3>6. Live(c)' = Live(c) /\ Backed(c)' = Backed(c)
      BY <1>6, <1>7, <3>3, <3>4, <3>5
    <3> QED BY <1>2, <3>4, <3>6 DEF RepliesMatch
  <2>3. ASSUME NEW r \in Rsc, owed[c] = <<"CREATE2", "memfd">>,
               replies[c] = <<Cmd("CREATE2", r, TRUE), Cmd("memfd", r, TRUE)>>
        PROVE  Kept
    <3>1. PICK k, l : k = Cmd("CREATE2", r, TRUE) /\ l = Cmd("memfd", r, TRUE)
      OBVIOUS
    <3>2. k.op = "CREATE2" /\ k.rsc = r /\ l.op = "memfd" /\ l.rsc = r
      BY <3>1 DEF Cmd
    <3>3. /\ replies[c] = <<k, l>> /\ n = k /\ Tail(<<k, l>>) = <<l>>
          /\ Tail(<<"CREATE2", "memfd">>) = <<"memfd">>
      BY <1>3, <2>3, <3>1, PairFacts
    <3>4. /\ replies'[c] = <<l>> /\ owed'[c] = <<"memfd">>
          /\ held'[c] = held[c] \cup {r} /\ backed'[c] = backed[c]
      BY <1>4, <2>3, <3>2, <3>3
    <3>5. /\ Named("CREATE2", <<k, l>>) = {r} /\ Named("memfd", <<k, l>>) = {r}
          /\ Named("CREATE2", <<l>>) = {} /\ Named("memfd", <<l>>) = {r}
      <4>1. l.op # "CREATE2" /\ k.op # "memfd"
        BY <3>2
      <4>2. /\ Named("CREATE2", <<l>>) = {}
            /\ Named("CREATE2", <<k, l>>) = IF k.op = "CREATE2" THEN {k.rsc} ELSE {}
        BY <4>1, NamedInPair
      <4>3. /\ Named("memfd", <<l>>) = IF l.op = "memfd" THEN {l.rsc} ELSE {}
            /\ Named("memfd", <<k, l>>) = IF l.op = "memfd" THEN {l.rsc} ELSE {}
        BY <4>1, NamedInPair
      <4> QED BY <3>2, <4>2, <4>3
    <3>6. Live(c)' = Live(c) /\ Backed(c)' = Backed(c)
      BY <1>6, <3>3, <3>4, <3>5
    <3> QED BY <1>2, <3>1, <3>4, <3>6 DEF RepliesMatch
  <2>4. ASSUME NEW r \in held[c], owed[c] = <<"memfd">>,
               replies[c] = <<Cmd("memfd", r, TRUE)>>
        PROVE  Kept
    <3>1. PICK k : k = Cmd("memfd", r, TRUE)
      OBVIOUS
    <3>2. k.op = "memfd" /\ k.rsc = r /\ r \in Rsc
      BY <1>2, <3>1 DEF Cmd
    <3>3. replies[c] = <<k>> /\ n = k /\ Tail(<<k>>) = << >> /\ Tail(<<"memfd">>) = << >>
      BY <1>3, <2>4, <3>1
    <3>4. /\ replies'[c] = << >> /\ owed'[c] = << >>
          /\ held'[c] = held[c] /\ backed'[c] = backed[c] \cup {r}
      BY <1>4, <2>4, <3>2, <3>3
    <3>5. Named("CREATE2", <<k>>) = {} /\ Named("memfd", <<k>>) = {r}
      BY <3>2 DEF Named
    <3>6. Live(c)' = Live(c) /\ Backed(c)' = Backed(c)
      BY <1>6, <1>7, <3>3, <3>4, <3>5
    <3> QED BY <1>2, <3>2, <3>4, <3>6 DEF RepliesMatch
  <2> HIDE DEF Kept
  <2>5. RepliesMatch(c)
    BY <1>1 DEF Done
  <2> QED BY <2>1, <2>2, <2>3, <2>4, <2>5 DEF RepliesMatch
<1>9. held' \in [Client -> SUBSET Rsc] /\ backed' \in [Client -> SUBSET Rsc]
  BY <1>2, <1>4, <1>8
<1>10. KindsOK'
  BY <1>4, <1>9 DEF VtestInv, KindsOK, infoVars, rscVars
<1>11. LoopOK'
  BY DEF VtestInv, LoopOK, infoVars, loopVars
<1>12. Done(c)'
  BY <1>1, <1>5, <1>8 DEF Done, Handling
<1>13. Leaving(c) = {} /\ Leaving(c)' = {}
  BY <1>1, <1>11, <1>12, DoneLeaving, DoneLeavingNext DEF VtestInv
<1> QED BY <1>4, <1>5, <1>8, <1>10, <1>11, <1>12, <1>13, OneClient DEF ExchangeOK

-----------------------------------------------------------------------------
(* An id is given.                                                         *)

\* The id that is given is nobody's: it is first in the free list, or new.
LEMMA FreshId ==
  ASSUME VtestInv, NEW r \in Rsc,
         \/ /\ free_rsc # << >> /\ r = Head(free_rsc)
            /\ free_rsc' = Tail(free_rsc) /\ rscs_size' = rscs_size
         \/ /\ free_rsc = << >> /\ rscs_size < R /\ r = rscs_size + 1
            /\ rscs_size' = r /\ free_rsc' = free_rsc
  PROVE  /\ \A d \in Client : r \notin Live(d) \cup Leaving(d)
         /\ rscs_size' \in 0..R /\ rscs_size <= rscs_size' /\ r \in 1..rscs_size'
         /\ free_rsc' \in Seq(1..rscs_size')
         /\ \A i \in DOMAIN free_rsc' :
              /\ free_rsc'[i] # r
              /\ \A j \in DOMAIN free_rsc' : i # j => free_rsc'[i] # free_rsc'[j]
              /\ \A d \in Client : free_rsc'[i] \notin Live(d) \cup Leaving(d)
<1>1. /\ free_rsc \in Seq(1..rscs_size) /\ rscs_size \in 0..R /\ R \in Nat
      /\ \A d \in Client : Live(d) \cup Leaving(d) \subseteq 1..rscs_size
      /\ \A i \in DOMAIN free_rsc :
           /\ \A j \in DOMAIN free_rsc : i # j => free_rsc[i] # free_rsc[j]
           /\ \A d \in Client : free_rsc[i] \notin Live(d) \cup Leaving(d)
  BY VtestAssumption DEF VtestInv, KindsOK, IdsOK, IdsApart
<1>2. CASE free_rsc # << >>
  <2>1. r = Head(free_rsc) /\ free_rsc' = Tail(free_rsc) /\ rscs_size' = rscs_size
    BY <1>2
  <2>2. /\ DOMAIN free_rsc = 1..Len(free_rsc) /\ Len(free_rsc) \in Nat \ {0}
        /\ r = free_rsc[1] /\ 1 \in DOMAIN free_rsc /\ r \in 1..rscs_size
    BY <1>1, <1>2, <2>1
  <2>3. /\ free_rsc' \in Seq(1..rscs_size) /\ DOMAIN free_rsc' = 1..Len(free_rsc) - 1
        /\ \A i \in 1..Len(free_rsc) - 1 : free_rsc'[i] = free_rsc[i+1]
    BY <1>1, <1>2, <2>1
  <2>4. \A i \in DOMAIN free_rsc' : i + 1 \in DOMAIN free_rsc /\ i + 1 # 1
    BY <2>2, <2>3
  <2>5. ASSUME NEW i \in DOMAIN free_rsc'
        PROVE  /\ free_rsc'[i] # r
               /\ \A j \in DOMAIN free_rsc' : i # j => free_rsc'[i] # free_rsc'[j]
               /\ \A d \in Client : free_rsc'[i] \notin Live(d) \cup Leaving(d)
    <3>1. free_rsc'[i] = free_rsc[i+1] /\ i + 1 \in DOMAIN free_rsc /\ i + 1 # 1
      BY <2>3, <2>4
    <3>2. free_rsc'[i] # r
      BY <1>1, <2>2, <3>1
    <3>3. ASSUME NEW j \in DOMAIN free_rsc', i # j PROVE free_rsc'[i] # free_rsc'[j]
      <4>1. free_rsc'[j] = free_rsc[j+1] /\ j + 1 \in DOMAIN free_rsc /\ i + 1 # j + 1
        BY <2>3, <2>4, <3>3
      <4> QED BY <1>1, <3>1, <4>1
    <3> QED BY <1>1, <3>1, <3>2, <3>3
  <2>6. \A d \in Client : r \notin Live(d) \cup Leaving(d)
    BY <1>1, <2>2
  <2>7. rscs_size' \in 0..R /\ rscs_size <= rscs_size' /\ r \in 1..rscs_size'
    <3>1. rscs_size \in 0..R /\ r \in 1..rscs_size /\ rscs_size' = rscs_size
      BY <1>1, <2>1, <2>2
    <3>2. rscs_size <= rscs_size
      BY <1>1
    <3> QED BY <3>1, <3>2
  <2>8. free_rsc' \in Seq(1..rscs_size')
    BY <2>1, <2>3
  <2> QED BY <2>5, <2>6, <2>7, <2>8
<1>3. CASE free_rsc = << >>
  <2>1. /\ rscs_size < R /\ r = rscs_size + 1 /\ rscs_size' = r /\ free_rsc' = << >>
    BY <1>3
  <2>2. r \notin 1..rscs_size /\ rscs_size' \in 0..R /\ r \in 1..rscs_size'
        /\ rscs_size <= rscs_size'
    BY <1>1, <2>1
  <2>3. DOMAIN free_rsc' = {} /\ free_rsc' \in Seq(1..rscs_size')
    BY <2>1
  <2> QED BY <1>1, <2>2, <2>3
<1> QED BY <1>2, <1>3

LEMMA Create2Step ==
  ASSUME VtestInv, resource_create2
  PROVE  VtestInv'
<1> USE DEF resource_create2, init_context
<1>1. PICK c, m : c = cur /\ m = command
  OBVIOUS
<1>2. /\ c \in Client /\ m \in Message /\ BodySent(c, m) /\ replies[c] = << >>
      /\ owed[c] = RepliesOf(m.op, m.flag) /\ sending[c] = NoCmd
      /\ wire'[c] = << >> /\ DOMAIN wire' = Client
      /\ \A d \in Client \ {c} : wire'[d] = wire[d]
  BY <1>1, BodyFacts
<1>3. m.op = "CREATE2" /\ m.op \notin Queries \cup {"BUSY_WAIT"} /\ m.flag \in BOOLEAN
  BY <1>1, <1>2, VtestAssumption DEF Message
<1>4. PICK r, k, l :
        /\ r \in Rsc /\ k = Cmd("CREATE2", r, m.flag) /\ l = Cmd("memfd", r, TRUE)
        /\ \/ /\ free_rsc # << >> /\ r = Head(free_rsc)
              /\ free_rsc' = Tail(free_rsc) /\ rscs_size' = rscs_size
           \/ /\ free_rsc = << >> /\ rscs_size < R /\ r = rscs_size + 1
              /\ rscs_size' = r /\ free_rsc' = free_rsc
        /\ IF m.flag
           THEN \E a \in Addr \ mmapped :
                  /\ mmapped' = mmapped \cup {a} /\ dma' = dma \cup {a}
                  /\ buf' = [buf EXCEPT ![r] = a]
                  /\ Reply(<<k, l>>)
           ELSE /\ Reply(<<k>>)
                /\ UNCHANGED <<mmapped, dma, buf>>
  BY <1>1, <1>2, <1>3
<1>5. k.op = "CREATE2" /\ k.rsc = r /\ l.op = "memfd" /\ l.rsc = r
  BY <1>4 DEF Cmd
<1>6. /\ \A d \in Client : r \notin Live(d) \cup Leaving(d)
      /\ rscs_size' \in 0..R /\ rscs_size <= rscs_size' /\ r \in 1..rscs_size'
      /\ free_rsc' \in Seq(1..rscs_size')
      /\ \A i \in DOMAIN free_rsc' :
           /\ free_rsc'[i] # r
           /\ \A j \in DOMAIN free_rsc' : i # j => free_rsc'[i] # free_rsc'[j]
           /\ \A d \in Client : free_rsc'[i] \notin Live(d) \cup Leaving(d)
  BY <1>4, FreshId
<1>7. /\ DOMAIN replies = Client /\ mmapped \subseteq Addr /\ dma \subseteq mmapped
      /\ buf \in [Rsc -> mmapped \cup {None}] /\ rscs_size \in Nat
      /\ fences # Fences + 1
  BY <1>1, <1>2, VtestAssumption DEF VtestInv, KindsOK, LoopOK
<1>8. /\ replies'[c] = IF m.flag THEN <<k, l>> ELSE <<k>>
      /\ \A d \in Client \ {c} : replies'[d] = replies[d]
      /\ DOMAIN replies' = Client
  <2>1. PICK s : /\ s = (IF m.flag THEN <<k, l>> ELSE <<k>>)
                 /\ replies' = [replies EXCEPT ![c] = replies[c] \o s]
    BY <1>1, <1>4, <1>7 DEF Reply
  <2>2. s \in Seq({k, l})
    <3>1. <<k, l>> \in Seq({k, l}) /\ <<k>> \in Seq({k, l})
      OBVIOUS
    <3> QED BY <2>1, <3>1
  <2>3. replies[c] \o s = s
    BY <1>2, <2>2, ConcatEmptySeq
  <2> QED BY <1>2, <1>7, <2>1, <2>3
<1>9. UNCHANGED <<sending, owed, held, backed, named, open, closed, fences>>
  BY DEF clientVars
<1>10. \/ /\ m.flag
          /\ \E a \in Addr \ mmapped : /\ mmapped' = mmapped \cup {a}
                                       /\ dma' = dma \cup {a}
                                       /\ buf' = [buf EXCEPT ![r] = a]
       \/ ~ m.flag /\ UNCHANGED <<mmapped, dma, buf>>
  BY <1>4
<1>11. /\ mmapped' \subseteq Addr /\ dma' \subseteq mmapped' /\ dma \subseteq dma'
       /\ buf' \in [Rsc -> mmapped' \cup {None}]
       /\ \A q \in Rsc \ {r} : buf'[q] = buf[q]
       /\ m.flag => buf'[r] \in dma' \ mmapped
       /\ ~ m.flag => buf' = buf
  <2>1. CASE m.flag
    <3>1. PICK a \in Addr \ mmapped : /\ mmapped' = mmapped \cup {a}
                                      /\ dma' = dma \cup {a}
                                      /\ buf' = [buf EXCEPT ![r] = a]
      BY <1>10, <2>1
    <3>2. /\ mmapped' \subseteq Addr /\ dma' \subseteq mmapped' /\ dma \subseteq dma'
          /\ a \in dma' \ mmapped
      BY <1>7, <3>1
    <3>3. buf' \in [Rsc -> mmapped' \cup {None}]
      BY <1>7, <3>1
    <3>4. buf'[r] = a /\ \A q \in Rsc \ {r} : buf'[q] = buf[q]
      BY <1>4, <1>7, <3>1
    <3> QED BY <2>1, <3>2, <3>3, <3>4
  <2>2. CASE ~ m.flag
    BY <1>7, <1>10, <2>2
  <2> QED BY <2>1, <2>2
<1>12. KindsOK'
  <2>1. ctx_id' = ctx_id \cup {c} /\ c \in named
    BY <1>1 DEF VtestInv, LoopOK
  <2> QED BY <1>2, <1>6, <1>8, <1>9, <1>11, <2>1 DEF VtestInv, KindsOK
<1>13. RepliesMatch(c)'
  <2>1. owed'[c] = IF m.flag THEN <<"CREATE2", "memfd">> ELSE <<"CREATE2">>
    BY <1>2, <1>3, <1>9, RepliesOfValue
  <2>2. CASE m.flag
    <3>1. /\ replies'[c] = <<Cmd("CREATE2", r, TRUE), Cmd("memfd", r, TRUE)>>
          /\ owed'[c] = <<"CREATE2", "memfd">>
      BY <1>3, <1>4, <1>8, <2>1, <2>2
    <3> QED BY <1>4, <3>1 DEF RepliesMatch
  <2>3. CASE ~ m.flag
    <3>1. replies'[c] = <<Cmd("CREATE2", r, FALSE)>> /\ owed'[c] = <<"CREATE2">>
      BY <1>3, <1>4, <1>8, <2>1, <2>3
    <3> QED BY <1>4, <3>1 DEF RepliesMatch
  <2> QED BY <2>2, <2>3
<1>14. /\ ExchangeOK(c)' /\ LoopOK' /\ Leaving(c)' = {}
       /\ \A d \in Client \ {c} : ~ (cur' = d) /\ ~ (cur = d)
  <2>1. Idle /\ sending'[c] = NoCmd /\ fences' = fences
    BY <1>2, <1>9
  <2> QED BY <1>1, <1>2, <1>7, <1>13, <2>1, IdleFacts
<1>15. /\ Live(c)' = Live(c) \cup {r} /\ Leaving(c) = {}
       /\ Backed(c)' = Backed(c) \cup (IF m.flag THEN {r} ELSE {})
  <2>1. l.op # "CREATE2" /\ k.op # "memfd"
    BY <1>5
  <2>2. /\ Named("CREATE2", <<k, l>>) = IF k.op = "CREATE2" THEN {k.rsc} ELSE {}
        /\ Named("CREATE2", <<k>>) = IF k.op = "CREATE2" THEN {k.rsc} ELSE {}
    BY <2>1, NamedInPair
  <2>3. /\ Named("memfd", <<k, l>>) = IF l.op = "memfd" THEN {l.rsc} ELSE {}
        /\ Named("memfd", <<k>>) = {}
    BY <2>1, NamedInPair
  <2>4. /\ Live(c) = held[c] \cup Named("CREATE2", replies[c])
        /\ Live(c)' = held'[c] \cup Named("CREATE2", replies'[c])
        /\ Backed(c) = backed[c] \cup Named("memfd", replies[c])
        /\ Backed(c)' = backed'[c] \cup Named("memfd", replies'[c])
    BY OwnedAre
  <2>5. \A op : Named(op, << >>) = {}
    BY DEF Named
  <2>6. Leaving(c) = {}
    BY <1>2, <1>3, AsksLeaving DEF Asks, VtestInv
  <2> QED BY <1>2, <1>5, <1>8, <1>9, <2>2, <2>3, <2>4, <2>5, <2>6
<1>16. ASSUME NEW d \in Client \ {c}
       PROVE  /\ ExchangeOK(d)' /\ Live(d)' = Live(d) /\ Backed(d)' = Backed(d)
              /\ Leaving(d)' = Leaving(d)
  <2>1. /\ replies'[d] = replies[d] /\ wire'[d] = wire[d] /\ ExchangeOK(d) /\ d # c
        /\ ~ (cur' = d) /\ ~ (cur = d)
    BY <1>2, <1>8, <1>14 DEF VtestInv
  <2> QED BY <1>9, <2>1, OthersKeep
<1>17. ASSUME NEW d \in Client
       PROVE  /\ Live(d)' = IF d = c THEN Live(d) \cup {r} ELSE Live(d)
              /\ Backed(d)' = IF d = c /\ m.flag THEN Backed(d) \cup {r} ELSE Backed(d)
              /\ Leaving(d)' = Leaving(d)
  <2>1. CASE d = c
    BY <1>14, <1>15, <2>1
  <2>2. CASE d # c
    BY <1>16, <2>2
  <2> QED BY <2>1, <2>2
<1>18. IdsOK'
  <2>1. ASSUME NEW d \in Client PROVE Live(d)' \cup Leaving(d)' \subseteq 1..rscs_size'
    <3>1. 1..rscs_size \subseteq 1..rscs_size'
      BY <1>6, <1>7
    <3>2. Live(d) \cup Leaving(d) \subseteq 1..rscs_size
      BY DEF VtestInv, IdsOK
    <3> QED BY <1>6, <1>17, <3>1, <3>2
  <2>2. ASSUME NEW d \in Client, NEW e \in Client, d # e
        PROVE  (Live(d)' \cup Leaving(d)') \cap (Live(e)' \cup Leaving(e)') = {}
    <3>1. (Live(d) \cup Leaving(d)) \cap (Live(e) \cup Leaving(e)) = {}
      BY <2>2 DEF VtestInv, IdsOK, IdsApart
    <3> QED BY <1>6, <1>17, <2>2, <3>1
  <2>3. ASSUME NEW d \in Client PROVE Live(d)' \cap Leaving(d)' = {}
    <3>1. Live(d) \cap Leaving(d) = {}
      BY DEF VtestInv, IdsOK, IdsApart
    <3> QED BY <1>6, <1>17, <3>1
  <2>4. ASSUME NEW i \in DOMAIN free_rsc', NEW d \in Client
        PROVE  free_rsc'[i] \notin Live(d)' \cup Leaving(d)'
    BY <1>6, <1>17
  <2> QED BY <1>6, <2>1, <2>2, <2>3, <2>4 DEF IdsOK, IdsApart
<1>19. MemoryOK'
  <2>1. ASSUME NEW p \in Rsc, NEW q \in Rsc, buf'[p] = buf'[q], buf'[q] # None
        PROVE  q = p
    <3>1. \A x \in Rsc : buf[x] \in mmapped \cup {None}
      BY <1>7
    <3>2. CASE m.flag
      <4>1. buf'[r] \notin mmapped /\ buf'[r] # None
        BY <1>7, <1>11, <3>2, VtestAssumption
      <4>2. CASE p = r \/ q = r
        BY <1>11, <2>1, <3>1, <4>1, <4>2
      <4>3. CASE p # r /\ q # r
        BY <1>11, <2>1, <4>3 DEF VtestInv, MemoryOK
      <4> QED BY <4>2, <4>3
    <3>3. CASE ~ m.flag
      BY <1>11, <2>1, <3>3 DEF VtestInv, MemoryOK
    <3> QED BY <3>2, <3>3
  <2>2. ASSUME NEW d \in Client, NEW q \in Backed(d)'
        PROVE  buf'[q] \in dma' /\ q \in Live(d)'
    <3>1. CASE q \in Backed(d)
      <4>1. buf[q] \in dma /\ q \in Live(d) /\ q # r
        BY <1>6, <3>1 DEF VtestInv, MemoryOK
      <4>2. q \in Rsc
        BY <1>7, <4>1, VtestAssumption DEF VtestInv, IdsOK, KindsOK, Rsc
      <4> QED BY <1>11, <1>17, <4>1, <4>2
    <3>2. CASE q \notin Backed(d)
      BY <1>11, <1>17, <2>2, <3>2
    <3> QED BY <3>1, <3>2
  <2> QED BY <2>1, <2>2 DEF MemoryOK
<1> QED BY <1>12, <1>14, <1>16, <1>18, <1>19 DEF VtestInv

-----------------------------------------------------------------------------
(* The theorems.                                                           *)

LEMMA VtestInvStep == VtestInv /\ [Next]_vars => VtestInv'
<1> SUFFICES ASSUME VtestInv, [Next]_vars PROVE VtestInv'
  OBVIOUS
<1>1. CASE Command
  <2>1. CASE create_renderer
    BY <2>1, CreateRendererStep
  <2>2. CASE get_caps \/ get_caps2 \/ ping \/ protocol_version
    <3>1. PICK op \in {"GET_CAPS", "GET_CAPS2", "PING", "PROTOCOL_VERSION"} : Replies(op)
      BY <2>2 DEF get_caps, get_caps2, ping, protocol_version
    <3> QED BY <3>1, RepliesStep
  <2>3. CASE resource_unref
    BY <2>3, UnrefStep
  <2>4. CASE submit_cmd
    BY <2>4, SubmitStep
  <2>5. CASE submit_cmd_End
    BY <2>5, SubmitEndStep
  <2>6. CASE resource_busy_wait
    BY <2>6, BusyWaitStep
  <2>7. CASE resource_busy_wait_End
    BY <2>7, BusyWaitEndStep
  <2>8. CASE resource_create2
    BY <2>8, Create2Step
  <2>9. CASE transfer_get2
    BY <2>9, TransferGetStep
  <2> QED BY <1>1, <2>1, <2>2, <2>3, <2>4, <2>5, <2>6, <2>7, <2>8, <2>9 DEF Command
<1>2. CASE GpuCompletes \/ Flush
  BY <1>2, GpuStep
<1>3. ASSUME NEW c \in Client,
             \/ handle_listen_events(c) \/ handle_virgl_events(c) \/ recv_fails(c)
             \/ ClientUses(c) \/ \E flag \in BOOLEAN : ClientCreates(c, flag)
             \/ \E r \in Rsc : ClientUnrefs(c, r)
             \/ ClientSendsBody(c) \/ ClientReceives(c) \/ ClientExits(c)
      PROVE  VtestInv'
  <2>1. CASE handle_listen_events(c)
    BY <2>1, ListenStep
  <2>2. CASE handle_virgl_events(c)
    BY <2>2, HeaderStep
  <2>3. CASE recv_fails(c)
    BY <2>3, RecvFailsStep
  <2>4. CASE ClientUses(c)
    BY <2>4, UsesStep
  <2>5. CASE \E flag \in BOOLEAN : ClientCreates(c, flag)
    BY <2>5, CreatesStep
  <2>6. CASE \E r \in Rsc : ClientUnrefs(c, r)
    BY <2>6, UnrefsStep
  <2>7. CASE ClientSendsBody(c)
    BY <2>7, SendsBodyStep
  <2>8. CASE ClientReceives(c)
    BY <2>8, ReceivesStep
  <2>9. CASE ClientExits(c)
    BY <2>9, ExitsStep
  <2> QED BY <1>3, <2>1, <2>2, <2>3, <2>4, <2>5, <2>6, <2>7, <2>8, <2>9
<1>4. CASE UNCHANGED vars
  <2> USE <1>4 DEF vars, infoVars, rscVars, loopVars, connVars, clientVars
  <2>1. KindsOK' /\ LoopOK'
    BY DEF VtestInv, KindsOK, LoopOK
  <2>2. /\ UNCHANGED <<sending, wire, owed, replies, held, backed, cur, pc, command>>
        /\ UNCHANGED <<rscs_size, free_rsc, buf, dma>>
    OBVIOUS
  <2> QED BY <2>1, <2>2, OneClient, VtestAssumption
<1> QED BY <1>1, <1>2, <1>3, <1>4 DEF Next

\* What the loop, the clients and the connections between them hold of each
\* command and each id agrees at every step, for virgl-virtio.c and for
\* virgl-nested-virtio.c with any number of programs.
THEOREM VtestInvariant == Spec => []VtestInv
BY InitVtest, VtestInvStep, PTL DEF Spec

\* Every program gets the replies to the command it waits for, and no others,
\* in the order it reads them (the send calls of handle_virgl_events).
THEOREM RepliesAsOwedAlways == Spec => []RepliesAsOwed
<1>1. VtestInv => RepliesAsOwed
  <2> SUFFICES ASSUME VtestInv PROVE RepliesAsOwed
    OBVIOUS
  <2>1. VtestTypeOK
    <3>1. rscs_size \in 0..R /\ Seq(1..rscs_size) \subseteq Seq(Rsc)
      BY VtestAssumption DEF VtestInv, KindsOK, Rsc
    <3>2. buf \in [Rsc -> Addr \cup {None}]
      BY DEF VtestInv, KindsOK
    <3> QED BY <3>1, <3>2 DEF VtestInv, KindsOK, LoopOK, VtestTypeOK
  <2>2. ASSUME NEW c \in Client, replies[c] # << >>
        PROVE  /\ Len(replies[c]) = Len(owed[c])
               /\ \A i \in DOMAIN replies[c] : replies[c][i].op = owed[c][i]
    <3>1. RepliesMatch(c)
      BY <2>2 DEF VtestInv, ExchangeOK, HeaderSent, BodySent, Done
    <3>2. ASSUME NEW m, NEW op, replies[c] = <<m>>, owed[c] = <<op>>, m.op = op
          PROVE  /\ Len(replies[c]) = Len(owed[c])
                 /\ \A i \in DOMAIN replies[c] : replies[c][i].op = owed[c][i]
      BY <3>2
    <3>3. ASSUME NEW m, NEW n, replies[c] = <<m, n>>, owed[c] = <<"CREATE2", "memfd">>,
                 m.op = "CREATE2", n.op = "memfd"
          PROVE  /\ Len(replies[c]) = Len(owed[c])
                 /\ \A i \in DOMAIN replies[c] : replies[c][i].op = owed[c][i]
      BY <3>3
    <3>4. \A op, r, flag : Cmd(op, r, flag).op = op
      BY DEF Cmd
    <3>5. \/ \E m, op : replies[c] = <<m>> /\ owed[c] = <<op>> /\ m.op = op
          \/ \E m, n : /\ replies[c] = <<m, n>> /\ owed[c] = <<"CREATE2", "memfd">>
                       /\ m.op = "CREATE2" /\ n.op = "memfd"
      <4>1. CASE \E op \in Queries \cup {"BUSY_WAIT"} :
                   replies[c] = <<Cmd(op, 0, FALSE)>> /\ owed[c] = <<op>>
        <5>1. PICK op : replies[c] = <<Cmd(op, 0, FALSE)>> /\ owed[c] = <<op>>
          BY <4>1
        <5>2. PICK m : m = Cmd(op, 0, FALSE)
          OBVIOUS
        <5>3. replies[c] = <<m>> /\ m.op = op
          BY <3>4, <5>1, <5>2
        <5> QED BY <5>1, <5>3
      <4>2. CASE \E r \in Rsc :
                   replies[c] = <<Cmd("CREATE2", r, FALSE)>> /\ owed[c] = <<"CREATE2">>
        <5>1. PICK r : replies[c] = <<Cmd("CREATE2", r, FALSE)>> /\ owed[c] = <<"CREATE2">>
          BY <4>2
        <5>2. PICK m : m = Cmd("CREATE2", r, FALSE)
          OBVIOUS
        <5>3. replies[c] = <<m>> /\ m.op = "CREATE2"
          BY <3>4, <5>1, <5>2
        <5> QED BY <5>1, <5>3
      <4>3. CASE \E r \in Rsc :
                   /\ replies[c] = <<Cmd("CREATE2", r, TRUE), Cmd("memfd", r, TRUE)>>
                   /\ owed[c] = <<"CREATE2", "memfd">>
        <5>1. PICK r : /\ replies[c] = <<Cmd("CREATE2", r, TRUE), Cmd("memfd", r, TRUE)>>
                       /\ owed[c] = <<"CREATE2", "memfd">>
          BY <4>3
        <5>2. PICK m, n : m = Cmd("CREATE2", r, TRUE) /\ n = Cmd("memfd", r, TRUE)
          OBVIOUS
        <5>3. replies[c] = <<m, n>> /\ m.op = "CREATE2" /\ n.op = "memfd"
          BY <3>4, <5>1, <5>2
        <5> QED BY <5>1, <5>3
      <4>4. CASE \E r \in held[c] :
                   replies[c] = <<Cmd("memfd", r, TRUE)>> /\ owed[c] = <<"memfd">>
        <5>1. PICK r : replies[c] = <<Cmd("memfd", r, TRUE)>> /\ owed[c] = <<"memfd">>
          BY <4>4
        <5>2. PICK m : m = Cmd("memfd", r, TRUE)
          OBVIOUS
        <5>3. replies[c] = <<m>> /\ m.op = "memfd"
          BY <3>4, <5>1, <5>2
        <5> QED BY <5>1, <5>3
      <4> QED BY <2>2, <3>1, <4>1, <4>2, <4>3, <4>4 DEF RepliesMatch
    <3> QED BY <3>2, <3>3, <3>5
  <2> QED BY <2>1, <2>2 DEF RepliesAsOwed
<1> QED BY <1>1, VtestInvariant, PTL

\* No two programs share a resource or its memory, and none loses its own, in
\* whatever order resources are made and given back (resource_create2 and
\* resource_unref, with a buf that is never reset).
THEOREM ResourcesApartAlways == Spec => []ResourcesApart
<1>1. VtestInv => ResourcesApart
  <2> SUFFICES ASSUME VtestInv PROVE IdsApart /\ MemoryStays
    BY DEF ResourcesApart
  <2>1. IdsApart
    BY DEF VtestInv, IdsOK
  <2>2. ASSUME NEW c \in Client, NEW r \in backed[c]
        PROVE  /\ buf[r] \in dma
               /\ \A d \in Client : \A q \in backed[d] : buf[q] = buf[r] => q = r
    <3>1. \A d \in Client : backed[d] \subseteq Backed(d) /\ backed[d] \subseteq Rsc
      BY DEF Backed, VtestInv, KindsOK
    <3>2. buf[r] \in dma /\ buf[r] # None
      BY <3>1, VtestAssumption DEF VtestInv, KindsOK, MemoryOK
    <3> QED BY <3>1, <3>2 DEF VtestInv, MemoryOK
  <2> QED BY <2>1, <2>2 DEF MemoryStays
<1> QED BY <1>1, VtestInvariant, PTL

=============================================================================
