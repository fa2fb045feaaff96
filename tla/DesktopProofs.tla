---------------------------- MODULE DesktopProofs ----------------------------
(***************************************************************************)
(* Proofs about three small systems, which share nothing: how a compositor *)
(* gets its client (DisplaySocket), its seat (CompositorSeat, as Seat) and *)
(* the consoles (Console, as Pty).                                         *)
(***************************************************************************)
EXTENDS DisplaySocket, SeatInput, Consoles,
        SequenceTheorems, WellFoundedInduction, TLAPS

CONSTANT Virtio

Pty == INSTANCE Console

-----------------------------------------------------------------------------
(* The socket: the lock file keeps the name with the server that waits     *)
(* under it, for any number of servers and clients.                        *)

\* A server that has removed the name and not bound yet finds it free.
NameIsFree == \A p \in Server : pc[p] = "bind" => name = None

SocketInv == SocketTypeOK /\ NameIsOwn /\ NameIsFree /\ BindSucceeds

USE DEF Steps, Locked

LEMMA InitSocket == Init => SocketInv
<1> SUFFICES ASSUME Init PROVE SocketInv
  OBVIOUS
<1>1. << >> \in Seq(Client)
  OBVIOUS
<1>2. backlog \in [Server -> Seq(Client)]
  BY <1>1 DEF Init
<1> QED
  BY <1>2, SocketAssumption
  DEF Init, SocketInv, SocketTypeOK, NameIsOwn, NameIsFree, BindSucceeds

\* A step inside the lock leaves the other servers outside of it.
LEMMA StepSocket ==
  ASSUME SocketInv, NEW p \in Server, Step(p)
  PROVE  SocketInv'
<1>0. SocketTypeOK /\ NameIsOwn /\ NameIsFree /\ BindSucceeds
  BY DEF SocketInv
<1>1. CASE flock(p)
  BY <1>0, <1>1, SocketAssumption
  DEF flock, Goes, SocketInv, SocketTypeOK, NameIsOwn, NameIsFree, BindSucceeds
<1>2. CASE unlink(p)
  BY <1>0, <1>2, SocketAssumption
  DEF unlink, Goes, SocketInv, SocketTypeOK, NameIsOwn, NameIsFree, BindSucceeds
<1>3. CASE bind(p)
  <2>1. name = None
    BY <1>0, <1>3 DEF bind, NameIsFree
  <2>2. /\ name' = p /\ pc' = [pc EXCEPT ![p] = "listen"]
        /\ UNCHANGED <<lock, backlog, serves, at, deaths, failed>>
    BY <1>3, <2>1 DEF bind
  <2> QED
    BY <1>0, <1>3, <2>1, <2>2, SocketAssumption
    DEF bind, SocketInv, SocketTypeOK, NameIsOwn, NameIsFree, BindSucceeds
<1>4. CASE listen(p)
  BY <1>0, <1>4, SocketAssumption
  DEF listen, Goes, SocketInv, SocketTypeOK, NameIsOwn, NameIsFree, BindSucceeds
<1>5. CASE accept(p)
  <2>1. /\ Head(backlog[p]) \in Client
        /\ Tail(backlog[p]) \in Seq(Client)
    BY <1>0, <1>5 DEF accept, SocketTypeOK
  <2> QED
    BY <1>0, <1>5, <2>1, SocketAssumption
    DEF accept, Goes, SocketInv, SocketTypeOK, NameIsOwn, NameIsFree, BindSucceeds
<1>6. CASE close(p)
  <2>1. at' \in [Client -> Server \cup {None}]
    BY <1>0, <1>6 DEF close, Reset, SocketTypeOK
  <2>2. << >> \in Seq(Client)
    OBVIOUS
  <2> QED
    BY <1>0, <1>6, <2>1, <2>2, SocketAssumption
    DEF close, Reset, Goes, SocketInv, SocketTypeOK, NameIsOwn, NameIsFree,
        BindSucceeds
<1>7. CASE remove(p)
  BY <1>0, <1>7, SocketAssumption
  DEF remove, Goes, SocketInv, SocketTypeOK, NameIsOwn, NameIsFree, BindSucceeds
<1>8. CASE unlock(p)
  BY <1>0, <1>8, SocketAssumption
  DEF unlock, Goes, SocketInv, SocketTypeOK, NameIsOwn, NameIsFree, BindSucceeds
<1> QED
  BY <1>1, <1>2, <1>3, <1>4, <1>5, <1>6, <1>7, <1>8 DEF Step

\* The end of a server gives up the lock and leaves the name.
LEMMA EndSocket ==
  ASSUME SocketInv, NEW p \in Server, Ends(p), deaths' \in Nat, UNCHANGED failed
  PROVE  SocketInv'
<1>1. at' \in [Client -> Server \cup {None}]
  BY DEF Ends, SocketInv, SocketTypeOK
<1>2. << >> \in Seq(Client)
  OBVIOUS
<1>3. SocketTypeOK'
  BY <1>1, <1>2, SocketAssumption DEF Ends, SocketInv, SocketTypeOK
<1>4. (NameIsOwn /\ NameIsFree /\ BindSucceeds)'
  BY SocketAssumption
  DEF Ends, SocketInv, SocketTypeOK, NameIsOwn, NameIsFree, BindSucceeds
<1> QED
  BY <1>3, <1>4 DEF SocketInv

LEMMA ConnectSocket ==
  ASSUME SocketInv, NEW c \in Client, Connect(c)
  PROVE  SocketInv'
<1>1. name \in Server
  BY DEF SocketInv, SocketTypeOK, Connect
<1>2. Append(backlog[name], c) \in Seq(Client)
  BY <1>1 DEF SocketInv, SocketTypeOK
<1> QED
  BY <1>1, <1>2, SocketAssumption
  DEF Connect, SocketInv, SocketTypeOK, NameIsOwn, NameIsFree, BindSucceeds

LEMMA NextSocket == SocketInv /\ [Next]_vars => SocketInv'
<1> SUFFICES ASSUME SocketInv, [Next]_vars PROVE SocketInv'
  OBVIOUS
<1>1. ASSUME NEW p \in Server, Step(p) PROVE SocketInv'
  BY <1>1, StepSocket
<1>2. ASSUME NEW p \in Server, client_destroyed(p) PROVE SocketInv'
  <2>1. Ends(p) /\ deaths' \in Nat /\ UNCHANGED failed
    BY <1>2 DEF client_destroyed, SocketInv, SocketTypeOK
  <2> QED BY <2>1, EndSocket
<1>3. ASSUME NEW p \in Server, Dies(p) PROVE SocketInv'
  <2>1. Ends(p) /\ deaths' \in Nat /\ UNCHANGED failed
    BY <1>3 DEF Dies, SocketInv, SocketTypeOK
  <2> QED BY <2>1, EndSocket
<1>4. ASSUME NEW c \in Client, Connect(c) PROVE SocketInv'
  BY <1>4, ConnectSocket
<1>5. CASE UNCHANGED vars
  BY <1>5 DEF vars, SocketInv, SocketTypeOK, NameIsOwn, NameIsFree, BindSucceeds
<1> QED
  BY <1>1, <1>2, <1>3, <1>4, <1>5 DEF Next

THEOREM SocketInvariant == Spec => []SocketInv
<1> QED
  BY InitSocket, NextSocket, PTL DEF Spec

\* However many servers start, finish and die, the lock is with the one that is
\* between flock and the close of its file, the name is that of the server that
\* waits for a client under it, and no bind fails (main, from flock to
\* close(lock_fd)).
THEOREM SocketStaysSafe == Spec => []SocketSafe
<1>1. SocketInv => SocketSafe
  BY DEF SocketInv, SocketSafe
<1> QED
  BY <1>1, SocketInvariant, PTL

-----------------------------------------------------------------------------
(* The seat: what the client hears of the keyboard and the tablet.         *)

\* Until the client has its window nothing but keymaps is sent, messages go to
\* objects there are, and x and y are where the events taken have left them.
Addressed(m) ==
  /\ seat_surface = 0 => m.op = "keymap"
  /\ m.op \in Seat!KeyboardOps => m.to <= keyboard
  /\ m.op \in Seat!PointerOps => m.to <= pointer

SeatInv ==
  /\ Seat!SeatTypeOK /\ Seat!EnterFirst
  /\ \A i \in DOMAIN sent : Addressed(sent[i])
  /\ \A k \in 1..keyboard : Seat!Told("keymap", k)
  /\ Seat!Delivered("key", "keyboard", "EV_KEY") /\ Seat!Delivered("button", "mouse", "EV_KEY")
  /\ \A d \in Seat!Dev : used[d] # << >> => irq[d] \/ seat_pc = d
  /\ Seat!MotionsTrue
  /\ x = Seat!At(Seat!Number("mouse") - 1, "ABS_X") /\ y = Seat!At(Seat!Number("mouse") - 1, "ABS_Y")

\* The kinds of messages.
LEMMA MessageTypes ==
  ASSUME Seat!SeatAssumption, NEW object \in 1..Objects
  PROVE  /\ \A op \in Seat!KeyboardOps \cup Seat!PointerOps : Seat!Msg(op, object) \in Seat!Message
         /\ \A op \in Seat!KeyboardOps \cup Seat!PointerOps : \A n \in Nat : Seat!MsgOf(op, object, n) \in Seat!Message
         /\ \A spot \in Seat!Position : \A op \in Seat!PointerOps : \A n \in Nat :
              /\ Seat!MsgAt(op, object, spot) \in Seat!Message
              /\ [Seat!MsgAt(op, object, spot) EXCEPT !.of = n] \in Seat!Message
BY DEF Seat!Message, Seat!Msg, Seat!MsgAt, Seat!MsgOf

\* What has been sent stays, and what is sent comes after it.
LEMMA SentGrows ==
  ASSUME sent \in Seq(Seat!Message), NEW more \in Seq(Seat!Message), sent' = sent \o more
  PROVE  /\ sent' \in Seq(Seat!Message) /\ Len(sent) \in Nat
         /\ Len(sent') = Len(sent) + Len(more) /\ Len(more) \in Nat
         /\ DOMAIN sent = 1..Len(sent) /\ DOMAIN sent' = 1..Len(sent')
         /\ \A i \in 1..Len(sent) : sent'[i] = sent[i] /\ sent[i] \in Seat!Message
         /\ \A i \in 1..Len(more) : sent'[Len(sent) + i] = more[i]
BY ConcatProperties, ElementOfSeq, LenProperties

\* The last of some numbers.
LEMMA LeastElement ==
  ASSUME NEW T, T \subseteq Nat, T # {}
  PROVE  \E n \in T : \A m \in T : n <= m
<1> DEFINE R == OpToRel(<, Nat)
<1>1. IsWellFoundedOn(R, Nat)
  BY NatLessThanWellFounded
<1>2. \A m, n \in Nat : m < n => <<m, n>> \in R
  BY DEF OpToRel
<1> HIDE DEF R
<1>3. PICK n \in T : \A m \in T : ~ (<<m, n>> \in R)
  BY <1>1, WFMin
<1>4. \A m \in T : ~ (m < n)
  BY <1>2, <1>3
<1>5. \A m \in T : n <= m
  BY <1>4
<1> QED BY <1>5

LEMMA Greatest ==
  ASSUME NEW n \in Nat, NEW S \in SUBSET (1..n), S # {}
  PROVE  \E i \in S : \A j \in S : j <= i
<1> DEFINE T == {n - i : i \in S}
<1>1. T \subseteq Nat /\ T # {}
  <2>1. \A i \in S : n - i \in Nat
    OBVIOUS
  <2> QED BY <2>1
<1>2. PICK t \in T : \A u \in T : t <= u
  BY <1>1, LeastElement
<1>3. PICK i \in S : t = n - i
  BY <1>2
<1>4. ASSUME NEW j \in S PROVE j <= i
  <2>1. n - j \in T
    OBVIOUS
  <2> QED BY <1>2, <1>3, <2>1
<1> QED BY <1>4

\* What the tablet's position was after n events does not change as it has more.
LEMMA AtKept ==
  ASSUME history["mouse"] \in Seq(Seat!Event), NEW e, NEW axis,
         history'["mouse"] = history["mouse"] \/ history'["mouse"] = Append(history["mouse"], e),
         NEW n \in 0..Len(history["mouse"])
  PROVE  Seat!At(n, axis)' = Seat!At(n, axis)
<1>1. /\ Len(history["mouse"]) \in Nat
      /\ \A i \in 1..n : history'["mouse"][i] = history["mouse"][i]
  BY LenProperties, AppendProperties
<1>2. Seat!Moves(n, axis)' = Seat!Moves(n, axis) /\ Seat!Moves(n, axis) \in SUBSET (1..n)
  BY <1>1 DEF Seat!Moves
<1>3. CASE Seat!Moves(n, axis) = {}
  BY <1>2, <1>3 DEF Seat!At
<1>4. CASE Seat!Moves(n, axis) # {}
  <2> DEFINE last == CHOOSE i \in Seat!Moves(n, axis) : \A j \in Seat!Moves(n, axis) : j <= i
  <2>1. last \in 1..n
    <3>1. n \in Nat
      BY <1>1
    <3>2. \E i \in Seat!Moves(n, axis) : \A j \in Seat!Moves(n, axis) : j <= i
      BY <1>2, <1>4, <3>1, Greatest
    <3>3. last \in Seat!Moves(n, axis)
      BY <3>2
    <3> QED BY <1>2, <3>3
  <2>2. history'["mouse"][last] = history["mouse"][last]
    BY <1>1, <2>1
  <2> HIDE DEF last
  <2>3. Seat!At(n, axis) = history["mouse"][last].value /\ Seat!At(n, axis)' = history'["mouse"][last].value
    BY <1>2, <1>4 DEF Seat!At, last
  <2> QED BY <2>2, <2>3
<1> QED BY <1>3, <1>4

\* The position after one more event.
LEMMA AtNext ==
  ASSUME history["mouse"] \in Seq(Seat!Event), NEW n \in Nat, n < Len(history["mouse"]), NEW axis
  PROVE  Seat!At(n + 1, axis) = IF history["mouse"][n+1].type = axis
                           THEN history["mouse"][n+1].value ELSE Seat!At(n, axis)
<1>1. CASE history["mouse"][n+1].type = axis
  <2>1. n + 1 \in Seat!Moves(n + 1, axis) /\ \A j \in Seat!Moves(n + 1, axis) : j <= n + 1
    BY <1>1 DEF Seat!Moves
  <2>2. \A i \in Seat!Moves(n + 1, axis) : (\A j \in Seat!Moves(n + 1, axis) : j <= i) => i = n + 1
    BY <2>1 DEF Seat!Moves
  <2>3. (CHOOSE i \in Seat!Moves(n + 1, axis) : \A j \in Seat!Moves(n + 1, axis) : j <= i) = n + 1
    BY <2>1, <2>2
  <2> QED BY <1>1, <2>1, <2>3 DEF Seat!At
<1>2. CASE history["mouse"][n+1].type # axis
  <2>1. 1..(n+1) = 1..n \cup {n+1}
    OBVIOUS
  <2>2. Seat!Moves(n + 1, axis) = Seat!Moves(n, axis)
    BY <1>2, <2>1 DEF Seat!Moves
  <2> DEFINE Value(S) == IF S = {} THEN 0
                         ELSE history["mouse"][CHOOSE i \in S : \A j \in S : j <= i].value
  <2>3. \A m : Seat!At(m, axis) = Value(Seat!Moves(m, axis))
    BY DEF Seat!At
  <2> HIDE DEF Value
  <2>4. Seat!At(n + 1, axis) = Seat!At(n, axis)
    BY <2>2, <2>3
  <2> QED BY <1>2, <2>4
<1> QED BY <1>1, <1>2

-----------------------------------------------------------------------------
\* What of the first part of the invariant is about each message.
LEMMA InitSeat == Seat!SeatAssumption /\ Seat!Init => SeatInv
<1> SUFFICES ASSUME Seat!SeatAssumption, Seat!Init PROVE SeatInv
  OBVIOUS
<1>1. sent = << >> /\ DOMAIN sent = {} /\ sent \in Seq(Seat!Message)
  BY DEF Seat!Init
<1>2. << >> \in Seq(Seat!Event) /\ Len(<< >>) = 0 /\ DOMAIN << >> = {}
  OBVIOUS
<1>3. Seat!SeatTypeOK
  BY <1>1, <1>2 DEF Seat!Init, Seat!SeatTypeOK, Seat!Dev, Seat!SeatAssumption
<1>4. \A d \in Seat!Dev : Seat!Number(d) = 1 /\ used[d] = << >>
  BY <1>2 DEF Seat!Init, Seat!Number
<1>5. Seat!At(0, "ABS_X") = 0 /\ Seat!At(0, "ABS_Y") = 0
  BY DEF Seat!At, Seat!Moves
<1>6. Seat!Number("mouse") - 1 = 0
  BY <1>4 DEF Seat!Dev
<1>7. Seat!Delivered("key", "keyboard", "EV_KEY") /\ Seat!Delivered("button", "mouse", "EV_KEY")
      /\ Seat!MotionsTrue
  BY <1>1 DEF Seat!Delivered, Seat!MotionsTrue
<1>8. Seat!EnterFirst
  BY <1>1 DEF Seat!EnterFirst, Seat!Init
<1> QED BY <1>1, <1>3, <1>4, <1>5, <1>6, <1>7, <1>8 DEF SeatInv, Seat!Init

\* The event the driver takes next.
LEMMA NextEvent ==
  ASSUME Seat!SeatTypeOK, NEW d \in Seat!Dev
  PROVE  /\ Seat!Number(d) \in Nat \ {0} /\ Seat!Number(d) <= Len(history[d]) + 1
         /\ history[d] \in Seq(Seat!Event) /\ used[d] \in Seq(Seat!Event) /\ Len(history[d]) \in Nat
         /\ used[d] # << >> =>
              /\ Seat!Number(d) <= Len(history[d])
              /\ Head(used[d]) = history[d][Seat!Number(d)] /\ Head(used[d]) \in Seat!Event
              /\ Tail(used[d]) \in Seq(Seat!Event) /\ Len(Tail(used[d])) = Len(used[d]) - 1
              /\ \A i \in 1..Len(used[d]) - 1 : Tail(used[d])[i] = used[d][i+1]
<1>1. /\ used[d] \in Seq(Seat!Event) /\ history[d] \in Seq(Seat!Event)
      /\ Len(used[d]) \in Nat /\ Len(history[d]) \in Nat /\ Len(used[d]) <= Len(history[d])
      /\ DOMAIN used[d] = 1..Len(used[d])
  BY LenProperties DEF Seat!SeatTypeOK
<1>2. Seat!Number(d) = Len(history[d]) - Len(used[d]) + 1
  BY DEF Seat!Number
<1>4. /\ Seat!Number(d) \in Nat \ {0} /\ Seat!Number(d) <= Len(history[d]) + 1
      /\ Len(used[d]) >= 1 => Seat!Number(d) <= Len(history[d])
  <2> DEFINE a == Len(history[d])
             b == Len(used[d])
  <2>1. a \in Nat /\ b \in Nat /\ b <= a
    BY <1>1
  <2> HIDE DEF a, b
  <2>2. /\ a - b + 1 \in Nat \ {0} /\ a - b + 1 <= a + 1
        /\ b >= 1 => a - b + 1 <= a
    BY <2>1
  <2> QED BY <1>2, <2>2 DEF a, b
<1>3. CASE used[d] # << >>
  <2>1. /\ Head(used[d]) = used[d][1] /\ Len(used[d]) >= 1 /\ Head(used[d]) \in Seat!Event
        /\ Tail(used[d]) \in Seq(Seat!Event) /\ Len(Tail(used[d])) = Len(used[d]) - 1
        /\ \A i \in 1..Len(used[d]) - 1 : Tail(used[d])[i] = used[d][i+1]
    BY <1>1, <1>3, HeadTailProperties, EmptySeq, ElementOfSeq
  <2>2. used[d][1] = history[d][Seat!Number(d) - 1 + 1]
    BY <1>1, <2>1 DEF Seat!SeatTypeOK
  <2>3. Seat!Number(d) - 1 + 1 = Seat!Number(d)
    BY <1>1, <1>2
  <2> QED BY <1>1, <1>4, <2>1, <2>2, <2>3
<1> QED BY <1>1, <1>3, <1>4

\* The events of the mouse and keyboard handlers once one more is taken.
LEMMA GivenNext ==
  ASSUME Seat!SeatTypeOK, NEW d \in Seat!Dev, history' = history, NEW type
  PROVE  /\ Seat!Given(d, type) \subseteq 1..Seat!Number(d)-1
         /\ Seat!Number(d)' = Seat!Number(d) => Seat!Given(d, type)' = Seat!Given(d, type)
         /\ Seat!Number(d)' = Seat!Number(d) + 1 =>
              Seat!Given(d, type)' = IF history[d][Seat!Number(d)].type = type
                                THEN Seat!Given(d, type) \cup {Seat!Number(d)} ELSE Seat!Given(d, type)
<1>1. Seat!Number(d) \in Nat \ {0}
  BY NextEvent
<1>2. 1..Seat!Number(d) = (1..Seat!Number(d)-1) \cup {Seat!Number(d)}
  BY <1>1
<1>3. Seat!Number(d)' = Seat!Number(d) + 1 => Seat!Number(d)' - 1 = Seat!Number(d)
  BY <1>1
<1> QED BY <1>1, <1>2, <1>3 DEF Seat!Given

\* A handler tells of the event it takes, or it takes one of another type, or
\* has not told of any.
LEMMA DeliveredStep ==
  ASSUME Seat!SeatTypeOK, NEW op, NEW d \in Seat!Dev, NEW type, Seat!Delivered(op, d, type),
         NEW more \in Seq(Seat!Message), sent' = sent \o more, history' = history,
         \/ /\ Seat!Number(d)' = Seat!Number(d)
            /\ \A i \in 1..Len(more) : more[i].op # op
         \/ /\ Seat!Number(d)' = Seat!Number(d) + 1
            /\ \A i \in 1..Len(more) : more[i].op # op
            /\ \/ history[d][Seat!Number(d)].type # type
               \/ \A i \in DOMAIN sent : sent[i].op # op
         \/ /\ Seat!Number(d)' = Seat!Number(d) + 1
            /\ history[d][Seat!Number(d)].type = type
            /\ 1 \in 1..Len(more) /\ more[1].op = op /\ more[1].of = Seat!Number(d)
            /\ \A i \in 2..Len(more) : more[i].op # op
  PROVE  Seat!Delivered(op, d, type)'
<1> DEFINE n == Len(sent)
           told == {i \in DOMAIN sent : sent[i].op = op}
<1>1. /\ n \in Nat /\ Len(sent') = n + Len(more) /\ Len(more) \in Nat
      /\ DOMAIN sent = 1..n /\ DOMAIN sent' = 1..Len(sent')
      /\ \A i \in 1..n : sent'[i] = sent[i]
      /\ \A i \in 1..Len(more) : sent'[n + i] = more[i]
  BY SentGrows DEF Seat!SeatTypeOK
<1>2. \A i \in DOMAIN sent' : i \in 1..n \/ \E j \in 1..Len(more) : i = n + j
  <2> SUFFICES ASSUME NEW i \in 1..Len(sent'), i \notin 1..n
               PROVE  \E j \in 1..Len(more) : i = n + j
    BY <1>1
  <2>1. i - n \in 1..Len(more) /\ i = n + (i - n)
    BY <1>1
  <2> QED BY <2>1
<1>3. Seat!Number(d) \in Nat \ {0} /\ Seat!Given(d, type) \subseteq 1..Seat!Number(d)-1
  BY NextEvent, GivenNext
<1> DEFINE now == {i \in DOMAIN sent' : sent'[i].op = op}
<1>6. /\ \A i \in told : sent[i].of \in Seat!Given(d, type)
      /\ \A i, j \in told : i < j => sent[i].of < sent[j].of
      /\ \A i \in told : \A m \in Seat!Given(d, type) :
           m > sent[i].of => \E j \in told : sent[j].of = m
  BY DEF Seat!Delivered
<1>7. SUFFICES
        /\ \A i \in now : sent'[i].of \in Seat!Given(d, type)'
        /\ \A i, j \in now : i < j => sent'[i].of < sent'[j].of
        /\ \A i \in now : \A m \in Seat!Given(d, type)' :
             m > sent'[i].of => \E j \in now : sent'[j].of = m
  BY DEF Seat!Delivered
<1>8. told \subseteq 1..n /\ \A i \in told : sent'[i] = sent[i]
  BY <1>1
<1> HIDE DEF n
<1>4. CASE \A i \in 1..Len(more) : more[i].op # op
  <2>1. now = told
    <3>1. ASSUME NEW i \in now PROVE i \in told
      <4>1. i \notin 1..n => \E j \in 1..Len(more) : i = n + j
        BY <1>2
      <4>2. \A j \in 1..Len(more) : sent'[n + j].op # op
        BY <1>1, <1>4
      <4>3. i \in 1..n
        BY <4>1, <4>2
      <4> QED BY <1>1, <4>3
    <3>2. ASSUME NEW i \in told PROVE i \in now
      BY <1>1, <1>8
    <3> HIDE DEF now, told
    <3> QED BY <3>1, <3>2
  <2>3. told = {} \/ Seat!Given(d, type)' = Seat!Given(d, type)
    BY <1>4, GivenNext
  <2> HIDE DEF told, now
  <2>4. CASE told = {}
    BY <2>1, <2>4
  <2>5. CASE Seat!Given(d, type)' = Seat!Given(d, type)
    <3>1. \A i \in now : i \in told /\ sent'[i] = sent[i]
      BY <1>8, <2>1
    <3>2. \A i \in now : \A m \in Seat!Given(d, type)' :
             m > sent'[i].of => \E j \in now : sent'[j].of = m
      <4> SUFFICES ASSUME NEW i \in now, NEW m \in Seat!Given(d, type)', m > sent'[i].of
                   PROVE  \E j \in now : sent'[j].of = m
        OBVIOUS
      <4>1. m \in Seat!Given(d, type) /\ m > sent[i].of /\ i \in told
        BY <2>5, <3>1
      <4>2. PICK j \in told : sent[j].of = m
        BY <1>6, <4>1
      <4> QED BY <2>1, <3>1, <4>2
    <3> QED BY <1>6, <2>5, <3>1, <3>2
  <2> QED BY <2>3, <2>4, <2>5
<1>5. CASE /\ Seat!Number(d)' = Seat!Number(d) + 1
           /\ history[d][Seat!Number(d)].type = type
           /\ 1 \in 1..Len(more) /\ more[1].op = op /\ more[1].of = Seat!Number(d)
           /\ \A i \in 2..Len(more) : more[i].op # op
  <2>1. Seat!Given(d, type)' = Seat!Given(d, type) \cup {Seat!Number(d)}
    BY <1>5, GivenNext
  <2>2. now = told \cup {n + 1}
    <3>1. ASSUME NEW i \in now PROVE i \in told \cup {n + 1}
      <4>1. CASE i \in 1..n
        BY <1>1, <4>1
      <4>2. CASE i \notin 1..n
        <5>1. PICK j \in 1..Len(more) : i = n + j
          BY <1>2, <4>2
        <5>2. more[j].op = op
          BY <1>1, <5>1
        <5> QED BY <1>5, <5>1, <5>2
      <4> QED BY <4>1, <4>2
    <3>2. told \subseteq now
      BY <1>1, <1>8
    <3>3. n + 1 \in now
      BY <1>1, <1>5
    <3> QED BY <3>1, <3>2, <3>3
  <2>3. \A i \in told : sent'[i] = sent[i] /\ i < n + 1 /\ i \in Nat
    BY <1>1, <1>8
  <2>4. sent'[n + 1].of = Seat!Number(d)
    BY <1>1, <1>5
  <2> HIDE DEF told, now
  <2>5. \A i \in told : /\ sent[i].of \in Seat!Given(d, type) /\ sent[i].of < Seat!Number(d)
                        /\ sent[i].of \in Nat
    BY <1>3, <1>6
  <2>6. ASSUME NEW i \in told \cup {n + 1}, NEW j \in told \cup {n + 1}, i < j
        PROVE  sent'[i].of < sent'[j].of
    <3>1. i \in told
      BY <1>1, <2>3, <2>6
    <3>2. CASE j \in told
      BY <1>6, <2>3, <2>6, <3>1, <3>2
    <3>3. CASE j = n + 1
      BY <2>3, <2>4, <2>5, <3>1, <3>3
    <3> QED BY <3>2, <3>3
  <2>7. \A i \in told \cup {n + 1} : sent'[i].of \in Seat!Given(d, type)'
    BY <2>1, <2>3, <2>4, <2>5
  <2>8. ASSUME NEW i \in told \cup {n + 1}, NEW m \in Seat!Given(d, type)', m > sent'[i].of
        PROVE  \E j \in told \cup {n + 1} : sent'[j].of = m
    <3>1. CASE m = Seat!Number(d)
      BY <2>4, <3>1
    <3>2. CASE m # Seat!Number(d)
      <4>1. m \in Seat!Given(d, type) /\ m < Seat!Number(d)
        BY <1>3, <2>1, <2>8, <3>2
      <4>2. m \in Nat
        BY <1>3, <4>1
      <4>3. ASSUME i = n + 1 PROVE FALSE
        <5>1. m > Seat!Number(d)
          BY <2>4, <2>8, <4>3
        <5> QED BY <1>3, <4>1, <4>2, <5>1
      <4>4. i \in told /\ m > sent[i].of
        BY <2>3, <2>8, <4>3
      <4>5. PICK j \in told : sent[j].of = m
        BY <1>6, <4>1, <4>4
      <4> QED BY <2>3, <4>5
    <3> QED BY <3>1, <3>2
  <2> QED BY <2>2, <2>6, <2>7, <2>8
<1> QED BY <1>4, <1>5

\* What the object of a new message has been sent: earlier, and among the new.
Earlier(m, ops) == {j \in DOMAIN sent : sent[j].op \in ops /\ sent[j].to = m.to}
Along(more, i, ops) == {k \in 1..i-1 : more[k].op \in ops /\ more[k].to = more[i].to}
Shifted(n, S) == {n + k : k \in S}

\* Who has heard what before each new message.
LEMMA BeforeGrows ==
  ASSUME Seat!SeatTypeOK, NEW more \in Seq(Seat!Message), sent' = sent \o more, NEW ops,
         NEW n \in Nat, n = Len(sent)
  PROVE  /\ \A i \in DOMAIN sent : Seat!Before(i, ops)' = Seat!Before(i, ops)
         /\ \A i \in 1..Len(more) :
              Seat!Before(n + i, ops)' = Earlier(more[i], ops) \cup Shifted(n, Along(more, i, ops))
<1>1. /\ n \in Nat /\ Len(sent') = n + Len(more) /\ Len(more) \in Nat
      /\ DOMAIN sent = 1..n /\ DOMAIN sent' = 1..Len(sent')
      /\ \A i \in 1..n : sent'[i] = sent[i]
      /\ \A i \in 1..Len(more) : sent'[n + i] = more[i]
  BY SentGrows DEF Seat!SeatTypeOK
<1>2. \A i \in DOMAIN sent : Seat!Before(i, ops)' = Seat!Before(i, ops)
  BY <1>1 DEF Seat!Before
<1>3. ASSUME NEW i \in 1..Len(more)
      PROVE  Seat!Before(n + i, ops)' = Earlier(more[i], ops) \cup Shifted(n, Along(more, i, ops))
  <2>1. ASSUME NEW j \in 1..(n + i - 1)
        PROVE  \/ j \in 1..n
               \/ j - n \in 1..i-1 /\ j = n + (j - n) /\ sent'[j] = more[j - n]
    BY <1>1
  <2>2. \A j \in 1..n : j \in 1..(n + i - 1) /\ sent'[j] = sent[j]
    BY <1>1
  <2>3. \A k \in 1..i-1 : n + k \in 1..(n + i - 1) /\ sent'[n + k] = more[k]
    BY <1>1
  <2>4. sent'[n + i] = more[i]
    BY <1>1
  <2>5. Seat!Before(n + i, ops)' = {j \in 1..(n + i - 1) : sent'[j].op \in ops /\ sent'[j].to = more[i].to}
    <3>1. Seat!Before(n + i, ops)' = {j \in 1..(n + i - 1) : sent'[j].op \in ops /\ sent'[j].to = sent'[n + i].to}
      BY <1>1 DEF Seat!Before
    <3> QED BY <2>4, <3>1
  <2> DEFINE new == {k \in 1..i-1 : more[k].op \in ops /\ more[k].to = more[i].to}
             old == {j \in 1..n : sent[j].op \in ops /\ sent[j].to = more[i].to}
  <2>6. ASSUME NEW j \in Seat!Before(n + i, ops)' PROVE j \in old \cup {n + k : k \in new}
    <3>1. CASE j \in 1..n
      BY <2>2, <2>5, <3>1
    <3>2. CASE j \notin 1..n
      <4>1. j - n \in new /\ j = n + (j - n)
        BY <2>1, <2>5, <3>2
      <4> HIDE DEF new
      <4> QED BY <4>1
    <3> QED BY <3>1, <3>2
  <2>7. old \subseteq Seat!Before(n + i, ops)'
    BY <2>2, <2>5
  <2>8. {n + k : k \in new} \subseteq Seat!Before(n + i, ops)'
    <3>1. ASSUME NEW k \in new PROVE n + k \in Seat!Before(n + i, ops)'
      BY <2>3, <2>5
    <3> HIDE DEF new
    <3> QED BY <3>1
  <2>9. Seat!Before(n + i, ops)' = old \cup {n + k : k \in new}
    <3> HIDE DEF old, new
    <3> QED BY <2>6, <2>7, <2>8
  <2>10. old = Earlier(more[i], ops) /\ {n + k : k \in new} = Shifted(n, Along(more, i, ops))
    BY <1>1 DEF Earlier, Along, Shifted
  <2> QED BY <2>9, <2>10
<1> QED BY <1>2, <1>3

\* New messages in turn leave all in turn.
LEMMA TurnsGrow ==
  ASSUME Seat!SeatTypeOK, NEW more \in Seq(Seat!Message), sent' = sent \o more,
         NEW n \in Nat, n = Len(sent), \A i \in DOMAIN sent : Seat!InTurn(i),
         \A i \in 1..Len(more) : Seat!InTurn(n + i)'
  PROVE  (\A i \in DOMAIN sent : Seat!InTurn(i))'
<1>1. /\ Len(sent') = n + Len(more) /\ Len(more) \in Nat
      /\ DOMAIN sent = 1..n /\ DOMAIN sent' = 1..Len(sent')
      /\ \A i \in 1..n : sent'[i] = sent[i]
  BY SentGrows DEF Seat!SeatTypeOK
<1>2. ASSUME NEW i \in 1..n PROVE Seat!InTurn(i)'
  <2>1. Seat!Before(i, Seat!KeyboardOps)' = Seat!Before(i, Seat!KeyboardOps)
        /\ Seat!Before(i, Seat!PointerOps)' = Seat!Before(i, Seat!PointerOps)
    BY <1>1, BeforeGrows
  <2>2. \A j \in Seat!Before(i, Seat!KeyboardOps) : sent'[j] = sent[j]
    BY <1>1 DEF Seat!Before
  <2>3. Seat!InTurn(i) /\ sent'[i] = sent[i]
    BY <1>1
  <2> QED BY <2>1, <2>2, <2>3 DEF Seat!InTurn
<1>3. ASSUME NEW i \in DOMAIN sent' PROVE Seat!InTurn(i)'
  <2>1. CASE i \in 1..n
    BY <1>2, <2>1
  <2>2. CASE i \notin 1..n
    <3>1. i - n \in 1..Len(more) /\ i = n + (i - n)
      BY <1>1, <2>2
    <3> DEFINE j == i - n
    <3>2. j \in 1..Len(more) /\ i = n + j
      BY <3>1
    <3> HIDE DEF j
    <3>3. Seat!InTurn(n + j)'
      BY <3>2
    <3> QED BY <3>2, <3>3
  <2> QED BY <2>1, <2>2
<1> QED BY <1>3

\* What an object has been told it has been told, and what is told now.
LEMMA ToldGrows ==
  ASSUME Seat!SeatTypeOK, NEW more \in Seq(Seat!Message), sent' = sent \o more, NEW op, NEW object,
         \/ Seat!Told(op, object)
         \/ \E i \in 1..Len(more) : more[i].op = op /\ more[i].to = object
  PROVE  Seat!Told(op, object)'
<1> DEFINE n == Len(sent)
<1>1. /\ Len(sent') = n + Len(more) /\ Len(more) \in Nat /\ n \in Nat
      /\ DOMAIN sent = 1..n /\ DOMAIN sent' = 1..Len(sent')
      /\ \A i \in 1..n : sent'[i] = sent[i]
      /\ \A i \in 1..Len(more) : sent'[n + i] = more[i]
  BY SentGrows DEF Seat!SeatTypeOK
<1> HIDE DEF n
<1>2. CASE Seat!Told(op, object)
  <2>1. PICK i \in 1..n : sent[i].op = op /\ sent[i].to = object
    BY <1>1, <1>2 DEF Seat!Told
  <2>2. i \in DOMAIN sent' /\ sent'[i] = sent[i]
    BY <1>1
  <2> QED BY <2>1, <2>2 DEF Seat!Told
<1>3. CASE \E i \in 1..Len(more) : more[i].op = op /\ more[i].to = object
  <2>1. PICK i \in 1..Len(more) : more[i].op = op /\ more[i].to = object
    BY <1>3
  <2>2. n + i \in DOMAIN sent' /\ sent'[n + i] = more[i]
    BY <1>1
  <2> QED BY <2>1, <2>2 DEF Seat!Told
<1> QED BY <1>2, <1>3

\* Motions are the old ones when no new message is one.
LEMMA OldMotions ==
  ASSUME sent \in Seq(Seat!Message), NEW more \in Seq(Seat!Message), sent' = sent \o more,
         \A i \in 1..Len(more) : more[i].op # "motion"
  PROVE  \A i \in DOMAIN sent' : sent'[i].op = "motion" => i \in DOMAIN sent /\ sent'[i] = sent[i]
<1>1. /\ Len(sent') = Len(sent) + Len(more) /\ Len(more) \in Nat /\ Len(sent) \in Nat
      /\ DOMAIN sent = 1..Len(sent) /\ DOMAIN sent' = 1..Len(sent')
      /\ \A i \in 1..Len(sent) : sent'[i] = sent[i]
      /\ \A i \in 1..Len(more) : sent'[Len(sent) + i] = more[i]
  BY SentGrows
<1>2. ASSUME NEW i \in DOMAIN sent', i \notin 1..Len(sent) PROVE sent'[i].op # "motion"
  <2>1. i - Len(sent) \in 1..Len(more) /\ i = Len(sent) + (i - Len(sent))
    BY <1>1, <1>2
  <2> QED BY <1>1, <2>1
<1> QED BY <1>1, <1>2

\* Messages other than the seat's events leave what is said of those alone.
LEMMA InputKept ==
  ASSUME SeatInv, NEW more \in Seq(Seat!Message), sent' = sent \o more,
         UNCHANGED <<used, history, x, y>>,
         \A i \in 1..Len(more) : more[i].op \notin {"key", "button", "motion"}
  PROVE  /\ Seat!Delivered("key", "keyboard", "EV_KEY")' /\ Seat!Delivered("button", "mouse", "EV_KEY")'
         /\ Seat!MotionsTrue'
         /\ x' = Seat!At(Seat!Number("mouse") - 1, "ABS_X")' /\ y' = Seat!At(Seat!Number("mouse") - 1, "ABS_Y")'
<1>1. Seat!SeatTypeOK /\ Seat!MotionsTrue /\ {"keyboard", "mouse"} = Seat!Dev
  BY DEF SeatInv, Seat!Dev
<1>2. \A d \in Seat!Dev : Seat!Number(d)' = Seat!Number(d)
  BY DEF Seat!Number
<1>3. /\ Seat!Delivered("key", "keyboard", "EV_KEY")' /\ Seat!Delivered("button", "mouse", "EV_KEY")'
      /\ Seat!Delivered("motion", "mouse", "EV_SYN")'
  BY <1>1, <1>2, DeliveredStep DEF SeatInv, Seat!MotionsTrue
<1>4. \A n, axis : Seat!At(n, axis)' = Seat!At(n, axis)
  BY DEF Seat!At, Seat!Moves
<1>5. \A i \in DOMAIN sent' : sent'[i].op = "motion" => i \in DOMAIN sent /\ sent'[i] = sent[i]
  BY <1>1, OldMotions DEF Seat!SeatTypeOK
<1>6. Seat!MotionsTrue'
  BY <1>1, <1>3, <1>4, <1>5 DEF Seat!MotionsTrue
<1> QED BY <1>1, <1>2, <1>3, <1>4, <1>6 DEF SeatInv

\* When a new message is in turn, by what its object has heard.
Due(more, i) ==
  \/ /\ more[i].op = "keymap" /\ i = 1
     /\ \A j \in DOMAIN sent : sent[j].op \in Seat!KeyboardOps => sent[j].to # more[i].to
  \/ /\ more[i].op = "keyboard_enter"
     /\ \A j \in DOMAIN sent :
          sent[j].to = more[i].to /\ sent[j].op \in Seat!KeyboardOps => sent[j].op = "keymap"
     /\ \A j \in 1..i-1 : more[j].op = "keymap"
     /\ Seat!Told("keymap", more[i].to) \/ (i = 2 /\ more[1].to = more[i].to)
  \/ /\ more[i].op = "key" /\ i = 1 /\ Seat!Told("keyboard_enter", more[i].to)
  \/ /\ more[i].op = "pointer_enter"
     /\ \A j \in DOMAIN sent : sent[j].op \in Seat!PointerOps => sent[j].to # more[i].to
     /\ \A j \in 1..i-1 : more[j].op \notin Seat!PointerOps
  \/ more[i].op \in {"motion", "frame", "button"} /\ Seat!Told("pointer_enter", more[i].to)

LEMMA NewTurn ==
  ASSUME Seat!SeatTypeOK, NEW more \in Seq(Seat!Message), sent' = sent \o more,
         NEW n \in Nat, n = Len(sent), NEW i \in 1..Len(more), Due(more, i)
  PROVE  Seat!InTurn(n + i)'
<1> DEFINE Old(ops) == Earlier(more[i], ops)
           New(ops) == Shifted(n, Along(more, i, ops))
<1>1. /\ Len(sent') = n + Len(more) /\ Len(more) \in Nat
      /\ DOMAIN sent = 1..n /\ DOMAIN sent' = 1..Len(sent')
      /\ \A j \in 1..n : sent'[j] = sent[j]
      /\ \A j \in 1..Len(more) : sent'[n + j] = more[j]
  BY SentGrows DEF Seat!SeatTypeOK
<1>2. /\ Seat!Before(n + i, Seat!KeyboardOps)' = Old(Seat!KeyboardOps) \cup New(Seat!KeyboardOps)
      /\ Seat!Before(n + i, Seat!PointerOps)' = Old(Seat!PointerOps) \cup New(Seat!PointerOps)
  BY BeforeGrows
<1>3. \A ops : \A j \in Old(ops) :
        j \in DOMAIN sent /\ sent'[j] = sent[j] /\ sent[j].op \in ops /\ sent[j].to = more[i].to
  BY <1>1 DEF Earlier
<1>4. \A ops : \A j \in New(ops) : \E k \in 1..i-1 : /\ sent'[j] = more[k] /\ more[k].op \in ops
                                                   /\ more[k].to = more[i].to
  <2> SUFFICES ASSUME NEW ops, NEW j \in New(ops)
               PROVE  \E k \in 1..i-1 : /\ sent'[j] = more[k] /\ more[k].op \in ops
                                        /\ more[k].to = more[i].to
    OBVIOUS
  <2>1. PICK k \in Along(more, i, ops) : j = n + k
    BY DEF Shifted
  <2>2. k \in 1..i-1 /\ k \in 1..Len(more)
    BY <1>1 DEF Along
  <2> QED BY <1>1, <2>1, <2>2 DEF Along
<1>5. \A op, ops : op \in ops /\ Seat!Told(op, more[i].to) => \E j \in Old(ops) : sent'[j].op = op
  BY <1>1 DEF Seat!Told, Earlier
<1>6. sent'[n + i] = more[i]
  BY <1>1
<1>7. i = 2 /\ more[1].to = more[i].to /\ more[1].op = "keymap" => n + 1 \in New(Seat!KeyboardOps)
  BY DEF Seat!KeyboardOps, Along, Shifted
<1> HIDE DEF Old, New
<1> DEFINE others == Old(Seat!KeyboardOps) \cup New(Seat!KeyboardOps)
           points == Old(Seat!PointerOps) \cup New(Seat!PointerOps)
<1>8. SUFFICES
         /\ more[i].op = "keymap" <=> more[i].op \in Seat!KeyboardOps /\ others = {}
         /\ more[i].op = "keyboard_enter" <=>
              /\ more[i].op \in Seat!KeyboardOps /\ others # {}
              /\ \A j \in others : sent'[j].op = "keymap"
         /\ more[i].op = "pointer_enter" <=> more[i].op \in Seat!PointerOps /\ points = {}
  BY <1>2, <1>6 DEF Seat!InTurn
<1>9. CASE more[i].op = "keymap"
  <2>1. others = {}
    BY <1>3, <1>4, <1>9 DEF Due
  <2> QED BY <1>9, <2>1 DEF Seat!KeyboardOps, Seat!PointerOps
<1>10. CASE more[i].op = "keyboard_enter"
  <2>0. /\ \A j \in DOMAIN sent :
            sent[j].to = more[i].to /\ sent[j].op \in Seat!KeyboardOps => sent[j].op = "keymap"
        /\ \A j \in 1..i-1 : more[j].op = "keymap"
        /\ Seat!Told("keymap", more[i].to) \/ (i = 2 /\ more[1].to = more[i].to)
    BY <1>10 DEF Due
  <2>1. others # {}
    <3>1. i = 2 => more[1].op = "keymap"
      BY <2>0
    <3> QED BY <1>5, <1>7, <2>0, <3>1 DEF Seat!KeyboardOps
  <2>2. \A j \in others : sent'[j].op = "keymap"
    <3>1. \A j \in Old(Seat!KeyboardOps) : sent'[j].op = "keymap"
      BY <1>3, <2>0
    <3>2. ASSUME NEW j \in New(Seat!KeyboardOps) PROVE sent'[j].op = "keymap"
      <4>1. PICK m \in 1..i-1 : sent'[j] = more[m]
        BY <1>4
      <4> QED BY <2>0, <4>1
    <3> QED BY <3>1, <3>2
  <2> QED BY <1>10, <2>1, <2>2 DEF Seat!KeyboardOps, Seat!PointerOps
<1>11. CASE more[i].op = "key"
  <2>1. \E j \in others : sent'[j].op = "keyboard_enter"
    BY <1>5, <1>11 DEF Seat!KeyboardOps, Due
  <2> QED BY <1>11, <2>1 DEF Seat!KeyboardOps, Seat!PointerOps
<1>12. CASE more[i].op = "pointer_enter"
  <2>1. points = {}
    BY <1>3, <1>4, <1>12 DEF Due
  <2> QED BY <1>12, <2>1 DEF Seat!KeyboardOps, Seat!PointerOps
<1>13. CASE more[i].op \in {"motion", "frame", "button"}
  <2>1. points # {}
    BY <1>5, <1>13 DEF Seat!PointerOps, Due
  <2> QED BY <1>13, <2>1 DEF Seat!KeyboardOps, Seat!PointerOps
<1> QED BY <1>9, <1>10, <1>11, <1>12, <1>13 DEF Due

-----------------------------------------------------------------------------
(* The requests of the client.                                             *)

\* What the three requests have in common.
LEMMA RequestStep ==
  ASSUME SeatInv, NEW more \in Seq(Seat!Message), sent' = sent \o more, NEW n \in Nat, n = Len(sent),
         UNCHANGED <<used, history, irq, seat_pc, x, y>>,
         seat_surface' \in {0, 1}, seat_surface = 0 \/ seat_surface' = seat_surface,
         keyboard' \in keyboard..Objects, pointer' \in pointer..Objects,
         \A i \in 1..Len(more) : /\ more[i].op \notin {"key", "button", "motion"}
                                 /\ Addressed(more[i])'
                                 /\ Seat!InTurn(n + i)',
         \A k \in (keyboard+1)..keyboard' : Seat!Told("keymap", k)',
         seat_surface' # 0 /\ keyboard' # 0 => Seat!Told("keyboard_enter", keyboard)',
         seat_surface' # 0 /\ pointer' # 0 => Seat!Told("pointer_enter", pointer)'
  PROVE  SeatInv'
<1>1. Seat!SeatTypeOK /\ keyboard \in 0..Objects /\ pointer \in 0..Objects /\ seat_surface \in {0, 1}
  BY DEF SeatInv, Seat!SeatTypeOK
<1>2. /\ sent' \in Seq(Seat!Message) /\ Len(sent') = n + Len(more) /\ Len(more) \in Nat
      /\ DOMAIN sent = 1..n /\ DOMAIN sent' = 1..Len(sent')
      /\ \A i \in 1..n : sent'[i] = sent[i] /\ sent[i] \in Seat!Message
      /\ \A i \in 1..Len(more) : sent'[n + i] = more[i]
  BY <1>1, SentGrows DEF Seat!SeatTypeOK
<1>3. keyboard' \in 0..Objects /\ pointer' \in 0..Objects
  BY <1>1
<1>4. \A d \in Seat!Dev : Seat!Number(d)' = Seat!Number(d)
  BY DEF Seat!Number
<1>5. Seat!SeatTypeOK'
  BY <1>1, <1>2, <1>3, <1>4 DEF Seat!SeatTypeOK
<1>6. (\A i \in DOMAIN sent : Seat!InTurn(i))'
  BY <1>1, TurnsGrow DEF SeatInv, Seat!EnterFirst
<1>7. Seat!EnterFirst'
  BY <1>6 DEF Seat!EnterFirst
<1>8. (\A i \in DOMAIN sent : Addressed(sent[i]))'
  <2> SUFFICES ASSUME NEW i \in DOMAIN sent' PROVE Addressed(sent[i])'
    OBVIOUS
  <2>1. CASE i \in 1..n
    <3>1. Addressed(sent[i]) /\ sent'[i] = sent[i] /\ sent[i].to \in Int
      BY <1>2, <2>1 DEF SeatInv, Seat!Message
    <3> QED BY <1>1, <3>1 DEF Addressed
  <2>2. CASE i \notin 1..n
    <3> DEFINE j == i - n
    <3>1. j \in 1..Len(more) /\ i = n + j
      BY <1>2, <2>2
    <3> HIDE DEF j
    <3>2. sent'[i] = more[j]
      BY <1>2, <3>1
    <3> QED BY <3>1, <3>2 DEF Addressed
  <2> QED BY <2>1, <2>2
<1>9. (\A k \in 1..keyboard : Seat!Told("keymap", k))'
  <2> SUFFICES ASSUME NEW k \in 1..keyboard' PROVE Seat!Told("keymap", k)'
    OBVIOUS
  <2>1. CASE k \in 1..keyboard
    BY <1>1, <2>1, ToldGrows DEF SeatInv
  <2>2. CASE k \notin 1..keyboard
    BY <1>1, <2>2
  <2> QED BY <2>1, <2>2
<1>10. /\ Seat!Delivered("key", "keyboard", "EV_KEY")' /\ Seat!Delivered("button", "mouse", "EV_KEY")'
       /\ Seat!MotionsTrue'
       /\ x' = Seat!At(Seat!Number("mouse") - 1, "ABS_X")' /\ y' = Seat!At(Seat!Number("mouse") - 1, "ABS_Y")'
  BY InputKept
<1>11. \A d \in Seat!Dev : used'[d] # << >> => irq'[d] \/ seat_pc' = d
  BY DEF SeatInv
<1> QED BY <1>5, <1>7, <1>8, <1>9, <1>10, <1>11 DEF SeatInv

\* The window comes: only keymaps have been sent, one to each keyboard.
LEMMA SurfaceStep ==
  ASSUME Seat!SeatAssumption, SeatInv, Seat!xdg_wm_base_on_get_xdg_surface
  PROVE  SeatInv'
<1> DEFINE k == IF keyboard # 0 THEN <<Seat!Msg("keyboard_enter", keyboard)>> ELSE << >>
           p == IF pointer # 0 THEN <<Seat!MsgAt("pointer_enter", pointer, <<x, y>>)>> ELSE << >>
           new == k \o p
<1>1. /\ seat_surface = 0 /\ seat_surface' = 1 /\ sent' = (sent \o k) \o p
      /\ UNCHANGED <<keyboard, pointer, x, y, seat_pc, used, irq, history>>
  BY DEF Seat!xdg_wm_base_on_get_xdg_surface, Seat!devVars
<1>2. /\ Seat!SeatTypeOK /\ keyboard \in 0..Objects /\ pointer \in 0..Objects
      /\ <<x, y>> \in Seat!Position /\ sent \in Seq(Seat!Message)
  BY DEF SeatInv, Seat!SeatTypeOK, Seat!Position
<1>3. keyboard # 0 => Seat!Msg("keyboard_enter", keyboard) \in Seat!Message
  BY <1>2, MessageTypes DEF Seat!KeyboardOps
<1>4. pointer # 0 => Seat!MsgAt("pointer_enter", pointer, <<x, y>>) \in Seat!Message
  <2> SUFFICES ASSUME pointer # 0 PROVE Seat!MsgAt("pointer_enter", pointer, <<x, y>>) \in Seat!Message
    OBVIOUS
  <2>1. pointer \in 1..Objects /\ "pointer_enter" \in Seat!PointerOps
    BY <1>2 DEF Seat!SeatAssumption, Seat!PointerOps
  <2> QED BY <1>2, <2>1, MessageTypes
<1>5. k \in Seq(Seat!Message) /\ p \in Seq(Seat!Message)
  BY <1>3, <1>4
<1>6. new \in Seq(Seat!Message) /\ sent' = sent \o new
  <2> HIDE DEF k, p
  <2>1. new \in Seq(Seat!Message)
    BY <1>5, ConcatProperties
  <2>3. sent \in Seq(Seat!Message)
    BY <1>2
  <2>2. (sent \o k) \o p = sent \o (k \o p)
    BY <1>5, <2>3, ConcatAssociative
  <2> QED BY <1>1, <1>2, <2>1, <2>2
<1>7. \A i \in 1..Len(new) :
        \/ new[i].op = "keyboard_enter" /\ new[i].to = keyboard /\ i = 1 /\ keyboard # 0
        \/ /\ new[i].op = "pointer_enter" /\ new[i].to = pointer /\ pointer # 0
           /\ \A j \in 1..i-1 : new[j].op = "keyboard_enter"
  BY DEF Seat!Msg, Seat!MsgAt
<1>8. /\ keyboard # 0 => 1 \in 1..Len(new) /\ new[1].op = "keyboard_enter" /\ new[1].to = keyboard
      /\ pointer # 0 => \E i \in 1..Len(new) : new[i].op = "pointer_enter" /\ new[i].to = pointer
  BY DEF Seat!Msg, Seat!MsgAt
<1> HIDE DEF new
<1>12. PICK more, n : more = new /\ n = Len(sent)
  OBVIOUS
<1>13. more \in Seq(Seat!Message) /\ sent' = sent \o more /\ n \in Nat
  BY <1>2, <1>6, <1>12, LenProperties
<1>9. ASSUME NEW i \in 1..Len(more)
      PROVE  /\ more[i].op \notin {"key", "button", "motion"}
             /\ Addressed(more[i])'
             /\ Seat!InTurn(n + i)'
  <2>1. \A j \in DOMAIN sent : sent[j].op = "keymap"
    BY <1>1 DEF SeatInv, Addressed
  <2>2. keyboard # 0 => Seat!Told("keymap", keyboard)
    BY <1>2 DEF SeatInv
  <2>3. \/ more[i].op = "keyboard_enter" /\ more[i].to = keyboard /\ i = 1 /\ keyboard # 0
        \/ /\ more[i].op = "pointer_enter" /\ more[i].to = pointer /\ pointer # 0
           /\ \A j \in 1..i-1 : more[j].op = "keyboard_enter"
    BY <1>7, <1>12
  <2>4. Due(more, i)
    BY <2>1, <2>2, <2>3 DEF Due, Seat!PointerOps
  <2>5. Seat!InTurn(n + i)'
    BY <1>2, <1>12, <1>13, <2>4, NewTurn
  <2>6. Addressed(more[i])'
    BY <1>1, <1>2, <2>3 DEF Addressed, Seat!KeyboardOps, Seat!PointerOps
  <2> QED BY <2>3, <2>5, <2>6
<1>10. /\ keyboard # 0 => Seat!Told("keyboard_enter", keyboard)'
       /\ pointer # 0 => Seat!Told("pointer_enter", pointer)'
  BY <1>1, <1>2, <1>8, <1>12, <1>13, ToldGrows
<1>11. keyboard' \in keyboard..Objects /\ pointer' \in pointer..Objects /\ (keyboard+1)..keyboard' = {}
  BY <1>1, <1>2 DEF Seat!SeatAssumption
<1> QED BY <1>1, <1>9, <1>10, <1>11, <1>12, <1>13, RequestStep

\* A new pointer hears of the window there is.
LEMMA PointerStep ==
  ASSUME Seat!SeatAssumption, SeatInv, Seat!wl_seat_on_get_pointer
  PROVE  SeatInv'
<1> DEFINE new == IF seat_surface # 0
                  THEN <<Seat!MsgAt("pointer_enter", pointer + 1, <<0, 0>>)>> ELSE << >>
<1>1. /\ pointer' = pointer + 1 /\ pointer < Objects
      /\ UNCHANGED <<seat_surface, keyboard, x, y, seat_pc, used, irq, history>>
  BY DEF Seat!wl_seat_on_get_pointer, Seat!devVars
<1>2. /\ Seat!SeatTypeOK /\ keyboard \in 0..Objects /\ pointer \in 0..Objects
      /\ sent \in Seq(Seat!Message) /\ pointer + 1 \in 1..Objects /\ Objects \in Nat
      /\ seat_surface \in {0, 1}
  BY <1>1 DEF SeatInv, Seat!SeatTypeOK, Seat!SeatAssumption
<1>3. Seat!MsgAt("pointer_enter", pointer + 1, <<0, 0>>) \in Seat!Message
  BY <1>2, MessageTypes DEF Seat!PointerOps, Seat!Position
<1>4. new \in Seq(Seat!Message) /\ sent' = sent \o new
  <2>1. sent' = IF seat_surface # 0
               THEN Append(sent, Seat!MsgAt("pointer_enter", pointer + 1, <<0, 0>>)) ELSE sent
    BY <1>1 DEF Seat!wl_seat_on_get_pointer
  <2>2. CASE seat_surface = 0
    BY <1>2, <2>1, <2>2, ConcatEmptySeq
  <2>3. CASE seat_surface # 0
    <3>1. Append(sent, Seat!MsgAt("pointer_enter", pointer + 1, <<0, 0>>)) = sent \o new
      BY <1>2, <1>3, <2>3, AppendIsConcat
    <3> QED BY <1>3, <2>1, <2>3, <3>1
  <2> QED BY <2>2, <2>3
<1>5. \A i \in 1..Len(new) : /\ new[i].op = "pointer_enter" /\ new[i].to = pointer + 1
                             /\ i = 1 /\ seat_surface # 0
  BY DEF Seat!MsgAt, Seat!Msg
<1>6. seat_surface # 0 => 1 \in 1..Len(new)
  OBVIOUS
<1> HIDE DEF new
<1>7. PICK more, n, other : more = new /\ n = Len(sent) /\ other = keyboard
  OBVIOUS
<1>8. more \in Seq(Seat!Message) /\ sent' = sent \o more /\ n \in Nat
  BY <1>2, <1>4, <1>7, LenProperties
<1>9. ASSUME NEW i \in 1..Len(more)
      PROVE  /\ more[i].op \notin {"key", "button", "motion"}
             /\ Addressed(more[i])'
             /\ Seat!InTurn(n + i)'
  <2>1. \A j \in DOMAIN sent : sent[j].op \in Seat!PointerOps => sent[j].to # pointer + 1
    <3>1. \A j \in DOMAIN sent : sent[j].op \in Seat!PointerOps => sent[j].to <= pointer
      BY DEF SeatInv, Addressed
    <3> QED BY <1>2, <3>1
  <2>2. more[i].op = "pointer_enter" /\ more[i].to = pointer + 1 /\ i = 1 /\ seat_surface # 0
    BY <1>5, <1>7
  <2>3. Due(more, i)
    BY <2>1, <2>2 DEF Due
  <2>4. Seat!InTurn(n + i)'
    BY <1>2, <1>7, <1>8, <2>3, NewTurn
  <2>5. Addressed(more[i])'
    BY <1>1, <1>2, <2>2 DEF Addressed, Seat!KeyboardOps, Seat!PointerOps
  <2> QED BY <2>2, <2>4, <2>5
<1>10. seat_surface # 0 => Seat!Told("pointer_enter", pointer)'
  <2>1. PICK object : object = pointer'
    OBVIOUS
  <2>2. seat_surface # 0 => Seat!Told("pointer_enter", object)'
    BY <1>1, <1>2, <1>5, <1>6, <1>7, <1>8, <2>1, ToldGrows
  <2> QED BY <2>1, <2>2
<1>11. seat_surface # 0 /\ keyboard # 0 => Seat!Told("keyboard_enter", keyboard)'
  <2>1. seat_surface # 0 /\ keyboard # 0 => Seat!Told("keyboard_enter", other)
    BY <1>7 DEF SeatInv, Seat!EnterFirst
  <2>2. seat_surface # 0 /\ keyboard # 0 => Seat!Told("keyboard_enter", other)'
    BY <1>2, <1>8, <2>1, ToldGrows
  <2> QED BY <1>1, <1>7, <2>2
<1>12. keyboard' \in keyboard..Objects /\ pointer' \in pointer..Objects /\ (keyboard+1)..keyboard' = {}
  BY <1>1, <1>2
<1> QED BY <1>1, <1>2, <1>7, <1>8, <1>9, <1>10, <1>11, <1>12, RequestStep

\* A new keyboard gets its keymap and hears of the window there is.
LEMMA KeyboardStep ==
  ASSUME Seat!SeatAssumption, SeatInv, Seat!wl_seat_on_get_keyboard
  PROVE  SeatInv'
<1> DEFINE k == <<Seat!Msg("keymap", keyboard + 1)>>
           p == IF seat_surface # 0 THEN <<Seat!Msg("keyboard_enter", keyboard + 1)>> ELSE << >>
           new == k \o p
<1>1. /\ keyboard' = keyboard + 1 /\ keyboard < Objects /\ sent' = (sent \o k) \o p
      /\ UNCHANGED <<seat_surface, pointer, x, y, seat_pc, used, irq, history>>
  BY DEF Seat!wl_seat_on_get_keyboard, Seat!devVars
<1>2. /\ Seat!SeatTypeOK /\ keyboard \in 0..Objects /\ pointer \in 0..Objects
      /\ sent \in Seq(Seat!Message) /\ keyboard + 1 \in 1..Objects /\ Objects \in Nat
      /\ seat_surface \in {0, 1}
  BY <1>1 DEF SeatInv, Seat!SeatTypeOK, Seat!SeatAssumption
<1>3. Seat!Msg("keymap", keyboard + 1) \in Seat!Message /\ Seat!Msg("keyboard_enter", keyboard + 1) \in Seat!Message
  BY <1>2, MessageTypes DEF Seat!KeyboardOps
<1>4. k \in Seq(Seat!Message) /\ p \in Seq(Seat!Message)
  BY <1>3
<1>5. new \in Seq(Seat!Message) /\ sent' = sent \o new
  <2> HIDE DEF k, p
  <2>1. new \in Seq(Seat!Message)
    BY <1>4, ConcatProperties
  <2>2. (sent \o k) \o p = sent \o (k \o p)
    BY <1>2, <1>4, ConcatAssociative
  <2> QED BY <1>1, <1>2, <2>1, <2>2
<1>6. \A i \in 1..Len(new) :
        /\ new[i].to = keyboard + 1
        /\ \/ new[i].op = "keymap" /\ i = 1
           \/ new[i].op = "keyboard_enter" /\ i = 2 /\ seat_surface # 0
  BY DEF Seat!Msg
<1>7. /\ 1 \in 1..Len(new) /\ new[1].op = "keymap"
      /\ seat_surface # 0 => \E i \in 1..Len(new) : new[i].op = "keyboard_enter"
  BY DEF Seat!Msg
<1> HIDE DEF new
<1>8. PICK more, n, other : more = new /\ n = Len(sent) /\ other = pointer
  OBVIOUS
<1>9. more \in Seq(Seat!Message) /\ sent' = sent \o more /\ n \in Nat
  BY <1>2, <1>5, <1>8, LenProperties
<1>10. ASSUME NEW i \in 1..Len(more)
       PROVE  /\ more[i].op \notin {"key", "button", "motion"}
              /\ Addressed(more[i])'
              /\ Seat!InTurn(n + i)'
  <2>1. \A j \in DOMAIN sent : sent[j].op \in Seat!KeyboardOps => sent[j].to # keyboard + 1
    <3>1. \A j \in DOMAIN sent : sent[j].op \in Seat!KeyboardOps => sent[j].to <= keyboard
      BY DEF SeatInv, Addressed
    <3> QED BY <1>2, <3>1
  <2>2. /\ more[i].to = keyboard + 1 /\ more[1].to = keyboard + 1 /\ more[1].op = "keymap"
        /\ \/ more[i].op = "keymap" /\ i = 1
           \/ more[i].op = "keyboard_enter" /\ i = 2 /\ seat_surface # 0
    BY <1>6, <1>7, <1>8
  <2>3. Due(more, i)
    BY <2>1, <2>2 DEF Due
  <2>4. Seat!InTurn(n + i)'
    BY <1>2, <1>8, <1>9, <2>3, NewTurn
  <2>5. Addressed(more[i])'
    BY <1>1, <1>2, <2>2 DEF Addressed, Seat!KeyboardOps, Seat!PointerOps
  <2> QED BY <2>2, <2>4, <2>5
<1>11. Seat!Told("keymap", keyboard)' /\ (seat_surface # 0 => Seat!Told("keyboard_enter", keyboard)')
  <2>1. PICK object : object = keyboard'
    OBVIOUS
  <2>2. Seat!Told("keymap", object)' /\ (seat_surface # 0 => Seat!Told("keyboard_enter", object)')
    BY <1>1, <1>2, <1>6, <1>7, <1>8, <1>9, <2>1, ToldGrows
  <2> QED BY <2>1, <2>2
<1>12. seat_surface # 0 /\ pointer # 0 => Seat!Told("pointer_enter", pointer)'
  <2>1. seat_surface # 0 /\ pointer # 0 => Seat!Told("pointer_enter", other)
    BY <1>8 DEF SeatInv, Seat!EnterFirst
  <2>2. seat_surface # 0 /\ pointer # 0 => Seat!Told("pointer_enter", other)'
    BY <1>2, <1>9, <2>1, ToldGrows
  <2> QED BY <1>1, <1>8, <2>2
<1>13. /\ keyboard' \in keyboard..Objects /\ pointer' \in pointer..Objects
       /\ \A j \in (keyboard+1)..keyboard' : j = keyboard'
  BY <1>1, <1>2
<1> QED BY <1>1, <1>2, <1>8, <1>9, <1>10, <1>11, <1>12, <1>13, RequestStep
-----------------------------------------------------------------------------
(* The devices.                                                            *)

\* Without messages and requests the client has heard what it had.
LEMMA QuietClient ==
  ASSUME SeatInv, UNCHANGED <<seat_surface, keyboard, pointer, sent>>
  PROVE  /\ Seat!EnterFirst' /\ (\A i \in DOMAIN sent : Addressed(sent[i]))'
         /\ (\A k \in 1..keyboard : Seat!Told("keymap", k))'
<1>1. \A i : Seat!InTurn(i)' = Seat!InTurn(i)
  BY DEF Seat!InTurn, Seat!Before
<1>2. \A op, object : Seat!Told(op, object)' = Seat!Told(op, object)
  BY DEF Seat!Told
<1>3. Seat!EnterFirst'
  BY <1>1, <1>2 DEF SeatInv, Seat!EnterFirst
<1>4. (\A i \in DOMAIN sent : Addressed(sent[i]))'
  BY DEF SeatInv, Addressed
<1> QED BY <1>2, <1>3, <1>4 DEF SeatInv

\* handle_events: the interrupt is cleared before the queue is read.
LEMMA LoopStep ==
  ASSUME SeatInv, NEW d \in Seat!Dev, Seat!handle_events(d) \/ Seat!handle_events_End(d)
  PROVE  SeatInv'
<1>1. /\ UNCHANGED <<seat_surface, keyboard, pointer, x, y, used, history, sent>>
      /\ Seat!SeatTypeOK
  BY DEF Seat!handle_events, Seat!handle_events_End, Seat!infoVars, Seat!devVars, SeatInv
<1>2. \A e : Seat!Number(e)' = Seat!Number(e)
  BY <1>1 DEF Seat!Number
<1>3. irq' \in [Seat!Dev -> BOOLEAN] /\ seat_pc' \in Seat!Dev \cup {"loop"}
  BY <1>1 DEF Seat!handle_events, Seat!handle_events_End, Seat!devVars, Seat!SeatTypeOK
<1>4. Seat!SeatTypeOK'
  BY <1>1, <1>2, <1>3 DEF Seat!SeatTypeOK
<1>5. \A op, e, type : Seat!Delivered(op, e, type)' = Seat!Delivered(op, e, type)
  BY <1>1, <1>2 DEF Seat!Delivered, Seat!Given
<1>6. \A n, axis : Seat!At(n, axis)' = Seat!At(n, axis)
  BY <1>1 DEF Seat!At, Seat!Moves
<1>7. Seat!MotionsTrue'
  BY <1>1, <1>5, <1>6 DEF Seat!MotionsTrue, SeatInv
<1>8. ASSUME NEW e \in Seat!Dev, used'[e] # << >> PROVE irq'[e] \/ seat_pc' = e
  <2>1. used[e] # << >> /\ (irq[e] \/ seat_pc = e)
    BY <1>1, <1>8 DEF SeatInv
  <2>2. CASE Seat!handle_events(d)
    BY <1>1, <2>1, <2>2 DEF Seat!handle_events, Seat!SeatTypeOK, Seat!Dev
  <2>3. CASE Seat!handle_events_End(d)
    BY <2>1, <2>3 DEF Seat!handle_events_End, Seat!devVars
  <2> QED BY <2>2, <2>3
<1> QED BY <1>1, <1>2, <1>4, <1>5, <1>6, <1>7, <1>8, QuietClient DEF SeatInv

\* A new event is at the end of the history and of what the driver has to take.
LEMMA EventStep ==
  ASSUME SeatInv, NEW d \in Seat!Dev, NEW event \in Seat!Event, Seat!DeviceEvent(d, event)
  PROVE  SeatInv'
<1>1. /\ UNCHANGED <<seat_surface, keyboard, pointer, x, y, seat_pc, sent>> /\ Seat!SeatTypeOK
      /\ used \in [Seat!Dev -> Seq(Seat!Event)] /\ history \in [Seat!Dev -> Seq(Seat!Event)]
      /\ irq' = [irq EXCEPT ![d] = TRUE]
      /\ used' = [used EXCEPT ![d] = Append(@, event)]
      /\ history' = [history EXCEPT ![d] = Append(@, event)]
  BY DEF Seat!DeviceEvent, Seat!infoVars, SeatInv, Seat!SeatTypeOK
<1>2. /\ Len(Append(used[d], event)) = Len(used[d]) + 1
      /\ Len(Append(history[d], event)) = Len(history[d]) + 1
      /\ Append(used[d], event) \in Seq(Seat!Event) /\ Append(history[d], event) \in Seq(Seat!Event)
      /\ Append(used[d], event)[Len(used[d]) + 1] = event
      /\ Append(history[d], event)[Len(history[d]) + 1] = event
      /\ \A i \in 1..Len(used[d]) : Append(used[d], event)[i] = used[d][i]
      /\ \A i \in 1..Len(history[d]) : Append(history[d], event)[i] = history[d][i]
      /\ DOMAIN used[d] = 1..Len(used[d]) /\ Len(used[d]) \in Nat /\ Len(history[d]) \in Nat
      /\ Len(used[d]) <= Len(history[d])
      /\ DOMAIN Append(used[d], event) = 1..(Len(used[d]) + 1)
  BY <1>1, AppendProperties, LenProperties DEF Seat!SeatTypeOK
<1>3. /\ used'[d] = Append(used[d], event) /\ history'[d] = Append(history[d], event)
      /\ \A e \in Seat!Dev : e # d => used'[e] = used[e] /\ history'[e] = history[e]
  BY <1>1
<1>15. PICK a, b : a = Len(used[d]) /\ b = Len(history[d])
  OBVIOUS
<1>16. a \in Nat /\ b \in Nat /\ a <= b /\ Len(used'[d]) = a + 1 /\ Len(history'[d]) = b + 1
  BY <1>2, <1>3, <1>15
<1>4. ASSUME NEW e \in Seat!Dev PROVE Seat!Number(e)' = Seat!Number(e)
  <2>1. CASE e # d
    BY <1>3, <2>1 DEF Seat!Number
  <2>2. CASE e = d
    <3>1. (b + 1) - (a + 1) + 1 = b - a + 1
      BY <1>16
    <3> QED BY <1>15, <1>16, <2>2, <3>1 DEF Seat!Number
  <2> QED BY <2>1, <2>2
<1>5. \A e \in Seat!Dev : Seat!Number(e) \in Nat \ {0} /\ Seat!Number(e) <= Len(history[e]) + 1
                     /\ Len(history[e]) \in Nat
  BY <1>1, NextEvent
<1>6. Seat!SeatTypeOK'
  <2>1. used' \in [Seat!Dev -> Seq(Seat!Event)] /\ history' \in [Seat!Dev -> Seq(Seat!Event)] /\ irq' \in [Seat!Dev -> BOOLEAN]
    BY <1>1, <1>2 DEF Seat!SeatTypeOK
  <2>2. ASSUME NEW e \in Seat!Dev
        PROVE  /\ Len(used'[e]) <= Len(history'[e])
               /\ \A i \in DOMAIN used'[e] : used'[e][i] = history'[e][Seat!Number(e) - 1 + i]
    <3>1. CASE e # d
      BY <1>1, <1>3, <3>1 DEF Seat!SeatTypeOK
    <3>2. CASE e = d
      <4>1. PICK m : m = Seat!Number(d) - 1
        OBVIOUS
      <4>2. m = b - a
        BY <1>15, <1>16, <4>1 DEF Seat!Number
      <4>3. ASSUME NEW i \in 1..(a + 1) PROVE used'[d][i] = history'[d][m + i]
        <5>1. CASE i = a + 1
          <6>1. m + i = b + 1
            BY <1>16, <4>2, <5>1
          <6> QED BY <1>2, <1>3, <1>15, <5>1, <6>1
        <5>2. CASE i # a + 1
          <6>1. i \in 1..a /\ m + i \in 1..b
            BY <1>16, <4>2, <5>2
          <6>2. used[d][i] = history[d][m + i]
            BY <1>1, <1>2, <1>15, <4>1, <6>1 DEF Seat!SeatTypeOK
          <6> QED BY <1>2, <1>3, <1>15, <6>1, <6>2
        <5> QED BY <5>1, <5>2
      <4>4. DOMAIN used'[d] = 1..(a + 1) /\ Len(used'[d]) <= Len(history'[d])
        BY <1>2, <1>3, <1>15, <1>16
      <4> QED BY <3>2, <4>1, <4>3, <4>4
    <3> QED BY <3>1, <3>2
  <2>3. \A e \in Seat!Dev :
          /\ Len(used'[e]) <= Len(history'[e])
          /\ \A i \in DOMAIN used'[e] : used'[e][i] = history'[e][Seat!Number(e)' - 1 + i]
    BY <1>4, <2>2
  <2> QED BY <1>1, <2>1, <2>3 DEF Seat!SeatTypeOK
<1>7. \A e \in Seat!Dev : \A type : Seat!Given(e, type)' = Seat!Given(e, type)
  <2> SUFFICES ASSUME NEW e \in Seat!Dev, NEW type PROVE Seat!Given(e, type)' = Seat!Given(e, type)
    OBVIOUS
  <2>1. \A n \in 1..Seat!Number(e)-1 : n \in 1..Len(history[e])
    BY <1>5
  <2>2. \A n \in 1..Len(history[e]) : history'[e][n] = history[e][n]
    BY <1>2, <1>3
  <2> QED BY <1>4, <2>1, <2>2 DEF Seat!Given
<1>8. \A op, type : \A e \in Seat!Dev : Seat!Delivered(op, e, type)' = Seat!Delivered(op, e, type)
  BY <1>1, <1>7 DEF Seat!Delivered
<1>9. \A n \in 0..Len(history["mouse"]) : \A axis : Seat!At(n, axis)' = Seat!At(n, axis)
  <2>1. /\ history["mouse"] \in Seq(Seat!Event)
        /\ history'["mouse"] = history["mouse"] \/ history'["mouse"] = Append(history["mouse"], event)
    BY <1>1, <1>3 DEF Seat!Dev
  <2> QED BY <2>1, AtKept
<1>10. /\ \A i \in DOMAIN sent : sent[i].op = "motion" => sent[i].of \in 0..Len(history["mouse"])
       /\ Seat!Number("mouse") - 1 \in 0..Len(history["mouse"])
  <2>1. "mouse" \in Seat!Dev
    BY DEF Seat!Dev
  <2>2. Seat!Given("mouse", "EV_SYN") \subseteq 0..Len(history["mouse"])
    BY <1>5, <2>1 DEF Seat!Given
  <2> QED BY <1>5, <2>1, <2>2 DEF SeatInv, Seat!MotionsTrue, Seat!Delivered
<1>11. Seat!MotionsTrue'
  BY <1>1, <1>8, <1>9, <1>10 DEF Seat!MotionsTrue, SeatInv, Seat!Dev
<1>12. \A e \in Seat!Dev : used'[e] # << >> => irq'[e] \/ seat_pc' = e
  BY <1>1, <1>3 DEF SeatInv, Seat!SeatTypeOK
<1>13. x' = Seat!At(Seat!Number("mouse") - 1, "ABS_X")' /\ y' = Seat!At(Seat!Number("mouse") - 1, "ABS_Y")'
  <2>1. PICK m : m = Seat!Number("mouse") - 1
    OBVIOUS
  <2>2. m = Seat!Number("mouse")' - 1
    BY <1>4, <2>1 DEF Seat!Dev
  <2>3. Seat!At(m, "ABS_X")' = Seat!At(m, "ABS_X") /\ Seat!At(m, "ABS_Y")' = Seat!At(m, "ABS_Y")
    BY <1>9, <1>10, <2>1
  <2>4. x = Seat!At(m, "ABS_X") /\ y = Seat!At(m, "ABS_Y")
    BY <2>1 DEF SeatInv
  <2> QED BY <1>1, <2>2, <2>3, <2>4
<1> QED BY <1>1, <1>6, <1>8, <1>11, <1>12, <1>13, QuietClient DEF SeatInv, Seat!Dev
\* The driver gives one more event.
LEMMA TakeStep ==
  ASSUME SeatInv, NEW d \in Seat!Dev, Seat!virtio_input_recv(d), history' = history
  PROVE  /\ UNCHANGED <<seat_surface, keyboard, pointer, seat_pc, irq>>
         /\ used' \in [Seat!Dev -> Seq(Seat!Event)] /\ Seat!Number(d)' = Seat!Number(d) + 1
         /\ \A e \in Seat!Dev : e # d => Seat!Number(e)' = Seat!Number(e)
         /\ \A e \in Seat!Dev :
              /\ Len(used'[e]) <= Len(history[e])
              /\ \A i \in DOMAIN used'[e] : used'[e][i] = history[e][Seat!Number(e)' - 1 + i]
              /\ used'[e] # << >> => irq'[e] \/ seat_pc' = e
<1>1. /\ UNCHANGED <<seat_surface, keyboard, pointer, seat_pc, irq>> /\ Seat!SeatTypeOK
      /\ used[d] # << >> /\ seat_pc = d /\ used' = [used EXCEPT ![d] = Tail(@)]
      /\ used \in [Seat!Dev -> Seq(Seat!Event)]
  BY DEF Seat!virtio_input_recv, SeatInv, Seat!SeatTypeOK
<1>2. used'[d] = Tail(used[d]) /\ \A e \in Seat!Dev : e # d => used'[e] = used[e]
  BY <1>1
<1>3. PICK a, b, m : a = Len(used[d]) /\ b = Len(history[d]) /\ m = Seat!Number(d)
  OBVIOUS
<1>4. /\ a \in Nat \ {0} /\ b \in Nat /\ a <= b /\ m = b - a + 1 /\ m \in Nat \ {0}
      /\ Tail(used[d]) \in Seq(Seat!Event) /\ Len(used'[d]) = a - 1
      /\ \A i \in 1..(a - 1) : used'[d][i] = used[d][i+1]
      /\ \A i \in 1..a : used[d][i] = history[d][m - 1 + i]
      /\ DOMAIN used'[d] = 1..(a - 1)
  <2>1. /\ m \in Nat \ {0} /\ b \in Nat /\ Tail(used[d]) \in Seq(Seat!Event) /\ Len(used'[d]) = a - 1
        /\ \A i \in 1..(a - 1) : used'[d][i] = used[d][i+1]
    BY <1>1, <1>2, <1>3, NextEvent
  <2>2. a \in Nat \ {0} /\ DOMAIN used[d] = 1..a /\ m = b - a + 1
    BY <1>1, <1>3, LenProperties, EmptySeq DEF Seat!Number
  <2>3. a <= b /\ \A i \in 1..a : used[d][i] = history[d][m - 1 + i]
    BY <1>1, <1>3, <2>2 DEF Seat!SeatTypeOK
  <2>4. DOMAIN used'[d] = 1..(a - 1)
    BY <1>2, <2>1, LenProperties
  <2> QED BY <2>1, <2>2, <2>3, <2>4
<1>5. Seat!Number(d)' = m + 1
  <2>1. b - (a - 1) + 1 = m + 1
    BY <1>4
  <2> QED BY <1>3, <1>4, <2>1 DEF Seat!Number
<1>6. \A e \in Seat!Dev : e # d => Seat!Number(e)' = Seat!Number(e)
  BY <1>2 DEF Seat!Number
<1>7. ASSUME NEW e \in Seat!Dev
      PROVE  /\ Len(used'[e]) <= Len(history[e])
             /\ \A i \in DOMAIN used'[e] : used'[e][i] = history[e][Seat!Number(e)' - 1 + i]
             /\ used'[e] # << >> => irq'[e] \/ seat_pc' = e
  <2>1. CASE e # d
    BY <1>1, <1>2, <1>6, <2>1 DEF Seat!SeatTypeOK, SeatInv
  <2>2. CASE e = d
    <3>1. ASSUME NEW i \in 1..(a - 1) PROVE used'[d][i] = history[d][(m + 1) - 1 + i]
      <4>0. a \in Nat /\ m \in Nat
        BY <1>4
      <4>1. used'[d][i] = used[d][i+1] /\ i + 1 \in 1..a /\ m - 1 + (i + 1) = (m + 1) - 1 + i
        BY <1>4, <4>0
      <4>2. used[d][i+1] = history[d][m - 1 + (i + 1)]
        BY <1>4, <4>1
      <4> QED BY <4>1, <4>2
    <3>2. a - 1 <= b
      BY <1>4
    <3> QED BY <1>1, <1>3, <1>4, <1>5, <2>2, <3>1, <3>2
  <2> QED BY <2>1, <2>2
<1> QED BY <1>1, <1>2, <1>3, <1>4, <1>5, <1>6, <1>7

\* A handler whose messages are due sends nothing out of turn.
LEMMA TalkStep ==
  ASSUME SeatInv, NEW more \in Seq(Seat!Message), sent' = sent \o more, NEW n \in Nat, n = Len(sent),
         UNCHANGED <<seat_surface, keyboard, pointer>>,
         \A i \in 1..Len(more) : Addressed(more[i]) /\ Due(more, i)
  PROVE  /\ sent' \in Seq(Seat!Message) /\ Seat!EnterFirst' /\ (\A i \in DOMAIN sent : Addressed(sent[i]))'
         /\ (\A k \in 1..keyboard : Seat!Told("keymap", k))'
<1>1. Seat!SeatTypeOK
  BY DEF SeatInv
<1>2. /\ sent' \in Seq(Seat!Message) /\ Len(sent') = n + Len(more) /\ Len(more) \in Nat
      /\ DOMAIN sent = 1..n /\ DOMAIN sent' = 1..Len(sent')
      /\ \A i \in 1..n : sent'[i] = sent[i] /\ sent[i] \in Seat!Message
      /\ \A i \in 1..Len(more) : sent'[n + i] = more[i]
  BY <1>1, SentGrows DEF Seat!SeatTypeOK
<1>3. (\A i \in DOMAIN sent : Seat!InTurn(i))'
  <2>1. \A i \in 1..Len(more) : Seat!InTurn(n + i)'
    BY <1>1, NewTurn
  <2> QED BY <1>1, <2>1, TurnsGrow DEF SeatInv, Seat!EnterFirst
<1>4. \A op, object : Seat!Told(op, object) => Seat!Told(op, object)'
  BY <1>1, ToldGrows
<1>5. Seat!EnterFirst'
  BY <1>3, <1>4 DEF Seat!EnterFirst, SeatInv
<1>6. (\A i \in DOMAIN sent : Addressed(sent[i]))'
  <2> SUFFICES ASSUME NEW i \in DOMAIN sent' PROVE Addressed(sent[i])'
    OBVIOUS
  <2>1. CASE i \in 1..n
    BY <1>2, <2>1 DEF SeatInv, Addressed
  <2>2. CASE i \notin 1..n
    <3> DEFINE j == i - n
    <3>1. j \in 1..Len(more) /\ i = n + j
      BY <1>2, <2>2
    <3> HIDE DEF j
    <3>2. sent'[i] = more[j]
      BY <1>2, <3>1
    <3> QED BY <3>1, <3>2 DEF Addressed
  <2> QED BY <2>1, <2>2
<1> QED BY <1>2, <1>4, <1>5, <1>6 DEF SeatInv

\* What no message has told of yet.
LEMMA NotYet ==
  ASSUME Seat!SeatAssumption, SeatInv, NEW i \in DOMAIN sent
  PROVE  /\ seat_surface = 0 => sent[i].op = "keymap"
         /\ keyboard = 0 => sent[i].op \notin Seat!KeyboardOps
         /\ pointer = 0 => sent[i].op \notin Seat!PointerOps
<1>1. sent[i] \in Seat!Message /\ Addressed(sent[i])
  BY ElementOfSeq DEF SeatInv, Seat!SeatTypeOK
<1>2. sent[i].to \in 1..Objects
  BY <1>1 DEF Seat!Message
<1>3. sent[i].to \in Nat /\ sent[i].to >= 1
  BY <1>2 DEF Seat!SeatAssumption
<1> QED BY <1>1, <1>3 DEF Addressed

\* handle_keyboard_events tells of the key it takes, if there is one to tell.
LEMMA KeyStep ==
  ASSUME Seat!SeatAssumption, SeatInv, Seat!handle_keyboard_events
  PROVE  SeatInv'
<1> DEFINE d == "keyboard"
           key == Seat!MsgOf("key", keyboard, Seat!Number(d))
           tell == Head(used[d]).type = "EV_KEY" /\ seat_surface # 0 /\ keyboard # 0
           new == IF tell THEN <<key>> ELSE << >>
<1>1. /\ Seat!virtio_input_recv(d) /\ history' = history /\ UNCHANGED <<x, y>> /\ d \in Seat!Dev
      /\ sent' = IF tell THEN Append(sent, key) ELSE sent
      /\ Seat!SeatTypeOK /\ sent \in Seq(Seat!Message) /\ keyboard \in 0..Objects /\ used[d] # << >>
  BY DEF Seat!handle_keyboard_events, Seat!virtio_input_recv, SeatInv, Seat!SeatTypeOK, Seat!Dev
<1>2. /\ Head(used[d]) = history[d][Seat!Number(d)] /\ Seat!Number(d) \in Nat
  BY <1>1, NextEvent
<1>3. tell => key \in Seat!Message
  <2> SUFFICES ASSUME tell PROVE key \in Seat!Message
    OBVIOUS
  <2>1. keyboard \in 1..Objects /\ "key" \in Seat!KeyboardOps
    BY <1>1 DEF Seat!SeatAssumption, Seat!KeyboardOps
  <2> QED BY <1>2, <2>1, MessageTypes
<1>4. new \in Seq(Seat!Message) /\ sent' = sent \o new
  <2>1. CASE tell
    <3>1. Append(sent, key) = sent \o <<key>>
      BY <1>1, <1>3, <2>1, AppendIsConcat
    <3> QED BY <1>1, <1>3, <2>1, <3>1
  <2>2. CASE ~ tell
    BY <1>1, <2>2, ConcatEmptySeq
  <2> QED BY <2>1, <2>2
<1>5. /\ \A i \in 1..Len(new) : tell /\ i = 1
      /\ tell => /\ 1 \in 1..Len(new) /\ new[1].op = "key" /\ new[1].to = keyboard
                 /\ new[1].of = Seat!Number(d)
                 /\ \A i \in 2..Len(new) : FALSE
  BY DEF Seat!MsgOf, Seat!Msg
<1> HIDE DEF new, key
<1>6. PICK more, n : more = new /\ n = Len(sent)
  OBVIOUS
<1>7. more \in Seq(Seat!Message) /\ sent' = sent \o more /\ n \in Nat
  BY <1>1, <1>4, <1>6, LenProperties
<1>8. /\ UNCHANGED <<seat_surface, keyboard, pointer, seat_pc, irq>>
      /\ used' \in [Seat!Dev -> Seq(Seat!Event)] /\ Seat!Number(d)' = Seat!Number(d) + 1
      /\ Seat!Number("mouse")' = Seat!Number("mouse")
      /\ \A e \in Seat!Dev :
           /\ Len(used'[e]) <= Len(history[e])
           /\ \A i \in DOMAIN used'[e] : used'[e][i] = history[e][Seat!Number(e)' - 1 + i]
           /\ used'[e] # << >> => irq'[e] \/ seat_pc' = e
  BY <1>1, TakeStep DEF Seat!Dev
<1>9. \A i \in 1..Len(more) : Addressed(more[i]) /\ Due(more, i)
  <2> SUFFICES ASSUME NEW i \in 1..Len(more) PROVE Addressed(more[i]) /\ Due(more, i)
    OBVIOUS
  <2>1. tell /\ i = 1 /\ more[i].op = "key" /\ more[i].to = keyboard
    BY <1>5, <1>6
  <2>2. Seat!Told("keyboard_enter", keyboard)
    BY <2>1 DEF SeatInv, Seat!EnterFirst
  <2> QED BY <1>1, <2>1, <2>2 DEF Addressed, Due, Seat!PointerOps, Seat!SeatAssumption
<1>10. /\ sent' \in Seq(Seat!Message) /\ Seat!EnterFirst' /\ (\A i \in DOMAIN sent : Addressed(sent[i]))'
       /\ (\A k \in 1..keyboard : Seat!Told("keymap", k))'
  BY <1>6, <1>7, <1>8, <1>9, TalkStep
<1>11. Seat!SeatTypeOK'
  BY <1>1, <1>8, <1>10 DEF Seat!SeatTypeOK
<1>12. Seat!Delivered("key", "keyboard", "EV_KEY")'
  <2>1. CASE tell
    <3>1. /\ history[d][Seat!Number(d)].type = "EV_KEY"
          /\ 1 \in 1..Len(more) /\ more[1].op = "key" /\ more[1].of = Seat!Number(d)
          /\ \A i \in 2..Len(more) : more[i].op # "key"
      BY <1>2, <1>5, <1>6, <2>1
    <3> QED BY <1>1, <1>7, <1>8, <3>1, DeliveredStep DEF SeatInv
  <2>2. CASE ~ tell
    <3>1. \A i \in 1..Len(more) : more[i].op # "key"
      BY <1>5, <1>6, <2>2
    <3>2. history[d][Seat!Number(d)].type # "EV_KEY" \/ \A i \in DOMAIN sent : sent[i].op # "key"
      BY <1>2, <2>2, NotYet DEF Seat!KeyboardOps
    <3> QED BY <1>1, <1>7, <1>8, <3>1, <3>2, DeliveredStep DEF SeatInv
  <2> QED BY <2>1, <2>2
<1>13. \A i \in 1..Len(more) : more[i].op \notin {"button", "motion"}
  BY <1>5, <1>6
<1>14. Seat!Delivered("button", "mouse", "EV_KEY")' /\ Seat!Delivered("motion", "mouse", "EV_SYN")'
  <2>1. "mouse" \in Seat!Dev /\ Seat!Delivered("button", "mouse", "EV_KEY") /\ Seat!Delivered("motion", "mouse", "EV_SYN")
    BY DEF SeatInv, Seat!Dev, Seat!MotionsTrue
  <2> QED BY <1>1, <1>7, <1>8, <1>13, <2>1, DeliveredStep
<1>15. \A m, axis : Seat!At(m, axis)' = Seat!At(m, axis)
  BY <1>1 DEF Seat!At, Seat!Moves
<1>16. Seat!MotionsTrue'
  <2>1. \A i \in DOMAIN sent' : sent'[i].op = "motion" => i \in DOMAIN sent /\ sent'[i] = sent[i]
    BY <1>1, <1>7, <1>13, OldMotions
  <2> QED BY <1>14, <1>15, <2>1 DEF Seat!MotionsTrue, SeatInv
<1>17. x' = Seat!At(Seat!Number("mouse") - 1, "ABS_X")' /\ y' = Seat!At(Seat!Number("mouse") - 1, "ABS_Y")'
  BY <1>1, <1>8, <1>15 DEF SeatInv
<1> QED BY <1>1, <1>8, <1>10, <1>11, <1>12, <1>14, <1>16, <1>17 DEF SeatInv
\* handle_mouse_events tells of the report or the button it takes, and keeps
\* the position for the reports that come.
LEMMA MouseStep ==
  ASSUME Seat!SeatAssumption, SeatInv, Seat!handle_mouse_events
  PROVE  SeatInv'
<1> DEFINE d == "mouse"
           seen == seat_surface # 0 /\ pointer # 0
           type == Head(used[d]).type
           motion == [Seat!MsgAt("motion", pointer, <<x, y>>) EXCEPT !.of = Seat!Number(d)]
           button == Seat!MsgOf("button", pointer, Seat!Number(d))
           frame == Seat!Msg("frame", pointer)
           new == IF seen /\ type = "EV_SYN" THEN <<motion, frame>>
                  ELSE IF seen /\ type = "EV_KEY" THEN <<button>> ELSE << >>
<1>1. /\ Seat!virtio_input_recv(d) /\ history' = history /\ d \in Seat!Dev
      /\ sent' = IF ~ seen THEN sent
                 ELSE CASE type = "EV_SYN" -> sent \o <<motion, frame>>
                        [] type = "EV_KEY" -> Append(sent, button)
                        [] OTHER -> sent
      /\ x' = IF type = "ABS_X" THEN Head(used[d]).value ELSE x
      /\ y' = IF type = "ABS_Y" THEN Head(used[d]).value ELSE y
      /\ Seat!SeatTypeOK /\ sent \in Seq(Seat!Message) /\ pointer \in 0..Objects /\ used[d] # << >>
      /\ x \in Coord \cup {0} /\ y \in Coord \cup {0} /\ history[d] \in Seq(Seat!Event)
  BY DEF Seat!handle_mouse_events, Seat!virtio_input_recv, SeatInv, Seat!SeatTypeOK, Seat!Dev
<1>2. /\ Head(used[d]) = history[d][Seat!Number(d)] /\ Seat!Number(d) \in Nat \ {0}
      /\ Seat!Number(d) <= Len(history[d]) /\ Head(used[d]) \in Seat!Event
  BY <1>1, NextEvent
<1>3. seen => motion \in Seat!Message /\ button \in Seat!Message /\ frame \in Seat!Message
  <2> SUFFICES ASSUME seen PROVE motion \in Seat!Message /\ button \in Seat!Message /\ frame \in Seat!Message
    OBVIOUS
  <2>1. /\ pointer \in 1..Objects /\ <<x, y>> \in Seat!Position /\ Seat!Number(d) \in Nat
        /\ "motion" \in Seat!PointerOps /\ "button" \in Seat!PointerOps /\ "frame" \in Seat!PointerOps
    BY <1>1, <1>2 DEF Seat!SeatAssumption, Seat!PointerOps, Seat!Position
  <2> HIDE DEF d
  <2> QED BY <2>1, MessageTypes
<1>4. new \in Seq(Seat!Message) /\ sent' = sent \o new
  <2> HIDE DEF type, motion, button, frame
  <2>1. CASE seen /\ type = "EV_SYN"
    BY <1>1, <1>3, <2>1
  <2>2. CASE seen /\ type = "EV_KEY"
    <3>1. Append(sent, button) = sent \o <<button>>
      BY <1>1, <1>3, <2>2, AppendIsConcat
    <3> QED BY <1>1, <1>3, <2>2, <3>1
  <2>3. CASE ~ seen \/ type \notin {"EV_SYN", "EV_KEY"}
    BY <1>1, <2>3, ConcatEmptySeq
  <2> QED BY <2>1, <2>2, <2>3
<1>5. /\ \A i \in 1..Len(new) :
           \/ i = 1 /\ new[i] = motion /\ seen /\ type = "EV_SYN"
           \/ i = 2 /\ new[i] = frame /\ seen /\ type = "EV_SYN"
           \/ i = 1 /\ new[i] = button /\ seen /\ type = "EV_KEY"
      /\ seen /\ type = "EV_SYN" => 1 \in 1..Len(new) /\ new[1] = motion
      /\ seen /\ type = "EV_KEY" => 1 \in 1..Len(new) /\ new[1] = button
  <2> HIDE DEF type, motion, button, frame
  <2> QED OBVIOUS
<1>6. /\ motion.op = "motion" /\ motion.to = pointer /\ motion.of = Seat!Number(d) /\ motion.at = <<x, y>>
      /\ button.op = "button" /\ button.to = pointer /\ button.of = Seat!Number(d)
      /\ frame.op = "frame" /\ frame.to = pointer
  BY DEF Seat!MsgAt, Seat!MsgOf, Seat!Msg
<1> HIDE DEF new, motion, button, frame
<1>7. PICK more, n, number : more = new /\ n = Len(sent) /\ number = Seat!Number(d)
  OBVIOUS
<1>8. more \in Seq(Seat!Message) /\ sent' = sent \o more /\ n \in Nat
  BY <1>1, <1>4, <1>7, LenProperties
<1>9. /\ UNCHANGED <<seat_surface, keyboard, pointer, seat_pc, irq>>
      /\ used' \in [Seat!Dev -> Seq(Seat!Event)] /\ Seat!Number(d)' = Seat!Number(d) + 1
      /\ Seat!Number("keyboard")' = Seat!Number("keyboard")
      /\ \A e \in Seat!Dev :
           /\ Len(used'[e]) <= Len(history[e])
           /\ \A i \in DOMAIN used'[e] : used'[e][i] = history[e][Seat!Number(e)' - 1 + i]
           /\ used'[e] # << >> => irq'[e] \/ seat_pc' = e
  BY <1>1, TakeStep DEF Seat!Dev
<1>10. \A i \in 1..Len(more) : Addressed(more[i]) /\ Due(more, i)
  <2> SUFFICES ASSUME NEW i \in 1..Len(more) PROVE Addressed(more[i]) /\ Due(more, i)
    OBVIOUS
  <2>1. seen /\ more[i].op \in {"motion", "frame", "button"} /\ more[i].to = pointer
    BY <1>5, <1>6, <1>7
  <2>2. Seat!Told("pointer_enter", pointer)
    BY <2>1 DEF SeatInv, Seat!EnterFirst
  <2> QED BY <1>1, <2>1, <2>2 DEF Addressed, Due, Seat!KeyboardOps, Seat!SeatAssumption
<1>11. /\ sent' \in Seq(Seat!Message) /\ Seat!EnterFirst' /\ (\A i \in DOMAIN sent : Addressed(sent[i]))'
       /\ (\A k \in 1..keyboard : Seat!Told("keymap", k))'
  BY <1>7, <1>8, <1>9, <1>10, TalkStep
<1>12. Seat!SeatTypeOK'
  <2>1. x' \in Coord \cup {0} /\ y' \in Coord \cup {0}
    BY <1>1, <1>2 DEF Seat!Event
  <2> QED BY <1>1, <1>9, <1>11, <2>1 DEF Seat!SeatTypeOK
<1>13. Seat!Delivered("key", "keyboard", "EV_KEY")'
  <2>1. \A i \in 1..Len(more) : more[i].op # "key"
    BY <1>5, <1>6, <1>7
  <2> QED BY <1>8, <1>9, <1>1, <2>1, DeliveredStep DEF SeatInv, Seat!Dev
<1>14. ~ seen => \A i \in DOMAIN sent : sent[i].op \notin {"motion", "button"}
  BY NotYet DEF Seat!PointerOps
<1>15. Seat!Delivered("button", "mouse", "EV_KEY")'
  <2>1. CASE seen /\ type = "EV_KEY"
    <3>1. /\ history[d][Seat!Number(d)].type = "EV_KEY"
          /\ 1 \in 1..Len(more) /\ more[1].op = "button" /\ more[1].of = Seat!Number(d)
          /\ \A i \in 2..Len(more) : more[i].op # "button"
      BY <1>2, <1>5, <1>6, <1>7, <2>1
    <3> QED BY <1>1, <1>8, <1>9, <3>1, DeliveredStep DEF SeatInv
  <2>2. CASE ~ (seen /\ type = "EV_KEY")
    <3>1. \A i \in 1..Len(more) : more[i].op # "button"
      BY <1>5, <1>6, <1>7, <2>2
    <3>2. history[d][Seat!Number(d)].type # "EV_KEY" \/ \A i \in DOMAIN sent : sent[i].op # "button"
      BY <1>2, <1>14, <2>2
    <3> QED BY <1>1, <1>8, <1>9, <3>1, <3>2, DeliveredStep DEF SeatInv
  <2> QED BY <2>1, <2>2
<1>16. Seat!Delivered("motion", "mouse", "EV_SYN")'
  <2>0. Seat!Delivered("motion", "mouse", "EV_SYN")
    BY DEF SeatInv, Seat!MotionsTrue
  <2>1. CASE seen /\ type = "EV_SYN"
    <3>1. /\ history[d][Seat!Number(d)].type = "EV_SYN"
          /\ 1 \in 1..Len(more) /\ more[1].op = "motion" /\ more[1].of = Seat!Number(d)
          /\ \A i \in 2..Len(more) : more[i].op # "motion"
      BY <1>2, <1>5, <1>6, <1>7, <2>1
    <3> QED BY <1>1, <1>8, <1>9, <2>0, <3>1, DeliveredStep
  <2>2. CASE ~ (seen /\ type = "EV_SYN")
    <3>1. \A i \in 1..Len(more) : more[i].op # "motion"
      BY <1>5, <1>6, <1>7, <2>2
    <3>2. history[d][Seat!Number(d)].type # "EV_SYN" \/ \A i \in DOMAIN sent : sent[i].op # "motion"
      BY <1>2, <1>14, <2>2
    <3> QED BY <1>1, <1>8, <1>9, <2>0, <3>1, <3>2, DeliveredStep
  <2> QED BY <2>1, <2>2
<1>17. \A m, axis : Seat!At(m, axis)' = Seat!At(m, axis)
  BY <1>1 DEF Seat!At, Seat!Moves
<1>18. /\ x = Seat!At(number - 1, "ABS_X") /\ y = Seat!At(number - 1, "ABS_Y")
       /\ number \in Nat \ {0} /\ Seat!Number("mouse")' = number + 1
  BY <1>2, <1>7, <1>9 DEF SeatInv
<1>19. \A axis : Seat!At(number, axis) = IF type = axis THEN Head(used[d]).value
                                    ELSE Seat!At(number - 1, axis)
  <2>1. number - 1 \in Nat /\ number - 1 < Len(history[d]) /\ (number - 1) + 1 = number
    BY <1>2, <1>7, <1>1, LenProperties
  <2>2. \A axis : Seat!At((number - 1) + 1, axis) = IF history[d][(number - 1) + 1].type = axis
                           THEN history[d][(number - 1) + 1].value ELSE Seat!At(number - 1, axis)
    BY <1>1, <2>1, AtNext
  <2> QED BY <1>2, <1>7, <2>1, <2>2
<1>20. x' = Seat!At(number, "ABS_X") /\ y' = Seat!At(number, "ABS_Y")
  BY <1>1, <1>18, <1>19
<1>21. x' = Seat!At(Seat!Number("mouse") - 1, "ABS_X")' /\ y' = Seat!At(Seat!Number("mouse") - 1, "ABS_Y")'
  <2>1. Seat!Number("mouse")' - 1 = number
    BY <1>18
  <2> QED BY <1>17, <1>20, <2>1
<1>22. Seat!MotionsTrue'
  <2> SUFFICES ASSUME NEW i \in DOMAIN sent', sent'[i].op = "motion"
               PROVE  (sent[i].at = <<Seat!At(sent[i].of, "ABS_X"), Seat!At(sent[i].of, "ABS_Y")>>)'
    BY <1>16 DEF Seat!MotionsTrue
  <2>1. /\ DOMAIN sent = 1..n /\ DOMAIN sent' = 1..Len(sent') /\ Len(sent') = n + Len(more)
        /\ Len(more) \in Nat
        /\ \A j \in 1..n : sent'[j] = sent[j]
        /\ \A j \in 1..Len(more) : sent'[n + j] = more[j]
    BY <1>1, <1>7, <1>8, SentGrows
  <2>2. CASE i \in 1..n
    <3>1. sent'[i] = sent[i] /\ i \in DOMAIN sent
      BY <2>1, <2>2
    <3>2. PICK m : m = sent[i].of
      OBVIOUS
    <3>3. sent[i].at = <<Seat!At(m, "ABS_X"), Seat!At(m, "ABS_Y")>>
      BY <3>1, <3>2 DEF SeatInv, Seat!MotionsTrue
    <3>4. Seat!At(m, "ABS_X")' = Seat!At(m, "ABS_X") /\ Seat!At(m, "ABS_Y")' = Seat!At(m, "ABS_Y")
      BY <1>17
    <3> QED BY <3>1, <3>2, <3>3, <3>4
  <2>3. CASE i \notin 1..n
    <3> DEFINE j == i - n
    <3>1. j \in 1..Len(more) /\ i = n + j
      BY <1>8, <2>1, <2>3
    <3> HIDE DEF j
    <3>2. sent'[i] = more[j]
      BY <2>1, <3>1
    <3>3. more[j] = motion /\ type = "EV_SYN"
      BY <1>5, <1>6, <1>7, <3>1, <3>2
    <3>4. sent'[i].of = number /\ sent'[i].at = <<x, y>>
      BY <1>6, <1>7, <3>2, <3>3
    <3>5. x = Seat!At(number, "ABS_X") /\ y = Seat!At(number, "ABS_Y")
      BY <1>18, <1>19, <3>3
    <3>6. Seat!At(number, "ABS_X")' = Seat!At(number, "ABS_X") /\ Seat!At(number, "ABS_Y")' = Seat!At(number, "ABS_Y")
      BY <1>17
    <3> QED BY <3>4, <3>5, <3>6
  <2> QED BY <2>2, <2>3
<1> QED BY <1>1, <1>9, <1>11, <1>12, <1>13, <1>15, <1>21, <1>22 DEF SeatInv

-----------------------------------------------------------------------------
LEMMA SeatStep == Seat!SeatAssumption /\ SeatInv /\ [Seat!Next]_(Seat!vars) => SeatInv'
<1> SUFFICES ASSUME Seat!SeatAssumption, SeatInv, [Seat!Next]_(Seat!vars) PROVE SeatInv'
  OBVIOUS
<1>1. CASE Seat!xdg_wm_base_on_get_xdg_surface
  BY <1>1, SurfaceStep
<1>2. CASE Seat!wl_seat_on_get_pointer
  BY <1>2, PointerStep
<1>3. CASE Seat!wl_seat_on_get_keyboard
  BY <1>3, KeyboardStep
<1>4. CASE \E d \in Seat!Dev : Seat!handle_events(d) \/ Seat!handle_events_End(d)
  BY <1>4, LoopStep
<1>5. CASE Seat!handle_keyboard_events
  BY <1>5, KeyStep
<1>6. CASE Seat!handle_mouse_events
  BY <1>6, MouseStep
<1>7. CASE Seat!KeyboardEvent
  BY <1>7, EventStep DEF Seat!KeyboardEvent, Seat!Dev
<1>8. CASE Seat!MouseEvent
  BY <1>8, EventStep DEF Seat!MouseEvent, Seat!Dev
<1>9. CASE UNCHANGED Seat!vars
  <2>1. UNCHANGED <<seat_surface, keyboard, pointer, x, y, seat_pc, used, irq, history, sent>>
    BY <1>9 DEF Seat!vars, Seat!infoVars, Seat!devVars
  <2>2. /\ \A e : Seat!Number(e)' = Seat!Number(e)
        /\ \A n, axis : Seat!At(n, axis)' = Seat!At(n, axis)
    BY <2>1 DEF Seat!Number, Seat!At, Seat!Moves
  <2>3. \A op, e, type : Seat!Delivered(op, e, type)' = Seat!Delivered(op, e, type)
    BY <2>1, <2>2 DEF Seat!Delivered, Seat!Given
  <2>4. Seat!SeatTypeOK' /\ Seat!MotionsTrue'
    BY <2>1, <2>2, <2>3 DEF SeatInv, Seat!SeatTypeOK, Seat!MotionsTrue
  <2> QED BY <2>1, <2>2, <2>3, <2>4, QuietClient DEF SeatInv
<1> QED BY <1>1, <1>2, <1>3, <1>4, <1>5, <1>6, <1>7, <1>8, <1>9 DEF Seat!Next, Seat!Handlers

\* The messages of the seat and the positions it keeps are what SeatInv says.
THEOREM SeatInvHolds == ASSUME Seat!SeatAssumption PROVE Seat!Spec => []SeatInv
<1>1. Seat!Init => SeatInv
  BY InitSeat
<1>2. SeatInv /\ [Seat!Next]_(Seat!vars) => SeatInv'
  BY SeatStep
<1> QED BY <1>1, <1>2, PTL DEF Seat!Spec

\* From some event on the client hears of every key, button and report, once and
\* in order, and a motion is where the tablet was at that report
\* (handle_keyboard_events, handle_mouse_events, handle_events).
THEOREM SeatDelivers == ASSUME Seat!SeatAssumption PROVE Seat!Spec => []InputDelivered
<1>1. SeatInv => InputDelivered
  BY DEF SeatInv, InputDelivered, Seat!InputDelivered, Seat!KeysInOrder
<1> QED BY <1>1, SeatInvHolds, PTL

-----------------------------------------------------------------------------
(* The consoles: two pipes, and masks that follow their buffers.           *)

Words == Seq(Nat)
Directions  == {Pty!EPOLLIN, Pty!EPOLLOUT}

\* The kinds of the variables that the argument is about.
ConsoleKinds ==
  /\ typed \in Words /\ stdin_buf \in Words /\ slave_in \in Words
  /\ slave_out \in Words /\ stdout_buf \in Words /\ shown \in Words
  /\ stdin_on \in BOOLEAN /\ stdout_on \in BOOLEAN /\ irqs \subseteq {Pty!receiveq, Pty!transmitq}
  /\ master_mask \subseteq Directions /\ running \subseteq Directions
  /\ keys \in Nat /\ prints \in Nat /\ failures \in Nat
  /\ Len(stdin_buf) <= Chunk /\ Len(stdout_buf) <= Chunk /\ Len(slave_in) <= Room

\* A direction's buffer is in one place: with the caller's end or the device,
\* on its way in an interrupt, or with the master.
OneHolder ==
  /\ Pty!EPOLLIN \in master_mask => ~ stdout_on /\ stdout_buf = <<>> /\ Pty!transmitq \notin irqs
  /\ Pty!transmitq \in irqs => ~ stdout_on /\ stdout_buf = <<>>
  /\ Pty!EPOLLOUT \in master_mask => ~ stdin_on /\ stdin_buf # <<>> /\ Pty!receiveq \notin irqs
  /\ Pty!receiveq \in irqs => ~ stdin_on /\ stdin_buf # <<>>
  /\ stdin_on => stdin_buf = <<>>

\* What the loop has still to do was waited for, in a direction that is not over.
Pending ==
  /\ got \cap Directions \subseteq master_mask /\ (got # {} => "end" \in got)
  /\ Pty!EPOLLIN \in master_mask => Pty!EPOLLIN \in running
  /\ Pty!EPOLLOUT \in master_mask /\ (got = {} \/ Pty!EPOLLOUT \in got) => Pty!EPOLLOUT \in running

\* Without a failure a direction that is not over always has a holder, in the
\* midst of the loop too.
NoneLost ==
  failures = 0 =>
    /\ Pty!EPOLLIN \in running => Pty!EPOLLIN \in master_mask \/ stdout_on \/ Pty!transmitq \in irqs
    /\ Pty!EPOLLOUT \in running => Pty!EPOLLOUT \in master_mask \/ stdin_on \/ Pty!receiveq \in irqs

ConsoleInv == ConsoleKinds /\ OneHolder /\ Pending /\ NoneLost

USE DEF Pty!EPOLLIN, Pty!EPOLLOUT, Pty!EPOLLHUP, Pty!receiveq, Pty!transmitq, Directions

-----------------------------------------------------------------------------
(* Sequences: what is taken from the front of a buffer and what is left.   *)

LEMMA Divided ==
  ASSUME NEW q \in Words, NEW n \in 1..Len(q)
  PROVE  /\ Pty!First(q, n) \in Words /\ Pty!Rest(q, n) \in Words /\ Pty!First(q, n) \o Pty!Rest(q, n) = q
         /\ Len(Pty!First(q, n)) = n /\ Len(Pty!Rest(q, n)) = Len(q) - n
         /\ Pty!Rest(q, n) = <<>> <=> n = Len(q)
<1>1. Len(q) \in Nat /\ n \in Nat /\ 1 <= n /\ n <= Len(q) /\ \A i \in 1..Len(q) : q[i] \in Nat
  BY LenProperties, ElementOfSeq DEF Words
<1>2. Pty!First(q, n) \in Words /\ Len(Pty!First(q, n)) = n
  <2>1. \A i \in 1..n : q[i] \in Nat
    BY <1>1
  <2> QED BY <1>1, <2>1, SubSeqProperties DEF Words, Pty!First
<1>3. Pty!Rest(q, n) \in Words /\ Len(Pty!Rest(q, n)) = Len(q) - n
  <2>1. \A i \in (n + 1)..Len(q) : q[i] \in Nat
    BY <1>1
  <2>2. /\ SubSeq(q, n + 1, Len(q)) \in Seq(Nat)
        /\ Len(SubSeq(q, n + 1, Len(q))) = IF n + 1 <= Len(q) THEN Len(q) - (n + 1) + 1 ELSE 0
    BY <1>1, <2>1, SubSeqProperties
  <2> QED BY <1>1, <2>2 DEF Words, Pty!Rest
<1>4. Pty!First(q, n) \o Pty!Rest(q, n) = q
  <2>1. SubSeq(q, 1, n) \o SubSeq(q, n + 1, Len(q)) = SubSeq(q, 1, Len(q))
    BY <1>1, ConcatAdjacentSubSeq DEF Words
  <2> QED BY <2>1, SubSeqFull DEF Words, Pty!First, Pty!Rest
<1>5. Pty!Rest(q, n) = <<>> <=> n = Len(q)
  BY <1>1, <1>3, EmptySeq DEF Words
<1> QED BY <1>2, <1>3, <1>4, <1>5

LEMMA Associative ==
  ASSUME NEW s \in Words, NEW t \in Words, NEW u \in Words
  PROVE  (s \o t) \o u = s \o (t \o u)
BY SMTT(20) DEF Words

LEMMA Joined ==
  ASSUME NEW s \in Words, NEW t \in Words, NEW u \in Words
  PROVE  /\ s \o t \in Words /\ Len(s \o t) = Len(s) + Len(t)
         /\ (s \o t) \o u = s \o (t \o u)
         /\ s \o <<>> = s /\ <<>> \o s = s /\ <<>> \in Words /\ Len(s) \in Nat
<1>1. s \o t \in Words /\ Len(s \o t) = Len(s) + Len(t)
  BY ConcatProperties DEF Words
<1>2. (s \o t) \o u = s \o (t \o u)
  BY Associative
<1>3. s \o <<>> = s /\ <<>> \o s = s
  BY ConcatEmptySeq DEF Words
<1>4. <<>> \in Words /\ Len(s) \in Nat
  BY EmptySeq, LenProperties DEF Words
<1> QED BY <1>1, <1>2, <1>3, <1>4

\* Concatenation by a name of its own: facts that only regroup are cited by it.
Join(s, t) == s \o t

LEMMA JoinAssociative ==
  ASSUME NEW s \in Words, NEW t \in Words, NEW u \in Words
  PROVE  Join(s, t) \in Words /\ Join(Join(s, t), u) = Join(s, Join(t, u))
BY SMTT(20) DEF Words, Join

LEMMA Regrouped ==
  ASSUME NEW s \in Words, NEW t \in Words, NEW u \in Words, NEW v \in Words
  PROVE  Join(Join(s, t), Join(u, v)) = Join(s, Join(Join(t, u), v))
BY JoinAssociative

LEMMA Appended ==
  ASSUME NEW s \in Words, NEW t \in Words, NEW k \in Nat
  PROVE  /\ Append(t, k) \in Words /\ s \o Append(t, k) = Append(s \o t, k)
         /\ Len(Append(t, k)) = Len(t) + 1 /\ Append(t, k)[Len(Append(t, k))] = k
<1>1. /\ Append(t, k) \in Words /\ Append(t, k) = t \o <<k>>
      /\ Len(Append(t, k)) = Len(t) + 1 /\ Append(t, k)[Len(Append(t, k))] = k
  BY AppendProperties, AppendIsConcat, LenProperties DEF Words
<1>2. s \o t \in Words /\ <<k>> \in Words
  BY Joined DEF Words
<1>3. Append(s \o t, k) = (s \o t) \o <<k>>
  BY <1>2, AppendIsConcat DEF Words
<1>4. (s \o t) \o <<k>> = s \o (t \o <<k>>)
  BY <1>2, Associative
<1> QED BY <1>1, <1>3, <1>4

LEMMA TailOfJoined ==
  ASSUME NEW s \in Words, NEW t \in Words, s # <<>>
  PROVE  Tail(s) \in Words /\ Len(Tail(s)) = Len(s) - 1
         /\ s \o t # <<>> /\ Tail(s \o t) = Tail(s) \o t
<1>1. Len(s) \in Nat \ {0} /\ Len(t) \in Nat
  BY EmptySeq, LenProperties DEF Words
<1>2. Tail(s) \in Words /\ Len(Tail(s)) = Len(s) - 1 /\ \A i \in 1..(Len(s) - 1) : Tail(s)[i] = s[i + 1]
  BY <1>1, HeadTailProperties DEF Words
<1>3. /\ s \o t \in Words /\ Len(s \o t) = Len(s) + Len(t)
      /\ \A i \in 1..(Len(s) + Len(t)) :
           (s \o t)[i] = IF i <= Len(s) THEN s[i] ELSE t[i - Len(s)]
  BY ConcatProperties DEF Words
<1>4. s \o t # <<>>
  BY <1>1, <1>3, EmptySeq
<1>5. /\ Tail(s \o t) \in Words /\ Len(Tail(s \o t)) = Len(s) + Len(t) - 1
      /\ \A i \in 1..(Len(s) + Len(t) - 1) : Tail(s \o t)[i] = (s \o t)[i + 1]
  BY <1>1, <1>3, <1>4, HeadTailProperties DEF Words
<1>6. /\ Tail(s) \o t \in Words /\ Len(Tail(s) \o t) = Len(s) - 1 + Len(t)
      /\ \A i \in 1..(Len(s) - 1 + Len(t)) :
           (Tail(s) \o t)[i] = IF i <= Len(s) - 1 THEN Tail(s)[i] ELSE t[i - (Len(s) - 1)]
  BY <1>2, ConcatProperties DEF Words
<1>7. ASSUME NEW i \in 1..(Len(s) + Len(t) - 1) PROVE Tail(s \o t)[i] = (Tail(s) \o t)[i]
  <2> PICK m \in Nat : m = Len(s)
    BY <1>1
  <2> PICK n \in Nat : n = Len(t)
    BY <1>1
  <2>1. Tail(s \o t)[i] = (s \o t)[i + 1]
    BY <1>5
  <2>2. (s \o t)[i + 1] = IF i + 1 <= m THEN s[i + 1] ELSE t[i + 1 - m]
    BY <1>3, <1>7
  <2>3. (Tail(s) \o t)[i] = IF i <= m - 1 THEN Tail(s)[i] ELSE t[i - (m - 1)]
    BY <1>6, <1>7
  <2>4. i <= m - 1 => Tail(s)[i] = s[i + 1]
    BY <1>2, <1>7
  <2> QED BY <2>1, <2>2, <2>3, <2>4, <1>7
<1>8. Tail(s \o t) = Tail(s) \o t
  BY <1>1, <1>5, <1>6, <1>7, SeqEqual DEF Words
<1> QED BY <1>2, <1>4, <1>8

-----------------------------------------------------------------------------
(* The steps: each keeps the invariant, and is one of the pipes or none.   *)

Incoming == slave_in \o stdin_buf \o typed
Outgoing == stdout_buf \o slave_out
PipeStep == [Pty!Pipes!Next]_<<Incoming, Outgoing, shown>>

Good == ConsoleInv' /\ PipeStep /\ running' \subseteq running

LEMMA InitConsole == Pty!ConsoleAssumption /\ Pty!Init => ConsoleInv /\ Pty!Pipes!Init
<1> SUFFICES ASSUME Pty!ConsoleAssumption, Pty!Init PROVE ConsoleInv /\ Pty!Pipes!Init
  OBVIOUS
<1>1. <<>> \in Words /\ Len(<<>>) = 0
  BY EmptySeq DEF Words
<1>2. <<>> \o <<>> = <<>>
  BY <1>1, Joined
<1>3. ConsoleInv
  <2>1. ConsoleKinds
    <3>1. 0 <= Chunk /\ 0 <= Room
      BY DEF Pty!ConsoleAssumption
    <3>2. /\ Len(stdin_buf) <= Chunk /\ Len(stdout_buf) <= Chunk /\ Len(slave_in) <= Room
          /\ typed \in Words /\ stdin_buf \in Words /\ slave_in \in Words
          /\ slave_out \in Words /\ stdout_buf \in Words /\ shown \in Words
      BY <1>1, <3>1 DEF Pty!Init
    <3> QED BY <3>2 DEF Pty!Init, ConsoleKinds
  <2> QED BY <2>1 DEF Pty!Init, ConsoleInv, OneHolder, Pending, NoneLost
<1>4. Pty!Pipes!Init
  BY <1>2 DEF Pty!Init, Pty!Pipes!Init
<1> QED BY <1>3, <1>4

\* A step that leaves the two directions as they are.
LEMMA Quietly ==
  ASSUME UNCHANGED <<Pty!inward, Pty!outward>> PROVE PipeStep
BY DEF PipeStep, Incoming, Outgoing, Pty!inward, Pty!outward

LEMMA TypesStep == ASSUME ConsoleInv, Pty!Types PROVE Good
<1>1. /\ keys' = keys + 1 /\ typed' = Append(typed, keys') /\ keys' \in Nat
      /\ UNCHANGED <<stdin_buf, slave_in, stdin_on, Pty!outward, irqs, master_mask, running, got,
                     prints, failures>>
  BY DEF Pty!Types, ConsoleInv, ConsoleKinds
<1>2. typed \in Words /\ slave_in \o stdin_buf \in Words
  BY Joined DEF ConsoleInv, ConsoleKinds
<1>3. typed' \in Words /\ Incoming' = Append(Incoming, keys') /\ Incoming \in Words
  <2>1. typed' \in Words /\ Incoming \in Words
    BY <1>1, <1>2, Appended, Joined DEF Incoming
  <2>2. (slave_in \o stdin_buf) \o Append(typed, keys')
        = Append((slave_in \o stdin_buf) \o typed, keys')
    BY <1>1, <1>2, Appended
  <2> QED BY <1>1, <2>1, <2>2 DEF Incoming
<1>4. ConsoleInv'
  BY <1>1, <1>3 DEF ConsoleInv, ConsoleKinds, OneHolder, Pending, NoneLost, Pty!outward
<1>5. Pty!Pipes!Types
  <2>1. /\ Len(Incoming') = Len(Incoming) + 1 /\ Incoming'[Len(Incoming')] = keys'
        /\ Len(Incoming) \in Nat
    BY <1>1, <1>3, Appended, Joined
  <2>2. Outgoing' = Outgoing /\ shown' = shown
    BY <1>1 DEF Pty!outward, Outgoing
  <2> QED BY <1>3, <2>1, <2>2 DEF Pty!Pipes!Types, Pty!Pipes!Last, Incoming, Outgoing
<1> QED BY <1>1, <1>4, <1>5 DEF Good, PipeStep, Pty!Pipes!Next

LEMMA ReadsStep == ASSUME Pty!ConsoleAssumption, ConsoleInv, Pty!ProgramReads PROVE Good
<1>1. /\ slave_in # <<>> /\ slave_in' = Tail(slave_in)
      /\ UNCHANGED <<typed, stdin_buf, stdin_on, Pty!outward, irqs, master_mask, running, got, keys,
                     prints, failures>>
  BY DEF Pty!ProgramReads, Pty!tally
<1>2. typed \in Words /\ slave_in \in Words /\ stdin_buf \in Words /\ Len(slave_in) <= Room
  BY DEF ConsoleInv, ConsoleKinds
<1>3. /\ slave_in' \in Words /\ Len(slave_in') = Len(slave_in) - 1 /\ Len(slave_in) \in Nat
      /\ slave_in \o stdin_buf # <<>> /\ slave_in \o stdin_buf \in Words
      /\ slave_in' \o stdin_buf = Tail(slave_in \o stdin_buf)
  BY <1>1, <1>2, TailOfJoined, Joined
<1>4. Incoming # <<>> /\ Incoming' = Tail(Incoming)
  <2>1. Incoming # <<>> /\ Tail(Incoming) = Tail(slave_in \o stdin_buf) \o typed
    BY <1>2, <1>3, TailOfJoined DEF Incoming
  <2>2. Incoming' = (slave_in' \o stdin_buf) \o typed
    BY <1>1 DEF Incoming
  <2> QED BY <1>3, <2>1, <2>2
<1>5. ConsoleInv'
  <2>1. Len(slave_in') <= Room
    BY <1>2, <1>3 DEF Pty!ConsoleAssumption
  <2> QED BY <1>1, <1>3, <2>1 DEF ConsoleInv, ConsoleKinds, OneHolder, Pending, NoneLost, Pty!outward
<1>6. Pty!Pipes!Reads
  BY <1>1, <1>4 DEF Pty!Pipes!Reads, Incoming, Pty!outward
<1> QED BY <1>1, <1>5, <1>6 DEF Good, PipeStep, Pty!Pipes!Next

LEMMA PrintsStep == ASSUME ConsoleInv, Pty!ProgramPrints PROVE Good
<1>1. /\ prints' = prints + 1 /\ slave_out' = Append(slave_out, prints') /\ prints' \in Nat
      /\ UNCHANGED <<Pty!inward, stdout_buf, shown, stdout_on, irqs, master_mask, running, got, keys,
                     failures>>
  BY DEF Pty!ProgramPrints, ConsoleInv, ConsoleKinds
<1>2. slave_out \in Words /\ stdout_buf \in Words
  BY DEF ConsoleInv, ConsoleKinds
<1>3. slave_out' \in Words /\ Outgoing' = Append(Outgoing, prints') /\ Outgoing \in Words
  <2>1. slave_out' \in Words /\ Outgoing \in Words
    BY <1>1, <1>2, Appended, Joined DEF Outgoing
  <2>2. stdout_buf \o Append(slave_out, prints') = Append(stdout_buf \o slave_out, prints')
    BY <1>1, <1>2, Appended
  <2> QED BY <1>1, <2>1, <2>2 DEF Outgoing, Pty!inward
<1>4. ConsoleInv'
  BY <1>1, <1>3 DEF ConsoleInv, ConsoleKinds, OneHolder, Pending, NoneLost, Pty!inward
<1>5. Pty!Pipes!ProgramPrints
  <2>1. /\ Len(Outgoing') = Len(Outgoing) + 1 /\ Outgoing'[Len(Outgoing')] = prints'
        /\ Len(Outgoing) \in Nat
    BY <1>1, <1>3, Appended, Joined
  <2>2. Incoming' = Incoming /\ shown' = shown
    BY <1>1 DEF Pty!inward, Incoming
  <2> QED BY <1>3, <2>1, <2>2 DEF Pty!Pipes!ProgramPrints, Pty!Pipes!Last, Incoming, Outgoing
<1> QED BY <1>1, <1>4, <1>5 DEF Good, PipeStep, Pty!Pipes!Next

\* What has been typed is read into the buffer, which is empty.
LEMMA InputTaken ==
  ASSUME ConsoleInv, Pty!ConsoleAssumption, stdin_buf = <<>>, UNCHANGED <<slave_in, Pty!outward>>,
         NEW n \in Pty!AtMost(typed, Chunk), stdin_buf' = Pty!First(typed, n), typed' = Pty!Rest(typed, n)
  PROVE  /\ typed' \in Words /\ stdin_buf' \in Words /\ Len(stdin_buf') <= Chunk
         /\ stdin_buf' # <<>> /\ PipeStep
<1>1. typed \in Words /\ slave_in \in Words /\ Len(typed) \in Nat
  BY Joined DEF ConsoleInv, ConsoleKinds
<1>2. n \in 1..Len(typed) /\ n <= Chunk
  BY <1>1 DEF Pty!AtMost, Pty!ConsoleAssumption
<1>3. /\ stdin_buf' \in Words /\ typed' \in Words /\ Len(stdin_buf') = n
      /\ stdin_buf' \o typed' = typed
  BY <1>1, <1>2, Divided
<1>4. (slave_in \o stdin_buf') \o typed' = slave_in \o typed
  <2>1. (slave_in \o stdin_buf') \o typed' = slave_in \o (stdin_buf' \o typed')
    BY <1>1, <1>3, Associative
  <2> QED BY <1>3, <2>1
<1>5. slave_in \o stdin_buf = slave_in
  BY <1>1, Joined
<1>6. Incoming' = Incoming /\ Outgoing' = Outgoing /\ shown' = shown
  BY <1>4, <1>5 DEF Incoming, Outgoing, Pty!outward
<1>7. stdin_buf' # <<>>
  BY <1>2, <1>3, EmptySeq
<1> QED BY <1>2, <1>3, <1>6, <1>7 DEF PipeStep

LEMMA StdinStep ==
  ASSUME Pty!ConsoleAssumption, ConsoleInv, Pty!stdin_event PROVE Good
<1>1. /\ stdin_on /\ stdin_on' = FALSE /\ stdin_buf = <<>> /\ got = {}
      /\ Pty!EPOLLOUT \notin master_mask /\ Pty!receiveq \notin irqs
      /\ UNCHANGED <<slave_in, Pty!outward, irqs, running, got, keys, prints>>
  BY DEF Pty!stdin_event, Pty!Waiting, ConsoleInv, OneHolder
<1>2. CASE /\ \E n \in Pty!AtMost(typed, Chunk) :
                stdin_buf' = Pty!First(typed, n) /\ typed' = Pty!Rest(typed, n)
           /\ Pty!Waits(Pty!EPOLLOUT) /\ UNCHANGED failures
  <2>1. PICK n \in Pty!AtMost(typed, Chunk) : stdin_buf' = Pty!First(typed, n) /\ typed' = Pty!Rest(typed, n)
    BY <1>2
  <2>2. /\ typed' \in Words /\ stdin_buf' \in Words /\ Len(stdin_buf') <= Chunk
        /\ stdin_buf' # <<>> /\ PipeStep
    BY <1>1, <2>1, InputTaken
  <2>3. master_mask' = (master_mask \cup {Pty!EPOLLOUT}) \cap running
    BY <1>2 DEF Pty!Waits
  <2>4. ConsoleKinds'
    BY <1>1, <1>2, <2>2, <2>3 DEF ConsoleInv, ConsoleKinds, Pty!outward
  <2>5. OneHolder' /\ Pending' /\ NoneLost'
    BY <1>1, <1>2, <2>2, <2>3 DEF ConsoleInv, ConsoleKinds, OneHolder, Pending, NoneLost, Pty!outward
  <2> QED BY <1>1, <2>2, <2>4, <2>5 DEF Good, ConsoleInv
<1>3. CASE Pty!Fails /\ UNCHANGED <<typed, stdin_buf, master_mask>>
  <2>1. failures' = failures + 1 /\ failures' \in Nat /\ failures' # 0
    BY <1>3 DEF Pty!Fails, ConsoleInv, ConsoleKinds
  <2>2. ConsoleInv'
    BY <1>1, <1>3, <2>1 DEF ConsoleInv, ConsoleKinds, OneHolder, Pending, NoneLost, Pty!outward
  <2>3. PipeStep
    BY <1>1, <1>3 DEF PipeStep, Incoming, Outgoing, Pty!outward
  <2> QED BY <1>1, <2>2, <2>3 DEF Good
<1> QED BY <1>2, <1>3 DEF Pty!stdin_event

LEMMA ReceivesStep ==
  ASSUME Pty!ConsoleAssumption, ConsoleInv, Pty!DeviceReceives PROVE Good
<1>1. /\ stdin_on /\ stdin_on' = FALSE /\ irqs' = irqs \cup {Pty!receiveq} /\ stdin_buf = <<>>
      /\ Pty!EPOLLOUT \notin master_mask
      /\ UNCHANGED <<slave_in, Pty!outward, master_mask, running, got, keys, prints, failures>>
  BY DEF Pty!DeviceReceives, ConsoleInv, OneHolder, Pty!tally
<1>2. PICK n \in Pty!AtMost(typed, Chunk) : stdin_buf' = Pty!First(typed, n) /\ typed' = Pty!Rest(typed, n)
  BY DEF Pty!DeviceReceives
<1>3. /\ typed' \in Words /\ stdin_buf' \in Words /\ Len(stdin_buf') <= Chunk
      /\ stdin_buf' # <<>> /\ PipeStep
  BY <1>1, <1>2, InputTaken
<1>4. ConsoleKinds'
  BY <1>1, <1>3 DEF ConsoleInv, ConsoleKinds, Pty!outward
<1>5. OneHolder' /\ Pending' /\ NoneLost'
  BY <1>1, <1>3 DEF ConsoleInv, ConsoleKinds, OneHolder, Pending, NoneLost, Pty!outward
<1> QED BY <1>1, <1>3, <1>4, <1>5 DEF Good, ConsoleInv

\* Some of the buffer is shown, perhaps all.
LEMMA OutputShown ==
  ASSUME ConsoleInv, NEW first \in Words, NEW rest \in Words, first \o rest = stdout_buf,
         shown' = shown \o first, stdout_buf' = rest, UNCHANGED <<Pty!inward, slave_out>>
  PROVE  PipeStep /\ shown' \in Words
<1>1. shown \in Words /\ slave_out \in Words
  BY DEF ConsoleInv, ConsoleKinds
<1>2. shown' \o Outgoing' = shown \o Outgoing
  <2>1. Join(Join(shown, first), Join(rest, slave_out)) = Join(shown, Join(Join(first, rest), slave_out))
    BY <1>1, Regrouped
  <2>2. shown' = Join(shown, first) /\ Outgoing' = Join(rest, slave_out) /\ stdout_buf = Join(first, rest)
    BY DEF Join, Outgoing, Pty!inward
  <2>3. shown' \o Outgoing' = Join(shown', Outgoing') /\ shown \o Outgoing = Join(shown, Join(stdout_buf, slave_out))
    BY DEF Join, Outgoing
  <2> QED BY <2>1, <2>2, <2>3
<1>3. /\ shown' \in Words /\ Len(shown') = Len(shown) + Len(first)
      /\ Len(shown) \in Nat /\ Len(first) \in Nat
  BY <1>1, Joined
<1>4. Incoming' = Incoming
  BY DEF Pty!inward, Incoming
<1>5. CASE first = <<>>
  <2>1. shown' = shown /\ stdout_buf' = stdout_buf
    BY <1>1, <1>5, Joined
  <2> QED BY <1>3, <1>4, <2>1 DEF PipeStep, Outgoing
<1>6. CASE first # <<>>
  <2>1. Len(shown') > Len(shown)
    BY <1>3, <1>6, EmptySeq DEF Words
  <2> QED BY <1>2, <1>3, <1>4, <2>1 DEF PipeStep, Pty!Pipes!Next, Pty!Pipes!Shows, Incoming, Outgoing
<1> QED BY <1>5, <1>6

LEMMA ShowsStep == ASSUME Pty!ConsoleAssumption, ConsoleInv, Pty!DeviceShows PROVE Good
<1>1. /\ stdout_on /\ shown' = shown \o stdout_buf /\ stdout_buf' = <<>> /\ stdout_on' = FALSE
      /\ irqs' = irqs \cup {Pty!transmitq} /\ Pty!EPOLLIN \notin master_mask
      /\ UNCHANGED <<Pty!inward, slave_out, master_mask, running, got, keys, prints, failures>>
  BY DEF Pty!DeviceShows, ConsoleInv, OneHolder, Pty!tally
<1>2. stdout_buf \in Words /\ <<>> \in Words /\ stdout_buf \o <<>> = stdout_buf
  BY Joined DEF ConsoleInv, ConsoleKinds
<1>3. PipeStep /\ shown' \in Words
  BY <1>1, <1>2, OutputShown
<1>4. Len(stdout_buf') <= Chunk
  BY <1>1, EmptySeq DEF Pty!ConsoleAssumption
<1>5. ConsoleKinds'
  BY <1>1, <1>2, <1>3, <1>4 DEF ConsoleInv, ConsoleKinds, Pty!inward
<1>6. OneHolder' /\ Pending' /\ NoneLost'
  BY <1>1 DEF ConsoleInv, ConsoleKinds, OneHolder, Pending, NoneLost, Pty!inward
<1> QED BY <1>1, <1>3, <1>5, <1>6 DEF Good, ConsoleInv

LEMMA StdoutStep == ASSUME Pty!ConsoleAssumption, ConsoleInv, Pty!stdout_event PROVE Good
<1>1. /\ stdout_on /\ got = {} /\ Pty!EPOLLIN \notin master_mask /\ Pty!transmitq \notin irqs
      /\ UNCHANGED <<Pty!inward, slave_out, irqs, running, got, keys, prints>>
  BY DEF Pty!stdout_event, Pty!Waiting, ConsoleInv, OneHolder
<1>2. CASE /\ \E n \in 1..Len(stdout_buf) :
                /\ shown' = shown \o Pty!First(stdout_buf, n) /\ stdout_buf' = Pty!Rest(stdout_buf, n)
                /\ stdout_on' = (n < Len(stdout_buf))
                /\ IF n < Len(stdout_buf) THEN UNCHANGED master_mask ELSE Pty!Waits(Pty!EPOLLIN)
                /\ UNCHANGED failures
  <2>1. PICK n \in 1..Len(stdout_buf) :
           /\ shown' = shown \o Pty!First(stdout_buf, n) /\ stdout_buf' = Pty!Rest(stdout_buf, n)
           /\ stdout_on' = (n < Len(stdout_buf))
           /\ IF n < Len(stdout_buf) THEN UNCHANGED master_mask ELSE Pty!Waits(Pty!EPOLLIN)
           /\ UNCHANGED failures
    BY <1>2
  <2>2. stdout_buf \in Words /\ Len(stdout_buf) \in Nat /\ Len(stdout_buf) <= Chunk
    BY Joined DEF ConsoleInv, ConsoleKinds
  <2>3. /\ Pty!First(stdout_buf, n) \in Words /\ Pty!Rest(stdout_buf, n) \in Words
        /\ Pty!First(stdout_buf, n) \o Pty!Rest(stdout_buf, n) = stdout_buf
        /\ Len(Pty!Rest(stdout_buf, n)) = Len(stdout_buf) - n
        /\ Pty!Rest(stdout_buf, n) = <<>> <=> n = Len(stdout_buf)
    BY <2>2, Divided
  <2>4. PipeStep /\ shown' \in Words
    BY <1>1, <2>1, <2>3, OutputShown
  <2>5. stdout_buf' \in Words /\ Len(stdout_buf') <= Chunk /\ stdout_on' \in BOOLEAN
    BY <2>1, <2>2, <2>3, Pty!ConsoleAssumption DEF Pty!ConsoleAssumption
  <2>6. \/ stdout_on' = TRUE /\ master_mask' = master_mask
        \/ /\ ~ stdout_on' /\ stdout_buf' = <<>>
           /\ master_mask' = (master_mask \cup {Pty!EPOLLIN}) \cap running
    <3>1. CASE n < Len(stdout_buf)
      BY <2>1, <3>1
    <3>2. CASE ~ (n < Len(stdout_buf))
      <4>1. n = Len(stdout_buf)
        BY <2>2, <3>2
      <4>2. stdout_on' = (n < Len(stdout_buf))
        BY <2>1
      <4>3. ~ stdout_on'
        BY <3>2, <4>2
      <4>4. Pty!Waits(Pty!EPOLLIN)
        BY <2>1, <3>2
      <4>5. stdout_buf' = <<>>
        BY <2>1, <2>3, <4>1
      <4> QED BY <4>3, <4>4, <4>5 DEF Pty!Waits
    <3> QED BY <3>1, <3>2
  <2>7. ConsoleKinds'
    BY <1>1, <2>1, <2>4, <2>5, <2>6 DEF ConsoleInv, ConsoleKinds, Pty!inward
  <2>8. OneHolder' /\ Pending' /\ NoneLost'
    BY <1>1, <2>1, <2>6 DEF ConsoleInv, ConsoleKinds, OneHolder, Pending, NoneLost, Pty!inward
  <2> QED BY <1>1, <2>4, <2>7, <2>8 DEF Good, ConsoleInv
<1>3. CASE Pty!Fails /\ UNCHANGED <<shown, stdout_buf, stdout_on, master_mask>>
  <2>1. failures' = failures + 1 /\ failures' \in Nat /\ failures' # 0
    BY <1>3 DEF Pty!Fails, ConsoleInv, ConsoleKinds
  <2>2. ConsoleInv'
    BY <1>1, <1>3, <2>1 DEF ConsoleInv, ConsoleKinds, OneHolder, Pending, NoneLost, Pty!inward
  <2>3. PipeStep
    BY <1>1, <1>3 DEF PipeStep, Incoming, Outgoing, Pty!inward
  <2> QED BY <1>1, <2>2, <2>3 DEF Good
<1> QED BY <1>2, <1>3 DEF Pty!stdout_event

LEMMA MasterReadsStep == ASSUME Pty!ConsoleAssumption, ConsoleInv, Pty!master_reads PROVE Good
<1>1. /\ Pty!EPOLLIN \in got /\ got' = got \ {Pty!EPOLLIN} /\ "end" \in got' /\ Pty!EPOLLIN \in master_mask
      /\ Pty!EPOLLIN \in running /\ stdout_buf = <<>> /\ ~ stdout_on /\ Pty!transmitq \notin irqs
      /\ master_mask' = master_mask \ {Pty!EPOLLIN}
      /\ UNCHANGED <<Pty!inward, irqs, keys, prints>>
  BY DEF Pty!master_reads, ConsoleInv, OneHolder, Pending, Pty!Flip
<1>2. Incoming' = Incoming
  BY <1>1 DEF Pty!inward, Incoming
<1>3. CASE /\ \E n \in Pty!AtMost(slave_out, Chunk) :
                stdout_buf' = Pty!First(slave_out, n) /\ slave_out' = Pty!Rest(slave_out, n)
           /\ stdout_on' = TRUE /\ UNCHANGED <<shown, running, failures>>
  <2>1. PICK n \in Pty!AtMost(slave_out, Chunk) :
           stdout_buf' = Pty!First(slave_out, n) /\ slave_out' = Pty!Rest(slave_out, n)
    BY <1>3
  <2>2. slave_out \in Words /\ Len(slave_out) \in Nat
    BY Joined DEF ConsoleInv, ConsoleKinds
  <2>3. n \in 1..Len(slave_out) /\ n <= Chunk
    BY <2>2 DEF Pty!AtMost, Pty!ConsoleAssumption
  <2>4. /\ stdout_buf' \in Words /\ slave_out' \in Words /\ Len(stdout_buf') = n
        /\ stdout_buf' \o slave_out' = slave_out
    BY <2>1, <2>2, <2>3, Divided
  <2>5. <<>> \o slave_out = slave_out
    BY <2>2, Joined
  <2>6. Outgoing' = Outgoing
    BY <1>1, <2>4, <2>5 DEF Outgoing
  <2>7. ConsoleKinds'
    BY <1>1, <1>3, <2>3, <2>4 DEF ConsoleInv, ConsoleKinds, Pty!inward
  <2>8. OneHolder' /\ Pending' /\ NoneLost'
    BY <1>1, <1>3 DEF ConsoleInv, ConsoleKinds, OneHolder, Pending, NoneLost, Pty!inward
  <2> QED BY <1>2, <1>3, <2>6, <2>7, <2>8 DEF Good, PipeStep, ConsoleInv
<1>4. CASE running' = Pty!Flip(running, Pty!EPOLLIN) /\ UNCHANGED <<Pty!outward, failures>>
  <2>1. running' = running \ {Pty!EPOLLIN}
    BY <1>1, <1>4 DEF Pty!Flip
  <2>2. ConsoleInv'
    BY <1>1, <1>4, <2>1
    DEF ConsoleInv, ConsoleKinds, OneHolder, Pending, NoneLost, Pty!inward, Pty!outward
  <2>3. PipeStep
    BY <1>1, <1>4, Quietly
  <2> QED BY <2>1, <2>2, <2>3 DEF Good
<1>5. CASE Pty!Fails /\ UNCHANGED <<Pty!outward, running>>
  <2>1. failures' = failures + 1 /\ failures' \in Nat /\ failures' # 0
    BY <1>5 DEF Pty!Fails, ConsoleInv, ConsoleKinds
  <2>2. ConsoleInv'
    BY <1>1, <1>5, <2>1
    DEF ConsoleInv, ConsoleKinds, OneHolder, Pending, NoneLost, Pty!inward, Pty!outward
  <2>3. PipeStep
    BY <1>1, <1>5, Quietly
  <2> QED BY <1>5, <2>2, <2>3 DEF Good
<1> QED BY <1>3, <1>4, <1>5 DEF Pty!master_reads

LEMMA MasterWritesStep == ASSUME Pty!ConsoleAssumption, ConsoleInv, Pty!master_writes PROVE Good
<1>1. /\ Pty!EPOLLOUT \in got /\ got' = got \ {Pty!EPOLLOUT} /\ "end" \in got' /\ Pty!EPOLLIN \notin got
      /\ Pty!EPOLLOUT \in master_mask /\ Pty!EPOLLOUT \in running
      /\ stdin_buf # <<>> /\ ~ stdin_on /\ Pty!receiveq \notin irqs
      /\ UNCHANGED <<Pty!outward, irqs, keys, prints>>
  BY DEF Pty!master_writes, ConsoleInv, OneHolder, Pending
<1>2. CASE /\ \E n \in Pty!AtMost(stdin_buf, Room - Len(slave_in)) :
                /\ slave_in' = slave_in \o Pty!First(stdin_buf, n) /\ stdin_buf' = Pty!Rest(stdin_buf, n)
                /\ IF n < Len(stdin_buf)
                   THEN UNCHANGED <<master_mask, stdin_on>>
                   ELSE master_mask' = Pty!Flip(master_mask, Pty!EPOLLOUT) /\ stdin_on' = TRUE
           /\ UNCHANGED <<typed, running, failures>>
  <2>1. PICK n \in Pty!AtMost(stdin_buf, Room - Len(slave_in)) :
           /\ slave_in' = slave_in \o Pty!First(stdin_buf, n) /\ stdin_buf' = Pty!Rest(stdin_buf, n)
           /\ IF n < Len(stdin_buf)
              THEN UNCHANGED <<master_mask, stdin_on>>
              ELSE master_mask' = Pty!Flip(master_mask, Pty!EPOLLOUT) /\ stdin_on' = TRUE
    BY <1>2
  <2>2. /\ stdin_buf \in Words /\ Len(stdin_buf) \in Nat /\ Len(stdin_buf) <= Chunk
        /\ slave_in \in Words /\ Len(slave_in) \in Nat /\ Len(slave_in) <= Room
        /\ typed \in Words
    BY Joined DEF ConsoleInv, ConsoleKinds
  <2>3. n \in 1..Len(stdin_buf) /\ n <= Room - Len(slave_in)
    BY <2>2 DEF Pty!AtMost, Pty!ConsoleAssumption
  <2>4. /\ Pty!First(stdin_buf, n) \in Words /\ Pty!Rest(stdin_buf, n) \in Words
        /\ Pty!First(stdin_buf, n) \o Pty!Rest(stdin_buf, n) = stdin_buf
        /\ Len(Pty!First(stdin_buf, n)) = n /\ Len(Pty!Rest(stdin_buf, n)) = Len(stdin_buf) - n
        /\ Pty!Rest(stdin_buf, n) = <<>> <=> n = Len(stdin_buf)
    BY <2>2, <2>3, Divided
  <2>5. slave_in' \in Words /\ Len(slave_in') = Len(slave_in) + n
    <3>1. /\ slave_in \o Pty!First(stdin_buf, n) \in Words
          /\ Len(slave_in \o Pty!First(stdin_buf, n)) = Len(slave_in) + Len(Pty!First(stdin_buf, n))
      BY <2>2, <2>4, ConcatProperties DEF Words
    <3> QED BY <2>1, <2>4, <3>1
  <2>6. stdin_buf' \in Words /\ Len(stdin_buf') <= Chunk /\ Len(slave_in') <= Room
    BY <2>1, <2>2, <2>3, <2>4, <2>5 DEF Pty!ConsoleAssumption
  <2>7. \/ stdin_buf' # <<>> /\ UNCHANGED <<master_mask, stdin_on>>
        \/ /\ stdin_buf' = <<>> /\ stdin_on' = TRUE
           /\ master_mask' = master_mask \ {Pty!EPOLLOUT}
    <3>1. CASE n < Len(stdin_buf)
      <4>1. stdin_buf' # <<>>
        BY <2>1, <2>2, <2>4, <3>1
      <4> QED BY <2>1, <3>1, <4>1
    <3>2. CASE ~ (n < Len(stdin_buf))
      <4>1. n = Len(stdin_buf)
        BY <2>2, <2>3, <3>2
      <4>2. stdin_buf' = <<>>
        BY <2>1, <2>4, <4>1
      <4>3. master_mask' = Pty!Flip(master_mask, Pty!EPOLLOUT) /\ stdin_on' = TRUE
        BY <2>1, <3>2
      <4> QED BY <1>1, <4>2, <4>3 DEF Pty!Flip
    <3> QED BY <3>1, <3>2
  <2>8. Incoming' = Incoming
    <3>1. (slave_in \o Pty!First(stdin_buf, n)) \o Pty!Rest(stdin_buf, n)
          = slave_in \o (Pty!First(stdin_buf, n) \o Pty!Rest(stdin_buf, n))
      BY <2>2, <2>4, Associative
    <3>2. slave_in' \o stdin_buf' = slave_in \o stdin_buf
      BY <2>1, <2>4, <3>1
    <3> QED BY <1>2, <3>2 DEF Incoming
  <2>9. ConsoleKinds'
    BY <1>1, <1>2, <2>5, <2>6, <2>7 DEF ConsoleInv, ConsoleKinds, Pty!outward
  <2>10. OneHolder' /\ Pending' /\ NoneLost'
    BY <1>1, <1>2, <2>7 DEF ConsoleInv, ConsoleKinds, OneHolder, Pending, NoneLost, Pty!outward
  <2>11. PipeStep
    BY <1>1, <2>8 DEF PipeStep, Outgoing, Pty!outward
  <2> QED BY <1>2, <2>9, <2>10, <2>11 DEF Good, ConsoleInv
<1>3. CASE running' = Pty!Flip(running, Pty!EPOLLOUT) /\ UNCHANGED <<Pty!inward, master_mask, failures>>
  <2>1. running' = running \ {Pty!EPOLLOUT}
    BY <1>1, <1>3 DEF Pty!Flip
  <2>2. ConsoleInv'
    BY <1>1, <1>3, <2>1
    DEF ConsoleInv, ConsoleKinds, OneHolder, Pending, NoneLost, Pty!inward, Pty!outward
  <2>3. PipeStep
    BY <1>1, <1>3, Quietly
  <2> QED BY <2>1, <2>2, <2>3 DEF Good
<1>4. CASE Pty!Fails /\ UNCHANGED <<Pty!inward, master_mask, running>>
  <2>1. failures' = failures + 1 /\ failures' \in Nat /\ failures' # 0
    BY <1>4 DEF Pty!Fails, ConsoleInv, ConsoleKinds
  <2>2. ConsoleInv'
    BY <1>1, <1>4, <2>1
    DEF ConsoleInv, ConsoleKinds, OneHolder, Pending, NoneLost, Pty!inward, Pty!outward
  <2>3. PipeStep
    BY <1>1, <1>4, Quietly
  <2> QED BY <1>4, <2>2, <2>3 DEF Good
<1> QED BY <1>2, <1>3, <1>4 DEF Pty!master_writes

\* The steps that move nothing: the program ends, the loop takes what epoll gives
\* for the master, ends with it, or is told of a buffer that the device is done with.
LEMMA OtherConsoleStep ==
  ASSUME Pty!ConsoleAssumption, ConsoleInv,
         Pty!Exits \/ Pty!master_event \/ Pty!master_end \/ \E n \in {Pty!receiveq, Pty!transmitq} : Pty!device_event(n)
  PROVE  Good
<1>1. UNCHANGED <<Pty!inward, Pty!outward, keys, prints, failures>>
  BY DEF Pty!Exits, Pty!master_event, Pty!master_end, Pty!device_event, Pty!tally
<1>2. PipeStep
  BY <1>1, Quietly
<1> USE <1>1 DEF ConsoleInv, ConsoleKinds, OneHolder, Pending, NoneLost, Pty!inward, Pty!outward
<1>3. CASE Pty!Exits
  BY <1>2, <1>3 DEF Pty!Exits, Good
<1>4. CASE Pty!master_event
  <2>1. /\ got = {} /\ got' = Pty!MasterEvents \cup {"end"}
        /\ UNCHANGED <<irqs, master_mask, running>>
    BY <1>4 DEF Pty!master_event, Pty!Waiting
  <2>2. Pty!MasterEvents \cap Directions \subseteq master_mask
    BY DEF Pty!MasterEvents
  <2> QED BY <1>2, <2>1, <2>2 DEF Good
<1>5. CASE Pty!master_end
  <2>1. /\ got' = {} /\ running' \in {{}, running} /\ master_mask' = master_mask \cap running'
        /\ UNCHANGED irqs
    BY <1>5 DEF Pty!master_end
  <2> QED BY <1>2, <2>1 DEF Good
<1>6. CASE \E n \in {Pty!receiveq, Pty!transmitq} : Pty!device_event(n)
  <2>1. /\ got = {} /\ UNCHANGED <<running, got>>
        /\ \/ /\ Pty!receiveq \in irqs /\ irqs' = irqs \ {Pty!receiveq}
              /\ master_mask' = (master_mask \cup {Pty!EPOLLOUT}) \cap running
           \/ /\ Pty!transmitq \in irqs /\ irqs' = irqs \ {Pty!transmitq}
              /\ master_mask' = (master_mask \cup {Pty!EPOLLIN}) \cap running
    BY <1>6 DEF Pty!device_event, Pty!Waiting, Pty!Waits
  <2>2. ConsoleKinds' /\ Pending'
    BY <2>1
  <2>3. OneHolder' /\ NoneLost'
    BY <2>1
  <2> QED BY <1>2, <2>1, <2>2, <2>3 DEF Good
<1> QED BY <1>3, <1>4, <1>5, <1>6

-----------------------------------------------------------------------------
(* The theorems.                                                           *)

LEMMA ConsoleNext ==
  ASSUME Pty!ConsoleAssumption, ConsoleInv, [Pty!Next]_(Pty!vars) PROVE Good
<1>1. CASE UNCHANGED Pty!vars
  BY <1>1, Quietly
  DEF Pty!vars, Pty!inward, Pty!outward, Pty!tally, Good, ConsoleInv, ConsoleKinds, OneHolder, Pending, NoneLost
<1>2. CASE Pty!Next
  BY <1>2, TypesStep, ReadsStep, PrintsStep, StdinStep, ReceivesStep, ShowsStep, StdoutStep,
     MasterReadsStep, MasterWritesStep, OtherConsoleStep DEF Pty!Next
<1> QED BY <1>1, <1>2

LEMMA ConsoleInvariant == ASSUME Pty!ConsoleAssumption PROVE Pty!Spec => []ConsoleInv
<1>1. ConsoleInv /\ [Pty!Next]_(Pty!vars) => ConsoleInv'
  BY ConsoleNext DEF Good
<1> QED BY <1>1, InitConsole, PTL DEF Pty!Spec

\* A console is two pipes: whatever reads and writes take or give a part or fail,
\* whatever events epoll and the device give, and however the program ends,
\* nothing that is typed or printed is lost, repeated or turned around
\* (console-raw.c and console-virtio.c: main).
THEOREM ConsoleIsTwoPipes == ASSUME Pty!ConsoleAssumption PROVE Pty!Spec => TwoPipes
<1>1. ConsoleInv /\ [Pty!Next]_(Pty!vars) => PipeStep
  BY ConsoleNext DEF Good
<1>2. Pty!Init => Pty!Pipes!Init
  BY InitConsole
<1>3. /\ Pty!Pipes!Init => RawConsole!Pipes!Init
      /\ Pty!Pipes!Next => RawConsole!Pipes!Next
  BY DEF Pty!Pipes!Init, Pty!Pipes!Next, Pty!Pipes!Types, Pty!Pipes!Reads, Pty!Pipes!ProgramPrints,
         Pty!Pipes!Shows, Pty!Pipes!Last, RawConsole!Pipes!Init, RawConsole!Pipes!Next,
         RawConsole!Pipes!Types, RawConsole!Pipes!Reads, RawConsole!Pipes!ProgramPrints,
         RawConsole!Pipes!Shows, RawConsole!Pipes!Last
<1> QED
  BY <1>1, <1>2, <1>3, ConsoleInvariant, PTL
  DEF Pty!Spec, TwoPipes, RawConsole!TwoPipes, RawConsole!Pipes!Spec, PipeStep, Incoming, Outgoing

\* Until a read or a write fails for a moment neither direction of a console is
\* stuck, in its masks no end is waited for that is over or whose buffer is
\* elsewhere, and a direction that is over is never waited for again
\* (master_mask, running).
THEOREM ConsoleMasksFollow ==
  ASSUME Pty!ConsoleAssumption
  PROVE  Pty!Spec => [](Pty!ConsoleTypeOK /\ Pty!NeverWedged) /\ Pty!NothingRevived
<1>1. ConsoleInv => Pty!ConsoleTypeOK /\ Pty!NeverWedged
  BY DEF ConsoleInv, ConsoleKinds, OneHolder, Pending, NoneLost, Pty!ConsoleTypeOK, Pty!NeverWedged
<1>2. ConsoleInv /\ [Pty!Next]_(Pty!vars) => [running' \subseteq running]_running
  BY ConsoleNext DEF Good
<1> QED BY <1>1, <1>2, ConsoleInvariant, PTL DEF Pty!Spec, Pty!NothingRevived

=============================================================================
