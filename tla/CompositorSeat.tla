--------------------------- MODULE CompositorSeat ---------------------------
(***************************************************************************)
(* The seat of code/virgl-nested-virtio.c, the same as that of             *)
(* code/nested-virtio.c: which messages the keyboard and the tablet of the *)
(* machine become on the connection of the one client, which asks for its  *)
(* window, its keyboard and its pointer in any order and at any time.      *)
(*                                                                         *)
(* Module VirtioInput has the event queue of a device; here it is a fifo   *)
(* and the readable eventfd of its interrupt.                              *)
(***************************************************************************)
EXTENDS Integers, Sequences

CONSTANTS Objects,   \* bound: keyboards, and pointers, the client asks for
          Coord,     \* the positions of the tablet on one axis
          Events     \* bound: how many events the devices have

SeatAssumption ==
  /\ Objects \in Nat \ {0} /\ Coord \subseteq Nat
  /\ Events \in Nat

VARIABLES
  surface, keyboard, pointer, x, y, \* struct compositor_info, 0 for NULL
  pc,       \* the handler that runs: "loop", "keyboard" or "mouse"
  used,     \* for each device: the events it has not given to the driver,
  irq,      \*   whether its eventfd is readable
  history,  \*   and all its events so far
  sent      \* history: the messages to the client

infoVars == <<surface, keyboard, pointer, x, y>>
devVars  == <<used, irq, history>>
vars     == <<infoVars, pc, devVars, sent>>

Dev   == {"keyboard", "mouse"}
\* A key or a button is told by the number of its event, not by code and value.
Event == [type : {"EV_KEY", "EV_SYN"}, value : {0}]
         \cup [type : {"ABS_X", "ABS_Y"}, value : Coord]

KeyboardOps == {"keymap", "keyboard_enter", "key"}
PointerOps  == {"pointer_enter", "motion", "frame", "button"}
Position    == (Coord \cup {0}) \X (Coord \cup {0})

\* A message to an object: at is a position, of the number of the event that the
\* message tells of; the client sees a key or a button, the event, but no number.
Message == [op : KeyboardOps \cup PointerOps, to : 1..Objects,
            at : Position \cup {<< >>}, of : Nat]

Msg(op, object)           == [op |-> op, to |-> object, at |-> << >>, of |-> 0]
MsgAt(op, object, at)     == [Msg(op, object) EXCEPT !.at = at]
MsgOf(op, object, number) == [Msg(op, object) EXCEPT !.of = number]

Init ==
  /\ surface = 0 /\ keyboard = 0 /\ pointer = 0 /\ x = 0 /\ y = 0
  /\ pc = "loop"
  /\ used = [d \in Dev |-> << >>] /\ irq = [d \in Dev |-> FALSE]
  /\ history = [d \in Dev |-> << >>] /\ sent = << >>

-----------------------------------------------------------------------------
(* Requests of the client.                                                 *)

xdg_wm_base_on_get_xdg_surface ==
  /\ pc = "loop" /\ surface = 0
  /\ surface' = 1
  /\ sent' = sent
       \o (IF keyboard # 0 THEN <<Msg("keyboard_enter", keyboard)>> ELSE << >>)
       \o (IF pointer # 0 THEN <<MsgAt("pointer_enter", pointer, <<x, y>>)>> ELSE << >>)
  /\ UNCHANGED <<keyboard, pointer, x, y, pc, devVars>>

wl_seat_on_get_pointer ==
  /\ pc = "loop" /\ pointer < Objects
  /\ pointer' = pointer + 1
  /\ sent' = IF surface # 0
             THEN Append(sent, MsgAt("pointer_enter", pointer', <<0, 0>>)) ELSE sent
  /\ UNCHANGED <<surface, keyboard, x, y, pc, devVars>>

wl_seat_on_get_keyboard ==
  /\ pc = "loop" /\ keyboard < Objects
  /\ keyboard' = keyboard + 1
  /\ sent' = sent \o <<Msg("keymap", keyboard')>>
       \o (IF surface # 0 THEN <<Msg("keyboard_enter", keyboard')>> ELSE << >>)
  /\ UNCHANGED <<surface, pointer, x, y, pc, devVars>>

-----------------------------------------------------------------------------
(* The devices.                                                            *)

\* The epoll of the device reports the interrupt of its queue, which is
\* cleared before the queue is read.
handle_events(d) ==
  /\ pc = "loop" /\ irq[d]
  /\ pc' = d /\ irq' = [irq EXCEPT ![d] = FALSE]
  /\ UNCHANGED <<infoVars, used, history, sent>>

\* Mutant: one event is taken for an interrupt, and not all there are.
handle_events_End_Early(d) ==
  /\ pc = d
  /\ pc' = "loop"
  /\ UNCHANGED <<infoVars, devVars, sent>>

\* virtio_input_recv returns 0.
handle_events_End(d) ==
  /\ pc = d /\ used[d] = << >>
  /\ pc' = "loop"
  /\ UNCHANGED <<infoVars, devVars, sent>>

virtio_input_recv(d) ==
  /\ pc = d /\ used[d] # << >>
  /\ used' = [used EXCEPT ![d] = Tail(@)]
  /\ UNCHANGED <<surface, keyboard, pointer, pc, irq, history>>

\* Which event of the device it is that the driver gives next.
Number(d) == Len(history[d]) - Len(used[d]) + 1

handle_keyboard_events ==
  /\ virtio_input_recv("keyboard")
  /\ sent' = IF Head(used["keyboard"]).type = "EV_KEY" /\ surface # 0 /\ keyboard # 0
             THEN Append(sent, MsgOf("key", keyboard, Number("keyboard"))) ELSE sent
  /\ UNCHANGED <<x, y>>

\* The case of EV_KEY goes on into that of EV_ABS, where no button has a code
\* of an axis.
handle_mouse_events ==
  /\ virtio_input_recv("mouse")
  /\ LET event == Head(used["mouse"])
         seen  == surface # 0 /\ pointer # 0 IN
       /\ sent' = IF ~ seen THEN sent
                  ELSE CASE event.type = "EV_SYN" ->
                              sent \o <<[MsgAt("motion", pointer, <<x, y>>)
                                            EXCEPT !.of = Number("mouse")],
                                        Msg("frame", pointer)>>
                         [] event.type = "EV_KEY" ->
                              Append(sent, MsgOf("button", pointer, Number("mouse")))
                         [] OTHER -> sent
       /\ x' = IF event.type = "ABS_X" THEN event.value ELSE x
       /\ y' = IF event.type = "ABS_Y" THEN event.value ELSE y

\* The device has an event: its driver has buffers enough.
DeviceEvent(d, event) ==
  /\ Len(history["keyboard"]) + Len(history["mouse"]) < Events
  /\ used' = [used EXCEPT ![d] = Append(@, event)]
  /\ history' = [history EXCEPT ![d] = Append(@, event)]
  /\ irq' = [irq EXCEPT ![d] = TRUE]
  /\ UNCHANGED <<infoVars, pc, sent>>

KeyboardEvent ==
  \E event \in Event : event.type \in {"EV_KEY", "EV_SYN"} /\ DeviceEvent("keyboard", event)
MouseEvent == \E event \in Event : DeviceEvent("mouse", event)

-----------------------------------------------------------------------------
Handlers ==
  \/ \E d \in Dev : handle_events(d) \/ handle_events_End(d)
  \/ handle_keyboard_events \/ handle_mouse_events

Next ==
  \/ xdg_wm_base_on_get_xdg_surface \/ wl_seat_on_get_pointer
  \/ wl_seat_on_get_keyboard
  \/ Handlers \/ KeyboardEvent \/ MouseEvent

Spec == Init /\ [][Next]_vars

-----------------------------------------------------------------------------
(* Properties.                                                             *)

\* Every variable holds a value of its kind (compositor_info, loop_info), and
\* what a device has not given to its driver is the end of its history.
SeatTypeOK ==
  /\ surface \in {0, 1} /\ keyboard \in 0..Objects /\ pointer \in 0..Objects
  /\ x \in Coord \cup {0} /\ y \in Coord \cup {0} /\ pc \in Dev \cup {"loop"}
  /\ irq \in [Dev -> BOOLEAN] /\ sent \in Seq(Message)
  /\ used \in [Dev -> Seq(Event)] /\ history \in [Dev -> Seq(Event)]
  /\ \A d \in Dev :
       /\ Len(used[d]) <= Len(history[d])
       /\ \A i \in DOMAIN used[d] : used[d][i] = history[d][Number(d) - 1 + i]

\* What the object of message i has been sent before.
Before(i, ops) ==
  {j \in 1..i-1 : sent[j].op \in ops /\ sent[j].to = sent[i].to}

Told(op, object) == \E i \in DOMAIN sent : sent[i].op = op /\ sent[i].to = object

InTurn(i) ==
  LET keys   == Before(i, KeyboardOps)
      points == Before(i, PointerOps) IN
    /\ sent[i].op = "keymap" <=> sent[i].op \in KeyboardOps /\ keys = {}
    /\ sent[i].op = "keyboard_enter" <=>
         /\ sent[i].op \in KeyboardOps /\ keys # {}
         /\ \A j \in keys : sent[j].op = "keymap"
    /\ sent[i].op = "pointer_enter" <=> sent[i].op \in PointerOps /\ points = {}

\* A keyboard gets its keymap, then the window, once, then keys; a pointer the
\* window and then motions and buttons; and the window has not been forgotten
\* of either, whether it came before or after them.
EnterFirst ==
  /\ \A i \in DOMAIN sent : InTurn(i)
  /\ surface # 0 =>
       /\ keyboard # 0 => Told("keyboard_enter", keyboard)
       /\ pointer # 0  => Told("pointer_enter", pointer)

\* The events of one type that the driver has given.
Given(d, type) == {n \in 1..Number(d)-1 : history[d][n].type = type}

\* The messages tell of events of one type of the device, from some event on
\* each of them once, in order.
Delivered(op, d, type) ==
  LET told == {i \in DOMAIN sent : sent[i].op = op} IN
    /\ \A i \in told : sent[i].of \in Given(d, type)
    /\ \A i, j \in told : i < j => sent[i].of < sent[j].of
    /\ \A i \in told : \A n \in Given(d, type) :
         n > sent[i].of => \E j \in told : sent[j].of = n

\* From some event on the client hears of every key and button, once and in
\* order: none goes to an object that another has replaced or that has yet to
\* hear of its window, and none is left behind when the interrupt is cleared
\* while the device goes on.
KeysInOrder ==
  /\ SeatTypeOK /\ EnterFirst
  /\ Delivered("key", "keyboard", "EV_KEY") /\ Delivered("button", "mouse", "EV_KEY")
  /\ \A d \in Dev : used[d] # << >> => irq[d] \/ pc = d

\* Where the tablet is after its first n events.
Moves(n, axis) == {i \in 1..n : history["mouse"][i].type = axis}
At(n, axis) ==
  LET moves == Moves(n, axis) IN
    IF moves = {} THEN 0 ELSE history["mouse"][CHOOSE i \in moves : \A j \in moves : j <= i].value

\* A motion says where the tablet was when it finished a report, never one axis
\* of it alone, and no report is left out.
MotionsTrue ==
  /\ Delivered("motion", "mouse", "EV_SYN")
  /\ \A i \in DOMAIN sent : sent[i].op = "motion" =>
       sent[i].at = <<At(sent[i].of, "ABS_X"), At(sent[i].of, "ABS_Y")>>

\* Keys and buttons reach the client once and in order, from some event on, and
\* a motion says where the tablet was when it finished a report
\* (handle_keyboard_events, handle_mouse_events, wl_seat_on_get_keyboard).
InputDelivered == KeysInOrder /\ MotionsTrue

=============================================================================
