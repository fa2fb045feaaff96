------------------------------ MODULE SeatInput ------------------------------
(***************************************************************************)
(* The seat of a compositor (CompositorSeat) as a part of larger systems,  *)
(* whose variables may be called surface and pc too.                       *)
(***************************************************************************)
CONSTANTS Objects, Coord, Events

VARIABLES seat_surface, keyboard, pointer, x, y, seat_pc, used, irq, history, sent

Seat == INSTANCE CompositorSeat WITH surface <- seat_surface, pc <- seat_pc

\* Keys and buttons reach the client once and in order, from some event on, and
\* a motion says where the tablet was when it finished a report
\* (handle_keyboard_events, handle_mouse_events, wl_seat_on_get_keyboard).
InputDelivered == Seat!InputDelivered

=============================================================================
