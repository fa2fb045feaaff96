--------------------------- MODULE MCWaylandProxy ---------------------------
(***************************************************************************)
(* WaylandProxy for TLC: what the clients and the backend do.              *)
(***************************************************************************)
EXTENDS WaylandProxy

\* A client with a window and its pointer, that draws; then one that sets the
\* cursor, and gets an enter and a leave.
Window == [nested |-> TRUE, creates |-> {"create_surface", "get_pointer", "frame"},
           objects |-> 3, uses |-> 0, sends |-> 1, pings |-> 0]
Cursor == [Window EXCEPT !.objects = 2, !.uses = 1, !.sends = 2]

\* A window with a region and a keyboard.
Typing == [Cursor EXCEPT !.creates = {"create_surface", "create_region", "get_keyboard"}]

\* Pools and their buffers, destroyed in any order; then with a resize.
Released == [Window EXCEPT !.creates = {"create_pool", "create_buffer"}]
Memory == [Released EXCEPT !.objects = 2, !.uses = 1]

\* Xdg surfaces and toplevels, with events or with requests.
Configured == [Window EXCEPT !.creates = {"create_surface", "get_xdg_surface", "get_toplevel"}]
Toplevel == [Configured EXCEPT !.uses = 1, !.sends = 0]

\* Frames and pings.
Pinged == [Window EXCEPT !.creates = {"create_surface", "frame"}, !.objects = 2,
                         !.pings = 1]

\* wayland-wayland.c, and a client like clock-shm.c.
Shm == [Window EXCEPT !.nested = FALSE, !.uses = 1,
          !.creates = {"create_surface", "create_pool", "create_buffer", "frame"}]

AllScenes == {Window, Cursor, Typing, Released, Memory, Configured, Toplevel, Pinged,
              Shm}

=============================================================================
