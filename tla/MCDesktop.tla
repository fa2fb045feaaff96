------------------------------ MODULE MCDesktop ------------------------------
(***************************************************************************)
(* Small instances for TLC of three small systems: how a compositor gets   *)
(* its client (DisplaySocket), the clock that its client may be, on either *)
(* compositor (Compositor), and the two consoles (Console).  They share    *)
(* nothing and are checked one at a time: part is chosen at the start and  *)
(* the variables of the others stay as they are.                           *)
(***************************************************************************)
EXTENDS DisplaySocket, Consoles

CONSTANTS p1, p2, p3, k1, k2, b1, s1

VARIABLES
  part,
  surface, buffer, callbacks, fence_id, write_fence,
  shm, wl_buffer, wl_shm_pool, mapped, queue, done, fence_submitted,
  request, todo, wire, events, backing, host, scanout, screen,
  have, drawn, pixels, waiting, busy

NestedClock == INSTANCE Compositor WITH
  Nested <- TRUE, Clock <- TRUE, Buffer <- {b1}, Pool <- {p1}, Region <- {p2},
  Surface <- {s1}, Toplevel <- s1, Depth <- 2, F <- 4, V <- 3

WaylandClock == INSTANCE Compositor WITH
  Nested <- FALSE, Clock <- TRUE, Buffer <- {b1}, Pool <- {p1}, Region <- {p2},
  Surface <- {s1}, Toplevel <- s1, Depth <- 2, F <- 4, V <- 3

ASSUME NestedClock!CompositorAssumption /\ WaylandClock!CompositorAssumption
ASSUME RawConsole!ConsoleAssumption /\ VirtioConsole!ConsoleAssumption

socketVars  == vars
clockVars   == <<surface, buffer, callbacks, fence_id, write_fence, shm,
                 wl_buffer, wl_shm_pool, mapped, queue, done, fence_submitted,
                 request, todo, wire, events, backing, host, scanout, screen,
                 have, drawn, pixels, waiting, busy>>
consoleVars == <<typed, stdin_buf, slave_in, slave_out, stdout_buf, shown,
                 stdin_on, stdout_on, irqs, master_mask, running, got, program,
                 keys, prints, failures>>
all         == <<part, socketVars, clockVars, consoleVars>>

MCInit ==
  /\ part \in {"socket", "nested clock", "wayland clock", "raw", "virtio"}
  /\ Init /\ NestedClock!Init /\ RawConsole!Init

MCNext ==
  \/ part = "socket" /\ Next /\ UNCHANGED <<part, clockVars, consoleVars>>
  \/ /\ \/ part = "nested clock" /\ NestedClock!Next
        \/ part = "wayland clock" /\ WaylandClock!Next
     /\ UNCHANGED <<part, socketVars, consoleVars>>
  \/ /\ \/ part = "raw" /\ RawConsole!Next
        \/ part = "virtio" /\ VirtioConsole!Next
     /\ UNCHANGED <<part, socketVars, clockVars>>
  \/ part \in {"raw", "virtio"} /\ UNCHANGED all  \* the program has ended

-----------------------------------------------------------------------------
(* Fairness.                                                               *)

IsClock == part \in {"nested clock", "wayland clock"}
Loop == \/ part = "nested clock" /\ NestedClock!Loop
        \/ part = "wayland clock" /\ WaylandClock!Loop

\* The event loop of the compositor, the device and the client's own loop do
\* not stop.
ClockFairness ==
  /\ WF_clockVars(Loop)
  /\ WF_clockVars(IsClock /\ NestedClock!Device)
  /\ WF_clockVars(IsClock /\ NestedClock!ClientStart)
  /\ WF_clockVars(IsClock /\ NestedClock!ClientReceives)
  /\ WF_clockVars(IsClock /\ NestedClock!request_frame(b1, 1))

IsConsole == part \in {"raw", "virtio"}
InputEvent  == \/ part = "raw" /\ RawConsole!stdin_event
               \/ part = "virtio" /\ VirtioConsole!device_event(0)
OutputEvent == \/ part = "raw" /\ RawConsole!stdout_event
               \/ part = "virtio" /\ VirtioConsole!device_event(1)
MasterStep  == \/ RawConsole!master_reads \/ RawConsole!master_writes
               \/ RawConsole!master_end

\* epoll gives every descriptor that is ready its turn; the terminal and the
\* device take what they are given, and the program reads.
ConsoleFairness ==
  /\ WF_consoleVars(IsConsole /\ RawConsole!ProgramReads)
  /\ WF_consoleVars(part = "virtio" /\ VirtioConsole!DeviceReceives)
  /\ WF_consoleVars(part = "virtio" /\ VirtioConsole!DeviceShows)
  /\ WF_consoleVars(IsConsole /\ MasterStep)
  /\ SF_consoleVars(IsConsole /\ RawConsole!master_event)
  /\ SF_consoleVars(InputEvent) /\ SF_consoleVars(OutputEvent)

MCSpec == MCInit /\ [][MCNext]_all /\ ClockFairness /\ ConsoleFairness

-----------------------------------------------------------------------------
(* Properties: those of the parts.                                         *)

\* clock-shm.c is told of every frame it draws and draws another, on
\* nested-virtio.c and on wayland-virtio.c; and on nested-virtio.c the frame is
\* on the screen by then, whole.  wayland-virtio.c has unmapped the memory with
\* the pool (214), and what the device then reads is not the code's doing.
ClockTicks ==
  /\ NestedClock!ClockTicks
  /\ [](part = "nested clock" => NestedClock!DoneMeansShown)

\* Neither direction of a console ever stops (console-raw.c, console-virtio.c).
ConsoleServes == RawConsole!ConsoleServes

=============================================================================
