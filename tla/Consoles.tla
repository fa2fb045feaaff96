------------------------------ MODULE Consoles ------------------------------
(***************************************************************************)
(* Both consoles, console-raw.c and console-virtio.c (Console), on the     *)
(* same variables: which of them runs is for a module that extends this.   *)
(***************************************************************************)
CONSTANTS Chunk, Room, Keys, Prints, Failures

VARIABLES
  typed, stdin_buf, slave_in, slave_out, stdout_buf, shown,
  stdin_on, stdout_on, irqs, master_mask, running, got, program,
  keys, prints, failures

RawConsole    == INSTANCE Console WITH Virtio <- FALSE
VirtioConsole == INSTANCE Console WITH Virtio <- TRUE

\* A console is two pipes, and they are the same for both.
TwoPipes == RawConsole!TwoPipes

=============================================================================
