------------------------------- MODULE Console -------------------------------
(***************************************************************************)
(* code/console-raw.c and code/console-virtio.c: a program is run on a     *)
(* pseudo terminal and joined to the terminal of the caller, or to the     *)
(* host's by the two queues of a virtio console.  One buffer in each       *)
(* direction, and epoll's masks that say which end of it is waited for.    *)
(*                                                                         *)
(* The program ends (Exits); the pseudo terminal may report that by end of *)
(* file, by EPIPE, and in the end by EPOLLHUP, in this order or less.      *)
(***************************************************************************)
EXTENDS Integers, Sequences, FiniteSets

CONSTANTS Virtio,    \* console-virtio.c, not console-raw.c
          Chunk,     \* bound: how much is read at once, sizeof of the buffers
          Room,      \* bound: what the pseudo terminal takes to be read
          Keys,      \* bound: how much is typed
          Prints,    \* bound: how much the program prints
          Failures   \* bound: how often read and write give EAGAIN or EINTR

ConsoleAssumption ==
  /\ Virtio \in BOOLEAN
  /\ Chunk \in Nat \ {0} /\ Room \in Nat \ {0}
  /\ Keys \in Nat /\ Prints \in Nat /\ Failures \in Nat

VARIABLES
  typed, stdin_buf, slave_in,      \* towards the program
  slave_out, stdout_buf, shown,    \* and from it
  stdin_on, stdout_on,   \* the end of the buffer is waited for: epoll's mask,
                         \* or the buffer is in the device's queue
  irqs,                  \* the queues of the device with an interrupt
  master_mask, running,
  got,                   \* what the loop has still to do for the master, and "end"
  program,
  keys, prints, failures

inward  == <<typed, stdin_buf, slave_in, stdin_on>>
outward == <<slave_out, stdout_buf, shown, stdout_on>>
tally   == <<keys, prints, failures>>
vars    == <<inward, outward, irqs, master_mask, running, got, program, tally>>

EPOLLIN  == "in"
EPOLLOUT == "out"
EPOLLHUP == "hup"
receiveq  == 0
transmitq == 1

Init ==
  /\ typed = <<>> /\ stdin_buf = <<>> /\ slave_in = <<>>
  /\ slave_out = <<>> /\ stdout_buf = <<>> /\ shown = <<>>
  /\ stdin_on = TRUE /\ stdout_on = FALSE /\ irqs = {}
  /\ master_mask = {EPOLLIN} /\ running = {EPOLLIN, EPOLLOUT} /\ got = {} /\ program = "runs"
  /\ keys = 0 /\ prints = 0 /\ failures = 0

First(q, n) == SubSeq(q, 1, n)
Rest(q, n)  == SubSeq(q, n + 1, Len(q))
AtMost(q, n) == {k \in 1..n : k <= Len(q)}
Flip(set, x) == IF x \in set THEN set \ {x} ELSE set \cup {x}

-----------------------------------------------------------------------------
(* The user and the program.                                               *)

Types ==
  /\ keys < Keys /\ keys' = keys + 1 /\ typed' = Append(typed, keys')
  /\ UNCHANGED <<stdin_buf, slave_in, stdin_on, outward, irqs, master_mask, running, got, program,
                 prints, failures>>

ProgramReads ==
  /\ program = "runs" /\ slave_in # <<>> /\ slave_in' = Tail(slave_in)
  /\ UNCHANGED <<typed, stdin_buf, stdin_on, outward, irqs, master_mask, running, got, program, tally>>

ProgramPrints ==
  /\ program = "runs" /\ prints < Prints /\ prints' = prints + 1
  /\ slave_out' = Append(slave_out, prints')
  /\ UNCHANGED <<inward, stdout_buf, shown, stdout_on, irqs, master_mask, running, got, program, keys,
                 failures>>

Exits ==
  /\ program' \in {"ended", "hup"}
  /\ program # "hup" /\ program' # program
  /\ UNCHANGED <<inward, outward, irqs, master_mask, running, got, tally>>

\* The device fills the buffer it was given, or is done with the other one.
DeviceReceives ==
  /\ Virtio /\ stdin_on /\ typed # <<>>
  /\ \E n \in AtMost(typed, Chunk) : stdin_buf' = First(typed, n) /\ typed' = Rest(typed, n)
  /\ stdin_on' = FALSE /\ irqs' = irqs \cup {receiveq}
  /\ UNCHANGED <<slave_in, outward, master_mask, running, got, program, tally>>

DeviceShows ==
  /\ Virtio /\ stdout_on
  /\ shown' = shown \o stdout_buf /\ stdout_buf' = <<>>
  /\ stdout_on' = FALSE /\ irqs' = irqs \cup {transmitq}
  /\ UNCHANGED <<inward, slave_out, master_mask, running, got, program, tally>>

-----------------------------------------------------------------------------
(* The loop.                                                               *)

\* At epoll_wait.
Waiting == running # {} /\ got = {}

Fails == failures < Failures /\ failures' = failures + 1

\* master_mask |= x; master_mask &= running.
Waits(x) == master_mask' = (master_mask \cup {x}) \cap running

\* Mutant: what could not be written at once is not written.
stdout_event_Part ==
  /\ ~ Virtio /\ Waiting /\ stdout_on
  /\ \E n \in 1..Len(stdout_buf) : shown' = shown \o First(stdout_buf, n)
  /\ stdout_buf' = <<>> /\ stdout_on' = FALSE /\ Waits(EPOLLIN)
  /\ UNCHANGED <<inward, slave_out, irqs, running, got, program, tally>>

\* STDOUT_FILENO: written, whole or in part.
stdout_event ==
  /\ ~ Virtio /\ Waiting /\ stdout_on
  /\ \/ \E n \in 1..Len(stdout_buf) :
          /\ shown' = shown \o First(stdout_buf, n) /\ stdout_buf' = Rest(stdout_buf, n)
          /\ stdout_on' = (n < Len(stdout_buf))
          /\ IF n < Len(stdout_buf) THEN UNCHANGED master_mask ELSE Waits(EPOLLIN)
          /\ UNCHANGED failures
     \/ Fails /\ UNCHANGED <<shown, stdout_buf, stdout_on, master_mask>>
  /\ UNCHANGED <<inward, slave_out, irqs, running, got, program, keys, prints>>

\* STDIN_FILENO: no more is read until this has been written.
stdin_event ==
  /\ ~ Virtio /\ Waiting /\ stdin_on /\ typed # <<>>
  /\ stdin_on' = FALSE
  /\ \/ /\ \E n \in AtMost(typed, Chunk) :
             stdin_buf' = First(typed, n) /\ typed' = Rest(typed, n)
        /\ Waits(EPOLLOUT) /\ UNCHANGED failures
     \/ Fails /\ UNCHANGED <<typed, stdin_buf, master_mask>>
  /\ UNCHANGED <<slave_in, outward, irqs, running, got, program, keys, prints>>

\* What epoll_wait gives for the master.
MasterEvents ==
  {x \in master_mask : \/ x = EPOLLIN /\ (slave_out # <<>> \/ program # "runs")
                       \/ x = EPOLLOUT /\ (Len(slave_in) < Room \/ program # "runs")}
  \cup (IF program = "hup" THEN {EPOLLHUP} ELSE {})

master_event ==
  /\ Waiting /\ MasterEvents # {}
  /\ got' = MasterEvents \cup {"end"}
  /\ UNCHANGED <<inward, outward, irqs, master_mask, running, program, tally>>

\* The program's output is read: then the buffer is to be emptied first.
master_reads ==
  /\ EPOLLIN \in got /\ got' = got \ {EPOLLIN}
  /\ master_mask' = Flip(master_mask, EPOLLIN)
  /\ \/ /\ slave_out # <<>>
        /\ \E n \in AtMost(slave_out, Chunk) :
             stdout_buf' = First(slave_out, n) /\ slave_out' = Rest(slave_out, n)
        /\ stdout_on' = TRUE /\ UNCHANGED <<shown, running, failures>>
     \/ /\ slave_out = <<>> /\ running' = Flip(running, EPOLLIN)
        /\ UNCHANGED <<outward, failures>>
     \/ Fails /\ UNCHANGED <<outward, running>>
  /\ UNCHANGED <<inward, irqs, program, keys, prints>>

\* And its input written, whole or in part.
master_writes ==
  /\ got \cap {EPOLLIN, EPOLLOUT} = {EPOLLOUT} /\ got' = got \ {EPOLLOUT}
  /\ \/ /\ program = "runs"
        /\ \E n \in AtMost(stdin_buf, Room - Len(slave_in)) :
             /\ slave_in' = slave_in \o First(stdin_buf, n) /\ stdin_buf' = Rest(stdin_buf, n)
             /\ IF n < Len(stdin_buf)
                THEN UNCHANGED <<master_mask, stdin_on>>
                ELSE master_mask' = Flip(master_mask, EPOLLOUT) /\ stdin_on' = TRUE
        /\ UNCHANGED <<typed, running, failures>>
     \/ /\ program # "runs" /\ running' = Flip(running, EPOLLOUT)
        /\ UNCHANGED <<inward, master_mask, failures>>
     \/ Fails /\ UNCHANGED <<inward, master_mask, running>>
  /\ UNCHANGED <<outward, irqs, program, keys, prints>>

master_end ==
  /\ got # {} /\ got \cap {EPOLLIN, EPOLLOUT} = {} /\ got' = {}
  /\ running' = IF EPOLLHUP \in got THEN {} ELSE running
  /\ master_mask' = master_mask \cap running'
  /\ UNCHANGED <<inward, outward, irqs, program, tally>>

\* Mutant: the queues are taken for each other.
device_event_Swapped(n) ==
  /\ Virtio /\ Waiting /\ n \in irqs /\ irqs' = irqs \ {n}
  /\ IF n = receiveq THEN Waits(EPOLLIN) ELSE Waits(EPOLLOUT)
  /\ UNCHANGED <<inward, outward, running, got, program, tally>>

\* The queue that interrupted has one buffer that is used.
device_event(n) ==
  /\ Virtio /\ Waiting /\ n \in irqs /\ irqs' = irqs \ {n}
  /\ IF n = receiveq THEN Waits(EPOLLOUT) ELSE Waits(EPOLLIN)
  /\ UNCHANGED <<inward, outward, running, got, program, tally>>

Next ==
  \/ Types \/ ProgramReads \/ ProgramPrints \/ Exits \/ DeviceReceives \/ DeviceShows
  \/ stdout_event \/ stdin_event
  \/ master_event \/ master_reads \/ master_writes \/ master_end
  \/ \E n \in {receiveq, transmitq} : device_event(n)

Spec == Init /\ [][Next]_vars

-----------------------------------------------------------------------------
(* Properties.                                                             *)

\* Every variable holds a value of its kind, and the masks follow the buffers:
\* one end of each is waited for at most, and no end of what is over.
ConsoleTypeOK ==
  /\ got = {} => master_mask \subseteq running
  /\ running \subseteq {EPOLLIN, EPOLLOUT}
  /\ Len(stdin_buf) <= Chunk /\ Len(stdout_buf) <= Chunk /\ Len(slave_in) <= Room
  /\ EPOLLIN \in master_mask => ~ stdout_on /\ stdout_buf = <<>> /\ transmitq \notin irqs
  /\ EPOLLOUT \in master_mask => ~ stdin_on /\ stdin_buf # <<>>

\* Nothing is lost, repeated or turned around on the way: the console is two
\* pipes, whatever reads, writes and events there are.
Pipes == INSTANCE Terminal WITH
  input  <- slave_in \o stdin_buf \o typed,
  output <- stdout_buf \o slave_out

TwoPipes == Pipes!Spec

\* A direction that is over is never waited for again: the exclusive ors
\* switch off and never on.
NothingRevived == [][running' \subseteq running]_running

\* Neither direction is stuck: one of the ends of its buffer is waited for, or
\* an interrupt is on its way.
NeverWedged ==
  failures = 0 /\ got = {} =>
    /\ EPOLLIN \in running => EPOLLIN \in master_mask \/ stdout_on \/ transmitq \in irqs
    /\ EPOLLOUT \in running => EPOLLOUT \in master_mask \/ stdin_on \/ receiveq \in irqs

\* What is printed is shown, and what is typed is read, unless the program
\* ends, or a read or write that fails has made the loop stop waiting for one
\* end, and the masks never wait for what is over.
Excused == program # "runs" \/ failures > 0
ReadSoFar == keys - Len(slave_in \o stdin_buf \o typed)
ConsoleServes ==
  /\ [](ConsoleTypeOK /\ NeverWedged) /\ NothingRevived
  /\ \A n \in 1..Prints : prints >= n ~> Len(shown) >= n \/ Excused
  /\ \A n \in 1..Keys : keys >= n ~> ReadSoFar >= n \/ Excused

=============================================================================
