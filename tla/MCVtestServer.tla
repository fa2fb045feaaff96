---------------------------- MODULE MCVtestServer ----------------------------
(***************************************************************************)
(* A small instance of VtestServer for TLC: virgl-nested-virtio.c with two *)
(* clients.  One of them may never connect: then it is virgl-virtio.c, but *)
(* for the fences of the compositor, and its one client.                   *)
(***************************************************************************)
EXTENDS VtestServer, TLC

CONSTANTS c1, c2, a1, a2, a3

\* After the exit of a client its server is gone: that is no deadlock.
MCNext == Next \/ (pc = "aborted" /\ UNCHANGED vars)

MCSpec == Init /\ [][MCNext]_vars

Symmetric == Permutations(Addr) \cup Permutations(Client)

=============================================================================
