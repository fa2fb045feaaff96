----------------------------- MODULE MCVirtio9p -----------------------------
(***************************************************************************)
(* Small instances for TLC of a queue with four descriptors, used by any   *)
(* driver (Virtqueue) or by fuse-9p.c (Virtio9p), as chosen at the start.  *)
(***************************************************************************)
EXTENDS Virtio9p, MCVirtqueue

MCInit == CallInit \/ (Init /\ NoCall("none"))

MCNext ==
  \/ step = "none" /\ Next /\ UNCHANGED callVars
  \/ step # "none" /\ CallNext

MCSpec == MCInit /\ [][MCNext]_sessionVars

LiveCall == <<LiveState, callVars>>

=============================================================================
