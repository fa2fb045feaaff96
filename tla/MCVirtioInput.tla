---------------------------- MODULE MCVirtioInput ----------------------------
(***************************************************************************)
(* Instances of VirtioInput for TLC.                                       *)
(***************************************************************************)
EXTENDS VirtioInput, MCVirtqueue

OneBuffer == {<<1, 0>>}

\* Buffers whose event was copied are overwritten before they are read
\* again, and the last event returned is compared with got only.
LiveEvents ==
  [d \in Desc |-> IF d \in UsedHeads \/ (ipc = "got" /\ d = used_ring[slot])
                  THEN events[d] ELSE 0]
LiveInput ==
  <<LiveState, addr, LiveEvents, ipc, supplied, buf, slot, used_ring[slot],
    produced, got>>

=============================================================================
