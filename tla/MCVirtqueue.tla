----------------------------- MODULE MCVirtqueue -----------------------------
(***************************************************************************)
(* Instances of Virtqueue for TLC.                                         *)
(***************************************************************************)
EXTENDS Virtqueue

\* One device-writable buffer (virtio-input.c, console-virtio.c), and a
\* request followed by room for the response (fuse-9p.c, virtio-gpu.c).
ShortShapes == {<<1, 0>>, <<2, 1>>}

\* The chains of virtio-gpu.c: a request with or without a second part, and
\* the response.
LongShapes == {<<2, 1>>, <<3, 2>>}

\* Ring slots that were consumed and not written again are never read: two
\* states that differ only there have the same behaviours.
Live(ring, slots) == [s \in Desc |-> IF s \in slots THEN ring[s] ELSE 0]
LiveAvail ==
  Live(avail_ring, {Slot(c) : c \in Window(last_avail, next_avail)})
LiveUsed ==
  Live(used_ring, {Slot(c) : c \in UsedWindow}
                    \cup (IF pc = "recv" THEN {elem} ELSE {}))
LiveState ==
  <<driverVars, descVars, LiveAvail, avail_idx, LiveUsed, used_idx, no_notify,
    threadVars, kick, irq, devVars, histVars>>

=============================================================================
