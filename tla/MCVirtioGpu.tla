----------------------------- MODULE MCVirtioGpu -----------------------------
(***************************************************************************)
(* Instances of VirtioGpu for TLC.                                         *)
(***************************************************************************)
EXTENDS VirtioGpu, TLC

CONSTANTS s1, s2, s3

TwoSlots   == {s1, s2}
ThreeSlots == {s1, s2, s3}

\* Slots are only compared for equality.
SlotSymmetry == Permutations(ThreeSlots)

\* What tells two states apart.  A slot that is not in use keeps its last
\* command and response, which are written again before they are read; the
\* link of a resource that is not on the free list is dead; no action reads
\* buf; and fence ids only matter relative to fence_completed.
Ago(f) == (f - fence_completed) % F
Relative(c) == IF c.fenced THEN [c EXCEPT !.fence = Ago(@)] ELSE c
LiveGpu ==
  <<vars, Ago(fence_submitted), Relative(call),
    [id \in Request |-> IF id \in Busy THEN Relative(cmds[id]) ELSE NoCmd],
    [id \in Request |-> IF id \in Elements(completed) \cup received
                        THEN Relative(response[id]) ELSE NoResponse],
    rscs_size, free_rsc_id,
    [r \in Rsc |-> IF r \in live \cup {call.rsc} THEN 0 ELSE next[r]],
    ctxs_size, live, queueVars, pc, slot, got, ret, found, deviceVars>>

\* A bound of the safety run: with a second resource, two slots in use.
Moderate == rscs_size <= 1 \/ Cardinality(Busy) <= 2

=============================================================================
