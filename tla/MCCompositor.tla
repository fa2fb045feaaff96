---------------------------- MODULE MCCompositor ----------------------------
(***************************************************************************)
(* Small instances for TLC of the two halves of a compositor: the frames   *)
(* of its client (Compositor) and its seat (CompositorSeat).  They share   *)
(* the client and no handler, and are checked one at a time: half is       *)
(* chosen at the start and the variables of the other half stay as they    *)
(* are.                                                                    *)
(***************************************************************************)
EXTENDS Compositor, SeatInput, TLC

CONSTANTS b1, b2, p1, p2, m1, m2, s1, s2

VARIABLE half

seatVars == <<seat_surface, keyboard, pointer, x, y, seat_pc, used, irq, history, sent>>

ASSUME Seat!SeatAssumption

MCInit == half \in {"frames", "seat"} /\ Init /\ Seat!Init

MCNext ==
  \/ half = "frames" /\ Next /\ UNCHANGED <<half, seatVars>>
  \/ half = "seat" /\ Seat!Next /\ UNCHANGED <<half, vars>>
  \/ half = "seat" /\ UNCHANGED <<half, vars, seatVars>>  \* nobody has to press a key

MCSpec == MCInit /\ [][MCNext]_<<half, vars, seatVars>>

Symmetric ==
  Permutations({m1, m2}) \cup Permutations({b1, b2}) \cup Permutations({p1, p2})

=============================================================================
