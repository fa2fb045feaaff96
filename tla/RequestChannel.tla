--------------------------- MODULE RequestChannel ---------------------------
(***************************************************************************)
(* What a virtqueue promises its user: a request that is sent is handed to *)
(* the device exactly once, in the order of the sends; the device answers  *)
(* what it serves in any order; each answer is received exactly once, in   *)
(* the order of the answers; a request is sent again only after its owner  *)
(* has released it.                                                        *)
(***************************************************************************)
EXTENDS Sequences

CONSTANT Request

VARIABLES submitted, serving, completed, received

vars == <<submitted, serving, completed, received>>

Elements(s) == {s[i] : i \in DOMAIN s}

Busy == Elements(submitted) \cup serving \cup Elements(completed) \cup received

Init ==
  /\ submitted = << >> /\ serving = {}
  /\ completed = << >> /\ received = {}

Send(r) ==
  /\ r \notin Busy
  /\ submitted' = Append(submitted, r)
  /\ UNCHANGED <<serving, completed, received>>

Take ==
  /\ submitted # << >>
  /\ serving' = serving \cup {Head(submitted)}
  /\ submitted' = Tail(submitted)
  /\ UNCHANGED <<completed, received>>

Answer(r) ==
  /\ r \in serving
  /\ serving' = serving \ {r}
  /\ completed' = Append(completed, r)
  /\ UNCHANGED <<submitted, received>>

Receive ==
  /\ completed # << >>
  /\ received' = received \cup {Head(completed)}
  /\ completed' = Tail(completed)
  /\ UNCHANGED <<submitted, serving>>

Release(r) ==
  /\ r \in received
  /\ received' = received \ {r}
  /\ UNCHANGED <<submitted, serving, completed>>

Next ==
  \/ Take \/ Receive
  \/ \E r \in Request : Send(r) \/ Answer(r) \/ Release(r)

Spec == Init /\ [][Next]_vars

=============================================================================
