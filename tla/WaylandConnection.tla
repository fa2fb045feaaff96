-------------------------- MODULE WaylandConnection --------------------------
(***************************************************************************)
(* What a Wayland connection promises a client and its compositor, with    *)
(* nothing between them: every request arrives, in order, at the object it *)
(* was made of, and every event for an object that the client still has    *)
(* does too.  Events for objects that the client has destroyed are ignored *)
(* by it and left out here.                                                *)
(***************************************************************************)
EXTENDS Integers, Sequences

CONSTANTS Creates, Null

VARIABLES
  used,      \* the objects ever created
  client,    \* those that the client has
  server,    \* those that the compositor has
  requests,  \* sent and not yet served: records of op, obj and arg
  events     \* sent and not yet received, for objects of the client

vars == <<used, client, server, requests, events>>

Regards(m, objects) == {m.obj, m.arg} \subseteq objects \cup {Null}
ForClient(q, objects) == SelectSeq(q, LAMBDA m : Regards(m, objects))

Init == used = {} /\ client = {} /\ server = {} /\ requests = <<>> /\ events = <<>>

Last(q) == q[Len(q)]

Request ==
  LET m == Last(requests') IN
  /\ Len(requests') = Len(requests) + 1 /\ requests' = Append(requests, m)
  /\ \/ /\ m.op \in Creates /\ m.obj \notin used /\ Regards(m, client \cup {m.obj})
        /\ used' = used \cup {m.obj} /\ client' = client \cup {m.obj}
     \/ /\ m.op \in {"use", "destroy"} /\ Regards(m, client) /\ UNCHANGED used
        /\ client' = IF m.op = "destroy" THEN client \ {m.obj} ELSE client
  /\ events' = ForClient(events, client')
  /\ UNCHANGED server

\* What the server does with other objects than that of the request is its
\* own affair: the callbacks of a surface go with it.
Serve ==
  LET m == Head(requests) IN
  /\ requests # <<>> /\ requests' = Tail(requests)
  /\ \/ m.op \in Creates /\ server' = server \cup {m.obj}
     \/ /\ m.op = "use" /\ UNCHANGED server
        /\ Regards(m, client) => Regards(m, server)
     \/ m.op = "destroy" /\ server' \subseteq server \ {m.obj}
  /\ UNCHANGED <<used, client, events>>

\* Events for objects that the client has destroyed do not count.
Event ==
  LET m == Last(events') IN
  /\ Len(events') = Len(events) + 1 /\ events' = Append(events, m)
  /\ Regards(m, server) /\ Regards(m, client)
  /\ server' = IF m.op = "done" THEN server \ {m.obj} ELSE server
  /\ UNCHANGED <<used, client, requests>>

Receive ==
  LET m == Head(events) IN
  /\ events # <<>>
  /\ client' = IF m.op = "done" THEN client \ {m.obj} ELSE client
  /\ events' = ForClient(Tail(events), client')
  /\ UNCHANGED <<used, server, requests>>

Next == Request \/ Serve \/ Event \/ Receive

Spec == Init /\ [][Next]_vars

=============================================================================
