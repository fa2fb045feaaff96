---------------------------- MODULE WaylandProxy ----------------------------
(***************************************************************************)
(* code/nested-wayland.c: a compositor for one client that is itself a     *)
(* client of another compositor, the backend, and gives every request and  *)
(* every event on; and code/wayland-wayland.c, its first version, which    *)
(* has no seat and in which only pools are destroyed.                      *)
(*                                                                         *)
(* An object has a number on each of the two connections.  The proxy joins *)
(* them: the user data of the frontend's resource is the backend's object, *)
(* and the data of the backend object's listener is the resource.  The     *)
(* numbers are used again (libwayland does so after a delete_id); the      *)
(* objects of the client are told apart by history numbers, which the      *)
(* messages carry and no handler looks at.  All requests of an object that *)
(* make and destroy none are "use", and all its events "event", but for    *)
(* those that name another object.                                         *)
(***************************************************************************)
EXTENDS Integers, Sequences, FiniteSets

CONSTANTS Objects,  \* bound: how many objects the client creates
          Scenes    \* what is played: see scene

KindOf == [create_surface |-> "surface", create_region |-> "region", frame |-> "callback",
           create_pool |-> "pool", create_buffer |-> "buffer",
           get_xdg_surface |-> "xdg_surface", get_toplevel |-> "xdg_toplevel",
           get_pointer |-> "pointer", get_keyboard |-> "keyboard"]

\* Which program it is, nested-wayland.c or not; the requests for new objects
\* that the client makes; and bounds: how many objects it creates, how many
\* other requests it makes, how many events of enter, leave and others there
\* are, and how often the backend pings.
Scene == [nested : BOOLEAN, creates : SUBSET DOMAIN KindOf, objects : 0..Objects,
          uses : Nat, sends : Nat, pings : Nat]

ASSUME ProxyAssumption == Objects \in Nat /\ Scenes \subseteq Scene

VARIABLES
  scene,           \* never changes
  kind,            \* history: the kinds of the client's objects
  client,          \* ids: the client's object, 0 for none, Zombie
  requests,        \* from the client
  resources,       \* ids: the proxy's resource of the client's object
  events, unsent_events,
  proxies,         \* ids: the proxy's object of the backend
  server,          \* ids: the object that the backend has
  backend_requests, unsent_requests,
  backend_events,
  handling,        \* the loop has dispatched something and not flushed since
  dead,            \* the proxy has followed a null pointer
  uses, sends, pings, pinged

front == <<scene, kind, client, requests, resources, events>>
back  == <<proxies, server, backend_requests, backend_events>>
tally == <<uses, sends, pings>>
vars  == <<front, back, unsent_events, unsent_requests, handling, dead, tally, pinged>>

Object == 1..Objects
Id     == 1..Objects
Null   == 0
Zombie == -1
NoRef  == <<0, Null>>   \* a reference: an id and, as history, the object
NoObject == [obj |-> 0, data |-> NoRef]

Init ==
  /\ scene \in Scenes
  /\ kind = [o \in Object |-> "none"] /\ client = [i \in Id |-> 0]
  /\ resources = [i \in Id |-> NoObject] /\ proxies = [i \in Id |-> NoObject]
  /\ server = [i \in Id |-> 0]
  /\ requests = <<>> /\ events = <<>> /\ unsent_events = <<>>
  /\ backend_requests = <<>> /\ unsent_requests = <<>> /\ backend_events = <<>>
  /\ handling = FALSE /\ dead = FALSE
  /\ uses = 0 /\ sends = 0 /\ pings = 0 /\ pinged = FALSE

Message(op, obj, arg) == [op |-> op, obj |-> obj, arg |-> arg]
Least(ids) == CHOOSE i \in ids : \A j \in ids : i <= j

-----------------------------------------------------------------------------
(* The client.  It may destroy what it likes, and an object's number is its *)
(* own again when delete_id says so.                                        *)

Created == {o \in Object : kind[o] # "none"}
HasKind(i, k) == client[i] > 0 /\ kind[client[i]] = k
Mine(i) == <<i, client[i]>>

Every(k) == {Mine(i) : i \in {j \in Id : HasKind(j, k)}}

\* What the request is made of: a buffer of a pool, a frame of a surface.
Parents(op) ==
  CASE op = "create_buffer" -> Every("pool")
    [] op \in {"frame", "get_xdg_surface"} -> Every("surface")
    [] op = "get_toplevel" -> Every("xdg_surface")
    [] OTHER -> {NoRef}

ClientCreates(op) ==
  LET o == Cardinality(Created) + 1
      i == Least({j \in Id : client[j] = 0})
  IN
  /\ o <= scene.objects /\ \E j \in Id : client[j] = 0
  /\ \E parent \in Parents(op) :
       requests' = Append(requests, Message(op, <<i, o>>, parent))
  /\ kind' = [kind EXCEPT ![o] = KindOf[op]]
  /\ client' = [client EXCEPT ![i] = o]
  /\ UNCHANGED <<back, scene, resources, events, unsent_events, unsent_requests, handling,
                 dead, tally, pinged>>

Destroyable == IF scene.nested THEN {KindOf[op] : op \in scene.creates} \ {"callback"} ELSE {"pool"}

ClientDestroys(i) ==
  /\ \E k \in Destroyable : HasKind(i, k)
  /\ requests' = Append(requests, Message("destroy", Mine(i), NoRef))
  /\ client' = [client EXCEPT ![i] = Zombie]
  /\ UNCHANGED <<back, scene, kind, resources, events, unsent_events, unsent_requests, handling,
                 dead, tally, pinged>>

\* attach with a buffer, a region of a surface, set_cursor with a surface or
\* none, and what has no object for an argument.
Arguments(k) ==
  CASE k = "surface" -> Every("buffer") \cup Every("region") \cup {NoRef}
    [] k = "pointer" -> Every("surface") \cup {NoRef}
    [] k \in {"xdg_surface", "xdg_toplevel", "region"} -> {NoRef}
    [] k = "pool" /\ scene.nested -> {NoRef}
    [] OTHER -> {}

ClientUses(i) ==
  /\ uses < scene.uses /\ uses' = uses + 1 /\ client[i] > 0
  /\ \E arg \in Arguments(kind[client[i]]) :
       requests' = Append(requests, Message("use", Mine(i), arg))
  /\ UNCHANGED <<back, scene, kind, client, resources, events, unsent_events, unsent_requests,
                 handling, dead, sends, pings, pinged>>

ClientReceives ==
  LET m == Head(events)
      i == m.obj[1]
  IN
  /\ events # <<>> /\ events' = Tail(events)
  /\ client' = [client EXCEPT ![i] =
       IF m.op = "delete_id" THEN 0
       ELSE IF m.op = "done" /\ @ > 0 THEN Zombie ELSE @]
  /\ UNCHANGED <<back, scene, kind, requests, resources, unsent_events, unsent_requests, handling,
                 dead, tally, pinged>>

-----------------------------------------------------------------------------
(* The requests of the client.                                             *)

\* wl_client dispatches the next request, if it is this one.
NextRequest(ops) ==
  /\ ~ dead /\ requests # <<>> /\ Head(requests).op \in ops
  /\ requests' = Tail(requests) /\ handling' = TRUE
  /\ UNCHANGED <<scene, kind, client, events, server, backend_requests, backend_events, dead,
                 tally, pinged>>

wl_resource_get_user_data(ref) == IF ref[1] = 0 THEN NoRef ELSE resources[ref[1]].data
Forward(op, obj, arg) == unsent_requests' = Append(unsent_requests, Message(op, obj, arg))

\* Mutant: the listener is added with the data of the object before.
OnCreate_OldData(op) ==
  LET m == Head(requests)
      b == Least({j \in Id : proxies[j].obj = 0})
  IN
  /\ NextRequest({op})
  /\ proxies' = [proxies EXCEPT ![b] = [obj |-> m.obj[2],
       data |-> IF b > 1 THEN proxies[b - 1].data ELSE m.obj]]
  /\ resources' = [resources EXCEPT ![m.obj[1]] = [obj |-> m.obj[2], data |-> <<b, m.obj[2]>>]]
  /\ Forward(op, <<b, m.obj[2]>>, wl_resource_get_user_data(m.arg))
  /\ UNCHANGED unsent_events

\* The backend's object is made, then the resource, and the two are joined.
OnCreate(op) ==
  LET m == Head(requests)
      b == Least({j \in Id : proxies[j].obj = 0})
  IN
  /\ NextRequest({op})
  /\ proxies' = [proxies EXCEPT ![b] = [obj |-> m.obj[2], data |-> m.obj]]
  /\ resources' = [resources EXCEPT ![m.obj[1]] =
                     [obj |-> m.obj[2], data |-> <<b, m.obj[2]>>]]
  /\ Forward(op, <<b, m.obj[2]>>, wl_resource_get_user_data(m.arg))
  /\ UNCHANGED unsent_events

wl_compositor_on_create_surface == OnCreate("create_surface")
wl_compositor_on_create_region  == OnCreate("create_region")
wl_surface_on_frame             == OnCreate("frame")
wl_shm_on_create_pool           == OnCreate("create_pool")
wl_shm_pool_on_create_buffer    == OnCreate("create_buffer")
xdg_wm_base_on_get_xdg_surface  == OnCreate("get_xdg_surface")
xdg_surface_on_get_top_level    == OnCreate("get_toplevel")
wl_seat_on_get_pointer          == OnCreate("get_pointer")
wl_seat_on_get_keyboard         == OnCreate("get_keyboard")

\* The backend's object is destroyed, and the resource with it if all.
OnDestroy(k, all) ==
  LET m == Head(requests)
      b == wl_resource_get_user_data(m.obj)
  IN
  /\ NextRequest({"destroy"}) /\ kind[resources[m.obj[1]].obj] = k
  /\ proxies' = [proxies EXCEPT ![b[1]] = [obj |-> Zombie, data |-> NoRef]]
  /\ Forward("destroy", b, NoRef)
  /\ IF all
     THEN /\ resources' = [resources EXCEPT ![m.obj[1]] = NoObject]
          /\ unsent_events' = Append(unsent_events, Message("delete_id", m.obj, NoRef))
     ELSE UNCHANGED <<resources, unsent_events>>

wl_surface_on_destroy   == OnDestroy("surface", TRUE)
wl_region_on_destroy    == OnDestroy("region", TRUE)
wl_buffer_on_destroy    == OnDestroy("buffer", TRUE)
wl_shm_pool_on_destroy  == OnDestroy("pool", scene.nested)
xdg_surface_on_destroy  == OnDestroy("xdg_surface", TRUE)
xdg_toplevel_on_destroy == OnDestroy("xdg_toplevel", TRUE)

\* The resource stays.
wl_pointer_on_release   == OnDestroy("pointer", FALSE)
wl_keyboard_on_release  == OnDestroy("keyboard", FALSE)

OnUse(k) ==
  LET m == Head(requests) IN
  /\ NextRequest({"use"}) /\ kind[resources[m.obj[1]].obj] = k
  /\ Forward("use", wl_resource_get_user_data(m.obj), wl_resource_get_user_data(m.arg))
  /\ UNCHANGED <<resources, proxies, unsent_events>>

wl_surface_on_request      == OnUse("surface")
wl_region_on_add           == OnUse("region")
wl_shm_pool_on_resize      == OnUse("pool")
xdg_surface_on_request     == OnUse("xdg_surface")
xdg_toplevel_on_request    == OnUse("xdg_toplevel")
wl_pointer_on_set_cursor   == OnUse("pointer")

-----------------------------------------------------------------------------
(* The events of the backend.  An object that has been destroyed gets none, *)
(* and is a null pointer where it is an argument.                           *)

NextEvent(ops) ==
  /\ ~ dead /\ backend_events # <<>> /\ Head(backend_events).op \in ops
  /\ backend_events' = Tail(backend_events) /\ handling' = TRUE
  /\ UNCHANGED <<front, server, backend_requests, tally, pinged>>

IsLive(ref) == ref[1] # 0 /\ proxies[ref[1]].obj > 0
DataOf(ref) == proxies[ref[1]].data
Give(m) == unsent_events' = Append(unsent_events, m)

NextEventIsLost(ops) ==
  /\ NextEvent(ops) /\ ~ IsLive(Head(backend_events).obj)
  /\ UNCHANGED <<proxies, unsent_events, unsent_requests, dead>>

OnEvent(op, k) ==
  LET m == Head(backend_events) IN
  /\ NextEvent({op}) /\ IsLive(m.obj) /\ kind[m.obj[2]] = k
  /\ Give(Message(op, DataOf(m.obj), NoRef))
  /\ UNCHANGED <<proxies, unsent_requests, dead>>

wl_buffer_release      == OnEvent("event", "buffer")
xdg_surface_configure  == OnEvent("event", "xdg_surface")
xdg_toplevel_configure == OnEvent("event", "xdg_toplevel")
wl_pointer_motion      == OnEvent("event", "pointer")
wl_keyboard_key        == OnEvent("event", "keyboard")

\* Neither the callback nor its resource is destroyed.
frame_callback_done == OnEvent("done", "callback")

\* An enter does not look whether there is a surface, a leave does.
OnEnter(k) ==
  LET m == Head(backend_events) IN
  /\ NextEvent({"enter"}) /\ IsLive(m.obj) /\ kind[m.obj[2]] = k
  /\ IF IsLive(m.arg)
     THEN Give(Message("enter", DataOf(m.obj), DataOf(m.arg))) /\ UNCHANGED dead
     ELSE dead' = TRUE /\ UNCHANGED unsent_events
  /\ UNCHANGED <<proxies, unsent_requests>>

OnLeave(k) ==
  LET m == Head(backend_events) IN
  /\ NextEvent({"leave"}) /\ IsLive(m.obj) /\ kind[m.obj[2]] = k
  /\ IF IsLive(m.arg)
     THEN Give(Message("leave", DataOf(m.obj), DataOf(m.arg)))
     ELSE UNCHANGED unsent_events
  /\ UNCHANGED <<proxies, unsent_requests, dead>>

wl_pointer_enter  == OnEnter("pointer")
wl_pointer_leave  == OnLeave("pointer")
wl_keyboard_enter == OnEnter("keyboard")
wl_keyboard_leave == OnLeave("keyboard")

xdg_wm_base_ping ==
  /\ NextEvent({"ping"})
  /\ Forward("pong", NoRef, NoRef)
  /\ UNCHANGED <<proxies, unsent_events, dead>>

\* libwayland's: the number of a destroyed object is free.
DeleteId ==
  LET b == Head(backend_events).obj[1] IN
  /\ NextEvent({"delete_id"})
  /\ proxies' = [proxies EXCEPT ![b] = IF @.obj = Zombie THEN NoObject ELSE @]
  /\ UNCHANGED <<unsent_events, unsent_requests, dead>>

\* The end of a round of main's loop.
Flush ==
  /\ ~ dead /\ handling /\ handling' = FALSE
  /\ events' = events \o unsent_events /\ unsent_events' = <<>>
  /\ backend_requests' = backend_requests \o unsent_requests /\ unsent_requests' = <<>>
  /\ UNCHANGED <<scene, kind, client, requests, resources, proxies, server, backend_events, dead,
                 tally, pinged>>

handle_backend_events ==
  \/ NextEventIsLost({"event", "done", "enter", "leave"})
  \/ wl_buffer_release \/ xdg_surface_configure \/ xdg_toplevel_configure
  \/ wl_pointer_motion \/ wl_keyboard_key \/ frame_callback_done
  \/ wl_pointer_enter \/ wl_pointer_leave \/ wl_keyboard_enter \/ wl_keyboard_leave
  \/ xdg_wm_base_ping \/ DeleteId

handle_requests ==
  \/ wl_compositor_on_create_surface \/ wl_compositor_on_create_region
  \/ wl_surface_on_frame \/ wl_shm_on_create_pool \/ wl_shm_pool_on_create_buffer
  \/ xdg_wm_base_on_get_xdg_surface \/ xdg_surface_on_get_top_level
  \/ wl_seat_on_get_pointer \/ wl_seat_on_get_keyboard
  \/ wl_surface_on_destroy \/ wl_region_on_destroy \/ wl_buffer_on_destroy
  \/ wl_shm_pool_on_destroy \/ xdg_surface_on_destroy \/ xdg_toplevel_on_destroy
  \/ wl_pointer_on_release \/ wl_keyboard_on_release
  \/ wl_surface_on_request \/ wl_region_on_add \/ wl_shm_pool_on_resize
  \/ xdg_surface_on_request \/ xdg_toplevel_on_request \/ wl_pointer_on_set_cursor

-----------------------------------------------------------------------------
(* The backend's compositor.                                               *)

ServerUnchanged == UNCHANGED <<front, proxies, unsent_events, unsent_requests, handling, dead,
                               uses>>

\* The callbacks of a surface that is destroyed are dropped.
BackendServes ==
  LET m == Head(backend_requests)
      b == m.obj[1]
  IN
  /\ backend_requests # <<>> /\ backend_requests' = Tail(backend_requests)
  /\ \/ m.op \in DOMAIN KindOf /\ server' = [server EXCEPT ![b] = m.obj[2]]
        /\ UNCHANGED <<backend_events, pinged>>
     \/ /\ m.op = "destroy"
        /\ backend_events' = Append(backend_events, Message("delete_id", m.obj, NoRef))
        /\ \E gone \in SUBSET {i \in Id : server[i] > 0 /\ kind[server[i]] = "callback"} :
             server' = [i \in Id |-> IF i \in gone \cup {b} THEN 0 ELSE server[i]]
        /\ kind[m.obj[2]] # "surface" => \A i \in Id \ {b} : server'[i] = server[i]
        /\ UNCHANGED pinged
     \/ m.op = "use" /\ UNCHANGED <<server, backend_events, pinged>>
     \/ m.op = "pong" /\ pinged' = FALSE /\ UNCHANGED <<server, backend_events>>
  /\ ServerUnchanged /\ UNCHANGED <<sends, pings>>

BackendSends(i) ==
  LET k == kind[server[i]]
      Post(op, arg) == backend_events' = Append(backend_events, Message(op, <<i, server[i]>>, arg))
  IN
  /\ server[i] > 0 /\ sends < scene.sends /\ sends' = sends + 1
  /\ \/ k \in {"buffer", "xdg_surface", "xdg_toplevel", "pointer", "keyboard"}
        /\ Post("event", NoRef)
     \/ k \in {"pointer", "keyboard"} /\ \E j \in Id, op \in {"enter", "leave"} :
          server[j] > 0 /\ kind[server[j]] = "surface" /\ Post(op, <<j, server[j]>>)
  /\ ServerUnchanged /\ UNCHANGED <<server, backend_requests, pings, pinged>>

BackendDone(i) ==
  /\ server[i] > 0 /\ kind[server[i]] = "callback"
  /\ backend_events' = Append(backend_events, Message("done", <<i, server[i]>>, NoRef))
  /\ server' = [server EXCEPT ![i] = 0]
  /\ ServerUnchanged /\ UNCHANGED <<sends, backend_requests, pings, pinged>>

BackendPings ==
  /\ ~ pinged /\ pings < scene.pings /\ pings' = pings + 1 /\ pinged' = TRUE
  /\ backend_events' = Append(backend_events, Message("ping", NoRef, NoRef))
  /\ ServerUnchanged /\ UNCHANGED <<server, sends, backend_requests>>

Proxy == handle_requests \/ handle_backend_events \/ Flush

Next ==
  \/ \E op \in scene.creates : ClientCreates(op)
  \/ \E i \in Id : ClientDestroys(i) \/ ClientUses(i) \/ BackendSends(i) \/ BackendDone(i)
  \/ ClientReceives \/ Proxy \/ BackendServes \/ BackendPings

Spec == Init /\ [][Next]_vars

-----------------------------------------------------------------------------
(* Properties.                                                             *)

\* Between the client and the backend the proxy is no more than a connection.
ObjectsIn(table) == {table[i] : i \in Id} \cap Object
Plain(q) == LET p == SelectSeq(q, LAMBDA m : m.op \notin {"pong", "ping", "delete_id"})
            IN  [n \in 1..Len(p) |-> Message(p[n].op, p[n].obj[2], p[n].arg[2])]

Direct == INSTANCE WaylandConnection WITH
  Creates <- DOMAIN KindOf,
  used <- Created, client <- ObjectsIn(client), server <- ObjectsIn(server),
  requests <- Plain(backend_requests \o unsent_requests \o requests),
  events <- LET q == Plain(events \o unsent_events \o backend_events)
                known == ObjectsIn(client) \cup {Null}
            IN  SelectSeq(q, LAMBDA m : m.obj \in known /\ m.arg \in known)

Transparent == Direct!Spec

=============================================================================
