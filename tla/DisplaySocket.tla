---------------------------- MODULE DisplaySocket ----------------------------
(***************************************************************************)
(* How a compositor gets its one client: the beginning of main() in        *)
(* code/nested-wayland.c and, word for word but for the number of the      *)
(* display, in the four other compositors.  Several of them, started and   *)
(* dying at any time, use one name in XDG_RUNTIME_DIR, which stays behind  *)
(* when its process dies, and one lock file.                               *)
(***************************************************************************)
EXTENDS Integers, Sequences, FiniteSets

CONSTANTS Server, Client,
          Backlog,   \* how many connections the kernel queues for listen(1)
          Deaths,    \* bound: how often a server dies
          None

ASSUME SocketAssumption ==
  /\ None \notin Server /\ Backlog \in Nat \ {0} /\ Deaths \in Nat

VARIABLES
  pc,        \* what a server does next
  lock,      \* which server has the lock
  name,      \* whose socket the name is
  backlog,   \* connections to a socket that are not accepted
  serves,    \* the client that a server has accepted
  at,        \* which server a client is connected to
  deaths,
  failed     \* history: the assertion of a bind has failed

vars == <<pc, lock, name, backlog, serves, at, deaths, failed>>

Init ==
  /\ pc = [p \in Server |-> "flock"]
  /\ lock = None /\ name = None
  /\ backlog = [p \in Server |-> << >>]
  /\ serves = [p \in Server |-> None]
  /\ at = [c \in Client |-> None]
  /\ deaths = 0 /\ failed = FALSE

-----------------------------------------------------------------------------
(* A server.                                                               *)

Goes(p, from, to) == pc[p] = from /\ pc' = [pc EXCEPT ![p] = to]

\* open, and flock(lock_fd, LOCK_EX), which waits.
flock(p) ==
  /\ Goes(p, "flock", "unlink") /\ lock = None /\ lock' = p
  /\ UNCHANGED <<name, backlog, serves, at, deaths, failed>>

\* socket, and unlink, whatever it returns.
unlink(p) ==
  /\ Goes(p, "unlink", "bind") /\ name' = None
  /\ UNCHANGED <<lock, backlog, serves, at, deaths, failed>>

\* The process ends, and another is started some time.
Ends(p) ==
  /\ pc' = [pc EXCEPT ![p] = "flock"]
  /\ lock' = IF lock = p THEN None ELSE lock
  /\ serves' = [serves EXCEPT ![p] = None]
  /\ backlog' = [backlog EXCEPT ![p] = << >>]
  /\ at' = [c \in Client |-> IF at[c] = p THEN None ELSE at[c]]
  /\ UNCHANGED name

\* assert(bind(...) == 0): there must be no such name.
bind(p) ==
  /\ pc[p] = "bind"
  /\ IF name = None
     THEN name' = p /\ pc' = [pc EXCEPT ![p] = "listen"]
          /\ UNCHANGED <<lock, backlog, serves, at, failed>>
     ELSE failed' = TRUE /\ Ends(p)
  /\ UNCHANGED deaths

\* Mutant: the lock is let go before the client has come.
listen_Unlocks(p) ==
  /\ Goes(p, "listen", "accept") /\ lock' = None
  /\ UNCHANGED <<name, backlog, serves, at, deaths, failed>>

listen(p) ==
  /\ Goes(p, "listen", "accept")
  /\ UNCHANGED <<lock, name, backlog, serves, at, deaths, failed>>

accept(p) ==
  /\ Goes(p, "accept", "close")
  /\ backlog[p] # << >>
  /\ serves' = [serves EXCEPT ![p] = Head(backlog[p])]
  /\ backlog' = [backlog EXCEPT ![p] = Tail(@)]
  /\ UNCHANGED <<lock, name, at, deaths, failed>>

\* What the kernel does with the connections of a socket that is closed.
Reset(p) ==
  /\ at' = [c \in Client |->
              IF \E i \in DOMAIN backlog[p] : backlog[p][i] = c THEN None ELSE at[c]]
  /\ backlog' = [backlog EXCEPT ![p] = << >>]

\* close(listen_fd)
close(p) ==
  /\ Goes(p, "close", "remove") /\ Reset(p)
  /\ UNCHANGED <<lock, name, serves, deaths, failed>>

\* The second unlink.
remove(p) ==
  /\ Goes(p, "remove", "unlock") /\ name' = None
  /\ UNCHANGED <<lock, backlog, serves, at, deaths, failed>>

\* close(lock_fd)
unlock(p) ==
  /\ Goes(p, "unlock", "serve") /\ lock' = None
  /\ UNCHANGED <<name, backlog, serves, at, deaths, failed>>

\* client_destroyed: its one client has exited.
client_destroyed(p) ==
  /\ pc[p] = "serve" /\ Ends(p) /\ UNCHANGED <<deaths, failed>>

Dies(p) ==
  /\ deaths < Deaths /\ pc[p] # "flock"
  /\ deaths' = deaths + 1 /\ Ends(p) /\ UNCHANGED failed

-----------------------------------------------------------------------------
(* A client.                                                               *)

\* wl_display_connect; it fails if nobody listens, and is tried again.
Connect(c) ==
  /\ at[c] = None /\ name # None
  /\ pc[name] \in {"accept", "close"} /\ Len(backlog[name]) < Backlog
  /\ at' = [at EXCEPT ![c] = name]
  /\ backlog' = [backlog EXCEPT ![name] = Append(@, c)]
  /\ UNCHANGED <<pc, lock, name, serves, deaths, failed>>

-----------------------------------------------------------------------------
Step(p) ==
  \/ flock(p) \/ unlink(p) \/ bind(p) \/ listen(p) \/ accept(p) \/ close(p)
  \/ remove(p) \/ unlock(p)

Next ==
  \/ \E p \in Server : Step(p) \/ client_destroyed(p) \/ Dies(p)
  \/ \E c \in Client : Connect(c)

Spec == Init /\ [][Next]_vars

-----------------------------------------------------------------------------
(* Properties.                                                             *)

Steps == {"flock", "unlink", "bind", "listen", "accept", "close", "remove",
          "unlock", "serve"}

\* Between the lock and its release.
Locked == Steps \ {"flock", "serve"}

\* Every variable holds a value of its kind; the lock is with the one server
\* that is between flock and the close of its file.
SocketTypeOK ==
  /\ pc \in [Server -> Steps]
  /\ lock \in Server \cup {None} /\ name \in Server \cup {None}
  /\ backlog \in [Server -> Seq(Client)]
  /\ serves \in [Server -> Client \cup {None}]
  /\ at \in [Client -> Server \cup {None}]
  /\ deaths \in Nat /\ failed \in BOOLEAN
  /\ \A p \in Server : lock = p <=> pc[p] \in Locked

\* While a server waits for its client, its socket is the one that has the
\* name, and it is still its own name that it removes: no server that starts,
\* dies or finishes meanwhile takes it away.
NameIsOwn ==
  \A p \in Server : pc[p] \in {"listen", "accept", "close", "remove"} => name = p

\* No assertion of bind fails, though names of dead servers lie about.
BindSucceeds == ~ failed

\* The lock file does what it is for, whatever servers start, finish and die.
SocketSafe == SocketTypeOK /\ NameIsOwn /\ BindSucceeds

=============================================================================
