------------------------------ MODULE Serving ------------------------------
(***************************************************************************)
(* create_server and class Server of src/mt_asyncio/asyncio/_net.py: the   *)
(* sockets a server binds one after another, and the bookkeeping of its    *)
(* clients under _mt_lock, which close, wait_closed and the end of a       *)
(* connection, on any worker, share.                                       *)
(*                                                                         *)
(* Each method of Server is one critical section of _mt_lock, and one step *)
(* here.  What is inherited from CPython's Server is what these methods    *)
(* call.                                                                   *)
(***************************************************************************)
EXTENDS Integers, FiniteSets

CONSTANTS Addresses,   \* what the hosts given to create_server resolve to
          Callers,     \* tasks that call Server.wait_closed
          Client       \* the transport of a connection that is accepted

VARIABLES
  creating,    \* where create_server is
  infos,       \* the addresses it has still to bind
  opened,      \* the sockets it has made and not closed
  listening,   \* the sockets with a reader, _accept_connection
  sockets,     \* whether Server._sockets is not None
  clients,     \* Server._clients
  waiters,     \* Server._waiters: the callers whose future it holds
  gone,        \* whether Server._waiters is None
  caller       \* where each call of wait_closed is

servingVars == <<creating, infos, opened, listening, sockets, clients, waiters, gone, caller>>

ServingTypeOK ==
  /\ creating \in {"bind", "close", "failed", "start", "serving", "abandoned"}
  /\ infos \subseteq Addresses /\ opened \subseteq Addresses /\ listening \subseteq opened
  /\ sockets \in BOOLEAN /\ gone \in BOOLEAN
  /\ clients \subseteq {Client} /\ waiters \subseteq Callers
  /\ caller \in [Callers -> {"out", "await", "returned"}]

\* The addresses are resolved, one host after another, into one set.
CreateServer(addresses) ==
  /\ creating = "bind"
  /\ infos = addresses
  /\ opened = {} /\ listening = {}
  /\ sockets = FALSE /\ gone = FALSE
  /\ clients = {} /\ waiters = {}
  /\ caller = [c \in Callers |-> "out"]

\* socket.socket: an address family the kernel will not give is passed over.
SkipAddress(sa) ==
  /\ creating = "bind" /\ sa \in infos
  /\ infos' = infos \ {sa}
  /\ UNCHANGED <<creating, opened, listening, sockets, clients, waiters, gone, caller>>

\* The socket is made, its options are set and it is bound; or one of these raises.
Bind(sa) ==
  /\ creating = "bind" /\ sa \in infos
  /\ infos' = infos \ {sa}
  /\ opened' = opened \cup {sa}
  /\ creating' \in {"bind", "close"}
  /\ UNCHANGED <<listening, sockets, clients, waiters, gone, caller>>

\* `finally`: not completed.
CloseBound ==
  /\ creating = "close"
  /\ opened' = {}
  /\ creating' = "failed"
  /\ UNCHANGED <<infos, listening, sockets, clients, waiters, gone, caller>>

\* Every address is done.  From here on nothing closes the sockets when create_server
\* raises: not when setblocking does, before there is a server ...
Bound ==
  /\ creating = "bind" /\ infos = {}
  /\ creating' \in {"start", "abandoned"}
  /\ sockets' = (creating' = "start")
  /\ UNCHANGED <<infos, opened, listening, clients, waiters, gone, caller>>

\* ... not when listen or _add_reader does, in Server._start_serving, with the sockets before
\* this one listening ...
Listen(sa) ==
  /\ creating = "start" /\ sa \in opened \ listening
  /\ \/ listening' = listening \cup {sa} /\ UNCHANGED creating
     \/ creating' = "abandoned" /\ UNCHANGED listening
  /\ UNCHANGED <<infos, opened, sockets, clients, waiters, gone, caller>>

\* ... and not when the caller is cancelled in `await sleep(0)`.
Yield ==
  /\ creating = "start" /\ listening = opened
  /\ creating' \in {"serving", "abandoned"}
  /\ UNCHANGED <<infos, opened, listening, sockets, clients, waiters, gone, caller>>

-----------------------------------------------------------------------------
\* Server._wakeup: the callers that wait, and whether there is a list of them from now on.
Wakeup ==
  /\ gone' = TRUE
  /\ waiters' = {}
  /\ caller' = [c \in Callers |-> IF c \in waiters THEN "returned" ELSE caller[c]]

\* Server._attach, by the constructor of a transport; it asserts that the server is open.
Attach(c) ==
  /\ sockets
  /\ clients' = clients \cup {c}
  /\ UNCHANGED <<creating, infos, opened, listening, sockets, waiters, gone, caller>>

\* Mutant: the last client leaves without a word.
DetachSilent(c) ==
  /\ clients' = clients \ {c}
  /\ UNCHANGED <<waiters, gone, caller>>

\* Server._detach, by _call_connection_lost.
Detach(c) ==
  /\ clients' = clients \ {c}
  /\ IF clients \ {c} = {} /\ ~sockets
       THEN Wakeup
       ELSE UNCHANGED <<waiters, gone, caller>>

\* _stop_serving: the reader, the registration and the socket go.
StopServing == opened' = {} /\ listening' = {}

\* Server.close.
CloseServer ==
  /\ creating = "serving" /\ sockets
  /\ sockets' = FALSE
  /\ StopServing
  /\ IF clients = {} THEN Wakeup ELSE UNCHANGED <<waiters, gone, caller>>
  /\ UNCHANGED <<creating, infos, clients>>

\* Server.wait_closed: the check and the append under the lock.
WaitClosed(c) ==
  /\ creating = "serving" /\ caller[c] = "out"
  /\ IF gone
       THEN caller' = [caller EXCEPT ![c] = "returned"] /\ UNCHANGED waiters
       ELSE caller' = [caller EXCEPT ![c] = "await"] /\ waiters' = waiters \cup {c}
  /\ UNCHANGED <<creating, infos, opened, listening, sockets, clients, gone>>

\* create_server, from start to end, and the calls of the application.
CreateStep ==
  \/ \E sa \in Addresses : SkipAddress(sa) \/ Bind(sa) \/ Listen(sa)
  \/ CloseBound \/ Bound \/ Yield

-----------------------------------------------------------------------------
\* A create_server that fails while it binds, and a server that is closed, leave no socket
\* open; and with its last client gone a closed server keeps nobody waiting in wait_closed,
\* whichever of the two came last.  A create_server that fails once every address is bound
\* is not covered: it does leave its sockets open ("abandoned").
ServerDrains ==
  /\ creating = "failed" => opened = {}
  /\ creating = "serving" /\ ~sockets =>
       opened = {} /\ (clients = {} => \A c \in Callers : caller[c] # "await")
=============================================================================
