---------------------------- MODULE FdReadiness ----------------------------
(***************************************************************************)
(* The reading side of one file descriptor: add_reader and remove_reader   *)
(* of src/mt_asyncio/asyncio/_loop.py with _FdHandle, over the cached      *)
(* readiness of src/src/io/schedule.rs, against the poll loop of           *)
(* src/src/runtime.rs that sets it, and the release of registrations.      *)
(* The sock_* helpers share the registration: a task that waits in         *)
(* sock_recv, and the socket that is closed and whose number another one   *)
(* gets.  The writing side is the mirror image, sock_sendall and           *)
(* sock_connect included; here it is what moves the tick without making    *)
(* the descriptor readable.                                                *)
(*                                                                         *)
(* One step is one operation on an atomic, one critical section of         *)
(* Waiters, or one call of the kernel.  READ_ALL is one bit.  tick_r is    *)
(* loaded and stored in the step that uses it: one thread at a time arms a *)
(* registration, unless an outdated handle goes on, which `spoiled` says. *)
(* The threads are interchangeable: each runs dispatches of the injector,  *)
(* calls add_reader and remove_reader, and runs the tasks in sock_recv.    *)
(* Handles, those tasks and registrations are numbered as they are made.   *)
(***************************************************************************)
EXTENDS Integers, FiniteSets

CONSTANTS Threads,
          MaxAdds,       \* bound on the calls of add_reader
          MaxRecvs,      \* bound on the calls of sock_recv
          Apps,          \* what the application and its peer do, each with its bounds
          TickMod,       \* 256: the tick is eight bits wide
          Retries,       \* _FdHandle._ARM_RETRIES
          None

ASSUME SizeAssumption ==
  MaxAdds \in Nat /\ MaxRecvs \in Nat /\ TickMod \in Nat \ {0} /\ Retries \in Nat \ {0}
ASSUME ThreadsAssumption == IsFiniteSet(Threads) /\ None \notin Threads

Handles == 1..MaxAdds
Recvs   == (MaxAdds + 1)..(MaxAdds + MaxRecvs)   \* the tasks in sock_recv
Users   == Handles \cup Recvs
Regs    == 1..(MaxAdds + MaxRecvs)   \* at most one registration for each call
Ticks   == 0..(TickMod - 1)

\* pinned: a writer shares the registration; adds, recvs, data, writable, reuse: bounds on
\* the calls of add_reader and of sock_recv, the arrivals of data, the edges of the writing
\* side, the sockets that get the number again; need: how many calls of recv, or of send,
\* it takes a helper to end; transport: the reader is a transport's, that releases the
\* descriptor.
ASSUME AppsAssumption ==
  Apps \subseteq [pinned : BOOLEAN, adds : 0..MaxAdds, recvs : 0..MaxRecvs, need : Nat \ {0},
                  data : Nat, writable : Nat, reuse : Nat, transport : BOOLEAN]
ASSUME NoneAssumption == None \notin Users

VARIABLES
  \* the kernel
  sock,        \* the socket that has the number
  data,        \* how much there is to read
  arrived, writable, \* how many arrivals and edges of the writing side there were
  polled,      \* the registration epoll knows for the descriptor
  edge,        \* it has an event for it
  \* ScheduledIO, by registration
  ready, shut, tick, \* the readiness word: READ_ALL, SHUTDOWN and the tick
  tickR,       \* tick_r
  slot,        \* Waiters.reader_cb: the handle whose _wake it is, or the task whose future
  \* Runtime and the poll thread
  life,        \* of each registration: "none", "live", "parked" in io_pending_release, "freed"
  needsRelease,\* io_needs_release
  poll,        \* where the poll thread is
  token,       \* the registration of the event it handles
  event,       \* whether that event has READ_ALL
  woken,       \* the callback it has taken
  \* the loop
  app,         \* which of Apps it is
  siosLock,    \* the thread that holds _sios_lock over several steps
  current,     \* the registration in _sios
  reader,      \* _FdIO.reader
  owner,       \* _FdIO.owner, of a registration that a sock_* helper has pinned
  made,        \* how many registrations have been made
  added,       \* how many handles have been made
  recvd,       \* how many calls of sock_recv there have been
  need,        \* what a call of sock_recv has still to do: 0, it is not there
  active,      \* _FdHandle._active; the future of _wait_readable is pending
  sio,         \* _FdHandle._sio, and that of sock_recv
  queued,      \* how many dispatches of the handle, or resumptions, are in the injector
  \* the threads
  pc,
  on,          \* the handle, or the registration being dropped, the thread is at
  old,         \* the handle it has replaced, or the call of sock_recv it drops for
  attempts,    \* of _arm
  spoiled,     \* an outdated handle has gone on with _arm and touched the registration, or
               \* the tick has gone round to tick_r
  stale        \* a reader has been added to the registration of a socket that is closed, or a
               \* helper to one without an owner

kernelVars == <<data, arrived, writable, polled, edge>>
sioVars    == <<ready, shut, tick, tickR, slot>>
pollVars   == <<poll, token, event, woken>>
regVars    == <<life, needsRelease, app, siosLock, current, reader, made, added, sio>>
sockVars   == <<sock, owner, recvd, need, stale>>
threadVars == <<pc, on, old, attempts>>
vars       == <<kernelVars, sioVars, pollVars, regVars, sockVars, active, queued, threadVars,
                spoiled>>

ArmPCs  == {"sio", "arm", "load", "store", "tick", "kernel", "try", "clear"}
DropPCs == {"deregister", "shutdown", "shutwake", "park", "flag"}
PCs     == {"idle", "cancelold", "run"} \cup ArmPCs \cup DropPCs

TypeOK ==
  /\ app \in Apps
  /\ sock \in 1..(app.reuse + 1) /\ owner \in 0..sock /\ recvd \in 0..MaxRecvs
  /\ need \in [Recvs -> Nat] /\ stale \in BOOLEAN
  /\ data \in 0..app.data /\ arrived \in 0..app.data /\ writable \in 0..app.writable
  /\ polled \in Regs \cup {None} /\ edge \in BOOLEAN
  /\ ready \in [Regs -> BOOLEAN] /\ shut \in [Regs -> BOOLEAN]
  /\ tick \in [Regs -> Ticks] /\ tickR \in [Regs -> Ticks]
  /\ slot \in [Regs -> Users \cup {None}]
  /\ life \in [Regs -> {"none", "live", "parked", "freed"}]
  /\ needsRelease \in BOOLEAN
  /\ poll \in {"top", "release", "wait", "set", "wake", "call"}
  /\ token \in Regs \cup {None} /\ event \in BOOLEAN /\ woken \in Users \cup {None}
  /\ siosLock \in Threads \cup {None}
  /\ current \in Regs \cup {None} /\ reader \in Handles \cup {None}
  /\ made \in 0..(MaxAdds + MaxRecvs) /\ added \in 0..MaxAdds
  /\ active \in [Users -> BOOLEAN] /\ sio \in [Users -> Regs \cup {None}]
  /\ queued \in [Users -> Nat]
  /\ pc \in [Threads -> PCs] /\ on \in [Threads -> Users \cup {None}]
  /\ old \in [Threads -> Users \cup {None}]
  /\ attempts \in [Threads -> 0..Retries]
  /\ spoiled \in BOOLEAN

Init ==
  /\ app \in Apps
  /\ sock = 1 /\ owner = 0 /\ recvd = 0 /\ need = [r \in Recvs |-> 0] /\ stale = FALSE
  /\ data = 0 /\ arrived = 0 /\ writable = 0
  /\ polled = None /\ edge = FALSE
  /\ ready = [s \in Regs |-> FALSE] /\ shut = [s \in Regs |-> FALSE]
  /\ tick = [s \in Regs |-> 0] /\ tickR = [s \in Regs |-> 0]
  /\ slot = [s \in Regs |-> None]
  /\ life = [s \in Regs |-> "none"] /\ needsRelease = FALSE
  /\ poll = "top" /\ token = None /\ event = FALSE /\ woken = None
  /\ siosLock = None /\ current = None /\ reader = None
  /\ made = 0 /\ added = 0
  /\ active = [h \in Users |-> FALSE] /\ sio = [h \in Users |-> None]
  /\ queued = [h \in Users |-> 0]
  /\ pc = [a \in Threads |-> "idle"] /\ on = [a \in Threads |-> None]
  /\ old = [a \in Threads |-> None]
  /\ attempts = [a \in Threads |-> 0]
  /\ spoiled = FALSE

\* The thread goes to l for x, with n attempts made; or goes on with what it does; or has
\* nothing to do.
Enter(a, l, x, n) ==
  /\ pc' = [pc EXCEPT ![a] = l]
  /\ on' = [on EXCEPT ![a] = x]
  /\ attempts' = [attempts EXCEPT ![a] = n]
Go(a, l) == Enter(a, l, on[a], attempts[a])
Idle(a)  == Enter(a, "idle", None, 0)

\* _FdHandle.cancel.
Cancel(h) == active' = [active EXCEPT ![h] = FALSE]

\* _dispatch_soon, to the injector.
DispatchSoon(h) == queued' = [queued EXCEPT ![h] = @ + 1]

\* _set_result_unless_done, which resumes the task that waits for readiness.
SetResultUnlessDone(r) == DispatchSoon(r) /\ Cancel(r)

\* What the registration calls, in the poll thread or a worker: _FdHandle._wake, or the end of
\* that wait.
Wake(h) ==
  IF h = None \/ ~active[h]
    THEN UNCHANGED <<queued, active>>
    ELSE IF h \in Recvs THEN SetResultUnlessDone(h)
         ELSE DispatchSoon(h) /\ UNCHANGED active

-----------------------------------------------------------------------------
\* The kernel and the application's own reads.

Edge == edge' = (edge \/ polled # None)

\* What epoll_wait reports, and what poll(2) does: the level of the moment.
ReadinessFromEvent == data > 0
FdReady            == data > 0

Arrive ==
  /\ arrived < app.data
  /\ arrived' = arrived + 1
  /\ data' = data + 1
  /\ Edge
  /\ UNCHANGED <<sockVars, writable, polled, sioVars, pollVars, regVars, active, queued,
                 threadVars, spoiled>>

Writable ==
  /\ writable < app.writable
  /\ writable' = writable + 1
  /\ Edge
  /\ UNCHANGED <<sockVars, data, arrived, polled, sioVars, pollVars, regVars, active, queued,
                 threadVars, spoiled>>

\* recv, by the callback or by a task it has woken.
Recv ==
  /\ data > 0
  /\ data' = data - 1
  /\ UNCHANGED <<sockVars, arrived, writable, polled, edge, sioVars, pollVars, regVars, active,
                 queued, threadVars, spoiled>>

-----------------------------------------------------------------------------
\* Runtime::poll.

\* The swap of io_needs_release, before a batch ...
PollTop ==
  /\ poll = "top"
  /\ needsRelease' = FALSE
  /\ poll' = IF needsRelease THEN "release" ELSE "wait"
  /\ UNCHANGED <<sockVars, kernelVars, sioVars, token, event, woken, life, app, siosLock, current,
                 reader, made, added, sio, active, queued, threadVars, spoiled>>

\* ... and the end of the registrations in io_pending_release.
PollRelease ==
  /\ poll = "release"
  /\ life' = [s \in Regs |-> IF life[s] = "parked" THEN "freed" ELSE life[s]]
  /\ poll' = "wait"
  /\ UNCHANGED <<sockVars, kernelVars, sioVars, token, event, woken, needsRelease, app, siosLock,
                 current, reader, made, added, sio, active, queued, threadVars, spoiled>>

\* epoll_wait returns the event, with the level of the moment; or for another reason.
PollWait ==
  /\ poll = "wait"
  /\ \/ /\ edge
        /\ edge' = FALSE
        /\ token' = polled
        /\ event' = ReadinessFromEvent
        /\ poll' = "set"
     \/ /\ needsRelease
        /\ poll' = "top"
        /\ UNCHANGED <<edge, token, event>>
  /\ UNCHANGED <<sockVars, data, arrived, writable, polled, sioVars, woken, regVars, active,
                 queued, threadVars, spoiled>>

\* set_readiness.
PollSet ==
  /\ poll = "set"
  /\ tick' = [tick EXCEPT ![token] = (@ + 1) % TickMod]
  /\ ready' = [ready EXCEPT ![token] = @ \/ event]
  /\ spoiled' = (spoiled \/ tick'[token] = tickR[token])
  /\ poll' = "wake"
  /\ UNCHANGED <<sockVars, kernelVars, shut, tickR, slot, token, event, woken, regVars, active,
                 queued, threadVars>>

\* wake, under the lock of Waiters.
PollWake ==
  /\ poll = "wake"
  /\ woken' = IF event THEN slot[token] ELSE None
  /\ slot' = IF event THEN [slot EXCEPT ![token] = None] ELSE slot
  /\ token' = None
  /\ event' = FALSE
  /\ poll' = "call"
  /\ UNCHANGED <<sockVars, kernelVars, ready, shut, tick, tickR, regVars, active, queued,
                 threadVars, spoiled>>

\* The callback, inline.
PollCall ==
  /\ poll = "call"
  /\ Wake(woken)
  /\ woken' = None
  /\ poll' = "top"
  /\ UNCHANGED <<sockVars, kernelVars, sioVars, token, event, regVars, threadVars, spoiled>>

-----------------------------------------------------------------------------
\* _FdHandle.

\* _dispatch, from the injector; a task in _wait_readable makes another future.
Dispatch(a, h) ==
  /\ pc[a] = "idle"
  /\ queued[h] > 0
  /\ queued' = [queued EXCEPT ![h] = @ - 1]
  /\ IF h \in Recvs
       THEN Enter(a, "load", h, 0) /\ active' = [active EXCEPT ![h] = TRUE]
       ELSE /\ IF active[h] THEN Enter(a, "run", h, 0) ELSE Idle(a)
            /\ UNCHANGED active
  /\ UNCHANGED <<sockVars, kernelVars, sioVars, pollVars, regVars, old, spoiled>>

\* Mutant: the callback is called once, and not again.
RunEndOneShot(a) ==
  /\ pc[a] = "run"
  /\ Idle(a)
  /\ UNCHANGED <<sockVars, kernelVars, sioVars, pollVars, regVars, active, queued, old, spoiled>>

\* The callback returns; _arm starts.
RunEnd(a) ==
  /\ pc[a] = "run"
  /\ Go(a, "arm")
  /\ UNCHANGED <<sockVars, kernelVars, sioVars, pollVars, regVars, active, queued, old, spoiled>>

\* `while self._active`.
ArmCheck(a) ==
  /\ pc[a] = "arm"
  /\ IF active[on[a]] THEN Go(a, "load") ELSE Idle(a)
  /\ UNCHANGED <<sockVars, kernelVars, sioVars, pollVars, regVars, active, queued, old, spoiled>>

Ready(s) == ready[s] \/ shut[s]

\* The handle has been cancelled, or replaced by another one than that which is about to
\* cancel it: add_reader cancels outside of the lock.
Outdated(h) ==
  \/ ~active[h]
  \/ /\ h \in Handles /\ h # reader
     /\ \A a \in Threads : <<pc[a], on[a], old[a]>> # <<"cancelold", reader, h>>

\* arm_cb: a look at the readiness ...
ArmLoad(a) ==
  /\ pc[a] = "load"
  /\ Go(a, IF Ready(sio[on[a]]) THEN "tick" ELSE "store")
  /\ UNCHANGED <<sockVars, kernelVars, sioVars, pollVars, regVars, active, queued, old, spoiled>>

\* Mutant: the callback is stored even where the descriptor turns out to be ready.
ArmStoreAlways(a) ==
  LET h == on[a] IN
  /\ pc[a] = "store"
  /\ slot' = [slot EXCEPT ![sio[h]] = h]
  /\ IF Ready(sio[h]) THEN Go(a, "tick") /\ UNCHANGED spoiled
       ELSE Idle(a) /\ spoiled' = (spoiled \/ Outdated(h))
  /\ UNCHANGED <<sockVars, kernelVars, ready, shut, tick, tickR, pollVars, regVars, active,
                 queued, old>>

\* ... and another one under the lock of Waiters.
ArmStore(a) ==
  LET h == on[a] IN
  /\ pc[a] = "store"
  /\ IF Ready(sio[h])
       THEN Go(a, "tick") /\ UNCHANGED <<slot, spoiled>>
       ELSE /\ slot' = [slot EXCEPT ![sio[h]] = h]
            /\ spoiled' = (spoiled \/ Outdated(h))
            /\ Idle(a)
  /\ UNCHANGED <<sockVars, kernelVars, ready, shut, tick, tickR, pollVars, regVars, active,
                 queued, old>>

\* arm_r_cb: tick_r takes the current tick.
ArmTick(a) ==
  LET h == on[a] IN
  /\ pc[a] = "tick"
  /\ tickR' = [tickR EXCEPT ![sio[h]] = tick[sio[h]]]
  /\ spoiled' = (spoiled \/ Outdated(h))
  /\ Go(a, IF h \in Handles THEN "kernel" ELSE "try")
  /\ UNCHANGED <<sockVars, kernelVars, ready, shut, tick, slot, pollVars, regVars, active, queued,
                 old>>

\* _fd_ready, and the last attempt.
ArmKernel(a) ==
  /\ pc[a] = "kernel"
  /\ IF FdReady \/ attempts[a] + 1 >= Retries
       THEN DispatchSoon(on[a]) /\ Idle(a)
       ELSE Enter(a, "clear", on[a], attempts[a] + 1) /\ UNCHANGED queued
  /\ UNCHANGED <<sockVars, kernelVars, sioVars, pollVars, regVars, active, old, spoiled>>

\* clear_r: the readiness goes, unless there has been an edge since.
Clear(a) ==
  LET s == sio[on[a]] IN
  /\ pc[a] = "clear"
  /\ IF tick[s] = tickR[s]
       THEN ready' = [ready EXCEPT ![s] = FALSE] /\ spoiled' = (spoiled \/ Outdated(on[a]))
       ELSE UNCHANGED <<ready, spoiled>>
  /\ Go(a, IF on[a] \in Handles THEN "arm" ELSE "load")
  /\ UNCHANGED <<sockVars, kernelVars, shut, tick, tickR, slot, pollVars, regVars, active, queued,
                 old>>

-----------------------------------------------------------------------------
\* add_reader.

\* io_register: epoll reports a new registration at once.
Register(s) ==
  /\ life' = [life EXCEPT ![s] = "live"]
  /\ polled' = s
  /\ edge' = TRUE

\* The application has either a reader or a helper at the socket.
Receiving == \E r \in Recvs : need[r] > 0

\* Under _sios_lock: the registration, made and known to epoll if there is none, and the
\* handle.
AddReader(a) ==
  LET h == added + 1
      s == IF current = None THEN made + 1 ELSE current
  IN
  /\ pc[a] = "idle"
  /\ siosLock = None
  /\ added < app.adds
  /\ ~Receiving
  /\ added' = h
  /\ IF current = None
       THEN made' = s /\ current' = s /\ Register(s)
       ELSE UNCHANGED <<made, current, life, polled, edge>>
  /\ active' = [active EXCEPT ![h] = TRUE]
  /\ sio' = [sio EXCEPT ![h] = s]
  /\ reader' = h
  /\ stale' = (stale \/ (current # None /\ polled # current))
  /\ old' = [old EXCEPT ![a] = reader]
  /\ Enter(a, IF reader = None THEN "arm" ELSE "cancelold", h, 0)
  /\ UNCHANGED <<sock, owner, recvd, need, data, arrived, writable, sioVars, pollVars,
                 needsRelease, app, siosLock, queued, spoiled>>

\* Outside of it: the cancellation of the replaced handle.
CancelOld(a) ==
  /\ pc[a] = "cancelold"
  /\ Cancel(old[a])
  /\ old' = [old EXCEPT ![a] = None]
  /\ Go(a, "arm")
  /\ UNCHANGED <<sockVars, kernelVars, sioVars, pollVars, regVars, queued, spoiled>>

-----------------------------------------------------------------------------
\* remove_reader, _drop_registration and io_deregister, under _sios_lock.

DropRegistration(a) ==
  /\ current' = None
  /\ owner' = 0
  /\ siosLock' = a
  /\ Enter(a, "deregister", current, 0)

RemoveReader(a) ==
  /\ pc[a] = "idle"
  /\ siosLock = None
  /\ reader # None
  /\ reader' = None
  /\ Cancel(reader)
  /\ IF app.pinned \/ owner # 0
       THEN UNCHANGED <<owner, current, siosLock, pc, on, attempts>>
       ELSE DropRegistration(a)
  /\ UNCHANGED <<sock, recvd, need, stale, kernelVars, sioVars, pollVars, life, needsRelease, app,
                 made, added, sio, queued, old, spoiled>>

\* _release_fd, by a transport that is closed.
ReleaseFd(a) ==
  /\ app.transport
  /\ pc[a] = "idle"
  /\ siosLock = None
  /\ reader # None
  /\ reader' = None
  /\ Cancel(reader)
  /\ DropRegistration(a)
  /\ UNCHANGED <<sock, recvd, need, stale, kernelVars, sioVars, pollVars, life, needsRelease, app,
                 made, added, sio, queued, old, spoiled>>

\* Mutant: the kernel goes on reporting events.
DeregisterNot(a) ==
  /\ pc[a] = "deregister"
  /\ Go(a, "shutdown")
  /\ UNCHANGED <<sockVars, kernelVars, sioVars, pollVars, regVars, active, queued, old, spoiled>>

Deregister(a) ==
  /\ pc[a] = "deregister"
  /\ polled' = None
  /\ edge' = FALSE
  /\ Go(a, "shutdown")
  /\ UNCHANGED <<sockVars, data, arrived, writable, sioVars, pollVars, regVars, active, queued,
                 old, spoiled>>

\* ScheduledIO::shutdown: the bit ...
Shutdown(a) ==
  /\ pc[a] = "shutdown"
  /\ shut' = [shut EXCEPT ![on[a]] = TRUE]
  /\ Go(a, "shutwake")
  /\ UNCHANGED <<sockVars, kernelVars, ready, tick, tickR, slot, pollVars, regVars, active,
                 queued, old, spoiled>>

\* ... and the callback that waits.  A worker calls it; its look at _active is taken at
\* once here, which _dispatch repeats when it runs.
ShutdownWake(a) ==
  /\ pc[a] = "shutwake"
  /\ Wake(slot[on[a]])
  /\ slot' = [slot EXCEPT ![on[a]] = None]
  /\ Go(a, "park")
  /\ UNCHANGED <<sockVars, kernelVars, ready, shut, tick, tickR, pollVars, regVars, old, spoiled>>

Park(a) ==
  /\ pc[a] = "park"
  /\ life' = [life EXCEPT ![on[a]] = "parked"]
  /\ Go(a, "flag")
  /\ UNCHANGED <<sockVars, kernelVars, sioVars, pollVars, needsRelease, app, siosLock, current,
                 reader, made, added, sio, active, queued, old, spoiled>>

FlagRelease(a) ==
  /\ pc[a] = "flag"
  /\ needsRelease' = TRUE
  /\ old' = [old EXCEPT ![a] = None]
  /\ IF old[a] = None
       THEN siosLock' = None /\ Idle(a)
       ELSE Enter(a, "sio", old[a], 0) /\ UNCHANGED siosLock
  /\ UNCHANGED <<sockVars, kernelVars, sioVars, pollVars, life, app, current, reader, made, added,
                 sio, active, queued, spoiled>>

-----------------------------------------------------------------------------
\* sock_recv, and the socket.

Unread == reader = None /\ ~Receiving

\* Mutant: the registration is taken, whichever socket it was made for.
SioAnyOwner(a) ==
  LET r == MaxAdds + recvd + 1 IN
  /\ pc[a] = "idle"
  /\ siosLock = None
  /\ Unread
  /\ recvd < app.recvs
  /\ recvd' = recvd + 1
  /\ need' = [need EXCEPT ![r] = app.need]
  /\ siosLock' = a
  /\ Enter(a, "sio", r, 0)
  /\ UNCHANGED <<sock, owner, stale, kernelVars, sioVars, pollVars, life, needsRelease, app,
                 current, reader, made, added, sio, active, queued, old, spoiled>>

\* _sio, under _sios_lock: the registration of another socket goes.
Sio(a) ==
  LET r == MaxAdds + recvd + 1 IN
  /\ pc[a] = "idle"
  /\ siosLock = None
  /\ Unread
  /\ recvd < app.recvs
  /\ recvd' = recvd + 1
  /\ need' = [need EXCEPT ![r] = app.need]
  /\ IF current # None /\ owner \notin {0, sock}
       THEN DropRegistration(a) /\ old' = [old EXCEPT ![a] = r]
       ELSE Enter(a, "sio", r, 0) /\ siosLock' = a /\ UNCHANGED <<owner, current, old>>
  /\ UNCHANGED <<sock, stale, kernelVars, sioVars, pollVars, life, needsRelease, app, reader,
                 made, added, sio, active, queued, spoiled>>

\* _registration, for good; the first future of _wait_readable.
SioPin(a) ==
  LET s == IF current = None THEN made + 1 ELSE current IN
  /\ pc[a] = "sio"
  /\ IF current = None
       THEN made' = s /\ current' = s /\ Register(s)
       ELSE UNCHANGED <<made, current, life, polled, edge>>
  /\ owner' = sock
  /\ sio' = [sio EXCEPT ![on[a]] = s]
  /\ active' = [active EXCEPT ![on[a]] = TRUE]
  /\ siosLock' = None
  /\ Go(a, "load")
  /\ stale' = (stale \/ (current # None /\ owner = 0 /\ polled # current))
  /\ UNCHANGED <<sock, recvd, need, data, arrived, writable, sioVars, pollVars,
                 needsRelease, app, reader, added, queued, old, spoiled>>

\* recv, of a descriptor that is said to be ready.
SockTry(a) ==
  LET r == on[a] IN
  /\ pc[a] = "try"
  /\ IF data > 0
       THEN /\ data' = data - 1
            /\ need' = [need EXCEPT ![r] = @ - 1]
            /\ active' = [active EXCEPT ![r] = need[r] > 1]
            /\ IF need[r] > 1 THEN Go(a, "load") ELSE Idle(a)
       ELSE Go(a, "clear") /\ UNCHANGED <<data, need, active>>
  /\ UNCHANGED <<sock, owner, recvd, stale, arrived, writable, polled, edge, sioVars, pollVars,
                 regVars, queued, old, spoiled>>

\* The task is cancelled where it waits: its callback stays in the slot.
CancelRecv(r) ==
  /\ active[r]
  /\ slot[sio[r]] = r
  /\ Cancel(r)
  /\ need' = [need EXCEPT ![r] = 0]
  /\ UNCHANGED <<sock, owner, recvd, stale, kernelVars, sioVars, pollVars, regVars, queued,
                 threadVars, spoiled>>

\* The socket is closed, which ends what epoll knows of it; the next one gets its number.
Reopen ==
  /\ sock <= app.reuse
  /\ Unread
  /\ sock' = sock + 1
  /\ data' = 0
  /\ polled' = None
  /\ edge' = FALSE
  /\ UNCHANGED <<owner, recvd, need, stale, arrived, writable, sioVars, pollVars, regVars, active,
                 queued, threadVars, spoiled>>

-----------------------------------------------------------------------------
PollStep == PollTop \/ PollRelease \/ PollWait \/ PollSet \/ PollWake \/ PollCall

\* A thread that is in the middle of something goes on.
ThreadStep(a) ==
  \/ RunEnd(a) \/ ArmCheck(a) \/ ArmLoad(a) \/ ArmStore(a) \/ ArmTick(a)
  \/ ArmKernel(a) \/ SioPin(a) \/ SockTry(a) \/ Clear(a) \/ CancelOld(a)
  \/ Deregister(a) \/ Shutdown(a) \/ ShutdownWake(a) \/ Park(a) \/ FlagRelease(a)

Next ==
  \/ Arrive \/ Writable \/ Recv \/ Reopen
  \/ \E r \in Recvs : CancelRecv(r)
  \/ PollStep
  \/ \E a \in Threads : \/ ThreadStep(a) \/ AddReader(a) \/ RemoveReader(a) \/ ReleaseFd(a)
                        \/ Sio(a)
                        \/ \E h \in Users : Dispatch(a, h)

Spec == Init /\ [][Next]_vars

\* The poll thread and the threads run, and the injector is served (module WorkSchedule).
Fairness ==
  /\ WF_vars(PollStep)
  /\ \A a \in Threads : WF_vars(ThreadStep(a))
  /\ \A h \in Users : WF_vars(\E a \in Threads : Dispatch(a, h))

FairSpec == Spec /\ Fairness

-----------------------------------------------------------------------------
\* Properties.

\* The threads that run the callback of h, or arm it, or are in the helper h.
At(h) == {a \in Threads : \/ on[a] = h /\ pc[a] \in {"run", "cancelold"} \cup ArmPCs
                          \/ old[a] = h /\ pc[a] \in DropPCs}

\* The poll thread never uses a registration that has been freed: an event of the batch it
\* handles may belong to one that is deregistered meanwhile.
TokenAlive == poll \in {"set", "wake"} => life[token] \in {"live", "parked"}

\* Dispatches of one handle are serial: a consumer never sees two of its own callbacks at
\* once, and none is queued behind one that runs; a task in a helper is resumed once.
SerialDispatch == \A h \in Users : Cardinality(At(h)) + queued[h] <= 1

\* The reader that is there, or a helper that has not ended.
Wanted(h) == IF h \in Handles THEN h = reader ELSE need[h] > 0

\* A reader that has been added and not been removed or replaced, or a helper, waits for an
\* edge only in the slot of the registration epoll knows, and only while there is nothing to
\* read or the edge is coming: no interleaving of arm, clear, the poll thread, the removal of
\* others and the reuse of the number loses it.  (Unless an outdated handle has gone on
\* arming, the tick has gone round, or a reader was added to a dead registration, or a helper
\* to one that has no owner.)
EdgeIsComing ==
  \A h \in Users :
    Wanted(h) /\ At(h) = {} /\ queued[h] = 0 /\ woken # h
      => \/ /\ slot[sio[h]] = h
            /\ polled = sio[h]
            /\ data > 0 => edge \/ (poll \in {"set", "wake"} /\ token = sio[h] /\ event)
         \/ spoiled \/ stale

\* Level-triggered: the callback of a reader runs again as long as there is something to
\* read, whether or not another edge comes; and a helper tries to read it.
ReaderServed ==
  \A h \in Users :
    Wanted(h) /\ data > 0
      ~> \/ \E a \in Threads : pc[a] \in {"run", "try"} /\ on[a] = h
         \/ ~Wanted(h) \/ data = 0 \/ spoiled \/ stale
=============================================================================
