----------------------------- MODULE Lifecycle -----------------------------
(***************************************************************************)
(* One runtime for every loop of the process: the reference-counted        *)
(* _Reactor of src/mt_asyncio/asyncio/_reactor.py, run_forever of          *)
(* src/mt_asyncio/_runtime.py with the thread that drives it, and the      *)
(* loops that acquire it, run on it and release it: run() of _ctl.py,      *)
(* run_until_complete, run_forever, stop, close, call_soon and             *)
(* run_in_executor of _loop.py.                                            *)
(*                                                                         *)
(* A loop has a thread of its own, that calls run() or run_forever() and   *)
(* closes it.  A caller is a thread that calls call_soon_threadsafe, or a  *)
(* worker that does it from the callback of an executor's future.  The     *)
(* drivers are the threads _start makes, numbered, and the application's   *)
(* own, 0.  The workers of a driver are there or not: WorkSchedule has     *)
(* their queues, BlockingPool the thread of a job, Combinators gather.     *)
(***************************************************************************)
EXTENDS Compat, FiniteSets

CONSTANTS Callers,
          MaxStarts,     \* bound on the driver threads that _start makes
          Apps           \* what the application does

ASSUME StartsAssumption == MaxStarts \in Nat /\ None \notin 0..MaxStarts
ASSUME ThreadsAssumption ==
  IsFiniteSet(Loops) /\ IsFiniteSet(Callers) /\ Loops \cap Callers = {} /\ None \notin Loops \cup Callers

Drivers == 0..MaxStarts
Threads == Loops \cup Callers
Kinds   == {"main", "kid", "late", "shut"}   \* the tasks of a loop

\* forever: the loops that run_forever is called on, and stop once.  kid: the loops whose
\* main leaves a task behind; late: whether that one, cancelled, makes another.  busy, job:
\* the loops with a task that awaits run_in_executor, and which one.  calls: bound on the
\* calls of call_soon_threadsafe.  runtime, external: what the application has created
\* itself, and whether it drives it.  patched: the loops that
\* are run inside `with installed():`.  session: the loops of the test plugin, which run at most
\* `tests` coroutines each and are not closed.  fails: whether a poll may fail.
ASSUME AppsAssumption ==
  Apps \subseteq [forever : SUBSET Loops, kid : SUBSET Loops, late : BOOLEAN,
                  busy : SUBSET Loops, job : {"none", "main", "kid"}, calls : Nat,
                  runtime : {"none", "plain", "context", "signals"}, external : BOOLEAN,
                  patched : SUBSET Loops, session : SUBSET Loops, tests : Nat,
                  fails : BOOLEAN]

VARIABLES
  app,
  \* _Reactor
  rlock,       \* the thread that holds _lock over several steps
  count,       \* _count
  owns,        \* _owns_run
  thread,      \* _thread
  \* Runtime
  runtime,     \* the one in RUNTIME: "none", or how it was made
  ssock,       \* _ssock_w: the driver that made it
  listening,   \* _sig_listening
  stopping,    \* _stopping
  workStopping,
  workers,     \* whether a driver has workers
  driver,      \* where a driver is
  starts,      \* how many there have been
  \* EventLoop
  acquired,    \* _reactor_acquired
  closed,      \* _closed
  stopEvent,   \* _stop_event: "none", "clear" or "set"
  task,        \* of each loop, by kind
  cancelled,   \* the tasks that have been cancelled
  snap,        \* to_cancel of _cancel_all_tasks
  job,         \* the job in the blocking pool
  tests,       \* how many coroutines the test plugin has run on a loop
  \* the threads
  pc,
  on,          \* the loop the thread is at
  stage,       \* which run_until_complete of run(): "main", "gather" or "shut"
  host,        \* the driver whose worker runs the task or the caller
  calls, stops, \* how many calls of call_soon_threadsafe and, by loop, of stop there were
  \* what has gone wrong
  raced,       \* a loop has acquired the reactor twice, or after it was closed
  left,        \* a driver has left its poll loop, and nobody had stopped it
  upset        \* a wait of 5 s has run out, a driver has failed or met another one

appVars     == <<app, compatVars, tests>>
reactorVars == <<rlock, count, owns, thread>>
rtVars      == <<runtime, ssock, listening, stopping, workStopping, workers, driver, starts>>
loopVars    == <<acquired, closed, stopEvent>>
taskVars    == <<task, cancelled, snap, job>>
vars        == <<appVars, reactorVars, rtVars, loopVars, taskVars, pc, on, stage, host, calls, stops,
                 raced, left, upset>>

OwnerPCs  == {"idle", "spawn", "wait", "event", "forever", "cancel", "close", "release", "stop",
              "join", "session", "returned"}
CallerPCs == {"idle", "check", "push"}
BothPCs   == {"ensure", "acquire", "start", "starting", "acquired"}
DriverPCs == {"none", "ssock", "sig", "run", "work", "poll", "cleanup", "join", "dereg",
              "ssockstop", "reset", "ended"}

TypeOK ==
  /\ app \in Apps
  /\ rlock \in Threads \cup {None} /\ count \in Nat /\ owns \in BOOLEAN
  /\ thread \in Drivers \cup {None}
  /\ runtime \in {"none", "plain", "context", "signals"}
  /\ ssock \in Drivers \cup {None} /\ listening \in BOOLEAN /\ stopping \in BOOLEAN
  /\ workStopping \in BOOLEAN /\ workers \in [Drivers -> BOOLEAN]
  /\ driver \in [Drivers -> DriverPCs] /\ starts \in Drivers
  /\ acquired \in [Loops -> BOOLEAN] /\ closed \in [Loops -> BOOLEAN]
  /\ stopEvent \in [Loops -> {"none", "clear", "set"}]
  /\ task \in [Loops \X Kinds -> {"none", "queued", "running", "waiting", "done", "told"}]
  /\ cancelled \subseteq Loops \X Kinds /\ snap \in [Loops -> SUBSET Kinds]
  /\ job \in [Loops -> {"none", "submitted", "ran", "drained", "answer", "done"}]
  /\ pc \in [Threads -> OwnerPCs \cup CallerPCs \cup BothPCs]
  /\ on \in [Threads -> Loops \cup {None}]
  /\ stage \in [Loops -> {"main", "gather", "shut"}]
  /\ host \in [Callers \cup (Loops \X Kinds) -> Drivers \cup {None}]
  /\ calls \in Nat /\ stops \in SUBSET Loops /\ tests \in [Loops -> Nat]
  /\ raced \in BOOLEAN /\ left \in BOOLEAN /\ upset \in BOOLEAN

\* EventLoop.__init__ of each loop, _Reactor.__init__, and what the application has made.
Init ==
  /\ app \in Apps /\ CompatInit
  /\ rlock = None /\ count = 0 /\ owns = FALSE /\ thread = None
  /\ runtime = app.runtime
  /\ ssock = None /\ listening = FALSE /\ stopping = FALSE /\ workStopping = FALSE
  /\ workers = [d \in Drivers |-> FALSE]
  /\ driver = [d \in Drivers |-> "none"] /\ starts = 0
  /\ acquired = [l \in Loops |-> FALSE] /\ closed = [l \in Loops |-> FALSE]
  /\ stopEvent = [l \in Loops |-> "none"]
  /\ task = [x \in Loops \X Kinds |-> "none"] /\ cancelled = {}
  /\ snap = [l \in Loops |-> {}] /\ job = [l \in Loops |-> "none"]
  /\ pc = [t \in Threads |-> "idle"]
  /\ on = [t \in Threads |-> IF t \in Loops THEN t ELSE None]
  /\ stage = [l \in Loops |-> "main"]
  /\ host = [x \in Callers \cup (Loops \X Kinds) |-> None]
  /\ calls = 0 /\ stops = {} /\ tests = [l \in Loops |-> 0]
  /\ raced = FALSE /\ left = FALSE /\ upset = FALSE

Go(t, p) == pc' = [pc EXCEPT ![t] = p]

Alive(d) == driver[d] \notin {"none", "ended"}

-----------------------------------------------------------------------------
\* _Reactor, by a thread that has come here from _ensure_reactor.

\* What _ensure_reactor was called for.
Ensured(t) == IF t \in Callers THEN "push" ELSE IF t \in app.forever THEN "event" ELSE "spawn"

\* The exception of acquire: run() goes on with its finally, whose run_until_complete fails as
\* well; a caller returns.
Failed(t) ==
  IF t \in Callers
    THEN Go(t, "idle") /\ host' = [host EXCEPT ![t] = None] /\ UNCHANGED stage
    ELSE /\ IF t \in app.forever \cup app.session \/ stage[t] = "shut"
              THEN Go(t, IF t \in app.session THEN "session" ELSE "close") /\ UNCHANGED stage
              ELSE Go(t, "ensure") /\ stage' = [stage EXCEPT ![t] = "shut"]
         /\ UNCHANGED host

EnsureReactor(t) ==
  /\ pc[t] = "ensure"
  /\ Go(t, IF acquired[on[t]] THEN Ensured(t) ELSE "acquire")
  /\ UNCHANGED <<appVars, reactorVars, rtVars, loopVars, taskVars, on, stage, host, calls, stops,
                 raced, left, upset>>

\* Under _lock: one more loop, or the first.
Acquire(t) ==
  /\ pc[t] = "acquire"
  /\ rlock = None
  /\ IF count = 0
       THEN rlock' = t /\ Go(t, "start") /\ UNCHANGED count
       ELSE count' = count + 1 /\ Go(t, "acquired") /\ UNCHANGED rlock
  /\ UNCHANGED <<appVars, owns, thread, rtVars, loopVars, taskVars, on, stage, host, calls, stops,
                 raced, left, upset>>

\* A thread that calls runtime.run_forever; two of them on one runtime upset each other.
Launch(d) ==
  /\ driver' = [driver EXCEPT ![d] = "ssock"]
  /\ upset' = (upset \/ \E e \in Drivers : Alive(e))

\* new(): the one runtime of the process, with contexts, which the loops need.
New == runtime' = IF runtime = "none" THEN "context" ELSE runtime

\* _start, to the thread's start: a runtime without contexts is refused, one that is driven
\* is left alone.
Start(t) ==
  /\ pc[t] = "start"
  /\ New
  /\ \/ /\ runtime = "plain"
        /\ rlock' = None
        /\ Failed(t)
        /\ UNCHANGED <<count, owns, thread, driver, starts, upset>>
     \/ /\ runtime # "plain" /\ ssock # None
        /\ owns' = FALSE
        /\ count' = 1 /\ rlock' = None
        /\ Go(t, "acquired")
        /\ UNCHANGED <<thread, driver, starts, stage, host, upset>>
     \/ /\ runtime # "plain" /\ ssock = None
        /\ starts < MaxStarts
        /\ starts' = starts + 1
        /\ Launch(starts + 1)
        /\ thread' = starts + 1 /\ owns' = TRUE
        /\ Go(t, "starting")
        /\ UNCHANGED <<count, rlock, stage, host>>
  /\ UNCHANGED <<appVars, ssock, listening, stopping, workStopping, workers, loopVars, taskVars, on,
                 calls, stops, raced, left>>

\* The wait for _ssock_w, which does not wait for _run.
Started(t) ==
  /\ pc[t] = "starting"
  /\ ssock # None
  /\ count' = 1 /\ rlock' = None
  /\ Go(t, "acquired")
  /\ UNCHANGED <<appVars, owns, thread, rtVars, loopVars, taskVars, on, stage, host, calls, stops,
                 raced, left, upset>>

\* Its end after 5 s, that leaves the thread there and the count at zero.
StartTimeout(t) ==
  /\ pc[t] = "starting"
  /\ ssock = None
  /\ rlock' = None
  /\ Failed(t)
  /\ upset' = TRUE
  /\ UNCHANGED <<appVars, count, owns, thread, rtVars, loopVars, taskVars, on, calls, stops, raced,
                 left>>

\* Back in _ensure_reactor, outside of _lock.
Acquired(t) ==
  /\ pc[t] = "acquired"
  /\ acquired' = [acquired EXCEPT ![on[t]] = TRUE]
  /\ raced' = (raced \/ acquired[on[t]] \/ closed[on[t]])
  /\ Go(t, Ensured(t))
  /\ UNCHANGED <<appVars, reactorVars, rtVars, closed, stopEvent, taskVars, on, stage, host, calls,
                 stops, left, upset>>

\* Mutant: every loop that is closed stops the runtime.
ReleaseStops(l) ==
  /\ pc[l] = "release"
  /\ rlock = None
  /\ count' = IF count = 0 THEN 0 ELSE count - 1
  /\ IF count # 0 /\ owns
       THEN rlock' = l /\ Go(l, "stop")
       ELSE Go(l, "returned") /\ UNCHANGED rlock
  /\ UNCHANGED <<appVars, owns, thread, rtVars, loopVars, taskVars, on, stage, host, calls, stops,
                 raced, left, upset>>

\* Mutant: nobody stops the runtime.
ReleaseKeeps(l) ==
  /\ pc[l] = "release"
  /\ rlock = None
  /\ count' = IF count = 0 THEN 0 ELSE count - 1
  /\ Go(l, "returned")
  /\ UNCHANGED <<appVars, rlock, owns, thread, rtVars, loopVars, taskVars, on, stage, host, calls,
                 stops, raced, left, upset>>

\* release: the last one stops what the reactor has started.
Release(l) ==
  /\ pc[l] = "release"
  /\ rlock = None
  /\ count' = IF count = 0 THEN 0 ELSE count - 1
  /\ IF count = 1 /\ owns
       THEN rlock' = l /\ Go(l, "stop")
       ELSE Go(l, "returned") /\ UNCHANGED rlock
  /\ UNCHANGED <<appVars, owns, thread, rtVars, loopVars, taskVars, on, stage, host, calls, stops,
                 raced, left, upset>>

\* Runtime.stop, which the poll loop sees at its next turn.
Stop == stopping' = TRUE

\* _stop of the reactor: that ...
StopRuntime(l) ==
  /\ pc[l] = "stop"
  /\ owns' = FALSE
  /\ Stop
  /\ Go(l, "join")
  /\ UNCHANGED <<appVars, rlock, count, thread, runtime, ssock, listening, workStopping, workers,
                 driver, starts, loopVars, taskVars, on, stage, host, calls, stops, raced, left, upset>>

\* ... and the end of the thread, or of 5 s.
JoinThread(l) ==
  /\ pc[l] = "join"
  /\ thread' = None
  /\ rlock' = None
  /\ upset' = (upset \/ Alive(thread))
  /\ Go(l, "returned")
  /\ UNCHANGED <<appVars, count, owns, rtVars, loopVars, taskVars, on, stage, host, calls, stops,
                 raced, left>>

-----------------------------------------------------------------------------
\* Runtime.run_forever, by the driver d.

Drive(d, p) == driver' = [driver EXCEPT ![d] = p]

\* The application calls it itself.
External ==
  /\ app.external
  /\ driver[0] = "none"
  /\ Launch(0)
  /\ UNCHANGED <<appVars, reactorVars, runtime, ssock, listening, stopping, workStopping, workers,
                 starts, loopVars, taskVars, pc, on, stage, host, calls, stops, raced, left>>

\* _ssock_start; where it fails, _run_forever_post is called all the same.
SsockStart(d) ==
  /\ driver[d] = "ssock"
  /\ IF ssock = None
       THEN ssock' = d /\ Drive(d, "sig")
       ELSE Drive(d, "dereg") /\ UNCHANGED ssock
  /\ UNCHANGED <<appVars, reactorVars, runtime, listening, stopping, workStopping, workers, starts,
                 loopVars, taskVars, pc, on, stage, host, calls, stops, raced, left, upset>>

\* The wakeup descriptor can be set, and a handler added, in the main thread only.
MainThread(d) == d = 0
SetSigWfd(d)  == MainThread(d)
SigAdd(d)     == runtime = "signals" => MainThread(d)

\* _sig_reg: a failure is passed over unless there are signals.
SigReg(d) ==
  /\ driver[d] = "sig"
  /\ listening' = (listening \/ (SetSigWfd(d) /\ SigAdd(d)))
  /\ IF (SetSigWfd(d) /\ SigAdd(d)) \/ runtime # "signals"
       THEN Drive(d, "run") /\ UNCHANGED upset
       ELSE Drive(d, "dereg") /\ upset' = TRUE
  /\ UNCHANGED <<appVars, reactorVars, runtime, ssock, stopping, workStopping, workers, starts,
                 loopVars, taskVars, pc, on, stage, host, calls, stops, raced, left>>

\* _run, to the registry; init_sig_socket needs the socket.
RunInit(d) ==
  /\ driver[d] = "run"
  /\ Drive(d, IF ssock = None THEN "dereg" ELSE "work")
  /\ UNCHANGED <<appVars, reactorVars, runtime, ssock, listening, stopping, workStopping, workers,
                 starts, loopVars, taskVars, pc, on, stage, host, calls, stops, raced, left, upset>>

\* The workers.
RunWork(d) ==
  /\ driver[d] = "work"
  /\ workStopping' = FALSE
  /\ workers' = [workers EXCEPT ![d] = TRUE]
  /\ Drive(d, "poll")
  /\ UNCHANGED <<appVars, reactorVars, runtime, ssock, listening, stopping, starts, loopVars, taskVars,
                 pc, on, stage, host, calls, stops, raced, left, upset>>

\* The look at `stopping`, and the end of the loop.
Poll(d) ==
  /\ driver[d] = "poll"
  /\ stopping
  /\ Drive(d, "cleanup")
  /\ UNCHANGED <<appVars, reactorVars, runtime, ssock, listening, stopping, workStopping, workers,
                 starts, loopVars, taskVars, pc, on, stage, host, calls, stops, raced, left, upset>>

\* What ends it besides: a poll that fails, or that a signal interrupts for which there is no
\* handler; the loops that hold the runtime are not asked.
PollFails(d) ==
  /\ app.fails /\ driver[d] = "poll"
  /\ ~stopping
  /\ left' = TRUE
  /\ Drive(d, "cleanup")
  /\ UNCHANGED <<appVars, reactorVars, runtime, ssock, listening, stopping, workStopping, workers,
                 starts, loopVars, taskVars, pc, on, stage, host, calls, stops, raced, upset>>

\* teardown, to stop_threads ...
Teardown(d) ==
  /\ driver[d] = "cleanup"
  /\ workStopping' = TRUE
  /\ Drive(d, "join")
  /\ UNCHANGED <<appVars, reactorVars, runtime, ssock, listening, stopping, workers, starts, loopVars,
                 taskVars, pc, on, stage, host, calls, stops, raced, left, upset>>

\* ... which waits for what the workers are running.
WorkersEnd(d) ==
  /\ workers[d]
  /\ workStopping
  /\ \A x \in DOMAIN host : host[x] # d
  /\ workers' = [workers EXCEPT ![d] = FALSE]
  /\ UNCHANGED <<appVars, reactorVars, runtime, ssock, listening, stopping, workStopping, driver,
                 starts, loopVars, taskVars, pc, on, stage, host, calls, stops, raced, left, upset>>

StopThreads(d) ==
  /\ driver[d] = "join"
  /\ ~workers[d]
  /\ Drive(d, "dereg")
  /\ UNCHANGED <<appVars, reactorVars, runtime, ssock, listening, stopping, workStopping, workers,
                 starts, loopVars, taskVars, pc, on, stage, host, calls, stops, raced, left, upset>>

\* _run_forever_post.  _sig_dereg resets the descriptor, which fails in a thread that is not
\* the main one, if the main one's driver is listening; _ssock_stop fails without a socket.
SigDereg(d) ==
  /\ driver[d] = "dereg"
  /\ listening' = FALSE
  /\ Drive(d, IF listening /\ ~SetSigWfd(d) THEN "ended" ELSE "ssockstop")
  /\ UNCHANGED <<appVars, reactorVars, runtime, ssock, stopping, workStopping, workers, starts,
                 loopVars, taskVars, pc, on, stage, host, calls, stops, raced, left, upset>>

SsockStop(d) ==
  /\ driver[d] = "ssockstop"
  /\ ssock' = None
  /\ Drive(d, IF ssock = None THEN "ended" ELSE "reset")
  /\ UNCHANGED <<appVars, reactorVars, runtime, listening, stopping, workStopping, workers, starts,
                 loopVars, taskVars, pc, on, stage, host, calls, stops, raced, left, upset>>

\* Mutant: the flag stays, and stops the next run at once.
StoppingStays(d) ==
  /\ driver[d] = "reset"
  /\ Drive(d, "ended")
  /\ UNCHANGED <<appVars, reactorVars, runtime, ssock, listening, stopping, workStopping, workers,
                 starts, loopVars, taskVars, pc, on, stage, host, calls, stops, raced, left, upset>>

StoppingReset(d) ==
  /\ driver[d] = "reset"
  /\ stopping' = FALSE
  /\ Drive(d, "ended")
  /\ UNCHANGED <<appVars, reactorVars, runtime, ssock, listening, workStopping, workers, starts,
                 loopVars, taskVars, pc, on, stage, host, calls, stops, raced, left, upset>>

-----------------------------------------------------------------------------
\* The thread of a loop: run(), or run_forever() and close(), or the test plugin.

\* The region of installed() around it.
Patch(l) ==
  /\ l \in app.patched
  /\ (pc[l] = "idle" /\ Entering(l)) \/ (pc[l] = "returned" /\ Exiting(l))
  /\ UNCHANGED <<app, tests, reactorVars, rtVars, loopVars, taskVars, pc, on, stage, host, calls,
                 stops, raced, left, upset>>

Begin(l) ==
  /\ pc[l] = "idle"
  /\ l \notin app.session
  /\ l \in app.patched => region[l] = "in"
  /\ Go(l, "ensure")
  /\ UNCHANGED <<appVars, reactorVars, rtVars, loopVars, taskVars, on, stage, host, calls, stops,
                 raced, left, upset>>

\* get_runner of the plugin: one loop for the session, whose ExitStack nobody closes.
GetRunner(l) ==
  /\ pc[l] = "idle"
  /\ l \in app.session
  /\ Go(l, "session")
  /\ UNCHANGED <<appVars, reactorVars, rtVars, loopVars, taskVars, on, stage, host, calls, stops,
                 raced, left, upset>>

\* The next test or fixture, with run_until_complete.
RunTest(l) ==
  /\ pc[l] = "session"
  /\ tests[l] < app.tests
  /\ tests' = [tests EXCEPT ![l] = @ + 1]
  /\ Go(l, "ensure")
  /\ UNCHANGED <<app, compatVars, reactorVars, rtVars, loopVars, taskVars, on, stage, host, calls,
                 stops, raced, left, upset>>

\* Where run_until_complete of main, or of a test, returns to.
RunnerOf(l) == IF l \in app.session THEN "session" ELSE "cancel"

\* The tasks the run_until_complete of this stage waits for.
Awaited(l) ==
  CASE stage[l] = "main"   -> {"main"}
    [] stage[l] = "gather" -> snap[l]
    [] stage[l] = "shut"   -> {"shut"}

\* create_task: it is registered, and queued.
CreateTask(l, k) == task' = [task EXCEPT ![<<l, k>>] = "queued"]

\* run_until_complete, to done.wait().
RunUntilComplete(l) ==
  /\ pc[l] = "spawn"
  /\ IF stage[l] = "gather" THEN UNCHANGED task
       ELSE CreateTask(l, stage[l])
  /\ Go(l, "wait")
  /\ UNCHANGED <<appVars, reactorVars, rtVars, loopVars, cancelled, snap, job, on, stage, host, calls,
                 stops, raced, left, upset>>

\* The callback of the future has set the event.
DoneWait(l) ==
  /\ pc[l] = "wait"
  /\ \A k \in Awaited(l) : task[<<l, k>>] = "told"
  /\ IF stage[l] = "gather"
       THEN stage' = [stage EXCEPT ![l] = "shut"] /\ Go(l, "spawn")
       ELSE Go(l, IF stage[l] = "main" THEN RunnerOf(l) ELSE "close") /\ UNCHANGED stage
  /\ UNCHANGED <<appVars, reactorVars, rtVars, loopVars, taskVars, on, host, calls, stops, raced,
                 left, upset>>

\* _all_tasks.
AllTasks(l) == {k \in Kinds : task[<<l, k>>] \in {"queued", "running", "waiting"}}

\* _cancel_all_tasks: a task that waits is resumed, another one finds it at its next await.
CancelAllTasks(l) ==
  LET ks == {<<l, k>> : k \in AllTasks(l)} IN
  /\ pc[l] = "cancel"
  /\ snap' = [snap EXCEPT ![l] = AllTasks(l)]
  /\ cancelled' = cancelled \cup ks
  /\ task' = [x \in DOMAIN task |->
                IF x \in ks /\ task[x] = "waiting" THEN "queued" ELSE task[x]]
  /\ stage' = [stage EXCEPT ![l] = IF ks = {} THEN "shut" ELSE "gather"]
  /\ Go(l, "spawn")
  /\ UNCHANGED <<appVars, reactorVars, rtVars, loopVars, job, on, host, calls, stops, raced,
                 left, upset>>

\* run_forever: the event is made here, and a stop() before it does nothing.
RunForever(l) ==
  /\ pc[l] = "event"
  /\ stopEvent' = [stopEvent EXCEPT ![l] = "clear"]
  /\ Go(l, "forever")
  /\ UNCHANGED <<appVars, reactorVars, rtVars, acquired, closed, taskVars, on, stage, host, calls,
                 stops, raced, left, upset>>

StopLoop(l) ==
  /\ l \in app.forever \ stops
  /\ stops' = stops \cup {l}
  /\ stopEvent' = [stopEvent EXCEPT ![l] = IF @ = "none" THEN "none" ELSE "set"]
  /\ UNCHANGED <<appVars, reactorVars, rtVars, acquired, closed, taskVars, pc, on, stage, host, calls,
                 raced, left, upset>>

ForeverEnds(l) ==
  /\ pc[l] = "forever"
  /\ stopEvent[l] = "set"
  /\ Go(l, "close")
  /\ UNCHANGED <<appVars, reactorVars, rtVars, loopVars, taskVars, on, stage, host, calls, stops,
                 raced, left, upset>>

\* close: the flag, then the reactor.
CloseFlag(l) ==
  /\ pc[l] = "close"
  /\ ~closed[l]
  /\ closed' = [closed EXCEPT ![l] = TRUE]
  /\ UNCHANGED <<appVars, reactorVars, rtVars, acquired, stopEvent, taskVars, pc, on, stage, host,
                 calls, stops, raced, left, upset>>

CloseRelease(l) ==
  /\ pc[l] = "close"
  /\ closed[l]
  /\ acquired' = [acquired EXCEPT ![l] = FALSE]
  /\ Go(l, IF acquired[l] THEN "release" ELSE "returned")
  /\ UNCHANGED <<appVars, reactorVars, rtVars, closed, stopEvent, taskVars, on, stage, host, calls,
                 stops, raced, left, upset>>

-----------------------------------------------------------------------------
\* The tasks, on the workers of any driver.

RunTask(x, d) ==
  /\ task[x] = "queued"
  /\ workers[d]
  /\ task' = [task EXCEPT ![x] = "running"]
  /\ host' = [host EXCEPT ![x] = d]
  /\ UNCHANGED <<appVars, reactorVars, rtVars, loopVars, cancelled, snap, job, pc, on, stage, calls,
                 stops, raced, left, upset>>

\* main leaves a task behind; that one, cancelled, makes another.
TaskCreates(l, k) ==
  LET new == IF k = "main" THEN "kid" ELSE "late" IN
  /\ task[<<l, k>>] = "running"
  /\ task[<<l, new>>] = "none"
  /\ IF k = "main" THEN l \in app.kid ELSE k = "kid" /\ app.late /\ <<l, k>> \in cancelled
  /\ CreateTask(l, new)
  /\ UNCHANGED <<appVars, reactorVars, rtVars, loopVars, cancelled, snap, job, pc, on, stage, host,
                 calls, stops, raced, left, upset>>

Submits(l, k) == l \in app.busy /\ k = app.job

\* It awaits run_in_executor, whose job is submitted, or something that does not come.
TaskAwaits(l, k) ==
  LET x == <<l, k>> IN
  /\ task[x] = "running"
  /\ x \notin cancelled
  /\ \/ /\ Submits(l, k) /\ job[l] = "none"
        /\ job' = [job EXCEPT ![l] = "submitted"]
     \/ /\ k \in {"kid", "late"} /\ ~Submits(l, k)
        /\ UNCHANGED job
  /\ task' = [task EXCEPT ![x] = "waiting"]
  /\ host' = [host EXCEPT ![x] = None]
  /\ UNCHANGED <<appVars, reactorVars, rtVars, loopVars, cancelled, snap, pc, on, stage, calls, stops,
                 raced, left, upset>>

TaskEnds(l, k) ==
  LET x == <<l, k>> IN
  /\ task[x] = "running"
  /\ x \in cancelled \/ ~Submits(l, k) \/ job[l] # "none"
  /\ task' = [task EXCEPT ![x] = "done"]
  /\ host' = [host EXCEPT ![x] = None]
  /\ UNCHANGED <<appVars, reactorVars, rtVars, loopVars, cancelled, snap, job, pc, on, stage, calls,
                 stops, raced, left, upset>>

\* Its callbacks are handles of their own.
TaskTold(x, d) ==
  /\ task[x] = "done"
  /\ workers[d]
  /\ task' = [task EXCEPT ![x] = "told"]
  /\ UNCHANGED <<appVars, reactorVars, rtVars, loopVars, cancelled, snap, job, pc, on, stage, host,
                 calls, stops, raced, left, upset>>

\* The job, in the blocking pool.
JobRuns(l) ==
  /\ job[l] = "submitted"
  /\ job' = [job EXCEPT ![l] = "ran"]
  /\ UNCHANGED <<appVars, reactorVars, rtVars, loopVars, task, cancelled, snap, pc, on, stage, host,
                 calls, stops, raced, left, upset>>

\* _drain and _on_done, on a worker: call_soon begins.
Drain(c, l, d) ==
  /\ job[l] = "ran"
  /\ workers[d]
  /\ pc[c] = "idle"
  /\ job' = [job EXCEPT ![l] = "drained"]
  /\ on' = [on EXCEPT ![c] = l]
  /\ host' = [host EXCEPT ![c] = d]
  /\ Go(c, "check")
  /\ UNCHANGED <<appVars, reactorVars, rtVars, loopVars, task, cancelled, snap, stage, calls, stops,
                 raced, left, upset>>

\* The handle sets the result, unless the task was cancelled meanwhile.
Answer(l, d) ==
  LET x == <<l, app.job>> IN
  /\ job[l] = "answer"
  /\ workers[d]
  /\ job' = [job EXCEPT ![l] = "done"]
  /\ task' = [task EXCEPT ![x] = IF @ = "waiting" THEN "queued" ELSE @]
  /\ UNCHANGED <<appVars, reactorVars, rtVars, loopVars, cancelled, snap, pc, on, stage, host, calls,
                 stops, raced, left, upset>>

-----------------------------------------------------------------------------
\* call_soon_threadsafe, by any thread that knows the loop.

Known(l) == l \in app.forever \/ task[<<l, "main">>] # "none"

CallSoon(c, l) ==
  /\ pc[c] = "idle"
  /\ calls < app.calls
  /\ Known(l)
  /\ calls' = calls + 1
  /\ on' = [on EXCEPT ![c] = l]
  /\ Go(c, "check")
  /\ UNCHANGED <<appVars, reactorVars, rtVars, loopVars, taskVars, stage, host, stops, raced,
                 left, upset>>

CheckClosed(c) ==
  /\ pc[c] = "check"
  /\ Go(c, IF closed[on[c]] THEN "idle" ELSE "ensure")
  /\ host' = IF closed[on[c]] THEN [host EXCEPT ![c] = None] ELSE host
  /\ UNCHANGED <<appVars, reactorVars, rtVars, loopVars, taskVars, on, stage, calls, stops, raced, left,
                 upset>>

\* The handle goes to the injector, which outlives the driver.
Push(c) ==
  /\ pc[c] = "push"
  /\ job' = IF host[c] # None THEN [job EXCEPT ![on[c]] = "answer"] ELSE job
  /\ host' = [host EXCEPT ![c] = None]
  /\ Go(c, "idle")
  /\ UNCHANGED <<appVars, reactorVars, rtVars, loopVars, task, cancelled, snap, on, stage, calls, stops,
                 raced, left, upset>>

-----------------------------------------------------------------------------
ReactorStep(t) ==
  EnsureReactor(t) \/ Acquire(t) \/ Start(t) \/ Started(t) \/ StartTimeout(t) \/ Acquired(t)

LoopStep(l) ==
  \/ ReactorStep(l) \/ Release(l) \/ StopRuntime(l) \/ JoinThread(l)
  \/ RunUntilComplete(l) \/ DoneWait(l) \/ CancelAllTasks(l)
  \/ RunForever(l) \/ ForeverEnds(l) \/ CloseFlag(l) \/ CloseRelease(l)

CallerStep(c) == ReactorStep(c) \/ CheckClosed(c) \/ Push(c)

DriverStep(d) ==
  \/ SsockStart(d) \/ SigReg(d) \/ RunInit(d) \/ RunWork(d) \/ Poll(d) \/ Teardown(d)
  \/ WorkersEnd(d) \/ StopThreads(d) \/ SigDereg(d) \/ SsockStop(d) \/ StoppingReset(d)

\* What the workers have to do for a loop.
WorkStep(l) ==
  \/ \E d \in Drivers : \/ \E k \in Kinds : RunTask(<<l, k>>, d) \/ TaskTold(<<l, k>>, d)
                        \/ Answer(l, d)
                        \/ \E c \in Callers : Drain(c, l, d)
  \/ \E k \in Kinds : TaskAwaits(l, k) \/ TaskEnds(l, k)
  \/ JobRuns(l)

Next ==
  \/ External
  \/ \E l \in Loops : \/ Patch(l) \/ Begin(l) \/ GetRunner(l) \/ RunTest(l) \/ LoopStep(l) \/ WorkStep(l) \/ StopLoop(l)
                      \/ \E k \in Kinds : TaskCreates(l, k)
                      \/ \E c \in Callers : CallSoon(c, l)
  \/ \E c \in Callers : CallerStep(c)
  \/ \E d \in Drivers : DriverStep(d) \/ PollFails(d)

Spec == Init /\ [][Next]_vars

\* Threads run, workers take what is queued (module WorkSchedule), and the application calls
\* stop on a loop it has started with run_forever.
Fairness ==
  /\ \A l \in Loops :
       /\ WF_vars(LoopStep(l)) /\ WF_vars(StopLoop(l)) /\ WF_vars(JobRuns(l))
       /\ \A k \in Kinds :
            /\ WF_vars(TaskAwaits(l, k) \/ TaskEnds(l, k))
            /\ WF_vars(\E d \in Drivers : RunTask(<<l, k>>, d))
            /\ WF_vars(\E d \in Drivers : TaskTold(<<l, k>>, d))
       /\ WF_vars(\E d \in Drivers : Answer(l, d))
       /\ WF_vars(\E d \in Drivers, c \in Callers : Drain(c, l, d))
  /\ \A c \in Callers : WF_vars(CallerStep(c))
  /\ \A d \in Drivers : WF_vars(DriverStep(d))

FairSpec == Spec /\ Fairness

-----------------------------------------------------------------------------
\* Properties.

Driving(d) == driver[d] \in {"sig", "run", "work", "poll"}

\* As long as a loop holds the runtime somebody drives it and nobody stops it, whatever the
\* other loops, their threads and callers do; and one the application drives is never
\* stopped.  (Unless a wait of 5 s has run out, or a driver has failed or met another; or has
\* left its poll loop unasked, after which the loops hold a runtime that nobody drives.)  The
\* count covers every loop that has acquired it, whatever has gone wrong.
HeldRuntimeRuns ==
  /\ ~upset /\ ~left => /\ count > 0 /\ rlock = None => ~stopping /\ \E d \in Drivers : Driving(d)
                        /\ Driving(0) => ~stopping
  /\ \A l \in Loops : acquired[l] => count > 0

\* A run() that is called returns, so does each test of a session, and a run_forever() that is
\* stopped after it has made its event: neither the shared lock, nor the join, nor the restart
\* of the runtime, nor the answer of an executor keeps it.  (Once a driver has left, nobody
\* runs its tasks.)
RunReturns ==
  \A l \in Loops :
    pc[l] # "idle" ~> \/ pc[l] \in {"returned", "session"} \/ upset \/ left
                      \/ (l \in stops /\ stopEvent[l] # "set")

\* The last loop to close stops what the reactor has started: its thread ends, and no socket,
\* flag or count is left for the next one.  (A call that finds the loop not yet acquired, or
\* just released, acquires it once more, and then it is never released.  A driver that has
\* left by itself cannot reset the flag that is set afterwards, which stops the next one.)
RuntimeStops ==
  (\A l \in Loops : pc[l] = "returned")
    ~> \/ /\ \A d \in Drivers \ {0} : ~Alive(d)
          /\ count = 0 /\ (stopping => left) /\ ssock \in {0, None}
       \/ raced \/ upset
=============================================================================
