---------------------------- MODULE WorkSchedule ----------------------------
(***************************************************************************)
(* The work-stealing scheduler of the runtime: src/src/work.rs, with the   *)
(* entry points of src/src/runtime.rs that feed it (add_handle,            *)
(* add_io_handle, defer_handle) and stop it (stop_threads).                *)
(*                                                                         *)
(* Every worker thread runs work_loop; every other thread (the reactor,    *)
(* which runs the poll loop and stops the workers, the threads of the      *)
(* blocking pool, user threads calling call_soon_threadsafe) only pushes.  *)
(* One step of the model is one atomic operation of the code: an operation *)
(* of a crossbeam deque, a load, a store or a read-modify-write of an      *)
(* atomic, a park or an unpark.  Memory is sequentially consistent: the    *)
(* code relies on the deques' operations being SeqCst for that.            *)
(***************************************************************************)
EXTENDS Integers, Sequences, FiniteSets

CONSTANTS N,          \* number of worker threads (Runtime.threads_cb)
          Ext,        \* the threads that are not workers
          Reactor,    \* the member of Ext that runs Runtime::_run
          Handles,    \* the handles that may be pushed, each at most once
          NoHandle    \* "no handle in hand"

Workers == 1..N
Threads == Workers \cup Ext

ASSUME NAssumption == N \in Nat \ {0}
ASSUME ThreadsAssumption == IsFiniteSet(Ext) /\ Ext \cap Workers = {} /\ Reactor \in Ext
ASSUME HandlesAssumption == NoHandle \notin Handles

VARIABLES
  injector,      \* Runtime.work_injector, a FIFO queue
  local,         \* the workers' own deques: LIFO for the owner, FIFO for thieves
  idleFlag,      \* WorkSchedule.idle_flags
  idleCount,     \* WorkSchedule.idle_count; a negative value stands for the
                 \* usize it wraps to, which is not 0 either
  speculation,   \* WorkSchedule.speculation
  permit,        \* the token of each worker's Parker
  workStopping,  \* Runtime.work_stopping
  pending,       \* the counter stop_threads waits on
  pc,            \* where each thread is
  scan,          \* each thread's index in the loop it is in
  rescan,        \* the worker is in the find_work that follows set_idle
  speculating,   \* is_speculating
  cur,           \* the handle a worker has in hand
  fresh,         \* handles not pushed yet
  done           \* handles that have been run

queueVars == <<injector, local, cur, fresh, done>>
idleVars  == <<idleFlag, idleCount, speculation, permit>>
stopVars  == <<workStopping, pending>>
vars == <<queueVars, idleVars, stopVars, pc, scan, rescan, speculating>>

WorkerPCs == {"find_local", "find_injector", "find_steal", "nothing",
              "unidle", "unidle_dec", "absorb", "release", "run",
              "set_flag", "set_count", "drop", "final_scan", "park",
              "woken", "woken_dec", "woken_check",
              "stop_unidle", "stop_unidle_dec", "stop_drop", "exiting", "exited"}
UnparkPCs == {"one_load", "one_cas", "force_load", "force_add",
              "wake_scan", "wake_dec", "wake_unpark", "wake_fail"}
InHandPCs == {"unidle", "unidle_dec", "absorb", "release", "run"} \cup UnparkPCs
ExtPCs    == {"outside", "stop_unpark", "stop_wait", "stopped"}

ControlOK ==
  /\ pc \in [Threads -> WorkerPCs \cup UnparkPCs \cup ExtPCs]
  /\ \A w \in Workers : pc[w] \in WorkerPCs \cup UnparkPCs
  /\ \A e \in Ext : pc[e] \in UnparkPCs \cup ExtPCs
  /\ scan \in [Threads -> Workers]
  /\ rescan \in [Workers -> BOOLEAN]
  /\ speculating \in [Workers -> BOOLEAN]

QueuesOK ==
  /\ injector \in Seq(Handles)
  /\ local \in [Workers -> Seq(Handles)]
  /\ cur \in [Workers -> Handles \cup {NoHandle}]
  /\ \A w \in Workers : pc[w] \in InHandPCs => cur[w] # NoHandle
  /\ fresh \subseteq Handles
  /\ done \subseteq Handles

TypeOK ==
  /\ ControlOK
  /\ QueuesOK
  /\ idleFlag \in [Workers -> BOOLEAN]
  /\ idleCount \in Int
  /\ speculation \in Int
  /\ permit \in [Workers -> BOOLEAN]
  /\ workStopping \in BOOLEAN
  /\ pending \in Int

\* A handle pushed before _run starts its workers is already in the injector.
Init ==
  /\ \/ injector = <<>> /\ fresh = Handles
     \/ \E h \in Handles : injector = <<h>> /\ fresh = Handles \ {h}
  /\ local = [w \in Workers |-> <<>>]
  /\ idleFlag = [w \in Workers |-> FALSE]
  /\ idleCount = 0
  /\ speculation = 0
  /\ permit = [w \in Workers |-> FALSE]
  /\ workStopping = FALSE
  /\ pending = N
  /\ pc = [t \in Threads |-> IF t \in Workers THEN "find_local" ELSE "outside"]
  /\ scan = [t \in Threads |-> 1]
  /\ rescan = [w \in Workers |-> FALSE]
  /\ speculating = [w \in Workers |-> FALSE]
  /\ cur = [w \in Workers |-> NoHandle]
  /\ done = {}

-----------------------------------------------------------------------------
\* Control flow.

At(t, l)   == pc[t] = l
Goto(t, l) == pc' = [pc EXCEPT ![t] = l]

\* Where a thread continues when a call that may wake a worker returns.
Home(t) == IF t \in Workers THEN "run" ELSE "outside"

\* Where a worker continues once it has taken itself off the idle list with a
\* handle in hand: it first gives back the token it is searching with, if any.
Settle(w) == IF speculating[w] THEN "release" ELSE "run"

-----------------------------------------------------------------------------
\* WorkSchedule::unpark_one, unpark and wake_idle, called by thread t.

\* unpark_one: nobody is idle, so nobody has to be woken.
OneLoad(t) ==
  /\ At(t, "one_load")
  /\ Goto(t, IF idleCount = 0 THEN Home(t) ELSE "one_cas")
  /\ UNCHANGED <<queueVars, idleVars, stopVars, scan, rescan, speculating>>

\* unpark_one: a search is already under way, so the wake is elided.
OneCas(t) ==
  /\ At(t, "one_cas")
  /\ IF speculation = 0
       THEN speculation' = 1 /\ Goto(t, "wake_scan")
       ELSE UNCHANGED speculation /\ Goto(t, Home(t))
  /\ UNCHANGED <<queueVars, idleFlag, idleCount, permit, stopVars, scan, rescan,
                 speculating>>

ForceLoad(t) ==
  /\ At(t, "force_load")
  /\ Goto(t, IF idleCount = 0 THEN Home(t) ELSE "force_add")
  /\ UNCHANGED <<queueVars, idleVars, stopVars, scan, rescan, speculating>>

ForceAdd(t) ==
  /\ At(t, "force_add")
  /\ speculation' = speculation + 1
  /\ Goto(t, "wake_scan")
  /\ UNCHANGED <<queueVars, idleFlag, idleCount, permit, stopVars, scan, rescan,
                 speculating>>

\* wake_idle: one iteration of the loop over the idle flags.
WakeScan(t) ==
  /\ At(t, "wake_scan")
  /\ IF idleFlag[scan[t]]
       THEN /\ idleFlag' = [idleFlag EXCEPT ![scan[t]] = FALSE]
            /\ Goto(t, "wake_dec")
            /\ UNCHANGED scan
       ELSE /\ UNCHANGED idleFlag
            /\ IF scan[t] = N
                 THEN Goto(t, "wake_fail") /\ scan' = [scan EXCEPT ![t] = 1]
                 ELSE UNCHANGED pc /\ scan' = [scan EXCEPT ![t] = @ + 1]
  /\ UNCHANGED <<queueVars, idleCount, speculation, permit, stopVars, rescan,
                 speculating>>

WakeDec(t) ==
  /\ At(t, "wake_dec")
  /\ idleCount' = idleCount - 1
  /\ Goto(t, "wake_unpark")
  /\ UNCHANGED <<queueVars, idleFlag, speculation, permit, stopVars, scan, rescan,
                 speculating>>

WakeUnpark(t) ==
  /\ At(t, "wake_unpark")
  /\ permit' = [permit EXCEPT ![scan[t]] = TRUE]
  /\ scan' = [scan EXCEPT ![t] = 1]
  /\ Goto(t, Home(t))
  /\ UNCHANGED <<queueVars, idleFlag, idleCount, speculation, stopVars, rescan,
                 speculating>>

\* wake_idle found no idle worker and gives its token back.
WakeFail(t) ==
  /\ At(t, "wake_fail")
  /\ speculation' = speculation - 1
  /\ Goto(t, Home(t))
  /\ UNCHANGED <<queueVars, idleFlag, idleCount, permit, stopVars, scan, rescan,
                 speculating>>

UnparkStep(t) ==
  \/ OneLoad(t) \/ OneCas(t) \/ ForceLoad(t) \/ ForceAdd(t)
  \/ WakeScan(t) \/ WakeDec(t) \/ WakeUnpark(t) \/ WakeFail(t)

-----------------------------------------------------------------------------
\* The calls that push a handle.  A worker makes them while it runs a handle.

PushInjector(h) ==
  /\ injector' = Append(injector, h)
  /\ UNCHANGED <<local, cur, done>>

\* Runtime::add_handle: on a worker the handle goes to its own deque.
AddHandle(t, h) ==
  /\ At(t, Home(t))
  /\ h \in fresh
  /\ fresh' = fresh \ {h}
  /\ \/ /\ t \in Workers
        /\ local' = [local EXCEPT ![t] = Append(@, h)]
        /\ UNCHANGED <<injector, cur, done>>
     \/ t \notin Workers /\ PushInjector(h)
  /\ Goto(t, "one_load")
  /\ UNCHANGED <<idleVars, stopVars, scan, rescan, speculating>>

\* Runtime::defer_handle: always the injector.
DeferHandle(t, h) ==
  /\ At(t, Home(t))
  /\ h \in fresh
  /\ fresh' = fresh \ {h}
  /\ PushInjector(h)
  /\ Goto(t, "one_load")
  /\ UNCHANGED <<idleVars, stopVars, scan, rescan, speculating>>

\* Runtime::add_io_handle: the injector, and a wake that is never elided.
AddIOHandle(t, h) ==
  /\ At(t, Home(t))
  /\ h \in fresh
  /\ fresh' = fresh \ {h}
  /\ PushInjector(h)
  /\ Goto(t, "force_load")
  /\ UNCHANGED <<idleVars, stopVars, scan, rescan, speculating>>

-----------------------------------------------------------------------------
\* find_work, called by worker w.

\* Where work_loop goes with the handle find_work returned: from the search that
\* follows set_idle it has to take itself off the idle list first.
Found(w) == IF rescan[w] THEN "unidle" ELSE Settle(w)

FindLocal(w) ==
  /\ At(w, "find_local")
  /\ IF local[w] # <<>>
       THEN /\ cur' = [cur EXCEPT ![w] = local[w][Len(local[w])]]
            /\ local' = [local EXCEPT ![w] = SubSeq(@, 1, Len(@) - 1)]
            /\ Goto(w, Found(w))
       ELSE UNCHANGED <<cur, local>> /\ Goto(w, "find_injector")
  /\ UNCHANGED <<injector, fresh, done, idleVars, stopVars, scan, rescan, speculating>>

FindInjector(w) ==
  /\ At(w, "find_injector")
  /\ IF injector # <<>>
       THEN /\ cur' = [cur EXCEPT ![w] = Head(injector)]
            /\ injector' = Tail(injector)
            /\ Goto(w, Found(w))
       ELSE UNCHANGED <<cur, injector>> /\ Goto(w, "find_steal")
  /\ UNCHANGED <<local, fresh, done, idleVars, stopVars, scan, rescan, speculating>>

\* Mutant: a steal that copies the handle and leaves it in the victim's deque.
FindStealCopies(w) ==
  LET v == scan[w] IN
  /\ At(w, "find_steal")
  /\ IF v # w /\ local[v] # <<>>
       THEN /\ cur' = [cur EXCEPT ![w] = Head(local[v])]
            /\ scan' = [scan EXCEPT ![w] = 1]
            /\ Goto(w, Found(w))
       ELSE /\ UNCHANGED cur
            /\ IF v = N
                 THEN Goto(w, "nothing") /\ scan' = [scan EXCEPT ![w] = 1]
                 ELSE UNCHANGED pc /\ scan' = [scan EXCEPT ![w] = v + 1]
  /\ UNCHANGED <<injector, local, fresh, done, idleVars, stopVars, rescan, speculating>>

\* One iteration of the loop over the other workers' stealers.
FindSteal(w) ==
  LET v == scan[w] IN
  /\ At(w, "find_steal")
  /\ IF v # w /\ local[v] # <<>>
       THEN /\ cur' = [cur EXCEPT ![w] = Head(local[v])]
            /\ local' = [local EXCEPT ![v] = Tail(@)]
            /\ scan' = [scan EXCEPT ![w] = 1]
            /\ Goto(w, Found(w))
       ELSE /\ UNCHANGED <<cur, local>>
            /\ IF v = N
                 THEN Goto(w, "nothing") /\ scan' = [scan EXCEPT ![w] = 1]
                 ELSE UNCHANGED pc /\ scan' = [scan EXCEPT ![w] = v + 1]
  /\ UNCHANGED <<injector, fresh, done, idleVars, stopVars, rescan, speculating>>

-----------------------------------------------------------------------------
\* work_loop, run by worker w.

\* clear_idle: the compare-exchange on the flag.  The worker continues at
\* `mine` when the flag was still its own, and at `claimed` when a producer had
\* claimed it.  The decrement of idle_count is the step at `mine`.
ClearFlag(w, mine, claimed) ==
  /\ idleFlag' = [idleFlag EXCEPT ![w] = FALSE]
  /\ Goto(w, IF idleFlag[w] THEN mine ELSE claimed)
  /\ UNCHANGED <<idleCount, speculation, permit>>

DecIdleCount(w, next) ==
  /\ idleCount' = idleCount - 1
  /\ Goto(w, next)
  /\ UNCHANGED <<idleFlag, speculation, permit>>

\* A break out of the loop gives back the token the worker is searching with.
BreakLoop(w) == IF speculating[w] THEN "stop_drop" ELSE "exiting"

\* find_work returned nothing and the workers are not stopping: go idle and look
\* again, or, after that second look, park.
NothingFound(w) ==
  /\ At(w, "nothing")
  /\ ~workStopping
  /\ Goto(w, IF ~rescan[w] THEN "set_flag" ELSE IF speculating[w] THEN "drop" ELSE "park")
  /\ UNCHANGED <<queueVars, idleVars, stopVars, scan, rescan, speculating>>

\* find_work returned nothing and the workers are stopping.
NothingLeft(w) ==
  /\ At(w, "nothing")
  /\ workStopping
  /\ Goto(w, IF rescan[w] THEN "stop_unidle" ELSE BreakLoop(w))
  /\ UNCHANGED <<queueVars, idleVars, stopVars, scan, rescan, speculating>>

\* set_idle: the flag, then the counter; find_work is called again.
SetFlag(w) ==
  /\ At(w, "set_flag")
  /\ idleFlag' = [idleFlag EXCEPT ![w] = TRUE]
  /\ Goto(w, "set_count")
  /\ UNCHANGED <<queueVars, idleCount, speculation, permit, stopVars, scan, rescan,
                 speculating>>

SetCount(w) ==
  /\ At(w, "set_count")
  /\ idleCount' = idleCount + 1
  /\ rescan' = [rescan EXCEPT ![w] = TRUE]
  /\ Goto(w, "find_local")
  /\ UNCHANGED <<queueVars, idleFlag, speculation, permit, stopVars, scan, speculating>>

\* A handle was found after set_idle: clear_idle, and absorb the token of a
\* producer that claimed the flag meanwhile.
Unidle(w) ==
  /\ At(w, "unidle")
  /\ ClearFlag(w, "unidle_dec", "absorb")
  /\ UNCHANGED <<queueVars, stopVars, scan, rescan, speculating>>

UnidleDec(w) ==
  /\ At(w, "unidle_dec")
  /\ DecIdleCount(w, Settle(w))
  /\ UNCHANGED <<queueVars, stopVars, scan, rescan, speculating>>

Absorb(w) ==
  /\ At(w, "absorb")
  /\ speculation' = speculation - 1
  /\ Goto(w, Settle(w))
  /\ UNCHANGED <<queueVars, idleFlag, idleCount, permit, stopVars, scan, rescan,
                 speculating>>

\* A speculating worker found a handle: the last searcher wakes another one.
Release(w) ==
  /\ At(w, "release")
  /\ speculating' = [speculating EXCEPT ![w] = FALSE]
  /\ speculation' = speculation - 1
  /\ Goto(w, IF speculation = 1 THEN "one_load" ELSE "run")
  /\ UNCHANGED <<queueVars, idleFlag, idleCount, permit, stopVars, scan, rescan>>

\* handle.run returns and the loop starts over.
RunReturns(w) ==
  /\ At(w, "run")
  /\ done' = done \cup {cur[w]}
  /\ cur' = [cur EXCEPT ![w] = NoHandle]
  /\ rescan' = [rescan EXCEPT ![w] = FALSE]
  /\ Goto(w, "find_local")
  /\ UNCHANGED <<injector, local, fresh, idleVars, stopVars, scan, speculating>>

\* Mutant: the token is dropped without the final look at the injector.
DropAndPark(w) ==
  /\ At(w, "drop")
  /\ speculating' = [speculating EXCEPT ![w] = FALSE]
  /\ speculation' = speculation - 1
  /\ Goto(w, "park")
  /\ UNCHANGED <<queueVars, idleFlag, idleCount, permit, stopVars, scan, rescan>>

\* A speculating worker found nothing: it gives its token back and looks at the
\* injector once more, for what was pushed while its search elided wakes.
Drop(w) ==
  /\ At(w, "drop")
  /\ speculating' = [speculating EXCEPT ![w] = FALSE]
  /\ speculation' = speculation - 1
  /\ Goto(w, "final_scan")
  /\ UNCHANGED <<queueVars, idleFlag, idleCount, permit, stopVars, scan, rescan>>

FinalScan(w) ==
  /\ At(w, "final_scan")
  /\ IF injector # <<>>
       THEN /\ cur' = [cur EXCEPT ![w] = Head(injector)]
            /\ injector' = Tail(injector)
            /\ Goto(w, "unidle")
       ELSE UNCHANGED <<cur, injector>> /\ Goto(w, "park")
  /\ UNCHANGED <<local, fresh, done, idleVars, stopVars, scan, rescan, speculating>>

\* Parker::park returns once there is a token, and consumes it.
Park(w) ==
  /\ At(w, "park")
  /\ permit[w]
  /\ permit' = [permit EXCEPT ![w] = FALSE]
  /\ Goto(w, "woken")
  /\ UNCHANGED <<queueVars, idleFlag, idleCount, speculation, stopVars, scan, rescan,
                 speculating>>

\* claimed = !clear_idle, which becomes is_speculating: a token found in the
\* parker while the flag is still set is a stale one.
Woken(w) ==
  /\ At(w, "woken")
  /\ speculating' = [speculating EXCEPT ![w] = ~idleFlag[w]]
  /\ ClearFlag(w, "woken_dec", "woken_check")
  /\ UNCHANGED <<queueVars, stopVars, scan, rescan>>

WokenDec(w) ==
  /\ At(w, "woken_dec")
  /\ DecIdleCount(w, "woken_check")
  /\ UNCHANGED <<queueVars, stopVars, scan, rescan, speculating>>

WokenCheck(w) ==
  /\ At(w, "woken_check")
  /\ rescan' = [rescan EXCEPT ![w] = FALSE]
  /\ Goto(w, IF workStopping THEN "exiting" ELSE "find_local")
  /\ UNCHANGED <<queueVars, idleVars, stopVars, scan, speculating>>

-----------------------------------------------------------------------------
\* Stopping.

\* The break of the second check: clear_idle, whose answer is ignored.
StopUnidle(w) ==
  /\ At(w, "stop_unidle")
  /\ ClearFlag(w, "stop_unidle_dec", BreakLoop(w))
  /\ UNCHANGED <<queueVars, stopVars, scan, rescan, speculating>>

StopUnidleDec(w) ==
  /\ At(w, "stop_unidle_dec")
  /\ DecIdleCount(w, BreakLoop(w))
  /\ UNCHANGED <<queueVars, stopVars, scan, rescan, speculating>>

StopDrop(w) ==
  /\ At(w, "stop_drop")
  /\ speculation' = speculation - 1
  /\ speculating' = [speculating EXCEPT ![w] = FALSE]
  /\ Goto(w, "exiting")
  /\ UNCHANGED <<queueVars, idleFlag, idleCount, permit, stopVars, scan, rescan>>

\* The end of work_loop: one worker fewer to wait for.
Exit(w) ==
  /\ At(w, "exiting")
  /\ pending' = pending - 1
  /\ Goto(w, "exited")
  /\ UNCHANGED <<queueVars, idleVars, workStopping, scan, rescan, speculating>>

\* stop_threads, run by the reactor: the flag, an unpark for every worker, and
\* a wait until all of them have left.
StopThreads ==
  /\ At(Reactor, "outside")
  /\ workStopping' = TRUE
  /\ Goto(Reactor, "stop_unpark")
  /\ UNCHANGED <<queueVars, idleVars, pending, scan, rescan, speculating>>

\* Mutant: the last worker is not unparked.
StopUnparkShort ==
  /\ At(Reactor, "stop_unpark")
  /\ IF scan[Reactor] = N
       THEN /\ Goto(Reactor, "stop_wait")
            /\ scan' = [scan EXCEPT ![Reactor] = 1]
            /\ UNCHANGED permit
       ELSE /\ permit' = [permit EXCEPT ![scan[Reactor]] = TRUE]
            /\ scan' = [scan EXCEPT ![Reactor] = @ + 1]
            /\ UNCHANGED pc
  /\ UNCHANGED <<queueVars, idleFlag, idleCount, speculation, stopVars, rescan,
                 speculating>>

StopUnpark ==
  /\ At(Reactor, "stop_unpark")
  /\ permit' = [permit EXCEPT ![scan[Reactor]] = TRUE]
  /\ IF scan[Reactor] = N
       THEN Goto(Reactor, "stop_wait") /\ scan' = [scan EXCEPT ![Reactor] = 1]
       ELSE UNCHANGED pc /\ scan' = [scan EXCEPT ![Reactor] = @ + 1]
  /\ UNCHANGED <<queueVars, idleFlag, idleCount, speculation, stopVars, rescan,
                 speculating>>

StopWait ==
  /\ At(Reactor, "stop_wait")
  /\ pending <= 0
  /\ Goto(Reactor, "stopped")
  /\ UNCHANGED <<queueVars, idleVars, stopVars, scan, rescan, speculating>>

-----------------------------------------------------------------------------
\* The steps worker w takes whether or not its handles push anything.
WorkerStep(w) ==
  \/ FindLocal(w) \/ FindInjector(w) \/ FindSteal(w)
  \/ NothingFound(w) \/ NothingLeft(w) \/ SetFlag(w) \/ SetCount(w)
  \/ Unidle(w) \/ UnidleDec(w) \/ Absorb(w) \/ Release(w) \/ RunReturns(w)
  \/ Drop(w) \/ FinalScan(w) \/ Park(w) \/ Woken(w) \/ WokenDec(w) \/ WokenCheck(w)
  \/ StopUnidle(w) \/ StopUnidleDec(w) \/ StopDrop(w) \/ Exit(w)

Push(t) == \E h \in Handles : AddHandle(t, h) \/ DeferHandle(t, h) \/ AddIOHandle(t, h)

\* Every thread is at rest and every worker has left: the program may end here.
Terminated ==
  /\ \A w \in Workers : At(w, "exited")
  /\ \A e \in Ext : pc[e] \in {"outside", "stopped"}
  /\ UNCHANGED vars

Next ==
  \/ \E w \in Workers : WorkerStep(w)
  \/ \E t \in Threads : UnparkStep(t) \/ Push(t)
  \/ StopThreads \/ StopUnpark \/ StopWait
  \/ Terminated

Spec == Init /\ [][Next]_vars

\* Threads are scheduled fairly and handles return; pushing and stopping are up
\* to the program.
Fairness ==
  /\ \A w \in Workers : WF_vars(WorkerStep(w))
  /\ \A t \in Threads : WF_vars(UnparkStep(t))
  /\ WF_vars(StopUnpark \/ StopWait)

FairSpec == Spec /\ Fairness
-----------------------------------------------------------------------------
\* Properties.

WakingUp(t, w) == pc[t] \in {"wake_dec", "wake_unpark"} /\ scan[t] = w

\* The worker has put itself on the idle list and has not yet looked whether it
\* is still there.
Listed(w) ==
  \/ At(w, "set_count")
  \/ /\ rescan[w]
     /\ pc[w] \in {"find_local", "find_injector", "find_steal", "nothing", "unidle",
                   "drop", "final_scan", "park", "woken", "stop_unidle"}

\* A worker whose idle flag a producer has claimed is woken: as long as it has
\* not been, either its parker holds a token or the thread that claimed it has
\* its unpark still to do (wake_idle between the exchange and unpark()).
ClaimedIsWoken ==
  \A w \in Workers :
    Listed(w) /\ ~At(w, "woken") /\ ~idleFlag[w]
      => permit[w] \/ \E t \in Threads : WakingUp(t, w)

\* idle_count counts the flags that are set, up to the updates that may be under
\* way: set_idle between the store and the add, and a claim or a clear_idle
\* between the exchange and the subtraction.  In particular the counter that
\* unpark_one trusts never drifts.
Flagged     == {w \in Workers : idleFlag[w]}
Adding      == {w \in Workers : At(w, "set_count")}
Subtracting == {t \in Threads :
                  pc[t] \in {"wake_dec", "unidle_dec", "woken_dec", "stop_unidle_dec"}}

IdleCounting ==
  idleCount = Cardinality(Flagged) - Cardinality(Adding) + Cardinality(Subtracting)

\* speculation counts the searches under way: producers looking for an idle
\* worker, workers searching with a token, and workers that have been claimed and
\* do not know it yet.  A token that leaked would silence unpark_one for ever, one
\* given back twice would wrap the counter; only stopping workers leave theirs
\* behind.
Waking      == {t \in Threads : pc[t] \in {"wake_scan", "wake_fail"}}
Speculators == {w \in Workers : speculating[w]}
Claimed     == {w \in Workers : At(w, "absorb") \/ (Listed(w) /\ ~idleFlag[w])}

Tokens == Cardinality(Waking) + Cardinality(Speculators) + Cardinality(Claimed)

TokenAccounting ==
  /\ speculation >= Tokens
  /\ ~workStopping => speculation = Tokens

\* No lost wake: when every worker sleeps with an empty parker and no other
\* thread is inside a call of the scheduler, nothing is left in any queue.
NothingStranded ==
  /\ \A w \in Workers : At(w, "park") /\ ~permit[w]
  /\ \A e \in Ext : At(e, "outside")
  => injector = <<>> /\ \A w \in Workers : local[w] = <<>>

\* A handle in a worker's own deque is never left behind by that worker: from
\* the moment it goes idle until it looks again, and when it leaves work_loop,
\* its deque is empty.
LocalNeverAbandoned ==
  \A w \in Workers :
    pc[w] \in {"set_flag", "set_count", "drop", "final_scan", "park", "woken", "woken_dec",
               "woken_check", "stop_unidle", "stop_unidle_dec", "stop_drop", "exiting",
               "exited"}
      => local[w] = <<>>

\* stop_threads returns only when every worker has left work_loop.
StoppedMeansGone ==
  At(Reactor, "stopped") => \A w \in Workers : At(w, "exited")

\* Once the reactor stops the workers they all leave, and stop_threads returns.
StopTerminates == workStopping ~> At(Reactor, "stopped")

\* What becomes of a handle, as HandlePool sees it.
Pool == INSTANCE HandlePool WITH
  Items    <- Handles,
  Capacity <- N,
  halted   <- workStopping,
  status   <- [h \in Handles |->
                 CASE h \in fresh                     -> "fresh"
                   [] \E w \in Workers : cur[w] = h   -> "running"
                   [] h \in done                      -> "done"
                   [] OTHER                           -> "queued"]

\* The scheduler implements HandlePool: every handle pushed is run exactly once
\* and, until the workers are stopped, every handle pushed is eventually run.
ImplementsPool == Pool!PoolSpec
=============================================================================
