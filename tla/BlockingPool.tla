---------------------------- MODULE BlockingPool ----------------------------
(***************************************************************************)
(* The pool of threads behind run_in_executor and to_thread                *)
(* (src/src/blocking.rs): a channel of tasks, threads started on demand up *)
(* to a maximum, and threads that retire when their wait for a task times  *)
(* out.  One step is one atomic operation on the counters or the channel.  *)
(***************************************************************************)
EXTENDS Integers, Sequences, FiniteSets

CONSTANTS Submitters,   \* the threads that call _spawn_blocking
          Slots,        \* the identities pool threads can have; reused once retired
          Tasks,        \* the tasks
          tmax,         \* BlockingRunnerPool.tmax
          MaxTimeouts,  \* bound on how often a wait for a task times out
          NoTask        \* "no task"

ASSUME SizeAssumption   == tmax \in Nat \ {0} /\ MaxTimeouts \in Nat
ASSUME FiniteAssumption == IsFiniteSet(Submitters) /\ IsFiniteSet(Slots)
ASSUME TaskAssumption   == NoTask \notin Tasks

VARIABLES
  queue,      \* the channel
  threads,    \* BlockingRunnerPool.threads
  load,       \* BlockingRunnerPool.load
  cpc,        \* where each caller is
  seen,       \* the value of threads it loaded
  item,       \* the task it is handing over
  tpc,        \* where each pool thread is
  cur,        \* the task it has received
  fresh,      \* the tasks nobody has handed over
  done,       \* the tasks that have run
  timeouts    \* how often a wait has timed out

counters     == <<threads, load>>
callerVars   == <<cpc, seen, item, fresh>>
threadVars   == <<tpc, cur, done, timeouts>>
blockingVars == <<queue, counters, callerVars, threadVars>>

SubmitterPCs == {"outside", "send", "count", "spawn", "undo"}
ThreadPCs == {"none", "wait", "recv", "count", "retire", "run"}

BlockingTypeOK ==
  /\ queue \in Seq(Tasks)
  /\ threads \in Int
  /\ load \in Int
  /\ cpc \in [Submitters -> SubmitterPCs]
  /\ seen \in [Submitters -> Int]
  /\ item \in [Submitters -> Tasks \cup {NoTask}]
  /\ tpc \in [Slots -> ThreadPCs]
  /\ cur \in [Slots -> Tasks \cup {NoTask}]
  /\ \A c \in Submitters : cpc[c] = "send" => item[c] # NoTask
  /\ \A w \in Slots : tpc[w] = "run" => cur[w] # NoTask
  /\ fresh \subseteq Tasks
  /\ done \subseteq Tasks
  /\ timeouts \in 0..MaxTimeouts

BlockingInit ==
  /\ queue = <<>>
  /\ threads = 0
  /\ load = 0
  /\ cpc = [c \in Submitters |-> "outside"]
  /\ seen = [c \in Submitters |-> 0]
  /\ item = [c \in Submitters |-> NoTask]
  /\ tpc = [w \in Slots |-> "none"]
  /\ cur = [w \in Slots |-> NoTask]
  /\ fresh = Tasks
  /\ done = {}
  /\ timeouts = 0

CGoto(c, l) == cpc' = [cpc EXCEPT ![c] = l]
TGoto(w, l) == tpc' = [tpc EXCEPT ![w] = l]

-----------------------------------------------------------------------------
\* BlockingRunnerPool::run and spawn_thread, called by c.

RunLoad(c, t) ==
  /\ cpc[c] = "outside"
  /\ t \in fresh
  /\ fresh' = fresh \ {t}
  /\ item' = [item EXCEPT ![c] = t]
  /\ seen' = [seen EXCEPT ![c] = threads]
  /\ CGoto(c, "send")
  /\ UNCHANGED <<queue, counters, threadVars>>

Send(c) ==
  /\ cpc[c] = "send"
  /\ queue' = Append(queue, item[c])
  /\ item' = [item EXCEPT ![c] = NoTask]
  /\ CGoto(c, "count")
  /\ UNCHANGED <<counters, seen, fresh, threadVars>>

\* Mutant: the first task is not counted as one without a thread.
CountFirstOnly(c) ==
  /\ cpc[c] = "count"
  /\ load' = load + 1
  /\ CGoto(c, IF load > 0 /\ seen[c] < tmax THEN "spawn" ELSE "outside")
  /\ UNCHANGED <<queue, threads, seen, item, fresh, threadVars>>

\* A thread is started only if no thread was waiting by the count of the load and
\* there was room by the count that was loaded first.
Count(c) ==
  /\ cpc[c] = "count"
  /\ load' = load + 1
  /\ CGoto(c, IF load >= 0 /\ seen[c] < tmax THEN "spawn" ELSE "outside")
  /\ UNCHANGED <<queue, threads, seen, item, fresh, threadVars>>

\* Mutant: the room is not counted again.
SpawnUnchecked(c) ==
  /\ cpc[c] = "spawn"
  /\ threads' = threads + 1
  /\ CGoto(c, "outside")
  /\ \E w \in Slots : tpc[w] = "none" /\ TGoto(w, "wait")
  /\ UNCHANGED <<queue, load, seen, item, fresh, cur, done, timeouts>>

\* spawn_thread: the count is taken first and given back when there is no room.
Spawn(c) ==
  /\ cpc[c] = "spawn"
  /\ threads' = threads + 1
  /\ \/ /\ threads >= tmax
        /\ CGoto(c, "undo")
        /\ UNCHANGED tpc
     \/ /\ threads < tmax
        /\ CGoto(c, "outside")
        /\ \E w \in Slots : tpc[w] = "none" /\ TGoto(w, "wait")
  /\ UNCHANGED <<queue, load, seen, item, fresh, cur, done, timeouts>>

SpawnUndo(c) ==
  /\ cpc[c] = "undo"
  /\ threads' = threads - 1
  /\ CGoto(c, "outside")
  /\ UNCHANGED <<queue, load, seen, item, fresh, threadVars>>

-----------------------------------------------------------------------------
\* blocking_worker, run by thread w.

Wait(w) ==
  /\ tpc[w] = "wait"
  /\ load' = load - 1
  /\ TGoto(w, "recv")
  /\ UNCHANGED <<queue, threads, callerVars, cur, done, timeouts>>

\* recv_timeout: a task, or nothing before the timeout.
Recv(w) ==
  /\ tpc[w] = "recv"
  /\ queue # <<>>
  /\ cur' = [cur EXCEPT ![w] = Head(queue)]
  /\ queue' = Tail(queue)
  /\ TGoto(w, "count")
  /\ UNCHANGED <<counters, callerVars, done, timeouts>>

TimeOut(w) ==
  /\ tpc[w] = "recv"
  /\ queue = <<>>
  /\ timeouts < MaxTimeouts
  /\ timeouts' = timeouts + 1
  /\ TGoto(w, "count")
  /\ UNCHANGED <<queue, counters, callerVars, cur, done>>

Received(w) ==
  /\ tpc[w] = "count"
  /\ load' = load + 1
  /\ TGoto(w, IF cur[w] = NoTask THEN "retire" ELSE "run")
  /\ UNCHANGED <<queue, threads, callerVars, cur, done, timeouts>>

Retire(w) ==
  /\ tpc[w] = "retire"
  /\ threads' = threads - 1
  /\ TGoto(w, "none")
  /\ UNCHANGED <<queue, load, callerVars, cur, done, timeouts>>

\* BlockingTask::run: the call, its result or its error stored, the event set.
Run(w) ==
  /\ tpc[w] = "run"
  /\ done' = done \cup {cur[w]}
  /\ cur' = [cur EXCEPT ![w] = NoTask]
  /\ TGoto(w, "wait")
  /\ UNCHANGED <<queue, counters, callerVars, timeouts>>

-----------------------------------------------------------------------------
SubmitterStep(c) == Send(c) \/ Count(c) \/ Spawn(c) \/ SpawnUndo(c)
ThreadStep(w) == Wait(w) \/ Recv(w) \/ Received(w) \/ Retire(w) \/ Run(w)

\* Every task has been handed over and nobody has anything to do.
Terminated ==
  /\ fresh = {}
  /\ \A c \in Submitters : cpc[c] = "outside"
  /\ \A w \in Slots : tpc[w] = "none" \/ (tpc[w] = "recv" /\ queue = <<>>)
  /\ UNCHANGED blockingVars

BlockingNext ==
  \/ \E c \in Submitters : SubmitterStep(c) \/ \E t \in Tasks : RunLoad(c, t)
  \/ \E w \in Slots : ThreadStep(w) \/ TimeOut(w)
  \/ Terminated

BlockingSpec == BlockingInit /\ [][BlockingNext]_blockingVars

\* Threads are scheduled fairly and tasks return.
BlockingFairness ==
  /\ \A c \in Submitters : WF_blockingVars(SubmitterStep(c))
  /\ \A w \in Slots : WF_blockingVars(ThreadStep(w))

BlockingFairSpec == BlockingSpec /\ BlockingFairness

-----------------------------------------------------------------------------
\* Properties.

Live    == {w \in Slots : tpc[w] # "none"}
Undoing == {c \in Submitters : cpc[c] = "undo"}

\* `threads`, which run and spawn_thread race on with retiring threads, counts the
\* live threads and the refusals still to be given back.
ThreadsCounted == threads = Cardinality(Live) + Cardinality(Undoing)

\* There are never more live threads than tmax, however the loads of `threads` and
\* the retirements interleave.
ThreadsBounded == Cardinality(Live) <= tmax

\* A task in the channel has a thread to run it: when no call of run is under way,
\* the channel is empty or a pool thread is alive that has not given up waiting.
TaskHasThread ==
  /\ \A c \in Submitters : cpc[c] = "outside"
  /\ queue # <<>>
  => \E w \in Live : tpc[w] # "retire" /\ (tpc[w] = "count" => cur[w] # NoTask)

\* The tasks that a caller has sent, and what becomes of one as HandlePool sees it.
Handed(t) == t \notin fresh /\ \A c \in Submitters : item[c] # t

Pool == INSTANCE HandlePool WITH
  Items    <- Tasks,
  Capacity <- tmax,
  halted   <- timeouts > 0,
  status   <- [t \in Tasks |->
                 IF ~Handed(t) THEN "fresh"
                 ELSE IF \E w \in Slots : cur[w] = t THEN "running"
                 ELSE IF t \in done THEN "done" ELSE "queued"]

\* The pool implements HandlePool: at most tmax tasks run at a time, each task is run
\* once and none before it was handed over; and until a wait times out, from when on
\* a thread may retire, every task handed over is eventually run.
ImplementsPool == Pool!PoolSpec
=============================================================================
