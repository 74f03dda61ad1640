----------------------------- MODULE Suspension -----------------------------
(***************************************************************************)
(* How a coroutine parks and is put back on a worker: src/src/events.rs    *)
(* (Event, Waiter, Waker, CoroSuspension, Sentinel), the timers of         *)
(* src/src/time.rs and the dispatch of what a coroutine yields in          *)
(* src/src/handles.rs.                                                     *)
(*                                                                         *)
(* Any thread may run a coroutine, set or clear an event, run a timer that *)
(* has come due or abort a checkpoint, so threads are interchangeable      *)
(* agents.  One step is one atomic operation of the code; what an agent    *)
(* does holding an event's mutex blocks only the other users of that       *)
(* mutex.  Queueing a handle is counted; the scheduler that runs it is     *)
(* WorkSchedule.  The k-th suspension of coroutine c is <<c, k>>.          *)
(***************************************************************************)
EXTENDS Integers, Sequences, FiniteSets

CONSTANTS Coros,        \* the coroutines
          Events,       \* the Event objects
          Agents,       \* the threads
          Programs,     \* the applications considered, see below
          MaxWaits,     \* bound on the suspensions of one coroutine
          Nobody        \* "no agent"

\* What an application does with coroutines and events: the coroutines it spawns, the
\* event lists they await (<<>> is the checkpoint) and how often, the events it clears
\* and the coroutines whose checkpoint it aborts.
ASSUME ProgramsAssumption ==
  /\ MaxWaits \in Nat
  /\ \A p \in Programs :
       /\ p.coros \subseteq Coros /\ p.aborts \subseteq Coros /\ p.clears \subseteq Events
       /\ p.max \in 0..MaxWaits
       /\ \A l \in p.waits : l \in Seq(Events) /\ \A i, j \in DOMAIN l : l[i] = l[j] => i = j
ASSUME NobodyAssumption == Nobody \notin Agents

Suspensions == Coros \X (1..MaxWaits)

VARIABLES
  program,    \* the application that runs
  flag,       \* Event.flag
  watchers,   \* Event.watchers: the suspensions of the queued Wakers
  mutex,      \* who holds the mutex of Event.watchers
  waits,      \* how many suspensions a coroutine has made
  events,     \* the events a suspension waits for, in order
  timed,      \* the suspension has a timeout
  consumed,   \* CoroSuspension.consumed
  counter,    \* Sentinel.counter; a negative value is the usize it wraps to
  timers,     \* the suspensions with a Timer in the heap or queued as a handle
  ckpt,       \* the suspension in Waiter.checkpoint of the checkpoint waiter, 0 if none
  hasCkpt,    \* the coroutine's handles carry a checkpoint
  linked,     \* the suspension shares the checkpoint's aborted flag
  aborted,    \* that flag
  handles,    \* how many handles are queued that would drive the coroutine
  finished,   \* the coroutines that have returned
  ag          \* what each agent is doing: a record with its pc and, inside a call,
              \* where it returns to

eventVars == <<flag, watchers, mutex>>
suspVars  == <<waits, events, timed, linked>>
tokenVars == <<consumed, counter, handles>>
ckptVars  == <<ckpt, hasCkpt, aborted>>
suspensionVars == <<program, eventVars, suspVars, tokenVars, timers, ckptVars, finished, ag>>

Idle == [pc |-> "idle"]

\* What an agent may be in the middle of; and where it goes on after a resume.
Returns ==
  {Idle} \cup [pc : {"notify"}, e : Events] \cup [pc : {"added"}, s : Suspensions, i : Nat \ {0}]
AgentStates ==
  {Idle}
  \cup [pc : {"running", "abort"}, c : Coros]
  \cup [pc : {"notify_lock", "notify", "unnotify"}, e : Events]
  \cup [pc : {"checkpoint", "error", "consume"}, s : Suspensions]
  \cup [pc : {"register", "added"}, s : Suspensions, i : Nat \ {0}]
  \cup [pc : {"resume", "commit", "undo"}, s : Suspensions, ret : Returns]

SuspTypeOK ==
  /\ program \in Programs
  /\ flag \in [Events -> BOOLEAN]
  /\ watchers \in [Events -> Seq(Suspensions)]
  /\ mutex \in [Events -> Agents \cup {Nobody}]
  /\ waits \in [Coros -> 0..MaxWaits]
  /\ events \in [Suspensions -> program.waits \cup {<<>>}]
  /\ timed \in [Suspensions -> BOOLEAN]
  /\ consumed \in [Suspensions -> BOOLEAN]
  /\ counter \in [Suspensions -> Int]
  /\ timers \subseteq Suspensions
  /\ ckpt \in [Coros -> 0..MaxWaits]
  /\ hasCkpt \in [Coros -> BOOLEAN]
  /\ linked \in [Suspensions -> BOOLEAN]
  /\ aborted \in [Coros -> BOOLEAN]
  /\ handles \in [Coros -> Nat]
  /\ finished \subseteq Coros
  /\ ag \in [Agents -> AgentStates]

SuspInit ==
  /\ program \in Programs
  /\ flag = [e \in Events |-> FALSE]
  /\ watchers = [e \in Events |-> <<>>]
  /\ mutex = [e \in Events |-> Nobody]
  /\ waits = [c \in Coros |-> 0]
  /\ events = [s \in Suspensions |-> <<>>]
  /\ timed = [s \in Suspensions |-> FALSE]
  /\ consumed = [s \in Suspensions |-> FALSE]
  /\ counter = [s \in Suspensions |-> 0]
  /\ timers = {}
  /\ ckpt = [c \in Coros |-> 0]
  /\ hasCkpt = [c \in Coros |-> FALSE]
  /\ linked = [s \in Suspensions |-> FALSE]
  /\ aborted = [c \in Coros |-> FALSE]
  /\ handles = [c \in Coros |-> IF c \in program.coros THEN 1 ELSE 0]  \* _spawn_coro
  /\ finished = Coros \ program.coros
  /\ ag = [t \in Agents |-> Idle]

-----------------------------------------------------------------------------
At(t, l)      == ag[t].pc = l
Become(t, r)  == ag' = [ag EXCEPT ![t] = r]
Owner(s)      == s[1]
Multi(s)      == Len(events[s]) > 1      \* build_sentinel
PushHandle(c) == handles' = [handles EXCEPT ![c] = @ + 1]
Aborted(s)    == linked[s] /\ aborted[Owner(s)]

\* The continuations of an agent.
Resuming(s, ret)   == [pc |-> "resume", s |-> s, ret |-> ret]
Registering(s, i)  == [pc |-> "register", s |-> s, i |-> i]
Notifying(e)       == [pc |-> "notify", e |-> e]

-----------------------------------------------------------------------------
\* A coroutine's step: PyCoroHandle::call and the throwers, which drive it to its
\* next yield and dispatch what it yielded.

RunCoro(t, c) ==
  /\ At(t, "idle")
  /\ handles[c] > 0
  /\ handles' = [handles EXCEPT ![c] = @ - 1]
  /\ Become(t, [pc |-> "running", c |-> c])
  /\ UNCHANGED <<eventVars, suspVars, consumed, counter, timers, ckptVars, finished>>

\* PYGEN_RETURN or PYGEN_ERROR.
Finish(t) ==
  /\ At(t, "running")
  /\ finished' = finished \cup {ag[t].c}
  /\ Become(t, Idle)
  /\ UNCHANGED <<eventVars, suspVars, tokenVars, timers, ckptVars>>

\* A bare yield, or a yield the runtime cannot drive, for which the coroutine is
\* queued again with an error to throw into it.
YieldOther(t) ==
  /\ At(t, "running")
  /\ PushHandle(ag[t].c)
  /\ Become(t, Idle)
  /\ UNCHANGED <<eventVars, suspVars, consumed, counter, timers, ckptVars, finished>>

\* Waiter::register_coro up to the point where the suspension is visible: it has
\* been built and, with a checkpoint, swapped into it.  Only a waiter made from a
\* single event has a timeout.
Await(t, l, tm) ==
  LET c == ag[t].c
      k == waits[c] + 1
      s == <<c, k>>
  IN
  /\ At(t, "running")
  /\ k <= program.max
  /\ tm => Len(l) = 1
  /\ l = <<>> => ~hasCkpt[c]
  /\ waits' = [waits EXCEPT ![c] = k]
  /\ events' = [events EXCEPT ![s] = l]
  /\ timed' = [timed EXCEPT ![s] = tm]
  /\ counter' = [counter EXCEPT ![s] = Len(l)]
  /\ linked' = [linked EXCEPT ![s] = hasCkpt[c] \/ l = <<>>]
  /\ hasCkpt' = [hasCkpt EXCEPT ![c] = @ \/ l = <<>>]
  /\ ckpt' = [ckpt EXCEPT ![c] = IF hasCkpt'[c] THEN k ELSE @]
  /\ Become(t, IF l = <<>> THEN [pc |-> "checkpoint", s |-> s] ELSE Registering(s, 1))
  /\ UNCHANGED <<eventVars, consumed, handles, timers, aborted, finished>>

\* A checkpoint waiter resumes at once, unless it has been aborted.
Checkpoint(t) ==
  /\ At(t, "checkpoint")
  /\ Become(t, IF Aborted(ag[t].s) THEN [pc |-> "error", s |-> ag[t].s]
               ELSE Resuming(ag[t].s, Idle))
  /\ UNCHANGED <<eventVars, suspVars, tokenVars, timers, ckptVars, finished>>

\* Mutant: the flag is not looked at again under the mutex.
AddWakerNoCheck(t) ==
  LET s == ag[t].s
      i == ag[t].i
      e == events[s][i]
  IN
  /\ At(t, "register")
  /\ i <= Len(events[s])
  /\ mutex[e] = Nobody
  /\ watchers' = [watchers EXCEPT ![e] = Append(@, s)]
  /\ Become(t, Registering(s, i + 1))
  /\ UNCHANGED <<flag, mutex, suspVars, tokenVars, timers, ckptVars, finished>>

\* Waiter::register: Event::add_waker for one event, under its mutex.  When the
\* event is set the waker is not queued but woken, and the mutex is held for that.
AddWaker(t) ==
  LET s == ag[t].s
      i == ag[t].i
      e == events[s][i]
  IN
  /\ At(t, "register")
  /\ i <= Len(events[s])
  /\ mutex[e] = Nobody
  /\ IF flag[e]
       THEN /\ mutex' = [mutex EXCEPT ![e] = t]
            /\ Become(t, Resuming(s, [pc |-> "added", s |-> s, i |-> i]))
            /\ UNCHANGED watchers
       ELSE /\ watchers' = [watchers EXCEPT ![e] = Append(@, s)]
            /\ Become(t, Registering(s, i + 1))
            /\ UNCHANGED mutex
  /\ UNCHANGED <<flag, suspVars, tokenVars, timers, ckptVars, finished>>

Added(t) ==
  /\ At(t, "added")
  /\ mutex' = [mutex EXCEPT ![events[ag[t].s][ag[t].i]] = Nobody]
  /\ Become(t, Registering(ag[t].s, ag[t].i + 1))
  /\ UNCHANGED <<flag, watchers, suspVars, tokenVars, timers, ckptVars, finished>>

\* Mutant: the timeout is forgotten.
AddTimerForgotten(t) ==
  /\ At(t, "register")
  /\ ag[t].i > Len(events[ag[t].s])
  /\ Become(t, Idle)
  /\ UNCHANGED <<eventVars, suspVars, tokenVars, timers, ckptVars, finished>>

\* The end of Waiter::register: the timer, if there is one.
AddTimer(t) ==
  LET s == ag[t].s IN
  /\ At(t, "register")
  /\ ag[t].i > Len(events[s])
  /\ timers' = IF timed[s] THEN timers \cup {s} ELSE timers
  /\ Become(t, Idle)
  /\ UNCHANGED <<eventVars, suspVars, tokenVars, ckptVars, finished>>

-----------------------------------------------------------------------------
\* CoroSuspension::resume and error.

\* resume: the load of the aborted flag.
Resume(t) ==
  /\ At(t, "resume")
  /\ Become(t, IF Aborted(ag[t].s) THEN ag[t].ret ELSE [ag[t] EXCEPT !.pc = "commit"])
  /\ UNCHANGED <<eventVars, suspVars, tokenVars, timers, ckptVars, finished>>

\* Mutant: every waker that finds the suspension not aborted queues the coroutine.
CommitAlways(t) ==
  LET s == ag[t].s IN
  /\ At(t, "commit")
  /\ consumed' = [consumed EXCEPT ![s] = TRUE]
  /\ PushHandle(Owner(s))
  /\ Become(t, ag[t].ret)
  /\ UNCHANGED <<counter, eventVars, suspVars, timers, ckptVars, finished>>

\* resume: Sentinel::decrement for several events, the exchange of `consumed` for
\* one.  The caller that wins queues the coroutine.
Commit(t) ==
  LET s == ag[t].s IN
  /\ At(t, "commit")
  /\ IF Multi(s)
       THEN /\ counter' = [counter EXCEPT ![s] = @ - 1]
            /\ IF counter[s] = 1 THEN PushHandle(Owner(s)) ELSE UNCHANGED handles
            /\ Become(t, IF counter[s] = 0 THEN [ag[t] EXCEPT !.pc = "undo"] ELSE ag[t].ret)
            /\ UNCHANGED consumed
       ELSE /\ consumed' = [consumed EXCEPT ![s] = TRUE]
            /\ IF consumed[s] THEN UNCHANGED handles ELSE PushHandle(Owner(s))
            /\ Become(t, ag[t].ret)
            /\ UNCHANGED counter
  /\ UNCHANGED <<eventVars, suspVars, timers, ckptVars, finished>>

\* Sentinel::decrement found 0 and adds the one back.
Undo(t) ==
  /\ At(t, "undo")
  /\ counter' = [counter EXCEPT ![ag[t].s] = @ + 1]
  /\ Become(t, ag[t].ret)
  /\ UNCHANGED <<eventVars, suspVars, consumed, handles, timers, ckptVars, finished>>

\* error: Sentinel::consume, a load followed by a store, or the exchange.
Error(t) ==
  LET s == ag[t].s IN
  /\ At(t, "error")
  /\ IF Multi(s)
       THEN /\ Become(t, IF counter[s] = 0 THEN Idle ELSE [pc |-> "consume", s |-> s])
            /\ UNCHANGED <<consumed, handles>>
       ELSE /\ consumed' = [consumed EXCEPT ![s] = TRUE]
            /\ IF consumed[s] THEN UNCHANGED handles ELSE PushHandle(Owner(s))
            /\ Become(t, Idle)
  /\ UNCHANGED <<eventVars, suspVars, counter, timers, ckptVars, finished>>

Consume(t) ==
  /\ At(t, "consume")
  /\ counter' = [counter EXCEPT ![ag[t].s] = 0]
  /\ PushHandle(Owner(ag[t].s))
  /\ Become(t, Idle)
  /\ UNCHANGED <<eventVars, suspVars, consumed, timers, ckptVars, finished>>

-----------------------------------------------------------------------------
\* Event::set and clear, timers, Waiter::abort.

\* set: the exchange; a set of an event that is set does nothing.
Set(t, e) ==
  /\ At(t, "idle")
  /\ ~flag[e]
  /\ flag' = [flag EXCEPT ![e] = TRUE]
  /\ Become(t, [pc |-> "notify_lock", e |-> e])
  /\ UNCHANGED <<watchers, mutex, suspVars, tokenVars, timers, ckptVars, finished>>

NotifyLock(t) ==
  LET e == ag[t].e IN
  /\ At(t, "notify_lock")
  /\ mutex[e] = Nobody
  /\ mutex' = [mutex EXCEPT ![e] = t]
  /\ Become(t, Notifying(e))
  /\ UNCHANGED <<flag, watchers, suspVars, tokenVars, timers, ckptVars, finished>>

\* notify: wake the wakers one after the other, the mutex held throughout.
Notify(t) ==
  LET e == ag[t].e IN
  /\ At(t, "notify")
  /\ IF watchers[e] # <<>>
       THEN /\ watchers' = [watchers EXCEPT ![e] = Tail(@)]
            /\ Become(t, Resuming(Head(watchers[e]), Notifying(e)))
            /\ UNCHANGED mutex
       ELSE /\ mutex' = [mutex EXCEPT ![e] = Nobody]
            /\ Become(t, Idle)
            /\ UNCHANGED watchers
  /\ UNCHANGED <<flag, suspVars, tokenVars, timers, ckptVars, finished>>

Clear(t, e) ==
  /\ At(t, "idle")
  /\ e \in program.clears
  /\ flag[e]
  /\ flag' = [flag EXCEPT ![e] = FALSE]
  /\ Become(t, [pc |-> "unnotify", e |-> e])
  /\ UNCHANGED <<watchers, mutex, suspVars, tokenVars, timers, ckptVars, finished>>

\* unnotify: every sentinel with a waker in the queue waits for one more.
Unnotify(t) ==
  LET e == ag[t].e
      Held == {watchers[e][i] : i \in DOMAIN watchers[e]}
  IN
  /\ At(t, "unnotify")
  /\ mutex[e] = Nobody
  /\ counter' = [s \in Suspensions |->
                   IF s \in Held /\ Multi(s) THEN counter[s] + 1 ELSE counter[s]]
  /\ Become(t, Idle)
  /\ UNCHANGED <<eventVars, suspVars, consumed, handles, timers, ckptVars, finished>>

\* A timer that has come due and whose handle a worker runs (Timer::run).
RunTimer(t, s) ==
  /\ At(t, "idle")
  /\ s \in timers
  /\ timers' = timers \ {s}
  /\ Become(t, Resuming(s, Idle))
  /\ UNCHANGED <<eventVars, suspVars, tokenVars, ckptVars, finished>>

\* abort_coro: the exchange of the flag, then the load of the checkpoint.
Abort(t, c) ==
  /\ At(t, "idle")
  /\ c \in program.aborts
  /\ ~aborted[c]
  /\ aborted' = [aborted EXCEPT ![c] = TRUE]
  /\ Become(t, [pc |-> "abort", c |-> c])
  /\ UNCHANGED <<eventVars, suspVars, tokenVars, timers, ckpt, hasCkpt, finished>>

AbortLoad(t) ==
  LET c == ag[t].c IN
  /\ At(t, "abort")
  /\ Become(t, IF ckpt[c] = 0 THEN Idle ELSE [pc |-> "error", s |-> <<c, ckpt[c]>>])
  /\ UNCHANGED <<eventVars, suspVars, tokenVars, timers, ckptVars, finished>>

-----------------------------------------------------------------------------
\* What an agent does once it is inside a call.
Continue(t) ==
  \/ Checkpoint(t) \/ AddWaker(t) \/ Added(t) \/ AddTimer(t)
  \/ Resume(t) \/ Commit(t) \/ Undo(t) \/ Error(t) \/ Consume(t)
  \/ NotifyLock(t) \/ Notify(t) \/ Unnotify(t) \/ AbortLoad(t)

\* What a coroutine does when it is driven.
DriveCoro(t) ==
  \/ Finish(t) \/ YieldOther(t)
  \/ \E l \in program.waits, tm \in BOOLEAN : Await(t, l, tm)

\* No call is under way, no handle is queued and no timer is pending: the runtime
\* stays idle unless an event is set or cleared or a checkpoint aborted.
Rest ==
  /\ \A t \in Agents : At(t, "idle")
  /\ \A c \in Coros : handles[c] = 0
  /\ timers = {}
  /\ UNCHANGED suspensionVars

Step(t) ==
  \/ Continue(t) \/ DriveCoro(t)
  \/ \E c \in Coros : RunCoro(t, c) \/ Abort(t, c)
  \/ \E e \in Events : Set(t, e) \/ Clear(t, e)
  \/ \E s \in Suspensions : RunTimer(t, s)

SuspNext ==
  \/ UNCHANGED program /\ \E t \in Agents : Step(t)
  \/ Rest

SuspSpec == SuspInit /\ [][SuspNext]_suspensionVars

\* Threads are scheduled fairly, queued handles are run and timers come due.
SuspFairness ==
  /\ \A t \in Agents : WF_suspensionVars(Continue(t) /\ UNCHANGED program) /\ WF_suspensionVars(DriveCoro(t) /\ UNCHANGED program)
  /\ \A c \in Coros : WF_suspensionVars(UNCHANGED program /\ \E t \in Agents : RunCoro(t, c))
  /\ \A s \in Suspensions : WF_suspensionVars(UNCHANGED program /\ \E t \in Agents : RunTimer(t, s))

SuspFairSpec == SuspSpec /\ SuspFairness

-----------------------------------------------------------------------------
\* Properties.

Running(c)  == {t \in Agents : At(t, "running") /\ ag[t].c = c}
Parked(c)   == c \notin finished /\ handles[c] = 0 /\ Running(c) = {}
Current(c)  == <<c, waits[c]>>
Quiet       == \A t \in Agents : ag[t].pc \in {"idle", "running"}
Queued(s, e) == \E i \in DOMAIN watchers[e] : watchers[e][i] = s

\* Exactly one resume: a coroutine is never queued or driven twice at a time, and
\* never after it has returned (a second handle would step a coroutine that is
\* already running, or that has moved on to another await).
SingleDriver ==
  \A c \in Coros :
    handles[c] + Cardinality(Running(c)) <= IF c \in finished THEN 0 ELSE 1

\* ... which holds as long as no checkpoint is aborted around a wait for several events.
OneResume ==
  program.aborts = {} \/ (\A l \in program.waits : Len(l) <= 1) => SingleDriver

\* When no call is under way, a coroutine parked on one event has its waker queued there, its
\* exchange still to win, and the event is not set.
WatchedAlone ==
  Quiet => \A c \in Coros :
    Parked(c) /\ ~Multi(Current(c)) /\ ~Aborted(Current(c)) =>
      LET e == events[Current(c)][1] IN
      Queued(Current(c), e) /\ ~consumed[Current(c)] /\ ~flag[e]

\* The wakers of a coroutine parked on several events are queued at events that are not set, and
\* its countdown is their number; where such an event is cleared meanwhile, it may be higher.
CountdownExact ==
  Quiet => \A c \in Coros :
    Parked(c) /\ Multi(Current(c)) /\ ~Aborted(Current(c)) =>
      LET Left == {i \in DOMAIN events[Current(c)] : Queued(Current(c), events[Current(c)][i])}
      IN /\ counter[Current(c)] >= Cardinality(Left)
         /\ \A i \in Left : ~flag[events[Current(c)][i]]
         /\ (\A i \in DOMAIN events[Current(c)] : events[Current(c)][i] \notin program.clears)
              => counter[Current(c)] = Cardinality(Left) /\ Left # {}

\* A set that races a registration is never lost, neither by a coroutine that waits for one
\* event nor by one that counts down several.
ParkedIsWatched == WatchedAlone /\ CountdownExact

\* An abort that has reached the suspension a coroutine is parked on resumes it.
AbortResumes ==
  \A c \in Coros, k \in 1..MaxWaits :
    (Parked(c) /\ waits[c] = k /\ \E t \in Agents : ag[t] = [pc |-> "error", s |-> <<c, k>>])
      ~> ~(Parked(c) /\ waits[c] = k)

\* A wait with a timeout ends, whatever becomes of its event (unless the application
\* keeps every thread busy by setting and clearing events for ever, or aborts the
\* checkpoint around it: resume ignores the timers of an aborted suspension).
TimeoutResumes ==
  \A c \in Coros, k \in 1..MaxWaits :
    (program.clears = {} /\ program.aborts = {} /\ waits[c] = k /\ timed[<<c, k>>])
      ~> (~Parked(c) \/ waits[c] # k)

\* A coroutine parked on an event that is set, and not cleared again, is resumed (with
\* the same reservation about aborts).
SetResumes ==
  \A c \in Coros, e \in Events :
    (program.aborts = {} /\ e \notin program.clears
       /\ Parked(c) /\ events[Current(c)] = <<e>> /\ flag[e])
      ~> ~(Parked(c) /\ events[Current(c)] = <<e>>)

\* A suspended coroutine is resumed by whichever comes first: its timeout, the set of its
\* event, the abort of its checkpoint; none of them is lost to the others.
SuspensionResumes == TimeoutResumes /\ SetResumes /\ AbortResumes
=============================================================================
