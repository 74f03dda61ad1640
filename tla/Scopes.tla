------------------------------- MODULE Scopes -------------------------------
(***************************************************************************)
(* A task in the scopes that cancel it and take the cancel back:           *)
(* asyncio.timeout and wait_for of src/mt_asyncio/asyncio/_timeouts.py and *)
(* _ctl.py, and TaskGroup of _tg.py, in                                    *)
(*                                                                         *)
(*    async with timeout(d):            # when app.timeout                 *)
(*        async with TaskGroup() as g:  # when app.kids # {}               *)
(*            g.create_task(...)        # one for each kid                 *)
(*            await body                                                   *)
(*    await after                                                          *)
(*                                                                         *)
(* The timer, the done callbacks of the kids and threads outside cancel    *)
(* the task through the steps of TaskCancel.                               *)
(***************************************************************************)
EXTENDS TaskCancel, Sequences

CONSTANTS Kids,       \* the tasks the group creates, in any order
          Outsiders,  \* other threads that cancel the task
          Timer,      \* the thread in _on_timeout
          Self,       \* the task itself, where it cancels itself or aborts the group
          Body,       \* the future the body awaits
          After,      \* the future the task awaits after the scopes
          Apps        \* [timeout, reschedules : is there one and is it extended,
                      \*  kids : those the group creates, awaits : bound on the awaits
                      \*  of the body, raises : what it may raise, fates : how a kid may
                      \*  end, outsiders]

ASSUME CancellersAssumption == Cancellers = Kids \cup Outsiders \cup {Timer, Self}
ASSUME ScopeFutsAssumption  == {Body, After} \subseteq Futs
ASSUME IdentityAssumption   ==
  Timer # Self /\ NoFuture # Timer /\ {Timer, Self} \cap (Kids \cup Outsiders) = {}
  /\ Kids \cap Outsiders = {} /\ IsFiniteSet(Outsiders)
ASSUME AppsAssumption ==
  Apps \subseteq [timeout : BOOLEAN, reschedules : BOOLEAN, kids : SUBSET Kids, awaits : Nat,
                  raises : SUBSET {"error", "base"}, fates : SUBSET {"ok", "error", "base"},
                  outsiders : SUBSET Outsiders]

Timers == {1, 2}                 \* the timer of __aenter__ and the one of reschedule
GroupFuts == Futs \ {Body, After}  \* what _on_completed_fut may be

VARIABLES
  app,     \* the application
  at,      \* where the task is in its coroutine
  exc,     \* the exception that leaves the scope it is in
  awaits,  \* how often the body has awaited
  tmo,     \* Timeout: _state, _timeout_handler and the holder of _lock
  tpc,     \* what each timer is doing
  grp,     \* TaskGroup: its flags, tasks, errors and _on_completed_fut
  prop,    \* propagate_cancellation_error of _aexit
  kid,     \* the kids: their state, whether they were cancelled, and their done callback
  doomed,  \* the tasks each _abort has still to cancel
  late     \* the kids that were still to cancel the task when it found the group empty

scopeVars == <<app, at, exc, awaits, tmo, tpc, grp, prop, kid, doomed, late>>
vars      == <<cancelVars, scopeVars>>

KidStates == {"unborn", "run", "ok", "error", "base", "cancelled"}
Ended(k)  == kid[k].st \notin {"unborn", "run"}
Failed(k) == kid[k].st \in {"error", "base"}

TypeOK ==
  /\ TaskTypeOK
  /\ exc \in {"none", "cancel", "error", "base", "group", "timeout"}
  /\ tmo.state \in {"created", "entered", "expiring", "expired", "finished"}
  /\ grp.members \subseteq Kids /\ grp.errors \subseteq Kids \cup {Self}
  /\ \A k \in Kids : kid[k].st \in KidStates

TimeoutInit ==
  /\ tmo = [state |-> "created", handler |-> 0, lock |-> NoFuture]
  /\ tpc = [d \in Timers |-> "idle"]

GroupInit ==
  /\ grp = [entered |-> FALSE, exiting |-> FALSE, aborting |-> FALSE, req |-> FALSE, gone |-> FALSE,
            members |-> {}, errors |-> {}, base |-> FALSE, waiter |-> NoFuture, used |-> {}]
  /\ prop = FALSE
  /\ kid = [k \in Kids |-> [st |-> "unborn", creq |-> FALSE, cb |-> "none", w |-> NoFuture]]
  /\ doomed = [a \in Kids \cup {Self} |-> {}]
  /\ late = {}

Init ==
  /\ TaskInit
  /\ app \in Apps
  /\ at = "enter"
  /\ exc = "none"
  /\ awaits = 0
  /\ TimeoutInit
  /\ GroupInit

At(l)   == pc = "run" /\ at = l
Goto(l) == at' = l

-----------------------------------------------------------------------------
\* Timeout.

\* cancel of a TimerHandle: its thread, if it has not come so far, finds nothing to call.
CancelTimer(d) == [i \in Timers |-> IF i = d /\ tpc[i] = "armed" THEN "idle" ELSE tpc[i]]

\* call_at: a coroutine waits until the time has come.
CallAt(d, timers) == [timers EXCEPT ![d] = "armed"]

\* reschedule, under the lock, then cancel of the old handle.
Reschedule(d) ==
  /\ tmo.lock = NoFuture
  /\ tmo' = [tmo EXCEPT !.state = "entered", !.handler = d]
  /\ tpc' = CallAt(d, CancelTimer(tmo.handler))

Enter ==
  /\ At("enter")
  /\ Goto(IF app.kids = {} THEN "body" ELSE "g_enter")
  /\ IF app.timeout THEN Reschedule(1) ELSE UNCHANGED <<tmo, tpc>>
  /\ UNCHANGED <<cancelVars, app, exc, awaits, grp, prop, kid, doomed, late>>

Extend ==
  /\ At("body") /\ app.reschedules
  /\ tmo.state = "entered" /\ tmo.handler = 1
  /\ Reschedule(2)
  /\ UNCHANGED <<cancelVars, app, at, exc, awaits, grp, prop, kid, doomed, late>>

\* The timer's thread finds the handle not cancelled.
Fire(d) ==
  /\ tpc[d] = "armed"
  /\ tpc' = [tpc EXCEPT ![d] = "fired"]
  /\ UNCHANGED <<cancelVars, app, at, exc, awaits, tmo, grp, prop, kid, doomed, late>>

\* Mutant: the lock is dropped before the cancel.
OnTimeoutUnlocked(d) ==
  /\ tpc[d] = "fired"
  /\ tmo.lock = NoFuture
  /\ tmo' = [tmo EXCEPT !.handler = 0, !.state = IF @ = "entered" THEN "expiring" ELSE @]
  /\ tpc' = [tpc EXCEPT ![d] = IF tmo.state = "entered" THEN "cancel" ELSE "idle"]
  /\ UNCHANGED <<cancelVars, app, at, exc, awaits, grp, prop, kid, doomed, late>>

\* _on_timeout: under the lock, the state, and the cancel of the task.
OnTimeout(d) ==
  /\ tpc[d] = "fired"
  /\ tmo.lock = NoFuture
  /\ tmo' = IF tmo.state = "entered" THEN [state |-> "expiring", handler |-> 0, lock |-> Timer]
            ELSE [tmo EXCEPT !.handler = 0]
  /\ tpc' = [tpc EXCEPT ![d] = IF tmo.state = "entered" THEN "cancel" ELSE "idle"]
  /\ UNCHANGED <<cancelVars, app, at, exc, awaits, grp, prop, kid, doomed, late>>

OnTimeoutCancel == (\E d \in Timers : tpc[d] = "cancel") /\ Cancel(Timer) /\ UNCHANGED scopeVars

OnTimeoutEnd(d) ==
  /\ tpc[d] = "cancel"
  /\ ca[Timer].pc \in {"true", "false"}
  /\ tmo' = [tmo EXCEPT !.lock = NoFuture]
  /\ tpc' = [tpc EXCEPT ![d] = "idle"]
  /\ UNCHANGED <<cancelVars, app, at, exc, awaits, grp, prop, kid, doomed, late>>

\* __aexit__ under the lock, and cancel of the handle.
TimeoutExit ==
  /\ At("t_exit")
  /\ tmo.lock = NoFuture
  /\ tmo' = [tmo EXCEPT !.handler = 0, !.state = IF @ = "expiring" THEN "expired" ELSE "finished"]
  /\ tpc' = CancelTimer(tmo.handler)
  /\ Goto(IF tmo.state = "expiring" THEN "t_uncancel" ELSE "after")
  /\ UNCHANGED <<cancelVars, app, exc, awaits, grp, prop, kid, doomed, late>>

\* A call of uncancel, which does nothing at zero; the coroutine goes on at l.
CallUncancel(l) ==
  /\ IF numCancels > 0 THEN Uncancel ELSE UNCHANGED cancelVars
  /\ Goto(l)
  /\ UNCHANGED <<app, exc, awaits, tmo, tpc, grp, prop, kid, doomed, late>>

TimeoutUncancel == At("t_uncancel") /\ CallUncancel("t_end")

\* What uncancel returned decides whether the CancelledError becomes a TimeoutError.
TimeoutEnd ==
  /\ At("t_end")
  /\ exc' = IF numCancels = 0 /\ exc = "cancel" THEN "timeout" ELSE exc
  /\ Goto("after")
  /\ UNCHANGED <<cancelVars, app, awaits, tmo, tpc, grp, prop, kid, doomed, late>>

-----------------------------------------------------------------------------
\* TaskGroup: __aenter__, and create_task, called by the body.

GroupEnter ==
  /\ At("g_enter")
  /\ Goto("body")
  /\ grp' = [grp EXCEPT !.entered = TRUE]
  /\ UNCHANGED <<cancelVars, app, exc, awaits, tmo, tpc, prop, kid, doomed, late>>

\* The checks, and loop.create_task, after which the kid runs on its own.
CreateTask(k) ==
  /\ At("body") /\ grp.entered /\ k \in app.kids /\ kid[k].st = "unborn"
  /\ IF grp.aborting
       THEN exc' = "error" /\ Goto("g_exit") /\ UNCHANGED kid
       ELSE kid' = [kid EXCEPT ![k] = [st |-> "run", creq |-> FALSE, cb |-> "add", w |-> NoFuture]] /\ Goto("add") /\ UNCHANGED exc
  /\ UNCHANGED <<cancelVars, app, awaits, tmo, tpc, grp, prop, doomed, late>>

AddMember(k) ==
  /\ At("add") /\ kid[k].cb = "add"
  /\ grp' = [grp EXCEPT !.members = @ \cup {k}]
  /\ kid' = [kid EXCEPT ![k].cb = "register"]
  /\ UNCHANGED <<cancelVars, app, at, exc, awaits, tmo, tpc, prop, doomed, late>>

\* add_done_callback: a kid that has ended is reported at once.
AddCallback(k) ==
  /\ At("add") /\ kid[k].cb = "register"
  /\ kid' = [kid EXCEPT ![k].cb = IF Ended(k) THEN "queued" ELSE "added"]
  /\ Goto("body")
  /\ UNCHANGED <<cancelVars, app, exc, awaits, tmo, tpc, grp, prop, doomed, late>>

KidEnds(k) ==
  /\ kid[k].st = "run"
  /\ \E e \in app.fates \cup (IF kid[k].creq THEN {"cancelled"} ELSE {}) :
       kid' = [kid EXCEPT ![k] = [st |-> e, creq |-> @.creq, w |-> @.w,
                                  cb |-> IF @.cb = "added" THEN "queued" ELSE @.cb]]
  /\ UNCHANGED <<cancelVars, app, at, exc, awaits, tmo, tpc, grp, prop, doomed, late>>

\* _abort by a: the flag, the list of the tasks under the lock, the cancels.
Flag  == grp' = [grp EXCEPT !.aborting = TRUE] /\ UNCHANGED doomed
List(a) == doomed' = [doomed EXCEPT ![a] = grp.members] /\ UNCHANGED grp
Kill(a) ==
  \E k \in doomed[a] :
    /\ doomed' = [doomed EXCEPT ![a] = @ \ {k}]
    /\ kid' = [kid EXCEPT ![k].creq = @ \/ ~Ended(k)]

-----------------------------------------------------------------------------
\* TaskGroup._on_task_done, on some worker.

CbGoto(k, l) == kid' = [kid EXCEPT ![k].cb = l]

\* Mutant: the error is recorded in a second critical section.
OnTaskDoneTwice(k) ==
  LET cancels == Failed(k) /\ ~grp.aborting /\ ~grp.req IN
  /\ \/ /\ kid[k].cb = "queued"
        /\ grp' = [grp EXCEPT !.members = @ \ {k}]
        /\ CbGoto(k, "record")
     \/ /\ kid[k].cb = "record"
        /\ grp' = [grp EXCEPT !.errors = IF Failed(k) THEN @ \cup {k} ELSE @,
                              !.req = @ \/ cancels]
        /\ CbGoto(k, IF cancels THEN "abort" ELSE "wake")
  /\ UNCHANGED <<cancelVars, app, at, exc, awaits, tmo, tpc, prop, doomed, late>>

\* Under the lock: the kid leaves the group and its error is recorded; the first error
\* makes its callback cancel the others and the task.
OnTaskDone(k) ==
  LET cancels == Failed(k) /\ ~grp.aborting /\ ~grp.req /\ ~grp.gone /\ tstate = "PENDING" IN
  /\ kid[k].cb = "queued"
  /\ grp' = [grp EXCEPT !.members = @ \ {k},
                        !.errors = IF Failed(k) THEN @ \cup {k} ELSE @,
                        !.base = @ \/ kid[k].st = "base",
                        !.req = @ \/ cancels]
  /\ CbGoto(k, IF cancels THEN "abort" ELSE "wake")
  /\ UNCHANGED <<cancelVars, app, at, exc, awaits, tmo, tpc, prop, doomed, late>>

CallbackAbort(k) ==
  /\ \/ kid[k].cb = "abort" /\ Flag /\ CbGoto(k, "list")
     \/ kid[k].cb = "list" /\ List(k) /\ CbGoto(k, "kill")
     \/ kid[k].cb = "kill" /\ Kill(k) /\ UNCHANGED grp
     \/ kid[k].cb = "kill" /\ doomed[k] = {} /\ CbGoto(k, "cancel") /\ UNCHANGED <<grp, doomed>>
  /\ UNCHANGED <<cancelVars, app, at, exc, awaits, tmo, tpc, prop, late>>

\* parent_task.cancel().
CallbackCancel(k) == kid[k].cb = "cancel" /\ Cancel(k) /\ UNCHANGED scopeVars

CallbackCancelled(k) ==
  /\ kid[k].cb = "cancel"
  /\ ca[k].pc \in {"true", "false"}
  /\ CbGoto(k, "wake")
  /\ UNCHANGED <<cancelVars, app, at, exc, awaits, tmo, tpc, grp, prop, doomed, late>>

\* Mutant: the parent is woken only if a kid was still in the group.
CallbackWakeMissed(k) ==
  /\ kid[k].cb = "wake"
  /\ CbGoto(k, "end")
  /\ UNCHANGED <<cancelVars, app, at, exc, awaits, tmo, tpc, grp, prop, doomed, late>>

\* Under the lock: is the group empty, and does the task wait for it?
CallbackWake(k) ==
  /\ kid[k].cb = "wake"
  /\ IF grp.waiter # NoFuture /\ grp.members = {}
       THEN kid' = [kid EXCEPT ![k] = [st |-> @.st, creq |-> @.creq, cb |-> "set", w |-> grp.waiter]]
       ELSE CbGoto(k, "end")
  /\ UNCHANGED <<cancelVars, app, at, exc, awaits, tmo, tpc, grp, prop, doomed, late>>

\* set_result, unless the waiter is done; if it is cancelled after that test, the
\* InvalidStateError ends a callback that has nothing left to do.
CallbackSet(k) ==
  /\ kid[k].cb = "set"
  /\ fstate' = [fstate EXCEPT ![kid[k].w] = IF @ = "PENDING" THEN "FINISHED" ELSE @]
  /\ CbGoto(k, "end")
  /\ UNCHANGED <<fevent, taskVars, ca, app, at, exc, awaits, tmo, tpc, grp, prop, doomed, late>>

-----------------------------------------------------------------------------
\* The body, and TaskGroup._aexit.

AwaitBody ==
  /\ At("body") /\ awaits < app.awaits
  /\ Await(Body)
  /\ awaits' = awaits + 1
  /\ UNCHANGED <<app, at, exc, tmo, tpc, grp, prop, kid, doomed, late>>

CatchInBody == at = "body" /\ Catch /\ UNCHANGED scopeVars

Outer == IF app.timeout THEN "t_exit" ELSE "after"

\* The body returns, raises, or lets the CancelledError out.
LeaveBody ==
  /\ \/ At("body") /\ exc' \in {"none"} \cup app.raises /\ UNCHANGED cancelVars
     \/ at = "body" /\ Catch /\ exc' = "cancel"
  /\ Goto(IF app.kids # {} THEN "g_exit" ELSE Outer)
  /\ UNCHANGED <<app, awaits, tmo, tpc, grp, prop, kid, doomed, late>>

GroupExit ==
  /\ At("g_exit")
  /\ grp' = [grp EXCEPT !.exiting = TRUE, !.base = @ \/ exc = "base"]
  /\ prop' = (exc = "cancel")
  /\ Goto(IF exc # "none" /\ ~grp.aborting THEN "g_abort" ELSE "g_loop")
  /\ UNCHANGED <<cancelVars, app, exc, awaits, tmo, tpc, kid, doomed, late>>

GroupAbort ==
  /\ \/ At("g_abort") /\ Flag /\ Goto("g_list") /\ UNCHANGED kid
     \/ At("g_list") /\ List(Self) /\ Goto("g_kill") /\ UNCHANGED kid
     \/ At("g_kill") /\ Kill(Self) /\ UNCHANGED <<grp, at>>
     \/ At("g_kill") /\ doomed[Self] = {} /\ Goto("g_clear") /\ UNCHANGED <<grp, doomed, kid>>
  /\ UNCHANGED <<cancelVars, app, exc, awaits, tmo, tpc, prop, late>>

\* The callback of k is going to cancel the task.
Cancelling(k) == kid[k].cb \in {"abort", "list", "kill", "cancel"}

\* Under the lock: the group is empty, or a future is created to wait for it; GroupFuts
\* bounds how many.
GroupLoop ==
  /\ At("g_loop")
  /\ IF grp.members = {}
       THEN Goto("g_end") /\ late' = {k \in Kids : Cancelling(k)} /\ UNCHANGED grp
       ELSE /\ grp.used # GroupFuts
            /\ Goto("g_await") /\ UNCHANGED late
            /\ grp' = LET f == CHOOSE f \in GroupFuts : f \notin grp.used IN
                      [grp EXCEPT !.waiter = f, !.used = @ \cup {f}]
  /\ UNCHANGED <<cancelVars, app, exc, awaits, tmo, tpc, prop, kid, doomed>>

GroupAwait ==
  /\ At("g_await")
  /\ Await(grp.waiter)
  /\ Goto("g_wait")
  /\ UNCHANGED <<app, exc, awaits, tmo, tpc, grp, prop, kid, doomed, late>>

\* The await returned, or raised CancelledError, which makes the group abort.
GroupWoken ==
  /\ \/ At("g_wait") /\ Goto("g_clear") /\ UNCHANGED <<cancelVars, prop>>
     \/ at = "g_wait" /\ Catch /\ prop' = (prop \/ ~grp.aborting)
          /\ Goto(IF grp.aborting THEN "g_clear" ELSE "g_abort")
  /\ UNCHANGED <<app, exc, awaits, tmo, tpc, grp, kid, doomed, late>>

GroupClear ==
  /\ At("g_clear")
  /\ grp' = [grp EXCEPT !.waiter = NoFuture]
  /\ Goto("g_loop")
  /\ UNCHANGED <<cancelVars, app, exc, awaits, tmo, tpc, prop, kid, doomed, late>>

\* The end of __aexit__, which drops _parent_task.
LeaveGroup(e) ==
  /\ exc' = e
  /\ grp' = [grp EXCEPT !.gone = TRUE]
  /\ Goto(Outer)

GroupEnd ==
  /\ At("g_end")
  /\ IF grp.base THEN LeaveGroup("base")
     ELSE Goto(IF grp.req THEN "g_uncancel" ELSE "g_raise") /\ UNCHANGED <<exc, grp>>
  /\ UNCHANGED <<cancelVars, app, awaits, tmo, tpc, prop, kid, doomed, late>>

GroupUncancel == At("g_uncancel") /\ CallUncancel("g_uncancelled")

GroupUncancelled ==
  /\ At("g_uncancelled")
  /\ prop' = (prop /\ numCancels # 0)
  /\ Goto("g_raise")
  /\ UNCHANGED <<cancelVars, app, exc, awaits, tmo, tpc, grp, kid, doomed, late>>

\* The cancel goes on, or the errors are raised; a cancel of others that is still counted is
\* then requested anew.
GroupRaise ==
  LET errors == grp.errors \cup (IF exc = "error" THEN {Self} ELSE {}) IN
  /\ At("g_raise")
  /\ IF prop /\ grp.errors = {} THEN LeaveGroup("cancel")
     ELSE IF errors = {} THEN LeaveGroup(exc)
     ELSE IF numCancels = 0 THEN LeaveGroup("group")
     ELSE Goto("g_again") /\ UNCHANGED <<exc, grp>>
  /\ UNCHANGED <<cancelVars, app, awaits, tmo, tpc, prop, kid, doomed, late>>

GroupAgain == At("g_again") /\ CallUncancel("g_recancel")

GroupRecancel == At("g_recancel") /\ Cancel(Self) /\ UNCHANGED scopeVars

GroupRecancelled ==
  /\ At("g_recancel")
  /\ ca[Self].pc \in {"true", "false"}
  /\ LeaveGroup("group")
  /\ UNCHANGED <<cancelVars, app, awaits, tmo, tpc, prop, kid, doomed, late>>

-----------------------------------------------------------------------------
\* After the scopes: the exception leaves the task, or is caught and the task goes on.

AwaitAfter ==
  /\ At("after") /\ exc # "cancel"
  /\ Await(After)
  /\ Goto("last")
  /\ UNCHANGED <<app, exc, awaits, tmo, tpc, grp, prop, kid, doomed, late>>

Reraise ==
  /\ At("after") /\ exc = "cancel"
  /\ pc' = "raise"
  /\ Goto("last")
  /\ UNCHANGED <<futVars, bodyVars, mustCancel, futWaiter, numCancels, ca, app, exc, awaits, tmo,
                 tpc, grp, prop, kid, doomed, late>>

EndOfTask ==
  /\ \/ (At("last") \/ (At("after") /\ exc = "none")) /\ Return
     \/ At("after") /\ exc \notin {"none", "cancel"} /\ Fail
     \/ at = "last" /\ Escape
     \/ Settle
  /\ UNCHANGED scopeVars

-----------------------------------------------------------------------------
TimerStep(d) == OnTimeout(d) \/ OnTimeoutEnd(d)

KidStep(k) ==
  \/ KidEnds(k) \/ OnTaskDone(k) \/ CallbackAbort(k) \/ CallbackCancel(k) \/ CallbackCancelled(k)
  \/ CallbackWake(k) \/ CallbackSet(k)

GroupStep ==
  \/ GroupExit \/ GroupAbort \/ GroupLoop \/ GroupAwait \/ GroupWoken \/ GroupClear \/ GroupEnd
  \/ GroupUncancel \/ GroupUncancelled \/ GroupRaise \/ GroupAgain \/ GroupRecancel
  \/ GroupRecancelled

TaskStep ==
  \/ (AwaitStep \/ UncancelStep) /\ UNCHANGED scopeVars
  \/ Enter \/ GroupEnter \/ GroupStep \/ TimeoutExit \/ TimeoutUncancel \/ TimeoutEnd \/ Reraise \/ EndOfTask
  \/ \E k \in Kids : AddMember(k) \/ AddCallback(k)

\* What the coroutine decides for itself.
BodyStep == Extend \/ AwaitBody \/ CatchInBody \/ LeaveBody \/ AwaitAfter
             \/ \E k \in Kids : CreateTask(k)

Rest ==
  /\ pc = "done" \/ (pc = "parked" /\ fstate[fut] = "PENDING")
  /\ UNCHANGED vars

Next ==
  \/ TaskStep \/ BodyStep \/ OnTimeoutCancel
  \/ \E d \in Timers : Fire(d) \/ TimerStep(d)
  \/ \E k \in Kids : KidStep(k)
  \/ \E c \in Cancellers : CancelStep(c) /\ UNCHANGED scopeVars
  \/ \E o \in app.outsiders : Cancel(o) /\ UNCHANGED scopeVars
  \/ \E f \in Futs : (CompleteFuture(f) \/ WakeFuture(f)) /\ UNCHANGED scopeVars
  \/ Rest

Spec == Init /\ [][Next]_vars

\* Threads are scheduled fairly, kids end, and a completed future's event is set.
Fairness ==
  /\ WF_vars(TaskStep) /\ WF_vars(OnTimeoutCancel)
  /\ \A d \in Timers : WF_vars(TimerStep(d))
  /\ \A k \in Kids : WF_vars(KidStep(k))
  /\ \A c \in Cancellers : WF_vars(CancelStep(c) /\ UNCHANGED scopeVars)
  /\ \A f \in Futs : WF_vars(WakeFuture(f) /\ UNCHANGED scopeVars)

FairSpec == Spec /\ Fairness

-----------------------------------------------------------------------------
\* Properties.

\* The outsiders whose cancel the task has counted.
Counted == {o \in Outsiders : ca[o].pc \notin {"start", "count", "false"}}

\* The scopes take back their own cancels and no other: once the task has left them, the
\* count is that of the cancels from outside, and if there was none no cancel is due.  The
\* exceptions are a kid whose callback had still to cancel the task when it found the group
\* empty, two changes of the count that became one, and an exit for KeyboardInterrupt or
\* SystemExit, which does not stop to take a cancel back.
CancelContained ==
  pc = "run" /\ at \in {"after", "last"} /\ late = {} /\ ~clash /\ exc # "base"
    => /\ numCancels = Cardinality(Counted)
       /\ (\A o \in Outsiders : ca[o].pc = "start") => ~mustCancel

\* The task leaves the group only when every kid has ended and been reported, and no error
\* of a kid is lost.
GroupJoinsAll ==
  grp.gone => \A k \in Kids : kid[k].st # "unborn" =>
                Ended(k) /\ k \notin grp.members /\ (Failed(k) => k \in grp.errors)

\* Whatever cancels it meanwhile, the task that waits for the group is woken when it is empty.
GroupExits == (at = "g_exit") ~> grp.gone
=============================================================================
