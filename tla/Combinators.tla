---------------------------- MODULE Combinators ----------------------------
(***************************************************************************)
(* gather, wait, shield and wait_for(aw, 0) of src/mt_asyncio/asyncio/     *)
(* _ctl.py, sleep of _sleep.py, as_completed and run_coroutine_threadsafe  *)
(* of _utils.py: one caller, children that run and end on other workers    *)
(* from the moment they are created, their done callbacks, a timer, and a  *)
(* cancel of the caller.                                                   *)
(*                                                                         *)
(* How a cancel reaches an await is module TaskCancel; here it is one      *)
(* step.  The Queue of as_completed is module SyncPrimitives; here it is   *)
(* a sequence.  A callback that tests done() and is overtaken by a cancel  *)
(* raises InvalidStateError as its last action, which changes nothing.     *)
(***************************************************************************)
EXTENDS Integers, Sequences, FiniteSets

CONSTANTS Kids,  \* the children
          Apps   \* [kind, kids, mode : return_exceptions or return_when, timeout, cancel]

Modes == {"all", "return_exceptions", "FIRST_COMPLETED", "FIRST_EXCEPTION", "ALL_COMPLETED"}

\* A call without children returns or raises at once, and shield, wait_for and
\* run_coroutine_threadsafe take a single one.
ASSUME AppsAssumption ==
  /\ IsFiniteSet(Kids)
  /\ Apps \subseteq [kind : {"gather", "wait", "as_completed", "shield", "wait_for", "threadsafe",
                             "sleep"},
                     kids : SUBSET Kids, mode : Modes, timeout : BOOLEAN, cancel : BOOLEAN]
  /\ \A a \in Apps :
       /\ a.kind # "sleep" => a.kids # {}
       /\ a.kind \in {"shield", "wait_for", "threadsafe"} => Cardinality(a.kids) = 1

VARIABLES
  app,      \* the call
  st,       \* the state of each child
  creq,     \* the children that were asked to cancel
  cb,       \* where the done callback of each child is
  outer,    \* the future the caller awaits; "running" is a state of concurrent.futures only
  shared,   \* what the callbacks share: [settled, count, results], guarded by `lock`
  todo,     \* as_completed's set of futures
  items,    \* as_completed's queue; Timed stands for None
  timer,    \* the call_later, and the futures as_completed's _on_timeout has still to drop
  caller    \* [pc, due, exc, left, size, got]

combVars == <<app, st, creq, cb, outer, shared, todo, items, timer, caller>>

Timed == "None"

Ended(k)  == st[k] \in {"ok", "error", "cancelled"}
Failed(k) == st[k] \in {"error", "cancelled"}
At(l)     == caller.pc = l
Kind(s)   == app.kind \in s

CombTypeOK ==
  /\ app \in Apps
  /\ st \in [Kids -> {"unborn", "run", "ok", "error", "cancelled"}]
  /\ creq \subseteq Kids /\ todo \subseteq Kids
  /\ cb \in [Kids -> {"none", "added", "queued", "put", "chain", "removed", "end"}]
  /\ outer \in {"pending", "running", "result", "error", "cancelled"}
  /\ shared \in [settled : BOOLEAN, count : Nat, results : SUBSET Kids]
  /\ items \in Seq(Kids \cup {Timed})
  /\ timer \in [st : {"off", "armed", "dropping", "fired"}, left : SUBSET Kids]
  /\ caller \in [pc : {"ensure", "add", "await", "consume", "finally", "end"}, due : BOOLEAN,
                 exc : {"none", "error", "cancel", "timeout", "runtime"},
                 left : SUBSET Kids, size : Nat, got : SUBSET Kids]

CombInit ==
  /\ app \in Apps
  /\ st = [k \in Kids |-> "unborn"]
  /\ creq = {}
  /\ cb = [k \in Kids |-> "none"]
  /\ outer = "pending"
  /\ shared = [settled |-> FALSE, count |-> 0, results |-> {}]
  /\ todo = {}
  /\ items = <<>>
  /\ timer = [st |-> "off", left |-> {}]
  /\ caller = [pc |-> "ensure", due |-> FALSE, exc |-> "none", left |-> app.kids, size |-> 0,
               got |-> {}]

-----------------------------------------------------------------------------
\* The children.

\* A child ends cancelled because the combinator asked it to, because somebody else has
\* cancelled it, or by itself; one that was asked may end otherwise.
KidEnds(k) ==
  /\ st[k] = "run"
  /\ \E e \in {"ok", "error", "cancelled"} : st' = [st EXCEPT ![k] = e]
  /\ cb' = [cb EXCEPT ![k] = IF @ = "added" THEN "queued" ELSE @]
  /\ UNCHANGED <<app, creq, outer, shared, todo, items, timer, caller>>

\* ensure_future: the child runs from here on.
EnsureFuture(k) ==
  /\ At("ensure") /\ k \in caller.left
  /\ st' = [st EXCEPT ![k] = "run"]
  /\ caller' = [caller EXCEPT !.left = @ \ {k}]
  /\ UNCHANGED <<app, creq, cb, outer, shared, todo, items, timer>>

\* What result() of child k raises; c is what becomes of CancelledError.
Raised(k, c) == CASE st[k] = "error" -> "error" [] st[k] = "cancelled" -> c [] OTHER -> "none"

\* All children exist.  shield and wait_for return at once when theirs is done.
EnsureEnd ==
  /\ At("ensure") /\ caller.left = {}
  /\ IF Kind({"shield", "wait_for"}) /\ \E k \in app.kids : Ended(k)
       THEN \E k \in app.kids : caller' = [caller EXCEPT !.pc = "end", !.exc = Raised(k, "cancel")]
       ELSE caller' = [caller EXCEPT !.pc = "add", !.left = app.kids, !.size = Cardinality(app.kids)]
  /\ todo' = app.kids
  /\ UNCHANGED <<app, st, creq, cb, outer, shared, items, timer>>

\* add_done_callback: the callback of a child that has ended is scheduled at once.
Register(k) == cb' = [cb EXCEPT ![k] = IF Ended(k) THEN "queued" ELSE "added"]

\* The loop over the children.  as_completed runs it over the set its callbacks shrink: the
\* iterator raises RuntimeError when the size has changed.
AddCallback(k) ==
  /\ At("add") /\ k \in caller.left
  /\ IF Kind({"as_completed"}) /\ Cardinality(todo) # caller.size
       THEN caller' = [caller EXCEPT !.pc = "end", !.exc = "runtime"] /\ UNCHANGED cb
       ELSE Register(k) /\ caller' = [caller EXCEPT !.left = @ \ {k}]
  /\ UNCHANGED <<app, st, creq, outer, shared, todo, items, timer>>

\* After it: the timer, the cancel of wait_for's child, the await.  as_completed hands out
\* as many awaitables as its set still has.
AddEnd ==
  /\ At("add") /\ caller.left = {}
  /\ timer' = [timer EXCEPT !.st = IF app.timeout THEN "armed" ELSE "off"]
  /\ creq' = IF Kind({"wait_for"}) THEN app.kids ELSE creq
  /\ caller' = IF Kind({"as_completed"})
                 THEN [caller EXCEPT !.pc = "consume", !.size = Cardinality(todo)]
                 ELSE [caller EXCEPT !.pc = "await"]
  /\ UNCHANGED <<app, st, cb, outer, shared, todo, items>>

-----------------------------------------------------------------------------
\* The done callbacks.

\* set_result or set_exception of the future the caller awaits, unless it is done.
Complete(o) == outer' = IF outer = "pending" THEN o ELSE outer

\* Mutant: the last child but one counts as the last.
ChildDoneEarly(k) ==
  /\ cb[k] = "queued" /\ Kind({"gather"})
  /\ cb' = [cb EXCEPT ![k] = "end"]
  /\ shared' = [shared EXCEPT !.count = @ + 1, !.results = @ \cup {k}]
  /\ IF shared.count + 1 >= Cardinality(app.kids) - 1 THEN Complete("result") ELSE UNCHANGED outer
  /\ UNCHANGED <<app, st, creq, todo, items, timer, caller>>

\* gather's _child_done, under the lock: the first error settles it, or the last result.
ChildDone(k) ==
  LET last == shared.count + 1 = Cardinality(app.kids)
      fail == Failed(k) /\ app.mode # "return_exceptions" IN
  /\ cb[k] = "queued" /\ Kind({"gather"})
  /\ cb' = [cb EXCEPT ![k] = "end"]
  /\ IF shared.settled THEN UNCHANGED <<shared, outer>>
     ELSE IF fail
       THEN /\ shared' = [shared EXCEPT !.settled = TRUE]
            /\ Complete(IF st[k] = "cancelled" THEN "cancelled" ELSE "error")
       ELSE /\ shared' = [settled |-> last, count |-> shared.count + 1,
                          results |-> shared.results \cup {k}]
            /\ IF last THEN Complete("result") ELSE UNCHANGED outer
  /\ UNCHANGED <<app, st, creq, todo, items, timer, caller>>

\* Mutant: the flag is set before it is looked at.
ReleaseSettled(sh) ==
  /\ shared' = [sh EXCEPT !.settled = TRUE]
  /\ UNCHANGED outer

\* wait's _release, called with the lock: wake the caller, once.
ReleaseWaiter(sh) ==
  /\ shared' = [sh EXCEPT !.settled = TRUE]
  /\ IF sh.settled THEN UNCHANGED outer ELSE Complete("result")

\* wait's _on_done, under the lock.
OnDone(k) ==
  LET sh == [shared EXCEPT !.count = @ + 1] IN
  /\ cb[k] = "queued" /\ Kind({"wait"})
  /\ cb' = [cb EXCEPT ![k] = "end"]
  /\ IF \/ app.mode = "FIRST_COMPLETED"
        \/ app.mode = "FIRST_EXCEPTION" /\ Failed(k)
        \/ sh.count = Cardinality(app.kids)
       THEN ReleaseWaiter(sh)
       ELSE shared' = sh /\ UNCHANGED outer
  /\ UNCHANGED <<app, st, creq, todo, items, timer, caller>>

\* shield's _inner_done, and _release_waiter of wait_for.
InnerDone(k) ==
  /\ cb[k] = "queued" /\ Kind({"shield", "wait_for"})
  /\ cb' = [cb EXCEPT ![k] = "end"]
  /\ Complete(IF Kind({"wait_for"}) \/ st[k] = "ok" THEN "result" ELSE st[k])
  /\ UNCHANGED <<app, st, creq, shared, todo, items, timer, caller>>

\* as_completed's _on_completion, which no lock guards: the test and the discard, the put,
\* and the cancel of the timer.
OnCompletion(k) ==
  /\ cb[k] = "queued" /\ Kind({"as_completed"})
  /\ cb' = [cb EXCEPT ![k] = IF k \in todo THEN "put" ELSE "end"]
  /\ todo' = todo \ {k}
  /\ UNCHANGED <<app, st, creq, outer, shared, items, timer, caller>>

PutItem(k) ==
  /\ cb[k] = "put"
  /\ items' = Append(items, k)
  /\ cb' = [cb EXCEPT ![k] = "end"]
  /\ timer' = [timer EXCEPT !.st = IF todo = {} /\ @ = "armed" THEN "off" ELSE @]
  /\ UNCHANGED <<app, st, creq, outer, shared, todo, caller>>

\* run_coroutine_threadsafe's _chain: set_running_or_notify_cancel, then the outcome.
Chain(k) ==
  /\ Kind({"threadsafe"})
  /\ \/ /\ cb[k] = "queued"
        /\ cb' = [cb EXCEPT ![k] = IF outer = "cancelled" THEN "end" ELSE "chain"]
        /\ outer' = IF outer = "cancelled" THEN outer ELSE "running"
     \/ /\ cb[k] = "chain"
        /\ cb' = [cb EXCEPT ![k] = "end"]
        /\ outer' = CASE st[k] = "ok" -> "result" [] st[k] = "error" -> "error" [] OTHER -> outer
  /\ UNCHANGED <<app, st, creq, shared, todo, items, timer, caller>>

-----------------------------------------------------------------------------
\* The timer: _on_timeout of wait and of as_completed, _set_result_unless_done of sleep.

Timeout ==
  /\ timer.st = "armed" /\ Kind({"wait", "sleep"})
  /\ timer' = [timer EXCEPT !.st = "fired"]
  /\ IF Kind({"wait"}) THEN ReleaseWaiter(shared) ELSE Complete("result") /\ UNCHANGED shared
  /\ UNCHANGED <<app, st, creq, cb, todo, items, caller>>

\* as_completed: the list of the futures to do; each loses its callback and leaves a None;
\* then the set is cleared.
TimeoutList ==
  /\ timer.st = "armed" /\ Kind({"as_completed"})
  /\ timer' = [st |-> "dropping", left |-> todo]
  /\ UNCHANGED <<app, st, creq, cb, outer, shared, todo, items, caller>>

TimeoutDrop(k) ==
  /\ timer.st = "dropping" /\ k \in timer.left
  /\ timer' = [timer EXCEPT !.left = @ \ {k}]
  /\ cb' = [cb EXCEPT ![k] = IF @ = "added" THEN "removed" ELSE @]
  /\ items' = Append(items, Timed)
  /\ UNCHANGED <<app, st, creq, outer, shared, todo, caller>>

TimeoutClear ==
  /\ timer.st = "dropping" /\ timer.left = {}
  /\ timer' = [timer EXCEPT !.st = "fired"]
  /\ todo' = {}
  /\ UNCHANGED <<app, st, creq, cb, outer, shared, items, caller>>

-----------------------------------------------------------------------------
\* The caller's await, and what follows it.

\* A cancel of the caller: of the future it awaits, or of its next await.  The concurrent
\* future of run_coroutine_threadsafe is cancelled by the thread that holds it.
CancelCaller ==
  /\ ~caller.due /\ caller.exc = "none" /\ ~At("end") /\ app.cancel
  /\ Kind({"threadsafe"}) => At("await") /\ outer = "pending"
  /\ IF At("await") /\ outer = "pending"
       THEN outer' = "cancelled" /\ UNCHANGED caller
       ELSE caller' = [caller EXCEPT !.due = TRUE] /\ UNCHANGED outer
  /\ UNCHANGED <<app, st, creq, cb, shared, todo, items, timer>>

\* What the await raises: a cancel that is due, or the outcome of the future.
Outcome == CASE caller.due \/ outer = "cancelled" -> "cancel"
             [] outer = "error"                   -> "error"
             [] OTHER                             -> "none"

AwaitEnd ==
  /\ At("await")
  /\ caller.due \/ outer \notin {"pending", "running"}
  /\ caller' = [caller EXCEPT !.pc = "finally", !.due = FALSE, !.exc = Outcome, !.left = app.kids]
  /\ UNCHANGED <<app, st, creq, cb, outer, shared, todo, items, timer>>

\* Mutant: an early exit leaves the callbacks where they are.
FinallyLeaves(k) ==
  /\ At("finally") /\ k \in caller.left
  /\ caller' = [caller EXCEPT !.left = @ \ {k}]
  /\ UNCHANGED <<app, st, creq, cb, outer, shared, todo, items, timer>>

\* gather cancels its children when the await raised CancelledError; wait and wait_for take
\* their callbacks back.
Finally(k) ==
  /\ At("finally") /\ k \in caller.left
  /\ caller' = [caller EXCEPT !.left = @ \ {k}]
  /\ creq' = IF Kind({"gather"}) /\ caller.exc = "cancel" /\ ~Ended(k) THEN creq \cup {k} ELSE creq
  /\ cb' = [cb EXCEPT ![k] =
       IF Kind({"wait", "wait_for"}) /\ @ = "added" THEN "removed" ELSE @]
  /\ UNCHANGED <<app, st, outer, shared, todo, items, timer>>

\* The timer is cancelled; wait sorts its tasks by done(); wait_for reads the result of its
\* child, and raises TimeoutError when that was cancelled.
FinallyEnd ==
  /\ At("finally") /\ caller.left = {}
  /\ timer' = [timer EXCEPT !.st = IF @ = "armed" THEN "off" ELSE @]
  /\ \E x \in IF Kind({"wait_for"}) /\ caller.exc = "none"
                THEN {Raised(k, "timeout") : k \in app.kids} ELSE {caller.exc} :
       caller' = [caller EXCEPT !.pc = "end", !.exc = x, !.got = {k \in app.kids : Ended(k)}]
  /\ UNCHANGED <<app, st, creq, cb, outer, shared, todo, items>>

\* Each awaitable of as_completed takes one item of the queue.
Consume ==
  /\ At("consume")
  /\ \/ caller.size = 0 /\ caller' = [caller EXCEPT !.pc = "end"] /\ UNCHANGED items
     \/ /\ caller.size > 0 /\ items # <<>>
        /\ items' = Tail(items)
        /\ caller' = IF Head(items) = Timed
                       THEN [caller EXCEPT !.pc = "end", !.exc = "timeout"]
                       ELSE [caller EXCEPT !.size = @ - 1, !.got = @ \cup {Head(items)}]
  /\ UNCHANGED <<app, st, creq, cb, outer, shared, todo, timer>>

-----------------------------------------------------------------------------
CallerStep == EnsureEnd \/ AddEnd \/ AwaitEnd \/ FinallyEnd \/ Consume
               \/ \E k \in Kids : EnsureFuture(k) \/ AddCallback(k) \/ Finally(k)

CallbackStep(k) == KidEnds(k) \/ ChildDone(k) \/ OnDone(k) \/ InnerDone(k) \/ OnCompletion(k)
                    \/ PutItem(k) \/ Chain(k)

TimerStep == Timeout \/ TimeoutList \/ TimeoutClear \/ \E k \in Kids : TimeoutDrop(k)

CombNext == CallerStep \/ (\E k \in Kids : CallbackStep(k)) \/ TimerStep \/ CancelCaller

CombSpec == CombInit /\ [][CombNext]_combVars

\* Workers are scheduled fairly, children end and timers fire.
CombFairness ==
  /\ WF_combVars(CallerStep) /\ WF_combVars(TimerStep)
  /\ \A k \in Kids : WF_combVars(CallbackStep(k))

CombFairSpec == CombSpec /\ CombFairness

-----------------------------------------------------------------------------
\* Properties.

\* What the caller was promised holds when it is woken, however the callbacks overlap: all
\* results of gather are there, and good unless errors were asked for; wait's condition is
\* met or its time is over; the child of wait_for and of shield has ended.
NotEarly ==
  outer = "result" =>
    /\ Kind({"gather"}) => /\ shared.results = app.kids
                           /\ \A k \in app.kids : Ended(k) /\ (app.mode = "all" => st[k] = "ok")
    /\ Kind({"wait"}) =>
         \/ timer.st = "fired"
         \/ \A k \in app.kids : Ended(k)
         \/ app.mode = "FIRST_COMPLETED" /\ \E k \in app.kids : Ended(k)
         \/ app.mode = "FIRST_EXCEPTION" /\ \E k \in app.kids : Failed(k)
    /\ Kind({"wait_for", "shield", "threadsafe"}) => \A k \in app.kids : Ended(k)

\* A caller that leaves early leaves nothing behind: gather, when it was cancelled, has
\* cancelled every child that is still running, and wait and wait_for no callback registered.
CleanExit ==
  At("end") =>
    /\ Kind({"gather"}) /\ caller.exc = "cancel" => \A k \in app.kids : Ended(k) \/ k \in creq
    /\ Kind({"wait", "wait_for"}) => \A k \in app.kids : cb[k] # "added"

\* The caller returns: no completion, cancel or timeout that it waits for is lost.  The
\* exception is run_coroutine_threadsafe of a task that is cancelled: the concurrent future
\* is set running first, and cannot be cancelled any more.
CallerReturns ==
  At("await") \/ At("consume") ~>
    At("end") \/ (Kind({"threadsafe"}) /\ \E k \in app.kids : st[k] = "cancelled")
=============================================================================
