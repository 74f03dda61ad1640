----------------------------- MODULE TaskCancel -----------------------------
(***************************************************************************)
(* Task.cancel against the task it cancels: src/mt_asyncio/asyncio/        *)
(* _tasks.py, and what Future.__await__ of _futures.py does for the task   *)
(* that awaits.  The task runs on one worker at a time; other threads call *)
(* cancel and complete the futures it awaits.                              *)
(*                                                                         *)
(* The module has the steps of the task and of a cancel; Scopes has the    *)
(* coroutine, which catches and calls uncancel through its scopes. *)
(*                                                                         *)
(* What is done under a lock is one step.  `_num_cancels_requested` is     *)
(* incremented without one, as a load and a store: there is no GIL.        *)
(***************************************************************************)
EXTENDS Integers, FiniteSets

CONSTANTS Futs,        \* the futures the task may await
          Completable, \* those of them that somebody completes
          Cancellers,  \* the threads that call cancel, each once
          NoFuture     \* None

ASSUME FutsAssumption  == NoFuture \notin Futs /\ Completable \subseteq Futs

VARIABLES
  fstate,      \* Future._state of the futures
  fevent,      \* the flag of their events
  tstate,      \* the task's own _state; "FAILED" is FINISHED with an exception
  mustCancel,  \* Task._must_cancel
  futWaiter,   \* Task._fut_waiter
  numCancels,  \* Task._num_cancels_requested
  pc,          \* where the task is
  fut,         \* the future it awaits
  loaded,      \* the count uncancel has loaded
  clash,       \* whether a store of the count has overwritten another one
  ca           \* what each canceller is doing

futVars  == <<fstate, fevent>>
bodyVars == <<tstate, fut, loaded, clash>>
taskVars == <<bodyVars, mustCancel, futWaiter, numCancels, pc>>
cancelVars == <<futVars, taskVars, ca>>

States  == {"PENDING", "FINISHED", "FAILED", "CANCELLED"}
TaskPCs == {"run", "arm", "parked", "unarm", "ready", "read", "raise", "uncancel",
            "uncancel_test", "withdraw", "settle_result", "settle_error", "settle_cancel", "done"}
CancelPCs == {"start", "count", "look", "cancel", "deliver", "true", "false"}

TaskTypeOK ==
  /\ fstate \in [Futs -> States]
  /\ fevent \in [Futs -> BOOLEAN]
  /\ tstate \in States
  /\ mustCancel \in BOOLEAN
  /\ futWaiter \in Futs \cup {NoFuture}
  /\ numCancels \in Nat
  /\ pc \in TaskPCs
  /\ fut \in Futs \cup {NoFuture}
  /\ loaded \in Nat
  /\ clash \in BOOLEAN
  /\ \A c \in Cancellers : ca[c].pc \in CancelPCs
  /\ pc \in {"arm", "parked", "unarm", "ready", "read"} => fut # NoFuture

TaskInit ==
  /\ fstate = [f \in Futs |-> "PENDING"]
  /\ fevent = [f \in Futs |-> FALSE]
  /\ tstate = "PENDING"
  /\ mustCancel = FALSE
  /\ futWaiter = NoFuture
  /\ numCancels = 0
  /\ pc = "run"
  /\ fut = NoFuture
  /\ loaded = 0
  /\ clash = FALSE
  /\ ca = [c \in Cancellers |-> [pc |-> "start", n |-> 0, f |-> NoFuture]]

-----------------------------------------------------------------------------
\* Future.__await__, run by the task.

Await(f) ==
  /\ pc = "run"
  /\ fut' = f
  /\ pc' = IF fevent[f] THEN "ready" ELSE "arm"
  /\ UNCHANGED <<futVars, tstate, loaded, clash, mustCancel, futWaiter, numCancels, ca>>

\* A cancel that is due is raised here instead of suspending.
RaiseDue ==
  /\ mustCancel
  /\ mustCancel' = FALSE
  /\ pc' = "raise"
  /\ UNCHANGED <<futVars, tstate, fut, loaded, clash, futWaiter, numCancels, ca>>

\* Mutant: the waiter is recorded before the check that may raise.
ArmFirst ==
  /\ pc = "arm"
  /\ futWaiter' = fut
  /\ \/ /\ mustCancel
        /\ mustCancel' = FALSE
        /\ pc' = "raise"
     \/ /\ ~mustCancel
        /\ pc' = "parked"
        /\ UNCHANGED mustCancel
  /\ UNCHANGED <<futVars, tstate, fut, loaded, clash, numCancels, ca>>

\* Mutant: the await does not look whether a cancel is due.
ArmUnchecked ==
  /\ pc = "arm"
  /\ futWaiter' = fut
  /\ pc' = "parked"
  /\ UNCHANGED <<futVars, bodyVars, mustCancel, numCancels, ca>>

\* The future was not completed: record it, under the task's lock, and suspend.
Arm ==
  /\ pc = "arm"
  /\ \/ RaiseDue
     \/ /\ ~mustCancel
        /\ futWaiter' = fut
        /\ pc' = "parked"
        /\ UNCHANGED <<futVars, bodyVars, mustCancel, numCancels, ca>>

\* The future was completed: a cancel that is due wins over its result.
Ready ==
  /\ pc = "ready"
  /\ \/ RaiseDue
     \/ /\ ~mustCancel
        /\ pc' = "read"
        /\ UNCHANGED <<futVars, bodyVars, mustCancel, futWaiter, numCancels, ca>>

\* The event's waker puts the task back on a worker.
Resume ==
  /\ pc = "parked"
  /\ fevent[fut]
  /\ pc' = "unarm"
  /\ UNCHANGED <<futVars, bodyVars, mustCancel, futWaiter, numCancels, ca>>

Unarm ==
  /\ pc = "unarm"
  /\ futWaiter' = NoFuture
  /\ pc' = "read"
  /\ UNCHANGED <<futVars, bodyVars, mustCancel, numCancels, ca>>

Read ==
  /\ pc = "read"
  /\ pc' = IF fstate[fut] = "CANCELLED" THEN "raise" ELSE "run"
  /\ UNCHANGED <<futVars, bodyVars, mustCancel, futWaiter, numCancels, ca>>

-----------------------------------------------------------------------------
\* The coroutine catches the error, or lets it out; uncancel; Task._runner.

Catch ==
  /\ pc = "raise"
  /\ pc' = "run"
  /\ UNCHANGED <<futVars, bodyVars, mustCancel, futWaiter, numCancels, ca>>

\* uncancel, called by the task: the load of the count, the store of one less, the test
\* for zero and, at zero, the withdrawal under the lock of a cancel that has not been
\* delivered.
Uncancel ==
  /\ pc = "run"
  /\ numCancels > 0
  /\ loaded' = numCancels
  /\ pc' = "uncancel"
  /\ UNCHANGED <<futVars, tstate, fut, clash, mustCancel, futWaiter,
                 numCancels, ca>>

UncancelStore ==
  /\ pc = "uncancel"
  /\ numCancels' = loaded - 1
  /\ clash' = (clash \/ numCancels # loaded)
  /\ pc' = "uncancel_test"
  /\ UNCHANGED <<futVars, tstate, fut, loaded, mustCancel, futWaiter, ca>>

UncancelTest ==
  /\ pc = "uncancel_test"
  /\ pc' = IF numCancels = 0 THEN "withdraw" ELSE "run"
  /\ UNCHANGED <<futVars, bodyVars, mustCancel, futWaiter, numCancels, ca>>

Withdraw ==
  /\ pc = "withdraw"
  /\ mustCancel' = FALSE
  /\ pc' = "run"
  /\ UNCHANGED <<futVars, bodyVars, futWaiter, numCancels, ca>>

\* _runner: the coroutine let the CancelledError out.
Escape ==
  /\ pc = "raise"
  /\ pc' = "settle_cancel"
  /\ UNCHANGED <<futVars, bodyVars, mustCancel, futWaiter, numCancels, ca>>

\* _runner: the coroutine raised something else.
Fail ==
  /\ pc = "run"
  /\ pc' = "settle_error"
  /\ UNCHANGED <<futVars, bodyVars, mustCancel, futWaiter, numCancels, ca>>

\* _runner: the coroutine returned; a cancel that is due is taken, under the lock.
Return ==
  /\ pc = "run"
  /\ mustCancel' = FALSE
  /\ pc' = IF mustCancel THEN "settle_cancel" ELSE "settle_result"
  /\ UNCHANGED <<futVars, bodyVars, futWaiter, numCancels, ca>>

\* Future.cancel, set_exception or set_result of the task itself.
Settle ==
  /\ \/ pc = "settle_cancel" /\ tstate' = "CANCELLED"
     \/ pc = "settle_error" /\ tstate' = "FAILED"
     \/ pc = "settle_result" /\ tstate' = "FINISHED"
  /\ pc' = "done"
  /\ UNCHANGED <<futVars, fut, loaded, clash, mustCancel, futWaiter, numCancels, ca>>

-----------------------------------------------------------------------------
\* Task.cancel, called by c.

CGoto(c, l) == ca' = [ca EXCEPT ![c].pc = l]

\* done(), and the load of the count.
Cancel(c) ==
  /\ ca[c].pc = "start"
  /\ ca' = [ca EXCEPT ![c] = [pc |-> IF tstate # "PENDING" THEN "false" ELSE "count",
                              n |-> numCancels, f |-> @.f]]
  /\ UNCHANGED <<futVars, taskVars>>

CancelCount(c) ==
  /\ ca[c].pc = "count"
  /\ numCancels' = ca[c].n + 1
  /\ clash' = (clash \/ numCancels # ca[c].n)
  /\ CGoto(c, "look")
  /\ UNCHANGED <<futVars, tstate, fut, loaded, mustCancel, futWaiter, pc>>

\* Under the task's lock: the future it is parked on, or a cancel for its next await.
CancelLook(c) ==
  /\ ca[c].pc = "look"
  /\ IF futWaiter = NoFuture
       THEN mustCancel' = TRUE /\ CGoto(c, "true")
       ELSE /\ ca' = [ca EXCEPT ![c] = [pc |-> "cancel", n |-> @.n, f |-> futWaiter]]
            /\ UNCHANGED mustCancel
  /\ UNCHANGED <<futVars, bodyVars, futWaiter, numCancels, pc>>

\* fut_waiter.cancel, under the future's lock.
CancelFuture(c) ==
  /\ ca[c].pc = "cancel"
  /\ IF fstate[ca[c].f] = "PENDING"
       THEN fstate' = [fstate EXCEPT ![ca[c].f] = "CANCELLED"] /\ CGoto(c, "true")
       ELSE UNCHANGED fstate /\ CGoto(c, "deliver")
  /\ UNCHANGED <<fevent, taskVars>>

\* The future had already completed.
CancelDeliver(c) ==
  /\ ca[c].pc = "deliver"
  /\ mustCancel' = TRUE
  /\ CGoto(c, "true")
  /\ UNCHANGED <<futVars, bodyVars, futWaiter, numCancels, pc>>

\* The owner of the future completes it unless it is done, like the timer of a sleep; and the
\* set of the event of any future that is completed (Future._wake, at once or at the end of a
\* callback).
CompleteFuture(f) ==
  /\ f \in Completable
  /\ fstate[f] = "PENDING"
  /\ fstate' = [fstate EXCEPT ![f] = "FINISHED"]
  /\ UNCHANGED <<fevent, taskVars, ca>>

WakeFuture(f) ==
  /\ fstate[f] # "PENDING"
  /\ ~fevent[f]
  /\ fevent' = [fevent EXCEPT ![f] = TRUE]
  /\ UNCHANGED <<fstate, taskVars, ca>>

-----------------------------------------------------------------------------
CancelStep(c) == CancelCount(c) \/ CancelLook(c) \/ CancelFuture(c) \/ CancelDeliver(c)

\* The steps of the task that do not depend on what its coroutine wants.
AwaitStep    == Arm \/ Ready \/ Resume \/ Unarm \/ Read
UncancelStep == UncancelStore \/ UncancelTest \/ Withdraw

-----------------------------------------------------------------------------
\* Properties.

Returned == {c \in Cancellers : ca[c].pc = "true"}
CancelQuiet == \A c \in Cancellers : ca[c].pc \in {"start", "true", "false"}

\* cancel never cancels a future the task has left: the future it completes is the
\* one the task is suspended on at that moment.
CancelHitsTheAwait ==
  [][\A f \in Futs : fstate[f] = "PENDING" /\ fstate'[f] = "CANCELLED"
                       => pc = "parked" /\ fut = f]_cancelVars

\* There is only one way to miss a cancel: when every call of cancel has returned and
\* the task is suspended with a cancel due, some cancel found it at an earlier await,
\* whose future was completed by somebody else first.
MissedOnlyWhenMoved ==
  CancelQuiet /\ pc = "parked" /\ fstate[fut] = "PENDING" /\ mustCancel
    => \E c \in Returned : ca[c].f \notin {NoFuture, fut} /\ fstate[ca[c].f] # "PENDING"
=============================================================================
