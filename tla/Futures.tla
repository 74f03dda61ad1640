------------------------------ MODULE Futures ------------------------------
(***************************************************************************)
(* Future of src/mt_asyncio/asyncio/_futures.py and the deferred wakes of  *)
(* src/mt_asyncio/asyncio/_wakes.py: completion by several threads at      *)
(* once, done callbacks, awaiters, and the regions in which a thread holds *)
(* back the wakes it causes until its protocol callback has returned.      *)
(*                                                                         *)
(* What a method does under the future's lock is one step; what it does    *)
(* after releasing the lock is further steps.  An awaiter is a task;       *)
(* it is resumed once the future's Event is set (module Suspension).       *)
(* The futures belong to one loop, which may be closed under them.         *)
(***************************************************************************)
EXTENDS Naturals, Sequences, FiniteSets, SequencesExt

CONSTANTS Threads,    \* the threads that complete futures and add callbacks
          Futs,       \* the futures
          Callbacks,  \* the callables that may be added, each once
          Awaiters,   \* the tasks that may await
          MaxDepth,   \* bound on the nesting of defer_wakes
          NoFuture    \* "no future"

ASSUME DepthAssumption == MaxDepth \in Nat
ASSUME FuturesAssumption == NoFuture \notin Futs
ASSUME WakesAssumption == Futs \cap Callbacks = {}

\* What a thread may owe: the event of a future, or a callback for the loop's queue.
Wakes == Futs \cup Callbacks

VARIABLES
  state,      \* Future._state
  event,      \* the flag of Future._event
  callbacks,  \* Future._callbacks
  added,      \* which future a callback was added to
  removed,    \* the callbacks remove_done_callback has taken out
  scheduled,  \* how often the runtime was given each callback to run
  dropped,    \* the callbacks a closed loop has refused (history)
  closed,     \* the loop's _closed
  depth,      \* _tls.depth
  pending,    \* _tls.pending: futures whose event is to be set, callbacks to be queued
  heldBy,     \* what a thread has woken in its current region (history)
  th,         \* what each thread is doing
  aw          \* what each awaiter is doing

futVars == <<state, event, callbacks>>
cbVars  == <<added, removed, scheduled, dropped>>
tlsVars == <<depth, pending, heldBy>>
vars    == <<futVars, cbVars, tlsVars, closed, th, aw>>

Idle == [pc |-> "idle"]
At(t, l)     == th[t].pc = l
Become(t, r) == th' = [th EXCEPT ![t] = r]
Done(f)      == state[f] # "PENDING"

\* The history of a region: t has woken W.
Held(t, W) == IF depth[t] > 0 THEN [heldBy EXCEPT ![t] = @ \cup W] ELSE heldBy

TypeOK ==
  /\ state \in [Futs -> {"PENDING", "FINISHED", "CANCELLED"}]
  /\ event \in [Futs -> BOOLEAN]
  /\ callbacks \in [Futs -> Seq(Callbacks)]
  /\ added \in [Callbacks -> Futs \cup {NoFuture}]
  /\ removed \subseteq Callbacks
  /\ scheduled \in [Callbacks -> 0..1]
  /\ dropped \subseteq Callbacks
  /\ closed \in BOOLEAN
  /\ depth \in [Threads -> 0..MaxDepth]
  /\ pending \in [Threads -> Seq(Wakes)]
  /\ heldBy \in [Threads -> SUBSET Wakes]
  /\ \A t \in Threads : th[t].pc \in {"idle", "wake", "callbacks", "flush"}
  /\ \A a \in Awaiters : aw[a].pc \in {"start", "parked", "read", "result", "cancelled"}

Init ==
  /\ state = [f \in Futs |-> "PENDING"]
  /\ event = [f \in Futs |-> FALSE]
  /\ callbacks = [f \in Futs |-> <<>>]
  /\ added = [c \in Callbacks |-> NoFuture]
  /\ removed = {}
  /\ scheduled = [c \in Callbacks |-> 0]
  /\ dropped = {}
  /\ closed = FALSE
  /\ depth = [t \in Threads |-> 0]
  /\ pending = [t \in Threads |-> <<>>]
  /\ heldBy = [t \in Threads |-> {}]
  /\ th = [t \in Threads |-> Idle]
  /\ aw = [a \in Awaiters |-> [pc |-> "start"]]

-----------------------------------------------------------------------------
\* Completion.

\* Mutant: the callbacks are not taken out of the future.
CompleteKeeping(t, f, s) ==
  /\ At(t, "idle")
  /\ state[f] = "PENDING"
  /\ state' = [state EXCEPT ![f] = s]
  /\ heldBy' = Held(t, {f} \cup ToSet(callbacks[f]))
  /\ Become(t, [pc |-> "wake", f |-> f, cbs |-> <<>>])
  /\ UNCHANGED <<event, callbacks, cbVars, depth, pending, closed, aw>>

\* set_result, set_exception and cancel of a pending future, under its lock; on a
\* completed one they change nothing.
Complete(t, f, s) ==
  /\ At(t, "idle")
  /\ state[f] = "PENDING"
  /\ state' = [state EXCEPT ![f] = s]
  /\ callbacks' = [callbacks EXCEPT ![f] = <<>>]
  /\ heldBy' = Held(t, {f} \cup ToSet(callbacks[f]))
  /\ Become(t, [pc |-> "wake", f |-> f, cbs |-> callbacks[f]])
  /\ UNCHANGED <<event, cbVars, depth, pending, closed, aw>>

\* _wake: set the event now, or leave it to the end of the region.
Wake(t) ==
  /\ At(t, "wake")
  /\ \/ /\ depth[t] = 0
        /\ event' = [event EXCEPT ![th[t].f] = TRUE]
        /\ UNCHANGED pending
     \/ /\ depth[t] > 0
        /\ pending' = [pending EXCEPT ![t] = Append(@, th[t].f)]
        /\ UNCHANGED event
  /\ Become(t, [pc |-> "callbacks", cbs |-> th[t].cbs])
  /\ UNCHANGED <<state, callbacks, cbVars, depth, heldBy, closed, aw>>

\* Mutant: call_soon queues the handle at once, region or not.
CallSoonAtOnce(t) ==
  /\ At(t, "callbacks")
  /\ IF th[t].cbs = <<>> \/ closed
       THEN Become(t, Idle) /\ dropped' = dropped \cup ToSet(th[t].cbs) /\ UNCHANGED scheduled
       ELSE /\ scheduled' = [scheduled EXCEPT ![Head(th[t].cbs)] = @ + 1]
            /\ Become(t, [th[t] EXCEPT !.cbs = Tail(@)])
            /\ UNCHANGED dropped
  /\ UNCHANGED <<futVars, added, removed, tlsVars, closed, aw>>

\* _run_callbacks: one call_soon after the other.  Each queues its handle now, or
\* leaves that too to the end of the region; that of a closed loop raises, and the
\* exception ends the caller's loop with the remaining callbacks still in it.
CallSoon(t) ==
  /\ At(t, "callbacks")
  /\ \/ /\ th[t].cbs = <<>>
        /\ Become(t, Idle)
        /\ UNCHANGED <<scheduled, dropped, pending>>
     \/ /\ th[t].cbs # <<>> /\ closed
        /\ dropped' = dropped \cup ToSet(th[t].cbs)
        /\ Become(t, Idle)
        /\ UNCHANGED <<scheduled, pending>>
     \/ /\ th[t].cbs # <<>> /\ ~closed
        /\ IF depth[t] = 0
             THEN /\ scheduled' = [scheduled EXCEPT ![Head(th[t].cbs)] = @ + 1]
                  /\ UNCHANGED pending
             ELSE /\ pending' = [pending EXCEPT ![t] = Append(@, Head(th[t].cbs))]
                  /\ UNCHANGED scheduled
        /\ Become(t, [th[t] EXCEPT !.cbs = Tail(@)])
        /\ UNCHANGED dropped
  /\ UNCHANGED <<futVars, added, removed, depth, heldBy, closed, aw>>

\* close() of the loop; what it releases is in Lifecycle and FdReadiness.
Close ==
  /\ ~closed
  /\ closed' = TRUE
  /\ UNCHANGED <<futVars, cbVars, tlsVars, th, aw>>

-----------------------------------------------------------------------------
\* Callbacks.

\* add_done_callback, under the lock; on a completed future call_soon follows.
AddDoneCallback(t, f, c) ==
  /\ At(t, "idle")
  /\ added[c] = NoFuture
  /\ added' = [added EXCEPT ![c] = f]
  /\ \/ /\ ~Done(f)
        /\ callbacks' = [callbacks EXCEPT ![f] = Append(@, c)]
        /\ UNCHANGED <<th, heldBy>>
     \/ /\ Done(f)
        /\ heldBy' = Held(t, {c})
        /\ Become(t, [pc |-> "callbacks", cbs |-> <<c>>])
        /\ UNCHANGED callbacks
  /\ UNCHANGED <<state, event, removed, scheduled, dropped, depth, pending, closed, aw>>

\* remove_done_callback, under the lock.  A callable is added once, so one entry goes.
RemoveDoneCallback(t, f, c) ==
  /\ At(t, "idle")
  /\ \E i \in 1 .. Len(callbacks[f]) :
       /\ callbacks[f][i] = c
       /\ callbacks' = [callbacks EXCEPT ![f] = RemoveAt(@, i)]
  /\ removed' = removed \cup {c}
  /\ UNCHANGED <<state, event, added, scheduled, dropped, tlsVars, closed, th, aw>>

-----------------------------------------------------------------------------
\* defer_wakes.

Enter(t) ==
  /\ At(t, "idle")
  /\ depth[t] < MaxDepth
  /\ depth' = [depth EXCEPT ![t] = @ + 1]
  /\ UNCHANGED <<futVars, cbVars, pending, heldBy, closed, th, aw>>

\* __exit__: only the outermost exit takes the pending wakes.
Leave(t) ==
  /\ At(t, "idle")
  /\ depth[t] > 0
  /\ depth' = [depth EXCEPT ![t] = @ - 1]
  /\ IF depth[t] = 1
       THEN /\ pending' = [pending EXCEPT ![t] = <<>>]
            /\ heldBy' = [heldBy EXCEPT ![t] = {}]
            /\ Become(t, [pc |-> "flush", wakes |-> pending[t]])
       ELSE UNCHANGED <<pending, heldBy, th>>
  /\ UNCHANGED <<futVars, cbVars, closed, aw>>

\* Mutant: the loop ends with the first wake, as if that had raised.
FlushFirst(t) ==
  /\ At(t, "flush")
  /\ \/ /\ th[t].wakes # <<>>
        /\ LET w == Head(th[t].wakes) IN
             \/ w \in Futs /\ event' = [event EXCEPT ![w] = TRUE] /\ UNCHANGED scheduled
             \/ w \in Callbacks /\ scheduled' = [scheduled EXCEPT ![w] = @ + 1] /\ UNCHANGED event
     \/ th[t].wakes = <<>> /\ UNCHANGED <<event, scheduled>>
  /\ Become(t, Idle)
  /\ UNCHANGED <<state, callbacks, added, removed, dropped, tlsVars, closed, aw>>

\* ... and runs them one after the other, on a closed loop too.
Flush(t) ==
  /\ At(t, "flush")
  /\ \/ /\ th[t].wakes # <<>>
        /\ LET w == Head(th[t].wakes) IN
             \/ w \in Futs /\ event' = [event EXCEPT ![w] = TRUE] /\ UNCHANGED scheduled
             \/ w \in Callbacks /\ scheduled' = [scheduled EXCEPT ![w] = @ + 1] /\ UNCHANGED event
        /\ Become(t, [th[t] EXCEPT !.wakes = Tail(@)])
     \/ /\ th[t].wakes = <<>>
        /\ Become(t, Idle)
        /\ UNCHANGED <<event, scheduled>>
  /\ UNCHANGED <<state, callbacks, added, removed, dropped, tlsVars, closed, aw>>

-----------------------------------------------------------------------------
\* Future.__await__, run by task a (what it does for the task's own cancellation is
\* in TaskCancel).

Await(a, f) ==
  /\ aw[a].pc = "start"
  /\ aw' = [aw EXCEPT ![a] = [pc |-> IF event[f] THEN "read" ELSE "parked", f |-> f]]
  /\ UNCHANGED <<futVars, cbVars, tlsVars, closed, th>>

Resume(a) ==
  /\ aw[a].pc = "parked"
  /\ event[aw[a].f]
  /\ aw' = [aw EXCEPT ![a].pc = "read"]
  /\ UNCHANGED <<futVars, cbVars, tlsVars, closed, th>>

\* _read, under the lock; "invalid" would be its InvalidStateError.
Read(a) ==
  /\ aw[a].pc = "read"
  /\ aw' = [aw EXCEPT ![a].pc = IF state[aw[a].f] = "FINISHED" THEN "result"
                                ELSE IF state[aw[a].f] = "CANCELLED" THEN "cancelled"
                                ELSE "invalid"]
  /\ UNCHANGED <<futVars, cbVars, tlsVars, closed, th>>

-----------------------------------------------------------------------------
\* What a thread does once it is inside a call.
Continue(t) == Wake(t) \/ CallSoon(t) \/ Flush(t)

Next ==
  \/ \E t \in Threads :
       \/ Continue(t) \/ Enter(t) \/ Leave(t)
       \/ \E f \in Futs :
            \/ \E s \in {"FINISHED", "CANCELLED"} : Complete(t, f, s)
            \/ \E c \in Callbacks : AddDoneCallback(t, f, c) \/ RemoveDoneCallback(t, f, c)
  \/ Close
  \/ \E a \in Awaiters : Resume(a) \/ Read(a) \/ \E f \in Futs : Await(a, f)

Spec == Init /\ [][Next]_vars

\* Threads are scheduled fairly, a callback returns after finitely many nested
\* regions, and a resumed task is run.
Fairness ==
  /\ \A t \in Threads :
       WF_vars(Continue(t)) /\ WF_vars(Leave(t)) /\ SF_vars(depth[t] = 1 /\ Leave(t))
  /\ \A a \in Awaiters : WF_vars(Resume(a)) /\ WF_vars(Read(a))

FairSpec == Spec /\ Fairness

-----------------------------------------------------------------------------
\* Properties.

Count(c, seq) == Cardinality({i \in DOMAIN seq : seq[i] = c})

\* The threads that have taken a callback out of its future and are about to call
\* call_soon with it, and those whose region holds back the handle call_soon made.
InHand(c) == {t \in Threads : th[t].pc \in {"wake", "callbacks"} /\ c \in ToSet(th[t].cbs)}
Deferred(c) ==
  {t \in Threads : c \in ToSet(pending[t]) \/ (At(t, "flush") /\ c \in ToSet(th[t].wakes))}

\* Every callback added and not removed gets to the runtime exactly once: it is in the
\* list of its future, which is then pending, or in the hand of one thread, or held
\* back by the region of one thread, or scheduled, and only ever one of them.  Only a
\* closed loop drops one instead.
CallbackOnce ==
  /\ \A c \in Callbacks :
       LET listed == IF added[c] = NoFuture THEN 0 ELSE Count(c, callbacks[added[c]]) IN
       /\ listed + Cardinality(InHand(c)) + Cardinality(Deferred(c)) + scheduled[c]
            = IF added[c] = NoFuture \/ c \in removed \cup dropped THEN 0 ELSE 1
       /\ listed = 1 => ~Done(added[c])
  /\ dropped # {} => closed

\* A callback finishes before anything it woke runs: no task is resumed by a future
\* that a thread completed inside a region that thread has not left, and no done
\* callback that became due there is queued.  The region is the outermost one, as the
\* code of __exit__ and the docstring of _DeferWakes have it; the docstring of
\* pending_wakes (_wakes.py:51) says the innermost, and a wake may be held longer
\* than that says.
HeldUntilRegionEnds ==
  \A t \in Threads :
    /\ \A f \in heldBy[t] \cap Futs : ~event[f]
    /\ \A c \in heldBy[t] \cap Callbacks : scheduled[c] = 0

\* A wake is held back but never lost: an awaiter of a completed future gets its
\* outcome.
AwaiterResumes ==
  \A a \in Awaiters, f \in Futs :
    (aw[a].pc = "parked" /\ aw[a].f = f /\ Done(f)) ~> aw[a].pc \in {"result", "cancelled"}
=============================================================================
