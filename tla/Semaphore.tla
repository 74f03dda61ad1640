----------------------------- MODULE Semaphore -----------------------------
(***************************************************************************)
(* Semaphore of src/mt_asyncio/asyncio/_sync.py, and Lock, whose acquire   *)
(* and release take the same steps with `not _locked` for one permit:      *)
(* tasks on several workers acquire and release while other threads cancel *)
(* them.                                                                   *)
(*                                                                         *)
(* acquire and the handler of its CancelledError are critical sections of  *)
(* the primitive's mutex and single steps.  release is several: completing *)
(* a waiter takes the waiter's lock, and a cancel takes only that one.     *)
(* The state of a future and its event are one here (module Futures has    *)
(* them apart): an awaiter between the two raises a cancel that is due     *)
(* either way.  The k-th call of acquire queues future k.                  *)
(***************************************************************************)
EXTENDS Integers, Sequences, FiniteSets

CONSTANTS Tasks,        \* the tasks
          Cancellers,   \* the threads that call Task.cancel, each once
          Permits,      \* the initial value
          MaxAcquires,  \* bound on the calls of acquire
          None          \* "nobody", "no future"

ASSUME SizeAssumption == Permits \in Nat /\ MaxAcquires \in Nat
ASSUME TasksAssumption == IsFiniteSet(Tasks) /\ None \notin Tasks

Futs == 1..MaxAcquires

ASSUME NoneAssumption == None \notin Futs

VARIABLES
  value,       \* Semaphore._value; 0 and 1 are Lock._locked and its negation
  waiters,     \* _waiters
  mu,          \* the task that holds _mu over several steps
  fstate,      \* Future._state of the waiters' futures
  pc,          \* where each task is
  fut,         \* the future of its last acquire
  begun,       \* how many calls of acquire have begun
  offered,     \* the future a release is about to complete
  mustCancel,  \* Task._must_cancel
  ca,          \* what each canceller is doing: its pc, and the task and the future in its hand
  errors       \* how many releases raised InvalidStateError

semVars  == <<value, waiters, mu>>
taskVars == <<pc, fut, begun, offered>>
vars     == <<semVars, taskVars, fstate, mustCancel, ca, errors>>

TaskPCs   == {"out", "await", "parked", "except", "hold", "giveback", "release", "set"}
CancelPCs == {"start", "cancel", "end"}

Canceller(l, t, f) == [pc |-> l, t |-> t, f |-> f]

TypeOK ==
  /\ value \in Nat
  /\ waiters \in Seq(Futs)
  /\ mu \in Tasks \cup {None}
  /\ fstate \in [Futs -> {"PENDING", "FINISHED", "CANCELLED"}]
  /\ pc \in [Tasks -> TaskPCs]
  /\ fut \in [Tasks -> Futs \cup {None}]
  /\ begun \in 0..MaxAcquires
  /\ offered \in [Tasks -> Futs \cup {None}]
  /\ mustCancel \in [Tasks -> BOOLEAN]
  /\ ca \in [Cancellers -> [pc : CancelPCs, t : Tasks \cup {None}, f : Futs \cup {None}]]
  /\ errors \in Nat

Init ==
  /\ value = Permits
  /\ waiters = <<>>
  /\ mu = None
  /\ fstate = [f \in Futs |-> "PENDING"]
  /\ pc = [t \in Tasks |-> "out"]
  /\ fut = [t \in Tasks |-> None]
  /\ begun = 0
  /\ offered = [t \in Tasks |-> None]
  /\ mustCancel = [t \in Tasks |-> FALSE]
  /\ ca = [c \in Cancellers |-> Canceller("start", None, None)]
  /\ errors = 0

Goto(t, l) == pc' = [pc EXCEPT ![t] = l]
Queued(f)  == \E i \in DOMAIN waiters : waiters[i] = f

\* deque.remove of the i-th element.
Without(s, i) == [j \in 1 .. (Len(s) - 1) |-> IF j < i THEN s[j] ELSE s[j + 1]]

Pending(f) == fstate[f] = "PENDING"

-----------------------------------------------------------------------------
\* acquire.

\* Under _mu: take a permit, or queue a future.
Acquire(t) ==
  /\ pc[t] = "out"
  /\ begun < MaxAcquires
  /\ mu = None
  /\ begun' = begun + 1
  /\ fut' = [fut EXCEPT ![t] = begun + 1]
  /\ \/ /\ value > 0 /\ waiters = <<>>
        /\ value' = value - 1
        /\ Goto(t, "hold")
        /\ UNCHANGED waiters
     \/ /\ value = 0 \/ waiters # <<>>
        /\ waiters' = Append(waiters, begun + 1)
        /\ Goto(t, "await")
        /\ UNCHANGED value
  /\ UNCHANGED <<mu, offered, fstate, mustCancel, ca, errors>>

\* `await fut` up to its suspension: a cancel that is due is raised instead, whether or
\* not the permit has been handed over meanwhile.
Arm(t) ==
  /\ pc[t] = "await"
  /\ mustCancel' = [mustCancel EXCEPT ![t] = FALSE]
  /\ Goto(t, IF mustCancel[t] THEN "except" ELSE IF Pending(fut[t]) THEN "parked" ELSE "hold")
  /\ UNCHANGED <<semVars, fut, begun, offered, fstate, ca, errors>>

\* ... and from its resumption on.
Resume(t) ==
  /\ pc[t] = "parked"
  /\ \/ fstate[fut[t]] = "FINISHED" /\ Goto(t, "hold")
     \/ fstate[fut[t]] = "CANCELLED" /\ Goto(t, "except")
  /\ UNCHANGED <<semVars, fut, begun, offered, fstate, mustCancel, ca, errors>>

\* Mutant: a permit handed over to a task that is being cancelled is dropped.
ExceptDropping(t) ==
  /\ pc[t] = "except"
  /\ mu = None
  /\ \/ \E i \in DOMAIN waiters : waiters[i] = fut[t] /\ waiters' = Without(waiters, i)
     \/ ~Queued(fut[t]) /\ UNCHANGED waiters
  /\ Goto(t, "out")
  /\ UNCHANGED <<value, mu, fut, begun, offered, fstate, mustCancel, ca, errors>>

\* The handler of CancelledError, under _mu: leave the queue or, when a release has
\* already popped the future and completed it, hand the permit on.
Except(t) ==
  /\ pc[t] = "except"
  /\ mu = None
  /\ \/ /\ \E i \in DOMAIN waiters : waiters[i] = fut[t] /\ waiters' = Without(waiters, i)
        /\ Goto(t, "out")
     \/ /\ ~Queued(fut[t])
        /\ Goto(t, IF fstate[fut[t]] = "FINISHED" THEN "giveback" ELSE "out")
        /\ UNCHANGED waiters
  /\ UNCHANGED <<value, mu, fut, begun, offered, fstate, mustCancel, ca, errors>>

\* A cancel that is due is raised at another await of the task.
OtherAwait(t) ==
  /\ pc[t] \in {"out", "hold"}
  /\ mustCancel[t]
  /\ mustCancel' = [mustCancel EXCEPT ![t] = FALSE]
  /\ UNCHANGED <<semVars, taskVars, fstate, ca, errors>>

-----------------------------------------------------------------------------
\* release, by a task that holds a permit or gives back one it was handed.

Release(t) ==
  /\ pc[t] \in {"hold", "giveback"}
  /\ mu = None
  /\ mu' = t
  /\ Goto(t, "release")
  /\ UNCHANGED <<value, waiters, fut, begun, offered, fstate, mustCancel, ca, errors>>

\* What BoundedSemaphore.release looks at before the same loop, and answers with ValueError.
OverReleased == waiters = <<>> /\ value >= Permits

\* Mutant: the loop stops at the first waiter, cancelled or not.
ReleasePopOnce(t) ==
  /\ pc[t] = "release"
  /\ waiters # <<>>
  /\ waiters' = Tail(waiters)
  /\ IF Pending(Head(waiters))
       THEN offered' = [offered EXCEPT ![t] = Head(waiters)] /\ Goto(t, "set") /\ UNCHANGED <<value, mu>>
       ELSE value' = value + 1 /\ mu' = None /\ Goto(t, "out") /\ UNCHANGED offered
  /\ UNCHANGED <<fut, begun, fstate, mustCancel, ca, errors>>

\* popleft and done(): a waiter that is done is skipped.
ReleasePop(t) ==
  /\ pc[t] = "release"
  /\ waiters # <<>>
  /\ waiters' = Tail(waiters)
  /\ IF Pending(Head(waiters))
       THEN offered' = [offered EXCEPT ![t] = Head(waiters)] /\ Goto(t, "set")
       ELSE UNCHANGED <<offered, pc>>
  /\ UNCHANGED <<value, mu, fut, begun, fstate, mustCancel, ca, errors>>

\* set_result, under the future's lock: the permit changes hands; or the future has
\* been cancelled since done() and InvalidStateError leaves release.
ReleaseSet(t) ==
  /\ pc[t] = "set"
  /\ IF Pending(offered[t])
       THEN fstate' = [fstate EXCEPT ![offered[t]] = "FINISHED"] /\ UNCHANGED errors
       ELSE errors' = errors + 1 /\ UNCHANGED fstate
  /\ offered' = [offered EXCEPT ![t] = None]
  /\ mu' = None
  /\ Goto(t, "out")
  /\ UNCHANGED <<value, waiters, fut, begun, mustCancel, ca>>

\* Nobody is left to take the permit.
ReleaseEnd(t) ==
  /\ pc[t] = "release"
  /\ waiters = <<>>
  /\ value' = value + 1
  /\ mu' = None
  /\ Goto(t, "out")
  /\ UNCHANGED <<waiters, fut, begun, offered, fstate, mustCancel, ca, errors>>

-----------------------------------------------------------------------------
\* Task.cancel of t by c: under the task's lock, the future it is parked on or a cancel
\* for its next await; then cancel of that future, under its lock (module TaskCancel).

Cancel(c, t) ==
  /\ ca[c].pc = "start"
  /\ IF pc[t] = "parked"
       THEN ca' = [ca EXCEPT ![c] = Canceller("cancel", t, fut[t])] /\ UNCHANGED mustCancel
       ELSE /\ ca' = [ca EXCEPT ![c] = Canceller("end", None, None)]
            /\ mustCancel' = [mustCancel EXCEPT ![t] = TRUE]
  /\ UNCHANGED <<semVars, taskVars, fstate, errors>>

CancelFuture(c) ==
  LET f == ca[c].f IN
  /\ ca[c].pc = "cancel"
  /\ IF Pending(f)
       THEN fstate' = [fstate EXCEPT ![f] = "CANCELLED"] /\ UNCHANGED mustCancel
       ELSE mustCancel' = [mustCancel EXCEPT ![ca[c].t] = TRUE] /\ UNCHANGED fstate
  /\ ca' = [ca EXCEPT ![c] = Canceller("end", None, None)]
  /\ UNCHANGED <<semVars, taskVars, errors>>

-----------------------------------------------------------------------------
\* A task that waits or holds goes on; whether it acquires again is up to it.
TaskStep(t) ==
  \/ Arm(t) \/ Resume(t) \/ Except(t)
  \/ Release(t) \/ ReleasePop(t) \/ ReleaseSet(t) \/ ReleaseEnd(t)

\* Nothing is left to do but wait for a permit.
Rest ==
  /\ \A t \in Tasks : \/ pc[t] = "out" /\ begun = MaxAcquires
                      \/ pc[t] = "parked" /\ Pending(fut[t])
  /\ UNCHANGED vars

Next ==
  \/ \E t \in Tasks : TaskStep(t) \/ Acquire(t) \/ OtherAwait(t)
  \/ \E c \in Cancellers : CancelFuture(c) \/ \E t \in Tasks : Cancel(c, t)
  \/ Rest

Spec == Init /\ [][Next]_vars

\* Tasks are run fairly, holders release, and a mutex that is free is granted.
Fairness ==
  /\ \A t \in Tasks : WF_vars(TaskStep(t))
  /\ \A c \in Cancellers : WF_vars(CancelFuture(c))

FairSpec == Spec /\ Fairness

-----------------------------------------------------------------------------
\* Properties.

\* The tasks that own a permit: they hold it, are giving it on, or have been handed it
\* and have not resumed.
Holding == {t \in Tasks : pc[t] \in {"hold", "giveback", "release", "set"}}
Handed  == {t \in Tasks : pc[t] \in {"await", "parked", "except"} /\ fstate[fut[t]] = "FINISHED"}

\* A cancelled waiter leaks no permit: free permits and owned ones are always as many
\* as at the beginning.
NoPermitLeak == value + Cardinality(Holding) + Cardinality(Handed) = Permits

\* Permits are never forged, and only a release that raises InvalidStateError, because
\* its waiter was cancelled between done() and set_result, loses one.
PermitsAccounted == value + Cardinality(Holding) + Cardinality(Handed) + errors = Permits

\* A free permit never lies unused while somebody queues: acquire's fast path refuses to
\* pass the queue, so a permit freed past a waiter would leave everybody waiting.
NoIdlePermit == value > 0 => waiters = <<>>

\* The bound of a BoundedSemaphore never refuses a task that gives back what it was given,
\* in whatever way it came by its permit: for such tasks its release is that of Semaphore.
BoundRespected == \A t \in Tasks : pc[t] \in {"hold", "giveback", "release"} => ~OverReleased

\* Nobody waits for ever, however the tasks ahead in the queue are cancelled, as long as
\* no permit has been lost.
WaiterServed ==
  \A t \in Tasks : (pc[t] = "parked" /\ Permits > 0) ~> (pc[t] # "parked" \/ errors > 0)
=============================================================================
