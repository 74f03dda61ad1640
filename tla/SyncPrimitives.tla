--------------------------- MODULE SyncPrimitives ---------------------------
(***************************************************************************)
(* Event, Lock, Condition and Queue of src/mt_asyncio/asyncio/_sync.py,    *)
(* used by tasks on several workers while other threads cancel them.       *)
(*                                                                         *)
(* Every primitive is a list of waiting futures under a mutex.  A waiter   *)
(* appends its future, drops the mutex and awaits; whoever wakes it pops   *)
(* the future and completes it, under the mutex (Lock, Condition.notify,   *)
(* Queue) or on a list it has taken out (Event.set, notify_all).  Testing  *)
(* done() and calling set_result are two steps: Task.cancel takes the lock *)
(* of the future and no other.                                             *)
(*                                                                         *)
(* A task runs a program, a sequence of calls.  An exception ends it and   *)
(* leaves the `async with` block it is in.  Items of a queue are counted:  *)
(* the order in which Queue, LifoQueue and PriorityQueue hand them out     *)
(* touches no waiter.                                                      *)
(***************************************************************************)
EXTENDS Integers, Sequences, FiniteSets, SequencesExt

CONSTANTS Tasks,       \* the tasks
          Cancellers,  \* the threads that call Task.cancel, each once
          Apps,        \* the applications: [maxsize, prog : each task's program]
          None         \* "nobody", "no future"

ASSUME TasksAssumption    == IsFiniteSet(Tasks)
ASSUME IdentityAssumption == None \notin Tasks \cup (Tasks \X Nat)

Events  == {"event", "finished"}            \* an Event, and Queue._finished
Lists   == Events \cup {"lock", "cond", "getters", "putters"}
Mutexes == Events \cup {"lock", "cond", "queue"}
MuOf(o) == IF o \in {"getters", "putters"} THEN "queue" ELSE o

VARIABLES
  maxsize,     \* Queue._maxsize
  waiters,     \* _waiters of each primitive, _getters and _putters
  mu,          \* the task that holds _mu over several steps
  value,       \* Event._value
  locked,      \* Lock._locked
  size,        \* how many items the queue holds
  unfinished,  \* Queue._unfinished
  fst,         \* fst[t][k]: the state of the k-th future that task t has created
  task,        \* what each task is doing
  aim,         \* the future each canceller has found its task parked on; <<"end">> afterwards
  faults       \* what has gone wrong: see the properties

objVars == <<waiters, mu, value, locked, size, unfinished>>
vars    == <<objVars, maxsize, fst, task, aim, faults>>

Ops == {"set", "clear", "wait", "lock", "unlock", "cwait", "notify", "notify_all", "put", "get",
        "put_nowait", "get_nowait", "task_done", "join"}
PCs == {"run", "again", "arm", "parked", "woken", "except", "wake", "offer", "relock", "cwait",
        "clear", "finish", "joining", "raise", "end"}

ASSUME AppsAssumption == \A a \in Apps : a.maxsize \in Nat /\ a.prog \in [Tasks -> Seq(Ops)]

Futs == Tasks \X Nat

\* What a task carries: its place in the code, its program, the list it waits in or wakes
\* from, the list it has taken out, the future it has found not done, how many it may still
\* complete, where it goes on afterwards, whether an exception is under way, whether it is
\* in the `async with` block and owns the lock, _must_cancel, and whether all items were
\* done at some moment of its join.
TaskStates ==
  [pc : PCs, prog : Seq(Ops), obj : Lists \cup {"hand"}, hand : Seq(Futs),
   offer : Futs \cup {None}, left : Int, ret : {"run", "next", "raise", "cwait"},
   raising : BOOLEAN, inside : BOOLEAN, owns : BOOLEAN, due : BOOLEAN, zero : BOOLEAN]

TypeOK ==
  /\ maxsize \in Nat /\ size \in Nat /\ unfinished \in Nat
  /\ maxsize > 0 => size <= maxsize
  /\ waiters \in [Lists -> Seq(Futs)]
  /\ mu \in [Mutexes -> Tasks \cup {None}]
  /\ value \in [Events -> BOOLEAN]
  /\ locked \in BOOLEAN
  /\ task \in [Tasks -> TaskStates]
  /\ fst \in [Tasks -> Seq({"pending", "result", "cancelled"})]
  /\ aim \in [Cancellers -> Futs \cup {<<>>, <<"end">>}]
  /\ faults \subseteq {"invalid", "dropped", "unlocked", "stale"}

Start(p) ==
  [pc |-> "run", prog |-> p, obj |-> "event", hand |-> <<>>, offer |-> None, left |-> 0,
   ret |-> "run", raising |-> FALSE, inside |-> FALSE, owns |-> FALSE, due |-> FALSE,
   zero |-> FALSE]

Init ==
  /\ \E a \in Apps : maxsize = a.maxsize /\ task = [t \in Tasks |-> Start(a.prog[t])]
  /\ waiters = [o \in Lists |-> <<>>]
  /\ mu = [m \in Mutexes |-> None]
  /\ value = [e \in Events |-> e = "finished"]
  /\ locked = FALSE
  /\ size = 0
  /\ unfinished = 0
  /\ fst = [t \in Tasks |-> <<>>]
  /\ aim = [c \in Cancellers |-> <<>>]
  /\ faults = {}

-----------------------------------------------------------------------------
State(f)     == fst[f[1]][f[2]]
Done(f)      == State(f) # "pending"
Fut(t)       == <<t, Len(fst[t])>>                    \* the future it has created last
NewFut(t)    == <<t, Len(fst[t]) + 1>>
Free(m)      == mu[m] = None
At(t, l)     == task[t].pc = l
Calls(t, op) == task[t].pc \in {"run", "again"} /\ task[t].prog # <<>> /\ Head(task[t].prog) = op

Goto(t, l) == task' = [task EXCEPT ![t].pc = l]

\* The record r after it goes on at l: "next" returns from the call, "raise" goes on
\* raising, "cwait" is the await of Condition.wait.
Land(r, l) ==
  CASE l = "next"  -> [r EXCEPT !.pc = "run", !.prog = Tail(@)]
    [] l = "raise" -> [r EXCEPT !.pc = "raise", !.raising = TRUE]
    [] l = "cwait" -> [r EXCEPT !.pc = "arm", !.obj = "cond"]
    [] OTHER       -> [r EXCEPT !.pc = l]

Return(t) == task' = [task EXCEPT ![t] = Land(@, "next")]

\* create_future, append and `await fut`, in list o.
Enqueue(t, o) ==
  /\ fst' = [fst EXCEPT ![t] = Append(@, "pending")]
  /\ waiters' = [waiters EXCEPT ![o] = Append(@, NewFut(t))]
  /\ task' = [task EXCEPT ![t].obj = o, ![t].pc = "arm"]

-----------------------------------------------------------------------------
\* Waking: the loops of Event.set, Lock.release, notify, notify_all, _put_locked, _get_locked.

\* The record of a task that starts to complete up to n futures of o, then goes on at l.
Waking(r, o, n, l) == [r EXCEPT !.pc = "wake", !.obj = o, !.left = n, !.ret = l]

Source(t) == IF task[t].obj = "hand" THEN task[t].hand ELSE waiters[task[t].obj]

SetSource(t, s, r) ==
  IF task[t].obj = "hand"
    THEN task' = [task EXCEPT ![t] = [r EXCEPT !.hand = s]] /\ UNCHANGED waiters
    ELSE task' = [task EXCEPT ![t] = r] /\ waiters' = [waiters EXCEPT ![task[t].obj] = s]

Unlocked(t) == [m \in Mutexes |-> IF mu[m] = t THEN None ELSE mu[m]]

\* Pop up to a future that is not done; when there is none, the loop is over and a lock is
\* free.  Futures stay done, so the ones that are skipped are skipped in the same step.
Wake(t) ==
  LET s == Source(t) IN
  /\ At(t, "wake")
  /\ \/ /\ \A i \in 1 .. Len(s) : Done(s[i])
        /\ SetSource(t, <<>>, Land(task[t], task[t].ret))
        /\ mu' = Unlocked(t)
        /\ locked' = (locked /\ task[t].obj # "lock")
     \/ /\ \E i \in 1 .. Len(s) :
             /\ ~Done(s[i]) /\ \A j \in 1 .. (i - 1) : Done(s[j])
             /\ SetSource(t, SubSeq(s, i + 1, Len(s)),
                          [task[t] EXCEPT !.pc = "offer", !.offer = s[i]])
        /\ UNCHANGED <<mu, locked>>
  /\ UNCHANGED <<value, size, unfinished, maxsize, fst, aim, faults>>

\* Mutant: the lock is marked free although a waiter has been given it.
OfferUnlocking(t) ==
  LET f == task[t].offer IN
  /\ At(t, "offer")
  /\ ~Done(f)
  /\ fst' = [fst EXCEPT ![f[1]][f[2]] = "result"]
  /\ task' = [task EXCEPT ![t] = Land([@ EXCEPT !.offer = None], task[t].ret)]
  /\ mu' = Unlocked(t)
  /\ locked' = (locked /\ task[t].obj # "lock")
  /\ UNCHANGED <<waiters, value, size, unfinished, maxsize, aim, faults>>

\* set_result, under the future's lock.  When the future has been cancelled since done() it
\* raises InvalidStateError, which drops the mutex and leaves the call: what is left of a list
\* it has taken out stays in `hand`, where nobody will come to it; a lock is still locked, on
\* account of the task that did not get rid of it.
Offer(t) ==
  LET f == task[t].offer
      r == [task[t] EXCEPT !.offer = None, !.left = @ - 1] IN
  /\ At(t, "offer")
  /\ IF Done(f)
       THEN /\ task' = [task EXCEPT ![t] = Land([r EXCEPT !.owns = @ \/ r.obj = "lock"], "raise")]
            /\ mu' = Unlocked(t)
            /\ faults' = faults \cup {"invalid"}
            /\ UNCHANGED fst
       ELSE /\ fst' = [fst EXCEPT ![f[1]][f[2]] = "result"]
            /\ IF r.left = 0
                 THEN task' = [task EXCEPT ![t] = Land(r, r.ret)] /\ mu' = Unlocked(t)
                 ELSE task' = [task EXCEPT ![t] = [r EXCEPT !.pc = "wake"]] /\ UNCHANGED mu
            /\ UNCHANGED faults
  /\ UNCHANGED <<waiters, value, locked, size, unfinished, maxsize, aim>>

-----------------------------------------------------------------------------
\* Waiting: `await fut` and the handler of its CancelledError.

\* The await up to its suspension: a cancel that is due is raised even if the future has
\* been completed meanwhile.
Arm(t) ==
  /\ At(t, "arm")
  /\ task' = [task EXCEPT ![t].due = FALSE,
                          ![t].pc = IF task[t].due THEN "except"
                                    ELSE IF Done(Fut(t)) THEN "woken" ELSE "parked"]
  /\ UNCHANGED <<objVars, maxsize, fst, aim, faults>>

Resume(t) ==
  /\ At(t, "parked")
  /\ Done(Fut(t))
  /\ Goto(t, IF State(Fut(t)) = "result" THEN "woken" ELSE "except")
  /\ UNCHANGED <<objVars, maxsize, fst, aim, faults>>

\* The future's result: an event returns, put and get look at the queue again, the lock is
\* ours, a notified Condition.wait takes the lock back.
Woken(t) ==
  LET r == task[t] IN
  /\ At(t, "woken")
  /\ task' = [task EXCEPT ![t] =
       CASE r.obj \in Events                  -> Land(r, "next")
         [] r.obj \in {"getters", "putters"}  -> Land(r, "again")
         [] r.obj = "cond"                    -> Land(r, "relock")
         [] r.obj = "lock"                    ->
              Land([r EXCEPT !.inside = TRUE, !.owns = TRUE], IF r.raising THEN "raise" ELSE "next")]
  /\ UNCHANGED <<objVars, maxsize, fst, aim, faults>>

\* Mutant: the handler takes the first future off the list instead of its own.
ExceptPopleft(t) ==
  LET o == task[t].obj IN
  /\ At(t, "except")
  /\ Free(MuOf(o))
  /\ waiters[o] # <<>>
  /\ waiters' = [waiters EXCEPT ![o] = Tail(@)]
  /\ task' = [task EXCEPT ![t] = IF o = "cond" THEN [@ EXCEPT !.pc = "relock", !.raising = TRUE]
                                 ELSE Land(@, "raise")]
  /\ UNCHANGED <<mu, value, locked, size, unfinished, maxsize, fst, aim, faults>>

\* `if fut in self._waiters: self._waiters.remove(fut)`.
Withdraw(o, f) ==
  \/ ~Contains(waiters[o], f) /\ UNCHANGED waiters
  \/ \E i \in 1 .. Len(waiters[o]) :
       waiters[o][i] = f /\ waiters' = [waiters EXCEPT ![o] = RemoveAt(@, i)]

\* except CancelledError, under the mutex: leave the list.  A lock that was handed over goes
\* on to the next waiter; a wake for an item or a free place goes to nobody; a
\* Condition.wait takes the lock back before it raises.
Except(t) ==
  LET o       == task[t].obj
      granted == o = "lock" /\ State(Fut(t)) = "result" IN
  /\ At(t, "except")
  /\ Free(MuOf(o))
  /\ Withdraw(o, Fut(t))
  /\ task' = [task EXCEPT ![t] =
       IF o = "cond" THEN [@ EXCEPT !.pc = "relock", !.raising = TRUE]
       ELSE IF granted THEN [Waking(@, "lock", 1, "raise") EXCEPT !.raising = TRUE]
       ELSE Land(@, "raise")]
  /\ mu' = IF granted THEN [mu EXCEPT !["lock"] = t] ELSE mu
  /\ faults' = IF o \in {"getters", "putters"} /\ State(Fut(t)) = "result"
                 THEN faults \cup {"dropped"} ELSE faults
  /\ UNCHANGED <<value, locked, size, unfinished, maxsize, fst, aim>>

\* Lock.acquire, of Lock and Condition.__aenter__ and in the `finally` of Condition.wait.
Acquire(t) ==
  /\ Free("lock")
  /\ IF ~locked /\ waiters["lock"] = <<>>
       THEN /\ locked' = TRUE
            /\ task' = [task EXCEPT ![t] = Land([@ EXCEPT !.inside = TRUE, !.owns = TRUE],
                                                IF task[t].raising THEN "raise" ELSE "next")]
            /\ UNCHANGED <<waiters, fst>>
       ELSE Enqueue(t, "lock") /\ UNCHANGED locked
  /\ UNCHANGED <<mu, value, size, unfinished, maxsize, aim, faults>>

Lock(t)   == Calls(t, "lock") /\ Acquire(t)
Relock(t) == At(t, "relock") /\ Acquire(t)

\* Lock.release: from __aexit__, and from Condition.wait, which goes on at l.
Release(t, l) ==
  /\ Free("lock")
  /\ mu' = [mu EXCEPT !["lock"] = t]
  /\ task' = [task EXCEPT ![t] = [Waking(@, "lock", 1, l) EXCEPT !.owns = FALSE,
                                                                 !.inside = (l = "cwait")]]
  /\ faults' = IF task[t].owns THEN faults ELSE faults \cup {"unlocked"}
  /\ UNCHANGED <<waiters, value, locked, size, unfinished, maxsize, fst, aim>>

Unlock(t) == Calls(t, "unlock") /\ Release(t, "next")

\* An exception leaves the program, through __aexit__ when it is in the `async with` block.
Raise(t) ==
  /\ At(t, "raise")
  /\ \/ task[t].inside /\ Release(t, "raise")
     \/ /\ ~task[t].inside
        /\ task' = [task EXCEPT ![t].pc = "end", ![t].prog = <<>>]
        /\ UNCHANGED <<objVars, maxsize, fst, aim, faults>>

\* A cancel that is due is raised at some other await of the program.
OtherAwait(t) ==
  /\ At(t, "run") /\ task[t].prog # <<>>
  /\ task[t].due
  /\ task' = [task EXCEPT ![t] = Land([@ EXCEPT !.due = FALSE], "raise")]
  /\ UNCHANGED <<objVars, maxsize, fst, aim, faults>>

-----------------------------------------------------------------------------
\* Event.

\* set, of an event or of Queue._finished: the flag and the list under the mutex, the
\* futures after it.
SetEvent(t, e, l) ==
  /\ Free(e)
  /\ value' = [value EXCEPT ![e] = TRUE]
  /\ IF value[e]
       THEN task' = [task EXCEPT ![t] = Land(@, l)] /\ UNCHANGED waiters
       ELSE /\ task' = [task EXCEPT ![t] =
                 [Waking(@, "hand", Len(waiters[e]), l) EXCEPT !.hand = waiters[e]]]
            /\ waiters' = [waiters EXCEPT ![e] = <<>>]
  /\ UNCHANGED <<mu, locked, size, unfinished, maxsize, fst, aim>>

Set(t) == Calls(t, "set") /\ SetEvent(t, "event", "next") /\ UNCHANGED faults

Clear(t) ==
  /\ Calls(t, "clear")
  /\ Free("event")
  /\ value' = [value EXCEPT !["event"] = FALSE]
  /\ Return(t)
  /\ UNCHANGED <<waiters, mu, locked, size, unfinished, maxsize, fst, aim, faults>>

WaitEvent(t, e) ==
  /\ Free(e)
  /\ IF value[e] THEN Return(t) /\ UNCHANGED <<waiters, fst>> ELSE Enqueue(t, e)
  /\ UNCHANGED <<mu, value, locked, size, unfinished, maxsize, aim, faults>>

Wait(t) == Calls(t, "wait") /\ WaitEvent(t, "event")

-----------------------------------------------------------------------------
\* Condition, whose lock is the Lock.

\* wait: append the future, in a first step, then release the lock and await.
CondWait(t) ==
  /\ Calls(t, "cwait")
  /\ Free("cond")
  /\ fst' = [fst EXCEPT ![t] = Append(@, "pending")]
  /\ waiters' = [waiters EXCEPT !["cond"] = Append(@, NewFut(t))]
  /\ Goto(t, "cwait")
  /\ UNCHANGED <<mu, value, locked, size, unfinished, maxsize, aim, faults>>

CondRelease(t) == At(t, "cwait") /\ Release(t, "cwait")

Notify(t) ==
  /\ Calls(t, "notify")
  /\ Free("cond")
  /\ mu' = [mu EXCEPT !["cond"] = t]
  /\ task' = [task EXCEPT ![t] = Waking(@, "cond", 1, "next")]
  /\ UNCHANGED <<waiters, value, locked, size, unfinished, maxsize, fst, aim, faults>>

NotifyAll(t) ==
  /\ Calls(t, "notify_all")
  /\ Free("cond")
  /\ waiters' = [waiters EXCEPT !["cond"] = <<>>]
  /\ task' = [task EXCEPT ![t] = [Waking(@, "hand", Len(waiters["cond"]), "next")
                                   EXCEPT !.hand = waiters["cond"]]]
  /\ UNCHANGED <<mu, value, locked, size, unfinished, maxsize, fst, aim, faults>>

-----------------------------------------------------------------------------
\* Queue.

HasRoom == maxsize = 0 \/ size < maxsize

\* The storage hooks of Queue, LifoQueue and PriorityQueue.
StoreItem == size' = size + 1
TakeItem  == size' = size - 1

\* _put_locked, called with the mutex: the item and the count, then _finished.clear, then
\* the getters.
PutLocked(t) ==
  /\ mu' = [mu EXCEPT !["queue"] = t]
  /\ StoreItem
  /\ unfinished' = unfinished + 1
  /\ Goto(t, "clear")
  /\ UNCHANGED <<waiters, value, locked, fst>>

\* Mutant: the event is not cleared.
PutClearForgotten(t) ==
  /\ At(t, "clear")
  /\ task' = [task EXCEPT ![t] = Waking(@, "getters", 1, "next")]
  /\ UNCHANGED <<waiters, mu, value, locked, size, unfinished, maxsize, fst, aim, faults>>

PutClear(t) ==
  /\ At(t, "clear")
  /\ Free("finished")
  /\ value' = [value EXCEPT !["finished"] = FALSE]
  /\ task' = [task EXCEPT ![t] = Waking(@, "getters", 1, "next")]
  /\ UNCHANGED <<waiters, mu, locked, size, unfinished, maxsize, fst, aim, faults>>

\* put, each turn of its loop; put_nowait raises QueueFull, which its caller catches.
Put(t) ==
  /\ Calls(t, "put")
  /\ Free("queue")
  /\ IF HasRoom THEN PutLocked(t)
     ELSE Enqueue(t, "putters") /\ UNCHANGED <<mu, value, locked, size, unfinished>>
  /\ UNCHANGED <<maxsize, aim, faults>>

PutNowait(t) ==
  /\ Calls(t, "put_nowait")
  /\ Free("queue")
  /\ IF HasRoom THEN PutLocked(t) ELSE Return(t) /\ UNCHANGED <<objVars, fst>>
  /\ UNCHANGED <<maxsize, aim, faults>>

\* Mutant: an item taken wakes no putter.
GetLockedSilent(t) ==
  /\ TakeItem
  /\ Return(t)
  /\ UNCHANGED <<mu, waiters, value, locked, unfinished, fst>>

\* _get_locked: the item, then the putters.
GetLocked(t) ==
  /\ mu' = [mu EXCEPT !["queue"] = t]
  /\ TakeItem
  /\ task' = [task EXCEPT ![t] = Waking(@, "putters", 1, "next")]
  /\ UNCHANGED <<waiters, value, locked, unfinished, fst>>

Get(t) ==
  /\ Calls(t, "get")
  /\ Free("queue")
  /\ IF size > 0 THEN GetLocked(t)
     ELSE Enqueue(t, "getters") /\ UNCHANGED <<mu, value, locked, size, unfinished>>
  /\ UNCHANGED <<maxsize, aim, faults>>

GetNowait(t) ==
  /\ Calls(t, "get_nowait")
  /\ Free("queue")
  /\ IF size > 0 THEN GetLocked(t) ELSE Return(t) /\ UNCHANGED <<objVars, fst>>
  /\ UNCHANGED <<maxsize, aim, faults>>

\* task_done: the count under the mutex; at zero, _finished.set after it.
TaskDone(t) ==
  /\ Calls(t, "task_done")
  /\ Free("queue")
  /\ IF unfinished = 0 THEN Return(t) /\ UNCHANGED unfinished
     ELSE /\ unfinished' = unfinished - 1
          /\ task' = [u \in Tasks |->
               LET r == [task[u] EXCEPT !.zero = @ \/ unfinished = 1] IN
               IF u # t THEN r ELSE Land(r, IF unfinished = 1 THEN "finish" ELSE "next")]
  /\ UNCHANGED <<waiters, mu, value, locked, size, maxsize, fst, aim, faults>>

\* Items put since the count was zero make this set stale.
Finish(t) ==
  /\ At(t, "finish")
  /\ SetEvent(t, "finished", "next")
  /\ faults' = IF unfinished > 0 THEN faults \cup {"stale"} ELSE faults

\* join: the count, read without the mutex, then the event.  A put between its count and
\* its clear is not over: join comes before it.
Join(t) ==
  /\ Calls(t, "join")
  /\ task' = [task EXCEPT ![t] =
       Land([@ EXCEPT !.zero = unfinished = 0 \/ \E u \in Tasks : At(u, "clear")],
            IF unfinished > 0 THEN "joining" ELSE "next")]
  /\ UNCHANGED <<objVars, maxsize, fst, aim, faults>>

JoinWait(t) == At(t, "joining") /\ WaitEvent(t, "finished")

-----------------------------------------------------------------------------
\* Task.cancel of t by c: under the task's lock, the future it is parked on or a cancel for
\* its next await; then cancel of that future, under its lock (module TaskCancel).

Ended(t) == At(t, "end") \/ (At(t, "run") /\ task[t].prog = <<>>)

Cancel(c, t) ==
  /\ aim[c] = <<>>
  /\ ~Ended(t)
  /\ IF At(t, "parked")
       THEN aim' = [aim EXCEPT ![c] = Fut(t)] /\ UNCHANGED task
       ELSE aim' = [aim EXCEPT ![c] = <<"end">>] /\ task' = [task EXCEPT ![t].due = TRUE]
  /\ UNCHANGED <<objVars, maxsize, fst, faults>>

CancelFuture(c) ==
  LET f == aim[c] IN
  /\ Len(f) = 2
  /\ IF Done(f) THEN task' = [task EXCEPT ![f[1]].due = TRUE] /\ UNCHANGED fst
     ELSE fst' = [fst EXCEPT ![f[1]][f[2]] = "cancelled"] /\ UNCHANGED task
  /\ aim' = [aim EXCEPT ![c] = <<"end">>]
  /\ UNCHANGED <<objVars, maxsize, faults>>

-----------------------------------------------------------------------------
Call(t) ==
  \/ Set(t) \/ Clear(t) \/ Wait(t) \/ Lock(t) \/ Unlock(t) \/ CondWait(t) \/ Notify(t)
  \/ NotifyAll(t) \/ Put(t) \/ PutNowait(t) \/ Get(t) \/ GetNowait(t) \/ TaskDone(t) \/ Join(t)

TaskStep(t) ==
  \/ Call(t) \/ Wake(t) \/ Offer(t) \/ Arm(t) \/ Resume(t) \/ Woken(t) \/ Except(t) \/ Relock(t)
  \/ CondRelease(t) \/ Raise(t) \/ PutClear(t) \/ Finish(t) \/ JoinWait(t)

\* Every task has ended or waits for somebody.
Rest ==
  /\ \A t \in Tasks : Ended(t) \/ (At(t, "parked") /\ ~Done(Fut(t)))
  /\ UNCHANGED vars

Next ==
  \/ \E t \in Tasks : TaskStep(t) \/ OtherAwait(t) \/ \E c \in Cancellers : Cancel(c, t)
  \/ \E c \in Cancellers : CancelFuture(c)
  \/ Rest

Spec == Init /\ [][Next]_vars

-----------------------------------------------------------------------------
\* Properties.  "invalid": some set_result raised InvalidStateError; "dropped": a getter or
\* putter was cancelled after its wake; "unlocked": a task released a lock it did not own;
\* "stale": _finished was set with items unfinished.

\* A thread is to complete f: it has found it not done, or has it still to come to in a list
\* it has taken out.
InHands(f) ==
  \E t \in Tasks :
    \/ At(t, "offer") /\ task[t].offer = f
    \/ task[t].pc \in {"wake", "offer"} /\ task[t].obj = "hand" /\ Contains(task[t].hand, f)

\* f was in a list that a set or notify_all had taken out when its set_result for another
\* waiter, cancelled since done(), raised InvalidStateError: nobody will complete f, although
\* the module's docstring calls the primitives cancel-safe and says that a cancelled waiter is
\* simply skipped.
Stranded(f) ==
  "invalid" \in faults /\ \E t \in Tasks : task[t].raising /\ Contains(task[t].hand, f)

\* A waiter is forgotten in one case only, whoever is cancelled around it: the future of a
\* suspended task is in the list it appended it to, or a set, notify or release that has
\* taken it out is under way and is to complete it; the exception is a waiter stranded in
\* the list of a set or notify_all that has raised.
WaiterIsListed ==
  \A t \in Tasks : At(t, "parked") /\ ~Done(Fut(t))
    => Contains(waiters[task[t].obj], Fut(t)) \/ InHands(Fut(t)) \/ Stranded(Fut(t))

Awaiting(t) == task[t].pc \in {"arm", "parked", "woken", "except"}

\* The waiters of o that have been woken and have not yet looked at the queue again, and
\* those that nobody has woken.
EnRoute(o) == {t \in Tasks : Awaiting(t) /\ task[t].obj = o /\ State(Fut(t)) = "result"}
           \cup {t \in Tasks : At(t, "again") /\ task[t].obj = o}
Asleep(o)  == {t \in Tasks : At(t, "parked") /\ task[t].obj = o /\ ~Done(Fut(t))}

\* An item, or a free place, never lies unclaimed beside a waiter: while a get (a put) is
\* suspended, as many others have been woken as there are items (places).  A cancelled
\* waiter that had been woken, and a set_result that raised, are the exceptions.
WakesSuffice ==
  Free("queue") /\ faults \cap {"dropped", "invalid"} = {} =>
    /\ Asleep("getters") # {} => size <= Cardinality(EnRoute("getters"))
    /\ Asleep("putters") # {} => maxsize - size <= Cardinality(EnRoute("putters"))

\* The tasks that have the lock, or have been handed it.
Owners ==
  {t \in Tasks : task[t].owns \/ (Awaiting(t) /\ task[t].obj = "lock" /\ State(Fut(t)) = "result")}

\* The lock has one owner, counting a task it has been handed to, and is locked as long as
\* it has one; only a Condition.wait cancelled while it takes the lock back breaks this, by
\* releasing a lock it does not own.
LockHasOneOwner ==
  "unlocked" \notin faults => Cardinality(Owners) <= 1 /\ (Owners # {} => locked)

\* join returns only if all items were done at some moment of the call, unless a task_done
\* has set the event after a later put cleared it.
JoinNotEarly ==
  [][\A t \in Tasks :
       (/\ task[t].prog # <<>> /\ Head(task[t].prog) = "join"
        /\ task'[t].pc = "run" /\ task'[t].prog # task[t].prog)
         => task'[t].zero \/ "stale" \in faults]_vars
=============================================================================
