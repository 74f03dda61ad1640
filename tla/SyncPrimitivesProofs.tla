------------------------ MODULE SyncPrimitivesProofs ------------------------
(***************************************************************************)
(* Proofs about SyncPrimitives, for every finite set of tasks, every set   *)
(* of cancellers and all programs of the tasks.                            *)
(***************************************************************************)
EXTENDS SyncPrimitives, QueueLemmas, FiniteSetTheorems, TLAPS

-----------------------------------------------------------------------------
\* The inductive invariant, part by part.

Pending(f) == State(f) = "pending"

Wakes(t)        == task[t].pc \in {"wake", "offer"}
HeadIs(t, op)   == task[t].prog # <<>> /\ Head(task[t].prog) = op
CondWaiting(t)  == At(t, "cwait") \/ (Wakes(t) /\ task[t].ret = "cwait")

\* The tasks whose last future somebody has to complete, and the list it is put in.
Waits(t)  == Awaiting(t) \/ CondWaiting(t)
ListOf(t) == IF Awaiting(t) THEN task[t].obj ELSE "cond"

\* A task that is not between two calls is in one, and a waker knows where to go on.
BusyAt(t) ==
  /\ task[t].pc \notin {"run", "end"} => task[t].prog # <<>>
  /\ Wakes(t) => task[t].ret # "run"

Busy == \A t \in Tasks : BusyAt(t)

\* What a task does at each place: a waiter has a future; a waker has the mutex of the list
\* it wakes from, or the list itself; a raised exception ends the program; a list taken out
\* is completed before the next one is.
FlowAt(t) ==
  LET r == task[t] IN
  /\ Waits(t) => fst[t] # <<>>
  /\ Awaiting(t) => r.obj # "hand"
  /\ At(t, "offer") => r.offer \in Futs
  /\ At(t, "woken") => State(Fut(t)) = "result"
  /\ At(t, "raise") => r.raising
  /\ r.raising => \/ r.pc \in {"raise", "end", "relock"}
                  \/ Wakes(t) /\ r.obj = "lock" /\ r.ret = "raise"
                  \/ Awaiting(t) /\ r.obj = "lock"
  /\ Wakes(t) => r.obj \notin Events
  /\ Wakes(t) /\ r.obj # "hand" => mu[MuOf(r.obj)] = t /\ r.left = 1
  /\ Wakes(t) /\ r.obj \in {"getters", "putters"} => r.ret = "next"
  /\ At(t, "clear") => mu["queue"] = t
  /\ At(t, "wake") /\ r.obj = "hand" => r.left >= Len(r.hand)
  /\ At(t, "offer") /\ r.obj = "hand" => r.left > Len(r.hand)
  /\ r.hand # <<>> => r.raising \/ (Wakes(t) /\ r.obj = "hand")

Flow == \A t \in Tasks : FlowAt(t)

\* Which call a task is in.
HeadsAt(t) ==
  LET r == task[t] IN
  /\ Awaiting(t) /\ r.obj = "getters" => HeadIs(t, "get")
  /\ Awaiting(t) /\ r.obj = "putters" => HeadIs(t, "put")
  /\ At(t, "again") => \/ r.obj = "getters" /\ HeadIs(t, "get")
                       \/ r.obj = "putters" /\ HeadIs(t, "put")
  /\ HeadIs(t, "join") => \/ r.pc \in {"run", "joining", "raise", "end"}
                          \/ Awaiting(t) /\ r.obj = "finished"
                          \/ Wakes(t) /\ r.ret = "raise"

Heads == \A t \in Tasks : HeadsAt(t)

\* Every future that is in somebody's hands exists.
Exists(f) == f[2] \in 1 .. Len(fst[f[1]])

Known ==
  /\ \A o \in Lists : \A f \in Content(waiters[o]) : Exists(f)
  /\ \A t \in Tasks : \A f \in Content(task[t].hand) : Exists(f)
  /\ \A t \in Tasks : At(t, "offer") => Exists(task[t].offer)
  /\ \A c \in Cancellers : aim[c] \in Futs => Exists(aim[c])

\* No canceller has seen the future of a task that has yet to park on it.
Fresh ==
  \A t \in Tasks : At(t, "arm") \/ CondWaiting(t) =>
    State(Fut(t)) # "cancelled" /\ \A c \in Cancellers : aim[c] # Fut(t)

\* The lock is one token: a task has it, has been handed it, or is handing it on.
Granted(t)   == Awaiting(t) /\ task[t].obj = "lock" /\ State(Fut(t)) = "result"
Releasing(t) == Wakes(t) /\ task[t].obj = "lock"
Token(t)     == task[t].owns \/ Granted(t) \/ Releasing(t)

OneToken ==
  "unlocked" \notin faults =>
    /\ \A t, u \in Tasks : Token(t) /\ Token(u) => t = u
    /\ \A t \in Tasks : Token(t) => locked
    /\ \A t \in Tasks : Granted(t) \/ Releasing(t) => ~task[t].owns

\* Somebody is about to complete f, which was in list o.
Holds(u, f, o) ==
  \/ f \in Content(task[u].hand) /\ o \in Events \cup {"cond"}
  \/ /\ At(u, "offer") /\ task[u].offer = f
     /\ task[u].obj = o \/ (task[u].obj = "hand" /\ o \in Events \cup {"cond"})

\* A future nobody has completed is in its list, or in somebody's hands.
Listed ==
  \A t \in Tasks : Waits(t) /\ Pending(Fut(t))
    => Fut(t) \in Content(waiters[ListOf(t)]) \/ \E u \in Tasks : Holds(u, Fut(t), ListOf(t))

\* It is in no other list, and in its own once.
Placed ==
  /\ \A o \in Lists : Once(waiters[o])
  /\ \A t \in Tasks, o \in Lists : Waits(t) /\ Fut(t) \in Content(waiters[o]) => ListOf(t) = o

\* A future in somebody's hands has been taken out of the list of its task.
Apart ==
  \A t, u \in Tasks : Waits(t) =>
    /\ Fut(t) \in Content(task[u].hand) => ListOf(t) \in Events \cup {"cond"}
    /\ At(u, "offer") /\ task[u].offer = Fut(t) =>
         ListOf(t) = task[u].obj \/ (task[u].obj = "hand" /\ ListOf(t) \in Events \cup {"cond"})

\* A task in join has seen all items done by the time its event is set or its future is
\* completed, or about to be.
JoinWaits(t) == Awaiting(t) /\ task[t].obj = "finished"
Joins(t)     == At(t, "joining") \/ JoinWaits(t)
Held(u, f)   == f \in Content(task[u].hand) \/ (At(u, "offer") /\ task[u].offer = f)

Settled     == value["finished"] => unfinished = 0 \/ \E u \in Tasks : At(u, "clear")
JoinersKnow == \A t \in Tasks : Joins(t) /\ (unfinished = 0 \/ value["finished"]) => task[t].zero
WokenKnow   ==
  \A t \in Tasks : JoinWaits(t) /\ (State(Fut(t)) = "result" \/ \E u \in Tasks : Held(u, Fut(t)))
    => task[t].zero

JoinInv == "stale" \notin faults => Settled /\ JoinersKnow /\ WokenKnow

\* The futures in the lists of the queue that are not completed are waited for.
Waited(f, o) ==
  Pending(f) => f = Fut(f[1]) /\ Awaiting(f[1]) /\ task[f[1]].obj = o

QueueLists ==
  \A o \in {"getters", "putters"} :
    /\ \A f \in Content(waiters[o]) : Waited(f, o)
    /\ \A u \in Tasks : At(u, "offer") /\ task[u].obj = o => Waited(task[u].offer, o)

\* As many waiters have been woken as there are items, or free places, but for the one that
\* the task that put, or took, the last one is about to wake.
OnWay(t, o)   == t \in EnRoute(o)
Unwoken(t, o) == Awaiting(t) /\ task[t].obj = o /\ Pending(Fut(t))
ToClaim(o)    == IF o = "getters" THEN size ELSE maxsize - size
Passing(u, o) == (o = "getters" /\ At(u, "clear")) \/ (Wakes(u) /\ task[u].obj = o)

ClaimedOf(o) ==
  (\E t \in Tasks : Unwoken(t, o)) =>
    ToClaim(o) <= Cardinality(EnRoute(o)) + (IF \E u \in Tasks : Passing(u, o) THEN 1 ELSE 0)

Claimed == faults \cap {"dropped", "invalid"} = {} => ClaimedOf("getters") /\ ClaimedOf("putters")

IInv == TypeOK /\ Busy /\ Flow /\ Heads /\ Known /\ Fresh /\ Placed /\ Apart

-----------------------------------------------------------------------------
\* The records of the tasks, field by field.

LEMMA LandNext ==
  ASSUME NEW r \in TaskStates, r.prog # <<>>
  PROVE  LET n == Land(r, "next") IN
         /\ n \in TaskStates
         /\ n.pc = "run" /\ n.prog = Tail(r.prog) /\ n.obj = r.obj /\ n.hand = r.hand
         /\ n.offer = r.offer /\ n.left = r.left /\ n.ret = r.ret /\ n.raising = r.raising
         /\ n.inside = r.inside /\ n.owns = r.owns /\ n.due = r.due /\ n.zero = r.zero
<1>1. Tail(r.prog) \in Seq(Ops)
  BY DEF TaskStates
<1> QED
  BY <1>1 DEF Land, TaskStates, PCs

LEMMA LandRaise ==
  ASSUME NEW r \in TaskStates
  PROVE  LET n == Land(r, "raise") IN
         /\ n \in TaskStates
         /\ n.pc = "raise" /\ n.prog = r.prog /\ n.obj = r.obj /\ n.hand = r.hand
         /\ n.offer = r.offer /\ n.left = r.left /\ n.ret = r.ret /\ n.raising = TRUE
         /\ n.inside = r.inside /\ n.owns = r.owns /\ n.due = r.due /\ n.zero = r.zero
  BY DEF Land, TaskStates, PCs

LEMMA LandWait ==
  ASSUME NEW r \in TaskStates
  PROVE  LET n == Land(r, "cwait") IN
         /\ n \in TaskStates
         /\ n.pc = "arm" /\ n.prog = r.prog /\ n.obj = "cond" /\ n.hand = r.hand
         /\ n.offer = r.offer /\ n.left = r.left /\ n.ret = r.ret /\ n.raising = r.raising
         /\ n.inside = r.inside /\ n.owns = r.owns /\ n.due = r.due /\ n.zero = r.zero
  BY DEF Land, TaskStates, PCs, Lists

LEMMA LandAt ==
  ASSUME NEW r \in TaskStates, NEW l \in PCs \ {"raise", "cwait"}
  PROVE  LET n == Land(r, l) IN
         /\ n \in TaskStates
         /\ n.pc = l /\ n.prog = r.prog /\ n.obj = r.obj /\ n.hand = r.hand
         /\ n.offer = r.offer /\ n.left = r.left /\ n.ret = r.ret /\ n.raising = r.raising
         /\ n.inside = r.inside /\ n.owns = r.owns /\ n.due = r.due /\ n.zero = r.zero
  BY ZenonT(40) DEF Land, TaskStates, PCs

LEMMA WakingFields ==
  ASSUME NEW r \in TaskStates, NEW o, NEW k, NEW l
  PROVE  LET n == Waking(r, o, k, l) IN
         /\ n.pc = "wake" /\ n.prog = r.prog /\ n.obj = o /\ n.hand = r.hand
         /\ n.offer = r.offer /\ n.left = k /\ n.ret = l /\ n.raising = r.raising
         /\ n.owns = r.owns /\ n.zero = r.zero
  BY DEF Waking, TaskStates

LEMMA WakingTyped ==
  ASSUME NEW r \in TaskStates, NEW o \in Lists \cup {"hand"}, NEW k \in Int,
         NEW l \in {"run", "next", "raise", "cwait"}
  PROVE  Waking(r, o, k, l) \in TaskStates
  BY DEF Waking, TaskStates, PCs

LEMMA HandFields ==
  ASSUME NEW r \in TaskStates, NEW s \in Seq(Futs), NEW k \in Int
  PROVE  LET n == [Waking(r, "hand", k, "next") EXCEPT !.hand = s] IN
         /\ n \in TaskStates
         /\ n.pc = "wake" /\ n.prog = r.prog /\ n.obj = "hand" /\ n.hand = s
         /\ n.offer = r.offer /\ n.left = k /\ n.ret = "next" /\ n.raising = r.raising
         /\ n.owns = r.owns /\ n.zero = r.zero
  BY DEF Waking, TaskStates, PCs

LEMMA AcquiredFields ==
  ASSUME NEW r \in TaskStates
  PROVE  LET n == [r EXCEPT !.inside = TRUE, !.owns = TRUE] IN
         /\ n \in TaskStates
         /\ n.pc = r.pc /\ n.prog = r.prog /\ n.obj = r.obj /\ n.hand = r.hand
         /\ n.offer = r.offer /\ n.left = r.left /\ n.ret = r.ret /\ n.raising = r.raising
         /\ n.owns = TRUE /\ n.zero = r.zero
  BY DEF TaskStates

ReleaseOf(r, l) == [Waking(r, "lock", 1, l) EXCEPT !.owns = FALSE, !.inside = (l = "cwait")]

LEMMA ReleasingFields ==
  ASSUME NEW r \in TaskStates, NEW l \in {"next", "raise", "cwait"}
  PROVE  LET n == ReleaseOf(r, l) IN
         /\ n \in TaskStates
         /\ n.pc = "wake" /\ n.prog = r.prog /\ n.obj = "lock" /\ n.hand = r.hand
         /\ n.offer = r.offer /\ n.left = 1 /\ n.ret = l /\ n.raising = r.raising
         /\ n.owns = FALSE /\ n.zero = r.zero
<1> PICK w : w = Waking(r, "lock", 1, l)
  OBVIOUS
<1>1. w \in TaskStates
  <2>1. "lock" \in Lists \cup {"hand"} /\ l \in {"run", "next", "raise", "cwait"}
    BY DEF Lists
  <2> QED
    BY <2>1, WakingTyped
<1>2. /\ w.pc = "wake" /\ w.prog = r.prog /\ w.obj = "lock" /\ w.hand = r.hand
      /\ w.offer = r.offer /\ w.left = 1 /\ w.ret = l /\ w.raising = r.raising
      /\ w.owns = r.owns /\ w.zero = r.zero
  BY WakingFields
<1> QED
  BY <1>1, <1>2, ZenonT(40) DEF TaskStates, ReleaseOf

LEMMA PassingFields ==
  ASSUME NEW r \in TaskStates
  PROVE  LET n == [Waking(r, "lock", 1, "raise") EXCEPT !.raising = TRUE] IN
         /\ n \in TaskStates
         /\ n.pc = "wake" /\ n.prog = r.prog /\ n.obj = "lock" /\ n.hand = r.hand
         /\ n.offer = r.offer /\ n.left = 1 /\ n.ret = "raise" /\ n.raising = TRUE
         /\ n.owns = r.owns /\ n.zero = r.zero
<1> PICK w : w = Waking(r, "lock", 1, "raise")
  OBVIOUS
<1>1. w \in TaskStates
  BY WakingTyped DEF Lists
<1>2. /\ w.pc = "wake" /\ w.prog = r.prog /\ w.obj = "lock" /\ w.hand = r.hand
      /\ w.offer = r.offer /\ w.left = 1 /\ w.ret = "raise" /\ w.raising = r.raising
      /\ w.owns = r.owns /\ w.zero = r.zero
  BY WakingFields
<1> QED
  BY <1>1, <1>2 DEF TaskStates

LEMMA EndFields ==
  ASSUME NEW r \in TaskStates, r.prog # <<>>, r.ret # "run"
  PROVE  LET n == Land(r, r.ret) IN
         /\ n \in TaskStates
         /\ n.hand = r.hand /\ n.ret = r.ret /\ n.owns = r.owns /\ n.zero = r.zero
         /\ \/ /\ r.ret = "next"
               /\ n.pc = "run" /\ n.obj = r.obj /\ n.prog = Tail(r.prog) /\ n.raising = r.raising
            \/ /\ r.ret = "raise"
               /\ n.pc = "raise" /\ n.obj = r.obj /\ n.prog = r.prog /\ n.raising = TRUE
            \/ /\ r.ret = "cwait"
               /\ n.pc = "arm" /\ n.obj = "cond" /\ n.prog = r.prog /\ n.raising = r.raising
<1>1. r.ret = "next" \/ r.ret = "raise" \/ r.ret = "cwait"
  BY DEF TaskStates
<1>2. CASE r.ret = "next"
  BY <1>2, LandNext
<1>3. CASE r.ret = "raise"
  <2> PICK n : n = Land(r, "raise")
    OBVIOUS
  <2>1. /\ n \in TaskStates
        /\ n.pc = "raise" /\ n.prog = r.prog /\ n.obj = r.obj /\ n.hand = r.hand
        /\ n.ret = r.ret /\ n.raising = TRUE /\ n.owns = r.owns /\ n.zero = r.zero
    BY LandRaise
  <2>2. Land(r, r.ret) = n
    BY <1>3
  <2> QED
    BY ONLY <1>3, <2>1, <2>2
<1>4. CASE r.ret = "cwait"
  BY <1>4, LandWait
<1> QED
  BY <1>1, <1>2, <1>3, <1>4

-----------------------------------------------------------------------------
\* What a step does to the tasks.  No invariant is about inside or due, and only JoinInv is
\* about zero.

HandKept(t) ==
  /\ task'[t].hand = task[t].hand /\ task'[t].offer = task[t].offer
  /\ task'[t].left = task[t].left /\ task'[t].ret = task[t].ret

CallKept(t) ==
  task'[t].prog = task[t].prog /\ task'[t].raising = task[t].raising

Same(t) ==
  /\ task'[t].pc = task[t].pc /\ task'[t].obj = task[t].obj
  /\ HandKept(t) /\ CallKept(t) /\ task'[t].owns = task[t].owns

Frame(t) == task' \in [Tasks -> TaskStates] /\ \A u \in Tasks : u # t => Same(u)

\* It returns from its call.
Returns(t) ==
  /\ Frame(t)
  /\ task'[t].pc = "run" /\ task'[t].obj = task[t].obj /\ task'[t].prog = Tail(task[t].prog)
  /\ HandKept(t) /\ task'[t].raising = task[t].raising

\* It goes on at l, in the same call.
Turns(t, l) ==
  Frame(t) /\ task'[t].pc = l /\ task'[t].obj = task[t].obj /\ HandKept(t) /\ CallKept(t)

\* It awaits a future it has put in list o.
Sleeps(t, o) ==
  Frame(t) /\ task'[t].pc = "arm" /\ task'[t].obj = o /\ HandKept(t) /\ CallKept(t)

\* It starts to wake a waiter of list o.
Rouses(t, o, l) ==
  /\ Frame(t)
  /\ task'[t].pc = "wake" /\ task'[t].obj = o /\ task'[t].left = 1 /\ task'[t].ret = l
  /\ task'[t].hand = task[t].hand /\ task'[t].offer = task[t].offer
  /\ task'[t].prog = task[t].prog

\* It starts to wake all that s holds.
Empties(t, s) ==
  /\ Frame(t)
  /\ task'[t].pc = "wake" /\ task'[t].obj = "hand" /\ task'[t].left = Len(s)
  /\ task'[t].ret = "next" /\ task'[t].hand = s /\ CallKept(t)

\* An exception is raised.
Raises(t) ==
  /\ Frame(t)
  /\ task'[t].pc = "raise" /\ task'[t].raising /\ task'[t].obj = task[t].obj
  /\ task'[t].hand = task[t].hand /\ task'[t].prog = task[t].prog
  /\ task'[t].ret = task[t].ret

\* The loop is over, and it goes on where it was to.
Ends(t) ==
  /\ Frame(t)
  /\ task'[t].owns = task[t].owns /\ task'[t].ret = task[t].ret
  /\ \/ /\ task[t].ret = "next"
        /\ task'[t].pc = "run" /\ task'[t].obj = task[t].obj
        /\ task'[t].prog = Tail(task[t].prog) /\ task'[t].raising = task[t].raising
     \/ /\ task[t].ret = "raise"
        /\ task'[t].pc = "raise" /\ task'[t].obj = task[t].obj
        /\ task'[t].prog = task[t].prog /\ task'[t].raising
     \/ /\ task[t].ret = "cwait"
        /\ task'[t].pc = "arm" /\ task'[t].obj = "cond" /\ CallKept(t)

OwnsKept(t) == task'[t].owns = task[t].owns
ZerosKept   == \A u \in Tasks : task'[u].zero = task[u].zero

-----------------------------------------------------------------------------
\* The forms in which the actions write it.

LEMMA TaskTyped == ASSUME TypeOK, NEW t \in Tasks PROVE task[t] \in TaskStates
  BY DEF TypeOK

LEMMA SetTask ==
  ASSUME TypeOK, NEW t \in Tasks, NEW n \in TaskStates, task' = [task EXCEPT ![t] = n]
  PROVE  /\ Frame(t) /\ task'[t] = n
         /\ \A u \in Tasks : u # t => task'[u].zero = task[u].zero
<1>1. task \in [Tasks -> TaskStates]
  BY DEF TypeOK
<1>2. task' \in [Tasks -> TaskStates] /\ task'[t] = n /\ \A u \in Tasks : u # t => task'[u] = task[u]
  BY <1>1
<1> QED
  BY <1>2 DEF Frame, Same, HandKept, CallKept

LEMMA SetReturn ==
  ASSUME TypeOK, NEW t \in Tasks, task[t].prog # <<>>,
         task' = [task EXCEPT ![t] = Land(@, "next")]
  PROVE  Returns(t) /\ OwnsKept(t) /\ ZerosKept
<1> PICK r \in TaskStates : r = task[t]
  BY TaskTyped
<1> PICK n : n = Land(r, "next")
  OBVIOUS
<1>1. /\ n \in TaskStates
      /\ n.pc = "run" /\ n.prog = Tail(r.prog) /\ n.obj = r.obj /\ n.hand = r.hand
      /\ n.offer = r.offer /\ n.left = r.left /\ n.ret = r.ret /\ n.raising = r.raising
      /\ n.owns = r.owns /\ n.zero = r.zero
  BY LandNext
<1>2. Frame(t) /\ task'[t] = n /\ \A u \in Tasks : u # t => task'[u].zero = task[u].zero
  BY <1>1, SetTask
<1> QED
  BY <1>1, <1>2 DEF Returns, HandKept, OwnsKept, ZerosKept

LEMMA SetPc ==
  ASSUME TypeOK, NEW t \in Tasks, NEW l \in PCs, task' = [task EXCEPT ![t].pc = l]
  PROVE  Turns(t, l) /\ OwnsKept(t) /\ ZerosKept
<1> PICK r \in TaskStates : r = task[t]
  BY TaskTyped
<1> PICK n : n = [r EXCEPT !.pc = l]
  OBVIOUS
<1>1. /\ n \in TaskStates
      /\ n.pc = l /\ n.prog = r.prog /\ n.obj = r.obj /\ n.hand = r.hand
      /\ n.offer = r.offer /\ n.left = r.left /\ n.ret = r.ret /\ n.raising = r.raising
      /\ n.owns = r.owns /\ n.zero = r.zero
  BY DEF TaskStates
<1>2. Frame(t) /\ task'[t] = n /\ \A u \in Tasks : u # t => task'[u].zero = task[u].zero
  BY <1>1, SetTask
<1> QED
  BY <1>1, <1>2 DEF Turns, HandKept, CallKept, OwnsKept, ZerosKept

LEMMA SetAt ==
  ASSUME TypeOK, NEW t \in Tasks, NEW l \in PCs \ {"raise", "cwait"},
         task' = [task EXCEPT ![t] = Land(@, l)]
  PROVE  Turns(t, l) /\ OwnsKept(t) /\ ZerosKept
<1> PICK r \in TaskStates : r = task[t]
  BY TaskTyped
<1> PICK n : n = Land(r, l)
  OBVIOUS
<1>1. /\ n \in TaskStates
      /\ n.pc = l /\ n.prog = r.prog /\ n.obj = r.obj /\ n.hand = r.hand
      /\ n.offer = r.offer /\ n.left = r.left /\ n.ret = r.ret /\ n.raising = r.raising
      /\ n.owns = r.owns /\ n.zero = r.zero
  BY LandAt
<1>2. Frame(t) /\ task'[t] = n /\ \A u \in Tasks : u # t => task'[u].zero = task[u].zero
  BY <1>1, SetTask
<1> QED
  BY <1>1, <1>2 DEF Turns, HandKept, CallKept, OwnsKept, ZerosKept

LEMMA SetRaise ==
  ASSUME TypeOK, NEW t \in Tasks, task' = [task EXCEPT ![t] = Land(@, "raise")]
  PROVE  Raises(t) /\ OwnsKept(t) /\ ZerosKept
<1> PICK r \in TaskStates : r = task[t]
  BY TaskTyped
<1> PICK n : n = Land(r, "raise")
  OBVIOUS
<1>1. /\ n \in TaskStates
      /\ n.pc = "raise" /\ n.prog = r.prog /\ n.obj = r.obj /\ n.hand = r.hand
      /\ n.offer = r.offer /\ n.left = r.left /\ n.ret = r.ret /\ n.raising = TRUE
      /\ n.owns = r.owns /\ n.zero = r.zero
  BY LandRaise
<1>2. Frame(t) /\ task'[t] = n /\ \A u \in Tasks : u # t => task'[u].zero = task[u].zero
  BY <1>1, SetTask
<1> QED
  BY <1>1, <1>2 DEF Raises, OwnsKept, ZerosKept

LEMMA SetArm ==
  ASSUME TypeOK, NEW t \in Tasks, NEW o \in Lists,
         task' = [task EXCEPT ![t].obj = o, ![t].pc = "arm"]
  PROVE  Sleeps(t, o) /\ OwnsKept(t) /\ ZerosKept
<1> PICK n : n = [task[t] EXCEPT !.obj = o, !.pc = "arm"]
  OBVIOUS
<1>1. /\ n \in TaskStates
      /\ n.pc = "arm" /\ n.prog = task[t].prog /\ n.obj = o /\ n.hand = task[t].hand
      /\ n.offer = task[t].offer /\ n.left = task[t].left /\ n.ret = task[t].ret
      /\ n.raising = task[t].raising /\ n.owns = task[t].owns /\ n.zero = task[t].zero
  BY TaskTyped DEF TaskStates, PCs
<1>2. task' = [task EXCEPT ![t] = n]
  BY DEF TypeOK
<1>3. Frame(t) /\ task'[t] = n /\ \A u \in Tasks : u # t => task'[u].zero = task[u].zero
  BY <1>1, <1>2, SetTask
<1> QED
  BY <1>1, <1>3 DEF Sleeps, HandKept, CallKept, OwnsKept, ZerosKept

LEMMA SetWaking ==
  ASSUME TypeOK, NEW t \in Tasks, NEW o \in Lists, NEW l \in {"next", "raise", "cwait"},
         task' = [task EXCEPT ![t] = Waking(@, o, 1, l)]
  PROVE  /\ Rouses(t, o, l) /\ OwnsKept(t) /\ ZerosKept
         /\ task'[t].raising = task[t].raising
<1> PICK r \in TaskStates : r = task[t]
  BY TaskTyped
<1> PICK n : n = Waking(r, o, 1, l)
  OBVIOUS
<1>1. /\ n \in TaskStates
      /\ n.pc = "wake" /\ n.prog = r.prog /\ n.obj = o /\ n.hand = r.hand
      /\ n.offer = r.offer /\ n.left = 1 /\ n.ret = l /\ n.raising = r.raising
      /\ n.owns = r.owns /\ n.zero = r.zero
  BY WakingFields, WakingTyped
<1>2. Frame(t) /\ task'[t] = n /\ \A u \in Tasks : u # t => task'[u].zero = task[u].zero
  BY <1>1, SetTask
<1> QED
  BY <1>1, <1>2 DEF Rouses, OwnsKept, ZerosKept

LEMMA SetHand ==
  ASSUME TypeOK, NEW t \in Tasks, NEW s \in Seq(Futs),
         task' = [task EXCEPT ![t] = [Waking(@, "hand", Len(s), "next") EXCEPT !.hand = s]]
  PROVE  Empties(t, s) /\ OwnsKept(t) /\ ZerosKept
<1> PICK r \in TaskStates : r = task[t]
  BY TaskTyped
<1> PICK k \in Int : k = Len(s)
  OBVIOUS
<1> PICK n : n = [Waking(r, "hand", k, "next") EXCEPT !.hand = s]
  OBVIOUS
<1>1. /\ n \in TaskStates
      /\ n.pc = "wake" /\ n.prog = r.prog /\ n.obj = "hand" /\ n.hand = s
      /\ n.left = k /\ n.ret = "next" /\ n.raising = r.raising /\ n.owns = r.owns
      /\ n.zero = r.zero
  BY HandFields
<1>2. task' = [task EXCEPT ![t] = n]
  OBVIOUS
<1>3. Frame(t) /\ task'[t] = n /\ \A u \in Tasks : u # t => task'[u].zero = task[u].zero
  BY ONLY TypeOK, t \in Tasks, <1>1, <1>2, SetTask
<1> QED
  BY <1>1, <1>3, ZenonT(40) DEF Empties, CallKept, OwnsKept, ZerosKept

LEMMA SetAcquired ==
  ASSUME TypeOK, NEW t \in Tasks, task[t].prog # <<>>,
         task' = [task EXCEPT ![t] = Land([@ EXCEPT !.inside = TRUE, !.owns = TRUE],
                                          IF task[t].raising THEN "raise" ELSE "next")]
  PROVE  /\ IF task[t].raising THEN Raises(t) ELSE Returns(t)
         /\ task'[t].owns /\ ZerosKept
<1> PICK r \in TaskStates : r = task[t]
  BY TaskTyped
<1> PICK w : w = [r EXCEPT !.inside = TRUE, !.owns = TRUE]
  OBVIOUS
<1>1. /\ w \in TaskStates
      /\ w.pc = r.pc /\ w.prog = r.prog /\ w.obj = r.obj /\ w.hand = r.hand
      /\ w.offer = r.offer /\ w.left = r.left /\ w.ret = r.ret /\ w.raising = r.raising
      /\ w.owns = TRUE /\ w.zero = r.zero
  BY AcquiredFields
<1>2. CASE r.raising
  <2> PICK n : n = Land(w, "raise")
    OBVIOUS
  <2>1. /\ n \in TaskStates
        /\ n.pc = "raise" /\ n.prog = r.prog /\ n.obj = r.obj /\ n.hand = r.hand
        /\ n.ret = r.ret /\ n.raising = TRUE /\ n.owns = TRUE /\ n.zero = r.zero
    BY <1>1, LandRaise
  <2>2. task' = [task EXCEPT ![t] = n]
    BY <1>2
  <2>3. Frame(t) /\ task'[t] = n /\ \A u \in Tasks : u # t => task'[u].zero = task[u].zero
    BY ONLY TypeOK, t \in Tasks, <2>1, <2>2, SetTask
  <2> QED
    BY <1>2, <2>1, <2>3 DEF Raises, ZerosKept
<1>3. CASE ~r.raising
  <2> PICK n : n = Land(w, "next")
    OBVIOUS
  <2>1. /\ n \in TaskStates
        /\ n.pc = "run" /\ n.prog = Tail(r.prog) /\ n.obj = r.obj /\ n.hand = r.hand
        /\ n.offer = r.offer /\ n.left = r.left /\ n.ret = r.ret /\ n.raising = r.raising
        /\ n.owns = TRUE /\ n.zero = r.zero
    BY <1>1, LandNext, ZenonT(40)
  <2>2. task' = [task EXCEPT ![t] = n]
    BY <1>3
  <2>3. Frame(t) /\ task'[t] = n /\ \A u \in Tasks : u # t => task'[u].zero = task[u].zero
    BY <2>1, <2>2, SetTask
  <2> QED
    BY <1>3, <2>1, <2>3 DEF Returns, HandKept, ZerosKept
<1> QED
  BY <1>2, <1>3

LEMMA SetReleasing ==
  ASSUME TypeOK, NEW t \in Tasks, NEW l \in {"next", "raise", "cwait"},
         task' = [task EXCEPT ![t] = [Waking(@, "lock", 1, l) EXCEPT !.owns = FALSE,
                                                                     !.inside = (l = "cwait")]]
  PROVE  /\ Rouses(t, "lock", l) /\ ZerosKept
         /\ task'[t].owns = FALSE /\ task'[t].raising = task[t].raising
<1> PICK r \in TaskStates : r = task[t]
  BY TaskTyped
<1> PICK n : n = ReleaseOf(r, l)
  OBVIOUS
<1>1. /\ n \in TaskStates
      /\ n.pc = "wake" /\ n.prog = r.prog /\ n.obj = "lock" /\ n.hand = r.hand
      /\ n.offer = r.offer /\ n.left = 1 /\ n.ret = l /\ n.raising = r.raising
      /\ n.owns = FALSE /\ n.zero = r.zero
  BY ONLY r \in TaskStates, l \in {"next", "raise", "cwait"}, n = ReleaseOf(r, l),
          ReleasingFields, ZenonT(40)
<1>2. task' = [task EXCEPT ![t] = n]
  BY DEF ReleaseOf
<1>3. Frame(t) /\ task'[t] = n /\ \A u \in Tasks : u # t => task'[u].zero = task[u].zero
  BY ONLY TypeOK, t \in Tasks, <1>1, <1>2, SetTask
<1> QED
  BY ONLY r = task[t], t \in Tasks, <1>1, <1>3 DEF Rouses, ZerosKept

LEMMA SetPassing ==
  ASSUME TypeOK, NEW t \in Tasks,
         task' = [task EXCEPT ![t] = [Waking(@, "lock", 1, "raise") EXCEPT !.raising = TRUE]]
  PROVE  Rouses(t, "lock", "raise") /\ OwnsKept(t) /\ ZerosKept /\ task'[t].raising
<1> PICK r \in TaskStates : r = task[t]
  BY TaskTyped
<1> PICK n : n = [Waking(r, "lock", 1, "raise") EXCEPT !.raising = TRUE]
  OBVIOUS
<1>1. /\ n \in TaskStates
      /\ n.pc = "wake" /\ n.prog = r.prog /\ n.obj = "lock" /\ n.hand = r.hand
      /\ n.offer = r.offer /\ n.left = 1 /\ n.ret = "raise" /\ n.raising = TRUE
      /\ n.owns = r.owns /\ n.zero = r.zero
  BY PassingFields
<1>2. task' = [task EXCEPT ![t] = n]
  OBVIOUS
<1>3. Frame(t) /\ task'[t] = n /\ \A u \in Tasks : u # t => task'[u].zero = task[u].zero
  BY ONLY TypeOK, t \in Tasks, <1>1, <1>2, SetTask
<1> QED
  BY ONLY r = task[t], t \in Tasks, <1>1, <1>3 DEF Rouses, OwnsKept, ZerosKept

LEMMA SetEnds ==
  ASSUME TypeOK, Busy, NEW t \in Tasks, Wakes(t), NEW w \in TaskStates,
         w.prog = task[t].prog, w.obj = task[t].obj, w.ret = task[t].ret,
         w.raising = task[t].raising, w.owns = task[t].owns, w.zero = task[t].zero,
         task' = [task EXCEPT ![t] = Land(w, w.ret)]
  PROVE  Ends(t) /\ ZerosKept /\ task'[t].hand = w.hand
<1> PICK n : n = Land(w, w.ret)
  OBVIOUS
<1>1. w.prog # <<>> /\ w.ret # "run"
  BY DEF Busy, BusyAt, Wakes
<1>2. /\ n \in TaskStates
      /\ n.hand = w.hand /\ n.ret = w.ret /\ n.owns = w.owns /\ n.zero = w.zero
      /\ \/ /\ w.ret = "next"
            /\ n.pc = "run" /\ n.obj = w.obj /\ n.prog = Tail(w.prog) /\ n.raising = w.raising
         \/ /\ w.ret = "raise"
            /\ n.pc = "raise" /\ n.obj = w.obj /\ n.prog = w.prog /\ n.raising = TRUE
         \/ /\ w.ret = "cwait"
            /\ n.pc = "arm" /\ n.obj = "cond" /\ n.prog = w.prog /\ n.raising = w.raising
  BY <1>1, EndFields
<1>3. task' = [task EXCEPT ![t] = n]
  OBVIOUS
<1>4. Frame(t) /\ task'[t] = n /\ \A u \in Tasks : u # t => task'[u].zero = task[u].zero
  BY <1>2, <1>3, SetTask
<1> QED
  BY <1>2, <1>4 DEF Ends, CallKept, ZerosKept

ArmedOf(r, l) == [r EXCEPT !.due = FALSE, !.pc = l]

LEMMA SetArmed ==
  ASSUME TypeOK, NEW t \in Tasks, NEW l \in PCs,
         task' = [task EXCEPT ![t].due = FALSE, ![t].pc = l]
  PROVE  Turns(t, l) /\ OwnsKept(t) /\ ZerosKept
<1> PICK r \in TaskStates : r = task[t]
  BY TaskTyped
<1> PICK n : n = ArmedOf(r, l)
  OBVIOUS
<1>1. /\ n \in TaskStates
      /\ n.pc = l /\ n.prog = r.prog /\ n.obj = r.obj /\ n.hand = r.hand /\ n.offer = r.offer
      /\ n.left = r.left /\ n.ret = r.ret /\ n.raising = r.raising /\ n.owns = r.owns
      /\ n.zero = r.zero
  BY ONLY r \in TaskStates, n = ArmedOf(r, l), l \in PCs DEF TaskStates, ArmedOf
<1>2. task' = [task EXCEPT ![t] = n]
  BY DEF ArmedOf, TypeOK
<1>3. Frame(t) /\ task'[t] = n /\ \A u \in Tasks : u # t => task'[u].zero = task[u].zero
  BY ONLY TypeOK, t \in Tasks, <1>1, <1>2, SetTask
<1> QED
  BY ONLY r = task[t], t \in Tasks, <1>1, <1>3 DEF Turns, HandKept, CallKept, OwnsKept, ZerosKept

BackOf(r) == [r EXCEPT !.pc = "relock", !.raising = TRUE]

LEMMA SetBack ==
  ASSUME TypeOK, NEW t \in Tasks, 
         task' = [task EXCEPT ![t] = [@ EXCEPT !.pc = "relock", !.raising = TRUE]]
  PROVE  /\ Frame(t) /\ OwnsKept(t) /\ ZerosKept
         /\ task'[t].pc = "relock" /\ task'[t].raising /\ task'[t].obj = task[t].obj
         /\ task'[t].prog = task[t].prog /\ HandKept(t)
<1> PICK r \in TaskStates : r = task[t]
  BY TaskTyped
<1> PICK n : n = BackOf(r)
  OBVIOUS
<1>1. /\ n \in TaskStates
      /\ n.pc = "relock" /\ n.prog = r.prog /\ n.obj = r.obj /\ n.hand = r.hand
      /\ n.offer = r.offer /\ n.left = r.left /\ n.ret = r.ret /\ n.raising = TRUE
      /\ n.owns = r.owns /\ n.zero = r.zero
  BY ONLY r \in TaskStates, n = BackOf(r)
     DEF TaskStates, PCs, BackOf
<1>2. task' = [task EXCEPT ![t] = n]
  BY DEF BackOf, TypeOK
<1>3. Frame(t) /\ task'[t] = n /\ \A u \in Tasks : u # t => task'[u].zero = task[u].zero
  BY ONLY TypeOK, t \in Tasks, <1>1, <1>2, SetTask
<1> QED
  BY ONLY r = task[t], t \in Tasks, <1>1, <1>3 DEF HandKept, OwnsKept, ZerosKept

EndOf(r, e) == [r EXCEPT !.pc = "end", !.prog = e]

LEMMA SetEnd ==
  ASSUME TypeOK, NEW t \in Tasks, 
         task' = [task EXCEPT ![t].pc = "end", ![t].prog = <<>>]
  PROVE  /\ Frame(t) /\ OwnsKept(t) /\ ZerosKept
         /\ task'[t].pc = "end" /\ task'[t].prog = <<>> /\ task'[t].obj = task[t].obj
         /\ task'[t].raising = task[t].raising /\ HandKept(t)
<1> PICK r \in TaskStates : r = task[t]
  BY TaskTyped
<1> PICK e \in Seq(Ops) : e = <<>>
  BY ONLY EmptySeq
<1> PICK n : n = EndOf(r, e)
  OBVIOUS
<1>1. /\ n \in TaskStates
      /\ n.pc = "end" /\ n.prog = e /\ n.obj = r.obj /\ n.hand = r.hand
      /\ n.offer = r.offer /\ n.left = r.left /\ n.ret = r.ret /\ n.raising = r.raising
      /\ n.owns = r.owns /\ n.zero = r.zero
  BY ONLY r \in TaskStates, e \in Seq(Ops), n = EndOf(r, e)
     DEF TaskStates, PCs, EndOf
<1>2. task' = [task EXCEPT ![t] = n]
  BY DEF EndOf, TypeOK
<1>3. Frame(t) /\ task'[t] = n /\ \A u \in Tasks : u # t => task'[u].zero = task[u].zero
  BY ONLY TypeOK, t \in Tasks, <1>1, <1>2, SetTask
<1> QED
  BY ONLY r = task[t], e = <<>>, t \in Tasks, <1>1, <1>3 DEF HandKept, OwnsKept, ZerosKept

DueOf(r) == [r EXCEPT !.due = TRUE]

LEMMA SetDue ==
  ASSUME TypeOK, NEW t \in Tasks, 
         task' = [task EXCEPT ![t].due = TRUE]
  PROVE  task' \in [Tasks -> TaskStates] /\ (\A u \in Tasks : Same(u)) /\ ZerosKept
<1> PICK r \in TaskStates : r = task[t]
  BY TaskTyped
<1> PICK n : n = DueOf(r)
  OBVIOUS
<1>1. /\ n \in TaskStates
      /\ n.pc = r.pc /\ n.prog = r.prog /\ n.obj = r.obj /\ n.hand = r.hand
      /\ n.offer = r.offer /\ n.left = r.left /\ n.ret = r.ret /\ n.raising = r.raising
      /\ n.owns = r.owns /\ n.zero = r.zero
  BY ONLY r \in TaskStates, n = DueOf(r)
     DEF TaskStates, DueOf
<1>2. task' = [task EXCEPT ![t] = n]
  BY DEF DueOf, TypeOK
<1>3. Frame(t) /\ task'[t] = n /\ \A u \in Tasks : u # t => task'[u].zero = task[u].zero
  BY ONLY TypeOK, t \in Tasks, <1>1, <1>2, SetTask
<1> QED
  BY ONLY r = task[t], t \in Tasks, <1>1, <1>3 DEF Frame, Same, HandKept, CallKept, ZerosKept

UndueOf(r) == [r EXCEPT !.due = FALSE]

LEMMA SetUndue ==
  ASSUME TypeOK, NEW t \in Tasks, task' = [task EXCEPT ![t] = Land([@ EXCEPT !.due = FALSE], "raise")]
  PROVE  Raises(t) /\ OwnsKept(t) /\ ZerosKept
<1> PICK r \in TaskStates : r = task[t]
  BY TaskTyped
<1> PICK w : w = UndueOf(r)
  OBVIOUS
<1>0. /\ w \in TaskStates
      /\ w.prog = r.prog /\ w.obj = r.obj /\ w.hand = r.hand /\ w.ret = r.ret
      /\ w.owns = r.owns /\ w.zero = r.zero
  BY ONLY r \in TaskStates, w = UndueOf(r) DEF TaskStates, UndueOf
<1> PICK n : n = Land(w, "raise")
  OBVIOUS
<1>1. /\ n \in TaskStates
      /\ n.pc = "raise" /\ n.prog = r.prog /\ n.obj = r.obj /\ n.hand = r.hand
      /\ n.ret = r.ret /\ n.raising = TRUE /\ n.owns = r.owns /\ n.zero = r.zero
  BY ONLY <1>0, n = Land(w, "raise"), LandRaise
<1>2. task' = [task EXCEPT ![t] = n]
  BY DEF UndueOf, TypeOK
<1>3. Frame(t) /\ task'[t] = n /\ \A u \in Tasks : u # t => task'[u].zero = task[u].zero
  BY ONLY TypeOK, t \in Tasks, <1>1, <1>2, SetTask
<1> QED
  BY ONLY r = task[t], t \in Tasks, <1>1, <1>3 DEF Raises, OwnsKept, ZerosKept

\* The effects of the actions that have a form of their own.

JoinOf(r, z) == [r EXCEPT !.zero = z]

LEMMA JoinDoes ==
  ASSUME TypeOK, Busy, NEW t \in Tasks, Join(t)
  PROVE  /\ IF unfinished > 0 THEN Turns(t, "joining") ELSE Returns(t)
         /\ OwnsKept(t) /\ \A u \in Tasks : u # t => task'[u].zero = task[u].zero
         /\ task'[t].zero = (unfinished = 0 \/ \E u \in Tasks : At(u, "clear"))
<1> PICK r \in TaskStates : r = task[t]
  BY TaskTyped
<1> PICK z \in BOOLEAN : z = (unfinished = 0 \/ \E u \in Tasks : At(u, "clear"))
  OBVIOUS
<1> PICK w : w = JoinOf(r, z)
  OBVIOUS
<1>1. /\ w \in TaskStates
      /\ w.prog = r.prog /\ w.obj = r.obj /\ w.hand = r.hand /\ w.offer = r.offer
      /\ w.left = r.left /\ w.ret = r.ret /\ w.raising = r.raising /\ w.owns = r.owns
      /\ w.zero = z
  BY ONLY r \in TaskStates, z \in BOOLEAN, w = JoinOf(r, z) DEF TaskStates, JoinOf
<1>2. r.prog # <<>>
  BY DEF Join, Calls
<1>3. task' = [task EXCEPT ![t] = Land(w, IF unfinished > 0 THEN "joining" ELSE "next")]
  BY DEF Join, JoinOf
<1>4. CASE unfinished > 0
  <2> PICK n : n = Land(w, "joining")
    OBVIOUS
  <2>1. /\ n \in TaskStates
        /\ n.pc = "joining" /\ n.prog = r.prog /\ n.obj = r.obj /\ n.hand = r.hand
        /\ n.offer = r.offer /\ n.left = r.left /\ n.ret = r.ret /\ n.raising = r.raising
        /\ n.owns = r.owns /\ n.zero = z
    <3>1. "joining" \in PCs \ {"raise", "cwait"}
      BY DEF PCs
    <3> QED
      BY ONLY <1>1, <3>1, n = Land(w, "joining"), LandAt
  <2>2. task' = [task EXCEPT ![t] = n]
    BY <1>3, <1>4
  <2>3. Frame(t) /\ task'[t] = n /\ \A u \in Tasks : u # t => task'[u].zero = task[u].zero
    BY ONLY TypeOK, t \in Tasks, <2>1, <2>2, SetTask
  <2>4. Turns(t, "joining") /\ OwnsKept(t) /\ task'[t].zero = z
    BY ONLY r = task[t], <2>1, <2>3 DEF Turns, HandKept, CallKept, OwnsKept
  <2> QED
    BY <1>4, <2>3, <2>4
<1>5. CASE ~(unfinished > 0)
  <2> PICK n : n = Land(w, "next")
    OBVIOUS
  <2>1. /\ n \in TaskStates
        /\ n.pc = "run" /\ n.prog = Tail(r.prog) /\ n.obj = r.obj /\ n.hand = r.hand
        /\ n.offer = r.offer /\ n.left = r.left /\ n.ret = r.ret /\ n.raising = r.raising
        /\ n.owns = r.owns /\ n.zero = z
    BY ONLY <1>1, <1>2, n = Land(w, "next"), LandNext
  <2>2. task' = [task EXCEPT ![t] = n]
    BY <1>3, <1>5
  <2>3. Frame(t) /\ task'[t] = n /\ \A u \in Tasks : u # t => task'[u].zero = task[u].zero
    BY ONLY TypeOK, t \in Tasks, <2>1, <2>2, SetTask
  <2>4. Returns(t) /\ OwnsKept(t) /\ task'[t].zero = z
    BY ONLY r = task[t], <2>1, <2>3 DEF Returns, HandKept, OwnsKept
  <2> QED
    BY <1>5, <2>3, <2>4
<1> QED
  BY <1>4, <1>5

\* The waker t with its future offered, or raised.
OfferOf(r)  == [r EXCEPT !.offer = None, !.left = @ - 1]
RaiseOf(r)  == [r EXCEPT !.owns = @ \/ r.obj = "lock"]

LEMMA OfferFields ==
  ASSUME NEW r \in TaskStates
  PROVE  LET n == OfferOf(r) IN
         /\ n \in TaskStates
         /\ n.pc = r.pc /\ n.prog = r.prog /\ n.obj = r.obj /\ n.hand = r.hand
         /\ n.left = r.left - 1 /\ n.ret = r.ret /\ n.raising = r.raising
         /\ n.owns = r.owns /\ n.zero = r.zero
<1> PICK k \in Int : k = r.left - 1
  BY DEF TaskStates
<1> QED
  BY DEF OfferOf, TaskStates

\* set_result raises.
LEMMA OfferRaises ==
  ASSUME TypeOK, Busy, NEW t \in Tasks, Offer(t), Done(task[t].offer)
  PROVE  Raises(t) /\ ZerosKept /\ (task'[t].owns <=> task[t].owns \/ task[t].obj = "lock")
<1> PICK r \in TaskStates : r = task[t]
  BY TaskTyped
<1> PICK v : v = OfferOf(r)
  OBVIOUS
<1>1. /\ v \in TaskStates
      /\ v.prog = r.prog /\ v.obj = r.obj /\ v.hand = r.hand /\ v.ret = r.ret
      /\ v.zero = r.zero /\ v.owns = r.owns
  BY ONLY r \in TaskStates, v = OfferOf(r), OfferFields
<1> PICK z \in BOOLEAN : z <=> r.owns \/ r.obj = "lock"
  OBVIOUS
<1> PICK w : w = RaiseOf(v)
  OBVIOUS
<1>a. (v.owns \/ v.obj = "lock") = z
  BY <1>1
<1>2. /\ w \in TaskStates
      /\ w.prog = r.prog /\ w.obj = r.obj /\ w.hand = r.hand /\ w.ret = r.ret
      /\ w.zero = r.zero /\ w.owns = z
  BY ONLY <1>1, <1>a, z \in BOOLEAN, w = RaiseOf(v) DEF TaskStates, RaiseOf
<1> PICK n : n = Land(w, "raise")
  OBVIOUS
<1>3. /\ n \in TaskStates
      /\ n.pc = "raise" /\ n.prog = r.prog /\ n.obj = r.obj /\ n.hand = r.hand
      /\ n.ret = r.ret /\ n.raising = TRUE /\ n.owns = z /\ n.zero = r.zero
  BY ONLY <1>2, n = Land(w, "raise"), LandRaise
<1>4. task' = [task EXCEPT ![t] = n]
  BY DEF Offer, OfferOf, RaiseOf
<1>5. Frame(t) /\ task'[t] = n /\ \A u \in Tasks : u # t => task'[u].zero = task[u].zero
  BY ONLY TypeOK, t \in Tasks, <1>3, <1>4, SetTask
<1>6. task'[t].owns <=> task[t].owns \/ task[t].obj = "lock"
  BY <1>3, <1>5
<1> QED
  BY ONLY r = task[t], t \in Tasks, <1>3, <1>5, <1>6 DEF Raises, ZerosKept

\* It is the last one.
LEMMA OfferEnds ==
  ASSUME TypeOK, Busy, NEW t \in Tasks, Offer(t), ~Done(task[t].offer), task[t].left = 1
  PROVE  Ends(t) /\ ZerosKept /\ task'[t].hand = task[t].hand
<1> PICK r \in TaskStates : r = task[t]
  BY TaskTyped
<1> PICK w : w = OfferOf(r)
  OBVIOUS
<1>1. /\ w \in TaskStates
      /\ w.prog = r.prog /\ w.obj = r.obj /\ w.hand = r.hand /\ w.ret = r.ret
      /\ w.raising = r.raising /\ w.owns = r.owns /\ w.zero = r.zero /\ w.left = r.left - 1
  BY ONLY r \in TaskStates, w = OfferOf(r), OfferFields
<1>2. task' = [task EXCEPT ![t] = Land(w, w.ret)]
  <2>1. w.left = 0
    BY <1>1
  <2> QED
    BY <2>1 DEF Offer, OfferOf
<1>3. Wakes(t)
  BY DEF Offer, At, Wakes
<1> QED
  BY ONLY TypeOK, Busy, t \in Tasks, r = task[t], <1>1, <1>2, <1>3, SetEnds

\* There may be more.
MoreOf(r) == [r EXCEPT !.pc = "wake"]

LEMMA OfferGoesOn ==
  ASSUME TypeOK, Busy, NEW t \in Tasks, Offer(t), ~Done(task[t].offer), task[t].left # 1
  PROVE  /\ Frame(t) /\ ZerosKept /\ OwnsKept(t) /\ CallKept(t)
         /\ task'[t].pc = "wake" /\ task'[t].obj = task[t].obj /\ task'[t].hand = task[t].hand
         /\ task'[t].left = task[t].left - 1 /\ task'[t].ret = task[t].ret
<1> PICK r \in TaskStates : r = task[t]
  BY TaskTyped
<1> PICK w : w = OfferOf(r)
  OBVIOUS
<1>1. /\ w \in TaskStates
      /\ w.prog = r.prog /\ w.obj = r.obj /\ w.hand = r.hand /\ w.ret = r.ret
      /\ w.raising = r.raising /\ w.owns = r.owns /\ w.zero = r.zero /\ w.left = r.left - 1
  BY ONLY r \in TaskStates, w = OfferOf(r), OfferFields
<1> PICK n : n = MoreOf(w)
  OBVIOUS
<1>2. /\ n \in TaskStates
      /\ n.pc = "wake" /\ n.prog = r.prog /\ n.obj = r.obj /\ n.hand = r.hand
      /\ n.ret = r.ret /\ n.raising = r.raising /\ n.owns = r.owns /\ n.zero = r.zero
      /\ n.left = r.left - 1
  BY ONLY <1>1, n = MoreOf(w) DEF TaskStates, PCs, MoreOf
<1>3. task' = [task EXCEPT ![t] = n]
  <2>1. w.left # 0
    BY <1>1 DEF TaskStates
  <2> QED
    BY <2>1 DEF Offer, OfferOf, MoreOf
<1>4. Frame(t) /\ task'[t] = n /\ \A u \in Tasks : u # t => task'[u].zero = task[u].zero
  BY ONLY TypeOK, t \in Tasks, <1>2, <1>3, SetTask
<1> QED
  BY ONLY r = task[t], t \in Tasks, <1>2, <1>4 DEF ZerosKept, OwnsKept, CallKept

HandOf(r, s) == [r EXCEPT !.hand = s]
PopOf(r, f)  == [r EXCEPT !.pc = "offer", !.offer = f]

LEMMA HandSet ==
  ASSUME NEW r \in TaskStates, NEW s \in Seq(Futs)
  PROVE  LET n == HandOf(r, s) IN
         /\ n \in TaskStates
         /\ n.pc = r.pc /\ n.prog = r.prog /\ n.obj = r.obj /\ n.hand = s
         /\ n.offer = r.offer /\ n.left = r.left /\ n.ret = r.ret /\ n.raising = r.raising
         /\ n.owns = r.owns /\ n.zero = r.zero
  BY DEF HandOf, TaskStates

LEMMA PopFields ==
  ASSUME NEW r \in TaskStates, NEW f \in Futs
  PROVE  LET n == PopOf(r, f) IN
         /\ n \in TaskStates
         /\ n.pc = "offer" /\ n.prog = r.prog /\ n.obj = r.obj /\ n.hand = r.hand
         /\ n.offer = f /\ n.left = r.left /\ n.ret = r.ret /\ n.raising = r.raising
         /\ n.owns = r.owns /\ n.zero = r.zero
  BY DEF PopOf, TaskStates, PCs

\* Nobody waits.
WakeEnds(t) ==
  /\ At(t, "wake") /\ Ends(t) /\ ZerosKept
  /\ \A i \in 1 .. Len(Source(t)) : Done(Source(t)[i])
  /\ \/ task[t].obj = "hand" /\ task'[t].hand = <<>> /\ UNCHANGED waiters
     \/ /\ task[t].obj \in Lists /\ task'[t].hand = task[t].hand
        /\ waiters' = [waiters EXCEPT ![task[t].obj] = <<>>]
  /\ mu' = Unlocked(t) /\ locked' = (locked /\ task[t].obj # "lock") /\ UNCHANGED fst

\* The i-th one is taken out.
WakePops(t, i) ==
  /\ At(t, "wake") /\ Frame(t) /\ ZerosKept /\ OwnsKept(t) /\ CallKept(t)
  /\ ~Done(Source(t)[i]) /\ \A j \in 1 .. (i - 1) : Done(Source(t)[j])
  /\ Source(t) \in Seq(Futs)
  /\ task'[t].pc = "offer" /\ task'[t].obj = task[t].obj /\ task'[t].offer = Source(t)[i]
  /\ task'[t].left = task[t].left /\ task'[t].ret = task[t].ret
  /\ \/ /\ task[t].obj = "hand" /\ UNCHANGED waiters
        /\ task'[t].hand = SubSeq(task[t].hand, i + 1, Len(task[t].hand))
     \/ /\ task[t].obj \in Lists /\ task'[t].hand = task[t].hand
        /\ waiters' = [waiters EXCEPT ![task[t].obj] = SubSeq(@, i + 1, Len(@))]
  /\ UNCHANGED <<mu, locked, fst>>

LEMMA SourceTyped == ASSUME TypeOK, NEW t \in Tasks PROVE Source(t) \in Seq(Futs)
<1>1. task[t].obj \in Lists \cup {"hand"} /\ task[t].hand \in Seq(Futs)
  BY TaskTyped DEF TaskStates
<1>2. waiters \in [Lists -> Seq(Futs)]
  BY DEF TypeOK
<1> QED
  BY <1>1, <1>2 DEF Source

LEMMA WakeDoes ==
  ASSUME TypeOK, Busy, NEW t \in Tasks, Wake(t)
  PROVE  WakeEnds(t) \/ \E i \in 1 .. Len(Source(t)) : WakePops(t, i)
<1> PICK r \in TaskStates : r = task[t]
  BY TaskTyped
<1>0. /\ At(t, "wake") /\ Wakes(t) /\ r.obj \in Lists \cup {"hand"} /\ UNCHANGED fst
      /\ Source(t) \in Seq(Futs)
  BY SourceTyped DEF Wake, At, Wakes, TaskStates
<1>1. ASSUME \A i \in 1 .. Len(Source(t)) : Done(Source(t)[i])
      PROVE  WakeEnds(t)
  <2>1. /\ SetSource(t, <<>>, Land(task[t], task[t].ret))
        /\ mu' = Unlocked(t)
        /\ locked' = (locked /\ task[t].obj # "lock")
    BY <1>1 DEF Wake
  <2> PICK w : w = Land(r, r.ret)
    OBVIOUS
  <2>2. r.prog # <<>> /\ r.ret # "run"
    BY <1>0 DEF Busy, BusyAt, Wakes
  <2>3. CASE r.obj = "hand"
    <3> PICK e \in Seq(Futs) : e = <<>>
      BY ONLY EmptySeq
    <3> PICK n : n = HandOf(w, e)
      OBVIOUS
    <3>1. /\ w \in TaskStates
          /\ w.ret = r.ret /\ w.owns = r.owns /\ w.zero = r.zero
          /\ \/ /\ r.ret = "next"
                /\ w.pc = "run" /\ w.obj = r.obj /\ w.prog = Tail(r.prog) /\ w.raising = r.raising
             \/ /\ r.ret = "raise"
                /\ w.pc = "raise" /\ w.obj = r.obj /\ w.prog = r.prog /\ w.raising = TRUE
             \/ /\ r.ret = "cwait"
                /\ w.pc = "arm" /\ w.obj = "cond" /\ w.prog = r.prog /\ w.raising = r.raising
      BY ONLY r \in TaskStates, <2>2, w = Land(r, r.ret), EndFields
    <3>2. /\ n \in TaskStates
          /\ n.pc = w.pc /\ n.prog = w.prog /\ n.obj = w.obj /\ n.hand = e /\ n.ret = w.ret
          /\ n.raising = w.raising /\ n.owns = w.owns /\ n.zero = w.zero
      BY ONLY <3>1, n = HandOf(w, e), e \in Seq(Futs), HandSet
    <3>3. task' = [task EXCEPT ![t] = n] /\ UNCHANGED waiters
      BY <2>1, <2>3 DEF SetSource, HandOf
    <3>4. Frame(t) /\ task'[t] = n /\ \A u \in Tasks : u # t => task'[u].zero = task[u].zero
      BY ONLY TypeOK, t \in Tasks, <3>2, <3>3, SetTask
    <3>5. Ends(t) /\ ZerosKept
      BY ONLY r = task[t], t \in Tasks, <3>1, <3>2, <3>4 DEF Ends, CallKept, ZerosKept
    <3>6. task'[t].hand = <<>>
      BY <3>2, <3>4
    <3> QED
      BY <1>0, <1>1, <2>1, <2>3, <3>3, <3>5, <3>6 DEF WakeEnds
  <2>4. CASE r.obj \in Lists
    <3>1. /\ task' = [task EXCEPT ![t] = Land(r, r.ret)]
          /\ waiters' = [waiters EXCEPT ![task[t].obj] = <<>>]
      BY <2>1, <2>4 DEF SetSource, Lists, Events
    <3>2. Ends(t) /\ ZerosKept /\ task'[t].hand = r.hand
      BY ONLY TypeOK, Busy, t \in Tasks, r = task[t], r \in TaskStates, <1>0, <3>1, SetEnds
    <3> QED
      BY <1>0, <1>1, <2>1, <2>4, <3>1, <3>2 DEF WakeEnds
  <2> QED
    BY <1>0, <2>3, <2>4
<1>2. ASSUME NEW i \in 1 .. Len(Source(t)),
             ~Done(Source(t)[i]), \A j \in 1 .. (i - 1) : Done(Source(t)[j]),
             SetSource(t, SubSeq(Source(t), i + 1, Len(Source(t))),
                       [task[t] EXCEPT !.pc = "offer", !.offer = Source(t)[i]]),
             UNCHANGED <<mu, locked>>
      PROVE  WakePops(t, i)
  <2> PICK f \in Futs : f = Source(t)[i]
    BY <1>0
  <2> PICK w : w = PopOf(r, f)
    OBVIOUS
  <2>1. /\ w \in TaskStates
        /\ w.pc = "offer" /\ w.prog = r.prog /\ w.obj = r.obj /\ w.hand = r.hand
        /\ w.offer = f /\ w.left = r.left /\ w.ret = r.ret /\ w.raising = r.raising
        /\ w.owns = r.owns /\ w.zero = r.zero
    BY ONLY r \in TaskStates, f \in Futs, w = PopOf(r, f), PopFields
  <2>2. CASE r.obj = "hand"
    <3>0. Source(t) = r.hand
      BY <2>2 DEF Source
    <3> PICK s \in Seq(Futs) : s = SubSeq(r.hand, i + 1, Len(r.hand))
      <4>1. r.hand \in Seq(Futs) /\ i + 1 \in Int /\ Len(r.hand) \in Int
            /\ \A j \in i + 1 .. Len(r.hand) : r.hand[j] \in Futs
        BY <1>0, <3>0
      <4> QED
        BY ONLY <4>1, SubSeqProperties
    <3> PICK n : n = HandOf(w, s)
      OBVIOUS
    <3>1. /\ n \in TaskStates
          /\ n.pc = w.pc /\ n.prog = w.prog /\ n.obj = w.obj /\ n.hand = s /\ n.offer = w.offer
          /\ n.left = w.left /\ n.ret = w.ret /\ n.raising = w.raising /\ n.owns = w.owns
          /\ n.zero = w.zero
      BY ONLY <2>1, n = HandOf(w, s), s \in Seq(Futs), HandSet
    <3>2. task' = [task EXCEPT ![t] = n] /\ UNCHANGED waiters
      BY <1>2, <2>2, <3>0 DEF SetSource, HandOf, PopOf
    <3>3. Frame(t) /\ task'[t] = n /\ \A u \in Tasks : u # t => task'[u].zero = task[u].zero
      BY ONLY TypeOK, t \in Tasks, <3>1, <3>2, SetTask
    <3>4. /\ ZerosKept /\ OwnsKept(t) /\ CallKept(t)
          /\ task'[t].pc = "offer" /\ task'[t].obj = task[t].obj /\ task'[t].offer = f
          /\ task'[t].left = task[t].left /\ task'[t].ret = task[t].ret /\ task'[t].hand = s
      BY ONLY r = task[t], t \in Tasks, <2>1, <3>1, <3>3 DEF CallKept, OwnsKept, ZerosKept
    <3> QED
      BY <1>0, <1>2, <2>2, <3>2, <3>3, <3>4 DEF WakePops
  <2>3. CASE r.obj \in Lists
    <3>0. Source(t) = waiters[r.obj]
      BY <2>3 DEF Source, Lists, Events
    <3>1. /\ task' = [task EXCEPT ![t] = w]
          /\ waiters' = [waiters EXCEPT ![r.obj] = SubSeq(@, i + 1, Len(@))]
      BY <1>2, <2>3, <3>0 DEF SetSource, PopOf, Lists, Events
    <3>2. Frame(t) /\ task'[t] = w /\ \A u \in Tasks : u # t => task'[u].zero = task[u].zero
      BY ONLY TypeOK, t \in Tasks, <2>1, <3>1, SetTask
    <3>3. /\ ZerosKept /\ OwnsKept(t) /\ CallKept(t)
          /\ task'[t].pc = "offer" /\ task'[t].obj = task[t].obj /\ task'[t].offer = f
          /\ task'[t].left = task[t].left /\ task'[t].ret = task[t].ret
          /\ task'[t].hand = task[t].hand
      BY ONLY r = task[t], t \in Tasks, <2>1, <3>2 DEF CallKept, OwnsKept, ZerosKept
    <3> QED
      BY <1>0, <1>2, <2>3, <3>1, <3>2, <3>3 DEF WakePops
  <2> QED
    BY <1>0, <2>2, <2>3
<1> QED
  BY <1>1, <1>2 DEF Wake

ZeroOf(r, z) == [r EXCEPT !.zero = z]

LEMMA TaskDoneDoes ==
  ASSUME TypeOK, Busy, NEW t \in Tasks, TaskDone(t)
  PROVE  \/ unfinished = 0 /\ unfinished' = 0 /\ Returns(t) /\ OwnsKept(t) /\ ZerosKept
         \/ /\ unfinished # 0 /\ unfinished' = unfinished - 1
            /\ IF unfinished = 1 THEN Turns(t, "finish") ELSE Returns(t)
            /\ OwnsKept(t)
            /\ \A u \in Tasks : task'[u].zero = (task[u].zero \/ unfinished = 1)
<1>0. task[t].prog # <<>>
  BY DEF TaskDone, Calls
<1>1. CASE unfinished = 0
  <2>1. unfinished' = 0 /\ task' = [task EXCEPT ![t] = Land(@, "next")]
    BY <1>1 DEF TaskDone, Return
  <2> QED
    BY ONLY TypeOK, t \in Tasks, <1>0, <1>1, <2>1, SetReturn
<1>2. CASE unfinished # 0
  <2> DEFINE last == unfinished = 1
             r(u) == ZeroOf(task[u], task[u].zero \/ last)
             l == IF last THEN "finish" ELSE "next"
  <2>1. /\ unfinished' = unfinished - 1
        /\ task' = [u \in Tasks |-> IF u # t THEN r(u) ELSE Land(r(u), l)]
    BY <1>2 DEF TaskDone, ZeroOf
  <2>2. ASSUME NEW u \in Tasks
        PROVE  /\ r(u) \in TaskStates
               /\ r(u).pc = task[u].pc /\ r(u).prog = task[u].prog /\ r(u).obj = task[u].obj
               /\ r(u).hand = task[u].hand /\ r(u).offer = task[u].offer
               /\ r(u).left = task[u].left /\ r(u).ret = task[u].ret
               /\ r(u).raising = task[u].raising /\ r(u).owns = task[u].owns
               /\ r(u).zero = (task[u].zero \/ last)
    <3> PICK x \in TaskStates : x = task[u]
      BY TaskTyped
    <3> PICK z \in BOOLEAN : z = (task[u].zero \/ last)
      OBVIOUS
    <3> PICK n : n = ZeroOf(x, z)
      OBVIOUS
    <3>1. /\ n \in TaskStates
          /\ n.pc = x.pc /\ n.prog = x.prog /\ n.obj = x.obj /\ n.hand = x.hand
          /\ n.offer = x.offer /\ n.left = x.left /\ n.ret = x.ret /\ n.raising = x.raising
          /\ n.owns = x.owns /\ n.zero = z
      BY ONLY x \in TaskStates, z \in BOOLEAN, n = ZeroOf(x, z) DEF TaskStates, ZeroOf
    <3>2. n = r(u)
      OBVIOUS
    <3> HIDE DEF r
    <3> QED
      BY ONLY x = task[u], z = (task[u].zero \/ last), <3>1, <3>2
  <2> HIDE DEF r
  <2> PICK w : w = r(t)
    OBVIOUS
  <2>3. /\ w \in TaskStates
        /\ w.pc = task[t].pc /\ w.prog = task[t].prog /\ w.obj = task[t].obj
        /\ w.hand = task[t].hand /\ w.offer = task[t].offer
        /\ w.left = task[t].left /\ w.ret = task[t].ret
        /\ w.raising = task[t].raising /\ w.owns = task[t].owns
        /\ w.zero = (task[t].zero \/ last)
    BY <2>2
  <2>4. \A u \in Tasks : u # t => task'[u] = r(u)
    BY <2>1
  <2>5. \A u \in Tasks : u # t => Same(u) /\ task'[u].zero = (task[u].zero \/ last)
    BY ONLY <2>2, <2>4 DEF Same, HandKept, CallKept
  <2>6. CASE last
    <3> PICK n : n = Land(w, "finish")
      OBVIOUS
    <3>0. "finish" \in PCs \ {"raise", "cwait"}
      BY DEF PCs
    <3>1. /\ n \in TaskStates
          /\ n.pc = "finish" /\ n.prog = w.prog /\ n.obj = w.obj /\ n.hand = w.hand
          /\ n.offer = w.offer /\ n.left = w.left /\ n.ret = w.ret /\ n.raising = w.raising
          /\ n.owns = w.owns /\ n.zero = w.zero
      BY ONLY <2>3, <3>0, n = Land(w, "finish"), LandAt
    <3>2. task'[t] = n
      BY <2>1, <2>6
    <3>3. task' \in [Tasks -> TaskStates]
      BY <2>1, <2>2, <2>6, <3>1
    <3>4. Turns(t, "finish") /\ OwnsKept(t)
      BY ONLY <2>3, <2>5, <3>1, <3>2, <3>3 DEF Turns, Frame, HandKept, CallKept, OwnsKept
    <3>5. \A u \in Tasks : task'[u].zero = (task[u].zero \/ last)
      BY <2>3, <2>5, <3>1, <3>2
    <3> QED
      BY <1>2, <2>1, <2>6, <3>4, <3>5
  <2>7. CASE ~last
    <3> PICK n : n = Land(w, "next")
      OBVIOUS
    <3>1. /\ n \in TaskStates
          /\ n.pc = "run" /\ n.prog = Tail(w.prog) /\ n.obj = w.obj /\ n.hand = w.hand
          /\ n.offer = w.offer /\ n.left = w.left /\ n.ret = w.ret /\ n.raising = w.raising
          /\ n.owns = w.owns /\ n.zero = w.zero
      BY ONLY <1>0, <2>3, n = Land(w, "next"), LandNext
    <3>2. task'[t] = n
      BY <2>1, <2>7
    <3>3. task' \in [Tasks -> TaskStates]
      BY <2>1, <2>2, <2>7, <3>1
    <3>4. Returns(t) /\ OwnsKept(t)
      BY ONLY <2>3, <2>5, <3>1, <3>2, <3>3 DEF Returns, Frame, HandKept, OwnsKept
    <3>5. \A u \in Tasks : task'[u].zero = (task[u].zero \/ last)
      BY <2>3, <2>5, <3>1, <3>2
    <3> QED
      BY <1>2, <2>1, <2>7, <3>4, <3>5
  <2> QED
    BY <2>6, <2>7
<1> QED
  BY <1>1, <1>2

\* A new future of t, at the end of list o.
Queues(t, o) ==
  /\ fst' = [fst EXCEPT ![t] = Append(@, "pending")]
  /\ waiters' = [waiters EXCEPT ![o] = Append(@, NewFut(t))]

Kept(t)    == OwnsKept(t) /\ ZerosKept
ListsKept  == UNCHANGED <<waiters, fst>>

LEMMA EnqueueDoes ==
  ASSUME TypeOK, NEW t \in Tasks, NEW o \in Lists, Enqueue(t, o)
  PROVE  Sleeps(t, o) /\ Queues(t, o) /\ Kept(t)
<1>1. task' = [task EXCEPT ![t].obj = o, ![t].pc = "arm"] /\ Queues(t, o)
  BY DEF Enqueue, Queues
<1> QED
  BY ONLY TypeOK, t \in Tasks, o \in Lists, <1>1, SetArm DEF Kept

LEMMA ReturnDoes ==
  ASSUME TypeOK, NEW t \in Tasks, task[t].prog # <<>>, Return(t)
  PROVE  Returns(t) /\ Kept(t)
  BY SetReturn DEF Return, Kept

LEMMA WaitEventDoes ==
  ASSUME TypeOK, NEW t \in Tasks, task[t].prog # <<>>, NEW e \in Events, WaitEvent(t, e)
  PROVE  \/ value[e] /\ Returns(t) /\ Kept(t) /\ ListsKept
         \/ ~value[e] /\ Sleeps(t, e) /\ Queues(t, e) /\ Kept(t)
<1>1. e \in Lists
  BY DEF Lists
<1> QED
  BY <1>1, EnqueueDoes, ReturnDoes DEF WaitEvent, ListsKept

LEMMA SetEventDoes ==
  ASSUME TypeOK, NEW t \in Tasks, task[t].prog # <<>>, NEW e \in Events, SetEvent(t, e, "next")
  PROVE  /\ value' = [value EXCEPT ![e] = TRUE] /\ UNCHANGED fst
         /\ \/ value[e] /\ Returns(t) /\ Kept(t) /\ ListsKept
            \/ /\ ~value[e] /\ Empties(t, waiters[e]) /\ Kept(t)
               /\ waiters' = [waiters EXCEPT ![e] = <<>>]
<1>1. value' = [value EXCEPT ![e] = TRUE] /\ UNCHANGED fst
  BY DEF SetEvent
<1>2. CASE value[e]
  <2>1. task' = [task EXCEPT ![t] = Land(@, "next")] /\ UNCHANGED waiters
    BY <1>2 DEF SetEvent
  <2>2. Returns(t) /\ Kept(t)
    BY ONLY TypeOK, t \in Tasks, task[t].prog # <<>>, <2>1, SetReturn DEF Kept
  <2> QED
    BY <1>1, <1>2, <2>1, <2>2 DEF ListsKept
<1>3. CASE ~value[e]
  <2>1. /\ task' = [task EXCEPT ![t] = [Waking(@, "hand", Len(waiters[e]), "next")
                                         EXCEPT !.hand = waiters[e]]]
        /\ waiters' = [waiters EXCEPT ![e] = <<>>]
    BY <1>3 DEF SetEvent
  <2>2. waiters[e] \in Seq(Futs)
    BY DEF TypeOK, Lists
  <2>3. Empties(t, waiters[e]) /\ Kept(t)
    BY ONLY TypeOK, t \in Tasks, <2>1, <2>2, SetHand DEF Kept
  <2> QED
    BY <1>1, <1>3, <2>1, <2>3
<1> QED
  BY <1>2, <1>3

LEMMA NotifyAllDoes ==
  ASSUME TypeOK, NEW t \in Tasks, NotifyAll(t)
  PROVE  /\ Empties(t, waiters["cond"]) /\ Kept(t) /\ UNCHANGED fst
         /\ waiters' = [waiters EXCEPT !["cond"] = <<>>]
<1>1. /\ task' = [task EXCEPT ![t] = [Waking(@, "hand", Len(waiters["cond"]), "next")
                                       EXCEPT !.hand = waiters["cond"]]]
      /\ waiters' = [waiters EXCEPT !["cond"] = <<>>] /\ UNCHANGED fst
  BY DEF NotifyAll
<1>2. waiters["cond"] \in Seq(Futs)
  BY DEF TypeOK, Lists
<1> QED
  BY ONLY TypeOK, t \in Tasks, <1>1, <1>2, SetHand DEF Kept

LEMMA AcquireDoes ==
  ASSUME TypeOK, NEW t \in Tasks, task[t].prog # <<>>, Acquire(t)
  PROVE  \/ /\ IF task[t].raising THEN Raises(t) ELSE Returns(t)
            /\ ~locked /\ locked' = TRUE /\ task'[t].owns /\ ZerosKept /\ ListsKept
         \/ Sleeps(t, "lock") /\ Queues(t, "lock") /\ Kept(t) /\ UNCHANGED locked
<1>1. CASE ~locked /\ waiters["lock"] = <<>>
  <2>1. /\ task' = [task EXCEPT ![t] = Land([@ EXCEPT !.inside = TRUE, !.owns = TRUE],
                                            IF task[t].raising THEN "raise" ELSE "next")]
        /\ locked' = TRUE /\ ListsKept
    BY <1>1 DEF Acquire, ListsKept
  <2>2. (IF task[t].raising THEN Raises(t) ELSE Returns(t)) /\ task'[t].owns /\ ZerosKept
    BY ONLY TypeOK, t \in Tasks, task[t].prog # <<>>, <2>1, SetAcquired
  <2> QED
    BY <1>1, <2>1, <2>2
<1>2. CASE ~(~locked /\ waiters["lock"] = <<>>)
  <2>1. Enqueue(t, "lock") /\ UNCHANGED locked
    BY <1>2 DEF Acquire
  <2>2. "lock" \in Lists
    BY DEF Lists
  <2> QED
    BY <2>1, <2>2, EnqueueDoes
<1> QED
  BY <1>1, <1>2

LEMMA ReleaseDoes ==
  ASSUME TypeOK, NEW t \in Tasks, NEW l \in {"next", "raise", "cwait"}, Release(t, l)
  PROVE  /\ Rouses(t, "lock", l) /\ ZerosKept /\ ListsKept /\ Free("lock")
         /\ task'[t].owns = FALSE /\ task'[t].raising = task[t].raising
         /\ mu' = [mu EXCEPT !["lock"] = t]
<1>1. /\ task' = [task EXCEPT ![t] = [Waking(@, "lock", 1, l) EXCEPT !.owns = FALSE,
                                                                   !.inside = (l = "cwait")]]
      /\ ListsKept /\ Free("lock") /\ mu' = [mu EXCEPT !["lock"] = t]
  BY DEF Release, ListsKept
<1> QED
  BY ONLY TypeOK, t \in Tasks, l \in {"next", "raise", "cwait"}, <1>1, SetReleasing

LEMMA RousesDoes ==
  ASSUME TypeOK, NEW t \in Tasks, NEW o \in Lists,
         task' = [task EXCEPT ![t] = Waking(@, o, 1, "next")]
  PROVE  Rouses(t, o, "next") /\ Kept(t) /\ task'[t].raising = task[t].raising
<1>1. "next" \in {"next", "raise", "cwait"}
  OBVIOUS
<1> QED
  BY ONLY TypeOK, t \in Tasks, o \in Lists, <1>1, SetWaking,
          task' = [task EXCEPT ![t] = Waking(@, o, 1, "next")] DEF Kept

LEMMA NotifyDoes ==
  ASSUME TypeOK, NEW t \in Tasks, Notify(t)
  PROVE  /\ Rouses(t, "cond", "next") /\ Kept(t) /\ task'[t].raising = task[t].raising
         /\ ListsKept /\ Free("cond") /\ mu' = [mu EXCEPT !["cond"] = t]
<1>1. /\ task' = [task EXCEPT ![t] = Waking(@, "cond", 1, "next")] /\ "cond" \in Lists
      /\ ListsKept /\ Free("cond") /\ mu' = [mu EXCEPT !["cond"] = t]
  BY DEF Notify, ListsKept, Lists
<1> QED
  BY ONLY TypeOK, t \in Tasks, <1>1, RousesDoes

LEMMA PutClearDoes ==
  ASSUME TypeOK, NEW t \in Tasks, PutClear(t)
  PROVE  /\ Rouses(t, "getters", "next") /\ Kept(t) /\ task'[t].raising = task[t].raising
         /\ ListsKept /\ UNCHANGED mu
<1>1. /\ task' = [task EXCEPT ![t] = Waking(@, "getters", 1, "next")] /\ "getters" \in Lists
      /\ ListsKept /\ UNCHANGED mu
  BY DEF PutClear, ListsKept, Lists
<1> QED
  BY ONLY TypeOK, t \in Tasks, <1>1, RousesDoes

LEMMA GetLockedDoes ==
  ASSUME TypeOK, NEW t \in Tasks, GetLocked(t)
  PROVE  /\ Rouses(t, "putters", "next") /\ Kept(t) /\ task'[t].raising = task[t].raising
         /\ ListsKept /\ mu' = [mu EXCEPT !["queue"] = t]
<1>1. /\ task' = [task EXCEPT ![t] = Waking(@, "putters", 1, "next")] /\ "putters" \in Lists
      /\ ListsKept /\ mu' = [mu EXCEPT !["queue"] = t]
  BY DEF GetLocked, ListsKept, Lists
<1> QED
  BY ONLY TypeOK, t \in Tasks, <1>1, RousesDoes

LEMMA PutLockedDoes ==
  ASSUME TypeOK, NEW t \in Tasks, PutLocked(t)
  PROVE  Turns(t, "clear") /\ Kept(t) /\ ListsKept /\ mu' = [mu EXCEPT !["queue"] = t]
<1>1. /\ task' = [task EXCEPT ![t].pc = "clear"] /\ "clear" \in PCs
      /\ ListsKept /\ mu' = [mu EXCEPT !["queue"] = t]
  BY DEF PutLocked, Goto, ListsKept, PCs
<1> QED
  BY ONLY TypeOK, t \in Tasks, <1>1, SetPc DEF Kept

LEMMA PutDoes ==
  ASSUME TypeOK, NEW t \in Tasks, Put(t)
  PROVE  \/ HasRoom /\ PutLocked(t)
         \/ /\ ~HasRoom /\ Sleeps(t, "putters") /\ Queues(t, "putters") /\ Kept(t)
            /\ UNCHANGED <<mu, value, locked, size, unfinished>>
<1>1. "putters" \in Lists
  BY DEF Lists
<1> QED
  BY <1>1, EnqueueDoes DEF Put

LEMMA PutNowaitDoes ==
  ASSUME TypeOK, NEW t \in Tasks, PutNowait(t)
  PROVE  \/ HasRoom /\ PutLocked(t)
         \/ Returns(t) /\ Kept(t) /\ ListsKept /\ UNCHANGED <<mu, value, locked, size, unfinished>>
<1>1. task[t].prog # <<>>
  BY DEF PutNowait, Calls
<1> QED
  BY <1>1, ReturnDoes DEF PutNowait, objVars, ListsKept

LEMMA GetDoes ==
  ASSUME TypeOK, NEW t \in Tasks, Get(t)
  PROVE  \/ size > 0 /\ GetLocked(t)
         \/ /\ ~(size > 0) /\ Sleeps(t, "getters") /\ Queues(t, "getters") /\ Kept(t)
            /\ UNCHANGED <<mu, value, locked, size, unfinished>>
<1>1. "getters" \in Lists
  BY DEF Lists
<1> QED
  BY <1>1, EnqueueDoes DEF Get

LEMMA GetNowaitDoes ==
  ASSUME TypeOK, NEW t \in Tasks, GetNowait(t)
  PROVE  \/ size > 0 /\ GetLocked(t)
         \/ Returns(t) /\ Kept(t) /\ ListsKept /\ UNCHANGED <<mu, value, locked, size, unfinished>>
<1>1. task[t].prog # <<>>
  BY DEF GetNowait, Calls
<1> QED
  BY <1>1, ReturnDoes DEF GetNowait, objVars, ListsKept

LEMMA CondWaitDoes ==
  ASSUME TypeOK, NEW t \in Tasks, CondWait(t)
  PROVE  Turns(t, "cwait") /\ Queues(t, "cond") /\ Kept(t)
<1>1. task' = [task EXCEPT ![t].pc = "cwait"] /\ "cwait" \in PCs /\ Queues(t, "cond")
  BY DEF CondWait, Goto, PCs, Queues
<1> QED
  BY ONLY TypeOK, t \in Tasks, <1>1, SetPc DEF Kept

LEMMA ArmDoes ==
  ASSUME TypeOK, NEW t \in Tasks, Arm(t)
  PROVE  \E l \in {"except", "woken", "parked"} :
           /\ Turns(t, l) /\ Kept(t) /\ (l = "woken" => Done(Fut(t)))
           /\ l = "parked" => ~Done(Fut(t))
           /\ l = "woken" => ~task[t].due
<1> DEFINE l == IF task[t].due THEN "except" ELSE IF Done(Fut(t)) THEN "woken" ELSE "parked"
<1>1. l \in {"except", "woken", "parked"} /\ l \in PCs
  BY DEF PCs
<1>2. task' = [task EXCEPT ![t].due = FALSE, ![t].pc = l]
  BY DEF Arm
<1>3. /\ l = "woken" => Done(Fut(t)) /\ ~task[t].due
      /\ l = "parked" => ~Done(Fut(t))
  OBVIOUS
<1> HIDE DEF l
<1>4. Turns(t, l) /\ Kept(t)
  BY ONLY TypeOK, t \in Tasks, <1>1, <1>2, SetArmed DEF Kept
<1> QED
  BY <1>1, <1>3, <1>4

LEMMA ResumeDoes ==
  ASSUME TypeOK, NEW t \in Tasks, Resume(t)
  PROVE  \/ State(Fut(t)) = "result" /\ Turns(t, "woken") /\ Kept(t)
         \/ State(Fut(t)) # "result" /\ Turns(t, "except") /\ Kept(t)
<1>1. "woken" \in PCs /\ "except" \in PCs
  BY DEF PCs
<1>2. CASE State(Fut(t)) = "result"
  <2>1. task' = [task EXCEPT ![t].pc = "woken"]
    BY <1>2 DEF Resume, Goto
  <2>2. Turns(t, "woken") /\ Kept(t)
    BY ONLY TypeOK, t \in Tasks, <1>1, <2>1, SetPc DEF Kept
  <2> QED
    BY <1>2, <2>2
<1>3. CASE State(Fut(t)) # "result"
  <2>1. task' = [task EXCEPT ![t].pc = "except"]
    BY <1>3 DEF Resume, Goto
  <2>2. Turns(t, "except") /\ Kept(t)
    BY ONLY TypeOK, t \in Tasks, <1>1, <2>1, SetPc DEF Kept
  <2> QED
    BY <1>3, <2>2
<1> QED
  BY <1>2, <1>3

LEMMA WokenDoes ==
  ASSUME TypeOK, Busy, NEW t \in Tasks, Woken(t), task[t].obj # "hand"
  PROVE  \/ task[t].obj \in Events /\ Returns(t) /\ Kept(t)
         \/ task[t].obj \in {"getters", "putters"} /\ Turns(t, "again") /\ Kept(t)
         \/ task[t].obj = "cond" /\ Turns(t, "relock") /\ Kept(t)
         \/ /\ task[t].obj = "lock" /\ task'[t].owns /\ ZerosKept
            /\ IF task[t].raising THEN Raises(t) ELSE Returns(t)
<1>0. task[t].prog # <<>>
  BY DEF Busy, BusyAt, Woken, At
<1>1. CASE task[t].obj \in Events
  <2>1. task' = [task EXCEPT ![t] = Land(@, "next")]
    BY <1>1 DEF Woken, Events
  <2>2. Returns(t) /\ Kept(t)
    BY ONLY TypeOK, t \in Tasks, <1>0, <2>1, SetReturn DEF Kept
  <2> QED
    BY <1>1, <2>2
<1>2. CASE task[t].obj \in {"getters", "putters"}
  <2>1. task' = [task EXCEPT ![t] = Land(@, "again")]
    BY <1>2 DEF Woken, Events
  <2>2. "again" \in PCs \ {"raise", "cwait"}
    BY DEF PCs
  <2>3. Turns(t, "again") /\ Kept(t)
    BY ONLY TypeOK, t \in Tasks, <2>1, <2>2, SetAt DEF Kept
  <2> QED
    BY <1>2, <2>3
<1>3. CASE task[t].obj = "cond"
  <2>1. task' = [task EXCEPT ![t] = Land(@, "relock")]
    BY <1>3 DEF Woken, Events
  <2>2. "relock" \in PCs \ {"raise", "cwait"}
    BY DEF PCs
  <2>3. Turns(t, "relock") /\ Kept(t)
    BY ONLY TypeOK, t \in Tasks, <2>1, <2>2, SetAt DEF Kept
  <2> QED
    BY <1>3, <2>3
<1>4. CASE task[t].obj = "lock"
  <2>1. task' = [task EXCEPT ![t] = Land([@ EXCEPT !.inside = TRUE, !.owns = TRUE],
                                         IF task[t].raising THEN "raise" ELSE "next")]
    BY <1>4 DEF Woken, Events
  <2>2. (IF task[t].raising THEN Raises(t) ELSE Returns(t)) /\ task'[t].owns /\ ZerosKept
    BY ONLY TypeOK, t \in Tasks, <1>0, <2>1, SetAcquired
  <2> QED
    BY <1>4, <2>2
<1>5. task[t].obj \in Lists
  BY TaskTyped DEF TaskStates
<1> QED
  BY <1>1, <1>2, <1>3, <1>4, <1>5 DEF Lists

\* Back to the lock, with the exception under way.
Retakes(t) ==
  /\ Frame(t) /\ Kept(t)
  /\ task'[t].pc = "relock" /\ task'[t].raising /\ task'[t].obj = task[t].obj
  /\ task'[t].prog = task[t].prog /\ HandKept(t)

Grant(t) == task[t].obj = "lock" /\ State(Fut(t)) = "result"

LEMMA ExceptDoes ==
  ASSUME TypeOK, NEW t \in Tasks, Except(t)
  PROVE  /\ \/ task[t].obj = "cond" /\ Retakes(t) /\ UNCHANGED mu
            \/ /\ Grant(t) /\ Rouses(t, "lock", "raise") /\ Kept(t) /\ task'[t].raising
               /\ mu' = [mu EXCEPT !["lock"] = t]
            \/ task[t].obj # "cond" /\ ~Grant(t) /\ Raises(t) /\ Kept(t) /\ UNCHANGED mu
         /\ Withdraw(task[t].obj, Fut(t)) /\ Free(MuOf(task[t].obj)) /\ At(t, "except")
         /\ UNCHANGED <<value, locked, size, unfinished, maxsize, fst, aim>>
<1>0. /\ Withdraw(task[t].obj, Fut(t)) /\ Free(MuOf(task[t].obj)) /\ At(t, "except")
      /\ UNCHANGED <<value, locked, size, unfinished, maxsize, fst, aim>>
  BY DEF Except
<1>1. CASE task[t].obj = "cond"
  <2>1. task' = [task EXCEPT ![t] = [@ EXCEPT !.pc = "relock", !.raising = TRUE]] /\ UNCHANGED mu
    BY <1>1 DEF Except
  <2>2. Retakes(t)
    BY ONLY TypeOK, t \in Tasks, <2>1, SetBack DEF Retakes, Kept
  <2> QED
    BY <1>0, <1>1, <2>1, <2>2
<1>2. CASE Grant(t)
  <2>1. /\ task' = [task EXCEPT ![t] = [Waking(@, "lock", 1, "raise") EXCEPT !.raising = TRUE]]
        /\ mu' = [mu EXCEPT !["lock"] = t]
    BY <1>2 DEF Except, Grant
  <2>2. Rouses(t, "lock", "raise") /\ Kept(t) /\ task'[t].raising
    BY ONLY TypeOK, t \in Tasks, <2>1, SetPassing DEF Kept
  <2> QED
    BY <1>0, <1>2, <2>1, <2>2
<1>3. CASE task[t].obj # "cond" /\ ~Grant(t)
  <2>1. task' = [task EXCEPT ![t] = Land(@, "raise")] /\ UNCHANGED mu
    BY <1>3 DEF Except, Grant
  <2>2. Raises(t) /\ Kept(t)
    BY ONLY TypeOK, t \in Tasks, <2>1, SetRaise DEF Kept
  <2> QED
    BY <1>0, <1>3, <2>1, <2>2
<1> QED
  BY <1>1, <1>2, <1>3

\* The end of the program.
Stops(t) ==
  /\ Frame(t) /\ Kept(t)
  /\ task'[t].pc = "end" /\ task'[t].prog = <<>> /\ task'[t].obj = task[t].obj
  /\ task'[t].raising = task[t].raising /\ HandKept(t)

LEMMA RaiseDoes ==
  ASSUME TypeOK, NEW t \in Tasks, Raise(t)
  PROVE  Release(t, "raise") \/ (Stops(t) /\ UNCHANGED <<objVars, maxsize, fst, aim, faults>>)
<1>1. ASSUME task' = [task EXCEPT ![t].pc = "end", ![t].prog = <<>>] PROVE Stops(t)
  BY ONLY TypeOK, t \in Tasks, <1>1, SetEnd DEF Stops, Kept
<1> QED
  BY <1>1 DEF Raise

LEMMA OtherAwaitDoes ==
  ASSUME TypeOK, NEW t \in Tasks, OtherAwait(t)
  PROVE  Raises(t) /\ Kept(t) /\ ListsKept
<1>1. task' = [task EXCEPT ![t] = Land([@ EXCEPT !.due = FALSE], "raise")] /\ ListsKept
  BY DEF OtherAwait, ListsKept, objVars
<1> QED
  BY ONLY TypeOK, t \in Tasks, <1>1, SetUndue DEF Kept

\* Nothing that the invariants are about.
Idles == task' \in [Tasks -> TaskStates] /\ (\A u \in Tasks : Same(u)) /\ ZerosKept

LEMMA TasksKept == ASSUME TypeOK, UNCHANGED task PROVE Idles
<1>1. task \in [Tasks -> TaskStates]
  BY DEF TypeOK
<1> QED
  BY <1>1 DEF Idles, Same, HandKept, CallKept, ZerosKept

LEMMA CancelDoes ==
  ASSUME TypeOK, NEW c \in Cancellers, NEW t \in Tasks, Cancel(c, t)
  PROVE  Idles
<1>1. CASE task' = [task EXCEPT ![t].due = TRUE]
  BY ONLY TypeOK, t \in Tasks, <1>1, SetDue DEF Idles
<1>2. CASE UNCHANGED task
  BY <1>2, TasksKept
<1> QED
  BY <1>1, <1>2 DEF Cancel

\* The future c has found is cancelled, or its task is to raise at the next await.
LEMMA CancelFutureDoes ==
  ASSUME TypeOK, NEW c \in Cancellers, CancelFuture(c)
  PROVE  /\ Idles /\ aim[c] \in Futs
         /\ \/ Done(aim[c]) /\ UNCHANGED fst
            \/ ~Done(aim[c]) /\ fst' = [fst EXCEPT ![aim[c][1]][aim[c][2]] = "cancelled"]
<1>1. aim[c] \in Futs
  <2>1. aim[c] \in Futs \cup {<<>>, <<"end">>} /\ Len(aim[c]) = 2
    BY DEF TypeOK, CancelFuture
  <2>2. Len(<<>>) = 0 /\ Len(<<"end">>) = 1
    OBVIOUS
  <2> QED
    BY <2>1, <2>2
<1>2. aim[c][1] \in Tasks
  BY <1>1 DEF Futs
<1>3. CASE Done(aim[c])
  <2> PICK t \in Tasks : t = aim[c][1]
    BY <1>2
  <2>1. task' = [task EXCEPT ![t].due = TRUE] /\ UNCHANGED fst
    BY <1>3 DEF CancelFuture
  <2>2. Idles
    BY ONLY TypeOK, t \in Tasks, <2>1, SetDue DEF Idles
  <2> QED
    BY <1>1, <1>3, <2>1, <2>2
<1>4. CASE ~Done(aim[c])
  <2>1. UNCHANGED task /\ fst' = [fst EXCEPT ![aim[c][1]][aim[c][2]] = "cancelled"]
    BY <1>4 DEF CancelFuture
  <2> QED
    BY <1>1, <1>4, <2>1, TasksKept
<1> QED
  BY <1>3, <1>4

-----------------------------------------------------------------------------
\* What a step is to the invariants about lists and futures: fewer kinds than there are
\* actions.

InCall(t, op) == task[t].pc \in {"run", "again"} /\ HeadIs(t, op)
Calling(t)    == task[t].pc \in {"run", "again"} /\ task[t].prog # <<>> /\ ~HeadIs(t, "join")
Quiet         == UNCHANGED <<mu, aim>>

Returned(t) ==
  /\ Returns(t) /\ ListsKept /\ Quiet /\ task[t].prog # <<>>
  /\ task[t].pc \in {"run", "again", "joining", "finish", "relock", "woken"}
  /\ At(t, "relock") \/ (At(t, "woken") /\ task[t].obj = "lock") => ~task[t].raising

Failed(t) ==
  /\ Raises(t) /\ ListsKept /\ Quiet /\ task[t].prog # <<>>
  /\ task[t].pc \in {"run", "relock", "woken"}

Stopped(t) == At(t, "raise") /\ Stops(t) /\ ListsKept /\ Quiet

Turned(t, l) ==
  /\ Turns(t, l) /\ ListsKept /\ UNCHANGED aim
  /\ \/ l = "clear" /\ Calling(t) /\ Free("queue") /\ mu' = [mu EXCEPT !["queue"] = t]
     \/ l = "finish" /\ Calling(t) /\ UNCHANGED mu
     \/ l = "joining" /\ InCall(t, "join") /\ UNCHANGED mu
     \/ l = "again" /\ At(t, "woken") /\ task[t].obj \in {"getters", "putters"} /\ UNCHANGED mu
     \/ l = "relock" /\ At(t, "woken") /\ task[t].obj = "cond" /\ UNCHANGED mu

Slept(t, o) ==
  /\ Sleeps(t, o) /\ Queues(t, o) /\ Quiet /\ task[t].prog # <<>>
  /\ task[t].pc \in {"run", "again", "joining", "relock"}
  /\ At(t, "relock") => o = "lock"
  /\ At(t, "joining") => o = "finished"
  /\ o = "getters" => HeadIs(t, "get")
  /\ o = "putters" => HeadIs(t, "put")
  /\ HeadIs(t, "join") => task[t].pc \in {"joining", "relock"}

CondSlept(t) == InCall(t, "cwait") /\ Turns(t, "cwait") /\ Queues(t, "cond") /\ Quiet

Roused(t, o, l) ==
  /\ Rouses(t, o, l) /\ ListsKept /\ UNCHANGED aim /\ o \notin Events
  /\ task'[t].raising = task[t].raising
  /\ mu' = [mu EXCEPT ![MuOf(o)] = t]
  /\ \/ Calling(t) /\ l = "next" /\ Free(MuOf(o))
     \/ At(t, "cwait") /\ l = "cwait" /\ o = "lock" /\ Free("lock")
     \/ At(t, "raise") /\ l = "raise" /\ o = "lock" /\ Free("lock")
     \/ At(t, "clear") /\ l = "next" /\ o = "getters"

Emptied(t, o) ==
  /\ Empties(t, waiters[o]) /\ UNCHANGED fst /\ Quiet /\ o \in Events \cup {"cond"}
  /\ waiters' = [waiters EXCEPT ![o] = <<>>]
  /\ Calling(t) \/ At(t, "finish")

WakeEnded(t)     == WakeEnds(t) /\ UNCHANGED aim
WakePopped(t, i) == WakePops(t, i) /\ UNCHANGED aim

Completes(t) ==
  fst' = [fst EXCEPT ![task[t].offer[1]][task[t].offer[2]] = "result"] /\ UNCHANGED <<waiters, aim>>

OfferRaised(t) ==
  /\ At(t, "offer") /\ Done(task[t].offer) /\ Raises(t) /\ ListsKept /\ UNCHANGED aim
  /\ mu' = Unlocked(t) /\ "invalid" \in faults'

OfferEnded(t) ==
  /\ At(t, "offer") /\ ~Done(task[t].offer) /\ Completes(t) /\ mu' = Unlocked(t)
  /\ task[t].left = 1 /\ Ends(t) /\ task'[t].hand = task[t].hand

OfferMore(t) ==
  /\ At(t, "offer") /\ ~Done(task[t].offer) /\ Completes(t) /\ UNCHANGED mu
  /\ task[t].left # 1 /\ Frame(t) /\ CallKept(t)
  /\ task'[t].pc = "wake" /\ task'[t].obj = task[t].obj /\ task'[t].hand = task[t].hand
  /\ task'[t].left = task[t].left - 1 /\ task'[t].ret = task[t].ret

Moved(t, l) ==
  /\ task[t].pc \in {"arm", "parked"} /\ Turns(t, l) /\ ListsKept /\ Quiet
  /\ l \in {"except", "woken", "parked"}
  /\ l = "woken" => IF At(t, "arm") THEN Done(Fut(t)) ELSE State(Fut(t)) = "result"

Excepted(t) ==
  /\ At(t, "except") /\ Withdraw(task[t].obj, Fut(t)) /\ Free(MuOf(task[t].obj))
  /\ UNCHANGED <<fst, aim>>
  /\ \/ task[t].obj = "cond" /\ Retakes(t) /\ UNCHANGED mu
     \/ /\ Grant(t) /\ Rouses(t, "lock", "raise") /\ task'[t].raising
        /\ mu' = [mu EXCEPT !["lock"] = t]
     \/ task[t].obj # "cond" /\ Raises(t) /\ UNCHANGED mu

Aimed(c, t) ==
  /\ Idles /\ ListsKept /\ UNCHANGED mu
  /\ \/ At(t, "parked") /\ aim' = [aim EXCEPT ![c] = Fut(t)]
     \/ aim' = [aim EXCEPT ![c] = <<"end">>]

Cancelled(c) ==
  /\ Idles /\ UNCHANGED <<waiters, mu>> /\ aim[c] \in Futs
  /\ aim' = [aim EXCEPT ![c] = <<"end">>]
  /\ \/ UNCHANGED fst
     \/ ~Done(aim[c]) /\ fst' = [fst EXCEPT ![aim[c][1]][aim[c][2]] = "cancelled"]

Rested == Idles /\ ListsKept /\ Quiet

Deed ==
  \/ \E t \in Tasks :
       \/ Returned(t) \/ Failed(t) \/ Stopped(t) \/ CondSlept(t) \/ WakeEnded(t)
       \/ OfferRaised(t) \/ OfferEnded(t) \/ OfferMore(t) \/ Excepted(t)
       \/ \E l \in PCs : Turned(t, l) \/ Moved(t, l)
       \/ \E o \in Lists : \/ Slept(t, o) \/ Emptied(t, o)
                           \/ \E l \in {"next", "cwait", "raise"} : Roused(t, o, l)
       \/ \E i \in 1 .. Len(Source(t)) : WakePopped(t, i)
  \/ \E c \in Cancellers : Cancelled(c) \/ \E t \in Tasks : Aimed(c, t)
  \/ Rested

LEMMA CallsWhat ==
  ASSUME NEW t \in Tasks, NEW op, Calls(t, op)
  PROVE  /\ InCall(t, op) /\ HeadIs(t, op) /\ task[t].prog # <<>>
         /\ task[t].pc \in {"run", "again"}
         /\ op # "join" => Calling(t)
         /\ \A p : HeadIs(t, p) => p = op
  BY DEF Calls, InCall, Calling, HeadIs

LEMMA CallDeeds ==
  ASSUME TypeOK, Busy, Flow, NEW t \in Tasks, Call(t)
  PROVE  Deed
<1>0. /\ Events \subseteq Lists /\ "event" \in Events /\ "finished" \in Events
      /\ "lock" \in Lists /\ "cond" \in Lists /\ "getters" \in Lists /\ "putters" \in Lists
      /\ "clear" \in PCs /\ "finish" \in PCs /\ "joining" \in PCs
      /\ "lock" \notin Events /\ "cond" \notin Events
      /\ "getters" \notin Events /\ "putters" \notin Events
      /\ MuOf("lock") = "lock" /\ MuOf("cond") = "cond" /\ MuOf("getters") = "queue"
      /\ MuOf("putters") = "queue"
  BY DEF Lists, Events, PCs, MuOf
<1>1. CASE Set(t)
  <2>1. InCall(t, "set") /\ Calling(t) /\ task[t].prog # <<>> /\ SetEvent(t, "event", "next")
    BY <1>1, CallsWhat DEF Set
  <2>2. Quiet
    BY <2>1 DEF SetEvent, Quiet
  <2>3. Returned(t) \/ Emptied(t, "event")
    BY <1>0, <2>1, <2>2, SetEventDoes DEF Returned, Emptied, Calling, At
  <2> QED
    BY <1>0, <2>3 DEF Deed
<1>2. CASE Clear(t)
  <2>1. InCall(t, "clear") /\ task[t].prog # <<>> /\ Return(t) /\ Quiet /\ ListsKept
    BY <1>2, CallsWhat DEF Clear, Quiet, ListsKept
  <2>2. Returned(t)
    BY <2>1, ReturnDoes DEF Returned, InCall, At
  <2> QED
    BY <2>2 DEF Deed
<1>3. CASE Wait(t)
  <2>1. InCall(t, "wait") /\ Calling(t) /\ task[t].prog # <<>> /\ WaitEvent(t, "event")
    BY <1>3, CallsWhat DEF Wait
  <2>2. Quiet /\ ~HeadIs(t, "join")
    BY <2>1 DEF WaitEvent, Quiet, Calling
  <2>3. Returned(t) \/ Slept(t, "event")
    BY <1>0, <2>1, <2>2, WaitEventDoes DEF Returned, Slept, InCall, At
  <2> QED
    BY <1>0, <2>3 DEF Deed
<1>4. CASE Lock(t)
  <2>1. /\ InCall(t, "lock") /\ task[t].prog # <<>> /\ Acquire(t) /\ ~HeadIs(t, "join")
        /\ ~At(t, "joining") /\ ~At(t, "relock") /\ ~At(t, "woken")
    BY <1>4, CallsWhat DEF Lock, InCall, At
  <2>2. Quiet /\ task[t].pc \in {"run", "again"}
    BY <2>1 DEF Acquire, Quiet, InCall
  <2>3. CASE task[t].raising
    BY <2>2, <2>3 DEF Flow, FlowAt, Wakes, Awaiting
  <2>4. CASE Returns(t) /\ ListsKept
    BY <2>1, <2>2, <2>4 DEF Deed, Returned, At
  <2>5. CASE Sleeps(t, "lock") /\ Queues(t, "lock")
    <3>1. Slept(t, "lock")
      BY <1>0, <2>1, <2>2, <2>5 DEF Slept, At
    <3> QED
      BY <1>0, <3>1 DEF Deed
  <2> QED
    BY <2>1, <2>3, <2>4, <2>5, AcquireDoes
<1>5. CASE Unlock(t)
  <2>1. Calling(t) /\ Release(t, "next")
    BY <1>5, CallsWhat DEF Unlock
  <2>2. Roused(t, "lock", "next")
    BY <1>0, <2>1, ReleaseDoes DEF Roused, Release
  <2> QED
    BY <1>0, <2>2 DEF Deed
<1>6. CASE CondWait(t)
  <2>1. InCall(t, "cwait") /\ Quiet
    BY <1>6, CallsWhat DEF CondWait, Quiet
  <2>2. CondSlept(t)
    BY <1>6, <2>1, CondWaitDoes DEF CondSlept
  <2> QED
    BY <2>2 DEF Deed
<1>7. CASE Notify(t)
  <2>1. Calling(t) /\ UNCHANGED aim
    BY <1>7, CallsWhat DEF Notify
  <2>2. Roused(t, "cond", "next")
    BY <1>0, <1>7, <2>1, NotifyDoes DEF Roused
  <2> QED
    BY <1>0, <2>2 DEF Deed
<1>8. CASE NotifyAll(t)
  <2>1. Calling(t) /\ Quiet
    BY <1>8, CallsWhat DEF NotifyAll, Quiet
  <2>2. Emptied(t, "cond")
    BY <1>0, <1>8, <2>1, NotifyAllDoes DEF Emptied
  <2> QED
    BY <1>0, <2>2 DEF Deed
<1>9. ASSUME Calling(t), PutLocked(t), Free("queue"), UNCHANGED aim PROVE Deed
  <2>1. Turned(t, "clear")
    BY <1>9, PutLockedDoes DEF Turned
  <2> QED
    BY <1>0, <2>1 DEF Deed
<1>10. ASSUME Calling(t), GetLocked(t), Free("queue"), UNCHANGED aim PROVE Deed
  <2>1. Roused(t, "putters", "next")
    BY <1>0, <1>10, GetLockedDoes DEF Roused
  <2> QED
    BY <1>0, <2>1 DEF Deed
<1>11. CASE Put(t)
  <2>1. /\ Calling(t) /\ HeadIs(t, "put") /\ Free("queue") /\ UNCHANGED aim /\ ~HeadIs(t, "join")
        /\ task[t].prog # <<>> /\ task[t].pc \in {"run", "again"}
    BY <1>11, CallsWhat DEF Put, Calling
  <2>2. CASE PutLocked(t)
    BY <1>9, <2>1, <2>2
  <2>3. CASE Sleeps(t, "putters") /\ Queues(t, "putters") /\ UNCHANGED mu
    <3>1. Slept(t, "putters")
      BY <2>1, <2>3 DEF Slept, At, Quiet
    <3> QED
      BY <1>0, <3>1 DEF Deed
  <2> QED
    BY <1>11, <2>2, <2>3, PutDoes
<1>12. CASE PutNowait(t)
  <2>1. Calling(t) /\ Free("queue") /\ UNCHANGED aim
    BY <1>12, CallsWhat DEF PutNowait
  <2>2. CASE PutLocked(t)
    BY <1>9, <2>1, <2>2
  <2>3. CASE Returns(t) /\ ListsKept /\ UNCHANGED mu
    BY <2>1, <2>3 DEF Deed, Returned, Quiet, Calling, At
  <2> QED
    BY <1>12, <2>2, <2>3, PutNowaitDoes
<1>13. CASE Get(t)
  <2>1. /\ Calling(t) /\ HeadIs(t, "get") /\ Free("queue") /\ UNCHANGED aim /\ ~HeadIs(t, "join")
        /\ task[t].prog # <<>> /\ task[t].pc \in {"run", "again"}
    BY <1>13, CallsWhat DEF Get, Calling
  <2>2. CASE GetLocked(t)
    BY <1>10, <2>1, <2>2
  <2>3. CASE Sleeps(t, "getters") /\ Queues(t, "getters") /\ UNCHANGED mu
    <3>1. Slept(t, "getters")
      BY <2>1, <2>3 DEF Slept, At, Quiet
    <3> QED
      BY <1>0, <3>1 DEF Deed
  <2> QED
    BY <1>13, <2>2, <2>3, GetDoes
<1>14. CASE GetNowait(t)
  <2>1. Calling(t) /\ Free("queue") /\ UNCHANGED aim
    BY <1>14, CallsWhat DEF GetNowait
  <2>2. CASE GetLocked(t)
    BY <1>10, <2>1, <2>2
  <2>3. CASE Returns(t) /\ ListsKept /\ UNCHANGED mu
    BY <2>1, <2>3 DEF Deed, Returned, Quiet, Calling, At
  <2> QED
    BY <1>14, <2>2, <2>3, GetNowaitDoes
<1>15. CASE TaskDone(t)
  <2>1. Calling(t) /\ Quiet /\ ListsKept
    BY <1>15, CallsWhat DEF TaskDone, Quiet, ListsKept
  <2>2. CASE Returns(t)
    BY <2>1, <2>2 DEF Deed, Returned, Calling, At
  <2>3. CASE Turns(t, "finish")
    <3>1. Turned(t, "finish")
      BY <2>1, <2>3 DEF Turned, Quiet
    <3> QED
      BY <1>0, <3>1 DEF Deed
  <2> QED
    BY <1>15, <2>2, <2>3, TaskDoneDoes
<1>16. CASE Join(t)
  <2>1. InCall(t, "join") /\ Quiet /\ ListsKept /\ task[t].prog # <<>>
    BY <1>16, CallsWhat DEF Join, Quiet, ListsKept, objVars
  <2>2. CASE Returns(t)
    BY <2>1, <2>2 DEF Deed, Returned, InCall, At
  <2>3. CASE Turns(t, "joining")
    <3>1. Turned(t, "joining")
      BY <2>1, <2>3 DEF Turned, Quiet
    <3> QED
      BY <1>0, <3>1 DEF Deed
  <2> QED
    BY <1>16, <2>2, <2>3, JoinDoes
<1> QED
  BY <1>1, <1>2, <1>3, <1>4, <1>5, <1>6, <1>7, <1>8, <1>11, <1>12, <1>13, <1>14, <1>15, <1>16
     DEF Call

LEMMA NextDeeds ==
  ASSUME TypeOK, Busy, Flow, [Next]_vars
  PROVE  Deed
<1>0. /\ Events \subseteq Lists /\ "finished" \in Events
      /\ "lock" \in Lists /\ "getters" \in Lists
      /\ "again" \in PCs /\ "relock" \in PCs /\ {"except", "woken", "parked"} \subseteq PCs
      /\ "lock" \notin Events /\ "getters" \notin Events
      /\ MuOf("lock") = "lock" /\ MuOf("getters") = "queue"
  BY DEF Lists, Events, PCs, MuOf
<1>1. ASSUME NEW t \in Tasks, Wake(t) PROVE Deed
  <2>1. UNCHANGED aim
    BY <1>1 DEF Wake
  <2> QED
    BY <1>1, <2>1, WakeDoes DEF Deed, WakeEnded, WakePopped
<1>2. ASSUME NEW t \in Tasks, Offer(t) PROVE Deed
  <2>0. At(t, "offer") /\ UNCHANGED <<waiters, aim>>
    BY <1>2 DEF Offer
  <2>1. CASE Done(task[t].offer)
    <3>1. mu' = Unlocked(t) /\ UNCHANGED fst /\ "invalid" \in faults'
      BY <1>2, <2>1 DEF Offer
    <3>2. OfferRaised(t)
      BY <1>2, <2>0, <2>1, <3>1, OfferRaises DEF OfferRaised, ListsKept
    <3> QED
      BY <3>2 DEF Deed
  <2>2. CASE ~Done(task[t].offer) /\ task[t].left = 1
    <3> PICK w : w = OfferOf(task[t])
      OBVIOUS
    <3>1. w.left = 0
      BY <2>2, TaskTyped, OfferFields
    <3>2. mu' = Unlocked(t) /\ Completes(t)
      BY <1>2, <2>0, <2>2, <3>1 DEF Offer, OfferOf, Completes
    <3>3. OfferEnded(t)
      BY <1>2, <2>0, <2>2, <3>2, OfferEnds DEF OfferEnded
    <3> QED
      BY <3>3 DEF Deed
  <2>3. CASE ~Done(task[t].offer) /\ task[t].left # 1
    <3> PICK w : w = OfferOf(task[t])
      OBVIOUS
    <3>0. w.left = task[t].left - 1 /\ task[t].left \in Int
      BY TaskTyped, OfferFields DEF TaskStates
    <3>1. w.left # 0
      BY <2>3, <3>0
    <3>2. UNCHANGED mu /\ Completes(t)
      BY <1>2, <2>0, <2>3, <3>1 DEF Offer, OfferOf, Completes
    <3>3. OfferMore(t)
      BY <1>2, <2>0, <2>3, <3>2, OfferGoesOn DEF OfferMore
    <3> QED
      BY <3>3 DEF Deed
  <2> QED
    BY <2>1, <2>2, <2>3
<1>3. ASSUME NEW t \in Tasks, Arm(t) PROVE Deed
  <2>1. At(t, "arm") /\ ListsKept /\ Quiet
    BY <1>3 DEF Arm, ListsKept, Quiet, objVars
  <2>2. PICK l \in {"except", "woken", "parked"} : Turns(t, l) /\ (l = "woken" => Done(Fut(t)))
    BY <1>3, ArmDoes
  <2>3. Moved(t, l)
    BY <2>1, <2>2 DEF Moved, At
  <2> QED
    BY <1>0, <2>3 DEF Deed
<1>4. ASSUME NEW t \in Tasks, Resume(t) PROVE Deed
  <2>1. At(t, "parked") /\ ListsKept /\ Quiet
    BY <1>4 DEF Resume, ListsKept, Quiet, objVars
  <2>2. Moved(t, "woken") \/ Moved(t, "except")
    BY <1>4, <2>1, ResumeDoes DEF Moved, At
  <2> QED
    BY <1>0, <2>2 DEF Deed
<1>5. ASSUME NEW t \in Tasks, Woken(t) PROVE Deed
  <2>1. At(t, "woken") /\ ListsKept /\ Quiet
    BY <1>5 DEF Woken, ListsKept, Quiet, objVars
  <2>2. task[t].obj # "hand" /\ task[t].prog # <<>> /\ ~At(t, "relock")
    BY <2>1 DEF Flow, FlowAt, Busy, BusyAt, Awaiting, At
  <2>3. CASE task[t].obj \in Events /\ Returns(t)
    <3>1. Returned(t)
      BY <1>0, <2>1, <2>2, <2>3 DEF Returned, At
    <3> QED
      BY <3>1 DEF Deed
  <2>4. CASE task[t].obj \in {"getters", "putters"} /\ Turns(t, "again")
    <3>1. Turned(t, "again")
      BY <2>1, <2>4 DEF Turned, Quiet
    <3> QED
      BY <1>0, <3>1 DEF Deed
  <2>5. CASE task[t].obj = "cond" /\ Turns(t, "relock")
    <3>1. Turned(t, "relock")
      BY <2>1, <2>5 DEF Turned, Quiet
    <3> QED
      BY <1>0, <3>1 DEF Deed
  <2>6. CASE task[t].raising /\ Raises(t)
    <3>1. Failed(t)
      BY <2>1, <2>2, <2>6 DEF Failed, At
    <3> QED
      BY <3>1 DEF Deed
  <2>7. CASE ~task[t].raising /\ Returns(t)
    <3>1. Returned(t)
      BY <2>1, <2>2, <2>7 DEF Returned, At
    <3> QED
      BY <3>1 DEF Deed
  <2> QED
    BY <1>5, <2>2, <2>3, <2>4, <2>5, <2>6, <2>7, WokenDoes
<1>6. ASSUME NEW t \in Tasks, Except(t) PROVE Deed
  <2>1. Excepted(t)
    BY <1>6, ExceptDoes DEF Excepted
  <2> QED
    BY <2>1 DEF Deed
<1>7. ASSUME NEW t \in Tasks, Relock(t) PROVE Deed
  <2>1. At(t, "relock") /\ Acquire(t) /\ task[t].prog # <<>> /\ ~At(t, "joining")
    BY <1>7 DEF Relock, Busy, BusyAt, At
  <2>2. Quiet
    BY <2>1 DEF Acquire, Quiet
  <2>3. CASE task[t].raising /\ Raises(t) /\ ListsKept
    <3>1. Failed(t)
      BY <2>1, <2>2, <2>3 DEF Failed, At
    <3> QED
      BY <3>1 DEF Deed
  <2>4. CASE ~task[t].raising /\ Returns(t) /\ ListsKept
    <3>1. Returned(t)
      BY <2>1, <2>2, <2>4 DEF Returned, At
    <3> QED
      BY <3>1 DEF Deed
  <2>5. CASE Sleeps(t, "lock") /\ Queues(t, "lock")
    <3>1. Slept(t, "lock")
      BY <1>0, <2>1, <2>2, <2>5 DEF Slept, At
    <3> QED
      BY <1>0, <3>1 DEF Deed
  <2> QED
    BY <2>1, <2>3, <2>4, <2>5, AcquireDoes
<1>8. ASSUME NEW t \in Tasks, CondRelease(t) PROVE Deed
  <2>1. At(t, "cwait") /\ Release(t, "cwait")
    BY <1>8 DEF CondRelease
  <2>2. Roused(t, "lock", "cwait")
    BY <1>0, <2>1, ReleaseDoes DEF Roused, Release
  <2> QED
    BY <1>0, <2>2 DEF Deed
<1>9. ASSUME NEW t \in Tasks, Raise(t) PROVE Deed
  <2>1. At(t, "raise")
    BY <1>9 DEF Raise
  <2>2. CASE Release(t, "raise")
    <3>1. Roused(t, "lock", "raise")
      BY <1>0, <2>1, <2>2, ReleaseDoes DEF Roused, Release
    <3> QED
      BY <1>0, <3>1 DEF Deed
  <2>3. CASE Stops(t) /\ UNCHANGED <<objVars, maxsize, fst, aim, faults>>
    <3>1. Stopped(t)
      BY <2>1, <2>3 DEF Stopped, ListsKept, Quiet, objVars
    <3> QED
      BY <3>1 DEF Deed
  <2> QED
    BY <1>9, <2>2, <2>3, RaiseDoes
<1>10. ASSUME NEW t \in Tasks, PutClear(t) PROVE Deed
  <2>1. At(t, "clear") /\ UNCHANGED aim /\ mu["queue"] = t /\ mu \in [Mutexes -> Tasks \cup {None}]
    BY <1>10 DEF PutClear, Flow, FlowAt, TypeOK
  <2>2. mu' = [mu EXCEPT !["queue"] = t]
    BY <1>10, <2>1, PutClearDoes
  <2>3. Roused(t, "getters", "next")
    BY <1>0, <1>10, <2>1, <2>2, PutClearDoes DEF Roused
  <2> QED
    BY <1>0, <2>3 DEF Deed
<1>11. ASSUME NEW t \in Tasks, Finish(t) PROVE Deed
  <2>1. At(t, "finish") /\ SetEvent(t, "finished", "next") /\ task[t].prog # <<>>
    BY <1>11 DEF Finish, Busy, BusyAt, At
  <2>2. Quiet
    BY <2>1 DEF SetEvent, Quiet
  <2>3. Returned(t) \/ Emptied(t, "finished")
    BY <1>0, <2>1, <2>2, SetEventDoes DEF Returned, Emptied, At
  <2> QED
    BY <1>0, <2>3 DEF Deed
<1>12. ASSUME NEW t \in Tasks, JoinWait(t) PROVE Deed
  <2>1. At(t, "joining") /\ WaitEvent(t, "finished") /\ task[t].prog # <<>>
    BY <1>12 DEF JoinWait, Busy, BusyAt, At
  <2>2. Quiet
    BY <2>1 DEF WaitEvent, Quiet
  <2>3. Returned(t) \/ Slept(t, "finished")
    BY <1>0, <2>1, <2>2, WaitEventDoes DEF Returned, Slept, At
  <2> QED
    BY <1>0, <2>3 DEF Deed
<1>13. ASSUME NEW t \in Tasks, OtherAwait(t) PROVE Deed
  <2>1. At(t, "run") /\ task[t].prog # <<>> /\ Quiet
    BY <1>13 DEF OtherAwait, Quiet, objVars
  <2>2. Failed(t)
    BY <1>13, <2>1, OtherAwaitDoes DEF Failed, At
  <2> QED
    BY <2>2 DEF Deed
<1>14. ASSUME NEW c \in Cancellers, NEW t \in Tasks, Cancel(c, t) PROVE Deed
  <2>1. Aimed(c, t)
    BY <1>14, CancelDoes DEF Cancel, Aimed, ListsKept, objVars
  <2> QED
    BY <2>1 DEF Deed
<1>15. ASSUME NEW c \in Cancellers, CancelFuture(c) PROVE Deed
  <2>1. aim' = [aim EXCEPT ![c] = <<"end">>] /\ UNCHANGED <<waiters, mu>>
    BY <1>15 DEF CancelFuture, objVars
  <2>2. Cancelled(c)
    BY <1>15, <2>1, CancelFutureDoes DEF Cancelled
  <2> QED
    BY <2>2 DEF Deed
<1>16. CASE UNCHANGED vars
  BY <1>16, TasksKept DEF vars, objVars, Deed, Rested, ListsKept, Quiet
<1>17. CASE Rest
  BY <1>16, <1>17 DEF Rest
<1> QED
  BY <1>1, <1>2, <1>3, <1>4, <1>5, <1>6, <1>7, <1>8, <1>9, <1>10, <1>11, <1>12, <1>13, <1>14,
     <1>15, <1>16, <1>17, CallDeeds
     DEF Next, TaskStep

-----------------------------------------------------------------------------
\* The futures: a step adds one, completes one, or leaves them alone.

FutStates == {"pending", "result", "cancelled"}

\* A new one of t.
Adds(t) ==
  /\ fst' \in [Tasks -> Seq(FutStates)]
  /\ \A u \in Tasks : u # t => Fut(u)' = Fut(u)
  /\ Fut(t)' = NewFut(t) /\ ~Exists(NewFut(t)) /\ State(Fut(t))' = "pending"
  /\ fst'[t] # <<>>
  /\ \A g \in Futs : Exists(g) => Exists(g)' /\ State(g)' = State(g)

\* The state v for f.
Writes(f, v) ==
  /\ fst' \in [Tasks -> Seq(FutStates)]
  /\ \A u \in Tasks : Fut(u)' = Fut(u) /\ (fst[u] # <<>> => fst'[u] # <<>>)
  /\ \A g \in Futs : Exists(g) => Exists(g)' /\ State(g)' = IF g = f THEN v ELSE State(g)

LEMMA LastExists ==
  ASSUME TypeOK, NEW t \in Tasks
  PROVE  /\ Fut(t) \in Futs /\ NewFut(t) \in Futs
         /\ fst[t] # <<>> => Exists(Fut(t)) /\ Len(fst[t]) \in 1 .. Len(fst[t])
<1>1. fst[t] \in Seq(FutStates)
  BY DEF TypeOK, FutStates
<1>2. Len(fst[t]) \in Nat /\ (fst[t] # <<>> => Len(fst[t]) > 0)
  BY <1>1
<1> QED
  BY <1>2 DEF Fut, NewFut, Futs, Exists

LEMMA StateTyped ==
  ASSUME TypeOK, NEW f \in Futs, Exists(f) PROVE State(f) \in FutStates
<1>1. f[1] \in Tasks /\ fst[f[1]] \in Seq(FutStates) /\ f[2] \in 1 .. Len(fst[f[1]])
  BY DEF TypeOK, Futs, Exists, FutStates
<1> QED
  BY <1>1 DEF State

LEMMA AddFuture ==
  ASSUME TypeOK, NEW t \in Tasks, fst' = [fst EXCEPT ![t] = Append(@, "pending")]
  PROVE  Adds(t)
<1>1. fst \in [Tasks -> Seq(FutStates)]
  BY DEF TypeOK, FutStates
<1>2. PICK s \in Seq(FutStates) : s = fst[t]
  BY <1>1
<1>3. /\ Append(s, "pending") \in Seq(FutStates) /\ Append(s, "pending") # <<>>
      /\ Len(Append(s, "pending")) = Len(s) + 1 /\ Len(s) \in Nat
      /\ Append(s, "pending")[Len(s) + 1] = "pending"
      /\ \A k \in 1 .. Len(s) : Append(s, "pending")[k] = s[k]
  BY DEF FutStates
<1>4. fst' \in [Tasks -> Seq(FutStates)] /\ fst'[t] = Append(s, "pending")
      /\ \A u \in Tasks : u # t => fst'[u] = fst[u]
  BY <1>1, <1>2, <1>3
<1>5. ASSUME NEW g \in Futs, Exists(g) PROVE Exists(g)' /\ State(g)' = State(g)
  <2>1. g[1] \in Tasks /\ g[2] \in 1 .. Len(fst[g[1]])
    BY <1>5 DEF Futs, Exists
  <2>2. CASE g[1] = t
    BY <1>2, <1>3, <1>4, <2>1, <2>2 DEF Exists, State
  <2>3. CASE g[1] # t
    BY <1>4, <2>1, <2>3 DEF Exists, State
  <2> QED
    BY <2>2, <2>3
<1>6. Fut(t)' = NewFut(t) /\ ~Exists(NewFut(t)) /\ State(Fut(t))' = "pending"
  <2>1. Fut(t)' = NewFut(t)
    BY <1>2, <1>3, <1>4 DEF Fut, NewFut
  <2>2. ~Exists(NewFut(t))
    BY <1>2, <1>3 DEF NewFut, Exists
  <2>3. State(Fut(t))' = fst'[t][Len(fst'[t])]
    BY DEF State, Fut
  <2> QED
    BY <1>2, <1>3, <1>4, <2>1, <2>2, <2>3
<1>7. \A u \in Tasks : u # t => Fut(u)' = Fut(u)
  BY <1>4 DEF Fut
<1> QED
  BY <1>3, <1>4, <1>5, <1>6, <1>7 DEF Adds

LEMMA WriteFuture ==
  ASSUME TypeOK, NEW f \in Futs, Exists(f), NEW v \in FutStates,
         fst' = [fst EXCEPT ![f[1]][f[2]] = v]
  PROVE  Writes(f, v)
<1>1. fst \in [Tasks -> Seq(FutStates)]
  BY DEF TypeOK, FutStates
<1>2. f[1] \in Tasks /\ f[2] \in 1 .. Len(fst[f[1]]) /\ f = <<f[1], f[2]>>
  BY DEF Futs, Exists
<1> PICK t \in Tasks : t = f[1]
  BY <1>2
<1> PICK k : k = f[2]
  OBVIOUS
<1>3. PICK s \in Seq(FutStates) : s = fst[t]
  BY <1>1
<1> PICK s2 : s2 = [s EXCEPT ![k] = v]
  OBVIOUS
<1>4. /\ s2 \in Seq(FutStates) /\ Len(s2) = Len(s) /\ s2[k] = v
      /\ \A j \in 1 .. Len(s) : j # k => s2[j] = s[j]
      /\ s # <<>> => s2 # <<>>
  BY <1>2, <1>3
<1>5. fst' \in [Tasks -> Seq(FutStates)] /\ fst'[t] = s2
      /\ \A u \in Tasks : u # t => fst'[u] = fst[u]
  BY <1>1, <1>3, <1>4
<1>6. ASSUME NEW g \in Futs, Exists(g)
      PROVE  Exists(g)' /\ State(g)' = IF g = f THEN v ELSE State(g)
  <2>1. g[1] \in Tasks /\ g[2] \in 1 .. Len(fst[g[1]]) /\ g = <<g[1], g[2]>>
    BY <1>6 DEF Futs, Exists
  <2>2. Exists(g)'
    BY <1>3, <1>4, <1>5, <2>1 DEF Exists
  <2>3. CASE g[1] = t /\ g[2] = k
    BY <1>2, <1>4, <1>5, <2>1, <2>2, <2>3, ZenonT(40) DEF State
  <2>4. CASE g[1] = t /\ g[2] # k
    BY <1>2, <1>3, <1>4, <1>5, <2>1, <2>2, <2>4 DEF State
  <2>5. CASE g[1] # t
    BY <1>2, <1>5, <2>1, <2>2, <2>5 DEF State
  <2> QED
    BY <2>3, <2>4, <2>5
<1>7. \A u \in Tasks : Fut(u)' = Fut(u) /\ (fst[u] # <<>> => fst'[u] # <<>>)
  BY <1>3, <1>4, <1>5 DEF Fut
<1> QED
  BY <1>5, <1>6, <1>7 DEF Writes

\* What the other steps do to them.
Leaves ==
  /\ fst' \in [Tasks -> Seq(FutStates)]
  /\ \A u \in Tasks : Fut(u)' = Fut(u) /\ fst'[u] = fst[u]
  /\ \A g : Exists(g)' = Exists(g) /\ State(g)' = State(g)

LEMMA LeaveFutures == ASSUME TypeOK, UNCHANGED fst PROVE Leaves
  BY DEF TypeOK, FutStates, Leaves, Fut, Exists, State

LEMMA CompleteFuture ==
  ASSUME TypeOK, Known, Flow, NEW t \in Tasks, At(t, "offer"), Completes(t)
  PROVE  task[t].offer \in Futs /\ Exists(task[t].offer) /\ Writes(task[t].offer, "result")
<1>1. task[t].offer \in Futs /\ Exists(task[t].offer)
  BY DEF Known, Flow, FlowAt
<1> PICK f \in Futs : f = task[t].offer
  BY <1>1
<1>2. fst' = [fst EXCEPT ![f[1]][f[2]] = "result"] /\ "result" \in FutStates
  BY DEF Completes, FutStates
<1>3. Exists(f)
  BY <1>1
<1>4. Writes(f, "result")
  BY ONLY TypeOK, f \in Futs, <1>2, <1>3, WriteFuture
<1> QED
  BY <1>1, <1>4

LEMMA CancelledFuture ==
  ASSUME TypeOK, Known, NEW c \in Cancellers, Cancelled(c)
  PROVE  Leaves \/ (Writes(aim[c], "cancelled") /\ ~Done(aim[c]))
<1>1. aim[c] \in Futs /\ Exists(aim[c])
  BY DEF Known, Cancelled
<1> PICK f \in Futs : f = aim[c]
  BY <1>1
<1>2. CASE fst' = [fst EXCEPT ![f[1]][f[2]] = "cancelled"] /\ ~Done(aim[c])
  <2>1. Exists(f) /\ "cancelled" \in FutStates
    BY <1>1 DEF FutStates
  <2>2. Writes(f, "cancelled")
    BY ONLY TypeOK, f \in Futs, <1>2, <2>1, WriteFuture
  <2> QED
    BY <1>2, <2>2
<1> QED
  BY <1>2, LeaveFutures DEF Cancelled

-----------------------------------------------------------------------------
\* The mutexes: t lets go of all it holds, or takes a free one.

LEMMA LetGo ==
  ASSUME TypeOK, NEW t \in Tasks, mu' = Unlocked(t)
  PROVE  /\ mu' \in [Mutexes -> Tasks \cup {None}]
         /\ \A m \in Mutexes : mu'[m] = IF mu[m] = t THEN None ELSE mu[m]
  BY DEF TypeOK, Unlocked

LEMMA TakeMutex ==
  ASSUME TypeOK, NEW t \in Tasks, NEW m \in Mutexes, mu' = [mu EXCEPT ![m] = t]
  PROVE  /\ mu' \in [Mutexes -> Tasks \cup {None}]
         /\ mu'[m] = t /\ \A n \in Mutexes : n # m => mu'[n] = mu[n]
  BY DEF TypeOK

\* Nobody else loses a mutex in a step of t.
Unhurt(t) == \A u \in Tasks, m \in Mutexes : u # t /\ mu[m] = u => mu'[m] = u

LEMMA NotFree == ASSUME NEW u \in Tasks, NEW m, mu[m] = u PROVE ~Free(m)
  BY IdentityAssumption DEF Free

LEMMA UnhurtByLetGo ==
  ASSUME TypeOK, NEW t \in Tasks, mu' = Unlocked(t) PROVE Unhurt(t)
  BY LetGo DEF Unhurt

LEMMA UnhurtByTaking ==
  ASSUME TypeOK, NEW t \in Tasks, NEW m \in Mutexes, Free(m) \/ mu[m] = t,
         mu' = [mu EXCEPT ![m] = t]
  PROVE  Unhurt(t)
  BY TakeMutex, NotFree DEF Unhurt

LEMMA UnhurtByNothing == ASSUME NEW t, UNCHANGED mu PROVE Unhurt(t)
  BY DEF Unhurt

LEMMA MutexOf == ASSUME NEW o \in Lists PROVE MuOf(o) \in Mutexes
  BY DEF MuOf, Lists, Mutexes, Events

-----------------------------------------------------------------------------
\* What a step of one task leaves alone in the others.

\* The last future of u stays, and stays done.
FutureStays(u) ==
  fst[u] # <<>> =>
    /\ fst'[u] # <<>> /\ Fut(u)' = Fut(u)
    /\ Done(Fut(u)) => State(Fut(u))' = State(Fut(u))

LEMMA StaysByLeaving == ASSUME Leaves PROVE \A u \in Tasks : FutureStays(u)
<1> SUFFICES ASSUME NEW u \in Tasks PROVE FutureStays(u)
  OBVIOUS
<1>1. Fut(u)' = Fut(u) /\ fst'[u] = fst[u]
  BY DEF Leaves
<1>2. State(Fut(u))' = State(Fut(u))
  BY <1>1 DEF Leaves, State
<1> QED
  BY <1>1, <1>2 DEF FutureStays

LEMMA StaysByWriting ==
  ASSUME TypeOK, NEW f \in Futs, NEW v, ~Done(f), Writes(f, v)
  PROVE  \A u \in Tasks : FutureStays(u)
<1> SUFFICES ASSUME NEW u \in Tasks, fst[u] # <<>> PROVE FutureStays(u)
  BY DEF FutureStays
<1>1. Fut(u)' = Fut(u) /\ fst'[u] # <<>>
  BY DEF Writes
<1>2. Fut(u) \in Futs /\ Exists(Fut(u))
  BY LastExists
<1> PICK g \in Futs : g = Fut(u)
  BY <1>2
<1>3. State(g)' = IF g = f THEN v ELSE State(g)
  BY <1>2 DEF Writes
<1>4. State(Fut(u))' = State(g)'
  BY <1>1 DEF State
<1> QED
  BY <1>1, <1>3, <1>4 DEF FutureStays, Done

LEMMA StaysByAdding ==
  ASSUME TypeOK, NEW t \in Tasks, fst' = [fst EXCEPT ![t] = Append(@, "pending")]
  PROVE  \A u \in Tasks : u # t => FutureStays(u)
<1> SUFFICES ASSUME NEW u \in Tasks, u # t PROVE FutureStays(u)
  OBVIOUS
<1>1. fst'[u] = fst[u]
  BY DEF TypeOK
<1> QED
  BY <1>1 DEF FutureStays, Fut, State

\* A step of t.
Acts(t) == Frame(t) /\ Unhurt(t) /\ \A u \in Tasks : u # t => FutureStays(u)

\* A step of none.
Waves == Idles /\ UNCHANGED mu /\ \A u \in Tasks : FutureStays(u)

LEMMA QuietStays ==
  ASSUME TypeOK, NEW t \in Tasks, UNCHANGED fst PROVE \A u \in Tasks : u # t => FutureStays(u)
  BY LeaveFutures, StaysByLeaving

LEMMA DeedFrames ==
  ASSUME TypeOK, Flow, Known
  PROVE  /\ \A t \in Tasks :
              /\ Returned(t) \/ Failed(t) \/ Stopped(t) \/ CondSlept(t) \/ WakeEnded(t)
                 \/ OfferRaised(t) \/ OfferEnded(t) \/ OfferMore(t) \/ Excepted(t) => Acts(t)
              /\ \A l \in PCs : Turned(t, l) \/ Moved(t, l) => Acts(t)
              /\ \A o \in Lists : Slept(t, o) \/ Emptied(t, o) => Acts(t)
              /\ \A o \in Lists, l \in {"next", "cwait", "raise"} : Roused(t, o, l) => Acts(t)
              /\ \A i \in 1 .. Len(Source(t)) : WakePopped(t, i) => Acts(t)
         /\ \A c \in Cancellers : Cancelled(c) => Waves
         /\ \A c \in Cancellers, t \in Tasks : Aimed(c, t) => Waves
         /\ Rested => Waves
<1>0. "queue" \in Mutexes /\ "lock" \in Mutexes /\ MuOf("lock") = "lock" /\ MuOf("getters") = "queue"
  BY DEF Mutexes, MuOf
<1>1. ASSUME NEW t \in Tasks, Returned(t) PROVE Acts(t)
  BY <1>1, QuietStays, UnhurtByNothing
     DEF Acts, Returned, Returns, ListsKept, Quiet
<1>2. ASSUME NEW t \in Tasks, Failed(t) PROVE Acts(t)
  BY <1>2, QuietStays, UnhurtByNothing
     DEF Acts, Failed, Raises, ListsKept, Quiet
<1>3. ASSUME NEW t \in Tasks, Stopped(t) PROVE Acts(t)
  BY <1>3, QuietStays, UnhurtByNothing
     DEF Acts, Stopped, Stops, ListsKept, Quiet
<1>4. ASSUME NEW t \in Tasks, CondSlept(t) PROVE Acts(t)
  BY <1>4, StaysByAdding, UnhurtByNothing
     DEF Acts, CondSlept, Turns, Queues, Quiet
<1>5. ASSUME NEW t \in Tasks, WakeEnded(t) PROVE Acts(t)
  BY <1>5, QuietStays, UnhurtByLetGo
     DEF Acts, WakeEnded, WakeEnds, Ends
<1>6. ASSUME NEW t \in Tasks, OfferRaised(t) PROVE Acts(t)
  BY <1>6, QuietStays, UnhurtByLetGo
     DEF Acts, OfferRaised, Raises, ListsKept
<1>7. ASSUME NEW t \in Tasks, OfferEnded(t) PROVE Acts(t)
  BY <1>7, CompleteFuture, StaysByWriting, UnhurtByLetGo
     DEF Acts, OfferEnded, Ends
<1>8. ASSUME NEW t \in Tasks, OfferMore(t) PROVE Acts(t)
  BY <1>8, CompleteFuture, StaysByWriting, UnhurtByNothing
     DEF Acts, OfferMore
<1>9. ASSUME NEW t \in Tasks, Excepted(t) PROVE Acts(t)
  BY <1>9, <1>0, QuietStays, UnhurtByNothing, UnhurtByTaking
     DEF Acts, Excepted, Retakes, Rouses, Raises, Grant
<1>10. ASSUME NEW t \in Tasks, NEW l \in PCs, Turned(t, l) PROVE Acts(t)
  BY <1>10, <1>0, QuietStays, UnhurtByNothing, UnhurtByTaking
     DEF Acts, Turned, Turns, ListsKept
<1>11. ASSUME NEW t \in Tasks, NEW l \in PCs, Moved(t, l) PROVE Acts(t)
  BY <1>11, QuietStays, UnhurtByNothing
     DEF Acts, Moved, Turns, ListsKept, Quiet
<1>12. ASSUME NEW t \in Tasks, NEW o \in Lists, Slept(t, o) PROVE Acts(t)
  BY <1>12, StaysByAdding, UnhurtByNothing
     DEF Acts, Slept, Sleeps, Queues, Quiet
<1>13. ASSUME NEW t \in Tasks, NEW o \in Lists, Emptied(t, o) PROVE Acts(t)
  BY <1>13, QuietStays, UnhurtByNothing
     DEF Acts, Emptied, Empties, Quiet
<1>14. ASSUME NEW t \in Tasks, NEW o \in Lists, NEW l \in {"next", "cwait", "raise"},
              Roused(t, o, l)
       PROVE  Acts(t)
  <2>1. Free(MuOf(o)) \/ mu[MuOf(o)] = t
    BY <1>0, <1>14 DEF Roused, Flow, FlowAt
  <2>2. Unhurt(t)
    BY <1>14, <2>1, MutexOf, UnhurtByTaking DEF Roused
  <2> QED
    BY <1>14, <2>2, QuietStays DEF Acts, Roused, Rouses, ListsKept
<1>15. ASSUME NEW t \in Tasks, NEW i \in 1 .. Len(Source(t)), WakePopped(t, i) PROVE Acts(t)
  BY <1>15, QuietStays, UnhurtByNothing
     DEF Acts, WakePopped, WakePops
<1>16. ASSUME NEW c \in Cancellers, Cancelled(c) PROVE Waves
  BY <1>16, CancelledFuture, StaysByLeaving, StaysByWriting
     DEF Waves, Cancelled
<1>17. ASSUME NEW c \in Cancellers, NEW t \in Tasks, Aimed(c, t) PROVE Waves
  BY <1>17, LeaveFutures, StaysByLeaving
     DEF Waves, Aimed, ListsKept
<1>18. ASSUME Rested PROVE Waves
  BY <1>18, LeaveFutures, StaysByLeaving
     DEF Waves, Rested, ListsKept, Quiet
<1> QED
  BY <1>1, <1>2, <1>3, <1>4, <1>5, <1>6, <1>7, <1>8, <1>9, <1>10, <1>11, <1>12, <1>13, <1>14,
     <1>15, <1>16, <1>17, <1>18

\* What is true of a task stays true of it as long as it does not move.
Standing(u) == Same(u) /\ FutureStays(u) /\ \A m \in Mutexes : mu[m] = u => mu'[m] = u

LEMMA OthersStand == ASSUME NEW t \in Tasks, Acts(t) PROVE \A u \in Tasks : u # t => Standing(u)
  BY DEF Acts, Frame, Unhurt, Standing

LEMMA AllStand == ASSUME Waves PROVE \A u \in Tasks : Standing(u)
  BY DEF Waves, Idles, Standing

LEMMA StandingBusy ==
  ASSUME NEW u \in Tasks, BusyAt(u), Standing(u) PROVE BusyAt(u)'
  BY DEF BusyAt, Standing, Same, HandKept, CallKept, Wakes

LEMMA StandingHeads ==
  ASSUME NEW u \in Tasks, HeadsAt(u), Standing(u) PROVE HeadsAt(u)'
  BY DEF HeadsAt, Standing, Same, HandKept, CallKept, Wakes, Awaiting, HeadIs, At

LEMMA StandingFlow ==
  ASSUME TypeOK, NEW u \in Tasks, FlowAt(u), Standing(u) PROVE FlowAt(u)'
<1>1. /\ Waits(u)' = Waits(u) /\ Awaiting(u)' = Awaiting(u) /\ Wakes(u)' = Wakes(u)
      /\ task'[u].pc = task[u].pc /\ task'[u].obj = task[u].obj
      /\ \A l : At(u, l)' = At(u, l)
      /\ task'[u].hand = task[u].hand /\ task'[u].offer = task[u].offer
      /\ task'[u].left = task[u].left /\ task'[u].ret = task[u].ret
      /\ task'[u].raising = task[u].raising
  BY DEF Waits, CondWaiting, Awaiting, Wakes, At, Standing, Same, HandKept, CallKept
<1>2. At(u, "woken") => State(Fut(u))' = "result"
  BY DEF FlowAt, Standing, FutureStays, Done, At, Waits, Awaiting
<1>3. Waits(u) => fst'[u] # <<>>
  BY DEF FlowAt, Standing, FutureStays
<1>4. task[u].obj # "hand" => MuOf(task[u].obj) \in Mutexes
  BY TaskTyped, MutexOf DEF TaskStates
<1>5. Wakes(u) /\ task[u].obj # "hand" => mu'[MuOf(task[u].obj)] = u
  BY <1>4 DEF FlowAt, Standing
<1>6. At(u, "clear") => mu'["queue"] = u
  BY DEF FlowAt, Standing, Mutexes
<1> QED
  BY <1>1, <1>2, <1>3, <1>5, <1>6 DEF FlowAt

LEMMA BusyStep == ASSUME TypeOK, Busy, Flow, Known, Deed PROVE Busy'
<1> USE DeedFrames
<1>a. ASSUME NEW t \in Tasks, Acts(t), BusyAt(t)' PROVE Busy'
  BY <1>a, OthersStand, StandingBusy DEF Busy
<1>b. ASSUME Waves PROVE Busy'
  BY <1>b, AllStand, StandingBusy DEF Busy
<1>1. ASSUME NEW t \in Tasks, Returned(t) PROVE Busy'
  <2>1. BusyAt(t)'
    BY <1>1
       DEF Busy, BusyAt, Returned, Returns, Wakes
  <2> QED
    BY <1>a, <1>1, <2>1
<1>2. ASSUME NEW t \in Tasks, Failed(t) PROVE Busy'
  <2>1. BusyAt(t)'
    BY <1>2
       DEF Busy, BusyAt, Failed, Raises, Wakes
  <2> QED
    BY <1>a, <1>2, <2>1
<1>3. ASSUME NEW t \in Tasks, Stopped(t) PROVE Busy'
  <2>1. BusyAt(t)'
    BY <1>3
       DEF Busy, BusyAt, Stopped, Stops, Wakes
  <2> QED
    BY <1>a, <1>3, <2>1
<1>4. ASSUME NEW t \in Tasks, CondSlept(t) PROVE Busy'
  <2>1. BusyAt(t)'
    BY <1>4
       DEF Busy, BusyAt, CondSlept, Turns, CallKept, InCall, HeadIs, Wakes
  <2> QED
    BY <1>a, <1>4, <2>1
<1>5. ASSUME NEW t \in Tasks, WakeEnded(t) PROVE Busy'
  <2>1. BusyAt(t)'
    BY <1>5
       DEF Busy, BusyAt, WakeEnded, WakeEnds, Ends, CallKept, At, Wakes
  <2> QED
    BY <1>a, <1>5, <2>1
<1>6. ASSUME NEW t \in Tasks, OfferRaised(t) PROVE Busy'
  <2>1. BusyAt(t)'
    BY <1>6
       DEF Busy, BusyAt, OfferRaised, Raises, At, Wakes
  <2> QED
    BY <1>a, <1>6, <2>1
<1>7. ASSUME NEW t \in Tasks, OfferEnded(t) PROVE Busy'
  <2>1. BusyAt(t)'
    BY <1>7
       DEF Busy, BusyAt, OfferEnded, Ends, CallKept, At, Wakes
  <2> QED
    BY <1>a, <1>7, <2>1
<1>8. ASSUME NEW t \in Tasks, OfferMore(t) PROVE Busy'
  <2>1. BusyAt(t)'
    BY <1>8
       DEF Busy, BusyAt, OfferMore, CallKept, At, Wakes
  <2> QED
    BY <1>a, <1>8, <2>1
<1>9. ASSUME NEW t \in Tasks, Excepted(t) PROVE Busy'
  <2>1. BusyAt(t)'
    BY <1>9
       DEF Busy, BusyAt, Excepted, Retakes, Rouses, Raises, At, Wakes
  <2> QED
    BY <1>a, <1>9, <2>1
<1>10. ASSUME NEW t \in Tasks, NEW l \in PCs, Turned(t, l) PROVE Busy'
  <2>1. BusyAt(t)'
    BY <1>10
       DEF Busy, BusyAt, Turned, Turns, CallKept, Calling, InCall, HeadIs, At, Wakes
  <2> QED
    BY <1>a, <1>10, <2>1
<1>11. ASSUME NEW t \in Tasks, NEW l \in PCs, Moved(t, l) PROVE Busy'
  <2>1. BusyAt(t)'
    BY <1>11
       DEF Busy, BusyAt, Moved, Turns, CallKept, Wakes
  <2> QED
    BY <1>a, <1>11, <2>1
<1>12. ASSUME NEW t \in Tasks, NEW o \in Lists, Slept(t, o) PROVE Busy'
  <2>1. BusyAt(t)'
    BY <1>12
       DEF Busy, BusyAt, Slept, Sleeps, CallKept, Wakes
  <2> QED
    BY <1>a, <1>12, <2>1
<1>13. ASSUME NEW t \in Tasks, NEW o \in Lists, Emptied(t, o) PROVE Busy'
  <2>1. BusyAt(t)'
    BY <1>13
       DEF Busy, BusyAt, Emptied, Empties, CallKept, Calling, At, Wakes
  <2> QED
    BY <1>a, <1>13, <2>1
<1>14. ASSUME NEW t \in Tasks, NEW o \in Lists, NEW l \in {"next", "cwait", "raise"},
              Roused(t, o, l)
       PROVE  Busy'
  <2>1. BusyAt(t)'
    BY <1>14
       DEF Busy, BusyAt, Roused, Rouses, Calling, At, Wakes
  <2> QED
    BY <1>a, <1>14, <2>1
<1>15. ASSUME NEW t \in Tasks, NEW i \in 1 .. Len(Source(t)), WakePopped(t, i) PROVE Busy'
  <2>1. BusyAt(t)'
    BY <1>15
       DEF Busy, BusyAt, WakePopped, WakePops, CallKept, At, Wakes
  <2> QED
    BY <1>a, <1>15, <2>1
<1>16. ASSUME NEW c \in Cancellers, Cancelled(c) PROVE Busy'
  BY <1>b, <1>16
<1>17. ASSUME NEW c \in Cancellers, NEW t \in Tasks, Aimed(c, t) PROVE Busy'
  BY <1>b, <1>17
<1>18. ASSUME Rested PROVE Busy'
  BY <1>b, <1>18
<1> QED
  BY <1>1, <1>2, <1>3, <1>4, <1>5, <1>6, <1>7, <1>8, <1>9, <1>10, <1>11, <1>12, <1>13, <1>14,
     <1>15, <1>16, <1>17, <1>18 DEF Deed

LEMMA HeadsStep == ASSUME TypeOK, Busy, Flow, Heads, Known, Deed PROVE Heads'
<1> USE DeedFrames
<1>a. ASSUME NEW t \in Tasks, Acts(t), HeadsAt(t)' PROVE Heads'
  BY <1>a, OthersStand, StandingHeads DEF Heads
<1>b. ASSUME Waves PROVE Heads'
  BY <1>b, AllStand, StandingHeads DEF Heads
<1>1. ASSUME NEW t \in Tasks, Returned(t) PROVE Heads'
  <2>1. HeadsAt(t)'
    BY <1>1
       DEF Heads, HeadsAt, Returned, Returns, Wakes, Awaiting, At
  <2> QED
    BY <1>a, <1>1, <2>1
<1>2. ASSUME NEW t \in Tasks, Failed(t) PROVE Heads'
  <2>1. HeadsAt(t)'
    BY <1>2
       DEF Heads, HeadsAt, Failed, Raises, HeadIs, Awaiting, At, Wakes
  <2> QED
    BY <1>a, <1>2, <2>1
<1>3. ASSUME NEW t \in Tasks, Stopped(t) PROVE Heads'
  <2>1. HeadsAt(t)'
    BY <1>3
       DEF Heads, HeadsAt, Stopped, Stops, HeadIs, Awaiting, At, Wakes
  <2> QED
    BY <1>a, <1>3, <2>1
<1>4. ASSUME NEW t \in Tasks, CondSlept(t) PROVE Heads'
  <2>1. HeadsAt(t)'
    BY <1>4
       DEF Heads, HeadsAt, CondSlept, Turns, CallKept, InCall, HeadIs, Awaiting, At, Wakes
  <2> QED
    BY <1>a, <1>4, <2>1
<1>5. ASSUME NEW t \in Tasks, WakeEnded(t) PROVE Heads'
  <2>1. HeadsAt(t)'
    BY <1>5
       DEF Heads, HeadsAt, WakeEnded, WakeEnds, Ends, CallKept, BusyAt, Busy, HeadIs, Awaiting,
           At, Wakes
  <2> QED
    BY <1>a, <1>5, <2>1
<1>6. ASSUME NEW t \in Tasks, OfferRaised(t) PROVE Heads'
  <2>1. HeadsAt(t)'
    BY <1>6
       DEF Heads, HeadsAt, OfferRaised, Raises, HeadIs, Awaiting, At, Wakes
  <2> QED
    BY <1>a, <1>6, <2>1
<1>7. ASSUME NEW t \in Tasks, OfferEnded(t) PROVE Heads'
  <2>1. HeadsAt(t)'
    BY <1>7
       DEF Heads, HeadsAt, OfferEnded, Ends, CallKept, HeadIs, Awaiting, At, Wakes
  <2> QED
    BY <1>a, <1>7, <2>1
<1>8. ASSUME NEW t \in Tasks, OfferMore(t) PROVE Heads'
  <2>1. HeadsAt(t)'
    BY <1>8
       DEF Heads, HeadsAt, OfferMore, CallKept, HeadIs, Awaiting, At, Wakes
  <2> QED
    BY <1>a, <1>8, <2>1
<1>9. ASSUME NEW t \in Tasks, Excepted(t) PROVE Heads'
  <2>1. HeadsAt(t)'
    BY <1>9
       DEF Heads, HeadsAt, Excepted, Retakes, Rouses, Raises, HeadIs, Awaiting, At, Wakes
  <2> QED
    BY <1>a, <1>9, <2>1
<1>10. ASSUME NEW t \in Tasks, NEW l \in PCs, Turned(t, l) PROVE Heads'
  <2>1. HeadsAt(t)'
    BY <1>10
       DEF Heads, HeadsAt, Turned, Turns, CallKept, Calling, InCall, HeadIs, Awaiting, At, Wakes
  <2> QED
    BY <1>a, <1>10, <2>1
<1>11. ASSUME NEW t \in Tasks, NEW l \in PCs, Moved(t, l) PROVE Heads'
  <2>1. HeadsAt(t)'
    BY <1>11
       DEF Heads, HeadsAt, Moved, Turns, CallKept, HeadIs, Awaiting, At, Wakes
  <2> QED
    BY <1>a, <1>11, <2>1
<1>12. ASSUME NEW t \in Tasks, NEW o \in Lists, Slept(t, o) PROVE Heads'
  <2>1. HeadsAt(t)'
    BY <1>12
       DEF Heads, HeadsAt, Slept, Sleeps, CallKept, HeadIs, Awaiting, At, Wakes
  <2> QED
    BY <1>a, <1>12, <2>1
<1>13. ASSUME NEW t \in Tasks, NEW o \in Lists, Emptied(t, o) PROVE Heads'
  <2>1. HeadsAt(t)'
    BY <1>13
       DEF Heads, HeadsAt, Emptied, Empties, CallKept, Calling, HeadIs, Awaiting, At, Wakes
  <2> QED
    BY <1>a, <1>13, <2>1
<1>14. ASSUME NEW t \in Tasks, NEW o \in Lists, NEW l \in {"next", "cwait", "raise"},
              Roused(t, o, l)
       PROVE  Heads'
  <2>1. HeadsAt(t)'
    BY <1>14
       DEF Heads, HeadsAt, Roused, Rouses, Calling, HeadIs, Awaiting, At, Wakes
  <2> QED
    BY <1>a, <1>14, <2>1
<1>15. ASSUME NEW t \in Tasks, NEW i \in 1 .. Len(Source(t)), WakePopped(t, i) PROVE Heads'
  <2>1. HeadsAt(t)'
    BY <1>15
       DEF Heads, HeadsAt, WakePopped, WakePops, CallKept, HeadIs, Awaiting, At, Wakes
  <2> QED
    BY <1>a, <1>15, <2>1
<1>16. ASSUME NEW c \in Cancellers, Cancelled(c) PROVE Heads'
  BY <1>b, <1>16
<1>17. ASSUME NEW c \in Cancellers, NEW t \in Tasks, Aimed(c, t) PROVE Heads'
  BY <1>b, <1>17
<1>18. ASSUME Rested PROVE Heads'
  BY <1>b, <1>18
<1> QED
  BY <1>1, <1>2, <1>3, <1>4, <1>5, <1>6, <1>7, <1>8, <1>9, <1>10, <1>11, <1>12, <1>13, <1>14,
     <1>15, <1>16, <1>17, <1>18 DEF Deed

LEMMA FlowStep == ASSUME TypeOK, Busy, Flow, Known, Fresh, Deed PROVE Flow'
<1> USE DeedFrames
<1>a. ASSUME NEW t \in Tasks, Acts(t), FlowAt(t)' PROVE Flow'
  BY <1>a, OthersStand, StandingFlow DEF Flow
<1>b. ASSUME Waves PROVE Flow'
  BY <1>b, AllStand, StandingFlow DEF Flow
<1>1. ASSUME NEW t \in Tasks, Returned(t) PROVE Flow'
  <2>1. FlowAt(t)'
    BY <1>1
       DEF Flow, FlowAt, Returned, Returns, Waits, CondWaiting, Awaiting, Wakes, At, HandKept,
           CallKept, Events, Lists
  <2> QED
    BY <1>a, <1>1, <2>1
<1>2. ASSUME NEW t \in Tasks, Failed(t) PROVE Flow'
  <2>1. FlowAt(t)'
    BY <1>2
       DEF Flow, FlowAt, Failed, Raises, Waits, CondWaiting, Awaiting, Wakes, At, HandKept,
           CallKept, Events, Lists
  <2> QED
    BY <1>a, <1>2, <2>1
<1>3. ASSUME NEW t \in Tasks, Stopped(t) PROVE Flow'
  <2>1. FlowAt(t)'
    BY <1>3
       DEF Flow, FlowAt, Stopped, Stops, Waits, CondWaiting, Awaiting, Wakes, At, HandKept,
           CallKept, Events, Lists
  <2> QED
    BY <1>a, <1>3, <2>1
<1>4. ASSUME NEW t \in Tasks, CondSlept(t) PROVE Flow'
  <2>1. FlowAt(t)'
    BY <1>4, AddFuture
       DEF Flow, FlowAt, CondSlept, Turns, Queues, Adds, InCall, HeadIs, Waits, CondWaiting,
           Awaiting, Wakes, At, HandKept, CallKept, Events, Lists
  <2> QED
    BY <1>a, <1>4, <2>1
<1>5. ASSUME NEW t \in Tasks, WakeEnded(t) PROVE Flow'
  <2>1. FlowAt(t)'
    BY <1>5, LeaveFutures
       DEF Flow, FlowAt, WakeEnded, WakeEnds, Ends, Leaves, Waits, CondWaiting, Awaiting, Wakes,
           At, HandKept, CallKept, Events, Lists
  <2> QED
    BY <1>a, <1>5, <2>1
<1>6. ASSUME NEW t \in Tasks, OfferRaised(t) PROVE Flow'
  <2>1. FlowAt(t)'
    BY <1>6
       DEF Flow, FlowAt, OfferRaised, Raises, Waits, CondWaiting, Awaiting, Wakes, At, HandKept,
           CallKept, Events, Lists
  <2> QED
    BY <1>a, <1>6, <2>1
<1>7. ASSUME NEW t \in Tasks, OfferEnded(t) PROVE Flow'
  <2>1. FlowAt(t)'
    BY <1>7, CompleteFuture, TaskTyped
       DEF Flow, FlowAt, OfferEnded, Ends, Writes, TaskStates, Waits, CondWaiting, Awaiting,
           Wakes, At, HandKept, CallKept, Events, Lists
  <2> QED
    BY <1>a, <1>7, <2>1
<1>8. ASSUME NEW t \in Tasks, OfferMore(t) PROVE Flow'
  <2>1. FlowAt(t)'
    BY <1>8, CompleteFuture, TaskTyped
       DEF Flow, FlowAt, OfferMore, Writes, TaskStates, Waits, CondWaiting, Awaiting, Wakes, At,
           HandKept, CallKept, Events, Lists
  <2> QED
    BY <1>a, <1>8, <2>1
<1>9. ASSUME NEW t \in Tasks, Excepted(t) PROVE Flow'
  <2>1. FlowAt(t)'
    <3>0. FlowAt(t) /\ At(t, "except") /\ UNCHANGED fst
      BY <1>9 DEF Flow, Excepted
    <3>1. CASE Retakes(t) /\ UNCHANGED mu
      BY ONLY <3>0, <3>1
         DEF FlowAt, Retakes, Waits, CondWaiting, Awaiting, Wakes, At, HandKept
    <3>2. CASE /\ Rouses(t, "lock", "raise") /\ task'[t].raising
               /\ mu' = [mu EXCEPT !["lock"] = t]
      <4>1. mu'[MuOf("lock")] = t
        BY <3>2, TakeMutex DEF Mutexes, MuOf
      <4> QED
        BY ONLY <3>0, <3>2, <4>1
           DEF FlowAt, Rouses, Waits, CondWaiting, Awaiting, Wakes, At, Events
    <3>3. CASE Raises(t) /\ UNCHANGED mu
      BY ONLY <3>0, <3>3 DEF FlowAt, Raises, Waits, CondWaiting, Awaiting, Wakes, At
    <3> QED
      BY <1>9, <3>1, <3>2, <3>3 DEF Excepted
  <2> QED
    BY <1>a, <1>9, <2>1
<1>10. ASSUME NEW t \in Tasks, NEW l \in PCs, Turned(t, l) PROVE Flow'
  <2>1. FlowAt(t)'
    BY <1>10, TakeMutex
       DEF Flow, FlowAt, Turned, Turns, Calling, InCall, HeadIs, Mutexes, Waits, CondWaiting,
           Awaiting, Wakes, At, HandKept, CallKept, Events, Lists
  <2> QED
    BY <1>a, <1>10, <2>1
<1>11. ASSUME NEW t \in Tasks, NEW l \in PCs, Moved(t, l) PROVE Flow'
  <2>1. fst[t] # <<>> /\ State(Fut(t))' = State(Fut(t)) /\ fst' = fst
    BY <1>11 DEF Moved, ListsKept, Flow, FlowAt, Waits, Awaiting, Fut, State
  <2>2. State(Fut(t)) \in FutStates
    BY <2>1, LastExists, StateTyped
  <2>3. l = "woken" => State(Fut(t)) = "result"
    BY <1>11, <2>2 DEF Moved, Fresh, At, Done, FutStates
  <2>4. FlowAt(t)'
    BY <1>11, <2>1, <2>3
       DEF Flow, FlowAt, Moved, Turns, Waits, CondWaiting, Awaiting, Wakes, At, HandKept, CallKept
  <2> QED
    BY <1>a, <1>11, <2>4
<1>12. ASSUME NEW t \in Tasks, NEW o \in Lists, Slept(t, o) PROVE Flow'
  <2>1. FlowAt(t)'
    BY <1>12, AddFuture
       DEF Flow, FlowAt, Slept, Sleeps, Queues, Adds, Waits, CondWaiting, Awaiting, Wakes, At,
           HandKept, CallKept, Events, Lists
  <2> QED
    BY <1>a, <1>12, <2>1
<1>13. ASSUME NEW t \in Tasks, NEW o \in Lists, Emptied(t, o) PROVE Flow'
  <2>1. FlowAt(t)'
    BY <1>13
       DEF Flow, FlowAt, Emptied, Empties, Calling, Waits, CondWaiting, Awaiting, Wakes, At,
           HandKept, CallKept, Events, Lists
  <2> QED
    BY <1>a, <1>13, <2>1
<1>14. ASSUME NEW t \in Tasks, NEW o \in Lists, NEW l \in {"next", "cwait", "raise"},
              Roused(t, o, l)
       PROVE  Flow'
  <2>1. FlowAt(t)'
    BY <1>14, TakeMutex, MutexOf, LeaveFutures
       DEF Flow, FlowAt, Roused, Rouses, Calling, ListsKept, Leaves, Waits, CondWaiting,
           Awaiting, Wakes, At, HandKept, CallKept, Events, Lists
  <2> QED
    BY <1>a, <1>14, <2>1
<1>15. ASSUME NEW t \in Tasks, NEW i \in 1 .. Len(Source(t)), WakePopped(t, i) PROVE Flow'
  <2>1. Source(t)[i] \in Futs
    BY SourceTyped
  <2>2. ASSUME task[t].obj = "hand" PROVE task'[t].left > Len(task'[t].hand) /\ task[t].hand # <<>>
    <3>1. task[t].hand \in Seq(Futs) /\ i \in 1 .. Len(task[t].hand) /\ task[t].left \in Int
      BY <2>2, TaskTyped DEF TaskStates, Source
    <3>2. Len(task'[t].hand) = Len(task[t].hand) - i
      BY <2>2, <3>1, <1>15, DropContent DEF WakePopped, WakePops, Lists, Events
    <3> QED
      BY <2>2, <3>1, <3>2, <1>15 DEF WakePopped, WakePops, Flow, FlowAt, At
  <2>a. /\ Wakes(t) /\ At(t, "wake") /\ FlowAt(t) /\ ~Awaiting(t)
        /\ At(t, "offer")' /\ Wakes(t)' /\ ~Awaiting(t)'
        /\ CondWaiting(t)' = CondWaiting(t) /\ Waits(t)' = Waits(t)
        /\ task'[t].raising = task[t].raising /\ task'[t].obj = task[t].obj
        /\ task'[t].ret = task[t].ret /\ task'[t].left = task[t].left
        /\ task'[t].offer = Source(t)[i] /\ UNCHANGED <<mu, fst>>
        /\ task[t].obj = "hand" \/ task'[t].hand = task[t].hand
    BY <1>15 DEF Flow, WakePopped, WakePops, CallKept, Waits, CondWaiting, Awaiting, Wakes, At
  <2>3. FlowAt(t)'
    BY ONLY <2>1, <2>2, <2>a DEF FlowAt, At
  <2> QED
    BY <1>a, <1>15, <2>3
<1>16. ASSUME NEW c \in Cancellers, Cancelled(c) PROVE Flow'
  BY <1>b, <1>16
<1>17. ASSUME NEW c \in Cancellers, NEW t \in Tasks, Aimed(c, t) PROVE Flow'
  BY <1>b, <1>17
<1>18. ASSUME Rested PROVE Flow'
  BY <1>b, <1>18
<1> QED
  BY <1>1, <1>2, <1>3, <1>4, <1>5, <1>6, <1>7, <1>8, <1>9, <1>10, <1>11, <1>12, <1>13, <1>14,
     <1>15, <1>16, <1>17, <1>18 DEF Deed

-----------------------------------------------------------------------------
\* The lists: what they hold, and that they hold it once.

In(o) == Content(waiters[o])

\* Only list o changes.
Relists(o) ==
  /\ waiters' \in [Lists -> Seq(Futs)]
  /\ \A p \in Lists : Once(waiters'[p]) /\ (p # o => waiters'[p] = waiters[p])

LEMMA Relisted ==
  ASSUME TypeOK, Placed, NEW o \in Lists, NEW s \in Seq(Futs), Once(s),
         waiters' = [waiters EXCEPT ![o] = s]
  PROVE  Relists(o) /\ waiters'[o] = s /\ In(o)' = Content(s)
<1>1. waiters \in [Lists -> Seq(Futs)] /\ \A p \in Lists : Once(waiters[p])
  BY DEF TypeOK, Placed
<1>2. waiters' \in [Lists -> Seq(Futs)] /\ waiters'[o] = s /\ \A p \in Lists : p # o => waiters'[p] = waiters[p]
  BY <1>1
<1> QED
  BY <1>1, <1>2 DEF Relists, In

LEMMA QueuesRelist ==
  ASSUME TypeOK, Placed, Known, NEW t \in Tasks, NEW o \in Lists, Queues(t, o)
  PROVE  Relists(o) /\ In(o)' = In(o) \cup {NewFut(t)} /\ Adds(t)
<1> PICK s \in Seq(Futs) : s = waiters[o]
  BY DEF TypeOK
<1> PICK f \in Futs : f = NewFut(t)
  BY LastExists
<1> PICK n : n = Append(s, f)
  OBVIOUS
<1>1. Adds(t)
  BY AddFuture DEF Queues
<1>2. Once(s) /\ f \notin Content(s)
  BY <1>1 DEF Placed, Known, Adds
<1>3. n \in Seq(Futs) /\ Once(n) /\ Content(n) = Content(s) \cup {f}
  BY ONLY s \in Seq(Futs), f \in Futs, n = Append(s, f), <1>2, AppendContent
<1>4. waiters' = [waiters EXCEPT ![o] = n]
  BY DEF Queues
<1>5. Relists(o) /\ In(o)' = Content(n)
  BY <1>3, <1>4, Relisted
<1> QED
  BY <1>1, <1>3, <1>5 DEF In

LEMMA EmptyRelists ==
  ASSUME TypeOK, Placed, NEW o \in Lists, waiters' = [waiters EXCEPT ![o] = <<>>]
  PROVE  Relists(o) /\ In(o)' = {}
<1>1. <<>> \in Seq(Futs) /\ Once(<<>>) /\ Content(<<>>) = {}
  BY SmallContent
<1> QED
  BY <1>1, Relisted

LEMMA PopRelists ==
  ASSUME TypeOK, Placed, NEW o \in Lists, NEW i \in 1 .. Len(waiters[o]),
         waiters' = [waiters EXCEPT ![o] = SubSeq(@, i + 1, Len(@))]
  PROVE  Relists(o) /\ In(o)' = {waiters[o][j] : j \in (i + 1) .. Len(waiters[o])}
<1> PICK s \in Seq(Futs) : s = waiters[o]
  BY DEF TypeOK
<1> PICK n : n = SubSeq(s, i + 1, Len(s))
  OBVIOUS
<1>1. i \in 1 .. Len(s) /\ Once(s)
  BY DEF Placed
<1>2. n \in Seq(Futs) /\ Once(n) /\ Content(n) = {s[j] : j \in (i + 1) .. Len(s)}
  BY ONLY s \in Seq(Futs), n = SubSeq(s, i + 1, Len(s)), <1>1, DropContent
<1>3. Relists(o) /\ In(o)' = Content(n)
  BY <1>2, Relisted
<1> QED
  BY <1>2, <1>3

LEMMA WithdrawRelists ==
  ASSUME TypeOK, Placed, NEW o \in Lists, NEW f, Withdraw(o, f)
  PROVE  Relists(o) /\ In(o)' = In(o) \ {f}
<1> PICK s \in Seq(Futs) : s = waiters[o]
  BY DEF TypeOK
<1>1. Once(s)
  BY DEF Placed
<1>2. CASE ~Contains(s, f) /\ UNCHANGED waiters
  BY <1>2 DEF Relists, TypeOK, Placed, In, Contains, Content
<1>3. ASSUME NEW i \in 1 .. Len(s), s[i] = f, waiters' = [waiters EXCEPT ![o] = RemoveAt(@, i)]
      PROVE  Relists(o) /\ In(o)' = In(o) \ {f}
  <2> PICK n : n = SubSeq(s, 1, i - 1) \o SubSeq(s, i + 1, Len(s))
    OBVIOUS
  <2>1. n \in Seq(Futs) /\ Once(n) /\ Content(n) = Content(s) \ {f}
    BY <1>1, <1>3, CutContent
  <2>2. waiters' = [waiters EXCEPT ![o] = n]
    BY <1>3 DEF RemoveAt
  <2>3. Relists(o) /\ In(o)' = Content(n)
    BY <2>1, <2>2, Relisted
  <2> QED
    BY <2>1, <2>3 DEF In
<1> QED
  BY <1>2, <1>3 DEF Withdraw

\* What a step that creates no future does to the lists and the futures.
Shrinks == waiters' \in [Lists -> Seq(Futs)] /\ \A p \in Lists : Once(waiters'[p]) /\ In(p)' \subseteq In(p)
Lasts   == /\ fst' \in [Tasks -> Seq(FutStates)]
           /\ \A u \in Tasks : Fut(u)' = Fut(u) /\ (fst[u] # <<>> => fst'[u] # <<>>)
           /\ \A g \in Futs : Exists(g) => Exists(g)' /\ (Pending(g)' => Pending(g))

LEMMA RelistsShrink ==
  ASSUME NEW o, Relists(o), o \in Lists => In(o)' \subseteq In(o) PROVE Shrinks
  BY DEF Relists, Shrinks, In

LEMMA KeptShrinks ==
  ASSUME TypeOK, Placed, UNCHANGED waiters PROVE Shrinks
  BY DEF TypeOK, Placed, Shrinks, In

LEMMA LeavesLast == ASSUME Leaves PROVE Lasts
  BY DEF Leaves, Lasts, Pending

LEMMA WritesLast == ASSUME NEW f, NEW v, v # "pending", Writes(f, v) PROVE Lasts
  BY DEF Writes, Lasts, Pending

LEMMA DeedShrinks ==
  ASSUME TypeOK, Flow, Known, Placed
  PROVE  /\ \A t \in Tasks :
              /\ Returned(t) \/ Failed(t) \/ Stopped(t) \/ WakeEnded(t) \/ OfferRaised(t)
                 \/ OfferEnded(t) \/ OfferMore(t) \/ Excepted(t) => Shrinks /\ Lasts
              /\ \A l \in PCs : Turned(t, l) \/ Moved(t, l) => Shrinks /\ Lasts
              /\ \A o \in Lists : Emptied(t, o) => Shrinks /\ Lasts
              /\ \A o \in Lists, l \in {"next", "cwait", "raise"} : Roused(t, o, l) => Shrinks /\ Lasts
              /\ \A i \in 1 .. Len(Source(t)) : WakePopped(t, i) => Shrinks /\ Lasts
         /\ \A c \in Cancellers : Cancelled(c) => Shrinks /\ Lasts
         /\ \A c \in Cancellers, t \in Tasks : Aimed(c, t) => Shrinks /\ Lasts
         /\ Rested => Shrinks /\ Lasts
<1>1. ASSUME NEW t \in Tasks, Returned(t) PROVE Shrinks /\ Lasts
  BY <1>1, LeaveFutures, LeavesLast, KeptShrinks
     DEF Returned, ListsKept
<1>2. ASSUME NEW t \in Tasks, Failed(t) PROVE Shrinks /\ Lasts
  BY <1>2, LeaveFutures, LeavesLast, KeptShrinks
     DEF Failed, ListsKept
<1>3. ASSUME NEW t \in Tasks, Stopped(t) PROVE Shrinks /\ Lasts
  BY <1>3, LeaveFutures, LeavesLast, KeptShrinks
     DEF Stopped, ListsKept
<1>4. ASSUME NEW t \in Tasks, WakeEnded(t) PROVE Shrinks /\ Lasts
  BY <1>4, LeaveFutures, LeavesLast, KeptShrinks, EmptyRelists, RelistsShrink
     DEF WakeEnded, WakeEnds
<1>5. ASSUME NEW t \in Tasks, OfferRaised(t) PROVE Shrinks /\ Lasts
  BY <1>5, LeaveFutures, LeavesLast, KeptShrinks
     DEF OfferRaised, ListsKept
<1>6. ASSUME NEW t \in Tasks, OfferEnded(t) PROVE Shrinks /\ Lasts
  <2>1. At(t, "offer") /\ Completes(t)
    BY <1>6 DEF OfferEnded
  <2> QED
    BY <2>1, CompleteFuture, WritesLast, KeptShrinks DEF Completes
<1>7. ASSUME NEW t \in Tasks, OfferMore(t) PROVE Shrinks /\ Lasts
  <2>1. At(t, "offer") /\ Completes(t)
    BY <1>7 DEF OfferMore
  <2> QED
    BY <2>1, CompleteFuture, WritesLast, KeptShrinks DEF Completes
<1>8. ASSUME NEW t \in Tasks, Excepted(t) PROVE Shrinks /\ Lasts
  BY <1>8, LeaveFutures, LeavesLast, WithdrawRelists, RelistsShrink, TaskTyped
     DEF Excepted, Flow, FlowAt, Awaiting, At, TaskStates
<1>9. ASSUME NEW t \in Tasks, NEW l \in PCs, Turned(t, l) PROVE Shrinks /\ Lasts
  BY <1>9, LeaveFutures, LeavesLast, KeptShrinks
     DEF Turned, ListsKept
<1>10. ASSUME NEW t \in Tasks, NEW l \in PCs, Moved(t, l) PROVE Shrinks /\ Lasts
  BY <1>10, LeaveFutures, LeavesLast, KeptShrinks
     DEF Moved, ListsKept
<1>11. ASSUME NEW t \in Tasks, NEW o \in Lists, Emptied(t, o) PROVE Shrinks /\ Lasts
  BY <1>11, LeaveFutures, LeavesLast, EmptyRelists, RelistsShrink
     DEF Emptied
<1>12. ASSUME NEW t \in Tasks, NEW o \in Lists, NEW l \in {"next", "cwait", "raise"},
              Roused(t, o, l)
       PROVE  Shrinks /\ Lasts
  BY <1>12, LeaveFutures, LeavesLast, KeptShrinks
     DEF Roused, ListsKept
<1>13. ASSUME NEW t \in Tasks, NEW i \in 1 .. Len(Source(t)), WakePopped(t, i)
       PROVE  Shrinks /\ Lasts
  <2>1. Lasts
    BY <1>13, LeaveFutures, LeavesLast DEF WakePopped, WakePops
  <2>2. CASE UNCHANGED waiters
    BY <2>1, <2>2, KeptShrinks
  <2>3. CASE /\ task[t].obj \in Lists
             /\ waiters' = [waiters EXCEPT ![task[t].obj] = SubSeq(@, i + 1, Len(@))]
    <3> PICK o \in Lists : o = task[t].obj
      BY <2>3
    <3>1. Source(t) = waiters[o] /\ waiters[o] \in Seq(Futs)
      BY DEF Source, Lists, Events, TypeOK
    <3>2. Relists(o) /\ In(o)' = {waiters[o][j] : j \in (i + 1) .. Len(waiters[o])}
      BY <2>3, <3>1, PopRelists
    <3>3. {waiters[o][j] : j \in (i + 1) .. Len(waiters[o])} \subseteq In(o)
      BY <3>1 DEF In, Content
    <3> QED
      BY <2>1, <3>2, <3>3, RelistsShrink
  <2> QED
    BY <1>13, <2>2, <2>3 DEF WakePopped, WakePops
<1>14. ASSUME NEW c \in Cancellers, Cancelled(c) PROVE Shrinks /\ Lasts
  BY <1>14, CancelledFuture, LeavesLast, WritesLast, KeptShrinks
     DEF Cancelled
<1>15. ASSUME NEW c \in Cancellers, NEW t \in Tasks, Aimed(c, t) PROVE Shrinks /\ Lasts
  BY <1>15, LeaveFutures, LeavesLast, KeptShrinks
     DEF Aimed, ListsKept
<1>16. ASSUME Rested PROVE Shrinks /\ Lasts
  BY <1>16, LeaveFutures, LeavesLast, KeptShrinks
     DEF Rested, ListsKept
<1> QED
  BY <1>1, <1>2, <1>3, <1>4, <1>5, <1>6, <1>7, <1>8, <1>9, <1>10, <1>11, <1>12, <1>13, <1>14,
     <1>15, <1>16

\* Placed: a future is in the list its task waits in, and in no other.

LEMMA StandingWaits ==
  ASSUME NEW u \in Tasks, Standing(u)
  PROVE  Waits(u)' = Waits(u) /\ ListOf(u)' = ListOf(u) /\ CondWaiting(u)' = CondWaiting(u)
         /\ Awaiting(u)' = Awaiting(u) /\ \A l : At(u, l)' = At(u, l)
  BY DEF Waits, ListOf, CondWaiting, Awaiting, Wakes, At, Standing, Same, HandKept

\* t waits afterwards only if it did before, in the same list.
WaitsAsBefore(t) == Waits(t)' => Waits(t) /\ ListOf(t)' = ListOf(t)

LEMMA PlacedShrinks ==
  ASSUME Placed, Shrinks, Lasts, \A u \in Tasks : WaitsAsBefore(u)
  PROVE  Placed'
<1>1. ASSUME NEW u \in Tasks, NEW p \in Lists, Waits(u)', (Fut(u) \in Content(waiters[p]))'
      PROVE  (ListOf(u) = p)'
  <2>1. Fut(u)' = Fut(u) /\ Fut(u) \in Content(waiters[p])
    BY <1>1 DEF Shrinks, Lasts, In
  <2> QED
    BY <1>1, <2>1 DEF WaitsAsBefore, Placed
<1> QED
  BY <1>1 DEF Placed, Shrinks

LEMMA PlacedGrows ==
  ASSUME TypeOK, Placed, Known, NEW t \in Tasks, NEW o \in Lists, Queues(t, o),
         (Waits(t) => ListOf(t) = o)', \A u \in Tasks : u # t => WaitsAsBefore(u)
  PROVE  Placed'
<1>1. Relists(o) /\ In(o)' = In(o) \cup {NewFut(t)} /\ Adds(t)
  BY QueuesRelist
<1>2. ASSUME NEW u \in Tasks, NEW p \in Lists, Waits(u)', (Fut(u) \in In(p))'
      PROVE  (ListOf(u) = p)'
  <2>1. CASE u = t
    <3>1. Fut(t)' = NewFut(t) /\ ~Exists(NewFut(t))
      BY <1>1 DEF Adds
    <3>2. CASE p # o
      <4>1. In(p)' = In(p)
        BY <1>1, <3>2 DEF Relists, In
      <4> QED
        BY <1>2, <2>1, <3>1, <4>1 DEF Known, In
    <3> QED
      BY <1>2, <2>1, <3>2
  <2>2. CASE u # t
    <3>1. Fut(u)' = Fut(u) /\ Fut(u) # NewFut(t)
      BY <1>1, <2>2 DEF Adds, Fut, NewFut
    <3>2. p # o => In(p)' = In(p)
      BY <1>1 DEF Relists, In
    <3>3. Fut(u) \in In(p)
      BY <1>1, <1>2, <3>1, <3>2
    <3> QED
      BY <1>2, <2>2, <3>3 DEF WaitsAsBefore, Placed, In
  <2> QED
    BY <2>1, <2>2
<1>3. \A p \in Lists : Once(waiters'[p])
  BY <1>1 DEF Relists
<1> QED
  BY <1>2, <1>3 DEF Placed, In

\* Two kinds of steps: t enters list o, or nobody enters any.
Steady == Shrinks /\ Lasts /\ \A u \in Tasks : WaitsAsBefore(u)

Enters(t, o) ==
  /\ Acts(t) /\ Queues(t, o) /\ (Waits(t) /\ ListOf(t) = o)'
  /\ \A u \in Tasks : u # t => WaitsAsBefore(u)

Kind == Steady \/ \E t \in Tasks, o \in Lists : Enters(t, o)

LEMMA DeedKinds ==
  ASSUME TypeOK, Flow, Known, Placed, Deed
  PROVE  Kind
<1> USE DeedFrames, DeedShrinks
<1>a. ASSUME NEW t \in Tasks, Acts(t), WaitsAsBefore(t), Shrinks, Lasts PROVE Kind
  BY <1>a, OthersStand, StandingWaits DEF WaitsAsBefore, Kind, Steady
<1>b. ASSUME Waves, Shrinks, Lasts PROVE Kind
  BY <1>b, AllStand, StandingWaits DEF WaitsAsBefore, Kind, Steady
<1>c. ASSUME NEW t \in Tasks, NEW o \in Lists, Acts(t), Queues(t, o), (Waits(t) /\ ListOf(t) = o)'
      PROVE  Kind
  BY <1>c, OthersStand, StandingWaits DEF WaitsAsBefore, Kind, Enters
<1>1. ASSUME NEW t \in Tasks, Returned(t) PROVE Kind
  <2>1. WaitsAsBefore(t)
    BY <1>1
       DEF WaitsAsBefore, Returned, Returns, Waits, ListOf, CondWaiting, Awaiting, Wakes, At
  <2> QED
    BY <1>a, <1>1, <2>1
<1>2. ASSUME NEW t \in Tasks, Failed(t) PROVE Kind
  <2>1. WaitsAsBefore(t)
    BY <1>2
       DEF WaitsAsBefore, Failed, Raises, Waits, ListOf, CondWaiting, Awaiting, Wakes, At
  <2> QED
    BY <1>a, <1>2, <2>1
<1>3. ASSUME NEW t \in Tasks, Stopped(t) PROVE Kind
  <2>1. WaitsAsBefore(t)
    BY <1>3
       DEF WaitsAsBefore, Stopped, Stops, Waits, ListOf, CondWaiting, Awaiting, Wakes, At
  <2> QED
    BY <1>a, <1>3, <2>1
<1>4. ASSUME NEW t \in Tasks, CondSlept(t) PROVE Kind
  <2>1. (Waits(t) /\ ListOf(t) = "cond")'
    BY <1>4 DEF CondSlept, Turns, Waits, ListOf, CondWaiting, Awaiting, Wakes, At
  <2>2. Queues(t, "cond") /\ "cond" \in Lists
    BY <1>4 DEF CondSlept, Lists
  <2> QED
    BY <1>c, <1>4, <2>1, <2>2
<1>5. ASSUME NEW t \in Tasks, WakeEnded(t) PROVE Kind
  <2>1. WaitsAsBefore(t)
    BY <1>5
       DEF WaitsAsBefore, WakeEnded, WakeEnds, Ends, Waits, ListOf, CondWaiting, Awaiting,
           Wakes, At
  <2> QED
    BY <1>a, <1>5, <2>1
<1>6. ASSUME NEW t \in Tasks, OfferRaised(t) PROVE Kind
  <2>1. WaitsAsBefore(t)
    BY <1>6
       DEF WaitsAsBefore, OfferRaised, Raises, Waits, ListOf, CondWaiting, Awaiting, Wakes, At
  <2> QED
    BY <1>a, <1>6, <2>1
<1>7. ASSUME NEW t \in Tasks, OfferEnded(t) PROVE Kind
  <2>1. WaitsAsBefore(t)
    BY <1>7
       DEF WaitsAsBefore, OfferEnded, Ends, Waits, ListOf, CondWaiting, Awaiting, Wakes, At
  <2> QED
    BY <1>a, <1>7, <2>1
<1>8. ASSUME NEW t \in Tasks, OfferMore(t) PROVE Kind
  <2>1. WaitsAsBefore(t)
    BY <1>8
       DEF WaitsAsBefore, OfferMore, Waits, ListOf, CondWaiting, Awaiting, Wakes, At
  <2> QED
    BY <1>a, <1>8, <2>1
<1>9. ASSUME NEW t \in Tasks, Excepted(t) PROVE Kind
  <2>1. WaitsAsBefore(t)
    BY <1>9
       DEF WaitsAsBefore, Excepted, Retakes, Rouses, Raises, Waits, ListOf, CondWaiting,
           Awaiting, Wakes, At
  <2> QED
    BY <1>a, <1>9, <2>1
<1>10. ASSUME NEW t \in Tasks, NEW l \in PCs, Turned(t, l) PROVE Kind
  <2>1. WaitsAsBefore(t)
    BY <1>10
       DEF WaitsAsBefore, Turned, Turns, Waits, ListOf, CondWaiting, Awaiting, Wakes, At
  <2> QED
    BY <1>a, <1>10, <2>1
<1>11. ASSUME NEW t \in Tasks, NEW l \in PCs, Moved(t, l) PROVE Kind
  <2>1. WaitsAsBefore(t)
    BY <1>11
       DEF WaitsAsBefore, Moved, Turns, Waits, ListOf, CondWaiting, Awaiting, Wakes, At
  <2> QED
    BY <1>a, <1>11, <2>1
<1>12. ASSUME NEW t \in Tasks, NEW o \in Lists, Slept(t, o) PROVE Kind
  <2>1. (Waits(t) /\ ListOf(t) = o)'
    BY <1>12 DEF Slept, Sleeps, Waits, ListOf, CondWaiting, Awaiting, Wakes, At
  <2>2. Queues(t, o)
    BY <1>12 DEF Slept
  <2> QED
    BY <1>c, <1>12, <2>1, <2>2
<1>13. ASSUME NEW t \in Tasks, NEW o \in Lists, Emptied(t, o) PROVE Kind
  <2>1. WaitsAsBefore(t)
    BY <1>13
       DEF WaitsAsBefore, Emptied, Empties, Waits, ListOf, CondWaiting, Awaiting, Wakes, At
  <2> QED
    BY <1>a, <1>13, <2>1
<1>14. ASSUME NEW t \in Tasks, NEW o \in Lists, NEW l \in {"next", "cwait", "raise"},
              Roused(t, o, l)
       PROVE  Kind
  <2>1. WaitsAsBefore(t)
    BY <1>14
       DEF WaitsAsBefore, Roused, Rouses, Calling, Waits, ListOf, CondWaiting, Awaiting, Wakes,
           At
  <2> QED
    BY <1>a, <1>14, <2>1
<1>15. ASSUME NEW t \in Tasks, NEW i \in 1 .. Len(Source(t)), WakePopped(t, i) PROVE Kind
  <2>1. WaitsAsBefore(t)
    BY <1>15
       DEF WaitsAsBefore, WakePopped, WakePops, Waits, ListOf, CondWaiting, Awaiting, Wakes, At
  <2> QED
    BY <1>a, <1>15, <2>1
<1>16. ASSUME NEW c \in Cancellers, Cancelled(c) PROVE Kind
  BY <1>b, <1>16
<1>17. ASSUME NEW c \in Cancellers, NEW t \in Tasks, Aimed(c, t) PROVE Kind
  BY <1>b, <1>17
<1>18. ASSUME Rested PROVE Kind
  BY <1>b, <1>18
<1> QED
  BY <1>1, <1>2, <1>3, <1>4, <1>5, <1>6, <1>7, <1>8, <1>9, <1>10, <1>11, <1>12, <1>13, <1>14,
     <1>15, <1>16, <1>17, <1>18 DEF Deed

LEMMA PlacedStep ==
  ASSUME TypeOK, Flow, Known, Placed, Deed
  PROVE  Placed'
<1>1. ASSUME NEW t \in Tasks, NEW o \in Lists, Enters(t, o) PROVE Placed'
  BY <1>1, PlacedGrows DEF Enters
<1> QED
  BY <1>1, DeedKinds, PlacedShrinks DEF Kind, Steady

\* Known: the futures in the lists, in the hands and in the sights of the cancellers exist.

HandsExist(t) ==
  /\ \A f \in Content(task'[t].hand) : f \in Futs /\ Exists(f)
  /\ task'[t].pc = "offer" => task'[t].offer \in Futs /\ Exists(task'[t].offer)

LEMMA OldHands ==
  ASSUME TypeOK, Known, NEW t \in Tasks
  PROVE  \A f \in Content(task[t].hand) : f \in Futs /\ Exists(f)
  BY TaskTyped, ContentTyped DEF Known, TaskStates

LEMMA OldLists ==
  ASSUME TypeOK, Known, NEW o \in Lists PROVE \A f \in In(o) : f \in Futs /\ Exists(f)
<1>1. waiters[o] \in Seq(Futs)
  BY DEF TypeOK
<1> QED
  BY <1>1, ContentTyped DEF Known, In

LEMMA OldSource ==
  ASSUME TypeOK, Known, NEW t \in Tasks PROVE \A f \in Content(Source(t)) : f \in Futs /\ Exists(f)
  BY OldHands, OldLists, TaskTyped DEF Source, TaskStates, In

LEMMA StandingHands ==
  ASSUME TypeOK, Flow, Known, NEW u \in Tasks, Standing(u) PROVE HandsExist(u)
  BY OldHands DEF Known, Flow, FlowAt, At, HandsExist, Standing, Same, HandKept

LEMMA KnownShrinks ==
  ASSUME TypeOK, Known, Shrinks, Lasts, \A u \in Tasks : HandsExist(u),
         \A c \in Cancellers : aim'[c] \in Futs => Exists(aim'[c])
  PROVE  Known'
<1>1. ASSUME NEW o \in Lists, NEW f \in In(o)' PROVE Exists(f)'
  <2>1. f \in Futs /\ Exists(f)
    BY OldLists DEF Shrinks
  <2> QED
    BY <2>1 DEF Lasts
<1>2. ASSUME NEW u \in Tasks
      PROVE  /\ \A f \in Content(task'[u].hand) : Exists(f)'
             /\ task'[u].pc = "offer" => Exists(task[u].offer)'
  <2>1. ASSUME NEW f \in Content(task'[u].hand) PROVE Exists(f)'
    BY DEF HandsExist, Lasts
  <2>2. ASSUME task'[u].pc = "offer" PROVE Exists(task[u].offer)'
    <3>1. PICK g \in Futs : g = task'[u].offer /\ Exists(g)
      BY <2>2 DEF HandsExist
    <3>2. Exists(g)'
      BY <3>1 DEF Lasts
    <3> QED
      BY <3>1, <3>2 DEF Exists
  <2> QED
    BY <2>1, <2>2
<1>3. ASSUME NEW c \in Cancellers, aim'[c] \in Futs PROVE Exists(aim[c])'
  <2>1. PICK g \in Futs : g = aim'[c] /\ Exists(g)
    BY <1>3
  <2>2. Exists(g)'
    BY <2>1 DEF Lasts
  <2> QED
    BY <2>1, <2>2 DEF Exists
<1> QED
  BY <1>1, <1>2, <1>3 DEF Known, In, At

LEMMA KnownGrows ==
  ASSUME TypeOK, Known, Placed, NEW t \in Tasks, NEW o \in Lists, Queues(t, o),
         \A u \in Tasks : HandsExist(u), UNCHANGED aim
  PROVE  Known'
<1>0. Relists(o) /\ In(o)' = In(o) \cup {NewFut(t)} /\ Adds(t)
  BY QueuesRelist
<1>1. \A g \in Futs : Exists(g) => Exists(g)'
  BY <1>0 DEF Adds
<1>2. NewFut(t) \in Futs /\ \A g : g = NewFut(t) => Exists(g)'
  <2>1. fst'[t] \in Seq(FutStates) /\ Len(fst'[t]) = Len(fst[t]) + 1 /\ fst'[t] # <<>>
        /\ Len(fst[t]) \in Nat
    BY <1>0 DEF Adds, Fut, NewFut, TypeOK
  <2> QED
    BY <2>1 DEF Exists, NewFut, Futs
<1>3. ASSUME NEW p \in Lists, NEW f \in In(p)' PROVE Exists(f)'
  <2>1. p # o => In(p)' = In(p)
    BY <1>0 DEF Relists, In
  <2>2. f = NewFut(t) \/ (f \in Futs /\ Exists(f))
    BY <1>0, <2>1, OldLists
  <2> QED
    BY <1>1, <1>2, <2>2
<1>4. ASSUME NEW u \in Tasks
      PROVE  /\ \A f \in Content(task'[u].hand) : Exists(f)'
             /\ task'[u].pc = "offer" => Exists(task[u].offer)'
  <2>1. ASSUME NEW f \in Content(task'[u].hand) PROVE Exists(f)'
    BY <1>1 DEF HandsExist
  <2>2. ASSUME task'[u].pc = "offer" PROVE Exists(task[u].offer)'
    <3>1. PICK g \in Futs : g = task'[u].offer /\ Exists(g)
      BY <2>2 DEF HandsExist
    <3> QED
      BY <1>1, <3>1 DEF Exists
  <2> QED
    BY <2>1, <2>2
<1>5. ASSUME NEW c \in Cancellers, aim'[c] \in Futs PROVE Exists(aim[c])'
  <2>1. PICK g \in Futs : g = aim[c] /\ Exists(g)
    BY <1>5 DEF Known
  <2> QED
    BY <1>1, <2>1 DEF Exists
<1> QED
  BY <1>3, <1>4, <1>5 DEF Known, In, At

LEMMA EndIsNone == <<"end">> \notin Futs
<1>1. ASSUME <<"end">> \in Futs PROVE FALSE
  <2>1. PICK t \in Tasks, n \in Nat : <<"end">> = <<t, n>>
    BY <1>1 DEF Futs
  <2>2. Len(<<"end">>) = 1 /\ Len(<<t, n>>) = 2
    OBVIOUS
  <2> QED
    BY <2>1, <2>2
<1> QED
  BY <1>1

LEMMA KnownStep ==
  ASSUME TypeOK, Flow, Known, Placed, Deed
  PROVE  Known'
<1> USE DeedFrames, DeedShrinks
<1>a. ASSUME NEW t \in Tasks, Acts(t), HandsExist(t), Shrinks, Lasts, UNCHANGED aim PROVE Known'
  <2>1. \A u \in Tasks : HandsExist(u)
    BY <1>a, OthersStand, StandingHands
  <2> QED
    BY <1>a, <2>1, KnownShrinks DEF Known
<1>b. ASSUME Waves, Shrinks, Lasts, \A c \in Cancellers : aim'[c] \in Futs => Exists(aim'[c])
      PROVE  Known'
  BY <1>b, AllStand, StandingHands, KnownShrinks
<1>c. ASSUME NEW t \in Tasks, NEW o \in Lists, Acts(t), Queues(t, o), HandsExist(t), UNCHANGED aim
      PROVE  Known'
  <2>1. \A u \in Tasks : HandsExist(u)
    BY <1>c, OthersStand, StandingHands
  <2> QED
    BY <1>c, <2>1, KnownGrows
<1>d. ASSUME NEW t \in Tasks, task'[t].hand = task[t].hand \/ task'[t].hand = <<>>,
             task'[t].pc # "offer"
      PROVE  HandsExist(t)
  BY <1>d, OldHands, SmallContent DEF HandsExist
<1>1. ASSUME NEW t \in Tasks, Returned(t) PROVE Known'
  <2>1. HandsExist(t)
    BY <1>d, <1>1 DEF Returned, Returns, Quiet, HandKept, At
  <2>2. UNCHANGED aim
    BY <1>1 DEF Returned, Quiet
  <2> QED
    BY <1>a, <1>1, <2>1, <2>2
<1>2. ASSUME NEW t \in Tasks, Failed(t) PROVE Known'
  <2>1. HandsExist(t)
    BY <1>d, <1>2 DEF Failed, Raises, Quiet, HandKept, At
  <2>2. UNCHANGED aim
    BY <1>2 DEF Failed, Quiet
  <2> QED
    BY <1>a, <1>2, <2>1, <2>2
<1>3. ASSUME NEW t \in Tasks, Stopped(t) PROVE Known'
  <2>1. HandsExist(t)
    BY <1>d, <1>3 DEF Stopped, Stops, Quiet, HandKept, At
  <2>2. UNCHANGED aim
    BY <1>3 DEF Stopped, Quiet
  <2> QED
    BY <1>a, <1>3, <2>1, <2>2
<1>4. ASSUME NEW t \in Tasks, CondSlept(t) PROVE Known'
  <2>1. HandsExist(t)
    BY <1>d, <1>4 DEF CondSlept, Turns, HandKept, At
  <2>2. Queues(t, "cond") /\ "cond" \in Lists /\ UNCHANGED aim
    BY <1>4 DEF CondSlept, Quiet, Lists
  <2> QED
    BY <1>c, <1>4, <2>1, <2>2
<1>5. ASSUME NEW t \in Tasks, WakeEnded(t) PROVE Known'
  <2>1. HandsExist(t)
    BY <1>d, <1>5 DEF WakeEnded, WakeEnds, Ends, At
  <2>2. UNCHANGED aim
    BY <1>5 DEF WakeEnded
  <2> QED
    BY <1>a, <1>5, <2>1, <2>2
<1>6. ASSUME NEW t \in Tasks, OfferRaised(t) PROVE Known'
  <2>1. HandsExist(t)
    BY <1>d, <1>6 DEF OfferRaised, Raises, At
  <2>2. UNCHANGED aim
    BY <1>6 DEF OfferRaised
  <2> QED
    BY <1>a, <1>6, <2>1, <2>2
<1>7. ASSUME NEW t \in Tasks, OfferEnded(t) PROVE Known'
  <2>1. HandsExist(t)
    BY <1>d, <1>7 DEF OfferEnded, Ends, Completes, At
  <2>2. UNCHANGED aim
    BY <1>7 DEF OfferEnded, Completes
  <2> QED
    BY <1>a, <1>7, <2>1, <2>2
<1>8. ASSUME NEW t \in Tasks, OfferMore(t) PROVE Known'
  <2>1. HandsExist(t)
    BY <1>d, <1>8 DEF OfferMore, Completes, At
  <2>2. UNCHANGED aim
    BY <1>8 DEF OfferMore, Completes
  <2> QED
    BY <1>a, <1>8, <2>1, <2>2
<1>9. ASSUME NEW t \in Tasks, Excepted(t) PROVE Known'
  <2>1. HandsExist(t)
    BY <1>d, <1>9 DEF Excepted, Retakes, Rouses, Raises, HandKept, At
  <2>2. UNCHANGED aim
    BY <1>9 DEF Excepted
  <2> QED
    BY <1>a, <1>9, <2>1, <2>2
<1>10. ASSUME NEW t \in Tasks, NEW l \in PCs, Turned(t, l) PROVE Known'
  <2>1. HandsExist(t)
    BY <1>d, <1>10 DEF Turned, Turns, HandKept, At
  <2>2. UNCHANGED aim
    BY <1>10 DEF Turned
  <2> QED
    BY <1>a, <1>10, <2>1, <2>2
<1>11. ASSUME NEW t \in Tasks, NEW l \in PCs, Moved(t, l) PROVE Known'
  <2>1. HandsExist(t)
    BY <1>d, <1>11 DEF Moved, Turns, Quiet, HandKept, At
  <2>2. UNCHANGED aim
    BY <1>11 DEF Moved, Quiet
  <2> QED
    BY <1>a, <1>11, <2>1, <2>2
<1>12. ASSUME NEW t \in Tasks, NEW o \in Lists, Slept(t, o) PROVE Known'
  <2>1. HandsExist(t)
    BY <1>d, <1>12 DEF Slept, Sleeps, HandKept, At
  <2>2. Queues(t, o) /\ UNCHANGED aim
    BY <1>12 DEF Slept, Quiet
  <2> QED
    BY <1>c, <1>12, <2>1, <2>2
<1>13. ASSUME NEW t \in Tasks, NEW o \in Lists, Emptied(t, o) PROVE Known'
  <2>1. HandsExist(t)
    BY <1>13, OldLists DEF HandsExist, Emptied, Empties, In
  <2> QED
    BY <1>a, <1>13, <2>1 DEF Emptied, Quiet
<1>14. ASSUME NEW t \in Tasks, NEW o \in Lists, NEW l \in {"next", "cwait", "raise"},
              Roused(t, o, l)
       PROVE  Known'
  <2>1. HandsExist(t)
    BY <1>d, <1>14 DEF Roused, Rouses, At
  <2>2. UNCHANGED aim
    BY <1>14 DEF Roused
  <2> QED
    BY <1>a, <1>14, <2>1, <2>2
<1>15. ASSUME NEW t \in Tasks, NEW i \in 1 .. Len(Source(t)), WakePopped(t, i) PROVE Known'
  <2>0. Source(t) \in Seq(Futs)
    BY SourceTyped
  <2>1. Source(t)[i] \in Futs /\ Exists(Source(t)[i])
    BY <2>0, OldSource DEF Content
  <2>2. \A f \in Content(task'[t].hand) : f \in Futs /\ Exists(f)
    <3>1. CASE task[t].obj = "hand" /\ task'[t].hand = SubSeq(task[t].hand, i + 1, Len(task[t].hand))
      <4> PICK s \in Seq(Futs) : s = task[t].hand
        BY TaskTyped DEF TaskStates
      <4> PICK n : n = SubSeq(s, i + 1, Len(s))
        OBVIOUS
      <4>1. i \in 1 .. Len(s)
        BY <3>1 DEF Source
      <4>2. Content(n) = {s[j] : j \in (i + 1) .. Len(s)}
        BY ONLY s \in Seq(Futs), n = SubSeq(s, i + 1, Len(s)), <4>1, DropContent
      <4>3. Content(n) \subseteq Content(s)
        BY <4>1, <4>2 DEF Content
      <4> QED
        BY <3>1, <4>3, OldHands
    <3>2. CASE task'[t].hand = task[t].hand
      BY <3>2, OldHands
    <3> QED
      BY <1>15, <3>1, <3>2 DEF WakePopped, WakePops
  <2>3. HandsExist(t)
    BY <1>15, <2>1, <2>2 DEF HandsExist, WakePopped, WakePops
  <2> QED
    BY <1>a, <1>15, <2>3 DEF WakePopped
<1>16. ASSUME NEW c \in Cancellers, Cancelled(c) PROVE Known'
  <2>1. aim \in [Cancellers -> Futs \cup {<<>>, <<"end">>}] /\ <<"end">> \notin Futs
    BY EndIsNone DEF TypeOK
  <2>2. \A e \in Cancellers : aim'[e] \in Futs => Exists(aim'[e])
    BY <1>16, <2>1 DEF Cancelled, Known
  <2> QED
    BY <1>b, <1>16, <2>2
<1>17. ASSUME NEW c \in Cancellers, NEW t \in Tasks, Aimed(c, t) PROVE Known'
  <2>1. At(t, "parked") => Exists(Fut(t))
    BY LastExists DEF Flow, FlowAt, Waits, Awaiting, At
  <2>2. aim \in [Cancellers -> Futs \cup {<<>>, <<"end">>}] /\ <<"end">> \notin Futs
    BY EndIsNone DEF TypeOK
  <2>3. \A e \in Cancellers : aim'[e] \in Futs => Exists(aim'[e])
    BY <1>17, <2>1, <2>2 DEF Aimed, Known
  <2> QED
    BY <1>b, <1>17, <2>3
<1>18. ASSUME Rested PROVE Known'
  BY <1>b, <1>18 DEF Rested, Quiet, Known
<1> QED
  BY <1>1, <1>2, <1>3, <1>4, <1>5, <1>6, <1>7, <1>8, <1>9, <1>10, <1>11, <1>12, <1>13, <1>14,
     <1>15, <1>16, <1>17, <1>18 DEF Deed

\* Fresh: a future is not cancelled before its task parks on it.

Early(t) == At(t, "arm") \/ CondWaiting(t)

LEMMA StandingEarly == ASSUME NEW u \in Tasks, Standing(u) PROVE Early(u)' = Early(u)
  BY StandingWaits DEF Early

LEMMA EarlyExists ==
  ASSUME TypeOK, Flow, NEW u \in Tasks, Early(u) PROVE Fut(u) \in Futs /\ Exists(Fut(u))
  BY LastExists DEF Early, Flow, FlowAt, Waits, Awaiting, At

LEMMA FreshKept ==
  ASSUME TypeOK, Flow, Fresh, UNCHANGED aim, \A u \in Tasks : Early(u)' => Early(u),
         Leaves \/ \E f \in Futs : Writes(f, "result")
  PROVE  Fresh'
<1> SUFFICES ASSUME NEW u \in Tasks, Early(u)
             PROVE  State(Fut(u))' # "cancelled" /\ \A c \in Cancellers : aim[c] # Fut(u)'
  BY DEF Fresh, Early
<1>1. Fut(u)' = Fut(u)
  BY DEF Leaves, Writes
<1>2. Fut(u) \in Futs /\ Exists(Fut(u))
  BY EarlyExists
<1> PICK g \in Futs : g = Fut(u)
  BY <1>2
<1>3. State(Fut(u))' = State(g)'
  BY <1>1 DEF State
<1>4. State(g)' = State(g) \/ State(g)' = "result"
  BY <1>2 DEF Leaves, Writes
<1>5. State(g) # "cancelled" /\ \A c \in Cancellers : aim[c] # g
  BY DEF Fresh, Early
<1> QED
  BY <1>1, <1>3, <1>4, <1>5

LEMMA FreshGrows ==
  ASSUME TypeOK, Flow, Known, Fresh, UNCHANGED aim, NEW t \in Tasks, Adds(t),
         \A u \in Tasks : u # t => (Early(u)' => Early(u))
  PROVE  Fresh'
<1> SUFFICES ASSUME NEW u \in Tasks, Early(u)'
             PROVE  State(Fut(u))' # "cancelled" /\ \A c \in Cancellers : aim[c] # Fut(u)'
  BY DEF Fresh, Early
<1>1. CASE u = t
  <2>1. State(Fut(t))' = "pending" /\ Fut(t)' = NewFut(t) /\ ~Exists(NewFut(t)) /\ NewFut(t) \in Futs
    BY LastExists DEF Adds
  <2> QED
    BY <1>1, <2>1 DEF Known
<1>2. CASE u # t
  <2>1. Fut(u)' = Fut(u) /\ Early(u)
    BY <1>2 DEF Adds
  <2>2. Fut(u) \in Futs /\ Exists(Fut(u))
    BY <2>1, EarlyExists
  <2> PICK g \in Futs : g = Fut(u)
    BY <2>2
  <2>3. State(Fut(u))' = State(g)' /\ State(g)' = State(g)
    BY <2>1, <2>2 DEF Adds, State
  <2>4. State(g) # "cancelled" /\ \A c \in Cancellers : aim[c] # g
    BY <2>1 DEF Fresh, Early
  <2> QED
    BY <2>1, <2>3, <2>4
<1> QED
  BY <1>1, <1>2

LEMMA FreshStep ==
  ASSUME TypeOK, Flow, Known, Placed, Fresh, Deed
  PROVE  Fresh'
<1> USE DeedFrames
<1>a. ASSUME NEW t \in Tasks, Acts(t), Early(t)' => Early(t), UNCHANGED <<fst, aim>> PROVE Fresh'
  BY <1>a, OthersStand, StandingEarly, LeaveFutures, FreshKept
<1>b. ASSUME NEW t \in Tasks, Acts(t), Early(t)' => Early(t), UNCHANGED aim,
             \E f \in Futs : Writes(f, "result")
      PROVE  Fresh'
  BY <1>b, OthersStand, StandingEarly, FreshKept
<1>c. ASSUME NEW t \in Tasks, NEW o \in Lists, Acts(t), Queues(t, o), UNCHANGED aim PROVE Fresh'
  <2>1. Adds(t)
    BY <1>c, QueuesRelist
  <2> QED
    BY <1>c, <2>1, OthersStand, StandingEarly, FreshGrows
<1>d. <<"end">> \notin Futs /\ aim \in [Cancellers -> Futs \cup {<<>>, <<"end">>}]
  BY EndIsNone DEF TypeOK
<1>1. ASSUME NEW t \in Tasks, Returned(t) PROVE Fresh'
  <2>1. Early(t)' => Early(t)
    BY <1>1 DEF Returned, Returns, Early, CondWaiting, Wakes, At
  <2>2. UNCHANGED <<fst, aim>>
    BY <1>1 DEF Returned, ListsKept, Quiet
  <2> QED
    BY <1>a, <1>1, <2>1, <2>2
<1>2. ASSUME NEW t \in Tasks, Failed(t) PROVE Fresh'
  <2>1. Early(t)' => Early(t)
    BY <1>2 DEF Failed, Raises, Early, CondWaiting, Wakes, At
  <2>2. UNCHANGED <<fst, aim>>
    BY <1>2 DEF Failed, ListsKept, Quiet
  <2> QED
    BY <1>a, <1>2, <2>1, <2>2
<1>3. ASSUME NEW t \in Tasks, Stopped(t) PROVE Fresh'
  <2>1. Early(t)' => Early(t)
    BY <1>3 DEF Stopped, Stops, Early, CondWaiting, Wakes, At
  <2>2. UNCHANGED <<fst, aim>>
    BY <1>3 DEF Stopped, ListsKept, Quiet
  <2> QED
    BY <1>a, <1>3, <2>1, <2>2
<1>4. ASSUME NEW t \in Tasks, CondSlept(t) PROVE Fresh'
  <2>1. Queues(t, "cond") /\ "cond" \in Lists /\ UNCHANGED aim
    BY <1>4 DEF CondSlept, Quiet, Lists
  <2> QED
    BY <1>c, <1>4, <2>1
<1>5. ASSUME NEW t \in Tasks, WakeEnded(t) PROVE Fresh'
  <2>1. Early(t)' => Early(t)
    BY <1>5 DEF WakeEnded, WakeEnds, Ends, Early, CondWaiting, Wakes, At
  <2>2. UNCHANGED <<fst, aim>>
    BY <1>5 DEF WakeEnded, WakeEnds
  <2> QED
    BY <1>a, <1>5, <2>1, <2>2
<1>6. ASSUME NEW t \in Tasks, OfferRaised(t) PROVE Fresh'
  <2>1. Early(t)' => Early(t)
    BY <1>6 DEF OfferRaised, Raises, Early, CondWaiting, Wakes, At
  <2>2. UNCHANGED <<fst, aim>>
    BY <1>6 DEF OfferRaised, ListsKept
  <2> QED
    BY <1>a, <1>6, <2>1, <2>2
<1>7. ASSUME NEW t \in Tasks, OfferEnded(t) PROVE Fresh'
  <2>1. Early(t)' => Early(t)
    BY <1>7 DEF OfferEnded, Ends, Early, CondWaiting, Wakes, At
  <2>2. At(t, "offer") /\ Completes(t) /\ UNCHANGED aim
    BY <1>7 DEF OfferEnded, Completes
  <2> QED
    BY <1>b, <1>7, <2>1, <2>2, CompleteFuture
<1>8. ASSUME NEW t \in Tasks, OfferMore(t) PROVE Fresh'
  <2>1. Early(t)' => Early(t)
    BY <1>8 DEF OfferMore, Early, CondWaiting, Wakes, At
  <2>2. At(t, "offer") /\ Completes(t) /\ UNCHANGED aim
    BY <1>8 DEF OfferMore, Completes
  <2> QED
    BY <1>b, <1>8, <2>1, <2>2, CompleteFuture
<1>9. ASSUME NEW t \in Tasks, Excepted(t) PROVE Fresh'
  <2>1. Early(t)' => Early(t)
    BY <1>9 DEF Excepted, Retakes, Rouses, Raises, Early, CondWaiting, Wakes, At
  <2>2. UNCHANGED <<fst, aim>>
    BY <1>9 DEF Excepted
  <2> QED
    BY <1>a, <1>9, <2>1, <2>2
<1>10. ASSUME NEW t \in Tasks, NEW l \in PCs, Turned(t, l) PROVE Fresh'
  <2>1. Early(t)' => Early(t)
    BY <1>10 DEF Turned, Turns, Early, CondWaiting, Wakes, At
  <2>2. UNCHANGED <<fst, aim>>
    BY <1>10 DEF Turned, ListsKept
  <2> QED
    BY <1>a, <1>10, <2>1, <2>2
<1>11. ASSUME NEW t \in Tasks, NEW l \in PCs, Moved(t, l) PROVE Fresh'
  <2>1. Early(t)' => Early(t)
    BY <1>11 DEF Moved, Turns, Early, CondWaiting, Wakes, At
  <2>2. UNCHANGED <<fst, aim>>
    BY <1>11 DEF Moved, ListsKept, Quiet
  <2> QED
    BY <1>a, <1>11, <2>1, <2>2
<1>12. ASSUME NEW t \in Tasks, NEW o \in Lists, Slept(t, o) PROVE Fresh'
  <2>1. Queues(t, o) /\ UNCHANGED aim
    BY <1>12 DEF Slept, Quiet
  <2> QED
    BY <1>c, <1>12, <2>1
<1>13. ASSUME NEW t \in Tasks, NEW o \in Lists, Emptied(t, o) PROVE Fresh'
  <2>1. Early(t)' => Early(t)
    BY <1>13 DEF Emptied, Empties, Early, CondWaiting, Wakes, At
  <2>2. UNCHANGED <<fst, aim>>
    BY <1>13 DEF Emptied, Quiet
  <2> QED
    BY <1>a, <1>13, <2>1, <2>2
<1>14. ASSUME NEW t \in Tasks, NEW o \in Lists, NEW l \in {"next", "cwait", "raise"},
              Roused(t, o, l)
       PROVE  Fresh'
  <2>1. Early(t)' => Early(t)
    BY <1>14 DEF Roused, Rouses, Calling, Early, CondWaiting, Wakes, At
  <2>2. UNCHANGED <<fst, aim>>
    BY <1>14 DEF Roused, ListsKept
  <2> QED
    BY <1>a, <1>14, <2>1, <2>2
<1>15. ASSUME NEW t \in Tasks, NEW i \in 1 .. Len(Source(t)), WakePopped(t, i) PROVE Fresh'
  <2>1. Early(t)' => Early(t)
    BY <1>15 DEF WakePopped, WakePops, Early, CondWaiting, Wakes, At
  <2>2. UNCHANGED <<fst, aim>>
    BY <1>15 DEF WakePopped, WakePops
  <2> QED
    BY <1>a, <1>15, <2>1, <2>2
<1>16. ASSUME NEW c \in Cancellers, Cancelled(c) PROVE Fresh'
  <2> SUFFICES ASSUME NEW u \in Tasks, Early(u)'
               PROVE  State(Fut(u))' # "cancelled" /\ \A e \in Cancellers : aim'[e] # Fut(u)'
    BY DEF Fresh, Early
  <2>1. Early(u) /\ (Leaves \/ Writes(aim[c], "cancelled"))
    BY <1>16, AllStand, StandingEarly, CancelledFuture
  <2>2. Fut(u)' = Fut(u) /\ Fut(u) \in Futs /\ Exists(Fut(u))
    BY <2>1, EarlyExists DEF Leaves, Writes
  <2> PICK g \in Futs : g = Fut(u)
    BY <2>2
  <2>3. State(g) # "cancelled" /\ \A e \in Cancellers : aim[e] # g
    BY <2>1 DEF Fresh, Early
  <2>4. State(Fut(u))' = State(g)'
    BY <2>2 DEF State
  <2>5. State(g)' = State(g)
    BY <2>1, <2>2, <2>3 DEF Leaves, Writes
  <2>6. \A e \in Cancellers : aim'[e] # g
    BY <1>16, <1>d, <2>3 DEF Cancelled
  <2> QED
    BY <2>2, <2>3, <2>4, <2>5, <2>6
<1>17. ASSUME NEW c \in Cancellers, NEW t \in Tasks, Aimed(c, t) PROVE Fresh'
  <2> SUFFICES ASSUME NEW u \in Tasks, Early(u)'
               PROVE  State(Fut(u))' # "cancelled" /\ \A e \in Cancellers : aim'[e] # Fut(u)'
    BY DEF Fresh, Early
  <2>1. Early(u) /\ fst' = fst
    BY <1>17, AllStand, StandingEarly DEF Aimed, ListsKept
  <2>2. Fut(u)' = Fut(u) /\ State(Fut(u))' = State(Fut(u)) /\ Fut(u) \in Futs
    BY <2>1, EarlyExists DEF Fut, State
  <2>3. State(Fut(u)) # "cancelled" /\ \A e \in Cancellers : aim[e] # Fut(u)
    BY <2>1 DEF Fresh, Early
  <2>4. At(t, "parked") => Fut(t) # Fut(u)
    BY <2>1 DEF Early, CondWaiting, Wakes, At, Fut
  <2>5. \A e \in Cancellers : aim'[e] # Fut(u)
    BY <1>17, <1>d, <2>2, <2>3, <2>4 DEF Aimed
  <2> QED
    BY <2>2, <2>3, <2>5
<1>18. ASSUME Rested PROVE Fresh'
  <2>1. Waves /\ UNCHANGED <<fst, aim>>
    BY <1>18 DEF Rested, ListsKept, Quiet
  <2> QED
    BY <2>1, AllStand, StandingEarly, LeaveFutures, FreshKept
<1> QED
  BY <1>1, <1>2, <1>3, <1>4, <1>5, <1>6, <1>7, <1>8, <1>9, <1>10, <1>11, <1>12, <1>13, <1>14,
     <1>15, <1>16, <1>17, <1>18 DEF Deed

-----------------------------------------------------------------------------
\* Types.

Typed ==
  /\ task' \in [Tasks -> TaskStates] /\ waiters' \in [Lists -> Seq(Futs)]
  /\ fst' \in [Tasks -> Seq(FutStates)] /\ mu' \in [Mutexes -> Tasks \cup {None}]
  /\ aim' \in [Cancellers -> Futs \cup {<<>>, <<"end">>}]

LEMMA DeedTypes ==
  ASSUME TypeOK, Flow, Known, Placed, Deed
  PROVE  Typed
<1> USE DeedFrames, DeedShrinks
<1>a. ASSUME NEW t \in Tasks, Acts(t), Shrinks, Lasts, UNCHANGED aim, mu' \in [Mutexes -> Tasks \cup {None}]
      PROVE  Typed
  BY <1>a DEF Typed, Acts, Frame, Shrinks, Lasts, TypeOK
<1>b. ASSUME Waves, Shrinks, Lasts, aim' \in [Cancellers -> Futs \cup {<<>>, <<"end">>}] PROVE Typed
  BY <1>b DEF Typed, Waves, Idles, Shrinks, Lasts, TypeOK
<1>c. ASSUME NEW t \in Tasks, NEW o \in Lists, Acts(t), Queues(t, o), Quiet PROVE Typed
  BY <1>c, QueuesRelist DEF Typed, Acts, Frame, Relists, Adds, Quiet, TypeOK
<1>d. UNCHANGED mu => mu' \in [Mutexes -> Tasks \cup {None}]
  BY DEF TypeOK
<1>e. ASSUME NEW c \in Cancellers, NEW f \in Futs \cup {<<>>, <<"end">>}, aim' = [aim EXCEPT ![c] = f]
      PROVE  aim' \in [Cancellers -> Futs \cup {<<>>, <<"end">>}]
  BY <1>e DEF TypeOK
<1>1. ASSUME NEW t \in Tasks, Returned(t) PROVE Typed
  <2>1. UNCHANGED aim /\ mu' \in [Mutexes -> Tasks \cup {None}]
    BY <1>d, <1>1 DEF Returned, Quiet
  <2> QED
    BY <1>a, <1>1, <2>1
<1>2. ASSUME NEW t \in Tasks, Failed(t) PROVE Typed
  <2>1. UNCHANGED aim /\ mu' \in [Mutexes -> Tasks \cup {None}]
    BY <1>d, <1>2 DEF Failed, Quiet
  <2> QED
    BY <1>a, <1>2, <2>1
<1>3. ASSUME NEW t \in Tasks, Stopped(t) PROVE Typed
  <2>1. UNCHANGED aim /\ mu' \in [Mutexes -> Tasks \cup {None}]
    BY <1>d, <1>3 DEF Stopped, Quiet
  <2> QED
    BY <1>a, <1>3, <2>1
<1>4. ASSUME NEW t \in Tasks, CondSlept(t) PROVE Typed
  BY <1>c, <1>4 DEF CondSlept, Lists
<1>5. ASSUME NEW t \in Tasks, WakeEnded(t) PROVE Typed
  <2>1. UNCHANGED aim /\ mu' \in [Mutexes -> Tasks \cup {None}]
    BY <1>d, <1>5, LetGo DEF WakeEnded, WakeEnds
  <2> QED
    BY <1>a, <1>5, <2>1
<1>6. ASSUME NEW t \in Tasks, OfferRaised(t) PROVE Typed
  <2>1. UNCHANGED aim /\ mu' \in [Mutexes -> Tasks \cup {None}]
    BY <1>d, <1>6, LetGo DEF OfferRaised
  <2> QED
    BY <1>a, <1>6, <2>1
<1>7. ASSUME NEW t \in Tasks, OfferEnded(t) PROVE Typed
  <2>1. UNCHANGED aim /\ mu' \in [Mutexes -> Tasks \cup {None}]
    BY <1>d, <1>7, LetGo DEF OfferEnded, Completes
  <2> QED
    BY <1>a, <1>7, <2>1
<1>8. ASSUME NEW t \in Tasks, OfferMore(t) PROVE Typed
  <2>1. UNCHANGED aim /\ mu' \in [Mutexes -> Tasks \cup {None}]
    BY <1>d, <1>8 DEF OfferMore, Completes
  <2> QED
    BY <1>a, <1>8, <2>1
<1>9. ASSUME NEW t \in Tasks, Excepted(t) PROVE Typed
  <2>1. UNCHANGED aim /\ mu' \in [Mutexes -> Tasks \cup {None}]
    BY <1>d, <1>9, TakeMutex DEF Excepted, Mutexes
  <2> QED
    BY <1>a, <1>9, <2>1
<1>10. ASSUME NEW t \in Tasks, NEW l \in PCs, Turned(t, l) PROVE Typed
  <2>1. UNCHANGED aim /\ mu' \in [Mutexes -> Tasks \cup {None}]
    BY <1>d, <1>10, TakeMutex DEF Turned, Mutexes
  <2> QED
    BY <1>a, <1>10, <2>1
<1>11. ASSUME NEW t \in Tasks, NEW l \in PCs, Moved(t, l) PROVE Typed
  <2>1. UNCHANGED aim /\ mu' \in [Mutexes -> Tasks \cup {None}]
    BY <1>d, <1>11 DEF Moved, Quiet
  <2> QED
    BY <1>a, <1>11, <2>1
<1>12. ASSUME NEW t \in Tasks, NEW o \in Lists, Slept(t, o) PROVE Typed
  BY <1>c, <1>12 DEF Slept
<1>13. ASSUME NEW t \in Tasks, NEW o \in Lists, Emptied(t, o) PROVE Typed
  <2>1. UNCHANGED aim /\ mu' \in [Mutexes -> Tasks \cup {None}]
    BY <1>d, <1>13 DEF Emptied, Quiet
  <2> QED
    BY <1>a, <1>13, <2>1
<1>14. ASSUME NEW t \in Tasks, NEW o \in Lists, NEW l \in {"next", "cwait", "raise"},
              Roused(t, o, l)
       PROVE  Typed
  <2>1. UNCHANGED aim /\ mu' \in [Mutexes -> Tasks \cup {None}]
    BY <1>d, <1>14, TakeMutex, MutexOf DEF Roused
  <2> QED
    BY <1>a, <1>14, <2>1
<1>15. ASSUME NEW t \in Tasks, NEW i \in 1 .. Len(Source(t)), WakePopped(t, i) PROVE Typed
  <2>1. UNCHANGED aim /\ mu' \in [Mutexes -> Tasks \cup {None}]
    BY <1>d, <1>15 DEF WakePopped, WakePops
  <2> QED
    BY <1>a, <1>15, <2>1
<1>16. ASSUME NEW c \in Cancellers, Cancelled(c) PROVE Typed
  BY <1>b, <1>e, <1>16 DEF Cancelled
<1>17. ASSUME NEW c \in Cancellers, NEW t \in Tasks, Aimed(c, t) PROVE Typed
  BY <1>b, <1>e, <1>17, LastExists DEF Aimed
<1>18. ASSUME Rested PROVE Typed
  BY <1>b, <1>18 DEF Rested, Quiet, TypeOK
<1> QED
  BY <1>1, <1>2, <1>3, <1>4, <1>5, <1>6, <1>7, <1>8, <1>9, <1>10, <1>11, <1>12, <1>13, <1>14,
     <1>15, <1>16, <1>17, <1>18 DEF Deed

Counted ==
  /\ maxsize \in Nat /\ size \in Nat /\ unfinished \in Nat
  /\ maxsize > 0 => size <= maxsize
  /\ value \in [Events -> BOOLEAN]
  /\ locked \in BOOLEAN
  /\ faults \subseteq {"invalid", "dropped", "unlocked", "stale"}

LEMMA CountedStep ==
  ASSUME TypeOK, [Next]_vars
  PROVE  Counted'
<1>0. Counted
  BY DEF TypeOK, Counted
<1> USE <1>0 DEF Counted
<1>1. ASSUME NEW t \in Tasks, Set(t) PROVE Counted'
  BY ONLY <1>0, <1>1 DEF Counted, Set, SetEvent, Events
<1>2. ASSUME NEW t \in Tasks, Clear(t) PROVE Counted'
  BY ONLY <1>0, <1>2 DEF Counted, Clear, Events
<1>3. ASSUME NEW t \in Tasks, Wait(t) PROVE Counted'
  BY ONLY <1>0, <1>3 DEF Counted, Wait, WaitEvent
<1>4. ASSUME NEW t \in Tasks, Lock(t) PROVE Counted'
  BY ONLY <1>0, <1>4 DEF Counted, Lock, Acquire
<1>5. ASSUME NEW t \in Tasks, Unlock(t) PROVE Counted'
  BY ONLY <1>0, <1>5 DEF Counted, Unlock, Release
<1>6. ASSUME NEW t \in Tasks, CondWait(t) PROVE Counted'
  BY ONLY <1>0, <1>6 DEF Counted, CondWait
<1>7. ASSUME NEW t \in Tasks, Notify(t) PROVE Counted'
  BY ONLY <1>0, <1>7 DEF Counted, Notify
<1>8. ASSUME NEW t \in Tasks, NotifyAll(t) PROVE Counted'
  BY ONLY <1>0, <1>8 DEF Counted, NotifyAll
<1>9. ASSUME NEW t \in Tasks, Put(t) PROVE Counted'
  BY ONLY <1>0, <1>9 DEF Counted, Put, PutLocked, HasRoom, StoreItem
<1>10. ASSUME NEW t \in Tasks, PutNowait(t) PROVE Counted'
  BY ONLY <1>0, <1>10 DEF Counted, PutNowait, PutLocked, HasRoom, StoreItem, objVars
<1>11. ASSUME NEW t \in Tasks, Get(t) PROVE Counted'
  BY ONLY <1>0, <1>11 DEF Counted, Get, GetLocked, TakeItem
<1>12. ASSUME NEW t \in Tasks, GetNowait(t) PROVE Counted'
  BY ONLY <1>0, <1>12 DEF Counted, GetNowait, GetLocked, TakeItem, objVars
<1>13. ASSUME NEW t \in Tasks, TaskDone(t) PROVE Counted'
  BY ONLY <1>0, <1>13 DEF Counted, TaskDone
<1>14. ASSUME NEW t \in Tasks, Join(t) PROVE Counted'
  BY ONLY <1>0, <1>14 DEF Counted, Join, objVars
<1>15. ASSUME NEW t \in Tasks, Wake(t) PROVE Counted'
  BY ONLY <1>0, <1>15 DEF Counted, Wake
<1>16. ASSUME NEW t \in Tasks, Offer(t) PROVE Counted'
  BY ONLY <1>0, <1>16 DEF Counted, Offer
<1>17. ASSUME NEW t \in Tasks, Arm(t) PROVE Counted'
  BY ONLY <1>0, <1>17 DEF Counted, Arm, objVars
<1>18. ASSUME NEW t \in Tasks, Resume(t) PROVE Counted'
  BY ONLY <1>0, <1>18 DEF Counted, Resume, objVars
<1>19. ASSUME NEW t \in Tasks, Woken(t) PROVE Counted'
  BY ONLY <1>0, <1>19 DEF Counted, Woken, objVars
<1>20. ASSUME NEW t \in Tasks, Except(t) PROVE Counted'
  BY ONLY <1>0, <1>20 DEF Counted, Except
<1>21. ASSUME NEW t \in Tasks, Relock(t) PROVE Counted'
  BY ONLY <1>0, <1>21 DEF Counted, Relock, Acquire
<1>22. ASSUME NEW t \in Tasks, CondRelease(t) PROVE Counted'
  BY ONLY <1>0, <1>22 DEF Counted, CondRelease, Release
<1>23. ASSUME NEW t \in Tasks, Raise(t) PROVE Counted'
  BY ONLY <1>0, <1>23 DEF Counted, Raise, Release, objVars
<1>24. ASSUME NEW t \in Tasks, PutClear(t) PROVE Counted'
  BY ONLY <1>0, <1>24 DEF Counted, PutClear, Events
<1>25. ASSUME NEW t \in Tasks, Finish(t) PROVE Counted'
  BY ONLY <1>0, <1>25 DEF Counted, Finish, SetEvent, Events
<1>26. ASSUME NEW t \in Tasks, JoinWait(t) PROVE Counted'
  BY ONLY <1>0, <1>26 DEF Counted, JoinWait, WaitEvent
<1>27. ASSUME NEW t \in Tasks, OtherAwait(t) PROVE Counted'
  BY ONLY <1>0, <1>27 DEF Counted, OtherAwait, objVars
<1>28. ASSUME NEW c \in Cancellers, NEW t \in Tasks, Cancel(c, t) PROVE Counted'
  BY ONLY <1>0, <1>28 DEF Counted, Cancel, objVars
<1>29. ASSUME NEW c \in Cancellers, CancelFuture(c) PROVE Counted'
  BY ONLY <1>0, <1>29 DEF Counted, CancelFuture, objVars
<1>30. CASE UNCHANGED vars
  BY <1>30 DEF vars, objVars
<1> QED
  BY <1>1, <1>2, <1>3, <1>4, <1>5, <1>6, <1>7, <1>8, <1>9, <1>10, <1>11, <1>12, <1>13, <1>14,
     <1>15, <1>16, <1>17, <1>18, <1>19, <1>20, <1>21, <1>22, <1>23, <1>24, <1>25, <1>26, <1>27,
     <1>28, <1>29, <1>30
     DEF Next, TaskStep, Call, Rest

LEMMA TypeStep ==
  ASSUME TypeOK, Busy, Flow, Known, Placed, [Next]_vars
  PROVE  TypeOK'
<1>1. Typed
  BY NextDeeds, DeedTypes
<1>2. Counted'
  BY CountedStep
<1> QED
  BY <1>1, <1>2 DEF Typed, Counted, TypeOK, FutStates

-----------------------------------------------------------------------------
\* Listed: nobody loses a future that is not completed.

\* g is in list o, or somebody who has taken it out is about to complete it.
Safe(g, o) == g \in In(o) \/ \E u \in Tasks : Holds(u, g, o)

LEMMA StandingHolds ==
  ASSUME NEW u \in Tasks, Standing(u), NEW g, NEW o PROVE Holds(u, g, o)' = Holds(u, g, o)
  BY DEF Holds, At, Standing, Same, HandKept

LEMMA SafeStep ==
  ASSUME TypeOK, Flow, Known, Placed, Deed, NEW g \in Futs, NEW o \in Lists, Safe(g, o),
         Exists(g), Pending(g), Pending(g)', \A u \in Tasks : Excepted(u) => g # Fut(u)
  PROVE  Safe(g, o)'
<1> USE DeedFrames
<1>a. ASSUME NEW t \in Tasks, Acts(t), g \in In(o) => Safe(g, o)', Holds(t, g, o) => Safe(g, o)'
      PROVE  Safe(g, o)'
  BY <1>a, OthersStand, StandingHolds DEF Safe
<1>b. ASSUME Waves, UNCHANGED waiters PROVE Safe(g, o)'
  BY <1>b, AllStand, StandingHolds DEF Safe, In
<1>c. ASSUME NEW t \in Tasks, Acts(t), task'[t].hand = task[t].hand, ~At(t, "offer"), UNCHANGED waiters
      PROVE  Safe(g, o)'
  BY <1>a, <1>c DEF Safe, Holds, In
<1>d. ASSUME NEW t \in Tasks, NEW p \in Lists, Acts(t), task'[t].hand = task[t].hand, ~At(t, "offer"),
             Queues(t, p)
      PROVE  Safe(g, o)'
  <2>1. Relists(p) /\ In(p)' = In(p) \cup {NewFut(t)}
    BY <1>d, QueuesRelist
  <2>2. o # p => In(o)' = In(o)
    BY <2>1 DEF Relists, In
  <2>3. g \in In(o) => g \in In(o)'
    BY <2>1, <2>2
  <2> QED
    BY <1>a, <1>d, <2>3 DEF Safe, Holds
<1>1. ASSUME NEW t \in Tasks, Returned(t) PROVE Safe(g, o)'
  BY <1>c, <1>1 DEF Returned, Returns, HandKept, ListsKept, At
<1>2. ASSUME NEW t \in Tasks, Failed(t) PROVE Safe(g, o)'
  BY <1>c, <1>2 DEF Failed, Raises, ListsKept, At
<1>3. ASSUME NEW t \in Tasks, Stopped(t) PROVE Safe(g, o)'
  BY <1>c, <1>3 DEF Stopped, Stops, HandKept, ListsKept, At
<1>4. ASSUME NEW t \in Tasks, CondSlept(t) PROVE Safe(g, o)'
  BY <1>d, <1>4 DEF CondSlept, Turns, HandKept, InCall, At, Lists
<1>5. ASSUME NEW t \in Tasks, WakeEnded(t) PROVE Safe(g, o)'
  <2>0. \A i \in 1 .. Len(Source(t)) : Source(t)[i] # g
    BY <1>5 DEF WakeEnded, WakeEnds, Done, Pending
  <2>1. ~At(t, "offer")
    BY <1>5 DEF WakeEnded, WakeEnds, At
  <2>2. CASE task[t].obj = "hand" /\ UNCHANGED waiters
    <3>1. g \notin Content(task[t].hand)
      BY <2>0, <2>2 DEF Source, Content
    <3> QED
      BY <1>a, <1>5, <2>1, <2>2, <3>1 DEF Safe, Holds, In
  <2>3. CASE /\ task[t].obj \in Lists /\ task'[t].hand = task[t].hand
             /\ waiters' = [waiters EXCEPT ![task[t].obj] = <<>>]
    <3> PICK p \in Lists : p = task[t].obj
      BY <2>3
    <3>1. g \notin In(p)
      BY <2>0 DEF Source, Content, In, Lists, Events
    <3>2. Relists(p)
      BY <2>3, EmptyRelists
    <3>3. o # p => In(o)' = In(o)
      BY <3>2 DEF Relists, In
    <3>4. g \in In(o) => g \in In(o)'
      BY <3>1, <3>3
    <3> QED
      BY <1>a, <1>5, <2>1, <2>3, <3>4 DEF Safe, Holds
  <2> QED
    BY <1>5, <2>2, <2>3 DEF WakeEnded, WakeEnds
<1>6. ASSUME NEW t \in Tasks, OfferRaised(t) PROVE Safe(g, o)'
  <2>1. g # task[t].offer /\ task'[t].hand = task[t].hand /\ UNCHANGED waiters
    BY <1>6 DEF OfferRaised, Raises, ListsKept, Pending, Done
  <2> QED
    BY <1>a, <1>6, <2>1 DEF Safe, Holds, In
<1>7. ASSUME NEW t \in Tasks, OfferEnded(t) PROVE Safe(g, o)'
  <2>1. At(t, "offer") /\ Completes(t) /\ task'[t].hand = task[t].hand /\ UNCHANGED waiters
    BY <1>7 DEF OfferEnded, Completes
  <2>2. g # task[t].offer
    BY <2>1, CompleteFuture DEF Writes, Pending
  <2> QED
    BY <1>a, <1>7, <2>1, <2>2 DEF Safe, Holds, In
<1>8. ASSUME NEW t \in Tasks, OfferMore(t) PROVE Safe(g, o)'
  <2>1. At(t, "offer") /\ Completes(t) /\ task'[t].hand = task[t].hand /\ UNCHANGED waiters
    BY <1>8 DEF OfferMore, Completes
  <2>2. g # task[t].offer
    BY <2>1, CompleteFuture DEF Writes, Pending
  <2> QED
    BY <1>a, <1>8, <2>1, <2>2 DEF Safe, Holds, In
<1>9. ASSUME NEW t \in Tasks, Excepted(t) PROVE Safe(g, o)'
  <2> PICK p \in Lists : p = task[t].obj
    BY <1>9, TaskTyped DEF Excepted, Flow, FlowAt, Awaiting, At, TaskStates
  <2>1. Relists(p) /\ In(p)' = In(p) \ {Fut(t)}
    BY <1>9, WithdrawRelists DEF Excepted
  <2>2. o # p => In(o)' = In(o)
    BY <2>1 DEF Relists, In
  <2>3. g \in In(o) => g \in In(o)'
    BY <1>9, <2>1, <2>2
  <2>4. task'[t].hand = task[t].hand /\ ~At(t, "offer")
    BY <1>9 DEF Excepted, Retakes, Rouses, Raises, HandKept, At
  <2> QED
    BY <1>a, <1>9, <2>3, <2>4 DEF Safe, Holds
<1>10. ASSUME NEW t \in Tasks, NEW l \in PCs, Turned(t, l) PROVE Safe(g, o)'
  BY <1>c, <1>10 DEF Turned, Turns, HandKept, ListsKept, Calling, InCall, At
<1>11. ASSUME NEW t \in Tasks, NEW l \in PCs, Moved(t, l) PROVE Safe(g, o)'
  BY <1>c, <1>11 DEF Moved, Turns, HandKept, ListsKept, At
<1>12. ASSUME NEW t \in Tasks, NEW p \in Lists, Slept(t, p) PROVE Safe(g, o)'
  BY <1>d, <1>12 DEF Slept, Sleeps, HandKept, At
<1>13. ASSUME NEW t \in Tasks, NEW p \in Lists, Emptied(t, p) PROVE Safe(g, o)'
  <2>1. task[t].hand = <<>> /\ ~At(t, "offer")
    BY <1>13 DEF Emptied, Calling, Flow, FlowAt, Wakes, Awaiting, At
  <2>2. ~Holds(t, g, o)
    BY <2>1, SmallContent DEF Holds
  <2>3. CASE o = p
    <3>1. task'[t].hand = waiters[o] /\ o \in Events \cup {"cond"}
      BY <1>13, <2>3 DEF Emptied, Empties
    <3>2. g \in In(o) => Holds(t, g, o)'
      BY <3>1 DEF Holds, In
    <3> QED
      BY <1>a, <1>13, <2>2, <3>2 DEF Safe
  <2>4. CASE o # p
    <3>1. Relists(p)
      BY <1>13, EmptyRelists DEF Emptied
    <3>2. In(o)' = In(o)
      BY <2>4, <3>1 DEF Relists, In
    <3> QED
      BY <1>a, <1>13, <2>2, <3>2 DEF Safe
  <2> QED
    BY <2>3, <2>4
<1>14. ASSUME NEW t \in Tasks, NEW p \in Lists, NEW l \in {"next", "cwait", "raise"},
              Roused(t, p, l)
       PROVE  Safe(g, o)'
  BY <1>c, <1>14 DEF Roused, Rouses, ListsKept, Calling, At
<1>15. ASSUME NEW t \in Tasks, NEW i \in 1 .. Len(Source(t)), WakePopped(t, i) PROVE Safe(g, o)'
  <2>0. /\ \A j \in 1 .. (i - 1) : Source(t)[j] # g
        /\ task'[t].pc = "offer" /\ task'[t].offer = Source(t)[i] /\ task'[t].obj = task[t].obj
        /\ Source(t) \in Seq(Futs)
    BY <1>15 DEF WakePopped, WakePops, Done, Pending
  <2>1. ~At(t, "offer")
    BY <1>15 DEF WakePopped, WakePops, At
  <2>2. CASE /\ task[t].obj = "hand" /\ UNCHANGED waiters
             /\ task'[t].hand = SubSeq(task[t].hand, i + 1, Len(task[t].hand))
    <3> PICK s \in Seq(Futs) : s = task[t].hand
      BY TaskTyped DEF TaskStates
    <3> PICK n : n = SubSeq(s, i + 1, Len(s))
      OBVIOUS
    <3>1. i \in 1 .. Len(s) /\ s = Source(t)
      BY <2>2 DEF Source
    <3>2. Content(n) = {s[j] : j \in (i + 1) .. Len(s)}
      BY ONLY s \in Seq(Futs), n = SubSeq(s, i + 1, Len(s)), <3>1, DropContent
    <3>3. g \in Content(s) => g \in Content(n) \/ g = s[i]
      <4>1. g \in Content(s) => g = s[i] \/ g \in {s[j] : j \in (i + 1) .. Len(s)}
        BY <2>0, <3>1 DEF Content
      <4> QED
        BY <3>2, <4>1
    <3>4. Holds(t, g, o) => Holds(t, g, o)'
      BY <2>0, <2>1, <2>2, <3>1, <3>3 DEF Holds, At
    <3> QED
      BY <1>a, <1>15, <2>2, <3>4 DEF Safe, In
  <2>3. CASE /\ task[t].obj \in Lists /\ task'[t].hand = task[t].hand
             /\ waiters' = [waiters EXCEPT ![task[t].obj] = SubSeq(@, i + 1, Len(@))]
    <3> PICK p \in Lists : p = task[t].obj
      BY <2>3
    <3>1. Source(t) = waiters[p]
      BY DEF Source, Lists, Events
    <3>2. Relists(p) /\ In(p)' = {waiters[p][j] : j \in (i + 1) .. Len(waiters[p])}
      BY <2>3, <3>1, PopRelists
    <3>3. o # p => In(o)' = In(o)
      BY <3>2 DEF Relists, In
    <3>4. g \in In(p) => g \in In(p)' \/ g = waiters[p][i]
      <4>1. g \in In(p) => g = waiters[p][i] \/ g \in {waiters[p][j] : j \in (i + 1) .. Len(waiters[p])}
        BY <2>0, <3>1 DEF In, Content
      <4> QED
        BY <3>2, <4>1
    <3>5. g = waiters[p][i] => Holds(t, g, p)'
      BY <2>0, <3>1 DEF Holds, At
    <3>6. g \in In(o) => Safe(g, o)'
      BY <3>3, <3>4, <3>5 DEF Safe
    <3>7. Holds(t, g, o) => Holds(t, g, o)'
      BY <2>1, <2>3 DEF Holds
    <3> QED
      BY <1>a, <1>15, <3>6, <3>7 DEF Safe
  <2> QED
    BY <1>15, <2>2, <2>3 DEF WakePopped, WakePops
<1>16. ASSUME NEW c \in Cancellers, Cancelled(c) PROVE Safe(g, o)'
  BY <1>b, <1>16 DEF Cancelled, ListsKept
<1>17. ASSUME NEW c \in Cancellers, NEW t \in Tasks, Aimed(c, t) PROVE Safe(g, o)'
  BY <1>b, <1>17 DEF Aimed, ListsKept
<1>18. ASSUME Rested PROVE Safe(g, o)'
  BY <1>b, <1>18 DEF Rested, ListsKept
<1> QED
  BY <1>1, <1>2, <1>3, <1>4, <1>5, <1>6, <1>7, <1>8, <1>9, <1>10, <1>11, <1>12, <1>13, <1>14,
     <1>15, <1>16, <1>17, <1>18 DEF Deed

LEMMA LastIsPending ==
  ASSUME TypeOK, Flow, NEW u \in Tasks, Waits(u) PROVE Fut(u) \in Futs /\ Exists(Fut(u))
  BY LastExists DEF Flow, FlowAt

LEMMA ListedStep ==
  ASSUME TypeOK, Flow, Known, Placed, Listed, Deed, Flow'
  PROVE  Listed'
<1> SUFFICES ASSUME NEW u \in Tasks, Waits(u)', Pending(Fut(u))'
             PROVE  Fut(u)' \in In(ListOf(u))' \/ \E v \in Tasks : Holds(v, Fut(u), ListOf(u))'
  BY DEF Listed, In
<1>a. ASSUME WaitsAsBefore(u), Fut(u)' = Fut(u), \A g \in Futs : Exists(g) => (Pending(g)' => Pending(g)),
             \A t \in Tasks : Excepted(t) => ~Waits(t)'
      PROVE  Fut(u)' \in In(ListOf(u))' \/ \E v \in Tasks : Holds(v, Fut(u), ListOf(u))'
  <2>1. Waits(u) /\ ListOf(u)' = ListOf(u)
    BY <1>a DEF WaitsAsBefore
  <2>2. Fut(u) \in Futs /\ Exists(Fut(u))
    BY <2>1, LastIsPending
  <2> PICK g \in Futs : g = Fut(u)
    BY <2>2
  <2> PICK o \in Lists : o = ListOf(u)
    BY <2>1, TaskTyped DEF ListOf, Flow, FlowAt, TaskStates, Lists
  <2>3. Pending(g)'
    BY <1>a DEF Pending, State
  <2>4. Pending(g) /\ Exists(g)
    BY <1>a, <2>2, <2>3
  <2>5. Safe(g, o)
    BY <2>1, <2>4 DEF Listed, Safe, In
  <2>6. \A t \in Tasks : Excepted(t) => g # Fut(t)
    BY <1>a DEF Fut
  <2>7. Safe(g, o)'
    BY <2>3, <2>4, <2>5, <2>6, SafeStep
  <2>8. g \in In(o)' \/ \E v \in Tasks : Holds(v, g, o)'
    BY <2>7 DEF Safe
  <2> QED
    BY <1>a, <2>1, <2>8 DEF Holds, In
<1>b. \A t \in Tasks : Excepted(t) => ~Waits(t)'
  BY DEF Excepted, Retakes, Rouses, Raises, Waits, CondWaiting, Wakes, Awaiting, At
<1>1. CASE Steady
  BY <1>1, <1>a, <1>b DEF Steady, Lasts
<1>2. ASSUME NEW t \in Tasks, NEW o \in Lists, Enters(t, o)
      PROVE  Fut(u)' \in In(ListOf(u))' \/ \E v \in Tasks : Holds(v, Fut(u), ListOf(u))'
  <2>1. Relists(o) /\ In(o)' = In(o) \cup {NewFut(t)} /\ Adds(t)
    BY <1>2, QueuesRelist DEF Enters
  <2>2. CASE u = t
    <3>1. Fut(u)' = NewFut(t) /\ ListOf(u)' = o
      BY <1>2, <2>1, <2>2 DEF Enters, Adds
    <3> QED
      BY <2>1, <3>1 DEF In
  <2>3. CASE u # t
    <3>1. WaitsAsBefore(u) /\ Fut(u)' = Fut(u)
      BY <1>2, <2>1, <2>3 DEF Enters, Adds
    <3>2. \A g \in Futs : Exists(g) => (Pending(g)' => Pending(g))
      BY <2>1 DEF Adds, Pending
    <3> QED
      BY <1>a, <1>b, <3>1, <3>2
  <2> QED
    BY <2>2, <2>3
<1> QED
  BY <1>1, <1>2, DeedKinds DEF Kind

-----------------------------------------------------------------------------
\* Apart: a future is completed by whoever took it out of its list.

\* Where the futures in the hands of u after the step were before it.
Handed(u) ==
  /\ \A f \in Content(task'[u].hand) :
       f \in Content(task[u].hand) \/ \E o \in Events \cup {"cond"} : f \in In(o)
  /\ task'[u].pc = "offer" =>
       \/ At(u, "offer") /\ task'[u].offer = task[u].offer /\ task'[u].obj = task[u].obj
       \/ task'[u].obj = "hand" /\ task'[u].offer \in Content(task[u].hand)
       \/ task'[u].obj \in Lists /\ task'[u].offer \in In(task'[u].obj)

LEMMA StandingHanded == ASSUME NEW u \in Tasks, Standing(u) PROVE Handed(u)
  BY DEF Handed, Standing, Same, HandKept, At

LEMMA DeedHanded ==
  ASSUME TypeOK, Flow, Known, Deed
  PROVE  \A u \in Tasks : Handed(u)
<1> USE DeedFrames
<1>a. ASSUME NEW t \in Tasks, Acts(t), Handed(t) PROVE \A u \in Tasks : Handed(u)
  BY <1>a, OthersStand, StandingHanded
<1>b. ASSUME Waves PROVE \A u \in Tasks : Handed(u)
  BY <1>b, AllStand, StandingHanded
<1>c. ASSUME NEW t \in Tasks, task'[t].hand = task[t].hand \/ task'[t].hand = <<>>, task'[t].pc # "offer"
      PROVE  Handed(t)
  BY <1>c, SmallContent DEF Handed
<1>1. ASSUME NEW t \in Tasks, Returned(t) PROVE \A u \in Tasks : Handed(u)
  <2>1. Handed(t)
    BY <1>c, <1>1 DEF Returned, Returns, HandKept
  <2> QED
    BY <1>a, <1>1, <2>1
<1>2. ASSUME NEW t \in Tasks, Failed(t) PROVE \A u \in Tasks : Handed(u)
  <2>1. Handed(t)
    BY <1>c, <1>2 DEF Failed, Raises
  <2> QED
    BY <1>a, <1>2, <2>1
<1>3. ASSUME NEW t \in Tasks, Stopped(t) PROVE \A u \in Tasks : Handed(u)
  <2>1. Handed(t)
    BY <1>c, <1>3 DEF Stopped, Stops, HandKept
  <2> QED
    BY <1>a, <1>3, <2>1
<1>4. ASSUME NEW t \in Tasks, CondSlept(t) PROVE \A u \in Tasks : Handed(u)
  <2>1. Handed(t)
    BY <1>c, <1>4 DEF CondSlept, Turns, HandKept
  <2> QED
    BY <1>a, <1>4, <2>1
<1>5. ASSUME NEW t \in Tasks, WakeEnded(t) PROVE \A u \in Tasks : Handed(u)
  <2>1. Handed(t)
    BY <1>c, <1>5 DEF WakeEnded, WakeEnds, Ends
  <2> QED
    BY <1>a, <1>5, <2>1
<1>6. ASSUME NEW t \in Tasks, OfferRaised(t) PROVE \A u \in Tasks : Handed(u)
  <2>1. Handed(t)
    BY <1>c, <1>6 DEF OfferRaised, Raises
  <2> QED
    BY <1>a, <1>6, <2>1
<1>7. ASSUME NEW t \in Tasks, OfferEnded(t) PROVE \A u \in Tasks : Handed(u)
  <2>1. Handed(t)
    BY <1>c, <1>7 DEF OfferEnded, Ends
  <2> QED
    BY <1>a, <1>7, <2>1
<1>8. ASSUME NEW t \in Tasks, OfferMore(t) PROVE \A u \in Tasks : Handed(u)
  <2>1. Handed(t)
    BY <1>c, <1>8 DEF OfferMore
  <2> QED
    BY <1>a, <1>8, <2>1
<1>9. ASSUME NEW t \in Tasks, Excepted(t) PROVE \A u \in Tasks : Handed(u)
  <2>1. Handed(t)
    BY <1>c, <1>9 DEF Excepted, Retakes, Rouses, Raises, HandKept
  <2> QED
    BY <1>a, <1>9, <2>1
<1>10. ASSUME NEW t \in Tasks, NEW l \in PCs, Turned(t, l) PROVE \A u \in Tasks : Handed(u)
  <2>1. Handed(t)
    BY <1>c, <1>10 DEF Turned, Turns, HandKept, Calling, InCall
  <2> QED
    BY <1>a, <1>10, <2>1
<1>11. ASSUME NEW t \in Tasks, NEW l \in PCs, Moved(t, l) PROVE \A u \in Tasks : Handed(u)
  <2>1. Handed(t)
    BY <1>c, <1>11 DEF Moved, Turns, HandKept
  <2> QED
    BY <1>a, <1>11, <2>1
<1>12. ASSUME NEW t \in Tasks, NEW o \in Lists, Slept(t, o) PROVE \A u \in Tasks : Handed(u)
  <2>1. Handed(t)
    BY <1>c, <1>12 DEF Slept, Sleeps, HandKept
  <2> QED
    BY <1>a, <1>12, <2>1
<1>13. ASSUME NEW t \in Tasks, NEW o \in Lists, Emptied(t, o) PROVE \A u \in Tasks : Handed(u)
  <2>1. Handed(t)
    BY <1>13 DEF Handed, Emptied, Empties, In
  <2> QED
    BY <1>a, <1>13, <2>1
<1>14. ASSUME NEW t \in Tasks, NEW o \in Lists, NEW l \in {"next", "cwait", "raise"},
              Roused(t, o, l)
       PROVE  \A u \in Tasks : Handed(u)
  <2>1. Handed(t)
    BY <1>c, <1>14 DEF Roused, Rouses
  <2> QED
    BY <1>a, <1>14, <2>1
<1>15. ASSUME NEW t \in Tasks, NEW i \in 1 .. Len(Source(t)), WakePopped(t, i)
       PROVE  \A u \in Tasks : Handed(u)
  <2>0. /\ task'[t].pc = "offer" /\ task'[t].offer = Source(t)[i] /\ task'[t].obj = task[t].obj
        /\ Source(t) \in Seq(Futs)
    BY <1>15 DEF WakePopped, WakePops
  <2>1. Source(t)[i] \in Content(Source(t))
    BY <2>0 DEF Content
  <2>2. CASE /\ task[t].obj = "hand"
             /\ task'[t].hand = SubSeq(task[t].hand, i + 1, Len(task[t].hand))
    <3> PICK s \in Seq(Futs) : s = task[t].hand
      BY TaskTyped DEF TaskStates
    <3> PICK n : n = SubSeq(s, i + 1, Len(s))
      OBVIOUS
    <3>1. i \in 1 .. Len(s) /\ s = Source(t)
      BY <2>2 DEF Source
    <3>2. Content(n) = {s[j] : j \in (i + 1) .. Len(s)}
      BY ONLY s \in Seq(Futs), n = SubSeq(s, i + 1, Len(s)), <3>1, DropContent
    <3>3. {s[j] : j \in (i + 1) .. Len(s)} \subseteq Content(s)
      BY <3>1 DEF Content
    <3> QED
      BY <1>a, <1>15, <2>0, <2>1, <2>2, <3>1, <3>2, <3>3 DEF Handed
  <2>3. CASE task[t].obj \in Lists /\ task'[t].hand = task[t].hand
    <3>1. Source(t) = waiters[task[t].obj]
      BY <2>3 DEF Source, Lists, Events
    <3>2. Handed(t)
      BY <2>0, <2>1, <2>3, <3>1 DEF Handed, In
    <3> QED
      BY <1>a, <1>15, <3>2
  <2> QED
    BY <1>15, <2>2, <2>3 DEF WakePopped, WakePops
<1>16. ASSUME NEW c \in Cancellers, Cancelled(c) PROVE \A u \in Tasks : Handed(u)
  BY <1>b, <1>16
<1>17. ASSUME NEW c \in Cancellers, NEW t \in Tasks, Aimed(c, t)
       PROVE  \A u \in Tasks : Handed(u)
  BY <1>b, <1>17
<1>18. ASSUME Rested PROVE \A u \in Tasks : Handed(u)
  BY <1>b, <1>18
<1> QED
  BY <1>1, <1>2, <1>3, <1>4, <1>5, <1>6, <1>7, <1>8, <1>9, <1>10, <1>11, <1>12, <1>13, <1>14,
     <1>15, <1>16, <1>17, <1>18 DEF Deed

LEMMA ApartStep ==
  ASSUME TypeOK, Flow, Known, Placed, Apart, Deed
  PROVE  Apart'
<1> SUFFICES ASSUME NEW t \in Tasks, NEW u \in Tasks, Waits(t)'
             PROVE  /\ (Fut(t) \in Content(task[u].hand) => ListOf(t) \in Events \cup {"cond"})'
                    /\ (At(u, "offer") /\ task[u].offer = Fut(t) =>
                          \/ ListOf(t) = task[u].obj
                          \/ task[u].obj = "hand" /\ ListOf(t) \in Events \cup {"cond"})'
  BY DEF Apart
<1>0. Handed(u) /\ Events \cup {"cond"} \subseteq Lists
  BY DeedHanded DEF Lists
<1>a. ASSUME WaitsAsBefore(t), Fut(t)' = Fut(t)
      PROVE  /\ (Fut(t) \in Content(task[u].hand) => ListOf(t) \in Events \cup {"cond"})'
             /\ (At(u, "offer") /\ task[u].offer = Fut(t) =>
                   \/ ListOf(t) = task[u].obj
                   \/ task[u].obj = "hand" /\ ListOf(t) \in Events \cup {"cond"})'
  <2>1. Waits(t) /\ ListOf(t)' = ListOf(t)
    BY <1>a DEF WaitsAsBefore
  <2> PICK f \in Futs : f = Fut(t)
    BY LastExists
  <2> PICK o : o = ListOf(t)
    OBVIOUS
  <2>2. /\ f \in Content(task[u].hand) => o \in Events \cup {"cond"}
        /\ At(u, "offer") /\ task[u].offer = f =>
             o = task[u].obj \/ (task[u].obj = "hand" /\ o \in Events \cup {"cond"})
        /\ \A p \in Lists : f \in In(p) => o = p
    BY <2>1 DEF Apart, Placed, In
  <2>3. f \in Content(task'[u].hand) => o \in Events \cup {"cond"}
    BY <1>0, <2>2 DEF Handed
  <2>4. task'[u].pc = "offer" /\ task'[u].offer = f =>
          o = task'[u].obj \/ (task'[u].obj = "hand" /\ o \in Events \cup {"cond"})
    BY <1>0, <2>2 DEF Handed
  <2> QED
    BY <1>a, <2>1, <2>3, <2>4 DEF At
<1>1. CASE Steady
  BY <1>1, <1>a DEF Steady, Lasts
<1>2. ASSUME NEW v \in Tasks, NEW o \in Lists, Enters(v, o)
      PROVE  /\ (Fut(t) \in Content(task[u].hand) => ListOf(t) \in Events \cup {"cond"})'
             /\ (At(u, "offer") /\ task[u].offer = Fut(t) =>
                   \/ ListOf(t) = task[u].obj
                   \/ task[u].obj = "hand" /\ ListOf(t) \in Events \cup {"cond"})'
  <2>1. Adds(v)
    BY <1>2, QueuesRelist DEF Enters
  <2>2. CASE t # v
    BY <1>2, <1>a, <2>1, <2>2 DEF Enters, Adds
  <2>3. CASE t = v
    <3>1. Fut(t)' = NewFut(t) /\ ~Exists(NewFut(t))
      BY <2>1, <2>3 DEF Adds
    <3>2. /\ \A p \in Lists : NewFut(t) \notin In(p)
          /\ NewFut(t) \notin Content(task[u].hand)
          /\ ~(At(u, "offer") /\ task[u].offer = NewFut(t))
      BY <3>1 DEF Known, In
    <3>3. ~(Fut(t) \in Content(task[u].hand))'
      BY <1>0, <3>1, <3>2 DEF Handed
    <3>4. ~(At(u, "offer") /\ task[u].offer = Fut(t))'
      BY <1>0, <3>1, <3>2 DEF Handed, At
    <3> QED
      BY <3>3, <3>4
  <2> QED
    BY <2>2, <2>3
<1> QED
  BY <1>1, <1>2, DeedKinds DEF Kind

-----------------------------------------------------------------------------
\* The invariant, and what it says of the waiters.

LEMMA InitInv == ASSUME Init PROVE IInv /\ Listed
<1>1. PICK a \in Apps : maxsize = a.maxsize /\ task = [t \in Tasks |-> Start(a.prog[t])]
  BY DEF Init
<1>2. a.maxsize \in Nat /\ \A t \in Tasks : a.prog[t] \in Seq(Ops)
  BY <1>1, AppsAssumption
<1>3. \A p \in Seq(Ops) : Start(p) \in TaskStates
  BY DEF Start, TaskStates, PCs, Lists, Events
<1>4. /\ task \in [Tasks -> TaskStates]
      /\ \A t \in Tasks : task[t].pc = "run" /\ task[t].hand = <<>> /\ ~task[t].raising
  BY <1>1, <1>2, <1>3 DEF Start
<1>5. waiters \in [Lists -> Seq(Futs)] /\ \A o \in Lists : waiters[o] = <<>>
  BY DEF Init
<1>6. aim \in [Cancellers -> Futs \cup {<<>>, <<"end">>}] /\ \A c \in Cancellers : aim[c] \notin Futs
  <2>1. <<>> \notin Futs
    BY DEF Futs
  <2> QED
    BY <2>1 DEF Init
<1>7. TypeOK
  <2>1. value \in [Events -> BOOLEAN] /\ locked \in BOOLEAN
    BY Zenon DEF Init
  <2>2. /\ mu \in [Mutexes -> Tasks \cup {None}] /\ faults = {} /\ size = 0 /\ unfinished = 0
        /\ fst \in [Tasks -> Seq({"pending", "result", "cancelled"})]
    BY DEF Init
  <2> QED
    BY <1>1, <1>2, <1>4, <1>5, <1>6, <2>1, <2>2 DEF TypeOK
<1>8. Busy /\ Flow /\ Heads
  BY <1>4 DEF Busy, BusyAt, Flow, FlowAt, Heads, HeadsAt, Waits, CondWaiting, Awaiting, Wakes, At
<1>9. Known /\ Placed /\ Fresh /\ Apart
  BY <1>4, <1>5, <1>6, SmallContent
     DEF Known, Placed, Fresh, Apart, Waits, CondWaiting, Awaiting, Wakes, At
<1>10. Listed
  BY <1>4 DEF Listed, Waits, CondWaiting, Awaiting, Wakes, At
<1> QED
  BY <1>7, <1>8, <1>9, <1>10 DEF IInv

LEMMA IInvStep == ASSUME IInv, [Next]_vars PROVE IInv' /\ Deed
<1>1. Deed
  BY NextDeeds DEF IInv
<1>2. TypeOK'
  BY TypeStep DEF IInv
<1>3. Busy'
  BY <1>1, BusyStep DEF IInv
<1>4. Flow'
  BY <1>1, FlowStep DEF IInv
<1>5. Heads'
  BY <1>1, HeadsStep DEF IInv
<1>6. Known'
  BY <1>1, KnownStep DEF IInv
<1>7. Fresh'
  BY <1>1, FreshStep DEF IInv
<1>8. Placed'
  BY <1>1, PlacedStep DEF IInv
<1>9. Apart'
  BY <1>1, ApartStep DEF IInv
<1> QED
  BY <1>1, <1>2, <1>3, <1>4, <1>5, <1>6, <1>7, <1>8, <1>9 DEF IInv

LEMMA IInvHolds == Spec => []IInv
<1>1. Init => IInv
  BY InitInv
<1>2. IInv /\ [Next]_vars => IInv'
  BY IInvStep
<1> QED
  BY <1>1, <1>2, PTL DEF Spec

\* The types of _sync.py's state, for every program: among them, that a bounded queue never
\* holds more than maxsize items and that no count becomes negative.
THEOREM TypeCorrect == Spec => []TypeOK
<1>1. IInv => TypeOK
  BY DEF IInv
<1> QED
  BY <1>1, IInvHolds, PTL

-----------------------------------------------------------------------------
\* Only a set_result that raises leaves futures in the hands of a call that is over.

Left(t)   == task[t].raising /\ task[t].hand # <<>>
Abandoned == "invalid" \notin faults => \A t \in Tasks : ~Left(t)

LEMMA DeedLeft ==
  ASSUME TypeOK, Flow, Deed, "invalid" \notin faults', NEW u \in Tasks, Left(u)'
  PROVE  Left(u)
<1> DEFINE r == task[u]
<1>0. /\ r.raising => \/ r.pc \in {"raise", "end", "relock"}
                      \/ Wakes(u) /\ r.obj = "lock"
                      \/ Awaiting(u)
      /\ r.hand # <<>> => r.raising \/ (Wakes(u) /\ r.obj = "hand")
      /\ At(u, "offer") /\ r.obj = "hand" => r.left > Len(r.hand)
  BY DEF Flow, FlowAt
<1>a. ASSUME task'[u].raising = task[u].raising, task'[u].hand = task[u].hand PROVE Left(u)
  BY <1>a DEF Left
<1>b. ASSUME task'[u].hand = task[u].hand, ~Wakes(u) \/ r.obj # "hand" PROVE Left(u)
  BY <1>0, <1>b DEF Left
<1>c. ASSUME NEW t \in Tasks, Frame(t), u # t PROVE Left(u)
  BY <1>a, <1>c DEF Frame, Same, HandKept, CallKept
<1>d. ASSUME Idles PROVE Left(u)
  BY <1>a, <1>d DEF Idles, Same, HandKept, CallKept
<1>1. ASSUME NEW t \in Tasks, Returned(t) PROVE Left(u)
  BY <1>a, <1>c, <1>1 DEF Returned, Returns, HandKept
<1>2. ASSUME NEW t \in Tasks, Failed(t) PROVE Left(u)
  BY <1>b, <1>c, <1>2 DEF Failed, Raises, Wakes
<1>3. ASSUME NEW t \in Tasks, Stopped(t) PROVE Left(u)
  BY <1>a, <1>c, <1>3 DEF Stopped, Stops, HandKept
<1>4. ASSUME NEW t \in Tasks, CondSlept(t) PROVE Left(u)
  BY <1>a, <1>c, <1>4 DEF CondSlept, Turns, HandKept, CallKept
<1>5. ASSUME NEW t \in Tasks, WakeEnded(t) PROVE Left(u)
  <2>1. Frame(t)
    BY <1>5 DEF WakeEnded, WakeEnds, Ends
  <2>2. task'[t].hand = <<>> \/ (task[t].obj \in Lists /\ task'[t].hand = task[t].hand)
    BY <1>5 DEF WakeEnded, WakeEnds
  <2>3. "hand" \notin Lists
    BY DEF Lists, Events
  <2> QED
    BY <1>b, <1>c, <2>1, <2>2, <2>3 DEF Left
<1>6. ASSUME NEW t \in Tasks, OfferEnded(t) PROVE Left(u)
  <2>1. Frame(t) /\ At(t, "offer") /\ task[t].left = 1 /\ task'[t].hand = task[t].hand
    BY <1>6 DEF OfferEnded, Ends
  <2>2. CASE u = t /\ r.obj = "hand"
    <3>1. r.hand \in Seq(Futs) /\ Len(r.hand) \in Nat /\ 1 > Len(r.hand)
      BY <1>0, <2>1, <2>2, TaskTyped DEF TaskStates
    <3>2. r.hand = <<>>
      BY <3>1, EmptySeq
    <3> QED
      BY <2>1, <2>2, <3>2 DEF Left
  <2> QED
    BY <1>b, <1>c, <2>1, <2>2
<1>7. ASSUME NEW t \in Tasks, OfferMore(t) PROVE Left(u)
  BY <1>a, <1>c, <1>7 DEF OfferMore, CallKept
<1>8. ASSUME NEW t \in Tasks, OfferRaised(t) PROVE Left(u)
  BY <1>8 DEF OfferRaised
<1>9. ASSUME NEW t \in Tasks, Excepted(t) PROVE Left(u)
  <2>1. Frame(t) /\ task'[t].hand = task[t].hand /\ ~Wakes(t)
    BY <1>9 DEF Excepted, Retakes, Rouses, Raises, HandKept, Wakes, At
  <2> QED
    BY <1>b, <1>c, <2>1
<1>10. ASSUME NEW t \in Tasks, NEW l \in PCs, Turned(t, l) PROVE Left(u)
  BY <1>a, <1>c, <1>10 DEF Turned, Turns, HandKept, CallKept
<1>11. ASSUME NEW t \in Tasks, NEW l \in PCs, Moved(t, l) PROVE Left(u)
  BY <1>a, <1>c, <1>11 DEF Moved, Turns, HandKept, CallKept
<1>12. ASSUME NEW t \in Tasks, NEW o \in Lists, Slept(t, o) PROVE Left(u)
  BY <1>a, <1>c, <1>12 DEF Slept, Sleeps, HandKept, CallKept
<1>13. ASSUME NEW t \in Tasks, NEW o \in Lists, Emptied(t, o) PROVE Left(u)
  <2>1. Frame(t) /\ task'[t].raising = task[t].raising /\ task[t].pc \in {"run", "again", "finish"}
    BY <1>13 DEF Emptied, Empties, CallKept, Calling, At
  <2>2. CASE u = t
    BY <1>0, <2>1, <2>2 DEF Left, Wakes, Awaiting
  <2> QED
    BY <1>c, <2>1, <2>2
<1>14. ASSUME NEW t \in Tasks, NEW o \in Lists, NEW l \in {"next", "cwait", "raise"}, Roused(t, o, l)
       PROVE  Left(u)
  BY <1>a, <1>c, <1>14 DEF Roused, Rouses
<1>15. ASSUME NEW t \in Tasks, NEW i \in 1 .. Len(Source(t)), WakePopped(t, i) PROVE Left(u)
  <2>1. /\ Frame(t) /\ task'[t].raising = task[t].raising /\ At(t, "wake")
        /\ task[t].obj = "hand" \/ task'[t].hand = task[t].hand
    BY <1>15 DEF WakePopped, WakePops, CallKept
  <2>2. CASE u = t /\ r.obj = "hand"
    BY <1>0, <2>1, <2>2 DEF Left, Awaiting, At
  <2> QED
    BY <1>a, <1>c, <2>1, <2>2
<1>16. ASSUME NEW c \in Cancellers, Cancelled(c) PROVE Left(u)
  BY <1>d, <1>16 DEF Cancelled
<1>17. ASSUME NEW c \in Cancellers, NEW t \in Tasks, Aimed(c, t) PROVE Left(u)
  BY <1>d, <1>17 DEF Aimed
<1>18. ASSUME Rested PROVE Left(u)
  BY <1>d, <1>18 DEF Rested
<1> QED
  BY <1>1, <1>2, <1>3, <1>4, <1>5, <1>6, <1>7, <1>8, <1>9, <1>10, <1>11, <1>12, <1>13, <1>14,
     <1>15, <1>16, <1>17, <1>18 DEF Deed

LEMMA FaultsGrow == ASSUME [Next]_vars PROVE faults \subseteq faults'
<1>1. ASSUME NEW t \in Tasks, Call(t) PROVE faults \subseteq faults'
  BY <1>1 DEF Call, Set, Clear, Wait, WaitEvent, Lock, Acquire, Unlock, Release, CondWait, Notify,
     NotifyAll, Put, PutNowait, Get, GetNowait, TaskDone, Join
<1>2. ASSUME NEW t \in Tasks, TaskStep(t), ~Call(t) PROVE faults \subseteq faults'
  BY <1>2 DEF TaskStep, Wake, Offer, Arm, Resume, Woken, Except, Relock, Acquire, CondRelease, Raise,
     Release, PutClear, Finish, JoinWait, WaitEvent
<1>3. ASSUME NEW t \in Tasks, OtherAwait(t) \/ \E c \in Cancellers : Cancel(c, t)
      PROVE  faults \subseteq faults'
  BY <1>3 DEF OtherAwait, Cancel
<1>4. ASSUME NEW c \in Cancellers, CancelFuture(c) PROVE faults \subseteq faults'
  BY <1>4 DEF CancelFuture
<1>5. ASSUME UNCHANGED vars PROVE faults \subseteq faults'
  BY <1>5 DEF vars
<1> QED
  BY <1>1, <1>2, <1>3, <1>4, <1>5 DEF Next, Rest

\* A suspended waiter is in its list, or a set, notify, notify_all or release under way is to
\* complete its future, whatever is cancelled around it (Event, Lock, Condition and Queue);
\* the one exception is a waiter that a set or notify_all had taken out when it raised
\* InvalidStateError.
THEOREM WaitersAreListed == Spec => []WaiterIsListed
<1>1. Init => Listed /\ Abandoned
  <2>1. Init => Abandoned
    BY DEF Init, Abandoned, Left, Start
  <2> QED
    BY <2>1, InitInv
<1>2. IInv /\ Listed /\ [Next]_vars => Listed'
  <2> SUFFICES ASSUME IInv, Listed, [Next]_vars PROVE Listed'
    OBVIOUS
  <2>1. IInv' /\ Deed
    BY IInvStep
  <2> QED
    BY <2>1, ListedStep DEF IInv
<1>2a. IInv /\ Abandoned /\ [Next]_vars => Abandoned'
  <2> SUFFICES ASSUME IInv, Abandoned, [Next]_vars, "invalid" \notin faults', NEW t \in Tasks, Left(t)'
               PROVE  FALSE
    BY DEF Abandoned
  <2>1. Deed /\ TypeOK /\ Flow
    BY IInvStep DEF IInv
  <2>2. Left(t)
    BY <2>1, DeedLeft
  <2> QED
    BY <2>2, FaultsGrow DEF Abandoned
<1>3. IInv /\ Listed /\ Abandoned => WaiterIsListed
  <2> SUFFICES ASSUME IInv, Listed, Abandoned, NEW t \in Tasks, At(t, "parked"), ~Done(Fut(t))
               PROVE  Contains(waiters[task[t].obj], Fut(t)) \/ InHands(Fut(t)) \/ Stranded(Fut(t))
    BY DEF WaiterIsListed
  <2> PICK f : f = Fut(t)
    OBVIOUS
  <2>1. Waits(t) /\ Pending(Fut(t)) /\ ListOf(t) = task[t].obj
    BY DEF Waits, Awaiting, At, Pending, Done, ListOf
  <2>2. f \in Content(waiters[task[t].obj]) \/ \E u \in Tasks : Holds(u, f, task[t].obj)
    BY <2>1 DEF Listed
  <2>3. CASE f \in Content(waiters[task[t].obj])
    BY <2>3 DEF Content, Contains
  <2>4. ASSUME NEW u \in Tasks, At(u, "offer"), task[u].offer = f PROVE InHands(f)
    BY <2>4 DEF InHands
  <2>5. ASSUME NEW u \in Tasks, f \in Content(task[u].hand) PROVE InHands(f) \/ Stranded(f)
    <3>1. Contains(task[u].hand, f) /\ task[u].hand # <<>>
      BY <2>5 DEF Content, Contains
    <3>2. task[u].raising \/ (Wakes(u) /\ task[u].obj = "hand")
      BY <3>1 DEF IInv, Flow, FlowAt
    <3>3. CASE task[u].raising
      BY <3>1, <3>3 DEF Abandoned, Left, Stranded
    <3>4. CASE Wakes(u) /\ task[u].obj = "hand"
      BY <3>1, <3>4 DEF InHands, Wakes
    <3> QED
      BY <3>2, <3>3, <3>4
  <2> QED
    BY <2>2, <2>3, <2>4, <2>5 DEF Holds
<1>4. Spec => [](Listed /\ Abandoned)
  BY <1>1, <1>2, <1>2a, IInvHolds, PTL DEF Spec
<1> QED
  BY <1>3, <1>4, IInvHolds, PTL

-----------------------------------------------------------------------------
\* The lock: at most one task owns it, has been handed it or is handing it on.

\* A step of t that does not touch the lock.
LockIdle(t) ==
  /\ OwnsKept(t)
  /\ Granted(t)' \/ Releasing(t)' => Granted(t) \/ Releasing(t)

\* Nobody else is handed the lock.
NoGrant(t) == \A u \in Tasks : u # t => (Granted(u)' => Granted(u))

LEMMA OtherTokens ==
  ASSUME NEW t \in Tasks, Frame(t), NoGrant(t), NEW u \in Tasks, u # t
  PROVE  /\ task'[u].owns = task[u].owns /\ Releasing(u)' = Releasing(u)
         /\ (Granted(u)' => Granted(u)) /\ (Token(u)' => Token(u))
<1>1. Same(u)
  BY DEF Frame
<1>2. task'[u].owns = task[u].owns /\ Releasing(u)' = Releasing(u)
  BY <1>1 DEF Same, HandKept, Releasing, Wakes
<1> QED
  BY <1>2 DEF NoGrant, Token

LEMMA NoGrantByLeaving == ASSUME NEW t \in Tasks, Frame(t), UNCHANGED fst PROVE NoGrant(t)
<1> SUFFICES ASSUME NEW u \in Tasks, u # t, Granted(u)' PROVE Granted(u)
  BY DEF NoGrant
<1>1. State(Fut(u))' = State(Fut(u))
  BY DEF State, Fut
<1>2. Same(u)
  BY DEF Frame
<1> QED
  BY <1>1, <1>2 DEF Same, Granted, Awaiting

LEMMA NoGrantByEntering ==
  ASSUME TypeOK, NEW t \in Tasks, NEW o \in Lists, Frame(t), Queues(t, o) PROVE NoGrant(t)
<1> SUFFICES ASSUME NEW u \in Tasks, u # t, Granted(u)' PROVE Granted(u)
  BY DEF NoGrant
<1>1. fst'[u] = fst[u]
  BY DEF TypeOK, Queues
<1>2. State(Fut(u))' = State(Fut(u))
  BY <1>1 DEF State, Fut
<1>3. Same(u)
  BY DEF Frame
<1> QED
  BY <1>2, <1>3 DEF Same, Granted, Awaiting

LEMMA TokenKept ==
  ASSUME OneToken, NEW t \in Tasks, Frame(t), NoGrant(t), LockIdle(t), UNCHANGED locked,
         faults \subseteq faults'
  PROVE  OneToken'
<1> SUFFICES ASSUME "unlocked" \notin faults'
             PROVE  /\ \A u, v \in Tasks : Token(u)' /\ Token(v)' => u = v
                    /\ \A u \in Tasks : Token(u)' => locked
                    /\ \A u \in Tasks : Granted(u)' \/ Releasing(u)' => ~task'[u].owns
  BY DEF OneToken
<1>0. "unlocked" \notin faults
  OBVIOUS
<1>1. /\ Token(t)' => Token(t)
      /\ task'[t].owns = task[t].owns
      /\ Granted(t)' \/ Releasing(t)' => Granted(t) \/ Releasing(t)
  BY DEF LockIdle, OwnsKept, Token
<1>2. \A u \in Tasks : /\ Token(u)' => Token(u)
                       /\ task'[u].owns = task[u].owns
                       /\ Granted(u)' \/ Releasing(u)' => Granted(u) \/ Releasing(u)
  BY <1>1, OtherTokens
<1> QED
  BY <1>0, <1>2 DEF OneToken

\* The steps of that kind.
LEMMA IdleCalls ==
  ASSUME NEW t \in Tasks, OwnsKept(t)
  PROVE  /\ Returns(t) \/ Raises(t) \/ Stops(t) \/ Retakes(t) => LockIdle(t)
         /\ \A l \in {"clear", "finish", "joining", "cwait", "again", "relock"} : Turns(t, l) => LockIdle(t)
         /\ \A s : Empties(t, s) => LockIdle(t)
         /\ \A o, l : Rouses(t, o, l) /\ o # "lock" => LockIdle(t)
  BY DEF LockIdle, Returns, Raises, Stops, Retakes, Turns, Empties, Rouses, Granted, Releasing,
         Awaiting, Wakes

LEMMA IdleEnters ==
  ASSUME TypeOK, NEW t \in Tasks, OwnsKept(t), NEW o \in Lists, Sleeps(t, o), Queues(t, o)
  PROVE  LockIdle(t)
<1>1. State(Fut(t))' = "pending"
  BY AddFuture DEF Queues, Adds
<1> QED
  BY <1>1 DEF LockIdle, Sleeps, Granted, Releasing, Awaiting, Wakes

LEMMA TokenReturns ==
  ASSUME OneToken, NEW t \in Tasks, OwnsKept(t), UNCHANGED <<fst, locked>>, faults \subseteq faults',
         \/ Returns(t) \/ Raises(t) \/ Stops(t) \/ Retakes(t)
         \/ \E l \in {"clear", "finish", "joining", "cwait", "again", "relock"} : Turns(t, l)
         \/ \E s : Empties(t, s)
         \/ \E o, l : Rouses(t, o, l) /\ o # "lock"
  PROVE  OneToken'
<1>1. LockIdle(t)
  BY IdleCalls
<1>2. Frame(t)
  BY DEF Returns, Raises, Stops, Retakes, Turns, Empties, Rouses
<1> QED
  BY <1>1, <1>2, NoGrantByLeaving, TokenKept

LEMMA TokenEnters ==
  ASSUME TypeOK, OneToken, NEW t \in Tasks, OwnsKept(t), UNCHANGED locked, faults \subseteq faults',
         NEW o \in Lists, Queues(t, o), Sleeps(t, o) \/ Turns(t, "cwait")
  PROVE  OneToken'
<1>1. LockIdle(t)
  BY IdleCalls, IdleEnters
<1>2. Frame(t)
  BY DEF Sleeps, Turns
<1> QED
  BY <1>1, <1>2, NoGrantByEntering, TokenKept

LEMMA TokenReleases ==
  ASSUME TypeOK, OneToken, NEW t \in Tasks, NEW l \in {"next", "raise", "cwait"}, Release(t, l)
  PROVE  OneToken'
<1>1. /\ Rouses(t, "lock", l) /\ UNCHANGED <<fst, locked>> /\ task'[t].owns = FALSE
      /\ faults' = IF task[t].owns THEN faults ELSE faults \cup {"unlocked"}
  BY ReleaseDoes DEF Release
<1>2. Frame(t) /\ NoGrant(t)
  BY <1>1, NoGrantByLeaving DEF Rouses
<1> SUFFICES ASSUME "unlocked" \notin faults'
             PROVE  /\ \A u, v \in Tasks : Token(u)' /\ Token(v)' => u = v
                    /\ \A u \in Tasks : Token(u)' => locked
                    /\ \A u \in Tasks : Granted(u)' \/ Releasing(u)' => ~task'[u].owns
  BY <1>1 DEF OneToken
<1>3. "unlocked" \notin faults /\ task[t].owns /\ Token(t)
  BY <1>1 DEF Token
<1>4. \A u \in Tasks : Token(u)' => Token(u)
  BY <1>2, <1>3, OtherTokens
<1>5. \A u \in Tasks : u # t => (Granted(u)' \/ Releasing(u)' => ~task'[u].owns)
  BY <1>2, <1>3, OtherTokens DEF OneToken
<1> QED
  BY <1>1, <1>3, <1>4, <1>5 DEF OneToken

\* Nobody has the token when the lock is free.
LEMMA TokenTaken ==
  ASSUME TypeOK, OneToken, NEW t \in Tasks, UNCHANGED <<fst, faults>>, Returns(t) \/ Raises(t),
         locked', task'[t].owns, ~locked \/ Granted(t)
  PROVE  OneToken'
<1>1. Frame(t) /\ NoGrant(t)
  BY NoGrantByLeaving DEF Returns, Raises
<1>2. ~Granted(t)' /\ ~Releasing(t)'
  BY DEF Returns, Raises, Granted, Releasing, Awaiting, Wakes
<1> SUFFICES ASSUME "unlocked" \notin faults
             PROVE  /\ \A u, v \in Tasks : Token(u)' /\ Token(v)' => u = v
                    /\ \A u \in Tasks : Granted(u)' \/ Releasing(u)' => ~task'[u].owns
  BY DEF OneToken
<1>3. \A u \in Tasks : u # t => ~Token(u)
  BY DEF OneToken, Token
<1>4. \A u \in Tasks : u # t => ~Token(u)' /\ (Granted(u)' \/ Releasing(u)' => ~task'[u].owns)
  BY <1>1, <1>3, OtherTokens DEF OneToken, Token
<1> QED
  BY <1>2, <1>4

LEMMA TokenAwaits ==
  ASSUME TypeOK, OneToken, NEW t \in Tasks, OwnsKept(t), UNCHANGED <<fst, locked, faults>>, Awaiting(t),
         NEW l \in {"parked", "woken", "except"}, Turns(t, l)
  PROVE  OneToken'
<1>1. State(Fut(t))' = State(Fut(t))
  BY DEF State, Fut
<1>2. LockIdle(t)
  BY <1>1 DEF LockIdle, Turns, Granted, Releasing, Awaiting, Wakes
<1> QED
  BY <1>2, NoGrantByLeaving, TokenKept DEF Turns

\* The loop of release, and the other loops.
LEMMA TokenWakes ==
  ASSUME TypeOK, Busy, Flow, OneToken, NEW t \in Tasks, Wake(t)
  PROVE  OneToken'
<1>0. UNCHANGED faults
  BY DEF Wake
<1>1. ASSUME NEW i, WakePops(t, i) PROVE OneToken'
  <2>1. LockIdle(t) /\ Frame(t) /\ UNCHANGED <<fst, locked>>
    BY <1>1 DEF WakePops, LockIdle, Granted, Releasing, Awaiting, Wakes, At
  <2> QED
    BY <1>0, <2>1, NoGrantByLeaving, TokenKept
<1>2. CASE WakeEnds(t)
  <2>1. Frame(t) /\ NoGrant(t) /\ OwnsKept(t) /\ ~Granted(t)' /\ ~Releasing(t)'
    BY <1>2, NoGrantByLeaving DEF WakeEnds, Ends, OwnsKept, Granted, Releasing, Awaiting, Wakes
  <2>2. CASE task[t].obj # "lock"
    <3>1. LockIdle(t) /\ locked' = locked
      BY <1>2, <2>1, <2>2 DEF LockIdle, WakeEnds, TypeOK
    <3> QED
      BY <1>0, <2>1, <3>1, TokenKept
  <2>3. CASE task[t].obj = "lock"
    <3> SUFFICES ASSUME "unlocked" \notin faults
                 PROVE  \A u \in Tasks : ~Token(u)'
      BY <1>0 DEF OneToken, Token
    <3>1. Releasing(t) /\ Token(t)
      BY <1>2, <2>3 DEF WakeEnds, Releasing, Wakes, At, Token
    <3>2. \A u \in Tasks : u # t => ~Token(u)
      BY <3>1 DEF OneToken
    <3>3. ~task[t].owns
      BY <3>1 DEF OneToken
    <3> QED
      BY <2>1, <3>2, <3>3, OtherTokens DEF Token, OwnsKept
  <2> QED
    BY <2>2, <2>3
<1> QED
  BY <1>1, <1>2, WakeDoes

\* set_result hands the token to the task that waits for the future, if it still does.
LEMMA TokenOffered ==
  ASSUME TypeOK, Busy, Flow, Known, Apart, OneToken, NEW t \in Tasks, Offer(t)
  PROVE  OneToken'
<1>0. At(t, "offer") /\ UNCHANGED locked /\ faults \subseteq faults'
  BY DEF Offer
<1>1. CASE Done(task[t].offer)
  <2>1. Raises(t) /\ (task'[t].owns <=> task[t].owns \/ task[t].obj = "lock") /\ UNCHANGED fst
    BY <1>1, OfferRaises DEF Offer
  <2>2. Frame(t) /\ NoGrant(t) /\ ~Granted(t)' /\ ~Releasing(t)'
    BY <2>1, NoGrantByLeaving DEF Raises, Granted, Releasing, Awaiting, Wakes
  <2>3. Token(t)' => Token(t)
    BY <1>0, <2>1, <2>2 DEF Token, Releasing, Wakes, At
  <2>4. \A u \in Tasks : /\ Token(u)' => Token(u)
                         /\ Granted(u)' \/ Releasing(u)' =>
                              task'[u].owns = task[u].owns /\ (Granted(u) \/ Releasing(u))
    BY <2>2, <2>3, OtherTokens
  <2> QED
    BY <1>0, <2>4 DEF OneToken
<1>2. CASE ~Done(task[t].offer)
  <2>1. Completes(t) /\ UNCHANGED faults
    BY <1>2 DEF Offer, Completes
  <2> PICK f \in Futs : f = task[t].offer /\ Exists(f) /\ Writes(f, "result")
    BY <1>0, <2>1, CompleteFuture
  <2>2. /\ Frame(t) /\ OwnsKept(t) /\ ~Granted(t)'
        /\ Releasing(t)' => task[t].obj = "lock" /\ task[t].left # 1
    <3>1. CASE task[t].left = 1
      BY <1>2, <3>1, OfferEnds DEF Ends, OwnsKept, Granted, Releasing, Awaiting, Wakes
    <3>2. CASE task[t].left # 1
      BY <1>2, <3>2, OfferGoesOn DEF OwnsKept, Granted, Releasing, Awaiting, Wakes
    <3> QED
      BY <3>1, <3>2
  <2>3. ASSUME NEW u \in Tasks, u # t, Granted(u)', ~Granted(u)
        PROVE  f = Fut(u) /\ task[t].obj = "lock"
    <3>1. Awaiting(u) /\ task[u].obj = "lock" /\ Waits(u)
      BY <2>2, <2>3 DEF Frame, Same, Granted, Awaiting, Waits
    <3>2. Fut(u)' = Fut(u) /\ Fut(u) \in Futs /\ Exists(Fut(u))
      BY <3>1, LastIsPending DEF Writes
    <3> PICK g \in Futs : g = Fut(u)
      BY <3>2
    <3>3. State(g)' = "result" /\ State(g) # "result"
      BY <2>3, <3>1, <3>2 DEF Granted, State
    <3>4. g = f
      BY <3>2, <3>3 DEF Writes
    <3>5. ListOf(u) = "lock" /\ "lock" \notin Events \cup {"cond"}
      BY <3>1 DEF ListOf, Events
    <3> QED
      BY <1>0, <3>1, <3>4, <3>5 DEF Apart
  <2>4. CASE task[t].obj # "lock"
    <3>1. NoGrant(t) /\ LockIdle(t)
      BY <2>2, <2>3, <2>4 DEF NoGrant, LockIdle
    <3> QED
      BY <1>0, <2>2, <3>1, TokenKept
  <2>5. CASE task[t].obj = "lock"
    <3> SUFFICES ASSUME "unlocked" \notin faults
                 PROVE  /\ \A u, v \in Tasks : Token(u)' /\ Token(v)' => u = v
                        /\ locked
                        /\ \A u \in Tasks : Granted(u)' \/ Releasing(u)' => ~task'[u].owns
      BY <1>0, <2>1 DEF OneToken
    <3>1. Releasing(t) /\ Token(t) /\ task[t].left = 1
      BY <1>0, <2>5 DEF Releasing, Wakes, At, Token, Flow, FlowAt
    <3>2. locked /\ ~task[t].owns /\ \A u \in Tasks : u # t => ~Token(u)
      BY <3>1 DEF OneToken
    <3>3. ~Token(t)'
      BY <2>2, <3>1, <3>2 DEF Token, OwnsKept
    <3>4. ASSUME NEW u \in Tasks, u # t, Token(u)'
          PROVE  u = f[1] /\ ~task'[u].owns
      <4>1. task'[u].owns = task[u].owns /\ Releasing(u)' = Releasing(u)
        BY <2>2, <3>4 DEF Frame, Same, HandKept, Releasing, Wakes
      <4>2. ~task[u].owns /\ ~Releasing(u) /\ ~Granted(u)
        BY <3>2, <3>4 DEF Token
      <4>3. f = Fut(u)
        BY <2>3, <3>4, <4>1, <4>2 DEF Token
      <4> QED
        BY <4>1, <4>2, <4>3 DEF Fut
    <3> QED
      BY <3>2, <3>3, <3>4 DEF Token
  <2> QED
    BY <2>4, <2>5
<1> QED
  BY <1>1, <1>2

LEMMA TokenExcepts ==
  ASSUME TypeOK, Flow, OneToken, NEW t \in Tasks, Except(t)
  PROVE  OneToken'
<1>0. UNCHANGED <<fst, locked>> /\ faults \subseteq faults' /\ ("unlocked" \in faults' => "unlocked" \in faults)
  BY DEF Except
<1>1. CASE Retakes(t)
  BY <1>0, <1>1, TokenReturns DEF Retakes, Kept
<1>2. CASE Raises(t) /\ Kept(t)
  BY <1>0, <1>2, TokenReturns DEF Kept
<1>3. CASE Grant(t) /\ Rouses(t, "lock", "raise") /\ Kept(t)
  <2>1. Granted(t) /\ Frame(t) /\ OwnsKept(t)
    BY <1>3 DEF Granted, Grant, Except, Awaiting, At, Rouses, Kept
  <2>2. LockIdle(t)
    BY <2>1 DEF LockIdle
  <2> QED
    BY <1>0, <2>1, <2>2, NoGrantByLeaving, TokenKept
<1> QED
  BY <1>1, <1>2, <1>3, ExceptDoes

LEMMA TokenAcquires ==
  ASSUME TypeOK, OneToken, NEW t \in Tasks, task[t].prog # <<>>, Acquire(t)
  PROVE  OneToken'
<1>1. UNCHANGED faults /\ "lock" \in Lists
  BY DEF Acquire, Lists
<1>2. CASE Sleeps(t, "lock") /\ Queues(t, "lock") /\ Kept(t) /\ UNCHANGED locked
  BY <1>1, <1>2, TokenEnters DEF Kept
<1>3. CASE Returns(t) \/ Raises(t)
  BY <1>1, <1>2, <1>3, AcquireDoes, TokenTaken DEF ListsKept
<1> QED
  BY <1>2, <1>3, AcquireDoes

LEMMA TokenStep ==
  ASSUME IInv, OneToken, [Next]_vars
  PROVE  OneToken'
<1> USE DEF IInv, Kept
<1>0. "event" \in Events /\ "finished" \in Events /\ "cond" \in Lists /\ Events \subseteq Lists
      /\ "getters" \in Lists /\ "putters" \in Lists
  BY DEF Events, Lists
<1>a. ASSUME NEW t \in Tasks, PutLocked(t), UNCHANGED faults PROVE OneToken'
  <2>1. Turns(t, "clear") /\ OwnsKept(t) /\ UNCHANGED <<fst, locked, faults>>
    BY <1>a, PutLockedDoes DEF PutLocked
  <2> QED
    BY <2>1, TokenReturns
<1>b. ASSUME NEW t \in Tasks, GetLocked(t), UNCHANGED faults PROVE OneToken'
  <2>1. Rouses(t, "putters", "next") /\ OwnsKept(t) /\ UNCHANGED <<fst, locked, faults>>
    BY <1>b, GetLockedDoes DEF GetLocked
  <2> QED
    BY <2>1, TokenReturns
<1>c. ASSUME NEW t \in Tasks, NEW e \in Events, WaitEvent(t, e), task[t].prog # <<>> PROVE OneToken'
  <2>1. UNCHANGED <<locked, faults>>
    BY <1>c DEF WaitEvent
  <2>2. CASE Returns(t) /\ OwnsKept(t) /\ ListsKept
    BY <2>1, <2>2, TokenReturns DEF ListsKept
  <2>3. CASE Sleeps(t, e) /\ Queues(t, e) /\ OwnsKept(t)
    BY <1>0, <2>1, <2>3, TokenEnters
  <2> QED
    BY <1>c, <2>2, <2>3, WaitEventDoes
<1>d. ASSUME NEW t \in Tasks, NEW e \in Events, SetEvent(t, e, "next"), task[t].prog # <<>>,
             faults \subseteq faults'
      PROVE  OneToken'
  <2>1. UNCHANGED <<locked, fst>>
    BY <1>d DEF SetEvent
  <2>2. OwnsKept(t) /\ (Returns(t) \/ Empties(t, waiters[e]))
    BY <1>d, SetEventDoes
  <2> QED
    BY <1>d, <2>1, <2>2, TokenReturns
<1>1. ASSUME NEW t \in Tasks, Set(t) PROVE OneToken'
  BY <1>0, <1>1, <1>d, CallsWhat DEF Set
<1>2. ASSUME NEW t \in Tasks, Clear(t) PROVE OneToken'
  <2>1. Return(t) /\ UNCHANGED <<fst, locked, faults>> /\ task[t].prog # <<>>
    BY <1>2, CallsWhat DEF Clear
  <2> QED
    BY <2>1, ReturnDoes, TokenReturns
<1>3. ASSUME NEW t \in Tasks, Wait(t) PROVE OneToken'
  BY <1>0, <1>3, <1>c, CallsWhat DEF Wait
<1>4. ASSUME NEW t \in Tasks, Lock(t) PROVE OneToken'
  BY <1>4, CallsWhat, TokenAcquires DEF Lock
<1>5. ASSUME NEW t \in Tasks, Unlock(t) PROVE OneToken'
  BY <1>5, TokenReleases DEF Unlock
<1>6. ASSUME NEW t \in Tasks, CondWait(t) PROVE OneToken'
  <2>1. Turns(t, "cwait") /\ Queues(t, "cond") /\ OwnsKept(t) /\ UNCHANGED <<locked, faults>>
    BY <1>6, CondWaitDoes DEF CondWait
  <2> QED
    BY <1>0, <2>1, TokenEnters
<1>7. ASSUME NEW t \in Tasks, Notify(t) PROVE OneToken'
  <2>1. Rouses(t, "cond", "next") /\ OwnsKept(t) /\ UNCHANGED <<fst, locked, faults>>
    BY <1>7, NotifyDoes DEF Notify
  <2> QED
    BY <2>1, TokenReturns
<1>8. ASSUME NEW t \in Tasks, NotifyAll(t) PROVE OneToken'
  <2>1. Empties(t, waiters["cond"]) /\ OwnsKept(t) /\ UNCHANGED <<fst, locked, faults>>
    BY <1>8, NotifyAllDoes DEF NotifyAll
  <2> QED
    BY <2>1, TokenReturns
<1>9. ASSUME NEW t \in Tasks, Put(t) PROVE OneToken'
  <2>1. UNCHANGED faults
    BY <1>9 DEF Put
  <2>2. CASE Sleeps(t, "putters") /\ Queues(t, "putters") /\ OwnsKept(t) /\ UNCHANGED locked
    BY <1>0, <2>1, <2>2, TokenEnters
  <2> QED
    BY <1>9, <1>a, <2>1, <2>2, PutDoes
<1>10. ASSUME NEW t \in Tasks, PutNowait(t) PROVE OneToken'
  <2>1. UNCHANGED faults
    BY <1>10 DEF PutNowait
  <2>2. CASE Returns(t) /\ OwnsKept(t) /\ ListsKept /\ UNCHANGED locked
    BY <2>1, <2>2, TokenReturns DEF ListsKept
  <2> QED
    BY <1>10, <1>a, <2>1, <2>2, PutNowaitDoes
<1>11. ASSUME NEW t \in Tasks, Get(t) PROVE OneToken'
  <2>1. UNCHANGED faults
    BY <1>11 DEF Get
  <2>2. CASE Sleeps(t, "getters") /\ Queues(t, "getters") /\ OwnsKept(t) /\ UNCHANGED locked
    BY <1>0, <2>1, <2>2, TokenEnters
  <2> QED
    BY <1>11, <1>b, <2>1, <2>2, GetDoes
<1>12. ASSUME NEW t \in Tasks, GetNowait(t) PROVE OneToken'
  <2>1. UNCHANGED faults
    BY <1>12 DEF GetNowait
  <2>2. CASE Returns(t) /\ OwnsKept(t) /\ ListsKept /\ UNCHANGED locked
    BY <2>1, <2>2, TokenReturns DEF ListsKept
  <2> QED
    BY <1>12, <1>b, <2>1, <2>2, GetNowaitDoes
<1>13. ASSUME NEW t \in Tasks, TaskDone(t) PROVE OneToken'
  <2>1. UNCHANGED <<fst, locked, faults>>
    BY <1>13 DEF TaskDone
  <2>2. OwnsKept(t) /\ (Returns(t) \/ Turns(t, "finish"))
    BY <1>13, TaskDoneDoes
  <2> QED
    BY <2>1, <2>2, TokenReturns
<1>14. ASSUME NEW t \in Tasks, Join(t) PROVE OneToken'
  <2>1. UNCHANGED <<fst, locked, faults>>
    BY <1>14 DEF Join, objVars
  <2>2. OwnsKept(t) /\ (Returns(t) \/ Turns(t, "joining"))
    BY <1>14, JoinDoes
  <2> QED
    BY <2>1, <2>2, TokenReturns
<1>15. ASSUME NEW t \in Tasks, Arm(t) PROVE OneToken'
  <2>1. UNCHANGED <<fst, locked, faults>> /\ Awaiting(t)
    BY <1>15 DEF Arm, objVars, Awaiting, At
  <2> QED
    BY <1>15, <2>1, ArmDoes, TokenAwaits
<1>16. ASSUME NEW t \in Tasks, Resume(t) PROVE OneToken'
  <2>1. UNCHANGED <<fst, locked, faults>> /\ Awaiting(t)
    BY <1>16 DEF Resume, objVars, Awaiting, At
  <2> QED
    BY <1>16, <2>1, ResumeDoes, TokenAwaits
<1>17. ASSUME NEW t \in Tasks, Woken(t) PROVE OneToken'
  <2>1. UNCHANGED <<fst, locked, faults>> /\ At(t, "woken") /\ Awaiting(t)
    BY <1>17 DEF Woken, objVars, Awaiting, At
  <2>2. task[t].obj # "hand" /\ State(Fut(t)) = "result"
    BY <2>1 DEF Flow, FlowAt
  <2>3. CASE OwnsKept(t) /\ (Returns(t) \/ Turns(t, "again") \/ Turns(t, "relock"))
    BY <2>1, <2>3, TokenReturns
  <2>4. CASE task[t].obj = "lock" /\ task'[t].owns /\ (Returns(t) \/ Raises(t))
    <3>1. Granted(t) /\ Token(t)
      BY <2>1, <2>2, <2>4 DEF Granted, Token
    <3>2. CASE "unlocked" \in faults
      BY <2>1, <3>2 DEF OneToken
    <3>3. CASE "unlocked" \notin faults
      <4>1. locked'
        BY <2>1, <3>1, <3>3 DEF OneToken
      <4> QED
        BY <2>1, <2>4, <3>1, <4>1, TokenTaken
    <3> QED
      BY <3>2, <3>3
  <2> QED
    BY <1>17, <2>2, <2>3, <2>4, WokenDoes
<1>18. ASSUME NEW t \in Tasks, Relock(t) PROVE OneToken'
  <2>1. task[t].prog # <<>> /\ Acquire(t)
    BY <1>18 DEF Relock, Busy, BusyAt, At
  <2> QED
    BY <2>1, TokenAcquires
<1>19. ASSUME NEW t \in Tasks, CondRelease(t) PROVE OneToken'
  BY <1>19, TokenReleases DEF CondRelease
<1>20. ASSUME NEW t \in Tasks, Raise(t) PROVE OneToken'
  <2>1. CASE Stops(t) /\ UNCHANGED <<objVars, maxsize, fst, aim, faults>>
    BY <2>1, TokenReturns DEF Stops, objVars
  <2> QED
    BY <1>20, <2>1, RaiseDoes, TokenReleases
<1>21. ASSUME NEW t \in Tasks, PutClear(t) PROVE OneToken'
  <2>1. Rouses(t, "getters", "next") /\ OwnsKept(t) /\ UNCHANGED <<fst, locked, faults>>
    BY <1>21, PutClearDoes DEF PutClear
  <2> QED
    BY <2>1, TokenReturns
<1>22. ASSUME NEW t \in Tasks, Finish(t) PROVE OneToken'
  <2>1. task[t].prog # <<>> /\ SetEvent(t, "finished", "next") /\ faults \subseteq faults'
    BY <1>22 DEF Finish, Busy, BusyAt, At
  <2> QED
    BY <1>0, <1>d, <2>1
<1>23. ASSUME NEW t \in Tasks, JoinWait(t) PROVE OneToken'
  <2>1. task[t].prog # <<>> /\ WaitEvent(t, "finished")
    BY <1>23 DEF JoinWait, Busy, BusyAt, At
  <2> QED
    BY <1>0, <1>c, <2>1
<1>24. ASSUME NEW t \in Tasks, OtherAwait(t) PROVE OneToken'
  <2>1. UNCHANGED <<fst, locked, faults>>
    BY <1>24 DEF OtherAwait, objVars
  <2> QED
    BY <1>24, <2>1, OtherAwaitDoes, TokenReturns
<1>e. ASSUME Idles, UNCHANGED <<locked, faults>>, \A u \in Tasks : Granted(u)' => Granted(u)
      PROVE  OneToken'
  <2>1. \A u \in Tasks : /\ Token(u)' => Token(u)
                         /\ task'[u].owns = task[u].owns
                         /\ Releasing(u)' = Releasing(u)
    BY <1>e DEF Idles, Same, HandKept, Token, Releasing, Wakes
  <2> QED
    BY <1>e, <2>1 DEF OneToken
<1>f. ASSUME Idles, UNCHANGED fst PROVE \A u \in Tasks : Granted(u)' => Granted(u)
  <2> SUFFICES ASSUME NEW u \in Tasks, Granted(u)' PROVE Granted(u)
    OBVIOUS
  <2>1. State(Fut(u))' = State(Fut(u)) /\ Same(u)
    BY <1>f DEF State, Fut, Idles
  <2> QED
    BY <2>1 DEF Same, Granted, Awaiting
<1>25. ASSUME NEW c \in Cancellers, NEW t \in Tasks, Cancel(c, t) PROVE OneToken'
  <2>1. UNCHANGED <<fst, locked, faults>>
    BY <1>25 DEF Cancel, objVars
  <2> QED
    BY <1>25, <1>e, <1>f, <2>1, CancelDoes
<1>26. ASSUME NEW c \in Cancellers, CancelFuture(c) PROVE OneToken'
  <2>1. UNCHANGED <<locked, faults>> /\ Idles
    BY <1>26, CancelFutureDoes DEF CancelFuture, objVars
  <2>2. CASE UNCHANGED fst
    BY <1>e, <1>f, <2>1, <2>2
  <2>3. CASE ~Done(aim[c]) /\ fst' = [fst EXCEPT ![aim[c][1]][aim[c][2]] = "cancelled"]
    <3> PICK f \in Futs : f = aim[c] /\ Exists(f)
      BY <1>26, CancelFutureDoes DEF Known
    <3>1. Writes(f, "cancelled")
      BY <2>3, WriteFuture DEF FutStates
    <3>2. ASSUME NEW u \in Tasks, Granted(u)' PROVE Granted(u)
      <4>1. Awaiting(u) /\ task[u].obj = "lock" /\ Fut(u)' = Fut(u) /\ Waits(u)
        BY <2>1, <3>1, <3>2 DEF Idles, Same, Granted, Awaiting, Writes, Waits
      <4>2. Fut(u) \in Futs /\ Exists(Fut(u))
        BY <4>1, LastIsPending
      <4> PICK g \in Futs : g = Fut(u)
        BY <4>2
      <4>3. State(g)' = "result"
        BY <3>2, <4>1 DEF Granted, State
      <4>4. State(g) = "result"
        BY <3>1, <4>2, <4>3 DEF Writes
      <4> QED
        BY <4>1, <4>4 DEF Granted
    <3> QED
      BY <1>e, <2>1, <3>2
  <2> QED
    BY <1>26, <2>2, <2>3, CancelFutureDoes
<1>27. CASE UNCHANGED vars
  <2>1. UNCHANGED <<task, fst, locked, faults>>
    BY <1>27 DEF vars, objVars
  <2> QED
    BY <1>e, <1>f, <2>1, TasksKept
<1> QED
  BY <1>1, <1>2, <1>3, <1>4, <1>5, <1>6, <1>7, <1>8, <1>9, <1>10, <1>11, <1>12, <1>13, <1>14,
     <1>15, <1>16, <1>17, <1>18, <1>19, <1>20, <1>21, <1>22, <1>23, <1>24, <1>25, <1>26, <1>27,
     TokenWakes, TokenOffered, TokenExcepts
     DEF Next, TaskStep, Call, Rest

\* Lock: as long as no task releases a lock it does not own, at most one task owns it or has
\* been handed it by a release, and it is locked while there is one.
THEOREM LockIsExclusive == Spec => []LockHasOneOwner
<1>1. Init => OneToken
  <2> SUFFICES ASSUME Init PROVE OneToken
    OBVIOUS
  <2>1. PICK a \in Apps : task = [t \in Tasks |-> Start(a.prog[t])]
    BY DEF Init
  <2>2. \A t \in Tasks : task[t].pc = "run" /\ ~task[t].owns
    BY <2>1 DEF Start
  <2> QED
    BY <2>2 DEF OneToken, Token, Granted, Releasing, Awaiting, Wakes
<1>2. IInv /\ OneToken /\ [Next]_vars => OneToken'
  BY TokenStep
<1>3. OneToken => LockHasOneOwner
  <2> SUFFICES ASSUME OneToken, "unlocked" \notin faults
               PROVE  Cardinality(Owners) <= 1 /\ (Owners # {} => locked)
    BY DEF LockHasOneOwner
  <2>1. \A t \in Owners : t \in Tasks /\ Token(t)
    BY DEF Owners, Token, Granted
  <2>2. \A t, u \in Owners : t = u
    BY <2>1 DEF OneToken
  <2>3. CASE Owners = {}
    BY <2>3, FS_EmptySet
  <2>4. CASE Owners # {}
    <3>1. PICK t : Owners = {t}
      BY <2>2, <2>4
    <3>2. Cardinality(Owners) = 1
      BY <3>1, FS_Singleton
    <3> QED
      BY <2>1, <3>1, <3>2 DEF OneToken
  <2> QED
    BY <2>3, <2>4
<1> QED
  BY <1>1, <1>2, <1>3, IInvHolds, PTL DEF Spec

-----------------------------------------------------------------------------
\* join: who waits for _finished has seen all items done when it is set.

\* A future is completed by the one that offers.
Results ==
  \A g \in Futs : Exists(g) /\ State(g)' = "result" =>
    State(g) = "result" \/ \E u \in Tasks : At(u, "offer") /\ task[u].offer = g

LEMMA DeedResults ==
  ASSUME TypeOK, Flow, Known, Placed, Deed
  PROVE  Results
<1>a. ASSUME UNCHANGED fst PROVE Results
  BY <1>a, LeaveFutures DEF Results, Leaves
<1>b. ASSUME NEW t \in Tasks, Completes(t), At(t, "offer") PROVE Results
  BY <1>b, CompleteFuture DEF Results, Writes
<1>c. ASSUME NEW t \in Tasks, NEW o \in Lists, Queues(t, o) PROVE Results
  BY <1>c, QueuesRelist DEF Results, Adds
<1>1. ASSUME NEW t \in Tasks, Returned(t) PROVE Results
  BY <1>a, <1>1 DEF Returned, ListsKept
<1>2. ASSUME NEW t \in Tasks, Failed(t) PROVE Results
  BY <1>a, <1>2 DEF Failed, ListsKept
<1>3. ASSUME NEW t \in Tasks, Stopped(t) PROVE Results
  BY <1>a, <1>3 DEF Stopped, ListsKept
<1>4. ASSUME NEW t \in Tasks, CondSlept(t) PROVE Results
  BY <1>c, <1>4 DEF CondSlept, Lists
<1>5. ASSUME NEW t \in Tasks, WakeEnded(t) PROVE Results
  BY <1>a, <1>5 DEF WakeEnded, WakeEnds
<1>6. ASSUME NEW t \in Tasks, OfferRaised(t) PROVE Results
  BY <1>a, <1>6 DEF OfferRaised, ListsKept
<1>7. ASSUME NEW t \in Tasks, OfferEnded(t) PROVE Results
  BY <1>b, <1>7 DEF OfferEnded
<1>8. ASSUME NEW t \in Tasks, OfferMore(t) PROVE Results
  BY <1>b, <1>8 DEF OfferMore
<1>9. ASSUME NEW t \in Tasks, Excepted(t) PROVE Results
  BY <1>a, <1>9 DEF Excepted
<1>10. ASSUME NEW t \in Tasks, NEW l \in PCs, Turned(t, l) PROVE Results
  BY <1>a, <1>10 DEF Turned, ListsKept
<1>11. ASSUME NEW t \in Tasks, NEW l \in PCs, Moved(t, l) PROVE Results
  BY <1>a, <1>11 DEF Moved, ListsKept
<1>12. ASSUME NEW t \in Tasks, NEW o \in Lists, Slept(t, o) PROVE Results
  BY <1>c, <1>12 DEF Slept
<1>13. ASSUME NEW t \in Tasks, NEW o \in Lists, Emptied(t, o) PROVE Results
  BY <1>a, <1>13 DEF Emptied
<1>14. ASSUME NEW t \in Tasks, NEW o \in Lists, NEW l \in {"next", "cwait", "raise"},
              Roused(t, o, l)
       PROVE  Results
  BY <1>a, <1>14 DEF Roused, ListsKept
<1>15. ASSUME NEW t \in Tasks, NEW i \in 1 .. Len(Source(t)), WakePopped(t, i) PROVE Results
  BY <1>a, <1>15 DEF WakePopped, WakePops
<1>16. ASSUME NEW c \in Cancellers, Cancelled(c) PROVE Results
  BY <1>16, CancelledFuture DEF Results, Leaves, Writes
<1>17. ASSUME NEW c \in Cancellers, NEW t \in Tasks, Aimed(c, t) PROVE Results
  BY <1>a, <1>17 DEF Aimed, ListsKept
<1>18. ASSUME Rested PROVE Results
  BY <1>a, <1>18 DEF Rested, ListsKept
<1> QED
  BY <1>1, <1>2, <1>3, <1>4, <1>5, <1>6, <1>7, <1>8, <1>9, <1>10, <1>11, <1>12, <1>13, <1>14,
     <1>15, <1>16, <1>17, <1>18 DEF Deed

\* What u has in its hands after the step it had before, or it has emptied a list; that of
\* _finished only when all items were done.
HandsOf(u) ==
  \A f \in Content(task'[u].hand) :
    \/ f \in Content(task[u].hand) \/ f \in In("event") \/ f \in In("cond")
    \/ f \in In("finished") /\ unfinished = 0

LEMMA SameHands == ASSUME NEW u, task'[u].hand = task[u].hand PROVE HandsOf(u)
  BY DEF HandsOf

LEMMA WokenKnowStep ==
  ASSUME IInv, Flow', Deed, JoinersKnow, WokenKnow, \A u \in Tasks : HandsOf(u),
         \A u \in Tasks : JoinWaits(u)' /\ task[u].zero => task'[u].zero
  PROVE  WokenKnow'
<1> USE DEF IInv
<1> SUFFICES ASSUME NEW t \in Tasks, JoinWaits(t)',
                    State(Fut(t))' = "result" \/ \E u \in Tasks : Held(u, Fut(t))'
             PROVE  task'[t].zero
  BY DEF WokenKnow
<1>0. Waits(t)' /\ ListOf(t)' = "finished"
  BY DEF JoinWaits, Waits, ListOf
<1>1. \A u \in Tasks : Handed(u)
  BY DeedHanded
<1>2. {"event", "cond", "finished"} \subseteq Lists
  BY DEF Lists, Events
<1>a. ASSUME WaitsAsBefore(t), Fut(t)' = Fut(t) PROVE task'[t].zero
  <2>1. Waits(t) /\ ListOf(t) = "finished"
    BY <1>0, <1>a DEF WaitsAsBefore
  <2>2. JoinWaits(t) /\ Fut(t) \in Futs /\ Exists(Fut(t))
    BY <2>1, LastIsPending DEF ListOf, JoinWaits
  <2> PICK f \in Futs : f = Fut(t)
    BY <2>2
  <2>3. \A p \in Lists : f \in In(p) => p = "finished"
    BY <2>1 DEF Placed, In
  <2>4. ASSUME State(f)' = "result" PROVE task[t].zero
    <3>1. State(f) = "result" \/ \E u \in Tasks : At(u, "offer") /\ task[u].offer = f
      BY <2>2, <2>4, DeedResults DEF Results
    <3> QED
      BY <2>2, <3>1 DEF WokenKnow, Held
  <2>5. ASSUME NEW u \in Tasks, f \in Content(task'[u].hand) PROVE task[t].zero
    <3>1. f \in Content(task[u].hand) \/ unfinished = 0
      BY <1>2, <2>3, <2>5 DEF HandsOf
    <3> QED
      BY <2>2, <3>1 DEF WokenKnow, Held, JoinersKnow, Joins
  <2>6. ASSUME NEW u \in Tasks, task'[u].pc = "offer", task'[u].offer = f PROVE task[t].zero
    <3>1. task'[u].obj \notin Events
      BY <2>6 DEF Flow, FlowAt, Wakes
    <3>2. Held(u, f)
      BY <1>1, <2>3, <2>6, <3>1 DEF Handed, Held, Events
    <3> QED
      BY <2>2, <3>2 DEF WokenKnow
  <2>7. State(Fut(t))' = State(f)' /\ \A u \in Tasks :
          Held(u, Fut(t))' => f \in Content(task'[u].hand) \/ (task'[u].pc = "offer" /\ task'[u].offer = f)
    BY <1>a DEF State, Held, At
  <2> QED
    BY <2>4, <2>5, <2>6, <2>7
<1>3. CASE Steady
  BY <1>3, <1>a DEF Steady, Lasts
<1>4. ASSUME NEW v \in Tasks, NEW o \in Lists, Enters(v, o) PROVE task'[t].zero
  <2>1. Adds(v)
    BY <1>4, QueuesRelist DEF Enters
  <2>2. CASE t # v
    BY <1>4, <1>a, <2>1, <2>2 DEF Enters, Adds
  <2>3. CASE t = v
    <3>1. Fut(t)' = NewFut(t) /\ ~Exists(NewFut(t)) /\ State(Fut(t))' = "pending"
      BY <2>1, <2>3 DEF Adds
    <3>2. /\ \A p \in Lists : NewFut(t) \notin In(p)
          /\ \A u \in Tasks : NewFut(t) \notin Content(task[u].hand)
          /\ \A u \in Tasks : ~(At(u, "offer") /\ task[u].offer = NewFut(t))
      BY <3>1 DEF Known, In
    <3>3. ASSUME NEW u \in Tasks PROVE ~Held(u, Fut(t))'
      <4>1. NewFut(t) \notin Content(task'[u].hand)
        BY <1>1, <1>2, <3>2 DEF Handed, Events
      <4>2. ~(task'[u].pc = "offer" /\ task'[u].offer = NewFut(t))
        BY <1>1, <3>2 DEF Handed
      <4> QED
        BY <3>1, <4>1, <4>2 DEF Held, At
    <3> QED
      BY <3>1, <3>3
  <2> QED
    BY <2>2, <2>3
<1> QED
  BY <1>3, <1>4, DeedKinds DEF Kind

\* A step that changes neither the count nor the event.
LEMMA JoinQuiet ==
  ASSUME IInv, Flow', Deed, JoinInv, NEW t \in Tasks, Frame(t), ZerosKept, HandsOf(t), ~At(t, "clear"),
         Joins(t)' => Joins(t), value'["finished"] = value["finished"], UNCHANGED unfinished,
         faults \subseteq faults'
  PROVE  JoinInv'
<1> SUFFICES ASSUME "stale" \notin faults' PROVE Settled' /\ JoinersKnow' /\ WokenKnow'
  BY DEF JoinInv
<1>0. Settled /\ JoinersKnow /\ WokenKnow
  BY DEF JoinInv
<1>1. \A u \in Tasks : u # t => Same(u)
  BY DEF Frame
<1>2. \A u \in Tasks : At(u, "clear") => At(u, "clear")'
  BY <1>1 DEF Same, At
<1>3. Settled'
  BY <1>0, <1>2 DEF Settled
<1>4. \A u \in Tasks : Joins(u)' => Joins(u)
  BY <1>1 DEF Same, Joins, JoinWaits, Awaiting, At
<1>5. JoinersKnow'
  BY <1>0, <1>4 DEF JoinersKnow, ZerosKept
<1>6. \A u \in Tasks : HandsOf(u)
  BY <1>1, SameHands DEF Same, HandKept
<1>7. WokenKnow'
  BY <1>0, <1>6, WokenKnowStep DEF ZerosKept
<1> QED
  BY <1>3, <1>5, <1>7

\* The forms such a step has.
LEMMA JoinIdle ==
  ASSUME IInv, Flow', Deed, JoinInv, NEW t \in Tasks, ZerosKept, ~At(t, "clear"),
         value'["finished"] = value["finished"], UNCHANGED unfinished, faults \subseteq faults',
         \/ Returns(t) \/ Raises(t) \/ Retakes(t) \/ Stops(t)
         \/ \E l \in {"again", "relock", "cwait"} : Turns(t, l)
         \/ Awaiting(t) /\ \E l \in {"except", "woken", "parked"} : Turns(t, l)
         \/ \E o, l : Rouses(t, o, l)
         \/ \E o : Sleeps(t, o) /\ (o = "finished" => At(t, "joining"))
  PROVE  JoinInv'
<1>1. Frame(t) /\ task'[t].hand = task[t].hand
  BY DEF Returns, Raises, Retakes, Stops, Turns, Rouses, Sleeps, HandKept
<1>2. Joins(t)' => Joins(t)
  BY DEF Returns, Raises, Retakes, Stops, Turns, Rouses, Sleeps, Joins, JoinWaits, Awaiting, At
<1> QED
  BY <1>1, <1>2, SameHands, JoinQuiet

\* A waker that goes on, or is through.
LEMMA JoinWakes ==
  ASSUME IInv, Flow', Deed, JoinInv, NEW t \in Tasks, Wake(t)
  PROVE  JoinInv'
<1> USE DEF IInv
<1>0. /\ UNCHANGED <<value, unfinished, faults>> /\ ~At(t, "clear") /\ ~At(t, "joining")
  BY DEF Wake, At
<1>1. ASSUME NEW i \in 1 .. Len(Source(t)), WakePops(t, i) PROVE JoinInv'
  <2>1. HandsOf(t)
    <3>1. CASE task[t].obj \in Lists
      <4>1. task[t].obj # "hand"
        BY <3>1 DEF Lists, Events
      <4> QED
        BY <1>1, <4>1, SameHands DEF WakePops
    <3>2. CASE task[t].obj = "hand"
      <4>1. /\ task'[t].hand = SubSeq(task[t].hand, i + 1, Len(task[t].hand))
            /\ task[t].hand \in Seq(Futs) /\ i \in 1 .. Len(task[t].hand)
        BY <1>1, <3>2, TaskTyped DEF WakePops, Source, TaskStates, Lists, Events
      <4>2. Content(task'[t].hand) \subseteq Content(task[t].hand)
        <5> PICK s \in Seq(Futs) : s = task[t].hand
          BY <4>1
        <5>1. Content(SubSeq(s, i + 1, Len(s))) = {s[k] : k \in (i + 1) .. Len(s)}
          BY <4>1, DropContent
        <5>2. Content(SubSeq(s, i + 1, Len(s))) \subseteq Content(s)
          BY <4>1, <5>1 DEF Content
        <5> QED
          BY <4>1, <5>2
      <4> QED
        BY <4>2 DEF HandsOf
    <3> QED
      BY <3>1, <3>2, TaskTyped DEF TaskStates
  <2>2. Frame(t) /\ ZerosKept /\ ~Joins(t)'
    BY <1>1 DEF WakePops, Joins, JoinWaits, Awaiting, At
  <2> QED
    BY <1>0, <2>1, <2>2, JoinQuiet
<1>2. CASE WakeEnds(t)
  <2>1. HandsOf(t)
    BY <1>2, SmallContent, SameHands DEF WakeEnds, HandsOf
  <2>2. Frame(t) /\ ZerosKept /\ ~Joins(t)'
    BY <1>0, <1>2 DEF WakeEnds, Ends, Joins, JoinWaits, Awaiting, At, Wake
  <2> QED
    BY <1>0, <2>1, <2>2, JoinQuiet
<1> QED
  BY <1>1, <1>2, WakeDoes

LEMMA JoinOffers ==
  ASSUME IInv, Flow', Deed, JoinInv, NEW t \in Tasks, Offer(t)
  PROVE  JoinInv'
<1> USE DEF IInv
<1>0. UNCHANGED <<value, unfinished>> /\ faults \subseteq faults' /\ ~At(t, "clear")
  BY DEF Offer, At
<1>1. CASE Done(task[t].offer)
  BY <1>0, <1>1, OfferRaises, JoinIdle
<1>2. CASE ~Done(task[t].offer) /\ task[t].left = 1
  <2>1. Frame(t) /\ ZerosKept /\ task'[t].hand = task[t].hand /\ ~Joins(t)'
    BY <1>2, OfferEnds DEF Ends, Joins, JoinWaits, Awaiting, At
  <2> QED
    BY <1>0, <2>1, SameHands, JoinQuiet
<1>3. CASE ~Done(task[t].offer) /\ task[t].left # 1
  <2>1. Frame(t) /\ ZerosKept /\ task'[t].hand = task[t].hand /\ ~Joins(t)'
    BY <1>3, OfferGoesOn DEF Joins, JoinWaits, Awaiting, At
  <2> QED
    BY <1>0, <2>1, SameHands, JoinQuiet
<1> QED
  BY <1>1, <1>2, <1>3

\* Set and notify_all take out a list; _finished is set by the last task_done.
LEMMA JoinEmpties ==
  ASSUME IInv, Flow', Deed, JoinInv, NEW t \in Tasks, NEW o \in {"event", "cond"}, ~At(t, "clear"),
         Empties(t, waiters[o]), ZerosKept,
         value'["finished"] = value["finished"], UNCHANGED unfinished, faults \subseteq faults'
  PROVE  JoinInv'
<1>1. HandsOf(t)
  BY DEF Empties, HandsOf, In
<1>2. Frame(t) /\ ~Joins(t)'
  BY DEF Empties, Joins, JoinWaits, Awaiting, At
<1> QED
  BY <1>1, <1>2, JoinQuiet

LEMMA JoinFinishes ==
  ASSUME IInv, Flow', Deed, JoinInv, NEW t \in Tasks, Finish(t)
  PROVE  JoinInv'
<1> USE DEF IInv, Kept
<1>0. /\ "finished" \in Events /\ task[t].prog # <<>> /\ SetEvent(t, "finished", "next")
      /\ UNCHANGED unfinished /\ faults \subseteq faults' /\ ~At(t, "clear")
      /\ unfinished > 0 => "stale" \in faults'
  BY DEF Finish, SetEvent, Busy, BusyAt, At, Events
<1>1. value' = [value EXCEPT !["finished"] = TRUE] /\ value \in [Events -> BOOLEAN]
  BY <1>0, SetEventDoes DEF TypeOK
<1>2. CASE value["finished"] /\ Returns(t) /\ ZerosKept
  <2>1. value'["finished"] = value["finished"]
    BY <1>0, <1>1, <1>2
  <2> QED
    BY <1>0, <1>2, <2>1, JoinIdle
<1>3. CASE Empties(t, waiters["finished"]) /\ ZerosKept
  <2> SUFFICES ASSUME "stale" \notin faults' PROVE Settled' /\ JoinersKnow' /\ WokenKnow'
    BY DEF JoinInv
  <2>0. Settled /\ JoinersKnow /\ WokenKnow /\ unfinished = 0
    BY <1>0 DEF JoinInv, TypeOK
  <2>1. \A u \in Tasks : u # t => Same(u)
    BY <1>3 DEF Empties, Frame
  <2>2. \A u \in Tasks : HandsOf(u)
    BY <1>3, <2>0, <2>1, SameHands DEF Empties, HandsOf, In, Same, HandKept
  <2>3. \A u \in Tasks : Joins(u)' => Joins(u)
    BY <1>3, <2>1 DEF Empties, Same, Joins, JoinWaits, Awaiting, At
  <2>4. Settled' /\ JoinersKnow'
    BY <1>0, <1>3, <2>0, <2>3 DEF Settled, JoinersKnow, ZerosKept
  <2> QED
    BY <1>3, <2>0, <2>2, <2>4, WokenKnowStep DEF ZerosKept
<1> QED
  BY <1>0, <1>2, <1>3, SetEventDoes

\* _put_locked counts the item before it clears _finished.
LEMMA JoinPuts ==
  ASSUME IInv, Flow', Deed, JoinInv, NEW t \in Tasks, PutLocked(t), UNCHANGED faults
  PROVE  JoinInv'
<1> USE DEF IInv, Kept
<1> SUFFICES ASSUME "stale" \notin faults PROVE Settled' /\ JoinersKnow' /\ WokenKnow'
  BY DEF JoinInv
<1>0. Settled /\ JoinersKnow /\ WokenKnow
  BY DEF JoinInv
<1>1. Turns(t, "clear") /\ ZerosKept /\ UNCHANGED value /\ unfinished' = unfinished + 1
  BY PutLockedDoes DEF PutLocked
<1>2. \A u \in Tasks : u # t => Same(u)
  BY <1>1 DEF Turns, Frame
<1>3. Settled'
  BY <1>1 DEF Settled, Turns, At
<1>4. \A u \in Tasks : Joins(u)' => Joins(u)
  BY <1>1, <1>2 DEF Turns, Same, Joins, JoinWaits, Awaiting, At
<1>5. unfinished' # 0
  BY <1>1 DEF TypeOK
<1>6. JoinersKnow'
  BY <1>0, <1>1, <1>4, <1>5 DEF JoinersKnow, ZerosKept
<1>7. \A u \in Tasks : HandsOf(u)
  BY <1>1, <1>2, SameHands DEF Turns, Same, HandKept
<1> QED
  BY <1>0, <1>1, <1>3, <1>6, <1>7, WokenKnowStep DEF ZerosKept

LEMMA JoinClears ==
  ASSUME IInv, Flow', Deed, JoinInv, NEW t \in Tasks, PutClear(t)
  PROVE  JoinInv'
<1> USE DEF IInv, Kept
<1> SUFFICES ASSUME "stale" \notin faults PROVE Settled' /\ JoinersKnow' /\ WokenKnow'
  BY DEF JoinInv, PutClear
<1>0. Settled /\ JoinersKnow /\ WokenKnow
  BY DEF JoinInv
<1>1. Rouses(t, "getters", "next") /\ ZerosKept /\ UNCHANGED unfinished /\ ~value'["finished"]
  BY PutClearDoes DEF PutClear, TypeOK, Events
<1>2. \A u \in Tasks : u # t => Same(u)
  BY <1>1 DEF Rouses, Frame
<1>4. \A u \in Tasks : Joins(u)' => Joins(u)
  BY <1>1, <1>2 DEF Rouses, Same, Joins, JoinWaits, Awaiting, At
<1>6. Settled' /\ JoinersKnow'
  BY <1>0, <1>1, <1>4 DEF Settled, JoinersKnow, ZerosKept
<1>7. \A u \in Tasks : HandsOf(u)
  BY <1>1, <1>2, SameHands DEF Rouses, Same, HandKept
<1> QED
  BY <1>0, <1>1, <1>6, <1>7, WokenKnowStep DEF ZerosKept

\* task_done takes the mutex of the queue, so no put is between its count and its clear; at
\* zero all that are in join see it.
LEMMA JoinDones ==
  ASSUME IInv, Flow', Deed, JoinInv, NEW t \in Tasks, TaskDone(t)
  PROVE  JoinInv'
<1> USE DEF IInv
<1>0. /\ UNCHANGED <<value, faults>> /\ Free("queue") /\ ~At(t, "clear")
  BY DEF TaskDone, Calls, At
<1>1. CASE unfinished = 0
  BY <1>0, <1>1, TaskDoneDoes, JoinIdle
<1>2. CASE unfinished # 0
  <2> SUFFICES ASSUME "stale" \notin faults PROVE Settled' /\ JoinersKnow' /\ WokenKnow'
    BY <1>0 DEF JoinInv
  <2>0. Settled /\ JoinersKnow /\ WokenKnow
    BY DEF JoinInv
  <2>1. /\ unfinished' = unfinished - 1 /\ (Turns(t, "finish") \/ Returns(t))
        /\ \A u \in Tasks : task'[u].zero = (task[u].zero \/ unfinished = 1)
    BY <1>2, TaskDoneDoes
  <2>2. \A u \in Tasks : u # t => Same(u)
    BY <2>1 DEF Turns, Returns, Frame
  <2>3. \A u \in Tasks : ~At(u, "clear")
    BY <1>0, NotFree DEF Flow, FlowAt
  <2>4. ~value["finished"]
    BY <1>2, <2>0, <2>3 DEF Settled
  <2>5. \A u \in Tasks : Joins(u)' => Joins(u)
    BY <2>1, <2>2 DEF Turns, Returns, Same, Joins, JoinWaits, Awaiting, At
  <2>6. unfinished' = 0 => unfinished = 1
    BY <2>1 DEF TypeOK
  <2>7. Settled' /\ JoinersKnow'
    BY <1>0, <2>1, <2>4, <2>5, <2>6 DEF Settled, JoinersKnow
  <2>8. \A u \in Tasks : HandsOf(u)
    BY <2>1, <2>2, SameHands DEF Turns, Returns, Same, HandKept
  <2> QED
    BY <2>0, <2>1, <2>7, <2>8, WokenKnowStep
<1> QED
  BY <1>1, <1>2

\* join: an event that is set with items unfinished is about to be cleared.
LEMMA JoinBegins ==
  ASSUME IInv, Flow', Deed, JoinInv, NEW t \in Tasks, Join(t)
  PROVE  JoinInv'
<1> USE DEF IInv
<1>0. UNCHANGED <<value, unfinished, faults>> /\ ~At(t, "clear")
  BY DEF Join, objVars, Calls, At
<1> SUFFICES ASSUME "stale" \notin faults PROVE Settled' /\ JoinersKnow' /\ WokenKnow'
  BY <1>0 DEF JoinInv
<1>1. Settled /\ JoinersKnow /\ WokenKnow
  BY DEF JoinInv
<1>2. /\ Turns(t, "joining") \/ Returns(t)
      /\ \A u \in Tasks : u # t => task'[u].zero = task[u].zero
      /\ task'[t].zero = (unfinished = 0 \/ \E u \in Tasks : At(u, "clear"))
  BY JoinDoes
<1>3. \A u \in Tasks : u # t => Same(u)
  BY <1>2 DEF Turns, Returns, Frame
<1>4. Settled'
  BY <1>0, <1>1, <1>3 DEF Settled, Same, At
<1>5. \A u \in Tasks : u # t /\ Joins(u)' => Joins(u)
  BY <1>3 DEF Same, Joins, JoinWaits, Awaiting, At
<1>6. JoinersKnow'
  BY <1>0, <1>1, <1>2, <1>5 DEF JoinersKnow, Settled
<1>7. ~JoinWaits(t)'
  BY <1>2 DEF Turns, Returns, JoinWaits, Awaiting
<1>8. \A u \in Tasks : HandsOf(u)
  BY <1>2, <1>3, SameHands DEF Turns, Returns, Same, HandKept
<1> QED
  BY <1>1, <1>2, <1>4, <1>6, <1>7, <1>8, WokenKnowStep

\* The steps of the cancellers.
LEMMA JoinStands ==
  ASSUME IInv, Flow', Deed, JoinInv, Idles, UNCHANGED <<value, unfinished, faults>>
  PROVE  JoinInv'
<1> SUFFICES ASSUME "stale" \notin faults PROVE Settled' /\ JoinersKnow' /\ WokenKnow'
  BY DEF JoinInv
<1>0. Settled /\ JoinersKnow /\ WokenKnow
  BY DEF JoinInv
<1>1. \A u \in Tasks : Same(u) /\ task'[u].zero = task[u].zero
  BY DEF Idles, ZerosKept
<1>2. Settled' /\ JoinersKnow'
  BY <1>0, <1>1 DEF Settled, JoinersKnow, Same, Joins, JoinWaits, Awaiting, At
<1>3. \A u \in Tasks : HandsOf(u)
  BY <1>1, SameHands DEF Same, HandKept
<1> QED
  BY <1>0, <1>1, <1>2, <1>3, WokenKnowStep

LEMMA JoinStep ==
  ASSUME IInv, JoinInv, [Next]_vars
  PROVE  JoinInv'
<1> USE DEF Kept
<1>0. Flow' /\ Deed /\ TypeOK /\ Busy /\ Flow
  BY IInvStep DEF IInv
<1>e. /\ "event" \in Events /\ "finished" \in Events /\ value \in [Events -> BOOLEAN]
      /\ "cond" # "finished" /\ "lock" # "finished" /\ "event" # "finished"
  BY <1>0 DEF Events, TypeOK
<1>a. ASSUME NEW t \in Tasks, Acquire(t), task[t].prog # <<>>, ~At(t, "clear") PROVE JoinInv'
  <2>1. UNCHANGED <<value, unfinished, faults>>
    BY <1>a DEF Acquire
  <2>2. ZerosKept /\ (Returns(t) \/ Raises(t) \/ Sleeps(t, "lock"))
    BY <1>0, <1>a, AcquireDoes
  <2> QED
    BY <1>0, <1>a, <1>e, <2>1, <2>2, JoinIdle
<1>b. ASSUME NEW t \in Tasks, NEW l \in {"next", "raise", "cwait"}, Release(t, l), ~At(t, "clear")
      PROVE  JoinInv'
  <2>1. UNCHANGED <<value, unfinished>> /\ faults \subseteq faults'
    BY <1>b DEF Release
  <2>2. ZerosKept /\ Rouses(t, "lock", l)
    BY <1>0, <1>b, ReleaseDoes
  <2> QED
    BY <1>0, <1>b, <2>1, <2>2, JoinIdle
<1>c. ASSUME NEW t \in Tasks, NEW e \in Events, WaitEvent(t, e), task[t].prog # <<>>,
             ~At(t, "clear"), e = "finished" => At(t, "joining")
      PROVE  JoinInv'
  <2>1. UNCHANGED <<value, unfinished, faults>>
    BY <1>c DEF WaitEvent
  <2>2. ZerosKept /\ (Returns(t) \/ Sleeps(t, e))
    BY <1>0, <1>c, WaitEventDoes
  <2> QED
    BY <1>0, <1>c, <2>1, <2>2, JoinIdle
<1>d. ASSUME NEW t \in Tasks, GetLocked(t), UNCHANGED faults, ~At(t, "clear") PROVE JoinInv'
  <2>1. UNCHANGED <<value, unfinished>> /\ Rouses(t, "putters", "next") /\ ZerosKept
    BY <1>0, <1>d, GetLockedDoes DEF GetLocked
  <2> QED
    BY <1>0, <1>d, <2>1, JoinIdle
<1>f. ASSUME NEW t \in Tasks, NEW op, Calls(t, op) PROVE task[t].prog # <<>> /\ ~At(t, "clear")
  BY <1>f DEF Calls, At
<1>1. ASSUME NEW t \in Tasks, Set(t) PROVE JoinInv'
  <2>1. /\ task[t].prog # <<>> /\ ~At(t, "clear") /\ SetEvent(t, "event", "next")
        /\ UNCHANGED <<unfinished, faults>>
    BY <1>1, <1>f DEF Set, SetEvent
  <2>2. value' = [value EXCEPT !["event"] = TRUE]
    BY <1>0, <1>e, <2>1, SetEventDoes
  <2>3. value'["finished"] = value["finished"]
    BY <1>e, <2>2
  <2>4. ZerosKept /\ (Returns(t) \/ Empties(t, waiters["event"]))
    BY <1>0, <1>e, <2>1, SetEventDoes
  <2> QED
    BY <1>0, <2>1, <2>3, <2>4, JoinIdle, JoinEmpties
<1>2. ASSUME NEW t \in Tasks, Clear(t) PROVE JoinInv'
  <2>1. /\ task[t].prog # <<>> /\ ~At(t, "clear") /\ Return(t) /\ UNCHANGED <<unfinished, faults>>
        /\ value' = [value EXCEPT !["event"] = FALSE]
    BY <1>2, <1>f DEF Clear
  <2>3. value'["finished"] = value["finished"]
    BY <1>e, <2>1
  <2> QED
    BY <1>0, <2>1, <2>3, ReturnDoes, JoinIdle
<1>3. ASSUME NEW t \in Tasks, Wait(t) PROVE JoinInv'
  BY <1>3, <1>c, <1>e, <1>f DEF Wait
<1>4. ASSUME NEW t \in Tasks, Lock(t) PROVE JoinInv'
  BY <1>4, <1>a, <1>f DEF Lock
<1>5. ASSUME NEW t \in Tasks, Unlock(t) PROVE JoinInv'
  BY <1>5, <1>b, <1>f DEF Unlock
<1>6. ASSUME NEW t \in Tasks, CondWait(t) PROVE JoinInv'
  <2>1. /\ Turns(t, "cwait") /\ ZerosKept /\ UNCHANGED <<value, unfinished, faults>>
        /\ ~At(t, "clear")
    BY <1>0, <1>6, <1>f, CondWaitDoes DEF CondWait
  <2> QED
    BY <1>0, <2>1, JoinIdle
<1>7. ASSUME NEW t \in Tasks, Notify(t) PROVE JoinInv'
  <2>1. /\ Rouses(t, "cond", "next") /\ ZerosKept /\ UNCHANGED <<value, unfinished, faults>>
        /\ ~At(t, "clear")
    BY <1>0, <1>7, <1>f, NotifyDoes DEF Notify
  <2> QED
    BY <1>0, <2>1, JoinIdle
<1>8. ASSUME NEW t \in Tasks, NotifyAll(t) PROVE JoinInv'
  <2>1. /\ Empties(t, waiters["cond"]) /\ ZerosKept /\ UNCHANGED <<value, unfinished, faults>>
        /\ ~At(t, "clear")
    BY <1>0, <1>8, <1>f, NotifyAllDoes DEF NotifyAll
  <2> QED
    BY <1>0, <2>1, JoinEmpties
<1>9. ASSUME NEW t \in Tasks, Put(t) PROVE JoinInv'
  <2>1. UNCHANGED faults /\ ~At(t, "clear") /\ "putters" # "finished"
    BY <1>9, <1>f DEF Put
  <2>2. CASE Sleeps(t, "putters") /\ ZerosKept /\ UNCHANGED <<value, unfinished>>
    BY <1>0, <2>1, <2>2, JoinIdle
  <2> QED
    BY <1>0, <1>9, <2>1, <2>2, PutDoes, JoinPuts
<1>10. ASSUME NEW t \in Tasks, PutNowait(t) PROVE JoinInv'
  <2>1. UNCHANGED faults /\ ~At(t, "clear")
    BY <1>10, <1>f DEF PutNowait
  <2>2. CASE Returns(t) /\ ZerosKept /\ UNCHANGED <<value, unfinished>>
    BY <1>0, <2>1, <2>2, JoinIdle
  <2> QED
    BY <1>0, <1>10, <2>1, <2>2, PutNowaitDoes, JoinPuts
<1>11. ASSUME NEW t \in Tasks, Get(t) PROVE JoinInv'
  <2>1. UNCHANGED faults /\ ~At(t, "clear") /\ "getters" # "finished"
    BY <1>11, <1>f DEF Get
  <2>2. CASE Sleeps(t, "getters") /\ ZerosKept /\ UNCHANGED <<value, unfinished>>
    BY <1>0, <2>1, <2>2, JoinIdle
  <2> QED
    BY <1>0, <1>11, <1>d, <2>1, <2>2, GetDoes
<1>12. ASSUME NEW t \in Tasks, GetNowait(t) PROVE JoinInv'
  <2>1. UNCHANGED faults /\ ~At(t, "clear")
    BY <1>12, <1>f DEF GetNowait
  <2>2. CASE Returns(t) /\ ZerosKept /\ UNCHANGED <<value, unfinished>>
    BY <1>0, <2>1, <2>2, JoinIdle
  <2> QED
    BY <1>0, <1>12, <1>d, <2>1, <2>2, GetNowaitDoes
<1>13. ASSUME NEW t \in Tasks, Arm(t) PROVE JoinInv'
  <2>1. UNCHANGED <<value, unfinished, faults>> /\ Awaiting(t) /\ ~At(t, "clear")
    BY <1>13 DEF Arm, objVars, Awaiting, At
  <2>2. ZerosKept /\ \E l \in {"except", "woken", "parked"} : Turns(t, l)
    BY <1>0, <1>13, ArmDoes
  <2> QED
    BY <1>0, <2>1, <2>2, JoinIdle
<1>14. ASSUME NEW t \in Tasks, Resume(t) PROVE JoinInv'
  <2>1. UNCHANGED <<value, unfinished, faults>> /\ Awaiting(t) /\ ~At(t, "clear")
    BY <1>14 DEF Resume, objVars, Awaiting, At
  <2>2. ZerosKept /\ \E l \in {"except", "woken", "parked"} : Turns(t, l)
    BY <1>0, <1>14, ResumeDoes
  <2> QED
    BY <1>0, <2>1, <2>2, JoinIdle
<1>15. ASSUME NEW t \in Tasks, Woken(t) PROVE JoinInv'
  <2>1. UNCHANGED <<value, unfinished, faults>> /\ At(t, "woken") /\ Awaiting(t) /\ ~At(t, "clear")
    BY <1>15 DEF Woken, objVars, Awaiting, At
  <2>2. task[t].obj # "hand"
    BY <1>0, <2>1 DEF Flow, FlowAt
  <2>3. ZerosKept /\ (Returns(t) \/ Raises(t) \/ \E l \in {"again", "relock"} : Turns(t, l))
    BY <1>0, <1>15, <2>2, WokenDoes
  <2> QED
    BY <1>0, <2>1, <2>3, JoinIdle
<1>16. ASSUME NEW t \in Tasks, Except(t) PROVE JoinInv'
  <2>1. UNCHANGED <<value, unfinished>> /\ faults \subseteq faults' /\ ~At(t, "clear")
    BY <1>16 DEF Except, At
  <2>2. ZerosKept /\ (Retakes(t) \/ Raises(t) \/ Rouses(t, "lock", "raise"))
    BY <1>0, <1>16, ExceptDoes DEF Retakes
  <2> QED
    BY <1>0, <2>1, <2>2, JoinIdle
<1>17. ASSUME NEW t \in Tasks, Relock(t) PROVE JoinInv'
  <2>1. task[t].prog # <<>> /\ Acquire(t) /\ ~At(t, "clear")
    BY <1>0, <1>17 DEF Relock, Busy, BusyAt, At
  <2> QED
    BY <2>1, <1>a
<1>18. ASSUME NEW t \in Tasks, CondRelease(t) PROVE JoinInv'
  BY <1>18, <1>b DEF CondRelease, At
<1>19. ASSUME NEW t \in Tasks, Raise(t) PROVE JoinInv'
  <2>0. ~At(t, "clear")
    BY <1>19 DEF Raise, At
  <2>1. CASE Stops(t) /\ UNCHANGED <<objVars, maxsize, fst, aim, faults>>
    BY <1>0, <2>0, <2>1, JoinIdle DEF Stops, objVars
  <2> QED
    BY <1>0, <1>19, <1>b, <2>0, <2>1, RaiseDoes
<1>20. ASSUME NEW t \in Tasks, JoinWait(t) PROVE JoinInv'
  <2>1. task[t].prog # <<>> /\ WaitEvent(t, "finished") /\ At(t, "joining") /\ ~At(t, "clear")
    BY <1>0, <1>20 DEF JoinWait, Busy, BusyAt, At
  <2> QED
    BY <1>c, <1>e, <2>1
<1>21. ASSUME NEW t \in Tasks, OtherAwait(t) PROVE JoinInv'
  <2>1. UNCHANGED <<value, unfinished, faults>> /\ ~At(t, "clear")
    BY <1>21 DEF OtherAwait, objVars, At
  <2> QED
    BY <1>0, <1>21, <2>1, OtherAwaitDoes, JoinIdle
<1>22. ASSUME NEW c \in Cancellers, NEW t \in Tasks, Cancel(c, t) PROVE JoinInv'
  <2>1. UNCHANGED <<value, unfinished, faults>>
    BY <1>22 DEF Cancel, objVars
  <2> QED
    BY <1>0, <1>22, <2>1, CancelDoes, JoinStands
<1>23. ASSUME NEW c \in Cancellers, CancelFuture(c) PROVE JoinInv'
  <2>1. UNCHANGED <<value, unfinished, faults>>
    BY <1>23 DEF CancelFuture, objVars
  <2> QED
    BY <1>0, <1>23, <2>1, CancelFutureDoes, JoinStands
<1>24. CASE UNCHANGED vars
  <2>1. UNCHANGED <<task, value, unfinished, faults>>
    BY <1>24 DEF vars, objVars
  <2> QED
    BY <1>0, <2>1, TasksKept, JoinStands
<1>25. ASSUME NEW t \in Tasks, TaskStep(t) PROVE JoinInv'
  BY <1>0, <1>1, <1>2, <1>3, <1>4, <1>5, <1>6, <1>7, <1>8, <1>9, <1>10, <1>11, <1>12, <1>13, <1>14,
     <1>15, <1>16, <1>17, <1>18, <1>19, <1>20, <1>25, JoinWakes, JoinOffers, JoinFinishes,
     JoinClears, JoinDones, JoinBegins DEF TaskStep, Call
<1> QED
  BY <1>21, <1>22, <1>23, <1>24, <1>25 DEF Next, Rest

\* A step of a task touches the others' records only in _must_cancel and the count they see.
LEMMA OneMoves ==
  ASSUME IInv, NEW t \in Tasks, TaskStep(t) \/ OtherAwait(t)
  PROVE  Frame(t)
<1> USE DEF IInv, Returns, Raises, Turns, Rouses, Sleeps, Empties, Retakes, Stops, Ends
<1>0. Events \subseteq Lists /\ "event" \in Events /\ "finished" \in Events
  BY DEF Lists, Events
<1>a. task[t].pc \in {"relock", "finish", "joining"} => task[t].prog # <<>>
  BY DEF Busy, BusyAt
<1>1. CASE Call(t)
  <2>1. \A op : Calls(t, op) => task[t].prog # <<>>
    BY DEF Calls
  <2>2. CASE Set(t) \/ Clear(t) \/ Wait(t)
    BY <1>0, <2>1, <2>2, SetEventDoes, ReturnDoes, WaitEventDoes DEF Set, Clear, Wait
  <2>3. CASE Lock(t) \/ Unlock(t) \/ CondWait(t) \/ Notify(t) \/ NotifyAll(t)
    BY <2>1, <2>3, AcquireDoes, ReleaseDoes, CondWaitDoes, NotifyDoes, NotifyAllDoes
       DEF Lock, Unlock
  <2>4. CASE Put(t) \/ PutNowait(t)
    BY <2>4, PutDoes, PutNowaitDoes, PutLockedDoes
  <2>5. CASE Get(t) \/ GetNowait(t)
    BY <2>5, GetDoes, GetNowaitDoes, GetLockedDoes
  <2>6. CASE TaskDone(t) \/ Join(t)
    BY <2>6, TaskDoneDoes, JoinDoes
  <2> QED
    BY <1>1, <2>2, <2>3, <2>4, <2>5, <2>6 DEF Call
<1>2. CASE Wake(t)
  BY <1>2, WakeDoes DEF WakeEnds, WakePops
<1>3. CASE Offer(t)
  BY <1>3, OfferRaises, OfferEnds, OfferGoesOn
<1>4. CASE Arm(t) \/ Resume(t)
  BY <1>4, ArmDoes, ResumeDoes
<1>5. CASE Woken(t)
  <2>1. task[t].obj # "hand"
    BY <1>5 DEF Woken, Flow, FlowAt, Awaiting, At
  <2> QED
    BY <1>5, <2>1, WokenDoes
<1>6. CASE Except(t)
  BY <1>6, ExceptDoes
<1>7. CASE Relock(t) \/ CondRelease(t)
  BY <1>7, <1>a, AcquireDoes, ReleaseDoes DEF Relock, CondRelease, At
<1>8. CASE Raise(t)
  BY <1>8, RaiseDoes, ReleaseDoes
<1>9. CASE PutClear(t)
  BY <1>9, PutClearDoes
<1>10. CASE Finish(t) \/ JoinWait(t)
  BY <1>0, <1>10, <1>a, SetEventDoes, WaitEventDoes DEF Finish, JoinWait, At
<1>11. CASE OtherAwait(t)
  BY <1>11, OtherAwaitDoes
<1> QED
  BY <1>1, <1>2, <1>3, <1>4, <1>5, <1>6, <1>7, <1>8, <1>9, <1>10, <1>11 DEF TaskStep

\* A join that returns.
JoinReturns(t) == HeadIs(t, "join") /\ task'[t].pc = "run" /\ task'[t].prog # task[t].prog

LEMMA ReturnKnows ==
  ASSUME IInv, JoinInv, "stale" \notin faults, NEW t \in Tasks, JoinReturns(t),
         TaskStep(t) \/ OtherAwait(t)
  PROVE  task'[t].zero
<1> USE DEF IInv, Kept
<1>0. JoinersKnow /\ WokenKnow
  BY DEF JoinInv
<1>1. /\ "finished" \in Events /\ task[t].prog # <<>>
      /\ \A op : Calls(t, op) => op = "join" /\ task[t].pc \in {"run", "again"}
  BY DEF JoinReturns, HeadIs, Calls, Events
<1>2. \/ task[t].pc \in {"run", "joining", "raise", "end"}
      \/ Awaiting(t) /\ task[t].obj = "finished"
      \/ Wakes(t) /\ task[t].ret = "raise"
  BY DEF JoinReturns, Heads, HeadsAt
<1>3. CASE Join(t)
  <2>1. unfinished > 0 => task'[t].pc = "joining"
    BY <1>3, JoinDoes DEF Turns
  <2>2. unfinished = 0
    BY <2>1 DEF JoinReturns, TypeOK
  <2> QED
    BY <1>3, <2>2, JoinDoes
<1>4. CASE JoinWait(t)
  <2>1. At(t, "joining") /\ WaitEvent(t, "finished")
    BY <1>4 DEF JoinWait
  <2>2. value["finished"] /\ ZerosKept
    BY <1>1, <2>1, WaitEventDoes DEF Sleeps, JoinReturns
  <2> QED
    BY <1>0, <2>1, <2>2 DEF JoinersKnow, Joins, ZerosKept
<1>5. CASE Woken(t)
  <2>1. At(t, "woken") /\ Awaiting(t) /\ task[t].obj = "finished" /\ State(Fut(t)) = "result"
    BY <1>2, <1>5 DEF Woken, At, Awaiting, Wakes, Flow, FlowAt
  <2>2. ZerosKept
    BY <1>5, <2>1, WokenDoes
  <2> QED
    BY <1>0, <2>1, <2>2 DEF WokenKnow, JoinWaits, ZerosKept
<1>6. CASE Wake(t) \/ Offer(t)
  <2>1. task[t].ret = "raise" /\ task[t].pc \in {"wake", "offer"}
    BY <1>2, <1>6 DEF Wake, Offer, At, Awaiting
  <2>2. task'[t].pc # "run"
    BY <1>6, <2>1, WakeDoes, OfferRaises, OfferEnds, OfferGoesOn
       DEF WakeEnds, WakePops, Ends, Raises
  <2> QED
    BY <2>2 DEF JoinReturns
<1>7. CASE Arm(t) \/ Resume(t) \/ Except(t)
  <2>1. task'[t].pc # "run"
    BY <1>7, ArmDoes, ResumeDoes, ExceptDoes DEF Turns, Retakes, Rouses, Raises
  <2> QED
    BY <2>1 DEF JoinReturns
<1>8. CASE Raise(t) \/ OtherAwait(t)
  <2>1. task'[t].pc # "run"
    BY <1>8, RaiseDoes, ReleaseDoes, OtherAwaitDoes DEF Rouses, Raises, Stops
  <2> QED
    BY <2>1 DEF JoinReturns
<1>9. ~(Relock(t) \/ CondRelease(t) \/ PutClear(t) \/ Finish(t))
  BY <1>2 DEF Relock, CondRelease, PutClear, Finish, At, Awaiting, Wakes
<1>10. Call(t) => Join(t)
  BY <1>1 DEF Call, Set, Clear, Wait, Lock, Unlock, CondWait, Notify, NotifyAll, Put, PutNowait,
              Get, GetNowait, TaskDone
<1> QED
  BY <1>3, <1>4, <1>5, <1>6, <1>7, <1>8, <1>9, <1>10 DEF TaskStep

\* Queue.join: it returns only if at some moment since its call every item put had been
\* done, unless a task_done has set _finished after a later put cleared it.
THEOREM JoinsAreNotEarly == Spec => JoinNotEarly
<1> DEFINE ReturnsKnow == \A t \in Tasks : JoinReturns(t) => task'[t].zero \/ "stale" \in faults
<1>1. Init => JoinInv
  <2> SUFFICES ASSUME Init PROVE JoinInv
    OBVIOUS
  <2>1. PICK a \in Apps : task = [t \in Tasks |-> Start(a.prog[t])]
    BY DEF Init
  <2>2. \A t \in Tasks : task[t].pc = "run"
    BY <2>1 DEF Start
  <2> QED
    BY <2>2 DEF Init, JoinInv, Settled, JoinersKnow, WokenKnow, Joins, JoinWaits, Awaiting, At
<1>2. IInv /\ JoinInv /\ [Next]_vars => JoinInv'
  BY JoinStep
<1>3. IInv /\ JoinInv /\ [Next]_vars => [ReturnsKnow]_vars
  <2> SUFFICES ASSUME IInv, JoinInv, Next, NEW t \in Tasks, JoinReturns(t), "stale" \notin faults
               PROVE  task'[t].zero
    OBVIOUS
  <2>1. ASSUME NEW u \in Tasks, TaskStep(u) \/ OtherAwait(u) PROVE task'[t].zero
    <3>1. CASE u = t
      BY <2>1, <3>1, ReturnKnows
    <3>2. CASE u # t
      <4>1. Same(t)
        BY <2>1, <3>2, OneMoves DEF Frame
      <4> QED
        BY <4>1 DEF Same, CallKept, JoinReturns
    <3> QED
      BY <3>1, <3>2
  <2>2. CASE Idles
    BY <2>2 DEF Idles, Same, CallKept, JoinReturns
  <2>3. ASSUME NEW c \in Cancellers, NEW u \in Tasks, Cancel(c, u) PROVE Idles
    BY <2>3, CancelDoes DEF IInv
  <2>4. ASSUME NEW c \in Cancellers, CancelFuture(c) PROVE Idles
    BY <2>4, CancelFutureDoes DEF IInv
  <2>5. CASE Rest
    BY <2>5, <2>2, TasksKept DEF Rest, vars, IInv
  <2> QED
    BY <2>1, <2>2, <2>3, <2>4, <2>5 DEF Next
<1>4. [ReturnsKnow]_vars => [\A t \in Tasks :
        (/\ task[t].prog # <<>> /\ Head(task[t].prog) = "join"
         /\ task'[t].pc = "run" /\ task'[t].prog # task[t].prog)
          => task'[t].zero \/ "stale" \in faults]_vars
  BY DEF JoinReturns, HeadIs
<1> QED
  BY <1>1, <1>2, <1>3, <1>4, IInvHolds, PTL DEF Spec, JoinNotEarly

-----------------------------------------------------------------------------
\* The wakes of the queue reach a waiter: a pending future in its lists is waited for.

\* A get or put whose future is pending goes on waiting for it, unless its handler runs.
LEMMA WaitedStays ==
  ASSUME IInv, Deed, NEW f \in Futs, NEW o \in {"getters", "putters"}, Exists(f), Waited(f, o),
         Excepted(f[1]) => f # Fut(f[1])
  PROVE  Waited(f, o)'
<1> USE DEF IInv
<1> SUFFICES ASSUME Pending(f)' PROVE (f = Fut(f[1]) /\ Awaiting(f[1]) /\ task[f[1]].obj = o)'
  BY DEF Waited
<1>p. Pending(f)
  <2>1. CASE Steady
    BY <2>1 DEF Steady, Lasts
  <2>2. ASSUME NEW v \in Tasks, NEW p \in Lists, Enters(v, p) PROVE Pending(f)
    <3>1. Adds(v)
      BY <2>2, QueuesRelist DEF Enters
    <3> QED
      BY <3>1 DEF Adds, Pending
  <2> QED
    BY <2>1, <2>2, DeedKinds DEF Kind
<1> PICK w \in Tasks : w = f[1]
  BY DEF Futs
<1>w. /\ f = Fut(w) /\ Awaiting(w) /\ task[w].obj = o /\ ~Excepted(w) /\ fst[w] # <<>>
      /\ task[w].pc \in {"arm", "parked", "except"}
  <2>1. f = Fut(w) /\ Awaiting(w) /\ task[w].obj = o
    BY <1>p DEF Waited
  <2>2. ~At(w, "woken")
    BY <1>p, <2>1 DEF Flow, FlowAt, Pending
  <2> QED
    BY <2>1, <2>2 DEF Flow, FlowAt, Waits, Awaiting, At
<1>a. ASSUME Standing(w) PROVE (f = Fut(w) /\ Awaiting(w) /\ task[w].obj = o)'
  BY <1>a, <1>w, StandingWaits DEF Standing, Same, FutureStays
<1>b. ASSUME NEW t \in Tasks, Acts(t), t # w PROVE (f = Fut(w) /\ Awaiting(w) /\ task[w].obj = o)'
  BY <1>a, <1>b, OthersStand
<1>c. ASSUME Waves PROVE (f = Fut(w) /\ Awaiting(w) /\ task[w].obj = o)'
  BY <1>a, <1>c, AllStand
<1> DEFINE Goal == (f = Fut(w) /\ Awaiting(w) /\ task[w].obj = o)'
<1>d. f[1] = w
  OBVIOUS
<1> USE DeedFrames
<1> HIDE DEF Goal
<1>1. ASSUME NEW t \in Tasks, Returned(t) PROVE Goal
  <2>1. CASE t = w
    BY <1>w, <1>1, <2>1 DEF Returned, At
  <2> QED
    BY <1>1, <1>b, <2>1 DEF Goal
<1>2. ASSUME NEW t \in Tasks, Failed(t) PROVE Goal
  <2>1. CASE t = w
    BY <1>w, <1>2, <2>1 DEF Failed, At
  <2> QED
    BY <1>2, <1>b, <2>1 DEF Goal
<1>3. ASSUME NEW t \in Tasks, Stopped(t) PROVE Goal
  <2>1. CASE t = w
    BY <1>w, <1>3, <2>1 DEF Stopped, At
  <2> QED
    BY <1>3, <1>b, <2>1 DEF Goal
<1>4. ASSUME NEW t \in Tasks, CondSlept(t) PROVE Goal
  <2>1. CASE t = w
    BY <1>w, <1>4, <2>1 DEF CondSlept, InCall, At
  <2> QED
    BY <1>4, <1>b, <2>1 DEF Goal
<1>5. ASSUME NEW t \in Tasks, WakeEnded(t) PROVE Goal
  <2>1. CASE t = w
    BY <1>w, <1>5, <2>1 DEF WakeEnded, WakeEnds, At
  <2> QED
    BY <1>5, <1>b, <2>1 DEF Goal
<1>6. ASSUME NEW t \in Tasks, OfferRaised(t) PROVE Goal
  <2>1. CASE t = w
    BY <1>w, <1>6, <2>1 DEF OfferRaised, At
  <2> QED
    BY <1>6, <1>b, <2>1 DEF Goal
<1>7. ASSUME NEW t \in Tasks, OfferEnded(t) PROVE Goal
  <2>1. CASE t = w
    BY <1>w, <1>7, <2>1 DEF OfferEnded, At
  <2> QED
    BY <1>7, <1>b, <2>1 DEF Goal
<1>8. ASSUME NEW t \in Tasks, OfferMore(t) PROVE Goal
  <2>1. CASE t = w
    BY <1>w, <1>8, <2>1 DEF OfferMore, At
  <2> QED
    BY <1>8, <1>b, <2>1 DEF Goal
<1>9. ASSUME NEW t \in Tasks, Excepted(t) PROVE Goal
  <2>1. CASE t = w
    BY <1>w, <1>9, <2>1
  <2> QED
    BY <1>9, <1>b, <2>1 DEF Goal
<1>10. ASSUME NEW t \in Tasks, NEW l \in PCs, Turned(t, l) PROVE Goal
  <2>1. CASE t = w
    BY <1>w, <1>10, <2>1 DEF Turned, Calling, InCall, At
  <2> QED
    BY <1>10, <1>b, <2>1 DEF Goal
<1>11. ASSUME NEW t \in Tasks, NEW l \in PCs, Moved(t, l) PROVE Goal
  <2>1. CASE t = w
    <3>1. Turns(w, l) /\ l \in {"except", "woken", "parked"} /\ UNCHANGED fst
      BY <1>11, <2>1 DEF Moved, ListsKept
    <3> QED
      BY <1>w, <3>1 DEF Goal, Turns, Awaiting, Fut
  <2> QED
    BY <1>11, <1>b, <2>1 DEF Goal
<1>12. ASSUME NEW t \in Tasks, NEW p \in Lists, Slept(t, p) PROVE Goal
  <2>1. CASE t = w
    BY <1>w, <1>12, <2>1 DEF Slept, At
  <2> QED
    BY <1>12, <1>b, <2>1 DEF Goal
<1>13. ASSUME NEW t \in Tasks, NEW p \in Lists, Emptied(t, p) PROVE Goal
  <2>1. CASE t = w
    BY <1>w, <1>13, <2>1 DEF Emptied, Calling, At
  <2> QED
    BY <1>13, <1>b, <2>1 DEF Goal
<1>14. ASSUME NEW t \in Tasks, NEW p \in Lists, NEW l \in {"next", "cwait", "raise"},
              Roused(t, p, l)
       PROVE  Goal
  <2>1. CASE t = w
    BY <1>w, <1>14, <2>1 DEF Roused, Calling, At
  <2> QED
    BY <1>14, <1>b, <2>1 DEF Goal
<1>15. ASSUME NEW t \in Tasks, NEW i \in 1 .. Len(Source(t)), WakePopped(t, i) PROVE Goal
  <2>1. CASE t = w
    BY <1>w, <1>15, <2>1 DEF WakePopped, WakePops, At
  <2> QED
    BY <1>15, <1>b, <2>1 DEF Goal
<1>16. ASSUME NEW c \in Cancellers, Cancelled(c) PROVE Goal
  BY <1>c, <1>16 DEF Goal
<1>17. ASSUME NEW c \in Cancellers, NEW t \in Tasks, Aimed(c, t) PROVE Goal
  BY <1>c, <1>17 DEF Goal
<1>18. ASSUME Rested PROVE Goal
  BY <1>c, <1>18 DEF Goal
<1> QED
  BY <1>d, <1>1, <1>2, <1>3, <1>4, <1>5, <1>6, <1>7, <1>8, <1>9, <1>10, <1>11, <1>12, <1>13,
     <1>14, <1>15, <1>16, <1>17, <1>18
     DEF Goal, Deed

LEMMA QueueListsStep ==
  ASSUME IInv, Deed, QueueLists
  PROVE  QueueLists'
<1> USE DEF IInv
<1>0. {"getters", "putters"} \subseteq Lists /\ MuOf("getters") = "queue" /\ MuOf("putters") = "queue"
      /\ "getters" \notin Events /\ "putters" \notin Events /\ "queue" \in Mutexes
  BY DEF Lists, Events, MuOf, Mutexes
<1> SUFFICES ASSUME NEW o \in {"getters", "putters"}
             PROVE  /\ (\A f \in Content(waiters[o]) : Waited(f, o))'
                    /\ \A u \in Tasks : (At(u, "offer") /\ task[u].obj = o => Waited(task[u].offer, o))'
  BY DEF QueueLists
<1>1. \A f \in In(o) : f \in Futs /\ Exists(f) /\ Waited(f, o)
  BY <1>0, ContentTyped DEF TypeOK, Known, In, QueueLists
<1>a. ASSUME NEW f \in Futs, Excepted(f[1]), f = Fut(f[1]), f \in In(o)
      PROVE  task[f[1]].obj = o /\ f \notin In(o)'
  <2> PICK w \in Tasks : w = f[1]
    BY DEF Futs
  <2>1. Waits(w) /\ ListOf(w) = task[w].obj
    BY <1>a DEF Excepted, Waits, ListOf, Awaiting, At
  <2>2. task[w].obj = o
    BY <1>0, <1>a, <2>1 DEF Placed, In
  <2>3. Withdraw(o, f)
    BY <1>a, <2>2 DEF Excepted
  <2> QED
    BY <1>0, <2>2, <2>3, WithdrawRelists
<1>2. ASSUME NEW f \in In(o)' PROVE Waited(f, o)'
  <2>1. CASE f \in In(o)
    <3>1. Excepted(f[1]) => f # Fut(f[1])
      BY <1>1, <1>2, <1>a, <2>1
    <3> QED
      BY <1>1, <2>1, <3>1, WaitedStays
  <2>2. CASE f \notin In(o)
    <3>1. ~Steady
      BY <1>0, <1>2, <2>2 DEF Steady, Shrinks
    <3>2. PICK t \in Tasks, p \in Lists : Enters(t, p)
      BY <3>1, DeedKinds DEF Kind
    <3>3. Relists(p) /\ In(p)' = In(p) \cup {NewFut(t)} /\ Adds(t) /\ NewFut(t) \in Futs
      BY <3>2, QueuesRelist, LastExists DEF Enters
    <3>4. p = o /\ f = NewFut(t)
      BY <1>0, <1>2, <2>2, <3>3 DEF Relists, In
    <3>5. (Awaiting(t) /\ task[t].obj = o)'
      BY <1>0, <3>2, <3>4 DEF Enters, ListOf, Waits
    <3>6. f[1] = t /\ Fut(t)' = f
      BY <3>3, <3>4 DEF Adds, NewFut
    <3> QED
      BY <3>5, <3>6 DEF Waited
  <2> QED
    BY <2>1, <2>2
<1>3. ASSUME NEW u \in Tasks, At(u, "offer")', task'[u].obj = o PROVE Waited(task[u].offer, o)'
  <2>1. Handed(u)
    BY DeedHanded
  <2>2. \/ At(u, "offer") /\ task'[u].offer = task[u].offer /\ task[u].obj = o
        \/ task'[u].offer \in In(o)
    BY <1>0, <1>3, <2>1 DEF Handed, At
  <2>3. task'[u].offer \in Futs /\ Exists(task'[u].offer) /\ Waited(task'[u].offer, o)
    BY <1>1, <2>2 DEF Flow, FlowAt, Known, QueueLists
  <2> PICK f \in Futs : f = task'[u].offer
    BY <2>3
  <2>4. ASSUME Excepted(f[1]), f = Fut(f[1]) PROVE FALSE
    <3> PICK w \in Tasks : w = f[1]
      BY DEF Futs
    <3>1. Waits(w) /\ ListOf(w) = task[w].obj /\ At(w, "except")
      BY <2>4 DEF Excepted, Waits, ListOf, Awaiting, At
    <3>2. task[w].obj = o
      <4>1. CASE f \in In(o)
        BY <1>a, <2>4, <4>1
      <4>2. CASE At(u, "offer") /\ task[u].offer = f /\ task[u].obj = o
        BY <1>0, <2>4, <3>1, <4>2 DEF Apart
      <4> QED
        BY <2>2, <4>1, <4>2
    <3>3. Free("queue") /\ Acts(w)
      BY <1>0, <2>4, <3>2, DeedFrames DEF Excepted
    <3>4. u # w
      BY <1>3, <2>4 DEF Excepted, Retakes, Rouses, Raises, At
    <3>5. At(u, "offer") /\ task[u].obj = o
      BY <1>3, <3>3, <3>4, OthersStand DEF Standing, Same, At
    <3>6. mu["queue"] = u
      BY <1>0, <3>5 DEF Flow, FlowAt, Wakes, At
    <3> QED
      BY <3>3, <3>6, NotFree
  <2>5. Waited(f, o)'
    BY <2>3, <2>4, WaitedStays
  <2> QED
    BY <2>5 DEF Waited, Pending, State, Fut, Awaiting
<1>4. (\A f \in Content(waiters[o]) : Waited(f, o))'
  BY <1>2 DEF In
<1> QED
  BY <1>3, <1>4

-----------------------------------------------------------------------------
\* Claimed: the count of the woken waiters against that of the items.

\* A step of t leaves the records and the futures of the others alone.
Moves(t) == Frame(t) /\ \A u \in Tasks : u # t => FutureStays(u)

LEMMA StepMoves ==
  ASSUME IInv, NEW t \in Tasks, TaskStep(t) \/ OtherAwait(t)
  PROVE  Moves(t)
<1> USE DEF IInv
<1> DEFINE Add    == fst' = [fst EXCEPT ![t] = Append(@, "pending")]
           Others == \A u \in Tasks : u # t => FutureStays(u)
<1>a. CASE UNCHANGED fst
  BY <1>a, QuietStays, OneMoves DEF Moves
<1>b. CASE Add
  BY <1>b, StaysByAdding, OneMoves DEF Moves
<1>1. ASSUME Call(t) PROVE UNCHANGED fst \/ Add
  <2> USE DEF Enqueue
  <2>1. CASE Set(t) \/ Clear(t) \/ Wait(t)
    BY <2>1 DEF Set, SetEvent, Clear, Wait, WaitEvent
  <2>2. CASE Lock(t) \/ Unlock(t)
    BY <2>2 DEF Lock, Acquire, Unlock, Release
  <2>3. CASE CondWait(t) \/ Notify(t) \/ NotifyAll(t)
    BY <2>3 DEF CondWait, Notify, NotifyAll
  <2>4. CASE Put(t) \/ PutNowait(t)
    BY <2>4 DEF Put, PutNowait, PutLocked
  <2>5. CASE Get(t) \/ GetNowait(t)
    BY <2>5 DEF Get, GetNowait, GetLocked
  <2>6. CASE TaskDone(t) \/ Join(t)
    BY <2>6 DEF TaskDone, Join
  <2> QED
    BY <1>1, <2>1, <2>2, <2>3, <2>4, <2>5, <2>6 DEF Call
<1>2. ASSUME Wake(t) \/ Arm(t) \/ Resume(t) \/ Woken(t) \/ Except(t) \/ CondRelease(t) \/ Raise(t)
             \/ PutClear(t) \/ OtherAwait(t)
      PROVE  UNCHANGED fst
  BY <1>2 DEF Wake, Arm, Resume, Woken, Except, CondRelease, Release, Raise, PutClear, OtherAwait
<1>3. ASSUME Relock(t) \/ Finish(t) \/ JoinWait(t) PROVE UNCHANGED fst \/ Add
  BY <1>3 DEF Relock, Acquire, Finish, SetEvent, JoinWait, WaitEvent, Enqueue
<1>4. CASE Offer(t)
  <2>1. CASE ~Done(task[t].offer)
    <3>1. Completes(t) /\ At(t, "offer")
      BY <1>4, <2>1 DEF Offer, Completes
    <3>2. task[t].offer \in Futs /\ Writes(task[t].offer, "result")
      BY <3>1, CompleteFuture
    <3> PICK f \in Futs : f = task[t].offer
      BY <3>2
    <3>3. \A u \in Tasks : FutureStays(u)
      BY <2>1, <3>2, StaysByWriting
    <3> QED
      BY <3>3, OneMoves DEF Moves
  <2>2. CASE Done(task[t].offer)
    BY <1>4, <1>a, <2>2 DEF Offer
  <2> QED
    BY <2>1, <2>2
<1> QED
  BY <1>a, <1>b, <1>1, <1>2, <1>3, <1>4 DEF TaskStep

\* Who was on the way still is, and nobody starts to wait unwoken.
Keeps(u, o) == (OnWay(u, o) => OnWay(u, o)') /\ (Unwoken(u, o)' => Unwoken(u, o))

LEMMA StandingKeeps ==
  ASSUME IInv, NEW u \in Tasks, NEW o, Same(u), FutureStays(u)
  PROVE  Keeps(u, o)
<1>1. Awaiting(u)' = Awaiting(u) /\ task'[u].obj = task[u].obj /\ At(u, "again")' = At(u, "again")
  BY DEF Same, Awaiting, At
<1>2. CASE Awaiting(u)
  <2>1. fst[u] # <<>>
    BY <1>2 DEF IInv, Flow, FlowAt, Waits
  <2>2. Fut(u)' = Fut(u) /\ (Done(Fut(u)) => State(Fut(u))' = State(Fut(u)))
    BY <2>1 DEF FutureStays
  <2> QED
    BY <1>1, <1>2, <2>2 DEF Keeps, OnWay, EnRoute, Unwoken, Pending, Done
<1>3. CASE ~Awaiting(u)
  BY <1>1, <1>3 DEF Keeps, OnWay, EnRoute, Unwoken
<1> QED
  BY <1>2, <1>3

LEMMA OthersKeep ==
  ASSUME IInv, NEW t \in Tasks, NEW o, Moves(t)
  PROVE  \A u \in Tasks : u # t => Keeps(u, o)
  BY StandingKeeps DEF Moves, Frame

\* The number of those on the way.
LEMMA WayFinite == ASSUME NEW o PROVE IsFiniteSet(EnRoute(o)) /\ Cardinality(EnRoute(o)) \in Nat
<1>1. EnRoute(o) \subseteq Tasks
  BY DEF EnRoute
<1> QED
  BY <1>1, TasksAssumption, FS_Subset, FS_CardinalityType

LEMMA WayKept ==
  ASSUME NEW o, \A u \in Tasks : OnWay(u, o) => OnWay(u, o)'
  PROVE  Cardinality(EnRoute(o)) <= Cardinality(EnRoute(o))'
<1> PICK E : E = EnRoute(o)
  OBVIOUS
<1> PICK F : F = EnRoute(o)'
  OBVIOUS
<1>1. E \subseteq F /\ F \subseteq Tasks
  BY DEF OnWay, EnRoute
<1>2. IsFiniteSet(F)
  BY <1>1, TasksAssumption, FS_Subset
<1>3. Cardinality(E) <= Cardinality(F)
  BY <1>1, <1>2, FS_Subset
<1> QED
  BY <1>3

\* One more.
LEMMA WayGains ==
  ASSUME NEW o, NEW w \in Tasks, ~OnWay(w, o), OnWay(w, o)',
         \A u \in Tasks : OnWay(u, o) => OnWay(u, o)'
  PROVE  Cardinality(EnRoute(o)) + 1 <= Cardinality(EnRoute(o))'
<1> PICK E : E = EnRoute(o)
  OBVIOUS
<1> PICK F : F = EnRoute(o)'
  OBVIOUS
<1>1. E \cup {w} \subseteq F /\ F \subseteq Tasks /\ w \notin E /\ E \subseteq Tasks
  BY DEF OnWay, EnRoute
<1>2. IsFiniteSet(F) /\ IsFiniteSet(E)
  BY <1>1, TasksAssumption, FS_Subset
<1>3. Cardinality(E \cup {w}) = Cardinality(E) + 1
  BY <1>1, <1>2, FS_AddElement
<1>4. Cardinality(E \cup {w}) <= Cardinality(F)
  BY <1>1, <1>2, FS_Subset
<1> QED
  BY <1>3, <1>4

\* One less.
LEMMA WayLoses ==
  ASSUME NEW o, NEW t \in Tasks, \A u \in Tasks : u # t /\ OnWay(u, o) => OnWay(u, o)'
  PROVE  Cardinality(EnRoute(o)) - 1 <= Cardinality(EnRoute(o))'
<1> PICK E : E = EnRoute(o)
  OBVIOUS
<1> PICK F : F = EnRoute(o)'
  OBVIOUS
<1>1. E \ {t} \subseteq F /\ F \subseteq Tasks /\ E \subseteq Tasks
  BY DEF OnWay, EnRoute
<1>2. IsFiniteSet(F) /\ IsFiniteSet(E)
  BY <1>1, TasksAssumption, FS_Subset
<1>3. Cardinality(E \ {t}) = IF t \in E THEN Cardinality(E) - 1 ELSE Cardinality(E)
  BY <1>2, FS_RemoveElement
<1>4. Cardinality(E \ {t}) <= Cardinality(F) /\ Cardinality(E) \in Nat /\ Cardinality(F) \in Nat
  BY <1>1, <1>2, FS_Subset, FS_CardinalityType
<1> QED
  BY <1>3, <1>4

LEMMA ClaimTyped == ASSUME TypeOK, NEW o PROVE ToClaim(o) \in Int
  BY DEF ToClaim, TypeOK

\* A step that changes no count.
LEMMA ClaimKept ==
  ASSUME TypeOK, TypeOK', NEW o, ClaimedOf(o), \A u \in Tasks : Keeps(u, o),
         \A u \in Tasks : Passing(u, o) => Passing(u, o)', UNCHANGED <<size, maxsize>>
  PROVE  ClaimedOf(o)'
<1> SUFFICES ASSUME NEW t \in Tasks, Unwoken(t, o)'
             PROVE  (ToClaim(o) <= Cardinality(EnRoute(o))
                                     + (IF \E u \in Tasks : Passing(u, o) THEN 1 ELSE 0))'
  BY DEF ClaimedOf
<1>1. ToClaim(o) <= Cardinality(EnRoute(o)) + (IF \E u \in Tasks : Passing(u, o) THEN 1 ELSE 0)
  BY DEF ClaimedOf, Keeps
<1>2. Cardinality(EnRoute(o)) <= Cardinality(EnRoute(o))'
  BY WayKept DEF Keeps
<1>3. Cardinality(EnRoute(o)) \in Nat /\ Cardinality(EnRoute(o))' \in Nat
  <2>1. EnRoute(o)' \subseteq Tasks
    BY DEF EnRoute
  <2> QED
    BY <2>1, WayFinite, TasksAssumption, FS_Subset, FS_CardinalityType
<1>4. ToClaim(o)' = ToClaim(o) /\ ToClaim(o) \in Int
  BY ClaimTyped DEF ToClaim
<1> QED
  BY <1>1, <1>2, <1>3, <1>4

LEMMA ClaimIdle ==
  ASSUME IInv, TypeOK', Claimed, NEW t \in Tasks, Moves(t),
         \A o \in {"getters", "putters"} : Keeps(t, o) /\ (Passing(t, o) => Passing(t, o)'),
         UNCHANGED <<size, maxsize>>, faults \subseteq faults'
  PROVE  Claimed'
<1>1. ASSUME NEW o \in {"getters", "putters"}, ClaimedOf(o) PROVE ClaimedOf(o)'
  <2>1. \A u \in Tasks : Keeps(u, o)
    BY OthersKeep
  <2>2. \A u \in Tasks : Passing(u, o) => Passing(u, o)'
    BY DEF Moves, Frame, Same, Passing, Wakes, At
  <2> QED
    BY <1>1, <2>1, <2>2, ClaimKept DEF IInv
<1> QED
  BY <1>1 DEF Claimed

\* A task that has nothing to do with the queue, before or after the step.
LEMMA ClaimAway ==
  ASSUME IInv, TypeOK', Claimed, NEW t \in Tasks, Moves(t), ~Awaiting(t),
         task[t].pc \notin {"again", "clear", "wake", "offer"},
         Awaiting(t)' => task'[t].obj \notin {"getters", "putters"},
         UNCHANGED <<size, maxsize>>, faults \subseteq faults'
  PROVE  Claimed'
<1>1. ASSUME NEW o \in {"getters", "putters"} PROVE Keeps(t, o) /\ ~Passing(t, o)
  BY DEF Keeps, OnWay, EnRoute, Unwoken, Passing, Wakes, At
<1> QED
  BY <1>1, ClaimIdle

\* While the mutex of the queue is free, nobody is between an item and its wake.
LEMMA NonePassing ==
  ASSUME Flow, NEW o \in {"getters", "putters"}, Free("queue")
  PROVE  \A u \in Tasks : ~Passing(u, o)
<1> SUFFICES ASSUME NEW u \in Tasks, Passing(u, o) PROVE FALSE
  OBVIOUS
<1>1. MuOf(o) = "queue" /\ o # "hand"
  BY DEF MuOf
<1>2. mu["queue"] = u
  BY <1>1 DEF Flow, FlowAt, Passing
<1> QED
  BY <1>2, NotFree

\* _put_locked stores an item, and is about to wake a getter; a put that had been woken has
\* had its place.
LEMMA ClaimPuts ==
  ASSUME IInv, TypeOK', Claimed, NEW t \in Tasks, Moves(t), PutLocked(t), Free("queue"),
         task[t].pc \in {"run", "again"}, ~HeadIs(t, "get"), UNCHANGED <<maxsize, faults>>
  PROVE  Claimed'
<1> USE DEF IInv
<1> SUFFICES ASSUME ClaimedOf("getters"), ClaimedOf("putters")
             PROVE  ClaimedOf("getters")' /\ ClaimedOf("putters")'
  BY DEF Claimed
<1>1. Turns(t, "clear") /\ size' = size + 1 /\ size \in Nat /\ maxsize \in Nat
  BY PutLockedDoes DEF PutLocked, StoreItem, TypeOK
<1>2. ~Awaiting(t) /\ (At(t, "again") => task[t].obj = "putters")
  BY DEF Awaiting, Heads, HeadsAt
<1>3. \A o : ~Unwoken(t, o)'
  BY <1>1 DEF Turns, Unwoken, Awaiting
<1>4. \A o \in {"getters", "putters"} : \A u \in Tasks : Unwoken(u, o)' => Unwoken(u, o)
  BY <1>3, OthersKeep DEF Keeps
<1>5. \A o \in {"getters", "putters"} : \A u \in Tasks : ~Passing(u, o)
  BY NonePassing
<1>6. \A o \in {"getters", "putters"} : Cardinality(EnRoute(o)) \in Nat /\ Cardinality(EnRoute(o))' \in Nat
  <2>1. \A o : EnRoute(o)' \subseteq Tasks
    BY DEF EnRoute
  <2> QED
    BY <2>1, WayFinite, TasksAssumption, FS_Subset, FS_CardinalityType
<1>7. ClaimedOf("getters")'
  <2> SUFFICES ASSUME NEW u \in Tasks, Unwoken(u, "getters")'
               PROVE  (ToClaim("getters") <= Cardinality(EnRoute("getters"))
                         + (IF \E v \in Tasks : Passing(v, "getters") THEN 1 ELSE 0))'
    BY DEF ClaimedOf
  <2>1. Passing(t, "getters")'
    BY <1>1 DEF Turns, Passing, At
  <2>2. size <= Cardinality(EnRoute("getters"))
    BY <1>4, <1>5, <1>6 DEF ClaimedOf, ToClaim
  <2>3. ~OnWay(t, "getters")
    BY <1>2 DEF OnWay, EnRoute
  <2>4. Cardinality(EnRoute("getters")) <= Cardinality(EnRoute("getters"))'
    BY <2>3, OthersKeep, WayKept DEF Keeps
  <2>5. ToClaim("getters")' = size + 1
    BY <1>1 DEF ToClaim
  <2> QED
    BY <1>1, <1>6, <2>1, <2>2, <2>4, <2>5
<1>8. ClaimedOf("putters")'
  <2> SUFFICES ASSUME NEW u \in Tasks, Unwoken(u, "putters")'
               PROVE  (ToClaim("putters") <= Cardinality(EnRoute("putters"))
                         + (IF \E v \in Tasks : Passing(v, "putters") THEN 1 ELSE 0))'
    BY DEF ClaimedOf
  <2>2. maxsize - size <= Cardinality(EnRoute("putters"))
    BY <1>4, <1>5, <1>6 DEF ClaimedOf, ToClaim
  <2>4. Cardinality(EnRoute("putters")) - 1 <= Cardinality(EnRoute("putters"))'
    BY OthersKeep, WayLoses DEF Keeps
  <2>5. ToClaim("putters")' = maxsize - (size + 1)
    BY <1>1 DEF ToClaim
  <2> QED
    BY <1>1, <1>6, <2>2, <2>4, <2>5
<1> QED
  BY <1>7, <1>8

\* _get_locked, the other way round.
LEMMA ClaimGets ==
  ASSUME IInv, TypeOK', Claimed, NEW t \in Tasks, Moves(t), GetLocked(t), Free("queue"),
         task[t].pc \in {"run", "again"}, ~HeadIs(t, "put"), UNCHANGED <<maxsize, faults>>
  PROVE  Claimed'
<1> USE DEF IInv
<1> SUFFICES ASSUME ClaimedOf("getters"), ClaimedOf("putters")
             PROVE  ClaimedOf("getters")' /\ ClaimedOf("putters")'
  BY DEF Claimed
<1>1. Rouses(t, "putters", "next") /\ size' = size - 1 /\ size \in Nat /\ maxsize \in Nat
  BY GetLockedDoes DEF GetLocked, TakeItem, TypeOK
<1>2. ~Awaiting(t) /\ (At(t, "again") => task[t].obj = "getters")
  BY DEF Awaiting, Heads, HeadsAt
<1>3. \A o : ~Unwoken(t, o)'
  BY <1>1 DEF Rouses, Unwoken, Awaiting
<1>4. \A o \in {"getters", "putters"} : \A u \in Tasks : Unwoken(u, o)' => Unwoken(u, o)
  BY <1>3, OthersKeep DEF Keeps
<1>5. \A o \in {"getters", "putters"} : \A u \in Tasks : ~Passing(u, o)
  BY NonePassing
<1>6. \A o \in {"getters", "putters"} : Cardinality(EnRoute(o)) \in Nat /\ Cardinality(EnRoute(o))' \in Nat
  <2>1. \A o : EnRoute(o)' \subseteq Tasks
    BY DEF EnRoute
  <2> QED
    BY <2>1, WayFinite, TasksAssumption, FS_Subset, FS_CardinalityType
<1>7. ClaimedOf("putters")'
  <2> SUFFICES ASSUME NEW u \in Tasks, Unwoken(u, "putters")'
               PROVE  (ToClaim("putters") <= Cardinality(EnRoute("putters"))
                         + (IF \E v \in Tasks : Passing(v, "putters") THEN 1 ELSE 0))'
    BY DEF ClaimedOf
  <2>1. Passing(t, "putters")'
    BY <1>1 DEF Rouses, Passing, Wakes
  <2>2. maxsize - size <= Cardinality(EnRoute("putters"))
    BY <1>4, <1>5, <1>6 DEF ClaimedOf, ToClaim
  <2>3. ~OnWay(t, "putters")
    BY <1>2 DEF OnWay, EnRoute
  <2>4. Cardinality(EnRoute("putters")) <= Cardinality(EnRoute("putters"))'
    BY <2>3, OthersKeep, WayKept DEF Keeps
  <2>5. ToClaim("putters")' = maxsize - (size - 1)
    BY <1>1 DEF ToClaim
  <2> QED
    BY <1>1, <1>6, <2>1, <2>2, <2>4, <2>5
<1>8. ClaimedOf("getters")'
  <2> SUFFICES ASSUME NEW u \in Tasks, Unwoken(u, "getters")'
               PROVE  (ToClaim("getters") <= Cardinality(EnRoute("getters"))
                         + (IF \E v \in Tasks : Passing(v, "getters") THEN 1 ELSE 0))'
    BY DEF ClaimedOf
  <2>2. size <= Cardinality(EnRoute("getters"))
    BY <1>4, <1>5, <1>6 DEF ClaimedOf, ToClaim
  <2>4. Cardinality(EnRoute("getters")) - 1 <= Cardinality(EnRoute("getters"))'
    BY OthersKeep, WayLoses DEF Keeps
  <2>5. ToClaim("getters")' = size - 1
    BY <1>1 DEF ToClaim
  <2> QED
    BY <1>1, <1>6, <2>2, <2>4, <2>5
<1> QED
  BY <1>7, <1>8

\* A get that finds no item, or a put that finds no place, leaves nothing unclaimed.
LEMMA ClaimSleeps ==
  ASSUME IInv, TypeOK', Claimed, NEW t \in Tasks, Moves(t), NEW o \in {"getters", "putters"},
         Sleeps(t, o), task[t].pc \in {"run", "again"}, At(t, "again") => task[t].obj = o,
         UNCHANGED <<size, maxsize, faults>>, ToClaim(o) <= 0
  PROVE  Claimed'
<1> USE DEF IInv
<1> SUFFICES ASSUME ClaimedOf("getters"), ClaimedOf("putters"), NEW p \in {"getters", "putters"}
             PROVE  ClaimedOf(p)'
  BY DEF Claimed
<1>1. CASE p = o
  <2>1. ToClaim(p)' <= 0 /\ ToClaim(p)' \in Int
    BY <1>1 DEF ToClaim, TypeOK
  <2>2. Cardinality(EnRoute(p))' \in Nat
    <3>1. EnRoute(p)' \subseteq Tasks
      BY DEF EnRoute
    <3> QED
      BY <3>1, TasksAssumption, FS_Subset, FS_CardinalityType
  <2>3. (ToClaim(p) <= Cardinality(EnRoute(p)) + (IF \E v \in Tasks : Passing(v, p) THEN 1 ELSE 0))'
    BY <2>1, <2>2
  <2> QED
    BY <2>3 DEF ClaimedOf
<1>2. CASE p # o
  <2>1. Keeps(t, p) /\ ~Passing(t, p)
    BY <1>2 DEF Keeps, OnWay, EnRoute, Unwoken, Sleeps, Awaiting, Passing, Wakes, At
  <2>2. \A u \in Tasks : Keeps(u, p)
    BY <2>1, OthersKeep
  <2>3. \A u \in Tasks : Passing(u, p) => Passing(u, p)'
    BY <2>1 DEF Moves, Frame, Same, Passing, Wakes, At
  <2> QED
    BY <2>2, <2>3, ClaimKept
<1> QED
  BY <1>1, <1>2

\* The loop of _put_locked or _get_locked ends without a wake only if nobody waits.
LEMMA ClaimWakes ==
  ASSUME IInv, TypeOK', Claimed, Listed, NEW t \in Tasks, Moves(t), Wake(t)
  PROVE  Claimed'
<1> USE DEF IInv
<1>0. UNCHANGED <<size, maxsize, faults>> /\ At(t, "wake") /\ ~Awaiting(t) /\ ~At(t, "again")
      /\ ~At(t, "clear") /\ Wakes(t)
  BY DEF Wake, At, Awaiting, Wakes
<1>1. ASSUME NEW i, WakePops(t, i) PROVE Claimed'
  <2>1. ASSUME NEW o \in {"getters", "putters"}
        PROVE  Keeps(t, o) /\ (Passing(t, o) => Passing(t, o)')
    BY <1>0, <1>1 DEF WakePops, Keeps, OnWay, EnRoute, Unwoken, Awaiting, Passing, Wakes, At
  <2> QED
    BY <1>0, <2>1, ClaimIdle
<1>2. CASE WakeEnds(t)
  <2> SUFFICES ASSUME ClaimedOf("getters"), ClaimedOf("putters"), NEW o \in {"getters", "putters"}
               PROVE  ClaimedOf(o)'
    BY <1>0 DEF Claimed
  <2>0. Keeps(t, o)
    BY <1>0, <1>2 DEF WakeEnds, Ends, Keeps, OnWay, EnRoute, Unwoken, Awaiting, At
  <2>1. \A u \in Tasks : Keeps(u, o)
    BY <2>0, OthersKeep
  <2>2. CASE task[t].obj # o
    <3>1. \A u \in Tasks : Passing(u, o) => Passing(u, o)'
      BY <1>0, <2>2 DEF Moves, Frame, Same, Passing, Wakes, At
    <3> QED
      BY <1>0, <2>1, <3>1, ClaimKept
  <2>3. CASE task[t].obj = o
    <3>1. o \in Lists /\ o # "hand" /\ o \notin Events \cup {"cond"} /\ MuOf(o) = "queue"
      BY DEF Lists, Events, MuOf
    <3>2. \A f \in In(o) : Done(f)
      BY <1>2, <2>3, <3>1 DEF WakeEnds, Source, In, Content
    <3>3. ASSUME NEW u \in Tasks, Unwoken(u, o) PROVE FALSE
      <4>1. Waits(u) /\ ListOf(u) = o /\ Pending(Fut(u))
        BY <3>3 DEF Unwoken, Waits, ListOf
      <4>2. Fut(u) \notin In(o)
        BY <3>2, <4>1 DEF Done, Pending
      <4>3. PICK v \in Tasks : Holds(v, Fut(u), o)
        BY <4>1, <4>2 DEF Listed, In
      <4>4. At(v, "offer") /\ task[v].obj = o
        BY <3>1, <4>3 DEF Holds
      <4>5. mu["queue"] = v /\ mu["queue"] = t
        BY <1>0, <2>3, <3>1, <4>4 DEF Flow, FlowAt, Wakes, At
      <4> QED
        BY <1>0, <4>4, <4>5 DEF At
    <3>4. \A u \in Tasks : ~Unwoken(u, o)'
      BY <2>1, <3>3 DEF Keeps
    <3> QED
      BY <3>4 DEF ClaimedOf
  <2> QED
    BY <2>2, <2>3
<1> QED
  BY <1>1, <1>2, WakeDoes

\* The wake: the waiter that is given the result counts for the item.
LEMMA ClaimOffers ==
  ASSUME IInv, TypeOK', Claimed, QueueLists, NEW t \in Tasks, Moves(t), Offer(t)
  PROVE  Claimed'
<1> USE DEF IInv
<1>0. UNCHANGED <<size, maxsize>> /\ At(t, "offer") /\ ~Awaiting(t) /\ ~At(t, "again")
      /\ ~At(t, "clear") /\ Wakes(t) /\ faults \subseteq faults'
  BY DEF Offer, At, Awaiting, Wakes
<1>1. CASE Done(task[t].offer)
  <2>1. "invalid" \in faults'
    BY <1>1 DEF Offer
  <2> QED
    BY <2>1 DEF Claimed
<1>2. CASE ~Done(task[t].offer)
  <2> SUFFICES ASSUME ClaimedOf("getters"), ClaimedOf("putters"), NEW o \in {"getters", "putters"}
               PROVE  ClaimedOf(o)'
    BY <1>0 DEF Claimed
  <2>0. Keeps(t, o)
    <3>1. ~Unwoken(t, o)'
      BY <1>2, OfferEnds, OfferGoesOn DEF Ends, Unwoken, Awaiting
    <3> QED
      BY <1>0, <3>1 DEF Keeps, OnWay, EnRoute
  <2>1. \A u \in Tasks : Keeps(u, o)
    BY <2>0, OthersKeep
  <2>2. CASE task[t].obj # o
    <3>1. \A u \in Tasks : Passing(u, o) => Passing(u, o)'
      BY <1>0, <2>2 DEF Moves, Frame, Same, Passing, Wakes, At
    <3> QED
      BY <1>0, <2>1, <3>1, ClaimKept
  <2>3. CASE task[t].obj = o
    <3>1. Completes(t) /\ task[t].offer \in Futs /\ Exists(task[t].offer) /\ Writes(task[t].offer, "result")
      BY <1>0, <1>2, CompleteFuture DEF Offer, Completes
    <3> PICK f \in Futs : f = task[t].offer
      BY <3>1
    <3> PICK w \in Tasks : w = f[1]
      BY DEF Futs
    <3>2. f = Fut(w) /\ Awaiting(w) /\ task[w].obj = o /\ w # t
      BY <1>0, <1>2, <2>3 DEF QueueLists, Waited, Done, Pending
    <3>3. ~OnWay(w, o)
      BY <1>2, <3>2 DEF OnWay, EnRoute, Awaiting, At, Done
    <3>4. State(f)' = "result" /\ Fut(w)' = f
      BY <3>1, <3>2 DEF Writes
    <3>5. State(Fut(w))' = "result"
      BY <3>4 DEF State
    <3>6. Awaiting(w)' /\ task'[w].obj = o
      BY <3>2 DEF Moves, Frame, Same, Awaiting
    <3>7. OnWay(w, o)'
      BY <3>5, <3>6 DEF OnWay, EnRoute
    <3>8. Cardinality(EnRoute(o)) + 1 <= Cardinality(EnRoute(o))'
      BY <2>1, <3>3, <3>7, WayGains DEF Keeps
    <3>9. Cardinality(EnRoute(o)) \in Nat /\ Cardinality(EnRoute(o))' \in Nat
      <4>1. EnRoute(o)' \subseteq Tasks
        BY DEF EnRoute
      <4> QED
        BY <4>1, WayFinite, TasksAssumption, FS_Subset, FS_CardinalityType
    <3>10. ToClaim(o)' = ToClaim(o) /\ ToClaim(o) \in Int
      BY <1>0, ClaimTyped DEF ToClaim
    <3> SUFFICES ASSUME NEW u \in Tasks, Unwoken(u, o)'
                 PROVE  (ToClaim(o) <= Cardinality(EnRoute(o))
                           + (IF \E v \in Tasks : Passing(v, o) THEN 1 ELSE 0))'
      BY DEF ClaimedOf
    <3>11. ToClaim(o) <= Cardinality(EnRoute(o)) + 1
      BY <2>1, <3>9, <3>10 DEF ClaimedOf, Keeps
    <3> QED
      BY <3>8, <3>9, <3>10, <3>11
  <2> QED
    BY <2>2, <2>3
<1> QED
  BY <1>1, <1>2

\* The awaits: a waiter that has been woken looks at the queue again, one whose handler runs
\* had not been, or is reported.
LEMMA ClaimAwaits ==
  ASSUME IInv, TypeOK', Claimed, NEW t \in Tasks, Moves(t),
         Arm(t) \/ Resume(t) \/ Woken(t) \/ Except(t)
  PROVE  Claimed'
<1> USE DEF IInv
<1>0. /\ UNCHANGED <<size, maxsize, fst>> /\ faults \subseteq faults' /\ Awaiting(t)
      /\ ~At(t, "again") /\ ~At(t, "clear") /\ ~Wakes(t)
      /\ task[t].obj # "hand"
  BY DEF Arm, Resume, Woken, Except, objVars, Awaiting, At, Wakes, Flow, FlowAt
<1>a. Fut(t)' = Fut(t) /\ State(Fut(t))' = State(Fut(t))
  BY <1>0 DEF Fut, State
<1>b. ASSUME \A o \in {"getters", "putters"} : Keeps(t, o) PROVE Claimed'
  BY <1>0, <1>b, ClaimIdle DEF Passing
<1>1. CASE Arm(t) \/ Resume(t)
  <2>1. \E l \in {"except", "woken", "parked"} : Turns(t, l)
    BY <1>1, ArmDoes, ResumeDoes
  <2>2. Awaiting(t)' /\ task'[t].obj = task[t].obj
    BY <2>1 DEF Turns, Awaiting
  <2>3. \A o \in {"getters", "putters"} : Keeps(t, o)
    BY <1>0, <1>a, <2>2 DEF Keeps, OnWay, EnRoute, Unwoken, Pending
  <2> QED
    BY <1>b, <2>3
<1>2. CASE Woken(t)
  <2>1. ~Awaiting(t)' /\ (task[t].obj \in {"getters", "putters"} =>
                            At(t, "again")' /\ task'[t].obj = task[t].obj)
    BY <1>0, <1>2, WokenDoes DEF Returns, Raises, Turns, Awaiting, At, Events
  <2>2. \A o \in {"getters", "putters"} : Keeps(t, o)
    BY <1>0, <2>1 DEF Keeps, OnWay, EnRoute, Unwoken
  <2> QED
    BY <1>b, <2>2
<1>3. CASE Except(t)
  <2>1. ~Awaiting(t)'
    BY <1>3, ExceptDoes DEF Retakes, Rouses, Raises, Awaiting
  <2>2. CASE task[t].obj \in {"getters", "putters"} /\ State(Fut(t)) = "result"
    <3>1. "dropped" \in faults'
      BY <1>3, <2>2 DEF Except
    <3> QED
      BY <3>1 DEF Claimed
  <2>3. CASE ~(task[t].obj \in {"getters", "putters"} /\ State(Fut(t)) = "result")
    <3>1. \A o \in {"getters", "putters"} : Keeps(t, o)
      BY <1>0, <2>1, <2>3 DEF Keeps, OnWay, EnRoute, Unwoken
    <3> QED
      BY <1>b, <3>1
  <2> QED
    BY <2>2, <2>3
<1> QED
  BY <1>1, <1>2, <1>3

LEMMA ClaimStep ==
  ASSUME IInv, Listed, QueueLists, Claimed, [Next]_vars
  PROVE  Claimed'
<1> USE DEF IInv
<1>0. TypeOK' /\ Deed
  BY IInvStep
<1>a. ASSUME NEW t \in Tasks, NEW op, Calls(t, op)
      PROVE  /\ task[t].pc \in {"run", "again"} /\ task[t].prog # <<>> /\ ~Awaiting(t)
             /\ \A p : HeadIs(t, p) <=> p = op
             /\ op \notin {"get", "put"} => task[t].pc \notin {"again", "clear", "wake", "offer"}
             /\ At(t, "again") => task[t].obj = (IF op = "get" THEN "getters" ELSE "putters")
  BY <1>a DEF Calls, HeadIs, Awaiting, At, Heads, HeadsAt
<1>e. "event" \in Events /\ "finished" \in Events
      /\ \A e \in Events \cup {"lock", "cond"} : e \notin {"getters", "putters"}
  BY DEF Events
<1>1. ASSUME NEW t \in Tasks, Moves(t), Call(t) PROVE Claimed'
  <2>1. CASE Set(t)
    <3>1. ~Awaiting(t)'
      BY <1>a, <1>e, <2>1, SetEventDoes DEF Set, Returns, Empties, Awaiting
    <3> QED
      BY <1>0, <1>1, <1>a, <2>1, <3>1, ClaimAway DEF Set, SetEvent
  <2>2. CASE Clear(t)
    <3>1. ~Awaiting(t)'
      BY <1>a, <2>2, ReturnDoes DEF Clear, Returns, Awaiting
    <3> QED
      BY <1>0, <1>1, <1>a, <2>2, <3>1, ClaimAway DEF Clear
  <2>3. CASE Wait(t)
    <3>1. Awaiting(t)' => task'[t].obj \notin {"getters", "putters"}
      BY <1>a, <1>e, <2>3, WaitEventDoes DEF Wait, Returns, Sleeps, Awaiting
    <3> QED
      BY <1>0, <1>1, <1>a, <2>3, <3>1, ClaimAway DEF Wait, WaitEvent
  <2>4. CASE Lock(t)
    <3>1. Awaiting(t)' => task'[t].obj \notin {"getters", "putters"}
      BY <1>a, <2>4, AcquireDoes DEF Lock, Returns, Raises, Sleeps, Awaiting
    <3> QED
      BY <1>0, <1>1, <1>a, <2>4, <3>1, ClaimAway DEF Lock, Acquire
  <2>5. CASE Unlock(t)
    <3>1. ~Awaiting(t)'
      BY <2>5, ReleaseDoes DEF Unlock, Rouses, Awaiting
    <3> QED
      BY <1>0, <1>1, <1>a, <2>5, <3>1, ClaimAway DEF Unlock, Release
  <2>6. CASE CondWait(t)
    <3>1. ~Awaiting(t)'
      BY <2>6, CondWaitDoes DEF Turns, Awaiting
    <3> QED
      BY <1>0, <1>1, <1>a, <2>6, <3>1, ClaimAway DEF CondWait
  <2>7. CASE Notify(t)
    <3>1. ~Awaiting(t)'
      BY <2>7, NotifyDoes DEF Rouses, Awaiting
    <3> QED
      BY <1>0, <1>1, <1>a, <2>7, <3>1, ClaimAway DEF Notify
  <2>8. CASE NotifyAll(t)
    <3>1. ~Awaiting(t)'
      BY <2>8, NotifyAllDoes DEF Empties, Awaiting
    <3> QED
      BY <1>0, <1>1, <1>a, <2>8, <3>1, ClaimAway DEF NotifyAll
  <2>9. CASE Put(t)
    <3>1. Calls(t, "put") /\ Free("queue") /\ UNCHANGED <<maxsize, faults>>
      BY <2>9 DEF Put
    <3>2. CASE PutLocked(t)
      BY <1>0, <1>1, <1>a, <3>1, <3>2, ClaimPuts
    <3>3. CASE ~HasRoom /\ Sleeps(t, "putters") /\ UNCHANGED size
      <4>1. ToClaim("putters") <= 0
        BY <3>3 DEF HasRoom, ToClaim, TypeOK
      <4> QED
        BY <1>0, <1>1, <1>a, <3>1, <3>3, <4>1, ClaimSleeps
    <3> QED
      BY <2>9, <3>2, <3>3, PutDoes
  <2>10. CASE PutNowait(t)
    <3>1. Calls(t, "put_nowait") /\ Free("queue") /\ UNCHANGED <<maxsize, faults>>
      BY <2>10 DEF PutNowait
    <3>2. CASE PutLocked(t)
      BY <1>0, <1>1, <1>a, <3>1, <3>2, ClaimPuts
    <3>3. CASE Returns(t) /\ UNCHANGED size
      BY <1>0, <1>1, <1>a, <3>1, <3>3, ClaimAway DEF Returns, Awaiting
    <3> QED
      BY <2>10, <3>2, <3>3, PutNowaitDoes
  <2>11. CASE Get(t)
    <3>1. Calls(t, "get") /\ Free("queue") /\ UNCHANGED <<maxsize, faults>>
      BY <2>11 DEF Get
    <3>2. CASE GetLocked(t)
      BY <1>0, <1>1, <1>a, <3>1, <3>2, ClaimGets
    <3>3. CASE ~(size > 0) /\ Sleeps(t, "getters") /\ UNCHANGED size
      <4>1. ToClaim("getters") <= 0
        BY <3>3 DEF ToClaim, TypeOK
      <4> QED
        BY <1>0, <1>1, <1>a, <3>1, <3>3, <4>1, ClaimSleeps
    <3> QED
      BY <2>11, <3>2, <3>3, GetDoes
  <2>12. CASE GetNowait(t)
    <3>1. Calls(t, "get_nowait") /\ Free("queue") /\ UNCHANGED <<maxsize, faults>>
      BY <2>12 DEF GetNowait
    <3>2. CASE GetLocked(t)
      BY <1>0, <1>1, <1>a, <3>1, <3>2, ClaimGets
    <3>3. CASE Returns(t) /\ UNCHANGED size
      BY <1>0, <1>1, <1>a, <3>1, <3>3, ClaimAway DEF Returns, Awaiting
    <3> QED
      BY <2>12, <3>2, <3>3, GetNowaitDoes
  <2>13. CASE TaskDone(t)
    <3>1. ~Awaiting(t)'
      BY <2>13, TaskDoneDoes DEF Returns, Turns, Awaiting
    <3> QED
      BY <1>0, <1>1, <1>a, <2>13, <3>1, ClaimAway DEF TaskDone
  <2>14. CASE Join(t)
    <3>1. ~Awaiting(t)'
      BY <2>14, JoinDoes DEF Returns, Turns, Awaiting
    <3> QED
      BY <1>0, <1>1, <1>a, <2>14, <3>1, ClaimAway DEF Join, objVars
  <2> QED
    BY <1>1, <2>1, <2>2, <2>3, <2>4, <2>5, <2>6, <2>7, <2>8, <2>9, <2>10, <2>11, <2>12, <2>13, <2>14
       DEF Call
<1>b. ASSUME NEW t \in Tasks, task[t].pc \in {"run", "relock", "cwait", "raise", "finish", "joining"}
      PROVE  ~Awaiting(t) /\ task[t].pc \notin {"again", "clear", "wake", "offer"}
  BY <1>b DEF Awaiting
<1>c. ASSUME NEW t \in Tasks, task[t].pc \in {"relock", "finish", "joining"}
      PROVE  task[t].prog # <<>>
  BY <1>c DEF Busy, BusyAt
<1>2. ASSUME NEW t \in Tasks, Moves(t), Relock(t) PROVE Claimed'
  <2>1. task[t].pc = "relock" /\ Acquire(t) /\ UNCHANGED <<size, maxsize, faults>>
    BY <1>2 DEF Relock, Acquire, At
  <2>2. Awaiting(t)' => task'[t].obj \notin {"getters", "putters"}
    BY <1>c, <2>1, AcquireDoes DEF Returns, Raises, Sleeps, Awaiting
  <2> QED
    BY <1>0, <1>2, <1>b, <2>1, <2>2, ClaimAway
<1>3. ASSUME NEW t \in Tasks, Moves(t), CondRelease(t) PROVE Claimed'
  <2>1. task[t].pc = "cwait" /\ UNCHANGED <<size, maxsize>> /\ faults \subseteq faults' /\ ~Awaiting(t)'
    BY <1>3, ReleaseDoes DEF CondRelease, Release, At, Rouses, Awaiting
  <2> QED
    BY <1>0, <1>3, <1>b, <2>1, ClaimAway
<1>4. ASSUME NEW t \in Tasks, Moves(t), Raise(t) PROVE Claimed'
  <2>1. task[t].pc = "raise" /\ UNCHANGED <<size, maxsize>> /\ faults \subseteq faults'
    BY <1>4 DEF Raise, Release, At, objVars
  <2>2. ~Awaiting(t)'
    BY <1>4, RaiseDoes, ReleaseDoes DEF Rouses, Stops, Awaiting
  <2> QED
    BY <1>0, <1>4, <1>b, <2>1, <2>2, ClaimAway
<1>5. ASSUME NEW t \in Tasks, Moves(t), PutClear(t) PROVE Claimed'
  <2>1. Rouses(t, "getters", "next") /\ UNCHANGED <<size, maxsize, faults>> /\ At(t, "clear")
    BY <1>5, PutClearDoes DEF PutClear
  <2>2. ASSUME NEW o \in {"getters", "putters"}
        PROVE  Keeps(t, o) /\ (Passing(t, o) => Passing(t, o)')
    BY <2>1 DEF Rouses, Keeps, OnWay, EnRoute, Unwoken, Awaiting, Passing, Wakes, At
  <2> QED
    BY <1>0, <1>5, <2>1, <2>2, ClaimIdle
<1>6. ASSUME NEW t \in Tasks, Moves(t), Finish(t) PROVE Claimed'
  <2>1. task[t].pc = "finish" /\ UNCHANGED <<size, maxsize>> /\ faults \subseteq faults'
        /\ SetEvent(t, "finished", "next")
    BY <1>6 DEF Finish, SetEvent, At
  <2>2. ~Awaiting(t)'
    BY <1>c, <1>e, <2>1, SetEventDoes DEF Returns, Empties, Awaiting
  <2> QED
    BY <1>0, <1>6, <1>b, <2>1, <2>2, ClaimAway
<1>7. ASSUME NEW t \in Tasks, Moves(t), JoinWait(t) PROVE Claimed'
  <2>1. task[t].pc = "joining" /\ UNCHANGED <<size, maxsize, faults>> /\ WaitEvent(t, "finished")
    BY <1>7 DEF JoinWait, WaitEvent, At
  <2>2. Awaiting(t)' => task'[t].obj \notin {"getters", "putters"}
    BY <1>c, <1>e, <2>1, WaitEventDoes DEF Returns, Sleeps, Awaiting
  <2> QED
    BY <1>0, <1>7, <1>b, <2>1, <2>2, ClaimAway
<1>8. ASSUME NEW t \in Tasks, Moves(t), OtherAwait(t) PROVE Claimed'
  <2>1. task[t].pc = "run" /\ UNCHANGED <<size, maxsize, faults>>
    BY <1>8 DEF OtherAwait, At, objVars
  <2>2. ~Awaiting(t)'
    BY <1>8, OtherAwaitDoes DEF Raises, Awaiting
  <2> QED
    BY <1>0, <1>8, <1>b, <2>1, <2>2, ClaimAway
<1>9. ASSUME NEW t \in Tasks, TaskStep(t) PROVE Claimed'
  <2>1. Moves(t)
    BY <1>9, StepMoves
  <2> QED
    BY <1>0, <1>1, <1>2, <1>3, <1>4, <1>5, <1>6, <1>7, <1>9, <2>1, ClaimWakes, ClaimOffers,
       ClaimAwaits DEF TaskStep
<1>10. ASSUME NEW t \in Tasks, OtherAwait(t) PROVE Claimed'
  BY <1>8, <1>10, StepMoves
<1>11. ASSUME Idles, \A u \in Tasks : FutureStays(u), UNCHANGED <<size, maxsize, faults>>
       PROVE  Claimed'
  <2>1. \A u \in Tasks : Same(u) /\ \A o : Keeps(u, o)
    BY <1>11, StandingKeeps DEF Idles
  <2>2. \A u \in Tasks, o \in {"getters", "putters"} : Passing(u, o) => Passing(u, o)'
    BY <2>1 DEF Same, Passing, Wakes, At
  <2> QED
    BY <1>0, <1>11, <2>1, <2>2, ClaimKept DEF Claimed
<1>12. ASSUME NEW c \in Cancellers, NEW t \in Tasks, Cancel(c, t) PROVE Claimed'
  <2>1. UNCHANGED <<size, maxsize, faults, fst>>
    BY <1>12 DEF Cancel, objVars
  <2> QED
    BY <1>11, <1>12, <2>1, CancelDoes, LeaveFutures, StaysByLeaving
<1>13. ASSUME NEW c \in Cancellers, CancelFuture(c) PROVE Claimed'
  <2>1. UNCHANGED <<size, maxsize, faults, waiters, mu>> /\ aim' = [aim EXCEPT ![c] = <<"end">>]
    BY <1>13 DEF CancelFuture, objVars
  <2>2. Cancelled(c)
    BY <1>13, <2>1, CancelFutureDoes DEF Cancelled
  <2>3. Waves
    BY <2>2, DeedFrames
  <2> QED
    BY <1>11, <2>1, <2>3 DEF Waves
<1>14. CASE UNCHANGED vars
  <2>1. UNCHANGED <<task, size, maxsize, faults, fst>>
    BY <1>14 DEF vars, objVars
  <2> QED
    BY <1>11, <2>1, TasksKept, LeaveFutures, StaysByLeaving
<1> QED
  BY <1>9, <1>10, <1>12, <1>13, <1>14 DEF Next, Rest

\* Queue: while a get is suspended there are no more items than gets that have been woken,
\* and while a put is suspended no more places than woken puts, unless a waiter was cancelled
\* after its wake or a set_result raised.
THEOREM WakesAreEnough == Spec => []WakesSuffice
<1>1. Init => Listed /\ QueueLists /\ Claimed
  <2> SUFFICES ASSUME Init PROVE QueueLists /\ Claimed
    BY InitInv
  <2>1. PICK a \in Apps : task = [t \in Tasks |-> Start(a.prog[t])]
    BY DEF Init
  <2>2. \A t \in Tasks : task[t].pc = "run"
    BY <2>1 DEF Start
  <2>3. \A o \in {"getters", "putters"} : waiters[o] = <<>>
    BY DEF Init, Lists
  <2> QED
    BY <2>2, <2>3, SmallContent DEF QueueLists, Claimed, ClaimedOf, Unwoken, Awaiting, At
<1>2. IInv /\ Listed /\ QueueLists /\ Claimed /\ [Next]_vars => (Listed /\ QueueLists /\ Claimed)'
  <2> SUFFICES ASSUME IInv, Listed, QueueLists, Claimed, [Next]_vars
               PROVE  (Listed /\ QueueLists /\ Claimed)'
    OBVIOUS
  <2>1. Deed /\ Flow'
    BY IInvStep DEF IInv
  <2> QED
    BY <2>1, ListedStep, QueueListsStep, ClaimStep DEF IInv
<1>3. IInv /\ Claimed => WakesSuffice
  <2> SUFFICES ASSUME IInv, Claimed, Free("queue"), faults \cap {"dropped", "invalid"} = {}
               PROVE  /\ Asleep("getters") # {} => size <= Cardinality(EnRoute("getters"))
                      /\ Asleep("putters") # {} => maxsize - size <= Cardinality(EnRoute("putters"))
    BY DEF WakesSuffice
  <2>1. \A o \in {"getters", "putters"} : \A u \in Tasks : ~Passing(u, o)
    BY NonePassing DEF IInv
  <2>2. \A o \in {"getters", "putters"} : Asleep(o) # {} => \E u \in Tasks : Unwoken(u, o)
    BY DEF Asleep, Unwoken, Awaiting, At, Done, Pending
  <2>3. \A o \in {"getters", "putters"} : Cardinality(EnRoute(o)) \in Nat
    BY WayFinite
  <2> QED
    BY <2>1, <2>2, <2>3 DEF Claimed, ClaimedOf, ToClaim
<1> QED
  BY <1>1, <1>2, <1>3, IInvHolds, PTL DEF Spec
=============================================================================
